\* One update whose client leaves; the stores themselves do not fail.
CONSTANTS
  code = code
  note = note
  file = file
  k1 = k1
  v1 = v1
  v2 = v2
  f1 = f1
  update = update
  delete = delete
  upsert1 = upsert1
  upsert2 = upsert2
  upsert3 = upsert3
  Fields = {code, note, file}
  Values = {k1, v1, v2, f1}
  Null = Null
  FileField = file
  Files = {f1}
  MatchField = code
  ViewField = note
  Ops = {update}
  Kind <- KindOf
  Target <- FirstRecord
  Patch <- PatchOf
  Sees <- SeesV1
  Owner = {}
  ReadsAll = {}
  MayBind <- AnyFile
  FirstRow <- First
  MaxTime = 0
  MaxFaults = 0
  NoRow = NoRow
SPECIFICATION Spec
INVARIANTS
  FailedWritesChangeNothing
CHECK_DEADLOCK FALSE
