\* Three of an update and a delete of the same record and three upserts of its match
\* value, the update and one upsert giving the same file, the actor of one upsert
\* not reading every row; one statement fails or one client leaves.
CONSTANTS
  code = code
  note = note
  file = file
  k1 = k1
  v1 = v1
  v2 = v2
  f1 = f1
  update = update
  delete = delete
  upsert1 = upsert1
  upsert2 = upsert2
  upsert3 = upsert3
  Fields = {code, note, file}
  Values = {k1, v1, v2, f1}
  Null = Null
  FileField = file
  Files = {f1}
  MatchField = code
  ViewField = note
  Ops = {update, delete, upsert1, upsert2, upsert3}
  Kind <- KindOf
  Target <- FirstRecord
  Patch <- PatchOf
  Sees <- SeesV1
  Owner = {delete, upsert1}
  ReadsAll = {upsert2}
  MayBind <- AnyFile
  FirstRow <- First
  MaxTime = 1
  MaxFaults = 1
  NoRow = NoRow
SPECIFICATION Spec
CONSTRAINT OneFault
INVARIANTS
  TypeOK
  SerialRecordsAgree
  AnnouncedIsRecorded
  AcknowledgedFilesBound
  UpsertsKeepUnique
CHECK_DEADLOCK FALSE
