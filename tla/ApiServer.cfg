SPECIFICATION Spec
CONSTANTS
  Scenarios <- MCScenarios
  MaxFaults = 1
  Nothing = Nothing
  WorkflowIds <- MCWorkflowIds
  FormIds <- MCFormIds
  RoleIds <- MCRoleIds
  FirstOwners <- MCOwners
  FirstGrants <- MCGrants
  FirstRoles <- MCRoles
  FirstMembers <- MCMembers
  FirstUsers <- MCUsers
  Refused = Refused
  Missing = Missing
  Reserved = {"ct_record_id"}
  Blank = " "
  Commas = {}
  MaxNesting = 5
  CurrentUser <- MCCurrentUser
  Column <- MCColumn
  ParseNumber <- MCParseNumber
  Like <- MCLike
  TextBefore <- MCTextBefore
  Evaluate <- MCEvaluate
  BadValue = BadValue
  Browsers = {"b1", "b2"}
  Ports = {"p1"}
  Providers = {"o"}
  SessionTTL = 2
  CliSessionTTL = 2
  CodeTTL = 1
  StateTTL = 1
  MaxClock = 2
  MaxConfirms = 2
  FirstCatalog <- MCCatalog
  FirstTables <- MCTables
  SelectedOptions <- MCSelectedOptions
  Segment <- MCSegment
  BlankNames = {" "}
  Trigger <- MCTrigger
INVARIANTS
  TypeOK
  GrantsExclusive
  ListingAgrees
  ListedRowsInRowSet
  ColumnsMatch
  ScriptsAgree
  SessionsAuthenticate
  CodesSpentOnce
  LoginFailsInTime
PROPERTIES
  UpdatesCalculate
  FieldsKept
  DefinitionsOwned
  PullKeepsEdits
  PushKeepsOthers
