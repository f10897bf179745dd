SPECIFICATION Spec
CONSTANTS
  User = {"root", "ann", "bob"}
  Root = "root"
  Sid = {1, 2}
  Project = {"p", "old"}
  Archived = {"old"}
  RoleCode = {"SYSTEM_ADMIN", "RISK_ADMIN", "PROJECT_MANAGER", "VIEWER_AUDITOR", "CUSTOM"}
  MaxAttempts = 1
  Grant <- MCGrant
  Form <- MCForm
  MaxAccountEdits = 3
  MaxGuesses = 1
  Service = {1, 2}
  Connection <- MCConnection
  Account = {"acme", "spare"}
  Model = {1, 2, 3}
  OwnerOf <- MCOwnerOf
  Editor = {"ann", "bob"}
  Reply <- MCReply
  Retries = 1
  MaxProviderEdits = 4
  MaxChats = 1
  RuleId = {1, 2}
  Text = {"risk", "wide", "ri", "joke", "blank", "hello", "advice"}
  Normal <- MCNormal
  Includes <- MCIncludes
  DomainTerms = {"risk"}
  AdviceIntents = {"advice"}
  OffTopic = {"joke"}
  Draft <- MCDraft
  Api = {"api1"}
  RuleWorker = {"worker"}
  Admin = {"ann"}
  MaxEdits = 3
  MaxRuleFaults = 1
  Row = {1, 2}
  Code = {"", "x", "y"}
  Settings = {"default", "strict"}
  DefaultSettings = "default"
  Publisher = {"ann", "bob"}
  Payload <- MCPayload
  MaxPublications = 4
  Items = {1, 2, 3}
  Times = {1, 2}
  PageSize = 1
  MaxListEdits = 2
INVARIANTS
  AccountsHold
  
  PagesTellTheList
PROPERTIES
  EditsAreSeen
  RulesReachEveryApi
CHECK_DEADLOCK FALSE
