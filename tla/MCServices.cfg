\* Three events through queues of one and two, read in pages of two; two schedules
\* over five minutes, the last two before the fourth shown again; two boxes with
\* two installers, or one and a wipe; four instants of retention in batches of
\* one, with a crash; four notices through a queue of two and a restart; three
\* writes to the settings of an extension with a schema and one with models.
CONSTANTS
  b1 = b1
  b2 = b2
  MaxEvents = 3
  QueueSize = 1
  InboxSize = 2
  PageSize = 2
  Fields <- CronFields
  MonthDays <- Months
  MinutesPerHour = 2
  HoursPerDay = 2
  DaysPerWeek = 2
  SearchLimit = 6
  ChangeAt = 4
  PutBack = 2
  MaxSchedules = 2
  MaxTime = 5
  MaxRestarts = 1
  Boxes = {b1, b2}
  Hub = hub
  MaxIdentities = 2
  MaxInstallers = 2
  MaxWipes = 0
  MaxHandshakes = 1
  MaxFacts = 3
  HubRestarts = 1
  Rules <- RetentionRules
  Types = {"session", "tool"}
  Protected = {"session"}
  BatchSize = 1
  MaxInstants = 4
  MaxCrashes = 1
  Kinds = {"ask"}
  Routes <- NoticeRoutes
  Channels = {"phone", "log"}
  AwayOnly = {"phone"}
  QueueLimit = 2
  Clients = {"c1"}
  Ttl = 1
  Period = 2
  MaxNotified = 4
  MaxBoots = 2
  Catalog = {"ollama", "piper"}
  Broken = {}
  Voice = {"piper"}
  Schema = {"ollama"}
  Paid = {"piper"}
  Unmet = {}
  Cached = {"piper"}
  Models = {"piper"}
  Roots = {"c", "d"}
  DefaultRoot = "c"
  Bundled = {"ollama"}
  MaxWrites = 3

SYMMETRY Symmetry
CHECK_DEADLOCK FALSE
SPECIFICATION Spec

INVARIANTS
  TypesOK
  EventsAreKept
  StreamInOrder
  
  OnlyThePaired
  ToldAndCountedOnce

PROPERTIES
  
  ModelsAreWhole
