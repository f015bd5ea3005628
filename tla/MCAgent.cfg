\* The parts of the agent one by one, each at the bounds that README.md gives.
SPECIFICATION AgentSpec
CONSTANTS
  i1 = i1
  i2 = i2
  j1 = j1
  j2 = j2
  k1 = k1
  k2 = k2
  \* SectionPipeline
  quantity = quantity
  remark = remark
  done = done
  twelve = twelve
  seven = seven
  Unknown = unknown
  Fields = {quantity, remark, done}
  Flags = {done}
  Marked = {remark}
  Planned = {quantity}
  Numbers = {twelve, seven}
  FieldNumbers <- FieldNumbersMC
  DraftItems <- DraftItemsMC
  References <- ReferencesMC
  Minimum = 2
  MaxRevisions = 2
  MaxRuns = 2
  \* ProviderCalls
  MaxAttempts = 3
  \* WorkflowTrace
  Writers = {i1, i2}
  TopStage = 2
  PageSize = 2
  MaxEvents = 4
  MaxStarts = 1
  \* KnowledgeCorpus
  s1 = s1
  Uploads = {i1, i2}
  Versions = {j1, j2}
  Contents = {1}
  SectionCodes = {s1, s2}
  ContentOf <- ContentOfMC
  Headed <- HeadedMC
  MaxRetries = 1
  MaxDeaths = 1
  \* FactSheet
  name = name
  amount = amount
  methods = methods
  risks = risks
  red = red
  blue = blue
  verdict = verdict
  half = half
  SingleFields = {name, amount}
  MultiFields = {methods, risks}
  RiskField = risks
  ScopedFields = {name, methods, risks}
  DerivedFields = {name, methods, risks}
  RequiredFields = {name, methods, risks}
  Quantity = amount
  Unit = unit
  FactValues = {red, blue, verdict, half}
  ResultValues = {verdict}
  Incomplete = {half}
  ValueTypes = {"string", "array"}
  SourceIds = {0, 1, 2}
  Nowhere = nowhere
  Materials <- MaterialsMC
  ModelAnswers <- AnswersMC
  Snapshots <- SnapshotsMC
  Submissions <- SubmissionsMC
  MaxExtractions = 2
  \* KnowledgeIndex
  MinChars = 3
  MaxChars = 5
  OverlapChars = 1
  MaxLength = 12
  BatchSize = 2
  ChunkSources = {1, 2}
  PoolSize = 5
  MaxPerSource = 2
  TopK = 3
  MaxCandidates = 6
  \* AgentSetup
  Activations = {i1, i2}
  Orders = {j1, j2}
  OrderKeys = {key}
  OrderParams = {k1, k2}
  Templates = {t1}
  EntryFiles = {e1}
  None = None
  \* AccessDecision
  admin = admin
  person = person
  Nobody = Nobody
  Users = {admin, person}
  Admins = {admin}
  Operators = {}
  Callers = {i1, i2}
  GrantIds = {j1, j2}
  RightSets <- RightSetsMC
  MemberSets <- MemberSetsMC
  Situations <- SituationsMC
  LoneMemberEdit = TRUE
SYMMETRY SymmetryMC
CHECK_DEADLOCK FALSE
INVARIANTS
  SectionsAreSound
  UsageAccountsForRequests
  EveryEventIsShown
  FactsAreSound
  KnowledgeIsSound
  SetupIsSound
  AccessIsConsistent
PROPERTY StoppedTaskIsSilent
