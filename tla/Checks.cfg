SPECIFICATION MCSpec
CONSTANTS
  Submitted <- TheManifests
  Hosts = {TRUE, FALSE}
  MaxSlug = 5
  HashLen = 1
  Answers <- TheAnswers
  RawOutputs <- TheRaw
  MaxOutput = 4
  Timeout = 5
  Requested = {1, 2}
  References <- TheReferences
  None = None
  Threads = {t1, t2}
  Handles = {h1, h2}
  Names = {"a", "nul"}
  NulNames = {"nul"}
  Settings = {{}, {"env"}, {"memory_bytes", "image"}}
  MaxCreates = 3
  Nobody = Nobody
  Callers = {c1, c2}
  Boxes = {b1, b2}
  MaxAdds = 2
  Users = {u1, u2}
  Adapters = {"noop", "podman", "apple", "wslc"}
  MaxIds = 2
  States = {"running", "exited", "restarting"}
  Noise = {{}, {"paused"}}
  Mentions <- TheMentions
  Pipelines = {p1, p2}
  Overrides <- TheOverrides
  Manifests <- ComposedManifests
  Targets <- TheTargets
  Images <- TheImages
  MaxCalls = 2
  Unset = Unset
  Failures = {"offline", "no_such_file"}
  Clients = {"evaluation", "lifecycle"}
  Request = 3
  Capacity = 2
  Chunk = 2
  Limit <- TheLimits
  AnswerSize = 3
  Scripts <- TheScripts
  Extra = 1
  Codes = {0, 3, 4}
  MayFail = {"spawn", "wait", "read", "hang", "die", "fork"}
\* every input is judged once, and the bounds end the rest
CHECK_DEADLOCK FALSE
INVARIANTS AdmittedIsSupported LateRefusalIsExplained RootStaysInside
INVARIANTS EvidenceIsSound 
INVARIANTS RegistryAgrees EqualIdsAreExplained AnswersAreExplained ReceiptsAreBacked
INVARIANTS AnswerIsWhole BoundIsExact NoHelperLeftBehind AnswerIsUsed
PROPERTIES CallReturns
