SPECIFICATION MCSpec
CONSTANTS
  intro = intro  setup = setup
  Clients = {}
  Ids = {i1, i2, i3}
  Names = {intro, setup}
  Forms = {"plain", "upper"}
  Rels = {"relates"}
  Contents <- DocLinks
  Branches = {"docs"}
  Grants <- NoGrants
  MaxVersion = 3
  Releases <- FewReleases
  Nodes = {n1, n2, n3}
  Addressed = {n1, n2}
  NoNode = NoNode
  Requests = {r1}
  SessionIds = {s1}
  Messages = {m1, m2, m3}
  Capacity = 1
  Addresses = {p, x}
  Trusted = {x}
  NoClaim = NoClaim
  Burst = 1
  Window = 1
  EvictTTL = 3
  Callers = {q1, q2}
  MaxWait = 1
  MaxTime = 4
  Memos = {k}
  Reviewers = {c1, c2}
  Grades = {0, 5}
  MaxDay = 1
  MaxReps = 3
INVARIANTS AnswersTellTheTruth RateHeld ServedIsFiles
PROPERTIES EveryRequestIsAnswered EveryMessageIsAnswered NoPhantomCard
CHECK_DEADLOCK FALSE
