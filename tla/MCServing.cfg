\* One site with two deployments, three targets; the world changes once.
CONSTANTS
  t1 = t1
  t2 = t2
  t3 = t3
  d1 = d1
  d2 = d2
  b1 = b1
  anna = anna
  bert = bert
  None = None
  NoClient = NoClient
  NoTarget = NoTarget
  NoPolicy = NoPolicy
  Targets = {t1, t2, t3}
  Profile <- MCProfile
  Stores = {t1, t2, t3}
  URLKind <- MCURLKind
  Insecure = {t2}
  Rank <- MCRank
  WorkerRank <- MCWorkerRank
  Clients = {anna, bert}
  PolicyNames = {"plain", "accented"}
  AsciiNames = {"plain"}
  Hash <- MCHash
  WorkerHash <- MCWorkerHash
  Deployments = {d1, d2}
  Bucket = b1
  Starts <- MCStarts
  Requests <- MCRequests
  MaxChanges = 1
SPECIFICATION Spec
INVARIANTS
  TypeOK
  HalvesAgree
  FallbackOnlyLast
  GivesUpLast
  AssetsStayAtTheEdge
  AnswersWereLive
