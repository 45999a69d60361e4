SPECIFICATION AnalysisSpec
CONSTANTS
  Keys <- MCKeys
  KindOf <- MCKindOf
  EdgeTypes <- MCEdgeTypes
  Observations = {"dns", "whois"}
  PossibleEdges <- MCPossibleEdges
  EditedKeys <- MCEdited
  Similarity <- MCSimilarity
  GenericOrgs = {}
  Bare <- MCBare
  Ancestors <- MCAncestors
  MailDomain <- MCMailDomain
  HandleMail <- MCHandleMail
  MergeAt = 85
  ReviewAt = 60
  OrgSimilarity = 88
  MaxFanout = 8
  Collected <- MCCollected
  MaxPasses = 2
  Callers = {a1, a2, a3}
  Limit = 3
  Denominator = 2
  Minute = 4
  Timeout = 2
  MaxTime = 7
  Calls = {c1, c2, c3}
  Pages <- MCPages
  Urls = {1, 2, 3, 4, 5}
  Fetchable = {1, 2, 3, 4}
  MaxHops = 3
  Namespaces = {n1, n2}
  Ids = {1, 2}
  Tokens = {t1, t2}
  Widths = {16, 32}
  Tags = {k1, k2}
  Floors = {5, 80}
  Hosts <- MCHosts
  Addresses = {0, 1, 2, 3, 4, 5, 6, 7}
  Private = {6, 7}
  Engagements <- MCEngagements
  Hostnames = {"a.com"}
  LegalForms = {"inc", "co"}
  Words = {"acme"}
  Unusable = "unusable"
  HostAddresses = {"10.0.0.1"}
  ServedFrom <- MCServedFrom
  Obtained <- MCObtained
  MaxPayloads = 2
  Ports = {23, 80, 502, 554}
  Control = {502}
  Requested = {80, 554}
  Slots = 2
  MaxPorts = 3
CHECK_DEADLOCK FALSE
INVARIANTS
  WithinCeiling IndexesExact OnePassSettles BurstsBounded ScoreSeesEvidence InspectionContained
  AnswersTrue RecallHonest DeniesWin KeysStable  ScanContained
PROPERTIES WaitEnds ImplementsLinkGraph
