SPECIFICATION FlowSpec
CONSTANTS
  draft = draft
  judge = judge
  src = src
  report = report
  verdict = verdict
  a = a
  b = b
  yes = yes
  no = no
  c1 = c1
  task = task
  p1 = p1
  m1 = m1
  m2 = m2
  stop = stop
  Missing = Missing
  NotHashed = NotHashed
  NoRoute = NoRoute
  InvalidRoute = InvalidRoute
  NoLock = NoLock
  Absent = Absent
  Torn = Torn
  NoSnapshot = NoSnapshot
  NoCall = NoCall
  NoResult = NoResult
  NoOutcome = NoOutcome
  NoRun = NoRun
  Steps = {draft, judge}
  Positions <- MCPositions
  MaxSteps = 2
  Refs = {src, report, verdict}
  Contents = {a, b}
  RouteValues = {yes, no}
  Contexts = {c1}
  Contracts = {task}
  Snapshots <- MCSnapshots
  Granted = {}
  Packages = {}
  Inputs <- MCInputs
  Outputs <- MCOutputs
  Writable <- MCOutputs
  ContentsOf <- MCReportContents
  RouteOn <- MCRouteOn
  RouteValueOf <- MCRouteValueOf
  Retries <- MCNoRetries
  OnExhausted <- MCOnExhausted
  ContractOf <- MCContractOf
  PiAgent = TRUE
  ResumeModes = {TRUE}
  MaxEdits = 1
  Events = {}
  Kind <- MCKind
  Delivery <- MCDelivery
  Target <- MCTarget
  First = draft
  Judges = {judge}
  Routes <- MCStraight
  FlowStops = {"accepted", "rejected"}
  Projected = {report}
  MaxExecutions = 2
CHECK_DEADLOCK FALSE
INVARIANTS
  AcceptedIsJudged
PROPERTIES
  CompletedStepsKept
  ExecutionsAppendOnly
