SPECIFICATION StepSpec
CONSTANTS
  draft = draft
  src = src
  report = report
  decision = decision
  a = a
  b = b
  approve = approve
  c1 = c1
  c2 = c2
  task = task
  p1 = p1
  Missing = Missing
  NotHashed = NotHashed
  NoRoute = NoRoute
  InvalidRoute = InvalidRoute
  NoLock = NoLock
  Absent = Absent
  Torn = Torn
  NoSnapshot = NoSnapshot
  NoCall = NoCall
  NoResult = NoResult
  NoOutcome = NoOutcome
  Steps = {draft}
  Positions = {1}
  Contents = {a, b}
  RouteValues = {approve}
  Contracts = {task}
  Snapshots = {}
  RouteValueOf <- MCRouteValueOf
  OnExhausted <- MCOnExhausted
  ContractOf <- MCContractOf
  Inputs <- MCInputs
  Refs = {src, report, decision}
  Outputs <- MCOutputs
  Writable <- MCOutputs
  RouteOn <- MCRouteOn
  ContentsOf <- MCOneContent
  Contexts = {c1}
  Granted = {}
  Packages = {}
  ResumeModes = {TRUE}
  Retries <- MCRetries
  PiAgent = TRUE
  MaxEdits = 2
INVARIANTS
  CompletedSkipSound
