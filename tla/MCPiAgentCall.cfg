SPECIFICATION FairCallSpec
CONSTANTS
  report_md = report_md
  scratch = scratch
  notes = notes
  Refs <- MCRefs
  Under <- MCUnder
  ReadRoots = {}
  WriteRoots = {report_md, scratch}
  DenyRoots = {}
  Directories = {scratch}
  Outputs = {report_md}
  Scope = {}
  FirstOutput = report_md
  Providers <- MCProviders
  Bash = TRUE
  MaxTurns = 3
  ProviderRetries = 1
  CompletionRetries = 1
  MaxAttempts = 2
  NoOutput = NoOutput
  Torn = Torn
  NoResult = NoResult
  NoReport = NoReport
INVARIANTS CallTypeOK CancelledCanResume ReserveKept
PROPERTIES ImplementsAttempt CallEnds
CHECK_DEADLOCK FALSE
