\* Each service with the smallest values at which its hazards happen.
SPECIFICATION HostSpec
CONSTANTS
  SourceTexts = {"t1", "t2"}
  Preserved = 3
  MaxCalls = 3
  MaxBatch = 2
  MaxTurns = 4
  MaxPrompts = 2
  Lines = 2
  Notes = 1
  Reports = 1
  Stores = {s1, s2}
  MaxRecords = 4
  Contents = {"c1", "c2"}
  MaxEntries = 3
  Refs = {"a", "a/b", "c"}
  Under <- UnderMC
  Inputs = {"a"}
  Outputs = {"c"}
  PolicyDenied = {"a/b"}
  Expires = 1
  MaxTime = 1
  Grants <- GrantsMC
  Place <- PlaceMC
  Powers = {"network"}
INVARIANTS
  HostTypeOK
  PairsKept ShownBeforeHidden EvidenceCited CitedArchiveWritten
  TailedOnce ViewComplete
  AcknowledgedKept
  AcceptedInForce
  AllowedAsWorkspace
  LoadedAsGranted LoadedWhole
\* A run, a thread, a contract and an install may really come to an end.
CHECK_DEADLOCK FALSE
