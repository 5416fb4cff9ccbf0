\* A late event of the old process takes the fingerprint back.
CONSTANTS
  SessionId = {s1}
  NoSession = noSession
  Native = {c1}
  NoNative = noNative
  Host = {here, there}
  NoHost = noHost
  Proc = {p1, p2}
  NoProc = noProc
  here = here
  there = there
  c1 = c1
  LocalHost = here
  HostOf <- AllHere
  Signals <- ResumeSignals
  EmitNatives = {}
  Sweeper = sweeper
  Listers = {}
  Markers = {}
  MarkStates = {}
  TTL = 1
  Reorder = TRUE
  CaptureFails = FALSE
  MaxTime = 0
  MaxEvents = 2
  MaxFaults = 0
  MaxCrashes = 0
SPECIFICATION FairSpec
PROPERTIES ReaperSparesLive
