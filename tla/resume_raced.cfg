\* sm ls reaps a session that was resumed between its SELECT and its UPDATE.
CONSTANTS
  SessionId = {s1}
  NoSession = noSession
  Native = {c1}
  NoNative = noNative
  Host = {here, there}
  NoHost = noHost
  Proc = {p1, p2}
  NoProc = noProc
  here = here
  there = there
  c1 = c1
  LocalHost = here
  HostOf <- AllHere
  Signals <- ResumeSignals
  EmitNatives = {}
  Sweeper = sweeper
  Listers = {ls}
  Markers = {}
  MarkStates = {}
  TTL = 1
  Reorder = FALSE
  CaptureFails = FALSE
  MaxTime = 0
  MaxEvents = 2
  MaxFaults = 0
  MaxCrashes = 0
SPECIFICATION FairSpec
PROPERTIES ReaperSparesLive
