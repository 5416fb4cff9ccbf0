\* The daemon alone, a conversation here and one elsewhere: a block, a clean
\* exit, and the reaper.
CONSTANTS
  SessionId = {s1, s2}
  NoSession = noSession
  Native = {c1, c2}
  NoNative = noNative
  Host = {here, there}
  NoHost = noHost
  Proc = {p1, p2}
  NoProc = noProc
  here = here
  there = there
  c1 = c1
  LocalHost = here
  HostOf <- HereAndThere
  Signals <- EndSignals
  EmitNatives = {}
  Sweeper = sweeper
  Listers = {}
  Markers = {}
  MarkStates = {}
  TTL = 1
  Reorder = FALSE
  CaptureFails = FALSE
  MaxTime = 2
  MaxEvents = 2
  MaxFaults = 0
  MaxCrashes = 0
SPECIFICATION FairSpec
INVARIANTS CountAccurate
PROPERTIES FinishedNotReaped GoneIsReaped SilentIsReaped
