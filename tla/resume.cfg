\* The daemon alone with one conversation of its host that is resumed in a
\* second process; events in order; the daemon may crash once.
CONSTANTS
  SessionId = {s1}
  NoSession = noSession
  Native = {c1}
  NoNative = noNative
  Host = {here, there}
  NoHost = noHost
  Proc = {p1, p2}
  NoProc = noProc
  here = here
  there = there
  c1 = c1
  LocalHost = here
  HostOf <- AllHere
  Signals <- BlockSignals
  EmitNatives = {}
  Sweeper = sweeper
  Listers = {}
  Markers = {}
  MarkStates = {}
  TTL = 1
  Reorder = FALSE
  CaptureFails = TRUE
  MaxTime = 1
  MaxEvents = 3
  MaxFaults = 0
  MaxCrashes = 1
SPECIFICATION Spec
INVARIANTS TypeOK
PROPERTIES ReaperSparesLive BoardImplemented
