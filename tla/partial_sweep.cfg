\* A sweep that fails after its first session.
CONSTANTS
  SessionId = {s1, s2}
  NoSession = noSession
  Native = {c1, c2}
  NoNative = noNative
  Host = {here, there}
  NoHost = noHost
  Proc = {p1, p2}
  NoProc = noProc
  here = here
  there = there
  c1 = c1
  LocalHost = here
  HostOf <- AllHere
  Signals <- BlockSignals
  EmitNatives = {}
  Sweeper = sweeper
  Listers = {}
  Markers = {}
  MarkStates = {}
  TTL = 1
  Reorder = FALSE
  CaptureFails = FALSE
  MaxTime = 0
  MaxEvents = 2
  MaxFaults = 1
  MaxCrashes = 0
SPECIFICATION FairSpec
PROPERTIES SweepKeepsCount
