\* The daemon, sm ls and sm mark all write the store; events in any order; a
\* statement may fail. The conversation runs elsewhere, and a script here may
\* report on it too, so its row may be of either host.
CONSTANTS
  SessionId = {s1}
  NoSession = noSession
  Native = {c1}
  NoNative = noNative
  Host = {here, there}
  NoHost = noHost
  Proc = {p1}
  NoProc = noProc
  here = here
  there = there
  c1 = c1
  LocalHost = here
  HostOf <- AllThere
  Signals <- RenamedBlockSignals
  EmitNatives = {c1}
  Sweeper = sweeper
  Listers = {ls}
  Markers = {mk}
  MarkStates = {"idle"}
  TTL = 1
  Reorder = TRUE
  CaptureFails = FALSE
  MaxTime = 2
  MaxEvents = 2
  MaxFaults = 1
  MaxCrashes = 0
SPECIFICATION Spec
INVARIANTS CandidatesAreBehind StatusIsNewest
PROPERTIES ReapKeepsLastSeen RemoteSilence
