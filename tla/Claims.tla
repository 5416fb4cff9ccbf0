------------------------------ MODULE Claims -------------------------------
(***************************************************************************)
(* What comments and the README say of the running system and the code does *)
(* not keep.  Each property is one sentence of the repository; TLC shows a  *)
(* behaviour of Manager that contradicts it.                                *)
(***************************************************************************)
EXTENDS Manager

\* "sweep marks dead sessions and notifies sinks so derived state (e.g. the
\* waiting-count file) reflects the reaping" (daemon.go:205-206): a sweep that
\* ends before it comes to the remote sessions leaves the right count as well.
SweepKeepsCount ==
  [][sweep[Sweeper].pc = "local" /\ sweep'[Sweeper].pc = "rest"
       => countFile' = CountByStatus(sessions', "waiting")]_vars
=============================================================================
