---------------------------- MODULE ManagerBoard ----------------------------
(***************************************************************************)
(* The daemon implements the board: read from the sessions table, the bus   *)
(* and the handler, its statements are steps of SessionBoard or leave the   *)
(* board alone.                                                            *)
(***************************************************************************)
EXTENDS Manager

Rows(nat) == {id \in SessionId : Exists(sessions, id) /\ sessions[id].native = nat}

\* The line of a conversation: the status and last_event_at of its row.
Line(nat) ==
  IF Rows(nat) = {}
  THEN [status |-> NoState, last |-> 0]
  ELSE LET id == CHOOSE i \in Rows(nat) : TRUE IN
       [status |-> sessions[id].status, last |-> sessions[id].last]

\* An event waits on the bus, or in the handler until its status is written.
Pending ==
  bus \cup (IF handler.pc \in {"append", "classify", "update"} THEN {handler.ev} ELSE {})

\* The conversation an event is about: by native id, or through the row it names.
About(e) == IF e.sid = NoSession THEN e.native ELSE sessions[e.sid].native

ReportOf(e) ==
  [n |-> e.n, conv |-> About(e),
   signal |-> [kind |-> e.kind, notify |-> e.notify], t |-> e.ts]

\* The signals of hooks, and those of `sm emit`, which knows no sub-types.
SentSignals == Signals \cup {[kind |-> s.kind, notify |-> NoNotify] : s \in Signals}

SentReports ==
  [n : 0 .. MaxEvents - 1, conv : Native, signal : SentSignals, t : 0 .. MaxTime]

BoardView == [nat \in Native |-> Line(nat)]
InboxView == {ReportOf(e) : e \in {f \in Pending : About(f) \in Native}}

Board == INSTANCE SessionBoard WITH
  Conversation <- Native, Report <- SentReports, board <- BoardView, inbox <- InboxView

\* Although the handler reads the status, judges the event and writes in three
\* statements, and the sweep selects, probes and writes in many, each change a
\* user can see is one whole step of the board: an event is applied at most once,
\* no event is judged by a status that has changed by the time it is applied, and
\* no sweep buries what has ended or been heard of meanwhile (daemon.go,
\* handler.mu).
BoardImplemented == Board!Spec
=============================================================================
