---------------------------- MODULE HistoryProofs ----------------------------
(***************************************************************************)
(* The status of a session is what the newest second of its history says,   *)
(* whatever the order of events, and whoever reaps or marks beside the      *)
(* daemon, as long as no statement fails and the daemon does not die        *)
(* between two: Manager's StatusIsNewest.                                   *)
(***************************************************************************)
EXTENDS ManagerProofs

-----------------------------------------------------------------------------
(* The invariant.                                                          *)

HasRow(id) == id \in SessionId /\ Exists(sessions, id)

\* What names a session names one that has a row.
Known ==
  /\ \A e \in events : HasRow(e.sid)
  /\ \A e \in bus : e.sid # NoSession => HasRow(e.sid)
  /\ handler.pc # "rest" => HasRow(handler.ev.sid)
  /\ \A m \in Markers : mark[m].pc # "rest" => HasRow(mark[m].id)

\* Only the notes of `sm mark` bear a state that a user asked for, and a note is
\* made of a write that was not skipped.
ByHand ==
  /\ \A e \in bus : e.manual = NoState
  /\ handler.pc # "rest" => handler.ev.manual = NoState
  /\ \A m \in Markers :
       mark[m].pc = "note" => mark[m].state # NoState /\ mark[m].ts <= sessions[mark[m].id].last

\* The event that is classified or written is in the history, and what is written
\* is one of its outcomes.
Judged ==
  /\ handler.pc \in {"classify", "update"} => handler.ev \in events
  /\ handler.pc = "update" => handler.next \in Outcomes(handler.ev)

Asked(id) == {e \in events : e.sid = id /\ Bears(e) # NoState}
InHand(e) == handler.pc \in {"classify", "update"} /\ handler.ev = e
Noting(m, id) == mark[m].pc = "note" /\ mark[m].id = id

\* What asks for a state has been taken into account, or is about to be.
Heeded(id) == \A e \in Asked(id) : InHand(e) \/ e.ts <= sessions[id].last

\* Where the status of a session comes from: a reaper, an event of the newest
\* second, an `sm mark` whose note is to come, or the creation of the row.
Reaped(id) == sessions[id].status = "dead"
Reported(id) ==
  \E e \in events : /\ e.sid = id /\ e.ts = sessions[id].last
                    /\ sessions[id].status \in Outcomes(e)
Marked(id) ==
  \E m \in Markers : /\ Noting(m, id) /\ mark[m].ts = sessions[id].last
                     /\ mark[m].state = sessions[id].status
New(id) ==
  /\ sessions[id].status = "idle"
  /\ \A e \in Asked(id) : InHand(e) \/ e.ts < sessions[id].last
  /\ \A m \in Markers : Noting(m, id) => mark[m].ts < sessions[id].last

Sourced(id) == Reaped(id) \/ Reported(id) \/ Marked(id) \/ New(id)

Untroubled == faults = 0 /\ crashes = 0

HistoryInv ==
  /\ Known /\ ByHand
  /\ Untroubled =>
       /\ Judged
       /\ \A id \in SessionId : Exists(sessions, id) => Heeded(id) /\ Sourced(id)

-----------------------------------------------------------------------------
(* What an event asks for.                                                 *)

\* Only what a notification makes of a waiting session depends on the session, and
\* a notification of that sort asks for nothing by itself.
LEMMA AskedAlike ==
  ASSUME NEW e, e.manual = NoState, NEW cur \in State
  PROVE  /\ Transition(cur, e) = NoState => Bears(e) = NoState
         /\ Transition(cur, e) # NoState => Transition(cur, e) \in Outcomes(e)
BY DEF Bears, Outcomes, Transition, NextState, State, NoState, Resuming, Informational

\* A step that leaves no trouble meets none.
LEMMA NoTrouble ==
  ASSUME TypeOK, Untroubled', Next
  PROVE  Untroubled /\ ~Crash /\ ~Fault
<1>1. ASSUME Fault PROVE FALSE
  BY <1>1 DEF TypeOK, Fault, Untroubled
<1>2. ASSUME Crash PROVE FALSE
  BY <1>2 DEF TypeOK, Crash, Untroubled
<1>3. UNCHANGED bounds
  BY <1>1, <1>2 DEF Next, Tick, Agents, StartAgent, ExitAgent, Hook, Emit, Publish, Handle,
     Receive, Append, Classify, Update, Alert, OnStateChange, Reap, SelectLocal, ReapLocal,
     SelectRemote, ReapRemote, ReapEnd, Mark, MarkBegin, MarkUpdate, MarkNote, Restart, NoFault
<1> QED BY <1>1, <1>2, <1>3 DEF bounds, Untroubled

-----------------------------------------------------------------------------
(* Names and notes, one group of actions at a time.                        *)

\* A step that brings no name into play.
NoNewNames ==
  /\ events' \subseteq events
  /\ bus' \subseteq bus
  /\ handler'.pc # "rest" => handler.pc # "rest" /\ handler'.ev = handler.ev
  /\ \A m \in Markers : mark'[m] = mark[m] \/ mark'[m].pc = "rest"

LEMMA RowsStay ==
  ASSUME Inv, Next
  PROVE  \A i : HasRow(i) => HasRow(i)' /\ sessions[i].last <= sessions'[i].last
BY TableStep DEF Grows, HasRow

LEMMA KeepNames ==
  ASSUME TypeOK, Known, ByHand, NoNewNames,
         \A i : HasRow(i) => HasRow(i)' /\ sessions[i].last <= sessions'[i].last,
         sessions' \in Table
  PROVE  Known' /\ ByHand'
<1>1. Known'
  BY DEF Known, NoNewNames, HasRow
<1>2. /\ \A e \in bus' : e.manual = NoState
      /\ handler'.pc # "rest" => handler'.ev.manual = NoState
  BY DEF ByHand, NoNewNames
<1>3. ASSUME NEW m \in Markers, mark'[m].pc = "note"
      PROVE  mark'[m].state # NoState /\ mark'[m].ts <= sessions'[mark'[m].id].last
  <2>1. mark'[m] = mark[m]
    BY <1>3 DEF NoNewNames
  <2>2. /\ mark[m].state # NoState /\ mark[m].ts <= sessions[mark[m].id].last
        /\ HasRow(mark[m].id) /\ mark[m].ts \in Nat
    BY <1>3, <2>1 DEF ByHand, Known, TypeOK
  <2>3. sessions[mark[m].id].last \in Nat /\ sessions'[mark[m].id].last \in Nat
    BY <2>2 DEF HasRow, TypeOK, Table, Row
  <2>4. sessions[mark[m].id].last <= sessions'[mark[m].id].last
    BY <2>2
  <2> QED BY <2>1, <2>2, <2>3, <2>4
<1> QED BY <1>1, <1>2, <1>3 DEF ByHand

\* The look-up gives the event a row.
LEMMA ResolvedHasRow ==
  ASSUME TypeOK, Known, NEW e \in bus, NEW id \in SessionId, Resolve(e, id, sessions')
  PROVE  HasRow(id)'
<1>1. sessions \in Table
  BY DEF TypeOK, Table
<1>2. CASE sessions' = sessions /\ Exists(sessions, id)
  BY <1>2 DEF HasRow
<1>3. CASE sessions' = UpdateIdentity(sessions, id, e.proc) /\ Exists(sessions, id)
  BY <1>1, <1>3 DEF UpdateIdentity, Table, Row, HasRow, Exists
<1>4. ASSUME NEW h, sessions' = CreateSession(sessions, id, e.native, h, e.ts, e.proc)
      PROVE  HasRow(id)'
  BY <1>1, <1>4 DEF CreateSession, Table, HasRow, Exists, NoState
<1>5. e.sid # NoSession => Exists(sessions, e.sid)
  BY DEF Known, HasRow
<1> QED BY <1>2, <1>3, <1>4, <1>5 DEF Resolve, FindSessionByNative

LEMMA NamesStep ==
  ASSUME Inv, Exclusive, Known, ByHand, Next
  PROVE  Known' /\ ByHand'
<1> USE DEF Inv
<1>1. /\ sessions \in Table /\ sessions' \in Table
      /\ \A i : HasRow(i) => HasRow(i)' /\ sessions[i].last <= sessions'[i].last
  <2>1. TypeOK'
    BY InvInductive DEF Inv
  <2> QED BY <2>1, RowsStay DEF TypeOK, Table
<1>2. CASE NoNewNames
  BY <1>1, <1>2, KeepNames
<1>3. CASE Tick \/ Update \/ Alert \/ Crash \/ Restart
  BY <1>2, <1>3 DEF NoNewNames, Tick, Update, Alert, Crash, Restart, Step, Release, AtRest,
     tables
<1>4. CASE Classify
  <2>1. handler' = AtRest \/ \E next : Step("update", handler.ev, next)
    BY <1>4 DEF Classify, Release
  <2>2. handler.pc # "rest" /\ events' = events /\ bus' = bus /\ mark' = mark
    BY <1>4 DEF Classify, tables
  <2> QED BY <1>2, <2>1, <2>2 DEF NoNewNames, Step, AtRest
<1>5. ASSUME NEW r \in Reapers, Reap(r) PROVE NoNewNames
  BY <1>5 DEF NoNewNames, Reap, SelectLocal, ReapLocal, SelectRemote, ReapRemote, ReapEnd,
     tables
<1>6. CASE Append
  BY <1>1, <1>6 DEF Append, Step, Known, ByHand, HasRow
<1>7. CASE Receive
  <2>1. PICK e \in bus :
          /\ bus' = bus \ {e}
          /\ \/ \E id \in SessionId : /\ Resolve(e, id, sessions')
                                       /\ Step("append", [e EXCEPT !.sid = id], NoState)
             \/ UNCHANGED <<sessions, handler, mu>>
    BY <1>7 DEF Receive
  <2>2. events' = events /\ mark' = mark
    BY <1>7 DEF Receive
  <2>3. CASE handler' = handler
    BY <1>2, <2>1, <2>2, <2>3 DEF NoNewNames
  <2>4. ASSUME NEW id \in SessionId, Resolve(e, id, sessions'),
               Step("append", [e EXCEPT !.sid = id], NoState)
        PROVE  Known' /\ ByHand'
    <3>1. e \in Event /\ e.manual = NoState
      BY DEF TypeOK, ByHand
    <3>2. handler'.ev.sid = id /\ handler'.ev.manual = NoState
      BY <2>4, <3>1 DEF Step, Event
    <3>3. HasRow(id)'
      BY <2>4, ResolvedHasRow
    <3>4. Known'
      BY <1>1, <2>1, <2>2, <3>2, <3>3 DEF Known, HasRow
    <3>5. ASSUME NEW m \in Markers, mark[m].pc = "note"
          PROVE  mark[m].state # NoState /\ mark[m].ts <= sessions'[mark[m].id].last
      <4>1. HasRow(mark[m].id) /\ mark[m].ts \in Nat /\ mark[m].state # NoState
            /\ mark[m].ts <= sessions[mark[m].id].last
        BY <3>5 DEF Known, ByHand, TypeOK
      <4>2. /\ sessions[mark[m].id].last \in Nat /\ sessions'[mark[m].id].last \in Nat
            /\ sessions[mark[m].id].last <= sessions'[mark[m].id].last
        BY <1>1, <4>1 DEF HasRow, Table, Row
      <4> QED BY <4>1, <4>2
    <3>6. ByHand'
      BY <2>1, <2>2, <3>2, <3>5 DEF ByHand
    <3> QED BY <3>4, <3>6
  <2> QED BY <2>1, <2>3, <2>4
<1>8. ASSUME NEW nat \in Native, StartAgent(nat) \/ ExitAgent(nat) \/ Hook(nat) \/ Emit(nat)
      PROVE  Known' /\ ByHand'
  <2>1. CASE StartAgent(nat) \/ ExitAgent(nat)
    BY <1>2, <2>1 DEF StartAgent, ExitAgent, NoNewNames, tables
  <2>2. ASSUME NEW e, Publish(e), e.manual = NoState, e.sid = NoSession \/ HasRow(e.sid)
        PROVE  Known' /\ ByHand'
    <3>1. /\ bus' = bus \cup {e} /\ events' = events /\ sessions' = sessions
          /\ handler' = handler /\ mark' = mark
      BY <2>2 DEF Publish, tables
    <3> QED BY <2>2, <3>1 DEF Known, ByHand, HasRow
  <2>3. CASE Hook(nat)
    <3>1. PICK s \in Signals, p \in Captured(nat) :
            Publish([n |-> seq, sid |-> NoSession, native |-> nat, kind |-> s.kind,
                     notify |-> s.notify, manual |-> NoState, ts |-> now, proc |-> p,
                     host |-> HostOf[nat]])
      BY <2>3 DEF Hook
    <3> QED BY <2>2, <3>1
  <2>4. CASE Emit(nat)
    <3>1. PICK s \in Signals, id \in FindSessionByNative(sessions, nat) \cup {NoSession} :
            Publish([n |-> seq, sid |-> id,
                     native |-> IF id = NoSession THEN nat ELSE NoNative,
                     kind |-> s.kind, notify |-> NoNotify, manual |-> NoState,
                     ts |-> now, proc |-> NoProc, host |-> NoHost])
      BY <2>4 DEF Emit
    <3>2. id = NoSession \/ HasRow(id)
      BY DEF FindSessionByNative, HasRow
    <3> QED BY <2>2, <3>1, <3>2
  <2> QED BY <1>8, <2>1, <2>3, <2>4
<1>9. ASSUME NEW m \in Markers, Mark(m) PROVE Known' /\ ByHand'
  <2>1. /\ bus' = bus /\ handler' = handler
        /\ mark \in [Markers -> [pc : {"rest", "update", "note"},
                                 id : SessionId \cup {NoSession},
                                 state : State \cup {NoState}, ts : Nat]]
    BY <1>9 DEF Mark, MarkBegin, MarkUpdate, MarkNote, TypeOK
  <2>2. CASE MarkBegin(m)
    <3>1. PICK id \in SessionId, st \in MarkStates :
            /\ Exists(sessions, id)
            /\ mark' = [mark EXCEPT ![m] = [pc |-> "update", id |-> id, state |-> st, ts |-> now]]
      BY <2>2 DEF MarkBegin
    <3>2. sessions' = sessions /\ events' = events
      BY <2>2 DEF MarkBegin, tables
    <3>3. \A k \in Markers : mark'[k] = IF k = m THEN [pc |-> "update", id |-> id,
                                                      state |-> st, ts |-> now]
                                                 ELSE mark[k]
      BY <2>1, <3>1
    <3> QED BY <2>1, <3>1, <3>2, <3>3 DEF Known, ByHand, HasRow
  <2>3. CASE MarkUpdate(m)
    <3>1. events' = events /\ mark[m].pc = "update"
      BY <2>3 DEF MarkUpdate
    <3>2. CASE mark' = [mark EXCEPT ![m] = NoMark]
      BY <1>2, <2>1, <3>1, <3>2 DEF NoNewNames, NoMark
    <3>3. CASE /\ sessions' = UpdateStatus(sessions, mark[m].id, mark[m].state, mark[m].ts)
               /\ mark' = [mark EXCEPT ![m].pc = "note"]
               /\ Changes(sessions, mark[m].id, mark[m].ts)
      <4>1. HasRow(mark[m].id) /\ mark[m].ts \in Nat /\ mark[m].state # NoState
        BY <3>1 DEF Known, TypeOK, OnlyReapersKill, State, NoState
      <4>2. sessions'[mark[m].id].last = mark[m].ts
        BY <1>1, <3>3, <4>1 DEF UpdateStatus, HasRow, Table, Row
      <4>3. \A k \in Markers : k # m => mark'[k] = mark[k]
        BY <2>1, <3>3
      <4>4. /\ mark'[m].pc = "note" /\ mark'[m].id = mark[m].id
            /\ mark'[m].ts = mark[m].ts /\ mark'[m].state = mark[m].state
        BY <2>1, <3>3
      <4>5. Known'
        BY <1>1, <2>1, <3>1, <4>1, <4>3, <4>4 DEF Known, HasRow
      <4>6. ASSUME NEW k \in Markers, k # m, mark[k].pc = "note"
            PROVE  mark[k].state # NoState /\ mark[k].ts <= sessions'[mark[k].id].last
        <5>1. HasRow(mark[k].id) /\ mark[k].ts \in Nat /\ mark[k].state # NoState
              /\ mark[k].ts <= sessions[mark[k].id].last
          BY <4>6 DEF Known, ByHand, TypeOK
        <5>2. /\ sessions[mark[k].id].last \in Nat /\ sessions'[mark[k].id].last \in Nat
              /\ sessions[mark[k].id].last <= sessions'[mark[k].id].last
          BY <1>1, <5>1 DEF HasRow, Table, Row
        <5> QED BY <5>1, <5>2
      <4>7. ByHand'
        BY <2>1, <4>1, <4>2, <4>3, <4>4, <4>6 DEF ByHand
      <4> QED BY <4>5, <4>7
    <3> QED BY <2>3, <3>2, <3>3 DEF MarkUpdate
  <2>4. CASE MarkNote(m)
    <3>1. /\ mark[m].pc = "note" /\ sessions' = sessions
          /\ mark' = [mark EXCEPT ![m] = NoMark]
          /\ events' = events \/ \E e : e.sid = mark[m].id /\ events' = events \cup {e}
      BY <2>4 DEF MarkNote, NoEvent
    <3>2. \A k \in Markers : mark'[k] = IF k = m THEN NoMark ELSE mark[k]
      BY <2>1, <3>1
    <3>3. HasRow(mark[m].id)
      BY <3>1 DEF Known
    <3> QED BY <2>1, <3>1, <3>2, <3>3 DEF Known, ByHand, HasRow, NoMark
  <2> QED BY <1>9, <2>2, <2>3, <2>4 DEF Mark
<1> QED BY <1>2, <1>3, <1>4, <1>5, <1>6, <1>7, <1>8, <1>9 DEF Next, Agents, Handle

-----------------------------------------------------------------------------
(* Sources, one group of actions at a time.                                *)

\* A step that leaves a session's status alone, and whatever the status rests on.
Follows(id) ==
  /\ sessions'[id].status = sessions[id].status /\ sessions'[id].last = sessions[id].last
  /\ events \subseteq events'
  /\ \A e \in events' \ events : e.sid = id /\ Bears(e) # NoState => InHand(e)'
  /\ \A e \in Asked(id) : InHand(e) => InHand(e)' \/ e.ts < sessions[id].last
  /\ \A m \in Markers : /\ Noting(m, id) => mark'[m] = mark[m]
                        /\ Noting(m, id)' => Noting(m, id)

LEMMA Carried ==
  ASSUME TypeOK, NEW id \in SessionId, Heeded(id), Sourced(id), Follows(id)
  PROVE  Heeded(id)' /\ Sourced(id)'
<1>1. sessions[id].last \in Nat /\ \A e \in events : e.ts \in Nat
  BY DEF TypeOK, Row, Event
<1>2. Asked(id)' = {e \in events' : e.sid = id /\ Bears(e) # NoState}
  BY DEF Asked
<1>3. \A e \in Asked(id)' : e \in Asked(id) \/ InHand(e)'
  BY <1>2 DEF Follows, Asked
<1>4. Asked(id) \subseteq events
  BY DEF Asked
<1>5. Heeded(id)'
  BY <1>1, <1>3, <1>4 DEF Heeded, Follows
<1>6. Reaped(id) => Reaped(id)'
  BY DEF Reaped, Follows
<1>7. Reported(id) => Reported(id)'
  BY DEF Reported, Follows
<1>8. Marked(id) => Marked(id)'
  BY DEF Marked, Noting, Follows
<1>9. New(id) => New(id)'
  <2>1. SUFFICES ASSUME New(id) PROVE New(id)'
    OBVIOUS
  <2>2. sessions'[id].status = "idle"
    BY <2>1 DEF New, Follows
  <2>3. \A e \in Asked(id)' : InHand(e)' \/ e.ts < sessions'[id].last
    BY <2>1, <1>3 DEF New, Follows
  <2>4. \A m \in Markers : Noting(m, id)' => mark'[m].ts < sessions'[id].last
    BY <2>1 DEF New, Follows
  <2> QED BY <2>2, <2>3, <2>4 DEF New
<1> QED BY <1>5, <1>6, <1>7, <1>8, <1>9 DEF Sourced

\* A step in which the history, what the handler has in hand and the commands stay,
\* and this row as well.
Still(id) ==
  /\ sessions'[id].status = sessions[id].status /\ sessions'[id].last = sessions[id].last
  /\ events' = events
  /\ \A e : InHand(e) => InHand(e)'
  /\ \A m \in Markers : mark'[m] = mark[m] \/ (mark[m].pc = "rest" /\ mark'[m].pc # "note")

LEMMA StillFollows == ASSUME NEW id, Still(id) PROVE Follows(id)
BY DEF Still, Follows, Asked, Noting

\* The statement changes one row: status and time become the given ones, or the time
\* was too old.
LEMMA WriteRow ==
  ASSUME NEW t \in Table, NEW id \in SessionId, Exists(t, id), NEW st, NEW ts \in Nat
  PROVE  LET u == UpdateStatus(t, id, st, ts) IN
         /\ \A i \in SessionId \ {id} : u[i] = t[i]
         /\ \/ u[id].status = st /\ u[id].last = ts /\ t[id].last <= ts /\ Changes(t, id, ts)
            \/ u = t /\ ts < t[id].last /\ ~Changes(t, id, ts)
<1>1. t[id].last \in Nat
  BY DEF Table, Row
<1>2. CASE Changes(t, id, ts)
  <2>1. t[id].last <= ts
    BY <1>1, <1>2 DEF Changes
  <2>2. UpdateStatus(t, id, st, ts) = [t EXCEPT ![id].status = st, ![id].last = ts]
    BY <1>2 DEF UpdateStatus
  <2> QED BY <1>2, <2>1, <2>2 DEF Table, Row
<1>3. CASE ~Changes(t, id, ts)
  <2>1. ts < t[id].last
    BY <1>1, <1>3 DEF Changes
  <2> QED BY <1>3, <2>1 DEF UpdateStatus
<1> QED BY <1>2, <1>3

\* A reaper writes dead, with a time the row has or has passed.
LEMMA KillSources ==
  ASSUME TypeOK, CandidatesAreBehind, NEW r \in Reapers, NEW s \in sweep[r].stale,
         sessions' = Kill(s), UNCHANGED <<events, handler, mark>>,
         NEW id \in SessionId, Heeded(id), Sourced(id)
  PROVE  Heeded(id)' /\ Sourced(id)'
<1>1. /\ sessions \in Table /\ s.id \in SessionId /\ s.last \in Nat /\ Exists(sessions, s.id)
      /\ s.last <= sessions[s.id].last
  BY DEF TypeOK, Table, Snapshot, CandidatesAreBehind
<1>2. /\ \A i \in SessionId \ {s.id} : sessions'[i] = sessions[i]
      /\ \/ sessions'[s.id].status = "dead" /\ sessions'[s.id].last = s.last
                                           /\ sessions[s.id].last <= s.last
         \/ sessions' = sessions
  BY <1>1, WriteRow DEF Kill
<1>3. CASE sessions'[id] = sessions[id]
  <2>1. Still(id)
    BY <1>3 DEF Still, InHand
  <2> QED BY <2>1, Carried, StillFollows
<1>4. CASE sessions'[id].status = "dead" /\ sessions'[id].last = sessions[id].last
  <2>1. Sourced(id)'
    BY <1>4 DEF Sourced, Reaped
  <2>2. Heeded(id)'
    BY <1>4 DEF Heeded, Asked, InHand
  <2> QED BY <2>1, <2>2
<1>5. sessions[s.id].last \in Nat
  BY <1>1 DEF Table, Row
<1>6. CASE id # s.id
  BY <1>2, <1>3, <1>6
<1>7. CASE id = s.id
  <2>1. CASE sessions' = sessions
    BY <1>3, <2>1
  <2>2. CASE sessions'[s.id].status = "dead" /\ sessions'[s.id].last = s.last
             /\ sessions[s.id].last <= s.last
    <3>1. s.last = sessions[s.id].last
      BY <1>1, <1>5, <2>2
    <3> QED BY <1>4, <1>7, <2>2, <3>1
  <2> QED BY <1>2, <2>1, <2>2
<1> QED BY <1>6, <1>7

\* The handler's write: its event is of the newest second then, or too old to count.
LEMMA UpdateSources ==
  ASSUME TypeOK, Known, Judged, Update, ~Fault, NEW id \in SessionId, Heeded(id), Sourced(id)
  PROVE  Heeded(id)' /\ Sourced(id)'
<1> DEFINE e == handler.ev
<1>1. /\ handler.pc = "update" /\ events' = events /\ mark' = mark
      /\ sessions' = UpdateStatus(sessions, e.sid, handler.next, e.ts)
      /\ handler'.pc = "alert"
  BY DEF Update, Step
<1>2. /\ e \in events /\ handler.next \in Outcomes(e) /\ e.ts \in Nat /\ HasRow(e.sid)
      /\ sessions \in Table
  BY <1>1 DEF Judged, Known, TypeOK, Event, Table
<1>3. /\ \A i \in SessionId \ {e.sid} : sessions'[i] = sessions[i]
      /\ \/ sessions'[e.sid].status = handler.next /\ sessions'[e.sid].last = e.ts
                                               /\ sessions[e.sid].last <= e.ts
         \/ sessions' = sessions /\ e.ts < sessions[e.sid].last
  BY <1>1, <1>2, WriteRow DEF HasRow
<1>4. \A f \in Asked(id) : InHand(f) => f = e /\ id = e.sid
  BY DEF Asked, InHand
<1>5. CASE id # e.sid \/ (sessions' = sessions /\ e.ts < sessions[e.sid].last)
  <2>1. Follows(id)
    BY <1>1, <1>3, <1>4, <1>5 DEF Follows, Noting
  <2> QED BY <2>1, Carried
<1>6. CASE id = e.sid /\ sessions'[id].status = handler.next /\ sessions'[id].last = e.ts
           /\ sessions[id].last <= e.ts
  <2>1. Reported(id)'
    BY <1>1, <1>2, <1>6 DEF Reported
  <2>2. sessions[id].last \in Nat /\ \A f \in Asked(id) : f.ts \in Nat
    BY DEF TypeOK, Row, Event, Asked
  <2>3. \A f \in Asked(id) : f.ts <= e.ts
    BY <1>2, <1>4, <1>6, <2>2 DEF Heeded
  <2>4. Heeded(id)'
    BY <1>1, <1>6, <2>3 DEF Heeded, Asked
  <2> QED BY <2>1, <2>4 DEF Sourced
<1>7. CASE id = e.sid
  <2>1. CASE sessions' = sessions /\ e.ts < sessions[e.sid].last
    BY <1>5, <2>1
  <2>2. CASE sessions'[e.sid].status = handler.next /\ sessions'[e.sid].last = e.ts
             /\ sessions[e.sid].last <= e.ts
    BY <1>6, <1>7, <2>2
  <2> QED BY <1>3, <2>1, <2>2
<1>8. CASE id # e.sid
  BY <1>5, <1>8
<1> QED BY <1>7, <1>8

\* The handler says what the event does: one that does nothing asks for nothing.
LEMMA ClassifySources ==
  ASSUME TypeOK, Known, ByHand, Judged, Classify, ~Fault
  PROVE  /\ Judged'
         /\ \A id \in SessionId : Heeded(id) /\ Sourced(id) => Heeded(id)' /\ Sourced(id)'
<1> DEFINE e == handler.ev
           cur == CurrentStatus(sessions, e.sid)
           next == Transition(cur, e)
<1>1. /\ handler.pc = "classify" /\ sessions' = sessions /\ events' = events /\ mark' = mark
      /\ IF next = NoState THEN Release ELSE Step("update", e, next)
  BY DEF Classify, tables
<1>2. e \in events /\ e.manual = NoState /\ HasRow(e.sid)
  BY <1>1 DEF Judged, ByHand, Known
<1>3. cur \in State
  BY <1>2 DEF CurrentStatus, HasRow, Exists, TypeOK, Row
<1>4. /\ next = NoState => Bears(e) = NoState
      /\ next # NoState => next \in Outcomes(e)
  BY <1>2, <1>3, AskedAlike
<1>5. CASE next = NoState
  <2>1. handler' = AtRest
    BY <1>1, <1>5 DEF Release
  <2>2. \A id \in SessionId : Follows(id)
    BY <1>1, <1>4, <1>5 DEF Follows, Asked, InHand, Noting
  <2>3. Judged'
    BY <2>1 DEF Judged, AtRest
  <2> QED BY <2>2, <2>3, Carried
<1>6. CASE next # NoState
  <2>1. handler'.pc = "update" /\ handler'.ev = e /\ handler'.next = next
    BY <1>1, <1>6 DEF Step
  <2>2. \A f : InHand(f) => InHand(f)'
    BY <2>1 DEF InHand
  <2>3. \A id \in SessionId : Still(id)
    BY <1>1, <2>2 DEF Still
  <2>4. Judged'
    BY <1>1, <1>2, <1>4, <1>6, <2>1 DEF Judged
  <2> QED BY <2>3, <2>4, Carried, StillFollows
<1> QED BY <1>5, <1>6

\* A new row is idle and nothing was ever said of it; the others stay as they are.
LEMMA ReceiveSources ==
  ASSUME TypeOK, Exclusive, Known, Receive, ~Fault, NEW id \in SessionId,
         Exists(sessions, id) => Heeded(id) /\ Sourced(id), Exists(sessions, id)'
  PROVE  Heeded(id)' /\ Sourced(id)'
<1>1. PICK e \in bus, new \in SessionId :
        /\ Resolve(e, new, sessions')
        /\ handler'.pc = "append"
  BY DEF Receive, Step
<1>2. events' = events /\ mark' = mark /\ sessions \in Table
  BY DEF Receive, TypeOK, Table
<1>3. \A f : ~InHand(f)
  BY DEF Receive, Exclusive, InHand
<1>4. CASE /\ Exists(sessions, id) /\ sessions'[id].status = sessions[id].status
           /\ sessions'[id].last = sessions[id].last
  <2>1. Still(id)
    BY <1>2, <1>3, <1>4 DEF Still
  <2> QED BY <1>4, <2>1, Carried, StillFollows
<1>5. CASE sessions' = sessions
  BY <1>4, <1>5
<1>6. CASE sessions' = UpdateIdentity(sessions, new, e.proc)
  <2>1. /\ sessions'[id].status = sessions[id].status
        /\ sessions'[id].last = sessions[id].last
    BY <1>2, <1>6 DEF UpdateIdentity, Table, Row
  <2> QED BY <1>4, <2>1 DEF Exists
<1>7. ASSUME ~Exists(sessions, new), NEW h,
             sessions' = CreateSession(sessions, new, e.native, h, e.ts, e.proc)
      PROVE  Heeded(id)' /\ Sourced(id)'
  <2>1. CASE id # new
    <3>1. sessions'[id] = sessions[id]
      BY <1>2, <1>7, <2>1 DEF CreateSession, Table
    <3> QED BY <1>4, <3>1 DEF Exists
  <2>2. CASE id = new
    <3>1. sessions'[id].status = "idle"
      BY <1>2, <1>7, <2>2 DEF CreateSession, Table
    <3>2. Asked(id)' = {}
      BY <1>2, <1>7, <2>2 DEF Asked, Known, HasRow
    <3>3. \A m \in Markers : ~Noting(m, id)'
      BY <1>2, <1>7, <2>2 DEF Noting, Known, HasRow
    <3> QED BY <3>1, <3>2, <3>3 DEF Heeded, Sourced, New
  <2> QED BY <2>1, <2>2
<1> QED BY <1>1, <1>5, <1>6, <1>7 DEF Resolve

\* A mark that was written waits for its note, one that was skipped is over.
LEMMA MarkUpdateSources ==
  ASSUME TypeOK, Known, NEW m \in Markers, MarkUpdate(m), ~Fault, NEW id \in SessionId,
         Heeded(id), Sourced(id)
  PROVE  Heeded(id)' /\ Sourced(id)'
<1> DEFINE k == mark[m]
<1>1. /\ k.pc = "update" /\ events' = events /\ handler' = handler
      /\ sessions' = UpdateStatus(sessions, k.id, k.state, k.ts)
      /\ mark' = IF Changes(sessions, k.id, k.ts) THEN [mark EXCEPT ![m].pc = "note"]
                                                 ELSE [mark EXCEPT ![m] = NoMark]
  BY DEF MarkUpdate
<1>2. /\ HasRow(k.id) /\ k.ts \in Nat /\ sessions \in Table
      /\ mark \in [Markers -> [pc : {"rest", "update", "note"},
                               id : SessionId \cup {NoSession},
                               state : State \cup {NoState}, ts : Nat]]
  BY <1>1 DEF Known, TypeOK, Table
<1>3. /\ \A i \in SessionId \ {k.id} : sessions'[i] = sessions[i]
      /\ \/ sessions'[k.id].status = k.state /\ sessions'[k.id].last = k.ts
                 /\ sessions[k.id].last <= k.ts /\ Changes(sessions, k.id, k.ts)
         \/ sessions' = sessions /\ ~Changes(sessions, k.id, k.ts)
  BY <1>1, <1>2, WriteRow DEF HasRow
<1>4. \A j \in Markers : j # m => mark'[j] = mark[j]
  BY <1>1, <1>2
<1>5. CASE sessions'[id] = sessions[id] /\ ~Noting(m, id)'
  <2>1. ~Noting(m, id) /\ \A j \in Markers : j # m => (Noting(j, id)' <=> Noting(j, id))
    BY <1>1, <1>4 DEF Noting
  <2>2. Follows(id)
    BY <1>1, <1>4, <1>5, <2>1 DEF Follows, InHand
  <2> QED BY <2>2, Carried
<1>6. CASE ~Changes(sessions, k.id, k.ts)
  <2>1. mark'[m].pc = "rest"
    BY <1>1, <1>2, <1>6 DEF NoMark
  <2> QED BY <1>3, <1>5, <1>6, <2>1 DEF Noting
<1>7. CASE Changes(sessions, k.id, k.ts)
  <2>1. mark'[m].pc = "note" /\ mark'[m].id = k.id /\ mark'[m].ts = k.ts /\ mark'[m].state = k.state
    BY <1>1, <1>2, <1>7
  <2>2. CASE id # k.id
    BY <1>3, <1>5, <2>1, <2>2 DEF Noting
  <2>3. CASE id = k.id
    <3>1. sessions'[id].status = k.state /\ sessions'[id].last = k.ts
          /\ sessions[id].last <= k.ts
      BY <1>3, <1>7, <2>3
    <3>2. Marked(id)'
      BY <2>1, <2>3, <3>1 DEF Marked, Noting
    <3>3. sessions[id].last \in Nat /\ \A f \in Asked(id) : f.ts \in Nat
      BY DEF TypeOK, Row, Event, Asked
    <3>4. Heeded(id)'
      BY <1>1, <1>2, <3>1, <3>3 DEF Heeded, Asked, InHand
    <3> QED BY <3>2, <3>4 DEF Sourced
  <2> QED BY <2>2, <2>3
<1> QED BY <1>6, <1>7

\* The note takes the place of the command as what the status comes from.
LEMMA MarkNoteSources ==
  ASSUME TypeOK, Known, ByHand, NEW m \in Markers, MarkNote(m), ~Fault, NEW id \in SessionId,
         Heeded(id), Sourced(id)
  PROVE  Heeded(id)' /\ Sourced(id)'
<1> DEFINE k == mark[m]
           note == [NoEvent EXCEPT !.n = seq, !.sid = k.id, !.kind = "note",
                                   !.manual = k.state, !.ts = k.ts]
<1>1. /\ k.pc = "note" /\ events' = events \cup {note} /\ handler' = handler
      /\ sessions' = sessions /\ mark' = [mark EXCEPT ![m] = NoMark]
  BY DEF MarkNote
<1>2. note.sid = k.id /\ note.manual = k.state /\ note.ts = k.ts
  BY DEF NoEvent
<1> HIDE DEF note
<1>3. /\ k.state # NoState /\ k.ts <= sessions[k.id].last /\ k.ts \in Nat
      /\ Outcomes(note) = {k.state}
  BY <1>1, <1>2 DEF ByHand, TypeOK, Outcomes
<1>4. /\ mark'[m].pc = "rest"
      /\ \A j \in Markers : j # m => mark'[j] = mark[j]
  BY <1>1 DEF TypeOK, NoMark
<1>5. CASE id # k.id
  <2>1. \A j \in Markers : /\ Noting(j, id) => mark'[j] = mark[j]
                           /\ Noting(j, id)' => Noting(j, id)
    BY <1>4, <1>5 DEF Noting
  <2>2. Follows(id)
    BY <1>1, <1>2, <1>5, <2>1 DEF Follows, InHand
  <2> QED BY <2>2, Carried
<1>6. CASE id = k.id
  <2>1. Heeded(id)'
    BY <1>1, <1>2, <1>3, <1>6 DEF Heeded, Asked, InHand
  <2>2. CASE Marked(id)
    <3>1. PICK j \in Markers : /\ Noting(j, id) /\ mark[j].ts = sessions[id].last
                              /\ mark[j].state = sessions[id].status
      BY <2>2 DEF Marked
    <3>2. CASE j = m
      <4>1. Reported(id)'
        BY <1>1, <1>2, <1>3, <1>6, <3>1, <3>2 DEF Reported
      <4> QED BY <2>1, <4>1 DEF Sourced
    <3>3. CASE j # m
      <4>1. Marked(id)'
        BY <1>1, <1>4, <3>1, <3>3 DEF Marked, Noting
      <4> QED BY <2>1, <4>1 DEF Sourced
    <3> QED BY <3>1, <3>2, <3>3
  <2>3. CASE Reaped(id)
    BY <1>1, <2>1, <2>3 DEF Reaped, Sourced
  <2>4. CASE Reported(id)
    <3>1. Reported(id)'
      BY <1>1, <2>4 DEF Reported
    <3> QED BY <2>1, <3>1 DEF Sourced
  <2>5. CASE New(id)
    <3>1. k.ts < sessions[id].last
      BY <1>1, <1>6, <2>5 DEF New, Noting
    <3>2. \A j \in Markers : Noting(j, id)' => Noting(j, id) /\ mark'[j] = mark[j]
      BY <1>4 DEF Noting
    <3>3. New(id)'
      BY <1>1, <1>2, <2>5, <3>1, <3>2 DEF New, Asked, InHand
    <3> QED BY <2>1, <3>3 DEF Sourced
  <2> QED BY <2>1, <2>2, <2>3, <2>4, <2>5 DEF Sourced
<1> QED BY <1>5, <1>6

-----------------------------------------------------------------------------
(* The theorem.                                                            *)

AllSourced == \A id \in SessionId : Exists(sessions, id) => Heeded(id) /\ Sourced(id)

\* A step that adds no row keeps the sources if it keeps those of every row.
LEMMA SourcesOfRows ==
  ASSUME Inv, Next, AllSourced,
         \A id \in SessionId : Exists(sessions, id)' => Exists(sessions, id),
         \A id \in SessionId : Exists(sessions, id) /\ Heeded(id) /\ Sourced(id)
                               => Heeded(id)' /\ Sourced(id)'
  PROVE  AllSourced'
BY DEF AllSourced

LEMMA SameRowsExist ==
  ASSUME NEW id \in SessionId, sessions'[id].status = sessions[id].status
  PROVE  Exists(sessions, id)' => Exists(sessions, id)
BY DEF Exists

\* A statement on the status of a row adds none.
LEMMA WriteAddsNone ==
  ASSUME TypeOK, NEW i, NEW st, NEW ts, sessions' = UpdateStatus(sessions, i, st, ts),
         NEW id \in SessionId, Exists(sessions, id)'
  PROVE  Exists(sessions, id)
<1>1. sessions \in Table
  BY DEF TypeOK, Table
<1>2. CASE Changes(sessions, i, ts)
  <2>1. sessions' = [sessions EXCEPT ![i].status = st, ![i].last = ts] /\ Exists(sessions, i)
    BY <1>2 DEF UpdateStatus, Changes
  <2>2. id # i => sessions'[id] = sessions[id]
    BY <1>1, <2>1 DEF Table
  <2> QED BY <2>1, <2>2 DEF Exists
<1>3. CASE ~Changes(sessions, i, ts)
  BY <1>3 DEF UpdateStatus
<1> QED BY <1>2, <1>3

LEMMA SourcesStep ==
  ASSUME Inv, Exclusive, Known, ByHand, Judged, AllSourced, Next, ~Fault, ~Crash
  PROVE  Judged' /\ AllSourced'
<1> USE DEF Inv
<1>1. ASSUME sessions' = sessions, events' = events, \A f : InHand(f) => InHand(f)',
             \A m \in Markers : mark'[m] = mark[m] \/ (mark[m].pc = "rest" /\ mark'[m].pc # "note")
      PROVE  AllSourced'
  <2>1. \A id \in SessionId : Still(id)
    BY <1>1 DEF Still
  <2>2. \A id \in SessionId : Exists(sessions, id)' => Exists(sessions, id)
    BY <1>1 DEF Exists
  <2> QED BY <2>1, <2>2, SourcesOfRows, Carried, StillFollows
<1>2. CASE Tick \/ Agents \/ Restart
  <2>1. UNCHANGED <<sessions, events, handler, mark>>
    BY <1>2 DEF Tick, Agents, StartAgent, ExitAgent, Hook, Emit, Publish, Restart, tables
  <2> QED BY <1>1, <2>1 DEF InHand, Judged
<1>3. CASE Receive
  <2>1. handler'.pc = "append" /\ Judged'
    BY <1>3 DEF Receive, Step, Judged
  <2>2. AllSourced'
    BY <1>3, ReceiveSources DEF AllSourced
  <2> QED BY <2>1, <2>2
<1>4. CASE Append
  <2>1. /\ handler.pc = "append" /\ events' = events \cup {handler.ev} /\ sessions' = sessions
        /\ mark' = mark /\ handler'.pc = "classify" /\ handler'.ev = handler.ev
    BY <1>4 DEF Append, Step
  <2>2. \A id \in SessionId : Follows(id)
    BY <2>1 DEF Follows, Asked, InHand, Noting
  <2>3. \A id \in SessionId : Exists(sessions, id)' => Exists(sessions, id)
    BY <2>1 DEF Exists
  <2>4. AllSourced'
    BY <2>2, <2>3, SourcesOfRows, Carried
  <2> QED BY <2>1, <2>4 DEF Judged
<1>5. CASE Classify
  <2>1. \A id \in SessionId : Exists(sessions, id)' => Exists(sessions, id)
    BY <1>5 DEF Classify, tables, Exists
  <2> QED BY <1>5, <2>1, ClassifySources, SourcesOfRows
<1>6. CASE Update
  <2>1. sessions' = UpdateStatus(sessions, handler.ev.sid, handler.next, handler.ev.ts)
        /\ handler'.pc = "alert"
    BY <1>6 DEF Update, Step
  <2>2. \A id \in SessionId : Exists(sessions, id)' => Exists(sessions, id)
    BY <2>1, WriteAddsNone
  <2>3. AllSourced'
    BY <1>6, <2>2, UpdateSources, SourcesOfRows
  <2> QED BY <2>1, <2>3 DEF Judged
<1>7. CASE Alert
  <2>1. /\ sessions' = sessions /\ events' = events /\ mark' = mark
        /\ handler.pc = "alert" /\ handler' = AtRest
    BY <1>7 DEF Alert, Release, tables
  <2>2. \A f : InHand(f) => InHand(f)'
    BY <2>1 DEF InHand
  <2> QED BY <1>1, <2>1, <2>2 DEF Judged, AtRest
<1>8. ASSUME NEW r \in Reapers, Reap(r) PROVE Judged' /\ AllSourced'
  <2>1. UNCHANGED <<events, handler, mark>>
    BY <1>8 DEF Reap, SelectLocal, ReapLocal, SelectRemote, ReapRemote, ReapEnd, tables
  <2>2. Judged'
    BY <2>1 DEF Judged
  <2>3. CASE sessions' = sessions
    BY <1>1, <2>1, <2>2, <2>3 DEF InHand
  <2>4. ASSUME NEW s \in sweep[r].stale, sessions' = Kill(s) PROVE AllSourced'
    <3>1. \A id \in SessionId : Exists(sessions, id)' => Exists(sessions, id)
      BY <2>4, WriteAddsNone DEF Kill
    <3> QED BY <2>1, <2>4, <3>1, KillSources, SourcesOfRows
  <2>5. sessions' = sessions \/ \E s \in sweep[r].stale : sessions' = Kill(s)
    BY <1>8 DEF Reap, SelectLocal, ReapLocal, SelectRemote, ReapRemote, ReapEnd, tables
  <2> QED BY <2>2, <2>3, <2>4, <2>5
<1>9. ASSUME NEW m \in Markers, Mark(m) PROVE Judged' /\ AllSourced'
  <2>1. handler' = handler /\ events \subseteq events'
    BY <1>9 DEF Mark, MarkBegin, MarkUpdate, MarkNote, tables
  <2>2. Judged'
    BY <2>1 DEF Judged
  <2>3. CASE MarkBegin(m)
    <3>1. /\ sessions' = sessions /\ events' = events /\ mark[m].pc = "rest"
          /\ \A k \in Markers : k # m => mark'[k] = mark[k]
          /\ mark'[m].pc = "update"
      BY <2>3 DEF MarkBegin, tables, TypeOK
    <3>2. \A k \in Markers : mark'[k] = mark[k] \/ (mark[k].pc = "rest" /\ mark'[k].pc # "note")
      BY <3>1
    <3> QED BY <1>1, <2>1, <2>2, <3>1, <3>2 DEF InHand
  <2>4. CASE MarkUpdate(m)
    <3>1. \A id \in SessionId : Exists(sessions, id)' => Exists(sessions, id)
      BY <2>4, WriteAddsNone DEF MarkUpdate
    <3> QED BY <2>2, <2>4, <3>1, MarkUpdateSources, SourcesOfRows
  <2>5. CASE MarkNote(m)
    <3>1. \A id \in SessionId : Exists(sessions, id)' => Exists(sessions, id)
      BY <2>5 DEF MarkNote, Exists
    <3> QED BY <2>2, <2>5, <3>1, MarkNoteSources, SourcesOfRows
  <2> QED BY <1>9, <2>3, <2>4, <2>5 DEF Mark
<1> QED BY <1>2, <1>3, <1>4, <1>5, <1>6, <1>7, <1>8, <1>9 DEF Next, Handle

LEMMA HistoryInductive ==
  /\ Init => Inv /\ Exclusive /\ HistoryInv
  /\ Inv /\ Exclusive /\ HistoryInv /\ [Next]_vars => Inv' /\ Exclusive' /\ HistoryInv'
<1>1. Init => HistoryInv
  <2> SUFFICES ASSUME Init PROVE HistoryInv
    OBVIOUS
  <2>1. \A id \in SessionId : ~Exists(sessions, id)
    BY DEF Init, EmptyTable, NoRow, Exists
  <2> QED BY <2>1 DEF Init, HistoryInv, Known, ByHand, Judged, AtRest, NoMark
<1>2. ASSUME Inv, Exclusive, HistoryInv, Next PROVE HistoryInv'
  <2>1. Known' /\ ByHand'
    BY <1>2, NamesStep DEF HistoryInv
  <2>2. ASSUME Untroubled' PROVE Judged' /\ AllSourced'
    <3>1. Untroubled /\ ~Crash /\ ~Fault
      BY <1>2, <2>2, NoTrouble DEF Inv
    <3>2. Judged /\ AllSourced /\ Known /\ ByHand
      BY <1>2, <3>1 DEF HistoryInv, AllSourced
    <3> QED BY <1>2, <3>1, <3>2, SourcesStep
  <2> QED BY <2>1, <2>2 DEF HistoryInv, AllSourced
<1>3. ASSUME HistoryInv, UNCHANGED vars PROVE HistoryInv'
  <2>1. UNCHANGED <<sessions, events, bus, handler, mark, faults, crashes>>
    BY <1>3 DEF vars, tables, bounds
  <2>2. /\ Known' /\ ByHand' /\ (Untroubled' <=> Untroubled)
        /\ (Judged' <=> Judged)
    BY <1>3, <2>1 DEF HistoryInv, Known, ByHand, HasRow, Untroubled, Judged
  <2>3. ASSUME NEW id
        PROVE  /\ Exists(sessions, id)' <=> Exists(sessions, id)
               /\ Heeded(id)' <=> Heeded(id)
               /\ Sourced(id)' <=> Sourced(id)
    BY <2>1 DEF Exists, Heeded, Sourced, Reaped, Reported, Marked, New, Asked, InHand, Noting
  <2> QED BY <1>3, <2>2, <2>3 DEF HistoryInv
<1> QED BY <1>1, <1>2, <1>3, BaseInductive

\* While nothing fails, the status of every session that was not reaped is what the
\* newest second of its history says, in any order of events and with any number of
\* commands that reap or mark (store.go, UpdateStatus; daemon.go, handle).
THEOREM NewestCorrect == Spec => []StatusIsNewest
<1>1. Inv /\ HistoryInv => StatusIsNewest
  <2> SUFFICES ASSUME Inv, HistoryInv, NEW id \in SessionId, Exists(sessions, id),
                      Settled(id), Untroubled
               PROVE  /\ \A e \in Asked(id) : e.ts <= sessions[id].last
                      /\ \/ sessions[id].status = "dead"
                         \/ Reported(id)
                         \/ /\ sessions[id].status = "idle"
                            /\ \A e \in Asked(id) : e.ts < sessions[id].last
    BY DEF StatusIsNewest, Asked, Reported, Untroubled
  <2>1. Heeded(id) /\ Sourced(id)
    BY DEF HistoryInv
  <2>2. \A e \in Asked(id) : ~InHand(e)
    BY DEF Settled, Asked, InHand
  <2>3. \A m \in Markers : ~Noting(m, id)
    BY DEF Settled, Noting
  <2> QED BY <2>1, <2>2, <2>3 DEF Heeded, Sourced, Reaped, Marked, New
<1> QED BY <1>1, HistoryInductive, PTL DEF Spec
=============================================================================
