--------------------------- MODULE ManagerProofs ---------------------------
(***************************************************************************)
(* Theorems about Manager, for any number of sessions, conversations,       *)
(* processes and commands, any bounds, and events in any order.             *)
(***************************************************************************)
EXTENDS Manager, FiniteSetTheorems, TLAPS

Table == [SessionId -> Row]

-----------------------------------------------------------------------------
(* The operators of the session's state machine and of the store.          *)

\* Transition answers a state or "no change", and never dead: only the reaper
\* sets that (session.go, StateDead).
LEMMA TransitionType ==
  ASSUME NEW cur, NEW e
  PROVE  Transition(cur, e) \in (State \ {"dead"}) \cup {NoState}
BY DEF Transition, NextState, State, NoState, Resuming, Informational

LEMMA CreateSessionType ==
  ASSUME NEW tbl \in Table, NEW id \in SessionId, NEW nat \in Native \cup {NoNative},
         NEW host \in Host \cup {NoHost}, NEW ts \in Nat, NEW proc \in Proc \cup {NoProc}
  PROVE  CreateSession(tbl, id, nat, host, ts, proc) \in Table
BY DEF CreateSession, Table, Row, State

LEMMA UpdateIdentityType ==
  ASSUME NEW tbl \in Table, NEW id \in SessionId, NEW proc \in Proc \cup {NoProc}
  PROVE  UpdateIdentity(tbl, id, proc) \in Table
BY DEF UpdateIdentity, Table, Row

LEMMA UpdateStatusType ==
  ASSUME NEW tbl \in Table, NEW id, NEW st \in State \cup {NoState}, NEW ts \in Nat
  PROVE  UpdateStatus(tbl, id, st, ts) \in Table
BY DEF UpdateStatus, Table, Row

LEMMA SelectType ==
  ASSUME NEW tbl \in Table, NEW host, NEW cutoff
  PROVE  /\ LocalStale(tbl, host) \subseteq Snapshot
         /\ RemoteStale(tbl, host, cutoff) \subseteq Snapshot
BY DEF LocalStale, RemoteStale, SnapshotOf, Snapshot, NotTerminal, Table, Row

LEMMA CountType ==
  ASSUME NEW tbl, NEW st
  PROVE  CountByStatus(tbl, st) \in Nat
<1>1. IsFiniteSet({id \in SessionId : tbl[id].status = st})
  BY StoreAssumption, FS_Subset, SMT DEF StoreAssumption
<1> QED BY <1>1, FS_CardinalityType DEF CountByStatus

-----------------------------------------------------------------------------
(* The type invariant, for one group of actions at a time.                 *)

LEMMA NoEventType == NoEvent \in Event /\ AtRest.ev \in Event
BY DEF NoEvent, Event, AtRest, Kind, NotifyType, NoNotify, NoState

LEMMA InitType == Init => TypeOK
<1> SUFFICES ASSUME Init PROVE TypeOK
  OBVIOUS
<1>1. sessions \in [SessionId -> Row]
  BY DEF Init, EmptyTable, NoRow, Row
<1>2. handler \in [pc : {"rest", "append", "classify", "update", "alert"},
                   ev : Event, next : State \cup {NoState}]
  BY NoEventType DEF Init, AtRest
<1>3. sweep \in [Reapers -> [pc : {"rest", "local", "remote"},
                             stale : SUBSET Snapshot, reaped : SUBSET SessionId]]
  BY DEF Init, NoSweep
<1>4. mark \in [Markers -> [pc : {"rest", "update", "note"},
                            id : SessionId \cup {NoSession},
                            state : State \cup {NoState}, ts : Nat]]
  BY DEF Init, NoMark
<1> QED BY <1>1, <1>2, <1>3, <1>4 DEF Init, TypeOK

LEMMA TickType == ASSUME TypeOK, Tick PROVE TypeOK'
BY DEF TypeOK, Tick, agentVars, tables, bounds

LEMMA AgentsType == ASSUME TypeOK, Agents PROVE TypeOK'
<1>1. ASSUME NEW nat \in Native, StartAgent(nat) PROVE TypeOK'
  BY <1>1 DEF TypeOK, StartAgent, tables, bounds
<1>2. ASSUME NEW nat \in Native, ExitAgent(nat) PROVE TypeOK'
  BY <1>2 DEF TypeOK, ExitAgent, tables, bounds
<1>3. ASSUME NEW e \in Event, Publish(e) PROVE TypeOK'
  <2>1. bus' \subseteq Event /\ seq' \in Nat
    BY <1>3 DEF TypeOK, Publish
  <2> QED BY <1>3, <2>1 DEF TypeOK, Publish, tables, bounds
<1>4. ASSUME NEW nat \in Native, Hook(nat) PROVE TypeOK'
  <2>1. PICK s \in Signals, p \in Captured(nat) :
          Publish([n |-> seq, sid |-> NoSession, native |-> nat, kind |-> s.kind,
                   notify |-> s.notify, manual |-> NoState, ts |-> now, proc |-> p,
                   host |-> HostOf[nat]])
    BY <1>4 DEF Hook
  <2>2. s \in Signal /\ p \in Proc \cup {NoProc} /\ HostOf[nat] \in Host
    BY ManagerAssumption DEF ManagerAssumption, Captured, TypeOK
  <2> QED BY <1>3, <2>1, <2>2 DEF Event, Signal, TypeOK
<1>5. ASSUME NEW nat \in Native, Emit(nat) PROVE TypeOK'
  <2>1. PICK s \in Signals, id \in FindSessionByNative(sessions, nat) \cup {NoSession} :
          Publish([n |-> seq, sid |-> id,
                   native |-> IF id = NoSession THEN nat ELSE NoNative,
                   kind |-> s.kind, notify |-> NoNotify, manual |-> NoState,
                   ts |-> now, proc |-> NoProc, host |-> NoHost])
    BY <1>5 DEF Emit
  <2>2. s \in Signal /\ id \in SessionId \cup {NoSession}
    BY ManagerAssumption DEF ManagerAssumption, FindSessionByNative
  <2> QED BY <1>3, <2>1, <2>2 DEF Event, Signal, TypeOK, NoNotify, NotifyType
<1> QED BY <1>1, <1>2, <1>4, <1>5 DEF Agents

\* What resolving an event does to the table keeps it a table.
LEMMA ResolveType ==
  ASSUME TypeOK, NEW e \in Event, NEW id \in SessionId, NEW tbl, Resolve(e, id, tbl)
  PROVE  tbl \in Table /\ [e EXCEPT !.sid = id] \in Event
<1>1. [e EXCEPT !.sid = id] \in Event
  BY DEF Event
<1>2. sessions \in Table
  BY DEF TypeOK, Table
<1>3. e.native \in Native \cup {NoNative} /\ e.host \in Host \cup {NoHost}
      /\ e.ts \in Nat /\ e.proc \in Proc \cup {NoProc} /\ LocalHost \in Host
  BY ManagerAssumption DEF Event, ManagerAssumption
<1>4. UpdateIdentity(sessions, id, e.proc) \in Table
  BY <1>2, <1>3, UpdateIdentityType
<1>5. CreateSession(sessions, id, e.native,
                    IF e.host = NoHost THEN LocalHost ELSE e.host, e.ts, e.proc) \in Table
  BY <1>2, <1>3, CreateSessionType
<1> QED BY <1>1, <1>2, <1>4, <1>5 DEF Resolve

LEMMA ReceiveType == ASSUME TypeOK, Receive PROVE TypeOK'
<1>1. PICK e \in bus :
        /\ bus' = bus \ {e}
        /\ \/ /\ NoFault
              /\ \E id \in SessionId :
                   /\ Resolve(e, id, sessions')
                   /\ Step("append", [e EXCEPT !.sid = id], NoState)
              /\ mu' = "handler"
           \/ /\ Fault
              /\ UNCHANGED <<sessions, handler, mu>>
  BY DEF Receive
<1>2. e \in Event
  BY DEF TypeOK
<1>3. sessions' \in Table /\ handler' \in [pc : {"rest", "append", "classify", "update",
                                                "alert"},
                                          ev : Event, next : State \cup {NoState}]
  <2>1. CASE \E id \in SessionId :
               /\ Resolve(e, id, sessions')
               /\ Step("append", [e EXCEPT !.sid = id], NoState)
    BY <1>2, <2>1, ResolveType DEF Step
  <2>2. CASE UNCHANGED <<sessions, handler, mu>>
    BY <2>2 DEF TypeOK, Table
  <2> QED BY <1>1, <2>1, <2>2
<1>4. faults' \in Nat /\ crashes' \in Nat
  BY <1>1 DEF TypeOK, NoFault, Fault, bounds
<1> QED BY <1>1, <1>3, <1>4 DEF TypeOK, Receive, agentVars, Table


LEMMA ReleaseType == Release => handler' \in [pc : {"rest"}, ev : Event, next : {NoState}]
BY NoEventType DEF Release, AtRest

LEMMA HandlerType ==
  ASSUME TypeOK, Append \/ Classify \/ Update \/ Alert
  PROVE  TypeOK'
<1>1. handler.ev \in Event /\ handler.next \in State \cup {NoState}
  BY DEF TypeOK
<1>2. ASSUME NoFault \/ Fault PROVE faults' \in Nat /\ crashes' \in Nat
  BY <1>2 DEF TypeOK, NoFault, Fault, bounds
<1>3. CASE Append
  <2>1. events' \subseteq Event
    BY <1>1, <1>3 DEF Append, TypeOK
  <2>2. NoFault \/ Fault
    BY <1>3 DEF Append
  <2> QED BY <1>1, <1>2, <1>3, <2>1, <2>2 DEF Append, Step, TypeOK, agentVars
<1>4. CASE Classify
  <2>1. PICK cur \in State \cup {NoState} :
          /\ NoFault \/ Fault
          /\ LET next == Transition(cur, handler.ev) IN
             IF next = NoState
             THEN Release
             ELSE Step("update", handler.ev, next) /\ UNCHANGED mu
    BY <1>4 DEF Classify
  <2>2. Transition(cur, handler.ev) \in State \cup {NoState}
    BY TransitionType
  <2>3. handler' \in [pc : {"rest", "append", "classify", "update", "alert"},
                      ev : Event, next : State \cup {NoState}]
        /\ mu' \in {"free", "handler", "sweeper"}
    BY <1>1, <2>1, <2>2, ReleaseType DEF Step, Release, TypeOK
  <2> QED BY <1>2, <1>4, <2>1, <2>3 DEF Classify, TypeOK, agentVars, tables
<1>5. CASE Update
  <2>1. NoFault \/ Fault
    BY <1>5 DEF Update
  <2>2. handler' \in [pc : {"rest", "append", "classify", "update", "alert"},
                      ev : Event, next : State \cup {NoState}]
        /\ mu' \in {"free", "handler", "sweeper"}
    BY <1>1, <1>5, ReleaseType DEF Update, Step, Release, TypeOK
  <2>3. sessions' \in Table
    <3>1. sessions \in Table /\ handler.ev.ts \in Nat
      BY <1>1 DEF TypeOK, Table, Event
    <3>2. UpdateStatus(sessions, handler.ev.sid, handler.next, handler.ev.ts) \in Table
      BY <1>1, <3>1, UpdateStatusType
    <3> QED BY <1>5, <3>1, <3>2 DEF Update
  <2> QED BY <1>2, <1>5, <2>1, <2>2, <2>3 DEF Update, TypeOK, agentVars, Table
<1>6. CASE Alert
  <2>1. countFile' \in Nat /\ (NoFault \/ Fault)
    BY <1>6, CountType DEF Alert, OnStateChange, TypeOK
  <2>2. handler' \in [pc : {"rest", "append", "classify", "update", "alert"},
                      ev : Event, next : State \cup {NoState}]
        /\ mu' \in {"free", "handler", "sweeper"}
    BY <1>6, ReleaseType DEF Alert, Release
  <2> QED BY <1>2, <1>6, <2>1, <2>2 DEF Alert, TypeOK, agentVars, tables
<1> QED BY <1>3, <1>4, <1>5, <1>6


\* The parts of TypeOK that a reaper's action can disturb.
SweepType ==
  /\ sessions \in Table
  /\ countFile \in Nat
  /\ mu \in {"free", "handler", "sweeper"}
  /\ sweep \in [Reapers -> [pc : {"rest", "local", "remote"},
                            stale : SUBSET Snapshot, reaped : SUBSET SessionId]]
  /\ faults \in Nat /\ crashes \in Nat

LEMMA SweepingType ==
  ASSUME TypeOK, NEW r \in Reapers, NEW at \in {"rest", "local", "remote"},
         NEW stale \in SUBSET Snapshot, NEW reaped \in SUBSET SessionId,
         Sweeping(r, at, stale, reaped)
  PROVE  sweep' \in [Reapers -> [pc : {"rest", "local", "remote"},
                                 stale : SUBSET Snapshot, reaped : SUBSET SessionId]]
BY DEF TypeOK, Sweeping

LEMMA ReapDoneType ==
  ASSUME TypeOK, NEW r \in Reapers, ReapDone(r)
  PROVE  /\ sweep' \in [Reapers -> [pc : {"rest", "local", "remote"},
                                    stale : SUBSET Snapshot, reaped : SUBSET SessionId]]
         /\ mu' \in {"free", "handler", "sweeper"}
BY DEF TypeOK, ReapDone, NoSweep

LEMMA LocalFailedType ==
  ASSUME TypeOK, NEW r \in Reapers, LocalFailed(r)
  PROVE  /\ sweep' \in [Reapers -> [pc : {"rest", "local", "remote"},
                                    stale : SUBSET Snapshot, reaped : SUBSET SessionId]]
         /\ mu' \in {"free", "handler", "sweeper"}
<1>1. sweep[r].reaped \in SUBSET SessionId
  BY DEF TypeOK
<1> QED BY <1>1, SweepingType, ReapDoneType DEF LocalFailed, TypeOK

LEMMA ReapType == ASSUME TypeOK, NEW r \in Reapers, Reap(r) PROVE TypeOK'
<1>1. /\ sessions \in Table /\ now - TTL \in Int
      /\ sweep[r].stale \in SUBSET Snapshot /\ sweep[r].reaped \in SUBSET SessionId
      /\ \A s \in sweep[r].stale : s.id \in SessionId /\ s.last \in Nat
  BY ManagerAssumption DEF TypeOK, Table, Snapshot, ManagerAssumption
<1>2. ASSUME NoFault \/ Fault PROVE faults' \in Nat /\ crashes' \in Nat
  BY <1>2 DEF TypeOK, NoFault, Fault, bounds
<1>3. ASSUME NEW s \in sweep[r].stale
      PROVE  /\ UpdateStatus(sessions, s.id, "dead", s.last) \in Table
             /\ sweep[r].stale \ {s} \in SUBSET Snapshot
             /\ sweep[r].reaped \cup (IF Changes(sessions, s.id, s.last) THEN {s.id}
                                      ELSE {}) \in SUBSET SessionId
  <2>1. "dead" \in State
    BY DEF State
  <2> QED BY <1>1, <2>1, UpdateStatusType
<1>4. CASE SelectLocal(r)
  <2>1. SweepType'
    <3>1. NoFault \/ Fault
      BY <1>4 DEF SelectLocal
    <3>2. LocalStale(sessions, LocalHost) \in SUBSET Snapshot
      BY <1>1, SelectType
    <3>3. sweep' \in [Reapers -> [pc : {"rest", "local", "remote"},
                                  stale : SUBSET Snapshot, reaped : SUBSET SessionId]]
          /\ mu' \in {"free", "handler", "sweeper"}
      <4>1. \/ /\ Sweeping(r, "local", LocalStale(sessions, LocalHost), {})
               /\ mu' = IF r = Sweeper THEN "sweeper" ELSE mu
            \/ LocalFailed(r)
        BY <1>4 DEF SelectLocal
      <4>2. mu \in {"free", "handler", "sweeper"}
        BY DEF TypeOK
      <4>3. CASE LocalFailed(r)
        BY <4>3, LocalFailedType
      <4>4. CASE /\ Sweeping(r, "local", LocalStale(sessions, LocalHost), {})
                 /\ mu' = IF r = Sweeper THEN "sweeper" ELSE mu
        <5>1. {} \in SUBSET SessionId
          OBVIOUS
        <5> QED BY <3>2, <4>2, <4>4, <5>1, SweepingType
      <4> QED BY <4>1, <4>3, <4>4
    <3> QED BY <1>2, <1>4, <3>1, <3>3 DEF SelectLocal, SweepType, TypeOK, Table, tables
  <2> QED BY <1>4, <2>1 DEF SelectLocal, SweepType, TypeOK, Table, agentVars, tables
<1>5. CASE ReapLocal(r)
  <2>1. SweepType'
    <3>1. PICK s \in sweep[r].stale :
            \/ /\ Sweeping(r, "local", sweep[r].stale \ {s}, sweep[r].reaped)
               /\ UNCHANGED <<sessions, mu>> /\ NoFault
            \/ /\ NoFault
               /\ sessions' = UpdateStatus(sessions, s.id, "dead", s.last)
               /\ Sweeping(r, "local", sweep[r].stale \ {s},
                           sweep[r].reaped \cup
                             (IF Changes(sessions, s.id, s.last) THEN {s.id} ELSE {}))
               /\ UNCHANGED mu
            \/ Fault /\ LocalFailed(r) /\ UNCHANGED sessions
      BY <1>5 DEF ReapLocal, Kill
    <3>2. NoFault \/ Fault
      BY <3>1
    <3>3. sweep' \in [Reapers -> [pc : {"rest", "local", "remote"},
                                  stale : SUBSET Snapshot, reaped : SUBSET SessionId]]
          /\ mu' \in {"free", "handler", "sweeper"}
      BY <1>1, <1>3, <3>1, SweepingType, LocalFailedType DEF TypeOK
    <3>4. sessions' \in Table
      BY <1>1, <1>3, <3>1
    <3> QED BY <1>2, <1>5, <3>2, <3>3, <3>4 DEF ReapLocal, SweepType, TypeOK
  <2> QED BY <1>5, <2>1 DEF ReapLocal, SweepType, TypeOK, Table, agentVars
<1>6. CASE SelectRemote(r)
  <2>1. SweepType'
    <3>1. NoFault \/ Fault
      BY <1>6 DEF SelectRemote
    <3>2. RemoteStale(sessions, LocalHost, now - TTL) \in SUBSET Snapshot
      BY <1>1, SelectType
    <3>3. sweep' \in [Reapers -> [pc : {"rest", "local", "remote"},
                                  stale : SUBSET Snapshot, reaped : SUBSET SessionId]]
      BY <1>1, <1>6, <3>2, SweepingType DEF SelectRemote
    <3> QED BY <1>2, <1>6, <3>1, <3>3 DEF SelectRemote, SweepType, TypeOK, Table, tables
  <2> QED BY <1>6, <2>1 DEF SelectRemote, SweepType, TypeOK, Table, agentVars, tables
<1>7. CASE ReapRemote(r)
  <2>1. SweepType'
    <3>1. PICK s \in sweep[r].stale :
            \/ /\ NoFault
               /\ sessions' = UpdateStatus(sessions, s.id, "dead", s.last)
               /\ Sweeping(r, "remote", sweep[r].stale \ {s},
                           sweep[r].reaped \cup
                             (IF Changes(sessions, s.id, s.last) THEN {s.id} ELSE {}))
            \/ Fault /\ Sweeping(r, "remote", {}, sweep[r].reaped) /\ UNCHANGED sessions
      BY <1>7 DEF ReapRemote, Kill
    <3>2. NoFault \/ Fault
      BY <3>1
    <3>3. sweep' \in [Reapers -> [pc : {"rest", "local", "remote"},
                                  stale : SUBSET Snapshot, reaped : SUBSET SessionId]]
      BY <1>1, <1>3, <3>1, SweepingType
    <3>4. sessions' \in Table
      BY <1>1, <1>3, <3>1
    <3> QED BY <1>2, <1>7, <3>2, <3>3, <3>4 DEF ReapRemote, SweepType, TypeOK
  <2> QED BY <1>7, <2>1 DEF ReapRemote, SweepType, TypeOK, Table, agentVars
<1>8. CASE ReapEnd(r)
  <2>1. SweepType'
    <3>1. countFile' \in Nat /\ (NoFault \/ Fault)
      BY <1>8, CountType DEF ReapEnd, OnStateChange, TypeOK
    <3> QED BY <1>2, <1>8, <3>1, ReapDoneType DEF ReapEnd, SweepType, TypeOK, Table, tables
  <2> QED BY <1>8, <2>1 DEF ReapEnd, SweepType, TypeOK, Table, agentVars, tables
<1> QED BY <1>4, <1>5, <1>6, <1>7, <1>8 DEF Reap

LEMMA MarkType == ASSUME TypeOK, NEW m \in Markers, Mark(m) PROVE TypeOK'
<1>1. /\ mark[m].ts \in Nat /\ mark[m].state \in State \cup {NoState}
      /\ mark[m].id \in SessionId \cup {NoSession}
  BY DEF TypeOK
<1>2. ASSUME NoFault \/ Fault PROVE faults' \in Nat /\ crashes' \in Nat
  BY <1>2 DEF TypeOK, NoFault, Fault, bounds
<1>3. CASE MarkBegin(m)
  <2>1. MarkStates \subseteq State
    BY ManagerAssumption DEF ManagerAssumption, ParseState
  <2>2. mark' \in [Markers -> [pc : {"rest", "update", "note"},
                               id : SessionId \cup {NoSession},
                               state : State \cup {NoState}, ts : Nat]]
    BY <1>3, <2>1 DEF MarkBegin, TypeOK
  <2> QED BY <1>3, <2>2 DEF MarkBegin, TypeOK, agentVars, tables, bounds
<1>4. CASE MarkUpdate(m)
  <2>1. NoFault \/ Fault
    BY <1>4 DEF MarkUpdate
  <2>2. mark' \in [Markers -> [pc : {"rest", "update", "note"},
                               id : SessionId \cup {NoSession},
                               state : State \cup {NoState}, ts : Nat]]
    BY <1>4 DEF MarkUpdate, TypeOK, NoMark
  <2>3. sessions' \in Table
    <3>1. sessions \in Table
      BY DEF TypeOK, Table
    <3>2. UpdateStatus(sessions, mark[m].id, mark[m].state, mark[m].ts) \in Table
      BY <1>1, <3>1, UpdateStatusType
    <3> QED BY <1>4, <3>1, <3>2 DEF MarkUpdate
  <2> QED BY <1>2, <1>4, <2>1, <2>2, <2>3 DEF MarkUpdate, TypeOK, Table, agentVars
<1>5. CASE MarkNote(m)
  <2>1. NoFault \/ Fault
    BY <1>5 DEF MarkNote
  <2>2. mark' \in [Markers -> [pc : {"rest", "update", "note"},
                               id : SessionId \cup {NoSession},
                               state : State \cup {NoState}, ts : Nat]]
    BY <1>5 DEF MarkNote, TypeOK, NoMark
  <2>3. [NoEvent EXCEPT !.n = seq, !.sid = mark[m].id, !.kind = "note",
                        !.manual = mark[m].state, !.ts = mark[m].ts] \in Event
    BY <1>1, NoEventType DEF TypeOK, Event, Kind
  <2>4. events' \subseteq Event /\ seq' \in Nat
    BY <1>5, <2>3 DEF MarkNote, TypeOK
  <2> QED BY <1>2, <1>5, <2>1, <2>2, <2>4 DEF MarkNote, TypeOK
<1> QED BY <1>3, <1>4, <1>5 DEF Mark

LEMMA CrashType == ASSUME TypeOK, Crash \/ Restart PROVE TypeOK'
<1>1. CASE Crash
  <2>1. sweep' \in [Reapers -> [pc : {"rest", "local", "remote"},
                                stale : SUBSET Snapshot, reaped : SUBSET SessionId]]
    BY <1>1 DEF Crash, TypeOK, NoSweep
  <2>2. handler' \in [pc : {"rest", "append", "classify", "update", "alert"},
                      ev : Event, next : State \cup {NoState}]
    BY <1>1, NoEventType DEF Crash, AtRest
  <2>3. bus' \subseteq Event /\ up' \in BOOLEAN /\ mu' \in {"free", "handler", "sweeper"}
    BY <1>1 DEF Crash
  <2>4. crashes' \in Nat
    BY <1>1 DEF Crash, TypeOK
  <2> QED BY <1>1, <2>1, <2>2, <2>3, <2>4 DEF Crash, TypeOK, agentVars, tables
<1>2. CASE Restart
  BY <1>2 DEF Restart, TypeOK, agentVars, tables, bounds
<1> QED BY <1>1, <1>2

\* Every variable keeps its type: in particular no statement of any actor, in
\* any interleaving, leaves a row without the form of a row.
THEOREM TypeCorrect == Spec => []TypeOK
<1>1. Init => TypeOK
  BY InitType
<1>2. TypeOK /\ [Next]_vars => TypeOK'
  <2>1. ASSUME TypeOK, Next PROVE TypeOK'
    BY <2>1, TickType, AgentsType, ReceiveType, HandlerType, ReapType, MarkType, CrashType
    DEF Next, Handle
  <2>2. ASSUME TypeOK, UNCHANGED vars PROVE TypeOK'
    BY <2>2 DEF TypeOK, vars, agentVars, tables, bounds
  <2> QED BY <2>1, <2>2
<1> QED BY <1>1, <1>2, PTL DEF Spec


-----------------------------------------------------------------------------
(* Reaping.  The inductive invariant adds to the types what a reaper may    *)
(* rely on between its SELECT and its UPDATE, and that nobody else kills.   *)

Inv == TypeOK /\ CandidatesAreBehind /\ OnlyReapersKill

\* From one table to the next rows stay, last_event_at does not go back, and a
\* session keeps its host.
Grows(t, u) ==
  \A i \in SessionId :
    Exists(t, i) => Exists(u, i) /\ t[i].last <= u[i].last /\ t[i].host = u[i].host

\* No session dies from one table to the next.
KillsNone(t, u) == \A i \in SessionId : u[i].status = "dead" => t[i].status = "dead"

LEMMA GrowsReflexive ==
  ASSUME NEW t \in Table PROVE Grows(t, t) /\ KillsNone(t, t)
BY DEF Grows, KillsNone, Table, Row

LEMMA CreateSessionGrows ==
  ASSUME NEW t \in Table, NEW id \in SessionId, ~Exists(t, id), NEW nat, NEW host, NEW ts,
         NEW proc
  PROVE  /\ Grows(t, CreateSession(t, id, nat, host, ts, proc))
         /\ KillsNone(t, CreateSession(t, id, nat, host, ts, proc))
<1> DEFINE u == CreateSession(t, id, nat, host, ts, proc)
<1>1. \A i \in SessionId : t[i].last \in Nat
  BY DEF Table, Row
<1>2. \A i \in SessionId : i # id => u[i] = t[i]
  BY DEF CreateSession, Table
<1>3. u[id].status = "idle"
  BY DEF CreateSession, Table
<1> HIDE DEF u
<1>4. Grows(t, u) /\ KillsNone(t, u)
  BY <1>1, <1>2, <1>3 DEF Grows, KillsNone, Exists
<1> QED BY <1>4 DEF u

LEMMA UpdateIdentityGrows ==
  ASSUME NEW t \in Table, NEW id \in SessionId, NEW proc
  PROVE  /\ Grows(t, UpdateIdentity(t, id, proc))
         /\ KillsNone(t, UpdateIdentity(t, id, proc))
<1> DEFINE u == UpdateIdentity(t, id, proc)
<1>1. \A i \in SessionId : t[i].last \in Nat
  BY DEF Table, Row
<1>2. \A i \in SessionId :
        u[i].last = t[i].last /\ u[i].host = t[i].host /\ u[i].status = t[i].status
  BY DEF UpdateIdentity, Table, Row
<1> HIDE DEF u
<1>3. Grows(t, u) /\ KillsNone(t, u)
  BY <1>1, <1>2 DEF Grows, KillsNone, Exists
<1> QED BY <1>3 DEF u

LEMMA UpdateStatusGrows ==
  ASSUME NEW t \in Table, NEW id, NEW st \in State, NEW ts \in Nat
  PROVE  /\ Grows(t, UpdateStatus(t, id, st, ts))
         /\ st # "dead" => KillsNone(t, UpdateStatus(t, id, st, ts))
<1> DEFINE u == UpdateStatus(t, id, st, ts)
<1>1. \A i \in SessionId : t[i].last \in Nat
  BY DEF Table, Row
<1>2. \A i \in SessionId : i # id \/ ~Changes(t, id, ts) => u[i] = t[i]
  BY DEF UpdateStatus, Table
<1>3. id \in SessionId /\ Changes(t, id, ts) =>
        u[id].last = ts /\ u[id].host = t[id].host /\ u[id].status = st
  BY DEF UpdateStatus, Table, Row
<1>4. Changes(t, id, ts) => ts >= t[id].last
  BY DEF Changes
<1>5. st # NoState
  BY DEF State, NoState
<1> HIDE DEF u
<1>6. Grows(t, u) /\ (st # "dead" => KillsNone(t, u))
  BY <1>1, <1>2, <1>3, <1>4, <1>5 DEF Grows, KillsNone, Exists
<1> QED BY <1>6 DEF u

\* The reapers' write: it kills at most the candidate, and then the candidate's
\* snapshot was the row's last_event_at.
LEMMA KillGrows ==
  ASSUME NEW t \in Table, NEW s \in Snapshot, s.last <= t[s.id].last
  PROVE  LET u == UpdateStatus(t, s.id, "dead", s.last) IN
         /\ Grows(t, u)
         /\ \A i \in SessionId : t[i].status # "dead" /\ u[i].status = "dead" =>
              i = s.id /\ t[i].last = s.last /\ u[i].last = s.last
<1>1. s.id \in SessionId /\ s.last \in Nat /\ "dead" \in State
  BY DEF Snapshot, State
<1>2. Grows(t, UpdateStatus(t, s.id, "dead", s.last))
  BY <1>1, UpdateStatusGrows
<1>3. t[s.id].last \in Nat
  BY <1>1 DEF Table, Row
<1> QED BY <1>1, <1>2, <1>3 DEF UpdateStatus, Changes, Table, Row

\* What one step does to the table.
KeepsLast == \A id \in SessionId : Dies(id) => sessions'[id].last = sessions[id].last
OnlySilent ==
  \A id \in SessionId :
    Dies(id) /\ sessions[id].host # LocalHost => sessions[id].last + TTL < now

LEMMA TableStep ==
  ASSUME Inv, Next
  PROVE  Grows(sessions, sessions') /\ KeepsLast /\ OnlySilent
<1>1. sessions \in Table
  BY DEF Inv, TypeOK, Table
<1>2. ASSUME Grows(sessions, sessions'), KillsNone(sessions, sessions')
      PROVE  Grows(sessions, sessions') /\ KeepsLast /\ OnlySilent
  BY <1>2 DEF KillsNone, KeepsLast, OnlySilent, Dies
<1>3. CASE sessions' = sessions
  BY <1>1, <1>2, <1>3, GrowsReflexive
<1>4. CASE Receive
  <2>1. CASE sessions' = sessions
    BY <1>3, <2>1
  <2>2. CASE \E e \in bus, id \in SessionId : Resolve(e, id, sessions')
    <3>1. PICK e \in bus, id \in SessionId : Resolve(e, id, sessions')
      BY <2>2
    <3> QED BY <1>1, <1>2, <1>3, <3>1, CreateSessionGrows, UpdateIdentityGrows DEF Resolve
  <2> QED BY <1>4, <2>1, <2>2 DEF Receive
<1>5. CASE Update
  <2>1. CASE sessions' = sessions
    BY <1>3, <2>1
  <2>2. CASE sessions' = UpdateStatus(sessions, handler.ev.sid, handler.next, handler.ev.ts)
    <3>1. handler.next \in State \ {"dead"} /\ handler.ev.ts \in Nat
      BY <1>5 DEF Update, Inv, OnlyReapersKill, TypeOK, Event
    <3> QED BY <1>1, <1>2, <2>2, <3>1, UpdateStatusGrows
  <2> QED BY <1>5, <2>1, <2>2 DEF Update
<1>6. ASSUME NEW m \in Markers, MarkUpdate(m)
      PROVE  Grows(sessions, sessions') /\ KeepsLast /\ OnlySilent
  <2>1. CASE sessions' = sessions
    BY <1>3, <2>1
  <2>2. CASE sessions' = UpdateStatus(sessions, mark[m].id, mark[m].state, mark[m].ts)
    <3>1. mark[m].state \in State \ {"dead"} /\ mark[m].ts \in Nat
      BY <1>6 DEF MarkUpdate, Inv, OnlyReapersKill, TypeOK
    <3> QED BY <1>1, <1>2, <2>2, <3>1, UpdateStatusGrows
  <2> QED BY <1>6, <2>1, <2>2 DEF MarkUpdate
<1>7. ASSUME NEW r \in Reapers, NEW s \in sweep[r].stale,
             sessions' = UpdateStatus(sessions, s.id, "dead", s.last),
             sweep[r].pc = "local" \/ sweep[r].pc = "remote"
      PROVE  Grows(sessions, sessions') /\ KeepsLast /\ OnlySilent
  <2>1. s \in Snapshot
    BY DEF Inv, TypeOK
  <2>2. /\ s.last <= sessions[s.id].last
        /\ sweep[r].pc = "local" => sessions[s.id].host = LocalHost
        /\ sweep[r].pc = "remote" => s.last + TTL < now
    BY DEF Inv, CandidatesAreBehind
  <2>3. /\ Grows(sessions, sessions')
        /\ \A i \in SessionId : Dies(i) =>
             i = s.id /\ sessions[i].last = s.last /\ sessions'[i].last = s.last
    BY <1>1, <1>7, <2>1, <2>2, KillGrows DEF Dies
  <2> QED BY <1>7, <2>2, <2>3 DEF KeepsLast, OnlySilent
<1>8. ASSUME NEW r \in Reapers, Reap(r)
      PROVE  Grows(sessions, sessions') /\ KeepsLast /\ OnlySilent
  <2>1. CASE ReapLocal(r)
    <3>1. \/ sessions' = sessions
          \/ /\ sweep[r].pc = "local"
             /\ \E s \in sweep[r].stale :
                  sessions' = UpdateStatus(sessions, s.id, "dead", s.last)
      BY <2>1 DEF ReapLocal, Kill
    <3> QED BY <1>3, <1>7, <3>1
  <2>2. CASE ReapRemote(r)
    <3>1. \/ sessions' = sessions
          \/ /\ sweep[r].pc = "remote"
             /\ \E s \in sweep[r].stale :
                  sessions' = UpdateStatus(sessions, s.id, "dead", s.last)
      BY <2>2 DEF ReapRemote, Kill
    <3> QED BY <1>3, <1>7, <3>1
  <2>3. CASE SelectLocal(r) \/ SelectRemote(r) \/ ReapEnd(r)
    BY <1>3, <2>3 DEF SelectLocal, SelectRemote, ReapEnd, tables
  <2> QED BY <1>8, <2>1, <2>2, <2>3 DEF Reap
<1>9. CASE Tick \/ Agents \/ Append \/ Classify \/ Alert \/ Crash \/ Restart
  BY <1>3, <1>9 DEF Tick, Agents, StartAgent, ExitAgent, Hook, Emit, Publish, Append,
                    Classify, Alert, Crash, Restart, tables
<1>10. ASSUME NEW m \in Markers, MarkBegin(m) \/ MarkNote(m)
       PROVE  Grows(sessions, sessions') /\ KeepsLast /\ OnlySilent
  BY <1>3, <1>10 DEF MarkBegin, MarkNote, tables
<1> QED BY <1>4, <1>5, <1>6, <1>8, <1>9, <1>10 DEF Next, Handle, Mark


LEMMA ClockStep == ASSUME TypeOK, Next PROVE now' \in Nat /\ now <= now'
<1>1. CASE Tick
  BY <1>1 DEF Tick, TypeOK
<1>2. CASE Agents \/ Handle \/ Crash \/ Restart
  BY <1>2 DEF Agents, StartAgent, ExitAgent, Hook, Emit, Publish, Handle, Receive, Append,
              Classify, Update, Alert, Crash, Restart, TypeOK
<1>3. CASE \E r \in Reapers : Reap(r)
  BY <1>3 DEF Reap, SelectLocal, ReapLocal, SelectRemote, ReapRemote, Kill, ReapEnd, TypeOK
<1>4. CASE \E m \in Markers : Mark(m)
  BY <1>4 DEF Mark, MarkBegin, MarkUpdate, MarkNote, TypeOK
<1> QED BY <1>1, <1>2, <1>3, <1>4 DEF Next

\* CandidatesAreBehind of one reaper.
Behind(r) ==
  \A s \in sweep[r].stale :
    /\ Exists(sessions, s.id)
    /\ s.last <= sessions[s.id].last
    /\ sweep[r].pc = "local" => sessions[s.id].host = LocalHost
    /\ sweep[r].pc = "remote" => sessions[s.id].host # LocalHost /\ s.last + TTL < now

\* A reaper that only drops candidates keeps the others behind their rows.
LEMMA StillBehind ==
  ASSUME Inv, Next, NEW r \in Reapers,
         sweep'[r].pc = sweep[r].pc, sweep'[r].stale \subseteq sweep[r].stale
  PROVE  Behind(r)'
<1> SUFFICES ASSUME NEW s \in sweep'[r].stale
             PROVE  /\ Exists(sessions', s.id)
                    /\ s.last <= sessions'[s.id].last
                    /\ sweep'[r].pc = "local" => sessions'[s.id].host = LocalHost
                    /\ sweep'[r].pc = "remote" =>
                         sessions'[s.id].host # LocalHost /\ s.last + TTL < now'
  BY DEF Behind, Exists
<1>1. s.id \in SessionId /\ s.last \in Nat /\ TTL \in Nat /\ now \in Nat
  BY ManagerAssumption DEF ManagerAssumption, Inv, TypeOK, Snapshot
<1>2. /\ Exists(sessions, s.id) /\ s.last <= sessions[s.id].last
      /\ sweep[r].pc = "local" => sessions[s.id].host = LocalHost
      /\ sweep[r].pc = "remote" =>
           sessions[s.id].host # LocalHost /\ s.last + TTL < now
  BY DEF Inv, CandidatesAreBehind
<1>3. /\ Exists(sessions', s.id) /\ sessions[s.id].last <= sessions'[s.id].last
      /\ sessions[s.id].host = sessions'[s.id].host
  BY <1>1, <1>2, TableStep DEF Grows
<1>4. TypeOK'
  BY TickType, AgentsType, ReceiveType, HandlerType, ReapType, MarkType, CrashType
  DEF Inv, Next, Handle
<1>5. sessions[s.id].last \in Nat /\ sessions'[s.id].last \in Nat
  BY <1>1, <1>4 DEF Inv, TypeOK, Row
<1>6. now' \in Nat /\ now <= now'
  BY ClockStep DEF Inv
<1>7. s.last <= sessions'[s.id].last
  BY <1>1, <1>2, <1>3, <1>5
<1>8. sweep'[r].pc = "remote" => s.last + TTL < now'
  BY <1>1, <1>2, <1>6
<1> QED BY <1>2, <1>3, <1>7, <1>8

\* What the two SELECTs return is behind the table they read.
LEMMA SelectIsBehind ==
  ASSUME TypeOK
  PROVE  /\ \A s \in LocalStale(sessions, LocalHost) :
              /\ Exists(sessions, s.id) /\ s.last <= sessions[s.id].last
              /\ sessions[s.id].host = LocalHost
         /\ \A s \in RemoteStale(sessions, LocalHost, now - TTL) :
              /\ Exists(sessions, s.id) /\ s.last <= sessions[s.id].last
              /\ sessions[s.id].host # LocalHost /\ s.last + TTL < now
<1>1. \A i \in SessionId : sessions[i].last \in Nat
  BY DEF TypeOK, Row
<1>2. now \in Nat /\ TTL \in Nat
  BY ManagerAssumption DEF ManagerAssumption, TypeOK
<1> QED BY <1>1, <1>2 DEF LocalStale, RemoteStale, NotTerminal, SnapshotOf

LEMMA CandidatesStep == ASSUME Inv, Next PROVE CandidatesAreBehind'
<1> SUFFICES ASSUME NEW q \in Reapers PROVE Behind(q)'
  BY DEF CandidatesAreBehind, Behind
<1>1. CASE sweep'[q] = sweep[q]
  BY <1>1, StillBehind
<1>2. CASE sweep'[q].stale = {}
  BY <1>2 DEF Behind
<1>3. CASE Tick \/ Agents \/ Handle \/ Restart \/ \E m \in Markers : Mark(m)
  <2>1. sweep' = sweep
    BY <1>3 DEF Tick, Agents, StartAgent, ExitAgent, Hook, Emit, Publish, Handle, Receive,
                Append, Classify, Update, Alert, Restart, Mark, MarkBegin, MarkUpdate,
                MarkNote
  <2> QED BY <1>1, <2>1
<1>4. CASE Crash
  <2>1. sweep'[q] = sweep[q] \/ sweep'[q] = NoSweep
    BY <1>4 DEF Crash, Inv, TypeOK
  <2> QED BY <1>1, <1>2, <2>1 DEF NoSweep
<1>5. ASSUME NEW r \in Reapers, Reap(r) PROVE Behind(q)'
  <2>1. CASE q # r
    <3>1. sweep'[q] = sweep[q]
      BY <1>5, <2>1 DEF Reap, SelectLocal, ReapLocal, SelectRemote, ReapRemote, Kill, ReapEnd,
                        Sweeping, LocalFailed, ReapDone, Inv, TypeOK
    <3> QED BY <1>1, <3>1
  <2>2. CASE q = r
    <3>1. ASSUME NEW at, NEW stale, NEW reaped, Sweeping(r, at, stale, reaped)
          PROVE  sweep'[q].pc = at /\ sweep'[q].stale = stale
      BY <2>2, <3>1 DEF Sweeping, Inv, TypeOK
    <3>2. ASSUME ReapDone(r) PROVE sweep'[q].stale = {}
      BY <2>2, <3>2 DEF ReapDone, NoSweep, Inv, TypeOK
    <3>3. ASSUME LocalFailed(r) PROVE sweep'[q].stale = {}
      BY <3>1, <3>2, <3>3 DEF LocalFailed
    <3>4. CASE SelectLocal(r)
      <4>1. sessions' = sessions
        BY <3>4 DEF SelectLocal, tables
      <4>2. sweep'[q].stale = {} \/
              (sweep'[q].pc = "local" /\ sweep'[q].stale = LocalStale(sessions, LocalHost))
        BY <3>1, <3>3, <3>4 DEF SelectLocal
      <4>3. CASE sweep'[q].pc = "local" /\ sweep'[q].stale = LocalStale(sessions, LocalHost)
        BY <4>1, <4>3, SelectIsBehind DEF Behind, Inv
      <4> QED BY <1>2, <4>2, <4>3
    <3>5. CASE ReapLocal(r)
      <4>1. sweep'[q].stale = {} \/
              (sweep'[q].pc = sweep[q].pc /\ sweep'[q].stale \subseteq sweep[q].stale)
        BY <2>2, <3>1, <3>3, <3>5 DEF ReapLocal, Kill
      <4> QED BY <1>2, <4>1, StillBehind
    <3>6. CASE SelectRemote(r)
      <4>1. sessions' = sessions /\ now' = now
        BY <3>6 DEF SelectRemote, tables
      <4>2. sweep'[q].stale = {} \/
              (/\ sweep'[q].pc = "remote"
               /\ sweep'[q].stale = RemoteStale(sessions, LocalHost, now - TTL))
        BY <3>1, <3>6 DEF SelectRemote
      <4>3. CASE /\ sweep'[q].pc = "remote"
                 /\ sweep'[q].stale = RemoteStale(sessions, LocalHost, now - TTL)
        BY <4>1, <4>3, SelectIsBehind DEF Behind, Inv
      <4> QED BY <1>2, <4>2, <4>3
    <3>7. CASE ReapRemote(r)
      <4>1. sweep'[q].stale = {} \/
              (sweep'[q].pc = sweep[q].pc /\ sweep'[q].stale \subseteq sweep[q].stale)
        BY <2>2, <3>1, <3>7 DEF ReapRemote, Kill
      <4> QED BY <1>2, <4>1, StillBehind
    <3>8. CASE ReapEnd(r)
      BY <1>2, <3>2, <3>8 DEF ReapEnd
    <3> QED BY <1>5, <3>4, <3>5, <3>6, <3>7, <3>8 DEF Reap
  <2> QED BY <2>1, <2>2
<1> QED BY <1>3, <1>4, <1>5 DEF Next

LEMMA OnlyReapersKillStep == ASSUME Inv, Next PROVE OnlyReapersKill'
<1>1. ASSUME UNCHANGED <<handler, mark>> PROVE OnlyReapersKill'
  BY <1>1 DEF OnlyReapersKill, Inv
<1>2. ASSUME handler'.pc # "update", mark' = mark PROVE OnlyReapersKill'
  BY <1>2 DEF OnlyReapersKill, Inv
<1>3. CASE Tick \/ Agents \/ Restart \/ \E r \in Reapers : Reap(r)
  BY <1>1, <1>3 DEF Tick, Agents, StartAgent, ExitAgent, Hook, Emit, Publish, Restart, Reap,
                    SelectLocal, ReapLocal, Kill, SelectRemote, ReapRemote, ReapEnd
<1>4. CASE Receive
  <2>1. \/ handler'.pc # "update" /\ mark' = mark
        \/ UNCHANGED <<handler, mark>>
    BY <1>4 DEF Receive, Step
  <2> QED BY <1>1, <1>2, <2>1
<1>5. CASE Append \/ Update \/ Alert \/ Crash
  BY <1>2, <1>5 DEF Append, Update, Alert, Crash, Step, Release, AtRest
<1>6. CASE Classify
  <2>1. PICK cur \in State \cup {NoState} :
          LET next == Transition(cur, handler.ev) IN
          IF next = NoState THEN Release ELSE Step("update", handler.ev, next)
    BY <1>6 DEF Classify
  <2>2. CASE Transition(cur, handler.ev) = NoState
    BY <1>2, <1>6, <2>1, <2>2 DEF Classify, Release, AtRest
  <2>3. CASE Transition(cur, handler.ev) # NoState
    <3>1. handler'.next \in State \ {"dead"}
      BY <2>1, <2>3, TransitionType DEF Step
    <3> QED BY <1>6, <3>1 DEF Classify, OnlyReapersKill, Inv
  <2> QED BY <2>2, <2>3
<1>7. ASSUME NEW m \in Markers, Mark(m) PROVE OnlyReapersKill'
  <2>1. handler' = handler
    BY <1>7 DEF Mark, MarkBegin, MarkUpdate, MarkNote
  <2>2. ASSUME NEW k \in Markers, mark'[k].pc = "update"
        PROVE  mark'[k].state \in State \ {"dead"}
    <3>1. CASE MarkBegin(m)
      <4>1. MarkStates \subseteq State \ {"dead"}
        BY ManagerAssumption DEF ManagerAssumption, ParseState
      <4> QED BY <2>2, <3>1, <4>1 DEF MarkBegin, Inv, OnlyReapersKill, TypeOK
    <3>2. CASE MarkUpdate(m)
      BY <2>2, <3>2 DEF MarkUpdate, NoMark, Inv, OnlyReapersKill, TypeOK
    <3>3. CASE MarkNote(m)
      BY <2>2, <3>3 DEF MarkNote, NoMark, Inv, OnlyReapersKill, TypeOK
    <3> QED BY <1>7, <3>1, <3>2, <3>3 DEF Mark
  <2> QED BY <2>1, <2>2 DEF OnlyReapersKill, Inv
<1> QED BY <1>3, <1>4, <1>5, <1>6, <1>7 DEF Next, Handle

LEMMA InvInductive == /\ Init => Inv
                      /\ Inv /\ [Next]_vars => Inv'
<1>1. Init => Inv
  BY InitType DEF Init, Inv, CandidatesAreBehind, OnlyReapersKill, AtRest, NoSweep, NoMark
<1>2. ASSUME Inv, Next PROVE Inv'
  <2>1. TypeOK'
    BY <1>2, TickType, AgentsType, ReceiveType, HandlerType, ReapType, MarkType, CrashType
    DEF Inv, Next, Handle
  <2> QED BY <1>2, <2>1, CandidatesStep, OnlyReapersKillStep DEF Inv
<1>3. ASSUME Inv, UNCHANGED vars PROVE Inv'
  BY <1>3 DEF Inv, TypeOK, CandidatesAreBehind, OnlyReapersKill, Exists, vars, agentVars,
              tables, bounds
<1> QED BY <1>1, <1>2, <1>3

\* What a reaper remembers between its SELECT and its UPDATE never runs ahead of
\* the table: the reason why the recency guard protects newer events.
THEOREM CandidatesCorrect == Spec => []CandidatesAreBehind
<1>1. Inv => CandidatesAreBehind
  BY DEF Inv
<1> QED BY <1>1, InvInductive, PTL DEF Spec

\* No reaper, with or without the mutex, moves the last_event_at of the session
\* it marks dead.
THEOREM KeepsLastSeenCorrect == Spec => ReapKeepsLastSeen
<1>1. Inv /\ [Next]_vars =>
        [\A id \in SessionId : Dies(id) => sessions'[id].last = sessions[id].last]_vars
  BY TableStep DEF KeepsLast
<1> QED BY <1>1, InvInductive, PTL DEF Spec, ReapKeepsLastSeen

\* A session of another host is marked dead only after a silence longer than the
\* TTL, whichever reaper does it and however old its candidate list is.
THEOREM RemoteSilenceCorrect == Spec => RemoteSilence
<1>1. Inv /\ [Next]_vars =>
        [\A id \in SessionId :
           Dies(id) /\ sessions[id].host # LocalHost => sessions[id].last + TTL < now]_vars
  BY TableStep DEF OnlySilent
<1> QED BY <1>1, InvInductive, PTL DEF Spec, RemoteSilence

-----------------------------------------------------------------------------
(* Mutual exclusion, in every instance: what handler.mu buys.  The theorems *)
(* below need the handler and the sweep to exclude each other, and fail as  *)
(* soon as a command that does not take the mutex may run.                  *)

Exclusive ==
  /\ handler.pc # "rest" => mu = "handler"
  /\ sweep[Sweeper].pc # "rest" => mu = "sweeper"
  /\ sweep[Sweeper].pc = "rest" => sweep[Sweeper] = NoSweep

LEMMA SweeperIsReaper == Sweeper \in Reapers
BY DEF Reapers

LEMMA ExclusiveStep == ASSUME TypeOK, Exclusive, Next PROVE Exclusive'
<1> USE SweeperIsReaper DEF Exclusive, TypeOK
<1>1. CASE Tick \/ Agents \/ Restart \/ \E m \in Markers : Mark(m)
  BY <1>1 DEF Tick, Agents, StartAgent, ExitAgent, Hook, Emit, Publish, Restart, Mark,
     MarkBegin, MarkUpdate, MarkNote
<1>2. CASE Receive
  BY <1>2 DEF Receive, Step
<1>3. CASE Append \/ Update \/ Alert
  BY <1>3 DEF Append, Update, Alert, Step, Release, AtRest
<1>4. CASE Classify
  <2>1. handler' = AtRest \/ mu' = mu
    BY <1>4 DEF Classify, Release
  <2>2. sweep' = sweep /\ handler.pc = "classify"
    BY <1>4 DEF Classify
  <2> QED BY <2>1, <2>2 DEF AtRest
<1>5. CASE Crash
  BY <1>5 DEF Crash, AtRest, NoSweep
<1>6. ASSUME NEW r \in Reapers, Reap(r) PROVE Exclusive'
  <2>1. handler' = handler
    BY <1>6 DEF Reap, SelectLocal, ReapLocal, SelectRemote, ReapRemote, ReapEnd
  <2>2. CASE r # Sweeper
    <3>1. sweep'[Sweeper] = sweep[Sweeper] /\ mu' = mu
      BY <1>6, <2>2 DEF Reap, SelectLocal, ReapLocal, SelectRemote, ReapRemote, ReapEnd,
         LocalFailed, ReapDone, Sweeping
    <3> QED BY <2>1, <3>1
  <2>3. CASE r = Sweeper
    <3>1. handler.pc = "rest"
      BY <1>6, <2>3 DEF Reap, SelectLocal, ReapLocal, SelectRemote, ReapRemote, ReapEnd
    <3>2. \/ sweep'[Sweeper] = NoSweep
          \/ sweep'[Sweeper].pc # "rest" /\ mu' = "sweeper"
      BY <1>6, <2>3 DEF Reap, SelectLocal, ReapLocal, SelectRemote, ReapRemote, ReapEnd,
         LocalFailed, ReapDone, Sweeping
    <3> QED BY <2>1, <3>1, <3>2 DEF NoSweep
  <2> QED BY <2>2, <2>3
<1> QED BY <1>1, <1>2, <1>3, <1>4, <1>5, <1>6 DEF Next, Handle

LEMMA BaseInductive == /\ Init => Inv /\ Exclusive
                       /\ Inv /\ Exclusive /\ [Next]_vars => Inv' /\ Exclusive'
<1>1. Init => Exclusive
  BY SweeperIsReaper DEF Init, Exclusive, AtRest, NoSweep
<1>2. Exclusive /\ UNCHANGED vars => Exclusive'
  BY DEF Exclusive, vars
<1> QED BY <1>1, <1>2, ExclusiveStep, InvInductive DEF Inv

\* Who marks a session dead holds it as a candidate, and has probed the
\* candidate's process if it is one of this host.
LEMMA KillerStep ==
  ASSUME Inv, Next, NEW id \in SessionId, Dies(id)
  PROVE  \E r \in Reapers : \E s \in sweep[r].stale :
           s.id = id /\ (sweep[r].pc = "local" => IsProcessDead(s.proc))
<1> USE DEF Inv, TypeOK
<1>1. sessions \in Table
  BY DEF Table
<1>2. ~KillsNone(sessions, sessions')
  BY DEF KillsNone, Dies
<1>3. ASSUME NEW st \in State \ {"dead"}, NEW ts \in Nat, NEW i,
             sessions' = UpdateStatus(sessions, i, st, ts)
      PROVE  FALSE
  BY <1>1, <1>2, <1>3 DEF UpdateStatus, KillsNone, Table
<1>4. sessions' # sessions
  BY <1>2 DEF KillsNone
<1>5. CASE Receive
  <2>1. PICK e \in bus, i \in SessionId : Resolve(e, i, sessions')
    BY <1>4, <1>5 DEF Receive
  <2> QED BY <1>1, <1>2, <1>4, <2>1, CreateSessionGrows, UpdateIdentityGrows DEF Resolve
<1>6. CASE Update
  <2>1. handler.next \in State \ {"dead"} /\ handler.ev.ts \in Nat
    BY <1>6 DEF Update, OnlyReapersKill, Event
  <2> QED BY <1>3, <1>4, <1>6, <2>1 DEF Update
<1>7. ASSUME NEW m \in Markers, Mark(m) PROVE FALSE
  <2>1. MarkUpdate(m) /\ mark[m].state \in State \ {"dead"} /\ mark[m].ts \in Nat
    BY <1>4, <1>7 DEF Mark, MarkBegin, MarkUpdate, MarkNote, OnlyReapersKill, tables
  <2> QED BY <1>3, <1>4, <2>1 DEF MarkUpdate
<1>8. ASSUME NEW r \in Reapers, Reap(r)
      PROVE  \E s \in sweep[r].stale :
               s.id = id /\ (sweep[r].pc = "local" => IsProcessDead(s.proc))
  <2>1. PICK s \in sweep[r].stale :
          sessions' = Kill(s) /\ (sweep[r].pc = "local" => IsProcessDead(s.proc))
    BY <1>4, <1>8 DEF Reap, SelectLocal, ReapLocal, SelectRemote, ReapRemote, ReapEnd, tables
  <2> QED BY <1>1, <2>1 DEF Kill, UpdateStatus, Dies, Table
<1>9. CASE Tick \/ Agents \/ Append \/ Classify \/ Alert \/ Crash \/ Restart
  BY <1>4, <1>9 DEF Tick, Agents, StartAgent, ExitAgent, Hook, Emit, Publish, Append,
     Classify, Alert, Crash, Restart, tables
<1> QED BY <1>5, <1>6, <1>7, <1>8, <1>9 DEF Next, Handle

-----------------------------------------------------------------------------
(* A clean exit is final.                                                  *)

\* What the sweep is about to probe has not ended cleanly, and no user asks for
\* that.
NoneFinished ==
  /\ \A s \in sweep[Sweeper].stale : sessions[s.id].status # "finished"
  /\ \A m \in Markers : mark[m].pc = "update" => mark[m].state # "finished"

LEMMA SelectsUnfinished ==
  ASSUME NEW tbl, NEW host, NEW cutoff
  PROVE  \A s \in LocalStale(tbl, host) \cup RemoteStale(tbl, host, cutoff) :
           tbl[s.id].status # "finished"
BY DEF LocalStale, RemoteStale, SnapshotOf, NotTerminal, IsTerminal, TerminalStates

LEMMA NoneFinishedStep ==
  ASSUME Inv, Exclusive, NoneFinished, Next, Listers = {},
         Markers = {} \/ "finished" \notin MarkStates
  PROVE  NoneFinished'
<1> USE SweeperIsReaper DEF Inv, TypeOK
<1> DEFINE Alike == \A i \in SessionId :
                      sessions'[i].status = "finished" => sessions[i].status = "finished"
<1>1. ASSUME Alike, sweep'[Sweeper].stale \subseteq sweep[Sweeper].stale, mark' = mark
      PROVE  NoneFinished'
  BY <1>1 DEF NoneFinished, Snapshot
<1>2. ASSUME sweep'[Sweeper].stale = {}, mark' = mark PROVE NoneFinished'
  BY <1>2 DEF NoneFinished
<1>3. CASE Handle
  <2>1. sweep[Sweeper].stale = {} \/ sessions' = sessions
    BY <1>3 DEF Handle, Receive, Append, Classify, Update, Alert, Exclusive, NoSweep, tables
  <2>2. sweep' = sweep /\ mark' = mark
    BY <1>3 DEF Handle, Receive, Append, Classify, Update, Alert
  <2> QED BY <1>1, <1>2, <2>1, <2>2
<1>4. CASE Reap(Sweeper)
  <2>1. mark' = mark
    BY <1>4 DEF Reap, SelectLocal, ReapLocal, SelectRemote, ReapRemote, ReapEnd
  <2>2. ASSUME NEW s \in sweep[Sweeper].stale, sessions' = Kill(s) PROVE Alike
    BY <2>2 DEF Kill, UpdateStatus, Snapshot
  <2>3. CASE SelectLocal(Sweeper)
    <3>1. /\ sweep'[Sweeper].stale \subseteq LocalStale(sessions, LocalHost)
          /\ sessions' = sessions
      BY <2>3 DEF SelectLocal, Sweeping, LocalFailed, ReapDone, NoSweep, tables
    <3>2. \A s \in LocalStale(sessions, LocalHost) : sessions[s.id].status # "finished"
      BY SelectsUnfinished
    <3> QED BY <2>1, <3>1, <3>2 DEF NoneFinished
  <2>4. CASE SelectRemote(Sweeper)
    <3>1. /\ sweep'[Sweeper].stale \subseteq RemoteStale(sessions, LocalHost, now - TTL)
          /\ sessions' = sessions
      BY <2>4 DEF SelectRemote, Sweeping, tables
    <3>2. \A s \in RemoteStale(sessions, LocalHost, now - TTL) :
            sessions[s.id].status # "finished"
      BY SelectsUnfinished
    <3> QED BY <2>1, <3>1, <3>2 DEF NoneFinished
  <2>5. CASE ReapLocal(Sweeper)
    <3>1. sessions' = sessions \/ \E s \in sweep[Sweeper].stale : sessions' = Kill(s)
      BY <2>5 DEF ReapLocal
    <3>2. sweep'[Sweeper].stale \subseteq sweep[Sweeper].stale
      BY <2>5 DEF ReapLocal, Sweeping, LocalFailed, ReapDone, NoSweep
    <3> QED BY <1>1, <2>1, <2>2, <3>1, <3>2
  <2>6. CASE ReapRemote(Sweeper)
    <3>1. sessions' = sessions \/ \E s \in sweep[Sweeper].stale : sessions' = Kill(s)
      BY <2>6 DEF ReapRemote
    <3>2. sweep'[Sweeper].stale \subseteq sweep[Sweeper].stale
      BY <2>6 DEF ReapRemote, Sweeping
    <3> QED BY <1>1, <2>1, <2>2, <3>1, <3>2
  <2>7. CASE ReapEnd(Sweeper)
    BY <1>2, <2>1, <2>7 DEF ReapEnd, ReapDone, NoSweep
  <2> QED BY <1>4, <2>3, <2>4, <2>5, <2>6, <2>7 DEF Reap
<1>5. ASSUME NEW m \in Markers, Mark(m) PROVE NoneFinished'
  <2>1. sweep' = sweep
    BY <1>5 DEF Mark, MarkBegin, MarkUpdate, MarkNote
  <2>2. Alike
    <3>1. CASE MarkBegin(m) \/ MarkNote(m)
      BY <3>1 DEF MarkBegin, MarkNote, tables
    <3>2. CASE MarkUpdate(m)
      <4>1. mark[m].state # "finished"
        BY <3>2 DEF MarkUpdate, NoneFinished
      <4>2. \/ sessions' = sessions
            \/ sessions' = UpdateStatus(sessions, mark[m].id, mark[m].state, mark[m].ts)
        BY <3>2 DEF MarkUpdate
      <4>3. CASE sessions' = sessions
        BY <4>3
      <4>4. CASE sessions' = [sessions EXCEPT ![mark[m].id].status = mark[m].state,
                                              ![mark[m].id].last = mark[m].ts]
        BY <4>1, <4>4
      <4> QED BY <4>2, <4>3, <4>4 DEF UpdateStatus
    <3> QED BY <1>5, <3>1, <3>2 DEF Mark
  <2>3. \A k \in Markers : mark'[k].pc = "update" => mark'[k].state # "finished"
    <3>1. CASE MarkBegin(m)
      BY <3>1 DEF MarkBegin, NoneFinished
    <3>2. CASE MarkUpdate(m)
      BY <3>2 DEF MarkUpdate, NoMark, NoneFinished
    <3>3. CASE MarkNote(m)
      BY <3>3 DEF MarkNote, NoMark, NoneFinished
    <3> QED BY <1>5, <3>1, <3>2, <3>3 DEF Mark
  <2> QED BY <2>1, <2>2, <2>3 DEF NoneFinished, Snapshot
<1>6. CASE Tick \/ Agents \/ Restart
  BY <1>1, <1>6 DEF Tick, Agents, StartAgent, ExitAgent, Hook, Emit, Publish, Restart, tables
<1>7. CASE Crash
  BY <1>2, <1>7 DEF Crash, NoSweep
<1>8. Reapers = {Sweeper}
  BY DEF Reapers
<1> QED BY <1>3, <1>4, <1>5, <1>6, <1>7, <1>8 DEF Next

\* Without commands that reap beside the mutex, no sweep turns a session that
\* ended cleanly into a dead one.
THEOREM FinishedStaysFinished ==
  ASSUME Listers = {}, "finished" \notin MarkStates
  PROVE  Spec => FinishedNotReaped
<1> DEFINE Finals == \A id \in SessionId : Dies(id) => sessions[id].status # "finished"
<1>1. Init => NoneFinished
  BY SweeperIsReaper DEF Init, NoneFinished, NoSweep, NoMark
<1>2. Inv /\ Exclusive /\ NoneFinished /\ [Next]_vars => NoneFinished'
  <2>1. NoneFinished /\ UNCHANGED vars => NoneFinished'
    BY DEF NoneFinished, vars, tables
  <2> QED BY <2>1, NoneFinishedStep
<1>3. Inv /\ Exclusive /\ NoneFinished /\ [Next]_vars => [Finals]_vars
  <2> SUFFICES ASSUME Inv, Exclusive, NoneFinished, Next,
                      NEW id \in SessionId, Dies(id)
               PROVE  sessions[id].status # "finished"
    OBVIOUS
  <2>1. PICK s \in sweep[Sweeper].stale : s.id = id
    BY KillerStep DEF Reapers
  <2> QED BY <2>1 DEF NoneFinished
<1>4. QED BY <1>1, <1>2, <1>3, BaseInductive, PTL DEF Spec, FinishedNotReaped

-----------------------------------------------------------------------------
(* The waiting-count file.                                                 *)

\* The file is right unless the handler has yet to call the sink, or the sweep
\* has reaped something and not announced it.
CountShown ==
  handler.pc # "alert" /\ sweep[Sweeper].reaped = {} =>
    countFile = CountByStatus(sessions, "waiting")

SameWaiting == \A i \in SessionId : sessions'[i].status = "waiting" <=> sessions[i].status = "waiting"

LEMMA SameCount ==
  ASSUME SameWaiting
  PROVE  CountByStatus(sessions, "waiting")' = CountByStatus(sessions, "waiting")
<1>1. {i \in SessionId : sessions'[i].status = "waiting"}
        = {i \in SessionId : sessions[i].status = "waiting"}
  BY DEF SameWaiting
<1> QED BY <1>1 DEF CountByStatus

LEMMA ReceiveSameWaiting == ASSUME Inv, Receive PROVE SameWaiting
<1>1. sessions \in Table
  BY DEF Inv, TypeOK, Table
<1>2. CASE sessions' = sessions
  BY <1>2 DEF SameWaiting
<1>3. ASSUME NEW e \in bus, NEW i \in SessionId, Resolve(e, i, sessions') PROVE SameWaiting
  <2>1. ASSUME NEW host, NEW ts, NEW proc, ~Exists(sessions, i),
               sessions' = CreateSession(sessions, i, e.native, host, ts, proc)
        PROVE  SameWaiting
    <3>1. sessions[i].status # "waiting" /\ sessions'[i].status # "waiting"
      BY <1>1, <2>1 DEF CreateSession, Exists, NoState, Table
    <3>2. \A x \in SessionId \ {i} : sessions'[x] = sessions[x]
      BY <1>1, <2>1 DEF CreateSession, Table
    <3> QED BY <3>1, <3>2 DEF SameWaiting
  <2>2. CASE sessions' = UpdateIdentity(sessions, i, e.proc)
    BY <1>1, <2>2 DEF UpdateIdentity, SameWaiting, Table, Row
  <2> QED BY <1>2, <1>3, <2>1, <2>2 DEF Resolve
<1> QED BY <1>2, <1>3 DEF Receive

LEMMA CountShownStep ==
  ASSUME Inv, Exclusive, CountShown, Next,
         Listers = {}, Markers = {}, MaxFaults = 0, MaxCrashes = 0
  PROVE  CountShown'
<1> USE SweeperIsReaper DEF Inv, TypeOK
<1>1. ~Fault
  BY DEF Fault
<1>2. ASSUME SameWaiting, countFile' = countFile,
             handler'.pc # "alert" => handler.pc # "alert",
             sweep'[Sweeper].reaped = {} => sweep[Sweeper].reaped = {}
      PROVE  CountShown'
  BY <1>2, SameCount DEF CountShown
<1>3. CASE Receive
  <2>1. handler.pc # "alert"
    BY <1>3 DEF Receive, Exclusive
  <2> QED BY <1>2, <1>3, <2>1, ReceiveSameWaiting DEF Receive
<1>4. CASE Append \/ Classify
  BY <1>2, <1>4 DEF Append, Classify, SameWaiting, tables
<1>5. CASE Update
  BY <1>1, <1>5 DEF Update, Step, CountShown
<1>6. CASE Alert
  <2>1. countFile' = CountByStatus(sessions, "waiting") /\ sessions' = sessions
    BY <1>1, <1>6 DEF Alert, OnStateChange, tables
  <2> QED BY <2>1 DEF CountShown, CountByStatus
<1>7. CASE Tick \/ Agents \/ Restart
  BY <1>2, <1>7 DEF Tick, Agents, StartAgent, ExitAgent, Hook, Emit, Publish, Restart,
     tables, SameWaiting
<1>8. CASE SelectLocal(Sweeper) \/ SelectRemote(Sweeper)
  <2>1. UNCHANGED <<sessions, countFile, handler>>
    BY <1>8 DEF SelectLocal, SelectRemote, tables
  <2>2. sweep[Sweeper].reaped = {} \/ sweep'[Sweeper].reaped = sweep[Sweeper].reaped
    BY <1>8 DEF SelectLocal, SelectRemote, Sweeping, Exclusive, NoSweep
  <2> QED BY <1>2, <2>1, <2>2 DEF SameWaiting
<1>9. ASSUME NEW s \in sweep[Sweeper].stale, sessions' = Kill(s), UNCHANGED <<countFile, handler>>,
             sweep'[Sweeper].reaped = sweep[Sweeper].reaped
               \cup (IF Changes(sessions, s.id, s.last) THEN {s.id} ELSE {})
      PROVE  CountShown'
  <2>1. CASE Changes(sessions, s.id, s.last)
    BY <1>9, <2>1 DEF CountShown
  <2>2. CASE ~Changes(sessions, s.id, s.last)
    BY <1>2, <1>9, <2>2 DEF Kill, UpdateStatus, SameWaiting
  <2> QED BY <2>1, <2>2
<1>10. CASE ReapLocal(Sweeper)
  <2>1. PICK s \in sweep[Sweeper].stale :
          \/ /\ sessions' = sessions
             /\ sweep'[Sweeper].reaped = sweep[Sweeper].reaped
          \/ /\ sessions' = Kill(s)
             /\ sweep'[Sweeper].reaped = sweep[Sweeper].reaped
                  \cup (IF Changes(sessions, s.id, s.last) THEN {s.id} ELSE {})
    BY <1>1, <1>10 DEF ReapLocal, Sweeping
  <2>2. UNCHANGED <<countFile, handler>>
    BY <1>10 DEF ReapLocal
  <2> QED BY <1>2, <1>9, <2>1, <2>2 DEF SameWaiting
<1>11. CASE ReapRemote(Sweeper)
  <2>1. PICK s \in sweep[Sweeper].stale :
          /\ sessions' = Kill(s)
          /\ sweep'[Sweeper].reaped = sweep[Sweeper].reaped
               \cup (IF Changes(sessions, s.id, s.last) THEN {s.id} ELSE {})
    BY <1>1, <1>11 DEF ReapRemote, Sweeping
  <2>2. UNCHANGED <<countFile, handler>>
    BY <1>11 DEF ReapRemote
  <2> QED BY <1>9, <2>1, <2>2
<1>12. CASE ReapEnd(Sweeper)
  <2>1. UNCHANGED <<sessions, handler>>
    BY <1>12 DEF ReapEnd, tables
  <2>2. CASE sweep[Sweeper].reaped = {}
    BY <1>2, <1>12, <2>1, <2>2 DEF ReapEnd, SameWaiting
  <2>3. CASE sweep[Sweeper].reaped # {}
    <3>1. countFile' = CountByStatus(sessions, "waiting")
      BY <1>1, <1>12, <2>3 DEF ReapEnd, OnStateChange
    <3> QED BY <2>1, <3>1 DEF CountShown, CountByStatus
  <2> QED BY <2>2, <2>3
<1>13. ~Crash
  BY DEF Crash
<1>14. Reapers = {Sweeper}
  BY DEF Reapers
<1> QED
  BY <1>3, <1>4, <1>5, <1>6, <1>7, <1>8, <1>10, <1>11, <1>12, <1>13, <1>14
  DEF Next, Handle, Reap

\* With the daemon alone and nothing failing, the waiting-count file is right
\* whenever the mutex is free.
THEOREM CountCorrect ==
  ASSUME Listers = {}, Markers = {}, MaxFaults = 0, MaxCrashes = 0
  PROVE  Spec => []CountAccurate
<1>1. Init => CountShown
  <2>1. ASSUME Init PROVE CountByStatus(sessions, "waiting") = 0
    <3>1. {i \in SessionId : sessions[i].status = "waiting"} = {}
      BY <2>1 DEF Init, EmptyTable, NoRow, NoState
    <3> QED BY <3>1, FS_EmptySet DEF CountByStatus
  <2> QED BY <2>1 DEF Init, CountShown
<1>2. Inv /\ Exclusive /\ CountShown /\ [Next]_vars => CountShown'
  <2>1. CountShown /\ UNCHANGED vars => CountShown'
    BY DEF CountShown, vars, tables, CountByStatus
  <2> QED BY <2>1, CountShownStep
<1>3. Exclusive /\ CountShown => CountAccurate
  BY DEF Exclusive, CountShown, CountAccurate, NoSweep
<1> QED BY <1>1, <1>2, <1>3, BaseInductive, PTL DEF Spec

=============================================================================
