---------------------------- MODULE ResumeProofs ----------------------------
(***************************************************************************)
(* A conversation may be resumed any number of times, each time in another  *)
(* process.  With the daemon alone and the events of a conversation in      *)
(* order, its reaper does not mistake the live process for the dead one.    *)
(***************************************************************************)
EXTENDS ManagerProofs

-----------------------------------------------------------------------------
(* The invariant.                                                          *)

\* The events that have reached the daemon's handler, and all events there are.
Taken == events \cup (IF handler.pc = "rest" THEN {} ELSE {handler.ev})
Sent == bus \cup Taken

\* The events are numbered in the order in which they were published.
Numbered ==
  /\ \A e \in Sent : e.n < seq
  /\ \A e, f \in bus : e.n = f.n => e = f

\* What hooks publish.
FromHooks ==
  \A e \in bus : e.sid = NoSession /\ e.native \in Native /\ e.host = HostOf[e.native]

\* A process runs one conversation, and its events speak of that one.
Owners ==
  /\ \A nat \in Native : running[nat] # NoProc => running[nat] \in started
  /\ \A a, b \in Native : running[a] = running[b] /\ running[a] # NoProc => a = b
  /\ \A e \in Sent : e.proc # NoProc => e.native \in Native /\ e.proc \in started
  /\ \A e \in Sent : \A nat \in Native :
       e.proc = running[nat] /\ e.proc # NoProc => e.native = nat

\* Once the running process has spoken, no older process of the conversation does.
Succession ==
  \A e, f \in Sent :
    e.native = f.native /\ f.proc # NoProc /\ f.proc = running[f.native] /\ f.n < e.n
      => e.proc = NoProc \/ e.proc = f.proc

\* What is still on the bus is newer than what was taken.
InOrder ==
  \A e \in bus, f \in Taken : e.native = f.native => f.n < e.n

\* A conversation has one row, on the host it runs on.
OneRow ==
  /\ \A i \in SessionId :
       Exists(sessions, i) =>
         sessions[i].native \in Native /\ sessions[i].host = HostOf[sessions[i].native]
  /\ \A i, j \in SessionId :
       Exists(sessions, i) /\ Exists(sessions, j) /\ sessions[i].native = sessions[j].native
         => i = j

\* An event that was taken belongs to the row of its conversation.
HasRow ==
  \A e \in Taken :
    e.proc # NoProc => /\ e.sid \in SessionId /\ Exists(sessions, e.sid)
                       /\ sessions[e.sid].native = e.native

\* The row has the fingerprint of the running process as soon as that process
\* has reported in.
Fingerprint ==
  \A e \in Taken :
    e.proc # NoProc /\ e.proc = running[e.native] => sessions[e.sid].proc = e.proc

\* While the sweep holds the mutex its candidates are what the table says.
FreshCandidates ==
  \A s \in sweep[Sweeper].stale : s.proc = sessions[s.id].proc

History == Numbered /\ FromHooks /\ Owners /\ Succession /\ InOrder
Identity == OneRow /\ HasRow /\ Fingerprint

-----------------------------------------------------------------------------
(* The steps.                                                              *)

\* The statement changes no row's conversation, host or fingerprint.
KeepsIdentity(t, u) ==
  \A i \in SessionId : /\ Exists(u, i) <=> Exists(t, i)
                       /\ u[i].native = t[i].native /\ u[i].host = t[i].host
                       /\ u[i].proc = t[i].proc

LEMMA UpdateStatusKeepsIdentity ==
  ASSUME NEW t \in Table, NEW id, NEW st \in State, NEW ts
  PROVE  KeepsIdentity(t, UpdateStatus(t, id, st, ts))
<1>1. CASE ~Changes(t, id, ts)
  BY <1>1 DEF UpdateStatus, KeepsIdentity
<1>2. CASE Changes(t, id, ts)
  <2>1. Exists(t, id) /\ st # NoState
    BY <1>2 DEF Changes, State, NoState
  <2> DEFINE u == [t EXCEPT ![id].status = st, ![id].last = ts]
  <2>2. UpdateStatus(t, id, st, ts) = u
    BY <1>2 DEF UpdateStatus
  <2>3. \A i \in SessionId : i # id => u[i] = t[i]
    BY DEF Table
  <2>4. id \in SessionId => /\ u[id].status = st /\ u[id].native = t[id].native
                            /\ u[id].host = t[id].host /\ u[id].proc = t[id].proc
    BY DEF Table, Row
  <2>5. KeepsIdentity(t, u)
    BY <2>1, <2>3, <2>4 DEF KeepsIdentity, Exists
  <2> QED BY <2>2, <2>5
<1> QED BY <1>1, <1>2

\* A step that adds no event, starts no process and keeps identities.
Quiet ==
  /\ bus' \subseteq bus /\ Taken' \subseteq Taken
  /\ seq' = seq /\ started' = started
  /\ \A nat \in Native : running'[nat] \in {running[nat], NoProc}
  /\ KeepsIdentity(sessions, sessions')

LEMMA QuietStep ==
  ASSUME TypeOK, History, Identity, Quiet
  PROVE  History' /\ Identity'
<1>1. Sent' \subseteq Sent
  BY DEF Sent, Quiet
<1>2. Numbered' /\ FromHooks' /\ InOrder'
  BY <1>1 DEF History, Numbered, FromHooks, InOrder, Quiet
<1>3. Owners'
  BY <1>1 DEF History, Owners, Quiet
<1>4. Succession'
  BY <1>1 DEF History, Owners, Succession, Quiet
<1>5. OneRow'
  BY DEF Identity, OneRow, Quiet, KeepsIdentity
<1>6. HasRow'
  BY DEF Identity, HasRow, Quiet, KeepsIdentity
<1>7. Fingerprint'
  <2> SUFFICES ASSUME NEW e \in Taken', e.proc # NoProc, e.proc = running'[e.native]
               PROVE  sessions'[e.sid].proc = e.proc
    BY DEF Fingerprint
  <2>1. e \in Taken /\ e \in Sent
    BY DEF Quiet, Sent
  <2>2. e.native \in Native /\ e.sid \in SessionId
    BY <2>1 DEF Identity, HasRow, History, Owners
  <2>3. e.proc = running[e.native]
    BY <2>2 DEF Quiet
  <2> QED BY <2>1, <2>2, <2>3 DEF Identity, Fingerprint, Quiet, KeepsIdentity
<1> QED BY <1>2, <1>3, <1>4, <1>5, <1>6, <1>7 DEF History, Identity

\* Publishing an event of the conversation's running process.
LEMMA HookStep ==
  ASSUME TypeOK, History, Identity, NEW nat \in Native, Hook(nat)
  PROVE  History' /\ Identity'
<1>1. PICK e :
        /\ e.sid = NoSession /\ e.native = nat /\ e.host = HostOf[nat] /\ e.n = seq
        /\ e.proc \in {running[nat], NoProc}
        /\ bus' = bus \cup {e} /\ seq' = seq + 1
  BY DEF Hook, Publish, Captured
<1>2. UNCHANGED <<running, started, events, handler, sessions>> /\ running[nat] # NoProc
  BY DEF Hook, Publish, tables
<1>3. Taken' = Taken /\ Sent' = Sent \cup {e} /\ seq \in Nat
  BY <1>1, <1>2 DEF Taken, Sent, TypeOK
<1>4. \A f \in Sent : f.n \in Nat /\ f.n < seq
  BY NoEventType DEF Sent, Taken, TypeOK, Event, History, Numbered
<1>5. Numbered'
  <2>1. \A f \in bus : f \in Sent
    BY DEF Sent
  <2> QED BY <1>1, <1>3, <1>4, <2>1 DEF Numbered, History
<1>6. FromHooks'
  BY <1>1 DEF FromHooks, History
<1>7. Owners'
  BY <1>1, <1>2, <1>3 DEF Owners, History
<1>8. Succession'
  <2> SUFFICES ASSUME NEW x \in Sent \cup {e}, NEW y \in Sent \cup {e},
                      x.native = y.native, y.proc # NoProc, y.proc = running[y.native],
                      y.n < x.n
               PROVE  x.proc = NoProc \/ x.proc = y.proc
    BY <1>2, <1>3 DEF Succession
  <2>1. CASE x = e
    BY <1>1, <2>1
  <2>2. CASE x \in Sent
    <3>1. y # e
      BY <1>1, <1>3, <1>4, <2>2
    <3> QED BY <2>2, <3>1 DEF Succession, History
  <2> QED BY <2>1, <2>2
<1>9. InOrder'
  <2>1. \A f \in Taken : f.n < seq
    BY <1>4 DEF Sent
  <2> QED BY <1>1, <1>3, <2>1 DEF InOrder, History
<1>10. Identity'
  BY <1>2, <1>3 DEF Identity, OneRow, HasRow, Fingerprint, Exists
<1> QED BY <1>5, <1>6, <1>7, <1>8, <1>9, <1>10 DEF History

\* A new process has not spoken yet.
LEMMA StartStep ==
  ASSUME TypeOK, History, Identity, NEW nat \in Native, StartAgent(nat)
  PROVE  History' /\ Identity'
<1>1. PICK p \in Proc \ started :
        running' = [running EXCEPT ![nat] = p] /\ started' = started \cup {p}
  BY DEF StartAgent
<1>2. UNCHANGED <<seq, bus, events, handler, sessions>> /\ running[nat] = NoProc
  BY DEF StartAgent, tables
<1>3. Taken' = Taken /\ Sent' = Sent
  BY <1>2 DEF Taken, Sent
<1>4. p # NoProc
  BY StoreAssumption DEF StoreAssumption
<1>5. \A a \in Native : running'[a] = IF a = nat THEN p ELSE running[a]
  BY <1>1 DEF TypeOK
<1>6. \A f \in Sent : f.proc # NoProc => f.proc # p /\ f.native \in Native
  BY <1>1 DEF History, Owners
<1>7. \A f \in Sent : f.proc # NoProc /\ f.proc = running'[f.native]
                        => f.proc = running[f.native]
  BY <1>5, <1>6
<1>8. Owners'
  BY <1>1, <1>3, <1>4, <1>5, <1>6 DEF Owners, History
<1>9. Numbered' /\ FromHooks' /\ InOrder'
  BY <1>2, <1>3 DEF Numbered, FromHooks, InOrder, History
<1>10. Succession'
  BY <1>3, <1>7 DEF Succession, History
<1>11. \A f \in Taken : f \in Sent
  BY DEF Sent
<1>12. Identity'
  BY <1>2, <1>3, <1>7, <1>11 DEF Identity, OneRow, HasRow, Fingerprint, Exists
<1> QED BY <1>8, <1>9, <1>10, <1>12 DEF History

\* A note of a user has no conversation and no process.
LEMMA NoteStep ==
  ASSUME TypeOK, History, Identity, NEW m \in Markers, MarkNote(m)
  PROVE  History' /\ Identity'
<1>1. UNCHANGED <<running, started, bus, handler, sessions>>
  BY DEF MarkNote
<1>2. CASE UNCHANGED <<events, seq>>
  BY <1>1, <1>2, QuietStep DEF Quiet, KeepsIdentity, Exists, Taken
<1>3. ASSUME NEW e, e.n = seq, e.native = NoNative, e.proc = NoProc,
             events' = events \cup {e}, seq' = seq + 1
      PROVE  History' /\ Identity'
  <2>1. Taken' = Taken \cup {e} /\ Sent' = Sent \cup {e}
    BY <1>1, <1>3 DEF Taken, Sent
  <2>2. \A f \in bus : f.native # NoNative
    BY StoreAssumption DEF StoreAssumption, History, FromHooks
  <2>3. seq \in Nat /\ \A f \in Sent : f.n \in Nat /\ f.n < seq
    BY NoEventType DEF Sent, Taken, TypeOK, Event, History, Numbered
  <2>4. Numbered'
    BY <1>1, <1>3, <2>1, <2>3 DEF Numbered, History
  <2>5. FromHooks' /\ Owners' /\ InOrder'
    BY <1>1, <1>3, <2>1, <2>2 DEF FromHooks, Owners, InOrder, History
  <2>6. Succession'
    BY <1>1, <1>3, <2>1 DEF Succession, History
  <2>7. Identity'
    BY <1>1, <1>3, <2>1 DEF Identity, OneRow, HasRow, Fingerprint, Exists
  <2> QED BY <2>4, <2>5, <2>6, <2>7 DEF History
<1>4. CASE events' = events \cup
             {[NoEvent EXCEPT !.n = seq, !.sid = mark[m].id, !.kind = "note",
                              !.manual = mark[m].state, !.ts = mark[m].ts]}
           /\ seq' = seq + 1
  <2> DEFINE e == [NoEvent EXCEPT !.n = seq, !.sid = mark[m].id, !.kind = "note",
                                  !.manual = mark[m].state, !.ts = mark[m].ts]
  <2>1. e.n = seq /\ e.native = NoNative /\ e.proc = NoProc
    BY DEF NoEvent
  <2>2. events' = events \cup {e} /\ seq' = seq + 1
    BY <1>4
  <2> HIDE DEF e
  <2> QED BY <1>3, <2>1, <2>2
<1> QED BY <1>2, <1>4 DEF MarkNote

\* What resolving the event of a hook does to the table: the row of the event's
\* conversation is there afterwards, with the event's fingerprint if it has one.
LEMMA ResolveRow ==
  ASSUME TypeOK, OneRow, NEW e \in Event, NEW id \in SessionId, NEW tbl, Resolve(e, id, tbl),
         e.sid = NoSession, e.native \in Native, e.host = HostOf[e.native]
  PROVE  /\ Exists(tbl, id) /\ tbl[id].native = e.native
         /\ tbl[id].host = HostOf[e.native]
         /\ Exists(sessions, id) => sessions[id].native = e.native
         /\ ~Exists(sessions, id) => FindSessionByNative(sessions, e.native) = {}
         /\ tbl[id].proc = IF e.proc = NoProc /\ Exists(sessions, id)
                           THEN sessions[id].proc ELSE e.proc
         /\ \A i \in SessionId \ {id} : tbl[i] = sessions[i]
<1>1. e.native # NoNative /\ HostOf[e.native] # NoHost /\ sessions \in Table
  BY StoreAssumption, ManagerAssumption
  DEF StoreAssumption, ManagerAssumption, TypeOK, Table
<1>2. CASE id \in FindSessionByNative(sessions, e.native) /\ e.proc = NoProc /\ tbl = sessions
  BY <1>1, <1>2 DEF FindSessionByNative, OneRow
<1>3. CASE /\ id \in FindSessionByNative(sessions, e.native) /\ e.proc # NoProc
           /\ tbl = UpdateIdentity(sessions, id, e.proc)
  <2>1. Exists(sessions, id) /\ sessions[id].native = e.native
    BY <1>3 DEF FindSessionByNative
  <2>2. tbl = [sessions EXCEPT ![id].proc = e.proc]
    BY <1>3, <2>1 DEF UpdateIdentity
  <2>3. \A i \in SessionId \ {id} : tbl[i] = sessions[i]
    BY <1>1, <2>2 DEF Table
  <2>4. /\ tbl[id].proc = e.proc /\ tbl[id].native = sessions[id].native
        /\ tbl[id].host = sessions[id].host /\ tbl[id].status = sessions[id].status
    BY <1>1, <2>2 DEF Table, Row
  <2> QED BY <1>3, <2>1, <2>3, <2>4 DEF OneRow, Exists
<1>4. CASE /\ FindSessionByNative(sessions, e.native) = {} /\ ~Exists(sessions, id)
           /\ tbl = CreateSession(sessions, id, e.native, e.host, e.ts, e.proc)
  <2>1. tbl[id] = [native |-> e.native, host |-> e.host, last |-> e.ts,
                   status |-> "idle", proc |-> e.proc]
    BY <1>1, <1>4 DEF CreateSession, Table
  <2>2. \A i \in SessionId \ {id} : tbl[i] = sessions[i]
    BY <1>1, <1>4 DEF CreateSession, Table
  <2>3. /\ tbl[id].native = e.native /\ tbl[id].host = e.host /\ tbl[id].proc = e.proc
        /\ tbl[id].status = "idle"
    BY <2>1
  <2>4. Exists(tbl, id)
    BY <2>3 DEF Exists, NoState
  <2> QED BY <1>4, <2>2, <2>3, <2>4
<1> QED BY <1>1, <1>2, <1>3, <1>4 DEF Resolve

LEMMA ReceiveStep ==
  ASSUME TypeOK, Exclusive, History, Identity, ~Reorder, Receive
  PROVE  History' /\ Identity'
<1>1. PICK e \in bus :
        /\ Deliverable(e) /\ bus' = bus \ {e}
        /\ \/ \E id \in SessionId :
                /\ Resolve(e, id, sessions')
                /\ Step("append", [e EXCEPT !.sid = id], NoState)
           \/ UNCHANGED <<sessions, handler>>
  BY DEF Receive
<1>2. UNCHANGED <<seq, running, started, events>>
  BY DEF Receive, agentVars
<1>3. Taken = events /\ e \in Event /\ e \in Sent
  BY DEF Receive, Exclusive, Taken, TypeOK, Sent
<1>4. CASE UNCHANGED <<sessions, handler>>
  BY <1>1, <1>2, <1>4, QuietStep DEF Quiet, KeepsIdentity, Exists, Taken
<1>5. ASSUME NEW id \in SessionId, Resolve(e, id, sessions'),
             Step("append", [e EXCEPT !.sid = id], NoState)
      PROVE  History' /\ Identity'
  <2>1. PICK g : g = [e EXCEPT !.sid = id]
    OBVIOUS
  <2>2. /\ g.sid = id /\ g.n = e.n /\ g.native = e.native /\ g.proc = e.proc
    BY <1>3, <2>1 DEF Event
  <2>3. Taken' = Taken \cup {g}
    BY <1>2, <1>3, <1>5, <2>1 DEF Step, Taken
  <2>4. \A f \in Sent' : f \in Sent \/ f = g
    BY <1>1, <2>3 DEF Sent
  <2>5. /\ e.sid = NoSession /\ e.native \in Native /\ e.host = HostOf[e.native]
    BY DEF History, FromHooks
  <2>6. OneRow /\ HasRow /\ Fingerprint
    BY DEF Identity
  <2>7. /\ Exists(sessions', id) /\ sessions'[id].native = e.native
        /\ sessions'[id].host = HostOf[e.native]
        /\ Exists(sessions, id) => sessions[id].native = e.native
        /\ ~Exists(sessions, id) => FindSessionByNative(sessions, e.native) = {}
        /\ sessions'[id].proc = IF e.proc = NoProc /\ Exists(sessions, id)
                                THEN sessions[id].proc ELSE e.proc
        /\ \A i \in SessionId \ {id} : sessions'[i] = sessions[i]
    BY <1>3, <1>5, <2>5, <2>6, ResolveRow
  <2>8. Numbered'
    BY <1>1, <1>2, <1>3, <2>2, <2>4 DEF Numbered, History
  <2>9. FromHooks'
    BY <1>1 DEF FromHooks, History
  <2>10. Owners'
    BY <1>2, <1>3, <2>2, <2>4 DEF Owners, History
  <2>11. Succession'
    BY <1>2, <1>3, <2>2, <2>4 DEF Succession, History
  <2>12. InOrder'
    <3>1. \A f \in bus \ {e} : f.native = e.native => e.n < f.n
      <4>1. \A f \in bus : f.native = e.native => e.n <= f.n
        BY <1>1 DEF Deliverable
      <4>2. \A f \in bus : f.n \in Nat
        BY DEF TypeOK, Event
      <4>3. \A f \in bus \ {e} : f.n # e.n
        BY DEF History, Numbered
      <4> QED BY <4>1, <4>2, <4>3
    <3> QED BY <1>1, <2>2, <2>3, <3>1 DEF InOrder, History
  <2>13. OneRow'
    <3>1. \A i \in SessionId \ {id} : Exists(sessions', i) <=> Exists(sessions, i)
      BY <2>7 DEF Exists
    <3>2. \A i \in SessionId \ {id} :
            Exists(sessions, i) => sessions[i].native # e.native
      <4>1. e.native # NoNative
        BY <2>5, StoreAssumption DEF StoreAssumption
      <4> QED BY <2>6, <2>7, <4>1 DEF OneRow, FindSessionByNative
    <3> QED BY <2>5, <2>6, <2>7, <3>1, <3>2 DEF OneRow
  <2>14. \A f \in Taken : f.proc # NoProc =>
           /\ f.sid \in SessionId /\ Exists(sessions, f.sid) /\ Exists(sessions', f.sid)
           /\ sessions[f.sid].native = f.native /\ sessions'[f.sid].native = f.native
    <3> SUFFICES ASSUME NEW f \in Taken, f.proc # NoProc
                 PROVE  /\ f.sid \in SessionId /\ Exists(sessions, f.sid)
                        /\ Exists(sessions', f.sid)
                        /\ sessions[f.sid].native = f.native
                        /\ sessions'[f.sid].native = f.native
      OBVIOUS
    <3>1. /\ f.sid \in SessionId /\ Exists(sessions, f.sid)
          /\ sessions[f.sid].native = f.native
      BY <2>6 DEF HasRow
    <3> QED BY <2>7, <3>1 DEF Exists
  <2>15. HasRow'
    BY <2>2, <2>3, <2>7, <2>14 DEF HasRow
  <2>16. Fingerprint'
    <3> SUFFICES ASSUME NEW f \in Taken, f.proc # NoProc, f.proc = running[f.native]
                 PROVE  sessions'[f.sid].proc = f.proc
      BY <1>2, <2>2, <2>3, <2>7 DEF Fingerprint
    <3>1. sessions[f.sid].proc = f.proc
      BY <2>6 DEF Fingerprint
    <3>2. CASE f.sid # id
      BY <2>7, <2>14, <3>1, <3>2
    <3>3. CASE f.sid = id
      <4>1. f.native = e.native /\ f \in Sent
        BY <2>7, <2>14, <3>3 DEF Sent
      <4>2. f.n < e.n
        BY <4>1 DEF History, InOrder
      <4>3. e.proc = NoProc \/ e.proc = f.proc
        BY <1>3, <4>1, <4>2 DEF History, Succession
      <4> QED BY <2>7, <2>14, <3>1, <3>3, <4>3
    <3> QED BY <3>2, <3>3
  <2> QED
    BY <2>8, <2>9, <2>10, <2>11, <2>12, <2>13, <2>15, <2>16 DEF History, Identity
<1> QED BY <1>1, <1>4, <1>5

-----------------------------------------------------------------------------
(* The other steps are quiet, and the sweep alone has candidates.          *)

LEMMA ReapQuiet == ASSUME Inv, NEW r \in Reapers, Reap(r) PROVE Quiet
<1>1. UNCHANGED <<seq, running, started, bus, events, handler>>
  BY DEF Reap, SelectLocal, ReapLocal, SelectRemote, ReapRemote, ReapEnd, agentVars, tables
<1>2. sessions' = sessions \/ \E s \in sweep[r].stale : sessions' = Kill(s)
  BY DEF Reap, SelectLocal, ReapLocal, SelectRemote, ReapRemote, ReapEnd, tables
<1>3. sessions \in Table
  BY DEF Inv, TypeOK, Table
<1>4. KeepsIdentity(sessions, sessions')
  BY <1>2, <1>3, UpdateStatusKeepsIdentity DEF Kill, State, KeepsIdentity, Exists
<1> QED BY <1>1, <1>4 DEF Quiet, Taken

LEMMA OthersQuiet ==
  ASSUME Inv, Exclusive,
         \/ Tick \/ Append \/ Classify \/ Update \/ Alert \/ Crash \/ Restart
         \/ \E nat \in Native : ExitAgent(nat)
         \/ \E m \in Markers : MarkBegin(m) \/ MarkUpdate(m)
  PROVE  Quiet
<1> USE DEF Inv, TypeOK
<1>1. sessions \in Table
  BY DEF Table
<1>2. ASSUME sessions' = sessions PROVE KeepsIdentity(sessions, sessions')
  BY <1>2 DEF KeepsIdentity, Exists
<1>3. CASE Tick \/ Restart \/ \E m \in Markers : MarkBegin(m)
  BY <1>2, <1>3 DEF Tick, Restart, MarkBegin, Quiet, Taken, agentVars, tables
<1>4. CASE \E nat \in Native : ExitAgent(nat)
  BY <1>2, <1>4 DEF ExitAgent, Quiet, Taken, tables
<1>5. CASE Append
  BY <1>2, <1>5 DEF Append, Step, Quiet, Taken, agentVars
<1>6. CASE Classify
  <2>1. handler'.pc = "rest" \/ (handler.pc # "rest" /\ handler'.ev = handler.ev)
    BY <1>6 DEF Classify, Release, AtRest, Step
  <2>2. UNCHANGED <<seq, running, started, bus, events, sessions>>
    BY <1>6 DEF Classify, agentVars, tables
  <2> QED BY <1>2, <2>1, <2>2 DEF Quiet, Taken
<1>7. CASE Update
  <2>1. handler'.pc = "rest" \/ (handler.pc # "rest" /\ handler'.ev = handler.ev)
    BY <1>7 DEF Update, Release, AtRest, Step
  <2>2. handler.next \in State
    BY <1>7 DEF Update, OnlyReapersKill
  <2>3. \/ sessions' = sessions
        \/ sessions' = UpdateStatus(sessions, handler.ev.sid, handler.next, handler.ev.ts)
    BY <1>7 DEF Update
  <2>4. KeepsIdentity(sessions, sessions')
    BY <1>1, <1>2, <2>2, <2>3, UpdateStatusKeepsIdentity
  <2>5. UNCHANGED <<seq, running, started, bus, events>>
    BY <1>7 DEF Update, agentVars
  <2> QED BY <2>1, <2>4, <2>5 DEF Quiet, Taken
<1>8. CASE Alert
  BY <1>2, <1>8 DEF Alert, Release, AtRest, Quiet, Taken, agentVars, tables
<1>9. CASE Crash
  BY <1>2, <1>9 DEF Crash, AtRest, Quiet, Taken, agentVars, tables
<1>10. ASSUME NEW m \in Markers, MarkUpdate(m) PROVE Quiet
  <2>1. mark[m].state \in State
    BY <1>10 DEF MarkUpdate, OnlyReapersKill
  <2>2. \/ sessions' = sessions
        \/ sessions' = UpdateStatus(sessions, mark[m].id, mark[m].state, mark[m].ts)
    BY <1>10 DEF MarkUpdate
  <2>3. KeepsIdentity(sessions, sessions')
    BY <1>1, <1>2, <2>1, <2>2, UpdateStatusKeepsIdentity
  <2>4. UNCHANGED <<seq, running, started, bus, events, handler>>
    BY <1>10 DEF MarkUpdate, agentVars
  <2> QED BY <2>3, <2>4 DEF Quiet, Taken
<1> QED BY <1>3, <1>4, <1>5, <1>6, <1>7, <1>8, <1>9, <1>10

LEMMA IdentityStep ==
  ASSUME Inv, Exclusive, History, Identity, Next, EmitNatives = {}, ~Reorder
  PROVE  History' /\ Identity'
<1>1. TypeOK
  BY DEF Inv
<1>2. CASE \/ Tick \/ Append \/ Classify \/ Update \/ Alert \/ Crash \/ Restart
           \/ \E nat \in Native : ExitAgent(nat)
           \/ \E m \in Markers : MarkBegin(m) \/ MarkUpdate(m)
           \/ \E r \in Reapers : Reap(r)
  BY <1>1, <1>2, OthersQuiet, ReapQuiet, QuietStep
<1>3. ASSUME NEW nat \in Native, StartAgent(nat) \/ Hook(nat) PROVE History' /\ Identity'
  BY <1>1, <1>3, StartStep, HookStep
<1>4. ASSUME NEW m \in Markers, MarkNote(m) PROVE History' /\ Identity'
  BY <1>1, <1>4, NoteStep
<1>5. CASE Receive
  BY <1>1, <1>5, ReceiveStep
<1>6. \A nat \in Native : ~Emit(nat)
  BY DEF Emit
<1> QED BY <1>2, <1>3, <1>4, <1>5, <1>6 DEF Next, Agents, Handle, Mark

LEMMA FreshStep ==
  ASSUME Inv, Exclusive, FreshCandidates, Next, Listers = {}
  PROVE  FreshCandidates'
<1> USE SweeperIsReaper DEF Inv, TypeOK
<1>1. ASSUME KeepsIdentity(sessions, sessions'),
             sweep'[Sweeper].stale \subseteq sweep[Sweeper].stale
      PROVE  FreshCandidates'
  BY <1>1 DEF FreshCandidates, KeepsIdentity, Snapshot
<1>2. ASSUME sweep'[Sweeper].stale = {} PROVE FreshCandidates'
  BY <1>2 DEF FreshCandidates
<1>3. ASSUME Quiet, sweep' = sweep PROVE FreshCandidates'
  BY <1>1, <1>3 DEF Quiet
<1>4. ASSUME UNCHANGED <<sessions, sweep>> PROVE FreshCandidates'
  BY <1>4 DEF FreshCandidates
<1>5. CASE Receive
  BY <1>2, <1>5 DEF Receive, Exclusive, NoSweep
<1>6. CASE Tick \/ Append \/ Classify \/ Alert \/ Restart \/ Agents
           \/ \E m \in Markers : MarkBegin(m) \/ MarkNote(m)
  BY <1>4, <1>6 DEF Tick, Append, Classify, Alert, Restart, Agents, StartAgent, ExitAgent,
     Hook, Emit, Publish, MarkBegin, MarkNote, tables
<1>7. CASE Update \/ \E m \in Markers : MarkUpdate(m)
  BY <1>3, <1>7, OthersQuiet DEF Update, MarkUpdate
<1>8. CASE Crash
  BY <1>2, <1>8 DEF Crash, NoSweep
<1>9. CASE Reap(Sweeper)
  <2>1. KeepsIdentity(sessions, sessions')
    BY <1>9, ReapQuiet DEF Quiet
  <2>2. CASE SelectLocal(Sweeper)
    <3>1. sessions' = sessions /\ sweep'[Sweeper].stale \subseteq LocalStale(sessions, LocalHost)
      BY <2>2 DEF SelectLocal, Sweeping, LocalFailed, ReapDone, NoSweep, tables
    <3> QED BY <3>1 DEF FreshCandidates, LocalStale, SnapshotOf
  <2>3. CASE SelectRemote(Sweeper)
    <3>1. /\ sessions' = sessions
          /\ sweep'[Sweeper].stale \subseteq RemoteStale(sessions, LocalHost, now - TTL)
      BY <2>3 DEF SelectRemote, Sweeping, tables
    <3> QED BY <3>1 DEF FreshCandidates, RemoteStale, SnapshotOf
  <2>4. CASE ReapLocal(Sweeper) \/ ReapRemote(Sweeper) \/ ReapEnd(Sweeper)
    <3>1. sweep'[Sweeper].stale \subseteq sweep[Sweeper].stale
      BY <2>4 DEF ReapLocal, ReapRemote, ReapEnd, Sweeping, LocalFailed, ReapDone, NoSweep
    <3> QED BY <1>1, <2>1, <3>1
  <2> QED BY <1>9, <2>2, <2>3, <2>4 DEF Reap
<1>10. Reapers = {Sweeper}
  BY DEF Reapers
<1> QED BY <1>5, <1>6, <1>7, <1>8, <1>9, <1>10 DEF Next, Handle, Mark

\* A session the sweep marks dead here has no live process that has reported in.
LEMMA SparesStep ==
  ASSUME Inv, Exclusive, History, Identity, FreshCandidates, Next, Listers = {},
         NEW id \in SessionId, Dies(id), sessions[id].host = LocalHost
  PROVE  ~KnownAlive(id)
<1> USE SweeperIsReaper DEF Inv, TypeOK
<1>1. PICK s \in sweep[Sweeper].stale :
        s.id = id /\ (sweep[Sweeper].pc = "local" => IsProcessDead(s.proc))
  BY KillerStep DEF Reapers
<1>2. Exists(sessions, id) /\ sweep[Sweeper].pc # "remote"
  BY <1>1 DEF CandidatesAreBehind
<1>3. IsProcessDead(s.proc)
  <2>1. sweep[Sweeper].pc # "rest"
    BY <1>1 DEF Exclusive, NoSweep
  <2> QED BY <1>1, <1>2, <2>1
<1> DEFINE nat == sessions[id].native
<1>4. HostOf[nat] = LocalHost
  BY <1>2 DEF Identity, OneRow
<1> SUFFICES ASSUME nat \in Native, running[nat] # NoProc,
                    NEW e \in events, e.sid = id, e.proc = running[nat]
             PROVE  FALSE
  BY DEF KnownAlive
<1>5. e \in Taken /\ e \in Sent
  BY DEF Taken, Sent
<1>6. e.native = nat
  BY <1>5 DEF History, Owners
<1>7. sessions[id].proc = running[nat]
  BY <1>5, <1>6 DEF Identity, Fingerprint
<1> QED BY <1>1, <1>3, <1>4, <1>7 DEF FreshCandidates, IsProcessDead

\* The daemon's sweep never marks a session of its host dead whose live process
\* has reported in, however often the conversation was resumed, whatever
\* statements fail, and although hooks may fail to find their process.  It takes
\* that the events of a conversation arrive in order and that nothing reaps
\* beside the mutex.
THEOREM LiveIsSpared ==
  ASSUME Listers = {}, EmitNatives = {}, ~Reorder
  PROVE  Spec => ReaperSparesLive
<1> DEFINE IInv   == Inv /\ Exclusive /\ History /\ Identity /\ FreshCandidates
           Spared == \A id \in SessionId :
                       Dies(id) /\ sessions[id].host = LocalHost => ~KnownAlive(id)
<1>1. Init => History /\ Identity /\ FreshCandidates
  BY SweeperIsReaper
  DEF Init, History, Identity, FreshCandidates, Numbered, FromHooks, Owners, Succession,
      InOrder, OneRow, HasRow, Fingerprint, Taken, Sent, AtRest, NoSweep, EmptyTable,
      NoRow, Exists
<1>2. ASSUME IInv, UNCHANGED vars PROVE History' /\ Identity' /\ FreshCandidates'
  BY <1>2
  DEF vars, agentVars, tables, History, Identity, FreshCandidates, Numbered, FromHooks,
      Owners, Succession, InOrder, OneRow, HasRow, Fingerprint, Taken, Sent, Exists
<1>3. IInv /\ [Next]_vars => History' /\ Identity' /\ FreshCandidates'
  BY <1>2, IdentityStep, FreshStep
<1>4. IInv /\ [Next]_vars => [Spared]_vars
  BY SparesStep
<1> QED BY <1>1, <1>3, <1>4, BaseInductive, PTL DEF Spec, ReaperSparesLive
=============================================================================
