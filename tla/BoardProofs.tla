----------------------------- MODULE BoardProofs -----------------------------
(***************************************************************************)
(* With the daemon alone, its statements implement the board: every step    *)
(* of Manager is a step of SessionBoard or leaves the board alone, whatever  *)
(* the order of events, whatever statement fails and whenever it crashes.   *)
(***************************************************************************)
EXTENDS ManagerProofs, ManagerBoard

-----------------------------------------------------------------------------
(* The invariant.                                                          *)

\* A conversation has at most one row.
Unique ==
  \A i, j \in SessionId :
    Exists(sessions, i) /\ Exists(sessions, j) /\ sessions[i].native \in Native
      /\ sessions[i].native = sessions[j].native => i = j

\* An event that names a row names one that exists, and the handler's always does.
Addressed ==
  /\ \A e \in bus : e.sid # NoSession => Exists(sessions, e.sid)
  /\ handler.pc # "rest" => handler.ev.sid # NoSession /\ Exists(sessions, handler.ev.sid)

\* The clock and the events are within their bounds.
Bounded ==
  /\ now \in 0 .. MaxTime
  /\ \A e \in Pending : /\ e.n \in 0 .. MaxEvents - 1 /\ e.ts \in 0 .. MaxTime
                        /\ [kind |-> e.kind, notify |-> e.notify] \in SentSignals

\* The status the handler is about to write is what its event makes of the status
\* the row has now.
Judged ==
  handler.pc = "update" =>
    handler.next = Transition(sessions[handler.ev.sid].status, handler.ev)

\* No two events that wait have one number.
Numbered ==
  /\ \A e \in Pending : e.n < seq
  /\ \A e, f \in Pending : e.n = f.n => e = f

\* The handler's event is not on the bus as well.
NotTwice == handler.pc \in {"append", "classify", "update"} => handler.ev \notin bus

BoardInv == Unique /\ Addressed /\ Bounded /\ Judged /\ Numbered /\ NotTwice

-----------------------------------------------------------------------------
(* Rows and lines.                                                         *)

LEMMA LineOfRow ==
  ASSUME Unique, NEW id \in SessionId, Exists(sessions, id), sessions[id].native \in Native
  PROVE  Line(sessions[id].native) = [status |-> sessions[id].status,
                                      last |-> sessions[id].last]
<1>1. id \in Rows(sessions[id].native)
  BY DEF Rows
<1>2. \A i \in Rows(sessions[id].native) : i = id
  BY DEF Rows, Unique
<1>3. (CHOOSE i \in Rows(sessions[id].native) : TRUE) = id
  BY <1>1, <1>2
<1> QED BY <1>1, <1>3 DEF Line

\* A step after which each row has the conversation and the line it had.
SameRows ==
  \A i \in SessionId : /\ Exists(sessions', i) <=> Exists(sessions, i)
                       /\ sessions'[i].native = sessions[i].native
                       /\ sessions'[i].status = sessions[i].status
                       /\ sessions'[i].last = sessions[i].last

LEMMA SameRowsSameBoard ==
  ASSUME SameRows
  PROVE  BoardView' = BoardView
<1>1. ASSUME NEW nat \in Native PROVE Line(nat)' = Line(nat)
  <2>1. Rows(nat)' = Rows(nat)
    BY DEF SameRows, Rows
  <2>2. CASE Rows(nat) = {}
    BY <2>1, <2>2 DEF Line
  <2>3. CASE Rows(nat) # {}
    <3> DEFINE id == CHOOSE i \in Rows(nat) : TRUE
    <3>1. id \in SessionId
      BY <2>3 DEF Rows
    <3>2. id' = id
      BY <2>1
    <3>3. sessions'[id].status = sessions[id].status /\ sessions'[id].last = sessions[id].last
      BY <3>1 DEF SameRows
    <3> QED BY <2>1, <2>3, <3>2, <3>3 DEF Line
  <2> QED BY <2>2, <2>3
<1> QED BY <1>1 DEF BoardView

\* A step that changes the line of one row that was there changes that line only.
LEMMA OneRowOneLine ==
  ASSUME Unique, Unique', NEW id \in SessionId, Exists(sessions, id),
         Exists(sessions', id), sessions'[id].native = sessions[id].native,
         \A i \in SessionId \ {id} : sessions'[i] = sessions[i]
  PROVE  IF sessions[id].native \in Native
         THEN BoardView' = [BoardView EXCEPT ![sessions[id].native] =
                              [status |-> sessions'[id].status,
                               last |-> sessions'[id].last]]
         ELSE BoardView' = BoardView
<1> DEFINE c == sessions[id].native
           new == [status |-> sessions'[id].status, last |-> sessions'[id].last]
<1>1. ASSUME NEW nat \in Native, nat # c PROVE Line(nat)' = Line(nat)
  <2>1. Rows(nat)' = Rows(nat)
    BY <1>1 DEF Rows, Exists
  <2>2. CASE Rows(nat) = {}
    BY <2>1, <2>2 DEF Line
  <2>3. CASE Rows(nat) # {}
    <3> DEFINE x == CHOOSE i \in Rows(nat) : TRUE
    <3>1. x \in SessionId \ {id}
      BY <1>1, <2>3 DEF Rows
    <3>2. x' = x
      BY <2>1
    <3>3. sessions'[x] = sessions[x]
      BY <3>1
    <3> QED BY <2>1, <2>3, <3>2, <3>3 DEF Line
  <2> QED BY <2>2, <2>3
<1>2. CASE c \notin Native
  <2>1. \A nat \in Native : Line(nat)' = Line(nat)
    BY <1>1, <1>2
  <2> QED BY <1>2, <2>1 DEF BoardView
<1>3. CASE c \in Native
  <2>1. Line(c)' = new
    <3>1. id \in Rows(c)' /\ \A i \in Rows(c)' : i = id
      BY <1>3 DEF Rows, Unique
    <3>2. (CHOOSE i \in Rows(c)' : TRUE) = id
      BY <3>1
    <3> QED BY <3>1, <3>2 DEF Line
  <2>2. \A nat \in Native : Line(nat)' = IF nat = c THEN new ELSE Line(nat)
    BY <1>1, <2>1
  <2> HIDE DEF new, c
  <2>3. BoardView' = [BoardView EXCEPT ![c] = new]
    BY <2>2 DEF BoardView
  <2> QED BY <1>3, <2>3 DEF c, new
<1> QED BY <1>2, <1>3

-----------------------------------------------------------------------------
(* The inbox.                                                              *)

SameNatives == \A i \in SessionId : sessions'[i].native = sessions[i].native

LEMMA PendingType == ASSUME TypeOK PROVE Pending \subseteq Event
BY DEF TypeOK, Pending

LEMMA SameReport ==
  ASSUME SameNatives, NEW e \in Event
  PROVE  About(e)' = About(e) /\ ReportOf(e)' = ReportOf(e)
<1>1. e.sid # NoSession => e.sid \in SessionId
  BY DEF Event
<1>2. About(e)' = About(e)
  BY <1>1 DEF About, SameNatives
<1> QED BY <1>2 DEF ReportOf

LEMMA InboxShrinks ==
  ASSUME TypeOK, SameNatives, Pending' \subseteq Pending
  PROVE  InboxView' \subseteq InboxView
BY PendingType, SameReport DEF InboxView

LEMMA InboxGrows ==
  ASSUME TypeOK, SameNatives, NEW e \in Event, Pending' = Pending \cup {e},
         ReportOf(e) \in SentReports \/ About(e) \notin Native
  PROVE  InboxView' = InboxView \/ \E r \in SentReports : InboxView' = InboxView \cup {r}
<1> DEFINE live == {f \in Pending : About(f) \in Native}
<1>1. Pending \subseteq Event
  BY PendingType
<1>2. ASSUME NEW f \in Pending \cup {e}
      PROVE  About(f)' = About(f) /\ ReportOf(f)' = ReportOf(f)
  BY <1>1, SameReport
<1>3. InboxView' = {ReportOf(f) : f \in {g \in Pending \cup {e} : About(g) \in Native}}
  <2>1. {g \in Pending \cup {e} : About(g)' \in Native}
          = {g \in Pending \cup {e} : About(g) \in Native}
    BY <1>2
  <2>2. InboxView' = {ReportOf(f)' : f \in {g \in Pending \cup {e} : About(g)' \in Native}}
    BY DEF InboxView
  <2> QED BY <1>2, <2>1, <2>2
<1>4. CASE About(e) \in Native
  <2>1. {g \in Pending \cup {e} : About(g) \in Native} = live \cup {e}
    BY <1>4
  <2>2. InboxView' = InboxView \cup {ReportOf(e)}
    BY <1>3, <2>1 DEF InboxView
  <2> QED BY <1>4, <2>2
<1>5. CASE About(e) \notin Native
  <2>1. {g \in Pending \cup {e} : About(g) \in Native} = live
    BY <1>5
  <2> QED BY <1>3, <2>1 DEF InboxView
<1> QED BY <1>4, <1>5

LEMMA QuietIsPass ==
  ASSUME TypeOK, SameRows, Pending' \subseteq Pending
  PROVE  Board!Pass
BY InboxShrinks, SameRowsSameBoard DEF SameRows, SameNatives, Board!Pass

LEMMA SameInbox ==
  ASSUME TypeOK, TypeOK', SameNatives, Pending' = Pending
  PROVE  InboxView' = InboxView
BY PendingType, SameReport DEF InboxView

-----------------------------------------------------------------------------
(* The handler's steps.                                                     *)

LEMMA PublishSubmits ==
  ASSUME TypeOK, Bounded, NEW nat \in Native, Hook(nat) \/ Emit(nat)
  PROVE  [Board!Next]_<<BoardView, InboxView>>
<1>1. PICK e \in Event : /\ Publish(e)
                         /\ e.n = seq /\ e.ts = now
                         /\ [kind |-> e.kind, notify |-> e.notify] \in SentSignals
  <2>1. CASE Hook(nat)
    <3>1. PICK s \in Signals, p \in Captured(nat) :
            Publish([n |-> seq, sid |-> NoSession, native |-> nat, kind |-> s.kind,
                     notify |-> s.notify, manual |-> NoState, ts |-> now, proc |-> p,
                     host |-> HostOf[nat]])
      BY <2>1 DEF Hook
    <3>2. s \in Signal /\ s = [kind |-> s.kind, notify |-> s.notify]
      BY ManagerAssumption DEF Signal
    <3>3. p \in Proc \cup {NoProc}
      BY DEF TypeOK, Captured
    <3>4. HostOf[nat] \in Host
      BY ManagerAssumption
    <3>5. [n |-> seq, sid |-> NoSession, native |-> nat, kind |-> s.kind,
           notify |-> s.notify, manual |-> NoState, ts |-> now, proc |-> p,
           host |-> HostOf[nat]] \in Event
      BY <3>2, <3>3, <3>4 DEF TypeOK, Event, Signal
    <3> QED BY <3>1, <3>2, <3>5 DEF SentSignals
  <2>2. CASE Emit(nat)
    <3>1. PICK s \in Signals, id \in FindSessionByNative(sessions, nat) \cup {NoSession} :
            Publish([n |-> seq, sid |-> id,
                     native |-> IF id = NoSession THEN nat ELSE NoNative,
                     kind |-> s.kind, notify |-> NoNotify, manual |-> NoState,
                     ts |-> now, proc |-> NoProc, host |-> NoHost])
      BY <2>2 DEF Emit
    <3>2. s \in Signal /\ NoNotify \in NotifyType
      BY ManagerAssumption DEF NotifyType
    <3>3. id \in SessionId \cup {NoSession}
      BY DEF FindSessionByNative
    <3>4. [n |-> seq, sid |-> id,
           native |-> IF id = NoSession THEN nat ELSE NoNative,
           kind |-> s.kind, notify |-> NoNotify, manual |-> NoState,
           ts |-> now, proc |-> NoProc, host |-> NoHost] \in Event
      BY <3>2, <3>3 DEF TypeOK, Event, Signal
    <3> QED BY <3>1, <3>4 DEF SentSignals
  <2> QED BY <2>1, <2>2
<1>2. sessions' = sessions /\ SameRows /\ SameNatives
  BY <1>1 DEF Publish, tables, SameRows, SameNatives
<1>3. Pending' = Pending \cup {e}
  BY <1>1 DEF Publish, Pending
<1>4. e.n \in 0 .. MaxEvents - 1 /\ e.ts \in 0 .. MaxTime
  BY <1>1, ManagerAssumption DEF Publish, TypeOK, Bounded
<1>5. ReportOf(e) \in SentReports \/ About(e) \notin Native
  BY <1>1, <1>4 DEF ReportOf, SentReports
<1>6. BoardView' = BoardView
  BY <1>2, SameRowsSameBoard
<1>7. CASE InboxView' = InboxView
  BY <1>6, <1>7
<1>8. ASSUME NEW r \in SentReports, InboxView' = InboxView \cup {r} PROVE Board!Next
  BY <1>6, <1>8 DEF Board!Next, Board!Submit
<1> QED BY <1>2, <1>3, <1>5, <1>7, <1>8, InboxGrows

\* Receiving an event of a conversation that has a row leaves the board alone, the
\* first one announces the conversation.
LEMMA ReceiveAnnounces ==
  ASSUME TypeOK, TypeOK', Exclusive, BoardInv, Unique', Receive
  PROVE  [Board!Next]_<<BoardView, InboxView>>
<1>1. handler.pc = "rest" /\ Pending = bus
  BY DEF Receive, Exclusive, Pending
<1>2. PICK e \in bus :
        /\ bus' = bus \ {e}
        /\ \/ \E id \in SessionId :
                /\ Resolve(e, id, sessions')
                /\ Step("append", [e EXCEPT !.sid = id], NoState)
           \/ UNCHANGED <<sessions, handler>>
  BY DEF Receive
<1>3. CASE UNCHANGED <<sessions, handler>>
  <2>1. SameRows /\ Pending' \subseteq Pending
    BY <1>1, <1>2, <1>3 DEF SameRows, Pending
  <2> QED BY <2>1, QuietIsPass DEF Board!Next
<1>4. ASSUME NEW id \in SessionId, Resolve(e, id, sessions'),
             handler' = [pc |-> "append", ev |-> [e EXCEPT !.sid = id], next |-> NoState]
      PROVE  [Board!Next]_<<BoardView, InboxView>>
  <2> DEFINE ev == [e EXCEPT !.sid = id]
  <2>1. Pending' = (bus \ {e}) \cup {ev}
    BY <1>2, <1>4 DEF Pending
  <2>2. /\ e \in Event /\ ev \in Event /\ bus \subseteq Event
        /\ ev.n = e.n /\ ev.kind = e.kind /\ ev.notify = e.notify /\ ev.ts = e.ts
        /\ ev.sid = id /\ ev.native = e.native /\ id # NoSession
    BY ManagerAssumption, StoreAssumption DEF TypeOK, Event
  <2>3. sessions \in Table /\ Addressed /\ Unique
    BY DEF TypeOK, Table, BoardInv
  <2> HIDE DEF ev
  \* The event keeps its conversation as it moves from the bus to the handler.
  <2>4. ASSUME \A f \in bus : About(f)' = About(f), About(ev)' = About(e)
        PROVE  InboxView' = InboxView
    <3>1. ReportOf(ev)' = ReportOf(e)
      BY <2>2, <2>4 DEF ReportOf
    <3>2. \A f \in bus : ReportOf(f)' = ReportOf(f)
      BY <2>4 DEF ReportOf
    <3>3. InboxView' \subseteq InboxView
      BY <1>1, <2>1, <2>4, <3>1, <3>2 DEF InboxView
    <3>4. InboxView \subseteq InboxView'
      BY <1>1, <2>1, <2>4, <3>1, <3>2 DEF InboxView
    <3> QED BY <3>3, <3>4
  <2>5. CASE e.sid # NoSession /\ id = e.sid /\ sessions' = sessions
    <3>1. SameRows /\ SameNatives
      BY <2>5 DEF SameRows, SameNatives
    <3>2. \A f \in bus : About(f)' = About(f)
      BY <2>2, <3>1, SameReport
    <3>3. About(ev)' = About(e)
      BY <2>2, <2>5 DEF About
    <3> QED BY <2>4, <3>1, <3>2, <3>3, SameRowsSameBoard
  <2>6. CASE /\ e.sid = NoSession
             /\ id \in FindSessionByNative(sessions, e.native)
             /\ sessions' = UpdateIdentity(sessions, id, e.proc) \/ sessions' = sessions
    <3>1. SameRows /\ SameNatives
      BY <2>3, <2>6 DEF SameRows, SameNatives, UpdateIdentity, Exists, Table, Row
    <3>2. \A f \in bus : About(f)' = About(f)
      BY <2>2, <3>1, SameReport
    <3>3. sessions'[id].native = e.native
      BY <2>6, <3>1 DEF FindSessionByNative, SameNatives
    <3>4. About(ev)' = About(e)
      BY <2>2, <2>6, <3>3 DEF About
    <3> QED BY <2>4, <3>1, <3>2, <3>4, SameRowsSameBoard
  <2>7. ASSUME e.sid = NoSession, FindSessionByNative(sessions, e.native) = {},
               ~Exists(sessions, id), NEW h,
               sessions' = CreateSession(sessions, id, e.native, h, e.ts, e.proc)
        PROVE  [Board!Next]_<<BoardView, InboxView>>
    <3>1. /\ sessions'[id].native = e.native /\ sessions'[id].status = "idle"
          /\ sessions'[id].last = e.ts /\ Exists(sessions', id)
          /\ \A i \in SessionId \ {id} : sessions'[i] = sessions[i]
      BY <2>3, <2>7 DEF CreateSession, Table, Exists, NoState
    <3>2. \A f \in bus : About(f)' = About(f)
      <4> SUFFICES ASSUME NEW f \in bus, f.sid # NoSession
                   PROVE  sessions'[f.sid] = sessions[f.sid]
        BY DEF About
      <4>1. Exists(sessions, f.sid) /\ f.sid \in SessionId
        BY <2>2, <2>3 DEF Addressed, Event
      <4> QED BY <2>7, <3>1, <4>1
    <3>3. About(ev)' = About(e)
      BY <2>2, <2>7, <3>1 DEF About
    <3>4. InboxView' = InboxView
      BY <2>4, <3>2, <3>3
    <3>5. ASSUME NEW nat \in Native, nat # e.native PROVE Line(nat)' = Line(nat)
      <4>1. Rows(nat)' = Rows(nat) /\ id \notin Rows(nat)
        BY <2>7, <3>1, <3>5 DEF Rows, Exists
      <4>2. CASE Rows(nat) = {}
        BY <4>1, <4>2 DEF Line
      <4>3. CASE Rows(nat) # {}
        <5> DEFINE x == CHOOSE i \in Rows(nat) : TRUE
        <5>1. x \in SessionId \ {id} /\ x' = x
          BY <4>1, <4>3 DEF Rows
        <5>2. sessions'[x] = sessions[x]
          BY <3>1, <5>1
        <5> QED BY <4>1, <4>3, <5>1, <5>2 DEF Line
      <4> QED BY <4>2, <4>3
    <3>6. CASE e.native \notin Native
      <4>1. \A nat \in Native : Line(nat)' = Line(nat)
        BY <3>5, <3>6
      <4> QED BY <3>4, <4>1 DEF BoardView
    <3>7. CASE e.native \in Native
      <4>1. Line(e.native)' = [status |-> "idle", last |-> e.ts]
        <5>1. id \in Rows(e.native)' /\ \A i \in Rows(e.native)' : i = id
          BY <3>1, <3>7 DEF Rows, Unique
        <5>2. (CHOOSE i \in Rows(e.native)' : TRUE) = id
          BY <5>1
        <5> QED BY <3>1, <5>1, <5>2 DEF Line
      <4>2. Rows(e.native) = {}
        BY <2>7, <3>7, StoreAssumption DEF Rows, FindSessionByNative
      <4>3. BoardView[e.native].status = NoState
        BY <3>7, <4>2 DEF BoardView, Line
      <4>4. BoardView' = [BoardView EXCEPT ![e.native] = [status |-> "idle", last |-> e.ts]]
        BY <3>5, <4>1 DEF BoardView
      <4>5. About(e) = e.native /\ ReportOf(e) \in InboxView
        BY <1>1, <2>7, <3>7 DEF About, InboxView
      <4>6. ReportOf(e).conv = e.native /\ ReportOf(e).t = e.ts
        BY <4>5 DEF ReportOf
      <4>7. Board!Announce(ReportOf(e))
        BY <3>4, <4>3, <4>4, <4>6 DEF Board!Announce, Board!Write, Board!NoState, NoState
      <4> QED BY <4>5, <4>7 DEF Board!Next
    <3> QED BY <3>6, <3>7
  <2> QED BY <1>4, <2>5, <2>6, <2>7 DEF Resolve
<1> QED BY <1>2, <1>3, <1>4 DEF Step

\* UpdateStatus on a row: its line, and no other.
LEMMA WriteOneLine ==
  ASSUME TypeOK, Unique, NEW id \in SessionId, NEW st \in State, NEW ts \in Nat,
         Changes(sessions, id, ts), sessions' = UpdateStatus(sessions, id, st, ts)
  PROVE  /\ SameNatives
         /\ IF sessions[id].native \in Native
            THEN BoardView' = [BoardView EXCEPT ![sessions[id].native] =
                                 [status |-> st, last |-> ts]]
            ELSE BoardView' = BoardView
<1>1. sessions \in Table /\ Exists(sessions, id) /\ st # NoState
  BY DEF TypeOK, Table, Changes, State, NoState
<1>2. sessions' = [sessions EXCEPT ![id].status = st, ![id].last = ts]
  BY DEF UpdateStatus
<1>3. /\ sessions'[id].status = st /\ sessions'[id].last = ts
      /\ sessions'[id].native = sessions[id].native
      /\ \A i \in SessionId \ {id} : sessions'[i] = sessions[i]
  BY <1>1, <1>2 DEF Table, Row
<1>4. SameNatives /\ Exists(sessions', id)
  BY <1>1, <1>3 DEF SameNatives, Exists
<1>5. Unique'
  <2>1. \A i \in SessionId : Exists(sessions', i) <=> Exists(sessions, i)
    BY <1>1, <1>3, <1>4 DEF Exists
  <2> QED BY <1>4, <2>1 DEF Unique, SameNatives
<1> QED BY <1>1, <1>3, <1>4, <1>5, OneRowOneLine

LEMMA UpdateHears ==
  ASSUME TypeOK, TypeOK', OnlyReapersKill, BoardInv, Update
  PROVE  [Board!Next]_<<BoardView, InboxView>>
<1> DEFINE e == handler.ev
           id == handler.ev.sid
           c  == sessions[id].native
<1>1. handler.pc = "update" /\ bus' = bus /\ Pending = bus \cup {e}
  BY DEF Update, Pending
<1>2. Pending' = bus
  BY <1>1 DEF Update, Step, Release, AtRest, Pending
<1>3. /\ e \in Event /\ id \in SessionId /\ e.ts \in Nat /\ Exists(sessions, id)
      /\ handler.next \in State
      /\ handler.next = Transition(sessions[id].status, e)
  BY <1>1 DEF TypeOK, Event, BoardInv, Addressed, Judged, OnlyReapersKill
<1>4. CASE sessions' = sessions
  <2>1. SameRows /\ Pending' \subseteq Pending
    BY <1>1, <1>2, <1>4 DEF SameRows
  <2> QED BY <2>1, QuietIsPass DEF Board!Next
<1>5. CASE /\ Changes(sessions, id, e.ts)
           /\ sessions' = UpdateStatus(sessions, id, handler.next, e.ts)
  <2>1. SameNatives
    BY <1>3, <1>5, WriteOneLine DEF BoardInv
  <2>2. CASE c \notin Native
    <3>1. BoardView' = BoardView
      BY <1>3, <1>5, <2>2, WriteOneLine DEF BoardInv
    <3>2. InboxView' \subseteq InboxView
      BY <1>1, <1>2, <2>1, InboxShrinks
    <3> QED BY <3>1, <3>2 DEF Board!Next, Board!Pass
  <2>3. CASE c \in Native
    <3>1. BoardView' = [BoardView EXCEPT ![c] = [status |-> handler.next, last |-> e.ts]]
      BY <1>3, <1>5, <2>3, WriteOneLine DEF BoardInv
    <3>2. About(e) = c /\ ReportOf(e) \in InboxView
      BY <1>1, <1>3, <2>3 DEF About, InboxView, BoardInv, Addressed
    <3>3. ReportOf(e).conv = c /\ ReportOf(e).t = e.ts
          /\ ReportOf(e).signal = [kind |-> e.kind, notify |-> e.notify]
      BY <3>2 DEF ReportOf
    <3>4. BoardView[c] = [status |-> sessions[id].status, last |-> sessions[id].last]
      BY <1>3, <2>3, LineOfRow DEF BoardView, BoardInv
    <3>5. /\ BoardView[c].status = sessions[id].status
          /\ BoardView[c].last = sessions[id].last
      BY <3>4
    <3>6. Transition(sessions[id].status, ReportOf(e).signal) = handler.next
      BY <1>3, <3>3 DEF Transition, NextState
    <3>7. handler.next # NoState /\ sessions[id].status # NoState /\ e.ts >= sessions[id].last
      BY <1>3, <1>5 DEF State, NoState, Exists, Changes
    <3>8. InboxView' = InboxView \ {ReportOf(e)}
      <4>1. ASSUME NEW f \in bus, f # e, About(f) \in Native
            PROVE  ReportOf(f) # ReportOf(e)
        <5>1. f.n # e.n
          BY <1>1, <4>1 DEF BoardInv, Numbered
        <5> QED BY <5>1 DEF ReportOf
      <4>2. \A f \in bus : About(f)' = About(f) /\ ReportOf(f)' = ReportOf(f)
        BY <1>1, <2>1, PendingType, SameReport
      <4>3. e \notin bus
        BY <1>1 DEF BoardInv, NotTwice
      <4>4. InboxView' = {ReportOf(f) : f \in {g \in bus : About(g) \in Native}}
        <5>1. {g \in bus : About(g)' \in Native} = {g \in bus : About(g) \in Native}
          BY <4>2
        <5>2. InboxView' = {ReportOf(f)' : f \in {g \in bus : About(g)' \in Native}}
          BY <1>2 DEF InboxView
        <5> QED BY <4>2, <5>1, <5>2
      <4> QED BY <1>1, <3>2, <4>1, <4>3, <4>4 DEF InboxView
    <3> HIDE DEF e, id, c
    <3>9. Board!Hear(ReportOf(e))
      BY <3>1, <3>3, <3>5, <3>6, <3>7, <3>8
      DEF Board!Hear, Board!Write, Board!Transition, Transition, Board!NoState, NoState,
          Board!NextState, NextState, Board!Resuming, Resuming, Board!Informational,
          Informational, Board!NoNotify, NoNotify
    <3> QED BY <3>2, <3>9 DEF Board!Next
  <2> QED BY <2>2, <2>3
<1> QED BY <1>4, <1>5 DEF Update, UpdateStatus

-----------------------------------------------------------------------------
(* The other steps.                                                         *)

\* A candidate the sweep marks dead had not ended, and keeps its last_event_at.
LEMMA KillBuries ==
  ASSUME TypeOK, TypeOK', CandidatesAreBehind, NoneFinished, BoardInv,
         NEW s \in sweep[Sweeper].stale, sessions' = Kill(s), Pending' = Pending
  PROVE  [Board!Next]_<<BoardView, InboxView>>
<1> DEFINE id == s.id
           c  == sessions[id].native
<1>1. /\ s \in Snapshot /\ id \in SessionId /\ s.last \in Nat
      /\ Exists(sessions, id) /\ s.last <= sessions[id].last
      /\ sessions[id].last \in Nat /\ sessions[id].status \in State
      /\ sessions[id].status # "finished"
  BY SweeperIsReaper
  DEF TypeOK, Snapshot, CandidatesAreBehind, NoneFinished, Row, Exists, State
<1>2. CASE ~Changes(sessions, id, s.last) \/ sessions[id].status = "dead"
  <2>1. SameRows
    <3>1. CASE ~Changes(sessions, id, s.last)
      BY <3>1 DEF Kill, UpdateStatus, SameRows
    <3>2. CASE Changes(sessions, id, s.last) /\ sessions[id].status = "dead"
      <4>1. s.last = sessions[id].last
        BY <1>1, <3>2 DEF Changes
      <4>2. sessions' = [sessions EXCEPT ![id].status = "dead", ![id].last = s.last]
        BY <3>2 DEF Kill, UpdateStatus
      <4> QED BY <1>1, <3>2, <4>1, <4>2 DEF SameRows, TypeOK, Row, Exists
    <3> QED BY <1>2, <3>1, <3>2
  <2> QED BY <2>1, QuietIsPass DEF Board!Next
<1>3. CASE Changes(sessions, id, s.last) /\ sessions[id].status # "dead"
  <2>1. s.last = sessions[id].last
    BY <1>1, <1>3 DEF Changes
  <2>2. "dead" \in State /\ sessions' = UpdateStatus(sessions, id, "dead", s.last)
    BY DEF State, Kill
  <2>3. SameNatives
    BY <1>1, <1>3, <2>2, WriteOneLine DEF BoardInv
  <2>4. InboxView' = InboxView
    BY <2>3, SameInbox
  <2>5. CASE c \notin Native
    <3>1. BoardView' = BoardView
      BY <1>1, <1>3, <2>2, <2>5, WriteOneLine DEF BoardInv
    <3> QED BY <2>4, <3>1
  <2>6. CASE c \in Native
    <3>1. BoardView' = [BoardView EXCEPT ![c] = [status |-> "dead", last |-> s.last]]
      BY <1>1, <1>3, <2>2, <2>6, WriteOneLine DEF BoardInv
    <3>2. BoardView[c] = [status |-> sessions[id].status, last |-> sessions[id].last]
      BY <1>1, <2>6, LineOfRow DEF BoardView, BoardInv
    <3>3. BoardView[c].status = sessions[id].status /\ BoardView[c].last = s.last
      BY <2>1, <3>2
    <3>4. sessions[id].status # NoState /\ ~IsTerminal(sessions[id].status)
      BY <1>1, <1>3 DEF State, NoState, IsTerminal, TerminalStates
    <3> HIDE DEF id, c
    <3>5. Board!Bury(c)
      BY <2>4, <3>1, <3>3, <3>4
      DEF Board!Bury, Board!Write, Board!NoState, NoState, Board!IsTerminal, IsTerminal,
          Board!TerminalStates, TerminalStates
    <3> QED BY <2>6, <3>5 DEF Board!Next
  <2> QED BY <2>5, <2>6
<1> QED BY <1>2, <1>3

LEMMA BoardStep ==
  ASSUME Inv, TypeOK', Exclusive, NoneFinished, BoardInv, Unique', [Next]_vars,
         Listers = {}, Markers = {}
  PROVE  [Board!Next]_<<BoardView, InboxView>>
<1> USE DEF Inv
<1>1. ASSUME sessions' = sessions, Pending' \subseteq Pending
      PROVE  [Board!Next]_<<BoardView, InboxView>>
  <2>1. SameRows
    BY <1>1 DEF SameRows
  <2> QED BY <1>1, <2>1, QuietIsPass DEF Board!Next
<1>2. CASE UNCHANGED vars \/ Tick \/ Restart
  BY <1>1, <1>2 DEF vars, tables, Tick, Restart, Pending
<1>3. CASE Agents
  <2>1. PICK nat \in Native : StartAgent(nat) \/ ExitAgent(nat) \/ Hook(nat) \/ Emit(nat)
    BY <1>3 DEF Agents
  <2>2. CASE StartAgent(nat) \/ ExitAgent(nat)
    BY <1>1, <2>2 DEF StartAgent, ExitAgent, tables, Pending
  <2> QED BY <2>1, <2>2, PublishSubmits DEF BoardInv
<1>4. CASE Receive
  BY <1>4, ReceiveAnnounces
<1>5. CASE Append \/ Classify \/ Alert
  <2>1. sessions' = sessions /\ bus' = bus
    BY <1>5 DEF Append, Classify, Alert, tables
  <2>2. CASE Append
    BY <1>1, <2>1, <2>2 DEF Append, Step, Pending
  <2>3. CASE Alert
    BY <1>1, <2>1, <2>3 DEF Alert, Release, AtRest, Pending
  <2>4. CASE Classify
    <3>1. handler.pc = "classify"
          /\ (handler' = AtRest \/ \E next : handler' = [pc |-> "update", ev |-> handler.ev,
                                                         next |-> next])
      BY <2>4 DEF Classify, Release, Step
    <3> QED BY <1>1, <2>1, <3>1 DEF AtRest, Pending
  <2> QED BY <1>5, <2>2, <2>3, <2>4
<1>6. CASE Update
  BY <1>6, UpdateHears
<1>7. CASE Reap(Sweeper)
  <2>1. Pending' = Pending
    BY <1>7 DEF Reap, SelectLocal, ReapLocal, SelectRemote, ReapRemote, ReapEnd, Pending
  <2>2. sessions' = sessions \/ \E s \in sweep[Sweeper].stale : sessions' = Kill(s)
    BY <1>7 DEF Reap, SelectLocal, ReapLocal, SelectRemote, ReapRemote, ReapEnd, tables
  <2> QED BY <1>1, <2>1, <2>2, KillBuries
<1>8. CASE Crash
  BY <1>1, <1>8 DEF Crash, tables, AtRest, Pending
<1>9. Reapers = {Sweeper}
  BY DEF Reapers
<1> QED BY <1>2, <1>3, <1>4, <1>5, <1>6, <1>7, <1>8, <1>9 DEF Next, Handle

-----------------------------------------------------------------------------
(* The invariant is one.                                                    *)

\* A statement after which the same rows are there, of the same conversations.
SameOwners ==
  \A i \in SessionId : /\ Exists(sessions', i) <=> Exists(sessions, i)
                       /\ sessions'[i].native = sessions[i].native

LEMMA UpdateStatusSameOwners ==
  ASSUME TypeOK, NEW id, NEW st \in State, NEW ts,
         sessions' = UpdateStatus(sessions, id, st, ts)
  PROVE  SameOwners
<1>1. sessions \in Table
  BY DEF TypeOK, Table
<1>2. CASE ~Changes(sessions, id, ts)
  BY <1>2 DEF UpdateStatus, SameOwners
<1>3. CASE Changes(sessions, id, ts)
  <2>1. sessions' = [sessions EXCEPT ![id].status = st, ![id].last = ts]
    BY <1>3 DEF UpdateStatus
  <2>2. Exists(sessions, id) /\ st # NoState
    BY <1>3 DEF Changes, State, NoState
  <2>3. \A i \in SessionId : i # id => sessions'[i] = sessions[i]
    BY <1>1, <2>1 DEF Table
  <2>4. id \in SessionId => sessions'[id].status = st /\ sessions'[id].native = sessions[id].native
    BY <1>1, <2>1 DEF Table, Row
  <2> QED BY <2>2, <2>3, <2>4 DEF SameOwners, Exists
<1> QED BY <1>2, <1>3

\* Only the handler's look-up adds a row.
LEMMA OwnersStep ==
  ASSUME Inv, Next, ~Receive, Markers = {}
  PROVE  SameOwners
<1> USE DEF Inv
<1>1. CASE sessions' = sessions
  BY <1>1 DEF SameOwners
<1>2. CASE Update
  <2>1. handler.next \in State
    BY <1>2 DEF Update, OnlyReapersKill
  <2> QED BY <1>1, <1>2, <2>1, UpdateStatusSameOwners DEF Update
<1>3. ASSUME NEW r \in Reapers, Reap(r) PROVE SameOwners
  <2>1. sessions' = sessions \/ \E s \in sweep[r].stale : sessions' = Kill(s)
    BY <1>3 DEF Reap, SelectLocal, ReapLocal, SelectRemote, ReapRemote, ReapEnd, tables
  <2>2. "dead" \in State
    BY DEF State
  <2> QED BY <1>1, <2>1, <2>2, UpdateStatusSameOwners DEF Kill
<1>4. CASE Tick \/ Agents \/ Append \/ Classify \/ Alert \/ Crash \/ Restart
  BY <1>1, <1>4 DEF Tick, Agents, StartAgent, ExitAgent, Hook, Emit, Publish, Append,
     Classify, Alert, Crash, Restart, tables
<1> QED BY <1>2, <1>3, <1>4 DEF Next, Handle

LEMMA ReceiveRows ==
  ASSUME TypeOK, BoardInv, NEW e \in bus, NEW id \in SessionId, Resolve(e, id, sessions')
  PROVE  /\ Unique'
         /\ Exists(sessions', id)
         /\ \A i \in SessionId : Exists(sessions, i) => Exists(sessions', i)
<1>1. sessions \in Table /\ Unique
  BY DEF TypeOK, Table, BoardInv
<1>2. CASE sessions' = sessions /\ Exists(sessions, id)
  BY <1>1, <1>2 DEF Unique
<1>3. CASE sessions' = UpdateIdentity(sessions, id, e.proc) /\ Exists(sessions, id)
  <2>1. \A i \in SessionId : /\ sessions'[i].native = sessions[i].native
                             /\ sessions'[i].status = sessions[i].status
    BY <1>1, <1>3 DEF UpdateIdentity, Table, Row
  <2> QED BY <1>1, <1>3, <2>1 DEF Unique, Exists
<1>4. ASSUME FindSessionByNative(sessions, e.native) = {}, ~Exists(sessions, id), NEW h,
             sessions' = CreateSession(sessions, id, e.native, h, e.ts, e.proc)
      PROVE  /\ Unique' /\ Exists(sessions', id)
             /\ \A i \in SessionId : Exists(sessions, i) => Exists(sessions', i)
  <2>1. /\ sessions'[id].native = e.native /\ Exists(sessions', id)
        /\ \A i \in SessionId \ {id} : sessions'[i] = sessions[i]
    BY <1>1, <1>4 DEF CreateSession, Table, Exists, NoState
  <2>2. e.native \in Native =>
          \A i \in SessionId : Exists(sessions, i) => sessions[i].native # e.native
    BY <1>4, StoreAssumption DEF FindSessionByNative
  <2>3. \A i \in SessionId \ {id} : Exists(sessions', i) <=> Exists(sessions, i)
    BY <2>1 DEF Exists
  <2>4. Unique'
    BY <1>1, <2>1, <2>2, <2>3 DEF Unique
  <2> QED BY <1>4, <2>1, <2>3, <2>4
<1>5. e.sid # NoSession => Exists(sessions, e.sid)
  BY DEF BoardInv, Addressed
<1> QED BY <1>2, <1>3, <1>4, <1>5 DEF Resolve, FindSessionByNative

LEMMA UniqueStep == ASSUME Inv, Exclusive, BoardInv, Next, Markers = {} PROVE Unique'
<1>1. CASE Receive
  <2>1. sessions' = sessions \/ \E e \in bus, id \in SessionId : Resolve(e, id, sessions')
    BY <1>1 DEF Receive
  <2> QED BY <2>1, ReceiveRows DEF Inv, BoardInv, Unique, Exists
<1>2. CASE ~Receive
  BY <1>2, OwnersStep DEF SameOwners, BoardInv, Unique
<1> QED BY <1>1, <1>2

\* What happens to the events that wait: one is published, one goes from the bus to
\* the handler, or some are gone.
LEMMA PendingStep ==
  ASSUME Inv, Exclusive, BoardInv, Next, Markers = {}
  PROVE  \/ \E e \in Event :
              /\ bus' = bus \cup {e} /\ handler' = handler /\ sessions' = sessions
              /\ e.n = seq /\ seq' = seq + 1 /\ seq < MaxEvents /\ e.ts = now
              /\ [kind |-> e.kind, notify |-> e.notify] \in SentSignals
              /\ e.sid # NoSession => Exists(sessions, e.sid)
         \/ \E e \in bus, id \in SessionId :
              /\ bus' = bus \ {e} /\ seq' = seq /\ handler.pc = "rest"
              /\ handler' = [pc |-> "append", ev |-> [e EXCEPT !.sid = id],
                             next |-> NoState]
              /\ Resolve(e, id, sessions')
         \/ /\ Pending' \subseteq Pending /\ bus' \subseteq bus /\ seq' = seq
            /\ handler'.pc # "rest" => handler'.ev = handler.ev /\ handler.pc # "rest"
            /\ handler.pc \notin {"append", "classify", "update"} =>
                 handler'.pc \notin {"append", "classify", "update"}
<1> USE DEF Inv, TypeOK
<1>1. ASSUME NEW nat \in Native, Hook(nat) \/ Emit(nat)
      PROVE  \E e \in Event :
               /\ bus' = bus \cup {e} /\ handler' = handler /\ sessions' = sessions
               /\ e.n = seq /\ seq' = seq + 1 /\ seq < MaxEvents /\ e.ts = now
               /\ [kind |-> e.kind, notify |-> e.notify] \in SentSignals
               /\ e.sid # NoSession => Exists(sessions, e.sid)
  <2>1. CASE Hook(nat)
    <3>1. PICK s \in Signals, p \in Captured(nat) :
            Publish([n |-> seq, sid |-> NoSession, native |-> nat, kind |-> s.kind,
                     notify |-> s.notify, manual |-> NoState, ts |-> now, proc |-> p,
                     host |-> HostOf[nat]])
      BY <2>1 DEF Hook
    <3> DEFINE e == [n |-> seq, sid |-> NoSession, native |-> nat, kind |-> s.kind,
                     notify |-> s.notify, manual |-> NoState, ts |-> now, proc |-> p,
                     host |-> HostOf[nat]]
    <3>2. s \in Signal /\ s = [kind |-> s.kind, notify |-> s.notify]
      BY ManagerAssumption DEF Signal
    <3>3. p \in Proc \cup {NoProc} /\ HostOf[nat] \in Host
      BY ManagerAssumption DEF Captured
    <3>4. e \in Event /\ [kind |-> e.kind, notify |-> e.notify] \in SentSignals
      BY <3>2, <3>3 DEF Event, Signal, SentSignals
    <3> QED BY <3>1, <3>4 DEF Publish, tables
  <2>2. CASE Emit(nat)
    <3>1. PICK s \in Signals, id \in FindSessionByNative(sessions, nat) \cup {NoSession} :
            Publish([n |-> seq, sid |-> id,
                     native |-> IF id = NoSession THEN nat ELSE NoNative,
                     kind |-> s.kind, notify |-> NoNotify, manual |-> NoState,
                     ts |-> now, proc |-> NoProc, host |-> NoHost])
      BY <2>2 DEF Emit
    <3> DEFINE e == [n |-> seq, sid |-> id,
                     native |-> IF id = NoSession THEN nat ELSE NoNative,
                     kind |-> s.kind, notify |-> NoNotify, manual |-> NoState,
                     ts |-> now, proc |-> NoProc, host |-> NoHost]
    <3>2. s \in Signal /\ NoNotify \in NotifyType
      BY ManagerAssumption DEF NotifyType
    <3>3. id \in SessionId \cup {NoSession} /\ (id # NoSession => Exists(sessions, id))
      BY DEF FindSessionByNative
    <3>4. e \in Event /\ [kind |-> e.kind, notify |-> e.notify] \in SentSignals
      BY <3>2, <3>3 DEF Event, Signal, SentSignals
    <3> QED BY <3>1, <3>3, <3>4 DEF Publish, tables
  <2> QED BY <1>1, <2>1, <2>2
<1>2. CASE Receive
  <2>1. handler.pc = "rest"
    BY <1>2 DEF Receive, Exclusive
  <2>2. PICK e \in bus :
          /\ bus' = bus \ {e}
          /\ \/ /\ \E id \in SessionId :
                     /\ Resolve(e, id, sessions')
                     /\ Step("append", [e EXCEPT !.sid = id], NoState)
             \/ UNCHANGED <<sessions, handler>>
    BY <1>2 DEF Receive
  <2>3. seq' = seq
    BY <1>2 DEF Receive, agentVars
  <2>4. CASE \E id \in SessionId : /\ Resolve(e, id, sessions')
                                   /\ Step("append", [e EXCEPT !.sid = id], NoState)
    BY <2>1, <2>2, <2>3, <2>4 DEF Step
  <2>5. CASE UNCHANGED <<sessions, handler>>
    BY <2>1, <2>2, <2>3, <2>5 DEF Pending
  <2> QED BY <2>2, <2>4, <2>5
<1>3. CASE Append \/ Classify \/ Update \/ Alert
  <2>1. bus' = bus /\ seq' = seq
    BY <1>3 DEF Append, Classify, Update, Alert, agentVars
  <2>2. /\ handler.pc # "rest"
        /\ \/ handler'.pc = "rest"
           \/ /\ handler'.ev = handler.ev
              /\ handler.pc \notin {"append", "classify", "update"} =>
                   handler'.pc \notin {"append", "classify", "update"}
    BY <1>3 DEF Append, Classify, Update, Alert, Step, Release, AtRest
  <2> QED BY <2>1, <2>2 DEF Pending
<1>4. CASE \/ Tick \/ Restart
           \/ \E nat \in Native : StartAgent(nat) \/ ExitAgent(nat)
           \/ \E r \in Reapers : Reap(r)
  <2>1. UNCHANGED <<bus, handler, seq>>
    BY <1>4 DEF Tick, Restart, StartAgent, ExitAgent, Reap, SelectLocal, ReapLocal,
       SelectRemote, ReapRemote, ReapEnd, agentVars
  <2> QED BY <2>1 DEF Pending
<1>5. CASE Crash
  BY <1>5 DEF Crash, AtRest, Pending, agentVars
<1> QED BY <1>1, <1>2, <1>3, <1>4, <1>5 DEF Next, Agents, Handle

\* Nothing but the handler's own write changes a row while an event has been judged
\* and not yet written.
LEMMA JudgedStep ==
  ASSUME Inv, Exclusive, BoardInv, Next, Listers = {}, Markers = {}
  PROVE  Judged'
<1> USE DEF Inv, TypeOK
<1>1. CASE Classify
  <2>1. SUFFICES ASSUME handler'.pc = "update" PROVE Judged'
    BY DEF Judged
  <2>2. PICK cur \in State \cup {NoState} :
          /\ cur = CurrentStatus(sessions, handler.ev.sid) \/ cur = NoState
          /\ IF Transition(cur, handler.ev) = NoState
             THEN Release
             ELSE Step("update", handler.ev, Transition(cur, handler.ev))
    BY <1>1 DEF Classify
  <2>3. /\ handler'.ev = handler.ev
        /\ handler'.next = Transition(cur, handler.ev)
        /\ Transition(cur, handler.ev) # NoState
    BY <2>1, <2>2 DEF Release, Step, AtRest
  <2>4. Transition(cur, handler.ev) = Transition(sessions[handler.ev.sid].status, handler.ev)
    BY <2>2, <2>3 DEF Transition, CurrentStatus, NoState
  <2>5. sessions' = sessions
    BY <1>1 DEF Classify, tables
  <2> QED BY <2>3, <2>4, <2>5 DEF Judged
<1>2. CASE Receive \/ Append \/ Update \/ Alert \/ Crash
  <2>1. handler'.pc # "update"
    BY <1>2 DEF Receive, Append, Update, Alert, Crash, Step, Release, AtRest, Exclusive
  <2> QED BY <2>1 DEF Judged
<1>3. CASE Tick \/ Restart \/ Agents
  <2>1. handler' = handler /\ sessions' = sessions
    BY <1>3 DEF Tick, Restart, Agents, StartAgent, ExitAgent, Hook, Emit, Publish, tables
  <2> QED BY <2>1 DEF Judged, BoardInv
<1>4. CASE Reap(Sweeper)
  <2>1. handler' = handler
    BY <1>4 DEF Reap, SelectLocal, ReapLocal, SelectRemote, ReapRemote, ReapEnd
  <2>2. CASE handler.pc # "update"
    BY <2>1, <2>2 DEF Judged
  <2>3. CASE handler.pc = "update"
    <3>1. sweep[Sweeper].pc = "rest"
      BY <2>3 DEF Exclusive
    <3>2. sessions' = sessions
      BY <1>4, <3>1 DEF Reap, SelectLocal, ReapLocal, SelectRemote, ReapRemote, ReapEnd, tables
    <3> QED BY <2>1, <3>2 DEF Judged, BoardInv
  <2> QED BY <2>2, <2>3
<1>5. Reapers = {Sweeper}
  BY DEF Reapers
<1> QED BY <1>1, <1>2, <1>3, <1>4, <1>5 DEF Next, Handle

LEMMA RowsStay ==
  ASSUME Inv, Exclusive, BoardInv, Next, Markers = {}
  PROVE  \A i \in SessionId : Exists(sessions, i) => Exists(sessions', i)
<1>1. CASE Receive
  <2>1. sessions' = sessions \/ \E e \in bus, id \in SessionId : Resolve(e, id, sessions')
    BY <1>1 DEF Receive
  <2> QED BY <2>1, ReceiveRows DEF Inv
<1>2. CASE ~Receive
  BY <1>2, OwnersStep DEF SameOwners
<1> QED BY <1>1, <1>2

LEMMA BoardInvStep ==
  ASSUME Inv, Exclusive, BoardInv, Next, Listers = {}, Markers = {}
  PROVE  BoardInv'
<1> USE DEF Inv, TypeOK
<1>1. Unique' /\ Judged'
  BY UniqueStep, JudgedStep
<1>2. \A i \in SessionId : Exists(sessions, i) => Exists(sessions', i)
  BY RowsStay
<1>3. now' \in 0 .. MaxTime
  <2>1. CASE Tick
    BY <2>1, ManagerAssumption DEF Tick, BoardInv, Bounded
  <2>2. CASE ~Tick
    <3>1. now' = now
      BY <2>2 DEF Next, Agents, StartAgent, ExitAgent, Hook, Emit, Publish, Handle, Receive,
         Append, Classify, Update, Alert, Reap, SelectLocal, ReapLocal, SelectRemote,
         ReapRemote, ReapEnd, Crash, Restart
    <3> QED BY <3>1 DEF BoardInv, Bounded
  <2> QED BY <2>1, <2>2
<1>4. \A e \in bus : e.sid \in SessionId \cup {NoSession}
  BY DEF Event
<1>5. handler.ev.sid \in SessionId \cup {NoSession}
  BY DEF Event
<1>6. ASSUME NEW e \in Event, bus' = bus \cup {e}, handler' = handler, sessions' = sessions,
             e.n = seq, seq' = seq + 1, seq < MaxEvents, e.ts = now,
             [kind |-> e.kind, notify |-> e.notify] \in SentSignals,
             e.sid # NoSession => Exists(sessions, e.sid)
      PROVE  BoardInv'
  <2>1. Pending' = Pending \cup {e}
    BY <1>6 DEF Pending
  <2>2. \A f \in Pending : f.n < seq /\ f.n \in 0 .. MaxEvents - 1
    BY DEF BoardInv, Numbered, Bounded
  <2>3. Addressed'
    BY <1>6 DEF Addressed, BoardInv, Exists
  <2>4. Bounded'
    <3>1. e.n \in 0 .. MaxEvents - 1 /\ e.ts \in 0 .. MaxTime
      BY <1>6, ManagerAssumption DEF Bounded, BoardInv
    <3>2. SentSignals' = SentSignals
      BY DEF SentSignals
    <3> QED BY <1>3, <1>6, <2>1, <3>1, <3>2 DEF Bounded, BoardInv
  <2>5. Numbered'
    <3>1. \A f, g \in Pending : f.n = g.n => f = g
      BY DEF Numbered, BoardInv
    <3>2. \A f \in Pending : f.n # e.n
      BY <1>6, <2>2
    <3>3. \A f \in Pending \cup {e} : f.n < seq + 1
      BY <1>6, <2>2
    <3> QED BY <1>6, <2>1, <3>1, <3>2, <3>3 DEF Numbered
  <2>6. NotTwice'
    <3>1. handler.pc \in {"append", "classify", "update"} => handler.ev \in Pending
      BY DEF Pending
    <3> QED BY <1>6, <2>2, <3>1 DEF NotTwice, BoardInv
  <2> QED BY <1>1, <2>3, <2>4, <2>5, <2>6 DEF BoardInv
<1>7. ASSUME NEW e \in bus, NEW id \in SessionId,
             bus' = bus \ {e}, seq' = seq, handler.pc = "rest",
             handler' = [pc |-> "append", ev |-> [e EXCEPT !.sid = id], next |-> NoState],
             Resolve(e, id, sessions')
      PROVE  BoardInv'
  <2> DEFINE h == [e EXCEPT !.sid = id]
  <2>1. /\ h.n = e.n /\ h.ts = e.ts /\ h.sid = id
        /\ [kind |-> h.kind, notify |-> h.notify] = [kind |-> e.kind, notify |-> e.notify]
    BY DEF Event
  <2>2. handler'.ev = h /\ handler'.pc = "append"
    BY <1>7
  <2> HIDE DEF h
  <2>3. Pending' = (bus \ {e}) \cup {h} /\ Pending = bus
    BY <1>7, <2>2 DEF Pending
  <2>4. id # NoSession /\ Exists(sessions', id)
    BY <1>7, ReceiveRows, ManagerAssumption
  <2>5. Addressed'
    BY <1>2, <1>4, <1>7, <2>1, <2>2, <2>4 DEF Addressed, BoardInv
  <2>6. Bounded'
    BY <1>3, <2>1, <2>3 DEF Bounded, BoardInv
  <2>7. /\ \A f \in bus : f.n < seq
        /\ \A f, g \in bus : f.n = g.n => f = g
    BY <2>3 DEF Numbered, BoardInv
  <2>8. h \notin bus \ {e}
    BY <2>1, <2>7
  <2>9. Numbered'
    BY <1>7, <2>1, <2>3, <2>7 DEF Numbered
  <2>10. NotTwice'
    BY <1>7, <2>2, <2>8 DEF NotTwice
  <2> QED BY <1>1, <2>5, <2>6, <2>9, <2>10 DEF BoardInv
<1>8. ASSUME Pending' \subseteq Pending, bus' \subseteq bus, seq' = seq,
             handler'.pc # "rest" => handler'.ev = handler.ev /\ handler.pc # "rest",
             handler.pc \notin {"append", "classify", "update"} =>
               handler'.pc \notin {"append", "classify", "update"}
      PROVE  BoardInv'
  <2>1. Addressed'
    BY <1>2, <1>4, <1>5, <1>8 DEF Addressed, BoardInv
  <2>2. Bounded'
    BY <1>3, <1>8 DEF Bounded, BoardInv, SentSignals
  <2>3. Numbered'
    BY <1>8 DEF Numbered, BoardInv
  <2>4. NotTwice'
    BY <1>8 DEF NotTwice, BoardInv, Pending
  <2> QED BY <1>1, <2>1, <2>2, <2>3, <2>4 DEF BoardInv
<1> QED BY PendingStep, <1>6, <1>7, <1>8

LEMMA BoardInit == Init => BoardInv /\ Board!Init
<1> SUFFICES ASSUME Init PROVE BoardInv /\ Board!Init
  OBVIOUS
<1>1. \A i \in SessionId : sessions[i] = NoRow /\ ~Exists(sessions, i)
  BY DEF Init, EmptyTable, Exists, NoRow
<1>2. Pending = {} /\ bus = {} /\ handler.pc = "rest"
  BY DEF Init, Pending, AtRest
<1>3. BoardInv
  BY <1>1, <1>2, ManagerAssumption DEF BoardInv, Unique, Addressed, Bounded, Judged, Numbered,
     NotTwice, Init
<1>4. \A nat \in Native : Line(nat) = Board!Blank
  BY <1>1 DEF Line, Rows, Board!Blank, NoState, Board!NoState
<1>5. BoardView = [c \in Native |-> Board!Blank]
  BY <1>4 DEF BoardView
<1>6. InboxView = {}
  BY <1>2 DEF InboxView
<1> QED BY <1>3, <1>5, <1>6 DEF Board!Init

\* As long as no command of a user writes beside the mutex, what the daemon does to
\* the table is what the board promises.
THEOREM BoardCorrect ==
  ASSUME Listers = {}, Markers = {}
  PROVE  Spec => BoardImplemented
<1>1. Init => NoneFinished
  BY SweeperIsReaper DEF Init, NoneFinished, NoSweep, NoMark
<1>2. Inv /\ Exclusive /\ NoneFinished /\ [Next]_vars => NoneFinished'
  <2>1. NoneFinished /\ UNCHANGED vars => NoneFinished'
    BY DEF NoneFinished, vars, tables
  <2> QED BY <2>1, NoneFinishedStep
<1>3. Inv /\ Exclusive /\ BoardInv /\ [Next]_vars => BoardInv'
  <2>1. BoardInv /\ UNCHANGED vars => BoardInv'
    BY DEF BoardInv, Unique, Addressed, Bounded, Judged, Numbered, NotTwice, Pending, Exists,
       SentSignals, vars, agentVars, tables
  <2> QED BY <2>1, BoardInvStep
<1>4. Inv /\ Exclusive /\ NoneFinished /\ BoardInv /\ Inv' /\ BoardInv' /\ [Next]_vars
        => [Board!Next]_<<BoardView, InboxView>>
  BY BoardStep DEF Inv, BoardInv
<1> QED BY <1>1, <1>2, <1>3, <1>4, BoardInit, BaseInductive, PTL
    DEF Spec, BoardImplemented, Board!Spec
=============================================================================
