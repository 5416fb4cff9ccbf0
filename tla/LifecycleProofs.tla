-------------------------- MODULE LifecycleProofs --------------------------
(***************************************************************************)
(* Theorems about Lifecycle, for any number of daemons and clients and any *)
(* drain timeout.                                                          *)
(***************************************************************************)
EXTENDS Lifecycle, TLAPS

-----------------------------------------------------------------------------
(* The type invariant, for one group of actions at a time.                 *)

Typed == TypeOK /\ HandlerHoldsEvent

LEMMA InitType == Init => Typed
<1> SUFFICES ASSUME Init PROVE Typed
  OBVIOUS
<1>1. elapsed \in [Daemon -> 0 .. DrainLimit]
  BY LifecycleAssumption DEF LifecycleAssumption, Init
<1>2. HandlerHoldsEvent
  BY DEF Init, HandlerHoldsEvent, Idle
<1> QED BY <1>1, <1>2 DEF Init, Typed, TypeOK, Token, PC, Idle

LEMMA VanishType ==
  ASSUME Typed, NEW d \in Daemon, Vanish(d)
  PROVE  /\ port' \in Daemon \cup {NoDaemon}
         /\ interest' \in BOOLEAN
         /\ queue' \in [Daemon -> SUBSET Client]
         /\ handler' \in [Daemon -> [pc : {"idle", "taken", "working", "slow"},
                                     msg : Client \cup {NoClient}]]
         /\ sweeper' \in [Daemon -> {"none", "rest", "blocked", "sweeping", "exited"}]
         /\ mu' \in [Daemon -> {"free", "handler", "sweeper"}]
         /\ open' \in [Daemon -> BOOLEAN]
         /\ HandlerHoldsEvent'
<1>1. interest' \in BOOLEAN
  BY Zenon DEF Typed, TypeOK, Vanish
<1> QED BY <1>1 DEF Typed, TypeOK, HandlerHoldsEvent, Vanish, Idle

LEMMA StartUpType == ASSUME Typed, NEW d \in Daemon, StartUp(d) PROVE Typed'
<1> USE DEF Typed, TypeOK, HandlerHoldsEvent, GoTo, PC, Starting, Stopping, Gone, Token, shared, workers, clientVars
<1>1. CASE Start(d)
  BY <1>1 DEF Start
<1>2. CASE LoadToken(d)
  BY <1>2 DEF LoadToken
<1>3. CASE Bind(d)
  <2>1. CASE port = NoDaemon
    BY <1>3, <2>1 DEF Bind
  <2>2. CASE port # NoDaemon
    <3>1. Vanish(d) /\ pc' = [pc EXCEPT ![d] = "exited"]
      BY <1>3, <2>2 DEF Bind
    <3> QED BY <1>3, <3>1, VanishType DEF Bind
  <2> QED BY <2>1, <2>2
<1>4. CASE Subscribe(d)
  BY <1>4 DEF Subscribe
<1>5. CASE Flush(d)
  BY <1>5 DEF Flush
<1>6. CASE TruncateFile(d)
  BY <1>6 DEF TruncateFile
<1>7. CASE WriteFile(d)
  BY <1>7 DEF WriteFile
<1>8. CASE FailToken(d)
  BY <1>8 DEF FailToken
<1> QED BY <1>1, <1>2, <1>3, <1>4, <1>5, <1>6, <1>7, <1>8 DEF StartUp

LEMMA GoroutinesType == ASSUME Typed, NEW d \in Daemon, Goroutines(d) PROVE Typed'
<1> USE DEF Typed, TypeOK, HandlerHoldsEvent, Token, shared, workers, clientVars
<1>1. CASE Take(d)
  BY <1>1 DEF Take
<1>2. CASE Lock(d)
  BY <1>2 DEF Lock
<1>3. CASE Dawdle(d)
  <2>1. elapsed' \in [Daemon -> 0 .. DrainLimit]
    BY <1>3, LifecycleAssumption DEF Dawdle, LifecycleAssumption
  <2> QED BY <1>3, <2>1 DEF Dawdle
<1>4. CASE HandlerDone(d)
  <2>1. handled' \subseteq Client
    BY <1>4 DEF HandlerDone
  <2> QED BY <1>4, <2>1 DEF HandlerDone, Idle
<1>5. CASE TickSweep(d)
  BY <1>5 DEF TickSweep
<1>6. CASE BeginSweep(d)
  BY <1>6 DEF BeginSweep
<1>7. CASE EndSweep(d)
  BY <1>7 DEF EndSweep
<1>8. CASE LeaveSweepLoop(d)
  BY <1>8 DEF LeaveSweepLoop
<1> QED BY <1>1, <1>2, <1>3, <1>4, <1>5, <1>6, <1>7, <1>8 DEF Goroutines

LEMMA SignalType == ASSUME Typed, NEW d \in Daemon, Signal(d) PROVE Typed'
<1> USE DEF Typed, TypeOK, HandlerHoldsEvent, PC, Gone, workers
<1>1. CASE Vanish(d) /\ pc' = [pc EXCEPT ![d] = "killed"] /\ UNCHANGED cancelled
  BY <1>1, VanishType DEF Signal, clientVars
<1>2. CASE /\ cancelled' = [cancelled EXCEPT ![d] = TRUE]
           /\ UNCHANGED <<pc, port, interest, workers, open>>
  BY <1>2 DEF Signal, clientVars
<1> QED BY <1>1, <1>2 DEF Signal

LEMMA ShutDownType == ASSUME Typed, NEW d \in Daemon, ShutDown(d) PROVE Typed'
<1> USE DEF Typed, TypeOK, HandlerHoldsEvent, GoTo, PC, Stopping, Gone, shared, workers, clientVars
<1>1. CASE BeginDrain(d)
  BY <1>1 DEF BeginDrain
<1>2. CASE EndDrain(d)
  BY <1>2 DEF EndDrain
<1>3. CASE CloseBus(d)
  BY <1>3 DEF CloseBus
<1>4. CASE ShutdownServer(d)
  BY <1>4 DEF ShutdownServer
<1>5. CASE CloseStore(d)
  BY <1>5 DEF CloseStore
<1>6. CASE Exit(d)
  BY <1>6, VanishType DEF Exit
<1> QED BY <1>1, <1>2, <1>3, <1>4, <1>5, <1>6 DEF ShutDown

LEMMA ServerType ==
  ASSUME Typed, NEW d \in Daemon, ServerSubscribes(d) \/ ServerUnsubscribes(d) \/ Crash(d)
  PROVE  Typed'
<1> USE DEF Typed, TypeOK, HandlerHoldsEvent, workers, clientVars
<1>1. CASE ServerSubscribes(d) \/ ServerUnsubscribes(d)
  BY <1>1 DEF ServerSubscribes, ServerUnsubscribes
<1>2. CASE Crash(d)
  BY <1>2, VanishType DEF Crash, PC, Gone
<1> QED BY <1>1, <1>2

LEMMA ClientsType == ASSUME Typed, Clients PROVE Typed'
<1> USE DEF Typed, TypeOK, HandlerHoldsEvent, Token, shared, workers
<1>1. PICK c \in Client : ReadToken(c) \/ Connect(c) \/ Publish(c)
  BY DEF Clients
<1> DEFINE Rec == [pc : {"rest", "loaded", "connected", "refused", "dropped", "sent"},
                   token : Daemon \cup {NoToken}, to : Daemon \cup {NoDaemon}]
<1>2. client[c] \in Rec
  OBVIOUS
<1>3. CASE ReadToken(c)
  BY <1>2, <1>3 DEF ReadToken
<1>4. CASE Connect(c)
  <2>1. client' \in [Client -> Rec]
    <3>1. CASE port # NoDaemon /\ client[c].token = token[port]
      BY <1>2, <1>4, <3>1 DEF Connect
    <3>2. CASE ~(port # NoDaemon /\ client[c].token = token[port])
      BY <1>2, <1>4, <3>2 DEF Connect
    <3> QED BY <3>1, <3>2
  <2> QED BY <1>4, <2>1 DEF Connect
<1>5. CASE Publish(c)
  <2>1. CASE port = client[c].to /\ interest
    <3>1. queue' = [queue EXCEPT ![client[c].to] = @ \cup {c}]
      BY <1>5, <2>1 DEF Publish
    <3>2. queue' \in [Daemon -> SUBSET Client]
      BY <1>2, <3>1
    <3>3. client' \in [Client -> Rec]
      BY <1>2, <1>5, <2>1 DEF Publish
    <3> QED BY <1>5, <3>2, <3>3 DEF Publish
  <2>2. CASE ~(port = client[c].to /\ interest)
    <3>1. client' \in [Client -> Rec]
      <4>1. PICK to \in {"dropped", "refused"} : client' = [client EXCEPT ![c].pc = to]
        BY <1>5, <2>2 DEF Publish
      <4> QED BY <1>2, <4>1
    <3> QED BY <1>5, <2>2, <3>1 DEF Publish
  <2> QED BY <2>1, <2>2
<1> QED BY <1>1, <1>3, <1>4, <1>5

LEMMA TypedStep == ASSUME Typed, Next PROVE Typed'
BY StartUpType, GoroutinesType, SignalType, ShutDownType, ServerType, ClientsType DEF Next

\* Every variable keeps its type, in every order of starts, stops, kills and events.
THEOREM TypeCorrect == Spec => []TypeOK
<1>1. Typed /\ UNCHANGED vars => Typed'
  BY DEF vars, shared, workers, clientVars, Typed, TypeOK, HandlerHoldsEvent
<1>2. Typed /\ [Next]_vars => Typed'
  BY <1>1, TypedStep
<1>3. Typed => TypeOK
  BY DEF Typed
<1> QED BY <1>2, <1>3, InitType, PTL DEF Spec

-----------------------------------------------------------------------------
(* The two properties about events.                                        *)

\* The goroutines and the clients leave the server, the file and Run alone.
LEMMA WorkersFrame ==
  ASSUME NEW d \in Daemon, Goroutines(d)
  PROVE  UNCHANGED <<shared, pc, token, cancelled, client, open>>
BY DEF Goroutines, Take, Lock, Dawdle, HandlerDone, TickSweep, BeginSweep, EndSweep,
       LeaveSweepLoop, clientVars

LEMMA ClientsFrame ==
  ASSUME Clients
  PROVE  UNCHANGED <<shared, pc, token, cancelled, handler, elapsed, handled>>
BY DEF Clients, ReadToken, Connect, Publish, workers

LEMMA ServerStep ==
  ASSUME Inv, Next
  PROVE  PortHeld' /\ Routed' /\ WritesItsOwn'
<1> USE DEF Inv, TypeOK, PortHeld, Routed, WritesItsOwn, Fresh, Listening, GoTo, shared
<1>1. ASSUME UNCHANGED <<shared, pc, token>> PROVE PortHeld' /\ Routed' /\ WritesItsOwn'
  BY <1>1
<1>2. CASE Clients \/ \E d \in Daemon : Goroutines(d)
  BY <1>1, <1>2, WorkersFrame, ClientsFrame
<1>3. ASSUME NEW d \in Daemon, StartUp(d) PROVE PortHeld' /\ Routed' /\ WritesItsOwn'
  <2>1. CASE Start(d) \/ LoadToken(d)
    BY <2>1 DEF Start, LoadToken
  <2>2. CASE Bind(d)
    BY <2>2, LifecycleAssumption DEF Bind, Vanish, LifecycleAssumption
  <2>3. CASE Subscribe(d) \/ Flush(d)
    BY <2>3 DEF Subscribe, Flush
  <2>4. CASE TruncateFile(d) \/ WriteFile(d) \/ FailToken(d)
    BY <2>4 DEF TruncateFile, WriteFile, FailToken
  <2> QED BY <1>3, <2>1, <2>2, <2>3, <2>4 DEF StartUp
<1>4. ASSUME NEW d \in Daemon, Signal(d) PROVE PortHeld' /\ Routed' /\ WritesItsOwn'
  BY <1>4, LifecycleAssumption DEF Signal, Vanish, LifecycleAssumption
<1>5. ASSUME NEW d \in Daemon, ShutDown(d) PROVE PortHeld' /\ Routed' /\ WritesItsOwn'
  <2>1. CASE BeginDrain(d) \/ EndDrain(d)
    BY <2>1 DEF BeginDrain, EndDrain
  <2>2. CASE CloseBus(d)
    BY <2>2 DEF CloseBus
  <2>3. CASE ShutdownServer(d)
    BY <2>3, LifecycleAssumption DEF ShutdownServer, LifecycleAssumption
  <2>4. CASE CloseStore(d)
    BY <2>4 DEF CloseStore
  <2>5. CASE Exit(d)
    BY <2>5 DEF Exit, Vanish
  <2> QED BY <1>5, <2>1, <2>2, <2>3, <2>4, <2>5 DEF ShutDown
<1>6. ASSUME NEW d \in Daemon, ServerSubscribes(d) \/ ServerUnsubscribes(d)
      PROVE  PortHeld' /\ Routed' /\ WritesItsOwn'
  BY <1>6 DEF ServerSubscribes, ServerUnsubscribes
<1>7. ASSUME NEW d \in Daemon, Crash(d) PROVE PortHeld' /\ Routed' /\ WritesItsOwn'
  BY <1>7, LifecycleAssumption DEF Crash, Vanish, Gone, LifecycleAssumption
<1> QED BY <1>2, <1>3, <1>4, <1>5, <1>6, <1>7 DEF Next

\* Only its own daemon lets a token out.
LEMMA OutStep ==
  ASSUME Inv, Next, NEW d \in Daemon, Out(d)'
  PROVE  Out(d) \/ (WriteFile(d) /\ Fresh(d))
<1> USE DEF Inv, TypeOK, Out, Fresh, WritesItsOwn
<1>1. CASE UNCHANGED <<file, token, client>>
  BY <1>1
<1>2. CASE Clients
  <2>1. PICK c \in Client : ReadToken(c) \/ Connect(c) \/ Publish(c)
    BY <1>2 DEF Clients
  <2>2. \A x \in Client : client'[x].token \in {client[x].token, file}
    <3>1. CASE ReadToken(c)
      BY <3>1 DEF ReadToken
    <3>2. CASE Connect(c)
      <4>1. CASE port # NoDaemon /\ client[c].token = token[port]
        BY <3>2, <4>1 DEF Connect
      <4>2. CASE ~(port # NoDaemon /\ client[c].token = token[port])
        BY <3>2, <4>2 DEF Connect
      <4> QED BY <4>1, <4>2
    <3>3. CASE Publish(c)
      <4>1. PICK to \in {"sent", "dropped", "refused"} :
              client' = [client EXCEPT ![c].pc = to]
        BY <3>3 DEF Publish
      <4> QED BY <4>1
    <3> QED BY <2>1, <3>1, <3>2, <3>3
  <2>3. UNCHANGED <<file, token>>
    BY <1>2, ClientsFrame DEF shared
  <2> QED BY <2>2, <2>3
<1>3. ASSUME NEW e \in Daemon, StartUp(e) PROVE Out(d) \/ (WriteFile(d) /\ Fresh(d))
  <2>1. CASE LoadToken(e)
    BY <2>1 DEF LoadToken, shared, clientVars
  <2>2. CASE TruncateFile(e)
    BY <2>2, LifecycleAssumption DEF TruncateFile, clientVars, LifecycleAssumption
  <2>3. CASE WriteFile(e)
    BY <2>3 DEF WriteFile, clientVars, GoTo
  <2> QED
    BY <1>1, <1>3, <2>1, <2>2, <2>3 DEF StartUp, Start, Bind, Subscribe, Flush, FailToken,
       shared, clientVars
<1>4. ASSUME NEW e \in Daemon,
             ServerSubscribes(e) \/ Goroutines(e) \/ Signal(e) \/ ShutDown(e)
               \/ ServerUnsubscribes(e) \/ Crash(e)
      PROVE  UNCHANGED <<file, token, client>>
  BY <1>4, WorkersFrame DEF ServerSubscribes, Signal, ShutDown, ServerUnsubscribes, Crash, shared,
     clientVars, BeginDrain, EndDrain, CloseBus, ShutdownServer, CloseStore, Exit
<1> QED BY <1>1, <1>2, <1>3, <1>4 DEF Next

\* Run goes from serving to stopping by a signal, and never back.
LEMMA ServedStep ==
  ASSUME Inv, Next, NEW d \in Daemon
  PROVE  /\ pc[d] \in {"serve"} \cup Stopping \cup Gone =>
              pc'[d] \in {"serve"} \cup Stopping \cup Gone
         /\ cancelled[d] => cancelled'[d]
         /\ pc[d] \in {"serve"} \cup Gone =>
              cancelled'[d] \/ pc'[d] \in {"serve"} \cup Gone
         /\ pc[d] \notin {"off", "load", "bind"} => pc'[d] \notin {"off", "load", "bind"}
         /\ token'[d] # token[d] => pc[d] = "load"
<1> USE DEF Inv, TypeOK, GoTo, PC, Starting, Stopping, Gone
<1>1. CASE UNCHANGED <<pc, token, cancelled>>
  BY <1>1
<1>2. CASE Clients \/ \E e \in Daemon : Goroutines(e)
  BY <1>1, <1>2, WorkersFrame, ClientsFrame
<1>3. CASE \E e \in Daemon : StartUp(e)
  BY <1>3 DEF StartUp, Start, LoadToken, Bind, Subscribe, Flush, TruncateFile, WriteFile,
     FailToken
<1>4. CASE \E e \in Daemon : Signal(e)
  BY <1>4 DEF Signal
<1>5. CASE \E e \in Daemon : ShutDown(e)
  BY <1>5 DEF ShutDown, BeginDrain, EndDrain, CloseBus, ShutdownServer, CloseStore, Exit
<1>6. CASE \E e \in Daemon : ServerSubscribes(e) \/ ServerUnsubscribes(e) \/ Crash(e)
  BY <1>6 DEF ServerSubscribes, ServerUnsubscribes, Crash
<1> QED BY <1>2, <1>3, <1>4, <1>5, <1>6 DEF Next

LEMMA OutMeansServedStep == ASSUME Inv, Next PROVE OutMeansServed'
<1> SUFFICES ASSUME NEW d \in Daemon, Out(d)'
             PROVE  /\ pc'[d] \in {"serve"} \cup Stopping \cup Gone
                    /\ cancelled'[d] \/ pc'[d] \in {"serve"} \cup Gone
  BY DEF OutMeansServed, Out
<1>1. CASE Out(d)
  BY <1>1, ServedStep DEF Inv, OutMeansServed
<1>2. CASE WriteFile(d)
  BY <1>2 DEF WriteFile, GoTo, Inv, TypeOK
<1> QED BY <1>1, <1>2, OutStep

\* A client that publishes only learns what became of its event.
LEMMA PublishStep ==
  ASSUME Inv, NEW c \in Client, Publish(c)
  PROVE  /\ client[c].pc = "connected" /\ client[c].to \in Daemon
         /\ \/ /\ port = client[c].to /\ interest
               /\ queue' = [queue EXCEPT ![client[c].to] = @ \cup {c}]
               /\ client' = [client EXCEPT ![c].pc = "sent"]
            \/ /\ port = client[c].to /\ ~interest
               /\ queue' = queue
               /\ client' = [client EXCEPT ![c].pc = "dropped"]
            \/ /\ port # client[c].to
               /\ queue' = queue
               /\ client' = [client EXCEPT ![c].pc = "refused"]
<1>1. client[c].pc = "connected" /\ client[c].to \in Daemon
  BY DEF Publish, Inv, ClientsShowedToken
<1>2. CASE port = client[c].to /\ interest
  BY <1>1, <1>2 DEF Publish
<1>3. CASE port = client[c].to /\ ~interest
  BY <1>1, <1>3 DEF Publish
<1>4. CASE port # client[c].to
  BY <1>1, <1>4 DEF Publish
<1> QED BY <1>1, <1>2, <1>3, <1>4

\* Only clients change what clients know.
LEMMA ClientKept ==
  ASSUME Inv, Next, ~Clients
  PROVE  client' = client
<1>1. CASE \E d \in Daemon : StartUp(d)
  BY <1>1 DEF StartUp, Start, LoadToken, Bind, Subscribe, Flush, TruncateFile, WriteFile,
     FailToken, clientVars
<1>2. CASE \E d \in Daemon : ShutDown(d)
  BY <1>2 DEF ShutDown, BeginDrain, EndDrain, CloseBus, ShutdownServer, CloseStore, Exit,
     clientVars
<1>3. CASE \E d \in Daemon : ServerSubscribes(d) \/ Signal(d) \/ ServerUnsubscribes(d) \/ Crash(d)
  BY <1>3 DEF ServerSubscribes, Signal, ServerUnsubscribes, Crash, clientVars
<1>4. CASE \E d \in Daemon : Goroutines(d)
  BY <1>4, WorkersFrame
<1> QED BY <1>1, <1>2, <1>3, <1>4 DEF Next

\* What became of an event stays so, or is learnt by publishing it.
LEMMA OutcomeStep ==
  ASSUME Inv, Next, NEW c \in Client, client'[c].pc \in {"sent", "dropped"},
         client'[c] # client[c]
  PROVE  Publish(c) /\ client'[c].to = client[c].to
<1> USE DEF Inv, TypeOK
<1>1. Clients
  BY ClientKept
<1>2. PICK x \in Client : ReadToken(x) \/ Connect(x) \/ Publish(x)
  BY <1>1 DEF Clients
<1>3. CASE ReadToken(x)
  BY <1>3 DEF ReadToken
<1>4. CASE Connect(x)
  <2>1. CASE port # NoDaemon /\ client[x].token = token[port]
    BY <1>4, <2>1 DEF Connect
  <2>2. CASE ~(port # NoDaemon /\ client[x].token = token[port])
    BY <1>4, <2>2 DEF Connect
  <2> QED BY <2>1, <2>2
<1>5. CASE Publish(x)
  <2>1. PICK to \in {"sent", "dropped", "refused"} : client' = [client EXCEPT ![x].pc = to]
    BY <1>5, PublishStep
  <2> QED BY <1>5, <2>1
<1> QED BY <1>2, <1>3, <1>4, <1>5

LEMMA ClientsShowedTokenStep == ASSUME Inv, Next PROVE ClientsShowedToken'
<1> USE DEF Inv, TypeOK, ClientsShowedToken
<1>1. CASE ~Clients
  BY <1>1, ClientKept, ServedStep
<1>2. ASSUME NEW c \in Client, ReadToken(c) PROVE ClientsShowedToken'
  BY <1>2, LifecycleAssumption DEF ReadToken, shared, LifecycleAssumption
<1>3. ASSUME NEW c \in Client, Connect(c) PROVE ClientsShowedToken'
  <2>1. UNCHANGED <<pc, token>>
    BY <1>3 DEF Connect
  <2>2. CASE port # NoDaemon /\ client[c].token = token[port]
    <3>1. client' = [client EXCEPT ![c].pc = "connected", ![c].to = port]
      BY <1>3, <2>2 DEF Connect
    <3>2. port \in Daemon /\ pc[port] \notin {"off", "load", "bind"}
      BY <2>2 DEF PortHeld, Listening
    <3> QED BY <2>1, <2>2, <3>1, <3>2
  <2>3. CASE ~(port # NoDaemon /\ client[c].token = token[port])
    <3>1. client' = [client EXCEPT ![c].pc = "refused"]
      BY <1>3, <2>3 DEF Connect
    <3> QED BY <2>1, <3>1
  <2> QED BY <2>2, <2>3
<1>4. ASSUME NEW c \in Client, Publish(c) PROVE ClientsShowedToken'
  <2>1. PICK to \in {"sent", "dropped", "refused"} : client' = [client EXCEPT ![c].pc = to]
    BY <1>4, PublishStep
  <2>2. UNCHANGED <<pc, token>>
    BY <1>4 DEF Publish
  <2>3. client[c].to \in Daemon
    BY <1>4, PublishStep
  <2> QED BY <2>1, <2>2, <2>3
<1> QED BY <1>1, <1>2, <1>3, <1>4 DEF Clients

\* The drain's clock runs in the drain only.
LEMMA ElapsedStep ==
  ASSUME Inv, Next, NEW d \in Daemon, elapsed'[d] # elapsed[d]
  PROVE  pc[d] = "drain" /\ pc'[d] = "drain"
<1>1. ASSUME NEW e \in Daemon, Dawdle(e) PROVE pc[d] = "drain" /\ pc'[d] = "drain"
  BY <1>1 DEF Dawdle, Inv, TypeOK
<1>2. CASE \E e \in Daemon : StartUp(e)
  BY <1>2 DEF StartUp, Start, LoadToken, Bind, Subscribe, Flush, TruncateFile, WriteFile,
     FailToken
<1>3. CASE \E e \in Daemon : ShutDown(e)
  BY <1>3 DEF ShutDown, BeginDrain, EndDrain, CloseBus, ShutdownServer, CloseStore, Exit
<1>4. CASE \E e \in Daemon : ServerSubscribes(e) \/ Signal(e) \/ ServerUnsubscribes(e) \/ Crash(e)
  BY <1>4 DEF ServerSubscribes, Signal, ServerUnsubscribes, Crash
<1>5. CASE \E e \in Daemon : Goroutines(e)
  BY <1>1, <1>5 DEF Goroutines, Take, Lock, HandlerDone, TickSweep, BeginSweep, EndSweep,
     LeaveSweepLoop
<1>6. CASE Clients
  BY <1>6, ClientsFrame
<1> QED BY <1>2, <1>3, <1>4, <1>5, <1>6 DEF Next

\* How Run gets past the drain.
LEMMA PastStep ==
  ASSUME Inv, Next, NEW d \in Daemon,
         pc'[d] \in (Stopping \ {"drain"}) \cup {"exited"},
         pc[d] \notin (Stopping \ {"drain"}) \cup {"exited"}
  PROVE  \/ EndDrain(d)
         \/ FailToken(d)
         \/ pc[d] = "bind" /\ pc'[d] = "exited"
<1> USE DEF Inv, TypeOK, GoTo, Stopping
<1>1. ASSUME NEW e \in Daemon, Bind(e) PROVE pc[d] = "bind" /\ pc'[d] = "exited"
  BY <1>1 DEF Bind
<1>2. CASE \E e \in Daemon : StartUp(e)
  BY <1>1, <1>2 DEF StartUp, Start, LoadToken, Subscribe, Flush, TruncateFile, WriteFile,
     FailToken
<1>3. CASE \E e \in Daemon : ShutDown(e)
  BY <1>3 DEF ShutDown, BeginDrain, EndDrain, CloseBus, ShutdownServer, CloseStore, Exit
<1>4. CASE \E e \in Daemon : ServerSubscribes(e) \/ Signal(e) \/ ServerUnsubscribes(e) \/ Crash(e)
  BY <1>4 DEF ServerSubscribes, Signal, ServerUnsubscribes, Crash
<1>5. CASE Clients \/ \E e \in Daemon : Goroutines(e)
  BY <1>5, WorkersFrame, ClientsFrame
<1> QED BY <1>2, <1>3, <1>4, <1>5 DEF Next

\* Run's way down, once it has left the drain.
LEMMA DownStep ==
  ASSUME Inv, Next, NEW d \in Daemon, pc[d] \in Gone \cup (Stopping \ {"drain"})
  PROVE  /\ pc'[d] \in Gone \cup (Stopping \ {"drain"})
         /\ pc[d] \notin {"stop", "server"} => pc'[d] \notin {"stop", "server"}
<1> USE DEF Inv, TypeOK, GoTo, Stopping, Gone
<1>1. CASE \E e \in Daemon : StartUp(e)
  BY <1>1 DEF StartUp, Start, LoadToken, Bind, Subscribe, Flush, TruncateFile, WriteFile,
     FailToken
<1>2. CASE \E e \in Daemon : ShutDown(e)
  BY <1>2 DEF ShutDown, BeginDrain, EndDrain, CloseBus, ShutdownServer, CloseStore, Exit
<1>3. CASE \E e \in Daemon : ServerSubscribes(e) \/ Signal(e) \/ ServerUnsubscribes(e) \/ Crash(e)
  BY <1>3 DEF ServerSubscribes, Signal, ServerUnsubscribes, Crash
<1>4. CASE Clients \/ \E e \in Daemon : Goroutines(e)
  BY <1>4, WorkersFrame, ClientsFrame
<1> QED BY <1>1, <1>2, <1>3, <1>4 DEF Next

LEMMA QuietStep == ASSUME Inv, Next PROVE Quiet'
<1> SUFFICES ASSUME NEW d \in Daemon, pc'[d] \in {"stop", "server"},
                    elapsed'[d] < DrainLimit
             PROVE  ~interest' \/ (Fresh(d)' /\ ~Out(d)')
  BY DEF Quiet
<1> USE DEF Inv, TypeOK, GoTo
<1>1. elapsed'[d] = elapsed[d]
  BY ElapsedStep
<1>2. Out(d)' => Out(d)
  BY OutStep DEF WriteFile
<1>3. pc[d] # "load" => token'[d] = token[d]
  BY ServedStep
<1>4. CASE pc[d] \in {"stop", "server"}
  <2>1. ~interest \/ (Fresh(d) /\ ~Out(d))
    BY <1>1, <1>4 DEF Quiet
  <2>2. port = d
    BY <1>4 DEF PortHeld, Listening
  <2>3. interest' => interest
    <3>1. ASSUME NEW e \in Daemon, ServerSubscribes(e) PROVE FALSE
      BY <1>4, <2>2, <3>1 DEF ServerSubscribes
    <3>2. CASE Clients \/ \E e \in Daemon : Goroutines(e)
      BY <3>2, WorkersFrame, ClientsFrame DEF shared
    <3>3. CASE \E e \in Daemon : StartUp(e)
      BY <3>3 DEF StartUp, Start, LoadToken, Bind, Subscribe, Flush, TruncateFile, WriteFile,
         FailToken, Vanish, shared
    <3>4. CASE \E e \in Daemon : Signal(e) \/ ServerUnsubscribes(e) \/ Crash(e)
      BY <3>4 DEF Signal, ServerUnsubscribes, Crash, Vanish
    <3>5. CASE \E e \in Daemon : ShutDown(e)
      BY <3>5 DEF ShutDown, BeginDrain, EndDrain, CloseBus, ShutdownServer, CloseStore, Exit,
         Vanish, shared
    <3> QED BY <3>1, <3>2, <3>3, <3>4, <3>5 DEF Next
  <2> QED BY <1>2, <1>3, <1>4, <2>1, <2>3 DEF Fresh
<1>5. CASE EndDrain(d)
  BY <1>1, <1>5 DEF EndDrain, Drained, shared
<1>6. CASE FailToken(d)
  BY <1>2, <1>3, <1>6 DEF FailToken, WritesItsOwn, OutMeansServed, Fresh, Stopping, Gone
<1> QED BY <1>4, <1>5, <1>6, PastStep, DownStep DEF Stopping, Gone

LEMMA AccountedStep == ASSUME Inv, Next PROVE Accounted'
<1> DEFINE Kept(c, d) == \/ c \in handled \/ c \in queue[d]
                         \/ (handler[d].pc # "idle" /\ handler[d].msg = c)
                         \/ pc[d] \in Gone \cup (Stopping \ {"drain"})
<1> USE DEF Inv, TypeOK
<1>1. ASSUME NEW c \in Client, NEW d \in Daemon, Kept(c, d) PROVE Kept(c, d)'
  <2>1. CASE pc[d] \in Gone \cup (Stopping \ {"drain"})
    BY <2>1, DownStep
  <2>2. CASE Clients
    <3>1. queue[d] \subseteq queue'[d]
      <4>1. ASSUME NEW x \in Client, Publish(x) PROVE queue[d] \subseteq queue'[d]
        <5>1. queue' \in {queue, [queue EXCEPT ![client[x].to] = @ \cup {x}]}
          BY <4>1, PublishStep
        <5> QED BY <5>1
      <4> QED BY <2>2, <4>1 DEF Clients, ReadToken, Connect, workers
    <3> QED BY <1>1, <2>2, <3>1, ClientsFrame
  <2>3. ASSUME NEW e \in Daemon, Goroutines(e) PROVE Kept(c, d)'
    <3>1. CASE Take(e)
      <4>1. PICK x \in queue[e] :
              /\ handler' = [handler EXCEPT ![e] = [pc |-> "taken", msg |-> x]]
              /\ queue' = [queue EXCEPT ![e] = @ \ {x}]
        BY <3>1 DEF Take
      <4>2. handler[e].pc = "idle" /\ handled' = handled /\ pc' = pc
        BY <3>1 DEF Take, clientVars
      <4>3. CASE d = e
        BY <1>1, <4>1, <4>2, <4>3
      <4>4. CASE d # e
        BY <1>1, <4>1, <4>2, <4>4
      <4> QED BY <4>3, <4>4
    <3>2. CASE Lock(e) \/ Dawdle(e)
      <4>1. PICK next \in {"working", "slow"} : handler' = [handler EXCEPT ![e].pc = next]
        BY <3>2 DEF Lock, Dawdle
      <4>2. UNCHANGED <<queue, handled, pc>>
        BY <3>2 DEF Lock, Dawdle, clientVars
      <4>3. handler'[d].msg = handler[d].msg
        BY <4>1
      <4>4. handler[d].pc # "idle" => handler'[d].pc # "idle"
        BY <4>1
      <4> QED BY <1>1, <4>2, <4>3, <4>4
    <3>3. CASE HandlerDone(e)
      BY <1>1, <3>3 DEF HandlerDone
    <3>4. CASE TickSweep(e) \/ BeginSweep(e) \/ EndSweep(e) \/ LeaveSweepLoop(e)
      BY <1>1, <3>4 DEF TickSweep, BeginSweep, EndSweep, LeaveSweepLoop, clientVars
    <3> QED BY <2>3, <3>1, <3>2, <3>3, <3>4 DEF Goroutines
  <2>4. ASSUME NEW e \in Daemon, Vanish(e), pc'[e] \in Gone, handled' = handled,
               \A x \in Daemon \ {e} : pc'[x] = pc[x]
        PROVE  Kept(c, d)'
    BY <1>1, <2>4 DEF Vanish
  <2>5. ASSUME UNCHANGED <<queue, handler, handled>>,
               pc'[d] = pc[d] \/ pc[d] \notin Gone \cup (Stopping \ {"drain"})
        PROVE  Kept(c, d)'
    BY <1>1, <2>5
  <2>6. ASSUME NEW e \in Daemon, StartUp(e) PROVE Kept(c, d)'
    <3>1. CASE Bind(e) /\ port # NoDaemon
      BY <2>4, <3>1 DEF Bind, Gone, clientVars
    <3>2. CASE Bind(e) /\ port = NoDaemon
      BY <1>1, <3>2 DEF Bind, workers, clientVars, Gone, Stopping
    <3> QED
      BY <1>1, <2>1, <2>6, <3>1, <3>2 DEF StartUp, Start, LoadToken, Subscribe, Flush,
         TruncateFile, WriteFile, FailToken, workers, clientVars
  <2>7. ASSUME NEW e \in Daemon, Signal(e) PROVE Kept(c, d)'
    <3>1. CASE Vanish(e)
      BY <1>1, <2>4, <2>7, <3>1 DEF Signal, Gone, clientVars, workers
    <3>2. CASE UNCHANGED <<pc, workers>>
      BY <1>1, <2>7, <3>2 DEF Signal, workers, clientVars
    <3> QED BY <2>7, <3>1, <3>2 DEF Signal
  <2>8. ASSUME NEW e \in Daemon, ShutDown(e) PROVE Kept(c, d)'
    <3>1. CASE Exit(e)
      BY <2>4, <3>1 DEF Exit, Gone, GoTo, clientVars
    <3>2. CASE CloseBus(e)
      BY <1>1, <2>1, <3>2 DEF CloseBus, GoTo, Stopping, clientVars
    <3> QED
      BY <1>1, <2>1, <2>8, <3>1, <3>2 DEF ShutDown, BeginDrain, EndDrain, ShutdownServer,
         CloseStore, workers, clientVars
  <2>9. ASSUME NEW e \in Daemon, Crash(e) PROVE Kept(c, d)'
    BY <2>4, <2>9 DEF Crash, Gone, clientVars
  <2>10. ASSUME NEW e \in Daemon, ServerSubscribes(e) \/ ServerUnsubscribes(e)
         PROVE  Kept(c, d)'
    BY <1>1, <2>10 DEF ServerSubscribes, ServerUnsubscribes, workers, clientVars
  <2> QED BY <2>2, <2>3, <2>6, <2>7, <2>8, <2>9, <2>10 DEF Next
<1> SUFFICES ASSUME NEW c \in Client, client'[c].pc = "sent",
                    NEW d \in Daemon, d = client'[c].to
             PROVE  Kept(c, d)'
  <2>1. ASSUME NEW c \in Client, client'[c].pc = "sent" PROVE client'[c].to \in Daemon
    BY <2>1, ClientsShowedTokenStep DEF ClientsShowedToken
  <2> QED BY <2>1 DEF Accounted
<1>2. CASE client'[c] = client[c]
  BY <1>1, <1>2 DEF Accounted
<1>3. CASE client'[c] # client[c]
  <2>1. Publish(c) /\ client'[c].to = client[c].to
    BY <1>3, OutcomeStep
  <2>2. queue' = [queue EXCEPT ![client[c].to] = @ \cup {c}]
    <3>1. client' # [client EXCEPT ![c].pc = "dropped"] /\ client' # [client EXCEPT ![c].pc = "refused"]
      OBVIOUS
    <3> QED BY <2>1, <3>1, PublishStep
  <2>3. c \in queue'[d]
    BY <2>1, <2>2
  <2> QED BY <2>3
<1> QED BY <1>2, <1>3

LEMMA HandledStep == ASSUME Inv, Next PROVE handled \subseteq handled'
<1>1. ASSUME ~Clients, ~ \E d \in Daemon : Goroutines(d) PROVE handled' = handled
  BY <1>1 DEF Next, StartUp, Start, LoadToken, Bind, Subscribe, Flush, TruncateFile, WriteFile,
     FailToken, ShutDown, BeginDrain, EndDrain, CloseBus, ShutdownServer, CloseStore, Exit,
     ServerSubscribes, Signal, ServerUnsubscribes, Crash, clientVars
<1>2. CASE Clients
  BY <1>2, ClientsFrame
<1>3. CASE \E d \in Daemon : Goroutines(d)
  BY <1>3 DEF Goroutines, Take, Lock, Dawdle, HandlerDone, TickSweep, BeginSweep, EndSweep,
     LeaveSweepLoop, clientVars
<1> QED BY <1>1, <1>2, <1>3

\* A client that reached a daemon with a generated token shows that it is out.
LEMMA ReachedIsOut ==
  ASSUME Inv, NEW c \in Client, client[c].to \in Daemon, Fresh(client[c].to)
  PROVE  Out(client[c].to)
BY DEF Inv, ClientsShowedToken, Fresh, Out

LEMMA FreshStartStep == ASSUME Inv, Next PROVE FreshStartDropsNothing'
<1> USE DEF Inv, TypeOK
<1> SUFFICES ASSUME NEW c \in Client, client'[c].pc = "dropped",
                    NEW d \in Daemon, d = client'[c].to, Fresh(d)'
             PROVE  cancelled'[d]
  <2>1. ASSUME NEW c \in Client, client'[c].pc = "dropped" PROVE client'[c].to \in Daemon
    BY <2>1, ClientsShowedTokenStep DEF ClientsShowedToken
  <2> QED BY <2>1 DEF FreshStartDropsNothing, Fresh
<1>1. CASE client'[c] = client[c]
  <2>1. Fresh(d)
    BY <1>1, ServedStep DEF ClientsShowedToken, Fresh
  <2>2. cancelled[d]
    BY <1>1, <2>1 DEF FreshStartDropsNothing
  <2> QED BY <2>2, ServedStep
<1>2. CASE client'[c] # client[c]
  <2>1. Publish(c) /\ client[c].to = d
    BY <1>2, OutcomeStep
  <2>2. port = d /\ ~interest
    <3>1. client' # [client EXCEPT ![c].pc = "sent"] /\ client' # [client EXCEPT ![c].pc = "refused"]
      OBVIOUS
    <3> QED BY <2>1, <3>1, PublishStep
  <2>3. Fresh(d) /\ cancelled' = cancelled
    BY <2>1 DEF Publish, Fresh
  <2>4. cancelled[d] \/ pc[d] \in {"serve"} \cup Gone
    BY <2>1, <2>3, ReachedIsOut DEF OutMeansServed
  <2>5. pc[d] \notin {"serve"} \cup Gone
    BY <2>2 DEF PortHeld, Listening, Routed, Gone
  <2> QED BY <2>3, <2>4, <2>5
<1> QED BY <1>1, <1>2

LEMMA GracefulStopStep == ASSUME Inv, Next PROVE GracefulStopLosesNothing'
<1> DEFINE Past == (Stopping \ {"drain"}) \cup {"exited"}
<1> USE DEF Inv, TypeOK
<1> SUFFICES ASSUME NEW c \in Client, client'[c].pc = "sent",
                    NEW d \in Daemon, d = client'[c].to,
                    pc'[d] \in Past, elapsed'[d] < DrainLimit
             PROVE  c \in handled'
  <2>1. ASSUME NEW c \in Client, client'[c].pc = "sent" PROVE client'[c].to \in Daemon
    BY <2>1, ClientsShowedTokenStep DEF ClientsShowedToken
  <2> QED BY <2>1 DEF GracefulStopLosesNothing
<1>1. elapsed[d] = elapsed'[d]
  BY ElapsedStep DEF Stopping
<1>2. CASE client'[c] = client[c]
  <2>1. CASE pc[d] \in Past
    BY <1>1, <1>2, <2>1, HandledStep DEF GracefulStopLosesNothing
  <2>2. CASE EndDrain(d)
    <3>1. queue[d] = {} /\ handler[d].pc = "idle" /\ pc[d] = "drain"
      BY <1>1, <2>2 DEF EndDrain, Drained, GoTo
    <3>2. c \in handled
      BY <1>2, <3>1 DEF Accounted, Gone, Stopping
    <3> QED BY <3>2, HandledStep
  <2>3. CASE FailToken(d)
    <3>1. Fresh(d) /\ pc[d] \in {"truncate", "write"}
      BY <2>3 DEF FailToken, WritesItsOwn
    <3>2. Out(d)
      BY <1>2, <3>1, ReachedIsOut
    <3> QED BY <3>1, <3>2 DEF OutMeansServed, Stopping, Gone
  <2>4. pc[d] # "bind"
    BY <1>2 DEF ClientsShowedToken
  <2> QED BY <2>1, <2>2, <2>3, <2>4, PastStep
<1>3. CASE client'[c] # client[c]
  <2>1. Publish(c) /\ client[c].to = d
    BY <1>3, OutcomeStep
  <2>2. port = d /\ interest
    <3>1. client' # [client EXCEPT ![c].pc = "dropped"] /\ client' # [client EXCEPT ![c].pc = "refused"]
      OBVIOUS
    <3> QED BY <2>1, <3>1, PublishStep
  <2>3. pc[d] \in {"stop", "server"}
    BY <2>1, <2>2 DEF Publish, PortHeld, Listening, Stopping
  <2>4. Fresh(d) /\ ~Out(d)
    BY <1>1, <2>2, <2>3 DEF Quiet
  <2> QED BY <2>1, <2>4, ReachedIsOut
<1> QED BY <1>2, <1>3

\* The invariant holds at the start, and every step keeps it.
LEMMA InvInductive == /\ Init => Inv
                      /\ Inv /\ [Next]_vars => Inv'
<1>1. Init => Inv
  <2> SUFFICES ASSUME Init PROVE Inv
    OBVIOUS
  <2> USE LifecycleAssumption DEF Init
  <2>1. TypeOK /\ HandlerHoldsEvent
    BY InitType DEF Typed
  <2>2. PortHeld /\ Routed /\ WritesItsOwn /\ Quiet
    BY DEF PortHeld, Routed, WritesItsOwn, Quiet, Listening, LifecycleAssumption
  <2>3. OutMeansServed
    BY DEF OutMeansServed, Out, LifecycleAssumption
  <2>4. ClientsShowedToken /\ Accounted /\ FreshStartDropsNothing /\ GracefulStopLosesNothing
    BY DEF ClientsShowedToken, Accounted, FreshStartDropsNothing, GracefulStopLosesNothing,
       LifecycleAssumption
  <2> QED BY <2>1, <2>2, <2>3, <2>4 DEF Inv
<1>2. ASSUME Inv, Next PROVE Inv'
  <2>1. TypeOK' /\ HandlerHoldsEvent'
    BY <1>2, TypedStep DEF Inv, Typed
  <2> QED
    BY <1>2, <2>1, ServerStep, OutMeansServedStep, ClientsShowedTokenStep, QuietStep,
       AccountedStep, FreshStartStep, GracefulStopStep DEF Inv
<1>3. ASSUME Inv, UNCHANGED vars PROVE Inv'
  BY <1>3 DEF vars, shared, workers, clientVars, Inv, TypeOK, HandlerHoldsEvent, PortHeld,
     Routed, WritesItsOwn, OutMeansServed, Out, ClientsShowedToken, Quiet, Accounted,
     FreshStartDropsNothing, GracefulStopLosesNothing, Fresh
<1> QED BY <1>1, <1>2, <1>3

\* A daemon that starts with a token of its own drops no event whose client read
\* the token, unless it has been told to stop (daemon.go, Run).
THEOREM FreshStartCorrect == Spec => []FreshStartDropsNothing
<1>1. Inv => FreshStartDropsNothing
  BY DEF Inv
<1> QED BY <1>1, InvInductive, PTL DEF Spec

\* Who changes the file holds the port, and is about to serve.
LEMMA FileStep ==
  ASSUME Inv, Next, file' # file
  PROVE  pc[port] \in {"truncate", "write"}
<1>1. PICK e \in Daemon : TruncateFile(e) \/ WriteFile(e)
  BY DEF Next, StartUp, ServerSubscribes, Goroutines, Signal, ShutDown, ServerUnsubscribes, Crash,
     Clients, Start, LoadToken, Bind, Subscribe, Flush, FailToken, Take, Lock, Dawdle, HandlerDone,
     TickSweep, BeginSweep, EndSweep, LeaveSweepLoop, BeginDrain, EndDrain, CloseBus,
     ShutdownServer, CloseStore, Exit, ReadToken, Connect, Publish, shared
<1>2. pc[e] \in {"truncate", "write"}
  BY <1>1 DEF TruncateFile, WriteFile, GoTo
<1>3. port = e
  BY <1>2 DEF Inv, PortHeld, Listening
<1> QED BY <1>2, <1>3

\* A daemon begins to serve with its own token when it writes it, and keeps its token.
LEMMA ServesStep ==
  ASSUME Inv, Next, NEW d \in Daemon, pc'[d] = "serve", Fresh(d)'
  PROVE  (pc[d] = "serve" /\ Fresh(d)) \/ file' = d
<1> USE DEF Inv, TypeOK
<1>1. CASE pc[d] = "serve"
  <2>1. token'[d] = token[d]
    BY <1>1 DEF Next, StartUp, ServerSubscribes, Goroutines, Signal, ShutDown, ServerUnsubscribes,
     Crash, Clients, Start, LoadToken, Bind, Subscribe, Flush, TruncateFile, WriteFile, FailToken,
     Take, Lock, Dawdle, HandlerDone, TickSweep, BeginSweep, EndSweep, LeaveSweepLoop, BeginDrain,
     EndDrain, CloseBus, ShutdownServer, CloseStore, Exit, ReadToken, Connect, Publish, GoTo
  <2> QED BY <1>1, <2>1 DEF Fresh
<1>2. CASE pc[d] # "serve"
  <2>1. WriteFile(d) \/ (Flush(d) /\ ~Fresh(d))
    <3> USE <1>2 DEF GoTo
    <3>1. ASSUME NEW e \in Daemon, StartUp(e) PROVE WriteFile(d) \/ (Flush(d) /\ ~Fresh(d))
      <4>1. CASE WriteFile(e)
        BY <4>1 DEF WriteFile
      <4>2. CASE Flush(e)
        BY <4>2 DEF Flush
      <4>3. CASE Start(e) \/ LoadToken(e) \/ Bind(e) \/ Subscribe(e) \/ TruncateFile(e) \/ FailToken(e)
        BY <4>3 DEF Start, LoadToken, Bind, Subscribe, TruncateFile, FailToken
      <4> QED BY <3>1, <4>1, <4>2, <4>3 DEF StartUp
    <3>2. CASE \E e \in Daemon : ShutDown(e)
      BY <3>2 DEF ShutDown, BeginDrain, EndDrain, CloseBus, ShutdownServer, CloseStore, Exit
    <3>3. CASE \E e \in Daemon : ServerSubscribes(e) \/ Signal(e) \/ ServerUnsubscribes(e) \/ Crash(e)
      BY <3>3 DEF ServerSubscribes, Signal, ServerUnsubscribes, Crash
    <3>4. CASE Clients \/ \E e \in Daemon : Goroutines(e)
      BY <3>4, WorkersFrame, ClientsFrame
    <3> QED BY <3>1, <3>2, <3>3, <3>4 DEF Next
  <2>2. token'[d] = d
    BY DEF Fresh
  <2>3. token' = token
    BY <2>1 DEF WriteFile, Flush
  <2>4. WriteFile(d)
    BY <2>1, <2>2, <2>3 DEF Fresh
  <2> QED BY <2>2, <2>3, <2>4 DEF WriteFile
<1> QED BY <1>1, <1>2

\* A daemon that serves with a token of its own has it in the file, whatever other
\* daemons generate, write or fail to write (daemon.go, Run).
THEOREM TokenReadableCorrect == Spec => []ServedTokenReadable
<1>1. Init => ServedTokenReadable
  BY DEF Init, ServedTokenReadable
<1>2. Inv /\ ServedTokenReadable /\ [Next]_vars => ServedTokenReadable'
  <2>1. ASSUME Inv, ServedTokenReadable, Next PROVE ServedTokenReadable'
    <3> SUFFICES ASSUME NEW d \in Daemon, pc'[d] = "serve", Fresh(d)'
                 PROVE  file' = d
      BY DEF ServedTokenReadable
    <3>1. CASE file' = file
      BY <2>1, <3>1, ServesStep DEF ServedTokenReadable
    <3>2. CASE file' # file
      <4>1. pc[port] \in {"truncate", "write"}
        BY <2>1, <3>2, FileStep
      <4>2. CASE pc[d] = "serve"
        <5>1. port = d
          BY <2>1, <4>2 DEF Inv, PortHeld, Listening
        <5> QED BY <4>1, <4>2, <5>1
      <4>3. CASE pc[d] # "serve"
        BY <2>1, <4>3, ServesStep
      <4> QED BY <4>2, <4>3
    <3> QED BY <3>1, <3>2
  <2>2. ASSUME ServedTokenReadable, UNCHANGED vars PROVE ServedTokenReadable'
    BY <2>2 DEF vars, shared, ServedTokenReadable, Fresh
  <2> QED BY <2>1, <2>2
<1> QED BY <1>1, <1>2, InvInductive, PTL DEF Spec

\* A stop within the drain timeout handles every event the server had accepted
\* (bus.go, Drain).
THEOREM GracefulStopCorrect == Spec => []GracefulStopLosesNothing
<1>1. Inv => GracefulStopLosesNothing
  BY DEF Inv
<1> QED BY <1>1, InvInductive, PTL DEF Spec
-----------------------------------------------------------------------------
(* The store is open while it is used.                                      *)

\* Run's own steps, the server's and the signals only take work away.
LEMMA RunTakesAway ==
  ASSUME Inv, Next, ~Clients, NEW d \in Daemon, \A e \in Daemon : ~Goroutines(e)
  PROVE  queue'[d] \subseteq queue[d] /\ handler'[d] \in {handler[d], Idle}
<1> USE DEF Inv, TypeOK
<1>1. CASE \E e \in Daemon : StartUp(e)
  BY <1>1 DEF StartUp, Start, LoadToken, Bind, Subscribe, Flush, TruncateFile, WriteFile,
     FailToken, Vanish, workers
<1>2. CASE \E e \in Daemon : ShutDown(e)
  BY <1>2 DEF ShutDown, BeginDrain, EndDrain, CloseBus, ShutdownServer, CloseStore, Exit,
     Vanish, workers
<1>3. CASE \E e \in Daemon : ServerSubscribes(e) \/ Signal(e) \/ ServerUnsubscribes(e) \/ Crash(e)
  BY <1>3 DEF ServerSubscribes, Signal, ServerUnsubscribes, Crash, Vanish, workers
<1> QED BY <1>1, <1>2, <1>3 DEF Next

\* What a goroutine does to the queue and the handler of its daemon.
LEMMA GoroutineWork ==
  ASSUME Inv, NEW e \in Daemon, Goroutines(e), NEW d \in Daemon
  PROVE  \/ queue'[d] = queue[d] /\ handler'[d] = handler[d]
         \/ queue'[d] = queue[d] /\ handler'[d] = Idle
         \/ /\ queue'[d] = queue[d]
            /\ handler[d].pc # "idle" /\ handler'[d].msg = handler[d].msg
         \/ /\ Take(d)
            /\ queue'[d] \subseteq queue[d] /\ handler'[d].msg \in queue[d]
<1> USE DEF Inv, TypeOK
<1>1. CASE Take(e)
  <2>1. PICK x \in queue[e] :
          /\ handler' = [handler EXCEPT ![e] = [pc |-> "taken", msg |-> x]]
          /\ queue' = [queue EXCEPT ![e] = @ \ {x}]
    BY <1>1 DEF Take
  <2>2. CASE d = e
    BY <1>1, <2>1, <2>2
  <2>3. CASE d # e
    BY <2>1, <2>3
  <2> QED BY <2>2, <2>3
<1>2. CASE Lock(e) \/ Dawdle(e)
  <2>1. PICK next \in {"working", "slow"} : handler' = [handler EXCEPT ![e].pc = next]
    BY <1>2 DEF Lock, Dawdle
  <2>2. queue' = queue /\ handler[e].pc # "idle"
    BY <1>2 DEF Lock, Dawdle
  <2> QED BY <2>1, <2>2
<1>3. CASE HandlerDone(e)
  BY <1>3 DEF HandlerDone
<1>4. CASE TickSweep(e) \/ BeginSweep(e) \/ EndSweep(e) \/ LeaveSweepLoop(e)
  BY <1>4 DEF TickSweep, BeginSweep, EndSweep, LeaveSweepLoop
<1> QED BY <1>1, <1>2, <1>3, <1>4 DEF Goroutines

\* An event enters a queue by being published to a daemon that listens and routes.
LEMMA ClientWork ==
  ASSUME Inv, Clients, NEW d \in Daemon
  PROVE  /\ handler' = handler
         /\ \A c \in Client : client[c].to \in Daemon => client'[c].to = client[c].to
         /\ \/ queue'[d] = queue[d]
            \/ \E c \in Client : /\ client[c].to = d /\ port = d /\ interest
                                 /\ queue'[d] = queue[d] \cup {c}
<1> USE DEF Inv, TypeOK
<1>1. PICK x \in Client : ReadToken(x) \/ Connect(x) \/ Publish(x)
  BY DEF Clients
<1>2. CASE ReadToken(x)
  BY <1>2 DEF ReadToken, workers
<1>3. CASE Connect(x)
  <2>1. client[x].to \notin Daemon
    BY <1>3, LifecycleAssumption DEF Connect, ClientsShowedToken, LifecycleAssumption
  <2>2. \A c \in Client \ {x} : client'[c] = client[c]
    <3>1. CASE port # NoDaemon /\ client[x].token = token[port]
      BY <1>3, <3>1 DEF Connect
    <3>2. CASE ~(port # NoDaemon /\ client[x].token = token[port])
      BY <1>3, <3>2 DEF Connect
    <3> QED BY <3>1, <3>2
  <2> QED BY <1>3, <2>1, <2>2 DEF Connect, workers
<1>4. CASE Publish(x)
  <2>1. PICK to \in {"sent", "dropped", "refused"} : client' = [client EXCEPT ![x].pc = to]
    BY <1>4, PublishStep
  <2>2. \A c \in Client : client'[c].to = client[c].to
    BY <2>1
  <2>3. \/ queue' = queue
        \/ port = client[x].to /\ interest /\ queue' = [queue EXCEPT ![client[x].to] = @ \cup {x}]
    BY <1>4, PublishStep
  <2>4. queue'[d] = queue[d] \/ (client[x].to = d /\ port = d /\ interest
                                  /\ queue'[d] = queue[d] \cup {x})
    BY <2>3
  <2> QED BY <1>4, <2>2, <2>4 DEF Publish
<1> QED BY <1>1, <1>2, <1>3, <1>4

LEMMA OriginStep == ASSUME Inv, Origin, Next PROVE Origin'
<1> USE DEF Inv, TypeOK, HandlerHoldsEvent, Origin
<1> SUFFICES ASSUME NEW d \in Daemon
             PROVE  /\ \A c \in queue'[d] : client'[c].to = d
                    /\ handler'[d].pc # "idle" => client'[handler'[d].msg].to = d
  OBVIOUS
<1>1. CASE Clients
  BY <1>1, ClientWork
<1>2. ASSUME NEW e \in Daemon, Goroutines(e)
      PROVE  /\ \A c \in queue'[d] : client'[c].to = d
             /\ handler'[d].pc # "idle" => client'[handler'[d].msg].to = d
  <2>1. client' = client
    BY <1>2, WorkersFrame
  <2>2. queue'[d] \subseteq queue[d]
    BY <1>2, GoroutineWork
  <2>3. \/ handler'[d].pc = "idle"
        \/ handler[d].pc # "idle" /\ handler'[d].msg = handler[d].msg
        \/ handler'[d].msg \in queue[d]
    <3>1. handler'[d] = handler[d] => handler'[d].msg = handler[d].msg
      OBVIOUS
    <3> QED BY <1>2, <3>1, GoroutineWork DEF Idle
  <2> QED BY <2>1, <2>2, <2>3
<1>3. CASE ~Clients /\ \A e \in Daemon : ~Goroutines(e)
  BY <1>3, RunTakesAway, ClientKept DEF Idle
<1> QED BY <1>1, <1>2, <1>3

LEMMA SweepServesStep == ASSUME Inv, SweepServes, Next PROVE SweepServes'
<1> USE DEF Inv, TypeOK, SweepServes, GoTo
<1>1. CASE Clients
  BY <1>1 DEF Clients, ReadToken, Connect, Publish, workers
<1>2. CASE \E e \in Daemon : Goroutines(e)
  BY <1>2 DEF Goroutines, Take, Lock, Dawdle, HandlerDone, TickSweep, BeginSweep, EndSweep,
     LeaveSweepLoop
<1>3. CASE \E e \in Daemon : StartUp(e)
  BY <1>3 DEF StartUp, Start, LoadToken, Bind, Subscribe, Flush, TruncateFile, WriteFile,
     FailToken, Vanish, workers
<1>4. CASE \E e \in Daemon : ShutDown(e)
  BY <1>4 DEF ShutDown, BeginDrain, EndDrain, CloseBus, ShutdownServer, CloseStore, Exit,
     Vanish, workers
<1>5. CASE \E e \in Daemon : ServerSubscribes(e) \/ Signal(e) \/ ServerUnsubscribes(e) \/ Crash(e)
  BY <1>5 DEF ServerSubscribes, Signal, ServerUnsubscribes, Crash, Vanish, workers
<1> QED BY <1>1, <1>2, <1>3, <1>4, <1>5 DEF Next

LEMMA OpenWhileUpStep == ASSUME Inv, OpenWhileUp, Next PROVE OpenWhileUp'
<1> USE DEF Inv, TypeOK, OpenWhileUp, GoTo, Gone
<1>1. CASE Clients
  BY <1>1 DEF Clients, ReadToken, Connect, Publish
<1>2. CASE \E e \in Daemon : Goroutines(e)
  BY <1>2, WorkersFrame
<1>3. CASE \E e \in Daemon : StartUp(e)
  BY <1>3 DEF StartUp, Start, LoadToken, Bind, Subscribe, Flush, TruncateFile, WriteFile,
     FailToken, Vanish
<1>4. CASE \E e \in Daemon : ShutDown(e)
  BY <1>4 DEF ShutDown, BeginDrain, EndDrain, CloseBus, ShutdownServer, CloseStore, Exit,
     Vanish
<1>5. CASE \E e \in Daemon : ServerSubscribes(e) \/ Signal(e) \/ ServerUnsubscribes(e) \/ Crash(e)
  BY <1>5 DEF ServerSubscribes, Signal, ServerUnsubscribes, Crash, Vanish
<1> QED BY <1>1, <1>2, <1>3, <1>4, <1>5 DEF Next

\* A process that is gone has left nothing.
LEMMA GoneStep ==
  ASSUME Inv, Next, NEW d \in Daemon, pc'[d] \in {"off"} \cup Gone
  PROVE  pc'[d] = pc[d] \/ (queue'[d] = {} /\ handler'[d] = Idle)
<1> USE DEF Inv, TypeOK, GoTo, Gone
<1>1. CASE Clients \/ \E e \in Daemon : Goroutines(e)
  BY <1>1, WorkersFrame, ClientsFrame
<1>2. CASE \E e \in Daemon : StartUp(e)
  BY <1>2 DEF StartUp, Start, LoadToken, Bind, Subscribe, Flush, TruncateFile, WriteFile,
     FailToken, Vanish
<1>3. CASE \E e \in Daemon : ShutDown(e)
  BY <1>3 DEF ShutDown, BeginDrain, EndDrain, CloseBus, ShutdownServer, CloseStore, Exit,
     Vanish
<1>4. CASE \E e \in Daemon : ServerSubscribes(e) \/ Signal(e) \/ ServerUnsubscribes(e) \/ Crash(e)
  BY <1>4 DEF ServerSubscribes, Signal, ServerUnsubscribes, Crash, Vanish
<1> QED BY <1>1, <1>2, <1>3, <1>4 DEF Next

\* Nothing comes to a daemon that is empty and does not listen or is past its drain.
LEMMA EmptyStays ==
  ASSUME Inv, Next, NEW d \in Daemon, queue[d] = {}, handler[d].pc = "idle",
         \/ pc[d] \in {"off"} \cup Gone
         \/ pc[d] \in Stopping \ {"drain"} /\ elapsed[d] < DrainLimit
  PROVE  queue'[d] = {} /\ handler'[d].pc = "idle"
<1> USE DEF Inv, TypeOK
<1>1. CASE Clients
  <2>1. ASSUME NEW c \in Client, client[c].to = d, port = d, interest PROVE FALSE
    <3>1. pc[d] \in {"stop", "server"} /\ elapsed[d] < DrainLimit
      BY <2>1 DEF PortHeld, Listening, Stopping, Gone
    <3>2. Fresh(d) /\ ~Out(d)
      BY <2>1, <3>1 DEF Quiet
    <3> QED BY <2>1, <3>2, ReachedIsOut
  <2> QED BY <1>1, <2>1, ClientWork
<1>2. ASSUME NEW e \in Daemon, Goroutines(e)
      PROVE  queue'[d] = {} /\ handler'[d].pc = "idle"
  BY <1>2, GoroutineWork DEF Idle
<1>3. CASE ~Clients /\ \A e \in Daemon : ~Goroutines(e)
  BY <1>3, RunTakesAway DEF Idle
<1> QED BY <1>1, <1>2, <1>3

LEMMA NoneLeftStep == ASSUME Inv, Origin, NoneLeft, Next PROVE NoneLeft'
<1> USE DEF Inv, TypeOK
<1> SUFFICES ASSUME NEW d \in Daemon,
                    \/ pc'[d] \in {"off"} \cup Gone
                    \/ pc'[d] \in Stopping \ {"drain"} /\ elapsed'[d] < DrainLimit
             PROVE  queue'[d] = {} /\ handler'[d].pc = "idle"
  BY DEF NoneLeft
<1>1. CASE pc'[d] \in {"off"} \cup Gone
  <2>1. CASE pc'[d] = pc[d]
    BY <1>1, <2>1, EmptyStays DEF NoneLeft
  <2> QED BY <1>1, <2>1, GoneStep DEF Idle
<1>2. CASE pc'[d] \in Stopping \ {"drain"} /\ elapsed'[d] < DrainLimit
  <2>1. elapsed'[d] = elapsed[d]
    BY <1>2, ElapsedStep
  <2>2. CASE pc[d] \in (Stopping \ {"drain"}) \cup {"exited"}
    BY <1>2, <2>1, <2>2, EmptyStays DEF NoneLeft, Gone
  <2>3. CASE EndDrain(d)
    BY <1>2, <2>1, <2>3 DEF EndDrain, Drained, workers
  <2>4. CASE FailToken(d)
    <3>1. Fresh(d) /\ ~Out(d)
      BY <2>4 DEF FailToken, WritesItsOwn, OutMeansServed, Stopping, Gone
    <3>2. queue[d] = {} /\ handler[d].pc = "idle"
      BY <3>1, ReachedIsOut DEF Origin, HandlerHoldsEvent
    <3> QED BY <2>4, <3>2 DEF FailToken, workers
  <2> QED BY <1>2, <2>2, <2>3, <2>4, PastStep DEF Stopping
<1> QED BY <1>1, <1>2

\* The sweep always finds the store open, and so does the handler as long as the drain
\* has not run into its timeout (daemon.go, Run).
THEOREM StoreOpenCorrect == Spec => []NoUseAfterClose
<1>1. Init => StoreHeld
  BY DEF Init, StoreHeld, Origin, SweepServes, OpenWhileUp, NoneLeft, Idle, Stopping, Gone
<1>2. Inv /\ StoreHeld /\ [Next]_vars => StoreHeld'
  <2>1. ASSUME Inv, StoreHeld, Next PROVE StoreHeld'
    BY <2>1, OriginStep, SweepServesStep, OpenWhileUpStep, NoneLeftStep DEF StoreHeld
  <2>2. ASSUME StoreHeld, UNCHANGED vars PROVE StoreHeld'
    BY <2>2 DEF vars, shared, workers, clientVars, StoreHeld, Origin, SweepServes, OpenWhileUp,
       NoneLeft
  <2> QED BY <2>1, <2>2
<1>3. Inv /\ StoreHeld => NoUseAfterClose
  <2> SUFFICES ASSUME Inv, StoreHeld, NEW d \in Daemon
               PROVE  /\ sweeper[d] = "sweeping" => open[d]
                      /\ handler[d].pc \in {"working", "slow"} /\ elapsed[d] < DrainLimit => open[d]
    BY DEF NoUseAfterClose
  <2>1. sweeper[d] = "sweeping" => open[d]
    BY DEF StoreHeld, SweepServes, OpenWhileUp, Gone
  <2>2. ASSUME handler[d].pc \in {"working", "slow"}, elapsed[d] < DrainLimit PROVE open[d]
    BY <2>2 DEF StoreHeld, NoneLeft, OpenWhileUp, Stopping, Gone
  <2> QED BY <2>1, <2>2
<1> QED BY <1>1, <1>2, <1>3, InvInductive, PTL DEF Spec
=============================================================================
