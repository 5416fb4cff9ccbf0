----------------------------- MODULE Lifecycle -----------------------------
(***************************************************************************)
(* How `sm daemon` comes up and goes down (daemon.Run), and what a client   *)
(* that publishes an event meanwhile can observe (hook.publish, cli.Emit).  *)
(*                                                                         *)
(* Starting: open the store, load the token or generate one, bind the port *)
(* with an embedded NATS server, subscribe, flush, and only then write a    *)
(* generated token to its file, which tells clients that the bus is ready.  *)
(* Stopping: wait for the sweep loop, drain the bus, and let the deferred    *)
(* calls close the connection, the server and the store.                   *)
(*                                                                         *)
(* Every start is a process of its own, a member of Daemon, so two members *)
(* are a restart or two rivals.  A generated token is named after the       *)
(* process that generated it.  What the handler and the sweep do to the     *)
(* store is the subject of Manager; here they only hold it open.            *)
(***************************************************************************)
EXTENDS Naturals, FiniteSets

CONSTANTS
  Daemon, NoDaemon,  \* `sm daemon` processes
  NoToken,           \* the empty token: what a missing or truncated file reads as
  Client, NoClient,  \* `sm hook` and `sm emit` processes; each sends one event
  DrainLimit         \* drainTimeout in units of storeOpTimeout: 10 s / 5 s

ASSUME LifecycleAssumption ==
  /\ NoDaemon \notin Daemon
  /\ NoToken \notin Daemon
  /\ NoClient \notin Client
  /\ DrainLimit \in Nat \ {0}

VARIABLES
  file,      \* the token in the token file
  port,      \* the daemon whose server listens on the port
  interest,  \* does that server route events to the daemon's subscription?
  pc,        \* where each daemon's Run is
  token,     \* the token each daemon's server asks for
  cancelled, \* has the daemon been told to stop?
  queue,     \* the events delivered to the subscription and not yet taken
  handler,   \* the goroutine of the subscription: where it is, its event
  sweeper,   \* the sweep goroutine
  mu,        \* the holder of handler.mu
  open,      \* is the daemon's store open?
  elapsed,   \* how long the drain has lasted
  client,    \* where each client is, the token it read, the daemon it reached
  handled    \* the events handled so far

clientVars == <<client, handled>>
shared == <<file, port, interest>>
workers == <<queue, handler, sweeper, mu>>
vars == <<shared, pc, token, cancelled, workers, open, elapsed, clientVars>>

\* The steps of Run, in order, and two ways to be gone: returned, and killed.
Starting == {"load", "bind", "subscribe", "flush", "truncate", "write"}
Stopping == {"drain", "stop", "server", "close", "closed"}
Gone == {"exited", "killed"}
PC == {"off", "serve"} \cup Starting \cup Stopping \cup Gone

Idle == [pc |-> "idle", msg |-> NoClient]
Token == Daemon \cup {NoToken}

TypeOK ==
  /\ file \in Token
  /\ port \in Daemon \cup {NoDaemon}
  /\ interest \in BOOLEAN
  /\ pc \in [Daemon -> PC]
  /\ token \in [Daemon -> Token]
  /\ cancelled \in [Daemon -> BOOLEAN]
  /\ queue \in [Daemon -> SUBSET Client]
  /\ handler \in [Daemon -> [pc : {"idle", "taken", "working", "slow"},
                             msg : Client \cup {NoClient}]]
  /\ sweeper \in [Daemon -> {"none", "rest", "blocked", "sweeping", "exited"}]
  /\ mu \in [Daemon -> {"free", "handler", "sweeper"}]
  /\ open \in [Daemon -> BOOLEAN]
  /\ elapsed \in [Daemon -> 0 .. DrainLimit]
  /\ client \in [Client -> [pc : {"rest", "loaded", "connected", "refused",
                                  "dropped", "sent"},
                            token : Token, to : Daemon \cup {NoDaemon}]]
  /\ handled \subseteq Client

Init ==
  /\ file = NoToken /\ port = NoDaemon /\ interest = FALSE
  /\ pc = [d \in Daemon |-> "off"]
  /\ token = [d \in Daemon |-> NoToken]
  /\ cancelled = [d \in Daemon |-> FALSE]
  /\ queue = [d \in Daemon |-> {}]
  /\ handler = [d \in Daemon |-> Idle]
  /\ sweeper = [d \in Daemon |-> "none"]
  /\ mu = [d \in Daemon |-> "free"]
  /\ open = [d \in Daemon |-> FALSE]
  /\ elapsed = [d \in Daemon |-> 0]
  /\ client = [c \in Client |-> [pc |-> "rest", token |-> NoToken, to |-> NoDaemon]]
  /\ handled = {}

GoTo(d, from, to) == pc[d] = from /\ pc' = [pc EXCEPT ![d] = to]

\* The process is gone: its server no longer listens, and the events and the
\* goroutines it held are lost with it.
Vanish(d) ==
  /\ port' = IF port = d THEN NoDaemon ELSE port
  /\ interest' = (interest /\ port # d)
  /\ queue' = [queue EXCEPT ![d] = {}]
  /\ handler' = [handler EXCEPT ![d] = Idle]
  /\ sweeper' = [sweeper EXCEPT ![d] = "none"]
  /\ mu' = [mu EXCEPT ![d] = "free"]
  /\ open' = [open EXCEPT ![d] = FALSE]

-----------------------------------------------------------------------------
(* Starting                                                                *)

\* The process starts and opens the store.
Start(d) ==
  /\ GoTo(d, "off", "load")
  /\ open' = [open EXCEPT ![d] = TRUE]
  /\ UNCHANGED <<shared, token, cancelled, workers, elapsed, clientVars>>

\* LoadToken, and GenerateToken if there is none.
LoadToken(d) ==
  /\ GoTo(d, "load", "bind")
  /\ token' = [token EXCEPT ![d] = IF file = NoToken THEN d ELSE file]
  /\ UNCHANGED <<shared, cancelled, workers, open, elapsed, clientVars>>

Fresh(d) == token[d] = d

\* startEmbeddedNATS and ConnectInProcess.  The server listens from here on; a
\* daemon that finds the port taken gives up.
Bind(d) ==
  /\ pc[d] = "bind"
  /\ \/ /\ port = NoDaemon
        /\ port' = d
        /\ pc' = [pc EXCEPT ![d] = "subscribe"]
        /\ UNCHANGED <<interest, workers, open>>
     \/ /\ port # NoDaemon
        /\ pc' = [pc EXCEPT ![d] = "exited"]
        /\ Vanish(d)
  /\ UNCHANGED <<file, token, cancelled, elapsed, clientVars>>

\* NotifyContext, and Subscribe, which only sends the subscription.
Subscribe(d) ==
  /\ GoTo(d, "subscribe", "flush")
  /\ UNCHANGED <<shared, token, cancelled, workers, open, elapsed, clientVars>>

\* The server has processed the subscription and routes events to it.
ServerSubscribes(d) ==
  /\ port = d /\ pc[d] \in {"flush", "truncate", "write", "serve"} /\ ~interest
  /\ interest' = TRUE
  /\ UNCHANGED <<file, port, pc, token, cancelled, workers, open, elapsed, clientVars>>

\* A slip: the subscription is taken for granted once it is sent.
FlushBlindly(d) ==
  /\ pc[d] = "flush"
  /\ pc' = [pc EXCEPT ![d] = IF Fresh(d) THEN "truncate" ELSE "serve"]
  /\ sweeper' = [sweeper EXCEPT ![d] = IF Fresh(d) THEN "none" ELSE "blocked"]
  /\ UNCHANGED <<shared, token, cancelled, queue, handler, mu, open, elapsed,
                 clientVars>>

\* Flush returns when the server has processed the subscription.  A token that
\* was loaded needs no writing: the sweep loop starts.
Flush(d) ==
  /\ pc[d] = "flush"
  /\ interest
  /\ pc' = [pc EXCEPT ![d] = IF Fresh(d) THEN "truncate" ELSE "serve"]
  /\ sweeper' = [sweeper EXCEPT ![d] = IF Fresh(d) THEN "none" ELSE "blocked"]
  /\ UNCHANGED <<shared, token, cancelled, queue, handler, mu, open, elapsed,
                 clientVars>>

\* WriteToken: os.WriteFile truncates the file, then fills it.
TruncateFile(d) ==
  /\ GoTo(d, "truncate", "write")
  /\ file' = NoToken
  /\ UNCHANGED <<port, interest, token, cancelled, workers, open, elapsed, clientVars>>

WriteFile(d) ==
  /\ GoTo(d, "write", "serve")
  /\ file' = token[d]
  /\ sweeper' = [sweeper EXCEPT ![d] = "blocked"]
  /\ UNCHANGED <<port, interest, token, cancelled, queue, handler, mu, open, elapsed,
                 clientVars>>

\* A slip: the error is logged, and the daemon serves all the same.
FailTokenServes(d) ==
  /\ pc[d] \in {"truncate", "write"}
  /\ pc' = [pc EXCEPT ![d] = "serve"]
  /\ sweeper' = [sweeper EXCEPT ![d] = "blocked"]
  /\ UNCHANGED <<shared, token, cancelled, queue, handler, mu, open, elapsed,
                 clientVars>>

\* WriteToken fails before or after it has truncated the file: Run returns the
\* error, and what it has deferred runs.
FailToken(d) ==
  /\ pc[d] \in {"truncate", "write"}
  /\ pc' = [pc EXCEPT ![d] = "stop"]
  /\ UNCHANGED <<shared, token, cancelled, workers, open, elapsed, clientVars>>

StartUp(d) ==
  \/ Start(d) \/ LoadToken(d) \/ Bind(d) \/ Subscribe(d) \/ Flush(d)
  \/ TruncateFile(d) \/ WriteFile(d) \/ FailToken(d)

-----------------------------------------------------------------------------
(* The goroutines                                                          *)

\* The subscription hands the next event to handle(), which takes the mutex.
Take(d) ==
  /\ handler[d].pc = "idle"
  /\ pc[d] \in Starting \cup {"serve", "drain", "stop"}
  /\ \E c \in queue[d] :
       /\ handler' = [handler EXCEPT ![d] = [pc |-> "taken", msg |-> c]]
       /\ queue' = [queue EXCEPT ![d] = @ \ {c}]
  /\ UNCHANGED <<shared, pc, token, cancelled, sweeper, mu, open, elapsed, clientVars>>

Lock(d) ==
  /\ handler[d].pc = "taken"
  /\ mu[d] = "free"
  /\ mu' = [mu EXCEPT ![d] = "handler"]
  /\ handler' = [handler EXCEPT ![d].pc = "working"]
  /\ UNCHANGED <<shared, pc, token, cancelled, queue, sweeper, open, elapsed, clientVars>>

\* The handler uses up its storeOpTimeout.
Dawdle(d) ==
  /\ handler[d].pc = "working"
  /\ handler' = [handler EXCEPT ![d].pc = "slow"]
  /\ elapsed' = IF pc[d] = "drain" /\ elapsed[d] < DrainLimit
                THEN [elapsed EXCEPT ![d] = @ + 1] ELSE elapsed
  /\ UNCHANGED <<shared, pc, token, cancelled, queue, sweeper, mu, open, clientVars>>

\* A slip: the handler forgets its event before it has recorded it.
HandlerDoneForgetful(d) ==
  /\ handler[d].pc \in {"working", "slow"}
  /\ handler' = [handler EXCEPT ![d] = Idle]
  /\ handled' = handled \cup {handler'[d].msg}
  /\ mu' = [mu EXCEPT ![d] = "free"]
  /\ UNCHANGED <<shared, pc, token, cancelled, queue, sweeper, open, elapsed, client>>

HandlerDone(d) ==
  /\ handler[d].pc \in {"working", "slow"}
  /\ handled' = handled \cup {handler[d].msg}
  /\ handler' = [handler EXCEPT ![d] = Idle]
  /\ mu' = [mu EXCEPT ![d] = "free"]
  /\ UNCHANGED <<shared, pc, token, cancelled, queue, sweeper, open, elapsed, client>>

\* sweepLoop: a sweep at once and one per tick, until the context is done.  When
\* both are ready, select takes either.
TickSweep(d) ==
  /\ sweeper[d] = "rest"
  /\ sweeper' = [sweeper EXCEPT ![d] = "blocked"]
  /\ UNCHANGED <<shared, pc, token, cancelled, queue, handler, mu, open, elapsed,
                 clientVars>>

BeginSweep(d) ==
  /\ sweeper[d] = "blocked"
  /\ mu[d] = "free"
  /\ mu' = [mu EXCEPT ![d] = "sweeper"]
  /\ sweeper' = [sweeper EXCEPT ![d] = "sweeping"]
  /\ UNCHANGED <<shared, pc, token, cancelled, queue, handler, open, elapsed, clientVars>>

EndSweep(d) ==
  /\ sweeper[d] = "sweeping"
  /\ mu' = [mu EXCEPT ![d] = "free"]
  /\ sweeper' = [sweeper EXCEPT ![d] = "rest"]
  /\ UNCHANGED <<shared, pc, token, cancelled, queue, handler, open, elapsed, clientVars>>

\* A slip: the loop watches a context that nobody cancels.
LeaveSweepLoopNever(d) == FALSE

LeaveSweepLoop(d) ==
  /\ sweeper[d] = "rest"
  /\ cancelled[d]
  /\ sweeper' = [sweeper EXCEPT ![d] = "exited"]
  /\ UNCHANGED <<shared, pc, token, cancelled, queue, handler, mu, open, elapsed,
                 clientVars>>

Goroutines(d) ==
  \/ Take(d) \/ Lock(d) \/ Dawdle(d) \/ HandlerDone(d)
  \/ TickSweep(d) \/ BeginSweep(d) \/ EndSweep(d) \/ LeaveSweepLoop(d)

-----------------------------------------------------------------------------
(* Stopping                                                                *)

\* SIGINT or SIGTERM.  Before NotifyContext the signal ends the process; from
\* there on it cancels the context, which Run looks at once it serves.
Signal(d) ==
  /\ ~cancelled[d]
  /\ \/ /\ pc[d] \in {"load", "bind", "subscribe"}
        /\ pc' = [pc EXCEPT ![d] = "killed"]
        /\ Vanish(d)
        /\ UNCHANGED cancelled
     \/ /\ pc[d] \in {"flush", "truncate", "write", "serve"}
        /\ cancelled' = [cancelled EXCEPT ![d] = TRUE]
        /\ UNCHANGED <<pc, port, interest, workers, open>>
  /\ UNCHANGED <<file, token, elapsed, clientVars>>

\* A slip: the drain starts while the sweep loop may still run.
BeginDrainEarly(d) ==
  /\ cancelled[d]
  /\ GoTo(d, "serve", "drain")
  /\ UNCHANGED <<shared, token, cancelled, workers, open, elapsed, clientVars>>

\* wg.Wait: the sweep loop has ended.  Drain asks the server to stop routing.
BeginDrain(d) ==
  /\ cancelled[d]
  /\ sweeper[d] = "exited"
  /\ GoTo(d, "serve", "drain")
  /\ UNCHANGED <<shared, token, cancelled, workers, open, elapsed, clientVars>>

ServerUnsubscribes(d) ==
  /\ port = d /\ pc[d] = "drain" /\ interest
  /\ interest' = FALSE
  /\ UNCHANGED <<file, port, pc, token, cancelled, workers, open, elapsed, clientVars>>

Drained(d) == ~interest /\ queue[d] = {} /\ handler[d].pc = "idle"

\* A slip: only the event in the handler is waited for.
EndDrainEarly(d) ==
  /\ handler[d].pc = "idle" \/ elapsed[d] = DrainLimit
  /\ GoTo(d, "drain", "stop")
  /\ UNCHANGED <<shared, token, cancelled, workers, open, elapsed, clientVars>>

\* Drain returns when every event has been handled, or when its time is up.
EndDrain(d) ==
  /\ Drained(d) \/ elapsed[d] = DrainLimit
  /\ GoTo(d, "drain", "stop")
  /\ UNCHANGED <<shared, token, cancelled, workers, open, elapsed, clientVars>>

\* The deferred calls, last one first: the connection closes and its goroutine
\* takes no further event, the server stops, the store closes, the process ends.
CloseBus(d) ==
  /\ GoTo(d, "stop", "server")
  /\ interest' = FALSE
  /\ queue' = [queue EXCEPT ![d] = {}]
  /\ UNCHANGED <<file, port, token, cancelled, handler, sweeper, mu, open, elapsed,
                 clientVars>>

ShutdownServer(d) ==
  /\ GoTo(d, "server", "close")
  /\ port' = NoDaemon
  /\ UNCHANGED <<file, interest, token, cancelled, workers, open, elapsed, clientVars>>

CloseStore(d) ==
  /\ GoTo(d, "close", "closed")
  /\ open' = [open EXCEPT ![d] = FALSE]
  /\ UNCHANGED <<shared, token, cancelled, workers, elapsed, clientVars>>

Exit(d) ==
  /\ GoTo(d, "closed", "exited")
  /\ Vanish(d)
  /\ UNCHANGED <<file, token, cancelled, elapsed, clientVars>>

ShutDown(d) ==
  \/ BeginDrain(d) \/ EndDrain(d) \/ CloseBus(d) \/ ShutdownServer(d)
  \/ CloseStore(d) \/ Exit(d)

\* The process is killed.
Crash(d) ==
  /\ pc[d] \notin {"off"} \cup Gone
  /\ pc' = [pc EXCEPT ![d] = "killed"]
  /\ Vanish(d)
  /\ UNCHANGED <<file, token, cancelled, elapsed, clientVars>>

-----------------------------------------------------------------------------
(* Clients                                                                 *)

ReadToken(c) ==
  /\ client[c].pc = "rest"
  /\ client' = [client EXCEPT ![c].pc = "loaded", ![c].token = file]
  /\ UNCHANGED <<shared, pc, token, cancelled, workers, open, elapsed, handled>>

\* Connect fails without a server and with another token than the server's.
Connect(c) ==
  /\ client[c].pc = "loaded"
  /\ client' = IF port # NoDaemon /\ client[c].token = token[port]
               THEN [client EXCEPT ![c].pc = "connected", ![c].to = port]
               ELSE [client EXCEPT ![c].pc = "refused"]
  /\ UNCHANGED <<shared, pc, token, cancelled, workers, open, elapsed, handled>>

\* Publish and Close.  A server without interest in the subject drops the event
\* and says nothing.
Publish(c) ==
  LET d == client[c].to IN
  /\ client[c].pc = "connected"
  /\ IF port = d /\ interest
     THEN /\ queue' = [queue EXCEPT ![d] = @ \cup {c}]
          /\ client' = [client EXCEPT ![c].pc = "sent"]
     ELSE /\ client' = [client EXCEPT ![c].pc = IF port = d THEN "dropped" ELSE "refused"]
          /\ UNCHANGED queue
  /\ UNCHANGED <<shared, pc, token, cancelled, handler, sweeper, mu, open, elapsed,
                 handled>>

Clients == \E c \in Client : ReadToken(c) \/ Connect(c) \/ Publish(c)

-----------------------------------------------------------------------------
Next ==
  \/ \E d \in Daemon : \/ StartUp(d) \/ ServerSubscribes(d) \/ Goroutines(d)
                       \/ Signal(d) \/ ShutDown(d) \/ ServerUnsubscribes(d)
                       \/ Crash(d)
  \/ Clients

Spec == Init /\ [][Next]_vars

\* Once started, a daemon's goroutines are scheduled, its server answers, and
\* each waiter gets the mutex in the end; the loop that finds the context done
\* again and again leaves.  No one has to start, signal or kill a daemon.
Fairness ==
  \A d \in Daemon :
    /\ WF_vars(LoadToken(d) \/ Bind(d) \/ Subscribe(d) \/ Flush(d)
               \/ TruncateFile(d) \/ WriteFile(d))
    /\ WF_vars(ServerSubscribes(d)) /\ WF_vars(ServerUnsubscribes(d))
    /\ WF_vars(Take(d)) /\ SF_vars(Lock(d)) /\ WF_vars(HandlerDone(d))
    /\ SF_vars(BeginSweep(d)) /\ WF_vars(EndSweep(d)) /\ SF_vars(LeaveSweepLoop(d))
    /\ WF_vars(ShutDown(d))

FairSpec == Spec /\ Fairness

-----------------------------------------------------------------------------
(* Correctness                                                             *)

\* Whoever works on a daemon's store finds it open, however the stop is timed: the
\* sweep always, the handler unless the drain has run into its timeout
\* (daemon.go, Run: an order that "guarantees no goroutine touches the store
\* after the deferred st.Close() runs").
NoUseAfterClose ==
  \A d \in Daemon :
    /\ sweeper[d] = "sweeping" => open[d]
    /\ handler[d].pc \in {"working", "slow"} /\ elapsed[d] < DrainLimit => open[d]

\* An event that a daemon with a token of its own drops, although its client
\* read the token and connected, was sent when that daemon was being stopped
\* (daemon.go, Run: "making 'token readable' imply 'bus subscribed'").
FreshStartDropsNothing ==
  \A c \in Client :
    client[c].pc = "dropped" => cancelled[client[c].to] \/ ~Fresh(client[c].to)

\* A stop that stays within the drain timeout handles every event the server
\* had accepted (bus.go, Drain: in-flight messages run to completion).
GracefulStopLosesNothing ==
  \A c \in Client :
    LET d == client[c].to IN
    client[c].pc = "sent" /\ pc[d] \in (Stopping \ {"drain"}) \cup {"exited"}
      /\ elapsed[d] < DrainLimit => c \in handled

\* A daemon that is told to stop does stop, whatever its goroutines are doing.
StopEnds == \A d \in Daemon : cancelled[d] ~> pc[d] \in Gone

\* A daemon that serves with a token of its own has it in the file for every client
\* to read: nothing truncates or replaces it meanwhile, neither a rival that generated
\* another one nor a write that got half way (daemon.go, Run: the file is written
\* once the port is bound, and a start that cannot write it ends).
ServedTokenReadable == \A d \in Daemon : pc[d] = "serve" /\ Fresh(d) => file = d

\* The same as FreshStartDropsNothing for every daemon, as the comment on
\* bus.WriteToken has it: "a client that can read a valid token can also reach a
\* subscribed bus".
ReadableTokenMeansSubscribed ==
  \A c \in Client : client[c].pc = "dropped" => cancelled[client[c].to]

-----------------------------------------------------------------------------
(* What the two properties about events rest on.                            *)

Listening == {"subscribe", "flush", "truncate", "write", "serve", "drain", "stop",
              "server"}

\* A handler that is not idle has an event.
HandlerHoldsEvent == \A d \in Daemon : handler[d].pc # "idle" => handler[d].msg \in Client

\* The port belongs to the one daemon between Bind and ShutdownServer.
PortHeld == \A d \in Daemon : port = d <=> pc[d] \in Listening

\* From the flush to the drain the server routes events.
Routed == \A d \in Daemon : pc[d] \in {"truncate", "write", "serve"} => interest

\* Only a token of its own is written to the file.
WritesItsOwn == \A d \in Daemon : pc[d] \in {"truncate", "write"} => Fresh(d)

\* Somebody else has the token that the daemon would generate.
Out(d) == \/ file = d
          \/ \E c \in Client : client[c].token = d
          \/ \E e \in Daemon \ {d} : token[e] = d

\* A token is out only when its daemon serves, and the daemon leaves that state
\* by a signal or a kill.
OutMeansServed ==
  \A d \in Daemon :
    Out(d) => /\ pc[d] \in {"serve"} \cup Stopping \cup Gone
              /\ cancelled[d] \/ pc[d] \in {"serve"} \cup Gone

\* A client that reached a daemon showed the token the daemon still asks for.
ClientsShowedToken ==
  \A c \in Client :
    /\ client[c].pc \in {"connected", "dropped", "sent"} => client[c].to \in Daemon
    /\ client[c].pc \in {"rest", "loaded"} => client[c].to = NoDaemon
    /\ client[c].to \in Daemon =>
         /\ client[c].token = token[client[c].to]
         /\ pc[client[c].to] \notin {"off", "load", "bind"}

\* After a drain in time the server routes nothing any more, and after a failed
\* start nobody can have reached it.
Quiet ==
  \A d \in Daemon :
    pc[d] \in {"stop", "server"} /\ elapsed[d] < DrainLimit =>
      ~interest \/ (Fresh(d) /\ ~Out(d))

\* Where an accepted event is, until its daemon is past the drain or killed.
Accounted ==
  \A c \in Client :
    LET d == client[c].to IN
    client[c].pc = "sent" =>
      \/ c \in handled \/ c \in queue[d]
      \/ (handler[d].pc # "idle" /\ handler[d].msg = c)
      \/ pc[d] \in Gone \cup (Stopping \ {"drain"})

Inv ==
  /\ TypeOK /\ HandlerHoldsEvent
  /\ PortHeld /\ Routed /\ WritesItsOwn
  /\ OutMeansServed /\ ClientsShowedToken /\ Quiet /\ Accounted
  /\ FreshStartDropsNothing /\ GracefulStopLosesNothing

-----------------------------------------------------------------------------
(* What keeps the store open while it is used.                              *)

\* An event that waits or is at work comes from a client that reached the daemon.
Origin ==
  \A d \in Daemon :
    /\ \A c \in queue[d] : client[c].to = d
    /\ handler[d].pc # "idle" => client[handler[d].msg].to = d

\* The sweep loop runs only while Run waits for a signal or for the loop.
SweepServes ==
  \A d \in Daemon : sweeper[d] \in {"rest", "blocked", "sweeping"} => pc[d] = "serve"

OpenWhileUp == \A d \in Daemon : pc[d] \notin {"off", "closed"} \cup Gone => open[d]

\* A drain in time leaves nothing in the queue or at work, and nothing comes after it.
NoneLeft ==
  \A d \in Daemon :
    \/ pc[d] \in {"off"} \cup Gone
    \/ pc[d] \in Stopping \ {"drain"} /\ elapsed[d] < DrainLimit
    => queue[d] = {} /\ handler[d].pc = "idle"

StoreHeld == Origin /\ SweepServes /\ OpenWhileUp /\ NoneLeft

=============================================================================
