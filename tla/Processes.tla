----------------------------- MODULE Processes -----------------------------
(***************************************************************************)
(* The process table of a host, and what internal/liveness reads of it:     *)
(* Capture, the climb from a hook to the agent that launched it, and Alive,  *)
(* which asks whether the captured process still runs.                      *)
(*                                                                         *)
(* The desktop's own processes (terminals, tmux server and clients, Orca)    *)
(* stay; the agent, the shells below it and the hook come and go.  A pid is  *)
(* used again, and a reboot starts the ticks of the start times anew.        *)
(***************************************************************************)
EXTENDS Naturals, Sequences

CONSTANTS
  Desktop,       \* the pids of the desktop's processes
  ParentOf,      \* the parent of each
  Agent, Hook, Shells,  \* the pids of the agent, of a hook, of the shells in between
  Places,        \* where an agent may run: its parent and its environment's markers
  MaxShellWalk,  \* ancestors Capture climbs (16)
  Spawners,      \* processes of the desktop that launch others
  MaxTicks, MaxBoots  \* bounds

Root == 1  \* init
Shell == {Shells[i] : i \in DOMAIN Shells}
Mortal == {Agent, Hook} \cup Shell
Pids == Desktop \cup Mortal
Markers == {"TMUX_PANE", "ORCA_TAB_ID", "ORCA_AGENT_SESSION_ID"}

ASSUME ProcessesAssumption ==
  /\ Pids \subseteq Nat \ {0, Root}
  /\ Shells \in Seq(Nat)
  /\ Desktop \cap Mortal = {} /\ Agent # Hook /\ {Agent, Hook} \cap Shell = {}
  /\ \A i, j \in DOMAIN Shells : Shells[i] = Shells[j] => i = j
  /\ ParentOf \in [Desktop -> Desktop \cup {Root}]
  /\ Spawners \subseteq Desktop
  /\ Places \subseteq [parent : Desktop, env : SUBSET Markers]
  /\ {MaxShellWalk, MaxTicks, MaxBoots} \subseteq Nat

VARIABLES
  procs,  \* the running processes
  ticks, boot,
  climb,  \* the hook inside Capture
  id      \* the fingerprint it came to

procVars == <<procs, ticks, boot, climb, id>>

Proc == [parent : Pids \cup {Root}, start : Nat,
         comm : {"desktop", "agent", "shell", "hook", "other"}, env : SUBSET Markers]

Process(parent, comm, env) == [parent |-> parent, start |-> ticks, comm |-> comm, env |-> env]

NoIdentity == [pid |-> 0, start |-> 0, boot |-> 0]
Climb == [at : {"parent", "comm", "start", "done"}, pid : Pids, ppid : Pids, walked : Nat]
NoClimb == [at |-> "done", pid |-> Hook, ppid |-> Hook, walked |-> 0]

ProcTypeOK ==
  /\ \E live \in SUBSET Pids : Desktop \subseteq live /\ procs \in [live -> Proc]
  /\ ticks \in Nat /\ boot \in Nat
  /\ climb \in Climb
  /\ id \in [pid : Pids, start : Nat, boot : Nat] \cup {NoIdentity}

Running(pid) == pid \in DOMAIN procs

\* The agent of the session; another process with its pid is not it.
AgentRuns == Running(Agent) /\ procs[Agent].comm = "agent"

\* At the start an agent runs in some place, and it has just launched a hook below a
\* chain of shells; without one when sh executes the command in its own place.
Below(chain, p) ==
  LET n == IF p = Hook THEN chain ELSE (CHOOSE i \in 1 .. chain : Shells[i] = p) - 1
  IN  IF n = 0 THEN Agent ELSE Shells[n]

Entry(place, chain, p) ==
  CASE p \in Desktop -> [parent |-> ParentOf[p], start |-> 0, comm |-> "desktop", env |-> {}]
    [] p = Agent -> [parent |-> place.parent, start |-> 1, comm |-> "agent", env |-> place.env]
    [] OTHER -> [parent |-> Below(chain, p), start |-> 1,
                 comm |-> IF p = Hook THEN "hook" ELSE "shell", env |-> place.env]

Table(place, chain) ==
  [p \in Desktop \cup {Agent, Hook} \cup {Shells[i] : i \in 1 .. chain} |->
     Entry(place, chain, p)]

ProcInit ==
  /\ \E place \in Places, chain \in 0 .. Len(Shells) : procs = Table(place, chain)
  /\ ticks = 2 /\ boot = 1
  /\ climb = [NoClimb EXCEPT !.at = "parent"]
  /\ id = NoIdentity

---------------------------------------------------------------------------
(* Capture: three reads of /proc for each ancestor, and processes may end    *)
(* between any two.                                                        *)

\* The children of a process that ends become init's.  That is the assumption of
\* Capture's comment; below a subreaper (a `systemd --user`) they become the subreaper's,
\* which the code would take for the agent.  No subreaper is modelled.
Without(pids) ==
  [p \in DOMAIN procs \ pids |->
     IF procs[p].parent \in pids THEN [procs[p] EXCEPT !.parent = Root] ELSE procs[p]]

\* The hook has what it wants or gives up; it ends, and its shells with it.
Captured(identity) ==
  /\ id' = identity
  /\ climb' = NoClimb
  /\ procs' = Without({Hook} \cup Shell)

\* The walk is over, or the parent is gone or is init: no durable ancestor.
ReadParent ==
  /\ climb.at = "parent"
  /\ IF climb.walked < MaxShellWalk /\ Running(climb.pid) /\ procs[climb.pid].parent # Root
       THEN /\ climb' = [climb EXCEPT !.at = "comm", !.ppid = procs[climb.pid].parent]
            /\ UNCHANGED <<procs, id>>
       ELSE Captured(NoIdentity)
  /\ UNCHANGED <<ticks, boot>>

\* A slip: a shell is taken for the agent.
ReadCommOfAny ==
  /\ climb.at = "comm"
  /\ climb' = [climb EXCEPT !.at = "start"]
  /\ UNCHANGED <<procs, ticks, boot, id>>

\* A process that has gone has no name, and so is not taken for a shell.
ReadComm ==
  /\ climb.at = "comm"
  /\ climb' = IF Running(climb.ppid) /\ procs[climb.ppid].comm = "shell"
                THEN [climb EXCEPT !.at = "parent", !.pid = climb.ppid, !.walked = @ + 1]
                ELSE [climb EXCEPT !.at = "start"]
  /\ UNCHANGED <<procs, ticks, boot, id>>

ReadStart ==
  /\ climb.at = "start"
  /\ Captured(IF Running(climb.ppid)
                THEN [pid |-> climb.ppid, start |-> procs[climb.ppid].start, boot |-> boot]
                ELSE NoIdentity)
  /\ UNCHANGED <<ticks, boot>>

Capture == ReadParent \/ ReadComm \/ ReadStart

\* A slip: the boot is not compared.
AliveOfAnyBoot(i) == i.pid > 0 /\ Running(i.pid) /\ procs[i.pid].start = i.start

\* Does the captured process still run?
Alive(i) ==
  /\ i.pid > 0
  /\ boot = i.boot
  /\ Running(i.pid) /\ procs[i.pid].start = i.start

---------------------------------------------------------------------------
(* The host.                                                               *)

\* A process ends.
Exit(p) ==
  /\ p \in Mortal /\ Running(p)
  /\ procs' = Without({p})
  /\ climb' = IF p = Hook THEN NoClimb ELSE climb
  /\ UNCHANGED <<ticks, boot, id>>

\* The agent's pid is given to another process; nobody looks at the other free ones.
\* No two processes of one boot start in the same tick under the same pid, and the
\* kernel goes through the whole pid space before it comes back to a number: no
\* capture lasts that long.
Reuse(parent) ==
  /\ climb.at = "done"
  /\ ~Running(Agent)
  /\ ticks < MaxTicks
  /\ procs' = [q \in DOMAIN procs \cup {Agent} |->
                 IF q = Agent THEN Process(parent, "other", {}) ELSE procs[q]]
  /\ ticks' = ticks + 1
  /\ UNCHANGED <<boot, climb, id>>

\* The desktop is as before, and everything else is gone.
Reboot ==
  /\ boot < MaxBoots
  /\ boot' = boot + 1
  /\ ticks' = 1
  /\ procs' = [p \in Desktop |-> [procs[p] EXCEPT !.start = 0]]
  /\ climb' = NoClimb
  /\ UNCHANGED id

---------------------------------------------------------------------------

\* What a hook captures is the process of the agent that launched it, whoever dies
\* during the climb, or nothing (liveness.go, Capture), where orphans go to init: with a
\* subreaper above the agent it may be that one (see Without).
FingerprintIsAgent ==
  AgentRuns /\ id # NoIdentity =>
    /\ id.pid = Agent
    /\ id.start = procs[Agent].start /\ id.boot = boot

\* The probe says that the captured process runs as long as it does and no longer,
\* even when its pid is another's by then or the host has been restarted
\* (liveness.go, Alive).
AliveIsTrue == id # NoIdentity => (Alive(id) <=> AgentRuns)

---------------------------------------------------------------------------
(* What keeps the probe true: an invariant that is inductive.               *)

\* Each process is what its pid says, an agent's pid apart.
Kinds ==
  /\ \A p \in Shell : Running(p) => procs[p].comm = "shell"
  /\ Running(Hook) => procs[Hook].comm = "hook"
  /\ \A p \in Shell \cup {Hook} :
       Running(p) => procs[p].parent \in {Root, Agent} \cup Shell

\* Nobody has been started in the tick to come.
Started == \A p \in DOMAIN procs : procs[p].start < ticks

\* During the climb the agent's pid is nobody else's, and what the climb has its eye on
\* is the agent or a shell below it.
Climbs ==
  climb.at # "done" =>
    /\ id = NoIdentity
    /\ Running(Agent) => procs[Agent].comm = "agent"
    /\ climb.pid \in Shell \cup {Hook}
    /\ climb.at = "comm" => climb.ppid \in Shell \cup {Agent}
    /\ climb.at = "start" =>
         climb.ppid = Agent \/ (climb.ppid \in Shell /\ ~Running(climb.ppid))

\* What has been captured was the agent, and if it is not the one that runs under the
\* pid then its boot is over or its tick has passed.
Identified ==
  id # NoIdentity =>
    /\ id.pid = Agent /\ id.start \in Nat
    /\ id.boot \in Nat /\ id.boot <= boot
    /\ id.boot = boot => id.start < ticks
    /\ Running(Agent) =>
         (procs[Agent].comm = "agent" <=> id.boot = boot /\ procs[Agent].start = id.start)

ProcInv == ProcTypeOK /\ Kinds /\ Started /\ Climbs /\ Identified
=============================================================================

