---------------------------- MODULE FocusProofs ----------------------------
(***************************************************************************)
(* sm focus, proved for any windows, tmux clients, sessions and panes, any    *)
(* place of the agent, any chain of shells and any number of reboots and uses *)
(* of the agent's pid: what the probe answers, what types the walk keeps, and *)
(* that a focus does to the screen what it says.                            *)
(*                                                                         *)
(* The invariant, Inv, is the process table's (ProcInv) with Course: at each   *)
(* step of an undisturbed focus, what it has found out so far still holds.     *)
(***************************************************************************)
EXTENDS Focus, TLAPS

TableOK ==
  /\ DOMAIN procs \subseteq Pids /\ Desktop \subseteq DOMAIN procs
  /\ procs \in [DOMAIN procs -> Proc]

ClockOK == ticks \in Nat /\ boot \in Nat

IdOK == id \in [pid : Pids, start : Nat, boot : Nat] \cup {NoIdentity}

LEMMA Types == ProcTypeOK <=> TableOK /\ ClockOK /\ climb \in Climb /\ IdOK
  BY DEF ProcTypeOK, TableOK, ClockOK, IdOK

LEMMA TypesNext ==
  ASSUME TableOK', ClockOK', climb' \in Climb, IdOK'
  PROVE  ProcTypeOK'
<1>1. DOMAIN procs' \in SUBSET Pids /\ Desktop \subseteq DOMAIN procs'
      /\ procs' \in [DOMAIN procs' -> Proc]
  BY DEF TableOK
<1>2. \E live \in SUBSET Pids : Desktop \subseteq live /\ procs' \in [live -> Proc]
  BY <1>1
<1> QED
  BY <1>2 DEF ProcTypeOK, ClockOK, IdOK

LEMMA PidFacts ==
  /\ Desktop \cap Mortal = {} /\ Agent # Hook /\ Agent \notin Shell /\ Hook \notin Shell
  /\ {Agent, Hook} \cup Shell \subseteq Mortal /\ Mortal \subseteq Pids /\ Desktop \subseteq Pids
  /\ Root \notin Pids /\ 0 \notin Pids /\ Pids \subseteq Nat
  BY ProcessesAssumption DEF Mortal, Pids

---------------------------------------------------------------------------
(* The initial table.                                                      *)

LEMMA BelowType ==
  ASSUME NEW chain \in 0 .. Len(Shells),
         NEW p \in {Hook} \cup {Shells[i] : i \in 1 .. chain}
  PROVE  Below(chain, p) \in {Agent} \cup Shell
<1> DEFINE i0 == CHOOSE i \in 1 .. chain : Shells[i] = p
<1> DEFINE n0 == IF p = Hook THEN chain ELSE i0 - 1
<1>1. Shells \in Seq(Nat) /\ DOMAIN Shells = 1 .. Len(Shells) /\ Len(Shells) \in Nat
  BY ProcessesAssumption
<1>2. CASE p = Hook
  BY <1>1, <1>2 DEF Below, Shell
<1>3. CASE p # Hook
  <2>1. \E i \in 1 .. chain : Shells[i] = p
    BY <1>3
  <2>2. i0 \in 1 .. chain
    BY <2>1
  <2>3. n0 \in 0 .. Len(Shells)
    BY <2>2, <1>3, <1>1
  <2>4. n0 # 0 => Shells[n0] \in Shell
    <3> HIDE DEF n0
    <3> SUFFICES ASSUME n0 # 0 PROVE Shells[n0] \in Shell
      OBVIOUS
    <3>1. n0 \in DOMAIN Shells
      BY <2>3, <1>1
    <3> QED
      BY <3>1 DEF Shell
  <2>5. Below(chain, p) = IF n0 = 0 THEN Agent ELSE Shells[n0]
    BY DEF Below
  <2> QED
    BY <2>4, <2>5
<1> QED
  BY <1>2, <1>3

LEMMA TableFacts ==
  ASSUME NEW place \in Places, NEW chain \in 0 .. Len(Shells), procs = Table(place, chain),
         ticks = 2
  PROVE  TableOK /\ Kinds /\ Started /\ (Running(Agent) => procs[Agent].comm = "agent")
<1> DEFINE shells == {Shells[i] : i \in 1 .. chain}
<1>1. Len(Shells) \in Nat /\ DOMAIN Shells = 1 .. Len(Shells)
  BY ProcessesAssumption
<1>2. shells \subseteq Shell
  BY <1>1 DEF Shell
<1>3. DOMAIN procs = Desktop \cup {Agent, Hook} \cup shells
  BY DEF Table, Entry
<1>4. \A p \in Desktop :
        procs[p] = [parent |-> ParentOf[p], start |-> 0, comm |-> "desktop", env |-> {}]
  <2> TAKE p \in Desktop
  <2>1. p \in DOMAIN procs /\ p # Agent
    BY <1>3, PidFacts
  <2> QED
    BY <2>1 DEF Table, Entry
<1>5. procs[Agent] = [parent |-> place.parent, start |-> 1, comm |-> "agent", env |-> place.env]
  BY <1>3, PidFacts DEF Table, Entry
<1>6. \A p \in {Hook} \cup shells :
        procs[p] = [parent |-> Below(chain, p), start |-> 1,
                    comm |-> IF p = Hook THEN "hook" ELSE "shell", env |-> place.env]
  BY <1>2, <1>3, PidFacts DEF Table, Entry
<1>7. place.parent \in Desktop /\ place.env \in SUBSET Markers
  BY ProcessesAssumption
<1>8. \A p \in Desktop : procs[p] \in Proc /\ procs[p].start = 0
  <2> TAKE p \in Desktop
  <2>1. ParentOf[p] \in Pids \cup {Root}
    BY PidFacts, ProcessesAssumption
  <2>2. procs[p] = [parent |-> ParentOf[p], start |-> 0, comm |-> "desktop", env |-> {}]
    BY <1>4
  <2> QED
    BY <2>1, <2>2 DEF Proc
<1>9. procs[Agent] \in Proc
  <2>1. place.parent \in Pids
    BY <1>7, PidFacts
  <2> QED
    BY <1>5, <1>7, <2>1 DEF Proc
<1>10. ASSUME NEW p \in {Hook} \cup shells
       PROVE  /\ procs[p] \in Proc /\ procs[p].start = 1
              /\ procs[p].comm = IF p = Hook THEN "hook" ELSE "shell"
              /\ procs[p].parent \in {Root, Agent} \cup Shell
  <2>1. Below(chain, p) \in {Agent} \cup Shell
    BY BelowType
  <2>2. Below(chain, p) \in Pids
    BY <2>1, PidFacts
  <2>3. procs[p] = [parent |-> Below(chain, p), start |-> 1,
                    comm |-> IF p = Hook THEN "hook" ELSE "shell", env |-> place.env]
    BY <1>6
  <2>4. procs[p] \in Proc
    <3>1. CASE p = Hook
      BY <3>1, <1>7, <2>2, <2>3 DEF Proc
    <3>2. CASE p # Hook
      BY <3>2, <1>7, <2>2, <2>3 DEF Proc
    <3> QED
      BY <3>1, <3>2
  <2> QED
    BY <2>1, <2>3, <2>4
<1>11. TableOK
  <2>1. DOMAIN procs \subseteq Pids
    BY <1>2, <1>3, PidFacts
  <2>2. \A p \in DOMAIN procs : procs[p] \in Proc
    BY <1>3, <1>8, <1>9, <1>10
  <2>3. procs = [p \in DOMAIN procs |-> Entry(place, chain, p)]
    BY DEF Table
  <2> QED
    BY <1>3, <2>1, <2>2, <2>3 DEF TableOK
<1>12. Kinds
  <2>1. \A p \in Shell : Running(p) => p \in shells
    BY <1>3, PidFacts DEF Running
  <2>2. \A p \in shells : p # Hook
    BY <1>2, PidFacts
  <2>3. \A p \in {Hook} \cup shells : procs[p].parent \in {Root, Agent} \cup Shell
    BY <1>10
  <2>4. \A p \in shells : procs[p].comm = "shell"
    BY <1>10, <2>2
  <2>5. procs[Hook].comm = "hook"
    BY <1>10
  <2> HIDE DEF shells
  <2> QED
    BY <2>1, <2>3, <2>4, <2>5 DEF Kinds
<1>13. Started
  <2>1. \A p \in Desktop : procs[p].start = 0
    BY <1>8
  <2>2. procs[Agent].start = 1
    BY <1>5
  <2>3. \A p \in {Hook} \cup shells : procs[p].start = 1
    BY <1>10
  <2>4. 0 < ticks /\ 1 < ticks
    OBVIOUS
  <2> HIDE DEF shells
  <2> QED
    BY <1>3, <2>1, <2>2, <2>3, <2>4 DEF Started
<1> QED
  BY <1>5, <1>11, <1>12, <1>13

LEMMA InitProc == ProcInit => ProcInv
<1> SUFFICES ASSUME ProcInit PROVE ProcInv
  OBVIOUS
<1>1. TableOK /\ Kinds /\ Started /\ (Running(Agent) => procs[Agent].comm = "agent")
  BY TableFacts DEF ProcInit
<1>2. climb \in Climb /\ climb.at = "parent" /\ climb.pid = Hook
  BY PidFacts DEF ProcInit, NoClimb, Climb
<1>3. id = NoIdentity /\ ClockOK
  BY DEF ProcInit, ClockOK
<1>4. ProcTypeOK
  BY <1>1, <1>2, <1>3, Types DEF IdOK
<1>5. Climbs /\ Identified
  BY <1>1, <1>2, <1>3 DEF Climbs, Identified
<1> QED
  BY <1>1, <1>4, <1>5 DEF ProcInv

---------------------------------------------------------------------------
(* Processes end.                                                          *)

LEMMA WithoutFacts ==
  ASSUME ProcInv, NEW pids \in SUBSET Mortal, procs' = Without(pids), ticks' = ticks
  PROVE  /\ DOMAIN procs' = DOMAIN procs \ pids
         /\ \A p \in DOMAIN procs' : /\ procs'[p].start = procs[p].start
                                     /\ procs'[p].comm = procs[p].comm
         /\ TableOK' /\ Kinds' /\ Started'
<1>1. TableOK /\ Kinds /\ Started
  BY Types DEF ProcInv
<1>2. DOMAIN procs' = DOMAIN procs \ pids
  BY DEF Without
<1>3. \A p \in DOMAIN procs' : procs[p] \in Proc
  BY <1>1, <1>2 DEF TableOK
<1>4. ASSUME NEW p \in DOMAIN procs'
      PROVE  /\ procs'[p] \in Proc
             /\ procs'[p].start = procs[p].start /\ procs'[p].comm = procs[p].comm
             /\ procs'[p].parent \in {procs[p].parent, Root}
  <2>1. procs'[p] = IF procs[p].parent \in pids THEN [procs[p] EXCEPT !.parent = Root]
                    ELSE procs[p]
    BY <1>2 DEF Without
  <2> QED
    BY <1>3, <2>1 DEF Proc
<1>5. TableOK'
  <2>1. DOMAIN procs' \subseteq Pids /\ Desktop \subseteq DOMAIN procs'
    BY <1>1, <1>2, PidFacts DEF TableOK
  <2>2. procs' = [p \in DOMAIN procs' |-> procs'[p]]
    BY DEF Without
  <2> QED
    BY <1>4, <2>1, <2>2 DEF TableOK
<1>6. Kinds'
  BY <1>1, <1>2, <1>4 DEF Kinds, Running
<1>7. Started'
  BY <1>1, <1>2, <1>4 DEF Started
<1> QED
  BY <1>2, <1>4, <1>5, <1>6, <1>7

LEMMA ExitStep ==
  ASSUME ProcInv, NEW p \in Mortal, Exit(p)
  PROVE  ProcInv' /\ (~AgentRuns => ~AgentRuns')
<1>1. procs' = Without({p}) /\ UNCHANGED <<ticks, boot, id>>
      /\ (climb' = climb \/ climb' = NoClimb)
  BY DEF Exit
<1>2. /\ DOMAIN procs' = DOMAIN procs \ {p}
      /\ \A q \in DOMAIN procs' : procs'[q].start = procs[q].start /\ procs'[q].comm = procs[q].comm
      /\ TableOK' /\ Kinds' /\ Started'
  BY <1>1, WithoutFacts
<1>3. ClockOK' /\ IdOK'
  BY <1>1, Types DEF ProcInv, ClockOK, IdOK
<1>4. climb' \in Climb
  <2>1. climb \in Climb
    BY Types DEF ProcInv
  <2>2. NoClimb \in Climb
    BY PidFacts DEF NoClimb, Climb
  <2> QED
    BY <1>1, <2>1, <2>2
<1>5. ProcTypeOK'
  BY <1>2, <1>3, <1>4, TypesNext
<1>6. Climbs'
  <2>1. CASE climb' = climb
    BY <1>1, <1>2, <2>1 DEF ProcInv, Climbs, Running
  <2>2. CASE climb' = NoClimb
    BY <2>2 DEF Climbs, NoClimb
  <2> QED
    BY <1>1, <2>1, <2>2
<1>7. Identified'
  BY <1>1, <1>2 DEF ProcInv, Identified, Running
<1>8. ~AgentRuns => ~AgentRuns'
  BY <1>2 DEF AgentRuns, Running
<1> QED
  BY <1>2, <1>5, <1>6, <1>7, <1>8 DEF ProcInv

\* The hook ends with its shells, and what it brings home is the agent or nothing.
LEMMA CapturedStep ==
  ASSUME ProcInv, UNCHANGED <<ticks, boot>>, climb.at # "done",
         NEW identity, Captured(identity),
         identity = NoIdentity \/
           /\ Running(Agent)
           /\ identity = [pid |-> Agent, start |-> procs[Agent].start, boot |-> boot]
  PROVE  ProcInv' /\ (~AgentRuns => ~AgentRuns')
<1>1. procs' = Without({Hook} \cup Shell) /\ climb' = NoClimb /\ id' = identity
  BY DEF Captured
<1>2. {Hook} \cup Shell \in SUBSET Mortal /\ Agent \notin {Hook} \cup Shell
  BY PidFacts
<1>3. /\ DOMAIN procs' = DOMAIN procs \ ({Hook} \cup Shell)
      /\ \A q \in DOMAIN procs' : procs'[q].start = procs[q].start /\ procs'[q].comm = procs[q].comm
      /\ TableOK' /\ Kinds' /\ Started'
  BY <1>1, <1>2, WithoutFacts
<1>4. ClockOK /\ TableOK /\ Started
  BY Types DEF ProcInv
<1>5. Running(Agent) => procs[Agent].start \in Nat /\ procs[Agent].start < ticks
                        /\ procs[Agent].comm = "agent"
  BY <1>4 DEF TableOK, Running, Proc, Started, ProcInv, Climbs
<1>6. IdOK'
  <2>1. CASE identity = NoIdentity
    BY <1>1, <2>1 DEF IdOK
  <2>2. CASE identity # NoIdentity
    <3>1. identity = [pid |-> Agent, start |-> procs[Agent].start, boot |-> boot]
      BY <2>2
    <3>2. Agent \in Pids /\ procs[Agent].start \in Nat /\ boot \in Nat
      BY <1>4, <1>5, <2>2, PidFacts DEF ClockOK
    <3>3. id' \in [pid : Pids, start : Nat, boot : Nat]
      BY <1>1, <3>1, <3>2
    <3> QED
      BY <3>3 DEF IdOK
  <2> QED
    BY <2>1, <2>2
<1>7. ProcTypeOK'
  <2>1. NoClimb \in Climb
    BY PidFacts DEF NoClimb, Climb
  <2>2. ClockOK'
    BY <1>4 DEF ClockOK
  <2> QED
    BY <1>1, <1>3, <1>6, <2>1, <2>2, TypesNext
<1>8. Climbs'
  BY <1>1 DEF Climbs, NoClimb
<1>9. Identified'
  <2>1. CASE identity = NoIdentity
    BY <1>1, <2>1 DEF Identified
  <2>2. CASE identity # NoIdentity
    <3>1. /\ Running(Agent) /\ id'.pid = Agent
          /\ id'.start = procs[Agent].start /\ id'.boot = boot
      BY <1>1, <2>2
    <3>2. procs'[Agent].comm = "agent" /\ procs'[Agent].start = procs[Agent].start
      BY <1>2, <1>3, <1>5, <3>1 DEF Running
    <3>3. boot' = boot /\ ticks' = ticks /\ boot \in Nat /\ ticks \in Nat
      BY <1>4 DEF ClockOK
    <3> QED
      BY <1>5, <3>1, <3>2, <3>3 DEF Identified
  <2> QED
    BY <2>1, <2>2
<1>10. ~AgentRuns => ~AgentRuns'
  BY <1>3 DEF AgentRuns, Running
<1> QED
  BY <1>3, <1>7, <1>8, <1>9, <1>10 DEF ProcInv

LEMMA CaptureStep ==
  ASSUME ProcInv, Capture
  PROVE  ProcInv' /\ (~AgentRuns => ~AgentRuns')
<1>1. TableOK /\ ClockOK /\ climb \in Climb /\ IdOK
  BY Types DEF ProcInv
<1>2. ASSUME UNCHANGED <<procs, ticks, boot, id>>, climb' \in Climb, Climbs'
      PROVE  ProcInv' /\ (~AgentRuns => ~AgentRuns')
  <2>1. TableOK' /\ ClockOK' /\ IdOK'
    BY <1>1, <1>2 DEF TableOK, ClockOK, IdOK
  <2>2. ProcTypeOK'
    BY <1>2, <2>1, TypesNext
  <2>3. Kinds' /\ Started' /\ Identified'
    BY <1>2 DEF ProcInv, Kinds, Started, Identified, Running
  <2> QED
    BY <1>2, <2>2, <2>3 DEF ProcInv, AgentRuns, Running
<1>3. CASE ReadParent
  <2>1. CASE Captured(NoIdentity)
    BY <1>3, <2>1, CapturedStep DEF ReadParent
  <2>2. CASE ~Captured(NoIdentity)
    <3>1. /\ Running(climb.pid) /\ procs[climb.pid].parent # Root
          /\ climb' = [climb EXCEPT !.at = "comm", !.ppid = procs[climb.pid].parent]
          /\ UNCHANGED <<procs, ticks, boot, id>> /\ climb.at = "parent"
      BY <1>3, <2>2 DEF ReadParent
    <3>2. procs[climb.pid].parent \in Shell \cup {Agent}
      BY <3>1 DEF ProcInv, Climbs, Kinds
    <3>3. climb' \in Climb
      BY <1>1, <3>1, <3>2, PidFacts DEF Climb
    <3>4. climb'.at = "comm" /\ climb'.ppid \in Shell \cup {Agent} /\ climb'.pid = climb.pid
      BY <1>1, <3>1, <3>2 DEF Climb
    <3>5. Climbs'
      BY <3>1, <3>4 DEF ProcInv, Climbs, Running
    <3> QED
      BY <1>2, <3>1, <3>3, <3>5
  <2> QED
    BY <2>1, <2>2
<1>4. CASE ReadComm
  <2>1. UNCHANGED <<procs, ticks, boot, id>> /\ climb.at = "comm"
    BY <1>4 DEF ReadComm
  <2>2. climb.ppid \in Shell \cup {Agent}
    BY <2>1 DEF ProcInv, Climbs
  <2>3. CASE Running(climb.ppid) /\ procs[climb.ppid].comm = "shell"
    <3>1. climb' = [climb EXCEPT !.at = "parent", !.pid = climb.ppid, !.walked = @ + 1]
      BY <1>4, <2>3 DEF ReadComm
    <3>2. climb.ppid \in Shell
      BY <2>1, <2>2, <2>3 DEF ProcInv, Climbs
    <3>3. climb' \in Climb /\ climb'.at = "parent" /\ climb'.pid \in Shell
      <4>1. climb.ppid \in Pids /\ climb.walked + 1 \in Nat
        BY <1>1, <3>2, PidFacts DEF Climb
      <4>2. climb' = [at |-> "parent", pid |-> climb.ppid, ppid |-> climb.ppid,
                      walked |-> climb.walked + 1]
        BY <1>1, <3>1 DEF Climb
      <4> QED
        BY <3>2, <4>1, <4>2 DEF Climb
    <3>4. Climbs'
      BY <2>1, <3>3 DEF ProcInv, Climbs, Running
    <3> QED
      BY <1>2, <2>1, <3>3, <3>4
  <2>4. CASE ~(Running(climb.ppid) /\ procs[climb.ppid].comm = "shell")
    <3>1. climb' = [climb EXCEPT !.at = "start"]
      BY <1>4, <2>4 DEF ReadComm
    <3>2. climb' \in Climb /\ climb'.at = "start" /\ climb'.pid = climb.pid
          /\ climb'.ppid = climb.ppid
      BY <1>1, <3>1 DEF Climb
    <3>3. climb.ppid = Agent \/ (climb.ppid \in Shell /\ ~Running(climb.ppid))
      BY <2>2, <2>4 DEF ProcInv, Kinds
    <3>4. Climbs'
      BY <2>1, <3>2, <3>3 DEF ProcInv, Climbs, Running
    <3> QED
      BY <1>2, <2>1, <3>2, <3>4
  <2> QED
    BY <2>3, <2>4
<1>5. CASE ReadStart
  <2>1. climb.at = "start" /\ UNCHANGED <<ticks, boot>>
    BY <1>5 DEF ReadStart
  <2>2. climb.ppid = Agent \/ ~Running(climb.ppid)
    BY <2>1 DEF ProcInv, Climbs
  <2>3. CASE Running(climb.ppid)
    BY <1>5, <2>1, <2>2, <2>3, CapturedStep DEF ReadStart
  <2>4. CASE ~Running(climb.ppid)
    BY <1>5, <2>1, <2>4, CapturedStep DEF ReadStart
  <2> QED
    BY <2>3, <2>4
<1> QED
  BY <1>3, <1>4, <1>5 DEF Capture

---------------------------------------------------------------------------
(* A pid is used again, the host is restarted.                              *)

LEMMA ReuseStep ==
  ASSUME ProcInv, NEW parent \in Spawners, Reuse(parent)
  PROVE  ProcInv' /\ (~AgentRuns => ~AgentRuns')
<1>1. /\ climb.at = "done" /\ Agent \notin DOMAIN procs
      /\ ticks' = ticks + 1 /\ UNCHANGED <<boot, climb, id>>
  BY DEF Reuse, Running
<1>2. TableOK /\ ClockOK /\ climb \in Climb /\ IdOK
  BY Types DEF ProcInv
<1>3. /\ DOMAIN procs' = DOMAIN procs \cup {Agent}
      /\ \A q \in DOMAIN procs : procs'[q] = procs[q]
      /\ procs'[Agent] = [parent |-> parent, start |-> ticks, comm |-> "other", env |-> {}]
  BY <1>1 DEF Reuse, Process
<1>4. procs'[Agent] \in Proc
  <2>1. parent \in Pids /\ ticks \in Nat
    BY <1>2, PidFacts, ProcessesAssumption DEF ClockOK
  <2> QED
    BY <1>3, <2>1 DEF Proc
<1>5. TableOK'
  <2>1. \A q \in DOMAIN procs' : procs'[q] \in Proc
    BY <1>2, <1>3, <1>4 DEF TableOK
  <2>2. procs' = [q \in DOMAIN procs' |-> procs'[q]]
    BY DEF Reuse
  <2> QED
    BY <1>2, <1>3, <2>1, <2>2, PidFacts DEF TableOK
<1>6. ClockOK' /\ IdOK' /\ climb' \in Climb
  BY <1>1, <1>2 DEF ClockOK, IdOK
<1>7. ProcTypeOK'
  BY <1>5, <1>6, TypesNext
<1>8. Kinds'
  BY <1>3, PidFacts DEF ProcInv, Kinds, Running
<1>9. Started'
  <2>1. \A q \in DOMAIN procs : procs[q].start \in Nat /\ procs[q].start < ticks
    BY <1>2 DEF TableOK, Proc, ProcInv, Started
  <2>2. ticks \in Nat /\ ticks < ticks'
    BY <1>1, <1>2 DEF ClockOK
  <2>3. \A q \in DOMAIN procs' : procs'[q].start \in Nat /\ procs'[q].start < ticks'
    BY <1>1, <1>3, <2>1, <2>2
  <2> QED
    BY <2>3 DEF Started
<1>10. Climbs'
  BY <1>1 DEF Climbs
<1>11. Identified'
  <2> SUFFICES ASSUME id # NoIdentity PROVE Identified'
    BY <1>1 DEF Identified
  <2>1. /\ id.pid = Agent /\ id.start \in Nat /\ id.boot \in Nat /\ id.boot <= boot
        /\ id.boot = boot => id.start < ticks
    BY DEF ProcInv, Identified
  <2>2. procs'[Agent].comm = "other" /\ procs'[Agent].start = ticks
    BY <1>3
  <2>3. id' = id /\ boot' = boot /\ ticks' = ticks + 1 /\ ticks \in Nat
    BY <1>1, <1>2 DEF ClockOK
  <2>4. id.boot = boot => id.start # ticks /\ id.start < ticks + 1
    BY <2>1, <2>3
  <2> QED
    BY <2>1, <2>2, <2>3, <2>4 DEF Identified
<1>12. ~AgentRuns'
  BY <1>3 DEF AgentRuns
<1> QED
  BY <1>7, <1>8, <1>9, <1>10, <1>11, <1>12 DEF ProcInv

LEMMA RebootStep ==
  ASSUME ProcInv, Reboot
  PROVE  ProcInv' /\ ~AgentRuns'
<1>1. TableOK /\ ClockOK /\ IdOK
  BY Types DEF ProcInv
<1>2. /\ DOMAIN procs' = Desktop
      /\ \A p \in Desktop : procs'[p] = [procs[p] EXCEPT !.start = 0]
      /\ ticks' = 1 /\ boot' = boot + 1 /\ climb' = NoClimb /\ id' = id
  BY DEF Reboot
<1>3. \A p \in Desktop : procs'[p] \in Proc /\ procs'[p].start = 0
  BY <1>1, <1>2 DEF TableOK, Proc
<1>4. TableOK'
  <2>1. procs' = [p \in DOMAIN procs' |-> procs'[p]]
    BY <1>2 DEF Reboot
  <2> QED
    BY <1>2, <1>3, <2>1, PidFacts DEF TableOK
<1>5. ClockOK' /\ IdOK'
  BY <1>1, <1>2 DEF ClockOK, IdOK
<1>6. climb' \in Climb
  BY <1>2, PidFacts DEF NoClimb, Climb
<1>7. ProcTypeOK'
  BY <1>4, <1>5, <1>6, TypesNext
<1>8. Agent \notin DOMAIN procs' /\ \A p \in Shell \cup {Hook} : p \notin DOMAIN procs'
  BY <1>2, PidFacts
<1>9. Kinds' /\ Climbs' /\ Started'
  BY <1>2, <1>3, <1>8 DEF Kinds, Climbs, Started, NoClimb, Running
<1>10. Identified'
  BY <1>1, <1>2, <1>8 DEF ProcInv, Identified, Running, ClockOK
<1> QED
  BY <1>7, <1>8, <1>9, <1>10 DEF ProcInv, AgentRuns, Running

---------------------------------------------------------------------------
(* Types of the screen and of the focus process.                             *)

ScreenOK ==
  /\ mapped \subseteq Windows /\ top \in mapped \cup {NoWindow}
  /\ attached \in [Clients -> Session \cup {Detached}] /\ recent \in Clients

TmuxOK ==
  /\ curTab \in [Session -> Tab] /\ \A s \in Session : TabOf[curTab[s]] = s
  /\ curPane \in [Tab -> Panes] /\ \A t \in Tab : PaneOf[curPane[t]] = t

OrcaOK ==
  orca \in [app : {"down", "starting", "up"}, tabs : SUBSET {"tab", "chat"},
            shown : {"tab", "chat", "other"}, worktree : {"own", "other"},
            registered : BOOLEAN]

Focused ==
  [at : Steps \cup {"idle"}, ok : BOOLEAN, pid : Pids \cup {0}, switch : BOOLEAN,
   chain : Seq(Pids), addr : Windows \cup {NoWindow}, tries : Nat, launched : BOOLEAN,
   raised : BOOLEAN, gone : BOOLEAN]

MovesOK == touched \in BOOLEAN /\ moves \in Nat

LEMMA Parts == TypeOK <=> ProcTypeOK /\ ScreenOK /\ TmuxOK /\ OrcaOK /\ f \in Focused /\ MovesOK
BY DEF TypeOK, ScreenOK, TmuxOK, OrcaOK, Focused, MovesOK

LEMMA PartsNext ==
  ASSUME ProcTypeOK', ScreenOK', TmuxOK', OrcaOK', f' \in Focused, MovesOK'
  PROVE  TypeOK'
BY DEF TypeOK, ScreenOK, TmuxOK, OrcaOK, Focused, MovesOK

LEMMA TmuxFacts ==
  /\ AgentTab \in Tab /\ AgentSession \in Session /\ TabOf[AgentTab] = AgentSession
  /\ AgentPane \in Panes /\ PaneOf[AgentPane] = AgentTab /\ AgentSession # Detached
BY FocusAssumption DEF AgentTab, AgentSession

LEMMA IdleTyped == Idle \in Focused
<1>1. <<>> \in Seq(Pids)
  OBVIOUS
<1> QED
  BY <1>1 DEF Idle, Focused

LEMMA DoneTyped == ASSUME NEW ok \in BOOLEAN, Done(ok) PROVE f' \in Focused /\ f'.at = "idle"
<1>1. f' = [Idle EXCEPT !.ok = ok]
  BY DEF Done
<1>2. f'.at = "idle"
  BY <1>1 DEF Idle
<1> QED
  BY <1>1, <1>2, IdleTyped DEF Focused

LEMMA GoTyped ==
  ASSUME f \in Focused, NEW at \in Steps, Go(at)
  PROVE  f' \in Focused /\ f'.at = at
BY DEF Go, Focused

\* What a step leaves of the screen is of its type still.
LEMMA ScreenStays ==
  ASSUME TypeOK
  PROVE  /\ UNCHANGED <<top, mapped, attached, recent>> => ScreenOK'
         /\ UNCHANGED <<curTab, curPane>> => TmuxOK'
         /\ UNCHANGED orca => OrcaOK'
         /\ UNCHANGED f => f' \in Focused
         /\ UNCHANGED <<touched, moves>> => MovesOK'
BY Parts DEF ScreenOK, TmuxOK, OrcaOK, MovesOK

\* The command's own variables.
LEMMA CommandTyped ==
  ASSUME TypeOK, FocusStep
  PROVE  f' \in Focused
<1>1. f \in Focused
  BY Parts
<1>2. \A ok \in BOOLEAN : Done(ok) => f' \in Focused
  BY DoneTyped
<1>3. \A at \in Steps : Go(at) => f' \in Focused
  BY <1>1, GoTyped
<1>4. CASE LookAlive
  <2>1. CASE Alive(id)
    <3>1. id.pid \in Pids
      BY <2>1, Types, Parts, PidFacts DEF Alive, IdOK, NoIdentity
    <3>2. f' = [f EXCEPT !.at = "environ", !.pid = id.pid]
      BY <1>4, <2>1 DEF LookAlive
    <3> QED
      BY <1>1, <3>1, <3>2 DEF Focused, Steps
  <2> QED
    BY <1>2, <1>4, <2>1 DEF LookAlive
<1>5. CASE ReadEnviron
  <2>1. CASE Running(f.pid)
    <3>1. f.pid \in Pids
      BY <2>1, Types, Parts DEF TableOK, Running
    <3>2. <<f.pid>> \in Seq(Pids)
      BY <3>1
    <3>3. FirstStep[Told(procs[f.pid].env)] \in Steps
      BY DEF FirstStep, Told, Steps
    <3>4. f' = [f EXCEPT !.at = FirstStep[Told(procs[f.pid].env)], !.chain = <<f.pid>>]
      BY <1>5, <2>1 DEF ReadEnviron
    <3> QED
      BY <1>1, <3>2, <3>3, <3>4 DEF Focused
  <2> QED
    BY <1>2, <1>5, <2>1 DEF ReadEnviron
<1>6. CASE WalkAncestors
  <2> DEFINE pid == f.chain[Len(f.chain)]
  <2>1. CASE Running(pid) /\ procs[pid].parent # Root
             /\ f' = [f EXCEPT !.chain = Append(@, procs[pid].parent)]
    <3>1. procs[pid].parent \in Pids
      BY <2>1, Types, Parts DEF TableOK, Running, Proc
    <3>2. f.chain \in Seq(Pids)
      BY <1>1 DEF Focused
    <3>3. Append(f.chain, procs[pid].parent) \in Seq(Pids)
      BY <3>1, <3>2
    <3>4. f' = [f EXCEPT !.chain = Append(f.chain, procs[pid].parent)]
      BY <2>1
    <3> QED
      BY <1>1, <3>3, <3>4 DEF Focused
  <2>2. Go("windows") \/ Done(FALSE) \/
          (Running(pid) /\ procs[pid].parent # Root
             /\ f' = [f EXCEPT !.chain = Append(@, procs[pid].parent)])
    BY <1>6 DEF WalkAncestors
  <2> QED
    BY <1>2, <1>3, <2>1, <2>2 DEF Steps
<1>7. CASE ListWindows
  <2>1. Done(FALSE) \/ \E w \in mapped : f' = [f EXCEPT !.at = "raise", !.addr = w]
    BY <1>7 DEF ListWindows
  <2>2. mapped \subseteq Windows
    BY Parts DEF ScreenOK
  <2> QED
    BY <1>1, <1>2, <2>1, <2>2 DEF Focused, Steps
<1>8. CASE RaiseWindow
  <2>1. Done(TRUE) \/ f' = [f EXCEPT !.raised = TRUE, !.at = "switch"]
                   \/ f' = [f EXCEPT !.raised = TRUE, !.at = "window"]
    BY <1>8 DEF RaiseWindow
  <2> QED
    BY <1>1, <1>2, <2>1 DEF Focused, Steps
<1>9. CASE AskSession
  BY <1>3, <1>9 DEF AskSession, Steps
<1>10. CASE ListViewers \/ ListClients
  <2>1. ASSUME NEW clients \in SUBSET Clients, NEW switch \in BOOLEAN, Pick(clients, switch)
        PROVE  f' \in Focused
    <3>1. PICK c \in MostRecent(clients) :
            f' = [f EXCEPT !.at = "ancestors", !.pid = c, !.switch = switch, !.chain = <<c>>]
      BY <2>1 DEF Pick
    <3>2. c \in Pids
      BY <3>1, FocusAssumption, PidFacts DEF MostRecent
    <3>3. <<c>> \in Seq(Pids)
      BY <3>2
    <3> QED
      BY <1>1, <3>1, <3>2, <3>3 DEF Focused, Steps
  <2>2. CASE ListViewers
    BY <1>3, <2>1, <2>2 DEF ListViewers, Steps
  <2>3. CASE ListClients
    BY <1>2, <2>1, <2>3 DEF ListClients
  <2> QED
    BY <1>10, <2>2, <2>3
<1>11. CASE SwitchClient \/ SelectWindow \/ SelectPane
  BY <1>2, <1>3, <1>11 DEF SwitchClient, SelectWindow, SelectPane, Steps
<1>12. ASSUME Retry PROVE f' \in Focused
  <2>1. f.tries + 1 \in Nat
    BY <1>1 DEF Focused
  <2>2. Done(FALSE) \/ f' = [f EXCEPT !.tries = f.tries + 1]
    BY <1>12 DEF Retry
  <2>3. CASE f' = [f EXCEPT !.tries = f.tries + 1]
    BY <1>1, <2>1, <2>3 DEF Focused
  <2> QED
    BY <1>2, <2>2, <2>3
<1>13. ASSUME Listed PROVE f' \in Focused
  <2>1. Done(FALSE) \/ f' = [f EXCEPT !.at = "tab", !.tries = 0]
    BY <1>13 DEF Listed
  <2>2. CASE f' = [f EXCEPT !.at = "tab", !.tries = 0]
    BY <1>1, <2>2 DEF Focused, Steps
  <2> QED
    BY <1>2, <2>1, <2>2
<1>14. CASE ListTerminals \/ RelistTerminals
  BY <1>3, <1>12, <1>13, <1>14 DEF ListTerminals, RelistTerminals, Steps
<1>15. CASE OpenOrca
  BY <1>1, <1>15 DEF OpenOrca, Focused, Steps
<1>16. CASE SwitchTab \/ ListWorktrees \/ RegisterChat
  BY <1>2, <1>3, <1>16 DEF SwitchTab, ListWorktrees, RegisterChat, Steps
<1>17. CASE FindOrcaWindow
  <2>1. mapped \subseteq Windows
    BY Parts DEF ScreenOK
  <2>2. Done(FALSE) \/ Retry \/ \E w \in mapped : f' = [f EXCEPT !.at = "raise", !.addr = w]
    BY <1>17 DEF FindOrcaWindow
  <2> QED
    BY <1>1, <1>2, <1>12, <2>1, <2>2 DEF Focused, Steps
<1>18. CASE RevealWorktree \/ ActivateChat \/ RpcFails \/ Fail
  BY <1>2, <1>3, <1>18 DEF RevealWorktree, ActivateChat, RpcFails, Fail, Steps
<1> QED
  BY <1>4, <1>5, <1>6, <1>7, <1>8, <1>9, <1>10, <1>11, <1>14, <1>15, <1>16, <1>17, <1>18
  DEF FocusStep

\* What the command does to the screen.
LEMMA CommandScreen ==
  ASSUME TypeOK, FocusStep
  PROVE  ScreenOK' /\ TmuxOK' /\ OrcaOK' /\ MovesOK'
<1>1. ScreenOK /\ TmuxOK /\ OrcaOK
  BY Parts
<1>2. MovesOK'
  <2>1. UNCHANGED <<touched, moves>>
    BY DEF FocusStep, LookAlive, ReadEnviron, WalkAncestors, ListWindows, RaiseWindow,
           AskSession, ListViewers, ListClients, SwitchClient, SelectWindow, SelectPane,
           ListTerminals, OpenOrca, RelistTerminals, SwitchTab, FindOrcaWindow,
           ListWorktrees, RegisterChat, RevealWorktree, ActivateChat, RpcFails, Fail,
           Looks, OrcaOnly
  <2> QED
    BY <2>1, ScreenStays
<1>3. ASSUME UNCHANGED screen PROVE ScreenOK' /\ TmuxOK' /\ OrcaOK'
  BY <1>3, ScreenStays DEF screen, tmux
<1>4. CASE LookAlive \/ ReadEnviron \/ WalkAncestors \/ ListWindows \/ AskSession
           \/ ListViewers \/ ListClients \/ ListTerminals \/ RelistTerminals
           \/ FindOrcaWindow \/ ListWorktrees \/ RpcFails \/ Fail
  <2>1. UNCHANGED screen
    BY <1>4 DEF LookAlive, ReadEnviron, WalkAncestors, ListWindows, AskSession, ListViewers,
                ListClients, ListTerminals, RelistTerminals, FindOrcaWindow, ListWorktrees,
                RpcFails, Fail, Looks
  <2> QED
    BY <1>2, <1>3, <2>1
<1>5. CASE RaiseWindow
  <2>1. /\ top' = IF f.addr \in mapped THEN f.addr ELSE top
        /\ UNCHANGED <<mapped, attached, recent, curTab, curPane, orca>>
    BY <1>5 DEF RaiseWindow, tmux
  <2>2. ScreenOK'
    BY <1>1, <2>1 DEF ScreenOK
  <2> QED
    BY <1>2, <2>1, <2>2, ScreenStays
<1>6. CASE SwitchClient
  <2>1. /\ attached' = attached \/ attached' = [attached EXCEPT ![f.pid] = AgentSession]
        /\ UNCHANGED <<top, mapped, recent, curTab, curPane, orca>>
    BY <1>6 DEF SwitchClient
  <2>2. ScreenOK'
    BY <1>1, <2>1, TmuxFacts DEF ScreenOK
  <2> QED
    BY <1>2, <2>1, <2>2, ScreenStays
<1>7. CASE SelectWindow
  <2>1. /\ curTab' = [curTab EXCEPT ![AgentSession] = AgentTab]
        /\ UNCHANGED <<top, mapped, attached, recent, curPane, orca>>
    BY <1>7 DEF SelectWindow
  <2>2. TmuxOK'
    BY <1>1, <2>1, TmuxFacts DEF TmuxOK
  <2> QED
    BY <1>2, <2>1, <2>2, ScreenStays
<1>8. CASE SelectPane
  <2>1. /\ curPane' = [curPane EXCEPT ![AgentTab] = AgentPane]
        /\ UNCHANGED <<top, mapped, attached, recent, curTab, orca>>
    BY <1>8 DEF SelectPane
  <2>2. TmuxOK'
    BY <1>1, <2>1, TmuxFacts DEF TmuxOK
  <2> QED
    BY <1>2, <2>1, <2>2, ScreenStays
<1>9. CASE OpenOrca \/ SwitchTab \/ RegisterChat \/ RevealWorktree \/ ActivateChat
  <2>1. UNCHANGED <<top, mapped, attached, recent, curTab, curPane>>
    BY <1>9 DEF OpenOrca, SwitchTab, RegisterChat, RevealWorktree, ActivateChat, OrcaOnly, tmux
  <2>2. OrcaOK'
    <3>1. CASE OpenOrca
      BY <1>1, <3>1 DEF OpenOrca, OrcaOK
    <3>2. CASE SwitchTab
      BY <1>1, <3>2 DEF SwitchTab, OrcaOK
    <3>3. CASE RegisterChat
      BY <1>1, <3>3 DEF RegisterChat, OrcaOK
    <3>4. CASE RevealWorktree
      BY <1>1, <3>4 DEF RevealWorktree, OrcaOK
    <3>5. CASE ActivateChat
      BY <1>1, <3>5 DEF ActivateChat, OrcaOK
    <3> QED
      BY <1>9, <3>1, <3>2, <3>3, <3>4, <3>5
  <2> QED
    BY <1>2, <2>1, <2>2, ScreenStays
<1> QED
  BY <1>2, <1>4, <1>5, <1>6, <1>7, <1>8, <1>9 DEF FocusStep

\* What the user and Orca do to it.
LEMMA UserScreen ==
  ASSUME TypeOK, UserStep \/ OrcaStarts
  PROVE  ScreenOK' /\ TmuxOK' /\ OrcaOK' /\ MovesOK' /\ f' = f
<1>1. ScreenOK /\ TmuxOK /\ OrcaOK /\ MovesOK
  BY Parts
<1>2. (touched \/ f.at \in Steps) \in BOOLEAN /\ (touched \/ f.raised) \in BOOLEAN
  OBVIOUS
<1>3. Move /\ Touch => MovesOK'
  BY <1>1, <1>2 DEF Move, Touch, MovesOK
<1>4. ASSUME NEW w \in mapped, LookAt(w)
      PROVE  ScreenOK' /\ TmuxOK' /\ OrcaOK' /\ MovesOK' /\ f' = f
  <2>1. top' = w /\ UNCHANGED <<mapped, attached, recent, curTab, curPane, orca, f>>
        /\ moves' = moves + 1 /\ touched' = (touched \/ f.raised)
    BY <1>4 DEF LookAt, tmux, Move
  <2>2. ScreenOK'
    BY <1>1, <2>1 DEF ScreenOK
  <2>3. MovesOK'
    BY <1>1, <1>2, <2>1 DEF MovesOK
  <2> QED
    BY <2>1, <2>2, <2>3, ScreenStays
<1>5. ASSUME NEW c \in Clients, Detach(c) \/ \E s \in Session : UseClient(c, s)
      PROVE  ScreenOK' /\ TmuxOK' /\ OrcaOK' /\ MovesOK' /\ f' = f
  <2>1. UNCHANGED <<top, mapped, curTab, curPane, orca, f>> /\ Move /\ Touch
    BY <1>5 DEF Detach, UseClient
  <2>2. ScreenOK'
    BY <1>1, <1>5 DEF Detach, UseClient, ScreenOK
  <2> QED
    BY <1>3, <2>1, <2>2, ScreenStays
<1>6. ASSUME NEW p \in Panes, UsePane(p)
      PROVE  ScreenOK' /\ TmuxOK' /\ OrcaOK' /\ MovesOK' /\ f' = f
  <2>1. UNCHANGED <<top, mapped, attached, recent, orca, f>> /\ Move /\ Touch
    BY <1>6 DEF UsePane
  <2>2. curTab' = [curTab EXCEPT ![TabOf[PaneOf[p]]] = PaneOf[p]]
        /\ curPane' = [curPane EXCEPT ![PaneOf[p]] = p]
    BY <1>6 DEF UsePane
  <2>3. PaneOf[p] \in Tab /\ TabOf[PaneOf[p]] \in Session
    BY FocusAssumption
  <2>4. TmuxOK'
    BY <1>1, <2>2, <2>3 DEF TmuxOK
  <2> QED
    BY <1>3, <2>1, <2>4, ScreenStays
<1>7. ASSUME NEW w \in Windows, CloseWindow(w)
      PROVE  ScreenOK' /\ TmuxOK' /\ OrcaOK' /\ MovesOK' /\ f' = f
  <2>1. UNCHANGED <<recent, curTab, curPane, orca, f>> /\ Move /\ Touch
    BY <1>7 DEF CloseWindow
  <2>2. /\ mapped' = mapped \ {w}
        /\ top' = IF top = w THEN NoWindow ELSE top
        /\ attached' = [c \in Clients |-> IF ParentOf[c] = Owner[w] THEN Detached
                                          ELSE attached[c]]
    BY <1>7 DEF CloseWindow
  <2>3. ScreenOK'
    BY <1>1, <2>1, <2>2 DEF ScreenOK
  <2> QED
    BY <1>3, <2>1, <2>3, ScreenStays
<1>8. CASE QuitOrca
  <2>1. UNCHANGED <<attached, recent, curTab, curPane, f>> /\ Move /\ Touch
    BY <1>8 DEF QuitOrca, tmux
  <2>2. ScreenOK'
    BY <1>1, <1>8, <2>1 DEF QuitOrca, ScreenOK
  <2>3. OrcaOK'
    BY <1>1, <1>8 DEF QuitOrca, OrcaOK
  <2> QED
    BY <1>3, <2>1, <2>2, <2>3, ScreenStays
<1>9. CASE UseOrca
  <2>1. UNCHANGED <<top, mapped, attached, recent, curTab, curPane, f>> /\ Move /\ Touch
    BY <1>9 DEF UseOrca, tmux
  <2>2. OrcaOK'
    BY <1>1, <1>9 DEF UseOrca, OrcaOK
  <2> QED
    BY <1>3, <2>1, <2>2, ScreenStays
<1>10. CASE OrcaStarts
  <2>1. UNCHANGED <<top, attached, recent, curTab, curPane, f, touched, moves>>
    BY <1>10 DEF OrcaStarts, tmux
  <2>2. ScreenOK'
    <3>1. mapped' = mapped \/ mapped' = mapped \cup OrcaWindows
      BY <1>10 DEF OrcaStarts
    <3> QED
      BY <1>1, <2>1, <3>1 DEF ScreenOK, OrcaWindows
  <2>3. OrcaOK'
    BY <1>1, <1>10 DEF OrcaStarts, OrcaOK
  <2> QED
    BY <2>1, <2>2, <2>3, ScreenStays
<1> QED
  BY <1>4, <1>5, <1>6, <1>7, <1>8, <1>9, <1>10 DEF UserStep

LEMMA InitTyped == Init => TypeOK
<1> SUFFICES ASSUME Init PROVE TypeOK
  OBVIOUS
<1>1. ProcTypeOK
  BY InitProc DEF Init, ProcInv
<1>2. ScreenOK
  BY DEF Init, TmuxInit, ScreenOK
<1>3. TmuxOK
  BY DEF Init, TmuxInit, TmuxOK
<1>4. OrcaOK
  <2>1. orca \in [app : {"down", "up"}, tabs : {{}, {"tab"}, {"chat"}}, shown : {"other"},
                  worktree : {"own", "other"}, registered : {FALSE}]
    BY DEF Init, OrcaInit
  <2> QED
    BY <2>1 DEF OrcaOK
<1>5. f \in Focused /\ MovesOK
  BY IdleTyped DEF Init, MovesOK
<1> QED
  BY <1>1, <1>2, <1>3, <1>4, <1>5, Parts

---------------------------------------------------------------------------
(* What keeps a focus on its course: an invariant that is inductive.          *)

\* The desktop's processes are where they were, and the agent is in one of the places.
Desk ==
  /\ \A p \in Desktop : Running(p) /\ procs[p].parent = ParentOf[p]
  /\ AgentRuns => \E place \in Places : procs[Agent].parent = place.parent
                                        /\ procs[Agent].env = place.env

\* A terminal in which an agent without markers or an attached client runs has a window.
Windowed ==
  /\ AgentRuns /\ Named = "bare" => \E w \in mapped : Owner[w] = procs[Agent].parent
  /\ \A c \in Clients : attached[c] # Detached => HasWindow(c, mapped)

\* tmux is turned to the pane after a client's window has been raised, and no hook
\* captures while a focus runs.
Order ==
  /\ f.at \in {"switch", "window", "pane"} => f.raised /\ f.pid \in Clients
  /\ f.at # "idle" => climb.at = "done"

PaneSteps == {"session", "viewers", "clients"}
TabSteps == {"list", "open", "relist", "tab"}
ChatSteps == {"worktrees", "register", "reveal", "activate"}
WalkSteps == {"ancestors", "windows"}

\* The command is in the branch of the agent's markers, and Orca shows what it was asked
\* to show.
Branch ==
  /\ f.at = "environ" => f.pid = Agent
  /\ f.at \in PaneSteps => Named = "pane"
  /\ f.at \in TabSteps => f.pid = Agent /\ Named = "tab"
  /\ f.at \in ChatSteps => f.pid = Agent /\ Named = "chat"
  /\ f.at \in {"reveal", "activate"} => orca.registered
  /\ f.at = "activate" => orca.worktree = "own"
  /\ f.at = "find" => f.pid = Agent /\ Named \in {"tab", "chat"} /\ orca.shown = Named

\* The walk begins at the agent or at a client, and its second process is the terminal.
Walk ==
  /\ f.at \in WalkSteps =>
       /\ (f.pid = Agent /\ Named = "bare") \/ (f.pid \in Clients /\ Named = "pane")
       /\ Len(f.chain) > 0 /\ f.chain[1] = f.pid
       /\ Len(f.chain) > 1 => f.chain[2] = procs[f.pid].parent
  /\ f.at = "windows" => Len(f.chain) > 1

\* The window to raise is the terminal's, or Orca's.
Target ==
  f.at = "raise" =>
    /\ f.addr \in mapped
    /\ \/ f.pid = Agent /\ Named = "bare" /\ Owner[f.addr] = procs[Agent].parent
       \/ f.pid \in Clients /\ Named = "pane" /\ Owner[f.addr] = ParentOf[f.pid]
       \/ f.pid = Agent /\ Named \in {"tab", "chat"} /\ orca.shown = Named
          /\ f.addr \in OrcaWindows

\* The client shows the agent's session, or nobody does and it is the one used last.
Viewer ==
  /\ f.at \in {"clients", "switch"} => \A c \in Clients : attached[c] # AgentSession
  /\ f.at = "switch" => f.switch
  /\ f.at \in WalkSteps \cup {"raise", "switch"} /\ f.pid \in Clients =>
       /\ attached[f.pid] # Detached
       /\ f.switch => /\ \A c \in Clients : attached[c] # AgentSession
                      /\ attached[recent] # Detached => f.pid = recent
       /\ ~f.switch => attached[f.pid] = AgentSession
  /\ f.at \in {"window", "pane"} => attached[f.pid] = AgentSession

\* The client's window is in front until the pane is selected.
Front ==
  /\ f.at \in {"switch", "window", "pane"} =>
       /\ Named = "pane"
       /\ top # NoWindow /\ Owner[top] = ParentOf[f.pid]
  /\ f.at = "pane" => curTab[AgentSession] = AgentTab

OnCourse == AgentRuns /\ Branch /\ Walk /\ Target /\ Viewer /\ Front

\* As long as nobody interferes a focus that got past the probe is on its course.
Course == ~touched /\ f.at \notin {"idle", "alive"} => OnCourse

---------------------------------------------------------------------------
(* The desktop, the agent's place and the windows.                            *)

\* An agent that runs after a step ran before it, in the same place.
Lasts == AgentRuns' => AgentRuns /\ procs'[Agent] = procs[Agent]

LEMMA PlaceFacts ==
  ASSUME Desk, AgentRuns
  PROVE  /\ procs[Agent].parent \in Desktop
         /\ Named = "bare" => \E w \in Windows : Owner[w] = procs[Agent].parent
<1>1. PICK place \in Places : procs[Agent].parent = place.parent /\ procs[Agent].env = place.env
  BY DEF Desk
<1>2. place.parent \in Desktop
  BY ProcessesAssumption
<1>3. Told(place.env) = "bare" => \E w \in Windows : Owner[w] = place.parent
  BY PlacesAssumption
<1> QED
  BY <1>1, <1>2, <1>3 DEF Named

LEMMA StillDesk ==
  ASSUME UNCHANGED procs
  PROVE  (Desk => Desk') /\ AgentRuns' = AgentRuns /\ Named' = Named /\ Lasts
BY DEF Desk, Lasts, AgentRuns, Running, Named

LEMMA WithoutDesk ==
  ASSUME ProcInv, Desk, NEW pids \in SUBSET Mortal, procs' = Without(pids)
  PROVE  Desk' /\ Lasts
<1>1. DOMAIN procs' = DOMAIN procs \ pids
  BY DEF Without
<1>2. \A p \in DOMAIN procs' :
        procs[p].parent \notin pids => procs'[p] = procs[p]
  BY <1>1 DEF Without
<1>3. ASSUME NEW p \in Desktop PROVE Running(p)' /\ procs'[p].parent = ParentOf[p]
  <2>1. p \in DOMAIN procs /\ procs[p].parent = ParentOf[p] /\ p \notin pids
    BY PidFacts DEF Desk, Running
  <2>2. ParentOf[p] \notin pids
    BY ProcessesAssumption, PidFacts
  <2> QED
    BY <1>1, <1>2, <2>1, <2>2 DEF Running
<1>4. ASSUME AgentRuns' PROVE AgentRuns /\ procs'[Agent] = procs[Agent]
  <2>1. Agent \in DOMAIN procs'
    BY <1>4 DEF AgentRuns, Running
  <2>2. procs'[Agent] = IF procs[Agent].parent \in pids THEN [procs[Agent] EXCEPT !.parent = Root]
                        ELSE procs[Agent]
    BY <1>1, <2>1 DEF Without
  <2>3. procs[Agent] \in Proc
    BY <1>1, <2>1, Types DEF ProcInv, TableOK
  <2>4. AgentRuns
    BY <1>1, <1>4, <2>1, <2>2, <2>3 DEF AgentRuns, Running, Proc
  <2>5. procs[Agent].parent \notin pids
    BY <2>4, PlaceFacts, PidFacts
  <2> QED
    BY <2>2, <2>4, <2>5
<1>5. Lasts
  BY <1>4 DEF Lasts
<1> QED
  BY <1>3, <1>4, <1>5 DEF Desk

LEMMA HostDesk ==
  ASSUME ProcInv, Desk, HostStep
  PROVE  Desk' /\ Lasts
<1>1. ASSUME NEW pids \in SUBSET Mortal, procs' = Without(pids) PROVE Desk' /\ Lasts
  BY <1>1, WithoutDesk
<1>2. CASE Capture
  <2>1. procs' = procs \/ procs' = Without({Hook} \cup Shell)
    BY <1>2 DEF Capture, ReadParent, ReadComm, ReadStart, Captured
  <2>2. {Hook} \cup Shell \in SUBSET Mortal
    BY PidFacts
  <2> QED
    BY <1>1, <2>1, <2>2, StillDesk
<1>3. ASSUME NEW p \in Mortal, Exit(p) PROVE Desk' /\ Lasts
  BY <1>1, <1>3 DEF Exit
<1>4. ASSUME NEW parent \in Spawners, Reuse(parent) PROVE Desk' /\ Lasts
  <2>1. /\ DOMAIN procs' = DOMAIN procs \cup {Agent}
        /\ \A q \in DOMAIN procs : q # Agent => procs'[q] = procs[q]
        /\ procs'[Agent].comm = "other"
    BY <1>4 DEF Reuse, Process
  <2>2. ~AgentRuns'
    BY <2>1 DEF AgentRuns
  <2>3. \A p \in Desktop : Running(p)' /\ procs'[p].parent = ParentOf[p]
    BY <2>1, PidFacts DEF Desk, Running
  <2> QED
    BY <2>2, <2>3 DEF Desk, Lasts
<1>5. CASE Reboot
  <2>1. procs' = [p \in Desktop |-> [procs[p] EXCEPT !.start = 0]]
    BY <1>5 DEF Reboot
  <2>2. Agent \notin DOMAIN procs'
    BY <2>1, PidFacts
  <2>3. ASSUME NEW p \in Desktop PROVE Running(p)' /\ procs'[p].parent = ParentOf[p]
    <3>1. procs[p] \in Proc /\ procs[p].parent = ParentOf[p]
      BY Types DEF ProcInv, TableOK, Desk
    <3>2. p \in DOMAIN procs' /\ procs'[p] = [procs[p] EXCEPT !.start = 0]
      BY <2>1
    <3> QED
      BY <3>1, <3>2 DEF Proc, Running
  <2> QED
    BY <2>2, <2>3 DEF Desk, Lasts, AgentRuns, Running
<1> QED
  BY <1>2, <1>3, <1>4, <1>5 DEF HostStep

LEMMA UserDesk ==
  ASSUME ProcInv, Desk, UserStep
  PROVE  Desk' /\ Lasts
<1>1. procs' = procs \/ procs' = Without({Agent})
  BY DEF UserStep, LookAt, Detach, UseClient, UsePane, CloseWindow, QuitOrca, UseOrca, procVars
<1>2. {Agent} \in SUBSET Mortal
  BY PidFacts
<1> QED
  BY <1>1, <1>2, StillDesk, WithoutDesk

\* What the command may do to tmux: the client it picked moves to the agent's session.
LEMMA Switched ==
  ASSUME FocusStep
  PROVE  /\ UNCHANGED <<procs, mapped, recent, touched>>
         /\ \/ UNCHANGED attached
            \/ /\ f.at = "switch" /\ attached[f.pid] # Detached
               /\ attached' = [attached EXCEPT ![f.pid] = AgentSession]
BY DEF FocusStep, LookAlive, ReadEnviron, WalkAncestors, ListWindows, RaiseWindow, AskSession,
       ListViewers, ListClients, SwitchClient, SelectWindow, SelectPane, ListTerminals,
       OpenOrca, RelistTerminals, SwitchTab, FindOrcaWindow, ListWorktrees, RegisterChat,
       RevealWorktree, ActivateChat, RpcFails, Fail, Looks, OrcaOnly, procVars, screen, tmux

\* Windows may come, and no client comes without one.
LEMMA WindowedStays ==
  ASSUME Windowed, Lasts, mapped \subseteq mapped',
         \A c \in Clients : attached'[c] # Detached => attached[c] # Detached
  PROVE  Windowed'
<1>1. AgentRuns' /\ Named' = "bare" => \E w \in mapped' : Owner[w] = procs'[Agent].parent
  BY DEF Windowed, Lasts, Named
<1>2. \A c \in Clients : attached'[c] # Detached => HasWindow(c, mapped')
  BY DEF Windowed, HasWindow
<1> QED
  BY <1>1, <1>2 DEF Windowed

LEMMA UserWindows ==
  ASSUME TypeOK, ProcInv, Desk, Windowed, UserStep
  PROVE  Windowed'
<1>1. Lasts
  BY UserDesk
<1>2. CASE UNCHANGED <<mapped, attached>>
  BY <1>1, <1>2, WindowedStays
<1>3. CASE \E w \in mapped : LookAt(w)
  BY <1>2, <1>3 DEF LookAt, tmux
<1>4. ASSUME NEW c \in Clients, Detach(c) PROVE Windowed'
  <2>1. mapped' = mapped /\ attached' = [attached EXCEPT ![c] = Detached]
    BY <1>4 DEF Detach
  <2>2. \A d \in Clients : attached'[d] # Detached => attached[d] # Detached
    BY <2>1, Parts DEF ScreenOK
  <2> QED
    BY <1>1, <2>1, <2>2, WindowedStays
<1>5. ASSUME NEW c \in Clients, NEW s \in Session, UseClient(c, s) PROVE Windowed'
  <2>1. mapped' = mapped /\ attached' = [attached EXCEPT ![c] = s] /\ HasWindow(c, mapped)
    BY <1>5 DEF UseClient
  <2>2. \A d \in Clients : attached'[d] # Detached => HasWindow(d, mapped')
    BY <2>1, Parts DEF ScreenOK, Windowed
  <2>3. AgentRuns' /\ Named' = "bare" => \E w \in mapped' : Owner[w] = procs'[Agent].parent
    BY <1>1, <2>1 DEF Windowed, Lasts, Named
  <2> QED
    BY <2>2, <2>3 DEF Windowed
<1>6. CASE \E p \in Panes : UsePane(p)
  BY <1>2, <1>6 DEF UsePane
<1>7. ASSUME NEW w \in Windows, CloseWindow(w) PROVE Windowed'
  <2>1. /\ mapped' = mapped \ {w}
        /\ attached' = [c \in Clients |-> IF ParentOf[c] = Owner[w] THEN Detached ELSE attached[c]]
        /\ AgentRuns /\ procs[Agent].parent = Owner[w] => procs' = Without({Agent})
    BY <1>7 DEF CloseWindow
  <2>2. \A c \in Clients : attached'[c] # Detached => HasWindow(c, mapped')
    BY <2>1 DEF Windowed, HasWindow
  <2>3. AgentRuns' => procs[Agent].parent # Owner[w]
    BY <1>1, <2>1 DEF Lasts, AgentRuns, Running, Without
  <2>4. AgentRuns' /\ Named' = "bare" => \E v \in mapped' : Owner[v] = procs'[Agent].parent
    BY <1>1, <2>1, <2>3 DEF Windowed, Lasts, Named
  <2> QED
    BY <2>2, <2>4 DEF Windowed
<1>8. CASE QuitOrca
  <2>1. mapped' = mapped \ OrcaWindows /\ attached' = attached
    BY <1>8 DEF QuitOrca, tmux
  <2>2. \A c \in Clients : attached'[c] # Detached => HasWindow(c, mapped')
    BY <2>1, ClientsAssumption DEF Windowed, HasWindow, OrcaWindows
  <2>3. AgentRuns' => procs[Agent].parent # OrcaApp
    <3>1. CASE AgentRuns /\ Where = "chat"
      <4>1. procs' = Without({Agent})
        BY <1>8, <3>1 DEF QuitOrca
      <4> QED BY <4>1 DEF AgentRuns, Running, Without
    <3>2. CASE Where # "chat"
      BY <3>2, FocusAssumption DEF Where, PlaceOf
    <3> QED BY <1>1, <3>1, <3>2 DEF Lasts
  <2>4. AgentRuns' /\ Named' = "bare" => \E v \in mapped' : Owner[v] = procs'[Agent].parent
    BY <1>1, <2>1, <2>3 DEF Windowed, Lasts, Named, OrcaWindows
  <2> QED
    BY <2>2, <2>4 DEF Windowed
<1>9. CASE UseOrca
  BY <1>2, <1>9 DEF UseOrca, tmux
<1> QED
  BY <1>3, <1>4, <1>5, <1>6, <1>7, <1>8, <1>9 DEF UserStep

LEMMA InitDesk == Init => Desk /\ Windowed
<1> SUFFICES ASSUME Init PROVE Desk /\ Windowed
  OBVIOUS
<1>1. PICK place \in Places, chain \in 0 .. Len(Shells) : procs = Table(place, chain)
  BY DEF Init, ProcInit
<1>2. Desktop \cup {Agent} \subseteq DOMAIN procs
  BY <1>1 DEF Table
<1>3. \A p \in Desktop : Running(p) /\ procs[p].parent = ParentOf[p]
  <2> TAKE p \in Desktop
  <2>1. procs[p] = [parent |-> ParentOf[p], start |-> 0, comm |-> "desktop", env |-> {}]
    BY <1>1, PidFacts DEF Table, Entry
  <2> QED
    BY <1>2, <2>1 DEF Running
<1>4. procs[Agent].parent = place.parent /\ procs[Agent].env = place.env
  <2>1. procs[Agent] = [parent |-> place.parent, start |-> 1, comm |-> "agent", env |-> place.env]
    BY <1>1, PidFacts DEF Table, Entry
  <2> QED
    BY <2>1
<1>5. Desk
  BY <1>3, <1>4 DEF Desk
<1>6. Windows \ OrcaWindows \subseteq mapped
  BY DEF Init
<1>7. ASSUME AgentRuns, Named = "bare" PROVE \E w \in mapped : Owner[w] = procs[Agent].parent
  <2>1. PICK w \in Windows : Owner[w] = procs[Agent].parent
    BY <1>5, <1>7, PlaceFacts
  <2>2. CASE procs[Agent].parent = OrcaApp
    <3>1. Where = "chat"
      BY <2>2, FocusAssumption DEF Where, PlaceOf
    <3>2. mapped = Windows
      BY <3>1 DEF Init, OrcaInit
    <3> QED BY <2>1, <3>2
  <2>3. CASE procs[Agent].parent # OrcaApp
    BY <1>6, <2>1, <2>3 DEF OrcaWindows
  <2> QED BY <2>2, <2>3
<1>8. \A c \in Clients : attached[c] # Detached => HasWindow(c, mapped)
  BY <1>6, ClientsAssumption DEF Init, TmuxInit, HasWindow, OrcaWindows
<1> QED
  BY <1>5, <1>7, <1>8 DEF Windowed

LEMMA ProbeTrue == ASSUME ProcInv PROVE AliveIsTrue /\ FingerprintIsAgent
<1>1. AliveIsTrue
  <2> SUFFICES ASSUME id # NoIdentity PROVE Alive(id) <=> AgentRuns
    BY DEF AliveIsTrue
  <2>1. id.pid = Agent /\ Agent > 0
    BY PidFacts, ProcessesAssumption DEF ProcInv, Identified, Pids, Mortal
  <2>2. Running(Agent) =>
          (procs[Agent].comm = "agent" <=> id.boot = boot /\ procs[Agent].start = id.start)
    BY DEF ProcInv, Identified
  <2> QED
    BY <2>1, <2>2 DEF Alive, AgentRuns
<1>2. FingerprintIsAgent
  BY DEF ProcInv, Identified, FingerprintIsAgent, AgentRuns
<1> QED
  BY <1>1, <1>2

---------------------------------------------------------------------------
(* The command keeps its course.                                            *)

LEMMA Kept ==
  ASSUME f \in Focused, NEW at \in Steps, Go(at)
  PROVE  f'.at = at /\ f'.pid = f.pid /\ f'.chain = f.chain /\ f'.addr = f.addr
         /\ f'.switch = f.switch /\ f'.raised = f.raised
BY DEF Go, Focused

\* Who walks up finds a window at its parent, and none before.
LEMMA Terminal ==
  ASSUME TypeOK, Desk, Windowed, OnCourse, f.at \in WalkSteps
  PROVE  /\ \A w \in Windows : Owner[w] # f.pid
         /\ \E w \in mapped : Owner[w] = procs[f.pid].parent
         /\ procs[f.pid].parent # Root
         /\ f.pid \in Clients => procs[f.pid].parent = ParentOf[f.pid]
<1>1. mapped \subseteq Windows
  BY Parts DEF ScreenOK
<1>2. \A w \in Windows : Owner[w] \in Desktop
  BY FocusAssumption
<1>3. CASE f.pid = Agent /\ Named = "bare"
  <2>1. \E w \in mapped : Owner[w] = procs[f.pid].parent
    BY <1>3 DEF Windowed, OnCourse
  <2>2. Agent \notin Desktop
    BY PidFacts
  <2> QED
    BY <1>1, <1>2, <1>3, <2>1, <2>2, PidFacts, FocusAssumption
<1>4. CASE f.pid \in Clients
  <2>1. attached[f.pid] # Detached
    BY <1>4 DEF OnCourse, Viewer
  <2>2. \E w \in mapped : Owner[w] = ParentOf[f.pid]
    BY <1>4, <2>1 DEF Windowed, HasWindow
  <2>3. procs[f.pid].parent = ParentOf[f.pid]
    BY <1>4, FocusAssumption DEF Desk
  <2> QED
    BY <1>1, <1>2, <1>4, <2>2, <2>3, PidFacts, ClientsAssumption
<1> QED
  BY <1>3, <1>4 DEF OnCourse, Walk

LEMMA CourseProbe ==
  ASSUME TypeOK, ProcInv, LookAlive, f'.at # "idle"
  PROVE  OnCourse'
<1>1. f \in Focused
  BY Parts
<1>2. Alive(id)
  BY DoneTyped DEF LookAlive
<1>3. id # NoIdentity
  BY <1>2 DEF Alive, NoIdentity
<1>4. AgentRuns /\ id.pid = Agent
  BY <1>2, <1>3, ProbeTrue DEF AliveIsTrue, ProcInv, Identified
<1>5. f'.at = "environ" /\ f'.pid = Agent
  BY <1>1, <1>2, <1>4 DEF LookAlive, Focused
<1>6. AgentRuns'
  BY <1>4, StillDesk DEF LookAlive, Looks, procVars
<1> QED
  BY <1>5, <1>6 DEF OnCourse, Branch, Walk, Target, Viewer, Front, PaneSteps, TabSteps,
                    ChatSteps, WalkSteps

LEMMA CoursePlace ==
  ASSUME TypeOK, Desk, OnCourse, ReadEnviron, f'.at # "idle"
  PROVE  OnCourse'
<1>1. f \in Focused
  BY Parts
<1>2. f.pid = Agent /\ AgentRuns
  BY DEF ReadEnviron, OnCourse, Branch
<1>3. Told(procs[Agent].env) = Named
  BY DEF Named
<1>4. Named \in {"pane", "tab", "chat", "bare"}
  BY <1>3 DEF Told
<1>5. f' = [f EXCEPT !.at = FirstStep[Named], !.chain = <<f.pid>>]
  BY <1>2, <1>3, DoneTyped DEF ReadEnviron
<1>6. f'.at = FirstStep[Named] /\ f'.pid = Agent /\ f'.chain = <<Agent>>
  BY <1>1, <1>2, <1>5 DEF Focused
<1>7. AgentRuns' /\ Named' = Named
  BY <1>2, StillDesk DEF ReadEnviron, Looks, procVars
<1>8. Agent \notin Clients
  BY PidFacts, FocusAssumption
<1>9. \/ (Named = "pane" /\ f'.at = "session") \/ (Named = "tab" /\ f'.at = "list")
      \/ (Named = "chat" /\ f'.at = "worktrees") \/ (Named = "bare" /\ f'.at = "ancestors")
  BY <1>4, <1>6 DEF FirstStep
<1>10. Len(f'.chain) = 1 /\ f'.chain[1] = Agent
  BY <1>6
<1> QED
  BY <1>6, <1>7, <1>8, <1>9, <1>10
  DEF OnCourse, Branch, Walk, Target, Viewer, Front, PaneSteps, TabSteps, ChatSteps, WalkSteps

\* What a step that only looks leaves of the invariant's subjects.
LEMMA Looked ==
  ASSUME Looks, OnCourse
  PROVE  /\ AgentRuns' /\ Named' = Named /\ procs' = procs
         /\ UNCHANGED <<mapped, top, attached, recent, curTab, orca>>
<1>1. procs' = procs
  BY DEF Looks, procVars
<1> QED
  BY <1>1, StillDesk DEF Looks, screen, tmux, OnCourse

LEMMA CourseWalk ==
  ASSUME TypeOK, Desk, Windowed, OnCourse, WalkAncestors, f'.at # "idle"
  PROVE  OnCourse'
<1> DEFINE pid == f.chain[Len(f.chain)]
<1>1. f \in Focused /\ f.at = "ancestors"
  BY Parts DEF WalkAncestors
<1>2. /\ AgentRuns' /\ Named' = Named /\ procs' = procs
      /\ UNCHANGED <<mapped, top, attached, recent, curTab, orca>>
  BY Looked DEF WalkAncestors
<1>3. /\ (f.pid = Agent /\ Named = "bare") \/ (f.pid \in Clients /\ Named = "pane")
      /\ Len(f.chain) > 0 /\ f.chain[1] = f.pid
      /\ Len(f.chain) > 1 => f.chain[2] = procs[f.pid].parent
  BY <1>1 DEF OnCourse, Walk, WalkSteps
<1>4. f.chain \in Seq(Pids)
  BY <1>1 DEF Focused
<1>8. Len(f.chain) \in Nat \ {0}
  BY <1>3, <1>4
<1>9. \A n \in Nat \ {0} : n = 1 \/ n > 1
  OBVIOUS
<1>5. CASE Go("windows")
  <2>1. /\ f'.at = "windows" /\ f'.pid = f.pid /\ f'.chain = f.chain /\ f'.switch = f.switch
    BY <1>1, <1>5, Kept DEF Steps
  <2>2. Len(f.chain) > 1
    <3>1. Len(f.chain) > MaxAncestorWalk \/ procs[pid].parent = Root
      BY <1>1, <1>5, <2>1, DoneTyped DEF WalkAncestors, Focused
    <3>2. CASE Len(f.chain) > MaxAncestorWalk
      BY <1>8, <3>2, FocusAssumption
    <3>3. CASE procs[pid].parent = Root
      <4>1. procs[f.pid].parent # Root
        BY <1>1, Terminal DEF WalkSteps
      <4>2. Len(f.chain) # 1
        BY <1>3, <3>3, <4>1
      <4> QED
        BY <1>8, <1>9, <4>2
    <3> QED
      BY <3>1, <3>2, <3>3
  <2> QED
    BY <1>1, <1>2, <1>3, <2>1, <2>2
    DEF OnCourse, Branch, Walk, Target, Viewer, Front, PaneSteps, TabSteps, ChatSteps, WalkSteps
<1>6. CASE Running(pid) /\ f' = [f EXCEPT !.chain = Append(f.chain, procs[pid].parent)]
  <2>1. /\ f'.at = "ancestors" /\ f'.pid = f.pid /\ f'.switch = f.switch
        /\ f'.chain = Append(f.chain, procs[pid].parent)
    BY <1>1, <1>6 DEF Focused
  <2>2. procs[pid].parent \in Pids \cup {Root}
    BY <1>6, Parts, Types DEF TableOK, Running, Proc
  <2>3. /\ Len(f'.chain) = Len(f.chain) + 1
        /\ f'.chain[Len(f.chain) + 1] = procs[pid].parent
        /\ \A i \in 1 .. Len(f.chain) : f'.chain[i] = f.chain[i]
    <3>1. f.chain \in Seq(Pids \cup {Root})
      BY <1>4
    <3> QED
      BY <2>1, <2>2, <3>1
  <2>4. f'.chain[1] = f.pid /\ Len(f'.chain) > 0
    BY <1>3, <1>4, <2>3
  <2>5. f'.chain[2] = procs[f.pid].parent
    <3>1. CASE Len(f.chain) = 1
      BY <1>3, <2>3, <3>1
    <3>2. CASE Len(f.chain) > 1
      <4>1. 2 \in 1 .. Len(f.chain)
        BY <1>8, <3>2
      <4> QED
        BY <1>3, <2>3, <3>2, <4>1
    <3> QED
      BY <1>8, <1>9, <3>1, <3>2
  <2> QED
    BY <1>1, <1>2, <1>3, <2>1, <2>4, <2>5
    DEF OnCourse, Branch, Walk, Target, Viewer, Front, PaneSteps, TabSteps, ChatSteps, WalkSteps
<1>7. ~Done(FALSE)
  BY DoneTyped
<1> QED
  BY <1>5, <1>6, <1>7 DEF WalkAncestors

LEMMA CourseWindow ==
  ASSUME TypeOK, Desk, Windowed, OnCourse, ListWindows, f'.at # "idle"
  PROVE  OnCourse'
<1> DEFINE owners == {n \in DOMAIN f.chain : \E w \in mapped : Owner[w] = f.chain[n]}
<1>1. f \in Focused /\ f.at = "windows" /\ mapped \subseteq Windows
  BY Parts DEF ListWindows, ScreenOK
<1>2. /\ AgentRuns' /\ Named' = Named /\ procs' = procs
      /\ UNCHANGED <<mapped, top, attached, recent, curTab, orca>>
  BY Looked DEF ListWindows
<1>3. /\ (f.pid = Agent /\ Named = "bare") \/ (f.pid \in Clients /\ Named = "pane")
      /\ f.chain[1] = f.pid /\ Len(f.chain) > 1 /\ f.chain[2] = procs[f.pid].parent
  BY <1>1 DEF OnCourse, Walk, WalkSteps
<1>4. /\ \A w \in Windows : Owner[w] # f.pid
      /\ \E w \in mapped : Owner[w] = procs[f.pid].parent
      /\ f.pid \in Clients => procs[f.pid].parent = ParentOf[f.pid]
  BY <1>1, Terminal DEF WalkSteps
<1>5. 1 \notin owners /\ 2 \in owners /\ owners \subseteq Nat \ {0}
  <2>1. DOMAIN f.chain = 1 .. Len(f.chain) /\ Len(f.chain) \in Nat
    BY <1>1 DEF Focused
  <2> QED
    BY <1>1, <1>3, <1>4, <2>1
<1>6. ~Done(FALSE)
  BY DoneTyped
<1>7. PICK n \in owners, w \in mapped :
        /\ \A m \in owners : n <= m
        /\ Owner[w] = f.chain[n]
        /\ f' = [f EXCEPT !.at = "raise", !.addr = w]
  BY <1>6 DEF ListWindows
<1>8. n = 2
  <2>1. n <= 2 /\ n # 1 /\ n \in Nat \ {0}
    BY <1>5, <1>7
  <2> QED
    BY <2>1
<1>9. Owner[w] = procs[f.pid].parent
  BY <1>3, <1>7, <1>8
<1>10. f'.at = "raise" /\ f'.pid = f.pid /\ f'.addr = w /\ f'.switch = f.switch
  BY <1>1, <1>7 DEF Focused
<1> QED
  BY <1>1, <1>2, <1>3, <1>4, <1>9, <1>10
  DEF OnCourse, Branch, Walk, Target, Viewer, Front, PaneSteps, TabSteps, ChatSteps, WalkSteps

LEMMA CourseRaise ==
  ASSUME TypeOK, OnCourse, RaiseWindow, f'.at # "idle"
  PROVE  OnCourse'
<1>1. f \in Focused /\ f.at = "raise" /\ mapped \subseteq Windows
  BY Parts DEF RaiseWindow, ScreenOK
<1>2. /\ f.pid \in Clients
      /\ f' = [f EXCEPT !.raised = TRUE, !.at = IF f.switch THEN "switch" ELSE "window"]
  BY DoneTyped DEF RaiseWindow
<1>3. f'.pid = f.pid /\ f'.switch = f.switch /\ f'.at = IF f.switch THEN "switch" ELSE "window"
  BY <1>1, <1>2 DEF Focused
<1>4. procs' = procs /\ UNCHANGED <<attached, recent>>
  BY DEF RaiseWindow, procVars, tmux
<1>5. AgentRuns' /\ Named' = Named
  BY <1>4, StillDesk DEF OnCourse
<1>6. f.pid # Agent
  BY <1>2, PidFacts, FocusAssumption
<1>7. f.addr \in mapped /\ Named = "pane" /\ Owner[f.addr] = ParentOf[f.pid]
  BY <1>1, <1>6 DEF OnCourse, Target
<1>8. top' = f.addr /\ top' # NoWindow
  BY <1>1, <1>7, FocusAssumption DEF RaiseWindow
<1>9. /\ attached[f.pid] # Detached
      /\ f.switch => /\ \A c \in Clients : attached[c] # AgentSession
                     /\ attached[recent] # Detached => f.pid = recent
      /\ ~f.switch => attached[f.pid] = AgentSession
  BY <1>1, <1>2 DEF OnCourse, Viewer
<1>10. CASE f.switch
  BY <1>3, <1>4, <1>5, <1>7, <1>8, <1>9, <1>10
  DEF OnCourse, Branch, Walk, Target, Viewer, Front, PaneSteps, TabSteps, ChatSteps, WalkSteps
<1>11. CASE ~f.switch
  BY <1>3, <1>4, <1>5, <1>7, <1>8, <1>9, <1>11
  DEF OnCourse, Branch, Walk, Target, Viewer, Front, PaneSteps, TabSteps, ChatSteps, WalkSteps
<1> QED
  BY <1>10, <1>11


LEMMA CourseClient ==
  ASSUME TypeOK, OnCourse, AskSession \/ ListViewers \/ ListClients, f'.at # "idle"
  PROVE  OnCourse'
<1>1. f \in Focused
  BY Parts
<1>2. /\ AgentRuns' /\ Named' = Named /\ procs' = procs
      /\ UNCHANGED <<mapped, top, attached, recent, curTab, orca>>
  BY Looked DEF AskSession, ListViewers, ListClients
<1>3. f.at \in PaneSteps /\ Named = "pane"
  BY DEF AskSession, ListViewers, ListClients, PaneSteps, OnCourse, Branch
<1>4. ASSUME NEW clients \in SUBSET Clients, NEW switch \in BOOLEAN, Pick(clients, switch),
             \A c \in clients : attached[c] # Detached,
             switch => /\ \A c \in Clients : attached[c] # AgentSession
                       /\ attached[recent] # Detached => recent \in clients,
             ~switch => \A c \in clients : attached[c] = AgentSession
      PROVE  OnCourse'
  <2>1. PICK c \in MostRecent(clients) :
          f' = [f EXCEPT !.at = "ancestors", !.pid = c, !.switch = switch, !.chain = <<c>>]
    BY <1>4 DEF Pick
  <2>2. c \in clients /\ (recent \in clients => c = recent)
    BY <2>1 DEF MostRecent
  <2>3. f'.at = "ancestors" /\ f'.pid = c /\ f'.switch = switch /\ f'.chain = <<c>>
    BY <1>1, <2>1 DEF Focused
  <2>4. Len(f'.chain) = 1 /\ f'.chain[1] = c
    BY <2>3
  <2>5. /\ attached[c] # Detached
        /\ switch => /\ \A d \in Clients : attached[d] # AgentSession
                     /\ attached[recent] # Detached => c = recent
        /\ ~switch => attached[c] = AgentSession
    BY <1>4, <2>2
  <2> QED
    BY <1>2, <1>3, <1>4, <2>2, <2>3, <2>4, <2>5
    DEF OnCourse, Branch, Walk, Target, Viewer, Front, PaneSteps, TabSteps, ChatSteps, WalkSteps
<1>5. CASE AskSession
  <2>1. f'.at = "viewers"
    BY <1>1, <1>5, Kept DEF AskSession, Steps
  <2> QED
    BY <1>2, <1>3, <2>1
    DEF OnCourse, Branch, Walk, Target, Viewer, Front, PaneSteps, TabSteps, ChatSteps, WalkSteps
<1>6. CASE ListViewers
  <2> DEFINE viewers == {c \in Clients : attached[c] = AgentSession}
  <2>1. CASE viewers = {}
    <3>1. f'.at = "clients"
      BY <1>1, <1>6, <2>1, Kept DEF ListViewers, Steps
    <3> QED
      BY <1>2, <1>3, <2>1, <3>1
      DEF OnCourse, Branch, Walk, Target, Viewer, Front, PaneSteps, TabSteps, ChatSteps,
          WalkSteps
  <2>2. CASE viewers # {}
    <3>1. Pick(viewers, FALSE)
      BY <1>6, <2>2 DEF ListViewers
    <3>2. \A c \in viewers : attached[c] # Detached /\ attached[c] = AgentSession
      BY TmuxFacts
    <3> QED
      BY <1>4, <3>1, <3>2
  <2> QED
    BY <2>1, <2>2
<1>7. CASE ListClients
  <2> DEFINE clients == {c \in Clients : attached[c] # Detached}
  <2>1. Pick(clients, TRUE)
    BY <1>7, DoneTyped DEF ListClients
  <2>2. \A c \in Clients : attached[c] # AgentSession
    BY <1>7 DEF ListClients, OnCourse, Viewer
  <2>3. attached[recent] # Detached => recent \in clients
    BY Parts DEF ScreenOK
  <2>4. \A c \in clients : attached[c] # Detached
    OBVIOUS
  <2>5. clients \in SUBSET Clients
    OBVIOUS
  <2> HIDE DEF clients
  <2> QED
    BY <1>4, <2>1, <2>2, <2>3, <2>4, <2>5
<1> QED
  BY <1>5, <1>6, <1>7

LEMMA CoursePane ==
  ASSUME TypeOK, Order, OnCourse, SwitchClient \/ SelectWindow \/ SelectPane, f'.at # "idle"
  PROVE  OnCourse'
<1>1. f \in Focused /\ ScreenOK /\ TmuxOK
  BY Parts
<1>2. procs' = procs /\ UNCHANGED <<mapped, top, recent, orca>>
  BY DEF SwitchClient, SelectWindow, SelectPane, procVars
<1>3. AgentRuns' /\ Named' = Named
  BY <1>2, StillDesk DEF OnCourse
<1>4. Named = "pane" /\ top # NoWindow /\ Owner[top] = ParentOf[f.pid]
  BY DEF SwitchClient, SelectWindow, SelectPane, OnCourse, Front
<1>5. CASE SwitchClient
  <2>1. Go("window") /\ attached' = [attached EXCEPT ![f.pid] = AgentSession]
        /\ attached[f.pid] # Detached
    BY <1>5, DoneTyped DEF SwitchClient
  <2>2. f'.at = "window" /\ f'.pid = f.pid
    BY <1>1, <2>1, Kept DEF Steps
  <2>3. f.pid \in Clients
    BY <1>5 DEF SwitchClient, Order
  <2>4. attached'[f'.pid] = AgentSession
    BY <1>1, <2>1, <2>2, <2>3 DEF ScreenOK
  <2> QED
    BY <1>2, <1>3, <1>4, <2>2, <2>4
    DEF OnCourse, Branch, Walk, Target, Viewer, Front, PaneSteps, TabSteps, ChatSteps, WalkSteps
<1>6. CASE SelectWindow
  <2>1. f'.at = "pane" /\ f'.pid = f.pid /\ attached' = attached
    BY <1>1, <1>6, Kept DEF SelectWindow, Steps
  <2>2. curTab'[AgentSession] = AgentTab
    BY <1>1, <1>6, TmuxFacts DEF SelectWindow, TmuxOK
  <2>3. attached[f.pid] = AgentSession
    BY <1>6 DEF SelectWindow, OnCourse, Viewer
  <2> QED
    BY <1>2, <1>3, <1>4, <2>1, <2>2, <2>3
    DEF OnCourse, Branch, Walk, Target, Viewer, Front, PaneSteps, TabSteps, ChatSteps, WalkSteps
<1>7. ~SelectPane
  BY DoneTyped DEF SelectPane
<1> QED
  BY <1>5, <1>6, <1>7

LEMMA CourseTab ==
  ASSUME TypeOK, OnCourse, ListTerminals \/ OpenOrca \/ RelistTerminals \/ SwitchTab,
         f'.at # "idle"
  PROVE  OnCourse'
<1>1. f \in Focused /\ OrcaOK
  BY Parts
<1>2. procs' = procs
  BY DEF ListTerminals, OpenOrca, RelistTerminals, SwitchTab, Looks, OrcaOnly, procVars
<1>3. AgentRuns' /\ Named' = Named
  BY <1>2, StillDesk DEF OnCourse
<1>4. f.pid = Agent /\ Named = "tab" /\ Agent \notin Clients
  BY PidFacts, FocusAssumption
  DEF ListTerminals, OpenOrca, RelistTerminals, SwitchTab, OnCourse, Branch, TabSteps
<1>5. ~Done(FALSE)
  BY DoneTyped
<1>6. ASSUME f'.at \in TabSteps, f'.pid = f.pid PROVE OnCourse'
  BY <1>2, <1>3, <1>4, <1>6
  DEF OnCourse, Branch, Walk, Target, Viewer, Front, PaneSteps, TabSteps, ChatSteps, WalkSteps
<1>7. CASE ListTerminals
  <2>1. f'.at \in TabSteps /\ f'.pid = f.pid
    BY <1>1, <1>5, <1>7 DEF ListTerminals, Listed, Go, Focused, TabSteps
  <2> QED
    BY <1>6, <2>1
<1>8. CASE OpenOrca
  <2>1. f'.at \in TabSteps /\ f'.pid = f.pid
    BY <1>1, <1>8 DEF OpenOrca, Focused, TabSteps
  <2> QED
    BY <1>6, <2>1
<1>9. CASE RelistTerminals
  <2>1. f.at = "relist"
    BY <1>9 DEF RelistTerminals
  <2>2. f' = [f EXCEPT !.at = "tab", !.tries = 0] \/ f' = [f EXCEPT !.tries = f.tries + 1]
    BY <1>5, <1>9 DEF RelistTerminals, Listed, Retry
  <2>3. f'.at \in TabSteps /\ f'.pid = f.pid
    BY <1>1, <2>1, <2>2 DEF Focused, TabSteps
  <2> QED
    BY <1>6, <2>3
<1>10. CASE SwitchTab
  <2>1. Go("find") /\ orca' = [orca EXCEPT !.shown = "tab", !.worktree = "own"]
    BY <1>5, <1>10 DEF SwitchTab
  <2>2. f'.at = "find" /\ f'.pid = f.pid /\ orca'.shown = "tab"
    BY <1>1, <2>1, Kept DEF Steps, OrcaOK
  <2> QED
    BY <1>2, <1>3, <1>4, <2>2
    DEF OnCourse, Branch, Walk, Target, Viewer, Front, PaneSteps, TabSteps, ChatSteps, WalkSteps
<1> QED
  BY <1>7, <1>8, <1>9, <1>10

LEMMA CourseChat ==
  ASSUME TypeOK, OnCourse,
         ListWorktrees \/ RegisterChat \/ RevealWorktree \/ ActivateChat, f'.at # "idle"
  PROVE  OnCourse'
<1>1. f \in Focused /\ OrcaOK
  BY Parts
<1>2. procs' = procs
  BY DEF ListWorktrees, RegisterChat, RevealWorktree, ActivateChat, Looks, OrcaOnly, procVars
<1>3. AgentRuns' /\ Named' = Named
  BY <1>2, StillDesk DEF OnCourse
<1>4. f.pid = Agent /\ Named = "chat" /\ Agent \notin Clients
  BY PidFacts, FocusAssumption
  DEF ListWorktrees, RegisterChat, RevealWorktree, ActivateChat, OnCourse, Branch, ChatSteps
<1>5. ~Done(FALSE)
  BY DoneTyped
<1>6. CASE ListWorktrees
  <2>1. f'.at = "register" /\ f'.pid = f.pid
    BY <1>1, <1>5, <1>6, Kept DEF ListWorktrees, Steps
  <2> QED
    BY <1>2, <1>3, <1>4, <2>1
    DEF OnCourse, Branch, Walk, Target, Viewer, Front, PaneSteps, TabSteps, ChatSteps, WalkSteps
<1>7. CASE RegisterChat
  <2>1. f'.at = "reveal" /\ f'.pid = f.pid
    BY <1>1, <1>7, Kept DEF RegisterChat, Steps
  <2>2. orca'.registered = TRUE
    BY <1>1, <1>7 DEF RegisterChat, OrcaOK
  <2> QED
    BY <1>2, <1>3, <1>4, <2>1, <2>2
    DEF OnCourse, Branch, Walk, Target, Viewer, Front, PaneSteps, TabSteps, ChatSteps, WalkSteps
<1>8. CASE RevealWorktree
  <2>1. f'.at = "activate" /\ f'.pid = f.pid
    BY <1>1, <1>5, <1>8, Kept DEF RevealWorktree, Steps
  <2>2. orca.registered
    BY <1>8 DEF RevealWorktree, OnCourse, Branch
  <2>3. orca'.registered = orca.registered /\ orca'.worktree = "own"
    BY <1>1, <1>5, <1>8 DEF RevealWorktree, OrcaOK
  <2> QED
    BY <1>2, <1>3, <1>4, <2>1, <2>2, <2>3
    DEF OnCourse, Branch, Walk, Target, Viewer, Front, PaneSteps, TabSteps, ChatSteps, WalkSteps
<1>9. CASE ActivateChat
  <2>1. f'.at = "find" /\ f'.pid = f.pid
    BY <1>1, <1>9, Kept DEF ActivateChat, Steps
  <2>2. orca.registered /\ orca.worktree = "own"
    BY <1>9 DEF ActivateChat, OnCourse, Branch
  <2>3. orca'.shown = "chat"
    BY <1>1, <1>9, <2>2 DEF ActivateChat, OrcaOK
  <2> QED
    BY <1>2, <1>3, <1>4, <2>1, <2>3
    DEF OnCourse, Branch, Walk, Target, Viewer, Front, PaneSteps, TabSteps, ChatSteps, WalkSteps
<1> QED
  BY <1>6, <1>7, <1>8, <1>9

LEMMA CourseFind ==
  ASSUME TypeOK, OnCourse, FindOrcaWindow, f'.at # "idle"
  PROVE  OnCourse'
<1>1. f \in Focused /\ f.at = "find"
  BY Parts DEF FindOrcaWindow
<1>2. /\ AgentRuns' /\ Named' = Named /\ procs' = procs
      /\ UNCHANGED <<mapped, top, attached, recent, curTab, orca>>
  BY Looked DEF FindOrcaWindow
<1>3. f.pid = Agent /\ Named \in {"tab", "chat"} /\ orca.shown = Named /\ Agent \notin Clients
  BY <1>1, PidFacts, FocusAssumption DEF OnCourse, Branch
<1>4. \/ \E w \in OrcaWindows \cap mapped : f' = [f EXCEPT !.at = "raise", !.addr = w]
      \/ f' = [f EXCEPT !.tries = f.tries + 1]
  BY DoneTyped DEF FindOrcaWindow, Retry
<1>5. CASE f' = [f EXCEPT !.tries = f.tries + 1]
  <2>1. f'.at = "find" /\ f'.pid = f.pid
    BY <1>1, <1>5 DEF Focused
  <2> QED
    BY <1>2, <1>3, <2>1
    DEF OnCourse, Branch, Walk, Target, Viewer, Front, PaneSteps, TabSteps, ChatSteps, WalkSteps
<1>6. ASSUME NEW w \in OrcaWindows \cap mapped, f' = [f EXCEPT !.at = "raise", !.addr = w]
      PROVE  OnCourse'
  <2>1. f'.at = "raise" /\ f'.pid = f.pid /\ f'.addr = w
    BY <1>1, <1>6 DEF Focused
  <2> QED
    BY <1>2, <1>3, <2>1
    DEF OnCourse, Branch, Walk, Target, Viewer, Front, PaneSteps, TabSteps, ChatSteps, WalkSteps
<1> QED
  BY <1>4, <1>5, <1>6

---------------------------------------------------------------------------
(* The focus, the user and the host.                                        *)

\* A focus whose agent was gone at the start gets no further than the probe.
GoneStops == f.gone => f.at = "alive" /\ ~AgentRuns

Inv == ProcInv /\ TypeOK /\ GoneStops /\ Desk /\ Windowed /\ Order /\ Course

\* The agent ends with its terminal or with Orca.
LEMMA AgentEnds ==
  ASSUME ProcInv, Running(Agent), procs' = Without({Agent}),
         UNCHANGED <<ticks, boot, climb, id>>
  PROVE  ProcInv' /\ (~AgentRuns => ~AgentRuns')
<1>1. Agent \in Mortal /\ Agent # Hook
  BY PidFacts
<1>2. Exit(Agent)
  BY <1>1 DEF Exit
<1> QED
  BY <1>1, <1>2, ExitStep

LEMMA StillProc ==
  ASSUME ProcInv, UNCHANGED procVars
  PROVE  ProcInv' /\ AgentRuns' = AgentRuns
<1>1. UNCHANGED <<procs, ticks, boot, climb, id>>
  BY DEF procVars
<1>2. TableOK' /\ ClockOK' /\ climb' \in Climb /\ IdOK'
  BY <1>1, Types DEF ProcInv, TableOK, ClockOK, IdOK
<1> QED
  BY <1>1, <1>2, TypesNext
  DEF ProcInv, Kinds, Started, Climbs, Identified, AgentRuns, Running

LEMMA FocusProc == ASSUME FocusStep PROVE UNCHANGED procVars
BY DEF FocusStep, LookAlive, ReadEnviron, WalkAncestors, ListWindows, RaiseWindow, AskSession,
       ListViewers, ListClients, SwitchClient, SelectWindow, SelectPane, ListTerminals,
       OpenOrca, RelistTerminals, SwitchTab, FindOrcaWindow, ListWorktrees, RegisterChat,
       RevealWorktree, ActivateChat, RpcFails, Fail, Looks, OrcaOnly

LEMMA UserProc ==
  ASSUME ProcInv, UserStep
  PROVE  ProcInv' /\ (~AgentRuns => ~AgentRuns') /\ f' = f
<1>1. CASE \E w \in mapped : LookAt(w)
  BY <1>1, StillProc DEF LookAt
<1>2. CASE \E c \in Clients : Detach(c) \/ \E s \in Session : UseClient(c, s)
  BY <1>2, StillProc DEF Detach, UseClient
<1>3. CASE \E p \in Panes : UsePane(p)
  BY <1>3, StillProc DEF UsePane
<1>4. ASSUME NEW w \in Windows, CloseWindow(w)
      PROVE  ProcInv' /\ (~AgentRuns => ~AgentRuns') /\ f' = f
  <2>1. UNCHANGED <<ticks, boot, climb, id, f>>
    BY <1>4 DEF CloseWindow
  <2>2. (Running(Agent) /\ procs' = Without({Agent})) \/ procs' = procs
    BY <1>4 DEF CloseWindow, AgentRuns
  <2>3. CASE Running(Agent) /\ procs' = Without({Agent})
    BY <2>1, <2>3, AgentEnds
  <2>4. CASE procs' = procs
    BY <2>1, <2>4, StillProc DEF procVars
  <2> QED
    BY <2>2, <2>3, <2>4
<1>5. CASE QuitOrca
  <2>1. UNCHANGED <<ticks, boot, climb, id, f>>
    BY <1>5 DEF QuitOrca
  <2>2. (Running(Agent) /\ procs' = Without({Agent})) \/ procs' = procs
    BY <1>5 DEF QuitOrca, AgentRuns
  <2>3. CASE Running(Agent) /\ procs' = Without({Agent})
    BY <2>1, <2>3, AgentEnds
  <2>4. CASE procs' = procs
    BY <2>1, <2>4, StillProc DEF procVars
  <2> QED
    BY <2>2, <2>3, <2>4
<1>6. CASE UseOrca
  BY <1>6, StillProc DEF UseOrca
<1> QED
  BY <1>1, <1>2, <1>3, <1>4, <1>5, <1>6 DEF UserStep

LEMMA HostProc ==
  ASSUME ProcInv, HostStep
  PROVE  ProcInv' /\ (~AgentRuns => ~AgentRuns') /\ f' \in {f, Idle}
<1>1. CASE Capture /\ UNCHANGED <<f, touched>>
  BY <1>1, CaptureStep
<1>2. CASE \E p \in Mortal : Exit(p) /\ UNCHANGED f /\ Touch
  BY <1>2, ExitStep
<1>3. CASE \E parent \in Spawners : Reuse(parent) /\ UNCHANGED f /\ Touch
  BY <1>3, ReuseStep
<1>4. CASE Reboot /\ f' = Idle /\ touched' = FALSE
  BY <1>4, RebootStep
<1> QED
  BY <1>1, <1>2, <1>3, <1>4 DEF HostStep

\* The one step that a focus whose agent is gone can take.
LEMMA GoneStep ==
  ASSUME Inv, FocusStep, f.gone
  PROVE  UNCHANGED screen /\ f'.gone = FALSE
<1>1. f.at = "alive" /\ ~AgentRuns /\ ProcInv
  BY DEF Inv, GoneStops
<1>2. ~Alive(id)
  <2>1. CASE id = NoIdentity
    BY <2>1 DEF NoIdentity, Alive
  <2>2. CASE id # NoIdentity
    BY <1>1, <2>2, ProbeTrue DEF AliveIsTrue
  <2> QED
    BY <2>1, <2>2
<1>3. LookAlive
  BY <1>1
  DEF FocusStep, LookAlive, ReadEnviron, WalkAncestors, ListWindows, RaiseWindow, AskSession,
      ListViewers, ListClients, SwitchClient, SelectWindow, SelectPane, ListTerminals,
      OpenOrca, RelistTerminals, SwitchTab, FindOrcaWindow, ListWorktrees, RegisterChat,
      RevealWorktree, ActivateChat, RpcFails, Fail
<1> QED
  BY <1>2, <1>3 DEF LookAlive, Looks, Done, Idle

\* No step of a focus but its start says that the agent is gone.
LEMMA NotGoneStep ==
  ASSUME FocusStep, f \in Focused
  PROVE  f'.gone => f.gone
<1>1. \A ok : Done(ok) => ~f'.gone
  BY DEF Done, Idle
<1>2. \A at : Go(at) => f'.gone = f.gone
  BY DEF Go, Focused
<1>3. CASE LookAlive
  BY <1>1, <1>3 DEF LookAlive, Focused
<1>4. CASE ReadEnviron
  <2>1. \A at, chain : f' = [f EXCEPT !.at = at, !.chain = chain] => f'.gone = f.gone
    BY DEF Focused
  <2> QED
    BY <1>1, <1>4, <2>1 DEF ReadEnviron
<1>5. CASE WalkAncestors
  <2>1. \A chain : f' = [f EXCEPT !.chain = chain] => f'.gone = f.gone
    BY DEF Focused
  <2> QED
    BY <1>1, <1>2, <1>5, <2>1 DEF WalkAncestors
<1>6. CASE ListWindows
  BY <1>1, <1>6 DEF ListWindows, Focused
<1>7. CASE RaiseWindow
  BY <1>1, <1>7 DEF RaiseWindow, Focused
<1>8. CASE AskSession \/ ListViewers \/ ListClients
  BY <1>1, <1>2, <1>8 DEF AskSession, ListViewers, ListClients, Pick, Focused
<1>9. CASE SwitchClient \/ SelectWindow \/ SelectPane
  BY <1>1, <1>2, <1>9 DEF SwitchClient, SelectWindow, SelectPane
<1>10. ASSUME Retry \/ Listed PROVE f'.gone => f.gone
  <2>1. \/ Done(FALSE) \/ f' = [f EXCEPT !.tries = f.tries + 1]
        \/ f' = [f EXCEPT !.at = "tab", !.tries = 0]
    BY <1>10 DEF Retry, Listed
  <2>2. CASE f' = [f EXCEPT !.tries = f.tries + 1]
    BY <2>2 DEF Focused
  <2>3. CASE f' = [f EXCEPT !.at = "tab", !.tries = 0]
    BY <2>3 DEF Focused
  <2> QED
    BY <1>1, <2>1, <2>2, <2>3
<1>11. CASE ListTerminals \/ RelistTerminals
  BY <1>1, <1>2, <1>11, <1>10 DEF ListTerminals, RelistTerminals
<1>12. CASE OpenOrca \/ FindOrcaWindow
  <2>1. CASE OpenOrca
    BY <2>1 DEF OpenOrca, Focused
  <2>2. CASE FindOrcaWindow
    <3>1. ASSUME NEW w, f' = [f EXCEPT !.at = "raise", !.addr = w] PROVE f'.gone => f.gone
      BY <3>1 DEF Focused
    <3> QED
      BY <1>1, <1>10, <2>2, <3>1 DEF FindOrcaWindow
  <2> QED
    BY <1>12, <2>1, <2>2
<1>13. CASE SwitchTab \/ ListWorktrees \/ RegisterChat
  BY <1>1, <1>2, <1>13 DEF SwitchTab, ListWorktrees, RegisterChat
<1>14. CASE RevealWorktree \/ ActivateChat \/ RpcFails \/ Fail
  BY <1>1, <1>2, <1>14 DEF RevealWorktree, ActivateChat, RpcFails, Fail
<1> QED
  BY <1>3, <1>4, <1>5, <1>6, <1>7, <1>8, <1>9, <1>11, <1>12, <1>13, <1>14 DEF FocusStep

LEMMA InvInit == Init => Inv
<1> SUFFICES ASSUME Init PROVE Inv
  OBVIOUS
<1>1. f = Idle
  BY DEF Init
<1>2. GoneStops /\ Order /\ Course
  BY <1>1 DEF GoneStops, Order, Course, Idle
<1> QED
  BY <1>2, InitProc, InitTyped, InitDesk DEF Init, Inv

LEMMA CommandStep ==
  ASSUME Inv, FocusStep
  PROVE  Inv'
<1>1. /\ ProcInv /\ TypeOK /\ Desk /\ Windowed /\ Order /\ Course /\ f \in Focused
      /\ climb \in Climb
  BY Parts, Types DEF Inv
<1>2. ProcInv' /\ UNCHANGED procVars
  BY <1>1, FocusProc, StillProc
<1>3. TypeOK'
  <2>1. ProcTypeOK'
    BY <1>2 DEF ProcInv
  <2> QED
    BY <1>1, <2>1, CommandTyped, CommandScreen, PartsNext
<1>4. GoneStops'
  <2>1. f'.gone => f.gone
    BY <1>1, NotGoneStep
  <2>2. ~f'.gone
    BY <2>1, GoneStep
  <2> QED
    BY <2>2 DEF GoneStops
<1>5. Desk' /\ Lasts
  BY <1>1, <1>2, StillDesk DEF procVars
<1>6. Windowed'
  <2>1. \A c \in Clients : attached'[c] # Detached => attached[c] # Detached
    BY <1>1, Switched, Parts DEF ScreenOK
  <2> QED
    BY <1>1, <1>5, <2>1, Switched, WindowedStays
<1>7. Order'
  <2>1. f.at # "idle" /\ climb' = climb
    BY <1>2
    DEF FocusStep, LookAlive, ReadEnviron, WalkAncestors, ListWindows, RaiseWindow, AskSession,
        ListViewers, ListClients, SwitchClient, SelectWindow, SelectPane, ListTerminals,
        OpenOrca, RelistTerminals, SwitchTab, FindOrcaWindow, ListWorktrees, RegisterChat,
        RevealWorktree, ActivateChat, RpcFails, Fail, procVars, Steps
  <2>2. ASSUME f'.at \in {"switch", "window", "pane"} PROVE f'.raised /\ f'.pid \in Clients
    <3>1. \A ok \in BOOLEAN : ~Done(ok)
      BY <2>2, DoneTyped
    <3>2. RaiseWindow \/ SwitchClient \/ SelectWindow
      <4>1. \A at \in Steps : Go(at) => f'.at = at
        BY <1>1, Kept
      <4>2. ~LookAlive /\ ~WalkAncestors /\ ~ListWindows
        BY <1>1, <2>2, <3>1, <4>1
        DEF LookAlive, WalkAncestors, ListWindows, Focused, Steps
      <4>3. ~ReadEnviron
        <5>1. FirstStep[Told(procs[f.pid].env)] \in {"session", "list", "worktrees", "ancestors"}
          BY DEF FirstStep, Told
        <5> QED
          BY <1>1, <2>2, <3>1, <5>1 DEF ReadEnviron, Focused
      <4>4. ~AskSession /\ ~ListViewers /\ ~ListClients
        BY <1>1, <2>2, <3>1, <4>1 DEF AskSession, ListViewers, ListClients, Pick, Focused, Steps
      <4>5. ~SelectPane
        BY <3>1 DEF SelectPane
      <4>6. ~ListTerminals /\ ~OpenOrca /\ ~RelistTerminals /\ ~SwitchTab
        BY <1>1, <2>2, <3>1, <4>1
        DEF ListTerminals, OpenOrca, RelistTerminals, SwitchTab, Listed, Retry, Focused, Steps
      <4>7. ~FindOrcaWindow /\ ~ListWorktrees
        BY <1>1, <2>2, <3>1, <4>1 DEF FindOrcaWindow, ListWorktrees, Retry, Focused, Steps
      <4>8. ~RegisterChat /\ ~RevealWorktree /\ ~ActivateChat /\ ~RpcFails /\ ~Fail
        BY <2>2, <3>1, <4>1 DEF RegisterChat, RevealWorktree, ActivateChat, RpcFails, Fail, Steps
      <4> QED
        BY <4>2, <4>3, <4>4, <4>5, <4>6, <4>7, <4>8 DEF FocusStep
    <3>3. CASE RaiseWindow
      BY <1>1, <3>1, <3>3 DEF RaiseWindow, Focused
    <3>4. CASE SwitchClient \/ SelectWindow
      <4>1. f.raised /\ f.pid \in Clients
        BY <1>1, <3>4 DEF SwitchClient, SelectWindow, Order
      <4>2. Go("window") \/ Go("pane")
        BY <3>1, <3>4 DEF SwitchClient, SelectWindow
      <4> QED
        BY <1>1, <4>1, <4>2, Kept DEF Steps
    <3> QED
      BY <3>2, <3>3, <3>4
  <2> QED
    BY <1>1, <2>1, <2>2 DEF Order
<1>8. Course'
  <2> SUFFICES ASSUME ~touched', f'.at # "idle" PROVE OnCourse'
    BY DEF Course
  <2>1. ~touched
    BY Switched
  <2>2. CASE LookAlive
    BY <1>1, <2>2, CourseProbe
  <2>3. CASE ~LookAlive
    <3>1. f.at \notin {"idle", "alive"}
      BY <2>3
      DEF FocusStep, ReadEnviron, WalkAncestors, ListWindows, RaiseWindow, AskSession,
          ListViewers, ListClients, SwitchClient, SelectWindow, SelectPane, ListTerminals,
          OpenOrca, RelistTerminals, SwitchTab, FindOrcaWindow, ListWorktrees, RegisterChat,
          RevealWorktree, ActivateChat, RpcFails, Fail, Steps
    <3>2. OnCourse
      BY <1>1, <2>1, <3>1 DEF Course
    <3>3. ~SelectPane /\ ~RpcFails /\ ~Fail
      BY DoneTyped DEF SelectPane, RpcFails, Fail
    <3> QED
      BY <1>1, <2>3, <3>2, <3>3, CoursePlace, CourseWalk, CourseWindow, CourseRaise,
         CourseClient, CoursePane, CourseTab, CourseChat, CourseFind DEF FocusStep
  <2> QED
    BY <2>2, <2>3
<1> QED
  BY <1>2, <1>3, <1>4, <1>5, <1>6, <1>7, <1>8 DEF Inv

\* Who changes something under a focus leaves a mark, but for a look at another window
\* before one is raised and for a window of Orca that comes.
LEMMA CourseStays ==
  ASSUME Inv, UNCHANGED <<procs, f, touched, attached, recent, curTab>>,
         mapped \subseteq mapped',
         orca'.shown = orca.shown /\ orca'.worktree = orca.worktree
           /\ orca'.registered = orca.registered,
         f.at \in {"switch", "window", "pane"} => top' = top
  PROVE  Course'
<1> SUFFICES ASSUME ~touched, f.at \notin {"idle", "alive"} PROVE OnCourse'
  BY DEF Course
<1>1. OnCourse
  BY DEF Inv, Course
<1>2. AgentRuns' /\ Named' = Named
  BY <1>1, StillDesk DEF OnCourse
<1>3. Branch' /\ Walk' /\ Target'
  BY <1>1, <1>2 DEF OnCourse, Branch, Walk, Target
<1>4. Viewer'
  BY <1>1 DEF OnCourse, Viewer
<1>5. Front'
  BY <1>1, <1>2 DEF OnCourse, Front
<1> QED
  BY <1>2, <1>3, <1>4, <1>5 DEF OnCourse

LEMMA UserCourse ==
  ASSUME Inv, UserStep
  PROVE  Inv'
<1>1. ProcInv /\ TypeOK /\ Desk /\ Windowed /\ Order /\ Course /\ f \in Focused
  BY Parts DEF Inv
<1>2. ProcInv' /\ (~AgentRuns => ~AgentRuns') /\ f' = f
  BY <1>1, UserProc
<1>3. TypeOK'
  <2>1. ProcTypeOK'
    BY <1>2 DEF ProcInv
  <2> QED
    BY <1>1, <1>2, <2>1, UserScreen, PartsNext
<1>4. GoneStops'
  BY <1>2 DEF Inv, GoneStops
<1>5. Desk' /\ Windowed'
  BY <1>1, UserDesk, UserWindows
<1>6. Order'
  <2>1. climb' = climb
    BY DEF UserStep, LookAt, Detach, UseClient, UsePane, CloseWindow, QuitOrca, UseOrca, procVars
  <2> QED
    BY <1>1, <1>2, <2>1 DEF Order
<1>7. Course'
  <2>1. CASE Touch
    <3>1. f.at \in Steps => touched'
      BY <2>1 DEF Touch
    <3> QED
      BY <1>1, <1>2, <3>1 DEF Course, Focused
  <2>2. CASE \E w \in mapped : LookAt(w)
    <3>1. /\ UNCHANGED <<procs, f, attached, recent, curTab, mapped, orca>>
          /\ touched' = (touched \/ f.raised)
      BY <2>2 DEF LookAt, procVars, tmux
    <3>2. CASE f.raised
      BY <3>1, <3>2 DEF Course
    <3>3. CASE ~f.raised
      <4>1. f.at \notin {"switch", "window", "pane"}
        BY <1>1, <3>3 DEF Order
      <4>2. touched' = touched
        BY <1>1, <3>1, <3>3, Parts DEF MovesOK
      <4> QED
        BY <3>1, <4>1, <4>2, CourseStays
    <3> QED
      BY <3>2, <3>3
  <2>3. Touch \/ \E w \in mapped : LookAt(w)
    BY DEF UserStep, Detach, UseClient, UsePane, CloseWindow, QuitOrca, UseOrca
  <2> QED
    BY <2>1, <2>2, <2>3
<1> QED
  BY <1>2, <1>3, <1>4, <1>5, <1>6, <1>7 DEF Inv

LEMMA OrcaCourse ==
  ASSUME Inv, OrcaStarts
  PROVE  Inv'
<1>1. ProcInv /\ TypeOK /\ Desk /\ Windowed /\ Order
  BY DEF Inv
<1>2. /\ UNCHANGED procVars /\ UNCHANGED <<procs, climb>>
      /\ UNCHANGED <<f, touched, top, attached, recent, curTab>> /\ mapped \subseteq mapped'
      /\ orca' = orca \/ orca' = [orca EXCEPT !.app = "up"]
  BY DEF OrcaStarts, tmux, procVars
<1>3. ProcInv' /\ AgentRuns' = AgentRuns
  BY <1>1, <1>2, StillProc
<1>4. TypeOK'
  <2>1. ProcTypeOK' /\ f' \in Focused
    BY <1>1, <1>2, <1>3, Parts DEF ProcInv
  <2> QED
    BY <1>1, <2>1, UserScreen, PartsNext
<1>5. GoneStops' /\ Order'
  BY <1>1, <1>2, <1>3 DEF Inv, GoneStops, Order
<1>6. Desk' /\ Windowed'
  BY <1>1, <1>2, StillDesk, WindowedStays
<1>7. Course'
  <2>1. orca'.shown = orca.shown /\ orca'.worktree = orca.worktree
        /\ orca'.registered = orca.registered
    BY <1>1, <1>2, Parts DEF OrcaOK
  <2> QED
    BY <1>2, <2>1, CourseStays
<1> QED
  BY <1>3, <1>4, <1>5, <1>6, <1>7 DEF Inv

LEMMA HostCourse ==
  ASSUME Inv, HostStep
  PROVE  Inv'
<1>1. ProcInv /\ TypeOK /\ Desk /\ Windowed /\ Order /\ Course /\ f \in Focused
  BY Parts DEF Inv
<1>2. ProcInv' /\ (~AgentRuns => ~AgentRuns') /\ f' \in {f, Idle}
  BY <1>1, HostProc
<1>3. UNCHANGED <<top, mapped, attached, recent, curTab, curPane, orca, moves>>
  BY DEF HostStep, screen, tmux
<1>4. TypeOK'
  <2>1. touched' \in BOOLEAN
    <3>1. (touched \/ f.at \in Steps) \in BOOLEAN /\ touched \in BOOLEAN
      BY <1>1, Parts DEF MovesOK
    <3> QED
      BY <3>1 DEF HostStep, Touch
  <2>2. MovesOK'
    BY <1>1, <1>3, <2>1, Parts DEF MovesOK
  <2>3. ScreenOK' /\ TmuxOK' /\ OrcaOK'
    BY <1>1, <1>3, ScreenStays
  <2>4. ProcTypeOK' /\ f' \in Focused
    BY <1>1, <1>2, IdleTyped DEF ProcInv
  <2> QED
    BY <2>2, <2>3, <2>4, PartsNext
<1>5. Desk' /\ Lasts
  BY <1>1, HostDesk
<1>6. Windowed'
  BY <1>1, <1>3, <1>5, WindowedStays
<1>7. CASE f' = Idle
  <2>1. GoneStops' /\ Order' /\ Course'
    BY <1>7 DEF GoneStops, Order, Course, Idle
  <2> QED
    BY <1>2, <1>4, <1>5, <1>6, <2>1 DEF Inv
<1>8. CASE f' = f
  <2>1. GoneStops'
    BY <1>2, <1>8 DEF Inv, GoneStops
  <2>2. CASE f.at = "idle"
    BY <1>2, <1>4, <1>5, <1>6, <1>8, <2>1, <2>2 DEF Inv, Order, Course
  <2>3. CASE f.at # "idle"
    <3>1. climb.at = "done"
      BY <1>1, <2>3 DEF Order
    <3>2. ~Capture
      BY <3>1 DEF Capture, ReadParent, ReadComm, ReadStart
    <3>3. climb' \in {climb, NoClimb}
      BY <3>2 DEF HostStep, Exit, Reuse, Reboot
    <3>4. climb'.at = "done"
      BY <3>1, <3>3 DEF NoClimb
    <3>5. Order'
      BY <1>1, <1>8, <3>4 DEF Order
    <3>6. touched'
      <4>1. f.at \in Steps
        BY <1>1, <2>3 DEF Focused
      <4>2. Touch
        BY <1>8, <2>3, <3>2 DEF HostStep, Idle
      <4> QED
        BY <4>1, <4>2 DEF Touch
    <3> QED
      BY <1>2, <1>4, <1>5, <1>6, <2>1, <3>5, <3>6 DEF Inv, Course
  <2> QED
    BY <2>2, <2>3
<1> QED
  BY <1>2, <1>7, <1>8

LEMMA StartStep ==
  ASSUME Inv, Start
  PROVE  Inv'
<1>1. ProcInv /\ TypeOK /\ Desk /\ Windowed
  BY DEF Inv
<1>2. /\ UNCHANGED procVars /\ UNCHANGED <<procs, climb>> /\ climb.at = "done"
      /\ UNCHANGED <<top, mapped, attached, recent, curTab, curPane, orca, moves>>
      /\ touched' = FALSE
      /\ f' = [Idle EXCEPT !.at = "alive", !.gone = ~AgentRuns]
  BY DEF Start, procVars, screen, tmux
<1>3. (~AgentRuns) \in BOOLEAN
  OBVIOUS
<1>4. f' \in Focused /\ f'.at = "alive" /\ f'.gone = ~AgentRuns
  BY <1>2, <1>3, IdleTyped DEF Focused, Steps
<1>5. ProcInv' /\ AgentRuns' = AgentRuns
  BY <1>1, <1>2, StillProc
<1>6. TypeOK'
  <2>1. MovesOK'
    BY <1>1, <1>2, Parts DEF MovesOK
  <2>2. ScreenOK' /\ TmuxOK' /\ OrcaOK'
    BY <1>1, <1>2, ScreenStays
  <2>3. ProcTypeOK'
    BY <1>5 DEF ProcInv
  <2> QED
    BY <1>4, <2>1, <2>2, <2>3, PartsNext
<1>7. Desk' /\ Windowed'
  BY <1>1, <1>2, StillDesk, WindowedStays
<1>8. GoneStops'
  BY <1>4, <1>5 DEF GoneStops
<1>9. Order' /\ Course'
  BY <1>2, <1>4 DEF Order, Course
<1> QED
  BY <1>5, <1>6, <1>7, <1>8, <1>9 DEF Inv

LEMMA NothingStep ==
  ASSUME Inv, UNCHANGED vars
  PROVE  Inv'
<1>1. ProcInv /\ TypeOK /\ Desk /\ Windowed /\ Order
  BY DEF Inv
<1>2. /\ UNCHANGED procVars /\ UNCHANGED <<procs, climb>>
      /\ UNCHANGED <<top, mapped, attached, recent, curTab, curPane, orca, f, touched, moves>>
  BY DEF vars, procVars, screen, tmux
<1>3. ProcInv' /\ AgentRuns' = AgentRuns
  BY <1>1, <1>2, StillProc
<1>4. TypeOK'
  <2>1. ProcTypeOK'
    BY <1>3 DEF ProcInv
  <2> QED
    BY <1>1, <1>2, <2>1, ScreenStays, PartsNext
<1>5. Desk' /\ Windowed'
  BY <1>1, <1>2, StillDesk, WindowedStays
<1>6. GoneStops' /\ Order' /\ Course'
  BY <1>1, <1>2, <1>3, CourseStays DEF Inv, GoneStops, Order
<1> QED
  BY <1>3, <1>4, <1>5, <1>6 DEF Inv

LEMMA InvStep == Inv /\ [Next]_vars => Inv'
BY StartStep, CommandStep, UserCourse, OrcaCourse, HostCourse, NothingStep DEF Next

LEMMA InvCorrect == Spec => []Inv
BY InvInit, InvStep, PTL DEF Spec

\* The probe tells the truth, whatever happens to the process table
\* (liveness.go, Alive).
THEOREM AliveCorrect == Spec => []AliveIsTrue
<1>1. Inv => AliveIsTrue
  BY ProbeTrue DEF Inv
<1> QED
  BY <1>1, InvCorrect, PTL

\* Capture finds the agent or nothing, below any chain of shells, whoever of them ends
\* during the climb (liveness.go, Capture), where orphans go to init.
THEOREM FingerprintCorrect == Spec => []FingerprintIsAgent
<1>1. Inv => FingerprintIsAgent
  BY ProbeTrue DEF Inv
<1> QED
  BY <1>1, InvCorrect, PTL

\* A focus whose agent was gone when it began leaves the screen as it is
\* (focus.go, Focus).
THEOREM GoneCorrect == Spec => GoneMovesNothing
<1>1. Inv => (FocusStep /\ f.gone => UNCHANGED screen)
  BY GoneStep
<1>2. Inv /\ [Next]_vars => [FocusStep /\ f.gone => UNCHANGED screen]_vars
  BY <1>1
<1> QED
  BY <1>2, InvCorrect, PTL DEF Spec, GoneMovesNothing

\* The focus process and the screen keep their types: it walks up to init and no
\* further, and it moves only to windows, clients and panes there are (focus.go, Focus).
THEOREM TypeCorrect == Spec => []TypeOK
<1>1. Inv => TypeOK
  BY DEF Inv
<1> QED
  BY <1>1, InvCorrect, PTL

\* A client is taken from its session only when no client shows the agent's, and then
\* it is the one used last, for any number of clients and sessions (focus.go,
\* pickSessionClient).
THEOREM ViewersCorrect == Spec => ViewersAreLeft
<1> DEFINE Left == /\ \A c \in Clients : attached[c] # AgentSession
                   /\ attached[recent] # Detached =>
                        attached' = [attached EXCEPT ![recent] = AgentSession]
<1>1. ASSUME Inv, FocusStep, ~touched, attached' # attached
      PROVE  Left
  <2>1. f.at = "switch" /\ attached' = [attached EXCEPT ![f.pid] = AgentSession]
    BY <1>1, Switched
  <2>2. f.pid \in Clients /\ OnCourse
    BY <1>1, <2>1 DEF Inv, Order, Course
  <2>3. /\ \A c \in Clients : attached[c] # AgentSession
        /\ attached[recent] # Detached => f.pid = recent
    BY <2>1, <2>2 DEF OnCourse, Viewer
  <2> QED
    BY <2>1, <2>3
<1>2. Inv /\ [Next]_vars => [FocusStep /\ ~touched /\ attached' # attached => Left]_vars
  BY <1>1
<1> QED
  BY <1>2, InvCorrect, PTL DEF Spec, ViewersAreLeft

\* tmux changes only under the user's eyes: the client's window is in front, and it is
\* that client's terminal (focus.go, focusTmux).
THEOREM RaisedCorrect == Spec => RaisedFirst
<1>1. ASSUME Inv, FocusStep, tmux' # tmux
      PROVE  f.raised /\ (touched \/ (top # NoWindow /\ Owner[top] = ParentOf[f.pid]))
  <2>1. f.at \in {"switch", "window", "pane"}
    BY <1>1
    DEF FocusStep, LookAlive, ReadEnviron, WalkAncestors, ListWindows, RaiseWindow, AskSession,
        ListViewers, ListClients, SwitchClient, SelectWindow, SelectPane, ListTerminals,
        OpenOrca, RelistTerminals, SwitchTab, FindOrcaWindow, ListWorktrees, RegisterChat,
        RevealWorktree, ActivateChat, RpcFails, Fail, Looks, OrcaOnly, screen, tmux
  <2>2. f.raised
    BY <1>1, <2>1 DEF Inv, Order
  <2>3. CASE ~touched
    BY <1>1, <2>1, <2>2, <2>3 DEF Inv, Course, OnCourse, Front
  <2> QED
    BY <2>2, <2>3
<1>2. Inv /\ [Next]_vars =>
        [FocusStep /\ tmux' # tmux =>
           f.raised /\ (touched \/ (top # NoWindow /\ Owner[top] = ParentOf[f.pid]))]_vars
  BY <1>1
<1> QED
  BY <1>2, InvCorrect, PTL DEF Spec, RaisedFirst

\* The two steps that end a focus with success.
LEMMA OkSteps ==
  ASSUME Inv, Next, f.at # "idle", f'.at = "idle", f'.ok
  PROVE  (RaiseWindow /\ f.pid \notin Clients) \/ SelectPane
<1>1. f \in Focused
  BY Parts DEF Inv
<1>2. FocusStep
  <2>1. ~Start
    BY DEF Start
  <2>2. UserStep => f' = f
    BY UserProc DEF Inv
  <2>3. OrcaStarts => f' = f
    BY DEF OrcaStarts
  <2>4. HostStep => f' \in {f, Idle}
    BY HostProc DEF Inv
  <2> QED
    BY <2>1, <2>2, <2>3, <2>4 DEF Next, Idle
<1>3. ~Done(FALSE)
  BY DEF Done, Idle
<1>4. \A at \in Steps : ~Go(at)
  BY <1>1, Kept DEF Steps
<1>5. ~LookAlive /\ ~ReadEnviron /\ ~WalkAncestors /\ ~ListWindows
  <2>1. ~LookAlive
    <3>1. f' # [f EXCEPT !.at = "environ", !.pid = id.pid]
      BY <1>1 DEF Focused
    <3> QED
      BY <1>3, <3>1 DEF LookAlive
  <2>2. ~ReadEnviron
    <3>1. FirstStep[Told(procs[f.pid].env)] # "idle"
      BY DEF FirstStep, Told
    <3> QED
      BY <1>1, <1>3, <3>1 DEF ReadEnviron, Focused
  <2>3. ~WalkAncestors
    BY <1>1, <1>3, <1>4 DEF WalkAncestors, Focused, Steps
  <2>4. ~ListWindows
    BY <1>1, <1>3 DEF ListWindows, Focused
  <2> QED
    BY <2>1, <2>2, <2>3, <2>4
<1>6. ~AskSession /\ ~ListViewers /\ ~ListClients /\ ~SwitchClient /\ ~SelectWindow
  BY <1>1, <1>3, <1>4 DEF AskSession, ListViewers, ListClients, SwitchClient, SelectWindow, Pick,
                          Focused, Steps
<1>7. ~ListTerminals /\ ~OpenOrca /\ ~RelistTerminals /\ ~SwitchTab
  <2>1. ~Listed /\ ~Retry
    BY <1>1, <1>3 DEF Listed, Retry, Focused
  <2> QED
    BY <1>1, <1>3, <1>4, <2>1
    DEF ListTerminals, OpenOrca, RelistTerminals, SwitchTab, Focused, Steps
<1>8. ~FindOrcaWindow /\ ~ListWorktrees /\ ~RegisterChat /\ ~RevealWorktree /\ ~ActivateChat
  BY <1>1, <1>3, <1>4 DEF FindOrcaWindow, Retry, ListWorktrees, RegisterChat, RevealWorktree,
                          ActivateChat, Focused, Steps
<1>9. ~RpcFails /\ ~Fail
  BY <1>3 DEF RpcFails, Fail
<1>10. CASE RaiseWindow
  <2>1. f.pid \notin Clients
    BY <1>1, <1>10 DEF RaiseWindow, Focused
  <2> QED
    BY <1>10, <2>1
<1> QED
  BY <1>2, <1>5, <1>6, <1>7, <1>8, <1>9, <1>10 DEF FocusStep

\* A focus that says it succeeded has brought to the user's eyes what the environment of
\* the agent names, a bare terminal, a tmux pane, a tab or a chat of Orca, for any
\* windows, clients, sessions, panes and markers, true or handed on (focus.go, Focus).
THEOREM OkCorrect == Spec => OkShowsAgent
<1>1. ASSUME Inv, Next, f.at # "idle", f'.at = "idle", f'.ok, ~touched
      PROVE  AgentRuns' /\ Seen(Named)'
  <2>1. (RaiseWindow /\ f.pid \notin Clients) \/ SelectPane
    BY <1>1, OkSteps
  <2>2. ScreenOK /\ TmuxOK
    BY <1>1, Parts DEF Inv
  <2>3. OnCourse
    BY <1>1, <2>1 DEF Inv, Course, RaiseWindow, SelectPane
  <2>4. UNCHANGED procs
    BY <2>1 DEF RaiseWindow, SelectPane, procVars
  <2>5. AgentRuns' /\ Named' = Named
    BY <2>3, <2>4, StillDesk DEF OnCourse
  <2>6. CASE RaiseWindow /\ f.pid \notin Clients
    <3>1. f.addr \in mapped
      BY <2>3, <2>6 DEF RaiseWindow, OnCourse, Target
    <3>2. \/ Named = "bare" /\ Owner[f.addr] = procs[Agent].parent
          \/ Named \in {"tab", "chat"} /\ orca.shown = Named /\ f.addr \in OrcaWindows
      BY <2>3, <2>6 DEF RaiseWindow, OnCourse, Target
    <3>3. top' = f.addr /\ top' # NoWindow /\ orca' = orca
      BY <2>2, <2>6, <3>1, FocusAssumption DEF RaiseWindow, ScreenOK
    <3>4. CASE Named = "bare"
      BY <2>4, <2>5, <3>2, <3>3, <3>4 DEF Seen
    <3>5. CASE Named \in {"tab", "chat"}
      BY <2>5, <3>2, <3>3, <3>5 DEF Seen
    <3> QED
      BY <3>2, <3>4, <3>5
  <2>7. CASE SelectPane
    <3>1. f.pid \in Clients
      BY <1>1, <2>7 DEF Inv, Order, SelectPane
    <3>2. /\ Named = "pane" /\ top # NoWindow /\ Owner[top] = ParentOf[f.pid]
          /\ attached[f.pid] = AgentSession /\ curTab[AgentSession] = AgentTab
      BY <2>3, <2>7 DEF SelectPane, OnCourse, Viewer, Front
    <3>3. top' = top /\ attached' = attached /\ curTab' = curTab
          /\ curPane'[AgentTab] = AgentPane
      BY <2>2, <2>7, TmuxFacts DEF SelectPane, TmuxOK
    <3> QED
      BY <2>5, <3>1, <3>2, <3>3 DEF Seen
  <2> QED
    BY <2>1, <2>6, <2>7
<1>2. Inv /\ [Next]_vars =>
        [f.at # "idle" /\ f'.at = "idle" /\ f'.ok /\ ~touched => AgentRuns' /\ Seen(Named)']_vars
  BY <1>1
<1> QED
  BY <1>2, InvCorrect, PTL DEF Spec, OkShowsAgent
=============================================================================
