------------------------------- MODULE Store -------------------------------
(***************************************************************************)
(* The sessions table of internal/store/store.go and the statements that   *)
(* read and write it, each as an operator on the table.  Every operator is *)
(* one SQL statement, which SQLite runs atomically; what happens between   *)
(* two statements is the business of the module that uses this one.        *)
(*                                                                         *)
(* The table is a total function from session ids to rows, and an id that  *)
(* has no row maps to NoRow, whose status is the "" that CurrentStatus     *)
(* answers for an unknown id.  Of a row's columns the model keeps the ones  *)
(* that decide anything: native_id (with agent: a Native stands for the    *)
(* pair), host_id, last_event_at in Unix seconds, status, and the process  *)
(* fingerprint (pid, pid_start, boot_id) as one value of Proc, NoProc for  *)
(* pid = 0.                                                                *)
(***************************************************************************)
EXTENDS SessionState, Integers

CONSTANTS
  SessionId,  \* the ids the daemon may assign
  Native,     \* (agent, native id) pairs
  NoNative,   \* the empty native id
  Host,       \* hostnames
  NoHost,     \* the empty hostname
  Proc,       \* process fingerprints
  NoProc      \* pid 0: no process was captured

ASSUME StoreAssumption ==
  /\ NoNative \notin Native
  /\ NoHost \notin Host
  /\ NoProc \notin Proc
  /\ IsFiniteSet(SessionId)

Row == [native : Native \cup {NoNative}, host : Host \cup {NoHost}, last : Nat,
        status : State \cup {NoState}, proc : Proc \cup {NoProc}]

NoRow == [native |-> NoNative, host |-> NoHost, last |-> 0,
          status |-> NoState, proc |-> NoProc]

EmptyTable == [id \in SessionId |-> NoRow]

Exists(tbl, id) == tbl[id].status # NoState

\* A slip: a status outside the domain's states.
CreateSessionAsNew(tbl, id, nat, host, ts, proc) ==
  [tbl EXCEPT ![id] = [native |-> nat, host |-> host, last |-> ts,
                       status |-> "new", proc |-> proc]]

CreateSession(tbl, id, nat, host, ts, proc) ==
  [tbl EXCEPT ![id] = [native |-> nat, host |-> host, last |-> ts,
                       status |-> "idle", proc |-> proc]]

\* The ids a native id may resolve to: the query takes the first it meets.
FindSessionByNative(tbl, nat) ==
  {id \in SessionId : nat # NoNative /\ Exists(tbl, id) /\ tbl[id].native = nat}

\* A slip: the fingerprint of the first contact is kept for good.
UpdateIdentityNever(tbl, id, proc) == tbl

UpdateIdentity(tbl, id, proc) ==
  IF Exists(tbl, id) THEN [tbl EXCEPT ![id].proc = proc] ELSE tbl

\* Slips: no recency guard, and a guard that wants a strictly newer event.
ChangesAlways(tbl, id, ts) == Exists(tbl, id)
ChangesIfNewer(tbl, id, ts) == Exists(tbl, id) /\ ts > tbl[id].last

\* The recency guard of UpdateStatus: whether the statement changes a row.
Changes(tbl, id, ts) == Exists(tbl, id) /\ ts >= tbl[id].last

UpdateStatus(tbl, id, status, ts) ==
  IF Changes(tbl, id, ts)
  THEN [tbl EXCEPT ![id].status = status, ![id].last = ts]
  ELSE tbl

CurrentStatus(tbl, id) == tbl[id].status

CountByStatus(tbl, status) == Cardinality({id \in SessionId : tbl[id].status = status})

\* What a reaper remembers of a row between its SELECT and its UPDATE.
Snapshot == [id : SessionId, last : Nat, proc : Proc \cup {NoProc}]
SnapshotOf(tbl, id) == [id |-> id, last |-> tbl[id].last, proc |-> tbl[id].proc]

\* A slip: a session that finished is still looked at.
NotDead(tbl) == {id \in SessionId : Exists(tbl, id) /\ tbl[id].status # "dead"}

\* The sessions a reaper looks at: those that have not ended.
NotTerminal(tbl) == {id \in SessionId : Exists(tbl, id) /\ ~IsTerminal(tbl[id].status)}

\* A slip: only running sessions are probed.
LocalStaleRunning(tbl, host) ==
  {SnapshotOf(tbl, id) : id \in {i \in SessionId :
      tbl[i].status = "running" /\ tbl[i].host = host /\ tbl[i].proc # NoProc}}

\* The SELECT of ReapStale: the sessions of this host that can be probed.
LocalStale(tbl, host) ==
  {SnapshotOf(tbl, id) : id \in {i \in NotTerminal(tbl) :
                                   tbl[i].host = host /\ tbl[i].proc # NoProc}}

\* Slips: the cutoff itself counts as silent, and the wrong hosts are asked for.
RemoteStaleAtCutoff(tbl, host, cutoff) ==
  {SnapshotOf(tbl, id) : id \in {i \in NotTerminal(tbl) :
                                   tbl[i].host # host /\ tbl[i].last <= cutoff}}
RemoteStaleHere(tbl, host, cutoff) ==
  {SnapshotOf(tbl, id) : id \in {i \in NotTerminal(tbl) :
                                   tbl[i].host = host /\ tbl[i].last < cutoff}}

\* The SELECT of ReapRemoteStale: sessions elsewhere, last seen before cutoff.
RemoteStale(tbl, host, cutoff) ==
  {SnapshotOf(tbl, id) : id \in {i \in NotTerminal(tbl) :
                                   tbl[i].host # host /\ tbl[i].last < cutoff}}
=============================================================================
