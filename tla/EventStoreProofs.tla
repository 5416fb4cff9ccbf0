-------------------------- MODULE EventStoreProofs --------------------------
(***************************************************************************)
(* The columns that cache the events table agree with it, for any number of *)
(* processes that open, migrate, write and give up in any order.            *)
(***************************************************************************)
EXTENDS EventStore, FiniteSetTheorems, TLAPS

-----------------------------------------------------------------------------
(* The order of the events: in a finite table each of them has a rank, and   *)
(* each rank an event.                                                      *)

\* Different events have different numbers.
Distinct(P) == \A e, f \in P : e.id = f.id => e = f

Later(P, e) == {f \in P : f # e /\ NotAfter(e, f)}

LEMMA Total ==
  ASSUME NEW P \in SUBSET Event, Distinct(P), NEW e \in P, NEW f \in P, e # f
  PROVE  NotAfter(e, f) <=> ~NotAfter(f, e)
<1>1. e.ts \in Nat /\ f.ts \in Nat /\ e.id \in Nat /\ f.id \in Nat
  BY DEF Event
<1>2. e.id # f.id
  BY DEF Distinct
<1> QED BY <1>1, <1>2 DEF NotAfter

LEMMA Transitive ==
  ASSUME NEW e \in Event, NEW f \in Event, NEW g \in Event, NotAfter(e, f), NotAfter(f, g)
  PROVE  NotAfter(e, g)
<1>1. e.ts \in Nat /\ f.ts \in Nat /\ g.ts \in Nat /\ e.id \in Nat /\ f.id \in Nat /\ g.id \in Nat
  BY DEF Event
<1> QED BY <1>1 DEF NotAfter

\* The rank of an event is below the number of events, and the later it comes the
\* lower it is.
LEMMA RankFacts ==
  ASSUME NEW P \in SUBSET Event, IsFiniteSet(P), Distinct(P), NEW e \in P
  PROVE  /\ Rank(P, e) \in 0 .. Cardinality(P) - 1
         /\ \A f \in Later(P, e) : Rank(P, f) < Rank(P, e)
<1>1. Cardinality(P) \in Nat
  BY FS_CardinalityType
<1>2. \A f \in P : /\ Rank(P, f) = Cardinality(Later(P, f))
                    /\ IsFiniteSet(Later(P, f)) /\ Rank(P, f) \in Nat
  <2> TAKE f \in P
  <2>1. Later(P, f) \in SUBSET P
    BY DEF Later
  <2> QED BY <2>1, FS_Subset, FS_CardinalityType DEF Rank, Later
<1>3. Rank(P, e) \in 0 .. Cardinality(P) - 1
  <2>1. Later(P, e) \in SUBSET P /\ Later(P, e) # P
    BY DEF Later
  <2>2. Cardinality(Later(P, e)) <= Cardinality(P) /\ Cardinality(Later(P, e)) # Cardinality(P)
    BY <2>1, FS_Subset
  <2> QED BY <1>1, <1>2, <2>2
<1>4. ASSUME NEW f \in Later(P, e) PROVE Rank(P, f) < Rank(P, e)
  <2>1. f \in P /\ f # e /\ NotAfter(e, f)
    BY DEF Later
  <2>2. \A g \in Later(P, f) : g \in Later(P, e)
    <3> TAKE g \in Later(P, f)
    <3>1. g \in P /\ g # f /\ NotAfter(f, g)
      BY DEF Later
    <3>2. NotAfter(e, g)
      BY <2>1, <3>1, Transitive
    <3>3. g # e
      BY <2>1, <3>1, Total
    <3> QED BY <3>1, <3>2, <3>3 DEF Later
  <2>3. f \notin Later(P, f)
    BY DEF Later
  <2>4. Later(P, f) \in SUBSET Later(P, e) /\ Later(P, f) # Later(P, e)
    BY <2>2, <2>3
  <2>5. /\ Cardinality(Later(P, f)) <= Cardinality(Later(P, e))
        /\ Cardinality(Later(P, f)) # Cardinality(Later(P, e))
    BY <1>2, <2>4, FS_Subset
  <2> QED BY <1>2, <2>1, <2>5
<1> QED BY <1>3, <1>4

LEMMA RankSeparates ==
  ASSUME NEW P \in SUBSET Event, IsFiniteSet(P), Distinct(P), NEW e \in P, NEW f \in P,
         Rank(P, e) = Rank(P, f)
  PROVE  e = f
<1> SUFFICES ASSUME e # f PROVE FALSE
  OBVIOUS
<1>1. Rank(P, e) \in Nat
  BY RankFacts, FS_CardinalityType
<1>2. f \in Later(P, e) \/ e \in Later(P, f)
  BY Total DEF Later
<1> QED BY <1>1, <1>2, RankFacts

\* As many events as ranks, and no two of one rank: none is missing.
LEMMA EveryRank ==
  ASSUME NEW P \in SUBSET Event, IsFiniteSet(P), Distinct(P), NEW k \in 0 .. Cardinality(P) - 1
  PROVE  \E e \in P : Rank(P, e) = k
<1> DEFINE ranks == 0 .. Cardinality(P) - 1
<1> DEFINE rank == [e \in P |-> Rank(P, e)]
<1>1. Cardinality(P) \in Nat
  BY FS_CardinalityType
<1>2. IsFiniteSet(ranks) /\ Cardinality(ranks) = Cardinality(P)
  BY <1>1, FS_Interval
<1>3. rank \in [P -> ranks]
  BY RankFacts
<1>4. rank \in Injection(P, ranks)
  BY <1>3, RankSeparates DEF Injection, IsInjective
<1>5. rank \in Surjection(P, ranks)
  BY <1>2, <1>4, FS_Injection
<1> QED BY <1>5 DEF Surjection

\* Of several events one is the newest.
LEMMA NewestIs ==
  ASSUME NEW P \in SUBSET Event, IsFiniteSet(P), Distinct(P), P # {}
  PROVE  Newest(P) \in P /\ \A f \in P : NotAfter(f, Newest(P))
<1>1. Cardinality(P) \in Nat \ {0}
  BY FS_CardinalityType, FS_EmptySet
<1>2. PICK e \in P : Rank(P, e) = 0
  BY <1>1, EveryRank
<1>3. Later(P, e) = {}
  <2>1. Later(P, e) \in SUBSET P
    BY DEF Later
  <2>2. IsFiniteSet(Later(P, e)) /\ Cardinality(Later(P, e)) = 0
    BY <1>2, <2>1, FS_Subset DEF Rank, Later
  <2> QED BY <2>2, FS_EmptySet
<1>4. \A f \in P : f = e \/ ~NotAfter(e, f)
  BY <1>3 DEF Later
<1>5. NotAfter(e, e)
  BY DEF NotAfter, Event
<1>6. \A f \in P : NotAfter(f, e)
  BY <1>4, <1>5, Total
<1> QED BY <1>6 DEF Newest

-----------------------------------------------------------------------------
(* The invariant.                                                          *)

\* The columns that the ALTERs before the k-th add.
Before(k) == {Columns[i] : i \in 1 .. k - 1}

\* A process is past an ALTER only if its column is there.
Migrated ==
  \A p \in Opener :
    IF at[p] \in DOMAIN Columns THEN Before(at[p]) \subseteq columns
    ELSE at[p] # Closed => columns = Range(Columns)

\* Events are numbered as they come.
InOrder ==
  /\ nextId >= 1
  /\ \A e \in events : e.id < nextId
  /\ IsFiniteSet(events) /\ Distinct(events)

\* An id without a row has nothing cached.
Blank == \A s \in SessionId \ known : prompt[s] = NoText /\ title[s] = NoText

Inv == TypeOK /\ Migrated /\ InOrder /\ Blank /\ PromptIsNewest /\ TitleIsLastReported

LEMMA ColumnsLength == Len(Columns) = 5 /\ DOMAIN Columns = 1 .. 5
BY DEF Columns

LEMMA AllColumns == Range(Columns) = Before(5) \cup {Columns[5]}
<1>1. Range(Columns) = {Columns[i] : i \in 1 .. 5}
  BY ColumnsLength DEF Range
<1>2. \A i \in 1 .. 5 : i \in 1 .. 5 - 1 \/ i = 5
  OBVIOUS
<1>3. \A i \in 1 .. 5 - 1 : i \in 1 .. 5
  OBVIOUS
<1> HIDE DEF Before
<1> QED BY <1>1, <1>2, <1>3 DEF Before

LEMMA LatestPromptType ==
  ASSUME NEW evs \in SUBSET Event, IsFiniteSet(evs), Distinct(evs), NEW s \in SessionId
  PROVE  LatestPrompt(evs, s) \in Text \cup {NoText}
<1>1. CASE Prompts(evs, s) = {}
  BY <1>1 DEF LatestPrompt
<1>2. CASE Prompts(evs, s) # {}
  <2>1. Prompts(evs, s) \in SUBSET evs
    BY DEF Prompts
  <2>2. IsFiniteSet(Prompts(evs, s)) /\ Distinct(Prompts(evs, s))
    BY <2>1, FS_Subset DEF Distinct
  <2>3. Newest(Prompts(evs, s)) \in Event
    BY <1>2, <2>1, <2>2, NewestIs
  <2>4. Newest(Prompts(evs, s)).prompt \in Text \cup {NoText}
    BY <2>3 DEF Event
  <2> QED BY <1>2, <2>4 DEF LatestPrompt
<1> QED BY <1>1, <1>2

\* An event leaves the prompts of the other sessions alone, and if it is no prompt
\* those of its own session too.
LEMMA SamePrompts ==
  ASSUME NEW evs, NEW e, NEW s, e.sid # s \/ e.kind # "user_prompt"
  PROVE  /\ Prompts(evs \cup {e}, s) = Prompts(evs, s)
         /\ LatestPrompt(evs \cup {e}, s) = LatestPrompt(evs, s)
<1>1. Prompts(evs \cup {e}, s) = Prompts(evs, s)
  BY DEF Prompts
<1> QED BY <1>1 DEF LatestPrompt

-----------------------------------------------------------------------------
(* Every step keeps it.                                                     *)

LEMMA InitInv == Init => Inv
<1> SUFFICES ASSUME Init PROVE Inv
  OBVIOUS
<1>1. /\ events \subseteq Event /\ IsFiniteSet(events)
      /\ \A e \in events : e.title = NoText /\ e.id <= Cardinality(events)
      /\ \A e, f \in events : e.id = f.id => e = f
  BY EventStoreAssumption DEF Init
<1>2. Cardinality(events) \in Nat
  BY <1>1, FS_CardinalityType
<1>3. columns \subseteq Range(Columns)
  <2>1. PICK n \in 0 .. Len(Columns) - 1 : columns = {Columns[i] : i \in 1 .. n}
    BY DEF Init
  <2>2. \A i \in 1 .. n : i \in DOMAIN Columns
    BY ColumnsLength
  <2> QED BY <2>1, <2>2 DEF Range
<1>4. known \subseteq SessionId
  BY <1>1 DEF Init, Event
<1>5. TypeOK
  <2>1. nextId \in Nat
    BY <1>2 DEF Init
  <2>2. at \in [Opener -> Closed .. Ready]
    BY ColumnsLength DEF Init, Closed, Ready
  <2> QED BY <1>1, <1>3, <1>4, <2>1, <2>2 DEF Init, TypeOK
<1>6. Migrated
  BY ColumnsLength DEF Init, Migrated, Closed
<1>7. InOrder
  BY <1>1, <1>2 DEF Init, InOrder, Distinct, Event
<1>8. PromptIsNewest /\ Blank
  BY <1>4 DEF Init, PromptIsNewest, Blank
<1>9. TitleIsLastReported
  BY <1>1, <1>4 DEF Init, TitleIsLastReported, Titled
<1> QED BY <1>1, <1>5, <1>6, <1>7, <1>8, <1>9 DEF Inv

\* A step that only moves a process.
LEMMA MoveInv ==
  ASSUME Inv, UNCHANGED <<known, cache, events, nextId, filled>>
  PROVE  InOrder' /\ Blank' /\ PromptIsNewest' /\ TitleIsLastReported'
BY DEF Inv, Distinct, cache, InOrder, Blank, PromptIsNewest, TitleIsLastReported

LEMMA OpenInv == ASSUME Inv, NEW p \in Opener, Open(p) \/ Leave(p) PROVE Inv'
<1> USE ColumnsLength DEF Inv, TypeOK
<1>1. InOrder' /\ Blank' /\ PromptIsNewest' /\ TitleIsLastReported'
  BY MoveInv DEF Open, Leave
<1>2. TypeOK'
  BY DEF Open, Leave, Goto, cache, Closed, Ready
<1>3. Before(1) = {}
  BY DEF Before
<1>4. Migrated'
  BY <1>3 DEF Open, Leave, Goto, Migrated, Closed
<1> QED BY <1>1, <1>2, <1>4

LEMMA AlterInv == ASSUME Inv, NEW p \in Opener, Alter(p) PROVE Inv'
<1> USE ColumnsLength DEF Inv, TypeOK
<1>1. InOrder' /\ Blank' /\ PromptIsNewest' /\ TitleIsLastReported'
  BY MoveInv DEF Alter
<1>2. at[p] \in 1 .. 5
  BY DEF Alter
<1>3. columns' = columns \cup {Columns[at[p]]} /\ Columns[at[p]] \in Range(Columns)
  BY <1>2 DEF Alter, Range
<1>4. /\ at' = [at EXCEPT ![p] = at'[p]]
      /\ at'[p] = at[p] + 1 \/ (at[p] = 5 /\ at'[p] = Ready /\ Columns[5] \in columns)
  BY <1>2 DEF Alter, Goto
<1>5. TypeOK'
  BY <1>2, <1>3, <1>4 DEF Alter, cache, Closed, Ready
<1>6. Before(at[p]) \subseteq columns
  BY <1>2 DEF Migrated
<1>7. Before(at[p] + 1) = Before(at[p]) \cup {Columns[at[p]]}
  <2>1. \A i \in Int : i \in 1 .. (at[p] + 1) - 1 <=> i \in 1 .. at[p] - 1 \/ i = at[p]
    BY <1>2
  <2> QED BY <1>2, <2>1 DEF Before
<1>8. Migrated'
  <2> SUFFICES ASSUME NEW q \in Opener
               PROVE  IF at'[q] \in DOMAIN Columns THEN Before(at'[q]) \subseteq columns'
                      ELSE at'[q] # Closed => columns' = Range(Columns)
    BY DEF Migrated
  <2>1. CASE q # p
    BY <1>3, <1>4, <2>1 DEF Migrated
  <2>2. CASE q = p /\ at[p] < 5
    BY <1>2, <1>3, <1>4, <1>6, <1>7, <2>2
  <2>3. CASE q = p /\ at[p] = 5
    <3>1. columns' = Range(Columns)
      BY <1>3, <1>6, <2>3, AllColumns
    <3>2. at'[p] \notin DOMAIN Columns
      BY <1>4, <2>3 DEF Ready
    <3> QED BY <2>3, <3>1, <3>2
  <2> QED BY <1>2, <2>1, <2>2, <2>3
<1> QED BY <1>1, <1>5, <1>8

LEMMA BackfillInv == ASSUME Inv, NEW p \in Opener, Backfill(p) PROVE Inv'
<1> USE ColumnsLength DEF Inv, TypeOK
<1>2. prompt' \in [SessionId -> Text \cup {NoText}]
  BY LatestPromptType DEF Backfill, InOrder
<1>3. \A s \in known' : prompt'[s] = LatestPrompt(events, s) /\ events' = events
  BY DEF Backfill
<1>4. PromptIsNewest'
  BY <1>3 DEF PromptIsNewest
<1>5. InOrder' /\ Blank' /\ TitleIsLastReported'
  BY DEF Backfill, InOrder, Distinct, Blank, TitleIsLastReported
<1>6. TypeOK'
  BY <1>2 DEF Backfill, Goto, Closed, Ready
<1>7. Migrated'
  BY DEF Backfill, Goto, Migrated, Filling, Ready, Closed
<1> QED BY <1>4, <1>5, <1>6, <1>7

LEMMA CreateSessionInv ==
  ASSUME Inv, NEW p \in Opener, NEW s \in SessionId, CreateSession(p, s)
  PROVE  Inv'
<1> USE DEF Inv, TypeOK
<1>2. TypeOK' /\ Migrated' /\ InOrder' /\ Blank'
  BY DEF CreateSession, cache, Migrated, InOrder, Distinct, Blank
<1>3. \A e \in events : e.sid # s
  BY DEF CreateSession
<1>4. LatestPrompt(events, s) = NoText /\ Titled(events, s) = {}
  BY <1>3 DEF LatestPrompt, Prompts, Titled
<1>5. prompt[s] = NoText /\ title[s] = NoText
  BY DEF CreateSession, Blank
<1>6. PromptIsNewest'
  BY <1>4, <1>5 DEF CreateSession, cache, PromptIsNewest
<1>7. TitleIsLastReported'
  BY <1>4, <1>5 DEF CreateSession, cache, TitleIsLastReported
<1> QED BY <1>2, <1>6, <1>7

LEMMA AppendEventInv ==
  ASSUME Inv, NEW p \in Opener, NEW e \in NextEvents, AppendEvent(p, e)
  PROVE  Inv'
<1> USE DEF Inv, TypeOK
<1>1. nextId \in 1 .. MaxEvents
  BY EventStoreAssumption DEF NextEvents, InOrder
<1>2. e \in Event /\ e.id = nextId
  <2>1. e \in [id : {nextId}, sid : SessionId, ts : 0 .. MaxTime, kind : Kind,
               prompt : Said[nextId] \cup {NoText}, title : Said[nextId] \cup {NoText}]
    BY <1>1 DEF NextEvents
  <2>2. Said[nextId] \subseteq Text
    BY <1>1, EventStoreAssumption
  <2>3. 0 .. MaxTime \subseteq Nat
    OBVIOUS
  <2> QED BY <2>1, <2>2, <2>3 DEF Event
<1>3. /\ events' = events \cup {e} /\ nextId' = nextId + 1 /\ known' = known
      /\ filled' = filled /\ at' = at /\ columns' = columns
  BY DEF AppendEvent
<1>4. IsFiniteSet(events')
  BY <1>3, FS_AddElement DEF InOrder
<1>5. Distinct(events')
  BY <1>2, <1>3 DEF InOrder, Distinct, Event
<1>6. e.sid \in SessionId /\ e.title \in Text \cup {NoText} /\ e.id \in Nat
  BY <1>2 DEF Event
<1>7. LatestPrompt(events', e.sid) \in Text \cup {NoText}
  BY <1>2, <1>3, <1>4, <1>5, <1>6, LatestPromptType
<1>8. TypeOK' /\ Migrated'
  BY <1>2, <1>3, <1>6, <1>7 DEF AppendEvent, Migrated
<1>9. InOrder'
  BY <1>2, <1>3, <1>4, <1>5 DEF InOrder, Distinct, Event
<1>10. Blank'
  BY <1>3 DEF AppendEvent, Blank
<1>11. PromptIsNewest'
  <2> SUFFICES ASSUME NEW s \in known
               PROVE  \/ prompt'[s] = LatestPrompt(events', s)
                      \/ ~filled /\ prompt'[s] = NoText
    BY <1>3 DEF PromptIsNewest
  <2>1. CASE e.sid = s /\ e.kind = "user_prompt"
    BY <2>1, <1>3 DEF AppendEvent
  <2>2. CASE e.sid # s \/ e.kind # "user_prompt"
    <3>1. prompt'[s] = prompt[s]
      BY <2>2 DEF AppendEvent
    <3> QED BY <1>3, <2>2, <3>1, SamePrompts DEF PromptIsNewest
  <2> QED BY <2>1, <2>2
<1>12. TitleIsLastReported'
  <2> SUFFICES ASSUME NEW s \in known
               PROVE  /\ Titled(events', s) = {} => title'[s] = NoText
                      /\ \A l \in Titled(events', s) :
                           (\A f \in Titled(events', s) : f.id <= l.id) => title'[s] = l.title
    BY <1>3 DEF TitleIsLastReported
  <2>1. CASE e.sid = s /\ e.title # NoText
    <3>1. title'[s] = e.title
      BY <2>1 DEF AppendEvent
    <3>2. e \in Titled(events', s)
      BY <1>3, <2>1 DEF Titled
    <3>3. ASSUME NEW l \in Titled(events', s), \A f \in Titled(events', s) : f.id <= l.id
          PROVE  l = e
      <4>1. nextId <= l.id
        BY <1>2, <3>2, <3>3
      <4>2. l \in events \/ l = e
        BY <1>3 DEF Titled
      <4>3. l \in events => l.id < nextId /\ l.id \in Nat
        BY DEF InOrder, Event
      <4> QED BY <4>1, <4>2, <4>3
    <3> QED BY <3>1, <3>2, <3>3
  <2>2. CASE e.sid # s \/ e.title = NoText
    <3>1. title'[s] = title[s]
      BY <2>2 DEF AppendEvent
    <3>2. Titled(events', s) = Titled(events, s)
      BY <1>3, <2>2 DEF Titled
    <3> QED BY <3>1, <3>2 DEF TitleIsLastReported
  <2> QED BY <2>1, <2>2
<1> QED BY <1>8, <1>9, <1>10, <1>11, <1>12

LEMMA StepInv == Inv /\ [Next]_vars => Inv'
<1>1. ASSUME Inv, UNCHANGED vars PROVE Inv'
  BY <1>1, MoveInv DEF Inv, TypeOK, Migrated, vars, cache
<1>2. ASSUME Inv, Next PROVE Inv'
  <2>1. PICK p \in Opener :
          \/ Open(p) \/ Alter(p) \/ Backfill(p) \/ Leave(p)
          \/ \E s \in SessionId : CreateSession(p, s)
          \/ \E e \in NextEvents : AppendEvent(p, e)
    BY <1>2 DEF Next
  <2> QED BY <1>2, <2>1, OpenInv, AlterInv, BackfillInv, CreateSessionInv, AppendEventInv
<1> QED BY <1>1, <1>2

-----------------------------------------------------------------------------
(* What follows.                                                           *)

\* Every variable has its type.
THEOREM TypeCorrect == Spec => []TypeOK
<1>1. Inv => TypeOK
  BY DEF Inv
<1> QED BY <1>1, InitInv, StepInv, PTL DEF Spec

\* last_prompt shows each session's newest prompt, or nothing as long as it has not
\* been filled.
THEOREM PromptCorrect == Spec => []PromptIsNewest
<1>1. Inv => PromptIsNewest
  BY DEF Inv
<1> QED BY <1>1, InitInv, StepInv, PTL DEF Spec

\* title shows the last title that arrived.
THEOREM TitleCorrect == Spec => []TitleIsLastReported
<1>1. Inv => TitleIsLastReported
  BY DEF Inv
<1> QED BY <1>1, InitInv, StepInv, PTL DEF Spec

\* However many processes migrate at once and wherever they give up, none has the
\* database open before every column is there.
THEOREM MigrationCorrect == Spec => []OpenMeansMigrated
<1>1. Inv => OpenMeansMigrated
  BY ColumnsLength DEF Inv, TypeOK, Migrated, OpenMeansMigrated, Ready, Closed
<1> QED BY <1>1, InitInv, StepInv, PTL DEF Spec

\* What a row of the history is: the event of its rank.
LEMMA ShownIs ==
  ASSUME NEW P \in SUBSET Event, IsFiniteSet(P), Distinct(P), NEW n \in 0 .. Cardinality(P),
         NEW i \in 1 .. n
  PROVE  LET e == CHOOSE e \in P : Rank(P, e) = n - i
         IN  e \in P /\ Rank(P, e) = n - i
<1>1. Cardinality(P) \in Nat
  BY FS_CardinalityType
<1>2. n - i \in 0 .. Cardinality(P) - 1
  BY <1>1
<1>3. \E e \in P : Rank(P, e) = n - i
  BY <1>2, EveryRank
<1> QED BY <1>3

\* The last prompt among the newest events of a session, which `sm show` prints, is the
\* last_prompt that `sm status` prints, for every table and every limit.
THEOREM ListCorrect == Spec => []ListAgreesWithHistory
<1>1. ASSUME Inv, filled, NEW s \in known, NEW limit \in 1 .. MaxEvents,
             NEW i \in DOMAIN RecentEvents(events, s, limit),
             RecentEvents(events, s, limit)[i].kind = "user_prompt",
             \A j \in DOMAIN RecentEvents(events, s, limit) :
               RecentEvents(events, s, limit)[j].kind = "user_prompt" => j <= i
      PROVE  prompt[s] = RecentEvents(events, s, limit)[i].prompt
  <2> DEFINE P == OfSession(events, s)
  <2> DEFINE n == AtMost(limit, Cardinality(P))
  <2> DEFINE row(k) == CHOOSE e \in P : Rank(P, e) = n - k
  <2> DEFINE shown == RecentEvents(events, s, limit)
  <2>1. P \in SUBSET events /\ events \in SUBSET Event
    BY <1>1 DEF OfSession, Inv, TypeOK
  <2>2. P \in SUBSET Event /\ IsFiniteSet(P) /\ Distinct(P)
    BY <1>1, <2>1, FS_Subset DEF Inv, InOrder, Distinct
  <2>3. Cardinality(P) \in Nat
    BY <2>2, FS_CardinalityType
  <2>4. n \in 0 .. Cardinality(P)
    BY <2>3 DEF AtMost
  <2>5. shown = [k \in 1 .. n |-> row(k)]
    BY DEF RecentEvents
  <2>6. \A k \in 1 .. n : row(k) \in P /\ Rank(P, row(k)) = n - k /\ shown[k] = row(k)
    BY <2>2, <2>4, <2>5, ShownIs
  <2>7. i \in 1 .. n
    BY <2>5
  <2> DEFINE e == shown[i]
  <2>8. e \in P /\ Rank(P, e) = n - i /\ e.kind = "user_prompt"
    BY <1>1, <2>6, <2>7
  <2> DEFINE Q == Prompts(events, s)
  <2> DEFINE l == Newest(Q)
  <2>9. e \in Q /\ Q \in SUBSET P
    BY <2>8 DEF Prompts, OfSession
  <2>10. l \in Q /\ NotAfter(e, l)
    <3>1. Q \in SUBSET Event /\ IsFiniteSet(Q) /\ Distinct(Q)
      BY <2>2, <2>9, FS_Subset DEF Distinct
    <3> QED BY <2>9, <3>1, NewestIs
  <2>11. l = e
    <3> SUFFICES ASSUME l # e PROVE FALSE
      OBVIOUS
    <3> DEFINE j == n - Rank(P, l)
    <3>1. l \in P /\ l \in Later(P, e)
      BY <2>8, <2>9, <2>10 DEF Later
    <3>2. Rank(P, l) \in Nat /\ Rank(P, l) < n - i
      BY <2>2, <2>3, <2>8, <3>1, RankFacts
    <3>3. j \in 1 .. n /\ j > i /\ n - j = Rank(P, l)
      BY <2>4, <2>7, <3>2
    <3>4. shown[j] \in P /\ Rank(P, shown[j]) = Rank(P, l)
      BY <2>6, <3>3
    <3>5. shown[j] = l
      BY <2>2, <3>1, <3>4, RankSeparates
    <3>6. l.kind = "user_prompt"
      BY <2>10 DEF Prompts
    <3>7. j <= i
      BY <1>1, <2>5, <3>3, <3>5, <3>6
    <3> QED BY <2>7, <3>3, <3>7
  <2>12. LatestPrompt(events, s) = l.prompt
    BY <2>9 DEF LatestPrompt
  <2> QED BY <1>1, <2>11, <2>12 DEF Inv, PromptIsNewest
<1>2. Inv => ListAgreesWithHistory
  BY <1>1 DEF ListAgreesWithHistory
<1> QED BY <1>2, InitInv, StepInv, PTL DEF Spec

=============================================================================
