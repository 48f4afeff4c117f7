-------------------------- MODULE OutboxRelay_proofs --------------------------
(***************************************************************************)
(* Proofs about OutboxRelay, for every set of paths, batch size and bound: *)
(* type correctness and PublishedIsDelivered for any number of relays,     *)
(* PathOrderPreserved and ConvergesToLatest for one relay; then, for any   *)
(* number of relays, DuplicatesNeedFailures: the passes lock disjoint sets *)
(* of rows, and of a row that no pass has sent yet there are no more       *)
(* copies than failures.                                                   *)
(***************************************************************************)
EXTENDS OutboxRelay, FiniteSetTheorems, WellFoundedInduction, TLAPS

-----------------------------------------------------------------------------
(* The inductive invariants *)

(* A relay between passes holds no row. *)
IdleInv == \A r \in Relays : stage[r] = "idle" => claimed[r] = {}

Inv1 == TypeOK /\ IdleInv

(* The rows that are published, or will be once a pass commits. *)
Done == published \cup UNION {marks[r] : r \in Relays}

(* What the topics hold, "topics" being log or log'. *)
Holds(topics, row) ==
  \E n \in DOMAIN topics[row.topic] : topics[row.topic][n] = row

(* Done rows, and the row a relay is about to mark, have been sent. *)
SentInv ==
  /\ \A row \in Done : Holds(log, row)
  /\ \A r \in Relays : stage[r] = "mark" => Holds(log, Current(r))

Inv2 == Inv1 /\ SentInv

(* No relay but r is in the middle of a pass. *)
Alone(r) == \A q \in Relays \ {r} : stage[q] = "idle"

Earlier(x, y) == SameKey(x, y) /\ x.id < y.id

(* Ids grow along the commits of a path: what its writer has drawn is      *)
(* above what the path has committed.                                      *)
WriterInv ==
  \A p \in Paths : \A new \in staged[p] :
    new.path = p /\ \A old \in rows : old.path = p => old.id < new.id

DrawnInv ==
  /\ \A row \in rows : row.id < nextId
  /\ \A p \in Paths : \A row \in staged[p] : row.id < nextId

(* A set of rows with every earlier one of the same key, among "all". *)
DownClosed(S, all) ==
  \A x \in S, y \in all : Earlier(y, x) => y \in S

(* One relay works through the rows of a key in order. *)
QueueInv ==
  /\ DownClosed(published, rows)
  /\ DownClosed(Done, rows)
  /\ \A r \in Relays :
       /\ batch[r] \cap Done = {}
       /\ DownClosed(Done \cup batch[r], rows)

(* The row about to be marked is the last its topic got. *)
MarkInv ==
  \A r \in Relays : stage[r] = "mark" =>
    LET t == Current(r).topic
    IN  log[t] # <<>> /\ log[t][Len(log[t])] = Current(r)

LogTopics == \A t \in Topics : \A n \in DOMAIN log[t] : log[t][n].topic = t

(* No later row of a key is done than the last one sent. *)
LastInv ==
  \A t \in Topics : \A n \in DOMAIN log[t] :
    (\A m \in n + 1 .. Len(log[t]) : ~SameKey(log[t][m], log[t][n]))
      => \A row \in Done : ~Earlier(log[t][n], row)

LogInv == LogTopics /\ PathOrderPreserved /\ LastInv

Inv3 == Inv2 /\ WriterInv /\ DrawnInv /\ QueueInv /\ MarkInv /\ LogInv

-----------------------------------------------------------------------------
(* Facts about the state *)

LEMMA LeastNatural ==
  ASSUME NEW S \in SUBSET Nat, S # {}
  PROVE  \E i \in S : \A j \in S : i <= j
<1>. DEFINE R == {ss \in Nat \X Nat : ss[1] < ss[2]}
<1>1. IsWellFoundedOn(R, Nat)
  BY NatLessThanWellFounded, Zenon DEF OpToRel
<1>2. PICK i \in S : \A j \in S : ~ (<<j, i>> \in R)
  <2>. HIDE DEF R
  <2>. QED  BY <1>1, WFMin
<1>3. ASSUME NEW j \in S  PROVE i <= j
  <2>1. i \in Nat /\ j \in Nat
    OBVIOUS
  <2>2. ~ (j < i)
    BY <1>2, <2>1
  <2>. QED  BY <2>1, <2>2
<1>. QED  BY <1>3

LEMMA LeastExists ==
  ASSUME NEW S \in SUBSET OutboxRow, S # {}
  PROVE  \E x \in S : \A y \in S : x.id <= y.id
<1>. DEFINE ids == {x.id : x \in S}
<1>1. ids \in SUBSET Nat /\ ids # {}
  BY RelayAssumption DEF OutboxRow
<1>2. PICK i \in ids : \A j \in ids : i <= j
  <2>. HIDE DEF ids
  <2>. QED  BY <1>1, LeastNatural
<1>. QED  BY <1>2

LEMMA CurrentIsLeast ==
  ASSUME TypeOK, NEW r \in Relays, batch[r] # {}
  PROVE  /\ Current(r) \in batch[r]
         /\ \A y \in batch[r] : Current(r).id <= y.id
<1>1. batch[r] \in SUBSET OutboxRow
  BY DEF TypeOK
<1>2. \E x \in batch[r] : \A y \in batch[r] : x.id <= y.id
  BY <1>1, LeastExists
<1>. QED  BY <1>2 DEF Current

(* What a row's delivery does to the topics. *)
LEMMA Delivery ==
  ASSUME TypeOK, NEW row \in rows, Deliver(row)
  PROVE  /\ row.topic \in Topics
         /\ log' \in [Topics -> Seq(rows)]
         /\ \A t \in Topics \ {row.topic} : log'[t] = log[t]
         /\ Len(log'[row.topic]) = Len(log[row.topic]) + 1
         /\ log'[row.topic][Len(log[row.topic]) + 1] = row
         /\ \A n \in 1 .. Len(log[row.topic]) :
              log'[row.topic][n] = log[row.topic][n]
<1>1. row.topic \in Topics
  BY DEF TypeOK, OutboxRow
<1>2. log[row.topic] \in Seq(rows)
  BY <1>1 DEF TypeOK
<1>3. log' = [log EXCEPT ![row.topic] = Append(log[row.topic], row)]
  BY DEF Deliver
<1>4. log'[row.topic] = Append(log[row.topic], row)
  BY <1>1, <1>3 DEF TypeOK
<1>5. log' \in [Topics -> Seq(rows)]
  BY <1>1, <1>2, <1>3 DEF TypeOK
<1>6. \A t \in Topics \ {row.topic} : log'[t] = log[t]
  BY <1>3 DEF TypeOK
<1>. QED  BY <1>1, <1>2, <1>4, <1>5, <1>6

-----------------------------------------------------------------------------
(* Type correctness *)

LEMMA InitInv1 == Init => Inv1
BY RelayAssumption DEF Init, Inv1, IdleInv, TypeOK, Topics, Stages

LEMMA NextInv1 == Inv1 /\ [Next]_vars => Inv1'
<1>. SUFFICES ASSUME Inv1, [Next]_vars  PROVE Inv1'
  OBVIOUS
<1>. USE RelayAssumption DEF Inv1, IdleInv
<1>1. ASSUME NEW p \in Paths, Insert(p)  PROVE Inv1'
  <2>1. {[id |-> nextId, path |-> p, topic |-> "integration"],
         [id |-> nextId + 1, path |-> p, topic |-> "analytics"]}
          \subseteq OutboxRow
    BY <1>1 DEF Insert, TypeOK, OutboxRow, Topics
  <2>2. staged' \in [Paths -> SUBSET OutboxRow]
    BY <1>1, <2>1 DEF Insert, TypeOK
  <2>3. nextId' \in 1 .. MaxId + 1
    BY <1>1 DEF Insert, TypeOK
  <2>. QED  BY <1>1, <2>2, <2>3 DEF Insert, TypeOK
<1>2. ASSUME NEW p \in Paths, EndInsert(p)  PROVE Inv1'
  <2>1. rows \subseteq rows' /\ rows' \subseteq OutboxRow
    BY <1>2 DEF EndInsert, TypeOK
  <2>2. staged' \in [Paths -> SUBSET OutboxRow]
    BY <1>2 DEF EndInsert, TypeOK
  <2>3. log' \in [Topics -> Seq(rows')]
    BY <1>2, <2>1 DEF EndInsert, TypeOK
  <2>. QED  BY <1>2, <2>1, <2>2, <2>3 DEF EndInsert, TypeOK
<1>3. ASSUME NEW r \in Relays, Claim(r)  PROVE Inv1'
  <2>1. PICK S \in (SUBSET Claimable(r)) \ {{}} :
          /\ batch' = [batch EXCEPT ![r] = S]
          /\ claimed' = [claimed EXCEPT ![r] = S]
    BY <1>3 DEF Claim
  <2>2. S \subseteq rows /\ S # {}
    BY <2>1 DEF Claimable
  <2>3. stage[r] = "idle" /\ stage' = [stage EXCEPT ![r] = "send"]
    BY <1>3 DEF Claim
  <2>4. /\ batch' \in [Relays -> SUBSET rows]
        /\ claimed' \in [Relays -> SUBSET rows]
    BY <2>1, <2>2 DEF TypeOK
  <2>5. stage' \in [Relays -> Stages]
    BY <2>3 DEF TypeOK, Stages
  <2>6. UNCHANGED <<rows, staged, nextId, published, marks, log, failures>>
    BY <1>3 DEF Claim, writerVars
  <2>7. ASSUME NEW q \in Relays
        PROVE  /\ batch'[q] \cup marks'[q] \subseteq claimed'[q]
               /\ stage'[q] \in {"send", "mark"} => batch'[q] # {}
               /\ stage'[q] = "idle" => claimed'[q] = {}
    <3>1. marks[r] = {}
      BY <2>3 DEF TypeOK
    <3>. QED  BY <2>1, <2>2, <2>3, <2>6, <3>1 DEF TypeOK
  <2>. QED  BY <2>4, <2>5, <2>6, <2>7 DEF TypeOK
<1>4. ASSUME NEW r \in Relays, Send(r)  PROVE Inv1'
  <2>1. batch[r] # {}
    BY <1>4 DEF Send, TypeOK
  <2>2. Current(r) \in rows
    BY <2>1, CurrentIsLeast DEF TypeOK
  <2>3. log' \in [Topics -> Seq(rows)]
    BY <1>4, <2>2, Delivery DEF Send
  <2>4. stage' \in [Relays -> Stages]
    BY <1>4 DEF Send, TypeOK, Stages
  <2>. QED  BY <1>4, <2>1, <2>3, <2>4 DEF Send, TypeOK, writerVars
<1>5. ASSUME NEW r \in Relays, SendFails(r)  PROVE Inv1'
  <2>1. batch[r] # {}
    BY <1>5 DEF SendFails, TypeOK
  <2>2. Current(r) \in rows
    BY <2>1, CurrentIsLeast DEF TypeOK
  <2>3. log' \in [Topics -> Seq(rows)]
    BY <1>5, <2>2, Delivery DEF SendFails, TypeOK
  <2>4. stage' \in [Relays -> Stages] /\ failures' \in 0 .. MaxFailures
    BY <1>5 DEF SendFails, TypeOK, Stages
  <2>. QED  BY <1>5, <2>3, <2>4 DEF SendFails, TypeOK, writerVars
<1>6. ASSUME NEW r \in Relays, Mark(r)  PROVE Inv1'
  <2>1. batch[r] # {}
    BY <1>6 DEF Mark, TypeOK
  <2>2. Current(r) \in batch[r]
    BY <2>1, CurrentIsLeast
  <2>3. stage' \in [Relays -> Stages]
    BY <1>6 DEF Mark, TypeOK, Stages
  <2>4. /\ batch' \in [Relays -> SUBSET rows]
        /\ marks' \in [Relays -> SUBSET rows]
    BY <1>6, <2>2 DEF Mark, TypeOK
  <2>5. ASSUME NEW q \in Relays
        PROVE  /\ batch'[q] \cup marks'[q] \subseteq claimed[q]
               /\ stage'[q] \in {"send", "mark"} => batch'[q] # {}
               /\ stage'[q] = "idle" => claimed[q] = {}
    BY <1>6, <2>2 DEF Mark, TypeOK
  <2>. QED  BY <1>6, <2>3, <2>4, <2>5 DEF Mark, TypeOK, writerVars
<1>7. ASSUME NEW r \in Relays, Commit(r)  PROVE Inv1'
  BY <1>7 DEF Commit, Release, TypeOK, writerVars, Stages
<1>8. ASSUME NEW r \in Relays, Abort(r)  PROVE Inv1'
  <2>1. log' \in [Topics -> Seq(rows)]
    <3>1. CASE stage[r] = "send" /\ Deliver(Current(r))
      <4>1. Current(r) \in rows
        BY <3>1, CurrentIsLeast DEF TypeOK
      <4>. QED  BY <3>1, <4>1, Delivery
    <3>2. CASE UNCHANGED log
      BY <3>2 DEF TypeOK
    <3>. QED  BY <1>8, <3>1, <3>2 DEF Abort
  <2>. QED  BY <1>8, <2>1 DEF Abort, Release, TypeOK, writerVars, Stages
<1>9. CASE UNCHANGED vars
  BY <1>9 DEF TypeOK, vars
<1>. QED  BY <1>1, <1>2, <1>3, <1>4, <1>5, <1>6, <1>7, <1>8, <1>9
          DEF Next, Pass, EmptyPass

(* Type correctness, for any number of relays.                             *)
THEOREM RelayTypeCorrect == Spec => []TypeOK
<1>1. Inv1 => TypeOK
  BY DEF Inv1
<1>. QED  BY InitInv1, NextInv1, <1>1, PTL DEF Spec

-----------------------------------------------------------------------------
(* What is published has been sent *)

LEMMA DeliverySends ==
  ASSUME TypeOK, NEW row \in rows, Deliver(row)
  PROVE  /\ Holds(log', row)
         /\ \A x \in rows : Holds(log, x) => Holds(log', x)
<1>1. /\ row.topic \in Topics
      /\ log' \in [Topics -> Seq(rows)]
      /\ \A t \in Topics \ {row.topic} : log'[t] = log[t]
      /\ Len(log'[row.topic]) = Len(log[row.topic]) + 1
      /\ log'[row.topic][Len(log[row.topic]) + 1] = row
      /\ \A n \in 1 .. Len(log[row.topic]) :
           log'[row.topic][n] = log[row.topic][n]
  BY Delivery
<1>2. \A t \in Topics : DOMAIN log[t] = 1 .. Len(log[t]) /\ Len(log[t]) \in Nat
  BY DEF TypeOK
<1>3. \A t \in Topics : DOMAIN log'[t] = 1 .. Len(log'[t])
  BY <1>1
<1>4. Holds(log', row)
  BY <1>1, <1>2, <1>3 DEF Holds
<1>5. ASSUME NEW x \in rows, Holds(log, x)  PROVE Holds(log', x)
  <2>1. x.topic \in Topics
    BY DEF TypeOK, OutboxRow
  <2>2. PICK n \in DOMAIN log[x.topic] : log[x.topic][n] = x
    BY <1>5 DEF Holds
  <2>3. n \in DOMAIN log'[x.topic] /\ log'[x.topic][n] = x
    BY <1>1, <1>2, <1>3, <2>1, <2>2
  <2>. QED  BY <2>3 DEF Holds
<1>. QED  BY <1>4, <1>5

LEMMA SentKept ==
  ASSUME UNCHANGED log, NEW x, Holds(log, x)
  PROVE  Holds(log', x)
BY DEF Holds

LEMMA InitInv2 == Init => Inv2
BY InitInv1 DEF Init, Inv2, SentInv, Done

LEMMA NextInv2 == Inv2 /\ [Next]_vars => Inv2'
<1>. SUFFICES ASSUME Inv2, [Next]_vars  PROVE SentInv'
  BY NextInv1 DEF Inv2
<1>. TypeOK /\ SentInv
  BY DEF Inv2, Inv1
<1>a. Done \subseteq rows
  BY DEF Done, TypeOK
<1>b. ASSUME NEW q \in Relays, stage[q] = "mark"  PROVE Current(q) \in rows
  BY <1>b, CurrentIsLeast DEF TypeOK
<1>c. ASSUME \A q \in Relays : marks'[q] \subseteq marks[q],
             published' \subseteq published,
             \A x \in rows : Holds(log, x) => Holds(log', x),
             \A q \in Relays : stage'[q] = "mark" =>
               \/ stage[q] = "mark" /\ batch'[q] = batch[q]
               \/ Holds(log', Current(q)')
      PROVE  SentInv'
  <2>1. Done' \subseteq Done
    BY <1>c DEF Done
  <2>2. ASSUME NEW q \in Relays, stage'[q] = "mark"  PROVE Holds(log', Current(q)')
    <3>1. CASE stage[q] = "mark" /\ batch'[q] = batch[q]
      <4>1. Current(q)' = Current(q)
        BY <3>1 DEF Current
      <4>2. Holds(log, Current(q)) /\ Current(q) \in rows
        BY <3>1, <1>b DEF SentInv
      <4>. QED  BY <4>1, <4>2, <1>c DEF Holds
    <3>. QED  BY <3>1, <2>2, <1>c
  <2>. QED  BY <1>a, <1>c, <2>1, <2>2 DEF SentInv
<1>d. UNCHANGED log => \A x \in rows : Holds(log, x) => Holds(log', x)
  BY SentKept
<1>e. UNCHANGED <<published, stage, batch, marks, log>> => SentInv'
  BY <1>c, <1>d
<1>1. ASSUME NEW p \in Paths, Insert(p)  PROVE SentInv'
  BY <1>1, <1>e DEF Insert
<1>2. ASSUME NEW p \in Paths, EndInsert(p)  PROVE SentInv'
  BY <1>2, <1>e DEF EndInsert
<1>3. ASSUME NEW r \in Relays, Claim(r)  PROVE SentInv'
  <2>1. UNCHANGED <<published, marks, log>>
    BY <1>3 DEF Claim
  <2>2. ASSUME NEW q \in Relays, stage'[q] = "mark"
        PROVE  stage[q] = "mark" /\ batch'[q] = batch[q]
    BY <1>3, <2>2 DEF Claim, TypeOK
  <2>. QED  BY <1>c, <1>d, <2>1, <2>2
<1>4. ASSUME NEW r \in Relays, Send(r)  PROVE SentInv'
  <2>1. Current(r) \in rows
    BY <1>4, CurrentIsLeast DEF Send, TypeOK
  <2>2. Holds(log', Current(r)) /\ \A x \in rows : Holds(log, x) => Holds(log', x)
    BY <1>4, <2>1, DeliverySends DEF Send
  <2>3. UNCHANGED <<published, marks, batch>>
    BY <1>4 DEF Send
  <2>4. ASSUME NEW q \in Relays, stage'[q] = "mark", q # r
        PROVE  stage[q] = "mark"
    BY <1>4, <2>4 DEF Send, TypeOK
  <2>5. Current(r)' = Current(r)
    BY <2>3 DEF Current
  <2>6. \A q \in Relays : stage'[q] = "mark" =>
          \/ stage[q] = "mark" /\ batch'[q] = batch[q]
          \/ Holds(log', Current(q)')
    BY <2>2, <2>3, <2>4, <2>5
  <2>. QED  BY <1>c, <2>2, <2>3, <2>6
<1>5. ASSUME NEW r \in Relays, SendFails(r)  PROVE SentInv'
  <2>1. Current(r) \in rows
    BY <1>5, CurrentIsLeast DEF SendFails, TypeOK
  <2>2. \A x \in rows : Holds(log, x) => Holds(log', x)
    BY <1>5, <1>d, <2>1, DeliverySends DEF SendFails
  <2>3. UNCHANGED <<published, marks>>
    BY <1>5 DEF SendFails
  <2>4. ASSUME NEW q \in Relays, stage'[q] = "mark"
        PROVE  stage[q] = "mark" /\ batch'[q] = batch[q]
    BY <1>5, <2>4 DEF SendFails, TypeOK
  <2>. QED  BY <1>c, <2>2, <2>3, <2>4
<1>6. ASSUME NEW r \in Relays, Mark(r)  PROVE SentInv'
  <2>1. Done' = Done \cup {Current(r)}
    BY <1>6 DEF Mark, Done, TypeOK
  <2>2. UNCHANGED log /\ Holds(log, Current(r))
    BY <1>6 DEF Mark, SentInv
  <2>3. ASSUME NEW q \in Relays, stage'[q] = "mark"
        PROVE  stage[q] = "mark" /\ batch'[q] = batch[q]
    BY <1>6, <2>3 DEF Mark, TypeOK
  <2>4. ASSUME NEW q \in Relays, stage'[q] = "mark"  PROVE Holds(log', Current(q)')
    <3>1. Current(q)' = Current(q) /\ Holds(log, Current(q))
      BY <2>3, <2>4 DEF Current, SentInv
    <3>. QED  BY <2>2, <3>1 DEF Holds
  <2>5. ASSUME NEW x \in Done'  PROVE Holds(log', x)
    BY <2>1, <2>2, SentKept DEF SentInv
  <2>. QED  BY <2>4, <2>5 DEF SentInv
<1>7. ASSUME NEW r \in Relays, Commit(r)  PROVE SentInv'
  <2>1. Done' \subseteq Done
    BY <1>7 DEF Commit, Release, Done, TypeOK
  <2>2. UNCHANGED log
    BY <1>7 DEF Commit
  <2>3. ASSUME NEW q \in Relays, stage'[q] = "mark"
        PROVE  stage[q] = "mark" /\ batch'[q] = batch[q]
    BY <1>7, <2>3 DEF Commit, Release, TypeOK
  <2>4. ASSUME NEW q \in Relays, stage'[q] = "mark"  PROVE Holds(log', Current(q)')
    <3>1. Current(q)' = Current(q) /\ Holds(log, Current(q))
      BY <2>3, <2>4 DEF Current, SentInv
    <3>. QED  BY <2>2, <3>1 DEF Holds
  <2>. QED  BY <2>1, <2>2, <2>4, SentKept DEF SentInv
<1>8. ASSUME NEW r \in Relays, Abort(r)  PROVE SentInv'
  <2>1. \A x \in rows : Holds(log, x) => Holds(log', x)
    <3>1. CASE stage[r] = "send" /\ Deliver(Current(r))
      <4>1. Current(r) \in rows
        BY <3>1, CurrentIsLeast DEF TypeOK
      <4>. QED  BY <3>1, <4>1, DeliverySends
    <3>. QED  BY <1>8, <1>d, <3>1 DEF Abort
  <2>2. published' = published /\ \A q \in Relays : marks'[q] \subseteq marks[q]
    BY <1>8 DEF Abort, Release, TypeOK
  <2>3. ASSUME NEW q \in Relays, stage'[q] = "mark"
        PROVE  stage[q] = "mark" /\ batch'[q] = batch[q]
    BY <1>8, <2>3 DEF Abort, Release, TypeOK
  <2>. QED  BY <1>c, <2>1, <2>2, <2>3
<1>9. CASE UNCHANGED vars
  BY <1>9, <1>e DEF vars
<1>. QED  BY <1>1, <1>2, <1>3, <1>4, <1>5, <1>6, <1>7, <1>8, <1>9
          DEF Next, Pass, EmptyPass

(* A row is only ever marked published when its topic holds it, for any    *)
(* number of relays and whatever sends, marks or commits fail.             *)
THEOREM PublishedWasDelivered == Spec => []PublishedIsDelivered
<1>1. Inv2 => PublishedIsDelivered
  <2>. SUFFICES ASSUME Inv2, NEW row \in Done  PROVE row \in Delivered
    BY DEF PublishedIsDelivered, Done
  <2>1. row \in rows /\ row.topic \in Topics
    BY DEF Inv2, Inv1, TypeOK, Done, OutboxRow
  <2>2. row \in Range(log[row.topic])
    BY DEF Inv2, SentInv, Holds, Range
  <2>. QED  BY <2>1, <2>2 DEF Delivered
<1>. QED  BY InitInv2, NextInv2, <1>1, PTL DEF Spec

-----------------------------------------------------------------------------
(* One relay keeps the order of a path *)

LEMMA RowTypes ==
  ASSUME TypeOK
  PROVE  /\ \A x \in rows : /\ x.id \in Nat /\ x.path \in Paths
                            /\ x.topic \in Topics
         /\ \A p \in Paths : \A x \in staged[p] : x.id \in Nat
         /\ \A t \in Topics :
              /\ Len(log[t]) \in Nat
              /\ DOMAIN log[t] = 1 .. Len(log[t])
              /\ \A n \in DOMAIN log[t] : log[t][n] \in rows
         /\ Done \subseteq rows
BY RelayAssumption DEF TypeOK, OutboxRow, Done

LEMMA OthersIdle ==
  ASSUME NEW r \in Relays, Inv1, Inv1', Alone(r), Alone(r)'
  PROVE  /\ \A q \in Relays \ {r} :
              /\ claimed[q] = {} /\ batch[q] = {} /\ batch'[q] = {}
              /\ stage[q] = "idle" /\ stage'[q] = "idle"
         /\ Done = published \cup marks[r]
         /\ Done' = published' \cup marks'[r]
<1>1. \A q \in Relays \ {r} :
         /\ stage[q] = "idle" /\ claimed[q] = {} /\ batch[q] = {} /\ marks[q] = {}
  BY DEF Alone, Inv1, IdleInv, TypeOK
<1>2. \A q \in Relays \ {r} :
         /\ stage'[q] = "idle" /\ batch'[q] = {} /\ marks'[q] = {}
  BY DEF Alone, Inv1, IdleInv, TypeOK
<1>. QED  BY <1>1, <1>2 DEF Done

(* Only the relay that is not idle, or leaves idleness, takes a step. *)
LEMMA LoneStep ==
  ASSUME NEW r \in Relays, TypeOK, Alone(r), Alone(r)', [Next]_vars
  PROVE  \/ \E p \in Paths : Insert(p) \/ EndInsert(p)
         \/ Claim(r) \/ Send(r) \/ SendFails(r) \/ Mark(r) \/ Commit(r)
         \/ Abort(r) \/ UNCHANGED vars
<1>1. ASSUME NEW q \in Relays, q # r,
             Pass(q) \/ SendFails(q) \/ Abort(q)
      PROVE  FALSE
  <2>1. stage[q] = "idle" /\ stage'[q] = "idle"
    BY <1>1 DEF Alone
  <2>. QED  BY <1>1, <2>1 DEF Pass, Claim, Send, Mark, Commit, SendFails, Abort,
                              TypeOK
<1>. QED  BY <1>1 DEF Next, Pass, EmptyPass

LEMMA NextWriterInv ==
  ASSUME Inv1, WriterInv, DrawnInv, [Next]_vars
  PROVE  WriterInv' /\ DrawnInv'
<1>. TypeOK
  BY DEF Inv1
<1>. USE RowTypes
<1>1. ASSUME NEW p \in Paths, Insert(p)  PROVE WriterInv' /\ DrawnInv'
  <2>1. /\ rows' = rows /\ nextId' = nextId + 2 /\ nextId \in Nat
        /\ \A q \in Paths \ {p} : staged'[q] = staged[q]
    BY <1>1 DEF Insert, TypeOK
  <2>2. \A new \in staged'[p] :
          new.path = p /\ new.id \in nextId .. nextId + 1
    BY <1>1, <2>1 DEF Insert, TypeOK
  <2>3. WriterInv'
    BY <2>1, <2>2 DEF WriterInv, DrawnInv
  <2>4. DrawnInv'
    BY <2>1, <2>2 DEF DrawnInv
  <2>. QED  BY <2>3, <2>4
<1>2. ASSUME NEW p \in Paths, EndInsert(p)  PROVE WriterInv' /\ DrawnInv'
  <2>1. /\ rows' \subseteq rows \cup staged[p] /\ nextId' = nextId
        /\ staged'[p] = {}
        /\ \A q \in Paths \ {p} : staged'[q] = staged[q]
    BY <1>2 DEF EndInsert, TypeOK
  <2>2. WriterInv'
    BY <2>1 DEF WriterInv
  <2>3. DrawnInv'
    BY <2>1 DEF DrawnInv
  <2>. QED  BY <2>2, <2>3
<1>3. UNCHANGED writerVars => WriterInv' /\ DrawnInv'
  BY DEF writerVars, WriterInv, DrawnInv
<1>4. ASSUME NEW r \in Relays,
             Pass(r) \/ SendFails(r) \/ Abort(r) \/ EmptyPass(r)
      PROVE  UNCHANGED writerVars
  BY <1>4 DEF Pass, Claim, Send, Mark, Commit, SendFails, Abort, EmptyPass,
              vars, writerVars
<1>5. CASE UNCHANGED vars
  BY <1>3, <1>5 DEF vars, writerVars
<1>. QED  BY <1>1, <1>2, <1>3, <1>4, <1>5 DEF Next

LEMMA NextQueueInv ==
  ASSUME NEW r \in Relays, Alone(r), Alone(r)',
         Inv1, WriterInv, QueueInv, [Next]_vars
  PROVE  QueueInv'
<1>. TypeOK /\ Inv1'
  BY NextInv1 DEF Inv1
<1>. USE RowTypes
<1>0. /\ \A q \in Relays \ {r} :
            claimed[q] = {} /\ batch[q] = {} /\ batch'[q] = {}
      /\ Done = published \cup marks[r]
      /\ Done' = published' \cup marks'[r]
  BY OthersIdle
<1>a. /\ DownClosed(published, rows) /\ DownClosed(Done, rows)
      /\ batch[r] \cap Done = {} /\ DownClosed(Done \cup batch[r], rows)
  BY DEF QueueInv
<1>b. ASSUME DownClosed(published', rows'), DownClosed(Done', rows'),
             batch'[r] \cap Done' = {},
             DownClosed(Done' \cup batch'[r], rows')
      PROVE  QueueInv'
  <2>. SUFFICES ASSUME NEW q \in Relays
                PROVE  /\ batch'[q] \cap Done' = {}
                       /\ DownClosed(Done' \cup batch'[q], rows')
    BY <1>b DEF QueueInv
  <2>1. CASE q = r
    BY <1>b, <2>1
  <2>2. CASE q # r
    <3>1. batch'[q] = {} /\ Done' \cup batch'[q] = Done'
      BY <1>0, <2>2
    <3>. QED  BY <1>b, <3>1
  <2>. QED  BY <2>1, <2>2
<1>1. ASSUME NEW p \in Paths, Insert(p)  PROVE QueueInv'
  BY <1>1 DEF Insert, QueueInv, Done
<1>2. ASSUME NEW p \in Paths, EndInsert(p)  PROVE QueueInv'
  <2>1. /\ rows' \subseteq rows \cup staged[p]
        /\ published' = published /\ batch' = batch /\ marks' = marks
    BY <1>2 DEF EndInsert
  <2>2. ASSUME NEW S \in SUBSET rows, DownClosed(S, rows)
        PROVE  DownClosed(S, rows')
    BY <2>1, <2>2 DEF DownClosed, WriterInv, Earlier, SameKey
  <2>3. published \subseteq rows /\ Done \cup batch[r] \subseteq rows
    BY DEF TypeOK
  <2>4. DownClosed(published, rows') /\ DownClosed(Done, rows')
    BY <1>a, <2>2, <2>3
  <2>5. DownClosed(Done \cup batch[r], rows')
    BY <1>a, <2>2, <2>3
  <2>6. Done' = Done
    BY <2>1 DEF Done
  <2>. QED  BY <1>a, <1>b, <2>1, <2>4, <2>5, <2>6
<1>3. CASE Claim(r)
  <2>1. PICK S \in (SUBSET Claimable(r)) \ {{}} :
          /\ IsOldest(S, Claimable(r))
          /\ batch' = [batch EXCEPT ![r] = S]
    BY <1>3 DEF Claim
  <2>2. /\ marks[r] = {} /\ batch'[r] = S
        /\ rows' = rows /\ published' = published /\ marks' = marks
    BY <1>3, <2>1 DEF Claim, Inv1, IdleInv, TypeOK, writerVars
  <2>3. Done = published /\ Done' = published
    BY <1>0, <2>2
  <2>4. Claimable(r) = rows \ published
    BY <1>0 DEF Claimable
  <2>5. DownClosed(published \cup S, rows)
    <3>1. \A x \in S, y \in Claimable(r) \ S : x.id < y.id
      BY <2>1 DEF IsOldest
    <3>. QED  BY <1>a, <2>4, <3>1 DEF DownClosed, Earlier
  <2>. QED  BY <1>a, <1>b, <2>2, <2>3, <2>4, <2>5
<1>4. CASE Send(r)
  BY <1>4 DEF Send, QueueInv, writerVars, Done
<1>5. CASE SendFails(r)
  <2>1. /\ rows' = rows /\ published' = published /\ marks' = marks
        /\ batch'[r] = {}
    BY <1>5 DEF SendFails, TypeOK, writerVars
  <2>. QED  BY <1>0, <1>a, <1>b, <2>1
<1>6. CASE Mark(r)
  <2>. DEFINE c == Current(r)
  <2>1. c \in batch[r] /\ \A y \in batch[r] : c.id <= y.id
    BY <1>6, CurrentIsLeast DEF Mark, TypeOK
  <2>2. /\ rows' = rows /\ published' = published
        /\ batch'[r] = batch[r] \ {c} /\ marks'[r] = marks[r] \cup {c}
    BY <1>6 DEF Mark, TypeOK, writerVars
  <2>. HIDE DEF c
  <2>3. Done' = Done \cup {c} /\ Done' \cup batch'[r] = Done \cup batch[r]
    BY <1>0, <2>1, <2>2
  <2>4. DownClosed(Done \cup {c}, rows)
    <3>1. ASSUME NEW y \in rows, Earlier(y, c)  PROVE y \in Done
      <4>1. y \in Done \cup batch[r]
        BY <1>a, <2>1, <3>1 DEF DownClosed
      <4>2. batch[r] \subseteq rows
        BY DEF TypeOK
      <4>. QED  BY <2>1, <3>1, <4>1, <4>2 DEF Earlier
    <3>. QED  BY <1>a, <3>1 DEF DownClosed
  <2>5. batch'[r] \cap Done' = {}
    BY <1>a, <2>2, <2>3
  <2>. QED  BY <1>a, <1>b, <2>2, <2>3, <2>4, <2>5
<1>7. CASE Commit(r)
  <2>1. /\ rows' = rows /\ published' = Done /\ marks'[r] = {}
        /\ batch'[r] = {}
    BY <1>0, <1>7 DEF Commit, Release, TypeOK, writerVars
  <2>2. Done' = Done
    BY <1>0, <2>1
  <2>. QED  BY <1>a, <1>b, <2>1, <2>2
<1>8. CASE Abort(r)
  <2>1. /\ rows' = rows /\ published' = published /\ marks'[r] = {}
        /\ batch'[r] = {}
    BY <1>8 DEF Abort, Release, TypeOK, writerVars
  <2>2. Done' = published
    BY <1>0, <2>1
  <2>. QED  BY <1>a, <1>b, <2>1, <2>2
<1>9. CASE UNCHANGED vars
  BY <1>9 DEF vars, QueueInv, Done
<1>. QED  BY <1>1, <1>2, <1>3, <1>4, <1>5, <1>6, <1>7, <1>8, <1>9, LoneStep

LEMMA NextMarkInv ==
  ASSUME NEW r \in Relays, Alone(r), Alone(r)', Inv1, MarkInv, [Next]_vars
  PROVE  MarkInv'
<1>. TypeOK
  BY DEF Inv1
<1>0. \A q \in Relays : stage'[q] = "mark" => q = r
  BY DEF Alone
<1>a. UNCHANGED <<stage, batch, log>> => MarkInv'
  BY DEF MarkInv, Current
<1>b. stage'[r] # "mark" => MarkInv'
  BY <1>0 DEF MarkInv
<1>1. ASSUME NEW p \in Paths, Insert(p) \/ EndInsert(p)  PROVE MarkInv'
  BY <1>1, <1>a DEF Insert, EndInsert
<1>2. CASE Send(r)
  <2>. DEFINE c == Current(r)
  <2>1. c \in rows
    BY <1>2, CurrentIsLeast DEF Send, TypeOK
  <2>2. Deliver(c) /\ Current(r)' = c
    BY <1>2 DEF Send, Current
  <2>. HIDE DEF c
  <2>3. /\ c.topic \in Topics /\ log' \in [Topics -> Seq(rows)]
        /\ Len(log'[c.topic]) = Len(log[c.topic]) + 1
        /\ log'[c.topic][Len(log[c.topic]) + 1] = c
    BY <2>1, <2>2, Delivery
  <2>4. Len(log[c.topic]) \in Nat
    BY <2>3, RowTypes
  <2>5. log'[c.topic] # <<>> /\ log'[c.topic][Len(log'[c.topic])] = c
    BY <2>3, <2>4
  <2>. QED  BY <1>0, <2>2, <2>5 DEF MarkInv
<1>3. CASE Claim(r) \/ SendFails(r) \/ Mark(r) \/ Commit(r) \/ Abort(r)
  <2>1. stage'[r] # "mark"
    BY <1>3 DEF Claim, SendFails, Mark, Commit, Abort, Release, TypeOK
  <2>. QED  BY <1>b, <2>1
<1>4. CASE UNCHANGED vars
  BY <1>4, <1>a DEF vars
<1>. QED  BY <1>1, <1>2, <1>3, <1>4, LoneStep

(* Sending a row whose predecessors are sent, and whose successors are not *)
(* done, keeps the order of its topic.                                     *)
LEMMA DeliveryKeepsOrder ==
  ASSUME TypeOK, LogInv, NEW row \in rows, row \notin Done,
         DownClosed(Done, rows),
         \A x \in rows : Earlier(x, row) => Holds(log, x),
         Deliver(row), rows' = rows, Done' \subseteq Done
  PROVE  LogInv'
<1>. DEFINE len(t) == Len(log[t])
<1>1. /\ row.topic \in Topics
      /\ log' \in [Topics -> Seq(rows)]
      /\ \A t \in Topics \ {row.topic} : log'[t] = log[t]
      /\ Len(log'[row.topic]) = len(row.topic) + 1
      /\ log'[row.topic][len(row.topic) + 1] = row
      /\ \A n \in 1 .. len(row.topic) :
           log'[row.topic][n] = log[row.topic][n]
  BY Delivery
<1>2. /\ \A x \in rows : x.id \in Nat /\ x.topic \in Topics
      /\ \A t \in Topics : /\ len(t) \in Nat
                           /\ DOMAIN log[t] = 1 .. len(t)
                           /\ \A n \in DOMAIN log[t] : log[t][n] \in rows
      /\ Done \subseteq rows
  BY RowTypes
<1>3. \A t \in Topics : /\ Len(log'[t]) \in Nat
                        /\ DOMAIN log'[t] = 1 .. Len(log'[t])
  BY <1>1
<1>4. ASSUME NEW t \in Topics, NEW n \in DOMAIN log'[t]
      PROVE  \/ n \in DOMAIN log[t] /\ log'[t][n] = log[t][n]
             \/ t = row.topic /\ n = len(t) + 1 /\ log'[t][n] = row
  <2>1. CASE t # row.topic
    <3>1. log'[t] = log[t]
      BY <1>1, <2>1
    <3>. QED  BY <3>1
  <2>2. CASE t = row.topic
    <3>1. n \in 1 .. len(t) + 1 /\ len(t) \in Nat
      BY <1>1, <1>2, <1>3, <2>2
    <3>2. CASE n \in 1 .. len(t)
      BY <1>1, <1>2, <2>2, <3>2
    <3>3. CASE n = len(t) + 1
      BY <1>1, <2>2, <3>3
    <3>. QED  BY <3>1, <3>2, <3>3
  <2>. QED  BY <2>1, <2>2
<1>5. ASSUME NEW t \in Topics, NEW n \in DOMAIN log[t]
      PROVE  n \in DOMAIN log'[t] /\ log'[t][n] = log[t][n]
  <2>1. CASE t # row.topic
    <3>1. log'[t] = log[t]
      BY <1>1, <2>1
    <3>. QED  BY <3>1
  <2>2. CASE t = row.topic
    <3>1. n \in 1 .. len(t) /\ len(t) \in Nat
      BY <1>2
    <3>2. n \in 1 .. Len(log'[t])
      BY <1>1, <2>2, <3>1
    <3>. QED  BY <1>1, <1>3, <2>2, <3>1, <3>2
  <2>. QED  BY <2>1, <2>2
<1>. HIDE DEF len
<1>6. LogTopics'
  BY <1>4 DEF LogInv, LogTopics
<1>7. PathOrderPreserved'
  <2>. SUFFICES ASSUME NEW t \in Topics, NEW n \in DOMAIN log'[t],
                       NEW x \in rows, SameKey(x, log'[t][n]),
                       x.id < log'[t][n].id
                PROVE  \E m \in 1 .. n - 1 : log'[t][m] = x
    BY DEF PathOrderPreserved
  <2>1. CASE n \in DOMAIN log[t] /\ log'[t][n] = log[t][n]
    <3>1. PICK m \in 1 .. n - 1 : log[t][m] = x
      BY <2>1 DEF LogInv, PathOrderPreserved
    <3>2. m \in DOMAIN log[t]
      BY <1>2, <2>1, <3>1
    <3>. QED  BY <1>5, <3>1, <3>2
  <2>2. CASE t = row.topic /\ n = len(t) + 1 /\ log'[t][n] = row
    <3>1. Holds(log, x) /\ x.topic = t
      BY <2>2 DEF Earlier, SameKey
    <3>2. PICK m \in DOMAIN log[t] : log[t][m] = x
      BY <3>1 DEF Holds
    <3>3. m \in 1 .. n - 1
      BY <1>2, <2>2, <3>2
    <3>. QED  BY <1>5, <3>2, <3>3
  <2>. QED  BY <1>4, <2>1, <2>2
<1>8. LastInv'
  <2>. SUFFICES ASSUME NEW t \in Topics, NEW n \in DOMAIN log'[t],
                       \A m \in n + 1 .. Len(log'[t]) :
                         ~SameKey(log'[t][m], log'[t][n]),
                       NEW x \in Done
                PROVE  ~Earlier(log'[t][n], x)
    BY DEF LastInv
  <2>1. CASE n \in DOMAIN log[t] /\ log'[t][n] = log[t][n]
    <3>1. ASSUME NEW m \in n + 1 .. len(t)
          PROVE  ~SameKey(log[t][m], log[t][n])
      <4>1. m \in DOMAIN log[t] /\ m \in DOMAIN log'[t]
        BY <1>2, <1>5, <2>1
      <4>2. m \in n + 1 .. Len(log'[t])
        BY <1>2, <1>3, <2>1, <4>1
      <4>. QED  BY <1>5, <2>1, <4>1, <4>2
    <3>. QED  BY <2>1, <3>1 DEF LogInv, LastInv, len
  <2>2. CASE log'[t][n] = row
    BY <1>2, <2>2 DEF DownClosed
  <2>. QED  BY <1>4, <2>1, <2>2
<1>. QED  BY <1>6, <1>7, <1>8 DEF LogInv

LEMMA NextLogInv ==
  ASSUME NEW r \in Relays, Alone(r), Alone(r)', Inv3, [Next]_vars
  PROVE  LogInv'
<1>. /\ TypeOK /\ SentInv /\ WriterInv /\ QueueInv /\ MarkInv /\ LogInv
     /\ Inv1 /\ Inv1'
  BY NextInv1 DEF Inv3, Inv2, Inv1
<1>. USE RowTypes
<1>0. /\ Done = published \cup marks[r]
      /\ Done' = published' \cup marks'[r]
  BY OthersIdle
<1>a. ASSUME rows' = rows, log' = log, Done' \subseteq Done  PROVE LogInv'
  BY <1>a DEF LogInv, LogTopics, PathOrderPreserved, LastInv
<1>b. ASSUME stage[r] \in {"send", "mark"}
      PROVE  /\ Current(r) \in rows /\ Current(r) \in batch[r]
             /\ Current(r) \notin Done
             /\ \A x \in rows : Earlier(x, Current(r)) => x \in Done
  <2>. DEFINE c == Current(r)
  <2>1. c \in batch[r] /\ \A y \in batch[r] : c.id <= y.id
    BY <1>b, CurrentIsLeast DEF TypeOK
  <2>. HIDE DEF c
  <2>2. batch[r] \subseteq rows
    BY DEF TypeOK
  <2>3. c \notin Done
    BY <2>1 DEF QueueInv
  <2>4. ASSUME NEW x \in rows, Earlier(x, c)  PROVE x \in Done
    <3>1. x \in Done \cup batch[r]
      BY <2>1, <2>4 DEF QueueInv, DownClosed
    <3>. QED  BY <2>1, <2>2, <2>4, <3>1 DEF Earlier
  <2>5. c \in rows /\ c \in batch[r] /\ c \notin Done
        /\ \A x \in rows : Earlier(x, c) => x \in Done
    BY <2>1, <2>2, <2>3, <2>4
  <2>. QED  BY <2>5 DEF c
<1>c. ASSUME stage[r] = "send", Deliver(Current(r)), rows' = rows,
             Done' \subseteq Done
      PROVE  LogInv'
  <2>1. \A x \in rows : Earlier(x, Current(r)) => Holds(log, x)
    BY <1>b, <1>c DEF SentInv
  <2>2. DownClosed(Done, rows)
    BY DEF QueueInv
  <2>. QED  BY <1>b, <1>c, <2>1, <2>2, DeliveryKeepsOrder
<1>1. ASSUME NEW p \in Paths, Insert(p)  PROVE LogInv'
  <2>1. rows' = rows /\ log' = log /\ Done' = Done
    BY <1>0, <1>1 DEF Insert
  <2>. QED  BY <1>a, <2>1
<1>2. ASSUME NEW p \in Paths, EndInsert(p)  PROVE LogInv'
  <2>1. /\ rows' \subseteq rows \cup staged[p] /\ log' = log /\ Done' = Done
    BY <1>0, <1>2 DEF EndInsert
  <2>2. ASSUME NEW t \in Topics, NEW n \in DOMAIN log[t],
               NEW x \in staged[p], SameKey(x, log[t][n])
        PROVE  ~ (x.id < log[t][n].id)
    BY <2>2 DEF WriterInv, SameKey
  <2>3. PathOrderPreserved'
    BY <2>1, <2>2 DEF LogInv, PathOrderPreserved
  <2>4. LogTopics' /\ LastInv'
    BY <2>1 DEF LogInv, LogTopics, LastInv
  <2>. QED  BY <2>3, <2>4 DEF LogInv
<1>3. CASE Claim(r)
  <2>1. rows' = rows /\ log' = log /\ Done' = Done
    BY <1>0, <1>3 DEF Claim, writerVars
  <2>. QED  BY <1>a, <2>1
<1>4. CASE Send(r)
  <2>1. rows' = rows /\ Done' = Done
    BY <1>0, <1>4 DEF Send, writerVars
  <2>. QED  BY <1>4, <1>c, <2>1 DEF Send
<1>5. CASE SendFails(r)
  <2>1. rows' = rows /\ Done' = Done
    BY <1>0, <1>5 DEF SendFails, writerVars
  <2>. QED  BY <1>5, <1>a, <1>c, <2>1 DEF SendFails
<1>6. CASE Mark(r)
  <2>. DEFINE c == Current(r)
              t0 == c.topic
  <2>1. /\ c \in rows /\ stage[r] = "mark"
        /\ log[t0] # <<>> /\ log[t0][Len(log[t0])] = c
    BY <1>6, <1>b DEF Mark, MarkInv
  <2>2. /\ rows' = rows /\ log' = log /\ marks'[r] = marks[r] \cup {c}
        /\ published' = published
    BY <1>6 DEF Mark, TypeOK, writerVars
  <2>. HIDE DEF c
  <2>3. Done' = Done \cup {c}
    BY <1>0, <2>2
  <2>4. LastInv'
    <3>. SUFFICES ASSUME NEW t \in Topics, NEW n \in DOMAIN log[t],
                         \A m \in n + 1 .. Len(log[t]) :
                           ~SameKey(log[t][m], log[t][n]),
                         NEW x \in Done'
                  PROVE  ~Earlier(log[t][n], x)
      BY <2>2 DEF LastInv
    <3>1. CASE x \in Done
      BY <3>1 DEF LogInv, LastInv
    <3>2. CASE x = c
      <4>. SUFFICES ASSUME Earlier(log[t][n], c)  PROVE FALSE
        BY <3>2
      <4>1. t = t0
        BY DEF LogInv, LogTopics, Earlier, SameKey
      <4>2. n = Len(log[t])
        <5>. SUFFICES ASSUME n # Len(log[t])  PROVE FALSE
          OBVIOUS
        <5>1. Len(log[t]) \in n + 1 .. Len(log[t])
          BY <4>1
        <5>. QED  BY <2>1, <4>1, <5>1 DEF Earlier, SameKey
      <4>. QED  BY <2>1, <4>1, <4>2 DEF Earlier
    <3>. QED  BY <2>3, <3>1, <3>2
  <2>5. LogTopics' /\ PathOrderPreserved'
    BY <2>2 DEF LogInv, LogTopics, PathOrderPreserved
  <2>. QED  BY <2>4, <2>5 DEF LogInv
<1>7. CASE Commit(r)
  <2>1. rows' = rows /\ log' = log /\ Done' \subseteq Done
    BY <1>0, <1>7 DEF Commit, Release, TypeOK, writerVars
  <2>. QED  BY <1>a, <2>1
<1>8. CASE Abort(r)
  <2>1. rows' = rows /\ Done' \subseteq Done
    BY <1>0, <1>8 DEF Abort, Release, TypeOK, writerVars
  <2>. QED  BY <1>8, <1>a, <1>c, <2>1 DEF Abort
<1>9. CASE UNCHANGED vars
  <2>1. rows' = rows /\ log' = log /\ Done' = Done
    BY <1>0, <1>9 DEF vars
  <2>. QED  BY <1>a, <2>1
<1>. QED  BY <1>1, <1>2, <1>3, <1>4, <1>5, <1>6, <1>7, <1>8, <1>9, LoneStep

LEMMA InitInv3 == Init => Inv3
<1>. SUFFICES ASSUME Init  PROVE Inv3
  OBVIOUS
<1>1. WriterInv /\ DrawnInv
  BY DEF Init, WriterInv, DrawnInv
<1>2. Done = {}
  BY DEF Init, Done
<1>3. QueueInv
  BY <1>2 DEF Init, QueueInv, DownClosed
<1>4. MarkInv
  BY DEF Init, MarkInv
<1>5. LogInv
  BY <1>2 DEF Init, LogInv, LogTopics, PathOrderPreserved, LastInv
<1>. QED  BY <1>1, <1>3, <1>4, <1>5, InitInv2 DEF Inv3

LEMMA NextInv3 ==
  ASSUME NEW r \in Relays, Alone(r), Alone(r)', Inv3, [Next]_vars
  PROVE  Inv3'
<1>1. /\ Inv1 /\ Inv2 /\ WriterInv /\ DrawnInv /\ QueueInv /\ MarkInv
  BY DEF Inv3, Inv2
<1>. QED  BY <1>1, NextInv2, NextWriterInv, NextQueueInv, NextMarkInv,
             NextLogInv DEF Inv3

LEMMA OneRelayInv ==
  ASSUME NEW r, Relays = {r}
  PROVE  Spec => []Inv3
<1>1. Inv3 /\ [Next]_vars => Inv3'
  <2>1. Alone(r) /\ Alone(r)'
    BY DEF Alone
  <2>. QED  BY <2>1, NextInv3
<1>. QED  BY InitInv3, <1>1, PTL DEF Spec

(* With one relay the first delivery of a row comes after that of every    *)
(* earlier row of its path, whatever fails: a failed send ends the batch.  *)
THEOREM OneRelayKeepsOrder ==
  ASSUME NEW r, Relays = {r}
  PROVE  Spec => []PathOrderPreserved
<1>1. Inv3 => PathOrderPreserved
  BY DEF Inv3, LogInv
<1>. QED  BY <1>1, OneRelayInv, PTL

LEMMA Inv3Converges == Inv3 => ConvergesToLatest
<1>. SUFFICES ASSUME Inv3, NEW t \in Topics, NEW n \in DOMAIN log[t],
                     \A m \in n + 1 .. Len(log[t]) :
                       ~SameKey(log[t][m], log[t][n]),
                     NEW row \in rows, SameKey(row, log[t][n]),
                     row \in published
              PROVE  row.id <= log[t][n].id
  BY DEF ConvergesToLatest
<1>1. TypeOK /\ LastInv
  BY DEF Inv3, Inv2, Inv1, LogInv
<1>2. ~Earlier(log[t][n], row)
  BY <1>1 DEF LastInv, Done
<1>. QED  BY <1>1, <1>2, RowTypes DEF Earlier, SameKey

(* With one relay the last message of a path is the newest once all its    *)
(* rows are published, although a failed commit redelivers older ones.     *)
THEOREM OneRelayConverges ==
  ASSUME NEW r, Relays = {r}
  PROVE  Spec => []ConvergesToLatest
BY Inv3Converges, OneRelayInv, PTL

-----------------------------------------------------------------------------
(* The inductive invariant *)

(* Locked rows are unpublished and locked once; marking takes a row out of *)
(* the batch.                                                              *)
LockInv ==
  /\ \A r \in Relays : /\ claimed[r] \cap published = {}
                       /\ batch[r] \cap marks[r] = {}
  /\ \A r, q \in Relays : r # q => claimed[r] \cap claimed[q] = {}

(* The row is published, marked in an open pass or about to be marked. *)
Accounted(x) ==
  \/ x \in Done
  \/ \E r \in Relays : stage[r] = "mark" /\ x = Current(r)

Copies(seq, x) == Cardinality({n \in DOMAIN seq : seq[n] = x})

CopiesInv ==
  \A t \in Topics : \A x \in OutboxRow :
    /\ Copies(log[t], x) <= 1 + failures
    /\ ~Accounted(x) => Copies(log[t], x) <= failures

DupInv == Inv1 /\ LockInv /\ CopiesInv

-----------------------------------------------------------------------------
(* Counting copies *)

LEMMA CopiesAreNatural ==
  ASSUME NEW R, NEW s \in Seq(R), NEW x
  PROVE  /\ IsFiniteSet({n \in DOMAIN s : s[n] = x})
         /\ Copies(s, x) \in Nat
<1>. DEFINE at == {n \in DOMAIN s : s[n] = x}
<1>1. IsFiniteSet(1 .. Len(s))
  BY FS_Interval
<1>2. at \in SUBSET (1 .. Len(s))
  OBVIOUS
<1>3. IsFiniteSet(at) /\ Cardinality(at) \in Nat
  <2>. HIDE DEF at
  <2>. QED  BY <1>1, <1>2, FS_Subset, FS_CardinalityType
<1>. QED  BY <1>3 DEF Copies

LEMMA CopiesOfLonger ==
  ASSUME NEW R, NEW s \in Seq(R), NEW e \in R, NEW x
  PROVE  Copies(Append(s, e), x) = Copies(s, x) + (IF e = x THEN 1 ELSE 0)
<1>. DEFINE longer == Append(s, e)
            at == {n \in DOMAIN s : s[n] = x}
            atLonger == {n \in DOMAIN longer : longer[n] = x}
<1>1. /\ Len(s) \in Nat /\ DOMAIN s = 1 .. Len(s)
      /\ DOMAIN longer = 1 .. Len(s) + 1
      /\ longer[Len(s) + 1] = e
      /\ \A n \in 1 .. Len(s) : longer[n] = s[n]
  OBVIOUS
<1>2. IsFiniteSet(at) /\ Cardinality(at) \in Nat
  BY CopiesAreNatural DEF Copies
<1>3. Copies(s, x) = Cardinality(at) /\ Copies(longer, x) = Cardinality(atLonger)
  BY DEF Copies
<1>. HIDE DEF longer
<1>4. CASE e = x
  <2>1. atLonger = at \cup {Len(s) + 1} /\ Len(s) + 1 \notin at
    BY <1>1, <1>4
  <2>. HIDE DEF at, atLonger
  <2>2. Cardinality(atLonger) = Cardinality(at) + 1
    BY <1>2, <2>1, FS_AddElement
  <2>. QED  BY <1>3, <1>4, <2>2 DEF longer
<1>5. CASE e # x
  <2>1. atLonger = at
    BY <1>1, <1>5
  <2>. HIDE DEF at, atLonger
  <2>. QED  BY <1>2, <1>3, <1>5, <2>1 DEF longer
<1>. QED  BY <1>4, <1>5

(* What a delivery adds to each topic. *)
LEMMA DeliveryAdds ==
  ASSUME TypeOK, NEW row \in rows, Deliver(row),
         NEW t \in Topics, NEW x \in OutboxRow
  PROVE  /\ Copies(log[t], x) \in Nat
         /\ Copies(log'[t], x) \in Nat
         /\ Copies(log'[t], x) <= Copies(log[t], x) + 1
         /\ x # row => Copies(log'[t], x) = Copies(log[t], x)
<1>1. log[t] \in Seq(rows)
  BY DEF TypeOK
<1>2. log'[t] = log[t] \/ log'[t] = Append(log[t], row)
  BY DEF TypeOK, Deliver
<1>3. Copies(log[t], x) \in Nat
  BY <1>1, CopiesAreNatural
<1>4. CASE log'[t] = log[t]
  BY <1>3, <1>4
<1>5. CASE log'[t] = Append(log[t], row)
  BY <1>1, <1>3, <1>5, CopiesOfLonger
<1>. QED  BY <1>2, <1>4, <1>5

(* A row being sent is unpublished, unmarked and in no other pass. *)
LEMMA CurrentUnaccounted ==
  ASSUME Inv1, LockInv, NEW r \in Relays, stage[r] = "send"
  PROVE  /\ Current(r) \in rows /\ Current(r) \in OutboxRow
         /\ ~Accounted(Current(r))
<1>1. Current(r) \in batch[r] /\ batch[r] # {} /\ batch[r] \in SUBSET rows
  BY CurrentIsLeast DEF Inv1, TypeOK
<1>2. Current(r) \in claimed[r]
  BY <1>1 DEF Inv1, TypeOK
<1>3. Current(r) \notin published /\ Current(r) \notin marks[r]
  BY <1>1, <1>2 DEF LockInv
<1>4. \A q \in Relays : marks[q] \in SUBSET claimed[q]
  BY DEF Inv1, TypeOK
<1>5. \A q \in Relays \ {r} : Current(r) \notin claimed[q]
  BY <1>2 DEF LockInv
<1>6. ASSUME NEW q \in Relays, stage[q] = "mark"  PROVE Current(q) # Current(r)
  <2>1. Current(q) \in batch[q]
    BY <1>6, CurrentIsLeast DEF Inv1, TypeOK
  <2>2. Current(q) \in claimed[q] /\ q # r
    BY <1>6, <2>1 DEF Inv1, TypeOK
  <2>. QED  BY <1>5, <2>2
<1>. QED  BY <1>1, <1>3, <1>4, <1>5, <1>6 DEF Accounted, Done, Inv1, TypeOK

-----------------------------------------------------------------------------
(* The proof *)

LEMMA InitDupInv == Init => DupInv
<1>. SUFFICES ASSUME Init  PROVE DupInv
  OBVIOUS
<1>1. LockInv
  BY DEF Init, LockInv
<1>2. ASSUME NEW t \in Topics, NEW x \in OutboxRow  PROVE Copies(log[t], x) = 0
  <2>1. {n \in DOMAIN log[t] : log[t][n] = x} = {}
    BY DEF Init
  <2>. QED  BY <2>1, FS_EmptySet DEF Copies
<1>3. CopiesInv
  BY <1>2 DEF CopiesInv, Init
<1>. QED  BY <1>1, <1>3, InitInv1 DEF DupInv

(* Passes stay disjoint. *)
LEMMA NextLockInv ==
  ASSUME Inv1, LockInv, [Next]_vars
  PROVE  LockInv'
<1>1. CASE \E p \in Paths : Insert(p) \/ EndInsert(p)
  BY <1>1 DEF LockInv, Insert, EndInsert
<1>2. ASSUME NEW r \in Relays, Claim(r)  PROVE LockInv'
  <2>1. PICK S \in SUBSET Claimable(r) : /\ batch' = [batch EXCEPT ![r] = S]
                                         /\ claimed' = [claimed EXCEPT ![r] = S]
    BY <1>2 DEF Claim
  <2>2. /\ S \cap published = {} /\ \A q \in Relays \ {r} : S \cap claimed[q] = {}
        /\ claimed'[r] = S /\ batch'[r] = S /\ marks' = marks
        /\ published' = published
        /\ \A q \in Relays \ {r} : claimed'[q] = claimed[q] /\ batch'[q] = batch[q]
    BY <1>2, <2>1 DEF Claimable, Claim, Inv1, TypeOK
  <2>3. marks[r] = {}
    BY <1>2 DEF Claim, Inv1, IdleInv, TypeOK
  <2>. QED  BY <2>2, <2>3 DEF LockInv
<1>3. ASSUME NEW r \in Relays, Send(r) \/ EmptyPass(r)  PROVE LockInv'
  BY <1>3 DEF LockInv, Send, EmptyPass, vars
<1>4. ASSUME NEW r \in Relays, SendFails(r)  PROVE LockInv'
  BY <1>4 DEF LockInv, SendFails, Inv1, TypeOK
<1>5. ASSUME NEW r \in Relays, Mark(r)  PROVE LockInv'
  BY <1>5 DEF LockInv, Mark, Inv1, TypeOK
<1>6. ASSUME NEW r \in Relays, Commit(r)  PROVE LockInv'
  <2>1. \A q \in Relays \ {r} : claimed[q] \cap marks[r] = {}
    BY DEF LockInv, Inv1, TypeOK
  <2>2. /\ published' = published \cup marks[r]
        /\ claimed'[r] = {} /\ batch'[r] = {}
        /\ \A q \in Relays \ {r} : /\ claimed'[q] = claimed[q]
                                   /\ batch'[q] = batch[q] /\ marks'[q] = marks[q]
    BY <1>6 DEF Commit, Release, Inv1, TypeOK
  <2>. QED  BY <2>1, <2>2 DEF LockInv
<1>7. ASSUME NEW r \in Relays, Abort(r)  PROVE LockInv'
  <2>1. /\ published' = published
        /\ claimed'[r] = {} /\ batch'[r] = {}
        /\ \A q \in Relays \ {r} : /\ claimed'[q] = claimed[q]
                                   /\ batch'[q] = batch[q] /\ marks'[q] = marks[q]
    BY <1>7 DEF Abort, Release, Inv1, TypeOK
  <2>. QED  BY <2>1 DEF LockInv
<1>8. CASE UNCHANGED vars
  BY <1>8 DEF LockInv, vars
<1>. QED  BY <1>1, <1>2, <1>3, <1>4, <1>5, <1>6, <1>7, <1>8 DEF Next, Pass

(* Copies and failures stay in step when the topics do not change and no   *)
(* row loses its account, unless a failure pays for it.                    *)
LEMMA CopiesKept ==
  ASSUME Inv1, CopiesInv, log' = log, failures' \in Nat,
         \/ failures' = failures /\ \A x \in OutboxRow : Accounted(x) => Accounted(x)'
         \/ failures' = failures + 1
  PROVE  CopiesInv'
<1>. SUFFICES ASSUME NEW t \in Topics, NEW x \in OutboxRow
              PROVE  /\ Copies(log'[t], x) <= 1 + failures'
                     /\ ~Accounted(x)' => Copies(log'[t], x) <= failures'
  BY DEF CopiesInv, Copies
<1>0. log[t] \in Seq(rows) /\ failures \in Nat
  BY RelayAssumption DEF Inv1, TypeOK
<1>1. Copies(log[t], x) \in Nat
  BY <1>0, CopiesAreNatural
<1>2. /\ Copies(log[t], x) <= 1 + failures
      /\ ~Accounted(x) => Copies(log[t], x) <= failures
  BY DEF CopiesInv
<1>. QED  BY <1>0, <1>1, <1>2

(* A copy more of a row without account is paid for by the account it gets *)
(* or by a failure.                                                        *)
LEMMA CopiesGrow ==
  ASSUME Inv1, CopiesInv, NEW row \in rows, row \in OutboxRow, Deliver(row),
         ~Accounted(row),
         \/ /\ failures' = failures /\ Accounted(row)'
            /\ \A x \in OutboxRow : Accounted(x) => Accounted(x)'
         \/ failures' = failures + 1
  PROVE  CopiesInv'
<1>. SUFFICES ASSUME NEW t \in Topics, NEW x \in OutboxRow
              PROVE  /\ Copies(log'[t], x) <= 1 + failures'
                     /\ ~Accounted(x)' => Copies(log'[t], x) <= failures'
  BY DEF CopiesInv, Copies
<1>1. failures \in Nat
  BY RelayAssumption DEF Inv1, TypeOK
<1>2. /\ Copies(log[t], x) <= 1 + failures
      /\ ~Accounted(x) => Copies(log[t], x) <= failures
  BY DEF CopiesInv
<1>3. /\ Copies(log[t], x) \in Nat
      /\ Copies(log'[t], x) \in Nat
      /\ Copies(log'[t], x) <= Copies(log[t], x) + 1
      /\ x # row => Copies(log'[t], x) = Copies(log[t], x)
  BY DeliveryAdds DEF Inv1
<1>4. CASE x = row
  BY <1>1, <1>2, <1>3, <1>4
<1>5. CASE x # row
  BY <1>1, <1>2, <1>3, <1>5
<1>. QED  BY <1>4, <1>5

LEMMA NextDupInv == DupInv /\ [Next]_vars => DupInv'
<1>. SUFFICES ASSUME DupInv, [Next]_vars  PROVE DupInv'
  OBVIOUS
<1>1. Inv1 /\ Inv1' /\ LockInv /\ LockInv' /\ CopiesInv
  BY NextInv1, NextLockInv DEF DupInv
<1>. SUFFICES CopiesInv'
  BY <1>1 DEF DupInv
<1>2. failures \in Nat /\ failures' \in Nat
  BY <1>1, RelayAssumption DEF Inv1, TypeOK
<1>3. CASE \E p \in Paths : Insert(p) \/ EndInsert(p)
  <2>1. UNCHANGED <<log, failures, published, stage, batch, marks>>
    BY <1>3 DEF Insert, EndInsert
  <2>2. \A x : Accounted(x) => Accounted(x)'
    BY <2>1 DEF Accounted, Done, Current
  <2>. QED  BY <1>1, <1>2, <2>1, <2>2, CopiesKept
<1>4. ASSUME NEW r \in Relays, Claim(r)  PROVE CopiesInv'
  <2>1. /\ UNCHANGED <<log, failures, published, marks>> /\ stage[r] = "idle"
        /\ \A q \in Relays \ {r} : stage'[q] = stage[q] /\ batch'[q] = batch[q]
    BY <1>1, <1>4 DEF Claim, Inv1, TypeOK
  <2>2. \A x : Accounted(x) => Accounted(x)'
    BY <2>1 DEF Accounted, Done, Current
  <2>. QED  BY <1>1, <1>2, <2>1, <2>2, CopiesKept
<1>5. ASSUME NEW r \in Relays, Send(r)  PROVE CopiesInv'
  <2>1. /\ stage[r] = "send" /\ Deliver(Current(r)) /\ stage'[r] = "mark"
        /\ UNCHANGED <<failures, published, batch, marks>>
        /\ \A q \in Relays \ {r} : stage'[q] = stage[q]
    BY <1>1, <1>5 DEF Send, Inv1, TypeOK
  <2>2. /\ Current(r) \in rows /\ Current(r) \in OutboxRow
        /\ ~Accounted(Current(r))
    BY <1>1, <2>1, CurrentUnaccounted
  <2>3. PICK row \in rows : row = Current(r)
    BY <2>2
  <2>4. row \in OutboxRow /\ ~Accounted(row) /\ Deliver(row)
    BY <2>1, <2>2, <2>3
  <2>5. Accounted(row)'
    BY <2>1, <2>3 DEF Accounted, Current
  <2>6. /\ failures' = failures
        /\ \A x \in OutboxRow : Accounted(x) => Accounted(x)'
    BY <2>1 DEF Accounted, Done, Current
  <2>. QED  BY <1>1, <2>4, <2>5, <2>6, CopiesGrow
<1>6. ASSUME NEW r \in Relays, SendFails(r) \/ Abort(r)  PROVE CopiesInv'
  <2>1. failures' = failures + 1
    BY <1>6 DEF SendFails, Abort
  <2>2. CASE UNCHANGED log
    BY <1>1, <1>2, <2>1, <2>2, CopiesKept
  <2>3. CASE stage[r] = "send" /\ Deliver(Current(r))
    BY <1>1, <2>1, <2>3, CurrentUnaccounted, CopiesGrow
  <2>. QED  BY <1>6, <2>2, <2>3 DEF SendFails, Abort
<1>7. ASSUME NEW r \in Relays, Mark(r)  PROVE CopiesInv'
  <2>1. /\ UNCHANGED <<log, failures, published>>
        /\ marks'[r] = marks[r] \cup {Current(r)}
        /\ \A q \in Relays \ {r} : /\ stage'[q] = stage[q] /\ batch'[q] = batch[q]
                                   /\ marks'[q] = marks[q]
    BY <1>1, <1>7 DEF Mark, Inv1, TypeOK
  <2>2. \A x : x \in Done => x \in Done'
    BY <2>1 DEF Done
  <2>3. Current(r) \in Done'
    BY <2>1 DEF Done
  <2>4. \A q \in Relays \ {r} : Current(q)' = Current(q)
    BY <2>1 DEF Current
  <2>5. \A x : Accounted(x) => Accounted(x)'
    BY <2>1, <2>2, <2>3, <2>4 DEF Accounted
  <2>. QED  BY <1>1, <1>2, <2>1, <2>5, CopiesKept
<1>8. ASSUME NEW r \in Relays, Commit(r)  PROVE CopiesInv'
  <2>1. /\ UNCHANGED <<log, failures>> /\ stage[r] = "commit"
        /\ published' = published \cup marks[r]
        /\ \A q \in Relays \ {r} : /\ stage'[q] = stage[q] /\ batch'[q] = batch[q]
                                   /\ marks'[q] = marks[q]
    BY <1>1, <1>8 DEF Commit, Release, Inv1, TypeOK
  <2>2. \A x : x \in Done => x \in Done'
    BY <2>1 DEF Done
  <2>3. \A q \in Relays \ {r} : Current(q)' = Current(q)
    BY <2>1 DEF Current
  <2>4. \A x : Accounted(x) => Accounted(x)'
    BY <2>1, <2>2, <2>3 DEF Accounted
  <2>. QED  BY <1>1, <1>2, <2>1, <2>4, CopiesKept
<1>9. CASE UNCHANGED vars \/ \E r \in Relays : EmptyPass(r)
  <2>1. UNCHANGED <<log, failures, published, stage, batch, marks>>
    BY <1>9 DEF EmptyPass, vars
  <2>2. \A x : Accounted(x) => Accounted(x)'
    BY <2>1 DEF Accounted, Done, Current
  <2>. QED  BY <1>1, <1>2, <2>1, <2>2, CopiesKept
<1>. QED  BY <1>3, <1>4, <1>5, <1>6, <1>7, <1>8, <1>9 DEF Next, Pass

LEMMA DupInvBoundsCopies == DupInv => DuplicatesNeedFailures
<1>. SUFFICES ASSUME DupInv, NEW t \in Topics, NEW row \in Range(log[t])
              PROVE  Copies(log[t], row) <= 1 + failures
  BY DEF DuplicatesNeedFailures, Copies
<1>1. row \in OutboxRow
  BY DEF DupInv, Inv1, TypeOK, Range
<1>. QED  BY <1>1 DEF DupInv, CopiesInv

(* A row is sent again only after a failure, and at most once for each     *)
(* (outbox_relay.go:102-112, FOR UPDATE SKIP LOCKED), however many relays  *)
(* there are.                                                              *)
THEOREM NoNeedlessDuplicates == Spec => []DuplicatesNeedFailures
<1>1. Spec => []DupInv
  BY InitDupInv, NextDupInv, PTL DEF Spec
<1>. QED  BY <1>1, DupInvBoundsCopies, PTL
=============================================================================
