----------------------- MODULE AnalyticsProjector_proofs -----------------------
(***************************************************************************)
(* Proofs about AnalyticsProjector, for every content of the partition and *)
(* any number of consumers, retries, rebalances and crashes: type          *)
(* correctness, CountedOnce and LossNeedsCut.                              *)
(***************************************************************************)
EXTENDS AnalyticsProjector, FiniteSetTheorems, TLAPS

-----------------------------------------------------------------------------
(* The inductive invariants *)

Acting == {"mark", "apply", "deadLetter", "commit"}

(* A consumer that handles a message has one, and what it applies is gated. *)
StageInv ==
  \A c \in Consumers :
    /\ stage[c] \in Acting => at[c] \in Offsets
    /\ stage[c] \in {"mark", "apply"} => Message(c).kind \in Projecting
    /\ stage[c] = "apply" => Message(c).id \in consumed

TypeInv == TypeOK /\ StageInv

CountInv == IsFiniteSet(processed) /\ CountedOnce

HasDeadLetter(id) == \E d \in deadLetters : Topic[d].id = id

(* The event of the id is applied or dead-lettered, or will be before the  *)
(* consumer that works on it moves on.                                     *)
Settled(id) ==
  \/ id \in processed
  \/ HasDeadLetter(id)
  \/ \E c \in Consumers : /\ stage[c] \in {"apply", "deadLetter"}
                          /\ Message(c).id = id

Safe(id) ==
  \/ Settled(id)
  \/ \E c \in Consumers : stage[c] = "mark" /\ Message(c).id = id

Covered(o) == Topic[o].kind \in Projecting => Safe(Topic[o].id)

(* A message of the event is one that consumers have come to, leaving      *)
(* nothing uncovered before it.                                            *)
Reached(id) ==
  \E m \in Offsets : /\ Topic[m].id = id
                     /\ Topic[m].kind \in Projecting
                     /\ \A o \in 1 .. m - 1 : Covered(o)

PassedInv ==
  /\ \A o \in 1 .. committed : Covered(o)
  /\ \A c \in Consumers : \A o \in 1 .. at[c] - 1 : Covered(o)
  /\ \A c \in Consumers, o \in Offsets :
       stage[c] = "commit" /\ at[c] = o => Covered(o)
  /\ \A id \in consumed : Settled(id)
  /\ \A id \in processed : Reached(id)

CoverInv == TypeInv /\ (cuts = 0 => PassedInv)

-----------------------------------------------------------------------------
(* Type correctness *)

LEMMA TopicFacts ==
  /\ Len(Topic) \in Nat /\ Offsets = 1 .. Len(Topic)
  /\ \A o \in Offsets : /\ Topic[o].id \in Ids
                        /\ Topic[o].kind \in Kinds
                        /\ Topic[o].time \in Nat
                        /\ Bucket(Topic[o].time) \in Buckets
<1>1. Len(Topic) \in Nat /\ Offsets = 1 .. Len(Topic)
  BY ProjectorAssumption DEF Offsets
<1>2. \A o \in Offsets : Topic[o] \in [id : Ids, kind : Kinds, time : Nat]
  <2>. DEFINE Messages == [id : Ids, kind : Kinds, time : Nat]
  <2>1. Topic \in Seq(Messages)
    BY ProjectorAssumption
  <2>. HIDE DEF Messages
  <2>2. \A o \in Offsets : Topic[o] \in Messages
    BY <1>1, <2>1
  <2>. QED  BY <2>2 DEF Messages
<1>. QED  BY <1>1, <1>2 DEF Buckets

(* A bounded counter that goes up stays within its bound. *)
LEMMA CounterTypes ==
  /\ TypeOK /\ (cuts' = cuts \/ (cuts < MaxCuts /\ cuts' = cuts + 1))
       => cuts' \in 0 .. MaxCuts
  /\ TypeOK /\ (errors' = errors \/ (errors < MaxErrors /\ errors' = errors + 1))
       => errors' \in 0 .. MaxErrors
  /\ TypeOK /\ rebalances < MaxRebalances /\ rebalances' = rebalances + 1
       => rebalances' \in 0 .. MaxRebalances
<1>1. MaxErrors \in Nat /\ MaxRebalances \in Nat /\ MaxCuts \in Nat
  BY ProjectorAssumption
<1>. QED  BY <1>1 DEF TypeOK

LEMMA InitTypeInv == Init => TypeInv
<1>. SUFFICES ASSUME Init  PROVE TypeInv
  OBVIOUS
<1>1. TypeOK
  BY TopicFacts, ProjectorAssumption DEF Init, TypeOK, Stages
<1>2. StageInv
  BY DEF Init, StageInv, Acting
<1>. QED  BY <1>1, <1>2 DEF TypeInv

(* A step that leaves the stores alone keeps their types, and so on. *)
LEMMA RetryTypes ==
  ASSUME TypeOK, NEW c \in Consumers, NEW s \in Stages, RetryElse(c, s)
  PROVE  /\ stage' \in [Consumers -> Stages]
         /\ attempts' \in [Consumers -> 0 .. MaxAttempts - 1]
         /\ errors' \in 0 .. MaxErrors
         /\ stage'[c] = stage[c] \/ stage'[c] = s
         /\ \A b \in Consumers \ {c} : stage'[b] = stage[b]
<1>1. attempts[c] \in 0 .. MaxAttempts - 1 /\ MaxAttempts \in Nat \ {0}
  BY ProjectorAssumption DEF TypeOK
<1>2. errors < MaxErrors /\ errors' = errors + 1 /\ errors \in 0 .. MaxErrors
      /\ MaxErrors \in Nat
  BY ProjectorAssumption DEF RetryElse, TypeOK
<1>3. CASE attempts[c] + 1 < MaxAttempts
  <2>1. stage' = stage /\ attempts' = [attempts EXCEPT ![c] = attempts[c] + 1]
    BY <1>3 DEF RetryElse
  <2>2. attempts[c] + 1 \in 0 .. MaxAttempts - 1
    BY <1>1, <1>3
  <2>. QED  BY <1>2, <2>1, <2>2 DEF TypeOK
<1>4. CASE ~(attempts[c] + 1 < MaxAttempts)
  <2>1. /\ stage' = [stage EXCEPT ![c] = s]
        /\ attempts' = [attempts EXCEPT ![c] = 0]
    BY <1>4 DEF RetryElse, Goto
  <2>2. 0 \in 0 .. MaxAttempts - 1
    BY <1>1
  <2>. QED  BY <1>2, <2>1, <2>2 DEF TypeOK
<1>. QED  BY <1>3, <1>4

LEMMA GotoTypes ==
  ASSUME TypeOK, NEW c \in Consumers, NEW s \in Stages, Goto(c, s)
  PROVE  /\ stage' \in [Consumers -> Stages]
         /\ attempts' \in [Consumers -> 0 .. MaxAttempts - 1]
         /\ stage'[c] = s
         /\ \A b \in Consumers \ {c} : stage'[b] = stage[b]
BY ProjectorAssumption DEF TypeOK, Goto

LEMMA ProjectTypes ==
  ASSUME TypeOK, NEW c \in Consumers, at[c] \in Offsets,
         Message(c).kind \in Projecting, Project(c)
  PROVE  /\ processed' \in SUBSET Ids
         /\ rollup' \in [Buckets -> [Projecting -> Nat]]
<1>1. Message(c).id \in Ids /\ Bucket(Message(c).time) \in Buckets
  BY TopicFacts DEF Message
<1>2. processed' \in SUBSET Ids
  BY <1>1 DEF Project, TypeOK
<1>3. rollup' \in [Buckets -> [Projecting -> Nat]]
  <2>. DEFINE d == Bucket(Message(c).time)
              k == Message(c).kind
  <2>1. rollup[d][k] \in Nat /\ rollup[d] \in [Projecting -> Nat]
    BY <1>1 DEF TypeOK
  <2>2. [rollup[d] EXCEPT ![k] = @ + 1] \in [Projecting -> Nat]
    BY <2>1
  <2>. QED  BY <1>1, <2>2 DEF Project, TypeOK
<1>. QED  BY <1>2, <1>3

LEMMA NextTypeInv == TypeInv /\ [Next]_vars => TypeInv'
<1>. SUFFICES ASSUME TypeInv, [Next]_vars  PROVE TypeInv'
  OBVIOUS
<1>. USE TopicFacts, ProjectorAssumption DEF TypeInv
<1>0. ASSUME NEW c \in Consumers,
             \A b \in Consumers \ {c} : stage'[b] = stage[b] /\ at'[b] = at[b],
             consumed \subseteq consumed',
             stage'[c] \in Acting => at'[c] \in Offsets,
             stage'[c] \in {"mark", "apply"} => Topic[at'[c]].kind \in Projecting,
             stage'[c] = "apply" => Topic[at'[c]].id \in consumed'
      PROVE  StageInv'
  BY <1>0 DEF StageInv, Message
<1>1. ASSUME NEW c \in Consumers, Fetch(c)  PROVE TypeInv'
  <2>1. at[c] \in Offsets /\ UNCHANGED <<committed, owner, at, stores, bounds>>
    BY <1>1 DEF Fetch, TypeOK
  <2>. DEFINE s == IF Message(c).kind = "poison" THEN "deadLetter"
                   ELSE IF Message(c).kind \in Projecting THEN "mark" ELSE "commit"
  <2>2. s \in Stages /\ Goto(c, s)
    BY <1>1 DEF Fetch, Stages
  <2>3. s = "mark" => Message(c).kind \in Projecting
    OBVIOUS
  <2>4. s # "apply"
    OBVIOUS
  <2>. HIDE DEF s
  <2>5. TypeOK'
    BY <2>1, <2>2, GotoTypes DEF TypeOK, stores, bounds
  <2>6. StageInv'
    BY <1>0, <2>1, <2>2, <2>3, <2>4, GotoTypes DEF stores, Message
  <2>. QED  BY <2>5, <2>6
<1>2. ASSUME NEW c \in Consumers, Mark(c)  PROVE TypeInv'
  <2>. DEFINE s == IF Message(c).id \in consumed THEN "commit" ELSE "apply"
  <2>1. /\ at[c] \in Offsets /\ Message(c).kind \in Projecting
        /\ Message(c).id \in Ids
        /\ consumed' = consumed \cup {Message(c).id}
        /\ UNCHANGED <<committed, owner, at, processed, rollup, deadLetters, bounds>>
    BY <1>2 DEF Mark, StageInv, Acting, Message
  <2>2. s \in Stages /\ Goto(c, s)
    BY <1>2 DEF Mark, Stages
  <2>. HIDE DEF s
  <2>3. TypeOK'
    BY <2>1, <2>2, GotoTypes DEF TypeOK, bounds
  <2>4. StageInv'
    BY <1>0, <2>1, <2>2, GotoTypes DEF Message
  <2>. QED  BY <2>3, <2>4
<1>3. ASSUME NEW c \in Consumers, MarkFails(c)  PROVE TypeInv'
  <2>1. /\ at[c] \in Offsets /\ Message(c).kind \in Projecting
        /\ Message(c).id \in Ids /\ stage[c] = "mark"
        /\ consumed' = consumed \/ consumed' = consumed \cup {Message(c).id}
        /\ cuts' = cuts \/ (cuts < MaxCuts /\ cuts' = cuts + 1)
        /\ UNCHANGED <<committed, owner, at, processed, rollup, deadLetters,
                       rebalances>>
    BY <1>3 DEF MarkFails, StageInv, Acting, Message
  <2>2. RetryElse(c, "deadLetter") /\ "deadLetter" \in Stages
    BY <1>3 DEF MarkFails, Stages
  <2>3. TypeOK'
    BY <2>1, <2>2, RetryTypes, CounterTypes DEF TypeOK
  <2>4. StageInv'
    BY <1>0, <2>1, <2>2, RetryTypes DEF Message
  <2>. QED  BY <2>3, <2>4
<1>4. ASSUME NEW c \in Consumers, Apply(c) \/ ApplyFails(c)  PROVE TypeInv'
  <2>1. /\ at[c] \in Offsets /\ Message(c).kind \in Projecting
        /\ Message(c).id \in consumed /\ stage[c] = "apply"
        /\ UNCHANGED <<committed, owner, at, consumed, deadLetters, rebalances, cuts>>
    BY <1>4 DEF Apply, ApplyFails, StageInv, Acting, Message, bounds
  <2>2. \/ Goto(c, "commit") /\ UNCHANGED errors
        \/ RetryElse(c, "deadLetter")
    BY <1>4 DEF Apply, ApplyFails, bounds
  <2>3. {"commit", "deadLetter"} \subseteq Stages
    BY DEF Stages
  <2>4. /\ stage' \in [Consumers -> Stages]
        /\ attempts' \in [Consumers -> 0 .. MaxAttempts - 1]
        /\ errors' \in 0 .. MaxErrors
        /\ stage'[c] \in {"apply", "commit", "deadLetter"}
        /\ \A b \in Consumers \ {c} : stage'[b] = stage[b]
    <3>1. CASE Goto(c, "commit") /\ UNCHANGED errors
      BY <2>3, <3>1, GotoTypes DEF TypeOK
    <3>2. CASE RetryElse(c, "deadLetter")
      BY <2>1, <2>3, <3>2, RetryTypes
    <3>. QED  BY <2>2, <3>1, <3>2
  <2>5. /\ processed' \in SUBSET Ids
        /\ rollup' \in [Buckets -> [Projecting -> Nat]]
    <3>1. CASE Project(c)
      BY <2>1, <3>1, ProjectTypes
    <3>2. CASE UNCHANGED <<processed, rollup>>
      BY <3>2 DEF TypeOK
    <3>. QED  BY <1>4, <3>1, <3>2 DEF Apply, ApplyFails
  <2>6. TypeOK'
    BY <2>1, <2>4, <2>5 DEF TypeOK
  <2>7. StageInv'
    BY <1>0, <2>1, <2>4 DEF Message
  <2>. QED  BY <2>6, <2>7
<1>5. ASSUME NEW c \in Consumers, DeadLetter(c) \/ DeadLetterFails(c)
      PROVE  TypeInv'
  <2>1. /\ at[c] \in Offsets
        /\ deadLetters' = deadLetters \/ deadLetters' = deadLetters \cup {at[c]}
        /\ cuts' = cuts \/ (cuts < MaxCuts /\ cuts' = cuts + 1)
        /\ UNCHANGED <<committed, owner, at, consumed, processed, rollup, errors,
                       rebalances>>
    BY <1>5 DEF DeadLetter, DeadLetterFails, StageInv, Acting, stores
  <2>2. PICK s \in {"commit", "stopped"} : Goto(c, s)
    BY <1>5 DEF DeadLetter, DeadLetterFails
  <2>3. s \in Stages
    BY DEF Stages
  <2>4. TypeOK'
    BY <2>1, <2>2, <2>3, GotoTypes, CounterTypes DEF TypeOK
  <2>5. StageInv'
    BY <1>0, <2>1, <2>2, <2>3, GotoTypes
  <2>. QED  BY <2>4, <2>5
<1>6. ASSUME NEW c \in Consumers, Commit(c) \/ CommitFails(c) \/ Restart(c)
      PROVE  TypeInv'
  <2>1. PICK s \in {"fetch", "stopped"} : Goto(c, s)
    BY <1>6 DEF Commit, CommitFails, Restart
  <2>2. s \in Stages
    BY DEF Stages
  <2>3. stage[c] = "commit" => at[c] \in Offsets
    BY DEF StageInv, Acting
  <2>4. /\ committed' \in 0 .. Len(Topic)
        /\ at' \in [Consumers -> 1 .. Len(Topic) + 1]
        /\ \A b \in Consumers \ {c} : at'[b] = at[b]
    <3>1. CASE Commit(c)
      BY <2>3, <3>1 DEF Commit, TypeOK
    <3>2. CASE CommitFails(c)
      BY <3>2 DEF CommitFails, TypeOK
    <3>3. CASE Restart(c)
      BY <3>3 DEF Restart, TypeOK
    <3>. QED  BY <1>6, <3>1, <3>2, <3>3
  <2>5. /\ UNCHANGED <<owner, stores, rebalances>>
        /\ errors' = errors \/ (errors < MaxErrors /\ errors' = errors + 1)
        /\ cuts' = cuts \/ (cuts < MaxCuts /\ cuts' = cuts + 1)
    BY <1>6 DEF Commit, CommitFails, Restart, bounds
  <2>6. TypeOK'
    BY <2>1, <2>2, <2>4, <2>5, GotoTypes, CounterTypes DEF TypeOK, stores
  <2>7. StageInv'
    BY <1>0, <2>1, <2>2, <2>4, <2>5, GotoTypes DEF stores, Acting
  <2>. QED  BY <2>6, <2>7
<1>7. ASSUME NEW c \in Consumers, Rebalance(c)  PROVE TypeInv'
  <2>1. /\ UNCHANGED <<committed, stage, attempts, stores, errors, cuts>>
        /\ owner' = c /\ stage[c] = "fetch"
        /\ rebalances < MaxRebalances /\ rebalances' = rebalances + 1
        /\ at' = [at EXCEPT ![c] = committed + 1]
    BY <1>7 DEF Rebalance
  <2>2. TypeOK'
    <3>1. committed + 1 \in 1 .. Len(Topic) + 1
      BY DEF TypeOK
    <3>2. at' \in [Consumers -> 1 .. Len(Topic) + 1]
      BY <2>1, <3>1 DEF TypeOK
    <3>3. rebalances' \in 0 .. MaxRebalances
      BY <2>1, CounterTypes
    <3>. QED  BY <2>1, <3>2, <3>3 DEF TypeOK, stores
  <2>3. StageInv'
    BY <1>0, <2>1 DEF stores, Acting, TypeOK
  <2>. QED  BY <2>2, <2>3
<1>8. CASE UNCHANGED vars
  BY <1>8 DEF vars, stores, bounds, TypeOK, StageInv, Message
<1>. QED  BY <1>1, <1>2, <1>3, <1>4, <1>5, <1>6, <1>7, <1>8 DEF Next, Handle

LEMMA TypeInvAlways == Spec => []TypeInv
BY InitTypeInv, NextTypeInv, PTL DEF Spec

(* The projector's state stays well formed: no committed offset is beyond  *)
(* the partition's end, no counter below zero.                             *)
THEOREM ProjectorTypeCorrect == Spec => []TypeOK
<1>1. TypeInv => TypeOK
  BY DEF TypeInv
<1>. QED  BY <1>1, TypeInvAlways, PTL

-----------------------------------------------------------------------------
(* Counting *)

(* Truncation to days: a time is within its own bucket and no other. *)
LEMMA BucketSpan ==
  ASSUME NEW t \in Nat
  PROVE  Bucket(t) \in Nat /\ Bucket(t) <= t /\ t < Bucket(t) + DayLength
BY ProjectorAssumption DEF Bucket

LEMMA OneBucket ==
  ASSUME NEW t \in Nat, NEW u \in Nat,
         Bucket(u) <= t, t < Bucket(u) + DayLength
  PROVE  Bucket(t) = Bucket(u)
<1>. DEFINE i == t \div DayLength
            j == u \div DayLength
<1>1. DayLength \in Nat \ {0} /\ i \in Nat /\ j \in Nat
  BY ProjectorAssumption
<1>2. /\ i * DayLength <= t /\ t < i * DayLength + DayLength
      /\ j * DayLength <= t /\ t < j * DayLength + DayLength
  BY BucketSpan DEF Bucket
<1>. HIDE DEF i, j
<1>3. \A m, n \in Nat : m < n => m * DayLength + DayLength <= n * DayLength
  BY <1>1
<1>4. ~(i < j) /\ ~(j < i)
  BY <1>1, <1>2, <1>3
<1>. QED  BY <1>1, <1>4 DEF Bucket, i, j

(* What a projection of an unclaimed event does to one counter. *)
LEMMA ClaimCounts ==
  ASSUME TypeInv, IsFiniteSet(processed),
         NEW c \in Consumers, stage[c] = "apply",
         Message(c).id \notin processed,
         NEW d \in Buckets, NEW k \in Projecting
  PROVE  Cardinality(EventIds(k, d, d + DayLength)
                       \cap (processed \cup {Message(c).id}))
           = Cardinality(EventIds(k, d, d + DayLength) \cap processed)
               + (IF d = Bucket(Message(c).time) /\ k = Message(c).kind
                  THEN 1 ELSE 0)
<1>. DEFINE ids == EventIds(k, d, d + DayLength)
            id == Message(c).id
<1>1. at[c] \in Offsets /\ Message(c).kind \in Projecting
  BY DEF TypeInv, StageInv, Acting
<1>2. /\ IsFiniteSet(ids \cap processed)
      /\ Cardinality(ids \cap processed) \in Nat
  <2>. HIDE DEF ids
  <2>. QED  BY FS_Subset, FS_CardinalityType
<1>3. Message(c).time \in Nat
  BY <1>1, TopicFacts DEF Message
<1>4. PICK u \in Nat : d = Bucket(u)
  BY TopicFacts DEF Buckets
<1>5. id \in ids <=> d = Bucket(Message(c).time) /\ k = Message(c).kind
  <2>1. ASSUME d = Bucket(Message(c).time), k = Message(c).kind
        PROVE  id \in ids
    BY <1>1, <1>3, <2>1, BucketSpan DEF EventIds, Message
  <2>2. ASSUME id \in ids
        PROVE  d = Bucket(Message(c).time) /\ k = Message(c).kind
    <3>1. PICK n \in Offsets : /\ Topic[n].id = id /\ Topic[n].kind = k
                               /\ d <= Topic[n].time
                               /\ Topic[n].time < d + DayLength
      BY <2>2 DEF EventIds
    <3>2. Topic[n] = Message(c)
      BY <1>1, <3>1, RedeliveryAssumption DEF Offsets, Message
    <3>. QED  BY <1>3, <1>4, <3>1, <3>2, OneBucket
  <2>. QED  BY <2>1, <2>2
<1>. HIDE DEF ids, id
<1>6. CASE id \in ids
  <2>1. /\ ids \cap (processed \cup {id}) = (ids \cap processed) \cup {id}
        /\ id \notin ids \cap processed
    BY <1>6 DEF id
  <2>2. Cardinality((ids \cap processed) \cup {id})
          = Cardinality(ids \cap processed) + 1
    BY <1>2, <2>1, FS_AddElement
  <2>. QED  BY <1>5, <1>6, <2>1, <2>2 DEF ids, id
<1>7. CASE id \notin ids
  <2>1. ids \cap (processed \cup {id}) = ids \cap processed
    BY <1>7
  <2>. QED  BY <1>2, <1>5, <1>7, <2>1 DEF ids, id
<1>. QED  BY <1>6, <1>7

LEMMA InitCountInv == Init => CountInv
<1>. SUFFICES ASSUME Init  PROVE CountInv
  OBVIOUS
<1>1. IsFiniteSet({}) /\ Cardinality({}) = 0 /\ processed = {} /\ consumed = {}
  BY FS_EmptySet DEF Init
<1>2. \A d \in Buckets, k \in Projecting : rollup[d][k] = 0
  BY DEF Init
<1>3. \A S : S \cap {} = {}
  OBVIOUS
<1>. QED  BY <1>1, <1>2, <1>3 DEF CountInv, CountedOnce

LEMMA ProjectCounts ==
  ASSUME TypeInv, CountInv, NEW c \in Consumers, stage[c] = "apply",
         Project(c), UNCHANGED consumed
  PROVE  CountInv'
<1>. DEFINE id == Message(c).id
            e == Bucket(Message(c).time)
            f == Message(c).kind
<1>1. /\ at[c] \in Offsets /\ f \in Projecting /\ id \in consumed
      /\ e \in Buckets
  BY TopicFacts DEF TypeInv, StageInv, Acting, Message
<1>2. IsFiniteSet(processed') /\ processed' \subseteq consumed'
  BY <1>1, FS_AddElement DEF CountInv, CountedOnce, Project
<1>3. CASE id \in processed
  <2>1. processed' = processed /\ rollup' = rollup
    BY <1>3 DEF Project
  <2>. QED  BY <2>1 DEF CountInv, CountedOnce
<1>4. CASE id \notin processed
  <2>1. /\ processed' = processed \cup {id}
        /\ rollup' = [rollup EXCEPT ![e][f] = @ + 1]
    BY <1>4 DEF Project
  <2>2. ASSUME NEW d \in Buckets, NEW k \in Projecting
        PROVE  rollup'[d][k] = rollup[d][k] + (IF d = e /\ k = f THEN 1 ELSE 0)
    <3>1. rollup[d] \in [Projecting -> Nat] /\ rollup \in [Buckets -> [Projecting -> Nat]]
      BY DEF TypeInv, TypeOK
    <3>. HIDE DEF e, f
    <3>. QED  BY <1>1, <2>1, <3>1
  <2>3. ASSUME NEW d \in Buckets, NEW k \in Projecting
        PROVE  rollup'[d][k]
                 = Cardinality(EventIds(k, d, d + DayLength) \cap processed')
    <3>1. rollup[d][k] = Cardinality(EventIds(k, d, d + DayLength) \cap processed)
      BY DEF CountInv, CountedOnce
    <3>2. Cardinality(EventIds(k, d, d + DayLength) \cap (processed \cup {id}))
            = Cardinality(EventIds(k, d, d + DayLength) \cap processed)
                + (IF d = e /\ k = f THEN 1 ELSE 0)
      BY <1>4, ClaimCounts DEF CountInv
    <3>. QED  BY <2>1, <2>2, <3>1, <3>2
  <2>. QED  BY <1>2, <2>3 DEF CountInv, CountedOnce
<1>. QED  BY <1>3, <1>4

LEMMA NextCountInv == TypeInv /\ CountInv /\ [Next]_vars => CountInv'
<1>. SUFFICES ASSUME TypeInv, CountInv, [Next]_vars  PROVE CountInv'
  OBVIOUS
<1>1. ASSUME UNCHANGED <<processed, rollup>>, consumed \subseteq consumed'
      PROVE  CountInv'
  BY <1>1 DEF CountInv, CountedOnce
<1>2. ASSUME NEW c \in Consumers, Apply(c) \/ ApplyFails(c)  PROVE CountInv'
  <2>1. stage[c] = "apply" /\ UNCHANGED consumed
        /\ (Project(c) \/ UNCHANGED <<processed, rollup>>)
    BY <1>2 DEF Apply, ApplyFails
  <2>. QED  BY <1>1, <2>1, ProjectCounts
<1>3. ASSUME NEW c \in Consumers,
             \/ Fetch(c) \/ Mark(c) \/ DeadLetter(c) \/ Commit(c)
             \/ MarkFails(c) \/ DeadLetterFails(c) \/ CommitFails(c)
             \/ Rebalance(c) \/ Restart(c)
      PROVE  UNCHANGED <<processed, rollup>> /\ consumed \subseteq consumed'
  BY <1>3 DEF Fetch, Mark, DeadLetter, Commit, MarkFails, DeadLetterFails,
              CommitFails, Rebalance, Restart, stores
<1>4. CASE UNCHANGED vars
  BY <1>1, <1>4 DEF vars
<1>. QED  BY <1>1, <1>2, <1>3, <1>4 DEF Next, Handle

LEMMA CountInvAlways == Spec => []CountInv
BY InitCountInv, NextCountInv, TypeInvAlways, PTL DEF Spec

(* However often a message is delivered, retried or handled by two         *)
(* consumers at once, its event is counted once, on its own day.           *)
THEOREM EventsCountedOnce == Spec => []CountedOnce
<1>1. CountInv => CountedOnce
  BY DEF CountInv
<1>. QED  BY <1>1, CountInvAlways, PTL

-----------------------------------------------------------------------------
(* Nothing is passed by *)

LEMMA SafeIsCovered ==
  ASSUME TypeInv, NEW o \in Offsets, Covered(o)
  PROVE  Projected(o) \/ DeadLettered(o) \/ SomeoneHandles(Topic[o].id)
<1>1. ASSUME NEW c \in Consumers, stage[c] \in {"mark", "apply", "deadLetter"}
      PROVE  at[c] \in Offsets
  BY <1>1 DEF TypeInv, StageInv, Acting
<1>. QED  BY <1>1 DEF Covered, Safe, Settled, HasDeadLetter, Projected,
                      DeadLettered, SomeoneHandles, Handling, Message

LEMMA InitCoverInv == Init => CoverInv
<1>. SUFFICES ASSUME Init  PROVE CoverInv
  OBVIOUS
<1>1. PassedInv
  BY DEF Init, PassedInv
<1>. QED  BY <1>1, InitTypeInv DEF CoverInv

(* What one consumer does, the others standing still, when nothing is cut: *)
(* it leaves no event behind unless it is settled.                         *)
LEMMA NothingLetGo ==
  ASSUME NEW c \in Consumers, \A id \in consumed : Settled(id),
         \A b \in Consumers \ {c} : stage'[b] = stage[b] /\ at'[b] = at[b],
         processed \subseteq processed', deadLetters \subseteq deadLetters',
         stage[c] \in {"apply", "deadLetter"} =>
           \/ stage'[c] \in {"apply", "deadLetter"} /\ at'[c] = at[c]
           \/ Message(c).id \in processed'
           \/ at[c] \in deadLetters',
         stage[c] = "mark" =>
           \/ stage'[c] \in {"mark", "apply", "deadLetter"} /\ at'[c] = at[c]
           \/ Message(c).id \in consumed
  PROVE  /\ \A id : Settled(id) => Settled(id)'
         /\ \A o : Covered(o) => Covered(o)'
<1>1. ASSUME NEW id, Settled(id)  PROVE Settled(id)'
  <2>1. CASE id \in processed \/ HasDeadLetter(id)
    BY <2>1 DEF Settled, HasDeadLetter
  <2>2. ASSUME NEW b \in Consumers, stage[b] \in {"apply", "deadLetter"},
               Message(b).id = id
        PROVE  Settled(id)'
    BY <2>2 DEF Settled, HasDeadLetter, Message
  <2>. QED  BY <1>1, <2>1, <2>2 DEF Settled
<1>2. ASSUME NEW id, Safe(id)  PROVE Safe(id)'
  <2>1. CASE Settled(id)
    BY <1>1, <2>1 DEF Safe
  <2>2. ASSUME NEW b \in Consumers, stage[b] = "mark", Message(b).id = id
        PROVE  Safe(id)'
    <3>1. CASE Settled(id)
      BY <1>1, <3>1 DEF Safe
    <3>2. CASE ~Settled(id)
      <4>1. stage'[b] \in {"mark", "apply", "deadLetter"} /\ at'[b] = at[b]
        BY <2>2, <3>2
      <4>. QED  BY <2>2, <4>1 DEF Safe, Settled, Message
    <3>. QED  BY <3>1, <3>2
  <2>. QED  BY <1>2, <2>1, <2>2 DEF Safe
<1>. QED  BY <1>1, <1>2 DEF Covered

LEMMA NextCoverInv == CoverInv /\ [Next]_vars => CoverInv'
<1>. SUFFICES ASSUME CoverInv, [Next]_vars, cuts' = 0  PROVE PassedInv'
  BY NextTypeInv DEF CoverInv
<1>1. TypeInv /\ (cuts = 0 => PassedInv)
  BY DEF CoverInv
<1>2. committed \in Nat /\ \A c \in Consumers : at[c] \in Nat
  BY <1>1, TopicFacts DEF TypeInv, TypeOK
<1>3. ASSUME NEW c \in Consumers, PassedInv,
             \A id : Settled(id) => Settled(id)',
             \A o : Covered(o) => Covered(o)',
             committed' = committed \/ (stage[c] = "commit" /\ committed' = at[c]),
             \A b \in Consumers \ {c} : stage'[b] = stage[b] /\ at'[b] = at[b],
             \/ at'[c] = at[c] \/ at'[c] = committed + 1
             \/ stage[c] = "commit" /\ at'[c] = at[c] + 1,
             \A o \in Offsets : stage'[c] = "commit" /\ at'[c] = o => Covered(o)',
             \A id \in consumed' \ consumed : Settled(id)',
             \A id \in processed' \ processed : Reached(id)
      PROVE  PassedInv'
  <2>0. /\ \A o \in 1 .. committed : Covered(o)
        /\ \A b \in Consumers : \A o \in 1 .. at[b] - 1 : Covered(o)
        /\ stage[c] = "commit" => \A o \in 1 .. at[c] : Covered(o)
    <3>1. stage[c] = "commit" => at[c] \in Offsets
      BY <1>1 DEF TypeInv, StageInv, Acting
    <3>2. \A o \in 1 .. at[c] : o = at[c] \/ o \in 1 .. at[c] - 1
      BY <1>2
    <3>. QED  BY <1>3, <3>1, <3>2 DEF PassedInv
  <2>1. ASSUME NEW o \in 1 .. committed'  PROVE Covered(o)'
    BY <1>2, <1>3, <2>0
  <2>2. ASSUME NEW b \in Consumers, NEW o \in 1 .. at'[b] - 1
        PROVE  Covered(o)'
    <3>1. CASE b # c
      BY <1>3, <2>0, <3>1
    <3>2. CASE b = c /\ at'[c] = at[c]
      BY <1>3, <2>0, <3>2
    <3>3. CASE b = c /\ at'[c] = committed + 1
      <4>1. o \in 1 .. committed
        BY <1>2, <3>3
      <4>. QED  BY <1>3, <2>0, <4>1
    <3>4. CASE b = c /\ stage[c] = "commit" /\ at'[c] = at[c] + 1
      <4>1. o \in 1 .. at[c]
        BY <1>2, <3>4
      <4>. QED  BY <1>3, <2>0, <3>4, <4>1
    <3>. QED  BY <1>3, <3>1, <3>2, <3>3, <3>4
  <2>3. \A b \in Consumers, o \in Offsets :
          stage'[b] = "commit" /\ at'[b] = o => Covered(o)'
    BY <1>3 DEF PassedInv
  <2>4. \A id \in consumed' : Settled(id)'
    BY <1>3 DEF PassedInv
  <2>5. \A id \in processed' : Reached(id)'
    BY <1>3 DEF PassedInv, Reached
  <2>. QED  BY <2>1, <2>2, <2>3, <2>4, <2>5 DEF PassedInv
<1>4. ASSUME NEW c \in Consumers,
             \/ Fetch(c) \/ Mark(c) \/ MarkFails(c) \/ Apply(c) \/ ApplyFails(c)
             \/ DeadLetter(c) \/ CommitFails(c)
      PROVE  PassedInv'
  <2>1. UNCHANGED <<committed, at>> /\ cuts \in Nat /\ cuts' \in {cuts, cuts + 1}
    BY <1>1, <1>4, ProjectorAssumption
       DEF Fetch, Mark, MarkFails, Apply, ApplyFails, DeadLetter, CommitFails,
           bounds, TypeInv, TypeOK
  <2>2. cuts = 0 /\ cuts' = cuts /\ PassedInv
    BY <1>1, <2>1
  <2>3. stage \in [Consumers -> Stages]
    BY <1>1 DEF TypeInv, TypeOK
  <2>4. /\ \A b \in Consumers \ {c} : stage'[b] = stage[b] /\ at'[b] = at[b]
        /\ processed \subseteq processed' /\ deadLetters \subseteq deadLetters'
        /\ stage[c] \in {"apply", "deadLetter"} =>
             \/ stage'[c] \in {"apply", "deadLetter"}
             \/ Message(c).id \in processed'
             \/ at[c] \in deadLetters'
        /\ stage[c] = "mark" =>
             \/ stage'[c] \in {"mark", "apply", "deadLetter"}
             \/ Message(c).id \in consumed
        /\ stage'[c] = "commit" =>
             \/ Message(c).kind \notin Projecting
             \/ Message(c).id \in consumed
             \/ Message(c).id \in processed'
             \/ at[c] \in deadLetters'
        /\ \A id \in consumed' \ consumed :
             Message(c).id = id /\ stage'[c] = "apply"
        /\ \A id \in processed' \ processed :
             Message(c).id = id /\ stage[c] = "apply"
    <3>1. CASE Fetch(c)
      BY <2>1, <2>3, <3>1 DEF Fetch, Goto, stores
    <3>2. CASE Mark(c)
      BY <2>1, <2>3, <3>2 DEF Mark, Goto
    <3>3. CASE MarkFails(c)
      BY <2>1, <2>2, <2>3, <3>3 DEF MarkFails, RetryElse, Goto
    <3>4. CASE Apply(c)
      BY <2>1, <2>3, <3>4 DEF Apply, Project, Goto
    <3>5. CASE ApplyFails(c)
      BY <2>1, <2>3, <3>5 DEF ApplyFails, Project, RetryElse, Goto
    <3>6. CASE DeadLetter(c)
      BY <2>1, <2>2, <2>3, <3>6 DEF DeadLetter, Goto
    <3>7. CASE CommitFails(c)
      BY <2>1, <2>3, <3>7 DEF CommitFails, Goto, stores
    <3>. QED  BY <1>4, <3>1, <3>2, <3>3, <3>4, <3>5, <3>6, <3>7
  <2>5. \A id \in consumed : Settled(id)
    BY <2>2 DEF PassedInv
  <2>6. /\ \A id : Settled(id) => Settled(id)'
        /\ \A o : Covered(o) => Covered(o)'
    BY <2>1, <2>4, <2>5, NothingLetGo
  <2>7. ASSUME NEW o \in Offsets, stage'[c] = "commit", at'[c] = o
        PROVE  Covered(o)'
    <3>1. o = at[c] /\ Message(c) = Topic[o]
      BY <2>1, <2>7 DEF Message
    <3>2. CASE Topic[o].kind \notin Projecting
      BY <3>2 DEF Covered
    <3>3. CASE Topic[o].id \in consumed
      BY <2>5, <2>6, <3>3 DEF Covered, Safe
    <3>4. CASE Topic[o].id \in processed' \/ o \in deadLetters'
      BY <3>4 DEF Covered, Safe, Settled, HasDeadLetter
    <3>. QED  BY <2>4, <2>7, <3>1, <3>2, <3>3, <3>4
  <2>8. \A id \in consumed' \ consumed : Settled(id)'
    BY <2>1, <2>4 DEF Settled, Message
  <2>9. \A id \in processed' \ processed : Reached(id)
    BY <1>1, <2>2, <2>4 DEF Reached, PassedInv, TypeInv, StageInv, Acting, Message
  <2>. QED  BY <1>3, <2>1, <2>2, <2>4, <2>6, <2>7, <2>8, <2>9
<1>5. ASSUME NEW c \in Consumers, Commit(c) \/ Rebalance(c)
      PROVE  PassedInv'
  <2>1. /\ UNCHANGED <<consumed, processed, deadLetters, cuts>>
        /\ stage[c] \in {"commit", "fetch"} /\ stage'[c] = "fetch"
        /\ \A b \in Consumers \ {c} : stage'[b] = stage[b] /\ at'[b] = at[b]
    BY <1>1, <1>5 DEF Commit, Rebalance, Goto, stores, bounds, TypeInv, TypeOK
  <2>2. PassedInv
    BY <1>1, <2>1
  <2>3. \A id \in consumed : Settled(id)
    BY <2>2 DEF PassedInv
  <2>4. /\ \A id : Settled(id) => Settled(id)'
        /\ \A o : Covered(o) => Covered(o)'
    BY <2>1, <2>3, NothingLetGo
  <2>5. /\ committed' = committed \/ (stage[c] = "commit" /\ committed' = at[c])
        /\ \/ at'[c] = committed + 1
           \/ stage[c] = "commit" /\ at'[c] = at[c] + 1
    BY <1>1, <1>5 DEF Commit, Rebalance, TypeInv, TypeOK
  <2>. QED  BY <1>3, <2>1, <2>2, <2>4, <2>5
<1>6. ASSUME NEW c \in Consumers, DeadLetterFails(c) \/ Restart(c)
      PROVE  FALSE
  BY <1>1, <1>6, ProjectorAssumption
     DEF DeadLetterFails, Restart, TypeInv, TypeOK
<1>7. CASE UNCHANGED vars
  BY <1>1, <1>7 DEF vars, PassedInv, Reached, Covered, Safe, Settled, HasDeadLetter,
                    Message
<1>. QED  BY <1>4, <1>5, <1>6, <1>7 DEF Next, Handle

LEMMA CoverInvAlways == Spec => []CoverInv
BY InitCoverInv, NextCoverInv, PTL DEF Spec

(* An offset is committed for a message only when its event is applied,    *)
(* needs no applying, is dead-lettered or in the hands of a consumer, as   *)
(* long as nothing is cut: retries, rebalances and late commits of old     *)
(* owners lose no event.                                                   *)
THEOREM OnlyCutsLose == Spec => []LossNeedsCut
<1>1. CoverInv => LossNeedsCut
  <2>. SUFFICES ASSUME CoverInv, cuts = 0, NEW o \in 1 .. committed
                PROVE  \/ Projected(o) \/ DeadLettered(o)
                       \/ SomeoneHandles(Topic[o].id)
    BY DEF LossNeedsCut
  <2>1. o \in Offsets
    BY TopicFacts DEF CoverInv, TypeInv, TypeOK
  <2>2. Covered(o)
    BY DEF CoverInv, PassedInv
  <2>. QED  BY <2>1, <2>2, SafeIsCovered DEF CoverInv
<1>. QED  BY <1>1, CoverInvAlways, PTL
=============================================================================
