----------------------- MODULE PathCatalogueFeed_proofs -----------------------
(***************************************************************************)
(* The refinement of ChangeFeed by PathCatalogue: every step of the        *)
(* requests is one announced change or leaves store and feeds alone.       *)
(***************************************************************************)
EXTENDS PathCatalogue_proofs, PathCatalogueFeed, FiniteSetTheorems,
        SequenceTheorems, WellFoundedInduction

-----------------------------------------------------------------------------
(* ORDER BY id *)

HasIds(rows) == \A e \in rows : e.id \in Nat

(* s lists the rows, all of them, with growing ids. *)
Lists(s, rows) ==
  /\ s \in Seq(rows)
  /\ \A e \in rows : \E i \in 1 .. Len(s) : s[i] = e
  /\ \A i, j \in 1 .. Len(s) : i < j => s[i].id < s[j].id

LEMMA SmallestIndex ==
  ASSUME NEW S \in SUBSET Nat, S # {}
  PROVE  \E i \in S : \A j \in S : i <= j
<1> DEFINE Below == {ss \in Nat \X Nat : ss[1] < ss[2]}
<1>1. IsWellFoundedOn(Below, Nat)
  BY NatLessThanWellFounded, Zenon DEF OpToRel
<1>2. \E i \in S : \A j \in S : ~ (<<j, i>> \in Below)
  <2> HIDE DEF Below
  <2>. QED  BY <1>1, WFMin
<1>3. \A i \in S, j \in S : ~ (<<j, i>> \in Below) => i <= j
  OBVIOUS
<1>. QED  BY <1>2, <1>3

LEMMA ListTypes ==
  ASSUME NEW rows, HasIds(rows), NEW s, Lists(s, rows)
  PROVE  /\ s \in Seq(rows) /\ Len(s) \in Nat
         /\ \A i \in 1 .. Len(s) : s[i] \in rows /\ s[i].id \in Nat
<1>1. s \in Seq(rows) /\ Len(s) \in Nat
  BY DEF Lists
<1>2. \A i \in 1 .. Len(s) : s[i] \in rows
  BY <1>1, ElementOfSeq
<1>. QED  BY <1>1, <1>2 DEF HasIds

(* Two lists of the same rows agree as far as both go ... *)
LEMMA ListsAgree ==
  ASSUME NEW rows, HasIds(rows), NEW s, NEW u, Lists(s, rows), Lists(u, rows),
         NEW i \in 1 .. Len(s), i \in 1 .. Len(u)
  PROVE  s[i] = u[i]
<1> DEFINE Differ == {k \in 1 .. Len(s) : k \in 1 .. Len(u) /\ s[k] # u[k]}
<1>1. /\ Len(s) \in Nat /\ Len(u) \in Nat
      /\ \A k \in 1 .. Len(s) : s[k] \in rows /\ s[k].id \in Nat
      /\ \A k \in 1 .. Len(u) : u[k] \in rows /\ u[k].id \in Nat
  BY ListTypes
<1>2. ASSUME Differ # {} PROVE FALSE
  <2>1. Differ \in SUBSET Nat
    BY <1>1
  <2>2. PICK k \in Differ : \A m \in Differ : k <= m
    <3> HIDE DEF Differ
    <3>. QED  BY <1>2, <2>1, SmallestIndex
  <2>3. /\ k \in 1 .. Len(s) /\ k \in 1 .. Len(u) /\ s[k] # u[k]
        /\ \A m \in 1 .. Len(s) : m \in 1 .. Len(u) /\ m < k => s[m] = u[m]
    BY <1>1, <2>2
  <2> HIDE DEF Differ
  <2>4. PICK a \in 1 .. Len(u) : u[a] = s[k]
    BY <1>1, <2>3 DEF Lists
  <2>5. PICK b \in 1 .. Len(s) : s[b] = u[k]
    BY <1>1, <2>3 DEF Lists
  <2>6. k < a
    <3>1. ASSUME a < k PROVE FALSE
      <4>1. a \in 1 .. Len(s) /\ s[a] = s[k]
        BY <1>1, <2>3, <2>4, <3>1
      <4>2. s[a].id < s[k].id
        BY <2>3, <3>1, <4>1 DEF Lists
      <4>. QED  BY <1>1, <2>3, <4>1, <4>2
    <3>. QED  BY <1>1, <2>3, <2>4, <3>1
  <2>7. k < b
    <3>1. ASSUME b < k PROVE FALSE
      <4>1. b \in 1 .. Len(u) /\ u[b] = u[k]
        BY <1>1, <2>3, <2>5, <3>1
      <4>2. u[b].id < u[k].id
        BY <2>3, <3>1, <4>1 DEF Lists
      <4>. QED  BY <1>1, <2>3, <4>1, <4>2
    <3>. QED  BY <1>1, <2>3, <2>5, <3>1
  <2>8. u[k].id < s[k].id
    BY <2>3, <2>4, <2>6 DEF Lists
  <2>9. s[k].id < u[k].id
    BY <2>3, <2>5, <2>7 DEF Lists
  <2>. QED  BY <1>1, <2>3, <2>8, <2>9
<1>. QED  BY <1>2

(* ... and one is no longer than the other. *)
LEMMA ListsEqual ==
  ASSUME NEW rows, HasIds(rows), NEW s, NEW u, Lists(s, rows), Lists(u, rows)
  PROVE  s = u
<1>1. ASSUME NEW v, NEW w, Lists(v, rows), Lists(w, rows)
      PROVE  ~ (Len(v) < Len(w))
  <2> SUFFICES ASSUME Len(v) < Len(w) PROVE FALSE
    OBVIOUS
  <2>1. /\ Len(v) \in Nat /\ Len(w) \in Nat
        /\ Len(v) + 1 \in 1 .. Len(w)
        /\ \A k \in 1 .. Len(w) : w[k] \in rows /\ w[k].id \in Nat
    <3>1. Len(v) \in Nat /\ Len(w) \in Nat
      BY <1>1, ListTypes
    <3>2. \A k \in 1 .. Len(w) : w[k] \in rows /\ w[k].id \in Nat
      BY <1>1, ListTypes
    <3>. QED  BY <3>1, <3>2
  <2>2. PICK k \in 1 .. Len(v) : v[k] = w[Len(v) + 1]
    BY <1>1, <2>1 DEF Lists
  <2>3. k \in 1 .. Len(w) /\ k < Len(v) + 1
    BY <2>1
  <2>4. v[k] = w[k]
    BY <1>1, <2>3, ListsAgree
  <2>5. w[k].id < w[Len(v) + 1].id
    BY <1>1, <2>1, <2>3 DEF Lists
  <2>. QED  BY <2>1, <2>2, <2>3, <2>4, <2>5
<1>2. s \in Seq(rows) /\ u \in Seq(rows) /\ Len(s) \in Nat /\ Len(u) \in Nat
  BY DEF Lists
<1>3. Len(s) = Len(u)
  <2>1. ~ (Len(s) < Len(u))  BY <1>1
  <2>2. ~ (Len(u) < Len(s))  BY <1>1
  <2>. QED  BY <1>2, <2>1, <2>2
<1>4. \A i \in 1 .. Len(s) : s[i] = u[i]
  BY <1>3, ListsAgree
<1>. QED  BY <1>2, <1>3, <1>4, SeqEqual

(* What ORDER BY id returns is the list of the rows. *)
LEMMA InOrderLists ==
  ASSUME NEW rows, HasIds(rows), NEW s, Lists(s, rows)
  PROVE  InOrder(rows) = s
<1> DEFINE n == Len(s)
           u == InOrder(rows)
<1>1. n \in Nat /\ s \in [1 .. n -> rows] /\ DOMAIN s = 1 .. n
  BY DEF Lists
<1>2. \A i, j \in 1 .. n : s[i] = s[j] => i = j
  <2> SUFFICES ASSUME NEW i \in 1 .. n, NEW j \in 1 .. n, s[i] = s[j]
               PROVE  i = j
    OBVIOUS
  <2>1. s[i].id \in Nat
    BY <1>1 DEF HasIds
  <2>2. ~ (i < j) /\ ~ (j < i)
    BY <2>1 DEF Lists
  <2>. QED  BY <1>1, <2>2
<1>3. s \in Bijection(1 .. n, rows)
  BY <1>1, <1>2 DEF Lists, Bijection, Injection, IsInjective, Surjection
<1>4. Cardinality(rows) = n /\ IsFiniteSet(rows)
  <2>1. ExistsBijection(1 .. n, rows)
    BY <1>3 DEF ExistsBijection
  <2>. QED  BY <1>1, <2>1, FS_CountingElements, FS_NatBijection
<1>5. /\ u \in [1 .. n -> rows]
      /\ \A i, j \in DOMAIN u : i < j => u[i].id < u[j].id
  <2>1. /\ s \in [1 .. Cardinality(rows) -> rows]
        /\ \A i, j \in DOMAIN s : i < j => s[i].id < s[j].id
    BY <1>1, <1>4 DEF Lists
  <2>2. /\ u \in [1 .. Cardinality(rows) -> rows]
        /\ \A i, j \in DOMAIN u : i < j => u[i].id < u[j].id
    BY <2>1 DEF InOrder
  <2>. QED  BY <1>4, <2>2
<1> HIDE DEF n, u
<1>6. u \in Injection(1 .. n, rows)
  <2>1. ASSUME NEW i \in 1 .. n, NEW j \in 1 .. n, u[i] = u[j]  PROVE i = j
    <3>1. u[i].id \in Nat
      BY <1>5 DEF HasIds
    <3>2. ~ (i < j) /\ ~ (j < i)
      BY <1>5, <2>1, <3>1
    <3>. QED  BY <1>1, <3>2
  <2>. QED  BY <1>5, <2>1 DEF Injection, IsInjective
<1>7. u \in Surjection(1 .. n, rows)
  <2>1. Cardinality(1 .. n) = n
    BY <1>1, FS_Interval
  <2>. QED  BY <1>4, <1>6, <2>1, FS_Injection
<1>8. Lists(u, rows)
  <2>1. u \in Seq(rows) /\ Len(u) = n
    BY <1>1, <1>5
  <2>. QED  BY <1>5, <1>7, <2>1 DEF Lists, Surjection
<1>. QED  BY <1>8, ListsEqual DEF u

(* A row later than all others is listed last. *)
LEMMA ListsAppend ==
  ASSUME NEW rows, HasIds(rows), NEW s, Lists(s, rows),
         NEW e, e.id \in Nat, \A f \in rows : f.id < e.id
  PROVE  Lists(Append(s, e), rows \cup {e})
<1> DEFINE n == Len(s)
           u == Append(s, e)
<1>1. n \in Nat /\ s \in Seq(rows) /\ s \in Seq(rows \cup {e})
  BY SeqMonotonic DEF Lists
<1>2. /\ u \in Seq(rows \cup {e}) /\ Len(u) = n + 1
      /\ \A i \in 1 .. n : u[i] = s[i] /\ s[i] \in rows
      /\ u[n + 1] = e
  BY <1>1
<1>3. \A f \in rows \cup {e} : \E i \in 1 .. Len(u) : u[i] = f
  <2>1. ASSUME NEW f \in rows PROVE \E i \in 1 .. Len(u) : u[i] = f
    <3>1. PICK i \in 1 .. n : s[i] = f
      BY DEF Lists
    <3>. QED  BY <1>1, <1>2, <3>1
  <2>. QED  BY <1>1, <1>2, <2>1
<1>4. ASSUME NEW i \in 1 .. Len(u), NEW j \in 1 .. Len(u), i < j
      PROVE  u[i].id < u[j].id
  <2>1. i \in 1 .. n
    BY <1>1, <1>2, <1>4
  <2>2. CASE j = n + 1
    BY <1>2, <2>1, <2>2
  <2>3. CASE j # n + 1
    <3>1. j \in 1 .. n
      BY <1>1, <1>2, <2>3
    <3>. QED  BY <1>2, <1>4, <2>1, <3>1 DEF Lists
  <2>. QED  BY <2>2, <2>3
<1>. QED  BY <1>2, <1>3, <1>4 DEF Lists

LEMMA ListsNothing == Lists(<<>>, {})
BY EmptySeq DEF Lists

LEMMA ChangesAppend ==
  ASSUME NEW rows, NEW s \in Seq(rows), NEW e
  PROVE  [i \in DOMAIN Append(s, e) |-> ChangeOf(Append(s, e)[i])] =
           Append([i \in DOMAIN s |-> ChangeOf(s[i])], ChangeOf(e))
<1> DEFINE n == Len(s)
           u == Append(s, e)
           changes == {ChangeOf(f) : f \in rows \cup {e}}
           left == [i \in DOMAIN u |-> ChangeOf(u[i])]
           mapped == [i \in DOMAIN s |-> ChangeOf(s[i])]
           right == Append(mapped, ChangeOf(e))
<1>1. s \in Seq(rows \cup {e}) /\ n \in Nat /\ DOMAIN s = 1 .. n
  BY SeqMonotonic, LenProperties
<1>2. /\ u \in Seq(rows \cup {e}) /\ Len(u) = n + 1 /\ DOMAIN u = 1 .. n + 1
      /\ \A i \in 1 .. n : u[i] = s[i]
      /\ u[n + 1] = e
  BY <1>1
<1>3. \A i \in 1 .. n + 1 : u[i] \in rows \cup {e}
  BY <1>2, ElementOfSeq
<1>4. \A i \in 1 .. n + 1 : ChangeOf(u[i]) \in changes
  BY <1>3
<1>5. \A i \in 1 .. n : ChangeOf(s[i]) \in changes
  BY <1>1, <1>2, <1>4
<1>6. ChangeOf(e) \in changes
  OBVIOUS
<1> HIDE DEF changes, u
<1>7. /\ left \in Seq(changes) /\ Len(left) = n + 1
      /\ \A i \in 1 .. n + 1 : left[i] = ChangeOf(u[i])
  BY <1>1, <1>2, <1>4
<1>8. /\ mapped \in Seq(changes) /\ Len(mapped) = n
      /\ \A i \in 1 .. n : mapped[i] = ChangeOf(s[i])
  BY <1>1, <1>5
<1> HIDE DEF left, mapped
<1>9. /\ right \in Seq(changes) /\ Len(right) = n + 1
      /\ \A i \in 1 .. n : right[i] = mapped[i]
      /\ right[n + 1] = ChangeOf(e)
  BY <1>1, <1>6, <1>8
<1> HIDE DEF right
<1>10. \A i \in 1 .. n + 1 : left[i] = right[i]
  <2> SUFFICES ASSUME NEW i \in 1 .. n + 1 PROVE left[i] = right[i]
    OBVIOUS
  <2>1. left[i] = ChangeOf(u[i])
    BY <1>7
  <2>2. CASE i \in 1 .. n
    BY <1>2, <1>8, <1>9, <2>1, <2>2
  <2>3. CASE i = n + 1
    <3>1. u[i] = e
      BY <1>2, <2>3
    <3>2. right[i] = ChangeOf(e)
      BY <1>9, <2>3
    <3>. QED  BY <2>1, <3>1, <3>2
  <2>. QED  BY <1>1, <2>2, <2>3
<1>11. left = right
  BY <1>7, <1>9, <1>10, SeqEqual
<1>. QED  BY <1>11 DEF left, right, mapped, u

-----------------------------------------------------------------------------
(* The inductive invariant *)

(* What a request has in hand was read of a path that is still there, and  *)
(* the row it has written was written over the one that is still there:    *)
(* paths are never removed, and a written path waits for its writer.       *)
Grounded ==
  \A r \in Requests :
    /\ agg[r] # Null /\ stage[r] # "done" =>
         /\ call[r].op # "define" => paths[call[r].path] # Null
         /\ call[r].op # "deactivate" => agg[r].cycle \in Cycles
    /\ tx[r].row # Null => tx[r].row = Upsert(paths[call[r].path], agg[r])

(* Every feed can be listed in the order of its ids. *)
Listed == \A p \in Paths, t \in Topics : \E s : Lists(s, OnTopic(p, t))

FeedInv == Inv4 /\ Grounded /\ Listed

LEMMA FeedInvInit == Init => FeedInv
<1>1. Init => Grounded
  BY DEF Init, Grounded, NoWrites
<1>2. Init => Listed
  BY ListsNothing DEF Init, Listed, OnTopic
<1>. QED  BY <1>1, <1>2, Inv4Init DEF FeedInv

(* A step that leaves the store alone keeps what r has in hand. *)
LEMMA GroundedElsewhere ==
  ASSUME FeedInv, NEW r \in Requests, paths' = paths,
         \A q \in Requests \ {r} :
           /\ stage'[q] = stage[q] /\ call'[q] = call[q]
           /\ agg'[q] = agg[q] /\ tx'[q] = tx[q],
         agg'[r] # Null /\ stage'[r] # "done" =>
           /\ call'[r].op # "define" => paths[call'[r].path] # Null
           /\ call'[r].op # "deactivate" => agg'[r].cycle \in Cycles,
         tx'[r].row # Null =>
           tx'[r].row = Upsert(paths[call'[r].path], agg'[r])
  PROVE  Grounded'
<1>1. ASSUME NEW q \in Requests
      PROVE  /\ agg'[q] # Null /\ stage'[q] # "done" =>
                  /\ call'[q].op # "define" => paths[call'[q].path] # Null
                  /\ call'[q].op # "deactivate" => agg'[q].cycle \in Cycles
             /\ tx'[q].row # Null =>
                  tx'[q].row = Upsert(paths[call'[q].path], agg'[q])
  BY DEF FeedInv, Grounded
<1>. QED  BY <1>1 DEF Grounded

LEMMA FoundAggregate ==
  ASSUME NEW c \in Call, NEW row, Verdict(c, row) = Null
  PROVE  /\ c.op # "define" => row # Null
         /\ c.op # "deactivate" => Outcome(c, row).cycle \in Cycles
<1>1. c.op \in Ops /\ c.body.cycle \in Cycles
  BY DEF Call, Body
<1>2. c.op # "define" => row # Null
  BY <1>1, CatalogueAssumption DEF Verdict, Codes
<1>3. CASE c.op = "define"
  BY <1>1, <1>2, <1>3 DEF Outcome, Define
<1>4. CASE c.op = "revise"
  BY <1>1, <1>2, <1>4 DEF Outcome, Revise, Rehydrate
<1>. QED  BY <1>1, <1>2, <1>3, <1>4 DEF Ops

LEMMA GroundedStep ==
  ASSUME FeedInv, [Next]_vars
  PROVE  Grounded'
<1> USE DEF FeedInv, Inv4, Inv3, Inv2, Inv1
<1>1. ASSUME NEW r \in Requests, NEW c, Answer(r, c),
             UNCHANGED <<paths, call, agg>>
      PROVE  Grounded'
  <2>1. /\ stage'[r] = "done" /\ tx'[r].row = Null
        /\ \A q \in Requests \ {r} : stage'[q] = stage[q] /\ tx'[q] = tx[q]
    BY <1>1 DEF Answer, Goto, TypeOK, NoWrites
  <2>. QED  BY <1>1, <2>1, GroundedElsewhere
<1>2. ASSUME NEW r \in Requests, Arrive(r) PROVE Grounded'
  <2>1. stage[r] = "new" /\ agg[r] = Null /\ tx[r].row = Null
    BY <1>2, NothingStaged DEF Arrive, Answers, WorkOf, Writing, Topics
  <2>2. /\ \A q \in Requests \ {r} : stage'[q] = stage[q] /\ call'[q] = call[q]
        /\ UNCHANGED <<paths, agg, tx>>
    BY <1>2 DEF Arrive, Goto, TypeOK, tables
  <2>. QED  BY <2>1, <2>2, GroundedElsewhere
<1>3. ASSUME NEW r \in Requests,
             RefuseMissingKey(r) \/ Replay(r) \/ RollBack(r)
      PROVE  Grounded'
  BY <1>1, <1>3 DEF RefuseMissingKey, Replay, RollBack, tables
<1>4. ASSUME NEW r \in Requests, InsertKey(r) PROVE Grounded'
  <2>1. stage[r] = "insertKey" /\ agg[r] = Null /\ tx[r].row = Null
    BY <1>4, NothingStaged DEF InsertKey, Answers, WorkOf, Writing, Topics
  <2>2. /\ \A q \in Requests \ {r} : stage'[q] = stage[q] /\ tx'[q] = tx[q]
        /\ tx'[r].row = tx[r].row
        /\ UNCHANGED <<paths, call, agg>>
    BY <1>4 DEF InsertKey, Goto, TypeOK, WriteSet, tables
  <2>. QED  BY <2>1, <2>2, GroundedElsewhere
<1>5. ASSUME NEW r \in Requests, FindAndStop(r) PROVE Grounded'
  <2>1. stage[r] = "find" /\ agg[r] = Null /\ tx[r].row = Null
    BY <1>5, NothingStaged DEF FindAndStop, Answers, WorkOf, Writing, Topics
  <2>2. CASE call[r].op = "define"
    <3>1. /\ \A q \in Requests \ {r} : stage'[q] = stage[q]
          /\ UNCHANGED <<paths, call, agg, tx>>
      BY <1>5, <2>2 DEF FindAndStop, Goto, TypeOK, tables
    <3>. QED  BY <2>1, <3>1, GroundedElsewhere
  <2>3. CASE call[r].op # "define"
    BY <1>1, <1>5, <2>3 DEF FindAndStop, tables
  <2>. QED  BY <2>2, <2>3
<1>6. ASSUME NEW r \in Requests, FindAndChange(r) PROVE Grounded'
  <2>1. stage[r] = "find" /\ tx[r].row = Null /\ call[r] \in Call
    BY <1>6, NothingStaged DEF FindAndChange, TypeOK, Writing, Topics
  <2>2. /\ Verdict(call[r], paths[call[r].path]) = Null
        /\ agg'[r] = Outcome(call[r], paths[call[r].path])
        /\ \A q \in Requests \ {r} : stage'[q] = stage[q] /\ agg'[q] = agg[q]
        /\ UNCHANGED <<paths, call, tx>>
    BY <1>6 DEF FindAndChange, Goto, TypeOK, tables
  <2>3. /\ call[r].op # "define" => paths[call[r].path] # Null
        /\ call[r].op # "deactivate" => agg'[r].cycle \in Cycles
    BY <2>1, <2>2, FoundAggregate
  <2>. QED  BY <2>1, <2>2, <2>3, GroundedElsewhere
<1>7. ASSUME NEW r \in Requests, Save(r) PROVE Grounded'
  <2>1. /\ stage[r] = "save"
        /\ tx'[r].row = Upsert(paths[call[r].path], agg[r])
        /\ \A q \in Requests \ {r} : stage'[q] = stage[q] /\ tx'[q] = tx[q]
        /\ UNCHANGED <<paths, call, agg>>
    BY <1>7 DEF Save, Goto, TypeOK, WriteSet, tables
  <2>2. agg[r] # Null =>
          /\ call[r].op # "define" => paths[call[r].path] # Null
          /\ call[r].op # "deactivate" => agg[r].cycle \in Cycles
    BY <2>1 DEF Grounded
  <2>. QED  BY <2>1, <2>2, GroundedElsewhere
<1>8. ASSUME NEW r \in Requests, Publish(r) \/ RecordOutcome(r) PROVE Grounded'
  <2>1. /\ stage[r] # "done"
        /\ tx'[r].row = tx[r].row
        /\ \A q \in Requests \ {r} : stage'[q] = stage[q] /\ tx'[q] = tx[q]
        /\ UNCHANGED <<paths, call, agg>>
    BY <1>8 DEF Publish, RecordOutcome, Goto, TypeOK, WriteSet, Topics, tables
  <2>2. /\ agg[r] # Null =>
             /\ call[r].op # "define" => paths[call[r].path] # Null
             /\ call[r].op # "deactivate" => agg[r].cycle \in Cycles
        /\ tx[r].row # Null => tx[r].row = Upsert(paths[call[r].path], agg[r])
    BY <2>1 DEF Grounded
  <2>. QED  BY <2>1, <2>2, GroundedElsewhere
<1>9. ASSUME NEW r \in Requests, Commit(r) PROVE Grounded'
  <2>1. PICK c \in {code[r], 500} : Answer(r, c)
    BY <1>9 DEF Commit
  <2>2. /\ stage[r] = "commit" /\ stage'[r] = "done" /\ tx'[r].row = Null
        /\ \A q \in Requests \ {r} : stage'[q] = stage[q] /\ tx'[q] = tx[q]
        /\ paths' = IF tx[r].row = Null THEN paths
                    ELSE [paths EXCEPT ![call[r].path] = tx[r].row]
        /\ UNCHANGED <<call, agg>>
    BY <1>9, <2>1 DEF Commit, Answer, Goto, TypeOK, NoWrites
  <2>3. ASSUME NEW p \in Paths
        PROVE  /\ paths[p] # Null => paths'[p] # Null
               /\ tx[r].row = Null \/ call[r].path # p => paths'[p] = paths[p]
    BY <2>2 DEF TypeOK
  <2>4. ASSUME NEW q \in Requests \ {r}
        PROVE  /\ agg'[q] # Null /\ stage'[q] # "done" =>
                    /\ call'[q].op # "define" => paths'[call'[q].path] # Null
                    /\ call'[q].op # "deactivate" => agg'[q].cycle \in Cycles
               /\ tx'[q].row # Null =>
                    tx'[q].row = Upsert(paths'[call'[q].path], agg'[q])
    <3>1. agg[q] # Null => call[q].path \in Paths
      <4>1. agg[q] # Null => stage[q] # "new"
        BY DEF Answers, WorkOf
      <4>. QED  BY <4>1, BodyTypes DEF TypeOK
    <3>2. tx[q].row # Null => agg[q] # Null
      BY DEF EventsInv, EventsOf
    <3>3. tx[q].row # Null => tx[r].row = Null \/ call[r].path # call[q].path
      BY DEF OneWriter
    <3>4. /\ agg[q] # Null /\ stage[q] # "done" =>
               /\ call[q].op # "define" => paths[call[q].path] # Null
               /\ call[q].op # "deactivate" => agg[q].cycle \in Cycles
          /\ tx[q].row # Null => tx[q].row = Upsert(paths[call[q].path], agg[q])
      BY DEF Grounded
    <3>. QED  BY <2>2, <2>3, <3>1, <3>2, <3>3, <3>4
  <2>. QED  BY <2>2, <2>4 DEF Grounded
<1>10. CASE UNCHANGED vars
  BY <1>10 DEF Grounded, vars
<1>. QED
  BY <1>2, <1>3, <1>4, <1>5, <1>6, <1>7, <1>8, <1>9, <1>10
  DEF Next, Progress, Quiescent

-----------------------------------------------------------------------------
(* The refinement *)

LEMMA RowIds ==
  ASSUME FeedInv, NEW p, NEW t
  PROVE  HasIds(OnTopic(p, t))
BY DEF FeedInv, Inv4, Inv3, Inv2, Inv1, TypeOK, OutboxRow, OnTopic, HasIds

(* A commit that writes a path adds one event to each of its feeds, later  *)
(* than what they hold, and nothing to the feeds of other paths.           *)
LEMMA CommitFeeds ==
  ASSUME FeedInv, NEW r \in Requests, Commit(r), tx[r].row # Null,
         NEW t \in Topics
  PROVE  /\ \E e \in tx[r].events :
              /\ OnTopic(call[r].path, t)' = OnTopic(call[r].path, t) \cup {e}
              /\ e.id \in Nat
              /\ \A f \in OnTopic(call[r].path, t) : f.id < e.id
         /\ \A q \in Paths \ {call[r].path} : OnTopic(q, t)' = OnTopic(q, t)
<1> USE DEF FeedInv, Inv4, Inv3, Inv2, Inv1
<1>1. PICK e \in tx[r].events : e.topic = t
  BY DEF Commit, EventsInv, EventsOf
<1>2. /\ outbox' = outbox \cup tx[r].events
      /\ call' = call
      /\ \A f \in tx[r].events : f.path = call[r].path
      /\ \A f \in tx[r].events : f.topic = t => f = e
  <2>1. \A f \in tx[r].events : f.topic = t => f = e
    BY <1>1 DEF StagedOnce
  <2>2. call' = call
    BY DEF Commit
  <2>. QED  BY <2>1, <2>2, CommitAdds
<1>3. e.path = call[r].path /\ e.topic = t
  BY <1>1, <1>2
<1>4. OnTopic(call[r].path, t)' = OnTopic(call[r].path, t) \cup {e}
  BY <1>2, <1>3 DEF OnTopic
<1>5. e.id \in Nat
  BY DEF TypeOK, WriteSet, OutboxRow
<1>6. \A f \in OnTopic(call[r].path, t) : f.id < e.id
  BY <1>3, CommitAdds DEF OnTopic
<1>7. \A q \in Paths \ {call[r].path} : OnTopic(q, t)' = OnTopic(q, t)
  BY <1>2 DEF OnTopic
<1>. QED  BY <1>4, <1>5, <1>6, <1>7

LEMMA ListedStep ==
  ASSUME FeedInv, [Next]_vars
  PROVE  Listed'
<1>1. CASE UNCHANGED <<paths, outbox>>
  BY <1>1 DEF FeedInv, Listed, OnTopic
<1>2. ASSUME NEW r \in Requests, Commit(r) PROVE Listed'
  <2> SUFFICES ASSUME NEW p \in Paths, NEW t \in Topics
               PROVE  \E s : Lists(s, OnTopic(p, t)')
    BY DEF Listed
  <2>1. PICK s : Lists(s, OnTopic(p, t))
    BY DEF FeedInv, Listed
  <2>2. CASE tx[r].row = Null
    <3>1. outbox' = outbox
      BY <1>2, <2>2 DEF Commit, FeedInv, Inv4, Inv3, Inv2, EventsInv, EventsOf
    <3>. QED  BY <2>1, <3>1 DEF OnTopic
  <2>3. CASE tx[r].row # Null /\ p = call[r].path
    <3>1. PICK e \in tx[r].events :
             /\ OnTopic(p, t)' = OnTopic(p, t) \cup {e}
             /\ e.id \in Nat
             /\ \A f \in OnTopic(p, t) : f.id < e.id
      <4>1. /\ OnTopic(p, t)' = OnTopic(call[r].path, t)'
            /\ OnTopic(p, t) = OnTopic(call[r].path, t)
        BY <1>2, <2>3 DEF OnTopic, Commit
      <4>. QED  BY <1>2, <2>3, <4>1, CommitFeeds
    <3>2. Lists(Append(s, e), OnTopic(p, t) \cup {e})
      BY <2>1, <3>1, RowIds, ListsAppend
    <3>. QED  BY <3>1, <3>2
  <2>4. CASE tx[r].row # Null /\ p # call[r].path
    BY <1>2, <2>1, <2>4, CommitFeeds
  <2>. QED  BY <2>2, <2>3, <2>4
<1>3. Inv2
  BY DEF FeedInv, Inv4, Inv3
<1>. QED  BY <1>1, <1>2, <1>3, OnlyCommitWrites

LEMMA FeedInvStep == FeedInv /\ [Next]_vars => FeedInv'
<1> SUFFICES ASSUME FeedInv, [Next]_vars PROVE FeedInv'
  OBVIOUS
<1>1. Inv4'
  BY Inv4Step DEF FeedInv
<1>. QED  BY <1>1, GroundedStep, ListedStep DEF FeedInv

(* The feeds depend on the outbox alone. *)
LEMMA QuietFeeds == UNCHANGED outbox => UNCHANGED FeedOfOutbox
BY DEF FeedOfOutbox, FeedOf, OnTopic

LEMMA FeedAppends ==
  ASSUME NEW rows, HasIds(rows), NEW s, Lists(s, rows),
         NEW e, e.id \in Nat, \A f \in rows : f.id < e.id
  PROVE  /\ InOrder(rows) = s /\ InOrder(rows \cup {e}) = Append(s, e)
         /\ s \in Seq(rows)
<1>1. Lists(Append(s, e), rows \cup {e})
  BY ListsAppend
<1>2. HasIds(rows \cup {e})
  BY DEF HasIds
<1>3. InOrder(rows) = s
  BY InOrderLists
<1>4. InOrder(rows \cup {e}) = Append(s, e)
  BY <1>1, <1>2, InOrderLists
<1>. QED  BY <1>3, <1>4 DEF Lists

(* The change a writer announces is the one its row stores. *)
LEMMA ChangeStored ==
  ASSUME FeedInv, NEW r \in Requests, stage[r] = "commit", tx[r].row # Null,
         NEW e \in tx[r].events
  PROVE  /\ ChangeOf(e) \in Feed!Changes
         /\ Feed!Stores(ChangeOf(e), tx[r].row)
         /\ ChangeOf(e).type = EventType(call[r].op)
<1> USE DEF FeedInv, Inv4, Inv3, Inv2, Inv1
<1>1. /\ call[r] \in Call /\ call[r].op \in Ops
      /\ agg[r] \in Aggregate
  BY BodyTypes DEF TypeOK, EventsInv, EventsOf
<1>2. /\ e.type = EventType(call[r].op)
      /\ e.payload = EventPayload(call[r].op, agg[r])
  BY DEF StagedOnce, EventsInv, EventsOf
<1>3. /\ tx[r].row.terms = agg[r].terms
      /\ tx[r].row.status = agg[r].status
      /\ tx[r].row.micros = ToInterval(agg[r].cycle)
      /\ agg[r].status =
           IF call[r].op = "deactivate" THEN "DEACTIVATED" ELSE "ACTIVE"
  BY DEF EventsInv, EventsOf
<1>4. CASE call[r].op = "deactivate"
  BY <1>2, <1>3, <1>4
  DEF EventType, ChangeOf, Feed!Changes, Feed!Stores
<1>5. CASE call[r].op # "deactivate"
  <2>1. agg[r].cycle \in Cycles /\ agg[r].terms \in Terms /\ agg[r].route \in Routes
    BY <1>1, <1>3, <1>5, CatalogueAssumption DEF Grounded, Aggregate, EventsInv, EventsOf
  <2>2. e.type \in {"Created", "Updated"}
    BY <1>1, <1>2, <1>5 DEF EventType, Ops
  <2>3. ChangeOf(e) = [type |-> e.type, terms |-> agg[r].terms,
                       route |-> agg[r].route, cycle |-> agg[r].cycle]
    BY <1>2, <1>5, <2>2 DEF ChangeOf, EventPayload
  <2>4. Feed!ToInterval(agg[r].cycle) = ToInterval(agg[r].cycle)
    BY DEF Feed!ToInterval, Feed!NsPerMicrosecond, ToInterval, NsPerMicrosecond
  <2>. QED
    BY <1>2, <1>3, <1>5, <2>1, <2>2, <2>3, <2>4 DEF Feed!Changes, Feed!Stores
<1>. QED  BY <1>4, <1>5

(* A commit that writes a path announces its change on every topic. *)
LEMMA CommitAnnounces ==
  ASSUME FeedInv, NEW r \in Requests, Commit(r), tx[r].row # Null
  PROVE  Feed!Next
<1> USE DEF FeedInv, Inv4, Inv3, Inv2, Inv1
<1> DEFINE p == call[r].path
<1>1. /\ stage[r] = "commit" /\ p \in Paths
      /\ paths' = [paths EXCEPT ![p] = tx[r].row]
      /\ paths \in [Paths -> Row \cup {Null}]
      /\ call' = call
  BY BodyTypes DEF Commit, TypeOK
<1>2. /\ agg[r] # Null /\ call[r].op \in Ops
      /\ tx[r].row = Upsert(paths[p], agg[r])
      /\ call[r].op # "define" => paths[p] # Null
  BY <1>1, BodyTypes DEF Grounded, EventsInv, EventsOf, TypeOK
<1>3. PICK e0 \in tx[r].events : e0.topic = "integration"
  BY <1>1 DEF EventsInv, EventsOf, Topics
<1> DEFINE c == ChangeOf(e0)
<1>4. \A e \in tx[r].events : ChangeOf(e) = c
  BY <1>1, <1>3 DEF StagedOnce, EventsInv, EventsOf, ChangeOf
<1>5. /\ c \in Feed!Changes
      /\ Feed!Stores(c, tx[r].row)
      /\ c.type = EventType(call[r].op)
  BY <1>1, <1>3, ChangeStored
<1> HIDE DEF c
<1>6. ASSUME NEW t \in Topics
      PROVE  /\ FeedOf(p, t)' = Append(FeedOf(p, t), c)
             /\ \A q \in Paths \ {p} : FeedOf(q, t)' = FeedOf(q, t)
  <2>1. PICK e \in tx[r].events :
           /\ OnTopic(p, t)' = OnTopic(p, t) \cup {e}
           /\ e.id \in Nat
           /\ \A f \in OnTopic(p, t) : f.id < e.id
    <3>1. OnTopic(p, t)' = OnTopic(call[r].path, t)'
      BY <1>1 DEF OnTopic
    <3>. QED  BY CommitFeeds, <3>1
  <2>2. PICK s : Lists(s, OnTopic(p, t))
    BY <1>1 DEF Listed
  <2>3. HasIds(OnTopic(p, t))
    BY RowIds
  <2>4. /\ InOrder(OnTopic(p, t)) = s
        /\ InOrder(OnTopic(p, t)') = Append(s, e)
        /\ s \in Seq(OnTopic(p, t))
    BY <2>1, <2>2, <2>3, FeedAppends
  <2>5. FeedOf(p, t)' = [i \in DOMAIN Append(s, e) |-> ChangeOf(Append(s, e)[i])]
    BY <1>1, <2>4 DEF FeedOf
  <2>6. FeedOf(p, t) = [i \in DOMAIN s |-> ChangeOf(s[i])]
    BY <2>4 DEF FeedOf
  <2>7. ChangeOf(e) = c
    BY <1>4
  <2>8. FeedOf(p, t)' = Append(FeedOf(p, t), c)
    BY <2>4, <2>5, <2>6, <2>7, ChangesAppend
  <2>9. \A q \in Paths \ {p} : FeedOf(q, t)' = FeedOf(q, t)
    <3>1. \A q \in Paths \ {p} : OnTopic(q, t)' = OnTopic(q, t)
      BY CommitFeeds
    <3>. QED  BY <3>1 DEF FeedOf
  <2>. QED  BY <2>8, <2>9
<1>7. FeedOfOutbox' =
        [t \in Topics |->
           [FeedOfOutbox[t] EXCEPT ![p] = Append(@, c)]]
  <2>1. ASSUME NEW t \in Topics
        PROVE  FeedOfOutbox'[t] = [FeedOfOutbox[t] EXCEPT ![p] = Append(@, c)]
    <3>1. /\ FeedOfOutbox[t] = [q \in Paths |-> FeedOf(q, t)]
          /\ FeedOfOutbox'[t] = [q \in Paths |-> FeedOf(q, t)']
      BY DEF FeedOfOutbox
    <3>2. /\ FeedOf(p, t)' = Append(FeedOf(p, t), c)
          /\ \A q \in Paths \ {p} : FeedOf(q, t)' = FeedOf(q, t)
      BY <1>6
    <3>3. FeedOfOutbox'[t] =
            [q \in Paths |-> IF q = p THEN Append(FeedOf(p, t), c)
                             ELSE FeedOf(q, t)]
      <4>1. \A q \in Paths :
              FeedOf(q, t)' = IF q = p THEN Append(FeedOf(p, t), c)
                              ELSE FeedOf(q, t)
        <5>1. p' = p
          BY <1>1
        <5>. QED  BY <3>2, <5>1
      <4>. QED  BY <3>1, <4>1
    <3>4. FeedOfOutbox[t][p] = FeedOf(p, t)
      BY <1>1, <3>1
    <3> HIDE DEF p
    <3>5. [FeedOfOutbox[t] EXCEPT ![p] = Append(@, c)] =
            [q \in Paths |-> IF q = p THEN Append(FeedOf(p, t), c)
                             ELSE FeedOf(q, t)]
      BY <3>1, <3>4
    <3>. QED  BY <3>3, <3>5
  <2>. QED  BY <2>1 DEF FeedOfOutbox
<1>8. /\ paths[p] = Null => c.type = "Created"
      /\ paths'[p] = tx[r].row
      /\ paths[p] # Null => tx[r].row.route = paths[p].route
  BY <1>1, <1>2, <1>5 DEF EventType, Upsert, ToRow
<1> HIDE DEF p
<1>9. Feed!Announce(p, c)
  BY <1>1, <1>5, <1>7, <1>8 DEF Feed!Announce
<1>. QED  BY <1>1, <1>5, <1>9 DEF Feed!Next

LEMMA FeedInitially == Init => Feed!Init
<1> SUFFICES ASSUME Init PROVE Feed!Init
  OBVIOUS
<1>1. ASSUME NEW p, NEW t PROVE FeedOf(p, t) = <<>>
  <2>1. OnTopic(p, t) = {}
    BY DEF Init, OnTopic
  <2>2. InOrder({}) = <<>>
    BY ListsNothing, InOrderLists DEF HasIds
  <2>. QED  BY <2>1, <2>2 DEF FeedOf
<1>. QED  BY <1>1 DEF Init, Feed!Init, FeedOfOutbox

LEMMA StepImplements ==
  FeedInv /\ [Next]_vars => [Feed!Next]_<<paths, FeedOfOutbox>>
<1> SUFFICES ASSUME FeedInv, [Next]_vars
             PROVE  [Feed!Next]_<<paths, FeedOfOutbox>>
  OBVIOUS
<1>1. CASE UNCHANGED <<paths, outbox>>
  BY <1>1, QuietFeeds
<1>2. ASSUME NEW r \in Requests, Commit(r)
      PROVE  [Feed!Next]_<<paths, FeedOfOutbox>>
  <2>1. CASE tx[r].row = Null
    BY <1>2, <2>1, QuietFeeds
    DEF Commit, FeedInv, Inv4, Inv3, Inv2, EventsInv, EventsOf
  <2>. QED  BY <1>2, <2>1, CommitAnnounces
<1>. QED
  BY <1>1, <1>2, OnlyCommitWrites DEF FeedInv, Inv4, Inv3

(* The catalogue implements the feed of changes the ADR promises: whatever *)
(* requests race, fail or are retried, a reader of process_paths and of    *)
(* outbox_events sees only whole changes, each announced on every topic in *)
(* the step that stores it, none lost, rewritten or overtaken.             *)
THEOREM CatalogueImplementsFeed == Spec => ImplementsChangeFeed
<1>1. Init => FeedInv
  BY FeedInvInit
<1>2. FeedInv /\ [Next]_vars => FeedInv'
  BY FeedInvStep
<1>. QED
  BY <1>1, <1>2, FeedInitially, StepImplements, PTL
  DEF Spec, ImplementsChangeFeed, Feed!Spec
=============================================================================
