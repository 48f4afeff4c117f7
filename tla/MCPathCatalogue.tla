--------------------------- MODULE MCPathCatalogue ---------------------------
(***************************************************************************)
(* Instances of PathCatalogue for TLC.  One path is enough for its         *)
(* properties (no guard relates two paths) except where ids of different   *)
(* paths interleave, which the two-path calls add.                         *)
(***************************************************************************)
EXTENDS PathCatalogueFeed, TLC

CONSTANTS p1, p2, k1, k2, t1, t2, ra, rb

Good(t, r, c) == [form |-> "ok", terms |-> t, route |-> r, cycle |-> c]

Post(p, k, body) == [op |-> "define", path |-> p, key |-> k, body |-> body]
Put(p, body) == [op |-> "revise", path |-> p, key |-> Null, body |-> body]
Delete(p) ==
  [op |-> "deactivate", path |-> p, key |-> Null, body |-> Good(t1, ra, 2000)]

(* Two bodies that differ in everything; 1500 ns is not a whole number of  *)
(* microseconds, 2000 ns is.                                               *)
BodyA == Good(t1, ra, 1500)
BodyB == Good(t2, rb, 2000)

(* One path under concurrent operators: a key retried, a key reused with   *)
(* another body, two keys for one path, revisions and deactivation.        *)
RacingCalls ==
  {Post(p1, k1, BodyA), Post(p1, k1, BodyB), Post(p1, k2, BodyB),
   Put(p1, BodyA), Put(p1, BodyB), Delete(p1)}

(* Two paths, so that ids drawn for one commit around those of the other.  *)
TwoPathCalls ==
  {Post(p1, k1, BodyA), Post(p2, k2, BodyB), Put(p1, BodyB), Delete(p2)}

(* One operator at a time: every refusal, cycle times that are whole       *)
(* microseconds and one that is not.                                       *)
WholeA == Good(t1, ra, 1000)

SerialCalls ==
  {Post(p1, k1, WholeA), Post(p1, k2, BodyB), Post(p1, Null, WholeA),
   Put(p1, WholeA), Put(p1, BodyA), Put(p1, BodyB), Delete(p1)}
  \cup {Post(p1, k1, [WholeA EXCEPT !.form = f]) : f \in Forms \ {"ok"}}
  \cup {Put(p1, Good(t2, ra, 0))}

Symmetry == Permutations(Requests)
=============================================================================
