---------------------------- MODULE MCCPTSchedule ----------------------------
(* Instances of CPTSchedule for TLC. *)
EXTENDS CPTSchedule, TLC

CONSTANTS site, p1, p2, sp, ny, early, late

Noon(paths) == [cpt |-> 1, departure |-> early, eligible |-> paths]
Night(paths) == [cpt |-> 2, departure |-> late, eligible |-> paths]

PutOf(zone, cs) ==
  [op |-> "put", site |-> site, form |-> "ok",
   body |-> [timezone |-> zone, cutoffs |-> cs]]

Get == [PutOf(sp, <<Noon(<<p1>>)>>) EXCEPT !.op = "get"]

(* Two schedules that share nothing (one names both paths, and is not in   *)
(* the order of its cptIds), and the mixture of the one's timezone with    *)
(* the other's cutoffs.                                                    *)
PutA == PutOf(sp, <<Noon(<<p1>>)>>)
PutB == PutOf(ny, <<Night(<<p2, p1>>), Noon(<<p1>>)>>)
PutMixed == PutOf(sp, <<Noon(<<p1>>), Night(<<p2, p1>>)>>)

(* What each check refuses. *)
Refused ==
  {[PutA EXCEPT !.form = f] : f \in Forms \ {"ok"}}
  \cup {PutOf(sp, <<>>), PutOf(sp, <<Noon(<<p1>>), Noon(<<p1>>)>>)}

AllCalls == {PutA, PutB, PutMixed, Get} \cup Refused

Symmetry == Permutations(Requests)
=============================================================================
