----------------------------- MODULE MCMemoryMode -----------------------------
(* An instance of MemoryMode for TLC. *)
EXTENDS MemoryMode, TLC

CONSTANTS p1, t1, t2, way

BodyOf(terms, cycle) ==
  [form |-> "ok", terms |-> terms, route |-> way, cycle |-> cycle]

CallOf(op, body) == [op |-> op, path |-> p1, body |-> body]

(* Definitions, two different revisions of them, a deactivation and a body *)
(* without a cycle time.                                                   *)
MCCalls ==
  {CallOf("define", BodyOf(t1, 1)), CallOf("revise", BodyOf(t2, 1)),
   CallOf("revise", BodyOf(t1, 2)), CallOf("deactivate", BodyOf(t1, 1)),
   CallOf("revise", BodyOf(t1, 0))}

Symmetry == Permutations(Requests)
=============================================================================
