----------------------------- MODULE ProcessPath -----------------------------
(***************************************************************************)
(* The ProcessPath aggregate and its relational form: the domain functions *)
(* Define, Revise and Deactivate, the row process_paths holds for a path,  *)
(* and what the upsert of ProcessPathRepo.Save writes.                     *)
(*                                                                         *)
(* matchPrefix, requiredCapabilities and eligibility always travel and are *)
(* always compared together, so one value of Terms stands for the three;   *)
(* direct and destinationLocationRole, both fixed at Define, are one value *)
(* of Routes.  cycleTimeP95 keeps its unit: nanoseconds in the aggregate,  *)
(* whole microseconds in the row.  Timestamps are left out.                *)
(***************************************************************************)
EXTENDS Integers

CONSTANTS
  Terms,    \* values of (matchPrefix, requiredCapabilities, eligibility)
  Routes,   \* values of (direct, destinationLocationRole)
  Cycles,   \* the nanosecond durations a request may carry
  Null      \* nil, SQL NULL, no row

(* Durations a Go client can send that are not positive are represented by *)
(* zero: validate treats them alike.                                       *)
ASSUME CyclesAssumption == Cycles \subseteq Nat

Statuses == {"ACTIVE", "DEACTIVATED"}

(* "malformed" JSON and an "unparsable" role or duration are refused by    *)
(* the HTTP handler; "invalid" terms by the domain's validate.             *)
Forms == {"ok", "malformed", "unparsable", "invalid"}

Body == [form: Forms, terms: Terms, route: Routes, cycle: Cycles]

Aggregate == [terms: Terms, route: Routes, cycle: Nat, status: Statuses]

Row == [terms: Terms, route: Routes, micros: Nat, status: Statuses]

-----------------------------------------------------------------------------
(* The domain *)

IsValid(body) == body.form = "ok" /\ body.cycle > 0

(* Mutant of Define: a path starts as a draft. *)
DefineDraft(body) ==
  [terms |-> body.terms, route |-> body.route, cycle |-> body.cycle,
   status |-> "DRAFT"]

Define(body) ==
  [terms |-> body.terms, route |-> body.route, cycle |-> body.cycle,
   status |-> "ACTIVE"]

(* Mutant of SameTerms: no no-op detection. *)
SameTermsNever(agg, body) == FALSE

(* Revise's no-op test: nothing the revision may change differs. *)
SameTerms(agg, body) == agg.terms = body.terms /\ agg.cycle = body.cycle

Revise(agg, body) ==
  [agg EXCEPT !.terms = body.terms, !.cycle = body.cycle]

Deactivate(agg) == [agg EXCEPT !.status = "DEACTIVATED"]

-----------------------------------------------------------------------------
(* The row *)

NsPerMicrosecond == 1000

(* Integer division: what is below a microsecond is dropped. *)
ToInterval(cycle) == cycle \div NsPerMicrosecond

FromInterval(micros) == micros * NsPerMicrosecond

ToRow(agg) ==
  [terms |-> agg.terms, route |-> agg.route, micros |-> ToInterval(agg.cycle),
   status |-> agg.status]

Rehydrate(row) ==
  [terms |-> row.terms, route |-> row.route, cycle |-> FromInterval(row.micros),
   status |-> row.status]

(* Mutants of Upsert: a column missing from the SET list. *)
UpsertKeepsStatus(old, agg) ==
  IF old = Null
  THEN ToRow(agg)
  ELSE [ToRow(agg) EXCEPT !.route = old.route, !.status = old.status]

UpsertKeepsCycle(old, agg) ==
  IF old = Null
  THEN ToRow(agg)
  ELSE [ToRow(agg) EXCEPT !.route = old.route, !.micros = old.micros]

(* INSERT ... ON CONFLICT (id) DO UPDATE: the update's SET list leaves     *)
(* direct and destination_location_role as the first insert wrote them.    *)
Upsert(old, agg) ==
  IF old = Null
  THEN ToRow(agg)
  ELSE [ToRow(agg) EXCEPT !.route = old.route]
=============================================================================
