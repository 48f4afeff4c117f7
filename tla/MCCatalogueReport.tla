--------------------------- MODULE MCCatalogueReport ---------------------------
(* Instances of CatalogueReport, and of the projector it reads, for TLC. *)
EXTENDS CatalogueReport

CONSTANTS e1, e2, e3, e4

(* A path defined in the morning and redelivered after a schedule event, a *)
(* message of the retired envelope, another path defined the same day and  *)
(* the first one revised on the next.                                      *)
MCTopic ==
  <<[id |-> e1, kind |-> "Created", time |-> 1],
    [id |-> e2, kind |-> "CPTScheduleChanged", time |-> 1],
    [id |-> e1, kind |-> "Created", time |-> 1],
    [id |-> e2, kind |-> "poison", time |-> 2],
    [id |-> e4, kind |-> "Created", time |-> 3],
    [id |-> e3, kind |-> "Updated", time |-> 5]>>

MCIds == {e1, e2, e3, e4}

(* Midnights, and times of day between them. *)
MCInstants == {0, 1, 3, 4, 6, 8}
=============================================================================
