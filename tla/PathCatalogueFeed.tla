--------------------------- MODULE PathCatalogueFeed ---------------------------
(***************************************************************************)
(* PathCatalogue implements ChangeFeed: the store is the committed table   *)
(* and the feed of a path on a topic is its committed outbox rows, read    *)
(* ORDER BY id as the relay reads them.                                    *)
(***************************************************************************)
EXTENDS PathCatalogue, FiniteSets

(* ORDER BY id *)
InOrder(rows) ==
  CHOOSE s \in [1 .. Cardinality(rows) -> rows] :
    \A i, j \in DOMAIN s : i < j => s[i].id < s[j].id

ChangeOf(e) ==
  IF e.type = "Deactivated" THEN [type |-> e.type]
  ELSE [type |-> e.type, terms |-> e.payload.terms,
        route |-> e.payload.route, cycle |-> e.payload.cycle]

FeedOf(p, t) ==
  LET rows == InOrder(OnTopic(p, t))
  IN [i \in DOMAIN rows |-> ChangeOf(rows[i])]

FeedOfOutbox == [t \in Topics |-> [p \in Paths |-> FeedOf(p, t)]]

Feed == INSTANCE ChangeFeed WITH store <- paths, feed <- FeedOfOutbox

(* Every step of the requests is one atomic, announced change of a path or *)
(* invisible: readers of the table and of the outbox never see one without *)
(* the other, and no committed event is lost, rewritten or overtaken.      *)
ImplementsChangeFeed == Feed!Spec
=============================================================================
