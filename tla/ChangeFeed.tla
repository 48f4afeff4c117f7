------------------------------ MODULE ChangeFeed ------------------------------
(***************************************************************************)
(* What the transactional outbox promises (ADR 0003), without requests,    *)
(* transactions, ids or failures: a store of paths and, on every topic, a  *)
(* feed of changes for each path.  A path's row and its feeds change in    *)
(* one step or not at all, the change that is announced is the one that    *)
(* was stored, and no feed is ever rewritten.                              *)
(***************************************************************************)
EXTENDS ProcessPath, Sequences

CONSTANTS Paths, Topics

VARIABLES
  store,   \* the row of each path
  feed     \* feed[t][p]: the changes to path p announced on topic t

Changes ==
  [type: {"Created", "Updated"}, terms: Terms, route: Routes, cycle: Cycles]
    \cup [type: {"Deactivated"}]

Init ==
  /\ store = [p \in Paths |-> Null]
  /\ feed = [t \in Topics |-> [p \in Paths |-> <<>>]]

(* The row the change leaves.  A deactivation says nothing of the terms.   *)
Stores(change, row) ==
  IF change.type = "Deactivated"
  THEN row.status = "DEACTIVATED"
  ELSE /\ row.status = "ACTIVE"
       /\ row.terms = change.terms
       /\ row.micros = ToInterval(change.cycle)

(* Only a path that has been created is updated or deactivated, and the    *)
(* routing facts of a stored path never move.                              *)
Announce(p, change) ==
  /\ store[p] = Null => change.type = "Created"
  /\ store'[p] # Null /\ Stores(change, store'[p])
  /\ store[p] # Null => store'[p].route = store[p].route
  /\ store' = [store EXCEPT ![p] = store'[p]]
  /\ feed' = [t \in Topics |-> [feed[t] EXCEPT ![p] = Append(@, change)]]

Next == \E p \in Paths, change \in Changes : Announce(p, change)

Spec == Init /\ [][Next]_<<store, feed>>
=============================================================================
