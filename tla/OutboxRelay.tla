----------------------------- MODULE OutboxRelay -----------------------------
(***************************************************************************)
(* The outbox relay: each pod's goroutine claims a batch of unpublished    *)
(* rows of outbox_events with FOR UPDATE SKIP LOCKED, sends them to Kafka  *)
(* one by one, marks each in the same transaction and commits.             *)
(*                                                                         *)
(* The writers are PathCatalogue's transactions, reduced to what they owe  *)
(* the relay (NoLateInsert and TopicsAgree there): a writer holds its path *)
(* from before it draws its ids until it commits one row per topic.        *)
(* A topic is the sequence of rows the broker appended; the Hash balancer  *)
(* puts all rows of a path on one partition, so only the order of the rows *)
(* of one path means anything.                                             *)
(***************************************************************************)
EXTENDS Integers, Sequences, FiniteSets, Functions

CONSTANTS
  Relays,       \* relay goroutines; two while a rolling deploy overlaps
  Paths,        \* PathIds, the Kafka keys
  BatchSize,    \* LIMIT of the claiming SELECT
  MaxId,        \* bound: ids drawn from the BIGSERIAL
  MaxFailures   \* bound: sends that fail and passes that are cut short

ASSUME RelayAssumption ==
  /\ BatchSize \in Nat \ {0}
  /\ MaxId \in Nat
  /\ MaxFailures \in Nat

Topics == {"integration", "analytics"}

OutboxRow == [id: 1 .. MaxId, path: Paths, topic: Topics]

Stages == {"idle", "send", "mark", "commit"}

VARIABLES
  rows,       \* outbox_events: the committed rows
  staged,     \* the rows each path's writer has inserted, not yet committed
  nextId,     \* the BIGSERIAL
  published,  \* the committed rows whose published_at is set
  stage,      \* where each relay's pass stands
  claimed,    \* the rows each relay's pass has locked
  batch,      \* the rows it has yet to send, in the order of their ids
  marks,      \* the rows it has marked, not yet committed
  log,        \* what each Kafka topic holds
  failures    \* how many sends failed or passes were cut short

vars == <<rows, staged, nextId, published, stage, claimed, batch, marks, log,
          failures>>

writerVars == <<rows, staged, nextId>>

TypeOK ==
  /\ rows \subseteq OutboxRow
  /\ staged \in [Paths -> SUBSET OutboxRow]
  /\ nextId \in 1 .. MaxId + 1
  /\ published \subseteq rows
  /\ stage \in [Relays -> Stages]
  /\ claimed \in [Relays -> SUBSET rows]
  /\ batch \in [Relays -> SUBSET rows]
  /\ marks \in [Relays -> SUBSET rows]
  /\ \A r \in Relays :
       /\ batch[r] \cup marks[r] \subseteq claimed[r]
       /\ stage[r] \in {"send", "mark"} => batch[r] # {}
  /\ log \in [Topics -> Seq(rows)]
  /\ failures \in 0 .. MaxFailures

Init ==
  /\ rows = {}
  /\ staged = [p \in Paths |-> {}]
  /\ nextId = 1
  /\ published = {}
  /\ stage = [r \in Relays |-> "idle"]
  /\ claimed = [r \in Relays |-> {}]
  /\ batch = [r \in Relays |-> {}]
  /\ marks = [r \in Relays |-> {}]
  /\ log = [t \in Topics |-> <<>>]
  /\ failures = 0

-----------------------------------------------------------------------------
(* The writers *)

(* OutboxPublisher.Publish: one INSERT per topic, each with an id. *)
Insert(p) ==
  /\ staged[p] = {}
  /\ nextId < MaxId
  /\ staged' = [staged EXCEPT ![p] =
       {[id |-> nextId, path |-> p, topic |-> "integration"],
        [id |-> nextId + 1, path |-> p, topic |-> "analytics"]}]
  /\ nextId' = nextId + 2
  /\ UNCHANGED <<rows, published, stage, claimed, batch, marks, log, failures>>

(* The unit of work commits, or rolls back and leaves a gap in the ids. *)
EndInsert(p) ==
  /\ staged[p] # {}
  /\ rows' \in {rows, rows \cup staged[p]}
  /\ staged' = [staged EXCEPT ![p] = {}]
  /\ UNCHANGED <<nextId, published, stage, claimed, batch, marks, log, failures>>

-----------------------------------------------------------------------------
(* The relays *)

(* Mutant of Claimable: FOR UPDATE without its locks. *)
ClaimableUnlocked(r) == rows \ published

(* The rows the claiming SELECT may return: unpublished, and not locked by *)
(* another relay's pass.                                                   *)
Claimable(r) == rows \ (published \cup UNION {claimed[q] : q \in Relays \ {r}})

(* ORDER BY id LIMIT n *)
IsOldest(S, of) ==
  /\ S \subseteq of
  /\ Cardinality(S) = BatchSize \/ (S = of /\ Cardinality(S) < BatchSize)
  /\ \A x \in S, y \in of \ S : x.id < y.id

(* BEGIN and SELECT ... ORDER BY id LIMIT n FOR UPDATE SKIP LOCKED. *)
Claim(r) ==
  /\ stage[r] = "idle"
  /\ \E S \in (SUBSET Claimable(r)) \ {{}} :
       /\ IsOldest(S, Claimable(r))
       /\ batch' = [batch EXCEPT ![r] = S]
       /\ claimed' = [claimed EXCEPT ![r] = S]
  /\ stage' = [stage EXCEPT ![r] = "send"]
  /\ UNCHANGED <<writerVars, published, marks, log, failures>>

(* A pass that finds nothing commits nothing and sleeps. *)
EmptyPass(r) ==
  /\ stage[r] = "idle"
  /\ Claimable(r) = {}
  /\ UNCHANGED vars

(* The row of the batch whose turn it is. *)
Current(r) == CHOOSE x \in batch[r] : \A y \in batch[r] : x.id <= y.id

Deliver(row) == log' = [log EXCEPT ![row.topic] = Append(@, row)]

(* sink.Send returns: the brokers have acknowledged the row. *)
Send(r) ==
  /\ stage[r] = "send"
  /\ Deliver(Current(r))
  /\ stage' = [stage EXCEPT ![r] = "mark"]
  /\ UNCHANGED <<writerVars, published, claimed, batch, marks, failures>>

(* Mutant of SendFails: the pass goes on with the next row. *)
SendFailsAndSkips(r) ==
  /\ stage[r] = "send"
  /\ failures < MaxFailures
  /\ Deliver(Current(r)) \/ UNCHANGED log
  /\ batch' = [batch EXCEPT ![r] = @ \ {Current(r)}]
  /\ stage' = [stage EXCEPT ![r] =
                 IF batch'[r] = {} THEN "commit" ELSE "send"]
  /\ failures' = failures + 1
  /\ UNCHANGED <<writerVars, published, claimed, marks>>

(* sink.Send fails, the row delivered or not: the pass gives up the rest   *)
(* of its batch and goes to commit what it has marked.                     *)
SendFails(r) ==
  /\ stage[r] = "send"
  /\ failures < MaxFailures
  /\ Deliver(Current(r)) \/ UNCHANGED log
  /\ batch' = [batch EXCEPT ![r] = {}]
  /\ stage' = [stage EXCEPT ![r] = "commit"]
  /\ failures' = failures + 1
  /\ UNCHANGED <<writerVars, published, claimed, marks>>

(* UPDATE outbox_events SET published_at = now(). *)
Mark(r) ==
  /\ stage[r] = "mark"
  /\ marks' = [marks EXCEPT ![r] = @ \cup {Current(r)}]
  /\ batch' = [batch EXCEPT ![r] = @ \ {Current(r)}]
  /\ stage' = [stage EXCEPT ![r] =
                 IF batch'[r] = {} THEN "commit" ELSE "send"]
  /\ UNCHANGED <<writerVars, published, claimed, log, failures>>

Release(r) ==
  /\ stage' = [stage EXCEPT ![r] = "idle"]
  /\ claimed' = [claimed EXCEPT ![r] = {}]
  /\ batch' = [batch EXCEPT ![r] = {}]
  /\ marks' = [marks EXCEPT ![r] = {}]

(* Mutants of Commit: every claimed row is taken for published; the pass   *)
(* never ends.                                                             *)
CommitClaimed(r) ==
  /\ stage[r] = "commit"
  /\ published' = published \cup claimed[r]
  /\ Release(r)
  /\ UNCHANGED <<writerVars, log, failures>>

CommitKeepsPass(r) ==
  /\ stage[r] = "commit"
  /\ published' = published \cup marks[r]
  /\ UNCHANGED <<writerVars, stage, claimed, batch, marks, log, failures>>

(* COMMIT: the marks become visible and the rows are unlocked. *)
Commit(r) ==
  /\ stage[r] = "commit"
  /\ published' = published \cup marks[r]
  /\ Release(r)
  /\ UNCHANGED <<writerVars, log, failures>>

(* The pass ends with ROLLBACK: a mark or the COMMIT fails, the pod dies   *)
(* or shutdown cancels the relay's context, which every later statement of *)
(* the pass then fails on.  A send that was under way may have arrived.    *)
Abort(r) ==
  /\ stage[r] # "idle"
  /\ failures < MaxFailures
  /\ \/ stage[r] = "send" /\ Deliver(Current(r))
     \/ UNCHANGED log
  /\ Release(r)
  /\ failures' = failures + 1
  /\ UNCHANGED <<writerVars, published>>

Pass(r) == Claim(r) \/ Send(r) \/ Mark(r) \/ Commit(r)

Next ==
  \/ \E p \in Paths : Insert(p) \/ EndInsert(p)
  \/ \E r \in Relays : Pass(r) \/ SendFails(r) \/ Abort(r) \/ EmptyPass(r)

Spec == Init /\ [][Next]_vars

-----------------------------------------------------------------------------
(* Properties *)

Delivered == UNION {Range(log[t]) : t \in Topics}

SameKey(x, y) == x.path = y.path /\ x.topic = y.topic

(* No event is lost between the store and Kafka: a row is only ever marked *)
(* published when its topic holds it, whatever failed in between.          *)
PublishedIsDelivered ==
  published \cup UNION {marks[r] : r \in Relays} \subseteq Delivered

(* "Ordering per path is preserved": the first delivery of a row comes     *)
(* after that of every earlier row of its path.                            *)
PathOrderPreserved ==
  \A t \in Topics : \A n \in DOMAIN log[t] : \A row \in rows :
    SameKey(row, log[t][n]) /\ row.id < log[t][n].id
      => \E m \in 1 .. n - 1 : log[t][m] = row

(* A consumer that keeps the last message of each path converges: once all *)
(* rows of a path are published, its last message is the newest, although  *)
(* redeliveries may have taken it back for a while.                        *)
ConvergesToLatest ==
  \A t \in Topics : \A n \in DOMAIN log[t] :
    LET ofPath == {row \in rows : SameKey(row, log[t][n])}
    IN (/\ ofPath \subseteq published
        /\ \A m \in n + 1 .. Len(log[t]) : ~SameKey(log[t][m], log[t][n]))
         => \A row \in ofPath : row.id <= log[t][n].id

(* SKIP LOCKED keeps two relays from sending the same row: a row is sent   *)
(* again only after a failure, once for each at most.                      *)
DuplicatesNeedFailures ==
  \A t \in Topics : \A row \in Range(log[t]) :
    Cardinality({n \in DOMAIN log[t] : log[t][n] = row}) <= 1 + failures
=============================================================================
