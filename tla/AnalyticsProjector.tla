-------------------------- MODULE AnalyticsProjector --------------------------
(***************************************************************************)
(* The analytics projector: consumers of one group read a partition of the *)
(* analytics topic at least once, gate each event by its CloudEvents id    *)
(* (analytics_consumed_events), apply it to the catalogue-growth rollup in *)
(* a second, separate transaction (analytics_processed_events and          *)
(* catalogue_growth_rollup), and route what they cannot handle to a        *)
(* dead-letter topic.                                                      *)
(*                                                                         *)
(* The partition's content is fixed: it holds what the relay delivered,    *)
(* redeliveries of one id included.  A group rebalance hands the partition *)
(* to another consumer while the old one may still be handling a message.  *)
(***************************************************************************)
EXTENDS Integers, Sequences, FiniteSets

CONSTANTS
  Consumers,      \* projector processes of the consumer group
  Ids,            \* CloudEvents ids
  Topic,          \* the partition: a sequence of messages
  DayLength,      \* how many units of time a UTC day has
  MaxAttempts,    \* maxAnalyticsHandlerAttempts
  MaxErrors,      \* bound: statements that fail
  MaxRebalances,  \* bound: group rebalances
  MaxCuts         \* bound: outcomes lost by a crash, shutdown or connection,
                  \* and dead letters the broker never stored

(* The event types applyProjection dispatches on, the types it ignores and *)
(* what is no CloudEvent at all.                                           *)
Projecting == {"Created", "Updated", "Deactivated"}

Kinds == Projecting \cup {"CPTScheduleChanged", "poison"}

ASSUME ProjectorAssumption ==
  /\ Topic \in Seq([id: Ids, kind: Kinds, time: Nat])
  /\ DayLength \in Nat \ {0}
  /\ MaxAttempts \in Nat \ {0}
  /\ {MaxErrors, MaxRebalances, MaxCuts} \subseteq Nat

(* The id is drawn when the outbox row is encoded: messages with the same  *)
(* id are deliveries of the same row.                                      *)
ASSUME RedeliveryAssumption ==
  \A n, o \in DOMAIN Topic :
    /\ Topic[n].id = Topic[o].id
    /\ {Topic[n].kind, Topic[o].kind} \subseteq Projecting
    => Topic[n] = Topic[o]

Offsets == DOMAIN Topic

(* Mutant of Bucket: rounded to the nearest midnight. *)
NearestBucket(t) == ((t + DayLength \div 2) \div DayLength) * DayLength

(* at.UTC().Truncate(24 * time.Hour) *)
Bucket(t) == (t \div DayLength) * DayLength

Buckets == {Bucket(Topic[o].time) : o \in Offsets}

(* "fetch": in FetchMessage; "stopped": Run has returned its error, and    *)
(* the process goes on without a consumer.                                 *)
Stages == {"fetch", "mark", "apply", "deadLetter", "commit", "stopped"}

VARIABLES
  committed,   \* the group's committed offset: messages up to it are done
  owner,       \* the consumer the partition is assigned to
  at,          \* the offset of the message each consumer handles or fetches
  stage,       \* where each consumer stands
  attempts,    \* failed attempts of its current retry loop
  consumed,    \* analytics_consumed_events
  processed,   \* analytics_processed_events
  rollup,      \* catalogue_growth_rollup: the counters of each day_bucket
  deadLetters, \* the offsets whose messages the dead-letter topic holds
  errors, rebalances, cuts

vars == <<committed, owner, at, stage, attempts, consumed, processed, rollup,
          deadLetters, errors, rebalances, cuts>>

stores == <<consumed, processed, rollup, deadLetters>>

bounds == <<errors, rebalances, cuts>>

TypeOK ==
  /\ committed \in 0 .. Len(Topic)
  /\ owner \in Consumers
  /\ at \in [Consumers -> 1 .. Len(Topic) + 1]
  /\ stage \in [Consumers -> Stages]
  /\ attempts \in [Consumers -> 0 .. MaxAttempts - 1]
  /\ consumed \in SUBSET Ids
  /\ processed \in SUBSET Ids
  /\ rollup \in [Buckets -> [Projecting -> Nat]]
  /\ deadLetters \in SUBSET Offsets
  /\ errors \in 0 .. MaxErrors
  /\ rebalances \in 0 .. MaxRebalances
  /\ cuts \in 0 .. MaxCuts

(* StartOffset: FirstOffset *)
Init ==
  /\ committed = 0
  /\ owner \in Consumers
  /\ at = [c \in Consumers |-> 1]
  /\ stage = [c \in Consumers |-> "fetch"]
  /\ attempts = [c \in Consumers |-> 0]
  /\ consumed = {}
  /\ processed = {}
  /\ rollup = [d \in Buckets |-> [k \in Projecting |-> 0]]
  /\ deadLetters = {}
  /\ errors = 0 /\ rebalances = 0 /\ cuts = 0

-----------------------------------------------------------------------------

Message(c) == Topic[at[c]]

Goto(c, s) ==
  /\ stage' = [stage EXCEPT ![c] = s]
  /\ attempts' = [attempts EXCEPT ![c] = 0]

(* Mutant of RetryElse: one attempt too many. *)
RetryOnceMore(c, s) ==
  /\ errors < MaxErrors
  /\ errors' = errors + 1
  /\ IF attempts[c] < MaxAttempts
     THEN attempts' = [attempts EXCEPT ![c] = @ + 1] /\ UNCHANGED stage
     ELSE Goto(c, s)

(* A retry loop: the step is tried again, or what comes after its budget.  *)
RetryElse(c, s) ==
  /\ errors < MaxErrors
  /\ errors' = errors + 1
  /\ IF attempts[c] + 1 < MaxAttempts
     THEN attempts' = [attempts EXCEPT ![c] = @ + 1] /\ UNCHANGED stage
     ELSE Goto(c, s)

(* FetchMessage returns the owner's next message; decodeAnalyticsEvent and *)
(* isProjectingEventType route it.                                         *)
Fetch(c) ==
  /\ stage[c] = "fetch"
  /\ owner = c
  /\ at[c] <= Len(Topic)
  /\ Goto(c, IF Message(c).kind = "poison" THEN "deadLetter"
             ELSE IF Message(c).kind \in Projecting THEN "mark" ELSE "commit")
  /\ UNCHANGED <<committed, owner, at, stores, bounds>>

(* MarkProcessed: INSERT ... ON CONFLICT DO NOTHING in a transaction of    *)
(* its own.  A row that was there already means: handled before, skip.     *)
Mark(c) ==
  /\ stage[c] = "mark"
  /\ consumed' = consumed \cup {Message(c).id}
  /\ Goto(c, IF Message(c).id \in consumed THEN "commit" ELSE "apply")
  /\ UNCHANGED <<committed, owner, at, processed, rollup, deadLetters, bounds>>

(* MarkProcessed returns an error: retried, then dead-lettered.  The       *)
(* INSERT may have happened and only its acknowledgement been lost.        *)
MarkFails(c) ==
  /\ stage[c] = "mark"
  /\ RetryElse(c, "deadLetter")
  /\ \/ UNCHANGED <<consumed, cuts>>
     \/ /\ cuts < MaxCuts
        /\ cuts' = cuts + 1
        /\ consumed' = consumed \cup {Message(c).id}
  /\ UNCHANGED <<committed, owner, at, processed, rollup, deadLetters,
                 rebalances>>

(* Mutant of Project: the rollup is added to without a claim. *)
ProjectUnclaimed(c) ==
  /\ processed' = processed \cup {Message(c).id}
  /\ rollup' = [rollup EXCEPT ![Bucket(Message(c).time)][Message(c).kind] = @ + 1]

(* PostgresProjection.apply: the claim and the rollup in one transaction.  *)
Project(c) ==
  /\ processed' = processed \cup {Message(c).id}
  /\ rollup' = IF Message(c).id \in processed THEN rollup
               ELSE [rollup EXCEPT
                       ![Bucket(Message(c).time)][Message(c).kind] = @ + 1]

Apply(c) ==
  /\ stage[c] = "apply"
  /\ Project(c)
  /\ Goto(c, "commit")
  /\ UNCHANGED <<committed, owner, at, consumed, deadLetters, bounds>>

(* Mutant of ApplyFails: the message is acknowledged all the same. *)
ApplyFailsQuietly(c) ==
  /\ stage[c] = "apply"
  /\ RetryElse(c, "commit")
  /\ Project(c) \/ UNCHANGED <<processed, rollup>>
  /\ UNCHANGED <<committed, owner, at, consumed, deadLetters, rebalances, cuts>>

(* The transaction rolls back, or commits and its acknowledgement is lost: *)
(* only the apply is retried, then the message is dead-lettered.           *)
ApplyFails(c) ==
  /\ stage[c] = "apply"
  /\ RetryElse(c, "deadLetter")
  /\ Project(c) \/ UNCHANGED <<processed, rollup>>
  /\ UNCHANGED <<committed, owner, at, consumed, deadLetters, rebalances, cuts>>

(* Mutant of DeadLetter: the poison message is fetched again. *)
DeadLetterAndRefetch(c) ==
  /\ stage[c] = "deadLetter"
  /\ deadLetters' = deadLetters \cup {at[c]}
  /\ Goto(c, "fetch")
  /\ UNCHANGED <<committed, owner, at, consumed, processed, rollup, bounds>>

(* dlqPublish, with writeDLQ's own wait for the topic to exist.  The       *)
(* dead-letter writer leaves RequiredAcks at kafka-go's RequireNone: the   *)
(* write also succeeds when the broker never stores the message.           *)
DeadLetter(c) ==
  /\ stage[c] = "deadLetter"
  /\ \/ deadLetters' = deadLetters \cup {at[c]} /\ UNCHANGED cuts
     \/ cuts < MaxCuts /\ cuts' = cuts + 1 /\ UNCHANGED deadLetters
  /\ Goto(c, "commit")
  /\ UNCHANGED <<committed, owner, at, consumed, processed, rollup, errors,
                 rebalances>>

(* The dead-letter write fails: Run returns, the offset uncommitted. *)
DeadLetterFails(c) ==
  /\ stage[c] = "deadLetter"
  /\ cuts < MaxCuts
  /\ cuts' = cuts + 1
  /\ Goto(c, "stopped")
  /\ UNCHANGED <<committed, owner, at, stores, errors, rebalances>>

(* CommitMessages, then back to FetchMessage.  The offset of a consumer    *)
(* that has lost the partition may still get through and set it back.      *)
Commit(c) ==
  /\ stage[c] = "commit"
  /\ committed' = at[c]
  /\ at' = [at EXCEPT ![c] = @ + 1]
  /\ Goto(c, "fetch")
  /\ UNCHANGED <<owner, stores, bounds>>

(* CommitMessages fails, for one because the partition was taken away:     *)
(* Run returns.                                                            *)
CommitFails(c) ==
  /\ stage[c] = "commit"
  /\ \/ owner # c /\ UNCHANGED errors
     \/ errors < MaxErrors /\ errors' = errors + 1
  /\ Goto(c, "stopped")
  /\ UNCHANGED <<committed, owner, at, stores, rebalances, cuts>>

(* The group assigns the partition to c, which starts at the committed     *)
(* offset; the consumer that had it finishes the message it is handling.   *)
Rebalance(c) ==
  /\ owner # c
  /\ stage[c] = "fetch"
  /\ rebalances < MaxRebalances
  /\ rebalances' = rebalances + 1
  /\ owner' = c
  /\ at' = [at EXCEPT ![c] = committed + 1]
  /\ UNCHANGED <<committed, stage, attempts, stores, errors, cuts>>

(* The process dies or is shut down (the cancelled context fails every     *)
(* call of the message under way) and a new one starts where the group's   *)
(* committed offset is.                                                    *)
Restart(c) ==
  /\ cuts < MaxCuts
  /\ cuts' = cuts + 1
  /\ at' = [at EXCEPT ![c] = committed + 1]
  /\ Goto(c, "fetch")
  /\ UNCHANGED <<committed, owner, stores, errors, rebalances>>

Handle(c) ==
  Fetch(c) \/ Mark(c) \/ Apply(c) \/ DeadLetter(c) \/ Commit(c)

Next ==
  \E c \in Consumers :
    \/ Handle(c)
    \/ MarkFails(c) \/ ApplyFails(c) \/ DeadLetterFails(c) \/ CommitFails(c)
    \/ Rebalance(c) \/ Restart(c)

Spec == Init /\ [][Next]_vars

(* A running consumer goes on: each of its calls returns.  Nothing restarts *)
(* a consumer whose Run has returned.                                       *)
FairSpec == Spec /\ \A c \in Consumers : WF_vars(Handle(c))

-----------------------------------------------------------------------------
(* Properties *)

(* The distinct ids of a kind's events with a time in the span. *)
EventIds(kind, first, end) ==
  {Topic[o].id : o \in {n \in Offsets : /\ Topic[n].kind = kind
                                        /\ first <= Topic[n].time
                                        /\ Topic[n].time < end}}

(* Replays, retries, two consumers at once and lost acknowledgements never *)
(* count an event twice, or on a wrong day: each counter is the number of  *)
(* its kind's and day's claimed ids, and only gated ids are claimed.       *)
CountedOnce ==
  /\ \A d \in Buckets, k \in Projecting :
       rollup[d][k] = Cardinality(EventIds(k, d, d + DayLength) \cap processed)
  /\ processed \subseteq consumed

Handling(o) == \E c \in Consumers :
  at[c] = o /\ stage[c] \in {"mark", "apply", "deadLetter"}

SomeoneHandles(id) == \E o \in Offsets : Topic[o].id = id /\ Handling(o)

Projected(o) == Topic[o].kind \in Projecting => Topic[o].id \in processed

DeadLettered(o) ==
  \E d \in deadLetters : d = o \/ Topic[d].id = Topic[o].id

(* An offset is committed only for a message that has been applied, needs  *)
(* no applying or is on the dead-letter topic (or that another consumer is *)
(* about to apply), unless a crash, a shutdown or a lost acknowledgement   *)
(* came between two steps.                                                 *)
LossNeedsCut ==
  cuts = 0 =>
    \A o \in 1 .. committed :
      Projected(o) \/ DeadLettered(o) \/ SomeoneHandles(Topic[o].id)

(* Each event is applied exactly once: none that the group has gone past   *)
(* is missing from the projection and from the dead-letter topic.          *)
NoEventLost ==
  \A o \in 1 .. committed :
    Projected(o) \/ DeadLettered(o) \/ SomeoneHandles(Topic[o].id)

(* No message wedges a consumer that runs: the partition's owner reaches   *)
(* its end or has stopped with an error.                                   *)
NeverWedged ==
  <>[](\/ stage[owner] = "stopped"
       \/ stage[owner] = "fetch" /\ at[owner] = Len(Topic) + 1)
=============================================================================
