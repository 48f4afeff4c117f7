------------------------------ MODULE ServicePods ------------------------------
(***************************************************************************)
(* The life of the pods around OutboxRelay: each boots behind a sidecar    *)
(* that is still warming up, applies the migrations, serves requests, is   *)
(* drained, killed and started again.  The API's pods (cmd/pathmgmt) run   *)
(* one relay each, the Relays of OutboxRelay; a write of OutboxRelay is a  *)
(* request one of them is serving.  The MCP server's pods (cmd/mcp) boot   *)
(* on the same database, with the same migrations, and only read.          *)
(***************************************************************************)
EXTENDS OutboxRelay

CONSTANTS
  Readers,   \* pods of the MCP server
  WarmUps,   \* seconds a sidecar may take until a dial gets through
  MaxStops   \* bound: pods terminated or killed

ASSUME PodsAssumption ==
  /\ Readers \cap Relays = {}
  /\ WarmUps \subseteq Nat
  /\ MaxStops \in Nat

Pods == Relays \cup Readers

(* "restarting": the container has exited and is started again in its pod, *)
(* whose sidecar is warm by then.                                          *)
Phases == {"down", "restarting", "booting", "migrating", "serving",
           "draining", "killed"}

Schemas == {"old", "dirty", "current"}

VARIABLES
  phase,      \* where each pod stands in its life
  busy,       \* the paths whose transaction each pod is running
  schema,     \* schema_migrations: behind, being changed, up to date
  refused,    \* the warm-ups some boot has given up on
  stops,      \* how many pods were terminated or killed
  overlapped  \* whether two relays' passes ever overlapped

podVars == <<phase, busy, schema, refused, stops, overlapped>>

allVars == <<vars, podVars>>

NoPass(q) == q \in Relays => stage[q] = "idle"

(* The pod runs no transaction: neither a request's nor its relay's. *)
Quiet(q) == NoPass(q) /\ (q \in Relays => busy[q] = {})

PodsTypeOK ==
  /\ TypeOK
  /\ phase \in [Pods -> Phases]
  /\ busy \in [Relays -> SUBSET Paths]
  /\ schema \in Schemas
  /\ refused \in SUBSET WarmUps
  /\ stops \in 0 .. MaxStops
  /\ overlapped \in BOOLEAN
  /\ \A q \in Relays :
       phase[q] \notin {"serving", "draining", "killed"} => Quiet(q)
  /\ \A q \in Pods : phase[q] = "migrating" => schema = "dirty"

(* The release may bring a migration or not. *)
PodsInit ==
  /\ Init
  /\ phase = [q \in Pods |-> "down"]
  /\ busy = [q \in Relays |-> {}]
  /\ schema \in {"old", "current"}
  /\ refused = {}
  /\ stops = 0
  /\ overlapped = FALSE

Becomes(q, ph) == phase' = [phase EXCEPT ![q] = ph]

-----------------------------------------------------------------------------
(* Boot *)

DefaultRetries == 5

(* Mutant of Backoff: the delay does not double. *)
BackoffFlat == [k \in 1 .. DefaultRetries |-> [passed |-> k - 1, delay |-> 1]]

(* bootretry: the seconds that have passed at each attempt, and the delay  *)
(* until the next.                                                         *)
Backoff ==
  LET at[k \in 1 .. DefaultRetries] ==
        IF k = 1 THEN [passed |-> 0, delay |-> 1]
        ELSE [passed |-> at[k - 1].passed + at[k - 1].delay,
              delay |-> 2 * at[k - 1].delay]
  IN at

GetsThrough(w) == \E k \in 1 .. DefaultRetries : Backoff[k].passed >= w

(* A new pod dials Postgres, again and again while its sidecar warms up;   *)
(* out of attempts, the process exits.                                     *)
Boot(q) ==
  /\ phase[q] \in {"down", "killed"}
  /\ Quiet(q)
  /\ \E w \in WarmUps :
       IF GetsThrough(w)
       THEN Becomes(q, "booting") /\ UNCHANGED refused
       ELSE Becomes(q, "restarting") /\ refused' = refused \cup {w}
  /\ UNCHANGED <<vars, busy, schema, stops, overlapped>>

(* The container's second start. *)
Restart(q) ==
  /\ phase[q] = "restarting"
  /\ Becomes(q, "booting")
  /\ UNCHANGED <<vars, busy, schema, refused, stops, overlapped>>

(* golang-migrate, under its advisory lock, flags the schema as dirty      *)
(* before it changes it.                                                   *)
Migrate(q) ==
  /\ phase[q] = "booting"
  /\ schema = "old"
  /\ schema' = "dirty"
  /\ Becomes(q, "migrating")
  /\ UNCHANGED <<vars, busy, refused, stops, overlapped>>

Migrated(q) ==
  /\ phase[q] = "migrating"
  /\ schema' = "current"
  /\ Becomes(q, "serving")
  /\ UNCHANGED <<vars, busy, refused, stops, overlapped>>

(* Up finds nothing to change: ErrNoChange. *)
Serve(q) ==
  /\ phase[q] = "booting"
  /\ schema = "current"
  /\ Becomes(q, "serving")
  /\ UNCHANGED <<vars, busy, schema, refused, stops, overlapped>>

(* Mutant of RefuseDirty: the error of the migrations is passed over. *)
ServeDirty(q) ==
  /\ phase[q] = "booting"
  /\ schema = "dirty"
  /\ \A o \in Pods : phase[o] # "migrating"
  /\ Becomes(q, "serving")
  /\ UNCHANGED <<vars, busy, schema, refused, stops, overlapped>>

(* Once the lock is free, Up reports the dirty flag an interrupted         *)
(* migration has left, at every attempt, and the process exits.            *)
RefuseDirty(q) ==
  /\ phase[q] = "booting"
  /\ schema = "dirty"
  /\ \A o \in Pods : phase[o] # "migrating"
  /\ Becomes(q, "restarting")
  /\ UNCHANGED <<vars, busy, schema, refused, stops, overlapped>>

-----------------------------------------------------------------------------
(* Requests and relay passes *)

(* A request inserts its rows: also one accepted before the signal.        *)
Request(q, p) ==
  /\ phase[q] \in {"serving", "draining"}
  /\ Insert(p)
  /\ busy' = [busy EXCEPT ![q] = @ \cup {p}]
  /\ UNCHANGED <<phase, schema, refused, stops, overlapped>>

(* Its transaction commits or rolls back; when the pod has been killed     *)
(* Postgres does the one or the other by itself.                           *)
EndRequest(q, p) ==
  /\ p \in busy[q]
  /\ EndInsert(p)
  /\ busy' = [busy EXCEPT ![q] = @ \ {p}]
  /\ UNCHANGED <<phase, schema, refused, stops, overlapped>>

(* Passes that a stopped pod has left behind and that will be cut short. *)
Doomed ==
  {q \in Relays : phase[q] \in {"draining", "killed"} /\ stage[q] # "idle"}

FailuresLeft == failures + Cardinality(Doomed) < MaxFailures

PodClaims(q) ==
  /\ phase[q] = "serving"
  /\ Claim(q)
  /\ overlapped' = (overlapped \/ \E o \in Relays \ {q} : stage[o] # "idle")
  /\ UNCHANGED <<phase, busy, schema, refused, stops>>

PodRelays(q) ==
  /\ phase[q] = "serving"
  /\ Send(q) \/ Mark(q) \/ Commit(q)
  /\ UNCHANGED podVars

PodRelayFails(q) ==
  /\ phase[q] = "serving"
  /\ FailuresLeft
  /\ SendFails(q) \/ Abort(q)
  /\ UNCHANGED podVars

-----------------------------------------------------------------------------
(* Stops *)

Stop(q, ph) ==
  /\ stops < MaxStops
  /\ NoPass(q) \/ FailuresLeft \/ q \in Doomed
  /\ stops' = stops + 1
  /\ Becomes(q, ph)
  /\ UNCHANGED <<vars, busy, schema, refused, overlapped>>

(* SIGTERM cancels stopCtx, and with it the relay's context, before the    *)
(* HTTP server has begun to drain.                                         *)
Terminate(q) == phase[q] = "serving" /\ Stop(q, "draining")

(* The pod dies, is killed at the end of its grace period, or gets a       *)
(* signal while it boots, when nothing handles signals yet.                *)
Kill(q) ==
  /\ phase[q] \in {"migrating", "serving", "draining"}
  /\ Stop(q, "killed")

(* A cancelled pass fails at its next statement, and Postgres rolls it     *)
(* back; a COMMIT already on its way may get through.                      *)
EndPass(q) ==
  /\ q \in Doomed
  /\ Abort(q) \/ Commit(q)
  /\ UNCHANGED podVars

(* Mutants of Close: the pool is closed under the requests and the relay;  *)
(* the pod waits for all rows to be published.                             *)
CloseEarly(q) ==
  /\ phase[q] = "draining"
  /\ Becomes(q, "down")
  /\ UNCHANGED <<vars, busy, schema, refused, stops, overlapped>>

CloseWhenPublished(q) ==
  /\ phase[q] = "draining"
  /\ Quiet(q)
  /\ rows \subseteq published
  /\ Becomes(q, "down")
  /\ UNCHANGED <<vars, busy, schema, refused, stops, overlapped>>

(* The requests are drained, the relay has returned, and the pool closes,  *)
(* which waits for every connection lent: run returns.                     *)
Close(q) ==
  /\ phase[q] = "draining"
  /\ Quiet(q)
  /\ Becomes(q, "down")
  /\ UNCHANGED <<vars, busy, schema, refused, stops, overlapped>>

Start(q) ==
  \/ Boot(q) \/ Restart(q) \/ Migrate(q) \/ Migrated(q)
  \/ Serve(q) \/ RefuseDirty(q)

End(q) == EndPass(q) \/ \E p \in Paths : EndRequest(q, p)

PodsNext ==
  \/ \E q \in Pods : Start(q) \/ Terminate(q) \/ Kill(q) \/ Close(q)
  \/ \E q \in Relays :
       \/ \E p \in Paths : Request(q, p)
       \/ PodClaims(q) \/ PodRelays(q) \/ PodRelayFails(q)
       \/ End(q)

PodsSpec == PodsInit /\ [][PodsNext]_allVars

(* Kubernetes starts what has stopped, a booting process gets on, relays   *)
(* run, and Postgres and the clients end every transaction.                *)
FairPodsSpec ==
  /\ PodsSpec
  /\ \A q \in Pods : WF_allVars(Start(q)) /\ WF_allVars(Close(q))
  /\ \A q \in Relays :
       WF_allVars(PodClaims(q) \/ PodRelays(q)) /\ WF_allVars(End(q))

-----------------------------------------------------------------------------
(* Properties *)

(* "Ordering per path is preserved" while passes do not overlap, through   *)
(* shutdowns, kills and the pods that take over (outbox_relay.go:29-32).   *)
OrderUnlessOverlap == ~overlapped => PathOrderPreserved

(* Then consumers that keep the last message of a path converge, too. *)
ConvergesUnlessOverlap == ~overlapped => ConvergesToLatest

(* No pod serves on a schema that is behind or half migrated, whichever    *)
(* pod migrates and whenever it is killed (migrate.go).                    *)
ServesOnMigratedSchema ==
  \A q \in Pods : phase[q] \in {"serving", "draining"} => schema = "current"

(* A sidecar that lets the first dial through after 10 s, the fleet's      *)
(* known condition, makes no boot exit (retry.go:5-13).                    *)
BootSurvivesWarmUp == \A w \in refused : w > 10

(* Rows outlive the pod that wrote them: one that serves later publishes   *)
(* them, if pods can start at all.                                         *)
RowsOutliveTheirPod == <>[](schema = "dirty" \/ rows = published)

(* However pods are terminated and killed, all of them serve in the end,   *)
(* unless a migration was interrupted: that schema stays dirty for good.   *)
ServesInTheEnd ==
  <>[](schema = "dirty" \/ \A q \in Pods : phase[q] = "serving")

(* "so an event committed by a request that completed just before shutdown *)
(* is not stranded until the next pod boots" (main.go:226-228): when the   *)
(* pods have shut down in order and no pass failed, no row is left behind. *)
NothingStranded ==
  (failures = 0 /\ \A q \in Relays : phase[q] = "down")
    => rows \subseteq published
=============================================================================
