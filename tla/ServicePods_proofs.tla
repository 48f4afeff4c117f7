--------------------------- MODULE ServicePods_proofs ---------------------------
(***************************************************************************)
(* Proofs about ServicePods, for any number of pods, paths, kills and      *)
(* failures: its relays are those of OutboxRelay, whose theorems it        *)
(* inherits, and what its passes do while they do not overlap.             *)
(***************************************************************************)
EXTENDS ServicePods, OutboxRelay_proofs

-----------------------------------------------------------------------------
(* Every step of the pods is a step of OutboxRelay, or leaves it alone *)

LEMMA PodsStep ==
  ASSUME [PodsNext]_allVars
  PROVE  \/ UNCHANGED <<vars, overlapped>>
         \/ \E q \in Relays : /\ \/ \E p \in Paths : Insert(p) \/ EndInsert(p)
                                 \/ Send(q) \/ Mark(q) \/ Commit(q)
                                 \/ SendFails(q) \/ Abort(q)
                              /\ UNCHANGED overlapped
         \/ \E q \in Relays : PodClaims(q)
<1>1. ASSUME NEW q \in Pods, Start(q) \/ Terminate(q) \/ Kill(q) \/ Close(q)
      PROVE  UNCHANGED <<vars, overlapped>>
  BY <1>1 DEF Start, Boot, Restart, Migrate, Migrated, Serve, RefuseDirty,
              Terminate, Kill, Stop, Close
<1>2. ASSUME NEW q \in Relays, NEW p \in Paths, Request(q, p) \/ EndRequest(q, p)
      PROVE  (Insert(p) \/ EndInsert(p)) /\ UNCHANGED overlapped
  BY <1>2 DEF Request, EndRequest
<1>3. ASSUME NEW q \in Relays, PodRelays(q) \/ PodRelayFails(q) \/ EndPass(q)
      PROVE  /\ Send(q) \/ Mark(q) \/ Commit(q) \/ SendFails(q) \/ Abort(q)
             /\ UNCHANGED overlapped
  BY <1>3 DEF PodRelays, PodRelayFails, EndPass, podVars
<1>4. CASE UNCHANGED allVars
  BY <1>4 DEF allVars, podVars
<1>5. CASE PodsNext
  <2>1. CASE \E q \in Pods : Start(q) \/ Terminate(q) \/ Kill(q) \/ Close(q)
    BY <1>1, <2>1
  <2>2. CASE \E q \in Relays, p \in Paths : Request(q, p) \/ EndRequest(q, p)
    BY <1>2, <2>2
  <2>3. CASE \E q \in Relays : PodRelays(q) \/ PodRelayFails(q) \/ EndPass(q)
    BY <1>3, <2>3
  <2>4. CASE \E q \in Relays : PodClaims(q)
    BY <2>4
  <2>. QED  BY <1>5, <2>1, <2>2, <2>3, <2>4 DEF PodsNext, End
<1>. QED  BY <1>4, <1>5

LEMMA PodsRelay == [PodsNext]_allVars => [Next]_vars
<1>. SUFFICES ASSUME [PodsNext]_allVars  PROVE [Next]_vars
  OBVIOUS
<1>1. CASE UNCHANGED <<vars, overlapped>>
  BY <1>1
<1>2. CASE \E q \in Relays : \/ \E p \in Paths : Insert(p) \/ EndInsert(p)
                             \/ Send(q) \/ Mark(q) \/ Commit(q)
                             \/ SendFails(q) \/ Abort(q)
  BY <1>2 DEF Next, Pass
<1>3. CASE \E q \in Relays : PodClaims(q)
  BY <1>3 DEF PodClaims, Next, Pass
<1>. QED  BY <1>1, <1>2, <1>3, PodsStep

(* ServicePods implements OutboxRelay: whatever pods do, boot, drain, die  *)
(* or come back, is a step of the relays and their writers, or none.       *)
THEOREM PodsImplementRelay == PodsSpec => Spec
BY PodsRelay, PTL DEF PodsSpec, PodsInit, Spec

(* A row is only ever marked published when its topic holds it, through    *)
(* every shutdown, kill and take-over.                                     *)
THEOREM PodsPublishWhatTheySent == PodsSpec => []PublishedIsDelivered
BY PodsImplementRelay, PublishedWasDelivered, PTL

(* No row is sent again without a failure, whichever pods work on it.      *)
THEOREM PodsNeedFailuresToRepeat == PodsSpec => []DuplicatesNeedFailures
BY PodsImplementRelay, NoNeedlessDuplicates, PTL

-----------------------------------------------------------------------------
(* The life of the pods *)

OneMigrates ==
  \A q, o \in Pods : phase[q] = "migrating" /\ phase[o] = "migrating" => q = o

(* What the pods are, apart from their relays' passes. *)
LifeInv ==
  /\ phase \in [Pods -> Phases]
  /\ schema \in Schemas
  /\ \A q \in Pods : phase[q] = "migrating" => schema = "dirty"
  /\ OneMigrates
  /\ ServesOnMigratedSchema

LEMMA NextLifeInv == LifeInv /\ [PodsNext]_allVars => LifeInv'
<1>. SUFFICES ASSUME LifeInv, [PodsNext]_allVars  PROVE LifeInv'
  OBVIOUS
<1>. USE DEF LifeInv, OneMigrates, ServesOnMigratedSchema, Phases, Schemas, Becomes
<1>1. ASSUME NEW q \in Pods, Start(q)  PROVE LifeInv'
  <2>1. CASE Boot(q)
    BY <2>1 DEF Boot
  <2>2. CASE Restart(q)
    BY <2>2 DEF Restart
  <2>3. CASE Migrate(q)
    BY <2>3 DEF Migrate
  <2>4. CASE Migrated(q)
    BY <2>4 DEF Migrated
  <2>5. CASE Serve(q)
    BY <2>5 DEF Serve
  <2>6. CASE RefuseDirty(q)
    BY <2>6 DEF RefuseDirty
  <2>. QED  BY <1>1, <2>1, <2>2, <2>3, <2>4, <2>5, <2>6 DEF Start
<1>2. ASSUME NEW q \in Pods, Terminate(q) \/ Kill(q) \/ Close(q)  PROVE LifeInv'
  BY <1>2 DEF Terminate, Kill, Stop, Close
<1>3. ASSUME UNCHANGED <<phase, schema>>  PROVE LifeInv'
  BY <1>3
<1>4. ASSUME NEW q \in Relays,
             \/ \E p \in Paths : Request(q, p) \/ EndRequest(q, p)
             \/ PodClaims(q) \/ PodRelays(q) \/ PodRelayFails(q) \/ EndPass(q)
      PROVE  UNCHANGED <<phase, schema>>
  BY <1>4 DEF Request, EndRequest, PodClaims, PodRelays, PodRelayFails, EndPass,
              podVars
<1>5. CASE UNCHANGED allVars
  BY <1>3, <1>5 DEF allVars, podVars
<1>. QED  BY <1>1, <1>2, <1>3, <1>4, <1>5 DEF PodsNext, End

LEMMA LifeInvAlways == PodsSpec => []LifeInv
<1>1. PodsInit => LifeInv
  BY DEF PodsInit, LifeInv, OneMigrates, ServesOnMigratedSchema, Phases, Schemas
<1>. QED  BY <1>1, NextLifeInv, PTL DEF PodsSpec

(* No pod ever serves on a schema that is behind or half migrated, however *)
(* many pods boot at once and whenever one is killed while it migrates.    *)
THEOREM PodsServeMigrated == PodsSpec => []ServesOnMigratedSchema
<1>1. LifeInv => ServesOnMigratedSchema
  BY DEF LifeInv
<1>. QED  BY <1>1, LifeInvAlways, PTL

-----------------------------------------------------------------------------
(* The retry budget of a boot *)

(* The waits of 1, 2, 4 and 8 seconds between five attempts.  The witness  *)
(* is the function the recursion defines.                                  *)
LEMMA FifthAttempt == Backoff[5].passed = 15
<1> DEFINE waits == [k \in 1 .. 5 |->
                       CASE k = 1 -> [passed |-> 0, delay |-> 1]
                         [] k = 2 -> [passed |-> 1, delay |-> 2]
                         [] k = 3 -> [passed |-> 3, delay |-> 4]
                         [] k = 4 -> [passed |-> 7, delay |-> 8]
                         [] k = 5 -> [passed |-> 15, delay |-> 16]]
<1>1. waits = [k \in 1 .. 5 |->
                 IF k = 1 THEN [passed |-> 0, delay |-> 1]
                 ELSE [passed |-> waits[k - 1].passed + waits[k - 1].delay,
                       delay |-> 2 * waits[k - 1].delay]]
  OBVIOUS
<1> HIDE DEF waits
<1>2. Backoff = [k \in 1 .. 5 |->
                   IF k = 1 THEN [passed |-> 0, delay |-> 1]
                   ELSE [passed |-> Backoff[k - 1].passed + Backoff[k - 1].delay,
                         delay |-> 2 * Backoff[k - 1].delay]]
  BY <1>1, Zenon DEF Backoff, DefaultRetries
<1>3. /\ Backoff[1] = [passed |-> 0, delay |-> 1]
      /\ Backoff[2].passed = 1 /\ Backoff[2].delay = 2
  BY <1>2
<1>4. Backoff[3].passed = 3 /\ Backoff[3].delay = 4
  BY <1>2, <1>3
<1>5. Backoff[4].passed = 7 /\ Backoff[4].delay = 8
  BY <1>2, <1>4
<1>. QED  BY <1>2, <1>5

(* No boot gives up on a sidecar that lets a dial through within ten       *)
(* seconds, whatever other warm-ups the pods meet.                         *)
THEOREM BootsSurviveWarmUp == PodsSpec => []BootSurvivesWarmUp
<1> DEFINE Inv == refused \subseteq WarmUps /\ BootSurvivesWarmUp
<1>1. PodsInit => Inv
  BY DEF PodsInit, BootSurvivesWarmUp
<1>2. Inv /\ [PodsNext]_allVars => Inv'
  <2> SUFFICES ASSUME Inv, [PodsNext]_allVars PROVE Inv'
    OBVIOUS
  <2>1. CASE UNCHANGED refused
    BY <2>1 DEF BootSurvivesWarmUp
  <2>2. ASSUME NEW q \in Pods, Boot(q) PROVE Inv'
    <3>1. PICK w \in WarmUps :
            IF GetsThrough(w)
            THEN Becomes(q, "booting") /\ UNCHANGED refused
            ELSE Becomes(q, "restarting") /\ refused' = refused \cup {w}
      BY <2>2, Zenon DEF Boot
    <3>2. w \in Nat
      BY PodsAssumption
    <3>3. ~GetsThrough(w) => w > 10
      BY <3>2, FifthAttempt DEF GetsThrough, DefaultRetries
    <3>. QED  BY <2>1, <3>1, <3>3 DEF BootSurvivesWarmUp
  <2>3. ASSUME NEW q \in Pods,
               Start(q) \/ Terminate(q) \/ Kill(q) \/ Close(q), ~Boot(q)
        PROVE  UNCHANGED refused
    BY <2>3 DEF Start, Restart, Migrate, Migrated, Serve, RefuseDirty,
                Terminate, Kill, Stop, Close
  <2>4. ASSUME NEW q \in Relays,
               \/ \E p \in Paths : Request(q, p) \/ EndRequest(q, p)
               \/ PodClaims(q) \/ PodRelays(q) \/ PodRelayFails(q) \/ EndPass(q)
        PROVE  UNCHANGED refused
    BY <2>4 DEF Request, EndRequest, PodClaims, PodRelays, PodRelayFails,
                EndPass, podVars
  <2>5. CASE UNCHANGED allVars
    BY <2>1, <2>5 DEF allVars, podVars
  <2>. QED  BY <2>1, <2>2, <2>3, <2>4, <2>5 DEF PodsNext, End
<1>3. Inv => BootSurvivesWarmUp
  OBVIOUS
<1>. QED  BY <1>1, <1>2, <1>3, PTL DEF PodsSpec

-----------------------------------------------------------------------------
(* Type correctness *)

(* A pod that has not begun to serve, or has ended, runs no transaction. *)
QuietInv ==
  \A q \in Relays : phase[q] \notin {"serving", "draining", "killed"} => Quiet(q)

CountsOK ==
  /\ busy \in [Relays -> SUBSET Paths]
  /\ refused \in SUBSET WarmUps
  /\ stops \in 0 .. MaxStops
  /\ overlapped \in BOOLEAN

(* What a step on pod q may touch keeps the others quiet. *)
LEMMA OthersStayQuiet ==
  ASSUME QuietInv, NEW q \in Pods,
         q \in Relays => Quiet(q)' \/ phase'[q] \in {"serving", "draining", "killed"},
         \A o \in Relays \ {q} : /\ phase'[o] = phase[o]
                                 /\ stage'[o] = stage[o]
                                 /\ busy'[o] = busy[o]
  PROVE  QuietInv'
BY DEF QuietInv, Quiet, NoPass

LEMMA NextPodTypes ==
  ASSUME TypeOK, LifeInv, QuietInv, CountsOK, [PodsNext]_allVars
  PROVE  QuietInv' /\ CountsOK'
<1>. USE DEF LifeInv, CountsOK
<1>1. ASSUME NEW q \in Pods, Start(q)  PROVE QuietInv' /\ CountsOK'
  <2>1. UNCHANGED <<stage, busy, stops, overlapped>> /\ refused' \in SUBSET WarmUps
    BY <1>1 DEF Start, Boot, Restart, Migrate, Migrated, Serve, RefuseDirty, vars
  <2>2. /\ \A o \in Pods \ {q} : phase'[o] = phase[o]
        /\ \/ phase'[q] = "serving"
           \/ phase[q] = "killed" /\ Quiet(q)
           \/ phase[q] \notin {"serving", "draining", "killed"}
    BY <1>1 DEF Start, Boot, Restart, Migrate, Migrated, Serve, RefuseDirty,
                Becomes, Phases
  <2>3. q \in Relays => Quiet(q)' \/ phase'[q] \in {"serving", "draining", "killed"}
    BY <2>1, <2>2 DEF QuietInv, Quiet, NoPass
  <2>4. QuietInv'
    BY <2>1, <2>2, <2>3, OthersStayQuiet DEF Pods
  <2>. QED  BY <2>1, <2>4
<1>2. ASSUME NEW q \in Pods, Terminate(q) \/ Kill(q)
      PROVE  QuietInv' /\ CountsOK'
  <2>1. /\ UNCHANGED <<stage, busy, refused, overlapped>>
        /\ stops' = stops + 1 /\ stops < MaxStops
        /\ phase' = [phase EXCEPT ![q] = "draining"]
           \/ phase' = [phase EXCEPT ![q] = "killed"]
    BY <1>2 DEF Terminate, Kill, Stop, Becomes, vars
  <2>2. QuietInv'
    BY <2>1, OthersStayQuiet DEF Pods
  <2>3. CountsOK'
    BY <2>1, PodsAssumption
  <2>. QED  BY <2>2, <2>3
<1>3. ASSUME NEW q \in Pods, Close(q)  PROVE QuietInv' /\ CountsOK'
  <2>1. /\ UNCHANGED <<stage, busy, refused, stops, overlapped>> /\ Quiet(q)
        /\ phase' = [phase EXCEPT ![q] = "down"]
    BY <1>3 DEF Close, Becomes, vars
  <2>2. QuietInv'
    BY <2>1, OthersStayQuiet DEF Pods, Quiet, NoPass
  <2>. QED  BY <2>1, <2>2
<1>4. ASSUME NEW q \in Relays, NEW p \in Paths, Request(q, p) \/ EndRequest(q, p)
      PROVE  QuietInv' /\ CountsOK'
  <2>1. /\ UNCHANGED <<phase, stage, refused, stops, overlapped>>
        /\ busy' = [busy EXCEPT ![q] = busy[q] \cup {p}]
           \/ busy' = [busy EXCEPT ![q] = busy[q] \ {p}]
        /\ phase[q] \in {"serving", "draining", "killed"}
    BY <1>4 DEF Request, EndRequest, Insert, EndInsert, QuietInv, Quiet
  <2>2. QuietInv'
    BY <2>1, OthersStayQuiet DEF Pods
  <2>. QED  BY <2>1, <2>2
<1>5. ASSUME NEW q \in Relays,
             PodClaims(q) \/ PodRelays(q) \/ PodRelayFails(q) \/ EndPass(q)
      PROVE  QuietInv' /\ CountsOK'
  <2>1. /\ UNCHANGED <<phase, busy, refused, stops>>
        /\ overlapped' \in BOOLEAN
        /\ phase[q] \in {"serving", "draining", "killed"}
    BY <1>5 DEF PodClaims, PodRelays, PodRelayFails, EndPass, Doomed, podVars
  <2>2. Claim(q) \/ Send(q) \/ Mark(q) \/ Commit(q) \/ SendFails(q) \/ Abort(q)
    BY <1>5 DEF PodClaims, PodRelays, PodRelayFails, EndPass
  <2>3. \A o \in Relays \ {q} : stage'[o] = stage[o]
    BY <2>2 DEF Claim, Send, Mark, Commit, SendFails, Abort, Release, TypeOK
  <2>4. QuietInv'
    BY <2>1, <2>3, OthersStayQuiet DEF Pods
  <2>. QED  BY <2>1, <2>4
<1>6. CASE UNCHANGED allVars
  BY <1>6 DEF allVars, vars, podVars, QuietInv, Quiet, NoPass
<1>. QED  BY <1>1, <1>2, <1>3, <1>4, <1>5, <1>6 DEF PodsNext, End

(* The state of the pods stays well formed: in particular a pod that does  *)
(* not serve yet, or has closed its pool, holds no transaction.            *)
THEOREM PodsTypeCorrect == PodsSpec => []PodsTypeOK
<1>1. PodsInit => QuietInv /\ CountsOK
  <2>. SUFFICES ASSUME PodsInit  PROVE QuietInv /\ CountsOK
    OBVIOUS
  <2>1. QuietInv
    BY DEF PodsInit, Init, QuietInv, Quiet, NoPass
  <2>2. CountsOK
    <3>1. stops \in 0 .. MaxStops
      BY PodsAssumption DEF PodsInit
    <3>2. busy \in [Relays -> SUBSET Paths] /\ refused \in SUBSET WarmUps
      BY DEF PodsInit
    <3>3. overlapped \in BOOLEAN
      BY Zenon DEF PodsInit
    <3>. QED  BY <3>1, <3>2, <3>3 DEF CountsOK
  <2>. QED  BY <2>1, <2>2
<1>2. PodsSpec => []TypeOK
  BY PodsImplementRelay, RelayTypeCorrect, PTL
<1>3. PodsSpec => [](QuietInv /\ CountsOK)
  BY <1>1, <1>2, LifeInvAlways, NextPodTypes, PTL DEF PodsSpec
<1>4. TypeOK /\ LifeInv /\ QuietInv /\ CountsOK => PodsTypeOK
  BY DEF PodsTypeOK, LifeInv, QuietInv, CountsOK
<1>. QED  BY <1>2, <1>3, <1>4, LifeInvAlways, PTL

-----------------------------------------------------------------------------
(* The order of a path while passes do not overlap *)

(* At most one relay is in the middle of a pass. *)
OnePass ==
  \A q, o \in Relays : stage[q] # "idle" /\ stage[o] # "idle" => q = o

PassInv == ~overlapped => OnePass /\ Inv3

LEMMA StutterInv3 == Inv3 /\ UNCHANGED vars => Inv3'
<1>. SUFFICES ASSUME Inv3, UNCHANGED vars  PROVE Inv3'
  OBVIOUS
<1>1. Inv2' /\ Done' = Done
  BY NextInv2 DEF Inv3, Done, vars
<1>2. WriterInv' /\ DrawnInv'
  BY DEF Inv3, WriterInv, DrawnInv, vars
<1>3. QueueInv'
  BY <1>1 DEF Inv3, QueueInv, DownClosed, vars
<1>4. MarkInv'
  BY DEF Inv3, MarkInv, Current, vars
<1>5. LogInv'
  BY <1>1 DEF Inv3, LogInv, LogTopics, PathOrderPreserved, LastInv, vars
<1>. QED  BY <1>1, <1>2, <1>3, <1>4, <1>5 DEF Inv3

LEMMA NextPassInv == TypeOK /\ PassInv /\ [PodsNext]_allVars => PassInv'
<1>. SUFFICES ASSUME TypeOK, PassInv, [PodsNext]_allVars, ~overlapped'
              PROVE  OnePass' /\ Inv3'
  BY DEF PassInv
<1>1. CASE UNCHANGED <<vars, overlapped>>
  <2>1. OnePass /\ Inv3 /\ UNCHANGED vars
    BY <1>1 DEF PassInv
  <2>. QED  BY <2>1, StutterInv3 DEF OnePass, vars
<1>2. ASSUME NEW r \in Relays, OnePass, Inv3, Alone(r), Alone(r)', [Next]_vars
      PROVE  OnePass' /\ Inv3'
  BY <1>2, NextInv3 DEF OnePass, Alone
<1>3. ASSUME NEW q \in Relays,
             \/ \E p \in Paths : Insert(p) \/ EndInsert(p)
             \/ Send(q) \/ Mark(q) \/ Commit(q) \/ SendFails(q) \/ Abort(q),
             UNCHANGED overlapped
      PROVE  OnePass' /\ Inv3'
  <2>1. OnePass /\ Inv3 /\ [Next]_vars
    BY <1>3, PodsRelay DEF PassInv
  <2>2. CASE \E p \in Paths : Insert(p) \/ EndInsert(p)
    <3>1. stage' = stage
      BY <2>2 DEF Insert, EndInsert
    <3>2. PICK r \in Relays : Alone(r)
      BY <2>1 DEF OnePass, Alone
    <3>3. Alone(r)'
      BY <3>1, <3>2 DEF Alone
    <3>. QED  BY <1>2, <2>1, <3>2, <3>3
  <2>3. CASE Send(q) \/ Mark(q) \/ Commit(q) \/ SendFails(q) \/ Abort(q)
    <3>1. stage[q] # "idle" /\ \A o \in Relays \ {q} : stage'[o] = stage[o]
      BY <2>3 DEF Send, Mark, Commit, SendFails, Abort, Release, TypeOK
    <3>2. Alone(q) /\ Alone(q)'
      BY <2>1, <3>1 DEF OnePass, Alone
    <3>. QED  BY <1>2, <2>1, <3>2
  <2>. QED  BY <1>3, <2>2, <2>3
<1>4. ASSUME NEW q \in Relays, PodClaims(q)  PROVE OnePass' /\ Inv3'
  <2>1. ~overlapped /\ Alone(q) /\ Claim(q)
    BY <1>4 DEF PodClaims, Alone
  <2>2. Alone(q)'
    BY <2>1 DEF Claim, Alone, TypeOK
  <2>. QED  BY <1>2, <2>1, <2>2, PodsRelay DEF PassInv
<1>. QED  BY <1>1, <1>3, <1>4, PodsStep

LEMMA PassInvAlways == PodsSpec => []PassInv
<1>1. PodsInit => PassInv
  BY InitInv3 DEF PodsInit, PassInv, OnePass, Init
<1>2. PodsSpec => []TypeOK
  BY PodsImplementRelay, RelayTypeCorrect, PTL
<1>. QED  BY <1>1, <1>2, NextPassInv, PTL DEF PodsSpec

(* However many pods there are, and however they stop and take over from   *)
(* each other: only overlapping passes break the order of a path.          *)
THEOREM OrderKeptUnlessOverlap == PodsSpec => []OrderUnlessOverlap
<1>1. PassInv => OrderUnlessOverlap
  BY DEF PassInv, OrderUnlessOverlap, Inv3, LogInv
<1>. QED  BY <1>1, PassInvAlways, PTL

(* Then consumers end at the newest message of a path, redeliveries or not. *)
THEOREM ConvergeUnlessOverlap == PodsSpec => []ConvergesUnlessOverlap
<1>1. PassInv => ConvergesUnlessOverlap
  BY Inv3Converges DEF PassInv, ConvergesUnlessOverlap
<1>. QED  BY <1>1, PassInvAlways, PTL
=============================================================================
