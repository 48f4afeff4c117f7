---------------------------- MODULE PathCatalogue ----------------------------
(***************************************************************************)
(* The command side of the catalogue over Postgres: concurrent POST        *)
(* (DefinePath, under the idempotency-key middleware), PUT (RevisePath)    *)
(* and DELETE (DeactivatePath) requests, each a sequence of SQL statements *)
(* that interleave with those of the others.                               *)
(*                                                                         *)
(* A request's open transaction is its private write set tx[r]; nobody     *)
(* else reads it before Commit (READ COMMITTED).  Its uncommitted row of   *)
(* process_paths or of idempotency_keys locks that key against the others, *)
(* exactly as Postgres' unique index makes a conflicting INSERT wait.      *)
(* A POST reads the path inside its transaction; PUT and DELETE read it    *)
(* before they open theirs.                                                *)
(***************************************************************************)
EXTENDS ProcessPath

CONSTANTS
  Requests,   \* HTTP requests in the system, each handled once
  Paths,      \* PathIds
  Keys,       \* Idempotency-Key values
  Calls       \* the calls a request may make

Ops == {"define", "revise", "deactivate"}

Call == [op: Ops, path: Paths, key: Keys \cup {Null}, body: Body]

(* The encoders NewOutboxPublisher is given, in order: each event is       *)
(* inserted once per topic.                                                *)
Topics == {"integration", "analytics"}

Stages == {"new", "insertKey", "replay", "find", "save"} \cup Topics
            \cup {"record", "commit", "done"}

Codes == {200, 201, 204, 400, 404, 409, 422, 500}

Types == {"Created", "Updated", "Deactivated"}

(* What an event says of its path: all but the identity and the time.      *)
Payload == [terms: Terms, route: Routes, cycle: Nat]

(* A row of outbox_events.  event is the id minted by newId, one for each  *)
(* Publish call; a request publishes at most once, so the request names it.*)
OutboxRow == [id: Nat, event: Requests, topic: Topics, path: Paths,
              type: Types, payload: Payload \cup {Null}]

(* A row of idempotency_keys: what the body's hash distinguishes, and the  *)
(* recorded status_code.                                                   *)
KeyRow == [hash: Paths \X Body, status: Codes \cup {Null}]

(* Null is none of the values it is compared with. *)
ASSUME CatalogueAssumption ==
  /\ Calls \subseteq Call
  /\ Null \notin Keys \cup Row \cup Aggregate \cup Call \cup KeyRow \cup Codes

WriteSet == [key: KeyRow \cup {Null}, row: Row \cup {Null},
             events: SUBSET OutboxRow]

NoWrites == [key |-> Null, row |-> Null, events |-> {}]

VARIABLES
  paths,    \* process_paths: the committed row of each path
  outbox,   \* outbox_events: the committed rows
  keys,     \* idempotency_keys: the committed row of each key
  nextId,   \* the BIGSERIAL of outbox_events, not undone by a rollback
  stage,    \* where each request stands
  call,     \* what each request asks for
  agg,      \* the aggregate each request is about to save
  code,     \* the status code each request's handler decided on
  tx,       \* the write set of each request's open transaction
  reply     \* the status code each client received

vars == <<paths, outbox, keys, nextId, stage, call, agg, code, tx, reply>>

tables == <<paths, outbox, keys, nextId>>

TypeOK ==
  /\ paths \in [Paths -> Row \cup {Null}]
  /\ outbox \in SUBSET OutboxRow
  /\ keys \in [Keys -> KeyRow \cup {Null}]
  /\ nextId \in Nat
  /\ stage \in [Requests -> Stages]
  /\ call \in [Requests -> Call \cup {Null}]
  /\ agg \in [Requests -> Aggregate \cup {Null}]
  /\ code \in [Requests -> Codes \cup {Null}]
  /\ tx \in [Requests -> WriteSet]
  /\ reply \in [Requests -> Codes \cup {Null}]
  /\ \A r \in Requests : stage[r] # "new" => call[r] \in Call

Init ==
  /\ paths = [p \in Paths |-> Null]
  /\ outbox = {}
  /\ keys = [k \in Keys |-> Null]
  /\ nextId = 1
  /\ stage = [r \in Requests |-> "new"]
  /\ call = [r \in Requests |-> Null]
  /\ agg = [r \in Requests |-> Null]
  /\ code = [r \in Requests |-> Null]
  /\ tx = [r \in Requests |-> NoWrites]
  /\ reply = [r \in Requests |-> Null]

-----------------------------------------------------------------------------
(* Locks: an uncommitted row makes the next writer of its key wait. *)

HoldsPath(r, p) == tx[r].row # Null /\ call[r].path = p

HoldsKey(r, k) == tx[r].key # Null /\ call[r].key = k

-----------------------------------------------------------------------------
(* What the handlers and use cases decide from one read of the path. *)

(* Mutant of Taken: the id of a deactivated path may be used again. *)
TakenByActive(row) == row # Null /\ row.status = "ACTIVE"

(* DefinePath: a PathId is taken by a row of any status. *)
Taken(row) == row # Null

(* Mutant of IsActive: the status is not looked at. *)
AlwaysActive(row) == TRUE

IsActive(row) == row.status = "ACTIVE"

(* The code a request ends with when it writes nothing, in the order of    *)
(* the early returns; Null when it goes on to Save.  A retried or          *)
(* redundant PUT and DELETE succeed without writing.                       *)
Verdict(c, row) ==
  IF c.op # "deactivate" /\ c.body.form = "malformed" THEN 400
  ELSE IF c.op # "deactivate" /\ c.body.form = "unparsable" THEN 422
  ELSE IF c.op = "define" /\ Taken(row) THEN 409
  ELSE IF c.op # "define" /\ row = Null THEN 404
  ELSE IF c.op = "revise" /\ ~IsActive(row) THEN 422
  ELSE IF c.op # "deactivate" /\ ~IsValid(c.body) THEN 422
  ELSE IF c.op = "revise" /\ SameTerms(Rehydrate(row), c.body) THEN 200
  ELSE IF c.op = "deactivate" /\ ~IsActive(row) THEN 204
  ELSE Null

(* The aggregate a request goes on to save. *)
Outcome(c, row) ==
  IF c.op = "define" THEN Define(c.body)
  ELSE IF c.op = "revise" THEN Revise(Rehydrate(row), c.body)
  ELSE Deactivate(Rehydrate(row))

SuccessCode(op) ==
  IF op = "define" THEN 201 ELSE IF op = "revise" THEN 200 ELSE 204

EventType(op) ==
  IF op = "define" THEN "Created"
  ELSE IF op = "revise" THEN "Updated" ELSE "Deactivated"

(* ProcessPathDeactivated carries nothing but the path's id. *)
EventPayload(op, a) ==
  IF op = "deactivate" THEN Null
  ELSE [terms |-> a.terms, route |-> a.route, cycle |-> a.cycle]

-----------------------------------------------------------------------------
(* The steps of a request *)

Goto(r, s) == stage' = [stage EXCEPT ![r] = s]

(* Mutant of Answer: the transaction is left open. *)
AnswerOnly(r, c) ==
  /\ reply' = [reply EXCEPT ![r] = c]
  /\ Goto(r, "done")
  /\ UNCHANGED tx

(* The response is sent, the transaction (if one is open) rolled back.     *)
Answer(r, c) ==
  /\ reply' = [reply EXCEPT ![r] = c]
  /\ tx' = [tx EXCEPT ![r] = NoWrites]
  /\ Goto(r, "done")

(* The SHA-256 of the body, which carries the pathId too. *)
RequestHash(r) == <<call[r].path, call[r].body>>

(* A request comes in.  Only POST passes through the middleware. *)
Arrive(r) ==
  /\ stage[r] = "new"
  /\ \E c \in Calls :
       /\ call' = [call EXCEPT ![r] = c]
       /\ Goto(r, IF c.op = "define" THEN "insertKey" ELSE "find")
  /\ UNCHANGED <<tables, agg, code, tx, reply>>

(* RequireIdempotencyKey: no header, no work. *)
RefuseMissingKey(r) ==
  /\ stage[r] = "insertKey"
  /\ call[r].key = Null
  /\ Answer(r, 400)
  /\ UNCHANGED <<tables, call, agg, code>>

(* Mutant of InsertKey: the key is looked up first and does not wait.      *)
InsertKeyAfterLookup(r) ==
  LET k == call[r].key
  IN /\ stage[r] = "insertKey"
     /\ k # Null
     /\ \/ /\ keys[k] = Null
           /\ tx' = [tx EXCEPT ![r].key =
                       [hash |-> RequestHash(r), status |-> Null]]
           /\ Goto(r, "find")
        \/ /\ keys[k] # Null
           /\ Goto(r, "replay")
           /\ UNCHANGED tx
     /\ UNCHANGED <<tables, call, agg, code, reply>>

(* INSERT INTO idempotency_keys ... ON CONFLICT (key) DO NOTHING waits for *)
(* a transaction that has inserted the same key, then either inserts or    *)
(* finds the committed row and gives its own transaction up.               *)
InsertKey(r) ==
  LET k == call[r].key
  IN /\ stage[r] = "insertKey"
     /\ k # Null
     /\ \A q \in Requests \ {r} : ~HoldsKey(q, k)
     /\ \/ /\ keys[k] = Null
           /\ tx' = [tx EXCEPT ![r].key =
                       [hash |-> RequestHash(r), status |-> Null]]
           /\ Goto(r, "find")
        \/ /\ keys[k] # Null
           /\ Goto(r, "replay")
           /\ UNCHANGED tx
     /\ UNCHANGED <<tables, call, agg, code, reply>>

(* Mutant of ReplayCode: the request hash is not compared. *)
ReplayAnyBody(stored, hash) == stored.status

(* replayCachedResponse: another body under the same key is refused, the   *)
(* same body gets the recorded response; an unrecorded one would be a 500. *)
ReplayCode(stored, hash) ==
  IF stored.hash # hash THEN 422
  ELSE IF stored.status = Null THEN 500 ELSE stored.status

(* The plain read that answers from the committed row of the key. *)
Replay(r) ==
  /\ stage[r] = "replay"
  /\ Answer(r, ReplayCode(keys[call[r].key], RequestHash(r)))
  /\ UNCHANGED <<tables, call, agg, code>>

(* FindByID and every early return up to Save.  What a POST decides is     *)
(* captured and will be recorded under its key; PUT and DELETE answer.     *)
FindAndStop(r) ==
  LET verdict == Verdict(call[r], paths[call[r].path])
  IN /\ stage[r] = "find"
     /\ verdict # Null
     /\ IF call[r].op = "define"
        THEN Goto(r, "record") /\ UNCHANGED <<tx, reply>>
        ELSE Answer(r, verdict)
     /\ code' = [code EXCEPT ![r] = verdict]
     /\ UNCHANGED <<tables, call, agg>>

(* Mutant of FindAndChange: the use case publishes and does not save.      *)
FindAndPublish(r) ==
  LET row == paths[call[r].path]
  IN /\ stage[r] = "find"
     /\ Verdict(call[r], row) = Null
     /\ agg' = [agg EXCEPT ![r] = Outcome(call[r], row)]
     /\ code' = [code EXCEPT ![r] = SuccessCode(call[r].op)]
     /\ Goto(r, "integration")
     /\ UNCHANGED <<tables, call, tx, reply>>

(* FindByID, then the change to the aggregate in memory. *)
FindAndChange(r) ==
  LET row == paths[call[r].path]
  IN /\ stage[r] = "find"
     /\ Verdict(call[r], row) = Null
     /\ agg' = [agg EXCEPT ![r] = Outcome(call[r], row)]
     /\ code' = [code EXCEPT ![r] = SuccessCode(call[r].op)]
     /\ Goto(r, "save")
     /\ UNCHANGED <<tables, call, tx, reply>>

(* UnitOfWork.Execute (which joins the middleware's transaction for a      *)
(* POST) and ProcessPathRepo.Save: the upsert waits for the transaction    *)
(* that has written the same path, then applies to what that one left.     *)
Save(r) ==
  LET p == call[r].path
  IN /\ stage[r] = "save"
     /\ \A q \in Requests \ {r} : ~HoldsPath(q, p)
     /\ tx' = [tx EXCEPT ![r].row = Upsert(paths[p], agg[r])]
     /\ Goto(r, "integration")
     /\ UNCHANGED <<tables, call, agg, code, reply>>

(* Mutants of AfterPublish: only the first encoder; no recorded outcome.   *)
AfterFirstEncoder(s, op) == IF op = "define" THEN "record" ELSE "commit"

AfterPublishUnrecorded(s, op) ==
  IF s = "integration" THEN "analytics" ELSE "commit"

(* The next encoder, or back in the handler that called the use case. *)
AfterPublish(s, op) ==
  IF s = "integration" THEN "analytics"
  ELSE IF op = "define" THEN "record" ELSE "commit"

(* OutboxPublisher.Publish: one INSERT for each encoder's topic, in turn.  *)
Publish(r) ==
  /\ stage[r] \in Topics
  /\ tx' = [tx EXCEPT ![r].events = @ \cup
              {[id |-> nextId, event |-> r, topic |-> stage[r],
                path |-> call[r].path, type |-> EventType(call[r].op),
                payload |-> EventPayload(call[r].op, agg[r])]}]
  /\ nextId' = nextId + 1
  /\ Goto(r, AfterPublish(stage[r], call[r].op))
  /\ UNCHANGED <<paths, outbox, keys, call, agg, code, reply>>

(* Mutant of RecordOutcome: the recorder's default code is stored. *)
RecordDefault(r) ==
  /\ stage[r] = "record"
  /\ tx' = [tx EXCEPT ![r].key.status = 200]
  /\ Goto(r, "commit")
  /\ UNCHANGED <<tables, call, agg, code, reply>>

(* The UPDATE of idempotency_keys with the captured response. *)
RecordOutcome(r) ==
  /\ stage[r] = "record"
  /\ tx' = [tx EXCEPT ![r].key.status = code[r]]
  /\ Goto(r, "commit")
  /\ UNCHANGED <<tables, call, agg, code, reply>>

(* COMMIT makes the write set visible at once.  The acknowledgement may be *)
(* lost, in which case the handler reports 500 for a committed request.    *)
Commit(r) ==
  /\ stage[r] = "commit"
  /\ paths' = IF tx[r].row = Null THEN paths
              ELSE [paths EXCEPT ![call[r].path] = tx[r].row]
  /\ outbox' = outbox \cup tx[r].events
  /\ keys' = IF tx[r].key = Null THEN keys
             ELSE [keys EXCEPT ![call[r].key] = tx[r].key]
  /\ \E c \in {code[r], 500} : Answer(r, c)
  /\ UNCHANGED <<nextId, call, agg, code>>

(* A statement, BEGIN or COMMIT fails (statement_timeout, a cancelled      *)
(* context, a lost connection), the handler panics or the process dies:    *)
(* Postgres keeps nothing of the transaction.  An error inside a POST's    *)
(* handler leaves its transaction aborted, so the UPDATE that would record *)
(* the 500 fails too and the middleware rolls back.                        *)
RollBack(r) ==
  /\ stage[r] \notin {"new", "done"}
  /\ Answer(r, 500)
  /\ UNCHANGED <<tables, call, agg, code>>

(* The steps of a request that has arrived, its failure excepted. *)
Progress(r) ==
  \/ RefuseMissingKey(r) \/ InsertKey(r) \/ Replay(r)
  \/ FindAndStop(r) \/ FindAndChange(r)
  \/ Save(r) \/ Publish(r) \/ RecordOutcome(r) \/ Commit(r)

(* Every request is answered: the model stops here, not the service. *)
Quiescent ==
  /\ \A r \in Requests : stage[r] = "done"
  /\ UNCHANGED vars

Next ==
  \/ \E r \in Requests : Arrive(r) \/ Progress(r) \/ RollBack(r)
  \/ Quiescent

Spec == Init /\ [][Next]_vars

(* Each request runs as a goroutine of its own and each of its statements  *)
(* is bounded by statement_timeout, so a request that can go on does.      *)
FairSpec == Spec /\ \A r \in Requests : WF_vars(Progress(r))

(* One operator at a time: a request comes in when no other is in flight.  *)
(* Failures and retries remain.                                            *)
SerialNext ==
  \/ \E r \in Requests :
       \/ Arrive(r) /\ \A q \in Requests : stage[q] \in {"new", "done"}
       \/ Progress(r) \/ RollBack(r)
  \/ Quiescent

SerialSpec == Init /\ [][SerialNext]_vars

-----------------------------------------------------------------------------
(* Properties *)

OnTopic(p, t) == {e \in outbox : e.path = p /\ e.topic = t}

IsLatest(e) == \A f \in OnTopic(e.path, e.topic) : f.id <= e.id

(* The row a consumer would build from the event is the one stored.        *)
Tells(e, row) ==
  /\ row.status = IF e.type = "Deactivated" THEN "DEACTIVATED" ELSE "ACTIVE"
  /\ e.type # "Deactivated" =>
       /\ row.terms = e.payload.terms
       /\ row.micros = ToInterval(e.payload.cycle)

(* The transactional outbox's promise: on every topic, a path has events   *)
(* exactly when it has a row, and its latest event tells the row's status  *)
(* and revisable terms (to the microsecond), whatever requests raced,      *)
(* failed or were answered.                                                *)
StoreAgreesWithOutbox ==
  \A p \in Paths, t \in Topics :
    /\ paths[p] # Null => OnTopic(p, t) # {}
    /\ \A e \in OnTopic(p, t) :
         IsLatest(e) => paths[p] # Null /\ Tells(e, paths[p])

(* The topics never diverge: an event committed for one is committed for   *)
(* each, once, saying the same, and two events of a path come in the same  *)
(* order on both.                                                          *)
TopicsAgree ==
  \A e \in outbox, t \in Topics :
    \E f \in outbox :
      /\ f.topic = t /\ f.event = e.event
      /\ f.path = e.path /\ f.type = e.type /\ f.payload = e.payload
      /\ \A g \in OnTopic(f.path, t) : g.event = f.event => g = f
      /\ \A e2 \in OnTopic(e.path, e.topic), f2 \in OnTopic(e.path, t) :
           e2.event = f2.event => (e.id < e2.id <=> f.id < f2.id)

(* What the relay's ORDER BY id relies on: once a row of a path is visible *)
(* no smaller id of that path ever becomes visible, though ids are drawn   *)
(* long before they commit and rollbacks leave gaps.                       *)
NoLateInsert ==
  [][\A e \in outbox' \ outbox, f \in outbox :
       f.path = e.path => f.id < e.id]_outbox

(* An Idempotency-Key is applied at most once: the POSTs that carried it   *)
(* add one ProcessPathCreated per topic between them, whatever their       *)
(* bodies, order and failures.                                             *)
KeyAppliedOnce ==
  \A e, f \in outbox :
    /\ e.type = "Created" /\ f.type = "Created" /\ e.topic = f.topic
    /\ call[e.event].key = call[f.event].key
    => e = f

(* A retry is told what the first attempt was told: two POSTs with the     *)
(* same key and body never receive different answers, a 500 excepted.      *)
RetriesAgree ==
  \A r, q \in Requests :
    /\ reply[r] \notin {Null, 500} /\ reply[q] \notin {Null, 500}
    /\ call[r] = call[q] /\ call[r].op = "define"
    => reply[r] = reply[q]

(* The middleware's own claim: no committed idempotency row lacks its      *)
(* recorded outcome.                                                       *)
NoNullStatusCommitted ==
  \A k \in Keys : keys[k] # Null => keys[k].status # Null

(* No answer lies: a 201 means this key's Created event, with this body,   *)
(* is in the outbox; a PUT or DELETE that changed the aggregate and was    *)
(* acknowledged has its event there; a 4xx left nothing behind.            *)
AnswersHold ==
  \A r \in Requests :
    /\ reply[r] = 201 =>
         \E e \in outbox :
           /\ e.type = "Created" /\ call[e.event] = call[r]
           /\ e.payload = EventPayload("define", Define(call[r].body))
    /\ reply[r] \in {200, 204} /\ agg[r] # Null =>
         \E e \in outbox : e.event = r /\ e.path = call[r].path
    /\ reply[r] \in {400, 404, 409, 422} =>
         \A e \in outbox : e.event # r

(* Every request that comes in is answered: nothing waits on a lock for    *)
(* ever, and no two transactions wait for each other's.                    *)
EveryRequestAnswered ==
  \A r \in Requests : stage[r] # "new" ~> stage[r] = "done"

-----------------------------------------------------------------------------
(* What the documentation says of the aggregate.  These hold for one       *)
(* operator at a time (SerialSpec) and not for concurrent ones.            *)

(* A deactivated path is a closed record: its row never changes again.     *)
DeactivationIsTerminal ==
  [][\A p \in Paths :
       paths[p] # Null /\ paths[p].status = "DEACTIVATED"
         => paths'[p] = paths[p]]_paths

(* A PathId is defined once: it has one ProcessPathCreated per topic.      *)
DefinedOnce ==
  \A e, f \in outbox :
    /\ e.type = "Created" /\ f.type = "Created"
    /\ e.path = f.path /\ e.topic = f.topic
    => e = f

(* Deactivation never double-publishes.                                    *)
DeactivatedOnce ==
  \A e, f \in outbox :
    /\ e.type = "Deactivated" /\ f.type = "Deactivated"
    /\ e.path = f.path /\ e.topic = f.topic
    => e = f

(* A ProcessPathUpdated is published only by a revision that changes the   *)
(* stored path, or whose cycle time the row cannot hold exactly: that one  *)
(* never equals what is read back, so it is published each time.           *)
UpdatedMeansChanged ==
  [][\A e \in outbox' \ outbox :
       e.type = "Updated" =>
         \/ paths'[e.path] # paths[e.path]
         \/ FromInterval(ToInterval(e.payload.cycle)) # e.payload.cycle]_<<outbox, paths>>
=============================================================================
