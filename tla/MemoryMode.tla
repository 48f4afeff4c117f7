------------------------------ MODULE MemoryMode ------------------------------
(***************************************************************************)
(* The service without a database (no DATABASE_URL): the in-memory         *)
(* repository hands out the pointers it stores, there is no unit of work   *)
(* and no idempotency middleware, and each event is sent to Kafka by       *)
(* FanOutPublisher while its request waits.                                *)
(*                                                                         *)
(* The repository's lock guards its map only.  The fields of an aggregate  *)
(* are read and written without one: a request that revises an object is   *)
(* writing it from its no-op test to the end of Revise, and what others    *)
(* read meanwhile, or two such writers leave behind, may be any mixture.   *)
(***************************************************************************)
EXTENDS ProcessPath, Sequences, FiniteSets, Functions

CONSTANTS
  Requests,   \* HTTP requests, each handled once
  Paths,      \* PathIds
  Calls,      \* the calls a request may make
  Garbled     \* Terms that no request has sent: a torn string, a mixture

Call == [op: {"define", "revise", "deactivate"}, path: Paths, body: Body]

(* FanOutPublisher's order. *)
Topics == {"integration", "analytics"}

Stages == {"new", "change", "save", "build", "done"} \cup Topics

Object == [terms: Terms \cup {Garbled}, route: Routes, cycle: Nat,
           status: Statuses]

Event == [by: Requests, path: Paths,
          type: {"Created", "Updated", "Deactivated"},
          payload: [terms: Terms \cup {Garbled}, route: Routes, cycle: Nat]
                     \cup {Null}]

Codes == {200, 201, 204, 404, 409, 422, 500}

(* Null is none of the values it is compared with. *)
ASSUME MemoryAssumption ==
  /\ Calls \subseteq Call
  /\ Garbled \notin Terms
  /\ Null \notin Requests \cup Object \cup Event \cup Codes

VARIABLES
  store,    \* ProcessPathRepo.paths: the object of each path
  heap,     \* the objects, each named by the request that defined it
  writers,  \* the requests that revise an object, and those they overlap with
  stage,    \* where each request stands
  call,     \* what each request asks for
  object,   \* the object each request works on
  event,    \* the event each request publishes
  log,      \* what each Kafka topic holds
  reply     \* the status code each client received

vars == <<store, heap, writers, stage, call, object, event, log, reply>>

TypeOK ==
  /\ store \in [Paths -> Requests \cup {Null}]
  /\ heap \in [Requests -> Object \cup {Null}]
  /\ writers \in [Requests -> SUBSET Requests]
  /\ stage \in [Requests -> Stages]
  /\ call \in [Requests -> Call \cup {Null}]
  /\ object \in [Requests -> Requests \cup {Null}]
  /\ event \in [Requests -> Event \cup {Null}]
  /\ log \in [Topics -> Seq(Range(event))]
  /\ reply \in [Requests -> Codes \cup {Null}]
  /\ \A p \in Paths : store[p] # Null => heap[store[p]] # Null

Init ==
  /\ store = [p \in Paths |-> Null]
  /\ heap = [r \in Requests |-> Null]
  /\ writers = [r \in Requests |-> {}]
  /\ stage = [r \in Requests |-> "new"]
  /\ call = [r \in Requests |-> Null]
  /\ object = [r \in Requests |-> Null]
  /\ event = [r \in Requests |-> Null]
  /\ log = [t \in Topics |-> <<>>]
  /\ reply = [r \in Requests |-> Null]

-----------------------------------------------------------------------------
(* Shared objects *)

Revising(o) ==
  {q \in Requests : /\ stage[q] = "change"
                    /\ call[q].op = "revise"
                    /\ object[q] = o}

Mixed(x, terms, cycle) == [x EXCEPT !.terms = terms, !.cycle = cycle]

(* What r may read of an object: as it is, or, while others revise it, any *)
(* mixture of its terms with old and new cycle times.                      *)
Views(r, o) ==
  LET others == Revising(o) \ {r}
  IN IF others = {} THEN {heap[o]}
     ELSE {Mixed(heap[o], t, n) :
             t \in Terms \cup {Garbled},
             n \in {heap[o].cycle} \cup {call[q].body.cycle : q \in others}}

(* What a revision leaves: its own terms and cycle time, unless others     *)
(* were writing at the same time.                                          *)
Revised(r, o) ==
  LET body == call[r].body
  IN IF writers[o] = {r} THEN {Revise(heap[o], body)}
     ELSE {Mixed(heap[o], t, n) :
             t \in Terms \cup {Garbled},
             n \in {call[q].body.cycle : q \in writers[o]}}

-----------------------------------------------------------------------------
(* The steps of a request *)

Goto(r, s) == stage' = [stage EXCEPT ![r] = s]

Answer(r, c) == Goto(r, "done") /\ reply' = [reply EXCEPT ![r] = c]

(* The code of a request that changes nothing, from the pointer FindByID   *)
(* returned and the fields read through it; Null when it goes on.          *)
Verdict(c, o, view) ==
  IF c.op = "define"
  THEN IF o # Null THEN 409 ELSE IF ~IsValid(c.body) THEN 422 ELSE Null
  ELSE IF o = Null THEN 404
  ELSE IF c.op = "deactivate"
  THEN IF view.status = "DEACTIVATED" THEN 204 ELSE Null
  ELSE IF view.status = "DEACTIVATED" \/ ~IsValid(c.body) THEN 422
  ELSE IF SameTerms(view, c.body) THEN 200 ELSE Null

(* FindByID, and what the use case decides before it changes anything.     *)
Find(r) ==
  /\ stage[r] = "new"
  /\ \E c \in Calls :
       LET o == store[c.path]
       IN /\ call' = [call EXCEPT ![r] = c]
          /\ object' = [object EXCEPT ![r] = o]
          /\ \E view \in IF o = Null THEN {Null} ELSE Views(r, o) :
               LET code == Verdict(c, o, view)
               IN IF code # Null
                  THEN Answer(r, code) /\ UNCHANGED writers
                  ELSE /\ Goto(r, "change")
                       /\ writers' = IF c.op # "revise" THEN writers
                            ELSE [writers EXCEPT ![o] =
                                    IF Revising(o) = {} THEN {r} ELSE @ \cup {r}]
                       /\ UNCHANGED reply
  /\ UNCHANGED <<store, heap, event, log>>

(* Mutant of Change: Revise assigns the status it has tested, too. *)
ChangeWhole(r) ==
  LET c == call[r]
      o == object[r]
  IN /\ stage[r] = "change"
     /\ IF c.op = "define"
        THEN /\ heap' = [heap EXCEPT ![r] = Define(c.body)]
             /\ object' = [object EXCEPT ![r] = r]
        ELSE /\ \E new \in IF c.op = "revise" THEN Revised(r, o)
                           ELSE {Deactivate(heap[o])} :
                  heap' = [heap EXCEPT ![o] =
                             IF c.op = "revise"
                             THEN [new EXCEPT !.status = "ACTIVE"] ELSE new]
             /\ UNCHANGED object
     /\ Goto(r, "save")
     /\ UNCHANGED <<store, writers, call, event, log, reply>>

(* Define makes a new object; Revise and Deactivate assign to the fields   *)
(* of the one the store shares, whether or not it is still the store's.    *)
Change(r) ==
  LET c == call[r]
      o == object[r]
  IN /\ stage[r] = "change"
     /\ IF c.op = "define"
        THEN /\ heap' = [heap EXCEPT ![r] = Define(c.body)]
             /\ object' = [object EXCEPT ![r] = r]
        ELSE /\ \E new \in IF c.op = "revise" THEN Revised(r, o)
                           ELSE {Deactivate(heap[o])} :
                  heap' = [heap EXCEPT ![o] = new]
             /\ UNCHANGED object
     /\ Goto(r, "save")
     /\ UNCHANGED <<store, writers, call, event, log, reply>>

(* Mutant of Save: only a path that is stored is saved. *)
SaveKnown(r) ==
  LET p == call[r].path
  IN /\ stage[r] = "save"
     /\ store' = IF store[p] = Null THEN store
                 ELSE [store EXCEPT ![p] = object[r]]
     /\ Goto(r, "build")
     /\ UNCHANGED <<heap, writers, call, object, event, log, reply>>

(* r.paths[p.ID()] = p *)
Save(r) ==
  /\ stage[r] = "save"
  /\ store' = [store EXCEPT ![call[r].path] = object[r]]
  /\ Goto(r, "build")
  /\ UNCHANGED <<heap, writers, call, object, event, log, reply>>

EventOf(r, type, payload) ==
  [by |-> r, path |-> call[r].path, type |-> type, payload |-> payload]

Said(view) ==
  [terms |-> view.terms, route |-> view.route, cycle |-> view.cycle]

(* Mutant of Build: the event carries what the request asked for. *)
BuildFromBody(r) ==
  LET c == call[r]
  IN /\ stage[r] = "build"
     /\ event' = [event EXCEPT ![r] =
          IF c.op = "deactivate" THEN EventOf(r, "Deactivated", Null)
          ELSE EventOf(r, IF c.op = "define" THEN "Created" ELSE "Updated",
                       Said(c.body))]
     /\ Goto(r, "integration")
     /\ UNCHANGED <<store, heap, writers, call, object, log, reply>>

(* The event, its fields read through the shared pointer once it is saved. *)
Build(r) ==
  LET op == call[r].op
  IN /\ stage[r] = "build"
     /\ \E view \in Views(r, object[r]) :
          event' = [event EXCEPT ![r] =
            IF op = "deactivate" THEN EventOf(r, "Deactivated", Null)
            ELSE EventOf(r, IF op = "define" THEN "Created" ELSE "Updated",
                         Said(view))]
     /\ Goto(r, "integration")
     /\ UNCHANGED <<store, heap, writers, call, object, log, reply>>

SuccessCode(op) ==
  IF op = "define" THEN 201 ELSE IF op = "revise" THEN 200 ELSE 204

Arrives(r) == log' = [log EXCEPT ![stage[r]] = Append(@, event[r])]

(* FanOutPublisher goes on when one publisher has returned. *)
Send(r) ==
  /\ stage[r] \in Topics
  /\ Arrives(r)
  /\ IF stage[r] = "integration"
     THEN Goto(r, "analytics") /\ UNCHANGED reply
     ELSE Answer(r, SuccessCode(call[r].op))
  /\ UNCHANGED <<store, heap, writers, call, object, event>>

(* Mutant of SendFails: the fan-out goes on after an error. *)
SendFailsAndGoesOn(r) ==
  /\ stage[r] \in Topics
  /\ Arrives(r) \/ UNCHANGED log
  /\ IF stage[r] = "integration"
     THEN Goto(r, "analytics") /\ UNCHANGED reply
     ELSE Answer(r, SuccessCode(call[r].op))
  /\ UNCHANGED <<store, heap, writers, call, object, event>>

(* The first error stops the fan-out and is the answer; the message may    *)
(* have arrived, and what the request has stored stays.                    *)
SendFails(r) ==
  /\ stage[r] \in Topics
  /\ Arrives(r) \/ UNCHANGED log
  /\ Answer(r, 500)
  /\ UNCHANGED <<store, heap, writers, call, object, event>>

(* The process ends and starts with an empty store; a request under way is *)
(* never answered, which its client takes for a failure.                   *)
Restart ==
  /\ store' = [p \in Paths |-> Null]
  /\ heap' = [r \in Requests |-> Null]
  /\ writers' = [r \in Requests |-> {}]
  /\ object' = [r \in Requests |-> Null]
  /\ stage' = [r \in Requests |-> IF stage[r] = "new" THEN "new" ELSE "done"]
  /\ reply' = [r \in Requests |->
                 IF stage[r] \in {"new", "done"} THEN reply[r] ELSE 500]
  /\ UNCHANGED <<call, event, log>>

Next ==
  \/ \E r \in Requests :
       Find(r) \/ Change(r) \/ Save(r) \/ Build(r) \/ Send(r) \/ SendFails(r)
  \/ Restart

Spec == Init /\ [][Next]_vars

-----------------------------------------------------------------------------
(* Properties *)

(* "an analytics-publish failure is never silently swallowed behind an     *)
(* earlier publisher's success" (fanout_publisher.go:16-18): a change that *)
(* was answered with success is on both topics, and the analytics topic    *)
(* never knows of one the integration topic does not hold.                 *)
FanOutIsFailFast ==
  /\ Range(log["analytics"]) \subseteq Range(log["integration"])
  /\ \A r \in Requests :
       reply[r] \in {200, 201, 204} /\ event[r] # Null =>
         \A t \in Topics : event[r] \in Range(log[t])

Dead(p) == store[p] # Null /\ heap[store[p]].status = "DEACTIVATED"

(* Two POSTs have both found the id free and made an object. *)
DefinedTwice(p) ==
  \E r, q \in Requests :
    /\ r # q
    /\ heap[r] # Null /\ heap[q] # Null
    /\ call[r].path = p /\ call[q].path = p

(* "Deactivation is terminal" here even against a PUT that has read the    *)
(* path as active before (process_path.go:43-44): both work on one object, *)
(* of which a PUT never writes the status.  Only a POST that found the id  *)
(* free at the same time as another, or a restart, brings the path back.   *)
DeactivatedStays ==
  [][\A p \in Paths :
       Dead(p) => Dead(p)' \/ DefinedTwice(p)' \/ store'[p] = Null]_vars

(* Nothing is announced before it is stored: whenever a topic grows, the   *)
(* path is in the store, and deactivated if the message says so.           *)
AnnouncedIsStored ==
  [][\A t \in Topics :
       log'[t] # log[t] =>
         LET e == log'[t][Len(log'[t])]
         IN /\ store[e.path] # Null
            /\ e.type = "Deactivated" => Dead(e.path) \/ DefinedTwice(e.path)
    ]_vars

(* What is stored has been announced on both topics once the requests have *)
(* been answered, unless one of them failed: although they share objects,  *)
(* each event is read off the object after its request's last write, so    *)
(* that of the last writer carries what remains, a mixture included.       *)
StoredIsAnnounced ==
  (\A r \in Requests : stage[r] \in {"new", "done"} /\ reply[r] # 500) =>
    \A p \in Paths, t \in Topics :
      store[p] # Null =>
        LET sent == {e \in Range(log[t]) : e.path = p}
        IN /\ \E e \in sent : e.payload = Said(heap[store[p]])
           /\ Dead(p) => \E e \in sent : e.type = "Deactivated"
=============================================================================
