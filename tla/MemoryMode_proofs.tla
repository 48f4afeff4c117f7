--------------------------- MODULE MemoryMode_proofs ---------------------------
(***************************************************************************)
(* Proofs about MemoryMode, for every set of requests, paths and calls:    *)
(* type correctness, and what the fan-out promises although the requests   *)
(* share the objects of the store and write them without a lock.           *)
(***************************************************************************)
EXTENDS MemoryMode, SequenceTheorems, TLAPS

-----------------------------------------------------------------------------
(* The inductive invariant *)

(* The types, without what TypeOK says of the logs. *)
StateType ==
  /\ store \in [Paths -> Requests \cup {Null}]
  /\ heap \in [Requests -> Object \cup {Null}]
  /\ writers \in [Requests -> SUBSET Requests]
  /\ stage \in [Requests -> Stages]
  /\ call \in [Requests -> Call \cup {Null}]
  /\ object \in [Requests -> Requests \cup {Null}]
  /\ event \in [Requests -> Event \cup {Null}]
  /\ log \in [Topics -> Seq(Event)]
  /\ reply \in [Requests -> Codes \cup {Null}]
  /\ \A r \in Requests : stage[r] # "new" => call[r] \in Call

(* An object is named by the POST that made it, which has made no other.   *)
(* The store, and the requests that hold a pointer, share existing objects *)
(* of their own path.                                                      *)
SharedInv ==
  /\ \A o \in Requests : heap[o] # Null =>
       stage[o] \notin {"new", "change"} /\ call[o].op = "define"
  /\ \A p \in Paths : store[p] # Null =>
       heap[store[p]] # Null /\ call[store[p]].path = p
  /\ \A r \in Requests :
       /\ object[r] # Null =>
            /\ stage[r] # "new" /\ heap[object[r]] # Null
            /\ call[object[r]].path = call[r].path
       /\ stage[r] \in {"save", "build"} \cup Topics => object[r] # Null
       /\ stage[r] = "change" /\ call[r].op # "define" => object[r] # Null

(* Those that revise an object are among its writers, and its writers have *)
(* come in.                                                                *)
WritersInv ==
  /\ \A o \in Requests : \A q \in writers[o] :
       stage[q] # "new" /\ call[q] \in Call
  /\ \A r \in Requests :
       stage[r] = "change" /\ call[r].op = "revise" => r \in writers[object[r]]

(* What a request has stored and made dead while it is under way. *)
UnderWay ==
  \A r \in Requests :
    /\ stage[r] \in {"build"} \cup Topics => store[call[r].path] # Null
    /\ stage[r] \in {"save", "build"} \cup Topics /\ call[r].op = "deactivate"
         => heap[object[r]].status = "DEACTIVATED"

(* An event is built once, after the stage that builds it, and its request *)
(* ends with the code of its operation or with a failure.                  *)
EventInv ==
  \A r \in Requests :
    /\ stage[r] \in Topics => event[r] # Null
    /\ event[r] # Null =>
         /\ stage[r] \in Topics \cup {"done"}
         /\ event[r].by = r /\ event[r].path = call[r].path
         /\ event[r].type = "Deactivated" <=> call[r].op = "deactivate"
         /\ stage[r] = "done" => reply[r] \in {200, 201, 204, 500}
    /\ stage[r] # "done" => reply[r] = Null

(* The topics hold the events of the requests, and the integration topic   *)
(* those that are on their way to the other.                               *)
LogInv ==
  /\ \A t \in Topics : \A e \in Range(log[t]) : event[e.by] = e
  /\ \A r \in Requests :
       stage[r] = "analytics" => event[r] \in Range(log["integration"])

(* What is left of an object has a writer that will read it for its event  *)
(* or has done so.                                                         *)
Covered(o) ==
  \/ \E w \in Requests :
       /\ object[w] = o /\ call[w].op = "revise" /\ stage[w] = "change"
  \/ \E w \in Requests :
       /\ object[w] = o /\ call[w].op # "deactivate"
       /\ stage[w] \in {"save", "build"}
  \/ \E w \in Requests :
       /\ event[w] # Null /\ event[w].path = call[o].path
       /\ event[w].payload = Said(heap[o])

(* A dead object has a request that deactivated it and will say so or has. *)
Buried(o) ==
  \E w \in Requests :
    /\ object[w] = o /\ call[w].op = "deactivate"
    /\ stage[w] \in {"save", "build"} \/ event[w] # Null

CoverInv ==
  \A o \in Requests :
    heap[o] # Null =>
      /\ Covered(o)
      /\ heap[o].status = "DEACTIVATED" => Buried(o)

BaseInv == StateType /\ SharedInv /\ WritersInv

MemInv == BaseInv /\ UnderWay /\ EventInv /\ LogInv /\ FanOutIsFailFast /\ CoverInv

LEMMA MemInvInit == Init => MemInv
<1> SUFFICES ASSUME Init PROVE MemInv
  OBVIOUS
<1> USE DEF Init
<1>1. StateType
  BY DEF StateType, Stages, Topics
<1>2. SharedInv /\ WritersInv /\ UnderWay /\ EventInv
  BY DEF SharedInv, WritersInv, UnderWay, EventInv, Topics
<1>3. \A t \in Topics : log[t] = <<>> /\ Range(log[t]) = {}
  BY DEF Range
<1>4. LogInv /\ FanOutIsFailFast
  BY <1>3 DEF LogInv, FanOutIsFailFast, Topics
<1>5. CoverInv
  BY DEF CoverInv
<1>. QED  BY <1>1, <1>2, <1>4, <1>5 DEF MemInv, BaseInv

-----------------------------------------------------------------------------
(* What the steps do *)

LEMMA CallParts ==
  ASSUME NEW c \in Call
  PROVE  /\ c.op \in {"define", "revise", "deactivate"} /\ c.path \in Paths
         /\ c.body.terms \in Terms /\ c.body.route \in Routes
         /\ c.body.cycle \in Nat
BY CyclesAssumption DEF Call, Body

(* A mixture is an object still, of the same status. *)
LEMMA Mixture ==
  ASSUME NEW x \in Object, NEW t \in Terms \cup {Garbled}, NEW n \in Nat
  PROVE  Mixed(x, t, n) \in Object /\ Mixed(x, t, n).status = x.status
BY DEF Object, Mixed

LEMMA ViewIsObject ==
  ASSUME StateType, NEW r \in Requests, NEW o \in Requests, heap[o] # Null,
         NEW v \in Views(r, o)
  PROVE  v \in Object /\ v.status = heap[o].status
<1>1. heap[o] \in Object
  BY DEF StateType
<1>2. CASE Revising(o) \ {r} = {}
  BY <1>1, <1>2 DEF Views
<1>3. CASE Revising(o) \ {r} # {}
  <2>1. PICK t \in Terms \cup {Garbled},
             n \in {heap[o].cycle} \cup
                     {call[q].body.cycle : q \in Revising(o) \ {r}} :
          v = Mixed(heap[o], t, n)
    BY <1>3 DEF Views
  <2>2. n \in Nat
    <3>1. heap[o].cycle \in Nat
      BY <1>1 DEF Object
    <3>2. \A q \in Revising(o) : call[q] \in Call
      BY DEF Revising, StateType
    <3>. QED  BY <3>1, <3>2, CallParts
  <2>. QED  BY <1>1, <2>1, <2>2, Mixture
<1>. QED  BY <1>2, <1>3

LEMMA RevisedIsObject ==
  ASSUME StateType, WritersInv, NEW r \in Requests, NEW o \in Requests,
         heap[o] # Null, call[r] \in Call, NEW v \in Revised(r, o)
  PROVE  v \in Object /\ v.status = heap[o].status
<1>1. heap[o] \in Object
  BY DEF StateType
<1>2. CASE writers[o] = {r}
  <2>1. v = Mixed(heap[o], call[r].body.terms, call[r].body.cycle)
    BY <1>2 DEF Revised, Revise, Mixed
  <2>2. /\ call[r].body.terms \in Terms \cup {Garbled}
        /\ call[r].body.cycle \in Nat
    BY CallParts
  <2>. QED  BY <1>1, <2>1, <2>2, Mixture
<1>3. CASE writers[o] # {r}
  <2>1. PICK t \in Terms \cup {Garbled},
             n \in {call[q].body.cycle : q \in writers[o]} :
          v = Mixed(heap[o], t, n)
    BY <1>3 DEF Revised
  <2>2. n \in Nat
    BY CallParts DEF WritersInv
  <2>. QED  BY <1>1, <2>1, <2>2, Mixture
<1>. QED  BY <1>2, <1>3

(* A request that comes in has made, changed and announced nothing.        *)
LEMMA Newcomer ==
  ASSUME MemInv, NEW r \in Requests, stage[r] = "new"
  PROVE  /\ heap[r] = Null /\ object[r] = Null /\ event[r] = Null
         /\ reply[r] = Null
         /\ \A o \in Requests : r \notin writers[o]
BY DEF MemInv, BaseInv, SharedInv, WritersInv, EventInv, Topics

(* Find answers, or goes on with a pointer the store shares. *)
Found(r, c) ==
  /\ stage[r] = "new"
  /\ call' = [call EXCEPT ![r] = c]
  /\ object' = [object EXCEPT ![r] = store[c.path]]
  /\ UNCHANGED <<store, heap, event, log>>
  /\ \/ /\ stage' = [stage EXCEPT ![r] = "done"]
        /\ \E code \in Codes : reply' = [reply EXCEPT ![r] = code]
        /\ writers' = writers
     \/ /\ stage' = [stage EXCEPT ![r] = "change"]
        /\ c.op # "define" => store[c.path] # Null
        /\ UNCHANGED reply
        /\ writers' = IF c.op # "revise" THEN writers
             ELSE [writers EXCEPT ![store[c.path]] =
                     IF Revising(store[c.path]) = {} THEN {r} ELSE @ \cup {r}]

LEMMA FindEffect ==
  ASSUME MemInv, NEW r \in Requests, Find(r)
  PROVE  \E c \in Call : Found(r, c)
<1>1. PICK c \in Calls :
        /\ call' = [call EXCEPT ![r] = c]
        /\ object' = [object EXCEPT ![r] = store[c.path]]
        /\ \E view \in IF store[c.path] = Null THEN {Null}
                       ELSE Views(r, store[c.path]) :
             LET o == store[c.path]
                 code == Verdict(c, o, view)
             IN IF code # Null
                THEN Answer(r, code) /\ UNCHANGED writers
                ELSE /\ Goto(r, "change")
                     /\ writers' = IF c.op # "revise" THEN writers
                          ELSE [writers EXCEPT ![o] =
                                  IF Revising(o) = {} THEN {r} ELSE @ \cup {r}]
                     /\ UNCHANGED reply
  BY DEF Find
<1>2. c \in Call
  BY MemoryAssumption
<1>3. PICK view \in IF store[c.path] = Null THEN {Null}
                    ELSE Views(r, store[c.path]) :
        \/ /\ Verdict(c, store[c.path], view) # Null
           /\ Answer(r, Verdict(c, store[c.path], view))
           /\ UNCHANGED writers
        \/ /\ Verdict(c, store[c.path], view) = Null
           /\ Goto(r, "change")
           /\ writers' = IF c.op # "revise" THEN writers
                ELSE [writers EXCEPT ![store[c.path]] =
                        IF Revising(store[c.path]) = {} THEN {r} ELSE @ \cup {r}]
           /\ UNCHANGED reply
  BY <1>1
<1>4. Verdict(c, store[c.path], view) \in Codes \cup {Null}
  BY DEF Verdict, Codes
<1>5. Verdict(c, store[c.path], view) = Null /\ c.op # "define"
        => store[c.path] # Null
  BY MemoryAssumption DEF Verdict, Codes
<1>6. stage[r] = "new" /\ UNCHANGED <<store, heap, event, log>>
  BY DEF Find
<1>7. CASE Verdict(c, store[c.path], view) # Null
  BY <1>1, <1>2, <1>3, <1>4, <1>6, <1>7 DEF Found, Answer, Goto
<1>8. CASE Verdict(c, store[c.path], view) = Null
  <2>1. /\ stage' = [stage EXCEPT ![r] = "change"]
        /\ UNCHANGED reply
        /\ writers' = IF c.op # "revise" THEN writers
                ELSE [writers EXCEPT ![store[c.path]] =
                        IF Revising(store[c.path]) = {} THEN {r} ELSE @ \cup {r}]
    BY <1>3, <1>8 DEF Goto
  <2>. QED  BY <1>1, <1>2, <1>5, <1>6, <1>8, <2>1 DEF Found
<1>. QED  BY <1>7, <1>8

(* Change makes a new object or leaves one of the same status, which a     *)
(* deactivation makes dead and does not change otherwise.                  *)
Changed(r, new) ==
  /\ stage[r] = "change" /\ stage' = [stage EXCEPT ![r] = "save"]
  /\ UNCHANGED <<store, writers, call, event, log, reply>>
  /\ \E o \in Requests :
       /\ object' = [object EXCEPT ![r] = o]
       /\ heap' = [heap EXCEPT ![o] = new]
       /\ IF call[r].op = "define"
          THEN o = r /\ heap[r] = Null /\ new.status = "ACTIVE"
          ELSE o = object[r] /\ heap[o] # Null
       /\ call[r].op = "revise" => new.status = heap[o].status
       /\ call[r].op = "deactivate" =>
            new.status = "DEACTIVATED" /\ Said(new) = Said(heap[o])

LEMMA ChangeEffect ==
  ASSUME MemInv, NEW r \in Requests, Change(r)
  PROVE  call[r] \in Call /\ \E new \in Object : Changed(r, new)
<1> USE DEF MemInv, BaseInv
<1>1. /\ stage[r] = "change" /\ stage' = [stage EXCEPT ![r] = "save"]
      /\ UNCHANGED <<store, writers, call, event, log, reply>>
  BY DEF Change, Goto
<1>2. call[r] \in Call /\ call[r].op \in {"define", "revise", "deactivate"}
  BY <1>1, CallParts DEF StateType
<1>3. CASE call[r].op = "define"
  <2>1. /\ heap' = [heap EXCEPT ![r] = Define(call[r].body)]
        /\ object' = [object EXCEPT ![r] = r]
    BY <1>3 DEF Change
  <2>2. Define(call[r].body) \in Object /\ Define(call[r].body).status = "ACTIVE"
    BY <1>2, CallParts DEF Define, Object, Statuses
  <2>3. heap[r] = Null
    BY <1>1 DEF SharedInv
  <2>. QED  BY <1>1, <1>2, <1>3, <2>1, <2>2, <2>3 DEF Changed
<1>4. CASE call[r].op # "define"
  <2>1. PICK new \in IF call[r].op = "revise" THEN Revised(r, object[r])
                     ELSE {Deactivate(heap[object[r]])} :
          heap' = [heap EXCEPT ![object[r]] = new]
    BY <1>4 DEF Change
  <2>2. object' = [object EXCEPT ![r] = object[r]]
    BY <1>4 DEF Change, StateType
  <2>3. /\ object[r] \in Requests /\ heap[object[r]] # Null
        /\ heap[object[r]] \in Object
    BY <1>1, <1>4 DEF SharedInv, StateType
  <2>4. CASE call[r].op = "revise"
    <3>1. new \in Object /\ new.status = heap[object[r]].status
      BY <1>2, <2>1, <2>3, <2>4, RevisedIsObject
    <3>. QED  BY <1>1, <1>2, <2>1, <2>2, <2>3, <2>4, <3>1 DEF Changed
  <2>5. CASE call[r].op = "deactivate"
    <3>1. new = Deactivate(heap[object[r]])
      BY <2>1, <2>5
    <3>2. /\ new \in Object /\ new.status = "DEACTIVATED"
          /\ Said(new) = Said(heap[object[r]])
      BY <2>3, <3>1 DEF Deactivate, Object, Statuses, Said
    <3>. QED  BY <1>1, <1>2, <2>1, <2>2, <2>3, <2>5, <3>2 DEF Changed
  <2>. QED  BY <1>2, <1>4, <2>4, <2>5
<1>. QED  BY <1>3, <1>4


LEMMA SendEffect ==
  ASSUME MemInv, NEW r \in Requests, Send(r) \/ SendFails(r)
  PROVE  /\ stage[r] \in Topics /\ event[r] \in Event
         /\ UNCHANGED <<store, heap, writers, call, object, event>>
         /\ log' = log \/ Arrives(r)
         /\ \/ /\ Arrives(r) /\ stage[r] = "integration"
               /\ stage' = [stage EXCEPT ![r] = "analytics"] /\ reply' = reply
            \/ /\ Arrives(r) /\ stage[r] = "analytics"
               /\ stage' = [stage EXCEPT ![r] = "done"]
               /\ reply' = [reply EXCEPT ![r] = SuccessCode(call[r].op)]
            \/ /\ stage' = [stage EXCEPT ![r] = "done"]
               /\ reply' = [reply EXCEPT ![r] = 500]
<1>1. event[r] \in Event
  BY DEF MemInv, BaseInv, StateType, EventInv, Send, SendFails
<1>. QED  BY <1>1 DEF Send, SendFails, Answer, Goto, Topics

LEMMA RangeOfLonger ==
  ASSUME NEW S, NEW u \in Seq(S), NEW e \in S
  PROVE  /\ Append(u, e) \in Seq(S)
         /\ Range(Append(u, e)) = Range(u) \cup {e}
<1>1. /\ Append(u, e) \in Seq(S) /\ Len(u) \in Nat
      /\ DOMAIN u = 1 .. Len(u) /\ DOMAIN Append(u, e) = 1 .. Len(u) + 1
      /\ \A i \in 1 .. Len(u) : Append(u, e)[i] = u[i]
      /\ Append(u, e)[Len(u) + 1] = e
  OBVIOUS
<1>2. ASSUME NEW x \in Range(Append(u, e)) PROVE x \in Range(u) \cup {e}
  <2>1. PICK i \in 1 .. Len(u) + 1 : x = Append(u, e)[i]
    BY <1>1 DEF Range
  <2>. QED  BY <1>1, <2>1 DEF Range
<1>3. ASSUME NEW x \in Range(u) \cup {e} PROVE x \in Range(Append(u, e))
  <2>1. CASE x \in Range(u)
    <3>1. PICK i \in 1 .. Len(u) : x = u[i]
      BY <1>1, <2>1 DEF Range
    <3>. QED  BY <1>1, <3>1 DEF Range
  <2>2. CASE x = e
    <3>1. Len(u) + 1 \in 1 .. Len(u) + 1
      BY <1>1
    <3>. QED  BY <1>1, <2>2, <3>1 DEF Range
  <2>. QED  BY <2>1, <2>2
<1>. QED  BY <1>1, <1>2, <1>3

(* A topic only grows, by the event of the request that sends. *)
LEMMA LogGrows ==
  ASSUME MemInv, NEW r \in Requests, stage[r] \in Topics, Arrives(r)
  PROVE  /\ log' \in [Topics -> Seq(Event)]
         /\ \A t \in Topics :
              Range(log'[t]) = IF t = stage[r] THEN Range(log[t]) \cup {event[r]}
                               ELSE Range(log[t])
<1>1. event[r] \in Event /\ log \in [Topics -> Seq(Event)]
  BY DEF MemInv, BaseInv, StateType, EventInv
<1>2. ASSUME NEW t \in Topics
      PROVE  /\ log'[t] = IF t = stage[r] THEN Append(log[t], event[r])
                          ELSE log[t]
             /\ log[t] \in Seq(Event)
             /\ Append(log[t], event[r]) \in Seq(Event)
             /\ Range(Append(log[t], event[r])) = Range(log[t]) \cup {event[r]}
  BY <1>1, RangeOfLonger DEF Arrives
<1>3. log' = [log EXCEPT ![stage[r]] = Append(@, event[r])]
  BY DEF Arrives
<1>4. log' \in [Topics -> Seq(Event)]
  BY <1>1, <1>2, <1>3
<1>. QED  BY <1>2, <1>4

LEMMA EventIsTyped ==
  ASSUME StateType, NEW r \in Requests, call[r] \in Call, NEW view \in Object
  PROVE  /\ EventOf(r, "Deactivated", Null) \in Event
         /\ \A type \in {"Created", "Updated"} :
              EventOf(r, type, Said(view)) \in Event
BY CallParts DEF EventOf, Said, Event, Object

(* Build makes the event of its request from one view of the object. *)
Built(r, e) ==
  /\ stage[r] = "build" /\ stage' = [stage EXCEPT ![r] = "integration"]
  /\ UNCHANGED <<store, heap, writers, call, object, log, reply>>
  /\ event' = [event EXCEPT ![r] = e]
  /\ e.by = r /\ e.path = call[r].path
  /\ e.type = "Deactivated" <=> call[r].op = "deactivate"
  /\ call[r].op # "deactivate" =>
       \E view \in Views(r, object[r]) : e.payload = Said(view)

LEMMA BuildEffect ==
  ASSUME MemInv, NEW r \in Requests, Build(r)
  PROVE  \E e \in Event : Built(r, e)
<1> USE DEF MemInv, BaseInv
<1>1. PICK view \in Views(r, object[r]) :
        event' = [event EXCEPT ![r] =
            IF call[r].op = "deactivate" THEN EventOf(r, "Deactivated", Null)
            ELSE EventOf(r, IF call[r].op = "define" THEN "Created" ELSE "Updated",
                         Said(view))]
  BY DEF Build
<1>2. /\ stage[r] = "build" /\ stage' = [stage EXCEPT ![r] = "integration"]
      /\ UNCHANGED <<store, heap, writers, call, object, log, reply>>
  BY DEF Build, Goto
<1>3. /\ call[r] \in Call /\ object[r] \in Requests /\ heap[object[r]] # Null
  BY <1>2 DEF StateType, SharedInv
<1>4. view \in Object
  BY <1>3, ViewIsObject
<1>5. CASE call[r].op = "deactivate"
  <2>1. EventOf(r, "Deactivated", Null) \in Event
    BY <1>3, <1>4, EventIsTyped
  <2>2. /\ EventOf(r, "Deactivated", Null).by = r
        /\ EventOf(r, "Deactivated", Null).path = call[r].path
        /\ EventOf(r, "Deactivated", Null).type = "Deactivated"
    BY DEF EventOf
  <2>. QED  BY <1>1, <1>2, <1>5, <2>1, <2>2 DEF Built
<1>6. CASE call[r].op # "deactivate"
  <2>1. PICK type \in {"Created", "Updated"} :
          event' = [event EXCEPT ![r] = EventOf(r, type, Said(view))]
    BY <1>1, <1>6
  <2>2. EventOf(r, type, Said(view)) \in Event
    BY <1>3, <1>4, EventIsTyped
  <2>3. /\ EventOf(r, type, Said(view)).by = r
        /\ EventOf(r, type, Said(view)).path = call[r].path
        /\ EventOf(r, type, Said(view)).type # "Deactivated"
        /\ EventOf(r, type, Said(view)).payload = Said(view)
    BY DEF EventOf
  <2>. QED  BY <1>2, <1>6, <2>1, <2>2, <2>3 DEF Built
<1>. QED  BY <1>5, <1>6

-----------------------------------------------------------------------------
(* The invariant is inductive *)

LEMMA TypesStep == MemInv /\ [Next]_vars => StateType'
<1> SUFFICES ASSUME MemInv, [Next]_vars PROVE StateType'
  OBVIOUS
<1> USE DEF MemInv, BaseInv
<1>1. ASSUME NEW r \in Requests, Find(r) PROVE StateType'
  <2>1. PICK c \in Call : Found(r, c)
    BY <1>1, FindEffect
  <2> USE DEF Found
  <2>2. store[c.path] \in Requests \cup {Null}
    BY CallParts DEF StateType
  <2>3. writers' \in [Requests -> SUBSET Requests]
    BY <2>1, <2>2 DEF StateType
  <2>4. reply' \in [Requests -> Codes \cup {Null}]
    BY <2>1 DEF StateType
  <2>5. /\ stage' \in [Requests -> Stages]
        /\ \A q \in Requests : stage'[q] # "new" => call'[q] \in Call
    BY <2>1 DEF StateType, Stages
  <2>. QED  BY <2>1, <2>2, <2>3, <2>4, <2>5 DEF StateType
<1>2. ASSUME NEW r \in Requests, Change(r) PROVE StateType'
  <2>1. PICK new \in Object : Changed(r, new)
    BY <1>2, ChangeEffect
  <2>. QED  BY <2>1 DEF Changed, StateType, Stages
<1>3. ASSUME NEW r \in Requests, Save(r) PROVE StateType'
  <2>1. object[r] \in Requests /\ call[r].path \in Paths
    BY <1>3, CallParts DEF Save, StateType, SharedInv
  <2>. QED  BY <1>3, <2>1 DEF Save, Goto, StateType, Stages
<1>4. ASSUME NEW r \in Requests, Build(r) PROVE StateType'
  <2>1. PICK e \in Event : Built(r, e)
    BY <1>4, BuildEffect
  <2>. QED  BY <2>1 DEF Built, StateType, Stages, Topics
<1>5. ASSUME NEW r \in Requests, Send(r) \/ SendFails(r) PROVE StateType'
  <2>1. log' \in [Topics -> Seq(Event)]
    BY <1>5, SendEffect, LogGrows DEF StateType
  <2>2. stage' \in [Requests -> Stages] /\ reply' \in [Requests -> Codes \cup {Null}]
    BY <1>5, SendEffect DEF StateType, Stages, Topics, SuccessCode, Codes
  <2>3. UNCHANGED <<store, heap, writers, call, object, event>>
    BY <1>5, SendEffect
  <2>4. stage[r] # "new" /\ \A q \in Requests : stage'[q] # "new" => stage[q] # "new"
    BY <1>5, SendEffect DEF StateType, Topics
  <2>. QED  BY <2>1, <2>2, <2>3, <2>4 DEF StateType
<1>6. CASE Restart
  BY <1>6 DEF Restart, StateType, Stages, Codes
<1>7. CASE UNCHANGED vars
  BY <1>7 DEF vars, StateType
<1>. QED  BY <1>1, <1>2, <1>3, <1>4, <1>5, <1>6, <1>7 DEF Next

LEMMA SharedStep == MemInv /\ [Next]_vars => SharedInv'
<1> SUFFICES ASSUME MemInv, [Next]_vars PROVE SharedInv'
  OBVIOUS
<1> USE DEF MemInv, BaseInv, StateType, SharedInv
<1>1. ASSUME NEW r \in Requests, Find(r) PROVE SharedInv'
  <2>1. PICK c \in Call : Found(r, c)
    BY <1>1, FindEffect
  <2> USE DEF Found
  <2>2. heap[r] = Null /\ object[r] = Null
    BY <2>1, Newcomer
  <2>3. store[c.path] # Null =>
          /\ store[c.path] \in Requests \ {r} /\ heap[store[c.path]] # Null
          /\ call[store[c.path]].path = c.path
    BY <2>2, CallParts
  <2>4. ASSUME NEW o \in Requests, heap'[o] # Null
        PROVE  stage'[o] \notin {"new", "change"} /\ call'[o].op = "define"
    BY <2>1, <2>2, <2>4
  <2>5. ASSUME NEW p \in Paths, store'[p] # Null
        PROVE  heap'[store'[p]] # Null /\ call'[store'[p]].path = p
    BY <2>1, <2>2, <2>5
  <2>6. ASSUME NEW q \in Requests, object'[q] # Null
        PROVE  /\ stage'[q] # "new" /\ heap'[object'[q]] # Null
               /\ call'[object'[q]].path = call'[q].path
    <3>1. CASE q = r
      BY <2>1, <2>3, <2>6, <3>1
    <3>2. CASE q # r
      BY <2>1, <2>2, <2>6, <3>2
    <3>. QED  BY <3>1, <3>2
  <2>7. ASSUME NEW q \in Requests
        PROVE  /\ stage'[q] \in {"save", "build"} \cup Topics => object'[q] # Null
               /\ stage'[q] = "change" /\ call'[q].op # "define"
                    => object'[q] # Null
    BY <2>1 DEF Topics
  <2>. QED  BY <2>4, <2>5, <2>6, <2>7
<1>2. ASSUME NEW r \in Requests, Change(r) PROVE SharedInv'
  <2>1. PICK new \in Object : Changed(r, new)
    BY <1>2, ChangeEffect
  <2>2. PICK o \in Requests :
          /\ object' = [object EXCEPT ![r] = o]
          /\ heap' = [heap EXCEPT ![o] = new]
          /\ IF call[r].op = "define"
             THEN o = r /\ heap[r] = Null
             ELSE o = object[r] /\ heap[o] # Null
    BY <2>1 DEF Changed
  <2>3. /\ stage[r] = "change" /\ stage' = [stage EXCEPT ![r] = "save"]
        /\ UNCHANGED <<store, call>>
    BY <2>1 DEF Changed
  <2>4. /\ \A x \in Requests : x # o => heap'[x] = heap[x]
        /\ heap'[o] = new /\ new # Null
        /\ \A q \in Requests : q # r => object'[q] = object[q] /\ stage'[q] = stage[q]
        /\ object'[r] = o /\ stage'[r] = "save"
    BY <2>2, <2>3, MemoryAssumption
  <2>5. ASSUME NEW x \in Requests, heap'[x] # Null
        PROVE  stage'[x] \notin {"new", "change"} /\ call'[x].op = "define"
    BY <2>2, <2>3, <2>4, <2>5
  <2>6. ASSUME NEW p \in Paths, store'[p] # Null
        PROVE  heap'[store'[p]] # Null /\ call'[store'[p]].path = p
    BY <2>3, <2>4, <2>6
  <2>7. ASSUME NEW q \in Requests, object'[q] # Null
        PROVE  /\ stage'[q] # "new" /\ heap'[object'[q]] # Null
               /\ call'[object'[q]].path = call'[q].path
    <3>1. CASE q = r
      BY <2>2, <2>3, <2>4, <3>1
    <3>2. CASE q # r
      BY <2>3, <2>4, <2>7, <3>2
    <3>. QED  BY <3>1, <3>2
  <2>8. ASSUME NEW q \in Requests
        PROVE  /\ stage'[q] \in {"save", "build"} \cup Topics => object'[q] # Null
               /\ stage'[q] = "change" /\ call'[q].op # "define"
                    => object'[q] # Null
    BY <2>3, <2>4, MemoryAssumption DEF Topics
  <2>. QED  BY <2>5, <2>6, <2>7, <2>8
<1>3. ASSUME NEW r \in Requests, Save(r) PROVE SharedInv'
  <2>1. /\ stage[r] = "save" /\ stage' = [stage EXCEPT ![r] = "build"]
        /\ store' = [store EXCEPT ![call[r].path] = object[r]]
        /\ UNCHANGED <<heap, call, object>>
    BY <1>3 DEF Save, Goto
  <2>2. /\ object[r] \in Requests /\ heap[object[r]] # Null
        /\ call[object[r]].path = call[r].path
    BY <2>1
  <2>. QED  BY <2>1, <2>2 DEF Topics
<1>4. ASSUME NEW r \in Requests, Build(r) PROVE SharedInv'
  <2>1. PICK e \in Event : Built(r, e)
    BY <1>4, BuildEffect
  <2>. QED  BY <2>1 DEF Built, Topics
<1>5. ASSUME NEW r \in Requests, Send(r) \/ SendFails(r) PROVE SharedInv'
  BY <1>5, SendEffect DEF Topics
<1>6. CASE Restart
  BY <1>6 DEF Restart, Topics
<1>7. CASE UNCHANGED vars
  BY <1>7 DEF vars
<1>. QED  BY <1>1, <1>2, <1>3, <1>4, <1>5, <1>6, <1>7 DEF Next

LEMMA WritersStep == MemInv /\ [Next]_vars => WritersInv'
<1> SUFFICES ASSUME MemInv, [Next]_vars PROVE WritersInv'
  OBVIOUS
<1> USE DEF MemInv, BaseInv, StateType, WritersInv
<1>1. ASSUME NEW r \in Requests, Find(r) PROVE WritersInv'
  <2>1. PICK c \in Call : Found(r, c)
    BY <1>1, FindEffect
  <2> USE DEF Found
  <2>2. /\ \A q \in Requests \ {r} : /\ stage'[q] = stage[q] /\ call'[q] = call[q]
                                     /\ object'[q] = object[q]
        /\ stage'[r] # "new" /\ call'[r] = c /\ object'[r] = store[c.path]
    BY <2>1
  <2>3. ASSUME NEW o \in Requests PROVE writers'[o] \subseteq writers[o] \cup {r}
    BY <2>1
  <2>4. ASSUME NEW o \in Requests, NEW q \in writers'[o]
        PROVE  stage'[q] # "new" /\ call'[q] \in Call
    BY <2>2, <2>3
  <2>5. ASSUME NEW q \in Requests, stage'[q] = "change", call'[q].op = "revise"
        PROVE  q \in writers'[object'[q]]
    <3>1. CASE q = r
      <4>1. store[c.path] \in Requests
        BY <2>1, <2>2, <2>5, <3>1, CallParts
      <4>. QED  BY <2>1, <2>2, <2>5, <3>1, <4>1
    <3>2. CASE q # r
      <4>1. /\ q \in writers[object[q]] /\ object[q] \in Requests
        BY <2>2, <2>5, <3>2 DEF SharedInv
      <4>2. q \in Revising(object[q])
        BY <2>2, <2>5, <3>2 DEF Revising
      <4>3. writers[object[q]] \subseteq writers'[object[q]]
        <5>1. CASE object[q] = store[c.path]
          <6>1. Revising(store[c.path]) # {}
            BY <4>2, <5>1
          <6>. QED  BY <2>1, <4>1, <5>1, <6>1
        <5>2. CASE object[q] # store[c.path]
          BY <2>1, <4>1, <5>2
        <5>. QED  BY <5>1, <5>2
      <4>. QED  BY <2>2, <3>2, <4>1, <4>3
    <3>. QED  BY <3>1, <3>2
  <2>. QED  BY <2>4, <2>5
<1>2. ASSUME NEW r \in Requests, Change(r) PROVE WritersInv'
  <2>1. PICK new \in Object : Changed(r, new)
    BY <1>2, ChangeEffect
  <2>. QED  BY <2>1 DEF Changed
<1>3. ASSUME NEW r \in Requests, Save(r) PROVE WritersInv'
  BY <1>3 DEF Save, Goto
<1>4. ASSUME NEW r \in Requests, Build(r) PROVE WritersInv'
  <2>1. PICK e \in Event : Built(r, e)
    BY <1>4, BuildEffect
  <2>. QED  BY <2>1 DEF Built
<1>5. ASSUME NEW r \in Requests, Send(r) \/ SendFails(r) PROVE WritersInv'
  BY <1>5, SendEffect DEF Topics
<1>6. CASE Restart
  BY <1>6 DEF Restart
<1>7. CASE UNCHANGED vars
  BY <1>7 DEF vars
<1>. QED  BY <1>1, <1>2, <1>3, <1>4, <1>5, <1>6, <1>7 DEF Next

LEMMA UnderWayStep == MemInv /\ [Next]_vars => UnderWay'
<1> SUFFICES ASSUME MemInv, [Next]_vars PROVE UnderWay'
  OBVIOUS
<1> USE DEF MemInv, BaseInv, StateType, UnderWay
<1>1. ASSUME NEW r \in Requests, Find(r) PROVE UnderWay'
  <2>1. PICK c \in Call : Found(r, c)
    BY <1>1, FindEffect
  <2>. QED  BY <2>1 DEF Found, Topics
<1>2. ASSUME NEW r \in Requests, Change(r) PROVE UnderWay'
  <2>1. PICK new \in Object : Changed(r, new)
    BY <1>2, ChangeEffect
  <2>2. PICK o \in Requests :
          /\ object' = [object EXCEPT ![r] = o]
          /\ heap' = [heap EXCEPT ![o] = new]
          /\ IF call[r].op = "define"
             THEN o = r /\ heap[r] = Null ELSE o = object[r]
          /\ call[r].op = "revise" => new.status = heap[o].status
          /\ call[r].op = "deactivate" => new.status = "DEACTIVATED"
    BY <2>1 DEF Changed
  <2>3. /\ stage[r] = "change" /\ stage' = [stage EXCEPT ![r] = "save"]
        /\ UNCHANGED <<store, call>>
        /\ call[r].op \in {"define", "revise", "deactivate"}
    BY <2>1, CallParts DEF Changed
  <2>4. ASSUME NEW q \in Requests, stage'[q] \in {"build"} \cup Topics
        PROVE  store'[call'[q].path] # Null
    BY <2>3, <2>4 DEF Topics
  <2>5. ASSUME NEW q \in Requests, stage'[q] \in {"save", "build"} \cup Topics,
               call'[q].op = "deactivate"
        PROVE  heap'[object'[q]].status = "DEACTIVATED"
    <3>1. CASE q = r
      BY <2>2, <2>3, <2>5, <3>1
    <3>2. CASE q # r
      <4>1. /\ stage[q] \in {"save", "build"} \cup Topics
            /\ call[q].op = "deactivate" /\ object'[q] = object[q]
        BY <2>2, <2>3, <2>5, <3>2
      <4>2. /\ object[q] \in Requests /\ heap[object[q]] # Null
            /\ heap[object[q]].status = "DEACTIVATED"
        BY <4>1 DEF SharedInv
      <4>. QED  BY <2>2, <2>3, <4>1, <4>2
    <3>. QED  BY <3>1, <3>2
  <2>. QED  BY <2>4, <2>5
<1>3. ASSUME NEW r \in Requests, Save(r) PROVE UnderWay'
  <2>1. /\ stage[r] = "save" /\ stage' = [stage EXCEPT ![r] = "build"]
        /\ store' = [store EXCEPT ![call[r].path] = object[r]]
        /\ UNCHANGED <<heap, call, object>>
    BY <1>3 DEF Save, Goto
  <2>2. object[r] # Null
    BY <2>1 DEF SharedInv
  <2>3. \A q \in Requests : stage[q] # "new" => call[q].path \in Paths
    BY CallParts
  <2>. QED  BY <2>1, <2>2, <2>3 DEF Topics
<1>4. ASSUME NEW r \in Requests, Build(r) PROVE UnderWay'
  <2>1. PICK e \in Event : Built(r, e)
    BY <1>4, BuildEffect
  <2>. QED  BY <2>1 DEF Built, Topics
<1>5. ASSUME NEW r \in Requests, Send(r) \/ SendFails(r) PROVE UnderWay'
  BY <1>5, SendEffect DEF Topics
<1>6. CASE Restart
  BY <1>6 DEF Restart, Topics
<1>7. CASE UNCHANGED vars
  BY <1>7 DEF vars
<1>. QED  BY <1>1, <1>2, <1>3, <1>4, <1>5, <1>6, <1>7 DEF Next

LEMMA EventStep == MemInv /\ [Next]_vars => EventInv'
<1> SUFFICES ASSUME MemInv, [Next]_vars PROVE EventInv'
  OBVIOUS
<1> USE DEF MemInv, BaseInv, StateType, EventInv
<1>1. ASSUME NEW r \in Requests, Find(r) PROVE EventInv'
  <2>1. PICK c \in Call : Found(r, c)
    BY <1>1, FindEffect
  <2>2. event[r] = Null
    BY <2>1, Newcomer DEF Found
  <2>. QED  BY <2>1, <2>2 DEF Found, Topics
<1>2. ASSUME NEW r \in Requests, Change(r) PROVE EventInv'
  <2>1. PICK new \in Object : Changed(r, new)
    BY <1>2, ChangeEffect
  <2>. QED  BY <2>1 DEF Changed, Topics
<1>3. ASSUME NEW r \in Requests, Save(r) PROVE EventInv'
  BY <1>3 DEF Save, Goto, Topics
<1>4. ASSUME NEW r \in Requests, Build(r) PROVE EventInv'
  <2>1. PICK e \in Event : Built(r, e)
    BY <1>4, BuildEffect
  <2>. QED  BY <2>1, MemoryAssumption DEF Built, Topics
<1>5. ASSUME NEW r \in Requests, Send(r) \/ SendFails(r) PROVE EventInv'
  BY <1>5, SendEffect DEF Topics, SuccessCode
<1>6. CASE Restart
  <2>1. ASSUME NEW r \in Requests
        PROVE  /\ stage'[r] = IF stage[r] = "new" THEN "new" ELSE "done"
               /\ reply'[r] = IF stage[r] \in {"new", "done"} THEN reply[r] ELSE 500
               /\ UNCHANGED <<event, call>>
    BY <1>6 DEF Restart
  <2>. QED  BY <2>1 DEF Topics
<1>7. CASE UNCHANGED vars
  BY <1>7 DEF vars
<1>. QED  BY <1>1, <1>2, <1>3, <1>4, <1>5, <1>6, <1>7 DEF Next

LEMMA LogStep == MemInv /\ [Next]_vars => LogInv'
<1> SUFFICES ASSUME MemInv, [Next]_vars PROVE LogInv'
  OBVIOUS
<1> USE DEF MemInv, BaseInv, LogInv
<1>1. ASSUME UNCHANGED <<log, event>>,
             \A q \in Requests : stage'[q] = "analytics" => stage[q] = "analytics"
      PROVE  LogInv'
  BY <1>1
<1>2. ASSUME NEW r \in Requests, Find(r) PROVE LogInv'
  <2>1. PICK c \in Call : Found(r, c)
    BY <1>2, FindEffect
  <2>. QED  BY <1>1, <2>1 DEF Found, StateType
<1>3. ASSUME NEW r \in Requests, Change(r) PROVE LogInv'
  <2>1. PICK new \in Object : Changed(r, new)
    BY <1>3, ChangeEffect
  <2>. QED  BY <1>1, <2>1 DEF Changed, StateType
<1>4. ASSUME NEW r \in Requests, Save(r) PROVE LogInv'
  BY <1>1, <1>4 DEF Save, Goto, StateType
<1>5. ASSUME NEW r \in Requests, Build(r) PROVE LogInv'
  <2>1. PICK e \in Event : Built(r, e)
    BY <1>5, BuildEffect
  <2>2. event[r] = Null /\ log' = log
    BY <2>1 DEF Built, EventInv, Topics
  <2>3. \A t \in Topics : \A f \in Range(log[t]) :
          f \in Event /\ f # Null /\ f.by \in Requests /\ event[f.by] = f
    <3>1. \A t \in Topics : \A f \in Range(log[t]) : f \in Event
      BY DEF StateType, Range
    <3>. QED  BY <3>1, MemoryAssumption DEF Event
  <2>4. \A q \in Requests : q # r => event'[q] = event[q]
    BY <2>1 DEF Built, StateType
  <2>5. \A t \in Topics : \A f \in Range(log'[t]) : event'[f.by] = f
    BY <2>2, <2>3, <2>4
  <2>6. ASSUME NEW q \in Requests, stage'[q] = "analytics"
        PROVE  event'[q] \in Range(log'["integration"])
    BY <2>1, <2>2, <2>4, <2>6 DEF Built, StateType
  <2>. QED  BY <2>5, <2>6
<1>6. ASSUME NEW r \in Requests, Send(r) \/ SendFails(r) PROVE LogInv'
  <2>1. /\ stage[r] \in Topics /\ event' = event
        /\ event[event[r].by] = event[r]
    BY <1>6, SendEffect DEF EventInv
  <2>2. \A t \in Topics :
          Range(log'[t]) \subseteq Range(log[t]) \cup {event[r]}
          /\ Range(log[t]) \subseteq Range(log'[t])
    BY <1>6, <2>1, SendEffect, LogGrows
  <2>3. \A t \in Topics : \A f \in Range(log'[t]) : event'[f.by] = f
    BY <2>1, <2>2
  <2>4. ASSUME NEW q \in Requests, stage'[q] = "analytics"
        PROVE  event'[q] \in Range(log'["integration"])
    <3>1. CASE stage[q] = "analytics"
      BY <2>1, <2>2, <3>1 DEF Topics
    <3>2. CASE stage[q] # "analytics"
      <4>1. q = r /\ Arrives(r) /\ stage[r] = "integration"
        BY <1>6, <2>4, <3>2, SendEffect DEF StateType, Topics
      <4>. QED  BY <2>1, <4>1, LogGrows DEF Topics
    <3>. QED  BY <3>1, <3>2
  <2>. QED  BY <2>3, <2>4
<1>7. CASE Restart
  BY <1>1, <1>7 DEF Restart
<1>8. CASE UNCHANGED vars
  BY <1>1, <1>8 DEF vars
<1>. QED  BY <1>2, <1>3, <1>4, <1>5, <1>6, <1>7, <1>8 DEF Next

LEMMA FanOutStep == MemInv /\ [Next]_vars => FanOutIsFailFast'
<1> SUFFICES ASSUME MemInv, [Next]_vars PROVE FanOutIsFailFast'
  OBVIOUS
<1> USE DEF MemInv, BaseInv
<1> DEFINE Success == {200, 201, 204}
<1>1. ASSUME UNCHANGED <<log, event>>,
             \A q \in Requests :
               reply'[q] \in Success /\ event[q] # Null => reply[q] = reply'[q]
      PROVE  FanOutIsFailFast'
  BY <1>1 DEF FanOutIsFailFast
<1>2. ASSUME NEW r \in Requests, Find(r) PROVE FanOutIsFailFast'
  <2>1. PICK c \in Call : Found(r, c)
    BY <1>2, FindEffect
  <2>2. event[r] = Null
    BY <2>1, Newcomer DEF Found
  <2>. QED  BY <1>1, <2>1, <2>2 DEF Found, StateType
<1>3. ASSUME NEW r \in Requests, Change(r) PROVE FanOutIsFailFast'
  <2>1. PICK new \in Object : Changed(r, new)
    BY <1>3, ChangeEffect
  <2>. QED  BY <1>1, <2>1 DEF Changed
<1>4. ASSUME NEW r \in Requests, Save(r) PROVE FanOutIsFailFast'
  BY <1>1, <1>4 DEF Save
<1>5. ASSUME NEW r \in Requests, Build(r) PROVE FanOutIsFailFast'
  <2>1. PICK e \in Event : Built(r, e)
    BY <1>5, BuildEffect
  <2>2. reply[r] = Null /\ reply' = reply /\ log' = log
        /\ \A q \in Requests : q # r => event'[q] = event[q]
    BY <2>1 DEF Built, EventInv, StateType
  <2>3. Null \notin Success
    BY MemoryAssumption DEF Codes
  <2>. QED  BY <2>2, <2>3 DEF FanOutIsFailFast
<1>6. ASSUME NEW r \in Requests, Send(r) \/ SendFails(r) PROVE FanOutIsFailFast'
  <2>1. /\ stage[r] \in Topics /\ event' = event
    BY <1>6, SendEffect
  <2>2. \A t \in Topics : Range(log[t]) \subseteq Range(log'[t])
    BY <1>6, <2>1, SendEffect, LogGrows
  <2>3. Range(log'["analytics"]) \subseteq Range(log'["integration"])
    <3>1. CASE log' = log
      BY <3>1 DEF FanOutIsFailFast
    <3>2. CASE Arrives(r) /\ stage[r] = "integration"
      <4>1. Range(log'["analytics"]) = Range(log["analytics"])
        BY <3>2, LogGrows DEF Topics
      <4>. QED  BY <2>2, <4>1 DEF FanOutIsFailFast, Topics
    <3>3. CASE Arrives(r) /\ stage[r] = "analytics"
      <4>1. Range(log'["analytics"]) = Range(log["analytics"]) \cup {event[r]}
        BY <3>3, LogGrows DEF Topics
      <4>2. event[r] \in Range(log["integration"])
        BY <3>3 DEF LogInv
      <4>. QED  BY <2>2, <4>1, <4>2 DEF FanOutIsFailFast, Topics
    <3>. QED  BY <1>6, <2>1, <3>1, <3>2, <3>3, SendEffect DEF Topics
  <2>4. ASSUME NEW q \in Requests, reply'[q] \in Success, event'[q] # Null,
               NEW t \in Topics
        PROVE  event'[q] \in Range(log'[t])
    <3>1. CASE reply[q] = reply'[q]
      BY <2>1, <2>2, <2>4, <3>1 DEF FanOutIsFailFast
    <3>2. CASE reply[q] # reply'[q]
      <4>1. q = r /\ Arrives(r) /\ stage[r] = "analytics"
        BY <1>6, <2>4, <3>2, SendEffect DEF StateType
      <4>2. event[r] \in Range(log["integration"])
        BY <4>1 DEF LogInv
      <4>3. event[r] \in Range(log'["analytics"])
        BY <4>1, LogGrows DEF Topics
      <4>. QED  BY <2>1, <2>2, <4>1, <4>2, <4>3 DEF Topics
    <3>. QED  BY <3>1, <3>2
  <2>. QED  BY <2>3, <2>4 DEF FanOutIsFailFast
<1>7. CASE Restart
  BY <1>1, <1>7 DEF Restart, StateType
<1>8. CASE UNCHANGED vars
  BY <1>1, <1>8 DEF vars
<1>. QED  BY <1>2, <1>3, <1>4, <1>5, <1>6, <1>7, <1>8 DEF Next


(* A step that leaves the objects, and the witnesses of an object, alone.  *)
LEMMA CoverKept ==
  ASSUME MemInv, UNCHANGED <<heap, object>>,
         \A q \in Requests : stage[q] # "new" =>
           /\ call'[q] = call[q]
           /\ event[q] # Null => event'[q] = event[q]
           /\ stage[q] = "change" => stage'[q] = "change"
           /\ stage[q] \in {"save", "build"} => stage'[q] \in {"save", "build"}
  PROVE  CoverInv'
<1> USE DEF MemInv, BaseInv
<1> SUFFICES ASSUME NEW o \in Requests, heap[o] # Null
             PROVE  /\ Covered(o)'
                    /\ heap[o].status = "DEACTIVATED" => Buried(o)'
  BY DEF CoverInv
<1>1. stage[o] # "new" /\ call'[o] = call[o]
  BY DEF SharedInv
<1>2. \A w \in Requests : object[w] # Null \/ event[w] # Null => stage[w] # "new"
  BY DEF SharedInv, EventInv, Topics
<1>3. o # Null
  BY MemoryAssumption
<1>4. Covered(o)'
  <2>1. CASE \E w \in Requests :
               /\ object[w] = o /\ call[w].op = "revise" /\ stage[w] = "change"
    BY <1>2, <1>3, <2>1 DEF Covered
  <2>2. CASE \E w \in Requests :
               /\ object[w] = o /\ call[w].op # "deactivate"
               /\ stage[w] \in {"save", "build"}
    BY <1>2, <1>3, <2>2 DEF Covered
  <2>3. CASE \E w \in Requests :
               /\ event[w] # Null /\ event[w].path = call[o].path
               /\ event[w].payload = Said(heap[o])
    BY <1>1, <1>2, <2>3 DEF Covered
  <2>. QED  BY <2>1, <2>2, <2>3 DEF CoverInv, Covered
<1>5. heap[o].status = "DEACTIVATED" => Buried(o)'
  BY <1>2, <1>3 DEF CoverInv, Buried
<1>. QED  BY <1>4, <1>5

LEMMA CoverStep == MemInv /\ [Next]_vars => CoverInv'
<1> SUFFICES ASSUME MemInv, [Next]_vars PROVE CoverInv'
  OBVIOUS
<1> USE DEF MemInv, BaseInv, StateType
<1>1. ASSUME NEW r \in Requests, Find(r) PROVE CoverInv'
  <2>1. PICK c \in Call : Found(r, c)
    BY <1>1, FindEffect
  <2>2. /\ stage[r] = "new" /\ heap[r] = Null /\ object[r] = Null
        /\ UNCHANGED <<heap, event>>
        /\ \A q \in Requests : q # r =>
             /\ stage'[q] = stage[q] /\ call'[q] = call[q]
             /\ object'[q] = object[q]
    BY <2>1, Newcomer DEF Found
  <2> SUFFICES ASSUME NEW o \in Requests, heap[o] # Null
               PROVE  /\ Covered(o)'
                      /\ heap[o].status = "DEACTIVATED" => Buried(o)'
    BY <2>2 DEF CoverInv
  <2>3. o # Null /\ o # r /\ event[r] = Null
    BY <2>2, MemoryAssumption, Newcomer
  <2>4. Covered(o)'
    <3>1. CASE \E w \in Requests :
                 /\ object[w] = o /\ call[w].op = "revise" /\ stage[w] = "change"
      BY <2>2, <2>3, <3>1 DEF Covered
    <3>2. CASE \E w \in Requests :
                 /\ object[w] = o /\ call[w].op # "deactivate"
                 /\ stage[w] \in {"save", "build"}
      BY <2>2, <2>3, <3>2 DEF Covered
    <3>3. CASE \E w \in Requests :
                 /\ event[w] # Null /\ event[w].path = call[o].path
                 /\ event[w].payload = Said(heap[o])
      BY <2>2, <2>3, <3>3 DEF Covered
    <3>. QED  BY <3>1, <3>2, <3>3 DEF CoverInv, Covered
  <2>5. ASSUME heap[o].status = "DEACTIVATED" PROVE Buried(o)'
    <3>1. PICK w \in Requests :
            /\ object[w] = o /\ call[w].op = "deactivate"
            /\ stage[w] \in {"save", "build"} \/ event[w] # Null
      BY <2>5 DEF CoverInv, Buried
    <3>. QED  BY <2>2, <2>3, <3>1 DEF Buried
  <2>. QED  BY <2>4, <2>5
<1>2. ASSUME NEW r \in Requests, Change(r) PROVE CoverInv'
  <2>1. PICK new \in Object : Changed(r, new)
    BY <1>2, ChangeEffect
  <2>2. PICK o \in Requests :
          /\ object' = [object EXCEPT ![r] = o]
          /\ heap' = [heap EXCEPT ![o] = new]
          /\ IF call[r].op = "define"
             THEN o = r /\ heap[r] = Null /\ new.status = "ACTIVE"
             ELSE o = object[r] /\ heap[o] # Null
          /\ call[r].op = "revise" => new.status = heap[o].status
          /\ call[r].op = "deactivate" =>
               new.status = "DEACTIVATED" /\ Said(new) = Said(heap[o])
    BY <2>1 DEF Changed
  <2>3. /\ stage[r] = "change" /\ stage' = [stage EXCEPT ![r] = "save"]
        /\ UNCHANGED <<store, call, event>>
        /\ call[r].op \in {"define", "revise", "deactivate"}
    BY <2>1, CallParts DEF Changed
  <2>4. /\ \A x \in Requests : x # o => heap'[x] = heap[x]
        /\ heap'[o] = new
        /\ \A q \in Requests : q # r => object'[q] = object[q] /\ stage'[q] = stage[q]
        /\ object'[r] = o /\ stage'[r] = "save"
        /\ call[r].op # "define" => object[r] = o
        /\ call[r].op = "define" =>
             heap[o] = Null /\ (object[r] # Null => object[r] # o)
    BY <2>2, <2>3 DEF SharedInv
  <2>5. event[r] = Null
    BY <2>3 DEF EventInv, Topics
  (* The object r has changed is covered by r, or as before by the others. *)
  <2>6. Covered(o)' /\ (new.status = "DEACTIVATED" => Buried(o)')
    <3>1. CASE call[r].op = "define" \/ call[r].op = "revise"
      <4>1. Covered(o)'
        BY <2>3, <2>4, <3>1 DEF Covered
      <4>2. ASSUME new.status = "DEACTIVATED" PROVE Buried(o)'
        <5>1. heap[o] # Null /\ heap[o].status = "DEACTIVATED"
          BY <2>2, <3>1, <4>2
        <5>2. PICK w \in Requests :
                /\ object[w] = o /\ call[w].op = "deactivate"
                /\ stage[w] \in {"save", "build"} \/ event[w] # Null
          BY <5>1 DEF CoverInv, Buried
        <5>. QED  BY <2>3, <2>4, <3>1, <5>2 DEF Buried
      <4>. QED  BY <4>1, <4>2
    <3>2. CASE call[r].op = "deactivate"
      <4>1. Buried(o)'
        BY <2>3, <2>4, <3>2 DEF Buried
      <4>2. Covered(o)'
        <5>1. Covered(o)
          BY <2>2, <3>2 DEF CoverInv
        <5>2. CASE \E w \in Requests :
                     /\ object[w] = o /\ call[w].op = "revise"
                     /\ stage[w] = "change"
          BY <2>3, <2>4, <3>2, <5>2 DEF Covered
        <5>3. CASE \E w \in Requests :
                     /\ object[w] = o /\ call[w].op # "deactivate"
                     /\ stage[w] \in {"save", "build"}
          BY <2>3, <2>4, <3>2, <5>3 DEF Covered
        <5>4. CASE \E w \in Requests :
                     /\ event[w] # Null /\ event[w].path = call[o].path
                     /\ event[w].payload = Said(heap[o])
          BY <2>2, <2>3, <2>4, <3>2, <5>4 DEF Covered
        <5>. QED  BY <5>1, <5>2, <5>3, <5>4 DEF Covered
      <4>. QED  BY <4>1, <4>2
    <3>. QED  BY <2>3, <3>1, <3>2
  (* Every other object is as it was, and r never was its witness. *)
  <2>7. ASSUME NEW x \in Requests, x # o, heap[x] # Null
        PROVE  Covered(x)' /\ (heap[x].status = "DEACTIVATED" => Buried(x)')
    <3>1. Covered(x)'
      <4>1. CASE \E w \in Requests :
                   /\ object[w] = x /\ call[w].op = "revise" /\ stage[w] = "change"
        BY <2>3, <2>4, <2>7, <4>1 DEF Covered
      <4>2. CASE \E w \in Requests :
                   /\ object[w] = x /\ call[w].op # "deactivate"
                   /\ stage[w] \in {"save", "build"}
        BY <2>3, <2>4, <2>7, <4>2 DEF Covered
      <4>3. CASE \E w \in Requests :
                   /\ event[w] # Null /\ event[w].path = call[x].path
                   /\ event[w].payload = Said(heap[x])
        BY <2>3, <2>4, <2>7, <4>3 DEF Covered
      <4>. QED  BY <2>7, <4>1, <4>2, <4>3 DEF CoverInv, Covered
    <3>2. ASSUME heap[x].status = "DEACTIVATED" PROVE Buried(x)'
      <4>1. PICK w \in Requests :
              /\ object[w] = x /\ call[w].op = "deactivate"
              /\ stage[w] \in {"save", "build"} \/ event[w] # Null
        BY <2>7, <3>2 DEF CoverInv, Buried
      <4>. QED  BY <2>3, <2>4, <2>5, <2>7, <4>1 DEF Buried
    <3>. QED  BY <3>1, <3>2
  <2>. QED  BY <2>4, <2>6, <2>7 DEF CoverInv
<1>3. ASSUME NEW r \in Requests, Save(r) PROVE CoverInv'
  BY <1>3, CoverKept DEF Save, Goto
<1>4. ASSUME NEW r \in Requests, Build(r) PROVE CoverInv'
  <2>1. PICK e \in Event : Built(r, e)
    BY <1>4, BuildEffect
  <2>2. /\ stage[r] = "build" /\ stage' = [stage EXCEPT ![r] = "integration"]
        /\ UNCHANGED <<heap, call, object>>
        /\ event' = [event EXCEPT ![r] = e]
        /\ e # Null /\ e.path = call[r].path
        /\ event[r] = Null /\ object[r] \in Requests /\ heap[object[r]] # Null
        /\ call[object[r]].path = call[r].path
    BY <2>1, MemoryAssumption DEF Built, EventInv, SharedInv, Topics
  <2> SUFFICES ASSUME NEW o \in Requests, heap[o] # Null
               PROVE  /\ Covered(o)'
                      /\ heap[o].status = "DEACTIVATED" => Buried(o)'
    BY <2>2 DEF CoverInv
  <2>3. Covered(o)'
    <3>1. CASE \E w \in Requests :
                 /\ object[w] = o /\ call[w].op = "revise" /\ stage[w] = "change"
      BY <2>2, <3>1 DEF Covered
    <3>2. CASE \E w \in Requests \ {r} :
                 /\ object[w] = o /\ call[w].op # "deactivate"
                 /\ stage[w] \in {"save", "build"}
      BY <2>2, <3>2 DEF Covered
    <3>3. CASE object[r] = o /\ call[r].op # "deactivate"
      <4>1. PICK view \in Views(r, o) : e.payload = Said(view)
        BY <2>1, <3>3 DEF Built
      <4>2. CASE Revising(o) \ {r} = {}
        <5>1. view = heap[o]
          BY <4>1, <4>2 DEF Views
        <5>2. event'[r] = e
          BY <2>2
        <5>. QED  BY <2>2, <3>3, <4>1, <5>1, <5>2 DEF Covered
      <4>3. CASE Revising(o) \ {r} # {}
        <5>1. PICK w \in Requests \ {r} :
                /\ object[w] = o /\ call[w].op = "revise" /\ stage[w] = "change"
          BY <4>3 DEF Revising
        <5>. QED  BY <2>2, <5>1 DEF Covered
      <4>. QED  BY <4>2, <4>3
    <3>4. CASE \E w \in Requests :
                 /\ event[w] # Null /\ event[w].path = call[o].path
                 /\ event[w].payload = Said(heap[o])
      BY <2>2, <3>4 DEF Covered
    <3>. QED  BY <3>1, <3>2, <3>3, <3>4 DEF CoverInv, Covered
  <2>4. ASSUME heap[o].status = "DEACTIVATED" PROVE Buried(o)'
    <3>1. PICK w \in Requests :
            /\ object[w] = o /\ call[w].op = "deactivate"
            /\ stage[w] \in {"save", "build"} \/ event[w] # Null
      BY <2>4 DEF CoverInv, Buried
    <3>. QED  BY <2>2, <3>1 DEF Buried
  <2>. QED  BY <2>3, <2>4
<1>5. ASSUME NEW r \in Requests, Send(r) \/ SendFails(r) PROVE CoverInv'
  BY <1>5, SendEffect, CoverKept DEF Topics
<1>6. CASE Restart
  BY <1>6 DEF Restart, CoverInv
<1>7. CASE UNCHANGED vars
  BY <1>7, CoverKept DEF vars
<1>. QED  BY <1>1, <1>2, <1>3, <1>4, <1>5, <1>6, <1>7 DEF Next

LEMMA MemInvStep == MemInv /\ [Next]_vars => MemInv'
BY TypesStep, SharedStep, WritersStep, UnderWayStep, EventStep, LogStep,
   FanOutStep, CoverStep
DEF MemInv, BaseInv

LEMMA MemInvAlways == Spec => []MemInv
<1>1. Init => MemInv
  BY MemInvInit
<1>2. MemInv /\ [Next]_vars => MemInv'
  BY MemInvStep
<1>. QED  BY <1>1, <1>2, PTL DEF Spec

-----------------------------------------------------------------------------
(* What the runs check *)

(* The types of the objects, requests and topics, for any number of        *)
(* requests: a topic holds nothing but the events of its requests, and the *)
(* store no pointer to an object that was never made.                      *)
THEOREM MemoryTypeCorrect == Spec => []TypeOK
<1>1. MemInv => TypeOK
  <2> SUFFICES ASSUME MemInv PROVE TypeOK
    OBVIOUS
  <2> USE DEF MemInv, BaseInv, StateType
  <2>1. ASSUME NEW t \in Topics PROVE log[t] \in Seq(Range(event))
    <3>1. \A e \in Range(log[t]) : e \in Event /\ e.by \in Requests
      <4>1. \A e \in Range(log[t]) : e \in Event
        BY DEF Range
      <4>. QED  BY <4>1 DEF Event
    <3>2. \A e \in Range(log[t]) : e \in Range(event)
      BY <3>1 DEF LogInv, Range
    <3>3. log[t] \in Seq(Event)
      OBVIOUS
    <3>4. \A i \in 1 .. Len(log[t]) : log[t][i] \in Range(log[t])
      BY <3>3 DEF Range
    <3>5. \A i \in 1 .. Len(log[t]) : log[t][i] \in Range(event)
      BY <3>2, <3>4
    <3>. QED  BY <3>3, <3>5
  <2>2. log \in [Topics -> Seq(Range(event))]
    BY <2>1
  <2>. QED  BY <2>2 DEF TypeOK, SharedInv
<1>. QED  BY <1>1, MemInvAlways, PTL

(* "an analytics-publish failure is never silently swallowed behind an     *)
(* earlier publisher's success", however many requests interleave, fail or *)
(* are cut short by a restart.                                             *)
THEOREM FanOutAlwaysFailsFast == Spec => []FanOutIsFailFast
<1>1. MemInv => FanOutIsFailFast
  BY DEF MemInv
<1>. QED  BY <1>1, MemInvAlways, PTL

(* Although the requests share the objects and read them while others      *)
(* write: when all have been answered and none failed, what the store      *)
(* holds has been announced on both topics.                                *)
THEOREM StoredWasAnnounced == Spec => []StoredIsAnnounced
<1>1. MemInv => StoredIsAnnounced
  <2> SUFFICES ASSUME MemInv,
                      \A r \in Requests : stage[r] \in {"new", "done"} /\ reply[r] # 500,
                      NEW p \in Paths, NEW t \in Topics, store[p] # Null
               PROVE  /\ \E e \in Range(log[t]) :
                           e.path = p /\ e.payload = Said(heap[store[p]])
                      /\ Dead(p) => \E e \in Range(log[t]) :
                                      e.path = p /\ e.type = "Deactivated"
    BY DEF StoredIsAnnounced
  <2> USE DEF MemInv, BaseInv
  <2> DEFINE o == store[p]
  <2>1. o \in Requests /\ heap[o] # Null /\ call[o].path = p
    BY DEF StateType, SharedInv
  <2>2. ASSUME NEW w \in Requests, event[w] # Null
        PROVE  event[w] \in Range(log[t])
    <3>1. stage[w] = "done" /\ reply[w] \in {200, 201, 204}
      BY <2>2 DEF EventInv, Topics
    <3>. QED  BY <2>2, <3>1 DEF FanOutIsFailFast
  <2>3. \E e \in Range(log[t]) : e.path = p /\ e.payload = Said(heap[o])
    <3>1. Covered(o)
      BY <2>1 DEF CoverInv
    <3>2. PICK w \in Requests :
            /\ event[w] # Null /\ event[w].path = call[o].path
            /\ event[w].payload = Said(heap[o])
      BY <3>1 DEF Covered
    <3>. QED  BY <2>1, <2>2, <3>2
  <2>4. ASSUME Dead(p)
        PROVE  \E e \in Range(log[t]) : e.path = p /\ e.type = "Deactivated"
    <3>1. PICK w \in Requests :
            object[w] = o /\ call[w].op = "deactivate" /\ event[w] # Null
      BY <2>1, <2>4 DEF CoverInv, Buried, Dead
    <3>2. event[w].type = "Deactivated" /\ event[w].path = p
      BY <2>1, <3>1, MemoryAssumption DEF EventInv, SharedInv
    <3>. QED  BY <2>2, <3>1, <3>2
  <2>. QED  BY <2>3, <2>4
<1>. QED  BY <1>1, MemInvAlways, PTL

(* No event is sent before the path it tells of is in the store, and none  *)
(* says that a live path was deactivated, unless two POSTs have made an    *)
(* object each for that path.                                              *)
THEOREM AnnouncedWasStored == Spec => AnnouncedIsStored
<1>1. MemInv /\ [Next]_vars =>
        [\A t \in Topics :
           log'[t] # log[t] =>
             LET e == log'[t][Len(log'[t])]
             IN /\ store[e.path] # Null
                /\ e.type = "Deactivated" => Dead(e.path) \/ DefinedTwice(e.path)
        ]_vars
  <2> SUFFICES ASSUME MemInv, [Next]_vars, NEW t \in Topics, log'[t] # log[t]
               PROVE  LET e == log'[t][Len(log'[t])]
                      IN /\ store[e.path] # Null
                         /\ e.type = "Deactivated" =>
                              Dead(e.path) \/ DefinedTwice(e.path)
    BY Zenon
  <2> USE DEF MemInv, BaseInv
  <2>1. PICK r \in Requests : Send(r) \/ SendFails(r)
    <3>1. ASSUME NEW r \in Requests, Find(r) \/ Change(r) \/ Save(r) \/ Build(r)
          PROVE  FALSE
      BY <3>1 DEF Find, Change, Save, Build
    <3>2. ~Restart /\ ~UNCHANGED vars
      BY DEF Restart, vars
    <3>. QED  BY <3>1, <3>2 DEF Next
  <2>2. stage[r] = t /\ Arrives(r) /\ event[r] \in Event
    BY <2>1, SendEffect DEF Arrives, StateType
  <2>3. log'[t][Len(log'[t])] = event[r]
    BY <2>2 DEF Arrives, StateType
  <2>4. /\ event[r].path = call[r].path /\ store[call[r].path] # Null
        /\ event[r].type = "Deactivated" <=> call[r].op = "deactivate"
    BY <2>2 DEF EventInv, UnderWay
  <2>5. ASSUME event[r].type = "Deactivated"
        PROVE  Dead(call[r].path) \/ DefinedTwice(call[r].path)
    <3> DEFINE o == object[r]
               s == store[call[r].path]
    <3>1. call[r].path \in Paths
      BY <2>2, CallParts DEF StateType, Topics
    <3>2. /\ o \in Requests /\ heap[o] # Null /\ call[o].path = call[r].path
          /\ heap[o].status = "DEACTIVATED"
      BY <2>2, <2>4, <2>5 DEF StateType, SharedInv, UnderWay
    <3>3. s \in Requests /\ heap[s] # Null /\ call[s].path = call[r].path
      BY <2>4, <3>1 DEF StateType, SharedInv
    <3>4. CASE s = o
      BY <2>4, <3>2, <3>4 DEF Dead
    <3>5. CASE s # o
      BY <3>2, <3>3, <3>5 DEF DefinedTwice
    <3>. QED  BY <3>4, <3>5
  <2>. QED  BY <2>3, <2>4, <2>5
<1>. QED  BY <1>1, MemInvAlways, PTL DEF Spec, AnnouncedIsStored

(* A deactivated path stays deactivated against any number of PUTs that    *)
(* found it active, unless two POSTs have made an object each or the       *)
(* process has restarted.                                                  *)
THEOREM DeactivatedAlwaysStays == Spec => DeactivatedStays
<1>1. MemInv /\ [Next]_vars =>
        [\A p \in Paths :
           Dead(p) => Dead(p)' \/ DefinedTwice(p)' \/ store'[p] = Null]_vars
  <2> SUFFICES ASSUME MemInv, [Next]_vars, NEW p \in Paths, Dead(p)
               PROVE  Dead(p)' \/ DefinedTwice(p)' \/ store'[p] = Null
    BY Zenon
  <2> USE DEF MemInv, BaseInv
  <2>1. /\ store[p] \in Requests /\ heap[store[p]] # Null
        /\ call[store[p]].path = p /\ heap[store[p]].status = "DEACTIVATED"
    BY DEF Dead, StateType, SharedInv
  <2>2. CASE UNCHANGED <<store, heap>>
    BY <2>2 DEF Dead
  <2>3. ASSUME NEW r \in Requests, Change(r) PROVE Dead(p)'
    <3>1. PICK new \in Object : Changed(r, new)
      BY <2>3, ChangeEffect
    <3>2. PICK o \in Requests :
            /\ heap' = [heap EXCEPT ![o] = new]
            /\ call[r].op = "define" => heap[o] = Null
            /\ call[r].op = "revise" => new.status = heap[o].status
            /\ call[r].op = "deactivate" => new.status = "DEACTIVATED"
      BY <3>1 DEF Changed
    <3>3. store' = store /\ call[r].op \in {"define", "revise", "deactivate"}
      BY <2>3, <3>1, ChangeEffect, CallParts DEF Changed
    <3>4. heap'[store[p]].status = "DEACTIVATED"
      BY <2>1, <3>2, <3>3 DEF StateType
    <3>. QED  BY <2>1, <3>3, <3>4 DEF Dead
  <2>4. ASSUME NEW r \in Requests, Save(r) PROVE Dead(p)' \/ DefinedTwice(p)'
    <3>1. /\ stage[r] = "save"
          /\ store' = [store EXCEPT ![call[r].path] = object[r]]
          /\ UNCHANGED <<heap, call>>
      BY <2>4 DEF Save
    <3>2. CASE call[r].path = p /\ object[r] # store[p]
      <4>1. /\ object[r] \in Requests /\ heap[object[r]] # Null
            /\ call[object[r]].path = p
        BY <3>1, <3>2 DEF StateType, SharedInv
      <4>. QED  BY <2>1, <3>1, <3>2, <4>1 DEF DefinedTwice
    <3>3. CASE call[r].path # p \/ object[r] = store[p]
      <4>1. store'[p] = store[p]
        BY <3>1, <3>3 DEF StateType
      <4>. QED  BY <2>1, <3>1, <4>1 DEF Dead
    <3>. QED  BY <3>2, <3>3
  <2>5. CASE Restart
    BY <2>5 DEF Restart
  <2>. QED
    BY <2>2, <2>3, <2>4, <2>5
    DEF Next, Find, Build, Send, SendFails, vars
<1>. QED  BY <1>1, MemInvAlways, PTL DEF Spec, DeactivatedStays
=============================================================================
