-------------------------- MODULE CPTSchedule_proofs --------------------------
(***************************************************************************)
(* Proofs about CPTSchedule, for every set of requests, sites, paths and   *)
(* calls: the store agrees with the outbox, and the paths that schedules   *)
(* name exist; then what the requests read and are answered: the types of  *)
(* what they read, ReadsMoveForward and AnsweredPutTookEffect.             *)
(***************************************************************************)
EXTENDS CPTSchedule, FiniteSetTheorems, WellFoundedInduction, TLAPS

-----------------------------------------------------------------------------
(* The inductive invariant *)

WriteSet == [timezone: Timezones \cup {Null}, cutoffs: SUBSET Cutoff,
             events: SUBSET OutboxRow]

Types ==
  /\ timezone \in [Sites -> Timezones \cup {Null}]
  /\ cutoffs \in [Sites -> SUBSET Cutoff]
  /\ outbox \in SUBSET OutboxRow
  /\ nextId \in Nat
  /\ status \in [Paths -> {"ACTIVE", "DEACTIVATED", Null}]
  /\ stage \in [Requests -> Stages]
  /\ call \in [Requests -> Call \cup {Null}]
  /\ seen = [r \in Requests |-> seen[r]]
  /\ checked \in [Requests -> SUBSET Paths]
  /\ tx \in [Requests -> WriteSet]
  /\ reply \in [Requests -> Codes \cup {Null}]
  /\ \A r \in Requests : stage[r] # "new" => call[r] \in Call

(* The stages of a request that has an open transaction. *)
Writing == {"replace", "integration", "analytics", "commit"}

(* What the transaction of a request holds, and that it will be the latest *)
(* of its site.                                                            *)
WritesOf(r) ==
  /\ stage[r] \notin Writing => tx[r] = NoWrites
  /\ stage[r] \in Writing \cup {"save"} =>
       /\ IsValid(call[r].body)
       /\ EligiblePaths(call[r].body) \subseteq checked[r]
  /\ stage[r] \in Writing => tx[r].timezone = call[r].body.timezone
  /\ stage[r] \in Topics \cup {"commit"} =>
       tx[r].cutoffs = Range(call[r].body.cutoffs)

EventsOf(r) ==
  /\ \A e \in tx[r].events :
       /\ e.site = call[r].site /\ e.schedule = call[r].body
       /\ e.id < nextId
       /\ \A f \in outbox : f.site = e.site => f.id < e.id
  /\ \A e, f \in tx[r].events : e.topic = f.topic => e = f
  /\ stage[r] \in {"replace", "integration"} => tx[r].events = {}
  /\ stage[r] = "analytics" =>
       /\ \A e \in tx[r].events : e.topic = "integration"
       /\ \E e \in tx[r].events : e.topic = "integration"
  /\ stage[r] = "commit" =>
       \A t \in Topics : \E e \in tx[r].events : e.topic = t

OneWriter ==
  \A r, q \in Requests :
    r # q /\ {stage[r], stage[q]} \subseteq Writing => call[r].site # call[q].site

OutboxInv ==
  /\ \A e \in outbox : e.id < nextId /\ IsValid(e.schedule)
  /\ \A e, f \in outbox :
       e.site = f.site /\ e.topic = f.topic /\ e.id = f.id => e = f

(* The tables hold what the latest event of the site says. *)
Current(s, t) ==
  \E e \in OnTopic(s, t) :
    /\ \A f \in OnTopic(s, t) : f.id <= e.id
    /\ timezone[s] = e.schedule.timezone
    /\ cutoffs[s] = Range(e.schedule.cutoffs)

StoreInv ==
  \A s \in Sites, t \in Topics :
    /\ timezone[s] = Null => OnTopic(s, t) = {} /\ cutoffs[s] = {}
    /\ timezone[s] # Null => Current(s, t)

NamedInv ==
  /\ \A r \in Requests : \A p \in checked[r] : status[p] # Null
  /\ \A e \in outbox : \A p \in EligiblePaths(e.schedule) : status[p] # Null

Inv ==
  /\ Types /\ OneWriter /\ OutboxInv /\ StoreInv /\ NamedInv
  /\ \A r \in Requests : WritesOf(r) /\ EventsOf(r)

-----------------------------------------------------------------------------
(* Types *)

LEMMA NoWritesType == NoWrites \in WriteSet
BY DEF NoWrites, WriteSet

LEMMA ScheduleTypes ==
  ASSUME NEW schedule \in Schedule
  PROVE  /\ schedule.timezone \in Timezones
         /\ schedule.cutoffs \in Seq(Cutoff)
         /\ Range(schedule.cutoffs) \in SUBSET Cutoff
         /\ EligiblePaths(schedule) \in SUBSET Paths
<1>1. schedule.timezone \in Timezones /\ schedule.cutoffs \in Seq(Cutoff)
  BY DEF Schedule
<1>2. Range(schedule.cutoffs) \in SUBSET Cutoff
  BY <1>1 DEF Range
<1>3. ASSUME NEW d \in Cutoff  PROVE Range(d.eligible) \in SUBSET Paths
  <2>1. d.eligible \in Seq(Paths)
    BY DEF Cutoff
  <2>. QED  BY <2>1 DEF Range
<1>4. EligiblePaths(schedule) \in SUBSET Paths
  BY <1>2, <1>3 DEF EligiblePaths
<1>. QED  BY <1>1, <1>2, <1>4

LEMMA CallTypes ==
  ASSUME NEW c \in Call
  PROVE  /\ c.site \in Sites /\ c.body \in Schedule
         /\ c.body.timezone \in Timezones
         /\ c.body.cutoffs \in Seq(Cutoff)
         /\ Range(c.body.cutoffs) \in SUBSET Cutoff
         /\ EligiblePaths(c.body) \in SUBSET Paths
<1>1. c.site \in Sites /\ c.body \in Schedule
  BY DEF Call
<1>. QED  BY <1>1, ScheduleTypes

(* What a request's answer leaves. *)
LEMMA AnswerTypes ==
  ASSUME Types, NEW r \in Requests, NEW c \in Codes, Answer(r, c)
  PROVE  /\ reply' \in [Requests -> Codes \cup {Null}]
         /\ tx' \in [Requests -> WriteSet] /\ tx'[r] = NoWrites
         /\ stage' \in [Requests -> Stages] /\ stage'[r] = "done"
         /\ \A q \in Requests \ {r} : /\ stage'[q] = stage[q] /\ tx'[q] = tx[q]
                                      /\ reply'[q] = reply[q]
BY NoWritesType DEF Types, Answer, Goto, Stages

LEMMA GotoTypes ==
  ASSUME Types, NEW r \in Requests, NEW s \in Stages, Goto(r, s)
  PROVE  /\ stage' \in [Requests -> Stages] /\ stage'[r] = s
         /\ \A q \in Requests \ {r} : stage'[q] = stage[q]
BY DEF Types, Goto

-----------------------------------------------------------------------------
(* Steps that leave tables and transactions alone *)

(* A request moves on or is answered, and writes nothing. *)
LEMMA QuietStep ==
  ASSUME Inv, NEW r \in Requests,
         UNCHANGED <<timezone, cutoffs, outbox, nextId, status>>,
         Types',
         \A q \in Requests \ {r} :
           /\ stage'[q] = stage[q] /\ call'[q] = call[q]
           /\ tx'[q] = tx[q] /\ checked'[q] = checked[q],
         stage'[r] \notin Writing, tx'[r] = NoWrites,
         stage'[r] = "save" => /\ IsValid(call'[r].body)
                               /\ EligiblePaths(call'[r].body) \subseteq checked'[r],
         \A p \in checked'[r] : status[p] # Null
  PROVE  Inv'
<1>. USE DEF Inv
<1>1. OneWriter'
  BY DEF OneWriter
<1>2. OutboxInv' /\ StoreInv'
  BY DEF OutboxInv, StoreInv, Current, OnTopic
<1>3. NamedInv'
  BY DEF NamedInv
<1>4. ASSUME NEW q \in Requests  PROVE WritesOf(q)' /\ EventsOf(q)'
  <2>1. CASE q = r
    <3>1. WritesOf(r)'
      BY DEF WritesOf, Writing, Topics
    <3>2. EventsOf(r)'
      BY DEF EventsOf, NoWrites, Writing
    <3>. QED  BY <2>1, <3>1, <3>2
  <2>2. CASE q # r
    BY <2>2 DEF WritesOf, EventsOf
  <2>. QED  BY <2>1, <2>2
<1>. QED  BY <1>1, <1>2, <1>3, <1>4

LEMMA InitInv == Init => Inv
<1>. SUFFICES ASSUME Init  PROVE Inv
  OBVIOUS
<1>1. Types
  BY NoWritesType DEF Init, Types, Stages
<1>2. OneWriter /\ OutboxInv /\ StoreInv /\ NamedInv
  BY DEF Init, OneWriter, OutboxInv, StoreInv, NamedInv, Writing, OnTopic
<1>3. \A r \in Requests : WritesOf(r) /\ EventsOf(r)
  BY DEF Init, WritesOf, EventsOf, Writing, Topics, NoWrites
<1>. QED  BY <1>1, <1>2, <1>3 DEF Inv

(* Where FindBySiteID returns to. *)
LEMMA AfterFindTypes ==
  ASSUME Types, NEW r \in Requests, AfterFind(r)
  PROVE  /\ reply' \in [Requests -> Codes \cup {Null}]
         /\ tx' \in [Requests -> WriteSet]
         /\ stage' \in [Requests -> Stages] /\ stage'[r] \in {"check", "done"}
         /\ tx'[r] = tx[r] \/ tx'[r] = NoWrites
         /\ \A q \in Requests \ {r} : stage'[q] = stage[q] /\ tx'[q] = tx[q]
<1>1. CASE call[r].op = "put"
  <2>1. Goto(r, "check") /\ UNCHANGED <<tx, reply>>
    BY <1>1 DEF AfterFind
  <2>2. "check" \in Stages
    BY DEF Stages
  <2>3. /\ stage' \in [Requests -> Stages] /\ stage'[r] = "check"
        /\ \A q \in Requests \ {r} : stage'[q] = stage[q]
    BY <2>1, <2>2, GotoTypes
  <2>. QED  BY <2>1, <2>3 DEF Types
<1>2. CASE call[r].op # "put"
  <2>1. \E c \in {404, 200} : Answer(r, c)
    BY <1>2 DEF AfterFind
  <2>2. PICK c \in Codes : Answer(r, c)
    BY <2>1 DEF Codes
  <2>. QED  BY <2>2, AnswerTypes
<1>. QED  BY <1>1, <1>2

LEMMA ReadSteps ==
  ASSUME Inv, NEW r \in Requests,
         Arrive(r) \/ ReadHeader(r) \/ ReadCutoffs(r)
  PROVE  Inv'
<1>0. /\ Types /\ WritesOf(r)
      /\ \A p \in checked[r] : status[p] # Null
  BY DEF Inv, NamedInv
<1>1. CASE Arrive(r)
  <2>1. PICK c \in Calls :
          /\ stage[r] = "new" /\ call' = [call EXCEPT ![r] = c]
          /\ \/ \E code \in {400, 422} : Answer(r, code)
             \/ Goto(r, "header") /\ UNCHANGED <<tx, reply>>
          /\ UNCHANGED <<tables, seen, checked>>
    BY <1>1 DEF Arrive
  <2>2. c \in Call /\ tx[r] = NoWrites
    BY <1>0, <2>1, ScheduleAssumption DEF WritesOf, Writing
  <2>3. /\ reply' \in [Requests -> Codes \cup {Null}]
        /\ tx' \in [Requests -> WriteSet] /\ tx'[r] = NoWrites
        /\ stage' \in [Requests -> Stages] /\ stage'[r] \in {"header", "done"}
        /\ \A q \in Requests \ {r} : stage'[q] = stage[q] /\ tx'[q] = tx[q]
    <3>1. ASSUME NEW code \in {400, 422}, Answer(r, code)
          PROVE  /\ reply' \in [Requests -> Codes \cup {Null}]
                 /\ tx' \in [Requests -> WriteSet] /\ tx'[r] = NoWrites
                 /\ stage' \in [Requests -> Stages] /\ stage'[r] = "done"
                 /\ \A q \in Requests \ {r} : stage'[q] = stage[q] /\ tx'[q] = tx[q]
      <4>1. code \in Codes
        BY DEF Codes
      <4>. QED  BY <1>0, <3>1, <4>1, AnswerTypes
    <3>2. CASE Goto(r, "header") /\ UNCHANGED <<tx, reply>>
      <4>1. "header" \in Stages
        BY DEF Stages
      <4>2. /\ stage' \in [Requests -> Stages] /\ stage'[r] = "header"
            /\ \A q \in Requests \ {r} : stage'[q] = stage[q]
        BY <1>0, <3>2, <4>1, GotoTypes
      <4>. QED  BY <1>0, <2>2, <3>2, <4>2 DEF Types
    <3>. QED  BY <2>1, <3>1, <3>2
  <2>4. Types'
    BY <1>0, <2>1, <2>2, <2>3 DEF Types, tables
  <2>5. /\ UNCHANGED <<timezone, cutoffs, outbox, nextId, status, checked>>
        /\ \A q \in Requests \ {r} : call'[q] = call[q]
    BY <1>0, <2>1 DEF Types, tables
  <2>6. stage'[r] \notin Writing /\ stage'[r] # "save"
    BY <2>3 DEF Writing
  <2>. QED  BY <1>0, <2>3, <2>4, <2>5, <2>6, QuietStep
<1>2. CASE ReadHeader(r) \/ ReadCutoffs(r)
  <2>1. /\ UNCHANGED <<tables, call, checked>>
        /\ stage[r] \in {"header", "cutoffs"}
        /\ seen' = seen \/ \E x : seen' = [seen EXCEPT ![r] = x]
        /\ AfterFind(r) \/ (Goto(r, "cutoffs") /\ UNCHANGED <<tx, reply>>)
    <3>1. CASE ReadHeader(r)
      BY <3>1 DEF ReadHeader
    <3>2. CASE ReadCutoffs(r)
      BY <3>2 DEF ReadCutoffs
    <3>. QED  BY <1>2, <3>1, <3>2
  <2>2. tx[r] = NoWrites
    BY <1>0, <2>1 DEF WritesOf, Writing
  <2>3. /\ reply' \in [Requests -> Codes \cup {Null}]
        /\ tx' \in [Requests -> WriteSet] /\ tx'[r] = NoWrites
        /\ stage' \in [Requests -> Stages]
        /\ stage'[r] \in {"cutoffs", "check", "done"}
        /\ \A q \in Requests \ {r} : stage'[q] = stage[q] /\ tx'[q] = tx[q]
    <3>1. CASE AfterFind(r)
      BY <1>0, <2>2, <3>1, AfterFindTypes
    <3>2. CASE Goto(r, "cutoffs") /\ UNCHANGED <<tx, reply>>
      <4>1. "cutoffs" \in Stages
        BY DEF Stages
      <4>2. /\ stage' \in [Requests -> Stages] /\ stage'[r] = "cutoffs"
            /\ \A q \in Requests \ {r} : stage'[q] = stage[q]
        BY <1>0, <3>2, <4>1, GotoTypes
      <4>. QED  BY <1>0, <2>2, <3>2, <4>2 DEF Types
    <3>. QED  BY <2>1, <3>1, <3>2
  <2>4. seen' = [q \in Requests |-> seen'[q]]
    BY <1>0, <2>1 DEF Types
  <2>5. stage[r] # "new"
    BY <2>1
  <2>6. Types'
    BY <1>0, <2>1, <2>3, <2>4, <2>5 DEF Types, tables
  <2>7. stage'[r] \notin Writing /\ stage'[r] # "save"
    BY <2>3 DEF Writing
  <2>8. UNCHANGED <<timezone, cutoffs, outbox, nextId, status, checked, call>>
    BY <2>1 DEF tables
  <2>. QED  BY <1>0, <2>3, <2>6, <2>7, <2>8, QuietStep
<1>. QED  BY <1>1, <1>2

LEMMA CheckSteps ==
  ASSUME Inv, NEW r \in Requests,
         CheckPath(r) \/ Decide(r) \/ RollBack(r)
  PROVE  Inv'
<1>0. /\ Types /\ WritesOf(r)
      /\ \A p \in checked[r] : status[p] # Null
  BY DEF Inv, NamedInv
<1>1. ASSUME NEW c \in Codes, Answer(r, c), stage[r] # "new",
             UNCHANGED <<tables, call, seen, checked>>
      PROVE  Inv'
  <2>1. /\ reply' \in [Requests -> Codes \cup {Null}]
        /\ tx' \in [Requests -> WriteSet] /\ tx'[r] = NoWrites
        /\ stage' \in [Requests -> Stages] /\ stage'[r] = "done"
        /\ \A q \in Requests \ {r} : stage'[q] = stage[q] /\ tx'[q] = tx[q]
    BY <1>0, <1>1, AnswerTypes
  <2>2. Types'
    BY <1>0, <1>1, <2>1 DEF Types, tables
  <2>3. UNCHANGED <<timezone, cutoffs, outbox, nextId, status, checked, call>>
    BY <1>1 DEF tables
  <2>. QED  BY <1>0, <2>1, <2>2, <2>3, QuietStep DEF Writing
<1>2. {200, 422, 500} \subseteq Codes
  BY DEF Codes
<1>3. CASE CheckPath(r)
  <2>1. PICK p \in Unchecked(r) :
          IF status[p] = "ACTIVE"
          THEN /\ checked' = [checked EXCEPT ![r] = @ \cup {p}]
               /\ UNCHANGED <<stage, tx, reply>>
          ELSE Answer(r, 422) /\ UNCHANGED checked
    BY <1>3 DEF CheckPath
  <2>2. stage[r] = "check" /\ UNCHANGED <<tables, call, seen>>
    BY <1>3 DEF CheckPath
  <2>3. CASE status[p] # "ACTIVE"
    BY <1>1, <1>2, <2>1, <2>2, <2>3
  <2>4. CASE status[p] = "ACTIVE"
    <3>1. p \in Paths /\ status[p] # Null
      BY <1>0, <2>2, <2>4, CallTypes, ScheduleAssumption DEF Unchecked, Types
    <3>2. /\ checked' = [checked EXCEPT ![r] = checked[r] \cup {p}]
          /\ UNCHANGED <<stage, tx, reply>>
      BY <2>1, <2>4
    <3>3. Types'
      BY <1>0, <2>2, <3>1, <3>2 DEF Types, tables
    <3>4. /\ \A q \in Requests \ {r} : checked'[q] = checked[q]
          /\ \A o \in checked'[r] : status[o] # Null
      BY <1>0, <3>1, <3>2 DEF Types
    <3>5. tx[r] = NoWrites /\ stage[r] \notin Writing /\ stage[r] # "save"
      BY <1>0, <2>2 DEF WritesOf, Writing
    <3>6. UNCHANGED <<timezone, cutoffs, outbox, nextId, status, call>>
      BY <2>2 DEF tables
    <3>. QED  BY <3>2, <3>3, <3>4, <3>5, <3>6, QuietStep
  <2>. QED  BY <2>3, <2>4
<1>4. CASE Decide(r)
  <2>1. /\ stage[r] = "check" /\ Unchecked(r) = {}
        /\ UNCHANGED <<tables, call, seen, checked>>
        /\ \/ \E c \in {200, 422} : Answer(r, c)
           \/ IsValid(call[r].body) /\ Goto(r, "save") /\ UNCHANGED <<tx, reply>>
    BY <1>4 DEF Decide
  <2>2. CASE \E c \in {200, 422} : Answer(r, c)
    BY <1>1, <1>2, <2>1, <2>2
  <2>3. CASE IsValid(call[r].body) /\ Goto(r, "save") /\ UNCHANGED <<tx, reply>>
    <3>1. "save" \in Stages
      BY DEF Stages
    <3>2. /\ stage' \in [Requests -> Stages] /\ stage'[r] = "save"
          /\ \A q \in Requests \ {r} : stage'[q] = stage[q]
      BY <1>0, <2>3, <3>1, GotoTypes
    <3>3. Types'
      BY <1>0, <2>1, <2>3, <3>2 DEF Types, tables
    <3>4. tx[r] = NoWrites /\ stage'[r] \notin Writing
      BY <1>0, <2>1, <3>2 DEF WritesOf, Writing
    <3>5. EligiblePaths(call[r].body) \subseteq checked[r]
      BY <2>1 DEF Unchecked
    <3>6. UNCHANGED <<timezone, cutoffs, outbox, nextId, status, checked, call>>
      BY <2>1 DEF tables
    <3>. QED  BY <1>0, <2>3, <3>2, <3>3, <3>4, <3>5, <3>6, QuietStep
  <2>. QED  BY <2>1, <2>2, <2>3
<1>5. CASE RollBack(r)
  BY <1>1, <1>2, <1>5 DEF RollBack
<1>. QED  BY <1>3, <1>4, <1>5

-----------------------------------------------------------------------------
(* Steps that write *)

(* The other requests' write sets are not affected by one that goes on     *)
(* writing.                                                                *)
LEMMA OthersKeep ==
  ASSUME NEW r \in Requests, NEW q \in Requests \ {r},
         WritesOf(q), EventsOf(q), nextId \in Nat, nextId' \in Nat, nextId <= nextId',
         Types,
         stage'[q] = stage[q], tx'[q] = tx[q],
         UNCHANGED <<outbox, call, checked>>
  PROVE  WritesOf(q)' /\ EventsOf(q)'
<1>1. WritesOf(q)'
  BY DEF WritesOf
<1>2. \A e \in tx[q].events : e.id \in Nat
  BY DEF Types, WriteSet, OutboxRow
<1>3. EventsOf(q)'
  BY <1>2 DEF EventsOf
<1>. QED  BY <1>1, <1>3

LEMMA SaveStep ==
  ASSUME Inv, NEW r \in Requests, Save(r)
  PROVE  Inv'
<1>. DEFINE body == call[r].body
<1>1. /\ stage[r] = "save" /\ UNCHANGED <<tables, call, seen, checked, reply>>
      /\ tx' = [tx EXCEPT ![r].timezone = body.timezone]
      /\ Goto(r, "replace") /\ "replace" \in Stages
      /\ \A q \in Requests \ {r} : ~Holds(q, call[r].site)
  BY DEF Save, Stages
<1>2. /\ Types /\ \A q \in Requests : WritesOf(q) /\ EventsOf(q)
      /\ call[r] \in Call
  BY <1>1 DEF Inv, Types
<1>3. /\ tx[r] = NoWrites /\ IsValid(body) /\ EligiblePaths(body) \subseteq checked[r]
  BY <1>1, <1>2 DEF WritesOf, Writing
<1>4. /\ stage' \in [Requests -> Stages] /\ stage'[r] = "replace"
      /\ \A q \in Requests \ {r} : stage'[q] = stage[q] /\ tx'[q] = tx[q]
  BY <1>1, <1>2, GotoTypes DEF Types
<1>5. body.timezone \in Timezones /\ body.timezone # Null
  BY <1>2, CallTypes, ScheduleAssumption
<1>6. /\ tx'[r] \in WriteSet /\ tx'[r].timezone = body.timezone
      /\ tx'[r].events = {}
  <2>1. tx[r] \in WriteSet /\ tx'[r] = [tx[r] EXCEPT !.timezone = body.timezone]
    BY <1>1, <1>2 DEF Types
  <2>. QED  BY <1>3, <1>5, <2>1 DEF WriteSet, NoWrites
<1>7. Types'
  BY <1>1, <1>2, <1>4, <1>6 DEF Types, tables
<1>8. OneWriter'
  <2>1. ASSUME NEW q \in Requests \ {r}, stage[q] \in Writing
        PROVE  call[q].site # call[r].site
    <3>1. call[q] \in Call /\ tx[q].timezone = call[q].body.timezone
      BY <1>2, <2>1 DEF Types, WritesOf, Writing
    <3>2. tx[q].timezone # Null
      BY <3>1, CallTypes, ScheduleAssumption
    <3>. QED  BY <1>1, <3>2 DEF Holds
  <2>. QED  BY <1>1, <1>4, <2>1 DEF Inv, OneWriter
<1>9. ASSUME NEW q \in Requests  PROVE WritesOf(q)' /\ EventsOf(q)'
  <2>1. CASE q = r
    <3>1. WritesOf(r)'
      BY <1>1, <1>3, <1>4, <1>6 DEF WritesOf, Writing, Topics
    <3>2. EventsOf(r)'
      BY <1>4, <1>6 DEF EventsOf
    <3>. QED  BY <2>1, <3>1, <3>2
  <2>2. CASE q # r
    BY <1>1, <1>2, <1>4, <2>2, OthersKeep DEF tables, Types
  <2>. QED  BY <2>1, <2>2
<1>10. OutboxInv' /\ StoreInv' /\ NamedInv'
  BY <1>1 DEF Inv, OutboxInv, StoreInv, NamedInv, Current, OnTopic, tables
<1>. QED  BY <1>7, <1>8, <1>9, <1>10 DEF Inv

LEMMA ReplaceStep ==
  ASSUME Inv, NEW r \in Requests, Replace(r)
  PROVE  Inv'
<1>. DEFINE body == call[r].body
<1>1. /\ stage[r] = "replace" /\ UNCHANGED <<tables, call, seen, checked, reply>>
      /\ tx' = [tx EXCEPT ![r].cutoffs = Range(body.cutoffs)]
      /\ Goto(r, "integration") /\ "integration" \in Stages
  BY DEF Replace, Stages, Topics
<1>2. /\ Types /\ \A q \in Requests : WritesOf(q) /\ EventsOf(q)
      /\ call[r] \in Call
  BY <1>1 DEF Inv, Types
<1>3. /\ stage' \in [Requests -> Stages] /\ stage'[r] = "integration"
      /\ \A q \in Requests \ {r} : stage'[q] = stage[q] /\ tx'[q] = tx[q]
  BY <1>1, <1>2, GotoTypes DEF Types
<1>4. /\ tx'[r] \in WriteSet /\ tx'[r].timezone = tx[r].timezone
      /\ tx'[r].cutoffs = Range(body.cutoffs) /\ tx'[r].events = tx[r].events
  BY <1>1, <1>2, CallTypes DEF Types, WriteSet
<1>5. Types'
  BY <1>1, <1>2, <1>3, <1>4 DEF Types, tables
<1>6. OneWriter'
  BY <1>1, <1>3 DEF Inv, OneWriter, Writing
<1>7. ASSUME NEW q \in Requests  PROVE WritesOf(q)' /\ EventsOf(q)'
  <2>1. CASE q = r
    <3>1. WritesOf(r)'
      BY <1>1, <1>2, <1>3, <1>4 DEF WritesOf, Writing, Topics
    <3>2. EventsOf(r)'
      BY <1>1, <1>2, <1>3, <1>4 DEF EventsOf
    <3>. QED  BY <2>1, <3>1, <3>2
  <2>2. CASE q # r
    BY <1>1, <1>2, <1>3, <2>2, OthersKeep DEF tables, Types
  <2>. QED  BY <2>1, <2>2
<1>8. OutboxInv' /\ StoreInv' /\ NamedInv'
  BY <1>1 DEF Inv, OutboxInv, StoreInv, NamedInv, Current, OnTopic, tables
<1>. QED  BY <1>5, <1>6, <1>7, <1>8 DEF Inv

LEMMA PublishStep ==
  ASSUME Inv, NEW r \in Requests, Publish(r)
  PROVE  Inv'
<1>. DEFINE body == call[r].body
            new == [id |-> nextId, topic |-> stage[r], site |-> call[r].site,
                    schedule |-> body]
            next == IF stage[r] = "integration" THEN "analytics" ELSE "commit"
<1>1. /\ stage[r] \in Topics /\ nextId' = nextId + 1
      /\ tx' = [tx EXCEPT ![r].events = @ \cup {new}]
      /\ Goto(r, next) /\ next \in Stages
      /\ UNCHANGED <<timezone, cutoffs, outbox, status, call, seen, checked, reply>>
  BY DEF Publish, Stages, Topics
<1>2. /\ Types /\ \A q \in Requests : WritesOf(q) /\ EventsOf(q)
      /\ call[r] \in Call /\ nextId \in Nat
  BY <1>1 DEF Inv, Types, Topics
<1>3. /\ stage' \in [Requests -> Stages] /\ stage'[r] = next
      /\ \A q \in Requests \ {r} : stage'[q] = stage[q] /\ tx'[q] = tx[q]
  BY <1>1, <1>2, GotoTypes DEF Types
<1>4. new \in OutboxRow
  BY <1>1, <1>2, CallTypes DEF OutboxRow
<1>5. /\ tx'[r] \in WriteSet /\ tx'[r].timezone = tx[r].timezone
      /\ tx'[r].cutoffs = tx[r].cutoffs /\ tx'[r].events = tx[r].events \cup {new}
  <2>. HIDE DEF new
  <2>. QED  BY <1>1, <1>2, <1>4 DEF Types, WriteSet
<1>6. Types'
  BY <1>1, <1>2, <1>3, <1>5 DEF Types, Topics
<1>7. OneWriter'
  <2>1. stage[r] \in Writing /\ UNCHANGED call
    BY <1>1 DEF Writing, Topics
  <2>. QED  BY <1>3, <2>1 DEF Inv, OneWriter
<1>8. ASSUME NEW q \in Requests  PROVE WritesOf(q)' /\ EventsOf(q)'
  <2>1. CASE q = r
    <3>1. WritesOf(r)'
      BY <1>1, <1>2, <1>3, <1>5 DEF WritesOf, Writing, Topics
    <3>2. /\ new.site = call[r].site /\ new.schedule = body /\ new.topic = stage[r]
          /\ new.id = nextId
      OBVIOUS
    <3>3. \A f \in outbox : f.id < nextId
      BY DEF Inv, OutboxInv
    <3>4. \A e \in tx[r].events : e.id \in Nat
      BY <1>2 DEF Types, WriteSet, OutboxRow
    <3>5. \A e \in tx'[r].events : /\ e.site = call[r].site /\ e.schedule = body
                                   /\ e.id < nextId'
                                   /\ \A f \in outbox : f.site = e.site => f.id < e.id
      <4>. HIDE DEF new
      <4>. QED  BY <1>1, <1>2, <1>5, <3>2, <3>3, <3>4 DEF EventsOf
    <3>6. \A e \in tx[r].events : e.topic # stage[r]
      BY <1>1, <1>2 DEF EventsOf, Topics
    <3>7. \A e, f \in tx'[r].events : e.topic = f.topic => e = f
      <4>. HIDE DEF new
      <4>. QED  BY <1>2, <1>5, <3>2, <3>6 DEF EventsOf
    <3>8. ASSUME stage[r] = "integration"  PROVE EventsOf(r)'
      <4>. HIDE DEF new
      <4>. QED  BY <1>1, <1>2, <1>3, <1>5, <3>2, <3>5, <3>7, <3>8 DEF EventsOf
    <3>9. ASSUME stage[r] = "analytics"  PROVE EventsOf(r)'
      <4>. HIDE DEF new
      <4>. QED  BY <1>1, <1>2, <1>3, <1>5, <3>2, <3>5, <3>7, <3>9
                DEF EventsOf, Topics
    <3>. QED  BY <1>1, <2>1, <3>1, <3>8, <3>9 DEF Topics
  <2>2. CASE q # r
    BY <1>1, <1>2, <1>3, <2>2, OthersKeep
  <2>. QED  BY <2>1, <2>2
<1>9. OutboxInv'
  <2>1. \A e \in outbox : e.id \in Nat
    BY <1>2 DEF Types, OutboxRow
  <2>. QED  BY <1>1, <1>2, <2>1 DEF Inv, OutboxInv
<1>10. StoreInv' /\ NamedInv'
  BY <1>1 DEF Inv, StoreInv, NamedInv, Current, OnTopic
<1>. QED  BY <1>6, <1>7, <1>8, <1>9, <1>10 DEF Inv

LEMMA CommitStep ==
  ASSUME Inv, NEW r \in Requests, Commit(r)
  PROVE  Inv'
<1>. DEFINE body == call[r].body
            site == call[r].site
            events == tx[r].events
<1>1. /\ stage[r] = "commit"
      /\ timezone' = [timezone EXCEPT ![site] = tx[r].timezone]
      /\ cutoffs' = [cutoffs EXCEPT ![site] = tx[r].cutoffs]
      /\ outbox' = outbox \cup events
      /\ UNCHANGED <<nextId, status, call, seen, checked>>
  BY DEF Commit
<1>2. /\ Types /\ \A q \in Requests : WritesOf(q) /\ EventsOf(q)
      /\ call[r] \in Call /\ site \in Sites /\ nextId \in Nat
  BY <1>1, CallTypes DEF Inv, Types
<1>3. PICK c \in Codes : Answer(r, c)
  BY DEF Commit, Codes
<1>4. /\ reply' \in [Requests -> Codes \cup {Null}]
      /\ tx' \in [Requests -> WriteSet] /\ tx'[r] = NoWrites
      /\ stage' \in [Requests -> Stages] /\ stage'[r] = "done"
      /\ \A q \in Requests \ {r} : stage'[q] = stage[q] /\ tx'[q] = tx[q]
  BY <1>2, <1>3, AnswerTypes
<1>5. /\ tx[r].timezone = body.timezone /\ tx[r].cutoffs = Range(body.cutoffs)
      /\ IsValid(body) /\ EligiblePaths(body) \subseteq checked[r]
      /\ body.timezone \in Timezones /\ body.timezone # Null
      /\ Range(body.cutoffs) \in SUBSET Cutoff
  BY <1>1, <1>2, CallTypes, ScheduleAssumption DEF WritesOf, Writing
<1>6. /\ events \in SUBSET OutboxRow
      /\ \A e \in events : /\ e.site = site /\ e.schedule = body /\ e.id < nextId
                           /\ \A f \in outbox : f.site = site => f.id < e.id
      /\ \A e, f \in events : e.topic = f.topic => e = f
      /\ \A t \in Topics : \E e \in events : e.topic = t
  BY <1>1, <1>2 DEF EventsOf, Types, WriteSet
<1>. HIDE DEF body, site, events
<1>7. Types'
  BY <1>1, <1>2, <1>4, <1>5, <1>6 DEF Types
<1>8. OneWriter'
  BY <1>1, <1>4 DEF Inv, OneWriter, Writing
<1>9. \A e \in outbox \cup events : e.id \in Nat
  BY <1>2, <1>6 DEF Types, OutboxRow
<1>10. OutboxInv'
  <2>1. ASSUME NEW e \in outbox', NEW f \in outbox',
               e.site = f.site, e.topic = f.topic, e.id = f.id
        PROVE  e = f
    <3>1. CASE e \in outbox /\ f \in outbox
      BY <2>1, <3>1 DEF Inv, OutboxInv
    <3>2. CASE e \in events /\ f \in events
      BY <1>6, <2>1, <3>2
    <3>3. CASE e \in outbox /\ f \in events
      BY <1>6, <1>9, <2>1, <3>3
    <3>4. CASE e \in events /\ f \in outbox
      BY <1>6, <1>9, <2>1, <3>4
    <3>. QED  BY <1>1, <3>1, <3>2, <3>3, <3>4
  <2>. QED  BY <1>1, <1>5, <1>6, <2>1 DEF Inv, OutboxInv
<1>11. StoreInv'
  <2>. SUFFICES ASSUME NEW s \in Sites, NEW t \in Topics
                PROVE  /\ timezone'[s] = Null => OnTopic(s, t)' = {} /\ cutoffs'[s] = {}
                       /\ timezone'[s] # Null => Current(s, t)'
    BY DEF StoreInv
  <2>1. CASE s = site
    <3>1. /\ timezone'[s] = body.timezone /\ cutoffs'[s] = Range(body.cutoffs)
      BY <1>1, <1>2, <1>5, <2>1 DEF Types
    <3>2. PICK e \in events : e.topic = t
      BY <1>6
    <3>3. e \in OnTopic(s, t)'
      BY <1>1, <1>6, <2>1, <3>2 DEF OnTopic
    <3>4. ASSUME NEW f \in OnTopic(s, t)'  PROVE f.id <= e.id
      <4>1. f \in outbox \cup events /\ f.site = site /\ f.topic = t
        BY <1>1, <2>1, <3>4 DEF OnTopic
      <4>2. CASE f \in events
        BY <1>6, <1>9, <3>2, <4>1, <4>2
      <4>3. CASE f \in outbox
        BY <1>6, <1>9, <3>2, <4>1, <4>3
      <4>. QED  BY <4>1, <4>2, <4>3
    <3>5. Current(s, t)'
      BY <1>6, <3>1, <3>2, <3>3, <3>4 DEF Current
    <3>. QED  BY <1>5, <3>1, <3>5
  <2>2. CASE s # site
    <3>1. OnTopic(s, t)' = OnTopic(s, t)
      BY <1>1, <1>6, <2>2 DEF OnTopic
    <3>2. timezone'[s] = timezone[s] /\ cutoffs'[s] = cutoffs[s]
      BY <1>1, <1>2, <2>2 DEF Types
    <3>. QED  BY <3>1, <3>2 DEF Inv, StoreInv, Current
  <2>. QED  BY <2>1, <2>2
<1>12. NamedInv'
  BY <1>1, <1>5, <1>6 DEF Inv, NamedInv
<1>13. ASSUME NEW q \in Requests  PROVE WritesOf(q)' /\ EventsOf(q)'
  <2>1. CASE q = r
    <3>1. WritesOf(r)'
      BY <1>4 DEF WritesOf, Writing, Topics
    <3>2. EventsOf(r)'
      BY <1>4 DEF EventsOf, NoWrites
    <3>. QED  BY <2>1, <3>1, <3>2
  <2>2. CASE q # r /\ stage[q] \notin Writing
    <3>1. tx[q].events = {}
      BY <1>2, <2>2 DEF WritesOf, NoWrites
    <3>2. WritesOf(q)'
      BY <1>1, <1>2, <1>4, <2>2 DEF WritesOf
    <3>3. EventsOf(q)'
      BY <1>4, <2>2, <3>1 DEF EventsOf, Writing
    <3>. QED  BY <3>2, <3>3
  <2>3. CASE q # r /\ stage[q] \in Writing
    <3>1. call[q].site # site
      BY <1>1, <2>3 DEF Inv, OneWriter, Writing, site
    <3>2. WritesOf(q)'
      BY <1>1, <1>2, <1>4, <2>3 DEF WritesOf
    <3>3. \A e \in tx[q].events : \A f \in outbox' : f.site = e.site => f.id < e.id
      BY <1>1, <1>2, <1>6, <3>1 DEF EventsOf
    <3>4. EventsOf(q)'
      BY <1>1, <1>2, <1>4, <2>3, <3>3 DEF EventsOf
    <3>. QED  BY <3>2, <3>4
  <2>. QED  BY <2>1, <2>2, <2>3
<1>. QED  BY <1>7, <1>8, <1>10, <1>11, <1>12, <1>13 DEF Inv

(* A path that has a row keeps one. *)
LEMMA PathStep ==
  ASSUME Inv, NEW p \in Paths, PathChanges(p)
  PROVE  Inv'
<1>1. /\ UNCHANGED <<timezone, cutoffs, outbox, nextId, stage, call, seen, checked,
                     tx, reply>>
      /\ \E st \in {"ACTIVE", "DEACTIVATED"} : status' = [status EXCEPT ![p] = st]
  BY DEF PathChanges
<1>2. Types'
  BY <1>1 DEF Inv, Types
<1>3. \A o \in Paths : status[o] # Null => status'[o] # Null
  BY <1>1, ScheduleAssumption DEF Inv, Types
<1>4. NamedInv'
  <2>1. \A r \in Requests : checked[r] \in SUBSET Paths
    BY DEF Inv, Types
  <2>2. \A e \in outbox : EligiblePaths(e.schedule) \in SUBSET Paths
    BY ScheduleTypes DEF Inv, Types, OutboxRow
  <2>. QED  BY <1>1, <1>3, <2>1, <2>2 DEF Inv, NamedInv
<1>5. OneWriter' /\ OutboxInv' /\ StoreInv'
  BY <1>1 DEF Inv, OneWriter, OutboxInv, StoreInv, Current, OnTopic
<1>6. \A r \in Requests : WritesOf(r)' /\ EventsOf(r)'
  BY <1>1 DEF Inv, WritesOf, EventsOf
<1>. QED  BY <1>2, <1>4, <1>5, <1>6 DEF Inv

LEMMA NextInv == Inv /\ [Next]_vars => Inv'
<1>. SUFFICES ASSUME Inv, [Next]_vars  PROVE Inv'
  OBVIOUS
<1>1. CASE UNCHANGED vars
  <2>1. Types' /\ OneWriter' /\ OutboxInv' /\ NamedInv'
    BY <1>1 DEF Inv, vars, Types, OneWriter, OutboxInv, NamedInv
  <2>2. StoreInv'
    BY <1>1 DEF Inv, vars, StoreInv, Current, OnTopic
  <2>3. \A r \in Requests : WritesOf(r)' /\ EventsOf(r)'
    BY <1>1 DEF Inv, vars, WritesOf, EventsOf
  <2>. QED  BY <2>1, <2>2, <2>3 DEF Inv
<1>. QED  BY <1>1, ReadSteps, CheckSteps, SaveStep, ReplaceStep, PublishStep,
             CommitStep, PathStep DEF Next

LEMMA InvAlways == Spec => []Inv
BY InitInv, NextInv, PTL DEF Spec

(* The tables of a site hold exactly what its latest event on every topic  *)
(* says, whatever PUTs raced (cpt_schedule_repo.go Save, outbox_publisher).*)
THEOREM ScheduleAgrees == Spec => []ScheduleAgreesWithOutbox
<1>1. ASSUME Inv  PROVE ScheduleAgreesWithOutbox
  <2>. SUFFICES ASSUME NEW s \in Sites, NEW t \in Topics
                PROVE  /\ timezone[s] # Null <=> OnTopic(s, t) # {}
                       /\ \A e \in OnTopic(s, t) :
                            (\A f \in OnTopic(s, t) : f.id <= e.id)
                              => Stored(s) = Sorted(e.schedule)
    BY DEF ScheduleAgreesWithOutbox
  <2>1. timezone[s] # Null <=> OnTopic(s, t) # {}
    BY <1>1 DEF Inv, StoreInv, Current
  <2>2. ASSUME NEW e \in OnTopic(s, t), \A f \in OnTopic(s, t) : f.id <= e.id
        PROVE  Stored(s) = Sorted(e.schedule)
    <3>1. PICK g \in OnTopic(s, t) : /\ \A f \in OnTopic(s, t) : f.id <= g.id
                                     /\ timezone[s] = g.schedule.timezone
                                     /\ cutoffs[s] = Range(g.schedule.cutoffs)
      BY <1>1, <2>1, <2>2 DEF Inv, StoreInv, Current
    <3>2. e.id \in Nat /\ g.id \in Nat /\ e.schedule \in Schedule
      BY <1>1 DEF Inv, Types, OutboxRow, OnTopic
    <3>3. e.id = g.id
      BY <2>2, <3>1, <3>2
    <3>4. e = g
      BY <1>1, <3>3 DEF Inv, OutboxInv, OnTopic
    <3>. QED  BY <3>1, <3>2, <3>4 DEF Stored, Sorted, Schedule
  <2>. QED  BY <2>1, <2>2
<1>. QED  BY <1>1, InvAlways, PTL

(* Check and save are not atomic, but what they name exists for good.      *)
THEOREM NamedPathsAlwaysExist == Spec => []NamedPathsExist
<1>1. ASSUME Inv  PROVE NamedPathsExist
  <2>1. ASSUME NEW s \in Sites, NEW c \in cutoffs[s], NEW p \in Range(c.eligible)
        PROVE  status[p] # Null
    <3>1. PICK e \in outbox : cutoffs[s] = Range(e.schedule.cutoffs)
      BY <1>1, <2>1 DEF Inv, StoreInv, Current, OnTopic, Topics
    <3>2. p \in EligiblePaths(e.schedule)
      BY <2>1, <3>1 DEF EligiblePaths
    <3>. QED  BY <1>1, <3>2 DEF Inv, NamedInv
  <2>. QED  BY <1>1, <2>1 DEF Inv, NamedInv, NamedPathsExist
<1>. QED  BY <1>1, InvAlways, PTL

-----------------------------------------------------------------------------
(* ORDER BY cpt_id: the cutoffs of a schedule can be put in order *)

Sortable ==
  {R \in SUBSET Cutoff : /\ IsFiniteSet(R)
                         /\ \A c, d \in R : c.cpt = d.cpt => c = d}

Increasing(s) == \A i, j \in DOMAIN s : i < j => s[i].cpt < s[j].cpt

LEMMA LeastNatural ==
  ASSUME NEW S \in SUBSET Nat, S # {}
  PROVE  \E i \in S : \A j \in S : i <= j
<1>. DEFINE R == {ss \in Nat \X Nat : ss[1] < ss[2]}
<1>1. IsWellFoundedOn(R, Nat)
  BY NatLessThanWellFounded, Zenon DEF OpToRel
<1>2. PICK i \in S : \A j \in S : ~ (<<j, i>> \in R)
  <2>. HIDE DEF R
  <2>. QED  BY <1>1, WFMin
<1>3. ASSUME NEW j \in S  PROVE i <= j
  <2>1. i \in Nat /\ j \in Nat
    OBVIOUS
  <2>2. ~ (j < i)
    BY <1>2, <2>1
  <2>. QED  BY <2>1, <2>2
<1>. QED  BY <1>3

(* The cutoff that departs first can be put before the others, in order. *)
LEMMA FirstThenRest ==
  ASSUME NEW Q \in Sortable, NEW n \in Nat, Cardinality(Q) = n, Q # {},
         \A P \in Sortable :
           Cardinality(P) < n => \E s \in [1 .. Cardinality(P) -> P] : Increasing(s)
  PROVE  \E s \in [1 .. n -> Q] : Increasing(s)
<1>. DEFINE cpts == {c.cpt : c \in Q}
<1>1. Q \in SUBSET Cutoff /\ IsFiniteSet(Q) /\ \A c, d \in Q : c.cpt = d.cpt => c = d
  BY DEF Sortable
<1>2. cpts \in SUBSET Nat /\ cpts # {}
  BY <1>1 DEF Cutoff
<1>3. PICK k \in cpts : \A j \in cpts : k <= j
  <2>. HIDE DEF cpts
  <2>. QED  BY <1>2, LeastNatural
<1>4. PICK c \in Q : k = c.cpt
  OBVIOUS
<1>. DEFINE rest == Q \ {c}
<1>5. /\ IsFiniteSet(rest) /\ Cardinality(rest) = n - 1 /\ n - 1 \in Nat
  <2>1. IsFiniteSet(rest) /\ Cardinality(rest) = n - 1
    BY <1>1, FS_RemoveElement
  <2>2. Cardinality(rest) \in Nat
    <3>. HIDE DEF rest
    <3>. QED  BY <2>1, FS_CardinalityType
  <2>. QED  BY <2>1, <2>2
<1>6. rest \in Sortable
  BY <1>1, <1>5 DEF Sortable
<1>7. PICK s \in [1 .. n - 1 -> rest] : Increasing(s)
  <2>1. Cardinality(rest) < n
    BY <1>5
  <2>. HIDE DEF rest
  <2>. QED  BY <1>5, <1>6, <2>1
<1>8. \A d \in rest : c.cpt \in Nat /\ d.cpt \in Nat /\ c.cpt < d.cpt
  <2>1. \A d \in rest : c.cpt \in Nat /\ d.cpt \in Nat /\ c.cpt <= d.cpt /\ c.cpt # d.cpt
    BY <1>1, <1>3, <1>4 DEF Cutoff
  <2>. QED  BY <2>1
<1>. DEFINE all == [i \in 1 .. n |-> IF i = 1 THEN c ELSE s[i - 1]]
<1>9. \A i \in 1 .. n : i # 1 => i - 1 \in 1 .. n - 1 /\ s[i - 1] \in rest
  BY <1>5, <1>7
<1>10. all \in [1 .. n -> Q]
  BY <1>9
<1>11. ASSUME NEW i \in 1 .. n, NEW j \in 1 .. n, i < j
       PROVE  all[i].cpt < all[j].cpt
  <2>1. j # 1 /\ all[j] = s[j - 1] /\ s[j - 1] \in rest /\ j - 1 \in 1 .. n - 1
    BY <1>9, <1>11
  <2>2. CASE i = 1
    BY <1>8, <2>1, <2>2
  <2>3. CASE i # 1
    <3>1. all[i] = s[i - 1] /\ i - 1 \in 1 .. n - 1 /\ i - 1 < j - 1
      BY <1>9, <1>11, <2>3
    <3>. QED  BY <1>7, <2>1, <3>1 DEF Increasing
  <2>. QED  BY <2>2, <2>3
<1>12. Increasing(all)
  BY <1>10, <1>11 DEF Increasing
<1>. QED  BY <1>10, <1>12

LEMMA OrderExists ==
  ASSUME NEW R \in Sortable
  PROVE  \E s \in [1 .. Cardinality(R) -> R] : Increasing(s)
<1>. DEFINE Bad == {n \in Nat : \E Q \in Sortable :
                      /\ Cardinality(Q) = n
                      /\ ~ \E s \in [1 .. n -> Q] : Increasing(s)}
<1>1. ASSUME NEW Q \in Sortable  PROVE Cardinality(Q) \in Nat
  BY FS_CardinalityType DEF Sortable
<1>2. ASSUME Bad # {}  PROVE FALSE
  <2>1. Bad \in SUBSET Nat
    OBVIOUS
  <2>2. PICK n \in Bad : \A m \in Bad : n <= m
    <3>. HIDE DEF Bad
    <3>. QED  BY <1>2, <2>1, LeastNatural
  <2>3. PICK Q \in Sortable : /\ Cardinality(Q) = n
                              /\ ~ \E s \in [1 .. n -> Q] : Increasing(s)
    OBVIOUS
  <2>4. \A P \in Sortable :
          Cardinality(P) < n => \E s \in [1 .. Cardinality(P) -> P] : Increasing(s)
    BY <1>1, <2>2
  <2>5. Q = {}
    BY <2>3, <2>4, FirstThenRest
  <2>6. n = 0
    BY <2>3, <2>5, FS_EmptySet
  <2>7. [i \in 1 .. 0 |-> i] \in [1 .. n -> Q] /\ Increasing([i \in 1 .. 0 |-> i])
    BY <2>6 DEF Increasing
  <2>. QED  BY <2>3, <2>7
<1>. QED  BY <1>1, <1>2

(* What FindBySiteID returns of a site's rows: all of them, in order. *)
LEMMA OrderFacts ==
  ASSUME NEW R \in Sortable
  PROVE  InOrder(R) \in Seq(Cutoff) /\ Range(InOrder(R)) = R
<1>. DEFINE s == InOrder(R)
            n == Cardinality(R)
<1>1. R \in SUBSET Cutoff /\ IsFiniteSet(R) /\ n \in Nat
  BY FS_CardinalityType DEF Sortable
<1>2. s \in [1 .. n -> R] /\ \A i, j \in DOMAIN s : i < j => s[i].cpt < s[j].cpt
  BY OrderExists DEF Increasing, InOrder
<1>3. IsFiniteSet(1 .. n) /\ Cardinality(1 .. n) = n
  BY <1>1, FS_Interval
<1>. HIDE DEF s, n
<1>4. s \in Injection(1 .. n, R)
  <2>1. ASSUME NEW i \in 1 .. n, NEW j \in 1 .. n, s[i] = s[j]  PROVE i = j
    <3>1. s[i].cpt \in Nat
      BY <1>1, <1>2 DEF Cutoff
    <3>2. ~ (i < j) /\ ~ (j < i)
      BY <1>2, <2>1, <3>1
    <3>. QED  BY <1>1, <3>2
  <2>. QED  BY <1>2, <2>1 DEF Injection, IsInjective
<1>5. s \in Surjection(1 .. n, R)
  BY <1>1, <1>3, <1>4, FS_Injection DEF n
<1>6. Range(s) = R
  BY <1>2, <1>5 DEF Range, Surjection
<1>7. s \in Seq(Cutoff)
  BY <1>1, <1>2
<1>. QED  BY <1>6, <1>7 DEF s

LEMMA RangeSortable ==
  ASSUME NEW body \in Schedule, IsValid(body)
  PROVE  Range(body.cutoffs) \in Sortable
<1>. DEFINE s == body.cutoffs
<1>1. /\ s \in Seq(Cutoff) /\ Len(s) \in Nat /\ DOMAIN s = 1 .. Len(s)
      /\ Range(s) \in SUBSET Cutoff
      /\ \A i, j \in DOMAIN s : s[i].cpt = s[j].cpt => i = j
  BY ScheduleTypes DEF IsValid
<1>. HIDE DEF s
<1>2. s \in Surjection(1 .. Len(s), Range(s))
  BY <1>1 DEF Surjection, Range
<1>3. IsFiniteSet(1 .. Len(s))
  BY <1>1, FS_Interval
<1>4. IsFiniteSet(Range(s))
  BY <1>2, <1>3, FS_Surjection
<1>5. \A c, d \in Range(s) : c.cpt = d.cpt => c = d
  BY <1>1 DEF Range
<1>. QED  BY <1>1, <1>4, <1>5 DEF Sortable, s

(* Sorting what is sorted changes nothing. *)
LEMMA SortedTwice ==
  ASSUME NEW body \in Schedule, IsValid(body)
  PROVE  /\ InOrder(Range(body.cutoffs)) \in Seq(Cutoff)
         /\ InOrder(Range(InOrder(Range(body.cutoffs)))) = InOrder(Range(body.cutoffs))
BY RangeSortable, OrderFacts

-----------------------------------------------------------------------------
(* The inductive invariants *)

(* What the request has read: the timezone of one published schedule and,  *)
(* after the second statement, the cutoffs of that one or a later one.     *)
Straddles(r) ==
  \E e, f \in OnTopic(call[r].site, "integration") :
    /\ e.id <= f.id
    /\ seen[r].timezone = e.schedule.timezone
    /\ seen[r].cutoffs = Sorted(f.schedule).cutoffs

SeenInv(r) ==
  /\ seen[r] = Null \/ seen[r] \in Schedule
  /\ stage[r] \in {"new", "header"} => seen[r] = Null
  /\ stage[r] = "cutoffs" =>
       \E e \in OnTopic(call[r].site, "integration") :
         seen[r] = [timezone |-> e.schedule.timezone, cutoffs |-> <<>>]
  /\ seen[r] # Null /\ stage[r] # "cutoffs" /\ seen[r].cutoffs # <<>> => Straddles(r)

(* What a PUT that was answered 200 did, or found done. *)
TookEffect(r) ==
  LET body == Sorted(call[r].body)
  IN \E e, f \in OnTopic(call[r].site, "integration") :
       /\ e.schedule.timezone = body.timezone
       /\ Sorted(f.schedule).cutoffs = body.cutoffs
       /\ e = f \/ (e.id < f.id /\ seen[r] = body)

ReplyInv(r) ==
  /\ reply[r] # Null => stage[r] = "done"
  /\ reply[r] = 200 /\ call[r].op = "put" => TookEffect(r)

ReadInv == \A r \in Requests : SeenInv(r) /\ ReplyInv(r)

-----------------------------------------------------------------------------
(* Steps *)

LEMMA PublishedStays ==
  ASSUME outbox \subseteq outbox', NEW s, NEW t
  PROVE  OnTopic(s, t) \subseteq OnTopic(s, t)'
BY DEF OnTopic

(* What a request has read remains true while the outbox grows. *)
LEMMA SeenKept ==
  ASSUME NEW r, SeenInv(r), outbox \subseteq outbox',
         call'[r] = call[r], seen'[r] = seen[r],
         \/ stage'[r] = stage[r]
         \/ stage'[r] \notin {"new", "header", "cutoffs"}
  PROVE  SeenInv(r)'
<1>1. OnTopic(call[r].site, "integration") \subseteq OnTopic(call[r].site, "integration")'
  BY PublishedStays
<1>2. Straddles(r) => Straddles(r)'
  BY <1>1 DEF Straddles, Sorted, InOrder
<1>3. CASE stage'[r] = stage[r]
  BY <1>1, <1>2, <1>3 DEF SeenInv
<1>4. CASE stage'[r] \notin {"new", "header", "cutoffs"}
  <2>1. ASSUME stage[r] = "cutoffs"  PROVE seen[r].cutoffs = <<>>
    <3>1. PICK e : seen[r] = [timezone |-> e.schedule.timezone, cutoffs |-> <<>>]
      BY <2>1 DEF SeenInv
    <3>. QED  BY <3>1
  <2>. QED  BY <1>2, <1>4, <2>1 DEF SeenInv
<1>. QED  BY <1>3, <1>4

LEMMA EffectKept ==
  ASSUME NEW r, TookEffect(r), outbox \subseteq outbox',
         call'[r] = call[r], seen'[r] = seen[r]
  PROVE  TookEffect(r)'
<1>1. OnTopic(call[r].site, "integration") \subseteq OnTopic(call[r].site, "integration")'
  BY PublishedStays
<1>. QED  BY <1>1 DEF TookEffect, Sorted, InOrder

LEMMA ReplyKept ==
  ASSUME NEW r, ReplyInv(r), outbox \subseteq outbox',
         call'[r] = call[r], seen'[r] = seen[r], reply'[r] = reply[r],
         stage'[r] = stage[r] \/ stage[r] # "done"
  PROVE  ReplyInv(r)'
BY EffectKept DEF ReplyInv

(* The outbox only grows, and a request's step leaves the others alone. *)
LEMMA OthersUntouched ==
  ASSUME Types, NEW r \in Requests,
         \/ Arrive(r) \/ ReadHeader(r) \/ ReadCutoffs(r) \/ CheckPath(r)
         \/ Decide(r) \/ Save(r) \/ Replace(r) \/ Publish(r) \/ Commit(r)
         \/ RollBack(r)
  PROVE  /\ outbox \subseteq outbox'
         /\ \A q \in Requests \ {r} :
              /\ call'[q] = call[q] /\ seen'[q] = seen[q]
              /\ reply'[q] = reply[q] /\ stage'[q] = stage[q]
<1>. USE DEF Types, Goto, Answer, tables
<1>1. CASE Arrive(r)
  BY <1>1 DEF Arrive
<1>2. CASE ReadHeader(r)
  BY <1>2 DEF ReadHeader, AfterFind
<1>3. CASE ReadCutoffs(r)
  BY <1>3 DEF ReadCutoffs, AfterFind
<1>4. CASE CheckPath(r)
  BY <1>4 DEF CheckPath
<1>5. CASE Decide(r)
  BY <1>5 DEF Decide
<1>6. CASE Save(r) \/ Replace(r)
  BY <1>6 DEF Save, Replace
<1>7. CASE Publish(r)
  BY <1>7 DEF Publish
<1>8. CASE Commit(r)
  BY <1>8 DEF Commit
<1>9. CASE RollBack(r)
  BY <1>9 DEF RollBack
<1>. QED  BY <1>1, <1>2, <1>3, <1>4, <1>5, <1>6, <1>7, <1>8, <1>9

LEMMA ArriveReads ==
  ASSUME Types, NEW r \in Requests, SeenInv(r), ReplyInv(r), Arrive(r)
  PROVE  SeenInv(r)' /\ ReplyInv(r)'
<1>1. /\ seen'[r] = Null /\ stage'[r] \in {"header", "done"}
      /\ reply'[r] \in {400, 422} \/ reply'[r] = Null
      /\ reply'[r] # Null => stage'[r] = "done"
  BY DEF Types, Arrive, Answer, Goto, SeenInv, ReplyInv
<1>. QED  BY <1>1, ScheduleAssumption DEF SeenInv, ReplyInv, Codes

(* FindBySiteID's end: a GET is answered, a PUT goes on. *)
LEMMA AfterFindReplies ==
  ASSUME Types, NEW r \in Requests, ReplyInv(r), stage[r] # "done", AfterFind(r),
         call' = call
  PROVE  ReplyInv(r)' /\ stage'[r] \in {"check", "done"}
BY ScheduleAssumption DEF Types, AfterFind, Answer, Goto, ReplyInv, Codes

LEMMA HeaderReads ==
  ASSUME Inv, NEW r \in Requests, SeenInv(r), ReplyInv(r), ReadHeader(r)
  PROVE  SeenInv(r)' /\ ReplyInv(r)'
<1>. DEFINE s == call[r].site
<1>1. /\ Types /\ stage[r] = "header" /\ s \in Sites /\ seen[r] = Null
      /\ UNCHANGED <<outbox, call>>
  BY CallTypes DEF Inv, Types, ReadHeader, SeenInv, tables
<1>2. CASE timezone[s] = Null
  <2>1. UNCHANGED seen /\ AfterFind(r)
    BY <1>2 DEF ReadHeader
  <2>2. ReplyInv(r)' /\ stage'[r] \in {"check", "done"}
    BY <1>1, <2>1, AfterFindReplies
  <2>. QED  BY <1>1, <2>1, <2>2, SeenKept
<1>3. CASE timezone[s] # Null
  <2>1. /\ seen' = [seen EXCEPT ![r] = [timezone |-> timezone[s], cutoffs |-> <<>>]]
        /\ Goto(r, "cutoffs") /\ UNCHANGED reply
    BY <1>3 DEF ReadHeader
  <2>2. /\ seen'[r] = [timezone |-> timezone[s], cutoffs |-> <<>>]
        /\ stage'[r] = "cutoffs" /\ reply'[r] = Null
    BY <1>1, <2>1 DEF Types, Goto, ReplyInv
  <2>3. PICK e \in OnTopic(s, "integration") : timezone[s] = e.schedule.timezone
    BY <1>1, <1>3 DEF Inv, StoreInv, Current, Topics
  <2>4. seen'[r] \in Schedule
    BY <1>1, <1>3, <2>2 DEF Types, Schedule
  <2>5. e \in OnTopic(call[r].site, "integration")'
    BY <1>1 DEF OnTopic
  <2>6. SeenInv(r)'
    BY <2>2, <2>3, <2>4, <2>5 DEF SeenInv
  <2>7. ReplyInv(r)'
    BY <2>2, ScheduleAssumption DEF ReplyInv, Codes
  <2>. QED  BY <2>6, <2>7
<1>. QED  BY <1>2, <1>3

(* The second statement sees the latest schedule, which is not older than  *)
(* the one whose timezone was read.                                        *)
LEMMA CutoffsReads ==
  ASSUME Inv, NEW r \in Requests, SeenInv(r), ReplyInv(r), ReadCutoffs(r)
  PROVE  SeenInv(r)' /\ ReplyInv(r)'
<1>. DEFINE s == call[r].site
<1>1. /\ Types /\ stage[r] = "cutoffs" /\ s \in Sites
      /\ UNCHANGED <<outbox, call>> /\ AfterFind(r)
      /\ seen' = [seen EXCEPT ![r].cutoffs = InOrder(cutoffs[s])]
  BY CallTypes DEF Inv, Types, ReadCutoffs, tables
<1>2. PICK e \in OnTopic(s, "integration") :
        seen[r] = [timezone |-> e.schedule.timezone, cutoffs |-> <<>>]
  BY <1>1 DEF SeenInv
<1>3. PICK f \in OnTopic(s, "integration") :
        /\ \A g \in OnTopic(s, "integration") : g.id <= f.id
        /\ cutoffs[s] = Range(f.schedule.cutoffs)
  BY <1>1, <1>2 DEF Inv, StoreInv, Current, Topics
<1>4. /\ e.schedule \in Schedule /\ f.schedule \in Schedule /\ IsValid(f.schedule)
  BY <1>1 DEF Inv, Types, OutboxInv, OnTopic, OutboxRow
<1>5. InOrder(cutoffs[s]) \in Seq(Cutoff)
  BY <1>3, <1>4, SortedTwice
<1>6. seen'[r] = [timezone |-> e.schedule.timezone, cutoffs |-> InOrder(cutoffs[s])]
  BY <1>1, <1>2 DEF Types
<1>7. seen'[r] \in Schedule
  BY <1>4, <1>5, <1>6, ScheduleTypes DEF Schedule
<1>8. Sorted(f.schedule).cutoffs = InOrder(cutoffs[s])
  BY <1>3, <1>4 DEF Sorted, Schedule
<1>9. Straddles(r)'
  <2>1. {e, f} \subseteq OnTopic(call[r].site, "integration")'
    BY <1>1 DEF OnTopic
  <2>2. /\ e.id <= f.id
        /\ seen'[r].timezone = e.schedule.timezone
        /\ seen'[r].cutoffs = Sorted(f.schedule).cutoffs
    BY <1>3, <1>6, <1>8
  <2>. QED  BY <2>1, <2>2 DEF Straddles, Sorted, InOrder
<1>10. ReplyInv(r)' /\ stage'[r] \in {"check", "done"}
  BY <1>1, AfterFindReplies
<1>. QED  BY <1>7, <1>9, <1>10 DEF SeenInv

(* A step that answers no PUT with 200 and reads nothing. *)
LEMMA QuietReply ==
  ASSUME Types, NEW r \in Requests, SeenInv(r), ReplyInv(r),
         outbox \subseteq outbox', UNCHANGED <<call, seen>>, stage[r] # "done",
         \/ UNCHANGED reply /\ stage'[r] \notin {"new", "header", "cutoffs"}
         \/ \E c \in Codes \ {200} : Answer(r, c)
  PROVE  SeenInv(r)' /\ ReplyInv(r)'
<1>1. CASE UNCHANGED reply /\ stage'[r] \notin {"new", "header", "cutoffs"}
  BY <1>1, SeenKept, ReplyKept
<1>2. CASE \E c \in Codes \ {200} : Answer(r, c)
  <2>1. stage'[r] = "done" /\ reply'[r] # 200
    BY <1>2 DEF Types, Answer, Goto
  <2>. QED  BY <2>1, SeenKept DEF ReplyInv
<1>. QED  BY <1>1, <1>2

(* A PUT found equal to what it read: what it read was published. *)
LEMMA DecideReads ==
  ASSUME Inv, NEW r \in Requests, SeenInv(r), ReplyInv(r), Decide(r)
  PROVE  SeenInv(r)' /\ ReplyInv(r)'
<1>. DEFINE body == call[r].body
<1>1. /\ Types /\ stage[r] = "check" /\ call[r] \in Call /\ body \in Schedule
      /\ UNCHANGED <<outbox, call, seen>>
  BY CallTypes DEF Inv, Types, Decide, tables
<1>2. CASE call[r].form # "ok" \/ ~IsValid(body)
  <2>1. Answer(r, 422) /\ 422 \in Codes \ {200}
    BY <1>2 DEF Decide, Codes
  <2>. QED  BY <1>1, <2>1, QuietReply
<1>3. CASE IsValid(body) /\ seen[r] = body /\ Answer(r, 200)
  <2>1. seen[r] # Null /\ seen[r].cutoffs # <<>>
    BY <1>1, <1>3, ScheduleAssumption DEF IsValid
  <2>2. PICK e, f \in OnTopic(call[r].site, "integration") :
          /\ e.id <= f.id
          /\ body.timezone = e.schedule.timezone
          /\ body.cutoffs = Sorted(f.schedule).cutoffs
    BY <1>1, <1>3, <2>1 DEF SeenInv, Straddles
  <2>3. /\ f.schedule \in Schedule /\ IsValid(f.schedule)
        /\ e.id \in Nat /\ f.id \in Nat
        /\ e.id = f.id => e = f
    BY <1>1 DEF Inv, Types, OutboxInv, OnTopic, OutboxRow
  <2>4. body.cutoffs = InOrder(Range(f.schedule.cutoffs))
    BY <2>2, <2>3 DEF Sorted, Schedule
  <2>5. InOrder(Range(body.cutoffs)) = body.cutoffs
    BY <2>3, <2>4, SortedTwice
  <2>6. Sorted(body) = body
    BY <1>1, <2>5 DEF Sorted, Schedule
  <2>7. e = f \/ e.id < f.id
    BY <2>2, <2>3
  <2>. HIDE DEF body
  <2>8. TookEffect(r)
    BY <1>3, <2>2, <2>6, <2>7 DEF TookEffect, body
  <2>9. TookEffect(r)'
    BY <1>1, <2>8, EffectKept
  <2>10. stage'[r] = "done"
    BY <1>1, <1>3 DEF Types, Answer, Goto
  <2>. QED  BY <1>1, <2>9, <2>10, SeenKept DEF ReplyInv
<1>4. CASE Goto(r, "save") /\ UNCHANGED <<tx, reply>>
  <2>1. stage'[r] = "save"
    BY <1>1, <1>4 DEF Types, Goto
  <2>. QED  BY <1>1, <1>4, <2>1, QuietReply
<1>. QED  BY <1>2, <1>3, <1>4 DEF Decide

(* A PUT that commits has published its own schedule. *)
LEMMA CommitReads ==
  ASSUME Inv, NEW r \in Requests, SeenInv(r), ReplyInv(r), Commit(r)
  PROVE  SeenInv(r)' /\ ReplyInv(r)'
<1>1. /\ Types /\ stage[r] = "commit" /\ call[r] \in Call /\ call[r].body \in Schedule
      /\ UNCHANGED <<call, seen>> /\ outbox' = outbox \cup tx[r].events
  BY CallTypes DEF Inv, Types, Commit
<1>2. PICK e \in tx[r].events : e.topic = "integration"
  BY <1>1 DEF Inv, EventsOf, Topics
<1>3. e.site = call[r].site /\ e.schedule = call[r].body
  BY <1>2 DEF Inv, EventsOf
<1>4. e \in OnTopic(call[r].site, "integration")'
  BY <1>1, <1>2, <1>3 DEF OnTopic
<1>5. Sorted(call[r].body).timezone = call[r].body.timezone
  BY <1>1 DEF Sorted, Schedule
<1>6. TookEffect(r)'
  BY <1>1, <1>3, <1>4, <1>5 DEF TookEffect, Sorted, InOrder
<1>7. stage'[r] = "done"
  BY <1>1 DEF Types, Commit, Answer, Goto
<1>. QED  BY <1>1, <1>6, <1>7, SeenKept DEF ReplyInv

LEMMA OtherReads ==
  ASSUME Types, NEW r \in Requests, SeenInv(r), ReplyInv(r),
         CheckPath(r) \/ Save(r) \/ Replace(r) \/ Publish(r) \/ RollBack(r)
  PROVE  SeenInv(r)' /\ ReplyInv(r)'
<1>1. CASE CheckPath(r)
  <2>1. /\ stage[r] = "check" /\ UNCHANGED <<outbox, call, seen>>
        /\ UNCHANGED <<stage, reply>> \/ Answer(r, 422)
    BY <1>1 DEF CheckPath, tables
  <2>. QED  BY <2>1, QuietReply DEF Codes
<1>2. CASE Save(r) \/ Replace(r) \/ Publish(r)
  <2>1. /\ stage[r] # "done" /\ UNCHANGED <<outbox, call, seen, reply>>
        /\ \E s \in {"replace", "integration", "analytics", "commit"} : Goto(r, s)
    BY <1>2 DEF Save, Replace, Publish, tables, Topics
  <2>2. stage'[r] \notin {"new", "header", "cutoffs"}
    BY <2>1 DEF Types, Goto
  <2>. QED  BY <2>1, <2>2, QuietReply
<1>3. CASE RollBack(r)
  <2>1. stage[r] # "done" /\ UNCHANGED <<outbox, call, seen>> /\ Answer(r, 500)
    BY <1>3 DEF RollBack, tables
  <2>. QED  BY <2>1, QuietReply DEF Codes
<1>. QED  BY <1>1, <1>2, <1>3

LEMMA NextReadInv == Inv /\ ReadInv /\ [Next]_vars => ReadInv'
<1>. SUFFICES ASSUME Inv, ReadInv, [Next]_vars, NEW q \in Requests
              PROVE  SeenInv(q)' /\ ReplyInv(q)'
  BY DEF ReadInv
<1>1. Types /\ SeenInv(q) /\ ReplyInv(q)
  BY DEF Inv, ReadInv
<1>2. CASE UNCHANGED vars \/ \E p \in Paths : PathChanges(p)
  <2>1. UNCHANGED <<outbox, stage, call, seen, reply>>
    BY <1>2 DEF vars, PathChanges
  <2>. QED  BY <1>1, <2>1, SeenKept, ReplyKept
<1>3. ASSUME NEW r \in Requests,
             \/ Arrive(r) \/ ReadHeader(r) \/ ReadCutoffs(r) \/ CheckPath(r)
             \/ Decide(r) \/ Save(r) \/ Replace(r) \/ Publish(r) \/ Commit(r)
             \/ RollBack(r)
      PROVE  SeenInv(q)' /\ ReplyInv(q)'
  <2>1. CASE q = r
    BY <1>1, <1>3, <2>1, ArriveReads, HeaderReads, CutoffsReads, DecideReads,
       CommitReads, OtherReads
  <2>2. CASE q # r
    BY <1>1, <1>3, <2>2, OthersUntouched, SeenKept, ReplyKept
  <2>. QED  BY <2>1, <2>2
<1>. QED  BY <1>2, <1>3 DEF Next

LEMMA ReadInvAlways == Spec => []ReadInv
<1>1. Init => ReadInv
  BY ScheduleAssumption DEF Init, ReadInv, SeenInv, ReplyInv, Codes
<1>. QED  BY <1>1, InvAlways, NextReadInv, PTL DEF Spec

-----------------------------------------------------------------------------
(* Theorems *)

(* Type correctness, for any number of requests, sites, paths and calls.   *)
THEOREM ScheduleTypeCorrect == Spec => []TypeOK
<1>1. Inv /\ ReadInv => TypeOK
  <2>. SUFFICES ASSUME Inv, ReadInv  PROVE TypeOK
    OBVIOUS
  <2>1. ASSUME NEW r \in Requests
        PROVE  /\ seen[r] = Null \/ seen[r] \in Schedule
               /\ tx[r] \in WriteSet
               /\ stage[r] # "new" => call[r] \in Call
               /\ tx[r].timezone # Null =>
                    stage[r] \in {"replace", "commit"} \cup Topics
    BY DEF Inv, ReadInv, SeenInv, Types, WritesOf, Writing, NoWrites, Topics
  <2>. QED  BY <2>1 DEF Inv, Types, TypeOK, WriteSet
<1>. QED  BY <1>1, InvAlways, ReadInvAlways, PTL

(* A read outside a transaction is torn one way only: never are cutoffs    *)
(* paired with a timezone that was published after them.                   *)
THEOREM ReadsOnlyMoveForward == Spec => []ReadsMoveForward
<1>1. ReadInv => ReadsMoveForward
  BY DEF ReadInv, SeenInv, Straddles, ReadsMoveForward
<1>. QED  BY <1>1, ReadInvAlways, PTL

(* A PUT that was answered 200 is a schedule the site had, or asked for    *)
(* just the mixture that it had read.                                      *)
THEOREM AnsweredPutsTookEffect == Spec => []AnsweredPutTookEffect
<1>1. ReadInv => AnsweredPutTookEffect
  BY DEF ReadInv, ReplyInv, TookEffect, AnsweredPutTookEffect
<1>. QED  BY <1>1, ReadInvAlways, PTL
=============================================================================
