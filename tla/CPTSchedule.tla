----------------------------- MODULE CPTSchedule -----------------------------
(***************************************************************************)
(* The CPT schedules over Postgres: concurrent PUT (DefineCPTSchedule) and *)
(* GET (GetCPTSchedule) requests for a site's schedule, while operators    *)
(* define and deactivate the process paths its cutoffs name.               *)
(*                                                                         *)
(* A schedule is a row of cpt_schedules and its rows of                    *)
(* cpt_schedule_cutoffs.  It is read by two statements and outside any     *)
(* transaction, and written in one; as in PathCatalogue, tx[r] is the      *)
(* private write set of a request, and its uncommitted row of              *)
(* cpt_schedules makes the next upsert of that site wait.                  *)
(***************************************************************************)
EXTENDS Integers, Sequences, FiniteSets, Functions

CONSTANTS
  Requests,    \* HTTP requests, each handled once
  Sites,       \* SiteIds
  Paths,       \* PathIds
  Timezones,   \* IANA zone names
  Departures,  \* values of (localTime, daysOfWeek, shipMethod)
  Calls,       \* the calls a request may make
  Null         \* nil, SQL NULL, no row

(* A cutoff; its cptId is a number, in the order ORDER BY cpt_id gives. *)
Cutoff == [cpt: Nat, departure: Departures, eligible: Seq(Paths)]

Schedule == [timezone: Timezones, cutoffs: Seq(Cutoff)]

(* "malformed" JSON is refused by the decoder, a "badCutoff" by NewCutoff, *)
(* a "badTimezone" by validate.                                            *)
Forms == {"ok", "malformed", "badCutoff", "badTimezone"}

Call == [op: {"put", "get"}, site: Sites, form: Forms, body: Schedule]

Topics == {"integration", "analytics"}

Stages == {"new", "header", "cutoffs", "check", "decide", "save", "replace"}
            \cup Topics \cup {"commit", "done"}

Codes == {200, 400, 404, 422, 500}

OutboxRow == [id: Nat, topic: Topics, site: Sites, schedule: Schedule]

ASSUME ScheduleAssumption ==
  /\ Calls \subseteq Call
  /\ Null \notin Timezones \cup Schedule \cup Call \cup Codes
                  \cup {"ACTIVE", "DEACTIVATED"}

NoWrites == [timezone |-> Null, cutoffs |-> {}, events |-> {}]

VARIABLES
  timezone,  \* cpt_schedules: the committed row of each site
  cutoffs,   \* cpt_schedule_cutoffs: the committed rows of each site
  outbox,    \* outbox_events: the committed rows
  nextId,    \* its BIGSERIAL
  status,    \* the committed status of each process path, Null before it has one
  stage,     \* where each request stands
  call,      \* what each request asks for
  seen,      \* the schedule each request has read
  checked,   \* the PathIds a request has looked up
  tx,        \* the write set of each request's open transaction
  reply      \* the status code each client received

vars == <<timezone, cutoffs, outbox, nextId, status, stage, call, seen,
          checked, tx, reply>>

tables == <<timezone, cutoffs, outbox, nextId, status>>

TypeOK ==
  /\ timezone \in [Sites -> Timezones \cup {Null}]
  /\ \A s \in Sites : cutoffs[s] \subseteq Cutoff
  /\ outbox \subseteq OutboxRow
  /\ nextId \in Nat
  /\ status \in [Paths -> {"ACTIVE", "DEACTIVATED", Null}]
  /\ stage \in [Requests -> Stages]
  /\ call \in [Requests -> Call \cup {Null}]
  /\ checked \in [Requests -> SUBSET Paths]
  /\ reply \in [Requests -> Codes \cup {Null}]
  /\ \A r \in Requests :
       /\ seen[r] = Null \/ seen[r] \in Schedule
       /\ tx[r] \in [timezone: Timezones \cup {Null}, cutoffs: SUBSET Cutoff,
                     events: SUBSET OutboxRow]
       /\ stage[r] # "new" => call[r] \in Call
       /\ tx[r].timezone # Null =>
            stage[r] \in {"replace", "commit"} \cup Topics

Init ==
  /\ timezone = [s \in Sites |-> Null]
  /\ cutoffs = [s \in Sites |-> {}]
  /\ outbox = {}
  /\ nextId = 1
  /\ status = [p \in Paths |-> Null]
  /\ stage = [r \in Requests |-> "new"]
  /\ call = [r \in Requests |-> Null]
  /\ seen = [r \in Requests |-> Null]
  /\ checked = [r \in Requests |-> {}]
  /\ tx = [r \in Requests |-> NoWrites]
  /\ reply = [r \in Requests |-> Null]

-----------------------------------------------------------------------------
(* The aggregate *)

(* What NewCutoff and validate have not refused before: at least one       *)
(* cutoff, and no cptId twice.                                             *)
IsValid(body) ==
  /\ body.cutoffs # <<>>
  /\ \A i, j \in DOMAIN body.cutoffs :
       body.cutoffs[i].cpt = body.cutoffs[j].cpt => i = j

(* The rows of a site in the order ORDER BY cpt_id reads them. *)
InOrder(rows) ==
  CHOOSE s \in [1 .. Cardinality(rows) -> rows] :
    \A i, j \in DOMAIN s : i < j => s[i].cpt < s[j].cpt

EligiblePaths(body) == UNION {Range(c.eligible) : c \in Range(body.cutoffs)}

Holds(r, s) == tx[r].timezone # Null /\ call[r].site = s

-----------------------------------------------------------------------------
(* The steps of a request *)

Goto(r, s) == stage' = [stage EXCEPT ![r] = s]

(* Mutant of Answer: the transaction is left open. *)
AnswerOnly(r, c) ==
  /\ reply' = [reply EXCEPT ![r] = c]
  /\ Goto(r, "done")
  /\ UNCHANGED tx

(* The response is sent, the transaction (if one is open) rolled back. *)
Answer(r, c) ==
  /\ reply' = [reply EXCEPT ![r] = c]
  /\ tx' = [tx EXCEPT ![r] = NoWrites]
  /\ Goto(r, "done")

(* A request comes in; the handler refuses a body it cannot decode. *)
Arrive(r) ==
  /\ stage[r] = "new"
  /\ \E c \in Calls :
       /\ call' = [call EXCEPT ![r] = c]
       /\ IF c.form = "malformed" THEN Answer(r, 400)
          ELSE IF c.form = "badCutoff" THEN Answer(r, 422)
          ELSE Goto(r, "header") /\ UNCHANGED <<tx, reply>>
  /\ UNCHANGED <<tables, seen, checked>>

(* Where FindBySiteID returns to. *)
AfterFind(r) ==
  IF call[r].op = "put"
  THEN Goto(r, "check") /\ UNCHANGED <<tx, reply>>
  ELSE Answer(r, IF seen'[r] = Null THEN 404 ELSE 200)

(* FindBySiteID's SELECT from cpt_schedules. *)
ReadHeader(r) ==
  LET s == call[r].site
  IN /\ stage[r] = "header"
     /\ IF timezone[s] = Null
        THEN /\ UNCHANGED seen
             /\ AfterFind(r)
        ELSE /\ seen' = [seen EXCEPT ![r] = [timezone |-> timezone[s],
                                             cutoffs |-> <<>>]]
             /\ Goto(r, "cutoffs")
             /\ UNCHANGED <<tx, reply>>
     /\ UNCHANGED <<tables, call, checked>>

(* FindBySiteID's SELECT from cpt_schedule_cutoffs, a snapshot of its own. *)
ReadCutoffs(r) ==
  /\ stage[r] = "cutoffs"
  /\ seen' = [seen EXCEPT ![r].cutoffs = InOrder(cutoffs[call[r].site])]
  /\ AfterFind(r)
  /\ UNCHANGED <<tables, call, checked>>

Unchecked(r) == EligiblePaths(call[r].body) \ checked[r]

(* validateEligiblePathIds: one FindByID per distinct path, each a read of *)
(* its own.  Their order decides nothing: any refusal ends the request     *)
(* with the same code.                                                     *)
CheckPath(r) ==
  /\ stage[r] = "check"
  /\ \E p \in Unchecked(r) :
       IF status[p] = "ACTIVE"
       THEN /\ checked' = [checked EXCEPT ![r] = @ \cup {p}]
            /\ UNCHANGED <<stage, tx, reply>>
       ELSE Answer(r, 422) /\ UNCHANGED checked
  /\ UNCHANGED <<tables, call, seen>>

(* Mutants of Decide: the paths are not checked; only the timezone is      *)
(* compared.                                                               *)
DecideUnchecked(r) ==
  LET body == call[r].body
  IN /\ stage[r] = "check"
     /\ IF call[r].form # "ok" \/ ~IsValid(body) THEN Answer(r, 422)
        ELSE IF seen[r] = body THEN Answer(r, 200)
        ELSE Goto(r, "save") /\ UNCHANGED <<tx, reply>>
     /\ UNCHANGED <<tables, call, seen, checked>>

DecideByTimezone(r) ==
  LET body == call[r].body
  IN /\ stage[r] = "check"
     /\ Unchecked(r) = {}
     /\ IF call[r].form # "ok" \/ ~IsValid(body) THEN Answer(r, 422)
        ELSE IF seen[r] # Null /\ seen[r].timezone = body.timezone
        THEN Answer(r, 200)
        ELSE Goto(r, "save") /\ UNCHANGED <<tx, reply>>
     /\ UNCHANGED <<tables, call, seen, checked>>

(* Define or Revise: refuse what validate refuses, answer a schedule equal *)
(* to the one read without writing, go on to write any other.              *)
Decide(r) ==
  LET body == call[r].body
  IN /\ stage[r] = "check"
     /\ Unchecked(r) = {}
     /\ IF call[r].form # "ok" \/ ~IsValid(body) THEN Answer(r, 422)
        ELSE IF seen[r] = body THEN Answer(r, 200)
        ELSE Goto(r, "save") /\ UNCHANGED <<tx, reply>>
     /\ UNCHANGED <<tables, call, seen, checked>>

(* Mutant of Save: the upsert does not wait. *)
SaveWithoutLock(r) ==
  /\ stage[r] = "save"
  /\ tx' = [tx EXCEPT ![r].timezone = call[r].body.timezone]
  /\ Goto(r, "replace")
  /\ UNCHANGED <<tables, call, seen, checked, reply>>

(* BEGIN and the upsert of the site's row, which waits for a transaction   *)
(* that has written it.                                                    *)
Save(r) ==
  /\ stage[r] = "save"
  /\ \A q \in Requests \ {r} : ~Holds(q, call[r].site)
  /\ tx' = [tx EXCEPT ![r].timezone = call[r].body.timezone]
  /\ Goto(r, "replace")
  /\ UNCHANGED <<tables, call, seen, checked, reply>>

(* Mutant of Replace: no DELETE; an upsert for each cutoff. *)
ReplaceKeepsOthers(r) ==
  LET rows == Range(call[r].body.cutoffs)
      kept == {c \in cutoffs[call[r].site] : \A d \in rows : d.cpt # c.cpt}
  IN /\ stage[r] = "replace"
     /\ tx' = [tx EXCEPT ![r].cutoffs = kept \cup rows]
     /\ Goto(r, "integration")
     /\ UNCHANGED <<tables, call, seen, checked, reply>>

(* The DELETE of the site's cutoffs and the INSERT of each of the body's:  *)
(* statements of one transaction under the lock Save took, so nobody sees  *)
(* how far they have got.                                                  *)
Replace(r) ==
  /\ stage[r] = "replace"
  /\ tx' = [tx EXCEPT ![r].cutoffs = Range(call[r].body.cutoffs)]
  /\ Goto(r, "integration")
  /\ UNCHANGED <<tables, call, seen, checked, reply>>

(* OutboxPublisher.Publish of CPTScheduleChanged, one INSERT per topic. *)
Publish(r) ==
  /\ stage[r] \in Topics
  /\ tx' = [tx EXCEPT ![r].events = @ \cup
              {[id |-> nextId, topic |-> stage[r], site |-> call[r].site,
                schedule |-> call[r].body]}]
  /\ nextId' = nextId + 1
  /\ Goto(r, IF stage[r] = "integration" THEN "analytics" ELSE "commit")
  /\ UNCHANGED <<timezone, cutoffs, outbox, status, call, seen, checked, reply>>

(* COMMIT, its acknowledgement lost or not. *)
Commit(r) ==
  /\ stage[r] = "commit"
  /\ timezone' = [timezone EXCEPT ![call[r].site] = tx[r].timezone]
  /\ cutoffs' = [cutoffs EXCEPT ![call[r].site] = tx[r].cutoffs]
  /\ outbox' = outbox \cup tx[r].events
  /\ \E c \in {200, 500} : Answer(r, c)
  /\ UNCHANGED <<nextId, status, call, seen, checked>>

(* A statement fails or the process dies: nothing of the transaction stays.*)
RollBack(r) ==
  /\ stage[r] \notin {"new", "done"}
  /\ Answer(r, 500)
  /\ UNCHANGED <<tables, call, seen, checked>>

(* A path's row is inserted or its status changes.  Rows are never deleted;*)
(* a stale PUT may even reactivate a path (PathCatalogue's "resurrection").*)
PathChanges(p) ==
  /\ \E st \in {"ACTIVE", "DEACTIVATED"} \ {status[p]} :
       /\ status[p] = Null => st = "ACTIVE"
       /\ status' = [status EXCEPT ![p] = st]
  /\ UNCHANGED <<timezone, cutoffs, outbox, nextId, stage, call, seen, checked,
                 tx, reply>>

Next ==
  \/ \E r \in Requests :
       \/ Arrive(r) \/ ReadHeader(r) \/ ReadCutoffs(r) \/ CheckPath(r)
       \/ Decide(r) \/ Save(r) \/ Replace(r) \/ Publish(r) \/ Commit(r)
       \/ RollBack(r)
  \/ \E p \in Paths : PathChanges(p)

Spec == Init /\ [][Next]_vars

-----------------------------------------------------------------------------
(* Properties *)

OnTopic(s, t) == {e \in outbox : e.site = s /\ e.topic = t}

(* What a reader of both tables at once would see. *)
Stored(s) == [timezone |-> timezone[s], cutoffs |-> InOrder(cutoffs[s])]

(* A schedule as the store returns it: the cutoffs sorted. *)
Sorted(schedule) ==
  [schedule EXCEPT !.cutoffs = InOrder(Range(schedule.cutoffs))]

(* A PUT replaces the schedule wholesale and says so: on every topic the   *)
(* latest event of a site carries exactly the timezone and cutoffs its two *)
(* tables hold, and never a mixture of two requests.                       *)
ScheduleAgreesWithOutbox ==
  \A s \in Sites, t \in Topics :
    /\ timezone[s] # Null <=> OnTopic(s, t) # {}
    /\ \A e \in OnTopic(s, t) :
         (\A f \in OnTopic(s, t) : f.id <= e.id)
           => Stored(s) = Sorted(e.schedule)

(* The two statements of FindBySiteID may straddle a commit, but only one  *)
(* way: the timezone read is that of a published schedule, the cutoffs     *)
(* those of the same or a later one.                                       *)
ReadsMoveForward ==
  \A r \in Requests :
    seen[r] # Null /\ stage[r] # "cutoffs" /\ seen[r].cutoffs # <<>> =>
      \E e, f \in OnTopic(call[r].site, "integration") :
        /\ e.id <= f.id
        /\ seen[r].timezone = e.schedule.timezone
        /\ seen[r].cutoffs = Sorted(f.schedule).cutoffs

(* Every path a stored schedule or a published one names exists: the check *)
(* and the save are not atomic, but a path's row is never deleted.         *)
NamedPathsExist ==
  /\ \A s \in Sites : \A c \in cutoffs[s] : \A p \in Range(c.eligible) :
       status[p] # Null
  /\ \A e \in outbox : \A p \in EligiblePaths(e.schedule) : status[p] # Null

(* "Every PUT replaces the schedule's timezone and cutoffs in full": the   *)
(* site had the schedule of a PUT answered 200.  One case is excepted: its *)
(* two statements read the timezone of one published schedule and the      *)
(* cutoffs of a later one, and that mixture is just what it asks for.      *)
AnsweredPutTookEffect ==
  \A r \in Requests :
    reply[r] = 200 /\ call[r].op = "put" =>
      LET body == Sorted(call[r].body)
      IN \E e, f \in OnTopic(call[r].site, "integration") :
           /\ e.schedule.timezone = body.timezone
           /\ Sorted(f.schedule).cutoffs = body.cutoffs
           /\ e = f \/ (e.id < f.id /\ seen[r] = body)
=============================================================================
