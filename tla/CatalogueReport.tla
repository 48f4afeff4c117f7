---------------------------- MODULE CatalogueReport ----------------------------
(***************************************************************************)
(* The readers of what AnalyticsProjector writes: the reports API          *)
(* (pathmgmt-reports, on a read-only pool), and the MCP server's tool      *)
(* get_catalogue_growth_report, a REST client of that API.  They write     *)
(* nothing, so each is a function of the projector's state; every query    *)
(* is one SELECT and sees one snapshot.                                    *)
(***************************************************************************)
EXTENDS AnalyticsProjector, FiniteSetsExt, Functions

CONSTANTS
  Instants,   \* points of time that queries name and clocks show
  Missing,    \* a parameter that was not given
  Malformed,  \* one that is no RFC 3339 timestamp
  Error       \* the tool's error result

ASSUME ReportAssumption ==
  /\ Instants \subseteq Nat
  /\ {Missing, Malformed} \cap Instants = {}

Bounds == Instants \cup {Missing, Malformed}

(* What a query may ask for; "hour" stands for every other granularity. *)
Query == [from: Bounds, to: Bounds, granularity: {"", "day", "hour"}]

-----------------------------------------------------------------------------
(* The reports API *)

(* A row exists from the first event that is counted in it. *)
HasRow(d) == \E k \in Projecting : rollup[d][k] > 0

(* Mutant of Rows: the end of the window is inclusive. *)
RowsClosed(from, to) ==
  Restrict(rollup, {d \in Buckets : HasRow(d) /\ from <= d /\ d <= to})

(* WHERE day_bucket >= from AND day_bucket < to *)
Rows(from, to) ==
  Restrict(rollup, {d \in Buckets : HasRow(d) /\ from <= d /\ d < to})

(* parseRequiredTime *)
IsTime(param) == param \notin {Missing, Malformed}

BadRequest == [code |-> 400]

GetCatalogueGrowth(q) ==
  IF IsTime(q.from) /\ IsTime(q.to) /\ q.granularity \in {"", "day"}
  THEN [code |-> 200, rows |-> Rows(q.from, q.to)]
  ELSE BadRequest

(* occurred_at of the claimed events *)
OccurredAt ==
  {Topic[o].time : o \in {n \in Offsets : /\ Topic[n].kind \in Projecting
                                          /\ Topic[n].id \in processed}}

(* Mutant of FreshnessLag: the end of the latest event's day counts. *)
FreshnessLagByDay(now) ==
  IF OccurredAt = {} THEN 0
  ELSE Max({0, now - (Bucket(Max(OccurredAt)) + DayLength)})

(* now less the latest occurred_at; 0 when there is none or it is ahead.   *)
FreshnessLag(now) ==
  IF OccurredAt = {} THEN 0 ELSE Max({0, now - Max(OccurredAt)})

-----------------------------------------------------------------------------
(* The MCP tool *)

(* getJSON: an answer other than 2xx is an error. *)
Decoded(answer) == IF answer.code = 200 THEN answer.rows ELSE Error

(* ReportsRESTClient.GetCatalogueGrowth passes on what it is given. *)
ReportsClient(q) == Decoded(GetCatalogueGrowth(q))

(* The tool insists on a window and leaves the rest to the API. *)
ReportTool(q) ==
  IF q.from = Missing \/ q.to = Missing THEN Error ELSE ReportsClient(q)

-----------------------------------------------------------------------------
(* Properties *)

Daily(a, b) == [from |-> a, to |-> b, granularity |-> "day"]

(* "From is inclusive and To is exclusive" (catalogue.go:52-53): whoever   *)
(* asks the tool for adjoining windows, cut at any time of day, gets each  *)
(* day once: none in two windows and none left out between them.           *)
WindowsTile ==
  \A a, b, c \in Instants :
    a <= b /\ b <= c =>
      LET early == ReportTool(Daily(a, b))
          late == ReportTool(Daily(b, c))
      IN /\ DOMAIN early \cap DOMAIN late = {}
         /\ ReportTool(Daily(a, c))
              = [d \in DOMAIN early \cup DOMAIN late |->
                   IF d \in DOMAIN early THEN early[d] ELSE late[d]]

SumOver(f, S) == MapThenSumSet(LAMBDA x : f[x], S)

DayTotals(answer) ==
  [d \in DOMAIN answer |-> SumOver(answer[d], Projecting)]

Counted(answer) == SumOver(DayTotals(answer), DOMAIN answer)

(* "paths defined/revised/deactivated for a time window, bucketed by day"  *)
(* (report_tool.go:168): a window of whole days reports as many changes as *)
(* distinct events of its span have been projected, whatever redeliveries, *)
(* retries and rebalances came before, and rows by hour are never given.   *)
ReportIsExact ==
  /\ \A a, b \in Instants :
       a % DayLength = 0 /\ b % DayLength = 0 =>
         Counted(ReportTool(Daily(a, b)))
           = Cardinality(processed
               \cap UNION {EventIds(k, a, b) : k \in Projecting})
  /\ \A q \in Query : q.granularity = "hour" => ReportTool(q) = Error

InTimeOrder ==
  \A o, n \in Offsets : o <= n => Topic[o].time <= Topic[n].time

(* Freshness is what the read model trails behind, not a guess: when the   *)
(* API says it trails by some lag, every event older than that has been    *)
(* projected or dead-lettered, or is just being handled, if nothing was    *)
(* cut, some event was projected and the partition is in order of time.    *)
FreshnessIsHonest ==
  cuts = 0 /\ OccurredAt # {} /\ InTimeOrder =>
    \A now \in Instants : \A o \in Offsets :
      Topic[o].time < now - FreshnessLag(now) =>
        Projected(o) \/ DeadLettered(o) \/ SomeoneHandles(Topic[o].id)
=============================================================================
