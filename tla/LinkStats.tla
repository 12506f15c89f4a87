------------------------------ MODULE LinkStats ------------------------------
(***************************************************************************)
(* The statistics of one link: a window of whole UTC days, five queries    *)
(* that run one after the other without a transaction, and the curve that  *)
(* is filled up to one entry per day.  Meanwhile the worker inserts        *)
(* clicks, late ones too, and midnight passes.                             *)
(*                                                                         *)
(* Time is counted in half days, so that a time zone can move a click into *)
(* a neighbouring day.  The breakdowns by referer, browser and device      *)
(* differ only in their column: "device" stands for the three of them.     *)
(***************************************************************************)
EXTENDS Integers, FiniteSets, FiniteSetsExt

CONSTANTS
  ClickIds,       \* clicks
  Visits,         \* what a click may have in its columns device and country
  Times,          \* when a click may have happened, in half days
  DaysAsked,      \* values of the "days" parameter, 0 for none
  DefaultDays,    \* DefaultStatsDays
  MaxDays,        \* MaxStatsDays
  TopN,           \* StatsTopN
  FirstHalf,      \* the half day on which the model begins
  MaxHalves       \* bound: half days that pass

ASSUME StatsAssumption ==
  /\ DaysAsked \subseteq Nat /\ Times \subseteq Nat /\ IsFiniteSet(ClickIds)
  /\ DefaultDays \in Nat \ {0} /\ MaxDays \in Nat \ {0} /\ TopN \in Nat \ {0}
  /\ FirstHalf \in Nat /\ MaxHalves \in Nat

VARIABLES
  half,      \* now, in half days
  zone,      \* time zone of the database session, in half days
  clicked,   \* table click_events: [at, of], or NotStored
  report     \* the request: where it is, its window and what it has found
             \* history: the day it began, and the clicks stored when the
             \* curve was read

statsVars == <<half, zone, clicked, report>>

NotStored == [at |-> -1]
Stored == {c \in ClickIds : clicked[c] # NotStored}

DayOf_Session(at) == (at + zone) \div 2

\* date_trunc('day', occurred_at AT TIME ZONE 'UTC').
DayOf(at) == at \div 2

Today == half \div 2

\* Without a parameter the default; the handler refuses what is not positive.
WindowDays(asked) ==
  LET days == IF asked <= 0 THEN DefaultDays ELSE asked
  IN  IF days < MaxDays THEN days ELSE MaxDays

\* Today counts as one of the days.
Since(days) == Today - (days - 1)

\* occurred_at >= $2, the first moment of a day.
InWindow == {c \in Stored : clicked[c].at >= 2 * report.since}

NoReport == [pc |-> "idle", since |-> 0, days |-> 0, today |-> 0, seen |-> {},
             curve |-> <<>>, device |-> {}, country |-> {}]

-----------------------------------------------------------------------------
(* The request. *)

AskStats(asked) ==
  /\ report.pc = "idle"
  /\ report' = [NoReport EXCEPT !.pc = "daily", !.today = Today, !.days = WindowDays(asked),
                                !.since = Since(WindowDays(asked))]
  /\ UNCHANGED <<half, zone, clicked>>

\* GROUP BY day.
Daily == [d \in {DayOf(clicked[c].at) : c \in InWindow} |->
            Cardinality({c \in InWindow : DayOf(clicked[c].at) = d})]

\* fillDaily: one entry for every day of the window, 0 where there is no row.
FillDaily(rows, since, days) ==
  [i \in 0..(days - 1) |-> IF since + i \in DOMAIN rows THEN rows[since + i] ELSE 0]

ReadCurve ==
  /\ report.pc = "daily"
  /\ report' = [report EXCEPT !.pc = "device", !.seen = Stored,
                              !.curve = FillDaily(Daily, report.since, report.days)]
  /\ UNCHANGED <<half, zone, clicked>>

\* coalesce(nullif(device, ''), 'unknown').
DeviceOf(clicks) ==
  [c \in clicks |-> IF clicked[c].of.device = "" THEN "unknown" ELSE clicked[c].of.device]

\* GROUP BY bucket: pairs of a bucket and its clicks.
Buckets(of) ==
  {<<b, Cardinality({c \in DOMAIN of : of[c] = b})>> : b \in {of[c] : c \in DOMAIN of}}

\* ORDER BY clicks DESC, bucket LIMIT TopN; the order of the names is that of
\* the sequence Names.
Names == <<"DE", "FR", "desktop", "mobile", "unknown">>
BucketNames == {Names[i] : i \in DOMAIN Names}
ASSUME VisitsAssumption ==
  \A v \in Visits : {v.device, v.country} \subseteq BucketNames \cup {""}

Rank(b) == CHOOSE i \in DOMAIN Names : Names[i] = b
Above(x, y) == x[2] > y[2] \/ (x[2] = y[2] /\ Rank(x[1]) < Rank(y[1]))
Top(rows) == {r \in rows : Cardinality({q \in rows : Above(q, r)}) < TopN}

ReadDevices ==
  /\ report.pc = "device"
  /\ report' = [report EXCEPT !.pc = "country", !.device = Top(Buckets(DeviceOf(InWindow)))]
  /\ UNCHANGED <<half, zone, clicked>>

\* Only known countries, so that a service without a database shows none.
CountryOf(clicks) == [c \in {k \in clicks : clicked[k].of.country # ""} |-> clicked[c].of.country]

ReadCountries ==
  /\ report.pc = "country"
  /\ report' = [report EXCEPT !.pc = "done", !.country = Top(Buckets(CountryOf(InWindow)))]
  /\ UNCHANGED <<half, zone, clicked>>

\* One failing query, or the total after them, fails the request.
StatsFails ==
  /\ report.pc \in {"daily", "device", "country"}
  /\ report' = NoReport
  /\ UNCHANGED <<half, zone, clicked>>

-----------------------------------------------------------------------------

\* The worker inserts a click of now or of earlier.
InsertClick(c, row) ==
  /\ clicked[c] = NotStored /\ row.at <= half
  /\ clicked' = [clicked EXCEPT ![c] = row]
  /\ UNCHANGED <<half, zone, report>>

HalfDay ==
  /\ half < FirstHalf + MaxHalves
  /\ half' = half + 1
  /\ UNCHANGED <<zone, clicked, report>>

ClickRows == [at : Times, of : Visits]

StatsInit ==
  /\ half = FirstHalf
  /\ zone \in {0, 1}
  /\ clicked = [c \in ClickIds |-> NotStored]
  /\ report = NoReport

StatsNext ==
  \/ \E asked \in DaysAsked : AskStats(asked)
  \/ ReadCurve \/ ReadDevices \/ ReadCountries \/ StatsFails
  \/ \E c \in ClickIds, row \in ClickRows : InsertClick(c, row)
  \/ HalfDay

StatsSpec == StatsInit /\ [][StatsNext]_statsVars

-----------------------------------------------------------------------------
(* Properties. *)

StatsTypeOK ==
  /\ half \in FirstHalf..(FirstHalf + MaxHalves) /\ zone \in {0, 1}
  /\ \A c \in Stored : clicked[c] \in ClickRows
  /\ report.pc \in {"idle", "daily", "device", "country", "done"}
  /\ report.pc # "idle" => report.days \in 1..MaxDays
  /\ report.pc \in {"device", "country", "done"} => DOMAIN report.curve = 0..(report.days - 1)
  /\ Cardinality(report.device) <= TopN /\ Cardinality(report.country) <= TopN

InDays(c) == clicked[c].at \div 2 \in report.since..(report.since + report.days - 1)

\* Every click of the days the reader asked for is in the curve, on its UTC day,
\* whatever the session's time zone, and whether or not midnight passed since the
\* window was computed; clicks after that midnight are in no day of it.
CurveIsExact ==
  report.pc \in {"device", "country", "done"} =>
    \A i \in DOMAIN report.curve :
      report.curve[i] =
        Cardinality({c \in report.seen : clicked[c].at \div 2 = report.since + i})

\* The window ends with the day on which it was asked for: what was clicked on
\* that day before the curve was read is never missing from it.
TodayIsIn ==
  report.pc \in {"device", "country", "done"} =>
    \A c \in report.seen :
      clicked[c].at \div 2 = report.today => report.curve[report.days - 1] > 0

Total(rows) == FoldSet(LAMBDA r, n : r[2] + n, 0, rows)
OfCurve == Cardinality({c \in report.seen : InDays(c)})

\* The queries see different moments, but only in one direction: a breakdown that
\* names all its buckets never counts fewer clicks than the curve above it.
BreakdownCoversCurve ==
  report.pc \in {"country", "done"} =>
    (Cardinality(report.device) < TopN => Total(report.device) >= OfCurve)

\* What one statistics response tells its reader.
StatsInv == StatsTypeOK /\ CurveIsExact /\ TodayIsIn /\ BreakdownCoversCurve

=============================================================================
