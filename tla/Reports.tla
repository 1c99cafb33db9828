------------------------------ MODULE Reports ------------------------------
(***************************************************************************)
(* What `gain`, `history` and `filter performance` compute from the        *)
(* recorded runs: the queries of one metrics database (store.go), and the  *)
(* way --global adds the answers of several (gain_global.go,               *)
(* filter_performance.go).                                                 *)
(*                                                                         *)
(* A record is a run: when it ended (at), its command, tool and filter     *)
(* (with the case), its bytes, whether it failed and passed through, how   *)
(* long it took, and the builds of filter sources it timed.  A report has  *)
(* opts: tool, failed, since, period ("" without one) and format: "text",  *)
(* "table", or "data" for JSON and CSV.  The rows of a dataset are a       *)
(* function from what they are grouped by to their sums; a ratio or an     *)
(* average is a quotient of two of the sums.  Times are in ticks of which  *)
(* Day make a day; Calendar gives the days of a period.                    *)
(***************************************************************************)
EXTENDS Integers, Sequences, FiniteSets, SequencesExt

CONSTANTS
  Day,          \* ticks of a day
  Calendar,     \* days of each period the reports know
  MissedLimit   \* defaultMissedTopLimit, maxPerformanceHints

NonNegative(n) == IF n < 0 THEN 0 ELSE n

Tokens(bytes) == (NonNegative(bytes) + 3) \div 4

(* fillDerivedMetrics: what was kept beyond what came in counts as all of  *)
(* it kept.                                                                *)
Derived(row) ==
  LET kept == NonNegative(IF row.raw < row.kept THEN row.raw ELSE row.kept)
  IN  [dropped |-> row.raw - kept, saved |-> Tokens(row.raw) - Tokens(kept)]

Filled(rows) == [k \in DOMAIN rows |-> rows[k] @@ Derived(rows[k])]

-----------------------------------------------------------------------------
(* One database.                                                           *)

Threshold(since, now) == IF since <= 0 THEN 0 ELSE now - since

MatchesOptions(record, opts, threshold) ==
  /\ threshold > 0 => record.at >= threshold
  /\ opts.tool # "" => record.tool = opts.tool
  /\ opts.failed => record.failed

(* The sum of a field, which is a natural number: the units of each record *)
(* counted once.                                                           *)
Units(field, records) == UNION {{r} \X (1..r[field]) : r \in records}
Total(field, records) == Cardinality(Units(field, records))

Tally(records) ==
  [commands |-> Cardinality(records), raw |-> Total("raw", records), kept |-> Total("kept", records)]

Activity(records) ==
  [commands |-> Cardinality(records), raw |-> Total("raw", records), kept |-> Total("kept", records),
   passthrough |-> Cardinality({r \in records : r.passthrough}),
   failed |-> Cardinality({r \in records : r.failed}),
   duration |-> Total("duration", records)]

(* The records of each key, summed up.                                     *)
Grouped(Key(_), Sum(_), records) ==
  [k \in {Key(r) : r \in records} |-> Sum({r \in records : Key(r) = k})]

BucketFor(at, period) == (at \div Day) \div Calendar[period]

QuerySummary(records) == Grouped(LAMBDA r : "all", Tally, records)
SummaryRows(records) == Grouped(LAMBDA r : r.command, Tally, records)
SummaryRowsByTool(records) == Grouped(LAMBDA r : r.tool, Tally, records)
PeriodRows(records, period) == Grouped(LAMBDA r : BucketFor(r.at, period), Tally, records)
PerformanceRows(records) == Grouped(LAMBDA r : <<r.tool, r.filter>>, Activity, records)

(* QueryMissedOpportunities, before the limit *)
MissedRows(records) ==
  Grouped(LAMBDA r : r.command, LAMBDA rs : [count |-> Cardinality(rs)], {r \in records : r.passthrough})

(* The most frequent ones; the command decides between equals.             *)
Foremost(rows) ==
  {c \in DOMAIN rows :
     Cardinality({d \in DOMAIN rows : \/ rows[d].count > rows[c].count
                                      \/ rows[d].count = rows[c].count /\ d < c}) < MissedLimit}
MissedOpportunities(rows) == [c \in Foremost(rows) |-> rows[c]]

RegistryBuildEvents(records) == {r \in records : r.build.recorded}

(* percentileDuration: the nearest rank *)
Percentile(durations, percent) ==
  IF durations = <<>> THEN 0
  ELSE LET sorted == SortSeq(durations, <)
           rank == (percent * Len(durations) + 99) \div 100
       IN  sorted[IF rank < 1 THEN 1 ELSE rank]

BuildSummary(durations) ==
  [builds |-> Len(durations), sum |-> FoldSeq(+, 0, durations),
   p95 |-> Percentile(durations, 95), max |-> Percentile(durations, 100)]

BuildReport(rows) ==
  LET events == SetToSeq(rows)
      sources == FlattenSeq([i \in DOMAIN events |-> events[i].build.sources])
      OfDir(dir) == SelectSeq(sources, LAMBDA s : s.dir = dir)
  IN  [summary |-> BuildSummary([i \in DOMAIN events |-> events[i].build.ms]),
       rows |-> [dir \in {sources[i].dir : i \in DOMAIN sources} |->
                   BuildSummary([i \in DOMAIN OfDir(dir) |-> OfDir(dir)[i].ms])
                     @@ [errors |-> Len(SelectSeq(OfDir(dir), LAMBDA s : s.failed))]]]

-----------------------------------------------------------------------------
(* The trend of a text report: two windows of the period, of which the     *)
(* second ends today, filled from the rows of the days.                    *)

WindowBounds(now, period) ==
  LET recent == now \div Day - (Calendar[period] - 1)
  IN  [earliest |-> recent - Calendar[period], recent |-> recent, today |-> now \div Day]

(* The period of a text report, and how far back each dataset looks.       *)
TrendPeriod(opts) == IF opts.period = "" THEN "week" ELSE opts.period

(* A summary in text is of the period, or of less.                         *)
EffectiveSince(opts) ==
  LET window == Calendar[opts.period] * Day
  IN  IF opts.period = "" \/ opts.format # "text" THEN opts.since
      ELSE IF opts.since <= 0 \/ opts.since > window THEN window ELSE opts.since

TrendSince(opts, now) ==
  LET lookback == now - WindowBounds(now, TrendPeriod(opts)).earliest * Day
  IN  IF opts.since > 0 /\ opts.since < lookback THEN opts.since ELSE lookback

TrendRows(days, period, now) ==
  LET w == WindowBounds(now, period)
      Window(d) == IF d \in w.earliest..(w.recent - 1) THEN "earlier"
                   ELSE IF d \in w.recent..w.today THEN "recent" ELSE "outside"
      windows == {Window(d) : d \in DOMAIN days} \ {"outside"}
      In(window) == {d \in DOMAIN days : Window(d) = window}
  IN  [window \in windows |->
         [f \in {"commands", "raw", "kept"} |->
            FoldSeq(LAMBDA d, sum : sum + days[d][f], 0, SetToSeq(In(window)))]]

-----------------------------------------------------------------------------
(* Several databases.                                                      *)

(* Mutant: the sums of a key are those of the last database that has it.   *)
MergedLast(left, right) == right @@ left

Merged(left, right) ==
  [k \in DOMAIN left \union DOMAIN right |->
     IF k \notin DOMAIN left THEN right[k]
     ELSE IF k \notin DOMAIN right THEN left[k]
     ELSE [f \in DOMAIN left[k] |-> left[k][f] + right[k][f]]]

Listed == {"history", "builds"}   \* the datasets that are records as they are

(* What `gain` queries, in this order.  Without --global the total is a    *)
(* query of its own; with it, it is the sum of the rows.                   *)
GainPlan(opts, global) ==
  LET total == IF global THEN <<"summary">> ELSE <<"total">>
  IN  CASE opts.period # "" /\ opts.format # "text"   -> <<"period">>
        [] opts.period = "" /\ opts.format = "data"   -> IF global THEN total ELSE total \o <<"summary">>
        [] opts.period = "" /\ opts.format = "table"  -> total \o <<"tools">>
        [] opts.format = "text"                       -> total \o <<"tools", "trend">>

(* What one database answers, and how it joins what others answered.       *)
Query(dataset, period, records) ==
  CASE dataset = "total"       -> QuerySummary(records)
    [] dataset = "summary"     -> SummaryRows(records)
    [] dataset = "tools"       -> SummaryRowsByTool(records)
    [] dataset = "period"      -> PeriodRows(records, period)
    [] dataset = "trend"       -> PeriodRows(records, "day")
    [] dataset = "performance" -> PerformanceRows(records)
    [] dataset = "missed"      -> MissedRows(records)
    [] dataset = "builds"      -> RegistryBuildEvents(records)
    [] dataset = "history"     -> records

NoRows(dataset) == IF dataset \in Listed THEN {} ELSE <<>>

Joined(dataset, sofar, answer) ==
  IF dataset \in Listed THEN sofar \union answer ELSE Merged(sofar, answer)

(* What is printed of the joined answers.                                  *)
Finished(dataset, period, now, rows) ==
  CASE dataset \in {"total", "summary", "tools", "period", "performance"} -> Filled(rows)
    [] dataset = "trend"   -> Filled(TrendRows(rows, period, now))
    [] dataset = "missed"  -> MissedOpportunities(rows)
    [] dataset = "builds"  -> BuildReport(rows)
    [] dataset = "history" -> SetToSortSeq(rows, LAMBDA r, s : r.at > s.at)
=============================================================================
