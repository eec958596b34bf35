----------------------------- MODULE StatsQuery -----------------------------
(***************************************************************************)
(* One query of the overview statistics: the range the server serves       *)
(* (validate_ts_range), the three scans of overview_impl with commits and  *)
(* retention between them, and the day by day chart that the page makes of *)
(* the hourly buckets (aggregate_daily, fill_daily_range).                 *)
(*                                                                         *)
(* The server's time stands still at Now and is counted in units of which  *)
(* Hour make an hour and Day a day; the browser's clock, by which the page *)
(* corrects a range before it asks, shows any of Clocks, as it may be      *)
(* wrong and the range may be asked for again later.  Days of 23 or 25     *)
(* hours, for which the page asks the calendar, are left out.  A row of    *)
(* the log is its timestamp.                                               *)
(***************************************************************************)
EXTENDS Integers, Sequences, FiniteSets, FiniteSetsExt

CONSTANTS
  Hour, Day,      \* 3600 and 86400 seconds
  Now,            \* the server's time
  Clocks,         \* what the browser's clock shows
  Zones,          \* how far the browser is ahead of UTC
  RetentionDays,  \* log.retention_days
  MaxFilled,      \* MAX_FILLED_DAYS
  DefaultDays,    \* 30: the days before now when no start is given
  Absent,         \* a timestamp that is not given
  Asked,          \* bound: the timestamps asked for
  Times,          \* bound: the timestamps of rows
  MaxRows         \* bound: rows in the log

ASSUME StatsAssumption ==
  /\ {Hour, Day, Now, RetentionDays, MaxFilled, DefaultDays, MaxRows} \subseteq Nat
  /\ Hour > 0 /\ Day > 0 /\ Day % Hour = 0
  /\ Zones \subseteq 0 .. Day - 1 /\ Times \subseteq 0 .. Now
  /\ Asked \subseteq Int /\ Clocks \subseteq Int

VARIABLES
  rows,    \* proxy_log
  zone,    \* the browser's
  asked,   \* start_ts and end_ts
  phase,   \* the scans made
  totals, buckets, dist,  \* the rows each of them counted
  retained \* history: rows were deleted between two scans

statsVars == <<rows, zone, asked, phase, totals, buckets, dist, retained>>

-----------------------------------------------------------------------------
(* the range *)

\* clamp_range: what the page makes of the dates before it asks.
Clamp(range, clock) ==
  LET end == Min({range[2], clock + Hour})
  IN  IF range[1] >= end THEN <<end - Day, end>> ELSE <<range[1], end>>

\* Mutant: the end is clamped only when the range is in order.
ValidatedInTurn(range) ==
  LET longest == (RetentionDays + 1) * Day
  IN  IF range[1] >= range[2] THEN <<range[2] - Day, range[2]>>
      ELSE IF range[2] > Now + Hour THEN <<range[1], Now + Hour>>
      ELSE IF range[2] - range[1] > longest THEN <<range[2] - longest, range[2]>>
      ELSE range

\* validate_ts_range
Validated(range) ==
  LET end     == Min({range[2], Now + Hour})
      longest == (RetentionDays + 1) * Day
  IN  IF range[1] >= end THEN <<end - Day, end>>
      ELSE IF end - range[1] > longest THEN <<end - longest, end>>
      ELSE <<range[1], end>>

\* WHERE timestamp >= ?1 AND timestamp < ?2
Scan ==
  LET range == Validated(asked) IN {r \in rows : range[1] <= r /\ r < range[2]}

-----------------------------------------------------------------------------
(* the chart *)

\* The local midnight before t.
Midnight(t) == t - ((t + zone) % Day)

\* DATE_TRUNC('hour', timestamp), which is in UTC.
HourOf(t) == t - (t % Hour)

\* Mutant: the day in UTC.
DayOfUtc(r) == HourOf(r) - (HourOf(r) % Day)

\* The local day that the bucket of a row is counted for.
DayOf(r) == Midnight(HourOf(r))

\* aggregate_daily: the counts by day, in order, as the buckets come sorted.
AggregateDaily(rs) ==
  LET days == {DayOf(r) : r \in rs}
      nth(i) == CHOOSE d \in days : Cardinality({e \in days : e < d}) = i - 1
  IN  [i \in 1 .. Cardinality(days) |->
         [day |-> nth(i), count |-> Cardinality({r \in rs : DayOf(r) = nth(i)})]]

\* Mutant: the last day is left out.
DaySpanOpen(range) == Max({(Midnight(range[2]) - Midnight(range[1])) \div Day, 0})

DaySpan(range) == Max({(Midnight(range[2]) - Midnight(range[1])) \div Day, 0}) + 1

\* The days of the chart.
DayAt(range, k) == Midnight(range[1]) + (k - 1) * Day

\* The first count that is not yet taken, when k days are filled.
NextCount(daily, range) ==
  LET next[k \in 0 .. DaySpan(range)] ==
        IF k = 0 THEN 1
        ELSE IF next[k - 1] <= Len(daily) /\ daily[next[k - 1]].day = DayAt(range, k)
               THEN next[k - 1] + 1
        ELSE next[k - 1]
  IN  next

\* fill_daily_range: one entry per day, taking the counts in their order.
FillDailyRange(daily, range) ==
  LET next == NextCount(daily, range)
  IN  IF DaySpan(range) > MaxFilled THEN daily
      ELSE [k \in 1 .. DaySpan(range) |->
              [day   |-> DayAt(range, k),
               count |-> IF next[k] > next[k - 1] THEN daily[next[k - 1]].count ELSE 0]]

\* daily_requests
Chart == FillDailyRange(AggregateDaily(buckets), Validated(asked))

-----------------------------------------------------------------------------
StatsInit ==
  /\ rows = {} /\ zone \in Zones /\ asked = <<0, 0>> /\ phase = "idle"
  /\ totals = {} /\ buckets = {} /\ dist = {} /\ retained = FALSE

Commit(t) ==
  /\ Cardinality(rows) < MaxRows /\ t \notin rows
  /\ rows' = rows \cup {t}
  /\ UNCHANGED <<zone, asked, phase, totals, buckets, dist, retained>>

Retain ==
  LET old == {r \in rows : r < Now - RetentionDays * Day}
  IN  /\ old # {}
      /\ rows' = rows \ old
      /\ retained' = (retained \/ phase \in {"totals", "buckets"})
      /\ UNCHANGED <<zone, asked, phase, totals, buckets, dist>>

\* overview_stats: DateTime::from_timestamp refuses no timestamp of this size.
Ask(start, end) ==
  /\ phase = "idle"
  /\ asked' = <<IF start = Absent THEN Now - DefaultDays * Day ELSE start,
                IF end = Absent THEN Now ELSE end>>
  /\ phase' = "asked"
  /\ UNCHANGED <<rows, zone, totals, buckets, dist, retained>>

\* set_range, refresh, try_refetch: the page asks for its dates as it corrects them.
AskFromPage(start, end, clock) ==
  /\ phase = "idle"
  /\ asked' = Clamp(<<start, end>>, clock)
  /\ phase' = "asked"
  /\ UNCHANGED <<rows, zone, totals, buckets, dist, retained>>

\* totals_impl: the cards and the token pie.
ScanTotals ==
  /\ phase = "asked"
  /\ totals' = Scan /\ phase' = "totals"
  /\ UNCHANGED <<rows, zone, asked, buckets, dist, retained>>

\* hourly_buckets_impl
ScanBuckets ==
  /\ phase = "totals"
  /\ buckets' = Scan /\ phase' = "buckets"
  /\ UNCHANGED <<rows, zone, asked, totals, dist, retained>>

\* Mutant: the model pie is made from the rows of the first scan.
ScanDistFromTotals ==
  /\ phase = "buckets"
  /\ dist' = totals /\ phase' = "answered"
  /\ UNCHANGED <<rows, zone, asked, totals, buckets, retained>>

\* model_dist_impl: the model pie.
ScanDist ==
  /\ phase = "buckets"
  /\ dist' = Scan /\ phase' = "answered"
  /\ UNCHANGED <<rows, zone, asked, totals, buckets, retained>>

StatsNext ==
  \/ \E t \in Times : Commit(t)
  \/ Retain
  \/ \E s, e \in Asked \cup {Absent} : Ask(s, e)
  \/ \E s, e \in Asked, c \in Clocks : AskFromPage(s, e, c)
  \/ ScanTotals \/ ScanBuckets \/ ScanDist

StatsSpec == StatsInit /\ [][StatsNext]_statsVars

-----------------------------------------------------------------------------
(* properties *)

\* Whatever range is asked for, by whatever clock the page corrected it, the one
\* that is served is not empty (the rates divide by it), not longer than what is
\* kept and a day, and ends at most an hour from now.  Where the end that is asked
\* for, or an hour from now, is after the start, the range ends there and loses
\* nothing but its oldest part, and that only when it is too long; a range with
\* nothing to serve becomes the day before its end.
ServedRange ==
  phase # "idle" =>
    LET range   == Validated(asked)
        end     == Min({asked[2], Now + Hour})
        longest == (RetentionDays + 1) * Day
    IN  /\ range[1] < range[2] /\ range[2] <= Now + Hour
        /\ range[2] - range[1] <= longest
        /\ range[2] = end
        /\ asked[1] < end =>
             range[1] >= asked[1] /\ (range[1] > asked[1] => range[2] - range[1] = longest)
        /\ asked[1] >= end => range[2] - range[1] = Day

\* The three scans are not one transaction: the total on the card may lag behind
\* the trend, and the trend behind the model pie, but never the other way round, unless
\* retention deleted rows in between.
LaterScansSeeMore ==
  phase = "answered" /\ ~retained => totals \subseteq buckets /\ buckets \subseteq dist

\* The chart shows every request of the range it was computed over, at its day,
\* and the days in their order.  Counts are lost only where the browser is not a
\* whole number of hours ahead of UTC: a row of the range's first, cut hour is then
\* in a bucket of the day before, which the chart does not start with and never
\* gets past.
ChartShowsAll ==
  phase = "answered" =>
    \/ /\ zone % Hour # 0
       /\ \E r \in buckets : HourOf(r) < Midnight(Validated(asked)[1])
    \/ /\ \A r \in buckets : \E i \in DOMAIN Chart : Chart[i].day = DayOf(r)
       /\ \A i \in DOMAIN Chart :
            Chart[i].count = Cardinality({r \in buckets : DayOf(r) = Chart[i].day})
       /\ \A i, j \in DOMAIN Chart : i < j => Chart[i].day < Chart[j].day
=============================================================================
