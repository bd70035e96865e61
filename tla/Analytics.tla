----------------------------- MODULE Analytics -----------------------------
(***************************************************************************)
(* The sales dashboard (AnalyticsService).  The buckets of a range and the *)
(* starts of its two periods are computed first; the queries then run at   *)
(* times of their own, while orders are placed, paid and refunded, and the *)
(* result is cached.                                                       *)
(***************************************************************************)
EXTENDS Integers, FiniteSets, FiniteSetsExt

CONSTANTS Orders,
          RANGES,      \* the ranges: a kind of bucket, and how many
          Requests,    \* requests in flight
          DayTicks,    \* ticks of the clock in a day of the shop
          WeekDays,    \* day 0 is a Monday
          FirstOfMonth,\* the first day of each month, numbered from 0
          Starts,      \* bound: when the behaviour begins
          MaxTicks,    \* bound: how long it lasts
          TtlMs,       \* in ticks
          NULL

AnalyticsAssumption ==
    /\ DayTicks \in Nat \ {0} /\ WeekDays \in Nat \ {0} /\ MaxTicks \in Nat /\ TtlMs \in Nat
    /\ Starts \subseteq Nat
    /\ \A r \in RANGES : r.bucket \in {"day", "week", "month"} /\ r.units \in Nat \ {0}
    /\ \E last \in DOMAIN FirstOfMonth : FirstOfMonth \in [0..last -> Nat]
    /\ FirstOfMonth[0] = 0
    /\ \A m \in DOMAIN FirstOfMonth : m > 0 => FirstOfMonth[m - 1] < FirstOfMonth[m]
    /\ \A start \in Starts, r \in RANGES : r.bucket = "month" =>
         /\ 2 * r.units - 1 \in DOMAIN FirstOfMonth
         /\ FirstOfMonth[2 * r.units - 1] <= start \div DayTicks
    /\ NULL \notin Nat

VARIABLES
    now,       \* in ticks
    until,     \* bound: when the behaviour ends
    order,     \* status, placedAt and paidAt of each order
    range,     \* the range of this behaviour: each has an entry of its own in the cache
    computing, \* what the computation of each request has found so far, or NULL
    cache      \* the dashboard and its `at`, or NULL

vars == <<now, until, range, order, computing, cache>>

----------------------------------------------------------------------------
(* Days, by their number, and the buckets they fall into *)

Day(tick) == tick \div DayTicks
Month(day) == Max({m \in DOMAIN FirstOfMonth : FirstOfMonth[m] <= day})
Monday(day) == day - (day % WeekDays)

\* The key of a bucket is its first day.
bucketExpr(bucket, day) ==
    CASE bucket = "day" -> day
      [] bucket = "week" -> Monday(day)
      [] bucket = "month" -> FirstOfMonth[Month(day)]

\* The first day of the bucket n buckets before the one of today.
Back(bucket, n, today) ==
    CASE bucket = "day" -> today - n
      [] bucket = "week" -> Monday(today) - n * WeekDays
      [] bucket = "month" -> FirstOfMonth[Month(today) - n]

buildBuckets(cfg, today) == {Back(cfg.bucket, i, today) : i \in 0..(cfg.units - 1)}

\* Mutant: one bucket too far back.
TwiceTheUnits(cfg, today) == Back(cfg.bucket, cfg.units * 2, today)

prevStartKey(cfg, today) == Back(cfg.bucket, cfg.units * 2 - 1, today)

----------------------------------------------------------------------------
(* The orders *)

Placed(status, at) == [status |-> status, placedAt |-> at, paidAt |-> NULL]

\* A cash order is sold before it is paid.
Place(o) ==
    /\ order[o].status = "none"
    /\ \E status \in {"open", "sold"} : order' = [order EXCEPT ![o] = Placed(status, now)]
    /\ UNCHANGED <<now, until, range, computing, cache>>

Pay(o) ==
    /\ order[o].status \in {"open", "sold"} /\ order[o].paidAt = NULL
    /\ order' = [order EXCEPT ![o].status = "sold", ![o].paidAt = now]
    /\ UNCHANGED <<now, until, range, computing, cache>>

\* Refunded, or cancelled.
Withdraw(o) ==
    /\ order[o].status \in {"open", "sold"}
    /\ order' = [order EXCEPT ![o].status = "out"]
    /\ UNCHANGED <<now, until, range, computing, cache>>

Tick ==
    /\ now < until
    /\ now' = now + 1
    /\ UNCHANGED <<until, range, order, computing, cache>>

----------------------------------------------------------------------------
(* The dashboard *)

SOLD == {o \in Orders : order[o].status = "sold"}

\* COALESCE(paidAt, placedAt), as a day.
SaleDay(o) == Day(IF order[o].paidAt = NULL THEN order[o].placedAt ELSE order[o].paidAt)

SoldBetween(from, before) == {o \in SOLD : from <= SaleDay(o) /\ SaleDay(o) < before}
SoldSince(from) == {o \in SOLD : from <= SaleDay(o)}

Computes(q, state) == computing' = [computing EXCEPT ![q] = state]

\* Such a dashboard is shown from the cache.
Fresh == cache # NULL /\ now - cache.at < TtlMs

dashboard(q) ==
    /\ computing[q] = NULL /\ ~Fresh
    /\ Computes(q, [buckets |-> buildBuckets(range, Day(now)),
                    prevStart |-> prevStartKey(range, Day(now)),
                    trend |-> NULL, kpis |-> NULL, today |-> Day(now), seen |-> order])
    /\ UNCHANGED <<now, until, range, order, cache>>

Start(c) == Min(c.buckets)

\* One row for each bucket with a sale; of these, the ones with a key of the list.
Trend(q) ==
    /\ computing[q] # NULL /\ computing[q].trend = NULL
    /\ LET c == computing[q] IN
       Computes(q, [c EXCEPT !.trend = [key \in c.buckets |->
         {o \in SoldSince(Start(c)) : bucketExpr(range.bucket, SaleDay(o)) = key}]])
    /\ UNCHANGED <<now, until, range, order, cache>>

Kpis(q) ==
    /\ computing[q] # NULL /\ computing[q].kpis = NULL
    /\ LET c == computing[q] IN
       Computes(q, [c EXCEPT !.kpis =
         [cur |-> SoldSince(Start(c)), prev |-> SoldBetween(c.prevStart, Start(c))]])
    /\ UNCHANGED <<now, until, range, order, cache>>

\* `at` is the time the computation ended; the last one to end is kept.
Shape(q) ==
    /\ computing[q] # NULL /\ computing[q].trend # NULL /\ computing[q].kpis # NULL
    /\ cache' = [at |-> now, data |-> computing[q]]
    /\ Computes(q, NULL)
    /\ UNCHANGED <<now, until, range, order>>

----------------------------------------------------------------------------

\* Orders may be as old as the calendar.
Past(start) ==
    {[status |-> "none", placedAt |-> NULL, paidAt |-> NULL]}
    \cup {Placed(status, at) : status \in {"open", "sold"}, at \in 0..start}

Init ==
    /\ now \in Starts /\ until = now + MaxTicks
    /\ range \in RANGES
    /\ order \in [Orders -> Past(now)]
    /\ computing = [q \in Requests |-> NULL]
    /\ cache = NULL

Next ==
    \/ \E o \in Orders : Place(o) \/ Pay(o) \/ Withdraw(o)
    \/ \E q \in Requests : dashboard(q) \/ Trend(q) \/ Kpis(q) \/ Shape(q)
    \/ Tick

Spec == Init /\ [][Next]_vars

----------------------------------------------------------------------------
(* Properties *)

TypeOK ==
    /\ now \in Nat /\ until \in Nat /\ now <= until
    /\ \A o \in Orders : order[o].status \in {"none", "open", "sold", "out"}
    /\ \A q \in Requests : computing[q] # NULL => Cardinality(computing[q].buckets) = range.units
    /\ cache # NULL => cache.at \in 0..now

\* How many days, weeks or months a day lies before another one.
Age(bucket, day, today) ==
    CASE bucket = "day" -> today - day
      [] bucket = "week" -> (today \div WeekDays) - (day \div WeekDays)
      [] bucket = "month" -> Month(today) - Month(day)

\* A sale made before a dashboard was begun, and not changed since, is in the figures of the
\* period it belongs to and of no other one: of the last `units` buckets, and then in exactly
\* one point of the trend, or of as many buckets before them, whenever its queries ran.
EachSaleCountedOnce ==
    cache # NULL => \A o \in SOLD : order[o] = cache.data.seen[o] =>
        LET d == cache.data
            age == Age(range.bucket, SaleDay(o), d.today)
        IN  /\ o \in d.kpis.cur <=> age < range.units
            /\ o \in d.kpis.prev <=> age \in range.units..(2 * range.units - 1)
            /\ Cardinality({key \in d.buckets : o \in d.trend[key]}) =
                 IF age < range.units THEN 1 ELSE 0
=============================================================================
