----------------------------- MODULE Aggregate -----------------------------
(***************************************************************************)
(* What GET /api/v1/usage makes of the stored buckets of one device           *)
(* (server/internal/api/handlers.go, server/internal/usage/aggregate.go) and   *)
(* what the usage tab draws of it (web/src/components).  Instants are half     *)
(* hours, so that a zone may be half an hour off the buckets' UTC hours.  A    *)
(* zone is its offset from UTC and the one change of its clock that a window   *)
(* may see: by how much, forward or back, and at what instant.  Seconds count  *)
(* from any unit.                                                              *)
(***************************************************************************)
EXTENDS Integers, SequencesExt, Lists

CONSTANTS DayHours,  \* 24 in the code
          Apps,      \* numbers, in the order of their names
          NoApp

ASSUME AggregateAssumption == DayHours \in Nat \ {0} /\ Apps \subseteq Nat /\ NoApp \notin Apps

Days == [today |-> 1, week |-> 2, month |-> 3]   \* 7 and 30 in the code

DayLength == 2 * DayHours
Offset(t, zone) == zone.offset + IF t < zone.at THEN 0 ELSE zone.shift
Local(t, zone) == t + Offset(t, zone)
LocalDay(t, zone) == Local(t, zone) \div DayLength
LocalHour(t, zone) == (Local(t, zone) % DayLength) \div 2

\* time.Date: the offset is that of the wall clock taken for UTC or, should the
\* clock change between the two, that of the instant so found.
Date(wall, zone) == wall - Offset(wall - Offset(wall, zone), zone)
Midnight(day, zone) == Date(day * DayLength, zone)
StartOfDay(t, zone) == Midnight(LocalDay(t, zone), zone)

\* Mutation: the loop adds 24 hours.
NextDayByLength(cur, zone) == StartOfDay(cur + DayLength, zone)

\* The step of the loop over days: AddDate keeps the wall clock.
NextDay(cur, zone) == StartOfDay(Date(Local(cur, zone) + DayLength, zone), zone)

\* Local midnight of the first day of the window.
From(w, now, zone) == Midnight(LocalDay(now, zone) - (Days[w] - 1), zone)

\* Buckets are named by the UTC hour they begin at.
QueryUsage(rows, from, now) ==
    Kept(rows, {r \in ToSet(rows) : from <= 2 * r.hour /\ 2 * r.hour < now})

SecondsOf(rows, S) == SumFunction([i \in S |-> rows[i].seconds])

\* The active seconds of each application in the rows S.
ByApp(rows, S) ==
    LET active == {i \in S : rows[i].state = "active"} IN
    [a \in {rows[i].app : i \in active} |-> SecondsOf(rows, {i \in active : rows[i].app = a})]

\* Descending, ties by name.
Ahead(per, a, b) == per[a] > per[b] \/ (per[a] = per[b] /\ a < b)
RankApps(per) ==
    CHOOSE apps \in [1..Cardinality(DOMAIN per) -> DOMAIN per] :
        \A i, j \in DOMAIN apps : i < j => Ahead(per, apps[i], apps[j])

SumAndTop(per) ==
    LET total == SumFunction(per) IN
    [seconds |-> total,
     top |-> IF total = 0 THEN NoApp ELSE CHOOSE a \in DOMAIN per : \A b \in DOMAIN per \ {a} : Ahead(per, a, b)]

HourlySlots(rows, zone) ==
    [h \in 1..DayHours |-> SumAndTop(ByApp(rows, {i \in DOMAIN rows : LocalHour(2 * rows[i].hour, zone) = h - 1}))]

\* Where the loop over days stands, turn by turn: one for each day, if it gets on.
Turns(from, to, zone) ==
    LET cur[k \in 0..(LocalDay(to, zone) - LocalDay(from, zone) + 1)] ==
            IF k = 0 THEN StartOfDay(from, zone) ELSE NextDay(cur[k - 1], zone)
    IN  cur

\* The turns that do not lie before its end.
Past(cur, to) == {k \in DOMAIN cur : cur[k] >= to}

\* One slot for every turn, where the loop ends.
DaySlots(rows, from, to, zone) ==
    LET cur == Turns(from, to, zone) IN
    [k \in 1..Min(Past(cur, to)) |->
        SumAndTop(ByApp(rows, {i \in DOMAIN rows : LocalDay(2 * rows[i].hour, zone) = LocalDay(cur[k - 1], zone)}))]

\* Usage, for one device.
Usage(stored, w, now, zone) ==
    LET from == From(w, now, zone)
        rows == QueryUsage(stored, from, now)
        per == ByApp(rows, DOMAIN rows)
        total(state) == SecondsOf(rows, {i \in DOMAIN rows : rows[i].state = state})
    IN  [window |-> w,
         totals |-> [active |-> total("active"), idle |-> total("idle"), locked |-> total("locked")],
         apps |-> [i \in DOMAIN RankApps(per) |->
                      [app |-> RankApps(per)[i], seconds |-> per[RankApps(per)[i]]]],
         slots |-> IF w = "today" THEN HourlySlots(rows, zone) ELSE DaySlots(rows, from, now, zone)]

----------------------------------------------------------------------------
(* What is drawn: shares in per cent, rounded down.                          *)

sharePercent(value, total) ==
    IF total <= 0 \/ value <= 0 THEN 0 ELSE Min({100, (value * 100) \div total})

maxSeconds(items) == Max({0} \cup {items[i].seconds : i \in DOMAIN items})

MinVisiblePercent == 4

TotalsBar(totals) ==
    LET total == totals.active + totals.idle + totals.locked IN
    [k \in DOMAIN totals |-> sharePercent(totals[k], total)]

\* Mutation: the bars are shares of the sum.
AppBarsOfSum(apps) ==
    [i \in DOMAIN apps |-> sharePercent(apps[i].seconds, SumAndTop(
        [j \in DOMAIN apps |-> apps[j].seconds]).seconds)]

AppBars(apps) == [i \in DOMAIN apps |-> sharePercent(apps[i].seconds, maxSeconds(apps))]

ChartBars(slots) ==
    [k \in DOMAIN slots |->
        IF slots[k].seconds > 0
        THEN Max({sharePercent(slots[k].seconds, maxSeconds(slots)), MinVisiblePercent}) ELSE 0]
=============================================================================
