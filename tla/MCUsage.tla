------------------------------ MODULE MCUsage ------------------------------
(* The usage tab with two windows and three devices; the arithmetic behind it *)
(* is checked for every pair of buckets, every zone and every time of day,    *)
(* and the guards for every payload with one field replaced.                  *)
EXTENDS UsagePanel, Contract, Aggregate

CONSTANTS today, week

Buckets == [hour : 0..5, state : {"active"}, app : {1, 2}, seconds : {1, 30}]
           \cup [hour : {1, 4}, state : {"idle", "locked"}, app : {1}, seconds : {2}]
\* The change of the clock neither skips a midnight nor repeats one.
KeepsMidnights(zone) ==
    LET wall == zone.at + zone.offset + IF zone.shift < 0 THEN zone.shift ELSE 0
    IN  (-wall) % DayLength >= IF zone.shift < 0 THEN -zone.shift ELSE zone.shift

\* Half an hour and whole hours off UTC, east and west of it, with and without a
\* change of the clock by an hour, forward or back, in the middle of a week.
Zones == {z \in [offset : -2..1, shift : {-2, 0, 2}, at : {6}] : KeepsMidnights(z)}
Nows == 9..12

Total(f) == SumAndTop([i \in DOMAIN f |-> f[i].seconds]).seconds

\* What follows speaks of operators, whatever the state: TLC is asked once.
Untouched == clicks = 0 /\ reporting = {}

\* The guards of web/src/types/contract.ts agree with the server's types and
\* with the page's: nothing the server sends makes a device or the statistics
\* vanish, and nothing gets in that a component is not written for.
GuardsSeparate ==
    Untouched =>
        /\ Separates(isActivity, {ActivitySent}, Activity)
        /\ Separates(isBattery, BatterySent, Battery)
        /\ Separates(isDeviceState, DeviceStateSent, DeviceState)
        /\ Separates(isUsageTotals, {TotalsSent}, UsageTotals)
        /\ Separates(isActivityUsage, {ActivityUsageSent}, ActivityUsage)
        /\ Separates(isAppUsage, {AppUsageSent}, AppUsage)
        /\ Separates(isHourUsage, {HourUsageSent}, HourUsage)
        /\ Separates(isDayUsage, {DayUsageSent}, DayUsage)
        /\ Separates(isDeviceUsage, DeviceUsageSent, DeviceUsage)
        /\ Separates(isUsageResponse, UsageSent, UsageResponse)

\* What the answers to the three queries have to do with each other.
Agree(rows, zone, now) ==
    LET usage == [w \in DOMAIN Days |-> Usage(rows, w, now, zone)] IN
    /\ \A w \in DOMAIN Days : Past(Turns(From(w, now, zone), now, zone), now) # {}
    /\ \A w \in DOMAIN Days :
          /\ usage[w].totals.active = Total(usage[w].apps)
          /\ usage[w].totals.active = Total(usage[w].slots)
    /\ \A w \in DOMAIN Days \ {"today"} : StartOfDay(now, zone) # now =>
          /\ Len(usage[w].slots) = Days[w]
          /\ Last(usage[w].slots).seconds = usage["today"].totals.active

\* The loop over the days of a window ends; the active total, the ranking of the
\* applications and the slots of the chart are the same seconds; every local day
\* of a window has its slot; and the last day's slot holds what the window of
\* today holds: also where days are longer or shorter by a change of the clock,
\* as long as it skips no midnight and repeats none.  (At the very instant of
\* midnight the new day has no slot yet.)
BooksAgree ==
    Untouched => \A rows \in BoundedSeq(Buckets, 2), zone \in Zones, now \in Nows : Agree(rows, zone, now)

\* How an answer is drawn.
Fit(usage) ==
    LET totals == TotalsBar(usage.totals)
        bars == AppBars(usage.apps)
        chart == ChartBars(usage.slots)
    IN  /\ totals.active + totals.idle + totals.locked <= 100
        /\ \A i \in DOMAIN bars : i = 1 => bars[i] = 100
        /\ \A i, j \in DOMAIN bars : i < j => bars[i] >= bars[j]
        /\ \A i, j \in DOMAIN chart :
              /\ usage.slots[i].seconds <= usage.slots[j].seconds => chart[i] <= chart[j]
              /\ chart[i] > 0 <=> usage.slots[i].seconds > 0
        /\ usage.totals.active > 0 => \E i \in DOMAIN chart : chart[i] = 100

\* What is drawn fits and tells who is ahead: the shares of the totals fill at
\* most the bar, the first application and the highest slot fill theirs, no
\* bar is longer than one of more seconds, and every active slot can be seen.
BarsFit ==
    Untouched => \A rows \in BoundedSeq(Buckets, 2), w \in {"today", "week"}, zone \in Zones, now \in Nows :
                    Fit(Usage(rows, w, now, zone))
=============================================================================
