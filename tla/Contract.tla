------------------------------ MODULE Contract ------------------------------
(***************************************************************************)
(* The payloads of the public API: the JSON the server writes for its types   *)
(* (shared/contract.go), the types the page's components are written against  *)
(* and the guards between the two (web/src/types/contract.ts).  A JSON value   *)
(* is its kind and what is in it; text and numbers are not looked at.         *)
(***************************************************************************)
EXTENDS SequencesExt

Json(kind) == [kind |-> kind]
Object(at) == [kind |-> "object", at |-> at]
Array(items) == [kind |-> "array", items |-> items]
At(v, f) == IF f \in DOMAIN v.at THEN v.at[f] ELSE Json("undefined")

Text == Json("string")
Number == Json("number")
Flag == Json("boolean")
Pointer(v) == {Json("null"), v}

----------------------------------------------------------------------------
(* What encoding/json makes of the server's values: a nil pointer, or a      *)
(* slice that was never made, is null.                                       *)

ActivitySent ==
    Object([app |-> Text, description |-> Text, idle |-> Flag, idle_seconds |-> Number, locked |-> Flag])
BatterySent == {Object([level |-> level, charging |-> Flag]) : level \in Pointer(Number)}
DeviceStateSent ==
    {Object([device_id |-> Text, device_name |-> Text, device_type |-> Text,
             activity |-> ActivitySent, battery |-> battery, network |-> network,
             online |-> Flag, reported_at |-> Text, last_seen_at |-> Text]) :
        battery \in {Json("null")} \cup BatterySent, network \in Pointer(Text)}

TotalsSent == Object([active_seconds |-> Number, idle_seconds |-> Number, locked_seconds |-> Number])
ActivityUsageSent == Object([description |-> Text, seconds |-> Number])
AppUsageSent == Object([app |-> Text, seconds |-> Number, activities |-> Array(<<ActivityUsageSent>>)])
HourUsageSent == Object([hour |-> Number, seconds |-> Number, top_app |-> Text])
DayUsageSent == Object([date |-> Text, seconds |-> Number, top_app |-> Text])

\* aggregateDevice makes one of the two series and leaves the other nil.
SeriesSent == {[hourly |-> Array(<<HourUsageSent>>), daily |-> Json("null")],
               [hourly |-> Json("null"), daily |-> Array(<<DayUsageSent>>)]}
DeviceUsageSent ==
    {Object([device_id |-> Text, device_name |-> Text, device_type |-> Text, totals |-> TotalsSent,
             apps |-> Array(apps), hourly |-> series.hourly, daily |-> series.daily]) :
        apps \in {<<>>, <<AppUsageSent>>}, series \in SeriesSent}
UsageSent ==
    {Object([window |-> Text, timezone |-> Text, from |-> Text, to |-> Text, devices |-> Array(devices)]) :
        devices \in {<<>>} \cup {<<d>> : d \in DeviceUsageSent}}

----------------------------------------------------------------------------
(* The guards.                                                              *)

isRecord(v) == v.kind = "object"
Has(v, fields, kind) == \A f \in fields : At(v, f).kind = kind
Every(v, Guard(_)) == v.kind = "array" /\ \A i \in DOMAIN v.items : Guard(v.items[i])

isActivity(v) ==
    /\ isRecord(v)
    /\ Has(v, {"app", "description"}, "string")
    /\ Has(v, {"idle"}, "boolean")
    /\ Has(v, {"idle_seconds"}, "number")
    /\ At(v, "locked").kind \in {"undefined", "boolean"}

isBattery(v) ==
    /\ isRecord(v)
    /\ At(v, "level").kind \in {"null", "number"}
    /\ Has(v, {"charging"}, "boolean")

\* Mutation: a desktop without a battery is malformed.
isDeviceStateWithBattery(v) ==
    /\ isRecord(v)
    /\ Has(v, {"device_id", "device_name", "device_type", "reported_at", "last_seen_at"}, "string")
    /\ isActivity(At(v, "activity"))
    /\ isBattery(At(v, "battery"))
    /\ At(v, "network").kind \in {"null", "string"}
    /\ Has(v, {"online"}, "boolean")

isDeviceState(v) ==
    /\ isRecord(v)
    /\ Has(v, {"device_id", "device_name", "device_type", "reported_at", "last_seen_at"}, "string")
    /\ isActivity(At(v, "activity"))
    /\ At(v, "battery").kind = "null" \/ isBattery(At(v, "battery"))
    /\ At(v, "network").kind \in {"null", "string"}
    /\ Has(v, {"online"}, "boolean")

isUsageTotals(v) ==
    isRecord(v) /\ Has(v, {"active_seconds", "idle_seconds", "locked_seconds"}, "number")

isActivityUsage(v) ==
    isRecord(v) /\ Has(v, {"description"}, "string") /\ Has(v, {"seconds"}, "number")

isAppUsage(v) ==
    /\ isRecord(v)
    /\ Has(v, {"app"}, "string") /\ Has(v, {"seconds"}, "number")
    /\ Every(At(v, "activities"), isActivityUsage)

isHourUsage(v) ==
    isRecord(v) /\ Has(v, {"hour", "seconds"}, "number") /\ Has(v, {"top_app"}, "string")

isDayUsage(v) ==
    isRecord(v) /\ Has(v, {"date", "top_app"}, "string") /\ Has(v, {"seconds"}, "number")

isDeviceUsage(v) ==
    /\ isRecord(v)
    /\ Has(v, {"device_id", "device_name", "device_type"}, "string")
    /\ isUsageTotals(At(v, "totals"))
    /\ Every(At(v, "apps"), isAppUsage)
    /\ At(v, "hourly").kind = "null" \/ Every(At(v, "hourly"), isHourUsage)
    /\ At(v, "daily").kind = "null" \/ Every(At(v, "daily"), isDayUsage)

isUsageResponse(v) ==
    /\ isRecord(v)
    /\ Has(v, {"window", "timezone", "from", "to"}, "string")
    /\ Every(At(v, "devices"), isDeviceUsage)

----------------------------------------------------------------------------
(* What the components are told a field may be: the page's interfaces.       *)

Only(kind) == {kind}
OrNull(kind) == {kind, "null"}

Activity == [app |-> Only("string"), description |-> Only("string"), idle |-> Only("boolean"),
             idle_seconds |-> Only("number"), locked |-> {"boolean", "undefined"}]
Battery == [level |-> OrNull("number"), charging |-> Only("boolean")]
DeviceState ==
    [device_id |-> Only("string"), device_name |-> Only("string"), device_type |-> Only("string"),
     activity |-> Only("object"), battery |-> OrNull("object"), network |-> OrNull("string"),
     online |-> Only("boolean"), reported_at |-> Only("string"), last_seen_at |-> Only("string")]
UsageTotals == [active_seconds |-> Only("number"), idle_seconds |-> Only("number"), locked_seconds |-> Only("number")]
ActivityUsage == [description |-> Only("string"), seconds |-> Only("number")]
AppUsage == [app |-> Only("string"), seconds |-> Only("number"), activities |-> Only("array")]
HourUsage == [hour |-> Only("number"), seconds |-> Only("number"), top_app |-> Only("string")]
DayUsage == [date |-> Only("string"), seconds |-> Only("number"), top_app |-> Only("string")]
DeviceUsage ==
    [device_id |-> Only("string"), device_name |-> Only("string"), device_type |-> Only("string"),
     totals |-> Only("object"), apps |-> Only("array"), hourly |-> OrNull("array"), daily |-> OrNull("array")]
UsageResponse ==
    [window |-> Only("string"), timezone |-> Only("string"), from |-> Only("string"), to |-> Only("string"),
     devices |-> Only("array")]

----------------------------------------------------------------------------
(* What MCUsage asks of each guard.                                         *)

Kinds == {"string", "number", "boolean", "null", "undefined"}

Replaced(v, f, kind) == [v EXCEPT !.at[f] = Json(kind)]

\* A guard lets in whatever the server writes, and with one field replaced it
\* lets in only what the interface says that field may be.
Separates(Guard(_), sent, type) ==
    /\ \A v \in sent : Guard(v) /\ DOMAIN v.at = DOMAIN type
    /\ \A v \in sent, f \in DOMAIN type, kind \in Kinds :
          Guard(Replaced(v, f, kind)) <=> kind \in type[f]
=============================================================================
