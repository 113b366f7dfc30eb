------------------------------- MODULE Ledger -------------------------------
(***************************************************************************)
(* The bookkeeping of usage: what attributeUsage and UpsertState of the     *)
(* Report handler (server/internal/api/handlers.go) do to the rows of       *)
(* device_state and usage_bucket (server/internal/store/store.go), and the  *)
(* retention of pruneUsage (server/cmd/server/main.go).  The previous       *)
(* report is read, the interval since then added, and the row overwritten   *)
(* in three separate database operations, any of which can fail.            *)
(***************************************************************************)
EXTENDS Attribution, FiniteSets, Functions

CONSTANTS Devices,
          Slots,         \* what tells requests of one device apart that are under way at once
          MaxOverlap,    \* bound on how often a request finds another of its device under way
          Activities,    \* what an agent may report
          MaxNow,        \* bound on the clock, in ticks
          Retention,     \* retention window in seconds
          MaxTwice,      \* bound on the seconds added for reports that fail
          Faults         \* the database operations that may fail, and "crash"

ASSUME LedgerAssumption ==
    /\ IsFiniteSet(Slots)
    /\ MaxOverlap \in Nat
    /\ IsFiniteSet(Activities)
    /\ MaxNow \in Nat
    /\ Retention \in Nat \ {0}
    /\ MaxTwice \in Nat
    /\ Faults \subseteq {"read", "add", "upsert", "crash"}

Requests == Devices \X Slots
InFlight == Cardinality(Slots)
Device(r) == r[1]
Hours == 0..Hour(Second(MaxNow))
Keys == {Key(a) : a \in Activities}

NoRow == [seen |-> -1]
Rows == [seen : 0..Second(MaxNow), act : Activities]

VARIABLES
    now,       \* the server's clock
    row,       \* row[d]: last_seen_at (whole seconds) and activity, or NoRow
    bucket,    \* bucket[d][h][k]: seconds in usage_bucket
    req,       \* req[r]: state and locals of the handler of r
    overlap,   \* history, overlap[d]: requests that found another of d under way
    due,       \* history, due[d][k]: seconds between consecutive stored reports
    twice,     \* history, twice[d][k]: seconds added for a report never stored
    pruned     \* history, pruned[d][k]: seconds deleted by retention

vars == <<now, row, bucket, req, overlap, due, twice, pruned>>

Idle == [pc |-> "idle"]
Handling == [pc : {"read", "add", "upsert"}, at : 0..MaxNow, act : Activities,
             prev : Rows \cup {NoRow}, failed : BOOLEAN]

TypeOK ==
    /\ now \in 0..MaxNow
    /\ row \in [Devices -> Rows \cup {NoRow}]
    /\ bucket \in [Devices -> [Hours -> [Keys -> Nat]]]
    /\ req \in [Requests -> Handling \cup {Idle}]
    /\ overlap \in [Devices -> 0..MaxOverlap]
    /\ due \in [Devices -> [Keys -> Nat]]
    /\ twice \in [Devices -> [Keys -> Nat]]
    /\ pruned \in [Devices -> [Keys -> Nat]]

Zero == [k \in Keys |-> 0]

Init ==
    /\ now = 0
    /\ row = [d \in Devices |-> NoRow]
    /\ bucket = [d \in Devices |-> [h \in Hours |-> Zero]]
    /\ req = [r \in Requests |-> Idle]
    /\ overlap = [d \in Devices |-> 0]
    /\ due = [d \in Devices |-> Zero]
    /\ twice = [d \in Devices |-> Zero]
    /\ pruned = [d \in Devices |-> Zero]

-----------------------------------------------------------------------------
(* The Report handler *)

(* The device has another request under way. *)
Crosses(r) == \E q \in Requests \ {r} : Device(q) = Device(r) /\ req[q] # Idle

(* The server does not make a request wait for another of its device, which *)
(* an agent sends once its own client has timed out.  Bound: MaxOverlap.    *)
(* The histories of what is due and pruned are given up for such a device.  *)
Accept(r, a) ==
    /\ req[r] = Idle
    /\ req' = [req EXCEPT ![r] = [pc |-> "read", at |-> now, act |-> a,
                                  prev |-> NoRow, failed |-> FALSE]]
    /\ \/ /\ ~Crosses(r)
          /\ UNCHANGED <<overlap, due, pruned>>
       \/ /\ Crosses(r)
          /\ overlap[Device(r)] < MaxOverlap
          /\ overlap' = [overlap EXCEPT ![Device(r)] = @ + 1]
          /\ due' = [due EXCEPT ![Device(r)] = Zero]
          /\ pruned' = [pruned EXCEPT ![Device(r)] = Zero]
    /\ UNCHANGED <<now, row, bucket, twice>>

(* Mutation: the interval is filed under the activity that just arrived. *)
IntervalOfNew(r) == Attribute(req[r].act, req[r].prev.seen * TicksPerSecond, req[r].at)

(* What the handler of r has to add for the interval before it. *)
Interval(r) == Attribute(req[r].prev.act, req[r].prev.seen * TicksPerSecond, req[r].at)

(* GetState: a device without a row has no interval to attribute. *)
Read(r) ==
    /\ req[r].pc = "read"
    /\ LET prev == row[Device(r)]
       IN req' = [req EXCEPT ![r].prev = prev, ![r].pc = IF prev = NoRow THEN "upsert" ELSE "add"]
    /\ UNCHANGED <<now, row, bucket, overlap, due, twice, pruned>>

(* An error is logged and the report goes on without attribution. *)
ReadFails(r) ==
    /\ "read" \in Faults
    /\ req[r].pc = "read"
    /\ req' = [req EXCEPT ![r].pc = "upsert", ![r].failed = TRUE]
    /\ UNCHANGED <<now, row, bucket, overlap, due, twice, pruned>>

Seconds(pieces, h, k) ==
    LET Filed == {i \in DOMAIN pieces : pieces[i].hour = h /\ pieces[i].key = k}
    IN SumFunction([i \in Filed |-> pieces[i].seconds])

(* AddUsage: one transaction adds every piece to its bucket. *)
AddUsage(r) ==
    /\ req[r].pc = "add"
    /\ bucket' = [bucket EXCEPT ![Device(r)] =
                    [h \in Hours |-> [k \in Keys |-> @[h][k] + Seconds(Interval(r), h, k)]]]
    /\ req' = [req EXCEPT ![r].pc = "upsert"]
    /\ UNCHANGED <<now, row, overlap, due, twice, pruned>>

AddUsageFails(r) ==
    /\ "add" \in Faults
    /\ req[r].pc = "add"
    /\ Interval(r) # <<>>
    /\ req' = [req EXCEPT ![r].pc = "upsert", ![r].failed = TRUE]
    /\ UNCHANGED <<now, row, bucket, overlap, due, twice, pruned>>

(* Mutation: a row that exists keeps its time. *)
UpsertKeepsTime(r) ==
    /\ req[r].pc = "upsert"
    /\ LET d == Device(r)
       IN row' = [row EXCEPT ![d] = [seen |-> IF @ = NoRow THEN Second(req[r].at) ELSE @.seen,
                                     act |-> req[r].act]]
    /\ req' = [req EXCEPT ![r] = Idle]
    /\ UNCHANGED <<now, bucket, overlap, due, twice, pruned>>

(* Mutation: the row keeps the fraction of the second. *)
UpsertUntruncated(r) ==
    /\ req[r].pc = "upsert"
    /\ row' = [row EXCEPT ![Device(r)] = [seen |-> req[r].at, act |-> req[r].act]]
    /\ req' = [req EXCEPT ![r] = Idle]
    /\ UNCHANGED <<now, bucket, overlap, due, twice, pruned>>

(* UpsertState: the row is overwritten; its time keeps whole seconds.       *)
(* The history notes the interval that ends here, if nothing failed.        *)
Upsert(r) ==
    /\ req[r].pc = "upsert"
    /\ LET d    == Device(r)
           prev == row[d]
           seen == Second(req[r].at)
       IN /\ row' = [row EXCEPT ![d] = [seen |-> seen, act |-> req[r].act]]
          /\ IF overlap[d] = 0 /\ prev # NoRow /\ ~req[r].failed /\ seen - prev.seen \in 1..MaxGap
             THEN due' = [due EXCEPT ![d][Key(prev.act)] = @ + (seen - prev.seen)]
             ELSE UNCHANGED due
    /\ req' = [req EXCEPT ![r] = Idle]
    /\ UNCHANGED <<now, bucket, overlap, twice, pruned>>

(* Seconds under k that the handlers R have added but not yet answered for. *)
Unsettled(R, k) ==
    LET Added == {r \in R : req[r].pc = "upsert" /\ req[r].prev # NoRow /\ ~req[r].failed}
    IN SumFunction([r \in Added |-> SumFunction([h \in Hours |-> Seconds(Interval(r), h, k)])])

NoteTwice(R) ==
    twice' = [d \in Devices |-> [k \in Keys |->
                 twice[d][k] + Unsettled({r \in R : Device(r) = d}, k)]]

(* Bound: only so many seconds are added for reports that fail. *)
Bounded == \A d \in Devices : SumFunction(twice'[d]) <= MaxTwice

(* The report is answered 500, what was added for it stays. *)
UpsertFails(r) ==
    /\ "upsert" \in Faults
    /\ req[r].pc = "upsert"
    /\ req' = [req EXCEPT ![r] = Idle]
    /\ NoteTwice({r}) /\ Bounded
    /\ UNCHANGED <<now, row, bucket, overlap, due, pruned>>

-----------------------------------------------------------------------------
(* PruneUsage: the buckets whose hour began before the retention window. *)
Expired(h) == h * HourLen < Second(now) - Retention

Prune ==
    /\ \E d \in Devices, h \in Hours : Expired(h) /\ bucket[d][h] # Zero
    /\ pruned' = [d \in Devices |-> IF overlap[d] > 0 THEN Zero ELSE [k \in Keys |->
                    pruned[d][k] + SumFunction([h \in {x \in Hours : Expired(x)} |-> bucket[d][h][k]])]]
    /\ bucket' = [d \in Devices |-> [h \in Hours |-> IF Expired(h) THEN Zero ELSE bucket[d][h]]]
    /\ UNCHANGED <<now, row, req, overlap, due, twice>>

Tick ==
    /\ now < MaxNow
    /\ now' = now + 1
    /\ UNCHANGED <<row, bucket, req, overlap, due, twice, pruned>>

(* The process ends in the middle of its requests; the database survives. *)
Crash ==
    /\ "crash" \in Faults
    /\ \E r \in Requests : req[r] # Idle
    /\ req' = [r \in Requests |-> Idle]
    /\ NoteTwice(Requests) /\ Bounded
    /\ UNCHANGED <<now, row, bucket, overlap, due, pruned>>

Handle(r) ==
    \/ Read(r) \/ ReadFails(r) \/ AddUsage(r) \/ AddUsageFails(r)
    \/ Upsert(r) \/ UpsertFails(r)

Next == \/ \E r \in Requests : Handle(r) \/ \E a \in Activities : Accept(r, a)
        \/ Prune \/ Tick \/ Crash

Spec == Init /\ [][Next]_vars

-----------------------------------------------------------------------------
(* Properties *)

Elapsed(h) == LET e == Second(now) - h * HourLen
              IN IF e > HourLen THEN HourLen ELSE IF e > 0 THEN e ELSE 0

Booked(d, h) == SumFunction(bucket[d][h])

(* No hour of a device holds more seconds than have gone by in that hour,   *)
(* whatever they were filed under (store.go: each interval is to be passed  *)
(* to AddUsage exactly once).                                               *)
HourNeverOverfull ==
    \A d \in Devices, h \in Hours : Booked(d, h) <= Elapsed(h)

(* How often a second of d can be in the books, apart from retries: a       *)
(* report that waits may set the row back to its own time, and every report *)
(* that reads the row then credits the second once more.                    *)
Copies(d) == IF overlap[d] = 0 THEN 1 ELSE (InFlight * (InFlight + 1)) \div 2

(* What an hour holds beyond the time that has gone by in it was added for  *)
(* reports whose UpsertState then failed, or by reports of one device that  *)
(* were under way at once and read the same row (handlers.go:150): with     *)
(* reads, additions and the process failing anywhere and the retention      *)
(* running at any time, an hour is overfull in no other way, and never by   *)
(* more than the requests under way can account for.                        *)
OverfullExplained ==
    \A d \in Devices, h \in Hours :
        Booked(d, h) <= Copies(d) * Elapsed(h) + SumFunction(twice[d])

(* store.go: AddUsage "is additive, not idempotent; the caller must pass    *)
(* each interval exactly once".  When no report is being handled, each      *)
(* interval between two consecutive stored reports that is within the gap   *)
(* and whose attribution did not fail is in the books once, under the       *)
(* activity of the first of the two; the rest was added for reports that    *)
(* were not stored.  So it is as long as no two reports of the device have  *)
(* been under way at once.                                                  *)
BooksBalance ==
    \A d \in Devices : overlap[d] = 0 /\ (\A r \in Requests : Device(r) = d => req[r] = Idle) =>
        \A k \in Keys :
            SumFunction([h \in Hours |-> bucket[d][h][k]]) + pruned[d][k]
                = due[d][k] + twice[d][k]
=============================================================================
