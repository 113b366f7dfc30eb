------------------------------ MODULE MCLedger ------------------------------
(* Instances of Ledger for TLC.  The split of an interval is checked for      *)
(* every start on a run's clock and every end up to MaxTick.                 *)
EXTENDS Ledger, TLC

CONSTANTS d1, q1, q2, MaxTick

(* Requests differ in nothing but what they are doing. *)
AnySlot == Permutations(Slots)

TwoActivities == {[locked |-> FALSE, idle |-> FALSE, app |-> "editor"],
                  [locked |-> TRUE,  idle |-> FALSE, app |-> "editor"]}

Observed == [locked : BOOLEAN, idle : BOOLEAN, app : {"editor"}]
Instants == 0..MaxTick

(* The seconds an interval covers, one by one. *)
Covered(from, to) == {s \in 0..Second(MaxTick) : Second(from) <= s /\ s < Second(to)}

Credited(b, h) == SumFunction([i \in {j \in DOMAIN b : b[j].hour = h} |-> b[i].seconds])

(* Each hour gets exactly the seconds of the interval that lie in it, each  *)
(* once and none from another hour, or nothing at all when the interval is  *)
(* longer than the gap or runs backwards (usage.Attribute); and the pieces  *)
(* go to hours in increasing order, one per hour, all non-empty and under   *)
(* one key, so that two rows of one batch never meet in one bucket.  The     *)
(* interval begins at whatever the clock reads before the first report.      *)
SplitIsExact ==
    (\A d \in Devices : row[d] = NoRow) /\ (\A r \in Requests : req[r] = Idle) =>
      \A a \in Observed, to \in Instants :
        LET b == Attribute(a, now, to) IN
        /\ \A h \in 0..Hour(Second(MaxTick)) :
              Credited(b, h) =
                  IF Cardinality(Covered(now, to)) > MaxGap THEN 0
                  ELSE Cardinality({s \in Covered(now, to) : Hour(s) = h})
        /\ \A i \in DOMAIN b :
              /\ b[i].seconds \in 1..HourLen
              /\ b[i].key.state = "active" <=> ~a.locked /\ ~a.idle
              /\ \A j \in DOMAIN b : i < j => b[i].hour < b[j].hour
=============================================================================
