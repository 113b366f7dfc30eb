--------------------------- MODULE PresenceProofs ---------------------------
(***************************************************************************)
(* Proofs about Presence, for every set of devices and every value of the   *)
(* time constants:                                                          *)
(*   - the variables keep their types;                                      *)
(*   - a row is set back only to a recent observation;                      *)
(*   - a device is announced offline in time.                               *)
(* The last two assume that the server keeps up with the clock, and the     *)
(* last one that two reports, one overtaking the other, and all the scans   *)
(* that may have to be repeated fit into the threshold.  However many       *)
(* requests of a device are under way at once.                              *)
(***************************************************************************)
EXTENDS Presence, TLAPS

(* How old the row of a device can be when its report is announced: the     *)
(* report was handled in less than Latency, and so was the one that has     *)
(* overtaken it and set the row back.                                       *)
Lag == 2 * (Latency - 1)

Timely == KeepsUp /\ Lag + (MaxFailures + 1) * ScanPeriod <= Threshold

(* A request that is past its upsert has left a row, which is no older than *)
(* the request, unless another has overwritten it since.                    *)
Reported ==
    \A r \in Requests : rpc[r] \in {"mark", "announce"} =>
        Device(r) \in stored /\ age[Device(r)] <= rage[r] + Latency - 1

(* Ticks since the last scan that did not fail. *)
Since == failures * ScanPeriod + IF fired \/ spc # "idle" THEN ScanPeriod ELSE timer

Recent(d) == age[d] <= Lag

(* No request is left behind by the clock. *)
Prompt == \A r \in Requests : rpc[r] # "idle" => rage[r] <= Latency - 1

(* A scan is over within the tick of the ticker that started it. *)
Punctual ==
    /\ fired \/ spc # "idle" => timer = 0
    /\ spc # "idle" => ~fired
    /\ spc # "judge" => fresh = {} /\ stale = {}
    /\ spc \in {"idle", "listed"} => leaving = {}

(* Between two processes nothing is under way and nothing announced. *)
Down ==
    ~up => /\ spc = "idle" /\ ~fired /\ timer = 0 /\ failures = 0
           /\ \A d \in Devices : last[d] = "none"
           /\ \A r \in Requests : rpc[r] = "idle"

(* A device announced online was within the threshold at the last scan, and *)
(* one the tracker does not know had just reported.                         *)
Watched ==
    \A d \in Devices : last[d] = "update" =>
        /\ d \in stored
        /\ age[d] <= Threshold + Since
        /\ d \in known \cup leaving \/ age[d] <= Lag + Since

(* What a scan has read is still true, unless the device has just reported. *)
Listed ==
    spc = "listed" =>
        /\ listed \subseteq stored
        /\ \A d \in stored : Recent(d) \/ (d \in listed /\ lage[d] = age[d])

VerdictsHold ==
    spc = "judge" =>
        /\ \A d \in stale : Recent(d) \/ age[d] > Threshold
        /\ \A d \in Devices : last[d] = "update" =>
              \/ Recent(d)
              \/ d \in fresh /\ age[d] <= Threshold
              \/ d \in stale \cup leaving

Synced ==
    spc = "announce" =>
        \A d \in Devices : last[d] = "update" =>
            \/ Recent(d)
            \/ d \in known /\ age[d] <= Threshold
            \/ d \in leaving

GreyInv == TypeOK /\ Reported /\ Prompt /\ Punctual /\ Down /\ Watched /\ Listed /\ VerdictsHold /\ Synced

-----------------------------------------------------------------------------
(* Types *)

LEMMA MaxAgeNat == MaxAge \in Nat /\ 0 \in Ages
<1>1. (MaxFailures + 1) * ScanPeriod \in Nat
  BY PresenceAssumption
<1> QED
  BY <1>1, PresenceAssumption DEF MaxAge, Ages

LEMMA OlderAges ==
  ASSUME NEW a \in Ages
  PROVE  (IF a < MaxAge THEN a + 1 ELSE a) \in Ages
  BY MaxAgeNat DEF Ages

LEMMA InitTypeOK == Init => TypeOK
<1> SUFFICES ASSUME Init PROVE TypeOK
  OBVIOUS
<1>1. timer \in 0..(ScanPeriod - 1) /\ failures \in 0..MaxFailures /\ restarts \in 0..MaxRestarts
  BY PresenceAssumption DEF Init
<1>2. fired \in BOOLEAN /\ up \in BOOLEAN
  BY Zenon DEF Init
<1> QED
  BY <1>1, <1>2, MaxAgeNat DEF Init, TypeOK

LEMMA StepTypeOK == TypeOK /\ [Next]_vars => TypeOK'
<1> SUFFICES ASSUME TypeOK, [Next]_vars PROVE TypeOK'
  OBVIOUS
<1> USE PresenceAssumption, MaxAgeNat
<1> USE DEF TypeOK, storeVars, reportVars, scanVars, tickerVars, envVars
<1>1. ASSUME NEW r \in Requests, Accept(r) PROVE TypeOK'
  BY <1>1 DEF Accept
<1>2. ASSUME NEW r \in Requests, Handle(r) PROVE TypeOK'
  <2>1. Device(r) \in Devices
    BY DEF Requests, Device
  <2> QED
    BY <1>2, <2>1 DEF Handle, Upsert, UpsertFails, MarkOnline, AnnounceUpdate
<1>3. CASE ScanList
  BY <1>3 DEF ScanList
<1>4. CASE ScanFails
  <2>1. failures' \in 0..MaxFailures
    BY <1>4 DEF ScanFails
  <2>2. fired' \in BOOLEAN
    BY <1>4, Zenon DEF ScanFails
  <2> QED
    BY <1>4, <2>1, <2>2 DEF ScanFails
<1>5. CASE ScanJudge
  BY <1>5 DEF ScanJudge
<1>6. CASE ScanSync \/ ScanDone
  BY <1>6 DEF ScanSync, ScanDone
<1>7. ASSUME NEW d \in Devices, ScanForget(d) \/ AnnounceOffline(d) PROVE TypeOK'
  BY <1>7 DEF ScanForget, AnnounceOffline
<1>8. CASE Tick
  <2>1. /\ \A d \in Devices : Older(age)[d] \in Ages /\ Older(lage)[d] \in Ages
        /\ \A r \in Requests : Older(rage)[r] \in Ages
    BY OlderAges DEF Older
  <2>2. age' \in [Devices -> Ages] /\ rage' \in [Requests -> Ages] /\ lage' \in [Devices -> Ages]
    BY <1>8, <2>1 DEF Tick
  <2>3. timer' \in 0..(ScanPeriod - 1) /\ fired' \in BOOLEAN
    <3>1. (timer + 1) % ScanPeriod \in 0..(ScanPeriod - 1)
      OBVIOUS
    <3> QED
      BY <1>8, <3>1 DEF Tick
  <2> QED
    BY <1>8, <2>2, <2>3 DEF Tick
<1>9. CASE Stop
  <2>1. restarts' \in 0..MaxRestarts /\ timer' \in 0..(ScanPeriod - 1) /\ failures' \in 0..MaxFailures
    BY <1>9 DEF Stop
  <2>2. fired' \in BOOLEAN /\ up' \in BOOLEAN
    BY <1>9, Zenon DEF Stop
  <2> QED
    BY <1>9, <2>1, <2>2 DEF Stop
<1>10. CASE Start
  BY <1>10 DEF Start
<1>11. ASSUME NEW d \in Devices, Die(d) PROVE TypeOK'
  BY <1>11 DEF Die
<1>12. CASE UNCHANGED vars
  BY <1>12 DEF vars
<1> QED
  BY <1>1, <1>2, <1>3, <1>4, <1>5, <1>6, <1>7, <1>8, <1>9, <1>10, <1>11, <1>12 DEF Next, Scan

(* Every variable of Presence keeps its type, whatever the parameters.      *)
THEOREM PresenceTypeCorrect == Spec => []TypeOK
  BY InitTypeOK, StepTypeOK, PTL DEF Spec

-----------------------------------------------------------------------------
(* Rows are set back only to recent observations *)

LEMMA OwnDevice ==
  ASSUME NEW r \in Requests
  PROVE  Device(r) \in Devices
  BY DEF Requests, Device

LEMMA LagNat == Lag \in Nat /\ Latency - 1 \in Nat /\ Latency - 1 <= Lag
  BY PresenceAssumption DEF Lag

LEMMA InitPrompt == Init => Prompt
  BY DEF Init, Prompt

LEMMA StepPrompt == KeepsUp /\ TypeOK /\ Prompt /\ [Next]_vars => Prompt'
<1> SUFFICES ASSUME KeepsUp, TypeOK, Prompt, [Next]_vars PROVE Prompt'
  OBVIOUS
<1> USE OwnDevice, PresenceAssumption, MaxAgeNat
<1> USE DEF TypeOK, Prompt, Ages, storeVars, reportVars, scanVars, tickerVars, envVars
<1>1. ASSUME NEW r \in Requests, Accept(r) PROVE Prompt'
  BY <1>1 DEF Accept
<1>2. ASSUME NEW r \in Requests, Handle(r) PROVE Prompt'
  BY <1>2 DEF Handle, Upsert, UpsertFails, MarkOnline, AnnounceUpdate
<1>3. CASE Tick
  BY <1>3 DEF Tick, OnTime, Older
<1>4. CASE Stop
  BY <1>4 DEF Stop
<1>5. ASSUME UNCHANGED <<rpc, rage>> PROVE Prompt'
  BY <1>5
<1>6. CASE Scan \/ Start \/ \E d \in Devices : Die(d)
  BY <1>5, <1>6 DEF Scan, ScanList, ScanFails, ScanJudge, ScanSync, ScanDone, ScanForget,
                    AnnounceOffline, Start, Die
<1>7. CASE UNCHANGED vars
  BY <1>5, <1>7 DEF vars
<1> QED
  BY <1>1, <1>2, <1>3, <1>4, <1>6, <1>7 DEF Next

LEMMA StepSetBack ==
  TypeOK /\ Prompt /\ [Next]_vars
      => [Tick \/ \A d \in stored : age'[d] <= age[d] \/ age'[d] < Latency]_vars
<1> SUFFICES ASSUME TypeOK, Prompt, Next, ~Tick,
                    NEW d \in stored
             PROVE  age'[d] <= age[d] \/ age'[d] < Latency
  OBVIOUS
<1> USE OwnDevice, PresenceAssumption, MaxAgeNat
<1> USE DEF TypeOK, Prompt, Ages, storeVars, reportVars, scanVars, tickerVars, envVars
<1>1. ASSUME NEW r \in Requests, Upsert(r) PROVE age'[d] <= age[d] \/ age'[d] < Latency
  BY <1>1 DEF Upsert
<1>2. ASSUME UNCHANGED age PROVE age'[d] <= age[d]
  BY <1>2
<1>3. ASSUME NEW r \in Requests, Accept(r) \/ UpsertFails(r) \/ MarkOnline(r) \/ AnnounceUpdate(r)
      PROVE  age'[d] <= age[d]
  BY <1>2, <1>3 DEF Accept, UpsertFails, MarkOnline, AnnounceUpdate
<1>4. CASE Scan \/ Stop \/ Start \/ \E e \in Devices : Die(e)
  BY <1>2, <1>4 DEF Scan, ScanList, ScanFails, ScanJudge, ScanSync, ScanDone, ScanForget,
                    AnnounceOffline, Stop, Start, Die
<1> QED
  BY <1>1, <1>3, <1>4 DEF Next, Handle

(* However many reports of a device overlap, and in whatever order the      *)
(* server handles them: a row of the store is set back only to an           *)
(* observation younger than Latency, so that a report never makes a device  *)
(* look silent.                                                             *)
THEOREM PresenceSetBackIsRecent ==
  ASSUME KeepsUp
  PROVE  Spec => SetBackIsRecent
<1>1. Init => TypeOK /\ Prompt
  BY InitTypeOK, InitPrompt
<1>2. TypeOK /\ Prompt /\ [Next]_vars => (TypeOK /\ Prompt)'
  BY StepTypeOK, StepPrompt
<1>3. TypeOK /\ Prompt /\ [Next]_vars
          => [Tick \/ \A d \in stored : age'[d] <= age[d] \/ age'[d] < Latency]_vars
  BY StepSetBack
<1> QED
  BY <1>1, <1>2, <1>3, PTL DEF Spec, SetBackIsRecent

-----------------------------------------------------------------------------
(* Outages are announced in time *)

LEMMA Periods ==
  ASSUME NEW f \in 0..MaxFailures
  PROVE  /\ f * ScanPeriod \in Nat
         /\ (f + 1) * ScanPeriod = f * ScanPeriod + ScanPeriod
         /\ (f + 1) * ScanPeriod <= (MaxFailures + 1) * ScanPeriod
  BY PresenceAssumption

LEMMA Budget ==
  ASSUME Timely, TypeOK
  PROVE  /\ Since \in Nat
         /\ Since <= (failures + 1) * ScanPeriod
         /\ Lag + Since <= Threshold
<1>1. /\ failures \in 0..MaxFailures
      /\ timer \in 0..(ScanPeriod - 1)
  BY DEF TypeOK
<1>2. /\ failures * ScanPeriod \in Nat
      /\ (failures + 1) * ScanPeriod = failures * ScanPeriod + ScanPeriod
      /\ (failures + 1) * ScanPeriod <= (MaxFailures + 1) * ScanPeriod
  BY <1>1, Periods
<1>3. (MaxFailures + 1) * ScanPeriod \in Nat
  BY PresenceAssumption
<1>4. Since \in Nat /\ Since <= (failures + 1) * ScanPeriod
  BY <1>1, <1>2, PresenceAssumption DEF Since
<1> QED
  BY <1>1, <1>2, <1>3, <1>4, LagNat, PresenceAssumption DEF Timely

(* How the steps change Since. *)
LEMMA SinceSteps ==
  ASSUME TypeOK, Punctual
  PROVE  /\ UNCHANGED <<failures, fired, spc, timer>> => Since' = Since
         /\ Tick /\ Timely => Since' = IF up THEN Since + 1 ELSE Since
         /\ ScanList \/ ScanFails \/ ScanJudge \/ ScanSync => Since' = Since
         /\ ScanDone => Since' = 0
<1> USE PresenceAssumption DEF TypeOK, Punctual, Since, scanVars, tickerVars
<1>1. UNCHANGED <<failures, fired, spc, timer>> => Since' = Since
  OBVIOUS
<1>2. ASSUME Tick, Timely PROVE Since' = IF up THEN Since + 1 ELSE Since
  <2>1. spc = "idle" /\ ~fired /\ spc' = spc /\ failures' = failures
    BY <1>2 DEF Tick, OnTime, Timely
  <2>2. CASE ~up
    BY <1>2, <2>1, <2>2 DEF Tick
  <2>3. CASE up /\ timer + 1 = ScanPeriod
    <3>1. (timer + 1) % ScanPeriod = 0
      BY <2>3
    <3>2. timer' = 0 /\ fired'
      BY <1>2, <2>3, <3>1 DEF Tick
    <3>3. failures * ScanPeriod \in Nat
      BY Periods
    <3> QED
      BY <2>1, <2>3, <3>2, <3>3
  <2>4. CASE up /\ timer + 1 # ScanPeriod
    <3>1. timer + 1 \in 0..(ScanPeriod - 1) /\ (timer + 1) % ScanPeriod = timer + 1
      BY <2>4
    <3>2. timer' = timer + 1 /\ ~fired'
      BY <1>2, <2>1, <2>4, <3>1 DEF Tick
    <3>3. failures * ScanPeriod \in Nat
      BY Periods
    <3> QED
      BY <2>1, <2>4, <3>2, <3>3
  <2> QED
    BY <2>2, <2>3, <2>4
<1>3. ScanList => Since' = Since
  BY DEF ScanList
<1>4. ASSUME ScanFails PROVE Since' = Since
  <2>1. spc = "idle" /\ fired /\ timer = 0 /\ ~fired' /\ spc' = spc /\ timer' = timer
    BY <1>4 DEF ScanFails
  <2>2. failures' = failures + 1
    BY <1>4 DEF ScanFails
  <2>3. (failures + 1) * ScanPeriod = failures * ScanPeriod + ScanPeriod /\ failures * ScanPeriod \in Nat
    BY Periods
  <2> QED
    BY <2>1, <2>2, <2>3
<1>5. ScanJudge \/ ScanSync => Since' = Since
  BY DEF ScanJudge, ScanSync
<1>6. ScanDone => Since' = 0
  BY DEF ScanDone
<1> QED
  BY <1>1, <1>2, <1>3, <1>4, <1>5, <1>6

LEMMA InitGrey == Init => GreyInv
<1> SUFFICES ASSUME Init PROVE GreyInv
  OBVIOUS
<1>1. TypeOK /\ Reported
  BY InitTypeOK DEF Init, Reported
<1>2. Prompt /\ Punctual
  BY OwnDevice DEF Init, Prompt, Punctual
<1>3. up
  BY DEF Init
<1>4. Watched /\ Listed /\ VerdictsHold /\ Synced
  BY DEF Init, Watched, Listed, VerdictsHold, Synced
<1> QED
  BY <1>1, <1>2, <1>3, <1>4 DEF GreyInv, Down

(* A report that is past its upsert found its row at most Lag behind.       *)
LEMMA StepReported ==
  KeepsUp /\ TypeOK /\ Prompt /\ Reported /\ [Next]_vars => Reported'
<1> SUFFICES ASSUME KeepsUp, TypeOK, Prompt, Reported, [Next]_vars PROVE Reported'
  OBVIOUS
<1> USE OwnDevice, PresenceAssumption, MaxAgeNat
<1> USE DEF TypeOK, Prompt, Reported, Ages, storeVars, reportVars, scanVars, tickerVars, envVars
<1>1. ASSUME NEW r \in Requests, Accept(r) PROVE Reported'
  BY <1>1 DEF Accept
<1>2. ASSUME NEW r \in Requests, Upsert(r) PROVE Reported'
  <2>1. rage[r] \in Nat /\ rage[r] <= Latency - 1 /\ Device(r) \in Devices
    BY <1>2 DEF Upsert
  <2>2. age'[Device(r)] = rage[r] /\ rage' = rage /\ Device(r) \in stored' /\ stored \subseteq stored'
    BY <1>2, <2>1 DEF Upsert
  <2>3. SUFFICES ASSUME NEW q \in Requests, rpc'[q] \in {"mark", "announce"}
                 PROVE  Device(q) \in stored' /\ age'[Device(q)] <= rage'[q] + Latency - 1
    OBVIOUS
  <2>4. rage[q] \in Nat /\ Device(q) \in Devices
    OBVIOUS
  <2>5. CASE Device(q) = Device(r)
    BY <2>1, <2>2, <2>4, <2>5
  <2>6. CASE Device(q) # Device(r)
    BY <1>2, <2>2, <2>3, <2>4, <2>6 DEF Upsert
  <2> QED
    BY <2>5, <2>6
<1>3. ASSUME NEW r \in Requests, UpsertFails(r) \/ MarkOnline(r) \/ AnnounceUpdate(r) PROVE Reported'
  BY <1>3 DEF UpsertFails, MarkOnline, AnnounceUpdate
<1>4. CASE Tick
  <2>1. SUFFICES ASSUME NEW q \in Requests, rpc[q] \in {"mark", "announce"}
                 PROVE  age'[Device(q)] <= rage'[q] + Latency - 1
    BY <1>4 DEF Tick
  <2>2. rage[q] \in Nat /\ age[Device(q)] \in Nat /\ Device(q) \in Devices /\ Device(q) \in stored
    BY <2>1
  <2>3. rage[q] + 1 < Latency
    BY <1>4, <2>1 DEF Tick, OnTime
  <2>4. rage[q] < MaxAge
    BY <2>2, <2>3, Periods DEF MaxAge
  <2>5. rage'[q] = rage[q] + 1 /\ age'[Device(q)] <= age[Device(q)] + 1
    BY <1>4, <2>1, <2>2, <2>4 DEF Tick, Older
  <2>6. age[Device(q)] <= rage[q] + Latency - 1 /\ age'[Device(q)] \in Int
    BY <1>4, <2>1, <2>2 DEF Tick, Older
  <2> QED
    BY <2>2, <2>5, <2>6
<1>5. CASE Stop
  BY <1>5 DEF Stop
<1>6. ASSUME UNCHANGED <<stored, age, rpc, rage>> PROVE Reported'
  BY <1>6
<1>7. CASE Scan \/ Start \/ \E d \in Devices : Die(d)
  BY <1>6, <1>7 DEF Scan, ScanList, ScanFails, ScanJudge, ScanSync, ScanDone, ScanForget,
                    AnnounceOffline, Start, Die
<1>8. CASE UNCHANGED vars
  BY <1>6, <1>8 DEF vars
<1> QED
  BY <1>1, <1>2, <1>3, <1>4, <1>5, <1>7, <1>8 DEF Next, Handle

LEMMA StepPunctual == Timely /\ TypeOK /\ Punctual /\ [Next]_vars => Punctual'
<1> SUFFICES ASSUME Timely, TypeOK, Punctual, [Next]_vars PROVE Punctual'
  OBVIOUS
<1> USE PresenceAssumption DEF TypeOK, Punctual, storeVars, reportVars, scanVars, tickerVars, envVars
<1>1. ASSUME NEW r \in Requests, Accept(r) \/ Handle(r) PROVE Punctual'
  BY <1>1 DEF Accept, Handle, Upsert, UpsertFails, MarkOnline, AnnounceUpdate
<1>2. CASE Scan
  BY <1>2 DEF Scan, ScanList, ScanFails, ScanJudge, ScanSync, ScanDone, ScanForget, AnnounceOffline
<1>3. CASE Tick
  <2>1. spc = "idle" /\ ~fired
    BY <1>3 DEF Tick, OnTime, Timely
  <2>2. timer + 1 = ScanPeriod => (timer + 1) % ScanPeriod = 0
    OBVIOUS
  <2> QED
    BY <1>3, <2>1, <2>2 DEF Tick
<1>4. CASE Stop
  BY <1>4 DEF Stop
<1>5. CASE Start \/ \E d \in Devices : Die(d)
  BY <1>5 DEF Start, Die
<1>6. CASE UNCHANGED vars
  BY <1>6 DEF vars
<1> QED
  BY <1>1, <1>2, <1>3, <1>4, <1>5, <1>6 DEF Next

LEMMA StepDown == GreyInv /\ [Next]_vars => Down'
<1> SUFFICES ASSUME GreyInv, [Next]_vars PROVE Down'
  OBVIOUS
<1> USE OwnDevice DEF GreyInv, TypeOK, Down, storeVars, reportVars, scanVars, tickerVars, envVars
<1>1. ASSUME NEW r \in Requests, Accept(r) \/ Handle(r) PROVE Down'
  BY <1>1 DEF Accept, Handle, Upsert, UpsertFails, MarkOnline, AnnounceUpdate
<1>2. CASE Scan
  BY <1>2 DEF Scan, ScanList, ScanFails, ScanJudge, ScanSync, ScanDone, ScanForget, AnnounceOffline
<1>3. CASE Tick
  BY <1>3 DEF Tick
<1>4. CASE Stop
  BY <1>4 DEF Stop
<1>5. CASE Start \/ \E d \in Devices : Die(d)
  BY <1>5 DEF Start, Die
<1>6. CASE UNCHANGED vars
  BY <1>6 DEF vars
<1> QED
  BY <1>1, <1>2, <1>3, <1>4, <1>5, <1>6 DEF Next

(* A request that is past its upsert has left a recent row.                 *)
LEMMA JustReported ==
  ASSUME GreyInv, NEW r \in Requests, rpc[r] \in {"mark", "announce"}
  PROVE  Device(r) \in stored /\ Recent(Device(r))
<1>1. /\ Device(r) \in stored
      /\ age[Device(r)] <= rage[r] + Latency - 1
      /\ rage[r] <= Latency - 1
  BY DEF GreyInv, Reported, Prompt
<1>2. rage[r] \in Nat /\ age[Device(r)] \in Nat
  BY OwnDevice, MaxAgeNat DEF GreyInv, TypeOK, Ages
<1> QED
  BY <1>1, <1>2, PresenceAssumption DEF Recent, Lag

(* Only the clock changes the age of a row for the worse.                   *)
LEMMA StepWatched == Timely /\ GreyInv /\ [Next]_vars => Watched'
<1> SUFFICES ASSUME Timely, GreyInv, [Next]_vars PROVE Watched'
  OBVIOUS
<1>0. /\ Since \in Nat /\ Lag + Since <= Threshold
      /\ UNCHANGED <<failures, fired, spc, timer>> => Since' = Since
      /\ Tick => Since' = IF up THEN Since + 1 ELSE Since
      /\ ScanList \/ ScanFails \/ ScanJudge \/ ScanSync => Since' = Since
      /\ ScanDone => Since' = 0
  BY Budget, SinceSteps DEF GreyInv
<1> USE <1>0, OwnDevice, PresenceAssumption, MaxAgeNat, JustReported, LagNat
<1> USE DEF GreyInv, TypeOK, Watched, Ages, storeVars, reportVars, scanVars, tickerVars, envVars
<1>1. ASSUME NEW r \in Requests, Accept(r) \/ UpsertFails(r) \/ MarkOnline(r) PROVE Watched'
  BY <1>1 DEF Accept, UpsertFails, MarkOnline
<1>2. ASSUME NEW r \in Requests, Upsert(r) PROVE Watched'
  BY <1>2 DEF Upsert, Prompt
<1>3. ASSUME NEW r \in Requests, AnnounceUpdate(r) PROVE Watched'
  BY <1>3 DEF AnnounceUpdate, Recent
<1>4. CASE ScanList \/ ScanFails \/ ScanJudge
  BY <1>4 DEF ScanList, ScanFails, ScanJudge
<1>5. ASSUME NEW d \in Devices, ScanForget(d) PROVE Watched'
  BY <1>5 DEF ScanForget
<1>6. CASE ScanSync
  BY <1>6 DEF ScanSync
<1>7. ASSUME NEW d \in Devices, AnnounceOffline(d) PROVE Watched'
  BY <1>7 DEF AnnounceOffline
<1>8. CASE ScanDone
  BY <1>8 DEF ScanDone, Synced, Recent
<1>9. CASE Tick
  <2>1. ~up => \A d \in Devices : last[d] = "none"
    BY DEF Down
  <2> QED
    BY <1>9, <2>1 DEF Tick, Older
<1>10. CASE Stop
  BY <1>10 DEF Stop
<1>11. CASE Start \/ \E d \in Devices : Die(d)
  BY <1>11 DEF Start, Die
<1>12. CASE UNCHANGED vars
  BY <1>12 DEF vars
<1> QED
  BY <1>1, <1>2, <1>3, <1>4, <1>5, <1>6, <1>7, <1>8, <1>9, <1>10, <1>11, <1>12
     DEF Next, Handle, Scan

LEMMA StepListed == Timely /\ GreyInv /\ [Next]_vars => Listed'
<1> SUFFICES ASSUME Timely, GreyInv, [Next]_vars PROVE Listed'
  OBVIOUS
<1> USE OwnDevice, PresenceAssumption, MaxAgeNat, LagNat
<1> USE DEF GreyInv, TypeOK, Listed, Recent, Ages, storeVars, reportVars, scanVars, tickerVars, envVars
<1>1. ASSUME NEW r \in Requests, Accept(r) \/ UpsertFails(r) \/ MarkOnline(r) \/ AnnounceUpdate(r)
      PROVE  Listed'
  BY <1>1 DEF Accept, UpsertFails, MarkOnline, AnnounceUpdate
<1>2. ASSUME NEW r \in Requests, Upsert(r) PROVE Listed'
  BY <1>2 DEF Upsert, Prompt
<1>3. CASE Scan
  BY <1>3 DEF Scan, ScanList, ScanFails, ScanJudge, ScanSync, ScanDone, ScanForget, AnnounceOffline
<1>4. CASE Tick
  BY <1>4 DEF Tick, OnTime, Timely
<1>5. CASE Stop
  BY <1>5 DEF Stop
<1>6. CASE Start \/ \E d \in Devices : Die(d)
  BY <1>6 DEF Start, Die
<1>7. CASE UNCHANGED vars
  BY <1>7 DEF vars
<1> QED
  BY <1>1, <1>2, <1>3, <1>4, <1>5, <1>6, <1>7 DEF Next, Handle

(* The scan misses nobody: who is announced online and is not recent is     *)
(* judged by it, and a silent one is known and so will be announced.        *)
LEMMA StepVerdicts == Timely /\ GreyInv /\ [Next]_vars => VerdictsHold'
<1> SUFFICES ASSUME Timely, GreyInv, [Next]_vars PROVE VerdictsHold'
  OBVIOUS
<1>0. Since \in Nat /\ Lag + Since <= Threshold
  BY Budget DEF GreyInv
<1> USE <1>0, OwnDevice, PresenceAssumption, MaxAgeNat, JustReported, LagNat
<1> USE DEF GreyInv, TypeOK, VerdictsHold, Recent, Ages, storeVars, reportVars, scanVars, tickerVars, envVars
<1>1. ASSUME NEW r \in Requests, Accept(r) \/ UpsertFails(r) \/ MarkOnline(r) PROVE VerdictsHold'
  BY <1>1 DEF Accept, UpsertFails, MarkOnline
<1>2. ASSUME NEW r \in Requests, Upsert(r) PROVE VerdictsHold'
  BY <1>2 DEF Upsert, Prompt
<1>3. ASSUME NEW r \in Requests, AnnounceUpdate(r) PROVE VerdictsHold'
  BY <1>3 DEF AnnounceUpdate
<1>4. CASE ScanJudge
  <2>1. /\ fresh' = {d \in listed : lage[d] <= Threshold}
        /\ stale' = listed \ fresh'
        /\ UNCHANGED <<last, age, stored>>
    BY <1>4 DEF ScanJudge, Online
  <2>2. \A d \in stored : Recent(d) \/ (d \in listed /\ lage[d] = age[d])
    BY <1>4 DEF ScanJudge, Listed
  <2>3. ASSUME NEW d \in stored
        PROVE  Recent(d) \/ (d \in fresh' /\ age[d] <= Threshold) \/ d \in stale'
    BY <2>1, <2>2
  <2>4. \A d \in Devices : last[d] = "update" => d \in stored
    BY DEF Watched
  <2>5. \A d \in stale' : d \in stored => Recent(d) \/ age[d] > Threshold
    BY <2>1, <2>2
  <2>6. stale' \subseteq stored
    BY <1>4, <2>1 DEF ScanJudge, Listed
  <2> QED
    BY <2>1, <2>3, <2>4, <2>5, <2>6
<1>5. ASSUME NEW d \in Devices, ScanForget(d) PROVE VerdictsHold'
  BY <1>5 DEF ScanForget, Watched
<1>6. CASE ScanList \/ ScanFails \/ ScanSync \/ ScanDone
  BY <1>6 DEF ScanList, ScanFails, ScanSync, ScanDone
<1>7. ASSUME NEW d \in Devices, AnnounceOffline(d) PROVE VerdictsHold'
  BY <1>7 DEF AnnounceOffline
<1>8. CASE Tick
  BY <1>8 DEF Tick, OnTime, Timely
<1>9. CASE Stop
  BY <1>9 DEF Stop
<1>10. CASE Start \/ \E d \in Devices : Die(d)
  BY <1>10 DEF Start, Die
<1>11. CASE UNCHANGED vars
  BY <1>11 DEF vars
<1> QED
  BY <1>1, <1>2, <1>3, <1>4, <1>5, <1>6, <1>7, <1>8, <1>9, <1>10, <1>11 DEF Next, Handle, Scan

(* Once known is in step again, who is announced online is recent, known,   *)
(* or about to be announced offline.                                        *)
LEMMA StepSynced == Timely /\ GreyInv /\ [Next]_vars => Synced'
<1> SUFFICES ASSUME Timely, GreyInv, [Next]_vars PROVE Synced'
  OBVIOUS
<1> USE OwnDevice, PresenceAssumption, MaxAgeNat, JustReported, LagNat
<1> USE DEF GreyInv, TypeOK, Synced, Recent, Ages, storeVars, reportVars, scanVars, tickerVars, envVars
<1>1. ASSUME NEW r \in Requests, Accept(r) \/ UpsertFails(r) \/ MarkOnline(r) PROVE Synced'
  BY <1>1 DEF Accept, UpsertFails, MarkOnline
<1>2. ASSUME NEW r \in Requests, Upsert(r) PROVE Synced'
  BY <1>2 DEF Upsert, Prompt
<1>3. ASSUME NEW r \in Requests, AnnounceUpdate(r) PROVE Synced'
  BY <1>3 DEF AnnounceUpdate
<1>4. CASE ScanSync
  BY <1>4 DEF ScanSync, VerdictsHold
<1>5. ASSUME NEW d \in Devices, AnnounceOffline(d) PROVE Synced'
  BY <1>5 DEF AnnounceOffline
<1>6. ASSUME NEW d \in Devices, ScanForget(d) PROVE Synced'
  BY <1>6 DEF ScanForget
<1>7. CASE ScanList \/ ScanFails \/ ScanJudge \/ ScanDone
  BY <1>7 DEF ScanList, ScanFails, ScanJudge, ScanDone
<1>8. CASE Tick
  BY <1>8 DEF Tick, OnTime, Timely
<1>9. CASE Stop
  BY <1>9 DEF Stop
<1>10. CASE Start \/ \E d \in Devices : Die(d)
  BY <1>10 DEF Start, Die
<1>11. CASE UNCHANGED vars
  BY <1>11 DEF vars
<1> QED
  BY <1>1, <1>2, <1>3, <1>4, <1>5, <1>6, <1>7, <1>8, <1>9, <1>10, <1>11 DEF Next, Handle, Scan

LEMMA StepGrey == Timely /\ GreyInv /\ [Next]_vars => GreyInv'
  BY StepTypeOK, StepReported, StepPrompt, StepPunctual, StepDown, StepWatched, StepListed,
     StepVerdicts, StepSynced
     DEF GreyInv, Timely

LEMMA GreyInvImplies == Timely /\ GreyInv => GreyInTime
<1> SUFFICES ASSUME Timely, GreyInv, NEW d \in Devices, last[d] = "update"
             PROVE  age[d] <= Threshold + (failures + 1) * ScanPeriod
  BY DEF GreyInTime
<1>1. Since \in Nat /\ Since <= (failures + 1) * ScanPeriod
  BY Budget DEF GreyInv
<1>2. age[d] <= Threshold + Since
  BY DEF GreyInv, Watched
<1>3. age[d] \in Nat /\ Threshold \in Nat
  BY PresenceAssumption, MaxAgeNat DEF GreyInv, TypeOK, Ages
<1>4. (failures + 1) * ScanPeriod \in Nat
  <2>1. failures \in 0..MaxFailures
    BY DEF GreyInv, TypeOK
  <2> QED
    BY <2>1, PresenceAssumption
<1> QED
  BY <1>1, <1>2, <1>3, <1>4

(* No device is announced online longer than the threshold, one scan period *)
(* and one more for each failed scan after its last report, if a report and *)
(* the scans that fail in a row fit into the threshold.                     *)
THEOREM PresenceGreysInTime ==
  ASSUME Timely
  PROVE  Spec => []GreyInTime
<1>1. Init => GreyInv
  BY InitGrey
<1>2. GreyInv /\ [Next]_vars => GreyInv'
  BY StepGrey
<1>3. GreyInv => GreyInTime
  BY GreyInvImplies
<1> QED
  BY <1>1, <1>2, <1>3, PTL DEF Spec
=============================================================================
