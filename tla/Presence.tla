------------------------------ MODULE Presence ------------------------------
(***************************************************************************)
(* How the server decides that a device is online or offline: the Report    *)
(* handler (server/internal/api/handlers.go) that stamps last_seen_at, the  *)
(* offline tracker (server/internal/state/state.go) that scans the stored   *)
(* states and remembers in "known" whom it has to announce, the row of each *)
(* device in the store, and the events both broadcast.                      *)
(*                                                                          *)
(* Time is counted in ticks.  Only ages matter to the code (now minus       *)
(* last_seen_at against the threshold), so the model keeps ages and not     *)
(* instants; ages stop growing at MaxAge, beyond every comparison.          *)
(***************************************************************************)
EXTENDS Integers

CONSTANTS Devices,
          InFlight,      \* requests the server may be handling for one device
          Threshold,     \* OFFLINE_THRESHOLD
          ScanPeriod,    \* SCAN_INTERVAL
          Latency,       \* a report is handled in less ticks than this, and
          KeepsUp,       \*   a scan within its tick, when KeepsUp is TRUE
          MaxFailures,   \* bound on the scans in a row whose query fails
          MaxRestarts    \* bound on the number of server restarts

ASSUME PresenceAssumption ==
    /\ InFlight \in Nat \ {0}
    /\ Threshold \in Nat \ {0}
    /\ ScanPeriod \in Nat \ {0}
    /\ Latency \in Nat \ {0}
    /\ KeepsUp \in BOOLEAN
    /\ MaxFailures \in Nat
    /\ MaxRestarts \in Nat

Requests == Devices \X (1..InFlight)
Device(r) == r[1]

MaxAge == Threshold + (MaxFailures + 1) * ScanPeriod + Latency + 1
Ages == 0..MaxAge

VARIABLES
    stored,    \* devices with a row in device_state
    age,       \* age[d]: age of the row's last_seen_at
    known,     \* Tracker.known
    last,      \* last[d]: the last event broadcast about d by this process
    rpc,       \* where each Report handler is
    rage,      \* rage[r]: age of the seenAt that request r was stamped with
    spc,       \* where the tracker goroutine is
    listed,    \* the rows its scan has read, before it looks at the clock
    lage,      \* lage[d]: age now of the last_seen_at it read for d
    fresh,     \* devices the scan judged online
    stale,     \* devices it judged offline and has not processed yet
    leaving,   \* devices whose transition it has yet to broadcast
    timer,     \* ticks since the ticker last fired
    fired,     \* the ticker's channel holds a tick
    failures,  \* history: scans that have failed since the last one that did not
    up,        \* the server process runs
    restarts,  \* restarts so far
    alive      \* devices whose agent still reports

storeVars  == <<stored, age>>
reportVars == <<rpc, rage>>
scanVars   == <<spc, listed, lage, fresh, stale, leaving, failures>>
tickerVars == <<timer, fired>>
envVars    == <<up, restarts, alive>>
vars == <<storeVars, known, last, reportVars, scanVars, tickerVars, envVars>>

TypeOK ==
    /\ stored \subseteq Devices
    /\ age \in [Devices -> Ages]
    /\ known \subseteq Devices
    /\ last \in [Devices -> {"none", "update", "offline"}]
    /\ rpc \in [Requests -> {"idle", "upsert", "mark", "announce"}]
    /\ rage \in [Requests -> Ages]
    /\ spc \in {"idle", "listed", "judge", "announce"}
    /\ listed \subseteq Devices
    /\ lage \in [Devices -> Ages]
    /\ fresh \subseteq Devices
    /\ stale \subseteq Devices
    /\ leaving \subseteq Devices
    /\ timer \in 0..(ScanPeriod - 1)
    /\ fired \in BOOLEAN
    /\ failures \in 0..MaxFailures
    /\ up \in BOOLEAN
    /\ restarts \in 0..MaxRestarts
    /\ alive \subseteq Devices

Init ==
    /\ stored = {}
    /\ age = [d \in Devices |-> 0]
    /\ known = {}
    /\ last = [d \in Devices |-> "none"]
    /\ rpc = [r \in Requests |-> "idle"]
    /\ rage = [r \in Requests |-> 0]
    /\ spc = "idle"
    /\ listed = {}
    /\ lage = [d \in Devices |-> 0]
    /\ fresh = {}
    /\ stale = {}
    /\ leaving = {}
    /\ timer = 0
    /\ fired = FALSE
    /\ failures = 0
    /\ up = TRUE
    /\ restarts = 0
    /\ alive = Devices

-----------------------------------------------------------------------------
(* The Report handler *)

(* Mutation: the time the client claims is taken, which may lie ahead or    *)
(* behind.                                                                  *)
AcceptClientClock(r) ==
    /\ up
    /\ Device(r) \in alive
    /\ rpc[r] = "idle"
    /\ rpc' = [rpc EXCEPT ![r] = "upsert"]
    /\ \E skewed \in {-1, MaxAge} : rage' = [rage EXCEPT ![r] = skewed]
    /\ UNCHANGED <<storeVars, known, last, scanVars, tickerVars, envVars>>

(* The request is authenticated and valid, and stamped with the server's    *)
(* clock: from here on its device is the one the token belongs to.          *)
Accept(r) ==
    /\ up
    /\ Device(r) \in alive
    /\ rpc[r] = "idle"
    /\ rpc' = [rpc EXCEPT ![r] = "upsert"]
    /\ rage' = [rage EXCEPT ![r] = 0]
    /\ UNCHANGED <<storeVars, known, last, scanVars, tickerVars, envVars>>

(* UpsertState overwrites the row, whatever it holds. *)
Upsert(r) ==
    /\ rpc[r] = "upsert"
    /\ stored' = stored \cup {Device(r)}
    /\ age' = [age EXCEPT ![Device(r)] = rage[r]]
    /\ rpc' = [rpc EXCEPT ![r] = "mark"]
    /\ UNCHANGED <<known, last, rage, scanVars, tickerVars, envVars>>

(* The store returns an error: 500, nothing else happens. *)
UpsertFails(r) ==
    /\ rpc[r] = "upsert"
    /\ rpc' = [rpc EXCEPT ![r] = "idle"]
    /\ rage' = [rage EXCEPT ![r] = 0]
    /\ UNCHANGED <<storeVars, known, last, scanVars, tickerVars, envVars>>

MarkOnline(r) ==
    /\ rpc[r] = "mark"
    /\ known' = known \cup {Device(r)}
    /\ rpc' = [rpc EXCEPT ![r] = "announce"]
    /\ UNCHANGED <<storeVars, last, rage, scanVars, tickerVars, envVars>>

(* Mutation: an update is broadcast only for a device not known already. *)
AnnounceIfUnknown(r) ==
    /\ rpc[r] = "announce"
    /\ last' = IF Device(r) \in known THEN last ELSE [last EXCEPT ![Device(r)] = "update"]
    /\ rpc' = [rpc EXCEPT ![r] = "idle"]
    /\ rage' = [rage EXCEPT ![r] = 0]
    /\ UNCHANGED <<storeVars, known, scanVars, tickerVars, envVars>>

AnnounceUpdate(r) ==
    /\ rpc[r] = "announce"
    /\ last' = [last EXCEPT ![Device(r)] = "update"]
    /\ rpc' = [rpc EXCEPT ![r] = "idle"]
    /\ rage' = [rage EXCEPT ![r] = 0]
    /\ UNCHANGED <<storeVars, known, scanVars, tickerVars, envVars>>

-----------------------------------------------------------------------------
(* The tracker: Run and scanOnce *)

ScanList ==
    /\ up /\ spc = "idle" /\ fired
    /\ fired' = FALSE
    /\ listed' = stored
    /\ lage' = [d \in Devices |-> IF d \in stored THEN age[d] ELSE 0]
    /\ spc' = "listed"
    /\ UNCHANGED <<storeVars, known, last, reportVars, fresh, stale, leaving, failures, timer, envVars>>

ScanFails ==
    /\ failures < MaxFailures
    /\ up /\ spc = "idle" /\ fired
    /\ fired' = FALSE
    /\ failures' = failures + 1
    /\ UNCHANGED <<storeVars, known, last, reportVars, spc, listed, lage, fresh, stale, leaving,
                   timer, envVars>>

Online(a) == a <= Threshold

(* The scan looks at the clock once and judges the rows it has read. *)
ScanJudge ==
    /\ spc = "listed"
    /\ fresh' = {d \in listed : Online(lage[d])}
    /\ stale' = listed \ fresh'
    /\ listed' = {}
    /\ lage' = [d \in Devices |-> 0]
    /\ spc' = "judge"
    /\ UNCHANGED <<storeVars, known, last, reportVars, leaving, failures, tickerVars, envVars>>

(* Mutation: the transition is not kept. *)
ScanForgetSilently(d) ==
    /\ spc = "judge"
    /\ d \in stale
    /\ stale' = stale \ {d}
    /\ known' = known \ {d}
    /\ UNCHANGED <<storeVars, last, reportVars, spc, listed, lage, fresh, leaving, failures, tickerVars, envVars>>

(* A silent device is forgotten; if it was known, its transition is kept. *)
ScanForget(d) ==
    /\ spc = "judge"
    /\ d \in stale
    /\ stale' = stale \ {d}
    /\ known' = known \ {d}
    /\ leaving' = leaving \cup ({d} \cap known)
    /\ UNCHANGED <<storeVars, last, reportVars, spc, listed, lage, fresh, failures, tickerVars, envVars>>

(* Mutation: only reports enter a device in known. *)
ScanSyncNothing ==
    /\ spc = "judge"
    /\ stale = {}
    /\ fresh' = {}
    /\ spc' = "announce"
    /\ UNCHANGED <<storeVars, known, last, reportVars, listed, lage, stale, leaving, failures, tickerVars, envVars>>

(* The devices judged online are (re)entered in known. *)
ScanSync ==
    /\ spc = "judge"
    /\ stale = {}
    /\ known' = known \cup fresh
    /\ fresh' = {}
    /\ spc' = "announce"
    /\ UNCHANGED <<storeVars, last, reportVars, listed, lage, stale, leaving, failures, tickerVars, envVars>>

AnnounceOffline(d) ==
    /\ spc = "announce"
    /\ d \in leaving
    /\ last' = [last EXCEPT ![d] = "offline"]
    /\ leaving' = leaving \ {d}
    /\ UNCHANGED <<storeVars, known, reportVars, spc, listed, lage, fresh, stale, failures, tickerVars, envVars>>

ScanDone ==
    /\ spc = "announce"
    /\ leaving = {}
    /\ spc' = "idle"
    /\ failures' = 0
    /\ UNCHANGED <<storeVars, known, last, reportVars, listed, lage, fresh, stale, leaving,
                   tickerVars, envVars>>

-----------------------------------------------------------------------------
(* The environment *)

Older(f) == [x \in DOMAIN f |-> IF f[x] < MaxAge THEN f[x] + 1 ELSE f[x]]

(* With KeepsUp, no scan and no report is left behind by the clock. *)
OnTime == KeepsUp => /\ spc = "idle" /\ ~fired
                     /\ \A r \in Requests : rpc[r] # "idle" => rage[r] + 1 < Latency

Tick ==
    /\ OnTime
    /\ age' = [d \in Devices |-> IF d \in stored THEN Older(age)[d] ELSE 0]
    /\ rage' = [r \in Requests |-> IF rpc[r] # "idle" THEN Older(rage)[r] ELSE 0]
    /\ lage' = [d \in Devices |-> IF d \in listed THEN Older(lage)[d] ELSE 0]
    /\ IF up THEN /\ timer' = (timer + 1) % ScanPeriod
                  /\ fired' = (fired \/ timer + 1 = ScanPeriod)
             ELSE UNCHANGED tickerVars
    /\ UNCHANGED <<stored, known, last, rpc, spc, listed, fresh, stale, leaving, failures, envVars>>

(* The agent stops for good. *)
Die(d) ==
    /\ d \in alive
    /\ alive' = alive \ {d}
    /\ UNCHANGED <<storeVars, known, last, reportVars, scanVars, tickerVars, up, restarts>>

(* The process ends: only the database survives.  The hub of the next       *)
(* process has broadcast nothing.                                           *)
Stop ==
    /\ up
    /\ restarts < MaxRestarts
    /\ up' = FALSE
    /\ restarts' = restarts + 1
    /\ known' = {}
    /\ last' = [d \in Devices |-> "none"]
    /\ rpc' = [r \in Requests |-> "idle"]
    /\ rage' = [r \in Requests |-> 0]
    /\ spc' = "idle"
    /\ listed' = {} /\ fresh' = {} /\ stale' = {} /\ leaving' = {}
    /\ lage' = [d \in Devices |-> 0]
    /\ timer' = 0
    /\ fired' = FALSE
    /\ failures' = 0
    /\ UNCHANGED <<storeVars, alive>>

Start ==
    /\ ~up
    /\ up' = TRUE
    /\ UNCHANGED <<storeVars, known, last, reportVars, scanVars, tickerVars, restarts, alive>>

-----------------------------------------------------------------------------
Handle(r) == Upsert(r) \/ UpsertFails(r) \/ MarkOnline(r) \/ AnnounceUpdate(r)

Scan == \/ ScanList \/ ScanFails \/ ScanJudge \/ ScanSync \/ ScanDone
        \/ \E d \in Devices : ScanForget(d) \/ AnnounceOffline(d)

Next == \/ \E r \in Requests : Accept(r) \/ Handle(r)
        \/ Scan
        \/ Tick \/ Stop \/ Start
        \/ \E d \in Devices : Die(d)

Spec == Init /\ [][Next]_vars

(* Goroutines are scheduled, the clock runs, a stopped server is restarted. *)
(* An agent that lives keeps reporting; errors of the store are transient;  *)
(* no number of reports stops the time.                                     *)
Fairness ==
    /\ \A r \in Requests : /\ WF_vars(Accept(r))
                           /\ WF_vars(Handle(r))
                           /\ SF_vars(Upsert(r))
    /\ WF_vars(Scan)
    /\ SF_vars(ScanList)
    /\ SF_vars(Tick)
    /\ WF_vars(Start)

FairSpec == Spec /\ Fairness

-----------------------------------------------------------------------------
(* Properties *)

(* The announced state of a device is never online for longer than the      *)
(* threshold and one scan after its last report, and one more period for    *)
(* each scan since then whose query failed: README.md gives SCAN_INTERVAL   *)
(* as the worst delay between going silent and turning grey.                *)
GreyInTime ==
    \A d \in Devices :
        last[d] = "update" => age[d] <= Threshold + (failures + 1) * ScanPeriod

(* Overlapping reports may overtake each other, and UpsertState writes the  *)
(* row whatever it holds.  But a row is only ever set back to an            *)
(* observation as recent as a report under way: a report cannot make a      *)
(* device look silent.                                                      *)
SetBackIsRecent ==
    [][Tick \/ \A d \in stored : age'[d] <= age[d] \/ age'[d] < Latency]_vars

Outage(d) == up /\ d \in stored /\ Online(age[d]) /\ d \notin alive

(* Every outage is announced: when a device that is within the threshold    *)
(* never reports again, the server, as long as it runs, broadcasts it as    *)
(* offline (README.md, "the server broadcasts offline when a device has     *)
(* been silent for longer than the threshold").  So it is in a process that *)
(* has seen the device report.                                              *)
OutageAnnounced ==
    \A d \in Devices : (Outage(d) /\ d \in known) ~> (last[d] = "offline" \/ ~up)

(* The same for every process that finds the device within the threshold,   *)
(* also when it has only read its row.                                      *)
EveryOutageAnnounced ==
    \A d \in Devices : Outage(d) ~> (last[d] = "offline" \/ ~up)

(* A device that keeps reporting is, again and again, announced as online,  *)
(* whatever the scans announced in between.                                 *)
ComesBack == \A d \in Devices : d \in alive ~> (last[d] = "update" \/ d \notin alive)

(* When neither a scan nor a report of the device is under way, a device    *)
(* announced as offline is one whose last report is past the threshold.     *)
OfflineMeansSilent ==
    \A d \in Devices :
        (last[d] = "offline" /\ spc = "idle" /\ \A r \in Requests : Device(r) = d => rpc[r] = "idle")
            => ~Online(age[d])
=============================================================================
