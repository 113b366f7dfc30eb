------------------------------ MODULE LiveView ------------------------------
(***************************************************************************)
(* The server of Presence seen from one open page: the SSE subscription and *)
(* its channel in the hub, the Snapshot handler, and the useDeviceStream    *)
(* hook of the page (web/src/hooks/useDeviceStream.ts) that merges both     *)
(* into the list of cards.                                                  *)
(*                                                                          *)
(* Of the hub only what Hub proves it to be is kept: a subscription hands   *)
(* over, in order and without gap, what is broadcast after it, until the    *)
(* hub cuts it because it lags.  Of a card only its online flag is kept.    *)
(***************************************************************************)
EXTENDS Presence, Sequences

CONSTANTS Loads,          \* snapshot requests that may be outstanding at once
          Cap,            \* events under way to the page before the hub cuts it
          NetworkDrops,   \* whether the connection of the stream may break
          FetchesMayFail  \* whether a snapshot request may fail

ASSUME LiveViewAssumption ==
    /\ Loads # {}
    /\ Cap \in Nat \ {0}
    /\ NetworkDrops \in BOOLEAN
    /\ FetchesMayFail \in BOOLEAN

NoRow == -1

VARIABLES
    conn,     \* "connecting", "subscribed" (on the server), "open", "cut" (by the hub)
    once,     \* connectedOnce
    chan,     \* events broadcast to the stream and not yet seen by the page
    load,     \* load[l]: where snapshot request l is
    rows,     \* rows[l]: the age of each row it has read, or NoRow
    answer,   \* answer[l]: the cards of its response
    view,     \* view[d]: the card of d
    error,    \* the page shows that a snapshot could not be fetched
    byEvent   \* history: cards last set by an event of the present stream

loadVars == <<load, rows, answer>>
pageVars == <<conn, once, chan, loadVars, view, error, byEvent>>
allVars  == <<vars, pageVars>>

Card == {"absent", "update", "offline"}

ViewTypeOK ==
    /\ TypeOK
    /\ conn \in {"connecting", "subscribed", "open", "cut"}
    /\ once \in BOOLEAN
    /\ chan \in Seq(Devices \X {"update", "offline"})
    /\ Len(chan) <= Cap
    /\ load \in [Loads -> {"none", "asked", "listed", "answered"}]
    /\ rows \in [Loads -> [Devices -> Ages \cup {NoRow}]]
    /\ answer \in [Loads -> [Devices -> Card]]
    /\ view \in [Devices -> Card]
    /\ error \in BOOLEAN
    /\ byEvent \subseteq Devices

Blank == [d \in Devices |-> "absent"]
Unread == [d \in Devices |-> NoRow]

(* The page is opened at any moment: it asks for a snapshot and connects.   *)
ViewInit ==
    /\ Init
    /\ conn = "connecting"
    /\ once = FALSE
    /\ chan = <<>>
    /\ \E l \in Loads : load = [k \in Loads |-> IF k = l THEN "asked" ELSE "none"]
    /\ rows = [l \in Loads |-> Unread]
    /\ answer = [l \in Loads |-> Blank]
    /\ view = Blank
    /\ error = FALSE
    /\ byEvent = {}

-----------------------------------------------------------------------------
(* The server side *)

(* Mutation: a channel without a limit. *)
PushUnbounded(ev) ==
    /\ UNCHANGED <<conn, once, loadVars, view, byEvent, error>>
    /\ chan' = IF conn \in {"subscribed", "open"} THEN Append(chan, ev) ELSE chan

(* Mutation: an event that does not fit is dropped, the stream stays. *)
PushLossy(ev) ==
    /\ UNCHANGED <<conn, once, loadVars, view, byEvent, error>>
    /\ chan' = IF conn \in {"subscribed", "open"} /\ Len(chan) < Cap
               THEN Append(chan, ev) ELSE chan

(* What a broadcast of ev does to the stream: a full channel is cut. *)
Push(ev) ==
    /\ UNCHANGED <<once, loadVars, view, byEvent, error>>
    /\ IF conn \notin {"subscribed", "open"} THEN UNCHANGED <<conn, chan>>
       ELSE IF Len(chan) = Cap THEN conn' = "cut" /\ UNCHANGED chan
       ELSE chan' = Append(chan, ev) /\ UNCHANGED conn

ReportEvent(r) == AnnounceUpdate(r) /\ Push(<<Device(r), "update">>)
ScanEvent(d) == AnnounceOffline(d) /\ Push(<<d, "offline">>)

(* Snapshot reads all rows, and then the clock for each of them. *)
SnapshotList(l) ==
    /\ up
    /\ load[l] = "asked"
    /\ load' = [load EXCEPT ![l] = "listed"]
    /\ rows' = [rows EXCEPT ![l] = [d \in Devices |-> IF d \in stored THEN age[d] ELSE NoRow]]
    /\ UNCHANGED <<vars, conn, once, chan, answer, view, byEvent, error>>

Judged(a) == IF a = NoRow THEN "absent" ELSE IF Online(a) THEN "update" ELSE "offline"

SnapshotAnswer(l) ==
    /\ load[l] = "listed"
    /\ load' = [load EXCEPT ![l] = "answered"]
    /\ answer' = [answer EXCEPT ![l] = [d \in Devices |-> Judged(rows[l][d])]]
    /\ rows' = [rows EXCEPT ![l] = Unread]
    /\ UNCHANGED <<vars, conn, once, chan, view, byEvent, error>>

(* The clock also runs for the rows a snapshot has read. *)
ClockTick ==
    /\ Tick
    /\ rows' = [l \in Loads |->
                  [d \in Devices |-> IF rows[l][d] = NoRow THEN NoRow ELSE Older(rows[l])[d]]]
    /\ UNCHANGED <<conn, once, chan, load, answer, view, byEvent, error>>

(* The process ends: its streams and unanswered requests end with it. *)
Shutdown ==
    /\ Stop
    /\ conn' = "connecting"
    /\ chan' = <<>>
    /\ load' = [l \in Loads |-> IF load[l] = "answered" THEN "answered" ELSE "none"]
    /\ error' = (error \/ \E l \in Loads : load[l] \in {"asked", "listed"})
    /\ rows' = [l \in Loads |-> Unread]
    /\ UNCHANGED <<once, answer, view, byEvent>>

-----------------------------------------------------------------------------
(* The page *)

(* EventSource connects, or reconnects by itself. *)
Subscribe ==
    /\ up
    /\ conn = "connecting"
    /\ conn' = "subscribed"
    /\ byEvent' = {}
    /\ UNCHANGED <<vars, once, chan, loadVars, view, error>>

(* Mutation: no open reloads. *)
OnOpenNoReload ==
    /\ conn = "subscribed"
    /\ conn' = "open"
    /\ once' = TRUE
    /\ UNCHANGED <<vars, chan, loadVars, view, byEvent, error>>

(* onopen: every open but the first reloads the snapshot. *)
OnOpen ==
    /\ conn = "subscribed"
    /\ conn' = "open"
    /\ once' = TRUE
    /\ error' = FALSE
    /\ IF once THEN \E l \in Loads : load[l] = "none" /\ load' = [load EXCEPT ![l] = "asked"]
               ELSE UNCHANGED load
    /\ UNCHANGED <<vars, chan, rows, answer, view, byEvent>>

(* onmessage: the card of the event's device is replaced. *)
OnMessage ==
    /\ conn \in {"open", "cut"}
    /\ chan # <<>>
    /\ view' = [view EXCEPT ![Head(chan)[1]] = Head(chan)[2]]
    /\ byEvent' = byEvent \cup {Head(chan)[1]}
    /\ chan' = Tail(chan)
    /\ UNCHANGED <<vars, conn, once, loadVars, error>>

(* onerror after the hub has closed the channel. *)
StreamEnds ==
    /\ conn = "cut"
    /\ chan = <<>>
    /\ conn' = "connecting"
    /\ UNCHANGED <<vars, once, chan, loadVars, view, byEvent, error>>

(* onerror after the network has broken the connection. *)
ConnectionLost ==
    /\ NetworkDrops
    /\ conn # "connecting"
    /\ conn' = "connecting"
    /\ chan' = <<>>
    /\ UNCHANGED <<vars, once, loadVars, view, byEvent, error>>

(* The answer of loadSnapshot replaces the whole list. *)
SnapshotArrives(l) ==
    /\ load[l] = "answered"
    /\ view' = answer[l]
    /\ error' = FALSE
    /\ byEvent' = {}
    /\ load' = [load EXCEPT ![l] = "none"]
    /\ answer' = [answer EXCEPT ![l] = Blank]
    /\ UNCHANGED <<vars, conn, once, chan, rows>>

(* A failed request is reported on the page and not repeated. *)
SnapshotFails(l) ==
    /\ FetchesMayFail
    /\ load[l] # "none"
    /\ error' = TRUE
    /\ load' = [load EXCEPT ![l] = "none"]
    /\ rows' = [rows EXCEPT ![l] = Unread]
    /\ answer' = [answer EXCEPT ![l] = Blank]
    /\ UNCHANGED <<vars, conn, once, chan, view, byEvent>>

-----------------------------------------------------------------------------
(* Steps of the server that neither broadcast nor concern the page. *)
ServerQuiet ==
    /\ UNCHANGED pageVars
    /\ \/ \E r \in Requests : Accept(r) \/ Upsert(r) \/ UpsertFails(r) \/ MarkOnline(r)
       \/ ScanList \/ ScanFails \/ ScanJudge \/ ScanSync \/ ScanDone
       \/ Start
       \/ \E d \in Devices : ScanForget(d) \/ Die(d)

PageStep ==
    \/ Subscribe \/ OnOpen \/ OnMessage \/ StreamEnds
    \/ \E l \in Loads : SnapshotList(l) \/ SnapshotAnswer(l) \/ SnapshotArrives(l)

ViewNext ==
    \/ ServerQuiet \/ ClockTick \/ Shutdown
    \/ \E r \in Requests : ReportEvent(r)
    \/ \E d \in Devices : ScanEvent(d)
    \/ PageStep
    \/ ConnectionLost
    \/ \E l \in Loads : SnapshotFails(l)

ViewSpec == ViewInit /\ [][ViewNext]_allVars

(* The server as in Presence; the page runs and its connection is retried.  *)
(* Nothing forces the network to drop, a fetch to fail or an agent to       *)
(* report.                                                                  *)
ViewFairness ==
    /\ WF_allVars(ClockTick)
    /\ WF_allVars(ServerQuiet /\ (spc' # spc \/ stale' # stale \/ up' # up))
    /\ \A r \in Requests : WF_allVars((UNCHANGED pageVars /\ (Upsert(r) \/ MarkOnline(r))) \/ ReportEvent(r))
    /\ \A d \in Devices : WF_allVars(ScanEvent(d))
    /\ WF_allVars(Subscribe) /\ SF_allVars(OnOpen) /\ SF_allVars(OnMessage) /\ WF_allVars(StreamEnds)
    /\ \A l \in Loads : /\ WF_allVars(SnapshotList(l))
                        /\ WF_allVars(SnapshotAnswer(l))
                        /\ WF_allVars(SnapshotArrives(l))

FairViewSpec == ViewSpec /\ ViewFairness

-----------------------------------------------------------------------------
(* Properties *)

(* A card that an event has set since the last snapshot agrees with the     *)
(* last broadcast about its device as soon as nothing more is under way,    *)
(* through channel overflows, lost connections and restarts.                *)
CardFollowsFeed ==
    \A d \in byEvent :
        (conn = "open" /\ \A i \in 1..Len(chan) : chan[i][1] # d) => view[d] = last[d]

(* useDeviceStream.ts: a reconnect "must re-sync", for a stream never       *)
(* replays what was missed.  A device that went silent while the page was   *)
(* disconnected turns grey after the reconnect, if no older snapshot and no *)
(* report is still under way, or the page says that the reload failed.      *)
ReconnectRepairs ==
    \A d \in Devices :
        (/\ conn = "connecting" /\ once
         /\ \A l \in Loads : load[l] = "none"
         /\ \A r \in Requests : Device(r) = d => rpc[r] = "idle"
         /\ d \in stored /\ d \notin alive /\ ~Online(age[d]))
            ~> (view[d] = "offline" \/ error)

(* README.md: when a device is silent past the threshold the server         *)
(* broadcasts offline and "the card turns grey by itself".  A page with an  *)
(* open stream and nothing under way shows no card as online that has been  *)
(* silent for longer than the threshold and one scan.                       *)
SettledCardGreys ==
    \A d \in Devices :
        (conn = "open" /\ chan = <<>> /\ \A l \in Loads : load[l] = "none")
            => (view[d] = "update" => age[d] <= Threshold + ScanPeriod)
=============================================================================
