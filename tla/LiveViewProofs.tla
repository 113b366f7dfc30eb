--------------------------- MODULE LiveViewProofs ---------------------------
(***************************************************************************)
(* Proofs about LiveView, for every set of devices, any number of snapshot  *)
(* requests and every size of the channel:                                  *)
(*   - the page only watches: the server of LiveView implements Presence,   *)
(*     so that what PresenceProofs shows of the server holds here;          *)
(*   - the variables keep their types;                                      *)
(*   - a card set by an event shows what was last broadcast, through lost   *)
(*     connections, overflows, restarts and reloads;                        *)
(*   - such a card turns grey in time.                                      *)
(***************************************************************************)
EXTENDS LiveView, PresenceProofs, SequenceTheorems

(* The newest event about d on its way to the page is the i-th. *)
Newest(i, d) == chan[i][1] = d /\ \A j \in (i + 1)..Len(chan) : chan[j][1] # d

NoneOnItsWay(d) == \A i \in 1..Len(chan) : chan[i][1] # d

(* What is under way ends with the last broadcast, and a card that waits    *)
(* for nothing shows it.  A stream that opens begins empty.                 *)
InStep ==
    /\ conn = "connecting" => chan = <<>>
    /\ conn = "subscribed" => byEvent = {}
    /\ conn \in {"subscribed", "open"} =>
         \A d \in Devices :
            /\ \A i \in 1..Len(chan) : Newest(i, d) => chan[i][2] = last[d]
            /\ d \in byEvent /\ NoneOnItsWay(d) => view[d] = last[d]

FeedInv == ViewTypeOK /\ InStep

-----------------------------------------------------------------------------
(* The server *)

(* Whatever the page does, a step of the whole is a step of the server or   *)
(* leaves it alone.                                                         *)
LEMMA ServerSteps == [ViewNext]_allVars => [Next]_vars
<1> SUFFICES ASSUME [ViewNext]_allVars PROVE [Next]_vars
  OBVIOUS
<1>1. CASE ServerQuiet
  BY <1>1 DEF ServerQuiet, Next, Handle, Scan
<1>2. CASE ClockTick \/ Shutdown
  BY <1>2 DEF ClockTick, Shutdown, Next
<1>3. ASSUME NEW r \in Requests, ReportEvent(r) PROVE Next
  BY <1>3 DEF ReportEvent, Next, Handle
<1>4. ASSUME NEW d \in Devices, ScanEvent(d) PROVE Next
  BY <1>4 DEF ScanEvent, Next, Scan
<1>5. CASE PageStep
  BY <1>5 DEF PageStep, Subscribe, OnOpen, OnMessage, StreamEnds, SnapshotList, SnapshotAnswer,
              SnapshotArrives
<1>6. CASE ConnectionLost \/ \E l \in Loads : SnapshotFails(l)
  BY <1>6 DEF ConnectionLost, SnapshotFails
<1>7. CASE UNCHANGED allVars
  BY <1>7 DEF allVars
<1> QED
  BY <1>1, <1>2, <1>3, <1>4, <1>5, <1>6, <1>7 DEF ViewNext

(* Presence is implemented by its composition with a page: a subscriber,    *)
(* its snapshots and the losses of its connection never change what the     *)
(* server stores, judges or announces (hub.go's Broadcast never waits for   *)
(* a subscriber, handlers.go's Snapshot only reads).                        *)
THEOREM PageOnlyWatches == ViewSpec => Spec
<1>1. ViewInit => Init
  BY DEF ViewInit
<1> QED
  BY <1>1, ServerSteps, PTL DEF ViewSpec, Spec

-----------------------------------------------------------------------------
(* Types *)

LEMMA BlankCards == Blank \in [Devices -> Card] /\ Unread \in [Devices -> Ages \cup {NoRow}]
  BY DEF Blank, Unread, Card

LEMMA InitViewTypeOK == ViewInit => ViewTypeOK
<1> SUFFICES ASSUME ViewInit PROVE ViewTypeOK
  OBVIOUS
<1>1. TypeOK
  BY InitTypeOK DEF ViewInit
<1>2. once \in BOOLEAN /\ error \in BOOLEAN
  BY Zenon DEF ViewInit
<1>3. load \in [Loads -> {"none", "asked", "listed", "answered"}]
  BY DEF ViewInit
<1>4. chan \in Seq(Devices \X {"update", "offline"}) /\ Len(chan) <= Cap
  BY LiveViewAssumption DEF ViewInit
<1> QED
  BY <1>1, <1>2, <1>3, <1>4, BlankCards DEF ViewInit, ViewTypeOK

(* What an event does to the connection and its channel. *)
LEMMA PushShape ==
  ASSUME NEW d \in Devices, NEW e \in {"update", "offline"}, ViewTypeOK, Push(<<d, e>>)
  PROVE  /\ \/ conn \notin {"subscribed", "open"} /\ conn' = conn /\ chan' = chan
            \/ conn' = "cut" /\ chan' = chan
            \/ conn \in {"subscribed", "open"} /\ conn' = conn /\ chan' = Append(chan, <<d, e>>)
         /\ chan' \in Seq(Devices \X {"update", "offline"})
         /\ Len(chan') <= Cap
         /\ conn' \in {"connecting", "subscribed", "open", "cut"}
         /\ UNCHANGED <<once, load, rows, answer, view, byEvent, error>>
<1> DEFINE Event == Devices \X {"update", "offline"}
<1>1. /\ chan \in Seq(Event) /\ Len(chan) \in Nat /\ Len(chan) <= Cap
      /\ conn \in {"connecting", "subscribed", "open", "cut"}
  BY DEF ViewTypeOK
<1>2. /\ \/ conn \notin {"subscribed", "open"} /\ conn' = conn /\ chan' = chan
         \/ conn' = "cut" /\ chan' = chan
         \/ /\ conn \in {"subscribed", "open"} /\ conn' = conn
            /\ chan' = Append(chan, <<d, e>>) /\ Len(chan) # Cap
      /\ UNCHANGED <<once, load, rows, answer, view, byEvent, error>>
  BY DEF Push, loadVars
<1>3. /\ Append(chan, <<d, e>>) \in Seq(Event)
      /\ Len(Append(chan, <<d, e>>)) = Len(chan) + 1
  BY <1>1, AppendProperties
<1>4. Len(chan) # Cap => Len(chan) + 1 <= Cap
  BY <1>1, LiveViewAssumption
<1> HIDE DEF Event
<1>5. chan' \in Seq(Event) /\ Len(chan') <= Cap
  BY <1>1, <1>2, <1>3, <1>4
<1>6. conn' \in {"connecting", "subscribed", "open", "cut"}
  BY <1>1, <1>2
<1> QED
  BY <1>2, <1>5, <1>6 DEF Event

LEMMA StepViewTypeOK == ViewTypeOK /\ [ViewNext]_allVars => ViewTypeOK'
<1> SUFFICES ASSUME ViewTypeOK, [ViewNext]_allVars PROVE ViewTypeOK'
  OBVIOUS
<1>0. TypeOK'
  BY ServerSteps, StepTypeOK DEF ViewTypeOK
<1> USE <1>0 DEF ViewTypeOK, loadVars
<1>1. CASE ServerQuiet
  BY <1>1 DEF ServerQuiet, pageVars
<1>2. CASE ClockTick
  <2>1. \A l \in Loads, d \in Devices :
          rows[l][d] # NoRow => Older(rows[l])[d] \in Ages
    BY OlderAges DEF Older
  <2>2. rows' \in [Loads -> [Devices -> Ages \cup {NoRow}]]
    BY <1>2, <2>1 DEF ClockTick
  <2> QED
    BY <1>2, <2>2 DEF ClockTick
<1>3. CASE Shutdown
  <2>1. error' \in BOOLEAN
    BY <1>3, Zenon DEF Shutdown
  <2>2. load' \in [Loads -> {"none", "asked", "listed", "answered"}]
    BY <1>3 DEF Shutdown
  <2>3. chan' \in Seq(Devices \X {"update", "offline"}) /\ Len(chan') <= Cap
    BY <1>3, LiveViewAssumption DEF Shutdown
  <2> QED
    BY <1>3, <2>1, <2>2, <2>3, BlankCards DEF Shutdown
<1>4. ASSUME NEW d \in Devices, NEW e \in {"update", "offline"}, Push(<<d, e>>) PROVE ViewTypeOK'
  BY <1>4, PushShape
<1>5. CASE Subscribe \/ StreamEnds
  BY <1>5 DEF Subscribe, StreamEnds
<1>6. CASE OnOpen
  <2>1. once' \in BOOLEAN /\ error' \in BOOLEAN
    BY <1>6, Zenon DEF OnOpen
  <2>2. load' \in [Loads -> {"none", "asked", "listed", "answered"}]
    BY <1>6 DEF OnOpen
  <2> QED
    BY <1>6, <2>1, <2>2 DEF OnOpen
<1>7. CASE OnMessage
  <2>1. /\ Head(chan)[1] \in Devices /\ Head(chan)[2] \in Card
        /\ Tail(chan) \in Seq(Devices \X {"update", "offline"})
        /\ Len(Tail(chan)) <= Cap
    BY <1>7, LiveViewAssumption DEF OnMessage, Card
  <2> QED
    BY <1>7, <2>1 DEF OnMessage
<1>8. ASSUME NEW l \in Loads, SnapshotList(l) PROVE ViewTypeOK'
  BY <1>8 DEF SnapshotList, TypeOK
<1>9. ASSUME NEW l \in Loads, SnapshotAnswer(l) PROVE ViewTypeOK'
  <2>1. [d \in Devices |-> Judged(rows[l][d])] \in [Devices -> Card]
    BY DEF Judged, Online, Card
  <2> QED
    BY <1>9, <2>1, BlankCards DEF SnapshotAnswer
<1>10. ASSUME NEW l \in Loads, SnapshotArrives(l) PROVE ViewTypeOK'
  <2>1. error' \in BOOLEAN
    BY <1>10, Zenon DEF SnapshotArrives
  <2> QED
    BY <1>10, <2>1, BlankCards DEF SnapshotArrives
<1>11. CASE ConnectionLost
  BY <1>11, LiveViewAssumption DEF ConnectionLost
<1>12. ASSUME NEW l \in Loads, SnapshotFails(l) PROVE ViewTypeOK'
  <2>1. error' \in BOOLEAN
    BY <1>12, Zenon DEF SnapshotFails
  <2> QED
    BY <1>12, <2>1, BlankCards DEF SnapshotFails
<1>13. CASE UNCHANGED allVars
  BY <1>13 DEF allVars, pageVars
<1>14. ASSUME NEW r \in Requests, ReportEvent(r) PROVE ViewTypeOK'
  BY <1>4, <1>14 DEF ReportEvent, Requests, Device
<1>15. ASSUME NEW d \in Devices, ScanEvent(d) PROVE ViewTypeOK'
  BY <1>4, <1>15 DEF ScanEvent
<1> QED
  BY <1>1, <1>2, <1>3, <1>5, <1>6, <1>7, <1>8, <1>9, <1>10, <1>11, <1>12, <1>13, <1>14, <1>15
     DEF ViewNext, PageStep

(* The state of the server and of the page keeps its types. *)
THEOREM ViewTypeCorrect == ViewSpec => []ViewTypeOK
<1> QED
  BY InitViewTypeOK, StepViewTypeOK, PTL DEF ViewSpec

-----------------------------------------------------------------------------
(* A card follows the feed *)

LEMMA InitInStep == ViewInit => InStep
  BY DEF ViewInit, InStep

(* A broadcast about d is the newest event about d, and hides nothing about *)
(* the others.                                                              *)
LEMMA PushInStep ==
  ASSUME FeedInv, NEW d \in Devices, NEW e \in {"update", "offline"},
         Push(<<d, e>>), last' = [last EXCEPT ![d] = e]
  PROVE  InStep'
<1> DEFINE Event == Devices \X {"update", "offline"}
<1>1. /\ chan \in Seq(Event) /\ Len(chan) \in Nat
      /\ last \in [Devices -> {"none", "update", "offline"}]
  BY DEF FeedInv, ViewTypeOK, TypeOK
<1>2. CASE conn \notin {"subscribed", "open"} /\ conn' = conn /\ chan' = chan
  BY <1>2, PushShape DEF FeedInv, InStep
<1>3. CASE conn' = "cut" /\ chan' = chan
  BY <1>3 DEF InStep
<1>4. CASE conn' = conn /\ chan' = Append(chan, <<d, e>>) /\ conn \in {"subscribed", "open"}
  <2>1. /\ Len(chan') = Len(chan) + 1
        /\ chan'[Len(chan) + 1] = <<d, e>>
        /\ \A i \in 1..Len(chan) : chan'[i] = chan[i]
    BY <1>1, <1>4, AppendProperties
  <2>2. view' = view /\ byEvent' = byEvent
    BY PushShape DEF FeedInv
  <2>3. ASSUME NEW x \in Devices, NEW i \in 1..Len(chan'), Newest(i, x)'
        PROVE  chan'[i][2] = last'[x]
    <3>1. CASE x = d
      <4>1. i = Len(chan) + 1
        <5>1. i # Len(chan) + 1 => Len(chan) + 1 \in (i + 1)..Len(chan')
          BY <1>1, <2>1
        <5> QED
          BY <2>1, <2>3, <3>1, <5>1 DEF Newest
      <4> QED
        BY <1>1, <2>1, <3>1, <4>1
    <3>2. CASE x # d
      <4>1. i \in 1..Len(chan)
        BY <1>1, <2>1, <2>3, <3>2 DEF Newest
      <4>2. Newest(i, x)
        BY <1>1, <2>1, <2>3, <4>1 DEF Newest
      <4> QED
        BY <1>1, <1>4, <2>1, <3>2, <4>1, <4>2 DEF FeedInv, InStep
    <3> QED
      BY <3>1, <3>2
  <2>4. ASSUME NEW x \in Devices, x \in byEvent', NoneOnItsWay(x)'
        PROVE  view'[x] = last'[x]
    <3>1. Len(chan) + 1 \in 1..Len(chan')
      BY <1>1, <2>1
    <3>2. x # d
      BY <2>1, <2>4, <3>1 DEF NoneOnItsWay
    <3>3. NoneOnItsWay(x)
      BY <1>1, <2>1, <2>4 DEF NoneOnItsWay
    <3> QED
      BY <1>1, <1>4, <2>2, <2>4, <3>2, <3>3 DEF FeedInv, InStep
  <2>5. conn' = "subscribed" => byEvent' = {}
    BY <1>4, <2>2 DEF FeedInv, InStep
  <2> QED
    BY <1>4, <2>3, <2>4, <2>5 DEF InStep
<1> QED
  BY <1>2, <1>3, <1>4, PushShape DEF FeedInv

(* The page takes the oldest event: what is newest about a device stays so, *)
(* and if it was the last one about its device the card now shows it.       *)
LEMMA MessageInStep == FeedInv /\ OnMessage => InStep'
<1> SUFFICES ASSUME FeedInv, OnMessage PROVE InStep'
  OBVIOUS
<1> DEFINE Event == Devices \X {"update", "offline"}
<1>1. /\ chan \in Seq(Event) /\ Len(chan) \in Nat /\ chan # <<>>
      /\ view \in [Devices -> Card]
      /\ byEvent \subseteq Devices
  BY DEF FeedInv, ViewTypeOK, OnMessage
<1>2. /\ Len(chan') = Len(chan) - 1
      /\ \A i \in 1..Len(chan') : chan'[i] = chan[i + 1]
      /\ Head(chan) = chan[1] /\ 1 \in 1..Len(chan) /\ chan[1] \in Event
  BY <1>1 DEF OnMessage
<1>3. /\ conn' = conn /\ last' = last
      /\ view' = [view EXCEPT ![chan[1][1]] = chan[1][2]]
      /\ byEvent' = byEvent \cup {chan[1][1]}
      /\ conn \in {"open", "cut"}
  BY <1>2 DEF OnMessage, vars
<1>4. CASE conn = "cut"
  BY <1>3, <1>4 DEF InStep
<1>5. CASE conn = "open"
  <2>1. ASSUME NEW x \in Devices, NEW i \in 1..Len(chan'), Newest(i, x)'
        PROVE  chan'[i][2] = last'[x]
    <3>1. i + 1 \in 1..Len(chan) /\ chan'[i] = chan[i + 1]
      BY <1>1, <1>2
    <3>2. ASSUME NEW j \in (i + 2)..Len(chan) PROVE chan[j][1] # x
      <4>1. j - 1 \in (i + 1)..Len(chan') /\ j - 1 \in 1..Len(chan') /\ (j - 1) + 1 = j
        BY <1>1, <1>2
      <4> QED
        BY <1>2, <2>1, <4>1 DEF Newest
    <3>3. Newest(i + 1, x)
      BY <1>1, <2>1, <3>1, <3>2 DEF Newest
    <3> QED
      BY <1>3, <1>5, <3>1, <3>3 DEF FeedInv, InStep
  <2>2. ASSUME NEW x \in Devices, x \in byEvent', NoneOnItsWay(x)'
        PROVE  view'[x] = last'[x]
    <3>1. ASSUME NEW j \in 2..Len(chan) PROVE chan[j][1] # x
      <4>1. j - 1 \in 1..Len(chan') /\ (j - 1) + 1 = j
        BY <1>1, <1>2
      <4> QED
        BY <1>2, <2>2, <4>1 DEF NoneOnItsWay
    <3>2. CASE x = chan[1][1]
      <4>1. Newest(1, x)
        BY <3>1, <3>2 DEF Newest
      <4>2. chan[1][2] = last[x]
        BY <1>2, <1>5, <4>1 DEF FeedInv, InStep
      <4> QED
        BY <1>1, <1>3, <3>2, <4>2
    <3>3. CASE x # chan[1][1]
      <4>1. NoneOnItsWay(x)
        <5>1. \A i \in 1..Len(chan) : i = 1 \/ i \in 2..Len(chan)
          BY <1>1
        <5> QED
          BY <3>1, <3>3, <5>1 DEF NoneOnItsWay
      <4>2. x \in byEvent
        BY <1>3, <2>2, <3>3
      <4> QED
        BY <1>1, <1>3, <1>5, <3>3, <4>1, <4>2 DEF FeedInv, InStep
    <3> QED
      BY <3>2, <3>3
  <2> QED
    BY <1>3, <1>5, <2>1, <2>2 DEF InStep
<1> QED
  BY <1>3, <1>4, <1>5

LEMMA StepInStep == FeedInv /\ [ViewNext]_allVars => InStep'
<1> SUFFICES ASSUME FeedInv, [ViewNext]_allVars PROVE InStep'
  OBVIOUS
<1>1. ASSUME UNCHANGED <<conn, chan, last, view, byEvent>> PROVE InStep'
  BY <1>1 DEF FeedInv, InStep, Newest, NoneOnItsWay
<1>2. CASE ServerQuiet
  <2>1. UNCHANGED <<conn, chan, last, view, byEvent>>
    BY <1>2 DEF ServerQuiet, pageVars, Accept, Upsert, UpsertFails, MarkOnline, ScanList, ScanFails,
                ScanJudge, ScanSync, ScanDone, Start, ScanForget, Die
  <2> QED
    BY <1>1, <2>1
<1>3. CASE ClockTick
  BY <1>1, <1>3 DEF ClockTick, Tick
<1>4. CASE Shutdown \/ ConnectionLost
  BY <1>4 DEF Shutdown, ConnectionLost, InStep
<1>5. ASSUME NEW r \in Requests, ReportEvent(r) PROVE InStep'
  BY <1>5, PushInStep DEF ReportEvent, AnnounceUpdate, Requests, Device
<1>6. ASSUME NEW d \in Devices, ScanEvent(d) PROVE InStep'
  BY <1>6, PushInStep DEF ScanEvent, AnnounceOffline
<1>7. CASE Subscribe
  <2>1. conn' = "subscribed" /\ byEvent' = {} /\ chan' = <<>>
    BY <1>7 DEF Subscribe, FeedInv, InStep
  <2> QED
    BY <2>1 DEF InStep
<1>8. CASE OnOpen
  <2>1. conn = "subscribed" /\ conn' = "open" /\ UNCHANGED <<chan, last, view, byEvent>>
    BY <1>8 DEF OnOpen, vars
  <2> QED
    BY <2>1 DEF FeedInv, InStep, Newest, NoneOnItsWay
<1>9. CASE OnMessage
  BY <1>9, MessageInStep
<1>10. CASE StreamEnds
  BY <1>10 DEF StreamEnds, InStep
<1>11. ASSUME NEW l \in Loads, SnapshotList(l) \/ SnapshotAnswer(l) \/ SnapshotFails(l)
       PROVE  InStep'
  BY <1>1, <1>11 DEF SnapshotList, SnapshotAnswer, SnapshotFails, vars
<1>12. ASSUME NEW l \in Loads, SnapshotArrives(l) PROVE InStep'
  <2>1. byEvent' = {} /\ UNCHANGED <<conn, chan, last>>
    BY <1>12 DEF SnapshotArrives, vars
  <2> QED
    BY <2>1 DEF FeedInv, InStep, Newest, NoneOnItsWay
<1>13. CASE UNCHANGED allVars
  BY <1>1, <1>13 DEF allVars, pageVars, vars
<1> QED
  BY <1>2, <1>3, <1>4, <1>5, <1>6, <1>7, <1>8, <1>9, <1>10, <1>11, <1>12, <1>13
     DEF ViewNext, PageStep

LEMMA FeedInvImplies == FeedInv => CardFollowsFeed
  BY DEF FeedInv, InStep, ViewTypeOK, CardFollowsFeed, NoneOnItsWay

LEMMA FeedInvariant == ViewSpec => []FeedInv
<1>1. ViewInit => FeedInv
  BY InitViewTypeOK, InitInStep DEF FeedInv
<1>2. FeedInv /\ [ViewNext]_allVars => FeedInv'
  BY StepViewTypeOK, StepInStep DEF FeedInv
<1> QED
  BY <1>1, <1>2, PTL DEF ViewSpec

(* A card set by an event since the last snapshot shows what was last       *)
(* broadcast about its device as soon as nothing about it is under way      *)
(* (useDeviceStream.ts replaces a card by the event of its device).         *)
THEOREM CardsFollowTheFeed == ViewSpec => []CardFollowsFeed
<1> QED
  BY FeedInvariant, FeedInvImplies, PTL

-----------------------------------------------------------------------------
(* From the agent's last report to the card *)

(* A card set by an event on an open stream, with nothing about its device  *)
(* under way, is not green for longer than the threshold, one scan and the  *)
(* scans that failed.                                                       *)
FollowedCardGreys ==
    \A d \in byEvent :
        (conn = "open" /\ NoneOnItsWay(d) /\ view[d] = "update")
            => age[d] <= Threshold + (failures + 1) * ScanPeriod

(* What the server promises of its announcements (PresenceGreysInTime)      *)
(* reaches the eye of the visitor, for the cards the feed has set: README's *)
(* "the card turns grey by itself", which SettledCardGreys says of every    *)
(* card and which a card set by a snapshot does not keep.                   *)
THEOREM FollowedCardsGreyInTime ==
  ASSUME Timely
  PROVE  ViewSpec => []FollowedCardGreys
<1>1. ViewSpec => []GreyInTime
  BY PageOnlyWatches, PresenceGreysInTime, PTL
<1>2. ViewSpec => []CardFollowsFeed
  BY CardsFollowTheFeed
<1>3. ViewSpec => []ViewTypeOK
  BY ViewTypeCorrect
<1>4. GreyInTime /\ CardFollowsFeed /\ ViewTypeOK => FollowedCardGreys
  BY DEF GreyInTime, CardFollowsFeed, ViewTypeOK, FollowedCardGreys, NoneOnItsWay
<1> QED
  BY <1>1, <1>2, <1>3, <1>4, PTL
=============================================================================
