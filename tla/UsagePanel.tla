----------------------------- MODULE UsagePanel -----------------------------
(***************************************************************************)
(* The usage tab of the public site: the choice of a window and a device      *)
(* (web/src/components/UsagePanel.tsx) and the request behind it              *)
(* (web/src/hooks/useUsage.ts), mounted while the tab is open                 *)
(* (web/src/App.tsx).  Of an answer the panel's state keeps which window it   *)
(* is for and which devices are in it.                                        *)
(***************************************************************************)
EXTENDS Integers, SequencesExt

CONSTANTS Windows, Today, Devices, None,
          MaxClicks    \* bound on the clicks that send a request

Answers == [window : Windows, devices : SUBSET Devices]

ASSUME PanelAssumption ==
    /\ Today \in Windows
    /\ Devices \subseteq Nat       \* listed in the order of their ids
    /\ None \notin Devices \cup Answers
    /\ MaxClicks \in Nat

VARIABLES
    tab,
    window,      \* the window selected
    picked,      \* the device picked, or None
    data,        \* None, or the window and the devices of the last answer
    loading, error,
    asked,       \* the requests whose answers count
    reporting,   \* the devices that have reported at least once
    clicks

vars == <<tab, window, picked, data, loading, error, asked, reporting, clicks>>

Waiting(w) == [window |-> w, answer |-> None]

FlagsOK == loading \in BOOLEAN /\ error \in BOOLEAN

PanelOK ==
    /\ tab \in {"now", "usage"}
    /\ window \in Windows
    /\ picked \in Devices \cup {None}
    /\ data \in Answers \cup {None}
    /\ asked \in Seq([window : Windows, answer : Answers \cup {None}])
    /\ reporting \subseteq Devices
    /\ clicks \in 0..MaxClicks

TypeOK == FlagsOK /\ PanelOK

Init ==
    /\ tab = "now" /\ window = Today /\ picked = None
    /\ data = None /\ loading = TRUE /\ error = FALSE /\ asked = <<>>
    /\ reporting \in SUBSET Devices
    /\ clicks = 0

\* Mutation: no request is given up.
CancelledNot(requests) == requests

\* The clean-up of the effect: an aborted request changes nothing any more.
Cancelled(requests) == <<>>

\* Mutation: the clean-up aborts the request that has just been sent.
FetchAborted(w) ==
    /\ clicks < MaxClicks
    /\ clicks' = clicks + 1
    /\ asked' = Cancelled(Append(asked, Waiting(w)))
    /\ loading' = TRUE /\ error' = FALSE

\* The effect of useUsage: what is shown stays until the answer.
Fetch(w) ==
    /\ clicks < MaxClicks
    /\ clicks' = clicks + 1
    /\ asked' = Append(Cancelled(asked), Waiting(w))
    /\ loading' = TRUE /\ error' = FALSE

\* Mounted afresh: nothing is left of an earlier visit.
OpenTab ==
    /\ tab = "now"
    /\ tab' = "usage"
    /\ window' = Today /\ picked' = None /\ data' = None
    /\ Fetch(Today)
    /\ UNCHANGED reporting

LeaveTab ==
    /\ tab = "usage"
    /\ tab' = "now"
    /\ asked' = Cancelled(asked)
    /\ UNCHANGED <<window, picked, data, loading, error, reporting, clicks>>

\* Mutation: a click on the window selected is not ignored.
SelectWindowToggles(w) ==
    /\ tab = "usage"
    /\ window' = IF w = window THEN None ELSE w
    /\ Fetch(w)
    /\ UNCHANGED <<tab, picked, data, reporting>>

\* A click on the window selected reports "", which is ignored.
SelectWindow(w) ==
    /\ tab = "usage" /\ w # window
    /\ window' = w
    /\ Fetch(w)
    /\ UNCHANGED <<tab, picked, data, reporting>>

Listed(d) == IF d = None THEN {} ELSE d.devices
First(S) == IF S = {} THEN None ELSE CHOOSE x \in S : \A y \in S : x <= y

\* Mutation: the first device whenever an answer has come.
ShownFirst(d, p) == First(Listed(d))

\* The device shown is derived at render.
Shown(d, p) == IF p \in Listed(d) THEN p ELSE First(Listed(d))

\* The buttons are there when there is a choice.
SelectDevice(p) ==
    /\ tab = "usage"
    /\ p \in Listed(data) \ {Shown(data, picked)}
    /\ picked' = p
    /\ UNCHANGED <<tab, window, data, loading, error, asked, reporting, clicks>>

\* The handler: every device that has a state is listed.
Handle(i) ==
    /\ asked[i].answer = None
    /\ asked' = [asked EXCEPT ![i].answer = [window |-> asked[i].window, devices |-> reporting]]
    /\ UNCHANGED <<tab, window, picked, data, loading, error, reporting, clicks>>

Arrives(i) ==
    /\ asked[i].answer # None
    /\ asked' = RemoveAt(asked, i)
    /\ data' = asked[i].answer /\ loading' = FALSE /\ error' = FALSE
    /\ UNCHANGED <<tab, window, picked, reporting, clicks>>

\* No answer, an error status, or a body the guard refuses.
Fails(i) ==
    /\ asked' = RemoveAt(asked, i)
    /\ data' = None /\ loading' = FALSE /\ error' = TRUE
    /\ UNCHANGED <<tab, window, picked, reporting, clicks>>

FirstReport(d) ==
    /\ d \notin reporting
    /\ reporting' = reporting \cup {d}
    /\ UNCHANGED <<tab, window, picked, data, loading, error, asked, clicks>>

\* What takes the place of the panel's body.
Body ==
    IF loading /\ data = None THEN "skeleton"
    ELSE IF error \/ data = None THEN "error"
    ELSE IF Shown(data, picked) = None THEN "empty" ELSE "card"

RequestStep == \E i \in DOMAIN asked : Handle(i) \/ Arrives(i) \/ Fails(i)

Next ==
    \/ OpenTab \/ LeaveTab
    \/ \E w \in Windows : SelectWindow(w)
    \/ \E p \in Devices : SelectDevice(p) \/ FirstReport(p)
    \/ RequestStep

Spec == Init /\ [][Next]_vars

\* A request is answered or fails; visitors and devices owe nothing.
FairSpec == Spec /\ WF_vars(RequestStep)

----------------------------------------------------------------------------
(* Properties.                                                              *)

\* Once nothing is loading, what stands on the screen is for the window
\* selected, or it is an error: an answer for a window that was left, and the
\* data of an earlier one after a failure, never pass for it.
ShownIsSelected ==
    tab = "usage" /\ ~loading =>
        IF error THEN Body = "error" ELSE data # None /\ data.window = window

\* While a card is on the screen, a picked device gives way to no other but by
\* a click, whichever windows are looked at and whichever devices turn up.
PickedStays ==
    [][tab = "usage" /\ tab' = "usage" /\ picked' = picked /\ picked \in Listed(data) /\ data' # None
        => Shown(data', picked') = Shown(data, picked)]_vars

\* A window that stays selected stops loading.
PanelSettles ==
    \A w \in Windows :
        tab = "usage" /\ window = w ~> ~loading \/ window # w \/ tab # "usage"
=============================================================================
