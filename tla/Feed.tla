-------------------------------- MODULE Feed --------------------------------
(***************************************************************************)
(* What the server's event stream promises a subscriber, with no mutex,    *)
(* channel or goroutine: events are numbered in the order they are         *)
(* published; a subscriber gets every event published after it joined, one *)
(* by one and in order, until the server cuts it off.  Publishing never    *)
(* waits for anyone, and cuts off only subscribers that lag by at least    *)
(* Cap events.  Hub.tla implements this module.                            *)
(***************************************************************************)
EXTENDS Naturals

CONSTANTS Streams,   \* the requests that may subscribe
          Cap        \* a subscriber that lags less than this is never cut off

VARIABLES sent,      \* number of the last event published
          conn,      \* conn[s]: "off" before joining, "on", then "cut"
          got        \* got[s]: number of the last event handed to the client of s

feedVars == <<sent, conn, got>>

Init == /\ sent = 0
        /\ conn = [s \in Streams |-> "off"]
        /\ got  = [s \in Streams |-> 0]

(* A joining subscriber starts after the events already published. *)
Join(s) == /\ conn[s] = "off"
           /\ conn' = [conn EXCEPT ![s] = "on"]
           /\ got'  = [got EXCEPT ![s] = sent]
           /\ UNCHANGED sent

(* Publishing cuts off some of the subscribers that lag by Cap or more. *)
Publish == /\ sent' = sent + 1
           /\ \E D \in SUBSET {s \in Streams : conn[s] = "on" /\ sent - got[s] >= Cap} :
                 conn' = [s \in Streams |-> IF s \in D THEN "cut" ELSE conn[s]]
           /\ UNCHANGED got

(* The client gets the next event; one that was cut off may still drain     *)
(* what had been accepted for it.                                           *)
Deliver(s) == /\ conn[s] # "off"
              /\ got[s] < sent
              /\ got' = [got EXCEPT ![s] = @ + 1]
              /\ UNCHANGED <<sent, conn>>

(* The client went away. *)
Leave(s) == /\ conn[s] = "on"
            /\ conn' = [conn EXCEPT ![s] = "cut"]
            /\ UNCHANGED <<sent, got>>

Next == \/ Publish
        \/ \E s \in Streams : Join(s) \/ Deliver(s) \/ Leave(s)

FeedSpec == Init /\ [][Next]_feedVars
=============================================================================
