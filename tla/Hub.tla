-------------------------------- MODULE Hub ---------------------------------
(***************************************************************************)
(* The in-memory broadcast hub (server/internal/hub/hub.go) together with   *)
(* the goroutines around it: one Stream handler per SSE request             *)
(* (server/internal/api/handlers.go) and the callers of Broadcast (Report   *)
(* handlers and the offline tracker).                                       *)
(*                                                                          *)
(* The grain is that of the Go memory model: a critical section of h.mu is  *)
(* bracketed by taking and releasing mu, a channel operation is one step,   *)
(* and receivers drain their channels without the mutex.  An event is its   *)
(* number in the order of broadcasts; its payload does not matter here.     *)
(***************************************************************************)
EXTENDS Naturals, Sequences

CONSTANTS Streams,     \* SSE requests, each served by a goroutine of its own
          Readers,     \* the streams whose client keeps reading its socket
          Callers,     \* goroutines that call Broadcast
          Cap,         \* capacity of a subscriber channel (16 in the code)
          MaxEvents,   \* no goroutine calls Broadcast once this many were sent
          NoProc       \* the value of mu when it is free

Procs == Streams \cup Callers

ASSUME HubAssumption ==
    /\ Cap \in Nat \ {0}
    /\ MaxEvents \in Nat
    /\ Readers \subseteq Streams
    /\ Streams \cap Callers = {}
    /\ NoProc \notin Procs

VARIABLES mu,        \* holder of h.mu, or NoProc
          subs,      \* the keys of h.subs
          queue,     \* queue[s]: buffered events of the channel of s
          closed,    \* the closed channels
          panicked,  \* a send on, or a close of, a closed channel happened
          sent,      \* number of events broadcast so far
          dead,      \* Broadcast's local slice of the same name
          pc,        \* where each goroutine is
          hand,      \* hand[s]: the event s received and is about to write
          got,       \* got[s]: last event written to the client of s
          gone       \* streams whose client has disconnected

vars == <<mu, subs, queue, closed, panicked, sent, dead, pc, hand, got, gone>>

StreamPC == {"new", "subscribe", "subscribed", "select", "write",
             "leave", "unsubscribe", "unsubscribed", "done"}
CallerPC == {"idle", "call", "send", "drop"}
Critical == {"subscribe", "unsubscribe", "send", "drop"}

TypeOK ==
    /\ mu \in Procs \cup {NoProc}
    /\ subs \subseteq Streams
    /\ queue \in [Streams -> Seq(Nat)]
    /\ \A s \in Streams : Len(queue[s]) <= Cap
    /\ closed \subseteq Streams
    /\ panicked \in BOOLEAN
    /\ sent \in Nat
    /\ dead \subseteq Streams
    /\ pc \in [Procs -> StreamPC \cup CallerPC]
    /\ \A s \in Streams : pc[s] \in StreamPC
    /\ \A b \in Callers : pc[b] \in CallerPC
    /\ hand \in [Streams -> Nat]
    /\ got \in [Streams -> Nat]
    /\ gone \subseteq Streams

Init ==
    /\ mu = NoProc
    /\ subs = {}
    /\ queue = [s \in Streams |-> <<>>]
    /\ closed = {}
    /\ panicked = FALSE
    /\ sent = 0
    /\ dead = {}
    /\ pc = [p \in Procs |-> IF p \in Streams THEN "new" ELSE "idle"]
    /\ hand = [s \in Streams |-> 0]
    /\ got = [s \in Streams |-> 0]
    /\ gone = {}

At(p, here)   == pc[p] = here
Goto(p, next) == pc' = [pc EXCEPT ![p] = next]

(* p enters a critical section. *)
Lock(p, here, next) ==
    /\ At(p, here)
    /\ mu = NoProc
    /\ mu' = p
    /\ Goto(p, next)

(* close(ch) for every channel of C: closing a closed channel panics. *)
Close(C) ==
    /\ closed' = closed \cup C
    /\ panicked' = (panicked \/ C \cap closed # {})

-----------------------------------------------------------------------------
(* The Stream handler of s *)

LockSubscribe(s) ==
    /\ Lock(s, "new", "subscribe")
    /\ UNCHANGED <<subs, queue, closed, panicked, sent, dead, hand, got, gone>>

Subscribe(s) ==
    /\ At(s, "subscribe")
    /\ subs' = subs \cup {s}
    /\ mu' = NoProc
    /\ got' = [got EXCEPT ![s] = sent]
    /\ Goto(s, "subscribed")
    /\ UNCHANGED <<queue, closed, panicked, sent, dead, hand, gone>>

(* The subscriber count is read for the debug log, the hello is written. *)
Hello(s) ==
    /\ At(s, "subscribed")
    /\ Goto(s, "select")
    /\ UNCHANGED <<mu, subs, queue, closed, panicked, sent, dead, hand, got, gone>>

Receive(s) ==
    /\ At(s, "select")
    /\ queue[s] # <<>>
    /\ hand' = [hand EXCEPT ![s] = Head(queue[s])]
    /\ queue' = [queue EXCEPT ![s] = Tail(@)]
    /\ Goto(s, "write")
    /\ UNCHANGED <<mu, subs, closed, panicked, sent, dead, got, gone>>

(* A closed channel still yields what it buffered; then ok is false. *)
SeeClosed(s) ==
    /\ At(s, "select")
    /\ s \in closed
    /\ queue[s] = <<>>
    /\ Goto(s, "leave")
    /\ UNCHANGED <<mu, subs, queue, closed, panicked, sent, dead, hand, got, gone>>

SeeGone(s) ==
    /\ At(s, "select")
    /\ s \in gone
    /\ Goto(s, "leave")
    /\ UNCHANGED <<mu, subs, queue, closed, panicked, sent, dead, hand, got, gone>>

(* A write can block for as long as the client does not read: no fairness  *)
(* for streams outside Readers.                                            *)
Write(s) ==
    /\ At(s, "write")
    /\ got' = [got EXCEPT ![s] = hand[s]]
    /\ Goto(s, "select")
    /\ UNCHANGED <<mu, subs, queue, closed, panicked, sent, dead, hand, gone>>

(* Mutation: a return that is not covered by the deferred unsubscribe. *)
WriteFailsNoDefer(s) ==
    /\ At(s, "write")
    /\ s \in gone
    /\ Goto(s, "done")
    /\ UNCHANGED <<mu, subs, queue, closed, panicked, sent, dead, hand, got, gone>>

WriteFails(s) ==
    /\ At(s, "write")
    /\ s \in gone
    /\ Goto(s, "leave")
    /\ UNCHANGED <<mu, subs, queue, closed, panicked, sent, dead, hand, got, gone>>

LockUnsubscribe(s) ==
    /\ Lock(s, "leave", "unsubscribe")
    /\ UNCHANGED <<subs, queue, closed, panicked, sent, dead, hand, got, gone>>

(* Mutation: the channel is closed without looking whether the hub still   *)
(* has it.                                                                 *)
UnsubscribeUnchecked(s) ==
    /\ At(s, "unsubscribe")
    /\ subs' = subs \ {s}
    /\ Close({s})
    /\ mu' = NoProc
    /\ Goto(s, "unsubscribed")
    /\ UNCHANGED <<queue, sent, dead, hand, got, gone>>

Unsubscribe(s) ==
    /\ At(s, "unsubscribe")
    /\ subs' = subs \ {s}
    /\ Close({s} \cap subs)
    /\ mu' = NoProc
    /\ Goto(s, "unsubscribed")
    /\ UNCHANGED <<queue, sent, dead, hand, got, gone>>

Return(s) ==
    /\ At(s, "unsubscribed")
    /\ Goto(s, "done")
    /\ UNCHANGED <<mu, subs, queue, closed, panicked, sent, dead, hand, got, gone>>

(* The client closes its connection: the request context is cancelled. *)
Disconnect(s) ==
    /\ s \notin gone
    /\ pc[s] \notin {"new", "done"}
    /\ gone' = gone \cup {s}
    /\ UNCHANGED <<mu, subs, queue, closed, panicked, sent, dead, pc, hand, got>>

-----------------------------------------------------------------------------
(* Broadcast, called by b *)

(* An event to announce: a report was accepted or a device went silent. *)
Call(b) ==
    /\ At(b, "idle")
    /\ sent < MaxEvents
    /\ Goto(b, "call")
    /\ UNCHANGED <<mu, subs, queue, closed, panicked, sent, dead, hand, got, gone>>

LockBroadcast(b) ==
    /\ Lock(b, "call", "send")
    /\ UNCHANGED <<subs, queue, closed, panicked, sent, dead, hand, got, gone>>

(* Mutation: off by one at the capacity. *)
FullOffByOne == {s \in subs : Len(queue[s]) = Cap + 1}

Full == {s \in subs : Len(queue[s]) = Cap}

(* Mutation: a plain channel send, which waits for room. *)
SendAllBlocking(b) ==
    /\ At(b, "send")
    /\ Full = {}
    /\ queue' = [s \in Streams |-> IF s \in subs THEN Append(queue[s], sent + 1)
                                                ELSE queue[s]]
    /\ sent' = sent + 1
    /\ Goto(b, "drop")
    /\ UNCHANGED <<mu, subs, closed, panicked, dead, hand, got, gone>>

(* Mutation: a full channel makes room by forgetting its oldest event. *)
SendAllRing(b) ==
    /\ At(b, "send")
    /\ queue' = [s \in Streams |->
                    IF s \in Full THEN Append(Tail(queue[s]), sent + 1)
                    ELSE IF s \in subs THEN Append(queue[s], sent + 1)
                    ELSE queue[s]]
    /\ sent' = sent + 1
    /\ Goto(b, "drop")
    /\ UNCHANGED <<mu, subs, closed, panicked, dead, hand, got, gone>>

(* The non-blocking send to every subscriber: a full channel is dead. *)
SendAll(b) ==
    /\ At(b, "send")
    /\ dead' = Full
    /\ queue' = [s \in Streams |-> IF s \in subs \ Full THEN Append(queue[s], sent + 1)
                                                       ELSE queue[s]]
    /\ panicked' = (panicked \/ subs \cap closed # {})
    /\ sent' = sent + 1
    /\ Goto(b, "drop")
    /\ UNCHANGED <<mu, subs, closed, hand, got, gone>>

(* Mutation: the slow subscribers stay. *)
DropNothing(b) ==
    /\ At(b, "drop")
    /\ dead' = {}
    /\ mu' = NoProc
    /\ Goto(b, "idle")
    /\ UNCHANGED <<subs, queue, closed, panicked, sent, hand, got, gone>>

(* Mutation: the slow subscribers are forgotten, their channels left open. *)
DropWithoutClose(b) ==
    /\ At(b, "drop")
    /\ subs' = subs \ dead
    /\ dead' = {}
    /\ mu' = NoProc
    /\ Goto(b, "idle")
    /\ UNCHANGED <<queue, closed, panicked, sent, hand, got, gone>>

DropDead(b) ==
    /\ At(b, "drop")
    /\ subs' = subs \ dead
    /\ Close(dead)
    /\ dead' = {}
    /\ mu' = NoProc
    /\ Goto(b, "idle")
    /\ UNCHANGED <<queue, sent, hand, got, gone>>

-----------------------------------------------------------------------------
(* Steps a scheduled goroutine takes without waiting for its client. *)
StreamStep(s) ==
    \/ Subscribe(s) \/ Hello(s) \/ Receive(s) \/ SeeClosed(s) \/ SeeGone(s)
    \/ WriteFails(s) \/ Unsubscribe(s) \/ Return(s)

StreamLock(s) == LockSubscribe(s) \/ LockUnsubscribe(s)

StreamNext(s) == StreamStep(s) \/ StreamLock(s) \/ Write(s) \/ Disconnect(s)

CallerNext(b) == Call(b) \/ LockBroadcast(b) \/ SendAll(b) \/ DropDead(b)

Next == \/ \E s \in Streams : StreamNext(s)
        \/ \E b \in Callers : CallerNext(b)

Spec == Init /\ [][Next]_vars

(* Goroutines are scheduled and sync.Mutex does not starve its waiters.     *)
(* Nobody has to connect, disconnect or broadcast; only the clients of      *)
(* Readers are known to read.                                               *)
Fairness ==
    /\ \A s \in Streams : WF_vars(StreamStep(s)) /\ SF_vars(LockUnsubscribe(s))
    /\ \A s \in Readers : WF_vars(Write(s))
    /\ \A b \in Callers : SF_vars(LockBroadcast(b)) /\ WF_vars(SendAll(b) \/ DropDead(b))

FairSpec == Spec /\ Fairness

-----------------------------------------------------------------------------
(* Properties *)

(* Events the handler of s has taken over but not yet written. *)
Unread(s) == (IF At(s, "write") THEN <<hand[s]>> ELSE <<>>) \o queue[s]

(* q holds the consecutive events that follow event g. *)
Run(q, g) == \A i \in 1..Len(q) : q[i] = g + i

Serving(s) == pc[s] \in {"subscribed", "select", "write"}

(* Whatever the order of unsubscribing, dropping and broadcasting, no       *)
(* channel is closed twice and nothing is sent on a closed one (either      *)
(* would take the whole server down).                                       *)
NoPanic == ~panicked

(* A stream sees no gap: what waits for it continues what it was given, in  *)
(* order, and while it is subscribed nothing that was broadcast is missing. *)
(* A subscriber too slow for the feed loses its stream, never an event in   *)
(* the middle of it.                                                        *)
NoGap ==
    \A s \in Streams : Serving(s) =>
        /\ Run(Unread(s), got[s])
        /\ s \in subs \ dead => got[s] + Len(Unread(s)) = sent

(* A handler that has returned leaves no channel behind in the hub.         *)
NoLeak == \A s \in Streams : At(s, "done") => s \notin subs

(* Broadcast never blocks its caller, whatever the clients do: a report or  *)
(* a scan always gets past it, even when a client has stopped reading.      *)
BroadcastReturns == \A b \in Callers : At(b, "call") ~> At(b, "idle")

(* A stream dropped by the hub, or whose client went away, comes to an end  *)
(* (so that the browser reconnects and reloads) as long as its client does  *)
(* not hold up a write for ever.                                            *)
DroppedStreamEnds ==
    \A s \in Readers :
        (Serving(s) /\ (s \notin subs \/ s \in gone)) ~> At(s, "done")

(* Every event published while a stream is on reaches its client, unless    *)
(* the stream is closed or its client leaves.                               *)
EventsArrive ==
    \A s \in Readers : \A n \in 1..MaxEvents :
        (Serving(s) /\ sent >= n) ~> (got[s] >= n \/ s \in closed \/ s \in gone)

(* The hub implements the abstract feed. *)
Conn(s) == IF pc[s] \in {"new", "subscribe"} THEN "off"
           ELSE IF s \in subs \ dead THEN "on" ELSE "cut"

AbstractFeed == INSTANCE Feed WITH conn <- [s \in Streams |-> Conn(s)]

ImplementsFeed == AbstractFeed!FeedSpec
=============================================================================
