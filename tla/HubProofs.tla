----------------------------- MODULE HubProofs ------------------------------
(***************************************************************************)
(* Theorems about Hub, for any sets of streams and callers and any channel  *)
(* capacity.  IInv is the inductive invariant behind them.                  *)
(***************************************************************************)
EXTENDS Hub, Integers, TLAPS

(* The mutex is held by exactly the process inside a critical section. *)
MutexHeld == \A p \in Procs : pc[p] \in Critical <=> mu = p

(* Who is subscribed, who is closed, and when.  A channel is in the hub or  *)
(* closed, never both; dead channels exist only until Broadcast drops them. *)
Lifecycle ==
    /\ subs \cap closed = {}
    /\ dead \subseteq subs
    /\ dead # {} => \E b \in Callers : pc[b] = "drop"
    /\ \A s \in Streams :
        /\ pc[s] \in {"new", "subscribe"} => s \notin subs \cup closed /\ queue[s] = <<>>
        /\ pc[s] \in {"unsubscribed", "done"} => s \notin subs

(* How many events precede the channel's first one. *)
Base(s) == IF pc[s] = "write" THEN got[s] + 1 ELSE got[s]

(* The channel of a serving stream continues what its handler has taken;    *)
(* it ends with the last broadcast while the stream is on.                  *)
InOrder(s) ==
    /\ pc[s] = "write" => hand[s] = got[s] + 1
    /\ Run(queue[s], Base(s))
    /\ Base(s) + Len(queue[s]) <= sent
    /\ s \in subs \ dead => Base(s) + Len(queue[s]) = sent

Continues == \A s \in Streams : Serving(s) => InOrder(s)

(* A stream that lags less than its channel holds does not exist. *)
Lag == \A s \in Streams : s \in subs => got[s] + Len(queue[s]) <= sent

IInv == TypeOK /\ NoPanic /\ MutexHeld /\ Lifecycle /\ Continues /\ Lag

(* Runs of consecutive numbers: taking the first, adding the next, putting  *)
(* the previous one in front.                                               *)
LEMMA RunTail ==
  ASSUME NEW q \in Seq(Nat), q # <<>>, NEW g \in Nat, Run(q, g)
  PROVE  Head(q) = g + 1 /\ Tail(q) \in Seq(Nat) /\ Len(Tail(q)) = Len(q) - 1 /\ Run(Tail(q), g + 1)
<1>1. Len(q) \in Nat \ {0} /\ Len(Tail(q)) = Len(q) - 1 /\ Head(q) = q[1]
  OBVIOUS
<1>2. ASSUME NEW i \in 1..Len(Tail(q))
      PROVE  Tail(q)[i] = (g + 1) + i
  <2>1. i + 1 \in 1..Len(q) /\ Tail(q)[i] = q[i + 1]
    BY <1>1
  <2>2. q[i + 1] = g + (i + 1)
    BY <2>1 DEF Run
  <2> QED
    BY <2>1, <2>2
<1> QED
  BY <1>1, <1>2 DEF Run

LEMMA RunAppend ==
  ASSUME NEW q \in Seq(Nat), NEW g \in Nat, Run(q, g), NEW x, x = g + Len(q) + 1
  PROVE  Len(Append(q, x)) = Len(q) + 1 /\ Run(Append(q, x), g)
<1>1. Len(q) \in Nat /\ Len(Append(q, x)) = Len(q) + 1
  OBVIOUS
<1>2. ASSUME NEW i \in 1..Len(Append(q, x))
      PROVE  Append(q, x)[i] = g + i
  <2>1. CASE i = Len(q) + 1
    BY <1>1, <2>1
  <2>2. CASE i # Len(q) + 1
    BY <1>1, <2>2 DEF Run
  <2> QED
    BY <2>1, <2>2
<1> QED
  BY <1>1, <1>2 DEF Run

LEMMA RunCons ==
  ASSUME NEW q \in Seq(Nat), NEW g \in Nat, Run(q, g + 1)
  PROVE  Len(<<g + 1>> \o q) = Len(q) + 1 /\ Run(<<g + 1>> \o q, g)
<1> DEFINE u == <<g + 1>> \o q
<1>1. Len(q) \in Nat /\ Len(u) = Len(q) + 1 /\ u[1] = g + 1
  OBVIOUS
<1>2. ASSUME NEW i \in 1..Len(u)
      PROVE  u[i] = g + i
  <2>1. CASE i = 1
    BY <1>1, <2>1
  <2>2. CASE i # 1
    <3>1. i - 1 \in 1..Len(q) /\ u[i] = q[i - 1]
      BY <1>1, <2>2
    <3>2. q[i - 1] = (g + 1) + (i - 1)
      BY <3>1 DEF Run
    <3> QED
      BY <3>1, <3>2
  <2> QED
    BY <2>1, <2>2
<1> QED
  BY <1>1, <1>2 DEF Run

LEMMA InitIInv == Init => IInv
<1> SUFFICES ASSUME Init PROVE IInv
  OBVIOUS
<1>1. TypeOK
  <2>1. pc \in [Procs -> StreamPC \cup CallerPC]
    BY DEF Init, StreamPC, CallerPC
  <2>2. /\ \A s \in Streams : pc[s] \in StreamPC
        /\ \A b \in Callers : pc[b] \in CallerPC
    BY HubAssumption DEF Init, Procs, StreamPC, CallerPC
  <2>3. /\ queue \in [Streams -> Seq(Nat)]
        /\ \A s \in Streams : Len(queue[s]) <= Cap
    BY HubAssumption DEF Init
  <2> QED
    BY <2>1, <2>2, <2>3 DEF Init, TypeOK
<1>2. MutexHeld
  BY HubAssumption DEF Init, MutexHeld, Procs, Critical
<1>3. NoPanic /\ Lifecycle /\ Continues /\ Lag
  BY HubAssumption DEF Init, NoPanic, Lifecycle, Continues, Lag, Serving, Procs
<1> QED
  BY <1>1, <1>2, <1>3 DEF IInv

LEMMA StepTypeOK == TypeOK /\ [Next]_vars => TypeOK'
<1> SUFFICES ASSUME TypeOK, [Next]_vars PROVE TypeOK'
  OBVIOUS
<1> USE HubAssumption DEF TypeOK, Procs, StreamPC, CallerPC, At, Goto
<1>1. ASSUME NEW s \in Streams, StreamLock(s)
      PROVE  TypeOK'
  BY <1>1 DEF StreamLock, LockSubscribe, LockUnsubscribe, Lock
<1>2. ASSUME NEW s \in Streams, Subscribe(s)
      PROVE  TypeOK'
  BY <1>2 DEF Subscribe
<1>3. ASSUME NEW s \in Streams,
             Hello(s) \/ SeeClosed(s) \/ SeeGone(s) \/ WriteFails(s) \/ Return(s)
      PROVE  TypeOK'
  BY <1>3 DEF Hello, SeeClosed, SeeGone, WriteFails, Return
<1>4. ASSUME NEW s \in Streams, Receive(s)
      PROVE  TypeOK'
  BY <1>4 DEF Receive
<1>5. ASSUME NEW s \in Streams, Write(s)
      PROVE  TypeOK'
  BY <1>5 DEF Write
<1>6. ASSUME NEW s \in Streams, Unsubscribe(s)
      PROVE  TypeOK'
  BY <1>6 DEF Unsubscribe, Close
<1>7. ASSUME NEW s \in Streams, Disconnect(s)
      PROVE  TypeOK'
  BY <1>7 DEF Disconnect
<1>8. ASSUME NEW b \in Callers, Call(b) \/ LockBroadcast(b)
      PROVE  TypeOK'
  BY <1>8 DEF Call, LockBroadcast, Lock
<1>9. ASSUME NEW b \in Callers, SendAll(b)
      PROVE  TypeOK'
  BY <1>9 DEF SendAll, Full
<1>10. ASSUME NEW b \in Callers, DropDead(b)
       PROVE  TypeOK'
  BY <1>10 DEF DropDead, Close
<1>11. CASE UNCHANGED vars
  BY <1>11 DEF vars
<1> QED
  BY <1>1, <1>2, <1>3, <1>4, <1>5, <1>6, <1>7, <1>8, <1>9, <1>10, <1>11
  DEF Next, StreamNext, StreamStep, CallerNext

LEMMA StepMutexHeld == TypeOK /\ MutexHeld /\ [Next]_vars => MutexHeld'
<1> SUFFICES ASSUME TypeOK, MutexHeld, [Next]_vars PROVE MutexHeld'
  OBVIOUS
<1> USE HubAssumption DEF TypeOK, MutexHeld, Procs, Critical, At, Goto
<1>1. ASSUME NEW s \in Streams, StreamNext(s)
      PROVE  MutexHeld'
  BY <1>1 DEF StreamNext, StreamStep, StreamLock, LockSubscribe, LockUnsubscribe, Lock,
     Subscribe, Hello, SeeClosed, SeeGone, WriteFails, Return, Receive, Write, Unsubscribe, Disconnect
<1>2. ASSUME NEW b \in Callers, CallerNext(b)
      PROVE  MutexHeld'
  BY <1>2 DEF CallerNext, Call, LockBroadcast, Lock, SendAll, DropDead
<1>3. CASE UNCHANGED vars
  BY <1>3 DEF vars
<1> QED
  BY <1>1, <1>2, <1>3 DEF Next

LEMMA StepLifecycle ==
    TypeOK /\ NoPanic /\ MutexHeld /\ Lifecycle /\ [Next]_vars => NoPanic' /\ Lifecycle'
<1> SUFFICES ASSUME TypeOK, NoPanic, MutexHeld, Lifecycle, [Next]_vars
             PROVE  NoPanic' /\ Lifecycle'
  OBVIOUS
<1> USE HubAssumption DEF TypeOK, NoPanic, Lifecycle, Procs, StreamPC, CallerPC, At, Goto
<1>1. ASSUME NEW s \in Streams, StreamLock(s)
      PROVE  NoPanic' /\ Lifecycle'
  BY <1>1 DEF StreamLock, LockSubscribe, LockUnsubscribe, Lock
<1>2. ASSUME NEW s \in Streams, Subscribe(s)
      PROVE  NoPanic' /\ Lifecycle'
  BY <1>2 DEF Subscribe
<1>3. ASSUME NEW s \in Streams,
             Hello(s) \/ SeeClosed(s) \/ SeeGone(s) \/ WriteFails(s) \/ Return(s)
      PROVE  NoPanic' /\ Lifecycle'
  BY <1>3 DEF Hello, SeeClosed, SeeGone, WriteFails, Return
<1>4. ASSUME NEW s \in Streams, Receive(s)
      PROVE  NoPanic' /\ Lifecycle'
  BY <1>4 DEF Receive
<1>5. ASSUME NEW s \in Streams, Write(s)
      PROVE  NoPanic' /\ Lifecycle'
  BY <1>5 DEF Write
<1>6. ASSUME NEW s \in Streams, Unsubscribe(s)
      PROVE  NoPanic' /\ Lifecycle'
  BY <1>6 DEF Unsubscribe, Close, MutexHeld, Critical
<1>7. ASSUME NEW s \in Streams, Disconnect(s)
      PROVE  NoPanic' /\ Lifecycle'
  BY <1>7 DEF Disconnect
<1>8. ASSUME NEW b \in Callers, Call(b) \/ LockBroadcast(b)
      PROVE  NoPanic' /\ Lifecycle'
  BY <1>8 DEF Call, LockBroadcast, Lock
<1>9. ASSUME NEW b \in Callers, SendAll(b)
      PROVE  NoPanic' /\ Lifecycle'
  BY <1>9 DEF SendAll, Full
<1>10. ASSUME NEW b \in Callers, DropDead(b)
       PROVE  NoPanic' /\ Lifecycle'
  BY <1>10 DEF DropDead, Close
<1>11. CASE UNCHANGED vars
  BY <1>11 DEF vars
<1> QED
  BY <1>1, <1>2, <1>3, <1>4, <1>5, <1>6, <1>7, <1>8, <1>9, <1>10, <1>11
  DEF Next, StreamNext, StreamStep, CallerNext

LEMMA StepLag == TypeOK /\ MutexHeld /\ Lifecycle /\ Continues /\ Lag /\ [Next]_vars => Lag'
<1> SUFFICES ASSUME TypeOK, MutexHeld, Lifecycle, Continues, Lag, [Next]_vars,
                    NEW t \in Streams, t \in subs'
             PROVE  got'[t] + Len(queue'[t]) <= sent'
  BY DEF Lag
<1> USE HubAssumption DEF TypeOK, Lag, Procs, At, Goto
<1>1. ASSUME NEW s \in Streams, StreamLock(s)
      PROVE  got'[t] + Len(queue'[t]) <= sent'
  BY <1>1 DEF StreamLock, LockSubscribe, LockUnsubscribe, Lock
<1>2. ASSUME NEW s \in Streams, Subscribe(s)
      PROVE  got'[t] + Len(queue'[t]) <= sent'
  BY <1>2 DEF Subscribe, Lifecycle
<1>3. ASSUME NEW s \in Streams,
             Hello(s) \/ SeeClosed(s) \/ SeeGone(s) \/ WriteFails(s) \/ Return(s) \/ Disconnect(s)
      PROVE  got'[t] + Len(queue'[t]) <= sent'
  BY <1>3 DEF Hello, SeeClosed, SeeGone, WriteFails, Return, Disconnect
<1>4. ASSUME NEW s \in Streams, Receive(s)
      PROVE  got'[t] + Len(queue'[t]) <= sent'
  BY <1>4 DEF Receive
<1>5. ASSUME NEW s \in Streams, Write(s)
      PROVE  got'[t] + Len(queue'[t]) <= sent'
  BY <1>5 DEF Write, Continues, InOrder, Base, Serving
<1>6. ASSUME NEW s \in Streams, Unsubscribe(s)
      PROVE  got'[t] + Len(queue'[t]) <= sent'
  BY <1>6 DEF Unsubscribe
<1>8. ASSUME NEW b \in Callers, Call(b) \/ LockBroadcast(b) \/ DropDead(b)
      PROVE  got'[t] + Len(queue'[t]) <= sent'
  BY <1>8 DEF Call, LockBroadcast, Lock, DropDead
<1>9. ASSUME NEW b \in Callers, SendAll(b)
      PROVE  got'[t] + Len(queue'[t]) <= sent'
  BY <1>9 DEF SendAll, Full
<1>11. CASE UNCHANGED vars
  BY <1>11 DEF vars
<1> QED
  BY <1>1, <1>2, <1>3, <1>4, <1>5, <1>6, <1>8, <1>9, <1>11
  DEF Next, StreamNext, StreamStep, CallerNext

LEMMA StepContinues ==
    TypeOK /\ MutexHeld /\ Lifecycle /\ Continues /\ [Next]_vars => Continues'
<1> SUFFICES ASSUME TypeOK, MutexHeld, Lifecycle, Continues, [Next]_vars,
                    NEW t \in Streams, Serving(t)'
             PROVE  InOrder(t)'
  BY DEF Continues
<1> USE HubAssumption DEF TypeOK, Continues, InOrder, Base, Serving, Procs, At, Goto
<1>1. ASSUME NEW s \in Streams, StreamLock(s)
      PROVE  InOrder(t)'
  BY <1>1 DEF StreamLock, LockSubscribe, LockUnsubscribe, Lock
<1>2. ASSUME NEW s \in Streams, Subscribe(s)
      PROVE  InOrder(t)'
  <2>1. CASE t = s
    <3>1. queue'[t] = <<>> /\ pc'[t] = "subscribed" /\ got'[t] = sent /\ sent' = sent
      BY <1>2, <2>1 DEF Subscribe, Lifecycle
    <3> QED
      BY <3>1 DEF Run
  <2>2. CASE t # s
    BY <1>2, <2>2 DEF Subscribe
  <2> QED
    BY <2>1, <2>2
<1>3. ASSUME NEW s \in Streams,
             Hello(s) \/ SeeClosed(s) \/ SeeGone(s) \/ WriteFails(s) \/ Return(s) \/ Disconnect(s)
      PROVE  InOrder(t)'
  BY <1>3 DEF Hello, SeeClosed, SeeGone, WriteFails, Return, Disconnect
<1>4. ASSUME NEW s \in Streams, Receive(s)
      PROVE  InOrder(t)'
  <2>1. CASE t = s
    <3>1. /\ pc[t] = "select" /\ pc'[t] = "write" /\ got'[t] = got[t] /\ sent' = sent
          /\ hand'[t] = Head(queue[t]) /\ queue'[t] = Tail(queue[t])
          /\ subs' = subs /\ dead' = dead
          /\ queue[t] \in Seq(Nat) /\ queue[t] # <<>>
      BY <1>4, <2>1 DEF Receive
    <3>2. /\ Run(queue[t], got[t])
          /\ got[t] + Len(queue[t]) <= sent
          /\ t \in subs \ dead => got[t] + Len(queue[t]) = sent
      BY <3>1
    <3>3. /\ Run(queue'[t], got[t] + 1) /\ hand'[t] = got[t] + 1
          /\ Len(queue'[t]) = Len(queue[t]) - 1
      BY <3>1, <3>2, RunTail
    <3>4. Len(queue[t]) \in Nat
      BY <3>1
    <3>5. /\ (got[t] + 1) + Len(queue'[t]) <= sent
          /\ t \in subs \ dead => (got[t] + 1) + Len(queue'[t]) = sent
      BY <3>1, <3>2, <3>3, <3>4
    <3>6. Base(t)' = got[t] + 1
      BY <3>1
    <3> QED
      BY <3>1, <3>3, <3>5, <3>6
  <2>2. CASE t # s
    BY <1>4, <2>2 DEF Receive
  <2> QED
    BY <2>1, <2>2
<1>5. ASSUME NEW s \in Streams, Write(s)
      PROVE  InOrder(t)'
  BY <1>5 DEF Write
<1>6. ASSUME NEW s \in Streams, Unsubscribe(s)
      PROVE  InOrder(t)'
  BY <1>6 DEF Unsubscribe
<1>8. ASSUME NEW b \in Callers, Call(b) \/ LockBroadcast(b)
      PROVE  InOrder(t)'
  BY <1>8 DEF Call, LockBroadcast, Lock
<1>9. ASSUME NEW b \in Callers, SendAll(b)
      PROVE  InOrder(t)'
  <2>1. dead = {}
    BY <1>9 DEF SendAll, Lifecycle, MutexHeld, Critical
  <2>2. CASE t \in subs \ Full
    <3>1. /\ pc'[t] = pc[t] /\ got' = got /\ hand' = hand /\ sent' = sent + 1
          /\ queue'[t] = Append(queue[t], sent + 1)
      BY <1>9, <2>2 DEF SendAll
    <3> DEFINE base == Base(t)
    <3>2. Run(queue[t], base) /\ base + Len(queue[t]) = sent /\ base \in Nat
      BY <2>1, <2>2, <3>1
    <3>3. queue[t] \in Seq(Nat) /\ Len(queue[t]) \in Nat
      OBVIOUS
    <3>4. base' = base
      BY <3>1
    <3>5. pc[t] = "write" => hand[t] = got[t] + 1
      BY <3>1
    <3> HIDE DEF base
    <3>6. Run(queue'[t], base) /\ Len(queue'[t]) = Len(queue[t]) + 1
      BY <3>1, <3>2, <3>3, RunAppend
    <3>7. base' + Len(queue'[t]) = sent'
      BY <3>1, <3>2, <3>3, <3>4, <3>6
    <3>8. Run(queue'[t], base') /\ (pc'[t] = "write" => hand'[t] = got'[t] + 1)
      BY <3>1, <3>4, <3>5, <3>6
    <3> QED
      BY <3>2, <3>3, <3>4, <3>7, <3>8 DEF base
  <2>3. CASE t \notin subs \ Full
    BY <1>9, <2>1, <2>3 DEF SendAll
  <2> QED
    BY <2>2, <2>3
<1>10. ASSUME NEW b \in Callers, DropDead(b)
       PROVE  InOrder(t)'
  BY <1>10 DEF DropDead
<1>11. CASE UNCHANGED vars
  BY <1>11 DEF vars
<1> QED
  BY <1>1, <1>2, <1>3, <1>4, <1>5, <1>6, <1>8, <1>9, <1>10, <1>11
  DEF Next, StreamNext, StreamStep, CallerNext

(* IInv is an invariant of the hub. *)
THEOREM Inductive == Spec => []IInv
<1>1. IInv /\ [Next]_vars => IInv'
  BY StepTypeOK, StepMutexHeld, StepLifecycle, StepContinues, StepLag DEF IInv
<1> QED
  BY InitIInv, <1>1, PTL DEF Spec

(* Every variable of the hub keeps its type; in particular no subscriber    *)
(* channel ever holds more than Cap events.                                 *)
THEOREM HubTypeCorrect == Spec => []TypeOK
  BY Inductive, PTL DEF IInv

(* No interleaving of subscribing, unsubscribing, dropping and broadcasting *)
(* closes a channel twice or sends on a closed one.                         *)
THEOREM HubNeverPanics == Spec => []NoPanic
  BY Inductive, PTL DEF IInv

(* A handler that has returned has left the hub. *)
THEOREM HubNeverLeaks == Spec => []NoLeak
<1>1. IInv => NoLeak
  BY DEF IInv, Lifecycle, NoLeak, At
<1> QED
  BY Inductive, <1>1, PTL

(* A stream is given every event since it subscribed, in order, with none   *)
(* missing in the middle, up to the moment it is cut off.                   *)
THEOREM HubLeavesNoGap == Spec => []NoGap
<1>1. IInv => NoGap
  <2> SUFFICES ASSUME IInv, NEW s \in Streams, Serving(s)
               PROVE  /\ Run(Unread(s), got[s])
                      /\ s \in subs \ dead => got[s] + Len(Unread(s)) = sent
    BY DEF NoGap
  <2>1. queue[s] \in Seq(Nat) /\ got[s] \in Nat /\ sent \in Nat /\ InOrder(s)
    BY DEF IInv, TypeOK, Continues
  <2>2. CASE pc[s] = "write"
    <3>1. Unread(s) = <<got[s] + 1>> \o queue[s] /\ Run(queue[s], got[s] + 1)
      BY <2>1, <2>2 DEF Unread, At, InOrder, Base
    <3>2. Run(Unread(s), got[s]) /\ Len(Unread(s)) = Len(queue[s]) + 1
      BY <2>1, <3>1, RunCons
    <3>3. s \in subs \ dead => got[s] + 1 + Len(queue[s]) = sent
      BY <2>1, <2>2 DEF InOrder, Base
    <3> QED
      BY <2>1, <3>2, <3>3
  <2>3. CASE pc[s] # "write"
    <3>1. Unread(s) = queue[s]
      BY <2>1, <2>3 DEF Unread, At
    <3> QED
      BY <2>1, <2>3, <3>1 DEF InOrder, Base
  <2> QED
    BY <2>2, <2>3
<1> QED
  BY Inductive, <1>1, PTL

-----------------------------------------------------------------------------
(* The hub implements Feed: subscribing is joining, writing is delivering,  *)
(* the send loop of Broadcast is publishing (and cutting off), the deferred *)
(* unsubscribe is leaving; every other step is invisible.                   *)

LEMMA MapsInit == Init => AbstractFeed!Init
  BY HubAssumption DEF Init, AbstractFeed!Init, Conn, Procs

(* A step that moves no stream across the abstract states is a stutter. *)
LEMMA Stutter ==
  ASSUME sent' = sent, got' = got, \A t \in Streams : Conn(t)' = Conn(t)
  PROVE  UNCHANGED AbstractFeed!feedVars
  BY DEF AbstractFeed!feedVars

LEMMA MapsStep == IInv /\ [Next]_vars => [AbstractFeed!Next]_(AbstractFeed!feedVars)
<1> SUFFICES ASSUME IInv, [Next]_vars
             PROVE  [AbstractFeed!Next]_(AbstractFeed!feedVars)
  OBVIOUS
<1>t. TypeOK /\ MutexHeld /\ Lifecycle /\ Continues /\ Lag
  BY DEF IInv
<1>1. ASSUME NEW s \in Streams,
             StreamLock(s) \/ Hello(s) \/ Receive(s) \/ SeeClosed(s) \/ SeeGone(s)
             \/ WriteFails(s) \/ Return(s) \/ Disconnect(s)
      PROVE  UNCHANGED AbstractFeed!feedVars
  <2>1. sent' = sent /\ got' = got /\ \A t \in Streams : Conn(t)' = Conn(t)
    BY <1>1, <1>t, HubAssumption
    DEF StreamLock, LockSubscribe, LockUnsubscribe, Lock, Hello, Receive, SeeClosed, SeeGone,
        WriteFails, Return, Disconnect, Conn, At, Goto, TypeOK, Procs
  <2> QED
    BY <2>1, Stutter
<1>2. ASSUME NEW b \in Callers, Call(b) \/ LockBroadcast(b) \/ DropDead(b)
      PROVE  UNCHANGED AbstractFeed!feedVars
  <2>1. sent' = sent /\ got' = got /\ \A t \in Streams : Conn(t)' = Conn(t)
    BY <1>2, <1>t, HubAssumption
    DEF Call, LockBroadcast, Lock, DropDead, Conn, At, Goto, TypeOK, Procs
  <2> QED
    BY <2>1, Stutter
<1>3. ASSUME NEW s \in Streams, Subscribe(s)
      PROVE  AbstractFeed!Join(s)
  <2>1. Conn(s) = "off" /\ Conn(s)' = "on" /\ \A t \in Streams \ {s} : Conn(t)' = Conn(t)
    BY <1>3, <1>t, HubAssumption DEF Subscribe, Conn, At, Goto, TypeOK, Lifecycle, Procs
  <2> QED
    BY <1>3, <2>1 DEF Subscribe, AbstractFeed!Join
<1>4. ASSUME NEW s \in Streams, Write(s)
      PROVE  AbstractFeed!Deliver(s)
  <2>1. Conn(s) # "off" /\ \A t \in Streams : Conn(t)' = Conn(t)
    BY <1>4, <1>t, HubAssumption DEF Write, Conn, At, Goto, TypeOK, Procs
  <2>2. hand[s] = got[s] + 1 /\ (got[s] + 1) + Len(queue[s]) <= sent /\ Len(queue[s]) \in Nat
    BY <1>4, <1>t DEF Write, At, Continues, InOrder, Base, Serving, TypeOK
  <2>3. got[s] < sent /\ got' = [got EXCEPT ![s] = @ + 1]
    BY <1>4, <1>t, <2>2 DEF Write, TypeOK
  <2> QED
    BY <1>4, <2>1, <2>3 DEF Write, AbstractFeed!Deliver
<1>5. ASSUME NEW s \in Streams, Unsubscribe(s)
      PROVE  AbstractFeed!Leave(s) \/ UNCHANGED AbstractFeed!feedVars
  <2>1. dead = {}
    BY <1>5, <1>t, HubAssumption DEF Unsubscribe, At, MutexHeld, Lifecycle, Critical, Procs
  <2>2. sent' = sent /\ got' = got /\ \A t \in Streams \ {s} : Conn(t)' = Conn(t)
    BY <1>5, <1>t, HubAssumption DEF Unsubscribe, Conn, At, Goto, TypeOK, Procs
  <2>3. Conn(s)' = "cut"
    BY <1>5, <1>t, HubAssumption DEF Unsubscribe, Conn, At, Goto, TypeOK, Procs
  <2>4. CASE s \in subs
    <3>1. Conn(s) = "on"
      BY <1>5, <2>1, <2>4 DEF Unsubscribe, Conn, At
    <3> QED
      BY <2>2, <2>3, <3>1 DEF AbstractFeed!Leave
  <2>5. CASE s \notin subs
    <3>1. Conn(s) = "cut"
      BY <1>5, <2>5 DEF Unsubscribe, Conn, At
    <3> QED
      BY <2>2, <2>3, <3>1, Stutter
  <2> QED
    BY <2>4, <2>5
<1>6. ASSUME NEW b \in Callers, SendAll(b)
      PROVE  AbstractFeed!Publish
  <2>1. dead = {} /\ dead' = Full /\ sent' = sent + 1 /\ got' = got /\ subs' = subs
    BY <1>6, <1>t DEF SendAll, At, MutexHeld, Lifecycle, Critical, Procs
  <2>2. \A t \in Streams : pc'[t] = pc[t]
    BY <1>6, <1>t, HubAssumption DEF SendAll, Goto, TypeOK
  <2>3. \A t \in Full : t \in Streams /\ Conn(t) = "on" /\ sent - got[t] >= Cap
    <3> TAKE t \in Full
    <3>1. t \in Streams /\ t \in subs /\ Len(queue[t]) = Cap
      BY <1>t DEF Full, TypeOK
    <3>2. got[t] + Cap <= sent /\ got[t] \in Nat /\ sent \in Nat /\ Cap \in Nat
      BY <1>t, <3>1, HubAssumption DEF Lag, TypeOK
    <3>3. Conn(t) = "on"
      BY <1>t, <2>1, <3>1 DEF Conn, Lifecycle
    <3> QED
      BY <3>1, <3>2, <3>3
  <2>4. \A t \in Streams : Conn(t)' = IF t \in Full THEN "cut" ELSE Conn(t)
    BY <1>t, <2>1, <2>2, <2>3 DEF Conn, Lifecycle, Full
  <2>5. Full \in SUBSET {t \in Streams : Conn(t) = "on" /\ sent - got[t] >= Cap}
    BY <2>3
  <2> QED
    BY <2>1, <2>4, <2>5 DEF AbstractFeed!Publish
<1>7. CASE UNCHANGED vars
  BY <1>7 DEF vars, Conn, At, AbstractFeed!feedVars
<1> QED
  BY <1>1, <1>2, <1>3, <1>4, <1>5, <1>6, <1>7
  DEF Next, StreamNext, StreamStep, CallerNext, AbstractFeed!Next

(* Every behaviour of the hub is one of the abstract feed. *)
THEOREM HubImplementsFeed == Spec => ImplementsFeed
  BY Inductive, MapsInit, MapsStep, PTL DEF Spec, ImplementsFeed, AbstractFeed!FeedSpec
=============================================================================
