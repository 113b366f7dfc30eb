-------------------------- MODULE UsagePanelProofs --------------------------
(***************************************************************************)
(* Theorems about UsagePanel, for any windows and devices and any number of *)
(* clicks.  IInv is the inductive invariant behind them: at most one        *)
(* request counts, it is for the window selected, and what it brings can    *)
(* only add to the devices on the screen.                                   *)
(*                                                                          *)
(* After that, what the aggregation adds up and how it is drawn, for any    *)
(* buckets, at any time, in any zone whose clock changes over no midnight:  *)
(* the sums by application and by slot are one sum over the rows of a       *)
(* query, RankApps lists every application once, and a query is whole local *)
(* days up to now; and what becomes of the loop over days where a midnight  *)
(* is skipped west of UTC.  Last, the guards of the page, for answers with  *)
(* lists of any length.                                                     *)
(***************************************************************************)
EXTENDS MCUsage, DataLemmas

(* The request that counts, if any, is for the window on the tab. *)
OneRequest ==
    /\ asked = <<>> \/ \E r \in [window : Windows, answer : Answers \cup {None}] : asked = <<r>>
    /\ tab = "now" => asked = <<>>
    /\ tab = "usage" => (loading <=> asked # <<>>)
    /\ \A i \in DOMAIN asked :
        /\ asked[i].window = window
        /\ asked[i].answer # None => asked[i].answer.window = window

(* What has come is for the window selected unless something is loading. *)
Current == tab = "usage" /\ ~loading /\ ~error => data # None /\ data.window = window

(* Devices are listed in no answer before they report, and never go. *)
Growing ==
    /\ data # None => data.devices \subseteq reporting
    /\ \A i \in DOMAIN asked : asked[i].answer # None =>
        /\ asked[i].answer.devices \subseteq reporting
        /\ data # None => data.devices \subseteq asked[i].answer.devices

IInv == TypeOK /\ OneRequest /\ Current /\ Growing

LEMMA InitIInv == Init => IInv
<1> SUFFICES ASSUME Init PROVE IInv
  OBVIOUS
<1>1. FlagsOK
  BY DEF Init, FlagsOK
<1>2. PanelOK
  BY PanelAssumption DEF Init, PanelOK
<1>3. OneRequest
  BY DEF Init, OneRequest
<1>4. Current /\ Growing
  BY DEF Init, Current, Growing
<1> QED
  BY <1>1, <1>2, <1>3, <1>4 DEF IInv, TypeOK

LEMMA OneAsked ==
  ASSUME NEW S, NEW x \in S
  PROVE  <<x>> \in Seq(S) /\ <<x>> # <<>> /\ DOMAIN <<x>> = {1} /\ <<x>>[1] = x
OBVIOUS

(* What a click that fetches leaves. *)
LEMMA FetchAsks ==
  ASSUME TypeOK, NEW w \in Windows, Fetch(w)
  PROVE  /\ asked' = <<Waiting(w)>> /\ Waiting(w) \in [window : Windows, answer : Answers \cup {None}]
         /\ asked' \in Seq([window : Windows, answer : Answers \cup {None}])
         /\ asked' # <<>> /\ DOMAIN asked' = {1}
         /\ asked'[1].window = w /\ asked'[1].answer = None
         /\ loading' = TRUE /\ error' = FALSE /\ clicks' \in 0..MaxClicks
<1>1. asked' = <<Waiting(w)>>
  BY DEF Fetch, Cancelled
<1>2. clicks' \in 0..MaxClicks
  BY PanelAssumption DEF Fetch, TypeOK, PanelOK
<1>3. Waiting(w) \in [window : Windows, answer : Answers \cup {None}]
  BY DEF Waiting
<1>4. /\ <<Waiting(w)>> \in Seq([window : Windows, answer : Answers \cup {None}])
      /\ <<Waiting(w)>> # <<>> /\ DOMAIN <<Waiting(w)>> = {1} /\ <<Waiting(w)>>[1] = Waiting(w)
  BY <1>3, OneAsked
<1>5. Waiting(w).window = w /\ Waiting(w).answer = None
  BY DEF Waiting
<1>6. loading' = TRUE /\ error' = FALSE
  BY DEF Fetch
<1> QED
  BY <1>1, <1>2, <1>3, <1>4, <1>5, <1>6

(* The only request is the first one, and nothing is left when it has gone. *)
LEMMA TheRequest ==
  ASSUME OneRequest, NEW i \in DOMAIN asked
  PROVE  /\ i = 1 /\ asked # <<>> /\ RemoveAt(asked, i) = <<>>
         /\ \E r \in [window : Windows, answer : Answers \cup {None}] :
               asked = <<r>> /\ asked[1] = r /\ r.window = window
<1>1. PICK r \in [window : Windows, answer : Answers \cup {None}] : asked = <<r>>
  BY DEF OneRequest
<1>2. i = 1 /\ asked[1] = r /\ asked # <<>>
  BY <1>1
<1>3. RemoveAt(asked, i) = <<>>
  BY <1>1, <1>2 DEF RemoveAt
<1> QED
  BY <1>1, <1>2, <1>3 DEF OneRequest

LEMMA StepFlagsOK == FlagsOK /\ [Next]_vars => FlagsOK'
BY DEF FlagsOK, Next, RequestStep, vars, OpenTab, LeaveTab, SelectWindow, SelectDevice,
       FirstReport, Fetch, Handle, Arrives, Fails

LEMMA StepIInv == IInv /\ [Next]_vars => IInv'
<1> SUFFICES ASSUME IInv, [Next]_vars PROVE PanelOK' /\ OneRequest' /\ Current' /\ Growing'
  BY StepFlagsOK DEF IInv, TypeOK
<1> USE PanelAssumption DEF IInv, TypeOK
<1>1. CASE OpenTab
  <2>1. Fetch(Today)
    BY <1>1 DEF OpenTab
  <2>2. PanelOK'
    BY <1>1, <2>1, FetchAsks DEF OpenTab, PanelOK
  <2>3. OneRequest' /\ Current' /\ Growing'
    BY <1>1, <2>1, FetchAsks DEF OpenTab, OneRequest, Current, Growing
  <2> QED
    BY <2>2, <2>3
<1>2. CASE LeaveTab
  BY <1>2 DEF LeaveTab, Cancelled, PanelOK, OneRequest, Current, Growing
<1>3. ASSUME NEW w \in Windows, SelectWindow(w)
      PROVE  PanelOK' /\ OneRequest' /\ Current' /\ Growing'
  <2>1. Fetch(w)
    BY <1>3 DEF SelectWindow
  <2>2. PanelOK'
    BY <1>3, <2>1, FetchAsks DEF SelectWindow, PanelOK
  <2>3. OneRequest' /\ Current' /\ Growing'
    BY <1>3, <2>1, FetchAsks DEF SelectWindow, OneRequest, Current, Growing
  <2> QED
    BY <2>2, <2>3
<1>4. ASSUME NEW p \in Devices, SelectDevice(p)
      PROVE  PanelOK' /\ OneRequest' /\ Current' /\ Growing'
  BY <1>4 DEF SelectDevice, PanelOK, OneRequest, Current, Growing
<1>5. ASSUME NEW d \in Devices, FirstReport(d)
      PROVE  PanelOK' /\ OneRequest' /\ Current' /\ Growing'
  BY <1>5 DEF FirstReport, PanelOK, OneRequest, Current, Growing
<1>6. ASSUME NEW i \in DOMAIN asked, Handle(i)
      PROVE  PanelOK' /\ OneRequest' /\ Current' /\ Growing'
  <2> DEFINE q == [window |-> asked[1].window,
                   answer |-> [window |-> asked[1].window, devices |-> reporting]]
  <2>1. i = 1 /\ asked # <<>>
    BY TheRequest
  <2>2. asked' = <<q>> /\ q \in [window : Windows, answer : Answers \cup {None}] /\ q.window = window
    BY <1>6, <2>1, TheRequest DEF Handle, PanelOK, Answers
  <2>3. PanelOK'
    <3>1. <<q>> \in Seq([window : Windows, answer : Answers \cup {None}])
      BY <2>2, OneAsked
    <3> HIDE DEF q
    <3> QED
      BY <1>6, <2>2, <3>1 DEF Handle, PanelOK
  <2>4. OneRequest' /\ Current' /\ Growing'
    BY <1>6, <2>1, <2>2 DEF Handle, OneRequest, Current, Growing
  <2> QED
    BY <2>3, <2>4
<1>7. ASSUME NEW i \in DOMAIN asked, Arrives(i)
      PROVE  PanelOK' /\ OneRequest' /\ Current' /\ Growing'
  <2>1. asked' = <<>> /\ asked # <<>>
    BY <1>7, TheRequest DEF Arrives
  <2>2. data' \in Answers /\ data'.window = window /\ data'.devices \subseteq reporting
    BY <1>7, TheRequest DEF Arrives, OneRequest, Growing
  <2>3. PanelOK'
    BY <1>7, <2>1, <2>2 DEF Arrives, PanelOK
  <2>4. OneRequest' /\ Current' /\ Growing'
    BY <1>7, <2>1, <2>2 DEF Arrives, OneRequest, Current, Growing
  <2> QED
    BY <2>3, <2>4
<1>8. ASSUME NEW i \in DOMAIN asked, Fails(i)
      PROVE  PanelOK' /\ OneRequest' /\ Current' /\ Growing'
  <2>1. asked' = <<>> /\ asked # <<>>
    BY <1>8, TheRequest DEF Fails
  <2>2. PanelOK'
    BY <1>8, <2>1 DEF Fails, PanelOK
  <2>3. OneRequest' /\ Current' /\ Growing'
    BY <1>8, <2>1 DEF Fails, OneRequest, Current, Growing
  <2> QED
    BY <2>2, <2>3
<1>9. CASE UNCHANGED vars
  BY <1>9 DEF vars, PanelOK, OneRequest, Current, Growing
<1> QED
  BY <1>1, <1>2, <1>3, <1>4, <1>5, <1>6, <1>7, <1>8, <1>9 DEF Next, RequestStep

(* The state of the usage tab keeps its type (UsagePanel, useUsage). *)
THEOREM PanelTypeCorrect == Spec => []TypeOK
<1>1. IInv => TypeOK
  BY DEF IInv
<1> QED
  BY <1>1, InitIInv, StepIInv, PTL DEF Spec

(* Whatever windows a visitor clicks through and in whatever order answers   *)
(* come and fail, what stands on the screen when nothing is loading is for   *)
(* the window selected (the clean-up of useUsage's effect).                  *)
THEOREM PanelShowsSelected == Spec => []ShownIsSelected
<1>1. IInv => ShownIsSelected
  BY DEF IInv, Current, ShownIsSelected, Body
<1> QED
  BY <1>1, InitIInv, StepIInv, PTL DEF Spec

(* A device that is picked is shown until another is clicked, as long as a   *)
(* card stands on the screen (UsagePanel derives the device at render).      *)
THEOREM PanelKeepsPick == Spec => PickedStays
<1> DEFINE Keeps == tab = "usage" /\ tab' = "usage" /\ picked' = picked /\ picked \in Listed(data)
                    /\ data' # None => Shown(data', picked') = Shown(data, picked)
<1>1. IInv /\ [Next]_vars => [Keeps]_vars
  <2> SUFFICES ASSUME IInv, Next, tab = "usage", tab' = "usage", picked' = picked,
                      picked \in Listed(data), data' # None
               PROVE  Shown(data', picked') = Shown(data, picked)
    OBVIOUS
  <2>1. data # None /\ picked \in data.devices
    BY DEF Listed
  <2>2. picked \in data'.devices
    <3>1. CASE data' = data
      BY <2>1, <3>1
    <3>2. ASSUME NEW i \in DOMAIN asked, Arrives(i)
          PROVE  picked \in data'.devices
      BY <2>1, <3>2 DEF Arrives, IInv, Growing
    <3>3. ASSUME NEW i \in DOMAIN asked, Fails(i)
          PROVE  FALSE
      BY <3>3 DEF Fails
    <3>4. ASSUME NEW i \in DOMAIN asked, Handle(i)
          PROVE  data' = data
      BY <3>4 DEF Handle
    <3>5. ~OpenTab /\ ~LeaveTab
      BY DEF OpenTab, LeaveTab
    <3>6. ASSUME NEW w \in Windows, SelectWindow(w)
          PROVE  data' = data
      BY <3>6 DEF SelectWindow
    <3>7. ASSUME NEW p \in Devices, SelectDevice(p) \/ FirstReport(p)
          PROVE  data' = data
      BY <3>7 DEF SelectDevice, FirstReport
    <3> QED
      BY <3>1, <3>2, <3>3, <3>4, <3>5, <3>6, <3>7 DEF Next, RequestStep
  <2> QED
    BY <2>1, <2>2 DEF Shown, Listed
<1> QED
  BY <1>1, InitIInv, StepIInv, PTL DEF Spec, PickedStays

-----------------------------------------------------------------------------
(* What the aggregation adds up                                              *)

(* A bucket as usage_bucket holds it. *)
Bucket == [hour : Nat, state : {"active", "idle", "locked"}, app : Nat, seconds : Nat]

Active(rows) == {i \in DOMAIN rows : rows[i].state = "active"}

LEMMA RowShape ==
  ASSUME NEW rows \in Seq(Bucket)
  PROVE  /\ DOMAIN rows = 1..Len(rows) /\ Len(rows) \in Nat /\ IsFiniteSet(DOMAIN rows)
         /\ \A i \in DOMAIN rows : /\ rows[i] \in Bucket /\ rows[i].hour \in Nat
                                   /\ rows[i].app \in Nat /\ rows[i].seconds \in Nat
<1>1. DOMAIN rows = 1..Len(rows) /\ Len(rows) \in Nat
  OBVIOUS
<1>2. IsFiniteSet(1..Len(rows))
  BY <1>1, FS_Interval
<1>3. \A i \in DOMAIN rows : rows[i] \in Bucket
  OBVIOUS
<1> QED
  BY <1>1, <1>2, <1>3 DEF Bucket

(* The seconds of some rows, as a sum over a set. *)
LEMMA SecondsOfIs ==
  ASSUME NEW rows \in Seq(Bucket), NEW S \in SUBSET DOMAIN rows,
         NEW f, \A i \in S : f[i] = rows[i].seconds
  PROVE  /\ SecondsOf(rows, S) = SumFunctionOnSet(f, S)
         /\ SecondsOf(rows, S) \in Nat
<1>1. PICK g : g = [i \in S |-> rows[i].seconds]
  OBVIOUS
<1>2. IsFiniteSet(S) /\ \A i \in S : g[i] \in Nat /\ g[i] = f[i]
  BY <1>1, RowShape, FS_Subset
<1>3. SecondsOf(rows, S) = SumFunctionOnSet(g, S)
  BY <1>1 DEF SecondsOf, SumFunction
<1>4. SumFunctionOnSet(g, S) = SumFunctionOnSet(f, S)
  BY <1>2, SumSame
<1>5. SumFunctionOnSet(g, S) \in Nat
  BY <1>2, SumNat
<1> QED
  BY <1>3, <1>4, <1>5

(* What m makes of a finite set is finite. *)
LEMMA ImageFinite ==
  ASSUME NEW S, IsFiniteSet(S), NEW m
  PROVE  IsFiniteSet({m[x] : x \in S})
<1> DEFINE A == {m[x] : x \in S}
           g == [x \in S |-> m[x]]
<1>1. g \in Surjection(S, A)
  BY DEF Surjection
<1> HIDE DEF A, g
<1>2. IsFiniteSet(A)
  BY <1>1, FS_Surjection
<1> QED
  BY <1>2 DEF A

(* The applications of the rows S share out the active seconds among them. *)
LEMMA ByAppIs ==
  ASSUME NEW rows \in Seq(Bucket), NEW S \in SUBSET DOMAIN rows,
         NEW per, per = ByApp(rows, S)
  PROVE  /\ IsFiniteSet(DOMAIN per) /\ DOMAIN per \subseteq Nat /\ per \in [DOMAIN per -> Nat]
         /\ SumFunction(per) = SecondsOf(rows, S \cap Active(rows))
         /\ (\A i \in DOMAIN rows : rows[i].seconds > 0) => \A a \in DOMAIN per : per[a] > 0
<1>1. PICK E : E = {i \in S : rows[i].state = "active"}
  OBVIOUS
<1>2. E \in SUBSET DOMAIN rows /\ E = S \cap Active(rows)
  BY <1>1 DEF Active
<1>3. IsFiniteSet(E) /\ \A i \in E : rows[i].app \in Nat /\ rows[i].seconds \in Nat
  BY <1>2, RowShape, FS_Subset
<1>4. PICK m : m = [i \in E |-> rows[i].app]
  OBVIOUS
<1>5. PICK f : f = [i \in E |-> rows[i].seconds]
  OBVIOUS
<1>6. PICK A : A = {m[i] : i \in E}
  OBVIOUS
<1>7. IsFiniteSet(A) /\ A \subseteq Nat
  BY <1>3, <1>4, <1>6, ImageFinite
<1>8. per = [a \in A |-> SecondsOf(rows, {i \in E : rows[i].app = a})]
  <2>1. {rows[i].app : i \in E} = A
    BY <1>4, <1>6
  <2> QED
    BY <1>1, <2>1 DEF ByApp
<1>9. ASSUME NEW a \in A
      PROVE  /\ per[a] = SumFunctionOnSet(f, Group(E, m, a))
             /\ per[a] \in Nat
  <2>1. PICK T : T = Group(E, m, a)
    OBVIOUS
  <2>2. T = {i \in E : rows[i].app = a}
    BY <1>4, <2>1 DEF Group
  <2>3. T \in SUBSET DOMAIN rows /\ \A i \in T : f[i] = rows[i].seconds
    BY <1>2, <1>5, <2>2
  <2>4. SecondsOf(rows, T) = SumFunctionOnSet(f, T) /\ SecondsOf(rows, T) \in Nat
    BY <2>3, SecondsOfIs
  <2>5. per[a] = SecondsOf(rows, T)
    BY <1>8, <2>2
  <2> QED
    BY <2>1, <2>4, <2>5
<1>10. DOMAIN per = A
  BY <1>8
<1>11. per \in [A -> Nat]
  BY <1>8, <1>9
<1>12. SumFunctionOnSet(per, A) = SumFunctionOnSet(f, E)
  <2>1. \A i \in E : f[i] \in Int /\ m[i] \in A
    BY <1>3, <1>4, <1>5, <1>6
  <2>2. SumsUp(per, A, f, E, m)
    BY <1>9 DEF SumsUp
  <2>3. IsFiniteSet(E) /\ IsFiniteSet(A) /\ (\A i \in E : f[i] \in Int) /\ (\A i \in E : m[i] \in A)
    BY <1>3, <1>7, <2>1
  <2> QED
    BY <2>2, <2>3, SumByGroup
<1>13. SecondsOf(rows, E) = SumFunctionOnSet(f, E)
  BY <1>2, <1>5, SecondsOfIs
<1>14. SumFunction(per) = SumFunctionOnSet(per, A)
  BY <1>10 DEF SumFunction
<1>15. ASSUME \A i \in DOMAIN rows : rows[i].seconds > 0, NEW a \in A PROVE per[a] > 0
  <2>1. PICK T : T = Group(E, m, a)
    OBVIOUS
  <2>2. PICK i \in E : m[i] = a
    BY <1>6
  <2>3. i \in T /\ T \in SUBSET E
    BY <2>1, <2>2 DEF Group
  <2>4. IsFiniteSet(T) /\ \A j \in T : f[j] \in Nat
    BY <1>3, <1>5, <2>3, FS_Subset
  <2>5. f[i] <= SumFunctionOnSet(f, T)
    BY <2>3, <2>4, SumAboveTerm
  <2>6. f[i] > 0 /\ f[i] \in Nat
    BY <1>2, <1>3, <1>5, <1>15, <2>2
  <2> QED
    BY <1>9, <2>1, <2>5, <2>6
<1> QED
  BY <1>2, <1>7, <1>10, <1>11, <1>12, <1>13, <1>14, <1>15

(* slots share out the rows: row i is in the slot slot[i]. *)
Slotted(slots, rows, slot, n) ==
    /\ DOMAIN slots = 1..n
    /\ \A i \in DOMAIN rows : slot[i] \in 1..n
    /\ \A k \in 1..n : slots[k].seconds = SecondsOf(rows, Group(DOMAIN rows, slot, k) \cap Active(rows))

(* So they share out the active seconds. *)
LEMMA SlotsAddUp ==
  ASSUME NEW rows \in Seq(Bucket), NEW n \in Nat, NEW slot, NEW slots, Slotted(slots, rows, slot, n)
  PROVE  /\ Total(slots) = SecondsOf(rows, Active(rows))
         /\ \A k \in 1..n : slots[k].seconds \in Nat
<1> USE DEF Slotted
<1>1. PICK E : E = Active(rows)
  OBVIOUS
<1>2. E \in SUBSET DOMAIN rows /\ IsFiniteSet(E) /\ IsFiniteSet(1..n)
  BY <1>1, RowShape, FS_Subset, FS_Interval DEF Active
<1>3. PICK f : f = [i \in E |-> rows[i].seconds]
  OBVIOUS
<1>4. PICK g : g = [k \in 1..n |-> slots[k].seconds]
  OBVIOUS
<1>5. ASSUME NEW k \in 1..n PROVE g[k] = SumFunctionOnSet(f, Group(E, slot, k))
  <2>1. PICK T : T = Group(E, slot, k)
    OBVIOUS
  <2>2. T = Group(DOMAIN rows, slot, k) \cap E
    BY <1>2, <2>1 DEF Group
  <2>3. T \in SUBSET DOMAIN rows /\ \A i \in T : f[i] = rows[i].seconds
    BY <1>2, <1>3, <2>2
  <2>4. SecondsOf(rows, T) = SumFunctionOnSet(f, T)
    BY <2>3, SecondsOfIs
  <2> QED
    BY <1>1, <1>4, <2>1, <2>2, <2>4
<1>6. \A i \in E : f[i] \in Int /\ slot[i] \in 1..n
  BY <1>2, <1>3, RowShape
<1>7. SumFunctionOnSet(g, 1..n) = SumFunctionOnSet(f, E)
  <2>1. PICK R : R = 1..n
    OBVIOUS
  <2>2. SumsUp(g, R, f, E, slot)
    BY <1>5, <2>1 DEF SumsUp
  <2>3. IsFiniteSet(E) /\ IsFiniteSet(R) /\ (\A i \in E : f[i] \in Int) /\ (\A i \in E : slot[i] \in R)
    BY <1>2, <1>6, <2>1
  <2>4. SumFunctionOnSet(g, R) = SumFunctionOnSet(f, E)
    BY <2>2, <2>3, SumByGroup
  <2> QED
    BY <2>1, <2>4
<1>8. Total(slots) = SumFunctionOnSet(g, 1..n)
  BY <1>4 DEF Total, SumAndTop, SumFunction
<1>9. SecondsOf(rows, E) = SumFunctionOnSet(f, E)
  BY <1>2, <1>3, SecondsOfIs
<1>10. \A k \in 1..n : slots[k].seconds \in Nat
  <2> SUFFICES ASSUME NEW k \in 1..n PROVE slots[k].seconds \in Nat
    OBVIOUS
  <2>1. PICK T : T = Group(DOMAIN rows, slot, k) \cap Active(rows)
    OBVIOUS
  <2>2. T \in SUBSET DOMAIN rows
    BY <2>1 DEF Active
  <2>3. \E g0 : \A i \in T : g0[i] = rows[i].seconds
    <3>1. PICK g0 : g0 = [i \in T |-> rows[i].seconds]
      OBVIOUS
    <3> QED
      BY <3>1
  <2>4. SecondsOf(rows, T) \in Nat
    BY <2>2, <2>3, SecondsOfIs
  <2> QED
    BY <2>1, <2>4
<1> QED
  BY <1>1, <1>7, <1>8, <1>9, <1>10

-----------------------------------------------------------------------------
(* The ranking of the applications                                           *)

(* apps lists A, whoever is ahead first. *)
Ranked(apps, A, per) ==
    /\ apps \in [1..Cardinality(A) -> A]
    /\ \A i, j \in DOMAIN apps : i < j => Ahead(per, apps[i], apps[j])

(* Some application is ahead of all others. *)
LEMMA FirstAhead ==
  ASSUME NEW A, IsFiniteSet(A), A \subseteq Nat, A # {}, NEW per, \A a \in A : per[a] \in Nat
  PROVE  \E a \in A : \A b \in A \ {a} : Ahead(per, a, b)
<1>1. PICK V : V = {per[a] : a \in A}
  OBVIOUS
<1>2. IsFiniteSet(V)
  BY <1>1, ImageFinite
<1>3. V \subseteq Int /\ V # {}
  <2>1. \A v \in V : v \in Int
    BY <1>1
  <2>2. \E a \in A : per[a] \in V
    BY <1>1
  <2> QED
    BY <2>1, <2>2
<1>4. PICK m \in V : \A y \in V : m >= y
  BY <1>2, <1>3, GreatestThere
<1>5. PICK T : T = {a \in A : per[a] = m}
  OBVIOUS
<1>6. T # {} /\ T \in SUBSET A /\ IsFiniteSet(T)
  BY <1>1, <1>4, <1>5, FS_Subset
<1>7. PICK n : n = [a \in T |-> 0 - a]
  OBVIOUS
<1>8. PICK W : W = {n[a] : a \in T}
  OBVIOUS
<1>9. IsFiniteSet(W) /\ W \subseteq Int /\ W # {}
  <2>1. IsFiniteSet(W)
    BY <1>6, <1>8, ImageFinite
  <2>2. \A w \in W : w \in Int
    BY <1>6, <1>7, <1>8
  <2>3. \E a \in T : n[a] \in W
    BY <1>6, <1>8
  <2> QED
    BY <2>1, <2>2, <2>3
<1>10. PICK z \in W : \A y \in W : z >= y
  BY <1>9, GreatestThere
<1>11. PICK a \in T : z = n[a]
  BY <1>8
<1>12. \A b \in T : a <= b
  <2> SUFFICES ASSUME NEW b \in T PROVE a <= b
    OBVIOUS
  <2>1. n[b] \in W /\ n[a] >= n[b]
    BY <1>8, <1>10, <1>11
  <2>2. a \in Nat /\ b \in Nat /\ n[a] = 0 - a /\ n[b] = 0 - b
    BY <1>6, <1>7
  <2> QED
    BY <2>1, <2>2
<1>13. ASSUME NEW b \in A \ {a} PROVE Ahead(per, a, b)
  <2>1. a \in A /\ a \in Nat /\ b \in Nat /\ per[a] = m /\ per[a] \in Nat /\ per[b] \in Nat
    BY <1>5, <1>6
  <2>2. per[b] \in V
    BY <1>1
  <2>3. m >= per[b]
    BY <1>4, <2>2
  <2>4. CASE per[b] = m
    <3>1. b \in T
      BY <1>5, <2>4
    <3> QED
      BY <1>12, <2>1, <2>4, <3>1 DEF Ahead
  <2>5. CASE per[b] # m
    BY <2>1, <2>3, <2>5 DEF Ahead
  <2> QED
    BY <2>4, <2>5
<1> QED
  BY <1>6, <1>13

(* So they can be ranked: that one first, then the others as they rank. *)
LEMMA RankingThere ==
  ASSUME NEW A, IsFiniteSet(A), A \subseteq Nat, NEW per, \A a \in A : per[a] \in Nat
  PROVE  \E apps : Ranked(apps, A, per)
<1> DEFINE F == {B \in SUBSET A : \E apps : Ranked(apps, B, per)}
<1>1. ASSUME NEW B \in SUBSET A, \A a \in B : B \ {a} \in F PROVE B \in F
  <2> SUFFICES \E apps : Ranked(apps, B, per)
    OBVIOUS
  <2>0. IsFiniteSet(B) /\ Cardinality(B) \in Nat
    BY FS_Subset, FS_CardinalityType
  <2>1. CASE B = {}
    <3>1. Cardinality(B) = 0 /\ 1..0 = {}
      BY <2>1, FS_EmptySet
    <3>2. <<>> \in [1..0 -> B] /\ DOMAIN <<>> = {}
      BY <3>1
    <3>3. Ranked(<<>>, B, per)
      BY <3>1, <3>2 DEF Ranked
    <3> QED
      BY <3>3
  <2>2. CASE B # {}
    <3>1. PICK a \in B : \A b \in B \ {a} : Ahead(per, a, b)
      BY <2>0, <2>2, FirstAhead
    <3>2. PICK C : C = B \ {a}
      OBVIOUS
    <3>3. PICK rest : Ranked(rest, C, per)
      BY <1>1, <3>1, <3>2
    <3>4. PICK n \in Nat : n = Cardinality(C)
      BY <2>0, <3>2, FS_RemoveElement, FS_CardinalityType
    <3>5. Cardinality(B) = n + 1
      <4>1. n = Cardinality(B) - 1
        BY <2>0, <3>1, <3>2, <3>4, FS_RemoveElement
      <4> QED
        BY <2>0, <4>1
    <3>6. /\ rest \in [1..n -> C]
          /\ \A i, j \in 1..n : i < j => Ahead(per, rest[i], rest[j])
      BY <3>3, <3>4 DEF Ranked
    <3> DEFINE apps == [i \in 1..(n + 1) |-> IF i = 1 THEN a ELSE rest[i - 1]]
    <3>7. \A i \in 1..(n + 1) : i # 1 => i - 1 \in 1..n /\ apps[i] = rest[i - 1] /\ rest[i - 1] \in C
      BY <3>6
    <3>8. apps \in [1..(n + 1) -> B] /\ apps[1] = a
      BY <3>2, <3>7
    <3>9. ASSUME NEW i \in 1..(n + 1), NEW j \in 1..(n + 1), i < j PROVE Ahead(per, apps[i], apps[j])
      <4>1. j # 1 /\ apps[j] = rest[j - 1] /\ rest[j - 1] \in C /\ j - 1 \in 1..n
        BY <3>7, <3>9
      <4>2. CASE i = 1
        <5>1. apps[i] = a /\ apps[j] \in B \ {a}
          BY <3>2, <3>8, <4>1, <4>2
        <5> HIDE DEF apps
        <5> QED
          BY <3>1, <5>1
      <4>3. CASE i # 1
        <5>1. apps[i] = rest[i - 1] /\ i - 1 \in 1..n /\ i - 1 < j - 1
          BY <3>7, <3>9, <4>3
        <5>2. Ahead(per, rest[i - 1], rest[j - 1])
          BY <3>6, <4>1, <5>1
        <5> HIDE DEF apps
        <5> QED
          BY <4>1, <5>1, <5>2
      <4> QED
        BY <4>2, <4>3
    <3> HIDE DEF apps
    <3>10. DOMAIN apps = 1..(n + 1)
      BY <3>8
    <3>11. \A i, j \in 1..(n + 1) : i < j => Ahead(per, apps[i], apps[j])
      BY <3>9
    <3>12. Ranked(apps, B, per)
      BY <3>5, <3>8, <3>10, <3>11 DEF Ranked
    <3> QED
      BY <3>12
  <2> QED
    BY <2>1, <2>2
<1> HIDE DEF F
<1>2. A \in F
  BY <1>1, InductSubsets
<1> QED
  BY <1>2 DEF F

LEMMA RankAppsIs ==
  ASSUME NEW A, IsFiniteSet(A), A \subseteq Nat, NEW per \in [A -> Nat]
  PROVE  Ranked(RankApps(per), A, per)
<1>1. \E apps : Ranked(apps, A, per)
  BY RankingThere
<1>2. \E apps \in [1..Cardinality(A) -> A] : \A i, j \in DOMAIN apps : i < j => Ahead(per, apps[i], apps[j])
  BY <1>1 DEF Ranked
<1>3. DOMAIN per = A
  OBVIOUS
<1>4. RankApps(per) = CHOOSE apps \in [1..Cardinality(A) -> A] :
                          \A i, j \in DOMAIN apps : i < j => Ahead(per, apps[i], apps[j])
  BY <1>3 DEF RankApps
<1> QED
  BY <1>2, <1>4 DEF Ranked

(* Everyone is in the ranking once, so it has all the seconds. *)
Reads(f, apps, per) == \A i \in DOMAIN apps : f[i] = per[apps[i]]

LEMMA RankedAddUp ==
  ASSUME NEW A, IsFiniteSet(A), A \subseteq Nat, NEW per \in [A -> Nat],
         NEW apps, Ranked(apps, A, per), NEW f, Reads(f, apps, per)
  PROVE  SumFunctionOnSet(f, DOMAIN apps) = SumFunctionOnSet(per, A)
<1>0. PICK n \in Nat : n = Cardinality(A)
  BY FS_CardinalityType
<1>1. PICK R : R = 1..n
  OBVIOUS
<1>2. IsFiniteSet(R) /\ Cardinality(R) = Cardinality(A)
  BY <1>0, <1>1, FS_Interval
<1>3. /\ apps \in [R -> A] /\ R = DOMAIN apps
      /\ \A i, j \in R : i < j => Ahead(per, apps[i], apps[j])
  BY <1>0, <1>1 DEF Ranked
<1>4. \A i, j \in R : i # j => apps[i] # apps[j]
  <2>1. ASSUME NEW i \in R, NEW j \in R, i < j, apps[i] = apps[j] PROVE FALSE
    <3>1. Ahead(per, apps[i], apps[i]) /\ apps[i] \in A /\ apps[i] \in Nat /\ per[apps[i]] \in Nat
      BY <1>3, <2>1
    <3> QED
      BY <3>1 DEF Ahead
  <2> QED
    BY <1>1, <2>1
<1>5. apps \in Injection(R, A)
  BY <1>3, <1>4 DEF Injection, IsInjective
<1>6. apps \in Surjection(R, A)
  BY <1>2, <1>5, FS_Injection
<1>7. ASSUME NEW a \in A PROVE per[a] = SumFunctionOnSet(f, Group(R, apps, a))
  <2>1. PICK i \in R : apps[i] = a
    BY <1>6 DEF Surjection
  <2>2. PICK T : T = Group(R, apps, a)
    OBVIOUS
  <2>3. T = {i}
    BY <1>4, <2>1, <2>2 DEF Group
  <2>4. f[i] = per[a] /\ f[i] \in Int
    BY <1>3, <2>1 DEF Reads
  <2>5. IsFiniteSet(T) /\ i \in T /\ \A j \in T \ {i} : f[j] = 0
    BY <2>3, FS_Singleton
  <2>6. SumFunctionOnSet(f, T) = f[i]
    BY <2>4, <2>5, SumOfOne
  <2> QED
    BY <2>2, <2>4, <2>6
<1>8. SumsUp(per, A, f, R, apps)
  BY <1>7 DEF SumsUp
<1>9. (\A i \in R : f[i] \in Int) /\ (\A i \in R : apps[i] \in A)
  <2>1. \A i \in R : apps[i] \in A
    BY <1>3
  <2>2. \A i \in R : f[i] = per[apps[i]]
    BY <1>3 DEF Reads
  <2>3. \A a \in A : per[a] \in Int
    OBVIOUS
  <2>4. \A i \in R : per[apps[i]] \in Int
    BY <2>1, <2>3, Zenon
  <2> QED
    BY <1>1, <2>1, <2>2, <2>4, Zenon
<1>10. SumFunctionOnSet(per, A) = SumFunctionOnSet(f, R)
  BY <1>2, <1>8, <1>9, SumByGroup
<1> QED
  BY <1>3, <1>10

-----------------------------------------------------------------------------
(* Local days and hours                                                      *)

LEMMA DaysAre ==
  /\ DOMAIN Days = {"today", "week", "month"}
  /\ \A w \in DOMAIN Days : Days[w] \in Nat \ {0}
  /\ Days["today"] = 1
BY DEF Days

(* A zone with any offset, and a change of its clock by any time at any      *)
(* instant; and one whose change skips no midnight and repeats none.         *)
Clock == [offset : Int, shift : Int, at : Int]
Regular == {z \in Clock : KeepsMidnights(z)}

(* A local day begins at a multiple of its length. *)
LEMMA LocalDayIs ==
  ASSUME NEW t \in Int, NEW zone \in Clock, NEW s, s = Local(t, zone), NEW L, L = LocalDay(t, zone)
  PROVE  /\ s \in Int /\ L \in Int /\ DayLength \in Nat \ {0}
         /\ \A k \in Int : /\ k * DayLength \in Int
                           /\ k * DayLength <= s <=> k <= L
         /\ LocalHour(t, zone) \in 0..(DayHours - 1)
<1>1. PICK D \in Nat \ {0} : D = DayLength /\ D = 2 * DayHours
  BY AggregateAssumption DEF DayLength
<1>2. s \in Int
  <2>1. zone.offset \in Int /\ zone.shift \in Int
    BY DEF Clock
  <2>2. Offset(t, zone) \in Int
    BY <2>1 DEF Offset
  <2> QED
    BY <2>2 DEF Local
<1>3. L = s \div D
  BY <1>1 DEF LocalDay
<1>4. /\ s \div D \in Int /\ s % D \in 0..(D - 1)
      /\ (s \div D) * D + (s % D) = s
  BY <1>2, QuotientInt
<1>5. PICK r \in 0..(D - 1) : r = s % D
  BY <1>4
<1>6. L \in Int /\ L * D + r = s /\ L * D \in Int
  BY <1>3, <1>4, <1>5
<1>7. ASSUME NEW k \in Int PROVE k * D \in Int /\ (k * D <= s <=> k <= L)
  <2>1. k * D \in Int /\ (k <= L => k * D <= L * D) /\ (L < k => L * D + D <= k * D)
    BY <1>6, Products
  <2> QED
    BY <1>2, <1>5, <1>6, <2>1
<1>8. LocalHour(t, zone) \in 0..(DayHours - 1)
  <2>1. LocalHour(t, zone) = r \div 2
    BY <1>1, <1>5 DEF LocalHour
  <2>2. r \in Nat /\ r < 2 * DayHours /\ DayHours \in Nat
    BY <1>1, <1>5, AggregateAssumption
  <2>3. r \div 2 \in Nat /\ 2 * (r \div 2) <= r
    BY <2>2
  <2> QED
    BY <2>1, <2>2, <2>3
<1> QED
  BY <1>1, <1>2, <1>6, <1>7, <1>8

(* The wall clocks that a change skips or repeats.  An instant of any other   *)
(* is found by time.Date, and what has come before it has come on the wall.   *)
Odd(wall, zone) ==
    LET change == zone.at + zone.offset IN
    \/ change <= wall /\ wall < change + zone.shift
    \/ change + zone.shift <= wall /\ wall < change

LEMMA DateIs ==
  ASSUME NEW zone \in Clock, NEW m \in Int, ~Odd(m, zone), NEW u, u = Date(m, zone)
  PROVE  /\ u \in Int /\ Local(u, zone) = m
         /\ \A t \in Int : u <= t <=> m <= Local(t, zone)
<1>1. PICK o \in Int, s \in Int, a \in Int : o = zone.offset /\ s = zone.shift /\ a = zone.at
  BY DEF Clock
<1>2. /\ ~(a + o <= m /\ m < a + o + s)
      /\ ~(a + o + s <= m /\ m < a + o)
  BY <1>1 DEF Odd
<1>3. \A t \in Int : Local(t, zone) = IF t < a THEN t + o ELSE t + (o + s)
  BY <1>1 DEF Local, Offset
<1>4. PICK g \in Int : g = Offset(m, zone) /\ (g = IF m < a THEN o ELSE o + s)
  BY <1>1 DEF Offset
<1>5. u = m - IF m - g < a THEN o ELSE o + s
  BY <1>1, <1>4 DEF Date, Offset
<1>6. (m < a + o /\ u = m - o /\ u < a) \/ (m >= a + o + s /\ u = m - o - s /\ u >= a)
  BY <1>2, <1>4, <1>5
<1>7. u \in Int /\ Local(u, zone) = m
  BY <1>3, <1>6
<1>8. ASSUME NEW t \in Int PROVE u <= t <=> m <= Local(t, zone)
  <2>1. CASE m < a + o /\ u = m - o /\ u < a
    BY <1>2, <1>3, <2>1
  <2>2. CASE m >= a + o + s /\ u = m - o - s /\ u >= a
    BY <1>2, <1>3, <2>2
  <2> QED
    BY <1>6, <2>1, <2>2
<1> QED
  BY <1>7, <1>8

(* KeepsMidnights says what it is named for. *)
LEMMA NoMidnightIsOdd ==
  ASSUME NEW zone \in Regular, NEW d \in Int
  PROVE  d * DayLength \in Int /\ ~Odd(d * DayLength, zone)
<1>1. PICK D \in Nat \ {0} : D = DayLength
  BY AggregateAssumption DEF DayLength
<1>2. PICK o \in Int, s \in Int, a \in Int : o = zone.offset /\ s = zone.shift /\ a = zone.at
  BY DEF Regular, Clock
<1>3. PICK lo \in Int, wide \in Nat : /\ lo = a + o + (IF s < 0 THEN s ELSE 0)
                                      /\ wide = (IF s < 0 THEN -s ELSE s)
  OBVIOUS
<1>4. PICK q \in Int, r \in 0..(D - 1) : q = (-lo) \div D /\ r = (-lo) % D /\ q * D + r = -lo
  BY <1>1, QuotientInt
<1>5. r >= wide
  BY <1>1, <1>2, <1>3, <1>4 DEF Regular, KeepsMidnights
<1>6. PICK p \in Int : p = -q
  OBVIOUS
<1>7. PICK m \in Int : m = d * D
  BY Products
<1>8. PICK c \in Int : c = p * D /\ c = lo + r
  <2>1. p * D = -(q * D)
    BY <1>6
  <2> QED
    BY <1>4, <1>6, <2>1, Products
<1>9. (p <= d => c <= m) /\ (d < p => m + D <= c)
  BY <1>7, <1>8, Products
<1>10. m >= lo + wide \/ m < lo
  BY <1>4, <1>5, <1>8, <1>9
<1> QED
  BY <1>1, <1>2, <1>3, <1>7, <1>10 DEF Odd

(* Each day begins at its midnight, from which the loop steps to the next. *)
LEMMA MidnightIs ==
  ASSUME NEW zone \in Regular, NEW d \in Int
  PROVE  /\ Midnight(d, zone) \in Int /\ LocalDay(Midnight(d, zone), zone) = d
         /\ \A t \in Int : Midnight(d, zone) <= t <=> d <= LocalDay(t, zone)
         /\ StartOfDay(Midnight(d, zone), zone) = Midnight(d, zone)
         /\ NextDay(Midnight(d, zone), zone) = Midnight(d + 1, zone)
<1>0. zone \in Clock
  BY DEF Regular
<1>1. ASSUME NEW e \in Int
      PROVE  /\ Midnight(e, zone) \in Int
             /\ Local(Midnight(e, zone), zone) = e * DayLength
             /\ \A t \in Int : Midnight(e, zone) <= t <=> e * DayLength <= Local(t, zone)
             /\ LocalDay(Midnight(e, zone), zone) = e
  <2>1. PICK m \in Int : m = e * DayLength /\ ~Odd(m, zone)
    BY NoMidnightIsOdd
  <2>2. PICK u : u = Date(m, zone) /\ u = Midnight(e, zone)
    BY <2>1 DEF Midnight
  <2>3. u \in Int /\ Local(u, zone) = m /\ \A t \in Int : u <= t <=> m <= Local(t, zone)
    BY <1>0, <2>1, <2>2, DateIs
  <2>4. PICK L \in Int : L = LocalDay(u, zone) /\ \A k \in Int : k * DayLength <= m <=> k <= L
    <3>1. PICK L : L = LocalDay(u, zone)
      OBVIOUS
    <3>2. L \in Int /\ \A k \in Int : k * DayLength <= Local(u, zone) <=> k <= L
      BY <1>0, <2>3, <3>1, LocalDayIs
    <3> QED
      BY <2>3, <3>1, <3>2
  <2>5. e <= L /\ ~(e + 1 <= L)
    <3>1. (e + 1) * DayLength = m + DayLength /\ (e + 1) * DayLength \in Int /\ DayLength \in Nat \ {0}
      <4>1. DayLength \in Nat \ {0}
        BY AggregateAssumption DEF DayLength
      <4> QED
        BY <2>1, <4>1, Products
    <3> QED
      BY <2>1, <2>4, <3>1
  <2> QED
    BY <2>1, <2>2, <2>3, <2>4, <2>5
<1>2. PICK u \in Int : u = Midnight(d, zone) /\ LocalDay(u, zone) = d
  BY <1>1
<1>3. \A t \in Int : u <= t <=> d <= LocalDay(t, zone)
  <2> SUFFICES ASSUME NEW t \in Int PROVE u <= t <=> d <= LocalDay(t, zone)
    OBVIOUS
  <2>1. u <= t <=> d * DayLength <= Local(t, zone)
    BY <1>1, <1>2
  <2>2. d * DayLength <= Local(t, zone) <=> d <= LocalDay(t, zone)
    BY <1>0, LocalDayIs
  <2> QED
    BY <2>1, <2>2
<1>4. StartOfDay(u, zone) = u
  BY <1>2 DEF StartOfDay
<1>5. NextDay(u, zone) = Midnight(d + 1, zone)
  <2>1. PICK v : v = Midnight(d + 1, zone)
    OBVIOUS
  <2>2. Local(u, zone) + DayLength = (d + 1) * DayLength
    <3>1. DayLength \in Nat \ {0}
      BY AggregateAssumption DEF DayLength
    <3>2. (d + 1) * DayLength = d * DayLength + DayLength
      BY <3>1, Products
    <3> QED
      BY <1>1, <1>2, <3>2
  <2>3. Date(Local(u, zone) + DayLength, zone) = v
    BY <2>1, <2>2 DEF Midnight
  <2>4. LocalDay(v, zone) = d + 1
    BY <1>1, <2>1
  <2> QED
    BY <2>1, <2>3, <2>4 DEF NextDay, StartOfDay
<1> QED
  BY <1>2, <1>3, <1>4, <1>5

(* Where the clock goes forward at a midnight that the code's first guess, an *)
(* instant of UTC, puts before the change (so west of UTC), time.Date gives   *)
(* an instant of the day before, and the loop over days stays where it is:    *)
(* GET /api/v1/usage never answers for a window with such a day in it         *)
(* (daySlots and startOfDay in aggregate.go).                                 *)
THEOREM SkippedMidnightStalls ==
  ASSUME NEW zone \in Clock, zone.shift < DayLength, NEW d \in Int,
         NEW m, m = d * DayLength, m < zone.at,
         zone.at + zone.offset <= m, m < zone.at + zone.offset + zone.shift
  PROVE  NextDay(Midnight(d - 1, zone), zone) = Midnight(d - 1, zone)
<1>1. PICK D \in Nat \ {0} : D = DayLength
  BY AggregateAssumption DEF DayLength
<1>2. PICK o \in Int, s \in Int, a \in Int : o = zone.offset /\ s = zone.shift /\ a = zone.at
  BY DEF Clock
<1>3. m \in Int /\ (d - 1) * D \in Int /\ m = (d - 1) * D + D
  <2>1. PICK e \in Int : e = d - 1 /\ d = e + 1
    OBVIOUS
  <2>2. e * D \in Int /\ (e + 1) * D = e * D + D
    BY Products
  <2> QED
    BY <1>1, <2>1, <2>2
<1>4. PICK p \in Int : p = (d - 1) * D /\ p = m - D
  BY <1>3
<1>5. \A t \in Int : Offset(t, zone) = IF t < a THEN o ELSE o + s
  BY <1>2 DEF Offset
<1>6. PICK u \in Int : u = Midnight(d - 1, zone) /\ u = p - o /\ Local(u, zone) = p
  <2>1. p < a /\ p - o < a
    BY <1>1, <1>2, <1>4
  <2>2. Offset(p, zone) = o /\ Offset(p - o, zone) = o
    BY <1>5, <2>1
  <2>3. Midnight(d - 1, zone) = p - o
    BY <1>1, <1>4, <2>2 DEF Midnight, Date
  <2> QED
    BY <2>2, <2>3 DEF Local
<1>7. PICK v \in Int : v = Date(m, zone) /\ v = m - o - s /\ Local(v, zone) = m - s
  <2>1. Offset(m, zone) = o /\ Offset(m - o, zone) = o + s
    BY <1>2, <1>3, <1>5
  <2>2. Date(m, zone) = m - o - s
    BY <1>3, <2>1 DEF Date
  <2>3. m - o - s < a
    BY <1>2, <1>3
  <2>4. Offset(m - o - s, zone) = o
    BY <1>3, <1>5, <2>3
  <2> QED
    BY <1>3, <2>2, <2>4 DEF Local
<1>8. LocalDay(v, zone) = d - 1
  <2>1. PICK e \in Int, x \in Int : e = d - 1 /\ x = m - s /\ e * D = p
    BY <1>2, <1>3, <1>4
  <2>2. e * D <= x /\ x < e * D + D
    BY <1>1, <1>2, <1>3, <1>4, <2>1
  <2>3. x \div D = e
    BY <2>2, QuotientInt
  <2> QED
    BY <1>1, <1>7, <2>1, <2>3 DEF LocalDay
<1>9. Local(u, zone) + DayLength = m
  BY <1>1, <1>3, <1>4, <1>6
<1> QED
  BY <1>6, <1>7, <1>8, <1>9 DEF NextDay, StartOfDay

(* How many of the days of a window have begun before now. *)
Begun(w, now, zone) == IF StartOfDay(now, zone) = now THEN Days[w] - 1 ELSE Days[w]

(* A window is the days from F to that of now. *)
LEMMA WindowIs ==
  ASSUME NEW w \in DOMAIN Days, NEW now \in Int, NEW zone \in Regular,
         NEW L, L = LocalDay(now, zone), NEW F, F = L - (Days[w] - 1),
         NEW n, n = Begun(w, now, zone)
  PROVE  /\ L \in Int /\ F \in Int /\ n \in Nat /\ n <= L - F + 1
         /\ From(w, now, zone) = Midnight(F, zone)
         /\ \A k \in Int : Midnight(k, zone) < now <=> k <= F + n - 1
         /\ \A t \in Int : From(w, now, zone) <= t /\ t < now => LocalDay(t, zone) \in F..(F + n - 1)
         /\ \A t \in Int : t < now => (From(w, now, zone) <= t <=> F <= LocalDay(t, zone))
<1> DEFINE past == F + n - 1
<1>0. \A t \in Int : LocalDay(t, zone) \in Int
  BY LocalDayIs DEF Regular
<1>1. L \in Int
  BY <1>0
<1>2. Days[w] \in Nat \ {0}
  BY DaysAre
<1>3. F \in Int /\ n \in Nat /\ past = (IF StartOfDay(now, zone) = now THEN L - 1 ELSE L)
  BY <1>1, <1>2 DEF Begun
<1>4. From(w, now, zone) = Midnight(F, zone)
  BY DEF From
<1>5. ASSUME NEW k \in Int PROVE Midnight(k, zone) < now <=> k <= past
  <2>1. PICK u \in Int : u = Midnight(k, zone) /\ LocalDay(u, zone) = k /\ (u <= now <=> k <= L)
    BY MidnightIs
  <2>2. u = now <=> k = L /\ StartOfDay(now, zone) = now
    <3>1. u = now => k = L
      BY <2>1
    <3>2. StartOfDay(now, zone) = Midnight(L, zone)
      BY DEF StartOfDay
    <3> QED
      BY <2>1, <3>1, <3>2
  <2>3. CASE StartOfDay(now, zone) = now
    BY <1>1, <1>3, <2>1, <2>2, <2>3
  <2>4. CASE StartOfDay(now, zone) # now
    BY <1>1, <1>3, <2>1, <2>2, <2>4
  <2> QED
    BY <2>3, <2>4
<1>6. ASSUME NEW t \in Int, t < now
      PROVE  /\ LocalDay(t, zone) \in Int /\ LocalDay(t, zone) <= past
             /\ From(w, now, zone) <= t <=> F <= LocalDay(t, zone)
  <2>1. PICK l \in Int : l = LocalDay(t, zone)
    BY <1>0
  <2>2. PICK u \in Int : u = Midnight(l, zone) /\ u <= t
    BY <2>1, MidnightIs
  <2>3. u < now
    BY <1>6, <2>2
  <2>4. l <= past
    BY <1>5, <2>2, <2>3
  <2>5. From(w, now, zone) <= t <=> F <= l
    BY <1>3, <1>4, <2>1, MidnightIs
  <2> QED
    BY <2>1, <2>4, <2>5
<1>7. \A t \in Int : From(w, now, zone) <= t /\ t < now => LocalDay(t, zone) \in F..past
  <2>1. past \in Int
    BY <1>1, <1>3
  <2> QED
    BY <1>3, <1>6, <2>1
<1>8. n <= L - F + 1
  BY <1>1, <1>2, <1>3
<1> QED
  BY <1>1, <1>3, <1>4, <1>5, <1>6, <1>7, <1>8

(* The loop over days stands at the midnights of the window in turn, and ends *)
(* at the first that is not before now.                                      *)
LEMMA TurnsAre ==
  ASSUME NEW w \in DOMAIN Days, NEW now \in Int, NEW zone \in Regular,
         NEW L, L = LocalDay(now, zone), NEW F, F = L - (Days[w] - 1),
         NEW n, n = Begun(w, now, zone),
         NEW cur, cur = Turns(From(w, now, zone), now, zone)
  PROVE  /\ \A k \in 1..n : LocalDay(cur[k - 1], zone) = F + k - 1
         /\ Past(cur, now) # {} /\ Min(Past(cur, now)) = n
<1>0. /\ L \in Int /\ F \in Int /\ n \in Nat /\ n <= L - F + 1
      /\ From(w, now, zone) = Midnight(F, zone)
      /\ \A k \in Int : Midnight(k, zone) < now <=> k <= F + n - 1
  BY WindowIs
<1>1. PICK N \in Nat : N = L - F + 1 /\ n <= N
  <2>1. Days[w] \in Nat \ {0}
    BY DaysAre
  <2> QED
    BY <1>0, <2>1
<1>2. PICK from \in Int : from = Midnight(F, zone) /\ LocalDay(from, zone) = F /\ StartOfDay(from, zone) = from
  BY <1>0, MidnightIs
<1> DEFINE Loop(f) == f = [k \in 0..N |-> IF k = 0 THEN StartOfDay(from, zone) ELSE NextDay(f[k - 1], zone)]
<1>3. PICK mid : mid = [k \in 0..N |-> Midnight(F + k, zone)]
  OBVIOUS
<1>4. DOMAIN mid = 0..N /\ \A k \in 0..N : mid[k] = Midnight(F + k, zone) /\ mid[k] \in Int
  <2>1. \A k \in 0..N : F + k \in Int
    BY <1>0
  <2>2. \A k \in 0..N : Midnight(F + k, zone) \in Int
    BY <2>1, MidnightIs
  <2> QED
    BY <1>3, <2>2
<1>5. ASSUME NEW k \in 0..N PROVE mid[k] = IF k = 0 THEN StartOfDay(from, zone) ELSE NextDay(mid[k - 1], zone)
  <2>1. CASE k = 0
    <3>1. mid[0] = Midnight(F, zone)
      <4>1. F + 0 = F /\ 0 \in 0..N
        BY <1>0
      <4> QED
        BY <1>4, <4>1
    <3> QED
      BY <1>2, <2>1, <3>1
  <2>2. CASE k # 0
    <3>1. PICK d \in Int : d = F + (k - 1) /\ d + 1 = F + k /\ k - 1 \in 0..N
      BY <1>0, <2>2
    <3>2. NextDay(Midnight(d, zone), zone) = Midnight(d + 1, zone)
      BY MidnightIs
    <3>3. mid[k - 1] = Midnight(d, zone) /\ mid[k] = Midnight(d + 1, zone)
      BY <1>4, <3>1
    <3> QED
      BY <2>2, <3>2, <3>3
  <2> QED
    BY <2>1, <2>2
<1>6. Loop(mid)
  <2>1. mid = [k \in 0..N |-> mid[k]]
    BY <1>3
  <2>2. [k \in 0..N |-> mid[k]] = [k \in 0..N |-> IF k = 0 THEN StartOfDay(from, zone) ELSE NextDay(mid[k - 1], zone)]
    BY <1>5
  <2> QED
    BY <2>1, <2>2
<1>7. cur = CHOOSE f : Loop(f)
  <2>1. N = LocalDay(now, zone) - LocalDay(from, zone) + 1
    BY <1>1, <1>2
  <2> QED
    BY <1>0, <1>2, <2>1 DEF Turns
<1>8. Loop(cur)
  BY <1>6, <1>7
<1>9. \A k \in 0..N : cur[k] = mid[k]
  <2> DEFINE M == {k \in Nat : k <= N => cur[k] = mid[k]}
  <2>1. \A k \in 0..N : cur[k] = IF k = 0 THEN StartOfDay(from, zone) ELSE NextDay(cur[k - 1], zone)
    BY <1>8
  <2>2. 0 \in M
    BY <1>5, <2>1
  <2>3. ASSUME NEW k \in Nat, k \in M PROVE k + 1 \in M
    <3> SUFFICES ASSUME k + 1 <= N PROVE cur[k + 1] = mid[k + 1]
      OBVIOUS
    <3>1. k + 1 \in 0..N /\ k + 1 # 0 /\ (k + 1) - 1 = k /\ k <= N
      OBVIOUS
    <3>2. cur[k] = mid[k]
      BY <2>3, <3>1
    <3> QED
      BY <1>5, <2>1, <3>1, <3>2
  <2> HIDE DEF M
  <2>4. \A k \in Nat : k \in M
    BY <2>2, <2>3, Induct
  <2> QED
    BY <2>4 DEF M
<1>10. DOMAIN cur = 0..N
  BY <1>8
<1> HIDE DEF Loop
<1>11. \A k \in 1..n : LocalDay(cur[k - 1], zone) = F + k - 1
  <2> SUFFICES ASSUME NEW k \in 1..n PROVE LocalDay(cur[k - 1], zone) = F + k - 1
    OBVIOUS
  <2>1. PICK d \in Int : d = F + (k - 1) /\ d = F + k - 1 /\ k - 1 \in 0..N
    BY <1>0, <1>1
  <2>2. cur[k - 1] = Midnight(d, zone)
    BY <1>4, <1>9, <2>1
  <2> QED
    BY <2>1, <2>2, MidnightIs
<1>12. \A k \in 0..N : cur[k] >= now <=> k >= n
  <2> SUFFICES ASSUME NEW k \in 0..N PROVE cur[k] >= now <=> k >= n
    OBVIOUS
  <2>1. PICK d \in Int : d = F + k
    BY <1>0
  <2>2. cur[k] = Midnight(d, zone) /\ cur[k] \in Int
    BY <1>4, <1>9, <2>1
  <2>3. cur[k] < now <=> d <= F + n - 1
    BY <1>0, <2>2
  <2> QED
    BY <1>0, <2>1, <2>2, <2>3
<1>13. Past(cur, now) = {k \in 0..N : k >= n}
  BY <1>10, <1>12 DEF Past
<1>14. n \in Past(cur, now) /\ \A k \in Past(cur, now) : k \in Nat /\ n <= k
  BY <1>0, <1>1, <1>13
<1>15. Min(Past(cur, now)) = n
  <2>1. PICK x : x = Min(Past(cur, now))
    OBVIOUS
  <2>2. x \in Past(cur, now) /\ \A y \in Past(cur, now) : x <= y
    BY <1>14, <2>1 DEF Min
  <2> QED
    BY <1>0, <1>14, <2>1, <2>2
<1> QED
  BY <1>11, <1>14, <1>15

-----------------------------------------------------------------------------
(* The answer to a query                                                     *)

LEMMA SecondsAreNat ==
  ASSUME NEW rows \in Seq(Bucket), NEW S \in SUBSET DOMAIN rows
  PROVE  SecondsOf(rows, S) \in Nat
<1>1. PICK f : f = [i \in S |-> rows[i].seconds]
  OBVIOUS
<1>2. \A i \in S : f[i] = rows[i].seconds
  BY <1>1
<1> QED
  BY <1>2, SecondsOfIs

(* What a slot holds. *)
LEMMA SlotHolds ==
  ASSUME NEW rows \in Seq(Bucket), NEW S \in SUBSET DOMAIN rows
  PROVE  SumAndTop(ByApp(rows, S)).seconds = SecondsOf(rows, S \cap Active(rows))
<1>1. PICK per : per = ByApp(rows, S)
  OBVIOUS
<1>2. SumFunction(per) = SecondsOf(rows, S \cap Active(rows))
  BY <1>1, ByAppIs
<1>3. SumAndTop(per).seconds = SumFunction(per)
  BY DEF SumAndTop
<1> QED
  BY <1>1, <1>2, <1>3

(* The rows of a window. *)
InWindow(w, now, zone) == {r \in Bucket : From(w, now, zone) <= 2 * r.hour /\ 2 * r.hour < now}

LEMMA RowsAre ==
  ASSUME NEW stored \in Seq(Bucket), NEW w \in DOMAIN Days, NEW now \in Int, NEW zone,
         NEW rows, rows = QueryUsage(stored, From(w, now, zone), now)
  PROVE  /\ rows \in Seq(Bucket)
         /\ \A i \in DOMAIN rows : rows[i] \in InWindow(w, now, zone)
         /\ \A i \in DOMAIN rows : \E j \in DOMAIN stored : rows[i] = stored[j]
<1>1. PICK P : P = {r \in ToSet(stored) : From(w, now, zone) <= 2 * r.hour /\ 2 * r.hour < now}
  OBVIOUS
<1>2. rows = Kept(stored, P)
  BY <1>1 DEF QueryUsage
<1>3. rows \in Seq(Bucket) /\ ToSet(rows) = ToSet(stored) \cap P
  BY <1>2, SetOfKept
<1>4. \A i \in DOMAIN rows : rows[i] \in P /\ rows[i] \in Bucket
  <2>1. \A i \in DOMAIN rows : rows[i] \in ToSet(rows)
    BY DEF ToSet
  <2> QED
    BY <1>3, <2>1
<1>5. \A i \in DOMAIN rows : \E j \in DOMAIN stored : rows[i] = stored[j]
  <2>1. \A i \in DOMAIN rows : rows[i] \in ToSet(stored)
    BY <1>3 DEF ToSet
  <2> QED
    BY <2>1 DEF ToSet
<1> QED
  BY <1>1, <1>3, <1>4, <1>5 DEF InWindow

(* The answer u is about these rows, in which the applications have per. *)
Tells(u, rows, per) ==
    /\ u.totals.active = SecondsOf(rows, Active(rows))
    /\ DOMAIN u.totals = {"active", "idle", "locked"}
    /\ u.totals.active \in Nat /\ u.totals.idle \in Nat /\ u.totals.locked \in Nat
    /\ DOMAIN u.apps = DOMAIN RankApps(per)
    /\ \A i \in DOMAIN u.apps : u.apps[i].seconds = per[RankApps(per)[i]]

LEMMA UsageIs ==
  ASSUME NEW stored \in Seq(Bucket), NEW w \in DOMAIN Days, NEW now \in Int, NEW zone,
         NEW rows, rows = QueryUsage(stored, From(w, now, zone), now),
         NEW per, per = ByApp(rows, DOMAIN rows),
         NEW u, u = Usage(stored, w, now, zone)
  PROVE  /\ Tells(u, rows, per)
         /\ w = "today" => u.slots = HourlySlots(rows, zone)
         /\ w # "today" => u.slots = DaySlots(rows, From(w, now, zone), now, zone)
<1> DEFINE total(state) == SecondsOf(rows, {i \in DOMAIN rows : rows[i].state = state})
<1>1. rows \in Seq(Bucket)
  BY RowsAre
<1>2. \A state : total(state) \in Nat
  <2> SUFFICES ASSUME NEW state PROVE total(state) \in Nat
    OBVIOUS
  <2>1. PICK S : S = {i \in DOMAIN rows : rows[i].state = state}
    OBVIOUS
  <2>2. S \in SUBSET DOMAIN rows
    BY <2>1
  <2> QED
    BY <1>1, <2>1, <2>2, SecondsAreNat
<1>3. total("active") = SecondsOf(rows, Active(rows))
  BY DEF Active
<1> HIDE DEF total
<1>4. u = [window |-> w,
           totals |-> [active |-> total("active"), idle |-> total("idle"), locked |-> total("locked")],
           apps |-> [i \in DOMAIN RankApps(per) |->
                        [app |-> RankApps(per)[i], seconds |-> per[RankApps(per)[i]]]],
           slots |-> IF w = "today" THEN HourlySlots(rows, zone)
                     ELSE DaySlots(rows, From(w, now, zone), now, zone)]
  BY DEF Usage, total
<1>5. u.totals = [active |-> total("active"), idle |-> total("idle"), locked |-> total("locked")]
  BY <1>4
<1>6. u.apps = [i \in DOMAIN RankApps(per) |-> [app |-> RankApps(per)[i], seconds |-> per[RankApps(per)[i]]]]
  BY <1>4
<1>7. u.slots = IF w = "today" THEN HourlySlots(rows, zone)
                ELSE DaySlots(rows, From(w, now, zone), now, zone)
  BY <1>4
<1> QED
  BY <1>2, <1>3, <1>5, <1>6, <1>7 DEF Tells

(* The applications have all active seconds. *)
LEMMA AppsAddUp ==
  ASSUME NEW stored \in Seq(Bucket), NEW w \in DOMAIN Days, NEW now \in Int, NEW zone,
         NEW u, u = Usage(stored, w, now, zone)
  PROVE  u.totals.active = Total(u.apps)
<1>1. PICK rows : rows = QueryUsage(stored, From(w, now, zone), now)
  OBVIOUS
<1>2. PICK per : per = ByApp(rows, DOMAIN rows)
  OBVIOUS
<1>3. rows \in Seq(Bucket)
  BY <1>1, RowsAre
<1>4. PICK A : A = DOMAIN per
  OBVIOUS
<1>5. /\ IsFiniteSet(A) /\ A \subseteq Nat /\ per \in [A -> Nat]
      /\ SumFunction(per) = SecondsOf(rows, DOMAIN rows \cap Active(rows))
  <2>1. DOMAIN rows \in SUBSET DOMAIN rows
    OBVIOUS
  <2> QED
    BY <1>2, <1>3, <1>4, <2>1, ByAppIs
<1>6. DOMAIN rows \cap Active(rows) = Active(rows)
  BY DEF Active
<1>7. PICK apps : apps = RankApps(per)
  OBVIOUS
<1>8. Ranked(apps, A, per)
  BY <1>5, <1>7, RankAppsIs
<1>9. PICK n \in Nat : n = Cardinality(A)
  BY <1>5, FS_CardinalityType
<1>10. DOMAIN apps = 1..n
  BY <1>8, <1>9 DEF Ranked
<1>11. Tells(u, rows, per)
  BY <1>1, <1>2, UsageIs
<1>12. u.totals.active = SecondsOf(rows, Active(rows))
  BY <1>11 DEF Tells
<1>13. DOMAIN u.apps = 1..n /\ \A i \in 1..n : u.apps[i].seconds = per[apps[i]]
  BY <1>7, <1>10, <1>11 DEF Tells
<1>14. PICK f : f = [i \in 1..n |-> u.apps[i].seconds]
  OBVIOUS
<1>15. Reads(f, apps, per)
  BY <1>10, <1>13, <1>14 DEF Reads
<1>16. SumFunctionOnSet(f, 1..n) = SumFunctionOnSet(per, A)
  <2>1. IsFiniteSet(A) /\ A \subseteq Nat /\ per \in [A -> Nat]
    BY <1>5
  <2>2. SumFunctionOnSet(f, DOMAIN apps) = SumFunctionOnSet(per, A)
    BY ONLY <1>8, <1>15, <2>1, RankedAddUp
  <2> QED
    BY <1>10, <2>2
<1>17. Total(u.apps) = SumFunctionOnSet(f, 1..n)
  BY <1>13, <1>14 DEF Total, SumAndTop, SumFunction
<1>18. SumFunction(per) = SumFunctionOnSet(per, A)
  BY <1>4 DEF SumFunction
<1> QED
  BY <1>5, <1>6, <1>12, <1>16, <1>17, <1>18

(* The hours share out the rows... *)
LEMMA HoursSlotted ==
  ASSUME NEW rows \in Seq(Bucket), NEW zone \in Clock
  PROVE  \E slot : Slotted(HourlySlots(rows, zone), rows, slot, DayHours)
<1>1. PICK slot : slot = [i \in DOMAIN rows |-> LocalHour(2 * rows[i].hour, zone) + 1]
  OBVIOUS
<1>2. PICK s : s = HourlySlots(rows, zone)
  OBVIOUS
<1>3. DOMAIN s = 1..DayHours
  BY <1>2 DEF HourlySlots
<1>4. ASSUME NEW i \in DOMAIN rows
      PROVE  /\ LocalHour(2 * rows[i].hour, zone) \in 0..(DayHours - 1)
             /\ slot[i] \in 1..DayHours
             /\ slot[i] = LocalHour(2 * rows[i].hour, zone) + 1
  <2>1. PICK t \in Int : t = 2 * rows[i].hour
    BY RowShape
  <2>2. LocalHour(t, zone) \in 0..(DayHours - 1)
    BY LocalDayIs
  <2>3. slot[i] = LocalHour(t, zone) + 1
    BY <1>1, <2>1
  <2> QED
    BY <2>1, <2>2, <2>3, AggregateAssumption
<1>5. ASSUME NEW k \in 1..DayHours
      PROVE  s[k].seconds = SecondsOf(rows, Group(DOMAIN rows, slot, k) \cap Active(rows))
  <2>1. PICK S : S = {i \in DOMAIN rows : LocalHour(2 * rows[i].hour, zone) = k - 1}
    OBVIOUS
  <2>2. S \in SUBSET DOMAIN rows /\ S = Group(DOMAIN rows, slot, k)
    <3>1. \A i \in DOMAIN rows : LocalHour(2 * rows[i].hour, zone) = k - 1 <=> slot[i] = k
      BY <1>4
    <3> QED
      BY <2>1, <3>1 DEF Group
  <2>3. s[k] = SumAndTop(ByApp(rows, S))
    BY <1>2, <2>1 DEF HourlySlots
  <2>4. SumAndTop(ByApp(rows, S)).seconds = SecondsOf(rows, S \cap Active(rows))
    BY <2>2, SlotHolds
  <2> QED
    BY <2>2, <2>3, <2>4
<1>6. Slotted(s, rows, slot, DayHours)
  BY <1>3, <1>4, <1>5 DEF Slotted
<1> QED
  BY <1>2, <1>6

(* ... and so do the days of a window, each with its own. *)
LEMMA DaysSlotted ==
  ASSUME NEW stored \in Seq(Bucket), NEW w \in DOMAIN Days, NEW now \in Int, NEW zone \in Regular,
         NEW rows, rows = QueryUsage(stored, From(w, now, zone), now),
         NEW slots, slots = DaySlots(rows, From(w, now, zone), now, zone),
         NEW L, L = LocalDay(now, zone), NEW F, F = L - (Days[w] - 1),
         NEW n, n = Begun(w, now, zone)
  PROVE  /\ n \in Nat /\ Len(slots) = n /\ \E slot : Slotted(slots, rows, slot, n)
         /\ \A k \in 1..n : \A S \in SUBSET DOMAIN rows :
               (\A i \in DOMAIN rows : i \in S <=> rows[i].state = "active" /\ LocalDay(2 * rows[i].hour, zone) = F + k - 1)
               => slots[k].seconds = SecondsOf(rows, S)
<1>1. L \in Int /\ F \in Int /\ n \in Nat
  BY WindowIs
<1>2. \A t \in Int : From(w, now, zone) <= t /\ t < now => LocalDay(t, zone) \in F..(F + n - 1)
  BY WindowIs
<1>3. rows \in Seq(Bucket) /\ \A i \in DOMAIN rows : rows[i] \in InWindow(w, now, zone)
  BY RowsAre
<1>4. PICK slot : slot = [i \in DOMAIN rows |-> LocalDay(2 * rows[i].hour, zone) - F + 1]
  OBVIOUS
<1>5. PICK cur : cur = Turns(From(w, now, zone), now, zone)
  OBVIOUS
<1>50. (\A k \in 1..n : LocalDay(cur[k - 1], zone) = F + k - 1) /\ Min(Past(cur, now)) = n
  BY <1>5, TurnsAre
<1>51. slots = [k \in 1..n |->
                  SumAndTop(ByApp(rows, {i \in DOMAIN rows : LocalDay(2 * rows[i].hour, zone) = LocalDay(cur[k - 1], zone)}))]
  BY <1>5, <1>50 DEF DaySlots
<1>6. DOMAIN slots = 1..n /\ Len(slots) = n
  BY <1>1, <1>51
<1>7. ASSUME NEW i \in DOMAIN rows
      PROVE  /\ LocalDay(2 * rows[i].hour, zone) \in Int /\ slot[i] \in 1..n
             /\ slot[i] = LocalDay(2 * rows[i].hour, zone) - F + 1
  <2>1. PICK t \in Int : t = 2 * rows[i].hour
    BY <1>3, RowShape
  <2>2. From(w, now, zone) <= t /\ t < now
    BY <1>3, <2>1 DEF InWindow
  <2>3. LocalDay(t, zone) \in F..(F + n - 1)
    BY <1>2, <2>2
  <2>4. slot[i] = LocalDay(t, zone) - F + 1
    BY <1>4, <2>1
  <2> QED
    BY <1>1, <2>1, <2>3, <2>4
<1>8. ASSUME NEW k \in 1..n
      PROVE  slots[k].seconds = SecondsOf(rows, Group(DOMAIN rows, slot, k) \cap Active(rows))
  <2>1. PICK S : S = {i \in DOMAIN rows : LocalDay(2 * rows[i].hour, zone) = F + k - 1}
    OBVIOUS
  <2>2. S \in SUBSET DOMAIN rows /\ S = Group(DOMAIN rows, slot, k)
    <3>2. ASSUME NEW i \in DOMAIN rows
          PROVE  LocalDay(2 * rows[i].hour, zone) = F + k - 1 <=> slot[i] = k
      <4>1. PICK d \in Int : d = LocalDay(2 * rows[i].hour, zone) /\ slot[i] = d - F + 1
        BY <1>7
      <4>2. k \in Int /\ F \in Int
        BY <1>1
      <4>3. d = F + k - 1 <=> d - F + 1 = k
        BY <4>2
      <4>4. d = F + k - 1 <=> slot[i] = k
        BY <4>1, <4>3, Zenon
      <4> QED
        BY <4>1, <4>4
    <3> QED
      BY <2>1, <3>2 DEF Group
  <2>3. slots[k] = SumAndTop(ByApp(rows, S))
    BY <1>50, <1>51, <2>1
  <2>4. SumAndTop(ByApp(rows, S)).seconds = SecondsOf(rows, S \cap Active(rows))
    BY <1>3, <2>2, SlotHolds
  <2> QED
    BY <2>2, <2>3, <2>4
<1>9. Slotted(slots, rows, slot, n)
  BY <1>6, <1>7, <1>8 DEF Slotted
<1>10. ASSUME NEW k \in 1..n, NEW S \in SUBSET DOMAIN rows,
              \A i \in DOMAIN rows : i \in S <=> rows[i].state = "active" /\ LocalDay(2 * rows[i].hour, zone) = F + k - 1
       PROVE  slots[k].seconds = SecondsOf(rows, S)
  <2>1. ASSUME NEW i \in DOMAIN rows
        PROVE  LocalDay(2 * rows[i].hour, zone) = F + k - 1 <=> slot[i] = k
    <3>1. PICK d \in Int : d = LocalDay(2 * rows[i].hour, zone) /\ slot[i] = d - F + 1
      BY <1>7
    <3>2. k \in Int /\ F \in Int
      BY <1>1
    <3>3. d = F + k - 1 <=> d - F + 1 = k
      BY <3>2
    <3>4. d = F + k - 1 <=> slot[i] = k
      BY <3>1, <3>3, Zenon
    <3> QED
      BY <3>1, <3>4
  <2>2. S = Group(DOMAIN rows, slot, k) \cap Active(rows)
    BY <1>10, <2>1 DEF Group, Active
  <2> QED
    BY <1>8, <2>2
<1> QED
  BY <1>1, <1>6, <1>9, <1>10

(* The seconds of some rows, as a sum over all rows. *)
LEMMA SecondsWhere ==
  ASSUME NEW rows \in Seq(Bucket), NEW S \in SUBSET DOMAIN rows,
         NEW g, \A i \in DOMAIN rows : g[i] = IF i \in S THEN rows[i].seconds ELSE 0
  PROVE  SecondsOf(rows, S) = SumFunctionOnSet(g, DOMAIN rows)
<1>1. PICK R : R = DOMAIN rows
  OBVIOUS
<1>2. IsFiniteSet(R) /\ S \in SUBSET R /\ \A i \in S : g[i] = rows[i].seconds /\ g[i] \in Int
  BY <1>1, RowShape
<1>3. \A i \in R \ S : g[i] = 0
  BY <1>1
<1>4. SecondsOf(rows, S) = SumFunctionOnSet(g, S)
  BY <1>2, SecondsOfIs
<1>5. SumFunctionOnSet(g, S) = SumFunctionOnSet(g, R)
  <2>1. \A i \in S : g[i] \in Int /\ g[i] = g[i]
    BY <1>2
  <2> QED
    BY <1>2, <1>3, <2>1, SumWhere
<1> QED
  BY <1>1, <1>4, <1>5

(* The seconds of some rows of a window, as a sum over the stored ones. *)
LEMMA SecondsStored ==
  ASSUME NEW stored \in Seq(Bucket), NEW w \in DOMAIN Days, NEW now \in Int, NEW zone,
         NEW rows, rows = QueryUsage(stored, From(w, now, zone), now),
         NEW f \in [Bucket -> Nat], NEW S \in SUBSET DOMAIN rows,
         \A i \in DOMAIN rows : f[rows[i]] = IF i \in S THEN rows[i].seconds ELSE 0,
         NEW v, v = Weights(stored, InWindow(w, now, zone), f)
  PROVE  SecondsOf(rows, S) = SumFunctionOnSet(v, 1..Len(stored))
<1>1. PICK P : P = {r \in ToSet(stored) : From(w, now, zone) <= 2 * r.hour /\ 2 * r.hour < now}
  OBVIOUS
<1>2. rows = Kept(stored, P) /\ rows \in Seq(Bucket)
  BY <1>1, RowsAre DEF QueryUsage
<1>3. v = Weights(stored, P, f)
  <2>1. \A i \in 1..Len(stored) : stored[i] \in Bucket /\ stored[i] \in ToSet(stored)
    BY DEF ToSet
  <2>2. \A i \in 1..Len(stored) : stored[i] \in InWindow(w, now, zone) <=> stored[i] \in P
    BY <1>1, <2>1 DEF InWindow
  <2> QED
    BY <2>2 DEF Weights
<1>4. PICK g : g = [i \in 1..Len(rows) |-> f[rows[i]]]
  OBVIOUS
<1>5. f \in [Bucket -> Int]
  OBVIOUS
<1>6. SumFunctionOnSet(g, 1..Len(rows)) = SumFunctionOnSet(v, 1..Len(stored))
  <2>1. Weight(rows, f) = SumFunctionOnSet(v, 1..Len(stored))
    BY ONLY <1>2, <1>3, <1>5, stored \in Seq(Bucket), SumOfKept
  <2> QED
    BY <1>4, <2>1 DEF Weight
<1>7. DOMAIN rows = 1..Len(rows)
  BY <1>2, RowShape
<1>8. \A i \in DOMAIN rows : g[i] = IF i \in S THEN rows[i].seconds ELSE 0
  BY <1>4, <1>7
<1>9. SecondsOf(rows, S) = SumFunctionOnSet(g, DOMAIN rows)
  BY <1>2, <1>8, SecondsWhere
<1> QED
  BY <1>6, <1>7, <1>9

(* The slots have all active seconds. *)
LEMMA AllSlotsAddUp ==
  ASSUME NEW stored \in Seq(Bucket), NEW w \in DOMAIN Days, NEW now \in Int, NEW zone \in Regular,
         NEW u, u = Usage(stored, w, now, zone)
  PROVE  /\ u.totals.active = Total(u.slots)
         /\ \E n \in Nat : DOMAIN u.slots = 1..n /\ \A k \in 1..n : u.slots[k].seconds \in Nat
<1>1. PICK rows : rows = QueryUsage(stored, From(w, now, zone), now)
  OBVIOUS
<1>2. PICK per : per = ByApp(rows, DOMAIN rows)
  OBVIOUS
<1>3. rows \in Seq(Bucket)
  BY <1>1, RowsAre
<1>4. /\ Tells(u, rows, per)
      /\ w = "today" => u.slots = HourlySlots(rows, zone)
      /\ w # "today" => u.slots = DaySlots(rows, From(w, now, zone), now, zone)
  BY <1>1, <1>2, UsageIs
<1>5. u.totals.active = SecondsOf(rows, Active(rows))
  BY <1>4 DEF Tells
<1>6. \E n \in Nat : \E slot : Slotted(u.slots, rows, slot, n)
  <2>1. CASE w = "today"
    <3>1. DayHours \in Nat /\ zone \in Clock
      BY AggregateAssumption DEF Regular
    <3>2. \E slot : Slotted(HourlySlots(rows, zone), rows, slot, DayHours)
      BY <1>3, <3>1, HoursSlotted
    <3> QED
      BY <1>4, <2>1, <3>1, <3>2
  <2>2. CASE w # "today"
    <3>1. PICK slots : slots = DaySlots(rows, From(w, now, zone), now, zone)
      OBVIOUS
    <3>2. PICK L, F, n : L = LocalDay(now, zone) /\ F = L - (Days[w] - 1) /\ n = Begun(w, now, zone)
      OBVIOUS
    <3>3. n \in Nat /\ \E slot : Slotted(slots, rows, slot, n)
      BY <1>1, <3>1, <3>2, DaysSlotted
    <3> QED
      BY <1>4, <2>2, <3>1, <3>3
  <2> QED
    BY <2>1, <2>2
<1>7. PICK n \in Nat : \E slot : Slotted(u.slots, rows, slot, n)
  BY <1>6
<1>8. PICK slot : Slotted(u.slots, rows, slot, n)
  BY <1>7
<1>9. PICK slots : slots = u.slots
  OBVIOUS
<1>10. Total(slots) = SecondsOf(rows, Active(rows)) /\ \A k \in 1..n : slots[k].seconds \in Nat
  BY <1>3, <1>8, <1>9, SlotsAddUp
<1>11. DOMAIN slots = 1..n
  BY <1>8, <1>9 DEF Slotted
<1> QED
  BY <1>5, <1>9, <1>10, <1>11

(* The last day of a longer window is today. *)
LEMMA LastDayIsToday ==
  ASSUME NEW stored \in Seq(Bucket), NEW w \in DOMAIN Days \ {"today"}, NEW now \in Int, NEW zone \in Regular,
         StartOfDay(now, zone) # now,
         NEW u, u = Usage(stored, w, now, zone), NEW t, t = Usage(stored, "today", now, zone)
  PROVE  Len(u.slots) = Days[w] /\ Last(u.slots).seconds = t.totals.active
<1>0. w \in DOMAIN Days /\ "today" \in DOMAIN Days
  BY DaysAre
<1>1. PICK L, F, n : L = LocalDay(now, zone) /\ F = L - (Days[w] - 1) /\ n = Begun(w, now, zone)
  OBVIOUS
<1>2. n = Days[w] /\ n \in Nat \ {0} /\ L \in Int /\ F \in Int /\ F + n - 1 = L /\ F <= L
  <2>1. Days[w] \in Nat \ {0}
    BY DaysAre
  <2>2. L \in Int
    BY <1>1, LocalDayIs DEF Regular
  <2> QED
    BY <1>1, <2>1, <2>2 DEF Begun
<1>3. PICK rows : rows = QueryUsage(stored, From(w, now, zone), now)
  OBVIOUS
<1>4. PICK last : last = QueryUsage(stored, From("today", now, zone), now)
  OBVIOUS
<1>5. rows \in Seq(Bucket) /\ last \in Seq(Bucket) /\ \A i \in DOMAIN last : last[i] \in InWindow("today", now, zone)
  BY <1>0, <1>3, <1>4, RowsAre
<1>6. /\ \A m \in Int : m < now => (From(w, now, zone) <= m <=> F <= LocalDay(m, zone))
      /\ \A m \in Int : m < now => (From("today", now, zone) <= m <=> L <= LocalDay(m, zone))
      /\ \A m \in Int : From("today", now, zone) <= m /\ m < now => LocalDay(m, zone) = L
  <2>1. \A m \in Int : m < now => (From(w, now, zone) <= m <=> F <= LocalDay(m, zone))
    BY <1>1, WindowIs
  <2>2. PICK G, b : G = L - (Days["today"] - 1) /\ b = Begun("today", now, zone)
    OBVIOUS
  <2>3. G = L /\ b = 1
    BY <1>2, <2>2, DaysAre DEF Begun
  <2>4. /\ \A m \in Int : From("today", now, zone) <= m /\ m < now => LocalDay(m, zone) \in G..(G + b - 1)
        /\ \A m \in Int : m < now => (From("today", now, zone) <= m <=> G <= LocalDay(m, zone))
    BY <1>0, <1>1, <2>2, WindowIs
  <2>5. \A m \in Int : From("today", now, zone) <= m /\ m < now => LocalDay(m, zone) = L
    BY <1>2, <2>3, <2>4
  <2> QED
    BY <2>1, <2>3, <2>4, <2>5
<1>7. PICK f : f = [r \in Bucket |-> IF r.state = "active" /\ LocalDay(2 * r.hour, zone) = L THEN r.seconds ELSE 0]
  OBVIOUS
<1>8. f \in [Bucket -> Nat]
  <2>1. \A r \in Bucket : r.seconds \in Nat
    BY DEF Bucket
  <2> QED
    BY <1>7, <2>1
<1>9. PICK S : S = {i \in DOMAIN rows : rows[i].state = "active" /\ LocalDay(2 * rows[i].hour, zone) = L}
  OBVIOUS
<1>10. \A i \in DOMAIN rows : f[rows[i]] = IF i \in S THEN rows[i].seconds ELSE 0
  <2>1. \A i \in DOMAIN rows : rows[i] \in Bucket
    BY <1>5, RowShape
  <2> QED
    BY <1>7, <1>9, <2>1
<1>11. \A i \in DOMAIN last : f[last[i]] = IF i \in Active(last) THEN last[i].seconds ELSE 0
  <2> SUFFICES ASSUME NEW i \in DOMAIN last PROVE f[last[i]] = IF i \in Active(last) THEN last[i].seconds ELSE 0
    OBVIOUS
  <2>1. last[i] \in Bucket
    BY <1>5, RowShape
  <2>2. PICK m \in Int : m = 2 * last[i].hour
    BY <2>1 DEF Bucket
  <2>3. From("today", now, zone) <= m /\ m < now
    BY <1>5, <2>2 DEF InWindow
  <2>4. LocalDay(2 * last[i].hour, zone) = L
    BY <1>6, <2>2, <2>3
  <2>5. i \in Active(last) <=> last[i].state = "active"
    BY DEF Active
  <2> QED
    BY <1>7, <2>1, <2>4, <2>5
<1>12. PICK v : v = Weights(stored, InWindow(w, now, zone), f)
  OBVIOUS
<1>13. v = Weights(stored, InWindow("today", now, zone), f)
  <2>1. ASSUME NEW i \in 1..Len(stored)
        PROVE  (IF stored[i] \in InWindow(w, now, zone) THEN f[stored[i]] ELSE 0)
                 = (IF stored[i] \in InWindow("today", now, zone) THEN f[stored[i]] ELSE 0)
    <3>1. PICK r \in Bucket : r = stored[i]
      OBVIOUS
    <3>2. PICK m \in Int : m = 2 * r.hour
      BY DEF Bucket
    <3>3. LocalDay(m, zone) # L => f[r] = 0
      BY <1>7, <3>2
    <3>4. ASSUME LocalDay(m, zone) = L
          PROVE  r \in InWindow(w, now, zone) <=> r \in InWindow("today", now, zone)
      <4>1. m < now => From(w, now, zone) <= m /\ From("today", now, zone) <= m
        BY <1>2, <1>6, <3>4
      <4> QED
        BY <3>2, <4>1 DEF InWindow
    <3> QED
      BY <3>1, <3>3, <3>4
  <2> QED
    BY <1>12, <2>1 DEF Weights
<1>14. S \in SUBSET DOMAIN rows /\ Active(last) \in SUBSET DOMAIN last
  BY <1>9 DEF Active
<1>15. SecondsOf(rows, S) = SumFunctionOnSet(v, 1..Len(stored))
  BY <1>0, <1>3, <1>8, <1>10, <1>12, <1>14, SecondsStored
<1>16. SecondsOf(last, Active(last)) = SumFunctionOnSet(v, 1..Len(stored))
  BY <1>0, <1>4, <1>8, <1>11, <1>13, <1>14, SecondsStored, SMTT(30)
<1>17. PICK slots : slots = DaySlots(rows, From(w, now, zone), now, zone)
  OBVIOUS
<1>18. /\ Len(slots) = n
       /\ \A k \in 1..n : \A T \in SUBSET DOMAIN rows :
             (\A i \in DOMAIN rows : i \in T <=> rows[i].state = "active" /\ LocalDay(2 * rows[i].hour, zone) = F + k - 1)
             => slots[k].seconds = SecondsOf(rows, T)
  BY <1>0, <1>1, <1>3, <1>17, DaysSlotted
<1>19. slots[n].seconds = SecondsOf(rows, S)
  <2>1. n \in 1..n
    BY <1>2
  <2>2. \A i \in DOMAIN rows : i \in S <=> rows[i].state = "active" /\ LocalDay(2 * rows[i].hour, zone) = F + n - 1
    BY <1>2, <1>9
  <2> QED
    BY <1>14, <1>18, <2>1, <2>2
<1>20. u.slots = slots
  BY <1>0, <1>3, <1>17, UsageIs
<1>21. t.totals.active = SecondsOf(last, Active(last))
  <2>1. PICK per : per = ByApp(last, DOMAIN last)
    OBVIOUS
  <2>2. Tells(t, last, per)
    BY <1>0, <1>4, <2>1, UsageIs
  <2> QED
    BY <2>2 DEF Tells
<1> QED
  BY <1>2, <1>15, <1>16, <1>18, <1>19, <1>20, <1>21 DEF Last

(* Whatever is stored, whatever the time, in any zone whose clock changes    *)
(* once, or never, and over no midnight: the loop over days ends, the total, *)
(* the applications and the slots of an answer are the same seconds, and the *)
(* last day of the longer windows is what the window of today holds          *)
(* (aggregateDevice, hourlySlots and daySlots in aggregate.go).              *)
THEOREM AnyBooksAgree ==
  \A stored \in Seq(Bucket), zone \in Regular, now \in Int : Agree(stored, zone, now)
<1> SUFFICES ASSUME NEW stored \in Seq(Bucket), NEW zone \in Regular, NEW now \in Int
             PROVE  Agree(stored, zone, now)
  OBVIOUS
<1>1. PICK usage : usage = [w \in DOMAIN Days |-> Usage(stored, w, now, zone)]
  OBVIOUS
<1>2. ASSUME NEW w \in DOMAIN Days
      PROVE  usage[w].totals.active = Total(usage[w].apps) /\ usage[w].totals.active = Total(usage[w].slots)
  <2>1. PICK u : u = Usage(stored, w, now, zone)
    OBVIOUS
  <2>2. u.totals.active = Total(u.apps)
    BY <2>1, AppsAddUp
  <2>3. u.totals.active = Total(u.slots)
    BY <2>1, AllSlotsAddUp
  <2> QED
    BY <1>1, <2>1, <2>2, <2>3
<1>3. ASSUME NEW w \in DOMAIN Days \ {"today"}, StartOfDay(now, zone) # now
      PROVE  Len(usage[w].slots) = Days[w] /\ Last(usage[w].slots).seconds = usage["today"].totals.active
  <2>1. PICK u, t : u = Usage(stored, w, now, zone) /\ t = Usage(stored, "today", now, zone)
    OBVIOUS
  <2>2. Len(u.slots) = Days[w] /\ Last(u.slots).seconds = t.totals.active
    BY <1>3, <2>1, LastDayIsToday
  <2>3. usage[w] = u /\ usage["today"] = t
    BY <1>1, <2>1, DaysAre
  <2> QED
    BY <2>2, <2>3
<1>4. ASSUME NEW w \in DOMAIN Days
      PROVE  Past(Turns(From(w, now, zone), now, zone), now) # {}
  <2>1. PICK L, F, n, cur : /\ L = LocalDay(now, zone) /\ F = L - (Days[w] - 1)
                            /\ n = Begun(w, now, zone) /\ cur = Turns(From(w, now, zone), now, zone)
    OBVIOUS
  <2> QED
    BY <2>1, TurnsAre
<1> QED
  BY <1>1, <1>2, <1>3, <1>4, Zenon DEF Agree

LEMMA BoundedAreBuckets == BoundedSeq(Buckets, 2) \subseteq Seq(Bucket)
<1>1. Buckets \subseteq Bucket
  BY DEF Buckets, Bucket
<1>2. SUFFICES ASSUME NEW rows \in BoundedSeq(Buckets, 2) PROVE rows \in Seq(Bucket)
  OBVIOUS
<1>3. PICK m \in 0..2 : rows \in [1..m -> Buckets]
  BY DEF BoundedSeq, SeqOf
<1>4. m \in Nat /\ rows \in [1..m -> Bucket]
  BY <1>1, <1>3
<1> QED
  BY <1>4, FunctionIsSeq

(* So it is for the buckets, zones and times of the run (Aggregate).         *)
THEOREM UsageBooksAgree == Spec => []BooksAgree
<1>1. Zones \subseteq Regular /\ Nows \subseteq Int
  BY DEF Zones, Nows, Regular, Clock
<1>2. BooksAgree
  <2> SUFFICES ASSUME NEW rows \in BoundedSeq(Buckets, 2), NEW zone \in Zones, NEW now \in Nows
               PROVE  Agree(rows, zone, now)
    BY DEF BooksAgree
  <2>1. rows \in Seq(Bucket) /\ zone \in Regular /\ now \in Int
    BY <1>1, BoundedAreBuckets
  <2> QED
    BY <2>1, AnyBooksAgree
<1> QED
  BY <1>2, PTL

-----------------------------------------------------------------------------
(* What is drawn                                                             *)

(* A share is a quotient, and all of it only for all of the total. *)
LEMMA ShareIs ==
  ASSUME NEW v \in Nat, NEW t \in Nat, NEW q, q = sharePercent(v, t)
  PROVE  /\ q \in 0..100
         /\ q * t <= 100 * v
         /\ v = t /\ t > 0 => q = 100
<1>1. CASE t <= 0 \/ v <= 0
  BY <1>1 DEF sharePercent
<1>2. CASE t > 0 /\ v > 0
  <2>1. PICK d : d = (v * 100) \div t
    OBVIOUS
  <2>2. d \in Nat /\ d * t <= v * 100 /\ v * 100 < d * t + t
    <3>1. PICK s \in Nat : s = v * 100
      OBVIOUS
    <3> QED
      BY <1>2, <2>1, <3>1, Quotient
  <2>3. q = Min({100, d})
    BY <1>2, <2>1 DEF sharePercent
  <2>4. q = IF 100 <= d THEN 100 ELSE d
    <3>1. \E x \in {100, d} : \A y \in {100, d} : x <= y
      BY <2>2
    <3>2. q \in {100, d} /\ \A y \in {100, d} : q <= y
      BY <2>3, <3>1 DEF Min
    <3> QED
      BY <2>2, <3>2
  <2>5. 100 <= d => 100 * t <= d * t
    BY <2>2, Products
  <2>6. v = t => d = 100
    <3> SUFFICES ASSUME v = t PROVE d = 100
      OBVIOUS
    <3>1. d < 100 => d * t + t <= 100 * t
      BY <1>2, <2>2, Products
    <3>2. 100 < d => 100 * t + t <= d * t
      BY <1>2, <2>2, Products
    <3> QED
      BY <1>2, <2>2, <3>1, <3>2
  <2> QED
    BY <2>2, <2>4, <2>5, <2>6
<1> QED
  BY <1>1, <1>2

(* More seconds have no smaller share. *)
LEMMA ShareGrows ==
  ASSUME NEW v \in Nat, NEW w \in Nat, v <= w, NEW t \in Nat
  PROVE  sharePercent(v, t) <= sharePercent(w, t)
<1>1. sharePercent(v, t) \in 0..100 /\ sharePercent(w, t) \in 0..100
  BY ShareIs
<1>2. CASE t <= 0 \/ v <= 0
  <2>1. sharePercent(v, t) = 0
    BY <1>2 DEF sharePercent
  <2> QED
    BY <1>1, <2>1
<1>3. CASE t > 0 /\ v > 0
  <2>1. PICK d : d = (v * 100) \div t
    OBVIOUS
  <2>2. PICK e : e = (w * 100) \div t
    OBVIOUS
  <2>3. PICK a \in Nat : a = v * 100
    OBVIOUS
  <2>4. PICK b \in Nat : b = w * 100
    OBVIOUS
  <2>5. d \in Nat /\ e \in Nat /\ d * t <= a /\ b < e * t + t /\ a <= b
    BY <1>3, <2>1, <2>2, <2>3, <2>4, Quotient
  <2>6. d <= e
    <3>1. e < d => e * t + t <= d * t
      BY <1>3, <2>5, Products
    <3> QED
      BY <2>5, <3>1
  <2>7. sharePercent(v, t) = Min({100, d}) /\ sharePercent(w, t) = Min({100, e})
    BY <1>3, <2>1, <2>2 DEF sharePercent
  <2>8. \A x \in Nat : Min({100, x}) = IF 100 <= x THEN 100 ELSE x
    <3> SUFFICES ASSUME NEW x \in Nat PROVE Min({100, x}) = IF 100 <= x THEN 100 ELSE x
      OBVIOUS
    <3>1. \E y \in {100, x} : \A z \in {100, x} : y <= z
      OBVIOUS
    <3>2. Min({100, x}) \in {100, x} /\ \A z \in {100, x} : Min({100, x}) <= z
      BY <3>1 DEF Min
    <3> QED
      BY <3>2
  <2> QED
    BY <2>5, <2>6, <2>7, <2>8
<1> QED
  BY <1>2, <1>3

(* The greatest of some seconds. *)
LEMMA MaxSecondsIs ==
  ASSUME NEW n \in Nat, NEW items, DOMAIN items = 1..n, \A i \in 1..n : items[i].seconds \in Nat,
         NEW m, m = maxSeconds(items)
  PROVE  /\ m \in Nat /\ \A i \in 1..n : items[i].seconds <= m
         /\ m > 0 => \E i \in 1..n : items[i].seconds = m
<1>1. PICK f : f = [i \in 1..n |-> items[i].seconds]
  OBVIOUS
<1>2. PICK V : V = {f[i] : i \in 1..n}
  OBVIOUS
<1>3. IsFiniteSet(V)
  <2>1. PICK R : R = 1..n
    OBVIOUS
  <2>2. IsFiniteSet(R) /\ V = {f[i] : i \in R}
    BY <1>2, <2>1, FS_Interval
  <2> QED
    BY <2>2, ImageFinite
<1>4. PICK W : W = {0} \cup V
  OBVIOUS
<1>5. IsFiniteSet(W) /\ W \subseteq Nat /\ W # {} /\ W \subseteq Int
  <2>1. IsFiniteSet({0})
    BY FS_Singleton
  <2>2. IsFiniteSet(W)
    BY <1>3, <1>4, <2>1, FS_Union
  <2>3. \A v \in V : v \in Nat
    BY <1>1, <1>2
  <2> QED
    BY <1>4, <2>2, <2>3
<1>6. \E x \in W : \A y \in W : x >= y
  BY <1>5, GreatestThere
<1>7. m = Max(W)
  <2>1. {items[i].seconds : i \in 1..n} = V
    BY <1>1, <1>2
  <2> QED
    BY <1>4, <2>1 DEF maxSeconds
<1>8. m \in W /\ \A y \in W : m >= y
  BY <1>6, <1>7 DEF Max
<1>9. \A i \in 1..n : items[i].seconds \in W
  BY <1>1, <1>2, <1>4
<1>10. \A i \in 1..n : items[i].seconds <= m
  BY <1>5, <1>8, <1>9
<1>11. m > 0 => \E i \in 1..n : items[i].seconds = m
  BY <1>1, <1>2, <1>4, <1>8
<1> QED
  BY <1>5, <1>8, <1>10, <1>11

(* The applications of an answer: each has seconds, and none more than the   *)
(* one before it.                                                            *)
LEMMA AppsAreRanked ==
  ASSUME NEW stored \in Seq(Bucket), \A i \in DOMAIN stored : stored[i].seconds > 0,
         NEW w \in DOMAIN Days, NEW now \in Int, NEW zone,
         NEW u, u = Usage(stored, w, now, zone)
  PROVE  \E n \in Nat : /\ DOMAIN u.apps = 1..n
                        /\ \A i \in 1..n : u.apps[i].seconds \in Nat /\ u.apps[i].seconds > 0
                        /\ \A i, j \in 1..n : i < j => u.apps[i].seconds >= u.apps[j].seconds
<1>1. PICK rows : rows = QueryUsage(stored, From(w, now, zone), now)
  OBVIOUS
<1>2. PICK per : per = ByApp(rows, DOMAIN rows)
  OBVIOUS
<1>3. rows \in Seq(Bucket) /\ \A i \in DOMAIN rows : \E j \in DOMAIN stored : rows[i] = stored[j]
  BY <1>1, RowsAre
<1>4. \A i \in DOMAIN rows : rows[i].seconds > 0
  BY <1>3
<1>5. PICK A : A = DOMAIN per
  OBVIOUS
<1>6. IsFiniteSet(A) /\ A \subseteq Nat /\ per \in [A -> Nat] /\ \A a \in A : per[a] > 0
  <2>1. DOMAIN rows \in SUBSET DOMAIN rows
    OBVIOUS
  <2> QED
    BY <1>2, <1>3, <1>4, <1>5, <2>1, ByAppIs
<1>7. PICK apps : apps = RankApps(per)
  OBVIOUS
<1>8. Ranked(apps, A, per)
  BY <1>6, <1>7, RankAppsIs
<1>9. PICK n \in Nat : n = Cardinality(A)
  BY <1>6, FS_CardinalityType
<1>10. /\ apps \in [1..n -> A]
       /\ \A i, j \in 1..n : i < j => Ahead(per, apps[i], apps[j])
  BY <1>8, <1>9 DEF Ranked
<1>11. Tells(u, rows, per)
  BY <1>1, <1>2, UsageIs
<1>12. DOMAIN u.apps = 1..n /\ \A i \in 1..n : u.apps[i].seconds = per[apps[i]]
  BY <1>7, <1>10, <1>11 DEF Tells
<1>13. \A i \in 1..n : apps[i] \in A
  BY <1>10
<1>14. \A a \in A : per[a] \in Nat /\ per[a] > 0
  BY <1>6
<1>15. \A i \in 1..n : per[apps[i]] \in Nat /\ per[apps[i]] > 0
  BY <1>13, <1>14, Zenon
<1>16. ASSUME NEW i \in 1..n, NEW j \in 1..n, i < j PROVE per[apps[i]] >= per[apps[j]]
  <2>1. Ahead(per, apps[i], apps[j])
    BY <1>10, <1>16
  <2> QED
    BY <1>15, <2>1 DEF Ahead
<1> QED
  BY <1>12, <1>15, <1>16

(* Parts of a whole fill at most all of it. *)
LEMMA SharesFit ==
  ASSUME NEW x \in Nat, NEW y \in Nat, NEW z \in Nat, NEW t, t = x + y + z
  PROVE  sharePercent(x, t) + sharePercent(y, t) + sharePercent(z, t) <= 100
<1>0. t \in Nat
  OBVIOUS
<1> DEFINE Share(v) == sharePercent(v, t)
<1>1. \A v \in Nat : Share(v) \in 0..100 /\ Share(v) * t <= 100 * v
  BY <1>0, ShareIs
<1> HIDE DEF Share
<1>2. PICK p \in 0..100 : p = Share(x) /\ p * t <= 100 * x
  BY <1>1
<1>3. PICK q \in 0..100 : q = Share(y) /\ q * t <= 100 * y
  BY <1>1
<1>4. PICK r \in 0..100 : r = Share(z) /\ r * t <= 100 * z
  BY <1>1
<1>5. CASE t = 0
  BY <1>5 DEF sharePercent
<1>6. CASE t > 0
  <2>1. PICK s \in Nat : s = p + q + r
    OBVIOUS
  <2>2. s * t = p * t + q * t + r * t
    BY <2>1
  <2>3. p * t \in Int /\ q * t \in Int /\ r * t \in Int /\ s * t \in Int
    OBVIOUS
  <2>4. s * t <= 100 * t
    BY <1>2, <1>3, <1>4, <2>2, <2>3
  <2>5. 100 < s => 100 * t + t <= s * t
    BY <1>6, Products
  <2>6. s <= 100
    BY <1>6, <2>3, <2>4, <2>5
  <2> QED
    BY <1>2, <1>3, <1>4, <2>1, <2>6 DEF Share
<1> QED
  BY <1>5, <1>6

(* The first of a ranking fills its bar, and the bars shrink. *)
LEMMA AppBarsFit ==
  ASSUME NEW n \in Nat, NEW apps, DOMAIN apps = 1..n,
         \A i \in 1..n : apps[i].seconds \in Nat /\ apps[i].seconds > 0,
         \A i, j \in 1..n : i < j => apps[i].seconds >= apps[j].seconds,
         NEW bars, bars = AppBars(apps)
  PROVE  /\ \A i \in DOMAIN bars : i = 1 => bars[i] = 100
         /\ \A i, j \in DOMAIN bars : i < j => bars[i] >= bars[j]
<1>1. PICK m : m = maxSeconds(apps)
  OBVIOUS
<1>2. \A i \in 1..n : apps[i].seconds \in Nat
  OBVIOUS
<1>3. /\ m \in Nat /\ \A i \in 1..n : apps[i].seconds <= m
      /\ m > 0 => \E i \in 1..n : apps[i].seconds = m
  BY <1>1, <1>2, MaxSecondsIs
<1>4. DOMAIN bars = 1..n /\ \A i \in 1..n : bars[i] = sharePercent(apps[i].seconds, m)
  BY <1>1 DEF AppBars
<1>5. ASSUME 1 \in 1..n PROVE bars[1] = 100
  <2>1. PICK v \in Nat : v = apps[1].seconds
    BY <1>2, <1>5
  <2>2. v > 0 /\ v <= m
    BY <1>3, <1>5, <2>1
  <2>3. PICK i \in 1..n : apps[i].seconds = m
    BY <1>3, <2>2
  <2>4. v >= m
    BY <1>3, <1>5, <2>1, <2>3
  <2>5. v = m
    BY <1>3, <2>2, <2>4
  <2>6. sharePercent(v, m) = 100
    BY <1>3, <2>2, <2>5, ShareIs
  <2> QED
    BY <1>4, <1>5, <2>1, <2>6
<1>6. ASSUME NEW i \in 1..n, NEW j \in 1..n, i < j PROVE bars[i] >= bars[j]
  <2>1. PICK v \in Nat : v = apps[i].seconds
    BY <1>2
  <2>2. PICK x \in Nat : x = apps[j].seconds
    BY <1>2
  <2>3. x <= v
    BY <1>6, <2>1, <2>2
  <2>4. sharePercent(x, m) <= sharePercent(v, m)
    BY <1>3, <2>3, ShareGrows
  <2>5. sharePercent(x, m) \in 0..100 /\ sharePercent(v, m) \in 0..100
    BY <1>3, ShareIs
  <2> QED
    BY <1>4, <2>1, <2>2, <2>4, <2>5
<1> QED
  BY <1>4, <1>5, <1>6

(* A bar of the chart can be seen if and only if its slot is active, a bar   *)
(* of no fewer seconds is as high, and one fills the chart.                  *)
LEMMA ChartBarsFit ==
  ASSUME NEW n \in Nat, NEW slots, DOMAIN slots = 1..n, \A i \in 1..n : slots[i].seconds \in Nat,
         NEW chart, chart = ChartBars(slots)
  PROVE  /\ DOMAIN chart = 1..n
         /\ \A i, j \in 1..n : /\ slots[i].seconds <= slots[j].seconds => chart[i] <= chart[j]
                               /\ chart[i] > 0 <=> slots[i].seconds > 0
         /\ (\E i \in 1..n : slots[i].seconds > 0) => \E i \in 1..n : chart[i] = 100
<1>1. PICK m : m = maxSeconds(slots)
  OBVIOUS
<1>2. /\ m \in Nat /\ \A i \in 1..n : slots[i].seconds <= m
      /\ m > 0 => \E i \in 1..n : slots[i].seconds = m
  BY <1>1, MaxSecondsIs
<1> DEFINE High(v) == IF sharePercent(v, m) >= 4 THEN sharePercent(v, m) ELSE 4
<1>3. \A v \in Nat : Max({sharePercent(v, m), 4}) = High(v) /\ sharePercent(v, m) \in 0..100
  <2> SUFFICES ASSUME NEW v \in Nat
               PROVE  Max({sharePercent(v, m), 4}) = High(v) /\ sharePercent(v, m) \in 0..100
    OBVIOUS
  <2>1. PICK q \in 0..100 : q = sharePercent(v, m)
    BY <1>2, ShareIs
  <2>2. \E x \in {q, 4} : \A y \in {q, 4} : x >= y
    <3>1. CASE q >= 4
      BY <3>1
    <3>2. CASE ~(q >= 4)
      BY <3>2
    <3> QED
      BY <3>1, <3>2
  <2>3. Max({q, 4}) \in {q, 4} /\ \A y \in {q, 4} : Max({q, 4}) >= y
    BY <2>2 DEF Max
  <2>4. Max({q, 4}) = IF q >= 4 THEN q ELSE 4
    BY <2>3
  <2> QED
    BY <2>1, <2>4
<1>4. /\ DOMAIN chart = 1..n
      /\ \A i \in 1..n : chart[i] = IF slots[i].seconds > 0 THEN High(slots[i].seconds) ELSE 0
  <2>1. DOMAIN chart = 1..n
    BY DEF ChartBars
  <2>2. ASSUME NEW i \in 1..n
        PROVE  chart[i] = IF slots[i].seconds > 0 THEN High(slots[i].seconds) ELSE 0
    <3>1. PICK v \in Nat : v = slots[i].seconds
      OBVIOUS
    <3>2. chart[i] = IF v > 0 THEN Max({sharePercent(v, m), 4}) ELSE 0
      BY <1>1, <3>1 DEF ChartBars, MinVisiblePercent
    <3>3. Max({sharePercent(v, m), 4}) = High(v)
      BY <1>3
    <3> HIDE DEF High
    <3> QED
      BY <3>1, <3>2, <3>3
  <2> QED
    BY <2>1, <2>2
<1>5. ASSUME NEW v \in Nat PROVE High(v) \in 4..100
  <2>1. PICK q \in 0..100 : q = sharePercent(v, m)
    BY <1>2, ShareIs
  <2>2. High(v) = IF q >= 4 THEN q ELSE 4
    BY <2>1
  <2> HIDE DEF High
  <2> QED
    BY <2>2
<1>6. ASSUME NEW v \in Nat, NEW x \in Nat, v <= x PROVE High(v) <= High(x)
  <2>1. sharePercent(v, m) <= sharePercent(x, m)
    BY <1>2, <1>6, ShareGrows
  <2>2. PICK q \in 0..100 : q = sharePercent(v, m)
    BY <1>2, ShareIs
  <2>3. PICK r \in 0..100 : r = sharePercent(x, m)
    BY <1>2, ShareIs
  <2> QED
    BY <2>1, <2>2, <2>3
<1>7. m > 0 => High(m) = 100
  <2>1. m > 0 => sharePercent(m, m) = 100
    BY <1>2, ShareIs
  <2> QED
    BY <2>1
<1> HIDE DEF High
<1>8. ASSUME NEW i \in 1..n, NEW j \in 1..n
      PROVE  /\ slots[i].seconds <= slots[j].seconds => chart[i] <= chart[j]
             /\ chart[i] > 0 <=> slots[i].seconds > 0
  <2>1. PICK v \in Nat : v = slots[i].seconds
    OBVIOUS
  <2>2. PICK x \in Nat : x = slots[j].seconds
    OBVIOUS
  <2>3. /\ chart[i] = IF v > 0 THEN High(v) ELSE 0
        /\ chart[j] = IF x > 0 THEN High(x) ELSE 0
    BY <1>4, <2>1, <2>2
  <2>4. PICK a \in 4..100 : a = High(v)
    BY <1>5
  <2>5. PICK b \in 4..100 : b = High(x)
    BY <1>5
  <2>6. v <= x => a <= b
    BY <1>6, <2>4, <2>5
  <2>7. chart[i] = (IF v > 0 THEN a ELSE 0) /\ chart[j] = (IF x > 0 THEN b ELSE 0)
    BY <2>3, <2>4, <2>5
  <2> QED
    BY <2>1, <2>2, <2>6, <2>7
<1>9. ASSUME NEW k \in 1..n, slots[k].seconds > 0 PROVE \E i \in 1..n : chart[i] = 100
  <2>1. m > 0
    BY <1>2, <1>9
  <2>2. PICK i \in 1..n : slots[i].seconds = m
    BY <1>2, <2>1
  <2>3. chart[i] = High(m)
    BY <1>4, <2>1, <2>2
  <2> QED
    BY <1>7, <2>1, <2>3
<1> QED
  BY <1>4, <1>8, <1>9

LEMMA TotalsFit ==
  ASSUME NEW totals, DOMAIN totals = {"active", "idle", "locked"},
         totals.active \in Nat, totals.idle \in Nat, totals.locked \in Nat,
         NEW bar, bar = TotalsBar(totals)
  PROVE  bar.active + bar.idle + bar.locked <= 100
<1>1. PICK x \in Nat, y \in Nat, z \in Nat : x = totals.active /\ y = totals.idle /\ z = totals.locked
  OBVIOUS
<1>2. PICK t : t = x + y + z
  OBVIOUS
<1>3. bar = [k \in {"active", "idle", "locked"} |-> sharePercent(totals[k], t)]
  BY <1>1, <1>2, Zenon DEF TotalsBar
<1>4. bar.active = sharePercent(x, t) /\ bar.idle = sharePercent(y, t) /\ bar.locked = sharePercent(z, t)
  BY <1>1, <1>3
<1>5. sharePercent(x, t) + sharePercent(y, t) + sharePercent(z, t) <= 100
  BY <1>2, SharesFit
<1> QED
  BY <1>4, <1>5

(* Slots that add up to something are not all empty. *)
LEMMA SomeSlot ==
  ASSUME NEW n \in Nat, NEW slots, DOMAIN slots = 1..n, \A k \in 1..n : slots[k].seconds \in Nat,
         Total(slots) > 0
  PROVE  \E k \in 1..n : slots[k].seconds > 0
<1> SUFFICES ASSUME \A k \in 1..n : ~(slots[k].seconds > 0) PROVE FALSE
  OBVIOUS
<1>1. PICK g : g = [k \in 1..n |-> slots[k].seconds]
  OBVIOUS
<1>2. PICK R : R = 1..n
  OBVIOUS
<1>3. IsFiniteSet(R) /\ \A k \in R : g[k] = 0
  <2>1. IsFiniteSet(R)
    BY <1>2, FS_Interval
  <2>2. ASSUME NEW k \in R PROVE g[k] = 0
    <3>1. slots[k].seconds \in Nat /\ ~(slots[k].seconds > 0) /\ g[k] = slots[k].seconds
      BY <1>1, <1>2
    <3> QED
      BY <3>1
  <2> QED
    BY <2>1, <2>2
<1>4. SumFunctionOnSet(g, R) = 0
  BY <1>3, SumOfZeros
<1>5. Total(slots) = SumFunctionOnSet(g, R)
  BY <1>1, <1>2 DEF Total, SumAndTop, SumFunction
<1> QED
  BY <1>4, <1>5

(* Whatever is stored, and whatever is asked for at whatever time and in     *)
(* such a zone: what is drawn of the answer fits and tells who is ahead      *)
(* (sharePercent, maxSeconds and the bars of UsageTotals, UsageAppList and   *)
(* UsageChart).  No bucket is empty: usage.Attribute makes none that is.     *)
THEOREM AnyBarsFit ==
  \A stored \in Seq(Bucket), w \in DOMAIN Days, now \in Int, zone \in Regular :
     (\A i \in DOMAIN stored : stored[i].seconds > 0) => Fit(Usage(stored, w, now, zone))
<1> SUFFICES ASSUME NEW stored \in Seq(Bucket), NEW w \in DOMAIN Days, NEW now \in Int, NEW zone \in Regular,
                    \A i \in DOMAIN stored : stored[i].seconds > 0
             PROVE  Fit(Usage(stored, w, now, zone))
  OBVIOUS
<1>1. PICK u : u = Usage(stored, w, now, zone)
  OBVIOUS
<1>2. PICK totals, bars, chart : totals = TotalsBar(u.totals) /\ bars = AppBars(u.apps) /\ chart = ChartBars(u.slots)
  OBVIOUS
<1>3. PICK rows, per : rows = QueryUsage(stored, From(w, now, zone), now) /\ per = ByApp(rows, DOMAIN rows)
  OBVIOUS
<1>4. Tells(u, rows, per)
  BY <1>1, <1>3, UsageIs
<1>5. totals.active + totals.idle + totals.locked <= 100
  <2>1. PICK t : t = u.totals
    OBVIOUS
  <2>2. DOMAIN t = {"active", "idle", "locked"} /\ t.active \in Nat /\ t.idle \in Nat /\ t.locked \in Nat
    BY <1>4, <2>1 DEF Tells
  <2> QED
    BY <1>2, <2>1, <2>2, TotalsFit
<1>6. /\ \A i \in DOMAIN bars : i = 1 => bars[i] = 100
      /\ \A i, j \in DOMAIN bars : i < j => bars[i] >= bars[j]
  <2>1. PICK apps : apps = u.apps
    OBVIOUS
  <2>2. PICK n \in Nat : /\ DOMAIN apps = 1..n
                         /\ \A i \in 1..n : apps[i].seconds \in Nat /\ apps[i].seconds > 0
                         /\ \A i, j \in 1..n : i < j => apps[i].seconds >= apps[j].seconds
    BY <1>1, <2>1, AppsAreRanked
  <2> QED
    BY <1>2, <2>1, <2>2, AppBarsFit
<1>7. PICK slots : slots = u.slots
  OBVIOUS
<1>8. u.totals.active = Total(slots)
  BY <1>1, <1>7, AllSlotsAddUp
<1>9. PICK n \in Nat : DOMAIN slots = 1..n /\ \A k \in 1..n : slots[k].seconds \in Nat
  BY <1>1, <1>7, AllSlotsAddUp
<1>10. /\ DOMAIN chart = 1..n
       /\ \A i, j \in 1..n : /\ slots[i].seconds <= slots[j].seconds => chart[i] <= chart[j]
                             /\ chart[i] > 0 <=> slots[i].seconds > 0
       /\ (\E i \in 1..n : slots[i].seconds > 0) => \E i \in 1..n : chart[i] = 100
  BY <1>2, <1>7, <1>9, ChartBarsFit
<1>11. u.totals.active > 0 => \E i \in DOMAIN chart : chart[i] = 100
  <2>1. u.totals.active > 0 => \E k \in 1..n : slots[k].seconds > 0
    BY <1>8, <1>9, SomeSlot
  <2> QED
    BY <1>10, <2>1
<1>12. \A i, j \in DOMAIN chart : /\ u.slots[i].seconds <= u.slots[j].seconds => chart[i] <= chart[j]
                                  /\ chart[i] > 0 <=> u.slots[i].seconds > 0
  <2>1. \A i, j \in DOMAIN chart : /\ slots[i].seconds <= slots[j].seconds => chart[i] <= chart[j]
                                   /\ chart[i] > 0 <=> slots[i].seconds > 0
    BY <1>10
  <2> QED
    BY <1>7, <2>1
<1>13. Fit(u)
  BY <1>2, <1>5, <1>6, <1>11, <1>12, Zenon DEF Fit
<1> QED
  BY <1>1, <1>13

(* So it is for the buckets of the run (the bars of the usage tab).          *)
THEOREM UsageBarsFit == Spec => []BarsFit
<1>1. BarsFit
  <2> SUFFICES ASSUME NEW rows \in BoundedSeq(Buckets, 2), NEW w \in {"today", "week"},
                      NEW zone \in Zones, NEW now \in Nows
               PROVE  Fit(Usage(rows, w, now, zone))
    BY DEF BarsFit
  <2>1. rows \in Seq(Bucket)
    BY BoundedAreBuckets
  <2>2. \A i \in DOMAIN rows : rows[i].seconds > 0
    <3>1. PICK m \in 0..2 : rows \in [1..m -> Buckets]
      BY DEF BoundedSeq, SeqOf
    <3>2. \A b \in Buckets : b.seconds > 0
      BY DEF Buckets
    <3> QED
      BY <3>1, <3>2
  <2>3. w \in DOMAIN Days /\ now \in Int /\ zone \in Regular
    BY DaysAre DEF Nows, Zones, Regular, Clock
  <2> QED
    BY <2>1, <2>2, <2>3, AnyBarsFit
<1> QED
  BY <1>1, PTL

-----------------------------------------------------------------------------
(* The guards of the page, field by field                                    *)

(* What an object is to an interface: every field is there, each of a kind the *)
(* interface allows.                                                           *)
Fits(b, type) == DOMAIN b = DOMAIN type /\ \A g \in DOMAIN type : b[g].kind \in type[g]
Writes(v, a, type) == v = Object(a) /\ a = [g \in DOMAIN a |-> a[g]] /\ Fits(a, type)

(* One field of an object replaced, the others as they were.                *)
Changes(b, a, f, kind) ==
    DOMAIN b = DOMAIN a /\ b[f] = Json(kind) /\ \A g \in DOMAIN a \ {f} : b[g] = a[g]

LEMMA AtIs ==
    ASSUME NEW b, NEW f \in DOMAIN b
    PROVE  At(Object(b), f) = b[f]
  BY DEF At, Object

LEMMA ObjectIs == \A b : isRecord(Object(b)) /\ Object(b).at = b
  BY DEF isRecord, Object

(* With one field replaced an object fits if the interface allows the kind.  *)
LEMMA ReplacedIs ==
    ASSUME NEW v, NEW a, NEW type, Writes(v, a, type), NEW f \in DOMAIN type, NEW kind
    PROVE  \E b : /\ Replaced(v, f, kind) = Object(b)
                  /\ Changes(b, a, f, kind)
                  /\ Fits(b, type) <=> kind \in type[f]
<1> DEFINE b == [a EXCEPT ![f] = Json(kind)]
<1>1. a = [g \in DOMAIN type |-> a[g]] /\ DOMAIN a = DOMAIN type
  BY DEF Writes, Fits
<1>2. b = [g \in DOMAIN type |-> IF g = f THEN Json(kind) ELSE a[g]]
  BY <1>1
<1>3. Replaced(v, f, kind) = Object(b)
  BY DEF Writes, Replaced, Object
<1> HIDE DEF b
<1>4. Changes(b, a, f, kind)
  BY <1>1, <1>2 DEF Changes
<1>5. b[f].kind = kind
  BY <1>4 DEF Changes, Json
<1>6. Fits(b, type) <=> kind \in type[f]
  BY <1>1, <1>4, <1>5 DEF Changes, Fits, Writes
<1> QED
  BY <1>3, <1>4, <1>6

LEMMA ActivityFits ==
    ASSUME NEW b, DOMAIN b = DOMAIN Activity
    PROVE  isActivity(Object(b)) <=> Fits(b, Activity)
<1>1. \A g \in DOMAIN Activity : At(Object(b), g) = b[g]
  BY AtIs
<1> QED
  BY <1>1, ObjectIs DEF isActivity, Has, Fits, Activity, Only, OrNull

LEMMA ActivityWritten == \A v \in {ActivitySent} : \E a : Writes(v, a, Activity)
<1> DEFINE a == [app |-> Text, description |-> Text, idle |-> Flag, idle_seconds |-> Number, locked |-> Flag]
<1>1. Writes(ActivitySent, a, Activity)
  BY DEF Writes, Fits, ActivitySent, Activity, Only, OrNull, Text, Flag, Number, Json
<1> QED
  BY <1>1

(* What the person is doing. *)
LEMMA ActivitySeparates == Separates(isActivity, {ActivitySent}, Activity)
<1>1. ASSUME NEW v \in {ActivitySent}
      PROVE  isActivity(v) /\ DOMAIN v.at = DOMAIN Activity
  BY ActivityWritten, ActivityFits, ObjectIs DEF Writes, Fits
<1>2. ASSUME NEW v \in {ActivitySent}, NEW f \in DOMAIN Activity, NEW kind \in Kinds
      PROVE  isActivity(Replaced(v, f, kind)) <=> kind \in Activity[f]
  <2>1. PICK a : Writes(v, a, Activity)
    BY ActivityWritten
  <2>2. PICK b : /\ Replaced(v, f, kind) = Object(b)
                 /\ Changes(b, a, f, kind)
                 /\ Fits(b, Activity) <=> kind \in Activity[f]
    BY <2>1, ReplacedIs
  <2>3. DOMAIN b = DOMAIN Activity
    BY <2>1, <2>2 DEF Changes, Writes, Fits
  <2> QED
    BY <2>2, <2>3, ActivityFits
<1> QED
  BY <1>1, <1>2 DEF Separates

LEMMA BatteryFits ==
    ASSUME NEW b, DOMAIN b = DOMAIN Battery
    PROVE  isBattery(Object(b)) <=> Fits(b, Battery)
<1>1. \A g \in DOMAIN Battery : At(Object(b), g) = b[g]
  BY AtIs
<1> QED
  BY <1>1, ObjectIs DEF isBattery, Has, Fits, Battery, Only, OrNull

LEMMA BatteryWritten == \A v \in BatterySent : \E a : Writes(v, a, Battery)
<1> SUFFICES ASSUME NEW level \in Pointer(Number)
             PROVE  \E a : Writes(Object([level |-> level, charging |-> Flag]), a, Battery)
  BY DEF BatterySent
<1> DEFINE a == [level |-> level, charging |-> Flag]
<1>1. level.kind \in {"number", "null"}
  BY DEF Pointer, Number, Json
<1>2. Writes(Object(a), a, Battery)
  BY <1>1 DEF Writes, Fits, Battery, Only, OrNull, Text, Flag, Number, Json
<1> QED
  BY <1>2

(* A battery, with or without its level. *)
LEMMA BatterySeparates == Separates(isBattery, BatterySent, Battery)
<1>1. ASSUME NEW v \in BatterySent
      PROVE  isBattery(v) /\ DOMAIN v.at = DOMAIN Battery
  BY BatteryWritten, BatteryFits, ObjectIs DEF Writes, Fits
<1>2. ASSUME NEW v \in BatterySent, NEW f \in DOMAIN Battery, NEW kind \in Kinds
      PROVE  isBattery(Replaced(v, f, kind)) <=> kind \in Battery[f]
  <2>1. PICK a : Writes(v, a, Battery)
    BY BatteryWritten
  <2>2. PICK b : /\ Replaced(v, f, kind) = Object(b)
                 /\ Changes(b, a, f, kind)
                 /\ Fits(b, Battery) <=> kind \in Battery[f]
    BY <2>1, ReplacedIs
  <2>3. DOMAIN b = DOMAIN Battery
    BY <2>1, <2>2 DEF Changes, Writes, Fits
  <2> QED
    BY <2>2, <2>3, BatteryFits
<1> QED
  BY <1>1, <1>2 DEF Separates

LEMMA UsageTotalsFits ==
    ASSUME NEW b, DOMAIN b = DOMAIN UsageTotals
    PROVE  isUsageTotals(Object(b)) <=> Fits(b, UsageTotals)
<1>1. \A g \in DOMAIN UsageTotals : At(Object(b), g) = b[g]
  BY AtIs
<1> QED
  BY <1>1, ObjectIs DEF isUsageTotals, Has, Fits, UsageTotals, Only, OrNull

LEMMA UsageTotalsWritten == \A v \in {TotalsSent} : \E a : Writes(v, a, UsageTotals)
<1> DEFINE a == [active_seconds |-> Number, idle_seconds |-> Number, locked_seconds |-> Number]
<1>1. Writes(TotalsSent, a, UsageTotals)
  BY DEF Writes, Fits, TotalsSent, UsageTotals, Only, OrNull, Text, Flag, Number, Json
<1> QED
  BY <1>1

(* The seconds of a window by state. *)
LEMMA UsageTotalsSeparates == Separates(isUsageTotals, {TotalsSent}, UsageTotals)
<1>1. ASSUME NEW v \in {TotalsSent}
      PROVE  isUsageTotals(v) /\ DOMAIN v.at = DOMAIN UsageTotals
  BY UsageTotalsWritten, UsageTotalsFits, ObjectIs DEF Writes, Fits
<1>2. ASSUME NEW v \in {TotalsSent}, NEW f \in DOMAIN UsageTotals, NEW kind \in Kinds
      PROVE  isUsageTotals(Replaced(v, f, kind)) <=> kind \in UsageTotals[f]
  <2>1. PICK a : Writes(v, a, UsageTotals)
    BY UsageTotalsWritten
  <2>2. PICK b : /\ Replaced(v, f, kind) = Object(b)
                 /\ Changes(b, a, f, kind)
                 /\ Fits(b, UsageTotals) <=> kind \in UsageTotals[f]
    BY <2>1, ReplacedIs
  <2>3. DOMAIN b = DOMAIN UsageTotals
    BY <2>1, <2>2 DEF Changes, Writes, Fits
  <2> QED
    BY <2>2, <2>3, UsageTotalsFits
<1> QED
  BY <1>1, <1>2 DEF Separates

LEMMA ActivityUsageFits ==
    ASSUME NEW b, DOMAIN b = DOMAIN ActivityUsage
    PROVE  isActivityUsage(Object(b)) <=> Fits(b, ActivityUsage)
<1>1. \A g \in DOMAIN ActivityUsage : At(Object(b), g) = b[g]
  BY AtIs
<1> QED
  BY <1>1, ObjectIs DEF isActivityUsage, Has, Fits, ActivityUsage, Only, OrNull

LEMMA ActivityUsageWritten == \A v \in {ActivityUsageSent} : \E a : Writes(v, a, ActivityUsage)
<1> DEFINE a == [description |-> Text, seconds |-> Number]
<1>1. Writes(ActivityUsageSent, a, ActivityUsage)
  BY DEF Writes, Fits, ActivityUsageSent, ActivityUsage, Only, OrNull, Text, Flag, Number, Json
<1> QED
  BY <1>1

(* One description of an application. *)
LEMMA ActivityUsageSeparates == Separates(isActivityUsage, {ActivityUsageSent}, ActivityUsage)
<1>1. ASSUME NEW v \in {ActivityUsageSent}
      PROVE  isActivityUsage(v) /\ DOMAIN v.at = DOMAIN ActivityUsage
  BY ActivityUsageWritten, ActivityUsageFits, ObjectIs DEF Writes, Fits
<1>2. ASSUME NEW v \in {ActivityUsageSent}, NEW f \in DOMAIN ActivityUsage, NEW kind \in Kinds
      PROVE  isActivityUsage(Replaced(v, f, kind)) <=> kind \in ActivityUsage[f]
  <2>1. PICK a : Writes(v, a, ActivityUsage)
    BY ActivityUsageWritten
  <2>2. PICK b : /\ Replaced(v, f, kind) = Object(b)
                 /\ Changes(b, a, f, kind)
                 /\ Fits(b, ActivityUsage) <=> kind \in ActivityUsage[f]
    BY <2>1, ReplacedIs
  <2>3. DOMAIN b = DOMAIN ActivityUsage
    BY <2>1, <2>2 DEF Changes, Writes, Fits
  <2> QED
    BY <2>2, <2>3, ActivityUsageFits
<1> QED
  BY <1>1, <1>2 DEF Separates

LEMMA HourUsageFits ==
    ASSUME NEW b, DOMAIN b = DOMAIN HourUsage
    PROVE  isHourUsage(Object(b)) <=> Fits(b, HourUsage)
<1>1. \A g \in DOMAIN HourUsage : At(Object(b), g) = b[g]
  BY AtIs
<1> QED
  BY <1>1, ObjectIs DEF isHourUsage, Has, Fits, HourUsage, Only, OrNull

LEMMA HourUsageWritten == \A v \in {HourUsageSent} : \E a : Writes(v, a, HourUsage)
<1> DEFINE a == [hour |-> Number, seconds |-> Number, top_app |-> Text]
<1>1. Writes(HourUsageSent, a, HourUsage)
  BY DEF Writes, Fits, HourUsageSent, HourUsage, Only, OrNull, Text, Flag, Number, Json
<1> QED
  BY <1>1

(* One hour of today. *)
LEMMA HourUsageSeparates == Separates(isHourUsage, {HourUsageSent}, HourUsage)
<1>1. ASSUME NEW v \in {HourUsageSent}
      PROVE  isHourUsage(v) /\ DOMAIN v.at = DOMAIN HourUsage
  BY HourUsageWritten, HourUsageFits, ObjectIs DEF Writes, Fits
<1>2. ASSUME NEW v \in {HourUsageSent}, NEW f \in DOMAIN HourUsage, NEW kind \in Kinds
      PROVE  isHourUsage(Replaced(v, f, kind)) <=> kind \in HourUsage[f]
  <2>1. PICK a : Writes(v, a, HourUsage)
    BY HourUsageWritten
  <2>2. PICK b : /\ Replaced(v, f, kind) = Object(b)
                 /\ Changes(b, a, f, kind)
                 /\ Fits(b, HourUsage) <=> kind \in HourUsage[f]
    BY <2>1, ReplacedIs
  <2>3. DOMAIN b = DOMAIN HourUsage
    BY <2>1, <2>2 DEF Changes, Writes, Fits
  <2> QED
    BY <2>2, <2>3, HourUsageFits
<1> QED
  BY <1>1, <1>2 DEF Separates

LEMMA DayUsageFits ==
    ASSUME NEW b, DOMAIN b = DOMAIN DayUsage
    PROVE  isDayUsage(Object(b)) <=> Fits(b, DayUsage)
<1>1. \A g \in DOMAIN DayUsage : At(Object(b), g) = b[g]
  BY AtIs
<1> QED
  BY <1>1, ObjectIs DEF isDayUsage, Has, Fits, DayUsage, Only, OrNull

LEMMA DayUsageWritten == \A v \in {DayUsageSent} : \E a : Writes(v, a, DayUsage)
<1> DEFINE a == [date |-> Text, seconds |-> Number, top_app |-> Text]
<1>1. Writes(DayUsageSent, a, DayUsage)
  BY DEF Writes, Fits, DayUsageSent, DayUsage, Only, OrNull, Text, Flag, Number, Json
<1> QED
  BY <1>1

(* One day of a week or a month. *)
LEMMA DayUsageSeparates == Separates(isDayUsage, {DayUsageSent}, DayUsage)
<1>1. ASSUME NEW v \in {DayUsageSent}
      PROVE  isDayUsage(v) /\ DOMAIN v.at = DOMAIN DayUsage
  BY DayUsageWritten, DayUsageFits, ObjectIs DEF Writes, Fits
<1>2. ASSUME NEW v \in {DayUsageSent}, NEW f \in DOMAIN DayUsage, NEW kind \in Kinds
      PROVE  isDayUsage(Replaced(v, f, kind)) <=> kind \in DayUsage[f]
  <2>1. PICK a : Writes(v, a, DayUsage)
    BY DayUsageWritten
  <2>2. PICK b : /\ Replaced(v, f, kind) = Object(b)
                 /\ Changes(b, a, f, kind)
                 /\ Fits(b, DayUsage) <=> kind \in DayUsage[f]
    BY <2>1, ReplacedIs
  <2>3. DOMAIN b = DOMAIN DayUsage
    BY <2>1, <2>2 DEF Changes, Writes, Fits
  <2> QED
    BY <2>2, <2>3, DayUsageFits
<1> QED
  BY <1>1, <1>2 DEF Separates

(* A value that is no object and no array passes no guard.                   *)
LEMMA PlainIs ==
    ASSUME NEW kind \in Kinds
    PROVE  /\ Json(kind).kind \notin {"object", "array"}
           /\ ~isActivity(Json(kind)) /\ ~isBattery(Json(kind)) /\ ~isUsageTotals(Json(kind))
           /\ ~Every(Json(kind), isActivityUsage) /\ ~Every(Json(kind), isAppUsage)
           /\ ~Every(Json(kind), isHourUsage) /\ ~Every(Json(kind), isDayUsage)
           /\ ~Every(Json(kind), isDeviceUsage)
<1>1. Json(kind).kind \notin {"object", "array"}
  BY DEF Json, Kinds
<1>2. ~isActivity(Json(kind)) /\ ~isBattery(Json(kind)) /\ ~isUsageTotals(Json(kind))
  BY <1>1 DEF isActivity, isBattery, isUsageTotals, isRecord
<1>3. ~Every(Json(kind), isActivityUsage) /\ ~Every(Json(kind), isAppUsage)
  BY <1>1 DEF Every
<1>4. ~Every(Json(kind), isHourUsage) /\ ~Every(Json(kind), isDayUsage)
  BY <1>1 DEF Every
<1>5. ~Every(Json(kind), isDeviceUsage)
  BY <1>1 DEF Every
<1> QED
  BY <1>1, <1>2, <1>3, <1>4, <1>5

DeviceStateParts(b) ==
    /\ isActivity(b["activity"]) <=> b["activity"].kind = "object"
    /\ isBattery(b["battery"]) <=> b["battery"].kind = "object"

LEMMA DeviceStateFits ==
    ASSUME NEW b, DOMAIN b = DOMAIN DeviceState, DeviceStateParts(b)
    PROVE  isDeviceState(Object(b)) <=> Fits(b, DeviceState)
<1>1. \A g \in DOMAIN DeviceState : At(Object(b), g) = b[g]
  BY AtIs
<1> QED
  BY <1>1, ObjectIs DEF DeviceStateParts, isDeviceState, Has, Fits, DeviceState, Only, OrNull

LEMMA DeviceStateKept ==
    ASSUME NEW a, NEW b, DOMAIN a = DOMAIN DeviceState, DeviceStateParts(a),
           NEW f \in DOMAIN DeviceState, NEW kind \in Kinds, Changes(b, a, f, kind)
    PROVE  DeviceStateParts(b)
<1>1. \A g \in DOMAIN DeviceState : b[g] = a[g] \/ b[g] = Json(kind)
  BY DEF Changes
<1> QED
  BY <1>1, PlainIs DEF DeviceStateParts, DeviceState

LEMMA DeviceStateWritten ==
    \A v \in DeviceStateSent : \E a : Writes(v, a, DeviceState) /\ DeviceStateParts(a)
<1> SUFFICES ASSUME NEW v \in DeviceStateSent
             PROVE  \E a : Writes(v, a, DeviceState) /\ DeviceStateParts(a)
  OBVIOUS
<1>0. PICK battery \in {Json("null")} \cup BatterySent, network \in Pointer(Text) :
          v = Object([device_id |-> Text, device_name |-> Text, device_type |-> Text,
                      activity |-> ActivitySent, battery |-> battery, network |-> network,
                      online |-> Flag, reported_at |-> Text, last_seen_at |-> Text])
  BY DEF DeviceStateSent
<1> DEFINE a == [device_id |-> Text, device_name |-> Text, device_type |-> Text,
                 activity |-> ActivitySent, battery |-> battery, network |-> network,
                 online |-> Flag, reported_at |-> Text, last_seen_at |-> Text]
<1>1. network.kind \in {"string", "null"}
  BY DEF Pointer, Text, Json
<1>2. ActivitySent.kind = "object" /\ isActivity(ActivitySent)
  BY ActivitySeparates DEF Separates, isActivity, isRecord
<1>3. battery.kind \in {"object", "null"} /\ (isBattery(battery) <=> battery.kind = "object")
  <2>1. CASE battery = Json("null")
    BY <2>1, PlainIs DEF Json, Kinds
  <2>2. CASE battery \in BatterySent
    BY <2>2, BatterySeparates DEF Separates, isBattery, isRecord
  <2> QED
    BY <2>1, <2>2
<1>4. Writes(v, a, DeviceState)
  BY <1>0, <1>1, <1>2, <1>3 DEF Writes, Fits, DeviceState, Only, OrNull, Text, Flag, Number, Json
<1>5. DeviceStateParts(a)
  BY <1>2, <1>3 DEF DeviceStateParts
<1> QED
  BY <1>4, <1>5

(* The state of a device, with and without battery and network. *)
LEMMA DeviceStateSeparates == Separates(isDeviceState, DeviceStateSent, DeviceState)
<1>1. ASSUME NEW v \in DeviceStateSent
      PROVE  isDeviceState(v) /\ DOMAIN v.at = DOMAIN DeviceState
  BY DeviceStateWritten, DeviceStateFits, ObjectIs DEF Writes, Fits
<1>2. ASSUME NEW v \in DeviceStateSent, NEW f \in DOMAIN DeviceState, NEW kind \in Kinds
      PROVE  isDeviceState(Replaced(v, f, kind)) <=> kind \in DeviceState[f]
  <2>1. PICK a : Writes(v, a, DeviceState) /\ DeviceStateParts(a)
    BY DeviceStateWritten
  <2>2. PICK b : /\ Replaced(v, f, kind) = Object(b)
                 /\ Changes(b, a, f, kind)
                 /\ Fits(b, DeviceState) <=> kind \in DeviceState[f]
    BY <2>1, ReplacedIs
  <2>3. DOMAIN b = DOMAIN DeviceState /\ DeviceStateParts(b)
    BY <2>1, <2>2, DeviceStateKept DEF Changes, Writes, Fits
  <2> QED
    BY <2>2, <2>3, DeviceStateFits
<1> QED
  BY <1>1, <1>2 DEF Separates

(* What the server writes, with lists of any length.                         *)
AnyAppUsage ==
    {Object([app |-> Text, seconds |-> Number, activities |-> Array(activities)]) :
        activities \in Seq({ActivityUsageSent})}
AnySeries ==
    {[hourly |-> Array(hours), daily |-> Json("null")] : hours \in Seq({HourUsageSent})}
    \cup {[hourly |-> Json("null"), daily |-> Array(days)] : days \in Seq({DayUsageSent})}
AnyDeviceUsage ==
    {Object([device_id |-> Text, device_name |-> Text, device_type |-> Text, totals |-> TotalsSent,
             apps |-> Array(apps), hourly |-> series.hourly, daily |-> series.daily]) :
        apps \in Seq(AnyAppUsage), series \in AnySeries}
AnyUsage ==
    {Object([window |-> Text, timezone |-> Text, from |-> Text, to |-> Text, devices |-> Array(devices)]) :
        devices \in Seq(AnyDeviceUsage)}

LEMMA ArrayIs ==
    ASSUME NEW S, NEW items \in Seq(S)
    PROVE  /\ Array(items).kind = "array"
           /\ \A i \in DOMAIN Array(items).items : Array(items).items[i] \in S
  BY DEF Array

AppUsageParts(b) ==
    /\ Every(b["activities"], isActivityUsage) <=> b["activities"].kind = "array"

LEMMA AppUsageFits ==
    ASSUME NEW b, DOMAIN b = DOMAIN AppUsage, AppUsageParts(b)
    PROVE  isAppUsage(Object(b)) <=> Fits(b, AppUsage)
<1>1. \A g \in DOMAIN AppUsage : At(Object(b), g) = b[g]
  BY AtIs
<1> QED
  BY <1>1, ObjectIs DEF AppUsageParts, isAppUsage, Has, Fits, AppUsage, Only, OrNull

LEMMA AppUsageKept ==
    ASSUME NEW a, NEW b, DOMAIN a = DOMAIN AppUsage, AppUsageParts(a),
           NEW f \in DOMAIN AppUsage, NEW kind \in Kinds, Changes(b, a, f, kind)
    PROVE  AppUsageParts(b)
<1>1. \A g \in DOMAIN AppUsage : b[g] = a[g] \/ b[g] = Json(kind)
  BY DEF Changes
<1> QED
  BY <1>1, PlainIs DEF AppUsageParts, AppUsage

LEMMA AppUsageWritten ==
    \A v \in AnyAppUsage : \E a : Writes(v, a, AppUsage) /\ AppUsageParts(a)
<1> SUFFICES ASSUME NEW v \in AnyAppUsage
             PROVE  \E a : Writes(v, a, AppUsage) /\ AppUsageParts(a)
  OBVIOUS
<1>1. PICK activities \in Seq({ActivityUsageSent}) :
          v = Object([app |-> Text, seconds |-> Number, activities |-> Array(activities)])
  BY DEF AnyAppUsage
<1> DEFINE a == [app |-> Text, seconds |-> Number, activities |-> Array(activities)]
<1>2. isActivityUsage(ActivityUsageSent)
  BY ActivityUsageSeparates DEF Separates
<1>3. Array(activities).kind = "array" /\ Every(Array(activities), isActivityUsage)
  BY <1>2, ArrayIs DEF Every
<1>4. Writes(v, a, AppUsage)
  BY <1>1, <1>3 DEF Writes, Fits, AppUsage, Only, OrNull, Text, Flag, Number, Json
<1>5. AppUsageParts(a)
  BY <1>3 DEF AppUsageParts
<1> QED
  BY <1>4, <1>5

(* One application and whatever was done in it. *)
LEMMA AppUsageSeparates == Separates(isAppUsage, AnyAppUsage, AppUsage)
<1>1. ASSUME NEW v \in AnyAppUsage
      PROVE  isAppUsage(v) /\ DOMAIN v.at = DOMAIN AppUsage
  BY AppUsageWritten, AppUsageFits, ObjectIs DEF Writes, Fits
<1>2. ASSUME NEW v \in AnyAppUsage, NEW f \in DOMAIN AppUsage, NEW kind \in Kinds
      PROVE  isAppUsage(Replaced(v, f, kind)) <=> kind \in AppUsage[f]
  <2>1. PICK a : Writes(v, a, AppUsage) /\ AppUsageParts(a)
    BY AppUsageWritten
  <2>2. PICK b : /\ Replaced(v, f, kind) = Object(b)
                 /\ Changes(b, a, f, kind)
                 /\ Fits(b, AppUsage) <=> kind \in AppUsage[f]
    BY <2>1, ReplacedIs
  <2>3. DOMAIN b = DOMAIN AppUsage /\ AppUsageParts(b)
    BY <2>1, <2>2, AppUsageKept DEF Changes, Writes, Fits
  <2> QED
    BY <2>2, <2>3, AppUsageFits
<1> QED
  BY <1>1, <1>2 DEF Separates

DeviceUsageParts(b) ==
    /\ isUsageTotals(b["totals"]) <=> b["totals"].kind = "object"
    /\ Every(b["apps"], isAppUsage) <=> b["apps"].kind = "array"
    /\ Every(b["hourly"], isHourUsage) <=> b["hourly"].kind = "array"
    /\ Every(b["daily"], isDayUsage) <=> b["daily"].kind = "array"

LEMMA DeviceUsageFits ==
    ASSUME NEW b, DOMAIN b = DOMAIN DeviceUsage, DeviceUsageParts(b)
    PROVE  isDeviceUsage(Object(b)) <=> Fits(b, DeviceUsage)
<1>1. \A g \in DOMAIN DeviceUsage : At(Object(b), g) = b[g]
  BY AtIs
<1> QED
  BY <1>1, ObjectIs DEF DeviceUsageParts, isDeviceUsage, Has, Fits, DeviceUsage, Only, OrNull

LEMMA DeviceUsageKept ==
    ASSUME NEW a, NEW b, DOMAIN a = DOMAIN DeviceUsage, DeviceUsageParts(a),
           NEW f \in DOMAIN DeviceUsage, NEW kind \in Kinds, Changes(b, a, f, kind)
    PROVE  DeviceUsageParts(b)
<1>1. \A g \in DOMAIN DeviceUsage : b[g] = a[g] \/ b[g] = Json(kind)
  BY DEF Changes
<1> QED
  BY <1>1, PlainIs DEF DeviceUsageParts, DeviceUsage

LEMMA SeriesAre ==
    ASSUME NEW series \in AnySeries
    PROVE  /\ series.hourly.kind \in {"array", "null"} /\ series.daily.kind \in {"array", "null"}
           /\ Every(series.hourly, isHourUsage) <=> series.hourly.kind = "array"
           /\ Every(series.daily, isDayUsage) <=> series.daily.kind = "array"
<1>1. isHourUsage(HourUsageSent) /\ isDayUsage(DayUsageSent)
  BY HourUsageSeparates, DayUsageSeparates DEF Separates
<1>2. \A hours \in Seq({HourUsageSent}) :
          Array(hours).kind = "array" /\ Every(Array(hours), isHourUsage)
  BY <1>1, ArrayIs DEF Every
<1>3. \A days \in Seq({DayUsageSent}) :
          Array(days).kind = "array" /\ Every(Array(days), isDayUsage)
  BY <1>1, ArrayIs DEF Every
<1>4. ~Every(Json("null"), isHourUsage) /\ ~Every(Json("null"), isDayUsage) /\ Json("null").kind = "null"
  BY PlainIs DEF Kinds, Json
<1>5. CASE \E hours \in Seq({HourUsageSent}) : series = [hourly |-> Array(hours), daily |-> Json("null")]
  BY <1>2, <1>4, <1>5
<1>6. CASE \E days \in Seq({DayUsageSent}) : series = [hourly |-> Json("null"), daily |-> Array(days)]
  BY <1>3, <1>4, <1>6
<1> QED
  BY <1>5, <1>6 DEF AnySeries

LEMMA DeviceUsageWritten ==
    \A v \in AnyDeviceUsage : \E a : Writes(v, a, DeviceUsage) /\ DeviceUsageParts(a)
<1> SUFFICES ASSUME NEW v \in AnyDeviceUsage
             PROVE  \E a : Writes(v, a, DeviceUsage) /\ DeviceUsageParts(a)
  OBVIOUS
<1>0. PICK apps \in Seq(AnyAppUsage), series \in AnySeries :
          v = Object([device_id |-> Text, device_name |-> Text, device_type |-> Text, totals |-> TotalsSent,
                      apps |-> Array(apps), hourly |-> series.hourly, daily |-> series.daily])
  BY DEF AnyDeviceUsage
<1> DEFINE a == [device_id |-> Text, device_name |-> Text, device_type |-> Text, totals |-> TotalsSent,
                 apps |-> Array(apps), hourly |-> series.hourly, daily |-> series.daily]
<1>1. TotalsSent.kind = "object" /\ isUsageTotals(TotalsSent)
  BY UsageTotalsSeparates DEF Separates, isUsageTotals, isRecord
<1>2. Array(apps).kind = "array" /\ Every(Array(apps), isAppUsage)
  <2>1. \A app \in AnyAppUsage : isAppUsage(app)
    BY AppUsageSeparates DEF Separates
  <2> QED
    BY <2>1, ArrayIs DEF Every
<1>3. Writes(v, a, DeviceUsage)
  BY <1>0, <1>1, <1>2, SeriesAre DEF Writes, Fits, DeviceUsage, Only, OrNull, Text, Flag, Number, Json
<1>4. DeviceUsageParts(a)
  BY <1>1, <1>2, SeriesAre DEF DeviceUsageParts
<1> QED
  BY <1>3, <1>4

(* The statistics of a device, by the hour or by the day. *)
LEMMA DeviceUsageSeparates == Separates(isDeviceUsage, AnyDeviceUsage, DeviceUsage)
<1>1. ASSUME NEW v \in AnyDeviceUsage
      PROVE  isDeviceUsage(v) /\ DOMAIN v.at = DOMAIN DeviceUsage
  BY DeviceUsageWritten, DeviceUsageFits, ObjectIs DEF Writes, Fits
<1>2. ASSUME NEW v \in AnyDeviceUsage, NEW f \in DOMAIN DeviceUsage, NEW kind \in Kinds
      PROVE  isDeviceUsage(Replaced(v, f, kind)) <=> kind \in DeviceUsage[f]
  <2>1. PICK a : Writes(v, a, DeviceUsage) /\ DeviceUsageParts(a)
    BY DeviceUsageWritten
  <2>2. PICK b : /\ Replaced(v, f, kind) = Object(b)
                 /\ Changes(b, a, f, kind)
                 /\ Fits(b, DeviceUsage) <=> kind \in DeviceUsage[f]
    BY <2>1, ReplacedIs
  <2>3. DOMAIN b = DOMAIN DeviceUsage /\ DeviceUsageParts(b)
    BY <2>1, <2>2, DeviceUsageKept DEF Changes, Writes, Fits
  <2> QED
    BY <2>2, <2>3, DeviceUsageFits
<1> QED
  BY <1>1, <1>2 DEF Separates

UsageResponseParts(b) ==
    /\ Every(b["devices"], isDeviceUsage) <=> b["devices"].kind = "array"

LEMMA UsageResponseFits ==
    ASSUME NEW b, DOMAIN b = DOMAIN UsageResponse, UsageResponseParts(b)
    PROVE  isUsageResponse(Object(b)) <=> Fits(b, UsageResponse)
<1>1. \A g \in DOMAIN UsageResponse : At(Object(b), g) = b[g]
  BY AtIs
<1> QED
  BY <1>1, ObjectIs DEF UsageResponseParts, isUsageResponse, Has, Fits, UsageResponse, Only, OrNull

LEMMA UsageResponseKept ==
    ASSUME NEW a, NEW b, DOMAIN a = DOMAIN UsageResponse, UsageResponseParts(a),
           NEW f \in DOMAIN UsageResponse, NEW kind \in Kinds, Changes(b, a, f, kind)
    PROVE  UsageResponseParts(b)
<1>1. \A g \in DOMAIN UsageResponse : b[g] = a[g] \/ b[g] = Json(kind)
  BY DEF Changes
<1> QED
  BY <1>1, PlainIs DEF UsageResponseParts, UsageResponse

LEMMA UsageResponseWritten ==
    \A v \in AnyUsage : \E a : Writes(v, a, UsageResponse) /\ UsageResponseParts(a)
<1> SUFFICES ASSUME NEW v \in AnyUsage
             PROVE  \E a : Writes(v, a, UsageResponse) /\ UsageResponseParts(a)
  OBVIOUS
<1>0. PICK devices \in Seq(AnyDeviceUsage) :
          v = Object([window |-> Text, timezone |-> Text, from |-> Text, to |-> Text,
                      devices |-> Array(devices)])
  BY DEF AnyUsage
<1> DEFINE a == [window |-> Text, timezone |-> Text, from |-> Text, to |-> Text, devices |-> Array(devices)]
<1>1. Array(devices).kind = "array" /\ Every(Array(devices), isDeviceUsage)
  <2>1. \A d \in AnyDeviceUsage : isDeviceUsage(d)
    BY DeviceUsageSeparates DEF Separates
  <2> QED
    BY <2>1, ArrayIs DEF Every
<1>2. Writes(v, a, UsageResponse)
  BY <1>0, <1>1 DEF Writes, Fits, UsageResponse, Only, OrNull, Text, Flag, Number, Json
<1>3. UsageResponseParts(a)
  BY <1>1 DEF UsageResponseParts
<1> QED
  BY <1>2, <1>3

(* The whole answer, with a device and without. *)
LEMMA UsageResponseSeparates == Separates(isUsageResponse, AnyUsage, UsageResponse)
<1>1. ASSUME NEW v \in AnyUsage
      PROVE  isUsageResponse(v) /\ DOMAIN v.at = DOMAIN UsageResponse
  BY UsageResponseWritten, UsageResponseFits, ObjectIs DEF Writes, Fits
<1>2. ASSUME NEW v \in AnyUsage, NEW f \in DOMAIN UsageResponse, NEW kind \in Kinds
      PROVE  isUsageResponse(Replaced(v, f, kind)) <=> kind \in UsageResponse[f]
  <2>1. PICK a : Writes(v, a, UsageResponse) /\ UsageResponseParts(a)
    BY UsageResponseWritten
  <2>2. PICK b : /\ Replaced(v, f, kind) = Object(b)
                 /\ Changes(b, a, f, kind)
                 /\ Fits(b, UsageResponse) <=> kind \in UsageResponse[f]
    BY <2>1, ReplacedIs
  <2>3. DOMAIN b = DOMAIN UsageResponse /\ UsageResponseParts(b)
    BY <2>1, <2>2, UsageResponseKept DEF Changes, Writes, Fits
  <2> QED
    BY <2>2, <2>3, UsageResponseFits
<1> QED
  BY <1>1, <1>2 DEF Separates

LEMMA OneIn == \A S : \A v \in S : <<>> \in Seq(S) /\ <<v>> \in Seq(S)
  OBVIOUS

(* The answers of the run are some of them.                                  *)
LEMMA SentIsAny ==
    /\ AppUsageSent \in AnyAppUsage
    /\ DeviceUsageSent \subseteq AnyDeviceUsage
    /\ UsageSent \subseteq AnyUsage
<1>1. AppUsageSent \in AnyAppUsage
  BY OneIn DEF AppUsageSent, AnyAppUsage
<1>2. SeriesSent \subseteq AnySeries
  BY OneIn DEF SeriesSent, AnySeries
<1>3. {<<>>, <<AppUsageSent>>} \subseteq Seq(AnyAppUsage)
  BY <1>1, OneIn
<1>4. DeviceUsageSent \subseteq AnyDeviceUsage
  <2> SUFFICES ASSUME NEW v \in DeviceUsageSent
               PROVE  v \in AnyDeviceUsage
    OBVIOUS
  <2>1. PICK apps \in {<<>>, <<AppUsageSent>>}, series \in SeriesSent :
            v = Object([device_id |-> Text, device_name |-> Text, device_type |-> Text, totals |-> TotalsSent,
                        apps |-> Array(apps), hourly |-> series.hourly, daily |-> series.daily])
    BY DEF DeviceUsageSent
  <2>2. apps \in Seq(AnyAppUsage) /\ series \in AnySeries
    BY <1>2, <1>3
  <2> QED
    BY <2>1, <2>2 DEF AnyDeviceUsage
<1>5. {<<>>} \cup {<<d>> : d \in DeviceUsageSent} \subseteq Seq(AnyDeviceUsage)
  <2>1. <<>> \in Seq(AnyDeviceUsage)
    BY OneIn
  <2>2. \A d \in DeviceUsageSent : <<d>> \in Seq(AnyDeviceUsage)
    BY <1>4, OneIn
  <2> QED
    BY <2>1, <2>2
<1>6. UsageSent \subseteq AnyUsage
  BY <1>5 DEF UsageSent, AnyUsage
<1> QED
  BY <1>1, <1>4, <1>6

(* The guards of the usage answer, however many devices, applications,        *)
(* descriptions, hours or days there are: what the server writes gets in, and *)
(* with one field of the answer, of a device or of an application replaced it *)
(* gets in only if the page is written for that.                              *)
THEOREM AnyUsageSeparates ==
    /\ Separates(isAppUsage, AnyAppUsage, AppUsage)
    /\ Separates(isDeviceUsage, AnyDeviceUsage, DeviceUsage)
    /\ Separates(isUsageResponse, AnyUsage, UsageResponse)
  BY AppUsageSeparates, DeviceUsageSeparates, UsageResponseSeparates

(* So they do for the answers of the run, and for the state of a device with  *)
(* and without battery, level and network (web/src/types/contract.ts).        *)
THEOREM UsageGuardsSeparate == Spec => []GuardsSeparate
<1>1. Separates(isAppUsage, {AppUsageSent}, AppUsage)
  BY AnyUsageSeparates, SentIsAny DEF Separates
<1>2. Separates(isDeviceUsage, DeviceUsageSent, DeviceUsage)
  BY AnyUsageSeparates, SentIsAny DEF Separates
<1>3. Separates(isUsageResponse, UsageSent, UsageResponse)
  BY AnyUsageSeparates, SentIsAny DEF Separates
<1>4. GuardsSeparate
  BY <1>1, <1>2, <1>3, ActivitySeparates, BatterySeparates, DeviceStateSeparates, UsageTotalsSeparates,
     ActivityUsageSeparates, HourUsageSeparates, DayUsageSeparates
     DEF GuardsSeparate
<1> QED
  BY <1>4, PTL
=============================================================================
