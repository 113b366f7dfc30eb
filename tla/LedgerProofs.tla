---------------------------- MODULE LedgerProofs ----------------------------
(***************************************************************************)
(* Proofs about Ledger, for every clock, length of an hour, gap, retention, *)
(* number of requests under way at once and choice of what may fail:        *)
(*   - the loop of usage.Attribute splits an interval exactly;              *)
(*   - the variables keep their types;                                      *)
(*   - the books of a device balance while no two of its requests have been *)
(*     under way at once;                                                   *)
(*   - an hour is overfull only by reports that were not stored or that     *)
(*     were under way at once, and the latter can put a second in the books *)
(*     only so many times.                                                  *)
(***************************************************************************)
EXTENDS MCLedger, DataLemmas

(* Seconds of from..to-1 in hour h. *)
Overlap(from, to, h) ==
    LET first == IF from < h * HourLen THEN h * HourLen ELSE from
        end   == IF to < (h + 1) * HourLen THEN to ELSE (h + 1) * HourLen
    IN IF end > first THEN end - first ELSE 0

Touched(from, to) == IF from = to THEN 0 ELSE Hour(to - 1) - Hour(from) + 1

(* The pieces of an interval in closed form, one for each hour it touches. *)
Split(from, to) ==
    [i \in 1..Touched(from, to) |->
        [hour |-> Hour(from) + i - 1, seconds |-> Overlap(from, to, Hour(from) + i - 1)]]

-----------------------------------------------------------------------------
(* The split of an interval *)

LEMMA HourBounds ==
  ASSUME NEW s \in Nat
  PROVE  /\ Hour(s) \in Nat
         /\ Hour(s) * HourLen \in Nat /\ (Hour(s) + 1) * HourLen = Hour(s) * HourLen + HourLen
         /\ Hour(s) * HourLen <= s
         /\ s < Hour(s) * HourLen + HourLen
<1>1. HourLen \in Nat \ {0}
  BY AttributionAssumption
<1>2. /\ Hour(s) \in Nat
      /\ Hour(s) * HourLen <= s
      /\ s < Hour(s) * HourLen + HourLen
  BY <1>1, Quotient DEF Hour
<1> QED
  BY <1>1, <1>2, Products

LEMMA HourMonotone ==
  ASSUME NEW r \in Nat, NEW s \in Nat, r <= s
  PROVE  Hour(r) <= Hour(s)
<1>1. HourLen \in Nat \ {0}
  BY AttributionAssumption
<1>2. PICK p \in Nat : p = Hour(r) /\ p * HourLen <= r
  BY HourBounds
<1>3. PICK q \in Nat : q = Hour(s) /\ s < q * HourLen + HourLen
  BY HourBounds
<1>4. q < p => q * HourLen + HourLen <= p * HourLen
  BY <1>1, Products
<1>5. q * HourLen \in Nat /\ p * HourLen \in Nat
  BY <1>1, Products
<1> QED
  BY <1>1, <1>2, <1>3, <1>4, <1>5

LEMMA CutForward ==
  ASSUME NEW f \in Nat, NEW t \in Nat, f < t
  PROVE  Cut(f, t) \in (f + 1)..t
<1>1. HourLen \in Nat \ {0}
  BY AttributionAssumption
<1>2. PICK n \in Nat : n = (Hour(f) + 1) * HourLen /\ f < n
  BY <1>1, HourBounds
<1>3. Cut(f, t) = IF n > t THEN t ELSE n
  BY <1>2 DEF Cut
<1> QED
  BY <1>2, <1>3

LEMMA OverlapType ==
  ASSUME NEW f \in Nat, NEW t \in Nat, NEW h \in Nat
  PROVE  Overlap(f, t, h) \in 0..HourLen
<1>1. /\ HourLen \in Nat \ {0} /\ h * HourLen \in Nat
      /\ (h + 1) * HourLen = h * HourLen + HourLen
  BY AttributionAssumption, Products
<1> QED
  BY <1>1 DEF Overlap

LEMMA SplitType ==
  ASSUME NEW f \in Nat, NEW t \in Nat, f <= t
  PROVE  /\ Touched(f, t) \in Nat
         /\ Split(f, t) \in Seq([hour : Nat, seconds : Nat])
         /\ Len(Split(f, t)) = Touched(f, t)
<1>1. Touched(f, t) \in Nat
  <2>1. f # t => t - 1 \in Nat /\ f <= t - 1
    OBVIOUS
  <2> QED
    BY <2>1, HourBounds, HourMonotone DEF Touched
<1>2. ASSUME NEW i \in 1..Touched(f, t) PROVE Hour(f) + i - 1 \in Nat
  BY HourBounds, <1>1
<1>3. ASSUME NEW h \in Nat PROVE Overlap(f, t, h) \in Nat
  BY OverlapType, AttributionAssumption
<1>4. Split(f, t) \in [1..Touched(f, t) -> [hour : Nat, seconds : Nat]]
  BY <1>2, <1>3 DEF Split
<1> QED
  BY <1>1, <1>4, FunctionIsSeq, Zenon

(* One turn of the loop. *)
LEMMA SplitUnfolds ==
  ASSUME NEW f \in Nat, NEW t \in Nat, f < t
  PROVE  Split(f, t) = <<[hour |-> Hour(f), seconds |-> Cut(f, t) - f]>> \o Split(Cut(f, t), t)
<1>0. HourLen \in Nat \ {0}
  BY AttributionAssumption
<1> DEFINE c == Cut(f, t)
           H == Hour(f)
           P == [hour : Nat, seconds : Nat]
           e == [hour |-> H, seconds |-> c - f]
<1>1. c \in Nat /\ f < c /\ c <= t
  BY CutForward
<1>2. /\ H \in Nat /\ H * HourLen \in Nat /\ H * HourLen <= f /\ f < H * HourLen + HourLen
      /\ (H + 1) * HourLen = H * HourLen + HourLen
  BY HourBounds
<1>3. c = IF H * HourLen + HourLen > t THEN t ELSE H * HourLen + HourLen
  BY <1>2 DEF Cut
<1>4. c - f = Overlap(f, t, H)
  BY <1>0, <1>2, <1>3 DEF Overlap
<1>5. Touched(f, t) = 1 + Touched(c, t)
  <2>1. CASE c = t
    <3>1. t - 1 \in Nat /\ H * HourLen <= t - 1 /\ t - 1 < H * HourLen + HourLen
      BY <1>0, <1>2, <1>3, <2>1
    <3>2. Hour(t - 1) = H
      BY <1>0, <1>2, <3>1, QuotientIs DEF Hour
    <3> QED
      BY <1>2, <2>1, <3>2 DEF Touched
  <2>2. CASE c # t
    <3>1. c = (H + 1) * HourLen
      BY <1>2, <1>3, <2>2
    <3>2. Hour(c) = H + 1
      <4>1. (H + 1) * HourLen <= c /\ c < (H + 1) * HourLen + HourLen /\ H + 1 \in Nat
        BY <1>0, <1>1, <1>2, <3>1
      <4> QED
        BY <1>0, <1>1, <4>1, QuotientIs DEF Hour
    <3>3. t - 1 \in Nat /\ Hour(t - 1) \in Nat
      BY <1>1, HourBounds
    <3> QED
      BY <1>1, <1>2, <2>2, <3>2, <3>3 DEF Touched
  <2> QED
    BY <2>1, <2>2
<1>6. /\ Split(f, t) \in Seq(P) /\ Len(Split(f, t)) = Touched(f, t) /\ Touched(f, t) \in Nat
      /\ Split(c, t) \in Seq(P) /\ Len(Split(c, t)) = Touched(c, t) /\ Touched(c, t) \in Nat
  BY <1>1, SplitType
<1>7. e \in P /\ <<e>> \in Seq(P)
  BY <1>1, <1>2
<1>8. ASSUME NEW i \in 1..Touched(c, t) PROVE Split(f, t)[i + 1] = Split(c, t)[i]
  <2>1. c # t
    BY <1>6, <1>8 DEF Touched
  <2>2. c = (H + 1) * HourLen
    BY <1>2, <1>3, <2>1
  <2>3. Hour(c) = H + 1
    <3>1. (H + 1) * HourLen <= c /\ c < (H + 1) * HourLen + HourLen /\ H + 1 \in Nat
      BY <1>0, <1>1, <1>2, <2>2
    <3> QED
      BY <1>0, <1>1, <3>1, QuotientIs DEF Hour
  <2>4. i + 1 \in 1..Touched(f, t) /\ H + (i + 1) - 1 = Hour(c) + i - 1 /\ H + 1 <= Hour(c) + i - 1
    <3> HIDE DEF H, c
    <3> QED
      BY <1>2, <1>5, <1>6, <2>3
  <2>5. PICK h \in Nat : h = Hour(c) + i - 1
    BY <1>2, <2>4
  <2>6. Overlap(f, t, h) = Overlap(c, t, h)
    <3>1. h * HourLen \in Nat /\ (H + 1) * HourLen <= h * HourLen
      BY <1>0, <1>2, <2>4, <2>5, Products
    <3> QED
      BY <1>1, <2>2, <3>1 DEF Overlap
  <2> QED
    BY <2>4, <2>5, <2>6 DEF Split
<1>9. Split(f, t)[1] = e
  <2>1. 1 \in 1..Touched(f, t) /\ H + 1 - 1 = H
    BY <1>2, <1>5, <1>6
  <2> QED
    BY <1>4, <2>1 DEF Split
<1> HIDE DEF c, e, H, P
<1>10. /\ <<e>> \o Split(c, t) \in Seq(P)
       /\ Len(<<e>> \o Split(c, t)) = 1 + Touched(c, t)
       /\ (<<e>> \o Split(c, t))[1] = e
       /\ \A i \in 1..Touched(c, t) : (<<e>> \o Split(c, t))[i + 1] = Split(c, t)[i]
  BY <1>6, <1>7
<1>11. \A j \in 1..Len(Split(f, t)) : Split(f, t)[j] = (<<e>> \o Split(c, t))[j]
  <2>1. \A j \in 1..Len(Split(f, t)) : j = 1 \/ (j - 1 \in 1..Touched(c, t) /\ (j - 1) + 1 = j)
    BY <1>5, <1>6
  <2> QED
    BY <1>8, <1>9, <1>10, <2>1
<1>12. Split(f, t) = <<e>> \o Split(c, t)
  BY <1>5, <1>6, <1>10, <1>11, SeqEqual
<1> QED
  BY <1>12 DEF c, e, H

(* The loop of usage.Attribute ends and yields one piece for every hour the *)
(* interval touches, in order, with the seconds of the interval in that     *)
(* hour.                                                                    *)
LEMMA PiecesAre ==
  ASSUME NEW f \in Nat, NEW t \in Nat, f <= t
  PROVE  Pieces(f, t) = Split(f, t)
<1> DEFINE Turn(g, x) == IF x = t THEN <<>>
                         ELSE <<[hour |-> Hour(x), seconds |-> Cut(x, t) - x]>> \o g[Cut(x, t)]
           Loop(g) == g = [x \in f..t |-> Turn(g, x)]
<1>1. Pieces(f, t) = (CHOOSE g : Loop(g))[f]
  BY DEF Pieces
<1>2. Split(t, t) = <<>>
  BY SplitType DEF Touched
<1>3. ASSUME NEW x \in f..t, x # t PROVE x \in Nat /\ x < t /\ Cut(x, t) \in f..t /\ Cut(x, t) > x
  BY <1>3, CutForward
<1>4. \E g : Loop(g)
  <2> DEFINE s == [x \in f..t |-> Split(x, t)]
  <2>1. ASSUME NEW x \in f..t PROVE s[x] = Turn(s, x)
    BY <1>2, <1>3, SplitUnfolds
  <2>2. s = [x \in f..t |-> s[x]]
    OBVIOUS
  <2> HIDE DEF s, Turn
  <2>3. Loop(s)
    BY <2>1, <2>2
  <2> QED
    BY <2>3
<1>5. ASSUME NEW g, Loop(g) PROVE g[f] = Split(f, t)
  <2> DEFINE N == {n \in Nat : \A x \in f..t : t - x <= n => g[x] = Split(x, t)}
  <2>1. \A x \in f..t : g[x] = Turn(g, x)
    BY <1>5
  <2>2. 0 \in N
    <3>1. \A x \in f..t : t - x <= 0 => x = t
      OBVIOUS
    <3> QED
      BY <1>2, <2>1, <3>1
  <2>3. ASSUME NEW n \in Nat, n \in N PROVE n + 1 \in N
    <3>1. ASSUME NEW x \in f..t, t - x <= n + 1, x # t PROVE g[x] = Split(x, t)
      <4>1. t - Cut(x, t) <= n /\ Cut(x, t) \in f..t /\ x \in Nat /\ x < t
        BY <1>3, <3>1
      <4>2. g[Cut(x, t)] = Split(Cut(x, t), t)
        BY <2>3, <4>1
      <4> QED
        BY <2>1, <3>1, <4>1, <4>2, SplitUnfolds
    <3>2. g[t] = Split(t, t)
      <4>1. t \in f..t /\ Turn(g, t) = <<>>
        OBVIOUS
      <4> QED
        BY <1>2, <2>1, <4>1
    <3> QED
      BY <3>1, <3>2
  <2> HIDE DEF N
  <2>4. t - f \in N
    BY <2>2, <2>3, Induct
  <2> QED
    BY <2>4 DEF N
<1> HIDE DEF Loop
<1> QED
  BY <1>1, <1>4, <1>5

(* Two adjoining intervals cover what the whole does. *)
LEMMA OverlapJoins ==
  ASSUME NEW f \in Nat, NEW s \in Nat, NEW t \in Nat, NEW h \in Nat, f <= s, s <= t
  PROVE  Overlap(f, t, h) = Overlap(f, s, h) + Overlap(s, t, h)
<1>1. /\ HourLen \in Nat \ {0} /\ h * HourLen \in Nat
      /\ (h + 1) * HourLen = h * HourLen + HourLen
  BY AttributionAssumption, Products
<1> QED
  BY <1>1 DEF Overlap

(* The hours an interval touches are those it has a second in. *)
LEMMA OverlapWhere ==
  ASSUME NEW f \in Nat, NEW t \in Nat, f < t, NEW h \in Nat
  PROVE  Overlap(f, t, h) # 0 <=> h \in Hour(f)..Hour(t - 1)
<1>0. /\ HourLen \in Nat \ {0} /\ h * HourLen \in Nat
      /\ (h + 1) * HourLen = h * HourLen + HourLen
  BY AttributionAssumption, Products
<1>1. PICK p \in Nat : /\ p = Hour(f) /\ p * HourLen \in Nat
                       /\ p * HourLen <= f /\ f < p * HourLen + HourLen
  BY HourBounds
<1>2. t - 1 \in Nat
  OBVIOUS
<1>3. PICK q \in Nat : /\ q = Hour(t - 1) /\ q * HourLen \in Nat
                       /\ q * HourLen <= t - 1 /\ t - 1 < q * HourLen + HourLen
  BY <1>2, HourBounds
<1>4. h < p => h * HourLen + HourLen <= p * HourLen
  BY <1>0, Products
<1>5. q < h => q * HourLen + HourLen <= h * HourLen
  BY <1>0, Products
<1>6. p <= h => p * HourLen <= h * HourLen
  BY <1>0, Products
<1>7. h <= q => h * HourLen <= q * HourLen
  BY <1>0, Products
<1>8. Overlap(f, t, h) # 0 <=> f < h * HourLen + HourLen /\ h * HourLen < t
  BY <1>0 DEF Overlap
<1>9. h \in p..q <=> p <= h /\ h <= q
  OBVIOUS
<1> QED
  BY <1>0, <1>1, <1>2, <1>3, <1>4, <1>5, <1>6, <1>7, <1>8, <1>9

(* The hours of an interval add up to it. *)
LEMMA OverlapTotal ==
  ASSUME NEW f \in Nat, NEW t \in Nat, f <= t, NEW n \in Nat, t <= n * HourLen + HourLen,
         NEW o, \A h \in 0..n : o[h] = Overlap(f, t, h)
  PROVE  SumFunctionOnSet(o, 0..n) = t - f
<1>0. HourLen \in Nat \ {0}
  BY AttributionAssumption
<1>01. \A h \in Nat : Overlap(f, t, h) \in Int
  <2>1. \A h \in Nat : Overlap(f, t, h) \in 0..HourLen
    BY OverlapType
  <2> QED
    BY <1>0, <2>1
<1>02. \A h \in 0..n : o[h] = Overlap(f, t, h) /\ o[h] \in Int
  BY <1>01
<1> DEFINE Till(m) == LET end == IF t < m * HourLen + HourLen THEN t ELSE m * HourLen + HourLen
                      IN IF end > f THEN end - f ELSE 0
           N == {m \in Nat : m <= n => SumFunctionOnSet(o, 0..m) = Till(m)}
<1>1. 0 \in N
  <2>1. IsFiniteSet(0..0)
    <3>1. 0 \in Int
      OBVIOUS
    <3> QED
      BY <3>1, FS_Interval, Zenon
  <2>11. 0 \in 0..0 /\ \A x \in (0..0) \ {0} : o[x] = 0
    OBVIOUS
  <2>10. o[0] = Overlap(f, t, 0) /\ o[0] \in Int
    BY <1>02
  <2>2. SumFunctionOnSet(o, 0..0) = Overlap(f, t, 0)
    BY <2>1, <2>10, <2>11, SumOfOne
  <2>3. 0 * HourLen = 0 /\ (0 + 1) * HourLen = HourLen
    BY <1>0
  <2>4. Overlap(f, t, 0) = Till(0)
    BY <1>0, <2>3 DEF Overlap
  <2> QED
    BY <2>2, <2>4
<1>2. ASSUME NEW m \in Nat, m \in N PROVE m + 1 \in N
  <2>1. SUFFICES ASSUME m + 1 <= n PROVE SumFunctionOnSet(o, 0..(m + 1)) = Till(m + 1)
    OBVIOUS
  <2>2. SumFunctionOnSet(o, 0..m) = Till(m)
    BY <1>2, <2>1
  <2>3. (0..(m + 1)) \ {m + 1} = 0..m /\ m + 1 \in 0..(m + 1)
    OBVIOUS
  <2>10. IsFiniteSet(0..(m + 1))
    BY FS_Interval
  <2>4. \A h \in 0..(m + 1) : o[h] = Overlap(f, t, h) /\ o[h] \in Int
    BY <1>02, <2>1
  <2>5. SumFunctionOnSet(o, 0..(m + 1)) = o[m + 1] + SumFunctionOnSet(o, 0..m)
    BY <2>3, <2>10, <2>4, SumTakesOut, SMTT(30)
  <2>6. /\ m * HourLen \in Nat
        /\ (m + 1) * HourLen = m * HourLen + HourLen
        /\ (m + 1 + 1) * HourLen = m * HourLen + HourLen + HourLen
    BY <1>0, Products
  <2>7. Overlap(f, t, m + 1) + Till(m) = Till(m + 1)
    BY <1>0, <2>6 DEF Overlap
  <2> QED
    BY <2>2, <2>4, <2>5, <2>7
<1>3. n \in N
  <2> HIDE DEF N
  <2> QED
    BY <1>1, <1>2, Induct
<1>4. Till(n) = t - f
  BY <1>0, Products
<1> QED
  BY <1>3, <1>4

(* A row's time is whole seconds: as an instant and back it is the same. *)
LEMMA WholeSeconds ==
  ASSUME NEW s \in Nat
  PROVE  s * TicksPerSecond \in Nat /\ Second(s * TicksPerSecond) = s
<1>1. TicksPerSecond \in Nat \ {0}
  BY AttributionAssumption
<1>2. s * TicksPerSecond \in Nat
  BY <1>1, Products
<1> QED
  BY <1>1, <1>2, QuotientIs DEF Second

LEMMA SecondType ==
  ASSUME NEW r \in Nat, NEW s \in Nat, r <= s
  PROVE  Second(r) \in Nat /\ Second(s) \in Nat /\ Second(r) <= Second(s)
<1>1. TicksPerSecond \in Nat \ {0}
  BY AttributionAssumption
<1>2. PICK p \in Nat : p = Second(r) /\ p * TicksPerSecond <= r /\ p * TicksPerSecond \in Nat
  BY <1>1, Quotient, Products DEF Second
<1>3. PICK q \in Nat : /\ q = Second(s) /\ s < q * TicksPerSecond + TicksPerSecond
                       /\ q * TicksPerSecond \in Nat
  BY <1>1, Quotient, Products DEF Second
<1>4. q < p => q * TicksPerSecond + TicksPerSecond <= p * TicksPerSecond
  BY <1>1, Products
<1> QED
  BY <1>1, <1>2, <1>3, <1>4

-----------------------------------------------------------------------------
(* What one interval adds to the books *)

(* The pieces of an interval with what they are filed under. *)
Filing(a, s, t) ==
    [i \in 1..Touched(s, t) |-> [key |-> Key(a), hour |-> Hour(s) + i - 1,
                                seconds |-> Overlap(s, t, Hour(s) + i - 1)]]

(* usage.Attribute in closed form. *)
LEMMA AttributeIs ==
  ASSUME NEW a, NEW from \in Nat, NEW at \in Nat, NEW f, f = Second(from), NEW t, t = Second(at),
         NEW p, p = Attribute(a, from, at)
  PROVE  /\ f \in Nat /\ t \in Nat
         /\ p = IF Creditable(f, t) THEN Filing(a, f, t) ELSE <<>>
<1>1. f \in Nat /\ t \in Nat
  BY SecondType
<1>2. CASE ~Creditable(f, t)
  BY <1>1, <1>2 DEF Attribute
<1>3. CASE Creditable(f, t)
  <2>1. f <= t
    BY <1>1, <1>3 DEF Creditable
  <2>2. Pieces(f, t) = Split(f, t)
    BY <1>1, <2>1, PiecesAre
  <2>3. Touched(f, t) \in Nat
    BY <1>1, <2>1, SplitType
  <2>4. /\ DOMAIN Split(f, t) = 1..Touched(f, t)
        /\ \A i \in 1..Touched(f, t) :
              /\ Split(f, t)[i].hour = Hour(f) + i - 1
              /\ Split(f, t)[i].seconds = Overlap(f, t, Hour(f) + i - 1)
    BY DEF Split
  <2>5. p = [i \in DOMAIN Split(f, t) |-> [key |-> Key(a), hour |-> Split(f, t)[i].hour,
                                       seconds |-> Split(f, t)[i].seconds]]
    BY <1>1, <1>3, <2>2 DEF Attribute
  <2> QED
    BY <1>1, <1>3, <2>4, <2>5 DEF Filing
<1> QED
  BY <1>2, <1>3

(* The pieces of an interval, by hour. *)
OnePerHour(p, a, f, t) ==
    /\ Hour(f) \in Nat /\ Hour(t - 1) \in Nat
    /\ DOMAIN p = 1..(Hour(t - 1) - Hour(f) + 1)
    /\ \A i \in DOMAIN p : /\ Hour(f) + i - 1 \in Hour(f)..Hour(t - 1)
                           /\ p[i].hour = Hour(f) + i - 1
                           /\ p[i].key = Key(a)
                           /\ p[i].seconds = Overlap(f, t, p[i].hour)

LEMMA FilingType ==
  ASSUME NEW a, NEW f \in Nat, NEW t \in Nat, f < t, NEW p, p = Filing(a, f, t)
  PROVE  OnePerHour(p, a, f, t)
<1>1. Hour(f) \in Nat /\ Touched(f, t) = Hour(t - 1) - Hour(f) + 1 /\ Hour(t - 1) \in Nat
  <2>1. t - 1 \in Nat /\ f # t
    OBVIOUS
  <2> QED
    BY <2>1, HourBounds DEF Touched
<1>2. /\ DOMAIN p = 1..Touched(f, t)
      /\ \A i \in 1..Touched(f, t) : /\ p[i].hour = Hour(f) + i - 1
                                     /\ p[i].seconds = Overlap(f, t, Hour(f) + i - 1)
                                     /\ p[i].key = Key(a)
  BY DEF Filing
<1>3. \A i \in 1..Touched(f, t) : Hour(f) + i - 1 \in Hour(f)..Hour(t - 1)
  BY <1>1
<1>4. DOMAIN p = 1..(Hour(t - 1) - Hour(f) + 1)
  BY <1>1, <1>2
<1>5. \A i \in DOMAIN p : p[i].seconds = Overlap(f, t, p[i].hour)
  BY <1>2
<1>6. \A i \in DOMAIN p : /\ Hour(f) + i - 1 \in Hour(f)..Hour(t - 1)
                          /\ p[i].hour = Hour(f) + i - 1 /\ p[i].key = Key(a)
  BY <1>2, <1>3
<1> QED
  BY <1>1, <1>4, <1>5, <1>6 DEF OnePerHour

(* The pieces filed under one hour have the interval's seconds of that hour.*)
LEMMA HourTotal ==
  ASSUME NEW a, NEW f \in Nat, NEW t \in Nat, f < t, NEW h \in Nat,
         NEW p, p = Filing(a, f, t),
         NEW F, F = {i \in DOMAIN p : p[i].hour = h},
         NEW o, o = [i \in F |-> p[i].seconds]
  PROVE  SumFunctionOnSet(o, F) = Overlap(f, t, h)
<1>0. OnePerHour(p, a, f, t)
  BY FilingType
<1>1. /\ Hour(f) \in Nat /\ Hour(t - 1) \in Nat
      /\ DOMAIN p = 1..(Hour(t - 1) - Hour(f) + 1)
      /\ \A i \in DOMAIN p : /\ Hour(f) + i - 1 \in Hour(f)..Hour(t - 1)
                             /\ p[i].hour = Hour(f) + i - 1
                             /\ p[i].key = Key(a)
                             /\ p[i].seconds = Overlap(f, t, p[i].hour)
  BY <1>0 DEF OnePerHour
<1>2. CASE h \in Hour(f)..Hour(t - 1)
  <2>1. PICK j : j = h - Hour(f) + 1
    OBVIOUS
  <2>2. j \in DOMAIN p /\ p[j].hour = h
    BY <1>1, <1>2, <2>1
  <2>3. \A i \in DOMAIN p : p[i].hour = h => i = j
    BY <1>1, <2>1
  <2>4. F = {j}
    BY <2>2, <2>3
  <2>5. Overlap(f, t, h) \in 0..HourLen /\ HourLen \in Nat
    BY OverlapType, AttributionAssumption
  <2>6. o[j] = Overlap(f, t, h) /\ o[j] \in Int
    BY <1>1, <2>2, <2>4, <2>5
  <2>7. IsFiniteSet({j}) /\ \A x \in {j} \ {j} : o[x] = 0
    BY FS_Singleton
  <2>8. SumFunctionOnSet(o, {j}) = o[j]
    BY <2>6, <2>7, SumOfOne
  <2> QED
    BY <2>4, <2>6, <2>8
<1>3. CASE h \notin Hour(f)..Hour(t - 1)
  <2>1. F = {}
    BY <1>1, <1>3
  <2>2. SumFunctionOnSet(o, {}) = 0
    BY FS_EmptySet, SumUnfolds
  <2> QED
    BY <1>3, <2>1, <2>2, OverlapWhere
<1> QED
  BY <1>2, <1>3

(* The hour h of an interval, filed under k. *)
Part(a, s, t, h, k) == IF Creditable(s, t) /\ k = Key(a) THEN Overlap(s, t, h) ELSE 0

(* What AddUsage adds to one bucket are the seconds of the interval that    *)
(* lie in its hour.                                                         *)
LEMMA SecondsAre ==
  ASSUME NEW a, NEW s \in Nat, NEW at \in Nat, NEW h \in Nat, NEW k
  PROVE  Seconds(Attribute(a, s * TicksPerSecond, at), h, k) = Part(a, s, Second(at), h, k)
<1>1. \E t, p, from : /\ t = Second(at) /\ p = Attribute(a, s * TicksPerSecond, at)
                      /\ from = s * TicksPerSecond
  OBVIOUS
<1>2. PICK t, p, from : /\ t = Second(at) /\ p = Attribute(a, s * TicksPerSecond, at)
                        /\ from = s * TicksPerSecond
  BY <1>1, Zenon
<1>3. from \in Nat /\ s = Second(from) /\ p = Attribute(a, from, at)
  BY <1>2, WholeSeconds
<1>4. t \in Nat /\ p = IF Creditable(s, t) THEN Filing(a, s, t) ELSE <<>>
  BY <1>2, <1>3, AttributeIs
<1>5. SUFFICES Seconds(p, h, k) = Part(a, s, t, h, k)
  BY <1>2, Zenon
<1>6. PICK F : F = {i \in DOMAIN p : p[i].hour = h /\ p[i].key = k}
  OBVIOUS
<1>7. PICK o : o = [i \in F |-> p[i].seconds]
  OBVIOUS
<1>8. Seconds(p, h, k) = SumFunctionOnSet(o, F)
  BY <1>6, <1>7 DEF Seconds, SumFunction
<1>9. CASE Creditable(s, t) /\ k = Key(a)
  <2>1. s < t /\ p = Filing(a, s, t)
    BY <1>4, <1>9 DEF Creditable
  <2>2. OnePerHour(p, a, s, t)
    BY <1>4, <2>1, FilingType
  <2>3. F = {i \in DOMAIN p : p[i].hour = h}
    BY <1>6, <1>9, <2>2 DEF OnePerHour
  <2>4. SumFunctionOnSet(o, F) = Overlap(s, t, h)
    BY <1>4, <1>7, <2>1, <2>3, HourTotal
  <2> QED
    BY <1>8, <1>9, <2>4 DEF Part
<1>10. CASE ~(Creditable(s, t) /\ k = Key(a))
  <2>1. F = {}
    <3>1. CASE ~Creditable(s, t)
      <4>1. DOMAIN p = {}
        BY <1>4, <3>1
      <4> QED
        BY <1>6, <4>1
    <3>2. CASE Creditable(s, t)
      <4>1. s < t /\ p = Filing(a, s, t)
        BY <1>4, <3>2 DEF Creditable
      <4>2. OnePerHour(p, a, s, t)
        BY <1>4, <4>1, FilingType
      <4> QED
        BY <1>6, <1>10, <3>2, <4>2 DEF OnePerHour
    <3> QED
      BY <3>1, <3>2
  <2>2. SumFunctionOnSet(o, {}) = 0
    BY FS_EmptySet, SumUnfolds
  <2> QED
    BY <1>8, <1>10, <2>1, <2>2 DEF Part
<1> QED
  BY <1>9, <1>10

-----------------------------------------------------------------------------
(* The inductive invariant *)

(* What a request is about to credit was read from the database. *)
AddsForARow == \A r \in Requests : req[r].pc = "add" => req[r].prev \in Rows

TypeInv == TypeOK /\ AddsForARow

Own(d) == {r \in Requests : Device(r) = d}

(* No two of the requests q of a device are under way at once, and the one  *)
(* that is, or Idle.                                                        *)
AloneIn(q, d) == \A x, y \in Own(d) : q[x] # Idle /\ q[y] # Idle => x = y

CurrentIn(q, d) ==
    IF \E r \in Own(d) : q[r] # Idle THEN q[CHOOSE r \in Own(d) : q[r] # Idle] ELSE Idle

Alone(d) == AloneIn(req, d)
Current(d) == CurrentIn(req, d)

(* The row a request has read stays the row of its device until the request *)
(* has overwritten it, and no row is of a time to come.                     *)
RowHeld(d) ==
    LET q == Current(d)
    IN /\ row[d] # NoRow => row[d].seen <= Second(now)
       /\ q # Idle => /\ q.at <= now
                      /\ row[d] # NoRow => row[d].seen <= Second(q.at)
       /\ q.pc = "read" => ~q.failed /\ q.prev = NoRow
       /\ q.pc = "add" => ~q.failed /\ q.prev = row[d]
       /\ q.pc = "upsert" /\ ~q.failed => q.prev = row[d]

(* The request of d has added an interval that its report does not end yet. *)
Pending(d) ==
    /\ Current(d).pc = "upsert"
    /\ Current(d).prev # NoRow
    /\ ~Current(d).failed

(* What of an interval from row p until the instant at is filed under k. *)
Worth(p, at, k) ==
    IF Creditable(p.seen, Second(at)) /\ k = Key(p.act) THEN Second(at) - p.seen ELSE 0

Owed(d, k) == IF Pending(d) THEN Worth(Current(d).prev, Current(d).at, k) ELSE 0

(* The books of d balance at every step, once what is pending is counted. *)
Balanced(d) ==
    \A k \in Keys :
        SumFunction([h \in Hours |-> bucket[d][h][k]]) + pruned[d][k]
            = due[d][k] + twice[d][k] + Owed(d, k)

(* Up to where the seconds of d are accounted for. *)
Till(d) ==
    IF Pending(d) /\ Creditable(Current(d).prev.seen, Second(Current(d).at))
    THEN Second(Current(d).at)
    ELSE IF row[d] = NoRow THEN 0 ELSE row[d].seen

(* An hour of d holds its seconds up to there, once, and what was added for *)
(* reports that were not stored.                                            *)
Accounted(d) ==
    \A h \in Hours : Booked(d, h) <= Overlap(0, Till(d), h) + SumFunction(twice[d])
-----------------------------------------------------------------------------
(* Types *)

LEMMA ConstantTypes ==
  /\ Second(MaxNow) \in Nat /\ Hour(Second(MaxNow)) \in Nat
  /\ IsFiniteSet(Hours) /\ Hours \subseteq Nat
  /\ IsFiniteSet(Keys)
  /\ \A h \in Nat : Hour(h) = Hour(Second(MaxNow)) => h < Hour(h) * HourLen + HourLen
<1>1. Second(MaxNow) \in Nat
  BY SecondType, LedgerAssumption
<1>2. Hour(Second(MaxNow)) \in Nat
  BY <1>1, HourBounds
<1>3. IsFiniteSet(Hours) /\ Hours \subseteq Nat
  <2>1. 0 \in Int /\ Hour(Second(MaxNow)) \in Int
    BY <1>2
  <2>2. IsFiniteSet(0..Hour(Second(MaxNow)))
    BY <2>1, FS_Interval, Zenon
  <2> QED
    BY <1>2, <2>2 DEF Hours
<1>4. IsFiniteSet(Keys)
  <2>1. IsFiniteSet(Activities)
    BY LedgerAssumption
  <2> DEFINE f == [a \in Activities |-> Key(a)]
  <2>2. f \in Surjection(Activities, Keys)
    BY DEF Keys, Surjection
  <2> HIDE DEF f
  <2> QED
    BY <2>1, <2>2, FS_Surjection, FS_Image, Zenon
<1> QED
  BY <1>1, <1>2, <1>3, <1>4, HourBounds

(* What an interval adds is a number of seconds. *)
LEMMA SecondsType ==
  ASSUME NEW p \in Rows, NEW at \in 0..MaxNow, NEW h \in Hours, NEW k
  PROVE  Seconds(Attribute(p.act, p.seen * TicksPerSecond, at), h, k) \in Nat
<1>1. PICK s \in Nat : s = p.seen
  BY ConstantTypes DEF Rows
<1>2. PICK t \in Nat : t = Second(at)
  BY SecondType, LedgerAssumption
<1>3. h \in Nat /\ at \in Nat
  BY ConstantTypes, LedgerAssumption
<1>4. Overlap(s, t, h) \in Nat
  <2>1. Overlap(s, t, h) \in 0..HourLen /\ HourLen \in Nat
    BY <1>3, OverlapType, AttributionAssumption
  <2> QED
    BY <2>1
<1>5. Seconds(Attribute(p.act, s * TicksPerSecond, at), h, k) = Part(p.act, s, t, h, k)
  BY <1>2, <1>3, SecondsAre
<1> QED
  BY <1>1, <1>4, <1>5 DEF Part

(* A device has as many requests as there are slots. *)
LEMMA OwnRequests ==
  ASSUME NEW d \in Devices
  PROVE  IsFiniteSet(Own(d)) /\ Cardinality(Own(d)) = InFlight /\ InFlight \in Nat
<1>1. Own(d) = {d} \X Slots
  BY DEF Own, Requests, Device
<1>2. IsFiniteSet(Slots)
  BY LedgerAssumption
<1>3. IsFiniteSet({d}) /\ Cardinality({d}) = 1
  BY FS_Singleton
<1>4. IsFiniteSet({d} \X Slots) /\ Cardinality({d} \X Slots) = 1 * Cardinality(Slots)
  BY <1>2, <1>3, FS_Product
<1>5. Cardinality(Slots) \in Nat
  BY <1>2, FS_CardinalityType
<1> QED
  BY <1>1, <1>4, <1>5 DEF InFlight

(* So is what is unsettled. *)
LEMMA UnsettledType ==
  ASSUME TypeInv, NEW R \in SUBSET Requests, NEW d \in Devices, NEW k
  PROVE  Unsettled({r \in R : Device(r) = d}, k) \in Nat
<1> DEFINE S == {r \in R : Device(r) = d}
           Added == {r \in S : req[r].pc = "upsert" /\ req[r].prev # NoRow /\ ~req[r].failed}
           o == [r \in Added |-> SumFunction([h \in Hours |-> Seconds(Interval(r), h, k)])]
<1>1. IsFiniteSet(Added)
  <2>1. IsFiniteSet(Own(d))
    BY OwnRequests
  <2>2. Added \subseteq Own(d)
    BY DEF Own
  <2> QED
    BY <2>1, <2>2, FS_Subset, Zenon
<1>2. ASSUME NEW r \in Added PROVE o[r] \in Nat
  <2> DEFINE g == [h \in Hours |-> Seconds(Interval(r), h, k)]
  <2>1. r \in Requests /\ req[r] \in Handling \cup {Idle} /\ req[r].pc = "upsert"
        /\ req[r].prev # NoRow
    BY DEF TypeInv, TypeOK
  <2>2. req[r].prev \in Rows /\ req[r].at \in 0..MaxNow
    BY <2>1 DEF Handling, Idle
  <2>3. \A h \in Hours : g[h] \in Nat
    BY <2>2, SecondsType DEF Interval
  <2>4. SumFunction(g) = SumFunctionOnSet(g, Hours)
    BY DEF SumFunction
  <2> HIDE DEF g
  <2>5. SumFunction(g) \in Nat
    BY <2>3, <2>4, ConstantTypes, SumNat
  <2> QED
    BY <2>5 DEF g
<1>3. Unsettled(S, k) = SumFunctionOnSet(o, Added)
  BY DEF Unsettled, SumFunction
<1> HIDE DEF Added, o
<1> QED
  BY <1>1, <1>2, <1>3, SumNat
LEMMA InitTypes == Init => TypeInv
<1>1. SUFFICES ASSUME Init PROVE TypeInv
  OBVIOUS
<1>2. now \in 0..MaxNow
  BY <1>1, LedgerAssumption DEF Init
<1>3. \A r \in Requests : req[r] = Idle /\ req[r].pc = "idle"
  BY <1>1 DEF Init, Idle
<1> QED
  BY <1>1, <1>2, <1>3, LedgerAssumption DEF Init, TypeInv, TypeOK, AddsForARow, Zero, NoRow

LEMMA StepTypes == TypeInv /\ [Next]_vars => TypeInv'
<1> SUFFICES ASSUME TypeInv, [Next]_vars PROVE TypeInv'
  OBVIOUS
<1> USE DEF TypeInv, TypeOK, AddsForARow
<1>1. CASE UNCHANGED vars
  BY <1>1 DEF vars
<1>2. ASSUME NEW r \in Requests, NEW a \in Activities, Accept(r, a) PROVE TypeInv'
  <2>1. [pc |-> "read", at |-> now, act |-> a, prev |-> NoRow, failed |-> FALSE] \in Handling
    BY DEF Handling
  <2>2. req' \in [Requests -> Handling \cup {Idle}] /\ AddsForARow'
    BY <1>2, <2>1 DEF Accept
  <2>3. CASE UNCHANGED <<overlap, due, pruned>>
    BY <1>2, <2>2, <2>3 DEF Accept
  <2>4. CASE /\ overlap[Device(r)] < MaxOverlap
             /\ overlap' = [overlap EXCEPT ![Device(r)] = @ + 1]
             /\ due' = [due EXCEPT ![Device(r)] = Zero]
             /\ pruned' = [pruned EXCEPT ![Device(r)] = Zero]
    <3>1. Device(r) \in Devices /\ Zero \in [Keys -> Nat]
      BY DEF Requests, Device, Zero
    <3>2. overlap[Device(r)] + 1 \in 0..MaxOverlap
      BY <2>4, <3>1, LedgerAssumption
    <3>3. /\ overlap' \in [Devices -> 0..MaxOverlap]
          /\ due' \in [Devices -> [Keys -> Nat]] /\ pruned' \in [Devices -> [Keys -> Nat]]
      BY <2>4, <3>1, <3>2
    <3> QED
      BY <1>2, <2>2, <3>3 DEF Accept
  <2> QED
    BY <1>2, <2>3, <2>4 DEF Accept
<1>3. ASSUME NEW r \in Requests, Read(r) PROVE TypeInv'
  <2>1. req[r] \in Handling /\ Device(r) \in Devices /\ req[r].pc = "read"
    BY <1>3 DEF Read, Idle, Requests, Device
  <2>2. row[Device(r)] \in Rows \cup {NoRow}
    BY <2>1
  <2> DEFINE q == [req[r] EXCEPT !.prev = row[Device(r)],
                                 !.pc = IF row[Device(r)] = NoRow THEN "upsert" ELSE "add"]
  <2>3. q \in Handling /\ (q.pc = "add" => q.prev \in Rows)
    BY <2>1, <2>2 DEF Handling
  <2>4. req' = [req EXCEPT ![r] = q]
    BY <1>3 DEF Read
  <2> HIDE DEF q
  <2> QED
    BY <1>3, <2>3, <2>4 DEF Read
<1>4. ASSUME NEW r \in Requests, ReadFails(r) PROVE TypeInv'
  <2>1. req[r] \in Handling
    BY <1>4 DEF ReadFails, Idle
  <2> DEFINE q == [req[r] EXCEPT !.pc = "upsert", !.failed = TRUE]
  <2>2. q \in Handling /\ q.pc # "add"
    BY <2>1 DEF Handling
  <2>3. req' = [req EXCEPT ![r] = q]
    BY <1>4 DEF ReadFails
  <2> HIDE DEF q
  <2> QED
    BY <1>4, <2>2, <2>3 DEF ReadFails
<1>5. ASSUME NEW r \in Requests, AddUsage(r) PROVE TypeInv'
  <2>1. req[r] \in Handling /\ req[r].prev \in Rows /\ Device(r) \in Devices
    BY <1>5 DEF AddUsage, Idle, Requests, Device
  <2> DEFINE q == [req[r] EXCEPT !.pc = "upsert"]
             b == [h \in Hours |-> [k \in Keys |->
                      bucket[Device(r)][h][k] + Seconds(Interval(r), h, k)]]
  <2>2. q \in Handling /\ q.pc # "add"
    BY <2>1 DEF Handling
  <2>3. req[r].at \in 0..MaxNow
    BY <2>1 DEF Handling
  <2>4. \A h \in Hours, k \in Keys : Seconds(Interval(r), h, k) \in Nat
    BY <2>1, <2>3, SecondsType DEF Interval
  <2>5. b \in [Hours -> [Keys -> Nat]]
    BY <2>1, <2>4
  <2>6. req' = [req EXCEPT ![r] = q] /\ bucket' = [bucket EXCEPT ![Device(r)] = b]
    BY <1>5, <2>1 DEF AddUsage
  <2> HIDE DEF q, b
  <2> QED
    BY <1>5, <2>1, <2>2, <2>5, <2>6 DEF AddUsage
<1>6. ASSUME NEW r \in Requests, AddUsageFails(r) PROVE TypeInv'
  <2>1. req[r] \in Handling
    BY <1>6 DEF AddUsageFails, Idle
  <2> DEFINE q == [req[r] EXCEPT !.pc = "upsert", !.failed = TRUE]
  <2>2. q \in Handling /\ q.pc # "add"
    BY <2>1 DEF Handling
  <2>3. req' = [req EXCEPT ![r] = q]
    BY <1>6 DEF AddUsageFails
  <2> HIDE DEF q
  <2> QED
    BY <1>6, <2>2, <2>3 DEF AddUsageFails
<1>7. ASSUME NEW r \in Requests, Upsert(r) PROVE TypeInv'
  <2>1. req[r] \in Handling /\ Device(r) \in Devices
    BY <1>7 DEF Upsert, Idle, Requests, Device
  <2>2. Second(req[r].at) \in 0..Second(MaxNow)
    <3>1. req[r].at \in Nat /\ req[r].at <= MaxNow /\ MaxNow \in Nat
      BY <2>1, LedgerAssumption DEF Handling
    <3> QED
      BY <3>1, SecondType
  <2>3. row' \in [Devices -> Rows \cup {NoRow}]
    <3>1. [seen |-> Second(req[r].at), act |-> req[r].act] \in Rows
      BY <2>1, <2>2 DEF Rows, Handling
    <3> QED
      BY <1>7, <2>1, <3>1 DEF Upsert
  <2>4. due' \in [Devices -> [Keys -> Nat]]
    <3> DEFINE gain == Second(req[r].at) - row[Device(r)].seen
    <3>1. \/ /\ gain \in 1..MaxGap
             /\ due' = [due EXCEPT ![Device(r)][Key(row[Device(r)].act)] = @ + gain]
          \/ due' = due
      BY <1>7 DEF Upsert
    <3> HIDE DEF gain
    <3>2. PICK k : \/ gain \in 1..MaxGap /\ due' = [due EXCEPT ![Device(r)][k] = @ + gain]
                   \/ due' = due
      BY <3>1
    <3>3. gain \in 1..MaxGap => gain \in Nat
      BY AttributionAssumption
    <3>4. CASE gain \in Nat /\ due' = [due EXCEPT ![Device(r)][k] = @ + gain]
      <4>1. PICK g \in [Keys -> Nat] : g = due[Device(r)]
        BY <2>1
      <4>2. PICK n : n = g[k] + gain
        OBVIOUS
      <4>3. k \in Keys => n \in Nat
        BY <3>4, <4>2
      <4>4. [g EXCEPT ![k] = n] \in [Keys -> Nat]
        BY <4>3
      <4>5. due' = [due EXCEPT ![Device(r)] = [g EXCEPT ![k] = n]]
        BY <2>1, <3>4, <4>1, <4>2
      <4> QED
        BY <2>1, <4>4, <4>5
    <3> QED
      BY <3>2, <3>3, <3>4
  <2> QED
    BY <1>7, <2>1, <2>3, <2>4 DEF Upsert, Idle
<1>8. ASSUME NEW R \in SUBSET Requests, NoteTwice(R) PROVE twice' \in [Devices -> [Keys -> Nat]]
  <2> DEFINE u(d, k) == Unsettled({r \in R : Device(r) = d}, k)
  <2>1. \A d \in Devices, k \in Keys : u(d, k) \in Nat
    BY UnsettledType
  <2>2. twice' = [d \in Devices |-> [k \in Keys |-> twice[d][k] + u(d, k)]]
    BY <1>8 DEF NoteTwice
  <2> HIDE DEF u
  <2> QED
    BY <2>1, <2>2
<1>9. ASSUME NEW r \in Requests, UpsertFails(r) PROVE TypeInv'
  <2>1. {r} \in SUBSET Requests /\ NoteTwice({r})
    BY <1>9 DEF UpsertFails
  <2>2. twice' \in [Devices -> [Keys -> Nat]]
    BY <1>8, <2>1
  <2> QED
    BY <1>9, <2>2 DEF UpsertFails, Idle
<1>10. CASE Prune
  <2> DEFINE u(d, k) == SumFunction([h \in {x \in Hours : Expired(x)} |-> bucket[d][h][k]])
  <2>1. ASSUME NEW d \in Devices, NEW k \in Keys PROVE u(d, k) \in Nat
    <3> DEFINE E == {x \in Hours : Expired(x)}
               o == [h \in E |-> bucket[d][h][k]]
    <3>1. IsFiniteSet(E) /\ E \subseteq Hours
      BY ConstantTypes, FS_Subset
    <3>2. \A h \in E : o[h] \in Nat
      OBVIOUS
    <3>3. SumFunction(o) = SumFunctionOnSet(o, E)
      BY DEF SumFunction
    <3> HIDE DEF E, o
    <3>4. SumFunction(o) \in Nat
      BY <3>1, <3>2, <3>3, SumNat
    <3> QED
      BY <3>4 DEF o, E
  <2>2. pruned' \in [Devices -> [Keys -> Nat]]
    <3>1. pruned' = [d \in Devices |-> IF overlap[d] > 0 THEN Zero
                                       ELSE [k \in Keys |-> pruned[d][k] + u(d, k)]]
      BY <1>10 DEF Prune
    <3> HIDE DEF u
    <3> QED
      BY <2>1, <3>1 DEF Zero
  <2>3. bucket' \in [Devices -> [Hours -> [Keys -> Nat]]]
    BY <1>10 DEF Prune, Zero
  <2> QED
    BY <1>10, <2>2, <2>3 DEF Prune
<1>11. CASE Tick
  BY <1>11, LedgerAssumption DEF Tick
<1>12. CASE Crash
  <2>1. twice' \in [Devices -> [Keys -> Nat]]
    BY <1>8, <1>12 DEF Crash
  <2> QED
    BY <1>12, <2>1 DEF Crash, Idle
<1> QED
  BY <1>1, <1>2, <1>3, <1>4, <1>5, <1>6, <1>7, <1>9, <1>10, <1>11, <1>12 DEF Next, Handle

(* The books and the requests keep their types: no bucket goes negative, no *)
(* row is of a time after the clock's end, and whatever a handler credits   *)
(* it has read from a row.                                                  *)
THEOREM LedgerTypeCorrect == Spec => []TypeOK
<1>1. TypeInv => TypeOK
  BY DEF TypeInv
<1> QED
  BY <1>1, InitTypes, StepTypes, PTL DEF Spec
-----------------------------------------------------------------------------
(* What a step does to one device *)

(* What AddUsage adds to all the hours of a device for one interval. *)
LEMMA IntervalTotal ==
  ASSUME NEW p \in Rows, NEW at \in 0..MaxNow, NEW k,
         NEW g, g = [h \in Hours |-> Seconds(Attribute(p.act, p.seen * TicksPerSecond, at), h, k)]
  PROVE  SumFunction(g) = Worth(p, at, k) /\ Worth(p, at, k) \in Nat
<1>1. PICK s \in Nat : s = p.seen
  BY ConstantTypes DEF Rows
<1>2. PICK t \in Nat : t = Second(at) /\ t <= Second(MaxNow)
  BY SecondType, LedgerAssumption
<1>3. at \in Nat
  BY LedgerAssumption
<1>4. PICK n \in Nat : n = Hour(Second(MaxNow)) /\ Second(MaxNow) < n * HourLen + HourLen
  BY ConstantTypes, HourBounds
<1>5. n * HourLen \in Nat /\ HourLen \in Nat /\ Second(MaxNow) \in Nat
  BY AttributionAssumption, Products, ConstantTypes
<1>6. Hours = 0..n /\ Hours \subseteq Nat /\ IsFiniteSet(Hours)
  BY <1>4, ConstantTypes DEF Hours
<1>7. \A h \in Hours : g[h] = Part(p.act, s, t, h, k)
  BY <1>1, <1>2, <1>3, <1>6, SecondsAre
<1>8. SumFunction(g) = SumFunctionOnSet(g, Hours)
  BY DEF SumFunction
<1>9. CASE Creditable(s, t) /\ k = Key(p.act)
  <2>1. \A h \in 0..n : g[h] = Overlap(s, t, h)
    BY <1>6, <1>7, <1>9 DEF Part
  <2>2. s <= t /\ t <= n * HourLen + HourLen
    BY <1>2, <1>4, <1>5, <1>9 DEF Creditable
  <2>3. SumFunctionOnSet(g, 0..n) = t - s
    BY <2>1, <2>2, OverlapTotal
  <2>4. Worth(p, at, k) = t - s
    BY <1>1, <1>2, <1>9 DEF Worth
  <2> QED
    BY <1>6, <1>8, <2>2, <2>3, <2>4
<1>10. CASE ~(Creditable(s, t) /\ k = Key(p.act))
  <2>1. \A h \in Hours : g[h] = 0
    BY <1>7, <1>10 DEF Part
  <2>2. SumFunctionOnSet(g, Hours) = 0
    BY <1>6, <2>1, SumOfZeros
  <2>3. Worth(p, at, k) = 0
    BY <1>1, <1>2, <1>10 DEF Worth
  <2> QED
    BY <1>8, <2>2, <2>3
<1> QED
  BY <1>9, <1>10

(* While at most r of the requests of d is under way, it is the current one.*)
LEMMA CurrentIs ==
  ASSUME NEW q, NEW d, NEW r \in Own(d), \A x \in Own(d) \ {r} : q[x] = Idle
  PROVE  CurrentIn(q, d) = q[r] /\ AloneIn(q, d)
<1>1. CASE q[r] = Idle
  BY <1>1 DEF CurrentIn, AloneIn
<1>2. CASE q[r] # Idle
  <2>1. \A x \in Own(d) : q[x] # Idle => x = r
    OBVIOUS
  <2>2. (CHOOSE x \in Own(d) : q[x] # Idle) = r
    BY <1>2, <2>1
  <2> QED
    BY <1>2, <2>1, <2>2 DEF CurrentIn, AloneIn
<1> QED
  BY <1>1, <1>2

(* There is such a request, if a device can have any. *)
LEMMA CurrentThere ==
  ASSUME NEW q, NEW d, AloneIn(q, d)
  PROVE  \/ CurrentIn(q, d) = Idle /\ \A x \in Own(d) : q[x] = Idle
         \/ \E r \in Own(d) : /\ CurrentIn(q, d) = q[r] /\ q[r] # Idle
                             /\ \A x \in Own(d) \ {r} : q[x] = Idle
<1>1. CASE \A x \in Own(d) : q[x] = Idle
  BY <1>1 DEF CurrentIn
<1>2. ASSUME NEW r \in Own(d), q[r] # Idle
      PROVE  CurrentIn(q, d) = q[r] /\ \A x \in Own(d) \ {r} : q[x] = Idle
  <2>1. \A x \in Own(d) \ {r} : q[x] = Idle
    BY <1>2 DEF AloneIn
  <2> QED
    BY <2>1, CurrentIs
<1> QED
  BY <1>1, <1>2

LEMMA CurrentType ==
  ASSUME TypeInv, NEW d \in Devices, Alone(d)
  PROVE  Current(d) \in Handling \cup {Idle}
BY CurrentThere DEF Alone, Current, Own, TypeInv, TypeOK

(* What the only request of a device leaves unsettled is what it owes. *)
LEMMA UnsettledIs ==
  ASSUME TypeInv, NEW R \in SUBSET Requests, NEW d \in Devices, NEW k, Alone(d)
  PROVE  /\ (\A x \in Own(d) \ R : req[x] = Idle) =>
               Unsettled({r \in R : Device(r) = d}, k) = Owed(d, k)
         /\ R \cap Own(d) = {} => Unsettled({r \in R : Device(r) = d}, k) = 0
         /\ Owed(d, k) \in Nat
<1> DEFINE S == {r \in R : Device(r) = d}
           Added == {r \in S : req[r].pc = "upsert" /\ req[r].prev # NoRow /\ ~req[r].failed}
           o == [r \in Added |-> SumFunction([h \in Hours |-> Seconds(Interval(r), h, k)])]
<1>1. S \subseteq Own(d)
  BY DEF Own
<1>2. Unsettled(S, k) = SumFunctionOnSet(o, Added)
  BY DEF Unsettled, SumFunction
<1>3. SumFunctionOnSet(o, {}) = 0
  BY FS_EmptySet, SumUnfolds
<1>4. R \cap Own(d) = {} => Unsettled(S, k) = 0
  <2>1. R \cap Own(d) = {} => Added = {}
    BY <1>1
  <2> HIDE DEF o
  <2> QED
    BY <1>2, <1>3, <2>1
<1>5. Idle.pc = "idle"
  BY DEF Idle
<1>6. CASE ~Pending(d)
  <2>1. Added = {}
    <3>1. SUFFICES ASSUME NEW r \in Added PROVE FALSE
      OBVIOUS
    <3>2. r \in Own(d) /\ req[r] # Idle
      BY <1>1, <1>5, <3>1
    <3>3. Current(d) = req[r]
      BY <3>2, CurrentThere DEF Alone, Current
    <3> QED
      BY <1>6, <3>1, <3>3 DEF Pending
  <2>2. Owed(d, k) = 0
    BY <1>6 DEF Owed
  <2> HIDE DEF o
  <2> QED
    BY <1>2, <1>3, <1>4, <2>1, <2>2
<1>7. CASE Pending(d)
  <2>1. PICK r \in Own(d) : /\ Current(d) = req[r] /\ req[r] # Idle
                            /\ \A x \in Own(d) \ {r} : req[x] = Idle
    BY <1>5, <1>7, CurrentThere DEF Alone, Current, Pending
  <2>2. req[r] \in Handling /\ r \in Requests /\ Device(r) = d
    BY <2>1 DEF Own, TypeInv, TypeOK
  <2>3. /\ req[r].prev \in Rows /\ req[r].at \in 0..MaxNow
        /\ Owed(d, k) = Worth(req[r].prev, req[r].at, k)
    BY <1>7, <2>1, <2>2 DEF Pending, Owed, Handling
  <2>4. \E p, at : p = req[r].prev /\ at = req[r].at
    OBVIOUS
  <2>5. PICK p, at : p = req[r].prev /\ at = req[r].at
    BY <2>4, Zenon
  <2>6. PICK f : f = [h \in Hours |-> Seconds(Interval(r), h, k)]
    OBVIOUS
  <2>7. f = [h \in Hours |-> Seconds(Attribute(p.act, p.seen * TicksPerSecond, at), h, k)]
    BY <2>5, <2>6 DEF Interval
  <2>8. SumFunction(f) = Owed(d, k) /\ Owed(d, k) \in Nat
    BY <2>3, <2>5, <2>7, IntervalTotal
  <2>9. r \in R => Added = {r} /\ o[r] = Owed(d, k)
    <3>1. r \in R => Added = {r}
      BY <1>1, <1>5, <1>7, <2>1, <2>2 DEF Pending
    <3> QED
      BY <2>6, <2>8, <3>1
  <2> HIDE DEF o
  <2>10. r \in R => SumFunctionOnSet(o, {r}) = o[r]
    <3>1. IsFiniteSet({r}) /\ \A x \in {r} \ {r} : o[x] = 0
      BY FS_Singleton
    <3>2. r \in R => o[r] \in Int
      BY <2>8, <2>9
    <3> QED
      BY <3>1, <3>2, SumOfOne
  <2> QED
    BY <1>2, <1>4, <2>1, <2>8, <2>9, <2>10
<1> QED
  BY <1>6, <1>7

(* What a step may be for one device: it does not concern the books or the  *)
(* pending interval of d ...                                                *)
Keeps(d) ==
    /\ row'[d] = row[d] /\ bucket'[d] = bucket[d]
    /\ due'[d] = due[d] /\ twice'[d] = twice[d] /\ pruned'[d] = pruned[d]
    /\ Pending(d)' <=> Pending(d)
    /\ Pending(d) => Current(d)' = Current(d)

(* ... or it adds the interval since the row of d, which is pending then, ...*)
Adds(d) ==
    /\ row'[d] = row[d] /\ due'[d] = due[d] /\ twice'[d] = twice[d] /\ pruned'[d] = pruned[d]
    /\ ~Pending(d) /\ Pending(d)'
    /\ row[d] \in Rows /\ Current(d).at \in 0..MaxNow
    /\ row[d].seen <= Second(Current(d).at)
    /\ Current(d)'.prev = row[d] /\ Current(d)'.at = Current(d).at
    /\ bucket'[d] = [h \in Hours |-> [k \in Keys |-> bucket[d][h][k] +
                       Seconds(Attribute(row[d].act, row[d].seen * TicksPerSecond,
                                         Current(d).at), h, k)]]

(* ... or it stores the report that ends what is pending, ...               *)
Stores(d) ==
    /\ bucket'[d] = bucket[d] /\ twice'[d] = twice[d] /\ pruned'[d] = pruned[d]
    /\ ~Pending(d)'
    /\ Pending(d) => Current(d).prev = row[d]
    /\ Current(d).at \in 0..MaxNow
    /\ row[d] # NoRow => row[d].seen <= Second(Current(d).at)
    /\ row'[d] # NoRow /\ row'[d].seen = Second(Current(d).at)
    /\ \A k \in Keys : due'[d][k] = due[d][k] + Owed(d, k)

(* ... or it loses that report, ...                                         *)
Loses(d) ==
    /\ row'[d] = row[d] /\ bucket'[d] = bucket[d]
    /\ due'[d] = due[d] /\ pruned'[d] = pruned[d]
    /\ ~Pending(d)'
    /\ Pending(d) => Current(d).prev = row[d] /\ Current(d).at \in 0..MaxNow
    /\ \A k \in Keys : twice'[d][k] = twice[d][k] + Owed(d, k)

(* ... or it deletes hours.                                                 *)
Prunes(d) ==
    /\ row'[d] = row[d] /\ due'[d] = due[d] /\ twice'[d] = twice[d]
    /\ req' = req
    /\ \A k \in Keys : pruned'[d][k] = pruned[d][k] +
            SumFunction([h \in {x \in Hours : Expired(x)} |-> bucket[d][h][k]])
    /\ \A h \in Hours : bucket'[d][h] = IF Expired(h) THEN Zero ELSE bucket[d][h]

(* What r is called on the way through the handler is to be Device(r)''s.   *)
LEMMA OwnIs == ASSUME NEW r \in Requests PROVE Device(r) \in Devices /\ r \in Own(Device(r))
BY DEF Requests, Device, Own

(* A step of a request changes no other request of any device. *)
LEMMA OthersWait ==
  ASSUME TypeInv, NEW r \in Requests, Handle(r) \/ \E a \in Activities : Accept(r, a)
  PROVE  now' = now /\ \A x \in Requests \ {r} : req'[x] = req[x]
BY DEF Handle, Accept, Read, ReadFails, AddUsage, AddUsageFails, Upsert, UpsertFails,
       TypeInv, TypeOK

(* A step of another device's request leaves d alone. *)
LEMMA OthersKeep ==
  ASSUME TypeInv, NEW d \in Devices, NEW r \in Requests, Device(r) # d, Alone(d),
         Handle(r) \/ \E a \in Activities : Accept(r, a)
  PROVE  Keeps(d) /\ Current(d)' = Current(d) /\ now' = now /\ Alone(d)'
<1>1. r \notin Own(d) /\ Device(r) \in Devices
  BY OwnIs DEF Own
<1>2. now' = now /\ \A x \in Own(d) : req'[x] = req[x]
  BY <1>1, OthersWait DEF Own
<1>3. Current(d)' = Current(d) /\ Alone(d)'
  <2>1. Alone(d)'
    BY <1>2 DEF Alone, AloneIn
  <2>2. CurrentIn(req', d) = CurrentIn(req, d)
    <3>1. CASE \A x \in Own(d) : req[x] = Idle
      BY <1>2, <3>1 DEF CurrentIn
    <3>2. CASE \E x \in Own(d) : req[x] # Idle
      <4>1. PICK x \in Own(d) : req[x] # Idle
        BY <3>2
      <4>2. \A y \in Own(d) \ {x} : req[y] = Idle /\ req'[y] = Idle
        BY <1>2, <4>1 DEF Alone, AloneIn
      <4> QED
        BY <1>2, <4>2, CurrentIs
    <3> QED
      BY <3>1, <3>2
  <2> QED
    BY <2>1, <2>2 DEF Current
<1>4. row'[d] = row[d] /\ bucket'[d] = bucket[d] /\ pruned'[d] = pruned[d]
  BY <1>1 DEF Handle, Accept, Read, ReadFails, AddUsage, AddUsageFails, Upsert, UpsertFails,
              TypeInv, TypeOK
<1>5. due'[d] = due[d]
  <2>1. CASE Upsert(r)
    BY <1>1, <2>1 DEF Upsert, TypeInv, TypeOK
  <2>2. ASSUME NEW a \in Activities, Accept(r, a) PROVE due'[d] = due[d]
    BY <1>1, <2>2 DEF Accept, TypeInv, TypeOK
  <2> QED
    BY <2>1, <2>2 DEF Handle, Read, ReadFails, AddUsage, AddUsageFails, UpsertFails
<1>6. twice'[d] = twice[d]
  <2>1. CASE UpsertFails(r)
    <3>1. {r} \in SUBSET Requests /\ {r} \cap Own(d) = {}
      BY <1>1
    <3> DEFINE u(k) == Unsettled({x \in {r} : Device(x) = d}, k)
    <3>2. \A k \in Keys : u(k) = 0
      BY <3>1, UnsettledIs
    <3>3. twice'[d] = [k \in Keys |-> twice[d][k] + u(k)]
      BY <2>1 DEF UpsertFails, NoteTwice
    <3>4. twice[d] \in [Keys -> Nat]
      BY DEF TypeInv, TypeOK
    <3> HIDE DEF u
    <3> QED
      BY <3>2, <3>3, <3>4
  <2> QED
    BY <2>1 DEF Handle, Accept, Read, ReadFails, AddUsage, AddUsageFails, Upsert
<1> QED
  BY <1>2, <1>3, <1>4, <1>5, <1>6 DEF Keeps, Pending

(* The step of the one request of d itself. *)
LEMMA OwnStep ==
  ASSUME TypeInv, NEW d \in Devices, RowHeld(d), Alone(d), overlap[d] = 0, overlap'[d] = 0,
         NEW r \in Requests, Device(r) = d,
         Handle(r) \/ \E a \in Activities : Accept(r, a)
  PROVE  (Keeps(d) \/ Adds(d) \/ Stores(d) \/ Loses(d)) /\ RowHeld(d)' /\ Alone(d)'
<1>0. r \in Own(d)
  BY DEF Own
<1>01. \A x \in Own(d) \ {r} : req[x] = Idle /\ req'[x] = Idle
  <2>1. CASE Handle(r)
    <3>1. req[r] # Idle
      BY <2>1 DEF Handle, Read, ReadFails, AddUsage, AddUsageFails, Upsert, UpsertFails, Idle
    <3>2. \A x \in Own(d) \ {r} : req[x] = Idle
      BY <1>0, <3>1 DEF Alone, AloneIn
    <3> QED
      BY <3>2, OthersWait DEF Own
  <2>2. ASSUME NEW a \in Activities, Accept(r, a)
        PROVE  \A x \in Own(d) \ {r} : req[x] = Idle /\ req'[x] = Idle
    <3>1. ~Crosses(r)
      BY <2>2 DEF Accept, TypeInv, TypeOK
    <3>2. \A x \in Own(d) \ {r} : req[x] = Idle
      BY <3>1 DEF Crosses, Own
    <3> QED
      BY <2>2, <3>2, OthersWait DEF Own
  <2> QED
    BY <2>1, <2>2
<1>02. Current(d) = req[r] /\ Current(d)' = req'[r] /\ Alone(d)'
  BY <1>0, <1>01, CurrentIs DEF Current, Alone
<1> HIDE <1>01
<1>03. SUFFICES (Keeps(d) \/ Adds(d) \/ Stores(d) \/ Loses(d)) /\ RowHeld(d)'
  BY <1>02
<1>1. ASSUME NEW a \in Activities, Accept(r, a) PROVE Keeps(d) /\ RowHeld(d)'
  <2>1. req'[r] = [pc |-> "read", at |-> now, act |-> a, prev |-> NoRow, failed |-> FALSE]
    BY <1>0, <1>1 DEF Accept, TypeInv, TypeOK
  <2>2. req[r].pc = "idle" /\ now \in Nat
    BY <1>1, LedgerAssumption DEF Accept, Idle, TypeInv, TypeOK
  <2>21. due' = due /\ pruned' = pruned
    BY <1>0, <1>1 DEF Accept, TypeInv, TypeOK, Own
  <2>22. ~Pending(d) /\ ~Pending(d)'
    BY <1>02, <2>1, <2>2 DEF Pending
  <2>3. Keeps(d)
    BY <1>1, <2>21, <2>22 DEF Accept, Keeps
  <2>4. RowHeld(d)'
    BY <1>02, <1>1, <2>1, <2>2 DEF Accept, RowHeld
  <2> QED
    BY <2>3, <2>4
<1>2. CASE Read(r)
  <2>1. /\ req[r].pc = "read" /\ req[r] \in Handling /\ row[d] \in Rows \cup {NoRow}
        /\ req[r] # Idle
    BY <1>0, <1>2 DEF Read, Idle, TypeInv, TypeOK
  <2>2. /\ req'[r].prev = row[d] /\ req'[r].pc = IF row[d] = NoRow THEN "upsert" ELSE "add"
        /\ req'[r].at = req[r].at /\ req'[r].failed = req[r].failed
    BY <1>0, <1>2, <2>1 DEF Read, Handling, TypeInv, TypeOK
  <2>3. Keeps(d)
    BY <1>02, <1>2, <2>1, <2>2 DEF Read, Keeps, Pending
  <2>4. RowHeld(d)'
    BY <1>02, <1>2, <2>1, <2>2 DEF Read, RowHeld
  <2> QED
    BY <2>3, <2>4
<1>3. CASE ReadFails(r) \/ AddUsageFails(r)
  <2>1. /\ req[r].pc \in {"read", "add"} /\ req[r] \in Handling /\ req[r] # Idle
    BY <1>0, <1>3 DEF ReadFails, AddUsageFails, Idle, TypeInv, TypeOK
  <2>2. req'[r].pc = "upsert" /\ req'[r].failed = TRUE /\ req'[r].at = req[r].at
    BY <1>0, <1>3, <2>1 DEF ReadFails, AddUsageFails, Handling, TypeInv, TypeOK
  <2>3. Keeps(d)
    BY <1>02, <1>3, <2>1, <2>2 DEF ReadFails, AddUsageFails, Keeps, Pending
  <2>4. RowHeld(d)'
    BY <1>02, <1>3, <2>1, <2>2 DEF ReadFails, AddUsageFails, RowHeld
  <2> QED
    BY <2>3, <2>4
<1>4. CASE AddUsage(r)
  <2>1. /\ req[r].pc = "add" /\ req[r] \in Handling /\ req[r] # Idle
        /\ req[r].prev \in Rows
    BY <1>02, <1>0, <1>4 DEF AddUsage, Idle, TypeInv, TypeOK, AddsForARow
  <2>2. /\ req'[r].pc = "upsert" /\ req'[r].failed = req[r].failed /\ req'[r].at = req[r].at
        /\ req'[r].prev = req[r].prev
    BY <1>0, <1>4, <2>1 DEF AddUsage, Handling, TypeInv, TypeOK
  <2>3. ~req[r].failed /\ req[r].prev = row[d] /\ row[d] \in Rows /\ row[d] # NoRow
    BY <1>02, <2>1 DEF RowHeld, Rows, NoRow
  <2>4. RowHeld(d)'
    BY <1>02, <1>4, <2>1, <2>2, <2>3 DEF AddUsage, RowHeld
  <2>5. ~Pending(d) /\ Pending(d)'
    BY <1>02, <2>1, <2>2, <2>3 DEF Pending
  <2>6. bucket'[d] = [h \in Hours |-> [k \in Keys |-> bucket[d][h][k] +
                        Seconds(Attribute(row[d].act, row[d].seen * TicksPerSecond,
                                          req[r].at), h, k)]]
    BY <1>0, <1>4, <2>3 DEF AddUsage, Interval, TypeInv, TypeOK
  <2>7. req[r].at \in 0..MaxNow /\ row[d].seen <= Second(req[r].at)
    BY <1>02, <2>1, <2>3 DEF RowHeld, Handling
  <2>8. row'[d] = row[d] /\ due'[d] = due[d] /\ twice'[d] = twice[d] /\ pruned'[d] = pruned[d]
    BY <1>4 DEF AddUsage
  <2> QED
    BY <1>02, <2>2, <2>3, <2>4, <2>5, <2>6, <2>7, <2>8 DEF Adds
<1>5. CASE Upsert(r)
  <2>1. /\ req[r].pc = "upsert" /\ req[r] \in Handling /\ req[r] # Idle
        /\ row[d] \in Rows \cup {NoRow}
    BY <1>0, <1>5 DEF Upsert, Idle, TypeInv, TypeOK
  <2>2. req'[r] = Idle /\ Idle.pc = "idle"
    BY <1>0, <1>5 DEF Upsert, Idle, TypeInv, TypeOK
  <2>3. row'[d] = [seen |-> Second(req[r].at), act |-> req[r].act]
    BY <1>0, <1>5 DEF Upsert, TypeInv, TypeOK
  <2>4. /\ req[r].at \in Nat /\ now \in Nat /\ req[r].at <= now /\ req[r].at \in 0..MaxNow
        /\ row[d] # NoRow => row[d].seen <= Second(req[r].at)
        /\ Pending(d) => req[r].prev = row[d]
    BY <1>02, <2>1, LedgerAssumption DEF RowHeld, TypeInv, TypeOK, Handling, Pending
  <2>5. Second(req[r].at) \in Nat /\ Second(req[r].at) <= Second(now)
    BY <2>4, SecondType
  <2>6. row'[d] # NoRow /\ row'[d].seen = Second(req[r].at)
    BY <2>3, <2>5 DEF NoRow
  <2>7. RowHeld(d)'
    BY <1>02, <1>5, <2>2, <2>5, <2>6 DEF Upsert, RowHeld
  <2>8. Pending(d) <=> row[d] # NoRow /\ ~req[r].failed
    BY <1>02, <2>1 DEF Pending, RowHeld
  <2>9. \A k \in Keys : due'[d][k] = due[d][k] + Owed(d, k)
    <3>1. due \in [Devices -> [Keys -> Nat]]
      BY DEF TypeInv, TypeOK
    <3>2. CASE Pending(d) /\ Creditable(row[d].seen, Second(req[r].at))
      <4>1. PICK gain : gain = Second(req[r].at) - row[d].seen
        OBVIOUS
      <4>2. row[d] \in Rows /\ row[d] # NoRow /\ ~req[r].failed
        BY <2>1, <2>8, <3>2
      <4>3. gain \in 1..MaxGap /\ gain \in Nat
        BY <2>5, <3>2, <4>1, <4>2, ConstantTypes, AttributionAssumption DEF Creditable, Rows
      <4>4. due' = [due EXCEPT ![d][Key(row[d].act)] = @ + gain]
        BY <1>0, <1>02, <1>5, <4>1, <4>2, <4>3 DEF Upsert
      <4>5. \A k \in Keys : Owed(d, k) = IF k = Key(row[d].act) THEN gain ELSE 0
        BY <1>02, <2>4, <3>2, <4>1 DEF Owed, Worth
      <4> QED
        BY <3>1, <4>3, <4>4, <4>5
    <3>3. CASE ~(Pending(d) /\ Creditable(row[d].seen, Second(req[r].at)))
      <4>1. due' = due
        <5>1. SUFFICES ASSUME Pending(d), Second(req[r].at) - row[d].seen \in 1..MaxGap
                       PROVE FALSE
          BY <1>0, <1>5, <2>8 DEF Upsert
        <5>2. row[d].seen \in Nat
          BY <2>1, <2>8, <5>1, ConstantTypes DEF Rows
        <5> QED
          BY <2>5, <3>3, <5>1, <5>2, AttributionAssumption DEF Creditable
      <4>2. \A k \in Keys : Owed(d, k) = 0
        BY <1>02, <2>4, <3>3 DEF Owed, Worth
      <4> QED
        BY <3>1, <4>1, <4>2
    <3> QED
      BY <3>2, <3>3
  <2>10. ~Pending(d)'
    BY <1>02, <2>2 DEF Pending
  <2>11. bucket'[d] = bucket[d] /\ twice'[d] = twice[d] /\ pruned'[d] = pruned[d]
    BY <1>5 DEF Upsert
  <2> QED
    BY <1>02, <2>4, <2>6, <2>7, <2>9, <2>10, <2>11 DEF Stores
<1>6. CASE UpsertFails(r)
  <2>1. req[r].pc = "upsert" /\ req[r] \in Handling /\ req[r] # Idle
    BY <1>0, <1>6 DEF UpsertFails, Idle, TypeInv, TypeOK
  <2>2. req'[r] = Idle /\ Idle.pc = "idle"
    BY <1>0, <1>6 DEF UpsertFails, Idle, TypeInv, TypeOK
  <2>3. RowHeld(d)'
    BY <1>02, <1>6, <2>2 DEF UpsertFails, RowHeld
  <2>4. ~Pending(d)' /\ (Pending(d) => req[r].prev = row[d] /\ req[r].at \in 0..MaxNow)
    BY <1>02, <2>1, <2>2 DEF Pending, RowHeld, Handling
  <2>5. \A k \in Keys : twice'[d][k] = twice[d][k] + Owed(d, k)
    <3>1. {r} \in SUBSET Requests /\ r \in {r}
      BY <1>0
    <3>11. \A x \in Own(d) \ {r} : req[x] = Idle
      BY <1>01
    <3>2. \A k \in Keys : Unsettled({x \in {r} : Device(x) = d}, k) = Owed(d, k)
      BY <3>1, <3>11, UnsettledIs
    <3> QED
      BY <1>6, <3>2 DEF UpsertFails, NoteTwice
  <2>6. row'[d] = row[d] /\ bucket'[d] = bucket[d] /\ due'[d] = due[d] /\ pruned'[d] = pruned[d]
    BY <1>6 DEF UpsertFails
  <2> QED
    BY <1>02, <2>3, <2>4, <2>5, <2>6 DEF Loses
<1> QED
  BY <1>1, <1>2, <1>3, <1>4, <1>5, <1>6 DEF Handle

(* Every step is one of these for a device none of whose requests has found *)
(* another under way, and no request loses hold of its row.                 *)
LEMMA StepKinds ==
  ASSUME TypeInv, NEW d \in Devices, RowHeld(d), Alone(d), overlap[d] = 0, overlap'[d] = 0,
         [Next]_vars
  PROVE  /\ Keeps(d) \/ Adds(d) \/ Stores(d) \/ Loses(d) \/ Prunes(d)
         /\ RowHeld(d)' /\ Alone(d)'
<1>1. CASE UNCHANGED vars
  BY <1>1 DEF vars, Keeps, RowHeld, Pending, Current, Alone
<1>2. ASSUME NEW r \in Requests, Handle(r) \/ \E a \in Activities : Accept(r, a)
      PROVE  /\ Keeps(d) \/ Adds(d) \/ Stores(d) \/ Loses(d)
             /\ RowHeld(d)' /\ Alone(d)'
  <2>1. CASE Device(r) = d
    BY <1>2, <2>1, OwnStep
  <2>2. CASE Device(r) # d
    <3>1. Keeps(d) /\ Current(d)' = Current(d) /\ now' = now /\ Alone(d)'
      BY <1>2, <2>2, OthersKeep
    <3> QED
      BY <3>1 DEF Keeps, RowHeld
  <2> QED
    BY <2>1, <2>2
<1>3. CASE Prune
  <2>1. Current(d)' = Current(d) /\ Alone(d)'
    BY <1>3 DEF Prune, Current, Alone
  <2>2. Prunes(d)
    BY <1>3 DEF Prune, Prunes
  <2>3. RowHeld(d)'
    BY <1>3, <2>1 DEF Prune, RowHeld
  <2> QED
    BY <2>1, <2>2, <2>3
<1>4. CASE Tick
  <2>0. Current(d)' = Current(d) /\ Alone(d)'
    BY <1>4 DEF Tick, Current, Alone
  <2>1. Keeps(d)
    BY <1>4, <2>0 DEF Tick, Keeps, Pending
  <2>2. now \in Nat /\ now' \in Nat /\ now <= now'
    BY <1>4, LedgerAssumption DEF Tick, TypeInv, TypeOK
  <2>3. Second(now) \in Nat /\ Second(now') \in Nat /\ Second(now) <= Second(now')
    BY <2>2, SecondType
  <2>4. row[d] # NoRow => row[d].seen \in Nat
    BY ConstantTypes DEF TypeInv, TypeOK, Rows
  <2>5. Current(d) # Idle => Current(d).at \in Nat
    BY CurrentType, LedgerAssumption DEF Handling
  <2>6. Second(now)' = Second(now')
    BY DEF Second
  <2>7. RowHeld(d)'
    BY <1>4, <2>0, <2>2, <2>3, <2>4, <2>5, <2>6 DEF Tick, RowHeld
  <2> QED
    BY <2>0, <2>1, <2>7
<1>5. CASE Crash
  <2>0. \A x \in Own(d) : req'[x] = Idle
    BY <1>5 DEF Crash, Own
  <2>1. Current(d)' = Idle /\ Idle.pc = "idle" /\ Alone(d)'
    BY <2>0 DEF Idle, Current, CurrentIn, Alone, AloneIn
  <2>2. RowHeld(d)'
    BY <1>5, <2>1 DEF Crash, RowHeld
  <2>3. ~Pending(d)'
    BY <2>1 DEF Pending
  <2>4. Pending(d) => Current(d).prev = row[d] /\ Current(d).at \in 0..MaxNow
    BY CurrentType DEF Pending, RowHeld, Handling, Idle
  <2>5. \A k \in Keys : twice'[d][k] = twice[d][k] + Owed(d, k)
    <3>1. Own(d) \ Requests = {}
      BY DEF Own
    <3>2. \A k \in Keys : Unsettled({x \in Requests : Device(x) = d}, k) = Owed(d, k)
      BY <3>1, UnsettledIs
    <3> QED
      BY <1>5, <3>2 DEF Crash, NoteTwice
  <2>6. row'[d] = row[d] /\ bucket'[d] = bucket[d] /\ due'[d] = due[d] /\ pruned'[d] = pruned[d]
    BY <1>5 DEF Crash
  <2> QED
    BY <2>1, <2>2, <2>3, <2>4, <2>5, <2>6 DEF Loses
<1> QED
  BY <1>1, <1>2, <1>3, <1>4, <1>5 DEF Next
-----------------------------------------------------------------------------
(* The books balance *)

LEMMA BalanceStep ==
  ASSUME TypeInv, TypeInv', NEW d \in Devices, Alone(d), Balanced(d),
         Keeps(d) \/ Adds(d) \/ Stores(d) \/ Loses(d) \/ Prunes(d)
  PROVE  Balanced(d)'
<1> DEFINE col(k) == [h \in Hours |-> bucket[d][h][k]]
           Total(k) == SumFunctionOnSet(col(k), Hours)
<1>0. IsFiniteSet(Hours)
  BY ConstantTypes
<1>1. \A k \in Keys : SumFunction([h \in Hours |-> bucket[d][h][k]]) = Total(k)
  BY DEF SumFunction
<1>2. ASSUME NEW k \in Keys
      PROVE  /\ Total(k) \in Nat /\ Owed(d, k) \in Nat /\ due[d][k] \in Nat /\ twice[d][k] \in Nat
             /\ pruned[d][k] \in Nat /\ due'[d][k] \in Nat /\ twice'[d][k] \in Nat
             /\ Total(k) + pruned[d][k] = due[d][k] + twice[d][k] + Owed(d, k)
  <2>1. \A h \in Hours : col(k)[h] \in Nat
    BY DEF TypeInv, TypeOK
  <2>2. Total(k) \in Nat
    <3> HIDE DEF col
    <3> QED
      BY <1>0, <2>1, SumNat
  <2>3. Requests \in SUBSET Requests
    OBVIOUS
  <2>4. Owed(d, k) \in Nat
    BY <2>3, UnsettledIs, Zenon
  <2>5. Total(k) + pruned[d][k] = due[d][k] + twice[d][k] + Owed(d, k)
    BY <1>1 DEF Balanced
  <2> HIDE DEF Total
  <2> QED
    BY <2>2, <2>4, <2>5 DEF TypeInv, TypeOK
<1>3. SUFFICES ASSUME NEW k \in Keys
               PROVE  Total(k)' + pruned'[d][k] = due'[d][k] + twice'[d][k] + Owed(d, k)'
  BY <1>1 DEF Balanced, SumFunction
<1>4. CASE Keeps(d)
  <2>1. Total(k)' = Total(k)
    BY <1>4 DEF Keeps
  <2>2. Owed(d, k)' = Owed(d, k)
    BY <1>4 DEF Keeps, Owed, Worth, Creditable, Second
  <2> HIDE DEF Total
  <2> QED
    BY <1>2, <1>4, <2>1, <2>2 DEF Keeps
<1>5. CASE Adds(d)
  <2>1. \E p, at : p = row[d] /\ at = Current(d).at
    OBVIOUS
  <2>2. PICK p, at : p = row[d] /\ at = Current(d).at
    BY <2>1, Zenon
  <2>3. PICK g : g = [h \in Hours |->
                        Seconds(Attribute(p.act, p.seen * TicksPerSecond, at), h, k)]
    OBVIOUS
  <2>4. p \in Rows /\ at \in 0..MaxNow
    BY <1>5, <2>2 DEF Adds
  <2>5. SumFunction(g) = Worth(p, at, k)
    BY <2>3, <2>4, IntervalTotal
  <2>6. SumFunction(g) = SumFunctionOnSet(g, Hours)
    BY <2>3 DEF SumFunction
  <2>7. PICK f : f = col(k)
    OBVIOUS
  <2>8. PICK f2 : f2 = col(k)'
    OBVIOUS
  <2>9. \A h \in Hours : f[h] \in Int /\ g[h] \in Int /\ f2[h] = f[h] + g[h]
    <3>1. \A h \in Hours : f[h] = bucket[d][h][k] /\ f[h] \in Int
      BY <2>7 DEF TypeInv, TypeOK
    <3>2. \A h \in Hours : g[h] \in Int
      BY <2>3, <2>4, SecondsType
    <3>3. \A h \in Hours : f2[h] = bucket'[d][h][k]
      BY <2>8
    <3>4. \A h \in Hours : bucket'[d][h][k] = bucket[d][h][k] + g[h]
      BY <1>5, <2>2, <2>3 DEF Adds
    <3> QED
      BY <3>1, <3>2, <3>3, <3>4
  <2>10. SumFunctionOnSet(f2, Hours) = SumFunctionOnSet(f, Hours) + SumFunctionOnSet(g, Hours)
    BY <1>0, <2>9, SumOfSums
  <2>11. Total(k)' = Total(k) + Worth(p, at, k)
    BY <2>5, <2>6, <2>7, <2>8, <2>10
  <2>12. Owed(d, k) = 0
    BY <1>5 DEF Adds, Owed
  <2>13. Owed(d, k)' = Worth(p, at, k)
    BY <1>5, <2>2 DEF Adds, Owed, Worth, Second, Creditable
  <2>14. Worth(p, at, k) \in Nat
    BY <2>3, <2>4, IntervalTotal
  <2> HIDE DEF Total
  <2> QED
    BY <1>2, <1>5, <2>11, <2>12, <2>13, <2>14 DEF Adds
<1>6. CASE Stores(d)
  <2>1. Total(k)' = Total(k)
    BY <1>6 DEF Stores
  <2>2. Owed(d, k)' = 0
    BY <1>6 DEF Stores, Owed
  <2> HIDE DEF Total
  <2> QED
    BY <1>2, <1>6, <2>1, <2>2 DEF Stores
<1>7. CASE Loses(d)
  <2>1. Total(k)' = Total(k)
    BY <1>7 DEF Loses
  <2>2. Owed(d, k)' = 0
    BY <1>7 DEF Loses, Owed
  <2> HIDE DEF Total
  <2> QED
    BY <1>2, <1>7, <2>1, <2>2 DEF Loses
<1>8. CASE Prunes(d)
  <2>1. PICK E : E = {x \in Hours : Expired(x)}
    OBVIOUS
  <2>2. PICK f : f = col(k)
    OBVIOUS
  <2>3. PICK f2 : f2 = col(k)'
    OBVIOUS
  <2>4. \A h \in Hours : f[h] = bucket[d][h][k] /\ f[h] \in Int
    BY <2>2 DEF TypeInv, TypeOK
  <2>5. \A h \in Hours : f2[h] = IF h \in E THEN 0 ELSE f[h]
    <3>1. \A h \in Hours : f2[h] = bucket'[d][h][k]
      BY <2>3
    <3> QED
      BY <1>8, <2>1, <2>4, <3>1 DEF Prunes, Zero
  <2>6. E \in SUBSET Hours /\ IsFiniteSet(E) /\ IsFiniteSet(Hours \ E)
    BY <1>0, <2>1, FS_Subset
  <2>7. \A h \in Hours : f2[h] \in Int
    BY <2>4, <2>5
  <2>8. SumFunctionOnSet(f, Hours) = SumFunctionOnSet(f, E) + SumFunctionOnSet(f, Hours \ E)
    BY <1>0, <2>4, <2>6, SumSplits
  <2>9. SumFunctionOnSet(f2, Hours) = SumFunctionOnSet(f2, E) + SumFunctionOnSet(f2, Hours \ E)
    BY <1>0, <2>6, <2>7, SumSplits
  <2>10. SumFunctionOnSet(f2, E) = 0
    <3>1. \A h \in E : f2[h] = 0
      BY <2>5, <2>6
    <3> QED
      BY <2>6, <3>1, SumOfZeros
  <2>11. SumFunctionOnSet(f2, Hours \ E) = SumFunctionOnSet(f, Hours \ E)
    <3>1. \A h \in Hours \ E : f2[h] = f[h]
      BY <2>5
    <3> QED
      BY <2>6, <3>1, SumSame
  <2>12. SumFunctionOnSet(f, E) \in Nat /\ SumFunctionOnSet(f, Hours \ E) \in Nat
    <3>1. (\A h \in E : f[h] \in Nat) /\ (\A h \in Hours \ E : f[h] \in Nat)
      BY <2>2, <2>6 DEF TypeInv, TypeOK
    <3> QED
      BY <2>6, <3>1, SumNat
  <2>13. pruned'[d][k] = pruned[d][k] + SumFunctionOnSet(f, E)
    <3> DEFINE e == [h \in E |-> bucket[d][h][k]]
    <3>1. pruned'[d][k] = pruned[d][k] + SumFunction(e)
      BY <1>8, <2>1 DEF Prunes
    <3>2. SumFunction(e) = SumFunctionOnSet(e, E)
      BY DEF SumFunction
    <3>3. \A h \in E : e[h] = f[h]
      BY <2>4, <2>6
    <3> HIDE DEF e
    <3>4. SumFunctionOnSet(e, E) = SumFunctionOnSet(f, E)
      BY <2>6, <3>3, SumSame
    <3> QED
      BY <3>1, <3>2, <3>4
  <2>14. Total(k) = SumFunctionOnSet(f, Hours) /\ Total(k)' = SumFunctionOnSet(f2, Hours)
    BY <2>2, <2>3
  <2>15. Owed(d, k)' = Owed(d, k)
    BY <1>8 DEF Prunes, Owed, Worth, Pending, Second, Creditable, Current
  <2> HIDE DEF Total
  <2> QED
    BY <1>2, <1>8, <2>8, <2>9, <2>10, <2>11, <2>12, <2>13, <2>14, <2>15 DEF Prunes
<1> QED
  BY <1>4, <1>5, <1>6, <1>7, <1>8
-----------------------------------------------------------------------------
(* How full an hour is *)

(* An hour holds the more of an interval from 0 the longer it is, and never *)
(* more than was added to the interval.                                     *)
LEMMA OverlapGrows ==
  ASSUME NEW s \in Nat, NEW t \in Nat, NEW h \in Nat, s <= t
  PROVE  /\ Overlap(0, s, h) \in Nat /\ Overlap(0, t, h) \in Nat /\ Overlap(s, t, h) \in Nat
         /\ Overlap(0, t, h) = Overlap(0, s, h) + Overlap(s, t, h)
         /\ Overlap(s, t, h) <= t - s
<1>1. /\ HourLen \in Nat \ {0} /\ h * HourLen \in Nat
      /\ (h + 1) * HourLen = h * HourLen + HourLen
  BY AttributionAssumption, Products
<1>2. Overlap(s, t, h) <= t - s
  BY <1>1 DEF Overlap
<1>3. \A x \in 0..HourLen : x \in Nat
  BY <1>1
<1>4. /\ Overlap(0, s, h) \in 0..HourLen /\ Overlap(0, t, h) \in 0..HourLen
      /\ Overlap(s, t, h) \in 0..HourLen
  BY OverlapType
<1>5. Overlap(0, t, h) = Overlap(0, s, h) + Overlap(s, t, h)
  <2>1. 0 \in Nat /\ 0 <= s
    OBVIOUS
  <2> QED
    BY <2>1, OverlapJoins
<1> QED
  BY <1>2, <1>3, <1>4, <1>5

LEMMA SumsOfDevice ==
  ASSUME TypeInv, NEW d \in Devices, NEW h \in Hours
  PROVE  /\ Booked(d, h) = SumFunctionOnSet(bucket[d][h], Keys)
         /\ SumFunction(twice[d]) = SumFunctionOnSet(twice[d], Keys)
         /\ \A k \in Keys : bucket[d][h][k] \in Nat /\ twice[d][k] \in Nat
         /\ Booked(d, h) \in Nat /\ SumFunction(twice[d]) \in Nat
<1>1. bucket[d][h] \in [Keys -> Nat] /\ twice[d] \in [Keys -> Nat]
  BY DEF TypeInv, TypeOK
<1>2. \E b, w : b = bucket[d][h] /\ w = twice[d]
  OBVIOUS
<1>3. PICK b, w : b = bucket[d][h] /\ w = twice[d]
  BY <1>2, Zenon
<1>4. DOMAIN b = Keys /\ DOMAIN w = Keys /\ \A k \in Keys : b[k] \in Nat /\ w[k] \in Nat
  BY <1>1, <1>3
<1>5. Booked(d, h) = SumFunctionOnSet(b, Keys) /\ SumFunction(w) = SumFunctionOnSet(w, Keys)
  BY <1>3, <1>4 DEF Booked, SumFunction
<1>6. SumFunctionOnSet(b, Keys) \in Nat /\ SumFunctionOnSet(w, Keys) \in Nat
  BY <1>4, ConstantTypes, SumNat
<1> QED
  BY <1>3, <1>4, <1>5, <1>6

(* One interval adds its seconds of an hour to one key of the hour ... *)
LEMMA PartTotal ==
  ASSUME NEW a \in Activities, NEW s \in Nat, NEW t \in Nat, NEW h \in Nat,
         NEW g, \A k \in Keys : g[k] = Part(a, s, t, h, k)
  PROVE  /\ SumFunctionOnSet(g, Keys) = IF Creditable(s, t) THEN Overlap(s, t, h) ELSE 0
         /\ \A k \in Keys : g[k] \in Nat
<1>1. Key(a) \in Keys /\ IsFiniteSet(Keys)
  BY ConstantTypes DEF Keys
<1>2. Overlap(s, t, h) \in Nat
  <2>1. Overlap(s, t, h) \in 0..HourLen /\ HourLen \in Nat
    BY OverlapType, AttributionAssumption
  <2> QED
    BY <2>1
<1>3. \A k \in Keys : g[k] \in Nat
  BY <1>2 DEF Part
<1>4. g[Key(a)] = IF Creditable(s, t) THEN Overlap(s, t, h) ELSE 0
  BY <1>1 DEF Part
<1>5. \A k \in Keys \ {Key(a)} : g[k] = 0
  BY DEF Part
<1>6. PICK c : c = Key(a)
  OBVIOUS
<1>7. c \in Keys /\ g[c] \in Int /\ \A k \in Keys \ {c} : g[k] = 0
  BY <1>1, <1>3, <1>5, <1>6
<1>8. SumFunctionOnSet(g, Keys) = g[c]
  BY <1>1, <1>7, SumOfOne
<1> QED
  BY <1>3, <1>4, <1>6, <1>8

(* ... and is owed under that key. *)
LEMMA WorthTotal ==
  ASSUME NEW p \in Rows, NEW at \in 0..MaxNow, NEW g, \A k \in Keys : g[k] = Worth(p, at, k)
  PROVE  /\ SumFunctionOnSet(g, Keys) = IF Creditable(p.seen, Second(at))
                                        THEN Second(at) - p.seen ELSE 0
         /\ \A k \in Keys : g[k] \in Nat
<1>1. PICK s \in Nat : s = p.seen
  BY ConstantTypes DEF Rows
<1>2. PICK t \in Nat : t = Second(at)
  BY SecondType, LedgerAssumption
<1>3. PICK c \in Keys : c = Key(p.act)
  BY DEF Keys, Rows
<1>4. \A k \in Keys : g[k] = IF Creditable(s, t) /\ k = c THEN t - s ELSE 0
  BY <1>1, <1>2, <1>3 DEF Worth
<1>5. Creditable(s, t) => t - s \in Nat
  BY DEF Creditable
<1>6. \A k \in Keys : g[k] \in Nat
  BY <1>4, <1>5
<1>7. g[c] \in Int /\ \A k \in Keys \ {c} : g[k] = 0
  BY <1>4, <1>6
<1>8. SumFunctionOnSet(g, Keys) = g[c]
  BY <1>7, ConstantTypes, SumOfOne
<1> QED
  BY <1>1, <1>2, <1>4, <1>6, <1>8

LEMMA TillType ==
  ASSUME TypeInv, NEW d \in Devices, Alone(d)
  PROVE  Till(d) \in Nat /\ (row[d] # NoRow => row[d] \in Rows /\ row[d].seen \in Nat)
<1>1. Current(d) \in Handling \cup {Idle}
  BY CurrentType
<1>2. Pending(d) => Second(Current(d).at) \in Nat
  <2>1. Pending(d) => Current(d).at \in Nat
    BY <1>1, LedgerAssumption DEF Pending, Handling, Idle
  <2> QED
    BY <2>1, SecondType
<1>3. row[d] # NoRow => row[d] \in Rows
  BY DEF TypeInv, TypeOK
<1>4. row[d] # NoRow => row[d].seen \in Nat
  BY <1>3, ConstantTypes DEF Rows
<1> QED
  BY <1>2, <1>3, <1>4 DEF Till

LEMMA AccountStep ==
  ASSUME TypeInv, TypeInv', NEW d \in Devices, Alone(d), Alone(d)', RowHeld(d), Accounted(d),
         Keeps(d) \/ Adds(d) \/ Stores(d) \/ Loses(d) \/ Prunes(d)
  PROVE  Accounted(d)'
<1>1. SUFFICES ASSUME NEW h \in Hours
               PROVE  Booked(d, h)' <= Overlap(0, Till(d)', h) + SumFunction(twice'[d])
  BY DEF Accounted, Overlap
<1>2. PICK m \in Nat : m = Till(d)
  BY TillType
<1>3. Till(d)' \in Nat
  <2>1. Current(d)' \in Handling \cup {Idle}
    <3>1. \A x \in Own(d) : req'[x] \in Handling \cup {Idle}
      BY DEF TypeInv, TypeOK, Own
    <3>2. CurrentIn(req', d) \in Handling \cup {Idle}
      BY <3>1, CurrentThere DEF Alone
    <3> QED
      BY <3>2 DEF Current
  <2>2. Pending(d)' => Second(Current(d)'.at) \in Nat
    <3>1. Pending(d)' => Current(d)'.at \in Nat
      BY <2>1, LedgerAssumption DEF Pending, Handling, Idle
    <3> QED
      BY <3>1, SecondType
  <2>3. row'[d] # NoRow => row'[d].seen \in Nat
    BY ConstantTypes DEF Rows, TypeInv, TypeOK
  <2> QED
    BY <2>2, <2>3 DEF Till, Second, Creditable
<1>4. PICK n \in Nat : n = Till(d)'
  BY <1>3
<1>5. h \in Nat /\ IsFiniteSet(Keys)
  BY ConstantTypes
<1>6. PICK b, b2, w, w2 : /\ b = bucket[d][h] /\ b2 = bucket'[d][h]
                          /\ w = twice[d] /\ w2 = twice'[d]
  <2>1. \E b, b2, w, w2 : /\ b = bucket[d][h] /\ b2 = bucket'[d][h]
                          /\ w = twice[d] /\ w2 = twice'[d]
    OBVIOUS
  <2> QED
    BY <2>1, Zenon
<1> DEFINE Sum(f) == SumFunctionOnSet(f, Keys)
<1>7. /\ Booked(d, h) = Sum(b) /\ SumFunction(twice[d]) = Sum(w)
      /\ Sum(b) \in Nat /\ Sum(w) \in Nat
      /\ \A k \in Keys : b[k] \in Nat /\ w[k] \in Nat
  BY <1>6, SumsOfDevice
<1>8. /\ Booked(d, h)' = Sum(b2) /\ SumFunction(twice'[d]) = Sum(w2)
      /\ Sum(b2) \in Nat /\ Sum(w2) \in Nat
      /\ \A k \in Keys : b2[k] \in Nat /\ w2[k] \in Nat
  <2>1. b2 \in [Keys -> Nat] /\ w2 \in [Keys -> Nat]
    BY <1>6 DEF TypeInv, TypeOK
  <2>2. DOMAIN b2 = Keys /\ DOMAIN w2 = Keys /\ \A k \in Keys : b2[k] \in Nat /\ w2[k] \in Nat
    BY <2>1
  <2>3. Booked(d, h)' = SumFunction(b2)
    BY <1>6 DEF Booked
  <2>4. SumFunction(b2) = Sum(b2) /\ SumFunction(w2) = Sum(w2)
    BY <2>2 DEF SumFunction
  <2>5. Sum(b2) \in Nat /\ Sum(w2) \in Nat
    BY <1>5, <2>2, SumNat
  <2> QED
    BY <1>6, <2>2, <2>3, <2>4, <2>5
<1>9. Sum(b) <= Overlap(0, m, h) + Sum(w)
  BY <1>2, <1>7 DEF Accounted
<1>10. SUFFICES Sum(b2) <= Overlap(0, n, h) + Sum(w2)
  BY <1>4, <1>6, <1>8
<1> HIDE DEF Sum
<1>11. CASE Keeps(d)
  <2>1. n = m
    BY <1>2, <1>4, <1>11 DEF Keeps, Till, Second, Creditable
  <2>2. b2 = b /\ w2 = w
    BY <1>6, <1>11 DEF Keeps
  <2> QED
    BY <1>9, <2>1, <2>2
<1>12. CASE Adds(d)
  <2>1. PICK p \in Rows : p = row[d]
    BY <1>12 DEF Adds
  <2>2. PICK at \in 0..MaxNow : at = Current(d).at
    BY <1>12 DEF Adds
  <2>3. PICK s \in Nat : s = p.seen
    BY <2>1, ConstantTypes DEF Rows
  <2>4. PICK t \in Nat : t = Second(at)
    BY SecondType, LedgerAssumption
  <2>5. at \in Nat /\ p.act \in Activities /\ s <= t
    BY <1>12, <2>1, <2>2, <2>3, <2>4, LedgerAssumption DEF Adds, Rows
  <2>6. PICK g : g = [k \in Keys |-> Part(p.act, s, t, h, k)]
    OBVIOUS
  <2>7. \A k \in Keys : g[k] \in Nat
    BY <1>5, <2>5, <2>6, PartTotal
  <2>8. Sum(g) = IF Creditable(s, t) THEN Overlap(s, t, h) ELSE 0
    BY <1>5, <2>5, <2>6, PartTotal DEF Sum
  <2>9. \A k \in Keys : Seconds(Attribute(p.act, s * TicksPerSecond, at), h, k) = g[k]
    BY <1>5, <2>4, <2>5, <2>6, SecondsAre
  <2>10. \A k \in Keys : b2[k] = b[k] + g[k]
    BY <1>6, <1>12, <2>1, <2>2, <2>3, <2>9 DEF Adds
  <2>11. Sum(b2) = Sum(b) + Sum(g)
    <3>1. \A k \in Keys : b[k] \in Int /\ g[k] \in Int /\ b2[k] = b[k] + g[k]
      BY <1>7, <2>7, <2>10
    <3> QED
      BY <1>5, <3>1, SumOfSums DEF Sum
  <2>12. m = s
    BY <1>2, <1>12, <2>1, <2>3 DEF Adds, Till, Rows, NoRow
  <2>13. n = IF Creditable(s, t) THEN t ELSE s
    BY <1>4, <1>12, <2>1, <2>2, <2>3, <2>4 DEF Adds, Till, Second, Creditable, Rows, NoRow
  <2>14. w2 = w
    BY <1>6, <1>12 DEF Adds
  <2>15. /\ Overlap(0, s, h) \in Nat /\ Overlap(0, t, h) \in Nat
         /\ Overlap(0, t, h) = Overlap(0, s, h) + Overlap(s, t, h)
         /\ Overlap(s, t, h) \in Nat
    BY <1>5, <2>5, OverlapGrows, ZenonT(30)
  <2> QED
    BY <1>7, <1>9, <2>8, <2>11, <2>12, <2>13, <2>14, <2>15
<1>13. CASE Stores(d)
  <2>1. b2 = b /\ w2 = w
    BY <1>6, <1>13 DEF Stores
  <2>2. PICK at \in 0..MaxNow : at = Current(d).at
    BY <1>13 DEF Stores
  <2>3. PICK t \in Nat : t = Second(at)
    BY SecondType, LedgerAssumption
  <2>4. n = t
    BY <1>4, <1>13, <2>2, <2>3 DEF Stores, Till, Second, Creditable
  <2>5. m <= t
    <3>1. row[d] # NoRow => row[d].seen \in Nat /\ row[d].seen <= t
      BY <1>13, <2>2, <2>3, TillType DEF Stores
    <3> QED
      BY <1>2, <2>2, <2>3, <3>1 DEF Till
  <2>6. /\ Overlap(0, m, h) \in Nat /\ Overlap(0, t, h) \in Nat
        /\ Overlap(0, t, h) = Overlap(0, m, h) + Overlap(m, t, h)
        /\ Overlap(m, t, h) \in Nat
    BY <1>5, <2>5, OverlapGrows, ZenonT(30)
  <2> QED
    BY <1>7, <1>9, <2>1, <2>4, <2>6
<1>14. CASE Loses(d)
  <2>1. b2 = b
    BY <1>6, <1>14 DEF Loses
  <2>2. \A k \in Keys : w2[k] = w[k] + Owed(d, k)
    BY <1>6, <1>14 DEF Loses
  <2>3. CASE Pending(d)
    <3>1. PICK at \in 0..MaxNow : at = Current(d).at
      BY <1>14, <2>3 DEF Loses
    <3>2. row[d] # NoRow /\ Current(d).prev = row[d]
      BY <1>14, <2>3 DEF Loses, Pending
    <3>3. PICK p \in Rows : p = row[d]
      BY <3>2, TillType
    <3>4. PICK g : g = [k \in Keys |-> Worth(p, at, k)]
      OBVIOUS
    <3>5. PICK s \in Nat : s = p.seen
      BY ConstantTypes DEF Rows
    <3>6. PICK t \in Nat : t = Second(at)
      BY SecondType, LedgerAssumption
    <3>7. \A k \in Keys : g[k] \in Nat
      BY <3>4, WorthTotal
    <3>8. Sum(g) = IF Creditable(s, t) THEN t - s ELSE 0
      BY <3>4, <3>5, <3>6, WorthTotal DEF Sum
    <3>9. \A k \in Keys : w2[k] = w[k] + g[k]
      BY <2>2, <2>3, <3>1, <3>2, <3>3, <3>4 DEF Owed
    <3>10. Sum(w2) = Sum(w) + Sum(g)
      <4>1. \A k \in Keys : w[k] \in Int /\ g[k] \in Int /\ w2[k] = w[k] + g[k]
        BY <1>7, <3>7, <3>9
      <4> QED
        BY <1>5, <4>1, SumOfSums DEF Sum
    <3>11. m = IF Creditable(s, t) THEN t ELSE s
      BY <1>2, <2>3, <3>1, <3>2, <3>3, <3>5, <3>6 DEF Till
    <3>12. n = s
      BY <1>4, <1>14, <3>2, <3>3, <3>5 DEF Loses, Till
    <3>13. CASE Creditable(s, t)
      <4>1. s <= t
        BY <3>13 DEF Creditable
      <4>2. /\ Overlap(0, s, h) \in Nat /\ Overlap(0, t, h) \in Nat /\ Overlap(s, t, h) \in Nat
            /\ Overlap(0, t, h) = Overlap(0, s, h) + Overlap(s, t, h)
            /\ Overlap(s, t, h) <= t - s
        BY <1>5, <4>1, OverlapGrows
      <4> QED
        BY <1>7, <1>9, <2>1, <3>8, <3>10, <3>11, <3>12, <3>13, <4>1, <4>2
    <3>14. CASE ~Creditable(s, t)
      BY <1>7, <1>9, <2>1, <3>8, <3>10, <3>11, <3>12, <3>14
    <3> QED
      BY <3>13, <3>14
  <2>4. CASE ~Pending(d)
    <3>1. n = m
      BY <1>2, <1>4, <1>14, <2>4 DEF Loses, Till
    <3>2. \A k \in Keys : w2[k] = w[k]
      BY <1>7, <2>2, <2>4 DEF Owed
    <3>3. Sum(w2) = Sum(w)
      BY <1>5, <3>2, SumSame DEF Sum
    <3> QED
      BY <1>9, <2>1, <3>1, <3>3
  <2> QED
    BY <2>3, <2>4
<1>15. CASE Prunes(d)
  <2>1. n = m
    BY <1>2, <1>4, <1>15 DEF Prunes, Till, Second, Creditable, Pending, Current
  <2>2. w2 = w
    BY <1>6, <1>15 DEF Prunes
  <2>3. b2 = b \/ \A k \in Keys : b2[k] = 0
    BY <1>6, <1>15 DEF Prunes, Zero
  <2>4. Sum(b2) <= Sum(b)
    <3>1. (\A k \in Keys : b2[k] = 0) => Sum(b2) = 0
      BY <1>5, SumOfZeros DEF Sum
    <3> QED
      BY <1>7, <2>3, <3>1
  <2>5. 0 <= m
    OBVIOUS
  <2>6. Overlap(0, m, h) \in Nat
    BY <1>5, <2>5, OverlapGrows
  <2> QED
    BY <1>7, <1>8, <1>9, <2>1, <2>2, <2>4, <2>6
<1> QED
  BY <1>11, <1>12, <1>13, <1>14, <1>15
-----------------------------------------------------------------------------
(* The split of an interval, counted in seconds *)

(* How many seconds of an interval lie in one hour. *)
LEMMA OverlapCounts ==
  ASSUME NEW f \in Nat, NEW t \in Nat, NEW h \in Nat
  PROVE  Cardinality({s \in f..(t - 1) : Hour(s) = h}) = Overlap(f, t, h)
<1>1. /\ HourLen \in Nat \ {0} /\ h * HourLen \in Nat
      /\ (h + 1) * HourLen = h * HourLen + HourLen
  BY AttributionAssumption, Products
<1>2. PICK first, end : /\ first = IF f < h * HourLen THEN h * HourLen ELSE f
                        /\ end = IF t < (h + 1) * HourLen THEN t ELSE (h + 1) * HourLen
  <2>1. \E first, end : /\ first = IF f < h * HourLen THEN h * HourLen ELSE f
                        /\ end = IF t < (h + 1) * HourLen THEN t ELSE (h + 1) * HourLen
    OBVIOUS
  <2> QED
    BY <2>1, Zenon
<1>3. first \in Nat /\ end \in Nat
  BY <1>1, <1>2
<1>4. {s \in f..(t - 1) : Hour(s) = h} = first..(end - 1)
  <2>1. ASSUME NEW s \in Nat
        PROVE  Hour(s) = h <=> h * HourLen <= s /\ s < h * HourLen + HourLen
    <3>1. h * HourLen <= s /\ s < h * HourLen + HourLen => Hour(s) = h
      BY <1>1, QuotientIs DEF Hour
    <3> QED
      BY <3>1, HourBounds
  <2>2. \A s : s \in f..(t - 1) <=> s \in Nat /\ f <= s /\ s < t
    OBVIOUS
  <2>3. \A s : s \in first..(end - 1) <=> s \in Nat /\ first <= s /\ s < end
    BY <1>3
  <2>4. \A s \in Nat : /\ first <= s <=> f <= s /\ h * HourLen <= s
                       /\ s < end <=> s < t /\ s < h * HourLen + HourLen
    BY <1>1, <1>2
  <2> QED
    BY <2>1, <2>2, <2>3, <2>4
<1>5. Cardinality(first..(end - 1)) = IF first > end - 1 THEN 0 ELSE (end - 1) - first + 1
  <2>1. first \in Int /\ end - 1 \in Int
    BY <1>3
  <2> QED
    BY <2>1, FS_Interval
<1>6. Overlap(f, t, h) = IF end > first THEN end - first ELSE 0
  BY <1>2 DEF Overlap
<1>7. Cardinality({s \in f..(t - 1) : Hour(s) = h}) = Cardinality(first..(end - 1))
  BY <1>4
<1> HIDE <1>4
<1> QED
  BY <1>3, <1>5, <1>6, <1>7

(* usage.Attribute gives each hour the seconds of the interval that lie in  *)
(* it, once, in order, or nothing when the interval is too long or runs     *)
(* backwards; here whatever the length of an hour, the gap and the ticks to *)
(* a second are.                                                            *)
THEOREM SplitExact == ASSUME MaxTick \in Nat PROVE Spec => []SplitIsExact
<1>1. TypeInv => SplitIsExact
  <2> SUFFICES ASSUME TypeInv, NEW a \in Observed, NEW to \in Instants
               PROVE  LET b == Attribute(a, now, to) IN
        /\ \A h \in 0..Hour(Second(MaxTick)) :
              Credited(b, h) =
                  IF Cardinality(Covered(now, to)) > MaxGap THEN 0
                  ELSE Cardinality({s \in Covered(now, to) : Hour(s) = h})
        /\ \A i \in DOMAIN b :
              /\ b[i].seconds \in 1..HourLen
              /\ b[i].key.state = "active" <=> ~a.locked /\ ~a.idle
              /\ \A j \in DOMAIN b : i < j => b[i].hour < b[j].hour
    BY DEF SplitIsExact
  <2>1. now \in Nat /\ to \in Nat /\ to <= MaxTick
    BY LedgerAssumption DEF TypeInv, TypeOK, Instants
  <2>2. \E b, f, t : b = Attribute(a, now, to) /\ f = Second(now) /\ t = Second(to)
    OBVIOUS
  <2>3. PICK b, f, t : b = Attribute(a, now, to) /\ f = Second(now) /\ t = Second(to)
    BY <2>2, Zenon
  <2>4. f \in Nat /\ t \in Nat /\ b = IF Creditable(f, t) THEN Filing(a, f, t) ELSE <<>>
    BY <2>1, <2>3, AttributeIs
  <2>5. Second(MaxTick) \in Nat /\ t <= Second(MaxTick)
    BY <2>1, <2>3, SecondType
  <2>6. Covered(now, to) = f..(t - 1)
    BY <2>3, <2>4, <2>5 DEF Covered
  <2>7. Cardinality(f..(t - 1)) = IF t > f THEN t - f ELSE 0
    <3>1. f \in Int /\ t - 1 \in Int
      BY <2>4
    <3>2. Cardinality(f..(t - 1)) = IF f > t - 1 THEN 0 ELSE (t - 1) - f + 1
      BY <3>1, FS_Interval
    <3> QED
      BY <2>4, <3>2
  <2>8. ASSUME NEW h \in 0..Hour(Second(MaxTick))
        PROVE  Credited(b, h) = IF Cardinality(f..(t - 1)) > MaxGap THEN 0
                                ELSE Cardinality({s \in f..(t - 1) : Hour(s) = h})
    <3>1. h \in Nat
      BY <2>5, HourBounds
    <3>2. PICK F : F = {i \in DOMAIN b : b[i].hour = h}
      OBVIOUS
    <3>3. PICK o : o = [i \in F |-> b[i].seconds]
      OBVIOUS
    <3>4. Credited(b, h) = SumFunctionOnSet(o, F)
      BY <3>2, <3>3 DEF Credited, SumFunction
    <3>5. Cardinality({s \in f..(t - 1) : Hour(s) = h}) = Overlap(f, t, h)
      BY <2>4, <3>1, OverlapCounts
    <3>6. CASE Creditable(f, t)
      <4>1. f < t /\ t - f <= MaxGap /\ b = Filing(a, f, t)
        BY <2>4, <3>6 DEF Creditable
      <4>2. SumFunctionOnSet(o, F) = Overlap(f, t, h)
        BY <2>4, <3>1, <3>2, <3>3, <4>1, HourTotal
      <4> QED
        BY <2>4, <2>7, <3>4, <3>5, <4>1, <4>2, AttributionAssumption
    <3>7. CASE ~Creditable(f, t)
      <4>1. F = {}
        BY <2>4, <3>2, <3>7
      <4>2. SumFunctionOnSet(o, {}) = 0
        BY FS_EmptySet, SumUnfolds
      <4>3. t <= f \/ t - f > MaxGap
        BY <2>4, <3>7, AttributionAssumption DEF Creditable
      <4>4. t <= f => Overlap(f, t, h) = 0
        <5>1. /\ HourLen \in Nat \ {0} /\ h * HourLen \in Nat
              /\ (h + 1) * HourLen = h * HourLen + HourLen
          BY <3>1, AttributionAssumption, Products
        <5> QED
          BY <2>4, <5>1 DEF Overlap
      <4>5. t - f > MaxGap => t > f
        BY <2>4, AttributionAssumption
      <4> QED
        BY <2>4, <2>7, <3>4, <3>5, <4>1, <4>2, <4>3, <4>4, <4>5, AttributionAssumption
    <3> QED
      BY <3>6, <3>7
  <2>9. ASSUME NEW i \in DOMAIN b
        PROVE  /\ b[i].seconds \in 1..HourLen
               /\ b[i].key.state = "active" <=> ~a.locked /\ ~a.idle
               /\ \A j \in DOMAIN b : i < j => b[i].hour < b[j].hour
    <3>1. Creditable(f, t)
      BY <2>4
    <3>2. f \in Nat /\ t \in Nat /\ f < t /\ b = Filing(a, f, t)
      BY <2>4, <3>1 DEF Creditable
    <3>3. OnePerHour(b, a, f, t)
      BY <3>2, FilingType
    <3>4. /\ Hour(f) \in Nat /\ Hour(t - 1) \in Nat
          /\ DOMAIN b = 1..(Hour(t - 1) - Hour(f) + 1)
          /\ \A x \in DOMAIN b : /\ Hour(f) + x - 1 \in Hour(f)..Hour(t - 1)
                                 /\ b[x].hour = Hour(f) + x - 1
                                 /\ b[x].key = Key(a)
                                 /\ b[x].seconds = Overlap(f, t, b[x].hour)
      BY <3>3 DEF OnePerHour
    <3>5. PICK h : h = b[i].hour
      OBVIOUS
    <3>6. h \in Nat /\ h \in Hour(f)..Hour(t - 1) /\ b[i].seconds = Overlap(f, t, h)
      BY <3>4, <3>5
    <3>7. Overlap(f, t, h) \in 0..HourLen /\ Overlap(f, t, h) # 0
      BY <2>4, <3>2, <3>6, OverlapType, OverlapWhere
    <3>8. b[i].seconds \in 1..HourLen
      BY <3>6, <3>7, AttributionAssumption
    <3>9. Key(a).state = "active" <=> ~a.locked /\ ~a.idle
      BY DEF Key, StateOf, Observed
    <3>10. \A j \in DOMAIN b : i < j => b[i].hour < b[j].hour
      BY <3>4
    <3> QED
      BY <3>4, <3>8, <3>9, <3>10
  <2> QED
    BY <2>3, <2>6, <2>8, <2>9
<1> QED
  BY <1>1, InitTypes, StepTypes, PTL DEF Spec
-----------------------------------------------------------------------------
(* However many requests of a device are under way                          *)

(* A request of a second up to s: once stored, it sets the row back so that *)
(* s may be credited again.                                                 *)
IsOld(e, s) == e # Idle /\ Second(e.at) <= s

(* A request that read a row from which it credits the second s.            *)
Covers(e, s) ==
    /\ e.pc \in {"add", "upsert"}
    /\ e.prev # NoRow
    /\ ~e.failed
    /\ Creditable(e.prev.seen, Second(e.at)) /\ e.prev.seen <= s /\ s < Second(e.at)

OldNum(e, s) == IF IsOld(e, s) THEN 1 ELSE 0
CovNum(e, s) == IF Covers(e, s) THEN 1 ELSE 0
AddNum(e, s) == IF Covers(e, s) /\ e.pc = "add" THEN 1 ELSE 0
PaidNum(e, s) == IF Covers(e, s) /\ e.pc = "upsert" THEN 1 ELSE 0

(* How many of the requests q of d are of a second up to s, how many credit *)
(* s, how many of these have yet to add it, and how many have added it.     *)
Olds(q, s) == [r \in Requests |-> OldNum(q[r], s)]
Covs(q, s) == [r \in Requests |-> CovNum(q[r], s)]
ToAdds(q, s) == [r \in Requests |-> AddNum(q[r], s)]
Paids(q, s) == [r \in Requests |-> PaidNum(q[r], s)]

Old(q, d, s) == SumFunctionOnSet(Olds(q, s), Own(d))
Committed(q, d, s) == SumFunctionOnSet(Covs(q, s), Own(d))
ToAdd(q, d, s) == SumFunctionOnSet(ToAdds(q, s), Own(d))

(* Twice the number of times that a second may be credited yet if nothing   *)
(* fails: with the row behind it (b = 1), o requests that set the row back  *)
(* behind it again, c requests that credit it without reading the row again *)
(* and a of these that have yet to do so.                                   *)
Reach(o) == (o + 1) * (2 * InFlight - o)

Room(b, o, c, a) ==
    (IF b = 1 THEN Reach(o) - 2 * c ELSE IF o = 0 THEN 0 ELSE Reach(o - 1)) + 2 * a

Behind(w, s) == IF w = NoRow \/ w.seen <= s THEN 1 ELSE 0
RoomIn(w, q, d, s) == Room(Behind(w, s), Old(q, d, s), Committed(q, d, s), ToAdd(q, d, s))

(* The same for the seconds of hour h before n, with row w of d.            *)
Gone(n, h) == {s \in 0..(n - 1) : Hour(s) = h}
RoomsIn(w, q, d, S) == [s \in S |-> RoomIn(w, q, d, s)]
Rooms(w, q, d, S) == SumFunctionOnSet(RoomsIn(w, q, d, S), S)

Ceiling == InFlight * (InFlight + 1)

(* Every second is credited at most Ceiling \div 2 times, what it may be    *)
(* credited yet included, but for reports that are not stored.              *)
Roomy(d) ==
    \A h \in Hours :
        2 * Booked(d, h) + Rooms(row[d], req, d, Gone(Second(now), h))
            <= Ceiling * Overlap(0, Second(now), h) + 2 * SumFunction(twice[d])

(* No report is of a time to come, and none that has yet to add has failed. *)
Stamped ==
    \A r \in Requests : /\ req[r] # Idle => req[r].at <= now
                        /\ req[r].pc \in {"read", "add"} => ~req[r].failed

LEMMA SquareAbove == ASSUME NEW m \in Nat PROVE m * m \in Nat /\ m <= m * m
<1>1. CASE m = 0
  BY <1>1
<1>2. CASE m # 0
  <2>1. m \in Nat \ {0} /\ 1 \in Int /\ m \in Int /\ 1 <= m
    BY <1>2
  <2>2. 1 * m = m
    OBVIOUS
  <2>3. 1 * m <= m * m /\ m * m \in Nat
    BY <2>1, Products
  <2> QED
    BY <2>2, <2>3
<1> QED
  BY <1>1, <1>2

(* Each further request that sets the row back reaches less far. *)
LEMMA ReachNext ==
  ASSUME NEW N \in Nat, N = InFlight, NEW o \in 1..N
  PROVE  Reach(o) = Reach(o - 1) + 2 * (N - o)
<1>1. PICK p \in Nat : o = p + 1
  <2>1. o - 1 \in Nat /\ o = (o - 1) + 1
    OBVIOUS
  <2> QED
    BY <2>1
<1>2. PICK M \in Int : M = 2 * N - o
  <2>1. 2 * N - o \in Int
    OBVIOUS
  <2> QED
    BY <2>1, Zenon
<1>3. Reach(o) = (p + 2) * M /\ Reach(o - 1) = (p + 1) * (M + 1)
  <2>1. o + 1 = p + 2 /\ o - 1 + 1 = p + 1 /\ 2 * N - (o - 1) = M + 1
    BY <1>1, <1>2
  <2> QED
    BY <1>2, <2>1 DEF Reach
<1>4. (p + 2) * M = p * M + 2 * M /\ (p + 1) * (M + 1) = p * M + p + M + 1 /\ p * M \in Int
  OBVIOUS
<1> QED
  BY <1>1, <1>2, <1>3, <1>4

(* How far o requests that set the row back reach. *)
LEMMA ReachIs ==
  /\ InFlight \in Nat /\ Ceiling \in Nat
  /\ Reach(0) = 2 * InFlight
  /\ \A o \in 0..InFlight : Reach(o) \in Nat /\ 2 * InFlight <= Reach(o) /\ Reach(o) <= Ceiling
  /\ \A o \in 1..InFlight : Reach(o) = Reach(o - 1) + 2 * (InFlight - o)
<1>1. PICK N \in Nat : N = InFlight
  BY LedgerAssumption, FS_CardinalityType DEF InFlight
<1>3. ASSUME NEW o \in 0..N
      PROVE  Reach(o) \in Nat /\ 2 * N <= Reach(o) /\ Reach(o) <= Ceiling
  <2>1. PICK m \in Nat : m = N - o
    OBVIOUS
  <2>2. o \in Nat /\ N = o + m /\ o * m \in Nat /\ m * o = o * m /\ o * o \in Nat /\ m * m \in Nat
    BY <2>1, SquareAbove, Products
  <2>3. Reach(o) = (o + 1) * (o + 2 * m)
    <3>1. 2 * N - o = o + 2 * m
      BY <2>2
    <3> QED
      BY <1>1, <3>1 DEF Reach
  <2>4. (o + 1) * (o + 2 * m) = o * o + 2 * (o * m) + o + 2 * m
    BY <2>2
  <2>5. Ceiling = (o + m) * (o + m + 1)
    BY <1>1, <2>2 DEF Ceiling
  <2>6. (o + m) * (o + m + 1) = o * o + 2 * (o * m) + m * m + o + m
    BY <2>2
  <2>7. m <= m * m /\ o <= o * o
    BY SquareAbove, <2>2
  <2> QED
    BY <2>2, <2>3, <2>4, <2>5, <2>6, <2>7
<1>4. Reach(0) = 2 * N
  BY <1>1 DEF Reach
<1>5. ASSUME NEW o \in 1..N PROVE Reach(o) = Reach(o - 1) + 2 * (N - o)
  BY <1>1, ReachNext
<1>6. Ceiling \in Nat
  <2>1. 0 \in 0..N
    OBVIOUS
  <2>2. Reach(0) <= Ceiling /\ Reach(0) \in Nat
    BY <1>3, <2>1
  <2>3. Ceiling \in Int
    BY <1>1 DEF Ceiling
  <2> QED
    BY <2>2, <2>3
<1> QED
  BY <1>1, <1>3, <1>4, <1>5, <1>6

(* What the steps of a request may do to the room of a second, with o, c    *)
(* and a counting the other requests of the device.                         *)
LEMMA RoomMoves ==
  ASSUME NEW b \in 0..1, NEW o \in Nat, NEW c \in Nat, NEW a \in Nat,
         o + c + 1 <= InFlight, a <= c
  PROVE  /\ \* it waits for the row, or has failed, and its answer fails
            Room(b, o, c, a) <= Room(b, o + 1, c, a)
         /\ \* it reads a row behind the second
            Room(1, o, c + 1, a + 1) = Room(1, o, c, a)
         /\ \* it adds the second
            Room(b, o, c + 1, a) + 2 <= Room(b, o, c + 1, a + 1)
         /\ \* it fails to
            Room(b, o, c, a) <= Room(b, o, c + 1, a + 1)
         /\ \* it sets the row to a second up to this one
            Room(1, o, c, a) <= Room(b, o + 1, c, a)
         /\ \* it sets the row to a second after this one
            Room(0, o, c, a) <= Room(b, o, c, a) /\ Room(0, o, c, a) <= Room(b, o, c + 1, a)
         /\ \* it has added the second and fails to set the row
            Room(b, o, c, a) <= Room(b, o, c + 1, a) + 2
<1>1. PICK N \in Nat : N = InFlight
  BY ReachIs
<1>2. PICK x \in Nat : x = Reach(o) /\ 2 * N <= x
  BY <1>1, ReachIs
<1>3. PICK y \in Nat : y = Reach(o + 1) /\ y = x + 2 * (N - (o + 1))
  <2>1. o + 1 \in 1..InFlight /\ o + 1 \in 0..InFlight /\ (o + 1) - 1 = o
    BY <1>1
  <2> QED
    BY <1>1, <1>2, <2>1, ReachIs
<1>4. PICK z \in Int : z = (IF o = 0 THEN 0 ELSE Reach(o - 1)) /\ z <= x - 2 * (c + 1)
  <2>1. CASE o = 0
    BY <1>1, <1>2, <2>1
  <2>2. CASE o # 0
    <3>1. o \in 1..InFlight /\ o - 1 \in 0..InFlight
      BY <1>1, <2>2
    <3>2. Reach(o - 1) \in Nat /\ x = Reach(o - 1) + 2 * (N - o)
      BY <1>1, <1>2, <3>1, ReachIs
    <3> QED
      BY <1>1, <2>2, <3>2
  <2> QED
    BY <2>1, <2>2
<1>5. /\ Room(1, o, c, a) = x - 2 * c + 2 * a /\ Room(0, o, c, a) = z + 2 * a
      /\ Room(1, o, c + 1, a) = x - 2 * (c + 1) + 2 * a /\ Room(0, o, c + 1, a) = z + 2 * a
      /\ Room(1, o, c + 1, a + 1) = x - 2 * (c + 1) + 2 * (a + 1)
      /\ Room(0, o, c + 1, a + 1) = z + 2 * (a + 1)
      /\ Room(1, o + 1, c, a) = y - 2 * c + 2 * a /\ Room(0, o + 1, c, a) = x + 2 * a
  <2>1. o + 1 # 0 /\ (o + 1) - 1 = o
    OBVIOUS
  <2> QED
    BY <1>2, <1>3, <1>4, <2>1 DEF Room
<1>6. CASE b = 0
  BY <1>1, <1>2, <1>3, <1>4, <1>5, <1>6
<1>7. CASE b = 1
  BY <1>1, <1>2, <1>3, <1>4, <1>5, <1>7
<1> QED
  BY <1>6, <1>7

(* All requests end at once; and the room of a second that begins.          *)
LEMMA RoomBounds ==
  ASSUME NEW b \in 0..1, NEW o \in Nat, NEW c \in Nat, NEW a \in Nat, o + c <= InFlight, a <= c
  PROVE  /\ Room(b, o, c, a) \in Nat
         /\ Room(b, 0, 0, 0) <= Room(b, o, c, a) + 2 * (c - a)
         /\ Room(b, o, 0, 0) <= Ceiling
<1>1. PICK N \in Nat : N = InFlight
  BY ReachIs
<1>2. PICK x \in Nat : x = Reach(o) /\ 2 * N <= x /\ x <= Ceiling
  BY <1>1, ReachIs
<1>3. PICK z \in Nat : z = (IF o = 0 THEN 0 ELSE Reach(o - 1)) /\ z <= Ceiling
  <2>1. CASE o = 0
    BY <2>1, ReachIs
  <2>2. CASE o # 0
    <3>1. o - 1 \in 0..InFlight
      BY <1>1, <2>2
    <3> QED
      BY <2>2, <3>1, ReachIs
  <2> QED
    BY <2>1, <2>2
<1>4. /\ Room(1, o, c, a) = x - 2 * c + 2 * a /\ Room(0, o, c, a) = z + 2 * a
      /\ Room(1, o, 0, 0) = x /\ Room(0, o, 0, 0) = z
  BY <1>2, <1>3 DEF Room
<1>5. Room(1, 0, 0, 0) = 2 * N /\ Room(0, 0, 0, 0) = 0
  BY <1>1, ReachIs DEF Room
<1>6. Ceiling \in Nat
  BY ReachIs
<1>7. CASE b = 0
  BY <1>1, <1>2, <1>3, <1>4, <1>5, <1>6, <1>7
<1>8. CASE b = 1
  BY <1>1, <1>2, <1>3, <1>4, <1>5, <1>6, <1>8
<1> QED
  BY <1>7, <1>8

LEMMA NumTypes ==
  ASSUME NEW e \in Handling \cup {Idle}, NEW s \in Nat
  PROVE  /\ OldNum(e, s) \in 0..1 /\ CovNum(e, s) \in 0..1
         /\ AddNum(e, s) \in 0..1 /\ PaidNum(e, s) \in 0..1
         /\ OldNum(e, s) + CovNum(e, s) <= 1
         /\ CovNum(e, s) = AddNum(e, s) + PaidNum(e, s)
<1>1. ~(IsOld(e, s) /\ Covers(e, s))
  <2>1. SUFFICES ASSUME IsOld(e, s), Covers(e, s) PROVE FALSE
    OBVIOUS
  <2>2. e.at \in Nat
    BY <2>1, LedgerAssumption DEF IsOld, Handling
  <2>3. Second(e.at) \in Nat
    BY <2>2, SecondType
  <2> QED
    BY <2>1, <2>3 DEF IsOld, Covers
<1>2. Covers(e, s) => (e.pc = "add" <=> e.pc # "upsert")
  BY DEF Covers
<1>3. OldNum(e, s) + CovNum(e, s) <= 1 /\ OldNum(e, s) \in 0..1 /\ CovNum(e, s) \in 0..1
  BY <1>1 DEF OldNum, CovNum
<1>4. /\ AddNum(e, s) \in 0..1 /\ PaidNum(e, s) \in 0..1
      /\ CovNum(e, s) = AddNum(e, s) + PaidNum(e, s)
  BY <1>2 DEF CovNum, AddNum, PaidNum
<1> QED
  BY <1>3, <1>4

(* A request that is not being handled counts nowhere. *)
LEMMA NumIdle ==
  ASSUME NEW s
  PROVE  /\ OldNum(Idle, s) = 0 /\ CovNum(Idle, s) = 0
         /\ AddNum(Idle, s) = 0 /\ PaidNum(Idle, s) = 0
BY DEF OldNum, CovNum, AddNum, PaidNum, IsOld, Covers, Idle

(* No request counts as old and committed, and what is committed has been   *)
(* added or has yet to be.                                                  *)
LEMMA Counts ==
  ASSUME NEW q \in [Requests -> Handling \cup {Idle}], NEW s \in Nat,
         NEW U \in SUBSET Requests, IsFiniteSet(U)
  PROVE  /\ SumFunctionOnSet(Olds(q, s), U) \in Nat /\ SumFunctionOnSet(Covs(q, s), U) \in Nat
         /\ SumFunctionOnSet(ToAdds(q, s), U) \in Nat /\ SumFunctionOnSet(Paids(q, s), U) \in Nat
         /\ SumFunctionOnSet(Olds(q, s), U) + SumFunctionOnSet(Covs(q, s), U) <= Cardinality(U)
         /\ SumFunctionOnSet(Covs(q, s), U)
              = SumFunctionOnSet(ToAdds(q, s), U) + SumFunctionOnSet(Paids(q, s), U)
<1>1. PICK f : f = Olds(q, s)
  OBVIOUS
<1>2. PICK g : g = Covs(q, s)
  OBVIOUS
<1>3. PICK a : a = ToAdds(q, s)
  OBVIOUS
<1>4. PICK p : p = Paids(q, s)
  OBVIOUS
<1>5. ASSUME NEW r \in U
      PROVE  /\ f[r] \in 0..1 /\ g[r] \in 0..1 /\ a[r] \in 0..1 /\ p[r] \in 0..1
             /\ f[r] + g[r] <= 1 /\ g[r] = a[r] + p[r]
  <2>1. q[r] \in Handling \cup {Idle} /\ r \in Requests
    OBVIOUS
  <2>2. f[r] = OldNum(q[r], s) /\ g[r] = CovNum(q[r], s)
        /\ a[r] = AddNum(q[r], s) /\ p[r] = PaidNum(q[r], s)
    BY <1>1, <1>2, <1>3, <1>4, <2>1 DEF Olds, Covs, ToAdds, Paids
  <2> QED
    BY <2>1, <2>2, NumTypes
<1>6. \A r \in U : /\ f[r] \in Nat /\ g[r] \in Nat /\ a[r] \in Nat /\ p[r] \in Nat
                   /\ f[r] \in Int /\ g[r] \in Int /\ a[r] \in Int /\ p[r] \in Int
  BY <1>5
<1>7. /\ SumFunctionOnSet(f, U) \in Nat /\ SumFunctionOnSet(g, U) \in Nat
      /\ SumFunctionOnSet(a, U) \in Nat /\ SumFunctionOnSet(p, U) \in Nat
  BY <1>6, SumNat
<1>8. SumFunctionOnSet(g, U) = SumFunctionOnSet(a, U) + SumFunctionOnSet(p, U)
  BY <1>5, <1>6, SumOfSums
<1>9. SumFunctionOnSet(f, U) + SumFunctionOnSet(g, U) <= Cardinality(U)
  <2>1. PICK h : h = [r \in U |-> f[r] + g[r]]
    OBVIOUS
  <2>2. PICK one : one = [r \in U |-> 1]
    OBVIOUS
  <2>3. \A r \in U : /\ h[r] = f[r] + g[r] /\ h[r] \in Int /\ one[r] \in Int /\ h[r] <= one[r]
                     /\ one[r] = 1
    BY <1>5, <2>1, <2>2
  <2>4. SumFunctionOnSet(h, U) = SumFunctionOnSet(f, U) + SumFunctionOnSet(g, U)
    BY <1>6, <2>3, SumOfSums
  <2>5. SumFunctionOnSet(h, U) <= SumFunctionOnSet(one, U)
    BY <2>3, SumMonotone
  <2>6. SumFunctionOnSet(one, U) = Cardinality(U)
    BY <2>3, SumOfOnes
  <2> QED
    BY <2>4, <2>5, <2>6
<1> QED
  BY <1>1, <1>2, <1>3, <1>4, <1>7, <1>8, <1>9

LEMMA CountsOfDevice ==
  ASSUME NEW q \in [Requests -> Handling \cup {Idle}], NEW s \in Nat, NEW d \in Devices
  PROVE  /\ Old(q, d, s) \in Nat /\ Committed(q, d, s) \in Nat /\ ToAdd(q, d, s) \in Nat
         /\ Old(q, d, s) + Committed(q, d, s) <= InFlight
         /\ ToAdd(q, d, s) <= Committed(q, d, s)
         /\ SumFunctionOnSet(Paids(q, s), Own(d)) \in Nat
         /\ SumFunctionOnSet(Paids(q, s), Own(d)) = Committed(q, d, s) - ToAdd(q, d, s)
<1>1. Own(d) \in SUBSET Requests /\ IsFiniteSet(Own(d)) /\ Cardinality(Own(d)) = InFlight
  BY OwnRequests DEF Own
<1>2. PICK U : U = Own(d)
  OBVIOUS
<1>3. U \in SUBSET Requests /\ IsFiniteSet(U) /\ Cardinality(U) = InFlight
  BY <1>1, <1>2
<1>4. /\ SumFunctionOnSet(Olds(q, s), U) \in Nat /\ SumFunctionOnSet(Covs(q, s), U) \in Nat
      /\ SumFunctionOnSet(ToAdds(q, s), U) \in Nat /\ SumFunctionOnSet(Paids(q, s), U) \in Nat
      /\ SumFunctionOnSet(Olds(q, s), U) + SumFunctionOnSet(Covs(q, s), U) <= InFlight
      /\ SumFunctionOnSet(Covs(q, s), U)
              = SumFunctionOnSet(ToAdds(q, s), U) + SumFunctionOnSet(Paids(q, s), U)
  BY <1>3, Counts
<1>5. /\ Old(q, d, s) = SumFunctionOnSet(Olds(q, s), U)
      /\ Committed(q, d, s) = SumFunctionOnSet(Covs(q, s), U)
      /\ ToAdd(q, d, s) = SumFunctionOnSet(ToAdds(q, s), U)
  BY <1>2 DEF Old, Committed, ToAdd
<1> QED
  BY <1>2, <1>4, <1>5, ReachIs

(* The counts of a device as those of one request and of its others.        *)
OneOfThem(q, d, s, r, o, c, a) ==
    /\ Old(q, d, s) = o + OldNum(q[r], s)
    /\ Committed(q, d, s) = c + CovNum(q[r], s)
    /\ ToAdd(q, d, s) = a + AddNum(q[r], s)

LEMMA CountsAround ==
  ASSUME NEW q \in [Requests -> Handling \cup {Idle}], NEW s \in Nat, NEW d \in Devices,
         NEW p \in [Requests -> Handling \cup {Idle}],
         NEW r \in Own(d), \A x \in Own(d) \ {r} : p[x] = q[x]
  PROVE  \E o, c, a \in Nat :
            /\ o + c + 1 <= InFlight /\ a <= c
            /\ OneOfThem(q, d, s, r, o, c, a) /\ OneOfThem(p, d, s, r, o, c, a)
<1>1. PICK U : U = Own(d) \ {r}
  OBVIOUS
<1>2. /\ U \in SUBSET Requests /\ IsFiniteSet(U) /\ Cardinality(U) = InFlight - 1
      /\ IsFiniteSet(Own(d)) /\ Own(d) \in SUBSET Requests /\ InFlight \in Nat
  BY <1>1, OwnRequests, FS_RemoveElement DEF Own
<1>3. PICK o, c, a : /\ o = SumFunctionOnSet(Olds(q, s), U)
                     /\ c = SumFunctionOnSet(Covs(q, s), U)
                     /\ a = SumFunctionOnSet(ToAdds(q, s), U)
  <2>1. \E o, c, a : /\ o = SumFunctionOnSet(Olds(q, s), U)
                     /\ c = SumFunctionOnSet(Covs(q, s), U)
                     /\ a = SumFunctionOnSet(ToAdds(q, s), U)
    OBVIOUS
  <2> QED
    BY <2>1, Zenon
<1>4. o \in Nat /\ c \in Nat /\ a \in Nat /\ o + c + 1 <= InFlight /\ a <= c
  <2>1. PICK b : b = SumFunctionOnSet(Paids(q, s), U)
    OBVIOUS
  <2>2. /\ o \in Nat /\ c \in Nat /\ a \in Nat /\ b \in Nat
        /\ o + c <= Cardinality(U) /\ c = a + b
    BY <1>2, <1>3, <2>1, Counts
  <2> QED
    BY <1>2, <2>2
<1>5. ASSUME NEW m \in [Requests -> Handling \cup {Idle}], \A x \in U : m[x] = q[x]
      PROVE  OneOfThem(m, d, s, r, o, c, a)
  <2>1. \A x \in Own(d) : /\ Olds(m, s)[x] = OldNum(m[x], s) /\ Covs(m, s)[x] = CovNum(m[x], s)
                          /\ ToAdds(m, s)[x] = AddNum(m[x], s)
    BY <1>2 DEF Olds, Covs, ToAdds
  <2>2. \A x \in Own(d) : /\ OldNum(m[x], s) \in Int /\ CovNum(m[x], s) \in Int
                          /\ AddNum(m[x], s) \in Int
    <3>1. \A x \in Own(d) : m[x] \in Handling \cup {Idle}
      BY <1>2
    <3>2. \A i \in 0..1 : i \in Int
      OBVIOUS
    <3> QED
      BY <3>1, <3>2, NumTypes
  <2>3. \A x \in U : /\ Olds(m, s)[x] = Olds(q, s)[x] /\ Covs(m, s)[x] = Covs(q, s)[x]
                     /\ ToAdds(m, s)[x] = ToAdds(q, s)[x]
    BY <1>2, <1>5 DEF Olds, Covs, ToAdds
  <2>4. /\ SumFunctionOnSet(Olds(m, s), U) = o /\ SumFunctionOnSet(Covs(m, s), U) = c
        /\ SumFunctionOnSet(ToAdds(m, s), U) = a
    BY <1>2, <1>3, <2>3, SumSame
  <2>5. /\ Old(m, d, s) = Olds(m, s)[r] + SumFunctionOnSet(Olds(m, s), Own(d) \ {r})
        /\ Committed(m, d, s) = Covs(m, s)[r] + SumFunctionOnSet(Covs(m, s), Own(d) \ {r})
        /\ ToAdd(m, d, s) = ToAdds(m, s)[r] + SumFunctionOnSet(ToAdds(m, s), Own(d) \ {r})
    <3>1. \A x \in Own(d) : /\ Olds(m, s)[x] \in Int /\ Covs(m, s)[x] \in Int
                            /\ ToAdds(m, s)[x] \in Int
      BY <2>1, <2>2
    <3> QED
      BY <1>2, <3>1, SumTakesOut DEF Old, Committed, ToAdd
  <2> QED
    BY <1>1, <1>4, <2>1, <2>2, <2>4, <2>5 DEF OneOfThem
<1>6. OneOfThem(q, d, s, r, o, c, a) /\ OneOfThem(p, d, s, r, o, c, a)
  BY <1>1, <1>5
<1> QED
  BY <1>4, <1>6

-----------------------------------------------------------------------------
(* What a step does to the room of one second                               *)

(* The room before and after a step of r, by what r counts for and the      *)
(* others do.                                                               *)
LEMMA RoomAround ==
  ASSUME TypeInv, TypeInv', NEW d \in Devices, NEW s \in Nat,
         NEW r \in Own(d), \A x \in Own(d) \ {r} : req'[x] = req[x]
  PROVE  \E o, c, a \in Nat :
            /\ o + c + 1 <= InFlight /\ a <= c
            /\ \A w : RoomIn(w, req, d, s) =
                  Room(Behind(w, s), o + OldNum(req[r], s), c + CovNum(req[r], s),
                       a + AddNum(req[r], s))
            /\ \A w : RoomIn(w, req', d, s) =
                  Room(Behind(w, s), o + OldNum(req'[r], s), c + CovNum(req'[r], s),
                       a + AddNum(req'[r], s))
<1>1. req \in [Requests -> Handling \cup {Idle}] /\ req' \in [Requests -> Handling \cup {Idle}]
  BY DEF TypeInv, TypeOK
<1>2. PICK o, c, a \in Nat :
            /\ o + c + 1 <= InFlight /\ a <= c
            /\ OneOfThem(req, d, s, r, o, c, a) /\ OneOfThem(req', d, s, r, o, c, a)
  BY <1>1, CountsAround
<1>3. \A w : RoomIn(w, req, d, s) =
                  Room(Behind(w, s), o + OldNum(req[r], s), c + CovNum(req[r], s),
                       a + AddNum(req[r], s))
  BY <1>2 DEF RoomIn, OneOfThem
<1>4. \A w : RoomIn(w, req', d, s) =
                  Room(Behind(w, s), o + OldNum(req'[r], s), c + CovNum(req'[r], s),
                       a + AddNum(req'[r], s))
  BY <1>2 DEF RoomIn, OneOfThem
<1> QED
  BY <1>2, <1>3, <1>4

(* What r counts for, as a request of d that keeps its type.                *)
LEMMA NumOfRequest ==
  ASSUME TypeInv, NEW d \in Devices, NEW s \in Nat, NEW r \in Own(d)
  PROVE  /\ OldNum(req[r], s) \in 0..1 /\ CovNum(req[r], s) \in 0..1
         /\ OldNum(req[r], s) + CovNum(req[r], s) <= 1
         /\ req[r].pc \in {"read", "add"} => PaidNum(req[r], s) = 0
         /\ req[r].pc = "upsert" =>
               AddNum(req[r], s) = 0 /\ PaidNum(req[r], s) = CovNum(req[r], s)
         /\ req[r].pc = "add" => AddNum(req[r], s) = CovNum(req[r], s)
         /\ req[r].pc = "read" => AddNum(req[r], s) = 0 /\ CovNum(req[r], s) = 0
<1>1. req[r] \in Handling \cup {Idle}
  BY DEF TypeInv, TypeOK, Own
<1>2. PICK e : e = req[r]
  OBVIOUS
<1>3. /\ e.pc \in {"read", "add"} => PaidNum(e, s) = 0
      /\ e.pc = "upsert" => AddNum(e, s) = 0 /\ PaidNum(e, s) = CovNum(e, s)
      /\ e.pc = "add" => AddNum(e, s) = CovNum(e, s)
      /\ e.pc = "read" => AddNum(e, s) = 0 /\ CovNum(e, s) = 0
  BY DEF PaidNum, AddNum, CovNum, Covers
<1> QED
  BY <1>1, <1>2, <1>3, NumTypes

LEMMA BehindType == ASSUME NEW w, NEW s PROVE Behind(w, s) \in 0..1
BY DEF Behind

LEMMA RoomType ==
  ASSUME NEW b \in 0..1, NEW x \in 0..1, NEW o \in Nat, NEW c \in Nat, NEW a \in Nat,
         o + c + 1 <= InFlight, a <= c
  PROVE  /\ Room(b, o, c, a) \in Nat /\ Room(b, o + x, c, a) \in Nat
         /\ Room(b, o, c + 1, a + 1) \in Nat
<1>1. PICK N \in Nat : N = InFlight
  BY ReachIs
<1>2. /\ o + c <= InFlight /\ (o + x) + c <= InFlight /\ o + (c + 1) <= InFlight
      /\ o + x \in Nat /\ c + 1 \in Nat /\ a + 1 \in Nat /\ a + 1 <= c + 1
  BY <1>1
<1> QED
  BY <1>2, RoomBounds

LEMMA RoomOfRead ==
  ASSUME TypeInv, TypeInv', NEW d \in Devices, NEW s \in Nat, NEW r \in Own(d), Read(r)
  PROVE  RoomIn(row'[d], req', d, s) <= RoomIn(row[d], req, d, s)
<1>0. r \in Requests /\ Device(r) = d /\ \A x \in Own(d) \ {r} : req'[x] = req[x]
  BY OthersWait DEF Own, Handle
<1>1. PICK o, c, a \in Nat :
            /\ o + c + 1 <= InFlight /\ a <= c
            /\ \A w : RoomIn(w, req, d, s) =
                  Room(Behind(w, s), o + OldNum(req[r], s), c + CovNum(req[r], s),
                       a + AddNum(req[r], s))
            /\ \A w : RoomIn(w, req', d, s) =
                  Room(Behind(w, s), o + OldNum(req'[r], s), c + CovNum(req'[r], s),
                       a + AddNum(req'[r], s))
  BY <1>0, RoomAround
<1>2. req[r] \in Handling /\ req[r].pc = "read" /\ row' = row
  BY <1>0 DEF Read, Idle, TypeInv, TypeOK
<1>3. /\ req'[r].prev = row[d] /\ req'[r].pc = IF row[d] = NoRow THEN "upsert" ELSE "add"
      /\ req'[r].at = req[r].at
  BY <1>0, <1>2 DEF Read, Handling, TypeInv, TypeOK
<1>4. OldNum(req'[r], s) = OldNum(req[r], s)
  <2>1. req[r] # Idle /\ req'[r] # Idle
    BY <1>2, <1>3 DEF Idle
  <2> QED
    BY <1>3, <2>1 DEF OldNum, IsOld
<1>5. CovNum(req[r], s) = 0 /\ AddNum(req[r], s) = 0 /\ OldNum(req[r], s) \in 0..1
  BY <1>2, NumOfRequest
<1>6. req'[r] \in Handling \cup {Idle}
  BY <1>0 DEF TypeInv, TypeOK
<1>7. CASE Covers(req'[r], s)
  <2>1. row[d] # NoRow /\ row[d].seen <= s /\ req'[r].pc = "add"
    BY <1>3, <1>7 DEF Covers
  <2>2. Behind(row[d], s) = 1 /\ CovNum(req'[r], s) = 1 /\ AddNum(req'[r], s) = 1
    BY <1>7, <2>1 DEF Behind, CovNum, AddNum
  <2>3. OldNum(req'[r], s) = 0
    <3>1. OldNum(req'[r], s) \in 0..1 /\ OldNum(req'[r], s) + CovNum(req'[r], s) <= 1
      BY <1>6, NumTypes
    <3> QED
      BY <2>2, <3>1
  <2>4. RoomIn(row[d], req, d, s) = Room(1, o, c, a)
    BY <1>1, <1>4, <1>5, <2>2, <2>3
  <2>5. RoomIn(row[d], req', d, s) = Room(1, o, c + 1, a + 1)
    BY <1>1, <2>2, <2>3
  <2>6. Room(1, o, c + 1, a + 1) = Room(1, o, c, a)
    BY <1>1, RoomMoves
  <2>7. Room(1, o, c, a) \in Nat
    <3>1. 1 \in 0..1
      OBVIOUS
    <3> QED
      BY <1>1, <3>1, RoomType
  <2> QED
    BY <1>2, <2>4, <2>5, <2>6, <2>7
<1>8. CASE ~Covers(req'[r], s)
  <2>1. CovNum(req'[r], s) = 0 /\ AddNum(req'[r], s) = 0
    BY <1>8 DEF CovNum, AddNum
  <2>2. PICK x \in 0..1 : x = OldNum(req[r], s)
    BY <1>5
  <2>3. PICK b \in 0..1 : b = Behind(row[d], s)
    BY BehindType
  <2>4. /\ RoomIn(row[d], req, d, s) = Room(b, o + x, c, a)
        /\ RoomIn(row[d], req', d, s) = Room(b, o + x, c, a)
    BY <1>1, <1>4, <1>5, <2>1, <2>2, <2>3
  <2>5. Room(b, o + x, c, a) \in Nat
    BY <1>1, RoomType
  <2> QED
    BY <1>2, <2>4, <2>5
<1> QED
  BY <1>7, <1>8

LEMMA RoomOfFailure ==
  ASSUME TypeInv, TypeInv', NEW d \in Devices, NEW s \in Nat, NEW r \in Own(d),
         ReadFails(r) \/ AddUsageFails(r)
  PROVE  RoomIn(row'[d], req', d, s) <= RoomIn(row[d], req, d, s)
<1>0. r \in Requests /\ Device(r) = d /\ \A x \in Own(d) \ {r} : req'[x] = req[x]
  BY OthersWait DEF Own, Handle
<1>1. PICK o, c, a \in Nat :
            /\ o + c + 1 <= InFlight /\ a <= c
            /\ \A w : RoomIn(w, req, d, s) =
                  Room(Behind(w, s), o + OldNum(req[r], s), c + CovNum(req[r], s),
                       a + AddNum(req[r], s))
            /\ \A w : RoomIn(w, req', d, s) =
                  Room(Behind(w, s), o + OldNum(req'[r], s), c + CovNum(req'[r], s),
                       a + AddNum(req'[r], s))
  BY <1>0, RoomAround
<1>2. req[r] \in Handling /\ req[r].pc \in {"read", "add"} /\ row' = row
  BY <1>0 DEF ReadFails, AddUsageFails, Idle, TypeInv, TypeOK
<1>3. req'[r].pc = "upsert" /\ req'[r].failed = TRUE /\ req'[r].at = req[r].at
  BY <1>0, <1>2 DEF ReadFails, AddUsageFails, Handling, TypeInv, TypeOK
<1>4. OldNum(req'[r], s) = OldNum(req[r], s)
  <2>1. req[r] # Idle /\ req'[r] # Idle
    BY <1>2, <1>3 DEF Idle
  <2> QED
    BY <1>3, <2>1 DEF OldNum, IsOld
<1>5. CovNum(req'[r], s) = 0 /\ AddNum(req'[r], s) = 0
  BY <1>3 DEF CovNum, AddNum, Covers
<1>6. PICK x, y \in 0..1 : /\ x = OldNum(req[r], s) /\ y = CovNum(req[r], s)
                           /\ y = AddNum(req[r], s) /\ x + y <= 1
  BY <1>2, NumOfRequest
<1>7. PICK b \in 0..1 : b = Behind(row[d], s)
  BY BehindType
<1>8. /\ RoomIn(row[d], req, d, s) = Room(b, o + x, c + y, a + y)
      /\ RoomIn(row[d], req', d, s) = Room(b, o + x, c, a)
  BY <1>1, <1>4, <1>5, <1>6, <1>7
<1>9. CASE y = 0
  <2>1. Room(b, o + x, c, a) \in Nat
    BY <1>1, RoomType
  <2> QED
    BY <1>2, <1>8, <1>9, <2>1
<1>10. CASE y = 1
  <2>1. x = 0
    BY <1>6, <1>10
  <2>2. Room(b, o, c, a) <= Room(b, o, c + 1, a + 1)
    BY <1>1, RoomMoves
  <2> QED
    BY <1>2, <1>8, <1>10, <2>1, <2>2
<1> QED
  BY <1>9, <1>10

(* A second that is added is in the books once more, and less to come. *)
LEMMA RoomOfAdd ==
  ASSUME TypeInv, TypeInv', NEW d \in Devices, NEW s \in Nat, NEW r \in Own(d), AddUsage(r)
  PROVE  RoomIn(row'[d], req', d, s) + 2 * CovNum(req[r], s) <= RoomIn(row[d], req, d, s)
<1>0. r \in Requests /\ Device(r) = d /\ \A x \in Own(d) \ {r} : req'[x] = req[x]
  BY OthersWait DEF Own, Handle
<1>1. PICK o, c, a \in Nat :
            /\ o + c + 1 <= InFlight /\ a <= c
            /\ \A w : RoomIn(w, req, d, s) =
                  Room(Behind(w, s), o + OldNum(req[r], s), c + CovNum(req[r], s),
                       a + AddNum(req[r], s))
            /\ \A w : RoomIn(w, req', d, s) =
                  Room(Behind(w, s), o + OldNum(req'[r], s), c + CovNum(req'[r], s),
                       a + AddNum(req'[r], s))
  BY <1>0, RoomAround
<1>2. req[r] \in Handling /\ req[r].pc = "add" /\ row' = row
  BY <1>0 DEF AddUsage, Idle, TypeInv, TypeOK
<1>3. /\ req'[r].pc = "upsert" /\ req'[r].failed = req[r].failed /\ req'[r].at = req[r].at
      /\ req'[r].prev = req[r].prev
  BY <1>0, <1>2 DEF AddUsage, Handling, TypeInv, TypeOK
<1>4. OldNum(req'[r], s) = OldNum(req[r], s)
  <2>1. req[r] # Idle /\ req'[r] # Idle
    BY <1>2, <1>3 DEF Idle
  <2> QED
    BY <1>3, <2>1 DEF OldNum, IsOld
<1>5. CovNum(req'[r], s) = CovNum(req[r], s) /\ AddNum(req'[r], s) = 0
  BY <1>2, <1>3 DEF CovNum, AddNum, Covers
<1>6. PICK x, y \in 0..1 : /\ x = OldNum(req[r], s) /\ y = CovNum(req[r], s)
                           /\ y = AddNum(req[r], s) /\ x + y <= 1
  BY <1>2, NumOfRequest
<1>7. PICK b \in 0..1 : b = Behind(row[d], s)
  BY BehindType
<1>8. /\ RoomIn(row[d], req, d, s) = Room(b, o + x, c + y, a + y)
      /\ RoomIn(row[d], req', d, s) = Room(b, o + x, c + y, a)
  BY <1>1, <1>4, <1>5, <1>6, <1>7
<1>9. CASE y = 0
  <2>1. Room(b, o + x, c, a) \in Nat
    BY <1>1, RoomType
  <2> QED
    BY <1>2, <1>6, <1>8, <1>9, <2>1
<1>10. CASE y = 1
  <2>1. x = 0
    BY <1>6, <1>10
  <2>2. Room(b, o, c + 1, a) + 2 <= Room(b, o, c + 1, a + 1)
    BY <1>1, RoomMoves
  <2>3. Room(b, o, c + 1, a + 1) \in Nat
    BY <1>1, RoomType
  <2> QED
    BY <1>2, <1>6, <1>8, <1>10, <2>1, <2>2, <2>3
<1> QED
  BY <1>9, <1>10

LEMMA RoomOfUpsert ==
  ASSUME TypeInv, TypeInv', NEW d \in Devices, NEW s \in Nat, NEW r \in Own(d), Upsert(r)
  PROVE  RoomIn(row'[d], req', d, s) <= RoomIn(row[d], req, d, s)
<1>0. r \in Requests /\ Device(r) = d /\ \A x \in Own(d) \ {r} : req'[x] = req[x]
  BY OthersWait DEF Own, Handle
<1>1. PICK o, c, a \in Nat :
            /\ o + c + 1 <= InFlight /\ a <= c
            /\ \A w : RoomIn(w, req, d, s) =
                  Room(Behind(w, s), o + OldNum(req[r], s), c + CovNum(req[r], s),
                       a + AddNum(req[r], s))
            /\ \A w : RoomIn(w, req', d, s) =
                  Room(Behind(w, s), o + OldNum(req'[r], s), c + CovNum(req'[r], s),
                       a + AddNum(req'[r], s))
  BY <1>0, RoomAround
<1>2. req[r] \in Handling /\ req[r].pc = "upsert" /\ req'[r] = Idle
  BY <1>0 DEF Upsert, Idle, TypeInv, TypeOK
<1>3. row'[d] = [seen |-> Second(req[r].at), act |-> req[r].act]
  BY <1>0 DEF Upsert, TypeInv, TypeOK
<1>4. PICK t \in Nat : t = Second(req[r].at)
  BY <1>2, SecondType, LedgerAssumption DEF Handling
<1>5. PICK b \in 0..1 : b = Behind(row[d], s)
  BY BehindType
<1>6. OldNum(req'[r], s) = 0 /\ CovNum(req'[r], s) = 0 /\ AddNum(req'[r], s) = 0
  BY <1>2, NumIdle
<1>7. row'[d] # NoRow /\ row'[d].seen = t
  BY <1>3, <1>4 DEF NoRow
<1>8. PICK x, y \in 0..1 : /\ x = OldNum(req[r], s) /\ y = CovNum(req[r], s)
                           /\ AddNum(req[r], s) = 0 /\ x + y <= 1
  BY <1>2, NumOfRequest
<1>9. RoomIn(row[d], req, d, s) = Room(b, o + x, c + y, a)
  BY <1>1, <1>5, <1>8
<1>10. CASE t <= s
  <2>1. x = 1
    BY <1>2, <1>4, <1>8, <1>10 DEF OldNum, IsOld, Idle
  <2>2. y = 0
    BY <1>8, <2>1
  <2>3. Behind(row'[d], s) = 1
    BY <1>7, <1>10 DEF Behind
  <2>4. RoomIn(row'[d], req', d, s) = Room(1, o, c, a)
    BY <1>1, <1>6, <2>3
  <2>5. Room(1, o, c, a) <= Room(b, o + 1, c, a)
    BY <1>1, RoomMoves
  <2> QED
    BY <1>9, <2>1, <2>2, <2>4, <2>5
<1>11. CASE ~(t <= s)
  <2>1. x = 0
    BY <1>4, <1>8, <1>11 DEF OldNum, IsOld
  <2>2. Behind(row'[d], s) = 0
    BY <1>7, <1>11 DEF Behind
  <2>3. RoomIn(row'[d], req', d, s) = Room(0, o, c, a)
    BY <1>1, <1>6, <2>2
  <2>4. Room(0, o, c, a) <= Room(b, o, c, a) /\ Room(0, o, c, a) <= Room(b, o, c + 1, a)
    BY <1>1, RoomMoves
  <2>5. y = 0 \/ y = 1
    OBVIOUS
  <2> QED
    BY <1>9, <2>1, <2>3, <2>4, <2>5
<1> QED
  BY <1>10, <1>11

(* A second added for a report that is not stored may be credited again. *)
LEMMA RoomOfUpsertFails ==
  ASSUME TypeInv, TypeInv', NEW d \in Devices, NEW s \in Nat, NEW r \in Own(d), UpsertFails(r)
  PROVE  RoomIn(row'[d], req', d, s) <= RoomIn(row[d], req, d, s) + 2 * PaidNum(req[r], s)
<1>0. r \in Requests /\ Device(r) = d /\ \A x \in Own(d) \ {r} : req'[x] = req[x]
  BY OthersWait DEF Own, Handle
<1>1. PICK o, c, a \in Nat :
            /\ o + c + 1 <= InFlight /\ a <= c
            /\ \A w : RoomIn(w, req, d, s) =
                  Room(Behind(w, s), o + OldNum(req[r], s), c + CovNum(req[r], s),
                       a + AddNum(req[r], s))
            /\ \A w : RoomIn(w, req', d, s) =
                  Room(Behind(w, s), o + OldNum(req'[r], s), c + CovNum(req'[r], s),
                       a + AddNum(req'[r], s))
  BY <1>0, RoomAround
<1>2. req[r].pc = "upsert" /\ req'[r] = Idle /\ row' = row
  BY <1>0 DEF UpsertFails, Idle, TypeInv, TypeOK
<1>3. PICK b \in 0..1 : b = Behind(row[d], s)
  BY BehindType
<1>4. OldNum(req'[r], s) = 0 /\ CovNum(req'[r], s) = 0 /\ AddNum(req'[r], s) = 0
  BY <1>2, NumIdle
<1>5. PICK x, y \in 0..1 : /\ x = OldNum(req[r], s) /\ y = CovNum(req[r], s)
                           /\ AddNum(req[r], s) = 0 /\ PaidNum(req[r], s) = y /\ x + y <= 1
  BY <1>2, NumOfRequest
<1>6. /\ RoomIn(row[d], req, d, s) = Room(b, o + x, c + y, a)
      /\ RoomIn(row[d], req', d, s) = Room(b, o, c, a)
  BY <1>1, <1>3, <1>4, <1>5
<1>7. /\ Room(b, o, c, a) <= Room(b, o + 1, c, a)
      /\ Room(b, o, c, a) <= Room(b, o, c + 1, a) + 2
  BY <1>1, RoomMoves
<1>8. Room(b, o, c, a) \in Nat
  BY <1>1, RoomType
<1>9. SUFFICES Room(b, o, c, a) <= Room(b, o + x, c + y, a) + 2 * y
  BY <1>2, <1>5, <1>6
<1>10. CASE x = 0 /\ y = 0
  BY <1>8, <1>10
<1>11. CASE x = 1 /\ y = 0
  <2>1. Room(b, o + x, c + y, a) = Room(b, o + 1, c, a) /\ 2 * y = 0
    BY <1>11
  <2>2. Room(b, o + 1, c, a) \in Nat
    <3>1. 1 \in 0..1
      OBVIOUS
    <3> QED
      BY <1>1, <3>1, RoomType
  <2> QED
    BY <1>7, <2>1, <2>2
<1>12. CASE x = 0 /\ y = 1
  BY <1>7, <1>12
<1> QED
  BY <1>5, <1>10, <1>11, <1>12

(* A new report is of no second that has gone by. *)
LEMMA RoomOfAccept ==
  ASSUME TypeInv, TypeInv', NEW d \in Devices, NEW s \in Nat, NEW r \in Own(d),
         NEW g \in Activities, Accept(r, g), s < Second(now)
  PROVE  RoomIn(row'[d], req', d, s) <= RoomIn(row[d], req, d, s)
<1>0. r \in Requests /\ Device(r) = d /\ \A x \in Own(d) \ {r} : req'[x] = req[x]
  BY OthersWait DEF Own
<1>1. PICK o, c, a \in Nat :
            /\ o + c + 1 <= InFlight /\ a <= c
            /\ \A w : RoomIn(w, req, d, s) =
                  Room(Behind(w, s), o + OldNum(req[r], s), c + CovNum(req[r], s),
                       a + AddNum(req[r], s))
            /\ \A w : RoomIn(w, req', d, s) =
                  Room(Behind(w, s), o + OldNum(req'[r], s), c + CovNum(req'[r], s),
                       a + AddNum(req'[r], s))
  BY <1>0, RoomAround
<1>2. /\ req[r] = Idle /\ row' = row
      /\ req'[r] = [pc |-> "read", at |-> now, act |-> g, prev |-> NoRow, failed |-> FALSE]
  BY <1>0 DEF Accept, TypeInv, TypeOK
<1>3. OldNum(req[r], s) = 0 /\ CovNum(req[r], s) = 0 /\ AddNum(req[r], s) = 0
  BY <1>2, NumIdle
<1>4. now \in Nat
  BY LedgerAssumption DEF TypeInv, TypeOK
<1>5. Second(now) \in Nat
  BY <1>4, SecondType
<1>6. OldNum(req'[r], s) = 0 /\ CovNum(req'[r], s) = 0 /\ AddNum(req'[r], s) = 0
  <2>1. req'[r].at = now /\ req'[r].pc = "read"
    BY <1>2
  <2> QED
    BY <1>5, <2>1 DEF OldNum, IsOld, CovNum, AddNum, Covers
<1>7. PICK b \in 0..1 : b = Behind(row[d], s)
  BY BehindType
<1>8. RoomIn(row[d], req, d, s) = Room(b, o, c, a) /\ RoomIn(row[d], req', d, s) = Room(b, o, c, a)
  BY <1>1, <1>3, <1>6, <1>7
<1>9. Room(b, o, c, a) \in Nat
  BY <1>1, RoomType
<1> QED
  BY <1>2, <1>8, <1>9

(* The requests end with the process, and what they have added is noted. *)
LEMMA RoomOfCrash ==
  ASSUME TypeInv, NEW d \in Devices, NEW s \in Nat, Crash
  PROVE  RoomIn(row'[d], req', d, s)
           <= RoomIn(row[d], req, d, s) + 2 * SumFunctionOnSet(Paids(req, s), Own(d))
<1>1. req \in [Requests -> Handling \cup {Idle}]
  BY DEF TypeInv, TypeOK
<1>2. PICK o, c, a \in Nat : /\ o = Old(req, d, s) /\ c = Committed(req, d, s)
                             /\ a = ToAdd(req, d, s) /\ o + c <= InFlight /\ a <= c
                             /\ SumFunctionOnSet(Paids(req, s), Own(d)) = c - a
  BY <1>1, CountsOfDevice
<1>3. Old(req', d, s) = 0 /\ Committed(req', d, s) = 0 /\ ToAdd(req', d, s) = 0
  <2>1. \A x \in Own(d) : x \in Requests /\ req'[x] = Idle
    BY DEF Crash, Own
  <2>2. \A x \in Own(d) : Olds(req', s)[x] = 0 /\ Covs(req', s)[x] = 0 /\ ToAdds(req', s)[x] = 0
    BY <2>1, NumIdle DEF Olds, Covs, ToAdds
  <2> QED
    BY <2>2, OwnRequests, SumOfZeros DEF Old, Committed, ToAdd
<1>4. PICK b \in 0..1 : b = Behind(row[d], s)
  BY BehindType
<1>5. RoomIn(row[d], req, d, s) = Room(b, o, c, a)
  BY <1>2, <1>4 DEF RoomIn
<1>6. RoomIn(row[d], req', d, s) = Room(b, 0, 0, 0)
  BY <1>3, <1>4 DEF RoomIn
<1>7. Room(b, 0, 0, 0) <= Room(b, o, c, a) + 2 * (c - a)
  BY <1>2, RoomBounds
<1>8. row' = row
  BY DEF Crash
<1> QED
  BY <1>2, <1>5, <1>6, <1>7, <1>8

-----------------------------------------------------------------------------
(* What a step does to the room of an hour                                  *)

LEMMA GoneType ==
  ASSUME NEW n \in Nat, NEW h \in Nat
  PROVE  /\ IsFiniteSet(Gone(n, h))
         /\ \A s \in Gone(n, h) : s \in Nat /\ s < n /\ Hour(s) = h
<1>1. IsFiniteSet(0..(n - 1))
  <2>1. 0 \in Int /\ n - 1 \in Int
    OBVIOUS
  <2> QED
    BY <2>1, FS_Interval, Zenon
<1>2. IsFiniteSet(Gone(n, h))
  BY <1>1, FS_Subset DEF Gone
<1> QED
  BY <1>2 DEF Gone

LEMMA RoomInType ==
  ASSUME NEW w, NEW q \in [Requests -> Handling \cup {Idle}], NEW d \in Devices, NEW s \in Nat
  PROVE  RoomIn(w, q, d, s) \in Nat
<1>1. /\ Old(q, d, s) \in Nat /\ Committed(q, d, s) \in Nat /\ ToAdd(q, d, s) \in Nat
      /\ Old(q, d, s) + Committed(q, d, s) <= InFlight /\ ToAdd(q, d, s) <= Committed(q, d, s)
  BY CountsOfDevice
<1>2. Behind(w, s) \in 0..1
  BY BehindType
<1> QED
  BY <1>1, <1>2, RoomBounds DEF RoomIn

(* What holds of each second holds of all of them. *)
LEMMA SumOfMoves ==
  ASSUME NEW S, IsFiniteSet(S), NEW x, NEW y, NEW b, NEW p,
         \A s \in S : /\ x[s] \in Int /\ y[s] \in Int /\ b[s] \in Int /\ p[s] \in Int
                      /\ y[s] + 2 * b[s] <= x[s] + 2 * p[s]
  PROVE  SumFunctionOnSet(y, S) + 2 * SumFunctionOnSet(b, S)
           <= SumFunctionOnSet(x, S) + 2 * SumFunctionOnSet(p, S)
<1>1. ASSUME NEW f, NEW g, \A s \in S : f[s] \in Int /\ g[s] \in Int,
             NEW m, \A s \in S : m[s] = f[s] + 2 * g[s]
      PROVE  SumFunctionOnSet(m, S) = SumFunctionOnSet(f, S) + 2 * SumFunctionOnSet(g, S)
  <2>1. PICK v : v = [s \in S |-> f[s] + g[s]]
    OBVIOUS
  <2>2. \A s \in S : v[s] = f[s] + g[s] /\ v[s] \in Int /\ m[s] = v[s] + g[s]
    BY <1>1, <2>1
  <2>3. SumFunctionOnSet(v, S) = SumFunctionOnSet(f, S) + SumFunctionOnSet(g, S)
    BY <1>1, <2>2, SumOfSums
  <2>4. SumFunctionOnSet(m, S) = SumFunctionOnSet(v, S) + SumFunctionOnSet(g, S)
    BY <1>1, <2>2, SumOfSums
  <2>5. SumFunctionOnSet(f, S) \in Int /\ SumFunctionOnSet(g, S) \in Int
    BY <1>1, SumInt
  <2> QED
    BY <2>3, <2>4, <2>5
<1>2. PICK k : k = [s \in S |-> y[s] + 2 * b[s]]
  OBVIOUS
<1>3. PICK l : l = [s \in S |-> x[s] + 2 * p[s]]
  OBVIOUS
<1>4. SumFunctionOnSet(k, S) = SumFunctionOnSet(y, S) + 2 * SumFunctionOnSet(b, S)
  BY <1>1, <1>2
<1>5. SumFunctionOnSet(l, S) = SumFunctionOnSet(x, S) + 2 * SumFunctionOnSet(p, S)
  BY <1>1, <1>3
<1>6. \A s \in S : k[s] \in Int /\ l[s] \in Int /\ k[s] <= l[s]
  BY <1>2, <1>3
<1>7. SumFunctionOnSet(k, S) <= SumFunctionOnSet(l, S)
  BY <1>6, SumMonotone
<1> QED
  BY <1>4, <1>5, <1>7

(* The seconds of an hour that a request covers are those of its interval   *)
(* in that hour.                                                            *)
LEMMA CoverTotal ==
  ASSUME NEW e \in Handling, e.pc \in {"add", "upsert"}, e.prev # NoRow, ~e.failed,
         NEW n \in Nat, NEW t \in Nat, t = Second(e.at), t <= n,
         NEW f \in Nat, f = e.prev.seen, NEW h \in Nat,
         NEW c, \A s \in Gone(n, h) : c[s] = CovNum(e, s)
  PROVE  SumFunctionOnSet(c, Gone(n, h)) = IF Creditable(f, t) THEN Overlap(f, t, h) ELSE 0
<1>1. IsFiniteSet(Gone(n, h)) /\ \A s \in Gone(n, h) : s \in Nat /\ s < n /\ Hour(s) = h
  BY GoneType
<1>2. \A s \in Gone(n, h) : c[s] = IF Creditable(f, t) /\ f <= s /\ s < t THEN 1 ELSE 0
  BY DEF CovNum, Covers
<1>3. CASE ~Creditable(f, t)
  BY <1>1, <1>2, <1>3, SumOfZeros
<1>4. CASE Creditable(f, t)
  <2>1. PICK E : E = {s \in f..(t - 1) : Hour(s) = h}
    OBVIOUS
  <2>2. \A s : s \in E <=> s \in Nat /\ f <= s /\ s < t /\ Hour(s) = h
    BY <2>1
  <2>3. E \in SUBSET Gone(n, h)
    BY <2>2 DEF Gone
  <2>4. (\A s \in E : c[s] = 1) /\ (\A s \in Gone(n, h) \ E : c[s] = 0)
    BY <1>1, <1>2, <1>4, <2>2, <2>3
  <2>5. IsFiniteSet(E)
    BY <1>1, <2>3, FS_Subset
  <2>6. \A s \in E : c[s] \in Int /\ c[s] = c[s]
    BY <2>4
  <2>7. SumFunctionOnSet(c, E) = SumFunctionOnSet(c, Gone(n, h))
    BY <1>1, <2>3, <2>4, <2>6, SumWhere
  <2>8. SumFunctionOnSet(c, E) = Cardinality(E)
    BY <2>4, <2>5, SumOfOnes
  <2>9. Cardinality(E) = Overlap(f, t, h)
    BY <2>1, OverlapCounts
  <2> QED
    BY <1>4, <2>7, <2>8, <2>9
<1> QED
  BY <1>3, <1>4

(* A request has added what its answer has yet to settle.                   *)
Owing(e) == e.pc = "upsert" /\ e.prev # NoRow /\ ~e.failed
Debt(e, k) == IF Owing(e) THEN Worth(e.prev, e.at, k) ELSE 0
Debts(R) == [z \in R \X Keys |-> Debt(req[z[1]], z[2])]

(* What is unsettled is what the requests owe. *)
LEMMA UnsettledTotal ==
  ASSUME TypeInv, NEW d \in Devices, NEW R \in SUBSET Own(d), NEW k \in Keys
  PROVE  /\ Unsettled(R, k) = SumFunctionOnSet(Across(Debts(R), R, k), R)
         /\ \A r \in R : Debts(R)[<<r, k>>] = Debt(req[r], k) /\ Debt(req[r], k) \in Nat
<1>1. IsFiniteSet(R) /\ R \subseteq Requests
  BY OwnRequests, FS_Subset DEF Own
<1>2. PICK E : E = {r \in R : req[r].pc = "upsert" /\ req[r].prev # NoRow /\ ~req[r].failed}
  OBVIOUS
<1>3. PICK o : o = [r \in E |-> SumFunction([h \in Hours |-> Seconds(Interval(r), h, k)])]
  OBVIOUS
<1>4. Unsettled(R, k) = SumFunctionOnSet(o, E)
  BY <1>2, <1>3 DEF Unsettled, SumFunction
<1>5. ASSUME NEW r \in E PROVE o[r] = Worth(req[r].prev, req[r].at, k) /\ o[r] \in Nat
  <2>1. req[r] \in Handling \cup {Idle} /\ req[r].pc = "upsert" /\ req[r].prev # NoRow
    BY <1>1, <1>2 DEF TypeInv, TypeOK
  <2>2. req[r].prev \in Rows /\ req[r].at \in 0..MaxNow
    BY <2>1 DEF Handling, Idle
  <2>3. \E p, at : p = req[r].prev /\ at = req[r].at
    OBVIOUS
  <2>4. PICK p, at : p = req[r].prev /\ at = req[r].at
    BY <2>3, Zenon
  <2>5. PICK f : f = [h \in Hours |-> Seconds(Interval(r), h, k)]
    OBVIOUS
  <2>6. f = [h \in Hours |-> Seconds(Attribute(p.act, p.seen * TicksPerSecond, at), h, k)]
    BY <2>4, <2>5 DEF Interval
  <2>7. SumFunction(f) = Worth(p, at, k) /\ Worth(p, at, k) \in Nat
    BY <2>2, <2>4, <2>6, IntervalTotal
  <2> QED
    BY <1>3, <2>4, <2>5, <2>7
<1>6. ASSUME NEW r \in R
      PROVE  /\ Debts(R)[<<r, k>>] = Debt(req[r], k) /\ Across(Debts(R), R, k)[r] = Debt(req[r], k)
             /\ r \in E => Debt(req[r], k) = o[r]
             /\ r \notin E => Debt(req[r], k) = 0
  <2>1. Debts(R)[<<r, k>>] = Debt(req[r], k)
    BY DEF Debts
  <2>2. Across(Debts(R), R, k)[r] = Debt(req[r], k)
    BY <2>1 DEF Across
  <2>3. r \in E <=> Owing(req[r])
    BY <1>2 DEF Owing
  <2> QED
    BY <1>5, <2>1, <2>2, <2>3 DEF Debt
<1>7. PICK g : g = Across(Debts(R), R, k)
  OBVIOUS
<1>8. SumFunctionOnSet(o, E) = SumFunctionOnSet(g, R)
  <2>1. E \in SUBSET R
    BY <1>2
  <2>2. ASSUME NEW r \in E PROVE o[r] \in Int /\ g[r] = o[r]
    <3>1. o[r] \in Nat
      BY <1>5
    <3>2. r \in R
      BY <2>1
    <3>3. g[r] = Debt(req[r], k) /\ Debt(req[r], k) = o[r]
      BY <1>6, <1>7, <3>2
    <3> QED
      BY <3>1, <3>3
  <2>3. ASSUME NEW r \in R \ E PROVE g[r] = 0
    BY <1>6, <1>7
  <2> QED
    BY <1>1, <2>1, <2>2, <2>3, SumWhere
<1> QED
  BY <1>4, <1>5, <1>6, <1>7, <1>8

(* The seconds of one hour that reports which end without their row had     *)
(* added are no more than what is noted for them.                           *)
LEMMA PayTotal ==
  ASSUME TypeInv, Stamped, NEW d \in Devices, NEW R \in SUBSET Own(d), NEW h \in Hours,
         NEW S, S = Gone(Second(now), h),
         NEW p, \A s \in S : p[s] = SumFunctionOnSet(Paids(req, s), R),
         NEW u, \A k \in Keys : u[k] = Unsettled(R, k)
  PROVE  /\ SumFunctionOnSet(p, S) <= SumFunctionOnSet(u, Keys)
         /\ \A s \in S : p[s] \in Int
         /\ \A k \in Keys : u[k] \in Nat
<1>1. IsFiniteSet(R) /\ R \subseteq Requests /\ IsFiniteSet(Keys)
  BY OwnRequests, FS_Subset, ConstantTypes DEF Own
<1>2. PICK n \in Nat : n = Second(now)
  <2>1. now \in Nat
    BY LedgerAssumption DEF TypeInv, TypeOK
  <2> QED
    BY <2>1, SecondType
<1>3. h \in Nat
  BY ConstantTypes
<1>4. IsFiniteSet(S) /\ \A s \in S : s \in Nat
  BY <1>2, <1>3, GoneType
<1>5. \A r \in R : req[r] \in Handling \cup {Idle}
  BY <1>1 DEF TypeInv, TypeOK
<1>6. \A r \in R, s \in S : PaidNum(req[r], s) \in Int
  <2>1. \A r \in R, s \in S : PaidNum(req[r], s) \in 0..1
    BY <1>4, <1>5, NumTypes
  <2> QED
    BY <2>1
<1>7. PICK f : f = [z \in R \X S |-> PaidNum(req[z[1]], z[2])]
  OBVIOUS
<1>8. \A r \in R, s \in S : f[<<r, s>>] = PaidNum(req[r], s) /\ f[<<r, s>>] \in Int
  BY <1>6, <1>7
<1>9. PICK B : B = [r \in R |-> SumFunctionOnSet(Down(f, S, r), S)]
  OBVIOUS
<1>10. SumFunctionOnSet(p, S) = SumFunctionOnSet(B, R)
  <2>1. SumsAcross(p, S, f, R)
    <3>1. ASSUME NEW s \in S PROVE p[s] = SumFunctionOnSet(Across(f, R, s), R)
      <4>1. \A r \in R : Paids(req, s)[r] = Across(f, R, s)[r]
        BY <1>1, <1>8 DEF Paids, Across
      <4> QED
        BY <1>1, <4>1, SumSame
    <3> QED
      BY <3>1 DEF SumsAcross
  <2>2. SumsDown(B, R, f, S)
    BY <1>9 DEF SumsDown
  <2> QED
    BY <1>1, <1>4, <1>8, <2>1, <2>2, SumSwapped
<1>11. PICK g : g = Debts(R)
  OBVIOUS
<1>12. \A r \in R, k \in Keys : g[<<r, k>>] = Debt(req[r], k) /\ Debt(req[r], k) \in Nat
  BY <1>11, UnsettledTotal
<1>13. PICK D : D = [r \in R |-> SumFunctionOnSet(Down(g, Keys, r), Keys)]
  OBVIOUS
<1>14. SumFunctionOnSet(u, Keys) = SumFunctionOnSet(D, R)
  <2>1. SumsAcross(u, Keys, g, R)
    BY <1>11, UnsettledTotal DEF SumsAcross
  <2>2. SumsDown(D, R, g, Keys)
    BY <1>13 DEF SumsDown
  <2>3. ASSUME NEW r \in R, NEW k \in Keys PROVE g[<<r, k>>] \in Int
    <3>1. PICK n2 \in Nat : n2 = Debt(req[r], k)
      BY <1>12
    <3>2. g[<<r, k>>] = n2
      BY <1>12, <3>1
    <3> QED
      BY <3>2
  <2> QED
    BY <1>1, <2>1, <2>2, <2>3, SumSwapped
<1>15. ASSUME NEW r \in R PROVE B[r] \in Int /\ D[r] \in Int /\ B[r] <= D[r]
  <2>1. PICK b : b = Down(f, S, r)
    OBVIOUS
  <2>2. \A s \in S : b[s] = PaidNum(req[r], s) /\ b[s] \in Int
    BY <1>8, <2>1 DEF Down
  <2>3. PICK w : w = Down(g, Keys, r)
    OBVIOUS
  <2>4. \A k \in Keys : w[k] = Debt(req[r], k) /\ w[k] \in Nat
    BY <1>12, <2>3 DEF Down
  <2>5. B[r] = SumFunctionOnSet(b, S) /\ D[r] = SumFunctionOnSet(w, Keys)
    BY <1>9, <1>13, <2>1, <2>3
  <2>6. SumFunctionOnSet(b, S) \in Int /\ SumFunctionOnSet(w, Keys) \in Nat
    BY <1>1, <1>4, <2>2, <2>4, SumInt, SumNat
  <2>7. CASE ~Owing(req[r])
    <3>1. \A s \in S : b[s] = 0
      BY <2>2, <2>7 DEF PaidNum, Covers, Owing
    <3>2. SumFunctionOnSet(b, S) = 0
      BY <1>4, <3>1, SumOfZeros
    <3> QED
      BY <2>5, <2>6, <3>2
  <2>8. CASE Owing(req[r])
    <3>1. PICK e \in Handling : e = req[r]
      BY <1>5, <2>8 DEF Owing, Idle
    <3>2. e.pc = "upsert" /\ e.prev # NoRow /\ ~e.failed /\ e.prev \in Rows
          /\ e.at \in 0..MaxNow /\ e # Idle
      BY <2>8, <3>1 DEF Owing, Handling, Idle
    <3>3. PICK x \in Nat : x = e.prev.seen
      BY <3>2, ConstantTypes DEF Rows
    <3>4. PICK t \in Nat : t = Second(e.at) /\ t <= n
      <4>1. e.at \in Nat /\ now \in Nat /\ e.at <= now
        BY <1>1, <3>1, <3>2, LedgerAssumption DEF Stamped, TypeInv, TypeOK
      <4> QED
        BY <1>2, <4>1, SecondType
    <3>5. \A s \in Gone(n, h) : b[s] = CovNum(e, s)
      BY <1>2, <2>2, <3>1, <3>2 DEF PaidNum, CovNum
    <3>6. SumFunctionOnSet(b, S) = IF Creditable(x, t) THEN Overlap(x, t, h) ELSE 0
      BY <1>2, <1>3, <3>2, <3>3, <3>4, <3>5, CoverTotal
    <3>7. \A k \in Keys : w[k] = Worth(e.prev, e.at, k)
      BY <2>4, <2>8, <3>1 DEF Debt
    <3>8. SumFunctionOnSet(w, Keys) = IF Creditable(x, t) THEN t - x ELSE 0
      BY <3>2, <3>3, <3>4, <3>7, WorthTotal
    <3>9. Creditable(x, t) => Overlap(x, t, h) <= t - x
      <4>1. Creditable(x, t) => x <= t
        BY DEF Creditable
      <4> QED
        BY <1>3, <4>1, OverlapGrows
    <3>10. CASE Creditable(x, t)
      BY <2>5, <2>6, <3>6, <3>8, <3>9, <3>10
    <3>11. CASE ~Creditable(x, t)
      BY <2>5, <2>6, <3>6, <3>8, <3>11
    <3> QED
      BY <3>10, <3>11
  <2> QED
    BY <2>7, <2>8
<1>16. SumFunctionOnSet(B, R) <= SumFunctionOnSet(D, R)
  BY <1>1, <1>15, SumMonotone
<1>17. ASSUME NEW s \in S PROVE p[s] \in Int
  <2>1. \A r \in R : Paids(req, s)[r] \in Int
    BY <1>1, <1>6 DEF Paids
  <2> QED
    BY <1>1, <2>1, SumInt
<1>18. ASSUME NEW k \in Keys PROVE u[k] \in Nat
  <2>1. PICK a : a = Across(g, R, k)
    OBVIOUS
  <2>2. \A r \in R : a[r] \in Nat
    BY <1>12, <2>1 DEF Across
  <2>3. u[k] = SumFunctionOnSet(a, R)
    BY <1>11, <2>1, UnsettledTotal
  <2> QED
    BY <1>1, <2>2, <2>3, SumNat
<1> QED
  BY <1>10, <1>14, <1>16, <1>17, <1>18

LEMMA StampedStep ==
  ASSUME TypeInv, Stamped, [Next]_vars
  PROVE  Stamped'
<1>1. CASE UNCHANGED vars
  BY <1>1 DEF vars, Stamped
<1>2. ASSUME NEW r \in Requests, Handle(r) \/ \E a \in Activities : Accept(r, a)
      PROVE  Stamped'
  <2>1. now' = now /\ \A x \in Requests \ {r} : req'[x] = req[x]
    BY <1>2, OthersWait
  <2>2. SUFFICES /\ req'[r] # Idle => req'[r].at <= now
                 /\ req'[r].pc \in {"read", "add"} => ~req'[r].failed
    BY <2>1 DEF Stamped
  <2>3. req[r] \in Handling \cup {Idle} /\ now \in Nat /\ now <= now
    BY LedgerAssumption DEF TypeInv, TypeOK
  <2>4. ASSUME NEW a \in Activities, Accept(r, a)
        PROVE  req'[r].at = now /\ req'[r].failed = FALSE
    BY <2>4 DEF Accept, TypeInv, TypeOK
  <2>5. CASE Read(r)
    <3>1. req[r] \in Handling /\ req[r] # Idle /\ req[r].pc = "read"
      BY <2>3, <2>5 DEF Read, Idle, Handling
    <3>2. req'[r].at = req[r].at /\ req'[r].failed = req[r].failed
      BY <2>5, <3>1 DEF Read, Handling, TypeInv, TypeOK
    <3> QED
      BY <3>1, <3>2 DEF Stamped
  <2>6. CASE ReadFails(r) \/ AddUsageFails(r) \/ AddUsage(r)
    <3>1. req[r] \in Handling /\ req[r] # Idle
      BY <2>3, <2>6 DEF ReadFails, AddUsageFails, AddUsage, Idle, Handling
    <3>2. req'[r].at = req[r].at /\ req'[r].pc = "upsert"
      BY <2>6, <3>1 DEF ReadFails, AddUsageFails, AddUsage, Handling, TypeInv, TypeOK
    <3> QED
      BY <3>1, <3>2 DEF Stamped
  <2>7. CASE Upsert(r) \/ UpsertFails(r)
    <3>1. req'[r] = Idle
      BY <2>7 DEF Upsert, UpsertFails, TypeInv, TypeOK
    <3> QED
      BY <3>1 DEF Idle
  <2> QED
    BY <1>2, <2>3, <2>4, <2>5, <2>6, <2>7 DEF Handle
<1>3. CASE Prune
  BY <1>3 DEF Prune, Stamped
<1>4. CASE Tick
  <2>1. now \in Nat /\ now' = now + 1 /\ req' = req
    BY <1>4, LedgerAssumption DEF Tick, TypeInv, TypeOK
  <2>2. ASSUME NEW r \in Requests, req[r] # Idle PROVE req[r].at <= now + 1
    <3>1. req[r].at \in Nat /\ req[r].at <= now
      BY <2>2, LedgerAssumption DEF Stamped, TypeInv, TypeOK, Handling
    <3> QED
      BY <2>1, <3>1
  <2> QED
    BY <2>1, <2>2 DEF Stamped
<1>5. CASE Crash
  BY <1>5 DEF Crash, Stamped, Idle
<1> QED
  BY <1>1, <1>2, <1>3, <1>4, <1>5 DEF Next

(* The seconds in a row of the books. *)
LEMMA SumOfKeys ==
  ASSUME NEW b \in [Keys -> Nat]
  PROVE  SumFunction(b) = SumFunctionOnSet(b, Keys) /\ SumFunction(b) \in Nat
<1>1. DOMAIN b = Keys /\ \A k \in Keys : b[k] \in Nat
  OBVIOUS
<1>2. SumFunction(b) = SumFunctionOnSet(b, Keys)
  BY <1>1 DEF SumFunction
<1> QED
  BY <1>1, <1>2, ConstantTypes, SumNat

LEMMA RoomsType ==
  ASSUME NEW w, NEW q \in [Requests -> Handling \cup {Idle}], NEW d \in Devices,
         NEW S, IsFiniteSet(S), \A s \in S : s \in Nat
  PROVE  Rooms(w, q, d, S) \in Nat
<1>1. PICK x : x = RoomsIn(w, q, d, S)
  OBVIOUS
<1>2. \A s \in S : x[s] = RoomIn(w, q, d, s) /\ x[s] \in Nat
  BY <1>1, RoomInType DEF RoomsIn
<1>3. SumFunctionOnSet(x, S) \in Nat
  BY <1>2, SumNat
<1> QED
  BY <1>1, <1>3 DEF Rooms

(* An hour keeps its room if what a step puts in the books, less what it    *)
(* notes as added for reports not stored, is taken from the room of the     *)
(* seconds: b of each is added, p of each noted.                            *)
LEMMA RoomyMoves ==
  ASSUME TypeInv, TypeInv', NEW d \in Devices, NEW h \in Hours, Roomy(d), now' = now,
         NEW S, S = Gone(Second(now), h), NEW b, NEW p,
         \A s \in S : /\ b[s] \in Int /\ p[s] \in Int
                      /\ RoomIn(row'[d], req', d, s) + 2 * b[s]
                            <= RoomIn(row[d], req, d, s) + 2 * p[s],
         Booked(d, h)' + SumFunctionOnSet(p, S) + SumFunction(twice[d])
            <= Booked(d, h) + SumFunctionOnSet(b, S) + SumFunction(twice'[d])
  PROVE  2 * Booked(d, h)' + Rooms(row'[d], req', d, Gone(Second(now'), h))
            <= Ceiling * Overlap(0, Second(now'), h) + 2 * SumFunction(twice'[d])
<1>1. PICK n \in Nat : n = Second(now)
  <2>1. now \in Nat
    BY LedgerAssumption DEF TypeInv, TypeOK
  <2> QED
    BY <2>1, SecondType
<1>2. Second(now') = n
  BY <1>1 DEF Second
<1>3. h \in Nat /\ IsFiniteSet(S) /\ \A s \in S : s \in Nat
  BY <1>1, ConstantTypes, GoneType
<1>4. req \in [Requests -> Handling \cup {Idle}] /\ req' \in [Requests -> Handling \cup {Idle}]
  BY DEF TypeInv, TypeOK
<1>5. PICK x : x = RoomsIn(row[d], req, d, S)
  OBVIOUS
<1>6. PICK y : y = RoomsIn(row'[d], req', d, S)
  OBVIOUS
<1>7. ASSUME NEW s \in S
      PROVE  /\ x[s] \in Int /\ y[s] \in Int /\ b[s] \in Int /\ p[s] \in Int
             /\ y[s] + 2 * b[s] <= x[s] + 2 * p[s]
  <2>1. x[s] = RoomIn(row[d], req, d, s) /\ y[s] = RoomIn(row'[d], req', d, s) /\ s \in Nat
    BY <1>3, <1>5, <1>6 DEF RoomsIn
  <2>2. RoomIn(row[d], req, d, s) \in Nat /\ RoomIn(row'[d], req', d, s) \in Nat
    BY <1>4, <2>1, RoomInType
  <2> QED
    BY <2>1, <2>2
<1>8. SumFunctionOnSet(y, S) + 2 * SumFunctionOnSet(b, S)
           <= SumFunctionOnSet(x, S) + 2 * SumFunctionOnSet(p, S)
  BY <1>3, <1>7, SumOfMoves
<1>9. /\ SumFunctionOnSet(x, S) \in Int /\ SumFunctionOnSet(y, S) \in Int
      /\ SumFunctionOnSet(b, S) \in Int /\ SumFunctionOnSet(p, S) \in Int
  BY <1>3, <1>7, SumInt
<1>10. PICK c, c2, w, w2 \in Nat : /\ c = Booked(d, h) /\ c2 = Booked(d, h)'
                                   /\ w = SumFunction(twice[d]) /\ w2 = SumFunction(twice'[d])
  <2>1. /\ bucket[d][h] \in [Keys -> Nat] /\ bucket'[d][h] \in [Keys -> Nat]
        /\ twice[d] \in [Keys -> Nat] /\ twice'[d] \in [Keys -> Nat]
    BY DEF TypeInv, TypeOK
  <2>2. Booked(d, h) = SumFunction(bucket[d][h]) /\ Booked(d, h)' = SumFunction(bucket'[d][h])
    BY DEF Booked
  <2> QED
    BY <2>1, <2>2, SumOfKeys
<1>11. PICK g \in Int : g = Ceiling * Overlap(0, n, h)
  <2>1. Overlap(0, n, h) \in Nat
    <3>1. 0 \in Nat /\ 0 <= n
      OBVIOUS
    <3> QED
      BY <1>3, <3>1, OverlapGrows
  <2> QED
    BY <2>1, ReachIs
<1>12. 2 * c + SumFunctionOnSet(x, S) <= g + 2 * w
  BY <1>1, <1>5, <1>10, <1>11 DEF Roomy, Rooms
<1>13. 2 * c2 + SumFunctionOnSet(y, S) <= g + 2 * w2
  <2>1. c2 + SumFunctionOnSet(p, S) + w <= c + SumFunctionOnSet(b, S) + w2
    BY <1>10
  <2> QED
    BY <1>8, <1>9, <1>10, <1>11, <1>12, <2>1
<1> QED
  BY <1>1, <1>2, <1>6, <1>10, <1>11, <1>13 DEF Rooms

(* A step that leaves the books of the hour alone, or takes from them.      *)
LEMMA RoomyKept ==
  ASSUME TypeInv, TypeInv', NEW d \in Devices, NEW h \in Hours, Roomy(d), now' = now,
         \A s \in Gone(Second(now), h) :
            RoomIn(row'[d], req', d, s) <= RoomIn(row[d], req, d, s),
         Booked(d, h)' <= Booked(d, h), twice'[d] = twice[d]
  PROVE  2 * Booked(d, h)' + Rooms(row'[d], req', d, Gone(Second(now'), h))
            <= Ceiling * Overlap(0, Second(now'), h) + 2 * SumFunction(twice'[d])
<1>1. PICK n \in Nat : n = Second(now)
  <2>1. now \in Nat
    BY LedgerAssumption DEF TypeInv, TypeOK
  <2> QED
    BY <2>1, SecondType
<1>2. PICK S : S = Gone(Second(now), h)
  OBVIOUS
<1>3. h \in Nat /\ IsFiniteSet(S) /\ \A s \in S : s \in Nat
  BY <1>1, <1>2, ConstantTypes, GoneType
<1>4. PICK z : z = [s \in S |-> 0]
  OBVIOUS
<1>5. \A s \in S : z[s] = 0
  BY <1>4
<1>6. SumFunctionOnSet(z, S) = 0
  BY <1>3, <1>5, SumOfZeros
<1>7. req \in [Requests -> Handling \cup {Idle}] /\ req' \in [Requests -> Handling \cup {Idle}]
  BY DEF TypeInv, TypeOK
<1>8. ASSUME NEW s \in S
      PROVE  /\ z[s] \in Int
             /\ RoomIn(row'[d], req', d, s) + 2 * z[s] <= RoomIn(row[d], req, d, s) + 2 * z[s]
  <2>1. RoomIn(row[d], req, d, s) \in Nat /\ RoomIn(row'[d], req', d, s) \in Nat
    BY <1>3, <1>7, RoomInType
  <2>2. RoomIn(row'[d], req', d, s) <= RoomIn(row[d], req, d, s)
    BY <1>2
  <2> QED
    BY <1>5, <2>1, <2>2
<1>9. Booked(d, h) \in Nat /\ Booked(d, h)' \in Nat /\ SumFunction(twice[d]) \in Nat
  <2>1. /\ bucket[d][h] \in [Keys -> Nat] /\ bucket'[d][h] \in [Keys -> Nat]
        /\ twice[d] \in [Keys -> Nat]
    BY DEF TypeInv, TypeOK
  <2>2. Booked(d, h) = SumFunction(bucket[d][h]) /\ Booked(d, h)' = SumFunction(bucket'[d][h])
    BY DEF Booked
  <2> QED
    BY <2>1, <2>2, SumOfKeys
<1>10. Booked(d, h)' + SumFunctionOnSet(z, S) + SumFunction(twice[d])
            <= Booked(d, h) + SumFunctionOnSet(z, S) + SumFunction(twice'[d])
  BY <1>6, <1>9
<1> QED
  BY <1>2, <1>8, <1>10, RoomyMoves

(* A step of another device's request is none to d. *)
LEMMA OthersPass ==
  ASSUME TypeInv, NEW d \in Devices, NEW r \in Requests, Device(r) # d,
         Handle(r) \/ \E a \in Activities : Accept(r, a)
  PROVE  /\ now' = now /\ row'[d] = row[d] /\ bucket'[d] = bucket[d] /\ twice'[d] = twice[d]
         /\ \A x \in Own(d) : req'[x] = req[x]
<1>1. r \notin Own(d) /\ Device(r) \in Devices
  BY OwnIs DEF Own
<1>2. now' = now /\ \A x \in Own(d) : req'[x] = req[x]
  BY <1>1, OthersWait DEF Own
<1>3. row'[d] = row[d] /\ bucket'[d] = bucket[d]
  BY <1>1 DEF Handle, Accept, Read, ReadFails, AddUsage, AddUsageFails, Upsert, UpsertFails,
              TypeInv, TypeOK
<1>4. twice'[d] = twice[d]
  <2>1. CASE UpsertFails(r)
    <3>1. {x \in {r} : Device(x) = d} = {}
      BY <1>1
    <3>2. ASSUME NEW k \in Keys PROVE Unsettled({}, k) = 0
      <4>1. {} \in SUBSET Own(d)
        OBVIOUS
      <4>2. Unsettled({}, k) = SumFunctionOnSet(Across(Debts({}), {}, k), {})
        BY <4>1, UnsettledTotal
      <4> QED
        BY <4>2, FS_EmptySet, SumUnfolds
    <3>3. twice'[d] = [k \in Keys |-> twice[d][k] + Unsettled({}, k)]
      BY <2>1, <3>1 DEF UpsertFails, NoteTwice
    <3>4. twice[d] \in [Keys -> Nat]
      BY DEF TypeInv, TypeOK
    <3> QED
      BY <3>2, <3>3, <3>4
  <2> QED
    BY <2>1 DEF Handle, Accept, Read, ReadFails, AddUsage, AddUsageFails, Upsert
<1> QED
  BY <1>2, <1>3, <1>4

LEMMA RoomOfOthers ==
  ASSUME TypeInv, TypeInv', NEW d \in Devices, NEW s \in Nat, row'[d] = row[d],
         \A x \in Own(d) : req'[x] = req[x]
  PROVE  RoomIn(row'[d], req', d, s) <= RoomIn(row[d], req, d, s)
<1>1. \A x \in Own(d) : /\ Olds(req', s)[x] = Olds(req, s)[x] /\ Covs(req', s)[x] = Covs(req, s)[x]
                        /\ ToAdds(req', s)[x] = ToAdds(req, s)[x]
  BY DEF Olds, Covs, ToAdds, Own
<1>2. /\ Old(req', d, s) = Old(req, d, s) /\ Committed(req', d, s) = Committed(req, d, s)
      /\ ToAdd(req', d, s) = ToAdd(req, d, s)
  BY <1>1, OwnRequests, SumSame DEF Old, Committed, ToAdd
<1>3. RoomIn(row'[d], req', d, s) = RoomIn(row[d], req, d, s)
  BY <1>2 DEF RoomIn
<1>4. req \in [Requests -> Handling \cup {Idle}]
  BY DEF TypeInv, TypeOK
<1>5. RoomIn(row[d], req, d, s) \in Nat
  BY <1>4, RoomInType
<1> QED
  BY <1>3, <1>5

(* The seconds that AddUsage adds are those its request covers. *)
LEMMA RoomyAdd ==
  ASSUME TypeInv, TypeInv', Stamped, NEW d \in Devices, NEW h \in Hours, Roomy(d),
         NEW r \in Own(d), AddUsage(r)
  PROVE  2 * Booked(d, h)' + Rooms(row'[d], req', d, Gone(Second(now'), h))
            <= Ceiling * Overlap(0, Second(now'), h) + 2 * SumFunction(twice'[d])
<1>0. r \in Requests /\ Device(r) = d /\ now' = now /\ twice' = twice
  BY DEF AddUsage, Own
<1>1. PICK e \in Handling : e = req[r] /\ e.pc = "add" /\ ~e.failed /\ e.at <= now
  <2>1. req[r] \in Handling /\ req[r].pc = "add" /\ req[r] # Idle
    BY <1>0 DEF AddUsage, Idle, TypeInv, TypeOK
  <2> QED
    BY <1>0, <2>1 DEF Stamped
<1>2. e.prev \in Rows /\ e.prev # NoRow
  <2>1. e.prev \in Rows
    BY <1>0, <1>1 DEF TypeInv, AddsForARow
  <2> QED
    BY <2>1, ConstantTypes DEF Rows, NoRow
<1>3. PICK p \in Rows : p = e.prev
  BY <1>2
<1>4. PICK at \in Nat : at = e.at /\ at <= now
  BY <1>1, LedgerAssumption DEF Handling
<1>5. PICK f \in Nat : f = p.seen
  BY ConstantTypes DEF Rows
<1>6. PICK n, t \in Nat : n = Second(now) /\ t = Second(at) /\ t <= n
  <2>1. now \in Nat
    BY LedgerAssumption DEF TypeInv, TypeOK
  <2> QED
    BY <1>4, <2>1, SecondType
<1>7. PICK S : S = Gone(n, h)
  OBVIOUS
<1>8. h \in Nat /\ IsFiniteSet(S) /\ (\A s \in S : s \in Nat) /\ IsFiniteSet(Keys)
  BY <1>7, ConstantTypes, GoneType
<1>9. PICK c : c = [s \in S |-> CovNum(e, s)]
  OBVIOUS
<1>10. SumFunctionOnSet(c, S) = IF Creditable(f, t) THEN Overlap(f, t, h) ELSE 0
  <2>1. \A s \in Gone(n, h) : c[s] = CovNum(e, s)
    BY <1>7, <1>9
  <2>2. t = Second(e.at) /\ f = e.prev.seen /\ e.pc \in {"add", "upsert"}
    BY <1>1, <1>3, <1>4, <1>5, <1>6
  <2> QED
    BY <1>1, <1>2, <1>6, <1>7, <1>8, <2>1, <2>2, CoverTotal
<1>11. PICK g : g = [k \in Keys |-> Part(p.act, f, t, h, k)]
  OBVIOUS
<1>12. p.act \in Activities
  BY DEF Rows
<1>13. /\ SumFunctionOnSet(g, Keys) = IF Creditable(f, t) THEN Overlap(f, t, h) ELSE 0
       /\ \A k \in Keys : g[k] \in Nat
  BY <1>8, <1>11, <1>12, PartTotal
<1>14. \A k \in Keys : Seconds(Attribute(p.act, f * TicksPerSecond, at), h, k) = g[k]
  BY <1>6, <1>8, <1>11, SecondsAre
<1>15. PICK b : b = bucket[d][h]
  OBVIOUS
<1>16. PICK b2 : b2 = bucket'[d][h]
  OBVIOUS
<1>17. b \in [Keys -> Nat] /\ b2 \in [Keys -> Nat]
  BY <1>15, <1>16 DEF TypeInv, TypeOK
<1>18. \A k \in Keys : b[k] \in Int /\ g[k] \in Int /\ b2[k] = b[k] + g[k]
  <2>1. bucket'[d] = [x \in Hours |-> [k \in Keys |->
                         bucket[d][x][k] + Seconds(Interval(r), x, k)]]
    BY <1>0 DEF AddUsage, TypeInv, TypeOK
  <2>2. Interval(r) = Attribute(p.act, f * TicksPerSecond, at)
    BY <1>1, <1>3, <1>4, <1>5 DEF Interval
  <2>3. \A k \in Keys : b2[k] = b[k] + Seconds(Interval(r), h, k)
    BY <1>15, <1>16, <2>1
  <2>4. \A k \in Keys : b2[k] = b[k] + g[k]
    BY <1>14, <2>2, <2>3
  <2>5. \A k \in Keys : b[k] \in Nat
    BY <1>17
  <2> QED
    BY <1>13, <2>4, <2>5
<1>19. SumFunctionOnSet(b2, Keys) = SumFunctionOnSet(b, Keys) + SumFunctionOnSet(g, Keys)
  BY <1>8, <1>18, SumOfSums
<1>20. Booked(d, h) = SumFunctionOnSet(b, Keys) /\ Booked(d, h)' = SumFunctionOnSet(b2, Keys)
  <2>1. Booked(d, h) = SumFunction(b) /\ Booked(d, h)' = SumFunction(b2)
    BY <1>15, <1>16 DEF Booked
  <2> QED
    BY <1>17, <2>1, SumOfKeys
<1>21. Booked(d, h)' = Booked(d, h) + SumFunctionOnSet(c, S)
  BY <1>10, <1>13, <1>19, <1>20
<1>22. PICK z : z = [s \in S |-> 0]
  OBVIOUS
<1>23. \A s \in S : z[s] = 0
  BY <1>22
<1>24. SumFunctionOnSet(z, S) = 0
  BY <1>8, <1>23, SumOfZeros
<1>25. ASSUME NEW s \in S
       PROVE  /\ c[s] \in Int /\ z[s] \in Int
              /\ RoomIn(row'[d], req', d, s) + 2 * c[s] <= RoomIn(row[d], req, d, s) + 2 * z[s]
  <2>1. s \in Nat
    BY <1>8
  <2>2. c[s] = CovNum(req[r], s) /\ CovNum(req[r], s) \in 0..1
    BY <1>1, <1>9, <2>1, NumOfRequest
  <2>3. RoomIn(row'[d], req', d, s) + 2 * CovNum(req[r], s) <= RoomIn(row[d], req, d, s)
    BY <2>1, RoomOfAdd
  <2>4. RoomIn(row[d], req, d, s) \in Nat
    BY <2>1, RoomInType DEF TypeInv, TypeOK
  <2> QED
    BY <1>23, <2>2, <2>3, <2>4
<1>26. Booked(d, h)' + SumFunctionOnSet(z, S) + SumFunction(twice[d])
            <= Booked(d, h) + SumFunctionOnSet(c, S) + SumFunction(twice'[d])
  <2>1. Booked(d, h) \in Nat /\ SumFunction(twice[d]) \in Nat
    BY SumsOfDevice
  <2>2. SumFunctionOnSet(c, S) \in Int
    BY <1>8, <1>25, SumInt
  <2> QED
    BY <1>0, <1>21, <1>24, <2>1, <2>2
<1> QED
  BY <1>0, <1>6, <1>7, <1>25, <1>26, RoomyMoves

(* What was added for reports that end without their row is noted, and may  *)
(* be added again.                                                          *)
LEMMA RoomyLoss ==
  ASSUME TypeInv, TypeInv', Stamped, NEW d \in Devices, NEW h \in Hours, Roomy(d), now' = now,
         NEW R \in SUBSET Own(d), bucket' = bucket,
         twice'[d] = [k \in Keys |-> twice[d][k] + Unsettled(R, k)],
         \A s \in Nat : RoomIn(row'[d], req', d, s)
            <= RoomIn(row[d], req, d, s) + 2 * SumFunctionOnSet(Paids(req, s), R)
  PROVE  2 * Booked(d, h)' + Rooms(row'[d], req', d, Gone(Second(now'), h))
            <= Ceiling * Overlap(0, Second(now'), h) + 2 * SumFunction(twice'[d])
<1>1. PICK n \in Nat : n = Second(now)
  <2>1. now \in Nat
    BY LedgerAssumption DEF TypeInv, TypeOK
  <2> QED
    BY <2>1, SecondType
<1>2. PICK S : S = Gone(Second(now), h)
  OBVIOUS
<1>3. h \in Nat /\ IsFiniteSet(S) /\ (\A s \in S : s \in Nat) /\ IsFiniteSet(Keys)
  BY <1>1, <1>2, ConstantTypes, GoneType
<1>4. PICK p : p = [s \in S |-> SumFunctionOnSet(Paids(req, s), R)]
  OBVIOUS
<1>5. PICK u : u = [k \in Keys |-> Unsettled(R, k)]
  OBVIOUS
<1>6. \A s \in S : p[s] = SumFunctionOnSet(Paids(req, s), R)
  BY <1>4
<1>7. \A k \in Keys : u[k] = Unsettled(R, k)
  BY <1>5
<1>8. /\ SumFunctionOnSet(p, S) <= SumFunctionOnSet(u, Keys)
      /\ \A s \in S : p[s] \in Int
      /\ \A k \in Keys : u[k] \in Nat
  BY <1>2, <1>6, <1>7, PayTotal
<1>9. PICK w : w = twice[d]
  OBVIOUS
<1>10. PICK w2 : w2 = twice'[d]
  OBVIOUS
<1>11. w \in [Keys -> Nat] /\ w2 \in [Keys -> Nat]
  BY <1>9, <1>10 DEF TypeInv, TypeOK
<1>12. \A k \in Keys : w[k] \in Int /\ u[k] \in Int /\ w2[k] = w[k] + u[k]
  <2>1. \A k \in Keys : w2[k] = w[k] + u[k]
    BY <1>5, <1>9, <1>10
  <2>2. \A k \in Keys : w[k] \in Nat
    BY <1>11
  <2> QED
    BY <1>8, <2>1, <2>2
<1>13. SumFunctionOnSet(w2, Keys) = SumFunctionOnSet(w, Keys) + SumFunctionOnSet(u, Keys)
  BY <1>3, <1>12, SumOfSums
<1>14. /\ SumFunction(w) = SumFunctionOnSet(w, Keys) /\ SumFunction(w2) = SumFunctionOnSet(w2, Keys)
       /\ SumFunction(w) \in Nat
  BY <1>11, SumOfKeys
<1>15. PICK z : z = [s \in S |-> 0]
  OBVIOUS
<1>16. \A s \in S : z[s] = 0
  BY <1>15
<1>17. SumFunctionOnSet(z, S) = 0
  BY <1>3, <1>16, SumOfZeros
<1>18. ASSUME NEW s \in S
       PROVE  /\ z[s] \in Int /\ p[s] \in Int
              /\ RoomIn(row'[d], req', d, s) + 2 * z[s] <= RoomIn(row[d], req, d, s) + 2 * p[s]
  <2>1. s \in Nat /\ p[s] = SumFunctionOnSet(Paids(req, s), R) /\ p[s] \in Int
    BY <1>3, <1>6, <1>8
  <2>2. RoomIn(row'[d], req', d, s) <= RoomIn(row[d], req, d, s) + 2 * p[s]
    BY <2>1
  <2>3. RoomIn(row[d], req, d, s) \in Nat /\ RoomIn(row'[d], req', d, s) \in Nat
    BY <2>1, RoomInType DEF TypeInv, TypeOK
  <2> QED
    BY <1>16, <2>1, <2>2, <2>3
<1>19. Booked(d, h)' = Booked(d, h) /\ Booked(d, h) \in Nat
  BY SumsOfDevice DEF Booked
<1>20. Booked(d, h)' + SumFunctionOnSet(p, S) + SumFunction(twice[d])
            <= Booked(d, h) + SumFunctionOnSet(z, S) + SumFunction(twice'[d])
  <2>1. SumFunctionOnSet(p, S) \in Int /\ SumFunctionOnSet(u, Keys) \in Int
    <3>1. \A k \in Keys : u[k] \in Int
      BY <1>12
    <3> QED
      BY <1>3, <1>8, <3>1, SumInt
  <2> QED
    BY <1>8, <1>9, <1>10, <1>13, <1>14, <1>17, <1>19, <2>1
<1> QED
  BY <1>2, <1>18, <1>20, RoomyMoves

LEMMA SecondNext ==
  ASSUME NEW t \in Nat
  PROVE  Second(t + 1) = Second(t) \/ Second(t + 1) = Second(t) + 1
<1>1. TicksPerSecond \in Nat \ {0}
  BY AttributionAssumption
<1>2. t + 1 \in Nat /\ t <= t + 1
  OBVIOUS
<1>3. PICK p \in Nat : p = Second(t) /\ p * TicksPerSecond <= t
                       /\ t < p * TicksPerSecond + TicksPerSecond
  BY <1>1, Quotient DEF Second
<1>4. PICK q \in Nat : q = Second(t + 1) /\ q * TicksPerSecond <= t + 1
  BY <1>1, <1>2, Quotient DEF Second
<1>5. p <= q
  BY <1>2, <1>3, <1>4, SecondType
<1>6. /\ p * TicksPerSecond \in Nat /\ q * TicksPerSecond \in Nat
      /\ (p + 1) * TicksPerSecond = p * TicksPerSecond + TicksPerSecond
      /\ p + 1 < q => (p + 1) * TicksPerSecond + TicksPerSecond <= q * TicksPerSecond
  BY <1>1, Products
<1>7. ~(p + 1 < q)
  BY <1>1, <1>3, <1>4, <1>6
<1> QED
  BY <1>3, <1>4, <1>5, <1>7

(* A second that begins has the room of Ceiling: no request credits it yet. *)
LEMMA RoomyTick ==
  ASSUME TypeInv, TypeInv', Stamped, NEW d \in Devices, NEW h \in Hours, Roomy(d), Tick
  PROVE  2 * Booked(d, h)' + Rooms(row'[d], req', d, Gone(Second(now'), h))
            <= Ceiling * Overlap(0, Second(now'), h) + 2 * SumFunction(twice'[d])
<1>0. /\ now \in Nat /\ now' = now + 1
      /\ row' = row /\ req' = req /\ bucket' = bucket /\ twice' = twice
  BY LedgerAssumption DEF Tick, TypeInv, TypeOK
<1>1. PICK n \in Nat : n = Second(now)
  BY <1>0, SecondType
<1>2. PICK S : S = Gone(n, h)
  OBVIOUS
<1>3. PICK w : w = row[d]
  OBVIOUS
<1>4. h \in Nat /\ IsFiniteSet(S) /\ \A s \in S : s \in Nat /\ s < n
  BY <1>1, <1>2, ConstantTypes, GoneType
<1>5. req \in [Requests -> Handling \cup {Idle}]
  BY DEF TypeInv, TypeOK
<1>6. PICK c, m \in Nat : /\ c = Booked(d, h) /\ m = SumFunction(twice[d])
                          /\ Booked(d, h)' = c /\ SumFunction(twice'[d]) = m
  <2>1. Booked(d, h)' = Booked(d, h)
    BY <1>0 DEF Booked
  <2> QED
    BY <1>0, <2>1, SumsOfDevice
<1>7. 2 * c + Rooms(w, req, d, S) <= Ceiling * Overlap(0, n, h) + 2 * m
  BY <1>1, <1>2, <1>3, <1>6 DEF Roomy
<1>8. CASE Second(now') = n
  BY <1>0, <1>2, <1>3, <1>6, <1>7, <1>8
<1>9. CASE Second(now') = n + 1
  <2>1. /\ Overlap(0, n, h) \in Nat /\ Overlap(n, n + 1, h) \in Nat
        /\ Overlap(0, n + 1, h) = Overlap(0, n, h) + Overlap(n, n + 1, h)
    <3>1. n + 1 \in Nat /\ n <= n + 1
      OBVIOUS
    <3> QED
      BY <1>4, <3>1, OverlapGrows, ZenonT(30)
  <2>2. Rooms(w, req, d, S) \in Nat
    BY <1>4, <1>5, RoomsType
  <2>3. PICK K \in Nat : K = Ceiling
    BY ReachIs
  <2>4. PICK v \in Nat : v = Overlap(0, n, h)
    BY <2>1
  <2>5. CASE Hour(n) # h
    <3>1. Gone(n + 1, h) = S
      <4>1. \A s : s \in 0..((n + 1) - 1) <=> s \in 0..(n - 1) \/ s = n
        OBVIOUS
      <4> QED
        BY <1>2, <2>5, <4>1 DEF Gone
    <3>2. K * Overlap(0, n + 1, h) = K * v + K * Overlap(n, n + 1, h)
      BY <2>1, <2>4
    <3>3. K * Overlap(n, n + 1, h) \in Nat /\ K * v \in Nat
      BY <2>1, <2>3, <2>4
    <3> QED
      BY <1>0, <1>3, <1>6, <1>7, <1>9, <2>2, <2>3, <2>4, <3>1, <3>2, <3>3
  <2>6. CASE Hour(n) = h
    <3>1. PICK T : T = Gone(n + 1, h)
      OBVIOUS
    <3>2. n \in T /\ T \ {n} = S
      <4>1. \A s : s \in 0..((n + 1) - 1) <=> s \in 0..(n - 1) \/ s = n
        OBVIOUS
      <4>2. n \notin S
        BY <1>4
      <4> QED
        BY <1>2, <2>6, <3>1, <4>1, <4>2 DEF Gone
    <3>3. IsFiniteSet(T) /\ \A s \in T : s \in Nat
      <4>1. n + 1 \in Nat
        OBVIOUS
      <4> QED
        BY <1>4, <3>1, <4>1, GoneType
    <3>4. PICK x : x = RoomsIn(w, req, d, T)
      OBVIOUS
    <3>5. \A s \in T : x[s] = RoomIn(w, req, d, s) /\ x[s] \in Int
      <4>1. \A s \in T : RoomIn(w, req, d, s) \in Nat
        BY <1>5, <3>3, RoomInType
      <4> QED
        BY <3>4, <4>1 DEF RoomsIn
    <3>6. SumFunctionOnSet(x, T) = x[n] + SumFunctionOnSet(x, S)
      <4>1. n \in T /\ \A s \in T : x[s] \in Int
        BY <3>2, <3>5
      <4>2. SumFunctionOnSet(x, T) = x[n] + SumFunctionOnSet(x, T \ {n})
        BY <3>3, <4>1, SumTakesOut, ZenonT(30)
      <4> QED
        BY <3>2, <4>2
    <3>7. SumFunctionOnSet(x, S) = Rooms(w, req, d, S)
      <4>1. PICK y : y = RoomsIn(w, req, d, S)
        OBVIOUS
      <4>2. \A s \in S : x[s] = y[s]
        BY <3>2, <3>4, <4>1 DEF RoomsIn
      <4> QED
        BY <1>4, <4>1, <4>2, SumSame DEF Rooms
    <3>8. x[n] \in Int /\ x[n] <= K
      <4>1. Committed(req, d, n) = 0 /\ ToAdd(req, d, n) = 0
        <5>1. ASSUME NEW r \in Own(d) PROVE Covs(req, n)[r] = 0 /\ ToAdds(req, n)[r] = 0
          <6>1. r \in Requests /\ req[r] \in Handling \cup {Idle}
            BY <1>5 DEF Own
          <6>2. ~Covers(req[r], n)
            <7>1. CASE req[r] = Idle
              BY <7>1 DEF Covers, Idle
            <7>2. CASE req[r] # Idle
              <8>1. req[r].at \in Nat /\ req[r].at <= now
                BY <6>1, <7>2, LedgerAssumption DEF Handling, Stamped
              <8>2. Second(req[r].at) \in Nat /\ Second(req[r].at) <= n
                BY <1>0, <1>1, <8>1, SecondType
              <8> QED
                BY <8>2 DEF Covers
            <7> QED
              BY <7>1, <7>2
          <6> QED
            BY <6>1, <6>2 DEF Covs, ToAdds, CovNum, AddNum
        <5> QED
          BY <5>1, OwnRequests, SumOfZeros DEF Committed, ToAdd
      <4>2. PICK o \in Nat : o = Old(req, d, n) /\ o + 0 <= InFlight
        <5>1. Old(req, d, n) \in Nat /\ Old(req, d, n) + Committed(req, d, n) <= InFlight
          BY <1>5, CountsOfDevice
        <5> QED
          BY <4>1, <5>1
      <4>3. PICK b \in 0..1 : b = Behind(w, n)
        BY BehindType
      <4>4. x[n] = Room(b, o, 0, 0)
        BY <3>2, <3>5, <4>1, <4>2, <4>3 DEF RoomIn
      <4>5. Room(b, o, 0, 0) \in Nat /\ Room(b, o, 0, 0) <= Ceiling
        <5>1. 0 \in Nat /\ 0 <= 0
          OBVIOUS
        <5> QED
          BY <4>2, <5>1, RoomBounds
      <4> QED
        BY <2>3, <4>4, <4>5
    <3>9. Overlap(n, n + 1, h) = 1
      <4>1. n + 1 \in Nat
        OBVIOUS
      <4>2. Cardinality({s \in n..((n + 1) - 1) : Hour(s) = h}) = Overlap(n, n + 1, h)
        BY <1>4, <4>1, OverlapCounts
      <4>3. \A s : s \in n..((n + 1) - 1) <=> s = n
        OBVIOUS
      <4>4. {s \in n..((n + 1) - 1) : Hour(s) = h} = {n}
        BY <2>6, <4>3
      <4>5. Cardinality({n}) = 1
        BY FS_Singleton
      <4> QED
        BY <4>2, <4>4, <4>5
    <3>10. K * Overlap(0, n + 1, h) = K * v + K
      <4>1. Overlap(0, n + 1, h) = v + 1
        BY <2>1, <2>4, <3>9
      <4> QED
        BY <2>3, <2>4, <4>1
    <3>11. K * v \in Nat
      BY <2>3, <2>4
    <3>12. Rooms(w, req, d, T) = SumFunctionOnSet(x, T)
      BY <3>4 DEF Rooms
    <3>13. 2 * c + Rooms(w, req, d, T) <= K * v + K + 2 * m
      BY <1>7, <2>2, <2>3, <2>4, <3>6, <3>7, <3>8, <3>11, <3>12
    <3> QED
      BY <1>0, <1>3, <1>6, <1>9, <2>3, <3>1, <3>10, <3>13
  <2> QED
    BY <2>5, <2>6
<1> QED
  BY <1>0, <1>1, <1>8, <1>9, SecondNext

(* The retention only takes from the books. *)
LEMMA PruneTakes ==
  ASSUME TypeInv, NEW d \in Devices, NEW h \in Hours, Prune
  PROVE  Booked(d, h)' <= Booked(d, h)
<1>1. PICK b : b = bucket'[d][h]
  OBVIOUS
<1>2. b = bucket[d][h] \/ b = Zero
  BY <1>1 DEF Prune
<1>3. Booked(d, h)' = SumFunction(b)
  BY <1>1 DEF Booked
<1>4. Booked(d, h) \in Nat
  BY SumsOfDevice
<1>5. SumFunction(Zero) = 0
  <2>1. PICK z : z = Zero
    OBVIOUS
  <2>2. z \in [Keys -> Nat] /\ \A k \in Keys : z[k] = 0
    BY <2>1 DEF Zero
  <2>3. SumFunctionOnSet(z, Keys) = 0
    BY <2>2, ConstantTypes, SumOfZeros
  <2> QED
    BY <2>1, <2>2, <2>3, SumOfKeys
<1>6. b = bucket[d][h] => SumFunction(b) = Booked(d, h)
  BY DEF Booked
<1>7. b = Zero => SumFunction(b) = 0
  BY <1>5
<1> QED
  BY <1>2, <1>3, <1>4, <1>6, <1>7

(* No step makes an hour hold more than it has room for. *)
LEMMA RoomyStep ==
  ASSUME TypeInv, TypeInv', Stamped, NEW d \in Devices, Roomy(d), [Next]_vars
  PROVE  Roomy(d)'
<1>0. now \in Nat /\ req \in [Requests -> Handling \cup {Idle}]
  BY LedgerAssumption DEF TypeInv, TypeOK
<1>1. PICK n \in Nat : n = Second(now)
  BY <1>0, SecondType
<1>2. SUFFICES ASSUME NEW h \in Hours
               PROVE  2 * Booked(d, h)' + Rooms(row'[d], req', d, Gone(Second(now'), h))
                        <= Ceiling * Overlap(0, Second(now'), h) + 2 * SumFunction(twice'[d])
  BY DEF Roomy, Rooms, RoomsIn, RoomIn, Room, Behind, Old, Committed, ToAdd, Olds, Covs, ToAdds
<1>3. h \in Nat /\ \A s \in Gone(Second(now), h) : s \in Nat /\ s < n
  BY <1>1, ConstantTypes, GoneType
<1>4. bucket'[d] = bucket[d] => Booked(d, h)' <= Booked(d, h)
  <2>1. bucket'[d] = bucket[d] => Booked(d, h)' = Booked(d, h)
    BY DEF Booked
  <2> QED
    BY <2>1, SumsOfDevice
<1>5. ASSUME now' = now, row'[d] = row[d], bucket'[d] = bucket[d], twice'[d] = twice[d],
             \A x \in Own(d) : req'[x] = req[x]
      PROVE  2 * Booked(d, h)' + Rooms(row'[d], req', d, Gone(Second(now'), h))
               <= Ceiling * Overlap(0, Second(now'), h) + 2 * SumFunction(twice'[d])
  <2>1. \A s \in Gone(Second(now), h) :
            RoomIn(row'[d], req', d, s) <= RoomIn(row[d], req, d, s)
    BY <1>3, <1>5, RoomOfOthers
  <2> QED
    BY <1>4, <1>5, <2>1, RoomyKept
<1>6. CASE UNCHANGED vars
  BY <1>5, <1>6 DEF vars
<1>7. ASSUME NEW r \in Requests, Device(r) # d,
             Handle(r) \/ \E a \in Activities : Accept(r, a)
      PROVE  2 * Booked(d, h)' + Rooms(row'[d], req', d, Gone(Second(now'), h))
               <= Ceiling * Overlap(0, Second(now'), h) + 2 * SumFunction(twice'[d])
  BY <1>5, <1>7, OthersPass
<1>8. ASSUME NEW r \in Own(d), Handle(r) \/ \E a \in Activities : Accept(r, a)
      PROVE  2 * Booked(d, h)' + Rooms(row'[d], req', d, Gone(Second(now'), h))
               <= Ceiling * Overlap(0, Second(now'), h) + 2 * SumFunction(twice'[d])
  <2>1. r \in Requests /\ Device(r) = d
    BY DEF Own
  <2>2. CASE Read(r)
    <3>1. \A s \in Gone(Second(now), h) :
            RoomIn(row'[d], req', d, s) <= RoomIn(row[d], req, d, s)
      BY <1>3, <2>2, RoomOfRead
    <3>2. now' = now /\ bucket' = bucket /\ twice' = twice
      BY <2>2 DEF Read
    <3> QED
      BY <1>4, <3>1, <3>2, RoomyKept
  <2>3. CASE ReadFails(r) \/ AddUsageFails(r)
    <3>1. \A s \in Gone(Second(now), h) :
            RoomIn(row'[d], req', d, s) <= RoomIn(row[d], req, d, s)
      BY <1>3, <2>3, RoomOfFailure
    <3>2. now' = now /\ bucket' = bucket /\ twice' = twice
      BY <2>3 DEF ReadFails, AddUsageFails
    <3> QED
      BY <1>4, <3>1, <3>2, RoomyKept
  <2>4. CASE AddUsage(r)
    BY <2>4, RoomyAdd
  <2>5. CASE Upsert(r)
    <3>1. \A s \in Gone(Second(now), h) :
            RoomIn(row'[d], req', d, s) <= RoomIn(row[d], req, d, s)
      BY <1>3, <2>5, RoomOfUpsert
    <3>2. now' = now /\ bucket' = bucket /\ twice' = twice
      BY <2>5 DEF Upsert
    <3> QED
      BY <1>4, <3>1, <3>2, RoomyKept
  <2>6. CASE UpsertFails(r)
    <3>1. {r} \in SUBSET Own(d) /\ {x \in {r} : Device(x) = d} = {r}
      BY <2>1
    <3>2. twice'[d] = [k \in Keys |-> twice[d][k] + Unsettled({r}, k)]
      BY <2>6, <3>1 DEF UpsertFails, NoteTwice
    <3>3. now' = now /\ bucket' = bucket
      BY <2>6 DEF UpsertFails
    <3>4. ASSUME NEW s \in Nat
          PROVE  RoomIn(row'[d], req', d, s)
                   <= RoomIn(row[d], req, d, s) + 2 * SumFunctionOnSet(Paids(req, s), {r})
      <4>1. RoomIn(row'[d], req', d, s) <= RoomIn(row[d], req, d, s) + 2 * PaidNum(req[r], s)
        BY <2>6, RoomOfUpsertFails
      <4>2. PICK p : p = Paids(req, s)
        OBVIOUS
      <4>3. req[r] \in Handling \cup {Idle}
        BY <1>0, <2>1
      <4>4. p[r] = PaidNum(req[r], s) /\ p[r] \in Int
        <5>1. PaidNum(req[r], s) \in 0..1
          BY <4>3, NumTypes
        <5> QED
          BY <2>1, <4>2, <5>1 DEF Paids
      <4>5. IsFiniteSet({r}) /\ \A x \in {r} \ {r} : p[x] = 0
        BY FS_Singleton
      <4>6. r \in {r}
        OBVIOUS
      <4>7. SumFunctionOnSet(p, {r}) = p[r]
        BY <4>4, <4>5, <4>6, SumOfOne
      <4> QED
        BY <4>1, <4>2, <4>4, <4>7
    <3> QED
      BY <3>1, <3>2, <3>3, <3>4, RoomyLoss
  <2>7. ASSUME NEW a \in Activities, Accept(r, a)
        PROVE  2 * Booked(d, h)' + Rooms(row'[d], req', d, Gone(Second(now'), h))
                 <= Ceiling * Overlap(0, Second(now'), h) + 2 * SumFunction(twice'[d])
    <3>1. ASSUME NEW s \in Gone(Second(now), h)
          PROVE  RoomIn(row'[d], req', d, s) <= RoomIn(row[d], req, d, s)
      <4>1. s \in Nat /\ s < Second(now)
        BY <1>1, <1>3
      <4> QED
        BY <2>7, <4>1, RoomOfAccept
    <3>2. now' = now /\ bucket' = bucket /\ twice' = twice
      BY <2>7 DEF Accept
    <3> QED
      BY <1>4, <3>1, <3>2, RoomyKept
  <2> QED
    BY <1>8, <2>2, <2>3, <2>4, <2>5, <2>6, <2>7 DEF Handle
<1>9. CASE Prune
  <2>1. now' = now /\ twice' = twice /\ row' = row /\ req' = req
    BY <1>9 DEF Prune
  <2>2. \A s \in Gone(Second(now), h) :
            RoomIn(row'[d], req', d, s) <= RoomIn(row[d], req, d, s)
    BY <1>3, <2>1, RoomOfOthers
  <2> QED
    BY <1>9, <2>1, <2>2, PruneTakes, RoomyKept
<1>10. CASE Tick
  BY <1>10, RoomyTick
<1>11. CASE Crash
  <2>1. Own(d) \in SUBSET Own(d) /\ {x \in Requests : Device(x) = d} = Own(d)
    BY DEF Own
  <2>2. twice'[d] = [k \in Keys |-> twice[d][k] + Unsettled(Own(d), k)]
    BY <1>11, <2>1 DEF Crash, NoteTwice
  <2>3. now' = now /\ bucket' = bucket
    BY <1>11 DEF Crash
  <2>4. \A s \in Nat : RoomIn(row'[d], req', d, s)
            <= RoomIn(row[d], req, d, s) + 2 * SumFunctionOnSet(Paids(req, s), Own(d))
    BY <1>11, RoomOfCrash
  <2> QED
    BY <2>1, <2>2, <2>3, <2>4, RoomyLoss
<1>12. ASSUME NEW r \in Requests PROVE Device(r) # d \/ r \in Own(d)
  BY DEF Own
<1> QED
  BY <1>6, <1>7, <1>8, <1>9, <1>10, <1>11, <1>12 DEF Next
-----------------------------------------------------------------------------
(* The invariance *)

(* While no request of a device has found another under way, its books     *)
(* balance; whatever has been under way, its hours have room.              *)
LedgerInv ==
    /\ TypeInv
    /\ Stamped
    /\ \A d \in Devices :
          /\ Roomy(d)
          /\ overlap[d] = 0 => Alone(d) /\ RowHeld(d) /\ Balanced(d) /\ Accounted(d)

LEMMA LedgerInit == Init => LedgerInv
<1> SUFFICES ASSUME Init PROVE LedgerInv
  OBVIOUS
<1>1. TypeInv
  BY InitTypes
<1>0. Stamped
  BY DEF Stamped, Init, Idle
<1>2. ASSUME NEW d \in Devices
      PROVE  Roomy(d) /\ Alone(d) /\ RowHeld(d) /\ Balanced(d) /\ Accounted(d)
  <2>0. \A r \in Own(d) : req[r] = Idle
    BY DEF Init, Own
  <2>1. row[d] = NoRow /\ Current(d) = Idle /\ Idle.pc = "idle" /\ Alone(d)
    BY <2>0 DEF Init, Idle, Current, CurrentIn, Alone, AloneIn
  <2>2. RowHeld(d)
    BY <2>1 DEF RowHeld
  <2>3. ~Pending(d)
    BY <2>1 DEF Pending
  <2>4. Balanced(d)
    <3>1. SUFFICES ASSUME NEW k \in Keys
                   PROVE  SumFunction([h \in Hours |-> bucket[d][h][k]]) = 0
      BY <2>3 DEF Balanced, Owed, Init, Zero
    <3>2. PICK f : f = [h \in Hours |-> bucket[d][h][k]]
      OBVIOUS
    <3>3. DOMAIN f = Hours /\ \A h \in Hours : f[h] = 0
      BY <3>2 DEF Init, Zero
    <3>4. SumFunction(f) = SumFunctionOnSet(f, Hours)
      BY <3>3 DEF SumFunction
    <3> QED
      BY <3>2, <3>3, <3>4, ConstantTypes, SumOfZeros
  <2>5. ASSUME NEW h \in Hours
        PROVE  Booked(d, h) = 0 /\ SumFunction(twice[d]) \in Nat /\ Overlap(0, 0, h) \in Nat
    <3>1. 0 \in Nat /\ 0 <= 0 /\ h \in Nat
      BY ConstantTypes
    <3>2. Overlap(0, 0, h) \in Nat
      BY <3>1, OverlapGrows
    <3>3. PICK b : b = bucket[d][h]
      OBVIOUS
    <3>4. Booked(d, h) = SumFunctionOnSet(b, Keys) /\ SumFunction(twice[d]) \in Nat
      BY <1>1, <3>3, SumsOfDevice
    <3>5. \A k \in Keys : b[k] = 0
      BY <3>3 DEF Init, Zero
    <3>6. SumFunctionOnSet(b, Keys) = 0
      BY <3>5, ConstantTypes, SumOfZeros
    <3> QED
      BY <3>2, <3>4, <3>6
  <2>6. Accounted(d)
    <3>1. Till(d) = 0
      BY <2>1, <2>3 DEF Till
    <3> QED
      BY <2>5, <3>1 DEF Accounted
  <2>7. Roomy(d)
    <3>1. SUFFICES ASSUME NEW h \in Hours
                   PROVE  2 * Booked(d, h) + Rooms(row[d], req, d, Gone(Second(now), h))
                            <= Ceiling * Overlap(0, Second(now), h) + 2 * SumFunction(twice[d])
      BY DEF Roomy
    <3>2. Second(now) = 0
      <4>1. TicksPerSecond \in Nat \ {0} /\ 0 \in Nat
        BY AttributionAssumption
      <4>2. 0 * TicksPerSecond <= 0 /\ 0 < 0 * TicksPerSecond + TicksPerSecond
        BY <4>1
      <4>3. 0 \div TicksPerSecond = 0
        BY <4>1, <4>2, QuotientIs
      <4> QED
        BY <4>3 DEF Init, Second
    <3>3. Gone(0, h) = {}
      <4>1. \A s : s \notin 0..(0 - 1)
        OBVIOUS
      <4> QED
        BY <4>1 DEF Gone
    <3>4. Rooms(row[d], req, d, {}) = 0
      BY FS_EmptySet, SumUnfolds DEF Rooms
    <3>5. Ceiling * Overlap(0, 0, h) \in Nat
      BY <2>5, ReachIs
    <3>6. Rooms(row[d], req, d, Gone(Second(now), h)) = 0
      BY <3>2, <3>3, <3>4
    <3>7. PICK g \in Nat : g = Ceiling * Overlap(0, Second(now), h)
      BY <3>2, <3>5
    <3>8. PICK w \in Nat : w = SumFunction(twice[d])
      BY <2>5
    <3> QED
      BY <2>5, <3>6, <3>7, <3>8
  <2> QED
    BY <2>1, <2>2, <2>4, <2>6, <2>7
<1> QED
  BY <1>0, <1>1, <1>2 DEF LedgerInv

(* What has been under way at once is not forgotten. *)
LEMMA OverlapLasts ==
  ASSUME TypeInv, NEW d \in Devices, [Next]_vars, overlap'[d] = 0
  PROVE  overlap[d] = 0
<1>1. overlap \in [Devices -> 0..MaxOverlap] /\ overlap[d] \in Nat
  BY LedgerAssumption DEF TypeInv, TypeOK
<1>2. ASSUME NEW r \in Requests, NEW a \in Activities, Accept(r, a)
      PROVE  overlap[d] = 0
  <2>1. overlap' = overlap \/ overlap' = [overlap EXCEPT ![Device(r)] = @ + 1]
    BY <1>2 DEF Accept
  <2>2. CASE overlap' = [overlap EXCEPT ![Device(r)] = @ + 1]
    <3>1. d = Device(r) => overlap'[d] = overlap[d] + 1
      BY <1>1, <2>2
    <3>2. d # Device(r) => overlap'[d] = overlap[d]
      BY <1>1, <2>2
    <3> QED
      BY <1>1, <3>1, <3>2
  <2> QED
    BY <2>1, <2>2
<1> QED
  BY <1>2 DEF Next, Handle, Read, ReadFails, AddUsage, AddUsageFails, Upsert, UpsertFails,
              Prune, Tick, Crash, vars

LEMMA LedgerStep == LedgerInv /\ [Next]_vars => LedgerInv'
<1> SUFFICES ASSUME LedgerInv, [Next]_vars PROVE LedgerInv'
  OBVIOUS
<1>1. TypeInv /\ TypeInv' /\ Stamped
  BY StepTypes DEF LedgerInv
<1>2. Stamped'
  BY <1>1, StampedStep
<1>3. ASSUME NEW d \in Devices PROVE Roomy(d)'
  <2>1. Roomy(d)
    BY DEF LedgerInv
  <2> QED
    BY <1>1, <2>1, RoomyStep
<1>4. ASSUME NEW d \in Devices, overlap'[d] = 0
      PROVE  Alone(d)' /\ RowHeld(d)' /\ Balanced(d)' /\ Accounted(d)'
  <2>1. overlap[d] = 0
    BY <1>1, <1>4, OverlapLasts
  <2>2. Alone(d) /\ RowHeld(d) /\ Balanced(d) /\ Accounted(d)
    BY <2>1 DEF LedgerInv
  <2>3. (Keeps(d) \/ Adds(d) \/ Stores(d) \/ Loses(d) \/ Prunes(d)) /\ RowHeld(d)' /\ Alone(d)'
    BY <1>1, <1>4, <2>1, <2>2, StepKinds
  <2>4. Balanced(d)'
    BY <1>1, <2>2, <2>3, BalanceStep
  <2>5. Accounted(d)'
    BY <1>1, <2>2, <2>3, AccountStep
  <2> QED
    BY <2>3, <2>4, <2>5
<1> QED
  BY <1>1, <1>2, <1>3, <1>4 DEF LedgerInv

(* Each interval between two stored reports of a device is in the books     *)
(* once (store.go: AddUsage is to be passed each interval exactly once),    *)
(* whatever fails and whenever the process ends: while no two reports of a  *)
(* device have been under way at once, the books balance with the intervals *)
(* that count, what was added for reports that were not stored and what the *)
(* retention has deleted.                                                   *)
THEOREM LedgerBalances == Spec => []BooksBalance
<1>1. LedgerInv => BooksBalance
  <2> SUFFICES ASSUME LedgerInv, NEW d \in Devices, NEW k \in Keys, overlap[d] = 0,
                      \A r \in Requests : Device(r) = d => req[r] = Idle
               PROVE  SumFunction([h \in Hours |-> bucket[d][h][k]]) + pruned[d][k]
                        = due[d][k] + twice[d][k]
    BY DEF BooksBalance
  <2>1. ~Pending(d)
    <3>1. \A r \in Own(d) : req[r] = Idle
      BY DEF Own
    <3> QED
      BY <3>1 DEF Pending, Idle, Current, CurrentIn
  <2>2. Owed(d, k) = 0
    BY <2>1 DEF Owed
  <2>3. due[d][k] \in Nat /\ twice[d][k] \in Nat
    BY DEF LedgerInv, TypeInv, TypeOK
  <2>4. SumFunction([h \in Hours |-> bucket[d][h][k]]) + pruned[d][k]
            = due[d][k] + twice[d][k] + Owed(d, k)
    BY DEF LedgerInv, Balanced
  <2> QED
    BY <2>2, <2>3, <2>4
<1>2. Init => LedgerInv
  BY LedgerInit
<1>3. LedgerInv /\ [Next]_vars => LedgerInv'
  BY LedgerStep
<1> QED
  BY <1>1, <1>2, <1>3, PTL DEF Spec

(* No hour of a device holds more seconds than have gone by in it, apart    *)
(* from those added for reports whose row was never written, as long as no  *)
(* two of its reports have been under way at once; and no more than so many *)
(* copies of each second once they have, however many and however often:    *)
(* the additive AddUsage and the row that is overwritten after it are out   *)
(* of step in no other way, and by no more.                                 *)
THEOREM LedgerOverfullExplained == Spec => []OverfullExplained
<1>1. LedgerInv => OverfullExplained
  <2> SUFFICES ASSUME LedgerInv, NEW d \in Devices, NEW h \in Hours
               PROVE  Booked(d, h) <= Copies(d) * Elapsed(h) + SumFunction(twice[d])
    BY DEF OverfullExplained
  <2>0. TypeInv
    BY DEF LedgerInv
  <2>1. now \in Nat
    BY <2>0, LedgerAssumption DEF TypeInv, TypeOK
  <2>2. PICK t \in Nat : t = Second(now)
    BY <2>1, SecondType
  <2>3. h \in Nat /\ 0 \in Nat /\ 0 <= t
    BY ConstantTypes
  <2>4. Elapsed(h) = Overlap(0, t, h)
    <3>1. /\ HourLen \in Nat \ {0} /\ h * HourLen \in Nat
          /\ (h + 1) * HourLen = h * HourLen + HourLen
      BY <2>3, AttributionAssumption, Products
    <3> QED
      BY <2>2, <3>1 DEF Elapsed, Overlap
  <2>5. PICK b, w \in Nat : b = Booked(d, h) /\ w = SumFunction(twice[d])
    BY <2>0, SumsOfDevice
  <2>6. PICK v \in Nat : v = Overlap(0, t, h)
    BY <2>3, OverlapGrows
  <2>7. CASE overlap[d] = 0
    <3>1. Alone(d) /\ RowHeld(d) /\ Accounted(d)
      BY <2>7 DEF LedgerInv
    <3>2. PICK m \in Nat : m = Till(d)
      BY <2>0, <3>1, TillType
    <3>3. m <= t
      <4>1. Pending(d) => Second(Current(d).at) <= t
        <5> SUFFICES ASSUME Pending(d) PROVE Second(Current(d).at) <= t
          OBVIOUS
        <5>1. Current(d) \in Handling /\ Current(d) # Idle
          BY <2>0, <3>1, CurrentType DEF Pending, Idle
        <5>2. Current(d).at \in Nat /\ Current(d).at <= now
          BY <3>1, <5>1, LedgerAssumption DEF RowHeld, Handling
        <5> QED
          BY <2>1, <2>2, <5>2, SecondType
      <4>2. row[d] # NoRow => row[d].seen <= t
        BY <2>2, <3>1 DEF RowHeld
      <4> QED
        BY <3>2, <4>1, <4>2 DEF Till
    <3>4. /\ Overlap(0, m, h) \in Nat /\ Overlap(m, t, h) \in Nat
          /\ v = Overlap(0, m, h) + Overlap(m, t, h)
      <4>1. 0 <= m
        OBVIOUS
      <4>2. Overlap(0, m, h) \in Nat /\ Overlap(m, t, h) \in Nat
            /\ Overlap(0, t, h) = Overlap(0, m, h) + Overlap(m, t, h)
        BY <2>3, <3>3, OverlapGrows, ZenonT(30)
      <4> QED
        BY <2>6, <4>2
    <3>5. b <= Overlap(0, m, h) + w
      BY <2>5, <3>1, <3>2 DEF Accounted
    <3>6. Copies(d) = 1
      BY <2>7 DEF Copies
    <3> QED
      BY <2>4, <2>5, <2>6, <3>4, <3>5, <3>6
  <2>8. CASE overlap[d] # 0
    <3>1. PICK K \in Nat : K = Copies(d) /\ Ceiling = 2 * K
      <4>1. PICK C \in Nat : C = Ceiling
        BY ReachIs
      <4>2. Copies(d) = C \div 2
        BY <2>8, <4>1 DEF Copies, Ceiling
      <4>3. PICK N \in Nat : N = InFlight
        BY ReachIs
      <4>4. C = N * N + N
        BY <4>1, <4>3 DEF Ceiling
      <4>5. PICK H \in Nat : N = 2 * H \/ N = 2 * H + 1
        <5>1. N \div 2 \in Nat /\ (N \div 2) * 2 <= N /\ N < (N \div 2) * 2 + 2
          BY Quotient
        <5> QED
          BY <5>1
      <4>6. H * H \in Nat
        BY SquareAbove
      <4>7. \E J \in Nat : C = 2 * J
        <5>1. CASE N = 2 * H
          <6>1. N * N + N = 2 * (2 * (H * H) + H) /\ 2 * (H * H) + H \in Nat
            BY <4>6, <5>1
          <6> QED
            BY <4>4, <6>1
        <5>2. CASE N = 2 * H + 1
          <6>1. N * N + N = 2 * (2 * (H * H) + 3 * H + 1) /\ 2 * (H * H) + 3 * H + 1 \in Nat
            BY <4>6, <5>2
          <6> QED
            BY <4>4, <6>1
        <5> QED
          BY <4>5, <5>1, <5>2
      <4>8. PICK J \in Nat : C = 2 * J
        BY <4>7
      <4>9. C \div 2 = J
        BY <4>8
      <4> QED
        BY <4>1, <4>2, <4>8, <4>9
    <3>2. PICK R \in Nat : R = Rooms(row[d], req, d, Gone(t, h))
      <4>1. IsFiniteSet(Gone(t, h)) /\ \A s \in Gone(t, h) : s \in Nat
        BY <2>3, GoneType
      <4>2. req \in [Requests -> Handling \cup {Idle}]
        BY <2>0 DEF TypeInv, TypeOK
      <4> QED
        BY <4>1, <4>2, RoomsType
    <3>3. 2 * b + R <= (2 * K) * v + 2 * w
      <4>1. Roomy(d)
        BY DEF LedgerInv
      <4> QED
        BY <2>2, <2>5, <2>6, <3>1, <3>2, <4>1 DEF Roomy
    <3>4. (2 * K) * v = 2 * (K * v) /\ K * v \in Nat
      OBVIOUS
    <3>5. b <= K * v + w
      BY <3>3, <3>4
    <3> QED
      BY <2>4, <2>5, <2>6, <3>1, <3>5
  <2> QED
    BY <2>7, <2>8
<1>2. Init => LedgerInv
  BY LedgerInit
<1>3. LedgerInv /\ [Next]_vars => LedgerInv'
  BY LedgerStep
<1> QED
  BY <1>1, <1>2, <1>3, PTL DEF Spec
=============================================================================
