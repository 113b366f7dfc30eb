-------------------------- MODULE DraftSyncProofs ---------------------------
(***************************************************************************)
(* Theorems about DraftSync, for any drafts, any number of edits, pushes,   *)
(* saves and page loads, and any number of failures.  SafeDisk carries the  *)
(* safety of the file; IInv carries the agreement of a page at rest: of the *)
(* pushes under way only the newest matters, and nothing but it leads to    *)
(* an agreement.  TypeInv adds what the types need of the requests that are *)
(* waited for, and QuietInv that a save beside which nothing happens is     *)
(* alone and takes what the page shows to the disk.                         *)
(***************************************************************************)
EXTENDS DraftSync, DataLemmas

(* What config.Save does, and fails to do, with the disk. *)
SavePart(i) ==
    Truncate(i) \/ Write(i) \/ Stat(i) \/ Replace(i) \/ WriteFails(i) \/ ReplaceFails(i)

LEMMA SavePartKeeps ==
  ASSUME NEW i \in DOMAIN saves, SavePart(i)
  PROVE  /\ UNCHANGED <<page, saving, finished, puts, late, agent, acts, slips>>
         /\ UNCHANGED faults \/ Fails
         /\ \E s \in Steps : saves' = [saves EXCEPT ![i].step = s]
BY DEF SavePart, Truncate, Write, Stat, Replace, WriteFails, ReplaceFails, Fault, Moves, history, Steps, AtDisk

(* The agent holds the draft d, as far as its durations parse and its rules *)
(* compile.                                                                 *)
Holds(d) ==
    /\ d \in Parsable => draft = Normal(d)
    /\ d \in Compiles => mapper = Normal(d)

(* The mapper lags behind the draft only while its rules do not compile. *)
Consistent == draft \in Compiles => mapper = draft

Newest == puts[Len(puts)]

(* Pushes are handled in the order they were sent in. *)
InOrder ==
    ~crossed => \A i, j \in DOMAIN puts : j < i /\ puts[i].handled => puts[j].handled

(* What is newest is on the screen: the edit that waits or else the newest  *)
(* push; where that has been handled the agent holds it; and where nothing  *)
(* is left to push, it has been answered.                                   *)
Newness ==
    /\ ~loaded => pending = None /\ puts = <<>>
    /\ loaded /\ ~crossed /\ ~overrun =>
        IF pending # None THEN pending = current
        ELSE IF puts # <<>> THEN Newest.draft = current /\ (Newest.handled => Holds(current))
        ELSE error \/ (Holds(current) /\ (valid <=> current \in Valid))

IInv == FormOK /\ AgentOK /\ Consistent /\ InOrder /\ Newness

(* What the invariant speaks of. *)
core == <<loaded, current, pending, timer, valid, error, puts, late, draft, mapper, crossed, overrun>>

LEMMA InitIInv == Init => IInv
<1> SUFFICES ASSUME Init PROVE IInv
  OBVIOUS
<1>1. FormOK
  BY DraftAssumption DEF Init, FormOK
<1>2. AgentOK /\ Consistent
  BY DraftAssumption DEF Init, AgentOK, Consistent
<1>3. InOrder /\ Newness
  BY DEF Init, InOrder, Newness
<1> QED
  BY <1>1, <1>2, <1>3 DEF IInv

LEMMA CoreIInv == IInv /\ UNCHANGED core => IInv'
BY DEF IInv, core, FormOK, AgentOK, Consistent, InOrder, Newness, Newest, Holds

(* The saves, and the end of a session, are none of its business. *)
LEMMA SavesKeepCore ==
  ASSUME NEW i \in DOMAIN saves,
         SaveAnswered(i) \/ SaveLost(i) \/ TakeDraft(i) \/ SavePart(i)
  PROVE  UNCHANGED core
BY SavePartKeeps DEF SaveAnswered, SaveLost, TakeDraft, core, page, agent, history, slips

LEMMA LoadIInv == IInv /\ (Load \/ LoadFails) => IInv'
<1> SUFFICES ASSUME IInv, Load \/ LoadFails PROVE IInv'
  OBVIOUS
<1>1. UNCHANGED <<pending, timer, puts, late, draft, mapper, crossed, overrun>>
  BY DEF Load, LoadFails, agent, history, slips
<1>2. ~loaded /\ pending = None /\ puts = <<>>
  BY DEF Load, LoadFails, IInv, Newness
<1>3. FormOK'
  BY <1>1, DraftAssumption DEF Load, LoadFails, IInv, FormOK, AgentOK
<1>4. AgentOK' /\ Consistent' /\ InOrder'
  BY <1>1 DEF IInv, AgentOK, Consistent, InOrder
<1>5. Newness'
  <2>1. CASE Load
    BY <1>1, <1>2, <2>1 DEF Load, IInv, AgentOK, Consistent, Newness, Holds
  <2>2. CASE LoadFails
    BY <1>1, <1>2, <2>2 DEF LoadFails, Newness
  <2> QED
    BY <2>1, <2>2
<1> QED
  BY <1>3, <1>4, <1>5 DEF IInv

LEMMA EditIInv ==
  ASSUME IInv, NEW d \in Drafts, Edit(d)
  PROVE  IInv'
<1>1. /\ UNCHANGED <<loaded, error, valid, puts, late, draft, mapper, crossed, overrun>>
      /\ current' = d /\ pending' = d /\ d # None /\ loaded
  BY DraftAssumption DEF Edit, Open, agent
<1>2. FormOK'
  BY <1>1 DEF IInv, FormOK
<1>3. AgentOK' /\ Consistent' /\ InOrder'
  BY <1>1 DEF IInv, AgentOK, Consistent, InOrder
<1>4. Newness'
  BY <1>1 DEF Newness
<1> QED
  BY <1>2, <1>3, <1>4 DEF IInv

LEMMA RefreshIInv == IInv /\ Refresh => IInv'
<1> SUFFICES ASSUME IInv, Refresh PROVE IInv'
  OBVIOUS
<1>1. /\ UNCHANGED <<draft, mapper, crossed, overrun>>
      /\ puts' = <<>> /\ ~loaded' /\ current' = Blank /\ pending' = None /\ ~timer'
  BY DEF Refresh, Fresh, agent
<1>2. late' \subseteq Drafts
  <2>1. ASSUME NEW j \in DOMAIN puts
        PROVE  puts[j].draft \in Drafts
    <3>1. puts[j] \in Puts
      BY DEF IInv, FormOK
    <3> QED
      BY <3>1 DEF Puts
  <2> QED
    BY <2>1 DEF Refresh, IInv, AgentOK
<1>3. FormOK'
  BY <1>1, DraftAssumption DEF FormOK
<1>4. AgentOK' /\ Consistent'
  BY <1>1, <1>2 DEF IInv, AgentOK, Consistent
<1>5. InOrder' /\ Newness'
  BY <1>1 DEF InOrder, Newness
<1> QED
  BY <1>3, <1>4, <1>5 DEF IInv

(* A push, started by the debounce or by a save, is the newest thing. *)
LEMMA PushIInv ==
  ASSUME IInv, pending # None, loaded, NEW b \in BOOLEAN, Push(b),
         UNCHANGED <<loaded, current, valid, error, late, draft, mapper, crossed, overrun>>
  PROVE  IInv'
<1> DEFINE p == [draft |-> pending, handled |-> FALSE, bySave |-> b]
<1>1. puts' = Append(puts, p) /\ pending' = None /\ timer' = FALSE
  BY DEF Push
<1>2. p \in Puts /\ p.draft = pending /\ ~p.handled
  BY DEF IInv, FormOK, Puts
<1> HIDE DEF p
<1>3. /\ puts \in Seq(Puts) /\ puts' \in Seq(Puts) /\ puts' # <<>> /\ Len(puts') = Len(puts) + 1
      /\ puts'[Len(puts')] = p /\ \A k \in 1..Len(puts) : puts'[k] = puts[k]
  BY <1>1, <1>2 DEF IInv, FormOK
<1>4. FormOK'
  BY <1>1, <1>3 DEF IInv, FormOK
<1>5. AgentOK' /\ Consistent'
  BY DEF IInv, AgentOK, Consistent
<1>6. InOrder'
  BY <1>2, <1>3 DEF IInv, InOrder
<1>7. Newness'
  BY <1>1, <1>2, <1>3 DEF IInv, Newness, Newest
<1> QED
  BY <1>4, <1>5, <1>6, <1>7 DEF IInv

(* What the agent takes over it holds, and stays consistent. *)
LEMMA AdoptHolds ==
  ASSUME IInv, NEW d \in Drafts, Adopt(d)
  PROVE  /\ draft' \in Parsable /\ Normal(draft') = draft' /\ mapper' \in Compiles
         /\ Consistent' /\ Holds(d)'
<1>1. /\ draft' = IF d \in Parsable THEN Normal(d) ELSE draft
      /\ mapper' = IF d \in Compiles THEN Normal(d) ELSE mapper
  BY DEF Adopt
<1>2. draft \in Parsable /\ Normal(draft) = draft /\ mapper \in Compiles /\ Consistent
  BY DEF IInv, AgentOK
<1> QED
  BY <1>1, <1>2, DraftAssumption DEF Consistent, Holds

LEMMA AdoptKeeps ==
  ASSUME NEW d, Adopt(d)
  PROVE  UNCHANGED <<loaded, current, pending, timer, valid, error, overrun>>
BY DEF Adopt, page

LEMMA HandlePutIInv ==
  ASSUME IInv, NEW i \in DOMAIN puts, HandlePut(i)
  PROVE  IInv'
<1>1. puts \in Seq(Puts) /\ DOMAIN puts = 1..Len(puts) /\ Len(puts) \in Nat /\ puts[i] \in Puts
  BY DEF IInv, FormOK
<1>2. PICK d \in Drafts : d = puts[i].draft
  BY <1>1 DEF Puts
<1>3. Adopt(d) /\ ~puts[i].handled /\ late' = late
  BY <1>2 DEF HandlePut
<1> DEFINE p == [puts[i] EXCEPT !.handled = TRUE]
<1>4. p \in Puts /\ p.handled /\ p.draft = d
  BY <1>1, <1>2 DEF Puts
<1>5. puts' = [puts EXCEPT ![i] = p]
  BY DEF HandlePut
<1> HIDE DEF p
<1>6. /\ puts' \in Seq(Puts) /\ Len(puts') = Len(puts) /\ DOMAIN puts' = DOMAIN puts
      /\ puts'[i] = p /\ \A k \in DOMAIN puts \ {i} : puts'[k] = puts[k]
  BY <1>1, <1>4, <1>5, ExceptSeq
<1>7. FormOK'
  BY <1>3, <1>6, AdoptKeeps DEF IInv, FormOK
<1>8. AgentOK' /\ Consistent' /\ Holds(d)'
  BY <1>3, AdoptHolds DEF IInv, AgentOK
<1>9. ~crossed' => ~crossed /\ \A j \in 1..(i - 1) : puts[j].handled
  BY DEF HandlePut
<1>10. InOrder'
  <2> SUFFICES ASSUME ~crossed', NEW x \in DOMAIN puts, NEW y \in DOMAIN puts, y < x, puts'[x].handled
               PROVE  puts'[y].handled
    BY <1>6 DEF InOrder
  <2>1. CASE x = i
    BY <1>1, <1>6, <1>9, <2>1
  <2>2. CASE x # i
    BY <1>4, <1>6, <1>9, <2>2 DEF IInv, InOrder
  <2> QED
    BY <2>1, <2>2
<1>11. Newness'
  <2>1. loaded /\ puts # <<>> /\ puts' # <<>> /\ Len(puts) \in DOMAIN puts
    BY <1>1, <1>6 DEF IInv, Newness
  <2> SUFFICES ASSUME ~crossed', ~overrun, pending = None
               PROVE  Newest'.draft = current /\ (Newest'.handled => Holds(current)')
    BY <1>3, <1>9, <2>1, AdoptKeeps DEF IInv, Newness, Holds
  <2>2. Newest.draft = current
    BY <1>9, <2>1 DEF IInv, Newness
  <2>3. CASE i = Len(puts)
    BY <1>2, <1>3, <1>4, <1>6, <1>8, <2>2, <2>3, AdoptKeeps DEF Newest, Holds
  <2>4. CASE i # Len(puts)
    <3>1. Newest' = Newest
      BY <1>6, <2>1, <2>4 DEF Newest
    <3>2. ~Newest.handled
      BY <1>1, <1>3, <1>9, <2>1, <2>4 DEF IInv, InOrder, Newest
    <3> QED
      BY <2>2, <3>1, <3>2
  <2> QED
    BY <2>3, <2>4
<1> QED
  BY <1>7, <1>8, <1>10, <1>11 DEF IInv

LEMMA HandleLateIInv ==
  ASSUME IInv, NEW d \in late, HandleLate(d)
  PROVE  IInv'
<1>1. d \in Drafts /\ Adopt(d) /\ puts' = puts /\ late' \subseteq Drafts /\ (crossed' <=> crossed \/ loaded)
  BY DEF HandleLate, IInv, AgentOK
<1>2. FormOK'
  BY <1>1, AdoptKeeps DEF IInv, FormOK
<1>3. AgentOK' /\ Consistent'
  BY <1>1, AdoptHolds DEF AgentOK
<1>4. InOrder' /\ Newness'
  BY <1>1, AdoptKeeps DEF IInv, InOrder, Newness
<1> QED
  BY <1>2, <1>3, <1>4 DEF IInv

(* A push goes, answered or failed. *)
LEMMA PutGone ==
  ASSUME IInv, NEW i \in DOMAIN puts, puts' = RemoveAt(puts, i)
  PROVE  /\ puts' \in Seq(Puts) /\ Len(puts') = Len(puts) - 1 /\ loaded
         /\ Len(puts) \in Nat /\ DOMAIN puts = 1..Len(puts) /\ DOMAIN puts' = 1..(Len(puts) - 1)
         /\ \A k \in DOMAIN puts' : puts'[k] = IF k < i THEN puts[k] ELSE puts[k + 1]
         /\ ~crossed => \A x, y \in DOMAIN puts' : y < x /\ puts'[x].handled => puts'[y].handled
<1>1. puts \in Seq(Puts) /\ DOMAIN puts = 1..Len(puts) /\ Len(puts) \in Nat /\ loaded
  BY DEF IInv, FormOK, Newness
<1>2. /\ puts' \in Seq(Puts) /\ Len(puts') = Len(puts) - 1
      /\ \A k \in 1..(Len(puts) - 1) : puts'[k] = IF k < i THEN puts[k] ELSE puts[k + 1]
  BY <1>1, RemoveOne
<1>3. DOMAIN puts' = 1..(Len(puts) - 1)
  BY <1>1, <1>2
<1>4. ASSUME ~crossed, NEW x \in DOMAIN puts', NEW y \in DOMAIN puts', y < x, puts'[x].handled
      PROVE  puts'[y].handled
  <2>1. PICK u, v \in DOMAIN puts : v < u /\ puts'[x] = puts[u] /\ puts'[y] = puts[v]
    <3>1. CASE y < i /\ ~(x < i)
      BY <1>1, <1>2, <1>3, <1>4, <3>1
    <3>2. CASE x < i
      BY <1>1, <1>2, <1>3, <1>4, <3>2
    <3>3. CASE ~(y < i)
      BY <1>1, <1>2, <1>3, <1>4, <3>3, SMTT(30)
    <3> QED
      BY <3>1, <3>2, <3>3
  <2> QED
    BY <1>4, <2>1 DEF IInv, InOrder
<1> QED
  BY <1>1, <1>2, <1>3, <1>4

LEMMA PutAnsweredIInv ==
  ASSUME IInv, NEW i \in DOMAIN puts, PutAnswered(i)
  PROVE  IInv'
<1>1. /\ UNCHANGED <<loaded, current, pending, timer, late, draft, mapper, overrun>>
      /\ puts' = RemoveAt(puts, i) /\ puts[i].handled
      /\ valid' = (puts[i].draft \in Valid) /\ error' = FALSE
      /\ ~crossed' => ~crossed /\ i = 1
  BY DEF PutAnswered, agent
<1>2. FormOK'
  BY <1>1, PutGone DEF IInv, FormOK
<1>3. AgentOK' /\ Consistent'
  BY <1>1 DEF IInv, AgentOK, Consistent
<1>4. InOrder'
  BY <1>1, PutGone DEF InOrder
<1>5. Newness'
  <2> SUFFICES ASSUME ~crossed', ~overrun, pending = None
               PROVE  IF puts' # <<>> THEN Newest'.draft = current /\ (Newest'.handled => Holds(current)')
                      ELSE Holds(current)' /\ (valid' <=> current \in Valid)
    BY <1>1, PutGone DEF IInv, Newness, Holds
  <2>1. i = 1 /\ puts # <<>> /\ Newest.draft = current /\ (Newest.handled => Holds(current))
    BY <1>1, PutGone DEF IInv, Newness
  <2>2. Holds(current)' <=> Holds(current)
    BY <1>1 DEF Holds
  <2>3. CASE Len(puts) = 1
    <3>1. puts' = <<>> /\ Newest = puts[i]
      BY <1>1, <2>1, <2>3, PutGone DEF Newest
    <3> QED
      BY <1>1, <2>1, <2>2, <3>1
  <2>4. CASE Len(puts) # 1
    <3>1. Len(puts) - 1 \in DOMAIN puts' /\ Len(puts') = Len(puts) - 1
      <4>1. /\ Len(puts) \in Nat /\ DOMAIN puts = 1..Len(puts) /\ Len(puts') = Len(puts) - 1
            /\ DOMAIN puts' = 1..(Len(puts) - 1)
        BY <1>1, PutGone
      <4>2. Len(puts) >= 1
        BY <4>1
      <4> QED
        BY <2>4, <4>1, <4>2
    <3>2. puts'[Len(puts) - 1] = puts[Len(puts)]
      BY <1>1, <2>1, <3>1, PutGone
    <3>3. puts' # <<>> /\ Newest' = Newest
      BY <3>1, <3>2 DEF Newest
    <3> QED
      BY <2>1, <2>2, <3>3
  <2> QED
    BY <2>3, <2>4
<1> QED
  BY <1>2, <1>3, <1>4, <1>5 DEF IInv

(* A push that fails waits again; if it is not the newest, it overruns it. *)
LEMMA PutFailsIInv ==
  ASSUME IInv, NEW i \in DOMAIN puts, PutFails(i)
  PROVE  IInv'
<1>1. /\ UNCHANGED <<loaded, current, timer, late, draft, mapper, crossed>>
      /\ puts' = RemoveAt(puts, i) /\ pending' = puts[i].draft
      /\ ~overrun' => puts[i].draft = current
  BY DEF PutFails, agent
<1>2. pending' \in Drafts /\ pending' # None
  <2>1. puts[i] \in Puts
    BY DEF IInv, FormOK
  <2> QED
    BY <1>1, <2>1, DraftAssumption DEF Puts
<1>3. FormOK'
  BY <1>1, <1>2, PutGone DEF IInv, FormOK
<1>4. AgentOK' /\ Consistent'
  BY <1>1 DEF IInv, AgentOK, Consistent
<1>5. InOrder'
  BY <1>1, PutGone DEF InOrder
<1>6. Newness'
  BY <1>1, <1>2, PutGone DEF Newness
<1> QED
  BY <1>3, <1>4, <1>5, <1>6 DEF IInv

LEMMA DieIInv == IInv /\ Die => IInv'
<1> SUFFICES ASSUME IInv, Die PROVE IInv'
  OBVIOUS
<1>1. /\ UNCHANGED <<loaded, current, pending, timer, valid, error, draft, mapper, crossed, overrun>>
      /\ puts' = [i \in DOMAIN puts |-> [puts[i] EXCEPT !.handled = FALSE]] /\ late' = {}
  BY DEF Die, page
<1>2. puts \in Seq(Puts) /\ Len(puts) \in Nat /\ DOMAIN puts = 1..Len(puts)
  BY DEF IInv, FormOK
<1>3. ASSUME NEW i \in DOMAIN puts
      PROVE  puts'[i] \in Puts /\ ~puts'[i].handled /\ puts'[i].draft = puts[i].draft
  <2>1. puts[i] \in Puts /\ puts'[i] = [puts[i] EXCEPT !.handled = FALSE]
    BY <1>1, <1>2
  <2> QED
    BY <2>1 DEF Puts
<1>4. puts' \in Seq(Puts) /\ Len(puts') = Len(puts) /\ DOMAIN puts' = DOMAIN puts
  BY <1>1, <1>2, <1>3
<1>5. FormOK'
  BY <1>1, <1>4 DEF IInv, FormOK
<1>6. AgentOK' /\ Consistent'
  BY <1>1 DEF IInv, AgentOK, Consistent
<1>7. InOrder'
  BY <1>3, <1>4 DEF InOrder
<1>8. Newness'
  <2>1. puts' = <<>> <=> puts = <<>>
    BY <1>2, <1>4
  <2>2. puts # <<>> => Newest'.draft = Newest.draft /\ ~Newest'.handled
    BY <1>2, <1>3, <1>4 DEF Newest
  <2> QED
    BY <1>1, <2>1, <2>2 DEF IInv, Newness, Holds
<1> QED
  BY <1>5, <1>6, <1>7, <1>8 DEF IInv

LEMMA StepIInv == IInv /\ [Next]_vars => IInv'
<1> SUFFICES ASSUME IInv, [Next]_vars PROVE IInv'
  OBVIOUS
<1>1. CASE TimerFires
  <2>1. /\ pending # None /\ loaded /\ Push(FALSE)
        /\ UNCHANGED <<loaded, current, valid, error, late, draft, mapper, crossed, overrun>>
    BY <1>1 DEF TimerFires, Open, IInv, FormOK, agent, history, slips
  <2> QED
    BY <2>1, PushIInv
<1>2. CASE PressSave
  <2>1. loaded /\ UNCHANGED <<loaded, current, valid, error, late, draft, mapper, crossed, overrun>>
    BY <1>2 DEF PressSave, Enabled, Open, agent
  <2>2. CASE pending = None
    BY <1>2, <2>1, <2>2, CoreIInv DEF PressSave, core
  <2>3. CASE pending # None
    BY <1>2, <2>1, <2>3, PushIInv DEF PressSave
  <2> QED
    BY <2>2, <2>3
<1>3. CASE Finish
  BY <1>3, CoreIInv DEF Finish, core, agent, history, slips
<1>4. ASSUME NEW i \in DOMAIN saves,
             SaveAnswered(i) \/ SaveLost(i) \/ TakeDraft(i) \/ SavePart(i)
      PROVE  IInv'
  BY <1>4, SavesKeepCore, CoreIInv
<1>5. CASE UNCHANGED vars
  BY <1>5, CoreIInv DEF vars, core, page, agent, history, slips
<1> QED
  BY <1>1, <1>2, <1>3, <1>4, <1>5, LoadIInv, EditIInv, RefreshIInv, HandlePutIInv, HandleLateIInv,
     PutAnsweredIInv, PutFailsIInv, DieIInv DEF Next, SyncStep, SaveStep, Save, SavePart

(* However its pushes interleave, a page that has nothing left to push and   *)
(* shows no error agrees with the agent on the draft, the preview and what   *)
(* can be saved, unless a push overtook another or a stale one failed        *)
(* (useDraft's flush against handlePutConfig).                               *)
THEOREM PageRestsInSync == Spec => []AtRestInSync
<1>1. IInv => AtRestInSync
  <2> SUFFICES ASSUME IInv, Open, pending = None, puts = <<>>, ~error, ~crossed, ~overrun
               PROVE  /\ Badge = "cannot be saved" <=> current \notin Valid
                      /\ current \in Parsable => draft = Normal(current)
                      /\ current \in Compiles => mapper = Normal(current)
    BY DEF AtRestInSync
  <2>1. Holds(current) /\ (valid <=> current \in Valid)
    BY DEF Open, IInv, Newness
  <2>2. Badge = "cannot be saved" <=> ~valid
    BY DEF Badge
  <2> QED
    BY <2>1, <2>2 DEF Holds
<1> QED
  BY <1>1, InitIInv, StepIInv, PTL DEF Spec

----------------------------------------------------------------------------
(* Types.  A save waits for exactly one thing: its flush, or its request.   *)

Flushes == {p \in Puts : p.bySave}
Live == {v \in Saves : v.live}

Waits ==
    /\ saves \in Seq(Saves) /\ saving \in {"no", "flush", "post"}
    /\ One(puts, Flushes) /\ (saving = "flush" <=> Some(puts, Flushes))
    /\ One(saves, Live) /\ (saving = "post" <=> Some(saves, Live))

Flags == {loaded, timer, valid, dirty, error, finished, up, reopened, crossed, overrun, hurried}
             \subseteq BOOLEAN

Values ==
    /\ persisted \in Drafts \cup {None}
    /\ {file, temp, backup} \subseteq Parsable \cup {None, Empty, Torn}
    /\ acts \in 0..MaxActs /\ faults \in 0..MaxFaults

TypeInv == IInv /\ Flags /\ Values /\ Waits /\ shared \in BOOLEAN

LEMMA TypeInvIsTyped == TypeInv => TypeOK
<1> SUFFICES ASSUME TypeInv PROVE TypeOK
  OBVIOUS
<1>1. /\ puts \in Seq(Puts) /\ saves \in Seq(Saves)
      /\ (saving = "flush" <=> Some(puts, Flushes)) /\ (saving = "post" <=> Some(saves, Live))
  BY DEF TypeInv, IInv, FormOK, Waits
<1>2. \A i \in DOMAIN puts : puts[i] \in Flushes <=> puts[i].bySave
  BY <1>1 DEF Flushes
<1>3. \A i \in DOMAIN saves : saves[i] \in Live <=> saves[i].live
  BY <1>1 DEF Live
<1>4. saving = "flush" <=> \E i \in DOMAIN puts : puts[i].bySave
  BY <1>1, <1>2, Zenon DEF Some
<1>5. saving = "post" <=> \E i \in DOMAIN saves : saves[i].live
  BY <1>1, <1>3, Zenon DEF Some
<1> QED
  BY <1>1, <1>4, <1>5, Zenon DEF TypeOK, TypeInv, IInv, Flags, Values, Waits

LEMMA InitTypeInv == Init => TypeInv
<1> SUFFICES ASSUME Init PROVE TypeInv
  OBVIOUS
<1>1. Flags
  BY DEF Init, Flags
<1>2. Values
  BY DraftAssumption DEF Init, Values
<1>3. Waits
  BY DEF Init, Waits, One, Some
<1>4. shared \in BOOLEAN
  BY Zenon DEF Init
<1> QED
  BY <1>1, <1>2, <1>3, <1>4, InitIInv DEF TypeInv

LEMMA StepFlags == Flags /\ [Next]_vars => Flags'
<1> SUFFICES ASSUME Flags, [Next]_vars PROVE Flags'
  OBVIOUS
<1>1. CASE Load
  <2>1. UNCHANGED <<timer, finished, up, reopened, crossed, overrun, hurried>>
    BY <1>1 DEF Load, agent, history, slips
  <2>2. {loaded', valid', dirty', error'} \subseteq BOOLEAN
    <3>1. (draft \in Valid) \in BOOLEAN
      OBVIOUS
    <3> QED
      BY <1>1, <3>1, Zenon DEF Load
  <2> QED
    BY <2>1, <2>2, Zenon DEF Flags
<1>2. CASE LoadFails
  BY <1>2, Zenon DEF Flags, LoadFails, agent, slips
<1>3. CASE Refresh
  BY <1>3, Zenon DEF Flags, Refresh, Fresh, agent
<1>4. ASSUME NEW d \in Drafts, Edit(d) PROVE Flags'
  BY <1>4, Zenon DEF Flags, Edit, agent
<1>5. CASE PressSave
  <2>1. UNCHANGED <<loaded, valid, dirty, error, finished, up, reopened, crossed, overrun>>
    BY <1>5 DEF PressSave, Push, agent
  <2>2. hurried' \in BOOLEAN /\ (timer' = timer \/ timer' = FALSE)
    BY <1>5, Zenon DEF PressSave, Push, agent
  <2> QED
    BY <2>1, <2>2, Zenon DEF Flags
<1>6. CASE Finish
  BY <1>6, Zenon DEF Flags, Finish, agent, history, slips
<1>7. CASE Die
  BY <1>7, ZenonT(30) DEF Flags, Die, page
<1>8. CASE TimerFires
  BY <1>8, Zenon DEF Flags, TimerFires, Push, agent, history, slips
<1>9. ASSUME NEW i \in DOMAIN puts, HandlePut(i) PROVE Flags'
  BY <1>9, ZenonT(30) DEF Flags, HandlePut, Adopt, page
<1>10. ASSUME NEW d \in late, HandleLate(d) PROVE Flags'
  BY <1>10, Zenon DEF Flags, HandleLate, Adopt, page
<1>11. ASSUME NEW i \in DOMAIN puts, PutAnswered(i) PROVE Flags'
  <2>1. UNCHANGED <<loaded, timer, dirty, finished, up, reopened, overrun, hurried>>
    BY <1>11 DEF PutAnswered, agent
  <2>2. {valid', error', crossed'} \subseteq BOOLEAN
    <3>1. (puts[i].draft \in Valid) \in BOOLEAN
      OBVIOUS
    <3> QED
      BY <1>11, <3>1, Zenon DEF PutAnswered
  <2> QED
    BY <2>1, <2>2, Zenon DEF Flags
<1>12. ASSUME NEW i \in DOMAIN puts, PutFails(i) PROVE Flags'
  BY <1>12, ZenonT(30) DEF Flags, PutFails, agent
<1>13. ASSUME NEW i \in DOMAIN saves, TakeDraft(i) \/ SavePart(i) PROVE Flags'
  BY <1>13, SavePartKeeps, Zenon DEF Flags, TakeDraft, page, agent, history, slips
<1>14. ASSUME NEW i \in DOMAIN saves, SaveAnswered(i) PROVE Flags'
  BY <1>14, Zenon DEF Flags, SaveAnswered, agent, history, slips
<1>15. ASSUME NEW i \in DOMAIN saves, SaveLost(i) PROVE Flags'
  <2>1. UNCHANGED <<loaded, timer, valid, dirty, error, finished, up, reopened, crossed, overrun>>
    BY <1>15 DEF SaveLost, page, agent
  <2>2. hurried' \in BOOLEAN
    BY <1>15, Zenon DEF SaveLost, page, agent
  <2> QED
    BY <2>1, <2>2, Zenon DEF Flags
<1>16. CASE UNCHANGED vars
  BY <1>16, Zenon DEF Flags, vars, page, agent, history, slips
<1> QED
  BY <1>1, <1>2, <1>3, <1>4, <1>5, <1>6, <1>7, <1>8, <1>9, <1>10, <1>11, <1>12, <1>13, <1>14,
     <1>15, <1>16 DEF Next, SyncStep, SaveStep, Save, SavePart

(* Only the opening of the temporary file tells of two saves at once. *)
LEMMA StepShared == shared \in BOOLEAN /\ [Next]_vars => shared' \in BOOLEAN
<1> SUFFICES ASSUME shared \in BOOLEAN, [Next]_vars PROVE shared' \in BOOLEAN
  OBVIOUS
<1>1. CASE Load \/ LoadFails \/ Refresh \/ PressSave \/ Finish \/ Die \/ TimerFires \/ UNCHANGED vars
  BY <1>1 DEF Load, LoadFails, Refresh, PressSave, Finish, Die, TimerFires, vars, disk
<1>2. ASSUME NEW d \in Drafts, Edit(d) PROVE shared' = shared
  BY <1>2 DEF Edit, disk
<1>3. ASSUME NEW i \in DOMAIN puts, HandlePut(i) \/ PutAnswered(i) \/ PutFails(i) PROVE shared' = shared
  BY <1>3 DEF HandlePut, Adopt, PutAnswered, PutFails, disk
<1>4. ASSUME NEW d \in late, HandleLate(d) PROVE shared' = shared
  BY <1>4 DEF HandleLate, Adopt, disk
<1>5. ASSUME NEW i \in DOMAIN saves,
             SaveAnswered(i) \/ SaveLost(i) \/ TakeDraft(i) \/ Write(i) \/ Stat(i) \/ Replace(i)
                 \/ WriteFails(i) \/ ReplaceFails(i)
      PROVE  shared' = shared
  BY <1>5 DEF SaveAnswered, SaveLost, TakeDraft, Write, Stat, Replace, WriteFails, ReplaceFails, Fault, disk
<1>6. ASSUME NEW i \in DOMAIN saves, Truncate(i) PROVE shared' \in BOOLEAN
  BY <1>6, Zenon DEF Truncate
<1> QED
  BY <1>1, <1>2, <1>3, <1>4, <1>5, <1>6 DEF Next, SyncStep, SaveStep, Save, SavePart

LEMMA StepValues == TypeInv /\ [Next]_vars => Values'
<1> SUFFICES ASSUME TypeInv, [Next]_vars PROVE Values'
  OBVIOUS
<1>1. Values /\ current \in Drafts /\ draft \in Parsable /\ Parsable \subseteq Drafts
  BY DraftAssumption DEF TypeInv, IInv, FormOK, AgentOK
<1>2. Fails => faults' \in 0..MaxFaults
  BY <1>1, DraftAssumption DEF Fails, Values
<1>3. CASE Load
  BY <1>1, <1>3 DEF Values, Load, disk, history
<1>4. CASE LoadFails
  BY <1>1, <1>2, <1>4 DEF Values, LoadFails, disk
<1>5. CASE Refresh
  BY <1>1, <1>5, DraftAssumption DEF Values, Refresh, Fresh, disk
<1>6. ASSUME NEW d \in Drafts, Edit(d) PROVE Values'
  BY <1>1, <1>6, DraftAssumption DEF Values, Edit, disk
<1>7. CASE PressSave
  BY <1>1, <1>7 DEF Values, PressSave, disk
<1>8. CASE Finish
  BY <1>1, <1>8 DEF Values, Finish, disk, history
<1>9. CASE Die
  BY <1>1, <1>9, DraftAssumption DEF Values, Die, page, disk
<1>10. CASE TimerFires
  BY <1>1, <1>10 DEF Values, TimerFires, disk, history
<1>11. ASSUME NEW i \in DOMAIN puts, HandlePut(i) PROVE Values'
  BY <1>1, <1>11 DEF Values, HandlePut, Adopt, page, disk
<1>12. ASSUME NEW d \in late, HandleLate(d) PROVE Values'
  BY <1>1, <1>12 DEF Values, HandleLate, Adopt, page, disk
<1>13. ASSUME NEW i \in DOMAIN puts, PutAnswered(i) PROVE Values'
  BY <1>1, <1>13 DEF Values, PutAnswered, disk
<1>14. ASSUME NEW i \in DOMAIN puts, PutFails(i) PROVE Values'
  BY <1>1, <1>2, <1>14 DEF Values, PutFails, disk
<1>15. ASSUME NEW i \in DOMAIN saves, TakeDraft(i) PROVE Values'
  BY <1>1, <1>15 DEF Values, TakeDraft, page, disk, history
<1>16. ASSUME NEW i \in DOMAIN saves, SavePart(i) PROVE Values'
  <2>1. saves[i].cfg \in Parsable \cup {None}
    <3>1. saves[i] \in Saves
      BY <1>16 DEF TypeInv, Waits
    <3> QED
      BY <3>1 DEF Saves
  <2>2. {file', temp', backup'} \subseteq {file, temp, backup, saves[i].cfg, None, Empty, Torn}
    BY <1>16 DEF SavePart, Truncate, Write, Stat, Replace, WriteFails, ReplaceFails, Fault, Moves, disk
  <2>3. persisted' = persisted /\ acts' = acts /\ (faults' = faults \/ Fails)
    BY <1>16, SavePartKeeps DEF page
  <2> QED
    BY <1>1, <1>2, <2>1, <2>2, <2>3 DEF Values
<1>18. ASSUME NEW i \in DOMAIN saves, SaveAnswered(i) PROVE Values'
  BY <1>1, <1>18 DEF Values, SaveAnswered, disk, history
<1>19. ASSUME NEW i \in DOMAIN saves, SaveLost(i) PROVE Values'
  BY <1>1, <1>2, <1>19 DEF Values, SaveLost, page, disk
<1>20. CASE UNCHANGED vars
  BY <1>1, <1>20 DEF Values, vars, page, disk, history
<1> QED
  BY <1>3, <1>4, <1>5, <1>6, <1>7, <1>8, <1>9, <1>10, <1>11, <1>12, <1>13, <1>14, <1>15, <1>16,
     <1>18, <1>19, <1>20 DEF Next, SyncStep, SaveStep, Save, SavePart

(* The request of a save is sent when there is none. *)
LEMMA PostIsLive ==
  ASSUME saves \in Seq(Saves), One(saves, Live), ~Some(saves, Live)
  PROVE  Post \in Seq(Saves) /\ One(Post, Live) /\ Some(Post, Live)
<1> DEFINE v == [cfg |-> None, step |-> "sent", live |-> TRUE]
<1>1. v \in Saves /\ v \in Live
  BY DEF Saves, Steps, Live
<1>2. Post = Append(saves, v)
  BY DEF Post
<1> HIDE DEF v
<1> QED
  BY <1>1, <1>2, OneAdded

LEMMA PushWaits ==
  ASSUME TypeInv, pending # None, NEW b \in BOOLEAN, Push(b), UNCHANGED saves,
         IF b THEN saving = "no" /\ saving' = "flush" ELSE saving' = saving
  PROVE  Waits'
<1> DEFINE p == [draft |-> pending, handled |-> FALSE, bySave |-> b]
<1>1. p \in Puts /\ (p \in Flushes <=> b)
  BY DEF TypeInv, IInv, FormOK, Puts, Flushes
<1>2. puts \in Seq(Puts) /\ Waits /\ puts' = Append(puts, p)
  BY DEF TypeInv, IInv, FormOK, Push
<1> HIDE DEF p
<1>3. /\ ~b => One(puts', Flushes) /\ (Some(puts', Flushes) <=> Some(puts, Flushes))
      /\ b /\ ~Some(puts, Flushes) => One(puts', Flushes) /\ Some(puts', Flushes)
  BY <1>1, <1>2, OneAdded DEF Waits
<1> QED
  BY <1>2, <1>3 DEF Waits

LEMMA PressSaveWaits == TypeInv /\ PressSave => Waits'
<1> SUFFICES ASSUME TypeInv, PressSave PROVE Waits'
  OBVIOUS
<1>1. saving = "no" /\ Waits
  BY DEF PressSave, Enabled, TypeInv
<1>2. CASE pending = None
  <2>1. saving' = "post" /\ saves' = Post /\ UNCHANGED puts
    BY <1>2 DEF PressSave
  <2> QED
    BY <1>1, <2>1, PostIsLive DEF Waits
<1>3. CASE pending # None
  <2>1. saving' = "flush" /\ Push(TRUE) /\ UNCHANGED saves
    BY <1>3 DEF PressSave
  <2> QED
    BY <1>1, <1>3, <2>1, PushWaits
<1> QED
  BY <1>2, <1>3

LEMMA HandlePutWaits ==
  ASSUME TypeInv, NEW i \in DOMAIN puts, HandlePut(i)
  PROVE  Waits'
<1> DEFINE p == [puts[i] EXCEPT !.handled = TRUE]
<1>1. puts \in Seq(Puts) /\ puts[i] \in Puts /\ Waits
  BY DEF TypeInv, IInv, FormOK
<1>2. p \in Puts /\ (p \in Flushes <=> puts[i] \in Flushes)
  BY <1>1 DEF Puts, Flushes
<1>3. puts' = [puts EXCEPT ![i] = p] /\ UNCHANGED <<saving, saves>>
  BY DEF HandlePut, Adopt
<1> HIDE DEF p
<1>4. DOMAIN puts' = DOMAIN puts /\ puts'[i] = p /\ \A k \in DOMAIN puts \ {i} : puts'[k] = puts[k]
  BY <1>1, <1>2, <1>3, ExceptSeq
<1>5. (One(puts', Flushes) <=> One(puts, Flushes)) /\ (Some(puts', Flushes) <=> Some(puts, Flushes))
  BY <1>2, <1>4, OneSame
<1> QED
  BY <1>1, <1>3, <1>5 DEF Waits

(* A push goes, and the save that waited for it goes on or comes to an end. *)
LEMMA PutGoneWaits ==
  ASSUME TypeInv, NEW i \in DOMAIN puts, puts' = RemoveAt(puts, i),
         puts[i].bySave => (saving' = "post" /\ saves' = Post) \/ (saving' = "no" /\ saves' = saves),
         ~puts[i].bySave => saving' = saving /\ saves' = saves
  PROVE  Waits'
<1>1. puts \in Seq(Puts) /\ Waits /\ puts[i] \in Puts
  BY DEF TypeInv, IInv, FormOK
<1>2. puts[i] \in Flushes <=> puts[i].bySave
  BY <1>1 DEF Flushes
<1>3. /\ One(puts', Flushes)
      /\ puts[i] \in Flushes => ~Some(puts', Flushes)
      /\ puts[i] \notin Flushes => (Some(puts', Flushes) <=> Some(puts, Flushes))
  BY <1>1, OneRemoved DEF Waits
<1>4. CASE puts[i].bySave
  <2>1. saving = "flush" /\ ~Some(saves, Live)
    BY <1>1, <1>2, <1>4 DEF Waits, Some
  <2> QED
    BY <1>1, <1>2, <1>3, <1>4, <2>1, PostIsLive DEF Waits
<1>5. CASE ~puts[i].bySave
  BY <1>1, <1>2, <1>3, <1>5 DEF Waits
<1> QED
  BY <1>4, <1>5

(* The agent moves a save on. *)
LEMMA MovedWaits ==
  ASSUME TypeInv, NEW i \in DOMAIN saves, UNCHANGED <<puts, saving>>,
         NEW v \in Saves, v.live = saves[i].live, saves' = [saves EXCEPT ![i] = v]
  PROVE  Waits'
<1>1. saves \in Seq(Saves) /\ saves[i] \in Saves /\ Waits
  BY DEF TypeInv, Waits
<1>2. v \in Live <=> saves[i] \in Live
  BY <1>1 DEF Live
<1>3. /\ saves' \in Seq(Saves) /\ DOMAIN saves' = DOMAIN saves
      /\ saves'[i] = v /\ \A k \in DOMAIN saves \ {i} : saves'[k] = saves[k]
  BY <1>1, ExceptSeq
<1>4. (One(saves', Live) <=> One(saves, Live)) /\ (Some(saves', Live) <=> Some(saves, Live))
  BY <1>2, <1>3, OneSame
<1> QED
  BY <1>1, <1>3, <1>4 DEF Waits

LEMMA SaveWaits ==
  ASSUME TypeInv, NEW i \in DOMAIN saves, TakeDraft(i) \/ SavePart(i)
  PROVE  Waits'
<1>1. saves[i] \in Saves /\ draft \in Parsable
  BY DEF TypeInv, Waits, IInv, AgentOK
<1>2. PICK v \in Saves : v.live = saves[i].live /\ saves' = [saves EXCEPT ![i] = v]
  <2>1. CASE TakeDraft(i)
    <3>1. [saves[i] EXCEPT !.step = "taken", !.cfg = draft] \in Saves
      BY <1>1 DEF Saves, Steps
    <3> QED
      BY <1>1, <2>1, <3>1 DEF TakeDraft, Saves
  <2>2. CASE SavePart(i)
    <3>1. \A s \in Steps : [saves[i] EXCEPT !.step = s] \in Saves
      BY <1>1 DEF Saves
    <3>2. PICK s \in Steps : saves' = [saves EXCEPT ![i].step = s]
      BY <2>2, SavePartKeeps
    <3> QED
      BY <1>1, <3>1, <3>2 DEF Saves
  <2> QED
    BY <2>1, <2>2
<1>3. UNCHANGED <<puts, saving>>
  BY SavePartKeeps DEF TakeDraft
<1> QED
  BY <1>2, <1>3, MovedWaits

(* A save ends. *)
LEMMA SaveGoneWaits ==
  ASSUME TypeInv, NEW i \in DOMAIN saves, saves' = RemoveAt(saves, i), UNCHANGED puts,
         IF saves[i].live THEN saving' = "no" ELSE saving' = saving
  PROVE  Waits'
<1>1. saves \in Seq(Saves) /\ Waits /\ saves[i] \in Saves
  BY DEF TypeInv, Waits
<1>2. saves[i] \in Live <=> saves[i].live
  BY <1>1 DEF Live
<1>3. /\ One(saves', Live)
      /\ saves[i] \in Live => ~Some(saves', Live)
      /\ saves[i] \notin Live => (Some(saves', Live) <=> Some(saves, Live))
  BY <1>1, OneRemoved DEF Waits
<1>4. saves' \in Seq(Saves)
  BY <1>1, RemoveOne
<1>5. CASE saves[i].live
  <2>1. saving = "post"
    BY <1>1, <1>2, <1>5 DEF Waits, Some
  <2> QED
    BY <1>1, <1>2, <1>3, <1>4, <1>5, <2>1 DEF Waits
<1>6. CASE ~saves[i].live
  BY <1>1, <1>2, <1>3, <1>4, <1>6 DEF Waits
<1> QED
  BY <1>5, <1>6

(* What a page that has gone has under way, nobody waits for. *)
LEMMA RefreshWaits == TypeInv /\ Refresh => Waits'
<1> SUFFICES ASSUME TypeInv, Refresh PROVE Waits'
  OBVIOUS
<1>1. puts' = <<>> /\ saving' = "no"
  BY DEF Refresh, Fresh
<1>2. PICK P : saves' = [i \in DOMAIN Kept(saves, P) |-> [Kept(saves, P)[i] EXCEPT !.live = FALSE]]
  BY DEF Refresh
<1>3. PICK left : left = Kept(saves, P)
  OBVIOUS
<1>4. left \in Seq(Saves)
  <2>1. saves \in Seq(Saves)
    BY DEF TypeInv, Waits
  <2> QED
    BY <1>3, <2>1, KeptIs
<1>5. saves' = [i \in DOMAIN left |-> [left[i] EXCEPT !.live = FALSE]]
  BY <1>2, <1>3
<1>6. ASSUME NEW i \in DOMAIN left
      PROVE  saves'[i] \in Saves /\ saves'[i] \notin Live
  <2>1. left[i] \in Saves /\ saves'[i] = [left[i] EXCEPT !.live = FALSE]
    BY <1>4, <1>5
  <2> QED
    BY <2>1 DEF Saves, Live
<1>7. DOMAIN saves' = DOMAIN left /\ DOMAIN left = 1..Len(left) /\ Len(left) \in Nat
  BY <1>4, <1>5
<1>8. saves' \in Seq(Saves)
  BY <1>5, <1>6, <1>7, FunctionIsSeq
<1>9. One(puts', Flushes) /\ ~Some(puts', Flushes)
  BY <1>1 DEF One, Some
<1>10. One(saves', Live) /\ ~Some(saves', Live)
  BY <1>6, <1>7, Zenon DEF One, Some
<1> QED
  BY <1>1, <1>8, <1>9, <1>10 DEF Waits

(* When the agent ends, what the page waits for goes on being waited for. *)
LEMMA DieWaits == TypeInv /\ Die => Waits'
<1> SUFFICES ASSUME TypeInv, Die PROVE Waits'
  OBVIOUS
<1>1. /\ puts \in Seq(Puts) /\ DOMAIN puts = 1..Len(puts) /\ saves \in Seq(Saves) /\ Waits
      /\ saving' = saving /\ puts' = [i \in DOMAIN puts |-> [puts[i] EXCEPT !.handled = FALSE]]
  BY DEF TypeInv, IInv, FormOK, Waits, Die
<1>2. PICK left : left = Kept(saves, Live)
  OBVIOUS
<1>3. saves' = [i \in DOMAIN left |-> [left[i] EXCEPT !.step = "sent"]]
  BY <1>2 DEF Die, Live
<1>4. left \in Seq(Saves) /\ One(left, Live) /\ (Some(left, Live) <=> Some(saves, Live))
  BY <1>1, <1>2, KeptIs, OneKept DEF Waits
<1>5. ASSUME NEW i \in DOMAIN left
      PROVE  saves'[i] \in Saves /\ (saves'[i] \in Live <=> left[i] \in Live)
  <2>1. left[i] \in Saves /\ saves'[i] = [left[i] EXCEPT !.step = "sent"]
    BY <1>3, <1>4
  <2> QED
    BY <2>1 DEF Saves, Live, Steps
<1>6. DOMAIN saves' = DOMAIN left /\ DOMAIN left = 1..Len(left) /\ Len(left) \in Nat
  BY <1>3, <1>4
<1>7. saves' \in Seq(Saves)
  BY <1>3, <1>5, <1>6, FunctionIsSeq
<1>8. (One(saves', Live) <=> One(left, Live)) /\ (Some(saves', Live) <=> Some(left, Live))
  BY <1>5, <1>6, OneSame
<1>9. ASSUME NEW i \in DOMAIN puts
      PROVE  puts'[i] \in Flushes <=> puts[i] \in Flushes
  <2>1. puts[i] \in Puts /\ puts'[i] = [puts[i] EXCEPT !.handled = FALSE]
    BY <1>1
  <2> QED
    BY <2>1 DEF Puts, Flushes
<1>10. DOMAIN puts' = DOMAIN puts
  BY <1>1
<1>11. (One(puts', Flushes) <=> One(puts, Flushes)) /\ (Some(puts', Flushes) <=> Some(puts, Flushes))
  BY <1>9, <1>10, OneSame
<1> QED
  BY <1>1, <1>4, <1>7, <1>8, <1>11 DEF Waits

LEMMA StepWaits == TypeInv /\ [Next]_vars => Waits'
<1> SUFFICES ASSUME TypeInv, [Next]_vars PROVE Waits'
  OBVIOUS
<1>1. UNCHANGED <<puts, saving, saves>> => Waits'
  BY DEF TypeInv, Waits
<1>2. CASE Load \/ LoadFails \/ Finish \/ UNCHANGED vars
  BY <1>1, <1>2 DEF Load, LoadFails, Finish, vars
<1>3. ASSUME NEW d \in Drafts, Edit(d) PROVE Waits'
  BY <1>1, <1>3 DEF Edit
<1>4. ASSUME NEW d \in late, HandleLate(d) PROVE Waits'
  BY <1>1, <1>4 DEF HandleLate, Adopt
<1>5. CASE TimerFires
  <2>1. pending # None /\ Push(FALSE) /\ UNCHANGED <<saving, saves>>
    BY <1>5 DEF TimerFires, TypeInv, IInv, FormOK
  <2> QED
    BY <2>1, PushWaits
<1>6. ASSUME NEW i \in DOMAIN puts, PutAnswered(i) PROVE Waits'
  <2>1. puts' = RemoveAt(puts, i)
    BY <1>6 DEF PutAnswered
  <2>2. CASE puts[i].bySave /\ valid'
    <3>1. saving' = "post" /\ saves' = Post
      BY <1>6, <2>2, Zenon DEF PutAnswered
    <3> QED
      BY <2>1, <2>2, <3>1, PutGoneWaits
  <2>3. CASE ~(puts[i].bySave /\ valid')
    <3>1. saving' = (IF puts[i].bySave THEN "no" ELSE saving) /\ saves' = saves
      BY <1>6, <2>3, Zenon DEF PutAnswered
    <3>2. puts[i].bySave => (saving' = "post" /\ saves' = Post) \/ (saving' = "no" /\ saves' = saves)
      BY <3>1, Zenon
    <3>3. ~puts[i].bySave => saving' = saving /\ saves' = saves
      BY <3>1, Zenon
    <3> QED
      BY <2>1, <3>2, <3>3, PutGoneWaits
  <2> QED
    BY <2>2, <2>3
<1>7. ASSUME NEW i \in DOMAIN puts, PutFails(i) PROVE Waits'
  <2>1. puts' = RemoveAt(puts, i)
    BY <1>7 DEF PutFails
  <2>2. puts[i].bySave => (saving' = "post" /\ saves' = Post) \/ (saving' = "no" /\ saves' = saves)
    BY <1>7, Zenon DEF PutFails
  <2>3. ~puts[i].bySave => saving' = saving /\ saves' = saves
    BY <1>7 DEF PutFails
  <2> QED
    BY <2>1, <2>2, <2>3, PutGoneWaits
<1>8. ASSUME NEW i \in DOMAIN saves, SaveAnswered(i) \/ SaveLost(i) PROVE Waits'
  BY <1>8, SaveGoneWaits DEF SaveAnswered, SaveLost
<1> QED
  BY <1>2, <1>3, <1>4, <1>5, <1>6, <1>7, <1>8, PressSaveWaits, HandlePutWaits, SaveWaits,
     RefreshWaits, DieWaits DEF Next, SyncStep, SaveStep, Save, SavePart

(* The page waits for at most one of its pushes or saves, for the one its    *)
(* buttons say it waits for, and whatever it edits, pushes, saves or loses, *)
(* what the agent holds, previews with and writes parses and compiles as far *)
(* as it must (useDraft.ts, App.tsx and the handlers of internal/setup).     *)
THEOREM DraftTypeCorrect == Spec => []TypeOK
<1>1. TypeInv /\ [Next]_vars => TypeInv'
  BY StepIInv, StepFlags, StepShared, StepValues, StepWaits DEF TypeInv
<1> QED
  BY <1>1, InitTypeInv, TypeInvIsTyped, PTL DEF Spec

----------------------------------------------------------------------------
(* The file and the temporary file.                                         *)

(* What a save finds on the disk as long as it is there alone. *)
FindsItsOwn(v) ==
    v.step \in AtDisk =>
        /\ v.cfg \in Valid
        /\ temp = IF v.step = "open" THEN Empty ELSE v.cfg
        /\ v.step = "first" => file = None

SafeDisk ==
    ~shared =>
        /\ file \in Valid \cup {None}
        /\ \A i \in DOMAIN saves : FindsItsOwn(saves[i])
        /\ \A i, j \in DOMAIN saves : i < j => saves[i].step \notin AtDisk \/ saves[j].step \notin AtDisk

Same(v, w) == v.step = w.step /\ v.cfg = w.cfg

(* The requests that stay under way find the disk as it was. *)
LEMMA FewerSaves ==
  ASSUME SafeDisk, UNCHANGED disk,
         \A i \in DOMAIN saves' : saves'[i].step \in AtDisk =>
             \E u \in DOMAIN saves : Same(saves'[i], saves[u]),
         \A i, j \in DOMAIN saves' : i < j /\ saves'[i].step \in AtDisk /\ saves'[j].step \in AtDisk =>
             \E u, v \in DOMAIN saves : u < v /\ Same(saves'[i], saves[u]) /\ Same(saves'[j], saves[v])
  PROVE  SafeDisk'
<1> SUFFICES ASSUME ~shared
             PROVE  /\ file \in Valid \cup {None}
                    /\ \A i \in DOMAIN saves' : FindsItsOwn(saves'[i])
                    /\ \A i, j \in DOMAIN saves' :
                          i < j => saves'[i].step \notin AtDisk \/ saves'[j].step \notin AtDisk
  BY DEF SafeDisk, FindsItsOwn, disk
<1>1. file \in Valid \cup {None}
  BY DEF SafeDisk
<1>2. ASSUME NEW i \in DOMAIN saves' PROVE FindsItsOwn(saves'[i])
  BY <1>2 DEF SafeDisk, FindsItsOwn, Same
<1>3. ASSUME NEW i \in DOMAIN saves', NEW j \in DOMAIN saves', i < j
      PROVE  saves'[i].step \notin AtDisk \/ saves'[j].step \notin AtDisk
  BY <1>3 DEF SafeDisk, Same
<1> QED
  BY <1>1, <1>2, <1>3

LEMMA InitSafeDisk == Init => SafeDisk
<1> SUFFICES ASSUME Init PROVE SafeDisk
  OBVIOUS
<1>1. saves = <<>> /\ file \in Valid \cup {None}
  BY DraftAssumption DEF Init
<1> QED
  BY <1>1 DEF SafeDisk

(* A save that is sent is not at the disk. *)
LEMMA PostSafe ==
  ASSUME TypeInv, SafeDisk, UNCHANGED disk, saves' = Post
  PROVE  SafeDisk'
<1> DEFINE v == [cfg |-> None, step |-> "sent", live |-> TRUE]
<1>1. saves \in Seq(Saves) /\ saves' = Append(saves, v) /\ v.step \notin AtDisk
  BY DEF TypeInv, Waits, Post, AtDisk
<1> HIDE DEF v
<1>2. /\ DOMAIN saves' = 1..(Len(saves) + 1) /\ DOMAIN saves = 1..Len(saves) /\ Len(saves) \in Nat
      /\ saves'[Len(saves) + 1] = v /\ \A k \in DOMAIN saves : saves'[k] = saves[k]
  BY <1>1
<1>3. ASSUME NEW k \in DOMAIN saves', saves'[k].step \in AtDisk PROVE k \in DOMAIN saves /\ saves'[k] = saves[k]
  BY <1>1, <1>2, <1>3
<1> QED
  BY <1>3, FewerSaves DEF Same

LEMMA GoneSafe ==
  ASSUME TypeInv, SafeDisk, UNCHANGED disk, NEW i \in DOMAIN saves, saves' = RemoveAt(saves, i)
  PROVE  SafeDisk'
<1>1. saves \in Seq(Saves) /\ i \in 1..Len(saves) /\ Len(saves) \in Nat /\ DOMAIN saves = 1..Len(saves)
  BY DEF TypeInv, Waits
<1>2. /\ saves' \in Seq(Saves) /\ Len(saves') = Len(saves) - 1
      /\ \A k \in 1..(Len(saves) - 1) : saves'[k] = IF k < i THEN saves[k] ELSE saves[k + 1]
  BY <1>1, RemoveOne
<1>3. DOMAIN saves' = 1..(Len(saves) - 1)
  BY <1>1, <1>2
<1>4. ASSUME NEW k \in DOMAIN saves'
      PROVE  \E u \in DOMAIN saves : saves'[k] = saves[u] /\ u = IF k < i THEN k ELSE k + 1
  <2>1. CASE k < i
    <3>1. k \in DOMAIN saves /\ saves'[k] = saves[k]
      BY <1>1, <1>2, <1>3, <1>4, <2>1
    <3> QED
      BY <3>1, <2>1
  <2>2. CASE ~(k < i)
    <3>1. k + 1 \in DOMAIN saves /\ saves'[k] = saves[k + 1]
      BY <1>1, <1>2, <1>3, <1>4, <2>2
    <3> QED
      BY <3>1, <2>2
  <2> QED
    BY <2>1, <2>2
<1>5. ASSUME NEW k \in DOMAIN saves'
      PROVE  \E u \in DOMAIN saves : Same(saves'[k], saves[u])
  BY <1>4, <1>5 DEF Same
<1>6. ASSUME NEW k \in DOMAIN saves', NEW l \in DOMAIN saves', k < l
      PROVE  \E u, v \in DOMAIN saves : u < v /\ Same(saves'[k], saves[u]) /\ Same(saves'[l], saves[v])
  <2>1. PICK u \in DOMAIN saves : saves'[k] = saves[u] /\ u = IF k < i THEN k ELSE k + 1
    BY <1>4, <1>6
  <2>2. PICK v \in DOMAIN saves : saves'[l] = saves[v] /\ v = IF l < i THEN l ELSE l + 1
    BY <1>4, <1>6
  <2>3. k \in Int /\ l \in Int /\ i \in Int
    BY <1>1, <1>3, <1>6
  <2>4. u < v
    BY <1>6, <2>1, <2>2, <2>3
  <2>5. Same(saves'[k], saves[u]) /\ Same(saves'[l], saves[v])
    BY <2>1, <2>2 DEF Same
  <2> QED
    BY <2>4, <2>5
<1> QED
  BY <1>5, <1>6, FewerSaves

(* What a page that has gone has at the disk stays there. *)
LEMMA RefreshSafe == TypeInv /\ SafeDisk /\ Refresh => SafeDisk'
<1> SUFFICES ASSUME TypeInv, SafeDisk, Refresh PROVE SafeDisk'
  OBVIOUS
<1>1. PICK P : saves' = [i \in DOMAIN Kept(saves, P) |-> [Kept(saves, P)[i] EXCEPT !.live = FALSE]]
  BY DEF Refresh
<1>2. PICK left : left = Kept(saves, P)
  OBVIOUS
<1>3. left \in Seq(Saves) /\ Left(left, saves, Len(saves), P)
  <2>1. saves \in Seq(Saves)
    BY DEF TypeInv, Waits
  <2> QED
    BY <1>2, <2>1, KeptIs
<1>4. saves' = [i \in DOMAIN left |-> [left[i] EXCEPT !.live = FALSE]]
  BY <1>1, <1>2
<1>5. /\ DOMAIN saves' = 1..Len(left) /\ DOMAIN left = 1..Len(left) /\ DOMAIN saves = 1..Len(saves)
      /\ UNCHANGED disk
  BY <1>3, <1>4 DEF TypeInv, Waits, Refresh
<1>6. ASSUME NEW i \in 1..Len(left) PROVE Same(saves'[i], left[i])
  <2>1. left[i] \in Saves /\ saves'[i] = [left[i] EXCEPT !.live = FALSE]
    BY <1>3, <1>4, <1>5
  <2> QED
    BY <2>1 DEF Saves, Same
<1>7. \A i \in DOMAIN saves' : \E u \in DOMAIN saves : Same(saves'[i], saves[u])
  BY <1>3, <1>5, <1>6 DEF Left
<1>8. \A i, j \in DOMAIN saves' : i < j =>
         \E u, v \in DOMAIN saves : u < v /\ Same(saves'[i], saves[u]) /\ Same(saves'[j], saves[v])
  <2> SUFFICES ASSUME NEW i \in 1..Len(left), NEW j \in 1..Len(left), i < j
               PROVE  \E u, v \in DOMAIN saves : u < v /\ Same(saves'[i], saves[u]) /\ Same(saves'[j], saves[v])
    BY <1>5
  <2>1. PICK u \in 1..Len(saves), v \in 1..Len(saves) : u < v /\ left[i] = saves[u] /\ left[j] = saves[v]
    BY <1>3 DEF Left
  <2> QED
    BY <1>5, <1>6, <2>1
<1> QED
  BY <1>5, <1>7, <1>8, FewerSaves

(* The end of the agent leaves nobody at the disk. *)
LEMMA DieSafe == TypeInv /\ SafeDisk /\ Die => SafeDisk'
<1> SUFFICES ASSUME TypeInv, SafeDisk, Die PROVE SafeDisk'
  OBVIOUS
<1>1. PICK left : left = Kept(saves, Live)
  OBVIOUS
<1>2. saves' = [i \in DOMAIN left |-> [left[i] EXCEPT !.step = "sent"]] /\ UNCHANGED disk
  BY <1>1 DEF Die, Live
<1>3. left \in Seq(Saves)
  <2>1. saves \in Seq(Saves)
    BY DEF TypeInv, Waits
  <2> QED
    BY <1>1, <2>1, KeptIs
<1>4. ASSUME NEW i \in DOMAIN saves' PROVE saves'[i].step \notin AtDisk
  <2>1. left[i] \in Saves /\ saves'[i] = [left[i] EXCEPT !.step = "sent"]
    BY <1>2, <1>3
  <2> QED
    BY <2>1 DEF Saves, AtDisk
<1> QED
  BY <1>2, <1>4, FewerSaves

LEMMA TakeDraftSafe ==
  ASSUME TypeInv, SafeDisk, NEW i \in DOMAIN saves, TakeDraft(i)
  PROVE  SafeDisk'
<1>1. saves \in Seq(Saves) /\ saves[i] \in Saves /\ DOMAIN saves \subseteq Nat
  BY DEF TypeInv, Waits
<1>2. /\ DOMAIN saves' = DOMAIN saves /\ saves'[i].step = "taken"
      /\ \A k \in DOMAIN saves \ {i} : saves'[k] = saves[k]
      /\ UNCHANGED disk
  BY <1>1 DEF TakeDraft, Saves
<1>3. \A k \in DOMAIN saves : saves'[k].step \in AtDisk => saves'[k] = saves[k]
  BY <1>2 DEF AtDisk
<1> QED
  BY <1>1, <1>2, <1>3, FewerSaves DEF Same

(* Whose file it is: a save alone at the disk finds there what it has put   *)
(* there, and the file takes nothing else.                                  *)
LEMMA SavePartSafe ==
  ASSUME TypeInv, SafeDisk, NEW i \in DOMAIN saves, SavePart(i)
  PROVE  SafeDisk'
<1> SUFFICES ASSUME ~shared' PROVE SafeDisk'
  BY DEF SafeDisk
<1>1. PICK s \in Steps : saves' = [saves EXCEPT ![i].step = s]
  BY SavePartKeeps
<1>2. /\ saves \in Seq(Saves) /\ saves[i] \in Saves /\ DOMAIN saves \subseteq Nat
      /\ DOMAIN saves' = DOMAIN saves
      /\ saves'[i].step = s /\ saves'[i].cfg = saves[i].cfg
      /\ \A k \in DOMAIN saves \ {i} : saves'[k] = saves[k]
  <2>1. saves \in Seq(Saves) /\ saves[i] \in Saves /\ DOMAIN saves \subseteq Nat
    BY DEF TypeInv, Waits
  <2>2. saves'[i] = [saves[i] EXCEPT !.step = s]
    BY <1>1, <2>1
  <2> QED
    BY <1>1, <2>1, <2>2 DEF Saves
<1>3. ~shared
  BY DEF SavePart, Truncate, Write, Stat, Replace, WriteFails, ReplaceFails, Fault, disk
<1>4. file \in Valid \cup {None} /\ FindsItsOwn(saves[i]) /\ None \notin Valid
  BY <1>3, DraftAssumption DEF SafeDisk
<1>5. saves[i].step \in AtDisk => \A k \in DOMAIN saves \ {i} : saves[k].step \notin AtDisk
  <2> SUFFICES ASSUME saves[i].step \in AtDisk, NEW k \in DOMAIN saves \ {i} PROVE saves[k].step \notin AtDisk
    OBVIOUS
  <2>1. i < k \/ k < i
    BY <1>2
  <2> QED
    BY <1>2, <1>3, <2>1 DEF SafeDisk
(* When this save is at the disk after its step, it is there alone. *)
<1>6. ASSUME \A k \in DOMAIN saves \ {i} : saves[k].step \notin AtDisk,
             file' \in Valid \cup {None}, FindsItsOwn(saves[i])'
      PROVE  SafeDisk'
  <2>1. \A k \in DOMAIN saves' : k = i \/ saves'[k].step \notin AtDisk
    BY <1>2, <1>6
  <2>2. \A k \in DOMAIN saves' : FindsItsOwn(saves[k])'
    BY <1>6, <2>1 DEF FindsItsOwn
  <2>3. \A k, l \in DOMAIN saves' : k < l => saves'[k].step \notin AtDisk \/ saves'[l].step \notin AtDisk
    <3> SUFFICES ASSUME NEW k \in DOMAIN saves', NEW l \in DOMAIN saves', k < l,
                        saves'[k].step \in AtDisk, saves'[l].step \in AtDisk
                 PROVE  FALSE
      OBVIOUS
    <3>1. k = l /\ k \in Nat
      BY <1>2, <2>1
    <3> QED
      BY <3>1
  <2> QED
    BY <1>6, <2>2, <2>3 DEF SafeDisk
(* Otherwise the disk is as it was. *)
<1>7. ASSUME s \notin AtDisk, UNCHANGED disk PROVE SafeDisk'
  <2>1. \A k \in DOMAIN saves' : saves'[k].step \in AtDisk => saves'[k] = saves[k]
    BY <1>2, <1>7
  <2> QED
    BY <1>2, <1>7, <2>1, FewerSaves DEF Same
<1>8. CASE Truncate(i)
  <2>1. CASE saves[i].cfg \in Valid
    <3>1. /\ \A k \in DOMAIN saves : saves[k].step \notin AtDisk
          /\ saves' = [saves EXCEPT ![i].step = "open"] /\ temp' = Empty /\ file' = file
      BY <1>8, <2>1 DEF Truncate, Moves
    <3>2. saves'[i].step = "open"
      BY <1>2, <3>1 DEF Saves
    <3> QED
      BY <1>2, <1>4, <1>6, <2>1, <3>1, <3>2 DEF FindsItsOwn
  <2>2. CASE saves[i].cfg \notin Valid
    <3>1. saves' = [saves EXCEPT ![i].step = "refused"] /\ UNCHANGED disk
      BY <1>8, <2>2 DEF Truncate, Moves, disk
    <3>2. s = "refused"
      BY <1>2, <3>1 DEF Saves
    <3> QED
      BY <1>7, <3>1, <3>2 DEF AtDisk
  <2> QED
    BY <2>1, <2>2
<1>9. CASE Write(i)
  <2>1. saves[i].step = "open" /\ temp = Empty /\ saves[i].cfg \in Valid
    BY <1>4, <1>9 DEF Write, Moves, FindsItsOwn, AtDisk
  <2>2. saves' = [saves EXCEPT ![i].step = "written"] /\ temp' = saves[i].cfg /\ file' = file
    BY <1>9, <2>1 DEF Write, Moves
  <2>3. saves'[i].step = "written"
    BY <1>2, <2>2 DEF Saves
  <2> QED
    BY <1>2, <1>4, <1>5, <1>6, <2>1, <2>2, <2>3 DEF FindsItsOwn, AtDisk
<1>10. CASE Stat(i)
  <2>1. saves[i].step = "written" /\ UNCHANGED disk /\ saves[i].cfg \in Valid /\ temp = saves[i].cfg
    BY <1>4, <1>10 DEF Stat, Moves, FindsItsOwn, AtDisk
  <2>2. saves' = [saves EXCEPT ![i].step = IF file = None THEN "first" ELSE "next"]
    BY <1>10 DEF Stat, Moves
  <2>3. saves'[i].step = IF file = None THEN "first" ELSE "next"
    BY <1>2, <2>2 DEF Saves
  <2> QED
    BY <1>2, <1>4, <1>5, <1>6, <2>1, <2>3 DEF FindsItsOwn, AtDisk, disk
<1>11. CASE Replace(i)
  <2>1. saves[i].step \in {"first", "next"} /\ saves[i].cfg \in Valid /\ temp = saves[i].cfg
    BY <1>4, <1>11 DEF Replace, Moves, FindsItsOwn, AtDisk
  <2>2. file' \in {file, temp}
    BY <1>11 DEF Replace
  <2>3. saves' = [saves EXCEPT ![i].step = "saved"] \/ saves' = [saves EXCEPT ![i].step = "refused"]
    BY <1>11 DEF Replace, Moves
  <2>4. saves'[i].step \notin AtDisk
    BY <1>2, <2>3 DEF Saves, AtDisk
  <2> QED
    BY <1>4, <1>5, <1>6, <2>1, <2>2, <2>4 DEF FindsItsOwn, AtDisk
<1>12. CASE WriteFails(i) \/ ReplaceFails(i)
  <2>1. file' = file /\ saves' = [saves EXCEPT ![i].step = "refused"]
    BY <1>12 DEF WriteFails, ReplaceFails, Fault
  <2>2. saves'[i].step = "refused"
    BY <1>2, <2>1 DEF Saves
  <2>3. CASE saves[i].step \in AtDisk
    BY <1>4, <1>5, <1>6, <2>1, <2>2, <2>3 DEF FindsItsOwn, AtDisk
  <2>4. CASE saves[i].step \notin AtDisk
    <3>1. UNCHANGED disk
      BY <1>12, <2>4 DEF WriteFails, ReplaceFails, Fault, AtDisk, disk
    <3> QED
      BY <1>2, <1>7, <2>2, <3>1 DEF AtDisk
  <2> QED
    BY <2>3, <2>4
<1> QED
  BY <1>8, <1>9, <1>10, <1>11, <1>12 DEF SavePart

LEMMA StepSafeDisk == TypeInv /\ SafeDisk /\ [Next]_vars => SafeDisk'
<1> SUFFICES ASSUME TypeInv, SafeDisk, [Next]_vars PROVE SafeDisk'
  OBVIOUS
<1>1. ASSUME UNCHANGED <<disk, saves>> PROVE SafeDisk'
  BY <1>1 DEF SafeDisk, FindsItsOwn, disk
<1>2. CASE Load \/ LoadFails \/ Finish \/ TimerFires \/ UNCHANGED vars
  BY <1>1, <1>2 DEF Load, LoadFails, Finish, TimerFires, vars
<1>3. ASSUME NEW d \in Drafts, Edit(d) PROVE SafeDisk'
  BY <1>1, <1>3 DEF Edit
<1>4. CASE PressSave
  <2>1. UNCHANGED disk /\ (saves' = Post \/ saves' = saves)
    BY <1>4 DEF PressSave
  <2> QED
    BY <1>1, <2>1, PostSafe
<1>5. ASSUME NEW i \in DOMAIN puts, HandlePut(i) \/ PutAnswered(i) \/ PutFails(i) PROVE SafeDisk'
  <2>1. UNCHANGED disk /\ (saves' = Post \/ saves' = saves)
    BY <1>5, Zenon DEF HandlePut, Adopt, PutAnswered, PutFails
  <2> QED
    BY <1>1, <2>1, PostSafe
<1>6. ASSUME NEW d \in late, HandleLate(d) PROVE SafeDisk'
  BY <1>1, <1>6 DEF HandleLate, Adopt
<1>7. ASSUME NEW i \in DOMAIN saves, SaveAnswered(i) \/ SaveLost(i) PROVE SafeDisk'
  BY <1>7, GoneSafe DEF SaveAnswered, SaveLost
<1> QED
  BY <1>2, <1>3, <1>4, <1>5, <1>6, <1>7, RefreshSafe, DieSafe, TakeDraftSafe, SavePartSafe
     DEF Next, SyncStep, SaveStep, Save, SavePart

(* What a step may do to the file. *)
LEMMA FileSteps ==
  ASSUME TypeInv, SafeDisk, [Next]_vars
  PROVE  [file' # file => file' # None /\ (shared \/ file = None \/ backup' = file)]_vars
<1> SUFFICES ASSUME file' # file
             PROVE  file' # None /\ (shared \/ file = None \/ backup' = file)
  OBVIOUS
<1>1. PICK i \in DOMAIN saves : Replace(i)
  <2>1. CASE Load \/ LoadFails \/ Refresh \/ PressSave \/ Finish \/ Die \/ TimerFires \/ UNCHANGED vars
    BY <2>1 DEF Load, LoadFails, Refresh, PressSave, Finish, Die, TimerFires, vars, disk
  <2>2. ASSUME NEW d \in Drafts, Edit(d) PROVE FALSE
    BY <2>2 DEF Edit, disk
  <2>3. ASSUME NEW i \in DOMAIN puts, HandlePut(i) \/ PutAnswered(i) \/ PutFails(i) PROVE FALSE
    BY <2>3 DEF HandlePut, Adopt, PutAnswered, PutFails, disk
  <2>4. ASSUME NEW d \in late, HandleLate(d) PROVE FALSE
    BY <2>4 DEF HandleLate, Adopt, disk
  <2>5. ASSUME NEW i \in DOMAIN saves,
               SaveAnswered(i) \/ SaveLost(i) \/ TakeDraft(i) \/ Truncate(i) \/ Write(i) \/ Stat(i)
                   \/ WriteFails(i) \/ ReplaceFails(i)
        PROVE  FALSE
    BY <2>5 DEF SaveAnswered, SaveLost, TakeDraft, Truncate, Write, Stat, WriteFails, ReplaceFails, Fault, disk
  <2> QED
    BY <2>1, <2>2, <2>3, <2>4, <2>5 DEF Next, SyncStep, SaveStep, Save, SavePart
<1>2. /\ file' = temp /\ temp # None
      /\ backup' = IF saves[i].step = "first" THEN backup ELSE file
      /\ saves[i].step \in AtDisk
  BY <1>1 DEF Replace, Moves, AtDisk
<1>3. shared \/ (saves[i].step = "first" => file = None)
  BY <1>2 DEF SafeDisk, FindsItsOwn
<1> QED
  BY <1>2, <1>3

(* Whatever part of a save fails or is cut off by the end of the agent, the  *)
(* file is a configuration the agent starts with and its predecessor is in   *)
(* the backup, as long as no two saves have the temporary file at once; and  *)
(* even if they do, the file never disappears again (config.Save).           *)
THEOREM FileStaysSafe == Spec => FileIsSafe
<1>1. Init => TypeInv /\ SafeDisk
  BY InitTypeInv, InitSafeDisk
<1>2. TypeInv /\ SafeDisk /\ [Next]_vars => (TypeInv /\ SafeDisk)'
  BY StepIInv, StepFlags, StepShared, StepValues, StepWaits, StepSafeDisk DEF TypeInv
<1>3. TypeInv /\ SafeDisk /\ [Next]_vars
          => [file' # file => file' # None /\ (shared \/ file = None \/ backup' = file)]_vars
  BY FileSteps
<1>4. SafeDisk => shared \/ file \in Valid \cup {None}
  BY DEF SafeDisk
<1> QED
  BY <1>1, <1>2, <1>3, <1>4, PTL DEF Spec, FileIsSafe

----------------------------------------------------------------------------
(* A clean page shows what is in the file.                                  *)

(* What a page shows as clean is what it takes to be on disk, and the error *)
(* of a page with nothing to push is that it was never loaded.              *)
Shown ==
    /\ ~loaded => persisted = None /\ ~valid /\ ~dirty /\ ~error /\ ~finished /\ saving = "no"
    /\ ~dirty => IF persisted = None THEN pending = None /\ puts = <<>> /\ ~valid
                 ELSE current = persisted
    /\ error /\ pending = None /\ puts = <<>> => ~valid

Quiet == TRUE \notin {finished, reopened, crossed, overrun, hurried}

(* A save is alone with its flush and then with its request, and its parts  *)
(* hand on the draft on the screen.                                         *)
Alone ==
    /\ saving = "no" => saves = <<>>
    /\ saving = "flush" => Len(puts) = 1 /\ pending = None /\ saves = <<>>
    /\ saving = "post" => Len(saves) = 1 /\ pending = None /\ puts = <<>> /\ valid

Handed ==
    saving = "post" =>
        /\ saves[1].step \in {"taken"} \cup AtDisk => saves[1].cfg = Normal(current)
        /\ saves[1].step = "open" => temp = Empty
        /\ saves[1].step \in {"written", "first", "next"} => temp = Normal(current)
        /\ saves[1].step = "saved" => file = Normal(current)

(* The file has what the page takes to be on disk, but for a save whose     *)
(* answer is under way.                                                     *)
Replaced == saving = "post" /\ saves[1].step = "saved"
OnDisk ==
    file # None => IF ~loaded THEN file = draft
                   ELSE persisted # None /\ ~Replaced => file = Normal(persisted)

Undisturbed == late = {} /\ Alone /\ Handed /\ OnDisk

QuietInv == TypeInv /\ Shown /\ (Quiet => Undisturbed)

LEMMA InitQuietInv == Init => QuietInv
<1> SUFFICES ASSUME Init PROVE QuietInv
  OBVIOUS
<1>1. Shown
  BY DEF Init, Shown
<1>2. Undisturbed
  BY DEF Init, Undisturbed, Alone, Handed, OnDisk, Replaced
<1> QED
  BY <1>1, <1>2, InitTypeInv DEF QuietInv

(* What happened stays on record. *)
LEMMA QuietBefore == [Next]_vars /\ Quiet' => Quiet
<1> SUFFICES ASSUME [Next]_vars, Quiet' PROVE Quiet
  OBVIOUS
<1>1. CASE Load \/ LoadFails \/ Refresh \/ PressSave \/ Finish \/ Die \/ TimerFires \/ UNCHANGED vars
  BY <1>1 DEF Quiet, Load, LoadFails, Refresh, PressSave, Finish, Die, TimerFires, vars, history, slips
<1>2. ASSUME NEW d \in Drafts, Edit(d) PROVE Quiet
  BY <1>2 DEF Quiet, Edit
<1>3. ASSUME NEW d \in late, HandleLate(d) PROVE Quiet
  BY <1>3 DEF Quiet, HandleLate, Adopt
<1>4. ASSUME NEW i \in DOMAIN puts, HandlePut(i) \/ PutAnswered(i) \/ PutFails(i) PROVE Quiet
  BY <1>4 DEF Quiet, HandlePut, Adopt, PutAnswered, PutFails
<1>5. ASSUME NEW i \in DOMAIN saves,
             SaveAnswered(i) \/ SaveLost(i) \/ TakeDraft(i) \/ SavePart(i)
      PROVE  Quiet
  BY <1>5, SavePartKeeps DEF Quiet, SaveAnswered, SaveLost, TakeDraft, history, slips
<1> QED
  BY <1>1, <1>2, <1>3, <1>4, <1>5 DEF Next, SyncStep, SaveStep, Save, SavePart

LEMMA StepShown == QuietInv /\ [Next]_vars => Shown'
<1> SUFFICES ASSUME QuietInv, [Next]_vars PROVE Shown'
  OBVIOUS
<1>1. /\ Shown /\ current \in Drafts /\ draft \in Drafts /\ None \notin Drafts
      /\ puts \in Seq(Puts) /\ saves \in Seq(Saves) /\ (timer => pending # None)
      /\ ~loaded => pending = None /\ puts = <<>>
  BY DraftAssumption DEF QuietInv, TypeInv, IInv, FormOK, AgentOK, Newness, Waits
<1>2. CASE Load
  BY <1>1, <1>2 DEF Shown, Load
<1>3. CASE LoadFails
  BY <1>1, <1>3 DEF Shown, LoadFails
<1>4. CASE Refresh
  <2>1. saving' = "no" /\ finished' = FALSE
    BY <1>4 DEF Refresh, Fresh, Open
  <2> QED
    BY <1>4, <2>1 DEF Shown, Refresh, Fresh
<1>5. ASSUME NEW d \in Drafts, Edit(d) PROVE Shown'
  <2>1. d # None
    BY <1>1
  <2> QED
    BY <1>1, <1>5, <2>1 DEF Shown, Edit, Open
<1>6. CASE PressSave
  <2>1. loaded /\ valid /\ UNCHANGED <<loaded, current, persisted, valid, dirty, error, finished>>
    BY <1>6 DEF PressSave, Enabled, Open
  <2>2. error => pending # None \/ puts # <<>>
    BY <1>1, <2>1 DEF Shown
  <2>3. puts' # <<>> \/ UNCHANGED <<puts, pending>>
    BY <1>1, <1>6 DEF PressSave, Push
  <2> QED
    BY <1>1, <2>1, <2>2, <2>3 DEF Shown
<1>7. CASE Finish
  BY <1>1, <1>7 DEF Shown, Finish, Enabled, Open
<1>8. CASE Die
  <2>1. puts' = <<>> <=> puts = <<>>
    BY <1>1, <1>8 DEF Die
  <2> QED
    BY <1>1, <1>8, <2>1 DEF Shown, Die, page
<1>9. CASE TimerFires
  <2>1. puts' # <<>> /\ pending # None /\ loaded
    BY <1>1, <1>9 DEF TimerFires, Push, Open
  <2> QED
    BY <1>1, <1>9, <2>1 DEF Shown, TimerFires
<1>10. ASSUME NEW i \in DOMAIN puts, HandlePut(i) PROVE Shown'
  <2>1. puts' # <<>> /\ puts # <<>>
    BY <1>1, <1>10 DEF HandlePut
  <2> QED
    BY <1>1, <1>10, <2>1 DEF Shown, HandlePut, Adopt, page
<1>11. ASSUME NEW d \in late, HandleLate(d) PROVE Shown'
  BY <1>1, <1>11 DEF Shown, HandleLate, Adopt, page
<1>12. ASSUME NEW i \in DOMAIN puts, PutAnswered(i) PROVE Shown'
  <2>1. puts # <<>> /\ loaded
    BY <1>1
  <2> QED
    BY <1>1, <1>12, <2>1 DEF Shown, PutAnswered
<1>13. ASSUME NEW i \in DOMAIN puts, PutFails(i) PROVE Shown'
  <2>1. puts # <<>> /\ loaded /\ puts[i].draft # None
    <3>1. puts[i] \in Puts
      BY <1>1
    <3> QED
      BY <1>1, <3>1 DEF Puts
  <2> QED
    BY <1>1, <1>13, <2>1 DEF Shown, PutFails
<1>14. ASSUME NEW i \in DOMAIN saves, TakeDraft(i) \/ SavePart(i) PROVE Shown'
  BY <1>1, <1>14, SavePartKeeps DEF Shown, TakeDraft, page
<1>15. ASSUME NEW i \in DOMAIN saves, SaveAnswered(i) \/ SaveLost(i) PROVE Shown'
  <2>1. CASE loaded
    <3>1. UNCHANGED <<loaded, current, pending, puts, valid, error>>
      BY <1>15 DEF SaveAnswered, SaveLost, page
    <3>2. UNCHANGED <<persisted, dirty>> \/ persisted' = current
      BY <1>15 DEF SaveAnswered, SaveLost, page
    <3> QED
      BY <1>1, <2>1, <3>1, <3>2 DEF Shown
  <2>2. CASE ~loaded
    <3>1. saves[i] \in Live <=> saves[i].live
      BY <1>1 DEF Live
    <3>2. ~saves[i].live
      BY <1>1, <2>2, <3>1 DEF QuietInv, TypeInv, Waits, Some, Shown
    <3> QED
      BY <1>1, <1>15, <3>2 DEF Shown, SaveAnswered, SaveLost
  <2> QED
    BY <2>1, <2>2
<1>16. CASE UNCHANGED vars
  BY <1>1, <1>16 DEF Shown, vars, page
<1> QED
  BY <1>2, <1>3, <1>4, <1>5, <1>6, <1>7, <1>8, <1>9, <1>10, <1>11, <1>12, <1>13, <1>14, <1>15,
     <1>16 DEF Next, SyncStep, SaveStep, Save, SavePart

(* What is known of a page that nothing has disturbed. *)
LEMMA UndisturbedIs ==
  ASSUME TypeInv, Shown, Undisturbed, Quiet
  PROVE  /\ puts \in Seq(Puts) /\ saves \in Seq(Saves) /\ saving \in {"no", "flush", "post"}
         /\ timer => pending # None
         /\ saving # "no" => loaded
         /\ ~loaded => pending = None /\ puts = <<>> /\ saving = "no" /\ persisted = None
         /\ saving = "flush" => \A i \in DOMAIN puts : i = 1 /\ puts[i].bySave
         /\ saving # "flush" => \A i \in DOMAIN puts : ~puts[i].bySave
         /\ saving = "post" => draft = Normal(current)
         /\ \A i \in DOMAIN saves : i = 1 /\ saving = "post" /\ saves[i].live
         /\ saving = "post" => 1 \in DOMAIN saves
<1>1. /\ puts \in Seq(Puts) /\ saves \in Seq(Saves) /\ saving \in {"no", "flush", "post"}
      /\ (timer => pending # None)
      /\ (saving = "flush" <=> Some(puts, Flushes)) /\ (saving = "post" <=> Some(saves, Live))
  BY DEF TypeInv, IInv, FormOK, Waits
<1>2. \A i \in DOMAIN puts : puts[i] \in Flushes <=> puts[i].bySave
  BY <1>1 DEF Flushes
<1>3. \A i \in DOMAIN saves : saves[i] \in Live <=> saves[i].live
  BY <1>1 DEF Live
<1>4. /\ saving = "no" => saves = <<>>
      /\ saving = "flush" => Len(puts) = 1 /\ pending = None /\ saves = <<>>
      /\ saving = "post" => Len(saves) = 1 /\ pending = None /\ puts = <<>> /\ valid
  BY DEF Undisturbed, Alone
<1>5. /\ saving # "no" => loaded
      /\ ~loaded => pending = None /\ puts = <<>> /\ saving = "no" /\ persisted = None
  BY DEF Shown, TypeInv, IInv, Newness
<1>6. ASSUME saving = "flush", NEW i \in DOMAIN puts
      PROVE  i = 1 /\ puts[i].bySave
  <2>1. DOMAIN puts = {1}
    BY <1>1, <1>4, <1>6
  <2>2. PICK j \in DOMAIN puts : puts[j] \in Flushes
    BY <1>1, <1>6 DEF Some
  <2> QED
    BY <1>2, <2>1, <2>2
<1>7. saving # "flush" => \A i \in DOMAIN puts : ~puts[i].bySave
  BY <1>1, <1>2 DEF Some
<1>8. ASSUME NEW i \in DOMAIN saves
      PROVE  i = 1 /\ saving = "post" /\ saves[i].live
  <2>1. saving = "post"
    BY <1>1, <1>4
  <2>2. DOMAIN saves = {1}
    BY <1>1, <1>4, <2>1
  <2>3. PICK j \in DOMAIN saves : saves[j] \in Live
    BY <1>1, <2>1 DEF Some
  <2> QED
    BY <1>3, <2>1, <2>2, <2>3
<1>9. saving = "post" => 1 \in DOMAIN saves
  BY <1>1, <1>4
<1>10. saving = "post" => draft = Normal(current)
  <2> SUFFICES ASSUME saving = "post" PROVE draft = Normal(current)
    OBVIOUS
  <2>1. loaded /\ valid /\ pending = None /\ puts = <<>> /\ ~crossed /\ ~overrun
    BY <1>4, <1>5, Zenon DEF Quiet
  <2>2. ~error
    BY <2>1 DEF Shown
  <2> QED
    BY <2>1, <2>2, DraftAssumption DEF TypeInv, IInv, Newness, Holds
<1> QED
  BY <1>1, <1>4, <1>5, <1>6, <1>7, <1>8, <1>9, <1>10, Zenon

LEMMA LoadUndisturbed ==
  ASSUME TypeInv, Shown, Undisturbed, Quiet, Load \/ LoadFails
  PROVE  Undisturbed'
<1>1. /\ ~loaded /\ saving = "no" /\ persisted = None
      /\ UNCHANGED <<saving, late, saves, file, draft, puts, pending>> /\ loaded'
  BY DEF Load, LoadFails, Shown, agent, disk
<1>2. late' = {} /\ Alone' /\ Handed'
  BY <1>1 DEF Undisturbed, Alone, Handed
<1>3. OnDisk'
  <2>1. file # None => file = draft
    BY <1>1 DEF Undisturbed, OnDisk
  <2>2. (persisted' = draft /\ Normal(draft) = draft) \/ persisted' = None
    BY <1>1 DEF Load, LoadFails, TypeInv, IInv, AgentOK
  <2> QED
    BY <1>1, <2>1, <2>2 DEF OnDisk
<1> QED
  BY <1>2, <1>3 DEF Undisturbed

LEMMA EditUndisturbed ==
  ASSUME TypeInv, Shown, Undisturbed, Quiet, Quiet', NEW d \in Drafts, Edit(d)
  PROVE  Undisturbed'
<1>1. saving = "no"
  BY DEF Edit, Quiet
<1>2. UNCHANGED <<loaded, persisted, saving, puts, late, saves, file, draft>>
  BY DEF Edit, agent, disk
<1> QED
  BY <1>1, <1>2 DEF Undisturbed, Alone, Handed, OnDisk, Replaced, AtDisk

LEMMA PressSaveUndisturbed ==
  ASSUME TypeInv, Shown, Undisturbed, Quiet, Quiet', PressSave
  PROVE  Undisturbed'
<1>1. /\ saving = "no" /\ valid /\ puts = <<>> /\ saves = <<>> /\ loaded
      /\ UNCHANGED <<loaded, current, persisted, valid, late, file, draft>>
  BY DEF PressSave, Enabled, Open, Quiet, Undisturbed, Alone, agent, disk
<1>2. CASE pending = None
  <2>1. saving' = "post" /\ saves' = Post /\ UNCHANGED <<puts, pending>>
    BY <1>2 DEF PressSave
  <2>2. Len(saves') = 1 /\ saves'[1].step = "sent"
    BY <1>1, <2>1 DEF Post
  <2> QED
    BY <1>1, <1>2, <2>1, <2>2 DEF Undisturbed, Alone, Handed, OnDisk, Replaced, AtDisk
<1>3. CASE pending # None
  <2>1. /\ saving' = "flush" /\ UNCHANGED saves /\ pending' = None
        /\ puts' = Append(puts, [draft |-> pending, handled |-> FALSE, bySave |-> TRUE])
    BY <1>3 DEF PressSave, Push
  <2>2. Len(puts') = 1
    BY <1>1, <2>1
  <2> QED
    BY <1>1, <2>1, <2>2 DEF Undisturbed, Alone, Handed, OnDisk, Replaced, AtDisk
<1> QED
  BY <1>2, <1>3

LEMMA PushesUndisturbed ==
  ASSUME TypeInv, Shown, Undisturbed, Quiet, Quiet',
         TimerFires \/ \E i \in DOMAIN puts : HandlePut(i) \/ PutFails(i)
  PROVE  Undisturbed'
<1>1. CASE TimerFires
  <2>1. saving = "no" /\ UNCHANGED <<loaded, persisted, saving, late, saves, file, draft>>
    BY <1>1, UndisturbedIs DEF TimerFires, Undisturbed, Alone, agent, disk
  <2> QED
    BY <2>1 DEF Undisturbed, Alone, Handed, OnDisk, Replaced, AtDisk
<1>2. ASSUME NEW i \in DOMAIN puts, HandlePut(i) PROVE Undisturbed'
  <2>1. UNCHANGED <<loaded, current, persisted, pending, valid, saving, late, saves, temp, file>>
    BY <1>2 DEF HandlePut, Adopt, page, disk
  <2>2. Len(puts') = Len(puts)
    BY <1>2, UndisturbedIs DEF HandlePut
  <2>3. loaded /\ puts # <<>>
    BY UndisturbedIs
  <2> QED
    BY <2>1, <2>2, <2>3 DEF Undisturbed, Alone, Handed, OnDisk, Replaced, AtDisk
<1>3. ASSUME NEW i \in DOMAIN puts, PutFails(i) PROVE Undisturbed'
  <2>1. ~puts[i].bySave
    BY <1>3, Zenon DEF PutFails, Quiet
  <2>2. UNCHANGED <<loaded, current, persisted, saving, late, saves, file, draft>>
    BY <1>3, <2>1, Zenon DEF PutFails, agent, disk
  <2>3. saving = "no" /\ loaded
    <3>1. puts # <<>>
      BY UndisturbedIs
    <3> QED
      BY <2>1, <3>1, UndisturbedIs DEF Undisturbed, Alone
  <2> QED
    BY <2>2, <2>3 DEF Undisturbed, Alone, Handed, OnDisk, Replaced, AtDisk
<1> QED
  BY <1>1, <1>2, <1>3

LEMMA PutAnsweredUndisturbed ==
  ASSUME TypeInv, Shown, Undisturbed, Quiet, NEW i \in DOMAIN puts, PutAnswered(i)
  PROVE  Undisturbed'
<1>1. UNCHANGED <<loaded, current, persisted, pending, late, file, draft>> /\ puts' = RemoveAt(puts, i)
  BY DEF PutAnswered, agent, disk
<1>2. puts # <<>> /\ loaded /\ saving # "post"
  BY UndisturbedIs DEF Undisturbed, Alone
<1>3. CASE saving = "no"
  <2>1. ~puts[i].bySave
    BY <1>3, UndisturbedIs
  <2>2. UNCHANGED <<saving, saves>>
    BY <2>1, Zenon DEF PutAnswered
  <2> QED
    BY <1>1, <1>2, <1>3, <2>2 DEF Undisturbed, Alone, Handed, OnDisk, Replaced, AtDisk
<1>4. CASE saving = "flush"
  <2>1. i = 1 /\ puts[i].bySave /\ Len(puts) = 1 /\ pending = None /\ saves = <<>>
    BY <1>4, UndisturbedIs DEF Undisturbed, Alone
  <2>2. puts' = <<>>
    BY <1>1, <2>1, PutGone DEF TypeInv
  <2>3. CASE valid'
    <3>1. saving' = "post" /\ saves' = Post
      BY <2>1, <2>3, Zenon DEF PutAnswered
    <3>2. Len(saves') = 1 /\ saves'[1].step = "sent"
      BY <2>1, <3>1 DEF Post
    <3> QED
      BY <1>1, <1>2, <1>4, <2>1, <2>2, <2>3, <3>1, <3>2
      DEF Undisturbed, Alone, Handed, OnDisk, Replaced, AtDisk
  <2>4. CASE ~valid'
    <3>1. saving' = "no" /\ UNCHANGED saves
      BY <2>1, <2>4, Zenon DEF PutAnswered
    <3> QED
      BY <1>1, <1>2, <1>4, <2>1, <3>1 DEF Undisturbed, Alone, Handed, OnDisk, Replaced, AtDisk
  <2> QED
    BY <2>3, <2>4
<1> QED
  BY <1>2, <1>3, <1>4, UndisturbedIs

(* The parts of a save, which is the only one. *)
LEMMA SaveUndisturbed ==
  ASSUME TypeInv, Shown, Undisturbed, Quiet, NEW i \in DOMAIN saves,
         TakeDraft(i) \/ SavePart(i)
  PROVE  Undisturbed'
<1>1. /\ i = 1 /\ saving = "post" /\ loaded /\ draft = Normal(current)
      /\ saves \in Seq(Saves) /\ saves[1] \in Saves /\ Len(saves) = 1
  BY UndisturbedIs DEF Undisturbed, Alone
<1>2. UNCHANGED <<loaded, current, persisted, pending, valid, saving, puts, late>>
  BY SavePartKeeps DEF TakeDraft, page
<1>3. Len(saves') = 1
  BY <1>1, SavePartKeeps DEF TakeDraft
<1>4. late' = {} /\ Alone'
  BY <1>1, <1>2, <1>3 DEF Undisturbed, Alone
<1>5. CASE TakeDraft(i)
  <2>1. saves'[1].step = "taken" /\ saves'[1].cfg = draft
    BY <1>1, <1>5 DEF TakeDraft, Saves
  <2>2. saves[1].step = "sent" /\ UNCHANGED file
    BY <1>1, <1>5 DEF TakeDraft, disk
  <2>3. Handed' /\ OnDisk'
    BY <1>1, <1>2, <2>1, <2>2 DEF Undisturbed, Handed, OnDisk, Replaced
  <2> QED
    BY <1>4, <2>3 DEF Undisturbed
<1>6. CASE Truncate(i) \/ Write(i) \/ Stat(i)
  <2>1. saves[1].step \in {"taken", "open", "written"} /\ UNCHANGED file
    BY <1>1, <1>6 DEF Truncate, Write, Stat, Moves, disk
  <2>2. /\ saves[1].cfg = Normal(current)
        /\ saves[1].step = "open" => temp = Empty
        /\ saves[1].step = "written" => temp = Normal(current)
    BY <1>1, <2>1 DEF Undisturbed, Handed, AtDisk
  <2>3. \/ /\ saves'[1].step = "open" /\ saves'[1].cfg = saves[1].cfg
           /\ temp' = Empty
        \/ /\ saves'[1].step \in {"written", "first", "next"} /\ saves'[1].cfg = saves[1].cfg
           /\ temp' = IF saves[1].step = "open" THEN saves[1].cfg ELSE temp
           /\ saves[1].step \in {"open", "written"}
        \/ saves'[1].step = "refused"
    <3>1. CASE Truncate(i)
      BY <1>1, <2>2, <3>1 DEF Truncate, Moves, Saves, disk
    <3>2. CASE Write(i)
      BY <1>1, <2>2, <3>2 DEF Write, Moves, Saves, disk
    <3>3. CASE Stat(i)
      BY <1>1, <2>2, <3>3 DEF Stat, Moves, Saves, disk
    <3> QED
      BY <1>6, <3>1, <3>2, <3>3
  <2>4. Handed'
    BY <1>2, <2>2, <2>3 DEF Handed, AtDisk
  <2>5. saves[1].step # "saved" /\ saves'[1].step # "saved"
    BY <2>1, <2>3
  <2>6. OnDisk'
    BY <1>1, <1>2, <2>1, <2>5 DEF Undisturbed, OnDisk, Replaced
  <2> QED
    BY <1>4, <2>4, <2>6 DEF Undisturbed
<1>7. CASE Replace(i)
  <2>1. saves[1].step \in {"first", "next"}
    BY <1>1, <1>7 DEF Replace, Moves
  <2>2. \/ saves'[1].step = "saved" /\ file' = temp
        \/ saves'[1].step = "refused" /\ UNCHANGED file
    BY <1>1, <1>7 DEF Replace, Moves, Saves, disk
  <2>3. Handed' /\ OnDisk'
    BY <1>1, <1>2, <2>1, <2>2 DEF Undisturbed, Handed, OnDisk, Replaced, AtDisk
  <2> QED
    BY <1>4, <2>3 DEF Undisturbed
<1>8. CASE WriteFails(i) \/ ReplaceFails(i)
  <2>1. saves[1].step # "saved" /\ saves'[1].step = "refused" /\ UNCHANGED file
    BY <1>1, <1>8 DEF WriteFails, ReplaceFails, Fault, Saves
  <2>2. Handed' /\ OnDisk'
    BY <1>1, <1>2, <2>1 DEF Undisturbed, Handed, OnDisk, Replaced, AtDisk
  <2> QED
    BY <1>4, <2>2 DEF Undisturbed
<1> QED
  BY <1>5, <1>6, <1>7, <1>8 DEF SavePart

LEMMA SaveGoneUndisturbed ==
  ASSUME TypeInv, Shown, Undisturbed, Quiet, Quiet', NEW i \in DOMAIN saves,
         SaveAnswered(i) \/ SaveLost(i)
  PROVE  Undisturbed'
<1>1. /\ i = 1 /\ saving = "post" /\ loaded /\ saves[i].live
      /\ saves \in Seq(Saves) /\ Len(saves) = 1 /\ i \in 1..Len(saves)
  BY UndisturbedIs DEF Undisturbed, Alone
<1>2. saves' = RemoveAt(saves, i) /\ saving' = "no" /\ UNCHANGED <<loaded, current, late, file, draft>>
  BY <1>1 DEF SaveAnswered, SaveLost, page, agent, disk
<1>3. saves' = <<>>
  <2>1. saves' \in Seq(Saves) /\ Len(saves') = Len(saves) - 1
    BY <1>1, <1>2, RemoveOne
  <2> QED
    BY <1>1, <2>1
<1>4. late' = {} /\ Alone' /\ Handed'
  BY <1>2, <1>3 DEF Undisturbed, Alone, Handed
<1>5. CASE saves[1].step = "saved"
  <2>1. SaveAnswered(i) /\ persisted' = current
    BY <1>1, <1>5 DEF SaveAnswered, SaveLost, Quiet
  <2>2. OnDisk'
    BY <1>1, <1>2, <1>5, <2>1 DEF Undisturbed, Handed, OnDisk
  <2> QED
    BY <1>4, <2>2 DEF Undisturbed
<1>6. CASE saves[1].step # "saved"
  <2>1. UNCHANGED persisted
    BY <1>1, <1>6 DEF SaveAnswered, SaveLost, page
  <2>2. OnDisk'
    BY <1>1, <1>2, <1>6, <2>1 DEF Undisturbed, OnDisk, Replaced
  <2> QED
    BY <1>4, <2>2 DEF Undisturbed
<1> QED
  BY <1>5, <1>6

LEMMA DieUndisturbed ==
  ASSUME TypeInv, Shown, Undisturbed, Quiet, Quiet', Die
  PROVE  Undisturbed'
<1>1. UNCHANGED <<loaded, current, persisted, pending, valid, saving, draft, temp, file>> /\ late' = {}
  BY DEF Die, page, disk
<1>2. /\ puts \in Seq(Puts) /\ saves \in Seq(Saves)
      /\ \A i \in DOMAIN saves : i = 1 /\ saving = "post" /\ saves[i].live
  BY UndisturbedIs
<1>3. (Len(puts') = Len(puts)) /\ (puts = <<>> => puts' = <<>>)
  BY <1>2 DEF Die
<1>4. PICK left : left = Kept(saves, Live)
  OBVIOUS
<1>5. saves' = [i \in DOMAIN left |-> [left[i] EXCEPT !.step = "sent"]]
  BY <1>4 DEF Die, Live
<1>6. left \in Seq(Saves) /\ Left(left, saves, Len(saves), Live)
  BY <1>2, <1>4, KeptIs
<1>7. saves = <<>> => saves' = <<>>
  <2> SUFFICES ASSUME saves = <<>> PROVE saves' = <<>>
    OBVIOUS
  <2>1. 1..Len(saves) = {}
    OBVIOUS
  <2>2. 1..Len(left) = {}
    BY <1>6, <2>1, Zenon DEF Left
  <2>3. left = <<>>
    BY <1>6, <2>2
  <2> QED
    BY <1>5, <2>3
<1>8. saving = "post" => Len(saves') = 1 /\ saves'[1].step = "sent" /\ saves[1].step # "saved"
  <2> SUFFICES ASSUME saving = "post"
               PROVE  Len(saves') = 1 /\ saves'[1].step = "sent" /\ saves[1].step # "saved"
    OBVIOUS
  <2>1. Len(saves) = 1 /\ saves[1].live /\ saves[1] \in Saves /\ 1 \in DOMAIN saves
    BY <1>2 DEF Undisturbed, Alone
  <2>2. saves[1].step # "saved"
    BY <2>1 DEF Die, Quiet
  <2>3. saves[1] \in Live /\ 1..Len(saves) = {1}
    BY <2>1 DEF Live
  <2>4. PICK k \in 1..Len(left) : left[k] = saves[1]
    BY <1>6, <2>3 DEF Left
  <2>5. ASSUME NEW x \in 1..Len(left), NEW y \in 1..Len(left), x < y PROVE FALSE
    <3>1. PICK u \in 1..Len(saves), v \in 1..Len(saves) : u < v
      BY <1>6, <2>5, Zenon DEF Left
    <3> QED
      BY <2>3, <3>1
  <2>6. Len(left) = 1
    <3>1. Len(left) \in Nat
      BY <1>6
    <3>2. ~(Len(left) > 1)
      <4> SUFFICES ASSUME Len(left) > 1 PROVE FALSE
        OBVIOUS
      <4>1. 1 \in 1..Len(left) /\ 2 \in 1..Len(left) /\ 1 < 2
        BY <3>1
      <4> QED
        BY <2>5, <4>1
    <3> QED
      BY <2>4, <3>1, <3>2
  <2>7. DOMAIN left = {1} /\ left[1] \in Saves
    BY <1>6, <2>6
  <2>8. saves'[1] = [left[1] EXCEPT !.step = "sent"] /\ DOMAIN saves' = 1..1
    BY <1>5, <2>7
  <2>9. saves'[1] \in Saves /\ saves'[1].step = "sent"
    BY <2>7, <2>8 DEF Saves, Steps
  <2>10. Len(saves') = 1
    BY <1>5, <1>6, <2>6
  <2> QED
    BY <2>2, <2>9, <2>10
<1>9. Alone'
  BY <1>1, <1>3, <1>7, <1>8 DEF Undisturbed, Alone
<1>10. Handed' /\ OnDisk'
  BY <1>1, <1>8 DEF Undisturbed, Handed, OnDisk, Replaced, AtDisk
<1> QED
  BY <1>1, <1>9, <1>10 DEF Undisturbed

LEMMA StepQuietInv == QuietInv /\ [Next]_vars => QuietInv'
<1> SUFFICES ASSUME QuietInv, [Next]_vars PROVE QuietInv'
  OBVIOUS
<1>1. TypeInv' /\ Shown'
  BY StepIInv, StepFlags, StepShared, StepValues, StepWaits, StepShown DEF TypeInv, QuietInv
<1>2. ASSUME Quiet' PROVE Undisturbed'
  <2>1. TypeInv /\ Shown /\ Undisturbed /\ Quiet
    BY <1>2, QuietBefore DEF QuietInv
  <2>2. CASE Refresh \/ Finish
    BY <1>2, <2>2 DEF Quiet, Refresh, Finish
  <2>3. ASSUME NEW d \in late, HandleLate(d) PROVE Undisturbed'
    BY <2>1 DEF Undisturbed
  <2>4. CASE UNCHANGED vars
    BY <2>1, <2>4 DEF Undisturbed, Alone, Handed, OnDisk, Replaced, AtDisk, vars, page, agent, disk
  <2> QED
    BY <1>2, <2>1, <2>2, <2>3, <2>4, LoadUndisturbed, EditUndisturbed, PressSaveUndisturbed,
       PushesUndisturbed, PutAnsweredUndisturbed, SaveUndisturbed, SaveGoneUndisturbed,
       DieUndisturbed DEF Next, SyncStep, SaveStep, Save, SavePart
<1> QED
  BY <1>1, <1>2 DEF QuietInv

(* A page that shows no badge and no error shows what the agent starts with  *)
(* next, although the page records the draft on its screen and the agent     *)
(* saves the one it holds: so long as nothing has come between, the two are  *)
(* the same draft (markSaved of useDraft.ts, handleSave of App.tsx and of    *)
(* internal/setup/server.go).                                                *)
THEOREM QuietSavesAreTrue == Spec => []QuietSaveIsTrue
<1>1. QuietInv => QuietSaveIsTrue
  <2> SUFFICES ASSUME QuietInv, Open, Badge = "none", ~error, file # None,
                      TRUE \notin {reopened, crossed, overrun, hurried}
               PROVE  file = Normal(current)
    BY DEF QuietSaveIsTrue
  <2>1. valid /\ ~dirty /\ loaded /\ ~finished
    BY DEF Badge, Open
  <2>2. Quiet
    BY <2>1, Zenon DEF Quiet
  <2>3. persisted # None /\ current = persisted
    BY <2>1 DEF QuietInv, Shown
  <2>4. Handed /\ OnDisk
    BY <2>2 DEF QuietInv, Undisturbed
  <2> QED
    BY <2>1, <2>3, <2>4 DEF Handed, OnDisk, Replaced
<1> QED
  BY <1>1, InitQuietInv, StepQuietInv, PTL DEF Spec
=============================================================================
