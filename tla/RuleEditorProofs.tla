-------------------------- MODULE RuleEditorProofs --------------------------
(***************************************************************************)
(* Theorems about RuleEditor, for any names, patterns, number of edits and  *)
(* number of answers under way.  IInv carries the exposures: the dialog is  *)
(* about a process that has a rule, so that what it exposes is no orphan.   *)
(* FormInv adds what a request under way is about: the row and the dialog   *)
(* cancel theirs before they change.  Last come what is marked against what *)
(* the agent refuses, and the edits themselves.                             *)
(***************************************************************************)
EXTENDS MCRuleEditor, DataLemmas

DialogOK ==
    /\ typed \in Names
    /\ dialog # None => dialog \in Names /\ RulesOf(draft, dialog) # {}

IInv == draft \in Drafts /\ DialogOK /\ ExposedByConsent /\ OrphansByRename

(* e exposes what d does, and has a rule for every process that d has one for. *)
Keeps(d, e) ==
    /\ e \in Drafts
    /\ e.expose = d.expose
    /\ \A i \in DOMAIN d.rules : \E j \in DOMAIN e.rules : e.rules[j].process = d.rules[i].process

LEMMA DraftShape ==
  ASSUME NEW d \in Drafts
  PROVE  /\ d.rules \in Seq(RulesType) /\ d.expose \subseteq Names
         /\ Len(d.rules) \in Nat /\ DOMAIN d.rules = 1..Len(d.rules)
         /\ \A i \in DOMAIN d.rules :
              /\ d.rules[i] \in RulesType /\ d.rules[i].process \in Names
              /\ d.rules[i].patterns \in Seq(Matches)
<1>1. d.rules \in Seq(RulesType) /\ d.expose \subseteq Names
  BY DEF Drafts
<1>2. Len(d.rules) \in Nat /\ DOMAIN d.rules = 1..Len(d.rules) /\ \A i \in DOMAIN d.rules : d.rules[i] \in RulesType
  BY <1>1
<1>3. \A r \in RulesType : r.process \in Names /\ r.patterns \in Seq(Matches)
  BY DEF RulesType
<1> QED
  BY <1>1, <1>2, <1>3

(* Another rule in the place of one. *)
LEMMA OtherRule ==
  ASSUME NEW d \in Drafts, NEW i \in DOMAIN d.rules, NEW r \in RulesType,
         NEW e, e = [d EXCEPT !.rules[i] = r]
  PROVE  /\ e \in Drafts /\ e.expose = d.expose /\ DOMAIN e.rules = DOMAIN d.rules
         /\ e.rules[i] = r /\ \A j \in DOMAIN d.rules \ {i} : e.rules[j] = d.rules[j]
<1>1. e = [d EXCEPT !.rules = [d.rules EXCEPT ![i] = r]]
  OBVIOUS
<1>2. [d.rules EXCEPT ![i] = r] \in Seq(RulesType)
  BY DraftShape, ExceptSeq
<1>3. e.rules = [d.rules EXCEPT ![i] = r] /\ e.expose = d.expose /\ e \in Drafts
  BY <1>1, <1>2 DEF Drafts
<1> QED
  BY <1>3, DraftShape

LEMMA SetPatternsKeeps ==
  ASSUME NEW d \in Drafts, NEW i \in DOMAIN d.rules, NEW ps \in Seq(Matches)
  PROVE  Keeps(d, SetPatterns(d, i, ps))
<1> DEFINE r == [d.rules[i] EXCEPT !.patterns = ps]
<1>1. r \in RulesType /\ r.process = d.rules[i].process
  BY DraftShape DEF RulesType
<1>2. SetPatterns(d, i, ps) = [d EXCEPT !.rules[i] = r]
  BY DEF SetPatterns
<1> HIDE DEF r
<1> QED
  BY <1>1, <1>2, OtherRule DEF Keeps

LEMMA SetAppKeeps ==
  ASSUME NEW d \in Drafts, NEW i \in DOMAIN d.rules, NEW named \in BOOLEAN
  PROVE  Keeps(d, SetApp(d, i, named))
<1> DEFINE r == [d.rules[i] EXCEPT !.named = named]
<1>1. r \in RulesType /\ r.process = d.rules[i].process
  BY DraftShape DEF RulesType
<1>2. SetApp(d, i, named) = [d EXCEPT !.rules[i] = r]
  BY DEF SetApp
<1> HIDE DEF r
<1> QED
  BY <1>1, <1>2, OtherRule DEF Keeps

LEMMA AddRuleKeeps ==
  ASSUME NEW d \in Drafts, NEW p \in Names
  PROVE  Keeps(d, AddRule(d, NewRule(p)))
<1> DEFINE e == AddRule(d, NewRule(p))
<1>1. NewRule(p) \in RulesType
  BY DEF NewRule, RulesType
<1>2. /\ Append(d.rules, NewRule(p)) \in Seq(RulesType)
      /\ DOMAIN Append(d.rules, NewRule(p)) = 1..(Len(d.rules) + 1)
      /\ \A i \in DOMAIN d.rules : Append(d.rules, NewRule(p))[i] = d.rules[i]
  BY <1>1, DraftShape
<1>3. e.rules = Append(d.rules, NewRule(p)) /\ e.expose = d.expose /\ e \in Drafts
  BY <1>2 DEF AddRule, Drafts
<1> QED
  BY <1>2, <1>3, DraftShape, SMTT(30) DEF Keeps

(* What the buttons of a pattern's row do. *)
LEMMA PatternsStay ==
  ASSUME NEW d \in Drafts, NEW i \in DOMAIN d.rules, NEW m \in Matches
  PROVE  /\ Keeps(d, AddPattern(d, i, m))
         /\ \A j \in DOMAIN d.rules[i].patterns :
              /\ Keeps(d, SetMatch(d, i, j, m)) /\ Keeps(d, RemovePattern(d, i, j))
              /\ \A k \in DOMAIN d.rules[i].patterns : Keeps(d, MovePattern(d, i, j, k))
<1> DEFINE ps == d.rules[i].patterns
<1>1. ps \in Seq(Matches) /\ Len(ps) \in Nat /\ DOMAIN ps = 1..Len(ps)
  BY DraftShape
<1>2. Rule(d, i).patterns = ps
  BY DEF Rule
<1> HIDE DEF ps
<1>3. Append(ps, m) \in Seq(Matches)
  BY <1>1
<1>4. ASSUME NEW j \in DOMAIN ps
      PROVE  /\ [ps EXCEPT ![j] = m] \in Seq(Matches)
             /\ RemoveAt(ps, j) \in Seq(Matches) /\ Len(RemoveAt(ps, j)) = Len(ps) - 1
             /\ \A k \in DOMAIN ps : Moved(ps, j, k) \in Seq(Matches)
  <2>1. RemoveAt(ps, j) \in Seq(Matches) /\ Len(RemoveAt(ps, j)) = Len(ps) - 1
    BY <1>1, RemoveOne
  <2>4. ps[j] \in Matches
    BY <1>1
  <2>2. [ps EXCEPT ![j] = m] \in Seq(Matches)
    BY <1>1, ExceptSeq
  <2>3. ASSUME NEW k \in DOMAIN ps
        PROVE  Moved(ps, j, k) \in Seq(Matches)
    <3>1. k \in 1..(Len(RemoveAt(ps, j)) + 1)
      BY <1>1, <2>1
    <3> QED
      BY <2>1, <2>4, <3>1, InsertOne DEF Moved
  <2> QED
    BY <2>1, <2>2, <2>3
<1>5. Keeps(d, d)
  BY DEF Keeps
<1>6. Keeps(d, AddPattern(d, i, m))
  BY <1>2, <1>3, SetPatternsKeeps DEF AddPattern
<1>7. ASSUME NEW j \in DOMAIN ps
      PROVE  Keeps(d, SetMatch(d, i, j, m)) /\ Keeps(d, RemovePattern(d, i, j))
  BY <1>2, <1>4, SetPatternsKeeps DEF SetMatch, RemovePattern
<1>8. ASSUME NEW j \in DOMAIN ps, NEW k \in DOMAIN ps
      PROVE  Keeps(d, MovePattern(d, i, j, k))
  BY <1>2, <1>4, <1>5, SetPatternsKeeps DEF MovePattern
<1> QED
  BY <1>6, <1>7, <1>8 DEF ps

(* An exposure whose rule stays has a rule. *)
LEMMA RulesStay ==
  ASSUME NEW d \in Drafts, NEW e \in Drafts, NEW q, RulesOf(d, q) # {},
         \A i \in RulesOf(d, q) : \E j \in DOMAIN e.rules : e.rules[j].process = d.rules[i].process
  PROVE  RulesOf(e, q) # {}
BY DEF RulesOf, Rule, SameProcess

LEMMA InitIInv == Init => IInv
<1> SUFFICES ASSUME Init PROVE IInv
  OBVIOUS
<1>1. draft \in Drafts /\ Orphans(draft) = {}
  BY EditorAssumption DEF Init
<1> QED
  BY <1>1, NamesAssumption DEF Init, IInv, DialogOK, ExposedByConsent, OrphansByRename, Keyed

(* An edit that keeps the rules, and whatever does not edit. *)
LEMMA KeepsIInv ==
  ASSUME IInv, Keeps(draft, draft'), UNCHANGED <<consent, left>>,
         typed' \in Names, dialog' \in {dialog, None}
  PROVE  IInv'
<1>1. draft \in Drafts /\ draft' \in Drafts /\ draft'.expose = draft.expose
  BY DEF IInv, Keeps
<1>2. ASSUME NEW q, RulesOf(draft, q) # {}
      PROVE  RulesOf(draft', q) # {}
  <2>1. \A i \in RulesOf(draft, q) : \E j \in DOMAIN (draft').rules : (draft').rules[j].process = draft.rules[i].process
    BY DEF Keeps, RulesOf
  <2> QED
    BY <1>1, <1>2, <2>1 DEF RulesOf, Rule, SameProcess
<1>3. DialogOK'
  BY <1>2 DEF IInv, DialogOK
<1>4. ExposedByConsent'
  BY <1>1 DEF IInv, ExposedByConsent
<1>5. OrphansByRename'
  BY <1>1, <1>2 DEF IInv, OrphansByRename, Orphans, Keyed
<1> QED
  BY <1>1, <1>3, <1>4, <1>5 DEF IInv

(* A name in the field is replaced: what it exposed may be orphaned. *)
LEMMA EditProcessIInv ==
  ASSUME IInv, NEW i \in DOMAIN draft.rules, NEW p \in Names, EditProcess(i, p)
  PROVE  IInv'
<1> DEFINE r == [draft.rules[i] EXCEPT !.process = p]
           old == draft.rules[i].process
<1>1. draft \in Drafts /\ r \in RulesType
  BY DraftShape DEF IInv, RulesType
<1>2. draft' = [draft EXCEPT !.rules[i] = r]
  BY DEF EditProcess, Edit, Show, SetProcess
<1>3. r.process = p
  BY <1>1, DraftShape DEF RulesType
<1> HIDE DEF r
<1>4. /\ draft' \in Drafts /\ draft'.expose = draft.expose /\ DOMAIN (draft').rules = DOMAIN draft.rules
      /\ (draft').rules[i] = r /\ \A j \in DOMAIN draft.rules \ {i} : (draft').rules[j] = draft.rules[j]
  BY <1>1, <1>2, OtherRule
<1>5. /\ dialog = None /\ dialog' = None /\ typed' = typed /\ consent' = consent
      /\ left' = IF SameProcess(p, old) THEN left ELSE left \cup {Normal(old)}
  BY DEF EditProcess, InForm, Rule
<1>6. DialogOK'
  BY <1>5 DEF IInv, DialogOK
<1>7. ExposedByConsent'
  BY <1>4, <1>5 DEF IInv, ExposedByConsent
<1>8. ASSUME NEW q \in draft.expose, RulesOf(draft', q) = {}, RulesOf(draft, q) # {}
      PROVE  Normal(q) \in left'
  <2>1. PICK j \in DOMAIN draft.rules : Normal(draft.rules[j].process) = Normal(q)
    BY <1>8 DEF RulesOf, Rule, SameProcess
  <2>2. j = i /\ Normal(p) # Normal(q)
    BY <1>3, <1>4, <1>8, <2>1 DEF RulesOf, Rule, SameProcess
  <2> QED
    BY <1>5, <2>1, <2>2 DEF SameProcess
<1>9. OrphansByRename'
  BY <1>4, <1>5, <1>8 DEF IInv, OrphansByRename, Orphans, Keyed
<1> QED
  BY <1>4, <1>6, <1>7, <1>9 DEF IInv

(* A rule goes, and its exposure with it. *)
LEMMA PressRemoveIInv ==
  ASSUME IInv, NEW i \in DOMAIN draft.rules, PressRemove(i)
  PROVE  IInv'
<1> DEFINE p == draft.rules[i].process
<1>1. /\ draft \in Drafts /\ draft.rules \in Seq(RulesType) /\ draft.expose \subseteq Names
      /\ Len(draft.rules) \in Nat /\ DOMAIN draft.rules = 1..Len(draft.rules)
  BY DraftShape DEF IInv
<1>2. (draft').rules = RemoveAt(draft.rules, i) /\ draft'.expose = Without(draft, p)
  BY DEF PressRemove, Edit, Show, RemoveRule, Rule
<1>3. draft' \in Drafts
  <2>1. draft' = [rules |-> RemoveAt(draft.rules, i), expose |-> Without(draft, p)]
    BY DEF PressRemove, Edit, Show, RemoveRule, Rule
  <2>2. RemoveAt(draft.rules, i) \in Seq(RulesType) /\ Without(draft, p) \subseteq Names
    BY <1>1, RemoveOne DEF Without
  <2> QED
    BY <2>1, <2>2 DEF Drafts
<1>4. ASSUME NEW j \in DOMAIN draft.rules, j # i
      PROVE  \E k \in DOMAIN (draft').rules : (draft').rules[k] = draft.rules[j]
  <2>1. /\ RemoveAt(draft.rules, i) \in Seq(RulesType)
        /\ Len(RemoveAt(draft.rules, i)) = Len(draft.rules) - 1
        /\ \A k \in 1..(Len(draft.rules) - 1) :
             RemoveAt(draft.rules, i)[k] = IF k < i THEN draft.rules[k] ELSE draft.rules[k + 1]
    BY <1>1, RemoveOne
  <2>2. DOMAIN RemoveAt(draft.rules, i) = 1..(Len(draft.rules) - 1)
    BY <1>1, <2>1
  <2>3. CASE j < i
    BY <1>1, <1>2, <2>1, <2>2, <2>3
  <2>4. CASE ~(j < i)
    <3>1. j - 1 \in 1..(Len(draft.rules) - 1) /\ RemoveAt(draft.rules, i)[j - 1] = draft.rules[j]
      BY <1>1, <1>4, <2>1, <2>4
    <3> QED
      BY <1>2, <2>2, <3>1
  <2> QED
    BY <2>3, <2>4
<1>5. dialog = None /\ dialog' = None /\ typed' = typed /\ left' = left /\ consent' = consent \ {Normal(p)}
  BY DEF PressRemove, InForm, Rule
<1>6. DialogOK'
  BY <1>5 DEF IInv, DialogOK
<1>7. ExposedByConsent'
  BY <1>2, <1>5 DEF IInv, ExposedByConsent, Keyed, Without, SameProcess
<1>8. ASSUME NEW q \in draft'.expose, RulesOf(draft', q) = {}
      PROVE  q \in draft.expose /\ RulesOf(draft, q) = {}
  <2>1. q \in draft.expose /\ Normal(q) # Normal(p)
    BY <1>2 DEF Without, SameProcess
  <2> QED
    BY <1>4, <1>8, <2>1 DEF RulesOf, Rule, SameProcess
<1>9. OrphansByRename'
  BY <1>5, <1>8 DEF IInv, OrphansByRename, Orphans, Keyed
<1> QED
  BY <1>3, <1>6, <1>7, <1>9 DEF IInv

(* The switch is thrown, one way or the other: the rules stay. *)
LEMMA SwitchesDraft ==
  ASSUME NEW d \in Drafts, NEW p \in Names, NEW on \in BOOLEAN,
         NEW e, e = SetExposeTitle(d, p, on)
  PROVE  /\ e \in Drafts /\ e.rules = d.rules
         /\ e.expose = Without(d, p) \cup (IF on THEN {p} ELSE {})
<1>1. Without(d, p) \cup (IF on THEN {p} ELSE {}) \in SUBSET Names
  BY DraftShape DEF Without
<1> QED
  BY <1>1 DEF SetExposeTitle, Drafts

(* Only what has a rule is switched on, so no new orphan comes about. *)
LEMMA SwitchOrphans ==
  ASSUME IInv, NEW p \in Names, NEW on \in BOOLEAN, on => RulesOf(draft, p) # {},
         draft' = SetExposeTitle(draft, p, on), left' = left
  PROVE  /\ draft' \in Drafts /\ OrphansByRename'
         /\ (draft').expose = Without(draft, p) \cup (IF on THEN {p} ELSE {})
<1>1. draft \in Drafts
  BY DEF IInv
<1>2. /\ draft' \in Drafts /\ (draft').rules = draft.rules
      /\ (draft').expose = Without(draft, p) \cup (IF on THEN {p} ELSE {})
  BY <1>1, SwitchesDraft
<1>3. ASSUME NEW q PROVE RulesOf(draft', q) = RulesOf(draft, q)
  BY <1>2 DEF RulesOf, Rule
<1>4. ASSUME NEW q \in (draft').expose, RulesOf(draft', q) = {}
      PROVE  q \in draft.expose /\ RulesOf(draft, q) = {}
  BY <1>2, <1>3, <1>4 DEF Without
<1>5. Orphans(draft') \subseteq Orphans(draft)
  BY <1>4 DEF Orphans
<1>6. OrphansByRename'
  BY <1>5 DEF IInv, OrphansByRename, Keyed
<1> QED
  BY <1>2, <1>6

LEMMA ConfirmIInv == IInv /\ Confirm => IInv'
<1> SUFFICES ASSUME IInv, Confirm PROVE IInv'
  OBVIOUS
<1>1. PICK p \in Names : p = dialog /\ Normal(typed) = Normal(p) /\ RulesOf(draft, p) # {}
  BY DEF Confirm, ConfirmationMatches, SameProcess, IInv, DialogOK
<1>2. /\ draft' = SetExposeTitle(draft, p, TRUE)
      /\ consent' = consent \cup {Normal(p)} /\ left' = left /\ dialog' = None /\ typed' = Blank
  BY <1>1 DEF Confirm, Show, CloseDialog
<1>3. draft' \in Drafts /\ OrphansByRename' /\ (draft').expose = Without(draft, p) \cup {p}
  BY <1>1, <1>2, SwitchOrphans
<1>4. DialogOK'
  BY <1>2, NamesAssumption DEF DialogOK
<1>5. ExposedByConsent'
  BY <1>2, <1>3 DEF IInv, ExposedByConsent, Keyed, Without, SameProcess
<1> QED
  BY <1>3, <1>4, <1>5 DEF IInv

LEMMA SwitchOffIInv ==
  ASSUME IInv, NEW i \in DOMAIN draft.rules, SwitchOff(i)
  PROVE  IInv'
<1>1. PICK p \in Names : p = draft.rules[i].process
  BY DraftShape DEF IInv
<1>2. /\ draft' = SetExposeTitle(draft, p, FALSE)
      /\ consent' = consent \ {Normal(p)} /\ left' = left /\ UNCHANGED <<dialog, typed>> /\ dialog = None
  BY <1>1 DEF SwitchOff, Edit, Show, InForm, Rule
<1>3. draft' \in Drafts /\ OrphansByRename' /\ (draft').expose = Without(draft, p)
  BY <1>2, SwitchOrphans
<1>4. DialogOK'
  BY <1>2 DEF IInv, DialogOK
<1>5. ExposedByConsent'
  BY <1>2, <1>3 DEF IInv, ExposedByConsent, Keyed, Without, SameProcess
<1> QED
  BY <1>3, <1>4, <1>5 DEF IInv

(* The steps that edit nothing. *)
LEMMA QuietIInv ==
  ASSUME IInv, draft' = draft, UNCHANGED <<consent, left>>, typed' \in Names, dialog' \in {dialog, None}
  PROVE  IInv'
BY KeepsIInv DEF Keeps, IInv

LEMMA OpenDialogIInv ==
  ASSUME IInv, NEW i \in DOMAIN draft.rules, OpenDialog(i)
  PROVE  IInv'
<1>1. /\ draft' = draft /\ UNCHANGED <<consent, left>> /\ typed' = Blank
      /\ dialog' = draft.rules[i].process
  BY DEF OpenDialog, Rule
<1>2. draft.rules[i].process \in Names /\ RulesOf(draft, draft.rules[i].process) # {}
  BY DraftShape DEF IInv, RulesOf, Rule, SameProcess
<1>3. DialogOK'
  BY <1>1, <1>2, NamesAssumption DEF DialogOK, RulesOf, Rule
<1> QED
  BY <1>1, <1>3 DEF IInv, ExposedByConsent, OrphansByRename, Orphans, Keyed, RulesOf, Rule

LEMMA CardIInv ==
  ASSUME IInv, NEW i \in DOMAIN draft.rules, CardStep(i)
  PROVE  IInv'
<1>1. draft \in Drafts
  BY DEF IInv
<1>2. ASSUME NEW e, Keeps(draft, e), Edit(e), InForm, UNCHANGED <<consent, left>>
      PROVE  IInv'
  <2>1. draft' = e /\ typed' \in Names /\ dialog' = dialog
    BY <1>2 DEF Edit, Show, InForm, IInv, DialogOK
  <2> QED
    BY <1>2, <2>1, KeepsIInv
<1>3. CASE EditApp(i)
  <2>1. (~Rule(draft, i).named) \in BOOLEAN
    OBVIOUS
  <2> QED
    BY <1>1, <1>2, <1>3, <2>1, SetAppKeeps DEF EditApp
<1>4. CASE PressAddPattern(i)
  BY <1>1, <1>2, <1>4, PatternsStay, MatchesAssumption DEF PressAddPattern
<1>5. ASSUME NEW j \in DOMAIN Rule(draft, i).patterns, EditRow(i, j)
      PROVE  IInv'
  <2>1. /\ draft.rules[i].patterns \in Seq(Matches) /\ Len(draft.rules[i].patterns) \in Nat
        /\ DOMAIN draft.rules[i].patterns = 1..Len(draft.rules[i].patterns)
        /\ j \in DOMAIN draft.rules[i].patterns /\ NoMatch \in Matches
    BY <1>1, DraftShape, MatchesAssumption DEF Rule
  <2>2. ASSUME NEW k \in DOMAIN draft.rules[i].patterns
        PROVE  Keeps(draft, MovePattern(draft, i, j, k)) /\ Keeps(draft, RemovePattern(draft, i, j))
    BY <1>1, <2>1, PatternsStay
  <2>3. ASSUME NEW m \in Matches PROVE Keeps(draft, SetMatch(draft, i, j, m))
    BY <1>1, <2>1, PatternsStay
  <2>4. \/ \E m \in Matches : Edit(SetMatch(draft, i, j, m))
        \/ \E k \in DOMAIN draft.rules[i].patterns : Edit(MovePattern(draft, i, j, k))
        \/ Edit(RemovePattern(draft, i, j))
    <3>1. /\ j # 1 => j - 1 \in DOMAIN draft.rules[i].patterns
          /\ j # Len(draft.rules[i].patterns) => j + 1 \in DOMAIN draft.rules[i].patterns
      BY <2>1
    <3> QED
      BY <1>5, <3>1 DEF EditRow, RowAction, Rule
  <2>5. InForm /\ UNCHANGED <<consent, left>>
    BY <1>5 DEF EditRow
  <2> QED
    BY <1>2, <2>1, <2>2, <2>3, <2>4, <2>5
<1> QED
  BY <1>3, <1>4, <1>5, EditProcessIInv, PressRemoveIInv DEF CardStep

LEMMA StepIInv == IInv /\ [Next]_vars => IInv'
<1> SUFFICES ASSUME IInv, [Next]_vars PROVE IInv'
  OBVIOUS
<1>1. draft \in Drafts /\ typed \in Names
  BY DEF IInv, DialogOK
<1>2. ASSUME NEW p \in Names, InForm, Edit(AddRule(draft, NewRule(p))), UNCHANGED <<consent, left>>
      PROVE  IInv'
  <2>1. draft' = AddRule(draft, NewRule(p)) /\ typed' \in Names /\ dialog' = dialog
    BY <1>1, <1>2 DEF Edit, Show, InForm
  <2> QED
    BY <1>1, <1>2, <2>1, AddRuleKeeps, KeepsIInv
<1>3. CASE AddByHand
  BY <1>2, <1>3, NamesAssumption DEF AddByHand
<1>4. ASSUME NEW i \in DOMAIN draft.rules, SwitchStep(i)
      PROVE  IInv'
  BY <1>4, OpenDialogIInv, SwitchOffIInv DEF SwitchStep
<1>5. CASE DialogStep
  <2>1. ASSUME NEW t \in Names, Type(t)
        PROVE  IInv'
    BY <2>1, QuietIInv DEF Type
  <2>2. CASE CancelDialog
    BY <2>2, QuietIInv, NamesAssumption DEF CancelDialog, CloseDialog
  <2>3. CASE PollTitles
    BY <1>1, <2>3, QuietIInv DEF PollTitles
  <2> QED
    BY <1>5, <2>1, <2>2, <2>3, ConfirmIInv DEF DialogStep
<1>6. ASSUME NEW p \in Found, PressAddRule(p) \/ PressAddSample(p)
      PROVE  IInv'
  <2>1. p \in Names
    BY EditorAssumption
  <2>2. CASE PressAddRule(p)
    BY <1>2, <2>1, <2>2 DEF PressAddRule
  <2>3. CASE PressAddSample(p)
    BY <1>1, <2>3, QuietIInv DEF PressAddSample, InForm
  <2> QED
    BY <1>6, <2>2, <2>3
<1>7. CASE AskTest
  BY <1>1, <1>7, QuietIInv DEF AskTest
<1>8. ASSUME NEW i \in DOMAIN asked, TestAnswered(i) \/ TitlesAnswered(i)
      PROVE  IInv'
  BY <1>1, <1>8, QuietIInv DEF TestAnswered, TitlesAnswered
<1>9. ASSUME NEW i \in DOMAIN asked, SuggestAnswered(i)
      PROVE  IInv'
  <2>1. UNCHANGED <<dialog, typed, consent, left>>
    BY <1>9 DEF SuggestAnswered
  <2>2. Keeps(draft, draft')
    <3>1. Keeps(draft, draft)
      BY <1>1 DEF Keeps
    <3>2. {Suggested, NoMatch} \subseteq Matches
      BY EditorAssumption, MatchesAssumption
    <3>3. \A h \in Home(asked[i].process) : h \in DOMAIN draft.rules
      BY DEF Home, FirstOf, RulesOf
    <3> QED
      BY <1>1, <1>9, <3>1, <3>2, <3>3, PatternsStay DEF SuggestAnswered, Show
  <2> QED
    BY <1>1, <2>1, <2>2, KeepsIInv
<1>10. CASE UNCHANGED vars
  BY <1>1, <1>10, QuietIInv DEF vars
<1> QED
  BY <1>3, <1>4, <1>5, <1>6, <1>7, <1>8, <1>9, <1>10, CardIInv DEF Next, PanelStep, AnswerStep

(* However the form is clicked through and whatever the agent answers late,  *)
(* raw titles are published of exactly the names the user has typed in the   *)
(* dialog and neither switched off nor removed since (DangerZone, rules.ts). *)
THEOREM TitlesByConsent == Spec => []ExposedByConsent
<1>1. IInv => ExposedByConsent
  BY DEF IInv
<1> QED
  BY <1>1, InitIInv, StepIInv, PTL DEF Spec

(* Only the renaming of a rule leaves an exposure without one, which the     *)
(* agent then refuses the draft for (mapping.New).                           *)
THEOREM RenamingOrphans == Spec => []OrphansByRename
<1>1. IInv => OrphansByRename
  BY DEF IInv
<1> QED
  BY <1>1, InitIInv, StepIInv, PTL DEF Spec

----------------------------------------------------------------------------
(* What has been asked and not yet answered is still of use.                *)

Tests == {r \in Requests : r.by = "test"}
Titles == {r \in Requests : r.by = "titles"}

TestsFresh ==
    /\ debounce => Tested(draft)
    /\ \A r \in ToSet(asked) \cap Tests : Tested(draft) /\ <<r.match, r.process>> = Row(draft)
    /\ Tested(draft) /\ hint # None =>
          hint = Row(draft) \/ debounce \/ ToSet(asked) \cap Tests # {}

TitlesFresh ==
    /\ \A r \in ToSet(asked) \cap Titles : r.process = dialog
    /\ samples \in {None, Blank, dialog}

RowTyped ==
    /\ hint \in ((Matches \ {NoMatch}) \X Names) \cup {None}
    /\ debounce \in BOOLEAN
    /\ asked \in Seq(Requests)

DialogTyped ==
    /\ dialog \in (Names \ {Blank}) \cup {None}
    /\ samples \in Names \cup {None}

HistoryTyped ==
    /\ failed \in BOOLEAN
    /\ {consent, left} \subseteq SUBSET Keyed(Names)
    /\ edits \in 0..MaxEdits

FormInv ==
    IInv /\ RowTyped /\ DialogTyped /\ HistoryTyped /\ TestsFresh /\ TitlesFresh

LEMMA RowIs ==
  ASSUME NEW d \in Drafts
  PROVE  /\ Row(d) \in (Matches \X Names) \cup {None}
         /\ Tested(d) => Row(d) \in (Matches \ {NoMatch}) \X Names /\ Row(d) # None
<1>1. d.rules \in Seq(RulesType)
  BY DraftShape
<1>2. CASE d.rules # <<>> /\ Rule(d, 1).patterns # <<>>
  <2>1. 1 \in DOMAIN d.rules
    BY <1>1, <1>2
  <2>2. d.rules[1].process \in Names /\ d.rules[1].patterns \in Seq(Matches)
    BY <2>1, DraftShape
  <2>3. d.rules[1].patterns[1] \in Matches
    BY <1>2, <2>2 DEF Rule
  <2>4. Row(d) = <<d.rules[1].patterns[1], d.rules[1].process>>
    BY <1>2 DEF Row, Rule
  <2> QED
    BY <2>2, <2>3, <2>4, EditorAssumption DEF Tested
<1>3. CASE ~(d.rules # <<>> /\ Rule(d, 1).patterns # <<>>)
  <2>1. Row(d) = None
    BY <1>3 DEF Row
  <2> QED
    BY <2>1 DEF Tested
<1> QED
  BY <1>2, <1>3

LEMMA CancelIs ==
  ASSUME NEW s \in Seq(Requests), NEW by
  PROVE  Cancel(s, by) \in Seq(Requests) /\ ToSet(Cancel(s, by)) = {r \in ToSet(s) : r.by # by}
<1>1. /\ Cancel(s, by) \in Seq(Requests)
      /\ ToSet(Cancel(s, by)) = ToSet(s) \cap {r \in Requests : r.by # by}
  BY SetOfKept DEF Cancel
<1>2. ToSet(s) \subseteq Requests
  BY DEF ToSet
<1> QED
  BY <1>1, <1>2

LEMMA RequestIs ==
  ASSUME NEW by \in {"test", "titles", "suggest"}, NEW p \in Names, NEW m \in Matches
  PROVE  /\ Request(by, p, m) \in Requests
         /\ Request(by, p, m).by = by /\ Request(by, p, m).process = p /\ Request(by, p, m).match = m
BY DEF Request, Requests

(* Whatever draft is shown, what is still asked fits it; every test that was *)
(* under way may be among the requests that are left.                        *)
LEMMA ShowFresh ==
  ASSUME RowTyped, TestsFresh, draft \in Drafts, NEW d \in Drafts, NEW s \in Seq(Requests), Show(d, s),
         ToSet(s) \subseteq ToSet(asked), ToSet(asked) \cap Tests \subseteq ToSet(s)
  PROVE  RowTyped' /\ TestsFresh' /\ ToSet(asked') \subseteq ToSet(s)
<1>1. draft' = d
  BY DEF Show
<1>2. CASE Row(d) = Row(draft)
  <2>1. asked' = s /\ UNCHANGED <<hint, debounce>>
    BY <1>2 DEF Show
  <2>2. Tested(d) <=> Tested(draft)
    BY <1>2 DEF Tested
  <2>3. ToSet(asked') \cap Tests = ToSet(asked) \cap Tests
    BY <2>1
  <2>4. RowTyped'
    BY <2>1 DEF RowTyped
  <2>5. TestsFresh'
    BY <1>1, <1>2, <2>1, <2>2, <2>3 DEF TestsFresh
  <2> QED
    BY <2>1, <2>4, <2>5
<1>3. CASE Row(d) # Row(draft)
  <2>1. /\ asked' = Cancel(s, "test") /\ debounce' = Tested(d)
        /\ hint' = IF Tested(d) /\ Row(draft) # None THEN hint ELSE None
    BY <1>3 DEF Show
  <2>2. asked' \in Seq(Requests) /\ ToSet(asked') = {r \in ToSet(s) : r.by # "test"}
    BY <2>1, CancelIs
  <2>3. ToSet(asked') \cap Tests = {}
    BY <2>2 DEF Tests
  <2>4. debounce' \in BOOLEAN
    BY <2>1 DEF Tested
  <2>5. RowTyped'
    BY <2>1, <2>2, <2>4 DEF RowTyped
  <2>6. TestsFresh'
    BY <1>1, <2>1, <2>3 DEF TestsFresh
  <2> QED
    BY <2>2, <2>5, <2>6
<1> QED
  BY <1>2, <1>3

LEMMA InitFormInv == Init => FormInv
<1> SUFFICES ASSUME Init PROVE FormInv
  OBVIOUS
<1>1. draft \in Drafts /\ draft.expose \subseteq Names
  BY EditorAssumption, DraftShape DEF Init
<1>2. asked = <<>> /\ ToSet(asked) = {}
  BY DEF Init, ToSet
<1>3. debounce \in BOOLEAN
  BY DEF Init, Tested
<1>4. RowTyped
  BY <1>2, <1>3 DEF Init, RowTyped
<1>5. DialogTyped
  BY DEF Init, DialogTyped
<1>6. HistoryTyped
  <2>1. Keyed(draft.expose) \subseteq Keyed(Names)
    BY <1>1 DEF Keyed
  <2>2. consent = Keyed(draft.expose) /\ left = {} /\ failed = FALSE
    BY DEF Init
  <2>3. edits \in 0..MaxEdits
    BY EditorAssumption DEF Init
  <2> QED
    BY <2>1, <2>2, <2>3, Zenon DEF HistoryTyped
<1>7. TestsFresh
  BY <1>2 DEF Init, TestsFresh
<1>8. TitlesFresh
  BY <1>2 DEF Init, TitlesFresh
<1> QED
  BY <1>4, <1>5, <1>6, <1>7, <1>8, InitIInv DEF FormInv

(* The user edits while no dialog is open. *)
LEMMA EditFresh ==
  ASSUME FormInv, NEW d \in Drafts, Edit(d), InForm
  PROVE  RowTyped' /\ DialogTyped' /\ TestsFresh' /\ TitlesFresh' /\ failed' \in BOOLEAN
         /\ edits' \in 0..MaxEdits
<1>1. /\ draft \in Drafts /\ asked \in Seq(Requests) /\ Show(d, asked)
      /\ UNCHANGED <<dialog, samples, failed>>
  BY DEF FormInv, IInv, RowTyped, Edit, InForm
<1>2. RowTyped' /\ TestsFresh' /\ ToSet(asked') \subseteq ToSet(asked)
  BY <1>1, ShowFresh DEF FormInv
<1>3. DialogTyped'
  BY <1>1 DEF FormInv, DialogTyped
<1>4. TitlesFresh'
  BY <1>1, <1>2 DEF FormInv, TitlesFresh
<1>5. failed' \in BOOLEAN
  BY <1>1 DEF FormInv, HistoryTyped
<1>6. edits' \in 0..MaxEdits
  BY EditorAssumption DEF FormInv, HistoryTyped, Edit
<1> QED
  BY <1>2, <1>3, <1>4, <1>5, <1>6

(* A request is sent. *)
LEMMA AskFresh ==
  ASSUME FormInv, NEW r \in Requests, asked' = Append(asked, r), UNCHANGED <<draft, hint>>,
         debounce' => debounce, debounce /\ ~debounce' => r \in Tests,
         r \in Tests => Tested(draft) /\ <<r.match, r.process>> = Row(draft),
         debounce' \in BOOLEAN,
         \A q \in ToSet(asked) \cap Titles : q.process = dialog',
         r \in Titles => r.process = dialog',
         samples' \in {None, Blank, dialog'}
  PROVE  RowTyped' /\ TestsFresh' /\ TitlesFresh'
<1>1. asked' \in Seq(Requests) /\ ToSet(asked') = ToSet(asked) \cup {r}
  BY SetOfAdded DEF FormInv, RowTyped
<1>2. RowTyped'
  BY <1>1 DEF FormInv, RowTyped
<1>3. TestsFresh'
  BY <1>1 DEF FormInv, TestsFresh
<1>4. TitlesFresh'
  BY <1>1 DEF TitlesFresh
<1> QED
  BY <1>2, <1>3, <1>4

(* A request is answered, and nothing else comes of it on the form. *)
LEMMA AnsweredFresh ==
  ASSUME FormInv, NEW i \in DOMAIN asked, asked' = RemoveAt(asked, i), UNCHANGED <<draft, debounce>>,
         \/ asked[i] \notin Tests /\ hint' = hint
         \/ asked[i] \in Tests /\ hint' \in {None, <<asked[i].match, asked[i].process>>}
  PROVE  RowTyped' /\ TestsFresh' /\ ToSet(asked') \subseteq ToSet(asked)
<1>1. /\ asked' \in Seq(Requests) /\ ToSet(asked') \subseteq ToSet(asked)
      /\ ToSet(asked) \ {asked[i]} \subseteq ToSet(asked')
  BY SetOfRemoved DEF FormInv, RowTyped
<1>2. asked[i] \in ToSet(asked) /\ draft \in Drafts
  BY DEF ToSet, FormInv, IInv
<1>3. asked[i] \in Tests => Tested(draft) /\ <<asked[i].match, asked[i].process>> = Row(draft)
  BY <1>2 DEF FormInv, TestsFresh
<1>4. hint' = hint \/ hint' = None \/ (Tested(draft) /\ hint' = Row(draft))
  BY <1>3
<1>5. RowTyped'
  BY <1>1, <1>2, <1>4, RowIs DEF FormInv, RowTyped
<1>6. asked[i] \notin Tests => ToSet(asked') \cap Tests = ToSet(asked) \cap Tests
  BY <1>1
<1>7. asked[i] \in Tests => hint' = None \/ hint' = Row(draft)
  BY <1>3
<1>8. TestsFresh'
  BY <1>1, <1>6, <1>7 DEF FormInv, TestsFresh
<1> QED
  BY <1>1, <1>5, <1>8

LEMMA StepTestsTitles ==
  ASSUME FormInv, IInv', [Next]_vars
  PROVE  RowTyped' /\ DialogTyped' /\ TestsFresh' /\ TitlesFresh' /\ failed' \in BOOLEAN
         /\ edits' \in 0..MaxEdits
<1> DEFINE Goal == RowTyped' /\ DialogTyped' /\ TestsFresh' /\ TitlesFresh' /\ failed' \in BOOLEAN
                   /\ edits' \in 0..MaxEdits
<1> SUFFICES Goal
  BY DEF Goal
<1> HIDE DEF Goal
<1>1. /\ draft \in Drafts /\ draft' \in Drafts /\ asked \in Seq(Requests) /\ typed \in Names
      /\ NoMatch \in Matches /\ Blank \in Names /\ None \notin Names /\ failed \in BOOLEAN
      /\ edits \in 0..MaxEdits /\ MaxEdits \in Nat
  BY EditorAssumption, NamesAssumption, MatchesAssumption
  DEF IInv, FormInv, DialogOK, RowTyped, HistoryTyped
<1>2. ASSUME NEW r \in ToSet(asked) PROVE r \in Requests /\ r.process \in Names
  <2>1. r \in Requests
    BY <1>1 DEF ToSet
  <2> QED
    BY <2>1 DEF Requests
<1>3. ASSUME NEW d, Edit(d), InForm PROVE Goal
  <2>1. d \in Drafts
    BY <1>1, <1>3 DEF Edit, Show
  <2> QED
    BY <1>3, <2>1, EditFresh DEF Goal
<1>4. CASE AddByHand
  <2>1. PICK d : d = AddRule(draft, NewRule(Blank))
    OBVIOUS
  <2>2. Edit(d) /\ InForm
    BY <1>4, <2>1 DEF AddByHand
  <2> QED
    BY <1>3, <2>2
<1>5. ASSUME NEW i \in DOMAIN draft.rules, CardStep(i) PROVE Goal
  BY <1>3, <1>5 DEF CardStep, EditProcess, EditApp, PressRemove, PressAddPattern, EditRow, RowAction
<1>6. ASSUME NEW i \in DOMAIN draft.rules, SwitchOff(i) PROVE Goal
  BY <1>3, <1>6 DEF SwitchOff
<1>7. ASSUME NEW i \in DOMAIN draft.rules, OpenDialog(i) PROVE Goal
  <2>1. PICK p \in Names : p = Rule(draft, i).process /\ p # Blank
    BY <1>1, <1>7, DraftShape, NamesAssumption DEF OpenDialog, Switch, Rule
  <2>2. PICK r \in Requests : r = Request("titles", p, NoMatch) /\ r.by = "titles" /\ r.process = p
    BY <1>1, RequestIs
  <2>3. /\ asked' = Append(asked, r) /\ UNCHANGED <<draft, hint, debounce, failed, edits>>
        /\ dialog = None /\ dialog' = p /\ samples' = None
    BY <1>7, <2>1, <2>2 DEF OpenDialog
  <2>4. ToSet(asked) \cap Titles = {}
    BY <1>1, <1>2, <2>3 DEF FormInv, TitlesFresh
  <2>5. r \notin Tests /\ debounce \in BOOLEAN
    BY <2>2 DEF Tests, FormInv, RowTyped
  <2>6. RowTyped' /\ TestsFresh' /\ TitlesFresh'
    BY <2>2, <2>3, <2>4, <2>5, AskFresh
  <2>7. DialogTyped'
    BY <2>1, <2>3 DEF DialogTyped
  <2> QED
    BY <1>1, <2>3, <2>6, <2>7 DEF Goal
<1>8. ASSUME NEW t \in Names, Type(t) PROVE Goal
  BY <1>1, <1>8 DEF Goal, Type, FormInv, RowTyped, DialogTyped, TestsFresh, TitlesFresh
<1>9. ASSUME dialog' = None, samples' = None, ToSet(asked') \subseteq ToSet(asked) \ Titles
      PROVE  DialogTyped' /\ TitlesFresh'
  BY <1>9 DEF DialogTyped, TitlesFresh
<1>10. /\ Cancel(asked, "titles") \in Seq(Requests)
       /\ ToSet(Cancel(asked, "titles")) \subseteq ToSet(asked) \ Titles
       /\ ToSet(asked) \cap Tests \subseteq ToSet(Cancel(asked, "titles"))
  BY <1>1, CancelIs DEF Titles, Tests
<1>11. CASE Confirm
  <2>1. Show(draft', Cancel(asked, "titles")) /\ dialog' = None /\ samples' = None /\ failed' = failed
    BY <1>11 DEF Confirm, CloseDialog, Show
  <2>2. RowTyped' /\ TestsFresh' /\ ToSet(asked') \subseteq ToSet(asked) \ Titles
    BY <1>1, <1>10, <2>1, ShowFresh DEF FormInv
  <2>3. edits' \in 0..MaxEdits
    BY <1>1, <1>11 DEF Confirm
  <2> QED
    BY <1>1, <1>9, <2>1, <2>2, <2>3 DEF Goal
<1>12. CASE CancelDialog
  <2>1. /\ asked' = Cancel(asked, "titles") /\ dialog' = None /\ samples' = None
        /\ UNCHANGED <<draft, hint, debounce, failed, edits>>
    BY <1>12 DEF CancelDialog, CloseDialog
  <2>2. ToSet(asked') \cap Tests = ToSet(asked) \cap Tests
    BY <1>10, <2>1
  <2>3. RowTyped' /\ TestsFresh'
    BY <1>10, <2>1, <2>2 DEF FormInv, RowTyped, TestsFresh
  <2> QED
    BY <1>1, <1>9, <1>10, <2>1, <2>3 DEF Goal
<1>13. CASE PollTitles
  <2>1. dialog \in Names /\ dialog # None
    BY <1>1, <1>13 DEF PollTitles, FormInv, DialogTyped
  <2>2. PICK r \in Requests : r = Request("titles", dialog, NoMatch) /\ r.by = "titles" /\ r.process = dialog
    BY <1>1, <2>1, RequestIs
  <2>3. asked' = Append(asked, r) /\ UNCHANGED <<draft, hint, debounce, failed, edits, dialog, samples>>
    BY <1>13, <2>2 DEF PollTitles
  <2>4. r \notin Tests /\ debounce \in BOOLEAN
    BY <2>2 DEF Tests, FormInv, RowTyped
  <2>5. RowTyped' /\ TestsFresh' /\ TitlesFresh'
    BY <2>2, <2>3, <2>4, AskFresh DEF FormInv, TitlesFresh
  <2>6. DialogTyped'
    BY <2>3 DEF FormInv, DialogTyped
  <2> QED
    BY <1>1, <2>3, <2>5, <2>6 DEF Goal
<1>14. ASSUME NEW p \in Found, PressAddRule(p) PROVE Goal
  BY <1>3, <1>14 DEF PressAddRule
<1>15. ASSUME NEW p \in Found, PressAddSample(p) PROVE Goal
  <2>1. p \in Names
    BY EditorAssumption
  <2>2. PICK r \in Requests : r = Request("suggest", p, NoMatch) /\ r.by = "suggest"
    BY <1>1, <2>1, RequestIs
  <2>3. /\ asked' = Append(asked, r) /\ UNCHANGED <<draft, hint, debounce, failed, dialog, samples>>
        /\ edits' = edits + 1 /\ edits < MaxEdits
    BY <1>15, <2>2 DEF PressAddSample, InForm
  <2>4. r \notin Tests /\ r \notin Titles /\ debounce \in BOOLEAN
    BY <2>2 DEF Tests, Titles, FormInv, RowTyped
  <2>5. RowTyped' /\ TestsFresh' /\ TitlesFresh'
    BY <2>2, <2>3, <2>4, AskFresh DEF FormInv, TitlesFresh
  <2>6. DialogTyped'
    BY <2>3 DEF FormInv, DialogTyped
  <2> QED
    BY <1>1, <2>3, <2>5, <2>6 DEF Goal
<1>16. CASE AskTest
  <2>1. Tested(draft)
    BY <1>16 DEF AskTest, FormInv, TestsFresh
  <2>2. PICK m \in Matches, p \in Names : Row(draft) = <<m, p>>
    BY <1>1, <2>1, RowIs
  <2>3. PICK r \in Requests : r = Request("test", p, m) /\ r.by = "test" /\ r.process = p /\ r.match = m
    BY RequestIs
  <2>4. /\ asked' = Append(asked, r) /\ UNCHANGED <<draft, hint, failed, edits, dialog, samples>>
        /\ debounce /\ debounce' = FALSE
    BY <1>16, <2>2, <2>3 DEF AskTest
  <2>5. r \in Tests /\ r \notin Titles
    BY <2>3 DEF Tests, Titles
  <2>6. RowTyped' /\ TestsFresh' /\ TitlesFresh'
    BY <2>1, <2>2, <2>3, <2>4, <2>5, AskFresh DEF FormInv, TitlesFresh
  <2>7. DialogTyped'
    BY <2>4 DEF FormInv, DialogTyped
  <2> QED
    BY <1>1, <2>4, <2>6, <2>7 DEF Goal
<1>17. ASSUME NEW i \in DOMAIN asked PROVE asked[i] \in ToSet(asked)
  BY DEF ToSet
<1>18. ASSUME NEW i \in DOMAIN asked, TestAnswered(i) PROVE Goal
  <2>1. asked[i] \in Tests
    BY <1>2, <1>17, <1>18 DEF TestAnswered, Tests
  <2>2. /\ asked' = RemoveAt(asked, i) /\ UNCHANGED <<draft, debounce, dialog, samples, edits>>
        /\ hint' \in {None, <<asked[i].match, asked[i].process>>} /\ failed' \in BOOLEAN
    BY <1>1, <1>18 DEF TestAnswered
  <2>3. RowTyped' /\ TestsFresh' /\ ToSet(asked') \subseteq ToSet(asked)
    BY <2>1, <2>2, AnsweredFresh
  <2>4. DialogTyped' /\ TitlesFresh'
    BY <2>2, <2>3 DEF FormInv, DialogTyped, TitlesFresh
  <2> QED
    BY <1>1, <2>2, <2>3, <2>4 DEF Goal
<1>19. ASSUME NEW i \in DOMAIN asked, TitlesAnswered(i) PROVE Goal
  <2>1. asked[i] \in Titles /\ asked[i] \notin Tests /\ asked[i].process \in Names
    BY <1>2, <1>17, <1>19 DEF TitlesAnswered, Titles, Tests
  <2>2. /\ asked' = RemoveAt(asked, i) /\ UNCHANGED <<draft, hint, debounce, dialog, failed, edits>>
        /\ samples' \in {asked[i].process, Blank}
    BY <1>19 DEF TitlesAnswered
  <2>3. RowTyped' /\ TestsFresh' /\ ToSet(asked') \subseteq ToSet(asked)
    BY <2>1, <2>2, AnsweredFresh
  <2>4. asked[i].process = dialog
    BY <1>17, <2>1 DEF FormInv, TitlesFresh
  <2>5. DialogTyped' /\ TitlesFresh'
    BY <1>1, <2>1, <2>2, <2>3, <2>4 DEF FormInv, DialogTyped, TitlesFresh
  <2> QED
    BY <1>1, <2>2, <2>3, <2>5 DEF Goal
<1>20. ASSUME NEW i \in DOMAIN asked, SuggestAnswered(i) PROVE Goal
  <2>1. Show(draft', RemoveAt(asked, i)) /\ UNCHANGED <<dialog, samples, failed, edits>>
    BY <1>20 DEF SuggestAnswered, Show
  <2>2. asked[i] \notin Tests
    BY <1>20 DEF SuggestAnswered, Tests
  <2>3. /\ RemoveAt(asked, i) \in Seq(Requests) /\ ToSet(RemoveAt(asked, i)) \subseteq ToSet(asked)
        /\ ToSet(asked) \ {asked[i]} \subseteq ToSet(RemoveAt(asked, i))
    BY <1>1, SetOfRemoved
  <2>4. ToSet(asked) \cap Tests \subseteq ToSet(RemoveAt(asked, i))
    BY <2>2, <2>3
  <2>5. RowTyped' /\ TestsFresh' /\ ToSet(asked') \subseteq ToSet(asked)
    BY <1>1, <2>1, <2>3, <2>4, ShowFresh DEF FormInv
  <2>6. DialogTyped' /\ TitlesFresh'
    BY <2>1, <2>5 DEF FormInv, DialogTyped, TitlesFresh
  <2> QED
    BY <1>1, <2>1, <2>5, <2>6 DEF Goal
<1>21. CASE UNCHANGED vars
  BY <1>1, <1>21 DEF Goal, vars, FormInv, RowTyped, DialogTyped, TestsFresh, TitlesFresh
<1>22. Goal
  <2>1. ASSUME NEW i \in DOMAIN draft.rules, SwitchStep(i) PROVE Goal
    BY <1>6, <1>7, <2>1 DEF SwitchStep
  <2>2. CASE DialogStep
    BY <1>8, <1>11, <1>12, <1>13, <2>2 DEF DialogStep
  <2>3. CASE PanelStep
    BY <1>14, <1>15, <2>3 DEF PanelStep
  <2>4. CASE AnswerStep
    BY <1>18, <1>19, <1>20, <2>4 DEF AnswerStep
  <2> QED
    BY <1>4, <1>5, <1>16, <1>21, <2>1, <2>2, <2>3, <2>4 DEF Next
<1> QED
  BY <1>22

(* The histories speak of names as they are compared. *)
LEMMA StepHistory ==
  ASSUME FormInv, [Next]_vars
  PROVE  {consent', left'} \subseteq SUBSET Keyed(Names)
<1>1. draft \in Drafts /\ typed \in Names /\ consent \subseteq Keyed(Names) /\ left \subseteq Keyed(Names)
  BY DEF FormInv, IInv, DialogOK, HistoryTyped
<1>2. \A p \in Names : Normal(p) \in Keyed(Names)
  BY DEF Keyed
<1>3. consent' \subseteq consent \cup {Normal(typed)}
  <2>1. ASSUME NEW i \in DOMAIN draft.rules, CardStep(i) \/ SwitchStep(i)
        PROVE  consent' \subseteq consent
    BY <2>1 DEF CardStep, SwitchStep, EditProcess, EditApp, PressRemove, PressAddPattern, EditRow,
                OpenDialog, SwitchOff
  <2>2. CASE AddByHand
    BY <2>2 DEF AddByHand
  <2>3. CASE DialogStep
    BY <2>3 DEF DialogStep, Type, Confirm, CancelDialog, PollTitles
  <2>4. CASE PanelStep
    BY <2>4 DEF PanelStep, PressAddRule, PressAddSample
  <2>5. CASE AskTest \/ AnswerStep
    BY <2>5 DEF AskTest, AnswerStep, TestAnswered, TitlesAnswered, SuggestAnswered
  <2>6. CASE UNCHANGED vars
    BY <2>6 DEF vars
  <2> QED
    BY <2>1, <2>2, <2>3, <2>4, <2>5, <2>6 DEF Next
<1>4. left' = left \/ \E i \in DOMAIN draft.rules : left' = left \cup {Normal(Rule(draft, i).process)}
  <2>1. ASSUME NEW i \in DOMAIN draft.rules, CardStep(i) \/ SwitchStep(i)
        PROVE  left' = left \/ left' = left \cup {Normal(Rule(draft, i).process)}
    BY <2>1 DEF CardStep, SwitchStep, EditProcess, EditApp, PressRemove, PressAddPattern, EditRow,
                OpenDialog, SwitchOff
  <2>2. CASE AddByHand
    BY <2>2 DEF AddByHand
  <2>3. CASE DialogStep
    BY <2>3 DEF DialogStep, Type, Confirm, CancelDialog, PollTitles
  <2>4. CASE PanelStep
    BY <2>4 DEF PanelStep, PressAddRule, PressAddSample
  <2>5. CASE AskTest \/ AnswerStep
    BY <2>5 DEF AskTest, AnswerStep, TestAnswered, TitlesAnswered, SuggestAnswered
  <2>6. CASE UNCHANGED vars
    BY <2>6 DEF vars
  <2> QED
    BY <2>1, <2>2, <2>3, <2>4, <2>5, <2>6 DEF Next
<1>5. \A i \in DOMAIN draft.rules : Rule(draft, i).process \in Names
  BY <1>1, DraftShape DEF Rule
<1>6. consent' \subseteq Keyed(Names)
  BY <1>1, <1>2, <1>3
<1>7. left' \subseteq Keyed(Names)
  BY <1>1, <1>2, <1>4, <1>5
<1> QED
  BY <1>6, <1>7

LEMMA StepFormInv == FormInv /\ [Next]_vars => FormInv'
<1> SUFFICES ASSUME FormInv, [Next]_vars PROVE FormInv'
  OBVIOUS
<1>1. IInv'
  BY StepIInv DEF FormInv
<1>2. /\ RowTyped' /\ DialogTyped' /\ TestsFresh' /\ TitlesFresh' /\ failed' \in BOOLEAN
      /\ edits' \in 0..MaxEdits
  BY <1>1, StepTestsTitles
<1>3. HistoryTyped'
  BY <1>2, StepHistory DEF HistoryTyped
<1> QED
  BY <1>1, <1>2, <1>3 DEF FormInv

(* Whatever is clicked, typed and answered in whatever order, the draft stays *)
(* one that can be sent, the dialog is about a name, and the hint of the row  *)
(* is for a pattern that has been tested (RuleEditor.tsx, DangerZone.tsx,     *)
(* DiscoveryPanel.tsx and the handlers of App.tsx).                           *)
THEOREM EditorTypeCorrect == Spec => []TypeOK
<1>1. FormInv => TypeOK
  BY DEF FormInv, IInv, DialogOK, RowTyped, DialogTyped, HistoryTyped, TypeOK
<1> QED
  BY <1>1, InitFormInv, StepFormInv, PTL DEF Spec

(* However late the agent answers: what stands below the pattern of the row   *)
(* is about that pattern and that process, or a fresh answer is on its way,   *)
(* and the dialog lists titles of the process it is about (usePatternTest and *)
(* useLiveTitles, whose effects cancel on their way out).                     *)
THEOREM AnswersStayPresent == Spec => []AnswersArePresent
<1>1. FormInv => AnswersArePresent
  <2> SUFFICES ASSUME FormInv PROVE AnswersArePresent
    OBVIOUS
  <2>1. asked \in Seq(Requests)
    BY DEF FormInv, RowTyped
  <2>2. ToSet(asked) \cap Tests # {} => \E i \in DOMAIN asked : asked[i].by = "test"
    BY <2>1 DEF ToSet, Tests
  <2>3. MatchHint = "counts" => Tested(draft) /\ hint # None
    BY DEF MatchHint
  <2> QED
    BY <2>2, <2>3 DEF FormInv, TestsFresh, TitlesFresh, AnswersArePresent
<1> QED
  BY <1>1, InitFormInv, StepFormInv, PTL DEF Spec

(* The only thing that changes a draft without a click is the answer to the   *)
(* click on a sample, and whatever became of the rules meanwhile, the pattern *)
(* it suggests goes to a rule of the process whose sample was clicked         *)
(* (handleAddPattern of App.tsx, which looks the rule up in the answer).      *)
THEOREM SuggestionsLandHome == Spec => SuggestionLandsHome
<1> DEFINE Lands == \E r \in ToSet(asked), i \in DOMAIN draft.rules, m \in Matches :
                       /\ r.by = "suggest" /\ SameProcess(Rule(draft, i).process, r.process)
                       /\ draft' = AddPattern(draft, i, m)
<1>1. ASSUME FormInv, Next, draft' # draft, edits' = edits PROVE Lands
  <2>1. edits \in Nat
    BY <1>1 DEF FormInv, HistoryTyped
  <2>2. ASSUME NEW d, Edit(d) PROVE FALSE
    BY <1>1, <2>1, <2>2 DEF Edit
  <2>3. ~AddByHand
    <3> SUFFICES ASSUME AddByHand PROVE FALSE
      OBVIOUS
    <3>1. PICK d : Edit(d)
      BY DEF AddByHand
    <3> QED
      BY <2>2, <3>1
  <2>4. ASSUME NEW i \in DOMAIN draft.rules PROVE ~CardStep(i) /\ ~SwitchStep(i)
    <3>1. edits' # edits + 1
      BY <1>1, <2>1
    <3>2. CardStep(i) => edits' = edits + 1
      BY DEF CardStep, EditProcess, EditApp, PressRemove, PressAddPattern, EditRow, RowAction, Edit
    <3>3. ~OpenDialog(i)
      BY <1>1 DEF OpenDialog
    <3>4. SwitchOff(i) => edits' = edits + 1
      BY DEF SwitchOff, Edit
    <3> QED
      BY <3>1, <3>2, <3>3, <3>4 DEF SwitchStep
  <2>5. ~DialogStep
    <3>1. edits' # edits + 1
      BY <1>1, <2>1
    <3>2. ~Confirm
      BY <3>1 DEF Confirm
    <3>3. ~CancelDialog /\ ~PollTitles /\ \A t \in Names : ~Type(t)
      BY <1>1 DEF CancelDialog, PollTitles, Type
    <3> QED
      BY <3>2, <3>3 DEF DialogStep
  <2>6. ~PanelStep
    BY <1>1, <2>1 DEF PanelStep, PressAddRule, PressAddSample, Edit
  <2>7. ~AskTest
    BY <1>1 DEF AskTest
  <2>8. PICK i \in DOMAIN asked : SuggestAnswered(i)
    BY <1>1, <2>3, <2>4, <2>5, <2>6, <2>7 DEF Next, AnswerStep, TestAnswered, TitlesAnswered
  <2>9. asked[i] \in ToSet(asked)
    BY DEF ToSet
  <2>10. asked[i].by = "suggest"
    BY <2>8 DEF SuggestAnswered
  <2>11. PICK m \in {Suggested, NoMatch}, h \in Home(asked[i].process) : draft' = AddPattern(draft, h, m)
    BY <1>1, <2>8 DEF SuggestAnswered, Show
  <2>12. h \in DOMAIN draft.rules /\ SameProcess(Rule(draft, h).process, asked[i].process)
    BY DEF Home, FirstOf, RulesOf
  <2>13. m \in Matches
    BY EditorAssumption, MatchesAssumption
  <2> QED
    BY <2>9, <2>10, <2>11, <2>12, <2>13
<1>2. FormInv /\ [Next]_vars => [draft' # draft /\ edits' = edits => Lands]_vars
  BY <1>1
<1> QED
  BY <1>2, InitFormInv, StepFormInv, PTL DEF Spec, SuggestionLandsHome

-----------------------------------------------------------------------------
(* What is marked and what is refused                                        *)

(* A set of positions that is not empty has a first one. *)
LEMMA FirstThere ==
  ASSUME NEW S, S \subseteq Nat
  PROVE  FirstOf(S) \subseteq S /\ (FirstOf(S) = {} => S = {})
<1> DEFINE N == {n \in Nat : \A k \in S : ~(k < n)}
<1>1. SUFFICES ASSUME FirstOf(S) = {} PROVE S = {}
  BY DEF FirstOf
<1>2. 0 \in N
  OBVIOUS
<1>3. ASSUME NEW n \in Nat, n \in N PROVE n + 1 \in N
  <2>1. n \notin S
    BY <1>1, <1>3 DEF FirstOf
  <2> QED
    BY <1>3, <2>1
<1> HIDE DEF N
<1>4. \A n \in Nat : n \in N
  BY <1>2, <1>3, Induct
<1>5. ASSUME NEW k \in S PROVE FALSE
  <2>1. k \in Nat /\ k + 1 \in N
    BY <1>4
  <2> QED
    BY <2>1 DEF N
<1> QED
  BY <1>5

(* The pass over the rules finds the names that two rules claim. *)
LEMMA DuplicatesAre ==
  ASSUME NEW d \in Drafts
  PROVE  \A k : k \in DuplicateProcesses(d) <=>
            /\ k # Blank
            /\ \E i, j \in DOMAIN d.rules :
                  /\ i # j /\ Normal(d.rules[i].process) = k /\ Normal(d.rules[j].process) = k
<1> DEFINE N == Len(d.rules)
           key(i) == Normal(d.rules[i].process)
           nothing == [seen |-> {}, dups |-> {}]
           V == [seen : SUBSET Names, dups : SUBSET Names]
           Loop(f) == f = [n \in 0..N |-> IF n = 0 THEN nothing ELSE See(f[n - 1], Rule(d, n))]
           step == [p \in (1..N) \X V |-> See(p[2], Rule(d, p[1]))]
<1>0. N \in Nat /\ DOMAIN d.rules = 1..N /\ \A i \in 1..N : key(i) \in Names
  BY DraftShape, NamesAssumption
<1>1. nothing \in V
  OBVIOUS
<1>2. ASSUME NEW acc \in V, NEW i \in 1..N
      PROVE  See(acc, Rule(d, i)) \in V
  <2>1. key(i) \in Names
    BY <1>0
  <2> QED
    BY <2>1 DEF See, Rule
<1>3. step \in [(1..N) \X V -> V]
  BY <1>2
<1>4. \A n \in 1..N : \A acc \in V : step[<<n, acc>>] = See(acc, Rule(d, n))
  OBVIOUS
<1> HIDE DEF step, nothing, V, N
<1>5. PICK g \in [0..N -> V] : Runs(g, N, nothing, step)
  BY <1>0, <1>1, <1>3, LoopExists
<1>6. Loop(g)
  <2>1. ASSUME NEW n \in 0..N
        PROVE  g[n] = IF n = 0 THEN nothing ELSE See(g[n - 1], Rule(d, n))
    <3>1. n # 0 => n \in 1..N /\ n - 1 \in 0..N
      BY <1>0
    <3> QED
      BY <1>4, <1>5, <3>1 DEF Runs
  <2> QED
    BY <1>5, <2>1
<1>7. DuplicateProcesses(d) = (CHOOSE f : Loop(f))[N].dups
  BY DEF DuplicateProcesses, N, nothing
<1>8. PICK f : Loop(f) /\ DuplicateProcesses(d) = f[N].dups
  <2> HIDE DEF Loop
  <2> QED
    BY <1>6, <1>7
<1>9. f[0] = nothing /\ \A n \in 1..N : f[n] = See(f[n - 1], Rule(d, n))
  BY <1>0, <1>8
<1> DEFINE Seen(n) == \A k : k \in f[n].seen <=> k # Blank /\ \E i \in 1..n : key(i) = k
           Dups(n) == \A k : k \in f[n].dups <=>
                         k # Blank /\ \E i, j \in 1..n : i # j /\ key(i) = k /\ key(j) = k
           M == {n \in Nat : n <= N => Seen(n) /\ Dups(n)}
<1> HIDE DEF key
<1>10. 0 \in M
  <2>1. f[0].seen = {} /\ f[0].dups = {}
    BY <1>9 DEF nothing
  <2> QED
    BY <2>1
<1>11. ASSUME NEW n \in Nat, n \in M PROVE n + 1 \in M
  <2> SUFFICES ASSUME n + 1 <= N PROVE Seen(n + 1) /\ Dups(n + 1)
    OBVIOUS
  <2>1. Seen(n) /\ Dups(n) /\ f[n + 1] = See(f[n], Rule(d, n + 1))
    BY <1>0, <1>9, <1>11
  <2>2. \A i : i \in 1..(n + 1) <=> i \in 1..n \/ i = n + 1
    OBVIOUS
  <2>3. n + 1 \notin 1..n
    OBVIOUS
  <2>4. CASE key(n + 1) = Blank
    <3>1. f[n + 1] = f[n]
      BY <2>1, <2>4 DEF See, Rule, key
    <3>2. Seen(n + 1)
      BY <2>1, <2>2, <2>4, <3>1
    <3>3. Dups(n + 1)
      BY <2>1, <2>2, <2>4, <3>1
    <3> QED
      BY <3>2, <3>3
  <2>5. CASE key(n + 1) # Blank
    <3>1. /\ f[n + 1].seen = f[n].seen \cup {key(n + 1)}
          /\ f[n + 1].dups = IF key(n + 1) \in f[n].seen THEN f[n].dups \cup {key(n + 1)} ELSE f[n].dups
      BY <2>1, <2>5 DEF See, Rule, key
    <3>2. Seen(n + 1)
      BY <2>1, <2>2, <2>5, <3>1
    <3>3. Dups(n + 1)
      <4> SUFFICES ASSUME NEW k
                   PROVE  k \in f[n + 1].dups <=>
                            k # Blank /\ \E i, j \in 1..(n + 1) : i # j /\ key(i) = k /\ key(j) = k
        OBVIOUS
      <4>1. k # key(n + 1) => (k \in f[n + 1].dups <=> k \in f[n].dups)
        BY <3>1
      <4>2. k = key(n + 1) => (k \in f[n + 1].dups <=> k \in f[n].dups \/ \E i \in 1..n : key(i) = k)
        BY <2>1, <2>5, <3>1
      <4> QED
        BY <2>1, <2>2, <2>3, <2>5, <4>1, <4>2
    <3> QED
      BY <3>2, <3>3
  <2> QED
    BY <2>4, <2>5
<1> HIDE DEF M
<1>12. N \in M
  BY <1>0, <1>10, <1>11, Induct
<1>13. Dups(N)
  BY <1>0, <1>12 DEF M
<1> QED
  BY <1>0, <1>8, <1>13 DEF key

(* What stops the agent at a rule is a path in that rule. *)
LEMMA RulePaths ==
  ASSUME NEW d \in Drafts, NEW x \in EmptyField(d) \cup BadRule(d)
  PROVE  \/ \E i \in DOMAIN d.rules, key \in {"process", "app"} : x = Path(i, key)
         \/ \E i \in DOMAIN d.rules : \E j \in DOMAIN Rule(d, i).patterns : x = MatchPath(i, j)
<1>1. CASE x \in EmptyField(d)
  BY <1>1 DEF EmptyField, FirstOf
<1>2. CASE x \in BadRule(d)
  BY <1>2 DEF BadRule, FirstOf
<1> QED
  BY <1>1, <1>2

(* Such a path is marked. *)
LEMMA RulePathsMarked ==
  ASSUME NEW d \in Drafts, NEW fields, NEW x \in fields, x \in EmptyField(d) \cup BadRule(d)
  PROVE  x \in Marks(d, fields)
<1>1. x \in Flagged(d, fields)
  BY RulePaths, Zenon DEF Flagged
<1> QED
  BY <1>1, Zenon DEF Marks, CardMarks

(* Two rules of one name are refused. *)
LEMMA DuplicatesRefused ==
  ASSUME NEW d \in Drafts, DuplicateProcesses(d) # {}
  PROVE  BadRule(d) # {}
<1> DEFINE repeated(i) == \E j \in 1..(i - 1) : j \in RulesOf(d, Rule(d, i).process)
           wrong(i) == {j \in DOMAIN Rule(d, i).patterns : Rule(d, i).patterns[j] \notin Compiles}
           S == {i \in DOMAIN d.rules : repeated(i) \/ wrong(i) # {}}
           T(i) == IF repeated(i) THEN {Path(i, "process")}
                   ELSE {MatchPath(i, j) : j \in FirstOf(wrong(i))}
<1>0. DOMAIN d.rules \subseteq Nat /\ \A i \in DOMAIN d.rules : DOMAIN Rule(d, i).patterns \subseteq Nat
  BY DraftShape DEF Rule
<1>1. PICK u, v \in DOMAIN d.rules : u < v /\ SameProcess(Rule(d, u).process, Rule(d, v).process)
  <2>1. PICK k : k \in DuplicateProcesses(d)
    OBVIOUS
  <2>2. PICK x, y \in DOMAIN d.rules :
           x # y /\ Normal(d.rules[x].process) = k /\ Normal(d.rules[y].process) = k
    BY <2>1, DuplicatesAre
  <2>3. x < y \/ y < x
    BY <1>0, <2>2
  <2> QED
    BY <2>2, <2>3 DEF SameProcess, Rule
<1>2. v \in S
  <2>1. u \in 1..(v - 1)
    BY <1>0, <1>1, DraftShape
  <2>2. u \in RulesOf(d, Rule(d, v).process)
    BY <1>1 DEF RulesOf
  <2> QED
    BY <2>1, <2>2
<1>3. S \subseteq Nat /\ \A i \in S : wrong(i) \subseteq Nat
  BY <1>0
<1> HIDE DEF repeated, wrong
<1>4. PICK m \in S : m \in FirstOf(S)
  <2> HIDE DEF S
  <2> QED
    BY <1>2, <1>3, FirstThere
<1>5. T(m) # {}
  <2>1. CASE repeated(m)
    BY <2>1
  <2>2. CASE ~repeated(m)
    <3>1. wrong(m) # {} /\ wrong(m) \subseteq Nat
      BY <1>3, <2>2
    <3>2. FirstOf(wrong(m)) # {}
      BY <3>1, FirstThere
    <3> QED
      BY <2>2, <3>2
  <2> QED
    BY <2>1, <2>2
<1>6. BadRule(d) = UNION {T(i) : i \in FirstOf(S)}
  BY Zenon DEF BadRule, repeated, wrong
<1> HIDE DEF T, S
<1> QED
  BY <1>4, <1>5, <1>6

(* The form marks something, or an exposure lacks its rule, exactly if the  *)
(* agent refuses the settings; and every rule of a name claimed twice is    *)
(* marked.                                                                  *)
LEMMA MarksJudge ==
  ASSUME NEW c \in [Fields -> Texts], NEW d \in Drafts
  PROVE  /\ Issue(c, d) = {} <=> Marks(d, Issue(c, d)) = {} /\ Orphans(d) = {}
         /\ \A fields : \A i, j \in DOMAIN d.rules :
               /\ i # j /\ SameProcess(Rule(d, i).process, Rule(d, j).process)
               /\ Normal(Rule(d, i).process) # Blank
               => Path(i, "process") \in Marks(d, fields)
<1>1. \A fields : \A i, j \in DOMAIN d.rules :
         /\ i # j /\ SameProcess(Rule(d, i).process, Rule(d, j).process)
         /\ Normal(Rule(d, i).process) # Blank
         => Path(i, "process") \in Marks(d, fields)
  <2> SUFFICES ASSUME NEW fields, NEW i \in DOMAIN d.rules, NEW j \in DOMAIN d.rules, i # j,
                      SameProcess(Rule(d, i).process, Rule(d, j).process),
                      Normal(Rule(d, i).process) # Blank
               PROVE  Path(i, "process") \in Marks(d, fields)
    OBVIOUS
  <2>1. Normal(Rule(d, i).process) \in DuplicateProcesses(d)
    BY DuplicatesAre, Zenon DEF SameProcess, Rule
  <2>2. Path(i, "process") \in CardMarks(d, fields)
    BY <2>1, Zenon DEF CardMarks
  <2> QED
    BY <2>2, Zenon DEF Marks
<1> DEFINE issue == Issue(c, d)
<1>2. PICK a1, a2, a3, a4, a5, a6, a7, a8, a9, a10 :
         /\ a1 = Those(c, {"interval"}, "bad") /\ a2 = Those(c, {"idle_threshold"}, "bad")
         /\ a3 = Those(c, Keys \ Durations, "empty")
         /\ a4 = Those(c, {"server_url"}, "bad") /\ a5 = Those(c, {"server_url"}, "odd")
         /\ a6 = Those(c, {"interval"}, "odd") /\ a7 = Those(c, {"idle_threshold"}, "odd")
         /\ a8 = EmptyField(d) /\ a9 = BadRule(d) /\ a10 = {<<"expose_title">> : e \in Orphans(d)}
  OBVIOUS
<1> DEFINE stages == <<a1, a2, a3, a4, a5, a6, a7, a8, a9, a10>>
           hit == {s \in DOMAIN stages : stages[s] # {}}
<1>3. issue = UNION {stages[s] : s \in FirstOf(hit)}
  BY <1>2 DEF Issue
<1>4. DOMAIN stages = 1..10 /\ hit \subseteq Nat
  OBVIOUS
<1>5. \A s \in 1..10 : \/ s = 1 \/ s = 2 \/ s = 3 \/ s = 4 \/ s = 5
                      \/ s = 6 \/ s = 7 \/ s = 8 \/ s = 9 \/ s = 10
  OBVIOUS
<1>6. /\ stages[1] = a1 /\ stages[2] = a2 /\ stages[3] = a3 /\ stages[4] = a4
      /\ stages[5] = a5 /\ stages[6] = a6 /\ stages[7] = a7 /\ stages[8] = a8
      /\ stages[9] = a9 /\ stages[10] = a10
  OBVIOUS
<1>7. hit = {} <=> issue = {}
  <2>1. FirstOf(hit) \subseteq hit /\ (FirstOf(hit) = {} => hit = {})
    BY <1>4, FirstThere
  <2>2. \A s \in hit : stages[s] # {}
    OBVIOUS
  <2> HIDE DEF hit, stages, issue
  <2> QED
    BY <1>3, <2>1, <2>2
<1> DEFINE fieldwise == a1 \cup a2 \cup a3 \cup a4 \cup a5 \cup a6 \cup a7
<1>8. \A x \in issue : x \in fieldwise \cup a8 \cup a9 \cup a10
  <2> SUFFICES ASSUME NEW x \in issue PROVE x \in fieldwise \cup a8 \cup a9 \cup a10
    OBVIOUS
  <2>1. FirstOf(hit) \subseteq 1..10
    BY <1>4 DEF FirstOf
  <2>2. PICK s \in 1..10 : x \in stages[s]
    BY <1>3, <2>1
  <2> HIDE DEF stages, issue
  <2> QED
    BY <1>5, <1>6, <2>2
<1>9. a9 # {} \/ a10 # {} => hit # {}
  <2>1. 9 \in DOMAIN stages /\ 10 \in DOMAIN stages
    BY <1>4
  <2> QED
    BY <1>6, <2>1
<1>10. a10 # {} <=> Orphans(d) # {}
  BY <1>2
<1> HIDE DEF stages, hit, issue
<1>11. ASSUME issue = {} PROVE Marks(d, issue) = {} /\ Orphans(d) = {}
  <2>1. a9 = {} /\ a10 = {}
    BY <1>7, <1>9, <1>11
  <2>2. DuplicateProcesses(d) = {}
    BY <1>2, <2>1, DuplicatesRefused
  <2>3. CardMarks(d, {}) = {}
    BY <2>2 DEF CardMarks, Flagged
  <2>4. Marks(d, {}) = {}
    BY <2>3 DEF Marks
  <2> QED
    BY <1>10, <1>11, <2>1, <2>4
<1>12. ASSUME Orphans(d) = {}, NEW x \in issue PROVE x \in Marks(d, issue)
  <2>1. CASE x \in fieldwise
    <3>1. \A fields, text : fields \subseteq Fields => Those(c, fields, text) \subseteq {<<f>> : f \in Fields}
      BY DEF Those
    <3>2. x \in {<<f>> : f \in Fields}
      BY <1>2, <2>1, <3>1 DEF Fields, Keys, Durations
    <3> QED
      BY <1>12, <3>2 DEF Marks
  <2>2. CASE x \in a8 \cup a9
    BY <1>2, <1>12, <2>2, RulePathsMarked
  <2>3. x \notin a10
    BY <1>10, <1>12
  <2> QED
    BY <1>8, <1>12, <2>1, <2>2, <2>3
<1>13. Issue(c, d) = {} <=> Marks(d, Issue(c, d)) = {} /\ Orphans(d) = {}
  BY <1>11, <1>12 DEF issue
<1> QED
  BY <1>1, <1>13

(* The agent accepts a form exactly if nothing on it is marked and every    *)
(* exposure has its rule, and a name claimed twice is marked wherever it    *)
(* stands: the marks of the cards and of the connection (RuleEditor.tsx,    *)
(* ConnectionSettings.tsx) against the chain of checks of Draft.Config,     *)
(* Config.Validate and mapping.New.                                         *)
THEOREM MarksMatchTheAgent == Spec => []MarksMatchJudgement
<1>1. IInv => MarksMatchJudgement
  <2> SUFFICES ASSUME IInv, NEW s \in Conns
               PROVE  LET issue == Issue(Conn(s), draft)
                          marks == Marks(draft, issue)
                      IN  /\ issue = {} <=> marks = {} /\ Orphans(draft) = {}
                          /\ \A i, j \in DOMAIN draft.rules :
                                /\ i # j /\ SameProcess(Rule(draft, i).process, Rule(draft, j).process)
                                /\ Normal(Rule(draft, i).process) # Blank
                                => Path(i, "process") \in marks
    BY DEF MarksMatchJudgement
  <2>1. Conn(s) \in [Fields -> Texts]
    BY DEF Conns, Conn, Texts
  <2>2. draft \in Drafts
    BY DEF IInv
  <2> QED
    BY <2>1, <2>2, MarksJudge
<1> QED
  BY <1>1, InitIInv, StepIInv, PTL DEF Spec

-----------------------------------------------------------------------------
(* Edits and pastes                                                          *)

(* A move puts one pattern where it is told and leaves the others in order. *)
LEMMA MoveIs ==
  ASSUME NEW S, NEW ps \in Seq(S), NEW from \in 1..Len(ps), NEW to \in 1..Len(ps)
  PROVE  /\ Moved(ps, from, to)[to] = ps[from]
         /\ RemoveAt(Moved(ps, from, to), to) = RemoveAt(ps, from)
<1>1. PICK q : q = RemoveAt(ps, from)
  OBVIOUS
<1>2. q \in Seq(S) /\ Len(q) = Len(ps) - 1
  BY <1>1, RemoveOne
<1>3. to \in 1..(Len(q) + 1) /\ ps[from] \in S
  BY <1>2
<1>4. InsertAt(q, to, ps[from])[to] = ps[from] /\ RemoveAt(InsertAt(q, to, ps[from]), to) = q
  BY <1>2, <1>3, InsertRemoved
<1> QED
  BY <1>1, <1>4 DEF Moved

(* A line sets a key; and it is the last of the first n that does. *)
Sets(line, key) == key \in Keys /\ line.key = key /\ line.text # "empty"
LastOf(lines, n, i, key) == Sets(lines[i], key) /\ \A j \in 1..n : Sets(lines[j], key) => j <= i

(* What was found, with values in T; and what one line changes of it. *)
FoundSoFar(T) == UNION {[K -> T] : K \in SUBSET Keys}
Takes(after, found, line) ==
    \A key : /\ key \in DOMAIN after <=> key \in DOMAIN found \/ Sets(line, key)
             /\ Sets(line, key) => after[key] = line.text
             /\ key \in DOMAIN found /\ ~Sets(line, key) => after[key] = found[key]

LEMMA TakeIs ==
  ASSUME NEW T, NEW found \in FoundSoFar(T), NEW line \in Lines, line.text \in T
  PROVE  Take(found, line) \in FoundSoFar(T) /\ Takes(Take(found, line), found, line)
<1>0. PICK K \in SUBSET Keys : found \in [K -> T]
  BY DEF FoundSoFar
<1>1. CASE line.key \in Keys /\ line.text # "empty"
  <2>1. Take(found, line) = [k \in K \cup {line.key} |-> IF k = line.key THEN line.text ELSE found[k]]
    BY <1>0, <1>1 DEF Take
  <2>2. K \cup {line.key} \in SUBSET Keys /\ Take(found, line) \in [K \cup {line.key} -> T]
    BY <1>0, <1>1, <2>1
  <2>3. \A key : Sets(line, key) <=> key = line.key
    BY <1>1 DEF Sets
  <2>4. Take(found, line) \in FoundSoFar(T)
    BY <2>2 DEF FoundSoFar
  <2>5. Takes(Take(found, line), found, line)
    BY <1>0, <2>1, <2>3 DEF Takes
  <2> QED
    BY <2>4, <2>5
<1>2. CASE ~(line.key \in Keys /\ line.text # "empty")
  <2>1. Take(found, line) = found
    BY <1>2 DEF Take
  <2>2. \A key : ~Sets(line, key)
    BY <1>2 DEF Sets
  <2> QED
    BY <2>1, <2>2 DEF Takes
<1> QED
  BY <1>1, <1>2

(* What the lines set: the keys that some line gives a value, and the value  *)
(* of the last of those lines.                                               *)
LEMMA ParsedIs ==
  ASSUME NEW N \in Nat, NEW lines \in [1..N -> Lines]
  PROVE  \A key : /\ key \in DOMAIN Parsed(lines) <=> \E i \in 1..N : Sets(lines[i], key)
                  /\ \A i \in 1..N : LastOf(lines, N, i, key) => Parsed(lines)[key] = lines[i].text
<1> DEFINE T == {"empty", "odd", "good"}
           V == FoundSoFar(T)
           Loop(f) == f = [n \in 0..N |-> IF n = 0 THEN <<>> ELSE Take(f[n - 1], lines[n])]
           step == [p \in (1..N) \X V |-> Take(p[2], lines[p[1]])]
<1>0. Len(lines) = N /\ \A i \in 1..N : lines[i] \in Lines /\ lines[i].text \in T
  BY DEF Lines
<1>1. <<>> \in V
  <2>1. <<>> \in [{} -> T]
    OBVIOUS
  <2> QED
    BY <2>1 DEF FoundSoFar
<1>2. ASSUME NEW found \in V, NEW i \in 1..N
      PROVE  Take(found, lines[i]) \in V /\ Takes(Take(found, lines[i]), found, lines[i])
  BY <1>0, <1>2, TakeIs
<1> HIDE DEF V
<1>3. step \in [(1..N) \X V -> V]
  BY <1>2
<1>4. \A n \in 1..N : \A found \in V : step[<<n, found>>] = Take(found, lines[n])
  OBVIOUS
<1> HIDE DEF step
<1>5. PICK g \in [0..N -> V] : Runs(g, N, <<>>, step)
  BY <1>1, <1>3, LoopExists
<1>6. Loop(g)
  <2>1. ASSUME NEW n \in 0..N
        PROVE  g[n] = IF n = 0 THEN <<>> ELSE Take(g[n - 1], lines[n])
    <3>1. n # 0 => n \in 1..N /\ n - 1 \in 0..N
      OBVIOUS
    <3> QED
      BY <1>4, <1>5, <3>1 DEF Runs
  <2> QED
    BY <1>5, <2>1
<1>7. Parsed(lines) = (CHOOSE f : Loop(f))[N]
  BY <1>0 DEF Parsed
<1>8. PICK f : Loop(f) /\ Parsed(lines) = f[N]
  <2> HIDE DEF Loop
  <2> QED
    BY <1>6, <1>7
<1>9. f[0] = <<>> /\ \A n \in 1..N : f[n] = Take(f[n - 1], lines[n])
  BY <1>8
<1> DEFINE SetBy(n) ==
             /\ f[n] \in V
             /\ \A key : /\ key \in DOMAIN f[n] <=> \E i \in 1..n : Sets(lines[i], key)
                         /\ \A i \in 1..n : LastOf(lines, n, i, key) => f[n][key] = lines[i].text
           M == {n \in Nat : n <= N => SetBy(n)}
<1>10. 0 \in M
  BY <1>1, <1>9
<1>11. ASSUME NEW n \in Nat, n \in M PROVE n + 1 \in M
  <2> SUFFICES ASSUME n + 1 <= N PROVE SetBy(n + 1)
    OBVIOUS
  <2>1. SetBy(n) /\ n + 1 \in 1..N /\ f[n + 1] = Take(f[n], lines[n + 1])
    BY <1>9, <1>11
  <2>2. \A i : i \in 1..(n + 1) <=> i \in 1..n \/ i = n + 1
    OBVIOUS
  <2>3. PICK line, before, after : line = lines[n + 1] /\ before = f[n] /\ after = f[n + 1]
    OBVIOUS
  <2>4. after \in V /\ Takes(after, before, line)
    BY <1>2, <2>1, <2>3
  <2>5. \A key : key \in DOMAIN after <=> \E i \in 1..(n + 1) : Sets(lines[i], key)
    BY <2>1, <2>2, <2>3, <2>4 DEF Takes
  <2>6. ASSUME NEW key, NEW i \in 1..(n + 1), LastOf(lines, n + 1, i, key)
        PROVE  after[key] = lines[i].text
    <3>1. CASE Sets(line, key)
      <4>1. n + 1 <= i /\ i <= n + 1 /\ i \in Int
        BY <2>2, <2>3, <2>6, <3>1 DEF LastOf
      <4>2. i = n + 1
        BY <4>1
      <4> QED
        BY <2>3, <2>4, <3>1, <4>2 DEF Takes
    <3>2. CASE ~Sets(line, key)
      <4>1. Sets(lines[i], key) /\ \A j \in 1..(n + 1) : Sets(lines[j], key) => j <= i
        BY <2>6 DEF LastOf
      <4>2. i \in 1..n
        BY <2>2, <2>3, <3>2, <4>1
      <4>3. LastOf(lines, n, i, key)
        BY <2>2, <4>1 DEF LastOf
      <4>4. before[key] = lines[i].text /\ key \in DOMAIN before
        BY <2>1, <2>3, <4>1, <4>2, <4>3
      <4> QED
        BY <2>4, <3>2, <4>4 DEF Takes
    <3> QED
      BY <3>1, <3>2
  <2> QED
    BY <2>3, <2>4, <2>5, <2>6
<1> HIDE DEF M
<1>12. N \in M
  BY <1>10, <1>11, Induct
<1>13. SetBy(N)
  BY <1>12 DEF M
<1> QED
  BY <1>8, <1>13

(* A move of a pattern moves that pattern alone (rules.ts), and a paste     *)
(* fills in exactly the fields its lines give a value, the last of each     *)
(* (register.ts).                                                           *)
THEOREM EditsStayHome == Spec => []EditsTouchTheirTarget
<1>1. ASSUME NEW n \in 1..4, NEW from \in 1..n, NEW to \in 1..n, NEW ps, ps = [k \in 1..n |-> k]
      PROVE  Moved(ps, from, to)[to] = from /\ RemoveAt(Moved(ps, from, to), to) = RemoveAt(ps, from)
  <2>1. ps \in Seq(Nat) /\ Len(ps) = n /\ ps[from] = from
    BY <1>1
  <2> QED
    BY <2>1, MoveIs
<1>2. ASSUME NEW s \in Conns, NEW lines \in BoundedSeq(Lines, 3), NEW f \in Fields
      PROVE  /\ Filling(lines, f) = {} => Pasted(Conn(s), lines)[f] = Conn(s)[f]
             /\ \A i \in Filling(lines, f) : (\A j \in Filling(lines, f) : j <= i) =>
                   Pasted(Conn(s), lines)[f] = lines[i].text
  <2>1. PICK N \in 0..3 : lines \in [1..N -> Lines]
    BY DEF BoundedSeq, SeqOf
  <2>2. \A i \in 1..N : lines[i].key = f => f \in Keys
    BY <2>1 DEF Lines, Fields, Keys, Durations
  <2>3. \A i : i \in Filling(lines, f) <=> i \in 1..N /\ Sets(lines[i], f)
    BY <2>1, <2>2 DEF Sets, Filling
  <2>4. /\ f \in DOMAIN Parsed(lines) <=> \E i \in 1..N : Sets(lines[i], f)
        /\ \A i \in 1..N : LastOf(lines, N, i, f) => Parsed(lines)[f] = lines[i].text
    BY <2>1, ParsedIs
  <2>5. Pasted(Conn(s), lines)[f] = IF f \in DOMAIN Parsed(lines) THEN Parsed(lines)[f] ELSE Conn(s)[f]
    BY DEF Pasted
  <2>6. ASSUME NEW i \in Filling(lines, f), \A j \in Filling(lines, f) : j <= i
        PROVE  Pasted(Conn(s), lines)[f] = lines[i].text
    <3>1. i \in 1..N /\ LastOf(lines, N, i, f)
      BY <2>3, <2>6 DEF LastOf
    <3>2. f \in DOMAIN Parsed(lines) /\ Parsed(lines)[f] = lines[i].text
      BY <2>4, <3>1 DEF LastOf
    <3> QED
      BY <2>5, <3>2
  <2> QED
    BY <2>3, <2>4, <2>5, <2>6
<1>3. EditsTouchTheirTarget
  BY <1>1, <1>2 DEF EditsTouchTheirTarget
<1> QED
  BY <1>3, PTL
=============================================================================
