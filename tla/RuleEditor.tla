----------------------------- MODULE RuleEditor -----------------------------
(***************************************************************************)
(* The form of the setup page as its user and the agent's answers drive it:  *)
(* rules and patterns (webui/src/components/RuleEditor.tsx), the switch that  *)
(* publishes raw titles with its dialog (DangerZone.tsx), the list of seen    *)
(* applications (DiscoveryPanel.tsx) and the two handlers behind it (App.tsx).*)
(*                                                                          *)
(* The hook that tests a pattern is followed in one row, the first of the     *)
(* first card: rows and cards are keyed by position, so whatever moves there  *)
(* inherits the state of the hook.                                            *)
(***************************************************************************)
EXTENDS Settings, Lists

CONSTANTS None,        \* no dialog, no hint, no row, no samples yet
          Found,       \* the applications on the list that can be configured
          Suggested,   \* the pattern the agent suggests for a title
          Stored,      \* drafts the page may be opened with
          MaxEdits,    \* bound on the edits
          MaxAsked     \* bound on the suggestions and title lists under way

ASSUME EditorAssumption ==
    /\ None \notin Names \cup (Matches \X Names)
    /\ Found \subseteq Names \ {Blank}
    /\ Suggested \in Compiles \ {NoMatch}
    /\ Stored \subseteq {d \in Drafts : Orphans(d) = {}}
    /\ MaxEdits \in Nat /\ MaxAsked \in Nat

VARIABLES
    draft,
    dialog,    \* the process whose titles are to be published, or None
    typed,     \* what stands in the dialog's field
    samples,   \* None, or the process whose titles the dialog lists; Blank if none came
    hint,      \* the text and the process the row's answer is for, or None
    debounce,  \* the row waits before it asks
    asked,     \* requests whose answers count: cancelled ones have no effect
    failed,    \* a test of a pattern has failed
    consent,   \* names typed in the dialog, and neither switched off nor removed since
    left,      \* names a rule has been renamed away from
    edits

vars == <<draft, dialog, typed, samples, hint, debounce, asked, failed, consent, left, edits>>

Requests == [by : {"test", "titles", "suggest"}, process : Names, match : Matches]
Request(by, p, m) == [by |-> by, process |-> p, match |-> m]

Keyed(S) == {Normal(e) : e \in S}

TypeOK ==
    /\ draft \in Drafts
    /\ dialog \in (Names \ {Blank}) \cup {None}
    /\ typed \in Names
    /\ samples \in Names \cup {None}
    /\ hint \in ((Matches \ {NoMatch}) \X Names) \cup {None}
    /\ {debounce, failed} \subseteq BOOLEAN
    /\ asked \in Seq(Requests)
    /\ {consent, left} \subseteq SUBSET Keyed(Names)
    /\ edits \in 0..MaxEdits

----------------------------------------------------------------------------
(* The row, and what its hook does when the row changes.                     *)

Row(d) ==
    IF d.rules # <<>> /\ Rule(d, 1).patterns # <<>>
    THEN <<Rule(d, 1).patterns[1], Rule(d, 1).process>> ELSE None

\* Mutation: the empty pattern is tested too.
TestedEmpty(d) == Row(d) # None

Tested(d) == Row(d) # None /\ Row(d)[1] # NoMatch

\* Mutation: the clean-up of the effect forgets to cancel.
CancelNothing(requests, by) == requests

Cancel(requests, by) == Kept(requests, {r \in Requests : r.by # by})

Init ==
    /\ draft \in Stored
    /\ dialog = None /\ typed = Blank /\ samples = None
    /\ hint = None /\ debounce = Tested(draft) /\ asked = <<>> /\ failed = FALSE
    /\ consent = Keyed(draft.expose) /\ left = {} /\ edits = 0

\* Mutation: the effect skips the first render of a row.
ShowNotOnMount(d, requests) ==
    /\ draft' = d
    /\ IF Row(d) = Row(draft)
       THEN asked' = requests /\ UNCHANGED <<hint, debounce>>
       ELSE /\ asked' = Cancel(requests, "test")
            /\ debounce' = (Tested(d) /\ Row(draft) # None)
            /\ hint' = IF Tested(d) /\ Row(draft) # None THEN hint ELSE None

\* A new draft on the screen.  An unmounted row loses its state, an empty
\* pattern has no hint; otherwise the old one stays until the answer.
Show(d, requests) ==
    /\ draft' = d
    /\ IF Row(d) = Row(draft)
       THEN asked' = requests /\ UNCHANGED <<hint, debounce>>
       ELSE /\ asked' = Cancel(requests, "test")
            /\ debounce' = Tested(d)
            /\ hint' = IF Tested(d) /\ Row(draft) # None THEN hint ELSE None

Edit(d) ==
    /\ edits < MaxEdits
    /\ edits' = edits + 1
    /\ Show(d, asked)
    /\ UNCHANGED failed

InForm == dialog = None /\ UNCHANGED <<dialog, typed, samples>>

----------------------------------------------------------------------------
(* RuleEditor: the cards and their rows.                                     *)

AddByHand == InForm /\ Edit(AddRule(draft, NewRule(Blank))) /\ UNCHANGED <<consent, left>>

EditProcess(i, p) ==
    LET old == Rule(draft, i).process IN
    /\ InForm
    /\ p # old
    /\ Edit(SetProcess(draft, i, p))
    /\ left' = IF SameProcess(p, old) THEN left ELSE left \cup {Normal(old)}
    /\ UNCHANGED consent

EditApp(i) ==
    /\ InForm
    /\ Edit(SetApp(draft, i, ~Rule(draft, i).named))
    /\ UNCHANGED <<consent, left>>

PressRemove(i) ==
    /\ InForm
    /\ Edit(RemoveRule(draft, i))
    /\ consent' = consent \ {Normal(Rule(draft, i).process)}
    /\ UNCHANGED left

PressAddPattern(i) ==
    InForm /\ Edit(AddPattern(draft, i, NoMatch)) /\ UNCHANGED <<consent, left>>

RowAction(i, j) ==
    \/ \E m \in Matches \ {Rule(draft, i).patterns[j]} : Edit(SetMatch(draft, i, j, m))
    \/ j # 1 /\ Edit(MovePattern(draft, i, j, j - 1))
    \/ j # Len(Rule(draft, i).patterns) /\ Edit(MovePattern(draft, i, j, j + 1))
    \/ Edit(RemovePattern(draft, i, j))

EditRow(i, j) == InForm /\ RowAction(i, j) /\ UNCHANGED <<consent, left>>

\* usePatternTest: the debounce runs out and the agent is asked.
AskTest ==
    /\ debounce
    /\ debounce' = FALSE
    /\ asked' = Append(asked, Request("test", Row(draft)[2], Row(draft)[1]))
    /\ UNCHANGED <<draft, dialog, typed, samples, hint, failed, consent, left, edits>>

TestAnswered(i) ==
    /\ asked[i].by = "test"
    /\ asked' = RemoveAt(asked, i)
    /\ \/ hint' = <<asked[i].match, asked[i].process>> /\ UNCHANGED failed
       \/ hint' = None /\ failed' = TRUE
    /\ UNCHANGED <<draft, dialog, typed, samples, debounce, consent, left, edits>>

----------------------------------------------------------------------------
(* DangerZone and its dialog.                                               *)

CloseDialog ==
    /\ dialog' = None /\ typed' = Blank /\ samples' = None

\* A rule with a name has a switch.
Switch(i) == Normal(Rule(draft, i).process) # Blank

OpenDialog(i) ==
    LET p == Rule(draft, i).process IN
    /\ dialog = None
    /\ Switch(i) /\ ~ExposesTitle(draft, p)
    /\ dialog' = p /\ typed' = Blank /\ samples' = None
    /\ Len(asked) < MaxAsked
    /\ asked' = Append(asked, Request("titles", p, NoMatch))
    /\ UNCHANGED <<draft, hint, debounce, failed, consent, left, edits>>

Type(t) ==
    /\ dialog # None
    /\ t # typed
    /\ typed' = t
    /\ UNCHANGED <<draft, dialog, samples, hint, debounce, asked, failed, consent, left, edits>>

Confirm ==
    /\ dialog # None /\ ConfirmationMatches(typed, dialog)
    /\ edits < MaxEdits
    /\ edits' = edits + 1
    /\ Show(SetExposeTitle(draft, dialog, TRUE), Cancel(asked, "titles"))
    /\ consent' = consent \cup {Normal(typed)}
    /\ CloseDialog
    /\ UNCHANGED <<failed, left>>

CancelDialog ==
    /\ dialog # None
    /\ CloseDialog
    /\ asked' = Cancel(asked, "titles")
    /\ UNCHANGED <<draft, hint, debounce, failed, consent, left, edits>>

SwitchOff(i) ==
    LET p == Rule(draft, i).process IN
    /\ InForm
    /\ Switch(i) /\ ExposesTitle(draft, p)
    /\ Edit(SetExposeTitle(draft, p, FALSE))
    /\ consent' = consent \ {Normal(p)}
    /\ UNCHANGED left

\* useLiveTitles asks again every two seconds, and lists nothing on a failure.
PollTitles ==
    /\ dialog # None /\ Len(asked) < MaxAsked
    /\ asked' = Append(asked, Request("titles", dialog, NoMatch))
    /\ UNCHANGED <<draft, dialog, typed, samples, hint, debounce, failed, consent, left, edits>>

TitlesAnswered(i) ==
    /\ asked[i].by = "titles"
    /\ asked' = RemoveAt(asked, i)
    /\ samples' \in {asked[i].process, Blank}
    /\ UNCHANGED <<draft, dialog, typed, hint, debounce, failed, consent, left, edits>>

----------------------------------------------------------------------------
(* DiscoveryPanel, handleAddRule and handleAddPattern.                       *)

Configured(p) == RulesOf(draft, p) # {}

PressAddRule(p) ==
    /\ InForm
    /\ ~Configured(p)
    /\ Edit(AddRule(draft, NewRule(p)))
    /\ UNCHANGED <<consent, left>>

\* The click counts against the bound; what it leads to comes with the answer.
PressAddSample(p) ==
    /\ InForm
    /\ Configured(p)
    /\ Len(asked) < MaxAsked /\ edits < MaxEdits
    /\ edits' = edits + 1
    /\ asked' = Append(asked, Request("suggest", p, NoMatch))
    /\ UNCHANGED <<draft, hint, debounce, failed, consent, left>>

\* Mutation: a rule that is gone is taken to be the first one.
HomeOrFirst(p) == IF Configured(p) THEN FirstOf(RulesOf(draft, p)) ELSE DOMAIN draft.rules \cap {1}

\* findIndex on the draft as it is when the answer comes.
Home(p) == FirstOf(RulesOf(draft, p))

SuggestAnswered(i) ==
    LET p == asked[i].process IN
    /\ asked[i].by = "suggest"
    /\ \E m \in {Suggested, NoMatch} :
          \/ Home(p) = {} /\ Show(draft, RemoveAt(asked, i))
          \/ \E h \in Home(p) : Show(AddPattern(draft, h, m), RemoveAt(asked, i))
    /\ UNCHANGED <<dialog, typed, samples, failed, consent, left, edits>>

----------------------------------------------------------------------------
\* What stands below the pattern of the row.
MatchHint ==
    IF ~Tested(draft) THEN "matches all" ELSE IF hint = None THEN "checking" ELSE "counts"

CardStep(i) ==
    \/ \E p \in Names : EditProcess(i, p)
    \/ EditApp(i) \/ PressRemove(i) \/ PressAddPattern(i)
    \/ \E j \in DOMAIN Rule(draft, i).patterns : EditRow(i, j)

SwitchStep(i) == OpenDialog(i) \/ SwitchOff(i)

DialogStep == (\E t \in Names : Type(t)) \/ Confirm \/ CancelDialog \/ PollTitles

PanelStep == \E p \in Found : PressAddRule(p) \/ PressAddSample(p)

AnswerStep == \E i \in DOMAIN asked : TestAnswered(i) \/ TitlesAnswered(i) \/ SuggestAnswered(i)

Next ==
    \/ AddByHand
    \/ \E i \in DOMAIN draft.rules : CardStep(i) \/ SwitchStep(i)
    \/ DialogStep
    \/ PanelStep
    \/ AskTest
    \/ AnswerStep

Spec == Init /\ [][Next]_vars

\* The browser fires its timers and the agent answers; the user owes nothing.
FairSpec == Spec /\ WF_vars(AskTest) /\ WF_vars(\E i \in DOMAIN asked : TestAnswered(i))

----------------------------------------------------------------------------
(* Properties.                                                              *)

\* Raw titles are published of exactly the names that were typed in the dialog
\* and neither switched off nor removed since (DangerZone, removeRule).
ExposedByConsent == Keyed(draft.expose) = consent

\* The agent refuses an exposure without a rule, and the form has no switch for
\* it: one comes about only where a rule was renamed, never by a removal.
OrphansByRename == Keyed(Orphans(draft)) \subseteq left

\* At rest the hint of the row is about the pattern and the process it stands
\* by, and the dialog lists the titles of the process it is about.
AnswersArePresent ==
    /\ MatchHint = "counts" =>
          hint = Row(draft) \/ debounce \/ \E i \in DOMAIN asked : asked[i].by = "test"
    /\ samples \in {None, Blank, dialog}

\* A draft that changes without a click has gained one pattern, in a rule of a
\* process whose sample was clicked, whatever happened to the rules meanwhile.
SuggestionLandsHome ==
    [][draft' # draft /\ edits' = edits =>
         \E r \in ToSet(asked), i \in DOMAIN draft.rules, m \in Matches :
            /\ r.by = "suggest" /\ SameProcess(Rule(draft, i).process, r.process)
            /\ draft' = AddPattern(draft, i, m)]_vars

\* A row with a pattern gets its answer, unless it changes again or a test fails.
HintSettles ==
    \A m \in Matches \ {NoMatch}, p \in Names :
        Row(draft) = <<m, p>> ~>
            (MatchHint = "counts" /\ hint = <<m, p>>) \/ Row(draft) # <<m, p>> \/ failed
=============================================================================
