------------------------------- MODULE Rules -------------------------------
(***************************************************************************)
(* The operations on a draft's rules (webui/src/lib/rules.ts) and the       *)
(* confirmation phrase (webui/src/lib/confirm.ts).  A process name is what   *)
(* it normalises to; what a rule and a pattern say publicly is left out,     *)
(* but for whether the rule says anything.  Nothing reads the order of       *)
(* expose_title, a set here.                                                 *)
(***************************************************************************)
EXTENDS Integers, SequencesExt

CONSTANTS Names,       \* what a process field may hold
          Blank,       \* the blank name
          Normal(_),   \* trimmed and lowercased
          Matches,     \* what a pattern field may hold
          NoMatch,     \* the empty pattern
          Compiles     \* the patterns that are regular expressions

ASSUME NamesAssumption ==
    /\ Blank \in Names /\ Normal(Blank) = Blank
    /\ \A p \in Names : Normal(p) \in Names /\ Normal(Normal(p)) = Normal(p)

ASSUME MatchesAssumption == NoMatch \in Compiles /\ Compiles \subseteq Matches

RulesType == [process : Names, named : BOOLEAN, patterns : Seq(Matches)]
Drafts == [rules : Seq(RulesType), expose : SUBSET Names]

SameProcess(p, q) == Normal(p) = Normal(q)
Rule(d, i) == d.rules[i]
RulesOf(d, p) == {i \in DOMAIN d.rules : SameProcess(Rule(d, i).process, p)}

NewRule(p) == [process |-> p, named |-> FALSE, patterns |-> <<>>]
AddRule(d, rule) == [d EXCEPT !.rules = Append(@, rule)]

Without(d, p) == {e \in d.expose : ~SameProcess(e, p)}

\* Mutation: the names are compared as they are written.
RemoveRuleAsWritten(d, i) ==
    [rules |-> RemoveAt(d.rules, i), expose |-> d.expose \ {Rule(d, i).process}]

RemoveRule(d, i) ==
    [rules |-> RemoveAt(d.rules, i), expose |-> Without(d, Rule(d, i).process)]

SetProcess(d, i, p) == [d EXCEPT !.rules[i].process = p]
SetApp(d, i, named) == [d EXCEPT !.rules[i].named = named]
SetPatterns(d, i, ps) == [d EXCEPT !.rules[i].patterns = ps]

AddPattern(d, i, m) == SetPatterns(d, i, Append(Rule(d, i).patterns, m))
SetMatch(d, i, j, m) == SetPatterns(d, i, [Rule(d, i).patterns EXCEPT ![j] = m])
RemovePattern(d, i, j) == SetPatterns(d, i, RemoveAt(Rule(d, i).patterns, j))

\* Mutation: the target is taken before the pattern is lifted out.
MovedEarly(ps, from, to) == RemoveAt(InsertAt(ps, to, ps[from]), from)

Moved(ps, from, to) == InsertAt(RemoveAt(ps, from), to, ps[from])

MovePattern(d, i, from, to) ==
    LET ps == Rule(d, i).patterns IN
    IF from # to /\ {from, to} \subseteq DOMAIN ps
    THEN SetPatterns(d, i, Moved(ps, from, to))
    ELSE d

ExposesTitle(d, p) == \E e \in d.expose : SameProcess(e, p)
SetExposeTitle(d, p, exposed) ==
    [d EXCEPT !.expose = Without(d, p) \cup (IF exposed THEN {p} ELSE {})]

\* One rule of the pass below.
See(acc, rule) ==
    LET key == Normal(rule.process) IN
    IF key = Blank THEN acc
    ELSE [seen |-> acc.seen \cup {key},
          dups |-> IF key \in acc.seen THEN acc.dups \cup {key} ELSE acc.dups]

\* The names claimed by more than one rule, found in one pass.
DuplicateProcesses(d) ==
    LET pass[n \in 0..Len(d.rules)] ==
            IF n = 0 THEN [seen |-> {}, dups |-> {}] ELSE See(pass[n - 1], Rule(d, n))
    IN  pass[Len(d.rules)].dups

\* Mutation: what was typed is not looked at.
ConfirmationAnything(typed, p) == Normal(p) # Blank

ConfirmationMatches(typed, p) == Normal(p) # Blank /\ SameProcess(typed, p)
=============================================================================
