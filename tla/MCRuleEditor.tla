--------------------------- MODULE MCRuleEditor ---------------------------
(* The form with two applications, one of which is written in two ways; the *)
(* moves and pastes are checked over every short list.                       *)
EXTENDS RuleEditor

CONSTANTS chrome, Chrome, mail, blank, empty, word, broken

TheNames == {chrome, Chrome, mail, blank}
Lowered(p) == IF p = Chrome THEN chrome ELSE p

Named(p, ps) == [process |-> p, named |-> TRUE, patterns |-> ps]
StoredDrafts ==
    {[rules |-> <<>>, expose |-> {}],
     [rules |-> <<Named(chrome, <<word>>), Named(mail, <<>>)>>, expose |-> {Chrome}]}

Conns == [{"server_url", "interval", "idle_threshold"} -> Texts]
Conn(s) == [f \in Fields |-> IF f \in DOMAIN s THEN s[f] ELSE "good"]

\* With nothing under way, whatever was edited: nothing on the form is marked,
\* and no exposure lacks its rule, exactly if the agent accepts the draft; and
\* of a name claimed twice every rule is marked at once, though the agent names
\* only one.
MarksMatchJudgement ==
    asked = <<>> /\ dialog = None => \A s \in Conns :
        LET issue == Issue(Conn(s), draft)
            marks == Marks(draft, issue)
        IN  /\ issue = {} <=> marks = {} /\ Orphans(draft) = {}
            /\ \A i, j \in DOMAIN draft.rules :
                  /\ i # j /\ SameProcess(Rule(draft, i).process, Rule(draft, j).process)
                  /\ Normal(Rule(draft, i).process) # Blank
                  => Path(i, "process") \in marks

\* The lines that give a field a value.
Filling(lines, f) == {i \in DOMAIN lines : lines[i].key = f /\ lines[i].text # "empty"}

\* An edit changes what it says and nothing beside: a move takes one pattern
\* where the button says and keeps the order of the others, since the first
\* that matches is the one that counts, and a paste fills in the fields it
\* carries, from the last line of each that has a value, and wipes none, in
\* whatever order and with whatever prose they come.
\* It speaks of operators alone, and TLC is asked once.
EditsTouchTheirTarget ==
    edits = 0 /\ draft.rules = <<>> =>
        /\ \A n \in 1..4 : \A from, to \in 1..n :
              LET ps == [k \in 1..n |-> k] IN
              /\ Moved(ps, from, to)[to] = from
              /\ RemoveAt(Moved(ps, from, to), to) = RemoveAt(ps, from)
        /\ \A s \in Conns, lines \in BoundedSeq(Lines, 3) : \A f \in Fields :
              /\ Filling(lines, f) = {} => Pasted(Conn(s), lines)[f] = Conn(s)[f]
              /\ \A i \in Filling(lines, f) : (\A j \in Filling(lines, f) : j <= i) =>
                    Pasted(Conn(s), lines)[f] = lines[i].text
=============================================================================
