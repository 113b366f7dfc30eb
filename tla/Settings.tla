------------------------------ MODULE Settings ------------------------------
(***************************************************************************)
(* What the agent refuses a draft for (internal/config/config.go, draft.go,  *)
(* mapping.go) and what the form marks (ConnectionSettings, AdvancedSettings, *)
(* RuleEditor), and the pasted snippet (webui/src/lib/register.ts).           *)
(* A setting is a draft of Rules with the five fields that can be refused.    *)
(***************************************************************************)
EXTENDS Rules

Keys == {"server_url", "device_id", "token", "interval"}
Durations == {"interval", "idle_threshold"}
Fields == Keys \cup Durations
\* Odd is what parses and is refused: a server that is not http(s)://host, a
\* negative duration.
Texts == {"empty", "bad", "odd", "good"}

Path(i, key) == <<"rules", i, key>>
MatchPath(i, j) == <<"rules", i, "match", j>>
FirstOf(S) == {i \in S : \A j \in S : i <= j}

\* The fields with such a text.
Those(c, fields, text) == {<<f>> : f \in {g \in fields : c[g] = text}}

EmptyField(d) ==
    LET nameless(i) == Normal(Rule(d, i).process) = Blank
        first == FirstOf({i \in DOMAIN d.rules : nameless(i) \/ ~Rule(d, i).named})
    IN  {Path(i, IF nameless(i) THEN "process" ELSE "app") : i \in first}

\* mapping.New: within a rule, its name is looked at before its patterns.
BadRule(d) ==
    LET repeated(i) == \E j \in 1..(i - 1) : j \in RulesOf(d, Rule(d, i).process)
        wrong(i) == {j \in DOMAIN Rule(d, i).patterns : Rule(d, i).patterns[j] \notin Compiles}
        first == FirstOf({i \in DOMAIN d.rules : repeated(i) \/ wrong(i) # {}})
    IN  UNION {IF repeated(i) THEN {Path(i, "process")}
               ELSE {MatchPath(i, j) : j \in FirstOf(wrong(i))} : i \in first}

Orphans(d) == {e \in d.expose : RulesOf(d, e) = {}}

\* The paths of the first complaint: Draft.Config, then Config.Validate.  Between
\* the two an empty duration, and one of zero, is filled with its default.
Issue(c, d) ==
    LET stages == <<Those(c, {"interval"}, "bad"), Those(c, {"idle_threshold"}, "bad"),
                    Those(c, Keys \ Durations, "empty"),
                    Those(c, {"server_url"}, "bad"), Those(c, {"server_url"}, "odd"),
                    Those(c, {"interval"}, "odd"), Those(c, {"idle_threshold"}, "odd"),
                    EmptyField(d), BadRule(d), {<<"expose_title">> : e \in Orphans(d)}>>
        hit == {s \in DOMAIN stages : stages[s] # {}}
    IN  UNION {stages[s] : s \in FirstOf(hit)}

\* The cards mark what the agent flagged...
Flagged(d, fields) ==
    {m \in fields : \E i \in DOMAIN d.rules :
        \/ \E key \in {"process", "app"} : m = Path(i, key)
        \/ \E j \in DOMAIN Rule(d, i).patterns : m = MatchPath(i, j)}

\* Mutation: the form leaves the duplicates to the agent's first complaint.
CardMarksFlagged(d, fields) == Flagged(d, fields)

\* ... and every duplicate.
CardMarks(d, fields) ==
    {Path(i, "process") : i \in {k \in DOMAIN d.rules :
        Normal(Rule(d, k).process) \in DuplicateProcesses(d)}}
    \cup Flagged(d, fields)

Marks(d, fields) == ({<<f>> : f \in Fields} \cap fields) \cup CardMarks(d, fields)

----------------------------------------------------------------------------
(* The snippet: lines that carry a known key and a value, or something else. *)

Lines == [key : Keys \cup {"other"}, text : {"empty", "odd", "good"}]

\* One line: a key that is known, with a value.
Take(found, line) ==
    IF line.key \in Keys /\ line.text # "empty"
    THEN [k \in DOMAIN found \cup {line.key} |->
             IF k = line.key THEN line.text ELSE found[k]]
    ELSE found

\* What the lines set; the last line of a key counts.
Parsed(lines) ==
    LET found[n \in 0..Len(lines)] ==
            IF n = 0 THEN <<>> ELSE Take(found[n - 1], lines[n])
    IN  found[Len(lines)]

\* handlePaste: a text without a key is pasted into the field it was meant for.
Pasted(c, lines) ==
    [f \in Fields |-> IF f \in DOMAIN Parsed(lines) THEN Parsed(lines)[f] ELSE c[f]]
=============================================================================
