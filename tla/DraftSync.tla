----------------------------- MODULE DraftSync -----------------------------
(***************************************************************************)
(* The setup page and the agent it configures: the page edits a draft       *)
(* locally and pushes it after a debounce (webui/src/hooks/useDraft.ts),    *)
(* the agent holds the draft it will save and the mapper the live preview   *)
(* resolves against (internal/setup/server.go), and only a save, pressed in *)
(* the page (webui/src/App.tsx), reaches the file (internal/config/save.go).*)
(*                                                                          *)
(* A draft is a value; what the code asks of one is what it normalises to,  *)
(* whether its durations parse, whether its rules compile and whether it is *)
(* valid.  The requests of the page may be handled, and answered, in any    *)
(* order; the page may be loaded again while some are under way, and the    *)
(* agent may end at any time.                                               *)
(***************************************************************************)
EXTENDS Integers, SequencesExt, Lists

CONSTANTS Drafts,
          Parsable,      \* drafts whose durations parse
          Compiles,      \* those whose rules also compile
          Valid,         \* those that name a server, a device and a token too
          Normal(_),     \* trimmed, and the defaults filled in
          Blank,         \* the empty form
          None,          \* no draft, no loadable file
          Empty, Torn,   \* a file just truncated; parts of one or two drafts
          MaxActs,       \* bound on the edits and page loads of the user
          MaxFaults      \* bound on what fails or dies

ASSUME DraftAssumption ==
    /\ Valid \subseteq Compiles
    /\ Compiles \subseteq Parsable
    /\ Parsable \subseteq Drafts
    /\ Blank \in Compiles \ Valid
    /\ \A d \in Parsable :
        /\ Normal(d) \in Parsable /\ Normal(Normal(d)) = Normal(d)
        /\ d \in Compiles <=> Normal(d) \in Compiles
        /\ d \in Valid <=> Normal(d) \in Valid
    /\ None \notin Drafts
    /\ {Empty, Torn} \cap (Drafts \cup {None}) = {} /\ Empty # Torn
    /\ MaxActs \in Nat
    /\ MaxFaults \in Nat

VARIABLES
    \* the page
    loaded,     \* the first GET has ended
    current,    \* the draft on the screen
    persisted,  \* what the page takes to be on disk
    pending,    \* the edit that is yet to be pushed, or None
    timer,      \* the debounce is running
    valid,      \* the agent's last judgement; enables the save button
    dirty,      \* the "unsaved changes" badge
    error,      \* the page says that it could not reach the agent
    saving,     \* what the page's save waits for
    finished,   \* the user has ended the session
    \* between the two, oldest first
    puts,       \* the pushes under way
    late,       \* drafts a page that has gone has pushed, yet to be handled
    saves,      \* the saves under way, with the agent's copy of the draft
    \* the agent and its disk
    up, draft, mapper,
    file, temp, backup,
    shared,     \* history: two saves have had the temporary file at once
    \* history and bounds
    acts, faults,
    reopened,   \* the page has been loaded again
    crossed,    \* a push has overtaken an older one, or the load of a page
    overrun,    \* a push failed beside another, or after a later edit
    hurried     \* an edit or a push was beside a save, or a save's push or its
                \* answer was lost

page == <<loaded, current, persisted, pending, timer, valid, dirty, error>>
agent == <<up, draft, mapper>>
disk == <<file, temp, backup, shared>>
slips == <<reopened, crossed, overrun, hurried>>
history == <<acts, faults, slips>>
vars == <<page, saving, finished, puts, late, saves, agent, disk, history>>

Puts == [draft : Drafts, handled : BOOLEAN, bySave : BOOLEAN]
\* A save has the temporary file open, has written it, has found that there is
\* no file yet or that there is one.
AtDisk == {"open", "written", "first", "next"}
Steps == {"sent", "taken", "saved", "refused"} \cup AtDisk
\* The save of a page that has gone is no longer live.
Saves == [cfg : Parsable \cup {None}, step : Steps, live : BOOLEAN]

FormOK ==
    /\ current \in Drafts
    /\ pending \in Drafts \cup {None}
    /\ timer => pending # None
    /\ puts \in Seq(Puts)

AgentOK ==
    /\ draft \in Parsable /\ Normal(draft) = draft
    /\ mapper \in Compiles
    /\ late \subseteq Drafts

TypeOK ==
    /\ FormOK /\ AgentOK
    /\ {loaded, timer, valid, dirty, error, finished, up, reopened, crossed, overrun, hurried, shared} \subseteq BOOLEAN
    /\ persisted \in Drafts \cup {None}
    /\ saving \in {"no", "flush", "post"}
    /\ saving = "flush" <=> \E i \in DOMAIN puts : puts[i].bySave
    /\ saves \in Seq(Saves)
    /\ saving = "post" <=> \E i \in DOMAIN saves : saves[i].live
    /\ {file, temp, backup} \subseteq Parsable \cup {None, Empty, Torn}
    /\ acts \in 0..MaxActs
    /\ faults \in 0..MaxFaults

\* The state of a page that has just been opened.
Fresh ==
    /\ loaded' = FALSE /\ current' = Blank /\ persisted' = None
    /\ pending' = None /\ timer' = FALSE
    /\ valid' = FALSE /\ dirty' = FALSE /\ error' = FALSE /\ saving' = "no"

\* The agent starts from the file, or from the defaults if it cannot be loaded.
Init ==
    /\ loaded = FALSE /\ current = Blank /\ persisted = None
    /\ pending = None /\ timer = FALSE
    /\ valid = FALSE /\ dirty = FALSE /\ error = FALSE /\ saving = "no" /\ finished = FALSE
    /\ puts = <<>> /\ late = {} /\ saves = <<>>
    /\ file \in {Normal(d) : d \in Valid} \cup {None}
    /\ temp = None /\ backup = None /\ shared = FALSE
    /\ up = TRUE
    /\ draft = IF file = None THEN Normal(Blank) ELSE file
    /\ mapper = draft
    /\ acts = 0 /\ faults = 0
    /\ reopened = FALSE /\ crossed = FALSE /\ overrun = FALSE /\ hurried = FALSE

----------------------------------------------------------------------------
(* Loading and editing.                                                     *)

Load ==
    /\ ~loaded /\ up
    /\ loaded' = TRUE
    /\ current' = draft
    /\ persisted' = draft
    /\ valid' = (draft \in Valid)
    /\ dirty' = FALSE /\ error' = FALSE
    /\ UNCHANGED <<pending, timer, saving, finished, puts, late, saves, agent, disk, history>>

\* A request or a write fails; every request does once the agent has ended.
Fails == IF up THEN faults < MaxFaults /\ faults' = faults + 1 ELSE UNCHANGED faults

\* The page goes on with the empty form it started from.
LoadFails ==
    /\ ~loaded
    /\ Fails
    /\ loaded' = TRUE
    /\ error' = TRUE
    /\ UNCHANGED <<current, persisted, pending, timer, valid, dirty, saving, finished,
                   puts, late, saves, agent, disk, acts, slips>>

Open == loaded /\ ~finished

\* Mutation: only the first edit of a debounce is kept.
EditLeading(d) ==
    /\ Open /\ acts < MaxActs
    /\ current' = d
    /\ dirty' = (d # persisted)
    /\ pending' = IF timer THEN pending ELSE d
    /\ timer' = TRUE
    /\ acts' = acts + 1
    /\ hurried' = (hurried \/ saving # "no")
    /\ UNCHANGED <<loaded, persisted, valid, error, saving, finished, puts, late, saves, agent,
                   disk, faults, reopened, crossed, overrun>>

\* Editing stays possible while a save is under way.
Edit(d) ==
    /\ Open /\ acts < MaxActs
    /\ current' = d
    /\ dirty' = (d # persisted)
    /\ pending' = d
    /\ timer' = TRUE
    /\ acts' = acts + 1
    /\ hurried' = (hurried \/ saving # "no")
    /\ UNCHANGED <<loaded, persisted, valid, error, saving, finished, puts, late, saves, agent,
                   disk, faults, reopened, crossed, overrun>>

\* The page is loaded again: the debounce and what waits in it are gone, and
\* what the agent has been sent it may still handle.
Refresh ==
    /\ Open /\ up
    /\ acts < MaxActs /\ acts' = acts + 1
    /\ reopened' = TRUE
    /\ Fresh
    /\ puts' = <<>>
    /\ \E arrived \in BOOLEAN :
        /\ late' = late \cup {puts[i].draft : i \in {j \in DOMAIN puts : arrived /\ ~puts[j].handled}}
        /\ LET left == Kept(saves, {v \in Saves :
                           v.step \in {"taken"} \cup AtDisk \/ (arrived /\ v.step = "sent")}) IN
           saves' = [i \in DOMAIN left |-> [left[i] EXCEPT !.live = FALSE]]
    /\ UNCHANGED <<finished, agent, disk, faults, crossed, overrun, hurried>>

----------------------------------------------------------------------------
(* Pushing.                                                                 *)

\* flush with something pending, up to its await.
Push(bySave) ==
    /\ puts' = Append(puts, [draft |-> pending, handled |-> FALSE, bySave |-> bySave])
    /\ pending' = None
    /\ timer' = FALSE

TimerFires ==
    /\ Open /\ timer
    /\ Push(FALSE)
    /\ UNCHANGED <<loaded, current, persisted, valid, dirty, error, saving, finished, late, saves,
                   agent, disk, history>>

\* handlePutConfig: a draft whose durations do not parse leaves the old one in
\* place, and rules that do not compile leave the old mapper in place.
Adopt(d) ==
    /\ up
    /\ draft' = IF d \in Parsable THEN Normal(d) ELSE draft
    /\ mapper' = IF d \in Compiles THEN Normal(d) ELSE mapper
    /\ UNCHANGED <<page, saving, finished, saves, up, disk, acts, faults, reopened, overrun, hurried>>

HandlePut(i) ==
    /\ Adopt(puts[i].draft)
    /\ ~puts[i].handled
    /\ puts' = [puts EXCEPT ![i].handled = TRUE]
    /\ crossed' = (crossed \/ \E j \in 1..(i - 1) : ~puts[j].handled)
    /\ UNCHANGED late

\* Nobody hears the answer.
HandleLate(d) ==
    /\ Adopt(d)
    /\ late' = late \ {d}
    /\ crossed' = (crossed \/ loaded)
    /\ UNCHANGED puts

\* The request of a save, sent when its flush has let it.
Post == Append(saves, [cfg |-> None, step |-> "sent", live |-> TRUE])

\* Mutation: the agent judges the draft it holds instead of the one it was sent.
PutAnsweredFromHeld(i) ==
    /\ puts[i].handled
    /\ puts' = RemoveAt(puts, i)
    /\ valid' = (draft \in Valid)
    /\ error' = FALSE
    /\ IF puts[i].bySave /\ valid'
       THEN saving' = "post" /\ saves' = Post
       ELSE saving' = (IF puts[i].bySave THEN "no" ELSE saving) /\ UNCHANGED saves
    /\ crossed' = (crossed \/ i # 1)
    /\ UNCHANGED <<loaded, current, persisted, pending, timer, dirty, finished, late,
                   agent, disk, acts, faults, reopened, overrun, hurried>>

\* The rest of flush, and of handleSave if that is what awaits it.
PutAnswered(i) ==
    /\ puts[i].handled
    /\ puts' = RemoveAt(puts, i)
    /\ valid' = (puts[i].draft \in Valid)
    /\ error' = FALSE
    /\ IF puts[i].bySave /\ valid'
       THEN saving' = "post" /\ saves' = Post
       ELSE saving' = (IF puts[i].bySave THEN "no" ELSE saving) /\ UNCHANGED saves
    /\ crossed' = (crossed \/ i # 1)
    /\ UNCHANGED <<loaded, current, persisted, pending, timer, dirty, finished, late,
                   agent, disk, acts, faults, reopened, overrun, hurried>>

\* The request or its answer is lost: what was pushed is pending again, in
\* place of a later edit if there is one, and no timer is started.  A save goes
\* on all the same, since flush returns null as it does with nothing to push.
PutFails(i) ==
    /\ Fails
    /\ puts' = RemoveAt(puts, i)
    /\ pending' = puts[i].draft
    /\ error' = TRUE
    /\ overrun' = (overrun \/ puts[i].draft # current \/ Len(puts) > 1)
    /\ IF puts[i].bySave
       THEN saving' = "post" /\ saves' = Post /\ hurried' = TRUE
       ELSE UNCHANGED <<saving, saves, hurried>>
    /\ UNCHANGED <<loaded, current, persisted, timer, valid, dirty, finished, late,
                   agent, disk, acts, reopened, crossed>>

----------------------------------------------------------------------------
(* Saving.                                                                  *)

\* SaveControls: the two buttons, and the badge beside them.
Enabled == Open /\ valid /\ saving = "no"
Badge == IF ~valid THEN "cannot be saved" ELSE IF dirty THEN "unsaved" ELSE "none"

\* Mutation: flush leaves the debounce running.
PressSaveKeepsTimer ==
    /\ Enabled
    /\ IF pending = None
       THEN saving' = "post" /\ saves' = Post /\ UNCHANGED <<puts, pending, timer>>
       ELSE /\ saving' = "flush"
            /\ puts' = Append(puts, [draft |-> pending, handled |-> FALSE, bySave |-> TRUE])
            /\ pending' = None
            /\ UNCHANGED <<timer, saves>>
    /\ hurried' = (hurried \/ puts # <<>>)
    /\ UNCHANGED <<loaded, current, persisted, valid, dirty, error, finished, late, agent,
                   disk, acts, faults, reopened, crossed, overrun>>

\* Mutation: the page saves without pushing the pending edit first.
PressSaveUnflushed ==
    /\ Enabled
    /\ saving' = "post" /\ saves' = Post
    /\ hurried' = (hurried \/ puts # <<>>)
    /\ UNCHANGED <<page, finished, puts, late, agent, disk, acts, faults, reopened, crossed, overrun>>

\* handleSave of the page, up to its first await.
PressSave ==
    /\ Enabled
    /\ IF pending = None
       THEN saving' = "post" /\ saves' = Post /\ UNCHANGED <<puts, pending, timer>>
       ELSE saving' = "flush" /\ Push(TRUE) /\ UNCHANGED saves
    /\ hurried' = (hurried \/ puts # <<>>)
    /\ UNCHANGED <<loaded, current, persisted, valid, dirty, error, finished, late, agent,
                   disk, acts, faults, reopened, crossed, overrun>>

Moves(i, from, to) ==
    /\ saves[i].step = from
    /\ saves' = [saves EXCEPT ![i].step = to]
    /\ UNCHANGED <<page, saving, finished, puts, late, agent, history>>

\* handleSave of the agent copies the draft under the lock ...
TakeDraft(i) ==
    /\ up
    /\ saves[i].step = "sent"
    /\ saves' = [saves EXCEPT ![i].step = "taken", ![i].cfg = draft]
    /\ UNCHANGED <<page, saving, finished, puts, late, agent, disk, history>>

\* ... config.Save validates it and opens the temporary file next to the file,
\* truncating it, whoever else has it open ...
Truncate(i) ==
    /\ up
    /\ IF saves[i].cfg \in Valid
       THEN /\ Moves(i, "taken", "open")
            /\ temp' = Empty
            /\ shared' = (shared \/ \E j \in DOMAIN saves : saves[j].step \in AtDisk)
       ELSE Moves(i, "taken", "refused") /\ UNCHANGED <<temp, shared>>
    /\ UNCHANGED <<file, backup>>

\* ... writes it from its beginning and closes it: of what another save has
\* written since, the end may stay ...
Write(i) ==
    /\ up
    /\ Moves(i, "open", "written")
    /\ temp' \in {saves[i].cfg} \cup (IF temp = Empty THEN {} ELSE {Torn})
    /\ UNCHANGED <<file, backup, shared>>

\* ... looks whether there is a file ...
Stat(i) ==
    /\ up
    /\ Moves(i, "written", IF file = None THEN "first" ELSE "next")
    /\ UNCHANGED disk

\* Neither renamed nor removed: Go's files are shared for writing, not deleting.
Held == \E j \in DOMAIN saves : saves[j].step = "open"

\* ... and puts the temporary file into its place, ReplaceFileW moving the old
\* one to the backup, where a rename would drop it.  There may be nothing to put
\* there: another save has put it there, or removed it.
Replace(i) ==
    /\ up
    /\ \E from \in {"first", "next"} :
        IF temp # None /\ ~Held
        THEN /\ Moves(i, from, "saved")
             /\ file' = temp /\ temp' = None
             /\ backup' = IF from = "first" THEN backup ELSE file
        ELSE Moves(i, from, "refused") /\ UNCHANGED <<file, temp, backup>>
    /\ UNCHANGED shared

Fault(i, steps) ==
    /\ up /\ Fails
    /\ saves[i].step \in steps
    /\ saves' = [saves EXCEPT ![i].step = "refused"]
    /\ UNCHANGED <<page, saving, finished, puts, late, agent, file, backup, shared, acts, slips>>

\* Mutation: the error of the write is not looked at.
WriteFailsUnseen(i) ==
    /\ up /\ Fails
    /\ saves[i].step = "open"
    /\ saves' = [saves EXCEPT ![i].step = "written"]
    /\ temp' \in {temp, Torn}
    /\ UNCHANGED <<page, saving, finished, puts, late, agent, file, backup, shared, acts, slips>>

\* The temporary file cannot be opened, or written to its end.  What has been
\* written stays.
WriteFails(i) ==
    \/ saves[i].cfg \in Valid /\ Fault(i, {"taken"}) /\ UNCHANGED temp
    \/ Fault(i, {"open"}) /\ temp' \in {temp, Torn}

\* The look at the file or the replacement fails, and the temporary file is
\* removed.
ReplaceFails(i) ==
    /\ Fault(i, {"written", "first", "next"})
    /\ temp' = IF Held THEN temp ELSE None

\* markSaved records the draft on the screen, not the one that was written.
SaveAnswered(i) ==
    /\ saves[i].step \in {"saved", "refused"}
    /\ saves' = RemoveAt(saves, i)
    /\ IF saves[i].live
       THEN /\ saving' = "no"
            /\ IF saves[i].step = "saved"
               THEN persisted' = current /\ dirty' = FALSE
               ELSE UNCHANGED <<persisted, dirty>>
       ELSE UNCHANGED <<saving, persisted, dirty>>
    /\ UNCHANGED <<loaded, current, pending, timer, valid, error, finished, puts, late, agent,
                   disk, history>>

\* The request is lost before it is handled, or its answer after it.
SaveLost(i) ==
    /\ saves[i].live /\ saves[i].step \in {"sent", "saved", "refused"}
    /\ Fails
    /\ saving' = "no"
    /\ saves' = RemoveAt(saves, i)
    /\ hurried' = (hurried \/ saves[i].step = "saved")
    /\ UNCHANGED <<page, finished, puts, late, agent, disk, acts, reopened, crossed, overrun>>

\* handleFinish: nothing is left to warn about, and the agent is asked to quit.
Finish ==
    /\ Enabled
    /\ finished' = TRUE
    /\ persisted' = current
    /\ dirty' = FALSE
    /\ UNCHANGED <<loaded, current, pending, timer, valid, error, saving, puts, late, saves, agent,
                   disk, history>>

\* The agent quits, has been idle for too long, is interrupted or killed: what
\* is under way has come to nothing, the disk stays as it is.
Die ==
    /\ up /\ (finished \/ faults < MaxFaults)
    /\ up' = FALSE
    /\ faults' = IF finished THEN faults ELSE faults + 1
    /\ puts' = [i \in DOMAIN puts |-> [puts[i] EXCEPT !.handled = FALSE]]
    /\ late' = {}
    /\ LET waiting == Kept(saves, {v \in Saves : v.live}) IN
       saves' = [i \in DOMAIN waiting |-> [waiting[i] EXCEPT !.step = "sent"]]
    /\ hurried' = (hurried \/ \E i \in DOMAIN saves : saves[i].live /\ saves[i].step = "saved")
    /\ UNCHANGED <<page, saving, finished, draft, mapper, disk, acts, reopened, crossed, overrun>>

----------------------------------------------------------------------------
Save(i) == TakeDraft(i) \/ Truncate(i) \/ Write(i) \/ Stat(i) \/ Replace(i)
SaveStep == \E i \in DOMAIN saves : Save(i) \/ SaveAnswered(i)
SyncStep == \E i \in DOMAIN puts : HandlePut(i) \/ PutAnswered(i)

Next ==
    \/ Load \/ LoadFails \/ Refresh
    \/ \E d \in Drafts : Edit(d)
    \/ PressSave \/ Finish \/ Die
    \/ ~finished /\ (\/ TimerFires \/ SyncStep
                     \/ \E i \in DOMAIN puts : PutFails(i)
                     \/ \E i \in DOMAIN saves : SaveLost(i))
    \/ \E d \in late : HandleLate(d)
    \/ SaveStep \/ \E i \in DOMAIN saves : WriteFails(i) \/ ReplaceFails(i)

Spec == Init /\ [][Next]_vars

\* The browser fires its timers and delivers answers, and the agent's handlers
\* run while it does.  The user owes nothing.
FairSpec ==
    /\ Spec
    /\ WF_vars(Load)
    /\ WF_vars(TimerFires)
    /\ WF_vars(~finished /\ SyncStep)
    /\ WF_vars(SaveStep)

----------------------------------------------------------------------------
(* Properties.                                                              *)

\* What is in the file is a configuration the agent starts with, although the
\* button is enabled by an earlier judgement than the draft that is saved, and
\* whichever part of a save fails or is cut off by the end of the agent; and the
\* configuration before it is in the backup (internal/config/save.go: "The write
\* is atomic").  That is so unless two saves have had the temporary file at once.
\* Even then, once there is a file there always is.
FileIsSafe ==
    /\ [](shared \/ file \in Valid \cup {None})
    /\ [][file' # file => file' # None /\ (shared \/ file = None \/ backup' = file)]_vars

\* When the page has nothing left to push and shows no error, the agent holds
\* the draft on the screen unless its durations do not parse, previews with it
\* if its rules compile, and the page says "cannot be saved" exactly of what
\* cannot.  That is so unless a push overtook another, or one failed beside
\* another, whose answer ends the error, or after a later edit, which is lost.
AtRestInSync ==
    Open /\ pending = None /\ puts = <<>> /\ ~error /\ ~crossed /\ ~overrun =>
        /\ Badge = "cannot be saved" <=> current \notin Valid
        /\ current \in Parsable => draft = Normal(current)
        /\ current \in Compiles => mapper = Normal(current)

\* A page without the badge shows what is in the file, whatever fails, unless
\* pushes overtook each other or failed as above, an edit or a push was beside a
\* save, the answer of a save was lost, or the page was loaded again.
QuietSaveIsTrue ==
    Open /\ Badge = "none" /\ ~error /\ file # None /\ TRUE \notin {reopened, crossed, overrun, hurried}
        => file = Normal(current)

\* Once the user stops typing, the draft on the screen reaches the agent, or the
\* page says that it cannot be reached, unless pushes overtook each other or
\* failed as above, or page or agent go.
EditsArrive ==
    loaded /\ current \in Parsable ~>
        draft = Normal(current) \/ current \notin Parsable \/ error \/ crossed \/ overrun \/ ~Open \/ ~up

\* webui/src/hooks/useDraft.ts on dirty: "True when the draft differs from what
\* is on disk."
CleanMeansOnDisk == Open /\ ~dirty /\ file # None => file = Normal(current)

=============================================================================
