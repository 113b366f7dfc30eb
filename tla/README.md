# A verification project for cyberstalk-me

cyberstalk-me shows on a public page what the owner's devices are doing. A Windows
agent reports the foreground activity of its device every few seconds; a Go server
stores the latest state and the usage of each device, decides who is online, and
pushes changes to every open page over SSE; a setup page, served by the agent on a
loopback port, edits the agent's configuration.

This directory holds TLA+ modules translated from that code, TLC configurations that
check them on small instances, and TLAPS proofs of the theorems that matter most.
Paths below are relative to the repository.

Contents: [components](#components) ·
[modules and the code](#modules-and-the-code) ·
[runs](#runs) · [fairness](#fairness) · [findings](#findings) · [proofs](#proofs) ·
[what is not modelled](#what-is-not-modelled) · [plan](#plan) ·
[running the tools](#running-the-tools)

## Components

How the parts interact:

```
 agent loop --POST /report--> Report handler --+--> store (SQLite: device_state, usage_bucket)
                                 |  MarkOnline  |            ^        ^
                                 v              |            |        | PruneUsage
                              tracker <--ticker |   ListDeviceStates  |
                                 | offline      | update     |     retention loop
                                 v              v            |
                                     hub  ------> SSE Stream handlers ----> page (EventSource)
                              Snapshot handler <---- GET /snapshot -------- page (fetch)

 usage tab --GET /usage--> Usage handler --QueryUsage--> usage_bucket --Aggregate--> usage tab

 setup page --GET/PUT config, POST save, quit--> setup server --config.Save--> config.yaml
  (form: rules, patterns, titles)  <-- test of a pattern, suggestion, titles --  catalog, mapper
```

| component | state | operations | hard behaviour | what makes it correct |
|---|---|---|---|---|
| Event hub `server/internal/hub` | subscriber map, mutex, a buffered channel per stream | Subscribe, Unsubscribe, Broadcast | a stream leaves while Broadcast drops it; full channels; clients that do not read | no channel closed twice or written after its close; a stream gets a gap-free run of events; Broadcast returns |
| SSE stream `handlers.go` Stream | one goroutine per client | ready event, select loop, write, deferred unsubscribe | write errors, client gone, blocked writes | a handler that ends has left the hub; a dropped stream ends |
| Report handler `handlers.go` Report | locals of the request | stamp, attribute, upsert, MarkOnline, broadcast | database errors between the steps; scans in between | an older request never makes a device look silent; the device is announced online |
| Offline tracker `server/internal/state` | `known`, the ticker, locals of a scan | Run, scanOnce, MarkOnline, IsOnline | the lock is released between listing, judging, syncing and broadcasting; scans fail; restart empties `known` | every outage is announced, in time, and not to a device that is back |
| Snapshot handler | locals | ListStates, judgement against the clock | answer older than events already sent | merges with the stream to the server's view |
| Live page `web/src/hooks/useDeviceStream.ts` | cards, `connectedOnce`, error line, EventSource | first fetch, onopen, onmessage, onerror | fetch and stream race; reconnect without replay | a card follows the feed; a reconnect repairs what was missed |
| Usage attribution `server/internal/usage/usage.go` | none | Attribute | hour boundaries, truncation, the gap limit | each second of the interval goes to its hour once |
| Usage ledger `handlers.go`, `store.go`, `main.go` | usage_bucket, last_seen_at | GetState, AddUsage, UpsertState, PruneUsage | three separate database operations; failure, crash and retry between them | every interval is in the books exactly once |
| Draft of the setup page `webui/src/hooks/useDraft.ts`, `App.tsx` | local draft, pending edit, debounce, badge, save in progress | load, edit, flush, save, finish, reload of the page | pushes crossing; edits during a save; failing pushes; the agent ends | the agent ends up with the draft on the screen; the badge tells the truth |
| Form of the setup page `webui/src/components`, `lib` | dialog, field, hook of a row, requests under way | edit rules and patterns, test a pattern, publish titles, take a suggestion | answers that come after the rule, the row or the dialog has changed | titles published by consent only; an answer lands where it belongs |
| Setup server `internal/setup`, `internal/winsetup` | draft, mapper, idle timer, stop channel | GET/PUT config, save, preview, quit, Serve | its end against requests under way | saves what it was sent, and only what the agent would start with |
| Configuration file `internal/config` | config.yaml, .tmp, .bak | Load, Normalize, Validate, Save | crash between two steps; two saves; one temporary file | the file always loads, the one before it is in the backup; there is always a file |
| Agent loop `internal/report` | period | Run, nextBackoff | backoff against the offline threshold | never faster than the interval; recovers after one success |
| Setup catalog `internal/setup/catalog.go` | bounded maps of processes and titles | Observe, Snapshot, Titles | eviction while being read | bounds hold, newest kept |
| Mapping `internal/mapping` | none | New, Resolve | title only read when a rule needs it | what New refuses the form marks |
| Aggregation, query handler `usage/aggregate.go` | none | Usage, Aggregate | windows, slots, zones, midnight, changes of the clock, ranking | the loop over days ends; totals agree with the buckets |
| Registration, token lookup `main.go`, `store.go`, `auth.go` | device table | register-device, lookup | token replaced under a request | an old token stops working |
| Usage tab `web/src/hooks/useUsage.ts`, `components/Usage*.tsx` | window, device, answer, request under way | open, leave, choose a window or a device, fetch | answers out of order; new devices | shows the window chosen and keeps the device picked; the bars fit |
| Contract `shared/contract.go`, `web/src/types/contract.ts` | none | encoding, guards | two languages, one contract | what is sent is accepted, what is accepted crashes nothing |
| Server lifecycle `main.go`, `config.go` | process | start, graceful stop | open streams against the 10 s limit | stops |
| Router, embedded site, window collector | none | - | - | - |

`PROJECT.json` lists for each of them whether it is modelled, and at which line each
hazard bites.

## Modules and the code

| module | what it is |
|---|---|
| `Feed` | abstract specification: a stream is off, on, or cut; while it is on it is handed every event in order |
| `Hub` | hub.go and the Stream handler, at the grain of mutex and channel operations; implements `Feed` |
| `HubProofs` | theorems about `Hub` |
| `Presence` | Report handler, tracker, rows of device_state, ticker, restarts |
| `PresenceProofs` | theorems about `Presence` |
| `LiveView` | `Presence` composed with one page: its subscription, the Snapshot handler and useDeviceStream |
| `Attribution` | usage.go as functions |
| `Ledger` | `Attribution` used by the handlers' three database operations, with failures, crashes and retention |
| `DraftSync` | the draft of the setup page, the agent that holds it, and the file it is saved to |
| `Rules` | the operations on rules and exposures (`lib/rules.ts`, `lib/confirm.ts`) as operators |
| `Settings` | `Rules` with what the agent refuses (`config.go`, `mapping.go`), what the form marks, and the pasted registration (`lib/register.ts`) |
| `RuleEditor` | the form over `Settings`: cards, rows, the dialog, the list of applications, and the answers they wait for |
| `Contract` | the JSON of shared/contract.go, the guards of contract.ts, and the types the components rely on |
| `Aggregate` | the windows, totals, ranks and slots of the usage query, and what the tab draws of them |
| `UsagePanel` | the usage tab and its requests |
| `Lists` | what is left of a list, of requests or of stored rows, when some are taken out (`Kept`) |
| `DataLemmas` | lemmas on induction, loops, quotients, sums over finite sets, and lists edited by position |
| `LiveViewProofs`, `LedgerProofs`, `DraftSyncProofs`, `RuleEditorProofs`, `UsagePanelProofs` | theorems about these modules |
| `MC*` | instances for TLC; `MCRuleEditor` and `MCUsage` also check the pure operators over every small input |

**Hub.** A handler's or caller's `pc` is the point between two operations other
goroutines can see. `mu` is the holder of `Hub.mu`; a critical section is two steps,
entering and leaving, so that a process inside it is visible to the others. `queue[s]`
is the buffered channel (`Cap` stands for 16), `closed` the channels that were closed,
`panicked` a double close or a send on a closed channel. Events are numbered by `sent`.
`dead` is Broadcast's local list of slow subscribers. A stream's write to its client is
a step of its own because it may block for ever: no write deadline is set.

**Presence.** The code compares `now - last_seen_at` with the threshold and nothing
else, so the model keeps ages instead of instants and caps them beyond the largest
comparison. `rpc` follows a Report handler through upsert, MarkOnline and broadcast;
`rage` is the age of the time stamp it took on entry. A device has up to `InFlight` requests
there at once: its agent gives up on one after ten seconds and sends the next, while the
server may still be at work on the first, and the order of their upserts is open. `spc` follows scanOnce: the rows
are read (`listed`, `lage`), later judged against the clock (`fresh`, `stale`), stale
devices are taken out of `known` under the lock one at a time, then `fresh` is put into
`known`, then the transitions in `leaving` are broadcast. `last[d]` is the last event
broadcast about `d`, which is what the pages show. The ticker holds one tick at most.

**LiveView.** Extends `Presence`; every broadcast is also put on the page's channel.
The hub is represented by what `HubProofs` proves of it. A subscription lives on the
server (`subscribed`) before the browser fires `onopen`. Each snapshot is asked for,
read, judged and delivered in four steps; the page never orders them against events,
as in the code. `error` is the line the page shows after a failed fetch.

**Attribution, Ledger.** Time in ticks, several to a second, so that the truncation to
seconds is visible. A device has as many requests under way as there are `Slots`: its
agent gives up on a report after ten seconds and sends the next one, and the server makes
none of them wait. `Ledger` keeps four history variables: `overlap` (how often a request
found another of its device under way), `due` (seconds between consecutive stored reports),
`twice` (seconds added for a report that was not stored in the end) and `pruned` (deleted
by retention). What is due is a matter of one report after another, so `due` and `pruned`
are given up for a device once two of its reports have overlapped.

**DraftSync.** A draft is a value with what the code asks of it: what it normalises to,
whether its durations parse (else PUT keeps the old draft), whether its rules compile
(else PUT keeps the old mapper), whether it is valid (else no save). `puts` are the
pushes under way, handled and answered in any order; `saves` are the saves, from the
request through the agent's copy under the lock and the steps of config.Save to the answer:
`Truncate` (validate, open the temporary file and truncate it), `Write`, `Stat`, and
`Replace` (rename or ReplaceFileW). Each may fail, as in the code: a failed write leaves what
it has written where it is, a later failure removes the temporary file. `temp`, `file` and
`backup` are the disk, with `Empty` and `Torn` for a file just truncated and one with parts of
drafts. Go opens files on Windows so that they are shared for writing, not for deletion: a
second save may truncate and write what the first is writing, but while one has the file open
it is neither renamed nor removed (`Held`). `shared` records that two saves had it at once. `Refresh` loads the page again: what
was pushed may still be handled (`late`), and saves go on without anybody waiting.
`Die` is the end of the agent, from whatever cause. `crossed`, `overrun`, `hurried` and
`reopened` record what happened: a push that overtook another or a load, a push that
failed beside another or after a later edit, an edit or push next to a save, a page
loaded again. The properties name them, so that a reader sees exactly when the code
keeps its promise.

**Rules, Settings.** A process name is a model value with what it normalises to, a
pattern one that compiles or not, and of what a rule shows publicly only whether it shows
anything. `Issue` is the chain of checks of `Draft.Config`, `Config.Validate` and
`mapping.New` in their order, down to the paths of the first complaint; `Marks` is
what the form paints red. A text is empty, does not parse (`bad`), parses and is refused
(`odd`: a server that is not http(s)://host, a negative duration) or is accepted. A duration of
zero, such as `0s`, is like an empty one: `Normalize` puts the default in its place before
`Validate` looks, so that of the non-positive durations only negative ones are refused.

**RuleEditor.** `hint` and `debounce` are the state of the hook that tests a pattern,
followed in one row; React keeps it when another pattern moves into that row. `asked`
holds the requests whose answers still count; cancelling removes them. `consent` and
`left` are histories: what the user has typed in the dialog and not taken back, and
names a rule was renamed away from.

**UsagePanel, Aggregate, Contract.** `asked` holds the request of the effect of
`useUsage` and `answer` what the server made of it: the devices it knew then. In
`Aggregate` instants are half hours, so that zones half an hour off the UTC hours occur, and a
zone is an offset and one change of it, forward or back, at some instant: a window of thirty
days sees at most one. `Date` is what Go's time.Date makes of a wall clock the change skips or
repeats, and `NextDay` the step of the loop in daySlots, so that days have 23, 24 or 25 hours
as the zone says. `Turns` follows the loop for as many turns as there are days; if none is
`Past` the end by then, it does not end. A JSON value in
`Contract` is its kind and what is in it; the components' needs are the declared types
of contract.ts, which TypeScript does not check at run time.

## Runs

| run | result | question |
|---|---|---|
| `hub` | pass, 58 k states | safety, refinement and liveness of the hub under every interleaving |
| `presence` | pass, 52 k | are outages announced, in time, and do devices come back? |
| `presence_restart` | violation | also an outage that straddles a restart? |
| `presence_race` | violation | is a device announced offline really silent? |
| `view` | pass, 400 k | does a page follow the feed, and does a reconnect repair it? |
| `view_grey` | violation | does every settled card turn grey in time? |
| `ledger` | pass, 1.7 M | do the books balance with failures and crashes anywhere, how full can an hour be with two reports of a device at once, and is the split over hours exact for every interval? |
| `ledger_retry` | violation | is every interval added only once? |
| `draft` | pass, 2.1 M | do edits reach the agent, is the file always loadable, is a quiet save true? |
| `draft_save` | violation | is the badge off only if the draft is on disk? |
| `editor` | pass, 354 k | are titles published by consent only, do late answers land where they belong, does the form mark what the agent refuses? |
| `usage` | pass, 2.6 k | is what is shown for the window chosen, do the books and the bars agree, do the guards separate? |

Bounds, and why they are enough:

- `Cap = 1`, `MaxEvents = 2`, two streams, two broadcasters: one event fills a channel
  and the next one overflows it; two broadcasters are needed for one to wait while the
  other drops; two streams for one to leave while the other is dropped. `Readers = {s1}`:
  the other client stops reading. The theorems cover every set and capacity.
- `presence`: `InFlight = 2`, `Threshold = 6`, `ScanPeriod = 2`, `Latency = 2`,
  `MaxFailures = 1`: two requests are enough for one to overtake the other, and in ticks
  of ten seconds these are the default threshold, scans four times as far apart as by default
  and requests that are under way for one tick at most. They are the tightest values with a failing
  scan that satisfy the theorem's hypothesis
  `2 * (Latency - 1) + (MaxFailures + 1) * ScanPeriod <= Threshold`; with a threshold of 5 TLC
  still finds `GreyInTime` true, with one of 4 it is violated. One device: devices share nothing
  but the phases of a scan, and `PresenceGreysInTime` holds for every set. One restart empties
  `known`; another finds the same situation.
- `view`: one outstanding load (`Loads`; the page starts a second only by a reconnect
  while the first is under way, which then waits in the model), `Cap = 1`, one restart,
  drops and failing fetches; `Threshold = ScanPeriod = Latency = 1`, since the times are
  the subject of `presence` and not of this run. No failing scans here, and one request of the
  device at a time, for size; the theorems have any number.
- `ledger`: two slots, and `MaxOverlap = 2`: for a second to be in the books three times, the
  most that `OverfullExplained` allows, a report must overlap twice; with one copy fewer
  TLC finds the hour that has three. `MaxNow = 6` is three seconds at two ticks to the
  second, `HourLen = 2` puts them into two hours, `MaxGap = 2` is shorter than the clock
  and `Retention = 1` expires the first hour. The slots are symmetric. The split is checked
  for ends up to `MaxTick = 22`; the intervals short enough to be credited touch up to two
  hours, and `SplitExact` is about any number of them. `MaxTwice` bounds how often
  an upsert may fail after an addition. `Devices` has one element because the operations of
  two devices touch different rows; the theorems have any number of both.
- `draft`: seven drafts, one of every kind the code tells apart and a second valid one,
  `MaxActs = 2` edits or reloads of the page (one edit more than the debounce swallows; two
  saves at once need a reload), and `MaxFaults = 2` failing requests, failing steps of a save or
  ends of the agent: two saves may overlap with both failing, in any step. Requests fail
  without limit once the agent has ended. `Torn` and `Empty` are reached in the file itself,
  with `shared`.
- `editor`: two applications, one of them written in two ways, and the blank name;
  a pattern that compiles, one that does not, and the empty one; `MaxEdits = 3` is enough
  to add, rename and switch; two requests under way are enough to cross. The marks are
  checked on every draft three edits lead to, with every text of a server address and of
  both durations; moves over lists of up to four, pastes over up to three lines, with two values.
- `usage`: `MaxClicks = 4` requests, two windows, three devices. `DayHours = 2` and windows
  of one, two and three days: up to two buckets over six hours of three days, and four times of
  day, one of them midnight in UTC, the others inside a day. Twelve kinds of zone, less those that
  would skip or repeat a midnight: offsets from an hour west of UTC to half an hour east, with no
  change of the clock or one by an hour, forward or back, in the middle of the buckets.
- `EditsTouchTheirTarget`, `GuardsSeparate`, `BooksAgree` (`Agree`) and `BarsFit` (`Fit`) speak of operators
  alone and are evaluated in one state each, over every small input; `SplitIsExact` at every
  start the clock reaches before the first report.

Deadlock checking is off in the runs because these systems may stop: every broadcast
made, every agent dead, the clock at its bound, the session finished.

`OfflineMeansSilent`, `EveryOutageAnnounced`, `SettledCardGreys`, `HourNeverOverfull`
and `CleanMeansOnDisk` are what the documentation says and the code does
not do. Next to each, a passing run states what does hold (`OutageAnnounced` and
`GreyInTime`, `CardFollowsFeed` and `ReconnectRepairs`, `OverfullExplained` and
`BooksBalance`, `QuietSaveIsTrue`).

Every property of a passing run has a mutation of the model in `PROJECT.json`, a change
a programmer could make by mistake, that violates it. The mutations stand in the
modules next to what they change, marked as such, and are used by no specification.

## Fairness

- `Hub`: goroutines are scheduled (weak fairness of a handler's and a broadcaster's
  steps); `sync.Mutex` does not starve its waiters (strong fairness of locking). A
  client in `Readers` reads, so its writes end; nothing is assumed of the others.
  Nobody is forced to connect, leave or broadcast.
- `Presence`: handlers and the tracker are scheduled, the clock runs whatever else
  happens (strong, since handlers in a hurry may disable it for a while), a stopped
  server is started again, a living agent keeps reporting (its loop never gives up),
  and store errors are transient: an upsert or scan query tried again and again
  succeeds (strong).
- `LiveView`: as in `Presence`, except that no agent need report; the browser delivers
  events and answers and retries the connection. A connection that is opened again and
  again is at some time open long enough for `onopen` and a message (strong).
- `DraftSync`: the browser fires timers and delivers answers, the agent handles
  requests while it is up. The user owes nothing, the agent may end, requests may fail.
- `RuleEditor`: the debounce of a row fires and the test it asks for is answered or
  fails. `UsagePanel`: a request is answered or fails. Nothing else is assumed.

`KeepsUp` and `Latency` are not fairness but a timing assumption: a report is handled in
fewer than `Latency` ticks and a scan within its tick. `GreyInTime` needs it, because a
server that stands still announces nothing; ticks can be as long as one likes.

## Findings

| run | what it shows |
|---|---|
| `presence_restart` | `known` is empty after a restart, so a device that passes the threshold before the first scan of the new process is never announced offline |
| `presence_race` | a scan broadcasts offline on a row it read before the device's latest report, after that report's update; at rest the card is grey until the next report |
| `view_grey` | the page fetches its first snapshot beside its first connection and does not reload on the first open: an event between the two is lost |
| `ledger_retry` | AddUsage commits before UpsertState; when the latter fails, the agent's retry adds the same interval again |
| `draft_save` | an edit made while a save is under way is marked as saved, and the warning on closing the tab goes away |

Met while modelling and not run separately; the properties exclude each by name or were
stated around it:

- after a failed push, `flush` puts the failed draft back over a newer pending edit and
  starts no timer (`useDraft.ts:101`); the answer of an older push clears the error of
  a newer one that failed (`useDraft.ts:97`);
- a save goes on after a flush that failed, since flush answers null for both that and
  nothing to push (`App.tsx:73`); a save whose answer is lost leaves the badge on;
- after a first GET that failed the empty form is shown, and the first edit pushes it
  over the agent's draft; a page loaded again takes the agent's unsaved draft to be on disk;
- renaming a rule leaves its exposure of titles behind, which the agent refuses and the
  form has no switch for; removing one of two rules of a name takes the exposure of both;
- a test of a pattern that fails leaves the row at its "checking" hint;
- at the very instant of midnight the windows of days have no slot for the new day;
- where the clock goes forward over a midnight and the zone is west of UTC (America/Havana,
  America/Santiago, Atlantic/Azores), time.Date gives 23:00 of the day before for that midnight, so
  `startOfDay(cur.AddDate(0, 0, 1), loc)` is `cur` again (`aggregate.go:192`): with such a
  DISPLAY_TIMEZONE, GET /api/v1/usage appends slots for ever while a window has that day in it. The comment
  in `aggregate.go:190-191` says that a change of the clock "cannot skip or duplicate a date".
  Theorem `SkippedMidnightStalls` says it of any such zone; `BooksAgree` is about the others;
- two saves at once share `config.yaml.tmp`, and one may put it in place while the other has
  truncated or half written it; `save.go:31` says "The write is atomic". It needs a page loaded
  again (or a second tab) while a save is under way. `FileIsSafe` says what holds without it and
  what is left with it;
- of a write that fails half way, `save.go:47-49` leaves what was written in the temporary file;
- a first snapshot that fails and a first open after it: the error line goes although
  nothing was loaded again (`useDeviceStream.ts:73`);
- `Subscribe` and `Unsubscribe` read the size of the map for a debug line after unlocking.

## Proofs

`HubProofs`, for any sets of streams and broadcasters, any capacity and any bound on
events. The theorems are `HubTypeCorrect`, `HubNeverPanics`, `HubNeverLeaks`,
`HubLeavesNoGap` and `HubImplementsFeed`. None of the properties is inductive: that
Broadcast does not close a channel twice depends on who holds the mutex and on the dead
list being part of the map. `IInv` adds

- `MutexHeld`: a process is in a critical section exactly if it holds the mutex;
- `Lifecycle`: a channel is in the hub or closed, never both; `dead` is part of the hub
  and empty outside Broadcast; a handler that has returned is gone;
- `Continues`: a channel holds consecutive events that follow what its handler has
  taken and, while it is on, end with the last broadcast;
- `Lag`: no stream is ahead of the feed.

Each is preserved by every action (one lemma per conjunct, one step per action). The
refinement maps `conn` to off, on or cut; a broadcast's send maps to `Publish`, a write to
`Deliver`, leaving the map to `Leave`, and everything else to a stutter.

`PresenceProofs`, for any set of devices, any number of requests under way and any threshold,
period, latency and bound on failures:

- `PresenceTypeCorrect`, without assumptions beyond the ASSUME of `Presence`;
- `PresenceSetBackIsRecent`, if the server `KeepsUp`. UpsertState overwrites the row whatever it
  holds, so of two requests that overlap the older may set it back; but what any of them
  carries is younger than `Latency` (`Prompt`), so that the device does not look silent for it;
- `PresenceGreysInTime` under `Timely`: the server `KeepsUp`, and
  `2 * (Latency - 1) + (MaxFailures + 1) * ScanPeriod <= Threshold`. A device announced online
  was within the threshold `Since` ticks ago, the last time a scan did not fail (`Watched`);
  and `known` may miss a device only if it has just reported (`Recent`: its row is no
  older than the request may be, `Latency - 1`, plus as much again for the older one that may
  have overwritten it, `Reported`). A scan that overlaps a report forgets the device it is about,
  and the next scan that succeeds must see it before it passes the threshold, which is what the
  hypothesis says. With the defaults (60 s and 5 s) and requests of up to ten seconds there is
  room for seven failures in a row; nothing in `config.go` enforces the relation, and of
  configurations without it nothing is claimed. `Listed`, `VerdictsHold` and `Synced` carry the
  fact through the phases of a scan.

`LiveViewProofs`, for any devices and the same constants:

- `PageOnlyWatches`: `LiveView` implements `Presence`. Every step of the page and of its
  snapshots is a stutter of the server, so that what `PresenceProofs` shows holds in `LiveView`;
- `CardsFollowTheFeed`. The property speaks of the moment when nothing about a device is on its
  way; the invariant `InStep` says that the newest event about it on the page's channel is
  the last that was broadcast, and that a card the feed has set shows that when there is none;
- `FollowedCardsGreyInTime`, from it and `PresenceGreysInTime`, under the same hypothesis
  `Timely`.

`LedgerProofs`, for any length of an hour, gap, tick, retention and number of requests under
way, and any finite set of activities:

- `SplitExact`. The loop of `usage.Attribute` is a recursion over hours; `Split` states its
  result in closed form, and an induction over the hours that are left shows that the loop
  computes it;
- `LedgerTypeCorrect`, from `TypeInv`: what a request is about to credit it has read from a row;
- `LedgerBalances`, from the part of `LedgerInv` on devices none of whose requests has found
  another under way. At most one request is under way (`Alone`), and the row it has read
  stays the row of its device until it overwrites it (`RowHeld`); the books balance at every
  step once the interval is counted that the request has added and its row does not show
  yet (`Balanced`, with `Owed`);
- `LedgerOverfullExplained`. Until requests overlap, an hour holds its seconds up to the end
  of what is accounted for (`Accounted`, with `Till`). Once N of them may, each credits the
  interval since a row that others have read too, and a report that was delayed sets the
  row back to its own time, so that the next ones credit the seconds since then again. The
  invariant `Roomy` bounds what can still come of it: the `Room` of a second is how often it
  may be credited yet, from whether the row is behind it (`Behind`), how many requests
  would set the row back behind it (`Old`) and how many have read a row from which they
  credit it (`Committed`, of which `ToAdd` have yet to). What is in the books and the room
  of the seconds gone by are within N(N+1)/2 a second and what is noted in `twice`: no step
  of a request gives a second more room than it takes from the books or notes
  (`RoomOfRead` to `RoomOfCrash`), and the seconds of an hour are summed (`RoomyMoves`).
  N copies are not enough: TLC has one second three times in the books with two requests.

`DraftSyncProofs`, for any drafts, any normalisation that is idempotent and keeps what the
ASSUME of `DraftSync` says, and any number of edits, pushes, saves and failures:

- `FileStaysSafe`. That the file is valid is not inductive: what replaces it is the
  temporary file. `SafeDisk` adds that, until two saves have had it at once, at most one save is at
  the disk, what it has copied is valid, and the temporary file is what its step says
  (`FindsItsOwn`): just truncated, or the whole of its copy. A save that has found no file finds
  none when it renames. That the file never disappears holds of every step, overlapping or not;
- `PageRestsInSync`. The invariant says what the agent and the page will have heard when
  the pushes under way have been: `Newness` that what is newest, the pending edit or else the
  last push, carries the draft on the screen, that the agent holds it once handled, and that the
  page has heard of it once answered; `InOrder` that those handled are the oldest while
  nothing has crossed; and `Consistent` that a draft that compiles is also the mapper's;
- `DraftTypeCorrect`, with `Waits`: at most one save counts, and it waits for one push at most;
- `QuietSavesAreTrue`. `QuietInv` adds `Undisturbed`: as long as nothing has crossed,
  overrun, hurried or been reopened, a save is alone with its flush and its request (`Alone`),
  what the agent takes, writes and puts in place is the draft on the screen (`Handed`), and
  the file has what the page takes to be on disk (`OnDisk`). `Shown` relates that to the badge.

`RuleEditorProofs`, for any names, patterns, number of edits and of answers under way:

- `TitlesByConsent` and `RenamingOrphans`. What is added is `DialogOK`: the process a dialog
  is about has a rule, so that what is confirmed is no orphan. Every edit but a rename, a
  removal and the switch `Keeps` all rules' names;
- `EditorTypeCorrect`, `AnswersStayPresent` and `SuggestionsLandHome`. `FormInv` adds what a
  request under way is about: a test the present pattern (`TestsFresh`), the titles the present
  dialog (`TitlesFresh`), which holds because cancelling leaves none that is about another;
- `MarksMatchTheAgent`. The pass of `duplicateProcesses` is shown to find the names that two
  rules claim (`DuplicatesAre`), each complaint about a rule to be a path on its card
  (`RulePaths`), and a duplicate to be refused by `mapping.New`;
- `EditsStayHome`, from `MoveIs` for any list of patterns, and `ParsedIs` for any number of lines:
  a key has the value of the last line that gives it one.

`UsagePanelProofs`, for any windows, devices and number of clicks: `PanelTypeCorrect`,
`PanelShowsSelected` and `PanelKeepsPick`. The invariant says that at most one request
counts and is for the window selected, that without one nothing is loading, and that the
devices of an answer have reported, so that a later answer lists them too. The same module
has the arithmetic behind the tab, for any stored buckets, any time and any length of a day. A
zone there is any offset with any one change at any instant (`Clock`); the theorems on books and
bars are about those whose change skips no midnight and repeats none (`Regular`, `KeepsMidnights`):

- `SkippedMidnightStalls`, about some of the others: the loop over days stands still. It is what
  the code does, and why `Regular` is needed;
- `AnyBooksAgree`, and with it `UsageBooksAgree` for the inputs of the run. A sum by groups
  is the sum of all (`SumByGroup`), whether the groups are the applications (`ByAppIs`) or the
  slots (`SlotsAddUp`). `RankApps` is one choice among the rankings: one exists
  (`RankingThere`), and any lists each application once (`RankedAddUp`). The local midnight
  time.Date gives is one, and no instant before it is of its day (`DateIs`, `MidnightIs`); so
  the loop takes each day of a window once (`TurnsAre`). A query is whole local days up to now
  (`WindowIs`), so each of its rows has a slot; and today's rows weigh
  the same in every window that ends now (`LastDayIsToday`, from `SumOfKept`);
- `AnyBarsFit`, and with it `UsageBarsFit`, from what a share rounded down is (`ShareIs`,
  `ShareGrows`). It assumes that no bucket is empty, which the loop of usage.Attribute sees to;
- `AnyUsageSeparates`, for answers with any number of devices, applications, descriptions,
  hours and days, and with it and the other guards `UsageGuardsSeparate`. Each guard accepts an
  object of the interface's fields exactly when every field is of a kind the interface names
  (`ActivityFits` and its like), for a field with a guard of its own as long as that guard
  judges it by its kind (`DeviceStateParts` and its like), which replacing a field keeps.

`DataLemmas` holds what these proofs share. The library's induction theorems are about an
operator; `Induct` and `InductSubsets` are about a set, that of all numbers or subsets with the
property, and follow from well-foundedness. `LoopExists` gives the results of a loop over a
list, `SumUnfolds` those of a sum over a finite set; the other lemmas on lists and sums rest on
them. So that they apply, the model writes its loops as functions over the numbers of
elements seen, a filter as `Kept`, which takes a set where SelectSeq takes an operator, and the
sorting of the applications as the choice of a sorted list.

Only model-checked: all liveness (the prover has no rules for fairness and ENABLED here),
and the runs that expect a violation.

## What is not modelled

SQL, the bytes of JSON and of the SSE frames, React's rendering, Win32 and static file
serving, because they keep no state the properties speak of. Authentication and the
guards of the setup server: a request they refuse changes nothing. The catalog: one
mutex covers each of its operations, and only what it lists is used. Registration: one
statement replaces a token. Mapping's Resolve, the backoff of the agent loop (a report may
come at any time in `Presence`), the graceful shutdown, what the idle timer and the catalog
stream of a setup session wait for, loading YAML, and the replace of save_other.go (the
agent runs on Windows). The abstractions that matter for reading a result:

- SQLite operations are atomic: the pool has one connection (`server/cmd/server/main.go:188`).
- One page is modelled; pages share only the hub, and there `Hub` has several.
- A push or save of the setup page that fails is either handled before or not at all; only
  what a page that has gone has sent is handled later (`late`).
- ReplaceFileW is one step. Of a write that overlaps others only the result matters: the file as
  written, or `Torn`.
- Go's files on Windows are taken to be shared for reading and writing but not for deletion, which
  is how os.OpenFile opens them.
- A zone changes its clock at most once in a window, which is so where there is summer
  time, and not in Morocco, whose two changes about Ramadan are a month apart; the clock's seconds and the days of the calendar are plain numbers.
- A second tab beside the first is not in `DraftSync`.
- One row of the form is followed in `RuleEditor`; the others do the same.

## Plan

Done: every module of the table above.

Left, in the order of what it would add:

1. `SetupSession`: Serve, wait, touch and stop with the idle timer and the catalog stream, and
   the liveness of a session's end; the graceful shutdown of the server with open streams.
2. `AgentLoop`: backoff and permanent failure, composed with `Presence`; `Mapping` (first match,
   the title only on demand); `Catalog` (bounds and eviction).

## Running the tools

In this directory: `tlc -workers 2 -config MCHub.cfg MCHub` checks a run (the table in
`PROJECT.json` names module and configuration of each), `tlapm HubProofs.tla`
checks a module's proofs; the modules with proofs are those named `*Proofs` and
`DataLemmas`.
