# InfraKitOps: specifications

InfraKitOps (InfraKit Studio) is a toolbox for operators: a Go backend
(`src/backend`) behind a React application (`src/app`) that also ships as a Tauri
desktop program. Three kinds of code are specified here:

- **background work of the backend**: runbook and Ansible runs that outlive the
  request that started them, their event streams, approvals and schedules, and
  what is left in SQLite when the process dies;
- **services that several requests use at once**: monitors, the vault, MCP
  sessions, accounts, exchanges with a model;
- **the application**: the stores and screens that keep state across awaits,
  timers and streams, and the pure calculators and builders of files.

Paths below are relative to `src/backend/internal` or, for `.ts` and `.tsx`, to
`src/app/src`, unless they start otherwise. `PROJECT.json` lists every component
with its files and status, every run, every mutant, the source lines of every
definition, the hazards of this code with the properties about them, and the
theorems.

## 1. Inventory

### Backend

| Component | State it keeps | Operations | What is hard | Module |
|---|---|---|---|---|
| Run hub `runstream/hub.go` | registry of live runs (`h.mu`); per run a counter, a log file, subscriber channels (`r.mu`) | `Start`, `Emit`, `Finish`, `Subscribe`, `Cancel` | a viewer replays a file that is being appended to, then switches to its channel; two locks one after the other; slow viewers are dropped | `RunStream` |
| Runbook engine `orchestrator/engine.go`, `background.go` | a goroutine per run, a semaphore replaced when settings are saved, pending approvals, rows of `runbook_run` | `StartBackground`, `executeRun`, `ResumeRun`, `Cancel`, `SetMaxConcurrent`, `MarkRunningInterrupted` | decision, timeout and cancel race; a parked run keeps its slot; crash between two writes; what starts before recovery | `RunEngine`, `RunLifecycle` |
| Schedulers `orchestrator/scheduler.go`, `ansible/scheduler.go` | the table of schedules, the set of ids in flight | `reanchor`, `runOnStart`, `tick`, `fire`, put and delete | a fire holds a copy of its row for hours and writes it back | `Scheduler` |
| Ansible engine `ansible/run.go`, `background.go` | a goroutine, a process and a tail per run, approvals, rows of `ansible_run` | `prepareRun`, `gate`, `execRun`, `tailEvents`, `ResumeRun` | three parties that wait for each other; a file read while it is written | `AnsibleRun` |
| Monitor engine `monitor/engine.go` | a loop per monitor, streaks, incidents, alerts | `Reload`, `Stop`, `tick`, `CheckNow`, put, enable, delete | a pause during a probe; two reloads; check-then-insert | `MonitorEngine` |
| Monitor store `monitor/rollup.go`, `settings.go` | samples, minute and hour rows, status pages, alert settings | `fold`, `prune`, counts of a period | buckets folded in several transactions | `MonitorHistory`, `MonitorSettings` |
| Runbook versions `orchestrator/store.go` | drafts, immutable versions, pins | `SaveDraft`, `SaveVersion`, `RestoreVersion`, `DeleteVersion` | statements without a transaction under concurrent editors | `RunbookEditor` |
| AI hub `llm/engine.go`, tool loop | slots of a connection, pending approvals | chat, tool loop, `ResumeTool` | approvals that time out while they are answered; providers and tools that never answer | `ToolLoop` |
| MCP manager `mcp/manager.go` | a session and a tool cache per server | `Connect`, `Disconnect`, `Tools`, `Call`, put, delete | concurrent connects; a dead session closes a newer one | `McpManager` |
| Vault `vault/` | key in memory, encrypted file, keyring | `Init`, `Unlock`, `Lock`, `Put`, `Delete`, `Remember`, export, import | memory changes before a write that may fail; auto-lock | `Vault` |
| Accounts `auth/` | users, sessions, setup token, throttle | `Bootstrap`, `Login`, `UpdateUser`, `DeleteUser` | two bootstraps; counting then writing; back-off arithmetic | `Accounts` |
| Cron `orchestrator/cron.go` | none | parse, `Next` | its mirror in the console | `Cron` |

### Application

| Component | What is hard | Module |
|---|---|---|
| Live views of runs: `ansibleStore.ts`, `runbookStore.ts`, `sseClient.ts` | a lookup is answered after the user went on; a dropped stream ends like a finished one | `LiveView` |
| Session and connection: `authStore.ts`, `backendStore.ts`, `backendClient.ts` | 401s and late answers of old sessions; a token in two places; overlapping probes | `Session` |
| AI chat and panel: `llmStore.ts`, `AiPanel` | answers into the wrong chat, streams after a stop, an ended stream that closes late | `AiChat` |
| Shell and Knowledge Hub | which tool an account may reach, by which way | `Navigation`, `KnowledgeHub` |
| Prompt library: `promptLibraryStore.ts`, `promptRepository.ts`, `core/prompt` | autosave timers against reads and deletes; an index apart from what it indexes | `PromptLibrary`, `PromptParts` |
| Form designer: `FormFlowBuilderScreen.tsx`, `core/form_flow` | loads and saves in flight while the screen changes form | `FormFlow`, `FormSchema` |
| Runbook editor: `RunbookEditorScreen.tsx` | an autosave pause against save, restore and discard | `RunbookEditor` |
| Monitor screens: `monitorStore.ts`, `MonitorsScreen.tsx`, settings, status pages | a stream and a poll that overtake one another | `MonitorBoard`, `MonitorForm`, `MonitorSettings` |
| Catalog editors (ssh, rdp, sysctl, zabbix) | what is ticked in one mode and emitted in another | `Catalogs`, `CatalogEditor` |
| Builders of configurations: databases, web server, proxy, fail2ban, docker, firewall | constraints between the emitted values | `ServiceConfig`, `DockerRun`, `Firewall` |
| Calculators and text tools | boundaries, rounding, overflow | `Addresses`, `Sizers`, `TextTools` |

### How they interact

An API handler calls `StartBackground`, which enters the run in the **hub** and
starts its goroutine; the **engine** emits through the hub and writes the **run
table**; viewers subscribe to the hub or, for a finished run, read its log; the
**scheduler** calls the engine directly, without the hub; operators answer an
approval through a channel found in the engine's map; `main` starts the
schedulers, then recovers the tables, then serves, and at the end cancels what is
in the hub and exits without waiting. In the application the stores look a run up,
open a stream of the hub through `sseClient`, and feed what arrives to the view;
every store is a client of the handlers through `backendClient`, which reports
401s to the session. `ToolLoop` calls tools through `McpManager`. `MonitorEngine`
writes the samples that `MonitorHistory` folds and the notices that
`MonitorBoard` shows.

What makes each correct, in a line:

- *hub*: a viewer gets the events of a run once, in order and without holes, a
  clean end means it got all of them, no stream hangs;
- *engine*: nothing that needs approval runs before somebody else approved it, the
  slots are respected, a run gets one final status, also across a crash, and the
  status a viewer was told is the one in the table;
- *schedulers*: no two fires of a schedule overlap, what is stored fits its cron
  expression, a deleted schedule is gone, a due one is fired unless a restart finds it late;
- *Ansible*: the same gate, no event twice, a cancelled run ends;
- *monitors*: loops match rows, an incident follows the checks, samples are counted
  once; *vault*: memory and file are sealed by one key and hold what was stored;
  *MCP, AI hub, accounts*: no tool runs without its approval, sessions and accounts
  agree with what was answered;
- *views, session, screens*: what is shown is what its source said, whatever
  arrived late; *tools*: the answer is the one of the definition.

## 2. Modules

| Module | Models | Checked by | Proofs |
|---|---|---|---|
| `RunStream` | the hub and its viewers | itself | `RunStream_proofs` |
| `RunEngine` | runbook runs, slots, approvals, table, settings, boot and shutdown | `MCRunEngine` | `RunEngine_proofs` |
| `RunLifecycle` | abstract: what the history promises of a run; refined by `RunEngine` | `MCRunEngine` | |
| `Scheduler` | both schedulers (constant `Upserts`) and the editors of the table | itself | `Scheduler_proofs` |
| `AnsibleRun` | one Ansible run with process, tail, gate and recovery | itself | `AnsibleRun_proofs` |
| `LiveView` | the live view of a run in either store | `MCLive` | `Live_proofs` |
| `Session` | the session of the user, and the connect loop | `MCLive` | `Live_proofs` |
| `MonitorEngine` | loops, checks, incidents, alerts | `MCServices` | `Services_proofs` |
| `Vault` | keys, secrets, file | `MCServices` | `Services_proofs` |
| `McpManager`, `ToolLoop` | MCP sessions; exchanges and their approvals | `MCServices` | `Services_proofs` |
| `Accounts` | users, sessions and the login throttle | `MCServices` | `Services_proofs` |
| `AiChat` | conversations of the chat, and the panel | `MCConsole` | `Console_proofs` |
| `Catalogs`, `CatalogEditor` | what can be ticked, and the editor of it | `MCConsole` | |
| `Navigation`, `KnowledgeHub` | what leads to which tool; the hub's pages and their content | `MCConsole` | |
| `PromptLibrary` | the library, its autosave and index | `MCConsole` | |
| `MonitorBoard`, `MonitorSettings` | the list, its feeds and the panes of a monitor; alert settings and status pages | `MCConsole` | `Screens_proofs` |
| `MonitorHistory` | samples and buckets | `MCConsole` | |
| `FormFlow`, `RunbookEditor` | the two editors against their stores | `MCConsole` | |
| `Cron`, `Addresses`, `Sizers`, `TextTools`, `PromptParts`, `FormSchema`, `MonitorForm` | pure functions, each with a reference definition | `MCTools` | |
| `ServiceConfig`, `DockerRun`, `Firewall` | builders of configurations | `MCTools` | |

`MCLive`, `MCServices` and `MCConsole` compose independent components: the variable
`part` says which of them moves, the others stay as they begin, so that one run
checks several state machines with the fairness of each. `MCTools` is a bench: a
state is a tool, an input and its answer, and every input of a small set is tried.

Operators marked `mutant` are small errors a programmer might make in the
definition that follows them. The specification does not use them; substituting
one makes the property it is paired with (`PROJECT.json`, `mutants`) fail.

### RunStream

`phase[r]` is where `Start` and `Finish` are: the log file exists before the run
is registered (`OpenLog`, `Register`) and a run is unlisted before it is closed
(`Unlist` under `h.mu`, `Close` under `r.mu`). `Emit` is one critical section of
`r.mu`: number, append (the error is ignored, so with `LogMayFail` the record may be
missing), offer to each channel, drop who is full. A viewer looks the run up
(`Lookup`, `h.mu`), attaches (`Attach`, `r.mu`, checking again that it is open),
replays the file record by record while the run goes on emitting, then forwards
its channel. `upTo = 0` means "no limit", as in the code. An event is its number, a
file a sequence of numbers. A key is the id of a table row and is started once, so
the branch of `Start` that supersedes a live run is not taken.

### RunEngine and RunLifecycle

One record per run: program counter, row, whether it is in the hub, whether its
context is done, which semaphore it captured and holds a slot of, the approval
channel (capacity 1), what the gate received, the results of its steps. Each select
of the code is a set of actions: `Acquire`/`GiveUp` for the slot,
`GateReceive`/`GateTimeout`/`GateCancelled` for the gate. `ResumeRun` is two actions,
because it finds the channel under the lock and sends after it. The step loop
follows `runIf` and `continueOnError`. `SaveSettings` makes a new semaphore, as
`PutSettings` does on every write. `Shutdown`, `Exit`, `Boot` and `Recover` are
`main`'s order, in which the scheduler may fire before recovery has run. Database
writes are assumed to succeed. `RunLifecycle` has one status per run; the mapping
reads it from the row and the results.

### Scheduler

The loop is its program counter `loop`, the list it last read (`todo`) and the time
it works with (`seen`). `Reanchor`, `Start` and the three steps of a fire (`Advance`,
`RunEnds`, `Release`) are separate, so editors (`Put`, `Delete`) come between a read
and the write that depends on it. Each statement is atomic: the store has one
connection. A cron expression is a period, which keeps what the scheduler uses of
one (its first instant after a given time); the expressions themselves are in `Cron`.
The period 0 is an expression that parses and is never due (`0 0 30 2 *`): then the
due time a schedule came with stays, in `PutSchedule`, `reanchor` and `fire` alike, so a
request to save carries the due time its client knows (`DueTimes`).

### AnsibleRun

The goroutine (`pc`), the process (`play`), the event file (`lines` complete lines
and perhaps `half` of the next), the tail (`tail`, `pos`, `torn`) and the gate. Runs
share the map of approvals and nothing else, and each has its own entry in it, so
one run is enough. A line may be written in two parts and read in between; the tail
consumes what it read and neither part parses.

### LiveView and Session

The stores run on one JavaScript thread: a function is atomic up to its next
await. `attachRun` and `openReplay` are therefore `Attach`/`Replay` and, when the
lookup is answered, `Answer`; streams are `Deliver`, `Finish`, `Drop` (the hub's), and
`Fail`. `raced` is a history variable: whether the user acted while a lookup was in
flight, which neither store guards against. `Session` has `init()` as four steps,
sign-in as ask, answer and pull, a change of the password as ask and answer, the
`getMe` of `refreshMe` among the requests, which may be answered or refused after the
session that sent them is over, and the connect loop of `backendStore` with overlapping
refreshes. `late` is a history variable: the sessions whose user was shown by an answer
that came when the token had been dropped or replaced.

### The services

`MonitorEngine`: a tick reads its monitor, probes, and writes; edits, checks by hand
and reloads come in between; `overlapped` and `paused` note histories that the
properties exclude and section 6 names. `Vault`: every operation in its order of
memory and file, with writes that fail and restarts; ciphertexts are records of
key and value. `McpManager`: requests have their steps between the locks;
sessions die and announce changed lists. `Accounts`: each handler is its SQL
statements; the throttle follows the arithmetic of the back-off, `Duration` overflow
included. `ToolLoop`: slots of a connection, turns, approvals answered, expired or
abandoned; `Waiting` is where an exchange waits for a provider or a tool, which need
never answer, and `Gone` where it notices that its client left.

### The screens

`AiChat`, `PromptLibrary`, `FormFlow`, `RunbookEditor`, `MonitorBoard` and
`MonitorSettings` follow each function up to its awaits, and keep timers and
requests in flight as sets. In `AiChat` a message may be sent before the stream of the
last reply has closed, and a save may be answered when another chat is shown; `late`, a
history variable, notes when either has gone wrong. `MonitorHistory` counts the three
windows of `countWindow`, each from the buckets the code reads: `RawRetention` from
samples, `MinRetention` from minutes, and `MonthWindow`, the 30 days, from hours. `Navigation` and `KnowledgeHub` hold what leads where and
what is shown; `Catalogs` is data (which directives exist, with defaults and
dependencies, reduced to those that differ in behaviour).

## 3. What is checked

Bounds are the constants of the `.cfg` files; a counter that the code leaves
unbounded (`MaxSeq`, `MaxWrites`, `MaxBoots`, `MaxTime`, `MaxLines`, `MaxOps`, ...) is
bounded in the guard of the action that would count further.

| Run | Instance | Shows |
|---|---|---|
| `hub_streams` | 1 run, 4 events, 2 viewers, channel of 1 | order, no holes, complete clean ends, nobody stranded, every stream ends |
| `engine_runs` | a gated and a scheduled run, limit 1 or none, 1 settings write, 1 restart | gate, slots, rows after boot, final status, refinement of `RunLifecycle`, every run ends |
| `sched_table` | 1 schedule, periods 2 and 3 and an expression that is never due, requests with a due time of 0 or 2, clock to 6, 1 restart | no overlap, due times that fit, deleted stays deleted, a due schedule is fired unless a restart finds it late |
| `ansible_run` | owner and 2 operators, 3 lines, all ways of starting | gate, early approvals found, events once, no zombie row, a cancel ends everything |
| `ui_live` | 2 runs over 2 streams; 3 tokens and 2 requests; 2 outages, 1 retry, 3 refreshes | honest views, the session kept, a loop that neither stops nor slows too early; views settle, links heal, refused tokens go and honoured ones only for a named reason |
| `services` | 2 monitors (one depending on the other), a vault of 2 secrets and 2 passwords, 1 MCP server and 2 sessions, 2 users, 2 exchanges on 1 slot, throttle to 60 failures | loops and incidents follow the rows, secrets survive, sessions and tools are accounted for, accounts agree with answers, removed loops and exchanges end |
| `ui_console` | 12 screens and stores, 2 or 3 items each | chats, catalogs and screens show what their stores hold |
| `tools` | every input of small sets: calendars of 2 hours to 2 years, addresses of 2 octets of 2 bits, ... | on the expressions both readers accept, and on these calendars, the scheduler's next time and the console's preview are the first time of the definition; answers are exact, configurations satisfy their constraints |

Why the bounds are enough. Four events with a channel of one let a viewer be
dropped and let the replay limit fall before, between and after the emitted events;
two viewers make one slow while the other is not. Two runs and one slot are the
least in which a parked run blocks another; one settings write makes two semaphores
coexist; one restart separates the rows of two processes, and only the table
survives it. Two schedules share no state but the list; a clock of 6 holds three due
times of period 2, one missed by a restart and one carried by a request. Three lines allow a torn line before,
between and after whole ones. Two streams allow one to be left for another, and a
third token follows a sign-in and a password change. Two monitors are what a
dependency needs; 60 failures of a login pass the point where the shift of the
back-off exceeds 63 bits. The screens need two items to be mistaken for one another
and a request in flight while another begins.

`CHECK_DEADLOCK FALSE` is set where finished runs, bounded clocks and a process that
stays down are legitimate ends.

### Runs that fail: what the code does, and what is said of it

| Run | The code does | What is said |
|---|---|---|
| `engine_boot_race` (`OwnRunsKept`) | a run-on-start schedule fires before `MarkRunningInterrupted`, which marks it (`cmd/infrakit-backend/main.go:180`, `:285`) | "any such row was left behind by a previous process" (`orchestrator/store.go:547`) |
| `sched_lost_edit` (`EditsKept`) | a fire writes its old copy over an edit made meanwhile (`orchestrator/scheduler.go:164`, `:178`) | "schedule edits made through the API are picked up" (`:11`) |
| `ansible_never_ends` (`PlayedRunEnds`) | a run joins a tail that ends only with the run's context (`ansible/run.go:343`, `:389`) | "runs a prepared playbook run to completion" (`:210`) |
| `ui_import_race` (`IndexInSync`) | an import starts all its saves at once, each works on the index the first one read (`promptRepository.ts:69`, `promptLibraryStore.ts:381`) | saving and deleting keep the index in sync (`promptRepository.ts:10`) |

### Fairness

- *Goroutines are scheduled*: weak fairness of each run's, viewer's and loop's steps
  (Go's scheduler is preemptive). Nobody is obliged to open a stream, and a client
  that stops reading is dropped by the hub or leaves.
- *A blocked send on a channel is served*: strong fairness of `Acquire`. Go queues
  blocked senders in order, so a run waiting for a slot that is given back again and
  again gets one.
- *A step, a playbook, a scheduled run ends*: every step has a timeout, a fire a
  deadline of six hours; that a playbook ends by itself is assumed only to show a
  run that does *not* end although its playbook did.
- *Recovery runs* (`WF(Recover)`): it is the next statement of `main`.
- *The event loop of the browser runs its callbacks and requests are answered*, in
  one way or another: weak fairness of answers, timers and of delivering what a
  stream holds.
- *An exchange with a model takes the steps that are its own* (`OwnStep`): it takes a
  free slot, sends what it has, times an approval out, notices that its client left. A
  client that stays reads what it is sent. A provider or a tool need **not** answer:
  there is no timeout around either (`llm/provider.go:14`, `mcp/manager.go:278`). So
  `ExchangesEnd` promises the end of every exchange whose client leaves, and of the
  others only when no exchange waits for a provider or a tool for ever; without that
  assumption TLC finds the exchange that keeps its slot.

Not assumed: that anybody approves, cancels, edits, signs in or restarts anything.

## 4. What is proved

TLAPS proves the following for every value of the constants: any number of runs,
viewers, operators, schedules, events, streams, tokens, secrets, passwords, servers,
requests, exchanges, approvals, users, failed logins, monitors, probes, chats, messages
and replies, any channel capacity and limit.

| Theorem | States |
|---|---|
| `RunStream_proofs` `TypeCorrect`, `InOrder`, `Gapless`, `CleanEnd`, `NobodyStranded` | `TypeOK`, `InOrderOnce`, `NoGap`, `EofComplete`, `NoStrandedViewer`: every safety invariant of `hub_streams` |
| `RunEngine_proofs` `TypeCorrect`, `GateIsSafe`, `SlotsRespected`, `NoZombies`, `EndStays` | `TypeOK`, `GateHolds`, `SlotsBounded`, `NoZombieRow`, `EndIsFinal`: every safety invariant of `engine_runs` |
| `RunEngine_proofs` `EngineImplements`, `OwnRunsAreKept` | the refinement `ImplementsLifecycle`, and `OwnRunsKept`, when no schedule runs on start |
| `Scheduler_proofs` `TypeCorrect`, `NeverOverlaps`, `NextFitsCron`, `NothingSkipped`, `StaysDeleted` | `TypeOK`, `NoOverlap`, `NextMatchesCron`, the action property of `DueIsFired` (`NotSkipped`), and, for a scheduler that writes with UPDATE, `DeletedStaysDeleted` |
| `AnsibleRun_proofs` `TypeCorrect`, `GateIsSafe`, `EarlyFound`, `OnceInOrder`, `NoZombies` | `TypeOK` (and the tail is never ahead of the file), `GateHolds`, `EarlyApprovalFound`, `EventsOnce`, `NoZombieRow` |
| `Live_proofs` `ViewStaysHonest`, `SessionStaysKept`, `LoopStaysHealthy`, `SessionsEndForAReason` | `ViewIsHonest`, `SessionKept`, `LoopHealthy`, and the action property of `SessionEnds` (`DroppedForAReason`) |
| `Services_proofs` `VaultIsSound`, `AiIsSound`, `AccountsAreSound`, `MonitorsAreSound`, `VaultStaysSound` | `AiSound` (MCP sessions and exchanges), `AccountsSound` (accounts and the login throttle), `MonitorsSound` (loops, incidents and alerts) and `VaultSound` (of a vault alone, and beside the others): every safety invariant of `services` |
| `Console_proofs` `ChatHolds` | `ChatSound` (the chat and the panel), without a hypothesis on when streams close |
| `Screens_proofs` `BoardHolds`, `AlertsHold`, `PagesHold` | the parts of `ScreensSound` about the board of the monitors, the alert settings and the status pages |

The assumptions are the named `ASSUME`s of the modules: a channel holds at least one
message, bounds are naturals, a scheduled run has no requester, there is a run and 0
is the id of none, there are finitely many exchanges and monitors (0 and 99 are the id of none), a threshold is a
natural, no user is called `nobody`,
only the end of a run sends `run-end`, and a reply of a model ends once, at its end, and
asks about one tool call at most. These theorems have a hypothesis of their own:

- `RunOnStart = {}` for the refinement and `OwnRunsKept`. With a schedule that runs on
  start both are false of the code: that is the run `engine_boot_race`.
- `~Upserts` for `DeletedStaysDeleted`: the Ansible scheduler saves with an upsert and
  does bring a deleted schedule back (section 6).

The arguments, and why the properties alone are not inductive:

- *InOrder*. `got` increasing is not inductive. The invariant says of a log that it is
  increasing and ends at or before `seq`, and of a viewer that while it replays, what
  it was sent is the part of the file it has read and holds nothing after `from`, and
  that its channel holds an increasing sequence of events after `from` and after
  everything it was sent. `from` is the seam: it is read in the critical section in
  which the viewer joins the subscribers, so nothing is on both sides of it.
- *Gapless, CleanEnd*. `NoHoles` keeps account of every event a viewer is owed, that
  is on file or was emitted after it attached: its channel is a run of consecutive
  events that ends with the last one unless the viewer was dropped, and whatever
  came before that run was sent. A file without a missing record holds event *i* in
  place *i*, which makes the replay and the channel meet. A viewer that finds its run
  unlisted but not yet closed, or opened but not yet registered, is a case of its own
  (`FileInv`), since `Start` and `Finish` take their two locks one after the other.
- *NobodyStranded*. A viewer whose channel is open has a run that is not closed:
  `Attach` checks this again under the lock that `Close` takes.
- *GateIsSafe* (engine). `GateHolds` speaks of runs in their steps; `AllGates` carries
  it back to its source: an operator about to send is not the requester; what is in
  the channel or was received comes from such an operator or is nothing; a run before
  its steps has no results. Only `Grant` enters the steps. Timeouts, cancels, settings,
  shutdown, crash and recovery leave all of it alone.
- *NoZombies, EndStays*. `AllLives` ties the row of each run to its program counter and
  to the process (`RowFits`, `ProcessFits`): a row may claim to go on without a
  goroutine only while the process is down or booting, and what a viewer was told is
  what the row says. Runs that a schedule started before the recovery are the
  exception the invariant has to name.
- *SlotsRespected*. The holders of a semaphore are counted against its size by
  `SlotsInv`: who holds a slot captured that semaphore, and a semaphore once made never
  changes its size. The cardinalities are those of finite sets of runs.
- *EngineImplements*. The initial state maps to the initial state and each engine
  action to one abstract action or a stutter, with `AllGates` for the step that the
  abstract gate guards and `AllLives` for the recovery.
- *NeverOverlaps*. Every fire's id is in `running`; a fire starts only for an id that
  is not, in the same critical section, and only its last step releases it.
- *NextFitsCron*. Rows are written from copies, so the invariant (`CopiesFit`) has to
  hold of every copy in flight: the list being walked and the row each fire keeps. Of
  an expression that is never due it says nothing, as nothing is true of the due time
  such a schedule has (section 6).
- *NothingSkipped*. Only a fire, an edit, a deletion or `reanchor` writes a row; a fire
  writes a copy only while it is in flight, and what `reanchor` moves on is what it
  read as overdue by more than an interval (`FoundLate`).
- *OnceInOrder*. What was passed on lies at or before `pos`, and a drain appends
  numbers after `pos` in order, whether or not the line at `pos` was torn.
- *EarlyFound*. The entry is registered before the event is emitted and removed only
  when nobody receives any more (a conjunct of `GateInv`).
- *ViewStaysHonest*. `ViewInv` says that, unless the user raced a lookup, at most one
  lookup is in flight and then no stream is open; an open stream is the view's; and a
  view with a stream shows exactly what that stream delivered, has a status other
  than "starting" or "running" once the stream is through (so `onClose` does not touch
  it), and says "ok" only of a run that is or of a dropped stream. Aborting before
  every lookup is what keeps the second part.
- *SessionStaysKept*. Until `init()` is done nobody is shown and nothing is in flight;
  during a sign-in nobody is shown, so the pull that ends it shows the token it was
  given; the two places of the token change together.
- *LoopStaysHealthy*. Whether the cached address is the backend's is tied to the
  refreshes in flight: before the first outage or retry a success is never undone.
- *AiIsSound*, the sessions. A session is dialled, taken out and closed outside the
  mutex, so `InHand` gives it an owner: between those steps it is in the hands of
  exactly one request, open, and registered nowhere; `RegisterStep` and `DropStep`
  hand it over. What is shown and cached is promised only of a calm history, one in
  which no change, removal or failure overlapped another request at its server; there
  a request that changes something is alone (`Single`), which `Start` keeps up by
  looking at who is there, and what a request has read is still so when it uses it
  (`InCalm`).
- *AiIsSound*, the exchanges. `ConsentFits` follows the decision of the user: an
  approval that is waited for holds nothing or the first decision, a verdict "yes" is
  that first decision, and approvals not yet asked for are blank, so a late decision
  about an old call can never be taken for one about the next. `HalfPaired` describes
  the messages in the middle of a turn: complete turns, the calls of this one, the
  results so far, and what is left to do. A run of a call is recorded at the length
  of the messages, which only grow (`RanBefore`), so no call runs twice.
- *AccountsAreSound*, the accounts. While no two writers overlapped there is one, and
  from its read on it has the row as it is and another administrator when it takes one
  away (`WriterFits`): its read and its count are still so when it writes. That a
  session fits its account is kept from a write to the end of the sessions by an
  exemption for that one user (`TokenFits`), and a login that read the row before the
  write is what `loose` names (`LoginFits`). A setup token means that nobody is there,
  so nobody is signed in and no writer is under way.
- *AccountsAreSound*, the throttle. What is left of the block is at least what the last
  failure must still cost; the sweep drops an entry an hour after its block, when no
  failure costs anything any more. The wrapped powers of two are the lemma
  `BlockCosts`: the block is between the cost and the cap for every number of failures.
- *MonitorsAreSound*. Whatever overlapped, a loop remembers of its alerts what it sent
  (`Remembers`), and each alert has the last one before it (`EachHasLast`), so alerts
  pair up. While no two steps of one monitor were under way at once it has one actor
  (`Alone`), and the rest of the invariant says what that actor has read and not yet
  written: a tick between its probe and its record knows the status of the row, and
  between its record and the log knows the status before (`TickFits`, `LogFits`); a
  call between the row and the loop knows which of the two is behind (`CallFits`,
  `LoopFits`). A streak is a run of failures at the end of the samples, one longer
  than that between the probe and its record, and the streak a new loop starts from
  is one (`Streak`). A manual check adds a sample that no loop counts, so the streak
  is promised only where there was none. Before the first request there is one loop
  per monitor, and nothing is muted (`OnlyBooted`), which is what the stricter half of
  the pairing needs.
- *ChatHolds*, the chat. That a failed reply is never sent again is not inductive, as it
  may still be on its way to be saved. `ChatInv` says that at most one stream is open,
  the last, and that the last turn of the chat is its own (`OpenIsLast`: every function
  that leaves a chat aborts its stream first); that a turn whose stream failed is marked
  (`TurnsKnown`); and that what was sent, is being saved or was saved is settled, over
  and without a failure, which no later step of a stream takes back (`SentSettled`,
  `KeptSettled`). The messages of a request are those of a recursive function over the
  turns. That it keeps no failed turn, of any number, is the lemma `OutgoingKeeps`: there
  is no least prefix of which it is false (`LeastNumber`). `OnceAsked` ties a paused tool
  call to the approval its stream has sent, which is one.
- *ChatHolds*, the panel. A reply is still to be committed only while the run it belongs
  to is the latest and the last message is its own (`ReplyAwaited`), so the effect that
  commits it, whichever event ends the run, writes it after its question.
- *BoardHolds*. A request is answered from the table as it is when the backend reads it
  and its answer is drawn later, so the invariant (`BoardInv`) is about what is on its
  way. A pane belongs to the monitor it was asked for (`PanesOwn`). While no answer was
  lost or overtook another, the last chart asked for is of the range that is selected
  (`ChartKept`), and a poll announces an outage once because what it remembers of a
  monitor is ahead neither of the row nor of a list on its way (`SeenBehind`) and what it
  has passed over was told (`Told`, `PollOnce`). The lists on their way are in the order
  of what they show, none of it newer than the rows (`Queued`).
- *AlertsHold*. The secret is never shown, so a page can only send back the mask; what is
  merged into the stored settings keeps the stored secret then (`SecretHidden`).
  While no answer was lost or overtaken (`CalmSoFar`), either nothing is unsaved, and
  what is on its way changes nothing and shows what is stored (`Idle`), or every save on
  its way carries the draft, which merged twice is what it is merged once (`Unsaved`).
- *PagesHold*. A token issued is larger than any before (`TokensIssued`), so one that was
  retired comes back on no page. A list on its way is the table of its time
  (`ListsOfTheirTime`), and a change that is not shown yet is followed by a list that
  has it (`ListComes`).
- *VaultStaysSound*, *AiIsSound*, *AccountsAreSound*, *MonitorsAreSound*, together. One
  part moves and leaves the variables of the others alone, so a step of the composition is a step or a stutter of each part.
- *VaultIsSound*. What is told of a secret and not in doubt is also what memory holds
  (`MemoryAsTold`): a write that fails puts in doubt every secret it was about, so a
  later write of another secret cannot store something nobody was told of.

The inductive invariants were checked by TLC on the instances of section 3 before
they were proved.

Only model-checked, and why:

- liveness under fairness and everything with `ENABLED`, which the prover does not
  treat: `StreamsEnd`, `EveryRunEnds`, `DueIsFired`, `CancelEnds`, `SessionEnds` (but for
  its action property), `Settles`, `LoopsEnd`;
- `CatalogSound` of `ui_console`, and of its `ScreensSound` the parts about the shell,
  the hub, the library, the history, the form flow and the runbook editor: safety, but
  of many small state machines;
- `ScheduleAgrees`, `AnswersExact`, `ConfigsHold` of `tools`: they compare two ways to
  compute an answer on the inputs of a bench, with recursive operators and folds.

## 5. What is not modelled, and why

- Probes, executors, runners, providers, git, Galaxy, the network tools: external
  programs and connections. The specifications see how they end.
- Rendering and redaction of runbooks, JSON, YAML, regular expressions, certificates,
  QR codes: functions on strings handed to libraries.
- Passwords, keys, certificates: cryptography. The vault knows which key sealed what.
- Display state: dialogs, charts, themes, screens that send one request and show its
  answer; the Tauri shell and the archived Flutter application.
- Failing database writes in the engines: they ignore the errors and the next boot
  repairs the row; the specifications assume that they succeed. The vault's failing
  writes are modelled.
- `Hub.Remove` has no caller; a key is never started twice; `SetMaxConcurrentPerConn`
  is never called.
- History, backups and grants: rows written by single statements.

The components that are left out are listed in `PROJECT.json` with the reason.

## 6. Observed while modelling

Disagreements and sharp edges met on the way that are not runs of their own. Most
are histories the properties exclude by a named history variable or a condition.

Runs and schedules: a viewer that attaches before the first event replays without a
limit and gets some events twice (`runstream/hub.go:223`, `:261`); a settings write makes
a new, empty semaphore, so more runs than the limit may be in flight
(`orchestrator/engine.go:116`); a deleted Ansible schedule is resurrected by the save
after its fire (`ansible/scheduler.go:167`); a decision sent after the gate's timeout is
answered "ok" (`orchestrator/engine.go:95`); a run cancelled in the queue or at its gate
is recorded as failed (`:361`, against `docs/plans/BACKGROUND_RUNS_PLAN.md:122`); the
shutdown exits without waiting for its runs (`cmd/infrakit-backend/main.go:533`); an event
whose line is read half-written is lost (`ansible/run.go:380`).

Schedules that come due while the backend is down: `reanchor` moves on, without a fire,
every one it finds more than an interval late (`orchestrator/scheduler.go:83`), where its
comment says that such a schedule "runs once, promptly, rather than being skipped"
(`:66`) and that of `runOnStart` that "missed cron windows are never replayed" (`:94`).
`DueIsFired` states what the code does and names this exception (`FoundLate`). Schedules
with an expression that parses and is never due, such as `0 0 30 2 *`: an enabled one
keeps whatever due time came with the request (`orchestrator/store.go:481`, against
"NextRunAt is (re)computed from now whenever the schedule is enabled", `:458`), and
`reanchor` does not change it. A new one has none and never fires; one that was due
under an earlier expression is fired at every tick once that time has come, as a fire
cannot advance it either (`orchestrator/scheduler.go:144`, against "Advance NextRunAt
first so a long run can't cause a double-fire", `:142`). `ansible/scheduler.go` and its
store do the same. `NextMatchesCron` speaks of expressions that have a next time.

Views: when the hub drops a slow viewer, its response ends cleanly and `onClose` shows
"ok" (`ansibleStore.ts:637`), where `hub.go:287` says that the client reconnects.

Session: the `getMe` of `refreshMe` (`authStore.ts:169`), answered after a refusal, a
sign-out or another sign-in, shows its user although the token is gone or another's;
`SessionKept` holds of every user not shown by such an answer (`late`). A session that
the backend honours is dropped in four ways, all named in `DroppedForAReason`: by `init`
when the backend cannot be reached, taken for a "stale token from a previous multi-user
backend" (`:89`), or when `getMe` fails for any reason (`:104`); by a mistyped current
password, which is answered with a 401 (`api/auth.go:74`) that the handler takes for
"the session is gone" (`backendClient.ts:95`); by a sign-out; and by the late refusal or
sign-out of an earlier session. Who signs out while a change of the password is under
way is signed in again by its answer (`:158`). A 401 leaves the synchronisation on.

Services: two administrators who demote or delete each other at once leave none
(`auth/store.go:194`, `:254`); whole-row updates from a stale read undo a concurrent patch;
`DeleteUserSessions` may fail unnoticed (`:249`). A late decision of a tool call is
answered "delivered"; an exchange holds its slot while it waits for an approval, and for
ever when a provider or a tool does not answer and its client stays: "the request
context carries the deadline" (`llm/provider.go:16`), but the request only has a cancel
(`api/llm.go:280`, `:339`), and the call of a tool has no timeout either
(`mcp/manager.go:278`). An MCP server deleted between the disconnect and the erasing may keep a session
(`api/mcp.go:89`), and a list change announced during a listing is overwritten. A failed
write of the vault leaves memory ahead of the file, and the next write stores it; an
unreadable vault file is replaced by an empty vault (`vault/registry.go:57`). Editing a
monitor in the console disables it (`MonitorsScreen.tsx:782`, `api/monitor.go:97`); a
tick's stale row overwrites what was written meanwhile; two reloads at once orphan a
loop; pausing a monitor that is down leaves its incident open; a crash between
`recordCheck` and `OpenIncident` loses the incident; samples of a monitor that probes
more often than every 17 seconds are pruned before they are folded, against
`monitor/rollup.go:9`. The uptime of 30 days is counted from hours at its far end and
leaves out the samples of the hour that the window begins in, where `monitor/rollup.go:225`
says that "boundary slop is sub-minute"; `UptimeClose` allows each window the one partial
bucket of the rows it reads, and fails with a minute for that window. An outage that a poll finds while its monitor is muted is not
announced when the monitor is unmuted (`monitorStore.ts:94`).

Chat: `sendMessage` checks only that no reply is under way (`llmStore.ts:241`), and a reply
is over before its stream has closed. When it closes during the next reply, `onClose`
clears the busy mark of that one and `onError` marks it failed (`:325`), where "only
`end`/`error` ends it" (`:320`); the user may then send into the middle of a reply.
`saveChat` writes the id it gets into whichever chat is shown by then (`:400`), and the
next save of that chat overwrites the other conversation. `ChatSound` says what holds
until one of the two happens (`late`): a close that finds no reply under way, and a save
answered for its own chat, are inside what it covers.

Screens: the form designer may save the schema of form A over form B when B's load has
not answered (`FormFlowBuilderScreen.tsx:84`); a pending autosave overwrites a draft
restored or discarded meanwhile (`RunbookEditorScreen.tsx:143`), and a draft saved
between the statements of `SaveVersion` is lost (`orchestrator/store.go:343`), and the save
uses the number of a version deleted between them again; edits of the
alert settings typed while a save is in flight are discarded; a chat draft is lost by
Ctrl+Enter while an answer streams; the catalog editor can be left with a value nobody
can change (`DirectiveCatalogEditor.tsx:199`); the monitor list stays on a tag that no
monitor has any more.

Tools: the crontab builder treats `*/2` as a day like a star where the schedulers do
not; `-1` and `7/2` as days of the week differ between `cron.ts` and `cron.go`; the
standalone PostgreSQL role emits `wal_level = minimal` next to ten WAL senders; an
over-rate packet of a limited nftables rule falls through to later rules where ufw
denies it; "redirect to https" warns of a server on port 80 that is not emitted; an
empty `--network=` of a `docker run` is dropped without a word.

## 7. What is left

The theorems still to prove are those named in section 4 as only model-checked, first
the screens and the catalogs. To model further: the reports of the
monitors, the catalog of models and the usage of the AI hub, the Ansible projects.
