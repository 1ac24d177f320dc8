----------------------------- MODULE RunEngine -----------------------------
(***************************************************************************)
(* The runbook engine (internal/orchestrator): the life of runs from       *)
(* prepareRun to hub.Finish, each in its own goroutine, with the           *)
(* concurrency slots, the approval gate and the operators answering it,    *)
(* cancellation, and the process dying and booting again over the run      *)
(* table.  A run id is the AUTOINCREMENT id of its row; database writes    *)
(* are assumed to succeed.                                                 *)
(***************************************************************************)
EXTENDS Integers, Sequences, FiniteSets

CONSTANTS
    Runs, Users, NoUser,
    Requester,      \* [Runs -> Users \cup {NoUser}]: userctx of the request
    Scheduled,      \* runs fired by the scheduler: no user, not in the hub
    RunOnStart,     \* the scheduled runs fired as soon as the scheduler starts
    Gated,          \* runs of a runbook with RequiresApproval
    Script,         \* [Runs -> Seq([runIf, cont])]: the steps of the runbook
    Limits,         \* the values maxConcurrentRuns is given (none above 0: unlimited)
    MaxWrites,      \* bound: settings writes per process
    MaxBoots        \* bound: restarts

ASSUME UsersAssumption ==
    /\ NoUser \notin Users
    /\ Requester \in [Runs -> Users \cup {NoUser}]
    /\ \A r \in Scheduled : Requester[r] = NoUser
ASSUME RunsAssumption ==
    RunOnStart \subseteq Scheduled /\ Scheduled \subseteq Runs /\ Gated \subseteq Runs
ASSUME ScriptAssumption ==
    Script \in [Runs -> Seq([runIf : {"always", "prev-success", "prev-failure"},
                             cont : BOOLEAN])]
ASSUME LimitsAssumption == Limits \subseteq Int /\ MaxWrites \in Nat /\ MaxBoots \in Nat

VARIABLES
    proc,   \* the process: booting, up, stopping or down
    boots,  \* restarts so far
    caps,   \* capacities of the semaphores made so far; the last one is e.sem
    run,    \* the runs: goroutine, row, hub entry and channel of each, see RunType
    asked   \* operator: the runs (none or one) whose channel it is about to send to

vars == <<proc, boots, caps, run, asked>>

Active == {"running", "awaiting_approval"}
Finals == {"ok", "partial", "failed", "interrupted"}
Results == {"ok", "failed", "skipped"}
Empty == [by |-> NoUser, ok |-> FALSE]
Decisions == [by : Users \cup {NoUser}, ok : BOOLEAN]

RunStates ==
    {"idle", "prepared", "started", "queued", "slotted", "announced", "gate",
     "leaving", "decided", "steps", "instep", "reporting", "returning", "finishing",
     "done", "lost"}

RunType ==
    [ pc : RunStates,
      row : {"none"} \cup Active \cup Finals,       \* status column of its row
      listed : BOOLEAN,                             \* in the hub's registry
      cancelled : BOOLEAN,                          \* its context is done
      sem : Nat,                                    \* the semaphore it captured
      held : BOOLEAN,                               \* it holds a slot of it
      box : Decisions,                              \* its approval channel (capacity 1)
      answer : Decisions,                           \* what the gate received, if anything
      approvedBy : Users \cup {NoUser},             \* who let it run
      results : Seq(Results),                       \* its steps so far
      report : {"none", "cancelled"} \cup Finals,   \* status in its run-end event
      told : BOOLEAN ]                              \* run-end was emitted

NewRun ==
    [ pc |-> "idle", row |-> "none", listed |-> FALSE, cancelled |-> FALSE, sem |-> 0,
      held |-> FALSE, box |-> Empty, answer |-> Empty,
      approvedBy |-> NoUser, results |-> <<>>, report |-> "none", told |-> FALSE ]

\* SetMaxConcurrent: 0 stands for no semaphore at all.
Unclamped(n) == n      \* mutant: a negative limit reaches make(chan, n)
Capacity(n) == IF n <= 0 THEN 0 ELSE n

Init ==
    /\ proc = "booting" /\ boots = 0
    /\ \E n \in Limits : caps = <<Capacity(n)>>
    /\ run = [r \in Runs |-> NewRun]
    /\ asked = [u \in Users |-> {}]

world == <<proc, boots, caps, asked>>

NeedsApproval == {r \in Gated \ Scheduled : Requester[r] # NoUser}
Live(r) == run[r].pc \notin {"idle", "done", "lost"}
Registered(r) == run[r].pc \in {"gate", "leaving"}   \* in e.approves

\* The goroutine of r moves from one point to the next and changes nothing else.
Move(r, from, to) ==
    /\ run[r].pc = from
    /\ run' = [run EXCEPT ![r].pc = to]
    /\ UNCHANGED world

-----------------------------------------------------------------------------
(* Starting a run.                                                         *)

\* The API starts runs while the process serves requests; the scheduler is
\* already polling while main is still booting.
MayStart(r) == proc = "up" \/ (proc = "booting" /\ r \in RunOnStart)

\* prepareRun, valid: InsertRun with the initial status.
Prepare(r) ==
    /\ MayStart(r)
    /\ run[r].pc = "idle"
    /\ run' = [run EXCEPT
         ![r].pc = "prepared",
         ![r].row = IF r \in NeedsApproval THEN "awaiting_approval" ELSE "running"]
    /\ UNCHANGED world

\* StartBackground: hub.Start registers the run, then its goroutine starts.
HubStart(r) ==
    /\ r \notin Scheduled
    /\ run[r].pc = "prepared"
    /\ run' = [run EXCEPT ![r].pc = "started", ![r].listed = TRUE]
    /\ UNCHANGED world

\* StartBackground: the hub could not create the log file.
HubStartFails(r) ==
    /\ r \notin Scheduled
    /\ run[r].pc = "prepared"
    /\ run' = [run EXCEPT ![r].pc = "done", ![r].row = "failed"]
    /\ UNCHANGED world

\* The scheduler calls Run in its own goroutine, without the hub.
FireRun(r) == r \in Scheduled /\ Move(r, "prepared", "started")

-----------------------------------------------------------------------------
(* executeRun: the concurrency slot.                                       *)

Holders(g) == {r \in Runs : run[r].held /\ run[r].sem = g}
RoomForOneMore(g) == Cardinality(Holders(g)) <= caps[g]  \* mutant: off by one
HasRoom(g) == Cardinality(Holders(g)) < caps[g]

\* getSem: capture the current semaphore, if there is one.
GetSem(r) ==
    /\ run[r].pc = "started"
    /\ run' = [run EXCEPT
         ![r].pc = IF caps[Len(caps)] = 0 THEN "slotted" ELSE "queued",
         ![r].sem = Len(caps)]
    /\ UNCHANGED world

Acquire(r) ==
    /\ run[r].pc = "queued"
    /\ HasRoom(run[r].sem)
    /\ run' = [run EXCEPT ![r].pc = "slotted", ![r].held = TRUE]
    /\ UNCHANGED world

\* Cancelled while it waited for a slot: FinishRun, then run-end "cancelled".
GiveUp(r) ==
    /\ run[r].pc = "queued"
    /\ run[r].cancelled
    /\ run' = [run EXCEPT ![r].pc = "reporting", ![r].row = "failed",
                          ![r].report = "cancelled"]
    /\ UNCHANGED world

-----------------------------------------------------------------------------
(* executeRun: the approval gate, with the slot held.                      *)

SkipGate(r) == r \notin NeedsApproval /\ Move(r, "slotted", "steps")

\* "approval-required" is emitted first, the pending approval registered after.
Announce(r) == r \in NeedsApproval /\ Move(r, "slotted", "announced")
Register(r) == Move(r, "announced", "gate")

\* awaitRunApproval's select: a decision, the timeout, or the end of the context.
GateReceive(r) ==
    /\ run[r].pc = "gate"
    /\ run[r].box # Empty
    /\ run' = [run EXCEPT ![r].pc = "leaving", ![r].box = Empty,
                          ![r].answer = run[r].box]
    /\ UNCHANGED world

GateTimeout(r) == Move(r, "gate", "leaving")
GateCancelled(r) == run[r].cancelled /\ GateTimeout(r)

\* The deferred delete from e.approves.
Deregister(r) == Move(r, "leaving", "decided")

FailOpen(r) == run[r].answer.ok \/ run[r].answer = Empty  \* mutant: silence grants
Granted(r) == run[r].answer.ok

Grant(r) ==
    /\ run[r].pc = "decided"
    /\ Granted(r)
    /\ run' = [run EXCEPT ![r].pc = "steps", ![r].row = "running",
                          ![r].approvedBy = run[r].answer.by]
    /\ UNCHANGED world

Refuse(r) ==
    /\ run[r].pc = "decided"
    /\ ~Granted(r)
    /\ run' = [run EXCEPT ![r].pc = "reporting", ![r].row = "failed",
                          ![r].report = "cancelled"]
    /\ UNCHANGED world

\* ResumeRun, first half, under apprMu: find the channel of the run.
Anybody(u, r) == TRUE               \* mutant: no check against the requester
MayDecide(u, r) == u # Requester[r]

ResumeLookup(u, r) ==
    /\ proc \in {"up", "stopping"}
    /\ asked[u] = {}
    /\ Registered(r)
    /\ MayDecide(u, r)
    /\ asked' = [asked EXCEPT ![u] = {r}]
    /\ UNCHANGED <<proc, boots, caps, run>>

\* ResumeRun, second half: a send that does not block; the operator is answered
\* "ok" when it went through, "not found" when the channel was full.
ResumeSend(u, r, ok) ==
    /\ r \in asked[u]
    /\ asked' = [asked EXCEPT ![u] = {}]
    /\ run' = IF run[r].box # Empty THEN run
              ELSE [run EXCEPT ![r].box = [by |-> u, ok |-> ok]]
    /\ UNCHANGED <<proc, boots, caps>>

-----------------------------------------------------------------------------
(* executeRun: the step loop and the end.                                  *)

Done(r) == Len(run[r].results)
Prev(r) == IF Done(r) = 0 THEN "none" ELSE run[r].results[Done(r)]

ShouldRun(r) ==
    CASE Script[r][Done(r) + 1].runIf = "prev-success" -> Prev(r) \in {"none", "ok"}
      [] Script[r][Done(r) + 1].runIf = "prev-failure" -> Prev(r) = "failed"
      [] OTHER -> TRUE

\* A step failed that the runbook may not continue from.
Broken(r) == Prev(r) = "failed" /\ ~Script[r][Done(r)].cont
LoopDone(r) == Done(r) = Len(Script[r]) \/ Broken(r)

Overall(r) ==
    CASE Broken(r) -> "failed"
      [] ~Broken(r) /\ \E i \in 1..Done(r) : run[r].results[i] = "failed" -> "partial"
      [] OTHER -> "ok"

SkipStep(r) ==
    /\ run[r].pc = "steps" /\ ~LoopDone(r) /\ ~ShouldRun(r)
    /\ run' = [run EXCEPT ![r].results = Append(@, "skipped")]
    /\ UNCHANGED world

\* The executor starts; with a cancelled context it fails at once.
StartStep(r) ==
    /\ run[r].pc = "steps" /\ ~LoopDone(r) /\ ShouldRun(r)
    /\ run' = IF run[r].cancelled
              THEN [run EXCEPT ![r].results = Append(@, "failed")]
              ELSE [run EXCEPT ![r].pc = "instep"]
    /\ UNCHANGED world

\* It exits, fails, times out or is killed by the cancelled context.
EndStep(r) ==
    /\ run[r].pc = "instep"
    /\ \E s \in {"ok", "failed"} :
          run' = [run EXCEPT ![r].pc = "steps", ![r].results = Append(@, s)]
    /\ UNCHANGED world

RowForgotten(r) == run[r].row       \* mutant: FinishRun is not called
RowAtEnd(r) == Overall(r)

\* FinishRun with the overall status.
FinishRow(r) ==
    /\ run[r].pc = "steps" /\ LoopDone(r)
    /\ run' = [run EXCEPT ![r].pc = "reporting", ![r].row = RowAtEnd(r),
                          ![r].report = Overall(r)]
    /\ UNCHANGED world

EmitEnd(r) ==
    /\ run[r].pc = "reporting"
    /\ run' = [run EXCEPT ![r].pc = "returning", ![r].told = TRUE]
    /\ UNCHANGED world

SlotKept(r) == run[r].held          \* mutant: the slot is not given back
HeldAfter(r) == FALSE

\* executeRun returns: the deferred receive gives the slot back.
Return(r) ==
    /\ run[r].pc = "returning"
    /\ run' = [run EXCEPT ![r].pc = "finishing", ![r].held = HeldAfter(r)]
    /\ UNCHANGED world

\* hub.Finish with the status read back from the row, then the deferred cancel.
HubFinish(r) ==
    /\ run[r].pc = "finishing"
    /\ run' = [run EXCEPT ![r].pc = "done", ![r].listed = FALSE]
    /\ UNCHANGED world

-----------------------------------------------------------------------------
(* Around the runs: cancellation, settings, shutdown, crash and boot.      *)

\* Cancel and hub.Cancel: only a run in the registry.
Cancel(r) ==
    /\ proc = "up"
    /\ run[r].listed
    /\ run' = [run EXCEPT ![r].cancelled = TRUE]
    /\ UNCHANGED world

\* PutSettings applies maxConcurrentRuns on every write: a new semaphore each time.
SaveSettings(n) ==
    /\ proc = "up"
    /\ Len(caps) <= MaxWrites
    /\ caps' = Append(caps, Capacity(n))
    /\ UNCHANGED <<proc, boots, run, asked>>

\* A signal: CancelAll for the runs in the hub; the scheduler's context ends the
\* others.  Nobody waits for the goroutines.
Shutdown ==
    /\ proc = "up"
    /\ proc' = "stopping"
    /\ run' = [r \in Runs |-> [run[r] EXCEPT !.cancelled =
                                  @ \/ run[r].listed \/ (r \in Scheduled /\ Live(r))]]
    /\ UNCHANGED <<boots, caps, asked>>

\* The process exits or is killed: only the table is left.
Exit ==
    /\ proc # "down"
    /\ proc' = "down"
    /\ run' = [r \in Runs |->
                 IF Live(r)
                 THEN [run[r] EXCEPT !.pc = "lost", !.listed = FALSE, !.held = FALSE,
                                     !.box = Empty, !.cancelled = FALSE]
                 ELSE [run[r] EXCEPT !.cancelled = FALSE, !.box = Empty]]
    /\ asked' = [u \in Users |-> {}]
    /\ UNCHANGED <<boots, caps>>

\* A new process: NewEngine makes its semaphore, scheduler.Start polls.
Boot(n) ==
    /\ proc = "down"
    /\ boots < MaxBoots
    /\ proc' = "booting" /\ boots' = boots + 1
    /\ caps' = <<Capacity(n)>>
    /\ run' = [r \in Runs |-> [run[r] EXCEPT !.sem = 0]]
    /\ UNCHANGED asked

RunningOnly(r) == run[r].row = "running"   \* mutant: a parked run is overlooked
LeftBehind(r) == run[r].row \in Active

\* MarkRunningInterrupted over the whole table, then the server listens.
Recover ==
    /\ proc = "booting"
    /\ proc' = "up"
    /\ run' = [r \in Runs |-> IF LeftBehind(r)
                              THEN [run[r] EXCEPT !.row = "interrupted"] ELSE run[r]]
    /\ UNCHANGED <<boots, caps, asked>>

-----------------------------------------------------------------------------
RunStep(r) ==
    \/ HubStart(r) \/ HubStartFails(r) \/ FireRun(r)
    \/ GetSem(r) \/ Acquire(r) \/ GiveUp(r)
    \/ SkipGate(r) \/ Announce(r) \/ Register(r)
    \/ GateReceive(r) \/ GateTimeout(r) \/ GateCancelled(r) \/ Deregister(r)
    \/ Grant(r) \/ Refuse(r)
    \/ SkipStep(r) \/ StartStep(r) \/ EndStep(r) \/ FinishRow(r)
    \/ EmitEnd(r) \/ Return(r) \/ HubFinish(r)

Operator(u) == \E r \in Runs : ResumeLookup(u, r)
                                 \/ \E ok \in BOOLEAN : ResumeSend(u, r, ok)

Next ==
    \/ \E r \in Runs : Prepare(r) \/ RunStep(r) \/ Cancel(r)
    \/ \E u \in Users : Operator(u)
    \/ \E n \in Limits : SaveSettings(n) \/ Boot(n)
    \/ Shutdown \/ Exit \/ Recover

Spec == Init /\ [][Next]_vars

\* Fairness: goroutines are scheduled, an executor ends (every step has a timeout),
\* the approval timer fires, and a channel's blocked senders are served in turn.
\* Nobody has to answer, to cancel, or to restart a process that is down.
Fairness ==
    /\ \A r \in Runs : WF_vars(RunStep(r)) /\ SF_vars(Acquire(r))
    /\ WF_vars(Recover)

FairSpec == Spec /\ Fairness

-----------------------------------------------------------------------------
(* Correctness.                                                            *)

TypeOK ==
    /\ proc \in {"booting", "up", "stopping", "down"}
    /\ boots \in 0..MaxBoots
    /\ caps \in Seq(Nat)
    /\ Len(caps) \in 1..(MaxWrites + 1)
    /\ run \in [Runs -> RunType]
    /\ asked \in [Users -> SUBSET Runs]

\* No step of a run that needs approval executes before an operator other than the
\* one who asked for it has approved it (awaitRunApproval, ResumeRun), whatever
\* timeouts, cancellations, denials and restarts do.
GateHolds ==
    \A r \in NeedsApproval :
        \/ run[r].approvedBy \in Users \ {Requester[r]} /\ run[r].answer.ok
        \/ run[r].pc \notin {"steps", "instep"} /\ run[r].results = <<>>

\* The runs that hold a slot of one semaphore never exceed its capacity.
SlotsBounded ==
    \A g \in 1..Len(caps) : Cardinality(Holders(g)) <= caps[g]

\* After boot recovery a row that says "running" or "awaiting_approval" has a
\* goroutine of this process behind it (MarkRunningInterrupted, FinishRun).
NoZombieRow ==
    proc \in {"up", "stopping"} => \A r \in Runs : run[r].row \in Active => Live(r)

\* Boot recovery only touches rows "left behind by a previous process".
OwnRunsKept == \A r \in Runs : Live(r) => run[r].row # "interrupted"

\* A viewer that saw run-end finds the final status in the run table: the row is
\* written before the event is emitted and is not touched again.
EndIsFinal ==
    \A r \in Runs : run[r].told =>
        run[r].row = IF run[r].report = "cancelled" THEN "failed" ELSE run[r].report

\* The engine implements the life of a run that its history promises: statuses
\* move forward only, "interrupted" comes from a restart and a run that needs
\* approval runs only on the approval of another operator.
Lifecycle == INSTANCE RunLifecycle WITH
    status <- [r \in Runs |-> run[r].row],
    approvedBy <- [r \in Runs |-> run[r].approvedBy]

ImplementsLifecycle == Lifecycle!Spec

\* Every run gets its final status while the process lives: no run waits for ever
\* for a slot, an operator or a viewer.
EveryRunEnds ==
    \A r \in Runs : run[r].row \in Active ~> (run[r].row \in Finals \/ proc = "down")
=============================================================================
