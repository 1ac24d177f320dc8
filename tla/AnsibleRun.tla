----------------------------- MODULE AnsibleRun -----------------------------
(***************************************************************************)
(* One Ansible run (internal/ansible: run, background): its goroutine, the *)
(* ansible-playbook process, the goroutine that tails the event file the   *)
(* callback plugin writes, the approval gate and the operators at it, the  *)
(* end of the run's context, and the process dying and booting again.      *)
(* An event is its number in the file.  A line may reach the file in two   *)
(* writes; the tail may read in between.                                   *)
(***************************************************************************)
EXTENDS Integers, Sequences, FiniteSets

CONSTANTS
    Users,      \* operators
    Owner,      \* the one who started the run
    Kinds,      \* ways the run may be started, see KindType
    MaxLines    \* bound: events the callback writes

ASSUME UsersAssumption == Owner \in Users
ASSUME LinesAssumption == MaxLines \in Nat

KindType == {"gated", "plain", "scheduled"}
ASSUME KindsAssumption == Kinds \subseteq KindType

VARIABLES
    kind,       \* how this run was started
    pc,         \* the run's goroutine
    row,        \* status column of its row
    registered, \* it is in e.approves
    box,        \* its approval channel: no more than one decision
    asked,      \* operators that hold the channel and are about to send
    approver,   \* the operator whose approval let it run, if any
    ended,      \* its context is done
    play,       \* the ansible-playbook process
    lines,      \* complete lines in the event file
    half,       \* the first part of the next line is in the file, too
    tail,       \* the tail goroutine: off, polling or done
    pos,        \* lines it has consumed
    torn,       \* and the first part of the next one
    events      \* the events it passed on, which FinishRun records

gate == <<registered, box, asked, approver>>
file == <<lines, half>>
tailing == <<tail, pos, torn, events>>
vars == <<kind, pc, row, gate, ended, play, file, tailing>>

Active == {"running", "awaiting_approval"}
Finals == {"ok", "failed", "unreachable", "cancelled", "interrupted"}
Places == {"start", "gate", "announced", "leaving", "decided", "exec", "streaming",
           "joining", "reporting", "done", "lost"}
Decision == [by : Users, ok : BOOLEAN]

Init ==
    /\ kind \in Kinds
    /\ pc = "start" /\ row = "running"
    /\ registered = FALSE /\ box = {} /\ asked = {} /\ approver = {}
    /\ ended = FALSE
    /\ play = "none" /\ lines = 0 /\ half = FALSE
    /\ tail = "off" /\ pos = 0 /\ torn = FALSE /\ events = <<>>

Alive == pc \notin {"done", "lost"}

-----------------------------------------------------------------------------
(* gate.                                                                   *)

NeedsApproval == kind = "gated"

\* launch: the hub does not take the run, and its row is failed at once.
LaunchFails ==
    /\ pc = "start" /\ kind # "scheduled"
    /\ pc' = "done" /\ row' = "failed"
    /\ UNCHANGED <<kind, gate, ended, play, file, tailing>>

SkipGate ==
    /\ pc = "start" /\ ~NeedsApproval
    /\ pc' = "exec"
    /\ UNCHANGED <<kind, row, gate, ended, play, file, tailing>>

\* setRunStatus, then registerApproval before anybody can learn of the run.
RegisteredLate == FALSE            \* mutant: registered only after it is announced
RegisteredNow == TRUE

Park ==
    /\ pc = "start" /\ NeedsApproval
    /\ pc' = "gate" /\ row' = "awaiting_approval"
    /\ registered' = RegisteredNow
    /\ UNCHANGED <<kind, box, asked, approver, ended, play, file, tailing>>

\* "approval-required" is emitted; then awaitRunApproval.
Announce ==
    /\ pc = "gate"
    /\ pc' = "announced"
    /\ UNCHANGED <<kind, row, gate, ended, play, file, tailing>>

\* awaitRunApproval's select: a decision arrives,
Receive ==
    /\ pc = "announced"
    /\ \E d \in box :
          /\ box' = {}
          /\ approver' = IF d.ok THEN {d.by} ELSE {}
    /\ pc' = "leaving"
    /\ UNCHANGED <<kind, row, registered, asked, ended, play, file, tailing>>

\* or the timer fires, or the context ends.
StopWaiting ==
    /\ pc = "announced"
    /\ pc' = "leaving"
    /\ UNCHANGED <<kind, row, gate, ended, play, file, tailing>>

\* The deferred delete from e.approves.
Deregister ==
    /\ pc = "leaving"
    /\ pc' = "decided" /\ registered' = FALSE
    /\ UNCHANGED <<kind, row, box, asked, approver, ended, play, file, tailing>>

FailOpen == TRUE                   \* mutant: silence lets the run through
Approved == approver # {}

\* setRunStatus "running", or FinishRun "cancelled" and run-end.
Decide ==
    /\ pc = "decided"
    /\ IF Approved THEN pc' = "exec" /\ row' = "running"
                   ELSE pc' = "done" /\ row' = "cancelled"
    /\ UNCHANGED <<kind, gate, ended, play, file, tailing>>

\* ResumeRun in its two halves: the channel is found under apprMu and sent to later.
ResumeLookup(u) ==
    /\ registered /\ u # Owner
    /\ asked' = asked \cup {u}
    /\ UNCHANGED <<kind, pc, row, registered, box, approver, ended, play, file, tailing>>

AnyNumber(d) == box \cup {d}       \* mutant: the channel takes every decision
Delivered(d) == IF box = {} THEN {d} ELSE box

ResumeSend(u, ok) ==
    /\ u \in asked
    /\ asked' = asked \ {u}
    /\ box' = Delivered([by |-> u, ok |-> ok])
    /\ UNCHANGED <<kind, pc, row, registered, approver, ended, play, file, tailing>>

-----------------------------------------------------------------------------
(* execRun: the process, the tail and their join.                          *)

\* No temporary file for the events: FinishRun "failed" and run-end.
ExecFails ==
    /\ pc = "exec"
    /\ pc' = "done" /\ row' = "failed"
    /\ UNCHANGED <<kind, gate, ended, play, file, tailing>>

\* The tail starts, then the process (which a context that is done ends at once).
Exec ==
    /\ pc = "exec"
    /\ pc' = "streaming" /\ tail' = "polling"
    /\ play' = IF ended THEN "killed" ELSE "up"
    /\ UNCHANGED <<kind, row, gate, ended, file, pos, torn, events>>

\* The callback writes a line, at once or in two parts.
WriteLine ==
    /\ play = "up" /\ lines < MaxLines
    /\ \/ half' = FALSE /\ lines' = lines + 1
       \/ ~half /\ half' = TRUE /\ lines' = lines
    /\ UNCHANGED <<kind, pc, row, gate, ended, play, tailing>>

\* The playbook ends: every host ok, or not.  A line is never left half-written.
PlayEnds ==
    /\ play = "up" /\ ~half
    /\ play' \in {"ok", "bad"}
    /\ UNCHANGED <<kind, pc, row, gate, ended, file, tailing>>

\* The context is done: the process is killed.
PlayKilled ==
    /\ play = "up" /\ ended /\ pc = "streaming"
    /\ play' = "killed"
    /\ UNCHANGED <<kind, pc, row, gate, ended, file, tailing>>

\* runner.Stream returns when the process is gone; execRun then waits for the tail.
StreamEnds ==
    /\ pc = "streaming" /\ play # "up"
    /\ pc' = "joining"
    /\ UNCHANGED <<kind, row, gate, ended, play, file, tailing>>

OffsetFromStart == 1               \* mutant: every poll reads the file from the start
FirstNew == IF torn THEN pos + 2 ELSE pos + 1

WholeFile == [n \in 1..lines |-> n]

\* drain: everything beyond the offset is consumed, the first part of a line
\* included.  Neither that part nor, in a later poll, the rest of the line parses.
Drain ==
    /\ events' = events \o SubSeq(WholeFile, FirstNew, lines)
    /\ pos' = lines /\ torn' = half

\* A poll.
TailPoll ==
    /\ tail = "polling"
    /\ Drain
    /\ UNCHANGED <<kind, pc, row, gate, ended, play, file, tail>>

\* The context is done: the last drain, and the tail returns.
TailDeaf == FALSE                  \* mutant: the loop does not look at the context
TailMayStop == ended

TailStop ==
    /\ tail = "polling" /\ TailMayStop
    /\ Drain
    /\ tail' = "done"
    /\ UNCHANGED <<kind, pc, row, gate, ended, play, file>>

RowAtEnd == IF ended THEN {"cancelled"}
            ELSE IF play = "ok" THEN {"ok"} ELSE {"failed", "unreachable"}

\* The tail has returned: FinishRun with the status and the events.
Finish ==
    /\ pc = "joining" /\ tail = "done"
    /\ row' \in RowAtEnd
    /\ pc' = "reporting"
    /\ UNCHANGED <<kind, gate, ended, play, file, tailing>>

\* run-end, then hub.Finish and the deferred cancel of the context.
Report ==
    /\ pc = "reporting"
    /\ pc' = "done" /\ ended' = TRUE
    /\ UNCHANGED <<kind, row, gate, play, file, tailing>>

-----------------------------------------------------------------------------
(* The end of the context, of the process, and boot recovery.              *)

\* An operator, or the shutdown, cancels the run through the hub; a scheduled run
\* is not in the hub.
Cancel ==
    /\ Alive /\ ~ended /\ kind # "scheduled"
    /\ ended' = TRUE
    /\ UNCHANGED <<kind, pc, row, gate, play, file, tailing>>

\* A scheduled run has a deadline of six hours.
Deadline ==
    /\ Alive /\ ~ended /\ kind = "scheduled"
    /\ ended' = TRUE
    /\ UNCHANGED <<kind, pc, row, gate, play, file, tailing>>

\* The backend dies; the row stays, and the playbook may outlive it.
Crash ==
    /\ Alive
    /\ pc' = "lost" /\ tail' = "off" /\ registered' = FALSE /\ asked' = {} /\ box' = {}
    /\ play' \in {play} \cup IF play = "up" THEN {"killed"} ELSE {}
    /\ UNCHANGED <<kind, row, approver, ended, file, pos, torn, events>>

RunningOnly == row = "running"     \* mutant: a parked run is overlooked
LeftBehind == row \in Active

\* MarkRunningInterrupted, by the next process.
Recover ==
    /\ pc = "lost"
    /\ pc' = "done"
    /\ row' = IF LeftBehind THEN "interrupted" ELSE row
    /\ UNCHANGED <<kind, gate, ended, play, file, tailing>>

Goroutine ==
    \/ LaunchFails \/ SkipGate \/ Park \/ Announce \/ Receive \/ StopWaiting \/ Deregister \/ Decide
    \/ ExecFails \/ Exec \/ StreamEnds \/ Finish \/ Report

Next ==
    \/ Goroutine \/ TailPoll \/ TailStop
    \/ WriteLine \/ PlayEnds \/ PlayKilled
    \/ \E u \in Users : ResumeLookup(u) \/ \E ok \in BOOLEAN : ResumeSend(u, ok)
    \/ Cancel \/ Deadline \/ Crash \/ Recover

Spec == Init /\ [][Next]_vars

\* Goroutines are scheduled and the approval timer fires, a killed process goes
\* away, the deadline of a scheduled run passes, and the playbook itself ends.
FairSpec ==
    /\ Spec
    /\ WF_vars(Goroutine) /\ WF_vars(TailStop)
    /\ WF_vars(WriteLine) /\ SF_vars(PlayEnds) /\ WF_vars(PlayKilled)
    /\ WF_vars(Deadline)

-----------------------------------------------------------------------------
(* Correctness.                                                            *)

TypeOK ==
    /\ kind \in Kinds /\ pc \in Places /\ row \in Active \cup Finals
    /\ registered \in BOOLEAN /\ box \subseteq Decision /\ Cardinality(box) <= 1
    /\ asked \subseteq Users /\ approver \subseteq Users
    /\ ended \in BOOLEAN
    /\ play \in {"none", "up", "ok", "bad", "killed"}
    /\ lines \in 0..MaxLines /\ half \in BOOLEAN
    /\ tail \in {"off", "polling", "done"}
    /\ pos \in 0..MaxLines /\ torn \in BOOLEAN /\ events \in Seq(1..MaxLines)

\* The playbook of a run that needs approval never starts before an operator other
\* than its owner approved it, whatever timeouts, cancels and late decisions do.
GateHolds ==
    NeedsApproval /\ (play # "none" \/ pc \in {"exec", "streaming", "joining"})
        => approver # {} /\ Owner \notin approver

\* "So an approval that races the notification isn't dropped": an operator who has
\* seen approval-required finds the run as long as it waits (registerApproval).
EarlyApprovalFound == pc \in {"announced", "leaving"} => registered

\* However polls, writes and the final drain fall, no event is passed on twice or
\* out of order: a torn line costs an event but never shifts the offset (tailEvents).
EventsOnce == \A i, j \in 1..Len(events) : i < j => events[i] < events[j]

\* A row left active has a goroutine or a coming boot recovery behind it.
NoZombieRow == pc = "done" => row \in Finals

\* Cancellation is airtight: a cancelled run ends, and so do its process and its
\* tail.
CancelEnds == ended ~> (pc \in {"done", "lost"} /\ play # "up" /\ tail # "polling")

\* A run whose playbook has ended ends: see the run ansible_never_ends.
PlayedRunEnds == play \in {"ok", "bad"} ~> ~Alive
=============================================================================
