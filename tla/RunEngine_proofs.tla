-------------------------- MODULE RunEngine_proofs --------------------------
(***************************************************************************)
(* Proofs about the runbook engine, for any set of runs and operators, any *)
(* scripts and limits and any number of settings writes and restarts: the  *)
(* types of its variables, the approval gate, the rows of the table, the   *)
(* concurrency slots, and the refinement of the life of a run.             *)
(***************************************************************************)
EXTENDS RunEngine, FiniteSetTheorems, SequenceTheorems, TLAPS

\* A run's record after an update is a record again.
LEMMA OneRun ==
  ASSUME run \in [Runs -> RunType], NEW r \in Runs, NEW x \in RunType,
         run' = [run EXCEPT ![r] = x]
  PROVE  run' \in [Runs -> RunType]
OBVIOUS

\* The capacity of a semaphore is a number, whatever the setting says.
LEMMA CapacityType == \A n \in Limits : Capacity(n) \in Nat
BY LimitsAssumption DEF Capacity

\* What a step leaves behind is a final status of the row.
LEMMA OverallType == \A r \in Runs : Overall(r) \in {"ok", "partial", "failed"}
BY DEF Overall

\* Type correctness of the steps of a run's goroutine, one step per action.
LEMMA RunStepType ==
  ASSUME TypeOK, NEW r \in Runs, RunStep(r)
  PROVE  run' \in [Runs -> RunType] /\ UNCHANGED world
<1> USE DEF TypeOK
<1>0. run[r] \in RunType
  OBVIOUS
<1>1. Empty \in Decisions
  BY DEF Empty, Decisions
<1>2. /\ {"idle", "prepared", "started", "queued", "slotted", "announced", "gate", "leaving"}
           \subseteq RunStates
      /\ {"decided", "steps", "instep", "reporting", "returning", "finishing", "done", "lost"}
           \subseteq RunStates
      /\ "running" \in Active /\ {"ok", "partial", "failed"} \subseteq Finals
  BY DEF RunStates, Active, Finals
<1>3. ASSUME NEW to \in RunStates, NEW from, Move(r, from, to)
      PROVE  run' \in [Runs -> RunType] /\ UNCHANGED world
  <2> DEFINE x == [run[r] EXCEPT !.pc = to]
  <2>1. x \in RunType
    BY <1>0 DEF RunType
  <2>2. run' = [run EXCEPT ![r] = x]
    BY <1>0, <1>3 DEF Move
  <2> QED
    BY <1>3, <2>1, <2>2, OneRun DEF Move
<1>4. \A s \in {"ok", "failed", "skipped"} : Append(run[r].results, s) \in Seq(Results)
  BY <1>0 DEF RunType, Results
<1>5. CASE HubStart(r)
  <2> DEFINE x == [run[r] EXCEPT !.pc = "started", !.listed = TRUE]
  <2>1. x \in RunType
    BY <1>0, <1>2 DEF RunType
  <2>2. run' = [run EXCEPT ![r] = x]
    BY <1>0, <1>5 DEF HubStart
  <2> QED
    BY <1>5, <2>1, <2>2, OneRun DEF HubStart
<1>6. CASE HubStartFails(r)
  <2> DEFINE x == [run[r] EXCEPT !.pc = "done", !.row = "failed"]
  <2>1. x \in RunType
    BY <1>0, <1>2 DEF RunType
  <2>2. run' = [run EXCEPT ![r] = x]
    BY <1>0, <1>6 DEF HubStartFails
  <2> QED
    BY <1>6, <2>1, <2>2, OneRun DEF HubStartFails
<1>7. CASE FireRun(r) \/ SkipGate(r) \/ Announce(r) \/ Register(r) \/ GateTimeout(r)
           \/ GateCancelled(r) \/ Deregister(r)
  BY <1>2, <1>3, <1>7 DEF FireRun, SkipGate, Announce, Register, GateTimeout, GateCancelled,
     Deregister
<1>8. CASE GetSem(r)
  <2> DEFINE x == [run[r] EXCEPT !.pc = IF caps[Len(caps)] = 0 THEN "slotted" ELSE "queued",
                               !.sem = Len(caps)]
  <2>0. Len(caps) \in Nat
    BY <1>0
  <2>1. x \in RunType
    BY <1>0, <1>2, <2>0 DEF RunType
  <2>2. run' = [run EXCEPT ![r] = x]
    BY <1>0, <1>8 DEF GetSem
  <2> QED
    BY <1>8, <2>1, <2>2, OneRun DEF GetSem
<1>9. CASE Acquire(r)
  <2> DEFINE x == [run[r] EXCEPT !.pc = "slotted", !.held = TRUE]
  <2>1. x \in RunType
    BY <1>0, <1>2 DEF RunType
  <2>2. run' = [run EXCEPT ![r] = x]
    BY <1>0, <1>9 DEF Acquire
  <2> QED
    BY <1>9, <2>1, <2>2, OneRun DEF Acquire
<1>10. CASE GiveUp(r)
  <2> DEFINE x == [run[r] EXCEPT !.pc = "reporting", !.row = "failed", !.report = "cancelled"]
  <2>1. x \in RunType
    BY <1>0, <1>2 DEF RunType
  <2>2. run' = [run EXCEPT ![r] = x]
    BY <1>0, <1>10 DEF GiveUp
  <2> QED
    BY <1>10, <2>1, <2>2, OneRun DEF GiveUp
<1>11. CASE GateReceive(r)
  <2> DEFINE x == [run[r] EXCEPT !.pc = "leaving", !.box = Empty, !.answer = run[r].box]
  <2>1. x \in RunType
    BY <1>0, <1>1, <1>2 DEF RunType
  <2>2. run' = [run EXCEPT ![r] = x]
    BY <1>0, <1>11 DEF GateReceive
  <2> QED
    BY <1>11, <2>1, <2>2, OneRun DEF GateReceive
<1>12. CASE Grant(r)
  <2> DEFINE x == [run[r] EXCEPT !.pc = "steps", !.row = "running", !.approvedBy = run[r].answer.by]
  <2>0. run[r].answer.by \in Users \cup {NoUser}
    BY <1>0 DEF RunType, Decisions
  <2>1. x \in RunType
    BY <1>0, <1>2, <2>0 DEF RunType
  <2>2. run' = [run EXCEPT ![r] = x]
    BY <1>0, <1>12 DEF Grant
  <2> QED
    BY <1>12, <2>1, <2>2, OneRun DEF Grant
<1>13. CASE Refuse(r)
  <2> DEFINE x == [run[r] EXCEPT !.pc = "reporting", !.row = "failed", !.report = "cancelled"]
  <2>1. x \in RunType
    BY <1>0, <1>2 DEF RunType
  <2>2. run' = [run EXCEPT ![r] = x]
    BY <1>0, <1>13 DEF Refuse
  <2> QED
    BY <1>13, <2>1, <2>2, OneRun DEF Refuse
<1>14. CASE SkipStep(r)
  <2> DEFINE x == [run[r] EXCEPT !.results = Append(run[r].results, "skipped")]
  <2>1. x \in RunType
    BY <1>0, <1>4 DEF RunType
  <2>2. run' = [run EXCEPT ![r] = x]
    BY <1>0, <1>14 DEF SkipStep
  <2> QED
    BY <1>14, <2>1, <2>2, OneRun DEF SkipStep
<1>15. CASE StartStep(r)
  <2>1. CASE run[r].cancelled
    <3> DEFINE x == [run[r] EXCEPT !.results = Append(run[r].results, "failed")]
    <3>1. x \in RunType
      BY <1>0, <1>4 DEF RunType
    <3>2. run' = [run EXCEPT ![r] = x]
      BY <1>15, <2>1 DEF StartStep
    <3> QED
      BY <1>15, <3>1, <3>2, OneRun DEF StartStep
  <2>2. CASE ~run[r].cancelled
    <3> DEFINE x == [run[r] EXCEPT !.pc = "instep"]
    <3>1. x \in RunType
      BY <1>0, <1>2 DEF RunType
    <3>2. run' = [run EXCEPT ![r] = x]
      BY <1>15, <2>2 DEF StartStep
    <3> QED
      BY <1>15, <3>1, <3>2, OneRun DEF StartStep
  <2> QED
    BY <2>1, <2>2
<1>16. CASE EndStep(r)
  <2> DEFINE x(s) == [run[r] EXCEPT !.pc = "steps", !.results = Append(run[r].results, s)]
  <2>1. PICK s \in {"ok", "failed"} : run' = [run EXCEPT ![r] = x(s)]
    BY <1>16 DEF EndStep
  <2>2. x(s) \in RunType
    BY <1>0, <1>2, <1>4 DEF RunType
  <2> QED
    BY <1>16, <2>1, <2>2, OneRun DEF EndStep
<1>17. CASE FinishRow(r)
  <2> DEFINE x == [run[r] EXCEPT !.pc = "reporting", !.row = Overall(r), !.report = Overall(r)]
  <2>0. Overall(r) \in Finals
    BY <1>2, OverallType
  <2>1. x \in RunType
    BY <1>0, <1>2, <2>0 DEF RunType
  <2>2. run' = [run EXCEPT ![r] = x]
    BY <1>0, <1>17 DEF FinishRow, RowAtEnd
  <2> QED
    BY <1>17, <2>1, <2>2, OneRun DEF FinishRow
<1>18. CASE EmitEnd(r)
  <2> DEFINE x == [run[r] EXCEPT !.pc = "returning", !.told = TRUE]
  <2>1. x \in RunType
    BY <1>0, <1>2 DEF RunType
  <2>2. run' = [run EXCEPT ![r] = x]
    BY <1>0, <1>18 DEF EmitEnd
  <2> QED
    BY <1>18, <2>1, <2>2, OneRun DEF EmitEnd
<1>19. CASE Return(r)
  <2> DEFINE x == [run[r] EXCEPT !.pc = "finishing", !.held = FALSE]
  <2>1. x \in RunType
    BY <1>0, <1>2 DEF RunType
  <2>2. run' = [run EXCEPT ![r] = x]
    BY <1>0, <1>19 DEF Return, HeldAfter
  <2> QED
    BY <1>19, <2>1, <2>2, OneRun DEF Return
<1>20. CASE HubFinish(r)
  <2> DEFINE x == [run[r] EXCEPT !.pc = "done", !.listed = FALSE]
  <2>1. x \in RunType
    BY <1>0, <1>2 DEF RunType
  <2>2. run' = [run EXCEPT ![r] = x]
    BY <1>0, <1>20 DEF HubFinish
  <2> QED
    BY <1>20, <2>1, <2>2, OneRun DEF HubFinish
<1> QED
  BY <1>5, <1>6, <1>7, <1>8, <1>9, <1>10, <1>11, <1>12, <1>13,
     <1>14, <1>15, <1>16, <1>17, <1>18, <1>19, <1>20 DEF RunStep

\* Every step keeps the types: a run's step, or one of those around the runs.
LEMMA TypeStep == TypeOK /\ [Next]_vars => TypeOK'
<1> SUFFICES ASSUME TypeOK, [Next]_vars PROVE TypeOK'
  OBVIOUS
<1> USE DEF TypeOK
<1>0. /\ \A r \in Runs : run[r] \in RunType
      /\ MaxWrites \in Nat /\ MaxBoots \in Nat
      /\ Empty \in Decisions
  BY LimitsAssumption DEF Empty, Decisions
<1>1. ASSUME NEW r \in Runs, Prepare(r) PROVE TypeOK'
  <2> DEFINE x == [run[r] EXCEPT !.pc = "prepared",
                     !.row = IF r \in NeedsApproval THEN "awaiting_approval" ELSE "running"]
  <2>0. (IF r \in NeedsApproval THEN "awaiting_approval" ELSE "running") \in Active
    BY DEF Active
  <2>3. "prepared" \in RunStates
    BY DEF RunStates
  <2>1. x \in RunType
    BY <1>0, <2>0, <2>3 DEF RunType
  <2>2. run' = [run EXCEPT ![r] = x]
    BY <1>1 DEF Prepare
  <2> QED
    BY <1>1, <2>1, <2>2, OneRun DEF Prepare, world
<1>2. ASSUME NEW r \in Runs, RunStep(r) PROVE TypeOK'
  BY <1>2, RunStepType DEF world
<1>3. ASSUME NEW r \in Runs, Cancel(r) PROVE TypeOK'
  <2> DEFINE x == [run[r] EXCEPT !.cancelled = TRUE]
  <2>1. x \in RunType
    BY <1>0 DEF RunType
  <2>2. run' = [run EXCEPT ![r] = x]
    BY <1>3 DEF Cancel
  <2> QED
    BY <1>3, <2>1, <2>2, OneRun DEF Cancel, world
<1>4. ASSUME NEW u \in Users, NEW r \in Runs, ResumeLookup(u, r) PROVE TypeOK'
  BY <1>4 DEF ResumeLookup
<1>5. ASSUME NEW u \in Users, NEW r \in Runs, NEW ok \in BOOLEAN, ResumeSend(u, r, ok)
      PROVE  TypeOK'
  <2> DEFINE x == [run[r] EXCEPT !.box = [by |-> u, ok |-> ok]]
  <2>0. [by |-> u, ok |-> ok] \in Decisions
    BY DEF Decisions
  <2>1. x \in RunType
    BY <1>0, <2>0 DEF RunType
  <2>2. run' = run \/ run' = [run EXCEPT ![r] = x]
    BY <1>5 DEF ResumeSend
  <2>3. run' \in [Runs -> RunType]
    BY <2>1, <2>2, OneRun
  <2> QED
    BY <1>5, <2>3 DEF ResumeSend
<1>6. ASSUME NEW n \in Limits, SaveSettings(n) PROVE TypeOK'
  <2>1. Capacity(n) \in Nat
    BY CapacityType
  <2>2. caps' \in Seq(Nat) /\ Len(caps') = Len(caps) + 1
    BY <1>6, <2>1 DEF SaveSettings
  <2>3. Len(caps') \in 1..(MaxWrites + 1)
    BY <1>0, <1>6, <2>2 DEF SaveSettings
  <2> QED
    BY <1>6, <2>2, <2>3 DEF SaveSettings
<1>7. ASSUME NEW n \in Limits, Boot(n) PROVE TypeOK'
  <2>1. \A r \in Runs : [run[r] EXCEPT !.sem = 0] \in RunType
    BY <1>0 DEF RunType
  <2>2. run' \in [Runs -> RunType]
    BY <1>7, <2>1 DEF Boot
  <2>3. caps' \in Seq(Nat) /\ Len(caps') = 1
    BY <1>7, CapacityType DEF Boot
  <2>4. boots' \in 0..MaxBoots
    BY <1>0, <1>7 DEF Boot
  <2> QED
    BY <1>0, <1>7, <2>2, <2>3, <2>4 DEF Boot
<1>8. CASE Shutdown
  <2>1. \A r \in Runs, c \in BOOLEAN : [run[r] EXCEPT !.cancelled = c] \in RunType
    BY <1>0 DEF RunType
  <2>2. \A r \in Runs :
           [run[r] EXCEPT !.cancelled = @ \/ run[r].listed \/ (r \in Scheduled /\ Live(r))] \in RunType
    BY <1>0, <2>1 DEF RunType
  <2>3. run' \in [Runs -> RunType]
    BY <1>8, <2>2 DEF Shutdown
  <2> QED
    BY <1>8, <2>3 DEF Shutdown
<1>9. CASE Exit
  <2>0. "lost" \in RunStates
    BY DEF RunStates
  <2>1. \A r \in Runs :
           [run[r] EXCEPT !.pc = "lost", !.listed = FALSE, !.held = FALSE,
                          !.box = Empty, !.cancelled = FALSE] \in RunType
    BY <1>0, <2>0 DEF RunType
  <2>2. \A r \in Runs : [run[r] EXCEPT !.cancelled = FALSE, !.box = Empty] \in RunType
    BY <1>0 DEF RunType
  <2>3. run' \in [Runs -> RunType]
    BY <1>9, <2>1, <2>2 DEF Exit
  <2> QED
    BY <1>9, <2>3 DEF Exit
<1>10. CASE Recover
  <2>0. "interrupted" \in Finals
    BY DEF Finals
  <2>1. \A r \in Runs : [run[r] EXCEPT !.row = "interrupted"] \in RunType
    BY <1>0, <2>0 DEF RunType
  <2>2. run' \in [Runs -> RunType]
    BY <1>0, <1>10, <2>1 DEF Recover
  <2> QED
    BY <1>10, <2>2 DEF Recover
<1>11. CASE UNCHANGED vars
  BY <1>11 DEF vars
<1> QED
  BY <1>1, <1>2, <1>3, <1>4, <1>5, <1>6, <1>7, <1>8, <1>9, <1>10, <1>11 DEF Next, Operator

\* The initial state has the types.
LEMMA TypeInit == Init => TypeOK
<1> SUFFICES ASSUME Init PROVE TypeOK
  OBVIOUS
<1>1. NewRun \in RunType
  BY EmptySeq DEF NewRun, RunType, RunStates, Empty, Decisions
<1>2. run \in [Runs -> RunType]
  BY <1>1 DEF Init
<1>3. caps \in Seq(Nat) /\ Len(caps) = 1
  BY CapacityType DEF Init
<1>4. boots \in 0..MaxBoots /\ 1 \in 1..(MaxWrites + 1)
  BY LimitsAssumption DEF Init
<1> QED
  BY <1>2, <1>3, <1>4 DEF Init, TypeOK

\* Every variable of the engine keeps its type.
THEOREM TypeCorrect == Spec => []TypeOK
BY TypeInit, TypeStep, PTL DEF Spec

-----------------------------------------------------------------------------
(* The approval gate, run by run.                                          *)

Passed == {"steps", "instep"}
Waiting == {"idle", "prepared", "started", "queued", "slotted", "announced", "gate",
            "leaving", "decided"}

\* A decision that came from an operator who may decide on r, or no decision.
Proper(r, d) == d = Empty \/ d.by \in Users \ {Requester[r]}

\* Of a run that needs approval: only proper decisions are in its channel or were
\* received, and it has executed no step before one of them let it.
GateInv(r) ==
    /\ Proper(r, run[r].box) /\ Proper(r, run[r].answer)
    /\ run[r].pc \in Waiting => run[r].results = <<>>
    /\ run[r].pc \in Passed \/ run[r].results # <<>> =>
          run[r].approvedBy \in Users \ {Requester[r]} /\ run[r].answer.ok

AskedInv == \A u \in Users : \A r \in asked[u] : u # Requester[r]

AllGates == AskedInv /\ \A r \in NeedsApproval : GateInv(r)

\* A step that leaves what the gate of r looks at, its position apart.
Frame(r) ==
    /\ run'[r].box \in {run[r].box, Empty} /\ run'[r].answer = run[r].answer
    /\ run'[r].results = run[r].results /\ run'[r].approvedBy = run[r].approvedBy

\* A step of another run leaves the gate of s alone.
LEMMA GateSame ==
  ASSUME NEW s \in Runs, GateInv(s), run'[s] = run[s]
  PROVE  GateInv(s)'
BY DEF GateInv, Proper

\* A goroutine changes its own run only.
LEMMA OwnRunOnly ==
  ASSUME TypeOK, NEW r \in Runs, Prepare(r) \/ RunStep(r) \/ Cancel(r)
  PROVE  UNCHANGED world /\ \A s \in Runs \ {r} : run'[s] = run[s]
<1> USE DEF TypeOK
<1>1. CASE Prepare(r) \/ Cancel(r)
  BY <1>1 DEF Prepare, Cancel
<1>2. CASE HubStart(r) \/ HubStartFails(r) \/ GetSem(r) \/ Acquire(r) \/ GiveUp(r)
  BY <1>2 DEF HubStart, HubStartFails, GetSem, Acquire, GiveUp
<1>3. CASE FireRun(r) \/ SkipGate(r) \/ Announce(r) \/ Register(r) \/ GateTimeout(r)
           \/ GateCancelled(r) \/ Deregister(r)
  BY <1>3 DEF FireRun, SkipGate, Announce, Register, GateTimeout, GateCancelled, Deregister,
     Move
<1>4. CASE GateReceive(r) \/ Grant(r) \/ Refuse(r)
  BY <1>4 DEF GateReceive, Grant, Refuse
<1>5. CASE SkipStep(r) \/ StartStep(r) \/ EndStep(r)
  BY <1>5 DEF SkipStep, StartStep, EndStep
<1>6. CASE FinishRow(r) \/ EmitEnd(r) \/ Return(r) \/ HubFinish(r)
  BY <1>6 DEF FinishRow, EmitEnd, Return, HubFinish
<1> QED
  BY <1>1, <1>2, <1>3, <1>4, <1>5, <1>6 DEF RunStep
\* A goroutine reaches its steps through a decision that grants, and only then.
LEMMA GateOwn ==
  ASSUME TypeOK, NEW r \in NeedsApproval, GateInv(r), Prepare(r) \/ RunStep(r) \/ Cancel(r)
  PROVE  GateInv(r)'
<1> USE DEF TypeOK
<1>0. r \in Runs /\ r \in Gated
  BY RunsAssumption DEF NeedsApproval
<1>1. /\ run[r] \in RunType
      /\ run[r].results \in Seq(Results)
      /\ Proper(r, run[r].box) /\ Proper(r, run[r].answer)
      /\ run[r].pc \in Waiting => run[r].results = <<>>
      /\ run[r].pc \in Passed \/ run[r].results # <<>> =>
            run[r].approvedBy \in Users \ {Requester[r]} /\ run[r].answer.ok
  BY <1>0 DEF GateInv, RunType
\* The gate keeps when the step changes nothing it looks at.
<1>2. ASSUME Frame(r), \/ run'[r].pc = run[r].pc
                       \/ run[r].pc \in Waiting /\ run'[r].pc \notin Passed
                       \/ run'[r].pc \notin Waiting \cup Passed
      PROVE  GateInv(r)'
  BY <1>1, <1>2 DEF GateInv, Proper, Frame
\* In the step loop the approval is there already.
<1>3. ASSUME run[r].pc \in Passed, run'[r].pc \in Passed,
             run'[r].box = run[r].box, run'[r].answer = run[r].answer,
             run'[r].approvedBy = run[r].approvedBy
      PROVE  GateInv(r)'
  BY <1>1, <1>3 DEF GateInv, Proper, Passed, Waiting
<1>4. CASE Prepare(r) \/ Cancel(r)
  <2>1. CASE Prepare(r)
    <3>1. Frame(r) /\ run[r].pc = "idle" /\ run'[r].pc = "prepared"
      BY <1>0, <2>1 DEF Prepare, Frame
    <3> QED
      BY <1>2, <3>1 DEF Waiting, Passed
  <2>2. CASE Cancel(r)
    <3>1. Frame(r) /\ run'[r].pc = run[r].pc
      BY <1>0, <2>2 DEF Cancel, Frame
    <3> QED
      BY <1>2, <3>1
  <2> QED
    BY <1>4, <2>1, <2>2
<1>5. CASE HubStart(r) \/ HubStartFails(r) \/ GetSem(r) \/ Acquire(r) \/ GiveUp(r)
  <2>1. CASE HubStart(r)
    <3>1. Frame(r) /\ run[r].pc = "prepared" /\ run'[r].pc = "started"
      BY <1>0, <2>1 DEF HubStart, Frame
    <3> QED
      BY <1>2, <3>1 DEF Waiting, Passed
  <2>2. CASE HubStartFails(r)
    <3>1. Frame(r) /\ run'[r].pc = "done"
      BY <1>0, <2>2 DEF HubStartFails, Frame
    <3> QED
      BY <1>2, <3>1 DEF Waiting, Passed
  <2>3. CASE GetSem(r)
    <3>1. Frame(r) /\ run[r].pc = "started" /\ run'[r].pc \in {"slotted", "queued"}
      BY <1>0, <2>3 DEF GetSem, Frame
    <3> QED
      BY <1>2, <3>1 DEF Waiting, Passed
  <2>4. CASE Acquire(r)
    <3>1. Frame(r) /\ run[r].pc = "queued" /\ run'[r].pc = "slotted"
      BY <1>0, <2>4 DEF Acquire, Frame
    <3> QED
      BY <1>2, <3>1 DEF Waiting, Passed
  <2>5. CASE GiveUp(r)
    <3>1. Frame(r) /\ run'[r].pc = "reporting"
      BY <1>0, <2>5 DEF GiveUp, Frame
    <3> QED
      BY <1>2, <3>1 DEF Waiting, Passed
  <2> QED
    BY <1>5, <2>1, <2>2, <2>3, <2>4, <2>5
<1>6. CASE FireRun(r) \/ SkipGate(r) \/ Announce(r) \/ Register(r) \/ GateTimeout(r)
           \/ GateCancelled(r) \/ Deregister(r)
  <2>1. ASSUME NEW from \in Waiting, NEW to \in Waiting, Move(r, from, to)
        PROVE  GateInv(r)'
    <3>1. Frame(r) /\ run[r].pc = from /\ run'[r].pc = to
      BY <1>0, <2>1 DEF Move, Frame
    <3> QED
      BY <1>2, <3>1 DEF Waiting, Passed
  <2>2. ~SkipGate(r)
    BY DEF SkipGate
  <2> QED
    BY <1>6, <2>1, <2>2 DEF FireRun, Announce, Register, GateTimeout, GateCancelled,
       Deregister, Waiting
<1>7. CASE GateReceive(r)
  <2>1. /\ run'[r].box = Empty /\ run'[r].answer = run[r].box
        /\ run'[r].results = <<>> /\ run'[r].pc = "leaving"
    BY <1>0, <1>1, <1>7 DEF GateReceive, Waiting
  <2> QED
    BY <1>1, <2>1 DEF GateInv, Proper, Waiting, Passed
<1>8. CASE Grant(r)
  <2>1. /\ run'[r].box = run[r].box /\ run'[r].answer = run[r].answer
        /\ run'[r].results = run[r].results /\ run'[r].pc = "steps"
        /\ run'[r].approvedBy = run[r].answer.by /\ run[r].answer.ok
    BY <1>0, <1>1, <1>8 DEF Grant, Granted
  <2>2. run[r].answer # Empty
    BY <2>1 DEF Empty
  <2>3. run[r].answer.by \in Users \ {Requester[r]}
    BY <1>1, <2>2 DEF Proper
  <2> QED
    BY <1>1, <2>1, <2>3 DEF GateInv, Proper, Waiting, Passed
<1>9. CASE Refuse(r) \/ FinishRow(r) \/ EmitEnd(r) \/ Return(r) \/ HubFinish(r)
  <2>1. CASE Refuse(r)
    <3>1. Frame(r) /\ run'[r].pc = "reporting"
      BY <1>0, <2>1 DEF Refuse, Frame
    <3> QED
      BY <1>2, <3>1 DEF Waiting, Passed
  <2>2. CASE FinishRow(r)
    <3>1. Frame(r) /\ run'[r].pc = "reporting"
      BY <1>0, <2>2 DEF FinishRow, Frame
    <3> QED
      BY <1>2, <3>1 DEF Waiting, Passed
  <2>3. CASE EmitEnd(r)
    <3>1. Frame(r) /\ run'[r].pc = "returning"
      BY <1>0, <2>3 DEF EmitEnd, Frame
    <3> QED
      BY <1>2, <3>1 DEF Waiting, Passed
  <2>4. CASE Return(r)
    <3>1. Frame(r) /\ run'[r].pc = "finishing"
      BY <1>0, <2>4 DEF Return, Frame
    <3> QED
      BY <1>2, <3>1 DEF Waiting, Passed
  <2>5. CASE HubFinish(r)
    <3>1. Frame(r) /\ run'[r].pc = "done"
      BY <1>0, <2>5 DEF HubFinish, Frame
    <3> QED
      BY <1>2, <3>1 DEF Waiting, Passed
  <2> QED
    BY <1>9, <2>1, <2>2, <2>3, <2>4, <2>5
<1>10. CASE SkipStep(r)
  BY <1>0, <1>3, <1>10 DEF SkipStep, Passed
<1>11. CASE StartStep(r)
  BY <1>0, <1>3, <1>11 DEF StartStep, Passed
<1>12. CASE EndStep(r)
  BY <1>0, <1>3, <1>12 DEF EndStep, Passed
<1> QED
  BY <1>4, <1>5, <1>6, <1>7, <1>8, <1>9, <1>10, <1>11, <1>12 DEF RunStep

\* Every step keeps the gates of all runs.
LEMMA GateStep == TypeOK /\ AllGates /\ [Next]_vars => AllGates'
<1> SUFFICES ASSUME TypeOK, AllGates, [Next]_vars PROVE AllGates'
  OBVIOUS
<1> USE DEF TypeOK
<1>0. /\ NeedsApproval \subseteq Runs
      /\ \A u \in Users : \A r \in asked[u] : u # Requester[r]
      /\ \A s \in NeedsApproval : GateInv(s)
      /\ \A r \in Runs : run[r] \in RunType
  BY RunsAssumption DEF AllGates, AskedInv, NeedsApproval
<1>1. ASSUME UNCHANGED asked, \A s \in NeedsApproval : GateInv(s)' PROVE AllGates'
  BY <1>0, <1>1 DEF AllGates, AskedInv, NeedsApproval
\* The gate keeps when only a row, a slot, the context or the registry changes.
<1>2. ASSUME NEW s \in NeedsApproval, Frame(s), run'[s].pc \in {run[s].pc, "lost"}
      PROVE  GateInv(s)'
  BY <1>0, <1>2 DEF GateInv, Proper, Waiting, Passed, Frame
<1>3. ASSUME NEW r \in Runs, Prepare(r) \/ RunStep(r) \/ Cancel(r) PROVE AllGates'
  <2>1. UNCHANGED asked /\ \A s \in Runs \ {r} : run'[s] = run[s]
    BY <1>3, OwnRunOnly DEF world
  <2>2. \A s \in NeedsApproval : s # r => GateInv(s)'
    BY <1>0, <2>1, GateSame
  <2>3. r \in NeedsApproval => GateInv(r)'
    BY <1>0, <1>3, GateOwn
  <2> QED
    BY <1>1, <2>1, <2>2, <2>3
<1>4. ASSUME NEW u \in Users, NEW r \in Runs, ResumeLookup(u, r) PROVE AllGates'
  <2>1. \A s \in NeedsApproval : GateInv(s)'
    BY <1>0, <1>4, GateSame DEF ResumeLookup
  <2>2. \A v \in Users : \A s \in asked'[v] : v # Requester[s]
    BY <1>0, <1>4 DEF ResumeLookup, MayDecide
  <2> QED
    BY <2>1, <2>2 DEF AllGates, AskedInv, NeedsApproval
<1>5. ASSUME NEW u \in Users, NEW r \in Runs, NEW ok \in BOOLEAN, ResumeSend(u, r, ok)
      PROVE  AllGates'
  <2>1. \A v \in Users : \A s \in asked'[v] : v # Requester[s]
    BY <1>0, <1>5 DEF ResumeSend
  <2>2. u # Requester[r]
    BY <1>0, <1>5 DEF ResumeSend
  <2>3. \A s \in NeedsApproval : s # r => GateInv(s)'
    BY <1>0, <1>5, GateSame DEF ResumeSend
  <2>4. ASSUME r \in NeedsApproval PROVE GateInv(r)'
    <3>1. CASE run' = run
      BY <1>0, <2>4, <3>1, GateSame
    <3>2. CASE run' = [run EXCEPT ![r].box = [by |-> u, ok |-> ok]]
      <4>1. /\ run'[r].box.by = u /\ run'[r].answer = run[r].answer
            /\ run'[r].results = run[r].results /\ run'[r].approvedBy = run[r].approvedBy
            /\ run'[r].pc = run[r].pc
        BY <1>0, <3>2 DEF RunType
      <4> QED
        BY <1>0, <2>2, <2>4, <4>1 DEF GateInv, Proper
    <3> QED
      BY <1>5, <3>1, <3>2 DEF ResumeSend
  <2> QED
    BY <2>1, <2>3, <2>4 DEF AllGates, AskedInv, NeedsApproval
<1>6. ASSUME NEW n \in Limits, SaveSettings(n) \/ Boot(n) PROVE AllGates'
  <2>1. CASE SaveSettings(n)
    BY <1>0, <1>1, <2>1, GateSame DEF SaveSettings
  <2>2. CASE Boot(n)
    <3>1. \A s \in NeedsApproval : Frame(s) /\ run'[s].pc = run[s].pc
      BY <1>0, <2>2 DEF Boot, Frame
    <3> QED
      BY <1>1, <1>2, <2>2, <3>1 DEF Boot
  <2> QED
    BY <1>6, <2>1, <2>2
<1>7. CASE Shutdown
  <2>1. \A s \in NeedsApproval : Frame(s) /\ run'[s].pc = run[s].pc
    BY <1>0, <1>7 DEF Shutdown, Frame
  <2> QED
    BY <1>1, <1>2, <1>7, <2>1 DEF Shutdown
<1>8. CASE Exit
  <2>0. \A s \in NeedsApproval : Frame(s) /\ run'[s].pc \in {run[s].pc, "lost"}
    <3> TAKE s \in NeedsApproval
    <3>0. run[s] \in RunType /\ s \in Runs
      BY <1>0
    <3>1. CASE Live(s)
      <4>1. run'[s] = [run[s] EXCEPT !.pc = "lost", !.listed = FALSE, !.held = FALSE,
                                     !.box = Empty, !.cancelled = FALSE]
        BY <1>8, <3>0, <3>1 DEF Exit
      <4> QED
        BY <3>0, <4>1 DEF Frame, RunType
    <3>2. CASE ~Live(s)
      <4>1. run'[s] = [run[s] EXCEPT !.cancelled = FALSE, !.box = Empty]
        BY <1>8, <3>0, <3>2 DEF Exit
      <4> QED
        BY <3>0, <4>1 DEF Frame, RunType
    <3> QED
      BY <3>1, <3>2
  <2>1. \A s \in NeedsApproval : GateInv(s)'
    BY <1>2, <2>0
  <2>2. \A u \in Users : asked'[u] = {}
    BY <1>8 DEF Exit
  <2> QED
    BY <2>1, <2>2 DEF AllGates, AskedInv, NeedsApproval
<1>9. CASE Recover
  <2>1. \A s \in NeedsApproval : Frame(s) /\ run'[s].pc = run[s].pc
    <3> TAKE s \in NeedsApproval
    <3>1. CASE LeftBehind(s)
      BY <1>0, <1>9, <3>1 DEF Recover, Frame
    <3>2. CASE ~LeftBehind(s)
      BY <1>0, <1>9, <3>2 DEF Recover, Frame
    <3> QED
      BY <3>1, <3>2
  <2> QED
    BY <1>1, <1>2, <1>9, <2>1 DEF Recover
<1>10. CASE UNCHANGED vars
  BY <1>0, <1>1, <1>10, GateSame DEF vars
<1> QED
  BY <1>3, <1>4, <1>5, <1>6, <1>7, <1>8, <1>9, <1>10 DEF Next, Operator

\* No step of a run that needs approval executes before another operator has
\* approved it (awaitRunApproval, ResumeRun).
THEOREM GateIsSafe == Spec => []GateHolds
<1>1. Init => AllGates
  BY RunsAssumption DEF Init, AllGates, AskedInv, GateInv, Proper, NewRun, Empty, Waiting,
     Passed, NeedsApproval
<1>2. TypeOK /\ AllGates => GateHolds
  BY DEF AllGates, GateInv, GateHolds, Passed
<1> QED
  BY <1>1, <1>2, TypeCorrect, GateStep, PTL DEF Spec

-----------------------------------------------------------------------------
(* The life of a run: where its goroutine is, what its row says and which  *)
(* slot it holds.                                                          *)

Behind == {"prepared", "started", "queued", "slotted"}
AtGate == {"announced", "gate", "leaving", "decided"}
Ending == {"reporting", "returning", "finishing"}
Holding == {"slotted", "reporting", "returning"} \cup AtGate \cup Passed
Outcomes == {"ok", "partial", "failed"}

Submitted(r) == IF r \in NeedsApproval THEN "awaiting_approval" ELSE "running"
Reported(r) == IF run[r].report = "cancelled" THEN "failed" ELSE run[r].report

\* The row says where the goroutine is, except of a run the scheduler started before the
\* recovery, which the recovery marks as interrupted.
RowFits(r) ==
    /\ run[r].pc = "idle" => run[r].row = "none"
    /\ run[r].pc \in Behind => run[r].row = Submitted(r) \/ (r \in RunOnStart /\ run[r].row = "interrupted")
    /\ run[r].pc \in AtGate => r \in NeedsApproval /\ run[r].row = "awaiting_approval"
    /\ run[r].pc \in Passed => run[r].row = "running" \/ (r \in RunOnStart /\ run[r].row = "interrupted")
    /\ run[r].pc \in Ending \cup {"done"} => run[r].row \in Outcomes
    /\ run[r].pc \in Ending \/ run[r].told => run[r].row = Reported(r) /\ run[r].row \in Outcomes
    /\ run[r].told => run[r].pc \in {"returning", "finishing", "done", "lost"}

\* Nothing runs without a process, and before the recovery only what the scheduler started at once.
ProcessFits(r) ==
    /\ Live(r) => proc # "down" /\ (proc = "booting" => r \in RunOnStart)
    /\ run[r].row \in Active => Live(r) \/ proc \in {"booting", "down"}

\* A slot is held between taking it and returning, and belongs to a semaphore there is.
SlotFits(r) ==
    /\ run[r].held => run[r].pc \in Holding
    /\ run[r].held \/ run[r].pc = "queued" => run[r].sem \in 1..Len(caps)

Life(r) == RowFits(r) /\ ProcessFits(r) /\ SlotFits(r)
AllLives == \A r \in Runs : Life(r)

\* What the invariant reads of a run beside its place; a step of another run or of an operator
\* leaves that and the place.
Steady(r) ==
    /\ run'[r].row = run[r].row /\ run'[r].report = run[r].report
    /\ run'[r].told = run[r].told /\ run'[r].held = run[r].held /\ run'[r].sem = run[r].sem
LifeSame(r) == Steady(r) /\ run'[r].pc = run[r].pc

LEMMA LifeKept ==
  ASSUME NEW r \in Runs, Life(r), LifeSame(r), UNCHANGED <<proc, caps>>
  PROVE  Life(r)'
BY DEF Life, RowFits, ProcessFits, SlotFits, LifeSame, Steady, Live, Reported, Submitted

\* A goroutine takes its row from one status to the next and its slot with it.
LEMMA LifeOwn ==
  ASSUME TypeOK, NEW r \in Runs, Life(r), Prepare(r) \/ RunStep(r) \/ Cancel(r)
  PROVE  Life(r)'
<1> USE DEF Behind, AtGate, Ending, Holding, Passed
<1>0. /\ run[r] \in RunType /\ UNCHANGED <<proc, caps>> /\ run \in [Runs -> RunType]
      /\ Len(caps) \in 1..(MaxWrites + 1)
  BY OwnRunOnly DEF TypeOK, world
<1>a. RowFits(r) /\ ProcessFits(r) /\ SlotFits(r)
  BY DEF Life
\* A step that neither writes the row nor reports.
<1>b. ASSUME Steady(r),
             \/ run'[r].pc = run[r].pc
             \/ run[r].pc \in Behind /\ run'[r].pc \in Behind \ {"prepared"} /\ run'[r].pc # "queued" /\ (run[r].held => run'[r].pc = "slotted")
             \/ run[r].pc = "slotted" /\ run'[r].pc = "announced" /\ r \in NeedsApproval
             \/ run[r].pc = "slotted" /\ run'[r].pc = "steps" /\ r \notin NeedsApproval
             \/ run[r].pc \in AtGate /\ run'[r].pc \in AtGate
             \/ run[r].pc \in Passed /\ run'[r].pc \in Passed
      PROVE  Life(r)'
  <2>1. r \in NeedsApproval => r \notin RunOnStart
    BY RunsAssumption DEF NeedsApproval
  <2>2. RowFits(r)'
    BY <1>a, <1>b, <2>1 DEF RowFits, Submitted, Reported, Steady
  <2>3. ProcessFits(r)'
    BY <1>0, <1>a, <1>b DEF ProcessFits, Live, Steady
  <2>4. SlotFits(r)'
    BY <1>0, <1>a, <1>b DEF SlotFits, Steady
  <2> QED
    BY <2>2, <2>3, <2>4 DEF Life
<1>1. CASE Prepare(r) \/ Cancel(r)
  <2>1. CASE Prepare(r)
    <3>1. /\ run[r].pc = "idle" /\ run'[r].pc = "prepared" /\ run'[r].row = Submitted(r)
          /\ run'[r].report = run[r].report /\ run'[r].told = run[r].told
          /\ run'[r].held = run[r].held /\ run'[r].sem = run[r].sem
      BY <1>0, <2>1 DEF Prepare, Submitted
    <3>2. proc \in {"up", "booting"} /\ (proc = "booting" => r \in RunOnStart)
      BY <2>1 DEF Prepare, MayStart
    <3>3. RowFits(r)' /\ ProcessFits(r)' /\ SlotFits(r)'
      BY <1>0, <1>a, <3>1, <3>2 DEF RowFits, ProcessFits, SlotFits, Live, Submitted, Reported
    <3> QED
      BY <3>3 DEF Life
  <2>2. CASE Cancel(r)
    BY <1>0, <1>b, <2>2 DEF Cancel, Steady
  <2> QED
    BY <1>1, <2>1, <2>2
\* A step that only moves the goroutine.
<1>c. ASSUME NEW from, NEW to, Move(r, from, to)
      PROVE  Steady(r) /\ run[r].pc = from /\ run'[r].pc = to
  BY <1>0, <1>c DEF Move, Steady, RunType
<1>2. CASE HubStart(r) \/ FireRun(r)
  <2>1. Steady(r) /\ run[r].pc = "prepared" /\ run'[r].pc = "started"
    <3>1. CASE HubStart(r)
      BY <1>0, <3>1 DEF HubStart, Steady
    <3>2. CASE FireRun(r)
      BY <1>c, <3>2 DEF FireRun
    <3> QED
      BY <1>2, <3>1, <3>2
  <2> QED
    BY <1>a, <1>b, <2>1 DEF SlotFits
<1>3. CASE HubStartFails(r)
  <2>1. /\ run[r].pc = "prepared" /\ run'[r].pc = "done" /\ run'[r].row = "failed"
        /\ run'[r].report = run[r].report /\ run'[r].told = run[r].told
        /\ run'[r].held = run[r].held /\ run'[r].sem = run[r].sem
    BY <1>0, <1>3 DEF HubStartFails
  <2>2. RowFits(r)' /\ ProcessFits(r)' /\ SlotFits(r)'
    BY <1>0, <1>a, <2>1 DEF RowFits, ProcessFits, SlotFits, Live, Submitted, Reported, Outcomes, Active
  <2> QED
    BY <2>2 DEF Life
<1>4. CASE GetSem(r) \/ Acquire(r)
  <2>1. /\ run[r].pc \in {"started", "queued"} /\ run'[r].pc \in {"queued", "slotted"} /\ run'[r].row = run[r].row
        /\ run'[r].report = run[r].report /\ run'[r].told = run[r].told
    <3>1. CASE GetSem(r)
      BY <1>0, <3>1 DEF GetSem
    <3>2. CASE Acquire(r)
      BY <1>0, <3>2 DEF Acquire
    <3> QED
      BY <1>4, <3>1, <3>2
  <2>2. RowFits(r)' /\ ProcessFits(r)'
    BY <1>0, <1>a, <2>1 DEF RowFits, ProcessFits, Live, Submitted, Reported
  <2>3. SlotFits(r)'
    <3>1. CASE GetSem(r)
      <4>1. run'[r].held = run[r].held /\ run'[r].sem = Len(caps) /\ run[r].pc = "started"
        BY <1>0, <3>1 DEF GetSem
      <4> QED
        BY <1>0, <1>a, <4>1 DEF SlotFits
    <3>2. CASE Acquire(r)
      <4>1. run[r].pc = "queued" /\ run'[r].pc = "slotted" /\ run'[r].sem = run[r].sem
        BY <1>0, <3>2 DEF Acquire
      <4> QED
        BY <1>0, <1>a, <4>1 DEF SlotFits
    <3> QED
      BY <1>4, <3>1, <3>2
  <2> QED
    BY <2>2, <2>3 DEF Life
<1>5. CASE GiveUp(r) \/ Refuse(r) \/ FinishRow(r)
  <2>1. /\ run[r].pc \in {"queued", "decided", "steps"} /\ run'[r].pc = "reporting" /\ run'[r].told = run[r].told
        /\ run'[r].held = run[r].held /\ run'[r].sem = run[r].sem
        /\ \/ run'[r].row = "failed" /\ run'[r].report = "cancelled"
           \/ run'[r].row = Overall(r) /\ run'[r].report = Overall(r)
    <3>1. CASE GiveUp(r)
      BY <1>0, <3>1 DEF GiveUp
    <3>2. CASE Refuse(r)
      BY <1>0, <3>2 DEF Refuse
    <3>3. CASE FinishRow(r)
      BY <1>0, <3>3 DEF FinishRow, RowAtEnd
    <3> QED
      BY <1>5, <3>1, <3>2, <3>3
  <2>2. RowFits(r)'
    BY <1>0, <1>a, <2>1, OverallType DEF RowFits, Reported, Outcomes
  <2>3. ProcessFits(r)' /\ SlotFits(r)'
    BY <1>0, <1>a, <2>1 DEF ProcessFits, SlotFits, Live
  <2> QED
    BY <2>2, <2>3 DEF Life
<1>6. CASE SkipGate(r) \/ Announce(r) \/ Register(r) \/ GateTimeout(r) \/ GateCancelled(r) \/ Deregister(r)
  <2>1. CASE SkipGate(r)
    BY <1>b, <1>c, <2>1 DEF SkipGate
  <2>2. CASE Announce(r)
    BY <1>b, <1>c, <2>2 DEF Announce
  <2>3. CASE Register(r)
    BY <1>b, <1>c, <2>3 DEF Register
  <2>4. CASE GateTimeout(r) \/ GateCancelled(r)
    BY <1>b, <1>c, <2>4 DEF GateTimeout, GateCancelled
  <2>5. CASE Deregister(r)
    BY <1>b, <1>c, <2>5 DEF Deregister
  <2> QED
    BY <1>6, <2>1, <2>2, <2>3, <2>4, <2>5
<1>7. CASE GateReceive(r)
  <2>1. Steady(r) /\ run[r].pc = "gate" /\ run'[r].pc = "leaving"
    BY <1>0, <1>7 DEF GateReceive, Steady
  <2> QED
    BY <1>b, <2>1
<1>8. CASE Grant(r)
  <2>1. /\ run[r].pc = "decided" /\ run'[r].pc = "steps" /\ run'[r].row = "running"
        /\ run'[r].report = run[r].report /\ run'[r].told = run[r].told
        /\ run'[r].held = run[r].held /\ run'[r].sem = run[r].sem
    BY <1>0, <1>8 DEF Grant
  <2>2. RowFits(r)' /\ ProcessFits(r)' /\ SlotFits(r)'
    BY <1>0, <1>a, <2>1 DEF RowFits, ProcessFits, SlotFits, Live
  <2> QED
    BY <2>2 DEF Life
<1>9. CASE SkipStep(r) \/ StartStep(r) \/ EndStep(r)
  <2>1. run[r].pc \in Passed /\ run'[r].pc \in Passed /\ Steady(r)
    <3>1. CASE SkipStep(r)
      BY <1>0, <3>1 DEF SkipStep, Steady
    <3>2. CASE StartStep(r)
      BY <1>0, <3>2 DEF StartStep, Steady
    <3>3. CASE EndStep(r)
      BY <1>0, <3>3 DEF EndStep, Steady
    <3> QED
      BY <1>9, <3>1, <3>2, <3>3
  <2> QED
    BY <1>b, <2>1
<1>10. CASE EmitEnd(r) \/ Return(r) \/ HubFinish(r)
  <2>1. /\ run'[r].row = run[r].row /\ run'[r].report = run[r].report /\ run'[r].sem = run[r].sem
        /\ \/ /\ run[r].pc = "reporting" /\ run'[r].pc = "returning"
              /\ run'[r].told /\ run'[r].held = run[r].held
           \/ /\ run[r].pc = "returning" /\ run'[r].pc = "finishing"
              /\ run'[r].told = run[r].told /\ ~run'[r].held
           \/ /\ run[r].pc = "finishing" /\ run'[r].pc = "done"
              /\ run'[r].told = run[r].told /\ run'[r].held = run[r].held
    <3>1. CASE EmitEnd(r)
      BY <1>0, <3>1 DEF EmitEnd
    <3>2. CASE Return(r)
      BY <1>0, <3>2 DEF Return, HeldAfter
    <3>3. CASE HubFinish(r)
      BY <1>0, <3>3 DEF HubFinish
    <3> QED
      BY <1>10, <3>1, <3>2, <3>3
  <2>2. RowFits(r)' /\ ProcessFits(r)' /\ SlotFits(r)'
    BY <1>0, <1>a, <2>1 DEF RowFits, ProcessFits, SlotFits, Live, Reported, Outcomes, Active
  <2> QED
    BY <2>2 DEF Life
<1> QED
  BY <1>1, <1>2, <1>3, <1>4, <1>5, <1>6, <1>7, <1>8, <1>9, <1>10 DEF RunStep

\* Every step of the system keeps the lives of all runs.
LEMMA LifeStep == TypeOK /\ AllLives /\ [Next]_vars => AllLives'
<1> SUFFICES ASSUME TypeOK, AllLives, [Next]_vars PROVE AllLives'
  OBVIOUS
<1> USE DEF Behind, AtGate, Ending, Holding, Passed
<1>0. /\ run \in [Runs -> RunType] /\ caps \in Seq(Nat) /\ Len(caps) \in Nat
      /\ \A s \in Runs : run[s] \in RunType /\ Life(s)
  BY DEF TypeOK, AllLives
<1>1. ASSUME UNCHANGED <<proc, caps>>, \A s \in Runs : LifeSame(s) PROVE AllLives'
  BY <1>0, <1>1, LifeKept DEF AllLives
<1>2. ASSUME NEW r \in Runs, Prepare(r) \/ RunStep(r) \/ Cancel(r) PROVE AllLives'
  <2> SUFFICES ASSUME NEW s \in Runs PROVE Life(s)'
    BY DEF AllLives
  <2>1. CASE s = r
    BY <1>0, <1>2, <2>1, LifeOwn
  <2>2. CASE s # r
    <3>1. UNCHANGED <<proc, caps>> /\ run'[s] = run[s]
      BY <1>2, <2>2, OwnRunOnly DEF world
    <3> QED
      BY <1>0, <3>1, LifeKept DEF LifeSame, Steady
  <2> QED
    BY <2>1, <2>2
<1>3. ASSUME NEW u \in Users, Operator(u) PROVE AllLives'
  <2>1. PICK r \in Runs : ResumeLookup(u, r) \/ \E ok \in BOOLEAN : ResumeSend(u, r, ok)
    BY <1>3 DEF Operator
  <2>2. CASE ResumeLookup(u, r)
    BY <1>1, <2>2 DEF ResumeLookup, LifeSame, Steady
  <2>3. ASSUME NEW ok \in BOOLEAN, ResumeSend(u, r, ok) PROVE AllLives'
    <3>1. UNCHANGED <<proc, caps>> /\ \A s \in Runs : LifeSame(s)
      <4>1. CASE run[r].box # Empty
        BY <2>3, <4>1 DEF ResumeSend, LifeSame, Steady
      <4>2. CASE run[r].box = Empty
        <5>1. run' = [run EXCEPT ![r].box = [by |-> u, ok |-> ok]] /\ UNCHANGED <<proc, caps>>
          BY <2>3, <4>2 DEF ResumeSend
        <5> QED
          BY <1>0, <5>1 DEF RunType, LifeSame, Steady
      <4> QED
        BY <4>1, <4>2
    <3> QED
      BY <1>1, <3>1
  <2> QED
    BY <2>1, <2>2, <2>3
<1>4. ASSUME NEW n \in Limits, SaveSettings(n) PROVE AllLives'
  <2>1. UNCHANGED <<proc, run>> /\ Len(caps') = Len(caps) + 1
    BY <1>0, <1>4, CapacityType DEF SaveSettings
  <2> QED
    BY <1>0, <2>1 DEF AllLives, Life, RowFits, ProcessFits, SlotFits, Live, Submitted, Reported
<1>5. ASSUME NEW n \in Limits, Boot(n) PROVE AllLives'
  <2> SUFFICES ASSUME NEW s \in Runs PROVE Life(s)'
    BY DEF AllLives
  <2>1. proc = "down" /\ proc' = "booting" /\ run'[s] = [run[s] EXCEPT !.sem = 0]
    BY <1>5 DEF Boot
  <2>2. ~Live(s) /\ ~run[s].held /\ run[s].pc # "queued"
    BY <1>0, <2>1 DEF Life, ProcessFits, SlotFits, Live
  <2>3. /\ run'[s].pc = run[s].pc /\ run'[s].row = run[s].row /\ run'[s].report = run[s].report
        /\ run'[s].told = run[s].told /\ run'[s].held = run[s].held
    BY <1>0, <2>1 DEF RunType
  <2> QED
    BY <1>0, <2>1, <2>2, <2>3 DEF Life, RowFits, ProcessFits, SlotFits, Live, Submitted, Reported
<1>6. CASE Shutdown
  <2>1. caps' = caps /\ proc = "up" /\ proc' = "stopping"
    BY <1>6 DEF Shutdown
  <2>2. \A s \in Runs : LifeSame(s)
    BY <1>0, <1>6 DEF Shutdown, LifeSame, Steady, RunType
  <2> QED
    BY <1>0, <2>1, <2>2 DEF AllLives, Life, RowFits, ProcessFits, SlotFits, Live, Submitted, Reported,
       LifeSame, Steady
<1>7. CASE Exit
  <2> SUFFICES ASSUME NEW s \in Runs PROVE Life(s)'
    BY DEF AllLives
  <2>1. caps' = caps /\ proc' = "down"
    BY <1>7 DEF Exit
  <2>2. CASE Live(s)
    <3>1. run'[s] = [run[s] EXCEPT !.pc = "lost", !.listed = FALSE, !.held = FALSE,
                                   !.box = Empty, !.cancelled = FALSE]
      BY <1>7, <2>2 DEF Exit
    <3>2. /\ run'[s].pc = "lost" /\ run'[s].row = run[s].row /\ run'[s].report = run[s].report
          /\ run'[s].told = run[s].told /\ ~run'[s].held
      BY <1>0, <3>1 DEF RunType
    <3> QED
      BY <1>0, <2>1, <3>2 DEF Life, RowFits, ProcessFits, SlotFits, Live, Reported
  <2>3. CASE ~Live(s)
    <3>1. run'[s] = [run[s] EXCEPT !.cancelled = FALSE, !.box = Empty]
      BY <1>7, <2>3 DEF Exit
    <3>2. LifeSame(s)
      BY <1>0, <3>1 DEF RunType, LifeSame, Steady
    <3> QED
      BY <1>0, <2>1, <2>3, <3>2 DEF Life, RowFits, ProcessFits, SlotFits, Live, Submitted, Reported,
         LifeSame, Steady
  <2> QED
    BY <2>2, <2>3
<1>8. CASE Recover
  <2> SUFFICES ASSUME NEW s \in Runs PROVE Life(s)'
    BY DEF AllLives
  <2>1. caps' = caps /\ proc = "booting" /\ proc' = "up"
    BY <1>8 DEF Recover
  <2>2. CASE LeftBehind(s)
    <3>1. run'[s] = [run[s] EXCEPT !.row = "interrupted"]
      BY <1>8, <2>2 DEF Recover
    <3>2. /\ run'[s].pc = run[s].pc /\ run'[s].row = "interrupted" /\ run'[s].report = run[s].report
          /\ run'[s].told = run[s].told /\ run'[s].held = run[s].held /\ run'[s].sem = run[s].sem
      BY <1>0, <3>1 DEF RunType
    <3>3. run[s].row \in Active
      BY <2>2 DEF LeftBehind
    <3>4. run[s].pc \notin Ending \cup {"done", "idle"} /\ ~run[s].told
      BY <1>0, <3>3 DEF Life, RowFits, Outcomes, Active
    <3>5. run[s].pc # "lost" => s \in RunOnStart /\ s \notin NeedsApproval
      BY <1>0, <2>1, <3>4, RunsAssumption DEF Life, ProcessFits, Live, NeedsApproval
    <3>6. RowFits(s)'
      BY <1>0, <3>2, <3>4, <3>5 DEF Life, RowFits, RunType, RunStates
    <3>7. ProcessFits(s)' /\ SlotFits(s)'
      BY <1>0, <2>1, <3>2 DEF Life, ProcessFits, SlotFits, Live, Active
    <3> QED
      BY <3>6, <3>7 DEF Life
  <2>3. CASE ~LeftBehind(s)
    <3>1. run'[s] = run[s] /\ run[s].row \notin Active
      BY <1>8, <2>3 DEF Recover, LeftBehind
    <3> QED
      BY <1>0, <2>1, <3>1 DEF Life, RowFits, ProcessFits, SlotFits, Live, Submitted, Reported
  <2> QED
    BY <2>2, <2>3
<1>9. CASE UNCHANGED vars
  BY <1>1, <1>9 DEF vars, LifeSame, Steady
<1> QED
  BY <1>2, <1>3, <1>4, <1>5, <1>6, <1>7, <1>8, <1>9 DEF Next

LEMMA LifeInit == Init => AllLives
BY DEF Init, AllLives, Life, RowFits, ProcessFits, SlotFits, NewRun, Live, Behind, AtGate, Passed, Ending,
   Holding, Active

\* The row of a run that says it goes on has a goroutine of this process behind it once the
\* table is recovered (FinishRun on every way out of executeRun, MarkRunningInterrupted).
THEOREM NoZombies == Spec => []NoZombieRow
<1>1. AllLives => NoZombieRow
  BY DEF AllLives, Life, ProcessFits, NoZombieRow
<1> QED
  BY <1>1, LifeInit, TypeCorrect, LifeStep, PTL DEF Spec

\* Who was told that a run ended finds the status it was told in the run table, for ever after
\* (FinishRun before the run-end event; no later step and no recovery touches the row).
THEOREM EndStays == Spec => []EndIsFinal
<1>1. AllLives => EndIsFinal
  BY DEF AllLives, Life, RowFits, Reported, EndIsFinal
<1> QED
  BY <1>1, LifeInit, TypeCorrect, LifeStep, PTL DEF Spec

-----------------------------------------------------------------------------
(* The slots.                                                              *)

\* Of each semaphore a finite number of runs hold a slot, no more than it has.
SlotsInv == \A g \in 1..Len(caps) : IsFiniteSet(Holders(g)) /\ Cardinality(Holders(g)) <= caps[g]

\* A semaphore that nobody enters stays within its capacity.
LEMMA HoldersShrink ==
  ASSUME NEW g, NEW c \in Nat, IsFiniteSet(Holders(g)), Cardinality(Holders(g)) <= c,
         Holders(g)' \subseteq Holders(g)
  PROVE  IsFiniteSet(Holders(g)') /\ Cardinality(Holders(g)') <= c
<1> DEFINE was == Holders(g)  is == Holders(g)'
<1>1. IsFiniteSet(is) /\ Cardinality(is) <= Cardinality(was)
  BY FS_Subset
<1>2. Cardinality(was) \in Nat /\ Cardinality(is) \in Nat
  BY <1>1, FS_CardinalityType
<1> QED
  BY <1>1, <1>2

\* A goroutine that does not acquire a slot holds none it did not hold.
LEMMA HeldKept ==
  ASSUME TypeOK, NEW r \in Runs, Life(r), Prepare(r) \/ RunStep(r) \/ Cancel(r), ~Acquire(r)
  PROVE  run'[r].held => run[r].held /\ run'[r].sem = run[r].sem
<1>0. run[r] \in RunType /\ run \in [Runs -> RunType]
  BY DEF TypeOK
<1>1. CASE Prepare(r) \/ Cancel(r)
  <2>1. CASE Prepare(r)
    BY <1>0, <2>1 DEF Prepare
  <2>2. CASE Cancel(r)
    BY <1>0, <2>2 DEF Cancel
  <2> QED
    BY <1>1, <2>1, <2>2
<1>2. CASE HubStart(r) \/ HubStartFails(r) \/ GiveUp(r)
  <2>1. CASE HubStart(r)
    BY <1>0, <2>1 DEF HubStart
  <2>2. CASE HubStartFails(r)
    BY <1>0, <2>2 DEF HubStartFails
  <2>3. CASE GiveUp(r)
    BY <1>0, <2>3 DEF GiveUp
  <2> QED
    BY <1>2, <2>1, <2>2, <2>3
<1>3. CASE GetSem(r)
  <2>1. ~run[r].held
    BY <1>3 DEF GetSem, Life, SlotFits, Holding, AtGate, Passed
  <2>2. run'[r].held = run[r].held
    BY <1>0, <1>3 DEF GetSem
  <2> QED
    BY <2>1, <2>2
<1>4. ASSUME NEW from, NEW to, Move(r, from, to)
      PROVE  run'[r].held => run[r].held /\ run'[r].sem = run[r].sem
  BY <1>0, <1>4 DEF Move
<1>5. CASE FireRun(r) \/ SkipGate(r) \/ Announce(r) \/ Register(r) \/ GateTimeout(r)
           \/ GateCancelled(r) \/ Deregister(r)
  BY <1>4, <1>5 DEF FireRun, SkipGate, Announce, Register, GateTimeout, GateCancelled, Deregister
<1>6. CASE GateReceive(r) \/ Grant(r) \/ Refuse(r)
  <2>1. CASE GateReceive(r)
    BY <1>0, <2>1 DEF GateReceive
  <2>2. CASE Grant(r)
    BY <1>0, <2>2 DEF Grant
  <2>3. CASE Refuse(r)
    BY <1>0, <2>3 DEF Refuse
  <2> QED
    BY <1>6, <2>1, <2>2, <2>3
<1>7. CASE SkipStep(r) \/ StartStep(r) \/ EndStep(r)
  <2>1. CASE SkipStep(r)
    BY <1>0, <2>1 DEF SkipStep
  <2>2. CASE StartStep(r)
    BY <1>0, <2>2 DEF StartStep
  <2>3. CASE EndStep(r)
    BY <1>0, <2>3 DEF EndStep
  <2> QED
    BY <1>7, <2>1, <2>2, <2>3
<1>8. CASE FinishRow(r) \/ EmitEnd(r) \/ Return(r) \/ HubFinish(r)
  <2>1. CASE FinishRow(r)
    BY <1>0, <2>1 DEF FinishRow
  <2>2. CASE EmitEnd(r)
    BY <1>0, <2>2 DEF EmitEnd
  <2>3. CASE Return(r)
    BY <1>0, <2>3 DEF Return, HeldAfter
  <2>4. CASE HubFinish(r)
    BY <1>0, <2>4 DEF HubFinish
  <2> QED
    BY <1>8, <2>1, <2>2, <2>3, <2>4
<1> QED
  BY <1>1, <1>2, <1>3, <1>5, <1>6, <1>7, <1>8 DEF RunStep

\* What a step that lets nobody in leaves of the slots.
LEMMA SlotsKept ==
  ASSUME TypeOK, SlotsInv, UNCHANGED caps,
         \A s \in Runs : run'[s].held => run[s].held /\ run'[s].sem = run[s].sem
  PROVE  SlotsInv'
<1> SUFFICES ASSUME NEW g \in 1..Len(caps)
             PROVE  IsFiniteSet(Holders(g)') /\ Cardinality(Holders(g)') <= caps[g]
  BY DEF SlotsInv
<1>1. caps[g] \in Nat /\ IsFiniteSet(Holders(g)) /\ Cardinality(Holders(g)) <= caps[g]
  BY DEF TypeOK, SlotsInv
<1>2. Holders(g)' \subseteq Holders(g)
  BY DEF Holders
<1> QED
  BY <1>1, <1>2, HoldersShrink

LEMMA SlotsStep == TypeOK /\ AllLives /\ SlotsInv /\ [Next]_vars => SlotsInv'
<1> SUFFICES ASSUME TypeOK, AllLives, SlotsInv, [Next]_vars PROVE SlotsInv'
  OBVIOUS
<1>0. /\ run \in [Runs -> RunType] /\ caps \in Seq(Nat) /\ Len(caps) \in Nat
      /\ \A s \in Runs : run[s] \in RunType /\ Life(s) /\ ProcessFits(s) /\ SlotFits(s)
  BY DEF TypeOK, AllLives, Life
<1>e. IsFiniteSet({}) /\ Cardinality({}) = 0
  BY FS_EmptySet
<1>1. ASSUME NEW r \in Runs, Prepare(r) \/ RunStep(r) \/ Cancel(r) PROVE SlotsInv'
  <2>0. UNCHANGED caps /\ \A s \in Runs \ {r} : run'[s] = run[s]
    BY <1>1, OwnRunOnly DEF world
  <2>1. CASE ~Acquire(r)
    BY <1>0, <1>1, <2>0, <2>1, HeldKept, SlotsKept
  <2>2. CASE Acquire(r)
    <3> SUFFICES ASSUME NEW g \in 1..Len(caps)
                 PROVE  IsFiniteSet(Holders(g)') /\ Cardinality(Holders(g)') <= caps[g]
      BY <2>0 DEF SlotsInv
    <3>1. run[r].sem = run'[r].sem /\ Cardinality(Holders(run[r].sem)) < caps[run[r].sem]
      BY <1>0, <2>2 DEF Acquire, HasRoom
    <3>2. caps[g] \in Nat /\ IsFiniteSet(Holders(g)) /\ Cardinality(Holders(g)) <= caps[g]
      BY <1>0 DEF SlotsInv
    <3>3. CASE g = run[r].sem
      <4>1. Holders(g)' \subseteq Holders(g) \cup {r}
        BY <2>0 DEF Holders
      <4>2. /\ IsFiniteSet(Holders(g) \cup {r})
            /\ Cardinality(Holders(g) \cup {r}) \in {Cardinality(Holders(g)), Cardinality(Holders(g)) + 1}
        BY <3>2, FS_AddElement
      <4>3. Cardinality(Holders(g) \cup {r}) <= caps[g]
        BY <3>1, <3>2, <3>3, <4>2, FS_CardinalityType
      <4>4. /\ IsFiniteSet(Holders(g)')
            /\ Cardinality(Holders(g)') <= Cardinality(Holders(g) \cup {r})
        BY <4>1, <4>2, FS_Subset
      <4> QED
        BY <3>2, <4>2, <4>3, <4>4, FS_CardinalityType
    <3>4. CASE g # run[r].sem
      <4>1. Holders(g)' \subseteq Holders(g)
        BY <2>0, <3>1, <3>4 DEF Holders
      <4> QED
        BY <3>2, <4>1, HoldersShrink
    <3> QED
      BY <3>3, <3>4
  <2> QED
    BY <2>1, <2>2
<1>2. ASSUME NEW u \in Users, Operator(u) PROVE SlotsInv'
  <2>1. PICK r \in Runs : ResumeLookup(u, r) \/ \E ok \in BOOLEAN : ResumeSend(u, r, ok)
    BY <1>2 DEF Operator
  <2>2. UNCHANGED caps /\ \A s \in Runs : run'[s].held = run[s].held /\ run'[s].sem = run[s].sem
    <3>1. CASE ResumeLookup(u, r)
      BY <3>1 DEF ResumeLookup
    <3>2. ASSUME NEW ok \in BOOLEAN, ResumeSend(u, r, ok)
          PROVE  UNCHANGED caps /\ \A s \in Runs : run'[s].held = run[s].held /\ run'[s].sem = run[s].sem
      <4>1. CASE run[r].box # Empty
        BY <3>2, <4>1 DEF ResumeSend
      <4>2. CASE run[r].box = Empty
        <5>1. run' = [run EXCEPT ![r].box = [by |-> u, ok |-> ok]] /\ UNCHANGED caps
          BY <3>2, <4>2 DEF ResumeSend
        <5> QED
          BY <1>0, <5>1 DEF RunType
      <4> QED
        BY <4>1, <4>2
    <3> QED
      BY <2>1, <3>1, <3>2
  <2> QED
    BY <2>2, SlotsKept
<1>3. ASSUME NEW n \in Limits, SaveSettings(n) PROVE SlotsInv'
  <2> SUFFICES ASSUME NEW g \in 1..Len(caps')
               PROVE  IsFiniteSet(Holders(g)') /\ Cardinality(Holders(g)') <= caps'[g]
    BY DEF SlotsInv
  <2>1. /\ run' = run /\ Len(caps') = Len(caps) + 1 /\ caps'[Len(caps) + 1] \in Nat
        /\ \A k \in 1..Len(caps) : caps'[k] = caps[k]
    BY <1>0, <1>3, CapacityType DEF SaveSettings
  <2>2. Holders(g)' = Holders(g)
    BY <2>1 DEF Holders
  <2>3. CASE g \in 1..Len(caps)
    BY <2>1, <2>2, <2>3 DEF SlotsInv
  <2>4. CASE g = Len(caps) + 1
    <3>1. Holders(g) = {}
      BY <1>0, <2>4 DEF Holders, SlotFits
    <3> QED
      <4>1. Holders(g)' = {} /\ caps'[g] \in Nat
        BY <2>1, <2>2, <2>4, <3>1
      <4> QED
        BY <1>e, <4>1
  <2> QED
    BY <1>0, <2>1, <2>3, <2>4
<1>4. ASSUME NEW n \in Limits, Boot(n) PROVE SlotsInv'
  <2>1. caps' = <<Capacity(n)>> /\ Capacity(n) \in Nat /\ proc = "down"
    BY <1>4, CapacityType DEF Boot
  <2>2. \A s \in Runs : ~run[s].held
    BY <1>0, <2>1 DEF ProcessFits, SlotFits, Live, Holding, AtGate, Passed
  <2>3. \A s \in Runs : run'[s].held = run[s].held
    BY <1>0, <1>4 DEF Boot, RunType
  <2> SUFFICES ASSUME NEW g \in 1..Len(caps')
               PROVE  IsFiniteSet(Holders(g)') /\ Cardinality(Holders(g)') <= caps'[g]
    BY DEF SlotsInv
  <2>4. Holders(g)' = {} /\ caps'[g] \in Nat
    BY <2>1, <2>2, <2>3 DEF Holders
  <2> QED
    BY <1>e, <2>4
<1>5. CASE Shutdown
  <2>1. UNCHANGED caps /\ \A s \in Runs : run'[s].held = run[s].held /\ run'[s].sem = run[s].sem
    BY <1>0, <1>5 DEF Shutdown, RunType
  <2> QED
    BY <2>1, SlotsKept
<1>6. CASE Exit
  <2>1. UNCHANGED caps
    BY <1>6 DEF Exit
  <2>2. ASSUME NEW s \in Runs, run'[s].held PROVE run[s].held /\ run'[s].sem = run[s].sem
    <3>1. CASE Live(s)
      <4>1. run'[s] = [run[s] EXCEPT !.pc = "lost", !.listed = FALSE, !.held = FALSE,
                                     !.box = Empty, !.cancelled = FALSE]
        BY <1>6, <3>1 DEF Exit
      <4> QED
        BY <1>0, <2>2, <4>1 DEF RunType
    <3>2. CASE ~Live(s)
      <4>1. run'[s] = [run[s] EXCEPT !.cancelled = FALSE, !.box = Empty]
        BY <1>6, <3>2 DEF Exit
      <4> QED
        BY <1>0, <2>2, <4>1 DEF RunType
    <3> QED
      BY <3>1, <3>2
  <2> QED
    BY <2>1, <2>2, SlotsKept
<1>7. CASE Recover
  <2>1. UNCHANGED caps
    BY <1>7 DEF Recover
  <2>2. \A s \in Runs : run'[s] = IF LeftBehind(s) THEN [run[s] EXCEPT !.row = "interrupted"] ELSE run[s]
    BY <1>7 DEF Recover
  <2>3. \A s \in Runs : run'[s].held = run[s].held /\ run'[s].sem = run[s].sem
    BY <1>0, <2>2 DEF RunType
  <2> QED
    BY <2>1, <2>3, SlotsKept
<1>8. CASE UNCHANGED vars
  BY <1>8, SlotsKept DEF vars
<1> QED
  BY <1>1, <1>2, <1>3, <1>4, <1>5, <1>6, <1>7, <1>8 DEF Next

\* The runs that hold a slot of one semaphore are never more than it has slots, whatever
\* settings writes replace it, and across crashes (sem and the deferred receive of executeRun).
THEOREM SlotsRespected == Spec => []SlotsBounded
<1>1. Init => SlotsInv
  <2> SUFFICES ASSUME Init PROVE SlotsInv
    OBVIOUS
  <2>1. PICK n \in Limits : caps = <<Capacity(n)>>
    BY DEF Init
  <2>2. Capacity(n) \in Nat /\ \A s \in Runs : ~run[s].held
    BY CapacityType DEF Init, NewRun
  <2>3. \A g \in 1..1 : Holders(g) = {}
    BY <2>2 DEF Holders
  <2> QED
    BY <2>1, <2>2, <2>3, FS_EmptySet DEF SlotsInv
<1>2. SlotsInv => SlotsBounded
  BY DEF SlotsInv, SlotsBounded
<1> QED
  BY <1>1, <1>2, LifeInit, TypeCorrect, LifeStep, SlotsStep, PTL DEF Spec

-----------------------------------------------------------------------------
(* The engine implements the life of a run.  A schedule that fires while   *)
(* the backend boots breaks the promise (see BootRace.cfg): the recovery   *)
(* marks its run as interrupted and its goroutine goes on.                 *)

\* What a step does to the row of one run and to who approved it.
RowStays(r) == run'[r].row = run[r].row /\ run'[r].approvedBy = run[r].approvedBy
RowSubmitted(r) ==
    run[r].row = "none" /\ run'[r].row = Submitted(r) /\ run'[r].approvedBy = run[r].approvedBy
RowApproved(r) ==
    /\ run[r].row = "awaiting_approval" /\ run'[r].row = "running"
    /\ run'[r].approvedBy \in Users \ {Requester[r]}
RowEnds(r) ==
    /\ run[r].row \in Active /\ run'[r].row \in Outcomes
    /\ run[r].row = "awaiting_approval" => run'[r].row = "failed"
    /\ run'[r].approvedBy = run[r].approvedBy
RowMoves(r) == RowStays(r) \/ RowSubmitted(r) \/ RowApproved(r) \/ RowEnds(r)

LEMMA RowOwn ==
  ASSUME RunOnStart = {}, TypeOK, AllGates, NEW r \in Runs, Life(r), Prepare(r) \/ RunStep(r) \/ Cancel(r)
  PROVE  RowMoves(r)
<1> USE DEF Behind, AtGate, Passed
<1>0. /\ run[r] \in RunType /\ run \in [Runs -> RunType]
      /\ run[r].pc = "idle" => run[r].row = "none"
      /\ run[r].pc \in Behind => run[r].row = Submitted(r)
      /\ run[r].pc \in AtGate => r \in NeedsApproval /\ run[r].row = "awaiting_approval"
      /\ run[r].pc \in Passed => run[r].row = "running"
  BY DEF TypeOK, Life, RowFits
<1>1. CASE Prepare(r) \/ Cancel(r)
  <2>1. CASE Prepare(r)
    <3>1. RowSubmitted(r)
      BY <1>0, <2>1 DEF Prepare, RowSubmitted, Submitted
    <3> QED
      BY <3>1 DEF RowMoves
  <2>2. CASE Cancel(r)
    <3>1. RowStays(r)
      BY <1>0, <2>2 DEF Cancel, RowStays
    <3> QED
      BY <3>1 DEF RowMoves
  <2> QED
    BY <1>1, <2>1, <2>2
<1>2. CASE HubStartFails(r) \/ GiveUp(r) \/ Refuse(r)
  <2>1. run[r].pc \in Behind \cup AtGate /\ run'[r].row = "failed" /\ run'[r].approvedBy = run[r].approvedBy
    <3>1. CASE HubStartFails(r)
      BY <1>0, <3>1 DEF HubStartFails
    <3>2. CASE GiveUp(r)
      BY <1>0, <3>2 DEF GiveUp
    <3>3. CASE Refuse(r)
      BY <1>0, <3>3 DEF Refuse
    <3> QED
      BY <1>2, <3>1, <3>2, <3>3
  <2>2. RowEnds(r)
    BY <1>0, <2>1 DEF RowEnds, Submitted, Active, Outcomes
  <2> QED
    BY <2>2 DEF RowMoves
<1>3. CASE FinishRow(r)
  <2>1. run[r].pc = "steps" /\ run'[r].row = Overall(r) /\ run'[r].approvedBy = run[r].approvedBy
    BY <1>0, <1>3 DEF FinishRow, RowAtEnd
  <2>2. RowEnds(r)
    BY <1>0, <2>1, OverallType DEF RowEnds, Active, Outcomes
  <2> QED
    BY <2>2 DEF RowMoves
<1>4. CASE Grant(r)
  <2>1. run[r].pc = "decided" /\ run[r].answer.ok /\ run'[r].row = "running" /\ run'[r].approvedBy = run[r].answer.by
    BY <1>0, <1>4 DEF Grant, Granted
  <2>2. r \in NeedsApproval /\ run[r].row = "awaiting_approval"
    BY <1>0, <2>1
  <2>3. Proper(r, run[r].answer)
    BY <2>2 DEF AllGates, GateInv
  <2>4. run[r].answer # Empty
    BY <2>1 DEF Empty
  <2>5. RowApproved(r)
    BY <2>1, <2>2, <2>3, <2>4 DEF RowApproved, Proper
  <2> QED
    BY <2>5 DEF RowMoves
<1>5. ASSUME NEW from, NEW to, Move(r, from, to) PROVE RowMoves(r)
  BY <1>0, <1>5 DEF Move, RowMoves, RowStays
<1>6. CASE FireRun(r) \/ SkipGate(r) \/ Announce(r) \/ Register(r) \/ GateTimeout(r)
           \/ GateCancelled(r) \/ Deregister(r)
  BY <1>5, <1>6 DEF FireRun, SkipGate, Announce, Register, GateTimeout, GateCancelled, Deregister
<1>7. CASE HubStart(r) \/ GetSem(r) \/ Acquire(r) \/ GateReceive(r)
  <2>1. CASE HubStart(r)
    BY <1>0, <2>1 DEF HubStart, RowMoves, RowStays
  <2>2. CASE GetSem(r)
    BY <1>0, <2>2 DEF GetSem, RowMoves, RowStays
  <2>3. CASE Acquire(r)
    BY <1>0, <2>3 DEF Acquire, RowMoves, RowStays
  <2>4. CASE GateReceive(r)
    BY <1>0, <2>4 DEF GateReceive, RowMoves, RowStays
  <2> QED
    BY <1>7, <2>1, <2>2, <2>3, <2>4
<1>8. CASE SkipStep(r) \/ StartStep(r) \/ EndStep(r)
  <2>1. CASE SkipStep(r)
    BY <1>0, <2>1 DEF SkipStep, RowMoves, RowStays
  <2>2. CASE StartStep(r)
    BY <1>0, <2>2 DEF StartStep, RowMoves, RowStays
  <2>3. CASE EndStep(r)
    BY <1>0, <2>3 DEF EndStep, RowMoves, RowStays
  <2> QED
    BY <1>8, <2>1, <2>2, <2>3
<1>9. CASE EmitEnd(r) \/ Return(r) \/ HubFinish(r)
  <2>1. CASE EmitEnd(r)
    BY <1>0, <2>1 DEF EmitEnd, RowMoves, RowStays
  <2>2. CASE Return(r)
    BY <1>0, <2>2 DEF Return, RowMoves, RowStays
  <2>3. CASE HubFinish(r)
    BY <1>0, <2>3 DEF HubFinish, RowMoves, RowStays
  <2> QED
    BY <1>9, <2>1, <2>2, <2>3
<1> QED
  BY <1>1, <1>2, <1>3, <1>4, <1>6, <1>7, <1>8, <1>9 DEF RunStep

\* The state of the life of a run, read off the engine's.
Statuses == [r \in Runs |-> run[r].row]
Approvers == [r \in Runs |-> run[r].approvedBy]
LifeMoves == Lifecycle!Next \/ UNCHANGED <<Statuses, Approvers>>

\* The step of one run is a step of its life.
LEMMA OneLife ==
  ASSUME NEW r \in Runs, RowMoves(r), \A s \in Runs \ {r} : run'[s] = run[s]
  PROVE  LifeMoves
<1>1. CASE RowStays(r)
  BY <1>1 DEF RowStays, LifeMoves, Statuses, Approvers
<1>2. CASE RowSubmitted(r)
  <2>1. Lifecycle!Submit(r)
    BY <1>2 DEF RowSubmitted, Submitted, Lifecycle!Submit
  <2> QED
    BY <2>1 DEF LifeMoves, Lifecycle!Next
<1>3. CASE RowApproved(r)
  <2>1. PICK u \in Users : u # Requester[r] /\ run'[r].approvedBy = u
    BY <1>3 DEF RowApproved
  <2>2. Lifecycle!Approve(r, u)
    BY <1>3, <2>1 DEF RowApproved, Lifecycle!Approve
  <2> QED
    BY <2>2 DEF LifeMoves, Lifecycle!Next
<1>4. CASE RowEnds(r)
  <2>1. Lifecycle!End(r)
    BY <1>4 DEF RowEnds, Active, Outcomes, Lifecycle!End, Lifecycle!Pending, Lifecycle!Final
  <2> QED
    BY <2>1 DEF LifeMoves, Lifecycle!Next
<1> QED
  BY <1>1, <1>2, <1>3, <1>4 DEF RowMoves

LEMMA LifeRefines ==
  ASSUME RunOnStart = {}, TypeOK, AllGates, AllLives, [Next]_vars
  PROVE  LifeMoves
<1>0. run \in [Runs -> RunType] /\ \A s \in Runs : run[s] \in RunType
  BY DEF TypeOK
<1>1. ASSUME \A s \in Runs : RowStays(s) PROVE LifeMoves
  BY <1>1 DEF RowStays, LifeMoves, Statuses, Approvers
<1>2. ASSUME NEW r \in Runs, Prepare(r) \/ RunStep(r) \/ Cancel(r) PROVE LifeMoves
  BY <1>2, RowOwn, OwnRunOnly, OneLife DEF AllLives
<1>3. ASSUME NEW u \in Users, Operator(u) PROVE LifeMoves
  <2>1. PICK r \in Runs : ResumeLookup(u, r) \/ \E ok \in BOOLEAN : ResumeSend(u, r, ok)
    BY <1>3 DEF Operator
  <2>2. CASE ResumeLookup(u, r)
    BY <1>1, <2>2 DEF ResumeLookup, RowStays
  <2>3. ASSUME NEW ok \in BOOLEAN, ResumeSend(u, r, ok) PROVE LifeMoves
    <3>1. CASE run[r].box # Empty
      BY <1>1, <2>3, <3>1 DEF ResumeSend, RowStays
    <3>2. CASE run[r].box = Empty
      <4>1. run' = [run EXCEPT ![r].box = [by |-> u, ok |-> ok]]
        BY <2>3, <3>2 DEF ResumeSend
      <4>2. \A s \in Runs : RowStays(s)
        BY <1>0, <4>1 DEF RunType, RowStays
      <4> QED
        BY <1>1, <4>2
    <3> QED
      BY <3>1, <3>2
  <2> QED
    BY <2>1, <2>2, <2>3
<1>4. ASSUME NEW n \in Limits, SaveSettings(n) \/ Boot(n) PROVE LifeMoves
  <2>1. CASE SaveSettings(n)
    BY <1>1, <2>1 DEF SaveSettings, RowStays
  <2>2. CASE Boot(n)
    <3>1. \A s \in Runs : RowStays(s)
      BY <1>0, <2>2 DEF Boot, RunType, RowStays
    <3> QED
      BY <1>1, <3>1
  <2> QED
    BY <1>4, <2>1, <2>2
<1>5. CASE Shutdown
  <2>1. \A s \in Runs : RowStays(s)
    BY <1>0, <1>5 DEF Shutdown, RunType, RowStays
  <2> QED
    BY <1>1, <2>1
<1>6. CASE Exit
  <2>1. ASSUME NEW s \in Runs PROVE RowStays(s)
    <3>1. CASE Live(s)
      <4>1. run'[s] = [run[s] EXCEPT !.pc = "lost", !.listed = FALSE, !.held = FALSE,
                                     !.box = Empty, !.cancelled = FALSE]
        BY <1>6, <3>1 DEF Exit
      <4> QED
        BY <1>0, <4>1 DEF RunType, RowStays
    <3>2. CASE ~Live(s)
      <4>1. run'[s] = [run[s] EXCEPT !.cancelled = FALSE, !.box = Empty]
        BY <1>6, <3>2 DEF Exit
      <4> QED
        BY <1>0, <4>1 DEF RunType, RowStays
    <3> QED
      BY <3>1, <3>2
  <2> QED
    BY <1>1, <2>1
<1>7. CASE Recover
  <2>1. \A s \in Runs : run'[s] = IF LeftBehind(s) THEN [run[s] EXCEPT !.row = "interrupted"] ELSE run[s]
    BY <1>7 DEF Recover
  <2>2. \A s \in Runs : /\ run'[s].row = IF run[s].row \in Active THEN "interrupted" ELSE run[s].row
                        /\ run'[s].approvedBy = run[s].approvedBy
    BY <1>0, <2>1 DEF RunType, LeftBehind
  <2>3. CASE \A s \in Runs : run[s].row \notin Active
    BY <1>1, <2>2, <2>3 DEF RowStays
  <2>4. CASE \E s \in Runs : run[s].row \in Active
    <3>1. Lifecycle!Restart
      BY <2>2, <2>4 DEF Active, Lifecycle!Restart, Lifecycle!Pending
    <3> QED
      BY <3>1 DEF LifeMoves, Lifecycle!Next
  <2> QED
    BY <2>3, <2>4
<1>8. CASE UNCHANGED vars
  BY <1>1, <1>8 DEF vars, RowStays
<1> QED
  BY <1>2, <1>3, <1>4, <1>5, <1>6, <1>7, <1>8 DEF Next

\* Whatever happens to the processes, a run is submitted, approved by somebody else where it has to
\* be, and ends once, and a restart ends what was pending (executeRun, ResumeRun,
\* MarkRunningInterrupted), when no schedule fires before the recovery.
THEOREM EngineImplements ==
  ASSUME RunOnStart = {} PROVE Spec => ImplementsLifecycle
<1>1. Init => Lifecycle!Init
  BY DEF Init, NewRun, Lifecycle!Init
<1>2. TypeOK /\ AllGates /\ AllLives /\ [Next]_vars => [Lifecycle!Next]_<<Statuses, Approvers>>
  BY LifeRefines DEF LifeMoves
<1>3. Init => AllGates
  BY RunsAssumption DEF Init, AllGates, AskedInv, GateInv, Proper, NewRun, Empty, Waiting,
     Passed, NeedsApproval
<1> QED
  BY <1>1, <1>2, <1>3, LifeInit, TypeCorrect, LifeStep, GateStep, PTL
     DEF Spec, ImplementsLifecycle, Lifecycle!Spec, Statuses, Approvers

\* Nor does the recovery mark a run of its own process, then.
THEOREM OwnRunsAreKept ==
  ASSUME RunOnStart = {} PROVE Spec => []OwnRunsKept
<1>1. TypeOK /\ AllLives => OwnRunsKept
  <2> SUFFICES ASSUME TypeOK, AllLives, NEW r \in Runs, Live(r) PROVE run[r].row # "interrupted"
    BY DEF OwnRunsKept
  <2>1. run[r] \in RunType /\ RowFits(r)
    BY DEF TypeOK, AllLives, Life
  <2> QED
    BY <2>1 DEF RowFits, Live, Submitted, Behind, AtGate, Passed, Ending, Outcomes, RunType, RunStates
<1> QED
  BY <1>1, LifeInit, TypeCorrect, LifeStep, PTL DEF Spec
=============================================================================
