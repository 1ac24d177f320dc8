-------------------------- MODULE AnsibleRun_proofs --------------------------
(***************************************************************************)
(* Proofs about an Ansible run, for any set of operators, any way to start *)
(* a run and any number of events: each invariant of the run "ansible_run" *)
(* holds in every state.                                                   *)
(***************************************************************************)
EXTENDS AnsibleRun, FiniteSetTheorems, SequenceTheorems, TLAPS

\* What a drain passes on: the lines from FirstNew on, if there are any.
NewEvents == SubSeq(WholeFile, FirstNew, lines)

\* These are events of the file, in order and beyond those consumed before.
LEMMA NewEventsProperties ==
  ASSUME pos \in Nat, lines \in 0..MaxLines, torn \in BOOLEAN
  PROVE  /\ NewEvents \in Seq(1..MaxLines)
         /\ \A i \in 1..Len(NewEvents) :
               NewEvents[i] = FirstNew + i - 1 /\ NewEvents[i] > pos /\ NewEvents[i] <= lines
<1>1. FirstNew \in Nat /\ FirstNew > pos /\ lines \in Nat /\ MaxLines \in Nat /\ lines <= MaxLines
  BY LinesAssumption DEF FirstNew
<1>2. \A n \in FirstNew..lines : WholeFile[n] = n /\ n \in 1..MaxLines
  BY <1>1 DEF WholeFile
<1>3. \A n \in FirstNew..lines : WholeFile[n] \in 1..MaxLines
  BY <1>2
<1>4. /\ NewEvents \in Seq(1..MaxLines)
      /\ Len(NewEvents) = IF FirstNew <= lines THEN lines - FirstNew + 1 ELSE 0
      /\ \A i \in 1..(lines - FirstNew + 1) : NewEvents[i] = WholeFile[FirstNew + i - 1]
  BY <1>1, <1>3, SubSeqProperties DEF NewEvents
<1>5. ASSUME NEW i \in 1..Len(NewEvents)
      PROVE  NewEvents[i] = FirstNew + i - 1 /\ FirstNew + i - 1 \in FirstNew..lines
  BY <1>1, <1>2, <1>4
<1> QED
  BY <1>1, <1>4, <1>5

-----------------------------------------------------------------------------
\* Type correctness needs to know that the tail is never ahead of the file.
TypeInv == TypeOK /\ pos <= lines

\* An empty channel is a channel.
LEMMA EmptyBox == ASSUME NEW b, b = {} PROVE b \subseteq Decision /\ Cardinality(b) <= 1
<1>1. Cardinality(b) = 0
  BY FS_EmptySet, Zenon
<1> QED
  BY <1>1

\* The channel never holds more than one decision.
LEMMA DeliveredOne ==
  ASSUME box \subseteq Decision, Cardinality(box) <= 1, NEW d \in Decision
  PROVE  Delivered(d) \subseteq Decision /\ Cardinality(Delivered(d)) <= 1
<1>1. CASE box = {}
  <2>1. Delivered(d) = {d}
    BY <1>1 DEF Delivered
  <2>2. Cardinality(Delivered(d)) = 1
    BY <2>1, FS_Singleton, Zenon
  <2> QED
    BY <2>1, <2>2
<1>2. CASE box # {}
  BY <1>2 DEF Delivered
<1> QED
  BY <1>1, <1>2

\* A drain keeps the types and brings the tail up to the file.
LEMMA DrainType ==
  ASSUME TypeInv, Drain
  PROVE  pos' = lines /\ torn' \in BOOLEAN /\ events' \in Seq(1..MaxLines)
<1>1. NewEvents \in Seq(1..MaxLines) /\ events \in Seq(1..MaxLines)
  BY NewEventsProperties DEF TypeInv, TypeOK
<1>2. events' = events \o NewEvents /\ pos' = lines /\ torn' \in BOOLEAN
  BY DEF TypeInv, TypeOK, Drain, NewEvents
<1> QED
  BY <1>1, <1>2, ConcatProperties

\* One step per action of AnsibleRun: every variable keeps its type.
LEMMA TypeStep == TypeInv /\ [Next]_vars => TypeInv'
<1> SUFFICES ASSUME TypeInv, [Next]_vars PROVE TypeInv'
  OBVIOUS
<1> USE LinesAssumption DEF TypeInv, TypeOK, Places, Active, Finals, gate, file, tailing
<1>1. CASE LaunchFails
  BY <1>1 DEF LaunchFails
<1>2. CASE SkipGate
  BY <1>2 DEF SkipGate
<1>3. CASE Park
  BY <1>3 DEF Park, RegisteredNow
<1>4. CASE Announce
  BY <1>4 DEF Announce
<1>5. CASE Receive
  BY <1>5, EmptyBox DEF Receive, Decision
<1>6. CASE StopWaiting
  BY <1>6 DEF StopWaiting
<1>7. CASE Deregister
  BY <1>7 DEF Deregister
<1>8. CASE Decide
  BY <1>8 DEF Decide
<1>9. CASE ExecFails
  BY <1>9 DEF ExecFails
<1>10. CASE Exec
  BY <1>10 DEF Exec
<1>11. CASE StreamEnds
  BY <1>11 DEF StreamEnds
<1>12. CASE Finish
  BY <1>12 DEF Finish, RowAtEnd
<1>13. CASE Report
  BY <1>13 DEF Report
<1>14. CASE TailPoll
  BY <1>14, DrainType DEF TailPoll
<1>15. CASE TailStop
  BY <1>15, DrainType DEF TailStop
<1>16. CASE WriteLine
  <2>1. lines' = lines + 1 \/ lines' = lines
    BY <1>16, Zenon DEF WriteLine
  <2>2. lines < MaxLines /\ half' \in BOOLEAN
    BY <1>16, Zenon DEF WriteLine
  <2> QED
    BY <1>16, <2>1, <2>2 DEF WriteLine
<1>17. CASE PlayEnds
  BY <1>17 DEF PlayEnds
<1>18. CASE PlayKilled
  BY <1>18 DEF PlayKilled
<1>19. ASSUME NEW u \in Users, ResumeLookup(u) PROVE TypeInv'
  BY <1>19 DEF ResumeLookup
<1>20. ASSUME NEW u \in Users, NEW ok \in BOOLEAN, ResumeSend(u, ok) PROVE TypeInv'
  <2>1. [by |-> u, ok |-> ok] \in Decision
    BY DEF Decision
  <2>2. box' = Delivered([by |-> u, ok |-> ok])
    BY <1>20 DEF ResumeSend
  <2>3. box' \subseteq Decision /\ Cardinality(box') <= 1
    BY <2>1, <2>2, DeliveredOne
  <2> QED
    BY <1>20, <2>3 DEF ResumeSend
<1>21. CASE Cancel
  BY <1>21 DEF Cancel
<1>22. CASE Deadline
  BY <1>22 DEF Deadline
<1>23. CASE Crash
  <2>1. box' \subseteq Decision /\ Cardinality(box') <= 1
    BY <1>23, EmptyBox DEF Crash
  <2> QED
    BY <1>23, <2>1 DEF Crash
<1>24. CASE Recover
  BY <1>24 DEF Recover, LeftBehind
<1>25. CASE UNCHANGED vars
  BY <1>25 DEF vars
<1> QED
  BY <1>1, <1>2, <1>3, <1>4, <1>5, <1>6, <1>7, <1>8, <1>9, <1>10, <1>11, <1>12, <1>13,
     <1>14, <1>15, <1>16, <1>17, <1>18, <1>19, <1>20, <1>21, <1>22, <1>23, <1>24, <1>25
     DEF Next, Goroutine

\* The initial states have the types.
LEMMA TypeInit == Init => TypeInv
<1> SUFFICES ASSUME Init PROVE TypeInv
  OBVIOUS
<1>1. box \subseteq Decision /\ Cardinality(box) <= 1
  BY EmptyBox DEF Init
<1>2. lines \in 0..MaxLines /\ pos \in 0..MaxLines /\ pos <= lines
  BY LinesAssumption DEF Init
<1>3. events \in Seq(1..MaxLines)
  BY EmptySeq DEF Init
<1>4. asked \subseteq Users /\ approver \subseteq Users
  BY DEF Init
<1> QED
  BY <1>1, <1>2, <1>3, <1>4 DEF Init, TypeInv, TypeOK, Places, Active, Finals

\* Every variable keeps its type and the tail is never ahead of the file.
THEOREM TypeCorrect == Spec => [](TypeOK /\ pos <= lines)
BY TypeInit, TypeStep, PTL DEF Spec, TypeInv

-----------------------------------------------------------------------------
(* The approval gate.                                                      *)

\* Nobody but other operators gets hold of the channel; nothing runs before the
\* gate is passed; the run is registered for as long as it waits.
GateInv ==
    /\ Owner \notin asked /\ Owner \notin approver
    /\ \A d \in box : d.by # Owner
    /\ pc \in {"start", "gate", "announced", "leaving", "decided", "exec"} => play = "none"
    /\ GateHolds
    /\ EarlyApprovalFound
    /\ pc = "gate" => registered

\* One step per group of actions that may disturb the same part of GateInv.
LEMMA GateStep == TypeInv /\ GateInv /\ [Next]_vars => GateInv'
<1> SUFFICES ASSUME TypeInv, GateInv, [Next]_vars PROVE GateInv'
  OBVIOUS
<1> USE DEF GateInv, GateHolds, EarlyApprovalFound, NeedsApproval, gate, file, tailing
<1>1. CASE LaunchFails \/ SkipGate \/ Park \/ Announce
  BY <1>1 DEF LaunchFails, SkipGate, Park, Announce, RegisteredNow
<1>2. CASE Receive
  BY <1>2 DEF Receive
<1>3. CASE StopWaiting \/ Deregister
  BY <1>3 DEF StopWaiting, Deregister
<1>4. CASE Decide
  BY <1>4 DEF Decide, Approved
<1>5. CASE ExecFails \/ Exec \/ StreamEnds \/ Finish \/ Report
  BY <1>5 DEF ExecFails, Exec, StreamEnds, Finish, Report
<1>6. CASE TailPoll \/ TailStop
  BY <1>6 DEF TailPoll, TailStop, Drain
<1>7. CASE WriteLine \/ PlayEnds \/ PlayKilled
  BY <1>7 DEF WriteLine, PlayEnds, PlayKilled
<1>8. ASSUME NEW u \in Users, ResumeLookup(u) PROVE GateInv'
  BY <1>8 DEF ResumeLookup
<1>9. ASSUME NEW u \in Users, NEW ok \in BOOLEAN, ResumeSend(u, ok) PROVE GateInv'
  <2>1. u # Owner
    BY <1>9 DEF ResumeSend
  <2>2. \A d \in box' : d.by # Owner
    BY <1>9, <2>1 DEF ResumeSend, Delivered
  <2> QED
    BY <1>9, <2>2 DEF ResumeSend
<1>10. CASE Cancel \/ Deadline
  BY <1>10 DEF Cancel, Deadline
<1>11. CASE Crash
  BY <1>11 DEF Crash
<1>12. CASE Recover
  BY <1>12 DEF Recover
<1>13. CASE UNCHANGED vars
  BY <1>13 DEF vars
<1> QED
  BY <1>1, <1>2, <1>3, <1>4, <1>5, <1>6, <1>7, <1>8, <1>9, <1>10, <1>11, <1>12, <1>13
     DEF Next, Goroutine

\* Without an approval by an operator other than the owner the playbook never
\* starts (awaitApproval, Approve).
THEOREM GateIsSafe == Spec => []GateHolds
<1>1. Init => GateInv
  BY DEF Init, GateInv, GateHolds, EarlyApprovalFound
<1>2. GateInv => GateHolds
  BY DEF GateInv
<1> QED
  BY <1>1, <1>2, TypeInit, TypeStep, GateStep, PTL DEF Spec

\* Who has seen that an approval is asked for finds the run as long as it waits: it is registered
\* before the event is emitted and until nobody receives any more (registerApproval).
THEOREM EarlyFound == Spec => []EarlyApprovalFound
<1>1. Init => GateInv
  BY DEF Init, GateInv, GateHolds, EarlyApprovalFound
<1>2. GateInv => EarlyApprovalFound
  BY DEF GateInv
<1> QED
  BY <1>1, <1>2, TypeInit, TypeStep, GateStep, PTL DEF Spec

-----------------------------------------------------------------------------
(* The events that are passed on, and the row of a run that is over.        *)

\* Everything that was passed on lies within what the tail has consumed.
OrderInv == EventsOnce /\ \A i \in 1..Len(events) : events[i] <= pos

\* A drain appends events that come after all those before.
LEMMA DrainOrder ==
  ASSUME TypeInv, OrderInv, Drain
  PROVE  OrderInv'
<1> DEFINE a == events
           b == NewEvents
<1>1. /\ a \in Seq(1..MaxLines) /\ b \in Seq(1..MaxLines)
      /\ pos \in Nat /\ lines \in Nat /\ pos <= lines
      /\ FirstNew \in Nat
  BY NewEventsProperties, LinesAssumption DEF TypeInv, TypeOK, FirstNew
<1>2. \A i \in 1..Len(b) : b[i] = FirstNew + i - 1 /\ b[i] > pos /\ b[i] <= lines
  BY NewEventsProperties, LinesAssumption DEF TypeInv, TypeOK
<1>3. /\ \A i, j \in 1..Len(a) : i < j => a[i] < a[j]
      /\ \A i \in 1..Len(a) : a[i] <= pos
  BY DEF OrderInv, EventsOnce
<1>4. events' = a \o b /\ pos' = lines
  BY DEF Drain, NewEvents
<1> HIDE DEF a, b
<1>5. /\ Len(a) \in Nat /\ Len(b) \in Nat
      /\ \A i \in 1..Len(a) : a[i] \in Nat
  BY <1>1, LenProperties, ElementOfSeq, LinesAssumption
<1>6. /\ Len(events') = Len(a) + Len(b)
      /\ \A i \in 1..(Len(a) + Len(b)) :
            events'[i] = IF i <= Len(a) THEN a[i] ELSE b[i - Len(a)]
  BY <1>1, <1>4, ConcatProperties
<1>7. ASSUME NEW i \in 1..Len(events'), NEW j \in 1..Len(events'), i < j
      PROVE  events'[i] < events'[j]
  <2>1. CASE j <= Len(a)
    BY <1>3, <1>5, <1>6, <1>7, <2>1
  <2>2. CASE i <= Len(a) /\ j > Len(a)
    <3>1. i \in 1..Len(a) /\ j - Len(a) \in 1..Len(b)
      BY <1>5, <1>6, <2>2
    <3>2. a[i] <= pos /\ a[i] \in Nat /\ b[j - Len(a)] > pos
      BY <1>2, <1>3, <1>5, <3>1
    <3>3. b[j - Len(a)] \in Nat
      BY <1>1, <1>2, <3>1
    <3>4. events'[i] = a[i] /\ events'[j] = b[j - Len(a)]
      BY <1>5, <1>6, <2>2
    <3> QED
      BY <1>1, <3>2, <3>3, <3>4
  <2>3. CASE i > Len(a)
    <3>1. i - Len(a) \in 1..Len(b) /\ j - Len(a) \in 1..Len(b)
      BY <1>5, <1>6, <1>7, <2>3
    <3>2. events'[i] = b[i - Len(a)] /\ events'[j] = b[j - Len(a)]
      BY <1>5, <1>6, <1>7, <2>3
    <3>3. b[i - Len(a)] = FirstNew + (i - Len(a)) - 1 /\ b[j - Len(a)] = FirstNew + (j - Len(a)) - 1
      BY <1>2, <3>1
    <3> QED
      BY <1>1, <1>5, <1>7, <3>2, <3>3
  <2> QED
    BY <1>5, <1>6, <2>1, <2>2, <2>3
<1>8. ASSUME NEW i \in 1..Len(events') PROVE events'[i] <= pos'
  <2>1. CASE i <= Len(a)
    <3>1. events'[i] = a[i] /\ a[i] <= pos /\ a[i] \in Nat
      BY <1>3, <1>5, <1>6, <2>1
    <3> QED
      BY <1>1, <1>4, <3>1
  <2>2. CASE i > Len(a)
    <3>1. i - Len(a) \in 1..Len(b) /\ events'[i] = b[i - Len(a)]
      BY <1>5, <1>6, <2>2
    <3> QED
      BY <1>2, <1>4, <3>1
  <2> QED
    BY <1>5, <1>6, <2>1, <2>2
<1> QED
  BY <1>7, <1>8 DEF OrderInv, EventsOnce

\* Only a drain touches the events and the position.
LEMMA OrderStep == TypeInv /\ OrderInv /\ [Next]_vars => OrderInv'
<1> SUFFICES ASSUME TypeInv, OrderInv, [Next]_vars PROVE OrderInv'
  OBVIOUS
<1>1. CASE Drain
  BY <1>1, DrainOrder
<1>2. CASE UNCHANGED <<events, pos>>
  BY <1>2 DEF OrderInv, EventsOnce
<1>3. Drain \/ UNCHANGED <<events, pos>>
  BY DEF Next, Goroutine, vars, tailing, LaunchFails, SkipGate, Park, Announce, Receive,
     StopWaiting, Deregister, Decide, ExecFails, Exec, StreamEnds, Finish, Report, TailPoll,
     TailStop, WriteLine, PlayEnds, PlayKilled, ResumeLookup, ResumeSend, Cancel, Deadline,
     Crash, Recover
<1> QED
  BY <1>1, <1>2, <1>3

\* Whatever polls, writes and cancels do, events are passed on once and in order.
THEOREM OnceInOrder == Spec => []EventsOnce
<1>1. Init => OrderInv
  BY EmptySeq DEF Init, OrderInv, EventsOnce
<1>2. OrderInv => EventsOnce
  BY DEF OrderInv
<1> QED
  BY <1>1, <1>2, TypeInit, TypeStep, OrderStep, PTL DEF Spec

\* The row is final before the end of the run is reported.
RowInv == pc \in {"reporting", "done"} => row \in Finals

\* One step per group of actions, by what they do to the row.
LEMMA RowStep == TypeInv /\ RowInv /\ [Next]_vars => RowInv'
<1> SUFFICES ASSUME TypeInv, RowInv, [Next]_vars PROVE RowInv'
  OBVIOUS
<1> USE DEF RowInv, Finals, Active
<1>1. CASE LaunchFails \/ SkipGate \/ Park \/ Announce \/ Receive \/ StopWaiting \/ Deregister
  BY <1>1 DEF LaunchFails, SkipGate, Park, Announce, Receive, StopWaiting, Deregister
<1>2. CASE Decide \/ ExecFails \/ Exec \/ StreamEnds
  BY <1>2 DEF Decide, ExecFails, Exec, StreamEnds
<1>3. CASE Finish \/ Report
  BY <1>3 DEF Finish, RowAtEnd, Report
<1>4. CASE TailPoll \/ TailStop \/ WriteLine \/ PlayEnds \/ PlayKilled
  BY <1>4 DEF TailPoll, TailStop, WriteLine, PlayEnds, PlayKilled
<1>5. ASSUME NEW u \in Users, ResumeLookup(u) PROVE RowInv'
  BY <1>5 DEF ResumeLookup
<1>6. ASSUME NEW u \in Users, NEW ok \in BOOLEAN, ResumeSend(u, ok) PROVE RowInv'
  BY <1>6 DEF ResumeSend
<1>7. CASE Cancel \/ Deadline \/ Crash
  BY <1>7 DEF Cancel, Deadline, Crash
<1>8. CASE Recover
  BY <1>8 DEF Recover, LeftBehind, TypeInv, TypeOK
<1>9. CASE UNCHANGED vars
  BY <1>9 DEF vars
<1> QED
  BY <1>1, <1>2, <1>3, <1>4, <1>5, <1>6, <1>7, <1>8, <1>9 DEF Next, Goroutine

\* However a run ends, in this process or in the next, its row is final then.
THEOREM NoZombies == Spec => []NoZombieRow
<1>1. Init => RowInv
  BY DEF Init, RowInv
<1>2. RowInv => NoZombieRow
  BY DEF RowInv, NoZombieRow
<1> QED
  BY <1>1, <1>2, TypeInit, TypeStep, RowStep, PTL DEF Spec
=============================================================================
