-------------------------- MODULE Scheduler_proofs --------------------------
(***************************************************************************)
(* Proofs about the schedulers, for any set of schedules and cron          *)
(* expressions, any clock and any number of restarts.                      *)
(***************************************************************************)
EXTENDS Scheduler, TLAPS

\* The next due time is a time, and so is one that stays for want of it.
LEMMA CronNextType ==
    \A c \in Crons, t, old \in Nat : CronNext(c, t) \in Nat /\ Anchored(c, t, old) \in Nat
<1> SUFFICES ASSUME NEW c \in Crons, NEW t \in Nat, NEW old \in Nat
             PROVE  CronNext(c, t) \in Nat /\ Anchored(c, t, old) \in Nat
  OBVIOUS
<1>1. c \in Nat /\ (c # 0 => t \div c \in Nat)
  BY CronsAssumption
<1>2. \A a, b \in Nat : a * b \in Nat
  OBVIOUS
<1>3. CronNext(c, t) \in Nat
  BY <1>1, <1>2 DEF CronNext
<1> QED
  BY <1>3 DEF Anchored

\* saveScheduleRaw changes one row, and brings none back when it is an UPDATE.
LEMMA SavedRow ==
  ASSUME row \in [Schedules -> Rows \cup {None}], NEW s \in Schedules, NEW sc \in Rows
  PROVE  /\ Saved(s, sc) \in [Schedules -> Rows \cup {None}]
         /\ ~Upserts => \A t \in Schedules : row[t] = None => Saved(s, sc)[t] = None
BY DEF Saved, Exists

\* One step per action: every variable keeps its type.
LEMMA TypeStep == TypeOK /\ [Next]_vars => TypeOK'
<1> SUFFICES ASSUME TypeOK, [Next]_vars PROVE TypeOK'
  OBVIOUS
<1> USE BoundsAssumption DEF TypeOK, Loops
<1>0. /\ now \in Nat /\ seen \in Nat
      /\ \A e \in todo : e.id \in Schedules /\ e.sc \in Rows /\ e.sc.cron \in Crons
      /\ \A f \in fires : f.id \in Schedules /\ f.sc \in Rows /\ f.sc.cron \in Crons
  BY DEF Listed, FireType, Rows
<1>1. ASSUME NEW s \in Schedules, NEW u \in Fields, NEW carried \in DueTimes, Put(s, u, carried)
      PROVE  TypeOK'
  <2>1. [enabled |-> u.enabled, cron |-> u.cron, onStart |-> u.onStart,
         next |-> IF u.enabled THEN Anchored(u.cron, now, carried) ELSE 0] \in Rows
    BY <1>0, CronNextType, DueTimesAssumption DEF Fields, Rows
  <2> QED
    BY <1>1, <2>1 DEF Put
<1>2. ASSUME NEW s \in Schedules, Delete(s) PROVE TypeOK'
  BY <1>2 DEF Delete
<1>3. ASSUME NEW from \in Loops, NEW to \in Loops, ListInto(from, to) PROVE TypeOK'
  BY <1>3 DEF ListInto, List, Listed, Exists
<1>4. ASSUME NEW from \in Loops, NEW to \in Loops, Through(from, to) PROVE TypeOK'
  BY <1>4 DEF Through
<1>5. ASSUME NEW e \in todo, Reanchor(e) PROVE TypeOK'
  <2> DEFINE sc == [e.sc EXCEPT !.next = CronNext(e.sc.cron, seen)]
  <2>1. sc \in Rows
    BY <1>0, CronNextType DEF Rows
  <2> HIDE DEF sc
  <2>2. Saved(e.id, sc) \in [Schedules -> Rows \cup {None}]
    BY <1>0, <2>1, SavedRow
  <2>3. row' = Saved(e.id, sc) \/ row' = row
    BY <1>5 DEF Reanchor, sc
  <2> QED
    BY <1>5, <2>2, <2>3 DEF Reanchor
<1>6. ASSUME NEW e \in todo, Start(e) PROVE TypeOK'
  BY <1>0, <1>6 DEF Start, FireType
<1>7. ASSUME NEW f \in fires, Advance(f) PROVE TypeOK'
  <2> DEFINE sc == [f.sc EXCEPT !.next = NextAfterFire(f.sc)]
  <2>1. sc \in Rows
    <3>1. f.sc \in Rows /\ f.sc.next \in Nat
      BY <1>0 DEF Rows
    <3> QED
      BY <1>0, <3>1, CronNextType DEF Rows, NextAfterFire
  <2>2. \A at \in {"run", "end"} : [f EXCEPT !.sc = sc, !.at = at] \in FireType
    BY <2>1 DEF FireType
  <2> HIDE DEF sc
  <2>3. Saved(f.id, sc) \in [Schedules -> Rows \cup {None}]
    BY <1>0, <2>1, SavedRow
  <2>4. row' = Saved(f.id, sc) /\ fires' \subseteq FireType
    BY <1>7, <2>2 DEF Advance, sc
  <2> QED
    BY <1>7, <2>3, <2>4 DEF Advance
<1>8. ASSUME NEW f \in fires, RunEnds(f) PROVE TypeOK'
  <2>1. Saved(f.id, f.sc) \in [Schedules -> Rows \cup {None}]
    BY <1>0, SavedRow
  <2>2. [f EXCEPT !.at = "end"] \in FireType
    BY DEF FireType
  <2> QED
    BY <1>8, <2>1, <2>2 DEF RunEnds
<1>9. ASSUME NEW f \in fires, Release(f) PROVE TypeOK'
  BY <1>9 DEF Release, RunningAfter
<1>10. CASE Pass
  BY <1>10 DEF Pass
<1>11. CASE Exit
  BY <1>11 DEF Exit
<1>12. CASE Boot
  BY <1>12 DEF Boot
<1>13. CASE UNCHANGED vars
  BY <1>13 DEF vars
<1>14. CASE LoopStep
  BY <1>14, <1>3, <1>4, <1>5, <1>6 DEF LoopStep
<1> QED
  BY <1>1, <1>2, <1>7, <1>8, <1>9, <1>10, <1>11, <1>12, <1>13, <1>14 DEF Next, FireStep

\* Every variable of the scheduler keeps its type.
THEOREM TypeCorrect == Spec => []TypeOK
<1>1. Init => TypeOK
  BY BoundsAssumption DEF Init, TypeOK, Loops
<1> QED
  BY <1>1, TypeStep, PTL DEF Spec

-----------------------------------------------------------------------------
(* NoOverlap is not inductive by itself: s.running must cover every fire.  *)

Inv ==
    /\ TypeOK
    /\ \A f \in fires : f.id \in running
    /\ NoOverlap

\* A fire is only started for an id that is not running, and the id is released
\* by the last step of its only fire.
LEMMA OverlapStep == Inv /\ [Next]_vars => Inv'
<1> SUFFICES ASSUME Inv, [Next]_vars PROVE Inv'
  OBVIOUS
<1>0. TypeOK /\ TypeOK'
  BY TypeStep DEF Inv
<1> USE <1>0 DEF Inv, NoOverlap
<1>1. ASSUME NEW e \in todo, Start(e) PROVE Inv'
  BY <1>1 DEF Start, Busy
<1>2. ASSUME NEW f \in fires, Advance(f) \/ RunEnds(f) PROVE Inv'
  <2>1. running' = running
    BY <1>2 DEF Advance, RunEnds
  <2>2. \E g : fires' = (fires \ {f}) \cup {g} /\ g.id = f.id
    <3>0. f \in FireType
      BY DEF TypeOK
    <3>1. CASE Advance(f)
      <4> DEFINE sc == [f.sc EXCEPT !.next = NextAfterFire(f.sc)]
      <4>1. PICK at \in {"run", "end"} :
               fires' = (fires \ {f}) \cup {[f EXCEPT !.sc = sc, !.at = at]}
        BY <3>1 DEF Advance
      <4>2. [f EXCEPT !.sc = sc, !.at = at].id = f.id
        BY <3>0 DEF FireType
      <4> HIDE DEF sc
      <4> QED
        BY <4>1, <4>2
    <3>2. CASE RunEnds(f)
      <4>1. [f EXCEPT !.at = "end"].id = f.id
        BY <3>0 DEF FireType
      <4> QED
        BY <3>2, <4>1 DEF RunEnds
    <3> QED
      BY <1>2, <3>1, <3>2
  <2> QED
    BY <2>1, <2>2
<1>3. ASSUME NEW f \in fires, Release(f) PROVE Inv'
  BY <1>3 DEF Release, RunningAfter
<1>4. CASE Exit
  BY <1>4 DEF Exit
<1>5. ASSUME UNCHANGED <<running, fires>> PROVE Inv'
  BY <1>5
<1>6. ASSUME NEW s \in Schedules, NEW u \in Fields, NEW carried \in DueTimes, Put(s, u, carried)
      PROVE  Inv'
  BY <1>5, <1>6 DEF Put
<1>7. CASE LoopStep
  BY <1>1, <1>5, <1>7 DEF LoopStep, ListInto, Through, Reanchor
<1>8. CASE Pass \/ Boot \/ UNCHANGED vars
  BY <1>5, <1>8 DEF Pass, Boot, vars
<1>9. ASSUME NEW s \in Schedules, Delete(s) PROVE Inv'
  BY <1>5, <1>9 DEF Delete
<1> QED
  BY <1>2, <1>3, <1>4, <1>6, <1>7, <1>8, <1>9 DEF Next, FireStep

\* No schedule is fired while an earlier fire of it is in flight (tick, runOnStart
\* and the deferred delete of fire).
THEOREM NeverOverlaps == Spec => []NoOverlap
<1>1. Init => Inv
  BY BoundsAssumption DEF Init, Inv, TypeOK, NoOverlap, Loops
<1>2. Inv => NoOverlap
  BY DEF Inv
<1> QED
  BY <1>1, <1>2, OverlapStep, PTL DEF Spec

\* With UPDATE as its write the scheduler never brings a deleted schedule back
\* (orchestrator's saveScheduleRaw; that of Ansible is an upsert and does).
THEOREM StaysDeleted == ~Upserts /\ Spec => []DeletedStaysDeleted
<1> DEFINE J == TypeOK /\ DeletedStaysDeleted
<1>1. Init => J
  BY BoundsAssumption DEF Init, TypeOK, DeletedStaysDeleted, Loops
<1>2. ~Upserts /\ J /\ [Next]_vars => J'
  <2> SUFFICES ASSUME ~Upserts, J, [Next]_vars PROVE DeletedStaysDeleted'
    BY TypeStep
  <2> USE DEF DeletedStaysDeleted
  <2>0. row \in [Schedules -> Rows \cup {None}] /\ want \in [Schedules -> Fields \cup {None}]
    BY DEF TypeOK
  <2>1. ASSUME want' = want, \A t \in Schedules : row[t] = None => row'[t] = None
        PROVE  DeletedStaysDeleted'
    BY <2>1
  <2>2. ASSUME NEW s \in Schedules, NEW u \in Fields, NEW carried \in DueTimes, Put(s, u, carried)
      PROVE  DeletedStaysDeleted'
    <3>1. u # None
      BY DEF Fields, None
    <3> QED
      BY <2>0, <2>2, <3>1 DEF Put
  <2>3. ASSUME NEW s \in Schedules, Delete(s) PROVE DeletedStaysDeleted'
    BY <2>0, <2>3 DEF Delete
  <2>4. ASSUME NEW e \in todo, Reanchor(e) PROVE DeletedStaysDeleted'
    <3>1. e.id \in Schedules /\ e.sc \in Rows /\ seen \in Nat /\ e.sc.cron \in Crons
      BY BoundsAssumption DEF TypeOK, Listed, Rows
    <3>2. [e.sc EXCEPT !.next = CronNext(e.sc.cron, seen)] \in Rows
      BY <3>1, CronNextType DEF Rows
    <3> QED
      BY <2>0, <2>1, <2>4, <3>1, <3>2, SavedRow DEF Reanchor
  <2>5. ASSUME NEW f \in fires, Advance(f) PROVE DeletedStaysDeleted'
    <3>1. f.id \in Schedules /\ f.sc \in Rows /\ now \in Nat /\ f.sc.cron \in Crons
      BY BoundsAssumption DEF TypeOK, FireType, Rows
    <3>2. [f.sc EXCEPT !.next = NextAfterFire(f.sc)] \in Rows
      <4>1. f.sc.next \in Nat
        BY <3>1 DEF Rows
      <4> QED
        BY <3>1, <4>1, CronNextType DEF Rows, NextAfterFire
    <3> QED
      BY <2>0, <2>1, <2>5, <3>1, <3>2, SavedRow DEF Advance
  <2>6. ASSUME NEW f \in fires, RunEnds(f) PROVE DeletedStaysDeleted'
    <3>1. f.id \in Schedules /\ f.sc \in Rows
      BY DEF TypeOK, FireType
    <3> QED
      BY <2>0, <2>1, <2>6, <3>1, SavedRow DEF RunEnds
  <2>7. ASSUME UNCHANGED <<row, want>> PROVE DeletedStaysDeleted'
    BY <2>7
  <2>8. CASE LoopStep
    BY <2>4, <2>7, <2>8 DEF LoopStep, ListInto, Through, Start
  <2>9. ASSUME NEW f \in fires, Release(f) PROVE DeletedStaysDeleted'
    BY <2>7, <2>9 DEF Release
  <2>10. CASE Pass \/ Exit \/ Boot \/ UNCHANGED vars
    BY <2>7, <2>10 DEF Pass, Exit, Boot, vars
  <2> QED
    BY <2>2, <2>3, <2>5, <2>6, <2>8, <2>9, <2>10 DEF Next, FireStep
<1> QED
  <2> SUFFICES ASSUME ~Upserts PROVE Spec => []DeletedStaysDeleted
    OBVIOUS
  <2>1. J /\ [Next]_vars => J'
    BY <1>2
  <2>2. J => DeletedStaysDeleted
    OBVIOUS
  <2> QED
    BY <1>1, <2>1, <2>2, PTL DEF Spec

-----------------------------------------------------------------------------
(* What is stored fits its cron expression.  The copies in the loop's list  *)
(* and in the fires must fit theirs, since any of them may be saved last.   *)

FitsCron(sc) == /\ sc.enabled /\ sc.cron # 0 => sc.next > 0 /\ sc.next % sc.cron = 0
                /\ ~sc.enabled => sc.next = 0

CopiesFit ==
    /\ \A s \in Schedules : Exists(s) => FitsCron(row[s])
    /\ \A e \in todo : FitsCron(e.sc)
    /\ \A f \in fires : f.sc.enabled /\ FitsCron(f.sc)

\* A due time that is set again is one of its cron expression, where that has any.
LEMMA AnchoredFits ==
  ASSUME NEW c \in Crons, NEW t \in Nat, NEW old \in Nat, c # 0
  PROVE  /\ CronNext(c, t) # 0 /\ Anchored(c, t, old) = CronNext(c, t)
         /\ Anchored(c, t, old) > 0 /\ Anchored(c, t, old) % c = 0
<1>1. c \in Nat \ {0} /\ t \div c \in Nat
  BY CronsAssumption
<1>2. \A k \in Nat : c * (k + 1) \in Nat /\ c * (k + 1) > 0 /\ (c * (k + 1)) % c = 0
  BY <1>1
<1>3. CronNext(c, t) > 0 /\ CronNext(c, t) % c = 0 /\ CronNext(c, t) \in Nat
  BY <1>1, <1>2 DEF CronNext
<1> QED
  BY <1>3 DEF Anchored

\* An expression that is never due has no next time.
LEMMA NeverDue == \A t : CronNext(0, t) = 0
BY DEF CronNext

\* A schedule that is enabled fits after its due time was set again.
LEMMA Refit ==
  ASSUME NEW sc \in Rows, sc.enabled, NEW n \in Nat,
         sc.cron # 0 => n > 0 /\ n % sc.cron = 0
  PROVE  /\ [sc EXCEPT !.next = n] \in Rows
         /\ [sc EXCEPT !.next = n].enabled
         /\ FitsCron([sc EXCEPT !.next = n])
<1> DEFINE new == [sc EXCEPT !.next = n]
<1>1. new \in Rows /\ new.enabled = sc.enabled /\ new.cron = sc.cron /\ new.next = n
  BY DEF Rows
<1> HIDE DEF new
<1>2. FitsCron(new)
  BY <1>1 DEF FitsCron
<1> QED
  BY <1>1, <1>2 DEF new

\* The schedule a fire goes on with fits.
LEMMA AdvancedFits ==
  ASSUME NEW sc \in Rows, sc.enabled, now \in Nat
  PROVE  /\ [sc EXCEPT !.next = NextAfterFire(sc)] \in Rows
         /\ [sc EXCEPT !.next = NextAfterFire(sc)].enabled
         /\ FitsCron([sc EXCEPT !.next = NextAfterFire(sc)])
<1>1. sc.cron \in Crons /\ sc.next \in Nat
  BY DEF Rows
<1>2. NextAfterFire(sc) \in Nat
  BY <1>1, CronNextType DEF NextAfterFire
<1>3. sc.cron # 0 => NextAfterFire(sc) > 0 /\ NextAfterFire(sc) % sc.cron = 0
  BY <1>1, AnchoredFits DEF NextAfterFire
<1> QED
  BY <1>2, <1>3, Refit

\* Saving a copy that fits keeps the table fit.
LEMMA SavedFits ==
  ASSUME row \in [Schedules -> Rows \cup {None}], CopiesFit,
         NEW s \in Schedules, NEW sc \in Rows, FitsCron(sc), row' = Saved(s, sc)
  PROVE  \A t \in Schedules : (Exists(t) => FitsCron(row[t]))'
<1> SUFFICES ASSUME NEW t \in Schedules, row'[t] # None PROVE FitsCron(row'[t])
  BY DEF Exists, FitsCron
<1>1. row'[t] = row[t] \/ row'[t] = sc
  BY DEF Saved
<1>2. CASE row'[t] = sc
  BY <1>2
<1>3. CASE row'[t] = row[t]
  BY <1>3 DEF CopiesFit, Exists
<1> QED
  BY <1>1, <1>2, <1>3

LEMMA CopiesStep == TypeOK /\ CopiesFit /\ [Next]_vars => CopiesFit'
<1> SUFFICES ASSUME TypeOK, CopiesFit, [Next]_vars PROVE CopiesFit'
  OBVIOUS
<1>0. /\ row \in [Schedules -> Rows \cup {None}] /\ now \in Nat /\ seen \in Nat
      /\ \A e \in todo : e.id \in Schedules /\ e.sc \in Rows
      /\ \A f \in fires : f \in FireType /\ f.id \in Schedules /\ f.sc \in Rows
  BY BoundsAssumption DEF TypeOK, Listed, FireType
<1>1. ASSUME UNCHANGED <<row, fires>>, \A e \in todo' : FitsCron(e.sc) PROVE CopiesFit'
  BY <1>1 DEF CopiesFit, Exists, FitsCron
<1>2. ASSUME UNCHANGED row, todo' \subseteq todo,
             \A f \in fires' : f.sc.enabled /\ FitsCron(f.sc)
      PROVE  CopiesFit'
  BY <1>2 DEF CopiesFit, Exists, FitsCron
<1>3. ASSUME UNCHANGED <<todo, fires>>, \A t \in Schedules : (Exists(t) => FitsCron(row[t]))'
      PROVE  CopiesFit'
  BY <1>3 DEF CopiesFit, FitsCron
<1>4. ASSUME NEW s \in Schedules, NEW u \in Fields, NEW carried \in DueTimes, Put(s, u, carried)
      PROVE  CopiesFit'
  <2> DEFINE n == IF u.enabled THEN Anchored(u.cron, now, carried) ELSE 0
             new == [enabled |-> u.enabled, cron |-> u.cron, onStart |-> u.onStart, next |-> n]
  <2>1. u.cron \in Crons /\ carried \in Nat
    BY DueTimesAssumption DEF Fields
  <2>2. u.enabled /\ u.cron # 0 => n > 0 /\ n % u.cron = 0
    BY <1>0, <2>1, AnchoredFits
  <2>3. ~u.enabled => n = 0
    OBVIOUS
  <2>4. row' = [row EXCEPT ![s] = new] /\ UNCHANGED <<todo, fires>>
    BY <1>4 DEF Put
  <2> HIDE DEF n
  <2>5. FitsCron(new)
    BY <2>2, <2>3 DEF FitsCron
  <2> HIDE DEF new
  <2>6. \A t \in Schedules : (Exists(t) => FitsCron(row[t]))'
    BY <1>0, <2>4, <2>5 DEF CopiesFit, Exists, FitsCron
  <2> QED
    BY <1>3, <2>4, <2>6
<1>5. ASSUME NEW s \in Schedules, Delete(s) PROVE CopiesFit'
  <2>1. \A t \in Schedules : (Exists(t) => FitsCron(row[t]))'
    BY <1>0, <1>5 DEF Delete, CopiesFit, Exists, FitsCron
  <2> QED
    BY <1>3, <1>5, <2>1 DEF Delete
<1>6. ASSUME NEW from, NEW to, ListInto(from, to) PROVE CopiesFit'
  <2>1. \A e \in todo' : FitsCron(e.sc)
    <3> SUFFICES ASSUME NEW e \in List PROVE FitsCron(e.sc)
      BY <1>6 DEF ListInto
    <3>1. PICK s \in Schedules : Exists(s) /\ e = [id |-> s, sc |-> row[s]]
      BY DEF List
    <3> QED
      BY <3>1 DEF CopiesFit
  <2> QED
    BY <1>1, <1>6, <2>1 DEF ListInto
<1>7. ASSUME NEW e \in todo, Reanchor(e) PROVE CopiesFit'
  <2>1. \A t \in Schedules : (Exists(t) => FitsCron(row[t]))'
    <3> DEFINE again == e.sc.enabled /\ Missed(e.sc) /\ CronNext(e.sc.cron, seen) # 0
    <3>1. CASE again
      <4> DEFINE new == [e.sc EXCEPT !.next = CronNext(e.sc.cron, seen)]
      <4>1. e.sc \in Rows /\ e.sc.cron \in Crons /\ e.sc.next \in Nat
        BY <1>0 DEF Rows
      <4>2. e.sc.cron # 0
        BY <3>1, NeverDue
      <4>3. CronNext(e.sc.cron, seen) > 0 /\ CronNext(e.sc.cron, seen) % e.sc.cron = 0
        BY <1>0, <4>1, <4>2, AnchoredFits
      <4>4. CronNext(e.sc.cron, seen) \in Nat
        BY <1>0, <4>1, CronNextType
      <4>5. new \in Rows /\ FitsCron(new)
        BY <3>1, <4>1, <4>3, <4>4, Refit
      <4>6. row' = Saved(e.id, new)
        BY <1>7, <3>1 DEF Reanchor
      <4> HIDE DEF new
      <4> QED
        BY <1>0, <4>5, <4>6, SavedFits
    <3>2. CASE ~again
      <4>1. row' = row
        BY <1>7, <3>2 DEF Reanchor
      <4> QED
        BY <4>1 DEF CopiesFit, Exists, FitsCron
    <3> QED
      BY <3>1, <3>2
  <2>2. todo' \subseteq todo /\ fires' = fires
    BY <1>7 DEF Reanchor
  <2> QED
    BY <2>1, <2>2 DEF CopiesFit, FitsCron
<1>8. ASSUME NEW e \in todo, Start(e) PROVE CopiesFit'
  <2>1. \A f \in fires' : f.sc.enabled /\ FitsCron(f.sc)
    <3>1. CASE Wanted(e) /\ ~Busy(e)
      <4>1. e.sc.enabled /\ FitsCron(e.sc)
        BY <3>1 DEF Wanted, DueAt, CopiesFit
      <4>2. fires' = fires \cup {[id |-> e.id, sc |-> e.sc, at |-> "start"]}
        BY <1>8, <3>1 DEF Start
      <4> QED
        BY <4>1, <4>2 DEF CopiesFit
    <3>2. CASE ~(Wanted(e) /\ ~Busy(e))
      BY <1>8, <3>2 DEF Start, CopiesFit
    <3> QED
      BY <3>1, <3>2
  <2>2. UNCHANGED row /\ todo' \subseteq todo
    BY <1>8 DEF Start
  <2> QED
    BY <1>2, <2>1, <2>2
<1>9. ASSUME NEW f \in fires, Advance(f) PROVE CopiesFit'
  <2> DEFINE new == [f.sc EXCEPT !.next = NextAfterFire(f.sc)]
  <2>1. new \in Rows /\ new.enabled /\ FitsCron(new)
    BY <1>0, AdvancedFits DEF CopiesFit
  <2>2. row' = Saved(f.id, new) /\ todo' = todo
    BY <1>9 DEF Advance
  <2>3. PICK at \in {"run", "end"} :
           fires' = (fires \ {f}) \cup {[f EXCEPT !.sc = new, !.at = at]}
    BY <1>9 DEF Advance
  <2> HIDE DEF new
  <2>4. [f EXCEPT !.sc = new, !.at = at].sc = new
    BY <1>0 DEF FireType
  <2>5. \A g \in fires' : g.sc.enabled /\ FitsCron(g.sc)
    BY <2>1, <2>3, <2>4 DEF CopiesFit
  <2>6. \A t \in Schedules : (Exists(t) => FitsCron(row[t]))'
    BY <1>0, <2>1, <2>2, SavedFits
  <2> QED
    BY <2>2, <2>5, <2>6 DEF CopiesFit, FitsCron
<1>10. ASSUME NEW f \in fires, RunEnds(f) PROVE CopiesFit'
  <2>1. f.sc.enabled /\ FitsCron(f.sc) /\ [f EXCEPT !.at = "end"].sc = f.sc
    BY <1>0 DEF CopiesFit, FireType
  <2>2. /\ row' = Saved(f.id, f.sc) /\ todo' = todo
        /\ fires' = (fires \ {f}) \cup {[f EXCEPT !.at = "end"]}
    BY <1>10 DEF RunEnds
  <2>3. \A g \in fires' : g.sc.enabled /\ FitsCron(g.sc)
    BY <2>1, <2>2 DEF CopiesFit
  <2>4. \A t \in Schedules : (Exists(t) => FitsCron(row[t]))'
    BY <1>0, <2>1, <2>2, SavedFits
  <2> QED
    BY <2>2, <2>3, <2>4 DEF CopiesFit, FitsCron
<1>11. ASSUME NEW f \in fires, Release(f) PROVE CopiesFit'
  BY <1>2, <1>11 DEF Release, CopiesFit
<1>12. CASE LoopStep
  <2>1. ASSUME NEW from, NEW to, Through(from, to) PROVE CopiesFit'
    BY <1>1, <2>1 DEF Through, CopiesFit
  <2> QED
    BY <1>6, <1>7, <1>8, <1>12, <2>1 DEF LoopStep
<1>13. CASE Exit
  BY <1>2, <1>13 DEF Exit
<1>14. CASE Pass \/ Boot \/ UNCHANGED vars
  BY <1>1, <1>14 DEF Pass, Boot, vars, CopiesFit
<1> QED
  BY <1>4, <1>5, <1>9, <1>10, <1>11, <1>12, <1>13, <1>14 DEF Next, FireStep

\* An enabled schedule is stored with a due time of its own cron expression, where that has any,
\* and a disabled one with none, also when a fire or reanchor writes back an old copy
\* (PutSchedule, saveScheduleRaw).
THEOREM NextFitsCron == Spec => []NextMatchesCron
<1>1. Init => TypeOK /\ CopiesFit
  BY BoundsAssumption DEF Init, TypeOK, Loops, CopiesFit, Exists
<1>2. CopiesFit => NextMatchesCron
  BY DEF CopiesFit, NextMatchesCron, FitsCron
<1> QED
  BY <1>1, <1>2, TypeStep, CopiesStep, PTL DEF Spec

-----------------------------------------------------------------------------
(* No due time is taken away in silence.                                   *)

\* A write to one row leaves the due times of the others alone.
LEMMA OthersStayDue ==
  ASSUME row \in [Schedules -> Rows \cup {None}], now' = now,
         NEW s \in Schedules, NEW x, row' = [row EXCEPT ![s] = x] \/ row' = row,
         NEW t \in Schedules, MovedOn(t)
  PROVE  t = s
BY DEF MovedOn, Due, DueAt, Exists

LEMMA NotSkippedStep == TypeOK /\ CopiesFit /\ [Next]_vars => NotSkipped
<1> SUFFICES ASSUME TypeOK, CopiesFit, [Next]_vars,
                    NEW s \in Schedules, MovedOn(s)
             PROVE  InFlight(s) \/ Edited(s) \/ Delete(s) \/ FoundLate(s)
  BY DEF NotSkipped
<1>0. /\ row \in [Schedules -> Rows \cup {None}] /\ now \in Nat /\ seen \in Nat
      /\ \A e \in todo : e.id \in Schedules /\ e.sc \in Rows /\ FitsCron(e.sc)
      /\ \A f \in fires : f.id \in Schedules
  BY BoundsAssumption DEF TypeOK, Listed, FireType, CopiesFit
<1>1. ASSUME UNCHANGED <<row, now>> PROVE FALSE
  BY <1>1 DEF MovedOn, Due, DueAt, Exists
<1>2. ASSUME NEW t \in Schedules, NEW u \in Fields, NEW carried \in DueTimes, Put(t, u, carried)
      PROVE  Edited(s)
  <2>1. t = s
    BY <1>0, <1>2, OthersStayDue DEF Put
  <2> QED
    BY <1>2, <2>1 DEF Edited
<1>3. ASSUME NEW t \in Schedules, Delete(t) PROVE Delete(s)
  <2>1. t = s
    BY <1>0, <1>3, OthersStayDue DEF Delete
  <2> QED
    BY <1>3, <2>1
<1>4. ASSUME NEW e \in todo, Reanchor(e) PROVE FoundLate(s)
  <2>1. e.sc.enabled /\ Missed(e.sc) /\ CronNext(e.sc.cron, seen) # 0
    BY <1>1, <1>4 DEF Reanchor
  <2>2. e.id = s
    <3>1. \E x : row' = [row EXCEPT ![e.id] = x] \/ row' = row
      BY <1>4 DEF Reanchor, Saved
    <3>2. now' = now
      BY <1>4 DEF Reanchor
    <3> QED
      BY <1>0, <3>1, <3>2, OthersStayDue
  <2>3. e.sc.cron # 0
    BY <2>1, NeverDue
  <2>4. e.sc.next # 0
    BY <1>0, <2>1, <2>3 DEF FitsCron
  <2> QED
    BY <1>4, <2>1, <2>2, <2>4 DEF FoundLate, Missed, Reanchor
<1>5. ASSUME NEW f \in fires, Advance(f) \/ RunEnds(f) PROVE InFlight(s)
  <2>1. \E x : row' = [row EXCEPT ![f.id] = x] \/ row' = row
    BY <1>5 DEF Advance, RunEnds, Saved
  <2>2. now' = now
    BY <1>5 DEF Advance, RunEnds
  <2>3. f.id = s
    BY <1>0, <2>1, <2>2, OthersStayDue
  <2> QED
    BY <2>3 DEF InFlight
<1>6. ASSUME NEW f \in fires, Release(f) PROVE FALSE
  BY <1>1, <1>6 DEF Release
<1>7. ASSUME Pass PROVE FALSE
  BY <1>0, <1>7 DEF Pass, MovedOn, Due, DueAt, Exists, Rows
<1>8. CASE LoopStep
  BY <1>1, <1>4, <1>8 DEF LoopStep, ListInto, Through, Start
<1>9. CASE Exit \/ Boot \/ UNCHANGED vars
  BY <1>1, <1>9 DEF Exit, Boot, vars
<1> QED
  BY <1>2, <1>3, <1>5, <1>6, <1>7, <1>8, <1>9 DEF Next, FireStep

\* The due time of a schedule that is due goes away only with a fire in flight, an edit, a
\* deletion, or because reanchor found it more than an interval late (fire, PutSchedule,
\* DeleteSchedule, reanchor): the safety half of DueIsFired.
THEOREM NothingSkipped == Spec => [][NotSkipped]_vars
<1>1. Init => TypeOK /\ CopiesFit
  BY BoundsAssumption DEF Init, TypeOK, Loops, CopiesFit, Exists
<1>2. TypeOK /\ CopiesFit /\ [Next]_vars => [NotSkipped]_vars
  BY NotSkippedStep
<1> QED
  BY <1>1, <1>2, TypeStep, CopiesStep, PTL DEF Spec
=============================================================================
