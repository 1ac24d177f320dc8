----------------------------- MODULE Scheduler -----------------------------
(***************************************************************************)
(* The cron schedulers of the backend: orchestrator/scheduler.go for       *)
(* runbooks and its twin ansible/scheduler.go for playbooks, each a loop   *)
(* that polls the table of schedules, a goroutine per fire, and operators  *)
(* who edit and delete schedules meanwhile.  The two differ in how the     *)
(* scheduler writes a schedule back: UPDATE (runbooks) or upsert (Ansible).*)
(* Time is counted in polling intervals.  Every table write is one SQL     *)
(* statement on the only connection, hence atomic.                         *)
(***************************************************************************)
EXTENDS Naturals, FiniteSets

CONSTANTS
    Schedules,  \* schedule ids
    Crons,      \* cron expressions, as periods: 2 is due at 2, 4, 6, ...; 0 is one
                \* that parses and is never due, such as the 30th of February
    DueTimes,   \* bound: the due times a request to save may carry
    Upserts,    \* saveScheduleRaw inserts a row that is gone (Ansible)
    MaxTime,    \* bound: the clock
    MaxBoots    \* bound: restarts

ASSUME CronsAssumption == Crons \subseteq Nat
ASSUME UpsertsAssumption == Upserts \in BOOLEAN
ASSUME DueTimesAssumption == DueTimes \subseteq Nat
ASSUME BoundsAssumption == MaxTime \in Nat \ {0} /\ MaxBoots \in Nat

VARIABLES
    now,      \* the clock
    seen,     \* the time the loop works with: read once per list
    boots,    \* restarts so far
    row,      \* the table: the schedule stored under each id, or None
    want,     \* what the last edit of each schedule that was answered asked for
    loop,     \* where the polling loop is
    todo,     \* the schedules of its last ListSchedules not looked at yet
    running,  \* s.running: ids with a fire in flight
    fires     \* the fire goroutines: [id, sc, at], see FireType

vars == <<now, seen, boots, row, want, loop, todo, running, fires>>

Fields == [enabled : BOOLEAN, cron : Crons, onStart : BOOLEAN]
None == [gone |-> TRUE]
Rows == [enabled : BOOLEAN, cron : Crons, onStart : BOOLEAN, next : Nat]
Listed == [id : Schedules, sc : Rows]
FireType == [id : Schedules, sc : Rows, at : {"start", "run", "end"}]
Loops == {"off", "boot", "anchor", "onstart", "firing", "idle", "tick"}

FieldsOf(sc) == [enabled |-> sc.enabled, cron |-> sc.cron, onStart |-> sc.onStart]

\* expr.Next: the first due time after t, 0 (the zero time) when there is none.
CronNext(c, t) == IF c = 0 THEN 0 ELSE c * (t \div c + 1)

\* Where the expression has a next time it becomes the due time; otherwise the due
\* time the schedule came with stays (the n.IsZero() tests).
Anchored(c, t, old) == IF CronNext(c, t) # 0 THEN CronNext(c, t) ELSE old

Exists(s) == row[s] # None
DueAt(sc, t) == sc.enabled /\ sc.next # 0 /\ t >= sc.next
Due(s) == Exists(s) /\ DueAt(row[s], now)
InFlight(s) == \E f \in fires : f.id = s

\* saveScheduleRaw: the whole schedule as the scheduler remembers it.
UpsertAlways(s, sc) == [row EXCEPT ![s] = sc]      \* mutant: a deleted row returns
Saved(s, sc) == IF Exists(s) \/ Upserts THEN [row EXCEPT ![s] = sc] ELSE row

\* ListSchedules.
WithEmpty == {[id |-> s, sc |-> row[s]] : s \in Schedules}   \* mutant: empty rows are listed
List == {[id |-> s, sc |-> row[s]] : s \in {t \in Schedules : Exists(t)}}

Init ==
    /\ now = 1 /\ seen = 0 /\ boots = 0
    /\ row = [s \in Schedules |-> None]
    /\ want = [s \in Schedules |-> None]
    /\ loop = "boot" /\ todo = {} /\ running = {} /\ fires = {}

-----------------------------------------------------------------------------
(* The operators.                                                          *)

\* PutSchedule: a new row or a new version of one, anchored at the current time.  The
\* request carries the due time its client knows: none for a new schedule, else the
\* one that was last shown, however old.
Put(s, u, carried) ==
    /\ loop # "off"
    /\ row' = [row EXCEPT ![s] =
         [enabled |-> u.enabled, cron |-> u.cron, onStart |-> u.onStart,
          next |-> IF u.enabled THEN Anchored(u.cron, now, carried) ELSE 0]]
    /\ want' = [want EXCEPT ![s] = u]
    /\ UNCHANGED <<now, seen, boots, loop, todo, running, fires>>

\* DeleteSchedule.
Delete(s) ==
    /\ loop # "off"
    /\ Exists(s)
    /\ row' = [row EXCEPT ![s] = None]
    /\ want' = [want EXCEPT ![s] = None]
    /\ UNCHANGED <<now, seen, boots, loop, todo, running, fires>>

-----------------------------------------------------------------------------
(* The loop: reanchor, runOnStart, then a tick per interval.               *)

\* The loop reads the table and goes on to the schedules it found.
ListInto(from, to) ==
    /\ loop = from
    /\ loop' = to
    /\ todo' = List
    /\ seen' = now
    /\ UNCHANGED <<now, boots, row, want, running, fires>>

\* The loop is done with its list.
Through(from, to) ==
    /\ loop = from
    /\ todo = {}
    /\ loop' = to
    /\ seen' = 0
    /\ UNCHANGED <<now, boots, row, want, todo, running, fires>>

Missed(sc) == sc.next = 0 \/ sc.next + 1 < seen

\* reanchor: a missed schedule moves to its next due time, if it has one.
Reanchor(e) ==
    /\ loop = "anchor"
    /\ e \in todo
    /\ todo' = todo \ {e}
    /\ row' = IF e.sc.enabled /\ Missed(e.sc) /\ CronNext(e.sc.cron, seen) # 0
              THEN Saved(e.id, [e.sc EXCEPT !.next = CronNext(e.sc.cron, seen)])
              ELSE row
    /\ UNCHANGED <<now, seen, boots, want, loop, running, fires>>

\* Whether the list entry is to be fired: flagged in runOnStart, due in a tick.
Wanted(e) == \/ loop = "firing" /\ e.sc.enabled /\ e.sc.onStart
             \/ loop = "tick" /\ DueAt(e.sc, seen)

EvenRunning(e) == FALSE             \* mutant: s.running is not consulted
Busy(e) == e.id \in running

\* Under s.mu: mark the schedule running and start its goroutine, or pass it over.
Start(e) ==
    /\ loop \in {"firing", "tick"}
    /\ e \in todo
    /\ todo' = todo \ {e}
    /\ IF Wanted(e) /\ ~Busy(e)
       THEN /\ running' = running \cup {e.id}
            /\ fires' = fires \cup {[id |-> e.id, sc |-> e.sc, at |-> "start"]}
       ELSE UNCHANGED <<running, fires>>
    /\ UNCHANGED <<now, seen, boots, row, want, loop>>

LoopStep ==
    \/ ListInto("boot", "anchor")
    \/ Through("anchor", "onstart")
    \/ ListInto("onstart", "firing")
    \/ Through("firing", "idle")
    \/ ListInto("idle", "tick")
    \/ Through("tick", "idle")
    \/ \E e \in todo : Reanchor(e) \/ Start(e)

-----------------------------------------------------------------------------
(* fire.                                                                   *)

NextKept(sc) == 0                           \* mutant: the time is not advanced
NextAfterFire(sc) == Anchored(sc.cron, now, sc.next)

\* Advance NextRunAt and save; then run, unless the runbook (or job) is gone or
\* not published.
Advance(f) ==
    /\ f.at = "start"
    /\ LET sc == [f.sc EXCEPT !.next = NextAfterFire(f.sc)] IN
         /\ row' = Saved(f.id, sc)
         /\ \E at \in {"run", "end"} :
               fires' = (fires \ {f}) \cup {[f EXCEPT !.sc = sc, !.at = at]}
    /\ UNCHANGED <<now, seen, boots, want, loop, todo, running>>

\* engine.Run returned: save the schedule again, with the result.
RunEnds(f) ==
    /\ f.at = "run"
    /\ row' = Saved(f.id, f.sc)
    /\ fires' = (fires \ {f}) \cup {[f EXCEPT !.at = "end"]}
    /\ UNCHANGED <<now, seen, boots, want, loop, todo, running>>

NotReleased(f) == running           \* mutant: the deferred delete is missing
RunningAfter(f) == running \ {f.id}

\* The deferred delete from s.running.
Release(f) ==
    /\ f.at = "end"
    /\ fires' = fires \ {f}
    /\ running' = RunningAfter(f)
    /\ UNCHANGED <<now, seen, boots, row, want, loop, todo>>

FireStep(s) == \E f \in fires : f.id = s /\ (Advance(f) \/ RunEnds(f) \/ Release(f))

-----------------------------------------------------------------------------
(* Around them: the clock, the end of the process and its restart.         *)

Pass ==
    /\ now < MaxTime
    /\ now' = now + 1
    /\ UNCHANGED <<seen, boots, row, want, loop, todo, running, fires>>

Exit ==
    /\ loop # "off"
    /\ loop' = "off" /\ todo' = {} /\ running' = {} /\ fires' = {}
    /\ seen' = 0
    /\ UNCHANGED <<now, boots, row, want>>

Boot ==
    /\ loop = "off"
    /\ boots < MaxBoots
    /\ boots' = boots + 1
    /\ loop' = "boot"
    /\ UNCHANGED <<now, seen, row, want, todo, running, fires>>

Next ==
    \/ \E s \in Schedules : \/ Delete(s) \/ FireStep(s)
                           \/ \E u \in Fields, carried \in DueTimes : Put(s, u, carried)
    \/ LoopStep
    \/ Pass \/ Exit \/ Boot

Spec == Init /\ [][Next]_vars

\* The ticker ticks, the loop and the fires are scheduled, and a run ends: it has
\* a deadline of six hours.
FairSpec == Spec /\ WF_vars(LoopStep) /\ \A s \in Schedules : WF_vars(FireStep(s))

-----------------------------------------------------------------------------
(* Correctness.                                                            *)

TypeOK ==
    /\ now \in 1..MaxTime /\ seen \in 0..MaxTime /\ boots \in 0..MaxBoots
    /\ row \in [Schedules -> Rows \cup {None}]
    /\ want \in [Schedules -> Fields \cup {None}]
    /\ loop \in Loops
    /\ todo \subseteq Listed
    /\ running \subseteq Schedules
    /\ fires \subseteq FireType

\* A schedule is never fired while an earlier fire of it is in flight, also when
\* the tick works on a list that was read before that fire (tick, runOnStart).
NoOverlap == \A f, g \in fires : f.id = g.id => f = g

\* What is stored is consistent whoever wrote it last, an operator or a fire with
\* an old copy: an enabled schedule has a due time of its own cron expression, where
\* that has any, and a disabled one has none (PutSchedule, saveScheduleRaw).
NextMatchesCron ==
    \A s \in Schedules : Exists(s) =>
        /\ row[s].enabled /\ row[s].cron # 0 => row[s].next > 0 /\ row[s].next % row[s].cron = 0
        /\ ~row[s].enabled => row[s].next = 0

\* A schedule an operator deleted stays deleted (DeleteSchedule).
DeletedStaysDeleted == \A s \in Schedules : want[s] = None => row[s] = None

\* "Schedule edits made through the API are picked up": see the run sched_lost_edit.
EditsKept ==
    \A s \in Schedules : Exists(s) /\ want[s] # None => FieldsOf(row[s]) = want[s]

\* What may take the due time of a schedule away without a fire of it: an edit, a
\* deletion, and reanchor, for one it found more than an interval late.
Edited(s) == \E u \in Fields, carried \in DueTimes : Put(s, u, carried)
FoundLate(s) ==
    loop = "anchor" /\ \E e \in todo : e.id = s /\ e.sc.enabled /\ e.sc.next + 1 < seen
MovedOn(s) == Due(s) /\ ~Due(s)'
NotSkipped ==
    \A s \in Schedules :
        MovedOn(s) => InFlight(s) \/ Edited(s) \/ Delete(s) \/ FoundLate(s)

\* A schedule that comes due is fired, unless the process ends first: nothing but an
\* edit, a deletion or reanchor's rule for late ones takes its due time away, and no
\* fire leaves it blocked.  The rule is no fire: what came due while the process was
\* down for more than an interval is skipped (README, section 6).
DueIsFired ==
    /\ [][NotSkipped]_vars
    /\ \A s \in Schedules : Due(s) ~> (InFlight(s) \/ ~Due(s) \/ loop = "off")
=============================================================================
