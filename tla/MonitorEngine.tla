--------------------------- MODULE MonitorEngine ---------------------------
(***************************************************************************)
(* The monitors of the backend (internal/monitor/engine.go and store.go,   *)
(* api/monitor.go): one goroutine per enabled monitor probes it on its     *)
(* interval, while the handlers of the API edit, pause, resume, mute,      *)
(* delete and probe it.  Both work on the rows of monitor.db through a     *)
(* single connection: a statement is atomic, a handler or a tick is not.   *)
(* A statement that only follows another of the same step (the sample and  *)
(* the row of recordCheck, the four deletions of Delete) is one with it.   *)
(* Time is the number of probes answered.                                  *)
(***************************************************************************)
EXTENDS Naturals, Sequences, FiniteSets

CONSTANTS
    Monitors,      \* monitor ids
    Populations,   \* the sets of monitors there may be at first
    DependsOn,     \* monitor: the one it depends on, or Nobody
    Thresholds,    \* values of failThreshold
    AlertAfter,    \* alertAfterSec, in probes
    RenotifyEvery, \* renotifyEverySec, in probes (0: once)
    MaxProbes,     \* bound: probes answered
    MaxJobs,       \* bound: loops and manual checks started
    MaxOps,        \* bound: requests of users, and crashes (none where every monitor is there)
    MaxRacing,     \* bound: requests in a history where steps of one monitor overlap
    RacingProbes   \* bound: probes answered in such a history

Nobody == "nobody"

VARIABLES
    rows,      \* monitor: its row
    samples,   \* monitor: the outcomes of its probes, oldest first
    incidents, \* the incident log: monitor, when it started, whether it is open and suppressed
    loops,     \* monitor: the job Engine.loops can cancel, 0 when none
    jobs,      \* the loops and the manual checks started, in order
    calls,     \* handlers between two of their steps
    notices,   \* the alerts given to the notifier since the process started
    now,       \* probes answered
    ops,       \* requests made
    overlapped, \* history: whether two steps of one monitor were ever under way at once
    paused     \* history: monitors paused while down since their last recovery

monVars == <<rows, samples, incidents, loops, jobs, calls, notices, now, ops, overlapped, paused>>

\* A job: a loop or a manual check, its position, whether its context is cancelled, its loopState, and what
\* the tick under way has read and found (nothing between two ticks).
NoRow == [here |-> FALSE, enabled |-> FALSE, status |-> "unknown", threshold |-> 0, muted |-> 0]
NothingRead == [row |-> NoRow, ok |-> FALSE, t |-> 0, status |-> "unknown", suppressed |-> FALSE]
Ended(m) == [mon |-> m, kind |-> "loop", at |-> "end", dead |-> TRUE, first |-> FALSE, fails |-> 0, downSince |-> 0, alerted |-> FALSE,
             last |-> 0, seen |-> NothingRead]
Started(m, kind) == [Ended(m) EXCEPT !.kind = kind, !.at = IF kind = "loop" THEN "seed" ELSE "get", !.dead = FALSE, !.first = TRUE]

MonInit ==
    /\ \E there \in Populations : rows = [m \in Monitors |-> [here |-> m \in there, enabled |-> TRUE, status |-> "unknown", threshold |-> CHOOSE n \in Thresholds : TRUE, muted |-> 0]]
    /\ samples = [m \in Monitors |-> <<>>]
    /\ incidents = {} /\ calls = {} /\ notices = <<>> /\ now = 0 /\ ops = 0 /\ overlapped = FALSE /\ paused = {}
    /\ loops = [m \in Monitors |-> 0] /\ jobs = <<>>

-----------------------------------------------------------------------------
(* Reload and Stop: each holds the mutex for one step of its own.          *)

Cancelled(m) == IF loops[m] = 0 THEN jobs ELSE [jobs EXCEPT ![loops[m]].dead = TRUE]
StopForgets(m) == /\ jobs' = jobs
                  /\ loops' = [loops EXCEPT ![m] = 0]
Stop(m) == /\ jobs' = Cancelled(m)
           /\ loops' = [loops EXCEPT ![m] = 0]
StartLoop(m) ==
    /\ Len(jobs) < MaxJobs
    /\ jobs' = Append(jobs, Started(m, "loop"))
    /\ loops' = [loops EXCEPT ![m] = Len(jobs) + 1]

\* Start: every enabled monitor is reloaded when the process starts.
Boot ==
    /\ jobs = <<>> /\ calls = {}
    /\ calls' = {[do |-> "reload", mon |-> m, row |-> NoRow, enabled |-> TRUE, threshold |-> 0] : m \in {m \in Monitors : rows[m].here /\ rows[m].enabled}}
    /\ UNCHANGED <<rows, samples, incidents, loops, jobs, notices, now, ops, paused>>
MayAsk == jobs # <<>> /\ ops < MaxOps /\ \E m \in Monitors : ~rows[m].here
\* The process ends wherever it is: what is in the database stays.
Crash ==
    /\ MayAsk
    /\ ops' = ops + 1
    /\ jobs' = <<>> /\ calls' = {} /\ notices' = <<>> /\ loops' = [m \in Monitors |-> 0]
    /\ UNCHANGED <<rows, samples, incidents, now, paused>>

-----------------------------------------------------------------------------
(* The handlers.                                                           *)

Ask(do, m, threshold, enabled) ==
    /\ MayAsk
    /\ ops' = ops + 1
    /\ calls' = calls \cup {[do |-> do, mon |-> m, row |-> IF do = "put" THEN rows[m] ELSE NoRow, enabled |-> enabled, threshold |-> threshold]}
    /\ UNCHANGED <<rows, samples, incidents, loops, jobs, notices, now, paused>>

\* Put reads the row it replaces (an unknown one is refused), SetPaused and Delete likewise.  A request that
\* does not say "enabled", as the editor of the console never does, disables the monitor it edits.
Save(m, threshold, enabled) == rows[m].here /\ Ask("put", m, threshold, enabled)
Pause(m) == rows[m].here /\ Ask("pause", m, 0, FALSE)
Resume(m) == rows[m].here /\ Ask("resume", m, 0, FALSE)
Delete(m) == rows[m].here /\ Ask("delete", m, 0, FALSE)
SetMute(m, until) ==
    /\ MayAsk /\ rows[m].here
    /\ ops' = ops + 1
    /\ rows' = [rows EXCEPT ![m].muted = until]
    /\ UNCHANGED <<samples, incidents, loops, jobs, calls, notices, now, paused>>

Then(c, do) == calls' = (calls \ {c}) \cup IF do = "done" THEN {} ELSE {[c EXCEPT !.do = do]}
\* The upsert writes the settings of a row that is there, and the row it read when it was deleted since.
PutWrite(c) ==
    /\ c.do = "put"
    /\ rows' = [rows EXCEPT ![c.mon] = [(IF @.here THEN @ ELSE c.row) EXCEPT !.threshold = c.threshold, !.enabled = c.enabled]]
    /\ calls' = (calls \ {c}) \cup {[c EXCEPT !.do = "reload", !.row = NoRow, !.threshold = 0]}
    /\ UNCHANGED <<samples, incidents, loops, jobs, notices, now, ops, paused>>
SetEnabled(c) ==
    /\ c.do \in {"pause", "resume"}
    /\ IF rows[c.mon].here
       THEN /\ rows' = [rows EXCEPT ![c.mon].enabled = c.do = "resume", ![c.mon].status = IF c.do = "resume" THEN "unknown" ELSE "paused"]
            /\ calls' = (calls \ {c}) \cup {[c EXCEPT !.do = IF c.do = "resume" THEN "reload" ELSE "stop", !.enabled = c.do = "resume"]}
            /\ paused' = IF rows[c.mon].status = "down" THEN paused \cup {c.mon} ELSE paused
       ELSE Then(c, "done") /\ UNCHANGED <<rows, paused>>
    /\ UNCHANGED <<samples, incidents, loops, jobs, notices, now, ops>>
DeleteRow(c) ==
    /\ c.do = "delete"
    /\ rows' = [rows EXCEPT ![c.mon].here = FALSE]
    /\ samples' = [samples EXCEPT ![c.mon] = <<>>]
    /\ incidents' = {i \in incidents : i.mon # c.mon}
    /\ Then(c, "stop")
    /\ UNCHANGED <<loops, jobs, notices, now, ops, paused>>
\* Reload stops the loop first, and starts another when the row it was given is enabled.
ReloadStop(c) ==
    /\ c.do \in {"reload", "stop"}
    /\ Stop(c.mon)
    /\ Then(c, IF c.do = "reload" /\ c.enabled THEN "start" ELSE "done")
    /\ UNCHANGED <<rows, samples, incidents, notices, now, ops, paused>>
ReloadStart(c) ==
    /\ c.do = "start"
    /\ StartLoop(c.mon)
    /\ Then(c, "done")
    /\ UNCHANGED <<rows, samples, incidents, notices, now, ops, paused>>
Handle(c) == PutWrite(c) \/ SetEnabled(c) \/ DeleteRow(c) \/ ReloadStop(c) \/ ReloadStart(c)

\* One probe now, of one monitor, or one of every enabled monitor (CheckAll): each in a goroutine of its own.
Check(set) ==
    /\ MayAsk /\ set # {} /\ Len(jobs) + Cardinality(set) <= MaxJobs
    /\ ops' = ops + 1
    /\ \E order \in [1..Cardinality(set) -> set] :
         /\ {order[k] : k \in DOMAIN order} = set
         /\ jobs' = jobs \o [k \in DOMAIN order |-> Started(order[k], "check")]
    /\ UNCHANGED <<rows, samples, incidents, loops, calls, notices, now, paused>>
CheckNow(m) == rows[m].here /\ Check({m})
CheckAll == Check({m \in Monitors : rows[m].here /\ rows[m].enabled})

-----------------------------------------------------------------------------
(* A job.                                                                  *)

Put(j, job) == jobs' = [jobs EXCEPT ![j] = job]
Over(job) == [Ended(job.mon) EXCEPT !.kind = job.kind]
Finish(j) == Put(j, Over(jobs[j]))

\* The failures at the end of the history a loop starts from: at most threshold + 2 samples are read.
AllFails(m, threshold) == {Cardinality({k \in DOMAIN samples[m] : ~samples[m][k] /\ k + threshold + 2 > Len(samples[m])})}
Trailing(m, n) == n <= Len(samples[m]) /\ \A k \in (Len(samples[m]) - n + 1)..Len(samples[m]) : ~samples[m][k]
TrailingFails(m, threshold) == {n \in 0..(threshold + 2) : Trailing(m, n) /\ (n < threshold + 2 => ~Trailing(m, n + 1))}
\* runLoop: the row, the streak, and no second alert for a monitor that is down already.
Seed(j) ==
    LET job == jobs[j]  m == job.mon  row == rows[m] IN
    /\ job.at = "seed"
    /\ IF row.here /\ row.enabled
       THEN \E fails \in TrailingFails(m, row.threshold) :
              Put(j, [job EXCEPT !.at = "get", !.fails = fails, !.alerted = row.status = "down", !.last = IF row.status = "down" THEN now ELSE 0])
       ELSE Finish(j)
    /\ UNCHANGED <<rows, samples, incidents, loops, calls, notices, now, ops, paused>>

Gone(m) == ~(rows[m].here /\ rows[m].enabled)
Limit == IF overlapped THEN RacingProbes ELSE MaxProbes
\* A loop waits for its timer or the end of its context; one cancelled during a tick may find both ready
\* and take either.
Resumes(job) == IF job.dead THEN {"wait", "get"} ELSE {"wait"}
Tick(j) == /\ jobs[j].at = "wait" /\ ~jobs[j].dead
           /\ now < Limit \/ Gone(jobs[j].mon)
           /\ Put(j, [jobs[j] EXCEPT !.at = "get"])
           /\ UNCHANGED <<rows, samples, incidents, loops, calls, notices, now, ops, paused>>
DoneUnread(j) == FALSE
Done(j) == /\ jobs[j].at = "wait" /\ jobs[j].dead
           /\ Finish(j)
           /\ UNCHANGED <<rows, samples, incidents, loops, calls, notices, now, ops, paused>>

\* A tick works on the row it reads here; a monitor that is gone or disabled ends its loop.
GetRow(j) ==
    LET job == jobs[j]  row == rows[job.mon]  probing == {k \in DOMAIN jobs : jobs[k].at = "probe"} IN
    /\ job.at = "get"
    /\ IF row.here /\ row.enabled THEN now + Cardinality(probing) < Limit /\ Put(j, [job EXCEPT !.at = "probe", !.seen.row = row])
                                  ELSE Put(j, [job EXCEPT !.at = "stop"])
    /\ UNCHANGED <<rows, samples, incidents, loops, calls, notices, now, ops, paused>>
\* e.Stop(id): whichever loop the monitor has now; only the first tick of a loop is not asked whether to go on.
StopOwn(j) ==
    LET job == jobs[j] IN
    /\ job.at = "stop"
    /\ loops' = [loops EXCEPT ![job.mon] = 0]
    /\ IF job.kind = "loop" /\ job.first
       THEN \E at \in Resumes(Cancelled(job.mon)[j]) : jobs' = [Cancelled(job.mon) EXCEPT ![j].at = at, ![j].first = FALSE]
       ELSE jobs' = [Cancelled(job.mon) EXCEPT ![j] = Over(job)]
    /\ UNCHANGED <<rows, samples, incidents, calls, notices, now, ops, paused>>

NewStatus(row, ok, fails) == IF ok THEN "up" ELSE IF fails >= row.threshold THEN "down" ELSE row.status
\* The probe is answered; a cancelled one fails.
Probe(j, ok) ==
    LET job == jobs[j]  fails == IF ok THEN 0 ELSE job.fails + 1 IN
    /\ job.at = "probe"
    /\ now' = now + 1
    /\ Put(j, [job EXCEPT !.at = "record", !.fails = fails, !.seen.ok = ok, !.seen.t = now + 1, !.seen.status = NewStatus(job.seen.row, ok, fails)])
    /\ UNCHANGED <<rows, samples, incidents, loops, calls, notices, ops, paused>>
Changed(seen) == seen.status # seen.row.status
\* recordCheck: the sample is kept and the status written over whatever the row says by now.
Record(j) ==
    LET job == jobs[j]  m == job.mon IN
    /\ job.at = "record"
    /\ samples' = [samples EXCEPT ![m] = Append(@, job.seen.ok)]
    /\ rows' = IF rows[m].here THEN [rows EXCEPT ![m].status = job.seen.status] ELSE rows
    /\ Put(j, [job EXCEPT !.at = "transition"])
    /\ UNCHANGED <<incidents, loops, calls, notices, now, ops, paused>>

Open(m) == {i \in incidents : i.mon = m /\ i.open}
\* A down transition under a parent that is down is recorded and not paged.  OpenIncident counts the open
\* incidents first.
ParentDown(m) == DependsOn[m] # Nobody /\ rows[DependsOn[m]].here /\ rows[DependsOn[m]].status = "down"
TransitionUncounted(j) ==
    LET job == jobs[j]  seen == job.seen IN
    /\ job.at = "transition"
    /\ Put(j, [job EXCEPT !.seen.suppressed = seen.status = "down" /\ ParentDown(job.mon),
                          !.at = IF Changed(seen) /\ seen.status = "down" THEN "open"
                                 ELSE IF Changed(seen) /\ seen.status = "up" /\ seen.row.status = "down" THEN "close" ELSE "notify"])
    /\ UNCHANGED <<rows, samples, incidents, loops, calls, notices, now, ops, paused>>
Transition(j) ==
    LET job == jobs[j]  seen == job.seen IN
    /\ job.at = "transition"
    /\ Put(j, [job EXCEPT !.seen.suppressed = seen.status = "down" /\ ParentDown(job.mon),
                          !.at = IF Changed(seen) /\ seen.status = "down" /\ Open(job.mon) = {} THEN "open"
                                 ELSE IF Changed(seen) /\ seen.status = "up" /\ seen.row.status = "down" THEN "close" ELSE "notify"])
    /\ UNCHANGED <<rows, samples, incidents, loops, calls, notices, now, ops, paused>>
OpenIncident(j) ==
    LET job == jobs[j] IN
    /\ job.at = "open"
    /\ incidents' = incidents \cup {[mon |-> job.mon, started |-> job.seen.t, open |-> TRUE, suppressed |-> job.seen.suppressed]}
    /\ Put(j, [job EXCEPT !.at = "notify"])
    /\ UNCHANGED <<rows, samples, loops, calls, notices, now, ops, paused>>
CloseIncident(j) ==
    LET job == jobs[j] IN
    /\ job.at = "close"
    /\ incidents' = (incidents \ Open(job.mon)) \cup {[i EXCEPT !.open = FALSE] : i \in Open(job.mon)}
    /\ Put(j, [job EXCEPT !.at = "notify"])
    /\ paused' = paused \ {job.mon}
    /\ UNCHANGED <<rows, samples, loops, calls, notices, now, ops>>

FiredUntold(job) == [send |-> IF job.seen.status = "up" THEN "recovered" ELSE IF job.seen.status = "down" THEN "down" ELSE "none", job |-> job]
\* applyNotifyPolicy: what is sent, and what the loop remembers of it.
Fired(job) ==
    LET seen == job.seen
        muted == seen.row.muted > seen.t
        since == IF job.downSince = 0 THEN seen.t ELSE job.downSince
        downJob == [job EXCEPT !.downSince = since]
        told == [send |-> "down", job |-> [downJob EXCEPT !.alerted = TRUE, !.last = seen.t]]
        untold == [send |-> "none", job |-> job]
    IN  IF seen.suppressed THEN untold
        ELSE IF seen.status = "down" THEN
             IF ~muted /\ (IF job.alerted THEN RenotifyEvery > 0 /\ seen.t - job.last >= RenotifyEvery ELSE seen.t - since >= AlertAfter)
             THEN told ELSE [send |-> "none", job |-> downJob]
        ELSE IF seen.status = "up" THEN [send |-> IF job.alerted /\ ~muted THEN "recovered" ELSE "none",
                                         job |-> [job EXCEPT !.downSince = 0, !.alerted = FALSE, !.last = 0]]
        ELSE untold
Notify(j) ==
    LET job == jobs[j]  fired == Fired(job) IN
    /\ job.at = "notify"
    /\ notices' = IF fired.send = "none" THEN notices ELSE Append(notices, [mon |-> job.mon, event |-> fired.send, by |-> j])
    /\ IF job.kind = "check" THEN Finish(j) ELSE \E at \in Resumes(job) : Put(j, [fired.job EXCEPT !.at = at, !.first = FALSE, !.seen = NothingRead])
    /\ UNCHANGED <<rows, samples, incidents, loops, calls, now, ops, paused>>

Step(j) ==
    \/ Seed(j) \/ Done(j) \/ GetRow(j) \/ StopOwn(j) \/ (\E ok \in BOOLEAN : Probe(j, ok)) \/ Record(j) \/ Transition(j)
    \/ OpenIncident(j) \/ CloseIncident(j) \/ Notify(j)

-----------------------------------------------------------------------------
\* What is under way on a monitor: handlers, and jobs between two ticks' ends.
Actors(m) == Cardinality({c \in calls : c.mon = m}) + Cardinality({j \in DOMAIN jobs : jobs[j].mon = m /\ jobs[j].at \notin {"wait", "end"}})

\* A step of the monitors, and what the history makes of it.
Overlap == (\E m \in Monitors : Actors(m)' > 1) \/ (jobs # <<>> /\ jobs' = <<>> /\ \E m \in Monitors : Actors(m) > 0)
Noted == /\ overlapped' = (overlapped \/ Overlap)
         /\ overlapped' => ops' <= MaxRacing
Work == (\E c \in calls : Handle(c)) /\ Noted
Run(j) == j \in DOMAIN jobs /\ (Step(j) \/ Tick(j)) /\ Noted
Operators ==
    /\ \/ Boot \/ Crash \/ CheckAll
       \/ \E m \in Monitors : Pause(m) \/ Resume(m) \/ Delete(m) \/ CheckNow(m) \/ (\E n \in Thresholds, enabled \in BOOLEAN : Save(m, n, enabled)) \/ (\E u \in {0, now + 1} : SetMute(m, u))
    /\ Noted
MonNext == Operators \/ Work \/ \E j \in DOMAIN jobs : Run(j)

-----------------------------------------------------------------------------
(* What holds while no two steps of one monitor are under way at once.     *)

Idle(m) == Actors(m) = 0
Alive(m) == {j \in DOMAIN jobs : jobs[j].mon = m /\ jobs[j].kind = "loop" /\ ~jobs[j].dead}

\* An enabled monitor has one loop, which can be cancelled; any other has none.
OneLoop == (~overlapped /\ jobs # <<>>) => \A m \in Monitors : Idle(m) =>
    IF rows[m].here /\ rows[m].enabled THEN Alive(m) = {loops[m]} ELSE Alive(m) = {} /\ loops[m] = 0
\* A monitor that is down has one open incident, and one that is up has none, unless it was paused while down.
IncidentsMatch == ~overlapped => \A m \in Monitors : (Idle(m) /\ rows[m].here) =>
    /\ Cardinality(Open(m)) <= 1
    /\ rows[m].status = "down" => Open(m) # {}
    /\ (rows[m].status # "down" /\ m \notin paused) => Open(m) = {}
\* A loop finds a monitor down after as many failures in a row as its row asks, restarts and edits
\* included; a manual check in between is not in its count.
DownIsEarned == ~overlapped => \A j \in DOMAIN jobs :
    LET seen == jobs[j].seen IN
    (jobs[j].at = "transition" /\ jobs[j].kind = "loop" /\ Changed(seen) /\ seen.status = "down" /\ (\A k \in DOMAIN jobs : jobs[k].kind # "check")) =>
        Trailing(jobs[j].mon, seen.row.threshold)

\* Whatever overlapped, a loop that tells a recovery told the outage since the last one; and a loop nobody
\* disturbed tells each outage once, before its recovery.
NoticesPaired == \A k \in DOMAIN notices :
    LET n == notices[k]
        before == {i \in 1..(k - 1) : notices[i].by = n.by /\ notices[i].mon = n.mon}
        last == notices[CHOOSE i \in before : \A o \in before : o <= i].event
    IN  /\ before # {} => n.event = "down" \/ last = "down"
        /\ (ops = 0 /\ RenotifyEvery = 0) => n.event = IF before # {} /\ last = "down" THEN "recovered" ELSE "down"

\* The loops of a monitor that stays disabled or deleted end, whatever overlapped.
LoopsEnd == \A m \in Monitors : Gone(m) ~> (~Gone(m) \/ \A j \in DOMAIN jobs : jobs[j].mon = m => jobs[j].at = "end")
=============================================================================
