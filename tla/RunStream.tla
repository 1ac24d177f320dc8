----------------------------- MODULE RunStream -----------------------------
(***************************************************************************)
(* The run hub (internal/runstream/hub.go) with its viewers: every         *)
(* background run appends its events to a log file and fans them out to    *)
(* bounded channels; a viewer replays the file and then tails its channel. *)
(* The hub holds two kinds of mutex, h.mu for the registry and r.mu for    *)
(* one run, so a viewer looks a run up and attaches to it in two steps,    *)
(* and a run is unlisted and closed in two steps.                          *)
(*                                                                         *)
(* An event is its sequence number; a log file is the sequence of the      *)
(* events written to it.  A run id is the AUTOINCREMENT id of a database   *)
(* row, so a key is started at most once and Start never supersedes.       *)
(***************************************************************************)
EXTENDS Naturals, Sequences, FiniteSets

CONSTANTS
    Runs,       \* the keys of the runs
    Viewers,    \* the open Subscribe calls
    Buf,        \* capacity of a subscriber's channel (512 in the code)
    MaxSeq,     \* bound: events a run emits
    LogMayFail  \* whether appending to the log file may fail (the error is ignored)

ASSUME BufAssumption == Buf \in Nat \ {0}
ASSUME MaxSeqAssumption == MaxSeq \in Nat
ASSUME LogMayFailAssumption == LogMayFail \in BOOLEAN

VARIABLES
    phase,  \* run: none -> opening -> live -> unlisted -> closed, or lost in a crash
    seq,    \* run: number of the last event emitted
    log,    \* run: the events in its log file
    vpc,    \* viewer: idle, opened, found, file, replay, tail, ended
    key,    \* viewer: the run it watches
    found,  \* viewer: the phase its run was in at the registry lookup
    from,   \* viewer: seq at the moment it attached
    pos,    \* viewer: records read from the log file so far
    got,    \* viewer: the events it was sent, in order
    queue,  \* viewer: its channel
    chan    \* viewer: none, open, dropped (too slow) or closed (run ended)

runVars == <<phase, seq, log>>
viewVars == <<vpc, key, found, from, pos, got>>
vars == <<phase, seq, log, vpc, key, found, from, pos, got, queue, chan>>

Phases == {"none", "opening", "live", "unlisted", "closed", "lost"}
ViewerStates == {"idle", "opened", "found", "file", "replay", "tail", "ended"}

Init ==
    /\ phase = [r \in Runs |-> "none"]
    /\ seq = [r \in Runs |-> 0]
    /\ log = [r \in Runs |-> <<>>]
    /\ vpc = [v \in Viewers |-> "idle"]
    /\ key \in [Viewers -> Runs]
    /\ found = [v \in Viewers |-> "none"]
    /\ from = [v \in Viewers |-> 0]
    /\ pos = [v \in Viewers |-> 0]
    /\ got = [v \in Viewers |-> <<>>]
    /\ queue = [v \in Viewers |-> <<>>]
    /\ chan = [v \in Viewers |-> "none"]

Subscribed(v, r) == key[v] = r /\ chan[v] = "open"

FullLate(v) == Len(queue[v]) > Buf  \* mutant: one message too many
Full(v) == Len(queue[v]) >= Buf

\* A subscriber's channel after emit: dropped when the message does not fit.
SkipWhenFull(v, r) == chan[v]       \* mutant: the message is skipped instead
ChanAfterEmit(v, r) == IF Subscribed(v, r) /\ Full(v) THEN "dropped" ELSE chan[v]

\* A subscriber's channel after close: the end of the stream.
LeftOpen(v, r) == chan[v]           \* mutant: close forgets the subscribers
ChanAfterClose(v, r) == IF Subscribed(v, r) THEN "closed" ELSE chan[v]

-----------------------------------------------------------------------------
(* The run's goroutine.                                                    *)

\* Start, first half: create the (empty) log file, before h.mu is taken.
OpenLog(r) ==
    /\ phase[r] = "none"
    /\ phase' = [phase EXCEPT ![r] = "opening"]
    /\ log' = [log EXCEPT ![r] = <<>>]
    /\ UNCHANGED <<seq, viewVars, queue, chan>>

\* Start, second half: enter the run in the registry, under h.mu.
Register(r) ==
    /\ phase[r] = "opening"
    /\ phase' = [phase EXCEPT ![r] = "live"]
    /\ UNCHANGED <<seq, log, viewVars, queue, chan>>

\* emit: number the event, append it to the file, offer it to every channel and
\* drop the subscribers whose channel is full, all under r.mu.
Emit(r) ==
    /\ phase[r] = "live"
    /\ seq[r] < MaxSeq
    /\ seq' = [seq EXCEPT ![r] = @ + 1]
    /\ \E written \in IF LogMayFail THEN BOOLEAN ELSE {TRUE} :
          log' = IF written THEN [log EXCEPT ![r] = Append(@, seq[r] + 1)] ELSE log
    /\ queue' = [v \in Viewers |-> IF Subscribed(v, r) /\ ~Full(v)
                                   THEN Append(queue[v], seq[r] + 1) ELSE queue[v]]
    /\ chan' = [v \in Viewers |-> ChanAfterEmit(v, r)]
    /\ UNCHANGED <<phase, viewVars>>

\* Finish, first half: take the run out of the registry, under h.mu.
Unlist(r) ==
    /\ phase[r] = "live"
    /\ phase' = [phase EXCEPT ![r] = "unlisted"]
    /\ UNCHANGED <<seq, log, viewVars, queue, chan>>

\* Finish, second half: close the run and the channels of its subscribers, under r.mu.
Close(r) ==
    /\ phase[r] = "unlisted"
    /\ phase' = [phase EXCEPT ![r] = "closed"]
    /\ chan' = [v \in Viewers |-> ChanAfterClose(v, r)]
    /\ UNCHANGED <<seq, log, viewVars, queue>>

-----------------------------------------------------------------------------
(* The viewers.                                                            *)

\* Stream: the handler finds the run active or its log on disk, and subscribes.
Open(v, r) ==
    /\ vpc[v] \in {"idle", "ended"}
    /\ phase[r] # "none"
    /\ vpc' = [vpc EXCEPT ![v] = "opened"]
    /\ key' = [key EXCEPT ![v] = r]
    /\ found' = [found EXCEPT ![v] = "none"]
    /\ from' = [from EXCEPT ![v] = 0]
    /\ pos' = [pos EXCEPT ![v] = 0]
    /\ got' = [got EXCEPT ![v] = <<>>]
    /\ queue' = [queue EXCEPT ![v] = <<>>]
    /\ chan' = [chan EXCEPT ![v] = "none"]
    /\ UNCHANGED runVars

\* Subscribe looks the run up under h.mu: a run that is not listed is read from disk.
Lookup(v) ==
    /\ vpc[v] = "opened"
    /\ found' = [found EXCEPT ![v] = phase[key[v]]]
    /\ IF phase[key[v]] = "live"
       THEN vpc' = [vpc EXCEPT ![v] = "found"] /\ from' = from
       ELSE /\ vpc' = [vpc EXCEPT ![v] = "file"]
            /\ from' = [from EXCEPT ![v] = seq[key[v]]]
    /\ UNCHANGED <<runVars, key, pos, got, queue, chan>>

\* The run is still open when the viewer holds r.mu.
NotRechecked(v) == TRUE             \* mutant: the lookup under h.mu is trusted
StillOpen(v) == phase[key[v]] # "closed"

\* Under r.mu: remember the current seq and join r.subs, unless the run closed meanwhile.
Attach(v) ==
    /\ vpc[v] = "found"
    /\ from' = [from EXCEPT ![v] = seq[key[v]]]
    /\ IF StillOpen(v)
       THEN /\ vpc' = [vpc EXCEPT ![v] = "replay"]
            /\ chan' = [chan EXCEPT ![v] = "open"]
       ELSE vpc' = [vpc EXCEPT ![v] = "file"] /\ chan' = chan
    /\ UNCHANGED <<runVars, key, found, pos, got, queue>>

\* replayFile's upTo: 0 stands for "no limit", both for a run read from disk and
\* for a viewer that attached before the first event.
Unlimited(v) == 0                   \* mutant: the limit is never applied
UpTo(v) == IF vpc[v] = "file" THEN 0 ELSE from[v]

\* The next record of the file is there and within the limit.
HasRecord(v) ==
    /\ pos[v] < Len(log[key[v]])
    /\ \/ UpTo(v) = 0
       \/ log[key[v]][pos[v] + 1] <= UpTo(v)

\* replayFile sends one record.
ReplayOne(v) ==
    /\ vpc[v] \in {"file", "replay"}
    /\ HasRecord(v)
    /\ pos' = [pos EXCEPT ![v] = @ + 1]
    /\ got' = [got EXCEPT ![v] = Append(@, log[key[v]][pos[v] + 1])]
    /\ UNCHANGED <<runVars, vpc, key, found, from, queue, chan>>

\* replayFile returns: the stream ends, or the viewer goes on to its channel.
ReplayDone(v) ==
    /\ vpc[v] \in {"file", "replay"}
    /\ ~HasRecord(v)
    /\ vpc' = [vpc EXCEPT ![v] = IF @ = "file" THEN "ended" ELSE "tail"]
    /\ chan' = [chan EXCEPT ![v] = IF vpc[v] = "file" THEN "closed" ELSE @]
    /\ UNCHANGED <<runVars, key, found, from, pos, got, queue>>

\* A message arrives on the channel and is forwarded.
Forward(v) ==
    /\ vpc[v] = "tail"
    /\ queue[v] # <<>>
    /\ got' = [got EXCEPT ![v] = Append(@, Head(queue[v]))]
    /\ queue' = [queue EXCEPT ![v] = Tail(@)]
    /\ UNCHANGED <<runVars, vpc, key, found, from, pos, chan>>

\* The channel is closed and empty.
ClosedOnly(v) == chan[v] = "closed" \* mutant: buffered messages are not drained
AtEof(v) == chan[v] = "closed" /\ queue[v] = <<>>

\* Clean end of stream.
TailEnd(v) ==
    /\ vpc[v] = "tail"
    /\ AtEof(v)
    /\ vpc' = [vpc EXCEPT ![v] = "ended"]
    /\ UNCHANGED <<runVars, key, found, from, pos, got, queue, chan>>

\* select picks s.dropped, whatever is still in the channel.
TailDropped(v) ==
    /\ vpc[v] = "tail"
    /\ chan[v] = "dropped"
    /\ vpc' = [vpc EXCEPT ![v] = "ended"]
    /\ queue' = [queue EXCEPT ![v] = <<>>]
    /\ UNCHANGED <<runVars, key, found, from, pos, got, chan>>

\* The client goes away: ctx is done and the deferred delete leaves r.subs.
Leave(v) ==
    /\ vpc[v] \notin {"idle", "ended"}
    /\ vpc' = [vpc EXCEPT ![v] = "idle"]
    /\ queue' = [queue EXCEPT ![v] = <<>>]
    /\ chan' = [chan EXCEPT ![v] = "none"]
    /\ UNCHANGED <<runVars, key, found, from, pos, got>>

\* The process dies: the registry and every connection are gone, the files stay.
Crash ==
    /\ \E r \in Runs : phase[r] \in {"opening", "live", "unlisted"}
    /\ phase' = [r \in Runs |-> IF phase[r] \in {"opening", "live", "unlisted"}
                                THEN "lost" ELSE phase[r]]
    /\ vpc' = [v \in Viewers |-> "idle"]
    /\ queue' = [v \in Viewers |-> <<>>]
    /\ chan' = [v \in Viewers |-> "none"]
    /\ UNCHANGED <<seq, log, key, found, from, pos, got>>

-----------------------------------------------------------------------------
RunStep(r) == OpenLog(r) \/ Register(r) \/ Emit(r) \/ Unlist(r) \/ Close(r)
ViewStep(v) ==
    \/ Lookup(v) \/ Attach(v) \/ ReplayOne(v) \/ ReplayDone(v)
    \/ Forward(v) \/ TailEnd(v) \/ TailDropped(v)

Next ==
    \/ \E r \in Runs : RunStep(r)
    \/ \E v \in Viewers : ViewStep(v) \/ Leave(v) \/ \E r \in Runs : Open(v, r)
    \/ Crash

Spec == Init /\ [][Next]_vars

\* Fairness: the goroutine of a started run goes on to Finish, a Subscribe
\* goroutine is scheduled and its client reads.  Nobody has to open a stream.
Fairness ==
    /\ \A r \in Runs : WF_vars(Register(r)) /\ WF_vars(Unlist(r)) /\ WF_vars(Close(r))
    /\ \A v \in Viewers : WF_vars(ViewStep(v))

FairSpec == Spec /\ Fairness

-----------------------------------------------------------------------------
(* Correctness.                                                            *)

Increasing(s) == \A i, j \in 1..Len(s) : i < j => s[i] < s[j]

\* Each variable has its type; a subscriber's channel never holds more than Buf
\* messages and a log file never more records than were emitted.
TypeOK ==
    /\ phase \in [Runs -> Phases]
    /\ seq \in [Runs -> 0..MaxSeq]
    /\ log \in [Runs -> Seq(1..MaxSeq)]
    /\ vpc \in [Viewers -> ViewerStates]
    /\ key \in [Viewers -> Runs]
    /\ found \in [Viewers -> Phases]
    /\ from \in [Viewers -> 0..MaxSeq]
    /\ pos \in [Viewers -> Nat]
    /\ got \in [Viewers -> Seq(1..MaxSeq)]
    /\ queue \in [Viewers -> Seq(1..MaxSeq)]
    /\ \A v \in Viewers : Len(queue[v]) <= Buf
    /\ chan \in [Viewers -> {"none", "open", "dropped", "closed"}]

\* A viewer that came after the first event is sent every event at most once and
\* in the order of emission: the replayed file and the channel neither overlap
\* nor swap, whatever the run emits during the replay (Subscribe, replayFile).
InOrderOnce == \A v \in Viewers : from[v] > 0 => Increasing(got[v])

\* What the stream owes a viewer: the records on file, and what is emitted after
\* it attached, even where the append to the file failed.
Owed(v) == {log[key[v]][i] : i \in 1..Len(log[key[v]])} \cup (from[v] + 1)..seq[key[v]]
Sent(v, n) == {got[v][i] : i \in 1..n}

\* No viewer is shown an event before an earlier one it is owed: dropping a slow
\* subscriber or interrupting a replay never leaves a hole in the middle.  (With
\* a record missing from the file, a viewer that attached early is the exception.)
NoGap ==
    \A v \in Viewers :
        /\ vpc[v] \in {"replay", "tail", "ended"}
        /\ from[v] > 0 \/ Len(log[key[v]]) = seq[key[v]]
        => \A n \in 1..Len(got[v]) :
             {e \in Owed(v) : e < got[v][n]} \subseteq Sent(v, n)

\* A stream that ends cleanly (not dropped) has sent the whole run, its last event
\* included, however its lookup and attachment interleave with Finish.  The stream
\* of a run looked up between the two halves of Start is the exception.
EofComplete ==
    \A v \in Viewers :
        vpc[v] = "ended" /\ chan[v] = "closed" /\ found[v] # "opening"
            => Owed(v) \subseteq Sent(v, Len(got[v]))

\* Once a run is closed no viewer is left waiting on a channel nobody closes.
NoStrandedViewer ==
    \A v \in Viewers : vpc[v] \in {"replay", "tail"} /\ phase[key[v]] = "closed"
                        => chan[v] \in {"closed", "dropped"}

Watching(v) == vpc[v] \notin {"idle", "ended"}

\* Every stream that is opened comes to an end: a viewer of a run is never kept
\* waiting for ever, since runs finish and slow subscribers are dropped.
StreamsEnd == \A v \in Viewers : Watching(v) ~> ~Watching(v)
=============================================================================
