------------------------------ MODULE LiveView ------------------------------
(***************************************************************************)
(* The live view of a run in the console: the field "live" of the Ansible  *)
(* and of the Runbooks store (app/src/stores/ansibleStore.ts and           *)
(* runbookStore.ts) and the event streams of sseClient.ts that feed it.    *)
(* The stores run on one JavaScript thread, so a function is atomic up to  *)
(* its next await: attachRun and openReplay look a run up on the backend   *)
(* and go on when the answer arrives, whatever the user did meanwhile.     *)
(*                                                                         *)
(* A stream replays a run's events from the first and tails it; the hub    *)
(* that serves it is module RunStream.  Here it delivers what the run has  *)
(* sent, in order, and ends when the run ends or when the hub drops it.    *)
(***************************************************************************)
EXTENDS Naturals, Sequences

CONSTANTS
    Runs,        \* run ids
    ProjectOf,   \* run: its project (Ansible) or runbook
    Script,      \* run: the events it sends before its run-end
    Stores,      \* the stores checked: a subset of {"ansible", "runbook"}
    MaxStreams,  \* bound: streams opened
    MaxAsks      \* bound: lookups in flight at once

Projects == {ProjectOf[r] : r \in Runs}
Unknown == "unknown"             \* no project: the lookup failed and none is selected
Final == {"ok", "failed", "cancelled", "error"}
Outcomes == {"ok", "failed", "cancelled"}

VARIABLES
    store,     \* the store this is an instance of (never changes)
    sent,      \* run: the events it has sent
    outcome,   \* run: how it ended, "idle" before it starts, "running" until it ends
    cancelled, \* runs the backend was asked to cancel
    streams,   \* the streams opened: run, project given to its handlers, events delivered, state
    live,      \* the view, or None
    asks,      \* lookups in flight
    raced      \* history: whether the user acted while a lookup was in flight

vars == <<store, sent, outcome, cancelled, streams, live, asks, raced>>

None == [run |-> 0, project |-> Unknown, status |-> "none", got |-> <<>>, stream |-> 0, replay |-> FALSE]
Shown == live.status # "none"

Init ==
    /\ store \in Stores
    /\ sent = [r \in Runs |-> <<>>]
    /\ outcome = [r \in Runs |-> "idle"]
    /\ cancelled = {}
    /\ streams = <<>>
    /\ live = None
    /\ asks = <<>>
    /\ raced = FALSE

-----------------------------------------------------------------------------
(* The backend: a run sends its script, or is cut short by a cancellation. *)

Send(r) ==
    /\ outcome[r] = "running"
    /\ Len(sent[r]) < Len(Script[r])
    /\ sent' = [sent EXCEPT ![r] = Append(@, Script[r][Len(@) + 1])]
    /\ UNCHANGED <<store, outcome, cancelled, streams, live, asks, raced>>

End(r) ==
    /\ outcome[r] = "running"
    /\ \/ Len(sent[r]) = Len(Script[r]) /\ outcome' \in {[outcome EXCEPT ![r] = o] : o \in {"ok", "failed"}}
       \/ r \in cancelled /\ outcome' = [outcome EXCEPT ![r] = "cancelled"]
    /\ sent' = [sent EXCEPT ![r] = Append(@, "run-end")]
    /\ UNCHANGED <<store, cancelled, streams, live, asks, raced>>

-----------------------------------------------------------------------------
(* Streams.                                                                *)

Open(s) == streams[s].state = "open"

\* The abort function of the view: it stops the stream it was given, for good.
AbortNothing == streams  \* mutant: the view keeps no abort function
Abort == IF live.stream = 0 \/ ~Open(live.stream) THEN streams
         ELSE [streams EXCEPT ![live.stream].state = "aborted"]

TailOnly(ss, r, p) ==  \* mutant: the log is not replayed
    Append(ss, [run |-> r, project |-> p, at |-> Len(sent[r]), state |-> "open"])
Opened(ss, r, p) == Append(ss, [run |-> r, project |-> p, at |-> 0, state |-> "open"])

\* What the view makes of run-end.
EndIgnored(o) == live.status  \* mutant: the outcome of the run is not read
EndAsIs(o) == o               \* mutant: the runbook view is given a status it does not know
EndStatus(o) == IF store = "runbook" /\ o = "cancelled" THEN "failed" ELSE o

StatusAfter(e, o) ==
    CASE e = "run-start" -> IF store = "runbook" /\ live.status # "starting" THEN live.status ELSE "running"
      [] e = "approval-required" -> "awaiting_approval"
      [] e = "approval-granted" -> "running"
      [] e = "error" -> "error"
      [] e = "run-end" -> EndStatus(o)
      [] OTHER -> live.status

\* Events that carry the run's id to the view.
Names(e) == e \in {"run-start", "approval-required"}

\* The filter of the handlers: a stream only feeds a view of its own project.
Accepts(st) ==
    /\ Shown
    /\ \/ live.project = st.project
       \/ store = "runbook" /\ Unknown \in {live.project, st.project}

Deliver(s) ==
    LET st == streams[s]
        e == sent[st.run][st.at + 1]
    IN /\ Open(s)
       /\ st.at < Len(sent[st.run])
       /\ streams' = [streams EXCEPT ![s].at = @ + 1]
       /\ live' = IF ~Accepts(st) THEN live
                  ELSE [live EXCEPT !.run = IF Names(e) THEN st.run ELSE @,
                                    !.status = StatusAfter(e, outcome[st.run]),
                                    !.got = Append(@, <<st.run, st.at + 1>>)]
       /\ UNCHANGED <<store, sent, outcome, cancelled, asks, raced>>

\* onClose: a view that is still starting or running is taken to have ended well.
\* It does not ask which stream, or which project, the view is of.
OnClose == IF live.status \in {"starting", "running"} THEN [live EXCEPT !.status = "ok"] ELSE live

Finish(s) ==
    /\ Open(s)
    /\ outcome[streams[s].run] \in Outcomes
    /\ streams[s].at = Len(sent[streams[s].run])
    /\ streams' = [streams EXCEPT ![s].state = "ended"]
    /\ live' = OnClose
    /\ UNCHANGED <<store, sent, outcome, cancelled, asks, raced>>

\* The hub drops a viewer whose channel is full: the response ends, cleanly.
Drop(s) ==
    /\ Open(s)
    /\ streams[s].at < Len(sent[streams[s].run])
    /\ streams' = [streams EXCEPT ![s].state = "dropped"]
    /\ live' = OnClose
    /\ UNCHANGED <<store, sent, outcome, cancelled, asks, raced>>

\* onError: the transport failed, or the response was not a stream; no retry, since
\* onerror throws.
Fail(s) ==
    /\ Open(s)
    /\ streams' = [streams EXCEPT ![s].state = "failed"]
    /\ live' = IF Shown THEN [live EXCEPT !.status = "error"] ELSE live
    /\ UNCHANGED <<store, sent, outcome, cancelled, asks, raced>>

-----------------------------------------------------------------------------
(* The user.                                                               *)

Racing == raced' = (raced \/ asks # <<>>)

\* startRun, startJobRun, startAdhoc, rerun: the request starts the run and streams it.
StartRun(r) ==
    /\ outcome[r] = "idle"
    /\ Len(streams) < MaxStreams
    /\ streams' = Opened(Abort, r, ProjectOf[r])
    /\ live' = [None EXCEPT !.project = ProjectOf[r], !.status = "starting", !.stream = Len(streams) + 1]
    /\ outcome' = [outcome EXCEPT ![r] = "running"]
    /\ Racing
    /\ UNCHANGED <<store, sent, cancelled, asks>>

\* The Runs drawer lists what its last poll saw active, so a run it offers may have
\* ended since; a run that never started is not offered.
Listed(r) == outcome[r] # "idle"

\* attachRun up to its await: the old stream is gone, the old view still on screen.
\* "hint" is the project it falls back on when the lookup fails.
Attach(r) ==
    /\ Listed(r)
    /\ ~(live.run = r /\ ~(store = "ansible" /\ live.replay))
    /\ Len(asks) < MaxAsks
    /\ streams' = Abort
    /\ \E hint \in IF store = "runbook" THEN {live.project} ELSE Projects \cup {Unknown} :
         asks' = Append(asks, [op |-> "attach", run |-> r, hint |-> hint])
    /\ Racing
    /\ UNCHANGED <<store, sent, outcome, cancelled, live>>

\* openReplay up to its await; the runbook store has no replay.
Replay(r) ==
    /\ store = "ansible"
    /\ outcome[r] \in Outcomes
    /\ Len(asks) < MaxAsks
    /\ streams' = Abort
    /\ asks' = Append(asks, [op |-> "replay", run |-> r, hint |-> Unknown])
    /\ Racing
    /\ UNCHANGED <<store, sent, outcome, cancelled, live>>

Without(i) == [j \in 1..(Len(asks) - 1) |-> asks[IF j < i THEN j ELSE j + 1]]

\* The rest of attachRun.  The view it replaces is not aborted a second time.
Attached(i, p) ==
    /\ asks[i].op = "attach"
    /\ Len(streams) < MaxStreams
    /\ streams' = Opened(streams, asks[i].run, p)
    /\ live' = [None EXCEPT !.run = asks[i].run, !.project = p, !.status = "running", !.stream = Len(streams) + 1]

\* The rest of openReplay: the tree of a finished run, rebuilt from its stored events.
Replayed(i) ==
    LET r == asks[i].run
    IN /\ asks[i].op = "replay"
       /\ live' = [None EXCEPT !.run = r, !.project = ProjectOf[r], !.status = outcome[r], !.replay = TRUE,
                               !.got = [n \in 1..Len(sent[r]) |-> <<r, n>>]]
       /\ UNCHANGED streams

\* An answer to a lookup: a failed attach goes on with its hint, a failed replay stops.
Answer(i) ==
    /\ \/ \E p \in {ProjectOf[asks[i].run], asks[i].hint} : Attached(i, p)
       \/ Replayed(i)
       \/ asks[i].op = "replay" /\ UNCHANGED <<streams, live>>
    /\ asks' = Without(i)
    /\ UNCHANGED <<store, sent, outcome, cancelled, raced>>

\* cancelLiveRun (the Stop button): without a run id only the stream is given up.
Busy == live.status \in {"starting", "running", "awaiting_approval"} /\ ~live.replay
Stop ==
    /\ Busy
    /\ IF live.run = 0 THEN streams' = Abort /\ UNCHANGED cancelled
                       ELSE cancelled' = cancelled \cup {live.run} /\ UNCHANGED streams
    /\ UNCHANGED <<store, sent, outcome, live, asks, raced>>

\* The Ansible view has no Close button while it is busy.
Clear ==
    /\ Shown /\ (store = "ansible" => ~Busy)
    /\ streams' = Abort
    /\ live' = None
    /\ Racing
    /\ UNCHANGED <<store, sent, outcome, cancelled, asks>>

Next ==
    \/ \E r \in Runs : Send(r) \/ End(r) \/ StartRun(r) \/ Attach(r) \/ Replay(r)
    \/ \E s \in 1..Len(streams) : Deliver(s) \/ Finish(s) \/ Drop(s) \/ Fail(s)
    \/ \E i \in 1..Len(asks) : Answer(i)
    \/ Stop \/ Clear

Spec == Init /\ [][Next]_vars

\* Runs make progress and end; the network delivers what was sent and the end of it.
Fairness ==
    /\ \A r \in Runs : WF_vars(Send(r)) /\ WF_vars(End(r))
    /\ \A s \in 1..MaxStreams : WF_vars(s \in DOMAIN streams /\ (Deliver(s) \/ Finish(s)))
FairSpec == Spec /\ Fairness

-----------------------------------------------------------------------------
TypeOK ==
    /\ store \in Stores
    /\ outcome \in [Runs -> {"idle", "running"} \cup Outcomes]
    /\ cancelled \subseteq Runs
    /\ live.run \in Runs \cup {0} /\ live.project \in Projects \cup {Unknown}
    /\ live.status \in {"none", "starting", "running", "awaiting_approval"} \cup Final
    /\ store = "runbook" => live.status # "cancelled"
    /\ live.stream \in 0..Len(streams)
    /\ \A i \in 1..Len(asks) : asks[i].run \in Runs

\* A view shows the events of one run, from the first, each once and in order, over
\* any sequence of starts, re-attachments, replays and dropped streams: the view a
\* stream fed is aborted before the next one is opened.  It fails only when the user
\* acted while a lookup was in flight, which neither store guards against.
ShowsOneRun ==
    raced \/ \E r \in Runs : live.got = [n \in 1..Len(live.got) |-> <<r, n>>]

\* A view that shows a run's end shows how that run ended: "ok" is never shown for a
\* run that failed, was cancelled or still runs, unless the hub dropped the stream.
EndShownIsTrue ==
    live.status = "ok" /\ live.got # <<>> /\ ~raced
    /\ (live.stream # 0 => streams[live.stream].state # "dropped")
        => outcome[live.got[1][1]] = "ok"

\* At most one stream is being read, and it is the one the view can abort.
NoStrayStream == raced \/ \A s \in 1..Len(streams) : Open(s) => s = live.stream

\* A view that is being fed does not spin for ever: its run ends, and the view shows
\* that it did, an approval nobody gave included, unless the user gives the view or
\* its stream up or the hub drops it.
Fed == Shown /\ live.stream # 0 /\ Open(live.stream)
GivenUp == ~Shown \/ live.stream = 0 \/ streams[live.stream].state \in {"aborted", "dropped"}
ViewSettles == Fed ~> (live.status \in Final \/ GivenUp)
=============================================================================
