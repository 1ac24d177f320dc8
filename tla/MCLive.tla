------------------------------- MODULE MCLive -------------------------------
(***************************************************************************)
(* The long-lived conversations of the console with the backend, checked   *)
(* one at a time: the live view of a run, the session of the user and the  *)
(* connect loop.  "part" says which one moves; the others stay as they     *)
(* begin, so that one run checks the three of them with their fairness.    *)
(***************************************************************************)
EXTENDS Naturals, FiniteSets, Sequences

CONSTANTS Parts, Runs, ProjectOf, Script, MaxStreams, MaxAsks,
    MaxTokens, MaxRequests, FastTries, MaxRefreshes, MaxRetries, MaxOutages

\* A run id is the id of a row, and "run-end" is what the end of a run sends.
ASSUME RunsAssumption == Runs # {} /\ 0 \notin Runs
ASSUME ScriptAssumption == Script \in [Runs -> Seq(STRING \ {"run-end"})]
ASSUME BoundsAssumption == MaxTokens \in Nat \ {0} /\ FastTries \in Nat

VARIABLES part,
    store, sent, outcome, cancelled, streams, live, asks, raced,
    server, auth, token, stored, init, op, requests, late,
    up, outages, retries, status, capable, refreshes, cached, tries, loop

viewVars == <<store, sent, outcome, cancelled, streams, live, asks, raced>>
sessionVars == <<server, auth, token, stored, init, op, requests, late>>
linkVars == <<up, outages, retries, status, capable, refreshes, cached, tries, loop>>
vars == <<part, viewVars, sessionVars, linkVars>>

\* Two runs of one project, a plain one and a gated one.
MCProjectOf == <<"p", "p">>
MCScript == << <<"run-start">>, <<"approval-required">> >>

V == INSTANCE LiveView WITH Stores <- {"ansible", "runbook"}
S == INSTANCE Session

Init ==
    /\ part \in Parts
    /\ V!Init /\ S!Init /\ S!LinkInit
    /\ part # "view" => store = "ansible"
    /\ part # "session" => server.up /\ server.mode = "on" /\ server.admin /\ server.valid = {} /\ stored = 0
    /\ part # "link" => up

OfView(A) == part = "view" /\ A /\ UNCHANGED <<part, sessionVars, linkVars>>
OfSession(A) == part = "session" /\ A /\ UNCHANGED <<part, viewVars, linkVars>>
OfLink(A) == part = "link" /\ A /\ UNCHANGED <<part, viewVars, sessionVars>>

Next == OfView(V!Next) \/ OfSession(S!Next) \/ OfLink(S!LinkNext)

\* The fairness of the three modules, on their steps.
Spec ==
    /\ Init /\ [][Next]_vars
    /\ \A r \in Runs : WF_vars(OfView(V!Send(r))) /\ WF_vars(OfView(V!End(r)))
    /\ \A s \in 1..MaxStreams : WF_vars(OfView(s \in DOMAIN streams /\ (V!Deliver(s) \/ V!Finish(s))))
    /\ WF_vars(OfSession(S!InitProbe \/ S!InitSetup \/ S!InitMe \/ S!InitPull))
    /\ WF_vars(OfSession(S!Changed \/ S!NotChanged \/ S!SignInPulled \/ S!SignInFails))
    /\ \A o \in S!Of, t \in 0..MaxTokens : WF_vars(OfSession(S!AnyAnswer(S!Sent(o, t))))
    /\ WF_vars(OfLink(S!Tick))
    /\ \A w \in S!Starters :
         WF_vars(OfLink(\E r \in refreshes : r.who = w /\ (S!ProbeAnswer(r) \/ S!CapabilitiesAnswer(r))))

-----------------------------------------------------------------------------
\* What a view shows: one run, an end that is the run's own, no stream left behind.
ViewIsHonest == V!TypeOK /\ V!ShowsOneRun /\ V!EndShownIsTrue /\ V!NoStrayStream
\* The session shown is the one stored, and one setup makes one administrator.
SessionKept == S!TypeOK /\ S!ShownIsStored /\ S!SetupOnce
\* No session is dropped that nobody ended, and none stays that the backend has refused.
SessionEnds == S!DroppedForAReason /\ S!RefusedIsDropped
\* The connect loop neither stops nor slows down before the first answer.
LoopHealthy == S!LoopAlive /\ S!FastWhileNew
\* A view settles on what its run came to, and a link that is up is found.
Settles == V!ViewSettles /\ (part = "link" => S!Heals)
=============================================================================
