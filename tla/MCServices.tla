----------------------------- MODULE MCServices -----------------------------
(***************************************************************************)
(* The services of the backend that several requests use at once, checked  *)
(* one at a time: the monitors, a vault, the sessions to the MCP servers,  *)
(* the accounts, the throttle of their logins, and the exchanges with a    *)
(* model.  "part" says which one moves; the others stay as they begin.     *)
(***************************************************************************)
EXTENDS Vault, McpManager, Sequences

CONSTANTS
    Parts,
    Monitors, Populations, Thresholds, AlertAfter, RenotifyEvery, MaxProbes, MaxJobs, MaxOps, MaxRacing, RacingProbes,
    Users, Patches, MaxLogins, MaxParallel, MaxAccountOps, MaxFails, MaxAttempts,
    Exchanges, MaxPerConn, MaxTurns, MaxApprovals, MaxDecisions
ASSUME ServicesAssumption ==
    /\ IsFiniteSet(Exchanges) /\ MaxPerConn \in Nat /\ MaxApprovals \in Nat
    /\ "nobody" \notin Users /\ MaxLogins \in Nat /\ MaxFails \in Nat /\ MaxAttempts \in Nat
    /\ IsFiniteSet(Monitors) /\ Thresholds \subseteq Nat /\ Thresholds # {}

VARIABLES part,
    rows, samples, incidents, loops, jobs, calls, notices, now, ops, overlapped, paused,
    accounts, issued, minted, setupToken, inflight, stamps, collided, loose,
    fails, block, trying, since, owed, early,
    exchange, slots, approvals, decisions, left, ran, decided

monitorVars == <<rows, samples, incidents, loops, jobs, calls, notices, now, ops, overlapped, paused>>
accountVars == <<accounts, issued, minted, setupToken, inflight, stamps, collided, loose>>
throttleVars == <<fails, block, trying, since, owed, early>>
toolVars == <<exchange, slots, approvals, decisions, left, ran, decided>>
vars == <<part, monitorVars, vaultVars, mcpVars, accountVars, throttleVars, toolVars>>

MCDependsOn == [m \in Monitors |-> IF m = "b" THEN "a" ELSE "nobody"]
M == INSTANCE MonitorEngine WITH DependsOn <- MCDependsOn
A == INSTANCE Accounts
\* The model answers, looks something up, or acts and then looks.
MCReplies == {<<>>, <<"look">>, <<"act", "look">>}
MCReadOnly == {"look"}
T == INSTANCE ToolLoop WITH Replies <- MCReplies, ReadOnly <- MCReadOnly

Init ==
    /\ part \in Parts
    /\ M!MonInit /\ VaultInit /\ McpInit /\ A!AccInit /\ A!ThrInit /\ T!ToolInit
    /\ part # "monitors" => \A m \in Monitors : rows[m].here
    /\ part # "accounts" => setupToken

OfMonitors(D) == part = "monitors" /\ D /\ UNCHANGED <<part, vaultVars, mcpVars, accountVars, throttleVars, toolVars>>
OfVault(D) == part = "vault" /\ D /\ UNCHANGED <<part, monitorVars, mcpVars, accountVars, throttleVars, toolVars>>
OfMcp(D) == part = "mcp" /\ D /\ UNCHANGED <<part, monitorVars, vaultVars, accountVars, throttleVars, toolVars>>
OfAccounts(D) == part = "accounts" /\ D /\ UNCHANGED <<part, monitorVars, vaultVars, mcpVars, throttleVars, toolVars>>
OfThrottle(D) == part = "throttle" /\ D /\ UNCHANGED <<part, monitorVars, vaultVars, mcpVars, accountVars, toolVars>>
OfTools(D) == part = "tools" /\ D /\ UNCHANGED <<part, monitorVars, vaultVars, mcpVars, accountVars, throttleVars>>

Next ==
    \/ OfMonitors(M!MonNext) \/ OfVault(VaultNext) \/ OfMcp(McpNext)
    \/ OfAccounts(A!AccNext) \/ OfThrottle(A!ThrNext) \/ OfTools(T!ToolNext)

\* The loops and calls of the monitors go on, and an exchange does not stop by itself; a provider or a tool may.
Spec ==
    /\ Init /\ [][Next]_vars
    /\ WF_vars(OfMonitors(M!Work)) /\ \A j \in 1..MaxJobs : WF_vars(OfMonitors(M!Run(j)))
    /\ \A e \in Exchanges : WF_vars(OfTools(T!OwnStep(e)))

-----------------------------------------------------------------------------
\* One loop per enabled monitor, an incident log that agrees with the rows, an outage that was earned and told once.
MonitorsSound == part = "monitors" => M!OneLoop /\ M!IncidentsMatch /\ M!DownIsEarned /\ M!NoticesPaired
\* A stopped loop ends, and an exchange with a model ends when its client leaves or the provider and the tools answer.
LoopsEnd ==
    /\ part = "monitors" => M!LoopsEnd
    /\ part = "tools" => T!ExchangesEnd
\* No race of requests leaks a session to a server or shows a stale one; no tool runs without the consent of the
\* user for that very call, and the model is told of every call it made.
AiSound == (part = "mcp" => McpSound) /\ (part = "tools" => T!ToolLoopSound)
\* The accounts keep an administrator and a session its password, and a failed login costs its time.
AccountsSound == (part = "accounts" => A!AccountsSound) /\ (part = "throttle" => A!ThrottleSound)
=============================================================================
