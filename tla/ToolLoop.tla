------------------------------ MODULE ToolLoop ------------------------------
(***************************************************************************)
(* The exchanges with a model (internal/llm: engine): an exchange holds a  *)
(* slot of its connection, asks the provider turn by turn, and runs the    *)
(* tools the model calls; a tool that is not read-only waits for the       *)
(* decision of the user, which another request delivers, or for its        *)
(* timeout.  The client may leave at any time.                             *)
(*                                                                         *)
(* The provider and the tools are external: what they answer is any of     *)
(* Replies, and which tool is read-only is ReadOnly.                       *)
(***************************************************************************)
EXTENDS Naturals, Sequences, FiniteSets

CONSTANTS
    Exchanges, Replies, ReadOnly,
    MaxPerConn,    \* slots of the connection
    MaxTurns,      \* times the provider is asked when tools are offered
    MaxApprovals,  \* bound: approvals one exchange asks for
    MaxDecisions   \* bound: decisions under way at once

VARIABLES
    exchange,   \* of every exchange: its place, turn, calls to do, messages, whether tools are offered and how it ended
    slots,      \* slots taken
    approvals,  \* of every approval: registered, shown to the client, what its channel holds, and the first decision put there
    decisions,  \* decisions of the user: those that found a channel and have not sent
    left,       \* exchanges whose client has gone
    ran,        \* for the check: the tool calls that were run, with the approval they had
    decided     \* decisions made so far
toolVars == <<exchange, slots, approvals, decisions, left, ran, decided>>

Approvals == Exchanges \X (1..MaxApprovals)
Fresh == [at |-> "idle", tools |-> FALSE, turn |-> 1, todo |-> <<>>, thread |-> <<>>, asks |-> 0, verdict |-> "none", ended |-> "no"]
Unasked == [known |-> FALSE, shown |-> FALSE, box |-> "empty", first |-> "none"]

ToolInit ==
    /\ exchange = [e \in Exchanges |-> Fresh] /\ slots = 0
    /\ approvals = [a \in Approvals |-> Unasked]
    /\ decisions = {} /\ left = {} /\ ran = {} /\ decided = 0

X(e) == exchange[e]
At(e, at) == X(e).at = at
Goes(e, r) == exchange' = [exchange EXCEPT ![e] = r]
Approval(e) == <<e, X(e).asks>>
Holding(e) == X(e).at \notin {"idle", "start", "acquire", "over"}
Keep(e) == slots' = slots  \* mutant: the slot is not given back
Release(e) == slots' = IF Holding(e) THEN slots - 1 ELSE slots
Others == UNCHANGED <<decisions, left, decided>>
\* An exchange ends, whatever the reason, by giving its slot back.
Over(e, how) == Goes(e, [X(e) EXCEPT !.at = "over", !.ended = how]) /\ Release(e)

-----------------------------------------------------------------------------
Ask(e, tools) ==
    /\ At(e, "idle") /\ Goes(e, [X(e) EXCEPT !.at = "start", !.tools = tools])
    /\ Others /\ UNCHANGED <<slots, approvals, ran>>
Start(e) ==
    /\ At(e, "start") /\ Goes(e, [X(e) EXCEPT !.at = "acquire"])
    /\ Others /\ UNCHANGED <<slots, approvals, ran>>
Acquire(e) ==
    /\ At(e, "acquire") /\ slots < MaxPerConn
    /\ slots' = slots + 1 /\ Goes(e, [X(e) EXCEPT !.at = "chat"])
    /\ Others /\ UNCHANGED <<approvals, ran>>

Turns(e) == IF X(e).tools THEN MaxTurns ELSE 1
\* The provider answers with text and the tools to call, or fails.
Answer(e, calls) ==
    /\ At(e, "chat")
    /\ IF calls = <<>> THEN Goes(e, [X(e) EXCEPT !.at = "finish"]) /\ UNCHANGED slots
       ELSE IF X(e).turn = Turns(e) THEN Over(e, "limit")
       ELSE Goes(e, [X(e) EXCEPT !.at = "call", !.todo = calls, !.thread = Append(@, calls)]) /\ UNCHANGED slots
    /\ Others /\ UNCHANGED <<approvals, ran>>
ProviderFails(e) == At(e, "chat") /\ Over(e, "error") /\ Others /\ UNCHANGED <<approvals, ran>>

\* A call is announced; one that is not read-only registers an approval before it asks for it.
Call(e) ==
    /\ At(e, "call")
    /\ IF Head(X(e).todo) \in ReadOnly
       THEN Goes(e, [X(e) EXCEPT !.at = "run", !.verdict = "free"]) /\ UNCHANGED approvals
       ELSE /\ X(e).asks < MaxApprovals
            /\ Goes(e, [X(e) EXCEPT !.at = "ask", !.asks = @ + 1])
            /\ approvals' = [approvals EXCEPT ![<<e, X(e).asks + 1>>].known = TRUE]
    /\ Others /\ UNCHANGED <<slots, ran>>
ShowApproval(e) ==
    /\ At(e, "ask") /\ Goes(e, [X(e) EXCEPT !.at = "wait"])
    /\ approvals' = [approvals EXCEPT ![Approval(e)].shown = TRUE]
    /\ Others /\ UNCHANGED <<slots, ran>>
Receive(e) ==
    /\ At(e, "wait") /\ approvals[Approval(e)].box # "empty"
    /\ Goes(e, [X(e) EXCEPT !.at = "clear", !.verdict = approvals[Approval(e)].box])
    /\ approvals' = [approvals EXCEPT ![Approval(e)].box = "empty"]
    /\ Others /\ UNCHANGED <<slots, ran>>
TimedOut(e) ==
    /\ At(e, "wait") /\ Goes(e, [X(e) EXCEPT !.at = "clear", !.verdict = "late"])
    /\ Others /\ UNCHANGED <<slots, approvals, ran>>
Cleared(e) == [approvals EXCEPT ![Approval(e)].known = FALSE]
Clear(e) ==
    /\ At(e, "clear") /\ Goes(e, [X(e) EXCEPT !.at = "run"])
    /\ approvals' = Cleared(e)
    /\ Others /\ UNCHANGED <<slots, ran>>
\* The tool runs, or its call is declined; either way the model is told.
RunsLate(verdict) == verdict # "no"  \* mutant: no answer in time counts as consent
Runs(verdict) == verdict \in {"free", "yes"}
Run(e) ==
    /\ At(e, "run")
    /\ LET x == X(e) tool == Head(x.todo) rest == Tail(x.todo) IN
       /\ ran' = IF Runs(x.verdict) THEN ran \cup {[at |-> <<e, Len(x.thread)>>, tool |-> tool, approval |-> IF tool \in ReadOnly THEN 0 ELSE x.asks]} ELSE ran
       /\ Goes(e, [x EXCEPT !.thread = Append(@, <<tool>>), !.todo = rest, !.verdict = "none",
                            !.at = IF rest = <<>> THEN "chat" ELSE "call", !.turn = IF rest = <<>> THEN @ + 1 ELSE @])
    /\ Others /\ UNCHANGED <<slots, approvals>>
Finish(e) == At(e, "finish") /\ Over(e, "done") /\ Others /\ UNCHANGED <<approvals, ran>>

\* The client goes; every place that sends or waits may notice it, and one that waits for a decision clears it.
Leave(e) ==
    /\ X(e).at \notin {"idle", "over"} /\ e \notin left /\ left' = left \cup {e}
    /\ UNCHANGED <<exchange, slots, approvals, decisions, ran, decided>>
LeftThere(e) == approvals  \* mutant: the approval of a client that went stays known
Dropped(e) == IF X(e).at \in {"ask", "wait"} THEN Cleared(e) ELSE approvals
Sending == {"start", "chat", "call", "ask", "wait", "run"}  \* mutant: one that waits for a slot does not notice
Noticing == {"start", "acquire", "chat", "call", "ask", "wait", "run"}
Gone(e) ==
    /\ e \in left /\ X(e).at \in Noticing
    /\ Over(e, "gone") /\ approvals' = Dropped(e)
    /\ Others /\ UNCHANGED ran

-----------------------------------------------------------------------------
(* The decision of the user: it finds the channel, and sends without       *)
(* waiting.  A decision that finds none, or a full channel, is refused.    *)

Decide(a, choice) ==
    /\ decided < MaxDecisions /\ decided' = decided + 1
    /\ approvals[a].shown /\ approvals[a].known
    /\ decisions' = decisions \cup {[id |-> a, choice |-> choice]}
    /\ UNCHANGED <<exchange, slots, approvals, left, ran>>
Replaced(a, choice) == [approvals[a] EXCEPT !.box = choice, !.first = IF @ = "none" THEN choice ELSE @]  \* mutant: a second click replaces the first
Sent(a, choice) ==
    IF approvals[a].box # "empty" THEN approvals[a]
    ELSE [approvals[a] EXCEPT !.box = choice, !.first = IF @ = "none" THEN choice ELSE @]
ResumeTool(d) ==
    /\ d \in decisions /\ decisions' = decisions \ {d}
    /\ approvals' = [approvals EXCEPT ![d.id] = Sent(d.id, d.choice)]
    /\ UNCHANGED <<exchange, slots, left, ran, decided>>

Step(e) ==
    \/ Start(e) \/ Acquire(e) \/ ProviderFails(e) \/ Call(e) \/ ShowApproval(e) \/ Receive(e) \/ TimedOut(e) \/ Clear(e)
    \/ Run(e) \/ Finish(e) \/ Gone(e) \/ \E r \in Replies : Answer(e, r)
\* What comes next is the answer of the provider or of a tool, which may never come: the HTTP client of the providers has
\* no timeout, nor has the call of a tool.
Waiting(e) == At(e, "chat") \/ (At(e, "run") /\ Runs(X(e).verdict))
\* The steps the backend takes by itself; it notices that the client went while it waits for an answer, too.
OwnStep(e) == Gone(e) \/ (~Waiting(e) /\ Step(e))
ToolNext ==
    \/ \E e \in Exchanges : Step(e) \/ Leave(e) \/ \E tools \in BOOLEAN : Ask(e, tools)
    \/ \E a \in Approvals : Decide(a, "yes") \/ Decide(a, "no")
    \/ \E d \in decisions : ResumeTool(d)

-----------------------------------------------------------------------------
\* The slots taken are those of the exchanges that hold one, never more than there are.
SlotsRight == slots = Cardinality({e \in Exchanges : Holding(e)}) /\ slots <= MaxPerConn
\* A tool that is not read-only runs on the first decision the user made about that very call, and no call runs twice.
RanApproved ==
    /\ \A r \in ran : r.tool \notin ReadOnly => approvals[<<r.at[1], r.approval>>].first = "yes"
    /\ \A r, q \in ran : r.at = q.at => r = q
\* Whenever the provider is asked, every call it made is followed by its result, in order, before the next turn: some of
\* the messages, Q, are its calls, and the first n messages are nothing but these with their results.
Paired(t, Q, n) ==
    /\ n > 0 => 1 \in Q
    /\ \A i \in Q : LET last == i + Len(t[i]) IN
         /\ last <= n /\ (last = n \/ last + 1 \in Q)
         /\ \A k \in 1..Len(t[i]) : i + k \notin Q /\ t[i + k] = <<t[i][k]>>
Threaded == \A e \in Exchanges : At(e, "chat") => LET t == X(e).thread IN \E Q \in SUBSET (1..Len(t)) : Paired(t, Q, Len(t))
\* An approval that can be decided is one an exchange is waiting for.
NoneForgotten == \A a \in Approvals : approvals[a].known => a = Approval(a[1]) /\ X(a[1]).at \in {"ask", "wait", "clear"}
ToolLoopSound == SlotsRight /\ RanApproved /\ Threaded /\ NoneForgotten
\* An exchange whose client goes ends, whatever the provider and the tools do.  One whose client stays ends too, unless an
\* exchange whose client stays, itself or one that holds the slot, waits for ever for an answer from outside: nothing in
\* the code ends that wait (README, section 6).
Unanswered(e) == Waiting(e) /\ e \notin left
ExchangesEnd ==
    /\ \A e \in Exchanges : e \in left ~> At(e, "over")
    /\ (\A e \in Exchanges : []<>~Unanswered(e)) => \A e \in Exchanges : At(e, "start") ~> At(e, "over")
=============================================================================
