------------------------------ MODULE AiChat --------------------------------
(***************************************************************************)
(* The two places of the console that talk with a model: the playground    *)
(* chat, and the panel inside other screens.                               *)
(***************************************************************************)
EXTENDS Naturals, SequencesExt

(***************************************************************************)
(* The playground chat of the AI hub: the field "chat" of llmStore.ts, the *)
(* view that drives it (PlaygroundView.tsx), the reply streams and the     *)
(* saved conversations of the backend (llmClient.ts).  A store function is *)
(* atomic up to its next await: saveChat and loadConversation go on when   *)
(* the backend has answered, whatever the user did meanwhile.              *)
(*                                                                         *)
(* A message is the number of the send it belongs to; the text of a reply  *)
(* is left out, so that a "delta" changes nothing.                         *)
(***************************************************************************)

CONSTANTS
    Conns,      \* the connection and model picks
    Scripts,    \* what the backend may reply: sequences of events, ending in "end" or "error"
    MaxSends,   \* bound: messages sent
    MaxChats,   \* bound: chats begun (started, cleared or loaded)
    MaxCalls,   \* bound: save and load calls in flight, each
    MaxRows     \* bound: conversations saved

VARIABLES
    chat,       \* the chat shown, or NoChat
    chats,      \* chats begun so far
    streams,    \* reply streams: the chat, the turn of the reply, script, events delivered, state, decision
    pick,       \* the connection picked in the view
    saves,      \* saveConversation calls in flight, a sequence
    loads,      \* getConversation calls in flight: row ids
    convRows,   \* saved conversations, by id: the chat and its messages
    decisions,  \* history: stream -> decisions sent for its tool call
    autoSave,
    late        \* history: "reply" once an earlier stream has closed while a later one replies,
                \* "save" once a save was answered when another chat is shown

chatVars == <<chat, chats, streams, pick, saves, loads, convRows, decisions, autoSave, late>>

Empty(no, c) == [no |-> no, conn |-> c, turns |-> <<>>, busy |-> FALSE, savedId |-> 0, stream |-> 0]
NoChat == Empty(0, 0)
Begun == chat.no # 0

User(n) == [role |-> "user", of |-> n, state |-> "done", step |-> "none"]
Reply(n) == [role |-> "assistant", of |-> n, state |-> "streaming", step |-> "none"]

Init ==
    /\ chat = NoChat /\ chats = 0
    /\ streams = <<>> /\ decisions = <<>>
    /\ pick \in Conns
    /\ saves = <<>> /\ loads = {}
    /\ convRows = <<>>
    /\ autoSave \in BOOLEAN
    /\ late = {}

-----------------------------------------------------------------------------
(* What the view offers.                                                   *)

SendOffered == IF chat.busy THEN "stop" ELSE "send"
Toolbar == IF chat.turns = <<>> THEN {} ELSE IF chat.busy THEN {"clear"} ELSE {"save", "clear"}

KeepStreams(ss) == ss  \* mutant: the chat that is left keeps its stream
Aborted(ss) ==
    IF chat.stream = 0 \/ ss[chat.stream].state # "open" THEN ss
    ELSE [ss EXCEPT ![chat.stream].state = "aborted"]

\* A pick matters to the next chat only, so that there is none after the last one; what is picked before the
\* first is in Init.
PickConnection(c) ==
    /\ Begun /\ chats < MaxChats
    /\ pick' = c
    /\ UNCHANGED <<chat, chats, streams, saves, loads, convRows, decisions, autoSave, late>>

-----------------------------------------------------------------------------
(* Sending.  The view starts another chat when its picks are not those of  *)
(* the chat shown; the store drops a message sent while it is busy.  The   *)
(* draft and the attachments go with the message, kept or dropped.         *)

NeedsChat == ~Begun \/ chat.conn # pick
EnsuredChat == IF NeedsChat THEN Empty(chats + 1, pick) ELSE chat
EnsuredStreams == IF NeedsChat THEN Aborted(streams) ELSE streams

\* The messages of a request, before its own: the turns that did not fail.
AllTurns(ts) == ts  \* mutant: failed replies are sent again
Outgoing(ts) ==
    LET kept[n \in 0..Len(ts)] == IF n = 0 THEN <<>> ELSE IF ts[n].state = "error" THEN kept[n - 1] ELSE Append(kept[n - 1], ts[n])
    IN  kept[Len(ts)]

SendMessage(c, ss, script) ==
    LET n == Len(ss) + 1
    IN /\ streams' = Append(ss, [chat |-> c.no, turn |-> Len(c.turns) + 2, script |-> script, at |-> 0, state |-> "open",
                                 sent |-> {t.of : t \in {u \in Range(Outgoing(c.turns)) : u.role = "assistant"}}])
       /\ chat' = [c EXCEPT !.busy = TRUE, !.stream = n, !.turns = c.turns \o <<User(n), Reply(n)>>]
       /\ decisions' = Append(decisions, 0)

Send(script) ==
    /\ Len(streams) < MaxSends
    /\ NeedsChat => chats < MaxChats
    /\ chats' = IF NeedsChat THEN chats + 1 ELSE chats
    /\ IF EnsuredChat.busy THEN UNCHANGED <<chat, streams, decisions>>
       ELSE SendMessage(EnsuredChat, EnsuredStreams, script)
    /\ UNCHANGED <<pick, saves, loads, convRows, autoSave, late>>

-----------------------------------------------------------------------------
(* The reply.  Every handler writes to the last turn of the chat shown.    *)

SaveCall(c) == [id |-> c.savedId, chat |-> c.no, conn |-> c.conn, messages |-> Outgoing(c.turns)]
MaySave(c) ==
    /\ Len(saves) < MaxCalls
    /\ c.savedId = 0 => Len(convRows) + Len(saves) < MaxRows

\* sendMessage's onEvent: the last turn after event e.
StepAfter(e, step) ==
    IF e = "tool-call" THEN "called" ELSE IF e = "tool-approval" THEN "asking" ELSE IF e = "tool-result" THEN "done" ELSE step
TurnAfter(e, t) ==
    [t EXCEPT !.step = StepAfter(e, @),
              !.state = IF e = "end" THEN "done" ELSE IF e = "error" THEN "error" ELSE @]
Folded(c, e) ==
    IF c.turns = <<>> THEN c
    ELSE [c EXCEPT !.turns[Len(c.turns)] = TurnAfter(e, @), !.busy = e \notin {"end", "error"}]

\* The backend sends the result of a tool when it was decided on, or timed out.
Deliver(s) ==
    LET st == streams[s]
        e == st.script[st.at + 1]
        c == Folded(chat, e)
        saving == e = "end" /\ autoSave /\ c.turns # <<>>
    IN /\ st.state = "open"
       /\ st.at < Len(st.script)
       /\ streams' = [streams EXCEPT ![s].at = @ + 1]
       /\ chat' = c
       /\ saving => MaySave(c)
       /\ saves' = IF saving THEN Append(saves, SaveCall(c)) ELSE saves
       /\ UNCHANGED <<chats, pick, loads, convRows, decisions, autoSave, late>>

\* The chat has gone on to another stream, which still replies.
Overtaken(s) == s # chat.stream /\ chat.busy
Noted(what, when) == late' = IF when THEN late \cup {what} ELSE late

\* The server closes the connection after the last event; the user may have sent again.
CloseStream(s) ==
    /\ streams[s].state = "open"
    /\ streams[s].at = Len(streams[s].script)
    /\ streams' = [streams EXCEPT ![s].state = "closed"]
    /\ chat' = [chat EXCEPT !.busy = FALSE]
    /\ Noted("reply", Overtaken(s))
    /\ UNCHANGED <<chats, pick, saves, loads, convRows, decisions, autoSave>>

\* The connection breaks: onError.
BreakStream(s) ==
    /\ streams[s].state = "open"
    /\ streams' = [streams EXCEPT ![s].state = "closed"]
    /\ chat' = [chat EXCEPT !.busy = FALSE,
                            !.turns = IF @ = <<>> THEN @ ELSE [@ EXCEPT ![Len(@)].state = "error"]]
    /\ Noted("reply", Overtaken(s))
    /\ UNCHANGED <<chats, pick, saves, loads, convRows, decisions, autoSave>>

\* The buttons of a paused tool call disappear before the decision is sent.
FlagStays(t) == t  \* mutant: the buttons stay until the result arrives
FlagDropped(t) == [t EXCEPT !.step = "called"]
ResumeToolCall(k) ==
    /\ chat.turns[k].step = "asking"
    /\ chat' = [chat EXCEPT !.turns[k] = FlagDropped(@)]
    /\ decisions[chat.turns[k].of] < 2
    /\ decisions' = [decisions EXCEPT ![chat.turns[k].of] = @ + 1]
    /\ UNCHANGED <<chats, streams, pick, saves, loads, convRows, autoSave, late>>

StopChat ==
    /\ SendOffered = "stop"
    /\ streams' = Aborted(streams)
    /\ chat' = [chat EXCEPT !.busy = FALSE,
                            !.turns = IF @ # <<>> /\ @[Len(@)].state = "streaming" THEN [@ EXCEPT ![Len(@)].state = "done"] ELSE @]
    /\ UNCHANGED <<chats, pick, saves, loads, convRows, decisions, autoSave, late>>

RowKept == [chat EXCEPT !.no = chats + 1, !.turns = <<>>, !.busy = FALSE]  \* mutant: the row of the chat before
Cleared == [chat EXCEPT !.no = chats + 1, !.turns = <<>>, !.busy = FALSE, !.savedId = 0]
ResetChat ==
    /\ "clear" \in Toolbar
    /\ chats < MaxChats
    /\ chats' = chats + 1
    /\ streams' = Aborted(streams)
    /\ chat' = Cleared
    /\ UNCHANGED <<pick, saves, loads, convRows, decisions, autoSave, late>>

-----------------------------------------------------------------------------
(* Saved conversations.                                                    *)

\* The switch matters to a reply that is still to end.
SetAutoSave ==
    /\ Len(streams) < MaxSends \/ chat.busy
    /\ autoSave' = ~autoSave
    /\ UNCHANGED <<chat, chats, streams, pick, saves, loads, convRows, decisions, late>>

SaveChat ==
    /\ "save" \in Toolbar
    /\ MaySave(chat)
    /\ saves' = Append(saves, SaveCall(chat))
    /\ UNCHANGED <<chat, chats, streams, pick, loads, convRows, decisions, autoSave, late>>

\* A row that was deleted keeps its id here, so that ids are never used again.
Live(id) == convRows[id].chat # 0

\* The backend refuses to update a row that is gone, and creates one for id 0;
\* the answer is the id of the chat that is shown by now.
Saved(k) ==
    LET call == saves[k]
        row == [chat |-> call.chat, conn |-> call.conn, messages |-> call.messages]
    IN /\ saves' = RemoveAt(saves, k)
       /\ IF call.id = 0
            THEN convRows' = Append(convRows, row) /\ chat' = [chat EXCEPT !.savedId = Len(convRows) + 1]
          ELSE IF Live(call.id)
            THEN convRows' = [convRows EXCEPT ![call.id] = row] /\ chat' = [chat EXCEPT !.savedId = call.id]
          ELSE UNCHANGED <<convRows, chat>>
       /\ Noted("save", call.chat # chat.no)
       /\ UNCHANGED <<chats, streams, pick, loads, decisions, autoSave>>

LoadConversation(id) ==
    /\ Live(id)
    /\ Cardinality(loads) < MaxCalls
    /\ loads' = loads \cup {id}
    /\ UNCHANGED <<chat, chats, streams, pick, saves, convRows, decisions, autoSave, late>>

Loaded(id) ==
    /\ id \in loads
    /\ loads' = loads \ {id}
    /\ IF Live(id)
         THEN /\ streams' = Aborted(streams)
              /\ chat' = [Empty(convRows[id].chat, convRows[id].conn) EXCEPT !.savedId = id,
                             !.turns = [k \in DOMAIN convRows[id].messages |-> [convRows[id].messages[k] EXCEPT !.state = "done"]]]
         ELSE UNCHANGED <<streams, chat>>
    /\ UNCHANGED <<chats, pick, saves, convRows, decisions, autoSave, late>>

IdDropped(id) == IF chat.savedId = id THEN [chat EXCEPT !.savedId = 0] ELSE chat
DeleteConversation(id) ==
    /\ Live(id)
    /\ convRows' = [convRows EXCEPT ![id].chat = 0]
    /\ chat' = IdDropped(id)
    /\ UNCHANGED <<chats, streams, pick, saves, loads, decisions, autoSave, late>>

UserStep ==
    \/ \E c \in Conns : PickConnection(c)
    \/ \E script \in Scripts : Send(script)
    \/ \E k \in DOMAIN chat.turns : ResumeToolCall(k)
    \/ StopChat
    \/ ResetChat
    \/ SetAutoSave
    \/ SaveChat
    \/ \E id \in DOMAIN convRows : LoadConversation(id) \/ DeleteConversation(id)

Backend ==
    \/ \E s \in DOMAIN streams : Deliver(s) \/ CloseStream(s) \/ BreakStream(s)
    \/ \E k \in DOMAIN saves : Saved(k)
    \/ \E id \in loads : Loaded(id)

Next == UserStep \/ Backend

Spec == Init /\ [][Next]_chatVars

-----------------------------------------------------------------------------
\* Every variable has its type.
TypeOK ==
    /\ Begun => /\ chat.no \in 1..MaxChats /\ chat.conn \in Conns /\ chat.stream \in 0..Len(streams)
                /\ chat.savedId \in DOMAIN convRows \cup {0}
    /\ chats \in 0..MaxChats
    /\ DOMAIN decisions = DOMAIN streams
    /\ \A s \in DOMAIN streams : streams[s].state \in {"open", "closed", "aborted"} /\ streams[s].at \in 0..Len(streams[s].script)
    /\ \A k \in DOMAIN chat.turns : chat.turns[k].role = "assistant" => chat.turns[k].of \in DOMAIN streams
    /\ DOMAIN convRows \subseteq 1..MaxRows
    /\ late \subseteq {"reply", "save"}

\* What a reply stream still brings goes to the turn it was opened for, in the chat
\* that is shown, and that chat is busy until then (llmStore.ts: startChat, resetChat
\* and loadConversation abort the stream of the chat they leave).  The message after a
\* reply may be sent before the stream of that reply closes, and its close then ends the
\* "busy" of the next one (README, section 6).
RepliesInPlace ==
    "reply" \notin late => \A s \in DOMAIN streams :
        streams[s].state = "open" /\ streams[s].at < Len(streams[s].script)
            => /\ chat.no = streams[s].chat
               /\ Len(chat.turns) = streams[s].turn /\ chat.turns[streams[s].turn].of = s
               /\ chat.busy

\* A reply that failed is not part of any later request, nor of a saved conversation:
\* sendMessage and saveChat both leave it out.
FailedNotResent ==
    "reply" \notin late => \A s \in DOMAIN streams :
        LET st == streams[s]
            failed == \/ st.at > 0 /\ st.script[st.at] = "error"
                      \/ st.state = "closed" /\ st.at < Len(st.script)
        IN failed => /\ \A later \in DOMAIN streams : s \notin streams[later].sent
                     /\ \A id \in DOMAIN convRows : \A k \in DOMAIN convRows[id].messages :
                           convRows[id].messages[k].role = "assistant" => convRows[id].messages[k].of # s

\* While its stream runs, a tool call is decided on at most once, however often the
\* buttons are clicked and whatever else the chat shows in between.
DecidedOnce ==
    "reply" \notin late =>
        \A s \in DOMAIN streams : streams[s].state = "open" /\ streams[s].at < Len(streams[s].script) => decisions[s] <= 1

\* A chat is saved to a row of its own: the next save of another chat never overwrites it,
\* unless the answer to a save found another chat shown (README, section 6).
SavedApart ==
    "save" \notin late =>
        /\ chat.savedId # 0 => convRows[chat.savedId].chat = chat.no
        /\ \A k \in DOMAIN saves : saves[k].id # 0 => convRows[saves[k].id].chat \in {saves[k].chat, 0}

-----------------------------------------------------------------------------
(***************************************************************************)
(* The panel that runs a grounded AI task inside another screen: the hook  *)
(* useLlm.ts and the component AiPanel.tsx.  The hook folds the events of  *)
(* one stream into its state; in chat mode an effect of the panel commits  *)
(* the reply to the turn list when the run is over.  The effect follows    *)
(* the update that ends the run and precedes the next event, so it is part *)
(* of the same action.                                                     *)
(***************************************************************************)

CONSTANTS
    PanelScripts, \* what a task run may send: sequences of events, ending in "end" or "error"
    MaxRuns       \* bound: runs started

VARIABLES
    mode,      \* "oneshot" or "chat"
    run,       \* useLlm's state: running, the stream its text is of, its length, parsed, step, error
    turns,     \* chat: the committed turns, <<role, run>>
    pending,   \* pendingRef: a reply is to be committed
    runs,      \* the streams: script, events delivered, state
    accepted   \* history: the results handed to the host screen

panelVars == <<mode, run, turns, pending, runs, accepted>>

NoRun == [running |-> FALSE, of |-> 0, text |-> 0, parsed |-> FALSE, step |-> "none", error |-> FALSE]

PanelInit ==
    /\ mode \in {"oneshot", "chat"}
    /\ run = NoRun
    /\ turns = <<>> /\ pending = FALSE
    /\ runs = <<>>
    /\ accepted = {}

StreamKept == runs  \* mutant: a new run leaves the stream of the one before it open
Stopped == IF runs # <<>> /\ Last(runs).state = "open" THEN [runs EXCEPT ![Len(runs)].state = "aborted"] ELSE runs

-----------------------------------------------------------------------------
(* The effect that commits a reply.                                        *)

CommitsNow(r) == mode = "chat" /\ ~r.running /\ pending
Committed(r) == r.text > 0 \/ r.step # "none"

\* The next state of the hook is r and its streams are ss: the effect runs on it.
Settle(r, ss) ==
    IF ~CommitsNow(r) THEN run' = r /\ runs' = ss /\ UNCHANGED <<turns, pending>>
    ELSE /\ pending' = FALSE
         /\ IF r.error THEN run' = r /\ runs' = ss /\ UNCHANGED turns
            ELSE /\ turns' = IF Committed(r) THEN Append(turns, <<"assistant", r.of>>) ELSE turns
                 /\ run' = NoRun
                 /\ runs' = IF ss # <<>> /\ Last(ss).state = "open" THEN [ss EXCEPT ![Len(ss)].state = "aborted"] ELSE ss

-----------------------------------------------------------------------------
(* The user.                                                               *)

PanelOffered ==
    IF run.running THEN {"cancel"}
    ELSE (IF mode = "chat" THEN {"send"} ELSE {"run"})
         \cup (IF mode = "chat" /\ turns # <<>> THEN {"clear conversation"} ELSE {})
         \cup (IF mode = "oneshot" /\ (run.text > 0 \/ run.error) THEN {"clear"} ELSE {})
         \cup (IF mode = "oneshot" /\ run.text > 0 THEN {"accept", "discard"} ELSE {})

ParsedKept(n) == [run EXCEPT !.running = TRUE, !.of = n, !.text = 0]  \* mutant: what was parsed before is kept
FreshRun(n) == [NoRun EXCEPT !.running = TRUE, !.of = n]
Started(script) ==
    /\ Len(runs) < MaxRuns
    /\ runs' = Append(Stopped, [script |-> script, at |-> 0, state |-> "open"])
    /\ run' = FreshRun(Len(runs) + 1)

RunOnce(script) ==
    /\ "run" \in PanelOffered
    /\ Started(script)
    /\ UNCHANGED <<mode, turns, pending, accepted>>

NotAsked(n) == turns  \* mutant: the message is left out of the turns
Asked(n) == Append(turns, <<"user", n>>)
SendChat(script) ==
    /\ "send" \in PanelOffered
    /\ Started(script)
    /\ turns' = Asked(Len(runs) + 1)
    /\ pending' = TRUE
    /\ UNCHANGED <<mode, accepted>>

Cancel ==
    /\ "cancel" \in PanelOffered
    /\ Settle([run EXCEPT !.running = FALSE], Stopped)
    /\ UNCHANGED <<mode, accepted>>

\* Clear, Discard and Clear conversation: the hook's reset.
Reset ==
    /\ {"clear", "discard", "clear conversation"} \cap PanelOffered # {}
    /\ run' = NoRun /\ runs' = Stopped
    /\ turns' = <<>>
    /\ UNCHANGED <<mode, pending, accepted>>

\* A task whose output is JSON is accepted once it was parsed.
Accept(json) ==
    /\ "accept" \in PanelOffered
    /\ json => run.parsed
    /\ accepted' = accepted \cup {[run |-> run.of, json |-> json]}
    /\ run' = NoRun /\ runs' = Stopped
    /\ UNCHANGED <<mode, turns, pending>>

ApprovePanel ==
    /\ run.step = "asking"
    /\ run' = [run EXCEPT !.step = "called"]
    /\ UNCHANGED <<mode, turns, pending, runs, accepted>>

-----------------------------------------------------------------------------
(* The stream.                                                             *)

FoldEvent(e) ==
    [run EXCEPT !.text = IF e = "delta" THEN @ + 1 ELSE @,
                !.parsed = @ \/ e = "parsed",
                !.step = StepAfter(e, @),
                !.running = @ /\ e \notin {"end", "error"},
                !.error = @ \/ e = "error"]

OnEvent(s) ==
    /\ runs[s].state = "open"
    /\ runs[s].at < Len(runs[s].script)
    /\ Settle(FoldEvent(runs[s].script[runs[s].at + 1]), [runs EXCEPT ![s].at = @ + 1])
    /\ UNCHANGED <<mode, accepted>>

\* onClose; onError when the connection breaks.
OnClose(s) ==
    /\ runs[s].state = "open"
    /\ Settle([run EXCEPT !.running = FALSE, !.error = @ \/ runs[s].at < Len(runs[s].script)],
              [runs EXCEPT ![s].state = "closed"])
    /\ UNCHANGED <<mode, accepted>>

PanelNext ==
    \/ \E script \in PanelScripts : RunOnce(script) \/ SendChat(script)
    \/ Cancel \/ Reset \/ ApprovePanel
    \/ \E json \in BOOLEAN : Accept(json)
    \/ \E s \in DOMAIN runs : OnEvent(s) \/ OnClose(s)

PanelSpec == PanelInit /\ [][PanelNext]_panelVars

-----------------------------------------------------------------------------
\* A committed reply follows the message it answers, once, whether the run ended, was
\* cancelled or broke (AiPanel.tsx commits when running turns false).
RepliesInOrder ==
    \A i \in DOMAIN turns :
        turns[i][1] = "assistant" => i > 1 /\ turns[i - 1] = <<"user", turns[i][2]>>

\* Only the latest run feeds the panel: the stream of an earlier one is never open, and
\* what is shown is no more than the latest run has sent.
OnlyLatestRun ==
    /\ \A s \in DOMAIN runs : runs[s].state = "open" => s = Len(runs)
    /\ run.of # 0 => run.of = Len(runs) /\ run.text <= runs[run.of].at

\* A JSON result that is accepted was parsed from the run it is accepted from.
AcceptedWasParsed ==
    \A a \in accepted : a.json => \E i \in 1..runs[a.run].at : runs[a.run].script[i] = "parsed"
=============================================================================
