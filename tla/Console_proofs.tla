--------------------------- MODULE Console_proofs ---------------------------
(***************************************************************************)
(* Proofs about the screens and stores of the console.                     *)
(***************************************************************************)
EXTENDS MCConsole, SequenceTheorems, WellFoundedInduction, TLAPS

-----------------------------------------------------------------------------
(* Induction over data: a non-empty set of numbers has a least one, so a   *)
(* statement about every prefix of a sequence has no first counterexample. *)

LEMMA LeastNumber ==
    ASSUME NEW T, T \subseteq Nat, T # {}
    PROVE  \E x \in T : \A y \in T : x <= y
<1> DEFINE less == {p \in Nat \X Nat : p[1] < p[2]}
<1>0. OpToRel(<, Nat) = less BY DEF OpToRel
<1>1. IsWellFoundedOn(less, Nat) BY <1>0, NatLessThanWellFounded
<1>2. PICK x \in T : \A y \in T : ~(<<y, x>> \in less) BY <1>1, WFMin
<1>3. ASSUME NEW y \in T, y < x PROVE FALSE
  <2>1. <<y, x>> \in less BY <1>3
  <2>2. QED BY <2>1, <1>2
<1>4. QED BY <1>3

-----------------------------------------------------------------------------
(***************************************************************************)
(* The chat.                                                               *)
(***************************************************************************)

\* The messages of a request are turns of the chat, none of them failed.
LEMMA OutgoingKeeps ==
    ASSUME NEW S, NEW ts \in Seq(S)
    PROVE  /\ A!Outgoing(ts) \in Seq(S)
           /\ \A k \in DOMAIN A!Outgoing(ts) : A!Outgoing(ts)[k].state # "error" /\ \E j \in DOMAIN ts : A!Outgoing(ts)[k] = ts[j]
<1> DEFINE step1(f, n) == IF n = 0 THEN << >> ELSE IF ts[n].state = "error" THEN f[n - 1] ELSE Append(f[n - 1], ts[n])
           isPrefix(f, m) == f = [n \in 0..m |-> step1(f, n)]
           pre == CHOOSE f : isPrefix(f, Len(ts))
           missing == {m \in 0..Len(ts) : ~\E f : isPrefix(f, m)}
           fine(s) == s \in Seq(S) /\ \A k \in DOMAIN s : s[k].state # "error" /\ \E j \in DOMAIN ts : s[k] = ts[j]
           wrong == {m \in 0..Len(ts) : ~fine(pre[m])}
<1>1. Len(ts) \in Nat OBVIOUS
<1>2. missing = {}
  <2>1. SUFFICES ASSUME missing # {} PROVE FALSE OBVIOUS
  <2>a. missing \subseteq Nat BY <1>1
  <2>b. \E x \in missing : \A y \in missing : x <= y
    <3> HIDE DEF missing
    <3> QED BY <2>1, <2>a, LeastNumber
  <2>2. PICK x \in missing : \A y \in missing : x <= y BY <2>b
  <2>c. x \in 0..Len(ts) /\ x \in Nat BY <1>1
  <2>3. x # 0
    <3>1. isPrefix([n \in 0..0 |-> << >>], 0) OBVIOUS
    <3>2. QED BY <3>1
  <2>4. x - 1 \in 0..Len(ts) /\ x - 1 \notin missing
    <3>1. x - 1 \in 0..Len(ts) /\ ~(x <= x - 1) BY <1>1, <2>c, <2>3
    <3> HIDE DEF missing
    <3>2. QED BY <3>1, <2>2
  <2>5. PICK f : isPrefix(f, x - 1) BY <2>4
  <2> DEFINE g == [n \in 0..x |-> IF n = x THEN step1(f, x) ELSE f[n]]
  <2>6. isPrefix(g, x)
    <3>1. \A n \in 0..x : g[n] = step1(g, n)
      <4>1. TAKE n \in 0..x
      <4>2. CASE n = x BY <4>2, <2>3
      <4>3. CASE n # x 
        <5>1. n \in 0..(x - 1) BY <4>3
        <5>2. g[n] = f[n] BY <5>1
        <5>3. f[n] = step1(f, n) BY <2>5, <5>1
        <5>4. n # 0 => g[n - 1] = f[n - 1] BY <5>1
        <5>5. QED BY <5>2, <5>3, <5>4
      <4>4. QED BY <4>2, <4>3
    <3>2. QED BY <3>1
  <2>7. QED BY <2>6
<1>3. isPrefix(pre, Len(ts))
  <2>1. Len(ts) \in 0..Len(ts) BY <1>1
  <2>2. \E f : isPrefix(f, Len(ts)) BY <1>2, <2>1
  <2> HIDE DEF isPrefix
  <2>3. QED BY <2>2
<1>4. A!Outgoing(ts) = pre[Len(ts)] BY DEF A!Outgoing
<1>5. \A n \in 0..Len(ts) : pre[n] = step1(pre, n) BY <1>3
<1>6. wrong = {}
  <2>1. SUFFICES ASSUME wrong # {} PROVE FALSE OBVIOUS
  <2>a. wrong \subseteq Nat BY <1>1
  <2>b. \E x \in wrong : \A y \in wrong : x <= y
    <3> HIDE DEF wrong
    <3> QED BY <2>1, <2>a, LeastNumber
  <2>2. PICK x \in wrong : \A y \in wrong : x <= y BY <2>b
  <2>c. x \in 0..Len(ts) /\ x \in Nat BY <1>1
  <2>3. x # 0 
    <3>1. pre[0] = << >>
      <4>1. 0 \in 0..Len(ts) BY <1>1
      <4> HIDE DEF pre
      <4>2. QED BY <4>1, <1>5
    <3>2. fine(<< >>) OBVIOUS
    <3> HIDE DEF fine, pre
    <3>3. QED
      <4> HIDE DEF fine, pre
      <4> QED BY <3>1, <3>2
  <2>4. fine(pre[x - 1])
    <3>1. x - 1 \in 0..Len(ts) /\ ~(x <= x - 1) BY <1>1, <2>c, <2>3
    <3>2. x - 1 \notin wrong
      <4> HIDE DEF wrong
      <4> QED BY <3>1, <2>2
    <3> HIDE DEF fine, pre
    <3>3. QED BY <3>1, <3>2
  <2>5. pre[x] = step1(pre, x) BY <1>5
  <2>6. ts[x] \in S /\ x \in DOMAIN ts BY <2>3
  <2> HIDE DEF pre
  <2>7. fine(pre[x]) 
    <3>1. CASE ts[x].state = "error" BY <3>1, <2>5, <2>3, <2>4
    <3>2. CASE ts[x].state # "error" 
       <4>1. pre[x] = Append(pre[x - 1], ts[x]) BY <3>2, <2>5, <2>3
       <4>2. QED BY <4>1, <3>2, <2>4, <2>6
    <3>3. QED BY <3>1, <3>2
  <2>8. QED BY <2>7
<1>7. fine(pre[Len(ts)])
  <2>1. Len(ts) \in 0..Len(ts) BY <1>1
  <2> HIDE DEF fine, pre
  <2>2. QED BY <2>1, <1>6
<1>8. QED
  <2> HIDE DEF pre
  <2> QED BY <1>7, <1>4

TurnType == [role : {"user", "assistant"}, of : Nat, state : {"done", "streaming", "error"}, step : {"none", "called", "asking", "done"}]
StreamType == [chat : 1..MaxChats, turn : Nat, script : Scripts, at : Nat, state : {"open", "closed", "aborted"}, sent : SUBSET Nat]
ChatType == [no : 0..MaxChats, conn : Conns \cup {0}, turns : Seq(TurnType), busy : BOOLEAN, savedId : Nat, stream : Nat]
RowType == [chat : 0..MaxChats, conn : Conns, messages : Seq(TurnType)]
CallType == [id : Nat, chat : 1..MaxChats, conn : Conns, messages : Seq(TurnType)]

\* A stream that still brings something; one whose reply failed; one that is over without a failure, for good.
Running(st) == st.state = "open" /\ st.at < Len(st.script)
Failed(st) == (st.at > 0 /\ st.script[st.at] = "error") \/ (st.state = "closed" /\ st.at < Len(st.script))
Settled(ss, s) == s \in DOMAIN ss /\ ~Running(ss[s]) /\ ~Failed(ss[s])
Asks(st) == \E i \in 1..st.at : st.script[i] = "tool-approval"
AllSettled(ss, ms) == \A k \in DOMAIN ms : ms[k].of \in DOMAIN ss /\ (ms[k].role = "assistant" => Settled(ss, ms[k].of))

ChatTyped ==
    /\ chat \in ChatType /\ (chat.no = 0 => chat.turns = <<>>) /\ (chat.no # 0 => chat.conn \in Conns)
    /\ pick \in Conns /\ chats \in 0..MaxChats
    /\ chat.stream <= Len(streams) /\ chat.savedId <= Len(convRows)
StreamsTyped ==
    /\ streams \in Seq(StreamType) /\ \A s \in DOMAIN streams : streams[s].at <= Len(streams[s].script)
    /\ decisions \in Seq(Nat) /\ Len(decisions) = Len(streams)
RowsTyped ==
    /\ convRows \in Seq(RowType) /\ Len(convRows) <= MaxRows
    /\ saves \in Seq(CallType)
    /\ \A k \in DOMAIN saves : saves[k].id <= Len(convRows) /\ (saves[k].id = 0 => Len(convRows) + k <= MaxRows)
    /\ loads \subseteq DOMAIN convRows

\* The one stream that still replies is the last, and its reply is the last turn of the chat.
RunsLast ==
    \A s \in DOMAIN streams : Running(streams[s]) =>
        /\ s = Len(streams) /\ chat.stream = s /\ chat.no = streams[s].chat
        /\ chat.turns # <<>> /\ Len(chat.turns) = streams[s].turn
        /\ chat.turns[streams[s].turn].of = s /\ chat.turns[streams[s].turn].role = "assistant"
        /\ chat.busy
        /\ \A k \in DOMAIN chat.turns : chat.turns[k].of = s /\ k # Len(chat.turns) => chat.turns[k].role = "user" /\ chat.turns[k].step = "none"
TurnsKnown ==
    \A k \in DOMAIN chat.turns :
        /\ chat.turns[k].of \in DOMAIN streams
        /\ chat.turns[k].role = "assistant" /\ Failed(streams[chat.turns[k].of]) => chat.turns[k].state = "error"
SentSettled == \A s \in DOMAIN streams : \A o \in streams[s].sent : Settled(streams, o)
KeptSettled ==
    /\ \A id \in DOMAIN convRows : AllSettled(streams, convRows[id].messages)
    /\ \A k \in DOMAIN saves : AllSettled(streams, saves[k].messages)
OnceAsked ==
    \A s \in DOMAIN streams : Running(streams[s]) =>
        /\ chat.turns[Len(chat.turns)].step = "asking" => decisions[s] = 0 /\ Asks(streams[s])
        /\ decisions[s] # 0 => decisions[s] = 1 /\ Asks(streams[s])

ChatInv == ChatTyped /\ StreamsTyped /\ RowsTyped /\ RunsLast /\ TurnsKnown /\ SentSettled /\ KeptSettled /\ OnceAsked

\* The bounds and the scripts are as the console assumes.
LEMMA ScriptFacts ==
    /\ MaxChats \in Nat /\ MaxRows \in Nat
    /\ \A s \in Scripts : /\ Len(s) \in Nat /\ Len(s) > 0 /\ DOMAIN s = 1..Len(s)
                          /\ \A i \in 1..Len(s) : s[i] \in {"end", "error"} <=> i = Len(s)
                          /\ \A i, j \in 1..Len(s) : s[i] = "tool-approval" /\ s[j] = "tool-approval" => i = j
<1>1. MaxChats \in Nat /\ MaxRows \in Nat BY ConsoleAssumption
<1>2. ASSUME NEW s \in Scripts
      PROVE  /\ Len(s) \in Nat /\ Len(s) > 0 /\ DOMAIN s = 1..Len(s)
             /\ \A i \in 1..Len(s) : s[i] \in {"end", "error"} <=> i = Len(s)
             /\ \A i, j \in 1..Len(s) : s[i] = "tool-approval" /\ s[j] = "tool-approval" => i = j
  <2>1. s \in Seq({"delta", "tool-call", "tool-approval", "tool-result", "end", "error"}) /\ s # <<>> BY ConsoleAssumption
  <2>2. Len(s) \in Nat /\ DOMAIN s = 1..Len(s) /\ Len(s) > 0 BY <2>1
  <2>3. QED BY <2>2, ConsoleAssumption
<1>3. QED BY <1>1, <1>2

\* Aborting the stream of the chat leaves none that replies, and changes nothing else about any stream.
LEMMA AbortedOver ==
    ASSUME ChatInv
    PROVE  LET ss == A!Aborted(streams) IN
           /\ ss \in Seq(StreamType) /\ Len(ss) = Len(streams)
           /\ \A s \in DOMAIN streams : /\ ~Running(ss[s])
                                        /\ ss[s].at = streams[s].at /\ ss[s].script = streams[s].script /\ ss[s].sent = streams[s].sent
                                        /\ Failed(ss[s]) <=> Failed(streams[s])
                                        /\ Settled(streams, s) => Settled(ss, s)
<1> DEFINE ss == A!Aborted(streams)
<1>0. streams \in Seq(StreamType) /\ chat.stream \in Nat /\ chat.stream <= Len(streams) BY DEF ChatInv, ChatTyped, StreamsTyped, ChatType
<1>1. \A s \in DOMAIN streams : Running(streams[s]) => chat.stream = s BY DEF ChatInv, RunsLast
<1>2. CASE chat.stream = 0 \/ streams[chat.stream].state # "open"
  <2>1. ss = streams BY <1>2 DEF A!Aborted
  <2>2. \A s \in DOMAIN streams : s # 0 BY <1>0
  <2>3. \A s \in DOMAIN streams : ~Running(streams[s]) BY <1>2, <1>1, <2>2 DEF Running
  <2>4. QED BY <2>1, <2>3, <1>0 DEF Running
<1>3. CASE ~(chat.stream = 0 \/ streams[chat.stream].state # "open")
  <2> DEFINE c == chat.stream
  <2>1. c \in DOMAIN streams /\ streams[c] \in StreamType BY <1>3, <1>0
  <2>2. ss = [streams EXCEPT ![c].state = "aborted"] BY <1>3 DEF A!Aborted
  <2>3. ss[c] = [streams[c] EXCEPT !.state = "aborted"] /\ \A s \in DOMAIN streams : s # c => ss[s] = streams[s] BY <2>1, <2>2, <1>0
  <2>4. ss[c] \in StreamType /\ ss[c].state = "aborted" /\ ss[c].at = streams[c].at /\ ss[c].script = streams[c].script /\ ss[c].sent = streams[c].sent
    BY <2>1, <2>3 DEF StreamType
  <2>5. ss \in Seq(StreamType) /\ Len(ss) = Len(streams) /\ DOMAIN ss = DOMAIN streams
    <3>1. ss = [streams EXCEPT ![c] = [streams[c] EXCEPT !.state = "aborted"]] BY <2>2
    <3>2. [streams[c] EXCEPT !.state = "aborted"] \in StreamType BY <2>3, <2>4
    <3>3. QED BY <3>1, <3>2, <2>1, <1>0
  <2>6. streams[c].state = "open" BY <1>3
  <2>7. \A s \in DOMAIN streams : s # c => ~Running(streams[s]) BY <1>1
  <2> HIDE DEF ss, c
  <2>8. ASSUME NEW s \in DOMAIN streams
        PROVE  /\ ~Running(ss[s])
               /\ ss[s].at = streams[s].at /\ ss[s].script = streams[s].script /\ ss[s].sent = streams[s].sent
               /\ Failed(ss[s]) <=> Failed(streams[s])
               /\ Settled(streams, s) => Settled(ss, s)
    <3>1. CASE s = c BY <3>1, <2>4, <2>5, <2>6 DEF Running, Failed, Settled
    <3>2. CASE s # c BY <3>2, <2>3, <2>5, <2>7 DEF Running, Failed, Settled
    <3>3. QED BY <3>1, <3>2
  <2>9. QED BY <2>5, <2>8 DEF ss
<1>4. QED BY <1>2, <1>3

\* What leaves the chat in a request or to be saved is settled, if every reply that did not fail is.
LEMMA OutgoingSettled ==
    ASSUME NEW ss, NEW ts \in Seq(TurnType),
           \A k \in DOMAIN ts : ts[k].of \in DOMAIN ss /\ (ts[k].role = "assistant" /\ ts[k].state # "error" => Settled(ss, ts[k].of))
    PROVE  A!Outgoing(ts) \in Seq(TurnType) /\ AllSettled(ss, A!Outgoing(ts))
<1> DEFINE ms == A!Outgoing(ts)
<1>1. ms \in Seq(TurnType) /\ \A k \in DOMAIN ms : ms[k].state # "error" /\ \E j \in DOMAIN ts : ms[k] = ts[j] BY OutgoingKeeps
<1> HIDE DEF ms
<1>2. ASSUME NEW k \in DOMAIN ms PROVE ms[k].of \in DOMAIN ss /\ (ms[k].role = "assistant" => Settled(ss, ms[k].of))
  <2>1. PICK j \in DOMAIN ts : ms[k] = ts[j] BY <1>1
  <2>2. QED BY <2>1, <1>1
<1>3. AllSettled(ss, ms) BY <1>2 DEF AllSettled
<1>4. QED BY <1>1, <1>3 DEF ms

\* Messages that are settled stay so when the streams go on as streams do.
LEMMA SettledStay ==
    ASSUME NEW ss, NEW tt, \A s \in DOMAIN ss : s \in DOMAIN tt /\ (Settled(ss, s) => Settled(tt, s)),
           NEW ms, AllSettled(ss, ms)
    PROVE  AllSettled(tt, ms)
BY DEF AllSettled

LEMMA SendMessageKeeps ==
    ASSUME ChatInv, NEW c \in ChatType, NEW ss \in Seq(StreamType), NEW script \in Scripts,
           Len(ss) = Len(streams), c.no # 0, c.conn \in Conns, c.savedId <= Len(convRows),
           \A s \in DOMAIN ss : /\ ~Running(ss[s]) /\ ss[s].at <= Len(ss[s].script) /\ ss[s].sent = streams[s].sent
                                /\ Settled(streams, s) => Settled(ss, s),
           \A k \in DOMAIN c.turns : /\ c.turns[k].of \in DOMAIN ss
                                     /\ c.turns[k].role = "assistant" /\ Failed(ss[c.turns[k].of]) => c.turns[k].state = "error",
           A!SendMessage(c, ss, script), UNCHANGED <<pick, saves, loads, convRows>>, chats' \in 0..MaxChats
    PROVE  ChatInv'
<1> DEFINE n == Len(ss) + 1
           out == A!Outgoing(c.turns)
           sent == {t.of : t \in {u \in A!Range(out) : u.role = "assistant"}}
           st == [chat |-> c.no, turn |-> Len(c.turns) + 2, script |-> script, at |-> 0, state |-> "open", sent |-> sent]
           ts == c.turns \o <<A!User(n), A!Reply(n)>>
<1>1. /\ streams' = Append(ss, st) /\ decisions' = Append(decisions, 0)
      /\ chat' = [c EXCEPT !.busy = TRUE, !.stream = n, !.turns = ts] BY DEF A!SendMessage
<1>2. out \in Seq(TurnType) /\ AllSettled(ss, out)
  <2>1. c.turns \in Seq(TurnType) BY DEF ChatType
  <2>2. ASSUME NEW k \in DOMAIN c.turns PROVE c.turns[k].of \in DOMAIN ss /\ (c.turns[k].role = "assistant" /\ c.turns[k].state # "error" => Settled(ss, c.turns[k].of))
    BY DEF Settled
  <2>3. QED BY <2>1, <2>2, OutgoingSettled
<1>3. sent \subseteq DOMAIN ss /\ \A o \in sent : Settled(ss, o)
  <2> HIDE DEF out
  <2>1. ASSUME NEW o \in sent PROVE o \in DOMAIN ss /\ Settled(ss, o)
    <3>1. PICK k \in DOMAIN out : out[k].role = "assistant" /\ o = out[k].of BY DEF A!Range
    <3>2. QED BY <3>1, <1>2 DEF AllSettled
  <2>2. QED BY <2>1
<1> HIDE DEF out, sent
<1>4. Len(ss) \in Nat /\ DOMAIN ss = 1..Len(ss) /\ n \in Nat /\ n > 0 OBVIOUS
<1>5. c.turns \in Seq(TurnType) /\ Len(c.turns) \in Nat /\ c.no \in 1..MaxChats /\ c.savedId \in Nat BY ScriptFacts DEF ChatType
<1>6. st \in StreamType BY <1>3, <1>4, <1>5 DEF StreamType
<1>7. st.state = "open" /\ st.at = 0 /\ st.script = script /\ st.sent = sent /\ st.chat = c.no /\ st.turn = Len(c.turns) + 2 OBVIOUS
<1>8. /\ ts \in Seq(TurnType) /\ Len(ts) = Len(c.turns) + 2
      /\ \A k \in 1..Len(c.turns) : ts[k] = c.turns[k]
      /\ ts[Len(c.turns) + 1] = A!User(n) /\ ts[Len(c.turns) + 2] = A!Reply(n)
  <2>1. A!User(n) \in TurnType /\ A!Reply(n) \in TurnType BY <1>4 DEF A!User, A!Reply, TurnType
  <2> DEFINE u == A!User(n) r == A!Reply(n)
  <2> HIDE DEF u, r
  <2>2. u \in TurnType /\ r \in TurnType BY <2>1 DEF u, r
  <2> DEFINE two == <<u, r>>
  <2>3. two \in Seq(TurnType) /\ Len(two) = 2 /\ two[1] = u /\ two[2] = r BY <2>2
  <2> HIDE DEF two
  <2>4. ts = c.turns \o two BY DEF two, u, r
  <2>5. QED BY <2>2, <2>3, <2>4, <1>5 DEF u, r
<1> HIDE DEF st, ts
<1>9. /\ streams' \in Seq(StreamType) /\ Len(streams') = n /\ streams'[n] = st
      /\ DOMAIN streams' = 1..n /\ \A s \in DOMAIN ss : s \in DOMAIN streams' /\ streams'[s] = ss[s] BY <1>1, <1>4, <1>6
<1>10. /\ chat' \in ChatType /\ chat'.turns = ts /\ chat'.busy = TRUE /\ chat'.stream = n /\ chat'.no = c.no /\ chat'.conn = c.conn /\ chat'.savedId = c.savedId
  BY <1>1, <1>4, <1>8 DEF ChatType
<1> HIDE DEF n
<1>11. \A s \in DOMAIN streams : s \in DOMAIN streams' /\ (Settled(streams, s) => Settled(streams', s))
  <2>1. DOMAIN streams = DOMAIN ss BY <1>4 DEF ChatInv, StreamsTyped
  <2>2. \A s \in DOMAIN ss : Settled(ss, s) => Settled(streams', s) BY <1>9 DEF Settled
  <2>3. QED BY <2>1, <2>2, <1>9
<1>12. ChatTyped' BY <1>4, <1>9, <1>10 DEF ChatInv, ChatTyped
<1>13. StreamsTyped'
  <2>1. decisions' \in Seq(Nat) /\ Len(decisions') = n BY <1>1 DEF ChatInv, StreamsTyped, n
  <2>2. st.at <= Len(st.script) BY <1>7, ScriptFacts
  <2>3. \A s \in 1..n : s = n \/ s \in DOMAIN ss BY <1>4 DEF n
  <2>4. \A s \in DOMAIN streams' : streams'[s].at <= Len(streams'[s].script) BY <2>2, <2>3, <1>9
  <2>5. QED BY <2>1, <2>4, <1>9 DEF StreamsTyped
<1>14. RowsTyped' BY DEF ChatInv, RowsTyped
<1>15. \A s \in DOMAIN streams' : Running(streams'[s]) => s = n BY <1>9, <1>4 DEF n
<1>16. \A k \in DOMAIN ts : k \in 1..Len(c.turns) \/ k = Len(c.turns) + 1 \/ k = Len(c.turns) + 2 BY <1>8, <1>5
<1>17. A!User(n).of = n /\ A!User(n).role = "user" /\ A!User(n).step = "none" /\ A!Reply(n).of = n /\ A!Reply(n).role = "assistant" /\ A!Reply(n).step = "none"
  BY DEF A!User, A!Reply
<1>18. RunsLast'
  <2>1. \A k \in 1..Len(c.turns) : ts[k].of # n
    <3>1. \A k \in 1..Len(c.turns) : ts[k] = c.turns[k] /\ c.turns[k].of \in DOMAIN ss BY <1>8, <1>5
    <3>2. QED BY <3>1, <1>4 DEF n
  <2>2. \A k \in DOMAIN ts : ts[k].of = n /\ k # Len(ts) => ts[k].role = "user" /\ ts[k].step = "none" BY <2>1, <1>8, <1>16, <1>17
  <2>3. ts # <<>> /\ Len(ts) = st.turn /\ ts[st.turn].of = n /\ ts[st.turn].role = "assistant" BY <1>7, <1>8, <1>17, <1>5
  <2>4. QED BY <2>2, <2>3, <1>15, <1>9, <1>10, <1>7 DEF RunsLast
<1>19. TurnsKnown'
  <2>1. ASSUME NEW k \in DOMAIN ts
        PROVE  ts[k].of \in DOMAIN streams' /\ (ts[k].role = "assistant" /\ Failed(streams'[ts[k].of]) => ts[k].state = "error")
    <3>1. CASE k \in 1..Len(c.turns)
      <4>1. ts[k] = c.turns[k] /\ c.turns[k].of \in DOMAIN ss /\ (c.turns[k].role = "assistant" /\ Failed(ss[c.turns[k].of]) => c.turns[k].state = "error") BY <3>1, <1>5, <1>8
      <4>2. QED BY <4>1, <1>9
    <3>2. CASE k \notin 1..Len(c.turns)
      <4>1. ts[k].of = n BY <3>2, <1>16, <1>8, <1>17
      <4>2. ~Failed(streams'[n]) /\ n \in DOMAIN streams' BY <1>9, <1>7, <1>4 DEF Failed, n
      <4>3. QED BY <4>1, <4>2
    <3>3. QED BY <3>1, <3>2
  <2>2. QED BY <2>1, <1>10 DEF TurnsKnown
<1>20. SentSettled'
  <2>1. ASSUME NEW s \in DOMAIN streams', NEW o \in streams'[s].sent PROVE Settled(streams', o)
    <3>1. CASE s = n
      <4>1. o \in sent BY <3>1, <2>1, <1>9, <1>7
      <4>2. QED BY <4>1, <1>3, <1>9 DEF Settled
    <3>2. CASE s # n
      <4>1. s \in DOMAIN ss /\ s \in DOMAIN streams BY <3>2, <1>9, <1>4 DEF n, ChatInv, StreamsTyped
      <4>2. o \in streams[s].sent BY <4>1, <1>9
      <4>3. Settled(streams, o) /\ o \in DOMAIN streams BY <4>1, <4>2 DEF ChatInv, SentSettled, Settled
      <4>4. QED BY <4>3, <1>11
    <3>3. QED BY <3>1, <3>2
  <2>2. QED BY <2>1 DEF SentSettled
<1>21. KeptSettled'
  <2>1. \A id \in DOMAIN convRows : AllSettled(streams', convRows[id].messages) BY <1>11, SettledStay DEF ChatInv, KeptSettled
  <2>2. \A k \in DOMAIN saves : AllSettled(streams', saves[k].messages) BY <1>11, SettledStay DEF ChatInv, KeptSettled
  <2>3. convRows' = convRows /\ saves' = saves OBVIOUS
  <2>4. QED BY <2>1, <2>2, <2>3 DEF KeptSettled
<1>22. OnceAsked'
  <2>1. decisions'[n] = 0 BY <1>1 DEF ChatInv, StreamsTyped, n
  <2>2. chat'.turns[Len(chat'.turns)].step = "none" BY <1>10, <1>8, <1>17
  <2>3. QED BY <2>1, <2>2, <1>15 DEF OnceAsked
<1>23. QED BY <1>12, <1>13, <1>14, <1>18, <1>19, <1>20, <1>21, <1>22 DEF ChatInv

\* The chat is not busy, so that no stream replies when a message is sent.
LEMMA SendKeeps ==
    ASSUME ChatInv, NEW script \in Scripts, A!Send(script)
    PROVE  ChatInv'
<1> DEFINE c == A!EnsuredChat
           ss == A!EnsuredStreams
<1>0. /\ chats' = IF A!NeedsChat THEN chats + 1 ELSE chats
      /\ A!NeedsChat => chats < MaxChats
      /\ IF c.busy THEN UNCHANGED <<chat, streams, decisions>> ELSE A!SendMessage(c, ss, script)
      /\ UNCHANGED <<pick, saves, loads, convRows>>
  BY DEF A!Send
<1>1. /\ chat \in ChatType /\ chats \in 0..MaxChats /\ pick \in Conns /\ (chat.no # 0 => chat.conn \in Conns) /\ chat.savedId <= Len(convRows)
      /\ streams \in Seq(StreamType) /\ \A s \in DOMAIN streams : streams[s].at <= Len(streams[s].script)
  BY DEF ChatInv, ChatTyped, StreamsTyped
<1>2. chats' \in 0..MaxChats BY <1>0, <1>1, ScriptFacts
<1>3. CASE ~A!NeedsChat
  <2>1. c = chat /\ ss = streams BY <1>3 DEF A!EnsuredChat, A!EnsuredStreams
  <2>2. chat.no # 0 BY <1>3 DEF A!NeedsChat, A!Begun
  <2>3. CASE chat.busy
    <3>1. UNCHANGED <<chat, streams, decisions, pick, saves, loads, convRows>> BY <2>3, <2>1, <1>0
    <3>2. chats' = chats BY <1>0, <1>3
    <3>3. QED BY <3>1, <3>2 DEF ChatInv, ChatTyped, StreamsTyped, RowsTyped, RunsLast, TurnsKnown, SentSettled, KeptSettled, OnceAsked, AllSettled, Settled
  <2>4. CASE ~chat.busy
    <3>1. \A s \in DOMAIN streams : ~Running(streams[s]) BY <2>4, <1>0 DEF ChatInv, RunsLast
    <3>2. A!SendMessage(chat, streams, script) BY <2>1, <2>4, <1>0
    <3>3. \A k \in DOMAIN chat.turns : /\ chat.turns[k].of \in DOMAIN streams
                                       /\ chat.turns[k].role = "assistant" /\ Failed(streams[chat.turns[k].of]) => chat.turns[k].state = "error"
      BY DEF ChatInv, TurnsKnown
    <3>4. QED BY <3>1, <3>2, <3>3, <2>2, <1>0, <1>1, <1>2, SendMessageKeeps
  <2>5. QED BY <2>3, <2>4
<1>4. CASE A!NeedsChat
  <2>1. c = A!Empty(chats + 1, pick) /\ ss = A!Aborted(streams) BY <1>4 DEF A!EnsuredChat, A!EnsuredStreams
  <2>2. chats + 1 \in 1..MaxChats BY <1>0, <1>1, <1>4, ScriptFacts
  <2>3. /\ c \in ChatType /\ c.no # 0 /\ c.conn \in Conns /\ ~c.busy /\ c.turns = <<>> /\ c.savedId = 0
    BY <2>1, <2>2, <1>1, ScriptFacts DEF A!Empty, ChatType
  <2>4. A!SendMessage(c, ss, script) BY <2>3, <1>0
  <2>5. /\ ss \in Seq(StreamType) /\ Len(ss) = Len(streams)
        /\ \A s \in DOMAIN streams : /\ ~Running(ss[s]) /\ ss[s].at = streams[s].at /\ ss[s].script = streams[s].script /\ ss[s].sent = streams[s].sent
                                     /\ Settled(streams, s) => Settled(ss, s)
    BY <2>1, AbortedOver
  <2> HIDE DEF c, ss
  <2>6. DOMAIN ss = DOMAIN streams BY <2>5, <1>1
  <2>7. \A s \in DOMAIN ss : /\ ~Running(ss[s]) /\ ss[s].at <= Len(ss[s].script) /\ ss[s].sent = streams[s].sent
                             /\ Settled(streams, s) => Settled(ss, s)
    BY <2>5, <2>6, <1>1
  <2>8. c.savedId <= Len(convRows) BY <2>3 DEF ChatInv, RowsTyped
  <2>9. \A k \in DOMAIN c.turns : /\ c.turns[k].of \in DOMAIN ss
                                  /\ c.turns[k].role = "assistant" /\ Failed(ss[c.turns[k].of]) => c.turns[k].state = "error"
    BY <2>3
  <2>10. QED BY <2>3, <2>4, <2>5, <2>7, <2>8, <2>9, <1>0, <1>2, SendMessageKeeps
<1>5. QED BY <1>3, <1>4

\* A step that leaves the streams and the turns of the chat as they are.
LEMMA RestKeeps ==
    ASSUME ChatInv, UNCHANGED <<streams, decisions>>, ChatTyped', RowsTyped', KeptSettled',
           chat'.turns = chat.turns, chat'.no = chat.no, chat'.stream = chat.stream, chat'.busy = chat.busy
    PROVE  ChatInv'
<1>1. StreamsTyped' BY DEF ChatInv, StreamsTyped
<1>2. RunsLast' BY DEF ChatInv, RunsLast
<1>3. TurnsKnown' BY DEF ChatInv, TurnsKnown
<1>4. SentSettled' BY DEF ChatInv, SentSettled, Settled
<1>5. OnceAsked' BY DEF ChatInv, OnceAsked
<1>6. QED BY <1>1, <1>2, <1>3, <1>4, <1>5 DEF ChatInv

LEMMA PickKeeps ==
    ASSUME ChatInv, NEW c \in Conns, A!PickConnection(c)
    PROVE  ChatInv'
<1>0. pick' = c /\ UNCHANGED <<chat, chats, streams, saves, loads, convRows, decisions>> BY DEF A!PickConnection
<1>1. ChatTyped' BY <1>0 DEF ChatInv, ChatTyped
<1>2. RowsTyped' /\ KeptSettled' BY <1>0 DEF ChatInv, RowsTyped, KeptSettled, AllSettled, Settled
<1>3. QED BY <1>0, <1>1, <1>2, RestKeeps

LEMMA AutoSaveKeeps ==
    ASSUME ChatInv, A!SetAutoSave
    PROVE  ChatInv'
<1>0. UNCHANGED <<chat, chats, streams, pick, saves, loads, convRows, decisions>> BY DEF A!SetAutoSave
<1>1. ChatTyped' BY <1>0 DEF ChatInv, ChatTyped
<1>2. RowsTyped' /\ KeptSettled' BY <1>0 DEF ChatInv, RowsTyped, KeptSettled, AllSettled, Settled
<1>3. QED BY <1>0, <1>1, <1>2, RestKeeps

LEMMA LoadKeeps ==
    ASSUME ChatInv, NEW id \in DOMAIN convRows, A!LoadConversation(id)
    PROVE  ChatInv'
<1>0. loads' = loads \cup {id} /\ UNCHANGED <<chat, chats, streams, pick, saves, convRows, decisions>> BY DEF A!LoadConversation
<1>1. ChatTyped' BY <1>0 DEF ChatInv, ChatTyped
<1>2. RowsTyped' /\ KeptSettled' BY <1>0 DEF ChatInv, RowsTyped, KeptSettled, AllSettled, Settled
<1>3. QED BY <1>0, <1>1, <1>2, RestKeeps

LEMMA DeleteKeeps ==
    ASSUME ChatInv, NEW id \in DOMAIN convRows, A!DeleteConversation(id)
    PROVE  ChatInv'
<1>0. convRows' = [convRows EXCEPT ![id].chat = 0] /\ chat' = A!IdDropped(id) /\ UNCHANGED <<chats, streams, pick, saves, loads, decisions>>
  BY DEF A!DeleteConversation
<1>1. convRows \in Seq(RowType) /\ chat \in ChatType BY DEF ChatInv, RowsTyped, ChatTyped
<1> DEFINE row == [convRows[id] EXCEPT !.chat = 0]
<1>2. convRows[id] \in RowType BY <1>1
<1>3. row \in RowType /\ row.messages = convRows[id].messages BY <1>2, ScriptFacts DEF RowType
<1>4. convRows' = [convRows EXCEPT ![id] = row] BY <1>0
<1> HIDE DEF row
<1>5. /\ convRows' \in Seq(RowType) /\ Len(convRows') = Len(convRows) /\ DOMAIN convRows' = DOMAIN convRows
      /\ \A k \in DOMAIN convRows : convRows'[k].messages = convRows[k].messages BY <1>1, <1>3, <1>4
<1>6. chat' \in ChatType /\ chat'.turns = chat.turns /\ chat'.no = chat.no /\ chat'.stream = chat.stream /\ chat'.busy = chat.busy /\ chat'.conn = chat.conn
      /\ (chat'.savedId = chat.savedId \/ chat'.savedId = 0)
  BY <1>0, <1>1 DEF A!IdDropped, ChatType
<1>7. ChatTyped' BY <1>0, <1>5, <1>6 DEF ChatInv, ChatTyped
<1>8. RowsTyped' BY <1>0, <1>5 DEF ChatInv, RowsTyped
<1>9. KeptSettled' BY <1>0, <1>5 DEF ChatInv, KeptSettled, AllSettled, Settled
<1>10. QED BY <1>0, <1>6, <1>7, <1>8, <1>9, RestKeeps

\* A call that saves the turns ts of the chat is one more call that keeps only settled messages.
LEMMA CallAdded ==
    ASSUME RowsTyped, NEW call \in CallType, call.id <= Len(convRows), call.id = 0 => Len(convRows) + Len(saves) < MaxRows,
           NEW ss, AllSettled(ss, call.messages),
           \A id \in DOMAIN convRows : AllSettled(ss, convRows[id].messages), \A k \in DOMAIN saves : AllSettled(ss, saves[k].messages),
           saves' = Append(saves, call), streams' = ss, UNCHANGED <<convRows, loads>>
    PROVE  RowsTyped' /\ KeptSettled'
<1>1. saves \in Seq(CallType) /\ convRows \in Seq(RowType) /\ Len(convRows) \in Nat /\ MaxRows \in Nat BY ScriptFacts DEF RowsTyped
<1>2. /\ saves' \in Seq(CallType) /\ Len(saves') = Len(saves) + 1 /\ saves'[Len(saves) + 1] = call
      /\ \A k \in DOMAIN saves : saves'[k] = saves[k]
      /\ \A k \in DOMAIN saves' : k \in DOMAIN saves \/ k = Len(saves) + 1
  BY <1>1
<1>3. ASSUME NEW k \in DOMAIN saves' PROVE saves'[k].id <= Len(convRows) /\ (saves'[k].id = 0 => Len(convRows) + k <= MaxRows) /\ AllSettled(ss, saves'[k].messages)
  <2>1. CASE k \in DOMAIN saves BY <2>1, <1>2 DEF RowsTyped
  <2>2. CASE k = Len(saves) + 1
    <3>1. saves'[k] = call BY <2>2, <1>2
    <3>2. Len(saves) \in Nat BY <1>1
    <3>3. QED BY <3>1, <3>2, <2>2, <1>1
  <2>3. QED BY <2>1, <2>2, <1>2
<1>4. RowsTyped' BY <1>2, <1>3 DEF RowsTyped
<1>5. KeptSettled' BY <1>2, <1>3 DEF KeptSettled
<1>6. QED BY <1>4, <1>5

LEMMA SaveKeeps ==
    ASSUME ChatInv, A!SaveChat
    PROVE  ChatInv'
<1>0. /\ chat.turns # <<>> /\ ~chat.busy /\ A!MaySave(chat) /\ saves' = Append(saves, A!SaveCall(chat))
      /\ UNCHANGED <<chat, chats, streams, pick, loads, convRows, decisions>>
  BY DEF A!SaveChat, A!Toolbar
<1>1. chat \in ChatType /\ chat.no # 0 /\ chat.conn \in Conns /\ chat.savedId <= Len(convRows) /\ chat.turns \in Seq(TurnType)
  BY <1>0 DEF ChatInv, ChatTyped, ChatType
<1> DEFINE call == A!SaveCall(chat)
<1>2. \A k \in DOMAIN chat.turns : chat.turns[k].of \in DOMAIN streams /\ (chat.turns[k].role = "assistant" /\ chat.turns[k].state # "error" => Settled(streams, chat.turns[k].of))
  BY <1>0 DEF ChatInv, TurnsKnown, RunsLast, Settled, Running
<1>3. A!Outgoing(chat.turns) \in Seq(TurnType) /\ AllSettled(streams, A!Outgoing(chat.turns)) BY <1>1, <1>2, OutgoingSettled
<1>4. call.messages = A!Outgoing(chat.turns) /\ call.id = chat.savedId /\ call.chat = chat.no /\ call.conn = chat.conn BY DEF A!SaveCall
<1>5. call \in CallType
  <2>1. chat.no \in 1..MaxChats /\ chat.savedId \in Nat BY <1>1, ScriptFacts DEF ChatType
  <2>2. QED BY <2>1, <1>1, <1>3 DEF A!SaveCall, CallType
<1>6. call.id = 0 => Len(convRows) + Len(saves) < MaxRows BY <1>0, <1>4 DEF A!MaySave
<1> HIDE DEF call
<1>7. /\ \A id \in DOMAIN convRows : AllSettled(streams, convRows[id].messages)
      /\ \A k \in DOMAIN saves : AllSettled(streams, saves[k].messages) BY DEF ChatInv, KeptSettled
<1>8. AllSettled(streams, call.messages) /\ call.id <= Len(convRows) BY <1>1, <1>3, <1>4
<1>9. RowsTyped BY DEF ChatInv
<1>10. saves' = Append(saves, call) /\ streams' = streams /\ UNCHANGED <<convRows, loads>> BY <1>0 DEF call
<1>11. RowsTyped' /\ KeptSettled' BY <1>5, <1>6, <1>7, <1>8, <1>9, <1>10, CallAdded
<1>12. ChatTyped' BY <1>0 DEF ChatInv, ChatTyped
<1>13. QED BY <1>0, <1>11, <1>12, RestKeeps

\* What is left of a sequence when one of its elements is taken out.
LEMMA Removed ==
    ASSUME NEW S, NEW s \in Seq(S), NEW k \in DOMAIN s
    PROVE  LET t == A!RemoveAt(s, k) IN
           /\ t \in Seq(S) /\ Len(t) = Len(s) - 1
           /\ \A j \in DOMAIN t : IF j < k THEN j \in DOMAIN s /\ t[j] = s[j] ELSE j + 1 \in DOMAIN s /\ t[j] = s[j + 1]
<1> DEFINE a == SubSeq(s, 1, k - 1) b == SubSeq(s, k + 1, Len(s))
<1>1. k \in 1..Len(s) /\ Len(s) \in Nat OBVIOUS
<1>2. a \in Seq(S) /\ Len(a) = k - 1 /\ \A j \in 1..(k - 1) : a[j] = s[j] BY <1>1
<1>3. b \in Seq(S) /\ Len(b) = Len(s) - k /\ \A j \in 1..(Len(s) - k) : b[j] = s[k + j] BY <1>1
<1>4. A!RemoveAt(s, k) = a \o b BY DEF A!RemoveAt
<1> HIDE DEF a, b
<1>5. a \o b \in Seq(S) /\ Len(a \o b) = Len(s) - 1 BY <1>1, <1>2, <1>3
<1>6. ASSUME NEW j \in DOMAIN (a \o b)
      PROVE  IF j < k THEN j \in DOMAIN s /\ (a \o b)[j] = s[j] ELSE j + 1 \in DOMAIN s /\ (a \o b)[j] = s[j + 1]
  <2>1. j \in 1..(Len(s) - 1) BY <1>5
  <2>2. CASE j < k BY <2>1, <2>2, <1>1, <1>2, <1>3
  <2>3. CASE ~(j < k)
    <3>1. (a \o b)[j] = b[j - Len(a)] BY <2>1, <2>3, <1>1, <1>2, <1>3
    <3>2. j - Len(a) \in 1..(Len(s) - k) /\ k + (j - Len(a)) = j + 1 BY <2>1, <2>3, <1>1, <1>2
    <3>3. QED BY <3>1, <3>2, <2>1, <2>3, <1>1, <1>3
  <2>4. QED BY <2>2, <2>3
<1>7. QED BY <1>4, <1>5, <1>6

LEMMA SavedKeeps ==
    ASSUME ChatInv, NEW k \in DOMAIN saves, A!Saved(k)
    PROVE  ChatInv'
<1> DEFINE call == saves[k]
           row == [chat |-> call.chat, conn |-> call.conn, messages |-> call.messages]
<1>0. /\ saves' = A!RemoveAt(saves, k) /\ UNCHANGED <<chats, streams, pick, loads, decisions>>
      /\ IF call.id = 0 THEN convRows' = Append(convRows, row) /\ chat' = [chat EXCEPT !.savedId = Len(convRows) + 1]
         ELSE IF A!Live(call.id) THEN convRows' = [convRows EXCEPT ![call.id] = row] /\ chat' = [chat EXCEPT !.savedId = call.id]
         ELSE UNCHANGED <<convRows, chat>>
  BY DEF A!Saved
<1>1. /\ saves \in Seq(CallType) /\ convRows \in Seq(RowType) /\ Len(convRows) \in Nat /\ Len(convRows) <= MaxRows /\ MaxRows \in Nat
      /\ loads \subseteq DOMAIN convRows
      /\ \A j \in DOMAIN saves : saves[j].id <= Len(convRows) /\ (saves[j].id = 0 => Len(convRows) + j <= MaxRows) /\ AllSettled(streams, saves[j].messages)
      /\ \A id \in DOMAIN convRows : AllSettled(streams, convRows[id].messages)
  BY ScriptFacts DEF ChatInv, RowsTyped, KeptSettled
<1>2. call \in CallType /\ k \in 1..Len(saves) BY <1>1
<1>3. row \in RowType /\ row.messages = call.messages /\ call.id \in Nat BY <1>2, ScriptFacts DEF CallType, RowType
<1>4. AllSettled(streams, row.messages) BY <1>1, <1>3
<1>5. /\ saves' \in Seq(CallType) /\ Len(saves') = Len(saves) - 1
      /\ \A j \in DOMAIN saves' : IF j < k THEN j \in DOMAIN saves /\ saves'[j] = saves[j] ELSE j + 1 \in DOMAIN saves /\ saves'[j] = saves[j + 1]
  BY <1>0, <1>1, Removed
<1> HIDE DEF row
<1>6. /\ convRows' \in Seq(RowType) /\ Len(convRows') \in Nat /\ Len(convRows) <= Len(convRows')
      /\ Len(convRows') = (IF call.id = 0 THEN Len(convRows) + 1 ELSE Len(convRows))
      /\ DOMAIN convRows \subseteq DOMAIN convRows'
      /\ \A id \in DOMAIN convRows' : (id \in DOMAIN convRows /\ convRows'[id] = convRows[id]) \/ convRows'[id] = row
  <2>1. CASE call.id = 0
    <3>1. convRows' = Append(convRows, row) BY <2>1, <1>0
    <3>2. convRows \in Seq(RowType) /\ row \in RowType BY <1>1, <1>3
    <3> HIDE DEF call
    <3>3. /\ convRows' \in Seq(RowType) /\ Len(convRows') = Len(convRows) + 1 /\ DOMAIN convRows \subseteq DOMAIN convRows'
          /\ \A id \in DOMAIN convRows' : (id \in DOMAIN convRows /\ convRows'[id] = convRows[id]) \/ convRows'[id] = row
      BY <3>1, <3>2
    <3>4. QED BY <3>3, <2>1, <1>1
  <2>2. CASE call.id # 0 /\ A!Live(call.id)
    <3>1. call.id \in DOMAIN convRows BY <2>2, <1>1, <1>3
    <3>2. convRows' = [convRows EXCEPT ![call.id] = row] BY <2>2, <1>0
    <3>3. QED BY <3>1, <3>2, <2>2, <1>1, <1>3
  <2>3. CASE call.id # 0 /\ ~A!Live(call.id) BY <2>3, <1>0, <1>1
  <2>4. QED BY <2>1, <2>2, <2>3
<1>7. chat \in ChatType /\ chat.savedId <= Len(convRows) BY DEF ChatInv, ChatTyped
<1>8. /\ chat' \in ChatType /\ chat'.turns = chat.turns /\ chat'.no = chat.no /\ chat'.stream = chat.stream /\ chat'.busy = chat.busy /\ chat'.conn = chat.conn
      /\ chat'.savedId <= Len(convRows')
  <2>1. CASE call.id = 0
    <3>1. chat' = [chat EXCEPT !.savedId = Len(convRows) + 1] BY <2>1, <1>0
    <3>2. Len(convRows) + 1 \in Nat BY <1>1
    <3>3. /\ chat' \in ChatType /\ chat'.turns = chat.turns /\ chat'.no = chat.no /\ chat'.stream = chat.stream /\ chat'.busy = chat.busy /\ chat'.conn = chat.conn
          /\ chat'.savedId = Len(convRows) + 1
      BY <3>1, <3>2, <1>7 DEF ChatType
    <3>4. Len(convRows') = Len(convRows) + 1 BY <2>1, <1>6
    <3>5. QED BY <3>2, <3>3, <3>4
  <2>2. CASE call.id # 0 /\ A!Live(call.id)
    <3>1. chat' = [chat EXCEPT !.savedId = call.id] BY <2>2, <1>0
    <3>2. QED BY <3>1, <2>2, <1>1, <1>3, <1>6, <1>7 DEF ChatType
  <2>3. CASE call.id # 0 /\ ~A!Live(call.id) BY <2>3, <1>0, <1>1, <1>6, <1>7 DEF ChatType
  <2>4. QED BY <2>1, <2>2, <2>3
<1>9. ChatTyped' BY <1>0, <1>8 DEF ChatInv, ChatTyped
<1>10. ASSUME NEW j \in DOMAIN saves'
       PROVE  saves'[j].id <= Len(convRows') /\ (saves'[j].id = 0 => Len(convRows') + j <= MaxRows) /\ AllSettled(streams, saves'[j].messages)
  <2>0. j \in 1..Len(saves') /\ j \in Nat BY <1>5
  <2>1. CASE j < k
    <3>1. j \in DOMAIN saves /\ saves'[j] = saves[j] BY <2>1, <1>5
    <3>2. saves[j] \in CallType BY <3>1, <1>1
    <3>3. saves[j].id \in Nat BY <3>2 DEF CallType
    <3>4. saves[j].id <= Len(convRows) /\ (saves[j].id = 0 => Len(convRows) + j <= MaxRows) /\ AllSettled(streams, saves[j].messages) BY <3>1, <1>1
    <3>5. call.id = 0 => Len(convRows) + k <= MaxRows BY <1>1
    <3>6. QED BY <3>1, <3>3, <3>4, <3>5, <2>0, <2>1, <1>1, <1>2, <1>6
  <2>2. CASE ~(j < k)
    <3>1. j + 1 \in DOMAIN saves /\ saves'[j] = saves[j + 1] BY <2>2, <1>5
    <3>2. saves[j + 1] \in CallType BY <3>1, <1>1
    <3>3. saves[j + 1].id \in Nat BY <3>2 DEF CallType
    <3>4. saves[j + 1].id <= Len(convRows) /\ (saves[j + 1].id = 0 => Len(convRows) + (j + 1) <= MaxRows) /\ AllSettled(streams, saves[j + 1].messages) BY <3>1, <1>1
    <3>5. QED BY <3>1, <3>3, <3>4, <2>0, <2>2, <1>1, <1>6
  <2>3. QED BY <2>1, <2>2
<1>11. RowsTyped'
  <2>1. Len(convRows') <= MaxRows
    <3>1. call.id = 0 => Len(convRows) + k <= MaxRows BY <1>1
    <3>2. QED BY <3>1, <1>1, <1>2, <1>6
  <2>2. loads' \subseteq DOMAIN convRows' BY <1>0, <1>1, <1>6
  <2>3. QED BY <2>1, <2>2, <1>5, <1>6, <1>10 DEF RowsTyped
<1>12. KeptSettled'
  <2>1. \A id \in DOMAIN convRows' : AllSettled(streams, convRows'[id].messages) BY <1>1, <1>4, <1>6
  <2>2. streams' = streams BY <1>0
  <2>3. QED BY <2>1, <2>2, <1>10 DEF KeptSettled
<1>13. QED BY <1>0, <1>8, <1>9, <1>11, <1>12, RestKeeps

\* A step after which no stream is open, and which changes nothing else about any stream.
LEMMA OverKeeps ==
    ASSUME ChatInv, ChatTyped', UNCHANGED <<saves, loads, convRows, decisions>>,
           streams' \in Seq(StreamType), Len(streams') = Len(streams),
           \A s \in DOMAIN streams : /\ ~Running(streams'[s]) /\ streams'[s].at = streams[s].at /\ streams'[s].script = streams[s].script
                                     /\ streams'[s].sent = streams[s].sent
                                     /\ Settled(streams, s) => Settled(streams', s),
           TurnsKnown'
    PROVE  ChatInv'
<1>1. streams \in Seq(StreamType) /\ DOMAIN streams' = DOMAIN streams BY DEF ChatInv, StreamsTyped
<1>2. StreamsTyped' BY <1>1 DEF ChatInv, StreamsTyped
<1>3. RowsTyped' BY DEF ChatInv, RowsTyped
<1>4. RunsLast' /\ OnceAsked' BY <1>1 DEF RunsLast, OnceAsked
<1>5. SentSettled' 
  <2>1. ASSUME NEW s \in DOMAIN streams', NEW o \in streams'[s].sent PROVE Settled(streams', o)
    <3>1. s \in DOMAIN streams /\ o \in streams[s].sent BY <1>1
    <3>2. Settled(streams, o) /\ o \in DOMAIN streams BY <3>1 DEF ChatInv, SentSettled, Settled
    <3>3. QED BY <3>2
  <2>2. QED BY <2>1 DEF SentSettled
<1>6. \A s \in DOMAIN streams : s \in DOMAIN streams' /\ (Settled(streams, s) => Settled(streams', s)) BY <1>1
<1>7. KeptSettled'
  <2>1. \A id \in DOMAIN convRows : AllSettled(streams', convRows[id].messages) BY <1>6, SettledStay DEF ChatInv, KeptSettled
  <2>2. \A k \in DOMAIN saves : AllSettled(streams', saves[k].messages) BY <1>6, SettledStay DEF ChatInv, KeptSettled
  <2>3. convRows' = convRows /\ saves' = saves OBVIOUS
  <2>4. QED BY <2>1, <2>2, <2>3 DEF KeptSettled
<1>8. QED BY <1>2, <1>3, <1>4, <1>5, <1>7 DEF ChatInv

LEMMA ResetKeeps ==
    ASSUME ChatInv, A!ResetChat
    PROVE  ChatInv'
<1>0. /\ chat.turns # <<>> /\ chats < MaxChats /\ chats' = chats + 1 /\ streams' = A!Aborted(streams)
      /\ chat' = [chat EXCEPT !.no = chats + 1, !.turns = <<>>, !.busy = FALSE, !.savedId = 0]
      /\ UNCHANGED <<pick, saves, loads, convRows, decisions>>
  BY DEF A!ResetChat, A!Cleared, A!Toolbar
<1>1. chat \in ChatType /\ chats \in 0..MaxChats /\ chat.no # 0 /\ chat.conn \in Conns /\ chat.stream <= Len(streams)
  BY <1>0 DEF ChatInv, ChatTyped
<1>2. chats + 1 \in 1..MaxChats BY <1>0, <1>1, ScriptFacts
<1>3. /\ chat' \in ChatType /\ chat'.no = chats + 1 /\ chat'.turns = <<>> /\ chat'.savedId = 0 /\ chat'.conn = chat.conn /\ chat'.stream = chat.stream
  <2>1. chats + 1 \in 0..MaxChats BY <1>2, ScriptFacts
  <2>2. <<>> \in Seq(TurnType) OBVIOUS
  <2>3. chat' = [no |-> chats + 1, conn |-> chat.conn, turns |-> <<>>, busy |-> FALSE, savedId |-> 0, stream |-> chat.stream] BY <1>0, <1>1 DEF ChatType
  <2>4. chat.conn \in Conns \cup {0} /\ chat.stream \in Nat BY <1>1 DEF ChatType
  <2>5. QED BY <2>1, <2>2, <2>3, <2>4 DEF ChatType
<1>4. /\ streams' \in Seq(StreamType) /\ Len(streams') = Len(streams)
      /\ \A s \in DOMAIN streams : /\ ~Running(streams'[s]) /\ streams'[s].at = streams[s].at /\ streams'[s].script = streams[s].script
                                   /\ streams'[s].sent = streams[s].sent
                                   /\ Settled(streams, s) => Settled(streams', s)
  BY <1>0, AbortedOver
<1>5. ChatTyped'
  <2>1. Len(convRows) \in Nat BY DEF ChatInv, RowsTyped
  <2>2. chats' \in 0..MaxChats BY <1>0, <1>2
  <2>3. QED BY <2>1, <2>2, <1>0, <1>1, <1>2, <1>3, <1>4 DEF ChatInv, ChatTyped
<1>6. TurnsKnown' BY <1>3 DEF TurnsKnown
<1>7. QED BY <1>0, <1>4, <1>5, <1>6, OverKeeps

\* Turns that differ from those of the chat in their state and step only.
LEMMA TurnChanged ==
    ASSUME ChatInv, NEW k \in DOMAIN chat.turns, NEW t \in TurnType, t.of = chat.turns[k].of, t.role = chat.turns[k].role
    PROVE  LET ts == [chat.turns EXCEPT ![k] = t] IN
           /\ ts \in Seq(TurnType) /\ Len(ts) = Len(chat.turns) /\ DOMAIN ts = DOMAIN chat.turns /\ ts # <<>>
           /\ ts[k] = t /\ \A j \in DOMAIN chat.turns : j # k => ts[j] = chat.turns[j]
           /\ \A j \in DOMAIN chat.turns : ts[j].of = chat.turns[j].of /\ ts[j].role = chat.turns[j].role
<1>1. chat.turns \in Seq(TurnType) BY DEF ChatInv, ChatTyped, ChatType
<1>2. QED BY <1>1

LEMMA StopKeeps ==
    ASSUME ChatInv, A!StopChat
    PROVE  ChatInv'
<1> DEFINE ts == chat'.turns
           n == Len(chat.turns)
<1>0. /\ chat.busy /\ streams' = A!Aborted(streams) /\ UNCHANGED <<chats, pick, saves, loads, convRows, decisions>>
      /\ chat' = [chat EXCEPT !.busy = FALSE,
                              !.turns = IF @ # <<>> /\ @[Len(@)].state = "streaming" THEN [@ EXCEPT ![Len(@)].state = "done"] ELSE @]
  BY DEF A!StopChat, A!SendOffered
<1>1. chat \in ChatType /\ chat.turns \in Seq(TurnType) BY DEF ChatInv, ChatTyped, ChatType
<1>2. /\ streams' \in Seq(StreamType) /\ Len(streams') = Len(streams)
      /\ \A s \in DOMAIN streams : /\ ~Running(streams'[s]) /\ streams'[s].at = streams[s].at /\ streams'[s].script = streams[s].script
                                   /\ streams'[s].sent = streams[s].sent
                                   /\ Failed(streams'[s]) <=> Failed(streams[s])
                                   /\ Settled(streams, s) => Settled(streams', s)
  BY <1>0, AbortedOver
<1>3. DOMAIN streams' = DOMAIN streams BY <1>2 DEF ChatInv, StreamsTyped
<1>4. CASE ~(chat.turns # <<>> /\ chat.turns[n].state = "streaming")
  <2>1. chat' = [chat EXCEPT !.busy = FALSE] BY <1>0, <1>1, <1>4 DEF ChatType
  <2>2. chat' \in ChatType /\ chat'.turns = chat.turns /\ chat'.no = chat.no /\ chat'.conn = chat.conn /\ chat'.stream = chat.stream /\ chat'.savedId = chat.savedId
    BY <2>1, <1>1 DEF ChatType
  <2>3. ChatTyped' BY <2>2, <1>0, <1>2 DEF ChatInv, ChatTyped
  <2>4. TurnsKnown' BY <2>2, <1>2, <1>3 DEF ChatInv, TurnsKnown
  <2>5. QED BY <2>3, <2>4, <1>0, <1>2, OverKeeps
<1>5. CASE chat.turns # <<>> /\ chat.turns[n].state = "streaming"
  <2> DEFINE t == [chat.turns[n] EXCEPT !.state = "done"]
             us == [chat.turns EXCEPT ![n] = t]
  <2>1. n \in DOMAIN chat.turns /\ chat.turns[n] \in TurnType BY <1>1, <1>5
  <2>2. t \in TurnType /\ t.of = chat.turns[n].of /\ t.role = chat.turns[n].role BY <2>1 DEF TurnType
  <2>3. chat' = [chat EXCEPT !.busy = FALSE, !.turns = us] BY <1>0, <1>1, <1>5 DEF ChatType
  <2> HIDE DEF t
  <2>4. /\ us \in Seq(TurnType) /\ Len(us) = n /\ DOMAIN us = DOMAIN chat.turns /\ us # <<>>
        /\ us[n] = t /\ \A j \in DOMAIN chat.turns : j # n => us[j] = chat.turns[j]
        /\ \A j \in DOMAIN chat.turns : us[j].of = chat.turns[j].of /\ us[j].role = chat.turns[j].role
    BY <2>1, <2>2, TurnChanged
  <2> HIDE DEF us
  <2>5. chat' \in ChatType /\ chat'.turns = us /\ chat'.no = chat.no /\ chat'.conn = chat.conn /\ chat'.stream = chat.stream /\ chat'.savedId = chat.savedId
    BY <2>3, <2>4, <1>1 DEF ChatType
  <2>6. ChatTyped'
    <3>1. chat.no # 0 BY <1>5 DEF ChatInv, ChatTyped
    <3>2. QED BY <3>1, <2>5, <1>0, <1>2 DEF ChatInv, ChatTyped
  <2>7. ASSUME NEW k \in DOMAIN us
        PROVE  us[k].of \in DOMAIN streams' /\ (us[k].role = "assistant" /\ Failed(streams'[us[k].of]) => us[k].state = "error")
    <3>1. /\ chat.turns[k].of \in DOMAIN streams
          /\ chat.turns[k].role = "assistant" /\ Failed(streams[chat.turns[k].of]) => chat.turns[k].state = "error"
      BY <2>4 DEF ChatInv, TurnsKnown
    <3>2. us[k].of = chat.turns[k].of /\ us[k].role = chat.turns[k].role BY <2>4
    <3>3. k # n => us[k].state = chat.turns[k].state BY <2>4
    <3>4. k = n => chat.turns[k].state # "error" BY <1>5
    <3>5. QED BY <3>1, <3>2, <3>3, <3>4, <1>2, <1>3
  <2>8. TurnsKnown' BY <2>5, <2>7 DEF TurnsKnown
  <2>9. QED BY <2>6, <2>8, <1>0, <1>2, OverKeeps
<1>6. QED BY <1>4, <1>5

LEMMA LoadedKeeps ==
    ASSUME ChatInv, NEW id \in loads, A!Loaded(id)
    PROVE  ChatInv'
<1>0. /\ loads' = loads \ {id} /\ UNCHANGED <<chats, pick, saves, convRows, decisions>>
      /\ IF A!Live(id)
           THEN /\ streams' = A!Aborted(streams)
                /\ chat' = [A!Empty(convRows[id].chat, convRows[id].conn) EXCEPT !.savedId = id,
                              !.turns = [k \in DOMAIN convRows[id].messages |-> [convRows[id].messages[k] EXCEPT !.state = "done"]]]
           ELSE UNCHANGED <<streams, chat>>
  BY DEF A!Loaded
<1>1. /\ id \in DOMAIN convRows /\ convRows \in Seq(RowType) /\ loads' \subseteq DOMAIN convRows BY <1>0 DEF ChatInv, RowsTyped
<1>2. CASE ~A!Live(id)
  <2>1. ChatTyped' /\ RowsTyped' /\ KeptSettled' BY <1>0, <1>1, <1>2 DEF ChatInv, ChatTyped, RowsTyped, KeptSettled, AllSettled, Settled
  <2>2. QED BY <2>1, <1>0, <1>2, RestKeeps
<1>3. CASE A!Live(id)
  <2> DEFINE row == convRows[id]
             ms == row.messages
             done(k) == [ms[k] EXCEPT !.state = "done"]
             ts == [k \in DOMAIN ms |-> done(k)]
  <2>1. row \in RowType /\ row.chat # 0 BY <1>1, <1>3 DEF A!Live
  <2>2. row.chat \in 1..MaxChats /\ row.conn \in Conns /\ ms \in Seq(TurnType) BY <2>1, ScriptFacts DEF RowType
  <2>3. AllSettled(streams, ms) BY <1>1 DEF ChatInv, KeptSettled
  <2>4. chat' = [A!Empty(row.chat, row.conn) EXCEPT !.savedId = id, !.turns = ts] BY <1>0, <1>3
  <2> HIDE DEF row, ms
  <2>5. /\ ts \in Seq(TurnType) /\ DOMAIN ts = DOMAIN ms
        /\ \A k \in DOMAIN ms : ts[k].of = ms[k].of /\ ts[k].role = ms[k].role
    <3>1. \A k \in DOMAIN ms : ms[k] \in TurnType BY <2>2
    <3>2. \A k \in DOMAIN ms : done(k) \in TurnType /\ done(k).of = ms[k].of /\ done(k).role = ms[k].role BY <3>1 DEF TurnType
    <3>3. Len(ms) \in Nat /\ DOMAIN ms = 1..Len(ms) BY <2>2
    <3> HIDE DEF done
    <3>4. QED BY <3>2, <3>3
  <2> HIDE DEF ts
  <2>6. id \in Nat /\ id <= Len(convRows) BY <1>1
  <2>7. /\ chat' \in ChatType /\ chat'.no = row.chat /\ chat'.conn = row.conn /\ chat'.turns = ts /\ chat'.stream = 0 /\ chat'.savedId = id
    <3>1. chat' = [no |-> row.chat, conn |-> row.conn, turns |-> ts, busy |-> FALSE, savedId |-> id, stream |-> 0] BY <2>4 DEF A!Empty
    <3>2. row.chat \in 0..MaxChats BY <2>2, ScriptFacts
    <3>3. QED BY <3>1, <3>2, <2>2, <2>5, <2>6 DEF ChatType
  <2>8. /\ streams' \in Seq(StreamType) /\ Len(streams') = Len(streams)
        /\ \A s \in DOMAIN streams : /\ ~Running(streams'[s]) /\ streams'[s].at = streams[s].at /\ streams'[s].script = streams[s].script
                                     /\ streams'[s].sent = streams[s].sent
                                     /\ Settled(streams, s) => Settled(streams', s)
    BY <1>0, <1>3, AbortedOver
  <2>9. DOMAIN streams' = DOMAIN streams /\ Len(streams') \in Nat BY <2>8 DEF ChatInv, StreamsTyped
  <2>10. ChatTyped' BY <2>2, <2>6, <2>7, <2>9, <1>0 DEF ChatInv, ChatTyped
  <2>11. ASSUME NEW k \in DOMAIN ts
         PROVE  ts[k].of \in DOMAIN streams' /\ (ts[k].role = "assistant" /\ Failed(streams'[ts[k].of]) => ts[k].state = "error")
    <3>1. ts[k].of = ms[k].of /\ ts[k].role = ms[k].role /\ k \in DOMAIN ms BY <2>5
    <3>2. ms[k].of \in DOMAIN streams /\ (ms[k].role = "assistant" => Settled(streams', ms[k].of)) BY <3>1, <2>3, <2>8 DEF AllSettled
    <3>3. QED BY <3>1, <3>2, <2>9 DEF Settled
  <2>12. TurnsKnown' BY <2>7, <2>11 DEF TurnsKnown
  <2>13. StreamsTyped' BY <2>8, <2>9, <1>0 DEF ChatInv, StreamsTyped
  <2>14. RowsTyped' BY <1>0, <1>1 DEF ChatInv, RowsTyped
  <2>15. RunsLast' /\ OnceAsked' BY <2>8, <2>9 DEF RunsLast, OnceAsked
  <2>16. SentSettled'
    <3>1. ASSUME NEW s \in DOMAIN streams', NEW o \in streams'[s].sent PROVE Settled(streams', o)
      <4>1. s \in DOMAIN streams /\ o \in streams[s].sent BY <2>8, <2>9
      <4>2. Settled(streams, o) /\ o \in DOMAIN streams BY <4>1 DEF ChatInv, SentSettled, Settled
      <4>3. QED BY <4>2, <2>8
    <3>2. QED BY <3>1 DEF SentSettled
  <2>17. KeptSettled'
    <3>1. \A s \in DOMAIN streams : s \in DOMAIN streams' /\ (Settled(streams, s) => Settled(streams', s)) BY <2>8, <2>9
    <3>2. \A j \in DOMAIN convRows : AllSettled(streams', convRows[j].messages) BY <3>1, SettledStay DEF ChatInv, KeptSettled
    <3>3. \A k \in DOMAIN saves : AllSettled(streams', saves[k].messages) BY <3>1, SettledStay DEF ChatInv, KeptSettled
    <3>4. QED BY <3>2, <3>3, <1>0 DEF KeptSettled
  <2>18. QED BY <2>10, <2>12, <2>13, <2>14, <2>15, <2>16, <2>17 DEF ChatInv
<1>4. QED BY <1>2, <1>3

\* What the open stream does next: nothing that is settled gets unsettled.
LEMMA StreamMoved ==
    ASSUME ChatInv, NEW s \in DOMAIN streams, NEW st \in StreamType, st.sent = streams[s].sent,
           Settled(streams, s) => ~Running(st) /\ ~Failed(st)
    PROVE  LET ss == [streams EXCEPT ![s] = st] IN
           /\ ss \in Seq(StreamType) /\ Len(ss) = Len(streams) /\ DOMAIN ss = DOMAIN streams
           /\ ss[s] = st /\ \A o \in DOMAIN streams : o # s => ss[o] = streams[o]
           /\ \A o \in DOMAIN ss : \A x \in ss[o].sent : Settled(ss, x)
           /\ \A id \in DOMAIN convRows : AllSettled(ss, convRows[id].messages)
           /\ \A k \in DOMAIN saves : AllSettled(ss, saves[k].messages)
<1> DEFINE ss == [streams EXCEPT ![s] = st]
<1>1. streams \in Seq(StreamType) BY DEF ChatInv, StreamsTyped
<1>2. ss \in Seq(StreamType) /\ Len(ss) = Len(streams) /\ DOMAIN ss = DOMAIN streams /\ ss[s] = st /\ \A o \in DOMAIN streams : o # s => ss[o] = streams[o]
  BY <1>1
<1> HIDE DEF ss
<1>3. \A o \in DOMAIN streams : o \in DOMAIN ss /\ (Settled(streams, o) => Settled(ss, o))
  <2>1. TAKE o \in DOMAIN streams
  <2>2. CASE o = s BY <2>2, <1>2 DEF Settled
  <2>3. CASE o # s BY <2>3, <1>2 DEF Settled
  <2>4. QED BY <2>2, <2>3
<1>4. ASSUME NEW o \in DOMAIN ss, NEW x \in ss[o].sent PROVE Settled(ss, x)
  <2>1. o \in DOMAIN streams /\ x \in streams[o].sent BY <1>2
  <2>2. Settled(streams, x) /\ x \in DOMAIN streams BY <2>1 DEF ChatInv, SentSettled, Settled
  <2>3. QED BY <2>2, <1>3
<1>5. \A id \in DOMAIN convRows : AllSettled(ss, convRows[id].messages) BY <1>3, SettledStay DEF ChatInv, KeptSettled
<1>6. \A k \in DOMAIN saves : AllSettled(ss, saves[k].messages) BY <1>3, SettledStay DEF ChatInv, KeptSettled
<1>7. QED BY <1>2, <1>4, <1>5, <1>6 DEF ss

\* The stream that replies brings something, and its turn, the last, takes it.
LEMMA ReplyMoved ==
    ASSUME ChatInv, NEW s \in DOMAIN streams, Running(streams[s]), NEW st \in StreamType,
           st.sent = streams[s].sent, st.script = streams[s].script, st.chat = streams[s].chat, st.turn = streams[s].turn,
           st.at <= Len(st.script), Settled(streams, s) => ~Running(st) /\ ~Failed(st),
           NEW t \in TurnType, t.of = chat.turns[Len(chat.turns)].of, t.role = chat.turns[Len(chat.turns)].role, Failed(st) => t.state = "error",
           Running(st) => /\ chat'.busy
                          /\ t.step = "asking" => decisions[s] = 0 /\ Asks(st)
                          /\ decisions[s] # 0 => Asks(st),
           streams' = [streams EXCEPT ![s] = st],
           chat' \in ChatType, chat'.turns = [chat.turns EXCEPT ![Len(chat.turns)] = t],
           chat'.no = chat.no, chat'.conn = chat.conn, chat'.stream = chat.stream, chat'.savedId = chat.savedId,
           RowsTyped', KeptSettled', UNCHANGED <<chats, pick, convRows, decisions>>
    PROVE  ChatInv'
<1> DEFINE n == Len(chat.turns)
           us == [chat.turns EXCEPT ![n] = t]
<1>1. /\ streams' \in Seq(StreamType) /\ Len(streams') = Len(streams) /\ DOMAIN streams' = DOMAIN streams
      /\ streams'[s] = st /\ \A o \in DOMAIN streams : o # s => streams'[o] = streams[o]
      /\ \A o \in DOMAIN streams' : \A x \in streams'[o].sent : Settled(streams', x)
  BY StreamMoved
<1>2. /\ s = Len(streams) /\ chat.stream = s /\ chat.no = streams[s].chat /\ chat.turns # <<>> /\ n = streams[s].turn
      /\ chat.turns[n].of = s /\ chat.turns[n].role = "assistant"
      /\ \A k \in DOMAIN chat.turns : chat.turns[k].of = s /\ k # n => chat.turns[k].role = "user" /\ chat.turns[k].step = "none"
      /\ \A o \in DOMAIN streams : Running(streams[o]) => o = s
  BY DEF ChatInv, RunsLast
<1>3. chat.turns \in Seq(TurnType) /\ chat.no # 0 /\ chat.conn \in Conns BY <1>2 DEF ChatInv, ChatTyped, ChatType
<1>4. n \in DOMAIN chat.turns BY <1>2, <1>3
<1>5. /\ us \in Seq(TurnType) /\ Len(us) = n /\ DOMAIN us = DOMAIN chat.turns /\ us # <<>> /\ us[n] = t
      /\ \A k \in DOMAIN chat.turns : k # n => us[k] = chat.turns[k]
  <2>1. t.of = chat.turns[n].of /\ t.role = chat.turns[n].role OBVIOUS
  <2>2. QED BY <2>1, <1>4, TurnChanged
<1> HIDE DEF us
<1>6. chat'.turns = us BY DEF us
<1>7. ChatTyped' BY <1>1, <1>3 DEF ChatInv, ChatTyped
<1>8. StreamsTyped'
  <2>1. \A o \in DOMAIN streams' : streams'[o].at <= Len(streams'[o].script)
    <3>1. TAKE o \in DOMAIN streams'
    <3>2. CASE o = s BY <3>2, <1>1
    <3>3. CASE o # s BY <3>3, <1>1 DEF ChatInv, StreamsTyped
    <3>4. QED BY <3>2, <3>3
  <2>2. QED BY <2>1, <1>1 DEF ChatInv, StreamsTyped
<1>9. \A o \in DOMAIN streams' : Running(streams'[o]) => o = s /\ streams'[o] = st BY <1>1, <1>2
<1>10. RunsLast'
  <2>1. SUFFICES ASSUME NEW o \in DOMAIN streams', Running(streams'[o])
                 PROVE  /\ o = Len(streams') /\ chat'.stream = o /\ chat'.no = streams'[o].chat
                        /\ chat'.turns # <<>> /\ Len(chat'.turns) = streams'[o].turn
                        /\ chat'.turns[streams'[o].turn].of = o /\ chat'.turns[streams'[o].turn].role = "assistant"
                        /\ chat'.busy
                        /\ \A k \in DOMAIN chat'.turns : chat'.turns[k].of = o /\ k # Len(chat'.turns) => chat'.turns[k].role = "user" /\ chat'.turns[k].step = "none"
    BY DEF RunsLast
  <2>2. o = s /\ streams'[o] = st /\ Running(st) BY <2>1, <1>9
  <2>3. \A k \in DOMAIN us : us[k].of = s /\ k # n => us[k].role = "user" /\ us[k].step = "none" BY <1>2, <1>5
  <2>4. QED BY <2>2, <2>3, <1>1, <1>2, <1>5, <1>6
<1>11. TurnsKnown'
  <2>1. ASSUME NEW k \in DOMAIN us PROVE us[k].of \in DOMAIN streams' /\ (us[k].role = "assistant" /\ Failed(streams'[us[k].of]) => us[k].state = "error")
    <3>1. CASE k = n BY <3>1, <1>1, <1>2, <1>5
    <3>2. CASE k # n
      <4>1. us[k] = chat.turns[k] /\ k \in DOMAIN chat.turns BY <3>2, <1>5
      <4>2. us[k].of \in DOMAIN streams /\ (us[k].role = "assistant" /\ Failed(streams[us[k].of]) => us[k].state = "error") BY <4>1 DEF ChatInv, TurnsKnown
      <4>3. us[k].role = "assistant" => us[k].of # s BY <4>1, <3>2, <1>2
      <4>4. QED BY <4>2, <4>3, <1>1
    <3>3. QED BY <3>1, <3>2
  <2>2. QED BY <2>1, <1>6 DEF TurnsKnown
<1>12. SentSettled' BY <1>1 DEF SentSettled
<1>13. OnceAsked'
  <2>1. SUFFICES ASSUME NEW o \in DOMAIN streams', Running(streams'[o])
                 PROVE  /\ chat'.turns[Len(chat'.turns)].step = "asking" => decisions'[o] = 0 /\ Asks(streams'[o])
                        /\ decisions'[o] # 0 => decisions'[o] = 1 /\ Asks(streams'[o])
    BY DEF OnceAsked
  <2>2. o = s /\ streams'[o] = st /\ Running(st) BY <2>1, <1>9
  <2>3. decisions[s] # 0 => decisions[s] = 1 BY DEF ChatInv, OnceAsked
  <2>4. QED BY <2>2, <2>3, <1>5, <1>6
<1>14. QED BY <1>7, <1>8, <1>10, <1>11, <1>12, <1>13 DEF ChatInv

\* The turn of the stream that replies.
LEMMA TurnOfRunning ==
    ASSUME ChatInv, NEW s \in DOMAIN streams, Running(streams[s])
    PROVE  /\ streams[s] \in StreamType /\ chat \in ChatType /\ chat.turns \in Seq(TurnType) /\ chat.turns # <<>>
           /\ Len(chat.turns) \in DOMAIN chat.turns /\ chat.turns[Len(chat.turns)] \in TurnType
           /\ streams[s].script \in Scripts /\ streams[s].at \in 0..Len(streams[s].script)
<1>1. chat.turns # <<>> BY DEF ChatInv, RunsLast
<1>2. chat \in ChatType /\ chat.turns \in Seq(TurnType) BY DEF ChatInv, ChatTyped, ChatType
<1>3. streams[s] \in StreamType /\ streams[s].at <= Len(streams[s].script) BY DEF ChatInv, StreamsTyped
<1>4. streams[s].script \in Scripts /\ streams[s].at \in Nat BY <1>3 DEF StreamType
<1>5. streams[s].at \in 0..Len(streams[s].script) BY <1>3, <1>4, ScriptFacts
<1>6. QED BY <1>1, <1>2, <1>3, <1>4, <1>5

\* A stream that closes leaves none that replies, unless it was left behind by one that does.
LEMMA ClosedOver ==
    ASSUME ChatInv, NEW s \in DOMAIN streams, streams[s].state = "open", "reply" \notin late',
           A!Noted("reply", A!Overtaken(s)), streams' = [streams EXCEPT ![s].state = "closed"]
    PROVE  /\ streams' \in Seq(StreamType) /\ Len(streams') = Len(streams)
           /\ \A o \in DOMAIN streams : /\ ~Running(streams'[o]) /\ streams'[o].at = streams[o].at /\ streams'[o].script = streams[o].script
                                        /\ streams'[o].sent = streams[o].sent
                                        /\ Settled(streams, o) => Settled(streams', o)
                                        /\ Failed(streams'[o]) => Failed(streams[o]) \/ (o = s /\ Running(streams[s]))
<1>0. streams \in Seq(StreamType) /\ streams[s] \in StreamType /\ streams[s].at <= Len(streams[s].script) /\ streams[s].at \in Nat
      /\ Len(streams[s].script) \in Nat
  <2>1. streams \in Seq(StreamType) /\ streams[s].at <= Len(streams[s].script) BY DEF ChatInv, StreamsTyped
  <2>2. streams[s] \in StreamType BY <2>1
  <2>3. streams[s].script \in Scripts /\ streams[s].at \in Nat BY <2>2 DEF StreamType
  <2>4. QED BY <2>1, <2>2, <2>3, ScriptFacts
<1> DEFINE st == [streams[s] EXCEPT !.state = "closed"]
<1>1. /\ st \in StreamType /\ st.at = streams[s].at /\ st.script = streams[s].script /\ st.sent = streams[s].sent /\ st.state = "closed"
  BY <1>0 DEF StreamType
<1>2. streams' = [streams EXCEPT ![s] = st] OBVIOUS
<1> HIDE DEF st
<1>3. /\ streams' \in Seq(StreamType) /\ Len(streams') = Len(streams) /\ DOMAIN streams' = DOMAIN streams
      /\ streams'[s] = st /\ \A o \in DOMAIN streams : o # s => streams'[o] = streams[o]
  BY <1>0, <1>1, <1>2
<1>4. \A o \in DOMAIN streams : o # s => ~Running(streams[o])
  <2>1. ~A!Overtaken(s) BY DEF A!Noted
  <2>2. \A o \in DOMAIN streams : Running(streams[o]) => o = chat.stream /\ chat.busy BY DEF ChatInv, RunsLast
  <2>3. QED BY <2>1, <2>2 DEF A!Overtaken
<1>5. ASSUME NEW o \in DOMAIN streams
      PROVE  /\ ~Running(streams'[o]) /\ streams'[o].at = streams[o].at /\ streams'[o].script = streams[o].script
             /\ streams'[o].sent = streams[o].sent
             /\ Settled(streams, o) => Settled(streams', o)
             /\ Failed(streams'[o]) => Failed(streams[o]) \/ (o = s /\ Running(streams[s]))
  <2>1. CASE o # s BY <2>1, <1>3, <1>4 DEF Settled
  <2>2. CASE o = s
    <3>1. ~Running(st) BY <1>1 DEF Running
    <3>2. Failed(st) => Failed(streams[s]) \/ Running(streams[s]) BY <1>1 DEF Failed, Running
    <3>3. Settled(streams, s) => Settled(streams', s) BY <3>1, <3>2, <1>3 DEF Settled
    <3>4. QED BY <3>1, <3>2, <3>3, <2>2, <1>1, <1>3
  <2>3. QED BY <2>1, <2>2
<1>6. QED BY <1>3, <1>5

LEMMA CloseKeeps ==
    ASSUME ChatInv, NEW s \in DOMAIN streams, A!CloseStream(s), "reply" \notin late'
    PROVE  ChatInv'
<1>0. /\ streams[s].state = "open" /\ streams[s].at = Len(streams[s].script) /\ streams' = [streams EXCEPT ![s].state = "closed"]
      /\ chat' = [chat EXCEPT !.busy = FALSE] /\ A!Noted("reply", A!Overtaken(s))
      /\ UNCHANGED <<chats, pick, saves, loads, convRows, decisions>>
  BY DEF A!CloseStream
<1>1. /\ streams' \in Seq(StreamType) /\ Len(streams') = Len(streams)
      /\ \A o \in DOMAIN streams : /\ ~Running(streams'[o]) /\ streams'[o].at = streams[o].at /\ streams'[o].script = streams[o].script
                                   /\ streams'[o].sent = streams[o].sent
                                   /\ Settled(streams, o) => Settled(streams', o)
                                   /\ Failed(streams'[o]) => Failed(streams[o]) \/ (o = s /\ Running(streams[s]))
  BY <1>0, ClosedOver
<1>2. chat \in ChatType /\ Len(streams) \in Nat BY DEF ChatInv, ChatTyped, StreamsTyped
<1>3. chat' \in ChatType /\ chat'.turns = chat.turns /\ chat'.no = chat.no /\ chat'.conn = chat.conn /\ chat'.stream = chat.stream /\ chat'.savedId = chat.savedId
  BY <1>0, <1>2 DEF ChatType
<1>4. ChatTyped' BY <1>0, <1>1, <1>3 DEF ChatInv, ChatTyped
<1>5. TurnsKnown'
  <2>1. ~Running(streams[s])
    <3>1. streams[s].at \in Nat
      <4>1. streams[s] \in StreamType BY DEF ChatInv, StreamsTyped
      <4>2. QED BY <4>1 DEF StreamType
    <3>2. QED BY <3>1, <1>0 DEF Running
  <2>2. DOMAIN streams' = DOMAIN streams BY <1>1, <1>2 DEF ChatInv, StreamsTyped
  <2>3. QED BY <2>1, <2>2, <1>1, <1>3 DEF ChatInv, TurnsKnown
<1>6. QED BY <1>0, <1>1, <1>4, <1>5, OverKeeps

LEMMA BreakKeeps ==
    ASSUME ChatInv, NEW s \in DOMAIN streams, A!BreakStream(s), "reply" \notin late'
    PROVE  ChatInv'
<1> DEFINE n == Len(chat.turns)
           t == [chat.turns[n] EXCEPT !.state = "error"]
           us == [chat.turns EXCEPT ![n] = t]
<1>0. /\ streams[s].state = "open" /\ streams' = [streams EXCEPT ![s].state = "closed"]
      /\ chat' = [chat EXCEPT !.busy = FALSE, !.turns = IF @ = <<>> THEN @ ELSE [@ EXCEPT ![Len(@)].state = "error"]]
      /\ A!Noted("reply", A!Overtaken(s)) /\ UNCHANGED <<chats, pick, saves, loads, convRows, decisions>>
  BY DEF A!BreakStream
<1>1. /\ streams' \in Seq(StreamType) /\ Len(streams') = Len(streams)
      /\ \A o \in DOMAIN streams : /\ ~Running(streams'[o]) /\ streams'[o].at = streams[o].at /\ streams'[o].script = streams[o].script
                                   /\ streams'[o].sent = streams[o].sent
                                   /\ Settled(streams, o) => Settled(streams', o)
                                   /\ Failed(streams'[o]) => Failed(streams[o]) \/ (o = s /\ Running(streams[s]))
  BY <1>0, ClosedOver
<1>2. chat \in ChatType /\ chat.turns \in Seq(TurnType) /\ DOMAIN streams' = DOMAIN streams
  BY <1>1 DEF ChatInv, ChatTyped, ChatType, StreamsTyped
<1>3. CASE chat.turns = <<>>
  <2>1. chat' = [chat EXCEPT !.busy = FALSE] BY <1>0, <1>2, <1>3 DEF ChatType
  <2>2. chat' \in ChatType /\ chat'.turns = <<>> /\ chat'.no = chat.no /\ chat'.conn = chat.conn /\ chat'.stream = chat.stream /\ chat'.savedId = chat.savedId
    BY <2>1, <1>2, <1>3 DEF ChatType
  <2>3. ChatTyped' BY <2>2, <1>0, <1>1 DEF ChatInv, ChatTyped
  <2>4. TurnsKnown' BY <2>2 DEF TurnsKnown
  <2>5. QED BY <2>3, <2>4, <1>0, <1>1, OverKeeps
<1>4. CASE chat.turns # <<>>
  <2>1. n \in DOMAIN chat.turns /\ chat.turns[n] \in TurnType BY <1>2, <1>4
  <2>2. t \in TurnType /\ t.of = chat.turns[n].of /\ t.role = chat.turns[n].role /\ t.state = "error" BY <2>1 DEF TurnType
  <2>3. chat' = [chat EXCEPT !.busy = FALSE, !.turns = us] BY <1>0, <1>2, <1>4 DEF ChatType
  <2> HIDE DEF t
  <2>4. /\ us \in Seq(TurnType) /\ DOMAIN us = DOMAIN chat.turns /\ us # <<>>
        /\ us[n] = t /\ \A j \in DOMAIN chat.turns : j # n => us[j] = chat.turns[j]
    BY <2>1, <2>2, TurnChanged
  <2> HIDE DEF us
  <2>5. chat' \in ChatType /\ chat'.turns = us /\ chat'.no = chat.no /\ chat'.conn = chat.conn /\ chat'.stream = chat.stream /\ chat'.savedId = chat.savedId
    BY <2>3, <2>4, <1>2 DEF ChatType
  <2>6. ChatTyped'
    <3>1. chat.no # 0 BY <1>4 DEF ChatInv, ChatTyped
    <3>2. QED BY <3>1, <2>5, <1>0, <1>1 DEF ChatInv, ChatTyped
  <2>7. ASSUME NEW k \in DOMAIN us
        PROVE  us[k].of \in DOMAIN streams' /\ (us[k].role = "assistant" /\ Failed(streams'[us[k].of]) => us[k].state = "error")
    <3>1. /\ chat.turns[k].of \in DOMAIN streams
          /\ chat.turns[k].role = "assistant" /\ Failed(streams[chat.turns[k].of]) => chat.turns[k].state = "error"
      BY <2>4 DEF ChatInv, TurnsKnown
    <3>2. CASE k = n BY <3>1, <3>2, <2>2, <2>4, <1>2
    <3>3. CASE k # n
      <4>1. us[k] = chat.turns[k] /\ k \in DOMAIN chat.turns BY <3>3, <2>4
      <4>2. Running(streams[s]) /\ chat.turns[k].of = s => chat.turns[k].role = "user" BY <4>1, <3>3 DEF ChatInv, RunsLast
      <4>3. QED BY <4>1, <4>2, <3>1, <1>1, <1>2
    <3>4. QED BY <3>2, <3>3
  <2>8. TurnsKnown' BY <2>5, <2>7 DEF TurnsKnown
  <2>9. QED BY <2>6, <2>8, <1>0, <1>1, OverKeeps
<1>5. QED BY <1>3, <1>4

LEMMA DeliverKeeps ==
    ASSUME ChatInv, NEW s \in DOMAIN streams, A!Deliver(s)
    PROVE  ChatInv'
<1> DEFINE n == Len(chat.turns)
           old == streams[s]
           e == old.script[old.at + 1]
           t == A!TurnAfter(e, chat.turns[n])
           st == [old EXCEPT !.at = @ + 1]
           c == A!Folded(chat, e)
           us == [chat.turns EXCEPT ![n] = t]
           saving == e = "end" /\ autoSave /\ c.turns # <<>>
<1>0. /\ old.state = "open" /\ old.at < Len(old.script) /\ streams' = [streams EXCEPT ![s].at = @ + 1] /\ chat' = c
      /\ saving => A!MaySave(c)
      /\ saves' = IF saving THEN Append(saves, A!SaveCall(c)) ELSE saves
      /\ UNCHANGED <<chats, pick, loads, convRows, decisions>>
  BY DEF A!Deliver
<1>r. Running(old) BY <1>0 DEF Running
<1>1. /\ old \in StreamType /\ chat \in ChatType /\ chat.turns \in Seq(TurnType) /\ chat.turns # <<>> /\ n \in DOMAIN chat.turns /\ chat.turns[n] \in TurnType
      /\ old.script \in Scripts /\ old.at \in 0..Len(old.script)
  BY <1>r, TurnOfRunning
<1>2. chat.turns[n].of = s /\ chat.turns[n].role = "assistant" BY <1>r DEF ChatInv, RunsLast
<1>3. /\ Len(old.script) \in Nat /\ old.at + 1 \in 1..Len(old.script)
      /\ (e \in {"end", "error"} <=> old.at + 1 = Len(old.script))
  BY <1>0, <1>1, ScriptFacts
<1>4. /\ st \in StreamType /\ st.sent = old.sent /\ st.script = old.script /\ st.chat = old.chat /\ st.turn = old.turn
      /\ st.at = old.at + 1 /\ st.state = "open"
  BY <1>0, <1>1, <1>3 DEF StreamType
<1>5. streams' = [streams EXCEPT ![s] = st] BY <1>0
<1>6. /\ t \in TurnType /\ t.of = chat.turns[n].of /\ t.role = chat.turns[n].role
      /\ t.step = A!StepAfter(e, chat.turns[n].step) /\ (e = "error" => t.state = "error") /\ (e = "end" => t.state = "done")
  <2>1. A!StepAfter(e, chat.turns[n].step) \in {"none", "called", "asking", "done"} BY <1>1 DEF A!StepAfter, TurnType
  <2>2. QED BY <1>1, <2>1 DEF A!TurnAfter, TurnType
<1>7. c = [chat EXCEPT !.turns = us, !.busy = e \notin {"end", "error"}] BY <1>1 DEF A!Folded, ChatType
<1>8. us \in Seq(TurnType) /\ us # <<>> /\ us[n] = t /\ DOMAIN us = DOMAIN chat.turns /\ \A k \in DOMAIN chat.turns : k # n => us[k] = chat.turns[k]
  <2> HIDE DEF t
  <2>1. QED BY <1>1, <1>6, TurnChanged
<1> HIDE DEF us, t, st
<1>9. /\ c \in ChatType /\ c.turns = us /\ c.busy = (e \notin {"end", "error"}) /\ c.no = chat.no /\ c.conn = chat.conn /\ c.stream = chat.stream
      /\ c.savedId = chat.savedId
  <2> HIDE DEF c, e
  <2>1. (e \notin {"end", "error"}) \in BOOLEAN OBVIOUS
  <2>2. QED BY <1>1, <1>7, <1>8, <2>1 DEF ChatType
<1> HIDE DEF c
<1>10. Failed(st) <=> e = "error"
  <2>1. st.script[st.at] = e /\ st.at > 0 BY <1>1, <1>3, <1>4
  <2>2. QED BY <2>1, <1>4 DEF Failed
<1>11. Running(st) <=> e \notin {"end", "error"}
  BY <1>3, <1>4 DEF Running
<1>12. ~Settled(streams, s) BY <1>0 DEF Settled, Running
<1>13. /\ DOMAIN streams' = DOMAIN streams /\ streams'[s] = st /\ \A o \in DOMAIN streams : o # s => streams'[o] = streams[o]
       /\ \A id \in DOMAIN convRows : AllSettled(streams', convRows[id].messages)
       /\ \A k \in DOMAIN saves : AllSettled(streams', saves[k].messages)
  BY <1>4, <1>5, <1>12, StreamMoved
<1>14. RowsTyped' /\ KeptSettled'
  <2>1. CASE ~saving
    <3>1. saves' = saves BY <2>1, <1>0
    <3>2. QED BY <3>1, <1>0, <1>13 DEF ChatInv, RowsTyped, KeptSettled
  <2>2. CASE saving
    <3> DEFINE call == A!SaveCall(c)
    <3>1. e = "end" /\ A!MaySave(c) /\ saves' = Append(saves, call) BY <2>2, <1>0
    <3>2. ASSUME NEW k \in DOMAIN us
          PROVE  us[k].of \in DOMAIN streams' /\ (us[k].role = "assistant" /\ us[k].state # "error" => Settled(streams', us[k].of))
      <4>1. CASE k = n
        <5>1. us[k].of = s BY <4>1, <1>2, <1>6, <1>8
        <5>2. Settled(streams', s) BY <3>1, <1>10, <1>11, <1>13 DEF Settled
        <5>3. QED BY <5>1, <5>2, <1>13
      <4>2. CASE k # n
        <5>1. k \in DOMAIN chat.turns /\ us[k] = chat.turns[k] BY <4>2, <1>8
        <5>2. us[k].of \in DOMAIN streams /\ (us[k].role = "assistant" /\ Failed(streams[us[k].of]) => us[k].state = "error") BY <5>1 DEF ChatInv, TurnsKnown
        <5>3. us[k].role = "assistant" => us[k].of # s BY <5>1, <4>2, <1>r DEF ChatInv, RunsLast
        <5>4. us[k].of # s => ~Running(streams[us[k].of])
          <6>1. s = Len(streams) /\ \A o \in DOMAIN streams : Running(streams[o]) => o = Len(streams) BY <1>r DEF ChatInv, RunsLast
          <6>2. QED BY <6>1, <5>2
        <5>5. us[k].role = "assistant" /\ us[k].state # "error" => Settled(streams', us[k].of) BY <5>2, <5>3, <5>4, <1>13 DEF Settled
        <5>6. QED BY <5>2, <5>5, <1>13
      <4>3. QED BY <4>1, <4>2
    <3>3. A!Outgoing(us) \in Seq(TurnType) /\ AllSettled(streams', A!Outgoing(us)) BY <1>8, <3>2, OutgoingSettled
    <3>4. call = [id |-> chat.savedId, chat |-> chat.no, conn |-> chat.conn, messages |-> A!Outgoing(us)] BY <1>9 DEF A!SaveCall
    <3>5. chat.no # 0 /\ chat.conn \in Conns /\ chat.savedId <= Len(convRows) /\ chat.no \in 0..MaxChats /\ chat.savedId \in Nat
      BY <1>1 DEF ChatInv, ChatTyped, ChatType
    <3>6. chat.no \in 1..MaxChats BY <3>5, ScriptFacts
    <3>7. call \in CallType /\ call.id = chat.savedId /\ call.messages = A!Outgoing(us) BY <3>3, <3>4, <3>5, <3>6 DEF CallType
    <3> HIDE DEF call
    <3>8. call.id = 0 => Len(convRows) + Len(saves) < MaxRows BY <3>1, <3>7, <1>9 DEF A!MaySave
    <3>9. RowsTyped BY DEF ChatInv
    <3>10. AllSettled(streams', call.messages) /\ call.id <= Len(convRows) BY <3>3, <3>5, <3>7
    <3>11. UNCHANGED <<convRows, loads>> BY <1>0
    <3> DEFINE ss == [streams EXCEPT ![s] = st]
    <3>12. /\ streams' = ss /\ AllSettled(ss, call.messages)
           /\ \A id \in DOMAIN convRows : AllSettled(ss, convRows[id].messages)
           /\ \A k \in DOMAIN saves : AllSettled(ss, saves[k].messages)
      BY <1>5, <1>13, <3>10
    <3> HIDE DEF ss
    <3>13. call \in CallType /\ call.id <= Len(convRows) /\ saves' = Append(saves, call) BY <3>1, <3>7, <3>10 DEF call
    <3>14. QED BY <3>8, <3>9, <3>11, <3>12, <3>13, CallAdded
  <2>3. QED BY <2>1, <2>2
<1>15. Running(st) => chat'.busy
  <2> HIDE DEF old, e
  <2>1. Running(st) => e \notin {"end", "error"} BY <1>11
  <2>2. e \notin {"end", "error"} => c.busy BY <1>9, Zenon
  <2>3. QED BY <2>1, <2>2, <1>0
<1>16. Asks(old) => Asks(st)
  <2>1. old.at \in Nat BY <1>1, <1>3
  <2>2. QED BY <2>1, <1>4 DEF Asks
<1>17. decisions[s] # 0 => Asks(st) BY <1>r, <1>16 DEF ChatInv, OnceAsked
<1>18. t.step = "asking" => decisions[s] = 0 /\ Asks(st)
  <2>1. CASE e = "tool-approval"
    <3>1. Asks(st) BY <2>1, <1>1, <1>3, <1>4 DEF Asks
    <3>2. ~Asks(old)
      <4>1. SUFFICES ASSUME NEW i \in 1..old.at, old.script[i] = "tool-approval" PROVE FALSE BY DEF Asks
      <4>2. i \in 1..Len(old.script) /\ i # old.at + 1 BY <1>1, <1>3
      <4>3. QED BY <4>1, <4>2, <2>1, <1>1, <1>3, ScriptFacts
    <3>3. decisions[s] = 0 BY <3>2, <1>r DEF ChatInv, OnceAsked
    <3>4. QED BY <3>1, <3>3
  <2>2. CASE e # "tool-approval"
    <3>1. t.step = "asking" => chat.turns[n].step = "asking" BY <2>2, <1>6 DEF A!StepAfter
    <3>2. QED BY <3>1, <1>r, <1>16 DEF ChatInv, OnceAsked
  <2>3. QED BY <2>1, <2>2
<1>19. st.at <= Len(st.script) BY <1>3, <1>4
<1>20. Failed(st) => t.state = "error" BY <1>6, <1>10
<1>21. Settled(streams, s) => ~Running(st) /\ ~Failed(st) BY <1>12
<1>22. /\ chat' \in ChatType /\ chat'.turns = [chat.turns EXCEPT ![n] = t] /\ chat'.no = chat.no /\ chat'.conn = chat.conn /\ chat'.stream = chat.stream
       /\ chat'.savedId = chat.savedId
  BY <1>0, <1>9 DEF us
<1>23. /\ Running(old) /\ UNCHANGED <<chats, pick, convRows, decisions>> BY <1>0, <1>r
<1>24. QED BY <1>4, <1>5, <1>6, <1>14, <1>15, <1>17, <1>18, <1>19, <1>20, <1>21, <1>22, <1>23, ReplyMoved

LEMMA ResumeKeeps ==
    ASSUME ChatInv, NEW k \in DOMAIN chat.turns, A!ResumeToolCall(k)
    PROVE  ChatInv'
<1> DEFINE n == Len(chat.turns)
           o == chat.turns[k].of
           t == A!FlagDropped(chat.turns[k])
           us == [chat.turns EXCEPT ![k] = t]
<1>0. /\ chat.turns[k].step = "asking" /\ chat' = [chat EXCEPT !.turns[k] = A!FlagDropped(@)]
      /\ decisions' = [decisions EXCEPT ![o] = @ + 1]
      /\ UNCHANGED <<chats, streams, pick, saves, loads, convRows>>
  BY DEF A!ResumeToolCall
<1>1. /\ chat \in ChatType /\ chat.turns \in Seq(TurnType) /\ chat.turns[k] \in TurnType /\ decisions \in Seq(Nat) /\ Len(decisions) = Len(streams)
      /\ streams \in Seq(StreamType)
  BY DEF ChatInv, ChatTyped, ChatType, StreamsTyped
<1>2. o \in DOMAIN streams BY DEF ChatInv, TurnsKnown
<1>3. t \in TurnType /\ t.of = o /\ t.role = chat.turns[k].role /\ t.state = chat.turns[k].state /\ t.step = "called" BY <1>1 DEF A!FlagDropped, TurnType
<1>4. chat' = [chat EXCEPT !.turns = us] BY <1>0, <1>1 DEF ChatType
<1>5. /\ us \in Seq(TurnType) /\ Len(us) = n /\ DOMAIN us = DOMAIN chat.turns /\ us # <<>> /\ us[k] = t
      /\ \A j \in DOMAIN chat.turns : j # k => us[j] = chat.turns[j]
      /\ \A j \in DOMAIN chat.turns : us[j].of = chat.turns[j].of /\ us[j].role = chat.turns[j].role
  <2> HIDE DEF t
  <2>1. QED BY <1>3, TurnChanged
<1> HIDE DEF us, t
<1>6. /\ chat' \in ChatType /\ chat'.turns = us /\ chat'.no = chat.no /\ chat'.conn = chat.conn /\ chat'.stream = chat.stream /\ chat'.busy = chat.busy
      /\ chat'.savedId = chat.savedId
  BY <1>1, <1>4, <1>5 DEF ChatType
<1>7. /\ decisions' \in Seq(Nat) /\ Len(decisions') = Len(decisions) /\ decisions'[o] = decisions[o] + 1
      /\ \A s \in DOMAIN streams : s # o => decisions'[s] = decisions[s]
  BY <1>0, <1>1, <1>2
<1>8. ChatTyped'
  <2>1. chat.no # 0 BY <1>1 DEF ChatInv, ChatTyped
  <2>2. QED BY <2>1, <1>0, <1>6 DEF ChatInv, ChatTyped
<1>9. StreamsTyped' /\ RowsTyped' BY <1>0, <1>1, <1>7 DEF ChatInv, StreamsTyped, RowsTyped
<1>10. RunsLast'
  <2>1. SUFFICES ASSUME NEW s \in DOMAIN streams, Running(streams[s])
                 PROVE  /\ s = Len(streams) /\ chat'.stream = s /\ chat'.no = streams[s].chat
                        /\ chat'.turns # <<>> /\ Len(chat'.turns) = streams[s].turn
                        /\ chat'.turns[streams[s].turn].of = s /\ chat'.turns[streams[s].turn].role = "assistant"
                        /\ chat'.busy
                        /\ \A j \in DOMAIN chat'.turns : chat'.turns[j].of = s /\ j # Len(chat'.turns) => chat'.turns[j].role = "user" /\ chat'.turns[j].step = "none"
    BY <1>0 DEF RunsLast
  <2>2. /\ s = Len(streams) /\ chat.stream = s /\ chat.no = streams[s].chat /\ n = streams[s].turn /\ chat.turns[n].of = s /\ chat.turns[n].role = "assistant"
        /\ chat.busy /\ n \in DOMAIN chat.turns
        /\ \A j \in DOMAIN chat.turns : chat.turns[j].of = s /\ j # n => chat.turns[j].role = "user" /\ chat.turns[j].step = "none"
    BY <2>1, TurnOfRunning DEF ChatInv, RunsLast
  <2>3. o = s => k = n BY <2>2, <1>0
  <2>4. \A j \in DOMAIN us : us[j].of = s /\ j # n => us[j].role = "user" /\ us[j].step = "none" BY <2>2, <2>3, <1>3, <1>5
  <2>5. QED BY <2>2, <2>4, <1>5, <1>6
<1>11. TurnsKnown'
  <2>1. ASSUME NEW j \in DOMAIN us PROVE us[j].of \in DOMAIN streams /\ (us[j].role = "assistant" /\ Failed(streams[us[j].of]) => us[j].state = "error")
    <3>1. chat.turns[j].of \in DOMAIN streams /\ (chat.turns[j].role = "assistant" /\ Failed(streams[chat.turns[j].of]) => chat.turns[j].state = "error")
      BY <1>5 DEF ChatInv, TurnsKnown
    <3>2. us[j].of = chat.turns[j].of /\ us[j].role = chat.turns[j].role /\ us[j].state = chat.turns[j].state BY <1>3, <1>5
    <3>3. QED BY <3>1, <3>2
  <2>2. QED BY <2>1, <1>0, <1>6 DEF TurnsKnown
<1>12. SentSettled' /\ KeptSettled' BY <1>0 DEF ChatInv, SentSettled, KeptSettled, AllSettled, Settled
<1>13. OnceAsked'
  <2>1. SUFFICES ASSUME NEW s \in DOMAIN streams, Running(streams[s])
                 PROVE  /\ us[n].step = "asking" => decisions'[s] = 0 /\ Asks(streams[s])
                        /\ decisions'[s] # 0 => decisions'[s] = 1 /\ Asks(streams[s])
    BY <1>0, <1>5, <1>6 DEF OnceAsked
  <2>2. /\ n \in DOMAIN chat.turns /\ chat.turns[n].of = s
        /\ \A j \in DOMAIN chat.turns : chat.turns[j].of = s /\ j # n => chat.turns[j].step = "none"
    BY <2>1, TurnOfRunning DEF ChatInv, RunsLast
  <2>3. /\ chat.turns[n].step = "asking" => decisions[s] = 0 /\ Asks(streams[s])
        /\ decisions[s] # 0 => decisions[s] = 1 /\ Asks(streams[s])
    BY <2>1 DEF ChatInv, OnceAsked
  <2>4. CASE k = n
    <3>1. o = s /\ us[n].step = "called" BY <2>4, <2>2, <1>3, <1>5
    <3>2. QED BY <3>1, <2>3, <2>4, <1>0, <1>7
  <2>5. CASE k # n
    <3>1. o # s /\ us[n] = chat.turns[n] BY <2>5, <2>2, <1>0, <1>5
    <3>2. QED BY <3>1, <2>3, <1>7
  <2>6. QED BY <2>4, <2>5
<1>14. QED BY <1>8, <1>9, <1>10, <1>11, <1>12, <1>13 DEF ChatInv

\* The chat begins as nothing.
LEMMA ChatBegins ==
    ASSUME A!Init, pick \in Conns
    PROVE  ChatInv
<1>0. /\ chat = A!Empty(0, 0) /\ chats = 0 /\ streams = <<>> /\ decisions = <<>> /\ saves = <<>> /\ loads = {} /\ convRows = <<>>
  BY DEF A!Init, A!NoChat
<1>1. MaxChats \in Nat /\ MaxRows \in Nat BY ScriptFacts
<1>2. <<>> \in Seq(TurnType) /\ <<>> \in Seq(StreamType) /\ <<>> \in Seq(RowType) /\ <<>> \in Seq(CallType) /\ <<>> \in Seq(Nat) OBVIOUS
<1>3. chat = [no |-> 0, conn |-> 0, turns |-> <<>>, busy |-> FALSE, savedId |-> 0, stream |-> 0] BY <1>0 DEF A!Empty
<1>4. chat \in ChatType BY <1>1, <1>2, <1>3 DEF ChatType
<1>5. ChatTyped BY <1>0, <1>1, <1>3, <1>4 DEF ChatTyped
<1>6. StreamsTyped BY <1>0, <1>2 DEF StreamsTyped
<1>7. RowsTyped BY <1>0, <1>1, <1>2 DEF RowsTyped
<1>8. RunsLast /\ SentSettled /\ KeptSettled /\ OnceAsked BY <1>0 DEF RunsLast, SentSettled, KeptSettled, OnceAsked
<1>9. TurnsKnown BY <1>3 DEF TurnsKnown
<1>10. QED BY <1>5, <1>6, <1>7, <1>8, <1>9 DEF ChatInv

\* Every step of the chat keeps it in order, until an earlier stream closes while a later one replies.
LEMMA ChatGoesOn ==
    ASSUME ChatInv, A!Next, "reply" \notin late'
    PROVE  ChatInv'
<1>1. ASSUME NEW c \in Conns, A!PickConnection(c) PROVE ChatInv' BY <1>1, PickKeeps
<1>2. ASSUME NEW script \in Scripts, A!Send(script) PROVE ChatInv' BY <1>2, SendKeeps
<1>3. ASSUME NEW k \in DOMAIN chat.turns, A!ResumeToolCall(k) PROVE ChatInv' BY <1>3, ResumeKeeps
<1>4. ASSUME A!StopChat PROVE ChatInv' BY <1>4, StopKeeps
<1>5. ASSUME A!ResetChat PROVE ChatInv' BY <1>5, ResetKeeps
<1>6. ASSUME A!SetAutoSave PROVE ChatInv' BY <1>6, AutoSaveKeeps
<1>7. ASSUME A!SaveChat PROVE ChatInv' BY <1>7, SaveKeeps
<1>8. ASSUME NEW id \in DOMAIN convRows, A!LoadConversation(id) PROVE ChatInv' BY <1>8, LoadKeeps
<1>9. ASSUME NEW id \in DOMAIN convRows, A!DeleteConversation(id) PROVE ChatInv' BY <1>9, DeleteKeeps
<1>10. ASSUME NEW s \in DOMAIN streams, A!Deliver(s) PROVE ChatInv' BY <1>10, DeliverKeeps
<1>11. ASSUME NEW s \in DOMAIN streams, A!CloseStream(s) PROVE ChatInv' BY <1>11, CloseKeeps
<1>12. ASSUME NEW s \in DOMAIN streams, A!BreakStream(s) PROVE ChatInv' BY <1>12, BreakKeeps
<1>13. ASSUME NEW k \in DOMAIN saves, A!Saved(k) PROVE ChatInv' BY <1>13, SavedKeeps
<1>14. ASSUME NEW id \in loads, A!Loaded(id) PROVE ChatInv' BY <1>14, LoadedKeeps
<1>15. QED
  BY <1>1, <1>2, <1>3, <1>4, <1>5, <1>6, <1>7, <1>8, <1>9, <1>10, <1>11, <1>12, <1>13, <1>14 DEF A!Next, A!UserStep, A!Backend

\* A step of another part of the console leaves the chat in order.
LEMMA ChatRests ==
    ASSUME ChatInv, UNCHANGED chatVars
    PROVE  ChatInv'
<1>0. UNCHANGED <<chat, chats, streams, pick, saves, loads, convRows, decisions>> BY DEF chatVars
<1>1. ChatTyped' /\ RowsTyped' /\ KeptSettled' BY <1>0 DEF ChatInv, ChatTyped, RowsTyped, KeptSettled, AllSettled, Settled
<1>2. QED BY <1>0, <1>1, RestKeeps

-----------------------------------------------------------------------------
(* The types of the chat, which hold whatever came when; and its rows.     *)

Refers ==
    /\ \A k \in DOMAIN chat.turns : chat.turns[k].of \in DOMAIN streams
    /\ \A id \in DOMAIN convRows : \A k \in DOMAIN convRows[id].messages : convRows[id].messages[k].of \in DOMAIN streams
    /\ \A c \in DOMAIN saves : \A k \in DOMAIN saves[c].messages : saves[c].messages[k].of \in DOMAIN streams
TypesInv == ChatTyped /\ StreamsTyped /\ RowsTyped /\ Refers /\ late \subseteq {"reply", "save"}

\* What the proofs about types take from them.
LEMMA TypeFacts ==
    ASSUME TypesInv
    PROVE  /\ chat \in ChatType /\ chat.turns \in Seq(TurnType) /\ chat.no \in 0..MaxChats /\ chat.conn \in Conns \cup {0} /\ chat.busy \in BOOLEAN
           /\ chat.savedId \in Nat /\ chat.stream \in Nat /\ chat.stream <= Len(streams) /\ chat.savedId <= Len(convRows)
           /\ (chat.no = 0 => chat.turns = <<>>) /\ (chat.no # 0 => chat.conn \in Conns)
           /\ pick \in Conns /\ chats \in 0..MaxChats
           /\ streams \in Seq(StreamType) /\ Len(streams) \in Nat /\ decisions \in Seq(Nat) /\ Len(decisions) = Len(streams)
           /\ \A s \in DOMAIN streams : streams[s] \in StreamType /\ streams[s].at <= Len(streams[s].script)
           /\ convRows \in Seq(RowType) /\ Len(convRows) \in Nat /\ saves \in Seq(CallType) /\ loads \subseteq DOMAIN convRows
BY DEF TypesInv, ChatTyped, ChatType, StreamsTyped, RowsTyped

\* Streams that grow in number only keep what refers to them.
LEMMA RowsRest ==
    ASSUME TypesInv, UNCHANGED <<convRows, saves>>, loads' \subseteq DOMAIN convRows,
           streams' \in Seq(StreamType), Len(streams) <= Len(streams')
    PROVE  /\ RowsTyped' /\ DOMAIN streams \subseteq DOMAIN streams'
           /\ \A id \in DOMAIN convRows' : \A k \in DOMAIN convRows'[id].messages : convRows'[id].messages[k].of \in DOMAIN streams'
           /\ \A c \in DOMAIN saves' : \A k \in DOMAIN saves'[c].messages : saves'[c].messages[k].of \in DOMAIN streams'
<1>1. DOMAIN streams \subseteq DOMAIN streams' BY TypeFacts
<1>2. RowsTyped' BY DEF TypesInv, RowsTyped
<1>3. QED BY <1>1, <1>2 DEF TypesInv, Refers

\* A step of the chat that keeps its rows as they are has only the chat and its streams to account for.
LEMMA TypesMoved ==
    ASSUME TypesInv, UNCHANGED <<convRows, saves>>, loads' \subseteq DOMAIN convRows, late' \subseteq {"reply", "save"},
           streams' \in Seq(StreamType), Len(streams) <= Len(streams'),
           \A s \in DOMAIN streams' : streams'[s].at <= Len(streams'[s].script),
           decisions' \in Seq(Nat), Len(decisions') = Len(streams'), pick' \in Conns, chats' \in 0..MaxChats,
           chat' \in ChatType, chat'.no = 0 => chat'.turns = <<>>, chat'.no # 0 => chat'.conn \in Conns,
           chat'.stream <= Len(streams'), chat'.savedId <= Len(convRows),
           \A k \in DOMAIN chat'.turns : chat'.turns[k].of \in DOMAIN streams'
    PROVE  TypesInv'
<1>1. /\ RowsTyped'
      /\ \A id \in DOMAIN convRows' : \A k \in DOMAIN convRows'[id].messages : convRows'[id].messages[k].of \in DOMAIN streams'
      /\ \A c \in DOMAIN saves' : \A k \in DOMAIN saves'[c].messages : saves'[c].messages[k].of \in DOMAIN streams'
  BY RowsRest
<1>2. ChatTyped' BY DEF ChatTyped
<1>3. StreamsTyped' BY DEF StreamsTyped
<1>4. QED BY <1>1, <1>2, <1>3 DEF TypesInv, Refers

\* One stream goes on or ends.
LEMMA StreamTypes ==
    ASSUME TypesInv, NEW s \in DOMAIN streams, NEW st \in StreamType, st.at <= Len(st.script)
    PROVE  LET ss == [streams EXCEPT ![s] = st] IN
           ss \in Seq(StreamType) /\ Len(ss) = Len(streams) /\ DOMAIN ss = DOMAIN streams /\ \A o \in DOMAIN ss : ss[o].at <= Len(ss[o].script)
<1> DEFINE ss == [streams EXCEPT ![s] = st]
<1>1. ss \in Seq(StreamType) /\ Len(ss) = Len(streams) /\ DOMAIN ss = DOMAIN streams /\ ss[s] = st /\ \A o \in DOMAIN streams : o # s => ss[o] = streams[o]
  BY TypeFacts
<1> HIDE DEF ss
<1>2. ASSUME NEW o \in DOMAIN ss PROVE ss[o].at <= Len(ss[o].script)
  <2>1. CASE o = s BY <2>1, <1>1
  <2>2. CASE o # s BY <2>2, <1>1, TypeFacts
  <2>3. QED BY <2>1, <2>2
<1>3. QED BY <1>1, <1>2 DEF ss

\* Any state of the stream of the chat is a state of a stream.
LEMMA EndedTypes ==
    ASSUME TypesInv, NEW s \in DOMAIN streams, NEW e \in {"closed", "aborted"}
    PROVE  LET ss == [streams EXCEPT ![s].state = e] IN
           ss \in Seq(StreamType) /\ Len(ss) = Len(streams) /\ DOMAIN ss = DOMAIN streams /\ \A o \in DOMAIN ss : ss[o].at <= Len(ss[o].script)
<1> DEFINE st == [streams[s] EXCEPT !.state = e]
<1>1. streams[s] \in StreamType /\ streams[s].at <= Len(streams[s].script) BY TypeFacts
<1>2. st \in StreamType /\ st.at = streams[s].at /\ st.script = streams[s].script BY <1>1 DEF StreamType
<1> DEFINE ss == [streams EXCEPT ![s].state = e]
           zz == [streams EXCEPT ![s] = st]
<1>3. ss = zz OBVIOUS
<1> HIDE DEF st
<1>4. zz \in Seq(StreamType) /\ Len(zz) = Len(streams) /\ DOMAIN zz = DOMAIN streams /\ \A o \in DOMAIN zz : zz[o].at <= Len(zz[o].script)
  BY <1>1, <1>2, StreamTypes
<1> HIDE DEF ss, zz
<1>5. ss \in Seq(StreamType) /\ Len(ss) = Len(streams) /\ DOMAIN ss = DOMAIN streams /\ \A o \in DOMAIN ss : ss[o].at <= Len(ss[o].script)
  BY <1>3, <1>4
<1>6. QED BY <1>5 DEF ss

LEMMA AbortTypes ==
    ASSUME TypesInv
    PROVE  LET ss == A!Aborted(streams) IN
           ss \in Seq(StreamType) /\ Len(ss) = Len(streams) /\ DOMAIN ss = DOMAIN streams /\ \A o \in DOMAIN ss : ss[o].at <= Len(ss[o].script)
<1>1. CASE chat.stream = 0 \/ streams[chat.stream].state # "open"
  <2>1. A!Aborted(streams) = streams BY <1>1 DEF A!Aborted
  <2>2. QED BY <2>1, TypeFacts
<1>2. CASE ~(chat.stream = 0 \/ streams[chat.stream].state # "open")
  <2> DEFINE c == chat.stream
  <2>1. c \in DOMAIN streams BY <1>2, TypeFacts
  <2>2. A!Aborted(streams) = [streams EXCEPT ![c].state = "aborted"] BY <1>2 DEF A!Aborted
  <2> HIDE DEF c
  <2> DEFINE zz == [streams EXCEPT ![c].state = "aborted"]
  <2>3. zz \in Seq(StreamType) /\ Len(zz) = Len(streams) /\ DOMAIN zz = DOMAIN streams /\ \A o \in DOMAIN zz : zz[o].at <= Len(zz[o].script)
    BY <2>1, EndedTypes
  <2> DEFINE ss == A!Aborted(streams)
  <2>4. ss = zz BY <2>2
  <2> HIDE DEF ss, zz
  <2>5. ss \in Seq(StreamType) /\ Len(ss) = Len(streams) /\ DOMAIN ss = DOMAIN streams /\ \A o \in DOMAIN ss : ss[o].at <= Len(ss[o].script)
    BY <2>3, <2>4
  <2>6. QED BY <2>5 DEF ss
<1>3. QED BY <1>1, <1>2

\* The chat with another turn k, and busy or not, or as busy as it is.
TurnSet(k, t) == [chat EXCEPT !.turns = [chat.turns EXCEPT ![k] = t]]
TurnPut(k, t, b) == [chat EXCEPT !.turns = [chat.turns EXCEPT ![k] = t], !.busy = b]
LEMMA TurnTypes ==
    ASSUME TypesInv, NEW k \in DOMAIN chat.turns, NEW t \in TurnType, t.of = chat.turns[k].of, NEW b \in BOOLEAN,
           NEW c, c = TurnPut(k, t, b) \/ c = TurnSet(k, t)
    PROVE  /\ c \in ChatType /\ c.no = chat.no /\ c.conn = chat.conn /\ c.stream = chat.stream /\ c.savedId = chat.savedId /\ c.no # 0
           /\ c.turns \in Seq(TurnType) /\ c.turns # <<>> /\ \A j \in DOMAIN c.turns : c.turns[j].of \in DOMAIN streams
<1> DEFINE us == [chat.turns EXCEPT ![k] = t]
<1>0. chat \in ChatType /\ chat.turns \in Seq(TurnType) /\ (chat.no = 0 => chat.turns = <<>>) BY TypeFacts
<1>1. us \in Seq(TurnType) /\ DOMAIN us = DOMAIN chat.turns /\ us # <<>> /\ us[k] = t /\ \A j \in DOMAIN chat.turns : j # k => us[j] = chat.turns[j] BY <1>0
<1>2. chat.no # 0 BY <1>0
<1>3. c = [chat EXCEPT !.turns = us, !.busy = b] \/ c = [chat EXCEPT !.turns = us] BY DEF TurnPut, TurnSet
<1> HIDE DEF us
<1>4. c \in ChatType /\ c.no = chat.no /\ c.conn = chat.conn /\ c.stream = chat.stream /\ c.savedId = chat.savedId /\ c.turns = us
  BY <1>0, <1>1, <1>3 DEF ChatType
<1>5. \A j \in DOMAIN chat.turns : chat.turns[j].of \in DOMAIN streams BY DEF TypesInv, Refers
<1>6. ASSUME NEW j \in DOMAIN us PROVE us[j].of \in DOMAIN streams
  <2>1. CASE j = k BY <2>1, <1>1, <1>5
  <2>2. CASE j # k BY <2>2, <1>1, <1>5
  <2>3. QED BY <2>1, <2>2
<1>7. QED BY <1>1, <1>2, <1>4, <1>6

\* The chat with its turns as they are, and busy or not.
LEMMA BusyTypes ==
    ASSUME TypesInv, NEW b \in BOOLEAN, NEW c, c = [chat EXCEPT !.busy = b]
    PROVE  /\ c \in ChatType /\ c.no = chat.no /\ c.conn = chat.conn /\ c.stream = chat.stream /\ c.savedId = chat.savedId /\ c.turns = chat.turns
           /\ \A j \in DOMAIN c.turns : c.turns[j].of \in DOMAIN streams
<1>1. c \in ChatType /\ c.no = chat.no /\ c.conn = chat.conn /\ c.stream = chat.stream /\ c.savedId = chat.savedId /\ c.turns = chat.turns
  BY TypeFacts DEF ChatType
<1>2. QED BY <1>1 DEF TypesInv, Refers

\* Two turns are added to those there are.
LEMMA TwoMore ==
    ASSUME NEW S, NEW x \in Seq(S), NEW y \in Seq(S), Len(y) = 2
    PROVE  /\ x \o y \in Seq(S) /\ Len(x \o y) = Len(x) + 2
           /\ \A k \in DOMAIN (x \o y) : (k \in DOMAIN x /\ (x \o y)[k] = x[k]) \/ (k - Len(x) \in {1, 2} /\ (x \o y)[k] = y[k - Len(x)])
<1>1. x \o y \in Seq(S) /\ Len(x) \in Nat OBVIOUS
<1>2. Len(x \o y) = Len(x) + Len(y) BY ConcatProperties, Zenon
<1>3. Len(x \o y) = Len(x) + 2 BY <1>1, <1>2
<1>4. ASSUME NEW k \in DOMAIN (x \o y)
      PROVE  (k \in DOMAIN x /\ (x \o y)[k] = x[k]) \/ (k - Len(x) \in {1, 2} /\ (x \o y)[k] = y[k - Len(x)])
  <2>1. k \in 1..(Len(x) + 2) BY <1>1, <1>3
  <2>2. CASE k <= Len(x) BY <2>1, <2>2, <1>1
  <2>3. CASE k > Len(x)
    <3>1. (x \o y)[k] = y[k - Len(x)] BY <2>3
    <3>2. k - Len(x) \in {1, 2} BY <2>1, <2>3, <1>1
    <3>3. QED BY <3>1, <3>2
  <2>4. QED BY <2>1, <2>2, <2>3, <1>1
<1>5. QED BY <1>1, <1>3, <1>4

\* A message is sent in chat c.
LEMMA SendMessageTypes ==
    ASSUME TypesInv, NEW c \in ChatType, NEW ss \in Seq(StreamType), NEW script \in Scripts, Len(ss) = Len(streams), c.no # 0, c.conn \in Conns,
           c.savedId <= Len(convRows), \A s \in DOMAIN ss : ss[s].at <= Len(ss[s].script),
           \A k \in DOMAIN c.turns : c.turns[k].of \in DOMAIN ss,
           A!SendMessage(c, ss, script), UNCHANGED <<pick, saves, loads, convRows, late>>, chats' \in 0..MaxChats
    PROVE  TypesInv'
<1> DEFINE n == Len(ss) + 1
           out == A!Outgoing(c.turns)
           sent == {t.of : t \in {u \in A!Range(out) : u.role = "assistant"}}
           st == [chat |-> c.no, turn |-> Len(c.turns) + 2, script |-> script, at |-> 0, state |-> "open", sent |-> sent]
           two == <<A!User(n), A!Reply(n)>>
           ts == c.turns \o two
<1>1. /\ streams' = Append(ss, st) /\ decisions' = Append(decisions, 0)
      /\ chat' = [c EXCEPT !.busy = TRUE, !.stream = n, !.turns = ts] BY DEF A!SendMessage
<1>2. c.turns \in Seq(TurnType) /\ Len(c.turns) \in Nat /\ c.no \in 1..MaxChats /\ c.savedId \in Nat BY ScriptFacts DEF ChatType
<1>3. out \in Seq(TurnType) BY <1>2, OutgoingKeeps
<1>4. sent \subseteq Nat
  <2> HIDE DEF out
  <2>1. ASSUME NEW o \in sent PROVE o \in Nat
    <3>1. PICK k \in DOMAIN out : o = out[k].of BY DEF A!Range
    <3>2. out[k] \in TurnType BY <1>3
    <3>3. QED BY <3>1, <3>2 DEF TurnType
  <2>2. QED BY <2>1
<1> HIDE DEF out, sent
<1>5. n \in Nat /\ n = Len(streams) + 1 /\ Len(ss) \in Nat OBVIOUS
<1>6. st \in StreamType /\ st.at = 0 /\ st.script = script BY <1>2, <1>4 DEF StreamType
<1>7. two \in Seq(TurnType) /\ Len(two) = 2 /\ two[1].of = n /\ two[2].of = n
  <2>1. A!User(n) \in TurnType /\ A!Reply(n) \in TurnType /\ A!User(n).of = n /\ A!Reply(n).of = n BY <1>5 DEF A!User, A!Reply, TurnType
  <2> DEFINE u == A!User(n) r == A!Reply(n)
  <2>2. u \in TurnType /\ r \in TurnType /\ u.of = n /\ r.of = n BY <2>1
  <2>3. two = <<u, r>> OBVIOUS
  <2> HIDE DEF u, r, two
  <2>4. QED BY <2>2, <2>3
<1> HIDE DEF st, two
<1>8. /\ streams' \in Seq(StreamType) /\ Len(streams') = n /\ streams'[n] = st /\ DOMAIN streams' = 1..n
      /\ \A s \in DOMAIN ss : s \in DOMAIN streams' /\ streams'[s] = ss[s]
      /\ \A o \in DOMAIN streams' : o \in DOMAIN ss \/ o = n
  BY <1>1, <1>5, <1>6
<1>9. \A s \in DOMAIN streams' : streams'[s].at <= Len(streams'[s].script)
  <2>1. st.at <= Len(st.script) BY <1>6, ScriptFacts
  <2>2. QED BY <2>1, <1>8
<1>10. decisions' \in Seq(Nat) /\ Len(decisions') = n
  <2>1. decisions \in Seq(Nat) /\ Len(decisions) = Len(streams) BY TypeFacts
  <2> HIDE DEF n, ts
  <2>2. decisions' = Append(decisions, 0) BY <1>1
  <2>3. decisions' \in Seq(Nat) /\ Len(decisions') = Len(decisions) + 1 BY <2>1, <2>2
  <2>4. QED BY <2>1, <2>3, <1>5
<1>11. /\ ts \in Seq(TurnType) /\ \A k \in DOMAIN ts : \/ k \in DOMAIN c.turns /\ ts[k] = c.turns[k]
                                                       \/ k - Len(c.turns) \in {1, 2} /\ ts[k] = two[k - Len(c.turns)]
  <2>1. two \in Seq(TurnType) /\ Len(two) = 2 BY <1>7
  <2>2. QED BY <2>1, <1>2, TwoMore
<1>12. \A k \in DOMAIN ts : ts[k].of \in DOMAIN streams' BY <1>7, <1>8, <1>11
<1> HIDE DEF ts
<1>13. chat' \in ChatType /\ chat'.no = c.no /\ chat'.conn = c.conn /\ chat'.turns = ts /\ chat'.stream = n /\ chat'.savedId = c.savedId
  BY <1>1, <1>5, <1>11 DEF ChatType
<1>14. loads' \subseteq DOMAIN convRows /\ pick' \in Conns /\ late' \subseteq {"reply", "save"} BY TypeFacts DEF TypesInv
<1> HIDE DEF n
<1>15. Len(streams) <= Len(streams') BY <1>5, <1>8
<1>16. QED BY <1>8, <1>9, <1>10, <1>12, <1>13, <1>14, <1>15, TypesMoved

LEMMA SendTypes ==
    ASSUME TypesInv, NEW script \in Scripts, A!Send(script)
    PROVE  TypesInv'
<1> DEFINE c == A!EnsuredChat
           ss == A!EnsuredStreams
<1>0. /\ chats' = IF A!NeedsChat THEN chats + 1 ELSE chats
      /\ A!NeedsChat => chats < MaxChats
      /\ IF c.busy THEN UNCHANGED <<chat, streams, decisions>> ELSE A!SendMessage(c, ss, script)
      /\ UNCHANGED <<pick, saves, loads, convRows, late>>
  BY DEF A!Send
<1>1. chats' \in 0..MaxChats BY <1>0, TypeFacts, ScriptFacts
<1>2. CASE ~A!NeedsChat
  <2>1. c = chat /\ ss = streams /\ chats' = chats BY <1>0, <1>2 DEF A!EnsuredChat, A!EnsuredStreams
  <2>2. chat.no # 0 BY <1>2 DEF A!NeedsChat, A!Begun
  <2>3. CASE chat.busy
    <3>1. UNCHANGED <<chat, streams, decisions, pick, saves, loads, convRows, late, chats>> BY <2>3, <2>1, <1>0
    <3>2. QED BY <3>1 DEF TypesInv, ChatTyped, StreamsTyped, RowsTyped, Refers
  <2>4. CASE ~chat.busy
    <3>1. A!SendMessage(chat, streams, script) BY <2>1, <2>4, <1>0
    <3>2. \A k \in DOMAIN chat.turns : chat.turns[k].of \in DOMAIN streams BY DEF TypesInv, Refers
    <3>3. QED BY <3>1, <3>2, <2>2, <1>0, <1>1, TypeFacts, SendMessageTypes
  <2>5. QED BY <2>3, <2>4
<1>3. CASE A!NeedsChat
  <2>1. c = A!Empty(chats + 1, pick) /\ ss = A!Aborted(streams) BY <1>3 DEF A!EnsuredChat, A!EnsuredStreams
  <2>2. chats + 1 \in 1..MaxChats BY <1>0, <1>3, TypeFacts, ScriptFacts
  <2>3. c \in ChatType /\ c.no # 0 /\ c.conn \in Conns /\ ~c.busy /\ c.turns = <<>> /\ c.savedId = 0
    BY <2>1, <2>2, TypeFacts, ScriptFacts DEF A!Empty, ChatType
  <2>4. A!SendMessage(c, ss, script) BY <2>3, <1>0
  <2>5. ss \in Seq(StreamType) /\ Len(ss) = Len(streams) /\ \A o \in DOMAIN ss : ss[o].at <= Len(ss[o].script) BY <2>1, AbortTypes
  <2> HIDE DEF c, ss
  <2>6. c.savedId <= Len(convRows) /\ \A k \in DOMAIN c.turns : c.turns[k].of \in DOMAIN ss BY <2>3, TypeFacts
  <2>7. QED BY <2>3, <2>4, <2>5, <2>6, <1>0, <1>1, SendMessageTypes
<1>4. QED BY <1>2, <1>3

\* The reply to a message and the end of its stream change the last turn at most.
LEMMA FoldTypes ==
    ASSUME TypesInv, NEW e, NEW c, c = A!Folded(chat, e)
    PROVE  /\ c \in ChatType /\ c.no = chat.no /\ c.conn = chat.conn /\ c.stream = chat.stream /\ c.savedId = chat.savedId
           /\ c.turns \in Seq(TurnType) /\ (c.no = 0 => c.turns = <<>>) /\ \A j \in DOMAIN c.turns : c.turns[j].of \in DOMAIN streams
<1>0. chat \in ChatType /\ chat.turns \in Seq(TurnType) BY TypeFacts
<1>1. CASE chat.turns = <<>>
  <2>1. c = chat BY <1>1 DEF A!Folded
  <2>2. QED BY <2>1, TypeFacts DEF TypesInv, Refers
<1>2. CASE chat.turns # <<>>
  <2> DEFINE n == Len(chat.turns)
             t == A!TurnAfter(e, chat.turns[n])
             b == e \notin {"end", "error"}
  <2>1. n \in DOMAIN chat.turns /\ chat.turns[n] \in TurnType BY <1>0, <1>2
  <2>2. t \in TurnType /\ t.of = chat.turns[n].of
    <3>1. A!StepAfter(e, chat.turns[n].step) \in {"none", "called", "asking", "done"} BY <2>1 DEF A!StepAfter, TurnType
    <3>2. QED BY <2>1, <3>1 DEF A!TurnAfter, TurnType
  <2>3. c = TurnPut(n, t, b) BY <1>0, <1>2 DEF A!Folded, ChatType, TurnPut
  <2>4. b \in BOOLEAN OBVIOUS
  <2> HIDE DEF t, b, n
  <2>5. /\ c \in ChatType /\ c.no = chat.no /\ c.conn = chat.conn /\ c.stream = chat.stream /\ c.savedId = chat.savedId /\ c.no # 0
        /\ c.turns \in Seq(TurnType) /\ \A j \in DOMAIN c.turns : c.turns[j].of \in DOMAIN streams
    BY <2>1, <2>2, <2>3, <2>4, TurnTypes
  <2>6. QED BY <2>5
<1>3. QED BY <1>1, <1>2

\* The chat as it is once its busy is off and its last turn is in state x, or as it is.
LEMMA LastTypes ==
    ASSUME TypesInv, NEW x \in {"done", "error"},
           \/ chat' = [chat EXCEPT !.busy = FALSE]
           \/ chat.turns # <<>> /\ chat' = [chat EXCEPT !.busy = FALSE, !.turns = [chat.turns EXCEPT ![Len(chat.turns)].state = x]]
    PROVE  /\ chat' \in ChatType /\ chat'.no = chat.no /\ chat'.conn = chat.conn /\ chat'.stream = chat.stream /\ chat'.savedId = chat.savedId
           /\ (chat'.no = 0 => chat'.turns = <<>>) /\ \A j \in DOMAIN chat'.turns : chat'.turns[j].of \in DOMAIN streams
<1>0. chat \in ChatType /\ chat.turns \in Seq(TurnType) BY TypeFacts
<1>1. CASE chat' = [chat EXCEPT !.busy = FALSE]
  <2>1. FALSE \in BOOLEAN OBVIOUS
  <2>2. QED BY <2>1, <1>1, BusyTypes, TypeFacts
<1>2. CASE chat.turns # <<>> /\ chat' = [chat EXCEPT !.busy = FALSE, !.turns = [chat.turns EXCEPT ![Len(chat.turns)].state = x]]
  <2> DEFINE n == Len(chat.turns)
             t == [chat.turns[n] EXCEPT !.state = x]
  <2>1. n \in DOMAIN chat.turns /\ chat.turns[n] \in TurnType BY <1>0, <1>2
  <2>2. t \in TurnType /\ t.of = chat.turns[n].of BY <2>1 DEF TurnType
  <2> DEFINE b == FALSE
  <2>3. chat' = TurnPut(n, t, b) BY <1>0, <1>2 DEF ChatType, TurnPut
  <2>4. b \in BOOLEAN OBVIOUS
  <2> HIDE DEF t, n, b
  <2>5. /\ chat' \in ChatType /\ chat'.no = chat.no /\ chat'.conn = chat.conn /\ chat'.stream = chat.stream /\ chat'.savedId = chat.savedId /\ chat'.no # 0
        /\ \A j \in DOMAIN chat'.turns : chat'.turns[j].of \in DOMAIN streams
    BY <2>1, <2>2, <2>3, <2>4, TurnTypes
  <2>6. QED BY <2>5
<1>3. QED BY <1>1, <1>2

\* A call that saves the turns of chat c, which shows what the chat shown will.
LEMMA CallTypes ==
    ASSUME TypesInv, NEW c \in ChatType, c.no = chat.no, c.conn = chat.conn, c.savedId = chat.savedId, chat.no # 0,
           c.turns \in Seq(TurnType), \A k \in DOMAIN c.turns : c.turns[k].of \in DOMAIN streams,
           A!MaySave(c), saves' = Append(saves, A!SaveCall(c)), UNCHANGED <<convRows, loads>>,
           streams' \in Seq(StreamType), Len(streams) <= Len(streams')
    PROVE  /\ RowsTyped' /\ DOMAIN streams \subseteq DOMAIN streams'
           /\ \A id \in DOMAIN convRows' : \A k \in DOMAIN convRows'[id].messages : convRows'[id].messages[k].of \in DOMAIN streams'
           /\ \A i \in DOMAIN saves' : \A k \in DOMAIN saves'[i].messages : saves'[i].messages[k].of \in DOMAIN streams'
<1> DEFINE call == A!SaveCall(c)
           ms == A!Outgoing(c.turns)
<1>1. ms \in Seq(TurnType) /\ \A k \in DOMAIN ms : \E j \in DOMAIN c.turns : ms[k] = c.turns[j] BY OutgoingKeeps
<1>2. call = [id |-> c.savedId, chat |-> c.no, conn |-> c.conn, messages |-> ms] BY DEF A!SaveCall
<1> HIDE DEF ms
<1>3. \A k \in DOMAIN ms : ms[k].of \in DOMAIN streams BY <1>1
<1>4. call \in CallType /\ call.id = chat.savedId /\ call.messages = ms
  <2>1. chat.no \in 1..MaxChats /\ chat.conn \in Conns /\ chat.savedId \in Nat BY TypeFacts, ScriptFacts
  <2>2. QED BY <2>1, <1>1, <1>2 DEF CallType
<1>5. call.id <= Len(convRows) /\ (call.id = 0 => Len(convRows) + Len(saves) < MaxRows) BY <1>4, TypeFacts DEF A!MaySave
<1>6. saves' = Append(saves, call) OBVIOUS
<1> HIDE DEF call
<1>7. /\ saves' \in Seq(CallType) /\ Len(saves') = Len(saves) + 1 /\ saves'[Len(saves) + 1] = call
      /\ \A i \in DOMAIN saves : saves'[i] = saves[i]
      /\ \A i \in DOMAIN saves' : i \in DOMAIN saves \/ i = Len(saves) + 1
  BY <1>4, <1>6, TypeFacts
<1>8. DOMAIN streams \subseteq DOMAIN streams' BY TypeFacts
<1>9. ASSUME NEW i \in DOMAIN saves' PROVE saves'[i].id <= Len(convRows) /\ (saves'[i].id = 0 => Len(convRows) + i <= MaxRows)
                                           /\ \A k \in DOMAIN saves'[i].messages : saves'[i].messages[k].of \in DOMAIN streams
  <2>1. CASE i \in DOMAIN saves BY <2>1, <1>7 DEF TypesInv, RowsTyped, Refers
  <2>2. CASE i = Len(saves) + 1
    <3>1. Len(saves) \in Nat /\ Len(convRows) \in Nat /\ MaxRows \in Nat BY TypeFacts, ScriptFacts
    <3>2. QED BY <3>1, <2>2, <1>3, <1>4, <1>5, <1>7
  <2>3. QED BY <2>1, <2>2, <1>7
<1>10. RowsTyped' BY <1>7, <1>9 DEF TypesInv, RowsTyped
<1>11. QED BY <1>8, <1>9, <1>10 DEF TypesInv, Refers

LEMMA DeliverTypes ==
    ASSUME TypesInv, NEW s \in DOMAIN streams, A!Deliver(s)
    PROVE  TypesInv'
<1> DEFINE e == streams[s].script[streams[s].at + 1]
           c == A!Folded(chat, e)
           st == [streams[s] EXCEPT !.at = @ + 1]
           saving == e = "end" /\ autoSave /\ c.turns # <<>>
<1>0. /\ streams[s].at < Len(streams[s].script) /\ streams' = [streams EXCEPT ![s] = st] /\ chat' = c
      /\ saving => A!MaySave(c)
      /\ saves' = IF saving THEN Append(saves, A!SaveCall(c)) ELSE saves
      /\ UNCHANGED <<chats, pick, loads, convRows, decisions, late>>
  BY DEF A!Deliver
<1>1. st \in StreamType /\ st.at <= Len(st.script)
  <2>1. streams[s] \in StreamType BY TypeFacts
  <2>2. streams[s].script \in Scripts /\ streams[s].at \in Nat BY <2>1 DEF StreamType
  <2>3. Len(streams[s].script) \in Nat BY <2>2, ScriptFacts
  <2>4. st.at = streams[s].at + 1 /\ st.script = streams[s].script /\ st \in StreamType BY <2>1, <2>2 DEF StreamType
  <2>5. QED BY <2>2, <2>3, <2>4, <1>0
<1> HIDE DEF st, e
<1>2. /\ streams' \in Seq(StreamType) /\ Len(streams') = Len(streams) /\ DOMAIN streams' = DOMAIN streams
      /\ \A o \in DOMAIN streams' : streams'[o].at <= Len(streams'[o].script)
  BY <1>0, <1>1, StreamTypes
<1>3. /\ c \in ChatType /\ c.no = chat.no /\ c.conn = chat.conn /\ c.stream = chat.stream /\ c.savedId = chat.savedId
      /\ c.turns \in Seq(TurnType) /\ (c.no = 0 => c.turns = <<>>) /\ \A j \in DOMAIN c.turns : c.turns[j].of \in DOMAIN streams
  BY FoldTypes
<1> HIDE DEF c
<1>4. Len(streams) <= Len(streams') BY <1>2, TypeFacts
<1>5. /\ RowsTyped'
      /\ \A id \in DOMAIN convRows' : \A k \in DOMAIN convRows'[id].messages : convRows'[id].messages[k].of \in DOMAIN streams'
      /\ \A i \in DOMAIN saves' : \A k \in DOMAIN saves'[i].messages : saves'[i].messages[k].of \in DOMAIN streams'
  <2>1. CASE saving
    <3>1. A!MaySave(c) /\ saves' = Append(saves, A!SaveCall(c)) /\ chat.no # 0 BY <2>1, <1>0, <1>3
    <3>2. UNCHANGED <<convRows, loads>> BY <1>0
    <3>3. QED BY <3>1, <3>2, <1>2, <1>3, <1>4, CallTypes
  <2>2. CASE ~saving
    <3>1. UNCHANGED <<convRows, saves>> /\ loads' \subseteq DOMAIN convRows BY <2>2, <1>0, TypeFacts
    <3>2. QED BY <3>1, <1>2, <1>4, RowsRest
  <2>3. QED BY <2>1, <2>2
<1>6. ChatTyped' BY <1>0, <1>2, <1>3, TypeFacts DEF ChatTyped
<1>7. StreamsTyped' BY <1>0, <1>2, TypeFacts DEF StreamsTyped
<1>8. QED BY <1>0, <1>2, <1>3, <1>5, <1>6, <1>7 DEF TypesInv, Refers

LEMMA SaveTypes ==
    ASSUME TypesInv, A!SaveChat
    PROVE  TypesInv'
<1>0. /\ chat.turns # <<>> /\ A!MaySave(chat) /\ saves' = Append(saves, A!SaveCall(chat))
      /\ UNCHANGED <<chat, chats, streams, pick, loads, convRows, decisions, late>>
  BY DEF A!SaveChat, A!Toolbar
<1>1. chat.no # 0 /\ \A k \in DOMAIN chat.turns : chat.turns[k].of \in DOMAIN streams BY <1>0, TypeFacts DEF TypesInv, Refers
<1>2. /\ RowsTyped'
      /\ \A id \in DOMAIN convRows' : \A k \in DOMAIN convRows'[id].messages : convRows'[id].messages[k].of \in DOMAIN streams'
      /\ \A i \in DOMAIN saves' : \A k \in DOMAIN saves'[i].messages : saves'[i].messages[k].of \in DOMAIN streams'
  <2>1. streams' \in Seq(StreamType) /\ Len(streams) <= Len(streams') BY <1>0, TypeFacts
  <2>2. QED BY <2>1, <1>0, <1>1, TypeFacts, CallTypes
<1>3. ChatTyped' /\ StreamsTyped' BY <1>0 DEF TypesInv, ChatTyped, StreamsTyped
<1>4. QED BY <1>0, <1>1, <1>2, <1>3 DEF TypesInv, Refers

LEMMA CloseTypes ==
    ASSUME TypesInv, NEW s \in DOMAIN streams, A!CloseStream(s) \/ A!BreakStream(s)
    PROVE  TypesInv'
<1>0. /\ streams' = [streams EXCEPT ![s].state = "closed"]
      /\ \/ chat' = [chat EXCEPT !.busy = FALSE]
         \/ chat' = [chat EXCEPT !.busy = FALSE, !.turns = IF @ = <<>> THEN @ ELSE [@ EXCEPT ![Len(@)].state = "error"]]
      /\ A!Noted("reply", A!Overtaken(s)) /\ UNCHANGED <<chats, pick, saves, loads, convRows, decisions>>
  BY DEF A!CloseStream, A!BreakStream
<1>1. /\ streams' \in Seq(StreamType) /\ Len(streams') = Len(streams) /\ DOMAIN streams' = DOMAIN streams
      /\ \A o \in DOMAIN streams' : streams'[o].at <= Len(streams'[o].script)
  BY <1>0, EndedTypes
<1>2. \/ chat' = [chat EXCEPT !.busy = FALSE]
      \/ chat.turns # <<>> /\ chat' = [chat EXCEPT !.busy = FALSE, !.turns = [chat.turns EXCEPT ![Len(chat.turns)].state = "error"]]
  BY <1>0, TypeFacts DEF ChatType
<1>3. /\ chat' \in ChatType /\ chat'.no = chat.no /\ chat'.conn = chat.conn /\ chat'.stream = chat.stream /\ chat'.savedId = chat.savedId
      /\ (chat'.no = 0 => chat'.turns = <<>>) /\ \A j \in DOMAIN chat'.turns : chat'.turns[j].of \in DOMAIN streams
  BY <1>2, LastTypes
<1>4. late' \subseteq {"reply", "save"} BY <1>0 DEF A!Noted, TypesInv
<1>5. Len(streams) <= Len(streams') BY <1>1, TypeFacts
<1>6. QED BY <1>0, <1>1, <1>3, <1>4, <1>5, TypeFacts, TypesMoved

LEMMA StopTypes ==
    ASSUME TypesInv, A!StopChat
    PROVE  TypesInv'
<1>0. /\ streams' = A!Aborted(streams) /\ UNCHANGED <<chats, pick, saves, loads, convRows, decisions, late>>
      /\ chat' = [chat EXCEPT !.busy = FALSE,
                              !.turns = IF @ # <<>> /\ @[Len(@)].state = "streaming" THEN [@ EXCEPT ![Len(@)].state = "done"] ELSE @]
  BY DEF A!StopChat
<1>1. /\ streams' \in Seq(StreamType) /\ Len(streams') = Len(streams) /\ DOMAIN streams' = DOMAIN streams
      /\ \A o \in DOMAIN streams' : streams'[o].at <= Len(streams'[o].script)
  BY <1>0, AbortTypes
<1>2. \/ chat' = [chat EXCEPT !.busy = FALSE]
      \/ chat.turns # <<>> /\ chat' = [chat EXCEPT !.busy = FALSE, !.turns = [chat.turns EXCEPT ![Len(chat.turns)].state = "done"]]
  BY <1>0, TypeFacts DEF ChatType
<1>3. /\ chat' \in ChatType /\ chat'.no = chat.no /\ chat'.conn = chat.conn /\ chat'.stream = chat.stream /\ chat'.savedId = chat.savedId
      /\ (chat'.no = 0 => chat'.turns = <<>>) /\ \A j \in DOMAIN chat'.turns : chat'.turns[j].of \in DOMAIN streams
  BY <1>2, LastTypes
<1>4. Len(streams) <= Len(streams') /\ late' \subseteq {"reply", "save"} BY <1>0, <1>1, TypeFacts DEF TypesInv
<1>5. QED BY <1>0, <1>1, <1>3, <1>4, TypeFacts, TypesMoved

LEMMA ResetTypes ==
    ASSUME TypesInv, A!ResetChat
    PROVE  TypesInv'
<1>0. /\ chat.turns # <<>> /\ chats < MaxChats /\ chats' = chats + 1 /\ streams' = A!Aborted(streams)
      /\ chat' = [chat EXCEPT !.no = chats + 1, !.turns = <<>>, !.busy = FALSE, !.savedId = 0]
      /\ UNCHANGED <<pick, saves, loads, convRows, decisions, late>>
  BY DEF A!ResetChat, A!Cleared, A!Toolbar
<1>1. /\ streams' \in Seq(StreamType) /\ Len(streams') = Len(streams) /\ DOMAIN streams' = DOMAIN streams
      /\ \A o \in DOMAIN streams' : streams'[o].at <= Len(streams'[o].script)
  BY <1>0, AbortTypes
<1>2. chats + 1 \in 1..MaxChats /\ chats + 1 \in 0..MaxChats /\ chat.no # 0 BY <1>0, TypeFacts, ScriptFacts
<1>3. chat' = [no |-> chats + 1, conn |-> chat.conn, turns |-> <<>>, busy |-> FALSE, savedId |-> 0, stream |-> chat.stream]
  BY <1>0, TypeFacts DEF ChatType
<1>4. <<>> \in Seq(TurnType) OBVIOUS
<1>5. /\ chat' \in ChatType /\ chat'.no = chats + 1 /\ chat'.turns = <<>> /\ chat'.savedId = 0 /\ chat'.conn = chat.conn /\ chat'.stream = chat.stream
  BY <1>2, <1>3, <1>4, TypeFacts DEF ChatType
<1>6. Len(streams) <= Len(streams') /\ late' \subseteq {"reply", "save"} /\ \A j \in DOMAIN chat'.turns : FALSE BY <1>0, <1>1, <1>5, TypeFacts DEF TypesInv
<1>7. QED BY <1>0, <1>1, <1>2, <1>5, <1>6, TypeFacts, TypesMoved

LEMMA LoadedTypes ==
    ASSUME TypesInv, NEW id \in loads, A!Loaded(id)
    PROVE  TypesInv'
<1>0. /\ loads' = loads \ {id} /\ UNCHANGED <<chats, pick, saves, convRows, decisions, late>>
      /\ IF A!Live(id)
           THEN /\ streams' = A!Aborted(streams)
                /\ chat' = [A!Empty(convRows[id].chat, convRows[id].conn) EXCEPT !.savedId = id,
                              !.turns = [k \in DOMAIN convRows[id].messages |-> [convRows[id].messages[k] EXCEPT !.state = "done"]]]
           ELSE UNCHANGED <<streams, chat>>
  BY DEF A!Loaded
<1>1. id \in DOMAIN convRows /\ convRows \in Seq(RowType) /\ loads' \subseteq DOMAIN convRows BY <1>0, TypeFacts
<1>2. CASE ~A!Live(id)
  <2>1. UNCHANGED <<chat, chats, streams, pick, saves, convRows, decisions, late>> BY <1>0, <1>2
  <2>2. QED BY <2>1, <1>1 DEF TypesInv, ChatTyped, StreamsTyped, RowsTyped, Refers
<1>3. CASE A!Live(id)
  <2> DEFINE row == convRows[id]
             ms == row.messages
             done(k) == [ms[k] EXCEPT !.state = "done"]
             ts == [k \in DOMAIN ms |-> done(k)]
  <2>1. row \in RowType /\ row.chat # 0 BY <1>1, <1>3 DEF A!Live
  <2>2. row.chat \in 1..MaxChats /\ row.conn \in Conns /\ ms \in Seq(TurnType) BY <2>1, ScriptFacts DEF RowType
  <2>3. \A k \in DOMAIN ms : ms[k].of \in DOMAIN streams BY <1>1 DEF TypesInv, Refers
  <2>4. chat' = [A!Empty(row.chat, row.conn) EXCEPT !.savedId = id, !.turns = ts] BY <1>0, <1>3
  <2> HIDE DEF row, ms
  <2>5. ts \in Seq(TurnType) /\ DOMAIN ts = DOMAIN ms /\ \A k \in DOMAIN ms : ts[k].of = ms[k].of
    <3>1. \A k \in DOMAIN ms : ms[k] \in TurnType BY <2>2
    <3>2. \A k \in DOMAIN ms : done(k) \in TurnType /\ done(k).of = ms[k].of BY <3>1 DEF TurnType
    <3> HIDE DEF done
    <3>3. DOMAIN ms = 1..Len(ms) /\ Len(ms) \in Nat BY <2>2
    <3>4. QED BY <3>2, <3>3
  <2> HIDE DEF ts
  <2>6. id \in Nat /\ id <= Len(convRows) BY <1>1
  <2>7. chat' \in ChatType /\ chat'.no = row.chat /\ chat'.conn = row.conn /\ chat'.turns = ts /\ chat'.stream = 0 /\ chat'.savedId = id
    <3>1. chat' = [no |-> row.chat, conn |-> row.conn, turns |-> ts, busy |-> FALSE, savedId |-> id, stream |-> 0] BY <2>4 DEF A!Empty
    <3>2. row.chat \in 0..MaxChats BY <2>2, ScriptFacts
    <3>3. QED BY <3>1, <3>2, <2>2, <2>5, <2>6 DEF ChatType
  <2>8. /\ streams' \in Seq(StreamType) /\ Len(streams') = Len(streams) /\ DOMAIN streams' = DOMAIN streams
        /\ \A o \in DOMAIN streams' : streams'[o].at <= Len(streams'[o].script)
    BY <1>0, <1>3, AbortTypes
  <2>9. Len(streams) <= Len(streams') /\ 0 <= Len(streams') /\ late' \subseteq {"reply", "save"} BY <1>0, <2>8, TypeFacts DEF TypesInv
  <2>10. \A k \in DOMAIN chat'.turns : chat'.turns[k].of \in DOMAIN streams' BY <2>3, <2>5, <2>7, <2>8
  <2>11. row.chat # 0 BY <2>2
  <2>12. QED BY <1>0, <1>1, <2>2, <2>6, <2>7, <2>8, <2>9, <2>10, <2>11, TypeFacts, TypesMoved
<1>4. QED BY <1>2, <1>3

LEMMA ResumeTypes ==
    ASSUME TypesInv, NEW k \in DOMAIN chat.turns, A!ResumeToolCall(k)
    PROVE  TypesInv'
<1> DEFINE o == chat.turns[k].of
           t == A!FlagDropped(chat.turns[k])
<1>0. /\ chat' = [chat EXCEPT !.turns[k] = A!FlagDropped(@)]
      /\ decisions' = [decisions EXCEPT ![o] = @ + 1]
      /\ UNCHANGED <<chats, streams, pick, saves, loads, convRows, late>>
  BY DEF A!ResumeToolCall
<1>1. chat.turns[k] \in TurnType /\ o \in DOMAIN streams BY TypeFacts DEF TypesInv, Refers
<1>2. t \in TurnType /\ t.of = o BY <1>1 DEF A!FlagDropped, TurnType
<1>3. chat' = TurnSet(k, t) BY <1>0 DEF TurnSet
<1>4. FALSE \in BOOLEAN OBVIOUS
<1>5. decisions' \in Seq(Nat) /\ Len(decisions') = Len(decisions)
  <2>1. decisions' = [decisions EXCEPT ![o] = decisions[o] + 1] BY <1>0
  <2>2. decisions \in Seq(Nat) /\ o \in DOMAIN decisions BY <1>1, TypeFacts
  <2> HIDE DEF o
  <2>3. decisions[o] + 1 \in Nat BY <2>2
  <2>4. QED BY <2>1, <2>2, <2>3
<1> HIDE DEF t, o
<1>6. /\ chat' \in ChatType /\ chat'.no = chat.no /\ chat'.conn = chat.conn /\ chat'.stream = chat.stream /\ chat'.savedId = chat.savedId /\ chat'.no # 0
      /\ \A j \in DOMAIN chat'.turns : chat'.turns[j].of \in DOMAIN streams
  BY <1>2, <1>3, <1>4, TurnTypes DEF o
<1>7. /\ streams' = streams /\ Len(streams) <= Len(streams') /\ late' \subseteq {"reply", "save"} /\ loads' \subseteq DOMAIN convRows
      /\ UNCHANGED <<chats, pick, saves, convRows>>
  BY <1>0, TypeFacts DEF TypesInv
<1>8. QED BY <1>5, <1>6, <1>7, TypeFacts, TypesMoved

LEMMA DeleteTypes ==
    ASSUME TypesInv, NEW id \in DOMAIN convRows, A!DeleteConversation(id)
    PROVE  TypesInv'
<1>0. convRows' = [convRows EXCEPT ![id].chat = 0] /\ chat' = A!IdDropped(id) /\ UNCHANGED <<chats, streams, pick, saves, loads, decisions, late>>
  BY DEF A!DeleteConversation
<1> DEFINE row == [convRows[id] EXCEPT !.chat = 0]
<1>1. convRows[id] \in RowType BY TypeFacts
<1>2. row \in RowType /\ row.messages = convRows[id].messages BY <1>1, ScriptFacts DEF RowType
<1>3. convRows' = [convRows EXCEPT ![id] = row] BY <1>0
<1> HIDE DEF row
<1>4. /\ convRows' \in Seq(RowType) /\ Len(convRows') = Len(convRows) /\ DOMAIN convRows' = DOMAIN convRows
      /\ \A j \in DOMAIN convRows : convRows'[j].messages = convRows[j].messages
  <2>1. convRows' \in Seq(RowType) /\ Len(convRows') = Len(convRows) /\ DOMAIN convRows' = DOMAIN convRows
        /\ convRows'[id] = row /\ \A j \in DOMAIN convRows : j # id => convRows'[j] = convRows[j]
    BY <1>2, <1>3, TypeFacts
  <2>2. QED BY <2>1, <1>2
<1>5. /\ chat' \in ChatType /\ chat'.turns = chat.turns /\ chat'.no = chat.no /\ chat'.stream = chat.stream /\ chat'.conn = chat.conn
      /\ (chat'.savedId = chat.savedId \/ chat'.savedId = 0)
  BY <1>0, TypeFacts DEF A!IdDropped, ChatType
<1>6. ChatTyped' /\ StreamsTyped' BY <1>0, <1>4, <1>5, TypeFacts DEF TypesInv, ChatTyped, StreamsTyped
<1>7. RowsTyped' BY <1>0, <1>4 DEF TypesInv, RowsTyped
<1>8. QED BY <1>0, <1>4, <1>5, <1>6, <1>7 DEF TypesInv, Refers

LEMMA SavedTypes ==
    ASSUME TypesInv, NEW k \in DOMAIN saves, A!Saved(k)
    PROVE  TypesInv'
<1> DEFINE call == saves[k]
           row == [chat |-> call.chat, conn |-> call.conn, messages |-> call.messages]
<1>0. /\ saves' = A!RemoveAt(saves, k) /\ UNCHANGED <<chats, streams, pick, loads, decisions>>
      /\ IF call.id = 0 THEN convRows' = Append(convRows, row) /\ chat' = [chat EXCEPT !.savedId = Len(convRows) + 1]
         ELSE IF A!Live(call.id) THEN convRows' = [convRows EXCEPT ![call.id] = row] /\ chat' = [chat EXCEPT !.savedId = call.id]
         ELSE UNCHANGED <<convRows, chat>>
      /\ A!Noted("save", call.chat # chat.no)
  BY DEF A!Saved
<1>1. /\ call \in CallType /\ call.id <= Len(convRows) /\ (call.id = 0 => Len(convRows) + k <= MaxRows)
      /\ \A i \in DOMAIN call.messages : call.messages[i].of \in DOMAIN streams
  BY TypeFacts DEF TypesInv, RowsTyped, Refers
<1>2. row \in RowType /\ row.messages = call.messages /\ call.id \in Nat BY <1>1, ScriptFacts DEF CallType, RowType
<1>3. /\ saves' \in Seq(CallType) /\ Len(saves') = Len(saves) - 1
      /\ \A j \in DOMAIN saves' : IF j < k THEN j \in DOMAIN saves /\ saves'[j] = saves[j] ELSE j + 1 \in DOMAIN saves /\ saves'[j] = saves[j + 1]
  BY <1>0, TypeFacts, Removed
<1> HIDE DEF row, call
<1>4. /\ convRows' \in Seq(RowType) /\ Len(convRows') \in Nat /\ Len(convRows') <= MaxRows /\ DOMAIN convRows \subseteq DOMAIN convRows'
      /\ Len(convRows) <= Len(convRows') /\ (call.id = 0 => Len(convRows') = Len(convRows) + 1) /\ (call.id # 0 => Len(convRows') = Len(convRows))
      /\ \A j \in DOMAIN convRows' : \/ j \in DOMAIN convRows /\ convRows'[j] = convRows[j]
                                     \/ convRows'[j] = row
  <2>0. convRows \in Seq(RowType) /\ Len(convRows) <= MaxRows /\ MaxRows \in Nat /\ k \in Nat /\ k > 0 BY TypeFacts, ScriptFacts DEF TypesInv, RowsTyped
  <2>1. CASE call.id = 0
    <3>1. convRows' = Append(convRows, row) BY <2>1, <1>0
    <3>2. QED BY <3>1, <2>0, <2>1, <1>1, <1>2
  <2>2. CASE call.id # 0 /\ A!Live(call.id)
    <3>1. convRows' = [convRows EXCEPT ![call.id] = row] /\ call.id \in DOMAIN convRows BY <2>2, <1>0, <1>1, <1>2, <2>0
    <3>2. QED BY <3>1, <2>0, <2>2, <1>2
  <2>3. CASE call.id # 0 /\ ~A!Live(call.id)
    <3>1. convRows' = convRows BY <2>3, <1>0
    <3>2. QED BY <3>1, <2>0, <2>3
  <2>4. QED BY <2>1, <2>2, <2>3
<1>5. /\ chat' \in ChatType /\ chat'.turns = chat.turns /\ chat'.no = chat.no /\ chat'.stream = chat.stream /\ chat'.conn = chat.conn
      /\ chat'.savedId <= Len(convRows')
  <2>1. chat' = chat \/ (chat' = [chat EXCEPT !.savedId = Len(convRows) + 1] /\ call.id = 0) \/ chat' = [chat EXCEPT !.savedId = call.id] BY <1>0
  <2>2. Len(convRows) + 1 \in Nat BY TypeFacts
  <2>3. CASE chat' = chat BY <2>3, <1>4, TypeFacts
  <2>4. CASE chat' = [chat EXCEPT !.savedId = Len(convRows) + 1] /\ call.id = 0
    <3>1. chat' \in ChatType /\ chat'.turns = chat.turns /\ chat'.no = chat.no /\ chat'.stream = chat.stream /\ chat'.conn = chat.conn
          /\ chat'.savedId = Len(convRows) + 1
      BY <2>2, <2>4, TypeFacts DEF ChatType
    <3>2. QED BY <3>1, <2>4, <1>4
  <2>5. CASE chat' = [chat EXCEPT !.savedId = call.id]
    <3>1. chat' \in ChatType /\ chat'.turns = chat.turns /\ chat'.no = chat.no /\ chat'.stream = chat.stream /\ chat'.conn = chat.conn
          /\ chat'.savedId = call.id
      BY <2>5, <1>2, TypeFacts DEF ChatType
    <3>2. QED BY <3>1, <1>1, <1>2, <1>4, TypeFacts
  <2>6. QED BY <2>1, <2>3, <2>4, <2>5
<1>6. ChatTyped' /\ StreamsTyped' BY <1>0, <1>5, TypeFacts DEF TypesInv, ChatTyped, StreamsTyped
<1>7. ASSUME NEW j \in DOMAIN saves'
      PROVE  /\ saves'[j].id <= Len(convRows') /\ (saves'[j].id = 0 => Len(convRows') + j <= MaxRows)
             /\ \A i \in DOMAIN saves'[j].messages : saves'[j].messages[i].of \in DOMAIN streams
  <2>0. Len(convRows) \in Nat /\ MaxRows \in Nat /\ j \in Nat /\ j > 0 BY <1>3, TypeFacts, ScriptFacts
  <2>1. PICK i \in DOMAIN saves : saves'[j] = saves[i] /\ (i = j \/ i = j + 1) /\ (i = j => j < k) BY <1>3
  <2>2. /\ saves[i] \in CallType /\ saves[i].id <= Len(convRows) /\ (saves[i].id = 0 => Len(convRows) + i <= MaxRows)
        /\ \A n \in DOMAIN saves[i].messages : saves[i].messages[n].of \in DOMAIN streams
    BY TypeFacts DEF TypesInv, RowsTyped, Refers
  <2>3. saves[i].id \in Nat BY <2>2 DEF CallType
  <2>4. saves[i].id = 0 => Len(convRows') + j <= MaxRows
    <3>1. CASE call.id # 0 BY <3>1, <2>0, <2>1, <2>2, <1>4
    <3>2. CASE call.id = 0
      <4>1. CASE i = j + 1 BY <4>1, <3>2, <2>0, <2>2, <1>4
      <4>2. CASE i = j
        <5>1. k \in Nat /\ j + 1 <= k BY <4>2, <2>0, <2>1, TypeFacts
        <5>2. QED BY <5>1, <3>2, <2>0, <1>1, <1>4
      <4>3. QED BY <4>1, <4>2, <2>1
    <3>3. QED BY <3>1, <3>2
  <2>5. QED BY <2>0, <2>1, <2>2, <2>3, <2>4, <1>4
<1>8. RowsTyped' BY <1>0, <1>3, <1>4, <1>7 DEF TypesInv, RowsTyped
<1>9. \A id \in DOMAIN convRows' : \A i \in DOMAIN convRows'[id].messages : convRows'[id].messages[i].of \in DOMAIN streams
  BY <1>1, <1>2, <1>4 DEF TypesInv, Refers
<1>10. late' \subseteq {"reply", "save"} BY <1>0 DEF TypesInv, A!Noted
<1>11. QED BY <1>0, <1>5, <1>6, <1>7, <1>8, <1>9, <1>10 DEF TypesInv, Refers

\* Every step keeps the types.
LEMMA TypesGoOn ==
    ASSUME TypesInv, A!Next
    PROVE  TypesInv'
<1>1. ASSUME NEW c \in Conns, A!PickConnection(c) PROVE TypesInv'
  <2>1. pick' = c /\ UNCHANGED <<chat, chats, streams, saves, loads, convRows, decisions, late>> BY <1>1 DEF A!PickConnection
  <2>2. QED BY <2>1 DEF TypesInv, ChatTyped, StreamsTyped, RowsTyped, Refers
<1>2. ASSUME A!SetAutoSave PROVE TypesInv'
  <2>1. UNCHANGED <<chat, chats, streams, pick, saves, loads, convRows, decisions, late>> BY <1>2 DEF A!SetAutoSave
  <2>2. QED BY <2>1 DEF TypesInv, ChatTyped, StreamsTyped, RowsTyped, Refers
<1>3. ASSUME NEW id \in DOMAIN convRows, A!LoadConversation(id) PROVE TypesInv'
  <2>1. loads' = loads \cup {id} /\ UNCHANGED <<chat, chats, streams, pick, saves, convRows, decisions, late>> BY <1>3 DEF A!LoadConversation
  <2>2. QED BY <2>1 DEF TypesInv, ChatTyped, StreamsTyped, RowsTyped, Refers
<1>4. QED
  BY <1>1, <1>2, <1>3, SendTypes, ResumeTypes, StopTypes, ResetTypes, SaveTypes, DeleteTypes, DeliverTypes, CloseTypes, SavedTypes, LoadedTypes
     DEF A!Next, A!UserStep, A!Backend

-----------------------------------------------------------------------------
(* A chat is saved to a row of its own.                                    *)

\* Neither what the chat is saved as nor the rows change.
LEMMA ApartStays ==
    ASSUME A!SavedApart, UNCHANGED <<saves, convRows>>, late \subseteq late',
           chat'.savedId = 0 \/ (chat'.savedId = chat.savedId /\ chat'.no = chat.no)
    PROVE  A!SavedApart'
BY DEF A!SavedApart

\* The chat, or what it will be after this step, is saved.
LEMMA ApartCall ==
    ASSUME TypesInv, A!SavedApart, NEW c, c.savedId = chat.savedId, c.no = chat.no, saves' = Append(saves, A!SaveCall(c)),
           UNCHANGED <<convRows, late>>, chat'.savedId = chat.savedId, chat'.no = chat.no
    PROVE  A!SavedApart'
<1> DEFINE call == A!SaveCall(c)
<1>1. call.id = chat.savedId /\ call.chat = chat.no BY DEF A!SaveCall
<1> HIDE DEF call
<1>2. saves' = Append(saves, call) BY DEF call
<1>3. \A k \in DOMAIN saves' : (k \in DOMAIN saves /\ saves'[k] = saves[k]) \/ saves'[k] = call BY <1>2, TypeFacts
<1>4. QED BY <1>1, <1>3 DEF A!SavedApart

LEMMA ApartSaved ==
    ASSUME TypesInv, A!SavedApart, NEW k \in DOMAIN saves, A!Saved(k)
    PROVE  A!SavedApart'
<1> DEFINE call == saves[k]
           row == [chat |-> call.chat, conn |-> call.conn, messages |-> call.messages]
           n == Len(convRows) + 1
<1>0. /\ saves' = A!RemoveAt(saves, k)
      /\ IF call.id = 0 THEN convRows' = Append(convRows, row) /\ chat' = [chat EXCEPT !.savedId = n]
         ELSE IF A!Live(call.id) THEN convRows' = [convRows EXCEPT ![call.id] = row] /\ chat' = [chat EXCEPT !.savedId = call.id]
         ELSE UNCHANGED <<convRows, chat>>
      /\ A!Noted("save", call.chat # chat.no)
  BY DEF A!Saved
<1>1. SUFFICES ASSUME "save" \notin late'
               PROVE  /\ chat'.savedId # 0 => convRows'[chat'.savedId].chat = chat'.no
                      /\ \A j \in DOMAIN saves' : saves'[j].id # 0 => convRows'[saves'[j].id].chat \in {saves'[j].chat, 0}
  BY DEF A!SavedApart
<1>2. call.chat = chat.no /\ "save" \notin late BY <1>0, <1>1 DEF A!Noted
<1>3. /\ chat.savedId # 0 => convRows[chat.savedId].chat = chat.no
      /\ \A j \in DOMAIN saves : saves[j].id # 0 => convRows[saves[j].id].chat \in {saves[j].chat, 0}
  BY <1>2 DEF A!SavedApart
<1>4. \A j \in DOMAIN saves' : \E i \in DOMAIN saves : saves'[j] = saves[i] BY <1>0, TypeFacts, Removed
<1>5. /\ convRows \in Seq(RowType) /\ call \in CallType /\ call.id <= Len(convRows) /\ chat \in ChatType /\ chat.savedId <= Len(convRows) /\ chat.savedId \in Nat
      /\ \A i \in DOMAIN saves : saves[i].id \in Nat /\ saves[i].id <= Len(convRows)
  <2>1. \A i \in DOMAIN saves : saves[i] \in CallType /\ saves[i].id <= Len(convRows) BY TypeFacts DEF TypesInv, RowsTyped
  <2>2. QED BY <2>1, TypeFacts DEF CallType
<1>6. row.chat = call.chat OBVIOUS
<1> HIDE DEF call, row
<1>7. CASE call.id = 0
  <2>1. convRows' = Append(convRows, row) /\ chat' = [chat EXCEPT !.savedId = n] BY <1>0, <1>7
  <2>2. convRows'[n] = row /\ \A j \in 1..Len(convRows) : convRows'[j] = convRows[j] BY <2>1, <1>5
  <2>3. n \in Nat /\ n # 0 BY <1>5
  <2> HIDE DEF n
  <2>4. chat'.savedId = n /\ chat'.no = chat.no BY <2>1, <1>5 DEF ChatType
  <2>5. ASSUME NEW j \in DOMAIN saves', saves'[j].id # 0 PROVE convRows'[saves'[j].id].chat \in {saves'[j].chat, 0}
    <3>1. PICK i \in DOMAIN saves : saves'[j] = saves[i] BY <1>4
    <3>2. saves[i].id \in 1..Len(convRows) BY <2>5, <3>1, <1>5
    <3>3. QED BY <2>5, <3>1, <3>2, <2>2, <1>3
  <2>6. QED BY <2>2, <2>4, <2>5, <1>2, <1>6
<1>8. CASE call.id # 0 /\ A!Live(call.id)
  <2>1. convRows' = [convRows EXCEPT ![call.id] = row] /\ chat' = [chat EXCEPT !.savedId = call.id] BY <1>0, <1>8
  <2>2. call.id \in DOMAIN convRows /\ call.id \in Nat BY <1>5, <1>8 DEF CallType
  <2>3. \A j \in DOMAIN convRows : convRows'[j].chat = convRows[j].chat
    <3>1. convRows[call.id].chat = call.chat BY <1>3, <1>8 DEF A!Live, call
    <3>2. convRows'[call.id] = row /\ \A j \in DOMAIN convRows : j # call.id => convRows'[j] = convRows[j] BY <2>1, <2>2, <1>5
    <3>3. QED BY <3>1, <3>2, <1>6
  <2>4. chat'.savedId = call.id /\ chat'.no = chat.no BY <2>1, <2>2, <1>5 DEF ChatType
  <2>5. convRows'[call.id].chat = chat.no BY <2>1, <2>2, <1>2, <1>5, <1>6
  <2>6. ASSUME NEW j \in DOMAIN saves', saves'[j].id # 0 PROVE convRows'[saves'[j].id].chat \in {saves'[j].chat, 0}
    <3>1. PICK i \in DOMAIN saves : saves'[j] = saves[i] BY <1>4
    <3>2. saves[i].id \in DOMAIN convRows BY <2>6, <3>1, <1>5
    <3>3. QED BY <2>6, <3>1, <3>2, <2>3, <1>3
  <2>7. QED BY <2>4, <2>5, <2>6
<1>9. CASE call.id # 0 /\ ~A!Live(call.id)
  <2>1. UNCHANGED <<convRows, chat>> BY <1>0, <1>9
  <2>2. QED BY <2>1, <1>3, <1>4
<1>10. QED BY <1>7, <1>8, <1>9

\* Every step keeps the chats apart, until the answer to a save finds another chat shown.
LEMMA ApartGoesOn ==
    ASSUME TypesInv, A!SavedApart, A!Next
    PROVE  A!SavedApart'
<1>0. chat \in ChatType BY TypeFacts
<1>1. ASSUME NEW c \in Conns, A!PickConnection(c) PROVE A!SavedApart' BY <1>1, ApartStays DEF A!PickConnection
<1>2. ASSUME NEW script \in Scripts, A!Send(script) PROVE A!SavedApart'
  <2>1. /\ UNCHANGED <<saves, convRows, late>>
        /\ chat' = chat \/ \E n, x : chat' = [A!EnsuredChat EXCEPT !.busy = TRUE, !.stream = n, !.turns = x]
    BY <1>2 DEF A!Send, A!SendMessage
  <2>2. A!EnsuredChat.savedId = 0 \/ A!EnsuredChat = chat BY DEF A!EnsuredChat, A!Empty
  <2> DEFINE d == A!EnsuredChat
  <2>3. d \in [no : {d.no}, conn : {d.conn}, turns : {d.turns}, busy : {d.busy}, savedId : {d.savedId}, stream : {d.stream}]
    <3>1. CASE A!NeedsChat BY <3>1 DEF A!EnsuredChat, A!Empty
    <3>2. CASE ~A!NeedsChat
      <4>1. d = chat BY <3>2 DEF A!EnsuredChat
      <4>2. QED BY <4>1, <1>0 DEF ChatType
    <3>3. QED BY <3>1, <3>2
  <2>4. d.savedId = 0 \/ d = chat BY <2>2
  <2> HIDE DEF d
  <2>5. chat' = chat \/ \E n, x : chat' = [d EXCEPT !.busy = TRUE, !.stream = n, !.turns = x] BY <2>1 DEF d
  <2>6. chat' = chat \/ (chat'.savedId = d.savedId /\ chat'.no = d.no) BY <2>3, <2>5
  <2>7. QED BY <2>1, <2>4, <2>6, ApartStays
<1>3. ASSUME NEW k \in DOMAIN chat.turns, A!ResumeToolCall(k) PROVE A!SavedApart' BY <1>0, <1>3, ApartStays DEF A!ResumeToolCall, ChatType
<1>4. ASSUME A!StopChat PROVE A!SavedApart' BY <1>0, <1>4, ApartStays DEF A!StopChat, ChatType
<1>5. ASSUME A!ResetChat PROVE A!SavedApart' BY <1>0, <1>5, ApartStays DEF A!ResetChat, A!Cleared, ChatType
<1>6. ASSUME A!SetAutoSave PROVE A!SavedApart' BY <1>6, ApartStays DEF A!SetAutoSave
<1>7. ASSUME A!SaveChat PROVE A!SavedApart' BY <1>7, ApartCall DEF A!SaveChat
<1>8. ASSUME NEW id \in DOMAIN convRows, A!LoadConversation(id) PROVE A!SavedApart' BY <1>8, ApartStays DEF A!LoadConversation
<1>9. ASSUME NEW id \in DOMAIN convRows, A!DeleteConversation(id) PROVE A!SavedApart'
  <2>1. convRows' = [convRows EXCEPT ![id].chat = 0] /\ chat' = A!IdDropped(id) /\ UNCHANGED <<saves, late>> BY <1>9 DEF A!DeleteConversation
  <2>2. chat'.no = chat.no /\ (IF chat.savedId = id THEN chat'.savedId = 0 ELSE chat'.savedId = chat.savedId) BY <1>0, <2>1 DEF A!IdDropped, ChatType
  <2> DEFINE row == [convRows[id] EXCEPT !.chat = 0]
  <2>3. convRows[id] \in RowType BY TypeFacts
  <2>4. row.chat = 0 BY <2>3 DEF RowType
  <2>5. convRows' = [convRows EXCEPT ![id] = row] BY <2>1
  <2> HIDE DEF row
  <2>6. convRows'[id].chat = 0 /\ \A j \in DOMAIN convRows : j # id => convRows'[j] = convRows[j] BY <2>4, <2>5, TypeFacts
  <2>7. chat.savedId # 0 => chat.savedId \in DOMAIN convRows BY TypeFacts
  <2>8. \A k \in DOMAIN saves : saves[k].id # 0 => saves[k].id \in DOMAIN convRows
    <3>1. TAKE k \in DOMAIN saves
    <3>2. saves[k] \in CallType /\ saves[k].id <= Len(convRows) BY TypeFacts DEF TypesInv, RowsTyped
    <3>3. QED BY <3>2, TypeFacts DEF CallType
  <2>9. QED BY <2>1, <2>2, <2>6, <2>7, <2>8 DEF A!SavedApart
<1>10. ASSUME NEW s \in DOMAIN streams, A!Deliver(s) PROVE A!SavedApart'
  <2> DEFINE e == streams[s].script[streams[s].at + 1]
             c == A!Folded(chat, e)
  <2>1. /\ chat' = c /\ UNCHANGED <<convRows, late>>
        /\ saves' = Append(saves, A!SaveCall(c)) \/ saves' = saves
    BY <1>10 DEF A!Deliver
  <2> HIDE DEF e
  <2>2. c.savedId = chat.savedId /\ c.no = chat.no BY FoldTypes
  <2> HIDE DEF c
  <2>3. QED BY <2>1, <2>2, ApartCall, ApartStays
<1>11. ASSUME NEW s \in DOMAIN streams, A!CloseStream(s) \/ A!BreakStream(s) PROVE A!SavedApart'
  <2>1. UNCHANGED <<saves, convRows>> /\ late \subseteq late' BY <1>11 DEF A!CloseStream, A!BreakStream, A!Noted
  <2>2. chat'.savedId = chat.savedId /\ chat'.no = chat.no BY <1>0, <1>11 DEF A!CloseStream, A!BreakStream, ChatType
  <2>3. QED BY <2>1, <2>2, ApartStays
<1>12. ASSUME NEW k \in DOMAIN saves, A!Saved(k) PROVE A!SavedApart' BY <1>12, ApartSaved
<1>13. ASSUME NEW id \in loads, A!Loaded(id) PROVE A!SavedApart'
  <2>1. UNCHANGED <<saves, convRows, late>> BY <1>13 DEF A!Loaded
  <2>2. CASE A!Live(id)
    <3>1. chat'.savedId = id /\ chat'.no = convRows[id].chat BY <1>13, <2>2 DEF A!Loaded, A!Empty
    <3>2. QED BY <3>1, <2>1 DEF A!SavedApart
  <2>3. CASE ~A!Live(id)
    <3>1. chat' = chat BY <1>13, <2>3 DEF A!Loaded
    <3>2. QED BY <3>1, <2>1, ApartStays
  <2>4. QED BY <2>2, <2>3
<1>14. QED
  BY <1>1, <1>2, <1>3, <1>4, <1>5, <1>6, <1>7, <1>8, <1>9, <1>10, <1>11, <1>12, <1>13 DEF A!Next, A!UserStep, A!Backend

\* The chat begins as nothing, with no row.
LEMMA TypesBegin ==
    ASSUME A!Init, pick \in Conns
    PROVE  TypesInv /\ A!SavedApart
<1>1. ChatTyped /\ StreamsTyped /\ RowsTyped BY ChatBegins DEF ChatInv
<1>2. late = {} /\ saves = <<>> /\ convRows = <<>> /\ chat = A!Empty(0, 0) BY DEF A!Init, A!NoChat
<1>3. chat.turns = <<>> /\ chat.savedId = 0 BY <1>2 DEF A!Empty
<1>4. QED BY <1>1, <1>2, <1>3 DEF TypesInv, Refers, A!SavedApart

\* What came late stays noted.
LEMMA LateGrows ==
    ASSUME A!Next
    PROVE  late \subseteq late'
BY DEF A!Next, A!UserStep, A!Backend, A!PickConnection, A!Send, A!ResumeToolCall, A!StopChat, A!ResetChat, A!SetAutoSave, A!SaveChat,
       A!LoadConversation, A!DeleteConversation, A!Deliver, A!CloseStream, A!BreakStream, A!Saved, A!Loaded, A!Noted

\* A step of another part of the console changes nothing here.
LEMMA TypesRest ==
    ASSUME TypesInv, A!SavedApart, UNCHANGED chatVars
    PROVE  TypesInv' /\ A!SavedApart'
<1>0. UNCHANGED <<chat, chats, streams, pick, saves, loads, convRows, decisions, late>> BY DEF chatVars
<1>1. TypesInv' BY <1>0 DEF TypesInv, ChatTyped, StreamsTyped, RowsTyped, Refers
<1>2. QED BY <1>0, <1>1, ApartStays

\* What the invariants say is what the run checks of the chat.
LEMMA ChatIsSound ==
    ASSUME TypesInv, "reply" \notin late => ChatInv
    PROVE  A!TypeOK /\ A!RepliesInPlace /\ A!FailedNotResent /\ A!DecidedOnce
<1>1. Len(convRows) <= MaxRows /\ MaxRows \in Nat /\ MaxChats \in Nat BY ScriptFacts DEF TypesInv, RowsTyped
<1>2. A!TypeOK
  <2>1. A!Begun => chat.no \in 1..MaxChats /\ chat.conn \in Conns /\ chat.stream \in 0..Len(streams) /\ chat.savedId \in DOMAIN convRows \cup {0}
    BY <1>1, TypeFacts DEF A!Begun
  <2>2. DOMAIN decisions = DOMAIN streams BY TypeFacts
  <2>3. ASSUME NEW s \in DOMAIN streams PROVE streams[s].state \in {"open", "closed", "aborted"} /\ streams[s].at \in 0..Len(streams[s].script)
    <3>1. streams[s] \in StreamType BY TypeFacts
    <3>2. streams[s].at <= Len(streams[s].script) BY TypeFacts
    <3>3. streams[s].script \in Scripts /\ streams[s].at \in Nat /\ streams[s].state \in {"open", "closed", "aborted"} BY <3>1 DEF StreamType
    <3>4. QED BY <3>2, <3>3, ScriptFacts
  <2>4. \A k \in DOMAIN chat.turns : chat.turns[k].of \in DOMAIN streams BY DEF TypesInv, Refers
  <2>5. DOMAIN convRows \subseteq 1..MaxRows BY <1>1, TypeFacts
  <2>6. chats \in 0..MaxChats /\ late \subseteq {"reply", "save"} BY TypeFacts DEF TypesInv
  <2>7. QED BY <2>1, <2>2, <2>3, <2>4, <2>5, <2>6 DEF A!TypeOK
<1>3. A!RepliesInPlace BY DEF A!RepliesInPlace, ChatInv, RunsLast, Running
<1>4. A!FailedNotResent
  <2>1. SUFFICES ASSUME ChatInv, NEW s \in DOMAIN streams, Failed(streams[s])
                 PROVE  /\ \A later \in DOMAIN streams : s \notin streams[later].sent
                        /\ \A id \in DOMAIN convRows : \A k \in DOMAIN convRows[id].messages :
                              convRows[id].messages[k].role = "assistant" => convRows[id].messages[k].of # s
    BY DEF A!FailedNotResent, Failed
  <2>2. ~Settled(streams, s) BY <2>1 DEF Settled
  <2>3. QED BY <2>1, <2>2 DEF ChatInv, SentSettled, KeptSettled, AllSettled
<1>5. A!DecidedOnce BY DEF A!DecidedOnce, ChatInv, OnceAsked, Running
<1>6. QED BY <1>2, <1>3, <1>4, <1>5

-----------------------------------------------------------------------------
(***************************************************************************)
(* The panel.                                                              *)
(***************************************************************************)

RunType == [running : BOOLEAN, of : Nat, text : Nat, parsed : BOOLEAN, step : {"none", "called", "asking", "done"}, error : BOOLEAN]
FeedType == [script : PanelScripts, at : Nat, state : {"open", "closed", "aborted"}]
Sent(st, e) == \E i \in 1..st.at : st.script[i] = e

PanelTyped ==
    /\ mode \in {"oneshot", "chat"} /\ pending \in BOOLEAN /\ run \in RunType
    /\ runs \in Seq(FeedType) /\ \A s \in DOMAIN runs : runs[s].at <= Len(runs[s].script)
    /\ turns \in Seq({"user", "assistant"} \X Nat)
\* What is shown is of the latest run, the only one that may still send.
LatestShown ==
    /\ run.of = 0 => run = A!NoRun
    /\ run.of # 0 => run.of = Len(runs) /\ run.text <= runs[run.of].at /\ (run.parsed => Sent(runs[run.of], "parsed"))
    /\ \A s \in DOMAIN runs : runs[s].state = "open" => s = run.of
\* A reply that is still to be committed belongs to the last message.
ReplyAwaited == pending => mode = "chat" /\ run.running /\ run.of # 0 /\ turns # <<>> /\ turns[Len(turns)] = <<"user", run.of>>
AcceptedKnown == \A a \in accepted : a.run \in DOMAIN runs /\ (a.json => Sent(runs[a.run], "parsed"))

PanelInv == PanelTyped /\ LatestShown /\ ReplyAwaited /\ A!RepliesInOrder /\ AcceptedKnown

\* A stream that goes on has still sent what it sent.
LEMMA StaysSent ==
    ASSUME NEW st, NEW st2, NEW e, st.at \in Nat, st2.at \in Nat, st.at <= st2.at, st2.script = st.script, Sent(st, e)
    PROVE  Sent(st2, e)
<1>1. PICK i \in 1..st.at : st.script[i] = e BY DEF Sent
<1>2. i \in 1..st2.at BY <1>1
<1>3. QED BY <1>1, <1>2 DEF Sent

\* Stopping the latest stream leaves none open, and changes nothing else about any stream.
LEMMA StoppedOver ==
    ASSUME PanelInv, NEW ss \in Seq(FeedType), Len(ss) = Len(runs), \A s \in DOMAIN ss : ss[s].state = "open" => runs[s].state = "open"
    PROVE  LET tt == IF ss # <<>> /\ A!Last(ss).state = "open" THEN [ss EXCEPT ![Len(ss)].state = "aborted"] ELSE ss IN
           /\ tt \in Seq(FeedType) /\ Len(tt) = Len(ss)
           /\ \A s \in DOMAIN ss : tt[s].state # "open" /\ tt[s].at = ss[s].at /\ tt[s].script = ss[s].script
<1> DEFINE n == Len(ss)
           st == [ss[n] EXCEPT !.state = "aborted"]
           tt == IF ss # <<>> /\ A!Last(ss).state = "open" THEN [ss EXCEPT ![n].state = "aborted"] ELSE ss
<1>1. DOMAIN ss = DOMAIN runs BY DEF PanelInv, PanelTyped
<1>2. \A s \in DOMAIN ss : ss[s].state = "open" => s = n
  <2>1. \A s \in DOMAIN runs : s # 0 BY DEF PanelInv, PanelTyped
  <2>2. QED BY <2>1, <1>1 DEF PanelInv, LatestShown
<1>3. CASE ~(ss # <<>> /\ ss[n].state = "open")
  <2>1. tt = ss BY <1>3 DEF A!Last
  <2>2. \A s \in DOMAIN ss : ss[s].state # "open" BY <1>2, <1>3
  <2>3. QED BY <2>1, <2>2
<1>4. CASE ss # <<>> /\ ss[n].state = "open"
  <2>1. n \in DOMAIN ss /\ ss[n] \in FeedType BY <1>4
  <2>2. st \in FeedType /\ st.state = "aborted" /\ st.at = ss[n].at /\ st.script = ss[n].script BY <2>1 DEF FeedType
  <2>3. tt = [ss EXCEPT ![n] = st] BY <1>4 DEF A!Last
  <2> HIDE DEF st, tt
  <2>4. tt \in Seq(FeedType) /\ Len(tt) = n /\ tt[n] = st /\ \A s \in DOMAIN ss : s # n => tt[s] = ss[s] BY <2>1, <2>2, <2>3
  <2>5. ASSUME NEW s \in DOMAIN ss PROVE tt[s].state # "open" /\ tt[s].at = ss[s].at /\ tt[s].script = ss[s].script
    <3>1. CASE s = n BY <3>1, <2>2, <2>4
    <3>2. CASE s # n BY <3>2, <2>4, <1>2
    <3>3. QED BY <3>1, <3>2
  <2>6. QED BY <2>4, <2>5 DEF tt
<1>5. QED BY <1>3, <1>4

\* The streams after one of them was stopped.
LEMMA StoppedRuns ==
    ASSUME PanelInv
    PROVE  /\ A!Stopped \in Seq(FeedType) /\ Len(A!Stopped) = Len(runs) /\ DOMAIN A!Stopped = DOMAIN runs
           /\ \A s \in DOMAIN runs : A!Stopped[s].state # "open" /\ A!Stopped[s].at = runs[s].at /\ A!Stopped[s].script = runs[s].script
<1>1. runs \in Seq(FeedType) BY DEF PanelInv, PanelTyped
<1>2. A!Stopped = IF runs # <<>> /\ A!Last(runs).state = "open" THEN [runs EXCEPT ![Len(runs)].state = "aborted"] ELSE runs BY DEF A!Stopped
<1>3. /\ A!Stopped \in Seq(FeedType) /\ Len(A!Stopped) = Len(runs)
      /\ \A s \in DOMAIN runs : A!Stopped[s].state # "open" /\ A!Stopped[s].at = runs[s].at /\ A!Stopped[s].script = runs[s].script
  BY <1>1, <1>2, StoppedOver
<1>4. QED BY <1>1, <1>3

\* What was accepted stays so when the streams go on as streams do.
LEMMA AcceptedStays ==
    ASSUME PanelInv, NEW ss, ss \in Seq(FeedType), Len(ss) >= Len(runs),
           \A s \in DOMAIN runs : runs[s].at <= ss[s].at /\ ss[s].script = runs[s].script
    PROVE  /\ \A a \in accepted : a.run \in DOMAIN ss /\ (a.json => Sent(ss[a.run], "parsed"))
           /\ \A s \in DOMAIN runs : Sent(runs[s], "parsed") => Sent(ss[s], "parsed")
<1>1. runs \in Seq(FeedType) BY DEF PanelInv, PanelTyped
<1>2. \A s \in DOMAIN runs : s \in DOMAIN ss /\ runs[s].at \in Nat /\ ss[s].at \in Nat
  <2>1. \A s \in DOMAIN runs : s \in DOMAIN ss BY <1>1
  <2>2. \A s \in DOMAIN runs : runs[s] \in FeedType BY <1>1
  <2>3. \A s \in DOMAIN ss : ss[s] \in FeedType OBVIOUS
  <2>4. QED BY <2>1, <2>2, <2>3 DEF FeedType
<1>3. \A s \in DOMAIN runs : Sent(runs[s], "parsed") => Sent(ss[s], "parsed") BY <1>2, StaysSent
<1>4. QED BY <1>2, <1>3 DEF PanelInv, AcceptedKnown

\* A run that ends, or goes on: the reply is committed when it is over.
LEMMA SettleKeeps ==
    ASSUME PanelInv, run.of # 0, NEW r \in RunType, r.of = run.of, r.running => run.running,
           NEW ss \in Seq(FeedType), Len(ss) = Len(runs),
           \A s \in DOMAIN runs : /\ runs[s].at <= ss[s].at /\ ss[s].at <= Len(ss[s].script) /\ ss[s].script = runs[s].script
                                  /\ ss[s].state = "open" => runs[s].state = "open",
           r.text <= ss[r.of].at, r.parsed => Sent(ss[r.of], "parsed"),
           A!Settle(r, ss), UNCHANGED <<mode, accepted>>
    PROVE  PanelInv'
<1> DEFINE tt == IF ss # <<>> /\ A!Last(ss).state = "open" THEN [ss EXCEPT ![Len(ss)].state = "aborted"] ELSE ss
<1>0. /\ runs \in Seq(FeedType) /\ turns \in Seq({"user", "assistant"} \X Nat) /\ mode \in {"oneshot", "chat"} /\ pending \in BOOLEAN /\ run \in RunType
      /\ r.of \in Nat /\ r.of = Len(runs) /\ DOMAIN ss = DOMAIN runs
  BY DEF PanelInv, PanelTyped, LatestShown, RunType
<1>1. \A s \in DOMAIN ss : ss[s].state = "open" => s = r.of BY <1>0 DEF PanelInv, LatestShown
<1>2. \A a \in accepted : a.run \in DOMAIN ss /\ (a.json => Sent(ss[a.run], "parsed"))
  <2>1. Len(ss) >= Len(runs) BY <1>0
  <2>2. QED BY <2>1, AcceptedStays
<1>3. CASE ~A!CommitsNow(r)
  <2>1. run' = r /\ runs' = ss /\ turns' = turns /\ pending' = pending BY <1>3 DEF A!Settle
  <2>2. PanelTyped' BY <2>1, <1>0 DEF PanelTyped
  <2>3. LatestShown' BY <2>1, <1>0, <1>1 DEF LatestShown
  <2>4. ReplyAwaited' BY <2>1, <1>3 DEF A!CommitsNow, PanelInv, ReplyAwaited
  <2>5. A!RepliesInOrder' BY <2>1 DEF PanelInv, A!RepliesInOrder
  <2>6. AcceptedKnown' BY <2>1, <1>2 DEF AcceptedKnown
  <2>7. QED BY <2>2, <2>3, <2>4, <2>5, <2>6 DEF PanelInv
<1>4. CASE A!CommitsNow(r) /\ r.error
  <2>1. run' = r /\ runs' = ss /\ turns' = turns /\ pending' = FALSE BY <1>4 DEF A!Settle
  <2>2. PanelTyped' BY <2>1, <1>0 DEF PanelTyped
  <2>3. LatestShown' BY <2>1, <1>0, <1>1 DEF LatestShown
  <2>4. ReplyAwaited' BY <2>1 DEF ReplyAwaited
  <2>5. A!RepliesInOrder' BY <2>1 DEF PanelInv, A!RepliesInOrder
  <2>6. AcceptedKnown' BY <2>1, <1>2 DEF AcceptedKnown
  <2>7. QED BY <2>2, <2>3, <2>4, <2>5, <2>6 DEF PanelInv
<1>5. CASE A!CommitsNow(r) /\ ~r.error
  <2> DEFINE us == IF A!Committed(r) THEN Append(turns, <<"assistant", r.of>>) ELSE turns
  <2>1. run' = A!NoRun /\ runs' = tt /\ turns' = us /\ pending' = FALSE BY <1>5 DEF A!Settle
  <2>2. /\ tt \in Seq(FeedType) /\ Len(tt) = Len(ss) /\ DOMAIN tt = DOMAIN ss
        /\ \A s \in DOMAIN ss : tt[s].state # "open" /\ tt[s].at = ss[s].at /\ tt[s].script = ss[s].script
    <3>1. \A s \in DOMAIN ss : ss[s].state = "open" => runs[s].state = "open" BY <1>0
    <3>2. /\ tt \in Seq(FeedType) /\ Len(tt) = Len(ss)
          /\ \A s \in DOMAIN ss : tt[s].state # "open" /\ tt[s].at = ss[s].at /\ tt[s].script = ss[s].script
      BY <3>1, StoppedOver
    <3> HIDE DEF tt
    <3>3. QED BY <3>2
  <2> HIDE DEF tt
  <2>3. turns # <<>> /\ turns[Len(turns)] = <<"user", r.of>> BY <1>5 DEF A!CommitsNow, PanelInv, ReplyAwaited
  <2>4. us \in Seq({"user", "assistant"} \X Nat) /\ \A i \in DOMAIN us : us[i][1] = "assistant" => i > 1 /\ us[i - 1] = <<"user", us[i][2]>>
    <3>1. CASE ~A!Committed(r)
      <4>1. us = turns BY <3>1
      <4>2. QED BY <4>1, <1>0 DEF PanelInv, A!RepliesInOrder
    <3>2. CASE A!Committed(r)
      <4> DEFINE t == <<"assistant", r.of>>
      <4>1. us = Append(turns, t) BY <3>2
      <4>2. t \in {"user", "assistant"} \X Nat /\ t[1] = "assistant" /\ t[2] = r.of BY <1>0
      <4> HIDE DEF t, us
      <4>3. /\ us \in Seq({"user", "assistant"} \X Nat) /\ Len(us) = Len(turns) + 1 /\ us[Len(turns) + 1] = t
            /\ \A i \in DOMAIN turns : us[i] = turns[i] BY <4>1, <4>2, <1>0
      <4>4. ASSUME NEW i \in DOMAIN us, us[i][1] = "assistant" PROVE i > 1 /\ us[i - 1] = <<"user", us[i][2]>>
        <5>1. CASE i = Len(turns) + 1
          <6>1. i - 1 = Len(turns) /\ Len(turns) \in DOMAIN turns /\ i > 1 BY <5>1, <2>3, <1>0
          <6>2. us[i - 1] = turns[Len(turns)] /\ us[i] = t BY <6>1, <5>1, <4>3
          <6>3. QED BY <6>1, <6>2, <4>2, <2>3
        <5>2. CASE i # Len(turns) + 1
          <6>1. i \in DOMAIN turns BY <5>2, <4>3, <1>0
          <6>2. us[i] = turns[i] BY <6>1, <4>3
          <6>3. i > 1 /\ turns[i - 1] = <<"user", turns[i][2]>> BY <6>1, <6>2, <4>4 DEF PanelInv, A!RepliesInOrder
          <6>4. i - 1 \in DOMAIN turns BY <6>1, <6>3, <1>0
          <6>5. QED BY <6>2, <6>3, <6>4, <4>3
        <5>3. QED BY <5>1, <5>2
      <4>5. QED BY <4>3, <4>4
    <3>3. QED BY <3>1, <3>2
  <2> HIDE DEF us
  <2>5. A!NoRun \in RunType /\ A!NoRun.of = 0 BY DEF A!NoRun, RunType
  <2>6. PanelTyped' BY <2>1, <2>2, <2>4, <2>5, <1>0 DEF PanelTyped
  <2>7. LatestShown' BY <2>1, <2>2, <2>5 DEF LatestShown
  <2>8. ReplyAwaited' BY <2>1 DEF ReplyAwaited
  <2>9. A!RepliesInOrder' BY <2>1, <2>4 DEF A!RepliesInOrder
  <2>10. AcceptedKnown' BY <2>1, <2>2, <1>2 DEF AcceptedKnown, Sent
  <2>11. QED BY <2>6, <2>7, <2>8, <2>9, <2>10 DEF PanelInv
<1>6. QED BY <1>3, <1>4, <1>5

\* Another run begins, when none is running.
LEMMA StartedKeeps ==
    ASSUME PanelInv, NEW script \in PanelScripts, ~run.running, A!Started(script), mode' = mode, accepted' = accepted,
           \/ turns' = turns /\ pending' = pending
           \/ mode = "chat" /\ turns' = Append(turns, <<"user", Len(runs) + 1>>) /\ pending' = TRUE
    PROVE  PanelInv'
<1> DEFINE n == Len(runs) + 1
           ss == A!Stopped
           st == [script |-> script, at |-> 0, state |-> "open"]
<1>0. runs' = Append(ss, st) /\ run' = A!FreshRun(n) BY DEF A!Started
<1>1. /\ runs \in Seq(FeedType) /\ turns \in Seq({"user", "assistant"} \X Nat) /\ mode \in {"oneshot", "chat"} /\ pending \in BOOLEAN
      /\ ~pending /\ \A s \in DOMAIN runs : runs[s].at <= Len(runs[s].script)
  BY DEF PanelInv, PanelTyped, ReplyAwaited
<1>2. n \in Nat /\ n # 0 BY <1>1
<1>3. /\ ss \in Seq(FeedType) /\ Len(ss) = Len(runs) /\ DOMAIN ss = DOMAIN runs
      /\ \A s \in DOMAIN runs : ss[s].state # "open" /\ ss[s].at = runs[s].at /\ ss[s].script = runs[s].script
  BY StoppedRuns
<1>4. st \in FeedType /\ st.state = "open" /\ st.at = 0 /\ st.script = script BY DEF FeedType
<1>5. Len(script) \in Nat BY ConsoleAssumption
<1> HIDE DEF ss, st
<1>6. /\ runs' \in Seq(FeedType) /\ Len(runs') = n /\ runs'[n] = st /\ \A s \in DOMAIN runs : runs'[s] = ss[s]
      /\ \A s \in DOMAIN runs' : s = n \/ s \in DOMAIN runs
  BY <1>0, <1>1, <1>3, <1>4
<1>7. /\ run' \in RunType /\ run'.of = n /\ run'.text = 0 /\ ~run'.parsed /\ run'.running
  <2>1. run' = [running |-> TRUE, of |-> n, text |-> 0, parsed |-> FALSE, step |-> "none", error |-> FALSE] BY <1>0 DEF A!FreshRun, A!NoRun
  <2>2. QED BY <2>1, <1>2 DEF RunType
<1>8. \A s \in DOMAIN runs' : runs'[s].at <= Len(runs'[s].script)
  <2>1. TAKE s \in DOMAIN runs'
  <2>2. CASE s = n BY <2>2, <1>4, <1>5, <1>6
  <2>3. CASE s \in DOMAIN runs BY <2>3, <1>1, <1>3, <1>6
  <2>4. QED BY <2>2, <2>3, <1>6
<1>9. LatestShown'
  <2>1. \A s \in DOMAIN runs' : runs'[s].state = "open" => s = n BY <1>3, <1>6
  <2>2. QED BY <2>1, <1>2, <1>4, <1>6, <1>7 DEF LatestShown
<1>10. AcceptedKnown'
  <2>1. /\ runs' \in Seq(FeedType) /\ Len(ss) >= Len(runs)
        /\ \A s \in DOMAIN runs : runs[s].at <= ss[s].at /\ ss[s].script = runs[s].script
    <3>1. \A s \in DOMAIN runs : runs[s].at \in Nat
      <4>1. \A s \in DOMAIN runs : runs[s] \in FeedType BY <1>1
      <4>2. QED BY <4>1 DEF FeedType
    <3>2. QED BY <3>1, <1>1, <1>3, <1>6
  <2>2. \A a \in accepted : a.run \in DOMAIN ss /\ (a.json => Sent(ss[a.run], "parsed")) BY <2>1, <1>3, AcceptedStays
  <2>3. \A a \in accepted : a.run \in DOMAIN runs' /\ runs'[a.run] = ss[a.run] BY <2>2, <1>1, <1>3, <1>6
  <2>4. QED BY <2>2, <2>3 DEF AcceptedKnown
<1>11. CASE turns' = turns /\ pending' = pending
  <2>1. PanelTyped' BY <1>1, <1>6, <1>7, <1>8, <1>11 DEF PanelTyped
  <2>2. ReplyAwaited' BY <1>1, <1>11 DEF ReplyAwaited
  <2>3. A!RepliesInOrder' BY <1>11 DEF PanelInv, A!RepliesInOrder
  <2>4. QED BY <2>1, <2>2, <2>3, <1>9, <1>10 DEF PanelInv
<1>12. CASE mode = "chat" /\ turns' = Append(turns, <<"user", n>>) /\ pending' = TRUE
  <2> DEFINE t == <<"user", n>>
  <2>0. t \in {"user", "assistant"} \X Nat /\ t[1] # "assistant" BY <1>2
  <2>1. turns' = Append(turns, t) BY <1>12
  <2> HIDE DEF t, n
  <2>2. /\ turns' \in Seq({"user", "assistant"} \X Nat) /\ Len(turns') = Len(turns) + 1 /\ turns' # <<>> /\ turns'[Len(turns) + 1] = t
        /\ \A i \in DOMAIN turns : turns'[i] = turns[i]
        /\ \A i \in DOMAIN turns' : i = Len(turns) + 1 \/ i \in DOMAIN turns
    BY <2>0, <2>1, <1>1
  <2>3. PanelTyped' BY <2>2, <1>1, <1>6, <1>7, <1>8, <1>12 DEF PanelTyped
  <2>4. ReplyAwaited'
    <3>1. mode' = "chat" /\ run'.running /\ run'.of # 0 BY <1>2, <1>7, <1>12
    <3>2. turns'[Len(turns')] = <<"user", run'.of>> BY <2>2, <1>7 DEF t
    <3>3. QED BY <3>1, <3>2, <2>2 DEF ReplyAwaited
  <2>5. A!RepliesInOrder'
    <3>1. SUFFICES ASSUME NEW i \in DOMAIN turns', turns'[i][1] = "assistant" PROVE i > 1 /\ turns'[i - 1] = <<"user", turns'[i][2]>>
      BY DEF A!RepliesInOrder
    <3>2. i \in DOMAIN turns /\ turns'[i] = turns[i] BY <3>1, <2>0, <2>2
    <3>3. i > 1 /\ turns[i - 1] = <<"user", turns[i][2]>> BY <3>1, <3>2 DEF PanelInv, A!RepliesInOrder
    <3>4. i - 1 \in DOMAIN turns BY <3>2, <3>3, <1>1
    <3>5. QED BY <3>2, <3>3, <3>4, <2>2
  <2>6. QED BY <2>3, <2>4, <2>5, <1>9, <1>10 DEF PanelInv
<1>13. QED BY <1>11, <1>12

\* The panel turns to nothing: what was shown is gone, and what was sent stays sent.
LEMMA ClearedKeeps ==
    ASSUME PanelInv, ~run.running, run' = A!NoRun, runs' = A!Stopped, pending' = pending, mode' = mode, turns' \in {turns, <<>>},
           \A a \in accepted' : a \in accepted \/ (a.run = run.of /\ run.of # 0 /\ (a.json => run.parsed))
    PROVE  PanelInv'
<1>1. /\ runs' \in Seq(FeedType) /\ Len(runs') = Len(runs) /\ DOMAIN runs' = DOMAIN runs
      /\ \A s \in DOMAIN runs : runs'[s].state # "open" /\ runs'[s].at = runs[s].at /\ runs'[s].script = runs[s].script
  BY StoppedRuns
<1>2. A!NoRun \in RunType /\ A!NoRun.of = 0 BY DEF A!NoRun, RunType
<1>3. PanelTyped'
  <2>1. turns' \in Seq({"user", "assistant"} \X Nat)
    <3>1. turns \in Seq({"user", "assistant"} \X Nat) BY DEF PanelInv, PanelTyped
    <3>2. <<>> \in Seq({"user", "assistant"} \X Nat) OBVIOUS
    <3>3. turns' = turns \/ turns' = <<>> OBVIOUS
    <3>4. QED BY <3>1, <3>2, <3>3
  <2>2. \A s \in DOMAIN runs' : runs'[s].at <= Len(runs'[s].script) BY <1>1 DEF PanelInv, PanelTyped
  <2>3. QED BY <2>1, <2>2, <1>1, <1>2 DEF PanelInv, PanelTyped
<1>4. LatestShown' BY <1>1, <1>2 DEF LatestShown
<1>5. ReplyAwaited' BY DEF PanelInv, ReplyAwaited
<1>6. A!RepliesInOrder' BY DEF PanelInv, A!RepliesInOrder
<1>7. AcceptedKnown'
  <2>1. SUFFICES ASSUME NEW a \in accepted' PROVE a.run \in DOMAIN runs' /\ (a.json => Sent(runs'[a.run], "parsed")) BY DEF AcceptedKnown
  <2>2. CASE a \in accepted
    <3>1. a.run \in DOMAIN runs /\ (a.json => Sent(runs[a.run], "parsed")) BY <2>2 DEF PanelInv, AcceptedKnown
    <3>2. QED BY <3>1, <1>1 DEF Sent
  <2>3. CASE a \notin accepted
    <3>1. a.run = run.of /\ run.of # 0 /\ (a.json => run.parsed) BY <2>3
    <3>2. run.of = Len(runs) /\ (run.parsed => Sent(runs[run.of], "parsed")) BY <3>1 DEF PanelInv, LatestShown
    <3>3. run.of \in DOMAIN runs BY <3>1, <3>2 DEF PanelInv, PanelTyped
    <3>4. QED BY <3>1, <3>2, <3>3, <1>1 DEF Sent
  <2>4. QED BY <2>2, <2>3
<1>8. QED BY <1>3, <1>4, <1>5, <1>6, <1>7 DEF PanelInv

LEMMA CancelKeeps ==
    ASSUME PanelInv, A!Cancel
    PROVE  PanelInv'
<1> DEFINE r == [run EXCEPT !.running = FALSE]
<1>0. run.running /\ A!Settle(r, A!Stopped) /\ UNCHANGED <<mode, accepted>> BY DEF A!Cancel, A!PanelOffered
<1>1. run \in RunType /\ runs \in Seq(FeedType) /\ \A s \in DOMAIN runs : runs[s].at <= Len(runs[s].script) BY DEF PanelInv, PanelTyped
<1>2. r \in RunType /\ r.of = run.of /\ r.text = run.text /\ r.parsed = run.parsed /\ ~r.running BY <1>1 DEF RunType
<1>3. run.of # 0 BY <1>0 DEF PanelInv, LatestShown, A!NoRun
<1>4. run.of = Len(runs) /\ run.text <= runs[run.of].at /\ (run.parsed => Sent(runs[run.of], "parsed")) BY <1>3 DEF PanelInv, LatestShown
<1> HIDE DEF r
<1>5. run.of \in DOMAIN runs BY <1>1, <1>3, <1>4
<1>6. /\ A!Stopped \in Seq(FeedType) /\ Len(A!Stopped) = Len(runs)
      /\ \A s \in DOMAIN runs : A!Stopped[s].state # "open" /\ A!Stopped[s].at = runs[s].at /\ A!Stopped[s].script = runs[s].script
  BY StoppedRuns
<1>7. \A s \in DOMAIN runs : /\ runs[s].at <= A!Stopped[s].at /\ A!Stopped[s].at <= Len(A!Stopped[s].script) /\ A!Stopped[s].script = runs[s].script
                             /\ A!Stopped[s].state = "open" => runs[s].state = "open"
  <2>1. \A s \in DOMAIN runs : runs[s] \in FeedType BY <1>1
  <2>2. \A s \in DOMAIN runs : runs[s].at \in Nat BY <2>1 DEF FeedType
  <2>3. QED BY <2>2, <1>1, <1>6
<1>8. r.text <= A!Stopped[r.of].at /\ (r.parsed => Sent(A!Stopped[r.of], "parsed")) BY <1>2, <1>4, <1>5, <1>6 DEF Sent
<1>9. QED BY <1>0, <1>2, <1>3, <1>6, <1>7, <1>8, SettleKeeps

LEMMA OnEventKeeps ==
    ASSUME PanelInv, NEW s \in DOMAIN runs, A!OnEvent(s)
    PROVE  PanelInv'
<1> DEFINE old == runs[s]
           e == old.script[old.at + 1]
           r == A!FoldEvent(e)
           st == [old EXCEPT !.at = @ + 1]
           ss == [runs EXCEPT ![s] = st]
<1>0. old.state = "open" /\ old.at < Len(old.script) /\ A!Settle(r, [runs EXCEPT ![s].at = @ + 1]) /\ UNCHANGED <<mode, accepted>> BY DEF A!OnEvent
<1>1. /\ run \in RunType /\ runs \in Seq(FeedType) /\ old \in FeedType /\ run.of = s /\ s # 0
      /\ \A x \in DOMAIN runs : runs[x].at <= Len(runs[x].script)
  BY <1>0 DEF PanelInv, PanelTyped, LatestShown
<1>2. run.text <= old.at /\ (run.parsed => Sent(old, "parsed")) BY <1>1 DEF PanelInv, LatestShown
<1>3. old.at \in Nat /\ old.script \in PanelScripts BY <1>1 DEF FeedType
<1>4. Len(old.script) \in Nat BY <1>3, ConsoleAssumption
<1>5. st \in FeedType /\ st.at = old.at + 1 /\ st.script = old.script /\ st.state = "open" BY <1>0, <1>1, <1>3 DEF FeedType
<1>6. A!Settle(r, ss) BY <1>0
<1>7. /\ r \in RunType /\ r.of = run.of /\ (r.running => run.running) /\ r.text \in {run.text, run.text + 1} /\ (r.parsed => run.parsed \/ e = "parsed")
  <2>1. A!StepAfter(e, run.step) \in {"none", "called", "asking", "done"} BY <1>1 DEF A!StepAfter, RunType
  <2>2. run.text \in Nat /\ run.text + 1 \in Nat BY <1>1 DEF RunType
  <2>3. /\ (run.running /\ e \notin {"end", "error"}) \in BOOLEAN /\ (run.parsed \/ e = "parsed") \in BOOLEAN /\ (run.error \/ e = "error") \in BOOLEAN BY <1>1 DEF RunType
  <2> HIDE DEF e
  <2> DEFINE on == run.running /\ e \notin {"end", "error"}
             read == run.parsed \/ e = "parsed"
             bad == run.error \/ e = "error"
             size == IF e = "delta" THEN run.text + 1 ELSE run.text
             stage == A!StepAfter(e, run.step)
  <2>4. r = [run EXCEPT !.text = size, !.parsed = read, !.step = stage, !.running = on, !.error = bad] BY DEF A!FoldEvent
  <2>5. on \in BOOLEAN /\ read \in BOOLEAN /\ bad \in BOOLEAN /\ size \in {run.text, run.text + 1} /\ (on => run.running) /\ (read => run.parsed \/ e = "parsed")
    BY <2>3
  <2> HIDE DEF r, on, read, bad, size, stage
  <2>6. r \in RunType /\ r.of = run.of /\ r.text = size /\ r.parsed = read /\ r.running = on BY <2>1, <2>2, <2>4, <2>5, <1>1 DEF RunType, stage
  <2>7. QED BY <2>5, <2>6
<1> HIDE DEF r, st, ss
<1>8. ss \in Seq(FeedType) /\ Len(ss) = Len(runs) /\ DOMAIN ss = DOMAIN runs /\ ss[s] = st /\ \A x \in DOMAIN runs : x # s => ss[x] = runs[x]
  BY <1>1, <1>5 DEF ss
<1>9. \A x \in DOMAIN runs : /\ runs[x].at <= ss[x].at /\ ss[x].at <= Len(ss[x].script) /\ ss[x].script = runs[x].script
                             /\ ss[x].state = "open" => runs[x].state = "open"
  <2>1. TAKE x \in DOMAIN runs
  <2>2. CASE x = s BY <2>2, <1>0, <1>3, <1>4, <1>5, <1>8
  <2>3. CASE x # s
    <3>1. runs[x] \in FeedType BY <1>1
    <3>2. runs[x].at \in Nat BY <3>1 DEF FeedType
    <3>3. QED BY <3>2, <2>3, <1>1, <1>8
  <2>4. QED BY <2>2, <2>3
<1>10. r.text <= ss[r.of].at
  <2>1. run.text \in Nat BY <1>1 DEF RunType
  <2>2. ss[r.of] = st BY <1>1, <1>7, <1>8
  <2>3. QED BY <2>1, <2>2, <1>2, <1>3, <1>5, <1>7
<1>11. r.parsed => Sent(ss[r.of], "parsed")
  <2>1. ss[r.of] = st BY <1>1, <1>7, <1>8
  <2>2. CASE run.parsed
    <3>1. st.at \in Nat /\ old.at <= st.at BY <1>3, <1>5
    <3>2. Sent(st, "parsed") BY <2>2, <3>1, <1>2, <1>3, <1>5, StaysSent
    <3>3. QED BY <2>1, <3>2
  <2>3. CASE e = "parsed"
    <3>1. st.at \in 1..st.at /\ st.script[st.at] = e BY <1>3, <1>5
    <3>2. QED BY <2>1, <2>3, <3>1 DEF Sent
  <2>4. QED BY <2>2, <2>3, <1>7
<1>12. run.of # 0 BY <1>1
<1>13. QED BY <1>0, <1>6, <1>7, <1>8, <1>9, <1>10, <1>11, <1>12, SettleKeeps

LEMMA OnCloseKeeps ==
    ASSUME PanelInv, NEW s \in DOMAIN runs, A!OnClose(s)
    PROVE  PanelInv'
<1> DEFINE old == runs[s]
           r == [run EXCEPT !.running = FALSE, !.error = @ \/ old.at < Len(old.script)]
           st == [old EXCEPT !.state = "closed"]
           ss == [runs EXCEPT ![s] = st]
<1>0. old.state = "open" /\ A!Settle(r, [runs EXCEPT ![s].state = "closed"]) /\ UNCHANGED <<mode, accepted>> BY DEF A!OnClose
<1>1. /\ run \in RunType /\ runs \in Seq(FeedType) /\ old \in FeedType /\ run.of = s /\ s # 0
      /\ \A x \in DOMAIN runs : runs[x].at <= Len(runs[x].script)
  BY <1>0 DEF PanelInv, PanelTyped, LatestShown
<1>2. run.text <= old.at /\ (run.parsed => Sent(old, "parsed")) BY <1>1 DEF PanelInv, LatestShown
<1>3. st \in FeedType /\ st.at = old.at /\ st.script = old.script /\ st.state = "closed" BY <1>1 DEF FeedType
<1>4. A!Settle(r, ss) BY <1>0
<1>5. r \in RunType /\ r.of = run.of /\ ~r.running /\ r.text = run.text /\ r.parsed = run.parsed
  <2>1. (run.error \/ old.at < Len(old.script)) \in BOOLEAN BY <1>1 DEF RunType
  <2>2. QED BY <2>1, <1>1 DEF RunType
<1> HIDE DEF r, st, ss
<1>6. ss \in Seq(FeedType) /\ Len(ss) = Len(runs) /\ DOMAIN ss = DOMAIN runs /\ ss[s] = st /\ \A x \in DOMAIN runs : x # s => ss[x] = runs[x]
  BY <1>1, <1>3 DEF ss
<1>7. \A x \in DOMAIN runs : /\ runs[x].at <= ss[x].at /\ ss[x].at <= Len(ss[x].script) /\ ss[x].script = runs[x].script
                             /\ ss[x].state = "open" => runs[x].state = "open"
  <2>1. TAKE x \in DOMAIN runs
  <2>2. runs[x] \in FeedType BY <1>1
  <2>3. runs[x].at \in Nat BY <2>2 DEF FeedType
  <2>4. CASE x = s BY <2>3, <2>4, <1>0, <1>1, <1>3, <1>6
  <2>5. CASE x # s BY <2>3, <2>5, <1>1, <1>6
  <2>6. QED BY <2>4, <2>5
<1>8. ss[r.of] = st BY <1>1, <1>5, <1>6
<1>9. r.text <= ss[r.of].at /\ (r.parsed => Sent(ss[r.of], "parsed")) BY <1>2, <1>3, <1>5, <1>8 DEF Sent
<1>10. run.of # 0 BY <1>1
<1>11. QED BY <1>0, <1>4, <1>5, <1>6, <1>7, <1>9, <1>10, SettleKeeps

\* Every step of the panel keeps it in order.
LEMMA PanelGoesOn ==
    ASSUME PanelInv, A!PanelNext
    PROVE  PanelInv'
<1>1. ASSUME NEW script \in PanelScripts, A!RunOnce(script) PROVE PanelInv'
  <2>1. ~run.running /\ A!Started(script) /\ UNCHANGED <<mode, turns, pending, accepted>> BY <1>1 DEF A!RunOnce, A!PanelOffered
  <2>2. QED BY <2>1, StartedKeeps
<1>2. ASSUME NEW script \in PanelScripts, A!SendChat(script) PROVE PanelInv'
  <2>1. /\ ~run.running /\ mode = "chat" /\ A!Started(script) /\ turns' = Append(turns, <<"user", Len(runs) + 1>>) /\ pending' = TRUE
        /\ mode' = mode /\ accepted' = accepted
    BY <1>2 DEF A!SendChat, A!PanelOffered, A!Asked
  <2>2. QED BY <2>1, StartedKeeps
<1>3. ASSUME A!Cancel PROVE PanelInv' BY <1>3, CancelKeeps
<1>4. ASSUME A!Reset PROVE PanelInv'
  <2>1. ~run.running /\ run' = A!NoRun /\ runs' = A!Stopped /\ turns' = <<>> /\ UNCHANGED <<mode, pending, accepted>> BY <1>4 DEF A!Reset, A!PanelOffered
  <2>2. QED BY <2>1, ClearedKeeps
<1>5. ASSUME NEW json \in BOOLEAN, A!Accept(json) PROVE PanelInv'
  <2>1. /\ ~run.running /\ run.text > 0 /\ (json => run.parsed) /\ accepted' = accepted \cup {[run |-> run.of, json |-> json]}
        /\ run' = A!NoRun /\ runs' = A!Stopped /\ UNCHANGED <<mode, turns, pending>>
    BY <1>5 DEF A!Accept, A!PanelOffered
  <2>2. run.of # 0
    <3>1. A!NoRun.text = 0 BY DEF A!NoRun
    <3>2. QED BY <3>1, <2>1 DEF PanelInv, LatestShown
  <2>3. \A a \in accepted' : a \in accepted \/ (a.run = run.of /\ run.of # 0 /\ (a.json => run.parsed)) BY <2>1, <2>2
  <2>4. QED BY <2>1, <2>3, ClearedKeeps
<1>6. ASSUME A!ApprovePanel PROVE PanelInv'
  <2>1. run.step = "asking" /\ run' = [run EXCEPT !.step = "called"] /\ UNCHANGED <<mode, turns, pending, runs, accepted>> BY <1>6 DEF A!ApprovePanel
  <2>2. run \in RunType /\ run.of # 0 BY <2>1 DEF PanelInv, PanelTyped, LatestShown, A!NoRun
  <2>3. run' \in RunType /\ run'.of = run.of /\ run'.text = run.text /\ run'.parsed = run.parsed /\ run'.running = run.running BY <2>1, <2>2 DEF RunType
  <2>4. PanelTyped' BY <2>1, <2>3 DEF PanelInv, PanelTyped
  <2>5. LatestShown' BY <2>1, <2>2, <2>3 DEF PanelInv, LatestShown
  <2>6. ReplyAwaited' BY <2>1, <2>3 DEF PanelInv, ReplyAwaited
  <2>7. A!RepliesInOrder' /\ AcceptedKnown' BY <2>1 DEF PanelInv, A!RepliesInOrder, AcceptedKnown
  <2>8. QED BY <2>4, <2>5, <2>6, <2>7 DEF PanelInv
<1>7. ASSUME NEW s \in DOMAIN runs, A!OnEvent(s) PROVE PanelInv' BY <1>7, OnEventKeeps
<1>8. ASSUME NEW s \in DOMAIN runs, A!OnClose(s) PROVE PanelInv' BY <1>8, OnCloseKeeps
<1>9. QED BY <1>1, <1>2, <1>3, <1>4, <1>5, <1>6, <1>7, <1>8 DEF A!PanelNext

\* A step of another part of the console leaves the panel in order.
LEMMA PanelRests ==
    ASSUME PanelInv, UNCHANGED panelVars
    PROVE  PanelInv'
<1>0. UNCHANGED <<mode, run, turns, pending, runs, accepted>> BY DEF panelVars
<1>1. PanelTyped' /\ LatestShown' /\ ReplyAwaited' /\ A!RepliesInOrder' /\ AcceptedKnown'
  BY <1>0 DEF PanelInv, PanelTyped, LatestShown, ReplyAwaited, A!RepliesInOrder, AcceptedKnown
<1>2. QED BY <1>1 DEF PanelInv

\* The panel begins as nothing, too.
LEMMA PanelBegins ==
    ASSUME A!PanelInit
    PROVE  PanelInv
<1>0. mode \in {"oneshot", "chat"} /\ run = A!NoRun /\ turns = <<>> /\ pending = FALSE /\ runs = <<>> /\ accepted = {} BY DEF A!PanelInit
<1>1. A!NoRun \in RunType /\ A!NoRun.of = 0 BY DEF A!NoRun, RunType
<1>2. PanelTyped
  <2>1. <<>> \in Seq(FeedType) /\ <<>> \in Seq({"user", "assistant"} \X Nat) OBVIOUS
  <2>2. runs \in Seq(FeedType) /\ turns \in Seq({"user", "assistant"} \X Nat) /\ DOMAIN runs = {} BY <2>1, <1>0
  <2>3. QED BY <2>2, <1>0, <1>1 DEF PanelTyped
<1>3. LatestShown /\ ReplyAwaited /\ AcceptedKnown BY <1>0, <1>1 DEF LatestShown, ReplyAwaited, AcceptedKnown
<1>4. A!RepliesInOrder BY <1>0 DEF A!RepliesInOrder
<1>5. QED BY <1>2, <1>3, <1>4 DEF PanelInv

\* What the invariant says is what the run checks of the panel.
LEMMA PanelIsSound ==
    ASSUME PanelInv
    PROVE  A!RepliesInOrder /\ A!OnlyLatestRun /\ A!AcceptedWasParsed
<1>1. A!OnlyLatestRun
  <2>1. \A s \in DOMAIN runs : s # 0 BY DEF PanelInv, PanelTyped
  <2>2. QED BY <2>1 DEF A!OnlyLatestRun, PanelInv, LatestShown
<1>2. A!AcceptedWasParsed BY DEF A!AcceptedWasParsed, PanelInv, AcceptedKnown, Sent
<1>3. QED BY <1>1, <1>2 DEF PanelInv

-----------------------------------------------------------------------------
\* Of the console, this is the part that talks with a model.
TalkInv == (part = "chat" => TypesInv /\ A!SavedApart /\ ("reply" \notin late => ChatInv)) /\ (part = "panel" => PanelInv)

\* A reply stands after the question it answers, in the chat it was asked in; what failed is not sent again and not
\* saved; a tool call is decided once; a chat is saved apart from the others; the panel shows and accepts only what its latest run sent (llmStore.ts,
\* useLlm.ts, AiPanel.tsx): for every set of replies, and every number of chats, messages, saves and runs.
THEOREM ChatHolds == Spec => []ChatSound
<1>1. Init => TalkInv
  <2>1. SUFFICES ASSUME Init PROVE TalkInv OBVIOUS
  <2>2. A!Init /\ A!PanelInit BY <2>1 DEF Init
  <2>3. pick \in Conns BY <2>2 DEF A!Init
  <2>4. QED BY <2>2, <2>3, ChatBegins, TypesBegin, PanelBegins DEF TalkInv
<1>2. TalkInv /\ [Next]_vars => TalkInv'
  <2>1. SUFFICES ASSUME TalkInv, [Next]_vars PROVE TalkInv' OBVIOUS
  <2>2. /\ part' = part
        /\ part = "chat" => A!Next \/ UNCHANGED chatVars
        /\ part = "panel" => A!PanelNext \/ UNCHANGED panelVars
    BY <2>1 DEF Next, OfChat, OfPanel, OfCatalog, OfShell, OfHub, OfLibrary, OfBoard, OfHistory, OfAlerts, OfPages, OfFlow, OfEditor, vars
  <2>3. part = "chat" => TypesInv' /\ A!SavedApart' BY <2>1, <2>2, TypesGoOn, ApartGoesOn, TypesRest DEF TalkInv
  <2>6. part = "chat" /\ "reply" \notin late' => ChatInv'
    <3>1. SUFFICES ASSUME part = "chat", "reply" \notin late' PROVE ChatInv' OBVIOUS
    <3>2. late \subseteq late' BY <2>2, <3>1, LateGrows DEF chatVars
    <3>3. QED BY <2>1, <2>2, <3>1, <3>2, ChatGoesOn, ChatRests DEF TalkInv
  <2>4. part = "panel" => PanelInv' BY <2>1, <2>2, PanelGoesOn, PanelRests DEF TalkInv
  <2>5. QED BY <2>2, <2>3, <2>4, <2>6 DEF TalkInv
<1>3. TalkInv => ChatSound BY ChatIsSound, PanelIsSound DEF TalkInv, ChatSound
<1>4. QED BY <1>1, <1>2, <1>3, PTL DEF Spec
=============================================================================
