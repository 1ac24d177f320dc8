----------------------------- MODULE McpManager -----------------------------
(***************************************************************************)
(* The sessions to the MCP servers (internal/mcp) and the handlers that    *)
(* configure them: requests that connect, list tools, call one, change or  *)
(* delete a server run at once, hold the mutex for single steps only, and  *)
(* dial, list and close outside it.                                        *)
(*                                                                         *)
(* A configuration and a tool list are the number of their version; the    *)
(* servers and what they announce are external.                            *)
(***************************************************************************)
EXTENDS Naturals, FiniteSets

CONSTANTS
    Servers,                   \* numbered, 0 is none
    MaxSessions, MaxActive,  \* bounds: sessions ever opened, requests under way at once
    MaxStarts,                 \* bound: requests ever made
    MaxChanges                 \* bound: changes of a configuration, of a tool list, and ends of a session by its server
ASSUME McpAssumption == Servers \subseteq Nat \ {0} /\ MaxSessions \in Nat /\ MaxActive \in Nat /\ MaxStarts \in Nat /\ MaxChanges \in Nat

VARIABLES
    configs,   \* the version configured of every server, 0 once deleted
    conns,     \* the session registered for every server, or 0
    sessions,  \* of every session: whether it was opened, is open, is alive at the server; its server, the
               \* configuration it was dialled with, the tool list cached and whether the cache is in use
    health,    \* the last-known health of every server
    work,      \* the requests under way
    offered,   \* the tool list every server offers
    news,      \* sessions whose server has announced a change that is not handled yet
    count,     \* requests and changes so far
    calm       \* for the check: no request overlapped a change, a removal or a failure at its server
mcpVars == <<configs, conns, sessions, health, work, offered, news, count, calm>>

Ids == 1..MaxSessions
Slots == 1..MaxActive
Kinds == {"connect", "tools", "call", "put", "delete", "test"}
Unused == [server |-> 0, cfg |-> 0, open |-> FALSE, alive |-> FALSE, list |-> 0, fresh |-> FALSE]
Idle == [kind |-> "none", server |-> 0, at |-> "idle", cfg |-> 0, session |-> 0, list |-> 0, then |-> "idle", met |-> FALSE]

McpInit ==
    /\ configs = [s \in Servers |-> 1] /\ offered = [s \in Servers |-> 1]
    /\ conns = [s \in Servers |-> 0] /\ health = [s \in Servers |-> "none"]
    /\ sessions = [i \in Ids |-> Unused]
    /\ work = [w \in Slots |-> Idle]
    /\ news = {} /\ count = [starts |-> 0, changes |-> 0] /\ calm = TRUE

-----------------------------------------------------------------------------
(* A step of request w: the place it goes to, and what it keeps.           *)

Server(w) == work[w].server
Goes(w, r) == work' = [work EXCEPT ![w] = r]
To(w, at) == Goes(w, [work[w] EXCEPT !.at = at])
End(w) == Goes(w, Idle)
At(w, at) == work[w].at = at
Alone(w) == ~work[w].met  \* no other request was at its server meanwhile
Rest == UNCHANGED <<configs, offered, count>>
Same == UNCHANGED <<conns, sessions, health>>

FirstStep(kind) ==
    CASE kind = "connect" -> "get" [] kind = "tools" -> "peek" [] kind = "call" -> "find"
      [] kind = "put" -> "write" [] OTHER -> "drop"
\* After its session is dropped a request goes on in its own way.
AfterDrop(kind) ==
    CASE kind = "test" -> "get" [] kind = "delete" -> "erase" [] OTHER -> "idle"
Start(w, kind, s) ==
    /\ At(w, "idle") /\ count.starts < MaxStarts
    /\ LET others == {v \in Slots : work[v].server = s} IN
       work' = [v \in Slots |->
           IF v = w THEN [Idle EXCEPT !.kind = kind, !.server = s, !.at = FirstStep(kind), !.then = AfterDrop(kind), !.met = others # {}]
           ELSE [work[v] EXCEPT !.met = @ \/ v \in others]]
    /\ count' = [count EXCEPT !.starts = @ + 1]
    /\ calm' = (calm /\ \A v \in Slots : work[v].server = s =>
                      {kind, work[v].kind} \cap {"put", "delete", "test"} = {} /\ work[v].at \notin {"err", "drop", "close"})
    /\ UNCHANGED <<configs, conns, sessions, health, offered, news>>

\* Tools answers from the cache of a session, Call uses the session there is; both connect when they have to.
Peek(w) ==
    /\ At(w, "peek")
    /\ LET c == conns[Server(w)] IN
       IF c = 0 THEN To(w, "get") ELSE IF sessions[c].fresh THEN End(w) ELSE To(w, "get")
    /\ Same /\ Rest /\ UNCHANGED <<news, calm>>
Find(w) ==
    /\ At(w, "find") \/ At(w, "again")
    /\ LET c == conns[Server(w)] IN
       IF configs[Server(w)] = 0 /\ At(w, "find") THEN End(w)
       ELSE IF c # 0 THEN Goes(w, [work[w] EXCEPT !.at = "use", !.session = c])
       ELSE IF At(w, "again") THEN End(w) ELSE To(w, "get")
    /\ Same /\ Rest /\ UNCHANGED <<news, calm>>
Use(w) == At(w, "use") /\ End(w) /\ Same /\ Rest /\ UNCHANGED <<news, calm>>

\* Connect reads the configuration, looks for a session, and dials.
GetConfig(w) ==
    /\ At(w, "get")
    /\ IF configs[Server(w)] = 0 THEN End(w) ELSE Goes(w, [work[w] EXCEPT !.at = "look", !.cfg = configs[Server(w)]])
    /\ Same /\ Rest /\ UNCHANGED <<news, calm>>
Look(w) ==
    /\ At(w, "look")
    /\ LET c == conns[Server(w)] IN
       IF c # 0 THEN Goes(w, [work[w] EXCEPT !.at = "list", !.session = c]) ELSE To(w, "dial")
    /\ Same /\ Rest /\ UNCHANGED <<news, calm>>
DialFails(w) ==
    /\ At(w, "dial") /\ To(w, "err")
    /\ calm' = (calm /\ Alone(w)) /\ Same /\ Rest /\ UNCHANGED news
Dial(w) ==
    /\ At(w, "dial")
    /\ \E i \in Ids :
       /\ sessions[i] = Unused /\ \A j \in 1..(i - 1) : sessions[j] # Unused
       /\ sessions' = [sessions EXCEPT ![i] = [Unused EXCEPT !.server = Server(w), !.cfg = work[w].cfg, !.open = TRUE, !.alive = TRUE]]
       /\ Goes(w, [work[w] EXCEPT !.at = "register", !.session = i])
    /\ Rest /\ UNCHANGED <<conns, health, news, calm>>
Closed(i) == [sessions EXCEPT ![i].open = FALSE]
\* A request that finds a session registered since it looked closes its own and takes that one.
Overwrite(w) == conns' = [conns EXCEPT ![Server(w)] = work[w].session] /\ To(w, "list") /\ UNCHANGED sessions  \* mutant: the last wins
TakeOrClose(w) ==
    LET c == conns[Server(w)] IN
    IF c # 0 THEN /\ sessions' = Closed(work[w].session)
                  /\ Goes(w, [work[w] EXCEPT !.at = "list", !.session = c]) /\ UNCHANGED conns
    ELSE conns' = [conns EXCEPT ![Server(w)] = work[w].session] /\ To(w, "list") /\ UNCHANGED sessions
Register(w) == At(w, "register") /\ TakeOrClose(w) /\ Rest /\ UNCHANGED <<health, news, calm>>

\* The tools are listed; a list that fails drops whatever session the server has by then.
Alive(i) == sessions[i].open /\ sessions[i].alive
List(w) ==
    /\ At(w, "list") /\ Alive(work[w].session)
    /\ Goes(w, [work[w] EXCEPT !.at = "store", !.list = offered[Server(w)]])
    /\ Same /\ Rest /\ UNCHANGED <<news, calm>>
ListFails(w) ==
    /\ At(w, "list")
    /\ Goes(w, [work[w] EXCEPT !.at = "drop", !.then = "err"])
    /\ calm' = (calm /\ Alone(w)) /\ Same /\ Rest /\ UNCHANGED news
StoreList(w) ==
    /\ At(w, "store")
    /\ sessions' = [sessions EXCEPT ![work[w].session].list = work[w].list, ![work[w].session].fresh = TRUE]
    /\ To(w, "ok") /\ Rest /\ UNCHANGED <<conns, health, news, calm>>
MarkOK(w) ==
    /\ At(w, "ok")
    /\ health' = [health EXCEPT ![Server(w)] = "connected"]
    /\ IF work[w].kind = "call" THEN To(w, "again") ELSE End(w)
    /\ Rest /\ UNCHANGED <<conns, sessions, news, calm>>
MarkErr(w) ==
    /\ At(w, "err")
    /\ health' = [health EXCEPT ![Server(w)] = "error"]
    /\ End(w) /\ Rest /\ UNCHANGED <<conns, sessions, news, calm>>

\* Disconnect takes the session out under the mutex, then closes it and marks the server down.
LeftIn(w) == conns' = conns  \* mutant: the session stays registered
TakenOut(w) == conns' = [conns EXCEPT ![Server(w)] = 0]
Drop(w) ==
    /\ At(w, "drop") /\ TakenOut(w)
    /\ Goes(w, [work[w] EXCEPT !.at = "close", !.session = conns[Server(w)]])
    /\ Rest /\ UNCHANGED <<sessions, health, news, calm>>
Forgotten(w) == UNCHANGED sessions  \* mutant: the session taken out is not closed
CloseTaken(w) == sessions' = IF work[w].session = 0 THEN sessions ELSE Closed(work[w].session)
Close(w) ==
    /\ At(w, "close") /\ CloseTaken(w)
    /\ health' = [health EXCEPT ![Server(w)] = IF @ = "connected" THEN "down" ELSE @]
    /\ IF work[w].then = "idle" THEN End(w) ELSE Goes(w, [work[w] EXCEPT !.at = work[w].then, !.session = 0])
    /\ Rest /\ UNCHANGED <<conns, news, calm>>

\* The handlers: Put stores the configuration and then disconnects, Delete disconnects and then erases.
Write(w) ==
    /\ At(w, "write") /\ configs[Server(w)] # 0
    /\ configs' = [configs EXCEPT ![Server(w)] = @ + 1]
    /\ To(w, "drop") /\ Same /\ UNCHANGED <<offered, count, news, calm>>
WriteRefused(w) == At(w, "write") /\ configs[Server(w)] = 0 /\ End(w) /\ Same /\ Rest /\ UNCHANGED <<news, calm>>
Erase(w) ==
    /\ At(w, "erase")
    /\ configs' = [configs EXCEPT ![Server(w)] = 0]
    /\ End(w) /\ Same /\ UNCHANGED <<offered, count, news, calm>>

-----------------------------------------------------------------------------
(* The servers: a list changes and is announced, a session ends.           *)

Spent == count' = [count EXCEPT !.changes = @ + 1]
Listing(s) == \E w \in Slots : work[w].server = s /\ work[w].at \in {"list", "store"}
Change(s) ==
    /\ count.changes < MaxChanges /\ Spent
    /\ offered' = [offered EXCEPT ![s] = @ + 1]
    /\ news' = news \cup {i \in Ids : sessions[i].server = s /\ Alive(i)}
    /\ calm' = (calm /\ ~Listing(s))
    /\ UNCHANGED <<configs, conns, sessions, health, work>>
\* The handler of an announcement drops the cache of the session the server has now.
CacheKept(s) == sessions  \* mutant: the announcement is ignored
CacheDropped(s) == IF conns[s] = 0 THEN sessions ELSE [sessions EXCEPT ![conns[s]].fresh = FALSE]
Announce(i) ==
    /\ i \in news /\ news' = news \ {i}
    /\ sessions' = CacheDropped(sessions[i].server)
    /\ UNCHANGED <<configs, conns, health, work, offered, count, calm>>
Die(i) ==
    /\ Alive(i) /\ count.changes < MaxChanges /\ Spent
    /\ sessions' = [sessions EXCEPT ![i].alive = FALSE] /\ news' = news \ {i}
    /\ calm' = (calm /\ ~\E w \in Slots : work[w].server = sessions[i].server)
    /\ UNCHANGED <<configs, conns, health, work, offered>>

Step(w) ==
    \/ Peek(w) \/ Find(w) \/ Use(w) \/ GetConfig(w) \/ Look(w) \/ Dial(w) \/ DialFails(w) \/ Register(w) \/ List(w) \/ ListFails(w)
    \/ StoreList(w) \/ MarkOK(w) \/ MarkErr(w) \/ Drop(w) \/ Close(w) \/ Write(w) \/ WriteRefused(w) \/ Erase(w)
McpNext ==
    \/ \E w \in Slots : Step(w) \/ \E k \in Kinds, s \in Servers : Start(w, k, s)
    \/ \E s \in Servers : Change(s)
    \/ \E i \in Ids : Announce(i) \/ Die(i)

-----------------------------------------------------------------------------
\* An open session is registered, or in the hands of the one request that has yet to register or close it.
Held(i) == \E w \in Slots : work[w].session = i /\ work[w].at \in {"register", "close"}
NoneLeaks == \A i \in Ids : sessions[i].open => conns[sessions[i].server] = i \/ Held(i)
\* A registered session is one of its server that nobody here has closed.
RegisteredIsOpen == \A s \in Servers : conns[s] # 0 => sessions[conns[s]].open /\ sessions[conns[s]].server = s
\* As long as no request overlapped a change, a removal or a failure: a server at rest is marked connected exactly
\* when it has a session, dialled with its configuration, and no deleted server has one; a cached list is the list.
Quiet(s) == calm /\ \A w \in Slots : work[w].server # s
HealthKnown == \A s \in Servers : Quiet(s) => ((health[s] = "connected") <=> (conns[s] # 0))
ConfigInUse == \A s \in Servers : Quiet(s) /\ conns[s] # 0 => sessions[conns[s]].cfg = configs[s]
ListInUse ==
    \A s \in Servers : Quiet(s) /\ conns[s] # 0 =>
        LET c == sessions[conns[s]] IN c.fresh /\ c.alive /\ conns[s] \notin news => c.list = offered[s]
McpSound == NoneLeaks /\ RegisteredIsOpen /\ HealthKnown /\ ConfigInUse /\ ListInUse
=============================================================================
