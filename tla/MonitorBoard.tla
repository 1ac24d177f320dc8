--------------------------- MODULE MonitorBoard ---------------------------
(***************************************************************************)
(* The board of the monitors (stores/monitorStore.ts, MonitorsScreen.tsx): *)
(* a list polled while the screen is open, refreshed as well by every      *)
(* alert and every action, and the panes of the selected monitor.  Each    *)
(* load is a request of its own whose answer is written when it arrives,   *)
(* whatever the board has become; a read is answered with what the backend *)
(* held when it was asked.  The backend is the rows its console sees.      *)
(***************************************************************************)
EXTENDS Naturals, Sequences, FiniteSets

CONSTANTS
    Ids,       \* monitor ids
    Ranges,    \* ranges of the chart
    MaxCalls,  \* bound: requests in flight
    MaxTurns,  \* bound: transitions of monitors
    MaxActs    \* bound: what the user does

VARIABLES
    rows,      \* id: the backend's row
    timer,     \* whether the store has its timers
    feeds,     \* timers and streams running
    alerts,    \* events on the stream, oldest first
    list,      \* the monitors the board shows: a partial function of Ids
    seen,      \* seenChange: the last transition seen of each
    selected,  \* the selected id, or Nothing
    range,     \* seriesRange
    panes,     \* pane: whose it says it is, whose data it holds, and of which range
    dialog,    \* the monitor being edited, New, or Nothing
    asked,     \* requests in flight, oldest first
    toasts,    \* the outages announced, in order
    turns, acts,
    met,       \* history: the transition each monitor was first seen with, or that was found while it was muted
    shuffled   \* history: whether an answer was lost or overtook an older one

boardVars == <<rows, timer, feeds, alerts, list, seen, selected, range, panes, dialog, asked, toasts, turns, acts, met, shuffled>>

Nothing == 0
New == 99
Panes == {"samples", "incidents", "series"}
Empty == [for |-> Nothing, of |-> Nothing, range |-> ""]
None == [m \in {} |-> m]
\* An id is given once: a row that was removed is not made again.
Unborn == [here |-> FALSE, status |-> "none", change |-> 0, enabled |-> FALSE, muted |-> FALSE]
Over(new, old) == [m \in DOMAIN new \cup DOMAIN old |-> IF m \in DOMAIN new THEN new[m] ELSE old[m]]
Listed == {m \in Ids : rows[m].here}

BoardInit ==
    /\ \E first \in SUBSET Ids : rows = [m \in Ids |-> IF m \in first THEN [here |-> TRUE, status |-> "up", change |-> 1, enabled |-> TRUE, muted |-> FALSE] ELSE Unborn]
    /\ timer = FALSE /\ feeds = 0 /\ alerts = <<>> /\ list = None /\ seen = None /\ selected = Nothing
    /\ range = "24h" /\ panes = [w \in Panes |-> Empty] /\ dialog = Nothing /\ asked = <<>> /\ toasts = <<>>
    /\ turns = 1 /\ acts = 0 /\ met = None /\ shuffled = FALSE

-----------------------------------------------------------------------------
(* Requests.                                                               *)

\* What the backend holds now, and what it answers; "next" is loaded for a monitor once a list is in.
Snapshot == [m \in Listed |-> rows[m]]
AskList(next) == [kind |-> "list", id |-> Nothing, range |-> "", next |-> next, answer |-> Snapshot]
AskPane(w, m, r) == [kind |-> w, id |-> m, range |-> IF w = "series" THEN r ELSE "", next |-> Nothing, answer |-> None]
AskFeeds(m, r) == <<AskPane("samples", m, r), AskPane("incidents", m, r)>>
AskPanes(m, r) == Append(AskFeeds(m, r), AskPane("series", m, r))
AskChange(kind, m) == [kind |-> kind, id |-> m, range |-> "", next |-> Nothing, answer |-> None]
Sent(calls) == asked \o calls
Without(k) == SubSeq(asked, 1, k - 1) \o SubSeq(asked, k + 1, Len(asked))
\* An answer overtakes an older request of its kind.
Overtakes(k) == \E i \in 1..(k - 1) : asked[i].kind = asked[k].kind
Room == Len(asked) < MaxCalls

-----------------------------------------------------------------------------
(* The backend.                                                            *)

\* A transition; its event reaches the stream of an open board unless the subscriber is slow.
Turned(m, status) ==
    /\ rows' = [rows EXCEPT ![m].status = status, ![m].change = turns + 1]
    /\ turns' = turns + 1
Turn(m) ==
    /\ turns < MaxTurns /\ rows[m].here /\ rows[m].enabled
    /\ Turned(m, IF rows[m].status = "down" THEN "up" ELSE "down")
    /\ alerts' \in {alerts} \cup IF feeds > 0 /\ rows[m].status # "unknown" /\ ~rows[m].muted THEN {Append(alerts, [id |-> m, change |-> turns + 1, down |-> rows'[m].status = "down"])} ELSE {}
    /\ UNCHANGED <<timer, feeds, list, seen, selected, range, panes, dialog, asked, toasts, acts, met, shuffled>>

-----------------------------------------------------------------------------
(* The store.                                                              *)

AlwaysStarts == feeds' = feeds + 1  \* mutant: a board that polls starts polling again
Starts == feeds' = feeds + IF timer THEN 0 ELSE 1
\* The screen is shown, or the backend answers again: startPolling; it is left, or the backend is gone.
StartPolling ==
    /\ Room /\ acts < MaxActs
    /\ acts' = acts + 1
    /\ timer' = TRUE /\ Starts
    /\ asked' = IF timer THEN asked ELSE Sent(<<AskList(Nothing)>>)
    /\ UNCHANGED <<rows, alerts, list, seen, selected, range, panes, dialog, toasts, turns, met, shuffled>>
StopPolling ==
    /\ timer /\ acts < MaxActs
    /\ acts' = acts + 1
    /\ timer' = FALSE /\ feeds' = feeds - 1 /\ alerts' = <<>> /\ dialog' = Nothing
    /\ UNCHANGED <<rows, list, seen, selected, range, panes, asked, toasts, turns, met, shuffled>>
Poll ==
    /\ timer /\ asked = <<>>
    /\ list # Snapshot
    /\ asked' = Sent(<<AskList(Nothing)>>)
    /\ UNCHANGED <<rows, timer, feeds, alerts, list, seen, selected, range, panes, dialog, toasts, turns, acts, met, shuffled>>
Outage(m, c, how) == [id |-> m, change |-> c, by |-> how]
Alert ==
    /\ alerts # <<>> /\ Room
    /\ LET a == Head(alerts) IN toasts' = IF a.down THEN Append(toasts, Outage(a.id, a.change, "stream")) ELSE toasts
    /\ alerts' = Tail(alerts)
    /\ asked' = Sent(<<AskList(Nothing)>>)
    /\ UNCHANGED <<rows, timer, feeds, list, seen, selected, range, panes, dialog, turns, acts, met, shuffled>>

\* announce: one toast per transition seen of a monitor that was known, none for one that is muted.
NewsUnseen(next) == {m \in DOMAIN next : m \in DOMAIN seen /\ next[m].status = "down" /\ ~next[m].muted}  \* mutant: told again at every poll
News(next) == {m \in DOMAIN next : m \in DOMAIN seen /\ next[m].change > seen[m] /\ next[m].status = "down" /\ ~next[m].muted}
Nth(ms, k) == CHOOSE m \in ms : Cardinality({o \in ms : o < m}) = k - 1
Announced(next) == [k \in 1..Cardinality(News(next)) |-> LET m == Nth(News(next), k) IN Outage(m, next[m].change, "poll")]
ListAnswer(k) ==
    LET c == asked[k]  next == c.answer IN
    /\ c.kind = "list"
    /\ toasts' = toasts \o Announced(next)
    /\ seen' = Over([m \in DOMAIN next |-> next[m].change], seen)
    /\ met' = Over([m \in DOMAIN next |-> IF m \in DOMAIN seen /\ (~next[m].muted \/ next[m].change <= seen[m]) THEN met[m] ELSE next[m].change], met)
    /\ list' = next
    /\ asked' = Without(k) \o (IF selected \in DOMAIN next THEN AskFeeds(selected, range) ELSE <<>>)
                           \o (IF c.next # Nothing THEN AskPanes(c.next, range) ELSE <<>>)
    /\ shuffled' = (shuffled \/ Overtakes(k))
    /\ UNCHANGED <<rows, timer, feeds, alerts, selected, range, panes, dialog, turns, acts>>
SelectedFor(c) == selected  \* mutant: an answer is taken to be for the monitor selected now
For(c) == c.id
PaneAnswer(k) ==
    LET c == asked[k] IN
    /\ c.kind \in Panes
    /\ panes' = [panes EXCEPT ![c.kind] = [for |-> For(c), of |-> c.id, range |-> c.range]]
    /\ asked' = Without(k)
    /\ shuffled' = (shuffled \/ Overtakes(k))
    /\ UNCHANGED <<rows, timer, feeds, alerts, list, seen, selected, range, dialog, toasts, turns, acts, met>>
\* A load fails: what is there stays.
LoadFails(k) ==
    /\ asked[k].kind \in Panes \cup {"list"}
    /\ asked' = Without(k) \o IF asked[k].next # Nothing THEN AskPanes(asked[k].next, range) ELSE <<>>
    /\ shuffled' = TRUE
    /\ UNCHANGED <<rows, timer, feeds, alerts, list, seen, selected, range, panes, dialog, toasts, turns, acts, met>>

\* An action is done by the backend and its list loaded; one on a row that is gone is refused and nothing is loaded.
Changed(c) ==
    CASE c.kind = "remove" -> [rows EXCEPT ![c.id].here = FALSE]
      [] c.kind \in {"pause", "resume"} -> [rows EXCEPT ![c.id].enabled = c.kind = "resume", ![c.id].status = IF c.kind = "resume" THEN "unknown" ELSE "paused"]
      [] c.kind \in {"mute", "unmute"} -> [rows EXCEPT ![c.id].muted = c.kind = "mute"]
      [] c.kind = "save" -> [rows EXCEPT ![c.id].enabled = FALSE]
      [] c.kind = "create" -> [rows EXCEPT ![c.id] = [here |-> TRUE, status |-> "unknown", change |-> 0, enabled |-> TRUE, muted |-> FALSE]]
      [] OTHER -> rows
ChangeDone(k) ==
    LET c == asked[k]  gone == c.kind = "remove" IN
    /\ c.kind \in {"remove", "pause", "resume", "mute", "unmute", "save", "create", "check"}
    /\ c.kind = "create" \/ rows[c.id].here
    /\ rows' = Changed(c)
    /\ seen' = IF gone THEN [m \in DOMAIN seen \ {c.id} |-> seen[m]] ELSE seen
    /\ met' = IF gone THEN [m \in DOMAIN met \ {c.id} |-> met[m]] ELSE met
    /\ selected' = IF gone /\ selected = c.id THEN Nothing ELSE selected
    /\ panes' = IF gone /\ selected = c.id THEN [panes EXCEPT !["samples"] = Empty] ELSE panes
    /\ dialog' = IF c.kind \in {"save", "create"} THEN Nothing ELSE dialog
    /\ asked' = Append(Without(k), [AskList(IF c.kind = "check" THEN c.id ELSE Nothing) EXCEPT !.answer = [m \in {m \in Ids : rows'[m].here} |-> rows'[m]]])
    /\ UNCHANGED <<timer, feeds, alerts, list, range, toasts, turns, acts, shuffled>>
ChangeRefused(k) ==
    /\ asked[k].kind \notin Panes \cup {"list", "create"} /\ ~rows[asked[k].id].here
    /\ asked' = Without(k)
    /\ UNCHANGED <<rows, timer, feeds, alerts, list, seen, selected, range, panes, dialog, toasts, turns, acts, met, shuffled>>

-----------------------------------------------------------------------------
(* The user.                                                               *)

Acts == acts < MaxActs /\ acts' = acts + 1
\* A row of the list: selected, or no longer.  A pane of another monitor is emptied, its label is not.
Clickable == DOMAIN list \cup {Nothing}
Select(id) ==
    /\ Acts /\ Room /\ id \in Clickable /\ id # selected
    /\ selected' = id
    /\ panes' = [w \in Panes |-> IF panes[w].for = id THEN panes[w] ELSE [panes[w] EXCEPT !.of = Nothing, !.range = ""]]
    /\ asked' = IF id = Nothing THEN asked ELSE Sent(AskPanes(id, range))
    /\ UNCHANGED <<rows, timer, feeds, alerts, list, seen, range, dialog, toasts, turns, met, shuffled>>
LabelOnly(r) == asked  \* mutant: the chart is not loaded again
Reloaded(r) == IF selected = Nothing THEN asked ELSE Sent(<<AskPane("series", selected, r)>>)
SetSeriesRange(r) ==
    /\ Acts /\ Room /\ r # range
    /\ range' = r
    /\ asked' = Reloaded(r)
    /\ UNCHANGED <<rows, timer, feeds, alerts, list, seen, selected, panes, dialog, toasts, turns, met, shuffled>>
\* The buttons of the monitor shown: they do the opposite of what the list says of it.
Shown == selected \in DOMAIN list
Press(kind) ==
    /\ Acts /\ Room /\ timer /\ Shown
    /\ CASE kind = "pause" -> list[selected].enabled
         [] kind = "resume" -> ~list[selected].enabled
         [] kind = "mute" -> ~list[selected].muted
         [] kind = "unmute" -> list[selected].muted
         [] OTHER -> TRUE
    /\ asked' = Sent(<<AskChange(kind, selected)>>)
    /\ UNCHANGED <<rows, timer, feeds, alerts, list, seen, selected, range, panes, dialog, toasts, turns, met, shuffled>>
Edit(what) ==
    /\ Acts /\ timer /\ dialog = Nothing
    /\ what = New \/ (Shown /\ what = selected)
    /\ dialog' = what
    /\ UNCHANGED <<rows, timer, feeds, alerts, list, seen, selected, range, panes, asked, toasts, turns, met, shuffled>>
\* The dialog sends the monitor it was opened on, once at a time.
Submit ==
    /\ Acts /\ Room /\ dialog # Nothing /\ ~\E k \in DOMAIN asked : asked[k].kind \in {"save", "create"}
    /\ IF dialog = New THEN \E m \in Ids : rows[m] = Unborn /\ asked' = Sent(<<AskChange("create", m)>>)
                         ELSE asked' = Sent(<<AskChange("save", dialog)>>)
    /\ UNCHANGED <<rows, timer, feeds, alerts, list, seen, selected, range, panes, dialog, toasts, turns, met, shuffled>>

BoardNext ==
    \/ StartPolling \/ StopPolling \/ Poll \/ Alert \/ Submit
    \/ \E m \in Ids : Turn(m) \/ Edit(m) \/ Select(m)
    \/ Select(Nothing) \/ Edit(New)
    \/ \E r \in Ranges : SetSeriesRange(r)
    \/ \E kind \in {"remove", "pause", "resume", "mute", "unmute", "check"} : Press(kind)
    \/ \E k \in DOMAIN asked : ListAnswer(k) \/ PaneAnswer(k) \/ LoadFails(k) \/ ChangeDone(k) \/ ChangeRefused(k)

\* A pane is drawn when it says it is of the monitor shown.
Drawn(w) == IF selected # Nothing /\ panes[w].for = selected THEN panes[w].of ELSE Nothing

-----------------------------------------------------------------------------
\* Whatever the order of the answers, what is drawn of the monitor shown is its own data.
PaneOwn == \A w \in Panes : Drawn(w) \in {Nothing, selected}
\* Answered in order, the chart of the selected monitor is of the range its buttons show, once it is loaded.
RangeShown == (~shuffled /\ Drawn("series") # Nothing /\ ~\E k \in DOMAIN asked : asked[k].kind = "series") => panes["series"].range = range
\* An outage that began after the board first saw its monitor is announced by the poll that finds it, once; one
\* that is older, over by then, or found while its monitor is muted is not, and unmuting does not announce it.
OutagesTold == ~shuffled =>
    /\ \A i, j \in DOMAIN toasts : (i < j /\ toasts[i].by = "poll" /\ toasts[j].by = "poll") =>
         <<toasts[i].id, toasts[i].change>> # <<toasts[j].id, toasts[j].change>>
    /\ \A m \in DOMAIN list \cap DOMAIN met : (list[m].status = "down" /\ list[m].change > met[m] /\ ~list[m].muted /\ m \in DOMAIN seen /\ seen[m] = list[m].change) =>
         \E i \in DOMAIN toasts : toasts[i].id = m /\ toasts[i].change = list[m].change
\* A board that polls has one set of timers and one stream, and a board that was left has none.
OneFeed == feeds = IF timer THEN 1 ELSE 0
BoardSound == PaneOwn /\ RangeShown /\ OutagesTold /\ OneFeed
=============================================================================
