-------------------------- MODULE MonitorSettings ---------------------------
(***************************************************************************)
(* The settings of the monitors: alerts, and the public status pages.      *)
(***************************************************************************)
EXTENDS Integers, FiniteSets

(***************************************************************************)
(* The page of the alert settings (ui/settings/sections/MonitorSettings    *)
(* .tsx), the monitor store under it and the backend's handler: a draft    *)
(* that follows what is stored until something is typed, saves and test    *)
(* alerts whose answers come when they come, and a secret that is written  *)
(* but never read back.                                                    *)
(***************************************************************************)

CONSTANTS MaxPosted, MaxTyped  \* requests and edits of a behaviour

VARIABLES
    stored,   \* the settings of the backend
    known,    \* those the store last heard of
    draft, dirty, busy, testing,
    post,     \* the requests on their way, there or back
    count,    \* how many were posted, served, delivered (the newest served one)
    typed,    \* the last value typed of each field, and how often
    clean     \* nothing has happened yet that the page gives no guarantee for
alertVars == <<stored, known, draft, dirty, busy, testing, post, count, typed, clean>>

Defaults == [channel |-> "", url |-> "", secret |-> "", after |-> 0]
Filled == [channel |-> "webhook", url |-> "hook", secret |-> "ref", after |-> 5]
Untyped == [channel |-> "untyped", url |-> "untyped", secret |-> "untyped", after |-> -1, n |-> 0]

\* What a field makes of a text: a number is at least 0, and 0 when it is none.
Typable == [channel |-> {"email"}, url |-> {"other"}, secret |-> {"", "new"}, after |-> {-5, 30}]
Entered(field, text) == IF field = "after" /\ text < 0 THEN 0 ELSE text

\* The backend hides a secret it has, and keeps it when it gets none back, or the hidden one.
Mask == "****"
Redact(s) == [s EXCEPT !.secret = IF @ = "" THEN "" ELSE Mask]
BlankErases(in, previous) == [in EXCEPT !.secret = IF @ = Mask THEN previous.secret ELSE @]  \* mutant: a blank secret is stored
Merged(in, previous) == [in EXCEPT !.secret = IF @ \in {"", Mask} THEN previous.secret ELSE @]

Request(kind, body, test) == [id |-> count.posted + 1, kind |-> kind, at |-> "sent", body |-> body, test |-> test, served |-> 0]
Posted(r) == post' = post \cup {r} /\ count' = [count EXCEPT !.posted = @ + 1]
\* The draft follows the store while nothing is typed.
DraftStays == draft' = draft  \* mutant: it is left as it is
Follow == draft' = IF dirty' THEN draft ELSE known'

AlertInit ==
    /\ stored = Filled /\ known = Defaults /\ draft = Defaults
    /\ dirty = FALSE /\ busy = FALSE /\ testing = "" /\ clean = TRUE
    /\ post = {[id |-> 1, kind |-> "load", at |-> "sent", body |-> Defaults, test |-> "", served |-> 0]}
    /\ count = [posted |-> 1, served |-> 0, delivered |-> 0]
    /\ typed = Untyped

\* The page, or the board of the monitors, asks for the settings; it asks again when the backend is back.
LoadSettings ==
    /\ count.posted < MaxPosted /\ Posted(Request("load", Defaults, ""))
    /\ UNCHANGED <<stored, known, draft, dirty, busy, testing, typed, clean>>

\* (What is typed while a save is on its way is thrown away with its answer; a draft that was typed in before it
\* was filled from the backend is saved with the defaults in it.)
Enter(field, text) ==
    /\ typed.n < MaxTyped
    /\ draft' = [draft EXCEPT ![field] = Entered(field, text)]
    /\ dirty' = TRUE
    /\ typed' = [typed EXCEPT ![field] = Entered(field, text), !.n = @ + 1]
    /\ clean' = (clean /\ known # Defaults /\ \A r \in post : r.kind # "save")
    /\ UNCHANGED <<stored, known, busy, testing, post, count>>

Save(test) ==
    /\ dirty /\ count.posted < MaxPosted
    /\ Posted(Request("save", draft, test))
    /\ busy' = TRUE
    /\ UNCHANGED <<stored, known, draft, dirty, testing, typed, clean>>
ClickSave == ~busy /\ Save("")
\* A test saves what is typed first, and is sent whatever came of it.  (Until then it does not show as running.)
SendTest(channel) ==
    /\ count.posted < MaxPosted /\ testing' = channel /\ Posted(Request("test", Defaults, channel))
ClickTest(channel) ==
    /\ testing = "" /\ draft.url # ""
    /\ \/ dirty /\ Save(channel)
       \/ ~dirty /\ SendTest(channel) /\ UNCHANGED <<stored, known, draft, dirty, busy, typed, clean>>

\* The backend answers; the answer, or the request, may get lost on the way.
Serve(r) ==
    LET n == count.served + 1  saved == Merged(r.body, stored) IN
    /\ r.at = "sent"
    /\ count' = [count EXCEPT !.served = n]
    /\ \/ /\ stored' = IF r.kind = "save" THEN saved ELSE stored
          /\ \/ /\ post' = (post \ {r}) \cup {[r EXCEPT !.at = "done", !.served = n, !.body = IF r.kind = "load" THEN Redact(stored) ELSE Redact(saved)]}
                /\ clean' = (clean /\ \A q \in post : q.kind = "save" /\ q.at = "sent" => q.id >= r.id)
             \/ post' = (post \ {r}) \cup {[r EXCEPT !.at = "failed", !.served = n]} /\ clean' = FALSE
       \/ UNCHANGED stored /\ post' = (post \ {r}) \cup {[r EXCEPT !.at = "failed", !.served = n]} /\ clean' = FALSE
    /\ UNCHANGED <<known, draft, dirty, busy, testing, typed>>

\* The answer arrives: what was saved or read is shown, and a test that waited for a save goes out.
Deliver(r) ==
    /\ r.at \in {"done", "failed"}
    /\ r.test # "" /\ r.kind = "save" => count.posted < MaxPosted
    /\ known' = IF r.at = "done" /\ r.kind \in {"load", "save"} THEN r.body ELSE known
    /\ busy' = (busy /\ r.kind # "save")
    /\ dirty' = (dirty /\ ~(r.kind = "save" /\ r.at = "done"))
    /\ Follow
    /\ testing' = IF r.kind = "test" THEN "" ELSE IF r.kind = "save" /\ r.test # "" THEN r.test ELSE testing
    /\ post' = (post \ {r}) \cup IF r.kind = "save" /\ r.test # "" THEN {Request("test", Defaults, r.test)} ELSE {}
    /\ count' = [count EXCEPT !.posted = IF r.kind = "save" /\ r.test # "" THEN @ + 1 ELSE @, !.delivered = IF r.served > @ THEN r.served ELSE @]
    /\ clean' = (clean /\ (r.kind \in {"load", "save"} => r.served > count.delivered))
    /\ UNCHANGED <<stored, typed>>

AlertNext ==
    \/ LoadSettings
    \/ \E field \in DOMAIN Typable : \E text \in Typable[field] : Enter(field, text)
    \/ ClickSave
    \/ ClickTest("webhook")
    \/ \E r \in post : Serve(r) \/ Deliver(r)

-----------------------------------------------------------------------------
\* A stored secret is only ever replaced by one that was typed.
SecretKept == stored.secret \in {"ref", "new"}
\* With nothing on its way and nothing unsaved, the page shows what is stored, and what is stored is what was there
\* with what was typed last: as long as no answer was lost or overtaken, nothing was saved before the page was filled
\* and nothing was typed during a save.
SettingsAgree == (post = {} /\ ~dirty /\ clean) =>
    /\ draft = Redact(stored)
    /\ \A field \in DOMAIN Defaults :
        \/ stored[field] = IF typed[field] = Untyped[field] THEN Filled[field] ELSE typed[field]
        \/ (field = "secret" /\ typed.secret = "")
AlertsSound == SecretKept /\ SettingsAgree

-----------------------------------------------------------------------------
(***************************************************************************)
(* The public status pages of the settings (StatusPagesGroup in            *)
(* MonitorSettings.tsx) and the backend's table of them (monitor/          *)
(* statusboard.go): a page has a token that its link carries, and every    *)
(* change is followed by a reload of the list.                             *)
(***************************************************************************)

CONSTANTS Boards, MaxTokens, MaxWires, MaxClicks  \* pages, tokens ever issued, requests on their way at once, clicks

VARIABLES
    boards,   \* the table: the token of a page (0 when there is none) and whether it shows incidents
    issued,   \* tokens issued so far
    retired,  \* those that were replaced or deleted
    shown,    \* the list of the screen
    wires,    \* requests: on their way there, or back
    version,  \* of the table, for the check: how often it changed, and which of these the list shows
    clicks,
    upset     \* an answer was lost, or overtaken
pageVars == <<boards, issued, retired, shown, wires, version, clicks, upset>>

None == [token |-> 0, incidents |-> FALSE]
Live == {b \in Boards : boards[b].token # 0}
Tokens == {boards[b].token : b \in Live}

PagesInit ==
    /\ boards = [b \in Boards |-> None] /\ issued = 0 /\ retired = {}
    /\ shown = [b \in Boards |-> None]
    /\ wires = {[kind |-> "list", at |-> "sent", id |-> 0, page |-> None, list |-> shown, as |-> 0]}
    /\ version = [table |-> 0, list |-> 0] /\ clicks = 0 /\ upset = FALSE

Wire(kind, id, page) == [kind |-> kind, at |-> "sent", id |-> id, page |-> page, list |-> [b \in Boards |-> None], as |-> 0]
Click(w) ==
    /\ clicks < MaxClicks /\ Cardinality(wires) < MaxWires
    /\ clicks' = clicks + 1 /\ wires' = wires \cup {w}
    /\ UNCHANGED <<boards, issued, retired, shown, version, upset>>
\* The button to add one is off while one is being added.
Add == (\A w \in wires : w.kind # "add") /\ Click(Wire("add", 0, [token |-> 0, incidents |-> TRUE]))
\* The switch sends the page as the list shows it, its token with it.
Toggle(b) == shown[b].token # 0 /\ Click(Wire("save", b, [shown[b] EXCEPT !.incidents = ~@]))
Rotate(b) == shown[b].token # 0 /\ Click(Wire("rotate", b, None))
Delete(b) == shown[b].token # 0 /\ Click(Wire("delete", b, None))

\* What a request does to the table: a new page gets a token, a saved one keeps its own.
TokenFromPage(w) ==  \* mutant: the token is saved as it was sent
    CASE w.kind = "save" -> [boards EXCEPT ![w.id] = w.page]
      [] w.kind = "rotate" -> [boards EXCEPT ![w.id].token = issued + 1]
      [] w.kind = "delete" -> [boards EXCEPT ![w.id] = None]
      [] OTHER -> boards
Changed(w) ==
    CASE w.kind = "save" -> [boards EXCEPT ![w.id].incidents = w.page.incidents]
      [] w.kind = "rotate" -> [boards EXCEPT ![w.id].token = issued + 1]
      [] w.kind = "delete" -> [boards EXCEPT ![w.id] = None]
      [] OTHER -> boards
Found(w) == IF w.kind \in {"list", "add"} THEN TRUE ELSE boards[w.id].token # 0
Table(w) ==
    IF w.kind # "add" THEN boards' = Changed(w)
    ELSE \E b \in Boards \ Live : boards' = [boards EXCEPT ![b] = [w.page EXCEPT !.token = issued + 1]]
ServePage(w) ==
    /\ w.at = "sent"
    /\ \/ /\ Found(w) /\ (w.kind \in {"add", "rotate"} => issued < MaxTokens)
          /\ Table(w)
          /\ issued' = IF w.kind \in {"add", "rotate"} THEN issued + 1 ELSE issued
          /\ retired' = IF w.kind \in {"rotate", "delete"} THEN retired \cup {boards[w.id].token} ELSE retired
          /\ version' = [version EXCEPT !.table = IF w.kind = "list" THEN @ ELSE @ + 1]
          /\ \/ wires' = (wires \ {w}) \cup {[w EXCEPT !.at = "done", !.list = IF w.kind = "list" THEN boards ELSE @, !.as = version.table]} /\ upset' = upset
             \/ wires' = (wires \ {w}) \cup {[w EXCEPT !.at = "failed"]} /\ upset' = TRUE
       \/ /\ wires' = (wires \ {w}) \cup {[w EXCEPT !.at = "failed"]} /\ upset' = TRUE
          /\ UNCHANGED <<boards, issued, retired, version>>
    /\ UNCHANGED <<shown, clicks>>

\* A list is shown as it comes, and an empty one when it does not come; a change that was answered reloads it.
DeliverPage(w) ==
    /\ w.at # "sent"
    /\ shown' = IF w.kind # "list" THEN shown ELSE IF w.at = "done" THEN w.list ELSE [b \in Boards |-> None]
    /\ wires' = (wires \ {w}) \cup IF w.kind # "list" /\ w.at = "done" THEN {Wire("list", 0, None)} ELSE {}
    /\ version' = [version EXCEPT !.list = IF w.kind = "list" /\ w.at = "done" THEN w.as ELSE @]
    /\ upset' = (upset \/ (w.kind = "list" /\ w.as < version.list))
    /\ UNCHANGED <<boards, issued, retired, clicks>>

PagesNext ==
    \/ Add \/ \E b \in Boards : Toggle(b) \/ Rotate(b) \/ Delete(b)
    \/ \E w \in wires : ServePage(w) \/ DeliverPage(w)

-----------------------------------------------------------------------------
\* A link that was replaced or deleted never works again, whatever else was clicked meanwhile; a token opens one page.
LinksEnd == Tokens \cap retired = {} /\ \A b \in Live : \A c \in Live : boards[b].token = boards[c].token => b = c
\* When everything is answered, and no answer was lost or overtaken, the list shows the table.
ListFollows == (wires = {} /\ ~upset) => shown = boards
PagesSound == LinksEnd /\ ListFollows
=============================================================================
