--------------------------- MODULE RunbookEditor ---------------------------
(***************************************************************************)
(* The editor of one runbook (RunbookEditorScreen) and the table of the    *)
(* backend that keeps its draft and its versions.  What is typed is saved  *)
(* as the draft after a pause; Save makes the draft a version.  The        *)
(* handlers work statement by statement, and another account may edit too. *)
(*                                                                         *)
(* A spec is the number of the text it was typed as; 0 is no draft.        *)
(***************************************************************************)
EXTENDS Integers, FiniteSets

CONSTANTS MaxTexts, MaxDeeds, MaxTraffic  \* bounds: texts typed here, what is done, requests under way at once

VARIABLES
    book,     \* the table: the draft and the versions
    tab,      \* the screen: whether it is loaded or shows an error instead, what it was last told, the spec it
              \* shows, the version viewed, whether it saves
    pauses,   \* drafts to be saved when the pause ends, each with the visit of the screen it is of
    traffic,  \* requests under way
    deeds,    \* texts typed, things done, visits of the screen
    notes     \* for the check: whether requests were calm, the other account acted since the screen was loaded, a
              \* draft or a pinned version was lost, a version restored, a save was refused or made of another text, a
              \* version deleted that a save under way had not seen; versions ever saved
editorVars == <<book, tab, pauses, traffic, deeds, notes>>

Version(n, spec) == [n |-> n, spec |-> spec, pinned |-> FALSE]
Numbers(rb) == {v.n : v \in rb.versions}
HasVersions(rb) == rb.versions # {}
Latest(rb) == CHOOSE v \in rb.versions : \A w \in rb.versions : w.n <= v.n
CurrentSpec(rb) == IF rb.draft # 0 THEN rb.draft ELSE IF HasVersions(rb) THEN Latest(rb).spec ELSE 0
NextByCount(rb) == Cardinality(rb.versions) + 1  \* mutant: the versions are counted
NextVersion(rb) == IF HasVersions(rb) THEN Latest(rb).n + 1 ELSE 1
Unsaved == [draft |-> 1, versions |-> {}]
Blank == [loaded |-> FALSE, error |-> FALSE, rb |-> Unsaved, spec |-> 0, viewing |-> 0, saving |-> FALSE]

Request(kind, text, n) == [kind |-> kind, text |-> text, n |-> n, visit |-> deeds.visits, at |-> "sent", saw |-> Unsaved]
EditorInit ==
    /\ book \in {Unsaved, [draft |-> 0, versions |-> {Version(1, 1), Version(2, 1)}]}
    /\ tab = Blank
    /\ pauses = {}
    /\ deeds = [texts |-> 1, done |-> 0, visits |-> 1]
    /\ traffic = {[kind |-> "get", text |-> 0, n |-> 0, visit |-> 1, at |-> "sent", saw |-> Unsaved]}
    /\ notes = [calm |-> TRUE, others |-> FALSE, lost |-> FALSE, unpinned |-> FALSE, restored |-> FALSE, refused |-> FALSE, mixed |-> FALSE,
                crossed |-> FALSE, saved |-> {<<v.n, v.spec>> : v \in book.versions}]

-----------------------------------------------------------------------------
(* The screen.                                                             *)

Differs(spec, rb) == HasVersions(rb) => Latest(rb).spec # spec
Dirty == tab.rb.draft # 0 \/ Differs(tab.spec, tab.rb)
Busy == traffic # {}
Room == Cardinality(traffic) < MaxTraffic
Deed == deeds.done < MaxDeeds /\ tab.loaded
Open == tab.loaded /\ ~tab.error
Did == deeds' = [deeds EXCEPT !.done = @ + 1]
Pending == {t \in pauses : t.visit = deeds.visits}

\* A change of the spec is shown, and starts the pause again.
SetSpec ==
    /\ Open /\ tab.viewing = 0 /\ deeds.texts < MaxTexts
    /\ deeds' = [deeds EXCEPT !.texts = @ + 1]
    /\ tab' = [tab EXCEPT !.spec = deeds.texts + 1]
    /\ pauses' = (pauses \ Pending) \cup {[visit |-> deeds.visits, text |-> deeds.texts + 1]}
    /\ notes' = [notes EXCEPT !.calm = @ /\ \A r \in traffic : r.kind = "draft"]
    /\ UNCHANGED <<book, traffic>>
PauseEnds(t) ==
    /\ Room /\ pauses' = pauses \ {t} /\ traffic' = traffic \cup {[Request("draft", t.text, 0) EXCEPT !.visit = t.visit]}
    /\ notes' = [notes EXCEPT !.calm = @ /\ ~Busy]
    /\ UNCHANGED <<book, tab, deeds>>
Send(r) == Room /\ traffic' = traffic \cup {r} /\ Did /\ UNCHANGED book
\* Save, by its button or by its shortcut that works over a viewed version and an error too, ends the pause, sends
\* the draft, and once that is answered asks for the version.
PauseGoesOn == pauses' = pauses  \* mutant: the pause goes on
PauseDropped == pauses' = pauses \ Pending
Save ==
    /\ Deed /\ Dirty /\ ~tab.saving
    /\ PauseDropped /\ Send(Request("save", tab.spec, 0))
    /\ tab' = [tab EXCEPT !.saving = TRUE]
    /\ notes' = [notes EXCEPT !.calm = @ /\ ~Busy]
\* The list of versions: a version is restored, pinned, unpinned, deleted unless it is the latest or pinned, and the
\* draft is discarded; the pause goes on meanwhile.
Offered(r) ==
    \/ r.kind = "discard" /\ Dirty /\ HasVersions(tab.rb)
    \/ \E v \in tab.rb.versions : /\ v.n = r.n
                                 /\ \/ r.kind = "restore" \/ (r.kind = "pin" /\ ~v.pinned) \/ (r.kind = "unpin" /\ v.pinned)
                                    \/ r.kind = "delete" /\ ~v.pinned /\ v # Latest(tab.rb)
Act(r) ==
    /\ Deed /\ Open /\ Offered(r)
    /\ Send(r) /\ UNCHANGED <<tab, pauses>>
    /\ notes' = [notes EXCEPT !.calm = @ /\ ~Busy /\ Pending = {}]
View(n) ==
    /\ Deed /\ Open /\ n # tab.viewing /\ n \in {0} \cup Numbers(tab.rb)
    /\ tab' = [tab EXCEPT !.viewing = IF HasVersions(tab.rb) /\ n = Latest(tab.rb).n /\ ~Dirty THEN 0 ELSE n]
    /\ Did /\ UNCHANGED <<book, pauses, traffic, notes>>
\* The screen is left and opened again: what is under way goes on, and is no longer shown.
Reopen ==
    /\ deeds.done < MaxDeeds /\ Room /\ deeds.visits < 2
    /\ deeds' = [deeds EXCEPT !.done = @ + 1, !.visits = @ + 1]
    /\ tab' = Blank
    /\ traffic' = traffic \cup {[Request("get", 0, 0) EXCEPT !.visit = deeds.visits + 1]}
    /\ notes' = [notes EXCEPT !.calm = @ /\ ~Busy /\ pauses = {}, !.others = FALSE]
    /\ UNCHANGED <<book, pauses>>

-----------------------------------------------------------------------------
(* The backend.                                                            *)

Next2(r, q) == traffic' = (traffic \ {r}) \cup {q}
At(r, at) == Next2(r, [r EXCEPT !.at = at])
Quiet == UNCHANGED <<tab, pauses, deeds>>
Noted == notes' = notes
\* Requests that write at once, then read what they answer.
SaveDraft(text) == book' = [book EXCEPT !.draft = text]
SetPinned(n, on) == book' = [book EXCEPT !.versions = {IF v.n = n THEN [v EXCEPT !.pinned = on] ELSE v : v \in @}]
Write(r) ==
    /\ r.at = "sent"
    /\ \/ r.kind = "get" /\ book' = book
       \/ r.kind \in {"draft", "save"} /\ SaveDraft(r.text)
       \/ r.kind = "discard" /\ SaveDraft(0)
       \/ r.kind = "pin" /\ SetPinned(r.n, TRUE)
       \/ r.kind = "unpin" /\ SetPinned(r.n, FALSE)
    /\ At(r, "done") /\ Noted /\ Quiet
\* Requests that read first: the version of a draft, a version restored, a version deleted.
Read(r) ==
    /\ r.at = "sent" /\ r.kind \in {"version", "restore", "delete"}
    /\ Next2(r, [r EXCEPT !.at = "read", !.saw = book]) /\ Noted /\ book' = book /\ Quiet
InsertVersion(r) ==
    /\ r.at = "read" /\ r.kind = "version"
    /\ LET n == NextVersion(r.saw) IN
       \/ r.saw.draft = 0 /\ At(r, "done") /\ UNCHANGED <<book, notes>>
       \/ r.saw.draft # 0 /\ n \in Numbers(book) /\ At(r, "failed") /\ notes' = [notes EXCEPT !.refused = TRUE] /\ book' = book
       \/ /\ r.saw.draft # 0 /\ n \notin Numbers(book)
          /\ book' = [book EXCEPT !.versions = @ \cup {Version(n, r.saw.draft)}]
          /\ At(r, "inserted")
          /\ notes' = [notes EXCEPT !.saved = @ \cup {<<n, r.saw.draft>>}, !.mixed = @ \/ r.saw.draft # r.text]
    /\ Quiet
ClearDraft(r) ==
    /\ r.at = "inserted"
    /\ SaveDraft(0) /\ At(r, "done") /\ Quiet
    /\ notes' = [notes EXCEPT !.lost = @ \/ book.draft \notin {0, r.saw.draft}]
RestoreVersion(r) ==
    /\ r.at = "read" /\ r.kind = "restore"
    /\ \/ \E v \in r.saw.versions : v.n = r.n /\ SaveDraft(v.spec) /\ At(r, "done")
       \/ r.n \notin Numbers(r.saw) /\ book' = book /\ At(r, "failed")
    /\ notes' = [notes EXCEPT !.restored = TRUE] /\ Quiet
PinIgnored(r) == HasVersions(r.saw) /\ Latest(r.saw).n = r.n  \* mutant: a pinned version may be deleted
DeleteRefused(r) == \E v \in r.saw.versions : v.n = r.n /\ (v = Latest(r.saw) \/ v.pinned)
Unseen(n) == \E q \in traffic : q.kind = "version" /\ q.at = "read" /\ n >= NextVersion(q.saw)
DeleteVersion(r) ==
    /\ r.at = "read" /\ r.kind = "delete"
    /\ IF DeleteRefused(r) THEN At(r, "failed") /\ UNCHANGED <<book, notes>>
       ELSE /\ book' = [book EXCEPT !.versions = {v \in @ : v.n # r.n}] /\ At(r, "done")
            /\ notes' = [notes EXCEPT !.unpinned = @ \/ \E v \in book.versions : v.n = r.n /\ v.pinned, !.crossed = @ \/ Unseen(r.n)]
    /\ Quiet
Reply(r) == r.at = "done" /\ Next2(r, [r EXCEPT !.at = "back", !.saw = book]) /\ Noted /\ book' = book /\ Quiet
\* A request or its answer is lost.
Lose(r) == r.at \in {"sent", "back"} /\ At(r, "failed") /\ notes' = [notes EXCEPT !.calm = FALSE] /\ book' = book /\ Quiet

\* The other account saves a draft of its own (texts above MaxTexts), makes the draft a version, or pins one.
Other ==
    /\ deeds.done < MaxDeeds
    /\ \/ SaveDraft(MaxTexts + deeds.done + 1) /\ Did
       \/ book.draft # 0 /\ book' = [draft |-> 0, versions |-> book.versions \cup {Version(NextVersion(book), book.draft)}] /\ Did
       \/ \E n \in Numbers(book) : SetPinned(n, TRUE) /\ Did
    /\ notes' = [notes EXCEPT !.others = TRUE, !.calm = @ /\ ~Busy,
                              !.saved = @ \cup {<<v.n, v.spec>> : v \in book'.versions}]
    /\ UNCHANGED <<tab, pauses, traffic>>

-----------------------------------------------------------------------------
(* Answers.                                                                *)

\* What the screen shows after an answer; the first half of a save shows nothing, an automatic one, a pin or a
\* deletion only what is stored.
Shown(r) ==
    \/ r.kind = "get" /\ tab' = [tab EXCEPT !.loaded = TRUE, !.rb = r.saw, !.spec = CurrentSpec(r.saw)]
    \/ r.kind = "version" /\ tab' = [tab EXCEPT !.rb = r.saw, !.spec = IF HasVersions(r.saw) THEN Latest(r.saw).spec ELSE r.text, !.viewing = 0, !.saving = FALSE]
    \/ r.kind = "restore" /\ tab' = [tab EXCEPT !.rb = r.saw, !.spec = IF r.saw.draft # 0 THEN r.saw.draft ELSE r.text, !.viewing = 0]
    \/ r.kind = "discard" /\ tab' = [tab EXCEPT !.rb = r.saw, !.spec = CurrentSpec(r.saw), !.viewing = 0]
    \/ r.kind = "save" /\ tab' = tab
    \/ r.kind \in {"draft", "pin", "unpin", "delete"} /\ tab' = [tab EXCEPT !.rb = r.saw]
Deliver(r) ==
    /\ r.at = "back"
    /\ traffic' = (traffic \ {r}) \cup IF r.kind = "save" THEN {[Request("version", r.text, 0) EXCEPT !.visit = r.visit]} ELSE {}
    /\ IF r.visit = deeds.visits THEN Shown(r) ELSE tab' = tab
    /\ UNCHANGED <<book, pauses, deeds, notes>>
\* A failed save ends; a failed delete, like a failed load, leaves an error in place of the editor.
Fail(r) ==
    /\ r.at = "failed"
    /\ traffic' = traffic \ {r}
    /\ tab' = IF r.visit # deeds.visits THEN tab
              ELSE IF r.kind \in {"save", "version"} THEN [tab EXCEPT !.saving = FALSE]
              ELSE IF r.kind = "delete" THEN [tab EXCEPT !.error = TRUE] ELSE tab
    /\ UNCHANGED <<book, pauses, deeds, notes>>

Asked == {Request(k, tab.spec, n) : k \in {"restore", "pin", "unpin", "delete"}, n \in Numbers(tab.rb)} \cup {Request("discard", tab.spec, 0)}
EditorNext ==
    \/ SetSpec \/ Save \/ Reopen \/ Other
    \/ \E t \in pauses : PauseEnds(t)
    \/ \E r \in Asked : Act(r)
    \/ \E n \in 0..(MaxDeeds + 1) : View(n)
    \/ \E r \in traffic : Write(r) \/ Read(r) \/ InsertVersion(r) \/ ClearDraft(r) \/ RestoreVersion(r) \/ DeleteVersion(r) \/ Reply(r) \/ Lose(r)
                          \/ Deliver(r) \/ Fail(r)

-----------------------------------------------------------------------------
\* Between calm requests, and when the other account did nothing since, the screen shows what is stored; nothing
\* that was shown stays unstored, and what a version holds already is no draft unless it was restored.
Settled == Open /\ traffic = {} /\ pauses = {} /\ notes.calm /\ ~notes.others
ShowsStored ==
    Settled =>
    /\ tab.rb = book
    /\ tab.spec = CurrentSpec(book) /\ ~tab.saving /\ (Dirty => book.draft # 0)
    /\ book.draft # 0 => Differs(book.draft, book) \/ notes.restored
\* A version keeps its spec for ever, and its number, but for one that was deleted while an older save was between
\* its statements; the newest of all stays.
VersionsKept ==
    /\ \A v \in book.versions : <<v.n, v.spec>> \in notes.saved
    /\ ~notes.crossed => \A p \in notes.saved : \A q \in notes.saved : p[1] = q[1] => p = q
    /\ notes.saved # {} => HasVersions(book) /\ \A p \in notes.saved : p[1] <= Latest(book).n
\* Calm requests lose no draft and no pinned version, refuse no save, and save the text that was shown.
NothingDropped == notes.calm => ~notes.lost /\ ~notes.unpinned /\ ~notes.refused /\ ~notes.mixed
EditorSound == ShowsStored /\ VersionsKept /\ NothingDropped
=============================================================================
