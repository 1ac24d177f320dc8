------------------------------ MODULE FormFlow ------------------------------
(***************************************************************************)
(* The form designer: its screen, which opens the form its address names   *)
(* and saves it, the rows of the sidebar, and the repository of forms      *)
(* (schemaRepository.ts), an index and one entry per form on this device,  *)
(* or a table of the backend that is shared with other accounts.           *)
(*                                                                         *)
(* A schema with its values is the form it was loaded from (Made when it   *)
(* was parsed here) and a stamp that every edit renews.                    *)
(***************************************************************************)
EXTENDS Integers, SequencesExt

CONSTANTS Stored, Fresh, MaxMoves  \* forms there are, ids of new ones, bound: what the user does

VARIABLES
    place,    \* where forms are kept: "old" layout or "local", or a backend where form 2 is shared for "edit" or "read"
    url,      \* the form the address names (Made: a new one) and whether it is edited or filled
    editor,   \* what the screen shows, and whether it offers to share it
    gets,     \* loads and lists under way; an effect that is gone no longer takes them
    puts,     \* saves, deletes and the migration under way
    forms,    \* the names and the entries of the old layout, the index, and the entries
    tally     \* moves made; for the check: whether calls overlapped, a load found nothing, a save was made
              \* before the form was there, and the forms whose call was cut off
flowVars == <<place, url, editor, gets, puts, forms, tally>>

Made == 0
Forms == Stored \cup Fresh
Doc(from, stamp) == [from |-> from, stamp |-> stamp]
NoDoc == Doc(-1, 0)
Multi == place \in {"edit", "read"}
Owned(i) == place \notin {"edit", "read"} \/ i # 2
Blank == [doc |-> NoDoc, share |-> FALSE]
Migration == [kind |-> "migrate", id |-> 0, doc |-> NoDoc, from |-> 0, at |-> "sent", index |-> <<>>, names |-> <<>>]

FlowInit ==
    /\ place \in {"old", "local", "edit", "read"}
    /\ url = [id |-> Made, edit |-> TRUE] /\ editor = Blank /\ gets = {}
    /\ puts = IF place = "old" THEN {Migration} ELSE {}
    /\ forms = [names |-> IF place = "old" THEN SetToSeq(Stored) ELSE <<>>, old |-> IF place = "old" THEN Stored ELSE {},
                index |-> IF place = "old" THEN <<>> ELSE SetToSeq(Stored),
                entry |-> [i \in Forms |-> IF place # "old" /\ i \in Stored THEN Doc(i, 0) ELSE NoDoc]]
    /\ tally = [moves |-> 0, stamp |-> 0, raced |-> FALSE, missed |-> FALSE, blind |-> FALSE, cut |-> {}]

-----------------------------------------------------------------------------
(* The address.                                                            *)

Get(kind, i) == [kind |-> kind, id |-> i, live |-> TRUE, at |-> "sent", doc |-> NoDoc, mine |-> FALSE]
\* When the address names another form what was under way is cancelled; a new form starts empty, any other keeps
\* what is shown until its own comes.
KeepsOld == editor' = editor /\ gets' = {[g EXCEPT !.live = FALSE] : g \in gets}  \* mutant: a new form keeps what is shown
OfNew == /\ editor' = Blank  \* the effect without an id
         /\ gets' = {[g EXCEPT !.live = FALSE] : g \in gets}
OfForm(i) == /\ editor' = editor
             /\ gets' = {[g EXCEPT !.live = FALSE] : g \in gets} \cup {Get("load", i)} \cup IF Multi THEN {Get("list", i)} ELSE {}
Effect(i) == IF i = Made THEN OfNew ELSE OfForm(i)
Navigate(i, edit) ==
    /\ url' = [id |-> i, edit |-> edit]
    /\ IF i = url.id THEN UNCHANGED <<editor, gets>> ELSE Effect(i)

\* A row of the sidebar, its pencil, or the entry for a new form.
Go(i, edit) ==
    /\ i = Made => edit
    /\ i # Made => i \in Range(forms.index)
    /\ [id |-> i, edit |-> edit] # url
    /\ tally.moves < MaxMoves
    /\ Navigate(i, edit)
    /\ tally' = [tally EXCEPT !.moves = @ + 1, !.missed = @ /\ i = url.id]
    /\ UNCHANGED <<place, puts, forms>>

\* A load reads the entry, a list tells whether the form is the account's own; the backend may not answer.
Fetch(g) ==
    /\ g.at = "sent"
    /\ \/ /\ gets' = (gets \ {g}) \cup {[g EXCEPT !.at = "got", !.doc = forms.entry[g.id],
                                                 !.mine = g.id \in Range(forms.index) /\ Owned(g.id)]}
          /\ tally' = tally
       \/ Multi /\ gets' = gets \ {g} /\ tally' = [tally EXCEPT !.missed = @ \/ g.live]
    /\ UNCHANGED <<place, url, editor, puts, forms>>
Ignored(g) == FALSE  \* mutant: a cancelled effect takes its answer too
Cancelled(g) == ~g.live
Deliver(g) ==
    /\ g.at = "got"
    /\ gets' = gets \ {g}
    /\ editor' = IF Cancelled(g) THEN editor
                 ELSE IF g.kind = "list" THEN [editor EXCEPT !.share = g.mine]
                 ELSE IF g.doc = NoDoc THEN editor ELSE [editor EXCEPT !.doc = Doc(g.id, g.doc.stamp)]
    /\ tally' = [tally EXCEPT !.missed = @ \/ (g.live /\ g.kind = "load" /\ g.doc = NoDoc)]
    /\ UNCHANGED <<place, url, puts, forms>>

-----------------------------------------------------------------------------
(* The designer.                                                           *)

Shows(doc) == editor' = [editor EXCEPT !.doc = doc] /\ UNCHANGED <<place, url, gets, puts, forms>>
NewStamp == tally' = [tally EXCEPT !.moves = @ + 1, !.stamp = @ + 1]
HandleParse == url.edit /\ tally.moves < MaxMoves /\ NewStamp /\ \E doc \in {NoDoc, Doc(Made, tally.stamp + 1)} : Shows(doc)
\* A field retyped, or a value entered.
Change == editor.doc # NoDoc /\ tally.moves < MaxMoves /\ NewStamp /\ Shows([editor.doc EXCEPT !.stamp = tally.stamp + 1])

Unused == {i \in Fresh : forms.entry[i] = NoDoc /\ i \notin Range(forms.index) \cup tally.cut /\ \A p \in puts : p.id # i}
Put(kind, i, doc) == [kind |-> kind, id |-> i, doc |-> doc, from |-> url.id, at |-> "sent", index |-> <<>>, names |-> <<>>]
Send(p) == puts' = puts \cup {p} /\ UNCHANGED <<place, url, editor, gets, forms>>
Overlap == puts # {} /\ ~Multi
\* The form the address names is saved with what the screen shows, or a new one.
HandleSaveTemplate ==
    /\ url.edit /\ editor.doc # NoDoc /\ tally.moves < MaxMoves
    /\ \E i \in IF url.id = Made THEN Unused ELSE {url.id} : Send(Put("save", i, editor.doc))
    /\ tally' = [tally EXCEPT !.moves = @ + 1, !.raced = @ \/ Overlap,
                              !.blind = @ \/ tally.missed \/ \E g \in gets : g.live /\ g.kind = "load"]
ConfirmDelete(i) ==
    /\ i \in Range(forms.index) /\ Owned(i) /\ tally.moves < MaxMoves
    /\ Send(Put("delete", i, NoDoc))
    /\ tally' = [tally EXCEPT !.moves = @ + 1, !.raced = @ \/ Overlap]

-----------------------------------------------------------------------------
(* The repository.                                                         *)

Without(index, i) == SelectSeq(index, LAMBDA j : j # i)
Twice(index, i) == Append(index, i)  \* mutant: a form that is listed is listed again
With(index, i) == IF i \in Range(index) THEN index ELSE Append(index, i)
Under == UNION {IF p.kind = "migrate" THEN Stored ELSE {p.id} : p \in puts}
Becomes(p, q) == puts' = (puts \ {p}) \cup {q}
Same == UNCHANGED <<place, url, editor, gets, tally>>

\* On this device: the index is read, written, and then the entry.
LocalPut(p) ==
    /\ ~Multi /\ p.kind # "migrate"
    /\ CASE p.at = "sent" -> Becomes(p, [p EXCEPT !.at = "index", !.index = forms.index]) /\ forms' = forms
         [] p.at = "index" -> /\ Becomes(p, [p EXCEPT !.at = "entry"])
                              /\ forms' = [forms EXCEPT !.index = IF p.kind = "save" THEN With(p.index, p.id) ELSE Without(p.index, p.id)]
         [] p.at = "entry" -> Becomes(p, [p EXCEPT !.at = "done"]) /\ forms' = [forms EXCEPT !.entry[p.id] = p.doc]
         [] OTHER -> FALSE
    /\ Same
\* The old layout: entry after entry that is still there is moved (at once, here), then the index is written, then the old names go.
Migrate(p) ==
    /\ p.kind = "migrate"
    /\ CASE p.at = "sent" -> Becomes(p, [p EXCEPT !.at = "move", !.index = forms.index, !.names = forms.names]) /\ forms' = forms
         [] p.at = "move" /\ p.names # <<>> ->
              /\ Becomes(p, [p EXCEPT !.index = IF Head(p.names) \in forms.old THEN Append(@, Head(p.names)) ELSE @, !.names = Tail(@)])
              /\ forms' = IF Head(p.names) \in forms.old THEN [forms EXCEPT !.entry[Head(p.names)] = Doc(Head(p.names), 0), !.old = @ \ {Head(p.names)}] ELSE forms
         [] p.at = "move" /\ p.names = <<>> -> Becomes(p, [p EXCEPT !.at = "names"]) /\ forms' = [forms EXCEPT !.index = p.index]
         [] OTHER -> puts' = puts \ {p} /\ forms' = [forms EXCEPT !.names = <<>>]
    /\ Same
\* The backend takes a save of an owner or of an account it is shared with for editing, and a delete of an owner.
Allowed(p) == Owned(p.id) \/ (p.kind = "save" /\ place = "edit")
BackendPut(p) ==
    /\ Multi /\ p.at = "sent"
    /\ \/ /\ Allowed(p)
          /\ forms' = [forms EXCEPT !.entry[p.id] = p.doc, !.index = IF p.kind = "save" THEN With(@, p.id) ELSE Without(@, p.id)]
          /\ Becomes(p, [p EXCEPT !.at = "done"]) \/ puts' = puts \ {p}
       \/ forms' = forms /\ puts' = puts \ {p}
    /\ Same
\* A save that ended opens what it saved; a delete of the form that was open then leaves for a new one.
Done(p) ==
    /\ p.at = "done"
    /\ puts' = puts \ {p}
    /\ IF p.kind = "save" THEN Navigate(p.id, TRUE)
       ELSE IF p.from = p.id THEN Navigate(Made, TRUE) ELSE UNCHANGED <<url, editor, gets>>
    /\ tally' = [tally EXCEPT !.missed = @ /\ url'.id = url.id]
    /\ UNCHANGED <<place, forms>>

\* The application is closed amid a call and opened again, at a new form.
Restart ==
    /\ ~Multi /\ puts # {} /\ tally.moves < MaxMoves
    /\ url' = [id |-> Made, edit |-> TRUE] /\ editor' = Blank /\ gets' = {}
    /\ puts' = IF forms.names # <<>> THEN {Migration} ELSE {}
    /\ tally' = [tally EXCEPT !.moves = @ + 1, !.missed = FALSE, !.cut = @ \cup Under]
    /\ UNCHANGED <<place, forms>>

FlowNext ==
    \/ \E i \in Forms \cup {Made}, edit \in BOOLEAN : Go(i, edit)
    \/ \E g \in gets : Fetch(g) \/ Deliver(g)
    \/ HandleParse \/ Change \/ HandleSaveTemplate \/ \E i \in Forms : ConfirmDelete(i)
    \/ \E p \in puts : LocalPut(p) \/ Migrate(p) \/ BackendPut(p) \/ Done(p)
    \/ Restart

-----------------------------------------------------------------------------
\* The schema shown is the one of the form the address names, or was made here, unless that form is on its way or
\* did not come; the offer to share it is made to its owner, with the same exception.
Coming(kind) == \E g \in gets : g.live /\ g.kind = kind /\ g.id = url.id
PageOwn ==
    /\ editor.doc.from \in {-1, Made, url.id} \/ Coming("load") \/ tally.missed
    /\ (editor.share /\ url.id # Made) => Owned(url.id) \/ Coming("list") \/ tally.missed
\* No form is written over with the schema of another, unless it was saved before it was shown.
OwnSchema == ~tally.blind => \A i \in Forms : forms.entry[i].from \in {-1, Made, i}
\* Calls that do not overlap leave each form listed once with its entry, but for one whose call is under way or was
\* cut off; a form of the old layout is moved or still there, but for one cut off.
InSync ==
    /\ ~tally.raced => /\ IsInjective(forms.index)
                       /\ \A i \in Forms \ (Under \cup tally.cut) : i \in Range(forms.index) <=> forms.entry[i] # NoDoc
    /\ \A i \in forms.old : Under # {} \/ i \in tally.cut
FlowSound == PageOwn /\ OwnSchema /\ InSync
=============================================================================
