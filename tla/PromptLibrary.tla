--------------------------- MODULE PromptLibrary ---------------------------
(***************************************************************************)
(* The prompt library: its store, the screens that edit it and the         *)
(* repository that keeps it as an index and one entry per prompt.          *)
(*                                                                         *)
(* A list of messages is a member of Lists ("" is no draft); two lists are *)
(* equal when messagesEqual says so.  The label of a prompt stands for its *)
(* name, tags and variables.  A call of the repository advances one await  *)
(* at a time; in the browser the calls of one event take turns and end     *)
(* before the next event.                                                  *)
(***************************************************************************)
EXTENDS Naturals, SequencesExt

CONSTANTS
    PromptIds,    \* the prompts that may be made (numbers)
    FolderIds,    \* the folders that may be made
    FolderNames,  \* the names they may have
    Lists,        \* lists of messages
    Labels,       \* labels given to a prompt
    TemplateIds,  \* the templates that may be made
    MaxVersions,  \* bound: the highest version number
    Killed,       \* whether the page may be closed amid a call
    MaxOps        \* bound: operations of the user

VARIABLES
    prompts,    \* the prompts, oldest first
    folders,    \* the name of each folder, "" when there is none
    templates,  \* the user's templates
    selected,   \* the prompt shown, 0 when none is
    viewing,    \* the version shown, 0 for the current messages
    compare,    \* the versions ticked for comparison
    timers,     \* the prompts an autosave is due for
    disk,       \* what is stored: the index, the entries, the templates
    calls,      \* the calls of the repository under way, in turn
    raced,      \* an index or a list of templates was written over a newer one
    given,      \* the version numbers given to each prompt, in order
    ops         \* operations of the user

libraryVars == <<prompts, folders, templates, selected, viewing, compare, timers, disk, calls, raced, given, ops>>

Nothing == [id |-> 0, label |-> "", folder |-> "", order |-> 0, versions |-> <<>>, draft |-> ""]

Init ==
    /\ prompts = <<>>
    /\ folders = [f \in FolderIds |-> ""]
    /\ templates = <<>>
    /\ selected = 0 /\ viewing = 0 /\ compare = <<>>
    /\ timers = {}
    /\ disk = [folders |-> folders, ids |-> <<>>, entry |-> [i \in PromptIds |-> Nothing], templates |-> <<>>]
    /\ calls = <<>> /\ raced = FALSE
    /\ given = [i \in PromptIds |-> <<>>]
    /\ ops = 0

-----------------------------------------------------------------------------
(* A prompt.                                                               *)

Version(n, messages) == [version |-> n, messages |-> messages, pinned |-> FALSE]
NewestOf(p) == Max({v.version : v \in Range(p.versions)} \cup {0})
LatestVersion(p) == CHOOSE v \in Range(p.versions) : v.version = NewestOf(p)
CurrentMessages(p) == IF p.draft # "" THEN p.draft ELSE LatestVersion(p).messages
NextVersionNumber(p) == NewestOf(p) + 1
\* A draft that says what the latest version says is none.
Drafted(p, messages) == IF p.versions # <<>> /\ LatestVersion(p).messages = messages THEN "" ELSE messages

Shelved == {p.id : p \in Range(prompts)}
Prompt(i) == CHOOSE p \in Range(prompts) : p.id = i
Patched(i, p) == [k \in DOMAIN prompts |-> IF prompts[k].id = i THEN p ELSE prompts[k]]
SomeFolder == {""} \cup {f \in FolderIds : folders[f] # ""}
Unused == PromptIds \ {i \in PromptIds : given[i] # <<>> \/ i \in Shelved \/ disk.entry[i] # Nothing}

\* What the repository would load.
Loaded(d) == SelectSeq([k \in DOMAIN d.ids |-> d.entry[d.ids[k]]], LAMBDA p : p # Nothing)

Call(op, p, f, how) ==
    [op |-> op, prompt |-> p, folder |-> f, how |-> how, at |-> "read", seen |-> disk, left |-> <<>>, kept |-> <<>>]
SavePrompt(p) == Call("savePrompt", p, "", "")
SaveFolder(f, name) == Call("saveFolder", Nothing, f, name)

\* An event of the page: the calls of the one before have ended.
Event == calls = <<>> /\ ops < MaxOps /\ ops' = ops + 1
Library(ps) == prompts' = ps
Shown(s, v, c) == selected' = s /\ viewing' = v /\ compare' = c
Unshown == UNCHANGED <<selected, viewing, compare>>
Issue(cs) == calls' = cs /\ UNCHANGED <<disk, raced>>

\* Patches a prompt and saves it now.
PatchOnly(p) ==  \* mutant: and does not save it
    /\ Library(Patched(p.id, p)) /\ Issue(<<>>)
    /\ timers' = timers \ {p.id} /\ UNCHANGED <<folders, templates>>
PersistNow(p) ==
    /\ Library(Patched(p.id, p)) /\ Issue(<<SavePrompt(p)>>)
    /\ timers' = timers \ {p.id}
    /\ UNCHANGED <<folders, templates>>
\* Patches a prompt and saves it after the debounce.
SchedulePersist(p) ==
    /\ Library(Patched(p.id, p)) /\ timers' = timers \cup {p.id}
    /\ UNCHANGED <<folders, templates, calls, disk, raced>>

-----------------------------------------------------------------------------
(* The store: prompts.                                                     *)

SelectPrompt(i) ==
    /\ Event /\ i \in Shelved \cup {0} /\ Shown(i, 0, <<>>)
    /\ UNCHANGED <<prompts, folders, templates, timers, calls, disk, raced, given>>
SetViewingVersion(n) ==
    /\ Event /\ selected # 0 /\ n \in {0} \cup {v.version : v \in Range(Prompt(selected).versions)}
    /\ Shown(selected, n, compare)
    /\ UNCHANGED <<prompts, folders, templates, timers, calls, disk, raced, given>>
\* At most two, the latest ticked.
ToggleCompareSelection(n) ==
    /\ Event /\ selected # 0 /\ n \in {v.version : v \in Range(Prompt(selected).versions)}
    /\ LET rest == SelectSeq(compare, LAMBDA m : m # n) IN
        Shown(selected, viewing,
              IF n \in Range(compare) THEN rest ELSE IF Len(compare) = 2 THEN <<compare[2], n>> ELSE Append(compare, n))
    /\ UNCHANGED <<prompts, folders, templates, timers, calls, disk, raced, given>>

NewPrompt(i, folder) == [Nothing EXCEPT !.id = i, !.folder = folder, !.order = 100 + ops]
Make(p) ==
    /\ Event /\ p.id \in Unused
    /\ Library(Append(prompts, p)) /\ Shown(p.id, 0, compare) /\ Issue(<<SavePrompt(p)>>)
    /\ given' = [given EXCEPT ![p.id] = [k \in DOMAIN p.versions |-> p.versions[k].version]]
    /\ UNCHANGED <<folders, templates, timers>>
CreatePrompt(i, folder, template, messages) ==
    /\ folder \in SomeFolder
    /\ Make(IF template THEN [NewPrompt(i, folder) EXCEPT !.versions = <<Version(1, messages)>>]
            ELSE [NewPrompt(i, folder) EXCEPT !.draft = messages])
DuplicatePrompt(i, copy) ==
    /\ i \in Shelved
    /\ Make([Prompt(i) EXCEPT !.id = copy, !.order = 100 + ops,
                              !.versions = <<Version(1, CurrentMessages(Prompt(i)))>>, !.draft = ""])

DeletePrompt(i) ==
    /\ Event /\ i \in Shelved
    /\ Library(SelectSeq(prompts, LAMBDA p : p.id # i))
    /\ selected' = IF selected = i THEN 0 ELSE selected
    /\ Issue(<<Call("deletePrompt", Prompt(i), "", "")>>)
    /\ timers' = timers \ {i}
    /\ UNCHANGED <<folders, templates, viewing, compare, given>>

\* The name, the tags or a variable.
Relabel(i, l) ==
    /\ Event /\ i \in Shelved /\ PersistNow([Prompt(i) EXCEPT !.label = l])
    /\ Unshown /\ UNCHANGED given
MoveToFolder(i, f) ==
    /\ Event /\ i \in Shelved /\ f \in SomeFolder
    /\ PersistNow([Prompt(i) EXCEPT !.folder = f])
    /\ Unshown /\ UNCHANGED given

ByOrder(f) == SetToSortSeq({p \in Range(prompts) : p.folder = f}, LAMBDA p, q : p.order < q.order \/ (p.order = q.order /\ p.id < q.id))
\* A prompt dropped on another stands before it, in its folder.
DragEnd(i, onto) ==
    /\ Event /\ i \in Shelved /\ onto \in Shelved \ {i}
    /\ LET f == Prompt(onto).folder
           list == SelectSeq([k \in DOMAIN ByOrder(f) |-> ByOrder(f)[k].id], LAMBDA j : j # i)
           order == InsertAt(list, CHOOSE k \in DOMAIN list : list[k] = onto, i)
           placed == [k \in DOMAIN prompts |->
                        IF prompts[k].id \in Range(order)
                        THEN [prompts[k] EXCEPT !.folder = f, !.order = (CHOOSE j \in DOMAIN order : order[j] = prompts[k].id) - 1]
                        ELSE prompts[k]]
           now(j) == CHOOSE p \in Range(placed) : p.id = j
           moved == Prompt(i).folder # f
       IN  /\ Library(placed)
           /\ Issue((IF moved THEN <<SavePrompt([Prompt(i) EXCEPT !.folder = f])>> ELSE <<>>)
                    \o [k \in DOMAIN order |-> SavePrompt(now(order[k]))])
           /\ timers' = IF moved THEN timers \ {i} ELSE timers
    /\ Unshown /\ UNCHANGED <<folders, templates, given>>

-----------------------------------------------------------------------------
(* The store: versions and drafts.                                         *)

EditMessages(i, messages) ==
    /\ Event /\ i = selected /\ i # 0 /\ viewing = 0
    /\ SchedulePersist([Prompt(i) EXCEPT !.draft = Drafted(Prompt(i), messages)])
    /\ Unshown /\ UNCHANGED given
SaveVersion(i) ==
    /\ Event /\ i = selected /\ i # 0
    /\ LET p == Prompt(i) IN
        /\ p.draft # "" /\ NextVersionNumber(p) <= MaxVersions
        /\ PersistNow([p EXCEPT !.versions = Append(@, Version(NextVersionNumber(p), p.draft)), !.draft = ""])
        /\ given' = [given EXCEPT ![i] = Append(@, NextVersionNumber(p))]
    /\ Shown(selected, 0, compare)
RestoreVersion(i, n) ==
    /\ Event /\ i = selected /\ i # 0
    /\ \E v \in Range(Prompt(i).versions) :
        /\ v.version = n
        /\ PersistNow([Prompt(i) EXCEPT !.draft = Drafted(Prompt(i), v.messages)])
    /\ Shown(selected, 0, compare) /\ UNCHANGED given
Unpinned(p, n) == \E v \in Range(p.versions) : v.version = n /\ ~v.pinned  \* mutant: the latest may go
Deletable(p, n) == \E v \in Range(p.versions) : v.version = n /\ ~v.pinned /\ n # NewestOf(p)
DeleteVersion(i, n) ==
    /\ Event /\ i = selected /\ i # 0 /\ Deletable(Prompt(i), n)
    /\ PersistNow([Prompt(i) EXCEPT !.versions = SelectSeq(@, LAMBDA v : v.version # n)])
    /\ Shown(selected, IF viewing = n THEN 0 ELSE viewing, SelectSeq(compare, LAMBDA m : m # n))
    /\ UNCHANGED given
PinVersion(i, n) ==
    /\ Event /\ i = selected /\ i # 0 /\ n \in {v.version : v \in Range(Prompt(i).versions)}
    /\ PersistNow([Prompt(i) EXCEPT !.versions = [k \in DOMAIN @ |-> IF @[k].version = n THEN [@[k] EXCEPT !.pinned = ~@] ELSE @[k]]])
    /\ Unshown /\ UNCHANGED given
DiscardDraft(i) ==
    /\ Event /\ i = selected /\ i # 0 /\ Prompt(i).draft # "" /\ Prompt(i).versions # <<>>
    /\ PersistNow([Prompt(i) EXCEPT !.draft = ""])
    /\ Shown(selected, 0, compare) /\ UNCHANGED given

-----------------------------------------------------------------------------
(* The store: folders, templates and files.                                *)

SetFolder(f, name) ==
    /\ Event /\ f \in FolderIds
    /\ folders' = [folders EXCEPT ![f] = name] /\ Issue(<<SaveFolder(f, name)>>)
    /\ Unshown /\ UNCHANGED <<prompts, templates, timers, given>>
DeleteFolder(f, orphanTo) ==
    /\ Event /\ folders[f] # ""
    /\ folders' = [folders EXCEPT ![f] = ""]
    /\ LET orphaned == SelectSeq(prompts, LAMBDA p : p.folder = f)
           unfiled(p) == [p EXCEPT !.folder = ""]
       IN  IF orphanTo = "delete"
           THEN /\ Library(SelectSeq(prompts, LAMBDA p : p.folder # f))
                /\ selected' = IF selected \in {p.id : p \in Range(orphaned)} THEN 0 ELSE selected
                /\ Issue(<<Call("deleteFolder", Nothing, f, orphanTo)>>)
           ELSE /\ Library([k \in DOMAIN prompts |-> IF prompts[k].folder = f THEN unfiled(prompts[k]) ELSE prompts[k]])
                /\ UNCHANGED selected
                /\ Issue(<<Call("deleteFolder", Nothing, f, orphanTo)>> \o [k \in DOMAIN orphaned |-> SavePrompt(unfiled(orphaned[k]))])
    /\ UNCHANGED <<templates, viewing, compare, timers, given>>

PromoteToTemplate(t) ==
    /\ Event /\ selected # 0 /\ t \in TemplateIds \ (Range(templates) \cup Range(disk.templates))
    /\ templates' = Append(templates, t) /\ Issue(<<Call("saveTemplate", Nothing, t, "")>>)
    /\ Unshown /\ UNCHANGED <<prompts, folders, timers, given>>
ImportTemplates(new) ==
    /\ Event /\ new \cap (Range(templates) \cup Range(disk.templates)) = {} /\ new # {}
    /\ LET added == SetToSeq(new) IN
        templates' = templates \o added /\ Issue([k \in DOMAIN added |-> Call("saveTemplate", Nothing, added[k], "")])
    /\ Unshown /\ UNCHANGED <<prompts, folders, timers, given>>
DeleteUserTemplate(t) ==
    /\ Event /\ t \in Range(templates)
    /\ templates' = SelectSeq(templates, LAMBDA u : u # t) /\ Issue(<<Call("deleteTemplate", Nothing, t, "")>>)
    /\ Unshown /\ UNCHANGED <<prompts, folders, timers, given>>

\* A file brings one or two prompts into a folder it names, an existing one when the name is known.
Brought == {<<i>> : i \in PromptIds} \cup {new \in PromptIds \X PromptIds : IsInjective(new)}
ImportFromJson(new, f, name, messages) ==
    /\ Event /\ Range(new) \subseteq Unused
    /\ \A g \in {f} \cap FolderIds : folders[g] \in {"", name}
    /\ LET fresh == f \notin SomeFolder
           added == [k \in DOMAIN new |-> [NewPrompt(new[k], f) EXCEPT !.versions = <<Version(1, messages)>>]]
       IN  /\ Library(prompts \o added)
           /\ folders' = IF fresh THEN [folders EXCEPT ![f] = name] ELSE folders
           /\ Issue((IF fresh THEN <<SaveFolder(f, name)>> ELSE <<>>) \o [k \in DOMAIN new |-> SavePrompt(added[k])])
    /\ given' = [i \in PromptIds |-> IF i \in Range(new) THEN <<1>> ELSE given[i]]
    /\ Unshown /\ UNCHANGED <<templates, timers>>

Autosave(i) ==
    /\ calls = <<>> /\ i \in timers
    /\ timers' = timers \ {i}
    /\ Issue(IF i \in Shelved THEN <<SavePrompt(Prompt(i))>> ELSE <<>>)
    /\ Unshown /\ UNCHANGED <<prompts, folders, templates, given, ops>>

\* The page is closed, perhaps amid a call, and opened again.
Hydrate ==
    /\ Killed \/ calls = <<>>
    /\ prompts' = Loaded(disk) /\ folders' = disk.folders /\ templates' = disk.templates
    /\ Shown(0, 0, <<>>)
    /\ timers' = {} /\ calls' = <<>>
    \* a version that was not stored was not given
    /\ given' = [i \in PromptIds |-> SelectSeq(given[i], LAMBDA n : n <= NewestOf(disk.entry[i]))]
    /\ UNCHANGED <<disk, raced, ops>>

-----------------------------------------------------------------------------
(* The repository, one await at a time.                                    *)

Turn(c) ==
    /\ calls' = Append(Tail(calls), c)
    /\ UNCHANGED <<prompts, folders, templates, selected, viewing, compare, timers, given, ops>>
Done ==
    /\ calls' = Tail(calls)
    /\ UNCHANGED <<prompts, folders, templates, selected, viewing, compare, timers, given, ops>>
Up(at) == calls # <<>> /\ Head(calls).at = at

ReadIndex ==
    /\ Up("read") /\ UNCHANGED <<disk, raced>>
    /\ LET c == Head(calls)
           known == c.prompt.id \in Range(disk.ids)
           next == CASE c.op = "savePrompt" -> IF known THEN "entry" ELSE "index"
                     [] c.op = "deletePrompt" -> IF known THEN "index" ELSE "entry"
                     [] c.op = "deleteFolder" -> "scan"
                     [] c.op = "saveFolder" -> "index"
                     [] OTHER -> "templates"
       IN  Turn([c EXCEPT !.seen = disk, !.at = next, !.left = disk.ids])

WriteIndex ==
    /\ Up("index")
    /\ LET c == Head(calls)
           folded == CASE c.op = "saveFolder" -> [c.seen.folders EXCEPT ![c.folder] = c.how]
                       [] c.op = "deleteFolder" -> [c.seen.folders EXCEPT ![c.folder] = ""]
                       [] OTHER -> c.seen.folders
           ids == CASE c.op = "savePrompt" -> Append(c.seen.ids, c.prompt.id)
                    [] c.op = "deletePrompt" -> SelectSeq(c.seen.ids, LAMBDA i : i # c.prompt.id)
                    [] c.op = "deleteFolder" /\ c.how = "delete" -> c.kept
                    [] OTHER -> c.seen.ids
       IN  /\ disk' = [disk EXCEPT !.folders = folded, !.ids = ids]
           /\ raced' = (raced \/ c.seen.ids # disk.ids \/ c.seen.folders # disk.folders)
           /\ IF c.prompt = Nothing THEN Done ELSE Turn([c EXCEPT !.at = "entry"])

WriteEntry ==
    /\ Up("entry") /\ UNCHANGED raced
    /\ LET c == Head(calls) IN
        disk' = [disk EXCEPT !.entry[c.prompt.id] = IF c.op = "savePrompt" THEN c.prompt ELSE Nothing]
    /\ Done

\* Deleting a folder looks at every prompt of the index.
Scan ==
    /\ Up("scan") /\ UNCHANGED <<disk, raced>>
    /\ LET c == Head(calls) IN
        IF c.left = <<>> THEN Turn([c EXCEPT !.at = "index"])
        ELSE LET p == disk.entry[Head(c.left)] IN
             IF p # Nothing /\ p.folder = c.folder THEN Turn([c EXCEPT !.at = "orphan", !.seen.entry[p.id] = p])
             ELSE Turn([c EXCEPT !.left = Tail(@), !.kept = Append(@, Head(c.left))])
Orphan ==
    /\ Up("orphan") /\ UNCHANGED raced
    /\ LET c == Head(calls)
           i == Head(c.left)
       IN  /\ disk' = [disk EXCEPT !.entry[i] = IF c.how = "delete" THEN Nothing ELSE [c.seen.entry[i] EXCEPT !.folder = ""]]
           /\ Turn([c EXCEPT !.at = "scan", !.left = Tail(@)])

WriteTemplates ==
    /\ Up("templates")
    /\ LET c == Head(calls)
           others == SelectSeq(c.seen.templates, LAMBDA t : t # c.folder)
       IN  disk' = [disk EXCEPT !.templates = IF c.op = "saveTemplate" THEN Append(others, c.folder) ELSE others]
    /\ raced' = (raced \/ Head(calls).seen.templates # disk.templates)
    /\ Done

Next ==
    \/ \E i \in PromptIds \cup {0} : SelectPrompt(i)
    \/ \E n \in 0..MaxVersions : SetViewingVersion(n) \/ ToggleCompareSelection(n)
    \/ \E i \in PromptIds :
        \/ \E f \in FolderIds \cup {""} : MoveToFolder(i, f) \/ \E t \in BOOLEAN, m \in Lists : CreatePrompt(i, f, t, m)
        \/ \E j \in PromptIds : DuplicatePrompt(i, j) \/ DragEnd(i, j)
        \/ \E l \in Labels : Relabel(i, l)
        \/ \E m \in Lists : EditMessages(i, m)
        \/ \E n \in 1..MaxVersions : RestoreVersion(i, n) \/ DeleteVersion(i, n) \/ PinVersion(i, n)
        \/ DeletePrompt(i) \/ SaveVersion(i) \/ DiscardDraft(i) \/ Autosave(i)
    \/ \E f \in FolderIds : \/ \E name \in FolderNames : SetFolder(f, name)
                            \/ DeleteFolder(f, "delete") \/ DeleteFolder(f, "unfiled")
    \/ \E t \in TemplateIds : PromoteToTemplate(t) \/ DeleteUserTemplate(t)
    \/ \E new \in SUBSET TemplateIds : ImportTemplates(new)
    \/ \E new \in Brought, f \in FolderIds \cup {""}, name \in FolderNames, m \in Lists :
        ImportFromJson(new, f, name, m)
    \/ Hydrate
    \/ ReadIndex \/ WriteIndex \/ WriteEntry \/ Scan \/ Orphan \/ WriteTemplates

-----------------------------------------------------------------------------
\* Once no call is under way and no autosave is due, a reload would show what is shown, unless an index was
\* written over a newer one: no operation forgets to save, saves too early or leaves a deleted prompt behind.
StoredMatches ==
    (calls = <<>> /\ timers = {} /\ ~raced) =>
        /\ Range(Loaded(disk)) = Range(prompts)
        /\ disk.folders = folders /\ Range(disk.templates) = Range(templates)

\* "savePrompt / deletePrompt keep prompt_index.promptIds and the per-prompt entries in sync"
\* (promptRepository.ts:10).
IndexInSync == calls = <<>> => Range(disk.ids) = {i \in PromptIds : disk.entry[i] # Nothing}

\* Version numbers are "never reused (even after a delete)" (promptModel.ts), a draft differs from the latest
\* version, and the version shown is one of the prompt shown.
VersionsSound ==
    /\ \A i \in PromptIds : IsInjective(given[i])
    /\ \A p \in Range(prompts) :
        /\ p.draft = "" => p.versions # <<>>
        /\ (p.draft # "" /\ p.versions # <<>>) => p.draft # LatestVersion(p).messages
        /\ \A j, k \in DOMAIN p.versions : j < k => p.versions[j].version < p.versions[k].version
    /\ selected # 0 => selected \in Shelved /\ (viewing # 0 => \E v \in Range(Prompt(selected).versions) : v.version = viewing)
=============================================================================
