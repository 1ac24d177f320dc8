--------------------------- MODULE Screens_proofs ---------------------------
(***************************************************************************)
(* Proofs about the screens of the monitors, the status pages, the alert   *)
(* settings and the board: for any monitors and any number of requests,    *)
(* edits and answers.                                                      *)
(***************************************************************************)
EXTENDS MCConsole, FiniteSetTheorems, TLAPS

-----------------------------------------------------------------------------
(***************************************************************************)
(* The status pages of the settings.                                       *)
(***************************************************************************)

PageType == [token : Nat, incidents : BOOLEAN]
WireType == [kind : {"list", "add", "save", "rotate", "delete"}, at : {"sent", "done", "failed"}, id : Boards \cup {0},
             page : PageType, list : [Boards -> PageType], as : Nat]

PagesTyped ==
    /\ boards \in [Boards -> PageType] /\ shown \in [Boards -> PageType]
    /\ issued \in Nat /\ version \in [table : Nat, list : Nat] /\ upset \in BOOLEAN
    /\ wires \subseteq WireType /\ \A w \in wires : w.kind \notin {"list", "add"} => w.id \in Boards
\* A token in use, and one that ended, was issued: the next one is new.
TokensIssued == (\A t \in retired : t \in Nat /\ t <= issued) /\ \A b \in Boards : boards[b].token <= issued
\* A list on its way back is the table as it was when it was read, and so is the one that is shown.
ListsOfTheirTime ==
    /\ \A w \in wires : w.kind = "list" /\ w.at = "done" => w.as <= version.table /\ (w.as = version.table => w.list = boards)
    /\ ~upset => version.list <= version.table /\ (version.list = version.table => shown = boards)
\* A change the screen does not show yet will be followed by a list that has it.
Answers(w, table) == IF w.kind = "list" THEN w.at = "sent" \/ (w.at = "done" /\ w.as = table) ELSE w.at = "done"
ListComes ==
    ~upset => /\ \A w \in wires : w.at # "failed"
              /\ version.list # version.table => \E w \in wires : Answers(w, version.table)

PagesInv == PagesTyped /\ TokensIssued /\ E!LinksEnd /\ ListsOfTheirTime /\ ListComes

LEMMA PagesBegin ==
    ASSUME E!PagesInit
    PROVE  PagesInv
<1>0. /\ boards = [b \in Boards |-> E!None] /\ issued = 0 /\ retired = {} /\ shown = [b \in Boards |-> E!None]
      /\ wires = {[kind |-> "list", at |-> "sent", id |-> 0, page |-> E!None, list |-> shown, as |-> 0]}
      /\ version = [table |-> 0, list |-> 0] /\ upset = FALSE
  BY DEF E!PagesInit
<1>1. E!None \in PageType /\ E!None.token = 0 BY DEF E!None, PageType
<1>2. boards \in [Boards -> PageType] /\ shown = boards /\ \A b \in Boards : boards[b].token = 0 BY <1>0, <1>1
<1>3. PagesTyped
  <2>1. [kind |-> "list", at |-> "sent", id |-> 0, page |-> E!None, list |-> shown, as |-> 0] \in WireType BY <1>1, <1>2 DEF WireType
  <2>2. wires \subseteq WireType /\ \A w \in wires : w.kind = "list" BY <2>1, <1>0
  <2>3. version \in [table : Nat, list : Nat] BY <1>0
  <2>4. QED BY <2>2, <2>3, <1>0, <1>2 DEF PagesTyped
<1>4. TokensIssued BY <1>0, <1>2 DEF TokensIssued
<1>5. E!LinksEnd BY <1>0, <1>2 DEF E!LinksEnd, E!Live, E!Tokens
<1>6. ListsOfTheirTime /\ ListComes BY <1>0, <1>2 DEF ListsOfTheirTime, ListComes
<1>7. QED BY <1>3, <1>4, <1>5, <1>6 DEF PagesInv

\* A click only adds a request.
LEMMA ClickKeeps ==
    ASSUME PagesInv, NEW w \in WireType, w.at = "sent", w.kind \notin {"list", "add"} => w.id \in Boards, E!Click(w)
    PROVE  PagesInv'
<1>0. wires' = wires \cup {w} /\ UNCHANGED <<boards, issued, retired, shown, version, upset>> BY DEF E!Click
<1>1. PagesTyped' BY <1>0 DEF PagesInv, PagesTyped
<1>2. TokensIssued' BY <1>0 DEF PagesInv, TokensIssued
<1>3. E!LinksEnd' BY <1>0 DEF PagesInv, E!LinksEnd, E!Live, E!Tokens
<1>4. ListsOfTheirTime' BY <1>0 DEF PagesInv, ListsOfTheirTime
<1>5. ListComes' BY <1>0 DEF PagesInv, ListComes, Answers
<1>6. QED BY <1>1, <1>2, <1>3, <1>4, <1>5 DEF PagesInv

\* A table that changed: no link that ended comes back, whichever request was served.
LEMMA TableKeeps ==
    ASSUME PagesInv, NEW w \in wires, w.kind # "list", E!Found(w), E!Table(w),
           issued' = IF w.kind \in {"add", "rotate"} THEN issued + 1 ELSE issued,
           retired' = IF w.kind \in {"rotate", "delete"} THEN retired \cup {boards[w.id].token} ELSE retired
    PROVE  boards' \in [Boards -> PageType] /\ issued' \in Nat /\ TokensIssued' /\ E!LinksEnd'
<1>0. /\ boards \in [Boards -> PageType] /\ issued \in Nat /\ w \in WireType
      /\ (\A t \in retired : t \in Nat /\ t <= issued) /\ \A b \in Boards : boards[b].token \in Nat /\ boards[b].token <= issued /\ boards[b].incidents \in BOOLEAN
  BY DEF PagesInv, PagesTyped, TokensIssued, PageType
<1>1. /\ \A b \in Boards : boards[b].token # 0 => boards[b].token \notin retired
      /\ \A b, c \in Boards : boards[b].token # 0 /\ boards[c].token # 0 /\ boards[b].token = boards[c].token => b = c
  BY DEF PagesInv, E!LinksEnd, E!Live, E!Tokens
<1>2. w.page \in PageType /\ w.page.incidents \in BOOLEAN /\ w.kind \in {"add", "save", "rotate", "delete"} BY <1>0 DEF WireType, PageType
<1>3. ASSUME boards' \in [Boards -> PageType], issued' \in Nat, issued <= issued', \A t \in retired' : t \in Nat /\ t <= issued',
             \A b \in Boards : boards'[b].token <= issued' /\ (boards'[b].token # 0 => boards'[b].token \notin retired'),
             \A b, c \in Boards : boards'[b].token # 0 /\ boards'[c].token # 0 /\ boards'[b].token = boards'[c].token => b = c
      PROVE  boards' \in [Boards -> PageType] /\ issued' \in Nat /\ TokensIssued' /\ E!LinksEnd'
  BY <1>3 DEF TokensIssued, E!LinksEnd, E!Live, E!Tokens
<1>4. CASE w.kind = "add"
  <2>1. PICK b \in Boards \ E!Live : boards' = [boards EXCEPT ![b] = [w.page EXCEPT !.token = issued + 1]] BY <1>4 DEF E!Table
  <2> DEFINE page == [w.page EXCEPT !.token = issued + 1]
  <2>2. page \in PageType /\ page.token = issued + 1 BY <1>0, <1>2 DEF PageType
  <2> HIDE DEF page
  <2>3. boards' \in [Boards -> PageType] /\ boards'[b] = page /\ \A c \in Boards : c # b => boards'[c] = boards[c] BY <2>1, <2>2, <1>0 DEF page
  <2>4. issued' = issued + 1 /\ retired' = retired BY <1>4
  <2>5. issued' \in Nat /\ issued <= issued' /\ \A t \in retired' : t \in Nat /\ t <= issued' BY <2>4, <1>0
  <2>6. \A c \in Boards : boards'[c].token <= issued' /\ (boards'[c].token # 0 => boards'[c].token \notin retired') BY <2>2, <2>3, <2>4, <1>0, <1>1
  <2>7. \A c, d \in Boards : boards'[c].token # 0 /\ boards'[d].token # 0 /\ boards'[c].token = boards'[d].token => c = d
    BY <2>2, <2>3, <1>0, <1>1
  <2>8. QED BY <2>3, <2>5, <2>6, <2>7, <1>3
<1>5. ASSUME w.kind # "add" PROVE w.id \in Boards /\ boards[w.id].token # 0 /\ boards' = E!Changed(w)
  BY <1>5, <1>2 DEF E!Found, E!Table, PagesInv, PagesTyped
<1>6. CASE w.kind = "save"
  <2> DEFINE page == [boards[w.id] EXCEPT !.incidents = w.page.incidents]
  <2>0. boards[w.id] \in PageType BY <1>0, <1>5, <1>6
  <2>1. E!Changed(w) = [boards EXCEPT ![w.id].incidents = w.page.incidents] BY <1>6, Zenon DEF E!Changed
  <2>2. boards' = [boards EXCEPT ![w.id] = page] BY <2>1, <1>5, <1>6
  <2>3. page \in PageType /\ page.token = boards[w.id].token BY <2>0, <1>2 DEF PageType
  <2> HIDE DEF page
  <2>4. boards' \in [Boards -> PageType] /\ \A c \in Boards : boards'[c].token = boards[c].token BY <2>2, <2>3, <1>0, <1>5, <1>6
  <2>5. issued' = issued /\ retired' = retired BY <1>6
  <2>6. QED BY <2>4, <2>5, <1>0, <1>1, <1>3
<1>7. CASE w.kind = "rotate"
  <2> DEFINE page == [boards[w.id] EXCEPT !.token = issued + 1]
  <2>0. boards[w.id] \in PageType BY <1>0, <1>5, <1>7
  <2>1. E!Changed(w) = [boards EXCEPT ![w.id].token = issued + 1] BY <1>7, Zenon DEF E!Changed
  <2>2. boards' = [boards EXCEPT ![w.id] = page] BY <2>1, <1>5, <1>7
  <2>3. page \in PageType /\ page.token = issued + 1 BY <2>0, <1>0 DEF PageType
  <2> HIDE DEF page
  <2>4. boards' \in [Boards -> PageType] /\ boards'[w.id] = page /\ \A c \in Boards : c # w.id => boards'[c] = boards[c] BY <2>2, <2>3, <1>0, <1>5, <1>7
  <2>5. issued' = issued + 1 /\ retired' = retired \cup {boards[w.id].token} /\ boards[w.id].token # 0 /\ w.id \in Boards BY <1>5, <1>7
  <2>6. issued' \in Nat /\ issued <= issued' /\ \A t \in retired' : t \in Nat /\ t <= issued' BY <2>5, <1>0
  <2>7. \A c \in Boards : boards'[c].token <= issued' /\ (boards'[c].token # 0 => boards'[c].token \notin retired')
    <3>1. TAKE c \in Boards
    <3>2. CASE c = w.id BY <3>2, <2>3, <2>4, <2>5, <1>0
    <3>3. CASE c # w.id BY <3>3, <2>4, <2>5, <1>0, <1>1
    <3>4. QED BY <3>2, <3>3
  <2>8. \A c, d \in Boards : boards'[c].token # 0 /\ boards'[d].token # 0 /\ boards'[c].token = boards'[d].token => c = d
    BY <2>3, <2>4, <1>0, <1>1
  <2>9. QED BY <2>4, <2>6, <2>7, <2>8, <1>3
<1>8. CASE w.kind = "delete"
  <2>1. E!Changed(w) = [boards EXCEPT ![w.id] = E!None] BY <1>8, Zenon DEF E!Changed
  <2>2. E!None \in PageType /\ E!None.token = 0 BY DEF E!None, PageType
  <2>4. boards' \in [Boards -> PageType] /\ boards'[w.id] = E!None /\ \A c \in Boards : c # w.id => boards'[c] = boards[c] BY <2>1, <2>2, <1>0, <1>5, <1>8
  <2>5. issued' = issued /\ retired' = retired \cup {boards[w.id].token} /\ boards[w.id].token # 0 /\ w.id \in Boards BY <1>5, <1>8
  <2>6. issued' \in Nat /\ issued <= issued' /\ \A t \in retired' : t \in Nat /\ t <= issued' BY <2>5, <1>0
  <2>7. \A c \in Boards : boards'[c].token <= issued' /\ (boards'[c].token # 0 => boards'[c].token \notin retired')
    <3>1. TAKE c \in Boards
    <3>2. CASE c = w.id BY <3>2, <2>2, <2>4, <2>5, <1>0
    <3>3. CASE c # w.id BY <3>3, <2>4, <2>5, <1>0, <1>1
    <3>4. QED BY <3>2, <3>3
  <2>8. \A c, d \in Boards : boards'[c].token # 0 /\ boards'[d].token # 0 /\ boards'[c].token = boards'[d].token => c = d
    BY <2>2, <2>4, <1>0, <1>1
  <2>9. QED BY <2>4, <2>6, <2>7, <2>8, <1>3
<1>9. QED BY <1>2, <1>4, <1>6, <1>7, <1>8

LEMMA ServePageKeeps ==
    ASSUME PagesInv, NEW w \in wires, E!ServePage(w)
    PROVE  PagesInv'
<1> DEFINE Done == [w EXCEPT !.at = "done", !.list = IF w.kind = "list" THEN boards ELSE @, !.as = version.table]
           FailedTo == [w EXCEPT !.at = "failed"]
<1>0. /\ w.at = "sent" /\ w \in WireType /\ w.kind \in {"list", "add", "save", "rotate", "delete"} /\ boards \in [Boards -> PageType] /\ version \in [table : Nat, list : Nat]
      /\ version.table \in Nat /\ version.list \in Nat /\ (w.kind \notin {"list", "add"} => w.id \in Boards)
      /\ issued \in Nat /\ wires \subseteq WireType /\ shown \in [Boards -> PageType] /\ upset \in BOOLEAN
  BY DEF E!ServePage, PagesInv, PagesTyped, WireType
<1>1. /\ Done \in WireType /\ Done.kind = w.kind /\ Done.id = w.id /\ Done.at = "done" /\ Done.as = version.table /\ (w.kind = "list" => Done.list = boards)
      /\ FailedTo \in WireType /\ FailedTo.kind = w.kind /\ FailedTo.id = w.id /\ FailedTo.at = "failed"
  BY <1>0 DEF WireType
<1>2. shown' = shown BY DEF E!ServePage
<1>3. \/ /\ E!Found(w) /\ E!Table(w)
         /\ issued' = IF w.kind \in {"add", "rotate"} THEN issued + 1 ELSE issued
         /\ retired' = IF w.kind \in {"rotate", "delete"} THEN retired \cup {boards[w.id].token} ELSE retired
         /\ version' = [version EXCEPT !.table = IF w.kind = "list" THEN @ ELSE @ + 1]
         /\ \/ wires' = (wires \ {w}) \cup {Done} /\ upset' = upset
            \/ wires' = (wires \ {w}) \cup {FailedTo} /\ upset' = TRUE
      \/ /\ wires' = (wires \ {w}) \cup {FailedTo} /\ upset' = TRUE
         /\ UNCHANGED <<boards, issued, retired, version>>
  BY DEF E!ServePage
<1> HIDE DEF Done, FailedTo
<1>4. CASE wires' = (wires \ {w}) \cup {FailedTo} /\ upset' = TRUE /\ UNCHANGED <<boards, issued, retired, version>>
  <2>1. PagesTyped' BY <1>4, <1>0, <1>1, <1>2 DEF PagesInv, PagesTyped
  <2>2. TokensIssued' BY <1>4 DEF PagesInv, TokensIssued
  <2>3. E!LinksEnd' BY <1>4 DEF PagesInv, E!LinksEnd, E!Live, E!Tokens
  <2>4. ListsOfTheirTime' BY <1>4, <1>1 DEF PagesInv, ListsOfTheirTime
  <2>5. ListComes' BY <1>4 DEF ListComes
  <2>6. QED BY <2>1, <2>2, <2>3, <2>4, <2>5 DEF PagesInv
<1>5. ASSUME E!Found(w), E!Table(w),
             issued' = IF w.kind \in {"add", "rotate"} THEN issued + 1 ELSE issued,
             retired' = IF w.kind \in {"rotate", "delete"} THEN retired \cup {boards[w.id].token} ELSE retired,
             version' = [version EXCEPT !.table = IF w.kind = "list" THEN @ ELSE @ + 1],
             \/ wires' = (wires \ {w}) \cup {Done} /\ upset' = upset
             \/ wires' = (wires \ {w}) \cup {FailedTo} /\ upset' = TRUE
      PROVE  PagesInv'
  <2>1. version' \in [table : Nat, list : Nat] /\ version'.list = version.list /\ version'.table = IF w.kind = "list" THEN version.table ELSE version.table + 1
    BY <1>5, <1>0
  <2>2. boards' \in [Boards -> PageType] /\ issued' \in Nat /\ TokensIssued' /\ E!LinksEnd' /\ (w.kind = "list" => boards' = boards)
    <3>1. CASE w.kind # "list" BY <3>1, <1>5, TableKeeps
    <3>2. CASE w.kind = "list"
      <4>1. E!Changed(w) = boards BY <3>2, Zenon DEF E!Changed
      <4>2. boards' = boards /\ issued' = issued /\ retired' = retired BY <4>1, <3>2, <1>5 DEF E!Table
      <4>3. TokensIssued' BY <4>2 DEF PagesInv, TokensIssued
      <4>4. E!LinksEnd' BY <4>2 DEF PagesInv, E!LinksEnd, E!Live, E!Tokens
      <4>5. QED BY <4>2, <4>3, <4>4, <1>0
    <3>3. QED BY <3>1, <3>2
  <2>3. PagesTyped'
    <3>1. wires' \subseteq WireType /\ \A v \in wires' : v.kind \notin {"list", "add"} => v.id \in Boards
      BY <1>5, <1>0, <1>1 DEF PagesInv, PagesTyped
    <3>2. upset' \in BOOLEAN BY <1>5, <1>0
    <3>3. QED BY <3>1, <3>2, <2>1, <2>2, <1>0, <1>2 DEF PagesTyped
  <2>4. \A v \in wires' : v \in wires \/ v = Done \/ v = FailedTo BY <1>5
  <2>5. \A v \in wires : v.as \in Nat BY <1>0 DEF WireType
  <2>6. ListsOfTheirTime'
    <3>1. ASSUME NEW v \in wires', v.kind = "list", v.at = "done" PROVE v.as <= version'.table /\ (v.as = version'.table => v.list = boards')
      <4>1. CASE v \in wires
        <5>1. v.as <= version.table /\ (v.as = version.table => v.list = boards) BY <4>1, <3>1 DEF PagesInv, ListsOfTheirTime
        <5>2. CASE w.kind = "list" BY <5>1, <5>2, <2>1, <2>2
        <5>3. CASE w.kind # "list"
          <6>1. v.as \in Nat BY <4>1, <2>5
          <6>2. QED BY <6>1, <5>1, <5>3, <2>1, <1>0
        <5>4. QED BY <5>2, <5>3
      <4>2. CASE v = Done BY <4>2, <3>1, <1>0, <1>1, <2>1, <2>2
      <4>3. CASE v = FailedTo BY <4>3, <3>1, <1>1
      <4>4. QED BY <2>4, <4>1, <4>2, <4>3
    <3>2. ASSUME ~upset' PROVE version'.list <= version'.table /\ (version'.list = version'.table => shown' = boards')
      <4>1. ~upset BY <3>2, <1>5
      <4>2. version.list <= version.table /\ (version.list = version.table => shown = boards) BY <4>1 DEF PagesInv, ListsOfTheirTime
      <4>3. CASE w.kind = "list" BY <4>2, <4>3, <2>1, <2>2, <1>2
      <4>4. CASE w.kind # "list" BY <4>2, <4>4, <2>1, <1>0
      <4>5. QED BY <4>3, <4>4
    <3>3. QED BY <3>1, <3>2 DEF ListsOfTheirTime
  <2>7. ListComes'
    <3>1. SUFFICES ASSUME ~upset' PROVE (\A v \in wires' : v.at # "failed") /\ (version'.list # version'.table => \E v \in wires' : Answers(v, version'.table)) BY DEF ListComes
    <3>2. ~upset /\ wires' = (wires \ {w}) \cup {Done} BY <3>1, <1>5
    <3>3. \A v \in wires' : v.at # "failed" BY <3>2, <1>1 DEF PagesInv, ListComes
    <3>4. Done \in wires' BY <3>2
    <3>5. Answers(Done, version'.table) BY <1>1, <2>1 DEF Answers
    <3>6. QED BY <3>3, <3>4, <3>5
  <2>8. QED BY <2>2, <2>3, <2>6, <2>7 DEF PagesInv
<1>6. QED BY <1>3, <1>4, <1>5

LEMMA DeliverPageKeeps ==
    ASSUME PagesInv, NEW w \in wires, E!DeliverPage(w)
    PROVE  PagesInv'
<1> DEFINE Again == E!Wire("list", 0, E!None)
<1>0. /\ w.at # "sent" /\ w \in WireType /\ version \in [table : Nat, list : Nat] /\ version.table \in Nat /\ version.list \in Nat /\ w.as \in Nat
      /\ wires \subseteq WireType /\ boards \in [Boards -> PageType] /\ shown \in [Boards -> PageType] /\ upset \in BOOLEAN /\ w.list \in [Boards -> PageType]
      /\ w.at \in {"done", "failed"}
  BY DEF E!DeliverPage, PagesInv, PagesTyped, WireType
<1>1. /\ shown' = IF w.kind # "list" THEN shown ELSE IF w.at = "done" THEN w.list ELSE [b \in Boards |-> E!None]
      /\ wires' = (wires \ {w}) \cup IF w.kind # "list" /\ w.at = "done" THEN {Again} ELSE {}
      /\ version' = [version EXCEPT !.list = IF w.kind = "list" /\ w.at = "done" THEN w.as ELSE @]
      /\ upset' = (upset \/ (w.kind = "list" /\ w.as < version.list))
      /\ UNCHANGED <<boards, issued, retired>>
  BY DEF E!DeliverPage
<1>2. E!None \in PageType BY DEF E!None, PageType
<1>3. Again \in WireType /\ Again.kind = "list" /\ Again.at = "sent"
  <2>1. [b \in Boards |-> E!None] \in [Boards -> PageType] BY <1>2
  <2>2. QED BY <2>1, <1>2 DEF E!Wire, WireType
<1> HIDE DEF Again
<1>4. version' \in [table : Nat, list : Nat] /\ version'.table = version.table /\ version'.list = IF w.kind = "list" /\ w.at = "done" THEN w.as ELSE version.list
  BY <1>0, <1>1
<1>5. \A v \in wires' : v \in wires \/ v = Again BY <1>1
<1>6. PagesTyped'
  <2>1. shown' \in [Boards -> PageType] BY <1>0, <1>1, <1>2
  <2>2. upset' \in BOOLEAN BY <1>0, <1>1
  <2>3. wires' \subseteq WireType /\ \A v \in wires' : v.kind \notin {"list", "add"} => v.id \in Boards BY <1>5, <1>3 DEF PagesInv, PagesTyped
  <2>4. QED BY <2>1, <2>2, <2>3, <1>1, <1>4 DEF PagesInv, PagesTyped
<1>7. TokensIssued' BY <1>1 DEF PagesInv, TokensIssued
<1>8. E!LinksEnd' BY <1>1 DEF PagesInv, E!LinksEnd, E!Live, E!Tokens
<1>9. ListsOfTheirTime'
  <2>1. ASSUME NEW v \in wires', v.kind = "list", v.at = "done" PROVE v.as <= version'.table /\ (v.as = version'.table => v.list = boards')
    BY <2>1, <1>1, <1>3, <1>4, <1>5 DEF PagesInv, ListsOfTheirTime
  <2>2. ASSUME ~upset' PROVE version'.list <= version'.table /\ (version'.list = version'.table => shown' = boards')
    <3>1. ~upset BY <2>2, <1>1
    <3>2. w.at = "done" BY <3>1, <1>0 DEF PagesInv, ListComes
    <3>3. CASE w.kind = "list" BY <3>2, <3>3, <1>1, <1>4 DEF PagesInv, ListsOfTheirTime
    <3>4. CASE w.kind # "list" BY <3>1, <3>4, <1>1, <1>4 DEF PagesInv, ListsOfTheirTime
    <3>5. QED BY <3>3, <3>4
  <2>3. QED BY <2>1, <2>2 DEF ListsOfTheirTime
<1>10. ListComes'
  <2>1. SUFFICES ASSUME ~upset' PROVE (\A v \in wires' : v.at # "failed") /\ (version'.list # version'.table => \E v \in wires' : Answers(v, version'.table)) BY DEF ListComes
  <2>2. ~upset /\ ~(w.kind = "list" /\ w.as < version.list) BY <2>1, <1>1
  <2>3. w.at = "done" /\ \A v \in wires : v.at # "failed" BY <2>2, <1>0 DEF PagesInv, ListComes
  <2>4. \A v \in wires' : v.at # "failed" BY <2>3, <1>3, <1>5
  <2>5. ASSUME NEW v, Answers(v, version.table) PROVE Answers(v, version'.table) BY <2>5, <1>4 DEF Answers
  <2>6. ASSUME version'.list # version'.table PROVE \E v \in wires' : Answers(v, version'.table)
    <3>1. CASE w.kind # "list"
      <4>1. Again \in wires' /\ Answers(Again, version'.table) BY <3>1, <2>3, <1>1, <1>3 DEF Answers
      <4>2. QED BY <4>1
    <3>2. CASE w.kind = "list"
      <4>1. w.as # version.table BY <3>2, <2>3, <2>6, <1>4
      <4>2. w.as <= version.table /\ version.list <= version.table /\ ~(w.as < version.list) BY <3>2, <2>2, <2>3 DEF PagesInv, ListsOfTheirTime
      <4>3. version.list # version.table BY <4>1, <4>2, <1>0
      <4>4. PICK v \in wires : Answers(v, version.table) BY <4>3, <2>2 DEF PagesInv, ListComes
      <4>5. v # w BY <4>1, <4>4, <3>2, <2>3 DEF Answers
      <4>6. v \in wires' BY <4>5, <1>1
      <4>7. QED BY <4>4, <4>6, <2>5
    <3>3. QED BY <3>1, <3>2
  <2>7. QED BY <2>4, <2>6
<1>11. QED BY <1>6, <1>7, <1>8, <1>9, <1>10 DEF PagesInv

LEMMA PagesGoOn ==
    ASSUME PagesInv, E!PagesNext
    PROVE  PagesInv'
<1>0. shown \in [Boards -> PageType] /\ E!None \in PageType BY DEF PagesInv, PagesTyped, E!None, PageType
<1>1. ASSUME NEW kind \in {"add", "save", "rotate", "delete"}, NEW id \in Boards \cup {0}, NEW page \in PageType, kind # "add" => id \in Boards,
             E!Click(E!Wire(kind, id, page))
      PROVE  PagesInv'
  <2> DEFINE w == E!Wire(kind, id, page)
  <2>1. w \in WireType /\ w.at = "sent" /\ w.kind = kind /\ w.id = id
    <3>1. [b \in Boards |-> E!None] \in [Boards -> PageType] BY <1>0
    <3>2. QED BY <3>1 DEF E!Wire, WireType
  <2>2. E!Click(w) BY <1>1
  <2> HIDE DEF w
  <2>3. w.kind \notin {"list", "add"} => w.id \in Boards BY <2>1, <1>1
  <2>4. QED BY <2>1, <2>2, <2>3, ClickKeeps
<1>2. CASE E!Add
  <2>1. [token |-> 0, incidents |-> TRUE] \in PageType BY DEF PageType
  <2>2. E!Click(E!Wire("add", 0, [token |-> 0, incidents |-> TRUE])) BY <1>2 DEF E!Add
  <2>3. QED BY <2>1, <2>2, <1>1
<1>3. ASSUME NEW b \in Boards, E!Toggle(b) \/ E!Rotate(b) \/ E!Delete(b) PROVE PagesInv'
  <2>1. [shown[b] EXCEPT !.incidents = ~@] \in PageType
    <3>1. shown[b] \in PageType BY <1>0
    <3>2. (~shown[b].incidents) \in BOOLEAN OBVIOUS
    <3>3. QED BY <3>1, <3>2 DEF PageType
  <2>2. CASE E!Toggle(b)
    <3>1. E!Click(E!Wire("save", b, [shown[b] EXCEPT !.incidents = ~@])) BY <2>2 DEF E!Toggle
    <3>2. QED BY <3>1, <2>1, <1>1
  <2>3. CASE E!Rotate(b)
    <3>1. E!Click(E!Wire("rotate", b, E!None)) BY <2>3 DEF E!Rotate
    <3>2. QED BY <3>1, <1>0, <1>1
  <2>4. CASE E!Delete(b)
    <3>1. E!Click(E!Wire("delete", b, E!None)) BY <2>4 DEF E!Delete
    <3>2. QED BY <3>1, <1>0, <1>1
  <2>5. QED BY <1>3, <2>2, <2>3, <2>4
<1>4. ASSUME NEW w \in wires, E!ServePage(w) PROVE PagesInv' BY <1>4, ServePageKeeps
<1>5. ASSUME NEW w \in wires, E!DeliverPage(w) PROVE PagesInv' BY <1>5, DeliverPageKeeps
<1>6. QED BY <1>2, <1>3, <1>4, <1>5 DEF E!PagesNext

LEMMA PagesRest ==
    ASSUME PagesInv, UNCHANGED pageVars
    PROVE  PagesInv'
<1>0. UNCHANGED <<boards, issued, retired, shown, wires, version, upset>> BY DEF pageVars
<1>1. PagesTyped' /\ TokensIssued' /\ ListsOfTheirTime' BY <1>0 DEF PagesInv, PagesTyped, TokensIssued, ListsOfTheirTime
<1>2. E!LinksEnd' BY <1>0 DEF PagesInv, E!LinksEnd, E!Live, E!Tokens
<1>3. ListComes' BY <1>0 DEF PagesInv, ListComes, Answers
<1>4. QED BY <1>1, <1>2, <1>3 DEF PagesInv

\* A link of a status page that was replaced or deleted never works again and a token opens one page, whatever
\* was clicked and whatever was answered when; and the list the screen ends with is the table (MonitorSettings.tsx,
\* monitor/statusboard.go): for every set of pages and every number of clicks, tokens and requests.
THEOREM PagesHold == Spec => [](part = "pages" => E!PagesSound)
<1> DEFINE Kept == part = "pages" => PagesInv
<1>1. Init => Kept BY PagesBegin DEF Init
<1>2. Kept /\ [Next]_vars => Kept'
  <2>1. SUFFICES ASSUME Kept, [Next]_vars, part' = "pages" PROVE PagesInv' OBVIOUS
  <2>2. part' = part /\ (part = "pages" => E!PagesNext \/ UNCHANGED pageVars)
    BY <2>1 DEF Next, OfChat, OfPanel, OfCatalog, OfShell, OfHub, OfLibrary, OfBoard, OfHistory, OfAlerts, OfPages, OfFlow, OfEditor, vars, monitorVars
  <2>3. QED BY <2>1, <2>2, PagesGoOn, PagesRest
<1>3. Kept => (part = "pages" => E!PagesSound)
  <2>1. SUFFICES ASSUME PagesInv PROVE E!PagesSound OBVIOUS
  <2>2. E!ListFollows BY <2>1 DEF E!ListFollows, PagesInv, ListsOfTheirTime, ListComes
  <2>3. QED BY <2>1, <2>2 DEF PagesInv, E!PagesSound
<1>4. QED BY <1>1, <1>2, <1>3, PTL DEF Spec

-----------------------------------------------------------------------------
(***************************************************************************)
(* The alert settings.                                                     *)
(***************************************************************************)

SettingsType == [channel : {"", "webhook", "email"}, url : {"", "hook", "other"}, secret : {"", E!Mask, "ref", "new"}, after : Int]
TestNames == {"", "webhook"}
RequestType == [id : Int, kind : {"load", "save", "test"}, at : {"sent", "done", "failed"}, body : SettingsType, test : TestNames, served : Nat]
SecretTexts == {"untyped", "", "new"}
TypedType == [channel : {"untyped", "email"}, url : {"untyped", "other"}, secret : SecretTexts, after : Int, n : Int]

AlertsTyped ==
    /\ stored \in SettingsType /\ known \in SettingsType /\ draft \in SettingsType
    /\ dirty \in BOOLEAN /\ clean \in BOOLEAN /\ typed \in TypedType
    /\ count \in [posted : Int, served : Nat, delivered : Nat]
    /\ post \subseteq RequestType /\ \A r \in post : r.served <= count.served
\* The stored secret never leaves the backend, so only a typed one comes back.
SecretHidden ==
    /\ E!SecretKept /\ draft.secret # "ref" /\ known.secret # "ref"
    /\ \A r \in post : r.body.secret # "ref" /\ (r.at = "done" /\ r.kind # "test" => r.body.secret = E!Mask)
DraftFollows == ~dirty => draft = known

\* The settings have what was typed last, and what was there in the other fields.
Meets(s) ==
    /\ s.channel = IF typed.channel = "untyped" THEN "webhook" ELSE typed.channel
    /\ s.url = IF typed.url = "untyped" THEN "hook" ELSE typed.url
    /\ s.after = IF typed.after = -1 THEN 5 ELSE typed.after
    /\ typed.secret = "" \/ s.secret = IF typed.secret = "untyped" THEN "ref" ELSE typed.secret
Answered(r) == r.kind # "test" /\ r.at = "done"
\* Nothing is unsaved: what is on its way changes nothing, and what comes back is what is stored.
Idle ==
    /\ known \in {E!Defaults, E!Redact(stored)} /\ Meets(stored)
    /\ \A r \in post : /\ r.kind = "save" /\ r.at = "sent" => E!Merged(r.body, stored) = stored
                       /\ Answered(r) /\ r.served > count.delivered => r.body = E!Redact(stored)
\* Something is unsaved: every save on its way brings it, and what was read after one of them is what is stored.
Unsaved ==
    /\ known # E!Defaults /\ Meets(E!Merged(draft, stored))
    /\ \A r \in post : /\ r.kind = "save" /\ r.at = "sent" => r.body = draft
                       /\ r.kind = "save" /\ r.at = "done" =>
                            /\ E!Merged(draft, stored) = stored
                            /\ \A q \in post : Answered(q) /\ q.served >= r.served => q.body = E!Redact(stored)
CalmSoFar ==
    clean => /\ IF dirty THEN Unsaved ELSE Idle
             /\ \A r \in post : r.at # "failed"
             /\ known = E!Defaults => \E r \in post : r.kind = "load"

AlertsInv == AlertsTyped /\ SecretHidden /\ DraftFollows /\ CalmSoFar

LEMMA RedactFacts ==
    ASSUME NEW s \in SettingsType, s.secret \in {"ref", "new"}
    PROVE  /\ E!Redact(s) \in SettingsType /\ E!Redact(s).secret = E!Mask
           /\ E!Redact(s).channel = s.channel /\ E!Redact(s).url = s.url /\ E!Redact(s).after = s.after
           /\ E!Redact(s) # E!Defaults
BY DEF E!Redact, SettingsType, E!Defaults, E!Mask

LEMMA MergedFacts ==
    ASSUME NEW in \in SettingsType, NEW s \in SettingsType
    PROVE  /\ E!Merged(in, s) \in SettingsType /\ E!Merged(in, s).secret = IF in.secret \in {"", E!Mask} THEN s.secret ELSE in.secret
           /\ E!Merged(in, s).channel = in.channel /\ E!Merged(in, s).url = in.url /\ E!Merged(in, s).after = in.after
BY DEF E!Merged, SettingsType

LEMMA SameSettings ==
    ASSUME NEW s \in SettingsType, NEW t \in SettingsType, s.channel = t.channel, s.url = t.url, s.secret = t.secret, s.after = t.after
    PROVE  s = t
<1>1. s = [channel |-> s.channel, url |-> s.url, secret |-> s.secret, after |-> s.after] BY DEF SettingsType
<1>2. t = [channel |-> t.channel, url |-> t.url, secret |-> t.secret, after |-> t.after] BY DEF SettingsType
<1>3. QED BY <1>1, <1>2

\* Saving the same twice is saving it once.
LEMMA MergedTwice ==
    ASSUME NEW in \in SettingsType, NEW s \in SettingsType
    PROVE  E!Merged(in, E!Merged(in, s)) = E!Merged(in, s)
<1> DEFINE m == E!Merged(in, s)
<1>1. m \in SettingsType /\ (in.secret \in {"", E!Mask} \/ m.secret = in.secret) /\ m.channel = in.channel /\ m.url = in.url /\ m.after = in.after
  BY MergedFacts
<1> HIDE DEF m
<1>2. /\ E!Merged(in, m) \in SettingsType /\ E!Merged(in, m).secret = m.secret
      /\ E!Merged(in, m).channel = in.channel /\ E!Merged(in, m).url = in.url /\ E!Merged(in, m).after = in.after
  BY <1>1, MergedFacts
<1>3. E!Merged(in, m) = m BY <1>1, <1>2, SameSettings
<1>4. QED BY <1>3 DEF m

LEMMA DefaultsFacts ==
    /\ E!Defaults \in SettingsType /\ E!Defaults.secret = ""
    /\ E!Filled \in SettingsType /\ E!Filled.secret = "ref"
    /\ E!Untyped \in TypedType
BY DEF E!Defaults, E!Filled, E!Untyped, SettingsType, TypedType, SecretTexts

\* A request as it is made.
LEMMA RequestMade ==
    ASSUME NEW id \in Int, NEW kind \in {"load", "save", "test"}, NEW body \in SettingsType, NEW test \in TestNames
    PROVE  LET r == [id |-> id, kind |-> kind, at |-> "sent", body |-> body, test |-> test, served |-> 0]
           IN  r \in RequestType /\ r.kind = kind /\ r.at = "sent" /\ r.served = 0 /\ r.body = body
BY DEF RequestType

LEMMA AlertsBegin ==
    ASSUME E!AlertInit
    PROVE  AlertsInv
<1> DEFINE load == [id |-> 1, kind |-> "load", at |-> "sent", body |-> E!Defaults, test |-> "", served |-> 0]
<1>0. stored = E!Filled /\ known = E!Defaults /\ draft = E!Defaults /\ dirty = FALSE /\ clean = TRUE /\ typed = E!Untyped
  BY DEF E!AlertInit
<1>1. post = {load} /\ count = [posted |-> 1, served |-> 0, delivered |-> 0] BY Zenon DEF E!AlertInit
<1>2. "" \in TestNames BY DEF TestNames
<1>3. load \in RequestType /\ load.kind = "load" /\ load.at = "sent" /\ load.served = 0 /\ load.body = E!Defaults
  <2>1. 1 \in Int /\ "load" \in {"load", "save", "test"} OBVIOUS
  <2>2. QED BY <2>1, <1>2, DefaultsFacts, RequestMade
<1> HIDE DEF load
<1>4. count \in [posted : Int, served : Nat, delivered : Nat] /\ count.served = 0 BY <1>1
<1>5. AlertsTyped
  <2>1. stored \in SettingsType /\ known \in SettingsType /\ draft \in SettingsType /\ typed \in TypedType BY <1>0, DefaultsFacts
  <2>2. post \subseteq RequestType /\ \A r \in post : r.served <= count.served BY <1>1, <1>3, <1>4
  <2>3. QED BY <2>1, <2>2, <1>0, <1>4 DEF AlertsTyped
<1>6. SecretHidden BY <1>0, <1>1, <1>3, DefaultsFacts DEF SecretHidden, E!SecretKept
<1>7. Meets(stored) BY <1>0 DEF Meets, E!Filled, E!Untyped
<1>8. CalmSoFar BY <1>0, <1>1, <1>3, <1>7 DEF CalmSoFar, Idle, Answered
<1>9. QED BY <1>0, <1>5, <1>6, <1>8 DEF AlertsInv, DraftFollows

\* A request that is posted: a load, a test, or a save of the draft.
LEMMA PostedKeeps ==
    ASSUME AlertsInv, NEW r \in RequestType, r.at = "sent", r.served = 0, r.body.secret # "ref", r.kind = "save" => dirty /\ r.body = draft, E!Posted(r),
           UNCHANGED <<stored, known, draft, dirty, typed, clean>>
    PROVE  AlertsInv'
<1>0. post' = post \cup {r} /\ count' = [count EXCEPT !.posted = @ + 1] BY DEF E!Posted
<1>1. count \in [posted : Int, served : Nat, delivered : Nat] BY DEF AlertsInv, AlertsTyped
<1>2. count' \in [posted : Int, served : Nat, delivered : Nat] /\ count'.served = count.served /\ count'.delivered = count.delivered /\ count.served \in Nat BY <1>0, <1>1
<1>3. AlertsTyped' BY <1>0, <1>2 DEF AlertsInv, AlertsTyped
<1>4. SecretHidden' BY <1>0 DEF AlertsInv, SecretHidden, E!SecretKept
<1>5. DraftFollows' BY DEF AlertsInv, DraftFollows
<1>6. CASE clean /\ dirty
  <2>1. Unsaved /\ dirty \in BOOLEAN BY <1>6 DEF AlertsInv, CalmSoFar, AlertsTyped
  <2>2. Unsaved' BY <2>1, <1>0 DEF Unsaved, Meets, Answered
  <2>3. QED BY <2>2, <1>0, <1>3, <1>4, <1>5, <1>6 DEF AlertsInv, CalmSoFar
<1>7. CASE clean /\ ~dirty
  <2>1. Idle BY <1>7 DEF AlertsInv, CalmSoFar
  <2>2. Idle' BY <2>1, <1>0, <1>2, <1>7 DEF Idle, Meets, Answered
  <2>3. QED BY <2>2, <1>0, <1>3, <1>4, <1>5, <1>7 DEF AlertsInv, CalmSoFar
<1>8. CASE ~clean BY <1>8, <1>3, <1>4, <1>5 DEF AlertsInv, CalmSoFar
<1>9. QED BY <1>6, <1>7, <1>8

\* A request as the screen makes it.
LEMMA RequestFacts ==
    ASSUME AlertsInv, NEW kind \in {"load", "save", "test"}, NEW body \in SettingsType, NEW test \in TestNames
    PROVE  LET r == E!Request(kind, body, test) IN r \in RequestType /\ r.kind = kind /\ r.at = "sent" /\ r.served = 0 /\ r.body = body
<1>1. count.posted + 1 \in Int BY DEF AlertsInv, AlertsTyped
<1>2. QED BY <1>1, RequestMade DEF E!Request

LEMMA SaveKeepsAlerts ==
    ASSUME AlertsInv, NEW test \in TestNames, E!Save(test)
    PROVE  AlertsInv'
<1> DEFINE r == E!Request("save", draft, test)
<1>0. dirty /\ E!Posted(r) /\ UNCHANGED <<stored, known, draft, dirty, typed, clean>> BY DEF E!Save
<1>1. draft \in SettingsType /\ draft.secret # "ref" BY DEF AlertsInv, AlertsTyped, SecretHidden
<1>2. r \in RequestType /\ r.kind = "save" /\ r.at = "sent" /\ r.served = 0 /\ r.body = draft BY <1>1, RequestFacts
<1> HIDE DEF r
<1>3. QED BY <1>0, <1>1, <1>2, PostedKeeps

LEMMA OtherPostKeeps ==
    ASSUME AlertsInv, NEW kind \in {"load", "test"}, NEW test \in TestNames, E!Posted(E!Request(kind, E!Defaults, test)),
           UNCHANGED <<stored, known, draft, dirty, typed, clean>>
    PROVE  AlertsInv'
<1> DEFINE r == E!Request(kind, E!Defaults, test)
<1>0. E!Posted(r) OBVIOUS
<1>1. E!Defaults \in SettingsType /\ E!Defaults.secret # "ref" BY DefaultsFacts
<1>2. r \in RequestType /\ r.kind = kind /\ r.at = "sent" /\ r.served = 0 /\ r.body = E!Defaults BY <1>1, RequestFacts
<1> HIDE DEF r
<1>3. QED BY <1>0, <1>1, <1>2, PostedKeeps

LEMMA ServeKeeps ==
    ASSUME AlertsInv, NEW r \in post, E!Serve(r)
    PROVE  AlertsInv'
<1> DEFINE n == count.served + 1
           saved == E!Merged(r.body, stored)
           Done == [r EXCEPT !.at = "done", !.served = n, !.body = IF r.kind = "load" THEN E!Redact(stored) ELSE E!Redact(saved)]
           FailedTo == [r EXCEPT !.at = "failed", !.served = n]
<1>0. /\ r \in RequestType /\ r.at = "sent" /\ r.kind \in {"load", "save", "test"} /\ r.body \in SettingsType /\ r.body.secret # "ref"
      /\ stored \in SettingsType /\ stored.secret \in {"ref", "new"} /\ count \in [posted : Int, served : Nat, delivered : Nat] /\ post \subseteq RequestType
      /\ clean \in BOOLEAN /\ dirty \in BOOLEAN /\ count.served \in Nat /\ count.delivered \in Nat
      /\ draft \in SettingsType /\ draft.secret # "ref"
  BY DEF AlertsInv, AlertsTyped, SecretHidden, E!SecretKept, E!Serve, RequestType
<1>1. saved \in SettingsType /\ saved.secret \in {"ref", "new"}
  <2>1. saved \in SettingsType /\ saved.secret = IF r.body.secret \in {"", E!Mask} THEN stored.secret ELSE r.body.secret BY <1>0, MergedFacts
  <2>2. r.body.secret \in {"", E!Mask, "ref", "new"} BY <1>0 DEF SettingsType
  <2> HIDE DEF saved
  <2>3. QED BY <2>1, <2>2, <1>0
<1>2. UNCHANGED <<known, draft, dirty, typed>> BY DEF E!Serve
<1>3. count' = [count EXCEPT !.served = n] BY DEF E!Serve
<1>4. \/ /\ stored' = (IF r.kind = "save" THEN saved ELSE stored) /\ post' = (post \ {r}) \cup {Done} /\ (clean' => clean)
      \/ /\ stored' = (IF r.kind = "save" THEN saved ELSE stored) /\ post' = (post \ {r}) \cup {FailedTo} /\ clean' = FALSE
      \/ /\ stored' = stored /\ post' = (post \ {r}) \cup {FailedTo} /\ clean' = FALSE
  BY DEF E!Serve
<1>5. clean' \in BOOLEAN
  <2> DEFINE ordered == \A q \in post : q.kind = "save" /\ q.at = "sent" => q.id >= r.id
  <2>1. clean' = (clean /\ ordered) \/ clean' = FALSE BY DEF E!Serve
  <2> HIDE DEF ordered
  <2>2. QED BY <2>1
<1>6. E!Redact(stored) \in SettingsType /\ E!Redact(stored).secret = E!Mask /\ E!Redact(saved) \in SettingsType /\ E!Redact(saved).secret = E!Mask
  <2> HIDE DEF saved
  <2>1. QED BY <1>0, <1>1, RedactFacts
<1> DEFINE answer == IF r.kind = "load" THEN E!Redact(stored) ELSE E!Redact(saved)
<1>7. answer \in SettingsType /\ answer.secret = E!Mask
  <2> HIDE DEF saved
  <2>1. QED BY <1>6
<1>8. n \in Nat /\ n > count.served /\ count'.served = n /\ count'.delivered = count.delivered /\ count' \in [posted : Int, served : Nat, delivered : Nat] BY <1>0, <1>3
<1> HIDE DEF saved, answer, n
<1>9. /\ Done \in RequestType /\ Done.kind = r.kind /\ Done.at = "done" /\ Done.served = n /\ Done.body = answer
      /\ FailedTo \in RequestType /\ FailedTo.kind = r.kind /\ FailedTo.at = "failed" /\ FailedTo.served = n /\ FailedTo.body = r.body
  <2>1. Done = [r EXCEPT !.at = "done", !.served = n, !.body = answer] BY DEF answer
  <2> HIDE DEF Done
  <2>2. QED BY <2>1, <1>0, <1>7, <1>8 DEF RequestType
<1> HIDE DEF Done, FailedTo
<1>10. stored' \in SettingsType /\ stored'.secret \in {"ref", "new"} BY <1>0, <1>1, <1>4
<1>11. \A q \in post' : q = Done \/ q = FailedTo \/ q \in post BY <1>4
<1>12. AlertsTyped'
  <2>1. \A q \in post' : q \in RequestType BY <1>0, <1>9, <1>11
  <2>2. \A q \in post' : q.served <= count'.served
    <3>1. \A q \in post : q.served <= count.served /\ q.served \in Nat BY DEF AlertsInv, AlertsTyped, RequestType
    <3>2. \A q \in post : q.served <= n BY <3>1, <1>0, <1>8
    <3>3. Done.served <= n /\ FailedTo.served <= n BY <1>8, <1>9
    <3>4. QED BY <3>2, <3>3, <1>8, <1>11
  <2>3. QED BY <2>1, <2>2, <1>2, <1>5, <1>8, <1>10 DEF AlertsInv, AlertsTyped
<1>13. SecretHidden'
  <2>1. \A q \in post' : q.body.secret # "ref" /\ (q.at = "done" /\ q.kind # "test" => q.body.secret = E!Mask)
    <3>1. E!Mask # "ref" BY DEF E!Mask
    <3>2. QED BY <3>1, <1>0, <1>7, <1>9, <1>11 DEF AlertsInv, SecretHidden
  <2>2. QED BY <2>1, <1>2, <1>10 DEF AlertsInv, SecretHidden, E!SecretKept
<1>14. DraftFollows' BY <1>2 DEF AlertsInv, DraftFollows
<1>15. ASSUME clean' PROVE CalmSoFar'
  <2>1. /\ stored' = (IF r.kind = "save" THEN saved ELSE stored) /\ post' = (post \ {r}) \cup {Done} /\ clean
    BY <1>15, <1>4
  <2>2. \A q \in post' : q = Done \/ (q \in post /\ q # r) BY <2>1
  <2>3. \A q \in post : q.at # "failed" BY <2>1 DEF AlertsInv, CalmSoFar
  <2>4. \A q \in post' : q.at # "failed" BY <2>2, <2>3, <1>9
  <2>5. known' = E!Defaults => \E q \in post' : q.kind = "load"
    <3>1. Done \in post' /\ \A q \in post : q = r \/ q \in post' BY <2>1
    <3>2. known = E!Defaults => \E q \in post : q.kind = "load" BY <2>1 DEF AlertsInv, CalmSoFar
    <3>3. QED BY <3>1, <3>2, <1>2, <1>9
  <2>6. r.kind # "save" => stored' = stored /\ Answered(Done) = (r.kind = "load") /\ (r.kind = "load" => Done.body = E!Redact(stored))
    BY <2>1, <1>0, <1>9 DEF Answered, answer
  <2>7. r.kind = "save" => stored' = saved /\ Done.body = E!Redact(saved) BY <2>1, <1>9 DEF answer
  <2>8. CASE ~dirty
    <3>1. Idle BY <2>8, <2>1 DEF AlertsInv, CalmSoFar
    <3>2. stored' = stored
      <4>1. CASE r.kind = "save"
        <5>1. saved = stored BY <4>1, <3>1, <1>0 DEF Idle, saved
        <5>2. QED BY <5>1, <4>1, <2>7
      <4>2. QED BY <4>1, <2>6
    <3>3. Answered(Done) => Done.body = E!Redact(stored)
      <4>1. CASE r.kind = "save" BY <4>1, <2>7, <3>2
      <4>2. QED BY <4>1, <2>6
    <3>4. Meets(stored)' BY <3>1, <3>2, <1>2 DEF Idle, Meets
    <3>5. ASSUME NEW q \in post' PROVE /\ q.kind = "save" /\ q.at = "sent" => E!Merged(q.body, stored) = stored
                                       /\ Answered(q) /\ q.served > count.delivered => q.body = E!Redact(stored)
      BY <2>2, <3>1, <3>3, <1>9 DEF Idle
    <3>6. (\A q \in post : /\ q.kind = "save" /\ q.at = "sent" => E!Merged(q.body, stored) = stored
                           /\ Answered(q) /\ q.served > count.delivered => q.body = E!Redact(stored))'
      BY <3>2, <3>5, <1>8 DEF Answered
    <3>7. Idle' BY <3>1, <3>2, <3>4, <3>6, <1>2 DEF Idle
    <3>8. QED BY <3>7, <2>4, <2>5, <2>8, <1>2 DEF CalmSoFar
  <2>9. CASE dirty
    <3>1. Unsaved BY <2>9, <2>1 DEF AlertsInv, CalmSoFar
    <3>2. r.kind = "save" => r.body = draft /\ stored' = E!Merged(draft, stored) BY <3>1, <2>7, <1>0 DEF Unsaved, saved
    <3>3. E!Merged(draft, stored') = E!Merged(draft, stored) BY <3>2, <2>6, <1>0, MergedTwice
    <3>4. Meets(E!Merged(draft, stored))' BY <3>1, <3>3, <1>2 DEF Unsaved, Meets
    <3>5. \A q \in post' : q.kind = "save" /\ q.at = "sent" => q.body = draft BY <2>2, <3>1, <1>9 DEF Unsaved
    <3>6. \A q \in post : q.served <= count.served /\ q.served \in Nat BY DEF AlertsInv, AlertsTyped, RequestType
    <3>7. ASSUME NEW q \in post', q.kind = "save", q.at = "done" PROVE E!Merged(draft, stored') = stored'
      <4>1. CASE r.kind = "save" BY <4>1, <3>2, <3>3
      <4>2. CASE r.kind # "save"
        <5>1. q \in post BY <4>2, <3>7, <2>2, <1>9
        <5>2. QED BY <5>1, <4>2, <3>7, <3>1, <2>6 DEF Unsaved
      <4>3. QED BY <4>1, <4>2
    <3>8. ASSUME NEW q \in post', q.kind = "save", q.at = "done", NEW p \in post', Answered(p), p.served >= q.served PROVE p.body = E!Redact(stored')
      <4>1. CASE p = Done
        <5>1. CASE r.kind = "save" BY <5>1, <4>1, <2>7
        <5>2. CASE r.kind # "save" BY <5>2, <4>1, <3>8, <2>6
        <5>3. QED BY <5>1, <5>2
      <4>2. CASE p # Done
        <5>1. p \in post /\ p.served <= count.served /\ p.served \in Nat BY <4>2, <2>2, <3>6
        <5>2. q # Done BY <5>1, <3>8, <1>0, <1>8, <1>9
        <5>3. q \in post BY <5>2, <2>2
        <5>4. E!Merged(draft, stored) = stored /\ p.body = E!Redact(stored) BY <5>1, <5>3, <3>1, <3>8 DEF Unsaved
        <5>5. stored' = stored BY <5>4, <3>2, <2>6
        <5>6. QED BY <5>4, <5>5
      <4>3. QED BY <4>1, <4>2
    <3>9. known' # E!Defaults BY <3>1, <1>2 DEF Unsaved
    <3>10. Unsaved' BY <3>4, <3>5, <3>7, <3>8, <3>9, <1>2 DEF Unsaved, Answered
    <3>11. QED BY <3>10, <2>4, <2>5, <2>9, <1>2 DEF CalmSoFar
  <2>10. QED BY <2>8, <2>9
<1>16. QED BY <1>12, <1>13, <1>14, <1>15 DEF AlertsInv, CalmSoFar

LEMMA DeliverKeepsAlerts ==
    ASSUME AlertsInv, NEW r \in post, E!Deliver(r)
    PROVE  AlertsInv'
<1> DEFINE tests == r.kind = "save" /\ r.test # ""
           Test == E!Request("test", E!Defaults, r.test)
<1>0. /\ r \in RequestType /\ r.at \in {"done", "failed"} /\ r.kind \in {"load", "save", "test"} /\ r.body \in SettingsType /\ r.body.secret # "ref" /\ r.test \in TestNames
      /\ r.served \in Nat /\ count \in [posted : Int, served : Nat, delivered : Nat] /\ post \subseteq RequestType /\ known \in SettingsType /\ known.secret # "ref"
      /\ draft \in SettingsType /\ draft.secret # "ref" /\ stored.secret \in {"ref", "new"} /\ stored \in SettingsType
      /\ clean \in BOOLEAN /\ dirty \in BOOLEAN /\ count.served \in Nat /\ count.delivered \in Nat /\ r.served <= count.served
  BY DEF AlertsInv, AlertsTyped, SecretHidden, E!SecretKept, E!Deliver, RequestType
<1>1. /\ known' = IF r.at = "done" /\ r.kind \in {"load", "save"} THEN r.body ELSE known
      /\ dirty' = (dirty /\ ~(r.kind = "save" /\ r.at = "done"))
      /\ draft' = IF dirty' THEN draft ELSE known'
      /\ clean' = (clean /\ (r.kind \in {"load", "save"} => r.served > count.delivered))
      /\ UNCHANGED <<stored, typed>>
  BY DEF E!Deliver, E!Follow
<1>2. /\ post' = (post \ {r}) \cup IF tests THEN {Test} ELSE {}
      /\ count' = [count EXCEPT !.posted = IF tests THEN @ + 1 ELSE @, !.delivered = IF r.served > @ THEN r.served ELSE @]
  BY Zenon DEF E!Deliver
<1>3. Test \in RequestType /\ Test.kind = "test" /\ Test.at = "sent" /\ Test.served = 0 /\ Test.body = E!Defaults
  <2>1. E!Defaults \in SettingsType BY DefaultsFacts
  <2>2. QED BY <2>1, <1>0, RequestFacts
<1>4. E!Defaults.secret # "ref" BY DefaultsFacts
<1> HIDE DEF tests, Test
<1>5. /\ count' \in [posted : Int, served : Nat, delivered : Nat] /\ count'.served = count.served
      /\ count'.delivered \in Nat /\ count'.delivered >= count.delivered /\ (r.served > count.delivered => count'.delivered = r.served)
  <2>1. count.posted \in Int BY <1>0
  <2> DEFINE p == IF tests THEN count.posted + 1 ELSE count.posted
             d == IF r.served > count.delivered THEN r.served ELSE count.delivered
  <2>2. p \in Int BY <2>1
  <2>3. d \in Nat /\ d >= count.delivered /\ (r.served > count.delivered => d = r.served) BY <1>0
  <2>4. count' = [count EXCEPT !.posted = p, !.delivered = d] BY <1>2
  <2> HIDE DEF p, d
  <2>5. count' \in [posted : Int, served : Nat, delivered : Nat] /\ count'.served = count.served /\ count'.delivered = d BY <2>2, <2>3, <2>4, <1>0
  <2>6. QED BY <2>3, <2>5
<1>6. \A q \in post' : q = Test \/ (q \in post /\ q # r) BY <1>2
<1>7. clean' \in BOOLEAN /\ dirty' \in BOOLEAN
  <2> DEFINE fresh == r.kind \in {"load", "save"} => r.served > count.delivered
             over == r.kind = "save" /\ r.at = "done"
  <2>1. clean' = (clean /\ fresh) /\ dirty' = (dirty /\ ~over) BY <1>1
  <2> HIDE DEF fresh, over
  <2>2. QED BY <2>1, <1>0
<1>8. known' \in SettingsType /\ known'.secret # "ref" /\ draft' \in SettingsType /\ draft'.secret # "ref"
  <2>1. known' \in SettingsType /\ known'.secret # "ref" BY <1>0, <1>1
  <2>2. QED BY <2>1, <1>0, <1>1
<1>9. AlertsTyped'
  <2>1. \A q \in post' : q \in RequestType /\ q.served <= count'.served
    <3>1. \A q \in post : q.served <= count.served BY DEF AlertsInv, AlertsTyped
    <3>2. QED BY <3>1, <1>0, <1>3, <1>5, <1>6
  <2>2. QED BY <2>1, <1>1, <1>5, <1>7, <1>8 DEF AlertsInv, AlertsTyped
<1>10. SecretHidden'
  <2>1. \A q \in post' : q.body.secret # "ref" /\ (q.at = "done" /\ q.kind # "test" => q.body.secret = E!Mask)
    BY <1>3, <1>4, <1>6 DEF AlertsInv, SecretHidden
  <2>2. QED BY <2>1, <1>1, <1>8 DEF AlertsInv, SecretHidden, E!SecretKept
<1>11. DraftFollows' BY <1>1, <1>7 DEF DraftFollows
<1>12. ASSUME clean' PROVE CalmSoFar'
  <2>1. clean /\ r.at = "done" BY <1>12, <1>0, <1>1 DEF AlertsInv, CalmSoFar
  <2>2. Answered(r) => r.served > count.delivered /\ count'.delivered = r.served BY <1>12, <1>0, <1>1, <1>5 DEF Answered
  <2>3. \A q \in post' : q.at # "failed" BY <2>1, <1>3, <1>6 DEF AlertsInv, CalmSoFar
  <2>4. known' = IF Answered(r) THEN r.body ELSE known BY <2>1, <1>0, <1>1 DEF Answered
  <2>5. Answered(r) => r.body # E!Defaults
    <3>1. Answered(r) => r.body.secret = E!Mask BY DEF AlertsInv, SecretHidden, Answered
    <3>2. E!Mask # E!Defaults.secret BY DefaultsFacts DEF E!Mask
    <3>3. QED BY <3>1, <3>2
  <2>6. known' = E!Defaults => \E q \in post' : q.kind = "load"
    <3>1. SUFFICES ASSUME known' = E!Defaults PROVE \E q \in post' : q.kind = "load" OBVIOUS
    <3>2. known = E!Defaults /\ ~Answered(r) BY <3>1, <2>4, <2>5
    <3>3. PICK q \in post : q.kind = "load" BY <3>2, <2>1 DEF AlertsInv, CalmSoFar
    <3>4. q # r BY <3>2, <3>3, <2>1 DEF Answered
    <3>5. QED BY <3>3, <3>4, <1>2
  <2>7. \A q \in post' : Answered(q) \/ q.kind = "save" => q \in post /\ q # r BY <1>3, <1>6 DEF Answered
  <2>8. CASE ~dirty
    <3>1. Idle /\ ~dirty' BY <2>8, <2>1, <1>1 DEF AlertsInv, CalmSoFar
    <3>2. Meets(stored)' BY <3>1, <1>1 DEF Idle, Meets
    <3>3. known' \in {E!Defaults, E!Redact(stored)} BY <3>1, <2>2, <2>4 DEF Idle
    <3>4. ASSUME NEW q \in post' PROVE /\ q.kind = "save" /\ q.at = "sent" => E!Merged(q.body, stored) = stored
                                       /\ Answered(q) /\ q.served > count'.delivered => q.body = E!Redact(stored)
      <4>1. CASE ~(Answered(q) \/ q.kind = "save") BY <4>1
      <4>2. CASE Answered(q) \/ q.kind = "save"
        <5>1. q \in post /\ q.served \in Nat BY <4>2, <2>7, <1>0 DEF RequestType
        <5>2. q.served > count'.delivered => q.served > count.delivered BY <5>1, <1>0, <1>5
        <5>3. QED BY <5>1, <5>2, <3>1 DEF Idle
      <4>3. QED BY <4>1, <4>2
    <3>5. Idle' BY <3>2, <3>3, <3>4, <1>1 DEF Idle, Answered
    <3>6. QED BY <3>1, <3>5, <2>3, <2>6 DEF CalmSoFar
  <2>9. CASE dirty /\ r.kind = "save"
    <3>1. Unsaved /\ ~dirty' BY <2>9, <2>1, <1>1 DEF AlertsInv, CalmSoFar
    <3>2. /\ E!Merged(draft, stored) = stored /\ Meets(E!Merged(draft, stored))
          /\ \A q \in post : Answered(q) /\ q.served >= r.served => q.body = E!Redact(stored)
      BY <3>1, <2>1, <2>9 DEF Unsaved
    <3>3. Meets(stored) BY <3>2
    <3>4. Meets(stored)' BY <3>3, <1>1 DEF Meets
    <3>5. Answered(r) BY <2>1, <2>9 DEF Answered
    <3>6. known' = E!Redact(stored) BY <3>2, <3>5, <2>4, <1>0
    <3>7. ASSUME NEW q \in post' PROVE /\ q.kind = "save" /\ q.at = "sent" => E!Merged(q.body, stored) = stored
                                       /\ Answered(q) /\ q.served > count'.delivered => q.body = E!Redact(stored)
      <4>1. CASE ~(Answered(q) \/ q.kind = "save") BY <4>1
      <4>2. CASE Answered(q) \/ q.kind = "save"
        <5>1. q \in post /\ q.served \in Nat BY <4>2, <2>7, <1>0 DEF RequestType
        <5>2. q.served > count'.delivered => q.served >= r.served BY <5>1, <3>5, <2>2, <1>0
        <5>3. q.kind = "save" /\ q.at = "sent" => q.body = draft BY <5>1, <3>1 DEF Unsaved
        <5>4. QED BY <5>1, <5>2, <5>3, <3>2
      <4>3. QED BY <4>1, <4>2
    <3>8. Idle' BY <3>4, <3>6, <3>7, <1>1 DEF Idle, Answered
    <3>9. QED BY <3>1, <3>8, <2>3, <2>6 DEF CalmSoFar
  <2>10. CASE dirty /\ r.kind # "save"
    <3>1. Unsaved /\ dirty' /\ draft' = draft BY <2>10, <2>1, <1>1 DEF AlertsInv, CalmSoFar
    <3>2. known' # E!Defaults BY <3>1, <2>4, <2>5 DEF Unsaved
    <3>3. Meets(E!Merged(draft, stored))' BY <3>1, <1>1 DEF Unsaved, Meets
    <3>4. ASSUME NEW q \in post' PROVE /\ q.kind = "save" /\ q.at = "sent" => q.body = draft
                                       /\ q.kind = "save" /\ q.at = "done" =>
                                            /\ E!Merged(draft, stored) = stored
                                            /\ \A p \in post' : Answered(p) /\ p.served >= q.served => p.body = E!Redact(stored)
      BY <3>1, <2>7 DEF Unsaved
    <3>5. Unsaved' BY <3>1, <3>2, <3>3, <3>4, <1>1 DEF Unsaved, Answered
    <3>6. QED BY <3>1, <3>5, <2>3, <2>6 DEF CalmSoFar
  <2>11. QED BY <2>8, <2>9, <2>10
<1>13. QED BY <1>9, <1>10, <1>11, <1>12 DEF AlertsInv, CalmSoFar

\* One field is typed in, the others stay as they are.
EntersTo(d, t, d2, t2) ==
    /\ d2 \in SettingsType /\ d2.secret # "ref" /\ t2 \in TypedType
    /\ (d2.channel = d.channel /\ t2.channel = t.channel) \/ (d2.channel = "email" /\ t2.channel = "email")
    /\ (d2.url = d.url /\ t2.url = t.url) \/ (d2.url = "other" /\ t2.url = "other")
    /\ (d2.secret = d.secret /\ t2.secret = t.secret) \/ (d2.secret = t2.secret /\ t2.secret # "untyped" /\ d2.secret \in {"", "new"})
    /\ (d2.after = d.after /\ t2.after = t.after) \/ (d2.after = t2.after /\ t2.after # -1)

LEMMA ChannelTyped ==
    ASSUME NEW d \in SettingsType, d.secret # "ref", NEW t \in TypedType, NEW value \in {"email"}
    PROVE  EntersTo(d, t, [d EXCEPT !.channel = value], [t EXCEPT !.channel = value, !.n = @ + 1])
<1> DEFINE d2 == [d EXCEPT !.channel = value]
           t2 == [t EXCEPT !.channel = value, !.n = @ + 1]
<1>1. d2 \in SettingsType /\ d2.secret # "ref" /\ d2.channel = value /\ d2.url = d.url /\ d2.secret = d.secret /\ d2.after = d.after BY DEF SettingsType
<1>2. t2 \in TypedType /\ t2.channel = value /\ t2.url = t.url /\ t2.secret = t.secret /\ t2.after = t.after
  <2>1. t.n + 1 \in Int BY DEF TypedType
  <2>2. value \in {"email"} OBVIOUS
  <2>3. QED BY <2>1, <2>2 DEF TypedType
<1> HIDE DEF d2, t2
<1>3. EntersTo(d, t, d2, t2) BY <1>1, <1>2 DEF EntersTo
<1>4. QED BY <1>3 DEF d2, t2

LEMMA UrlTyped ==
    ASSUME NEW d \in SettingsType, d.secret # "ref", NEW t \in TypedType, NEW value \in {"other"}
    PROVE  EntersTo(d, t, [d EXCEPT !.url = value], [t EXCEPT !.url = value, !.n = @ + 1])
<1> DEFINE d2 == [d EXCEPT !.url = value]
           t2 == [t EXCEPT !.url = value, !.n = @ + 1]
<1>1. d2 \in SettingsType /\ d2.secret # "ref" /\ d2.url = value /\ d2.channel = d.channel /\ d2.secret = d.secret /\ d2.after = d.after BY DEF SettingsType
<1>2. t2 \in TypedType /\ t2.url = value /\ t2.channel = t.channel /\ t2.secret = t.secret /\ t2.after = t.after
  <2>1. t.n + 1 \in Int BY DEF TypedType
  <2>2. value \in {"other"} OBVIOUS
  <2>3. QED BY <2>1, <2>2 DEF TypedType
<1> HIDE DEF d2, t2
<1>3. EntersTo(d, t, d2, t2) BY <1>1, <1>2 DEF EntersTo
<1>4. QED BY <1>3 DEF d2, t2

LEMMA SecretTyped ==
    ASSUME NEW d \in SettingsType, d.secret # "ref", NEW t \in TypedType, NEW value \in SecretTexts, value # "untyped"
    PROVE  EntersTo(d, t, [d EXCEPT !.secret = value], [t EXCEPT !.secret = value, !.n = @ + 1])
<1> DEFINE d2 == [d EXCEPT !.secret = value]
           t2 == [t EXCEPT !.secret = value, !.n = @ + 1]
<1>1. d2 \in SettingsType /\ d2.secret # "ref" /\ d2.secret = value /\ d2.channel = d.channel /\ d2.url = d.url /\ d2.after = d.after 
  <2>1. value \in {"", E!Mask, "ref", "new"} /\ value # "ref" BY DEF SecretTexts
  <2>2. QED BY <2>1 DEF SettingsType
<1>2. t2 \in TypedType /\ t2.secret = value /\ t2.channel = t.channel /\ t2.url = t.url /\ t2.after = t.after
  <2>1. t.n + 1 \in Int BY DEF TypedType
  <2>2. QED BY <2>1 DEF TypedType
<1> HIDE DEF d2, t2
<1>a. d2.secret \in {"", "new"} BY <1>1 DEF SecretTexts
<1>3. EntersTo(d, t, d2, t2) BY <1>1, <1>2, <1>a DEF EntersTo
<1>4. QED BY <1>3 DEF d2, t2

LEMMA AfterTyped ==
    ASSUME NEW d \in SettingsType, d.secret # "ref", NEW t \in TypedType, NEW value \in Int, value # -1
    PROVE  EntersTo(d, t, [d EXCEPT !.after = value], [t EXCEPT !.after = value, !.n = @ + 1])
<1> DEFINE d2 == [d EXCEPT !.after = value]
           t2 == [t EXCEPT !.after = value, !.n = @ + 1]
<1>1. d2 \in SettingsType /\ d2.secret # "ref" /\ d2.after = value /\ d2.channel = d.channel /\ d2.url = d.url /\ d2.secret = d.secret BY DEF SettingsType
<1>2. t2 \in TypedType /\ t2.after = value /\ t2.channel = t.channel /\ t2.url = t.url /\ t2.secret = t.secret
  <2>1. t.n + 1 \in Int BY DEF TypedType
  <2>2. QED BY <2>1 DEF TypedType
<1> HIDE DEF d2, t2
<1>3. EntersTo(d, t, d2, t2) BY <1>1, <1>2 DEF EntersTo
<1>4. QED BY <1>3 DEF d2, t2

\* A field is typed: what is unsaved has it.
LEMMA EnterKeeps ==
    ASSUME AlertsInv, EntersTo(draft, typed, draft', typed'), dirty' = TRUE,
           clean' \in BOOLEAN, clean' => clean /\ known # E!Defaults /\ \A r \in post : r.kind # "save",
           UNCHANGED <<stored, known, post, count>>
    PROVE  AlertsInv'
<1>0. /\ draft \in SettingsType /\ draft.secret # "ref" /\ typed \in TypedType /\ stored \in SettingsType /\ stored.secret \in {"ref", "new"}
      /\ dirty \in BOOLEAN
  BY DEF AlertsInv, AlertsTyped, SecretHidden, E!SecretKept
<1>1. draft' \in SettingsType /\ draft'.secret # "ref" /\ typed' \in TypedType BY DEF EntersTo
<1>2. AlertsTyped' BY <1>1 DEF AlertsInv, AlertsTyped
<1>3. SecretHidden' BY <1>1 DEF AlertsInv, SecretHidden, E!SecretKept
<1>4. DraftFollows' BY DEF DraftFollows
<1>5. ASSUME clean' PROVE CalmSoFar'
  <2>1. clean /\ known # E!Defaults /\ \A r \in post : r.kind # "save" BY <1>5
  <2>2. \A r \in post : r.at # "failed" BY <2>1 DEF AlertsInv, CalmSoFar
  <2>3. Meets(E!Merged(draft, stored))
    <3>1. CASE dirty BY <3>1, <2>1 DEF AlertsInv, CalmSoFar, Unsaved
    <3>2. CASE ~dirty
      <4>1. draft = E!Redact(stored) /\ Meets(stored) BY <3>2, <2>1 DEF AlertsInv, CalmSoFar, DraftFollows, Idle
      <4>2. /\ draft.channel = stored.channel /\ draft.url = stored.url /\ draft.after = stored.after /\ draft.secret = E!Mask
        BY <4>1, <1>0, RedactFacts
      <4>3. /\ E!Merged(draft, stored).channel = stored.channel /\ E!Merged(draft, stored).url = stored.url
            /\ E!Merged(draft, stored).after = stored.after /\ E!Merged(draft, stored).secret = stored.secret
        BY <4>2, <1>0, MergedFacts
      <4>4. QED BY <4>1, <4>3 DEF Meets
    <3>3. QED BY <3>1, <3>2
  <2> DEFINE old == E!Merged(draft, stored)
             new == E!Merged(draft', stored)
  <2>4. /\ old.secret = (IF draft.secret \in {"", E!Mask} THEN stored.secret ELSE draft.secret) /\ old.channel = draft.channel /\ old.url = draft.url /\ old.after = draft.after
    BY <1>0, MergedFacts
  <2>5. /\ new.secret = (IF draft'.secret \in {"", E!Mask} THEN stored.secret ELSE draft'.secret) /\ new.channel = draft'.channel /\ new.url = draft'.url /\ new.after = draft'.after
    BY <1>0, <1>1, MergedFacts
  <2>6. Meets(old) BY <2>3
  <2> HIDE DEF old, new
  <2>7. /\ new.channel = IF typed'.channel = "untyped" THEN "webhook" ELSE typed'.channel
        /\ new.url = IF typed'.url = "untyped" THEN "hook" ELSE typed'.url
        /\ new.after = IF typed'.after = -1 THEN 5 ELSE typed'.after
    <3>1. new.channel = IF typed'.channel = "untyped" THEN "webhook" ELSE typed'.channel BY <2>4, <2>5, <2>6 DEF Meets, EntersTo
    <3>2. new.url = IF typed'.url = "untyped" THEN "hook" ELSE typed'.url BY <2>4, <2>5, <2>6 DEF Meets, EntersTo
    <3>3. new.after = IF typed'.after = -1 THEN 5 ELSE typed'.after BY <2>4, <2>5, <2>6 DEF Meets, EntersTo
    <3>4. QED BY <3>1, <3>2, <3>3
  <2>8. typed'.secret = "" \/ new.secret = IF typed'.secret = "untyped" THEN "ref" ELSE typed'.secret
    <3>1. E!Mask # "new" BY DEF E!Mask
    <3>2. CASE draft'.secret = draft.secret /\ typed'.secret = typed.secret BY <3>2, <2>4, <2>5, <2>6 DEF Meets
    <3>3. CASE draft'.secret = typed'.secret /\ typed'.secret # "untyped" /\ draft'.secret \in {"", "new"} BY <3>1, <3>3, <2>5
    <3>4. QED BY <3>2, <3>3 DEF EntersTo
  <2>9. Meets(E!Merged(draft, stored))' BY <2>7, <2>8 DEF Meets, new
  <2>10. Unsaved' BY <2>1, <2>9 DEF Unsaved
  <2>11. QED BY <2>1, <2>2, <2>10 DEF CalmSoFar
<1>6. QED BY <1>2, <1>3, <1>4, <1>5 DEF AlertsInv, CalmSoFar

LEMMA AlertsGoOn ==
    ASSUME AlertsInv, E!AlertNext
    PROVE  AlertsInv'
<1>0. "" \in TestNames /\ "webhook" \in TestNames BY DEF TestNames
<1>1. CASE E!LoadSettings
  <2>1. E!Posted(E!Request("load", E!Defaults, "")) /\ UNCHANGED <<stored, known, draft, dirty, typed, clean>> BY <1>1 DEF E!LoadSettings
  <2>2. QED BY <2>1, <1>0, OtherPostKeeps
<1>2. ASSUME NEW field \in DOMAIN E!Typable, NEW word \in E!Typable[field], E!Enter(field, word) PROVE AlertsInv'
  <2>1. field \in {"channel", "url", "secret", "after"} BY <1>2 DEF E!Typable
  <2> DEFINE value == E!Entered(field, word)
             calm == \A r \in post : r.kind # "save"
  <2>2. /\ draft' = [draft EXCEPT ![field] = value] /\ dirty' = TRUE /\ typed' = [typed EXCEPT ![field] = value, !.n = @ + 1]
        /\ clean' = (clean /\ known # E!Defaults /\ calm) /\ UNCHANGED <<stored, known, post, count>>
    BY <1>2 DEF E!Enter
  <2>3. draft \in SettingsType /\ draft.secret # "ref" /\ typed \in TypedType BY DEF AlertsInv, AlertsTyped, SecretHidden
  <2>4. EntersTo(draft, typed, draft', typed')
    <3>1. CASE field = "channel"
      <4>1. word \in {"email"} BY <3>1, <1>2 DEF E!Typable
      <4>2. value \in {"email"} BY <3>1, <4>1 DEF E!Entered
      <4>3. draft' = [draft EXCEPT !.channel = value] /\ typed' = [typed EXCEPT !.channel = value, !.n = @ + 1] BY <3>1, <2>2
      <4>4. QED BY <4>2, <4>3, <2>3, ChannelTyped
    <3>2. CASE field = "url"
      <4>1. word \in {"other"} BY <3>2, <1>2 DEF E!Typable
      <4>2. value \in {"other"} BY <3>2, <4>1 DEF E!Entered
      <4>3. draft' = [draft EXCEPT !.url = value] /\ typed' = [typed EXCEPT !.url = value, !.n = @ + 1] BY <3>2, <2>2
      <4>4. QED BY <4>2, <4>3, <2>3, UrlTyped
    <3>3. CASE field = "secret"
      <4>1. word \in {"", "new"} BY <3>3, <1>2 DEF E!Typable
      <4>2. value \in {"", "new"} BY <3>3, <4>1 DEF E!Entered
      <4>3. draft' = [draft EXCEPT !.secret = value] /\ typed' = [typed EXCEPT !.secret = value, !.n = @ + 1] BY <3>3, <2>2
      <4>4. value \in SecretTexts /\ value # "untyped" BY <4>2 DEF SecretTexts
      <4>5. QED BY <4>3, <4>4, <2>3, SecretTyped
    <3>4. CASE field = "after"
      <4>1. word \in {-5, 30} BY <3>4, <1>2 DEF E!Typable
      <4>2. value \in {0, 30} BY <3>4, <4>1 DEF E!Entered
      <4>3. draft' = [draft EXCEPT !.after = value] /\ typed' = [typed EXCEPT !.after = value, !.n = @ + 1] BY <3>4, <2>2
      <4>4. value \in Int /\ value # -1 BY <4>2
      <4>5. QED BY <4>3, <4>4, <2>3, AfterTyped
    <3>5. QED BY <2>1, <3>1, <3>2, <3>3, <3>4
  <2>6. clean' \in BOOLEAN
    <3> HIDE DEF calm
    <3>1. clean \in BOOLEAN BY DEF AlertsInv, AlertsTyped
    <3>2. QED BY <3>1, <2>2
  <2> HIDE DEF value
  <2>7. QED BY <2>2, <2>4, <2>6, EnterKeeps
<1>3. CASE E!ClickSave BY <1>3, <1>0, SaveKeepsAlerts DEF E!ClickSave
<1>4. CASE E!ClickTest("webhook")
  <2>1. CASE E!Save("webhook") BY <2>1, <1>0, SaveKeepsAlerts
  <2>2. CASE E!SendTest("webhook") /\ UNCHANGED <<stored, known, draft, dirty, busy, typed, clean>>
    <3>1. E!Posted(E!Request("test", E!Defaults, "webhook")) BY <2>2 DEF E!SendTest
    <3>2. QED BY <3>1, <2>2, <1>0, OtherPostKeeps
  <2>3. QED BY <1>4, <2>1, <2>2 DEF E!ClickTest
<1>5. ASSUME NEW r \in post, E!Serve(r) PROVE AlertsInv' BY <1>5, ServeKeeps
<1>6. ASSUME NEW r \in post, E!Deliver(r) PROVE AlertsInv' BY <1>6, DeliverKeepsAlerts
<1>7. QED BY <1>1, <1>2, <1>3, <1>4, <1>5, <1>6 DEF E!AlertNext

LEMMA AlertsRest ==
    ASSUME AlertsInv, UNCHANGED alertVars
    PROVE  AlertsInv'
<1>0. UNCHANGED <<stored, known, draft, dirty, post, count, typed, clean>> BY DEF alertVars
<1>1. AlertsTyped' /\ SecretHidden' /\ DraftFollows' BY <1>0 DEF AlertsInv, AlertsTyped, SecretHidden, E!SecretKept, DraftFollows
<1>2. CalmSoFar' BY <1>0 DEF AlertsInv, CalmSoFar, Unsaved, Idle, Meets, Answered
<1>3. QED BY <1>1, <1>2 DEF AlertsInv

\* A stored secret is only replaced by one that was typed; and with nothing on its way and nothing unsaved the page
\* shows what is stored, and that is what was there with what was typed last (MonitorSettings.tsx, monitorStore.ts,
\* api/monitor.go): for every number of requests, edits and tests, as long as none was lost or overtaken.
THEOREM AlertsHold == Spec => [](part = "alerts" => E!AlertsSound)
<1> DEFINE Kept == part = "alerts" => AlertsInv
<1>1. Init => Kept BY AlertsBegin DEF Init
<1>2. Kept /\ [Next]_vars => Kept'
  <2>1. SUFFICES ASSUME Kept, [Next]_vars, part' = "alerts" PROVE AlertsInv' OBVIOUS
  <2>2. part' = part /\ (part = "alerts" => E!AlertNext \/ UNCHANGED alertVars)
    BY <2>1 DEF Next, OfChat, OfPanel, OfCatalog, OfShell, OfHub, OfLibrary, OfBoard, OfHistory, OfAlerts, OfPages, OfFlow, OfEditor, vars, monitorVars
  <2>3. QED BY <2>1, <2>2, AlertsGoOn, AlertsRest
<1>3. Kept => (part = "alerts" => E!AlertsSound)
  <2>1. SUFFICES ASSUME AlertsInv PROVE E!AlertsSound OBVIOUS
  <2>2. ASSUME post = {}, ~dirty, clean PROVE draft = E!Redact(stored) /\ Meets(stored)
    BY <2>1, <2>2 DEF AlertsInv, CalmSoFar, Idle, DraftFollows
  <2>3. ASSUME NEW field \in DOMAIN E!Defaults, Meets(stored)
        PROVE  \/ stored[field] = IF typed[field] = E!Untyped[field] THEN E!Filled[field] ELSE typed[field]
               \/ field = "secret" /\ typed.secret = ""
    <3>1. field \in {"channel", "url", "secret", "after"} BY <2>3 DEF E!Defaults
    <3>2. CASE field = "channel" BY <3>2, <2>3 DEF Meets, E!Untyped, E!Filled
    <3>3. CASE field = "url" BY <3>3, <2>3 DEF Meets, E!Untyped, E!Filled
    <3>4. CASE field = "secret" BY <3>4, <2>3 DEF Meets, E!Untyped, E!Filled
    <3>5. CASE field = "after" BY <3>5, <2>3 DEF Meets, E!Untyped, E!Filled
    <3>6. QED BY <3>1, <3>2, <3>3, <3>4, <3>5
  <2>4. E!SettingsAgree BY <2>2, <2>3 DEF E!SettingsAgree
  <2>5. QED BY <2>1, <2>4 DEF AlertsInv, SecretHidden, E!AlertsSound
<1>4. QED BY <1>1, <1>2, <1>3, PTL DEF Spec

-----------------------------------------------------------------------------
(***************************************************************************)
(* The board of the monitors.                                              *)
(***************************************************************************)

StatusType == {"none", "up", "down", "paused", "unknown"}
MonitorType == [here : BOOLEAN, status : StatusType, change : Nat, enabled : BOOLEAN, muted : BOOLEAN]
AnswerType == UNION {[S -> MonitorType] : S \in SUBSET Ids}
RangeLabels == Ranges \cup {"24h"} \cup {B!Empty.range}
PaneType == [for : Ids \cup {0}, of : Ids \cup {0}, range : RangeLabels]
ChangeKinds == {"remove", "pause", "resume", "mute", "unmute", "save", "create", "check"}
AskType == {c \in [kind : {"list"} \cup B!Panes \cup ChangeKinds, id : Ids \cup {0}, range : RangeLabels, next : Ids \cup {0}, answer : AnswerType] :
              c.kind # "list" => c.id \in Ids}
ToastType == [id : Ids, change : Nat, by : {"poll", "stream"}]
AlertType == [id : Ids, change : Nat, down : BOOLEAN]

\* What is seen of a monitor after e: a later transition, or the same one, which does not turn into an outage.
Follows(e, f) == e.change <= f.change /\ (f.status = "down" /\ f.change = e.change => e.status = "down")
\* The requests on their way, when the rows are rs: lists of their time, in the order they were asked, and one new id at most.
InOrder(q) == \A i, j \in DOMAIN q : i < j /\ q[i].kind = "list" /\ q[j].kind = "list" =>
                 \A m \in DOMAIN q[i].answer \cap DOMAIN q[j].answer : Follows(q[i].answer[m], q[j].answer[m])
Behind(q, rs) == \A i \in DOMAIN q : q[i].kind = "list" => \A m \in DOMAIN q[i].answer : Follows(q[i].answer[m], rs[m])
OneCreate(q, rs) == /\ \A i \in DOMAIN q : q[i].kind = "create" => rs[q[i].id] = B!Unborn
                    /\ \A i, j \in DOMAIN q : q[i].kind = "create" /\ q[j].kind = "create" => i = j
Queued(q, rs) == q \in Seq(AskType) /\ InOrder(q) /\ Behind(q, rs) /\ OneCreate(q, rs)
Views(q) == {q[i].answer : i \in {i \in DOMAIN q : q[i].kind = "list"}}
ChartOf(c, m) == c.kind = "series" /\ c.id = m
LastChart(q, m, r) == \A i \in DOMAIN q : ChartOf(q[i], m) /\ (\A j \in DOMAIN q : i < j => ~ChartOf(q[j], m)) => q[i].range = r
NoChart(q, m) == \A i \in DOMAIN q : ~ChartOf(q[i], m)

-----------------------------------------------------------------------------
(* Toasts: the new outages of a list, by their ids.                        *)

Rank(S, m) == Cardinality({o \in S : o < m})
LEMMA SameCount ==
    ASSUME NEW S
    PROVE  B!Cardinality(S) = Cardinality(S)
BY DEF B!Cardinality, Cardinality
LEMMA RankIsOwn ==
    ASSUME NEW S, S \subseteq Nat, IsFiniteSet(S)
    PROVE  /\ Cardinality(S) \in Nat
           /\ \A m \in S : Rank(S, m) \in Nat /\ Rank(S, m) < Cardinality(S)
           /\ \A m, n \in S : Rank(S, m) = Rank(S, n) => m = n
           /\ \A k \in Nat : k < Cardinality(S) => \E m \in S : Rank(S, m) = k
<1> DEFINE below(m) == {o \in S : o < m}
<1>1. Cardinality(S) \in Nat BY FS_CardinalityType
<1>2. ASSUME NEW m \in S PROVE Rank(S, m) \in Nat /\ Rank(S, m) < Cardinality(S) /\ IsFiniteSet(below(m))
  <2>1. IsFiniteSet(below(m)) /\ Cardinality(below(m)) <= Cardinality(S) /\ (Cardinality(S) = Cardinality(below(m)) => S = below(m))
    <3>1. below(m) \in SUBSET S OBVIOUS
    <3> HIDE DEF below
    <3>2. QED BY <3>1, FS_Subset
  <2>2. S # below(m) OBVIOUS
  <2>3. Cardinality(below(m)) \in Nat BY <2>1, FS_CardinalityType
  <2> HIDE DEF below
  <2>4. Cardinality(below(m)) < Cardinality(S) BY <2>1, <2>2, <2>3, <1>1
  <2>5. Rank(S, m) = Cardinality(below(m)) BY DEF Rank, below
  <2>6. QED BY <2>1, <2>3, <2>4, <2>5
<1>3. ASSUME NEW m \in S, NEW n \in S, m < n PROVE Rank(S, m) < Rank(S, n)
  <2>a. m \in Nat /\ n \in Nat /\ \A o \in S : o \in Nat OBVIOUS
  <2>b. \A o \in S : o < m => o < n BY <2>a, <1>3
  <2>c. ~(m < m) BY <2>a
  <2>1. below(m) \in SUBSET below(n) /\ m \in below(n) /\ m \notin below(m) BY <2>b, <2>c, <1>3, Zenon
  <2>2. IsFiniteSet(below(n)) BY <1>2
  <2> HIDE DEF below
  <2>3. Cardinality(below(m)) <= Cardinality(below(n)) /\ Cardinality(below(n)) # Cardinality(below(m)) BY <2>1, <2>2, FS_Subset
  <2>4. Rank(S, m) = Cardinality(below(m)) /\ Rank(S, n) = Cardinality(below(n)) BY DEF Rank, below
  <2>5. QED BY <2>3, <2>4, <1>2
<1>4. ASSUME NEW m \in S, NEW n \in S, Rank(S, m) = Rank(S, n) PROVE m = n
  <2>1. m \in Nat /\ n \in Nat /\ Rank(S, m) \in Nat BY <1>2
  <2>2. ~(m < n) /\ ~(n < m) BY <1>3, <1>4, <2>1
  <2>3. QED BY <2>1, <2>2
<1>5. ASSUME NEW k \in Nat, k < Cardinality(S) PROVE \E m \in S : Rank(S, m) = k
  <2> DEFINE T == 0..(Cardinality(S) - 1)
             f == [m \in S |-> Rank(S, m)]
  <2>a. \A m \in S : Rank(S, m) \in T
    <3>1. TAKE m \in S
    <3>2. Rank(S, m) \in Nat /\ Rank(S, m) < Cardinality(S) BY <1>2
    <3> HIDE DEF below
    <3>3. QED BY <3>2, <1>1
  <2>1. f \in [S -> T] BY <2>a
  <2>2. \A m, n \in S : f[m] = f[n] => m = n BY <1>4
  <2>3. IsFiniteSet(T) /\ Cardinality(T) = Cardinality(S)
    <3>1. 0 \in Int /\ Cardinality(S) - 1 \in Int /\ ~(0 > Cardinality(S) - 1) BY <1>1, <1>5
    <3>2. QED BY <3>1, <1>1, FS_Interval
  <2>4. f \in Injection(S, T)
    <3> HIDE DEF f, T
    <3> QED BY <2>1, <2>2 DEF Injection, IsInjective
  <2>5. f \in Surjection(S, T)
    <3> HIDE DEF f, T
    <3> QED BY <2>3, <2>4, FS_Injection
  <2>6. k \in T BY <1>1, <1>5
  <2>7. \E m \in S : f[m] = k
    <3> HIDE DEF f, T
    <3> QED BY <2>5, <2>6 DEF Surjection
  <2>8. QED BY <2>7
<1>6. QED BY <1>1, <1>2, <1>4, <1>5

\* Each new outage has its toast, and no two toasts are of one monitor.
LEMMA NewsTold ==
    ASSUME NEW next \in AnswerType
    PROVE  LET told == B!Announced(next)  new == B!News(next) IN
           /\ told \in Seq(ToastType)
           /\ \A k \in DOMAIN told : told[k].by = "poll" /\ told[k].id \in new /\ told[k].change = next[told[k].id].change
           /\ \A m \in new : \E k \in DOMAIN told : told[k].id = m
           /\ \A j, k \in DOMAIN told : told[j].id = told[k].id => j = k
<1> DEFINE told == B!Announced(next)
           new == B!News(next)
           n == Cardinality(new)
           who(k) == B!Nth(new, k)
<1>1. DOMAIN next \subseteq Ids /\ \A m \in DOMAIN next : next[m].change \in Nat BY DEF AnswerType, MonitorType
<1>2. new \subseteq DOMAIN next BY DEF B!News
<1>3. new \subseteq Ids /\ new \subseteq Nat /\ IsFiniteSet(new)
  <2>1. new \in SUBSET Ids BY <1>1, <1>2
  <2>2. QED BY <2>1, ConsoleAssumption, FS_Subset
<1>4. told = [k \in 1..n |-> B!Outage(who(k), next[who(k)].change, "poll")]
  <2>1. B!Cardinality(new) = n BY SameCount, Zenon
  <2>2. told = [k \in 1..B!Cardinality(new) |-> B!Outage(who(k), next[who(k)].change, "poll")] BY Zenon DEF B!Announced
  <2>3. QED BY <2>1, <2>2, Zenon
<1> HIDE DEF new, told
<1>5. n \in Nat /\ (\A m \in new : Rank(new, m) \in Nat /\ Rank(new, m) < n) /\ \A k \in Nat : k < n => \E m \in new : Rank(new, m) = k BY <1>3, RankIsOwn
<1>6. \A m, o \in new : Rank(new, m) = Rank(new, o) => m = o BY <1>3, RankIsOwn
<1>7. ASSUME NEW k \in 1..n PROVE who(k) \in new /\ Rank(new, who(k)) = k - 1
  <2>1. k - 1 \in Nat /\ k - 1 < n BY <1>5
  <2>2. \E m \in new : Rank(new, m) = k - 1 BY <2>1, <1>5
  <2>3. \E m \in new : B!Cardinality({o \in new : o < m}) = k - 1 BY <2>2, SameCount DEF Rank
  <2>4. who(k) \in new /\ B!Cardinality({o \in new : o < who(k)}) = k - 1 BY <2>3, Zenon DEF B!Nth
  <2> HIDE DEF who
  <2>5. QED BY <2>4, SameCount DEF Rank
<1>8. \A m \in new : Rank(new, m) + 1 \in 1..n /\ who(Rank(new, m) + 1) = m
  <2>1. TAKE m \in new
  <2>2. Rank(new, m) + 1 \in 1..n /\ (Rank(new, m) + 1) - 1 = Rank(new, m) BY <1>5
  <2> HIDE DEF n
  <2>3. who(Rank(new, m) + 1) \in new /\ Rank(new, who(Rank(new, m) + 1)) = Rank(new, m) BY <2>2, <1>7
  <2> HIDE DEF who
  <2>4. QED BY <2>2, <2>3, <1>6
<1> HIDE DEF n, who
<1>9. DOMAIN told = 1..n /\ \A k \in 1..n : told[k].id = who(k) /\ told[k].change = next[who(k)].change /\ told[k].by = "poll" /\ told[k] \in ToastType
  <2>1. \A k \in 1..n : who(k) \in Ids /\ next[who(k)].change \in Nat BY <1>1, <1>2, <1>3, <1>7
  <2>2. QED BY <1>4, <2>1 DEF ToastType, B!Outage
<1>10. told \in Seq(ToastType) BY <1>4, <1>5, <1>9
<1>11. \A j, k \in DOMAIN told : told[j].id = told[k].id => j = k
  <2>1. TAKE j, k \in DOMAIN told
  <2>2. HAVE told[j].id = told[k].id
  <2>3. j \in 1..n /\ k \in 1..n /\ who(j) = who(k) BY <2>2, <1>9
  <2>4. j - 1 = k - 1 BY <2>3, <1>7
  <2>5. QED BY <2>3, <2>4, <1>5
<1>12. QED BY <1>7, <1>8, <1>9, <1>10, <1>11 DEF told, new

-----------------------------------------------------------------------------
(* Requests on their way: one answered, one asked, the rows moved on.      *)

Shift(i, k) == IF i < k THEN i ELSE i + 1
LEMMA WithoutIs ==
    ASSUME asked \in Seq(AskType), NEW k \in DOMAIN asked
    PROVE  /\ B!Without(k) \in Seq(AskType)
           /\ DOMAIN B!Without(k) = 1..(Len(asked) - 1)
           /\ \A i \in DOMAIN B!Without(k) : /\ Shift(i, k) \in DOMAIN asked /\ Shift(i, k) # k
                                             /\ B!Without(k)[i] = asked[Shift(i, k)]
           /\ \A j \in DOMAIN asked : j # k => \E i \in DOMAIN B!Without(k) : Shift(i, k) = j
<1> DEFINE front == SubSeq(asked, 1, k - 1)
           back == SubSeq(asked, k + 1, Len(asked))
<1>1. k \in Nat /\ 1 <= k /\ k <= Len(asked) /\ Len(asked) \in Nat OBVIOUS
<1>2. front \in Seq(AskType) /\ Len(front) = k - 1 /\ \A i \in 1..(k - 1) : front[i] = asked[i] BY <1>1
<1>3. back \in Seq(AskType) /\ Len(back) = Len(asked) - k /\ \A i \in 1..(Len(asked) - k) : back[i] = asked[i + k] BY <1>1
<1>4. B!Without(k) = front \o back BY DEF B!Without
<1> HIDE DEF front, back
<1>5. B!Without(k) \in Seq(AskType) /\ Len(B!Without(k)) = Len(asked) - 1 BY <1>1, <1>2, <1>3, <1>4
<1>6. ASSUME NEW i \in 1..(Len(asked) - 1)
      PROVE  Shift(i, k) \in DOMAIN asked /\ Shift(i, k) # k /\ B!Without(k)[i] = asked[Shift(i, k)]
  <2>1. CASE i < k BY <2>1, <1>1, <1>2, <1>3, <1>4 DEF Shift
  <2>2. CASE ~(i < k)
    <3>1. i - (k - 1) \in 1..(Len(asked) - k) /\ (i - (k - 1)) + k = i + 1 BY <2>2, <1>1
    <3>2. (front \o back)[i] = back[i - (k - 1)] BY <2>2, <1>1, <1>2, <1>3
    <3>3. Shift(i, k) = i + 1 /\ i + 1 \in DOMAIN asked /\ i + 1 # k BY <2>2, <1>1 DEF Shift
    <3>4. back[i - (k - 1)] = asked[(i - (k - 1)) + k] BY <3>1, <1>3
    <3>5. B!Without(k)[i] = asked[i + 1] BY <3>1, <3>2, <3>4, <1>4
    <3>6. QED BY <3>3, <3>5
  <2>3. QED BY <2>1, <2>2
<1>7. DOMAIN B!Without(k) = 1..(Len(asked) - 1) BY <1>5
<1>8. ASSUME NEW j \in DOMAIN asked, j # k PROVE \E i \in 1..(Len(asked) - 1) : Shift(i, k) = j
  <2>1. CASE j < k BY <2>1, <1>1 DEF Shift
  <2>2. CASE j > k
    <3>1. j - 1 \in 1..(Len(asked) - 1) /\ Shift(j - 1, k) = j BY <2>2, <1>1 DEF Shift
    <3>2. QED BY <3>1
  <2>3. QED BY <2>1, <2>2, <1>1, <1>8
<1>9. QED BY <1>5, <1>6, <1>7, <1>8

LEMMA ShiftGrows ==
    ASSUME NEW i \in Nat, NEW j \in Nat, NEW k \in Nat, i < j
    PROVE  Shift(i, k) < Shift(j, k)
BY DEF Shift

\* One answered: what is left was there, in the same order.
LEMMA LeftQueued ==
    ASSUME NEW rs, Queued(asked, rs), NEW k \in DOMAIN asked
    PROVE  Queued(B!Without(k), rs) /\ Views(B!Without(k)) \subseteq Views(asked)
<1> DEFINE q == B!Without(k)
<1>1. asked \in Seq(AskType) /\ InOrder(asked) /\ Behind(asked, rs) /\ OneCreate(asked, rs) BY DEF Queued
<1>2. q \in Seq(AskType) /\ \A i \in DOMAIN q : Shift(i, k) \in DOMAIN asked /\ q[i] = asked[Shift(i, k)] BY <1>1, WithoutIs
<1>3. k \in Nat /\ DOMAIN q \subseteq Nat BY <1>1, <1>2
<1>4. \A i, j \in DOMAIN q : i < j => Shift(i, k) < Shift(j, k) BY <1>3, ShiftGrows
<1> HIDE DEF q
<1>5. InOrder(q) BY <1>1, <1>2, <1>4 DEF InOrder
<1>6. Behind(q, rs) BY <1>1, <1>2 DEF Behind
<1>7. OneCreate(q, rs)
  <2>1. ASSUME NEW i \in DOMAIN q, NEW j \in DOMAIN q, q[i].kind = "create", q[j].kind = "create" PROVE i = j
    <3>1. Shift(i, k) = Shift(j, k) BY <2>1, <1>1, <1>2 DEF OneCreate
    <3>2. i \in Nat /\ j \in Nat BY <1>3
    <3>3. QED BY <3>1, <3>2, <1>3 DEF Shift
  <2>2. QED BY <2>1, <1>1, <1>2 DEF OneCreate
<1>8. Views(q) \subseteq Views(asked) BY <1>2 DEF Views
<1>9. QED BY <1>2, <1>5, <1>6, <1>7, <1>8 DEF Queued, q

\* One asked: a list is of the rows as they are.
LEMMA AddedQueued ==
    ASSUME NEW rs, NEW q, Queued(q, rs), NEW c \in AskType, c.kind # "create", c.kind = "list" => \A m \in DOMAIN c.answer : c.answer[m] = rs[m]
    PROVE  Queued(Append(q, c), rs) /\ Views(Append(q, c)) \subseteq Views(q) \cup IF c.kind = "list" THEN {c.answer} ELSE {}
<1> DEFINE p == Append(q, c)
<1>1. q \in Seq(AskType) /\ InOrder(q) /\ Behind(q, rs) /\ OneCreate(q, rs) BY DEF Queued
<1>2. /\ p \in Seq(AskType) /\ Len(p) = Len(q) + 1 /\ Len(q) \in Nat /\ p[Len(p)] = c /\ DOMAIN p = 1..Len(p) /\ DOMAIN q = 1..Len(q)
      /\ \A i \in DOMAIN p : i = Len(p) \/ (i \in DOMAIN q /\ p[i] = q[i])
  BY <1>1
<1> HIDE DEF p
<1>3. InOrder(p)
  <2>1. SUFFICES ASSUME NEW i \in DOMAIN p, NEW j \in DOMAIN p, i < j, p[i].kind = "list", p[j].kind = "list",
                        NEW m \in DOMAIN p[i].answer \cap DOMAIN p[j].answer
                 PROVE  Follows(p[i].answer[m], p[j].answer[m])
    BY DEF InOrder
  <2>2. i \in DOMAIN q /\ p[i] = q[i] BY <2>1, <1>2
  <2>3. CASE j = Len(p)
    <3>1. p[j].answer[m] = rs[m] BY <2>1, <2>3, <1>2
    <3>2. QED BY <3>1, <2>1, <2>2, <1>1 DEF Behind
  <2>4. CASE j # Len(p)
    <3>1. j \in DOMAIN q /\ p[j] = q[j] BY <2>4, <1>2
    <3>2. QED BY <3>1, <2>1, <2>2, <1>1 DEF InOrder
  <2>5. QED BY <2>3, <2>4
<1>4. Behind(p, rs)
  <2>1. SUFFICES ASSUME NEW i \in DOMAIN p, p[i].kind = "list", NEW m \in DOMAIN p[i].answer PROVE Follows(p[i].answer[m], rs[m])
    BY DEF Behind
  <2>2. CASE i = Len(p)
    <3>1. p[i] = c /\ c.answer[m] = rs[m] /\ c.answer \in AnswerType BY <2>1, <2>2, <1>2 DEF AskType
    <3>2. c.answer[m].change \in Nat BY <3>1, <2>1 DEF AnswerType, MonitorType
    <3>3. QED BY <3>1, <3>2 DEF Follows
  <2>3. CASE i # Len(p) BY <2>1, <2>3, <1>1, <1>2 DEF Behind
  <2>4. QED BY <2>2, <2>3
<1>5. OneCreate(p, rs) BY <1>1, <1>2 DEF OneCreate
<1>6. Views(p) \subseteq Views(q) \cup IF c.kind = "list" THEN {c.answer} ELSE {} BY <1>2 DEF Views
<1>7. QED BY <1>2, <1>3, <1>4, <1>5, <1>6 DEF Queued, p

LEMMA FollowsOn ==
    ASSUME NEW e \in MonitorType, NEW f \in MonitorType, NEW g \in MonitorType, Follows(e, f), Follows(f, g)
    PROVE  Follows(e, g)
BY DEF Follows, MonitorType

\* The rows moved on: none went back, and a new id is still new.
LEMMA MovedQueued ==
    ASSUME NEW q, NEW rs \in [Ids -> MonitorType], NEW rs2 \in [Ids -> MonitorType], Queued(q, rs), \A m \in Ids : Follows(rs[m], rs2[m]), OneCreate(q, rs2)
    PROVE  Queued(q, rs2)
<1>1. q \in Seq(AskType) /\ Behind(q, rs) BY DEF Queued
<1>2. ASSUME NEW i \in DOMAIN q, q[i].kind = "list", NEW m \in DOMAIN q[i].answer PROVE Follows(q[i].answer[m], rs2[m])
  <2>1. q[i] \in AskType BY <1>1
  <2>2. m \in Ids /\ q[i].answer[m] \in MonitorType BY <2>1 DEF AskType, AnswerType
  <2>3. Follows(q[i].answer[m], rs[m]) BY <1>1, <1>2 DEF Behind
  <2>4. QED BY <2>2, <2>3, FollowsOn
<1>3. QED BY <1>2 DEF Queued, Behind

\* The chart asked for last.
LEMMA LeftChart ==
    ASSUME asked \in Seq(AskType), NEW k \in DOMAIN asked, NEW m, NEW r, LastChart(asked, m, r),
           asked[k].kind = "series" => ~\E i \in DOMAIN asked : i < k /\ asked[i].kind = "series"
    PROVE  LastChart(B!Without(k), m, r)
<1> DEFINE q == B!Without(k)
<1>1. /\ q \in Seq(AskType) /\ \A i \in DOMAIN q : Shift(i, k) \in DOMAIN asked /\ Shift(i, k) # k /\ q[i] = asked[Shift(i, k)]
      /\ \A j \in DOMAIN asked : j # k => \E i \in DOMAIN q : Shift(i, k) = j
  BY WithoutIs
<1>2. k \in Nat /\ DOMAIN q \subseteq Nat BY <1>1
<1> HIDE DEF q
<1>3. SUFFICES ASSUME NEW i \in DOMAIN q, ChartOf(q[i], m), \A j \in DOMAIN q : i < j => ~ChartOf(q[j], m)
               PROVE  q[i].range = r
  BY DEF LastChart, q
<1>4. ASSUME NEW j \in DOMAIN asked, Shift(i, k) < j, ChartOf(asked[j], m) PROVE FALSE
  <2>1. CASE j = k
    <3>1. asked[k].kind = "series" /\ asked[Shift(i, k)].kind = "series" BY <1>4, <2>1, <1>1, <1>3 DEF ChartOf
    <3>2. QED BY <3>1, <2>1, <1>1, <1>4
  <2>2. CASE j # k
    <3>1. PICK h \in DOMAIN q : Shift(h, k) = j BY <2>2, <1>1
    <3>2. i \in Nat /\ h \in Nat BY <1>2
    <3>3. i < h BY <3>1, <3>2, <1>2, <1>4 DEF Shift
    <3>4. QED BY <3>1, <3>3, <1>1, <1>3, <1>4
  <2>3. QED BY <2>1, <2>2
<1>5. asked[Shift(i, k)].range = r BY <1>1, <1>3, <1>4 DEF LastChart
<1>6. QED BY <1>5, <1>1

LEMMA LeftNoChart ==
    ASSUME asked \in Seq(AskType), NEW k \in DOMAIN asked, NEW m
    PROVE  /\ NoChart(asked, m) => NoChart(B!Without(k), m)
           /\ NoChart(B!Without(k), m) => NoChart(asked, m) \/ (ChartOf(asked[k], m) /\ \A j \in DOMAIN asked : ChartOf(asked[j], m) => j = k)
<1> DEFINE q == B!Without(k)
<1>1. /\ \A i \in DOMAIN q : Shift(i, k) \in DOMAIN asked /\ q[i] = asked[Shift(i, k)]
      /\ \A j \in DOMAIN asked : j # k => \E i \in DOMAIN q : Shift(i, k) = j
  BY WithoutIs
<1> HIDE DEF q
<1>2. NoChart(asked, m) => NoChart(q, m) BY <1>1 DEF NoChart
<1>3. ASSUME NoChart(q, m), NEW j \in DOMAIN asked, ChartOf(asked[j], m) PROVE j = k
  <2>1. SUFFICES ASSUME j # k PROVE FALSE OBVIOUS
  <2>2. PICK i \in DOMAIN q : Shift(i, k) = j BY <2>1, <1>1
  <2>3. QED BY <2>2, <1>1, <1>3 DEF NoChart
<1>4. QED BY <1>2, <1>3 DEF NoChart, q

LEMMA AddedChart ==
    ASSUME NEW q \in Seq(AskType), NEW c \in AskType, NEW m, NEW r
    PROVE  /\ LastChart(q, m, r) /\ (ChartOf(c, m) => c.range = r) => LastChart(Append(q, c), m, r)
           /\ NoChart(q, m) /\ ~ChartOf(c, m) => NoChart(Append(q, c), m)
           /\ NoChart(Append(q, c), m) => NoChart(q, m) /\ ~ChartOf(c, m)
           /\ ChartOf(c, m) /\ c.range = r => LastChart(Append(q, c), m, r)
<1> DEFINE p == Append(q, c)
<1>1. /\ Len(p) = Len(q) + 1 /\ Len(q) \in Nat /\ p[Len(p)] = c /\ DOMAIN p = 1..Len(p) /\ DOMAIN q = 1..Len(q)
      /\ \A i \in DOMAIN q : i \in DOMAIN p /\ p[i] = q[i] /\ i < Len(p) /\ i # Len(p)
      /\ \A i \in DOMAIN p : i = Len(p) \/ (i \in DOMAIN q /\ p[i] = q[i])
      /\ Len(p) \in DOMAIN p
  OBVIOUS
<1> HIDE DEF p
<1>2. ASSUME ChartOf(c, m), c.range = r PROVE LastChart(p, m, r) BY <1>1, <1>2 DEF LastChart
<1>3. ASSUME LastChart(q, m, r), ~ChartOf(c, m) PROVE LastChart(p, m, r) BY <1>1, <1>3 DEF LastChart
<1>4. NoChart(q, m) /\ ~ChartOf(c, m) <=> NoChart(p, m) BY <1>1 DEF NoChart
<1>5. QED BY <1>2, <1>3, <1>4 DEF p

-----------------------------------------------------------------------------
(* What is asked.                                                          *)

LEMMA AskListIs ==
    ASSUME rows \in [Ids -> MonitorType], NEW n \in Ids \cup {0}
    PROVE  LET c == B!AskList(n) IN
           /\ c \in AskType /\ c.kind = "list" /\ c.next = n /\ \A m \in DOMAIN c.answer : c.answer[m] = rows[m]
<1> DEFINE snap == B!Snapshot
           blank == ""
<1>1. snap \in AnswerType /\ \A m \in DOMAIN snap : snap[m] = rows[m]
  <2>1. B!Listed \in SUBSET Ids BY DEF B!Listed
  <2>2. snap = [m \in B!Listed |-> rows[m]] BY DEF B!Snapshot
  <2> HIDE DEF snap
  <2>3. snap \in [B!Listed -> MonitorType] BY <2>1, <2>2
  <2>4. QED BY <2>1, <2>2, <2>3 DEF AnswerType
<1>2. blank \in RangeLabels BY DEF RangeLabels, B!Empty
<1>3. B!AskList(n) = [kind |-> "list", id |-> 0, range |-> blank, next |-> n, answer |-> snap] BY DEF B!AskList, B!Nothing
<1> HIDE DEF snap, blank
<1>4. QED BY <1>1, <1>2, <1>3 DEF AskType

LEMMA NoneIs == B!None \in AnswerType /\ DOMAIN B!None = {}
<1>1. B!None \in [{} -> MonitorType] /\ DOMAIN B!None = {} BY DEF B!None
<1>2. {} \in SUBSET Ids OBVIOUS
<1>3. QED BY <1>1, <1>2 DEF AnswerType

LEMMA AskPaneIs ==
    ASSUME NEW w \in B!Panes, NEW m \in Ids, NEW r \in RangeLabels
    PROVE  LET c == B!AskPane(w, m, r) IN c \in AskType /\ c.kind = w /\ c.id = m /\ c.kind # "list" /\ c.kind # "create" /\ (w = "series" => c.range = r)
<1> DEFINE label == IF w = "series" THEN r ELSE ""
           none == B!None
<1>1. "" \in RangeLabels BY DEF RangeLabels, B!Empty
<1>2. label \in RangeLabels /\ (w = "series" => label = r) BY <1>1
<1>3. B!AskPane(w, m, r) = [kind |-> w, id |-> m, range |-> label, next |-> 0, answer |-> none] BY DEF B!AskPane, B!Nothing
<1>4. none \in AnswerType BY NoneIs
<1>5. w \notin {"list", "create"} /\ w \in {"list"} \cup B!Panes \cup ChangeKinds BY DEF B!Panes
<1> HIDE DEF label, none
<1>6. QED BY <1>2, <1>3, <1>4, <1>5 DEF AskType

LEMMA AskChangeIs ==
    ASSUME NEW kind \in ChangeKinds, NEW m \in Ids
    PROVE  LET c == B!AskChange(kind, m) IN c \in AskType /\ c.kind = kind /\ c.id = m /\ c.kind # "list" /\ c.kind # "series"
<1> DEFINE none == B!None
           blank == ""
<1>1. blank \in RangeLabels BY DEF RangeLabels, B!Empty
<1>2. B!AskChange(kind, m) = [kind |-> kind, id |-> m, range |-> blank, next |-> 0, answer |-> none] BY DEF B!AskChange, B!Nothing
<1>3. none \in AnswerType BY NoneIs
<1>4. kind \notin {"list", "series"} /\ kind \in {"list"} \cup B!Panes \cup ChangeKinds BY DEF ChangeKinds
<1> HIDE DEF none, blank
<1>5. QED BY <1>1, <1>2, <1>3, <1>4 DEF AskType

LEMMA OneMore ==
    ASSUME NEW S, NEW q \in Seq(S), NEW c \in S
    PROVE  q \o <<c>> = Append(q, c)
OBVIOUS
LEMMA TwoMore ==
    ASSUME NEW S, NEW q \in Seq(S), NEW c \in S, NEW d \in S
    PROVE  q \o <<c, d>> = Append(Append(q, c), d)
OBVIOUS
LEMMA MoreAppended ==
    ASSUME NEW S, NEW q \in Seq(S), NEW p \in Seq(S), NEW d \in S
    PROVE  q \o Append(p, d) = Append(q \o p, d) /\ q \o p \in Seq(S)
OBVIOUS

\* The two feeds of a pane, and all three.
LEMMA FeedsAdded ==
    ASSUME NEW rs, NEW q, Queued(q, rs), NEW m \in Ids, NEW r \in RangeLabels
    PROVE  LET p == q \o B!AskFeeds(m, r) IN
           /\ Queued(p, rs) /\ Views(p) \subseteq Views(q)
           /\ \A x, y : LastChart(q, x, y) => LastChart(p, x, y)
           /\ \A x : NoChart(p, x) => NoChart(q, x)
<1> DEFINE a == B!AskPane("samples", m, r)
           b == B!AskPane("incidents", m, r)
           o == Append(q, a)
           p == Append(o, b)
<1>1. q \in Seq(AskType) BY DEF Queued
<1>2. /\ a \in AskType /\ a.kind \notin {"list", "create", "series"}
      /\ b \in AskType /\ b.kind \notin {"list", "create", "series"}
  BY AskPaneIs DEF B!Panes
<1> HIDE DEF a, b
<1>3. q \o B!AskFeeds(m, r) = p BY <1>1, <1>2, TwoMore DEF B!AskFeeds, a, b
<1>4. Queued(o, rs) /\ Views(o) \subseteq Views(q) BY <1>2, AddedQueued
<1>5. o \in Seq(AskType) BY <1>1, <1>2
<1>6. \A x, y : /\ LastChart(q, x, y) => LastChart(o, x, y)
                /\ NoChart(o, x) => NoChart(q, x)
  <2>1. \A x : ~ChartOf(a, x) BY <1>2 DEF ChartOf
  <2>2. QED BY <1>1, <1>2, <2>1, AddedChart
<1> HIDE DEF o
<1>7. Queued(p, rs) /\ Views(p) \subseteq Views(o) BY <1>2, <1>4, AddedQueued
<1>8. \A x, y : /\ LastChart(o, x, y) => LastChart(p, x, y)
                /\ NoChart(p, x) => NoChart(o, x)
  <2>1. \A x : ~ChartOf(b, x) BY <1>2 DEF ChartOf
  <2>2. QED BY <1>5, <1>2, <2>1, AddedChart
<1> HIDE DEF p
<1>9. QED BY <1>3, <1>4, <1>6, <1>7, <1>8

LEMMA PanesAdded ==
    ASSUME NEW rs, NEW q, Queued(q, rs), NEW m \in Ids, NEW r \in RangeLabels
    PROVE  LET p == q \o B!AskPanes(m, r) IN
           /\ Queued(p, rs) /\ Views(p) \subseteq Views(q)
           /\ LastChart(p, m, r) /\ ~NoChart(p, m)
           /\ \A x, y : x # m /\ LastChart(q, x, y) => LastChart(p, x, y)
           /\ \A x : NoChart(p, x) => NoChart(q, x)
<1> DEFINE o == q \o B!AskFeeds(m, r)
           c == B!AskPane("series", m, r)
           p == Append(o, c)
<1>1. c \in AskType /\ c.kind = "series" /\ c.kind # "list" /\ c.kind # "create" /\ c.id = m /\ c.range = r
  BY AskPaneIs DEF B!Panes
<1>2. q \in Seq(AskType) BY DEF Queued
<1>3. B!AskFeeds(m, r) \in Seq(AskType)
  <2>1. B!AskPane("samples", m, r) \in AskType /\ B!AskPane("incidents", m, r) \in AskType BY AskPaneIs DEF B!Panes
  <2>2. QED BY <2>1 DEF B!AskFeeds
<1>4. q \o B!AskPanes(m, r) = p
  <2> HIDE DEF c
  <2>1. B!AskPanes(m, r) = Append(B!AskFeeds(m, r), c) BY DEF B!AskPanes, c
  <2>2. QED BY <2>1, <1>1, <1>2, <1>3, MoreAppended
<1>5. /\ Queued(o, rs) /\ Views(o) \subseteq Views(q)
      /\ \A x, y : LastChart(q, x, y) => LastChart(o, x, y)
      /\ \A x : NoChart(o, x) => NoChart(q, x)
  BY FeedsAdded
<1>6. o \in Seq(AskType) BY <1>5 DEF Queued
<1> HIDE DEF o, c
<1>7. Queued(p, rs) /\ Views(p) \subseteq Views(o) BY <1>1, <1>5, AddedQueued
<1>8. \A x, y : /\ x # m /\ LastChart(o, x, y) => LastChart(p, x, y)
                /\ NoChart(p, x) => NoChart(o, x) /\ ~ChartOf(c, x)
  <2>1. \A x : x # m => ~ChartOf(c, x) BY <1>1 DEF ChartOf
  <2>2. QED BY <1>6, <1>1, <2>1, AddedChart
<1>9. ChartOf(c, m) /\ LastChart(p, m, r)
  <2>1. ChartOf(c, m) BY <1>1 DEF ChartOf
  <2>2. QED BY <2>1, <1>6, <1>1, AddedChart
<1> HIDE DEF p
<1>10. QED BY <1>4, <1>5, <1>7, <1>8, <1>9

-----------------------------------------------------------------------------
(* The invariant.                                                          *)

TimesType == UNION {[S -> Nat] : S \in SUBSET Ids}
BoardTyped ==
    /\ rows \in [Ids -> MonitorType] /\ flips \in Nat /\ \A m \in Ids : rows[m].change <= flips
    /\ timer \in BOOLEAN /\ shuffled \in BOOLEAN /\ list \in AnswerType
    /\ seen \in TimesType /\ met \in TimesType /\ DOMAIN met = DOMAIN seen
    /\ watched \in Ids \cup {0} /\ range \in RangeLabels /\ panes \in [B!Panes -> PaneType] /\ dialog \in Ids \cup {0, 99}
    /\ alerts \in Seq(AlertType) /\ toasts \in Seq(ToastType)
\* A pane holds data of the monitor it says it is of, or nothing.
PanesOwn == \A w \in B!Panes : panes[w].of = 0 \/ panes[w].of = panes[w].for
\* The last chart asked for of the monitor shown is of the range its buttons show, and so is the chart that is there when none is.
ChartKept == ~shuffled /\ watched # 0 =>
    /\ LastChart(asked, watched, range)
    /\ NoChart(asked, watched) /\ panes["series"].for = watched /\ panes["series"].of # 0 => panes["series"].range = range
\* What was seen of a monitor is not newer than what the lists on their way, and its row, say of it.
SeenBehind == ~shuffled => \A m \in DOMAIN seen : /\ seen[m] <= rows[m].change
                                                  /\ \A v \in Views(asked) : m \in DOMAIN v => seen[m] <= v[m].change
\* An outage that was seen, after what its monitor was met with, was told.
DownAt(e, c) == e.status = "down" /\ e.change = c
Toasted(ts, m, c) == \E i \in DOMAIN ts : ts[i].id = m /\ ts[i].change = c
Witnessed(rs, ls, q, m, c) == \/ DownAt(rs[m], c)
                              \/ m \in DOMAIN ls /\ DownAt(ls[m], c)
                              \/ \E v \in Views(q) : m \in DOMAIN v /\ DownAt(v[m], c)
Told == ~shuffled => \A m \in DOMAIN seen : seen[m] > met[m] /\ Witnessed(rows, list, asked, m, seen[m]) => Toasted(toasts, m, seen[m])
\* An outage told by a poll is not newer than anything of its monitor, and is told by one poll.
NotAfter(rs, ss, q, t) == /\ t.change <= rs[t.id].change
                          /\ t.id \in DOMAIN ss => t.change <= ss[t.id]
                          /\ \A v \in Views(q) : t.id \in DOMAIN v => t.change <= v[t.id].change
ByPoll(ts, i) == i \in DOMAIN ts /\ ts[i].by = "poll"
PollOnce == ~shuffled =>
    /\ \A i \in DOMAIN toasts : ByPoll(toasts, i) => NotAfter(rows, seen, asked, toasts[i])
    /\ \A i, j \in DOMAIN toasts : i < j /\ ByPoll(toasts, i) /\ ByPoll(toasts, j) => toasts[i].id # toasts[j].id \/ toasts[i].change # toasts[j].change
NewsKept == SeenBehind /\ Told /\ PollOnce

BoardInv == BoardTyped /\ B!OneFeed /\ PanesOwn /\ Queued(asked, rows) /\ ChartKept /\ NewsKept

LEMMA BoardBegins ==
    ASSUME B!BoardInit
    PROVE  BoardInv
<1>0. /\ timer = FALSE /\ feeds = 0 /\ alerts = <<>> /\ list = B!None /\ seen = B!None /\ watched = 0 /\ range = "24h"
      /\ panes = [w \in B!Panes |-> B!Empty] /\ dialog = 0 /\ asked = <<>> /\ toasts = <<>> /\ flips = 1 /\ met = B!None /\ shuffled = FALSE
  BY DEF B!BoardInit, B!Nothing
<1>1. rows \in [Ids -> MonitorType] /\ \A m \in Ids : rows[m].change <= 1
  <2> DEFINE up == [here |-> TRUE, status |-> "up", change |-> 1, enabled |-> TRUE, muted |-> FALSE]
             unborn == B!Unborn
  <2>1. up \in MonitorType /\ up.change = 1 BY DEF MonitorType, StatusType
  <2>2. unborn \in MonitorType /\ unborn.change = 0 BY DEF MonitorType, StatusType, B!Unborn
  <2>3. PICK first \in SUBSET Ids : rows = [m \in Ids |-> IF m \in first THEN up ELSE unborn] BY DEF B!BoardInit
  <2> HIDE DEF up, unborn
  <2>4. QED BY <2>1, <2>2, <2>3
<1>2. list \in AnswerType /\ DOMAIN list = {} BY <1>0, NoneIs
<1>3. seen \in TimesType /\ met \in TimesType /\ DOMAIN seen = {} /\ DOMAIN met = {}
  <2>1. B!None \in [{} -> Nat] /\ DOMAIN B!None = {} BY DEF B!None
  <2>2. {} \in SUBSET Ids OBVIOUS
  <2>3. B!None \in TimesType BY <2>1, <2>2 DEF TimesType
  <2>4. QED BY <1>0, <2>1, <2>3
<1>4. B!Empty \in PaneType /\ B!Empty.of = 0
  <2> DEFINE blank == B!Empty.range
  <2>1. B!Empty = [for |-> 0, of |-> 0, range |-> blank] BY DEF B!Empty, B!Nothing
  <2>2. blank \in RangeLabels BY DEF RangeLabels
  <2> HIDE DEF blank
  <2>3. QED BY <2>1, <2>2 DEF PaneType
<1>5. panes \in [B!Panes -> PaneType] /\ \A w \in B!Panes : panes[w].of = 0
  <2> DEFINE empty == B!Empty
  <2>1. empty \in PaneType /\ empty.of = 0 /\ panes = [w \in B!Panes |-> empty] BY <1>0, <1>4
  <2> HIDE DEF empty
  <2>2. QED BY <2>1
<1>6. range \in RangeLabels BY <1>0 DEF RangeLabels
<1>7. BoardTyped
  <2>1. asked \in Seq(AskType) /\ alerts \in Seq(AlertType) /\ toasts \in Seq(ToastType) BY <1>0
  <2>2. flips \in Nat /\ flips = 1 /\ timer \in BOOLEAN /\ shuffled \in BOOLEAN /\ watched \in Ids \cup {0} /\ dialog \in Ids \cup {0, 99} BY <1>0
  <2>3. QED BY <1>1, <1>2, <1>3, <1>5, <1>6, <2>1, <2>2 DEF BoardTyped
<1>8. Queued(asked, rows)
  <2>1. asked \in Seq(AskType) /\ DOMAIN asked = {} BY <1>0
  <2>2. QED BY <2>1 DEF Queued, InOrder, Behind, OneCreate
<1>9. B!OneFeed /\ PanesOwn BY <1>0, <1>5 DEF B!OneFeed, PanesOwn
<1>10. ChartKept BY <1>0 DEF ChartKept
<1>11. NewsKept
  <2>1. DOMAIN toasts = {} BY <1>0
  <2>2. QED BY <2>1, <1>3 DEF NewsKept, SeenBehind, Told, PollOnce
<1>12. QED BY <1>7, <1>8, <1>9, <1>10, <1>11 DEF BoardInv

LEMMA ViewIs ==
    ASSUME NEW q \in Seq(AskType), NEW v \in Views(q)
    PROVE  v \in AnswerType /\ \A m \in DOMAIN v : m \in Ids /\ v[m] \in MonitorType
<1>1. v \in AnswerType BY DEF Views, AskType
<1>2. QED BY <1>1 DEF AnswerType

\* Until a list is answered, what was seen and told stays true: what is asked is of the rows, and rows do not go back.
LEMMA NewsStays ==
    ASSUME BoardTyped, NewsKept, rows' \in [Ids -> MonitorType], \A m \in Ids : Follows(rows[m], rows'[m]),
           asked' \in Seq(AskType), \A v \in Views(asked') : v \in Views(asked) \/ \A m \in DOMAIN v : v[m] = rows'[m],
           list' = list, DOMAIN seen' \subseteq DOMAIN seen, \A m \in DOMAIN seen' : seen'[m] = seen[m] /\ met'[m] = met[m],
           toasts' = toasts \/ \E t \in ToastType : t.by = "stream" /\ toasts' = Append(toasts, t),
           ~shuffled' => ~shuffled
    PROVE  NewsKept'
<1>1. SUFFICES ASSUME ~shuffled' PROVE NewsKept' BY DEF NewsKept, SeenBehind, Told, PollOnce
<1>2. ~shuffled BY <1>1
<1>3. /\ rows \in [Ids -> MonitorType] /\ toasts \in Seq(ToastType) /\ DOMAIN seen \subseteq Ids /\ \A m \in DOMAIN seen : seen[m] \in Nat
  BY DEF BoardTyped, TimesType
<1>4. /\ \A m \in DOMAIN seen : seen[m] <= rows[m].change /\ \A v \in Views(asked) : m \in DOMAIN v => seen[m] <= v[m].change
      /\ \A m \in DOMAIN seen : seen[m] > met[m] /\ Witnessed(rows, list, asked, m, seen[m]) => Toasted(toasts, m, seen[m])
      /\ \A i \in DOMAIN toasts : ByPoll(toasts, i) => NotAfter(rows, seen, asked, toasts[i])
      /\ \A i, j \in DOMAIN toasts : i < j /\ ByPoll(toasts, i) /\ ByPoll(toasts, j) => toasts[i].id # toasts[j].id \/ toasts[i].change # toasts[j].change
  BY <1>2 DEF NewsKept, SeenBehind, Told, PollOnce
<1>5. \A m \in Ids : rows[m].change \in Nat /\ rows'[m].change \in Nat /\ rows[m].change <= rows'[m].change
  BY <1>3 DEF MonitorType, Follows
<1>6. ASSUME NEW c \in Nat, NEW m \in Ids, c <= rows[m].change
      PROVE  /\ c <= rows'[m].change
             /\ DownAt(rows'[m], c) => DownAt(rows[m], c)
  BY <1>6, <1>5 DEF Follows, DownAt
<1>7. ASSUME NEW v \in Views(asked'), NEW m \in DOMAIN v PROVE m \in Ids BY <1>7, ViewIs
<1>8. SeenBehind'
  <2>1. SUFFICES ASSUME NEW m \in DOMAIN seen'
                 PROVE  seen'[m] <= rows'[m].change /\ \A v \in Views(asked') : m \in DOMAIN v => seen'[m] <= v[m].change
    BY DEF SeenBehind
  <2>2. m \in Ids /\ seen'[m] = seen[m] /\ seen[m] \in Nat /\ seen[m] <= rows[m].change /\ m \in DOMAIN seen BY <1>3, <1>4
  <2>3. seen[m] <= rows'[m].change BY <2>2, <1>6
  <2>4. ASSUME NEW v \in Views(asked'), m \in DOMAIN v PROVE seen[m] <= v[m].change
    <3>1. v \in Views(asked) \/ v[m] = rows'[m] BY <2>4
    <3>2. QED BY <3>1, <2>2, <2>3, <2>4, <1>4
  <2>5. QED BY <2>2, <2>3, <2>4
<1>9. \A m, c : Toasted(toasts, m, c) => Toasted(toasts', m, c)
  <2>1. \A i \in DOMAIN toasts : i \in DOMAIN toasts' /\ toasts'[i] = toasts[i] BY <1>3
  <2>2. QED BY <2>1 DEF Toasted
<1>10. Told'
  <2>1. SUFFICES ASSUME NEW m \in DOMAIN seen', seen'[m] > met'[m], Witnessed(rows', list', asked', m, seen'[m]) PROVE Toasted(toasts', m, seen'[m])
    BY DEF Told
  <2>2. m \in Ids /\ seen'[m] = seen[m] /\ met'[m] = met[m] /\ seen[m] \in Nat /\ seen[m] <= rows[m].change /\ m \in DOMAIN seen BY <1>3, <1>4
  <2>3. \/ DownAt(rows'[m], seen[m]) \/ (m \in DOMAIN list /\ DownAt(list[m], seen[m]))
        \/ \E v \in Views(asked') : m \in DOMAIN v /\ DownAt(v[m], seen[m])
    BY <2>1, <2>2 DEF Witnessed
  <2>4. DownAt(rows'[m], seen[m]) => DownAt(rows[m], seen[m]) BY <2>2, <1>6
  <2>5. Witnessed(rows, list, asked, m, seen[m])
    <3>1. ASSUME NEW v \in Views(asked'), m \in DOMAIN v, DownAt(v[m], seen[m]) PROVE Witnessed(rows, list, asked, m, seen[m])
      <4>1. v \in Views(asked) \/ v[m] = rows'[m] BY <3>1
      <4>2. QED BY <4>1, <3>1, <2>4 DEF Witnessed
    <3>2. QED BY <2>3, <2>4, <3>1 DEF Witnessed
  <2>6. QED BY <2>1, <2>2, <2>5, <1>4, <1>9
<1>11. ASSUME NEW i \in DOMAIN toasts', ByPoll(toasts', i) PROVE i \in DOMAIN toasts /\ toasts'[i] = toasts[i] /\ ByPoll(toasts, i)
  <2>1. CASE toasts' = toasts BY <2>1, <1>11
  <2>2. ASSUME NEW t \in ToastType, t.by = "stream", toasts' = Append(toasts, t) PROVE i \in DOMAIN toasts /\ toasts'[i] = toasts[i] /\ ByPoll(toasts, i)
    <3>1. i = Len(toasts) + 1 \/ (i \in DOMAIN toasts /\ toasts'[i] = toasts[i]) BY <2>2, <1>3
    <3>2. toasts'[Len(toasts) + 1] = t BY <2>2, <1>3
    <3>3. QED BY <3>1, <3>2, <2>2, <1>11 DEF ByPoll
  <2>3. QED BY <2>1, <2>2
<1>12. PollOnce'
  <2>1. ASSUME NEW i \in DOMAIN toasts', ByPoll(toasts', i) PROVE NotAfter(rows', seen', asked', toasts'[i])
    <3>1. i \in DOMAIN toasts /\ toasts'[i] = toasts[i] /\ NotAfter(rows, seen, asked, toasts[i]) BY <2>1, <1>11, <1>4
    <3>a. toasts[i] \in ToastType BY <3>1, <1>3
    <3> DEFINE t == toasts[i]
    <3>2. t.id \in Ids /\ t.change \in Nat BY <3>a DEF ToastType
    <3>3. t.change <= rows[t.id].change /\ (t.id \in DOMAIN seen => t.change <= seen[t.id])
          /\ \A v \in Views(asked) : t.id \in DOMAIN v => t.change <= v[t.id].change BY <3>1 DEF NotAfter
    <3>4. toasts'[i] = t BY <3>1
    <3> HIDE DEF t
    <3>5. t.change <= rows'[t.id].change BY <3>2, <3>3, <1>6
    <3>6. t.id \in DOMAIN seen' => t.change <= seen'[t.id] BY <3>3
    <3>7. ASSUME NEW v \in Views(asked'), t.id \in DOMAIN v PROVE t.change <= v[t.id].change
      <4>1. v \in Views(asked) \/ v[t.id] = rows'[t.id] BY <3>7
      <4>2. QED BY <4>1, <3>3, <3>5, <3>7
    <3>8. QED BY <3>4, <3>5, <3>6, <3>7 DEF NotAfter
  <2>2. ASSUME NEW i \in DOMAIN toasts', NEW j \in DOMAIN toasts', i < j, ByPoll(toasts', i), ByPoll(toasts', j)
        PROVE  toasts'[i].id # toasts'[j].id \/ toasts'[i].change # toasts'[j].change
    BY <2>2, <1>11, <1>4
  <2>3. QED BY <2>1, <2>2 DEF PollOnce
<1>13. QED BY <1>8, <1>10, <1>12 DEF NewsKept

LEMMA ChartStays ==
    ASSUME ChartKept, ~shuffled' => ~shuffled, watched' = watched, range' = range, panes'["series"] = panes["series"],
           LastChart(asked, watched, range) => LastChart(asked', watched, range), NoChart(asked', watched) => NoChart(asked, watched)
    PROVE  ChartKept'
BY DEF ChartKept

-----------------------------------------------------------------------------
(* The steps.                                                              *)

\* A step that asks, forgets a request or moves a row on, and writes nothing of the board but its toasts and alerts.
LEMMA AskKeeps ==
    ASSUME BoardInv, UNCHANGED <<list, seen, met, watched, range, panes>>,
           rows' \in [Ids -> MonitorType], \A m \in Ids : Follows(rows[m], rows'[m]), flips' \in Nat, \A m \in Ids : rows'[m].change <= flips',
           timer' \in BOOLEAN, B!OneFeed', shuffled' \in BOOLEAN, ~shuffled' => ~shuffled, dialog' \in Ids \cup {0, 99},
           alerts' \in Seq(AlertType), toasts' \in Seq(ToastType), toasts' = toasts \/ \E t \in ToastType : t.by = "stream" /\ toasts' = Append(toasts, t),
           Queued(asked', rows'), \A v \in Views(asked') : v \in Views(asked) \/ \A m \in DOMAIN v : v[m] = rows'[m],
           LastChart(asked, watched, range) => LastChart(asked', watched, range), NoChart(asked', watched) => NoChart(asked, watched)
    PROVE  BoardInv'
<1>1. BoardTyped' BY DEF BoardInv, BoardTyped
<1>2. PanesOwn' BY DEF BoardInv, PanesOwn
<1>3. ChartKept' BY ChartStays DEF BoardInv
<1>4. NewsKept'
  <2>1. BoardTyped /\ NewsKept BY DEF BoardInv
  <2>2. list' = list /\ DOMAIN seen' \subseteq DOMAIN seen /\ \A m \in DOMAIN seen' : seen'[m] = seen[m] /\ met'[m] = met[m] OBVIOUS
  <2>3. asked' \in Seq(AskType) BY DEF Queued
  <2>4. QED BY <2>1, <2>2, <2>3, NewsStays
<1>5. Queued(asked, rows)' OBVIOUS
<1>6. QED BY <1>1, <1>2, <1>3, <1>4, <1>5 DEF BoardInv

LEMMA StandsStill ==
    ASSUME BoardInv, rows' = rows, flips' = flips
    PROVE  /\ rows' \in [Ids -> MonitorType] /\ \A m \in Ids : Follows(rows[m], rows'[m])
           /\ flips' \in Nat /\ \A m \in Ids : rows'[m].change <= flips'
           /\ Queued(asked, rows') /\ asked \in Seq(AskType) /\ rows \in [Ids -> MonitorType]
<1>1. rows \in [Ids -> MonitorType] /\ flips \in Nat /\ \A m \in Ids : rows[m].change <= flips BY DEF BoardInv, BoardTyped
<1>2. \A m \in Ids : rows[m].change \in Nat BY <1>1 DEF MonitorType
<1>3. QED BY <1>1, <1>2 DEF BoardInv, Queued, Follows

\* A list asked for, of the rows as they are.
LEMMA ListAsked ==
    ASSUME BoardInv, NEW n \in Ids \cup {0}
    PROVE  LET p == B!Sent(<<B!AskList(n)>>) IN
           /\ Queued(p, rows) /\ \A v \in Views(p) : v \in Views(asked) \/ \A m \in DOMAIN v : v[m] = rows[m]
           /\ \A x, y : (LastChart(asked, x, y) => LastChart(p, x, y)) /\ (NoChart(p, x) => NoChart(asked, x))
<1> DEFINE c == B!AskList(n)
<1>1. rows \in [Ids -> MonitorType] /\ Queued(asked, rows) /\ asked \in Seq(AskType) BY DEF BoardInv, BoardTyped, Queued
<1>2. c \in AskType /\ c.kind = "list" /\ \A m \in DOMAIN c.answer : c.answer[m] = rows[m] BY <1>1, AskListIs
<1> HIDE DEF c
<1>3. B!Sent(<<B!AskList(n)>>) = Append(asked, c) BY <1>1, <1>2, OneMore DEF B!Sent, c
<1>4. c.kind # "create" /\ c.kind # "series" BY <1>2
<1>5. Queued(Append(asked, c), rows) /\ Views(Append(asked, c)) \subseteq Views(asked) \cup {c.answer} BY <1>1, <1>2, <1>4, AddedQueued
<1>6. \A x : ~ChartOf(c, x) BY <1>4 DEF ChartOf
<1>7. \A x, y : (LastChart(asked, x, y) => LastChart(Append(asked, c), x, y)) /\ (NoChart(Append(asked, c), x) => NoChart(asked, x))
  BY <1>1, <1>2, <1>6, AddedChart
<1>8. QED BY <1>2, <1>3, <1>5, <1>7

\* A change asked for.
LEMMA ChangeAsked ==
    ASSUME BoardInv, NEW kind \in ChangeKinds, NEW m \in Ids,
           kind = "create" => rows[m] = B!Unborn /\ ~\E k \in DOMAIN asked : asked[k].kind = "create"
    PROVE  LET p == B!Sent(<<B!AskChange(kind, m)>>) IN
           /\ Queued(p, rows) /\ \A v \in Views(p) : v \in Views(asked)
           /\ \A x, y : (LastChart(asked, x, y) => LastChart(p, x, y)) /\ (NoChart(p, x) => NoChart(asked, x))
<1> DEFINE c == B!AskChange(kind, m)
           p == Append(asked, c)
<1>1. Queued(asked, rows) /\ asked \in Seq(AskType) BY DEF BoardInv, Queued
<1>2. c \in AskType /\ c.kind = kind /\ c.id = m /\ c.kind # "list" /\ c.kind # "series" BY AskChangeIs
<1> HIDE DEF c
<1>3. B!Sent(<<B!AskChange(kind, m)>>) = p BY <1>1, <1>2, OneMore DEF B!Sent, c
<1>6. \A x : ~ChartOf(c, x) BY <1>2 DEF ChartOf
<1>7. \A x, y : (LastChart(asked, x, y) => LastChart(p, x, y)) /\ (NoChart(p, x) => NoChart(asked, x))
  BY <1>1, <1>2, <1>6, AddedChart
<1>8. CASE kind # "create"
  <2>1. Queued(p, rows) /\ Views(p) \subseteq Views(asked) BY <1>1, <1>2, <1>8, AddedQueued
  <2>2. QED BY <2>1, <1>3, <1>7
<1>9. CASE kind = "create"
  <2>1. /\ p \in Seq(AskType) /\ Len(p) = Len(asked) + 1 /\ Len(asked) \in Nat /\ p[Len(p)] = c /\ DOMAIN p = 1..Len(p)
        /\ \A i \in DOMAIN p : i = Len(p) \/ (i \in DOMAIN asked /\ p[i] = asked[i])
    BY <1>1, <1>2
  <2> HIDE DEF p
  <2>2. \A i \in DOMAIN p : p[i].kind = "list" => i \in DOMAIN asked /\ p[i] = asked[i] BY <2>1, <1>2
  <2>3. InOrder(p) BY <2>2, <1>1 DEF Queued, InOrder
  <2>4. Behind(p, rows) BY <2>2, <1>1 DEF Queued, Behind
  <2>5. OneCreate(p, rows) BY <2>1, <1>2, <1>9 DEF OneCreate
  <2>6. \A v \in Views(p) : v \in Views(asked) BY <2>2 DEF Views
  <2>7. QED BY <2>1, <2>3, <2>4, <2>5, <2>6, <1>3, <1>7 DEF Queued
<1>10. QED BY <1>8, <1>9

LEMMA RowTurned ==
    ASSUME NEW r \in MonitorType, NEW s \in StatusType, NEW c \in Nat
    PROVE  [r EXCEPT !.status = s, !.change = c] \in MonitorType /\ [r EXCEPT !.status = s, !.change = c].change = c
BY DEF MonitorType

LEMMA TurnKeeps ==
    ASSUME BoardInv, NEW m \in Ids, B!Turn(m)
    PROVE  BoardInv'
<1> DEFINE now == IF rows[m].status = "down" THEN "up" ELSE "down"
           row == [rows[m] EXCEPT !.status = now, !.change = flips + 1]
<1>1. /\ rows \in [Ids -> MonitorType] /\ flips \in Nat /\ (\A o \in Ids : rows[o].change \in Nat /\ rows[o].change <= flips)
      /\ timer \in BOOLEAN /\ shuffled \in BOOLEAN /\ dialog \in Ids \cup {0, 99} /\ alerts \in Seq(AlertType) /\ toasts \in Seq(ToastType) /\ B!OneFeed /\ Queued(asked, rows)
  BY DEF BoardInv, BoardTyped, MonitorType
<1>2. rows[m].here /\ flips' = flips + 1 /\ rows' = [rows EXCEPT ![m].status = now, ![m].change = flips + 1]
      /\ UNCHANGED <<timer, feeds, list, seen, watched, range, panes, dialog, asked, toasts, met, shuffled>>
  BY DEF B!Turn, B!Turned
<1>3. now \in StatusType BY DEF StatusType
<1>4. rows[m] \in MonitorType /\ flips + 1 \in Nat BY <1>1
<1> HIDE DEF now
<1>5. row \in MonitorType /\ row.change = flips + 1 BY <1>3, <1>4, RowTurned
<1>6. rows' = [rows EXCEPT ![m] = row] BY <1>1, <1>2, <1>4 DEF MonitorType
<1> HIDE DEF row
<1>7. rows' \in [Ids -> MonitorType] /\ rows'[m] = row /\ \A o \in Ids : o # m => rows'[o] = rows[o] BY <1>1, <1>5, <1>6
<1>8. \A o \in Ids : Follows(rows[o], rows'[o]) /\ rows'[o].change <= flips'
  <2>1. TAKE o \in Ids
  <2>2. CASE o = m BY <2>2, <1>1, <1>2, <1>5, <1>7 DEF Follows
  <2>3. CASE o # m BY <2>3, <1>1, <1>2, <1>7 DEF Follows
  <2>4. QED BY <2>2, <2>3
<1>9. OneCreate(asked, rows')
  <2>1. \A i \in DOMAIN asked : asked[i].kind = "create" => asked[i].id \in Ids
    <3>1. asked \in Seq(AskType) BY <1>1 DEF Queued
    <3>2. QED BY <3>1 DEF AskType
  <2>2. ~B!Unborn.here BY DEF B!Unborn
  <2>3. OneCreate(asked, rows) BY <1>1 DEF Queued
  <2>4. ASSUME NEW i \in DOMAIN asked, asked[i].kind = "create" PROVE rows'[asked[i].id] = B!Unborn
    <3>1. rows[asked[i].id] = B!Unborn BY <2>3, <2>4 DEF OneCreate
    <3>2. asked[i].id # m BY <3>1, <2>2, <1>2
    <3>3. QED BY <3>1, <3>2, <2>1, <2>4, <1>7
  <2>5. QED BY <2>3, <2>4 DEF OneCreate
<1>10. Queued(asked', rows') BY <1>1, <1>2, <1>7, <1>8, <1>9, MovedQueued
<1>11. alerts' \in Seq(AlertType)
  <2> DEFINE bad == rows'[m].status = "down"
             a == [id |-> m, change |-> flips + 1, down |-> bad]
  <2>1. alerts' = alerts \/ alerts' = Append(alerts, a) BY DEF B!Turn
  <2>2. bad \in BOOLEAN OBVIOUS
  <2> HIDE DEF bad
  <2>3. a \in AlertType BY <2>2, <1>1 DEF AlertType
  <2> HIDE DEF a
  <2>4. QED BY <2>1, <2>3, <1>1
<1>12. flips' \in Nat /\ timer' \in BOOLEAN /\ shuffled' \in BOOLEAN /\ dialog' \in Ids \cup {0, 99} /\ toasts' \in Seq(ToastType) BY <1>1, <1>2
<1>13. B!OneFeed' BY <1>1, <1>2 DEF B!OneFeed
<1>14. QED BY <1>2, <1>7, <1>8, <1>10, <1>11, <1>12, <1>13, AskKeeps

LEMMA StartKeeps ==
    ASSUME BoardInv, B!StartPolling
    PROVE  BoardInv'
<1>0. /\ timer' = TRUE /\ B!Starts /\ asked' = IF timer THEN asked ELSE B!Sent(<<B!AskList(0)>>)
      /\ UNCHANGED <<rows, alerts, list, seen, watched, range, panes, dialog, toasts, flips, met, shuffled>>
  BY DEF B!StartPolling, B!Nothing
<1>1. /\ timer \in BOOLEAN /\ shuffled \in BOOLEAN /\ dialog \in Ids \cup {0, 99} /\ alerts \in Seq(AlertType) /\ toasts \in Seq(ToastType) /\ B!OneFeed /\ rows \in [Ids -> MonitorType]
  BY DEF BoardInv, BoardTyped
<1>2. B!OneFeed' BY <1>0, <1>1 DEF B!OneFeed, B!Starts
<1>3. /\ rows' \in [Ids -> MonitorType] /\ (\A m \in Ids : Follows(rows[m], rows'[m])) /\ flips' \in Nat /\ (\A m \in Ids : rows'[m].change <= flips')
      /\ Queued(asked, rows') /\ rows' = rows
  BY <1>0, StandsStill
<1>4. /\ Queued(asked', rows') /\ \A v \in Views(asked') : v \in Views(asked) \/ \A m \in DOMAIN v : v[m] = rows'[m]
      /\ \A x, y : (LastChart(asked, x, y) => LastChart(asked', x, y)) /\ (NoChart(asked', x) => NoChart(asked, x))
  <2>1. CASE timer BY <2>1, <1>0, <1>3
  <2>2. CASE ~timer
    <3>1. asked' = B!Sent(<<B!AskList(0)>>) BY <2>2, <1>0
    <3>2. QED BY <3>1, <1>3, ListAsked
  <2>3. QED BY <2>1, <2>2
<1>5. timer' \in BOOLEAN /\ shuffled' \in BOOLEAN /\ dialog' \in Ids \cup {0, 99} /\ alerts' \in Seq(AlertType) /\ toasts' \in Seq(ToastType) BY <1>0, <1>1
<1>6. QED BY <1>0, <1>2, <1>3, <1>4, <1>5, AskKeeps

\* Steps that leave the rows and the requests.
LEMMA StopKeepsBoard ==
    ASSUME BoardInv, UNCHANGED <<rows, list, seen, watched, range, panes, asked, toasts, flips, met, shuffled>>,
           timer' \in BOOLEAN, B!OneFeed', dialog' \in Ids \cup {0, 99}, alerts' \in Seq(AlertType)
    PROVE  BoardInv'
<1>1. /\ shuffled \in BOOLEAN /\ toasts \in Seq(ToastType) BY DEF BoardInv, BoardTyped
<1>2. /\ rows' \in [Ids -> MonitorType] /\ (\A m \in Ids : Follows(rows[m], rows'[m])) /\ flips' \in Nat /\ (\A m \in Ids : rows'[m].change <= flips')
      /\ Queued(asked', rows')
  BY StandsStill
<1>3. shuffled' \in BOOLEAN /\ toasts' \in Seq(ToastType) BY <1>1
<1>4. QED BY <1>2, <1>3, AskKeeps

\* Steps that ask, and leave the rows, the alerts and what is drawn.
LEMMA OnlyAskKeeps ==
    ASSUME BoardInv, UNCHANGED <<rows, timer, feeds, list, seen, watched, range, panes, dialog, flips, met>>,
           alerts' \in Seq(AlertType), toasts' \in Seq(ToastType), toasts' = toasts \/ \E t \in ToastType : t.by = "stream" /\ toasts' = Append(toasts, t),
           shuffled' \in BOOLEAN, ~shuffled' => ~shuffled, ~shuffled' => (LastChart(asked, watched, range) => LastChart(asked', watched, range)),
           ~shuffled' => (NoChart(asked', watched) => NoChart(asked, watched)),
           Queued(asked', rows), \A v \in Views(asked') : v \in Views(asked) \/ \A m \in DOMAIN v : v[m] = rows[m]
    PROVE  BoardInv'
<1>1. /\ timer \in BOOLEAN /\ dialog \in Ids \cup {0, 99} /\ B!OneFeed BY DEF BoardInv, BoardTyped
<1>2. B!OneFeed' BY <1>1 DEF B!OneFeed
<1>3. /\ rows' \in [Ids -> MonitorType] /\ (\A m \in Ids : Follows(rows[m], rows'[m])) /\ flips' \in Nat /\ (\A m \in Ids : rows'[m].change <= flips')
  BY StandsStill
<1>4. BoardTyped' BY <1>1, <1>3 DEF BoardInv, BoardTyped
<1>5. PanesOwn' BY DEF BoardInv, PanesOwn
<1>6. ChartKept' BY DEF BoardInv, ChartKept
<1>7. NewsKept'
  <2>1. BoardTyped /\ NewsKept BY DEF BoardInv
  <2>2. list' = list /\ DOMAIN seen' \subseteq DOMAIN seen /\ \A m \in DOMAIN seen' : seen'[m] = seen[m] /\ met'[m] = met[m] OBVIOUS
  <2>3. asked' \in Seq(AskType) BY DEF Queued
  <2>4. \A v \in Views(asked') : v \in Views(asked) \/ \A m \in DOMAIN v : v[m] = rows'[m] OBVIOUS
  <2>5. QED BY <2>1, <2>2, <2>3, <2>4, <1>3, NewsStays
<1>8. Queued(asked, rows)' OBVIOUS
<1>9. QED BY <1>2, <1>4, <1>5, <1>6, <1>7, <1>8 DEF BoardInv

LEMMA PollKeeps ==
    ASSUME BoardInv, B!Poll \/ B!Alert
    PROVE  BoardInv'
<1>1. UNCHANGED <<rows, timer, feeds, list, seen, watched, range, panes, dialog, flips, met, shuffled>> /\ asked' = B!Sent(<<B!AskList(0)>>)
  BY DEF B!Poll, B!Alert, B!Nothing
<1>2. alerts \in Seq(AlertType) /\ toasts \in Seq(ToastType) /\ shuffled \in BOOLEAN BY DEF BoardInv, BoardTyped
<1>3. alerts' \in Seq(AlertType) /\ toasts' \in Seq(ToastType) /\ (toasts' = toasts \/ \E t \in ToastType : t.by = "stream" /\ toasts' = Append(toasts, t))
  <2>1. CASE B!Poll BY <2>1, <1>2 DEF B!Poll
  <2>2. CASE B!Alert
    <3> DEFINE a == Head(alerts)
               t == B!Outage(a.id, a.change, "stream")
    <3>1. alerts # <<>> /\ alerts' = Tail(alerts) /\ (toasts' = toasts \/ toasts' = Append(toasts, t)) BY <2>2 DEF B!Alert
    <3>2. a \in AlertType /\ alerts' \in Seq(AlertType) BY <3>1, <1>2
    <3> HIDE DEF a
    <3>3. t \in ToastType /\ t.by = "stream" BY <3>2 DEF AlertType, ToastType, B!Outage
    <3> HIDE DEF t
    <3>4. toasts' = toasts \/ \E o \in ToastType : o.by = "stream" /\ toasts' = Append(toasts, o) BY <3>1, <3>3
    <3>5. toasts' \in Seq(ToastType) BY <3>1, <3>3, <1>2
    <3>6. QED BY <3>2, <3>4, <3>5
  <2>3. QED BY <2>1, <2>2
<1>4. /\ Queued(asked', rows) /\ \A v \in Views(asked') : v \in Views(asked) \/ \A m \in DOMAIN v : v[m] = rows[m]
      /\ \A x, y : (LastChart(asked, x, y) => LastChart(asked', x, y)) /\ (NoChart(asked', x) => NoChart(asked, x))
  BY <1>1, ListAsked
<1>5. shuffled' \in BOOLEAN BY <1>1, <1>2
<1>6. QED BY <1>1, <1>3, <1>4, <1>5, OnlyAskKeeps

LEMMA PressKeeps ==
    ASSUME BoardInv, NEW kind \in {"remove", "pause", "resume", "mute", "unmute", "check"}, B!Press(kind)
    PROVE  BoardInv'
<1>1. /\ UNCHANGED <<rows, timer, feeds, alerts, list, seen, watched, range, panes, dialog, toasts, flips, met, shuffled>>
      /\ watched \in DOMAIN list /\ asked' = B!Sent(<<B!AskChange(kind, watched)>>)
  BY DEF B!Press, B!Shown
<1>2. alerts \in Seq(AlertType) /\ toasts \in Seq(ToastType) /\ shuffled \in BOOLEAN /\ list \in AnswerType BY DEF BoardInv, BoardTyped
<1>3. watched \in Ids /\ kind \in ChangeKinds /\ kind # "create" BY <1>1, <1>2 DEF AnswerType, ChangeKinds
<1>4. /\ Queued(asked', rows) /\ \A v \in Views(asked') : v \in Views(asked)
      /\ \A x, y : (LastChart(asked, x, y) => LastChart(asked', x, y)) /\ (NoChart(asked', x) => NoChart(asked, x))
  BY <1>1, <1>3, ChangeAsked
<1>5. QED BY <1>1, <1>2, <1>4, OnlyAskKeeps

LEMMA SubmitKeeps ==
    ASSUME BoardInv, B!Submit
    PROVE  BoardInv'
<1>1. /\ UNCHANGED <<rows, timer, feeds, alerts, list, seen, watched, range, panes, dialog, toasts, flips, met, shuffled>>
      /\ dialog # 0 /\ ~\E k \in DOMAIN asked : asked[k].kind = "create"
  BY DEF B!Submit, B!Nothing
<1>2. alerts \in Seq(AlertType) /\ toasts \in Seq(ToastType) /\ shuffled \in BOOLEAN /\ dialog \in Ids \cup {0, 99} BY DEF BoardInv, BoardTyped
<1>3. \E kind \in ChangeKinds, m \in Ids : asked' = B!Sent(<<B!AskChange(kind, m)>>) /\ (kind = "create" => rows[m] = B!Unborn)
  <2>1. CASE dialog = 99
    <3>1. PICK m \in Ids : rows[m] = B!Unborn /\ asked' = B!Sent(<<B!AskChange("create", m)>>) BY <2>1 DEF B!Submit, B!New
    <3>2. "create" \in ChangeKinds BY DEF ChangeKinds
    <3>3. QED BY <3>1, <3>2
  <2>2. CASE dialog # 99
    <3>1. dialog \in Ids /\ asked' = B!Sent(<<B!AskChange("save", dialog)>>) BY <2>2, <1>1, <1>2 DEF B!Submit, B!New
    <3>2. "save" \in ChangeKinds /\ "save" # "create" BY DEF ChangeKinds
    <3>3. QED BY <3>1, <3>2
  <2>3. QED BY <2>1, <2>2
<1>4. PICK kind \in ChangeKinds, m \in Ids : asked' = B!Sent(<<B!AskChange(kind, m)>>) /\ (kind = "create" => rows[m] = B!Unborn) BY <1>3
<1>5. /\ Queued(asked', rows) /\ \A v \in Views(asked') : v \in Views(asked)
      /\ \A x, y : (LastChart(asked, x, y) => LastChart(asked', x, y)) /\ (NoChart(asked', x) => NoChart(asked, x))
  BY <1>1, <1>4, ChangeAsked
<1>6. QED BY <1>1, <1>2, <1>5, OnlyAskKeeps

\* A request answered or refused that is not a chart.
LEMMA LeftKeeps ==
    ASSUME BoardInv, NEW k \in DOMAIN asked
    PROVE  /\ Queued(B!Without(k), rows) /\ \A v \in Views(B!Without(k)) : v \in Views(asked)
           /\ asked \in Seq(AskType) /\ asked[k] \in AskType
           /\ asked[k].kind # "series" => \A x, y : (LastChart(asked, x, y) => LastChart(B!Without(k), x, y)) /\ (NoChart(B!Without(k), x) => NoChart(asked, x))
<1>1. Queued(asked, rows) /\ asked \in Seq(AskType) /\ asked[k] \in AskType BY DEF BoardInv, Queued
<1>2. Queued(B!Without(k), rows) /\ \A v \in Views(B!Without(k)) : v \in Views(asked) BY <1>1, LeftQueued
<1>3. ASSUME asked[k].kind # "series", NEW x, NEW y PROVE (LastChart(asked, x, y) => LastChart(B!Without(k), x, y)) /\ (NoChart(B!Without(k), x) => NoChart(asked, x))
  <2>1. ~ChartOf(asked[k], x) BY <1>3 DEF ChartOf
  <2>2. QED BY <1>1, <1>3, <2>1, LeftChart, LeftNoChart
<1>4. QED BY <1>1, <1>2, <1>3

LEMMA RefusedKeeps ==
    ASSUME BoardInv, NEW k \in DOMAIN asked, B!ChangeRefused(k)
    PROVE  BoardInv'
<1>1. /\ UNCHANGED <<rows, timer, feeds, alerts, list, seen, watched, range, panes, dialog, toasts, flips, met, shuffled>>
      /\ asked[k].kind # "series" /\ asked' = B!Without(k)
  BY DEF B!ChangeRefused, B!Panes
<1>2. alerts \in Seq(AlertType) /\ toasts \in Seq(ToastType) /\ shuffled \in BOOLEAN BY DEF BoardInv, BoardTyped
<1>3. /\ Queued(asked', rows) /\ \A v \in Views(asked') : v \in Views(asked)
      /\ \A x, y : (LastChart(asked, x, y) => LastChart(asked', x, y)) /\ (NoChart(asked', x) => NoChart(asked, x))
  BY <1>1, LeftKeeps
<1>4. QED BY <1>1, <1>2, <1>3, OnlyAskKeeps

LEMMA FailKeeps ==
    ASSUME BoardInv, NEW k \in DOMAIN asked, B!LoadFails(k)
    PROVE  BoardInv'
<1> DEFINE q == B!Without(k)
           n == asked[k].next
<1>1. /\ UNCHANGED <<rows, timer, feeds, alerts, list, seen, watched, range, panes, dialog, toasts, flips, met>> /\ shuffled' = TRUE
      /\ asked' = q \o IF n # 0 THEN B!AskPanes(n, range) ELSE <<>>
  BY DEF B!LoadFails, B!Nothing
<1>2. alerts \in Seq(AlertType) /\ toasts \in Seq(ToastType) /\ range \in RangeLabels BY DEF BoardInv, BoardTyped
<1>3. Queued(q, rows) /\ (\A v \in Views(q) : v \in Views(asked)) /\ asked[k] \in AskType BY LeftKeeps
<1>4. n \in Ids \cup {0} BY <1>3 DEF AskType
<1> HIDE DEF q, n
<1>5. Queued(asked', rows) /\ \A v \in Views(asked') : v \in Views(asked)
  <2>1. CASE n # 0 
    <3>1. n \in Ids /\ asked' = q \o B!AskPanes(n, range) BY <2>1, <1>1, <1>4
    <3>2. QED BY <3>1, <1>2, <1>3, PanesAdded
  <2>2. CASE n = 0
    <3>1. q \in Seq(AskType) BY <1>3 DEF Queued
    <3>2. asked' = q BY <2>2, <3>1, <1>1
    <3>3. QED BY <3>2, <1>3
  <2>3. QED BY <2>1, <2>2
<1>6. shuffled' \in BOOLEAN /\ ~(~shuffled') BY <1>1
<1>7. alerts' = alerts /\ toasts' = toasts BY <1>1
<1>8. QED BY <1>1, <1>2, <1>5, <1>6, <1>7, OnlyAskKeeps

LEMMA PaneKeeps ==
    ASSUME BoardInv, NEW k \in DOMAIN asked, B!PaneAnswer(k)
    PROVE  BoardInv'
<1> DEFINE c == asked[k]
           pane == [for |-> c.id, of |-> c.id, range |-> c.range]
           q == B!Without(k)
           overtook == B!Overtakes(k)
<1>1. /\ UNCHANGED <<rows, timer, feeds, alerts, list, seen, watched, range, dialog, toasts, flips, met>>
      /\ c.kind \in B!Panes /\ panes' = [panes EXCEPT ![c.kind] = pane] /\ asked' = q /\ shuffled' = (shuffled \/ overtook)
  BY DEF B!PaneAnswer, B!For
<1>2. /\ alerts \in Seq(AlertType) /\ toasts \in Seq(ToastType) /\ shuffled \in BOOLEAN /\ timer \in BOOLEAN /\ dialog \in Ids \cup {0, 99}
      /\ panes \in [B!Panes -> PaneType] /\ B!OneFeed /\ PanesOwn /\ ChartKept /\ asked \in Seq(AskType)
  BY DEF BoardInv, BoardTyped, Queued
<1>3. Queued(q, rows) /\ (\A v \in Views(q) : v \in Views(asked)) /\ c \in AskType BY LeftKeeps
<1>4. c.kind # "list" BY <1>1 DEF B!Panes
<1>5. c.id \in Ids /\ c.range \in RangeLabels BY <1>3, <1>4 DEF AskType
<1>6. pane \in PaneType /\ pane.of = pane.for /\ pane.for = c.id /\ pane.of = c.id /\ pane.range = c.range BY <1>5 DEF PaneType
<1>7. overtook \in BOOLEAN /\ (~overtook => ~\E i \in DOMAIN asked : i < k /\ asked[i].kind = c.kind)
  <2>1. k \in Nat /\ k <= Len(asked) /\ Len(asked) \in Nat /\ DOMAIN asked = 1..Len(asked) BY <1>2
  <2>2. \A i \in DOMAIN asked : i < k => i \in 1..(k - 1) BY <2>1
  <2>3. QED BY <2>2 DEF B!Overtakes
<1> HIDE DEF pane, q, overtook
<1>8. shuffled' \in BOOLEAN /\ (~shuffled' => ~shuffled /\ ~overtook) BY <1>1, <1>2, <1>7
<1>9. panes' \in [B!Panes -> PaneType] /\ panes'[c.kind] = pane /\ \A w \in B!Panes : w # c.kind => panes'[w] = panes[w] BY <1>1, <1>2, <1>6
<1>10. PanesOwn'
  <2>1. \A w \in B!Panes : panes'[w].of = 0 \/ panes'[w].of = panes'[w].for BY <1>2, <1>6, <1>9 DEF PanesOwn
  <2>2. QED BY <2>1 DEF PanesOwn
<1>11. /\ rows' \in [Ids -> MonitorType] /\ (\A m \in Ids : Follows(rows[m], rows'[m])) /\ flips' \in Nat /\ (\A m \in Ids : rows'[m].change <= flips')
  BY <1>1, StandsStill
<1>12. BoardTyped' BY <1>1, <1>2, <1>8, <1>9, <1>11 DEF BoardInv, BoardTyped
<1>13. ChartKept'
  <2>1. SUFFICES ASSUME ~shuffled', watched # 0
                 PROVE  /\ LastChart(q, watched, range)
                        /\ NoChart(q, watched) /\ panes'["series"].for = watched /\ panes'["series"].of # 0 => panes'["series"].range = range
    BY <1>1 DEF ChartKept
  <2>2. /\ LastChart(asked, watched, range)
        /\ NoChart(asked, watched) /\ panes["series"].for = watched /\ panes["series"].of # 0 => panes["series"].range = range
    BY <2>1, <1>2, <1>8 DEF ChartKept
  <2>3. c.kind = "series" => ~\E i \in DOMAIN asked : i < k /\ asked[i].kind = "series" BY <2>1, <1>7, <1>8
  <2>4. LastChart(q, watched, range) BY <2>2, <2>3, <1>2, LeftChart DEF q
  <2>5. NoChart(q, watched) => NoChart(asked, watched) \/ (ChartOf(c, watched) /\ \A j \in DOMAIN asked : ChartOf(asked[j], watched) => j = k)
    BY <1>2, LeftNoChart DEF q
  <2>6. "series" \in B!Panes BY DEF B!Panes
  <2>7. ASSUME NoChart(q, watched), panes'["series"].for = watched, panes'["series"].of # 0 PROVE panes'["series"].range = range
    <3>1. CASE c.kind = "series"
      <4>1. panes'["series"] = pane /\ c.id = watched /\ ChartOf(c, watched) BY <3>1, <2>7, <1>6, <1>9 DEF ChartOf
      <4>2. ~NoChart(asked, watched) BY <4>1 DEF NoChart
      <4>3. \A j \in DOMAIN asked : ChartOf(asked[j], watched) => j = k BY <4>2, <2>5, <2>7
      <4>4. k \in Nat BY <1>2
      <4>5. c.range = range BY <4>1, <4>3, <4>4, <2>2 DEF LastChart
      <4>6. QED BY <4>1, <4>5, <1>6
    <3>2. CASE c.kind # "series"
      <4>1. panes'["series"] = panes["series"] BY <3>2, <2>6, <1>9
      <4>2. ~ChartOf(c, watched) BY <3>2 DEF ChartOf
      <4>3. NoChart(asked, watched) BY <4>2, <2>5, <2>7
      <4>4. QED BY <4>1, <4>3, <2>2, <2>7
    <3>3. QED BY <3>1, <3>2
  <2>8. QED BY <2>4, <2>7
<1>14. NewsKept'
  <2>1. BoardTyped /\ NewsKept BY DEF BoardInv
  <2>2. list' = list /\ DOMAIN seen' \subseteq DOMAIN seen /\ (\A m \in DOMAIN seen' : seen'[m] = seen[m] /\ met'[m] = met[m]) /\ toasts' = toasts BY <1>1
  <2>3. asked' \in Seq(AskType) /\ \A v \in Views(asked') : v \in Views(asked) BY <1>1, <1>3 DEF Queued
  <2>4. ~shuffled' => ~shuffled BY <1>8
  <2>5. QED BY <2>1, <2>2, <2>3, <2>4, <1>11, NewsStays
<1>15. Queued(asked, rows)' BY <1>1, <1>3
<1>16. B!OneFeed' BY <1>1, <1>2 DEF B!OneFeed
<1>17. QED BY <1>10, <1>12, <1>13, <1>14, <1>15, <1>16 DEF BoardInv

\* Steps of the user on what is drawn: the requests grow by panes, the rest stays.
LEMMA DrawnKeeps ==
    ASSUME BoardInv, UNCHANGED <<rows, timer, feeds, alerts, list, seen, dialog, toasts, flips, met, shuffled>>,
           watched' \in Ids \cup {0}, range' \in RangeLabels, panes' \in [B!Panes -> PaneType], PanesOwn', ChartKept',
           Queued(asked', rows), \A v \in Views(asked') : v \in Views(asked)
    PROVE  BoardInv'
<1>1. B!OneFeed' BY DEF BoardInv, B!OneFeed
<1>2. BoardTyped' BY DEF BoardInv, BoardTyped
<1>3. NewsKept'
  <2>1. BoardTyped /\ NewsKept BY DEF BoardInv
  <2>2. /\ rows' \in [Ids -> MonitorType] /\ (\A m \in Ids : Follows(rows[m], rows'[m])) BY StandsStill
  <2>3. asked' \in Seq(AskType) BY DEF Queued
  <2>4. list' = list /\ DOMAIN seen' \subseteq DOMAIN seen /\ (\A m \in DOMAIN seen' : seen'[m] = seen[m] /\ met'[m] = met[m]) /\ toasts' = toasts /\ (~shuffled' => ~shuffled) OBVIOUS
  <2>5. QED BY <2>1, <2>2, <2>3, <2>4, NewsStays
<1>4. Queued(asked, rows)' OBVIOUS
<1>5. QED BY <1>1, <1>2, <1>3, <1>4 DEF BoardInv

LEMMA SelectKeeps ==
    ASSUME BoardInv, NEW id \in Ids \cup {0}, B!Select(id)
    PROVE  BoardInv'
<1> DEFINE cleared(w) == [panes[w] EXCEPT !.of = 0, !.range = B!Empty.range]
<1>1. /\ UNCHANGED <<rows, timer, feeds, alerts, list, seen, range, dialog, toasts, flips, met, shuffled>>
      /\ watched' = id /\ asked' = IF id = 0 THEN asked ELSE asked \o B!AskPanes(id, range)
  BY DEF B!Select, B!Sent, B!Nothing
<1>2. panes' = [w \in B!Panes |-> IF panes[w].for = id THEN panes[w] ELSE cleared(w)]
  <2>1. B!Empty.range = "" BY DEF B!Empty
  <2>2. QED BY <2>1 DEF B!Select, B!Nothing
<1>3. panes \in [B!Panes -> PaneType] /\ PanesOwn /\ Queued(asked, rows) /\ range \in RangeLabels BY DEF BoardInv, BoardTyped
<1>4. ASSUME NEW w \in B!Panes PROVE cleared(w) \in PaneType /\ cleared(w).of = 0
  <2> DEFINE blank == B!Empty.range
             p == panes[w]
  <2>1. blank \in RangeLabels BY DEF RangeLabels
  <2>2. p \in PaneType BY <1>3
  <2> HIDE DEF blank, p
  <2>3. [p EXCEPT !.of = 0, !.range = blank] \in PaneType /\ [p EXCEPT !.of = 0, !.range = blank].of = 0 BY <2>1, <2>2 DEF PaneType
  <2>4. QED BY <2>3 DEF blank, p
<1> HIDE DEF cleared
<1>5. panes' \in [B!Panes -> PaneType] /\ \A w \in B!Panes : (panes[w].for = id /\ panes'[w] = panes[w]) \/ panes'[w].of = 0 BY <1>2, <1>3, <1>4
<1>6. PanesOwn'
  <2>1. \A w \in B!Panes : panes'[w].of = 0 \/ panes'[w].of = panes'[w].for BY <1>3, <1>5 DEF PanesOwn
  <2>2. QED BY <2>1 DEF PanesOwn
<1>7. CASE id = 0
  <2>1. asked' = asked /\ watched' = 0 BY <1>1, <1>7
  <2>2. ChartKept' BY <2>1 DEF ChartKept
  <2>3. QED BY <2>1, <2>2, <1>1, <1>3, <1>5, <1>6, DrawnKeeps
<1>8. CASE id # 0
  <2>1. asked' = asked \o B!AskPanes(id, range) /\ id \in Ids BY <1>1, <1>8
  <2>2. Queued(asked', rows) /\ Views(asked') \subseteq Views(asked) /\ LastChart(asked', id, range) /\ ~NoChart(asked', id) BY <2>1, <1>3, PanesAdded
  <2>3. ChartKept' BY <2>2, <1>1 DEF ChartKept
  <2>4. QED BY <2>2, <2>3, <1>1, <1>3, <1>5, <1>6, DrawnKeeps
<1>9. QED BY <1>7, <1>8

LEMMA RangeKeeps ==
    ASSUME BoardInv, NEW r \in Ranges, B!SetSeriesRange(r)
    PROVE  BoardInv'
<1> DEFINE c == B!AskPane("series", watched, r)
<1>1. /\ UNCHANGED <<rows, timer, feeds, alerts, list, seen, watched, panes, dialog, toasts, flips, met, shuffled>>
      /\ range' = r /\ asked' = IF watched = 0 THEN asked ELSE asked \o <<c>>
  BY DEF B!SetSeriesRange, B!Reloaded, B!Sent, B!Nothing
<1>2. panes \in [B!Panes -> PaneType] /\ PanesOwn /\ Queued(asked, rows) /\ watched \in Ids \cup {0} /\ r \in RangeLabels BY DEF BoardInv, BoardTyped, RangeLabels
<1>3. PanesOwn' BY <1>1, <1>2 DEF PanesOwn
<1>4. asked \in Seq(AskType) BY <1>2 DEF Queued
<1>5. CASE watched = 0
  <2>1. ChartKept' BY <1>1, <1>5 DEF ChartKept
  <2>2. QED BY <2>1, <1>1, <1>2, <1>3, <1>5, DrawnKeeps
<1>6. CASE watched # 0
  <2>1. c \in AskType /\ c.kind = "series" /\ c.id = watched /\ c.kind # "list" /\ c.kind # "create" /\ c.range = r
    BY <1>2, <1>6, AskPaneIs DEF B!Panes
  <2> HIDE DEF c
  <2>2. asked' = Append(asked, c) BY <2>1, <1>1, <1>4, <1>6, OneMore
  <2>3. ChartOf(c, watched) BY <2>1 DEF ChartOf
  <2>4. LastChart(asked', watched, r) /\ ~NoChart(asked', watched) BY <2>1, <2>2, <2>3, <1>4, AddedChart
  <2>5. Queued(asked', rows) /\ Views(asked') \subseteq Views(asked) BY <2>1, <2>2, <1>2, AddedQueued
  <2>6. ChartKept' BY <2>4, <1>1 DEF ChartKept
  <2>7. QED BY <2>5, <2>6, <1>1, <1>2, <1>3, DrawnKeeps
<1>7. QED BY <1>5, <1>6

\* A list answered: its news are told, and the panes of the monitor shown are asked for again.
LEMMA OverIs ==
    ASSUME NEW f, NEW g
    PROVE  /\ DOMAIN B!Over(f, g) = DOMAIN f \cup DOMAIN g
           /\ \A m \in DOMAIN f : B!Over(f, g)[m] = f[m]
           /\ \A m \in DOMAIN g : m \notin DOMAIN f => B!Over(f, g)[m] = g[m]
BY DEF B!Over

LEMMA TimesOver ==
    ASSUME NEW f \in TimesType, NEW g \in TimesType
    PROVE  B!Over(f, g) \in TimesType
<1>1. B!Over(f, g) \in [DOMAIN f \cup DOMAIN g -> Nat] BY DEF TimesType, B!Over
<1>2. DOMAIN f \cup DOMAIN g \in SUBSET Ids BY DEF TimesType
<1>3. QED BY <1>1, <1>2 DEF TimesType

LEMMA ListAnswerTold ==
    ASSUME BoardInv, NEW k \in DOMAIN asked, B!ListAnswer(k),
           asked' \in Seq(AskType), Views(asked') \subseteq Views(B!Without(k))
    PROVE  NewsKept' /\ seen' \in TimesType /\ met' \in TimesType /\ DOMAIN met' = DOMAIN seen' /\ toasts' \in Seq(ToastType)
<1> DEFINE next == asked[k].answer
           told == B!Announced(next)
           new == B!News(next)
           found == [m \in DOMAIN next |-> next[m].change]
           unheard == [m \in DOMAIN next |-> IF m \in DOMAIN seen /\ (~next[m].muted \/ next[m].change <= seen[m]) THEN met[m] ELSE next[m].change]
<1>1. /\ asked[k].kind = "list" /\ toasts' = toasts \o told /\ seen' = B!Over(found, seen) /\ met' = B!Over(unheard, met) /\ list' = next
      /\ rows' = rows /\ shuffled' = (shuffled \/ B!Overtakes(k))
  BY DEF B!ListAnswer
<1>2. /\ rows \in [Ids -> MonitorType] /\ seen \in TimesType /\ met \in TimesType /\ DOMAIN met = DOMAIN seen /\ toasts \in Seq(ToastType)
      /\ shuffled \in BOOLEAN /\ asked \in Seq(AskType) /\ InOrder(asked) /\ Behind(asked, rows) /\ NewsKept
  BY DEF BoardInv, BoardTyped, Queued
<1>3. /\ DOMAIN seen \subseteq Ids /\ \A m \in DOMAIN seen : seen[m] \in Nat /\ met[m] \in Nat
  BY <1>2 DEF TimesType
<1>4. next \in AnswerType /\ next \in Views(asked) BY <1>1, <1>2 DEF AskType, Views
<1>5. \A m \in DOMAIN next : m \in Ids /\ next[m] \in MonitorType /\ next[m].change \in Nat /\ next[m].muted \in BOOLEAN BY <1>4 DEF AnswerType, MonitorType
<1>6. /\ told \in Seq(ToastType)
      /\ \A i \in DOMAIN told : told[i].by = "poll" /\ told[i].id \in new /\ told[i].change = next[told[i].id].change
      /\ \A m \in new : \E i \in DOMAIN told : told[i].id = m
      /\ \A i, j \in DOMAIN told : told[i].id = told[j].id => i = j
  BY <1>4, NewsTold
<1>7. \A m : m \in new <=> m \in DOMAIN next /\ m \in DOMAIN seen /\ next[m].change > seen[m] /\ next[m].status = "down" /\ ~next[m].muted BY DEF B!News
<1>8. \A m \in DOMAIN next : Follows(next[m], rows[m]) BY <1>1, <1>2 DEF Behind
<1>9. /\ DOMAIN found = DOMAIN next /\ (\A m \in DOMAIN next : found[m] = next[m].change) /\ found \in TimesType
      /\ DOMAIN unheard = DOMAIN next /\ unheard \in TimesType
      /\ \A m \in DOMAIN next : unheard[m] = IF m \in DOMAIN seen /\ (~next[m].muted \/ next[m].change <= seen[m]) THEN met[m] ELSE next[m].change
  <2>1. DOMAIN next \in SUBSET Ids BY <1>5
  <2>2. \A m \in DOMAIN next : (IF m \in DOMAIN seen /\ (~next[m].muted \/ next[m].change <= seen[m]) THEN met[m] ELSE next[m].change) \in Nat BY <1>3, <1>5
  <2>3. found \in [DOMAIN next -> Nat] /\ unheard \in [DOMAIN next -> Nat] BY <2>2, <1>5
  <2>4. QED BY <2>1, <2>3 DEF TimesType
<1> HIDE DEF next, told, new, found, unheard
<1>10. /\ DOMAIN seen' = DOMAIN next \cup DOMAIN seen /\ DOMAIN met' = DOMAIN next \cup DOMAIN met /\ seen' \in TimesType /\ met' \in TimesType
       /\ \A m \in DOMAIN next : seen'[m] = next[m].change /\ met'[m] = unheard[m]
       /\ \A m \in DOMAIN seen : m \notin DOMAIN next => seen'[m] = seen[m] /\ met'[m] = met[m]
  <2>1. seen' \in TimesType BY <1>1, <1>2, <1>9, TimesOver
  <2>2. met' \in TimesType BY <1>1, <1>2, <1>9, TimesOver
  <2>3. /\ DOMAIN seen' = DOMAIN found \cup DOMAIN seen
        /\ \A m \in DOMAIN found : seen'[m] = found[m]
        /\ \A m \in DOMAIN seen : m \notin DOMAIN found => seen'[m] = seen[m]
    <3> DEFINE over == B!Over(found, seen)
    <3>1. /\ DOMAIN over = DOMAIN found \cup DOMAIN seen /\ \A m \in DOMAIN found : over[m] = found[m]
          /\ \A m \in DOMAIN seen : m \notin DOMAIN found => over[m] = seen[m]
      BY OverIs
    <3>2. seen' = over BY <1>1
    <3> HIDE DEF over
    <3>3. QED BY <3>1, <3>2
  <2>4. /\ DOMAIN met' = DOMAIN unheard \cup DOMAIN met
        /\ \A m \in DOMAIN unheard : met'[m] = unheard[m]
        /\ \A m \in DOMAIN met : m \notin DOMAIN unheard => met'[m] = met[m]
    <3> DEFINE over == B!Over(unheard, met)
    <3>1. /\ DOMAIN over = DOMAIN unheard \cup DOMAIN met /\ \A m \in DOMAIN unheard : over[m] = unheard[m]
          /\ \A m \in DOMAIN met : m \notin DOMAIN unheard => over[m] = met[m]
      BY OverIs
    <3>2. met' = over BY <1>1
    <3> HIDE DEF over
    <3>3. QED BY <3>1, <3>2
  <2>5. DOMAIN found = DOMAIN next /\ DOMAIN unheard = DOMAIN next /\ DOMAIN met = DOMAIN seen /\ \A m \in DOMAIN next : found[m] = next[m].change BY <1>2, <1>9
  <2>6. QED BY <2>1, <2>2, <2>3, <2>4, <2>5
<1>11. toasts' \in Seq(ToastType) BY <1>1, <1>2, <1>6
<1>12. NewsKept'
  <2>1. SUFFICES ASSUME ~shuffled' PROVE NewsKept' BY DEF NewsKept, SeenBehind, Told, PollOnce
  <2>2. ~shuffled /\ ~B!Overtakes(k) BY <2>1, <1>1
  <2>3. ASSUME NEW v \in Views(asked'), NEW m \in DOMAIN v, m \in DOMAIN next PROVE Follows(next[m], v[m])
    <3>1. PICK i \in DOMAIN B!Without(k) : B!Without(k)[i].kind = "list" /\ v = B!Without(k)[i].answer BY DEF Views
    <3> DEFINE j == Shift(i, k)
    <3>2. j \in DOMAIN asked /\ j # k /\ asked[j].kind = "list" /\ v = asked[j].answer BY <3>1, <1>2, WithoutIs
    <3> HIDE DEF j
    <3>3. k < j
      <4>1. k \in Nat /\ j \in Nat /\ 1 <= j BY <3>2, <1>2
      <4>2. j < k => j \in 1..(k - 1) BY <4>1
      <4>3. ~(j < k) BY <4>2, <3>2, <2>2, <1>1 DEF B!Overtakes
      <4>4. QED BY <4>1, <4>3, <3>2
    <3>4. QED BY <3>2, <3>3, <2>3, <1>1, <1>2 DEF InOrder, next
  <2>4. \A v \in Views(asked') : v \in Views(asked)
    <3>1. Queued(asked, rows) BY DEF BoardInv
    <3>2. QED BY <3>1, LeftQueued
  <2>5. /\ \A m \in DOMAIN seen : seen[m] <= rows[m].change /\ \A v \in Views(asked) : m \in DOMAIN v => seen[m] <= v[m].change
        /\ \A m \in DOMAIN seen : seen[m] > met[m] /\ Witnessed(rows, list, asked, m, seen[m]) => Toasted(toasts, m, seen[m])
        /\ \A i \in DOMAIN toasts : ByPoll(toasts, i) => NotAfter(rows, seen, asked, toasts[i])
        /\ \A i, j \in DOMAIN toasts : i < j /\ ByPoll(toasts, i) /\ ByPoll(toasts, j) => toasts[i].id # toasts[j].id \/ toasts[i].change # toasts[j].change
    BY <2>2, <1>2 DEF NewsKept, SeenBehind, Told, PollOnce
  <2>6. SeenBehind'
    <3>1. SUFFICES ASSUME NEW m \in DOMAIN seen'
                   PROVE  seen'[m] <= rows[m].change /\ \A v \in Views(asked') : m \in DOMAIN v => seen'[m] <= v[m].change
      BY <1>1 DEF SeenBehind
    <3>2. CASE m \in DOMAIN next BY <3>2, <2>3, <1>8, <1>10 DEF Follows
    <3>3. CASE m \notin DOMAIN next BY <3>1, <3>3, <2>4, <2>5, <1>10
    <3>4. QED BY <3>2, <3>3
  <2>7. \A m, c : Toasted(toasts, m, c) => Toasted(toasts', m, c)
    <3>1. \A i \in DOMAIN toasts : i \in DOMAIN toasts' /\ toasts'[i] = toasts[i] BY <1>1, <1>2, <1>6
    <3>2. QED BY <3>1 DEF Toasted
  <2>8. \A m \in new : Toasted(toasts', m, next[m].change)
    <3>1. TAKE m \in new
    <3>2. PICK i \in DOMAIN told : told[i].id = m BY <1>6
    <3>3. Len(toasts) + i \in DOMAIN toasts' /\ toasts'[Len(toasts) + i] = told[i] BY <1>1, <1>2, <1>6
    <3>4. QED BY <3>2, <3>3, <1>6 DEF Toasted
  <2>9. Told'
    <3>1. SUFFICES ASSUME NEW m \in DOMAIN seen', seen'[m] > met'[m], Witnessed(rows, next, asked', m, seen'[m])
                   PROVE  Toasted(toasts', m, seen'[m])
      BY <1>1 DEF Told
    <3>2. CASE m \in DOMAIN next
      <4>1. seen'[m] = next[m].change /\ met'[m] = unheard[m] BY <3>2, <1>10
      <4>2. next[m].status = "down"
        <5>1. CASE DownAt(rows[m], next[m].change) BY <5>1, <3>2, <1>8 DEF Follows, DownAt
        <5>2. CASE DownAt(next[m], next[m].change) BY <5>2 DEF DownAt
        <5>3. ASSUME NEW v \in Views(asked'), m \in DOMAIN v, DownAt(v[m], next[m].change) PROVE next[m].status = "down"
          BY <5>3, <3>2, <2>3 DEF Follows, DownAt
        <5>4. QED BY <5>1, <5>2, <5>3, <3>1, <4>1 DEF Witnessed
      <4>3. m \in DOMAIN seen /\ (~next[m].muted \/ next[m].change <= seen[m]) /\ unheard[m] = met[m] BY <3>1, <3>2, <4>1, <1>5, <1>9
      <4>4. CASE next[m].change > seen[m]
        <5>1. ~next[m].muted BY <4>3, <4>4, <3>2, <1>3, <1>5
        <5>2. m \in new BY <5>1, <4>2, <4>3, <4>4, <3>2, <1>7
        <5>3. QED BY <5>2, <4>1, <2>8
      <4>5. CASE ~(next[m].change > seen[m])
        <5>1. next[m].change = seen[m] BY <4>3, <4>5, <3>2, <2>5, <1>3, <1>4, <1>5
        <5>2. Witnessed(rows, list, asked, m, seen[m]) BY <5>1, <4>2, <3>2, <1>4 DEF Witnessed, DownAt
        <5>3. QED BY <5>1, <5>2, <4>1, <4>3, <3>1, <2>5, <2>7
      <4>6. QED BY <4>4, <4>5
    <3>3. CASE m \notin DOMAIN next
      <4>1. m \in DOMAIN seen /\ seen'[m] = seen[m] /\ met'[m] = met[m] BY <3>1, <3>3, <1>10
      <4>2. Witnessed(rows, list, asked, m, seen[m]) BY <4>1, <3>1, <3>3, <2>4 DEF Witnessed
      <4>3. QED BY <4>1, <4>2, <3>1, <2>5, <2>7
    <3>4. QED BY <3>2, <3>3
  <2>10. \A i \in DOMAIN toasts' : \/ i \in DOMAIN toasts /\ toasts'[i] = toasts[i]
                                   \/ i > Len(toasts) /\ i - Len(toasts) \in DOMAIN told /\ toasts'[i] = told[i - Len(toasts)]
    BY <1>1, <1>2, <1>6
  <2>11. \A i \in DOMAIN toasts : toasts[i] \in ToastType /\ toasts[i].id \in Ids /\ toasts[i].change \in Nat
    <3>1. \A i \in DOMAIN toasts : toasts[i] \in ToastType BY <1>2
    <3>2. QED BY <3>1 DEF ToastType
  <2>12. ASSUME NEW i \in DOMAIN toasts', ByPoll(toasts', i) PROVE NotAfter(rows, seen', asked', toasts'[i])
    <3>1. CASE i \in DOMAIN toasts /\ toasts'[i] = toasts[i]
      <4>1. NotAfter(rows, seen, asked, toasts[i]) BY <3>1, <2>5, <2>12 DEF ByPoll
      <4>a. toasts[i].id \in Ids /\ toasts[i].change \in Nat BY <3>1, <2>11
      <4> DEFINE t == toasts[i]
      <4>2. /\ t.change <= rows[t.id].change /\ (t.id \in DOMAIN seen => t.change <= seen[t.id])
            /\ \A v \in Views(asked) : t.id \in DOMAIN v => t.change <= v[t.id].change
        BY <4>1 DEF NotAfter
      <4>3. toasts'[i] = t BY <3>1
      <4> HIDE DEF t
      <4>4. t.id \in DOMAIN seen' => t.change <= seen'[t.id] BY <4>2, <1>4, <1>10
      <4>5. \A v \in Views(asked') : t.id \in DOMAIN v => t.change <= v[t.id].change BY <4>2, <2>4
      <4>6. QED BY <4>2, <4>3, <4>4, <4>5 DEF NotAfter
    <3>2. CASE i - Len(toasts) \in DOMAIN told /\ toasts'[i] = told[i - Len(toasts)]
      <4> DEFINE t == toasts'[i]
      <4>1. t.id \in new /\ t.change = next[t.id].change BY <3>2, <1>6
      <4> HIDE DEF t
      <4>2. t.id \in DOMAIN next BY <4>1, <1>7
      <4>3. t.change <= rows[t.id].change BY <4>1, <4>2, <1>8 DEF Follows
      <4>4. t.change <= seen'[t.id] BY <4>1, <4>2, <1>5, <1>10
      <4>5. \A v \in Views(asked') : t.id \in DOMAIN v => t.change <= v[t.id].change BY <4>1, <4>2, <2>3 DEF Follows
      <4>6. QED BY <4>3, <4>4, <4>5 DEF NotAfter, t
    <3>3. QED BY <3>1, <3>2, <2>10
  <2>13. ASSUME NEW i \in DOMAIN toasts', NEW j \in DOMAIN toasts', i < j, ByPoll(toasts', i), ByPoll(toasts', j)
         PROVE  toasts'[i].id # toasts'[j].id \/ toasts'[i].change # toasts'[j].change
    <3>0. i \in Nat /\ j \in Nat /\ Len(toasts) \in Nat /\ DOMAIN toasts = 1..Len(toasts) BY <1>2, <1>11
    <3>1. CASE i \in DOMAIN toasts /\ toasts'[i] = toasts[i] /\ j \in DOMAIN toasts /\ toasts'[j] = toasts[j]
      BY <3>1, <2>5, <2>13 DEF ByPoll
    <3>2. CASE i \in DOMAIN toasts /\ toasts'[i] = toasts[i] /\ j - Len(toasts) \in DOMAIN told /\ toasts'[j] = told[j - Len(toasts)]
      <4>1. NotAfter(rows, seen, asked, toasts[i]) BY <3>2, <2>5, <2>13 DEF ByPoll
      <4>2. toasts'[j].id \in new /\ toasts'[j].change = next[toasts'[j].id].change BY <3>2, <1>6
      <4>3. ASSUME toasts'[i].id = toasts'[j].id PROVE toasts'[i].change # toasts'[j].change
        <5> DEFINE m == toasts'[j].id
        <5>1. toasts[i].id = m /\ toasts[i].change \in Nat /\ toasts'[i].change = toasts[i].change BY <4>3, <3>2, <2>11
        <5>2. m \in DOMAIN seen /\ next[m].change > seen[m] /\ m \in DOMAIN next BY <4>2, <1>7
        <5>3. toasts[i].change <= seen[m] BY <4>1, <5>1, <5>2 DEF NotAfter
        <5>4. toasts'[j].change = next[m].change BY <4>2
        <5> HIDE DEF m
        <5>5. seen[m] \in Nat /\ next[m].change \in Nat BY <5>2, <1>3, <1>5
        <5>6. QED BY <5>1, <5>2, <5>3, <5>4, <5>5
      <4>4. QED BY <4>3
    <3>3. CASE /\ i > Len(toasts) /\ i - Len(toasts) \in DOMAIN told /\ toasts'[i] = told[i - Len(toasts)]
               /\ j - Len(toasts) \in DOMAIN told /\ toasts'[j] = told[j - Len(toasts)]
      <4>1. i - Len(toasts) # j - Len(toasts) BY <3>0, <2>13
      <4>2. QED BY <4>1, <3>3, <1>6
    <3>4. ~(i > Len(toasts) /\ j \in DOMAIN toasts) BY <3>0, <2>13
    <3>5. QED BY <3>1, <3>2, <3>3, <3>4, <2>10
  <2>14. PollOnce' BY <2>12, <2>13, <1>1 DEF PollOnce
  <2>15. QED BY <2>6, <2>9, <2>14 DEF NewsKept
<1>13. QED BY <1>2, <1>10, <1>11, <1>12

LEMMA ListAnswerKeeps ==
    ASSUME BoardInv, NEW k \in DOMAIN asked, B!ListAnswer(k)
    PROVE  BoardInv'
<1> DEFINE q == B!Without(k)
           n == asked[k].next
           shown1 == watched \in DOMAIN asked[k].answer
           feeds1 == IF shown1 THEN B!AskFeeds(watched, range) ELSE <<>>
           panes1 == IF n # 0 THEN B!AskPanes(n, range) ELSE <<>>
           overtook == B!Overtakes(k)
<1>1. /\ asked[k].kind = "list" /\ list' = asked[k].answer /\ asked' = (q \o feeds1) \o panes1 /\ shuffled' = (shuffled \/ overtook)
      /\ UNCHANGED <<rows, timer, feeds, alerts, watched, range, panes, dialog, flips>>
  BY DEF B!ListAnswer, B!Nothing
<1>2. /\ alerts \in Seq(AlertType) /\ shuffled \in BOOLEAN /\ timer \in BOOLEAN /\ dialog \in Ids \cup {0, 99} /\ range \in RangeLabels
      /\ rows \in [Ids -> MonitorType] /\ flips \in Nat /\ (\A m \in Ids : rows[m].change <= flips)
      /\ watched \in Ids \cup {0} /\ panes \in [B!Panes -> PaneType] /\ B!OneFeed /\ PanesOwn /\ ChartKept
  BY DEF BoardInv, BoardTyped
<1>3. Queued(q, rows) /\ (\A v \in Views(q) : v \in Views(asked)) /\ asked[k] \in AskType
      /\ \A x, y : (LastChart(asked, x, y) => LastChart(q, x, y)) /\ (NoChart(q, x) => NoChart(asked, x))
  BY <1>1, LeftKeeps
<1>4. n \in Ids \cup {0} /\ asked[k].answer \in AnswerType /\ (shown1 => watched \in Ids) BY <1>3 DEF AskType, AnswerType
<1>5. overtook \in BOOLEAN BY DEF B!Overtakes
<1> HIDE DEF q, n, shown1, overtook
<1> DEFINE p == q \o feeds1
<1>6. /\ Queued(p, rows) /\ Views(p) \subseteq Views(q)
      /\ \A x, y : (LastChart(q, x, y) => LastChart(p, x, y)) /\ (NoChart(p, x) => NoChart(q, x))
  <2>1. CASE shown1 BY <2>1, <1>2, <1>3, <1>4, FeedsAdded
  <2>2. CASE ~shown1
    <3>1. q \in Seq(AskType) BY <1>3 DEF Queued
    <3>2. p = q BY <2>2, <3>1
    <3> HIDE DEF p
    <3>3. QED BY <3>2, <1>3
  <2>3. QED BY <2>1, <2>2
<1>7. asked' = p \o panes1 BY <1>1
<1> HIDE DEF p
<1>8. /\ Queued(asked', rows) /\ Views(asked') \subseteq Views(p)
      /\ \A x : (LastChart(p, x, range) => LastChart(asked', x, range)) /\ (NoChart(asked', x) => NoChart(p, x))
  <2>1. CASE n # 0
    <3>1. asked' = p \o B!AskPanes(n, range) /\ n \in Ids BY <2>1, <1>4, <1>7
    <3>2. QED BY <3>1, <1>2, <1>6, PanesAdded
  <2>2. CASE n = 0
    <3>1. p \in Seq(AskType) BY <1>6 DEF Queued
    <3>2. asked' = p BY <2>2, <3>1, <1>7
    <3>3. QED BY <3>2, <1>6
  <2>3. QED BY <2>1, <2>2
<1>9. shuffled' \in BOOLEAN /\ (~shuffled' => ~shuffled) BY <1>1, <1>2, <1>5
<1>10. ChartKept'
  <2>1. LastChart(asked, watched, range) => LastChart(asked', watched, range) BY <1>3, <1>6, <1>8
  <2>2. NoChart(asked', watched) => NoChart(asked, watched) BY <1>3, <1>6, <1>8
  <2>3. QED BY <2>1, <2>2, <1>1, <1>2, <1>9, ChartStays
<1>11. NewsKept' /\ seen' \in TimesType /\ met' \in TimesType /\ DOMAIN met' = DOMAIN seen' /\ toasts' \in Seq(ToastType)
  <2>1. asked' \in Seq(AskType) /\ Views(asked') \subseteq Views(B!Without(k)) BY <1>6, <1>8 DEF Queued, q
  <2>2. QED BY <2>1, ListAnswerTold
<1>12. BoardTyped' BY <1>1, <1>2, <1>4, <1>9, <1>11 DEF BoardTyped
<1>13. PanesOwn' BY <1>1, <1>2 DEF PanesOwn
<1>14. B!OneFeed' BY <1>1, <1>2 DEF B!OneFeed
<1>15. Queued(asked, rows)' BY <1>1, <1>8
<1>16. QED BY <1>10, <1>11, <1>12, <1>13, <1>14, <1>15 DEF BoardInv

\* A row changed at the user's word keeps its transition, and does not turn into an outage.
Rewritten(r, s) == s \in MonitorType /\ s.change = r.change /\ (s.status = "down" => r.status = "down")
LEMMA RowRewritten ==
    ASSUME NEW r \in MonitorType, NEW x \in BOOLEAN
    PROVE  /\ Rewritten(r, [r EXCEPT !.here = x])
           /\ Rewritten(r, [r EXCEPT !.muted = x])
           /\ Rewritten(r, [r EXCEPT !.enabled = x])
           /\ \A s \in StatusType : s # "down" => Rewritten(r, [r EXCEPT !.enabled = x, !.status = s])
<1>1. [r EXCEPT !.here = x] \in MonitorType /\ [r EXCEPT !.muted = x] \in MonitorType /\ [r EXCEPT !.enabled = x] \in MonitorType BY DEF MonitorType
<1>2. \A s \in StatusType : [r EXCEPT !.enabled = x, !.status = s] \in MonitorType BY DEF MonitorType
<1>3. QED BY <1>1, <1>2 DEF Rewritten, MonitorType

LEMMA RowsRewritten ==
    ASSUME rows \in [Ids -> MonitorType], NEW n \in Ids, NEW row, Rewritten(rows[n], row)
    PROVE  LET rs == [rows EXCEPT ![n] = row] IN
           rs \in [Ids -> MonitorType] /\ rs[n] = row /\ (\A m \in Ids : Rewritten(rows[m], rs[m])) /\ \A m \in Ids : m # n => rs[m] = rows[m]
<1>1. row \in MonitorType BY DEF Rewritten
<1>2. \A m \in Ids : Rewritten(rows[m], rows[m]) BY DEF Rewritten
<1>3. QED BY <1>1, <1>2

LEMMA ChangedRows ==
    ASSUME rows \in [Ids -> MonitorType], NEW c, c.id \in Ids, c.kind \in ChangeKinds, c.kind = "create" => rows[c.id] = B!Unborn
    PROVE  LET rs == B!Changed(c) IN
           rs \in [Ids -> MonitorType] /\ (\A m \in Ids : Rewritten(rows[m], rs[m])) /\ \A m \in Ids : m # c.id => rs[m] = rows[m]
<1> DEFINE n == c.id
           kind == c.kind
           rs == B!Changed(c)
<1>0. n \in Ids /\ rows[n] \in MonitorType /\ kind \in {"remove", "pause", "resume", "mute", "unmute", "save", "create", "check"} BY DEF ChangeKinds
<1>1. \A m \in Ids : rows[m] \in MonitorType OBVIOUS
<1>2. CASE kind = "remove"
  <2> DEFINE no == FALSE
  <2>1. no \in BOOLEAN /\ rs = [rows EXCEPT ![c.id].here = no] BY <1>2, Zenon DEF B!Changed
  <2> HIDE DEF no
  <2>2. rs = [rows EXCEPT ![n] = [rows[n] EXCEPT !.here = no]] BY <2>1
  <2> HIDE DEF rs, n
  <2>3. Rewritten(rows[n], [rows[n] EXCEPT !.here = no]) BY <2>1, <1>0, RowRewritten
  <2>4. QED BY <2>2, <2>3, <1>0, RowsRewritten DEF n, rs
<1>3. CASE kind \in {"pause", "resume"}
  <2> DEFINE on == c.kind = "resume"
             to == IF c.kind = "resume" THEN "unknown" ELSE "paused"
  <2>1. rs = [rows EXCEPT ![c.id].enabled = on, ![c.id].status = to]
    <3>1. c.kind # "remove" BY <1>3
    <3>2. c.kind \in {"pause", "resume"} BY <1>3
    <3>3. c.kind \notin {"mute", "unmute"} /\ c.kind # "save" /\ c.kind # "create" BY <3>2
    <3>4. QED BY <3>1, <3>2, <3>3, Zenon DEF B!Changed
  <2>2. on \in BOOLEAN /\ to \in StatusType /\ to # "down" BY DEF StatusType
  <2> HIDE DEF on, to
  <2>3. rs = [rows EXCEPT ![n] = [rows[n] EXCEPT !.enabled = on, !.status = to]] BY <2>1, <1>0 DEF MonitorType
  <2> HIDE DEF rs, n
  <2>4. Rewritten(rows[n], [rows[n] EXCEPT !.enabled = on, !.status = to]) BY <2>2, <1>0, RowRewritten
  <2>5. QED BY <2>3, <2>4, <1>0, RowsRewritten DEF n, rs
<1>4. CASE kind \in {"mute", "unmute"}
  <2> DEFINE on == c.kind = "mute"
  <2>1. rs = [rows EXCEPT ![c.id].muted = on]
    <3>1. c.kind # "remove" BY <1>4
    <3>2. c.kind \in {"mute", "unmute"} BY <1>4
    <3>3. c.kind \notin {"pause", "resume"} /\ c.kind # "save" /\ c.kind # "create" BY <3>2
    <3>4. QED BY <3>1, <3>2, <3>3, Zenon DEF B!Changed
  <2>2. on \in BOOLEAN OBVIOUS
  <2> HIDE DEF on
  <2>3. rs = [rows EXCEPT ![n] = [rows[n] EXCEPT !.muted = on]] BY <2>1
  <2> HIDE DEF rs, n
  <2>4. Rewritten(rows[n], [rows[n] EXCEPT !.muted = on]) BY <2>2, <1>0, RowRewritten
  <2>5. QED BY <2>3, <2>4, <1>0, RowsRewritten DEF n, rs
<1>5. CASE kind = "save"
  <2> DEFINE no == FALSE
  <2>1. no \in BOOLEAN /\ rs = [rows EXCEPT ![c.id].enabled = no]
    <3>1. c.kind # "remove" /\ c.kind \notin {"pause", "resume"} /\ c.kind \notin {"mute", "unmute"} /\ c.kind = "save" /\ c.kind # "create" BY <1>5
    <3>2. QED BY <3>1, Zenon DEF B!Changed
  <2> HIDE DEF no
  <2>2. rs = [rows EXCEPT ![n] = [rows[n] EXCEPT !.enabled = no]] BY <2>1
  <2> HIDE DEF rs, n
  <2>3. Rewritten(rows[n], [rows[n] EXCEPT !.enabled = no]) BY <2>1, <1>0, RowRewritten
  <2>4. QED BY <2>2, <2>3, <1>0, RowsRewritten DEF n, rs
<1>6. CASE kind = "create"
  <2> DEFINE row == [here |-> TRUE, status |-> "unknown", change |-> 0, enabled |-> TRUE, muted |-> FALSE]
  <2>1. rs = [rows EXCEPT ![c.id] = row]
    <3>1. c.kind # "remove" /\ c.kind \notin {"pause", "resume"} /\ c.kind \notin {"mute", "unmute"} /\ c.kind # "save" /\ c.kind = "create" BY <1>6
    <3>2. QED BY <3>1, Zenon DEF B!Changed
  <2>2. row \in MonitorType /\ row.change = 0 /\ row.status # "down" BY DEF MonitorType, StatusType
  <2>3. rows[n].change = 0 BY <1>6 DEF B!Unborn
  <2> HIDE DEF rs, n, row
  <2>4. Rewritten(rows[n], row) BY <2>2, <2>3 DEF Rewritten
  <2>5. QED BY <2>1, <2>4, <1>0, RowsRewritten DEF n, rs
<1>7. CASE kind = "check"
  <2>1. rs = rows
    <3>1. c.kind # "remove" /\ c.kind \notin {"pause", "resume"} /\ c.kind \notin {"mute", "unmute"} /\ c.kind # "save" /\ c.kind # "create" BY <1>7
    <3>2. QED BY <3>1, Zenon DEF B!Changed
  <2> HIDE DEF rs
  <2>2. QED BY <2>1, <1>1 DEF Rewritten, rs
<1>8. QED BY <1>0, <1>2, <1>3, <1>4, <1>5, <1>6, <1>7

\* The list an action loads is of the rows as it left them.
LEMMA ListLoaded ==
    ASSUME rows' \in [Ids -> MonitorType], NEW n \in Ids \cup {0}
    PROVE  LET c == [B!AskList(n) EXCEPT !.answer = [m \in {m \in Ids : rows'[m].here} |-> rows'[m]]] IN
           rows \in [Ids -> MonitorType] => c \in AskType /\ c.kind = "list" /\ \A m \in DOMAIN c.answer : c.answer[m] = rows'[m]
<1> DEFINE now == [m \in {m \in Ids : rows'[m].here} |-> rows'[m]]
           a == B!AskList(n)
<1>1. now \in AnswerType /\ \A m \in DOMAIN now : now[m] = rows'[m]
  <2>1. {m \in Ids : rows'[m].here} \in SUBSET Ids OBVIOUS
  <2>2. now \in [{m \in Ids : rows'[m].here} -> MonitorType] OBVIOUS
  <2>3. DOMAIN now = {m \in Ids : rows'[m].here} OBVIOUS
  <2> HIDE DEF now
  <2>4. now \in AnswerType BY <2>1, <2>2 DEF AnswerType
  <2>5. QED BY <2>4 DEF now
<1>2. SUFFICES ASSUME rows \in [Ids -> MonitorType] PROVE [a EXCEPT !.answer = now] \in AskType /\ [a EXCEPT !.answer = now].kind = "list" /\ [a EXCEPT !.answer = now].answer = now
  <2> HIDE DEF now, a
  <2>1. QED BY <1>1 DEF now, a
<1>3. a \in AskType /\ a.kind = "list" BY <1>2, AskListIs
<1> HIDE DEF now, a
<1>4. QED BY <1>1, <1>3 DEF AskType

LEMMA ChangeKeeps ==
    ASSUME BoardInv, NEW k \in DOMAIN asked, B!ChangeDone(k)
    PROVE  BoardInv'
<1> DEFINE c == asked[k]
           n == c.id
           kind == c.kind
           q == B!Without(k)
           next == IF kind = "check" THEN n ELSE 0
           l == [B!AskList(next) EXCEPT !.answer = [m \in {m \in Ids : rows'[m].here} |-> rows'[m]]]
           gone == kind = "remove"
<1>1. /\ kind \in ChangeKinds /\ (kind = "create" \/ rows[n].here) /\ rows' = B!Changed(c)
      /\ asked' = Append(q, l) /\ UNCHANGED <<timer, feeds, alerts, list, range, toasts, flips, shuffled>>
  BY DEF B!ChangeDone, ChangeKinds, B!Nothing
<1>2. /\ seen' = IF gone THEN [m \in DOMAIN seen \ {n} |-> seen[m]] ELSE seen
      /\ met' = IF gone THEN [m \in DOMAIN met \ {n} |-> met[m]] ELSE met
      /\ watched' = IF gone /\ watched = n THEN 0 ELSE watched
      /\ panes' = IF gone /\ watched = n THEN [panes EXCEPT !["samples"] = B!Empty] ELSE panes
      /\ dialog' = IF kind \in {"save", "create"} THEN 0 ELSE dialog
  BY DEF B!ChangeDone, B!Nothing
<1>3. /\ rows \in [Ids -> MonitorType] /\ flips \in Nat /\ (\A m \in Ids : rows[m].change <= flips) /\ timer \in BOOLEAN /\ shuffled \in BOOLEAN /\ list \in AnswerType
      /\ seen \in TimesType /\ met \in TimesType /\ DOMAIN met = DOMAIN seen /\ watched \in Ids \cup {0} /\ range \in RangeLabels
      /\ panes \in [B!Panes -> PaneType] /\ dialog \in Ids \cup {0, 99} /\ alerts \in Seq(AlertType) /\ toasts \in Seq(ToastType)
      /\ B!OneFeed /\ PanesOwn /\ ChartKept /\ OneCreate(asked, rows)
  BY DEF BoardInv, BoardTyped, Queued
<1>4. /\ Queued(q, rows) /\ (\A v \in Views(q) : v \in Views(asked)) /\ c \in AskType /\ asked \in Seq(AskType)
      /\ kind # "series" => \A x, y : (LastChart(asked, x, y) => LastChart(q, x, y)) /\ (NoChart(q, x) => NoChart(asked, x))
  BY LeftKeeps
<1>5. n \in Ids /\ kind # "list" /\ kind # "series"
  <2>1. kind # "list" /\ kind # "series" BY <1>1 DEF ChangeKinds
  <2>2. QED BY <2>1, <1>4 DEF AskType
<1>6. kind = "create" => rows[n] = B!Unborn BY <1>3 DEF OneCreate
<1>7. rows' \in [Ids -> MonitorType] /\ (\A m \in Ids : Rewritten(rows[m], rows'[m])) /\ \A m \in Ids : m # n => rows'[m] = rows[m]
  <2> HIDE DEF c
  <2>1. QED BY <1>1, <1>3, <1>5, <1>6, ChangedRows
<1>8. \A m \in Ids : Follows(rows[m], rows'[m]) /\ rows'[m].change <= flips
  <2>1. \A m \in Ids : rows[m].change \in Nat BY <1>3 DEF MonitorType
  <2>2. QED BY <2>1, <1>3, <1>7 DEF Rewritten, Follows
<1>9. OneCreate(q, rows')
  <2>1. OneCreate(q, rows) /\ q \in Seq(AskType) BY <1>4 DEF Queued
  <2>2. ASSUME NEW i \in DOMAIN q, q[i].kind = "create" PROVE rows'[q[i].id] = B!Unborn
    <3>1. rows[q[i].id] = B!Unborn BY <2>1, <2>2 DEF OneCreate
    <3>2. q[i].id \in Ids
      <4>1. q[i] \in AskType BY <2>1
      <4>2. QED BY <4>1, <2>2 DEF AskType
    <3>3. q[i].id # n
      <4>1. CASE kind = "create"
        <5>1. Shift(i, k) \in DOMAIN asked /\ Shift(i, k) # k /\ q[i] = asked[Shift(i, k)] BY <1>4, WithoutIs
        <5>2. asked[Shift(i, k)].kind = "create" BY <5>1, <2>2
        <5>3. QED BY <5>1, <5>2, <4>1, <1>3 DEF OneCreate
      <4>2. CASE kind # "create"
        <5>1. rows[n].here BY <4>2, <1>1
        <5>2. ~B!Unborn.here BY DEF B!Unborn
        <5>3. QED BY <5>1, <5>2, <3>1
      <4>3. QED BY <4>1, <4>2
    <3>4. QED BY <3>1, <3>2, <3>3, <1>7
  <2>3. QED BY <2>1, <2>2 DEF OneCreate
<1>10. l \in AskType /\ l.kind = "list" /\ \A m \in DOMAIN l.answer : l.answer[m] = rows'[m]
  <2>1. next \in Ids \cup {0} BY <1>5
  <2> HIDE DEF next
  <2>2. QED BY <2>1, <1>3, <1>7, ListLoaded
<1> HIDE DEF c, n, kind, q, l, gone
<1>11. Queued(q, rows') BY <1>3, <1>4, <1>7, <1>8, <1>9, MovedQueued
<1>12. Queued(asked', rows') /\ Views(asked') \subseteq Views(q) \cup {l.answer}
  <2>1. l.kind # "create" BY <1>10
  <2>2. QED BY <2>1, <1>1, <1>10, <1>11, AddedQueued
<1>13. \A x, y : (LastChart(asked, x, y) => LastChart(asked', x, y)) /\ (NoChart(asked', x) => NoChart(asked, x))
  <2>1. \A x : ~ChartOf(l, x) BY <1>10 DEF ChartOf
  <2>2. q \in Seq(AskType) BY <1>4 DEF Queued
  <2>3. \A x, y : (LastChart(q, x, y) => LastChart(asked', x, y)) /\ (NoChart(asked', x) => NoChart(q, x)) BY <2>1, <2>2, <1>1, <1>10, AddedChart
  <2>4. QED BY <2>3, <1>4, <1>5
<1>14. /\ seen' \in TimesType /\ met' \in TimesType /\ DOMAIN met' = DOMAIN seen' /\ DOMAIN seen' \subseteq DOMAIN seen
       /\ \A m \in DOMAIN seen' : seen'[m] = seen[m] /\ met'[m] = met[m]
  <2>1. CASE gone
    <3>1. seen' = [m \in DOMAIN seen \ {n} |-> seen[m]] /\ met' = [m \in DOMAIN seen \ {n} |-> met[m]] BY <2>1, <1>2, <1>3
    <3>2. DOMAIN seen \subseteq Ids /\ \A m \in DOMAIN seen : seen[m] \in Nat /\ met[m] \in Nat BY <1>3 DEF TimesType
    <3>3. seen' \in [DOMAIN seen \ {n} -> Nat] /\ met' \in [DOMAIN seen \ {n} -> Nat] BY <3>1, <3>2
    <3>4. DOMAIN seen \ {n} \in SUBSET Ids BY <3>2
    <3>5. QED BY <3>1, <3>3, <3>4 DEF TimesType
  <2>2. CASE ~gone BY <2>2, <1>2, <1>3
  <2>3. QED BY <2>1, <2>2
<1>15. /\ panes' \in [B!Panes -> PaneType] /\ watched' \in Ids \cup {0} /\ panes'["series"] = panes["series"]
       /\ \A w \in B!Panes : panes'[w] = panes[w] \/ panes'[w].of = 0
  <2>1. B!Empty \in PaneType /\ B!Empty.of = 0
    <3> DEFINE blank == B!Empty.range
    <3>1. B!Empty = [for |-> 0, of |-> 0, range |-> blank] BY DEF B!Empty, B!Nothing
    <3>2. blank \in RangeLabels BY DEF RangeLabels
    <3> HIDE DEF blank
    <3>3. QED BY <3>1, <3>2 DEF PaneType
  <2>2. CASE gone /\ watched = n
    <3> DEFINE empty == B!Empty
    <3>1. panes' = [panes EXCEPT !["samples"] = empty] BY <2>2, <1>2
    <3>2. "samples" # "series" /\ {"samples", "series"} \subseteq B!Panes BY DEF B!Panes
    <3>3. empty \in PaneType /\ empty.of = 0 BY <2>1
    <3> HIDE DEF empty
    <3>4. watched' = 0 BY <2>2, <1>2
    <3>5. QED BY <3>1, <3>2, <3>3, <3>4, <1>3
  <2>3. CASE ~(gone /\ watched = n)
    <3>1. panes' = panes /\ watched' = watched BY <2>3, <1>2
    <3>2. QED BY <3>1, <1>3
  <2>4. QED BY <2>2, <2>3
<1>16. PanesOwn' BY <1>3, <1>15 DEF PanesOwn
<1>17. ChartKept'
  <2>1. CASE gone /\ watched = n
    <3>1. watched' = 0 BY <2>1, <1>2
    <3>2. QED BY <3>1 DEF ChartKept
  <2>2. CASE ~(gone /\ watched = n)
    <3>1. watched' = watched BY <2>2, <1>2
    <3>2. range' = range /\ (~shuffled' => ~shuffled) BY <1>1
    <3>3. LastChart(asked, watched, range) => LastChart(asked', watched, range) BY <1>13
    <3>4. NoChart(asked', watched) => NoChart(asked, watched) BY <1>13
    <3>5. QED BY <3>1, <3>2, <3>3, <3>4, <1>3, <1>15, ChartStays
  <2>3. QED BY <2>1, <2>2
<1>18. NewsKept'
  <2>1. BoardTyped /\ NewsKept BY DEF BoardInv
  <2>2. asked' \in Seq(AskType) BY <1>12 DEF Queued
  <2>3. \A v \in Views(asked') : v \in Views(asked) \/ \A m \in DOMAIN v : v[m] = rows'[m] BY <1>4, <1>10, <1>12
  <2>4. list' = list /\ toasts' = toasts /\ (~shuffled' => ~shuffled) BY <1>1
  <2>5. QED BY <2>1, <2>2, <2>3, <2>4, <1>7, <1>8, <1>14, NewsStays
<1>19. BoardTyped'
  <2>1. dialog' \in Ids \cup {0, 99} BY <1>2, <1>3
  <2>2. flips' \in Nat /\ \A m \in Ids : rows'[m].change <= flips' BY <1>1, <1>3, <1>8
  <2>3. timer' \in BOOLEAN /\ shuffled' \in BOOLEAN /\ list' \in AnswerType /\ range' \in RangeLabels /\ alerts' \in Seq(AlertType) /\ toasts' \in Seq(ToastType) BY <1>1, <1>3
  <2>4. QED BY <2>1, <2>2, <2>3, <1>7, <1>14, <1>15 DEF BoardTyped
<1>20. Queued(asked, rows)' BY <1>12
<1>21. B!OneFeed' BY <1>1, <1>3 DEF B!OneFeed
<1>22. QED BY <1>16, <1>17, <1>18, <1>19, <1>20, <1>21 DEF BoardInv

LEMMA StoppedKeeps ==
    ASSUME BoardInv, B!StopPolling \/ \E what \in Ids \cup {99} : B!Edit(what)
    PROVE  BoardInv'
<1>1. /\ timer \in BOOLEAN /\ dialog \in Ids \cup {0, 99} /\ alerts \in Seq(AlertType) /\ B!OneFeed BY DEF BoardInv, BoardTyped
<1>2. CASE B!StopPolling
  <2>1. /\ UNCHANGED <<rows, list, seen, watched, range, panes, asked, toasts, flips, met, shuffled>>
        /\ timer /\ timer' = FALSE /\ feeds' = feeds - 1 /\ alerts' = <<>> /\ dialog' = 0
    BY <1>2 DEF B!StopPolling, B!Nothing
  <2>2. B!OneFeed' BY <2>1, <1>1 DEF B!OneFeed
  <2>3. timer' \in BOOLEAN /\ dialog' \in Ids \cup {0, 99} BY <2>1
  <2>4. alerts' \in Seq(AlertType)
    <3>1. <<>> \in Seq(AlertType) OBVIOUS
    <3>2. QED BY <2>1, <3>1
  <2>5. QED BY <2>1, <2>2, <2>3, <2>4, StopKeepsBoard
<1>3. ASSUME NEW what \in Ids \cup {99}, B!Edit(what) PROVE BoardInv'
  <2>1. /\ UNCHANGED <<rows, list, seen, watched, range, panes, asked, toasts, flips, met, shuffled>>
        /\ UNCHANGED <<timer, feeds, alerts>> /\ dialog' = what
    BY <1>3 DEF B!Edit
  <2>2. B!OneFeed' BY <2>1, <1>1 DEF B!OneFeed
  <2>3. timer' \in BOOLEAN /\ dialog' \in Ids \cup {0, 99} /\ alerts' \in Seq(AlertType) BY <2>1, <1>1
  <2>4. QED BY <2>1, <2>2, <2>3, StopKeepsBoard
<1>4. QED BY <1>2, <1>3

LEMMA BoardGoesOn ==
    ASSUME BoardInv, B!BoardNext
    PROVE  BoardInv'
<1>1. CASE B!StartPolling BY <1>1, StartKeeps
<1>2. CASE B!StopPolling BY <1>2, StoppedKeeps
<1>3. CASE B!Poll \/ B!Alert BY <1>3, PollKeeps
<1>4. CASE B!Submit BY <1>4, SubmitKeeps
<1>5. ASSUME NEW m \in Ids, B!Turn(m) \/ B!Edit(m) \/ B!Select(m) PROVE BoardInv'
  <2>1. m \in Ids \cup {0} /\ m \in Ids \cup {99} OBVIOUS
  <2>2. QED BY <1>5, <2>1, TurnKeeps, StoppedKeeps, SelectKeeps
<1>6. CASE B!Select(B!Nothing)
  <2>1. B!Select(0) BY <1>6 DEF B!Nothing
  <2>2. 0 \in Ids \cup {0} OBVIOUS
  <2>3. QED BY <2>1, <2>2, SelectKeeps
<1>7. CASE B!Edit(B!New)
  <2>1. \E what \in Ids \cup {99} : B!Edit(what) BY <1>7 DEF B!New
  <2>2. QED BY <2>1, StoppedKeeps
<1>8. ASSUME NEW r \in Ranges, B!SetSeriesRange(r) PROVE BoardInv' BY <1>8, RangeKeeps
<1>9. ASSUME NEW kind \in {"remove", "pause", "resume", "mute", "unmute", "check"}, B!Press(kind) PROVE BoardInv' BY <1>9, PressKeeps
<1>10. ASSUME NEW k \in DOMAIN asked, B!ListAnswer(k) \/ B!PaneAnswer(k) \/ B!LoadFails(k) \/ B!ChangeDone(k) \/ B!ChangeRefused(k) PROVE BoardInv'
  BY <1>10, ListAnswerKeeps, PaneKeeps, FailKeeps, ChangeKeeps, RefusedKeeps
<1>11. QED BY <1>1, <1>2, <1>3, <1>4, <1>5, <1>6, <1>7, <1>8, <1>9, <1>10 DEF B!BoardNext

LEMMA BoardRests ==
    ASSUME BoardInv, UNCHANGED boardVars
    PROVE  BoardInv'
<1>0. UNCHANGED <<rows, timer, feeds, alerts, list, seen, watched, range, panes, dialog, asked, toasts, flips, met, shuffled>> BY DEF boardVars
<1>1. BoardTyped' /\ B!OneFeed' /\ PanesOwn' /\ ChartKept' BY <1>0 DEF BoardInv, BoardTyped, B!OneFeed, PanesOwn, ChartKept
<1>2. Queued(asked, rows)' BY <1>0 DEF BoardInv
<1>3. NewsKept' BY <1>0 DEF BoardInv, NewsKept, SeenBehind, Told, PollOnce
<1>4. QED BY <1>1, <1>2, <1>3 DEF BoardInv

\* What the board shows of the selected monitor is its own data, in the range chosen, and an outage its polls find is
\* announced once: for every number of requests on their way, transitions, alerts and actions of the user
\* (monitorStore.ts).  The range and the outages are of answers that come in order: the store does not order them.
THEOREM BoardHolds == Spec => [](part = "board" => B!BoardSound)
<1> DEFINE Kept == part = "board" => BoardInv
<1>1. Init => Kept BY BoardBegins DEF Init
<1>2. Kept /\ [Next]_vars => Kept'
  <2>1. SUFFICES ASSUME Kept, [Next]_vars, part' = "board" PROVE BoardInv' OBVIOUS
  <2>2. part' = part /\ (part = "board" => B!BoardNext \/ UNCHANGED boardVars)
    BY <2>1 DEF Next, OfChat, OfPanel, OfCatalog, OfShell, OfHub, OfLibrary, OfBoard, OfHistory, OfAlerts, OfPages, OfFlow, OfEditor, vars, monitorVars
  <2>3. QED BY <2>1, <2>2, BoardGoesOn, BoardRests
<1>3. Kept => (part = "board" => B!BoardSound)
  <2>1. SUFFICES ASSUME BoardInv PROVE B!BoardSound OBVIOUS
  <2>2. panes \in [B!Panes -> PaneType] /\ PanesOwn /\ ChartKept /\ NewsKept /\ B!OneFeed /\ list \in AnswerType BY <2>1 DEF BoardInv, BoardTyped
  <2>3. \A w \in B!Panes : B!Drawn(w) \in {0, watched} BY <2>2 DEF PanesOwn, B!Drawn, B!Nothing
  <2>4. B!PaneOwn BY <2>3 DEF B!PaneOwn, B!Nothing
  <2>5. ASSUME ~shuffled, B!Drawn("series") # 0, ~\E k \in DOMAIN asked : asked[k].kind = "series" PROVE panes["series"].range = range
    <3>1. watched # 0 /\ panes["series"].for = watched /\ panes["series"].of # 0 BY <2>5 DEF B!Drawn, B!Nothing
    <3>2. NoChart(asked, watched) BY <2>5 DEF NoChart, ChartOf
    <3>3. QED BY <3>1, <3>2, <2>2, <2>5 DEF ChartKept
  <2>6. B!RangeShown BY <2>5 DEF B!RangeShown, B!Nothing
  <2>7. ASSUME ~shuffled PROVE
        /\ \A i, j \in DOMAIN toasts : (i < j /\ toasts[i].by = "poll" /\ toasts[j].by = "poll") =>
             <<toasts[i].id, toasts[i].change>> # <<toasts[j].id, toasts[j].change>>
        /\ \A m \in DOMAIN list \cap DOMAIN met : (list[m].status = "down" /\ list[m].change > met[m] /\ ~list[m].muted /\ m \in DOMAIN seen /\ seen[m] = list[m].change) =>
             \E i \in DOMAIN toasts : toasts[i].id = m /\ toasts[i].change = list[m].change
    <3>1. \A i, j \in DOMAIN toasts : i < j /\ ByPoll(toasts, i) /\ ByPoll(toasts, j) => toasts[i].id # toasts[j].id \/ toasts[i].change # toasts[j].change
      BY <2>2, <2>7 DEF NewsKept, PollOnce
    <3>2. ASSUME NEW i \in DOMAIN toasts, NEW j \in DOMAIN toasts, i < j, toasts[i].by = "poll", toasts[j].by = "poll"
          PROVE  <<toasts[i].id, toasts[i].change>> # <<toasts[j].id, toasts[j].change>>
      BY <3>1, <3>2 DEF ByPoll
    <3>3. ASSUME NEW m \in DOMAIN list, m \in DOMAIN seen, list[m].status = "down", list[m].change > met[m], seen[m] = list[m].change
          PROVE  \E i \in DOMAIN toasts : toasts[i].id = m /\ toasts[i].change = list[m].change
      <4>1. Witnessed(rows, list, asked, m, seen[m]) BY <3>3 DEF Witnessed, DownAt
      <4>2. Toasted(toasts, m, seen[m]) BY <4>1, <3>3, <2>2, <2>7 DEF NewsKept, Told
      <4>3. QED BY <4>2, <3>3 DEF Toasted
    <3>4. QED BY <3>2, <3>3
  <2>8. B!OutagesTold BY <2>7 DEF B!OutagesTold
  <2>9. QED BY <2>2, <2>4, <2>6, <2>8 DEF B!BoardSound
<1>4. QED BY <1>1, <1>2, <1>3, PTL DEF Spec
=============================================================================
