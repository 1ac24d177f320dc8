--------------------------- MODULE CatalogEditor ---------------------------
(***************************************************************************)
(* The editor in which directives are ticked (DirectiveCatalogEditor.tsx), *)
(* as its four screens use it, and the file each screen builds of what is  *)
(* ticked.  The OpenSSH screen shows several editors: one for the server,  *)
(* or one for the defaults of all hosts and one for each Host block.       *)
(* Left out: the folding of groups, which hides nothing for good, and the  *)
(* order and comments of the file.                                         *)
(***************************************************************************)
EXTENDS Catalogs

CONSTANTS
    Touched,  \* [screen -> keys the user ticks and unticks]
    MaxBlocks, \* bound: Host blocks
    MaxEdits  \* bound: changes the user makes

VARIABLES
    screen,   \* "sysctl", "zabbix", "rdp" or "ssh"
    target,   \* what the file is for: its mode button
    edits,    \* changes made
    editors   \* [editor -> what is ticked with its values, "selected only", the search, the pattern of the block]

catalogVars == <<screen, target, edits, editors>>

Screens == {"sysctl", "zabbix", "rdp", "ssh"}
Targets == [s \in Screens |-> CASE s = "sysctl" -> <<"permanent", "temporary">> [] s = "zabbix" -> <<"server", "agent">>
                                [] s = "ssh" -> <<"client", "server">> [] OTHER -> <<"file">>]
Blocks == 1..MaxBlocks
\* The editors of the OpenSSH screen: 0 is the server, -1 the defaults.
Server == 0
Global == -1
Catalog(e) == CASE screen = "sysctl" -> Sysctl [] screen = "rdp" -> Rdp
                [] screen = "zabbix" -> IF target = "server" THEN ZabbixServer ELSE ZabbixAgent
                [] OTHER -> IF e = Server THEN SshServer ELSE SshClient
OptionOf(e, k) == CHOOSE o \in Catalog(e) : o.key = k
Mounted == IF screen # "ssh" THEN {Server} ELSE IF target = "server" THEN {Server} ELSE (DOMAIN editors) \ {Server}
Ticked(e) == DOMAIN editors[e].values

NewEditor(pattern) == [values |-> <<>>, only |-> FALSE, query |-> "", pattern |-> pattern]
Unmounted(ed) == [ed EXCEPT !.only = FALSE, !.query = ""]

\* What a ticked option is first set to.
Blank == W("")
FirstOf(vs) == IF \A k \in DOMAIN vs : vs[k] = None THEN Blank ELSE vs[CHOOSE k \in DOMAIN vs : vs[k] # None /\ \A j \in 1..(k - 1) : vs[j] = None]
Seed(o) == IF screen \in {"sysctl", "zabbix"} THEN o.default ELSE FirstOf(<<o.hardened, o.lan, o.default>>)

Baseline(options, column) ==
    [k \in {o.key : o \in {x \in options : x[column] # None}} |-> (CHOOSE o \in options : o.key = k)[column]]
SysctlPresets == {SecurityBaseline, HighConcurrency, ContainerHost, DatabaseHost}
RdpPresets == {Baseline(Rdp, "hardened"), Baseline(Rdp, "lan")}
HardenedPreset(e) == IF e \in {Server, Global} THEN {Baseline(Catalog(e), "hardened")} ELSE {}
Presets(e) == CASE screen = "sysctl" -> SysctlPresets [] screen = "rdp" -> RdpPresets
                [] screen = "ssh" -> HardenedPreset(e) [] OTHER -> {}

Init ==
    /\ screen \in Screens
    /\ target = Targets[screen][1]
    /\ edits = 0
    /\ editors = [e \in IF screen = "ssh" THEN {Server, Global, 1} ELSE {Server} |-> NewEditor("host")]

-----------------------------------------------------------------------------
(* The editor.                                                             *)

Visible(e, k) ==
    /\ editors[e].only => k \in Ticked(e)
    /\ editors[e].query \in {"", k}
TickOffered(e) == {o.key : o \in {x \in Catalog(e) : Visible(e, x.key)}} \ Ticked(e)
OnlyOffered(e) == Ticked(e) # {}

Change(e, values) == editors' = [editors EXCEPT ![e].values = values] /\ UNCHANGED <<screen, target>>

Tick(e, k) ==
    /\ k \in TickOffered(e)
    /\ Change(e, (k :> Seed(OptionOf(e, k))) @@ editors[e].values)
Untick(e, k) ==
    /\ k \in Ticked(e) /\ Visible(e, k)
    /\ Change(e, [j \in Ticked(e) \ {k} |-> editors[e].values[j]])

\* What the control of an option lets the user give it.
Inputs(o) == CASE o.kind \in {"switch", "choice"} -> o.legal
               [] o.kind = "text" -> {Blank, W("text")} \cup IF screen = "ssh" THEN {W("weak"), W("#")} ELSE {W("*")}
               [] OTHER -> {Blank} \cup o.legal \cup {N(v.n - 1) : v \in o.legal}
Type(e, k, v) ==
    /\ k \in Ticked(e) /\ Visible(e, k) /\ v \in Inputs(OptionOf(e, k))
    /\ Change(e, [editors[e].values EXCEPT ![k] = v])

PresetFirst(values, p) == values @@ p  \* mutant: a preset does not replace what is ticked
WithPreset(values, p) == p @@ values
ApplyPreset(e, p) == p \in Presets(e) /\ Change(e, WithPreset(editors[e].values, p))
ClearAll(e) == Ticked(e) # {} /\ Change(e, <<>>)

SetOnly(e) ==
    /\ OnlyOffered(e)
    /\ editors' = [editors EXCEPT ![e].only = ~@]
    /\ UNCHANGED <<screen, target>>
Search(e, q) ==
    /\ q # editors[e].query
    /\ editors' = [editors EXCEPT ![e].query = q]
    /\ UNCHANGED <<screen, target>>

-----------------------------------------------------------------------------
(* The screens.                                                            *)

\* Zabbix forgets the selection; the OpenSSH screen shows other editors, the state of the old ones is gone.
KeepsSelection(next) == editors' = [e \in DOMAIN editors |-> IF screen = "ssh" THEN Unmounted(editors[e]) ELSE editors[e]]  \* mutant
AfterSwitch(next) ==
    editors' = [e \in DOMAIN editors |->
        CASE screen = "zabbix" -> [editors[e] EXCEPT !.values = <<>>]
          [] screen = "ssh" -> Unmounted(editors[e])
          [] OTHER -> editors[e]]
SwitchMode(next) ==
    /\ next \in {Targets[screen][k] : k \in DOMAIN Targets[screen]} \ {target}
    /\ target' = next
    /\ AfterSwitch(next)
    /\ UNCHANGED screen

AddHostBlock ==
    /\ screen = "ssh" /\ target = "client"
    /\ \E b \in Blocks \ DOMAIN editors :
        /\ \A c \in Blocks \ DOMAIN editors : b <= c
        /\ editors' = (b :> NewEditor("host")) @@ editors
    /\ UNCHANGED <<screen, target>>
RemoveHostBlock(b) ==
    /\ screen = "ssh" /\ target = "client" /\ b \in Blocks \cap DOMAIN editors
    /\ Cardinality(Blocks \cap DOMAIN editors) > 1
    /\ editors' = [e \in DOMAIN editors \ {b} |-> editors[e]]
    /\ UNCHANGED <<screen, target>>
\* The pattern of a block; the .rdp screen has the address of the host in its place.
SetPattern(b, p) ==
    /\ \/ screen = "ssh" /\ target = "client" /\ b \in Blocks \cap DOMAIN editors
       \/ screen = "rdp" /\ b = Server
    /\ p # editors[b].pattern
    /\ editors' = [editors EXCEPT ![b].pattern = p]
    /\ UNCHANGED <<screen, target>>

Next ==
    /\ edits < MaxEdits /\ edits' = edits + 1
    /\ \/ \E e \in Mounted :
           \/ \E k \in Touched[screen] : Tick(e, k) \/ Untick(e, k) \/ Search(e, k)
           \/ \E k \in Touched[screen] \cap Ticked(e) : \E v \in Inputs(OptionOf(e, k)) : Type(e, k, v)
           \/ \E p \in Presets(e) : ApplyPreset(e, p)
           \/ ClearAll(e) \/ SetOnly(e) \/ Search(e, "") \/ Search(e, "nothing like it")
       \/ \E next \in {"permanent", "temporary", "server", "agent", "client"} : SwitchMode(next)
       \/ AddHostBlock
       \/ \E b \in Blocks : RemoveHostBlock(b)
       \/ \E b \in Blocks \cup {Server} : \E p \in {"host", "", "*"} : SetPattern(b, p)

Spec == Init /\ [][Next]_catalogVars

-----------------------------------------------------------------------------
(* The file.                                                               *)

RawValue(o, v) == v  \* mutant: what was typed goes into the file
Sanitize(o, v) == IF v = Blank \/ (o.legal # {} /\ v \notin o.legal) THEN o.default ELSE v

\* What OpenSSH and the .rdp format take; Zabbix and sysctl repair instead.
RdpValid(o, v) ==
    CASE o.kind \in {"switch", "choice"} -> v \in o.legal
      [] o.kind = "number" -> v # Blank /\ Bounded(o, v.n)
      [] OTHER -> TRUE
Valid(o, v) == RdpValid(o, v) /\ (o.kind = "text" /\ screen # "rdp" => v \notin {Blank, W("#")})
Value(o, v) == IF screen \in {"sysctl", "zabbix"} THEN Sanitize(o, v) ELSE v

\* A removed algorithm counts as a weak one too, whatever the sign before it.
Weak(o, v) == o \in SshCryptography /\ o.kind = "text" /\ v = W("weak")
Has(e, k, v) == k \in Ticked(e) /\ editors[e].values[k] = W(v)
Written(e, k) == k \in Ticked(e) /\ editors[e].values[k] # Blank
SshWarnings(e) ==
    {"weak algorithms" : k \in {j \in Ticked(e) : Weak(OptionOf(e, j), editors[e].values[j])}}
    \cup (IF e = Server /\ Has(e, "PasswordAuthentication", "no") /\ "KbdInteractiveAuthentication" \notin Ticked(e) THEN {"password still possible"} ELSE {})
    \cup (IF e = Server /\ Has(e, "PermitRootLogin", "yes") THEN {"root login"} ELSE {})
    \cup (IF e \in Blocks /\ Ticked(e) = {} THEN {"empty block"} ELSE {})
RdpWarnings(e) ==
    {w \in {"no NLA", "any host", "all drives", "smart card", "monitors ignored", "nothing to launch", "shell ignored"} :
        CASE w = "no NLA" -> Has(e, "enablecredsspsupport", "0")
          [] w = "any host" -> Has(e, "authentication level", "0") \/ Has(e, "authentication level", "3")
          [] w = "all drives" -> Has(e, "drivestoredirect", "*")
          [] w = "smart card" -> ~Has(e, "redirectsmartcards", "1") /\ Has(e, "gatewaycredentialssource", "1")
          [] w = "monitors ignored" -> ~Has(e, "use multimon", "1") /\ Written(e, "selectedmonitors")
          [] w = "nothing to launch" -> Has(e, "remoteapplicationmode", "1") /\ ~Written(e, "remoteapplicationprogram")
          [] OTHER -> Written(e, "alternate shell") /\ Has(e, "remoteapplicationmode", "1")}

Known(e) == {k \in Ticked(e) : \E o \in Catalog(e) : o.key = k}
Lines(e) == {<<e, k, Value(OptionOf(e, k), editors[e].values[k])>> : k \in Known(e)}
Refused(e) == \E k \in Known(e) : ~Valid(OptionOf(e, k), editors[e].values[k])
RdpRefused == editors[Server].pattern = "" \/ Refused(Server)
SshRefused ==
    \/ \E e \in Mounted : Refused(e)
    \/ target = "server" /\ Ticked(Server) = {}
    \/ \E b \in Mounted \cap Blocks : editors[b].pattern \in {"", "*"}
Execute ==
    IF (screen = "ssh" /\ SshRefused) \/ (screen = "rdp" /\ RdpRefused) THEN [ok |-> FALSE, lines |-> {}, warnings |-> {}]
    ELSE [ok |-> TRUE, lines |-> UNION {Lines(e) : e \in Mounted},
          warnings |-> CASE screen = "ssh" -> UNION {SshWarnings(e) : e \in Mounted} [] screen = "rdp" -> RdpWarnings(Server) [] OTHER -> {}]

-----------------------------------------------------------------------------
\* The number of ticked directives that is shown is the number of directives in the file, each of them with a
\* value the program it is for understands ("{n} selected - only these appear in the output").
FileIsSelection ==
    Execute.ok =>
        /\ Cardinality(Execute.lines) = Cardinality(UNION {{<<e, k>> : k \in Ticked(e)} : e \in Mounted})
        /\ \A l \in Execute.lines : LET o == OptionOf(l[1], l[2]) IN
            IF o.kind = "number" THEN Bounded(o, l[3].n) ELSE o.legal # {} => l[3] \in o.legal

\* Whatever is ticked and typed before, a preset ends with all its values in the file, and every value of it
\* is one the builder takes ("the later-applied preset wins").
PresetWins ==
    \A e \in DOMAIN editors : \A p \in Presets(e) : ApplyPreset(e, p) =>
        \A k \in DOMAIN p : LET o == OptionOf(e, k) IN
            /\ Valid(o, p[k]) /\ Value(o, editors'[e].values[k]) = p[k]

\* The hardened settings are not what the builder warns of.
HardenedIsQuiet ==
    \A e \in Mounted \ Blocks : \A p \in Presets(e) :
        (screen \in {"ssh", "rdp"} /\ editors[e].values = p /\ \A d \in Mounted \ {e} : Ticked(d) = {}) =>
            Execute.warnings \subseteq {"empty block"}
=============================================================================
