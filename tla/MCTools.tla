------------------------------ MODULE MCTools -------------------------------
(***************************************************************************)
(* The pure tools, each applied to every input of a small set: a state is  *)
(* a tool, an input and what the tool answers.                             *)
(***************************************************************************)
EXTENDS Integers, FiniteSets, SequencesExt, TLC

VARIABLES tool, in, out
vars == <<tool, in, out>>

Idle == tool = "none"
Init == Idle /\ in = <<>> /\ out = <<>>
Show(t, i, o) == tool' = t /\ in' = i /\ out' = o
Leave == tool # "none" /\ tool' = "none" /\ in' = <<>> /\ out' = <<>>

SeqsUpTo(S_, n) == UNION {[1..k -> S_] : k \in 0..n}
NonEmptySeqsUpTo(S_, n) == UNION {[1..k -> S_] : k \in 1..n}

-----------------------------------------------------------------------------
(***************************************************************************)
(* The builders of configuration files on the bench.                       *)
(***************************************************************************)

D == INSTANCE ServiceConfig
K == INSTANCE DockerRun
F == INSTANCE Firewall WITH MaxPort <- 65535, MaxGroup <- 255, Groups6 <- 3

UsePostgres == Idle /\ \E mb \in {512, 4096, 65536}, cpus \in {1, 3, 4, 16}, version \in {9, 10, 13, 15, 18}, workload \in D!PgWorkloads,
                          connections \in {D!None, 1, 500}, storage \in {"hdd", "san"}, windows \in BOOLEAN, fits \in BOOLEAN :
    LET m == D!PgMetrics(mb, cpus, version, workload, connections, storage, windows, fits, "primary")
    IN  Show("postgres", m, [now |-> D!ComputePostgresParams(m), double |-> D!ComputePostgresParams([m EXCEPT !.mb = 2 * mb])])
UseMariaDb == Idle /\ \E mb \in {256, 2048, 65536}, reserved \in {0, 300, 4096}, storage \in {"hdd", "ssd", "nvme"},
                         workload \in DOMAIN D!MaConnections, next \in {512, 1024, 8192} :
    LET m == D!SetTotalMemory(D!MaMetrics(mb, reserved, storage, workload, FALSE, 10, 8), next)
    IN  Show("mariadb", m, IF D!MaAccepted(m) THEN D!ComputeMariaDbParams(m) ELSE D!Refused)

\* Three clicks of the option list: an option of either engine is ticked, edited or cleared.
Clicks(engine, values) ==
    UNION {{D!ToggleOption(values, o, TRUE), D!ToggleOption(values, o, FALSE)} \cup
             IF o.key \in DOMAIN values THEN {D!UpdateOptionValue(values, o, t) : t \in D!EffectiveChoices(o) \cup IF o.kind = "freeText" THEN {"", "lines", "x"} ELSE {}} ELSE {}
           : o \in D!ShownOptions(engine, values)}
Ticked(engine) == UNION {UNION {Clicks(engine, w) : w \in Clicks(engine, v)} : v \in Clicks(engine, <<>>)} \cup {"no_such" :> "x"}
Engines == {"postgresql", "mariadb"}
PolicyChoices == [e \in Engines |-> Ticked(e)]
Machine(engine) == IF engine = "postgresql" THEN D!PgMetrics(4096, 4, 15, "web", D!None, "ssd", FALSE, FALSE, "standalone")
                   ELSE D!MaMetrics(4096, 600, "ssd", "web", FALSE, 10, 8)
UsePolicy == Idle /\ \E engine \in Engines : \E values \in PolicyChoices[engine] :
    Show("policy", [engine |-> engine, values |-> values],
         [file |-> D!Execute(engine, Machine(engine), values), shown |-> {o.key : o \in D!ShownOptions(engine, values)}])

-----------------------------------------------------------------------------
(* docker run.                                                             *)

InSingle(t) == <<"'">> \o t \o <<"'">>
InDouble(t) == <<"dquote">> \o FlattenSeq([k \in DOMAIN t |-> IF t[k] \in {"dquote", "bslash", "$"} THEN <<"bslash", t[k]>> ELSE <<t[k]>>]) \o <<"dquote">>
Escaped(t) == FlattenSeq([k \in DOMAIN t |-> IF t[k] \in K!ShellSpecial THEN <<"bslash", t[k]>> ELSE <<t[k]>>])
UseShellWords == Idle /\ \E t \in SeqsUpTo({"a", " ", "'", "dquote", "bslash", "$"}, 3), u \in SeqsUpTo({"a", "dquote", "bslash"}, 1) :
    Show("shell", [one |-> t, two |-> u],
         [single |-> K!Tokenize(InSingle(t) \o <<" ">> \o InDouble(u)), double |-> K!Tokenize(InDouble(t) \o <<"\n">> \o InDouble(u)),
          escaped |-> K!Tokenize(Escaped(t) \o <<" ", " ">> \o InDouble(u)), joined |-> K!Tokenize(InDouble(t) \o Escaped(u))])

\* A flag as it may be spelt; a value may look like a flag or be empty.
FlagValues == {<<>>, <<"x">>, <<"x", ":", "y">>, <<"x", "=", "y">>, <<"--", "rm">>, <<"host">>}
LetterOf == "e" :> "env" @@ "p" :> "publish" @@ "v" :> "volume" @@ "h" :> "hostname"
Occurrences ==
    {[flag |-> f, value |-> v, tokens |-> t] : f \in {"name", "publish", "network"}, v \in FlagValues, t \in {<<>>}} \cup
    {[flag |-> f, value |-> <<"x", "=", "y">>, tokens |-> <<>>] : f \in {"log-opt", "health-cmd", "gpus", "annotation", "stop-timeout", "unknown"}}
Spelt(o) == {[o EXCEPT !.tokens = <<<<"--", o.flag, "=">> \o o.value>>]} \cup
            IF o.flag = "unknown" THEN {} ELSE {[o EXCEPT !.tokens = <<<<"--", o.flag>>, o.value>>]}
Lettered == {[flag |-> LetterOf[l], value |-> v, tokens |-> t] : l \in DOMAIN LetterOf, v \in FlagValues \ {<<>>}, t \in {<<>>}}
SpeltShort(o) == LET l == CHOOSE l \in DOMAIN LetterOf : LetterOf[l] = o.flag IN
    {[o EXCEPT !.tokens = <<<<"-", l>> \o o.value>>], [o EXCEPT !.tokens = <<<<"-", l>>, o.value>>]}
Switches ==
    {[flag |-> f, value |-> v, tokens |-> <<<<"--", f>> \o IF v = <<"false">> THEN <<"=", "false">> ELSE <<>>>>] : f \in {"init", "detach", "no-healthcheck"}, v \in {<<"true">>, <<"false">>}}
    \cup {[flag |-> "tty", value |-> <<"true">>, tokens |-> <<<<"-", "t">>>>], [flag |-> "z", value |-> <<>>, tokens |-> <<<<"-", "z">>>>]}
Flags == UNION {Spelt(o) : o \in Occurrences} \cup UNION {SpeltShort(o) : o \in Lettered} \cup Switches
\* Two short flags may share a dash when the first takes no value.
Clustered(a, b) == a.flag \in {"tty", "z"} /\ b.tokens[1][1] = "-"
UseDocker == Idle /\ \E a \in Flags, b \in Flags, cluster \in BOOLEAN, prefix \in {<<<<"docker">>, <<"run">>>>, <<>>}, rest \in {<<>>, <<<<"img">>>>, <<<<"img">>, <<"-", "t">>>>} :
    /\ cluster => Clustered(a, b)
    /\ LET flags == IF cluster THEN <<a.tokens[1] \o Tail(b.tokens[1])>> \o Tail(b.tokens) ELSE a.tokens \o b.tokens
       IN  Show("docker", [flags |-> <<a, b>>, rest |-> rest], K!Execute(prefix \o flags \o rest))
UseServiceName == Idle /\ \E name \in SeqsUpTo({"a", "A", "_", "-"}, 2), image \in NonEmptySeqsUpTo({"a", "A", "/", ":", "@", "-"}, 4) :
    /\ name # <<>> => name[1] \in {"a", "A"}
    /\ Show("service", [name |-> name, image |-> image], K!ServiceName(name, image))

-----------------------------------------------------------------------------
(* Firewalls.                                                              *)

OneRule == {<<F!Rule(a, d, p, ports, s, t, i, "c", FALSE)>> : a \in F!Actions, d \in F!Directions, p \in F!Protocols, ports \in {<<>>, <<22, 22>>, <<20, 90>>},
                                                          s \in {F!Unset, "0.0.0.0/0", "v4"}, t \in {F!Unset, "v6"}, i \in {F!Unset, "eth0"}}
TwoRules == {<<F!Rule(a[1], "inbound", p[1], ports[1], s, F!Unset, F!Unset, "", FALSE), F!Rule(a[2], d, p[2], ports[2], F!Unset, F!Unset, F!Unset, "", TRUE)>> :
                a \in [1..2 -> F!Actions], p \in [1..2 -> {"tcp", "any"}], ports \in [1..2 -> {<<>>, <<22, 22>>}], s \in {F!Unset, "v6"}, d \in F!Directions}
UseFirewall == Idle /\ \E rules \in {<<>>} \cup OneRule \cup TwoRules, incoming \in F!PolicyActions, dialect \in {"ufw", "nftables"} :
    LET input == [dialect |-> dialect, rules |-> rules, policy |-> [incoming |-> incoming, outgoing |-> "allow", forward |-> "deny"], sshPort |-> 22,
                  allowLoopback |-> dialect = "ufw", allowEstablished |-> TRUE, allowIcmp |-> TRUE]
    IN  Show("firewall", input, F!Execute(input))
UseFirewallRows == Idle /\ \E presets \in SeqsUpTo(1..8, 2), id \in 0..1, action \in F!Actions :
    LET rows == [k \in DOMAIN presets |-> F!RowFromRule(k, F!PresetToRule(F!FirewallServicePresets[presets[k]]))]
        more == F!AddRow(F!RemoveRow(rows, id), F!BlankRow(3))
    IN  Show("firewallRows", [presets |-> presets, id |-> id], F!RowsToRules(F!UpdateRow(more, 3, [F!BlankRow(3) EXCEPT !.action = action])))

Texts6 == SeqsUpTo({F!Number(1), F!Piece(":"), F!Piece("x")}, 6) \cup {<<F!Piece(":"), F!Piece(":")>> \o FlattenSeq([k \in 1..4 |-> IF k < 4 THEN <<F!Number(n), F!Piece(".")>> ELSE <<F!Number(n)>>]) : n \in {9, 256}}
UseAddress == Idle /\ \E t \in Texts6 : Show("address", t, F!IsValidIpv6(t))
UsePort == Idle /\ \E t \in SeqsUpTo({F!Number(n) : n \in {0, 22, 80, 65536}} \cup {F!Piece("-"), F!Piece(":"), F!Piece("x")}, 3) : Show("ports", t, F!ParsePorts(t))

Sources == {F!NotGiven, "any", "10/8"}
CommandRules == {F!CommandRule(a, d, p, ports, s, n, F!NotGiven, c) : a \in {"allow", "deny"}, d \in F!Directions, p \in F!Protocols, ports \in {F!NotGiven, "22"}, s \in Sources, n \in {F!NotGiven, "web"}, c \in {F!NotGiven, "note"}}
UseCommands == Idle /\ \E r \in CommandRules, before \in Range(F!Providers), context \in {F!NotGiven, "mine"} :
    LET row == [id |-> 0] @@ r IN
    Show("commands", [rule |-> r, before |-> before],
         [p \in Range(F!Providers) |-> [shown |-> F!Generated(F!SetProvider(<<row>>, p), p, context)[1], copied |-> F!CopyText(F!SetProvider(<<row>>, p), p, context), row |-> F!SetProvider(<<row>>, p)[1]]])

-----------------------------------------------------------------------------
(* Properties.                                                             *)

\* The memory handed out fits beside the shared buffers, the limits are in order, and a machine of twice
\* the memory is never given less.
PgConsistent == tool = "postgres" => LET p == out.now IN
    /\ p.work = 4096 \/ in.fits \/ (p.connections + D!Workers(in)) * 3 * (p.work - 1) <= in.mb * 1024 - p.shared
    /\ p.minWal <= p.maxWal /\ p.autovacuum <= p.maintenance /\ (p.cache >= p.shared) /\ p.shared < in.mb * 1024
    /\ p.workers.gather <= p.workers.processes /\ p.workers.maintenance <= p.workers.processes /\ p.workers.parallel <= p.workers.processes
    /\ (p.io = D!None) = in.windows
    /\ \A k \in {"shared", "cache", "maintenance", "autovacuum", "work", "walBuffers"} : out.double[k] >= p[k]
MariaFits == (tool = "mariadb" /\ out # D!Refused) =>
    /\ out.pool <= in.mb - in.reserved \/ in.mb - in.reserved < 128
    /\ out.log <= 2048 /\ out.log * 4 <= out.pool /\ out.threads <= out.connections /\ out.tmp <= in.mb

\* What is ticked is written with its value, what depends on it only when it says so, nothing twice, and
\* nothing the engine does not know.
DependentsWritten == tool = "policy" =>
    IF ~out.file.ok THEN \/ ~DOMAIN in.values \subseteq {o.key : o \in Range(D!PolicyCatalog(in.engine))}
                         \/ \E k \in DOMAIN in.values : in.values[k] \in {"", "lines"}
    ELSE LET keys == [k \in DOMAIN out.file.file |-> out.file.file[k].key] IN
         /\ IsInjective(keys)
         /\ \A o \in Range(D!PolicyCatalog(in.engine)) :
              IF o.dependsOn = "" THEN (o.key \in Range(keys)) = (D!Raw(in.values, o.key) # "")
              ELSE o.key \in Range(keys) => /\ o.key \in out.shown /\ o.dependsOn \in Range(keys)
                                            /\ o.requires = "" \/ D!Lower(in.values[o.dependsOn]) = o.requires

\* Every quoting of a text is one word, that text; what is only joined is one word too.
WordsExact == tool = "shell" =>
    /\ out.single = [ok |-> TRUE, tokens |-> <<in.one, in.two>>] \/ "'" \in Range(in.one)
    /\ out.double = [ok |-> TRUE, tokens |-> <<in.one, in.two>>]
    /\ in.one # <<>> => out.escaped = [ok |-> TRUE, tokens |-> <<in.one, in.two>>]
    /\ out.joined = [ok |-> TRUE, tokens |-> <<in.one \o in.two>>]

\* However a flag is spelt and whatever its value looks like, it is in the service (the last one, or in
\* order), in a warning or in a note; what it names is declared; the image and its command are kept.
FlagsAccounted == tool = "docker" =>
    LET of(flag) == SelectSeq(in.flags, LAMBDA f : f.flag = flag)
        values(flag) == [k \in DOMAIN of(flag) |-> of(flag)[k].value]
        written(key) == {e.value : e \in {e \in Range(out.yaml.service) : e.key = key}}
        listed(key) == IF written(key) = {} THEN <<>> ELSE CHOOSE v \in written(key) : TRUE
        kept(flag) == SelectSeq(values(flag), LAMBDA v : v # <<>>)
        lastOf(flag) == IF of(flag) = <<>> THEN <<>> ELSE <<Last(values(flag))>>
    IN  IF ~out.ok THEN in.rest = <<>> ELSE
        /\ in.rest # <<>> /\ out.yaml.image = in.rest[1] /\ out.yaml.command = Tail(in.rest)
        /\ listed("container_name") = lastOf("name") /\ listed("hostname") = lastOf("hostname")
        /\ listed("init") = lastOf("init") /\ listed("stop_grace_period") = [k \in DOMAIN lastOf("stop-timeout") |-> Append(lastOf("stop-timeout")[k], "s")]
        /\ listed("tty") = IF of("tty") = <<>> THEN <<>> ELSE <<<<"true">>>>
        /\ listed("environment") = values("env") /\ listed("ports") = values("publish") /\ listed("volumes") = kept("volume")
        /\ \A v \in Range(values("volume")) : v = <<"x", ":", "y">> => <<"x">> \in Range(out.yaml.volumes)
        /\ \A v \in Range(kept("network")) : (v = <<"host">> /\ out.yaml.mode = v) \/ (v \in Range(listed("networks")) /\ v \in Range(out.yaml.networks))
        /\ of("log-opt") # <<>> => out.yaml.logging.options = <<[key |-> <<"x">>, value |-> <<"y">>]>>
        /\ of("health-cmd") # <<>> => "test" \in DOMAIN out.yaml.healthcheck \/ (of("no-healthcheck") # <<>> /\ "disable" \in DOMAIN out.yaml.healthcheck)
        /\ \A f \in {"gpus", "annotation", "unknown", "z"} : of(f) # <<>> => f \in Range(out.warnings)
        /\ of("detach") # <<>> => "detach" \in Range(out.notes)
\* A service has a name of the characters Compose allows.
ServiceNamed == tool = "service" => out # <<>> /\ (out = <<"app">> \/ Range(out) \subseteq {"a", "_", "."} \cup {"-"}) /\ (Head(out) # "-")

Packets == {p \in [direction : F!Directions, iface : {"lo", "eth0"}, proto : {"tcp", "udp"}, source : {"v4", "v6", "other"}, destination : {"v6", "other"}, port : {22, 80}, overRate : BOOLEAN] :
              p.source # "v4" \/ p.destination # "v6"}
\* Both dialects let in and out the same new packets within the rate; nothing else differs but loopback.
DialectsAgree == (tool = "firewall" /\ out.ok) => \A p \in Packets :
    (~p.overRate /\ (p.iface # "lo" \/ ~in.allowLoopback)) => (F!UfwDecides(out.ufw, p) = F!NftDecides(out.nft, p))
\* A lockout is warned of first, and whenever no session can be opened unless a rule refuses it by name.
LockoutWarned == (tool = "firewall" /\ out.ok) =>
    LET ssh == {p \in Packets : p.direction = "inbound" /\ p.proto = "tcp" /\ p.port = in.sshPort /\ ~p.overRate}
        codes == {w.code : w \in Range(out.warnings)}
        open == \E p \in ssh : F!UfwDecides(out.ufw, p)
    IN  /\ "ssh-lockout" \in codes => ~open /\ out.warnings[1].severity = "critical"
        /\ "ssh-lockout" \notin codes => open \/ "address-family-mismatch" \in codes \/ \E r \in Range(in.rules) : ~F!Permits(r.action)
        /\ \A k \in 2..Len(out.warnings) : out.warnings[k].severity = "caution"
\* A preset becomes the rule it names, whatever rows are added and removed around it.
RowsBecomeRules == tool = "firewallRows" =>
    /\ Len(out) = Len(in.presets) + 1 - Cardinality({in.id} \cap DOMAIN in.presets)
    /\ \A k \in DOMAIN in.presets \ {in.id} : F!PresetToRule(F!FirewallServicePresets[in.presets[k]]) \in Range(out)
\* An IPv6 text is accepted when it writes all the groups, or some on each side of one "::".
Group6 == F!Number(1)
Written6(n) == FlattenSeq([k \in 1..n |-> IF k < n THEN <<Group6, F!Piece(":")>> ELSE <<Group6>>])
Gap6 == <<F!Piece(":"), F!Piece(":")>>
Correct6 == {Written6(3)} \cup {Written6(n[1]) \o Gap6 \o Written6(n[2]) : n \in {n \in (0..2) \X (0..2) : n[1] + n[2] < 3}}
AddressesRead ==
    /\ tool = "address" => out = (in \in Correct6 \/ (Len(in) = 9 /\ in[3].n <= 255))
    /\ (tool = "ports" /\ out.ok) => out.ports[1] <= out.ports[2] /\ F!Number(out.ports[1]) = in[1] /\ F!Number(out.ports[2]) = Last(in)

\* For a rule that says its protocol and port, every target's command asks the same of an inbound packet,
\* and what deletes it names what was added.
Asked(command) == {<<CASE a[1] \in {"dport", "localport"} -> "port" [] OTHER -> a[1], a[2]>> : a \in {a \in command : a[1] \in {"dport", "localport", "port", "proto", "source", "verdict"}}}
CommandsAgree == tool = "commands" =>
    /\ (in.rule.direction = "inbound" /\ in.rule.protocol # "any" /\ in.rule.ports # F!NotGiven) =>
        \A p, q \in DOMAIN out : (out[p].row.action = out[q].row.action) => Asked(out[p].shown.add) = Asked(out[q].shown.add)
    /\ \A p \in DOMAIN out : /\ out[p].shown.delete # {} /\ (out[p].shown.delete \subseteq out[p].shown.add) /\ out[p].copied = <<out[p].shown.add>>
                              /\ out[p].row.action \in F!ActionsOffered(p) /\ out[p].shown.warnings = <<>>
                              /\ ("ruleName" \in F!FieldsOffered(p)) = (out[p].shown.delete # out[p].shown.add /\ p # "ufw")

BuildersHold == DialectsAgree /\ LockoutWarned /\ RowsBecomeRules /\ AddressesRead /\ CommandsAgree /\ WordsExact /\ FlagsAccounted /\ ServiceNamed /\ PgConsistent /\ MariaFits /\ DependentsWritten
ConfigUses == UseFirewall \/ UseFirewallRows \/ UseAddress \/ UsePort \/ UseCommands \/ UseShellWords \/ UseDocker \/ UseServiceName \/ UsePostgres \/ UseMariaDb \/ UsePolicy

-----------------------------------------------------------------------------
(***************************************************************************)
(* Small screens on the bench: their states are reached by what the user   *)
(* does, one change at a time.                                             *)
(***************************************************************************)

B == INSTANCE TextTools

Stay(t, i, o) == tool = t /\ Show(t, i, o)

-----------------------------------------------------------------------------
(* chmod.                                                                  *)

UseMode == Idle /\ \E owner, group, other \in SUBSET B!Rights, special \in SUBSET B!Specials :
    LET p == B!Mode(owner, group, other, special)
    IN  Show("mode", p, [octal |-> B!OctalFull(p), short |-> B!OctalPreferred(p), symbolic |-> B!Symbolic(p), said |-> B!Describe(p)])
UseModeText == Idle /\ \E t \in SeqsUpTo({"0", "4", "7", "8"}, 5) : Show("modeText", t, B!Parse(t))
OctalTexts == {<<>>, <<"7">>, <<"8">>, <<"7", "5", "5">>, <<"4", "7", "5", "5">>}
SymbolicTexts == {<<>>, <<"r">>, <<"r", "w", "S", "-", "-", "-", "-", "-", "t">>, <<"-", "r", "w", "x", "r", "-", "x", "r", "-", "x">>}
UseChmodScreen == Idle /\ Show("chmod", B!Screen0, <<>>)
ChmodStep == tool = "chmod" /\ \E s \in {B!OnOctalChange(in, t) : t \in OctalTexts} \cup {B!OnSymbolicChange(in, t) : t \in SymbolicTexts}
    \cup {B!SetTriad(in, "other", "execute", on) : on \in BOOLEAN} \cup {B!SetSpecial(in, "sticky", on) : on \in BOOLEAN} : Stay("chmod", s, <<>>)

\* A mode reads the same from every way it is written, alone or as ls prints it, and a text is read as what
\* chmod takes it for or refused.
ModesRead ==
    /\ tool = "mode" => /\ \A t \in {out.octal, out.short, out.symbolic, <<"d">> \o out.symbolic} : B!Parse(t) = B!ReadMode(in)
                        /\ \A s \in in.special : out.said.idle[s] = ("S" \in Range(out.symbolic) \/ "T" \in Range(out.symbolic))
                           \/ Cardinality(in.special) > 1
    /\ tool = "modeText" => out.ok = (in # <<>> /\ Len(in) <= 4 /\ "8" \notin Range(in))
                            /\ (out.ok => B!OctalFull(out.permissions) = [k \in 1..(4 - Len(in)) |-> "0"] \o in)
\* A field that shows no error shows the mode of the command, or nothing.
FieldsFollow == tool = "chmod" =>
    /\ (~in.octalError /\ B!DisplayOctal(in) # <<>>) => B!ParseOctal(B!DisplayOctal(in)) = B!ParseOctal(B!Command(in))
    /\ (~in.symbolicError /\ B!DisplaySymbolic(in) # <<>>) => B!ParseSymbolic(B!DisplaySymbolic(in)) = B!ParseOctal(B!Command(in))

-----------------------------------------------------------------------------
(* Sites.                                                                  *)

\* (Port 80 typed again after SSL was switched on would put the redirection on the port of the site.)
SiteValues == [name |-> {"", "site"}, listen |-> {"8080"}, certificate |-> {"", "cert"}, key |-> {"key"}, redirect |-> BOOLEAN, proxy |-> BOOLEAN,
               target |-> {"up", "http://up"}, headers |-> BOOLEAN, granted |-> BOOLEAN]
Edited(form) == UNION {{D!Update(form, key, v) : v \in SiteValues[key]} : key \in IF form.engine = "nginx" THEN D!NginxForm(form.nginx) ELSE D!ApacheForm(form.apache)}
UseSite == Idle /\ Show("site", D!WebForm, D!WebResult(D!WebForm))
SiteStep == tool = "site" /\ \E f \in Edited(in) \cup {D!ToggleSsl(in, on) : on \in BOOLEAN} \cup {[in EXCEPT !.engine = IF in.nginx = D!Site THEN "apache" ELSE "nginx"]} : Stay("site", f, D!WebResult(f))

\* What is switched off neither blocks the file nor shows in it, one switched on is complete, the site is served
\* by one block, under TLS when SSL is on, and a redirection is never left to answer on the port of the site.
Quiet(s) == [s EXCEPT !.certificate = IF s.ssl THEN @ ELSE "", !.key = IF s.ssl THEN @ ELSE "", !.redirect = @ /\ s.ssl, !.target = IF s.proxy THEN @ ELSE ""]
SitesSound == tool = "site" =>
    LET s == in[in.engine] IN
    /\ out = D!WebResult([in EXCEPT ![in.engine] = Quiet(s)])
    /\ out.ok = (s.name # "" /\ (s.ssl => s.certificate = "cert" /\ s.key = "key") /\ (s.proxy => s.target = "http://up"))
    /\ out.ok => LET blocks == out.blocks  site == Last(out.blocks) IN
         /\ Cardinality({k \in DOMAIN blocks : blocks[k].serves # "redirect"}) = 1 /\ site.tls = s.ssl
         /\ (Len(blocks) = 2) = (s.ssl /\ out.warnings = {}) /\ (Len(blocks) = 2 => blocks[1].port # site.port)
         /\ "Strict-Transport-Security" \in site.adds => site.tls
         /\ (site.cert = <<>>) = ~site.tls /\ ((site.serves = <<"proxy", "http://up">>) = s.proxy)

-----------------------------------------------------------------------------
(* Jails.                                                                  *)

JailTexts == {D!Blank, D!Text(-1, ""), D!Text(0, ""), D!Other}
JailValues == [bantime |-> JailTexts, maxretry |-> {D!Blank, D!Text(0, "")}, port |-> {"ssh"}, logPath |-> {""}]
Ticked3 == {"sshd", "postfix"}
JailEdits(form) ==
    {D!ToggleJail(form, id, on) : id \in Ticked3, on \in BOOLEAN}
    \cup UNION {UNION {{D!UpdateJail(form, form.jails[k].id, key :> t) : t \in JailValues[key]} : key \in D!JailRow(form.jails[k])} : k \in DOMAIN form.jails}
    \cup {[form EXCEPT !.bantime = t] : t \in JailTexts} \cup {[form EXCEPT !.ignoreIp = l] : l \in {<<>>, <<"::1">>, <<"x">>}}
    \cup {[form EXCEPT !.action = a] : a \in {"banOnly", "banWithEmail"}}
    \cup IF form.action = "banOnly" THEN {} ELSE {[form EXCEPT !.destEmail = m] : m \in {"", "me"}}
UseJails == Idle /\ Show("jails", D!JailForm, D!JailsExecute(D!JailForm))
JailStep == tool = "jails" /\ \E f \in JailEdits(in) : Stay("jails", f, D!JailsExecute(f))
UseSearch == Idle /\ \E open \in SUBSET Range(D!Categories), found \in {D!JailIds, {"sshd"}, {"postfix", "dovecot"}, {}} :
    Show("jailRows", [open |-> open, found |-> found], [k \in DOMAIN D!Categories |-> D!Listed(D!Categories[k], open, found)])

\* The file has a section for each ticked jail and no other, with the overrides it had when it was last ticked;
\* what is wrong in one that is unticked does not block it, and a mail setting shows with the mail actions only.
On(form) == {k \in DOMAIN form.jails : form.jails[k].enabled}
JailsSound ==
    /\ tool = "jails" =>
         LET plain == [in EXCEPT !.jails = SelectSeq(@, LAMBDA j : j.enabled)] IN
         /\ out = D!JailsExecute(plain)
         /\ out.ok => /\ {out.sections[k].id : k \in DOMAIN out.sections} = {in.jails[k].id : k \in On(in)} /\ Len(out.sections) = Cardinality(On(in))
                      /\ \A k \in DOMAIN out.sections : "bantime" \in DOMAIN out.sections[k] => out.sections[k].bantime \in {D!Text(-1, ""), D!Text(0, "")}
                      /\ "destEmail" \in DOMAIN out.defaults => out.defaults.action # "banOnly"
                      /\ out.defaults.bantime.unit \in {"", "m"}
         /\ \A id \in Ticked3 : D!ToggleJail(D!ToggleJail(in, id, FALSE), id, TRUE).jails = D!ToggleJail(in, id, TRUE).jails
    /\ tool = "jailRows" => \A id \in in.found : (\E k \in DOMAIN out : \E j \in Range(out[k]) : j.id = id) \/ in.found = D!JailIds

FormsHold == ModesRead /\ FieldsFollow /\ SitesSound /\ JailsSound
FormUses == UseMode \/ UseModeText \/ UseChmodScreen \/ ChmodStep \/ UseSite \/ SiteStep \/ UseJails \/ JailStep \/ UseSearch

-----------------------------------------------------------------------------
(***************************************************************************)
(* The form designer on the bench.                                         *)
(***************************************************************************)

N == INSTANCE FormSchema

Scalars == {N!Text("x"), N!Text("1.10"), N!Text("TRUE"), N!Scalar("number", "1"), N!Bool(FALSE), N!Nothing}
Map1(k, v) == N!Map(<<N!Entry(k, v)>>)
Map2(v, w) == N!Map(<<N!Entry("a", v), N!Entry("b", w)>>)
Some == {N!Text("x"), N!Scalar("number", "1"), N!Bool(FALSE)}
Inner == Scalars \cup {N!Map(<<>>), N!List(<<>>)} \cup {Map1(k, v) : k \in {"a", "value"}, v \in Some}
         \cup {N!List(<<v>>) : v \in Some} \cup {N!List(<<v, w>>) : v \in Some, w \in Some}
         \cup {N!List(<<Map2(v, N!Text("x")), Map1("b", w)>>) : v \in Some, w \in Some} \cup {N!List(<<Map1("value", v)>>) : v \in Some}
ParsedSources == {N!Map(<<>>)} \cup {Map2(v, w) : v \in Inner, w \in Some} \cup {Map1("a", N!List(<<N!List(<<v>>)>>)) : v \in Some} \cup Some

\* A text is read by one format, or by two; XML wants one root.
UseParse == Idle /\ \E s \in ParsedSources \cup {Map1("root", v) : v \in Inner}, formats \in SUBSET {"json", "xml", "yaml"}, hint \in {"", "json", "xml", "yaml"} :
    Show("parse", [source |-> s, formats |-> formats, hint |-> hint], N!Parse([f \in {"json", "xml", "yaml"} |-> IF f \in formats THEN s ELSE N!Nothing], hint))

Form(fields, s, edits) == Show("form", [fields |-> fields, values |-> s.values, seeded |-> s.seeded, edits |-> edits], N!Render(fields, s.values))
Opened(fields, edits) == Form(fields, N!Settled(fields, N!Defaults(fields), {}), edits)
UseForm == Idle /\ \E v \in {N!Text("x"), N!Nothing, Map1("a", N!Text("TRUE")), N!List(<<>>), N!List(<<N!Text("1.10"), N!Text("x")>>), N!List(<<Map2(N!Bool(FALSE), N!Text("x"))>>)} :
    Opened(N!FieldsOf(Map2(v, N!Scalar("number", "1"))), 0)
\* A field that is changed in the designer starts the whole form again.
FormDesign == tool = "form" /\ in.edits < 2 /\ \E k \in DOMAIN in.fields : \E f \in N!Redesigned(in.fields[k]) :
    LET fields == [in.fields EXCEPT ![k] = f]
    IN  Form(fields, N!Settled(fields, N!Defaults(fields), IF f.type = "array" THEN in.seeded ELSE in.seeded \ {f.key}), in.edits + 1)
FormFill == tool = "form" /\ in.edits < 3 /\ \E v \in N!Within(in.fields, in.values, {"", "1.10", "true"}) :
    Form(in.fields, N!Settled(in.fields, v, in.seeded), in.edits + 1)

-----------------------------------------------------------------------------
\* What a parsed document is written again as: a list as its first item, a scalar as the type its text has, and
\* nothing as an empty text.  (A list of maps with the one key "value" would be taken for a list of scalars.)
RECURSIVE Again(_)
Again(v) ==
    CASE v.type = "map" -> N!Map([k \in DOMAIN v.entries |-> N!Entry(v.entries[k].key, Again(v.entries[k].value))])
      [] v.type = "list" -> N!List(IF v.items = <<>> THEN <<>> ELSE <<IF v.items[1].type = "list" THEN Again(N!Text(N!TextOf(v.items[1]))) ELSE Again(v.items[1])>>)
      [] OTHER -> CASE N!InferType(v) = "boolean" -> N!Bool(v.text # "false")
                    [] N!InferType(v) = "number" -> N!Scalar("number", N!Numbers[v.text])
                    [] OTHER -> N!Text(v.text)
RECURSIVE Mistaken(_)
Mistaken(v) ==
    CASE v.type = "map" -> \E k \in DOMAIN v.entries : Mistaken(v.entries[k].value)
      [] v.type = "list" -> v.items # <<>> /\ v.items[1].type = "map" /\ (Mistaken(v.items[1]) \/ [n \in DOMAIN v.items[1].entries |-> v.items[1].entries[n].key] = <<"value">>)
      [] OTHER -> FALSE
WrittenAgain(v) == ~Mistaken(v) => LET f == N!FieldsOf(v) IN N!Render(f, N!Defaults(f)) = Again(v)
\* The first format that can read the text is taken, and a parsed document is written again as it was.
ParsedKept == tool = "parse" =>
    LET readers == {f \in in.formats : (in.hint \in {"", f}) /\ in.source.type = "map" /\ (f = "xml" => Len(in.source.entries) = 1)} IN
    /\ out.ok = (readers # {})
    /\ out.ok => /\ out.format \in readers /\ ("json" \in readers => out.format = "json") /\ (out.format = "yaml" => "xml" \notin readers)
                 /\ out.format # "xml" => out.fields = N!FieldsOf(in.source) /\ WrittenAgain(in.source)
\* Whatever was designed and entered, the document has the fields of the form, each as its type says, and is itself
\* written again as it was.
RECURSIVE Fits(_, _)
FitsAll(fields, v) == /\ v.type = "map" /\ Len(v.entries) = Len(fields)
                      /\ \A k \in DOMAIN fields : v.entries[k].key = fields[k].key /\ Fits(fields[k], v.entries[k].value)
Fits(field, v) ==
    CASE field.type = "object" -> FitsAll(field.children, v)
      [] field.type = "array" -> v.type = "list" /\ \A k \in DOMAIN v.items :
                                   IF N!IsScalarTemplate(field.children) THEN Fits(field.children[1], v.items[k]) ELSE FitsAll(field.children, v.items[k])
      [] OTHER -> v.type = "scalar" /\ v.kind = field.type /\ (v.kind = "number" => v.text \in Range(N!Numbers) \cup {"0"})
                  /\ field.children = <<>>
FormsRendered == tool = "form" => FitsAll(in.fields, out) /\ \A k \in DOMAIN in.fields : in.fields[k].type \in N!Types

FieldsHold == ParsedKept /\ FormsRendered
FieldUses == UseParse \/ UseForm \/ FormDesign \/ FormFill

-----------------------------------------------------------------------------

(***************************************************************************)
(* The pure parts of the prompt library on the bench.                      *)
(***************************************************************************)

R == INSTANCE PromptParts WITH Names <- {"X", "Y"}

MessageLists == {l \in NonEmptySeqsUpTo([id : 1..3, role : {"system", "user"}, content : {<<"a">>, <<"b">>}], 2) : IsInjective([k \in DOMAIN l |-> l[k].id])}
UseEdit == Idle /\ \E l \in MessageLists, k \in 1..2, j \in 1..2, op \in {"add", "patch", "up", "down", "duplicate", "delete", "drop"} :
    /\ {j, k} \subseteq DOMAIN l
    /\ Show("edit", [list |-> l, op |-> op, at |-> k],
            CASE op = "add" -> R!AddMessage(l, R!Message(4, "assistant", <<>>))
              [] op = "patch" -> R!PatchMessage(l, l[k].id, <<"a">>)
              [] op = "up" -> R!MoveMessage(l, k, -1)
              [] op = "down" -> R!MoveMessage(l, k, 1)
              [] op = "duplicate" -> R!DuplicateMessage(l, k, 4)
              [] op = "delete" -> R!DeleteMessage(l, l[k].id)
              [] OTHER -> R!DropMessage(l, j, k))

Values == [{"X", "Y"} -> {<<>>, <<"v">>, <<"Y">>, <<"X", "v">>}]
Contents == SeqsUpTo({"a", "X", "Y"}, 2)
UseFill == Idle /\ \E c \in Contents, d \in Contents, v \in Values, f \in {"text", "system-user", "messages-json"} :
    LET ms == <<R!Message(1, "user", c), R!Message(2, "system", d)>>
    IN  Show("fill", [messages |-> ms, values |-> v, format |-> f],
             [shown |-> R!RenderAll(ms, v, f), rendered |-> R!Rendered(ms, v), unfilled |-> R!CountUnfilled(ms, v)])

Metas == {m \in [kind : {"text", "select", "boolean", "number"}, default : {"", "true", "v"}, options : {<<>>, <<"v">>, <<"v", "true">>},
                 custom : BOOLEAN, limits : BOOLEAN, required : BOOLEAN] :
            /\ m.kind # "select" => m.options = <<>> /\ ~m.custom
            /\ m.kind # "number" => ~m.limits
            /\ m.kind = "boolean" => m.default # "v"}
UseMeta == Idle /\ \E m \in Metas, kind \in {"text", "select", "boolean", "number"}, rows \in SeqsUpTo({"", "v", "w"}, 2), next \in R!PRESET_OPTION_SETS :
    Show("meta", [meta |-> m, kind |-> kind, rows |-> R!AppendOptions(rows, next)],
         [changed |-> R!ChangeKind(m, kind), saved |-> R!SaveOptions(m, R!AppendOptions(rows, next), m.custom, m.default),
          known |-> R!SetVariableMeta(("X" :> m) @@ ("Y" :> m), "X", R!PatchRequired(R!PatchDefault(m, ""), FALSE))])
UseField == Idle /\ \E m \in Metas, t \in {"", "true", "v"}, touched \in BOOLEAN :
    LET known == "X" :> m
        typed == IF touched /\ t \in R!FieldChoices(m, {"v"}) THEN "X" :> t ELSE <<>>
        effective == R!EffectiveValues(known, typed, {"X", "Y"})
    IN  Show("field", [meta |-> m, typed |-> typed], [value |-> effective["X"], blocked |-> R!Blocked(known, effective), sent |-> R!FieldChoices(m, {"v"})])

Words == SeqsUpTo({"a", "|", "="}, 2)
UseLines == Idle /\ \E v \in Words, w \in Words, label \in SeqsUpTo({"a", "b", "|"}, 2) :
    LET options == <<[value |-> v, label |-> label], [value |-> w, label |-> <<>>]>>
    IN  Show("lines", options, R!ParseOptionLines(R!OptionsToLines(options)))

UseCompare == Idle /\ \E a \in MessageLists, b \in MessageLists : Show("compare", [a |-> a, b |-> b],
    [diffs |-> R!DiffVersions(a, b), summary |-> R!DiffSummary(R!DiffVersions(a, b))])

NamesSpelled == [word : {"p", "q"}, upper : BOOLEAN]
UseImport == Idle /\ \E here \in SeqsUpTo(NamesSpelled, 1), there \in NonEmptySeqsUpTo(NamesSpelled, 2), at \in [1..2 -> 0..2], names \in [1..2 -> {"n", "o"}], taken \in {{}, {"n"}} :
    LET folders(s) == [k \in DOMAIN s |-> [id |-> k, name |-> s[k]]]
        exp == R!ExportPrompts([k \in 1..2 |-> [name |-> names[k], folder |-> at[k], body |-> k]], folders(there))
    IN  Show("import", [exp |-> exp, here |-> folders(here), taken |-> taken], R!MaterializeImport(exp, folders(here), taken))

UseTemplates == Idle /\ \E own \in SUBSET {R!DiskFull, R!Template("mine", {"chat", "own"}, {}, <<>>)}, tag \in {"", "chat", "agent", "own"} :
    LET all == R!MergeTemplates(SetToSeq(own))
    IN  Show("templates", [own |-> own, tag |-> tag],
             [all |-> all, tags |-> R!TemplateTagList(all), shown |-> R!Gallery(all, tag, {t.id : t \in Range(all)}), fewShot |-> {k \in DOMAIN all : R!FewShot(all[k])}])

\* An edit keeps every other message, a list is never emptied, and no two messages get one id.
EditKeeps == tool = "edit" =>
    /\ out # <<>> /\ IsInjective([k \in DOMAIN out |-> out[k].id])
    /\ \A m \in Range(in.list) : m \in Range(out) \/ (in.op \in {"delete", "patch"} /\ m = in.list[in.at])
    /\ in.op \in {"up", "down", "drop"} => Range(out) = Range(in.list) /\ Len(out) = Len(in.list)

\* Filling replaces each variable once, by its value and nothing inside it, and leaves exactly the
\* variables it counts as unfilled.
FillOnce == tool = "fill" =>
    /\ out.unfilled = Cardinality({n \in {"X", "Y"} : in.values[n] = <<>> /\ \E m \in Range(in.messages) : n \in Range(m.content)})
    /\ \A k \in 1..2 : LET text == in.messages[k].content
                           widths == [j \in DOMAIN text |-> IF text[j] \in {"X", "Y"} /\ in.values[text[j]] # <<>> THEN Len(in.values[text[j]]) ELSE 1]
                       IN  /\ Len(out.rendered[k].content) = FoldLeft(+, 0, widths)
                           /\ (out.unfilled = 0 /\ \A n \in {"X", "Y"} : Range(in.values[n]) \cap {"X", "Y"} = {}) =>
                                Range(out.rendered[k].content) \cap {"X", "Y"} = {}
    /\ \A s \in Range(out.shown) : \E m \in Range(out.rendered) : s.content = m.content

\* Whatever kind a variable had, it keeps nothing another kind alone allows, its default is one of its
\* options once they are saved, and what says nothing is not kept.
MetaSound ==
    /\ tool = "meta" =>
        /\ out.changed \in Metas
        /\ out.saved.default # "" => out.saved.default \in Range(out.saved.options)
        /\ "" \notin Range(out.saved.options) /\ R!SanitizeVariableMeta(out.changed) = out.changed
        /\ \A n \in DOMAIN out.known : ~R!IsVariableMetaEmpty(out.known[n]) \/ (n = "Y" /\ R!IsVariableMetaEmpty(in.meta))
    /\ tool = "field" => (out.blocked = (in.meta.required /\ out.value = ""))
                         /\ (in.meta.kind \in {"select", "boolean"} /\ in.meta.required => "" \notin out.sent \/ in.meta.custom)

\* Options written as lines read back, when their values differ and hold no separator.
LinesReadBack ==
    (/\ tool = "lines" /\ in[1].value # in[2].value /\ in[1].label # in[1].value
     /\ \A k \in 1..2 : in[k].value # <<>> /\ Range(in[k].value) \cap R!Separators = {}) => out = in

\* A comparison accounts for every message of both versions, and calls changed what differs.
CompareComplete == tool = "compare" =>
    /\ \A m \in Range(in.a) : \E d \in Range(out.diffs) : d.before = m
    /\ \A m \in Range(in.b) : \E d \in Range(out.diffs) : d.after = m
    /\ Len(out.diffs) <= Len(in.a) + Len(in.b)
    /\ Range(in.a) # Range(in.b) => \E kind \in DOMAIN out.summary : out.summary[kind] > 0 \/ ~R!ShareIds(in.a, in.b)

\* An imported prompt is in a folder of its folder's name, no folder is made twice, and a name the library has is marked.
ImportPlaced == tool = "import" =>
    LET all == in.here \o out.folders
    IN  /\ \A k \in 1..2 : LET was == {f \in Range(in.exp.folders) : f.id = in.exp.prompts[k].folder} IN
            IF was = {} THEN out.prompts[k].folder = 0
            ELSE \A f \in was : \E g \in Range(all) : g.id = out.prompts[k].folder /\ g.name.word = f.name.word
        /\ \A j, k \in DOMAIN all : (j > Len(in.here) /\ all[j].name.word = all[k].name.word) => j = k
        /\ \A k \in 1..2 : out.prompts[k].name \in in.taken => out.prompts[k].imported

\* A template that ships declares the variables its messages use, its tags are those the editor proposes,
\* and the gallery finds each under each of its tags.
TemplatesSound == tool = "templates" =>
    /\ \A k \in DOMAIN R!IT_TROUBLESHOOTING_TEMPLATES : LET t == R!IT_TROUBLESHOOTING_TEMPLATES[k] IN
        t.variables = UNION {Range(m.content) : m \in Range(t.messages)} /\ t.tags \subseteq R!TEMPLATE_TAGS
    /\ IsInjective([k \in DOMAIN out.all |-> out.all[k].id])
    /\ \A t \in in.own : \E k \in DOMAIN out.all : out.all[k] = t
    /\ \A k \in DOMAIN out.all : in.tag \in out.all[k].tags \cup {""} => out.all[k] \in Range(out.shown)

PromptsKept == EditKeeps /\ FillOnce /\ MetaSound /\ LinesReadBack /\ CompareComplete /\ ImportPlaced /\ TemplatesSound
PromptUses == UseEdit \/ UseFill \/ UseMeta \/ UseField \/ UseLines \/ UseCompare \/ UseImport \/ UseTemplates

-----------------------------------------------------------------------------
(***************************************************************************)
(* JSONPath on the bench.                                                  *)
(***************************************************************************)

Items(n) == B!Array([k \in 1..n |-> B!Number(k - 1)])
Person(a) == B!Object(<<B!Field(<<"a">>, a), B!Field(<<"b">>, B!Number(2))>>)
Documents == {B!Number(1), B!Array(<<Person(B!Number(1)), B!Object(<<B!Field(<<"b">>, B!Number(1))>>), Person(B!Text(<<"a">>))>>),
              B!Object(<<B!Field(<<"a">>, B!Array(<<Person(B!Null), Items(2)>>)), B!Field(<<"0">>, Person(Items(1)))>>)}
Lone == UNION {SeqsUpTo({"$", ".", "*", "a", "[", "0"}, 4), {p \o <<"[">> \o b \o <<"]">> : p \in {<<"$">>, <<".", ".">>, <<"a">>}, b \in SeqsUpTo({"'", ":", "1", "-1", ","}, 3)}}
Filters == {<<"$", ".", ".", "[", "?">> \o f \o <<"]">> : f \in
    {p \o o \o l : p \in {<<"@">>, <<"@", ".", "a">>, <<"@", "[", "'", "a", "'", "]">>, <<"@", ".">>, <<"a">>, <<"@", ".", "a", "[", "-1", "]">>},
                   o \in {<<>>, <<"==">>, <<"!=">>, <<"<">>, <<">=">>, <<"=">>, <<"=~">>}, l \in {<<>>, <<"1">>, <<"'", "a", "'">>, <<"null">>, <<"@", ".", "a">>}}
    \cup {<<"(", "@", ".", "a", ")">>, <<"(", ")">>, <<"!", "@", ".", "a">>, <<"f", "(", "@", ")">>}}
Pairs == {<<"$">>, <<"$", ".", "a">>, <<"$", ".", ".", "*">>, <<"$", "[", "-1", "]">>, <<"$", ".", ".", "a">>, <<"$", ".", ".", "[", "0", "]">>, <<"$", "[", ":", ":", "-1", "]">>}

UseExpression == Idle /\ \E d \in Documents, e \in Lone \cup Filters \cup {x \o Tail(y) : x \in Pairs, y \in Pairs} : Show("query", [document |-> d, expression |-> e], B!Execute(d, e))
UseSlice == Idle /\ \E n \in 0..3, s \in [start : (-4..4) \cup {B!Absent}, end : (-4..4) \cup {B!Absent}, step : {-2, -1, 1, 2}] :
    Show("slice", [length |-> n, slice |-> s], B!Apply(B!Slice(s.start, s.end, s.step), B!Match(<<>>, Items(n))))

\* Every match stands where its path says: the path as it is shown finds that match and no other.
MatchesStand == (tool = "query" /\ out.ok) =>
    \A k \in DOMAIN out.matches : B!Execute(in.document, B!Shown(out.matches[k].path)) = [ok |-> TRUE, matches |-> <<out.matches[k]>>]
\* One expression after another selects from what the first selected; one search of the whole document
\* finds no node twice.
QueriesCompose == (tool = "query" /\ out.ok) =>
    /\ \A e \in Pairs : B!Evaluate(in.document, B!ParseExpression(in.expression).found \o B!ParseExpression(e).found)
                        = B!Execute(in.document, (IF in.expression[1] = "$" THEN <<>> ELSE <<"$">>) \o in.expression \o Tail(e)).matches
    /\ Cardinality({k \in 1..(Len(in.expression) - 1) : in.expression[k] = "." /\ in.expression[k + 1] = "."}) <= 1 => IsInjective(out.matches)
\* What a comparison selects and what its contrary selects are together everything, and never the same node.
FiltersPart == (tool = "query" /\ out.ok /\ "==" \in Range(in.expression)) =>
    LET swapped(op) == Range(B!Execute(in.document, [k \in DOMAIN in.expression |-> IF in.expression[k] = "==" THEN op ELSE in.expression[k]]).matches)
    IN  /\ Range(out.matches) \cap swapped("!=") = {}
        /\ Range(out.matches) \cup swapped("!=") = Range(B!Execute(in.document, <<"$", ".", ".", "*">>).matches)
        /\ swapped("<") \cup swapped(">") \cup Range(out.matches) \subseteq swapped("<=") \cup swapped(">=") \cup Range(out.matches)
\* A slice takes the positions from its start to before its end that its step reaches, counted from the end
\* when negative, in that order.
SlicesExact == tool = "slice" =>
    LET n == in.length  s == in.slice  up == s.step > 0
        clamp(i, low, high) == IF i < low THEN low ELSE IF i > high THEN high ELSE i
        bound(b, default, low, high) == IF b = B!Absent THEN default ELSE clamp(IF b < 0 THEN n + b ELSE b, low, high)
        from == IF up THEN bound(s.start, 0, 0, n) ELSE bound(s.start, n - 1, -1, n - 1)
        to == IF up THEN bound(s.end, n, 0, n) ELSE bound(s.end, -1, -1, n - 1)
        wanted == {i \in 0..(n - 1) : IF up THEN i >= from /\ i < to /\ (i - from) % s.step = 0 ELSE i <= from /\ i > to /\ (from - i) % (-s.step) = 0}
        taken == [k \in DOMAIN out |-> out[k].value.number]
    IN  Range(taken) = wanted /\ \A j \in DOMAIN taken : \A k \in DOMAIN taken : j < k => IF up THEN taken[j] < taken[k] ELSE taken[j] > taken[k]

QueriesHold == MatchesStand /\ QueriesCompose /\ FiltersPart /\ SlicesExact
QueryUses == UseExpression \/ UseSlice

-----------------------------------------------------------------------------
(***************************************************************************)
(* The monitor's dialog, lists and readings on the bench.                  *)
(***************************************************************************)

V == INSTANCE MonitorForm

\* Whatever is typed or picked in a field of the kind shown.
FieldEdits(d) == UNION {
    LET values == CASE f.type = "bool" -> BOOLEAN [] f.type = "select" -> {"", "HEAD", "MX"} \cap (f.options \cup {""}) [] f.type = "number" -> {-1, 0, 21} [] OTHER -> {"", "x"}
    IN  {V!OnChange(d, f, v) : v \in values} : f \in Range(V!KindMeta(d.kind).configFields)}
Edits(d) == {V!PickKind(d, k) : k \in {"icmp", "http", "dns", "tls-cert", "domain", "ssh"}} \cup FieldEdits(d)
            \cup IF d.kind = "ssh" THEN {V!PickPreset(d, p) : p \in Range(V!SshPresets)} \cup {V!PickNode(d, n) : n \in {"inline", "n1"}} ELSE {}
Dialogs == {V!Fresh, V!SetInterval(V!Fresh, 7), V!Opened([kind |-> "http", config |-> "method" :> "HEAD", intervalSec |-> 5, failThreshold |-> 1])}
Filled == LET one == UNION {Edits(d) : d \in Dialogs}  two == UNION {Edits(d) : d \in one} IN UNION {Edits(d) : d \in two} \cup two
UseDialog == Idle /\ \E d \in Filled : \E n \in {0, 3, 30} :
    Show("monitor", d, [saved |-> V!Submitted(V!SetThreshold(V!SetInterval(d, n), n)), asShown |-> V!Submitted(d), summary |-> V!ConfigSummary(d.kind, d.config)])

LineTexts == {<<>>, <<"name", "kind", "target">>, <<"a", "HTTP", "x">>, <<"b", "icmp", "y", "t">>, <<"c", "ftp", "z">>, <<"", "dns", "z">>, <<"d", "dns">>, <<"e", "dns", "">>}
UseBulk == Idle /\ \E lines \in SeqsUpTo(LineTexts, 3) : Show("bulk", lines, V!ParseBulk(lines))
Hosts == NonEmptySeqsUpTo({"h", "g"}, 3)
UseTemplate == Idle /\ \E host \in Hosts, other \in Hosts, extra \in SeqsUpTo({"t", ",", " "}, 3) :
    LET all == V!BuildTemplate(host, extra) \o V!BuildTemplate(other, <<>>)
    IN  Show("template", [host |-> host, other |-> other, extra |-> extra], [all |-> all, tags |-> V!TagsOffered(all), shown |-> [t \in V!TagsOffered(all) |-> V!Filtered(all, t)]])

Spans == {0, 1, 29, 30, 59, 60, 89, 90, 3569, 3570, 3599, 3600, 5399, 5400, 86369, 86370, 86399, 86400, 129599, 129600, 2592000}
Ratios == {0, 98949, 98950, 98999, 99000, 99899, 99900, 99949, 99950, 99994, 100000}
UseReadings == Idle /\ \E a \in Spans, b \in Spans : a < b /\ Show("span", <<a, b>>, [long |-> <<V!FmtDuration(a), V!FmtDuration(b)>>, ago |-> <<V!RelTime(a), V!RelTime(b)>>])
UseUptime == Idle /\ \E a \in Ratios, b \in Ratios : a <= b /\ Show("uptime", <<a, b>>, [text |-> <<V!FmtUptime(a), V!FmtUptime(b)>>, tone |-> <<V!UptimeTone(a), V!UptimeTone(b)>>])
ReportCells == SeqsUpTo({"a", "dquote", ",", "\n"}, 3)
UseReport == Idle /\ \E a \in ReportCells, b \in ReportCells : Show("report", <<a, b>>, V!Row(<<a, b>>))

-----------------------------------------------------------------------------
\* Whatever was picked and typed before, the switches and lists of the dialog show what the probe will do, the
\* summary of a monitor tells apart what it does, and one made from nothing keeps no setting of another kind.
Unset(d) == [d EXCEPT !.config = <<>>]
DialogHonest == tool = "monitor" =>
    LET d == in  m == out.asShown  does == V!Effective(m.kind, m.config)  idle == V!Effective(m.kind, <<>>)
    IN  /\ \A f \in Range(V!KindMeta(d.kind).configFields) : f.key \in DOMAIN does => does[f.key] = V!ShownValue(d, f)
        /\ (does = idle) = (out.summary = V!ConfigSummary(d.kind, <<>>))
        /\ m.intervalSec = d.intervalSec /\ m.failThreshold = d.failThreshold /\ m.timeoutSec <= m.intervalSec
        /\ out.saved.intervalSec >= 5 /\ out.saved.timeoutSec <= out.saved.intervalSec /\ out.saved.failThreshold >= 1
        /\ ~d.initial => DOMAIN d.config \subseteq {f.key : f \in Range(V!KindMeta(d.kind).configFields)} \cup (IF d.kind = "ssh" THEN {"command", "assert", "nodeId"} ELSE {})
        /\ (~d.initial /\ ~d.touched) => m.intervalSec = V!KindMeta(d.kind).defaultIntervalSec

\* Every line that says something becomes one monitor, in order, or an error that names it.
BulkAccounted == tool = "bulk" =>
    LET told == {n \in DOMAIN in : in[n] # <<>> /\ in[n] # <<"name", "kind", "target">>}
        wrong == {out.errors[k].line : k \in DOMAIN out.errors}
    IN  /\ wrong \subseteq told /\ Cardinality(wrong) = Len(out.errors)
        /\ [k \in DOMAIN out.created |-> out.created[k].name] = [k \in DOMAIN SelectSeq([n \in DOMAIN in |-> n], LAMBDA n : n \in told \ wrong) |-> in[SelectSeq([n \in DOMAIN in |-> n], LAMBDA n : n \in told \ wrong)[k]][1]]
        /\ \A n \in told : (n \in wrong) = ~(Len(in[n]) >= 3 /\ in[n][2] \in {"HTTP", "icmp"})
        /\ V!Closes(out) => Len(out.created) = Cardinality(told)

\* The tag of a host shows the four monitors of its template, and no tag offered shows none.
GroupTagged == tool = "template" =>
    /\ \A k \in 1..4 : out.all[k] \in Range(out.shown[in.host]) /\ out.all[k].timeoutSec <= out.all[k].intervalSec
    /\ \A t \in out.tags : out.shown[t] # <<>>
    /\ in.host # in.other => Len(out.shown[in.host]) = 4 \/ in.host \in Range(V!TagList(in.extra)) \/ in.other \in Range(V!TagList(in.extra))

\* A longer time never reads shorter and a better ratio never reads worse; what is not green does not read
\* as green, nor anything short of five nines as whole.
Unit(u) == CASE u = "s" -> 1 [] u = "m" -> 60 [] u = "h" -> 3600 [] OTHER -> 86400
Read(t) == MapThenSumSet(LAMBDA u : t[u] * Unit(u), DOMAIN t)
ReadingsOrdered ==
    /\ tool = "span" => Read(out.long[1]) <= Read(out.long[2]) /\ Read(out.ago[1]) <= Read(out.ago[2])
                        /\ \A k \in 1..2 : Read(out.long[k]) <= in[k] + 30 /\ in[k] < Read(out.long[k]) + 3600
    /\ tool = "uptime" => /\ out.text[1].hundredths <= out.text[2].hundredths
                          /\ (out.tone[2] = "red" => out.tone[1] = "red") /\ (out.tone[1] = "green" => out.tone[2] = "green")
                          /\ (out.text[1].hundredths = 10000) => in[1] >= 99995
\* A report's row is read back as the cells it was made of.
Quotes(t, k) == Cardinality({i \in 1..(k - 1) : t[i] = "dquote"})
Cuts(t) == {k \in DOMAIN t : t[k] = "," /\ Quotes(t, k) % 2 = 0}
ReadCell(t) == IF t # <<>> /\ t[1] = "dquote" THEN LET body == SubSeq(t, 2, Len(t) - 1) IN
                   FlattenSeq([k \in DOMAIN body |-> IF body[k] = "dquote" /\ Quotes(body, k) % 2 = 1 THEN <<>> ELSE <<body[k]>>]) ELSE t
ReportReads == tool = "report" =>
    \E k \in DOMAIN out : Cuts(out) = {k} /\ <<ReadCell(SubSeq(out, 1, k - 1)), ReadCell(SubSeq(out, k + 1, Len(out)))>> = in

MonitorsHold == DialogHonest /\ BulkAccounted /\ GroupTagged /\ ReadingsOrdered /\ ReportReads
MonitorUses == UseDialog \/ UseBulk \/ UseTemplate \/ UseReadings \/ UseUptime \/ UseReport

-----------------------------------------------------------------------------
(***************************************************************************)
(* The pure tools, each applied to every input of a small set: a state is  *)
(* a tool, an input and what the tool answers.                             *)
(***************************************************************************)

CONSTANTS
    HourLen, DayLen, WeekLen, Years,  \* the calendar of Cron
    OctetBits, Octets                 \* the addresses of Addresses

MonthLens == <<3, 2>>
OuiTable == {<<0, 1>>, <<2, 1, 3>>, <<2, 1>>}

C == INSTANCE Cron
A == INSTANCE Addresses
S == INSTANCE Sizers

-----------------------------------------------------------------------------
(* Crontab lines.                                                          *)

Columns(f) ==
    CASE f = "minute" -> {<<C!Star(0)>>, <<C!Value(1, 0)>>}
      [] f = "hour" -> {<<C!Star(0)>>, <<C!Value(1, 0)>>}
      [] f = "dom" -> {<<C!Star(0)>>, <<C!Value(2, 0)>>, <<C!Star(2)>>}
      [] f = "month" -> {<<C!Star(0)>>, <<C!Value(2, 0)>>}
      [] f = "dow" -> {<<C!Star(0)>>, <<C!Value(WeekLen, 0)>>, <<C!Span(1, 2, 0)>>}
Lines == {l \in [C!Fields -> UNION {Columns(f) : f \in C!Fields}] : \A f \in C!Fields : l[f] \in Columns(f)}
Specs(f) ==
    LET vs == C!Least(f)..C!Most(f) IN
    {[kind |-> "every"]} \cup {[kind |-> "step", step |-> n] : n \in 0..3}
    \cup {[kind |-> "list", values |-> v] : v \in SUBSET vs}
    \cup {[kind |-> k, lo |-> a, hi |-> b, step |-> n] : k \in {"range", "rangeStep"}, a \in vs, b \in vs, n \in 1..2}
Terms == {C!Star(0)} \cup {C!Value(v, n) : v \in C!Blank..(WeekLen + 1), n \in 0..2}
         \cup {C!Span(a, b, n) : a \in C!Blank..WeekLen, b \in C!Blank..WeekLen, n \in 0..1}

UseBuilder == Idle /\ \E f \in C!Fields : \E spec \in Specs(f) :
    C!CanRender(spec, f) /\ Show("builder", [field |-> f, spec |-> spec], C!ParseColumn(C!RenderCronFieldSpec(spec), f))
UseNextRuns == Idle /\ \E l \in Lines, from \in 0..19 :
    LET s == C!Parse(l).schedule
    IN  Show("next runs", [schedule |-> s, from |-> from], [runs |-> C!NextRuns(s, from, 2), text |-> C!DescribeSchedule(s)])
UseCronNext == Idle /\ \E l \in Lines, from \in 0..19 :
    LET s == [f \in C!Fields |-> C!UiParseField(l[f], f)]
    IN  Show("next", [schedule |-> s, from |-> from], C!CronNext(s, from))
UseMirror == Idle /\ \E f \in {"dom", "dow"}, term \in Terms :
    Show("mirror", [field |-> f, term |-> term], [ui |-> C!UiAccepts(<<term>>, f), go |-> C!GoAccepts(<<term>>, f)])

\* A search that skips to the next day, month or hour passes over no matching minute.
Times(schedule, matches(_, _), from) == {t \in (from + 1)..(C!Limit(from) - 1) : C!Fires(schedule, matches(schedule, t), t)}
NextIsFirst ==
    /\ tool = "next runs" =>
        LET all == Times(in.schedule, C!MatchesDate, in.from)
        IN  /\ Len(out.runs) = IF Cardinality(all) < 2 THEN Cardinality(all) ELSE 2
            /\ \A k \in DOMAIN out.runs : out.runs[k] \in all /\ Cardinality({t \in all : t < out.runs[k]}) = k - 1
    /\ tool = "next" =>
        LET all == Times(in.schedule, C!DayMatches, in.from)
        IN  IF all = {} THEN out = C!Blank ELSE out \in all /\ \A t \in all : out <= t

\* Read back, a built column fires at exactly the values that were picked for it.
Picked(spec, f) ==
    CASE spec.kind = "every" -> C!Least(f)..C!Most(f)
      [] spec.kind = "list" -> spec.values
      [] spec.kind = "step" -> {v \in C!Least(f)..C!Most(f) : (v - C!Least(f)) % spec.step = 0}
      [] spec.kind = "range" -> spec.lo..spec.hi
      [] spec.kind = "rangeStep" -> {v \in spec.lo..spec.hi : (v - spec.lo) % spec.step = 0}
BuiltColumnMeans == tool = "builder" => out.values = {C!Folded(v, in.field) : v \in Picked(in.spec, in.field)}

\* A column that console and backend both accept has the same values in the preview of the console and
\* in the scheduler of the backend (cron.ts:3 "mirrors backend/internal/orchestrator/cron.go").
MirrorsBackend == (tool = "mirror" /\ out.ui /\ out.go) => C!UiParseField(<<in.term>>, in.field) = C!GoParseField(<<in.term>>, in.field)

ScheduleAgrees == NextIsFirst /\ BuiltColumnMeans /\ MirrorsBackend

-----------------------------------------------------------------------------
(* Addresses.                                                              *)

Entries == {[form |-> "range", from |-> a, to |-> b] : a \in {5, 9}, b \in {7, 9}}
           \cup {[form |-> "cidr", from |-> a, prefix |-> p] : a \in {6}, p \in {A!Width - 1, A!Width + 1}}
           \cup {[form |-> "mask", from |-> 6, mask |-> m] : m \in {A!Mask(A!Width - 1), 5}}
           \cup {[form |-> "pattern", parts |-> [o \in 1..Octets |-> IF o = Octets THEN <<1, 2, 1>> ELSE <<o % 2>>]]}
           \cup {[form |-> "single", from |-> 7], [form |-> "host", name |-> "h"]}
Groups == {g \in [1..8 -> 0..1] : g[1] = 1 \/ g[8] = 1}

UseSubnet == Idle /\ \E a \in A!Addrs, p \in 0..A!Width : Show("subnet", [a |-> a, p |-> p], A!Subnet(a, p))
UseIPv6 == Idle /\ \E g \in Groups : Show("ipv6", g, [text |-> A!FormatIPv6(g), back |-> A!ParseIPv6(A!FormatIPv6(g))])
UseHosts == Idle /\ \E e \in NonEmptySeqsUpTo(Entries, 2), max \in {1, 4} :
    Show("hosts", [entries |-> e, max |-> max], A!ParseHostRange(e, max))
UseSummary == Idle /\ \E a \in A!Addrs, b \in A!Addrs : Show("range", [from |-> a, to |-> b], A!SummarizeRange(a, b))
UseMac == Idle /\ \E p \in OuiTable \cup {<<>>}, o \in 0..3, l \in BOOLEAN, u \in BOOLEAN :
    LET mac == A!RandomHex([k \in 1..3 |-> o], p, l, u)
    IN  Show("mac", [prefix |-> p, local |-> l, unicast |-> u], [mac |-> mac, is |-> A!Analyze(mac)])

\* The usable addresses lie in the block, there are as many as is said, and every address of the
\* block names the same block.
UsableInside == (tool = "subnet" /\ out.ok) =>
    /\ in.a \in out.network..out.last
    /\ out.network <= out.firstUsable /\ out.firstUsable <= out.lastUsable /\ out.lastUsable <= out.last
    /\ out.usable = out.lastUsable - out.firstUsable + 1
    /\ \A b \in out.network..out.last : A!Subnet(b, in.p) = out

\* A written IPv6 address reads back, its "::" is the leftmost of its longest runs of zeros.
Ipv6RoundTrip == tool = "ipv6" =>
    /\ out.back.ok /\ out.back.groups = in
    /\ \A r \in A!ZeroRuns(in) : r[2] >= 2 =>
        LET gap == 8 - Len(out.text.left) - Len(out.text.right)
        IN  out.text.gap /\ (r[2] < gap \/ (r[2] = gap /\ Len(out.text.left) + 1 <= r[1]))

\* The blocks of a range cover it and nothing else, each once, and no block could be larger.
Block(b) == b.base..(b.base + 2^(A!Width - b.prefix) - 1)
RangeIsTiled == (tool = "range" /\ out.ok) =>
    /\ UNION {Block(out.blocks[k]) : k \in DOMAIN out.blocks} = in.from..in.to
    /\ \A k \in DOMAIN out.blocks : \A j \in DOMAIN out.blocks : j < k => Block(out.blocks[j]) \cap Block(out.blocks[k]) = {}
    /\ \A k \in DOMAIN out.blocks : LET up == A!Network(out.blocks[k].base, out.blocks[k].prefix - 1)
                             IN  out.blocks[k].prefix > 0 => ~(up..(up + 2^(A!Width - out.blocks[k].prefix + 1) - 1) \subseteq in.from..in.to)

\* The addresses of a list never pass the cap, and unless the list is said to be truncated none is missing.
HostsComplete == tool = "hosts" =>
    /\ Cardinality(out.addresses) <= in.max
    /\ LET whole(e) == A!ExpandEntry(e, 100)
           all == {whole(in.entries[k]) : k \in DOMAIN in.entries}
       IN  /\ out.addresses \subseteq UNION {Range(w.addresses) : w \in {w \in all : w.ok}}
           /\ ~out.truncated => out.addresses = UNION {Range(w.addresses) : w \in {w \in all : w.ok}}

\* A generated address keeps the prefix it was asked for, and without one the bits.
VendorKept == tool = "mac" =>
    IF in.prefix = <<>> THEN out.is.local = in.local /\ out.is.multicast = ~in.unicast
    ELSE IsPrefix(in.prefix, out.mac) /\ Len(out.is.vendor) >= Len(in.prefix)

AddressesKept == UsableInside /\ Ipv6RoundTrip /\ RangeIsTiled /\ HostsComplete /\ VendorKept

-----------------------------------------------------------------------------
(* Texts.                                                                  *)

Words4 == SeqsUpTo({"U", "L", "D", "-"}, 4)
Naturals3 == SeqsUpTo({0, 1, 20}, 3)
Scalar(c) == [type |-> "scalar", cell |-> c]
Object(fields) == [type |-> "object", fields |-> fields]
Cells == {<<>>} \cup {<<[key |-> k, value |-> v]>> : k \in {"a", "b"}, v \in {Scalar("1"), Object(<<[key |-> "c", value |-> Scalar("2")]>>),
                                                     [type |-> "array", items |-> <<Scalar("3"), Scalar("4")>>]}}
Rows == {Object(x \o y) : x \in Cells, y \in {<<>>, <<[key |-> "d", value |-> Scalar("5")]>>}}

UseDiff == Idle /\ \E l \in SeqsUpTo({"x", "y"}, 3), r \in SeqsUpTo({"x", "y"}, 3) :
    Show("diff", [l |-> l, r |-> r], [lines |-> B!DiffLines(B!Cut(l), B!Cut(r)), summary |-> B!Summarise(B!DiffLines(l, r)),
                                      hunks |-> B!BuildHunks(B!DiffLines(l, r), 1)])
UseWords == Idle /\ \E t \in Words4 : Show("words", t, [words |-> B!SplitWords(t), camel |-> B!Convert("camel", B!SplitWords(t))])
UseSlug == Idle /\ \E t \in SeqsUpTo({"L", "N", "-"}, 5), max \in 1..4 : Show("slug", [text |-> t, max |-> max], B!Slugify(t, max))
UseSort == Idle /\ \E a \in Naturals3, b \in Naturals3 : Show("sort", [a |-> a, b |-> b], B!CompareNatural(a, b))
UseCsv == Idle /\ \E r \in SeqsUpTo(Rows, 2), how \in {"jsonEncoded", "indexed"} :
    Show("csv", [rows |-> r, how |-> how], B!JsonToCsv(r, how))
UseCsvField == Idle /\ \E v \in SeqsUpTo({"a", ",", "q", "n"}, 3), w \in {<<"a">>, <<"q">>} : Show("csv field", <<v, w>>, B!CsvLine(<<v, w>>))
UseRoman == Idle /\ \E n \in (1..60) \cup {3999, 4000} : Show("roman", [n |-> n], B!ToRoman(n))
UseNumeral == Idle /\ \E t \in SeqsUpTo({"I", "V", "X"}, 4) : Show("numeral", t, B!ToDecimal(t))

\* The lines of a diff rebuild both sides in order, and what is unchanged is as much as the sides have in common.
Common(l, r) == {m \in SUBSET ((DOMAIN l) \X (DOMAIN r)) : \A p \in m : l[p[1]] = r[p[2]] /\ \A q \in m : p = q \/ (p[1] < q[1] /\ p[2] < q[2]) \/ (q[1] < p[1] /\ q[2] < p[2])}
DiffApplies == tool = "diff" =>
    LET numbers(side) == SelectSeq([k \in DOMAIN out.lines |-> IF side = "l" THEN out.lines[k].left ELSE out.lines[k].right], LAMBDA n : n > 0)
        same == {k \in DOMAIN out.lines : out.lines[k].kind = "unchanged"}
    IN  /\ numbers("l") = [k \in DOMAIN in.l |-> k] /\ numbers("r") = [k \in DOMAIN in.r |-> k]
        /\ \A k \in same : in.l[out.lines[k].left] = in.r[out.lines[k].right]
        /\ \A m \in Common(in.l, in.r) : Cardinality(m) <= Cardinality(same)
        /\ out.summary.unchanged = Cardinality(same)

\* Splitting into words loses and adds no character but the separators.
WordsKept == tool = "words" =>
    /\ FlattenSeq(out.words) = SelectSeq(in, LAMBDA c : c # "-")
    /\ \A k \in DOMAIN out.words : out.words[k] # <<>>

\* A slug fits, begins and ends with a letter, and its slug is itself.
SlugClean == (tool = "slug" /\ out # <<>>) =>
    /\ Len(out) <= in.max /\ out[1] # "-" /\ out[Len(out)] # "-"
    /\ B!Slugify(out, in.max) = out

\* The natural order is a total order, so a sort of the lines has one result.
NaturalIsOrder == tool = "sort" =>
    /\ (out = 0) = (in.a = in.b)
    /\ (out > 0) = (B!CompareNatural(in.b, in.a) < 0)
    /\ out < 0 => \A c \in Naturals3 : B!CompareNatural(in.b, c) < 0 => B!CompareNatural(in.a, c) < 0

\* Every value of every row stands in the column of its path, and a column stands once.
RowsComplete == (tool = "csv" /\ out.ok) =>
    /\ IsInjective(out.headers)
    /\ \A k \in DOMAIN in.rows : LET leaves == B!FlattenValue(in.rows[k], <<>>, in.how) IN
        \A j \in DOMAIN leaves : \E h \in DOMAIN out.headers : out.headers[h] = leaves[j].path /\ out.cells[k][h] = leaves[j].cell

\* A reader of the line (a quoted field ends at a quote that no quote follows) finds the fields that were written.
ReadCsv(line) ==
    LET step(s, c) ==
            CASE s.mode = "quoted" -> IF c = "q" THEN [s EXCEPT !.mode = "quote"] ELSE [s EXCEPT !.field = Append(@, c)]
              [] s.mode = "quote" /\ c = "q" -> [s EXCEPT !.mode = "quoted", !.field = Append(@, c)]
              [] c \in {",", "n"} -> [fields |-> Append(s.fields, s.field), field |-> <<>>, mode |-> "start"]
              [] s.mode = "start" /\ c = "q" -> [s EXCEPT !.mode = "quoted"]
              [] OTHER -> [s EXCEPT !.mode = "plain", !.field = Append(@, c)]
    IN  FoldLeft(step, [fields |-> <<>>, field |-> <<>>, mode |-> "start"], line).fields
FieldSurvives == tool = "csv field" => ReadCsv(out) = in

\* A number has one numeral: what is written reads back, and nothing else that reads as it is accepted.
RomanUnique ==
    /\ (tool = "roman" /\ out.ok) => B!ToDecimal(out.text).ok /\ B!ToDecimal(out.text).value = in.n
    /\ (tool = "numeral" /\ out.ok) => B!ToRoman(out.value).text = in

-----------------------------------------------------------------------------
(* Sizes.                                                                  *)

PoolInputs == [max : {5, 12}, reserved : {2}, instances : {1, 3, 4}, pool : {1, 4}, peak : {1, 3, 6}, cores : {0, 1}, spindles : {1},
               pools : {1, 2, 4}, mode : {"direct", "session", "transaction"}]
Hops == [typical : {10, 30}, timeout : {20, 40}, retries : {0, 1, 2}, base : {0, 5}]

UseKafka == Idle /\ \E rf \in 1..3, ingress \in {5, 40}, groups \in 0..2, disk \in {20, 50}, cap \in {4, 100} :
    LET i == [ingress |-> ingress, message |-> 50, rf |-> rf, retention |-> 3, groups |-> groups, consumers |-> 2, perPartition |-> 10,
              maxPartitions |-> cap, disk |-> disk, nic |-> 60]
    IN  Show("kafka", i, S!KafkaSizer(i))
UseK8s == Idle /\ \E cores \in {1, 2, 8}, ram \in {4, 16}, cpu \in {150, 700}, replicas \in {1, 7, 20}, zones \in 1..3, tenths \in {5, 8} :
    LET i == [cores |-> cores, ram |-> ram, podCpu |-> cpu, podRam |-> 600, replicas |-> replicas, zones |-> zones, tenths |-> tenths,
              dsCpu |-> 400, dsRam |-> 512, dsPods |-> 6, maxPods |-> 12]
    IN  Show("k8s", i, S!K8sCapacitySizer(i))
UseBalancer == Idle /\ \E load \in {1, 5, 9}, tenths \in {5, 9}, ram \in {1, 4}, cores \in 1..2, m \in {"process", "thread", "async"}, spare \in 0..2 :
    LET i == [load |-> load, tenths |-> tenths, ram |-> ram, reserve |-> 1, perWorker |-> 1, cores |-> cores, model |-> m, waitRatio |-> 2, spare |-> spare]
    IN  Show("balancer", i, S!LoadBalancerSizer(i))
UseStorage == Idle /\ \E l \in {"raid0", "raid1", "raid5", "raid6", "raid10", "replication"}, iops \in {5, 40}, r \in {0, 7}, gb \in {3, 11}, rf \in 1..3 :
    LET i == [layout |-> l, iops |-> iops, readTenths |-> r, each |-> 9, gbEach |-> 4, gb |-> gb, rf |-> rf]
    IN  Show("storage", i, S!StorageIopsSizer(i))
UsePool == Idle /\ \E i \in PoolInputs : Show("pool", i, S!ConnectionPoolSizer(i))
UseRetry == Idle /\ \E h \in NonEmptySeqsUpTo(Hops, 2), budget \in {60, 200} :
    Show("retry", [hops |-> h, budget |-> budget], S!RetryBudget(budget, h))
UseAvailability == Idle /\ \E a \in {1, 5, 9}, total \in 1..4, required \in 1..4 :
    LET c == [tenths |-> a, mtbf |-> 0, mttr |-> 0, total |-> total, required |-> required]
    IN  Show("availability", c, S!ComponentAvailability(c))
UseQueue == Idle /\ \E load \in 1..4, servers \in 1..5 : Show("queue", [load |-> load, servers |-> servers], S!AnalyzeQueue(load, servers))
UseRunway == Idle /\ \E usage \in {0, 50, 85, 120}, growth \in {-3, 0, 7, 20}, lead \in {0, 2}, headroom \in {0, 20} :
    LET i == [usage |-> usage, ceiling |-> 100, growth |-> growth, lead |-> lead, headroom |-> headroom, months |-> 5]
    IN  Show("runway", i, S!CapacityRunway(i))
UseCloud == Idle /\ \E v \in {1, 4, 200}, cpu \in {0, 35, 140}, ram \in {20, 90}, t \in {50, 100} :
    LET i == [vcpu |-> v, ram |-> 8, cpuP95 |-> cpu, ramP95 |-> ram, target |-> t, price |-> 10, reserved |-> 40]
    IN  Show("cloud", i, S!CloudRightSize(i))
UseCache == Idle /\ \E h \in {<<100>>, <<40, 70, 90, 100>>, <<5, 10, 100>>}, item \in {1, 7}, o \in {0, 2}, t \in {1, 40, 95} :
    LET i == [hits |-> h, item |-> item, overhead |-> o, target |-> t, reads |-> 10] IN Show("cache", i, S!CacheSizer(i))
UseCeph == Idle /\ \E osds \in {1, 3, 10}, pools \in 1..2, r \in {1, 3} :
    LET i == [osds |-> osds, pools |-> pools, target |-> 100, replication |-> r] IN Show("ceph", i, S!CephPgCalculator(i))
UseDb == Idle /\ \E ram \in {1, 3}, c \in {1, 40, 2000}, p \in {10, 100} :
    LET i == [ram |-> ram, connections |-> c, percent |-> p] IN Show("db", i, S!DbMemorySizer(i))
UseZabbix == Idle /\ \E hosts \in {1, 90, 3000}, interval \in {1, 60} :
    LET i == [hosts |-> hosts, itemsPerHost |-> 50, interval |-> interval, history |-> 0, trends |-> 1, cores |-> 8]
    IN  Show("zabbix", i, S!ZabbixCaches(S!ZabbixLoad(i)) @@ S!ZabbixPools(S!ZabbixLoad(i), i.cores))

\* What is recommended carries the demand within the limits of one broker, node, instance or disk,
\* and one less (one zone of nodes less) does not, unless a minimum asks for it.
CapacityCarries ==
    /\ (tool = "kafka" /\ out.ok) =>
        LET carries(n) == out.load.storage <= n * in.disk /\ out.load.network <= n * in.nic /\ out.load.partitions * in.rf <= n * in.maxPartitions
        IN  carries(out.brokers) /\ (carries(out.brokers - 1) => out.brokers \in {in.rf, 3})
    /\ (tool = "k8s" /\ out.ok) =>
        /\ out.nodes = out.perZone * in.zones /\ out.nodes * out.perNode >= in.replicas
        /\ (out.nodes - in.zones) * out.perNode < in.replicas
        /\ out.perNode * in.podCpu * 10 <= S!Usable(in).cpu * in.tenths /\ out.perNode * in.podRam * 10 <= S!Usable(in).ram * in.tenths
        /\ out.survives = (in.replicas <= (IF in.zones = 1 THEN out.nodes ELSE out.nodes - out.perZone) * out.perNode)
    /\ (tool = "balancer" /\ out.ok) =>
        /\ out.instances * out.each * in.tenths >= 10 * in.load
        /\ out.instances - in.spare > 1 => (out.instances - in.spare - 1) * out.each * in.tenths < 10 * in.load
        /\ out.each * in.perWorker <= in.ram - in.reserve
    /\ (tool = "storage" /\ out.ok) =>
        LET least == IF in.layout = "raid10" THEN 2 ELSE 1
            carries(n) == out.backEnd <= 10 * n * in.each /\ n >= S!LayoutMinimum(in.layout)
                          /\ LET u == S!UsableCapacity(n, in.gbEach, in.layout, in.rf) IN u[1] >= in.gb * u[2]
        IN  carries(out.disks)
            /\ (\/ ~carries(out.disks - least)
                \* a mirror is counted in pairs of disks
                \/ in.layout = "raid1" /\ ~carries(out.disks - 2))

\* A recommended pool fits beside the others in what the database leaves, or is one connection.
PoolFits == (tool = "pool" /\ out.ok) =>
    /\ out.size = 1 \/ out.size * out.pools <= out.available
    /\ out.fits = (out.demand <= in.max - in.reserved)
    /\ in.mode # "direct" => (out.fits \/ out.size = 1)

\* No call that is answered at last takes longer than the worst case, and one takes as long:
\* each attempt but the last either times out or is not made.
RetryWorstCase == (tool = "retry" /\ out.ok) =>
    LET hop(k) == in.hops[k]
        takes(k, tries) == tries * hop(k).timeout + S!Smallest({hop(k).typical, hop(k).timeout}) + S!Sum([n \in 1..tries |-> hop(k).base * 2^(n - 1)])
        calls == {t \in [DOMAIN in.hops -> 0..2] : \A k \in DOMAIN in.hops : t[k] <= hop(k).retries}
        total(t) == S!Sum([k \in DOMAIN in.hops |-> takes(k, t[k])])
    IN  /\ \A t \in calls : total(t) <= out.worst
        /\ \E t \in calls : total(t) = out.worst
        /\ out.fits = (\A t \in calls : total(t) <= in.budget)

\* The chance that enough of the instances work is the sum over the sets of instances that are enough;
\* one more instance never lowers it.  The chance to wait is that of the birth-death chain.
Factorial(n) == S!Product([k \in 1..n |-> k])
ChancesAddUp ==
    /\ (tool = "availability" /\ out.ok) =>
        LET enough == {x \in SUBSET (1..in.total) : Cardinality(x) >= in.required}
            chance(up) == in.tenths^Cardinality(up) * (10 - in.tenths)^(in.total - Cardinality(up))
        IN  out.effective = MapThenSumSet(chance, enough) /\ out.oneMore >= 10 * out.effective
    /\ (tool = "queue" /\ out.ok /\ out.stable) =>
        LET c == in.servers
            busy == c * in.load^c
            idle == S!Sum([k \in 1..c |-> in.load^(k - 1) * (Factorial(c) \div Factorial(k - 1)) * (c - in.load)])
        IN  out.wait[1] * (idle + busy) = out.wait[2] * busy

\* Ordered in the month advised, capacity arrives before the ceiling is reached, and the advice is never
\* later than the month the headroom falls below its target.
RunwayInTime == (tool = "runway" /\ out.ok) =>
    LET usage(m) == in.usage + in.growth * m IN
    /\ (out.orderBy # S!Never /\ ~out.actNow) => usage(out.orderBy + in.lead - 1) < in.ceiling
    /\ \A m \in 1..30 : (m < out.orderBy /\ ~out.actNow) =>
            100 * usage(m - 1) < in.ceiling * (100 - in.headroom)
    /\ (out.actNow \/ out.orderBy = S!Never) \/ 100 * usage(out.orderBy + in.lead) >= in.ceiling * (100 - in.headroom)
    /\ \A m \in out.over : usage(m) >= in.ceiling

\* A size that is rounded still holds what it is for: the load at its target, the reads that must hit,
\* the groups, the memory of every connection; a larger site is never given less.
SitesSuffice ==
    /\ (tool = "cloud" /\ out.ok) => out.vcpu * in.target >= in.vcpu * in.cpuP95 /\ out.ram * in.target >= in.ram * in.ramP95
                                     /\ out.price[1] * in.ram >= in.price * out.ram * out.price[2] /\ out.price[1] * in.vcpu >= in.price * out.vcpu * out.price[2]
    /\ (tool = "cache" /\ out.ok) => out.achieved >= in.target /\ out.offloaded + out.remaining = 100 * in.reads
    /\ (tool = "ceph" /\ out.ok) => out.pgs * in.replication * in.pools >= in.osds * in.target /\ out.pgs * in.replication * in.pools < 2 * (in.osds * in.target + in.replication * in.pools)
    /\ (tool = "db" /\ out.ok) => out.work = 1 \/ out.shared + out.work * 4 * in.connections <= out.mb
    /\ tool = "zabbix" => LET more == [in EXCEPT !.hosts = @ + 100] IN
            \A k \in DOMAIN out : out[k] <= (S!ZabbixCaches(S!ZabbixLoad(more)) @@ S!ZabbixPools(S!ZabbixLoad(more), in.cores))[k]

\* Addresses and texts: nothing is lost, added or made ambiguous on the way; sizes hold what they are for.
AnswersExact ==
    /\ AddressesKept /\ QueriesHold /\ FieldsHold
    /\ PromptsKept /\ DiffApplies /\ WordsKept /\ SlugClean /\ NaturalIsOrder /\ RowsComplete /\ FieldSurvives /\ RomanUnique
    /\ CapacityCarries /\ PoolFits /\ RetryWorstCase /\ ChancesAddUp /\ RunwayInTime /\ SitesSuffice

Next == UseKafka \/ UseK8s \/ UseBalancer \/ UseStorage \/ UsePool \/ UseRetry \/ UseAvailability \/ UseQueue \/ UseRunway
        \/ UseCloud \/ UseCache \/ UseCeph \/ UseDb \/ UseZabbix
        \/ UseBuilder \/ UseNextRuns \/ UseCronNext \/ UseMirror \/ UseSubnet \/ UseIPv6 \/ UseHosts \/ UseSummary \/ UseMac
        \/ UseDiff \/ UseWords \/ UseSlug \/ UseSort \/ UseCsv \/ UseCsvField \/ UseRoman \/ UseNumeral \/ PromptUses \/ ConfigUses \/ MonitorUses \/ FormUses \/ QueryUses \/ FieldUses \/ Leave
Spec == Init /\ [][Next]_vars
\* What the builders and the small screens write is consistent, and what is entered of a monitor is what it does.
ConfigsHold == BuildersHold /\ MonitorsHold /\ FormsHold
=============================================================================
