----------------------------- MODULE Firewall -------------------------------
(***************************************************************************)
(* The two firewall builders: scripts and rulesets, and single commands.   *)
(***************************************************************************)
EXTENDS Integers, SequencesExt

(***************************************************************************)
(* The builder of ufw scripts and nftables rulesets, and its screen: the   *)
(* rules as entered, the warnings, the script in either dialect, and what  *)
(* a firewall that loads it does with a packet.                            *)
(*                                                                         *)
(* A port is a small number; an address is a text that means any address,  *)
(* or the name of a block ("v4", "v6").  A line is a record of its tokens. *)
(***************************************************************************)

CONSTANTS MaxPort, MaxGroup, Groups6  \* the largest port, the largest octet, the groups of an IPv6 address

Refused == [ok |-> FALSE]
Unset == "unset"

-----------------------------------------------------------------------------
(* Ports and addresses.  A text is a sequence of pieces: numbers as        *)
(* records, separators as themselves.                                      *)

Number(n) == [digits |-> TRUE, n |-> n, text |-> ""]
Piece(c) == [digits |-> FALSE, n |-> 0, text |-> c]
CheckPort(p) == p \in 1..MaxPort
PartsAt(text, seps) == FoldLeft(LAMBDA parts, x : IF x.text \in seps THEN Append(parts, <<>>) ELSE [parts EXCEPT ![Len(parts)] = Append(@, x)], <<<<>>>>, text)
ParsePort(part) == IF Len(part) = 1 /\ part[1].digits THEN part[1].n ELSE 0
ParsePorts(text) ==
    LET parts == PartsAt(text, {":", "-"})
        ends == <<ParsePort(parts[1]), ParsePort(Last(parts))>>
    IN  IF text # <<>> /\ Len(parts) \in {1, 2} /\ CheckPort(ends[1]) /\ CheckPort(ends[2]) /\ ends[1] <= ends[2]
        THEN [ok |-> TRUE, ports |-> ends] ELSE Refused
AnyPort == <<1, MaxPort>>
InRange(ports, p) == p >= ports[1] /\ p <= ports[2]

IsValidIpv4(text) ==
    LET parts == PartsAt(text, {"."})
    IN  Len(parts) = 4 /\ \A k \in DOMAIN parts : Len(parts[k]) = 1 /\ parts[k][1].digits /\ parts[k][1].n <= MaxGroup
Doubles(text) == {k \in 1..(Len(text) - 1) : text[k].text = ":" /\ text[k + 1].text = ":"}
IsValidIpv6(text) ==
    LET at == IF Doubles(text) = {} THEN 0 ELSE Min(Doubles(text))
        front == SubSeq(text, 1, at - 1)
        back == SubSeq(text, at + 2, Len(text))
        groups == CASE at = 0 -> PartsAt(text, {":"})
                    [] at > 0 -> (IF front = <<>> THEN <<>> ELSE PartsAt(front, {":"})) \o IF back = <<>> THEN <<>> ELSE PartsAt(back, {":"})
        dotted == groups # <<>> /\ \E x \in Range(Last(groups)) : x.text = "."
        plain == IF dotted THEN Front(groups) ELSE groups
        count == Len(groups) + IF dotted THEN 1 ELSE 0
    IN  /\ Cardinality(Doubles(text)) <= 1
        /\ groups = <<>> => at > 0
        /\ dotted => IsValidIpv4(Last(groups))
        /\ \A k \in DOMAIN plain : Len(plain[k]) = 1 /\ plain[k][1].digits
        /\ IF at = 0 THEN count = Groups6 ELSE count < Groups6
IsAnyAddress(a) == a \in {Unset, "", "any", "0.0.0.0/0", "::/0"}
ValidCidr(a) == IsAnyAddress(a) \/ a \in {"v4", "v6"}
NormalizeAddress(a) == IF IsAnyAddress(a) THEN Unset ELSE a

-----------------------------------------------------------------------------
(* Rules, policies, presets.                                               *)

Actions == {"allow", "deny", "reject", "limit"}
Permits(action) == action \in {"allow", "limit"}
PolicyActions == {a \in Actions : a # "limit"}
Directions == {"inbound", "outbound"}
Protocols == {"tcp", "udp", "any"}
Rule(action, direction, protocol, ports, source, destination, interfaceName, comment, logged) ==
    [action |-> action, direction |-> direction, protocol |-> protocol, ports |-> ports, source |-> source,
     destination |-> destination, interfaceName |-> interfaceName, comment |-> comment, logged |-> logged]
PermitsInboundTcpPort(r, p) ==
    r.direction = "inbound" /\ Permits(r.action) /\ r.protocol \in {"tcp", "any"} /\ (r.ports = <<>> \/ InRange(r.ports, p))
PermitsSsh(rules, sshPort) == \E r \in Range(rules) : PermitsInboundTcpPort(r, sshPort)
BlocksIncomingByDefault(policy) == ~Permits(policy.incoming)

FirewallServicePresets == <<
    [label |-> "SSH", port |-> 22, protocol |-> "tcp"], [label |-> "HTTP", port |-> 80, protocol |-> "tcp"],
    [label |-> "HTTPS", port |-> 443, protocol |-> "tcp"], [label |-> "DNS", port |-> 53, protocol |-> "any"],
    [label |-> "NTP", port |-> 123, protocol |-> "udp"], [label |-> "PostgreSQL", port |-> 5432, protocol |-> "tcp"],
    [label |-> "MySQL", port |-> 3306, protocol |-> "tcp"], [label |-> "Redis", port |-> 6379, protocol |-> "tcp"] >>
PresetToRule(preset) == Rule("allow", "inbound", preset.protocol, <<preset.port, preset.port>>, Unset, Unset, Unset, preset.label, FALSE)

-----------------------------------------------------------------------------
(* The warnings, the critical ones first.                                  *)

Warning(severity, code, at) == [severity |-> severity, code |-> code, at |-> at]
RuleWarnings(r, k) ==
    (IF r.action = "limit" /\ r.protocol # "tcp" THEN <<Warning("caution", "limit-not-tcp", k)>> ELSE <<>>) \o
    (IF ~IsAnyAddress(r.source) /\ ~IsAnyAddress(r.destination) /\ r.source # r.destination
     THEN <<Warning("caution", "address-family-mismatch", k)>> ELSE <<>>)
LockoutAllRules(input) ==  \* mutant: an outbound or denying rule on the port also counts
    BlocksIncomingByDefault(input.policy) /\ ~\E r \in Range(input.rules) : r.ports = <<>> \/ InRange(r.ports, input.sshPort)
Lockout(input) == BlocksIncomingByDefault(input.policy) /\ ~PermitsSsh(input.rules, input.sshPort)
CollectWarnings(input) ==
    (IF Lockout(input) THEN <<Warning("critical", "ssh-lockout", 0)>> ELSE <<>>) \o
    (IF ~BlocksIncomingByDefault(input.policy) THEN <<Warning("caution", "open-by-default", 0)>> ELSE <<>>) \o
    (IF input.rules = <<>> THEN <<Warning("caution", "no-rules", 0)>> ELSE <<>>) \o
    FlattenSeq([k \in DOMAIN input.rules |-> RuleWarnings(input.rules[k], k)]) \o
    (IF input.dialect = "nftables" THEN <<Warning("caution", "flush-ruleset", 0)>> ELSE <<>>) \o
    (IF input.dialect = "nftables" /\ "reject" \in {input.policy.incoming, input.policy.forward}
     THEN <<Warning("caution", "reject-policy-downgraded", 0)>> ELSE <<>>)

-----------------------------------------------------------------------------
(* The scripts.                                                            *)

\* ufw: the default policies, then the rules in order.
UfwRuleCommand(r) ==
    [verb |-> r.action, direction |-> r.direction, on |-> r.interfaceName, log |-> r.logged,
     proto |-> IF r.protocol = "any" THEN Unset ELSE r.protocol,
     from |-> NormalizeAddress(r.source), to |-> NormalizeAddress(r.destination), port |-> r.ports]
RenderUfw(input) ==
    [incoming |-> input.policy.incoming, outgoing |-> input.policy.outgoing, rules |-> [k \in DOMAIN input.rules |-> UfwRuleCommand(input.rules[k])]]

\* nftables: one chain per direction.
NftVerdict == [allow |-> "accept", deny |-> "drop", reject |-> "reject", limit |-> "accept"]
NftPolicy(action) == IF Permits(action) THEN "accept" ELSE "drop"
NftRuleAnyPort(r) ==  \* mutant: the port of a rule for both protocols is left out
    [ifname |-> r.interfaceName, saddr |-> NormalizeAddress(r.source), daddr |-> NormalizeAddress(r.destination),
     l4proto |-> IF r.protocol = "any" THEN {} ELSE {r.protocol}, dport |-> IF r.protocol = "any" THEN <<>> ELSE r.ports,
     limit |-> r.action = "limit", log |-> r.logged, verdict |-> NftVerdict[r.action]]
NftRuleStatement(r) ==
    [ifname |-> r.interfaceName, saddr |-> NormalizeAddress(r.source), daddr |-> NormalizeAddress(r.destination),
     l4proto |-> CASE r.protocol # "any" -> {r.protocol} [] r.protocol = "any" /\ r.ports # <<>> -> {"tcp", "udp"} [] OTHER -> {},
     dport |-> r.ports, limit |-> r.action = "limit", log |-> r.logged, verdict |-> NftVerdict[r.action]]
NftChain(input, direction, policy) ==
    LET rules == SelectSeq(input.rules, LAMBDA r : r.direction = direction)
    IN  [policy |-> NftPolicy(policy), rules |-> [k \in DOMAIN rules |-> NftRuleStatement(rules[k])]]
NftInputPreamble(input) ==
    (IF input.allowEstablished THEN <<"established accept", "invalid drop">> ELSE <<>>)
    \o (IF input.allowLoopback THEN <<"lo accept">> ELSE <<>>) \o (IF input.allowIcmp THEN <<"icmp accept">> ELSE <<>>)
RenderNft(input) ==
    [preamble |-> NftInputPreamble(input), input |-> NftChain(input, "inbound", input.policy.incoming),
     forward |-> NftPolicy(input.policy.forward), output |-> NftChain(input, "outbound", input.policy.outgoing)]

Accepted(input) ==
    /\ Range(input.policy) \subseteq PolicyActions /\ CheckPort(input.sshPort)
    /\ \A r \in Range(input.rules) : ValidCidr(r.source) /\ ValidCidr(r.destination) /\ r.interfaceName # ""
Execute(input) ==
    IF ~Accepted(input) THEN Refused
    ELSE [ok |-> TRUE, ufw |-> RenderUfw(input), nft |-> RenderNft(input), warnings |-> CollectWarnings(input), ruleCount |-> Len(input.rules)]

-----------------------------------------------------------------------------
(* A firewall that loads the script: the first rule that matches decides.  *)
(* A new packet has a direction, an interface, a protocol, a family, a     *)
(* source and a destination (a block or another address) and a port; it    *)
(* may be over the rate.                                                   *)

MatchesAddress(a, packet, side) == a = Unset \/ packet[side] = a
UfwMatches(line, p) ==
    /\ line.direction = p.direction /\ line.on \in {Unset, p.iface} /\ line.proto \in {Unset, p.proto}
    /\ MatchesAddress(line.from, p, "source") /\ MatchesAddress(line.to, p, "destination") /\ (line.port = <<>> \/ InRange(line.port, p.port))
UfwDecides(script, p) ==
    LET at == SelectInSeq(script.rules, LAMBDA line : UfwMatches(line, p))
        action == IF at = 0 THEN IF p.direction = "inbound" THEN script.incoming ELSE script.outgoing ELSE script.rules[at].verb
    IN  action = "allow" \/ (action = "limit" /\ ~p.overRate)
NftMatches(line, p) ==
    /\ line.ifname \in {Unset, p.iface} /\ (line.l4proto = {} \/ p.proto \in line.l4proto)
    /\ MatchesAddress(line.saddr, p, "source") /\ MatchesAddress(line.daddr, p, "destination")
    /\ (line.dport = <<>> \/ InRange(line.dport, p.port)) /\ (line.limit => ~p.overRate)
NftDecides(script, p) ==
    LET chain == IF p.direction = "inbound" THEN script.input ELSE script.output
        at == SelectInSeq(chain.rules, LAMBDA line : NftMatches(line, p))
    IN  \/ p.direction = "inbound" /\ p.iface = "lo" /\ "lo accept" \in Range(script.preamble)
        \/ (IF at = 0 THEN chain.policy ELSE chain.rules[at].verdict) = "accept"

-----------------------------------------------------------------------------
(* The screen: rows of texts, turned into rules on every change.           *)

RowFromRule(id, r) == [id |-> id, action |-> r.action, direction |-> r.direction, protocol |-> r.protocol, port |-> r.ports,
                       source |-> IF r.source = Unset THEN "" ELSE r.source, comment |-> r.comment]
BlankRow(id) == [id |-> id, action |-> "allow", direction |-> "inbound", protocol |-> "tcp", port |-> <<>>, source |-> "", comment |-> ""]
AddRow(rows, row) == Append(rows, row)
RemoveRow(rows, id) == SelectSeq(rows, LAMBDA r : r.id # id)
UpdateRow(rows, id, row) == [k \in DOMAIN rows |-> IF rows[k].id = id THEN row ELSE rows[k]]
RowsToRules(rows) ==
    [k \in DOMAIN rows |-> Rule(rows[k].action, rows[k].direction, rows[k].protocol, rows[k].port,
                                IF rows[k].source = "" THEN Unset ELSE rows[k].source, Unset, Unset, rows[k].comment, FALSE)]

-----------------------------------------------------------------------------
(***************************************************************************)
(* The builder of single firewall commands for eight targets, and its      *)
(* screen: the command that adds a rule and the one that deletes it.       *)
(*                                                                         *)
(* A command is the set of its arguments, a port and an address are names. *)
(***************************************************************************)

Providers == <<"iptables", "firewalld", "ufw", "windowsPowerShell", "windowsNetsh", "awsSecurityGroup", "gcpFirewall", "azureNsg">>
GroupOf(provider) == CASE provider \in {"iptables", "firewalld", "ufw"} -> "Linux" [] provider \in {"windowsPowerShell", "windowsNetsh"} -> "Windows" [] OTHER -> "Cloud"
SupportsDeny(provider) == provider # "awsSecurityGroup"
NeedsRuleName(provider) == provider \in {"windowsPowerShell", "windowsNetsh", "gcpFirewall", "azureNsg"}
NeedsPriority(provider) == provider = "azureNsg"
NeedsGroupContext(provider) == provider \in {"awsSecurityGroup", "gcpFirewall", "azureNsg"}

NotGiven == "unset"
CommandRule(action, direction, protocol, ports, source, ruleName, priority, comment) ==
    [action |-> action, direction |-> direction, protocol |-> protocol, ports |-> ports, source |-> source,
     ruleName |-> ruleName, priority |-> priority, comment |-> comment]
Command(add, delete, warnings) == [add |-> add, delete |-> delete, warnings |-> warnings]

Arg(name, value) == {<<name, value>>}
Where(condition, args) == IF condition THEN args ELSE {}
HasSource(r) == r.source \notin {NotGiven, "any"}
HasPorts(r) == r.ports # NotGiven
Specific(r) == r.protocol # "any"
RuleName(r) == IF r.ruleName # NotGiven THEN <<r.ruleName>> ELSE <<"infrakit", r.action, IF HasPorts(r) THEN r.ports ELSE "any-port">>

Iptables(r) ==
    LET match == Arg("chain", IF r.direction = "inbound" THEN "INPUT" ELSE "OUTPUT") \cup Arg("proto", IF Specific(r) THEN r.protocol ELSE "tcp")
                 \cup Where(HasPorts(r), Arg("dport", r.ports)) \cup Where(HasSource(r), Arg("source", r.source))
                 \cup Arg("verdict", r.action) \cup Where(r.comment # NotGiven, Arg("comment", r.comment))
    IN  Command(match, match, <<>>)
Firewalld(r) ==
    LET richRule == Where(HasSource(r), Arg("source", r.source)) \cup Arg("verdict", r.action)
                    \cup Where(HasPorts(r), Arg("port", r.ports) \cup Arg("proto", IF Specific(r) THEN r.protocol ELSE "tcp"))
    IN  Command(richRule, richRule, <<>>)
Ufw(r) ==
    LET spec == Arg("verdict", r.action) \cup Arg("chain", r.direction) \cup Where(HasSource(r), Arg("source", r.source))
                \cup Where(HasPorts(r), Arg("port", r.ports)) \cup Where(Specific(r), Arg("proto", r.protocol))
    IN  Command(spec \cup Where(r.comment # NotGiven, Arg("comment", r.comment)), spec, <<>>)
Windows(r) ==
    Command(Arg("name", RuleName(r)) \cup Arg("direction", r.direction) \cup Where(Specific(r), Arg("proto", r.protocol))
            \cup Where(HasPorts(r), Arg("localport", r.ports)) \cup Where(HasSource(r), Arg("source", r.source)) \cup Arg("verdict", r.action),
            Arg("name", RuleName(r)), <<>>)
Aws(r, context) ==
    LET parts == Arg("direction", r.direction) \cup Arg("group", IF context = NotGiven THEN "sg-xxxxxxxxxxxxxxxxx" ELSE context)
                 \cup Where(Specific(r), Arg("proto", r.protocol)) \cup Where(HasPorts(r), Arg("port", r.ports))
                 \cup Where(HasSource(r), Arg("source", r.source)) \cup Arg("verdict", "allow")
    IN  IF r.action = "deny" THEN Command({}, {}, <<"aws-deny-unsupported">>) ELSE Command(parts, parts, <<>>)
Gcp(r, context) ==
    Command(Arg("name", RuleName(r)) \cup Arg("network", IF context = NotGiven THEN "default" ELSE context) \cup Arg("direction", r.direction)
            \cup Arg("verdict", r.action) \cup Where(Specific(r), Arg("proto", r.protocol)) \cup Where(HasPorts(r), Arg("port", r.ports))
            \cup Where(HasSource(r), Arg("source", r.source)),
            Arg("name", RuleName(r)), <<>>)
AzurePriorityOnly(r, context) ==  \* mutant: the rule is deleted by its priority
    Command(Arg("nsg", context) \cup Arg("verdict", r.action), Arg("priority", r.priority), <<>>)
Azure(r, context) ==
    LET nsg == Arg("nsg", IF context = NotGiven THEN "my-nsg" ELSE context) \cup Arg("name", RuleName(r))
    IN  Command(nsg \cup Arg("priority", IF r.priority = NotGiven THEN "100" ELSE r.priority) \cup Arg("direction", r.direction)
                \cup Arg("verdict", r.action) \cup Where(Specific(r), Arg("proto", r.protocol))
                \cup Where(HasPorts(r), Arg(IF r.direction = "inbound" THEN "port" ELSE "sourceport", r.ports)) \cup Where(HasSource(r), Arg("source", r.source)),
                nsg, <<>>)
Build(r, provider, context) ==
    CASE provider = "iptables" -> Iptables(r)
      [] provider = "firewalld" -> Firewalld(r)
      [] provider = "ufw" -> Ufw(r)
      [] provider \in {"windowsPowerShell", "windowsNetsh"} -> Windows(r)
      [] provider = "awsSecurityGroup" -> Aws(r, context)
      [] provider = "gcpFirewall" -> Gcp(r, context)
      [] provider = "azureNsg" -> Azure(r, context)

-----------------------------------------------------------------------------
(* The screen.                                                             *)

BlankCommand(id) == [id |-> id] @@ CommandRule("allow", "inbound", "tcp", NotGiven, NotGiven, NotGiven, NotGiven, NotGiven)
\* A target that cannot deny turns the rows that do into allowing ones.
SetProvider(rows, provider) ==
    IF SupportsDeny(provider) THEN rows
    ELSE [k \in DOMAIN rows |-> IF rows[k].action = "deny" THEN [rows[k] EXCEPT !.action = "allow"] ELSE rows[k]]
ActionsOffered(provider) == IF SupportsDeny(provider) THEN {"allow", "deny"} ELSE {"allow"}
FieldsOffered(provider) == {"action", "direction", "protocol", "ports", "source"} \cup Where(NeedsRuleName(provider), {"ruleName"})
                           \cup Where(NeedsPriority(provider), {"priority"}) \cup {"comment"}
Generated(rows, provider, context) == [k \in DOMAIN rows |-> Build(rows[k], provider, context)]
CopyText(rows, provider, context) == [k \in DOMAIN rows |-> Generated(rows, provider, context)[k].add]
=============================================================================
