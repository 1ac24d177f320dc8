----------------------------- MODULE Navigation -----------------------------
(***************************************************************************)
(* The shell of the console: which modules the rail lists, which tools the *)
(* pane beside it, which page an address opens, and the user's order and   *)
(* choice of modules through edits, backups, reloads and synced settings.  *)
(* The address of a tool is its id.                                        *)
(***************************************************************************)
EXTENDS Naturals, SequencesExt

CONSTANTS
    Dragged,     \* the modules the user moves or hides
    Accounts,    \* what an account may be allowed: sets of modules
    OldPrefs,    \* orders and hidden modules saved by other versions
    Searches,    \* what a text may leave out: sets of tools, the empty one with no text
    MaxChanges   \* bound: changes of the preferences

Group(label, ids) == [k \in DOMAIN ids |-> [id |-> ids[k], group |-> label]]
Module(id, tools, hideToolPane) == [id |-> id, tools |-> tools, hideToolPane |-> hideToolPane]

Tuning ==
    Group("Sizing", <<"db-memory-sizer", "zabbix-sizer", "ceph-pg", "load-balancer-sizer", "connection-pool-sizer",
        "k8s-capacity-sizer", "etcd-sizer", "storage-iops-sizer", "capacity-runway", "cache-sizer",
        "kafka-sizer">>) \o
    Group("Reliability", <<"slo-error-budget", "availability-calculator", "retry-budget">>) \o
    Group("Cost", <<"cloud-right-size">>) \o
    Group("Kernel & firewall", <<"linux-sysctl", "firewall-command-builder">>)

Utilities ==
    Group("Encode & format", <<"converters", "formatters", "base64-file", "gzip-converter", "json-to-csv">>) \o
    Group("Text", <<"text-transformer", "text-diff", "regex-tester">>) \o
    Group("Structured data", <<"jsonpath-evaluator", "structured-tree-viewer", "jwt-parser">>) \o
    Group("Hashing & secrets", <<"hash", "bcrypt", "password-generator", "id-generator", "htpasswd-generator">>) \o
    Group("Keys & certificates", <<"ssh-keygen", "x509-inspector">>) \o
    Group("Network addressing", <<"mac-address", "ip-range">>)

NetworkToolkit ==
    Group("Lookups", <<"subnet-calculator", "dns-lookup", "whois", "ip-geolocation", "sntp">>) \o
    Group("Reachability", <<"ping-monitor", "traceroute", "udp-traceroute">>) \o
    Group("Discovery", <<"port-scanner", "network-scanner">>) \o
    Group("Local host", <<"connections", "neighbor-table", "wake-on-lan">>) \o
    Group("System", <<"hosts-editor", "firewall-viewer">>) \o
    Group("Devices & throughput", <<"iperf3", "snmp", "discovery-protocol">>)

OfficeMedia ==
    Group("Documents", <<"pdf-split-merge", "pdf-inspector">>) \o
    Group("Images", <<"image-converter", "exif-viewer">>) \o
    Group("Codes", <<"qr-code", "qr-reader">>) \o
    Group("Color", <<"color-tools">>)

ConfigBuilders ==
    Group("Services", <<"web-server-config-builder", "database-config-builder", "zabbix-config-builder",
        "fail2ban-config-builder">>) \o
    Group("System", <<"ssh-config-builder", "firewall-rule-builder", "sysctl-config-builder", "crontab-builder",
        "chmod-calculator", "rdp-file-builder">>) \o
    Group("Containers", <<"docker-run-converter">>)

KnowledgeTools ==
    Group("Reference", <<"cheatsheets", "documentation", "reference-lists", "study-practice">>) \o
    Group("AI & Automation", <<"ai-catalogs", "mcp-servers", "ai-frameworks", "ai-software", "ai-skills",
        "automation", "ai-models", "dev-services">>)

kModuleTaxonomy == <<
    Module("tuning", Tuning, FALSE), Module("utilities", Utilities, FALSE),
    Module("network", NetworkToolkit, FALSE), Module("office", OfficeMedia, FALSE),
    Module("formflow", Group("", <<"formflow-builder">>), FALSE), Module("config", ConfigBuilders, FALSE),
    Module("knowledge", KnowledgeTools, FALSE), Module("prompt", Group("", <<"prompt-library">>), TRUE),
    Module("runbook", Group("", <<"runbook">>), TRUE), Module("ansible", Group("", <<"ansible">>), TRUE),
    Module("ai", Group("", <<"ai">>), TRUE), Module("monitor", Group("", <<"monitors">>), TRUE)>>

KnownIds == [k \in DOMAIN kModuleTaxonomy |-> kModuleTaxonomy[k].id]
ById(id) == kModuleTaxonomy[CHOOSE k \in DOMAIN kModuleTaxonomy : KnownIds[k] = id]
ToolIds(m) == {m.tools[k].id : k \in DOMAIN m.tools}
ToolGroups(m) == {m.tools[k].group : k \in DOMAIN m.tools}

VARIABLES
    path,      \* the address shown
    allowed,   \* the modules the account may see
    prefs,     \* the order of the modules, the hidden ones, whether the rail is wide
    imported,  \* a backup was read since the preferences were last reconciled
    unmatched, \* the tools the search text leaves out
    changes    \* changes made

navVars == <<path, allowed, prefs, imported, unmatched, changes>>

At(page, id) == [page |-> page, id |-> id]
Home == At("home", "")
Default == [order |-> KnownIds, hidden |-> {}, expanded |-> FALSE]
AllTools == UNION {ToolIds(kModuleTaxonomy[k]) : k \in DOMAIN kModuleTaxonomy}

NavInit ==
    /\ path = Home
    /\ allowed \in Accounts
    /\ prefs = Default
    /\ imported = FALSE
    /\ unmatched = {}
    /\ changes = 0

-----------------------------------------------------------------------------
(* What is shown.                                                          *)

CanSee(id) == id \in allowed
VisibleInOrder == SelectSeq(prefs.order, LAMBDA id : id \notin prefs.hidden /\ id \in Range(KnownIds))
RailModules == SelectSeq(VisibleInOrder, CanSee)

\* A module of one tool opens the tool.
RailRoute(id) ==
    IF Len(ById(id).tools) = 1 THEN At("tool", ById(id).tools[1].id) ELSE At("module", id)
\* The page of a module without a pane is left for its tool.
Shown(p) ==
    IF p.page = "module" /\ p.id \in Range(KnownIds) /\ ById(p.id).hideToolPane THEN At("tool", ById(p.id).tools[1].id) ELSE p

Containing(p) == {id \in Range(KnownIds) : p.page = "tool" /\ p.id \in ToolIds(ById(id))}
ActiveModules == IF path.page = "module" THEN {path.id} ELSE Containing(path)
Blocked == \E id \in Containing(path) : ~CanSee(id)

PaneOf == {id \in ActiveModules \cap Range(RailModules) : ~ById(id).hideToolPane}
PaneTools(id) == SelectSeq(ById(id).tools, LAMBDA t : t.id \notin unmatched)
SelectedTools(id) == {t \in Range(PaneTools(id)) : path = At("tool", t.id)}
\* A heading stands where the group changes, unless the user searches.
Headings(id) ==
    LET tools == ById(id).tools
    IN  IF unmatched # {} THEN {} ELSE {k \in DOMAIN tools : tools[k].group # "" /\ (k = 1 \/ tools[k - 1].group # tools[k].group)}

ModuleSections == IF path.page = "home" THEN Range(VisibleInOrder)
            ELSE IF path.page = "module" THEN {path.id} \cap Range(KnownIds) ELSE {}
ModuleCards == UNION {ToolIds(ById(id)) : id \in ModuleSections}

-----------------------------------------------------------------------------
(* Moving about.                                                           *)

Go(p) == path' = Shown(p) /\ UNCHANGED <<allowed, prefs, imported, unmatched, changes>>

ClickRail(id) == id \in Range(RailModules) /\ Go(RailRoute(id))
ClickTool == \E id \in PaneOf : \E t \in Range(PaneTools(id)) : Go(At("tool", t.id))
ClickHeader(id) == path = Home /\ id \in ModuleSections /\ Go(At("module", id))
ClickCard == \E t \in ModuleCards : Go(At("tool", t))
\* An address is typed on the home page: from elsewhere it leads to the same page.
Open(p) == path = Home /\ Go(p)
SetQuery(s) ==
    /\ unmatched' = s
    /\ UNCHANGED <<path, allowed, prefs, imported, changes>>

-----------------------------------------------------------------------------
(* The order and the choice of modules.                                    *)

SetPrefs(p, raw) ==
    /\ changes < MaxChanges
    /\ prefs' = p /\ imported' = raw
    /\ changes' = changes + 1
    /\ UNCHANGED <<path, allowed, unmatched>>

InSettings == path = At("settings", "general")
Listed == SelectSeq(prefs.order, LAMBDA id : CanSee(id) /\ id \in Range(KnownIds))
ToggleHidden(id) ==
    /\ InSettings /\ id \in Range(Listed)
    /\ SetPrefs([prefs EXCEPT !.hidden = IF id \in @ THEN @ \ {id} ELSE @ \cup {id}], imported)

Inserted(order, from, to) == InsertAt(order, to, order[from])  \* mutant: the module also stays where it was
Reordered(order, from, to) == InsertAt(RemoveAt(order, from), to, order[from])
DragEnd(a, b) ==
    /\ InSettings /\ a # b /\ {a, b} \subseteq Range(Listed)
    /\ LET from == CHOOSE k \in DOMAIN prefs.order : prefs.order[k] = a
           to == CHOOSE k \in DOMAIN prefs.order : prefs.order[k] = b
       IN  SetPrefs([prefs EXCEPT !.order = Reordered(@, from, to)], imported)
ToggleRail == SetPrefs([prefs EXCEPT !.expanded = ~@], imported)
ResetModules == InSettings /\ SetPrefs(Default, FALSE)

\* A backup is taken as it is.
ApplyBackup(b) == InSettings /\ SetPrefs(b, TRUE)

\* Saved preferences are reconciled with the modules there are.
MergeSaved(saved) ==  \* mutant: the modules that are new since are not added
    [saved EXCEPT !.order = SelectSeq(@, LAMBDA id : id \in Range(KnownIds)), !.hidden = @ \cap Range(KnownIds)]
Merge(saved) ==
    LET known == SelectSeq(saved.order, LAMBDA id : id \in Range(KnownIds))
    IN  [saved EXCEPT !.order = known \o SelectSeq(KnownIds, LAMBDA id : id \notin Range(known)),
                      !.hidden = @ \cap Range(KnownIds)]
\* What is on disk is what was last set.
Reload ==
    /\ prefs' = Merge(prefs) /\ imported' = FALSE
    /\ unmatched' = {}
    /\ UNCHANGED <<path, allowed, changes>>
PullSettings(remote) == SetPrefs(Merge(remote), FALSE)

Addresses == {Home, At("settings", "general"), At("module", "gone")}
             \cup {At("module", id) : id \in Range(KnownIds)} \cup {At("tool", t) : t \in AllTools}

NavNext ==
    \/ \E id \in Range(KnownIds) : ClickRail(id) \/ ClickHeader(id)
    \/ ClickTool \/ ClickCard
    \/ \E p \in Addresses : Open(p)
    \/ \E s \in Searches : SetQuery(s)
    \/ \E a \in Dragged : ToggleHidden(a) \/ \E b \in Dragged : DragEnd(a, b)
    \/ ToggleRail \/ ResetModules \/ Reload
    \/ \E o \in OldPrefs : ApplyBackup(o) \/ PullSettings(o)

-----------------------------------------------------------------------------
\* Whatever was dragged, hidden, imported from another version or synced: no module is listed twice, and
\* unless a backup was just read none is lost from the order ("new/removed modules since a prefs snapshot
\* was saved shouldn't vanish", moduleVisibilityStore.ts:48).
OrderComplete ==
    /\ IsInjective(prefs.order)
    /\ ~imported => Range(prefs.order) = Range(KnownIds)

\* From every module of the rail each of its tools is a click away, a heading never stands twice
\* ("tools sharing a group MUST be contiguous", moduleTaxonomy.ts:97), and the tool shown is marked once
\* in its pane.
ToolsReachable ==
    /\ \A id \in Range(RailModules) :
        LET p == Shown(RailRoute(id)) IN ToolIds(ById(id)) \subseteq (IF p.page = "tool" THEN {p.id} ELSE ToolIds(ById(p.id)))
    /\ \A id \in PaneOf :
        /\ unmatched = {} => Cardinality(Headings(id)) = Cardinality(ToolGroups(ById(id)) \ {""})
        /\ path.page = "tool" /\ path.id \notin unmatched => Cardinality(SelectedTools(id)) = 1
    /\ \A id \in ActiveModules \cap Range(KnownIds) : ById(id).hideToolPane => path.page = "tool"
=============================================================================
