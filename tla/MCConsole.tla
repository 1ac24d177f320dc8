------------------------------ MODULE MCConsole ------------------------------
(***************************************************************************)
(* The screens and stores of the console that keep state of their own,     *)
(* checked one at a time: "part" says which one moves, the others stay as  *)
(* they begin.                                                             *)
(***************************************************************************)
EXTENDS Navigation, KnowledgeHub, FiniteSets

CONSTANTS Parts, Conns, Scripts, PanelScripts, MaxSends, MaxChats, MaxRows, MaxCalls, MaxRuns, MaxBlocks, MaxEdits,
          PromptIds, FolderIds, FolderNames, Lists, Labels, TemplateIds, MaxVersions, Killed, MaxOps,
          Ids, Ranges, MaxAsked, MaxTurns, MaxActs,
          Stored, Fresh, MaxMoves, MaxTexts, MaxDeeds, MaxTraffic,
          MaxPosted, MaxTyped, Boards, MaxTokens, MaxWires, MaxClicks,
          Minute, Hour, RawRetention, MinRetention, HourRetention, MonthWindow, MaxSamplesPerMonitor, Gaps, MaxTime, MaxKept

VARIABLES part,
    chat, chats, streams, pick, saves, loads, convRows, decisions, autoSave, late,
    mode, run, turns, pending, runs, accepted,
    screen, target, edits, editors,
    prompts, folders, templates, selected, viewing, compare, timers, disk, calls, raced, given, ops,
    rows, timer, feeds, alerts, list, seen, watched, range, panes, dialog, asked, toasts, flips, acts, met, shuffled,
    time, raw, rolled, sweep, kept, pruned,
    stored, known, draft, dirty, busy, testing, post, count, typed, clean,
    boards, issued, retired, shown, wires, version, clicks, upset,
    place, url, editor, gets, puts, forms, tally,
    book, tab, pauses, traffic, deeds, notes

chatVars == <<chat, chats, streams, pick, saves, loads, convRows, decisions, autoSave, late>>
panelVars == <<mode, run, turns, pending, runs, accepted>>
catalogVars == <<screen, target, edits, editors>>
libraryVars == <<prompts, folders, templates, selected, viewing, compare, timers, disk, calls, raced, given, ops>>
boardVars == <<rows, timer, feeds, alerts, list, seen, watched, range, panes, dialog, asked, toasts, flips, acts, met, shuffled>>
historyVars == <<time, raw, rolled, sweep, kept, pruned>>
alertVars == <<stored, known, draft, dirty, busy, testing, post, count, typed, clean>>
pageVars == <<boards, issued, retired, shown, wires, version, clicks, upset>>
flowVars == <<place, url, editor, gets, puts, forms, tally>>
bookVars == <<book, tab, pauses, traffic, deeds, notes>>
monitorVars == <<boardVars, historyVars, alertVars, pageVars>>
vars == <<part, chatVars, panelVars, catalogVars, navVars, hubVars, libraryVars, monitorVars, flowVars, bookVars>>

\* What the backend sends ends once, at its end, and asks about one tool call at most; 0 is no monitor, 99 a new one.
ASSUME ConsoleAssumption ==
    /\ {MaxChats, MaxRows} \subseteq Nat
    /\ IsFiniteSet(Ids) /\ Ids \subseteq Nat \ {0, 99}
    /\ \A s \in Scripts : /\ s \in Seq({"delta", "tool-call", "tool-approval", "tool-result", "end", "error"})
                          /\ s # <<>> /\ \A i \in DOMAIN s : s[i] \in {"end", "error"} <=> i = Len(s)
                          /\ \A i, j \in DOMAIN s : s[i] = "tool-approval" /\ s[j] = "tool-approval" => i = j
    /\ \A s \in PanelScripts : s \in Seq({"delta", "parsed", "tool-call", "tool-approval", "tool-result", "end", "error"})

ChatScripts == {<<"error">>, <<"tool-approval", "tool-result", "end">>}
MCPanelScripts ==
    {<<"delta", "parsed", "end">>, <<"tool-call", "tool-approval", "tool-result", "delta", "end">>, <<"delta", "error">>}
MCTouched ==
    [sysctl |-> {"vm.swappiness", "net.ipv4.ip_forward", "net.core.somaxconn"},
     zabbix |-> {"LogType", "DBName", "ListenPort"},
     rdp |-> {"server port", "redirectclipboard", "drivestoredirect"},
     ssh |-> {"Port", "PasswordAuthentication", "Ciphers"}]

\* Two accounts, the preferences of another version, and what a few texts leave out or find.
MCAccounts == {Range(KnownIds), {"config", "ai", "formflow", "knowledge"}}
MCOldPrefs == {[order |-> <<"config", "gone", "tuning">>, hidden |-> {"ai", "gone"}, expanded |-> FALSE]}
MCSearches == {{}, AllTools \ {"traceroute", "udp-traceroute", "cheatsheets"}}
MCTexts == {NoText, [names |-> {"Zabbix", "git log", "systemctl status", "vm.swappiness"}, tags |-> {}],
            [names |-> {"Coolify"}, tags |-> {"agents", "cloud-native"}]}
MCTags == {"agents", "ai", "directory", "kubernetes", "learning", "llm", "security", "tunnel", "monitoring", "linux"}

A == INSTANCE AiChat
C == INSTANCE CatalogEditor WITH Touched <- MCTouched
Y == INSTANCE PromptLibrary
B == INSTANCE MonitorBoard WITH selected <- watched, turns <- flips, MaxCalls <- MaxAsked
E == INSTANCE MonitorSettings
F == INSTANCE FormFlow
R == INSTANCE RunbookEditor
H == INSTANCE MonitorHistory WITH Latency <- [t \in 1..MaxTime |-> (t * t) % 5]

Init ==
    /\ part \in Parts
    /\ A!Init /\ A!PanelInit /\ C!Init /\ NavInit /\ HubInit /\ Y!Init /\ B!BoardInit /\ H!HistoryInit /\ E!AlertInit /\ E!PagesInit /\ F!FlowInit /\ R!EditorInit
    /\ part # "shell" => allowed = Range(KnownIds)
    /\ part # "hub" => hub = "cheatsheets"
    /\ pick = 1                     \* one connection is as good as the other to begin with
    /\ part # "chat" => ~autoSave
    /\ part # "panel" => mode = "chat"
    /\ part # "catalog" => screen = "sysctl"
    /\ part # "flow" => place = "local"
    /\ part # "editor" => book = R!Unsaved
    /\ part # "board" => \A m \in Ids : rows[m].here

OfChat == part = "chat" /\ A!Next /\ UNCHANGED <<part, panelVars, catalogVars, navVars, hubVars, libraryVars, monitorVars, flowVars, bookVars>>
OfPanel == part = "panel" /\ A!PanelNext /\ UNCHANGED <<part, chatVars, catalogVars, navVars, hubVars, libraryVars, monitorVars, flowVars, bookVars>>
OfCatalog == part = "catalog" /\ C!Next /\ UNCHANGED <<part, chatVars, panelVars, navVars, hubVars, libraryVars, monitorVars, flowVars, bookVars>>
OfShell == part = "shell" /\ NavNext /\ UNCHANGED <<part, chatVars, panelVars, catalogVars, hubVars, libraryVars, monitorVars, flowVars, bookVars>>
OfHub == part = "hub" /\ HubNext /\ UNCHANGED <<part, chatVars, panelVars, catalogVars, navVars, libraryVars, monitorVars, flowVars, bookVars>>
OfLibrary == part = "library" /\ Y!Next /\ UNCHANGED <<part, chatVars, panelVars, catalogVars, navVars, hubVars, monitorVars, flowVars, bookVars>>
OfBoard == part = "board" /\ B!BoardNext /\ UNCHANGED <<part, chatVars, panelVars, catalogVars, navVars, hubVars, libraryVars, historyVars, alertVars, pageVars, flowVars, bookVars>>
OfHistory == part = "history" /\ H!HistoryNext /\ UNCHANGED <<part, chatVars, panelVars, catalogVars, navVars, hubVars, libraryVars, boardVars, alertVars, pageVars, flowVars, bookVars>>
OfAlerts == part = "alerts" /\ E!AlertNext /\ UNCHANGED <<part, chatVars, panelVars, catalogVars, navVars, hubVars, libraryVars, boardVars, historyVars, pageVars, flowVars, bookVars>>
OfPages == part = "pages" /\ E!PagesNext /\ UNCHANGED <<part, chatVars, panelVars, catalogVars, navVars, hubVars, libraryVars, boardVars, historyVars, alertVars, flowVars, bookVars>>
OfFlow == part = "flow" /\ F!FlowNext /\ UNCHANGED <<part, chatVars, panelVars, catalogVars, navVars, hubVars, libraryVars, monitorVars, bookVars>>
OfEditor == part = "editor" /\ R!EditorNext /\ UNCHANGED <<part, chatVars, panelVars, catalogVars, navVars, hubVars, libraryVars, monitorVars, flowVars>>

Next == OfChat \/ OfPanel \/ OfCatalog \/ OfShell \/ OfHub \/ OfLibrary \/ OfBoard \/ OfHistory \/ OfAlerts \/ OfPages \/ OfFlow \/ OfEditor
Spec == Init /\ [][Next]_vars

-----------------------------------------------------------------------------
\* A reply stands after the question it answers, a failed turn is not sent again, a tool call is decided once, and a
\* chat is saved apart from the others; the panel shows the answers of its latest run, in order, and accepts only what was parsed.
ChatSound ==
    /\ part = "chat" => A!TypeOK /\ A!RepliesInPlace /\ A!FailedNotResent /\ A!DecidedOnce /\ A!SavedApart
    /\ part = "panel" => A!RepliesInOrder /\ A!OnlyLatestRun /\ A!AcceptedWasParsed
\* The file shown is the selection, a hardened one has no warning, and a preset ends with its values in it.
CatalogSound ==
    /\ [](part = "catalog" => C!FileIsSelection /\ C!HardenedIsQuiet)
    /\ [][part = "catalog" => C!PresetWins]_vars
\* The rail and the pane lead to every tool; the hub shows every link and page; the library stores what it
\* shows; the board of the monitors shows and announces what it should; a monitor's history is folded, never lost;
\* its alert settings are what was typed; a status page ends with its link; the
\* form designer shows and saves the form its address names; the runbook editor shows and keeps every version.
ScreensSound ==
    /\ part = "shell" => OrderComplete /\ ToolsReachable
    /\ part = "hub" => HubComplete /\ NothingLost /\ PageShown
    /\ part = "library" => Y!StoredMatches /\ Y!VersionsSound
    /\ part = "board" => B!BoardSound
    /\ part = "history" => H!HistoryKept
    /\ part = "alerts" => E!AlertsSound
    /\ part = "pages" => E!PagesSound
    /\ part = "flow" => F!FlowSound
    /\ part = "editor" => R!EditorSound
\* The index of the library and its entries agree.
IndexInSync == Y!IndexInSync
=============================================================================
