----------------------------- MODULE PromptParts -----------------------------
(***************************************************************************)
(* The pure parts of the prompt library: messages and their edits, the     *)
(* variables in them and what is known of each, filling and copying, the   *)
(* comparison of versions, files, and the templates that come with it.     *)
(*                                                                         *)
(* A text is a sequence of words; a word of Names is a variable {{...}}.   *)
(***************************************************************************)
EXTENDS Integers, SequencesExt

CONSTANTS Names

Message(id, role, content) == [id |-> id, role |-> role, content |-> content]
Roles == {"system", "user", "assistant"}

-----------------------------------------------------------------------------
(* Editing a list of messages.                                             *)

AddMessage(ms, new) == Append(ms, new)
PatchMessage(ms, id, content) == [k \in DOMAIN ms |-> IF ms[k].id = id THEN [ms[k] EXCEPT !.content = content] ELSE ms[k]]
MoveMessage(ms, k, dir) ==
    IF k + dir \notin DOMAIN ms THEN ms ELSE [ms EXCEPT ![k] = ms[k + dir], ![k + dir] = ms[k]]
DuplicateMessage(ms, k, id) == InsertAt(ms, k + 1, [ms[k] EXCEPT !.id = id])
DeleteMessage(ms, id) == IF Len(ms) = 1 THEN ms ELSE SelectSeq(ms, LAMBDA m : m.id # id)
DropMessage(ms, from, to) == InsertAt(RemoveAt(ms, from), to, ms[from])

-----------------------------------------------------------------------------
(* Variables.                                                              *)

ExtractVariables(ms) == UNION {Range(ms[k].content) \cap Names : k \in DOMAIN ms}
Value(values, name) == IF name \in DOMAIN values THEN values[name] ELSE <<>>
RenderAgain(text, values) ==  \* mutant: a variable inside a value is filled too
    LET once(t) == FlattenSeq([k \in DOMAIN t |-> IF Value(values, t[k]) = <<>> THEN <<t[k]>> ELSE values[t[k]]])
    IN  once(once(text))
RenderText(text, values) ==
    FlattenSeq([k \in DOMAIN text |-> IF Value(values, text[k]) = <<>> THEN <<text[k]>> ELSE values[text[k]]])
CountUnfilled(ms, values) == Cardinality({n \in ExtractVariables(ms) : Value(values, n) = <<>>})
Rendered(ms, values) == [k \in DOMAIN ms |-> [ms[k] EXCEPT !.content = RenderText(@, values)]]
OfRole(ms, role) == SelectSeq(ms, LAMBDA m : m.role = role)
\* The texts that are joined, each under the heading of its role unless there is none.
RenderAll(ms, values, format) ==
    LET r == Rendered(ms, values)
        headed == format \in {"text", "markdown"} /\ Len(r) > 1
        chosen == IF format = "system-user" THEN SelectSeq(OfRole(r, "system") \o OfRole(r, "user"), LAMBDA m : m.content # <<>>) ELSE r
    IN  [k \in DOMAIN chosen |-> [heading |-> IF headed \/ format = "messages-json" THEN chosen[k].role ELSE "", content |-> chosen[k].content]]

\* What is known of a variable; "" and {} are nothing, the limits of a number are one.
NoMeta == [kind |-> "text", default |-> "", options |-> <<>>, custom |-> FALSE, limits |-> FALSE, required |-> FALSE]
IsVariableMetaEmpty(meta) == meta = NoMeta
SetVariableMeta(known, name, meta) ==
    IF IsVariableMetaEmpty(meta) THEN [n \in DOMAIN known \ {name} |-> known[n]]
    ELSE [n \in DOMAIN known \cup {name} |-> IF n = name THEN meta ELSE known[n]]
KeptBoolean(meta, kind) == [meta EXCEPT !.kind = kind]  \* mutant: what the old kind allowed is kept
ChangeKind(meta, kind) ==
    [meta EXCEPT !.kind = kind,
                 !.options = IF kind = "select" THEN @ ELSE <<>>, !.custom = kind = "select" /\ @,
                 !.limits = kind = "number" /\ @,
                 !.default = IF kind = "boolean" /\ @ \notin {"true", "false"} THEN "" ELSE @]
PatchDefault(meta, value) == [meta EXCEPT !.default = value]
PatchRequired(meta, value) == [meta EXCEPT !.required = value]
\* Rows without a value are left out, and a default that is not a value is cleared.
SaveOptions(meta, rows, custom, def) ==
    LET options == SelectSeq(rows, LAMBDA v : v # "")
    IN  [meta EXCEPT !.kind = "select", !.options = options, !.custom = custom, !.default = IF def \in Range(options) THEN def ELSE ""]
AppendOptions(rows, next) == IF rows = <<>> THEN next ELSE rows \o SelectSeq(next, LAMBDA v : v \notin Range(rows))
Unrepeated(s) == FoldLeft(LAMBDA out, v : IF v \in Range(out) THEN out ELSE Append(out, v), <<>>, s)
SanitizeVariableMeta(raw) ==
    [raw EXCEPT !.kind = IF @ \in {"text", "textarea", "select", "boolean", "number"} THEN @ ELSE "text", !.options = Unrepeated(@)]

\* The value a field sends when something is chosen in it or typed into it.
FieldChoices(meta, typed) ==
    CASE meta.kind = "select" -> Range(meta.options) \cup (IF meta.custom THEN typed ELSE {}) \cup (IF meta.required THEN {} ELSE {""})
      [] meta.kind = "boolean" -> {"true", "false"} \cup (IF meta.required THEN {} ELSE {""})
      [] OTHER -> typed \cup {""}
EffectiveValues(known, typed, names) ==
    [n \in names |-> IF n \in DOMAIN typed THEN typed[n] ELSE IF n \in DOMAIN known THEN known[n].default ELSE ""]
Blocked(known, effective) == \E n \in DOMAIN effective : n \in DOMAIN known /\ known[n].required /\ effective[n] = ""

\* Options as lines of characters, "value | label".
Separators == {"|", "="}
LastSeparator(line) == {k \in DOMAIN line : line[k] \in Separators /\ \A j \in DOMAIN line : j > k => line[j] \notin Separators}  \* mutant
FirstSeparator(line) == {k \in DOMAIN line : line[k] \in Separators /\ \A j \in 1..(k - 1) : line[j] \notin Separators}
ParseLine(line) ==
    IF FirstSeparator(line) = {} THEN [value |-> line, label |-> <<>>]
    ELSE LET k == CHOOSE i \in FirstSeparator(line) : TRUE
             label == SubSeq(line, k + 1, Len(line))
             value == SubSeq(line, 1, k - 1)
         IN  [value |-> value, label |-> IF label = value THEN <<>> ELSE label]
ParseOptionLines(lines) ==
    FoldLeft(LAMBDA out, line : LET o == ParseLine(line) IN IF o.value = <<>> \/ \E p \in Range(out) : p.value = o.value THEN out ELSE Append(out, o), <<>>, lines)
OptionsToLines(options) ==
    [k \in DOMAIN options |-> IF options[k].label \in {<<>>, options[k].value} THEN options[k].value
                              ELSE options[k].value \o <<"|">> \o options[k].label]
PRESET_OPTION_SETS ==
    {<<"prod", "staging", "dev", "local">>, <<"trace", "debug", "info", "warn", "error", "fatal">>, <<"linux", "windows", "darwin">>,
     <<"low", "medium", "high", "critical">>, <<"tcp", "udp", "icmp">>, <<"aws", "gcp", "azure", "onprem">>}

-----------------------------------------------------------------------------
(* Comparing versions.                                                     *)

Absent == Message(0, "", <<>>)
Classify(a, b) ==
    LET kind == IF a = Absent THEN "added" ELSE IF b = Absent THEN "removed"
                ELSE IF a.content = b.content /\ a.role = b.role THEN "unchanged" ELSE "changed"
    IN  [kind |-> kind, before |-> a, after |-> b]
MessageOf(ms, id) == IF \E m \in Range(ms) : m.id = id THEN CHOOSE m \in Range(ms) : m.id = id ELSE Absent
At(ms, k) == IF k \in DOMAIN ms THEN ms[k] ELSE Absent
DiffByPlace(a, b) == [k \in 1..Max({Len(a), Len(b)}) |-> Classify(At(a, k), At(b, k))]
ShareIds(a, b) == {m.id : m \in Range(a)} \cap {m.id : m \in Range(b)} # {}
DiffOfSecond(a, b) ==  \* mutant: what only the older version has is not shown
    IF ~ShareIds(a, b) THEN DiffByPlace(a, b) ELSE [k \in DOMAIN b |-> Classify(MessageOf(a, b[k].id), b[k])]
DiffVersions(a, b) ==
    IF ~ShareIds(a, b) THEN DiffByPlace(a, b)
    ELSE [k \in DOMAIN b |-> Classify(MessageOf(a, b[k].id), b[k])]
         \o LET gone == SelectSeq(a, LAMBDA m : MessageOf(b, m.id) = Absent) IN [k \in DOMAIN gone |-> Classify(gone[k], Absent)]
DiffSummary(diffs) == [kind \in {"added", "removed", "changed"} |-> Cardinality({k \in DOMAIN diffs : diffs[k].kind = kind})]

-----------------------------------------------------------------------------
(* Files.  A folder is [id, name]; a name is spelled [word, upper].        *)

ExportPrompts(prompts, folders) ==
    [folders |-> SelectSeq(folders, LAMBDA f : f.id \in {p.folder : p \in Range(prompts)}), prompts |-> prompts]
NameTaken(taken, name) == [name |-> name, imported |-> name \in taken]
\* Templates, and prompts, whose name is taken are marked as imported.
MaterializeTemplateImport(names, taken) ==
    [k \in DOMAIN names |-> NameTaken(taken \cup {names[j] : j \in 1..(k - 1)}, names[k])]
\* Folders of the file are those of the library with the same name; others are made.
MaterializeImport(exp, folders, names) ==
    LET known == FoldLeft(LAMBDA out, f :
                    LET hit == {g \in Range(out.all) : g.name.word = f.name.word} IN
                    IF hit # {} THEN [out EXCEPT !.ids = Append(@, <<f.id, (CHOOSE g \in hit : TRUE).id>>)]
                    ELSE LET new == [id |-> 100 + Len(out.all), name |-> f.name]
                         IN  [all |-> Append(out.all, new), new |-> Append(out.new, new), ids |-> Append(out.ids, <<f.id, new.id>>)],
                 [all |-> folders, new |-> <<>>, ids |-> <<>>], exp.folders)
        folderOf(p) == LET to == {pair[2] : pair \in {i \in Range(known.ids) : i[1] = p.folder}} IN IF to = {} THEN 0 ELSE CHOOSE i \in to : TRUE
        named == MaterializeTemplateImport([k \in DOMAIN exp.prompts |-> exp.prompts[k].name], names)
    IN  [folders |-> known.new,
         prompts |-> [k \in DOMAIN exp.prompts |-> [exp.prompts[k] EXCEPT !.folder = folderOf(exp.prompts[k])] @@ [imported |-> named[k].imported]]]

-----------------------------------------------------------------------------
(* Templates: the variables declared, and those each message uses.         *)

Template(id, tags, variables, messages) == [id |-> id, tags |-> tags, variables |-> variables, messages |-> messages]
LinuxServiceWontStart == Template("seed-linux-service-wont-start", {"chat", "linux", "troubleshooting"},
    {"UNIT", "HOST", "DISTRO", "ERROR_OUTPUT"},
    <<Message(0, "system", <<>>), Message(0, "user", <<"UNIT", "HOST", "DISTRO", "ERROR_OUTPUT">>)>>)
HighLoadTriage == Template("seed-high-load-triage", {"chat", "performance", "troubleshooting"},
    {"HOST", "SYMPTOM", "TOP_OUTPUT"},
    <<Message(0, "system", <<>>), Message(0, "user", <<"HOST", "SYMPTOM", "TOP_OUTPUT">>)>>)
DiskFull == Template("seed-disk-full", {"chat", "linux", "troubleshooting"},
    {"MOUNT", "HOST", "DF_OUTPUT"},
    <<Message(0, "system", <<"MOUNT">>), Message(0, "user", <<"MOUNT", "HOST", "DF_OUTPUT">>)>>)
NetworkConnectivity == Template("seed-network-connectivity", {"chat", "network", "troubleshooting"},
    {"SOURCE", "DEST", "PORT", "SYMPTOM"},
    <<Message(0, "system", <<"DEST", "PORT">>), Message(0, "user", <<"SOURCE", "DEST", "PORT", "SYMPTOM">>)>>)
TlsCertError == Template("seed-tls-cert-error", {"chat", "security", "troubleshooting"},
    {"CLIENT", "ENDPOINT", "ERROR_STRING"},
    <<Message(0, "system", <<>>), Message(0, "user", <<"CLIENT", "ENDPOINT", "ERROR_STRING">>)>>)
ContainerCrashloop == Template("seed-container-crashloop", {"chat", "containers", "troubleshooting"},
    {"RUNTIME", "WORKLOAD", "LOGS", "EVENTS"},
    <<Message(0, "system", <<>>), Message(0, "user", <<"RUNTIME", "WORKLOAD", "LOGS", "EVENTS">>)>>)
DbConnectionExhaustion == Template("seed-db-connection-exhaustion", {"chat", "database", "troubleshooting"},
    {"ENGINE", "HOST", "MAX_CONN", "APP_STACK", "ERROR_OUTPUT"},
    <<Message(0, "system", <<>>), Message(0, "user", <<"ENGINE", "HOST", "MAX_CONN", "APP_STACK", "ERROR_OUTPUT">>)>>)
LogAnalyzerAgent == Template("seed-log-analyzer-agent", {"agent", "observability"},
    {"CONTEXT", "LOG_BLOB"},
    <<Message(0, "system", <<>>), Message(0, "user", <<>>), Message(0, "assistant", <<>>), Message(0, "user", <<"CONTEXT", "LOG_BLOB">>)>>)
IncidentFirstResponderAgent == Template("seed-incident-first-responder-agent", {"agent", "incident"},
    {"ALERT", "IMPACT", "RECENT_CHANGES"},
    <<Message(0, "system", <<>>), Message(0, "user", <<>>), Message(0, "assistant", <<>>), Message(0, "user", <<"ALERT", "IMPACT", "RECENT_CHANGES">>)>>)
ConfigChangeReviewerAgent == Template("seed-config-change-reviewer-agent", {"agent", "security", "review"},
    {"CONFIG_KIND", "ENVIRONMENT", "DIFF"},
    <<Message(0, "system", <<"CONFIG_KIND">>), Message(0, "user", <<>>), Message(0, "assistant", <<>>), Message(0, "user", <<"CONFIG_KIND", "ENVIRONMENT", "DIFF">>)>>)
IT_TROUBLESHOOTING_TEMPLATES ==
    <<LinuxServiceWontStart, HighLoadTriage, DiskFull, NetworkConnectivity, TlsCertError,
      ContainerCrashloop, DbConnectionExhaustion, LogAnalyzerAgent, IncidentFirstResponderAgent, ConfigChangeReviewerAgent>>
TEMPLATE_TAGS == {"chat", "agent", "troubleshooting", "linux", "network", "security", "performance", "containers",
                  "database", "observability", "incident", "review"}
\* A template of the user stands in the place of the one with its id, or last.
MergeTemplates(user) ==
    LET seeds == [k \in DOMAIN IT_TROUBLESHOOTING_TEMPLATES |->
                    LET own == {t \in Range(user) : t.id = IT_TROUBLESHOOTING_TEMPLATES[k].id}
                    IN  IF own = {} THEN IT_TROUBLESHOOTING_TEMPLATES[k] ELSE CHOOSE t \in own : TRUE]
    IN  seeds \o SelectSeq(user, LAMBDA t : \A s \in Range(seeds) : s.id # t.id)
TemplateTagList(templates) == UNION {t.tags : t \in Range(templates)}
\* The gallery: the templates of the tag picked that the text matches.
Gallery(templates, tag, found) == SelectSeq(templates, LAMBDA t : (tag = "" \/ tag \in t.tags) /\ t.id \in found)
FewShot(t) == OfRole(t.messages, "assistant") # <<>>
=============================================================================
