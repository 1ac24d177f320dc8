---------------------------- MODULE MonitorForm ----------------------------
(***************************************************************************)
(* What is entered and read of a monitor: the dialog that makes or edits   *)
(* one, the lists and templates that make several, the settings the probes *)
(* take from them, and the readings the screen shows (MonitorsScreen.tsx,  *)
(* monitorModel.ts, with internal/monitor's model, bulk and probes).       *)
(***************************************************************************)
EXTENDS Integers, SequencesExt, TLC

\* A field of a kind's settings; "fallback" is its default, or the blank of its type.
Field(key, type, options, fallback) == [key |-> key, type |-> type, options |-> options, fallback |-> fallback]
Meta(kind, unit, interval, fields) == [kind |-> kind, unit |-> unit, defaultIntervalSec |-> interval, configFields |-> fields]
KINDS == <<
    Meta("icmp", "ms", 60, <<>>),
    Meta("tcp", "ms", 60, <<>>),
    Meta("http", "ms", 60, <<Field("method", "select", {"GET", "HEAD", "POST"}, "GET"), Field("expectStatus", "text", {}, ""), Field("maxLatencyMs", "number", {}, 0),
                             Field("followRedirects", "bool", {}, TRUE), Field("assertBodyContains", "text", {}, ""), Field("assertJsonPath", "text", {}, ""), Field("assertJsonEquals", "text", {}, "")>>),
    Meta("dns", "ms", 60, <<Field("recordType", "select", {"A", "AAAA", "CNAME", "MX", "TXT", "NS"}, "A"), Field("expected", "text", {}, ""), Field("resolver", "text", {}, "")>>),
    Meta("tls-cert", "days", 3600, <<Field("warnDays", "number", {}, 21)>>),
    Meta("domain", "days", 43200, <<Field("warnDays", "number", {}, 30)>>),
    Meta("ssh", "", 300, <<>>)>>
KnownKinds == {KINDS[k].kind : k \in DOMAIN KINDS}
KindMeta(k) == IF k \in KnownKinds THEN SelectSeq(KINDS, LAMBDA m : m.kind = k)[1] ELSE KINDS[1]
SshPresets == <<
    [label |-> "Disk space", command |-> "df", assert |-> "num:<90"],
    [label |-> "Service active", command |-> "systemctl", assert |-> "exit0"],
    [label |-> "Process running", command |-> "pgrep", assert |-> "exit0"],
    [label |-> "Load average", command |-> "loadavg", assert |-> "num:<4"],
    [label |-> "Free memory", command |-> "free", assert |-> "num:>200"]>>

-----------------------------------------------------------------------------
(* The dialog.                                                             *)

\* initial: the dialog was opened on a monitor, or on one that another tool prepared.
Fresh == [initial |-> FALSE, kind |-> "icmp", config |-> <<>>, intervalSec |-> 60, failThreshold |-> 3, touched |-> FALSE]
Opened(m) == [Fresh EXCEPT !.initial = TRUE, !.kind = m.kind, !.config = m.config, !.intervalSec = m.intervalSec, !.failThreshold = m.failThreshold]
KeptConfig(d, k) == [d EXCEPT !.kind = k]  \* mutant: the settings of the other kind stay
PickKind(d, k) ==
    IF d.initial THEN [d EXCEPT !.kind = k]
    ELSE [d EXCEPT !.kind = k, !.config = <<>>, !.intervalSec = IF d.touched THEN d.intervalSec ELSE KindMeta(k).defaultIntervalSec]
\* A setting that is cleared is not kept.
SetCfg(d, key, val, cleared) ==
    [d EXCEPT !.config = IF cleared THEN [k \in DOMAIN d.config \ {key} |-> d.config[k]] ELSE (key :> val) @@ d.config]
OnChange(d, f, val) == SetCfg(d, f.key, val, f.type # "bool" /\ val = IF f.type = "number" THEN -1 ELSE "")
PickPreset(d, p) == SetCfg(SetCfg(d, "command", p.command, FALSE), "assert", p.assert, FALSE)
PickNode(d, node) == SetCfg(d, "nodeId", node, node = "inline")
\* A number that does not parse is 0.
SetInterval(d, n) == [d EXCEPT !.touched = TRUE, !.intervalSec = Max({5, IF n = 0 THEN 60 ELSE n})]
SetThreshold(d, n) == [d EXCEPT !.failThreshold = Max({1, IF n = 0 THEN 3 ELSE n})]
\* What a switch or a list shows.
ShownValue(d, f) == IF f.key \in DOMAIN d.config THEN d.config[f.key] ELSE f.fallback

\* The row stored of it: the numbers left out or out of bounds are given theirs.
KindDefaultInterval(kind) == CASE kind = "tls-cert" -> 3600 [] kind = "domain" -> 43200 [] OTHER -> 60
Normalize(m) ==
    LET interval == Max({5, IF m.intervalSec <= 0 THEN KindDefaultInterval(m.kind) ELSE m.intervalSec})
    IN  [m EXCEPT !.intervalSec = interval, !.timeoutSec = Min({interval, IF @ <= 0 THEN 10 ELSE @}), !.failThreshold = IF @ <= 0 THEN 3 ELSE @]
Draft(kind, target, interval, threshold, config, tags) ==
    [kind |-> kind, target |-> target, intervalSec |-> interval, failThreshold |-> threshold, timeoutSec |-> 0, config |-> config, tags |-> tags]
Submitted(d) == Normalize(Draft(d.kind, <<"x">>, d.intervalSec, d.failThreshold, d.config, <<>>))

\* What the probe of a kind takes from the settings.
Effective(kind, config) ==
    LET or(key, fallback) == IF key \in DOMAIN config THEN config[key] ELSE fallback
    IN  CASE kind = "http" -> [method |-> or("method", "GET"), expect |-> or("expectStatus", ""), limit |-> or("maxLatencyMs", 0), followRedirects |-> or("followRedirects", TRUE),
                               contains |-> or("assertBodyContains", ""), path |-> or("assertJsonPath", ""), equals |-> IF or("assertJsonPath", "") = "" THEN "" ELSE or("assertJsonEquals", "")]
          [] kind = "dns" -> [recordType |-> or("recordType", "A"), expected |-> or("expected", ""), resolver |-> or("resolver", "")]
          [] kind = "tls-cert" -> [warn |-> or("warnDays", 21)]
          [] kind = "domain" -> [warn |-> or("warnDays", 30)]
          [] kind = "ssh" -> [command |-> or("command", ""), assert |-> or("assert", "exit0")]
          [] OTHER -> [kind |-> kind]

\* The line that sums the settings up: its parts.
Part(when, name, values) == IF when THEN <<<<name>> \o values>> ELSE <<>>
ConfigSummary(kind, config) ==
    LET s(key) == IF key \in DOMAIN config THEN config[key] ELSE ""
        n(key, fallback) == IF key \in DOMAIN config THEN config[key] ELSE fallback
    IN  CASE kind = "http" ->
               Part(s("method") \notin {"", "GET"}, "method", <<s("method")>>) \o Part(s("expectStatus") # "", "status", <<s("expectStatus")>>)
               \o Part(n("maxLatencyMs", 0) # 0, "latency", <<n("maxLatencyMs", 0)>>) \o Part(s("assertBodyContains") # "", "body", <<s("assertBodyContains")>>)
               \o Part(s("assertJsonPath") # "", "json", <<s("assertJsonPath")>> \o IF s("assertJsonEquals") = "" THEN <<>> ELSE <<s("assertJsonEquals")>>)
               \o Part(~n("followRedirects", TRUE), "no redirects", <<>>)
          [] kind = "dns" ->
               <<<<IF s("recordType") = "" THEN "A" ELSE s("recordType")>>>> \o Part(s("expected") # "", "=", <<s("expected")>>) \o Part(s("resolver") # "", "via", <<s("resolver")>>)
          [] kind \in {"tls-cert", "domain"} -> <<<<"warn", n("warnDays", IF kind = "domain" THEN 30 ELSE 21)>>>>
          [] kind = "ssh" -> Part(s("command") # "", "command", <<s("command")>>) \o Part(s("assert") \notin {"", "exit0"}, "assert", <<s("assert")>>)
          [] OTHER -> <<>>

-----------------------------------------------------------------------------
(* Several monitors at once.                                               *)

\* Tags are parted by commas; the blanks around them do not count.
TagList(tags) == SelectSeq(FoldLeft(LAMBDA acc, c : IF c = "," THEN Append(acc, <<>>) ELSE IF c = " " THEN acc ELSE [acc EXCEPT ![Len(acc)] = Append(@, c)], <<<<>>>>, tags), LAMBDA t : t # <<>>)
TagsOffered(monitors) == UNION {Range(TagList(monitors[k].tags)) : k \in DOMAIN monitors}
Filtered(monitors, tag) == IF tag = <<>> THEN monitors ELSE SelectSeq(monitors, LAMBDA m : tag \in Range(TagList(m.tags)))

\* A line: its fields, trimmed of blanks and quotes; a comment or a blank line has none.
LowerKind(w) == IF w = "HTTP" THEN "http" ELSE w
Verdict(f) ==
    CASE f = <<>> -> "skip"
      [] Len(f) >= 3 /\ f[1] = "name" /\ f[2] = "kind" -> "skip"
      [] Len(f) < 3 \/ f[1] = "" -> "malformed"
      [] f[3] = "" -> "malformed"
      [] LowerKind(f[2]) \notin KnownKinds -> "unknown kind"
      [] OTHER -> "create"
ErrorOrdinal(n, errors) == Len(errors) + 1  \* mutant: errors are numbered among themselves
ErrorLine(n, errors) == n
ParseBulk(lines) ==
    FoldLeft(LAMBDA acc, n :
        LET f == lines[n]  verdict == Verdict(f) IN
        CASE verdict = "skip" -> acc
          [] verdict = "create" -> [acc EXCEPT !.created = Append(@, [name |-> f[1], monitor |-> Normalize(Draft(LowerKind(f[2]), <<f[3]>>, 0, 0, <<>>, IF Len(f) >= 4 THEN <<f[4]>> ELSE <<>>))])]
          [] OTHER -> [acc EXCEPT !.errors = Append(@, [line |-> ErrorLine(n, acc.errors), error |-> verdict])],
        [created |-> <<>>, errors |-> <<>>], [n \in DOMAIN lines |-> n])
\* The dialog closes itself once everything was created.
Closes(result) == result.errors = <<>> /\ result.created # <<>>

\* A web service: four monitors of a host, given as its labels.
RegistrableDomain(host) == IF Len(host) <= 2 THEN host ELSE SubSeq(host, Len(host) - 1, Len(host))
BuildTemplate(host, extraTags) ==
    LET tags == host \o IF extraTags = <<>> THEN <<>> ELSE <<",", " ">> \o extraTags
    IN  [k \in 1..4 |-> Normalize(<<Draft("http", <<"https://">> \o host, 0, 0, <<>>, tags), Draft("tls-cert", host \o <<":443">>, KindDefaultInterval("tls-cert"), 0, <<>>, tags),
                                    Draft("dns", host, 0, 0, "recordType" :> "A", tags), Draft("domain", RegistrableDomain(host), KindDefaultInterval("domain"), 0, <<>>, tags)>>[k])]

-----------------------------------------------------------------------------
(* Readings.                                                               *)

Rounded(a, b) == ((2 * a) + b) \div (2 * b)
\* Seconds, as the parts shown; a ratio, in hundred-thousandths, as hundredths or tenths of a percent.
FmtDuration(s) ==
    LET m == Rounded(s, 60)  h == m \div 60 IN
    CASE s < 60 -> [s |-> s] [] m < 60 -> [m |-> m] [] h < 24 -> [h |-> h, m |-> m % 60] [] OTHER -> [d |-> h \div 24, h |-> h % 24]
RelTime(s) ==
    CASE s < 60 -> [s |-> s] [] s < 3600 -> [m |-> Rounded(s, 60)] [] s < 86400 -> [h |-> Rounded(s, 3600)] [] OTHER -> [d |-> Rounded(s, 86400)]
FmtUptime(r) == IF r >= 99950 THEN [digits |-> 2, hundredths |-> Rounded(r, 10)] ELSE [digits |-> 1, hundredths |-> 10 * Rounded(r, 100)]
UptimeTone(r) == IF r >= 99900 THEN "green" ELSE IF r >= 99000 THEN "amber" ELSE "red"
UptimePct(ok, total) == Rounded(ok * 1000, total)
RangeSince(range, now) == now - (CASE range = "24h" -> 1 [] range = "7d" -> 7 [] OTHER -> 30)

\* The cells of the exported report: one with a quote, a comma or a line break is quoted.
Cell(c) == IF Range(c) \cap {"dquote", ",", "\n"} = {} THEN c
           ELSE <<"dquote">> \o FlattenSeq([k \in DOMAIN c |-> IF c[k] = "dquote" THEN <<"dquote", "dquote">> ELSE <<c[k]>>]) \o <<"dquote">>
Row(cells) == FlattenSeq([k \in DOMAIN cells |-> IF k = 1 THEN Cell(cells[k]) ELSE <<",">> \o Cell(cells[k])])
=============================================================================
