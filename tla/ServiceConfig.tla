--------------------------- MODULE ServiceConfig ----------------------------
(***************************************************************************)
(* The builders of the files of a service: databases, web servers,         *)
(* fail2ban.                                                               *)
(***************************************************************************)
EXTENDS Integers, SequencesExt, TLC

(***************************************************************************)
(* The builder of postgresql.conf and my.cnf: the parameters computed from *)
(* the machine, the policy options that depend on one another, the file.   *)
(*                                                                         *)
(* A size is a number of kB or MB, a fraction a number of tenths; a file   *)
(* is a sequence of settings.  A text is one of a few; "lines" has two.    *)
(***************************************************************************)

Round(a, b) == (a \div b) + IF 2 * (a % b) >= b THEN 1 ELSE 0
Least(a, b) == IF a < b THEN a ELSE b
Most(a, b) == IF a > b THEN a ELSE b
None == -1  \* a parameter that is left out

Refused == [ok |-> FALSE]

-----------------------------------------------------------------------------
(* PostgreSQL.                                                             *)

PgWorkloads == {"web", "oltp", "dw", "desktop", "mixed"}
PgStorages == {"hdd", "ssd", "san", "nvme"}
PgRoles == {"standalone", "primary", "replica", "logical"}
PgMetrics(mb, cpus, version, workload, connections, storage, windows, fits, role) ==
    [mb |-> mb, cpus |-> cpus, version |-> version, workload |-> workload, connections |-> connections,
     storage |-> storage, windows |-> windows, fits |-> fits, role |-> role]

PgDefaultMaxConnections == [web |-> 200, oltp |-> 300, dw |-> 40, desktop |-> 20, mixed |-> 100]
WindowsLegacyCap == 2 * 1024 * 1024 - 1024
OnLegacyWindows(m) == m.windows /\ m.version <= 17
PgConnections(m) == IF m.connections = None THEN PgDefaultMaxConnections[m.workload] ELSE m.connections
PgAccepted(m) == m.mb > 0 /\ m.cpus > 0 /\ (m.connections = None \/ m.connections > 0)

SharedBuffers(m) ==
    LET share == Round(m.mb * 1024, IF m.workload = "desktop" THEN 16 ELSE 4)
    IN  IF m.windows /\ m.version < 10 THEN Least(share, 512 * 1024) ELSE share
EffectiveCache(m) == IF m.workload = "desktop" THEN Round(m.mb * 1024, 4) ELSE Round(3 * m.mb * 1024, 4)
MaintenanceMem(m) ==
    Least(Round(m.mb * 1024, IF m.workload = "dw" THEN 8 ELSE 16),
          IF OnLegacyWindows(m) THEN WindowsLegacyCap ELSE 8 * 1024 * 1024)
AutovacuumMem(m) == Least(MaintenanceMem(m), IF OnLegacyWindows(m) THEN WindowsLegacyCap ELSE 2 * 1024 * 1024)
Workers(m) == IF m.cpus >= 4 THEN m.cpus ELSE 8
WorkMemOfTotal(m) ==  \* mutant: the shared buffers are handed out again, to the connections alone
    Most(4096, Round(m.mb * 1024, PgConnections(m)))
WorkMem(m) ==
    LET share == CASE m.workload \in {"dw", "mixed"} -> 2 [] m.workload = "desktop" -> 6 [] OTHER -> 1
        scaled == Round((m.mb * 1024 - SharedBuffers(m)) * (IF m.fits THEN 13 ELSE 9), (PgConnections(m) + Workers(m)) * 3 * share * 10)
    IN  IF OnLegacyWindows(m) THEN Least(Most(4096, scaled), WindowsLegacyCap) ELSE Most(4096, scaled)
WalBuffers(m) == LET share == Round(SharedBuffers(m) * 3, 100) IN IF share >= 14336 THEN 16384 ELSE Most(32, share)
WalSizes == [web |-> <<1024, 4096>>, oltp |-> <<2048, 8192>>, dw |-> <<4096, 16384>>, desktop |-> <<100, 2048>>, mixed |-> <<1024, 4096>>]
RandomPageCost(m) ==
    CASE m.fits \/ m.storage = "ssd" -> 11
      [] ~m.fits /\ (m.storage = "hdd" \/ (m.storage # "ssd" /\ m.workload = "dw")) -> 40
      [] OTHER -> 11
IoConcurrency(m) == IF m.windows THEN None ELSE [hdd |-> 2, ssd |-> 200, san |-> 300, nvme |-> 1000][m.storage]
Parallelism(m) ==
    LET half == (m.cpus + 1) \div 2
        since(version, n) == IF m.version >= version THEN n ELSE None
    IN  IF m.cpus < 4 THEN [processes |-> None, gather |-> None, parallel |-> None, maintenance |-> None]
        ELSE [processes |-> m.cpus, gather |-> IF m.workload = "dw" THEN half ELSE Least(half, 4),
              parallel |-> since(10, m.cpus), maintenance |-> since(11, Least(half, 4))]
WalCompression(m) == CASE m.version >= 15 -> "lz4" [] m.version \in 10..14 -> "on" [] OTHER -> ""
JitOff(m) == m.version >= 12 /\ m.workload \in {"web", "oltp", "mixed"}
WalLevel == [standalone |-> "minimal", primary |-> "replica", replica |-> "replica", logical |-> "logical"]

ComputePostgresParams(m) ==
    [connections |-> PgConnections(m), shared |-> SharedBuffers(m), cache |-> EffectiveCache(m), maintenance |-> MaintenanceMem(m),
     autovacuum |-> AutovacuumMem(m), work |-> WorkMem(m), walBuffers |-> WalBuffers(m), minWal |-> WalSizes[m.workload][1],
     maxWal |-> WalSizes[m.workload][2], statistics |-> IF m.workload = "dw" THEN 500 ELSE 100, pageCost |-> RandomPageCost(m),
     io |-> IoConcurrency(m), workers |-> Parallelism(m), compression |-> WalCompression(m), jitOff |-> JitOff(m), walLevel |-> WalLevel[m.role]]

-----------------------------------------------------------------------------
(* MariaDB.                                                                *)

MaMetrics(mb, reserved, storage, workload, windows, major, minor) ==
    [mb |-> mb, reserved |-> reserved, storage |-> storage, workload |-> workload, windows |-> windows, major |-> major, minor |-> minor]
UsesRedoLogCapacity(m) == m.major > 10 \/ (m.major = 10 /\ m.minor >= 8)
MaAccepted(m) == m.mb > 0 /\ m.reserved >= 0 /\ m.mb > m.reserved

PoolOfTotal(m) == Most(128, Round(3 * m.mb, 512) * 128)  \* mutant: what the system keeps is handed out
BufferPool(m) == Most(128, Round(3 * (m.mb - m.reserved), 512) * 128)
MaConnections == [oltp |-> 200, olap |-> 50, mixed |-> 150, web |-> 150, smallVps |-> 50]
ComputeMariaDbParams(m) ==
    LET connections == MaConnections[m.workload] IN
    [pool |-> BufferPool(m), log |-> Least(BufferPool(m) \div 4, 2048), flush |-> IF m.windows THEN "unbuffered" ELSE "O_DIRECT",
     io |-> [hdd |-> 200, ssd |-> 2000, nvme |-> 10000][m.storage], neighbors |-> IF m.storage = "hdd" THEN 1 ELSE 0,
     connections |-> connections, tables |-> Most(400, connections * 4), tmp |-> Most(16, Least(256, m.mb \div 32)),
     threads |-> Least(100, Round(connections, 2))]

\* Less memory than is reserved moves the reserve with it.
SetTotalMemory(m, mb) == [m EXCEPT !.mb = mb, !.reserved = IF @ >= mb THEN Round(mb * 15, 100) ELSE @]

-----------------------------------------------------------------------------
(* The policy options.                                                     *)

Option(key, section, kind, choices, default) ==
    [key |-> key, section |-> section, kind |-> kind, choices |-> choices, default |-> default,
     dependsOn |-> "", requires |-> "", quoted |-> FALSE, upper |-> FALSE]
DependsOn(o, key, value) == [o EXCEPT !.dependsOn = key, !.requires = value]
Quoted(o) == [o EXCEPT !.quoted = TRUE]
Upper(o) == [o EXCEPT !.upper = TRUE]

kPostgresPolicyCatalog == <<
    Option("synchronous_commit", "Durability & Replication", "choice", <<"on", "off", "local", "remote_write", "remote_apply">>, "on"),
    Option("ssl", "Durability & Replication", "boolean", <<>>, "off"),
    Option("archive_mode", "Durability & Replication", "boolean", <<>>, "off"),
    Quoted(DependsOn(Option("archive_command", "Durability & Replication", "freeText", <<>>, "cp"), "archive_mode", "on")),
    Option("logging_collector", "Logging", "boolean", <<>>, "off"),
    Option("log_min_duration_statement", "Logging", "freeText", <<>>, "1000"),
    Quoted(DependsOn(Option("log_line_prefix", "Logging", "freeText", <<>>, "%m [%p]"), "log_min_duration_statement", "")) >>
kMariaDbPolicyCatalog == <<
    Option("innodb_flush_log_at_trx_commit", "Durability", "choice", <<"1", "2", "0">>, "1"),
    Upper(Option("query_cache_type", "Query Cache", "boolean", <<>>, "off")),
    DependsOn(Option("query_cache_size", "Query Cache", "freeText", <<>>, "64M"), "query_cache_type", "on"),
    Upper(Option("log_bin", "Replication", "boolean", <<>>, "off")),
    DependsOn(Option("server_id", "Replication", "freeText", <<>>, "1"), "log_bin", "on"),
    Upper(Option("slow_query_log", "Logging", "boolean", <<>>, "off")),
    DependsOn(Option("long_query_time", "Logging", "freeText", <<>>, "2"), "slow_query_log", "on") >>
PolicyCatalog(engine) == IF engine = "postgresql" THEN kPostgresPolicyCatalog ELSE kMariaDbPolicyCatalog
EffectiveChoices(o) ==
    CASE o.kind = "choice" -> Range(o.choices) [] o.kind = "boolean" -> IF o.upper THEN {"ON", "OFF"} ELSE {"on", "off"} [] OTHER -> {}

Lower(text) == CASE text = "ON" -> "on" [] text = "OFF" -> "off" [] OTHER -> text
Raw(values, key) == IF key \in DOMAIN values THEN values[key] ELSE ""
ValidPolicyValue(o, text) ==
    /\ text \notin {"", "lines"}
    /\ o.kind = "boolean" => Lower(text) \in {"on", "off"}
    /\ o.kind = "choice" => text \in Range(o.choices)
PolicyValue(o, text) ==
    IF o.kind # "boolean" THEN text ELSE IF ~o.upper THEN Lower(text) ELSE IF Lower(text) = "on" THEN "ON" ELSE "OFF"

GoverningTicked(values, o) == o.dependsOn = "" \/ o.dependsOn \in DOMAIN values  \* mutant: whatever its value
DependencySatisfied(values, o) ==
    \/ o.dependsOn = ""
    \/ Raw(values, o.dependsOn) # "" /\ o.requires \in {"", Lower(Raw(values, o.dependsOn))}
\* A dependent option has its default when it has no value of its own.
TextOf(values, o) == IF Raw(values, o.key) = "" /\ o.dependsOn # "" THEN o.default ELSE Raw(values, o.key)
Written(values, o) == DependencySatisfied(values, o) /\ TextOf(values, o) # ""
CatalogLines(engine, values, section) ==
    LET options == SelectSeq(PolicyCatalog(engine), LAMBDA o : o.section = section /\ Written(values, o))
    IN  [k \in DOMAIN options |-> [key |-> options[k].key, value |-> PolicyValue(options[k], TextOf(values, options[k])), quoted |-> options[k].quoted]]

\* The screen keeps the values of each engine; only the options whose governing option allows it are shown.
ShownOptions(engine, values) == {o \in Range(PolicyCatalog(engine)) : DependencySatisfied(values, o)}
ToggleOption(values, o, checked) ==
    IF checked THEN [k \in DOMAIN values \cup {o.key} |-> IF k \in DOMAIN values THEN values[k] ELSE o.default]
    ELSE [k \in DOMAIN values \ {o.key} |-> values[k]]
UpdateOptionValue(values, o, text) == [k \in DOMAIN values \cup {o.key} |-> IF k = o.key THEN text ELSE values[k]]

-----------------------------------------------------------------------------
(* The file.                                                               *)

Setting(key, value) == [key |-> key, value |-> value, quoted |-> FALSE]
Given(key, value) == IF value = None THEN <<>> ELSE <<Setting(key, value)>>
RenderPostgres(m, values) ==
    LET p == ComputePostgresParams(m)
        memory == <<Setting("max_connections", p.connections), Setting("shared_buffers", p.shared), Setting("effective_cache_size", p.cache),
                    Setting("maintenance_work_mem", p.maintenance), Setting("autovacuum_work_mem", p.autovacuum), Setting("work_mem", p.work)>>
        wal == <<Setting("wal_buffers", p.walBuffers), Setting("min_wal_size", p.minWal), Setting("max_wal_size", p.maxWal)>>
               \o IF p.compression = "" THEN <<>> ELSE <<Setting("wal_compression", p.compression)>>
        planner == <<Setting("default_statistics_target", p.statistics), Setting("random_page_cost", p.pageCost)>> \o Given("effective_io_concurrency", p.io)
        parallel == Given("max_worker_processes", p.workers.processes) \o Given("max_parallel_workers_per_gather", p.workers.gather)
                    \o Given("max_parallel_workers", p.workers.parallel) \o Given("max_parallel_maintenance_workers", p.workers.maintenance)
                    \o IF p.jitOff THEN <<Setting("jit", "off")>> ELSE <<>>
    IN  memory \o wal \o planner \o parallel \o <<Setting("wal_level", p.walLevel)>>
        \o CatalogLines("postgresql", values, "Durability & Replication") \o CatalogLines("postgresql", values, "Logging")
RenderMariaDb(m, values) ==
    LET p == ComputeMariaDbParams(m) IN
    <<Setting("innodb_buffer_pool_size", p.pool), Setting(IF UsesRedoLogCapacity(m) THEN "innodb_redo_log_capacity" ELSE "innodb_log_file_size", p.log),
      Setting("innodb_flush_method", p.flush), Setting("innodb_io_capacity", p.io), Setting("innodb_flush_neighbors", p.neighbors)>>
    \o CatalogLines("mariadb", values, "Durability")
    \o <<Setting("max_connections", p.connections), Setting("table_open_cache", p.tables), Setting("tmp_table_size", p.tmp),
         Setting("max_heap_table_size", p.tmp), Setting("thread_cache_size", p.threads)>>
    \o CatalogLines("mariadb", values, "Query Cache") \o CatalogLines("mariadb", values, "Replication") \o CatalogLines("mariadb", values, "Logging")

Accepted(engine, m, values) ==
    /\ IF engine = "postgresql" THEN PgAccepted(m) ELSE MaAccepted(m)
    /\ DOMAIN values \subseteq {o.key : o \in Range(PolicyCatalog(engine))}
    /\ \A o \in Range(PolicyCatalog(engine)) : Written(values, o) => ValidPolicyValue(o, TextOf(values, o))
Execute(engine, m, values) ==
    IF ~Accepted(engine, m, values) THEN Refused
    ELSE [ok |-> TRUE, file |-> IF engine = "postgresql" THEN RenderPostgres(m, values) ELSE RenderMariaDb(m, values)]

\* The unit a size is written in.
FormatKb(kb) ==
    CASE kb % (1024 * 1024) = 0 -> <<kb \div (1024 * 1024), "GB">>
      [] kb % (1024 * 1024) # 0 /\ kb % 1024 = 0 -> <<kb \div 1024, "MB">>
      [] OTHER -> <<kb, "kB">>
FormatMb(mb) == IF mb % 1024 = 0 THEN <<mb \div 1024, "GB">> ELSE <<mb, "MB">>

-----------------------------------------------------------------------------
(***************************************************************************)
(* Two builders of the files of a service and their screens: the site of a *)
(* web server (webServerConfigBuilder.ts, for nginx and Apache) and the    *)
(* jails of fail2ban (fail2banJailConfigBuilder.ts).                       *)
(***************************************************************************)


-----------------------------------------------------------------------------
(* A site.  A text is a string, "" when blank; a port is the text of one.  *)

\* The screen's form; both engines keep their own.
Site == [name |-> "example.com", listen |-> "80", certificate |-> "", key |-> "", redirect |-> FALSE, ssl |-> FALSE, proxy |-> FALSE,
         target |-> "", headers |-> FALSE, granted |-> TRUE]
WebForm == [engine |-> "nginx", nginx |-> Site, apache |-> Site]
Update(form, key, value) == [form EXCEPT ![form.engine][key] = value]
SslKeepsPort(form, on) == [form EXCEPT ![form.engine].ssl = on]  \* mutant: the port stays when SSL is switched on
ToggleSsl(form, on) ==
    [form EXCEPT ![form.engine].ssl = on, ![form.engine].listen = IF on /\ @ = "80" THEN "443" ELSE @]

\* The fields a form shows: those of what is switched on.
Shown(site) == {"name", "listen", "proxy"} \cup (IF site.ssl THEN {"certificate", "key", "redirect"} ELSE {}) \cup IF site.proxy THEN {"target"} ELSE {}
NginxForm(site) == Shown(site) \cup {"headers"}
ApacheForm(site) == Shown(site) \cup {"granted"}

\* The target of a proxy must look like a URL.
ProxyTargets == {"http://up", "https://up"}
Port(site) == IF site.listen = "" THEN "80" ELSE site.listen
Redirects(site) == site.redirect /\ site.ssl
Complete(site) ==
    /\ site.name # ""
    /\ site.ssl => site.certificate # "" /\ site.key # ""
    /\ site.proxy => site.target \in ProxyTargets
Warnings(site) == IF site.ssl /\ ~Redirects(site) THEN {"ssl-without-redirect"} ELSE {}

\* A block answers on a port, under TLS or not, with a redirection, the files or another server.
Block(port, tls, serves, adds) == [port |-> port, tls |-> tls, serves |-> serves, adds |-> adds]
RedirectBlock == Block("80", FALSE, "redirect", {})
Serves(site) == IF site.proxy THEN <<"proxy", site.target>> ELSE <<"files">>
NginxHeaders(site) ==
    IF ~site.headers THEN {} ELSE {"X-Frame-Options", "X-Content-Type-Options", "Referrer-Policy"} \cup IF site.ssl THEN {"Strict-Transport-Security"} ELSE {}
TlsOf(site) == IF site.ssl THEN <<site.certificate, site.key>> ELSE <<>>
NginxExecute(site) ==
    IF ~Complete(site) THEN Refused
    ELSE [ok |-> TRUE, warnings |-> Warnings(site),
          blocks |-> (IF Redirects(site) THEN <<RedirectBlock>> ELSE <<>>)
                     \o <<Block(Port(site), site.ssl, Serves(site), NginxHeaders(site)) @@ [cert |-> TlsOf(site)]>>]
ApacheExecute(site) ==
    IF ~Complete(site) THEN Refused
    ELSE [ok |-> TRUE, warnings |-> Warnings(site),
          blocks |-> (IF Redirects(site) THEN <<RedirectBlock>> ELSE <<>>)
                     \o <<Block(Port(site), site.ssl, IF site.proxy THEN <<"proxy", site.target>> ELSE IF site.granted THEN <<"files">> ELSE <<"denied">>, {}) @@ [cert |-> TlsOf(site)]>>]
WebResult(form) == IF form.engine = "nginx" THEN NginxExecute(form.nginx) ELSE ApacheExecute(form.apache)

-----------------------------------------------------------------------------
(* Jails.                                                                  *)

\* A text is a number with a unit, nothing, or anything else.
Text(n, unit) == [n |-> n, unit |-> unit]
Blank == Text(0, "blank")
Other == Text(0, "other")
ValidDuration(t) == (t.unit = "" /\ t.n = -1) \/ (t.n >= 0 /\ t.unit \in {"", "s", "m", "h", "d", "w"})
ValidPositiveInteger(t) == t.unit = "" /\ t.n > 0
Or(t, fallback) == IF t = Blank THEN fallback ELSE t

Jail(id, category, port) == [id |-> id, category |-> category, defaultPort |-> port]
FtpPorts == "ftp,ftp-data,ftps,ftps-data"
Catalog == <<
    Jail("sshd", "ssh", "ssh"),
    Jail("apache-auth", "web", "http,https"), Jail("apache-badbots", "web", "http,https"), Jail("apache-noscript", "web", "http,https"),
    Jail("nginx-http-auth", "web", "http,https"), Jail("nginx-limit-req", "web", "http,https"), Jail("nginx-botsearch", "web", "http,https"),
    Jail("postfix", "mail", "smtp,465,submission"), Jail("postfix-sasl", "mail", "smtp,465,submission,imap,imaps,pop3,pop3s"), Jail("dovecot", "mail", "pop3,pop3s,imap,imaps,submission,465,sieve"),
    Jail("proftpd", "ftp", FtpPorts), Jail("pure-ftpd", "ftp", FtpPorts), Jail("vsftpd", "ftp", FtpPorts),
    Jail("mysqld-auth", "database", "3306"), Jail("mongodb-auth", "database", "27017")>>
JailIds == {Catalog[k].id : k \in DOMAIN Catalog}
Categories == <<"ssh", "web", "mail", "ftp", "database">>

\* The form: the defaults, and the jails in the order they were first ticked.
Actions == {"banOnly", "banWithEmail", "banWithEmailAndWhois"}
JailForm == [bantime |-> Text(10, "m"), findtime |-> Text(10, "m"), maxretry |-> Text(5, ""), ignoreIp |-> <<"127.0.0.1/8", "::1">>, backend |-> "auto",
             action |-> "banOnly", destEmail |-> "", sender |-> "", mta |-> "", jails |-> <<>>]
NewJail(id) == [id |-> id, enabled |-> FALSE, maxretry |-> Blank, bantime |-> Blank, port |-> "", logPath |-> ""]
Patched(jails, id, patch) ==
    IF \E k \in DOMAIN jails : jails[k].id = id THEN [k \in DOMAIN jails |-> IF jails[k].id = id THEN patch @@ jails[k] ELSE jails[k]]
    ELSE Append(jails, patch @@ NewJail(id))
ToggleForgets(form, id, on) == [form EXCEPT !.jails = IF on THEN Patched(@, id, [enabled |-> on]) ELSE SelectSeq(@, LAMBDA j : j.id # id)]  \* mutant: an unticked jail is forgotten
ToggleJail(form, id, on) == [form EXCEPT !.jails = Patched(@, id, [enabled |-> on])]
UpdateJail(form, id, patch) == [form EXCEPT !.jails = Patched(@, id, patch)]
JailRow(j) == IF j.enabled THEN {"maxretry", "bantime", "port", "logPath"} ELSE {}
\* The rows listed: those a search matches, of the open categories; a search opens them all.
Listed(category, open, matches) == SelectSeq(Catalog, LAMBDA j : j.category = category /\ j.id \in matches /\ (category \in open \/ matches # JailIds))

PlausibleIps == {"127.0.0.1/8", "::1"}
JailValid(j) == (j.maxretry = Blank \/ ValidPositiveInteger(j.maxretry)) /\ (j.bantime = Blank \/ ValidDuration(j.bantime))
AnyJail(jails) == jails  \* mutant: what is unticked is written as well
EnabledJails(jails) == SelectSeq(jails, LAMBDA j : j.enabled /\ j.id \in JailIds)
Section(j) == [id |-> j.id] @@ [key \in {key \in {"maxretry", "bantime"} : j[key] # Blank} |-> j[key]] @@ [key \in {key \in {"port", "logPath"} : j[key] # ""} |-> j[key]]
Notified(form) == [key \in {key \in {"destEmail", "sender", "mta"} : form.action # "banOnly" /\ form[key] # ""} |-> form[key]]
JailsExecute(form) ==
    LET jails == EnabledJails(form.jails)
        bantime == Or(form.bantime, Text(10, "m"))  findtime == Or(form.findtime, Text(10, "m"))  maxretry == Or(form.maxretry, Text(5, ""))
    IN  IF /\ ValidDuration(bantime) /\ ValidDuration(findtime) /\ ValidPositiveInteger(maxretry)
           /\ Range(form.ignoreIp) \subseteq PlausibleIps /\ \A k \in DOMAIN jails : JailValid(jails[k])
        THEN [ok |-> TRUE, defaults |-> [bantime |-> bantime, findtime |-> findtime, maxretry |-> maxretry, backend |-> IF form.backend = "" THEN "auto" ELSE form.backend,
                                         ignoreip |-> form.ignoreIp, action |-> form.action] @@ Notified(form),
              sections |-> [k \in DOMAIN jails |-> Section(jails[k])]]
        ELSE Refused
=============================================================================
