------------------------------ MODULE Catalogs ------------------------------
(***************************************************************************)
(* The catalogs of the configuration builders that let the user tick       *)
(* directives: sysctl, OpenSSH, .rdp and Zabbix.  Of an option there is    *)
(* what the builders and the editor look at: its kind, the values it may   *)
(* have, its default and its value in the presets.  "-" is no value, "text"*)
(* stands for any other text that is written in the source.                *)
(***************************************************************************)
EXTENDS Integers, FiniteSets, TLC

Unset == -1
W(s) == [s |-> s]   \* a value that is a word
N(n) == [n |-> n]   \* a value that is a number
None == W("-")

Option(key, kind, legal, default, hardened, lan) ==
    [key |-> key, kind |-> kind, legal |-> legal, default |-> default, hardened |-> hardened, lan |-> lan]
TextOptions(d, keys) == {Option(k, "text", {}, W(d), None, None) : k \in keys}
Text(k, d, h) == Option(k, "text", {}, W(d), W(h), None)
Switches(d, h, l, keys) ==
    {Option(k, "switch", IF d \in {"yes", "no"} THEN {W("yes"), W("no")} ELSE {W("0"), W("1")}, W(d), W(h), W(l)) : k \in keys}
Choice(k, d, h, l, values) == Option(k, "choice", {W(v) : v \in values}, W(d), W(h), W(l))
OrNone(n) == IF n = Unset THEN None ELSE N(n)
Number(k, d, h, lo, hi) == Option(k, "number", {N(lo), N(hi)}, OrNone(d), OrNone(h), None)
Bounded(o, n) == \E lo, hi \in o.legal : lo.n <= n /\ n <= hi.n

-----------------------------------------------------------------------------
(* sysctl.                                                                 *)

\* Memory management.
Memory ==
    TextOptions("text", {"vm.swappiness", "vm.dirty_ratio", "vm.dirty_background_ratio", "vm.dirty_expire_centisecs", "vm.dirty_writeback_centisecs",
        "vm.overcommit_ratio", "vm.vfs_cache_pressure", "vm.min_free_kbytes", "vm.max_map_count", "vm.watermark_scale_factor", "vm.nr_hugepages"})
        \cup {Choice("vm.overcommit_memory", "0", "-", "-", {"0", "1", "2"}), Choice("vm.zone_reclaim_mode", "0", "-", "-", {"0", "1", "2", "4"})}

\* Memory management: what happens without memory.
OutOfMemory ==
    Switches("0", "-", "-", {"vm.oom_kill_allocating_task"}) \cup {Choice("vm.panic_on_oom", "0", "-", "-", {"0", "1", "2"})}

\* Network performance: queues, buffers, connection options.
NetworkQueues ==
    TextOptions("text", {"net.core.somaxconn", "net.ipv4.tcp_max_syn_backlog", "net.core.netdev_max_backlog", "net.core.netdev_budget", "net.core.rmem_max",
        "net.core.wmem_max", "net.core.rmem_default", "net.core.wmem_default", "net.core.optmem_max", "net.ipv4.tcp_rmem", "net.ipv4.tcp_wmem",
        "net.ipv4.tcp_congestion_control", "net.core.default_qdisc"}) \cup Switches("1", "-", "-", {"net.ipv4.tcp_moderate_rcvbuf",
        "net.ipv4.tcp_window_scaling"}) \cup {Choice("net.ipv4.tcp_tw_reuse", "1", "-", "-", {"0", "1", "2"})}

\* Network performance: how long a connection lives.
TcpLifetimes ==
    TextOptions("text", {"net.ipv4.tcp_max_tw_buckets", "net.ipv4.tcp_fin_timeout", "net.ipv4.tcp_keepalive_time", "net.ipv4.tcp_keepalive_probes",
        "net.ipv4.tcp_keepalive_intvl", "net.ipv4.ip_local_port_range", "net.ipv4.tcp_notsent_lowat"})
        \cup Switches("0", "-", "-", {"net.ipv4.tcp_slow_start_after_idle"}) \cup {Choice("net.ipv4.tcp_fastopen", "3", "-", "-", {"0", "1", "2",
        "3"}), Choice("net.ipv4.tcp_mtu_probing", "1", "-", "-", {"0", "1", "2"})}

\* Network security: IPv4.
Ipv4Hardening ==
    Switches("0", "-", "-", {"net.ipv4.ip_forward", "net.ipv4.conf.all.accept_source_route", "net.ipv4.conf.default.accept_source_route",
        "net.ipv4.conf.all.accept_redirects", "net.ipv4.conf.default.accept_redirects", "net.ipv4.conf.all.secure_redirects",
        "net.ipv4.conf.default.secure_redirects", "net.ipv4.conf.all.send_redirects", "net.ipv4.conf.default.send_redirects"})
        \cup Switches("1", "-", "-", {"net.ipv4.conf.all.log_martians", "net.ipv4.conf.default.log_martians", "net.ipv4.icmp_echo_ignore_broadcasts",
        "net.ipv4.icmp_ignore_bogus_error_responses"}) \cup {Choice("net.ipv4.tcp_syncookies", "1", "-", "-", {"0", "1", "2"}),
        Choice("net.ipv4.conf.all.rp_filter", "1", "-", "-", {"0", "1", "2"}), Choice("net.ipv4.conf.default.rp_filter", "1", "-", "-", {"0", "1",
        "2"})}

\* Network security: ICMP, ARP, BPF.
ArpAndIcmp ==
    Switches("0", "-", "-", {"net.ipv4.icmp_echo_ignore_all"}) \cup Switches("1", "-", "-", {"net.ipv4.tcp_rfc1337"})
        \cup {Choice("net.ipv4.conf.all.arp_ignore", "1", "-", "-", {"0", "1", "2", "3", "8"}),
        Choice("net.ipv4.conf.all.arp_announce", "2", "-", "-", {"0", "1", "2"}), Choice("net.core.bpf_jit_harden", "2", "-", "-", {"0", "1", "2"})}

\* Network security: IPv6.
Ipv6Hardening ==
    Switches("0", "-", "-", {"net.ipv6.conf.all.accept_redirects", "net.ipv6.conf.default.accept_redirects", "net.ipv6.conf.all.forwarding",
        "net.ipv6.conf.all.disable_ipv6", "net.ipv6.conf.default.disable_ipv6"})
        \cup {Choice("net.ipv6.conf.all.accept_source_route", "0", "-", "-", {"0", "-1"}),
        Choice("net.ipv6.conf.default.accept_source_route", "0", "-", "-", {"0", "-1"}), Choice("net.ipv6.conf.all.accept_ra", "0", "-", "-", {"0",
        "1", "2"}), Choice("net.ipv6.conf.default.accept_ra", "0", "-", "-", {"0", "1", "2"})}

\* Kernel security.
KernelHardening ==
    TextOptions("text", {"kernel.panic"}) \cup Switches("1", "-", "-", {"kernel.dmesg_restrict", "kernel.kexec_load_disabled", "kernel.modules_disabled",
        "kernel.panic_on_oops"}) \cup {Choice("kernel.kptr_restrict", "2", "-", "-", {"0", "1", "2"}), Choice("kernel.sysrq", "0", "-", "-", {"0",
        "1", "4", "16", "176", "438"}), Choice("kernel.randomize_va_space", "2", "-", "-", {"0", "1", "2"}),
        Choice("kernel.unprivileged_bpf_disabled", "2", "-", "-", {"0", "1", "2"}), Choice("kernel.yama.ptrace_scope", "1", "-", "-", {"0", "1", "2",
        "3"}), Choice("kernel.perf_event_paranoid", "2", "-", "-", {"-1", "0", "1", "2", "3"})}

\* Kernel security: files.
FileProtection ==
    Switches("1", "-", "-", {"fs.protected_hardlinks", "fs.protected_symlinks"}) \cup {Choice("fs.suid_dumpable", "0", "-", "-", {"0", "1", "2"}),
        Choice("fs.protected_fifos", "2", "-", "-", {"0", "1", "2"}), Choice("fs.protected_regular", "2", "-", "-", {"0", "1", "2"})}

\* File system and limits.
FilesAndLimits ==
    TextOptions("text", {"fs.file-max", "fs.nr_open", "fs.inotify.max_user_watches", "fs.inotify.max_user_instances", "fs.inotify.max_queued_events",
        "fs.aio-max-nr"})

\* Processes and scheduling.
Scheduling ==
    TextOptions("text", {"kernel.pid_max", "kernel.threads-max", "kernel.sched_rt_runtime_us", "kernel.sched_rt_period_us",
        "kernel.sched_cfs_bandwidth_slice_us"}) \cup Switches("0", "-", "-", {"kernel.sched_autogroup_enabled", "kernel.sched_schedstats"})
        \cup Switches("1", "-", "-", {"kernel.sched_energy_aware"}) \cup {Choice("kernel.numa_balancing", "1", "-", "-", {"0", "1", "2"})}

\* Connection tracking.
ConnectionTracking ==
    TextOptions("text", {"net.netfilter.nf_conntrack_max", "net.netfilter.nf_conntrack_buckets", "net.netfilter.nf_conntrack_tcp_timeout_established",
        "net.netfilter.nf_conntrack_tcp_timeout_time_wait", "net.netfilter.nf_conntrack_generic_timeout"})
        \cup Switches("0", "-", "-", {"net.netfilter.nf_conntrack_tcp_loose"})

Sysctl == Memory \cup OutOfMemory \cup NetworkQueues \cup TcpLifetimes \cup Ipv4Hardening \cup ArpAndIcmp \cup Ipv6Hardening
          \cup KernelHardening \cup FileProtection \cup FilesAndLimits \cup Scheduling \cup ConnectionTracking

\* The presets of sysctl.
All(v, keys) == [k \in keys |-> W(v)]

SecurityBaseline ==
    All("1", {"net.ipv4.tcp_syncookies", "net.ipv4.conf.all.rp_filter", "net.ipv4.conf.default.rp_filter", "net.ipv4.conf.all.log_martians",
        "net.ipv4.conf.default.log_martians", "net.ipv4.icmp_echo_ignore_broadcasts", "net.ipv4.icmp_ignore_bogus_error_responses",
        "net.ipv4.tcp_rfc1337", "kernel.dmesg_restrict", "kernel.yama.ptrace_scope", "fs.protected_hardlinks", "fs.protected_symlinks"}) @@
        All("0", {"net.ipv4.ip_forward", "net.ipv4.conf.all.accept_source_route", "net.ipv4.conf.default.accept_source_route",
        "net.ipv4.conf.all.accept_redirects", "net.ipv4.conf.default.accept_redirects", "net.ipv4.conf.all.secure_redirects",
        "net.ipv4.conf.default.secure_redirects", "net.ipv4.conf.all.send_redirects", "net.ipv4.conf.default.send_redirects",
        "net.ipv6.conf.all.accept_redirects", "net.ipv6.conf.default.accept_redirects", "net.ipv6.conf.all.accept_ra",
        "net.ipv6.conf.default.accept_ra", "net.ipv6.conf.all.forwarding", "kernel.sysrq", "fs.suid_dumpable"}) @@
        All("-1", {"net.ipv6.conf.all.accept_source_route", "net.ipv6.conf.default.accept_source_route"}) @@ All("2", {"net.core.bpf_jit_harden",
        "kernel.kptr_restrict", "kernel.randomize_va_space", "kernel.unprivileged_bpf_disabled", "kernel.perf_event_paranoid", "fs.protected_fifos",
        "fs.protected_regular"})

HighConcurrency ==
    All("65535", {"net.core.somaxconn", "net.ipv4.tcp_max_syn_backlog"}) @@ All("16384", {"net.core.netdev_max_backlog"}) @@
        All("600", {"net.core.netdev_budget"}) @@ All("16777216", {"net.core.rmem_max", "net.core.wmem_max"}) @@
        All("262144", {"net.core.rmem_default", "net.core.wmem_default"}) @@ All("4096 131072 16777216", {"net.ipv4.tcp_rmem"}) @@
        All("4096 65536 16777216", {"net.ipv4.tcp_wmem"}) @@ All("1", {"net.ipv4.tcp_moderate_rcvbuf", "net.ipv4.tcp_tw_reuse",
        "net.ipv4.tcp_mtu_probing", "net.ipv4.tcp_syncookies"}) @@ All("bbr", {"net.ipv4.tcp_congestion_control"}) @@
        All("fq", {"net.core.default_qdisc"}) @@ All("1048576", {"net.ipv4.tcp_max_tw_buckets", "fs.nr_open"}) @@
        All("15", {"net.ipv4.tcp_fin_timeout", "net.ipv4.tcp_keepalive_intvl"}) @@ All("300", {"net.ipv4.tcp_keepalive_time"}) @@
        All("5", {"net.ipv4.tcp_keepalive_probes"}) @@ All("10240 65535", {"net.ipv4.ip_local_port_range"}) @@
        All("0", {"net.ipv4.tcp_slow_start_after_idle"}) @@ All("3", {"net.ipv4.tcp_fastopen"}) @@ All("2097152", {"fs.file-max"})

ContainerHost ==
    All("1", {"net.ipv4.ip_forward"}) @@ All("4194304", {"kernel.pid_max"}) @@ All("1048576", {"kernel.threads-max", "fs.nr_open",
        "net.netfilter.nf_conntrack_max"}) @@ All("2097152", {"fs.file-max"}) @@ All("524288", {"fs.inotify.max_user_watches"}) @@
        All("1024", {"fs.inotify.max_user_instances"}) @@ All("65536", {"fs.inotify.max_queued_events"}) @@ All("262144", {"vm.max_map_count",
        "net.netfilter.nf_conntrack_buckets"}) @@ All("32768", {"net.core.somaxconn"}) @@
        All("86400", {"net.netfilter.nf_conntrack_tcp_timeout_established"}) @@ All("30", {"net.netfilter.nf_conntrack_tcp_timeout_time_wait"}) @@
        All("3000", {"kernel.sched_cfs_bandwidth_slice_us"})

DatabaseHost ==
    All("1", {"vm.swappiness"}) @@ All("15", {"vm.dirty_ratio"}) @@ All("5", {"vm.dirty_background_ratio"}) @@
        All("500", {"vm.dirty_expire_centisecs"}) @@ All("100", {"vm.dirty_writeback_centisecs"}) @@ All("2", {"vm.overcommit_memory"}) @@
        All("80", {"vm.overcommit_ratio"}) @@ All("50", {"vm.vfs_cache_pressure"}) @@ All("262144", {"vm.max_map_count"}) @@
        All("0", {"vm.zone_reclaim_mode", "kernel.numa_balancing", "net.ipv4.tcp_slow_start_after_idle"}) @@ All("1048576", {"fs.aio-max-nr",
        "fs.nr_open"}) @@ All("2097152", {"fs.file-max"}) @@ All("300", {"net.ipv4.tcp_keepalive_time"})

-----------------------------------------------------------------------------
(* .rdp files.                                                             *)

\* Connection.
RdpConnection ==
    TextOptions("-", {"alternate full address", "loadbalanceinfo", "kdcproxyname", "eventloguploadaddress"})
        \cup Switches("0", "-", "-", {"connect to console", "administrative session", "disableconnectionsharing", "targetisaadjoined"})
        \cup {Number("server port", 3389, Unset, 1, 65535)}

\* Authentication and gateway.
RdpAuthentication ==
    TextOptions("-", {"username", "domain", "gatewayhostname"}) \cup Switches("1", "1", "1", {"enablecredsspsupport"})
        \cup Switches("1", "1", "-", {"negotiate security layer"}) \cup Switches("0", "-", "-", {"enablerdsaadauth", "remotecredentialguard"})
        \cup Switches("0", "1", "-", {"prompt for credentials", "enablerestrictedadminmode"}) \cup Switches("1", "-", "-", {"promptcredentialonce"})
        \cup {Choice("authentication level", "2", "1", "-", {"0", "1", "2", "3"}), Choice("gatewayusagemethod", "0", "-", "-", {"0", "1", "2", "3"}),
        Choice("gatewaycredentialssource", "4", "-", "-", {"0", "1", "3", "4", "5"}), Choice("gatewayprofileusagemethod", "0", "-", "-", {"0", "1"})}

\* Authentication and gateway: brokering.
RdpBroker ==
    {Number("gatewaybrokeringtype", 0, Unset, 0, 1)}

\* Display.
RdpDisplay ==
    TextOptions("-", {"selectedmonitors", "winposstr", "full screen title"}) \cup Switches("0", "-", "1", {"use multimon"})
        \cup Switches("0", "-", "-", {"maximizetocurrentdisplays", "singlemoninwindowedmode", "smart sizing", "span monitors"})
        \cup Switches("1", "-", "1", {"dynamic resolution"}) \cup {Choice("screen mode id", "2", "-", "-", {"1", "2"}),
        Number("desktopwidth", Unset, Unset, 200, 8192), Number("desktopheight", Unset, Unset, 200, 8192),
        Choice("desktopscalefactor", "100", "-", "-", {"100", "125", "150", "175", "200", "250", "300", "400", "500"}),
        Choice("session bpp", "32", "16", "32", {"8", "15", "16", "24", "32"})}

\* Display: the connection bar.
RdpBar ==
    Switches("1", "-", "-", {"displayconnectionbar", "pinconnectionbar"})

\* Local resources and devices.
RdpDevices ==
    TextOptions("-", {"devicestoredirect", "usbdevicestoredirect"}) \cup Switches("1", "0", "1", {"redirectclipboard"})
        \cup Switches("1", "0", "-", {"redirectprinters"}) \cup Switches("0", "0", "-", {"redirectcomports", "redirectposdevices", "redirectlocation",
        "redirectunsupporteddevices"}) \cup Switches("1", "-", "-", {"redirectsmartcards", "redirectwebauthn", "redirectdirectx"})
        \cup {Text("drivestoredirect", "-", ""), Text("camerastoredirect", "-", ""), Choice("keyboardhook", "2", "-", "-", {"0", "1", "2"})}

\* Audio.
RdpAudio ==
    Switches("0", "0", "-", {"audiocapturemode"}) \cup {Choice("audiomode", "0", "2", "-", {"0", "1", "2"}),
        Choice("audioqualitymode", "0", "-", "-", {"0", "1", "2"})}

\* Experience and performance.
RdpExperience ==
    Switches("1", "-", "-", {"networkautodetect", "bandwidthautodetect", "disable full window drag", "disable menu anims"})
        \cup Switches("1", "-", "1", {"compression", "videoplaybackmode", "allow font smoothing", "bitmapcachepersistenable"})
        \cup Switches("0", "-", "-", {"disable wallpaper", "allow desktop composition", "disable themes", "disable cursor setting"})
        \cup {Choice("connection type", "7", "-", "6", {"1", "2", "3", "4", "5", "6", "7"})}

\* RemoteApp.
RdpRemoteApp ==
    TextOptions("-", {"remoteapplicationname", "remoteapplicationprogram", "remoteapplicationcmdline", "remoteapplicationfile", "remoteapplicationicon"})
        \cup Switches("0", "-", "-", {"remoteapplicationmode", "disableremoteappcapscheck"})
        \cup Switches("1", "-", "-", {"remoteapplicationexpandcmdline", "remoteapplicationexpandworkingdir"})

\* Session behaviour.
RdpSession ==
    TextOptions("-", {"alternate shell", "shell working directory"}) \cup Switches("1", "-", "1", {"autoreconnection enabled"})
        \cup Switches("0", "-", "-", {"prompt for credentials on client"}) \cup {Number("autoreconnect max retries", 20, Unset, 0, 200),
        Number("bitmapcachesize", Unset, Unset, 0, 32768)}

Rdp == RdpConnection \cup RdpAuthentication \cup RdpBroker \cup RdpDisplay \cup RdpBar \cup RdpDevices \cup RdpAudio
       \cup RdpExperience \cup RdpRemoteApp \cup RdpSession

-----------------------------------------------------------------------------
(* Zabbix.                                                                 *)

\* Server: database and network.
ZabbixServerNetwork ==
    TextOptions("text", {"DBHost", "DBName", "DBUser", "DBPort", "ListenPort"}) \cup TextOptions("", {"DBPassword", "ListenIP", "SourceIP"})

\* Server: workers, caches, housekeeping.
ZabbixServerLoad ==
    TextOptions("text", {"StartPollers", "StartTrappers", "StartPingers", "StartDBSyncers", "StartDiscoverers", "StartHTTPPollers", "CacheSize",
        "HistoryCacheSize", "HistoryIndexCacheSize", "TrendCacheSize", "ValueCacheSize", "HousekeepingFrequency", "MaxHousekeeperDelete"})

\* Server: timeouts, logging, the process.
ZabbixServerProcess ==
    TextOptions("text", {"Timeout", "TrapperTimeout", "LogFile", "LogFileSize", "PidFile", "SocketDir"}) \cup Switches("0", "-", "-", {"AllowRoot"})
        \cup {Choice("LogType", "file", "-", "-", {"file", "system", "console"}), Choice("DebugLevel", "3", "-", "-", {"0", "1", "2", "3", "4", "5"})}

\* Agent: network, host, workers, checks, buffers.
ZabbixAgentNetwork ==
    TextOptions("text", {"Server", "ListenPort", "StartAgents", "RefreshActiveChecks", "HeartbeatFrequency", "BufferSend", "BufferSize"})
        \cup TextOptions("", {"ServerActive", "ListenIP", "SourceIP", "Hostname", "HostMetadata"})

\* Agent: timeouts, logging, security, the process.
ZabbixAgentProcess ==
    TextOptions("text", {"Timeout", "LogFile", "LogFileSize", "DenyKey", "PidFile", "User"}) \cup TextOptions("", {"AllowKey"})
        \cup Switches("0", "-", "-", {"UnsafeUserParameters", "AllowRoot"}) \cup {Choice("LogType", "file", "-", "-", {"file", "syslog", "eventlog"}),
        Choice("DebugLevel", "3", "-", "-", {"0", "1", "2", "3", "4", "5"})}

ZabbixServer == ZabbixServerNetwork \cup ZabbixServerLoad \cup ZabbixServerProcess
ZabbixAgent == ZabbixAgentNetwork \cup ZabbixAgentProcess

-----------------------------------------------------------------------------
(* OpenSSH.                                                                *)

\* Client: connection.
SshClientConnection ==
    TextOptions("-", {"HostName", "User", "ProxyJump", "ProxyCommand"}) \cup Switches("yes", "-", "-", {"TCPKeepAlive"})
        \cup Switches("no", "no", "-", {"Compression"}) \cup {Number("Port", 22, Unset, 1, 65535), Choice("AddressFamily", "any", "-", "-", {"any",
        "inet", "inet6"}), Number("ConnectTimeout", Unset, Unset, 1, 86400), Number("ConnectionAttempts", 1, Unset, 1, 1000),
        Number("ServerAliveInterval", 0, 60, 0, 86400), Number("ServerAliveCountMax", 3, 3, 1, 1000), Choice("RequestTTY", "auto", "-", "-", {"no",
        "yes", "force", "auto"})}

\* Client: authentication and the keys of hosts.
SshClientAuthentication ==
    TextOptions("-", {"IdentityFile", "CertificateFile"}) \cup TextOptions("text", {"UserKnownHostsFile"}) \cup Switches("no", "yes", "-", {"IdentitiesOnly",
        "HashKnownHosts"}) \cup {Choice("AddKeysToAgent", "no", "yes", "-", {"no", "yes", "ask", "confirm"}),
        Choice("PubkeyAuthentication", "yes", "yes", "-", {"yes", "no", "unbound", "host-bound"}), Text("PreferredAuthentications", "text", "text"),
        Choice("StrictHostKeyChecking", "ask", "accept-new", "-", {"yes", "accept-new", "ask", "no", "off"}),
        Choice("VerifyHostKeyDNS", "no", "-", "-", {"yes", "no", "ask"}), Choice("UpdateHostKeys", "yes", "yes", "-", {"yes", "no", "ask"})}

KbdForgotten ==  \* mutant: the hardened settings leave keyboard-interactive authentication on
    Switches("yes", "no", "-", {"PasswordAuthentication"}) \cup Switches("yes", "-", "-", {"KbdInteractiveAuthentication"})
        \cup Switches("no", "no", "-", {"GSSAPIAuthentication"})
\* Both: authentication.
SshBothAuthentication ==
    Switches("yes", "no", "-", {"PasswordAuthentication", "KbdInteractiveAuthentication"}) \cup Switches("no", "no", "-", {"GSSAPIAuthentication"})

\* Both: cryptography.
SshCryptography ==
    {Text("HostKeyAlgorithms", "-", "text"), Text("KexAlgorithms", "-", "text"), Text("Ciphers", "-", "text"), Text("MACs", "-", "text"),
        Text("PubkeyAcceptedAlgorithms", "-", "text"), Text("CASignatureAlgorithms", "-", "text"), Number("RequiredRSASize", 1024, 3072, 1024, 16384)}

\* Client: forwarding, multiplexing, diagnostics.
SshClientForwarding ==
    TextOptions("-", {"ControlPath"}) \cup TextOptions("text", {"ControlPersist"}) \cup Switches("no", "no", "-", {"ForwardAgent", "ForwardX11",
        "ForwardX11Trusted", "PermitLocalCommand"}) \cup Switches("no", "-", "-", {"ExitOnForwardFailure"})
        \cup {Choice("ControlMaster", "no", "-", "-", {"no", "yes", "ask", "auto", "autoask"}), Choice("LogLevel", "INFO", "-", "-", {"QUIET",
        "FATAL", "ERROR", "INFO", "VERBOSE", "DEBUG", "DEBUG1", "DEBUG2", "DEBUG3"})}

\* Server: network.
SshServerNetwork ==
    TextOptions("-", {"ListenAddress", "HostKey"}) \cup {Number("Port", 22, Unset, 1, 65535), Choice("AddressFamily", "any", "-", "-", {"any", "inet",
        "inet6"})}

\* Server: authentication.
SshServerAuthentication ==
    TextOptions("-", {"TrustedUserCAKeys"}) \cup TextOptions("text", {"AuthorizedKeysFile"}) \cup Switches("yes", "yes", "-", {"PubkeyAuthentication",
        "StrictModes"}) \cup Switches("no", "no", "-", {"PermitEmptyPasswords", "HostbasedAuthentication"})
        \cup Switches("no", "yes", "-", {"UsePAM"}) \cup {Choice("PermitRootLogin", "prohibit-password", "no", "-", {"yes", "prohibit-password",
        "forced-commands-only", "no"}), Choice("IgnoreRhosts", "yes", "yes", "-", {"yes", "shosts-only", "no"}),
        Text("AuthenticationMethods", "text", "text"), Number("MaxAuthTries", 6, 3, 1, 100), Number("LoginGraceTime", 120, 30, 0, 3600)}

\* Server: access control, forwarding, features.
SshServerFeatures ==
    TextOptions("-", {"AllowUsers", "AllowGroups", "DenyUsers", "DenyGroups", "Banner"}) \cup Switches("no", "no", "-", {"X11Forwarding",
        "PermitUserEnvironment"}) \cup Switches("yes", "no", "-", {"AllowAgentForwarding"}) \cup Switches("yes", "-", "-", {"PrintMotd"})
        \cup {Choice("AllowTcpForwarding", "yes", "no", "-", {"yes", "all", "no", "local", "remote"}), Choice("GatewayPorts", "no", "no", "-", {"no",
        "yes", "clientspecified"}), Choice("PermitTunnel", "no", "no", "-", {"no", "yes", "point-to-point", "ethernet"}),
        Choice("Compression", "yes", "no", "-", {"yes", "delayed", "no"}), Text("Subsystem", "-", "text")}

\* Server: sessions, limits, logging.
SshServerSessions ==
    TextOptions("-", {"PerSourcePenalties"}) \cup TextOptions("text", {"PerSourceMaxStartups"}) \cup Switches("yes", "-", "-", {"TCPKeepAlive"})
        \cup {Number("MaxSessions", 10, 4, 1, 1000), Text("MaxStartups", "text", "text"), Number("ClientAliveInterval", 0, 300, 0, 86400),
        Number("ClientAliveCountMax", 3, 2, 1, 1000), Choice("LogLevel", "INFO", "VERBOSE", "-", {"QUIET", "FATAL", "ERROR", "INFO", "VERBOSE",
        "DEBUG", "DEBUG1", "DEBUG2", "DEBUG3"}), Choice("SyslogFacility", "AUTH", "-", "-", {"AUTH", "AUTHPRIV", "DAEMON", "USER", "LOCAL0", "LOCAL1",
        "LOCAL2", "LOCAL3", "LOCAL4", "LOCAL5", "LOCAL6", "LOCAL7"})}

SshClient == SshClientConnection \cup SshClientAuthentication \cup SshBothAuthentication \cup SshCryptography \cup SshClientForwarding
SshServer == SshServerNetwork \cup SshBothAuthentication \cup SshServerAuthentication \cup SshCryptography \cup SshServerFeatures
             \cup SshServerSessions
=============================================================================
