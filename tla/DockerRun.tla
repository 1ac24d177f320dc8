----------------------------- MODULE DockerRun -----------------------------
(***************************************************************************)
(* The converter of a `docker run` command into a Compose service: the     *)
(* shell words, the flags in their spellings, the service they make.       *)
(*                                                                         *)
(* A text is a sequence of pieces: characters for the tokenizer, and for   *)
(* the parser "-", "--", "=", ":", "/", names and values; "$" stands for    *)
(* the other characters a backslash escapes.                               *)
(***************************************************************************)
EXTENDS Integers, SequencesExt

Refused(why, p) == [ok |-> FALSE, why |-> why, warnings |-> p.warnings, notes |-> p.notes]

-----------------------------------------------------------------------------
(* Shell words.                                                            *)

Blank == {" ", "\t", "\n", "\r"}
\* The double quote and the backslash are written as names.
ShellSpecial == Blank \cup {"'", "dquote", "$", "bslash"}
Letter(s, c) == [s EXCEPT !.current = Append(@, c), !.has = TRUE]
EndNonEmpty(s) ==  \* mutant: a quoted empty word is lost
    IF s.current # <<>> THEN [s EXCEPT !.tokens = Append(@, s.current), !.current = <<>>, !.has = FALSE] ELSE s
EndWord(s) == IF s.has THEN [s EXCEPT !.tokens = Append(@, s.current), !.current = <<>>, !.has = FALSE] ELSE s
Scan(s, c) ==
    CASE s.mode = "escape" ->
           (CASE c = "\n" -> [s EXCEPT !.mode = "plain"]
              [] c = "\r" -> [s EXCEPT !.mode = "return"]
              [] OTHER -> [(IF c \in ShellSpecial THEN Letter(s, c) ELSE Letter(Letter(s, "bslash"), c)) EXCEPT !.mode = "plain"])
      [] s.mode = "single" -> IF c = "'" THEN [s EXCEPT !.mode = "plain"] ELSE Letter(s, c)
      [] s.mode = "double" ->
           (CASE c = "dquote" -> [s EXCEPT !.mode = "plain"]
              [] c = "bslash" -> [s EXCEPT !.mode = "inDouble"]
              [] OTHER -> Letter(s, c))
      [] s.mode = "inDouble" ->
           (CASE c \in {"dquote", "bslash", "$"} -> [Letter(s, c) EXCEPT !.mode = "double"]
              [] c = "\n" -> [s EXCEPT !.mode = "double"]
              [] OTHER -> [Letter(Letter(s, "bslash"), c) EXCEPT !.mode = "double"])
      [] s.mode = "return" /\ c = "\n" -> [s EXCEPT !.mode = "plain"]
      [] OTHER ->
            LET plain == [s EXCEPT !.mode = "plain"] IN
           (CASE c = "bslash" -> [s EXCEPT !.mode = "escape"]
              [] c = "'" -> [s EXCEPT !.mode = "single", !.has = TRUE]
              [] c = "dquote" -> [s EXCEPT !.mode = "double", !.has = TRUE]
              [] c \in Blank -> EndWord(plain)
              [] OTHER -> Letter(plain, c))
Tokenize(text) ==
    LET s == FoldLeft(Scan, [tokens |-> <<>>, current |-> <<>>, has |-> FALSE, mode |-> "plain"], text)
    IN  IF s.mode \in {"single", "double", "inDouble"} THEN [ok |-> FALSE, tokens |-> <<>>] ELSE [ok |-> TRUE, tokens |-> EndWord(s).tokens]

-----------------------------------------------------------------------------
(* The flags: what each sets.                                              *)

ShortAliases ==
    "d" :> "detach" @@ "i" :> "interactive" @@ "t" :> "tty" @@ "p" :> "publish" @@ "P" :> "publish-all" @@ "v" :> "volume" @@ "e" :> "env"
    @@ "w" :> "workdir" @@ "u" :> "user" @@ "h" :> "hostname" @@ "l" :> "label" @@ "m" :> "memory" @@ "c" :> "cpu-shares" @@ "a" :> "attach"
SwitchOf ==
    "init" :> "init" @@ "read-only" :> "read_only" @@ "privileged" :> "privileged" @@ "oom-kill-disable" :> "oom_kill_disable"
    @@ "interactive" :> "stdin_open" @@ "tty" :> "tty"
FieldOf ==
    "name" :> "container_name" @@ "hostname" :> "hostname" @@ "domainname" :> "domainname" @@ "user" :> "user" @@ "workdir" :> "working_dir"
    @@ "entrypoint" :> "entrypoint" @@ "mac-address" :> "mac_address" @@ "restart" :> "restart" @@ "stop-signal" :> "stop_signal"
    @@ "stop-timeout" :> "stop_grace_period" @@ "userns" :> "userns_mode" @@ "pid" :> "pid" @@ "ipc" :> "ipc" @@ "uts" :> "uts"
    @@ "cgroup-parent" :> "cgroup_parent" @@ "cgroupns" :> "cgroup"
ResourceOf ==
    "memory" :> "mem_limit" @@ "memory-reservation" :> "mem_reservation" @@ "memory-swap" :> "memswap_limit" @@ "memory-swappiness" :> "mem_swappiness"
    @@ "cpus" :> "cpus" @@ "cpu-shares" :> "cpu_shares" @@ "cpuset-cpus" :> "cpuset" @@ "pids-limit" :> "pids_limit" @@ "oom-score-adj" :> "oom_score_adj"
    @@ "shm-size" :> "shm_size" @@ "log-driver" :> "driver" @@ "platform" :> "platform" @@ "runtime" :> "runtime"
    @@ "isolation" :> "isolation" @@ "pull" :> "pull_policy"
HealthOf ==
    "health-cmd" :> "test" @@ "health-interval" :> "interval" @@ "health-timeout" :> "timeout" @@ "health-retries" :> "retries"
    @@ "health-start-period" :> "start_period" @@ "health-start-interval" :> "start_interval"
ScalarOf == FieldOf @@ ResourceOf @@ HealthOf
ListOf ==
    "expose" :> "expose" @@ "tmpfs" :> "tmpfs" @@ "volumes-from" :> "volumes_from" @@ "device" :> "devices" @@ "env" :> "environment"
    @@ "env-file" :> "env_file" @@ "label" :> "labels" @@ "add-host" :> "extra_hosts" @@ "dns" :> "dns" @@ "dns-search" :> "dns_search"
    @@ "dns-option" :> "dns_opt" @@ "dns-opt" :> "dns_opt" @@ "link" :> "links" @@ "cap-add" :> "cap_add" @@ "cap-drop" :> "cap_drop"
    @@ "security-opt" :> "security_opt" @@ "sysctl" :> "sysctls" @@ "group-add" :> "group_add" @@ "log-opt" :> "options" @@ "storage-opt" :> "storage_opt"
\* Known to take a value, and not translated.
Untranslated ==
    {"mount", "label-file", "network-alias", "ip", "ip6", "link-local-ip", "gpus", "annotation", "attach", "blkio-weight", "blkio-weight-device",
     "cidfile", "cpu-period", "cpu-quota", "cpu-rt-period", "cpu-rt-runtime", "cpuset-mems", "detach-keys", "device-cgroup-rule", "device-read-bps",
     "device-read-iops", "device-write-bps", "device-write-iops", "kernel-memory", "ulimit", "volume-driver"}
ValueFlags == DOMAIN ScalarOf \cup DOMAIN ListOf \cup {"publish", "volume", "network", "net"} \cup Untranslated
BooleanFlags == DOMAIN SwitchOf \cup {"detach", "rm", "publish-all", "no-healthcheck", "disable-content-trust", "help", "quiet", "sig-proxy", "use-api-socket"}

NewParsed == [fields |-> <<>>, lists |-> [l \in Range(ListOf) \cup {"ports", "volumes", "networks"} |-> <<>>], named |-> <<>>,
              mode |-> <<>>, noHealthcheck |-> FALSE, warnings |-> <<>>, notes |-> <<>>]
Warn(p, flag) == [p EXCEPT !.warnings = Append(@, flag)]
Add(p, list, value) == [p EXCEPT !.lists[list] = Append(@, value)]
SetField(p, key, value) == [p EXCEPT !.fields = key :> value @@ @]

Split(text, at) == FoldLeft(LAMBDA parts, c : IF c = at THEN Append(parts, <<>>) ELSE [parts EXCEPT ![Len(parts)] = Append(@, c)], <<<<>>>>, text)
NormalisePort(p, value) ==
    LET body == Split(value, "/")[1]
        fields == SelectSeq(Split(body, ":"), LAMBDA f : f # <<>>)
    IN  Add(IF value = <<>> \/ Len(fields) > 3 THEN Warn(p, "publish") ELSE p, "ports", value)
IsNamedVolume(source) == source # <<>> /\ source[1] \notin {"/", ".", "~", "$", "-"} /\ "/" \notin Range(source)
ApplyVolume(p, value) ==
    IF value = <<>> THEN Warn(p, "volume")
    ELSE LET parts == Split(value, ":")
             kept == Add(p, "volumes", value)
         IN  IF Len(parts) >= 2 /\ IsNamedVolume(parts[1]) THEN [kept EXCEPT !.named = Append(@, parts[1])] ELSE kept
NetworkModes == {<<"host">>, <<"none">>, <<"bridge">>, <<"default">>}
ApplyNetwork(p, value) ==
    CASE value = <<>> -> p
      [] value # <<>> /\ (value \in NetworkModes \/ IsPrefix(<<"container", ":">>, value)) -> [p EXCEPT !.mode = value]
      [] OTHER -> Add(p, "networks", value)

\* "Given" is the value; a switch without one is on.
Apply(p, flag, given) ==
    CASE flag \in DOMAIN SwitchOf -> SetField(p, SwitchOf[flag], IF given = <<"false">> THEN <<"false">> ELSE <<"true">>)
      [] flag \in DOMAIN ScalarOf -> SetField(p, ScalarOf[flag], IF flag = "stop-timeout" THEN Append(given, "s") ELSE given)
      [] flag \in DOMAIN ListOf -> Add(p, ListOf[flag], given)
      [] flag = "publish" -> NormalisePort(p, given)
      [] flag = "volume" -> ApplyVolume(p, given)
      [] flag \in {"network", "net"} -> ApplyNetwork(p, given)
      [] flag = "no-healthcheck" -> [p EXCEPT !.noHealthcheck = TRUE]
      [] flag \in {"detach", "rm"} -> [p EXCEPT !.notes = Append(@, flag)]
      [] OTHER -> Warn(p, flag)

-----------------------------------------------------------------------------
(* The command line.                                                       *)

CommandPrefixes == {<<"sudo">>, <<"docker">>, <<"podman">>, <<"container">>, <<"run">>, <<"create">>}
StripCommandPrefix(tokens) ==
    LET n == Len(FoldLeft(LAMBDA kept, t : IF kept = <<>> /\ t \in CommandPrefixes THEN kept ELSE Append(kept, t), <<>>, tokens))
    IN  SubSeq(tokens, Len(tokens) - n + 1, Len(tokens))

\* A value flag without its value awaits the next token, whatever that is.
Await(s, flag) == [s EXCEPT !.awaiting = flag]
LongFlag(s, body) ==
    LET eq == SelectInSeq(body, LAMBDA c : c = "=") IN
    CASE eq > 0 -> [s EXCEPT !.p = Apply(@, body[1], SubSeq(body, eq + 1, Len(body)))]
      [] eq = 0 /\ body[1] \in ValueFlags -> Await(s, body[1])
      [] eq = 0 /\ body[1] \notin ValueFlags -> [s EXCEPT !.p = IF body[1] \in BooleanFlags THEN Apply(@, body[1], <<>>) ELSE Warn(@, body[1])]
AwaitsAlways(s, letters) ==  \* mutant: the value is the next token, whatever follows the letter
    LET valued == SelectInSeq(letters, LAMBDA l : l \in DOMAIN ShortAliases /\ ShortAliases[l] \in ValueFlags) IN
    IF valued = 0 THEN FoldLeft(LAMBDA t, l : [t EXCEPT !.p = IF l \in DOMAIN ShortAliases THEN Apply(@, ShortAliases[l], <<>>) ELSE Warn(@, l)], s, letters)
    ELSE Await(s, ShortAliases[letters[valued]])
\* A cluster of letters, up to the one that takes a value: the rest of the cluster, or the next token.
Cluster(s, letters) ==
    FoldLeft(LAMBDA t, k :
        LET letter == letters[k]
            flag == ShortAliases[letter]
            rest == SubSeq(letters, k + 1, Len(letters))
        IN  CASE t.taken -> t
              [] ~t.taken /\ letter \notin DOMAIN ShortAliases -> [t EXCEPT !.s.p = Warn(@, letter)]
              [] ~t.taken /\ letter \in DOMAIN ShortAliases ->
                    IF flag \notin ValueFlags THEN [t EXCEPT !.s.p = Apply(@, flag, <<>>)]
                    ELSE [taken |-> TRUE, s |-> IF rest # <<>> THEN [t.s EXCEPT !.p = Apply(@, flag, rest)] ELSE Await(t.s, flag)],
        [s |-> s, taken |-> FALSE], [k \in 1..Len(letters) |-> k]).s
ReadToken(s, token) ==
    CASE s.stopped -> [s EXCEPT !.rest = Append(@, token)]
      [] ~s.stopped /\ s.awaiting # "" -> [s EXCEPT !.p = Apply(@, s.awaiting, token), !.awaiting = ""]
      [] OTHER ->
           (CASE token = <<"--">> -> [s EXCEPT !.stopped = TRUE]
              [] token # <<"--">> /\ (token = <<"-">> \/ token = <<>> \/ token[1] \notin {"-", "--"}) -> [s EXCEPT !.stopped = TRUE, !.rest = <<token>>]
              [] Len(token) > 1 /\ token[1] = "--" -> LongFlag(s, Tail(token))
              [] Len(token) > 1 /\ token[1] = "-" -> Cluster(s, Tail(token)))
ParseFlags(tokens) ==
    LET s == FoldLeft(ReadToken, [p |-> NewParsed, awaiting |-> "", stopped |-> FALSE, rest |-> <<>>], tokens)
    IN  IF s.awaiting = "" THEN s ELSE [s EXCEPT !.p = Warn(@, s.awaiting)]

-----------------------------------------------------------------------------
(* The service.                                                            *)

Layout == <<
    "container_name", "hostname", "domainname", "user", "working_dir", "entrypoint", "environment", "env_file", "ports", "expose",
    "volumes", "tmpfs", "volumes_from", "devices", "networks", "links", "dns", "dns_search", "dns_opt", "extra_hosts", "restart", "labels",
    "cap_add", "cap_drop", "security_opt", "sysctls", "group_add", "storage_opt", "privileged", "read_only", "init", "oom_kill_disable",
    "shm_size", "pid", "ipc", "uts", "userns_mode", "cgroup", "cgroup_parent", "stop_signal", "stop_grace_period", "mac_address", "platform",
    "runtime", "isolation", "pull_policy", "mem_limit", "mem_reservation", "memswap_limit", "mem_swappiness", "cpuset", "cpus", "cpu_shares",
    "pids_limit", "oom_score_adj", "stdin_open", "tty" >>
\* Options are a map: the last of two with one name stays, where the first was.
SplitKeyValue(entry) == [key |-> Split(entry, "=")[1], value |-> LET eq == SelectInSeq(entry, LAMBDA c : c = "=") IN IF eq = 0 THEN <<>> ELSE SubSeq(entry, eq + 1, Len(entry))]
OptionMap(entries) ==
    FoldLeft(LAMBDA m, e : LET o == SplitKeyValue(e)
                               at == SelectInSeq(m, LAMBDA x : x.key = o.key)
                           IN  IF at = 0 THEN Append(m, o) ELSE [m EXCEPT ![at] = o], <<>>, entries)
Logging(p) == [driver |-> IF "driver" \in DOMAIN p.fields THEN p.fields["driver"] ELSE <<>>, options |-> OptionMap(p.lists["options"])]
BuildHealthcheck(p) ==
    IF p.noHealthcheck THEN "disable" :> <<"true">>
    ELSE [k \in Range(HealthOf) \cap DOMAIN p.fields |-> p.fields[k]]
ValueOf(p, key) ==
    CASE key \in DOMAIN p.fields -> <<p.fields[key]>>
      [] key \in DOMAIN p.lists /\ key # "storage_opt" -> p.lists[key]
      [] key \in DOMAIN p.lists /\ key = "storage_opt" -> OptionMap(p.lists[key])
      [] OTHER -> <<>>
\* A switch of the console is written only when it is on.
EmitYaml(p, image, command) ==
    LET off == {k \in {"stdin_open", "tty"} \cap DOMAIN p.fields : p.fields[k] = <<"false">>}
        shown == SelectSeq(Layout, LAMBDA key : key \notin off /\ ValueOf(p, key) # <<>>)
    IN  [image |-> image, command |-> command, service |-> [k \in DOMAIN shown |-> [key |-> shown[k], value |-> ValueOf(p, shown[k])]],
         mode |-> p.mode, logging |-> Logging(p), healthcheck |-> BuildHealthcheck(p),
         volumes |-> p.named, networks |-> p.lists["networks"]]

Sanitise(text) ==
    LET clean == [k \in DOMAIN text |-> CASE text[k] = "A" -> "a" [] text[k] \in {"a", "_", "."} -> text[k] [] OTHER -> "-"]
        kept == {k \in DOMAIN clean : clean[k] # "-"}
    IN  IF kept = {} THEN <<>> ELSE SubSeq(clean, Min(kept), Max(kept))
ServiceName(name, image) ==
    LET untagged == Split(Last(Split(Split(image, "@")[1], "/")), ":")[1]
    IN  IF name # <<>> THEN Sanitise(name) ELSE IF Sanitise(untagged) = <<>> THEN <<"app">> ELSE Sanitise(untagged)

Execute(tokens) ==
    LET words == StripCommandPrefix(tokens)
        s == ParseFlags(words)
    IN  CASE words = <<>> -> Refused("no command", NewParsed)
          [] words # <<>> /\ s.rest = <<>> -> Refused("no image", s.p)
          [] OTHER -> [ok |-> TRUE, yaml |-> EmitYaml(s.p, Head(s.rest), Tail(s.rest)), warnings |-> s.p.warnings, notes |-> s.p.notes]
=============================================================================
