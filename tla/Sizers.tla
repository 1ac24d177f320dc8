------------------------------- MODULE Sizers -------------------------------
(***************************************************************************)
(* The capacity calculators of core/tuning.  Each takes a record of        *)
(* numbers and refuses it (Failed) or answers with a record; texts built   *)
(* from the answer are reduced to the numbers they carry.  A fraction of   *)
(* the code is a number of tenths or hundredths here and its floating      *)
(* point division an exact one.                                            *)
(***************************************************************************)
EXTENDS Integers, FiniteSets, SequencesExt

Failed == [ok |-> FALSE]
CeilDiv(a, b) == (a + b - 1) \div b
RoundDiv(a, b) == (2 * a + b) \div (2 * b)
Greatest(S) == CHOOSE n \in S : \A k \in S : k <= n
Smallest(S) == CHOOSE n \in S : \A k \in S : n <= k
Clamp(n, lo, hi) == IF n < lo THEN lo ELSE IF n > hi THEN hi ELSE n
Sum(s) == FoldLeft(+, 0, s)
Product(s) == FoldLeft(LAMBDA a, b : a * b, 1, s)

-----------------------------------------------------------------------------
(* zabbixSizer.ts: pools and caches from items and values per second.      *)

ZabbixLoad(i) == [items |-> i.hosts * i.itemsPerHost, interval |-> i.interval]
\* Values per second divided by unit, rounded up.
PerUnit(load, unit) == CeilDiv(load.items, load.interval * unit)
ZabbixPools(load, cores) ==
    LET pollers == Clamp(PerUnit(load, 100), 5, 1000)
    IN  [pollers |-> pollers, unreachable |-> Clamp(pollers \div 10, 1, 1000),
         preprocessors |-> Clamp(Greatest({PerUnit(load, 250), cores}), 16, 1000),
         trappers |-> Clamp(PerUnit(load, 500), 5, 1000), syncers |-> Clamp(PerUnit(load, 1000), 4, 100)]
ZabbixCaches(load) ==
    [cache |-> Clamp(CeilDiv(load.items, 10000) * 32, 32, 65536), history |-> Clamp(PerUnit(load, 1000) * 16, 16, 2048),
     index |-> Clamp(CeilDiv(load.items * 100, 1048576), 4, 2048),
     trend |-> Clamp(CeilDiv(load.items, 1000) * 4, 4, 2048), value |-> Clamp(CeilDiv(load.items, 1000) * 8, 8, 65536)]
ZabbixSizer(i) ==
    IF \E n \in {i.hosts, i.itemsPerHost, i.interval, i.history, i.trends, i.cores} : n <= 0 THEN Failed
    ELSE [ok |-> TRUE, pools |-> ZabbixPools(ZabbixLoad(i), i.cores), caches |-> ZabbixCaches(ZabbixLoad(i)),
          valuesKept |-> ((ZabbixLoad(i).items * 86400) \div i.interval) * i.history, trendRows |-> ZabbixLoad(i).items * 24 * i.trends]

-----------------------------------------------------------------------------
(* kafkaSizer.ts: brokers by disk, network and partitions.  Sizes are in   *)
(* the units of one broker's disk and network.                             *)

KafkaLoad(i) ==
    [storage |-> i.ingress * i.retention * i.rf, network |-> i.ingress * (i.rf + i.groups),
     partitions |-> Greatest({CeilDiv(i.ingress, i.perPartition), i.consumers, 1, 6})]
KafkaCarry(i, brokers) ==  \* mutant: replicas are not counted against the partitions of a broker
    Greatest({CeilDiv(KafkaLoad(i).storage, i.disk), CeilDiv(KafkaLoad(i).network, i.nic), CeilDiv(KafkaLoad(i).partitions, i.maxPartitions), brokers})
KafkaBrokers(i, brokers) ==
    Greatest({CeilDiv(KafkaLoad(i).storage, i.disk), CeilDiv(KafkaLoad(i).network, i.nic),
              CeilDiv(KafkaLoad(i).partitions * i.rf, i.maxPartitions), brokers})
KafkaSizer(i) ==
    IF (\E n \in {i.ingress, i.message, i.rf, i.retention, i.perPartition, i.disk} : n <= 0) \/ i.groups < 0 THEN Failed
    ELSE LET load == KafkaLoad(i)
             brokers == KafkaBrokers(i, Greatest({i.rf, 3}))
         IN  [ok |-> TRUE, load |-> load, brokers |-> brokers, replicas |-> CeilDiv(load.partitions * i.rf, brokers),
              warnings |-> {w \in {"small messages", "low replication", "uneven leaders", "idle brokers"} :
                            CASE w = "small messages" -> i.message < 100
                              [] w = "low replication" -> i.rf < 3
                              [] w = "uneven leaders" -> load.partitions >= brokers /\ load.partitions % brokers # 0
                              [] w = "idle brokers" -> load.partitions < brokers}]
\* The properties file names a minimum of in-sync replicas below the replication.
KafkaConfig(i) == [partitions |-> KafkaLoad(i).partitions, minInSync |-> Greatest({1, i.rf - 1})]

-----------------------------------------------------------------------------
(* queueing.ts.  A probability is a fraction <<n, d>>; the offered load is *)
(* a whole number of erlangs.                                              *)

Gcd(a, b) == Greatest({k \in 1..b : a % k = 0 /\ b % k = 0})
Fraction(n, d) == <<n \div Gcd(n, d), d \div Gcd(n, d)>>
LessThan(x, y) == x[1] * y[2] < y[1] * x[2]

FromOneServer(servers, load) == Fraction(load, servers + load)  \* mutant: the last step of the recurrence only
ErlangB(servers, load) ==
    LET b[n \in 0..servers] ==
            IF n = 0 THEN <<1, 1>> ELSE Fraction(load * b[n - 1][1], n * b[n - 1][2] + load * b[n - 1][1])
    IN  b[servers]
ErlangC(servers, load) ==
    IF load >= servers THEN <<1, 1>>
    ELSE LET b == ErlangB(servers, load)
         IN  Fraction(servers * b[1], servers * b[2] - load * (b[2] - b[1]))
\* An unstable queue has no waiting time.
AnalyzeQueue(load, servers) ==
    IF load <= 0 \/ servers < 1 THEN Failed
    ELSE IF load >= servers THEN [ok |-> TRUE, stable |-> FALSE, wait |-> <<1, 1>>]
    ELSE [ok |-> TRUE, stable |-> TRUE, wait |-> ErlangC(servers, load)]
ServersForUtilization(load, tenths) == Greatest({1, CeilDiv(10 * load, tenths)})
ServersForWaitProbability(load, most) ==
    CHOOSE c \in (load + 1)..(load + 100) :
        /\ ~LessThan(most, ErlangC(c, load))
        /\ \A k \in (load + 1)..(c - 1) : LessThan(most, ErlangC(k, load))

-----------------------------------------------------------------------------
(* connectionPoolSizer.ts.                                                 *)

PoolWanted(peak) == CeilDiv(12 * peak, 10)
Ceilings(i, available, pools) ==
    {Greatest({1, available \div pools})} \cup (IF i.cores > 0 THEN {2 * i.cores + i.spindles} ELSE {})
WantedAlways(i, available, pools) == Greatest({1, PoolWanted(i.peak)})  \* mutant: no ceiling
RecommendedPool(i, available, pools) ==
    Greatest({1, Smallest({PoolWanted(i.peak)} \cup Ceilings(i, available, pools))})
\* Direct pooling is judged by the pool entered, PgBouncer by the one recommended.
ConnectionPoolSizer(i) ==
    IF i.max <= 0 \/ i.reserved \notin 0..(i.max - 1) \/ i.instances < 1 \/ i.pool <= 0 \/ i.peak <= 0 THEN Failed
    ELSE LET available == i.max - i.reserved
             direct == i.mode = "direct"
             pools == IF direct THEN i.instances ELSE Greatest({1, i.pools})
             size == RecommendedPool(i, available, pools)
             demand == IF direct THEN i.instances * i.pool ELSE size * pools
         IN  [ok |-> TRUE, available |-> available, pools |-> pools, size |-> size, demand |-> demand, fits |-> demand <= available,
              clients |-> IF direct THEN 0 ELSE i.instances * i.pool,
              warnings |-> {w \in {"over", "too large", "too small", "no headroom", "session", "transaction"} :
                            CASE w = "over" -> demand > available
                              [] w = "too large" -> direct /\ i.pool > 2 * i.peak
                              [] w = "too small" -> direct /\ i.pool < i.peak
                              [] w = "no headroom" -> direct /\ demand <= available /\ 10 * (available - demand) < available
                              [] w = "session" -> i.mode = "session"
                              [] w = "transaction" -> i.mode = "transaction"}]
\* What the two config texts set.
PoolConfig(i, size) ==
    IF i.mode = "direct" THEN [most |-> size, idle |-> Greatest({1, CeilDiv(size, 2)})]
    ELSE [most |-> size, idle |-> Greatest({1, CeilDiv(size, 4)})]

-----------------------------------------------------------------------------
(* loadBalancerSizer.ts: workers by load, workers of an instance by memory *)
(* and cores, instances.                                                   *)

CpuWorkers(i) == CASE i.model = "process" -> 2 * i.cores + 1
                   [] i.model = "thread" -> Greatest({1, i.cores * (1 + i.waitRatio)})
                   [] i.model = "async" -> i.cores
RamWorkers(i) == Greatest({0, (i.ram - i.reserve) \div i.perWorker})
OneInstanceLess(i, needed, each) == needed \div each  \* mutant: the division is rounded down
Instances(i, needed, each) == Greatest({1, CeilDiv(needed, each)})
LoadBalancerSizer(i) ==
    IF (\E n \in {i.load, i.ram, i.cores, i.perWorker, i.tenths} : n <= 0) \/ i.tenths > 9 \/ RamWorkers(i) < 1 THEN Failed
    ELSE LET needed == ServersForUtilization(i.load, i.tenths)
             each == Smallest({RamWorkers(i), CpuWorkers(i)})
             instances == Instances(i, needed, each) + i.spare
         IN  [ok |-> TRUE, needed |-> needed, each |-> each, instances |-> instances,
              binding |-> IF RamWorkers(i) <= CpuWorkers(i) THEN "ram" ELSE "cpu",
              connections |-> Greatest({1024, CeilDiv((CeilDiv(i.load, instances) + 1) * 4, 256) * 256})]
\* nginx and haproxy list every instance, haproxy with its share of the connections.
BalancerConfig(i, result) ==
    [servers |-> 1..result.instances,
     maxconn |-> IF i.format = "nginx" THEN 0 ELSE CeilDiv(result.connections * i.cores, result.instances)]

-----------------------------------------------------------------------------
(* retryBudget.ts: a chain of hops, each with its timeout and retries.     *)

Attempts(hop) == 1 + hop.retries
Backoff(hop) == hop.base * (2^hop.retries - 1)
OneTimeout(hop) ==  \* mutant: only one of the retries times out
    Smallest({hop.retries, 1}) * hop.timeout + Smallest({hop.typical, hop.timeout}) + Backoff(hop)
HopWorstCase(hop) == hop.retries * hop.timeout + Smallest({hop.typical, hop.timeout}) + Backoff(hop)
WorstBelow(hops, k) == Sum([j \in 1..(Len(hops) - k) |-> HopWorstCase(hops[k + j])])
RetryBudget(budget, hops) ==
    IF budget <= 0 \/ hops = <<>> \/ \E k \in DOMAIN hops : hops[k].typical <= 0 \/ hops[k].timeout <= 0 \/ hops[k].retries < 0 \/ hops[k].base < 0
    THEN Failed
    ELSE [ok |-> TRUE, worst |-> WorstBelow(hops, 0), fits |-> WorstBelow(hops, 0) <= budget,
          amplification |-> Product([k \in DOMAIN hops |-> Attempts(hops[k])]),
          tight |-> {k \in 1..(Len(hops) - 1) : hops[k].timeout <= WorstBelow(hops, k)},
          greedy |-> {k \in DOMAIN hops : 100 * hops[k].timeout * Attempts(hops[k]) * Len(hops) > 105 * budget},
          timeouts |-> [k \in DOMAIN hops |-> Greatest({CeilDiv(3 * hops[k].typical, 2), budget \div (Len(hops) * Attempts(hops[k]))})]]
\* The text lists each hop and marks the tight ones.
RetrySummary(result) == [over |-> ~result.fits, marked |-> result.tight, risk |-> result.amplification > 4]

-----------------------------------------------------------------------------
(* availabilityCalculator.ts.  An availability is a number of tenths, what *)
(* is made of it a number of 1 / 10^n.                                     *)

BinomialCoefficient(n, k) ==
    IF k < 0 \/ k > n THEN 0 ELSE LET c[i \in 0..k] == IF i = 0 THEN 1 ELSE (c[i - 1] * (n - i + 1)) \div i IN c[k]
ExactlyK(a, total, required) == BinomialCoefficient(total, required) * a^required * (10 - a)^(total - required)  \* mutant: exactly as many as required
KOfNAvailability(a, total, required) ==
    Sum([j \in 1..(total - required + 1) |->
         LET i == required + j - 1 IN BinomialCoefficient(total, i) * a^i * (10 - a)^(total - i)])
InstanceAvailability(c) ==
    IF c.tenths # 0 THEN (IF c.tenths \in 1..10 THEN c.tenths ELSE 0)
    ELSE IF c.mtbf > 0 /\ c.mttr > 0 THEN (10 * c.mtbf) \div (c.mtbf + c.mttr) ELSE 0
\* One group of instances; a system multiplies what works (series) or what fails (parallel).
ComponentAvailability(c) ==
    IF InstanceAvailability(c) = 0 \/ ~(1 <= c.required /\ c.required <= c.total) THEN Failed
    ELSE [ok |-> TRUE, instance |-> InstanceAvailability(c), power |-> c.total,
          effective |-> KOfNAvailability(InstanceAvailability(c), c.total, c.required),
          oneMore |-> KOfNAvailability(InstanceAvailability(c), c.total + 1, c.required)]
SystemAvailability(effective, one, topology) ==
    IF topology = "series" THEN Product(effective)
    ELSE one^Len(effective) - Product([k \in DOMAIN effective |-> one - effective[k]])

-----------------------------------------------------------------------------
(* sloErrorBudget.ts, in hundredths of a percent; the three alerts.        *)

BurnSpecs == <<[severity |-> "page", share |-> 2, hours |-> 1], [severity |-> "page", share |-> 5, hours |-> 6],
               [severity |-> "ticket", share |-> 10, hours |-> 72]>>
SloErrorBudget(i) ==
    IF i.slo \notin 1..9999 \/ i.days <= 0 \/ i.success \notin 0..10000 THEN Failed
    ELSE [ok |-> TRUE, budget |-> 10000 - i.slo, minutes |-> (i.days * 1440 * (10000 - i.slo)) \div 10000,
          consumed |-> (100 * (10000 - i.success)) \div (10000 - i.slo),
          \* hundredths of the rate that spends the budget in the window
          burn |-> [k \in DOMAIN BurnSpecs |-> (BurnSpecs[k].share * i.days * 24) \div BurnSpecs[k].hours]]
\* The rule waits longer before it opens a ticket than before it pages.
PrometheusRule(result) == [k \in DOMAIN result.burn |->
    [threshold |-> result.burn[k] * result.budget, minutes |-> IF BurnSpecs[k].severity = "page" THEN 2 ELSE 15]]

-----------------------------------------------------------------------------
(* cephPgCalculator.ts.                                                    *)

NearestPower(n) == Smallest({2^k : k \in {k \in 0..20 : 2^k * 4 >= 3 * n}})  \* mutant: the nearest power, that may be below
NextPowerOfTwo(n) == Smallest({2^k : k \in {k \in 0..20 : 2^k >= n}})
CephPgCalculator(i) ==
    IF i.osds <= 0 \/ i.pools <= 0 \/ i.replication <= 0 THEN Failed
    ELSE [ok |-> TRUE, pgs |-> NextPowerOfTwo(CeilDiv(i.osds * i.target, i.replication * i.pools))]

-----------------------------------------------------------------------------
(* capacityRunway.ts, linear growth; Never is beyond every month.          *)

Never == 1000000
SolveFor(i, level) == IF i.usage >= level THEN 0 ELSE IF i.growth <= 0 THEN Never ELSE CeilDiv(level - i.usage, i.growth)
TriggerOnly(i) == SolveFor(i, (i.ceiling * (100 - i.headroom)) \div 100)  \* mutant: the lead time is forgotten
OrderByMonth(i) ==
    LET ceiling == SolveFor(i, i.ceiling)
        trigger == SolveFor(i, (i.ceiling * (100 - i.headroom)) \div 100)
    IN  Smallest({trigger, IF ceiling = Never THEN Never ELSE ceiling - i.lead})
Marks(months) == {m \in {0, 1, 3, 6, 9, 12, 18, 24} : m <= months} \cup {months}
CapacityRunway(i) ==
    IF i.usage < 0 \/ i.ceiling <= 0 \/ i.lead < 0 \/ i.headroom \notin 0..99 \/ i.months <= 0 THEN Failed
    ELSE [ok |-> TRUE, orderBy |-> OrderByMonth(i), actNow |-> OrderByMonth(i) <= 0,
          over |-> {m \in Marks(i.months) : i.usage + i.growth * m >= i.ceiling}]

-----------------------------------------------------------------------------
(* cloudRightSize.ts: the next common size for the load at the target.     *)

CommonSizes == {1, 2, 4, 8, 16, 32, 48, 64, 96, 128, 192, 256}
NextCommonSize(n) == IF n > 256 THEN CeilDiv(n, 64) * 64 ELSE Smallest({s \in CommonSizes : s >= n})
CloudRightSize(i) ==
    IF i.vcpu <= 0 \/ i.ram <= 0 \/ i.cpuP95 < 0 \/ i.ramP95 < 0 \/ i.target \notin 1..100 \/ i.price <= 0 \/ i.reserved \notin 0..99
    THEN Failed
    ELSE LET vcpu == NextCommonSize(CeilDiv(i.vcpu * i.cpuP95, i.target))
             ram == NextCommonSize(CeilDiv(i.ram * i.ramP95, i.target))
             cpuBound == vcpu * i.ram >= ram * i.vcpu
         IN  [ok |-> TRUE, vcpu |-> vcpu, ram |-> ram, binding |-> IF cpuBound THEN "cpu" ELSE "ram",
              \* the price grows with the dimension that grows most
              price |-> IF cpuBound THEN <<i.price * vcpu, i.vcpu>> ELSE <<i.price * ram, i.ram>>,
              breakEven |-> 100 - i.reserved]
\* Monthly cost of the fleet for a price <<n, d>>, in hundredths.
MonthlyCost(price, hours, instances, discount) == (price[1] * hours * instances * (100 - discount)) \div price[2]

-----------------------------------------------------------------------------
(* cacheSizer.ts.  The share of reads the hottest k of n entries take      *)
(* (zipfHitRatio) is a table: it grows with k and ends at 100.             *)

EntriesForTarget(hits, target) == Smallest({k \in DOMAIN hits : hits[k] >= target})
CacheSizer(i) ==
    IF Len(i.hits) < 1 \/ i.item <= 0 \/ i.overhead < 0 \/ i.target \notin 1..99 \/ i.reads < 0 THEN Failed
    ELSE LET entry == i.item + i.overhead
             memory == CeilDiv(12 * EntriesForTarget(i.hits, i.target) * entry, 10)
             resident == Smallest({Len(i.hits), (10 * memory) \div (12 * entry)})
         IN  [ok |-> TRUE, memory |-> memory, resident |-> resident, achieved |-> i.hits[resident],
              offloaded |-> i.reads * i.hits[resident], remaining |-> i.reads * (100 - i.hits[resident])]

-----------------------------------------------------------------------------
(* dbMemorySizer.ts, etcdSizer.ts and linuxSysctlTuner.ts.                 *)

DbMemorySizer(i) ==
    IF i.ram <= 0 \/ i.connections <= 0 \/ i.percent \notin 1..100 THEN Failed
    ELSE LET mb == (i.ram * 1024 * i.percent) \div 100
             shared == RoundDiv(mb, 4)
         IN  [ok |-> TRUE, mb |-> mb, shared |-> shared, cache |-> RoundDiv(3 * mb, 4),
              work |-> Greatest({1, (mb - shared) \div (4 * i.connections)}), pool |-> RoundDiv(3 * mb, 4)]

\* Sizes in units of one object; the wall of 8 GiB is given in that unit.
EtcdSizer(i) ==
    IF i.objects < 1 \/ i.size <= 0 \/ i.writes < 0 \/ i.hours <= 0 \/ i.frag < 10 \/ i.quota <= 0 THEN Failed
    ELSE LET live == i.objects * i.size
             history == i.writes * i.hours * 36 * i.size
             peak == ((live + history) * i.frag) \div 10
             interval == IF i.writes > 0 THEN Greatest({1, live \div (i.writes * 36 * i.size)}) ELSE Never
         IN  [ok |-> TRUE, peak |-> peak, defrag |-> interval,
              warnings |-> {w \in {"read-only", "little margin", "raise quota", "history", "defrag"} :
                            CASE w = "read-only" -> peak > i.wall
                              [] w = "little margin" -> peak <= i.wall /\ 100 * peak > 60 * i.wall
                              [] w = "raise quota" -> 100 * peak > 80 * i.quota
                              [] w = "history" -> history > 2 * live
                              [] w = "defrag" -> interval < 24}]

\* The ceiling of a buffer, in MiB, grows with the interface.
BufferCeiling(profile) == CASE profile = "1G" -> 8 [] profile = "10G" -> 32 [] profile = "100G" -> 128
LinuxSysctlTuner(i) ==
    IF i.backlog \notin 1024..65536 \/ i.memory \notin 1..1024 THEN Failed
    ELSE LET buffer == Clamp(2 * i.memory, 1, BufferCeiling(i.profile))
         IN  [ok |-> TRUE, somaxconn |-> i.backlog, synBacklog |-> i.backlog, tcpMax |-> buffer,
              coreMax |-> Clamp(2 * buffer, 2, 2 * BufferCeiling(i.profile)),
              qdisc |-> IF i.bbr THEN "fq" ELSE "pfifo_fast", congestion |-> IF i.bbr THEN "bbr" ELSE "cubic"]

-----------------------------------------------------------------------------
(* k8sCapacitySizer.ts: what a node reserves, what its pods may use, nodes *)
(* balanced over the zones.                                                *)

\* Bands <<width, parts of 100000 of a unit>>; what is left pays the last rate.
Banded(amount, bands, rest) ==
    LET step(s, band) == LET take == Smallest({band[1], s.left}) IN [left |-> s.left - take, sum |-> s.sum + take * band[2]]
        end == FoldLeft(step, [left |-> amount, sum |-> 0], bands)
    IN  end.sum + end.left * rest
ReservedCpu(cores) == RoundDiv(Banded(cores, <<<<1, 600>>, <<1, 100>>, <<2, 50>>>>, 25), 10)
ReservedRam(gb) == RoundDiv(1024 * Banded(gb, <<<<4, 25>>, <<4, 20>>, <<8, 10>>, <<112, 6>>>>, 2), 100)
Reservations(i) == [cpu |-> ReservedCpu(i.cores), ram |-> ReservedRam(i.ram) + 100]
Usable(i) == [cpu |-> i.cores * 1000 - Reservations(i).cpu - i.dsCpu, ram |-> i.ram * 1024 - Reservations(i).ram - i.dsRam]
PodsPerNode(i) ==
    Smallest({(Usable(i).cpu * i.tenths) \div (10 * i.podCpu), (Usable(i).ram * i.tenths) \div (10 * i.podRam), Greatest({0, i.maxPods - i.dsPods})})
NodesNotBalanced(i) == CeilDiv(i.replicas, PodsPerNode(i))  \* mutant: the last zone may be short
NodesBalanced(i) == CeilDiv(CeilDiv(i.replicas, PodsPerNode(i)), i.zones) * i.zones
K8sCapacitySizer(i) ==
    IF (\E n \in {i.cores, i.ram, i.podCpu, i.podRam, i.replicas, i.zones} : n <= 0) \/ i.tenths \notin 1..10
       \/ Usable(i).cpu <= 0 \/ Usable(i).ram <= 0 \/ PodsPerNode(i) < 1 THEN Failed
    ELSE LET perZone == NodesBalanced(i) \div i.zones
         IN  [ok |-> TRUE, perNode |-> PodsPerNode(i), nodes |-> NodesBalanced(i), perZone |-> perZone,
              survives |-> (IF i.zones > 1 THEN (i.zones - 1) * perZone ELSE NodesBalanced(i)) * PodsPerNode(i) >= i.replicas,
              requested |-> [cpu |-> i.replicas * i.podCpu + NodesBalanced(i) * i.dsCpu, ram |-> i.replicas * i.podRam + NodesBalanced(i) * i.dsRam]]
\* The quota leaves three tenths above the requests and allows twice as much as a limit.
QuotaConfig(i) ==
    [requestsCpu |-> CeilDiv(13 * i.replicas * i.podCpu, 10000), limitsCpu |-> CeilDiv(2 * i.replicas * i.podCpu, 1000),
     requestsRam |-> CeilDiv(13 * i.replicas * i.podRam, 10240), limitsRam |-> CeilDiv(2 * i.replicas * i.podRam, 1024),
     pods |-> CeilDiv(3 * i.replicas, 2)]

-----------------------------------------------------------------------------
(* storageIopsSizer.ts.                                                    *)

WritePenalty(layout, rf) == CASE layout = "raid0" -> 1 [] layout \in {"raid1", "raid10"} -> 2 [] layout = "raid5" -> 4
                              [] layout = "raid6" -> 6 [] layout = "replication" -> Greatest({1, rf})
NoParity(gb, each, layout, rf) == CeilDiv(gb, each)  \* mutant: mirrors, parity and replicas take no disk
CapacityDisks(gb, each, layout, rf) ==
    CASE layout = "raid0" -> CeilDiv(gb, each)
      [] layout \in {"raid1", "raid10"} -> 2 * CeilDiv(gb, each)
      [] layout = "raid5" -> CeilDiv(gb, each) + 1
      [] layout = "raid6" -> CeilDiv(gb, each) + 2
      [] layout = "replication" -> CeilDiv(gb * Greatest({1, rf}), each)
UsableCapacity(disks, each, layout, rf) ==  \* as <<n, d>>
    CASE layout = "raid0" -> <<disks * each, 1>>
      [] layout \in {"raid1", "raid10"} -> <<disks * each, 2>>
      [] layout = "raid5" -> <<(disks - 1) * each, 1>>
      [] layout = "raid6" -> <<(disks - 2) * each, 1>>
      [] layout = "replication" -> <<disks * each, Greatest({1, rf})>>
LayoutMinimum(layout) == CASE layout \in {"raid0", "replication"} -> 1 [] layout = "raid1" -> 2 [] layout = "raid5" -> 3
                           [] layout \in {"raid6", "raid10"} -> 4
StorageIopsSizer(i) ==
    IF i.iops <= 0 \/ i.readTenths \notin 0..10 \/ i.each <= 0 \/ i.gbEach <= 0 \/ i.gb <= 0 \/ (i.layout = "replication" /\ i.rf < 1) THEN Failed
    ELSE LET backEnd == i.iops * i.readTenths + i.iops * (10 - i.readTenths) * WritePenalty(i.layout, i.rf)  \* tenths
             disks == Greatest({CeilDiv(backEnd, 10 * i.each), CapacityDisks(i.gb, i.gbEach, i.layout, i.rf), LayoutMinimum(i.layout)})
             even == IF i.layout = "raid10" /\ disks % 2 = 1 THEN disks + 1 ELSE disks
         IN  [ok |-> TRUE, backEnd |-> backEnd, disks |-> even, usable |-> UsableCapacity(even, i.gbEach, i.layout, i.rf)]
=============================================================================
