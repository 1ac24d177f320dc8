----------------------------- MODULE Addresses -----------------------------
(***************************************************************************)
(* The address tools: subnetCalculator.ts, hostRange.ts, ipRangeTool.ts    *)
(* and macAddressTool.ts.  An IPv4 address is a number of Octets groups of *)
(* OctetBits bits (four of eight in the code); what a text is split into   *)
(* is kept, its spelling is not.                                           *)
(***************************************************************************)
EXTENDS Integers, FiniteSets, SequencesExt

CONSTANTS
    OctetBits, \* bits of an octet
    Octets,    \* octets of an IPv4 address
    OuiTable   \* the prefixes whose vendor is known: sequences of octets

Width == OctetBits * Octets
Radix == 2^OctetBits
Addrs == 0..(2^Width - 1)
Failed == [ok |-> FALSE]

-----------------------------------------------------------------------------
(* subnetCalculator.ts.  An IPv6 block has a prefix and a last address only. *)

Mask(prefix) == 2^Width - 2^(Width - prefix)
Network(a, prefix) == a - (a % 2^(Width - prefix))
Broadcast(a, prefix) == Network(a, prefix) + 2^(Width - prefix) - 1

AlwaysTwoReserved(a, p) ==  \* mutant: a link of two addresses loses both
    [ok |-> TRUE, network |-> Network(a, p), last |-> Broadcast(a, p), total |-> 2^(Width - p),
     mask |-> Mask(p), wildcard |-> 2^Width - 1 - Mask(p),
     firstUsable |-> IF p = Width THEN Network(a, p) ELSE Network(a, p) + 1,
     lastUsable |-> IF p = Width THEN Network(a, p) ELSE Broadcast(a, p) - 1,
     usable |-> IF p = Width THEN 1 ELSE 2^(Width - p)]
ComputeV4(a, p) ==
    [ok |-> TRUE, network |-> Network(a, p), last |-> Broadcast(a, p), total |-> 2^(Width - p),
     mask |-> Mask(p), wildcard |-> 2^Width - 1 - Mask(p),
     firstUsable |-> IF p >= Width - 1 THEN Network(a, p) ELSE Network(a, p) + 1,
     lastUsable |-> IF p = Width THEN Network(a, p) ELSE IF p = Width - 1 THEN Broadcast(a, p) ELSE Broadcast(a, p) - 1,
     usable |-> IF p = Width THEN 1 ELSE IF p = Width - 1 THEN 2 ELSE 2^(Width - p) - 2]
Subnet(a, p) == IF p \in 0..Width THEN ComputeV4(a, p) ELSE Failed

-----------------------------------------------------------------------------
(* An IPv6 address: eight groups, "::" for a run of zero groups.           *)

\* A text is its groups left of "::", whether "::" is there, and the groups right of it.
ParseIPv6(text) ==
    IF text.gap /\ Len(text.left) + Len(text.right) > 7 THEN Failed
    ELSE LET groups == IF text.gap
                       THEN text.left \o [i \in 1..(8 - Len(text.left) - Len(text.right)) |-> 0] \o text.right
                       ELSE text.left
         IN  IF Len(groups) # 8 THEN Failed ELSE [ok |-> TRUE, groups |-> groups]

ZeroRun(groups, i, n) == \A k \in i..(i + n - 1) : groups[k] = 0
ZeroRuns(groups) == {r \in (1..8) \X (1..8) : r[1] + r[2] <= 9 /\ ZeroRun(groups, r[1], r[2])}
AnyLongest(groups) ==  \* mutant: the last of the longest runs
    CHOOSE r \in ZeroRuns(groups) : \A s \in ZeroRuns(groups) : s[2] < r[2] \/ (s[2] = r[2] /\ s[1] <= r[1])
\* The leftmost of the longest runs.
LongestRun(groups) ==
    CHOOSE r \in ZeroRuns(groups) : \A s \in ZeroRuns(groups) : s[2] < r[2] \/ (s[2] = r[2] /\ r[1] <= s[1])
FormatIPv6(groups) ==
    IF ZeroRuns(groups) = {} \/ LongestRun(groups)[2] < 2 THEN [left |-> groups, gap |-> FALSE, right |-> <<>>]
    ELSE LET r == LongestRun(groups)
         IN  [left |-> SubSeq(groups, 1, r[1] - 1), gap |-> TRUE, right |-> SubSeq(groups, r[1] + r[2], 8)]

-----------------------------------------------------------------------------
(* hostRange.ts: a list of entries becomes addresses, hosts and errors.    *)

Nothing == [ok |-> TRUE, addresses |-> <<>>, hosts |-> {}, subnets |-> {}, truncated |-> FALSE]

OneMore(start, end, budget) ==  \* mutant: one address past the budget
    IF end < start THEN Failed
    ELSE LET last == IF end - start + 1 > budget THEN start + budget ELSE end
         IN  [Nothing EXCEPT !.addresses = [i \in 1..(last - start + 1) |-> start + i - 1], !.truncated = end - start + 1 > budget]
ExpandIntRange(start, end, budget) ==
    IF end < start THEN Failed
    ELSE LET last == IF end - start + 1 > budget THEN start + budget - 1 ELSE end
         IN  [Nothing EXCEPT !.addresses = [i \in 1..(last - start + 1) |-> start + i - 1], !.truncated = end - start + 1 > budget]
ExpandHostCidr(a, prefix, budget) == ExpandIntRange(Network(a, prefix), Broadcast(a, prefix), budget)
\* The prefix of a mask, if it is ones followed by zeros.
Contiguous(mask) == \E p \in 0..Width : mask = Mask(p)
MaskToPrefix(mask) == CHOOSE p \in 0..Width : mask = Mask(p)
\* The values of each octet, in the order written, repetitions included.
ExpandOctetPattern(parts, budget) ==
    LET extend(done, values) == FlattenSeq([i \in DOMAIN done |-> [j \in DOMAIN values |-> done[i] * Radix + values[j]]])
        all == FoldLeft(extend, <<0>>, parts)
    IN  IF Len(parts) # Octets THEN Failed
        ELSE [Nothing EXCEPT !.addresses = SubSeq(all, 1, IF Len(all) > budget THEN budget ELSE Len(all)),
                             !.truncated = Len(all) > budget]
ExpandEntry(e, budget) ==
    CASE e.form = "range" -> ExpandIntRange(e.from, e.to, budget)
      [] e.form = "cidr" -> IF e.prefix > Width THEN Failed ELSE ExpandHostCidr(e.from, e.prefix, budget)
      [] e.form = "mask" -> IF Contiguous(e.mask) THEN ExpandHostCidr(e.from, MaskToPrefix(e.mask), budget) ELSE Failed
      [] e.form = "pattern" -> ExpandOctetPattern(e.parts, budget)
      [] e.form = "single" -> [Nothing EXCEPT !.addresses = <<e.from>>]
      [] e.form = "host" -> [Nothing EXCEPT !.hosts = {e.name}]
      [] e.form = "host subnet" -> IF e.prefix > Width THEN Failed ELSE [Nothing EXCEPT !.subnets = {<<e.name, e.prefix>>}]
      [] e.form = "unrecognised" -> Failed

ParseHostRange(entries, max) ==
    LET take(all, e) ==
            LET got == ExpandEntry(e, max - Cardinality(all.addresses))
            IN  IF Cardinality(all.addresses) >= max THEN [all EXCEPT !.truncated = TRUE]
                ELSE IF ~got.ok THEN [all EXCEPT !.errors = @ + 1]
                ELSE [all EXCEPT !.addresses = @ \cup Range(got.addresses), !.hosts = @ \cup got.hosts,
                                 !.subnets = @ \cup got.subnets, !.truncated = @ \/ got.truncated]
    IN  FoldLeft(take, [addresses |-> {}, hosts |-> {}, subnets |-> {}, errors |-> 0, truncated |-> FALSE], entries)

-----------------------------------------------------------------------------
(* ipRangeTool.ts: the CIDR blocks of a range, and a block's range.        *)

TrailingZeros(a) == IF a = 0 THEN Width ELSE CHOOSE n \in 0..Width : a % 2^n = 0 /\ a % 2^(n + 1) # 0
BySizeOnly(a, remaining) == CHOOSE n \in 0..Width : 2^n <= remaining /\ (n = Width \/ 2^(n + 1) > remaining)  \* mutant: alignment ignored
HostBits(a, remaining) ==
    CHOOSE n \in 0..TrailingZeros(a) : 2^n <= remaining /\ \A k \in (n + 1)..TrailingZeros(a) : 2^k > remaining
SummarizeRange(start, end) ==
    LET blocks[a \in Nat] ==
            IF a > end THEN <<>>
            ELSE LET n == HostBits(a, end - a + 1) IN <<[base |-> a, prefix |-> Width - n]>> \o blocks[a + 2^n]
    IN  IF start > end THEN Failed ELSE [ok |-> TRUE, total |-> end - start + 1, blocks |-> blocks[start]]
ExpandCidr(a, prefix) ==
    IF prefix > Width THEN Failed
    ELSE [ok |-> TRUE, first |-> Network(a, prefix), last |-> Broadcast(a, prefix), total |-> 2^(Width - prefix)]

\* An octet is refused when it has a leading zero or is out of range.
OctetAccepted(leadingZero, value) == ~leadingZero /\ value < Radix

\* fd, five octets of global id, two of subnet.
Ula(global, subnet) == [site |-> <<253>> \o global, subnet64 |-> <<253>> \o global \o subnet]
SubnetOfUla(site, subnet) == IF site[1] \in {252, 253} THEN [ok |-> TRUE, subnet64 |-> site \o subnet] ELSE Failed

-----------------------------------------------------------------------------
(* macAddressTool.ts: the bits of the first octet and the vendor.          *)

Group(octet) == octet % 2
Local(octet) == (octet \div 2) % 2
Vendors(mac) == {p \in OuiTable : IsPrefix(p, mac)}
LookupVendor(mac) ==
    IF Vendors(mac) = {} THEN <<>> ELSE CHOOSE p \in Vendors(mac) : \A q \in Vendors(mac) : Len(q) <= Len(p)
Analyze(mac) ==
    [local |-> Local(mac[1]) = 1, multicast |-> Group(mac[1]) = 1, vendor |-> LookupVendor(mac)]

\* A vendor prefix keeps its own bits; without one the options set those of the first octet.
WithBits(octet, local, unicast) == (octet \div 4) * 4 + (IF local THEN 2 ELSE 0) + (IF unicast THEN 0 ELSE 1)
BitsAlways(random, prefix, local, unicast) ==  \* mutant: the bits of a vendor prefix are rewritten
    LET mac == prefix \o SubSeq(random, Len(prefix) + 1, Len(random))
    IN  [mac EXCEPT ![1] = WithBits(@, local, unicast)]
RandomHex(random, prefix, local, unicast) ==
    IF prefix # <<>> THEN prefix \o SubSeq(random, Len(prefix) + 1, Len(random))
    ELSE [random EXCEPT ![1] = WithBits(@, local, unicast)]
CanGenerate(count, prefix) == count \in 1..256 /\ Len(prefix) <= 5
=============================================================================
