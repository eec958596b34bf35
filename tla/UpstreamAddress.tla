-------------------------- MODULE UpstreamAddress --------------------------
(***************************************************************************)
(* The address of an upstream host (ssrf.rs): the lookup with its cache,   *)
(* the check of every address against the allow list and the blocked       *)
(* ranges, and the clients pinned to the addresses that were checked.      *)
(*                                                                         *)
(* One host and port.  An IPv4 address has V4Bits bits; an IPv6 address    *)
(* has two bits for its block, one in the middle and V4Bits at the end.    *)
(* Block 0 embeds IPv4 (compatible, or mapped when the middle bit is set), *)
(* block 1 is NAT64, whatever its middle bit, block 2 is public and block  *)
(* 3 unique or link local.  The age of a cached answer stops at Ttl; a     *)
(* client of that age is never used again, and is dropped at once.         *)
(***************************************************************************)
EXTENDS Integers

CONSTANTS
  V4Bits,        \* 32
  BlockedV4,     \* the IPv4 addresses that is_blocked_v4 names
  AllowLists,    \* security.ssrf_allowed_cidrs: what it may be
  Answers,       \* what DNS may answer: sets of addresses
  Fails,         \* the lookup fails
  Ttl,           \* CACHE_TTL
  Requests       \* bound: requests at a time

V6Bits == V4Bits + 3

V4s == [family : {4}, bits : 0 .. 2 ^ V4Bits - 1]
V6s == [family : {6}, bits : 0 .. 2 ^ V6Bits - 1]
Ips == V4s \cup V6s

Width(family) == IF family = 4 THEN V4Bits ELSE V6Bits

\* A prefix may be too long: its text is not checked before it is used.
Cidrs == [ip : Ips, len : 0 .. V6Bits + 1]

ASSUME AddressAssumption ==
  /\ V4Bits \in Nat /\ Ttl \in Nat \ {0}
  /\ BlockedV4 \subseteq 0 .. 2 ^ V4Bits - 1
  /\ AllowLists \subseteq SUBSET Cidrs
  /\ Answers \subseteq SUBSET Ips /\ Fails \notin Answers

\* The equations that define the powers of two: the provers do not know them.
ASSUME PowerAssumption ==
  2 ^ 0 = 1 /\ \A n \in 0 .. V6Bits : 2 ^ n \in Nat /\ 2 ^ (n + 1) = 2 * 2 ^ n

VARIABLES
  allow,    \* the allow list
  dns,      \* what DNS answers, or Fails
  dnsCache, \* ssrf_dns_cache: no entry or one
  clients,  \* pinned_clients: by address set, its client
  req,      \* the requests
  quiet     \* history: how long no request has been there, up to Ttl

vars == <<allow, dns, dnsCache, clients, req, quiet>>

-----------------------------------------------------------------------------
(* addresses *)

Block(ip)  == ip.bits \div 2 ^ (V4Bits + 1)
Middle(ip) == (ip.bits \div 2 ^ V4Bits) % 2

\* normalize_ip
Normalize(ip) ==
  IF ip.family = 6 /\ Block(ip) \in {0, 1}
    THEN [family |-> 4, bits |-> ip.bits % 2 ^ V4Bits] ELSE ip

IsBlocked(ip) == IF ip.family = 4 THEN ip.bits \in BlockedV4 ELSE Block(ip) = 3

\* ipv4_in_prefix, ipv6_in_prefix: equal under the mask.
SameTop(ip, prefix, len) ==
  LET low == 2 ^ (Width(ip.family) - len) IN ip.bits \div low = prefix.bits \div low

Shorter(len, family) == IF len < Width(family) THEN len ELSE Width(family)

\* Mutant: both sides are brought to one family first.
IpInPrefixNormalized(ip, prefix, len) ==
  LET a == Normalize(ip)
      b == Normalize(prefix)
  IN  a.family = b.family /\ SameTop(a, b, Shorter(len, a.family))

\* ip_in_prefix: only when the families differ.
IpInPrefix(ip, prefix, len) ==
  LET a == IF ip.family = prefix.family THEN ip ELSE Normalize(ip)
      b == IF ip.family = prefix.family THEN prefix ELSE Normalize(prefix)
  IN  a.family = b.family /\ SameTop(a, b, Shorter(len, a.family))

IpInCidr(ip, cidr) ==
  cidr.len <= Width(cidr.ip.family) /\ IpInPrefix(ip, cidr.ip, cidr.len)

IsAllowed(ip) ==
  LET a == Normalize(ip) IN (\E cidr \in allow : IpInCidr(a, cidr)) \/ ~IsBlocked(a)

AllAllowed(ips) == \A ip \in ips : IsAllowed(ip)

-----------------------------------------------------------------------------
\* A request: its addresses and its client's; history: DNS answered well ever
\* since it began, until it is verified; the host had rested before; what DNS
\* answered since; and the addresses are none of that.
NoRequest ==
  [phase |-> "none", ips |-> {}, target |-> {},
   good |-> FALSE, rested |-> FALSE, since |-> {}, outdated |-> FALSE]

Good(answer) == answer # Fails /\ answer # {} /\ AllAllowed(answer)

Init ==
  /\ allow \in AllowLists
  /\ dns \in Answers
  /\ dnsCache = <<>> /\ clients = <<>>
  /\ req = [r \in Requests |-> NoRequest]
  /\ quiet = Ttl

Older(age) == IF age < Ttl THEN age + 1 ELSE Ttl

Tick ==
  /\ dnsCache' = [i \in DOMAIN dnsCache |-> [dnsCache[i] EXCEPT !.age = Older(@)]]
  /\ clients' = [k \in {k \in DOMAIN clients : clients[k].age + 1 < Ttl} |->
                   [clients[k] EXCEPT !.age = @ + 1]]
  /\ quiet' = IF \A r \in Requests : req[r].phase = "none" THEN Older(quiet) ELSE 0
  /\ UNCHANGED <<allow, dns, req>>

DnsChanges(answer) ==
  /\ answer # dns
  /\ dns' = answer
  /\ req' = [r \in Requests |->
               IF req[r].phase \in {"begun", "asks"}
                 THEN [req[r] EXCEPT !.good = @ /\ Good(answer),
                                     !.since = IF req[r].rested THEN @ \cup {answer} ELSE @]
                 ELSE req[r]]
  /\ UNCHANGED <<allow, dnsCache, clients, quiet>>

-----------------------------------------------------------------------------
(* a request *)

Begin(r) ==
  /\ req[r].phase = "none"
  /\ LET rested == quiet = Ttl /\ \A o \in Requests : req[o].phase = "none"
     IN  req' = [req EXCEPT ![r] =
           [NoRequest EXCEPT !.phase = "begun", !.good = Good(dns), !.rested = rested,
                             !.since = IF rested THEN {dns} ELSE {}]]
  /\ UNCHANGED <<allow, dns, dnsCache, clients, quiet>>

Resolved(q, ips) ==
  [q EXCEPT !.phase = "resolved", !.ips = ips,
            !.outdated = q.rested /\ ips \notin q.since, !.rested = FALSE, !.since = {}]

Fresh(entry) == entry.age < Ttl

CacheHit == \E i \in DOMAIN dnsCache : Fresh(dnsCache[i])

\* Mutant: the age of the entry does not matter.
ResolveCachedAlways(r) ==
  /\ req[r].phase = "begun"
  /\ dnsCache # <<>>
  /\ req' = [req EXCEPT ![r] = Resolved(@, dnsCache[1].ips)]
  /\ UNCHANGED <<allow, dns, dnsCache, clients, quiet>>

\* resolve_with_cache
ResolveCached(r) ==
  /\ req[r].phase = "begun"
  /\ CacheHit
  /\ req' = [req EXCEPT ![r] = Resolved(@, dnsCache[1].ips)]
  /\ UNCHANGED <<allow, dns, dnsCache, clients, quiet>>

AskDns(r) ==
  /\ req[r].phase = "begun"
  /\ ~CacheHit
  /\ req' = [req EXCEPT ![r].phase = "asks"]
  /\ UNCHANGED <<allow, dns, dnsCache, clients, quiet>>

DnsAnswers(r) ==
  /\ req[r].phase = "asks"
  /\ req' = [req EXCEPT ![r] =
       IF dns = Fails THEN [@ EXCEPT !.phase = "unresolved"]
                        ELSE Resolved(@, dns)]
  /\ UNCHANGED <<allow, dns, dnsCache, clients, quiet>>

\* Mutant: what was looked up is cached before it is checked.
CheckCachesFirst(r) ==
  /\ req[r].phase = "resolved"
  /\ req' = [req EXCEPT ![r].phase = IF AllAllowed(req[r].ips) THEN "verified" ELSE "blocked"]
  /\ dnsCache' = <<[ips |-> req[r].ips, age |-> 0]>>
  /\ UNCHANGED <<allow, dns, clients, quiet>>

\* resolve_and_check: a set from the cache goes there again, as if it were new.
Check(r) ==
  /\ req[r].phase = "resolved"
  /\ IF AllAllowed(req[r].ips)
       THEN /\ req' = [req EXCEPT ![r].phase = "verified", ![r].good = FALSE]
            /\ dnsCache' = <<[ips |-> req[r].ips, age |-> 0]>>
       ELSE /\ req' = [req EXCEPT ![r].phase = "blocked"]
            /\ UNCHANGED dnsCache
  /\ UNCHANGED <<allow, dns, clients, quiet>>

\* Mutant: the client of the host, whatever addresses it was built for.
ReuseOfHost(r) ==
  /\ req[r].phase = "verified"
  /\ \E key \in DOMAIN clients :
       req' = [req EXCEPT ![r].phase = "pinned", ![r].target = {clients[key].target}]
  /\ UNCHANGED <<allow, dns, dnsCache, clients, quiet>>

Usable(ips) == ips \in DOMAIN clients

\* pinned_client
Reuse(r) ==
  /\ req[r].phase = "verified"
  /\ Usable(req[r].ips)
  /\ req' = [req EXCEPT ![r].phase = "pinned", ![r].target = {clients[req[r].ips].target}]
  /\ UNCHANGED <<allow, dns, dnsCache, clients, quiet>>

\* No address was looked up, or the builder fails.
PinFails(r) ==
  /\ req[r].phase = "verified"
  /\ ~Usable(req[r].ips)
  /\ req' = [req EXCEPT ![r].phase = "failed"]
  /\ UNCHANGED <<allow, dns, dnsCache, clients, quiet>>

\* ClientBuilder::resolve replaces what it was told of the host before: of
\* several addresses the last that DNS listed is the one that the client uses.
Build(r) ==
  /\ req[r].phase = "verified"
  /\ ~Usable(req[r].ips)
  /\ \E ip \in req[r].ips :
       /\ req' = [req EXCEPT ![r].phase = "pinned", ![r].target = {ip}]
       /\ clients' = [k \in DOMAIN clients \cup {req[r].ips} |->
                        IF k = req[r].ips THEN [target |-> ip, age |-> 0] ELSE clients[k]]
  /\ UNCHANGED <<allow, dns, dnsCache, quiet>>

\* The request of a provider that is saved ends with the check, and then drops the
\* clients; a deletion drops them, too.
Save(r) ==
  /\ req[r].phase \in {"none", "verified"}
  /\ clients # <<>>
  /\ clients' = <<>>
  /\ req' = [req EXCEPT ![r] = NoRequest]
  /\ quiet' = IF req[r].phase = "none" THEN quiet ELSE 0
  /\ UNCHANGED <<allow, dns, dnsCache>>

\* The request is over, or it is dropped while it waits for DNS.
End(r) ==
  /\ req[r].phase \in {"asks", "unresolved", "blocked", "failed", "verified", "pinned"}
  /\ req' = [req EXCEPT ![r] = NoRequest]
  /\ quiet' = 0
  /\ UNCHANGED <<allow, dns, dnsCache, clients>>

\* cleanup_caches: an entry of half the age goes when the cache is nearly full.
Cleanup ==
  /\ dnsCache # <<>>
  /\ \E n \in {1, 2} : dnsCache' = IF n * dnsCache[1].age < Ttl THEN dnsCache ELSE <<>>
  /\ UNCHANGED <<allow, dns, clients, req, quiet>>

Next ==
  \/ Tick \/ Cleanup
  \/ \E answer \in Answers \cup {Fails} : DnsChanges(answer)
  \/ \E r \in Requests :
       \/ Begin(r) \/ ResolveCached(r) \/ AskDns(r) \/ DnsAnswers(r) \/ Check(r)
       \/ Reuse(r) \/ PinFails(r) \/ Build(r) \/ Save(r) \/ End(r)

Spec == Init /\ [][Next]_vars

-----------------------------------------------------------------------------
(* properties *)

\* A request connects to an address that it checked itself, although it may use a
\* client that another request built, and that address is allowed.
ConnectsToVerified ==
  \A r \in Requests :
    req[r].phase = "pinned" => req[r].target \subseteq req[r].ips /\ AllAllowed(req[r].target)

\* A host that was denied is not denied any more once DNS is corrected: neither a
\* lookup under way nor the cache brings the old answer back to a new request.
CorrectedIsNotDenied ==
  \A r \in Requests : req[r].good => req[r].phase \notin {"blocked", "unresolved"}

\* The first request after CACHE_TTL without any gets what DNS answers now.  (With
\* requests at shorter intervals it need not: each of them makes the cached
\* addresses new again.)
QuietHostIsAskedAgain ==
  \A r \in Requests : ~req[r].outdated

\* The addresses that a prefix stands for: an interval of its family.
Within(ip, cidr) ==
  LET size == 2 ^ (Width(cidr.ip.family) - cidr.len)
      low  == cidr.ip.bits - (cidr.ip.bits % size)
  IN  ip.family = cidr.ip.family /\ low <= ip.bits /\ ip.bits < low + size

\* The initial states, where the facts of the constants are looked at.
Unused ==
  /\ quiet = Ttl /\ dnsCache = <<>> /\ clients = <<>>
  /\ \A r \in Requests : req[r] = NoRequest

\* What an entry of the allow list stands for, when the address is normalised
\* first.  One with too long a prefix stands for nothing, and one of the address's
\* own family for its interval.  An IPv6 entry that embeds an IPv4 address stands for
\* an interval of IPv4 addresses, that of its IPv4 address and its length cut to
\* V4Bits; each of them has a notation in the entry's own interval, but the reverse
\* holds only of an entry for a single address.
PrefixesMeanIntervals ==
  Unused =>
    \A cidr \in Cidrs, ip \in Ips :
      LET a  == Normalize(ip)
          v4 == [ip |-> Normalize(cidr.ip), len |-> Shorter(cidr.len, 4)]
      IN  IF cidr.len > Width(cidr.ip.family) THEN ~IpInCidr(a, cidr)
          ELSE /\ a.family = cidr.ip.family => (IpInCidr(a, cidr) <=> Within(a, cidr))
               /\ a.family # cidr.ip.family =>
                    (IpInCidr(a, cidr) <=> a.family = 4 /\ Within(a, v4))
               /\ IpInCidr(a, cidr) => \E b \in Ips : Normalize(b) = a /\ Within(b, cidr)
               /\ cidr.len = Width(cidr.ip.family) /\ Within(ip, cidr) => IpInCidr(a, cidr)
=============================================================================
