------------------------- MODULE UpstreamAddressProofs -------------------------
(***************************************************************************)
(* What holds of UpstreamAddress for every width of an address, every list *)
(* of blocked and allowed addresses, every answer of DNS, every CACHE_TTL  *)
(* and every number of requests.                                           *)
(***************************************************************************)
EXTENDS UpstreamAddress, NaturalsInduction, WellFoundedInduction, TLAPS

Phases ==
  {"none", "begun", "asks", "unresolved", "resolved", "blocked", "verified", "failed",
   "pinned"}

RequestStates ==
  [phase : Phases, ips : SUBSET Ips, target : SUBSET Ips, good : BOOLEAN,
   rested : BOOLEAN, since : SUBSET (Answers \cup {Fails}), outdated : BOOLEAN]

\* The type invariant: the lookup cache has at most one entry, and a client's
\* address is one of those it was built for.
TypeOK ==
  /\ allow \in AllowLists
  /\ dns \in Answers \cup {Fails}
  /\ DOMAIN dnsCache \subseteq {1}
  /\ \A i \in DOMAIN dnsCache : dnsCache[i] \in [ips : SUBSET Ips, age : 0 .. Ttl]
  /\ \A k \in DOMAIN clients : k \in SUBSET Ips /\ clients[k].target \in k
  /\ req \in [Requests -> RequestStates]
  /\ quiet \in 0 .. Ttl

\* Only address sets that passed the check are cached, or used for a client.
Verified ==
  /\ \A i \in DOMAIN dnsCache : AllAllowed(dnsCache[i].ips)
  /\ \A r \in Requests :
       req[r].phase \in {"verified", "pinned"} => AllAllowed(req[r].ips)
  /\ \A r \in Requests : req[r].phase = "pinned" => req[r].target \subseteq req[r].ips

\* As long as DNS answered well since a request began, whatever the request has
\* got, or will get, passes the check.
Corrected ==
  \A r \in Requests :
    req[r].good =>
      /\ req[r].phase \in {"begun", "asks"} => Good(dns)
      /\ req[r].phase = "resolved" => AllAllowed(req[r].ips)
      /\ req[r].phase \notin {"blocked", "unresolved"}

AllNone == \A r \in Requests : req[r].phase = "none"

\* While a host rests its cached answer ages as the silence does.
CacheAges == AllNone => \A i \in DOMAIN dnsCache : quiet <= dnsCache[i].age

\* Whatever a request that found the host rested can still be given is an answer
\* that DNS gave since: DNS's own, a fresh entry of the cache, or what another
\* request looked up and is about to cache.
SinceRest ==
  \A r \in Requests :
    req[r].rested /\ req[r].phase \in {"begun", "asks"} =>
      /\ dns \in req[r].since
      /\ \A i \in DOMAIN dnsCache : Fresh(dnsCache[i]) => dnsCache[i].ips \in req[r].since
      /\ \A o \in Requests : req[o].phase = "resolved" => req[o].ips \in req[r].since

Inv == TypeOK /\ Verified /\ Corrected /\ CacheAges /\ SinceRest /\ QuietHostIsAskedAgain

-----------------------------------------------------------------------------
(* Inv is inductive *)

\* The allow list never changes, nor does the verdict on a set of addresses.
LEMMA VerdictStands ==
  ASSUME [Next]_vars
  PROVE  /\ allow' = allow
         /\ \A S : AllAllowed(S)' <=> AllAllowed(S)
<1>1. allow' = allow
  BY DEF Next, vars, Tick, Cleanup, DnsChanges, Begin, ResolveCached, AskDns,
     DnsAnswers,
     Check, Reuse, PinFails, Build, Save, End
<1>2. ASSUME NEW ip PROVE IsAllowed(ip)' <=> IsAllowed(ip)
  BY <1>1 DEF IsAllowed
<1>3. ASSUME NEW S PROVE AllAllowed(S)' <=> AllAllowed(S)
  BY <1>2 DEF AllAllowed
<1>4. QED
  BY <1>1, <1>3

\* The initial state satisfies the invariant.
LEMMA InitInv == Init => Inv
<1> SUFFICES ASSUME Init PROVE Inv
  OBVIOUS
<1>1. /\ DOMAIN dnsCache = {} /\ DOMAIN clients = {}
      /\ \A r \in Requests : req[r] = NoRequest
  BY DEF Init
<1>2. TypeOK
  BY <1>1, AddressAssumption DEF Init, TypeOK, NoRequest, RequestStates, Phases
<1>3. Verified /\ Corrected /\ SinceRest /\ QuietHostIsAskedAgain
  BY <1>1 DEF Verified, Corrected, SinceRest, QuietHostIsAskedAgain, NoRequest
<1>4. CacheAges
  BY <1>1 DEF CacheAges
<1>5. QED
  BY <1>2, <1>3, <1>4 DEF Inv

\* What a lookup that ends makes of its request.
LEMMA ResolvedFacts ==
  ASSUME NEW q \in RequestStates, NEW ips \in SUBSET Ips
  PROVE  /\ Resolved(q, ips) \in RequestStates
         /\ Resolved(q, ips).phase = "resolved" /\ Resolved(q, ips).ips = ips
         /\ Resolved(q, ips).good = q.good
         /\ Resolved(q, ips).outdated = (q.rested /\ ips \notin q.since)
         /\ Resolved(q, ips).rested = FALSE
<1> DEFINE o == q.rested /\ ips \notin q.since
<1>1. o \in BOOLEAN
  BY Zenon
<1>2. Resolved(q, ips) = [q EXCEPT !.phase = "resolved", !.ips = ips, !.outdated = o,
                                   !.rested = FALSE, !.since = {}]
  BY DEF Resolved
<1> HIDE DEF o
<1>3. /\ Resolved(q, ips) \in RequestStates
      /\ Resolved(q, ips).phase = "resolved" /\ Resolved(q, ips).ips = ips
      /\ Resolved(q, ips).good = q.good
      /\ Resolved(q, ips).outdated = o
      /\ Resolved(q, ips).rested = FALSE
  BY <1>1, <1>2 DEF RequestStates, Phases
<1>4. QED
  BY <1>3 DEF o

\* What a new request is.
LEMMA BeginFacts ==
  ASSUME TypeOK, NEW r \in Requests, Begin(r)
  PROVE  /\ req' = [req EXCEPT ![r] = req'[r]]
         /\ req'[r] \in RequestStates
         /\ req'[r].phase = "begun" /\ req'[r].outdated = FALSE
         /\ req'[r].good => Good(dns)
         /\ req'[r].rested => quiet = Ttl /\ AllNone /\ req'[r].since = {dns}
<1> DEFINE g == Good(dns)
           d == quiet = Ttl /\ \A o \in Requests : req[o].phase = "none"
           s == IF d THEN {dns} ELSE {}
           q == [NoRequest EXCEPT !.phase = "begun", !.good = g, !.rested = d, !.since = s]
<1>1. g \in BOOLEAN
  BY Zenon DEF Good
<1>2. d \in BOOLEAN
  BY Zenon
<1>3. s \in SUBSET (Answers \cup {Fails})
  BY DEF TypeOK
<1>4. req' = [req EXCEPT ![r] = q]
  BY DEF Begin
<1>5. (d => quiet = Ttl /\ AllNone /\ s = {dns}) /\ (g => Good(dns))
  BY DEF AllNone
<1> HIDE DEF g, d, s
<1>6. /\ q \in RequestStates
      /\ q.phase = "begun" /\ q.outdated = FALSE
      /\ q.good = g /\ q.rested = d /\ q.since = s
  BY <1>1, <1>2, <1>3 DEF RequestStates, Phases, NoRequest
<1> HIDE DEF q
<1>7. req'[r] = q
  BY <1>4 DEF TypeOK
<1>8. QED
  BY <1>4, <1>5, <1>6, <1>7

\* What a change of DNS makes of a request: it remembers it until it is resolved.
LEMMA DnsChangesFacts ==
  ASSUME TypeOK, NEW x \in Answers \cup {Fails}, DnsChanges(x)
  PROVE  /\ req' \in [Requests -> RequestStates]
         /\ \A r \in Requests :
              /\ req'[r].phase = req[r].phase /\ req'[r].ips = req[r].ips
              /\ req'[r].target = req[r].target
              /\ req'[r].rested = req[r].rested /\ req'[r].outdated = req[r].outdated
              /\ req'[r].good => req[r].good
              /\ req'[r].good /\ req[r].phase \in {"begun", "asks"} => Good(x)
              /\ req[r].since \subseteq req'[r].since
              /\ req[r].rested /\ req[r].phase \in {"begun", "asks"} => x \in req'[r].since
<1> DEFINE g(r) == req[r].good /\ Good(x)
           s(r) == IF req[r].rested THEN req[r].since \cup {x} ELSE req[r].since
           q(r) == IF req[r].phase \in {"begun", "asks"}
                     THEN [req[r] EXCEPT !.good = g(r), !.since = s(r)] ELSE req[r]
<1>0. req' = [r \in Requests |-> q(r)]
  BY DEF DnsChanges
<1> SUFFICES ASSUME NEW r \in Requests
             PROVE  /\ q(r) \in RequestStates
                    /\ q(r).phase = req[r].phase /\ q(r).ips = req[r].ips
                    /\ q(r).target = req[r].target
                    /\ q(r).rested = req[r].rested /\ q(r).outdated = req[r].outdated
                    /\ q(r).good => req[r].good
                    /\ q(r).good /\ req[r].phase \in {"begun", "asks"} => Good(x)
                    /\ req[r].since \subseteq q(r).since
                    /\ req[r].rested /\ req[r].phase \in {"begun", "asks"}
                         => x \in q(r).since
  BY <1>0
<1>1. g(r) \in BOOLEAN /\ (g(r) => req[r].good /\ Good(x))
  BY Zenon
<1>2. req[r] \in RequestStates
  BY DEF TypeOK
<1>3. /\ s(r) \in SUBSET (Answers \cup {Fails}) /\ req[r].since \subseteq s(r)
      /\ req[r].rested => x \in s(r)
  BY <1>2 DEF RequestStates
<1> HIDE DEF g, s
<1>4. QED
  BY <1>1, <1>2, <1>3 DEF RequestStates

\* Every step keeps the types.
LEMMA TypeStep ==
  ASSUME Inv, [Next]_vars
  PROVE  TypeOK'
<1>0. TypeOK /\ AddressAssumption /\ allow' \in AllowLists
  BY AddressAssumption, VerdictStands DEF Inv, TypeOK
<1>1. ASSUME Tick PROVE TypeOK'
  BY <1>1, <1>0 DEF Tick, Older, TypeOK, RequestStates, Phases, AddressAssumption
<1>2. ASSUME Cleanup PROVE TypeOK'
  BY <1>2, <1>0 DEF Cleanup, TypeOK, RequestStates, Phases, AddressAssumption
<1>3. ASSUME NEW x \in Answers \cup {Fails}, DnsChanges(x) PROVE TypeOK'
  <2>1. req' \in [Requests -> RequestStates]
    BY <1>3, <1>0, DnsChangesFacts
  <2>2. QED
    BY <1>3, <1>0, <2>1 DEF DnsChanges, TypeOK
<1>4. ASSUME NEW r \in Requests, Begin(r) PROVE TypeOK'
  <2>1. req' \in [Requests -> RequestStates]
    <3>1. req' = [req EXCEPT ![r] = req'[r]] /\ req'[r] \in RequestStates
      BY <1>4, <1>0, BeginFacts
    <3>2. QED
      BY <1>0, <3>1 DEF TypeOK
  <2>2. QED
    BY <1>4, <1>0, <2>1 DEF Begin, TypeOK
<1>5. ASSUME NEW r \in Requests, ResolveCached(r) PROVE TypeOK'
  <2>1. req[r] \in RequestStates /\ dnsCache[1].ips \in SUBSET Ips
    BY <1>5, <1>0 DEF ResolveCached, CacheHit, TypeOK
  <2>2. Resolved(req[r], dnsCache[1].ips) \in RequestStates
    BY <2>1, ResolvedFacts
  <2>3. QED
    BY <1>5, <1>0, <2>2 DEF ResolveCached, TypeOK
<1>6. ASSUME NEW r \in Requests, AskDns(r) PROVE TypeOK'
  BY <1>6, <1>0 DEF AskDns, TypeOK, RequestStates, Phases, AddressAssumption
<1>7. ASSUME NEW r \in Requests, DnsAnswers(r) PROVE TypeOK'
  <2>1. CASE dns = Fails
    BY <1>7, <1>0, <2>1 DEF DnsAnswers, TypeOK, RequestStates, Phases
  <2>2. CASE dns # Fails
    <3>1. req[r] \in RequestStates /\ dns \in SUBSET Ips
      BY <1>0, <2>2 DEF TypeOK, AddressAssumption
    <3>2. Resolved(req[r], dns) \in RequestStates
      BY <3>1, ResolvedFacts
    <3>3. QED
      BY <1>7, <1>0, <2>2, <3>2 DEF DnsAnswers, TypeOK
  <2>3. QED
    BY <2>1, <2>2
<1>8. ASSUME NEW r \in Requests, Check(r) PROVE TypeOK'
  BY <1>8, <1>0 DEF Check, TypeOK, RequestStates, Phases, AddressAssumption
<1>9. ASSUME NEW r \in Requests, Reuse(r) PROVE TypeOK'
  <2>1. {clients[req[r].ips].target} \in SUBSET Ips /\ req[r] \in RequestStates
    BY <1>9, <1>0 DEF Reuse, Usable, TypeOK
  <2>2. [req[r] EXCEPT !.phase = "pinned", !.target = {clients[req[r].ips].target}]
          \in RequestStates
    BY <2>1 DEF RequestStates, Phases
  <2>3. req' = [req EXCEPT ![r] =
           [req[r] EXCEPT !.phase = "pinned", !.target = {clients[req[r].ips].target}]]
    BY <1>9, <1>0 DEF Reuse, TypeOK
  <2>4. QED
    BY <1>9, <1>0, <2>2, <2>3 DEF Reuse, TypeOK
<1>10. ASSUME NEW r \in Requests, PinFails(r) PROVE TypeOK'
  BY <1>10, <1>0 DEF PinFails, TypeOK, RequestStates, Phases, AddressAssumption
<1>11. ASSUME NEW r \in Requests, Build(r) PROVE TypeOK'
  <2>1. PICK ip \in req[r].ips :
          /\ req' = [req EXCEPT ![r].phase = "pinned", ![r].target = {ip}]
          /\ clients' = [k \in DOMAIN clients \cup {req[r].ips} |->
                           IF k = req[r].ips THEN [target |-> ip, age |-> 0] ELSE clients[k]]
    BY <1>11 DEF Build
  <2>2. req[r] \in RequestStates /\ req[r].ips \in SUBSET Ips /\ ip \in Ips
    BY <1>0, <2>1 DEF TypeOK, RequestStates
  <2>3. [req[r] EXCEPT !.phase = "pinned", !.target = {ip}] \in RequestStates
    BY <2>2 DEF RequestStates, Phases
  <2>4. req' = [req EXCEPT ![r] = [req[r] EXCEPT !.phase = "pinned", !.target = {ip}]]
    BY <1>0, <2>1 DEF TypeOK
  <2>5. req' \in [Requests -> RequestStates]
    BY <1>0, <2>3, <2>4 DEF TypeOK
  <2>6. \A k \in DOMAIN clients' : k \in SUBSET Ips /\ clients'[k].target \in k
    BY <1>0, <2>1, <2>2 DEF TypeOK
  <2>7. QED
    BY <1>11, <1>0, <2>5, <2>6 DEF Build, TypeOK
<1>12. ASSUME NEW r \in Requests, Save(r) PROVE TypeOK'
  BY <1>12, <1>0 DEF Save, NoRequest, TypeOK, RequestStates, Phases, AddressAssumption
<1>13. ASSUME NEW r \in Requests, End(r) PROVE TypeOK'
  BY <1>13, <1>0 DEF End, NoRequest, TypeOK, RequestStates, Phases, AddressAssumption
<1>14. CASE UNCHANGED vars
  BY <1>0, <1>14 DEF vars, TypeOK, RequestStates, Phases, AddressAssumption
<1>15. QED
  BY <1>1, <1>2, <1>3, <1>4, <1>5, <1>6, <1>7, <1>8, <1>9, <1>10, <1>11,
     <1>12, <1>13, <1>14
  DEF Next

\* Every step keeps to addresses that were checked: Check alone fills the
\* cache, and a client is found under the very set it was built for.
LEMMA VerifiedStep ==
  ASSUME Inv, [Next]_vars
  PROVE  Verified'
<1>0. TypeOK /\ Verified /\ \A S : AllAllowed(S)' <=> AllAllowed(S)
  BY VerdictStands DEF Inv
<1>1. ASSUME Tick PROVE Verified'
  BY <1>1, <1>0 DEF Tick, Older, TypeOK, RequestStates, Verified
<1>2. ASSUME Cleanup PROVE Verified'
  BY <1>2, <1>0 DEF Cleanup, TypeOK, RequestStates, Verified
<1>3. ASSUME NEW x \in Answers \cup {Fails}, DnsChanges(x) PROVE Verified'
  BY <1>3, <1>0, DnsChangesFacts DEF DnsChanges, Verified
<1>4. ASSUME NEW r \in Requests, Begin(r) PROVE Verified'
  BY <1>4, <1>0 DEF Begin, NoRequest, TypeOK, RequestStates, Verified
<1>5. ASSUME NEW r \in Requests, ResolveCached(r) PROVE Verified'
  BY <1>5, <1>0 DEF ResolveCached, Resolved, CacheHit, TypeOK, RequestStates, Verified
<1>6. ASSUME NEW r \in Requests, AskDns(r) PROVE Verified'
  BY <1>6, <1>0 DEF AskDns, TypeOK, RequestStates, Verified
<1>7. ASSUME NEW r \in Requests, DnsAnswers(r) PROVE Verified'
  BY <1>7, <1>0 DEF DnsAnswers, Resolved, TypeOK, RequestStates, Verified
<1>8. ASSUME NEW r \in Requests, Check(r) PROVE Verified'
  BY <1>8, <1>0 DEF Check, TypeOK, RequestStates, Verified
<1>9. ASSUME NEW r \in Requests, Reuse(r) PROVE Verified'
  BY <1>9, <1>0 DEF Reuse, Usable, TypeOK, RequestStates, Verified
<1>10. ASSUME NEW r \in Requests, PinFails(r) PROVE Verified'
  BY <1>10, <1>0 DEF PinFails, TypeOK, RequestStates, Verified
<1>11. ASSUME NEW r \in Requests, Build(r) PROVE Verified'
  BY <1>11, <1>0 DEF Build, TypeOK, RequestStates, Verified
<1>12. ASSUME NEW r \in Requests, Save(r) PROVE Verified'
  BY <1>12, <1>0 DEF Save, NoRequest, TypeOK, RequestStates, Verified
<1>13. ASSUME NEW r \in Requests, End(r) PROVE Verified'
  BY <1>13, <1>0 DEF End, NoRequest, TypeOK, RequestStates, Verified
<1>14. CASE UNCHANGED vars
  BY <1>0, <1>14 DEF vars, TypeOK, RequestStates, Verified
<1>15. QED
  BY <1>1, <1>2, <1>3, <1>4, <1>5, <1>6, <1>7, <1>8, <1>9, <1>10, <1>11,
     <1>12, <1>13, <1>14
  DEF Next

\* Every step keeps a corrected answer from being denied: the cache holds only
\* sets that pass.
LEMMA CorrectedStep ==
  ASSUME Inv, [Next]_vars
  PROVE  Corrected'
<1>0. /\ TypeOK /\ Verified /\ Corrected /\ \A S : AllAllowed(S)' <=> AllAllowed(S)
      /\ \A S : Good(S)' <=> Good(S)
  BY VerdictStands DEF Inv, Good
<1>1. ASSUME Tick PROVE Corrected'
  BY <1>1, <1>0 DEF Tick, Older, TypeOK, RequestStates, Verified, Corrected
<1>2. ASSUME Cleanup PROVE Corrected'
  BY <1>2, <1>0 DEF Cleanup, TypeOK, RequestStates, Verified, Corrected
<1>3. ASSUME NEW x \in Answers \cup {Fails}, DnsChanges(x) PROVE Corrected'
  BY <1>3, <1>0, DnsChangesFacts DEF DnsChanges, Corrected
<1>4. ASSUME NEW r \in Requests, Begin(r) PROVE Corrected'
  BY <1>4, <1>0, BeginFacts DEF Begin, TypeOK, Corrected
<1>5. ASSUME NEW r \in Requests, ResolveCached(r) PROVE Corrected'
  BY <1>5, <1>0 DEF ResolveCached, Resolved, CacheHit, TypeOK, RequestStates,
     Verified, Corrected
<1>6. ASSUME NEW r \in Requests, AskDns(r) PROVE Corrected'
  BY <1>6, <1>0 DEF AskDns, TypeOK, RequestStates, Verified, Corrected
<1>7. ASSUME NEW r \in Requests, DnsAnswers(r) PROVE Corrected'
  <2>1. \A o \in Requests \ {r} : req'[o] = req[o]
    BY <1>7, <1>0 DEF DnsAnswers, TypeOK
  <2>2. req[r] \in RequestStates /\ (req[r].good => Good(dns)) /\ dns' = dns
    BY <1>7, <1>0 DEF DnsAnswers, TypeOK, Corrected
  <2>3. req'[r].good => req'[r].phase = "resolved" /\ AllAllowed(req'[r].ips)
    <3>1. CASE dns = Fails
      <4>1. ~req[r].good
        BY <2>2, <3>1 DEF Good
      <4>2. req'[r].good = req[r].good
        BY <1>7, <1>0, <2>2, <3>1 DEF DnsAnswers, TypeOK, RequestStates
      <4>3. QED
        BY <4>1, <4>2
    <3>2. CASE dns # Fails
      <4>1. req'[r] = Resolved(req[r], dns) /\ dns \in SUBSET Ips
        BY <1>7, <1>0, <3>2, AddressAssumption DEF DnsAnswers, TypeOK
      <4>2. /\ Resolved(req[r], dns).phase = "resolved" /\ Resolved(req[r], dns).ips = dns
            /\ Resolved(req[r], dns).good = req[r].good
        BY <2>2, <4>1, ResolvedFacts
      <4>3. req[r].good => AllAllowed(dns)
        BY <2>2 DEF Good
      <4>4. QED
        BY <4>1, <4>2, <4>3
    <3>3. QED
      BY <3>1, <3>2
  <2>4. QED
    BY <1>0, <2>1, <2>2, <2>3 DEF Corrected
<1>8. ASSUME NEW r \in Requests, Check(r) PROVE Corrected'
  BY <1>8, <1>0 DEF Check, TypeOK, RequestStates, Verified, Corrected
<1>9. ASSUME NEW r \in Requests, Reuse(r) PROVE Corrected'
  BY <1>9, <1>0 DEF Reuse, Usable, TypeOK, RequestStates, Verified, Corrected
<1>10. ASSUME NEW r \in Requests, PinFails(r) PROVE Corrected'
  BY <1>10, <1>0 DEF PinFails, TypeOK, RequestStates, Verified, Corrected
<1>11. ASSUME NEW r \in Requests, Build(r) PROVE Corrected'
  BY <1>11, <1>0 DEF Build, TypeOK, RequestStates, Verified, Corrected
<1>12. ASSUME NEW r \in Requests, Save(r) PROVE Corrected'
  BY <1>12, <1>0 DEF Save, NoRequest, TypeOK, RequestStates, Verified, Corrected
<1>13. ASSUME NEW r \in Requests, End(r) PROVE Corrected'
  BY <1>13, <1>0 DEF End, NoRequest, TypeOK, RequestStates, Verified, Corrected
<1>14. CASE UNCHANGED vars
  BY <1>0, <1>14 DEF vars, TypeOK, RequestStates, Verified, Corrected
<1>15. QED
  BY <1>1, <1>2, <1>3, <1>4, <1>5, <1>6, <1>7, <1>8, <1>9, <1>10, <1>11,
     <1>12, <1>13, <1>14
  DEF Next

\* Every step keeps the cached answer at least as old as the silence.
LEMMA AgesStep ==
  ASSUME Inv, [Next]_vars
  PROVE  CacheAges'
<1>0. TypeOK /\ CacheAges /\ AddressAssumption
  BY AddressAssumption DEF Inv
<1>1. ASSUME Tick PROVE CacheAges'
  BY <1>1, <1>0 DEF Tick, Older, TypeOK, RequestStates, CacheAges, AllNone,
     AddressAssumption
<1>2. ASSUME Cleanup PROVE CacheAges'
  BY <1>2, <1>0 DEF Cleanup, TypeOK, RequestStates, CacheAges, AllNone,
     AddressAssumption
<1>3. ASSUME NEW x \in Answers \cup {Fails}, DnsChanges(x) PROVE CacheAges'
  BY <1>3, <1>0, DnsChangesFacts DEF DnsChanges, CacheAges, AllNone
<1>4. ASSUME NEW r \in Requests, Begin(r) PROVE CacheAges'
  BY <1>4, <1>0 DEF Begin, NoRequest, TypeOK, RequestStates, CacheAges, AllNone,
     AddressAssumption
<1>5. ASSUME NEW r \in Requests, ResolveCached(r) PROVE CacheAges'
  BY <1>5, <1>0 DEF ResolveCached, Resolved, CacheHit, TypeOK, RequestStates,
     CacheAges, AllNone, AddressAssumption
<1>6. ASSUME NEW r \in Requests, AskDns(r) PROVE CacheAges'
  BY <1>6, <1>0 DEF AskDns, TypeOK, RequestStates, CacheAges, AllNone, AddressAssumption
<1>7. ASSUME NEW r \in Requests, DnsAnswers(r) PROVE CacheAges'
  BY <1>7, <1>0 DEF DnsAnswers, Resolved, TypeOK, RequestStates, CacheAges, AllNone,
     AddressAssumption
<1>8. ASSUME NEW r \in Requests, Check(r) PROVE CacheAges'
  BY <1>8, <1>0 DEF Check, TypeOK, RequestStates, CacheAges, AllNone, AddressAssumption
<1>9. ASSUME NEW r \in Requests, Reuse(r) PROVE CacheAges'
  BY <1>9, <1>0 DEF Reuse, Usable, TypeOK, RequestStates, CacheAges, AllNone,
     AddressAssumption
<1>10. ASSUME NEW r \in Requests, PinFails(r) PROVE CacheAges'
  BY <1>10, <1>0 DEF PinFails, TypeOK, RequestStates, CacheAges, AllNone,
     AddressAssumption
<1>11. ASSUME NEW r \in Requests, Build(r) PROVE CacheAges'
  BY <1>11, <1>0 DEF Build, TypeOK, RequestStates, CacheAges, AllNone, AddressAssumption
<1>12. ASSUME NEW r \in Requests, Save(r) PROVE CacheAges'
  BY <1>12, <1>0 DEF Save, NoRequest, TypeOK, RequestStates, CacheAges, AllNone,
     AddressAssumption
<1>13. ASSUME NEW r \in Requests, End(r) PROVE CacheAges'
  BY <1>13, <1>0 DEF End, NoRequest, TypeOK, RequestStates, CacheAges, AllNone,
     AddressAssumption
<1>14. CASE UNCHANGED vars
  BY <1>0, <1>14 DEF vars, TypeOK, RequestStates, CacheAges, AllNone
<1>15. QED
  BY <1>1, <1>2, <1>3, <1>4, <1>5, <1>6, <1>7, <1>8, <1>9, <1>10, <1>11,
     <1>12, <1>13, <1>14
  DEF Next

\* Every step keeps what a request can be given within the answers since the
\* host rested.
LEMMA SinceStep ==
  ASSUME Inv, [Next]_vars
  PROVE  SinceRest'
<1>0. TypeOK /\ CacheAges /\ SinceRest /\ AddressAssumption
  BY AddressAssumption DEF Inv
<1>1. ASSUME Tick PROVE SinceRest'
  BY <1>1, <1>0 DEF Tick, Older, TypeOK, RequestStates, CacheAges, AllNone, SinceRest,
     Fresh, AddressAssumption
<1>2. ASSUME Cleanup PROVE SinceRest'
  BY <1>2, <1>0 DEF Cleanup, TypeOK, RequestStates, CacheAges, AllNone, SinceRest,
     Fresh, AddressAssumption
<1>3. ASSUME NEW x \in Answers \cup {Fails}, DnsChanges(x) PROVE SinceRest'
  BY <1>3, <1>0, DnsChangesFacts DEF DnsChanges, SinceRest
<1>4. ASSUME NEW r \in Requests, Begin(r) PROVE SinceRest'
  <2>1. /\ UNCHANGED <<dns, dnsCache>>
        /\ \A o \in Requests \ {r} : req'[o] = req[o]
        /\ req'[r].phase = "begun"
        /\ req'[r].rested => quiet = Ttl /\ AllNone /\ req'[r].since = {dns}
    BY <1>4, <1>0, BeginFacts DEF Begin, TypeOK
  <2>2. ASSUME req'[r].rested, NEW i \in DOMAIN dnsCache PROVE ~Fresh(dnsCache[i])
    BY <1>0, <2>1, <2>2 DEF CacheAges, TypeOK, Fresh, AddressAssumption
  <2>3. ASSUME req'[r].rested, NEW o \in Requests PROVE req'[o].phase # "resolved"
    BY <2>1, <2>3 DEF AllNone
  <2>4. \A i \in DOMAIN dnsCache : Fresh(dnsCache[i])' <=> Fresh(dnsCache[i])
    BY <2>1 DEF Fresh
  <2>5. QED
    BY <1>0, <2>1, <2>2, <2>3, <2>4 DEF SinceRest
<1>5. ASSUME NEW r \in Requests, ResolveCached(r) PROVE SinceRest'
  BY <1>5, <1>0 DEF ResolveCached, Resolved, CacheHit, TypeOK, RequestStates,
     CacheAges, AllNone, SinceRest, Fresh, AddressAssumption
<1>6. ASSUME NEW r \in Requests, AskDns(r) PROVE SinceRest'
  BY <1>6, <1>0 DEF AskDns, TypeOK, RequestStates, CacheAges, AllNone, SinceRest,
     Fresh, AddressAssumption
<1>7. ASSUME NEW r \in Requests, DnsAnswers(r) PROVE SinceRest'
  BY <1>7, <1>0 DEF DnsAnswers, Resolved, TypeOK, RequestStates, CacheAges, AllNone,
     SinceRest, Fresh, AddressAssumption
<1>8. ASSUME NEW r \in Requests, Check(r) PROVE SinceRest'
  BY <1>8, <1>0 DEF Check, TypeOK, RequestStates, CacheAges, AllNone, SinceRest,
     Fresh, AddressAssumption
<1>9. ASSUME NEW r \in Requests, Reuse(r) PROVE SinceRest'
  BY <1>9, <1>0 DEF Reuse, Usable, TypeOK, RequestStates, CacheAges, AllNone,
     SinceRest, Fresh, AddressAssumption
<1>10. ASSUME NEW r \in Requests, PinFails(r) PROVE SinceRest'
  BY <1>10, <1>0 DEF PinFails, TypeOK, RequestStates, CacheAges, AllNone, SinceRest,
     Fresh, AddressAssumption
<1>11. ASSUME NEW r \in Requests, Build(r) PROVE SinceRest'
  BY <1>11, <1>0 DEF Build, TypeOK, RequestStates, CacheAges, AllNone, SinceRest,
     Fresh, AddressAssumption
<1>12. ASSUME NEW r \in Requests, Save(r) PROVE SinceRest'
  BY <1>12, <1>0 DEF Save, NoRequest, TypeOK, RequestStates, CacheAges, AllNone,
     SinceRest, Fresh, AddressAssumption
<1>13. ASSUME NEW r \in Requests, End(r) PROVE SinceRest'
  BY <1>13, <1>0 DEF End, NoRequest, TypeOK, RequestStates, CacheAges, AllNone,
     SinceRest, Fresh, AddressAssumption
<1>14. CASE UNCHANGED vars
  BY <1>0, <1>14 DEF vars, TypeOK, RequestStates, CacheAges, AllNone, SinceRest, Fresh
<1>15. QED
  BY <1>1, <1>2, <1>3, <1>4, <1>5, <1>6, <1>7, <1>8, <1>9, <1>10, <1>11,
     <1>12, <1>13, <1>14
  DEF Next

\* No step gives a request an answer that is outdated.
LEMMA QuietStep ==
  ASSUME Inv, [Next]_vars
  PROVE  QuietHostIsAskedAgain'
<1>0. TypeOK /\ SinceRest /\ QuietHostIsAskedAgain
  BY DEF Inv
<1>1. ASSUME Tick PROVE QuietHostIsAskedAgain'
  BY <1>1, <1>0 DEF Tick, Older, TypeOK, RequestStates, SinceRest, QuietHostIsAskedAgain
<1>2. ASSUME Cleanup PROVE QuietHostIsAskedAgain'
  BY <1>2, <1>0 DEF Cleanup, TypeOK, RequestStates, SinceRest, QuietHostIsAskedAgain
<1>3. ASSUME NEW x \in Answers \cup {Fails}, DnsChanges(x)
       PROVE  QuietHostIsAskedAgain'
  BY <1>3, <1>0, DnsChangesFacts DEF QuietHostIsAskedAgain
<1>4. ASSUME NEW r \in Requests, Begin(r) PROVE QuietHostIsAskedAgain'
  BY <1>4, <1>0 DEF Begin, NoRequest, TypeOK, RequestStates, SinceRest,
     QuietHostIsAskedAgain
<1>5. ASSUME NEW r \in Requests, ResolveCached(r) PROVE QuietHostIsAskedAgain'
  BY <1>5, <1>0 DEF ResolveCached, Resolved, CacheHit, TypeOK, RequestStates,
     SinceRest, QuietHostIsAskedAgain
<1>6. ASSUME NEW r \in Requests, AskDns(r) PROVE QuietHostIsAskedAgain'
  BY <1>6, <1>0 DEF AskDns, TypeOK, RequestStates, SinceRest, QuietHostIsAskedAgain
<1>7. ASSUME NEW r \in Requests, DnsAnswers(r) PROVE QuietHostIsAskedAgain'
  BY <1>7, <1>0 DEF DnsAnswers, Resolved, TypeOK, RequestStates, SinceRest,
     QuietHostIsAskedAgain
<1>8. ASSUME NEW r \in Requests, Check(r) PROVE QuietHostIsAskedAgain'
  BY <1>8, <1>0 DEF Check, TypeOK, RequestStates, SinceRest, QuietHostIsAskedAgain
<1>9. ASSUME NEW r \in Requests, Reuse(r) PROVE QuietHostIsAskedAgain'
  BY <1>9, <1>0 DEF Reuse, Usable, TypeOK, RequestStates, SinceRest,
     QuietHostIsAskedAgain
<1>10. ASSUME NEW r \in Requests, PinFails(r) PROVE QuietHostIsAskedAgain'
  BY <1>10, <1>0 DEF PinFails, TypeOK, RequestStates, SinceRest, QuietHostIsAskedAgain
<1>11. ASSUME NEW r \in Requests, Build(r) PROVE QuietHostIsAskedAgain'
  BY <1>11, <1>0 DEF Build, TypeOK, RequestStates, SinceRest, QuietHostIsAskedAgain
<1>12. ASSUME NEW r \in Requests, Save(r) PROVE QuietHostIsAskedAgain'
  BY <1>12, <1>0 DEF Save, NoRequest, TypeOK, RequestStates, SinceRest,
     QuietHostIsAskedAgain
<1>13. ASSUME NEW r \in Requests, End(r) PROVE QuietHostIsAskedAgain'
  BY <1>13, <1>0 DEF End, NoRequest, TypeOK, RequestStates, SinceRest,
     QuietHostIsAskedAgain
<1>14. CASE UNCHANGED vars
  BY <1>0, <1>14 DEF vars, TypeOK, RequestStates, SinceRest, QuietHostIsAskedAgain
<1>15. QED
  BY <1>1, <1>2, <1>3, <1>4, <1>5, <1>6, <1>7, <1>8, <1>9, <1>10, <1>11,
     <1>12, <1>13, <1>14
  DEF Next

\* The conjunction is an invariant of the specification.
LEMMA Invariance == Spec => []Inv
<1>1. Inv /\ [Next]_vars => Inv'
  BY TypeStep, VerifiedStep, CorrectedStep, AgesStep, SinceStep, QuietStep DEF Inv
<1>2. QED
  BY InitInv, <1>1, PTL DEF Spec

-----------------------------------------------------------------------------
(* the theorems *)

\* The lookup cache, the pinned clients and the requests keep their types.
THEOREM TypeCorrect == Spec => []TypeOK
<1>1. Inv => TypeOK
  BY DEF Inv
<1>2. QED
  BY Invariance, <1>1, PTL

\* pinned_client hands every request a client that connects to an address the
\* request itself checked, whoever built the client and whatever DNS answered
\* meanwhile.
THEOREM PinnedToVerified == Spec => []ConnectsToVerified
<1>1. Inv => ConnectsToVerified
  BY DEF Inv, Verified, ConnectsToVerified, AllAllowed
<1>2. QED
  BY Invariance, <1>1, PTL

\* resolve_and_check denies no request all of whose time DNS answered well.
THEOREM CorrectionIsSeen == Spec => []CorrectedIsNotDenied
<1>1. Inv => CorrectedIsNotDenied
  BY DEF Inv, Corrected, CorrectedIsNotDenied
<1>2. QED
  BY Invariance, <1>1, PTL

\* A host that no request used for CACHE_TTL is looked up again.
THEOREM RestedHostIsAskedAgain == Spec => []QuietHostIsAskedAgain
<1>1. Inv => QuietHostIsAskedAgain
  BY DEF Inv
<1>2. QED
  BY Invariance, <1>1, PTL
-----------------------------------------------------------------------------
(* prefixes *)

\* A non-empty set of natural numbers has a least element.
LEMMA LeastOf ==
  ASSUME NEW T \in SUBSET Nat, T # {}
  PROVE  \E x \in T : \A y \in T : x <= y
<1> DEFINE R == {ss \in Nat \X Nat : ss[1] < ss[2]}
<1>1. IsWellFoundedOn(R, Nat)
  BY NatLessThanWellFounded DEF OpToRel
<1>2. \A x, y \in Nat : y < x => <<y, x>> \in R
  OBVIOUS
<1> HIDE DEF R
<1>3. PICK x \in T : \A y \in T : <<y, x>> \notin R
  BY <1>1, WFMin
<1>4. ASSUME NEW y \in T PROVE x <= y
  <2>1. x \in Nat /\ y \in Nat /\ ~(y < x)
    BY <1>2, <1>3
  <2>2. QED
    BY <2>1
<1>5. QED
  BY <1>3, <1>4

\* The powers of two are positive, and add their exponents.
LEMMA PowersPositive == V6Bits \in Nat /\ \A n \in 0 .. V6Bits : 2 ^ n \in Nat \ {0}
<1>1. V6Bits \in Nat
  BY AddressAssumption DEF V6Bits
<1> DEFINE bad == {n \in 0 .. V6Bits : 2 ^ n \notin Nat \ {0}}
<1>2. SUFFICES ASSUME bad # {} PROVE FALSE
  BY <1>1
<1>3. PICK n \in bad : \A m \in bad : n <= m
  <2>1. bad \in SUBSET Nat
    BY <1>1
  <2> HIDE DEF bad
  <2>2. QED
    BY <1>2, <2>1, LeastOf
<1>4. n \in 0 .. V6Bits /\ 2 ^ n \notin Nat \ {0}
  BY <1>3
<1>5. n # 0
  <2>1. 2 ^ 0 = 1 /\ 1 \in Nat \ {0}
    BY PowerAssumption
  <2>2. QED
    BY <1>4, <2>1
<1>6. PICK m \in 0 .. V6Bits : n = m + 1
  <2>1. n - 1 \in 0 .. V6Bits /\ n = (n - 1) + 1
    BY <1>1, <1>4, <1>5
  <2>2. QED
    BY <2>1
<1>7. 2 ^ m \in Nat \ {0}
  <2>1. m \notin bad
    BY <1>1, <1>3, <1>6
  <2>2. QED
    BY <2>1
<1>8. 2 ^ n = 2 * 2 ^ m
  BY <1>6, PowerAssumption
<1>9. QED
  BY <1>4, <1>7, <1>8

LEMMA PowersAdd ==
  ASSUME NEW m \in 0 .. V6Bits
  PROVE  \A n \in 0 .. V6Bits - m : 2 ^ (m + n) = 2 ^ n * 2 ^ m
<1>1. V6Bits \in Nat /\ 2 ^ m \in Nat
  BY PowersPositive
<1> DEFINE bad == {n \in 0 .. V6Bits - m : 2 ^ (m + n) # 2 ^ n * 2 ^ m}
<1>2. SUFFICES ASSUME bad # {} PROVE FALSE
  OBVIOUS
<1>3. PICK n \in bad : \A k \in bad : n <= k
  <2>1. bad \in SUBSET Nat
    BY <1>1
  <2> HIDE DEF bad
  <2>2. QED
    BY <1>2, <2>1, LeastOf
<1>4. n \in 0 .. V6Bits - m /\ 2 ^ (m + n) # 2 ^ n * 2 ^ m
  BY <1>3
<1>5. n # 0
  <2>1. m + 0 = m /\ 1 * 2 ^ m = 2 ^ m
    BY <1>1
  <2>2. QED
    BY <1>4, <2>1, PowerAssumption
<1>6. PICK k \in 0 .. V6Bits - m : n = k + 1 /\ m + n = (m + k) + 1
  <2>1. n - 1 \in 0 .. V6Bits - m /\ n = (n - 1) + 1 /\ m + n = (m + (n - 1)) + 1
    BY <1>1, <1>4, <1>5
  <2>2. QED
    BY <2>1
<1>7. 2 ^ (m + k) = 2 ^ k * 2 ^ m
  <2>1. k \notin bad
    BY <1>1, <1>3, <1>6
  <2>2. QED
    BY <2>1
<1>8. k \in 0 .. V6Bits /\ m + k \in 0 .. V6Bits
  BY <1>1
<1>9. 2 ^ n = 2 * 2 ^ k /\ 2 ^ (m + n) = 2 * 2 ^ (m + k) /\ 2 ^ k \in Nat
  BY <1>6, <1>8, PowerAssumption
<1>10. PICK a \in Nat, b \in Nat : a = 2 ^ k /\ b = 2 ^ m
  BY <1>1, <1>9
<1>11. 2 * (a * b) = (2 * a) * b
  OBVIOUS
<1>12. QED
  BY <1>4, <1>7, <1>9, <1>10, <1>11

\* Division with remainder.
LEMMA Divided ==
  ASSUME NEW x \in Nat, NEW n \in Nat \ {0}
  PROVE  x \div n \in Nat /\ x % n \in 0 .. n - 1 /\ x = (x \div n) * n + (x % n)
<1>1. x = n * (x \div n) + (x % n) /\ x \div n \in Int /\ x % n \in 0 .. n - 1
  OBVIOUS
<1>2. PICK q \in Int : q = x \div n
  BY <1>1
<1>3. PICK m \in 0 .. n - 1 : m = x % n
  BY <1>1
<1>4. x = n * q + m /\ n * q = q * n /\ q * n \in Int
  BY <1>1, <1>2, <1>3
<1>5. q \in Nat
  <2>1. SUFFICES ASSUME -q \in Nat \ {0} PROVE FALSE
    OBVIOUS
  <2>2. ((-q) - 1) * n >= 0 /\ ((-q) - 1) * n = (-q) * n - n /\ (-q) * n = -(q * n)
    BY <2>1
  <2>3. QED
    BY <1>4, <2>2
<1>6. x = q * n + m
  BY <1>4
<1>7. QED
  BY <1>2, <1>3, <1>5, <1>6

LEMMA Quotient ==
  ASSUME NEW n \in Nat \ {0}, NEW q \in Nat, NEW m \in 0 .. n - 1
  PROVE  (q * n + m) \div n = q /\ (q * n + m) % n = m
<1>1. PICK x \in Nat : x = q * n + m
  <2>1. q * n \in Nat
    OBVIOUS
  <2>2. QED
    BY <2>1
<1>2. PICK p \in Nat : p = x \div n
  BY Divided
<1>3. PICK k \in 0 .. n - 1 : k = x % n
  BY Divided
<1>4. x = p * n + k
  BY <1>2, <1>3, Divided
<1>5. ASSUME NEW a \in Nat, NEW b \in Nat, a < b PROVE a * n + n <= b * n
  <2>1. b - (a + 1) \in Nat /\ b = (a + 1) + (b - (a + 1))
    BY <1>5
  <2>2. ((a + 1) + (b - (a + 1))) * n = a * n + n + (b - (a + 1)) * n
        /\ (b - (a + 1)) * n >= 0
    BY <2>1
  <2>3. a * n \in Int /\ b * n \in Int /\ (b - (a + 1)) * n \in Int
    BY <2>1
  <2>4. QED
    BY <2>1, <2>2, <2>3
<1>6. p * n \in Int /\ q * n \in Int
  OBVIOUS
<1>7. p = q
  <2>1. ~(p < q) /\ ~(q < p)
    BY <1>1, <1>4, <1>5, <1>6
  <2>2. QED
    BY <2>1
<1>8. k = m
  BY <1>1, <1>4, <1>6, <1>7
<1>9. QED
  BY <1>1, <1>2, <1>3, <1>7, <1>8

\* A quotient is an interval.
LEMMA SameQuotient ==
  ASSUME NEW x \in Nat, NEW y \in Nat, NEW n \in Nat \ {0}
  PROVE  x \div n = y \div n <=> y - (y % n) <= x /\ x < (y - (y % n)) + n
<1>1. PICK p \in Nat, j \in 0 .. n - 1 : p = x \div n /\ j = x % n /\ x = p * n + j
  BY Divided
<1>2. PICK q \in Nat, k \in 0 .. n - 1 : q = y \div n /\ k = y % n /\ y = q * n + k
  BY Divided
<1>3. p * n \in Int /\ q * n \in Int /\ y - k = q * n
  BY <1>2
<1>4. p = q => y - k <= x /\ x < (y - k) + n
  BY <1>1, <1>3
<1>5. ASSUME y - k <= x, x < (y - k) + n PROVE p = q
  <2>1. x - q * n \in 0 .. n - 1 /\ q * n + (x - q * n) = x
    BY <1>3, <1>5
  <2>2. PICK m \in 0 .. n - 1 : q * n + m = x
    BY <2>1
  <2>3. QED
    BY <1>1, <2>2, Quotient
<1>6. QED
  BY <1>1, <1>2, <1>4, <1>5

\* A product, a number by its quotient and remainder, and two numbers of the same
\* quotient: names for the provers, which would compute with the terms.
Agree(x, y, n) == x \div n = y \div n

Product(p, c, n) == p = c * n

Digits(x, q, n, m) == x = q * n + m

\* Dividing by a product is dividing twice.
LEMMA QuotientTwice ==
  ASSUME NEW c \in Nat \ {0}, NEW n \in Nat \ {0}, NEW p \in Nat \ {0}, Product(p, c, n),
         NEW h \in Nat, NEW s \in 0 .. c - 1, NEW m \in 0 .. n - 1,
         NEW q \in Nat, Digits(q, h, c, s), NEW x \in Nat, Digits(x, q, n, m)
  PROVE  x \div p = h
<1>1. (h * c + s) * n = h * (c * n) + s * n
  OBVIOUS
<1>2. s * n + m \in 0 .. p - 1
  <2>1. s * n >= 0 /\ s * n \in Int
    OBVIOUS
  <2>2. (c - 1) * n = c * n - n /\ (c - 1) * n = s * n + ((c - 1) - s) * n
        /\ ((c - 1) - s) * n >= 0
    <3>1. (c - 1) - s \in Nat
      OBVIOUS
    <3>2. PICK d \in Nat : d = (c - 1) - s
      BY <3>1
    <3>3. (s + d) * n = s * n + d * n /\ d * n >= 0 /\ s + d = c - 1
      BY <3>2
    <3>4. (c - 1) * n = c * n - n
      OBVIOUS
    <3>5. QED
      BY <3>2, <3>3, <3>4
  <2>3. ((c - 1) - s) * n \in Int /\ c * n \in Int
    OBVIOUS
  <2>4. QED
    BY <2>1, <2>2, <2>3 DEF Product
<1>3. PICK k \in 0 .. p - 1 : k = s * n + m
  BY <1>2
<1>4. x = h * p + k
  <2>1. q * n = h * p + s * n
    BY <1>1 DEF Product, Digits
  <2>2. h * p \in Int /\ s * n \in Int
    OBVIOUS
  <2>3. QED
    BY <1>3, <2>1, <2>2 DEF Digits
<1>5. QED
  BY <1>4, Quotient

LEMMA SameQuotientTwice ==
  ASSUME NEW x \in Nat, NEW y \in Nat, NEW c \in Nat \ {0}, NEW n \in Nat \ {0},
         NEW p \in Nat \ {0}, Product(p, c, n), Agree(x, y, n)
  PROVE  Agree(x, y, p)
<1>1. PICK q \in Nat, j \in 0 .. n - 1 : q = x \div n /\ x = q * n + j
  BY Divided
<1>2. PICK k \in 0 .. n - 1 : y = q * n + k
  <2>1. PICK o \in Nat, k \in 0 .. n - 1 : o = y \div n /\ y = o * n + k
    BY Divided
  <2>2. o = q
    BY <1>1, <2>1 DEF Agree
  <2>3. QED
    BY <2>1, <2>2
<1>3. PICK h \in Nat, s \in 0 .. c - 1 : h = q \div c /\ q = h * c + s
  BY Divided
<1>4. Digits(x, q, n, j) /\ Digits(y, q, n, k) /\ Digits(q, h, c, s)
  BY <1>1, <1>2, <1>3 DEF Digits
<1>5. x \div p = h /\ y \div p = h
  BY <1>4, QuotientTwice
<1>6. QED
  BY <1>5 DEF Agree

LEMMA QuotientOfSum ==
  ASSUME NEW h \in Nat, NEW c \in Nat \ {0}, NEW n \in Nat \ {0}, NEW u \in Nat,
         NEW p \in Nat \ {0}, p = c * n, NEW x \in Nat, x = h * p + u
  PROVE  x \div n = h * c + (u \div n)
<1>1. PICK q \in Nat, m \in 0 .. n - 1 : q = u \div n /\ u = q * n + m
  BY Divided
<1>2. PICK k \in Nat : k = h * c
  OBVIOUS
<1>3. h * p = k * n
  <2>1. h * (c * n) = (h * c) * n
    OBVIOUS
  <2>2. QED
    BY <1>2, <2>1
<1>4. (k + q) * n = k * n + q * n /\ k * n \in Int /\ q * n \in Int
  OBVIOUS
<1>5. x = (k + q) * n + m
  BY <1>1, <1>3, <1>4
<1>6. PICK z \in Nat : z = k + q /\ x = z * n + m
  BY <1>5
<1>7. x \div n = z
  BY <1>6, Quotient
<1>8. QED
  BY <1>1, <1>2, <1>6, <1>7

\* normalize_ip: its result is an address, and stays what it is.
LEMMA NormalizeFacts ==
  ASSUME NEW ip \in Ips
  PROVE  /\ Normalize(ip) \in Ips
         /\ Normalize(Normalize(ip)) = Normalize(ip)
         /\ Normalize(ip).family = 6 => Normalize(ip) = ip
<1>1. V4Bits \in 0 .. V6Bits /\ V6Bits \in Nat
  BY AddressAssumption DEF V6Bits
<1>2. 2 ^ V4Bits \in Nat \ {0} /\ 2 ^ V6Bits \in Nat \ {0}
  BY <1>1, PowersPositive
<1>3. CASE ip.family = 6 /\ Block(ip) \in {0, 1}
  <2>1. PICK n \in Nat \ {0} : n = 2 ^ V4Bits
    BY <1>2
  <2>2. ip.bits \in Nat
    BY <1>2 DEF Ips, V4s, V6s
  <2>3. PICK k \in 0 .. n - 1 : k = ip.bits % n
    BY <2>2, Divided
  <2>4. Normalize(ip) = [family |-> 4, bits |-> k]
    BY <1>3, <2>1, <2>3 DEF Normalize
  <2>5. [family |-> 4, bits |-> k] \in Ips
    BY <2>1 DEF Ips, V4s
  <2>6. QED
    BY <2>4, <2>5 DEF Normalize
<1>4. CASE ~(ip.family = 6 /\ Block(ip) \in {0, 1})
  BY <1>4 DEF Normalize
<1>5. QED
  BY <1>3, <1>4

\* The numbers of an address with an IPv4 address at its end.
LEMMA SwapEnd ==
  ASSUME NEW x \in 0 .. 2 ^ V6Bits - 1, NEW u \in 0 .. 2 ^ V4Bits - 1,
         NEW len \in 0 .. V6Bits, NEW low \in Nat \ {0},
         low = 2 ^ (V4Bits - Shorter(len, 4)),
         u \div low = (x % 2 ^ V4Bits) \div low
  PROVE  \E y \in 0 .. 2 ^ V6Bits - 1 :
           /\ y \div 2 ^ (V4Bits + 1) = x \div 2 ^ (V4Bits + 1)
           /\ y % 2 ^ V4Bits = u
           /\ y \div 2 ^ (V6Bits - len) = x \div 2 ^ (V6Bits - len)
<1>1. V4Bits \in Nat /\ V6Bits \in Nat /\ V6Bits = V4Bits + 3
  BY AddressAssumption DEF V6Bits
<1>2. V4Bits \in 0 .. V6Bits /\ V6Bits - len \in 0 .. V6Bits /\ 3 \in 0 .. V6Bits
  BY <1>1
<1>3. PICK T \in Nat \ {0} : T = 2 ^ V4Bits
  BY <1>2, PowersPositive
<1>4. PICK S \in Nat \ {0} : S = 2 ^ (V6Bits - len)
  BY <1>2, PowersPositive
<1>5. 2 ^ 0 = 1 /\ 2 ^ 1 = 2 /\ 2 ^ 2 = 4 /\ 2 ^ 3 = 8
  <2>1. 0 \in 0 .. V6Bits /\ 1 \in 0 .. V6Bits /\ 2 \in 0 .. V6Bits
    BY <1>1
  <2>2. 2 ^ (0 + 1) = 2 * 2 ^ 0 /\ 2 ^ (1 + 1) = 2 * 2 ^ 1 /\ 2 ^ (2 + 1) = 2 * 2 ^ 2
    BY <2>1, PowerAssumption
  <2>3. 2 ^ 0 = 1
    BY PowerAssumption
  <2>4. 2 ^ 1 = 2
    BY <2>2, <2>3
  <2>5. 2 ^ 2 = 4
    BY <2>2, <2>4
  <2>6. QED
    BY <2>2, <2>3, <2>4, <2>5
<1>6. 2 ^ (V4Bits + 1) = 2 * T /\ 2 ^ V6Bits = 8 * T
  <2>1. 2 ^ (V4Bits + 1) = 2 * 2 ^ V4Bits
    BY <1>2, PowerAssumption
  <2>2. 3 \in 0 .. V6Bits - V4Bits
    BY <1>1
  <2>3. 2 ^ (V4Bits + 3) = 2 ^ 3 * 2 ^ V4Bits
    BY <1>2, <2>2, PowersAdd
  <2>4. QED
    BY <1>1, <1>3, <1>5, <2>1, <2>3
<1>7. x \in Nat /\ x < 8 * T /\ u \in 0 .. T - 1
  BY <1>3, <1>6
<1>8. PICK h \in Nat, v \in 0 .. T - 1 : h = x \div T /\ v = x % T /\ x = h * T + v
  <2>1. x \div T \in Nat /\ x % T \in 0 .. T - 1 /\ x = (x \div T) * T + (x % T)
    BY <1>7, Divided
  <2>2. QED
    BY <2>1
<1>9. PICK y \in Nat : y = h * T + u
  <2>1. h * T \in Nat
    OBVIOUS
  <2>2. QED
    BY <1>7, <2>1
<1>10. y \div T = h /\ y % T = u
  BY <1>7, <1>9, Quotient
<1>11. x \in Nat /\ Agree(y, x, T)
  BY <1>7, <1>8, <1>10 DEF Agree
<1>12. y \in 0 .. 2 ^ V6Bits - 1
  <2>1. h < 8
    <3>1. SUFFICES ASSUME h - 8 \in Nat PROVE FALSE
      OBVIOUS
    <3>2. (8 + (h - 8)) * T = 8 * T + (h - 8) * T /\ (h - 8) * T >= 0 /\ 8 + (h - 8) = h
      BY <3>1
    <3>3. h * T \in Int /\ (h - 8) * T \in Int
      OBVIOUS
    <3>4. QED
      BY <1>7, <1>8, <3>2, <3>3
  <2>2. (h + 1) * T <= 8 * T
    <3>1. 7 - h \in Nat
      BY <2>1
    <3>2. ((h + 1) + (7 - h)) * T = (h + 1) * T + (7 - h) * T /\ (7 - h) * T >= 0
          /\ (h + 1) + (7 - h) = 8
      BY <3>1
    <3>3. (h + 1) * T \in Int /\ (7 - h) * T \in Int
      OBVIOUS
    <3>4. QED
      BY <3>2, <3>3
  <2>3. (h + 1) * T = h * T + T /\ h * T \in Int
    OBVIOUS
  <2>4. y < 8 * T
    BY <1>7, <1>9, <2>2, <2>3
  <2>5. QED
    BY <1>6, <2>4
<1>13. y \div (2 * T) = x \div (2 * T)
  <2>1. PICK D \in Nat \ {0} : D = 2 * T /\ Product(D, 2, T)
    BY DEF Product
  <2>2. Agree(y, x, D)
    <3>1. 2 \in Nat \ {0}
      OBVIOUS
    <3>2. QED
      BY <1>11, <2>1, <3>1, SameQuotientTwice
  <2>3. QED
    BY <2>1, <2>2 DEF Agree
<1>14. ASSUME len <= 3 PROVE y \div S = x \div S
  <2>1. 3 - len \in 0 .. V6Bits - V4Bits /\ V4Bits + (3 - len) = V6Bits - len
        /\ 3 - len \in 0 .. V6Bits
    BY <1>1, <1>14
  <2>2. PICK c \in Nat \ {0} : c = 2 ^ (3 - len)
    BY <2>1, PowersPositive
  <2>3. S = c * T
    BY <1>2, <1>3, <1>4, <2>1, <2>2, PowersAdd
  <2>4. Product(S, c, T)
    BY <2>3 DEF Product
  <2>5. Agree(y, x, S)
    BY <1>11, <2>4, SameQuotientTwice
  <2>6. QED
    BY <2>5 DEF Agree
<1>15. ASSUME len > 3, len <= V4Bits PROVE y \div S = x \div S
  <2>1. Shorter(len, 4) = len
    BY <1>1, <1>15 DEF Shorter, Width
  <2>2. PICK e \in 0 .. V6Bits : e = V4Bits - len /\ e + 3 = V6Bits - len /\ low = 2 ^ e
    BY <1>1, <1>15, <2>1
  <2>3. S = 8 * low
    <3>1. 3 \in 0 .. V6Bits - e
      BY <1>1, <2>2
    <3>2. 2 ^ (e + 3) = 2 ^ 3 * 2 ^ e
      BY <3>1, PowersAdd
    <3>3. QED
      BY <1>4, <1>5, <2>2, <3>2
  <2>4. PICK c \in Nat \ {0} : T = c * S
    <3>1. PICK m \in 0 .. V6Bits : m = V6Bits - len
      BY <1>2
    <3>2. PICK d \in 0 .. V6Bits - m : d = len - 3 /\ m + d = V4Bits /\ d \in 0 .. V6Bits
      BY <1>1, <1>15, <3>1
    <3>3. 2 ^ (m + d) = 2 ^ d * 2 ^ m
      BY PowersAdd
    <3>4. PICK c \in Nat \ {0} : c = 2 ^ d
      BY <3>2, PowersPositive
    <3>5. QED
      BY <1>3, <1>4, <3>1, <3>2, <3>3, <3>4
  <2>5. Agree(u, v, low)
    BY <1>3, <1>8 DEF Agree
  <2>6. u \div S = v \div S
    <3>1. u \in Nat /\ v \in Nat
      BY <1>7
    <3>2. 8 \in Nat \ {0} /\ Product(S, 8, low)
      BY <2>3 DEF Product
    <3>3. Agree(u, v, S)
      BY <2>5, <3>1, <3>2, SameQuotientTwice
    <3>4. QED
      BY <3>3 DEF Agree
  <2>7. x \div S = h * c + (v \div S) /\ y \div S = h * c + (u \div S)
    <3>1. u \in Nat /\ v \in Nat
      BY <1>7
    <3>2. ASSUME NEW k \in Nat, NEW z \in Nat, z = h * T + k
          PROVE  z \div S = h * c + (k \div S)
      BY <2>4, <3>2, QuotientOfSum
    <3>3. QED
      BY <1>7, <1>8, <1>9, <3>1, <3>2
  <2>8. QED
    BY <2>6, <2>7
<1>16. ASSUME len > 3, len > V4Bits PROVE y \div S = x \div S
  <2>1. Shorter(len, 4) = V4Bits
    BY <1>1, <1>16 DEF Shorter, Width
  <2>2. low = 1
    <3>1. V4Bits - V4Bits = 0
      BY <1>1
    <3>2. QED
      BY <1>5, <2>1, <3>1
  <2>3. ASSUME NEW k \in Nat PROVE k \div 1 = k
    <3>1. (k * 1 + 0) \div 1 = k
      <4>1. 1 \in Nat \ {0} /\ 0 \in 0 .. 1 - 1
        OBVIOUS
      <4>2. QED
        BY <4>1, Quotient
    <3>2. k * 1 + 0 = k
      OBVIOUS
    <3>3. QED
      BY <3>1, <3>2
  <2>4. u = v
    <3>1. u \in Nat /\ v \in Nat /\ u \div 1 = v \div 1
      BY <1>3, <1>7, <1>8, <2>2
    <3>2. QED
      BY <2>3, <3>1
  <2>5. QED
    BY <1>8, <1>9, <2>4
<1>17. y \div S = x \div S
  <2>1. len <= 3 \/ (len > 3 /\ len <= V4Bits) \/ (len > 3 /\ len > V4Bits)
    BY <1>1
  <2>2. QED
    BY <1>14, <1>15, <1>16, <2>1
<1>18. QED
  BY <1>3, <1>4, <1>6, <1>10, <1>12, <1>13, <1>17

\* ip_in_prefix, within a family: being equal under the mask is being in the interval.
LEMMA MaskIsInterval ==
  ASSUME NEW a \in Ips, NEW cidr \in Cidrs, cidr.len <= Width(cidr.ip.family),
         a.family = cidr.ip.family
  PROVE  /\ Within(a, cidr) <=>
              a.bits \div 2 ^ (Width(cidr.ip.family) - cidr.len)
                = cidr.ip.bits \div 2 ^ (Width(cidr.ip.family) - cidr.len)
         /\ IpInCidr(a, cidr) <=> Within(a, cidr)
<1>1. V4Bits \in Nat /\ V6Bits \in Nat /\ V4Bits <= V6Bits
  BY AddressAssumption DEF V6Bits
<1>2. PICK w \in 0 .. V6Bits : w = Width(cidr.ip.family)
  BY <1>1 DEF Width
<1>3. PICK l \in 0 .. w : l = cidr.len
  BY <1>2 DEF Cidrs
<1>4. w - l \in 0 .. V6Bits
  BY <1>1
<1>5. PICK size \in Nat \ {0} : size = 2 ^ (w - l)
  BY <1>4, PowersPositive
<1>6. cidr.ip \in Ips
  BY DEF Cidrs
<1>7. 2 ^ V4Bits \in Nat \ {0} /\ 2 ^ V6Bits \in Nat \ {0}
  BY <1>1, PowersPositive
<1>8. PICK x \in Nat : x = a.bits
  BY <1>7 DEF Ips, V4s, V6s
<1>9. PICK y \in Nat : y = cidr.ip.bits
  BY <1>6, <1>7 DEF Ips, V4s, V6s
<1>10. x \div size = y \div size <=> y - (y % size) <= x /\ x < (y - (y % size)) + size
  BY SameQuotient
<1>11. Within(a, cidr) <=> y - (y % size) <= x /\ x < (y - (y % size)) + size
  BY <1>2, <1>3, <1>5, <1>8, <1>9 DEF Within
<1>12. Shorter(l, cidr.ip.family) = l
  BY <1>1, <1>2 DEF Shorter
<1>13. IpInCidr(a, cidr) <=> x \div size = y \div size
  BY <1>2, <1>3, <1>5, <1>8, <1>9, <1>12 DEF IpInCidr, IpInPrefix, SameTop
<1>14. QED
  BY <1>2, <1>3, <1>5, <1>8, <1>9, <1>10, <1>11, <1>13

\* An IPv4 address that is in a prefix of IPv6 addresses has a notation in it.
LEMMA NotationInPrefix ==
  ASSUME NEW a \in V4s, NEW cidr \in Cidrs, cidr.len <= Width(cidr.ip.family),
         cidr.ip.family = 6, IpInCidr(a, cidr)
  PROVE  \E b \in Ips : Normalize(b) = a /\ Within(b, cidr)
<1>1. V4Bits \in Nat /\ V6Bits \in Nat /\ V6Bits = V4Bits + 3 /\ V4Bits \in 0 .. V6Bits
  BY AddressAssumption DEF V6Bits
<1>2. PICK p : p = cidr.ip
  OBVIOUS
<1>3. p \in V6s
  BY <1>2 DEF Cidrs, Ips, V4s, V6s
<1>4. PICK len \in 0 .. V6Bits : len = cidr.len
  BY <1>1 DEF Cidrs, Width
<1>5. PICK x \in 0 .. 2 ^ V6Bits - 1 : x = p.bits
  BY <1>3 DEF V6s
<1>6. PICK u \in 0 .. 2 ^ V4Bits - 1 : u = a.bits /\ a = [family |-> 4, bits |-> u]
  BY DEF V4s
<1>7. a.family = 4 /\ p.family = 6
  BY <1>2, <1>3 DEF V4s
<1>8. Normalize(a) = a
  BY <1>7 DEF Normalize
<1>9. IpInPrefix(a, p, len)
  BY <1>2, <1>4 DEF IpInCidr
<1>10. Normalize(p).family = 4 /\ SameTop(a, Normalize(p), Shorter(len, 4))
  BY <1>7, <1>8, <1>9 DEF IpInPrefix
<1>11. Block(p) \in {0, 1} /\ Normalize(p) = [family |-> 4, bits |-> x % 2 ^ V4Bits]
  BY <1>5, <1>7, <1>10 DEF Normalize
<1>12. V4Bits - Shorter(len, 4) \in 0 .. V6Bits
  BY <1>1 DEF Shorter, Width
<1>13. PICK low \in Nat \ {0} : low = 2 ^ (V4Bits - Shorter(len, 4))
  BY <1>12, PowersPositive
<1>14. u \div low = (x % 2 ^ V4Bits) \div low
  BY <1>6, <1>7, <1>10, <1>11, <1>13 DEF SameTop, Width
<1>15. PICK y \in 0 .. 2 ^ V6Bits - 1 :
         /\ y \div 2 ^ (V4Bits + 1) = x \div 2 ^ (V4Bits + 1)
         /\ y % 2 ^ V4Bits = u
         /\ y \div 2 ^ (V6Bits - len) = x \div 2 ^ (V6Bits - len)
  BY <1>13, <1>14, SwapEnd
<1>16. PICK b : b = [family |-> 6, bits |-> y]
  OBVIOUS
<1>17. b \in Ips /\ b.family = 6 /\ b.bits = y
  BY <1>16 DEF Ips, V6s
<1>18. Normalize(b) = a
  <2>1. Block(b) = Block(p)
    BY <1>5, <1>15, <1>17 DEF Block
  <2>2. QED
    BY <1>6, <1>11, <1>15, <1>17, <2>1 DEF Normalize
<1>19. Within(b, cidr)
  <2>1. Width(6) = V6Bits
    BY DEF Width
  <2>2. b.bits \div 2 ^ (Width(cidr.ip.family) - cidr.len)
          = cidr.ip.bits \div 2 ^ (Width(cidr.ip.family) - cidr.len)
    BY <1>2, <1>4, <1>5, <1>15, <1>17, <2>1
  <2>3. QED
    BY <1>17, <2>2, MaskIsInterval
<1>20. QED
  BY <1>17, <1>18, <1>19

\* An IPv6 entry is to an IPv4 address what its IPv4 address is, with its length cut.
LEMMA EntryOfOtherFamily ==
  ASSUME NEW a \in Ips, Normalize(a) = a, NEW cidr \in Cidrs,
         cidr.len <= Width(cidr.ip.family), a.family # cidr.ip.family,
         NEW v4, v4 = [ip |-> Normalize(cidr.ip), len |-> Shorter(cidr.len, 4)]
  PROVE  IpInCidr(a, cidr) <=> a.family = 4 /\ Within(a, v4)
<1>1. V4Bits \in Nat /\ V6Bits \in Nat /\ V4Bits <= V6Bits
  BY AddressAssumption DEF V6Bits
<1>2. PICK p \in Ips : p = Normalize(cidr.ip)
  BY NormalizeFacts DEF Cidrs
<1>3. a.family \in {4, 6} /\ cidr.ip.family \in {4, 6} /\ p.family \in {4, 6}
  BY <1>2 DEF Cidrs, Ips, V4s, V6s
<1>4. PICK len \in 0 .. V4Bits : len = Shorter(cidr.len, 4)
  BY <1>1 DEF Cidrs, Shorter, Width
<1>5. v4 \in Cidrs /\ v4.ip = p /\ v4.len = len
  BY <1>1, <1>2, <1>4 DEF Cidrs
<1>6. IpInCidr(a, cidr) <=>
        a.family = p.family /\ SameTop(a, p, Shorter(cidr.len, a.family))
  BY <1>2 DEF IpInCidr, IpInPrefix
<1>7. CASE a.family = 6
  <2>1. p.family = 4
    BY <1>2, <1>3, <1>7 DEF Normalize
  <2>2. QED
    BY <1>6, <1>7, <2>1
<1>8. CASE a.family = 4 /\ p.family = 6
  BY <1>5, <1>6, <1>8 DEF Within
<1>9. CASE a.family = 4 /\ p.family = 4
  <2>1. v4.len <= Width(v4.ip.family) /\ Shorter(len, 4) = len
    BY <1>1, <1>5, <1>9 DEF Width, Shorter
  <2>2. IpInCidr(a, v4) <=> Within(a, v4)
    BY <1>5, <1>9, <2>1, MaskIsInterval
  <2>3. IpInCidr(a, v4) <=> SameTop(a, p, len)
    BY <1>5, <1>9, <2>1 DEF IpInCidr, IpInPrefix
  <2>4. QED
    BY <1>4, <1>6, <1>9, <2>2, <2>3
<1>10. QED
  BY <1>3, <1>7, <1>8, <1>9

\* The interval of a single address.
LEMMA SingleAddress ==
  ASSUME NEW ip \in Ips, NEW cidr \in Cidrs,
         cidr.len = Width(cidr.ip.family), Within(ip, cidr)
  PROVE  ip = cidr.ip
<1>1. V4Bits \in Nat /\ V6Bits \in Nat
  BY AddressAssumption DEF V6Bits
<1>2. 2 ^ V4Bits \in Nat /\ 2 ^ V6Bits \in Nat
  BY <1>1, PowersPositive DEF V6Bits
<1>3. PICK x \in Nat : x = ip.bits
  BY <1>2 DEF Ips, V4s, V6s
<1>4. PICK y \in Nat : y = cidr.ip.bits
  BY <1>2 DEF Cidrs, Ips, V4s, V6s
<1>5. PICK w \in Nat : w = Width(cidr.ip.family)
  BY <1>1 DEF Width
<1>6. 2 ^ (w - w) = 1
  <2>1. w - w = 0
    OBVIOUS
  <2>2. QED
    BY <2>1, PowerAssumption
<1>7. y - (y % 1) <= x /\ x < (y - (y % 1)) + 1 /\ ip.family = cidr.ip.family
  BY <1>3, <1>4, <1>5, <1>6 DEF Within
<1>8. y % 1 = 0
  <2>1. y % 1 \in 0 .. 1 - 1
    <3>1. 1 \in Nat \ {0}
      OBVIOUS
    <3>2. QED
      BY <3>1, Divided
  <2>2. QED
    BY <2>1
<1>9. ip.bits = cidr.ip.bits
  BY <1>3, <1>4, <1>7, <1>8
<1>10. QED
  BY <1>7, <1>9 DEF Cidrs, Ips, V4s, V6s

\* An entry for a single address matches it, as it is normalised.
LEMMA SingleEntryMatches ==
  ASSUME NEW cidr \in Cidrs, cidr.len = Width(cidr.ip.family)
  PROVE  IpInCidr(Normalize(cidr.ip), cidr)
<1>1. PICK a : a = Normalize(cidr.ip)
  OBVIOUS
<1>2. Normalize(a) = a
  BY <1>1, NormalizeFacts DEF Cidrs
<1>3. cidr.len <= Width(cidr.ip.family)
  BY AddressAssumption DEF V6Bits, Width
<1>4. a.family = cidr.ip.family => a = cidr.ip
  BY <1>1 DEF Normalize
<1>5. IpInPrefix(a, cidr.ip, cidr.len)
  BY <1>1, <1>2, <1>4 DEF IpInPrefix, SameTop
<1>6. QED
  BY <1>1, <1>3, <1>5 DEF IpInCidr

\* ip_in_cidr, of an address as is_allowed normalises it: for addresses of every
\* width and every prefix, an entry stands for its interval, or for the interval of
\* the IPv4 address that it embeds, which is a part of that.
THEOREM PrefixIsInterval == Spec => []PrefixesMeanIntervals
<1>1. ASSUME NEW cidr \in Cidrs, NEW ip \in Ips, NEW a, a = Normalize(ip),
             NEW v4, v4 = [ip |-> Normalize(cidr.ip), len |-> Shorter(cidr.len, 4)]
      PROVE  IF cidr.len > Width(cidr.ip.family) THEN ~IpInCidr(a, cidr)
             ELSE /\ a.family = cidr.ip.family => (IpInCidr(a, cidr) <=> Within(a, cidr))
                  /\ a.family # cidr.ip.family =>
                       (IpInCidr(a, cidr) <=> a.family = 4 /\ Within(a, v4))
                  /\ IpInCidr(a, cidr) => \E b \in Ips : Normalize(b) = a /\ Within(b, cidr)
                  /\ cidr.len = Width(cidr.ip.family) /\ Within(ip, cidr) => IpInCidr(a, cidr)
  <2>1. cidr.len \in Int /\ Width(cidr.ip.family) \in Int
    BY AddressAssumption DEF Cidrs, V6Bits, Width
  <2>2. CASE cidr.len > Width(cidr.ip.family)
    BY <2>1, <2>2 DEF IpInCidr
  <2>3. CASE ~(cidr.len > Width(cidr.ip.family))
    <3>1. cidr.len <= Width(cidr.ip.family)
      BY <2>1, <2>3
    <3>2. a \in Ips /\ Normalize(a) = a /\ cidr.ip \in Ips
      BY <1>1, NormalizeFacts DEF Cidrs
    <3>3. a.family = cidr.ip.family => (IpInCidr(a, cidr) <=> Within(a, cidr))
      BY <3>1, <3>2, MaskIsInterval
    <3>4. a.family # cidr.ip.family => (IpInCidr(a, cidr) <=> a.family = 4 /\ Within(a, v4))
      BY <1>1, <3>1, <3>2, EntryOfOtherFamily
    <3>5. ASSUME IpInCidr(a, cidr), a.family # cidr.ip.family
          PROVE  \E b \in Ips : Normalize(b) = a /\ Within(b, cidr)
      <4>1. a.family = 4
        BY <3>4, <3>5
      <4>2. a \in V4s /\ cidr.ip.family = 6
        BY <3>2, <3>5, <4>1 DEF Ips, V4s, V6s
      <4>3. QED
        BY <3>1, <3>5, <4>2, NotationInPrefix
    <3>6. cidr.len = Width(cidr.ip.family) /\ Within(ip, cidr) => IpInCidr(a, cidr)
      BY <1>1, SingleAddress, SingleEntryMatches
    <3>7. QED
      BY <2>3, <3>2, <3>3, <3>4, <3>5, <3>6
  <2>4. QED
    BY <2>2, <2>3
<1>2. PrefixesMeanIntervals
  BY <1>1 DEF PrefixesMeanIntervals
<1>3. QED
  BY <1>2, PTL
================================================================================
