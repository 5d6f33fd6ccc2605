----------------------------- MODULE Wsd_proofs -----------------------------
(***************************************************************************)
(* Theorems about discovery, HTTP calls and scan jobs of the WSD backend:  *)
(* for any devices and hosts, whatever the network answers, and for every  *)
(* word size and limit.                                                    *)
(***************************************************************************)
EXTENDS WsdDiscoveryModel, WsdHttpTransport, WsdJobModel, Subsequences_proofs, TLAPS

\* No two members of a list, candidates or endpoints, are of the same device.
Distinct(list) ==
  \A i, j \in 1 .. Len(list) : list[i].device = list[j].device => i = j

\* No member of the one is of the same device as a member of the other.
Apart(list, other) ==
  \A i \in 1 .. Len(list), j \in 1 .. Len(other) : list[i].device # other[j].device

-----------------------------------------------------------------------------
(* The lists of a search.                                                  *)

LEMMA EmptyIsDistinct ==
  ASSUME NEW S
  PROVE  /\ <<>> \in Seq(S) /\ Len(<<>>) = 0
         /\ Distinct(<<>>) /\ \A other : Apart(<<>>, other) /\ Apart(other, <<>>)
  BY DEF Distinct, Apart

\* The candidates after the first one.
LEMMA TailIsDistinct ==
  ASSUME NEW S, NEW list \in Seq(S), list # <<>>, Distinct(list)
  PROVE  /\ Tail(list) \in Seq(S) /\ Len(Tail(list)) = Len(list) - 1
         /\ Distinct(Tail(list))
         /\ \A i \in 1 .. Len(Tail(list)) : Tail(list)[i].device # list[1].device
         /\ \A other : Apart(other, list) => Apart(other, Tail(list))
<1> DEFINE rest == Tail(list)
<1>1. /\ rest \in Seq(S) /\ Len(rest) = Len(list) - 1 /\ Len(list) \in Nat \ {0}
      /\ \A i \in 1 .. Len(rest) : rest[i] = list[i + 1]
  OBVIOUS
<1> HIDE DEF rest
<1>2. \A i \in 1 .. Len(rest) : i + 1 \in 1 .. Len(list) /\ i + 1 # 1 /\ 1 \in 1 .. Len(list)
  BY <1>1
<1>3. Distinct(rest)
  BY <1>1, <1>2 DEF Distinct
<1>4. \A i \in 1 .. Len(rest) : rest[i].device # list[1].device
  BY <1>1, <1>2 DEF Distinct
<1>5. \A other : Apart(other, list) => Apart(other, rest)
  BY <1>1, <1>2 DEF Apart
<1> QED
  BY <1>1, <1>3, <1>4, <1>5 DEF rest

\* An endpoint of a device that has none yet.
LEMMA AppendIsDistinct ==
  ASSUME NEW S, NEW list \in Seq(S), Distinct(list), NEW e \in S,
         \A i \in 1 .. Len(list) : list[i].device # e.device
  PROVE  /\ Distinct(Append(list, e))
         /\ \A other : /\ Apart(list, other)
                       /\ \A j \in 1 .. Len(other) : other[j].device # e.device
                       => Apart(Append(list, e), other)
<1> DEFINE longer == Append(list, e)
<1>1. /\ Len(longer) = Len(list) + 1 /\ longer[Len(list) + 1] = e /\ Len(list) \in Nat
      /\ \A i \in 1 .. Len(list) : longer[i] = list[i]
  BY AppendByPosition
<1> HIDE DEF longer
<1>2. \A i \in 1 .. Len(longer) : \/ i \in 1 .. Len(list) /\ longer[i] = list[i]
                                  \/ i = Len(list) + 1 /\ longer[i] = e
  BY <1>1
<1>3. Distinct(longer)
  BY <1>1, <1>2 DEF Distinct
<1>4. ASSUME NEW other, Apart(list, other), \A j \in 1 .. Len(other) : other[j].device # e.device
      PROVE  Apart(longer, other)
  BY <1>2, <1>4 DEF Apart
<1> QED
  BY <1>3, <1>4 DEF longer

\* A datagram gives candidates.
LEMMA DecodedAreCandidates ==
  ASSUME NEW relates, NEW sender \in Host, NEW matches \in Seq(Match)
  PROVE  Decoded(relates, sender, matches) \in Seq(Candidate)
<1> DEFINE accepted == {i \in DOMAIN matches : matches[i].scan /\ sender \in matches[i].xaddrs}
           all == [i \in DOMAIN matches |-> [device |-> matches[i].device, host |-> sender]]
<1>1. all \in Seq(Candidate)
  <2>1. \A match \in Match : [device |-> match.device, host |-> sender] \in Candidate
    BY DiscoveryAssumption DEF Candidate
  <2>2. /\ DOMAIN matches = 1 .. Len(matches) /\ Len(matches) \in Nat
        /\ \A i \in 1 .. Len(matches) : matches[i] \in Match
    OBVIOUS
  <2>3. \A i \in 1 .. Len(matches) : [device |-> matches[i].device, host |-> sender] \in Candidate
    BY <2>1, <2>2, Zenon
  <2> QED
    BY <2>2, <2>3
<1>2. Subsequence(all, accepted) \in Seq(Candidate)
  <2> HIDE DEF all, accepted
  <2> QED
    BY <1>1, SubsequenceMembers, Zenon
<1>3. <<>> \in Seq(Candidate)
  OBVIOUS
<1> QED
  BY <1>2, <1>3, Zenon DEF Decoded

\* Of the candidates of one device the first is kept.
LEMMA CollectedAreDistinct ==
  ASSUME NEW S, NEW known \in Seq(S), Distinct(known), NEW decoded \in Seq(S)
  PROVE  Collect(known, decoded) \in Seq(S) /\ Distinct(Collect(known, decoded))
<1> DEFINE New(i) == /\ \A j \in DOMAIN known : known[j].device # decoded[i].device
                     /\ \A j \in 1 .. i - 1 : decoded[j].device # decoded[i].device
           news == {i \in DOMAIN decoded : New(i)}
           more == Subsequence(decoded, news)
           place == Ascending(Len(decoded), news)
           all == known \o more
<1>1. /\ more \in Seq(S)
      /\ \A i \in 1 .. Len(more) : more[i] = decoded[place[i]] /\ place[i] \in 1 .. Len(decoded) /\ place[i] \in news
      /\ \A i, j \in 1 .. Len(more) : i < j => place[i] < place[j]
  <2> HIDE DEF news
  <2> QED
    BY SubsequenceMembers, Zenon
<1> HIDE DEF more, place
<1>2. DOMAIN known = 1 .. Len(known) /\ Len(known) \in Nat /\ Len(more) \in Nat
  BY <1>1
<1>3. /\ all \in Seq(S) /\ Len(all) = Len(known) + Len(more)
      /\ \A i \in 1 .. Len(known) : all[i] = known[i]
      /\ \A i \in 1 .. Len(more) : all[Len(known) + i] = more[i]
  BY <1>1
<1> HIDE DEF all
<1>4. ASSUME NEW i \in 1 .. Len(more), NEW j \in 1 .. Len(more), i < j
      PROVE  more[i].device # more[j].device
  <2>1. place[i] \in 1 .. place[j] - 1
    BY <1>1, <1>4
  <2> QED
    BY <1>1, <2>1
<1>5. \A i \in 1 .. Len(known), j \in 1 .. Len(more) : known[i].device # more[j].device
  BY <1>1, <1>2
<1>6. ASSUME NEW i \in 1 .. Len(all), NEW j \in 1 .. Len(all), i < j
      PROVE  all[i].device # all[j].device
  <2>1. CASE j \in 1 .. Len(known)
    <3>1. i \in 1 .. Len(known) /\ i # j
      BY <1>2, <1>6, <2>1
    <3> QED
      BY <1>3, <2>1, <3>1 DEF Distinct
  <2>2. CASE i \in 1 .. Len(known) /\ j \notin 1 .. Len(known)
    <3>1. j - Len(known) \in 1 .. Len(more) /\ Len(known) + (j - Len(known)) = j
      BY <1>2, <1>3, <2>2
    <3>2. all[j] = more[j - Len(known)]
      BY <1>3, <3>1
    <3> QED
      BY <1>3, <1>5, <2>2, <3>1, <3>2
  <2>3. CASE i \notin 1 .. Len(known)
    <3>1. /\ i - Len(known) \in 1 .. Len(more) /\ Len(known) + (i - Len(known)) = i
          /\ j - Len(known) \in 1 .. Len(more) /\ Len(known) + (j - Len(known)) = j
          /\ i - Len(known) < j - Len(known)
      BY <1>2, <1>3, <1>6, <2>3
    <3>2. all[i] = more[i - Len(known)] /\ all[j] = more[j - Len(known)]
      BY <1>3, <3>1
    <3> QED
      BY <1>4, <3>1, <3>2
  <2> QED
    BY <1>2, <1>3, <1>6, <2>1, <2>2, <2>3
<1>7. Distinct(all)
  <2>1. Len(all) \in Nat
    BY <1>2, <1>3
  <2> QED
    BY <1>6, <2>1 DEF Distinct
<1> QED
  BY <1>3, <1>7, Zenon DEF Collect, all, more

-----------------------------------------------------------------------------
(* Discovery.                                                              *)

\* Every device found has its endpoint.
Matching ==
  /\ Len(devices) = Len(endpoints)
  /\ \A number \in 1 .. Len(devices) : endpoints[number].device = devices[number]

\* While a search runs, no device is found or asked twice.
SearchInv ==
  /\ candidates \in Seq(Candidate) /\ Distinct(candidates)
  /\ endpoints \in Seq(Endpoint) /\ Distinct(endpoints)
  /\ Apart(endpoints, candidates)
  /\ devices \in Seq(Device)
  /\ at # "idle" => Matching /\ generation # 0
  /\ at \in {"probing", "decoding"} => devices = <<>>
  /\ at = "asking" => candidates # <<>>

\* What a search that has ended leaves behind. Only an exception leaves endpoints
\* without devices.
ListInv ==
  at = "idle" =>
    /\ devices # <<>> => generation # 0
    /\ issue # "none" => devices = <<>>
    /\ issue # "thrown" => Matching

\* The selections of the current generation have their endpoints; as long as a
\* search runs it has handed out none.
OfferedInv ==
  /\ generation \in 0 .. MaxGeneration
  /\ \A selection \in offered :
       /\ selection[1] \in 1 .. generation
       /\ selection[1] = generation =>
            /\ at = "idle"
            /\ selection[2] \in DOMAIN endpoints
            /\ endpoints[selection[2]].device = selection[3]

DiscoveryInv == SearchInv /\ ListInv /\ OfferedInv

LEMMA DiscoveryInitHolds == DiscoveryInit => DiscoveryInv
<1> SUFFICES ASSUME DiscoveryInit PROVE DiscoveryInv
  OBVIOUS
<1>1. /\ at = "idle" /\ candidates = <<>> /\ devices = <<>> /\ issue = "none"
      /\ generation = 0 /\ endpoints = <<>> /\ offered = {}
  BY DEF DiscoveryInit
<1>2. Matching
  BY <1>1, EmptyIsDistinct DEF Matching
<1>3. SearchInv
  BY <1>1, EmptyIsDistinct DEF SearchInv
<1> QED
  BY <1>1, <1>2, <1>3, DiscoveryAssumption DEF DiscoveryInv, ListInv, OfferedInv

\* A search that ends without a list, or goes on, hands out nothing.
LEMMA NothingOffered ==
  ASSUME DiscoveryInv, at # "idle", UNCHANGED <<generation, offered>>
  PROVE  OfferedInv'
  BY DEF DiscoveryInv, OfferedInv

\* A search that ends early without a device has lists that say so.
LEMMA ReturnKeeps ==
  ASSUME DiscoveryInv, at # "idle", UNCHANGED <<generation, offered>>,
         NEW reason, Return(reason), devices' = <<>>,
         UNCHANGED endpoints \/ endpoints' = <<>>,
         reason # "thrown" => endpoints' = <<>>
  PROVE  DiscoveryInv'
<1>1. at' = "idle" /\ candidates' = <<>> /\ issue' = reason
  BY DEF Return
<1>2. endpoints' \in Seq(Endpoint) /\ Distinct(endpoints')
  BY EmptyIsDistinct DEF DiscoveryInv, SearchInv
<1>3. SearchInv'
  BY <1>1, <1>2, EmptyIsDistinct DEF SearchInv
<1>4. ListInv'
  BY <1>1, EmptyIsDistinct DEF ListInv, Matching
<1> QED
  BY <1>3, <1>4, NothingOffered DEF DiscoveryInv

\* The list that is returned names the devices that have endpoints.
LEMMA ListKeeps ==
  ASSUME DiscoveryInv, at # "idle", UNCHANGED generation, NEW found, ReturnList(found),
         endpoints' \in Seq(Endpoint), Distinct(endpoints'), found \in Seq(Device),
         Len(found) = Len(endpoints'),
         \A number \in 1 .. Len(found) : endpoints'[number].device = found[number]
  PROVE  DiscoveryInv'
<1>1. /\ at' = "idle" /\ candidates' = <<>> /\ issue' = "none" /\ devices' = found
      /\ offered' = offered \cup {<<generation, number, found[number]>> : number \in DOMAIN found}
  BY DEF ReturnList, Return
<1>2. ASSUME NEW selection \in offered PROVE selection[1] \in 1 .. generation /\ selection[1] # generation
  BY DEF DiscoveryInv, OfferedInv
<1>3. generation' = generation /\ generation \in 1 .. generation /\ generation # 0
  BY DiscoveryAssumption DEF DiscoveryInv, OfferedInv, SearchInv
<1>4. DOMAIN found = 1 .. Len(found) /\ DOMAIN endpoints' = 1 .. Len(found)
  OBVIOUS
<1>5. OfferedInv'
  BY <1>1, <1>2, <1>3, <1>4 DEF OfferedInv, DiscoveryInv
<1>6. SearchInv'
  BY <1>1, EmptyIsDistinct DEF SearchInv
<1>7. ListInv'
  BY <1>1, <1>3 DEF ListInv, Matching
<1> QED
  BY <1>5, <1>6, <1>7 DEF DiscoveryInv

LEMMA RefreshKeeps ==
  ASSUME DiscoveryInv, NEW validId, Refresh(validId)
  PROVE  DiscoveryInv'
<1>1. /\ generation < MaxGeneration /\ generation' = generation + 1
      /\ endpoints' = <<>> /\ devices' = <<>> /\ UNCHANGED offered
      /\ \/ Return("cancelled") \/ Return("thrown")
         \/ at' = "probing" /\ issue' = "none" /\ UNCHANGED <<datagrams, candidates>>
  BY Zenon DEF Refresh
<1>2. generation' \in 1 .. MaxGeneration /\ generation \in Nat
  BY <1>1, DiscoveryAssumption DEF DiscoveryInv, OfferedInv
<1>3. OfferedInv'
  BY <1>1, <1>2 DEF DiscoveryInv, OfferedInv
<1>4. Matching'
  BY <1>1, EmptyIsDistinct DEF Matching
<1>5. candidates' \in Seq(Candidate) /\ Distinct(candidates') /\ at' \in {"idle", "probing"}
  BY <1>1, EmptyIsDistinct DEF Return, DiscoveryInv, SearchInv
<1>6. SearchInv'
  BY <1>1, <1>2, <1>4, <1>5, EmptyIsDistinct DEF SearchInv
<1>7. ListInv'
  BY <1>1, <1>4 DEF ListInv
<1> QED
  BY <1>3, <1>6, <1>7 DEF DiscoveryInv

\* The flag, the datagrams and the lists of a search that goes on as it was.
LEMMA ProbeKeeps ==
  ASSUME DiscoveryInv, NEW count, ProbeReturns(count)
  PROVE  DiscoveryInv'
<1>1. at = "probing" /\ UNCHANGED <<devices, generation, endpoints, offered>>
  BY DEF ProbeReturns, model
<1>2. devices = <<>> /\ endpoints = <<>>
  BY <1>1 DEF DiscoveryInv, SearchInv, Matching
<1>3. CASE Return("cancelled") \/ Return("discovery_limit")
  BY <1>1, <1>2, <1>3, ReturnKeeps
<1>4. CASE at' = "decoding" /\ UNCHANGED <<candidates, issue>>
  BY <1>1, <1>2, <1>4, NothingOffered DEF DiscoveryInv, SearchInv, ListInv, Matching
<1> QED
  BY <1>3, <1>4, Zenon DEF ProbeReturns

LEMMA DecodeKeeps ==
  ASSUME DiscoveryInv, NEW relates, NEW sender \in Host, NEW matches \in SeqOf(Match, MaxMatches + 1),
         DecodeDatagram(relates, sender, matches)
  PROVE  DiscoveryInv'
<1>1. at = "decoding" /\ UNCHANGED <<devices, generation, endpoints, offered>>
  BY DEF DecodeDatagram, model
<1>2. devices = <<>> /\ endpoints = <<>>
  BY <1>1 DEF DiscoveryInv, SearchInv, Matching
<1>3. CASE Return("candidate_limit")
  BY <1>1, <1>2, <1>3, ReturnKeeps
<1>4. CASE /\ candidates' = Collect(candidates, Decoded(relates, sender, matches))
           /\ UNCHANGED <<at, issue>>
  <2>1. matches \in Seq(Match)
    BY DiscoveryAssumption DEF SeqOf
  <2>2. Decoded(relates, sender, matches) \in Seq(Candidate)
    BY <2>1, DecodedAreCandidates
  <2>3. candidates' \in Seq(Candidate) /\ Distinct(candidates')
    BY <1>4, <2>2, CollectedAreDistinct, Zenon DEF DiscoveryInv, SearchInv
  <2>4. Apart(endpoints', candidates')
    BY <1>1, <1>2, EmptyIsDistinct
  <2> QED
    BY <1>1, <1>2, <1>4, <2>3, <2>4, NothingOffered DEF DiscoveryInv, SearchInv, ListInv, Matching
<1> QED
  BY <1>3, <1>4, Zenon DEF DecodeDatagram

LEMMA BeginMetadataKeeps ==
  ASSUME DiscoveryInv, NEW ids, BeginMetadata(ids)
  PROVE  DiscoveryInv'
<1>1. at = "decoding" /\ UNCHANGED <<generation, endpoints>>
  BY DEF BeginMetadata, model
<1>2. devices = <<>> /\ endpoints = <<>>
  BY <1>1 DEF DiscoveryInv, SearchInv, Matching
<1>3. CASE (Return("metadata_id_limit") \/ Return("cancelled")) /\ UNCHANGED <<devices, offered>>
  BY <1>1, <1>2, <1>3, ReturnKeeps
<1>4. CASE ReturnList(<<>>)
  <2>1. /\ at # "idle" /\ UNCHANGED generation
        /\ endpoints' \in Seq(Endpoint) /\ Distinct(endpoints') /\ Len(<<>>) = Len(endpoints')
        /\ <<>> \in Seq(Device) /\ Len(<<>>) = 0
    BY <1>1, <1>2, EmptyIsDistinct
  <2>2. \A number \in 1 .. Len(<<>>) : endpoints'[number].device = <<>>[number]
    BY <2>1
  <2> QED
    BY <1>4, <2>1, <2>2, ListKeeps, Zenon
<1>5. CASE candidates # <<>> /\ at' = "asking" /\ UNCHANGED <<datagrams, candidates, result, offered>>
  BY <1>1, <1>5, NothingOffered DEF DiscoveryInv, SearchInv, ListInv, Matching, result
<1> QED
  BY <1>3, <1>4, <1>5, Zenon DEF BeginMetadata

\* On to the next candidate, with lists that belong together.
LEMMA NextCandidateKeeps ==
  ASSUME DiscoveryInv, at = "asking", UNCHANGED generation,
         NEW found \in Seq(Device), NEW resolved \in Seq(Endpoint),
         Len(resolved) = Len(found),
         \A number \in 1 .. Len(found) : resolved[number].device = found[number],
         Distinct(resolved), Apart(resolved, Tail(candidates)),
         NextCandidate(found, resolved)
  PROVE  DiscoveryInv'
<1>1. candidates \in Seq(Candidate) /\ candidates # <<>> /\ Distinct(candidates)
  BY DEF DiscoveryInv, SearchInv
<1>2. CASE ReturnList(found) /\ endpoints' = resolved
  BY <1>2, ListKeeps
<1>3. CASE /\ UNCHANGED offered
           /\ Return("cancelled") /\ devices' = <<>> /\ endpoints' = <<>>
  BY <1>3, ReturnKeeps
<1>4. CASE /\ UNCHANGED offered /\ Len(candidates) # 1
           /\ candidates' = Tail(candidates)
           /\ devices' = found /\ endpoints' = resolved
           /\ UNCHANGED <<at, datagrams, issue>>
  <2>1. candidates' \in Seq(Candidate) /\ Distinct(candidates') /\ Len(candidates') # 0
    BY <1>1, <1>4, TailIsDistinct
  <2>2. candidates' # <<>>
    BY <2>1
  <2>3. Matching'
    BY <1>4 DEF Matching
  <2>4. SearchInv'
    BY <1>4, <2>1, <2>2, <2>3 DEF SearchInv, DiscoveryInv
  <2> QED
    BY <1>4, <2>4, NothingOffered DEF DiscoveryInv, ListInv
<1> QED
  BY <1>2, <1>3, <1>4, Zenon DEF NextCandidate

\* A candidate that confirms itself gets the next number, and its endpoint.
LEMMA ConfirmedKeeps ==
  ASSUME DiscoveryInv, at = "asking", NEW answer \in Answer, Confirms(answer, candidates[1])
  PROVE  LET endpoint == [device |-> answer.device, host |-> candidates[1].host,
                          service |-> ServiceOf(answer)]
             found == Append(devices, answer.device)
             resolved == Append(endpoints, endpoint)
         IN /\ Emplace(endpoints, Len(devices) + 1, endpoint) = resolved
            /\ found \in Seq(Device) /\ resolved \in Seq(Endpoint) /\ Len(resolved) = Len(found)
            /\ \A number \in 1 .. Len(found) : resolved[number].device = found[number]
            /\ Distinct(resolved) /\ Apart(resolved, Tail(candidates))
<1> DEFINE endpoint == [device |-> answer.device, host |-> candidates[1].host,
                        service |-> ServiceOf(answer)]
           found == Append(devices, answer.device)
           resolved == Append(endpoints, endpoint)
<1>1. /\ candidates \in Seq(Candidate) /\ candidates # <<>> /\ Distinct(candidates)
      /\ endpoints \in Seq(Endpoint) /\ Distinct(endpoints) /\ Apart(endpoints, candidates)
      /\ devices \in Seq(Device) /\ Matching
  BY DEF DiscoveryInv, SearchInv
<1>2. candidates[1] \in Candidate /\ 1 \in 1 .. Len(candidates)
  BY <1>1
<1>3. candidates[1].host \in Host
  BY <1>2 DEF Candidate
<1>4. answer.device \in Device /\ answer.device = candidates[1].device /\ ServiceOf(answer) \in Service
  BY DiscoveryAssumption DEF Confirms
<1>5. endpoint \in Endpoint /\ endpoint.device = answer.device
  BY <1>3, <1>4 DEF Endpoint
<1> HIDE DEF endpoint
<1>6. Len(devices) + 1 \notin DOMAIN endpoints
  BY <1>1 DEF Matching
<1>7. Emplace(endpoints, Len(devices) + 1, endpoint) = resolved
  BY <1>6, Zenon DEF Emplace
<1>8. /\ found \in Seq(Device) /\ Len(found) = Len(devices) + 1
      /\ found[Len(devices) + 1] = answer.device
      /\ \A i \in 1 .. Len(devices) : found[i] = devices[i]
  BY <1>1, <1>4, AppendByPosition
<1>9. /\ resolved \in Seq(Endpoint) /\ Len(resolved) = Len(devices) + 1
      /\ resolved[Len(devices) + 1] = endpoint
      /\ \A i \in 1 .. Len(devices) : resolved[i] = endpoints[i]
  BY <1>1, <1>5, AppendByPosition DEF Matching
<1>10. \A i \in 1 .. Len(endpoints) : endpoints[i].device # endpoint.device
  BY <1>1, <1>2, <1>4, <1>5 DEF Apart
<1>11. /\ Apart(endpoints, Tail(candidates))
       /\ \A i \in 1 .. Len(Tail(candidates)) : Tail(candidates)[i].device # endpoint.device
  BY <1>1, <1>4, <1>5, TailIsDistinct
<1>12. Distinct(resolved) /\ Apart(resolved, Tail(candidates))
  BY <1>1, <1>5, <1>10, <1>11, AppendIsDistinct
<1> HIDE DEF found, resolved
<1>13. \A number \in 1 .. Len(found) : resolved[number].device = found[number]
  BY <1>1, <1>5, <1>8, <1>9 DEF Matching
<1> QED
  BY <1>7, <1>8, <1>9, <1>12, <1>13 DEF found, resolved, endpoint

\* A candidate that does not is left out.
LEMMA UnconfirmedKeeps ==
  ASSUME DiscoveryInv, at = "asking", UNCHANGED generation, NextCandidate(devices, endpoints)
  PROVE  DiscoveryInv'
<1>1. /\ candidates \in Seq(Candidate) /\ candidates # <<>> /\ Distinct(candidates)
      /\ endpoints \in Seq(Endpoint) /\ Distinct(endpoints) /\ Apart(endpoints, candidates)
      /\ devices \in Seq(Device) /\ Matching
  BY DEF DiscoveryInv, SearchInv
<1>2. Apart(endpoints, Tail(candidates))
  BY <1>1, TailIsDistinct
<1> QED
  BY <1>1, <1>2, NextCandidateKeeps DEF Matching

LEMMA MetadataKeeps ==
  ASSUME DiscoveryInv, NEW answer \in Answer, MetadataReturns(answer)
  PROVE  DiscoveryInv'
<1>1. at = "asking" /\ UNCHANGED generation
  BY DEF MetadataReturns
<1>2. CASE Confirms(answer, candidates[1])
  <2> DEFINE endpoint == [device |-> answer.device, host |-> candidates[1].host,
                          service |-> ServiceOf(answer)]
             found == Append(devices, answer.device)
             resolved == Append(endpoints, endpoint)
  <2>1. /\ Emplace(endpoints, Len(devices) + 1, endpoint) = resolved
        /\ found \in Seq(Device) /\ resolved \in Seq(Endpoint) /\ Len(resolved) = Len(found)
        /\ \A number \in 1 .. Len(found) : resolved[number].device = found[number]
        /\ Distinct(resolved) /\ Apart(resolved, Tail(candidates))
    BY <1>1, <1>2, ConfirmedKeeps
  <2>2. NextCandidate(found, resolved)
    BY <1>2, <2>1, Zenon DEF MetadataReturns
  <2> HIDE DEF found, resolved
  <2> QED
    BY <1>1, <2>1, <2>2, NextCandidateKeeps
<1>3. CASE ~Confirms(answer, candidates[1])
  BY <1>1, <1>3, UnconfirmedKeeps, Zenon DEF MetadataReturns
<1> QED
  BY <1>2, <1>3

LEMMA ThrowKeeps ==
  ASSUME DiscoveryInv, ExchangeThrows
  PROVE  DiscoveryInv'
<1>1. at # "idle" /\ Return("thrown") /\ devices' = <<>> /\ UNCHANGED <<generation, endpoints, offered>>
  BY DEF ExchangeThrows, model
<1> QED
  BY <1>1, ReturnKeeps

LEMMA DiscoveryInductive ==
  DiscoveryInv /\ [DiscoveryNext]_<<discoveryVars, cancelled>> => DiscoveryInv'
<1> SUFFICES ASSUME DiscoveryInv, [DiscoveryNext]_<<discoveryVars, cancelled>> PROVE DiscoveryInv'
  OBVIOUS
<1>1. ASSUME NEW validId \in BOOLEAN, Refresh(validId) PROVE DiscoveryInv'
  BY <1>1, RefreshKeeps
<1>2. ASSUME NEW count, ProbeReturns(count) PROVE DiscoveryInv'
  BY <1>2, ProbeKeeps
<1>3. ASSUME NEW relates, NEW sender \in Host, NEW matches \in SeqOf(Match, MaxMatches + 1),
             DecodeDatagram(relates, sender, matches)
      PROVE  DiscoveryInv'
  BY <1>3, DecodeKeeps
<1>4. ASSUME NEW ids, BeginMetadata(ids) PROVE DiscoveryInv'
  BY <1>4, BeginMetadataKeeps
<1>5. ASSUME NEW answer \in Answer, MetadataReturns(answer) PROVE DiscoveryInv'
  BY <1>5, MetadataKeeps
<1>6. CASE MetadataFails
  BY <1>6, UnconfirmedKeeps DEF MetadataFails
<1>7. CASE ExchangeThrows
  BY <1>7, ThrowKeeps
<1>8. CASE UNCHANGED discoveryVars
  BY <1>8 DEF discoveryVars, call, result, model, DiscoveryInv, SearchInv, ListInv, OfferedInv, Matching
<1> QED
  BY <1>1, <1>2, <1>3, <1>4, <1>5, <1>6, <1>7, <1>8, Zenon
     DEF DiscoveryNext, ExchangeReturns, Continue

\* Where a search is, how much it has still to do, and what it has handed out; the
\* rest of the types is part of DiscoveryInv.
Progress ==
  /\ at \in {"idle", "probing", "decoding", "asking"}
  /\ datagrams \in 0 .. MaxDatagrams
  /\ Len(candidates) <= MaxCandidates
  /\ issue \in Issues

OfferedTypes == offered \subseteq (Nat \X Nat \X Device)

LEMMA ReturnTypes ==
  ASSUME NEW reason \in Issues, Return(reason)
  PROVE  Progress'
<1>1. at' = "idle" /\ datagrams' = 0 /\ candidates' = <<>> /\ issue' = reason
  BY DEF Return
<1>2. Len(candidates') = 0
  BY <1>1
<1> QED
  BY <1>1, <1>2, DiscoveryAssumption DEF Progress

LEMMA ReturnListTypes ==
  ASSUME OfferedTypes, generation \in Nat, NEW found \in Seq(Device), ReturnList(found)
  PROVE  Progress' /\ OfferedTypes'
<1>1. Progress'
  BY ReturnTypes DEF ReturnList, Issues
<1>2. \A number \in DOMAIN found : <<generation, number, found[number]>> \in Nat \X Nat \X Device
  OBVIOUS
<1>3. offered' = offered \cup {<<generation, number, found[number]>> : number \in DOMAIN found}
  BY DEF ReturnList
<1> QED
  BY <1>1, <1>2, <1>3 DEF OfferedTypes

LEMMA NextCandidateTypes ==
  ASSUME DiscoveryInv, Progress, OfferedTypes, at = "asking", NEW found \in Seq(Device),
         NEW resolved, NextCandidate(found, resolved)
  PROVE  Progress' /\ OfferedTypes'
<1>1. generation \in Nat /\ candidates \in Seq(Candidate) /\ candidates # <<>>
  BY DiscoveryAssumption DEF DiscoveryInv, SearchInv, OfferedInv
<1>2. CASE ReturnList(found)
  BY <1>1, <1>2, ReturnListTypes
<1>3. CASE Return("cancelled") /\ UNCHANGED offered
  BY <1>3, ReturnTypes DEF OfferedTypes, Issues
<1>4. CASE candidates' = Tail(candidates) /\ UNCHANGED <<at, datagrams, issue, offered>>
  <2>1. Len(candidates') = Len(candidates) - 1 /\ Len(candidates) \in Nat
    BY <1>1, <1>4
  <2> QED
    BY <1>4, <2>1, DiscoveryAssumption DEF Progress, OfferedTypes
<1> QED
  BY <1>2, <1>3, <1>4, Zenon DEF NextCandidate

LEMMA ProgressStep ==
  ASSUME DiscoveryInv, Progress, OfferedTypes, [DiscoveryNext]_<<discoveryVars, cancelled>>
  PROVE  Progress' /\ OfferedTypes'
<1> USE DiscoveryAssumption
<1>0. /\ {"none", "cancelled", "discovery_limit", "candidate_limit", "metadata_id_limit", "thrown"} \subseteq Issues
      /\ generation \in Nat /\ devices \in Seq(Device)
  BY DEF Issues, DiscoveryInv, OfferedInv, SearchInv
<1>1. ASSUME NEW validId, Refresh(validId) PROVE Progress' /\ OfferedTypes'
  <2>1. /\ UNCHANGED offered
        /\ \/ Return("cancelled") \/ Return("thrown")
           \/ at' = "probing" /\ issue' = "none" /\ UNCHANGED <<datagrams, candidates>>
    BY <1>1, Zenon DEF Refresh
  <2> QED
    BY <1>0, <2>1, ReturnTypes DEF Progress, OfferedTypes
<1>2. ASSUME NEW count \in 0 .. MaxDatagrams + 1, ProbeReturns(count) PROVE Progress' /\ OfferedTypes'
  <2>1. /\ UNCHANGED offered
        /\ \/ Return("cancelled") \/ Return("discovery_limit")
           \/ /\ count <= MaxDatagrams /\ at' = "decoding" /\ datagrams' = count
              /\ UNCHANGED <<candidates, issue>>
    BY <1>2 DEF ProbeReturns
  <2> QED
    BY <1>0, <2>1, ReturnTypes DEF Progress, OfferedTypes
<1>3. ASSUME NEW relates, NEW sender \in Host, NEW matches, DecodeDatagram(relates, sender, matches)
      PROVE  Progress' /\ OfferedTypes'
  <2> DEFINE collected == Collect(candidates, Decoded(relates, sender, matches))
  <2>1. /\ UNCHANGED offered /\ datagrams # 0
        /\ \/ Return("candidate_limit")
           \/ /\ ~(Len(collected) > MaxCandidates)
              /\ candidates' = collected /\ datagrams' = datagrams - 1 /\ UNCHANGED <<at, issue>>
    BY <1>3, Zenon DEF DecodeDatagram
  <2>2. DiscoveryInv' => candidates' \in Seq(Candidate)
    BY DEF DiscoveryInv, SearchInv
  <2>3. DiscoveryInv'
    BY DiscoveryInductive
  <2> HIDE DEF collected
  <2>4. candidates' = collected => Len(collected) \in Nat
    BY <2>2, <2>3
  <2> QED
    BY <1>0, <2>1, <2>4, ReturnTypes DEF Progress, OfferedTypes
<1>4. ASSUME NEW ids, BeginMetadata(ids) PROVE Progress' /\ OfferedTypes'
  <2>1. \/ (Return("metadata_id_limit") \/ Return("cancelled")) /\ UNCHANGED offered
        \/ ReturnList(<<>>)
        \/ at' = "asking" /\ UNCHANGED <<datagrams, candidates, issue, offered>>
    BY <1>4, Zenon DEF BeginMetadata, result
  <2>2. <<>> \in Seq(Device)
    OBVIOUS
  <2>3. CASE ReturnList(<<>>)
    BY <1>0, <2>2, <2>3, ReturnListTypes
  <2> QED
    BY <1>0, <2>1, <2>3, ReturnTypes DEF Progress, OfferedTypes
<1>5. ASSUME NEW answer \in Answer, MetadataReturns(answer) PROVE Progress' /\ OfferedTypes'
  <2>1. CASE Confirms(answer, candidates[1])
    <3>1. /\ at = "asking"
          /\ NextCandidate(Append(devices, answer.device),
               Emplace(endpoints, Len(devices) + 1,
                       [device |-> answer.device, host |-> candidates[1].host,
                        service |-> ServiceOf(answer)]))
      BY <1>5, <2>1, Zenon DEF MetadataReturns
    <3>2. Append(devices, answer.device) \in Seq(Device)
      BY <1>0
    <3> QED
      BY <3>1, <3>2, NextCandidateTypes
  <2>2. CASE ~Confirms(answer, candidates[1])
    BY <1>0, <1>5, <2>2, NextCandidateTypes, Zenon DEF MetadataReturns
  <2> QED
    BY <2>1, <2>2
<1>6. CASE MetadataFails
  BY <1>0, <1>6, NextCandidateTypes DEF MetadataFails
<1>7. CASE ExchangeThrows
  BY <1>0, <1>7, ReturnTypes DEF ExchangeThrows, OfferedTypes
<1>8. CASE UNCHANGED discoveryVars
  BY <1>8 DEF discoveryVars, call, result, Progress, OfferedTypes
<1> QED
  BY <1>1, <1>2, <1>3, <1>4, <1>5, <1>6, <1>7, <1>8, Zenon
     DEF DiscoveryNext, ExchangeReturns, Continue

\* Whatever the network answers, the variables of a search keep their types: it has
\* at most so many candidates to ask, all of them devices that answered, and never a
\* negative number of datagrams to decode.
THEOREM DiscoveryTypeCorrect == DiscoverySpec => []DiscoveryTypeOK
<1>1. DiscoveryInit => Progress /\ OfferedTypes
  <2> SUFFICES ASSUME DiscoveryInit PROVE Progress /\ OfferedTypes
    OBVIOUS
  <2>1. Len(candidates) = 0
    BY DEF DiscoveryInit
  <2> QED
    BY <2>1, DiscoveryAssumption DEF DiscoveryInit, Progress, OfferedTypes, Issues
<1>2. /\ DiscoveryInv /\ Progress /\ OfferedTypes /\ [DiscoveryNext]_<<discoveryVars, cancelled>>
      => (Progress /\ OfferedTypes)'
  BY ProgressStep
<1>3. DiscoveryInv /\ Progress /\ OfferedTypes => DiscoveryTypeOK
  BY DEF DiscoveryInv, SearchInv, OfferedInv, Progress, OfferedTypes, DiscoveryTypeOK
<1> QED
  BY <1>1, <1>2, <1>3, DiscoveryInitHolds, DiscoveryInductive, PTL DEF DiscoverySpec

\* Whatever the network answers, a selection resolves to an endpoint of the device
\* it named while its generation is the current one, and else it is stale.
THEOREM SelectionsAreResolved == DiscoverySpec => []SelectionsResolve
<1>1. DiscoveryInv => SelectionsResolve
  BY DiscoveryAssumption DEF DiscoveryInv, OfferedInv, SelectionsResolve, Resolve
<1> QED
  BY <1>1, DiscoveryInitHolds, DiscoveryInductive, PTL DEF DiscoverySpec

\* The list that refresh() returns has each device once, with its own endpoint under
\* its number, whatever datagrams and answers come in, and however often a device
\* is mentioned in them; a refresh that ends early leaves no device.
THEOREM ListsAreResolved == DiscoverySpec => []ListResolves
<1>1. DiscoveryInv => ListResolves
  <2> SUFFICES ASSUME DiscoveryInv, at = "idle"
               PROVE  /\ issue # "thrown" => Len(endpoints) = Len(devices)
                      /\ IsInjective(devices)
                      /\ \A number \in DOMAIN devices :
                           Resolve(number, generation).device = devices[number]
                      /\ issue # "none" => devices = <<>>
    BY DEF ListResolves
  <2>1. /\ devices \in Seq(Device) /\ endpoints \in Seq(Endpoint) /\ Distinct(endpoints)
        /\ DOMAIN devices = 1 .. Len(devices) /\ DOMAIN endpoints = 1 .. Len(endpoints)
    BY DEF DiscoveryInv, SearchInv
  <2>2. CASE devices = <<>>
    <3>1. IsInjective(devices) /\ DOMAIN devices = {}
      BY <2>1, <2>2 DEF IsInjective
    <3> QED
      BY <2>2, <3>1 DEF DiscoveryInv, ListInv, Matching
  <2>3. CASE devices # <<>>
    <3>1. Matching /\ generation # 0 /\ issue = "none"
      BY <2>3 DEF DiscoveryInv, ListInv
    <3>2. IsInjective(devices)
      BY <2>1, <3>1 DEF IsInjective, Matching, Distinct
    <3>3. \A number \in DOMAIN devices : Resolve(number, generation).device = devices[number]
      BY <2>1, <3>1 DEF Resolve, Matching
    <3> QED
      BY <3>1, <3>2, <3>3 DEF Matching
  <2> QED
    BY <2>2, <2>3
<1> QED
  BY <1>1, DiscoveryInitHolds, DiscoveryInductive, PTL DEF DiscoverySpec

-----------------------------------------------------------------------------
(* The implementation of an abstract discovery.                            *)

\* The devices of endpoints that are distinct are a list without repetition.
LEMMA TargetsAreInjective ==
  ASSUME NEW list \in Seq(Endpoint), Distinct(list)
  PROVE  LET targets == [number \in DOMAIN list |-> list[number].device]
         IN targets \in Seq(Device) /\ Selection!IsInjective(targets)
<1> DEFINE targets == [number \in DOMAIN list |-> list[number].device]
<1>1. \A endpoint \in Endpoint : endpoint.device \in Device
  BY DEF Endpoint
<1>2. /\ DOMAIN list = 1 .. Len(list) /\ Len(list) \in Nat
      /\ \A i \in 1 .. Len(list) : list[i] \in Endpoint
  OBVIOUS
<1>3. targets \in Seq(Device)
  BY <1>1, <1>2
<1>4. \A i, j \in DOMAIN targets : targets[i] = targets[j] => i = j
  BY <1>2 DEF Distinct
<1> HIDE DEF targets
<1>5. Selection!IsInjective(targets)
  BY <1>4, Zenon DEF Selection!IsInjective
<1> QED
  BY <1>3, <1>5 DEF targets

Targets == [number \in DOMAIN endpoints |-> endpoints[number].device]

LEMMA TargetsSettled ==
  DiscoveryInv' => Targets' \in Seq(Device) /\ Selection!IsInjective(Targets')
<1> SUFFICES ASSUME DiscoveryInv'
             PROVE  Targets' \in Seq(Device) /\ Selection!IsInjective(Targets')
  OBVIOUS
<1>1. endpoints' \in Seq(Endpoint) /\ Distinct(endpoints')
  BY DEF DiscoveryInv, SearchInv, Distinct
<1> QED
  BY <1>1, TargetsAreInjective, Zenon DEF Targets

\* As long as a search runs, each step of it that offers nothing, or the list of all
\* devices found, is one of an abstract search.
LEMMA ContinueRefines ==
  ASSUME DiscoveryInv, DiscoveryInv', at # "idle", UNCHANGED generation,
         \/ UNCHANGED offered
         \/ offered' = offered \cup {<<generation, number, Targets'[number]>> : number \in DOMAIN Targets'}
  PROVE  Selection!Continue
<1>1. Selection!Unoffered
  BY DEF Selection!Unoffered, DiscoveryInv, OfferedInv
<1>2. Targets' \in Seq(Device) /\ Selection!IsInjective(Targets')
  BY TargetsSettled
<1>3. Selection!Settle
  BY <1>2, Zenon DEF Selection!Settle, Selection!Offer, Targets
<1> QED
  BY <1>1, <1>3, Zenon DEF Selection!Continue

LEMMA ReturnListRefines ==
  ASSUME DiscoveryInv, DiscoveryInv', at # "idle", UNCHANGED generation,
         NEW found, ReturnList(found), found \in Seq(Device), Len(found) = Len(endpoints'),
         \A number \in 1 .. Len(found) : endpoints'[number].device = found[number]
  PROVE  Selection!Continue
<1>1. endpoints' \in Seq(Endpoint)
  BY DEF DiscoveryInv, SearchInv
<1>2. Targets' = found
  BY <1>1 DEF Targets
<1>3. offered' = offered \cup {<<generation, number, Targets'[number]>> : number \in DOMAIN Targets'}
  BY <1>2, Zenon DEF ReturnList
<1> QED
  BY <1>3, ContinueRefines

LEMMA NextCandidateRefines ==
  ASSUME DiscoveryInv, DiscoveryInv', at # "idle", UNCHANGED generation,
         NEW found \in Seq(Device), NEW resolved, Len(resolved) = Len(found),
         \A number \in 1 .. Len(found) : resolved[number].device = found[number],
         NextCandidate(found, resolved)
  PROVE  Selection!Continue
<1>1. CASE ReturnList(found) /\ endpoints' = resolved
  BY <1>1, ReturnListRefines
<1>2. CASE UNCHANGED offered
  BY <1>2, ContinueRefines
<1> QED
  BY <1>1, <1>2, Zenon DEF NextCandidate

LEMMA DiscoveryStepRefines ==
  DiscoveryInv /\ DiscoveryInv' /\ [DiscoveryNext]_<<discoveryVars, cancelled>>
  => [Selection!Next]_Selection!vars
<1> SUFFICES ASSUME DiscoveryInv, DiscoveryInv', [DiscoveryNext]_<<discoveryVars, cancelled>>
             PROVE  Selection!Next \/ UNCHANGED <<generation, Targets, offered>>
  BY DEF Selection!vars, Targets
<1>1. ASSUME NEW validId, Refresh(validId) PROVE Selection!Search
  <2>1. generation < MaxGeneration /\ generation' = generation + 1 /\ UNCHANGED offered
    BY <1>1 DEF Refresh
  <2>2. Targets' \in Seq(Device) /\ Selection!IsInjective(Targets')
    BY TargetsSettled
  <2> QED
    BY <2>1, <2>2, Zenon DEF Selection!Search, Selection!Settle, Targets
<1>2. UNCHANGED <<generation, endpoints, offered>> => UNCHANGED <<generation, Targets, offered>>
  BY Zenon DEF Targets
<1>3. ASSUME NEW ids, BeginMetadata(ids)
      PROVE  Selection!Continue \/ UNCHANGED <<generation, endpoints, offered>>
  <2>1. at = "decoding" /\ UNCHANGED <<generation, endpoints>>
    BY <1>3 DEF BeginMetadata, model
  <2>2. CASE ReturnList(<<>>)
    <3>1. devices = <<>> /\ endpoints = <<>>
      BY <2>1 DEF DiscoveryInv, SearchInv, Matching
    <3>2. /\ at # "idle" /\ <<>> \in Seq(Device) /\ Len(<<>>) = Len(endpoints')
          /\ \A number \in 1 .. Len(<<>>) : endpoints'[number].device = <<>>[number]
      BY <2>1, <3>1, EmptyIsDistinct
    <3> QED
      BY <2>1, <2>2, <3>2, ReturnListRefines, Zenon
  <2>3. CASE UNCHANGED offered
    BY <2>1, <2>3
  <2> QED
    BY <1>3, <2>2, <2>3, Zenon DEF BeginMetadata, result
<1>4. ASSUME at = "asking", UNCHANGED generation, NextCandidate(devices, endpoints)
      PROVE  Selection!Continue
  <2>1. at # "idle" /\ devices \in Seq(Device) /\ Matching
    BY <1>4 DEF DiscoveryInv, SearchInv
  <2> QED
    BY <1>4, <2>1, NextCandidateRefines DEF Matching
<1>5. ASSUME NEW answer \in Answer, MetadataReturns(answer) PROVE Selection!Continue
  <2>1. at = "asking" /\ at # "idle" /\ UNCHANGED generation
    BY <1>5 DEF MetadataReturns
  <2>2. CASE Confirms(answer, candidates[1])
    <3> DEFINE endpoint == [device |-> answer.device, host |-> candidates[1].host,
                            service |-> ServiceOf(answer)]
               found == Append(devices, answer.device)
               resolved == Append(endpoints, endpoint)
    <3>1. /\ Emplace(endpoints, Len(devices) + 1, endpoint) = resolved
          /\ found \in Seq(Device) /\ Len(resolved) = Len(found)
          /\ \A number \in 1 .. Len(found) : resolved[number].device = found[number]
      BY <2>1, <2>2, ConfirmedKeeps
    <3>2. NextCandidate(found, resolved)
      BY <1>5, <2>2, <3>1, Zenon DEF MetadataReturns
    <3> HIDE DEF found, resolved
    <3> QED
      BY <2>1, <3>1, <3>2, NextCandidateRefines
  <2>3. CASE ~Confirms(answer, candidates[1])
    BY <1>4, <1>5, <2>1, <2>3, Zenon DEF MetadataReturns
  <2> QED
    BY <2>2, <2>3
<1>6. MetadataFails => Selection!Continue
  BY <1>4, Zenon DEF MetadataFails
<1>7. \/ \E count \in 0 .. MaxDatagrams + 1 : ProbeReturns(count)
      \/ ExchangeThrows
      \/ \E relates \in BOOLEAN, sender \in Host, matches \in SeqOf(Match, MaxMatches + 1) :
           DecodeDatagram(relates, sender, matches)
      \/ UNCHANGED discoveryVars
      => UNCHANGED <<generation, endpoints, offered>>
  BY Zenon DEF ProbeReturns, ExchangeThrows, DecodeDatagram, discoveryVars, model
<1> QED
  BY <1>1, <1>2, <1>3, <1>5, <1>6, <1>7, Zenon
     DEF DiscoveryNext, ExchangeReturns, Continue, Selection!Next

\* Discovery over the network keeps the promise of a discovery: a refresh is a search
\* that offers its list when it returns, however the exchanges end and whenever it
\* is cancelled.
THEOREM DiscoveryIsSelection == DiscoverySpec => ImplementsSelection
<1>1. DiscoveryInit => Selection!Init
  BY DEF DiscoveryInit, Selection!Init
<1> QED
  BY <1>1, DiscoveryInitHolds, DiscoveryInductive, DiscoveryStepRefines, PTL
     DEF DiscoverySpec, ImplementsSelection, Selection!Spec

\* A cancelled search ends when its exchange returns.
THEOREM CancelledRefreshEnds == DiscoverySpec => CancelEndsRefresh
<1> DEFINE Ends == cancelled /\ at \in {"probing", "asking"} => at' = "idle"
<1>1. DiscoveryNext => Ends \/ UNCHANGED discoveryVars
  <2> SUFFICES ASSUME DiscoveryNext, cancelled, at \in {"probing", "asking"}
               PROVE  at' = "idle" \/ UNCHANGED discoveryVars
    BY Zenon
  <2>1. at # "idle" /\ at # "decoding"
    OBVIOUS
  <2>2. ASSUME NEW found, NEW resolved, NextCandidate(found, resolved) PROVE at' = "idle"
    BY <2>2, Zenon DEF NextCandidate, ReturnList, Return
  <2>3. ASSUME NEW count, ProbeReturns(count) PROVE at' = "idle"
    BY <2>3, Zenon DEF ProbeReturns, Return
  <2>4. ASSUME NEW answer, MetadataReturns(answer) PROVE at' = "idle"
    BY <2>2, <2>4, Zenon DEF MetadataReturns
  <2>5. MetadataFails \/ ExchangeThrows => at' = "idle"
    BY <2>2, Zenon DEF MetadataFails, ExchangeThrows, Return
  <2>6. ~Continue /\ ~(\E validId \in BOOLEAN : Refresh(validId))
    BY <2>1, Zenon DEF Continue, DecodeDatagram, BeginMetadata, Refresh
  <2> QED
    BY <2>3, <2>4, <2>5, <2>6, Zenon DEF DiscoveryNext, ExchangeReturns
<1>2. [DiscoveryNext]_<<discoveryVars, cancelled>> => [Ends]_discoveryVars
  BY <1>1, Zenon
<1> QED
  BY <1>2, PTL DEF DiscoverySpec, CancelEndsRefresh

-----------------------------------------------------------------------------
(* One HTTP call.                                                          *)

\* Below the limit the arithmetic of the read loop is that of numbers.
LEMMA PieceFits ==
  ASSUME NEW available \in Bytes \ {0}, NEW read \in 1 .. available,
         body \in Bytes, BodyBounded, ~(available > Minus(MaxResponseBytes, body))
  PROVE  (body + read) % Word = body + read /\ body + read <= MaxResponseBytes
<1>1. Word \in Nat /\ MaxResponseBytes \in 1 .. Word - 1 /\ available \in Nat /\ read \in Nat
      /\ body \in Nat /\ body <= MaxResponseBytes /\ read <= available
  BY HttpAssumption DEF Bytes, BodyBounded
<1>2. available <= MaxResponseBytes - body
  BY <1>1 DEF Minus
<1>3. body + read \in 0 .. Word - 1
  BY <1>1, <1>2
<1> QED
  BY <1>1, <1>2, <1>3

HttpInv == HttpTypeOK /\ BodyBounded

LEMMA HttpInitHolds == HttpInit => HttpInv
  BY HttpAssumption DEF HttpInit, HttpInv, HttpTypeOK, BodyBounded, Bytes

LEMMA AnswerKeeps ==
  ASSUME NEW outcome, HttpAnswer(outcome),
         outcome \in {"invalid", "cancelled", "http_failed", "too_large", "rejected", "accepted"}
  PROVE  HttpInv'
  BY HttpAssumption DEF HttpAnswer, HttpInv, HttpTypeOK, BodyBounded, Bytes

LEMMA HttpInductive == HttpInv /\ [HttpNext]_<<httpVars, cancelled>> => HttpInv'
<1> SUFFICES ASSUME HttpInv, [HttpNext]_<<httpVars, cancelled>> PROVE HttpInv'
  OBVIOUS
<1>1. ASSUME NEW uri, NEW uriBytes, NEW token, NEW type \in MediaType, NEW payload,
             Post(uri, uriBytes, token, type, payload)
      PROVE  HttpInv'
  <2>1. \/ HttpAnswer("invalid") \/ HttpAnswer("cancelled")
        \/ /\ post' = "sending" /\ sent' = type /\ answered' = "none"
           /\ UNCHANGED <<reply, body>>
    BY <1>1, Zenon DEF Post
  <2> QED
    BY <2>1, AnswerKeeps DEF HttpInv, HttpTypeOK, BodyBounded
<1>2. ASSUME NEW headers \in Replies, ResponseArrives(headers) PROVE HttpInv'
  <2>1. \/ HttpAnswer("cancelled")
        \/ post' = "reading" /\ reply' = headers /\ UNCHANGED <<sent, body, answered>>
    BY <1>2, Zenon DEF ResponseArrives
  <2> QED
    BY <2>1, AnswerKeeps DEF HttpInv, HttpTypeOK, BodyBounded
<1>3. CASE HttpFails
  BY <1>3, AnswerKeeps DEF HttpFails
<1>4. ASSUME NEW available \in Bytes \ {0}, NEW read \in 1 .. available, PieceArrives(available, read)
      PROVE  HttpInv'
  <2>1. CASE HttpAnswer("too_large") \/ HttpAnswer("cancelled")
    BY <2>1, AnswerKeeps
  <2>2. CASE /\ ~(available > Minus(MaxResponseBytes, body))
             /\ body' = (body + read) % Word /\ UNCHANGED <<post, sent, reply, answered>>
    <3>1. body' = body + read /\ body' <= MaxResponseBytes
      BY <2>2, PieceFits DEF HttpInv, HttpTypeOK
    <3>2. body' \in Bytes
      BY <3>1, HttpAssumption DEF HttpInv, HttpTypeOK, Bytes
    <3> QED
      BY <2>2, <3>1, <3>2 DEF HttpInv, HttpTypeOK, BodyBounded
  <2> QED
    BY <1>4, <2>1, <2>2, Zenon DEF PieceArrives
<1>5. CASE EndOfBody
  <2>1. HttpAnswer("cancelled") \/ HttpAnswer("rejected") \/ HttpAnswer("accepted")
    BY <1>5 DEF EndOfBody
  <2> QED
    BY <2>1, AnswerKeeps
<1>6. CASE UNCHANGED httpVars
  BY <1>6 DEF httpVars, HttpInv, HttpTypeOK, BodyBounded
<1> QED
  BY <1>1, <1>2, <1>3, <1>4, <1>5, <1>6, Zenon DEF HttpNext, WinHttpReturns

\* Every variable of a call has its type, whatever the server sends.
THEOREM HttpTypeCorrect == HttpSpec => []HttpTypeOK
<1>1. HttpInv => HttpTypeOK
  BY DEF HttpInv
<1> QED
  BY <1>1, HttpInitHolds, HttpInductive, PTL DEF HttpSpec

\* For every word size and limit the body stays within the limit, however the
\* response is cut into pieces: nothing wraps around in the read loop.
THEOREM BodyIsBounded == HttpSpec => []BodyBounded
<1>1. HttpInv => BodyBounded
  BY DEF HttpInv
<1> QED
  BY <1>1, HttpInitHolds, HttpInductive, PTL DEF HttpSpec

\* A cancelled call ends when WinHTTP returns, and with no response.
THEOREM CancelledPostEnds == HttpSpec => CancelEndsPost
<1> DEFINE Ends == cancelled /\ post # "idle" =>
                     post' = "idle" /\ answered' \in {"cancelled", "http_failed", "too_large"}
<1>1. HttpNext => Ends \/ UNCHANGED httpVars
  <2> SUFFICES ASSUME HttpNext, cancelled, post # "idle"
               PROVE  Ends \/ UNCHANGED httpVars
    BY Zenon
  <2>1. ASSUME NEW headers \in Replies, ResponseArrives(headers) PROVE Ends
    BY <2>1 DEF ResponseArrives, HttpAnswer
  <2>2. HttpFails => Ends
    BY DEF HttpFails, HttpAnswer
  <2>3. ASSUME NEW available \in Bytes \ {0}, NEW read \in 1 .. available,
               PieceArrives(available, read)
        PROVE  Ends
    <3>1. HttpAnswer("too_large") \/ HttpAnswer("cancelled")
      BY <2>3, Zenon DEF PieceArrives
    <3> QED
      BY <3>1 DEF HttpAnswer
  <2>4. EndOfBody => Ends
    BY DEF EndOfBody, HttpAnswer
  <2>5. ASSUME NEW uri, NEW uriBytes, NEW token, NEW type, NEW payload,
               Post(uri, uriBytes, token, type, payload)
        PROVE  FALSE
    BY <2>5 DEF Post
  <2> QED
    BY <2>1, <2>2, <2>3, <2>4, <2>5, Zenon DEF HttpNext, WinHttpReturns
<1>2. UNCHANGED <<httpVars, cancelled>> => UNCHANGED httpVars
  BY Zenon
<1>3. [HttpNext]_<<httpVars, cancelled>> => [Ends]_httpVars
  BY <1>1, <1>2, Zenon
<1> QED
  BY <1>3, PTL DEF HttpSpec, CancelEndsPost

-----------------------------------------------------------------------------
(* One scan job.                                                           *)

LEMMA JobInitHolds == JobInit => JobTypeOK
  BY JobAssumption DEF JobInit, JobTypeOK, JobStates

\* An image that is accepted fits what is left of the limit.
LEMMA ImageFits ==
  ASSUME JobTypeOK, NEW bytes \in Bytes, bytes # 0, ~(bytes > MaxImageBytes),
         ~(imageBytes > Minus(MaxImageBytes, bytes))
  PROVE  /\ (imageBytes + bytes) % Word = imageBytes + bytes
         /\ imageBytes + bytes \in imageBytes + 1 .. MaxImageBytes
<1>1. Word \in Nat /\ MaxImageBytes \in 1 .. Word - 1 /\ bytes \in Nat /\ imageBytes \in Nat
  BY JobAssumption DEF Bytes, JobTypeOK
<1>2. imageBytes <= MaxImageBytes - bytes
  BY <1>1 DEF Minus
<1>3. imageBytes + bytes \in 0 .. Word - 1
  BY <1>1, <1>2
<1> QED
  BY <1>1, <1>2, <1>3

\* What accept_image() does.
LEMMA ImageStep ==
  ASSUME JobTypeOK, NEW bytes \in Bytes, NEW more \in BOOLEAN, AcceptImage(bytes, more)
  PROVE  /\ job = "retrieving" /\ UNCHANGED <<credentials, retriever>>
         /\ \/ job' = "failed" /\ UNCHANGED <<images, imageBytes>>
            \/ /\ job' \in {"job_created", "complete"}
               /\ images < MaxImages /\ images' = images + 1
               /\ imageBytes' \in imageBytes + 1 .. MaxImageBytes
<1>1. CASE job' = "failed" /\ UNCHANGED <<images, imageBytes>>
  BY <1>1 DEF AcceptImage
<1>2. CASE /\ ~(bytes = 0 \/ bytes > MaxImageBytes \/ imageBytes > Minus(MaxImageBytes, bytes)
                \/ images = MaxImages)
           /\ images' = images + 1
           /\ imageBytes' = (imageBytes + bytes) % Word
           /\ job' = IF more THEN "job_created" ELSE "complete"
  <2>1. imageBytes' \in imageBytes + 1 .. MaxImageBytes
    BY <1>2, ImageFits
  <2>2. images < MaxImages
    BY <1>2, JobAssumption DEF JobTypeOK
  <2> QED
    BY <1>2, <2>1, <2>2 DEF AcceptImage
<1> QED
  BY <1>1, <1>2, Zenon DEF AcceptImage

LEMMA JobInductive == JobTypeOK /\ [JobNext]_jobVars => JobTypeOK'
<1> SUFFICES ASSUME JobTypeOK, [JobNext]_jobVars PROVE JobTypeOK'
  OBVIOUS
<1>1. ASSUME NEW valid \in BOOLEAN, AcceptTicketValidation(valid) PROVE JobTypeOK'
  BY <1>1 DEF AcceptTicketValidation, JobTypeOK, JobStates
<1>2. ASSUME NEW created, AcceptJobCreated(created) PROVE JobTypeOK'
  BY <1>2 DEF AcceptJobCreated, JobTypeOK, JobStates
<1>3. ASSUME NEW of \in Credential, BeginRetrieve(of) PROVE JobTypeOK'
  BY <1>3 DEF BeginRetrieve, OwnCredentials, JobTypeOK, JobStates
<1>4. ASSUME NEW bytes \in Bytes, NEW more \in BOOLEAN, AcceptImage(bytes, more) PROVE JobTypeOK'
  BY <1>4, ImageStep, JobAssumption DEF JobTypeOK, JobStates
<1>5. CASE CancelJob
  BY <1>5 DEF CancelJob, JobTypeOK, JobStates
<1>6. CASE FailJob
  BY <1>6 DEF FailJob, JobTypeOK, JobStates
<1>7. CASE UNCHANGED jobVars
  BY <1>7 DEF jobVars, JobTypeOK, JobStates
<1> QED
  BY <1>1, <1>2, <1>3, <1>4, <1>5, <1>6, <1>7, Zenon DEF JobNext

\* A job keeps the types of its members, both counts within their limits, and
\* valid credentials from its creation on, which every retrieval has.
THEOREM JobTypeCorrect == JobSpec => []JobTypeOK
  BY JobInitHolds, JobInductive, PTL DEF JobSpec

\* Every step of a job is one of a transfer, or none.
LEMMA JobStepRefines == JobTypeOK /\ [JobNext]_jobVars => [Job!Next]_Job!vars
<1> SUFFICES ASSUME JobTypeOK, [JobNext]_jobVars PROVE Job!Next \/ UNCHANGED Job!vars
  OBVIOUS
<1> USE DEF JobEnd, JobEnds, Retriever
<1>1. ASSUME NEW valid \in BOOLEAN, AcceptTicketValidation(valid) PROVE Job!Next \/ UNCHANGED Job!vars
  <2>1. CASE valid
    BY <1>1, <2>1 DEF AcceptTicketValidation, Job!vars
  <2>2. CASE ~valid
    BY <1>1, <2>2 DEF AcceptTicketValidation, Job!Next, Job!Fail
  <2> QED
    BY <2>1, <2>2
<1>2. ASSUME NEW created, AcceptJobCreated(created) PROVE Job!Next
  BY <1>2 DEF AcceptJobCreated, JobTypeOK, Job!Next, Job!Open
<1>3. ASSUME NEW of \in Credential, BeginRetrieve(of) PROVE Job!Next
  BY <1>3, JobAssumption DEF BeginRetrieve, OwnCredentials, Job!Next, Job!Ask
<1>4. ASSUME NEW bytes \in Bytes, NEW more \in BOOLEAN, AcceptImage(bytes, more) PROVE Job!Next
  <2>1. /\ job = "retrieving" /\ UNCHANGED <<credentials, retriever>>
        /\ retriever = credentials /\ credentials \in Valid
    BY <1>4, ImageStep DEF JobTypeOK
  <2>2. CASE job' = "failed" /\ UNCHANGED <<images, imageBytes>>
    BY <2>1, <2>2 DEF Job!Next, Job!Fail
  <2>3. CASE /\ job' \in {"job_created", "complete"}
             /\ images < MaxImages /\ images' = images + 1
             /\ imageBytes' \in imageBytes + 1 .. MaxImageBytes
    BY <2>1, <2>3, JobAssumption DEF Job!Next, Job!Receive
  <2> QED
    BY <1>4, <2>2, <2>3, ImageStep
<1>5. CASE CancelJob
  BY <1>5, JobAssumption DEF CancelJob, JobTypeOK, Job!Next, Job!Cancel
<1>6. CASE FailJob
  BY <1>6 DEF FailJob, Job!Next, Job!Fail
<1>7. CASE UNCHANGED jobVars
  BY <1>7 DEF jobVars, Job!vars
<1> QED
  BY <1>1, <1>2, <1>3, <1>4, <1>5, <1>6, <1>7, Zenon DEF JobNext

\* A job is an image transfer, for all limits and sets of credentials: images count
\* only in a retrieval begun with the job's own credentials and within both limits,
\* and only a failure changes anything about a job that has ended.
THEOREM JobIsTransfer == JobSpec => ImplementsTransfer
<1>1. JobInit => Job!Init
  BY DEF JobInit, Job!Init, JobEnd, JobEnds, Retriever
<1> QED
  BY <1>1, JobInitHolds, JobInductive, JobStepRefines, PTL DEF JobSpec, ImplementsTransfer, Job!Spec
=============================================================================
