------------------------- MODULE WsdDiscoveryModel -------------------------
(***************************************************************************)
(* WsdDiscoveryModel of src/src/wsd_discovery_model.cpp. refresh() probes  *)
(* the network, decodes the datagrams that come back into candidates, asks *)
(* each candidate for its metadata and numbers the devices that confirm    *)
(* themselves. The exchanges with the network take time, in which another  *)
(* thread may set the cancel flag, so the action ends where an exchange    *)
(* begins; the decoding of a datagram is a step of its own. What the XML   *)
(* decoders make of a document is WsdDiscoveryXml's subject: a message is  *)
(* here what it says. An opaque id is its ordinal number.                  *)
(***************************************************************************)
EXTENDS Naturals, SequencesExt, Subsequences, WsdCancellation

CONSTANTS
  Device,          \* logical device addresses
  Host,            \* the addresses that datagrams come from
  Service,         \* logical addresses of scan services
  Match,           \* ProbeMatch elements: [device, scan, xaddrs], the last a set of hosts
  Answer,          \* GetMetadata answers: [relates, complete, device, services]
  MaxDatagrams,    \* WsdDiscoveryLimits::max_datagrams
  MaxMatches,      \* WsdDiscoveryLimits::max_matches_per_datagram
  MaxCandidates,   \* WsdDiscoveryLimits::max_candidates
  MaxGeneration    \* numeric_limits<uint64_t>::max()

\* A scan service of a device may have an address that is empty or is not safe.
Blank == "blank"
Unsafe == "unsafe"

ASSUME DiscoveryAssumption ==
  /\ {MaxDatagrams, MaxMatches, MaxCandidates, MaxGeneration} \subseteq Nat \ {0}
  /\ Service \cap {Blank, Unsafe} = {}
  /\ Match \subseteq [device : Device, scan : BOOLEAN, xaddrs : SUBSET Host]
  /\ Answer \subseteq [relates : BOOLEAN, complete : BOOLEAN, device : Device,
                       services : Seq(Service \cup {Blank, Unsafe})]

VARIABLES
  at,           \* where refresh() is: not running, or waiting for or decoding what
  datagrams,    \* how many datagrams are still to decode
  candidates,   \* the candidates still to ask
  devices,      \* the devices of the result
  issue,        \* the issue that ended the last call early, or "none"
  generation,   \* generation_
  endpoints,    \* endpoints_
  offered       \* the selections handed out: <<generation, number, device>>

call == <<at, datagrams, candidates>>
result == <<devices, issue>>
model == <<generation, endpoints>>
discoveryVars == <<call, result, model, offered>>

Candidate == [device : Device, host : Host]
Endpoint == [device : Device, host : Host, service : Service]

DiscoveryInit ==
  /\ at = "idle" /\ datagrams = 0 /\ candidates = <<>>
  /\ devices = <<>> /\ issue = "none"
  /\ generation = 0 /\ endpoints = <<>>
  /\ offered = {}

\* refresh() returns without a result, or throws: result.issue_codes ends so.
Return(reason) ==
  /\ at' = "idle" /\ datagrams' = 0 /\ candidates' = <<>>
  /\ issue' = reason

\* refresh() returns a list of devices, from which the user may select.
ReturnList(found) ==
  /\ Return("none")
  /\ devices' = found
  /\ offered' = offered \cup {<<generation, number, found[number]>> : number \in DOMAIN found}

\* A mutant: the endpoints of the previous refresh stay.
RefreshKeepingEndpoints(validId) ==
  /\ at = "idle"
  /\ generation < MaxGeneration
  /\ generation' = generation + 1
  /\ devices' = <<>>
  /\ IF cancelled
     THEN Return("cancelled")
     ELSE IF ~validId
          THEN Return("thrown")
          ELSE at' = "probing" /\ issue' = "none" /\ UNCHANGED <<datagrams, candidates>>
  /\ UNCHANGED <<endpoints, offered>>

Refresh(validId) ==
  /\ at = "idle"
  /\ generation < MaxGeneration
  /\ generation' = generation + 1
  /\ endpoints' = <<>> /\ devices' = <<>>
  /\ IF cancelled
     THEN Return("cancelled")
     ELSE IF ~validId
          THEN Return("thrown")
          ELSE at' = "probing" /\ issue' = "none" /\ UNCHANGED <<datagrams, candidates>>
  /\ UNCHANGED offered

\* exchange.probe() returns so many datagrams.
ProbeReturns(count) ==
  /\ at = "probing"
  /\ IF cancelled
     THEN Return("cancelled")
     ELSE IF count > MaxDatagrams
          THEN Return("discovery_limit")
          ELSE at' = "decoding" /\ datagrams' = count /\ UNCHANGED <<candidates, issue>>
  /\ UNCHANGED <<devices, model, offered>>

\* The candidates that decode_wsd_probe_matches_response() returns; it throws on an
\* answer to another probe, and at a match after the last that it accepts.
Decoded(relates, sender, matches) ==
  LET accepted == {i \in DOMAIN matches : matches[i].scan /\ sender \in matches[i].xaddrs}
      throws == \/ ~relates
                \/ \E i \in DOMAIN matches : Cardinality({j \in accepted : j < i}) >= MaxMatches
  IN IF throws
     THEN <<>>
     ELSE Subsequence([i \in DOMAIN matches |-> [device |-> matches[i].device, host |-> sender]],
                      accepted)

\* The first candidate of each address.
Collect(known, decoded) ==
  LET New(i) == /\ \A j \in DOMAIN known : known[j].device # decoded[i].device
                /\ \A j \in 1 .. i - 1 : decoded[j].device # decoded[i].device
  IN known \o Subsequence(decoded, {i \in DOMAIN decoded : New(i)})

DecodeDatagram(relates, sender, matches) ==
  /\ at = "decoding" /\ datagrams # 0
  /\ LET collected == Collect(candidates, Decoded(relates, sender, matches))
     IN IF Len(collected) > MaxCandidates
        THEN Return("candidate_limit")
        ELSE candidates' = collected /\ datagrams' = datagrams - 1 /\ UNCHANGED <<at, issue>>
  /\ UNCHANGED <<devices, model, offered>>

\* All datagrams are decoded. The caller has passed so many message ids.
BeginMetadata(ids) ==
  /\ at = "decoding" /\ datagrams = 0
  /\ IF ids < Len(candidates)
     THEN Return("metadata_id_limit") /\ UNCHANGED <<devices, offered>>
     ELSE IF candidates = <<>>
          THEN ReturnList(<<>>)
          ELSE IF cancelled
               THEN Return("cancelled") /\ UNCHANGED <<devices, offered>>
               ELSE at' = "asking" /\ UNCHANGED <<datagrams, candidates, result, offered>>
  /\ UNCHANGED model

\* The service decode_dpws_get_metadata_response() finds: the first that has an address.
ServiceOf(answer) ==
  LET addressed == SelectSeq(answer.services, LAMBDA service : service # Blank)
  IN IF addressed = <<>> THEN Blank ELSE addressed[1]

\* A mutant: the answer need not be of the device that was asked.
ConfirmsAny(answer, candidate) ==
  /\ answer.relates /\ answer.complete
  /\ ServiceOf(answer) \in Service

\* The answer is accepted for the candidate that was asked.
Confirms(answer, candidate) ==
  /\ answer.relates /\ answer.complete
  /\ ServiceOf(answer) \in Service
  /\ answer.device = candidate.device

\* unordered_map::emplace() keeps an endpoint that already has the id.
Emplace(map, id, endpoint) == IF id \in DOMAIN map THEN map ELSE Append(map, endpoint)

\* The candidate is done with, and these are the devices now: on to the next.
NextCandidate(found, resolved) ==
  IF Len(candidates) = 1
  THEN ReturnList(found) /\ endpoints' = resolved
  ELSE /\ UNCHANGED offered
       /\ IF cancelled
          THEN Return("cancelled") /\ devices' = <<>> /\ endpoints' = <<>>
          ELSE /\ candidates' = Tail(candidates)
               /\ devices' = found
               /\ endpoints' = resolved
               /\ UNCHANGED <<at, datagrams, issue>>

MetadataReturns(answer) ==
  /\ at = "asking"
  /\ IF Confirms(answer, candidates[1])
     THEN NextCandidate(Append(devices, answer.device),
            Emplace(endpoints, Len(devices) + 1,
                    [device |-> answer.device, host |-> candidates[1].host,
                     service |-> ServiceOf(answer)]))
     ELSE NextCandidate(devices, endpoints)
  /\ UNCHANGED generation

\* get_metadata(), or the encoding of the request, throws a WsdScanError.
MetadataFails ==
  /\ at = "asking"
  /\ NextCandidate(devices, endpoints)
  /\ UNCHANGED generation

\* probe() throws, or get_metadata() something other than a WsdScanError: there
\* is no result, and the endpoints found so far stay behind.
ExchangeThrows ==
  /\ at \in {"probing", "asking"}
  /\ Return("thrown")
  /\ devices' = <<>>
  /\ UNCHANGED <<model, offered>>

\* resolve_for_connection(): the endpoint, or the error.
Resolve(number, of) ==
  IF of = 0 \/ of # generation
  THEN "stale"
  ELSE IF number \in DOMAIN endpoints THEN endpoints[number] ELSE "unavailable"

-----------------------------------------------------------------------------
ExchangeReturns ==
  \/ \E count \in 0 .. MaxDatagrams + 1 : ProbeReturns(count)
  \/ \E answer \in Answer : MetadataReturns(answer)
  \/ MetadataFails
  \/ ExchangeThrows

Continue ==
  \/ \E relates \in BOOLEAN, sender \in Host, matches \in SeqOf(Match, MaxMatches + 1) :
       DecodeDatagram(relates, sender, matches)
  \/ \E ids \in 0 .. MaxCandidates : BeginMetadata(ids)

DiscoveryNext ==
  \/ (\E validId \in BOOLEAN : Refresh(validId)) /\ UNCHANGED cancelled
  \/ ExchangeReturns /\ UNCHANGED cancelled
  \/ Continue /\ UNCHANGED cancelled
  \/ RequestCancel /\ UNCHANGED discoveryVars
  \/ at = "idle" /\ FreshFlag /\ UNCHANGED discoveryVars

\* The exchange returns in the end, and the thread that called refresh() is scheduled.
DiscoveryFairness ==
  /\ WF_<<discoveryVars, cancelled>>(ExchangeReturns /\ UNCHANGED cancelled)
  /\ WF_<<discoveryVars, cancelled>>(Continue /\ UNCHANGED cancelled)

DiscoverySpec ==
  DiscoveryInit /\ cancelled = FALSE /\ [][DiscoveryNext]_<<discoveryVars, cancelled>>

-----------------------------------------------------------------------------
Issues ==
  {"none", "cancelled", "discovery_limit", "candidate_limit", "metadata_id_limit", "thrown"}

DiscoveryTypeOK ==
  /\ at \in {"idle", "probing", "decoding", "asking"}
  /\ datagrams \in 0 .. MaxDatagrams
  /\ candidates \in Seq(Candidate) /\ Len(candidates) <= MaxCandidates
  /\ devices \in Seq(Device) /\ issue \in Issues
  /\ generation \in 0 .. MaxGeneration
  /\ endpoints \in Seq(Endpoint)
  /\ offered \subseteq (Nat \X Nat \X Device)

\* The list that refresh() returns has every device once and each number of it
\* resolves to that device's own endpoint; a refresh that was cancelled or hit a
\* limit leaves no endpoint behind, however far it had come. (An exception leaves
\* those found so far, which nobody was offered.)
ListResolves ==
  at = "idle" =>
    /\ issue # "thrown" => Len(endpoints) = Len(devices)
    /\ IsInjective(devices)
    /\ \A number \in DOMAIN devices : Resolve(number, generation).device = devices[number]
    /\ issue # "none" => devices = <<>>

\* A selection that was handed out resolves to an endpoint of the device it named
\* until the next refresh begins, and from then on to the error that says it is
\* stale, however that refresh ends.
SelectionsResolve ==
  \A selection \in offered :
    IF selection[1] = generation
    THEN /\ selection[2] \in DOMAIN endpoints
         /\ Resolve(selection[2], selection[1]).device = selection[3]
    ELSE Resolve(selection[2], selection[1]) = "stale"

\* The device that each number of the current generation stands for.
Selection ==
  INSTANCE DeviceSelection WITH
    targets <- [number \in DOMAIN endpoints |-> endpoints[number].device]

\* refresh() and resolve_for_connection() keep the promise of a discovery: a
\* selection that refresh() has handed out resolves to the device it named for as
\* long as its generation is the current one.
ImplementsSelection == Selection!Spec

\* A flag that is set while refresh() waits ends the call when the exchange
\* returns: the network is not asked again.
CancelEndsRefresh ==
  [][cancelled /\ at \in {"probing", "asking"} => at' = "idle"]_discoveryVars

\* refresh() returns in the end.
RefreshReturns == at # "idle" ~> at = "idle"
=============================================================================
