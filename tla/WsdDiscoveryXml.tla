-------------------------- MODULE WsdDiscoveryXml --------------------------
(***************************************************************************)
(* decode_wsd_probe_matches_response() and                                 *)
(* decode_dpws_get_metadata_response() of src/src/wsd_discovery_model.cpp: *)
(* what each does at the beginning of an element, at a text and at the end *)
(* of an element, and which documents they accept. A name stands for a     *)
(* local name in the namespace that belongs to it.                         *)
(***************************************************************************)
EXTENDS WsdXmlMemory

CONSTANT MaxListedMatches   \* WsdDiscoveryLimits::max_matches_per_datagram

ASSUME DiscoveryXmlAssumption == MaxListedMatches \in Nat

\* token_is_scan_type(): a prefixed name of a scan device that the reader resolves
\* to one of the two scan namespaces.
IsScanType(piece) == piece.says = "Types" /\ piece.resolved \in ScanNamespaces

\* is_safe_logical_address() of an address that begins with "urn:uuid:".
IsSafeAddress(text, name) == Says(text) = <<name>>

\* A URI of the sender's host stays one with anything after it.
IsReachable(text) == text # <<>> /\ text[1].says = "XAddrs"

\* A mutant: the address of an earlier match is still there.
ProbeElementKeeping(m, name) ==
  CASE name \in {"Envelope", "ProbeMatches"} -> Sees(m, name)
    [] name = "ProbeMatch" ->
         IF name \in m.inside THEN Throws(m) ELSE [Enters(m, name) EXCEPT !.scan = FALSE]
    [] name = "EndpointReference" /\ "ProbeMatch" \in m.inside -> Enters(m, name)
    [] name \in {"RelatesTo", "Action"} -> Collects(m, name)
    [] name = "Address" /\ {"ProbeMatch", "EndpointReference"} \subseteq m.inside ->
         Collects(m, name)
    [] name \in {"Types", "XAddrs"} /\ "ProbeMatch" \in m.inside -> Collects(m, name)
    [] OTHER -> m

\* An element of the answer to a probe begins.
ProbeElement(m, name) ==
  CASE name \in {"Envelope", "ProbeMatches"} -> Sees(m, name)
    [] name = "ProbeMatch" ->
         IF name \in m.inside
         THEN Throws(m)
         ELSE [Clears(Clears(Enters(m, name), "Address"), "XAddrs") EXCEPT !.scan = FALSE]
    [] name = "EndpointReference" /\ "ProbeMatch" \in m.inside -> Enters(m, name)
    [] name \in {"RelatesTo", "Action"} -> Collects(m, name)
    [] name = "Address" /\ {"ProbeMatch", "EndpointReference"} \subseteq m.inside ->
         Collects(m, name)
    [] name \in {"Types", "XAddrs"} /\ "ProbeMatch" \in m.inside -> Collects(m, name)
    [] OTHER -> m

\* The type that makes a match one of a scanner is kept as history.
ProbeText(m, piece) ==
  CASE m.field = "none" -> m
    [] m.field = "Types" ->
         IF IsScanType(piece) THEN [m EXCEPT !.scan = TRUE, !.namespace = piece] ELSE m
    [] OTHER -> Appends(m, m.field, piece)

\* A match ends: it is a candidate if it is a scanner at an address of the sender.
MatchEnds(m) ==
  IF Len(m.list) = MaxListedMatches
  THEN Throws(m)
  ELSE IF m.scan /\ IsSafeAddress(m.text["Address"], "Address") /\ IsReachable(m.text["XAddrs"])
       THEN [Leaves(m, "ProbeMatch") EXCEPT
               !.list = Append(@, [address |-> m.text["Address"], xaddrs |-> m.text["XAddrs"],
                                   type |-> m.namespace])]
       ELSE Leaves(m, "ProbeMatch")

ProbeEnd(m, name) ==
  Collects(
    CASE name = "EndpointReference" -> Leaves(m, name)
      [] name = "ProbeMatch" -> MatchEnds(m)
      [] OTHER -> m, "none")

\* The document is at its end, and an answer to this probe.
ProbeAccepts(m) ==
  /\ {"Envelope", "ProbeMatches"} \subseteq m.seen
  /\ "ProbeMatch" \notin m.inside
  /\ Says(m.text["RelatesTo"]) = <<"RelatesTo">>
  /\ Says(m.text["Action"]) = <<"Action">>

-----------------------------------------------------------------------------
\* An element of the answer to a metadata request begins.
MetadataElement(m, name) ==
  CASE name \in {"Envelope", "Metadata"} -> Sees(m, name)
    [] name \in {"ThisModel", "Host"} -> Enters(m, name)
    [] name = "Hosted" ->
         [Clears(Enters(m, name), "Address") EXCEPT !.scan = FALSE, !.list = <<>>]
    [] name = "EndpointReference" /\ {"Host", "Hosted"} \cap m.inside # {} -> Enters(m, name)
    [] name \in {"RelatesTo", "Action"} -> Collects(m, name)
    [] name \in {"Manufacturer", "ModelName"} /\ "ThisModel" \in m.inside -> Collects(m, name)
    [] name = "Address" /\ {"Host", "EndpointReference"} \subseteq m.inside ->
         Collects(m, "HostAddress")
    [] /\ name = "Address" /\ {"Hosted", "EndpointReference"} \subseteq m.inside
       /\ "Host" \notin m.inside -> Collects(m, name)
    [] name = "Types" /\ "Hosted" \in m.inside -> Collects(m, name)
    [] OTHER -> m

\* In the list is current_scan_namespace: the last type that is one of a scanner.
MetadataText(m, piece) ==
  CASE m.field = "none" -> m
    [] m.field = "Types" ->
         IF IsScanType(piece) THEN [m EXCEPT !.scan = TRUE, !.list = <<piece>>] ELSE m
    [] OTHER -> Appends(m, m.field, piece)

\* A hosted service ends: it is the scan service if there is none yet.
HostedEnds(m) ==
  IF m.scan /\ m.text["ServiceAddress"] = <<>>
  THEN [Clears(Sets(Leaves(m, "Hosted"), "ServiceAddress", m.text["Address"]), "Address") EXCEPT
          !.namespace = IF m.list = <<>> THEN NoPiece ELSE m.list[1], !.list = <<>>]
  ELSE Leaves(m, "Hosted")

MetadataEnd(m, name) ==
  Collects(
    CASE name \in {"EndpointReference", "ThisModel", "Host"} -> Leaves(m, name)
      [] name = "Hosted" -> HostedEnds(m)
      [] OTHER -> m, "none")

MetadataAccepts(m) ==
  /\ {"Envelope", "Metadata"} \subseteq m.seen
  /\ Says(m.text["RelatesTo"]) = <<"RelatesTo">>
  /\ Says(m.text["Action"]) = <<"Action">>
  /\ m.text["Manufacturer"] # <<>> /\ m.text["ModelName"] # <<>>
  /\ IsSafeAddress(m.text["HostAddress"], "Address")
  /\ IsSafeAddress(m.text["ServiceAddress"], "Address")
  /\ m.namespace.resolved \in ScanNamespaces
=============================================================================
