---------------------------- MODULE WsdSoapCodec ----------------------------
(***************************************************************************)
(* The decoders of src/src/wsd_soap_codec.cpp: the description, the        *)
(* configuration and the status of a scanner, and a SOAP fault. Unlike the *)
(* decoders of a discovery, all but the first collect a text until its own *)
(* element ends and look at it there. A name stands for a local name in    *)
(* the namespace that belongs to it.                                       *)
(***************************************************************************)
EXTENDS WsdXmlMemory

CONSTANTS
  MaxFieldPieces,   \* how many pieces the bounds of append_bounded() allow
  MaxListed         \* how many formats and reasons are accepted: 32

ASSUME SoapCodecAssumption == {MaxFieldPieces, MaxListed} \subseteq Nat

\* append_bounded().
AppendsBounded(m, field, piece) ==
  IF Len(m.text[field]) < MaxFieldPieces THEN Appends(m, field, piece) ELSE Throws(m)

\* The element of this field begins: field_value is collected anew.
CollectsAnew(m, field) == Clears(Collects(m, field), "field_value")

CollectsText(m, piece) ==
  IF m.field = "none" THEN m ELSE AppendsBounded(m, "field_value", piece)

\* Its element ends with a token for a value.
Stores(m) ==
  IF m.text["field_value"] = <<>>
  THEN Throws(m)
  ELSE LET value == m.text["field_value"]
       IN Clears(Sets(Collects(Sees(m, m.field), "none"), m.field, value), "field_value")

\* It ends, and its value is one more of the list, unless that is full or has it.
Lists(m) ==
  IF \/ Len(m.list) = MaxListed
     \/ \E i \in DOMAIN m.list : Says(m.list[i]) = Says(m.text["field_value"])
  THEN Throws(m)
  ELSE [Stores(m) EXCEPT !.list = Append(@, m.text["field_value"])]

-----------------------------------------------------------------------------
\* decode_wsd_scanner_description_response().
DescriptionElement(m, name) ==
  CASE name \in {"GetScannerElementsResponse", "ScannerDescription"} -> Sees(m, name)
    [] /\ name \in {"ScannerName", "ScannerInfo", "ScannerLocation"}
       /\ "ScannerDescription" \in m.seen -> Collects(m, name)
    [] OTHER -> m

DescriptionText(m, piece) ==
  IF m.field = "none" THEN m ELSE AppendsBounded(m, m.field, piece)

DescriptionEnd(m, name) == Collects(m, "none")

DescriptionAccepts(m) ==
  /\ {"GetScannerElementsResponse", "ScannerDescription"} \subseteq m.seen
  /\ m.text["ScannerName"] # <<>>

-----------------------------------------------------------------------------
\* decode_wsd_scanner_configuration_response().
ConfigurationElement(m, name) ==
  CASE name = "GetScannerElementsResponse" -> Sees(m, name)
    [] name = "ScannerConfiguration" -> Enters(m, name)
    [] name \in {"Platen", "ADF", "Film"} /\ "ScannerConfiguration" \in m.inside -> Sees(m, name)
    [] /\ name \in {"FormatValue", "ADFSupportsDuplex"}
       /\ "ScannerConfiguration" \in m.inside -> CollectsAnew(m, name)
    [] OTHER -> m

\* parse_wsd_boolean().
IsBoolean(text) == Says(text) \in {<<"true">>, <<"false">>}

ConfigurationEnd(m, name) ==
  LET ended ==
        CASE name = m.field /\ name = "FormatValue" -> Lists(m)
          [] name = m.field /\ name = "ADFSupportsDuplex" ->
               IF IsBoolean(m.text["field_value"]) THEN Stores(m) ELSE Throws(m)
          [] OTHER -> m
  IN IF name = "ScannerConfiguration" THEN Leaves(ended, name) ELSE ended

ConfigurationAccepts(m) ==
  /\ "GetScannerElementsResponse" \in m.seen
  /\ "ScannerConfiguration" \notin m.inside
  /\ {"Platen", "ADF", "Film"} \cap m.seen # {}
  /\ "ADF" \in m.seen <=> "ADFSupportsDuplex" \in m.seen

-----------------------------------------------------------------------------
\* decode_wsd_scanner_status_response().
StatusElement(m, name) ==
  CASE name = "GetScannerElementsResponse" -> Sees(m, name)
    [] name = "ScannerStatus" -> Enters(m, name)
    [] /\ name \in {"ScannerState", "ScannerStateReason"}
       /\ "ScannerStatus" \in m.inside -> CollectsAnew(m, name)
    [] OTHER -> m

StatusEnd(m, name) ==
  LET ended ==
        CASE name = m.field /\ name = "ScannerState" ->
               IF name \in m.seen THEN Throws(m) ELSE Stores(m)
          [] name = m.field /\ name = "ScannerStateReason" -> Lists(m)
          [] OTHER -> m
  IN IF name = "ScannerStatus" THEN Leaves(ended, name) ELSE ended

StatusAccepts(m) ==
  /\ {"GetScannerElementsResponse", "ScannerState"} \subseteq m.seen
  /\ "ScannerStatus" \notin m.inside

-----------------------------------------------------------------------------
\* decode_wsd_soap_fault().
FaultElement(m, name) ==
  CASE name = "Fault" -> Enters(m, name)
    [] name \in {"Code", "Reason"} /\ "Fault" \in m.inside -> Enters(m, name)
    [] name = "Subcode" /\ "Code" \in m.inside -> Enters(m, name)
    [] name = "Value" -> CollectsAnew(m, IF "Subcode" \in m.inside THEN "Subcode" ELSE "Code")
    [] name = "Text" /\ "Reason" \in m.inside -> CollectsAnew(m, "Reason")
    [] OTHER -> m

FaultEnd(m, name) ==
  LET own == IF m.field = "Reason" THEN "Text" ELSE "Value"
      ended == IF m.field # "none" /\ name = own THEN Stores(m) ELSE m
  IN IF name \in {"Subcode", "Code", "Reason", "Fault"} THEN Leaves(ended, name) ELSE ended

FaultAccepts(m) ==
  /\ "Fault" \notin m.inside
  /\ {"Code", "Subcode", "Reason"} \subseteq m.seen
=============================================================================
