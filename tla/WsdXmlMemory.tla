---------------------------- MODULE WsdXmlMemory ----------------------------
(***************************************************************************)
(* What the decoders of src/src/wsd_discovery_model.cpp and                *)
(* src/src/wsd_soap_codec.cpp keep while they read a document. Their local *)
(* variables differ in name only, so that one record has room for each:    *)
(*   seen       the x_seen flags and the supports_x flags                  *)
(*   inside     the in_x flags, and the x_depth that are not -1            *)
(*   field      the element whose text is being collected, or "none"       *)
(*   text       what has been collected for each of these elements         *)
(*   scan       hosted_scan_type or scan_type                              *)
(*   namespace  current_scan_namespace, and then result.scan_namespace     *)
(*   list       candidates, formats or state reasons so far                *)
(* Text is a sequence of pieces, one for each text node, which the code    *)
(* appends to one another: a piece is a record                             *)
(*   says       its content: the name of the element that asks for it, or  *)
(*              another word                                               *)
(*   path       the elements that are open around it                       *)
(*   part       the ordinal of the innermost ProbeMatch or Hosted that     *)
(*              encloses it, or 0                                          *)
(*   resolved   the namespace that the reader finds for a type's prefix    *)
(*   bound      the namespace that XML gives to that prefix                *)
(***************************************************************************)
EXTENDS Naturals, SequencesExt

ScanNamespaces == {"deployed", "documented"}

Fields ==
  {"RelatesTo", "Action", "Address", "Types", "XAddrs", "Manufacturer", "ModelName",
   "HostAddress", "ServiceAddress", "ScannerName", "ScannerInfo", "ScannerLocation",
   "FormatValue", "ADFSupportsDuplex", "ScannerState", "ScannerStateReason", "Code",
   "Subcode", "Reason", "field_value"}

NoPiece == [says |-> "nothing", path |-> <<>>, part |-> 0, resolved |-> "none", bound |-> "none"]

EmptyMemory ==
  [thrown |-> FALSE, seen |-> {}, inside |-> {}, field |-> "none",
   text |-> [f \in Fields |-> <<>>], scan |-> FALSE, namespace |-> NoPiece, list |-> <<>>]

\* The decoder throws.
Throws(m) == [m EXCEPT !.thrown = TRUE]

Sees(m, name) == [m EXCEPT !.seen = @ \cup {name}]

Enters(m, name) == [m EXCEPT !.inside = @ \cup {name}]

Leaves(m, name) == [m EXCEPT !.inside = @ \ {name}]

\* The text of this field is collected from here on.
Collects(m, field) == [m EXCEPT !.field = field]

\* This field has this text from here on.
Sets(m, field, text) == [m EXCEPT !.text = [m.text EXCEPT ![field] = text]]

Clears(m, field) == Sets(m, field, <<>>)

Appends(m, field, piece) == Sets(m, field, Append(m.text[field], piece))

\* The content of some text.
Says(text) == [i \in DOMAIN text |-> text[i].says]
=============================================================================
