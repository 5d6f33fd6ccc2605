--------------------------- MODULE WsdXmlDocument ---------------------------
(***************************************************************************)
(* A reply of a device as the decoders meet it: a well-formed document,    *)
(* node by node. XmlLite reports an element, a text and the end of an      *)
(* element, but no end of an element that is written as an empty one. The  *)
(* document follows the schema of its message, with up to MaxSurprises     *)
(* deviations: an element left out, in an unexpected place or once too     *)
(* often, a text that says something else, an empty element, a prefix      *)
(* bound anew.                                                             *)
(* Elements that no decoder looks at (Header, Body, MetadataSection) are   *)
(* left out.                                                               *)
(***************************************************************************)
EXTENDS WsdDiscoveryXml, WsdSoapCodec

CONSTANTS
  MaxSurprises,   \* bound of the model: deviations from the schema
  MaxParts        \* bound of the model: ProbeMatch and Hosted elements, and other lists

ASSUME DocumentAssumption == {MaxSurprises, MaxParts} \subseteq Nat

VARIABLES
  message,     \* what is decoded
  open,        \* the open elements: [name, content, bound, part]
  scopes,      \* namespace_scopes_: for each depth what the prefix stands for
  memory,      \* the decoder's memory
  parts,       \* how many elements that may be repeated have begun
  surprises,   \* how many deviations there have been
  empties      \* one of them was an empty element

documentVars == <<message, open, scopes, memory, parts, surprises, empties>>

\* The children that the schema of each message gives to an element, in its order.
Schema ==
  [probe |->
     [Envelope |-> <<"Action", "RelatesTo", "ProbeMatches">>,
      ProbeMatches |-> <<"ProbeMatch">>,
      ProbeMatch |-> <<"EndpointReference", "Types", "XAddrs">>,
      EndpointReference |-> <<"Address">>],
   metadata |->
     [Envelope |-> <<"Action", "RelatesTo", "Metadata">>,
      Metadata |-> <<"ThisModel", "Host", "Hosted">>,
      ThisModel |-> <<"Manufacturer", "ModelName">>,
      Host |-> <<"EndpointReference">>,
      Hosted |-> <<"EndpointReference", "Types">>,
      EndpointReference |-> <<"Address">>],
   description |->
     [Envelope |-> <<"GetScannerElementsResponse">>,
      GetScannerElementsResponse |-> <<"ScannerDescription">>,
      ScannerDescription |-> <<"ScannerName", "ScannerInfo", "ScannerLocation">>],
   configuration |->
     [Envelope |-> <<"GetScannerElementsResponse">>,
      GetScannerElementsResponse |-> <<"ScannerConfiguration">>,
      ScannerConfiguration |-> <<"FormatValue", "Platen", "ADF", "Film">>,
      ADF |-> <<"ADFSupportsDuplex">>],
   status |->
     [Envelope |-> <<"GetScannerElementsResponse">>,
      GetScannerElementsResponse |-> <<"ScannerStatus">>,
      ScannerStatus |-> <<"ScannerState", "ScannerStateReason">>],
   fault |->
     [Envelope |-> <<"Fault">>,
      Fault |-> <<"Code", "Reason">>,
      Code |-> <<"Value", "Subcode">>,
      Subcode |-> <<"Value", "Subcode">>,
      Reason |-> <<"Text">>]]

Messages == DOMAIN Schema

Children(name) == IF name \in DOMAIN Schema[message] THEN Schema[message][name] ELSE <<>>

\* Elements that the schema allows many times.
Repeated == {"ProbeMatch", "Hosted", "FormatValue", "ScannerStateReason", "Text", "Subcode"}

\* The names of each message, and one that no decoder knows.
Names ==
  [m \in Messages |->
     {"Envelope", "Other"} \cup UNION {ToSet(Schema[m][n]) : n \in DOMAIN Schema[m]}]

\* What an element without children says.
Proper(name) ==
  CASE name = "Other" -> {}
    [] name \in {"FormatValue", "ScannerStateReason"} -> {"dib", "jfif"}
    [] name = "ADFSupportsDuplex" -> {"true"}
    [] name = "Value" -> {"Receiver", "ServerErrorTemporaryError"}
    [] OTHER -> {name}

\* What any text of a message says.
Texts ==
  [m \in Messages |-> {"junk"} \cup UNION {Proper(n) : n \in Names[m] \ DOMAIN Schema[m]}]

DocumentInit ==
  /\ message \in Messages
  /\ open = <<>> /\ scopes = <<>> /\ memory = EmptyMemory
  /\ parts = 0 /\ surprises = 0 /\ empties = FALSE

Whole == open = <<>> /\ scopes # <<>>

Reading == ~memory.thrown /\ ~Whole

Element(name) ==
  CASE message = "probe" -> ProbeElement(memory, name)
    [] message = "metadata" -> MetadataElement(memory, name)
    [] message = "description" -> DescriptionElement(memory, name)
    [] message = "configuration" -> ConfigurationElement(memory, name)
    [] message = "status" -> StatusElement(memory, name)
    [] message = "fault" -> FaultElement(memory, name)

\* XmlReader::update_namespace_scope(): an element has the scope of the one around
\* it, changed by its own declarations.
ScopesWith(declared) ==
  LET depth == Len(open)
      inherited == IF depth > 0 /\ Len(scopes) >= depth THEN scopes[depth] ELSE "none"
  IN Append(SubSeq(scopes, 1, depth), IF declared = "none" THEN inherited ELSE declared)

Cost(expected) == IF expected THEN 0 ELSE 1

Envelope(declared) ==
  /\ scopes = <<>>
  /\ surprises' = Cost(declared = "deployed") /\ surprises' <= MaxSurprises
  /\ scopes' = ScopesWith(declared)
  /\ memory' = Element("Envelope")
  /\ open' = <<[name |-> "Envelope", content |-> 0, bound |-> declared, part |-> 0]>>
  /\ UNCHANGED <<message, parts, empties>>

\* Where the schema has a child of the innermost element, or 0.
Place(name) ==
  LET children == Children(Last(open).name)
  IN IF name \in ToSet(children) THEN CHOOSE i \in DOMAIN children : children[i] = name ELSE 0

\* An element begins, with an end to come or without one.
BeginElement(name, declared, empty) ==
  /\ Reading /\ open # <<>>
  /\ LET top == Last(open)
         place == Place(name)
         isPart == name \in {"ProbeMatch", "Hosted"}
     IN /\ surprises' = surprises + Cost(declared = "none") + Cost(~empty) +
             Cost(place = top.content + 1 \/ (place = top.content /\ place # 0 /\ name \in Repeated))
        /\ open' =
             LET around == Append(Front(open), [top EXCEPT !.content = IF @ > place THEN @ ELSE place])
             IN IF empty
                THEN around
                ELSE Append(around,
                       [name |-> name, content |-> 0, part |-> IF isPart THEN parts + 1 ELSE top.part,
                        bound |-> IF declared = "none" THEN top.bound ELSE declared])
        /\ parts' = IF isPart \/ name \in Repeated THEN parts + 1 ELSE parts
  /\ surprises' <= MaxSurprises /\ parts' <= MaxParts
  /\ empties' = (empties \/ empty)
  /\ scopes' = ScopesWith(declared)
  /\ memory' = Element(name)
  /\ UNCHANGED message

ReadText(piece) ==
  CASE message = "probe" -> ProbeText(memory, piece)
    [] message = "metadata" -> MetadataText(memory, piece)
    [] message = "description" -> DescriptionText(memory, piece)
    [] OTHER -> CollectsText(memory, piece)

\* A text of the innermost element.
Text(says) ==
  /\ Reading /\ open # <<>>
  /\ LET top == Last(open)
     IN /\ surprises' = surprises + Cost(top.content = 0 /\ Children(top.name) = <<>> /\ says \in Proper(top.name))
        /\ open' = Append(Front(open), [top EXCEPT !.content = IF @ = 0 THEN 1 ELSE @])
        /\ memory' =
             ReadText([says |-> says, path |-> [i \in DOMAIN open |-> open[i].name],
                       part |-> top.part, resolved |-> Last(scopes), bound |-> top.bound])
  /\ surprises' <= MaxSurprises
  /\ UNCHANGED <<message, scopes, parts, empties>>

\* The innermost element ends.
EndElement ==
  /\ Reading /\ open # <<>>
  /\ memory' =
       LET name == Last(open).name
       IN CASE message = "probe" -> ProbeEnd(memory, name)
            [] message = "metadata" -> MetadataEnd(memory, name)
            [] message = "description" -> DescriptionEnd(memory, name)
            [] message = "configuration" -> ConfigurationEnd(memory, name)
            [] message = "status" -> StatusEnd(memory, name)
            [] message = "fault" -> FaultEnd(memory, name)
  /\ open' = Front(open)
  /\ surprises' = surprises + Cost(Last(open).content # 0) /\ surprises' <= MaxSurprises
  /\ UNCHANGED <<message, scopes, parts, empties>>

\* The next reply, after a whole one, one that the decoder has rejected, or one
\* that XmlLite finds not well-formed.
NextReply ==
  /\ open' = <<>> /\ scopes' = <<>> /\ memory' = EmptyMemory
  /\ parts' = 0 /\ surprises' = 0 /\ empties' = FALSE
  /\ UNCHANGED message

-----------------------------------------------------------------------------
DocumentNext ==
  \/ \E declared \in {"deployed", "foreign"} : Envelope(declared)
  \/ \E name \in Names[message], empty \in BOOLEAN : BeginElement(name, "none", empty)
  \/ /\ message \in {"probe", "metadata"}
     /\ \E name \in Names[message], declared \in {"documented", "foreign"}, empty \in BOOLEAN :
          BeginElement(name, declared, empty)
  \/ \E says \in Texts[message] : Text(says)
  \/ EndElement
  \/ NextReply

DocumentSpec == DocumentInit /\ [][DocumentNext]_documentVars

-----------------------------------------------------------------------------
Accepted ==
  /\ Whole /\ ~memory.thrown
  /\ CASE message = "probe" -> ProbeAccepts(memory)
       [] message = "metadata" -> MetadataAccepts(memory)
       [] message = "description" -> DescriptionAccepts(memory)
       [] message = "configuration" -> ConfigurationAccepts(memory)
       [] message = "status" -> StatusAccepts(memory)
       [] message = "fault" -> FaultAccepts(memory)

\* Every piece of the text stands somewhere in each of these elements.
StandsIn(text, names) == \A i \in DOMAIN text : names \subseteq ToSet(text[i].path)

\* The text is all of one part of the document.
OfPart(text, part) == \A i \in DOMAIN text : text[i].part = part

\* A candidate has its address, its type and its transport from one ProbeMatch,
\* which no other candidate shares.
CandidatesAreOwn ==
  /\ \A i \in DOMAIN memory.list :
       LET match == memory.list[i]
           part == match.type.part
       IN /\ part # 0
          /\ OfPart(match.address, part) /\ OfPart(match.xaddrs, part)
          /\ \A j \in DOMAIN memory.list : i # j => memory.list[j].type.part # part
          /\ ~empties =>
               /\ StandsIn(match.address, {"EndpointReference", "Address"})
               /\ StandsIn(match.xaddrs, {"XAddrs"})
               /\ match.type.resolved = match.type.bound

\* The scan service has its address and its namespace from one Hosted element.
ServiceIsOwn ==
  LET type == memory.namespace
  IN /\ type.part # 0
     /\ OfPart(memory.text["ServiceAddress"], type.part)
     /\ ~empties =>
          /\ StandsIn(memory.text["ServiceAddress"], {"Hosted", "EndpointReference", "Address"})
          /\ StandsIn(memory.text["HostAddress"], {"Host", "EndpointReference", "Address"})
          /\ type.resolved = type.bound

\* A fault has its code from Code and its subcode from the innermost Subcode.
FaultIsOwn ==
  LET parent(piece) == piece.path[Len(piece.path) - 1]
  IN surprises = 0 =>
       /\ \A i \in DOMAIN memory.text["Code"] : parent(memory.text["Code"][i]) = "Code"
       /\ \A i \in DOMAIN memory.text["Subcode"] : parent(memory.text["Subcode"][i]) = "Subcode"

\* What an accepted reply is decoded to is what its elements say, each by itself,
\* also when an element is missing, repeated, in another place or empty (of a fault,
\* its code and subcode only as long as it keeps to its schema): the parts
\* of a candidate or of a service are never mixed with those of another one, a
\* type is read in the namespace that is bound where it stands, and (unless there
\* is an empty element, after which the decoders still collect its text) a text
\* counts only for an element that it stands in.
DecodedAsWritten ==
  Accepted =>
    /\ message = "probe" => CandidatesAreOwn
    /\ message = "metadata" => ServiceIsOwn
    /\ message = "fault" => FaultIsOwn
    /\ ~empties =>
         \A field \in {"RelatesTo", "Action", "Manufacturer", "ModelName", "ScannerName",
                       "ScannerInfo", "ScannerLocation", "ADFSupportsDuplex", "ScannerState"} :
           StandsIn(memory.text[field], {field})
=============================================================================
