----------------------- MODULE WsdXmlDocument_proofs -----------------------
(***************************************************************************)
(* A theorem about the decoders of the devices' replies: what an accepted  *)
(* reply is decoded to is what its elements say, for documents of any      *)
(* depth and length, with any number of deviations from the schema.        *)
(*   1. What each operation does to a decoder's memory.                    *)
(*   2. What each decoder does at an element, a text and an end: Opens,    *)
(*      Reads and Closes say what all of them have in common, ProbeOpensAs *)
(*      and the like what only the one of a message does.                  *)
(*   3. What a step does to the open elements and to the scopes: Begins,   *)
(*      TextIs, Ends, Restarts.                                            *)
(*   4. The inductive invariant, one part after another: the memory is     *)
(*      Sound, what is collected is Standing in the elements it is for,    *)
(*      the prefix is Scoped, parts are Nested, and ProbeInv, MetadataInv  *)
(*      and FaultInv say what the parts of a reply have of their own.      *)
(***************************************************************************)
EXTENDS WsdXmlDocument, SequenceTheorems, TLAPS

-----------------------------------------------------------------------------
(* The memory of a decoder.                                                *)

\* A sequence, whatever is in it.
IsList(list) == Len(list) \in Nat /\ list = [i \in 1 .. Len(list) |-> list[i]]

LEMMA SequenceIsList ==
  ASSUME NEW S, NEW list \in Seq(S)
  PROVE  IsList(list)
<1>1. Len(list) \in Nat /\ list \in [1 .. Len(list) -> S]
  OBVIOUS
<1> QED
  BY <1>1 DEF IsList

\* Every list is one of its own members.
LEMMA ListIsSequence ==
  ASSUME NEW list, IsList(list), NEW e
  PROVE  list \in Seq({list[i] : i \in 1 .. Len(list)} \cup {e})
  BY DEF IsList

LEMMA EmptyIsList == IsList(<<>>) /\ Len(<<>>) = 0
<1>1. <<>> \in Seq({})
  OBVIOUS
<1>2. IsList(<<>>)
  BY <1>1, SequenceIsList
<1> QED
  BY <1>2

LEMMA AppendIsList ==
  ASSUME NEW list, IsList(list), NEW e
  PROVE  /\ IsList(Append(list, e))
         /\ Len(Append(list, e)) = Len(list) + 1
         /\ Append(list, e)[Len(list) + 1] = e
         /\ \A i \in 1 .. Len(list) : Append(list, e)[i] = list[i]
<1> DEFINE S == {list[i] : i \in 1 .. Len(list)} \cup {e}
<1>1. list \in Seq(S) /\ e \in S
  BY ListIsSequence
<1> HIDE DEF S
<1>2. /\ Append(list, e) \in Seq(S)
      /\ Len(Append(list, e)) = Len(list) + 1
      /\ Append(list, e)[Len(list) + 1] = e
      /\ \A i \in 1 .. Len(list) : Append(list, e)[i] = list[i]
  BY <1>1
<1> QED
  BY <1>2, SequenceIsList

LEMMA FrontIsList ==
  ASSUME NEW list, IsList(list), list # <<>>
  PROVE  /\ Len(list) \in Nat \ {0}
         /\ Last(list) = list[Len(list)]
         /\ IsList(Front(list)) /\ Len(Front(list)) = Len(list) - 1
         /\ \A i \in 1 .. Len(list) - 1 : Front(list)[i] = list[i]
<1> DEFINE S == {list[i] : i \in 1 .. Len(list)} \cup {list}
<1>1. list \in Seq(S)
  BY ListIsSequence
<1> HIDE DEF S
<1>2. Len(list) \in Nat \ {0} /\ Last(list) = list[Len(list)]
  BY <1>1 DEF Last
<1> DEFINE front == SubSeq(list, 1, Len(list) - 1)
<1>3. Front(list) = front
  BY DEF Front
<1>4. \A i \in 1 .. Len(list) - 1 : list[i] \in S
  BY <1>1, <1>2
<1> DEFINE n == Len(list) - 1
<1>5. n \in Nat /\ front = SubSeq(list, 1, n)
  BY <1>2
<1> HIDE DEF n, front
<1>6. /\ front \in Seq(S) /\ Len(front) = n
      /\ \A i \in 1 .. n : front[i] = list[i]
  <2>1. \A i \in 1 .. n : list[i] \in S
    BY <1>4 DEF n
  <2>2. /\ front \in Seq(S)
        /\ Len(front) = IF 1 <= n THEN n - 1 + 1 ELSE 0
        /\ \A i \in 1 .. n - 1 + 1 : front[i] = list[1 + i - 1]
    BY <1>5, <2>1, SubSeqProperties
  <2>3. n - 1 + 1 = n /\ \A i \in 1 .. n : 1 + i - 1 = i
    BY <1>5
  <2> QED
    BY <1>5, <2>2, <2>3
<1> QED
  BY <1>2, <1>3, <1>6, SequenceIsList DEF n

IsMemory(m) ==
  /\ m = [thrown |-> m.thrown, seen |-> m.seen, inside |-> m.inside, field |-> m.field,
          text |-> m.text, scan |-> m.scan, namespace |-> m.namespace, list |-> m.list]
  /\ m.text = [f \in Fields |-> m.text[f]]
  /\ \A f \in Fields : IsList(m.text[f])
  /\ IsList(m.list)
  /\ m.field \in Fields \cup {"none"}

\* What a decoder does at an element or a text changes, and what it keeps.
Keeps(m, n, field, list, scan, namespace) ==
  /\ IsMemory(n) /\ n.thrown = m.thrown
  /\ n.field = field /\ n.list = list /\ n.scan = scan /\ n.namespace = namespace

LEMMA SeesIs ==
  ASSUME NEW m, IsMemory(m), NEW name
  PROVE  /\ Keeps(m, Sees(m, name), m.field, m.list, m.scan, m.namespace)
         /\ Sees(m, name).inside = m.inside /\ Sees(m, name).text = m.text
  BY DEF Sees, IsMemory, Keeps

LEMMA EntersIs ==
  ASSUME NEW m, IsMemory(m), NEW name
  PROVE  /\ Keeps(m, Enters(m, name), m.field, m.list, m.scan, m.namespace)
         /\ Enters(m, name).inside = m.inside \cup {name} /\ Enters(m, name).text = m.text
  BY DEF Enters, IsMemory, Keeps

LEMMA LeavesIs ==
  ASSUME NEW m, IsMemory(m), NEW name
  PROVE  /\ Keeps(m, Leaves(m, name), m.field, m.list, m.scan, m.namespace)
         /\ Leaves(m, name).inside = m.inside \ {name} /\ Leaves(m, name).text = m.text
  BY DEF Leaves, IsMemory, Keeps

LEMMA CollectsIs ==
  ASSUME NEW m, IsMemory(m), NEW field \in Fields \cup {"none"}
  PROVE  /\ Keeps(m, Collects(m, field), field, m.list, m.scan, m.namespace)
         /\ Collects(m, field).inside = m.inside /\ Collects(m, field).text = m.text
  BY DEF Collects, IsMemory, Keeps

LEMMA SetsIs ==
  ASSUME NEW m, IsMemory(m), NEW field \in Fields, NEW text, IsList(text)
  PROVE  /\ Keeps(m, Sets(m, field, text), m.field, m.list, m.scan, m.namespace)
         /\ Sets(m, field, text).inside = m.inside
         /\ Sets(m, field, text).text[field] = text
         /\ \A f \in Fields \ {field} : Sets(m, field, text).text[f] = m.text[f]
  BY DEF Sets, IsMemory, Keeps

LEMMA ListIs ==
  ASSUME NEW m, IsMemory(m), NEW list, IsList(list)
  PROVE  /\ Keeps(m, [m EXCEPT !.list = list], m.field, list, m.scan, m.namespace)
         /\ [m EXCEPT !.list = list].inside = m.inside /\ [m EXCEPT !.list = list].text = m.text
  BY DEF IsMemory, Keeps

LEMMA ScanIs ==
  ASSUME NEW m, IsMemory(m), NEW scan
  PROVE  /\ Keeps(m, [m EXCEPT !.scan = scan], m.field, m.list, scan, m.namespace)
         /\ [m EXCEPT !.scan = scan].inside = m.inside /\ [m EXCEPT !.scan = scan].text = m.text
  BY DEF IsMemory, Keeps

LEMMA NamespaceIs ==
  ASSUME NEW m, IsMemory(m), NEW namespace
  PROVE  /\ Keeps(m, [m EXCEPT !.namespace = namespace], m.field, m.list, m.scan, namespace)
         /\ [m EXCEPT !.namespace = namespace].inside = m.inside
         /\ [m EXCEPT !.namespace = namespace].text = m.text
  BY DEF IsMemory, Keeps

LEMMA TypeIs ==
  ASSUME NEW m, IsMemory(m), NEW scan, NEW namespace
  PROVE  LET n == [m EXCEPT !.scan = scan, !.namespace = namespace]
         IN /\ Keeps(m, n, m.field, m.list, scan, namespace)
            /\ n.inside = m.inside /\ n.text = m.text
<1> DEFINE a == [m EXCEPT !.scan = scan]
           b == [a EXCEPT !.namespace = namespace]
<1>1. [m EXCEPT !.scan = scan, !.namespace = namespace] = b
  OBVIOUS
<1>2. Keeps(m, a, m.field, m.list, scan, m.namespace) /\ a.inside = m.inside /\ a.text = m.text
  BY ScanIs
<1> HIDE DEF a
<1>3. Keeps(a, b, a.field, a.list, a.scan, namespace) /\ b.inside = a.inside /\ b.text = a.text
  BY <1>2, NamespaceIs DEF Keeps
<1> HIDE DEF b
<1> QED
  BY <1>1, <1>2, <1>3 DEF Keeps

LEMMA EmptyMemoryIs == IsMemory(EmptyMemory)
  BY EmptyIsList DEF EmptyMemory, IsMemory

LEMMA FieldNames ==
  /\ {"RelatesTo", "Action", "Address", "Types", "XAddrs", "Manufacturer", "ModelName",
      "HostAddress", "ServiceAddress", "ScannerName", "ScannerInfo", "ScannerLocation",
      "FormatValue", "ADFSupportsDuplex", "ScannerState", "ScannerStateReason", "Code",
      "Subcode", "Reason", "field_value"} \subseteq Fields
  BY DEF Fields

LEMMA ClearsIs ==
  ASSUME NEW m, IsMemory(m), NEW field \in Fields
  PROVE  /\ Keeps(m, Clears(m, field), m.field, m.list, m.scan, m.namespace)
         /\ Clears(m, field).inside = m.inside
         /\ Clears(m, field).text[field] = <<>>
         /\ \A f \in Fields \ {field} : Clears(m, field).text[f] = m.text[f]
  BY SetsIs, EmptyIsList DEF Clears

-----------------------------------------------------------------------------
(* What every decoder does at an element, a text and an end.               *)

\* The elements that a text of this field stands in.
Needs(of, field) ==
  IF field \in {"Code", "Subcode", "Reason", "field_value"} THEN {}
  ELSE IF field = "HostAddress" THEN {"Host", "EndpointReference", "Address"}
  ELSE IF field = "ServiceAddress" \/ (field = "Address" /\ of = "metadata")
       THEN {"Hosted", "EndpointReference", "Address"}
  ELSE IF field = "Address" THEN {"EndpointReference", "Address"}
  ELSE {field}

\* The elements that are noted while they are open, and forgotten at an end.
Noted(of) ==
  IF of = "probe" THEN {"ProbeMatch", "EndpointReference"}
  ELSE IF of = "metadata" THEN {"ThisModel", "Host", "Hosted", "EndpointReference"}
  ELSE IF of = "configuration" THEN {"ScannerConfiguration"}
  ELSE IF of = "status" THEN {"ScannerStatus"}
  ELSE IF of = "fault" THEN {"Fault", "Code", "Reason", "Subcode"}
  ELSE {}

\* The fields that are collected.
Asked(of) ==
  IF of = "probe" THEN {"RelatesTo", "Action", "Address", "Types", "XAddrs"}
  ELSE IF of = "metadata"
       THEN {"RelatesTo", "Action", "Manufacturer", "ModelName", "HostAddress", "Address", "Types"}
  ELSE IF of = "description" THEN {"ScannerName", "ScannerInfo", "ScannerLocation"}
  ELSE IF of = "configuration" THEN {"FormatValue", "ADFSupportsDuplex"}
  ELSE IF of = "status" THEN {"ScannerState", "ScannerStateReason"}
  ELSE {"Code", "Subcode", "Reason"}

\* These decoders collect a text where it stays, and until any element ends.
Direct(of) == of \in {"probe", "metadata", "description"}

Ready(of, m) ==
  /\ IsMemory(m)
  /\ m.field \in Asked(of) \cup {"none"}
  /\ m.inside \subseteq Noted(of)
  /\ Direct(of) => m.text["field_value"] = <<>>

Opens(of, m, n, name) ==
  n.thrown \/
    /\ Ready(of, n)
    /\ n.inside \subseteq m.inside \cup {name}
    /\ \/ n.field = m.field
       \/ Needs(of, n.field) \subseteq m.inside \cup {name} /\ n.text["field_value"] = <<>>
    /\ \A f \in Fields : n.text[f] = m.text[f] \/ n.text[f] = <<>>

Reads(of, m, n, piece) ==
  n.thrown \/
    /\ Ready(of, n)
    /\ n.inside = m.inside /\ n.field = m.field
    /\ \A f \in Fields :
         \/ n.text[f] = m.text[f]
         \/ m.field # "none" /\ f \in {m.field, "field_value"} /\ n.text[f] = Append(m.text[f], piece)

Closes(of, m, n, name) ==
  n.thrown \/
    /\ Ready(of, n)
    /\ n.inside \subseteq m.inside \ {name}
    /\ \/ n.field = "none"
       \/ /\ ~Direct(of) /\ n.field = m.field /\ name \notin Needs(of, m.field)
          /\ n.text["field_value"] = m.text["field_value"]
    /\ \A f \in Fields :
         \/ n.text[f] = m.text[f]
         \/ n.text[f] = <<>>
         \/ f = m.field /\ n.text[f] = m.text["field_value"]
         \/ of = "metadata" /\ f = "ServiceAddress" /\ n.text[f] = m.text["Address"]

LEMMA ThrowsIs ==
  ASSUME NEW m, IsMemory(m)
  PROVE  Throws(m).thrown
  BY DEF Throws, IsMemory

LEMMA AskedAreFields ==
  ASSUME NEW of
  PROVE  Asked(of) \subseteq Fields \ {"field_value"}
  BY FieldNames DEF Asked

\* An element is seen or noted, or its text is collected.
LEMMA SeenOpens ==
  ASSUME NEW of, NEW m, Ready(of, m), NEW name
  PROVE  Opens(of, m, m, name) /\ Opens(of, m, Sees(m, name), name)
<1>1. Opens(of, m, m, name)
  BY DEF Opens, Ready
<1>2. Opens(of, m, Sees(m, name), name)
  <2> DEFINE n == Sees(m, name)
  <2>1. Keeps(m, n, m.field, m.list, m.scan, m.namespace) /\ n.inside = m.inside /\ n.text = m.text
    BY SeesIs DEF Ready
  <2> HIDE DEF n
  <2>2. Opens(of, m, n, name)
    BY <2>1 DEF Opens, Ready, Keeps
  <2> QED
    BY <2>2 DEF n
<1> QED
  BY <1>1, <1>2

LEMMA NotedOpens ==
  ASSUME NEW of, NEW m, Ready(of, m), NEW name \in Noted(of)
  PROVE  Opens(of, m, Enters(m, name), name)
<1> DEFINE n == Enters(m, name)
<1>1. Keeps(m, n, m.field, m.list, m.scan, m.namespace) /\ n.inside = m.inside \cup {name} /\ n.text = m.text
  BY EntersIs DEF Ready
<1> HIDE DEF n
<1>2. Opens(of, m, n, name)
  BY <1>1 DEF Opens, Ready, Keeps
<1> QED
  BY <1>2 DEF n

LEMMA CollectsAnewIs ==
  ASSUME NEW m, IsMemory(m), NEW field \in Fields
  PROVE  LET n == CollectsAnew(m, field)
         IN /\ n.field = field /\ n.inside = m.inside /\ n.text["field_value"] = <<>>
            /\ \A f \in Fields \ {"field_value"} : n.text[f] = m.text[f]
<1> DEFINE a == Collects(m, field)
           n == Clears(a, "field_value")
<1>1. Keeps(m, a, field, m.list, m.scan, m.namespace) /\ a.inside = m.inside /\ a.text = m.text
  BY CollectsIs
<1> HIDE DEF a
<1>2. /\ Keeps(a, n, a.field, a.list, a.scan, a.namespace) /\ n.inside = a.inside
      /\ n.text["field_value"] = <<>>
      /\ \A f \in Fields \ {"field_value"} : n.text[f] = a.text[f]
  <2>1. "field_value" \in Fields /\ IsMemory(a)
    BY <1>1, FieldNames DEF Keeps
  <2> QED
    BY <2>1, ClearsIs
<1> HIDE DEF n
<1>3. /\ n.field = field /\ n.inside = m.inside /\ n.text["field_value"] = <<>>
      /\ \A f \in Fields \ {"field_value"} : n.text[f] = m.text[f]
  BY <1>1, <1>2 DEF Keeps
<1>4. CollectsAnew(m, field) = n
  BY DEF CollectsAnew, n, a
<1> QED
  BY <1>3, <1>4

LEMMA CollectedOpens ==
  ASSUME NEW of, NEW m, Ready(of, m), NEW name, NEW field \in Asked(of),
         Needs(of, field) \subseteq m.inside \cup {name}
  PROVE  /\ Direct(of) => Opens(of, m, Collects(m, field), name)
         /\ Opens(of, m, CollectsAnew(m, field), name)
<1> DEFINE n == Collects(m, field)
           anew == Clears(n, "field_value")
<1>1. field \in Fields \cup {"none"} /\ "field_value" \in Fields
  BY AskedAreFields, FieldNames
<1>2. Keeps(m, n, field, m.list, m.scan, m.namespace) /\ n.inside = m.inside /\ n.text = m.text
  BY <1>1, CollectsIs DEF Ready
<1> HIDE DEF n
<1>3. /\ Keeps(n, anew, n.field, n.list, n.scan, n.namespace) /\ anew.inside = n.inside
      /\ anew.text["field_value"] = <<>>
      /\ \A f \in Fields \ {"field_value"} : anew.text[f] = n.text[f]
  BY <1>1, <1>2, ClearsIs DEF Keeps
<1> HIDE DEF anew
<1>4. Direct(of) => Opens(of, m, n, name)
  BY <1>2 DEF Opens, Ready, Keeps
<1>5. Opens(of, m, anew, name)
  BY <1>1, <1>2, <1>3 DEF Opens, Ready, Keeps
<1> QED
  BY <1>4, <1>5 DEF n, anew, CollectsAnew

\* An end that is not the one of a noted element.
LEMMA OtherCloses ==
  ASSUME NEW of, NEW m, Ready(of, m), NEW name, name \notin Noted(of)
  PROVE  /\ Closes(of, m, Collects(m, "none"), name)
         /\ ~Direct(of) /\ (m.field = "none" \/ name \notin Needs(of, m.field)) => Closes(of, m, m, name)
<1> DEFINE n == Collects(m, "none")
<1>1. Keeps(m, n, "none", m.list, m.scan, m.namespace) /\ n.inside = m.inside /\ n.text = m.text
  BY CollectsIs DEF Ready
<1> HIDE DEF n
<1>2. Closes(of, m, n, name)
  BY <1>1 DEF Closes, Ready, Keeps
<1>3. ~Direct(of) /\ (m.field = "none" \/ name \notin Needs(of, m.field)) => Closes(of, m, m, name)
  BY DEF Closes, Ready
<1> QED
  BY <1>2, <1>3 DEF n

LEMMA NotedCloses ==
  ASSUME NEW of, NEW m, Ready(of, m), NEW name
  PROVE  /\ Closes(of, m, Collects(Leaves(m, name), "none"), name)
         /\ ~Direct(of) /\ (m.field = "none" \/ name \notin Needs(of, m.field)) => Closes(of, m, Leaves(m, name), name)
<1> DEFINE l == Leaves(m, name)
           n == Collects(l, "none")
<1>1. Keeps(m, l, m.field, m.list, m.scan, m.namespace) /\ l.inside = m.inside \ {name} /\ l.text = m.text
  BY LeavesIs DEF Ready
<1> HIDE DEF l
<1>2. Keeps(l, n, "none", l.list, l.scan, l.namespace) /\ n.inside = l.inside /\ n.text = l.text
  BY <1>1, CollectsIs DEF Keeps
<1> HIDE DEF n
<1>3. Closes(of, m, n, name)
  BY <1>1, <1>2 DEF Closes, Ready, Keeps
<1>4. ~Direct(of) /\ (m.field = "none" \/ name \notin Needs(of, m.field)) => Closes(of, m, l, name)
  BY <1>1 DEF Closes, Ready, Keeps
<1> QED
  BY <1>3, <1>4 DEF n, l

\* A value is stored.
LEMMA StoredCloses ==
  ASSUME NEW of, NEW m, Ready(of, m), ~Direct(of), NEW name, name \notin Noted(of), m.field # "none"
  PROVE  /\ Closes(of, m, Stores(m), name) /\ Closes(of, m, Lists(m), name)
         /\ Stores(m).thrown \/ (Stores(m).field = "none" /\ Stores(m).inside = m.inside)
<1> DEFINE value == m.text["field_value"]
           a == Sees(m, m.field)
           b == Collects(a, "none")
           c == Sets(b, m.field, value)
           d == Clears(c, "field_value")
           e == [d EXCEPT !.list = Append(d.list, value)]
<1>1. /\ m.field \in Fields \ {"field_value"} /\ "field_value" \in Fields /\ IsList(value)
      /\ IsMemory(m)
  BY AskedAreFields, FieldNames DEF Ready, IsMemory
<1>2. Stores(m) \in {Throws(m), d} /\ (Stores(m) = d \/ Stores(m).thrown)
  BY <1>1, ThrowsIs, Zenon DEF Stores
<1>3. Keeps(m, a, m.field, m.list, m.scan, m.namespace) /\ a.inside = m.inside /\ a.text = m.text
  BY <1>1, SeesIs
<1> HIDE DEF a, value
<1>4. Keeps(a, b, "none", a.list, a.scan, a.namespace) /\ b.inside = a.inside /\ b.text = a.text
  BY <1>3, CollectsIs DEF Keeps
<1> HIDE DEF b
<1>5. /\ Keeps(b, c, b.field, b.list, b.scan, b.namespace) /\ c.inside = b.inside
      /\ c.text[m.field] = value
      /\ \A f \in Fields \ {m.field} : c.text[f] = b.text[f]
  BY <1>1, <1>4, SetsIs DEF Keeps
<1> HIDE DEF c
<1>6. /\ Keeps(c, d, c.field, c.list, c.scan, c.namespace) /\ d.inside = c.inside
      /\ d.text["field_value"] = <<>>
      /\ \A f \in Fields \ {"field_value"} : d.text[f] = c.text[f]
  BY <1>1, <1>5, ClearsIs DEF Keeps
<1> HIDE DEF d
<1>7. IsList(d.list)
  BY <1>6 DEF Keeps, IsMemory
<1>8. /\ Keeps(d, e, d.field, Append(d.list, value), d.scan, d.namespace)
      /\ e.inside = d.inside /\ e.text = d.text
  BY <1>6, <1>7, AppendIsList, ListIs DEF Keeps
<1>9. Closes(of, m, d, name)
  BY <1>1, <1>3, <1>4, <1>5, <1>6 DEF Closes, Ready, Keeps, value
<1> HIDE DEF e
<1>10. Closes(of, m, e, name)
  BY <1>1, <1>3, <1>4, <1>5, <1>6, <1>8 DEF Closes, Ready, Keeps, value
<1>11. Closes(of, m, Stores(m), name)
  BY <1>2, <1>9 DEF Closes
<1>12. Lists(m).thrown \/ Lists(m) = [Stores(m) EXCEPT !.list = Append(Stores(m).list, value)]
  BY <1>1, ThrowsIs, Zenon DEF Lists, value
<1>13. Closes(of, m, Lists(m), name)
  <2>1. CASE Stores(m) = d
    <3>1. Lists(m).thrown \/ Lists(m) = e
      BY <1>12, <2>1, Zenon DEF e
    <3> QED
      BY <1>10, <3>1 DEF Closes
  <2>2. CASE Stores(m) = Throws(m)
    <3>1. [Throws(m) EXCEPT !.list = Append(Throws(m).list, value)].thrown
      BY <1>1 DEF Throws, IsMemory
    <3>2. Lists(m).thrown
      BY <1>12, <2>2, <3>1, Zenon
    <3> QED
      BY <3>2 DEF Closes
  <2> QED
    BY <1>2, <2>1, <2>2
<1>14. d.field = "none" /\ d.inside = m.inside
  BY <1>3, <1>4, <1>5, <1>6 DEF Keeps
<1> QED
  BY <1>2, <1>11, <1>13, <1>14

\* A text is collected.
LEMMA AppendsReads ==
  ASSUME NEW of, NEW m, Ready(of, m), m.field # "none", NEW piece,
         NEW field \in {m.field, "field_value"}, Direct(of) => field = m.field
  PROVE  /\ Reads(of, m, m, piece)
         /\ Reads(of, m, Appends(m, field, piece), piece)
         /\ Reads(of, m, AppendsBounded(m, field, piece), piece)
         /\ Appends(m, field, piece).list = m.list
         /\ Appends(m, field, piece).scan = m.scan
         /\ Appends(m, field, piece).namespace = m.namespace
<1> DEFINE text == Append(m.text[field], piece)
           n == Sets(m, field, text)
<1>1. field \in Fields /\ IsMemory(m) /\ IsList(m.text[field]) /\ (Direct(of) => field # "field_value")
  BY AskedAreFields, FieldNames DEF Ready, IsMemory
<1>2. IsList(text)
  BY <1>1, AppendIsList
<1> HIDE DEF text
<1>3. /\ Keeps(m, n, m.field, m.list, m.scan, m.namespace) /\ n.inside = m.inside
      /\ n.text[field] = text
      /\ \A f \in Fields \ {field} : n.text[f] = m.text[f]
  BY <1>1, <1>2, SetsIs
<1> HIDE DEF n
<1>4. Reads(of, m, n, piece)
  BY <1>1, <1>3, FieldNames DEF Reads, Ready, Keeps, text
<1>5. Reads(of, m, m, piece)
  BY DEF Reads, Ready
<1>6. AppendsBounded(m, field, piece) = n \/ AppendsBounded(m, field, piece).thrown
  BY <1>1, ThrowsIs, Zenon DEF AppendsBounded, Appends, n, text
<1>7. Reads(of, m, AppendsBounded(m, field, piece), piece)
  BY <1>4, <1>6 DEF Reads
<1>8. Appends(m, field, piece) = n
  BY Zenon DEF Appends, n, text
<1> QED
  BY <1>3, <1>4, <1>5, <1>7, <1>8 DEF Keeps

LEMMA IdleReads ==
  ASSUME NEW of, NEW m, Ready(of, m), NEW piece
  PROVE  Reads(of, m, m, piece)
  BY DEF Reads, Ready

-----------------------------------------------------------------------------
(* The decoders of src/src/wsd_soap_codec.cpp.                             *)

LEMMA DescriptionOpens ==
  ASSUME NEW m, Ready("description", m), NEW name
  PROVE  Opens("description", m, DescriptionElement(m, name), name)
<1>1. \/ DescriptionElement(m, name) \in {m, Sees(m, name)}
      \/ /\ name \in {"ScannerName", "ScannerInfo", "ScannerLocation"}
         /\ DescriptionElement(m, name) = Collects(m, name)
  BY Zenon DEF DescriptionElement
<1>2. name \in {"ScannerName", "ScannerInfo", "ScannerLocation"} =>
        name \in Asked("description") /\ Needs("description", name) \subseteq m.inside \cup {name}
  BY DEF Asked, Needs
<1>3. Direct("description")
  BY DEF Direct
<1> QED
  BY <1>1, <1>2, <1>3, SeenOpens, CollectedOpens

LEMMA DescriptionReads ==
  ASSUME NEW m, Ready("description", m), NEW piece
  PROVE  Reads("description", m, DescriptionText(m, piece), piece)
<1>1. DescriptionText(m, piece) = IF m.field = "none" THEN m ELSE AppendsBounded(m, m.field, piece)
  BY DEF DescriptionText
<1> QED
  BY <1>1, IdleReads, AppendsReads

LEMMA DescriptionCloses ==
  ASSUME NEW m, Ready("description", m), NEW name
  PROVE  Closes("description", m, DescriptionEnd(m, name), name)
<1>1. name \notin Noted("description")
  BY DEF Noted
<1> QED
  BY <1>1, OtherCloses DEF DescriptionEnd

\* The decoders that collect a value.
LEMMA CollectsReads ==
  ASSUME NEW of, NEW m, Ready(of, m), ~Direct(of), NEW piece
  PROVE  Reads(of, m, CollectsText(m, piece), piece)
<1>1. CollectsText(m, piece) = IF m.field = "none" THEN m ELSE AppendsBounded(m, "field_value", piece)
  BY DEF CollectsText
<1> QED
  BY <1>1, IdleReads, AppendsReads

LEMMA ConfigurationOpens ==
  ASSUME NEW m, Ready("configuration", m), NEW name
  PROVE  Opens("configuration", m, ConfigurationElement(m, name), name)
<1>1. \/ ConfigurationElement(m, name) \in {m, Sees(m, name)}
      \/ name = "ScannerConfiguration" /\ ConfigurationElement(m, name) = Enters(m, name)
      \/ /\ name \in {"FormatValue", "ADFSupportsDuplex"}
         /\ ConfigurationElement(m, name) = CollectsAnew(m, name)
  BY Zenon DEF ConfigurationElement
<1>2. name \in {"FormatValue", "ADFSupportsDuplex"} =>
        name \in Asked("configuration") /\ Needs("configuration", name) \subseteq m.inside \cup {name}
  BY DEF Asked, Needs
<1>3. "ScannerConfiguration" \in Noted("configuration")
  BY DEF Noted
<1> QED
  BY <1>1, <1>2, <1>3, SeenOpens, NotedOpens, CollectedOpens

LEMMA ConfigurationCloses ==
  ASSUME NEW m, Ready("configuration", m), NEW name
  PROVE  Closes("configuration", m, ConfigurationEnd(m, name), name)
<1>1. \/ name = "ScannerConfiguration" /\ ConfigurationEnd(m, name) = Leaves(m, name)
      \/ /\ name = m.field /\ name \in {"FormatValue", "ADFSupportsDuplex"}
         /\ ConfigurationEnd(m, name) \in {Throws(m), Lists(m), Stores(m)}
      \/ /\ name # "ScannerConfiguration"
         /\ name # m.field \/ name \notin {"FormatValue", "ADFSupportsDuplex"}
         /\ ConfigurationEnd(m, name) = m
  BY Zenon DEF ConfigurationEnd
<1>2. /\ ~Direct("configuration") /\ Noted("configuration") = {"ScannerConfiguration"}
      /\ Needs("configuration", "none") = {"none"}
      /\ m.field \in {"none", "FormatValue", "ADFSupportsDuplex"}
  BY DEF Direct, Noted, Needs, Ready, Asked
<1>3. Needs("configuration", m.field) = {m.field}
  BY <1>2 DEF Needs
<1>4. CASE name = "ScannerConfiguration" /\ ConfigurationEnd(m, name) = Leaves(m, name)
  BY <1>2, <1>3, <1>4, NotedCloses
<1>5. CASE /\ name = m.field /\ name \in {"FormatValue", "ADFSupportsDuplex"}
           /\ ConfigurationEnd(m, name) \in {Throws(m), Lists(m), Stores(m)}
  <2>1. Closes("configuration", m, Stores(m), name) /\ Closes("configuration", m, Lists(m), name)
    BY <1>2, <1>5, StoredCloses
  <2>2. Closes("configuration", m, Throws(m), name)
    BY ThrowsIs DEF Closes, Ready
  <2> QED
    BY <1>5, <2>1, <2>2
<1>6. CASE /\ name # "ScannerConfiguration" /\ ConfigurationEnd(m, name) = m
           /\ name # m.field \/ name \notin {"FormatValue", "ADFSupportsDuplex"}
  BY <1>2, <1>3, <1>6, OtherCloses
<1> QED
  BY <1>1, <1>2, <1>4, <1>5, <1>6

LEMMA StatusOpens ==
  ASSUME NEW m, Ready("status", m), NEW name
  PROVE  Opens("status", m, StatusElement(m, name), name)
<1>1. \/ StatusElement(m, name) \in {m, Sees(m, name)}
      \/ name = "ScannerStatus" /\ StatusElement(m, name) = Enters(m, name)
      \/ /\ name \in {"ScannerState", "ScannerStateReason"}
         /\ StatusElement(m, name) = CollectsAnew(m, name)
  BY Zenon DEF StatusElement
<1>2. name \in {"ScannerState", "ScannerStateReason"} =>
        name \in Asked("status") /\ Needs("status", name) \subseteq m.inside \cup {name}
  BY DEF Asked, Needs
<1>3. "ScannerStatus" \in Noted("status")
  BY DEF Noted
<1> QED
  BY <1>1, <1>2, <1>3, SeenOpens, NotedOpens, CollectedOpens

LEMMA StatusCloses ==
  ASSUME NEW m, Ready("status", m), NEW name
  PROVE  Closes("status", m, StatusEnd(m, name), name)
<1>1. \/ name = "ScannerStatus" /\ StatusEnd(m, name) = Leaves(m, name)
      \/ /\ name = m.field /\ name \in {"ScannerState", "ScannerStateReason"}
         /\ StatusEnd(m, name) \in {Throws(m), Lists(m), Stores(m)}
      \/ /\ name # "ScannerStatus"
         /\ name # m.field \/ name \notin {"ScannerState", "ScannerStateReason"}
         /\ StatusEnd(m, name) = m
  BY Zenon DEF StatusEnd
<1>2. /\ ~Direct("status") /\ Noted("status") = {"ScannerStatus"}
      /\ m.field \in {"none", "ScannerState", "ScannerStateReason"}
  BY DEF Direct, Noted, Ready, Asked
<1>3. Needs("status", m.field) = {m.field}
  BY <1>2 DEF Needs
<1>4. CASE name = "ScannerStatus" /\ StatusEnd(m, name) = Leaves(m, name)
  BY <1>2, <1>3, <1>4, NotedCloses
<1>5. CASE /\ name = m.field /\ name \in {"ScannerState", "ScannerStateReason"}
           /\ StatusEnd(m, name) \in {Throws(m), Lists(m), Stores(m)}
  <2>1. Closes("status", m, Stores(m), name) /\ Closes("status", m, Lists(m), name)
    BY <1>2, <1>5, StoredCloses
  <2>2. Closes("status", m, Throws(m), name)
    BY ThrowsIs DEF Closes, Ready
  <2> QED
    BY <1>5, <2>1, <2>2
<1>6. CASE /\ name # "ScannerStatus" /\ StatusEnd(m, name) = m
           /\ name # m.field \/ name \notin {"ScannerState", "ScannerStateReason"}
  BY <1>2, <1>3, <1>6, OtherCloses
<1> QED
  BY <1>1, <1>2, <1>4, <1>5, <1>6

\* A fault: the elements that are noted, and what is collected of a code or a reason.
LEMMA FaultElementCases ==
  ASSUME NEW m, NEW name
  PROVE  \/ FaultElement(m, name) = m
         \/ name \in Noted("fault") /\ FaultElement(m, name) = Enters(m, name)
         \/ /\ name = "Value"
            /\ FaultElement(m, name) = CollectsAnew(m, IF "Subcode" \in m.inside THEN "Subcode" ELSE "Code")
         \/ name = "Text" /\ FaultElement(m, name) = CollectsAnew(m, "Reason")
<1>1. Noted("fault") = {"Fault", "Code", "Reason", "Subcode"}
  BY DEF Noted
<1> QED
  BY <1>1, Zenon DEF FaultElement

LEMMA FaultOpens ==
  ASSUME NEW m, Ready("fault", m), NEW name
  PROVE  Opens("fault", m, FaultElement(m, name), name)
<1>1. \A field \in {"Code", "Subcode", "Reason"} :
        field \in Asked("fault") /\ Needs("fault", field) \subseteq m.inside \cup {name}
  BY DEF Asked, Needs
<1> QED
  BY <1>1, FaultElementCases, SeenOpens, NotedOpens, CollectedOpens

LEMMA FaultEndCases ==
  ASSUME NEW m, NEW name
  PROVE  \/ FaultEnd(m, name) = m /\ name \notin Noted("fault")
         \/ /\ FaultEnd(m, name) = Stores(m) /\ name \notin Noted("fault")
            /\ m.field # "none" /\ name = (IF m.field = "Reason" THEN "Text" ELSE "Value")
         \/ FaultEnd(m, name) = Leaves(m, name) /\ name \in Noted("fault")
<1> DEFINE own == IF m.field = "Reason" THEN "Text" ELSE "Value"
           ended == IF m.field # "none" /\ name = own THEN Stores(m) ELSE m
<1>1. FaultEnd(m, name) = IF name \in {"Subcode", "Code", "Reason", "Fault"} THEN Leaves(ended, name) ELSE ended
  BY Zenon DEF FaultEnd
<1>2. name \in {"Subcode", "Code", "Reason", "Fault"} => ended = m
  OBVIOUS
<1>3. ended = m \/ (ended = Stores(m) /\ m.field # "none" /\ name = own)
  OBVIOUS
<1>4. Noted("fault") = {"Fault", "Code", "Reason", "Subcode"}
  BY DEF Noted
<1> HIDE DEF ended
<1> QED
  BY <1>1, <1>2, <1>3, <1>4, Zenon

LEMMA FaultCloses ==
  ASSUME NEW m, Ready("fault", m), NEW name
  PROVE  Closes("fault", m, FaultEnd(m, name), name)
<1>1. ~Direct("fault") /\ m.field \in {"none", "Code", "Subcode", "Reason"}
  BY DEF Direct, Ready, Asked
<1>2. m.field = "none" \/ name \notin Needs("fault", m.field)
  BY <1>1 DEF Needs
<1> QED
  BY <1>1, <1>2, FaultEndCases, StoredCloses, NotedCloses, OtherCloses

-----------------------------------------------------------------------------
(* The decoders of src/src/wsd_discovery_model.cpp.                        *)

\* An element of an answer to a probe: a match begins, and only then forgets the one before it.
ProbeOpensAs(m, n, name) ==
  n.thrown \/
    /\ n.list = m.list /\ n.namespace = m.namespace
    /\ "ProbeMatch" \in m.inside => "ProbeMatch" \in n.inside
    /\ name = "ProbeMatch" =>
         /\ "ProbeMatch" \notin m.inside /\ "ProbeMatch" \in n.inside
         /\ ~n.scan /\ n.text["Address"] = <<>> /\ n.text["XAddrs"] = <<>>
    /\ name # "ProbeMatch" => n.scan = m.scan /\ n.text = m.text

ProbeReadsAs(m, n, piece) ==
  /\ n.list = m.list
  /\ \/ n.scan = m.scan /\ n.namespace = m.namespace
     \/ m.field = "Types" /\ n.scan /\ n.namespace = piece

ProbeClosesAs(m, n, name) ==
  n.thrown \/
    /\ n.field = "none" /\ n.text = m.text /\ n.scan = m.scan /\ n.namespace = m.namespace
    /\ name # "ProbeMatch" => n.list = m.list /\ ("ProbeMatch" \in m.inside => "ProbeMatch" \in n.inside)
    /\ \/ n.list = m.list
       \/ /\ m.scan
          /\ n.list = Append(m.list, [address |-> m.text["Address"], xaddrs |-> m.text["XAddrs"],
                                      type |-> m.namespace])

LEMMA ProbeElementCases ==
  ASSUME NEW m, NEW name
  PROVE  \/ name # "ProbeMatch" /\ ProbeElement(m, name) \in {m, Sees(m, name)}
         \/ /\ name = "ProbeMatch" /\ name \in m.inside
            /\ ProbeElement(m, name) = Throws(m)
         \/ /\ name = "ProbeMatch" /\ name \notin m.inside
            /\ ProbeElement(m, name) = [Clears(Clears(Enters(m, name), "Address"), "XAddrs") EXCEPT !.scan = FALSE]
         \/ name = "EndpointReference" /\ ProbeElement(m, name) = Enters(m, name)
         \/ /\ name \in {"RelatesTo", "Action", "Types", "XAddrs"}
            /\ ProbeElement(m, name) = Collects(m, name)
         \/ /\ name = "Address" /\ {"ProbeMatch", "EndpointReference"} \subseteq m.inside
            /\ ProbeElement(m, name) = Collects(m, name)
  BY Zenon DEF ProbeElement

LEMMA MatchBegins ==
  ASSUME NEW m, Ready("probe", m), "ProbeMatch" \notin m.inside
  PROVE  LET n == [Clears(Clears(Enters(m, "ProbeMatch"), "Address"), "XAddrs") EXCEPT !.scan = FALSE]
         IN Opens("probe", m, n, "ProbeMatch") /\ ProbeOpensAs(m, n, "ProbeMatch")
<1> DEFINE a == Enters(m, "ProbeMatch")
           b == Clears(a, "Address")
           c == Clears(b, "XAddrs")
           n == [c EXCEPT !.scan = FALSE]
<1>1. {"Address", "XAddrs", "field_value"} \subseteq Fields /\ "ProbeMatch" \in Noted("probe")
  BY FieldNames DEF Noted
<1>2. /\ Keeps(m, a, m.field, m.list, m.scan, m.namespace)
      /\ a.inside = m.inside \cup {"ProbeMatch"} /\ a.text = m.text
  BY EntersIs DEF Ready
<1> HIDE DEF a
<1>3. /\ Keeps(a, b, a.field, a.list, a.scan, a.namespace) /\ b.inside = a.inside
      /\ b.text["Address"] = <<>> /\ \A f \in Fields \ {"Address"} : b.text[f] = a.text[f]
  BY <1>1, <1>2, ClearsIs DEF Keeps
<1> HIDE DEF b
<1>4. /\ Keeps(b, c, b.field, b.list, b.scan, b.namespace) /\ c.inside = b.inside
      /\ c.text["XAddrs"] = <<>> /\ \A f \in Fields \ {"XAddrs"} : c.text[f] = b.text[f]
  BY <1>1, <1>3, ClearsIs DEF Keeps
<1> HIDE DEF c
<1>5. Keeps(c, n, c.field, c.list, FALSE, c.namespace) /\ n.inside = c.inside /\ n.text = c.text
  BY <1>4, ScanIs DEF Keeps
<1> HIDE DEF n
<1>6. Opens("probe", m, n, "ProbeMatch")
  BY <1>1, <1>2, <1>3, <1>4, <1>5 DEF Keeps, Opens, Ready
<1>7. ProbeOpensAs(m, n, "ProbeMatch")
  BY <1>1, <1>2, <1>3, <1>4, <1>5 DEF Keeps, ProbeOpensAs
<1> QED
  BY <1>6, <1>7 DEF n, a, b, c

LEMMA ProbeOpens ==
  ASSUME NEW m, Ready("probe", m), NEW name
  PROVE  /\ Opens("probe", m, ProbeElement(m, name), name)
         /\ ProbeOpensAs(m, ProbeElement(m, name), name)
<1>1. CASE name # "ProbeMatch" /\ ProbeElement(m, name) \in {m, Sees(m, name)}
  <2>1. ProbeOpensAs(m, m, name)
    BY <1>1 DEF ProbeOpensAs
  <2>2. Keeps(m, Sees(m, name), m.field, m.list, m.scan, m.namespace)
        /\ Sees(m, name).inside = m.inside /\ Sees(m, name).text = m.text
    BY SeesIs DEF Ready
  <2>3. ProbeOpensAs(m, Sees(m, name), name)
    BY <1>1, <2>2 DEF ProbeOpensAs, Keeps
  <2> QED
    BY <1>1, <2>1, <2>3, SeenOpens
<1>2. CASE ProbeElement(m, name) = Throws(m)
  BY <1>2, ThrowsIs DEF Opens, ProbeOpensAs, Ready
<1>3. CASE /\ name = "ProbeMatch" /\ name \notin m.inside
           /\ ProbeElement(m, name) = [Clears(Clears(Enters(m, name), "Address"), "XAddrs") EXCEPT !.scan = FALSE]
  BY <1>3, MatchBegins
<1>4. CASE name = "EndpointReference" /\ ProbeElement(m, name) = Enters(m, name)
  <2>1. Keeps(m, Enters(m, name), m.field, m.list, m.scan, m.namespace)
        /\ Enters(m, name).inside = m.inside \cup {name} /\ Enters(m, name).text = m.text
    BY EntersIs DEF Ready
  <2>2. ProbeOpensAs(m, Enters(m, name), name)
    BY <1>4, <2>1 DEF ProbeOpensAs, Keeps
  <2>3. name \in Noted("probe")
    BY <1>4 DEF Noted
  <2> QED
    BY <1>4, <2>2, <2>3, NotedOpens
<1>5. CASE /\ ProbeElement(m, name) = Collects(m, name)
           /\ \/ name \in {"RelatesTo", "Action", "Types", "XAddrs"}
              \/ name = "Address" /\ {"ProbeMatch", "EndpointReference"} \subseteq m.inside
  <2>1. name \in Asked("probe") /\ Needs("probe", name) \subseteq m.inside \cup {name} /\ Direct("probe")
    BY <1>5 DEF Asked, Needs, Direct
  <2>2. name \in Fields \cup {"none"}
    BY <2>1, AskedAreFields
  <2>3. Keeps(m, Collects(m, name), name, m.list, m.scan, m.namespace)
        /\ Collects(m, name).inside = m.inside /\ Collects(m, name).text = m.text
    BY <2>2, CollectsIs DEF Ready
  <2>4. ProbeOpensAs(m, Collects(m, name), name)
    BY <1>5, <2>3 DEF ProbeOpensAs, Keeps
  <2> QED
    BY <1>5, <2>1, <2>4, CollectedOpens
<1> QED
  BY <1>1, <1>2, <1>3, <1>4, <1>5, ProbeElementCases

\* A type that is one of a scanner is kept.
LEMMA ProbeReads ==
  ASSUME NEW m, Ready("probe", m), NEW piece
  PROVE  /\ Reads("probe", m, ProbeText(m, piece), piece)
         /\ ProbeReadsAs(m, ProbeText(m, piece), piece)
<1> DEFINE n == [m EXCEPT !.scan = TRUE, !.namespace = piece]
<1>1. \/ ProbeText(m, piece) = m
      \/ m.field = "Types" /\ ProbeText(m, piece) = n
      \/ m.field # "none" /\ ProbeText(m, piece) = Appends(m, m.field, piece)
  BY Zenon DEF ProbeText
<1>2. CASE ProbeText(m, piece) = m
  BY <1>2, IdleReads DEF ProbeReadsAs
<1>3. CASE m.field = "Types" /\ ProbeText(m, piece) = n
  <2>1. /\ Keeps(m, n, m.field, m.list, TRUE, piece)
        /\ n.inside = m.inside /\ n.text = m.text
    BY TypeIs DEF Ready
  <2> HIDE DEF n
  <2> QED
    BY <1>3, <2>1 DEF Reads, Ready, Keeps, ProbeReadsAs
<1>4. CASE m.field # "none" /\ ProbeText(m, piece) = Appends(m, m.field, piece)
  BY <1>4, AppendsReads DEF ProbeReadsAs
<1> QED
  BY <1>1, <1>2, <1>3, <1>4

LEMMA ProbeCloses ==
  ASSUME NEW m, Ready("probe", m), NEW name
  PROVE  /\ Closes("probe", m, ProbeEnd(m, name), name)
         /\ ProbeClosesAs(m, ProbeEnd(m, name), name)
<1> DEFINE l == Leaves(m, name)
           n == Collects(l, "none")
           match == [address |-> m.text["Address"], xaddrs |-> m.text["XAddrs"], type |-> m.namespace]
           longer == [l EXCEPT !.list = Append(l.list, match)]
           found == Collects(longer, "none")
<1>1. \/ name = "EndpointReference" /\ ProbeEnd(m, name) = n
      \/ name = "ProbeMatch" /\ ProbeEnd(m, name) = Collects(MatchEnds(m), "none")
      \/ name \notin {"EndpointReference", "ProbeMatch"} /\ ProbeEnd(m, name) = Collects(m, "none")
  BY Zenon DEF ProbeEnd
<1>2. name = "ProbeMatch" => MatchEnds(m) \in {Throws(m), l} \/ (m.scan /\ MatchEnds(m) = longer)
  BY Zenon DEF MatchEnds
<1>3. Keeps(m, l, m.field, m.list, m.scan, m.namespace) /\ l.inside = m.inside \ {name} /\ l.text = m.text
  BY LeavesIs DEF Ready
<1> HIDE DEF l, match
<1>4. Keeps(l, n, "none", l.list, l.scan, l.namespace) /\ n.inside = l.inside /\ n.text = l.text
  BY <1>3, CollectsIs DEF Keeps
<1>5. IsList(l.list) /\ IsMemory(l)
  BY <1>3 DEF Keeps, IsMemory
<1>6. /\ Keeps(l, longer, l.field, Append(l.list, match), l.scan, l.namespace)
      /\ longer.inside = l.inside /\ longer.text = l.text
  BY <1>5, AppendIsList, ListIs
<1> HIDE DEF longer
<1>7. /\ Keeps(longer, found, "none", longer.list, longer.scan, longer.namespace)
      /\ found.inside = longer.inside /\ found.text = longer.text
  BY <1>6, CollectsIs DEF Keeps
<1> HIDE DEF n, found
<1>8. CASE name \in {"EndpointReference", "ProbeMatch"} /\ ProbeEnd(m, name) = n
  <2>1. ProbeClosesAs(m, n, name)
    BY <1>3, <1>4, <1>8 DEF ProbeClosesAs, Keeps
  <2>2. Closes("probe", m, n, name)
    BY NotedCloses DEF n, l
  <2> QED
    BY <1>8, <2>1, <2>2
<1>9. CASE name = "ProbeMatch" /\ m.scan /\ ProbeEnd(m, name) = found
  <2>1. ProbeClosesAs(m, found, name)
    BY <1>3, <1>6, <1>7, <1>9 DEF ProbeClosesAs, Keeps, match
  <2>2. Closes("probe", m, found, name)
    BY <1>3, <1>6, <1>7 DEF Closes, Ready, Keeps
  <2> QED
    BY <1>9, <2>1, <2>2
<1>10. CASE ProbeEnd(m, name) = Collects(Throws(m), "none")
  <2>1. Collects(Throws(m), "none").thrown
    BY DEF Collects, Throws, Ready, IsMemory
  <2> QED
    BY <1>10, <2>1 DEF Closes, ProbeClosesAs
<1>11. CASE name \notin {"EndpointReference", "ProbeMatch"} /\ ProbeEnd(m, name) = Collects(m, "none")
  <2>1. Keeps(m, Collects(m, "none"), "none", m.list, m.scan, m.namespace)
        /\ Collects(m, "none").inside = m.inside /\ Collects(m, "none").text = m.text
    BY CollectsIs DEF Ready
  <2>2. ProbeClosesAs(m, Collects(m, "none"), name)
    BY <1>11, <2>1 DEF ProbeClosesAs, Keeps
  <2>3. name \notin Noted("probe")
    BY <1>11 DEF Noted
  <2> QED
    BY <1>11, <2>2, <2>3, OtherCloses
<1> QED
  BY <1>1, <1>2, <1>8, <1>9, <1>10, <1>11, Zenon DEF n, found

\* An element of an answer to a metadata request: a hosted service begins, or the type
\* or the address of one is collected.
MetadataOpensAs(m, n, name) ==
  /\ n.namespace = m.namespace
  /\ n.text["ServiceAddress"] = m.text["ServiceAddress"]
  /\ "Hosted" \in m.inside => "Hosted" \in n.inside
  /\ n.field \in {"Address", "Types"} => n.field = m.field \/ "Hosted" \in m.inside
  /\ name = "Hosted" =>
       "Hosted" \in n.inside /\ ~n.scan /\ n.list = <<>> /\ n.text["Address"] = <<>>
  /\ name # "Hosted" =>
       /\ n.list = m.list /\ n.scan = m.scan /\ n.text = m.text
       /\ "Hosted" \in n.inside => "Hosted" \in m.inside

MetadataReadsAs(m, n, piece) ==
  /\ n.namespace = m.namespace
  /\ \/ n.list = m.list /\ n.scan = m.scan
     \/ m.field = "Types" /\ n.list = <<piece>>

MetadataClosesAs(m, n, name) ==
  /\ n.field = "none"
  /\ name = "Hosted" => "Hosted" \notin n.inside
  /\ name # "Hosted" => ("Hosted" \in n.inside <=> "Hosted" \in m.inside)
  /\ \/ /\ n.text = m.text /\ n.list = m.list /\ n.scan = m.scan /\ n.namespace = m.namespace
        /\ name = "Hosted" => ~m.scan \/ m.text["ServiceAddress"] # <<>>
     \/ /\ name = "Hosted" /\ m.scan /\ m.text["ServiceAddress"] = <<>>
        /\ n.text["ServiceAddress"] = m.text["Address"] /\ n.list = <<>>
        /\ n.namespace = IF m.list = <<>> THEN NoPiece ELSE m.list[1]

LEMMA MetadataElementCases ==
  ASSUME NEW m, NEW name
  PROVE  \/ name # "Hosted" /\ MetadataElement(m, name) \in {m, Sees(m, name)}
         \/ /\ name \in {"ThisModel", "Host", "EndpointReference"}
            /\ MetadataElement(m, name) = Enters(m, name)
         \/ /\ name = "Hosted"
            /\ MetadataElement(m, name) =
                 [Clears(Enters(m, name), "Address") EXCEPT !.scan = FALSE, !.list = <<>>]
         \/ /\ name \in {"RelatesTo", "Action", "Manufacturer", "ModelName"}
            /\ MetadataElement(m, name) = Collects(m, name)
         \/ /\ name = "Address" /\ {"Host", "EndpointReference"} \subseteq m.inside
            /\ MetadataElement(m, name) = Collects(m, "HostAddress")
         \/ /\ name = "Address" /\ {"Hosted", "EndpointReference"} \subseteq m.inside
            /\ MetadataElement(m, name) = Collects(m, name)
         \/ /\ name = "Types" /\ "Hosted" \in m.inside
            /\ MetadataElement(m, name) = Collects(m, name)
  BY Zenon DEF MetadataElement

LEMMA HostedBegins ==
  ASSUME NEW m, Ready("metadata", m)
  PROVE  LET n == [Clears(Enters(m, "Hosted"), "Address") EXCEPT !.scan = FALSE, !.list = <<>>]
         IN Opens("metadata", m, n, "Hosted") /\ MetadataOpensAs(m, n, "Hosted")
<1> DEFINE a == Enters(m, "Hosted")
           b == Clears(a, "Address")
           c == [b EXCEPT !.scan = FALSE]
           n == [c EXCEPT !.list = <<>>]
<1>1. {"Address", "ServiceAddress", "field_value"} \subseteq Fields /\ "Hosted" \in Noted("metadata")
  BY FieldNames DEF Noted
<1>2. [Clears(Enters(m, "Hosted"), "Address") EXCEPT !.scan = FALSE, !.list = <<>>] = n
  OBVIOUS
<1>3. Keeps(m, a, m.field, m.list, m.scan, m.namespace) /\ a.inside = m.inside \cup {"Hosted"} /\ a.text = m.text
  BY EntersIs DEF Ready
<1> HIDE DEF a
<1>4. /\ Keeps(a, b, a.field, a.list, a.scan, a.namespace) /\ b.inside = a.inside
      /\ b.text["Address"] = <<>> /\ \A f \in Fields \ {"Address"} : b.text[f] = a.text[f]
  BY <1>1, <1>3, ClearsIs DEF Keeps
<1> HIDE DEF b
<1>5. Keeps(b, c, b.field, b.list, FALSE, b.namespace) /\ c.inside = b.inside /\ c.text = b.text
  BY <1>4, ScanIs DEF Keeps
<1> HIDE DEF c
<1>6. Keeps(c, n, c.field, <<>>, c.scan, c.namespace) /\ n.inside = c.inside /\ n.text = c.text
  BY <1>5, ListIs, EmptyIsList DEF Keeps
<1> HIDE DEF n
<1>7. Opens("metadata", m, n, "Hosted")
  BY <1>1, <1>3, <1>4, <1>5, <1>6 DEF Keeps, Opens, Ready
<1>8. MetadataOpensAs(m, n, "Hosted")
  BY <1>1, <1>3, <1>4, <1>5, <1>6 DEF Keeps, MetadataOpensAs
<1> QED
  BY <1>2, <1>7, <1>8

LEMMA MetadataOpens ==
  ASSUME NEW m, Ready("metadata", m), NEW name
  PROVE  /\ Opens("metadata", m, MetadataElement(m, name), name)
         /\ MetadataOpensAs(m, MetadataElement(m, name), name)
<1>1. CASE name # "Hosted" /\ MetadataElement(m, name) \in {m, Sees(m, name)}
  <2>1. MetadataOpensAs(m, m, name)
    BY <1>1 DEF MetadataOpensAs
  <2>2. Keeps(m, Sees(m, name), m.field, m.list, m.scan, m.namespace)
        /\ Sees(m, name).inside = m.inside /\ Sees(m, name).text = m.text
    BY SeesIs DEF Ready
  <2>3. MetadataOpensAs(m, Sees(m, name), name)
    BY <1>1, <2>2 DEF MetadataOpensAs, Keeps
  <2> QED
    BY <1>1, <2>1, <2>3, SeenOpens
<1>2. CASE /\ name \in {"ThisModel", "Host", "EndpointReference"}
           /\ MetadataElement(m, name) = Enters(m, name)
  <2>1. Keeps(m, Enters(m, name), m.field, m.list, m.scan, m.namespace)
        /\ Enters(m, name).inside = m.inside \cup {name} /\ Enters(m, name).text = m.text
    BY EntersIs DEF Ready
  <2>2. MetadataOpensAs(m, Enters(m, name), name)
    BY <1>2, <2>1 DEF MetadataOpensAs, Keeps
  <2>3. name \in Noted("metadata")
    BY <1>2 DEF Noted
  <2> QED
    BY <1>2, <2>2, <2>3, NotedOpens
<1>3. CASE name = "Hosted" /\ MetadataElement(m, name) =
                [Clears(Enters(m, name), "Address") EXCEPT !.scan = FALSE, !.list = <<>>]
  BY <1>3, HostedBegins
<1>4. ASSUME NEW field, name # "Hosted", MetadataElement(m, name) = Collects(m, field),
             \/ field = name /\ name \in {"RelatesTo", "Action", "Manufacturer", "ModelName"}
             \/ /\ field = "HostAddress" /\ name = "Address"
                /\ {"Host", "EndpointReference"} \subseteq m.inside
             \/ /\ field = name /\ name = "Address"
                /\ {"Hosted", "EndpointReference"} \subseteq m.inside
             \/ field = name /\ name = "Types" /\ "Hosted" \in m.inside
      PROVE  /\ Opens("metadata", m, MetadataElement(m, name), name)
             /\ MetadataOpensAs(m, MetadataElement(m, name), name)
  <2>1. field \in Asked("metadata") /\ Needs("metadata", field) \subseteq m.inside \cup {name} /\ Direct("metadata")
    BY <1>4 DEF Asked, Needs, Direct
  <2>2. field \in Fields \cup {"none"}
    BY <2>1, AskedAreFields
  <2>3. Keeps(m, Collects(m, field), field, m.list, m.scan, m.namespace)
        /\ Collects(m, field).inside = m.inside /\ Collects(m, field).text = m.text
    BY <2>2, CollectsIs DEF Ready
  <2>4. MetadataOpensAs(m, Collects(m, field), name)
    BY <1>4, <2>3 DEF MetadataOpensAs, Keeps
  <2> QED
    BY <1>4, <2>1, <2>4, CollectedOpens
<1> QED
  BY <1>1, <1>2, <1>3, <1>4, MetadataElementCases

LEMMA MetadataReads ==
  ASSUME NEW m, Ready("metadata", m), NEW piece
  PROVE  /\ Reads("metadata", m, MetadataText(m, piece), piece)
         /\ MetadataReadsAs(m, MetadataText(m, piece), piece)
<1> DEFINE a == [m EXCEPT !.scan = TRUE]
           n == [a EXCEPT !.list = <<piece>>]
<1>1. \/ MetadataText(m, piece) = m
      \/ /\ m.field = "Types"
         /\ MetadataText(m, piece) = [m EXCEPT !.scan = TRUE, !.list = <<piece>>]
      \/ m.field # "none" /\ MetadataText(m, piece) = Appends(m, m.field, piece)
  BY Zenon DEF MetadataText
<1>2. CASE MetadataText(m, piece) = m
  BY <1>2, IdleReads DEF MetadataReadsAs
<1>3. CASE m.field = "Types" /\ MetadataText(m, piece) = [m EXCEPT !.scan = TRUE, !.list = <<piece>>]
  <2>1. [m EXCEPT !.scan = TRUE, !.list = <<piece>>] = n
    OBVIOUS
  <2>2. Keeps(m, a, m.field, m.list, TRUE, m.namespace) /\ a.inside = m.inside /\ a.text = m.text
    BY ScanIs DEF Ready
  <2> HIDE DEF a
  <2>3. IsList(<<piece>>)
    <3>1. <<piece>> \in Seq({piece})
      OBVIOUS
    <3> QED
      BY <3>1, SequenceIsList
  <2>4. Keeps(a, n, a.field, <<piece>>, a.scan, a.namespace) /\ n.inside = a.inside /\ n.text = a.text
    BY <2>2, <2>3, ListIs DEF Keeps
  <2> HIDE DEF n
  <2>5. Reads("metadata", m, n, piece) /\ MetadataReadsAs(m, n, piece)
    BY <1>3, <2>2, <2>4 DEF Reads, Ready, Keeps, MetadataReadsAs
  <2> QED
    BY <1>3, <2>1, <2>5
<1>4. CASE m.field # "none" /\ MetadataText(m, piece) = Appends(m, m.field, piece)
  BY <1>4, AppendsReads DEF MetadataReadsAs
<1> QED
  BY <1>1, <1>2, <1>3, <1>4

\* The service at the end of a hosted service that is one of a scanner.
TypeFound(m) == IF m.list = <<>> THEN NoPiece ELSE m.list[1]

LEMMA ServiceFound ==
  ASSUME NEW m, Ready("metadata", m), m.scan, m.text["ServiceAddress"] = <<>>,
         NEW namespace, namespace = TypeFound(m)
  PROVE  LET n == Collects([Clears(Sets(Leaves(m, "Hosted"), "ServiceAddress", m.text["Address"]), "Address")
                              EXCEPT !.namespace = namespace, !.list = <<>>], "none")
         IN Closes("metadata", m, n, "Hosted") /\ MetadataClosesAs(m, n, "Hosted")
<1> DEFINE value == m.text["Address"]
           a == Leaves(m, "Hosted")
           b == Sets(a, "ServiceAddress", value)
           c == Clears(b, "Address")
           d == [c EXCEPT !.namespace = namespace]
           e == [d EXCEPT !.list = <<>>]
           n == Collects(e, "none")
<1>1. /\ {"Address", "ServiceAddress", "field_value"} \subseteq Fields
      /\ IsList(value)
  BY FieldNames DEF Ready, IsMemory
<1>2. [c EXCEPT !.namespace = namespace, !.list = <<>>] = e
  OBVIOUS
<1>3. Keeps(m, a, m.field, m.list, m.scan, m.namespace) /\ a.inside = m.inside \ {"Hosted"} /\ a.text = m.text
  <2>1. IsMemory(m)
    BY DEF Ready
  <2> HIDE DEF b, c, d, e, n, value
  <2> QED
    BY <2>1, LeavesIs
<1> HIDE DEF a, value
<1>4. /\ Keeps(a, b, a.field, a.list, a.scan, a.namespace) /\ b.inside = a.inside
      /\ b.text["ServiceAddress"] = value
      /\ \A f \in Fields \ {"ServiceAddress"} : b.text[f] = a.text[f]
  <2>1. IsMemory(a)
    BY <1>3 DEF Keeps
  <2> QED
    BY <1>1, <2>1, SetsIs
<1> HIDE DEF b
<1>5. /\ Keeps(b, c, b.field, b.list, b.scan, b.namespace) /\ c.inside = b.inside
      /\ c.text["Address"] = <<>> /\ \A f \in Fields \ {"Address"} : c.text[f] = b.text[f]
  BY <1>1, <1>4, ClearsIs DEF Keeps
<1> HIDE DEF c
<1>6. Keeps(c, d, c.field, c.list, c.scan, namespace) /\ d.inside = c.inside /\ d.text = c.text
  BY <1>5, NamespaceIs DEF Keeps
<1> HIDE DEF d
<1>7. Keeps(d, e, d.field, <<>>, d.scan, d.namespace) /\ e.inside = d.inside /\ e.text = d.text
  BY <1>6, ListIs, EmptyIsList DEF Keeps
<1> HIDE DEF e
<1>8. Keeps(e, n, "none", e.list, e.scan, e.namespace) /\ n.inside = e.inside /\ n.text = e.text
  BY <1>7, CollectsIs DEF Keeps
<1> HIDE DEF n
<1>9. Closes("metadata", m, n, "Hosted")
  BY <1>1, <1>3, <1>4, <1>5, <1>6, <1>7, <1>8 DEF Keeps, Closes, Ready, value
<1>10. MetadataClosesAs(m, n, "Hosted")
  BY <1>1, <1>3, <1>4, <1>5, <1>6, <1>7, <1>8 DEF Keeps, MetadataClosesAs, TypeFound, value
<1> QED
  BY <1>2, <1>9, <1>10 DEF n, c, b, a, value

LEMMA MetadataCloses ==
  ASSUME NEW m, Ready("metadata", m), NEW name
  PROVE  /\ Closes("metadata", m, MetadataEnd(m, name), name)
         /\ MetadataClosesAs(m, MetadataEnd(m, name), name)
<1> DEFINE l == Leaves(m, name)
           n == Collects(l, "none")
           namespace == IF m.list = <<>> THEN NoPiece ELSE m.list[1]
           service == [Clears(Sets(Leaves(m, "Hosted"), "ServiceAddress", m.text["Address"]), "Address")
                         EXCEPT !.namespace = namespace, !.list = <<>>]
<1>1. \/ name \in {"EndpointReference", "ThisModel", "Host"} /\ MetadataEnd(m, name) = n
      \/ name = "Hosted" /\ MetadataEnd(m, name) = Collects(HostedEnds(m), "none")
      \/ /\ name \notin {"EndpointReference", "ThisModel", "Host", "Hosted"}
         /\ MetadataEnd(m, name) = Collects(m, "none")
  BY Zenon DEF MetadataEnd
<1>2. \/ m.scan /\ m.text["ServiceAddress"] = <<>> /\ HostedEnds(m) = service
      \/ (~m.scan \/ m.text["ServiceAddress"] # <<>>) /\ HostedEnds(m) = Leaves(m, "Hosted")
  BY Zenon DEF HostedEnds
<1>3. Keeps(m, l, m.field, m.list, m.scan, m.namespace) /\ l.inside = m.inside \ {name} /\ l.text = m.text
  BY LeavesIs DEF Ready
<1>4. Closes("metadata", m, n, name)
  BY NotedCloses
<1> HIDE DEF l
<1>5. Keeps(l, n, "none", l.list, l.scan, l.namespace) /\ n.inside = l.inside /\ n.text = l.text
  BY <1>3, CollectsIs DEF Keeps
<1> HIDE DEF n
<1>6. CASE name \in {"EndpointReference", "ThisModel", "Host"} /\ MetadataEnd(m, name) = n
  <2>1. MetadataClosesAs(m, n, name)
    BY <1>3, <1>5, <1>6 DEF MetadataClosesAs, Keeps
  <2> QED
    BY <1>4, <1>6, <2>1
<1>7. CASE name = "Hosted" /\ (~m.scan \/ m.text["ServiceAddress"] # <<>>) /\ MetadataEnd(m, name) = n
  <2>1. MetadataClosesAs(m, n, name)
    BY <1>3, <1>5, <1>7 DEF MetadataClosesAs, Keeps
  <2> QED
    BY <1>4, <1>7, <2>1
<1>8. CASE /\ name = "Hosted" /\ m.scan /\ m.text["ServiceAddress"] = <<>>
           /\ MetadataEnd(m, name) = Collects(service, "none")
  BY <1>8, ServiceFound DEF TypeFound
<1>9. CASE /\ name \notin {"EndpointReference", "ThisModel", "Host", "Hosted"}
           /\ MetadataEnd(m, name) = Collects(m, "none")
  <2>1. Keeps(m, Collects(m, "none"), "none", m.list, m.scan, m.namespace)
        /\ Collects(m, "none").inside = m.inside /\ Collects(m, "none").text = m.text
    BY CollectsIs DEF Ready
  <2>2. MetadataClosesAs(m, Collects(m, "none"), name)
    BY <1>9, <2>1 DEF MetadataClosesAs, Keeps
  <2>3. name \notin Noted("metadata")
    BY <1>9 DEF Noted
  <2> QED
    BY <1>9, <2>2, <2>3, OtherCloses
<1> QED
  BY <1>1, <1>2, <1>6, <1>7, <1>8, <1>9, Zenon DEF n, l

-----------------------------------------------------------------------------
(* The elements that a text stands in.                                     *)

LEMMA TextGrows ==
  ASSUME NEW text, IsList(text), NEW piece, NEW names, NEW part
  PROVE  /\ StandsIn(<<>>, names) /\ OfPart(<<>>, part)
         /\ StandsIn(text, names) /\ names \subseteq ToSet(piece.path) => StandsIn(Append(text, piece), names)
         /\ OfPart(text, part) /\ piece.part = part => OfPart(Append(text, piece), part)
<1> DEFINE longer == Append(text, piece)
<1>1. /\ IsList(longer) /\ Len(longer) = Len(text) + 1 /\ longer[Len(text) + 1] = piece
      /\ \A i \in 1 .. Len(text) : longer[i] = text[i]
  BY AppendIsList
<1>2. DOMAIN text = 1 .. Len(text) /\ Len(text) \in Nat /\ DOMAIN longer = 1 .. Len(longer)
  BY <1>1 DEF IsList
<1> HIDE DEF longer
<1>3. DOMAIN longer = 1 .. Len(text) + 1
  BY <1>1, <1>2
<1>4. StandsIn(text, names) /\ names \subseteq ToSet(piece.path) => StandsIn(longer, names)
  BY <1>1, <1>2, <1>3 DEF StandsIn
<1>5. OfPart(text, part) /\ piece.part = part => OfPart(longer, part)
  BY <1>1, <1>2, <1>3 DEF OfPart
<1>6. StandsIn(<<>>, names) /\ OfPart(<<>>, part)
  BY DEF StandsIn, OfPart
<1> QED
  BY <1>4, <1>5, <1>6 DEF longer

\* What is noted is open, and what is collected stands in what its field needs.
Stands(of, m, around) ==
  /\ m.inside \subseteq around
  /\ m.field # "none" =>
       Needs(of, m.field) \subseteq around /\ StandsIn(m.text["field_value"], Needs(of, m.field))
  /\ \A f \in Fields \ {"field_value"} : StandsIn(m.text[f], Needs(of, f))

LEMMA OpensStands ==
  ASSUME NEW of, NEW m, NEW n, NEW name, NEW around, NEW after,
         Ready(of, m), Stands(of, m, around), Opens(of, m, n, name), ~n.thrown,
         around \cup {name} \subseteq after
  PROVE  Stands(of, n, after)
<1>1. \A names : StandsIn(<<>>, names)
  BY EmptyIsList, TextGrows
<1>2. n.inside \subseteq after
  BY DEF Stands, Opens
<1>3. n.field # "none" =>
        Needs(of, n.field) \subseteq after /\ StandsIn(n.text["field_value"], Needs(of, n.field))
  BY <1>1, FieldNames DEF Stands, Opens
<1>4. \A f \in Fields \ {"field_value"} : StandsIn(n.text[f], Needs(of, f))
  BY <1>1 DEF Stands, Opens
<1> QED
  BY <1>2, <1>3, <1>4 DEF Stands

LEMMA ReadsStands ==
  ASSUME NEW of, NEW m, NEW n, NEW piece, NEW around,
         Ready(of, m), Stands(of, m, around), Reads(of, m, n, piece), ~n.thrown,
         around \subseteq ToSet(piece.path)
  PROVE  Stands(of, n, around)
<1>1. \A f \in Fields : IsList(m.text[f])
  BY DEF Ready, IsMemory
<1>2. n.inside = m.inside /\ n.field = m.field
  BY DEF Reads
<1>3. n.field # "none" =>
        Needs(of, n.field) \subseteq around /\ StandsIn(n.text["field_value"], Needs(of, n.field))
  <2> SUFFICES ASSUME n.field # "none"
               PROVE  StandsIn(n.text["field_value"], Needs(of, n.field))
    BY <1>2 DEF Stands
  <2>1. Needs(of, m.field) \subseteq ToSet(piece.path) /\ StandsIn(m.text["field_value"], Needs(of, m.field))
    BY <1>2 DEF Stands
  <2>2. \/ n.text["field_value"] = m.text["field_value"]
        \/ n.text["field_value"] = Append(m.text["field_value"], piece)
    BY FieldNames DEF Reads
  <2>3. StandsIn(Append(m.text["field_value"], piece), Needs(of, m.field))
    BY <1>1, <2>1, FieldNames, TextGrows
  <2> QED
    BY <1>2, <2>1, <2>2, <2>3
<1>4. ASSUME NEW f \in Fields \ {"field_value"} PROVE StandsIn(n.text[f], Needs(of, f))
  <2>1. CASE n.text[f] = m.text[f]
    BY <2>1 DEF Stands
  <2>2. CASE f = m.field /\ m.field # "none" /\ n.text[f] = Append(m.text[f], piece)
    <3>1. Needs(of, f) \subseteq ToSet(piece.path) /\ StandsIn(m.text[f], Needs(of, f))
      BY <2>2 DEF Stands
    <3>2. IsList(m.text[f])
      BY <1>1
    <3>3. StandsIn(Append(m.text[f], piece), Needs(of, f))
      BY <3>1, <3>2, TextGrows
    <3> QED
      BY <2>2, <3>3
  <2> QED
    BY <2>1, <2>2 DEF Reads
<1> QED
  BY <1>2, <1>3, <1>4 DEF Stands

LEMMA ClosesStands ==
  ASSUME NEW of, NEW m, NEW n, NEW name, NEW around, NEW after,
         Ready(of, m), Stands(of, m, around), Closes(of, m, n, name), ~n.thrown,
         around \subseteq after \cup {name}
  PROVE  Stands(of, n, after)
<1>1. \A names : StandsIn(<<>>, names)
  BY EmptyIsList, TextGrows
<1>2. n.inside \subseteq after
  BY DEF Stands, Closes
<1>3. n.field # "none" =>
        Needs(of, n.field) \subseteq after /\ StandsIn(n.text["field_value"], Needs(of, n.field))
  BY DEF Stands, Closes
<1>4. ASSUME NEW f \in Fields \ {"field_value"} PROVE StandsIn(n.text[f], Needs(of, f))
  <2>1. CASE n.text[f] = m.text[f] \/ n.text[f] = <<>>
    BY <1>1, <2>1 DEF Stands
  <2>2. CASE f = m.field /\ n.text[f] = m.text["field_value"]
    <3>1. f # "none"
      BY DEF Fields
    <3> QED
      BY <2>2, <3>1 DEF Stands
  <2>3. CASE of = "metadata" /\ f = "ServiceAddress" /\ n.text[f] = m.text["Address"]
    <3>1. Needs(of, "ServiceAddress") = Needs(of, "Address")
      BY <2>3 DEF Needs
    <3>2. "Address" \in Fields \ {"field_value"}
      BY FieldNames
    <3>3. StandsIn(m.text["Address"], Needs(of, "Address"))
      BY <3>2 DEF Stands
    <3> QED
      BY <2>3, <3>1, <3>3
  <2> QED
    BY <2>1, <2>2, <2>3 DEF Closes
<1> QED
  BY <1>2, <1>3, <1>4 DEF Stands

LEMMA EmptyStands == \A of, around : Stands(of, EmptyMemory, around) /\ Ready(of, EmptyMemory) /\ ~EmptyMemory.thrown
<1>1. \A names : StandsIn(<<>>, names)
  BY EmptyIsList, TextGrows
<1>2. /\ EmptyMemory.inside = {} /\ EmptyMemory.field = "none" /\ ~EmptyMemory.thrown
      /\ \A f \in Fields : EmptyMemory.text[f] = <<>>
  BY DEF EmptyMemory
<1> QED
  BY <1>1, <1>2, EmptyMemoryIs, FieldNames DEF Stands, Ready

-----------------------------------------------------------------------------
(* The open elements.                                                      *)

AroundOf(list) == {list[i].name : i \in 1 .. Len(list)}

\* The part that a text here belongs to.
CurrentOf(list) == IF Len(list) = 0 THEN 0 ELSE list[Len(list)].part

IsPart(name) == name \in {"ProbeMatch", "Hosted"}

IsElement(e) == e = [name |-> e.name, content |-> e.content, bound |-> e.bound, part |-> e.part]

\* An open element whose content may have grown.
Alike(e, f) == f.name = e.name /\ f.bound = e.bound /\ f.part = e.part /\ IsElement(f)

SameElements(list, after) ==
  /\ IsList(after) /\ Len(after) = Len(list)
  /\ \A i \in 1 .. Len(list) : Alike(list[i], after[i])

OneMore(list, after, e) ==
  /\ IsList(after) /\ Len(after) = Len(list) + 1
  /\ \A i \in 1 .. Len(list) : Alike(list[i], after[i])
  /\ Alike(e, after[Len(list) + 1])

OneLess(list, after) ==
  /\ IsList(after) /\ Len(list) # 0 /\ Len(after) = Len(list) - 1
  /\ \A i \in 1 .. Len(after) : Alike(list[i], after[i])

\* A part has an ordinal, and what is not one belongs to the part around it.
NestedIn(list) ==
  \A i \in 1 .. Len(list) :
    /\ IsPart(list[i].name) => list[i].part # 0
    /\ ~IsPart(list[i].name) => list[i].part = IF i = 1 THEN 0 ELSE list[i - 1].part

LEMMA SameIs ==
  ASSUME NEW list, NEW after, IsList(list), SameElements(list, after)
  PROVE  /\ AroundOf(after) = AroundOf(list) /\ CurrentOf(after) = CurrentOf(list)
         /\ NestedIn(list) => NestedIn(after)
<1>1. Len(list) \in Nat
  BY DEF IsList
<1>2. AroundOf(after) = AroundOf(list) /\ CurrentOf(after) = CurrentOf(list)
  BY <1>1 DEF SameElements, AroundOf, CurrentOf, Alike
<1>3. NestedIn(list) => NestedIn(after)
  BY <1>1 DEF SameElements, NestedIn, Alike
<1> QED
  BY <1>2, <1>3

LEMMA MoreIs ==
  ASSUME NEW list, NEW after, NEW e, IsList(list), OneMore(list, after, e)
  PROVE  /\ AroundOf(after) = AroundOf(list) \cup {e.name} /\ CurrentOf(after) = e.part
         /\ NestedIn(list) /\ (IF IsPart(e.name) THEN e.part # 0 ELSE e.part = CurrentOf(list)) => NestedIn(after)
<1>1. Len(list) \in Nat /\ 1 .. Len(after) = (1 .. Len(list)) \cup {Len(list) + 1}
  BY DEF IsList, OneMore
<1>2. AroundOf(after) = AroundOf(list) \cup {e.name} /\ CurrentOf(after) = e.part
  BY <1>1 DEF OneMore, AroundOf, CurrentOf, Alike
<1>3. ASSUME NestedIn(list), IF IsPart(e.name) THEN e.part # 0 ELSE e.part = CurrentOf(list)
      PROVE  NestedIn(after)
  <2> SUFFICES ASSUME NEW i \in 1 .. Len(after)
               PROVE  /\ IsPart(after[i].name) => after[i].part # 0
                      /\ ~IsPart(after[i].name) =>
                           after[i].part = IF i = 1 THEN 0 ELSE after[i - 1].part
    BY DEF NestedIn
  <2>1. CASE i \in 1 .. Len(list)
    <3>1. Alike(list[i], after[i]) /\ (i # 1 => i - 1 \in 1 .. Len(list))
      BY <1>1, <2>1 DEF OneMore
    <3>2. i # 1 => Alike(list[i - 1], after[i - 1])
      BY <3>1 DEF OneMore
    <3>3. /\ IsPart(list[i].name) => list[i].part # 0
          /\ ~IsPart(list[i].name) => list[i].part = IF i = 1 THEN 0 ELSE list[i - 1].part
      BY <1>3, <2>1 DEF NestedIn
    <3> QED
      BY <3>1, <3>2, <3>3 DEF Alike
  <2>2. CASE i = Len(list) + 1
    BY <1>1, <1>3, <2>2 DEF OneMore, Alike, CurrentOf
  <2> QED
    BY <1>1, <2>1, <2>2
<1> QED
  BY <1>2, <1>3

LEMMA LessIs ==
  ASSUME NEW list, NEW after, IsList(list), OneLess(list, after)
  PROVE  /\ AroundOf(list) = AroundOf(after) \cup {list[Len(list)].name}
         /\ NestedIn(list) => NestedIn(after)
         /\ NestedIn(list) /\ ~IsPart(list[Len(list)].name) => CurrentOf(after) = CurrentOf(list)
<1>1. Len(list) \in Nat \ {0} /\ 1 .. Len(list) = (1 .. Len(after)) \cup {Len(list)}
  BY DEF IsList, OneLess
<1>2. AroundOf(list) = AroundOf(after) \cup {list[Len(list)].name}
  BY <1>1 DEF OneLess, AroundOf, Alike
<1>3. NestedIn(list) => NestedIn(after)
  BY <1>1 DEF OneLess, NestedIn, Alike
<1>4. NestedIn(list) /\ ~IsPart(list[Len(list)].name) => CurrentOf(after) = CurrentOf(list)
  BY <1>1 DEF OneLess, NestedIn, Alike, CurrentOf
<1> QED
  BY <1>2, <1>3, <1>4

\* The last open element is written anew.
LEMMA ReviseIs ==
  ASSUME NEW list, IsList(list), list # <<>>, NEW e
  PROVE  /\ Len(list) \in Nat \ {0} /\ Last(list) = list[Len(list)]
         /\ IsList(Append(Front(list), e)) /\ Len(Append(Front(list), e)) = Len(list)
         /\ Append(Front(list), e)[Len(list)] = e
         /\ \A i \in 1 .. Len(list) - 1 : Append(Front(list), e)[i] = list[i]
<1> DEFINE front == Front(list)
           after == Append(front, e)
<1>1. /\ Len(list) \in Nat \ {0} /\ Last(list) = list[Len(list)]
      /\ IsList(front) /\ Len(front) = Len(list) - 1
      /\ \A i \in 1 .. Len(list) - 1 : front[i] = list[i]
  BY FrontIsList
<1> HIDE DEF front
<1>2. /\ IsList(after) /\ Len(after) = Len(front) + 1 /\ after[Len(front) + 1] = e
      /\ \A i \in 1 .. Len(front) : after[i] = front[i]
  BY <1>1, AppendIsList
<1> HIDE DEF after
<1>3. Len(front) + 1 = Len(list)
  BY <1>1
<1>4. Len(after) = Len(list) /\ after[Len(list)] = e /\ \A i \in 1 .. Len(list) - 1 : after[i] = list[i]
  BY <1>1, <1>2, <1>3
<1> QED
  BY <1>1, <1>2, <1>4 DEF after, front

-----------------------------------------------------------------------------
(* The messages.                                                           *)

LEMMA MessageNames == Messages = {"probe", "metadata", "description", "configuration", "status", "fault"}
  BY DEF Messages, Schema

LEMMA PartNames ==
  /\ \A m \in Messages : "Envelope" \in Names[m]
  /\ "Hosted" \notin Names["probe"] /\ "ProbeMatch" \notin Names["metadata"]
<1>1. \A m \in Messages : "Envelope" \in Names[m]
  BY DEF Names
<1> DEFINE probe ==
     [Envelope |-> <<"Action", "RelatesTo", "ProbeMatches">>,
      ProbeMatches |-> <<"ProbeMatch">>,
      ProbeMatch |-> <<"EndpointReference", "Types", "XAddrs">>,
      EndpointReference |-> <<"Address">>]
           metadata ==
     [Envelope |-> <<"Action", "RelatesTo", "Metadata">>,
      Metadata |-> <<"ThisModel", "Host", "Hosted">>,
      ThisModel |-> <<"Manufacturer", "ModelName">>,
      Host |-> <<"EndpointReference">>,
      Hosted |-> <<"EndpointReference", "Types">>,
      EndpointReference |-> <<"Address">>]
<1>2. Schema["probe"] = probe /\ Schema["metadata"] = metadata
  BY DEF Schema
<1>3. /\ Names["probe"] = {"Envelope", "Other"} \cup UNION {ToSet(probe[n]) : n \in DOMAIN probe}
      /\ Names["metadata"] = {"Envelope", "Other"} \cup UNION {ToSet(metadata[n]) : n \in DOMAIN metadata}
  BY <1>2, MessageNames DEF Names
<1>4. \A n \in DOMAIN probe : \A i \in DOMAIN probe[n] : probe[n][i] # "Hosted"
  OBVIOUS
<1>5. \A n \in DOMAIN metadata : \A i \in DOMAIN metadata[n] : metadata[n][i] # "ProbeMatch"
  OBVIOUS
<1> HIDE DEF probe, metadata
<1>6. \A s, x : x \in ToSet(s) => \E i \in DOMAIN s : s[i] = x
  BY DEF ToSet
<1> QED
  BY <1>1, <1>3, <1>4, <1>5, <1>6

LEMMA MemoryOpens ==
  ASSUME message \in Messages, Ready(message, memory), NEW name
  PROVE  Opens(message, memory, Element(name), name)
<1>1. CASE message = "probe"
  BY <1>1, ProbeOpens DEF Element
<1>2. CASE message = "metadata"
  BY <1>2, MetadataOpens DEF Element
<1>3. CASE message = "description"
  BY <1>3, DescriptionOpens DEF Element
<1>4. CASE message = "configuration"
  BY <1>4, ConfigurationOpens DEF Element
<1>5. CASE message = "status"
  BY <1>5, StatusOpens DEF Element
<1>6. CASE message = "fault"
  BY <1>6, FaultOpens DEF Element
<1> QED
  BY <1>1, <1>2, <1>3, <1>4, <1>5, <1>6, MessageNames

LEMMA MemoryReads ==
  ASSUME message \in Messages, Ready(message, memory), NEW piece
  PROVE  Reads(message, memory, ReadText(piece), piece)
<1>1. CASE message = "probe"
  BY <1>1, ProbeReads DEF ReadText
<1>2. CASE message = "metadata"
  BY <1>2, MetadataReads DEF ReadText
<1>3. CASE message = "description"
  BY <1>3, DescriptionReads DEF ReadText
<1>4. CASE message \in {"configuration", "status", "fault"}
  BY <1>4, CollectsReads DEF ReadText, Direct
<1> QED
  BY <1>1, <1>2, <1>3, <1>4, MessageNames

\* What the decoder does at the end of an element.
EndOf(name) ==
  CASE message = "probe" -> ProbeEnd(memory, name)
    [] message = "metadata" -> MetadataEnd(memory, name)
    [] message = "description" -> DescriptionEnd(memory, name)
    [] message = "configuration" -> ConfigurationEnd(memory, name)
    [] message = "status" -> StatusEnd(memory, name)
    [] message = "fault" -> FaultEnd(memory, name)

LEMMA MemoryCloses ==
  ASSUME message \in Messages, Ready(message, memory), NEW name
  PROVE  Closes(message, memory, EndOf(name), name)
<1>1. CASE message = "probe"
  BY <1>1, ProbeCloses DEF EndOf
<1>2. CASE message = "metadata"
  BY <1>2, MetadataCloses DEF EndOf
<1>3. CASE message = "description"
  BY <1>3, DescriptionCloses DEF EndOf
<1>4. CASE message = "configuration"
  BY <1>4, ConfigurationCloses DEF EndOf
<1>5. CASE message = "status"
  BY <1>5, StatusCloses DEF EndOf
<1>6. CASE message = "fault"
  BY <1>6, FaultCloses DEF EndOf
<1> QED
  BY <1>1, <1>2, <1>3, <1>4, <1>5, <1>6, MessageNames

-----------------------------------------------------------------------------
(* The steps of a document.                                                *)

IsEntry(e, of, most) ==
  /\ IsElement(e) /\ e.name \in Names[of] /\ e.part \in 0 .. most

Sound ==
  /\ message \in Messages /\ parts \in Nat /\ surprises \in Nat /\ empties \in BOOLEAN
  /\ IsList(open) /\ IsList(scopes) /\ Len(open) <= Len(scopes)
  /\ \A i \in 1 .. Len(open) : IsEntry(open[i], message, parts)
  /\ scopes = <<>> => memory = EmptyMemory /\ ~empties
  /\ ~memory.thrown => Ready(message, memory)

\* An element begins in a reply that is still read.
Begins(name, bound, part, empty) ==
  /\ ~memory.thrown /\ message' = message /\ memory' = Element(name)
  /\ name \in Names[message]
  /\ ~empties' => ~empties /\ ~empty
  /\ part = IF IsPart(name) THEN parts + 1 ELSE CurrentOf(open)
  /\ parts' \in Nat /\ parts <= parts' /\ part <= parts'
  /\ IF empty
     THEN SameElements(open, open')
     ELSE OneMore(open, open', [name |-> name, content |-> 0, bound |-> bound, part |-> part])
  /\ IsList(scopes') /\ Len(scopes') = Len(open) + 1
  /\ \A i \in 1 .. Len(open) : scopes'[i] = scopes[i]
  /\ (\A i \in 1 .. Len(open) : scopes[i] = open[i].bound) => scopes'[Len(open) + 1] = bound

TextIs(piece) ==
  /\ ~memory.thrown /\ open # <<>> /\ memory' = ReadText(piece)
  /\ UNCHANGED <<message, scopes, parts, empties>>
  /\ SameElements(open, open')
  /\ ToSet(piece.path) = AroundOf(open) /\ piece.part = CurrentOf(open)
  /\ piece.bound = open[Len(open)].bound /\ piece.resolved = scopes[Len(scopes)]

Ends(name) ==
  /\ ~memory.thrown /\ memory' = EndOf(name)
  /\ UNCHANGED <<message, scopes, parts, empties>>
  /\ OneLess(open, open') /\ name = open[Len(open)].name

Restarts == 
  /\ open' = <<>> /\ scopes' = <<>> /\ memory' = EmptyMemory /\ empties' = FALSE
  /\ parts' = 0 /\ surprises' = 0 /\ UNCHANGED message

LEMMA PrefixIsList ==
  ASSUME NEW list, IsList(list), NEW n \in 0 .. Len(list), NEW e
  PROVE  /\ IsList(Append(SubSeq(list, 1, n), e))
         /\ Len(Append(SubSeq(list, 1, n), e)) = n + 1
         /\ Append(SubSeq(list, 1, n), e)[n + 1] = e
         /\ \A i \in 1 .. n : Append(SubSeq(list, 1, n), e)[i] = list[i]
<1> DEFINE S == {list[i] : i \in 1 .. Len(list)} \cup {list}
           prefix == SubSeq(list, 1, n)
<1>1. list \in Seq(S)
  BY ListIsSequence
<1>2. Len(list) \in Nat /\ n \in Nat /\ n <= Len(list)
  BY DEF IsList
<1>3. \A i \in 1 .. n : list[i] \in S
  BY <1>2
<1> HIDE DEF S
<1>4. /\ prefix \in Seq(S)
      /\ Len(prefix) = IF 1 <= n THEN n - 1 + 1 ELSE 0
      /\ \A i \in 1 .. n - 1 + 1 : prefix[i] = list[1 + i - 1]
  BY <1>2, <1>3, SubSeqProperties
<1>5. n - 1 + 1 = n /\ \A i \in 1 .. n : 1 + i - 1 = i
  BY <1>2
<1> HIDE DEF prefix
<1>6. IsList(prefix) /\ Len(prefix) = n /\ \A i \in 1 .. n : prefix[i] = list[i]
  BY <1>2, <1>4, <1>5, SequenceIsList
<1>7. /\ IsList(Append(prefix, e)) /\ Len(Append(prefix, e)) = Len(prefix) + 1
      /\ Append(prefix, e)[Len(prefix) + 1] = e
      /\ \A i \in 1 .. Len(prefix) : Append(prefix, e)[i] = prefix[i]
  BY <1>6, AppendIsList
<1> QED
  BY <1>6, <1>7 DEF prefix

LEMMA ScopesWithIs ==
  ASSUME Sound, NEW declared, scopes' = ScopesWith(declared)
  PROVE  /\ IsList(scopes') /\ Len(scopes') = Len(open) + 1
         /\ \A i \in 1 .. Len(open) : scopes'[i] = scopes[i]
         /\ scopes'[Len(open) + 1] =
              IF declared # "none" THEN declared ELSE IF Len(open) = 0 THEN "none" ELSE scopes[Len(open)]
<1> DEFINE e == IF declared # "none" THEN declared ELSE IF Len(open) = 0 THEN "none" ELSE scopes[Len(open)]
<1>1. Len(open) \in 0 .. Len(scopes) /\ IsList(scopes)
  BY DEF Sound, IsList
<1>2. scopes' = Append(SubSeq(scopes, 1, Len(open)), e)
  BY <1>1 DEF ScopesWith
<1> HIDE DEF e
<1>3. /\ IsList(scopes') /\ Len(scopes') = Len(open) + 1 /\ scopes'[Len(open) + 1] = e
      /\ \A i \in 1 .. Len(open) : scopes'[i] = scopes[i]
  BY <1>1, <1>2, PrefixIsList
<1> QED
  BY <1>3 DEF e

LEMMA EnvelopeBegins ==
  ASSUME Sound, NEW declared \in {"deployed", "foreign"}, Envelope(declared)
  PROVE  Begins("Envelope", declared, 0, FALSE)
<1> DEFINE e == [name |-> "Envelope", content |-> 0, bound |-> declared, part |-> 0]
<1>1. ~memory.thrown /\ Len(open) = 0
  BY EmptyIsList DEF Sound, Envelope, EmptyMemory, IsList
<1>2. OneMore(open, open', e)
  <2>1. open' = <<e>> /\ <<e>> \in Seq({e}) /\ Len(<<e>>) = 1 /\ <<e>>[1] = e
    BY DEF Envelope
  <2>2. Alike(e, e)
    BY DEF Alike, IsElement
  <2> HIDE DEF e
  <2>3. IsList(open') /\ Len(open') = 1 /\ open'[1] = e
    BY <2>1, SequenceIsList
  <2> QED
    BY <1>1, <2>2, <2>3 DEF OneMore
<1>3. message' = message /\ memory' = Element("Envelope") /\ parts' = parts /\ (empties' <=> empties)
  BY Zenon DEF Envelope
<1>4. "Envelope" \in Names[message] /\ ~IsPart("Envelope") /\ CurrentOf(open) = 0 /\ parts \in Nat
  BY <1>1, PartNames DEF Sound, IsPart, CurrentOf
<1>5. /\ IsList(scopes') /\ Len(scopes') = Len(open) + 1
      /\ \A i \in 1 .. Len(open) : scopes'[i] = scopes[i]
      /\ scopes'[Len(open) + 1] = declared
  BY ScopesWithIs DEF Envelope
<1> QED
  BY <1>1, <1>2, <1>3, <1>4, <1>5 DEF Begins

LEMMA ElementBegins ==
  ASSUME Sound, NEW name \in Names[message], NEW declared, NEW empty \in BOOLEAN,
         BeginElement(name, declared, empty)
  PROVE  \E bound, part : Begins(name, bound, part, empty)
<1> DEFINE top == Last(open)
           bound == IF declared = "none" THEN top.bound ELSE declared
           part == IF IsPart(name) THEN parts + 1 ELSE top.part
           e == [name |-> name, content |-> 0, part |-> part, bound |-> bound]
           place == Place(name)
           revised == [top EXCEPT !.content = IF @ > place THEN @ ELSE place]
           around == Append(Front(open), revised)
<1>1. open # <<>> /\ ~memory.thrown /\ IsList(open)
  BY DEF BeginElement, Reading, Sound
<1>2. /\ open' = IF empty THEN around ELSE Append(around, e)
      /\ parts' = IF IsPart(name) \/ name \in Repeated THEN parts + 1 ELSE parts
      /\ message' = message /\ memory' = Element(name) /\ scopes' = ScopesWith(declared)
  BY DEF BeginElement, IsPart
<1>3. ~empties' => ~empties /\ ~empty
  <2>1. empties' <=> (empties \/ empty)
    BY Zenon DEF BeginElement
  <2> QED
    BY <2>1
<1>4. /\ Len(open) \in Nat \ {0} /\ top = open[Len(open)] /\ IsEntry(top, message, parts)
      /\ IsList(around) /\ Len(around) = Len(open) /\ around[Len(open)] = revised
      /\ \A i \in 1 .. Len(open) - 1 : around[i] = open[i]
  <2> HIDE DEF revised
  <2>1. /\ Len(open) \in Nat \ {0} /\ top = open[Len(open)]
        /\ IsList(around) /\ Len(around) = Len(open) /\ around[Len(open)] = revised
        /\ \A i \in 1 .. Len(open) - 1 : around[i] = open[i]
    BY <1>1, ReviseIs
  <2> HIDE DEF top, around
  <2>2. IsEntry(open[Len(open)], message, parts)
    BY <2>1 DEF Sound
  <2> QED
    BY <2>1, <2>2
<1>5. Alike(top, revised)
  <2> HIDE DEF place
  <2>1. IsEntry(top, message, parts)
    BY <1>4
  <2> HIDE DEF top
  <2> QED
    BY <2>1 DEF IsEntry, IsElement, Alike
<1> HIDE DEF revised, around
<1>6. SameElements(open, around)
  <2>1. \A i \in 1 .. Len(open) : i = Len(open) \/ i \in 1 .. Len(open) - 1
    BY <1>4
  <2> QED
    BY <1>4, <1>5, <2>1 DEF SameElements, Alike, Sound, IsEntry
<1>7. OneMore(open, Append(around, e), [name |-> name, content |-> 0, bound |-> bound, part |-> part])
  <2>1. e = [name |-> name, content |-> 0, bound |-> bound, part |-> part]
    OBVIOUS
  <2> HIDE DEF e
  <2>2. /\ IsList(Append(around, e)) /\ Len(Append(around, e)) = Len(around) + 1
        /\ Append(around, e)[Len(around) + 1] = e
        /\ \A i \in 1 .. Len(around) : Append(around, e)[i] = around[i]
    BY <1>4, AppendIsList
  <2>3. Alike(e, e)
    BY <2>1 DEF Alike, IsElement
  <2> QED
    BY <1>4, <1>6, <2>1, <2>2, <2>3 DEF OneMore, SameElements
<1>8. /\ part = IF IsPart(name) THEN parts + 1 ELSE CurrentOf(open)
      /\ parts' \in Nat /\ parts <= parts' /\ part <= parts'
  BY <1>2, <1>4 DEF Sound, CurrentOf, IsEntry
<1>9. /\ IsList(scopes') /\ Len(scopes') = Len(open) + 1
      /\ \A i \in 1 .. Len(open) : scopes'[i] = scopes[i]
      /\ scopes'[Len(open) + 1] = IF declared # "none" THEN declared ELSE scopes[Len(open)]
  BY <1>2, <1>4, ScopesWithIs
<1>10. (\A i \in 1 .. Len(open) : scopes[i] = open[i].bound) => scopes'[Len(open) + 1] = bound
  BY <1>4, <1>9
<1> HIDE DEF top, bound, part, e, place
<1>11. Begins(name, bound, part, empty)
  BY <1>1, <1>2, <1>3, <1>6, <1>7, <1>8, <1>9, <1>10 DEF Begins
<1> QED
  BY <1>11

LEMMA TextIsRead ==
  ASSUME Sound, NEW says, Text(says)
  PROVE  \E piece : TextIs(piece)
<1> DEFINE top == Last(open)
           piece == [says |-> says, path |-> [i \in DOMAIN open |-> open[i].name],
                     part |-> top.part, resolved |-> Last(scopes), bound |-> top.bound]
           revised == [top EXCEPT !.content = IF @ = 0 THEN 1 ELSE @]
<1>1. /\ open # <<>> /\ ~memory.thrown /\ IsList(open) /\ memory' = ReadText(piece)
      /\ open' = Append(Front(open), revised) /\ UNCHANGED <<message, scopes, parts, empties>>
  BY DEF Text, Reading, Sound
<1>2. /\ Len(open) \in Nat \ {0} /\ top = open[Len(open)]
      /\ IsList(open') /\ Len(open') = Len(open) /\ open'[Len(open)] = revised
      /\ \A i \in 1 .. Len(open) - 1 : open'[i] = open[i]
  <2> HIDE DEF revised
  <2> QED
    BY <1>1, ReviseIs
<1>3. Alike(top, revised)
  <2>1. IsEntry(top, message, parts)
    BY <1>2 DEF Sound
  <2> HIDE DEF top
  <2> QED
    BY <2>1 DEF IsEntry, IsElement, Alike
<1>4. SameElements(open, open')
  <2> HIDE DEF revised
  <2>1. \A i \in 1 .. Len(open) : i = Len(open) \/ i \in 1 .. Len(open) - 1
    BY <1>2
  <2> QED
    BY <1>2, <1>3, <2>1 DEF SameElements, Alike, Sound, IsEntry
<1>5. ToSet(piece.path) = AroundOf(open) /\ piece.part = CurrentOf(open)
  <2>1. DOMAIN open = 1 .. Len(open)
    BY <1>1 DEF IsList
  <2> QED
    BY <1>2, <2>1 DEF ToSet, AroundOf, CurrentOf
<1>6. Last(scopes) = scopes[Len(scopes)]
  BY DEF Last
<1>7. piece.bound = open[Len(open)].bound /\ piece.resolved = scopes[Len(scopes)]
  BY <1>2, <1>6
<1> HIDE DEF piece, top, revised
<1>8. TextIs(piece)
  BY <1>1, <1>4, <1>5, <1>7 DEF TextIs
<1> QED
  BY <1>8

LEMMA ElementEnds ==
  ASSUME Sound, EndElement
  PROVE  \E name : Ends(name)
<1> DEFINE name == Last(open).name
<1>1. open # <<>> /\ ~memory.thrown /\ IsList(open) /\ open' = Front(open)
      /\ UNCHANGED <<message, scopes, parts, empties>>
  BY DEF EndElement, Reading, Sound
<1>2. memory' = EndOf(name)
  BY DEF EndElement, EndOf
<1>3. /\ Len(open) \in Nat \ {0} /\ Last(open) = open[Len(open)]
      /\ IsList(open') /\ Len(open') = Len(open) - 1
      /\ \A i \in 1 .. Len(open) - 1 : open'[i] = open[i]
  BY <1>1, FrontIsList
<1>4. OneLess(open, open')
  BY <1>3 DEF OneLess, Alike, Sound, IsEntry
<1> QED
  BY <1>1, <1>2, <1>3, <1>4 DEF Ends

\* Each step is one of these.
LEMMA StepsAre ==
  ASSUME Sound, DocumentNext
  PROVE  \/ \E name, bound, part : \E empty \in BOOLEAN : Begins(name, bound, part, empty)
         \/ \E piece : TextIs(piece)
         \/ \E name : Ends(name)
         \/ Restarts
<1>1. CASE \E declared \in {"deployed", "foreign"} : Envelope(declared)
  BY <1>1, EnvelopeBegins
<1>2. CASE \E name \in Names[message], empty \in BOOLEAN : \E declared : BeginElement(name, declared, empty)
  BY <1>2, ElementBegins
<1>3. CASE \E says \in Texts[message] : Text(says)
  BY <1>3, TextIsRead
<1>4. CASE EndElement
  BY <1>4, ElementEnds
<1>5. CASE NextReply
  BY <1>5 DEF NextReply, Restarts
<1> QED
  BY <1>1, <1>2, <1>3, <1>4, <1>5 DEF DocumentNext

Standing == ~memory.thrown /\ ~empties => Stands(message, memory, AroundOf(open))

\* The prefix stands for what it is bound to, and a text that is collected is
\* at the element that has begun last.
Scoped ==
  ~memory.thrown /\ ~empties =>
    /\ \A i \in 1 .. Len(open) : scopes[i] = open[i].bound
    /\ Direct(message) /\ memory.field # "none" => Len(scopes) = Len(open)

Nested == NestedIn(open)

LEMMA BeginSound ==
  ASSUME Sound, NEW name, NEW bound, NEW part, NEW empty \in BOOLEAN, Begins(name, bound, part, empty),
         surprises' \in Nat, empties' \in BOOLEAN
  PROVE  Sound'
<1> DEFINE e == [name |-> name, content |-> 0, bound |-> bound, part |-> part]
<1>1. message \in Messages /\ IsList(open) /\ Len(open) \in Nat /\ Ready(message, memory) /\ parts \in Nat
  BY DEF Sound, Begins, IsList
<1>2. /\ IsList(open') /\ Len(open') <= Len(open) + 1
      /\ \A i \in 1 .. Len(open') :
           IsElement(open'[i]) /\ open'[i].name \in Names[message] /\ open'[i].part \in 0 .. parts'
  <2>1. \A i \in 1 .. Len(open) : open[i].name \in Names[message] /\ open[i].part \in 0 .. parts'
    BY <1>1 DEF Sound, IsEntry, Begins
  <2>2. CASE empty
    <3>1. SameElements(open, open')
      BY <2>2 DEF Begins
    <3> QED
      BY <1>1, <2>1, <3>1 DEF SameElements, Alike
  <2>3. CASE ~empty
    <3>1. OneMore(open, open', e)
      BY <2>3 DEF Begins
    <3>2. e.name = name /\ e.part = part
      OBVIOUS
    <3>3. e.name \in Names[message] /\ e.part \in 0 .. parts'
      <4>1. part \in Nat
        <5>1. CASE IsPart(name)
          BY <1>1, <5>1 DEF Begins
        <5>2. CASE ~IsPart(name)
          BY <1>1, <2>1, <5>2 DEF Begins, CurrentOf
        <5> QED
          BY <5>1, <5>2
      <4> QED
        BY <3>2, <4>1 DEF Begins
    <3> HIDE DEF e
    <3>4. \A i \in 1 .. Len(open') : i \in 1 .. Len(open) \/ i = Len(open) + 1
      BY <1>1, <3>1 DEF OneMore
    <3> QED
      BY <1>1, <2>1, <3>1, <3>3, <3>4 DEF OneMore, Alike
  <2> QED
    BY <2>2, <2>3
<1>3. IsList(scopes') /\ Len(scopes') = Len(open) + 1 /\ message' = message /\ parts' \in Nat
  BY DEF Begins
<1>4. scopes' # <<>>
  BY <1>1, <1>3, EmptyIsList
<1>5. ~memory'.thrown => Ready(message, memory')
  <2>1. Opens(message, memory, memory', name)
    BY <1>1, MemoryOpens DEF Begins
  <2> QED
    BY <2>1 DEF Opens
<1>6. Len(open') \in Nat
  BY <1>2 DEF IsList
<1> QED
  BY <1>1, <1>2, <1>3, <1>4, <1>5, <1>6 DEF Sound, IsEntry

LEMMA TextSound ==
  ASSUME Sound, NEW piece, TextIs(piece), surprises' \in Nat
  PROVE  Sound'
<1>1. message \in Messages /\ Ready(message, memory)
  BY DEF Sound, TextIs
<1>2. /\ IsList(open') /\ Len(open') = Len(open)
      /\ \A i \in 1 .. Len(open') : IsEntry(open'[i], message, parts)
  BY DEF Sound, TextIs, SameElements, Alike, IsEntry
<1>3. ~memory'.thrown => Ready(message, memory')
  <2>1. Reads(message, memory, memory', piece)
    BY <1>1, MemoryReads DEF TextIs
  <2> QED
    BY <2>1 DEF Reads
<1>4. scopes # <<>>
  BY EmptyIsList DEF TextIs, Sound, IsList
<1> QED
  BY <1>1, <1>2, <1>3, <1>4 DEF Sound, TextIs

LEMMA EndSound ==
  ASSUME Sound, NEW name, Ends(name), surprises' \in Nat
  PROVE  Sound'
<1>1. message \in Messages /\ Ready(message, memory)
  BY DEF Sound, Ends
<1>2. /\ IsList(open') /\ Len(open') <= Len(scopes) /\ Len(open) # 0
      /\ \A i \in 1 .. Len(open') : IsEntry(open'[i], message, parts)
  BY DEF Sound, Ends, OneLess, Alike, IsEntry, IsList
<1>3. ~memory'.thrown => Ready(message, memory')
  <2>1. Closes(message, memory, memory', name)
    BY <1>1, MemoryCloses DEF Ends
  <2> QED
    BY <2>1 DEF Closes
<1>4. scopes # <<>>
  BY <1>2, EmptyIsList DEF Sound, IsList
<1> QED
  BY <1>1, <1>2, <1>3, <1>4 DEF Sound, Ends

LEMMA CostIs == \A expected : Cost(expected) \in {0, 1}
  BY DEF Cost

LEMMA SurprisesAre ==
  ASSUME Sound, DocumentNext
  PROVE  surprises' \in Nat /\ empties' \in BOOLEAN
<1>0. surprises \in Nat /\ empties \in BOOLEAN
  BY DEF Sound
<1>1. CASE \E declared \in {"deployed", "foreign"} : Envelope(declared)
  BY <1>0, <1>1, CostIs DEF Envelope
<1>2. CASE \E name \in Names[message], empty \in BOOLEAN : \E declared : BeginElement(name, declared, empty)
  <2>1. PICK name \in Names[message], empty \in BOOLEAN : \E declared : BeginElement(name, declared, empty)
    BY <1>2
  <2>2. PICK declared : BeginElement(name, declared, empty)
    BY <2>1
  <2>3. PICK a, b, c : surprises' = surprises + Cost(a) + Cost(b) + Cost(c)
    BY <2>2 DEF BeginElement
  <2>4. empties' \in BOOLEAN
    BY <2>2, Zenon DEF BeginElement
  <2> QED
    BY <1>0, <2>3, <2>4, CostIs
<1>3. CASE \E says \in Texts[message] : Text(says)
  BY <1>0, <1>3, CostIs DEF Text
<1>4. CASE EndElement
  BY <1>0, <1>4, CostIs DEF EndElement
<1>5. CASE NextReply
  BY <1>5 DEF NextReply
<1> QED
  BY <1>1, <1>2, <1>3, <1>4, <1>5 DEF DocumentNext

LEMMA SoundStep ==
  ASSUME Sound, DocumentNext
  PROVE  Sound'
<1>1. surprises' \in Nat /\ empties' \in BOOLEAN
  BY SurprisesAre
<1>2. CASE Restarts
  <2>1. Ready(message, EmptyMemory) /\ IsList(<<>>) /\ Len(<<>>) = 0 /\ message \in Messages
    BY EmptyStands, EmptyIsList DEF Sound
  <2>2. /\ message' = message /\ open' = <<>> /\ scopes' = <<>> /\ memory' = EmptyMemory
        /\ parts' = 0 /\ ~empties'
    BY <1>2 DEF Restarts
  <2>3. \A i \in 1 .. Len(open') : IsEntry(open'[i], message', parts')
    BY <2>1, <2>2
  <2>4. Len(open') <= Len(scopes')
    BY <2>1, <2>2
  <2> HIDE DEF EmptyMemory
  <2> QED
    BY <1>1, <2>1, <2>2, <2>3, <2>4 DEF Sound
<1> QED
  BY <1>1, <1>2, StepsAre, BeginSound, TextSound, EndSound

LEMMA StandingStep ==
  ASSUME Sound, Standing, DocumentNext
  PROVE  Standing'
<1> SUFFICES ASSUME ~memory'.thrown, ~empties' PROVE Stands(message', memory', AroundOf(open'))
  BY DEF Standing
<1>1. ASSUME NEW name, NEW bound, NEW part, NEW empty \in BOOLEAN, Begins(name, bound, part, empty)
      PROVE  Stands(message', memory', AroundOf(open'))
  <2>1. /\ message' = message /\ message \in Messages /\ Ready(message, memory) /\ ~empties /\ ~empty
        /\ memory' = Element(name)
    BY <1>1 DEF Begins, Sound
  <2>2. Stands(message, memory, AroundOf(open)) /\ Opens(message, memory, memory', name)
    BY <1>1, <2>1, MemoryOpens DEF Standing, Begins
  <2> DEFINE e == [name |-> name, content |-> 0, bound |-> bound, part |-> part]
  <2>3. IsList(open) /\ OneMore(open, open', e) /\ e.name = name
    BY <1>1, <2>1 DEF Sound, Begins
  <2> HIDE DEF e
  <2>4. AroundOf(open) \cup {name} \subseteq AroundOf(open')
    BY <2>3, MoreIs
  <2> QED
    BY <2>1, <2>2, <2>4, OpensStands
<1>2. ASSUME NEW piece, TextIs(piece) PROVE Stands(message', memory', AroundOf(open'))
  <2>1. /\ message' = message /\ message \in Messages /\ Ready(message, memory)
        /\ memory' = ReadText(piece) /\ ToSet(piece.path) = AroundOf(open)
    BY <1>2 DEF TextIs, Sound
  <2>2. Stands(message, memory, AroundOf(open)) /\ Reads(message, memory, memory', piece)
    BY <1>2, <2>1, MemoryReads DEF Standing, TextIs
  <2>3. AroundOf(open') = AroundOf(open)
    BY <1>2, SameIs DEF TextIs, Sound
  <2> QED
    BY <2>1, <2>2, <2>3, ReadsStands
<1>3. ASSUME NEW name, Ends(name) PROVE Stands(message', memory', AroundOf(open'))
  <2>1. message' = message /\ message \in Messages /\ Ready(message, memory) /\ memory' = EndOf(name)
    BY <1>3 DEF Ends, Sound
  <2>2. Stands(message, memory, AroundOf(open)) /\ Closes(message, memory, memory', name)
    BY <1>3, <2>1, MemoryCloses DEF Standing, Ends
  <2>3. AroundOf(open) \subseteq AroundOf(open') \cup {name}
    BY <1>3, LessIs DEF Ends, Sound
  <2> QED
    BY <2>1, <2>2, <2>3, ClosesStands
<1>4. CASE Restarts
  BY <1>4, EmptyStands DEF Restarts
<1> QED
  BY <1>1, <1>2, <1>3, <1>4, StepsAre

LEMMA ScopedStep ==
  ASSUME Sound, Scoped, DocumentNext
  PROVE  Scoped'
<1> SUFFICES ASSUME ~memory'.thrown, ~empties'
             PROVE  /\ \A i \in 1 .. Len(open') : scopes'[i] = open'[i].bound
                    /\ Direct(message') /\ memory'.field # "none" => Len(scopes') = Len(open')
  BY DEF Scoped
<1>0. Len(open) \in Nat
  BY DEF Sound, IsList
<1>1. ASSUME NEW name, NEW bound, NEW part, NEW empty \in BOOLEAN, Begins(name, bound, part, empty)
      PROVE  /\ \A i \in 1 .. Len(open') : scopes'[i] = open'[i].bound
             /\ Len(scopes') = Len(open')
  <2> DEFINE e == [name |-> name, content |-> 0, bound |-> bound, part |-> part]
  <2>1. OneMore(open, open', e) /\ e.bound = bound
    BY <1>1 DEF Begins
  <2>2. \A i \in 1 .. Len(open) : scopes[i] = open[i].bound
    BY <1>1 DEF Begins, Scoped
  <2>3. /\ Len(scopes') = Len(open) + 1 /\ scopes'[Len(open) + 1] = bound
        /\ \A i \in 1 .. Len(open) : scopes'[i] = scopes[i]
    BY <1>1, <2>2 DEF Begins
  <2> HIDE DEF e
  <2>4. /\ Len(open') = Len(open) + 1 /\ open'[Len(open) + 1].bound = bound
        /\ \A i \in 1 .. Len(open) : open'[i].bound = open[i].bound
    BY <2>1 DEF OneMore, Alike
  <2>5. \A i \in 1 .. Len(open') : i \in 1 .. Len(open) \/ i = Len(open) + 1
    BY <1>0, <2>4
  <2> QED
    BY <2>2, <2>3, <2>4, <2>5
<1>2. ASSUME NEW piece, TextIs(piece)
      PROVE  /\ \A i \in 1 .. Len(open') : scopes'[i] = open'[i].bound
             /\ Direct(message') /\ memory'.field # "none" => Len(scopes') = Len(open')
  <2>1. Reads(message, memory, memory', piece)
    BY <1>2, MemoryReads DEF TextIs, Sound
  <2>2. memory'.field = memory.field /\ message' = message /\ scopes' = scopes /\ ~memory.thrown /\ ~empties
    BY <1>2, <2>1 DEF Reads, TextIs
  <2> QED
    BY <1>2, <2>2 DEF Scoped, TextIs, SameElements, Alike
<1>3. ASSUME NEW name, Ends(name)
      PROVE  /\ \A i \in 1 .. Len(open') : scopes'[i] = open'[i].bound
             /\ Direct(message') /\ memory'.field # "none" => Len(scopes') = Len(open')
  <2>1. Closes(message, memory, memory', name)
    BY <1>3, MemoryCloses DEF Ends, Sound
  <2>2. /\ Direct(message') => memory'.field = "none"
        /\ scopes' = scopes /\ ~memory.thrown /\ ~empties
    BY <1>3, <2>1 DEF Closes, Ends
  <2> QED
    BY <1>0, <1>3, <2>2 DEF Scoped, Ends, OneLess, Alike
<1>4. CASE Restarts
  BY <1>4, EmptyIsList DEF Restarts, EmptyMemory
<1> QED
  BY <1>1, <1>2, <1>3, <1>4, StepsAre

LEMMA NestedStep ==
  ASSUME Sound, Nested, DocumentNext
  PROVE  Nested'
<1>0. IsList(open) /\ NestedIn(open) /\ parts \in Nat
  BY DEF Sound, Nested
<1>1. ASSUME NEW name, NEW bound, NEW part, NEW empty \in BOOLEAN, Begins(name, bound, part, empty)
      PROVE  NestedIn(open')
  <2>1. CASE empty
    BY <1>0, <1>1, <2>1, SameIs DEF Begins
  <2>2. CASE ~empty
    <3> DEFINE e == [name |-> name, content |-> 0, bound |-> bound, part |-> part]
    <3>1. e.name = name /\ e.part = part
      OBVIOUS
    <3>2. OneMore(open, open', e)
      BY <1>1, <2>2 DEF Begins
    <3> HIDE DEF e
    <3>3. IF IsPart(e.name) THEN e.part # 0 ELSE e.part = CurrentOf(open)
      BY <1>0, <1>1, <3>1 DEF Begins
    <3> QED
      BY <1>0, <3>2, <3>3, MoreIs
  <2> QED
    BY <2>1, <2>2
<1>2. ASSUME NEW piece, TextIs(piece) PROVE NestedIn(open')
  BY <1>0, <1>2, SameIs DEF TextIs
<1>3. ASSUME NEW name, Ends(name) PROVE NestedIn(open')
  BY <1>0, <1>3, LessIs DEF Ends
<1>4. CASE Restarts
  <2>1. NestedIn(<<>>)
    BY EmptyIsList DEF NestedIn
  <2>2. open' = <<>>
    BY <1>4 DEF Restarts
  <2> QED
    BY <2>1, <2>2 DEF Nested
<1> QED
  BY <1>1, <1>2, <1>3, <1>4, StepsAre DEF Nested

\* The type was read where it stands.
ReadInPlace(type, some) == ~some => type.resolved = type.bound

\* No ProbeMatch is open in another one.
OneMatchIn(list) ==
  \A i, j \in 1 .. Len(list) : list[i].name = "ProbeMatch" /\ list[j].name = "ProbeMatch" => i = j

\* A candidate, as CandidatesAreOwn asks for it.
IsOwn(match, most, some) ==
  /\ match.type.part # 0 /\ match.type.part \in 0 .. most
  /\ OfPart(match.address, match.type.part) /\ OfPart(match.xaddrs, match.type.part)
  /\ ReadInPlace(match.type, some)
  /\ ~some =>
       StandsIn(match.address, {"EndpointReference", "Address"}) /\ StandsIn(match.xaddrs, {"XAddrs"})

\* What the decoder has of the match that is open.
MatchIsOwn(m, part) ==
  /\ OfPart(m.text["Address"], part) /\ OfPart(m.text["XAddrs"], part)
  /\ m.scan => m.namespace.part = part
  /\ \A i \in 1 .. Len(m.list) : m.list[i].type.part # part

Distinct(list) == \A i, j \in 1 .. Len(list) : list[i].type.part = list[j].type.part => i = j

ProbeHolds(m, list, most, some) ==
  /\ OneMatchIn(list)
  /\ "ProbeMatch" \in AroundOf(list) => "ProbeMatch" \in m.inside /\ MatchIsOwn(m, CurrentOf(list))
  /\ m.scan => ReadInPlace(m.namespace, some)
  /\ \A i \in 1 .. Len(m.list) : IsOwn(m.list[i], most, some)
  /\ Distinct(m.list)

ProbeInv == message = "probe" /\ ~memory.thrown => ProbeHolds(memory, open, parts, empties)

LEMMA MatchesAre ==
  ASSUME NEW list, IsList(list), OneMatchIn(list), NEW after
  PROVE  /\ SameElements(list, after) => OneMatchIn(after)
         /\ \A e : OneMore(list, after, e) /\ (e.name # "ProbeMatch" \/ "ProbeMatch" \notin AroundOf(list)) =>
              OneMatchIn(after)
         /\ OneLess(list, after) =>
              OneMatchIn(after) /\ (list[Len(list)].name = "ProbeMatch" => "ProbeMatch" \notin AroundOf(after))
<1>1. Len(list) \in Nat
  BY DEF IsList
<1>2. SameElements(list, after) => OneMatchIn(after)
  BY DEF SameElements, OneMatchIn, Alike
<1>3. ASSUME NEW e, OneMore(list, after, e), e.name # "ProbeMatch" \/ "ProbeMatch" \notin AroundOf(list)
      PROVE  OneMatchIn(after)
  <2>1. \A i \in 1 .. Len(after) : i \in 1 .. Len(list) \/ i = Len(list) + 1
    BY <1>1, <1>3 DEF OneMore
  <2>2. \A i \in 1 .. Len(after) :
          \/ i \in 1 .. Len(list) /\ after[i].name = list[i].name
          \/ i = Len(list) + 1 /\ after[i].name = e.name
    BY <1>3, <2>1 DEF OneMore, Alike
  <2> QED
    BY <1>3, <2>2 DEF OneMatchIn, AroundOf
<1>4. ASSUME OneLess(list, after)
      PROVE  OneMatchIn(after) /\ (list[Len(list)].name = "ProbeMatch" => "ProbeMatch" \notin AroundOf(after))
  BY <1>1, <1>4 DEF OneLess, OneMatchIn, Alike, AroundOf
<1> QED
  BY <1>2, <1>3, <1>4

\* What is owned in a reply is owned in it from then on.
LEMMA StaysOwn ==
  ASSUME NEW match, NEW most \in Nat, NEW some, IsOwn(match, most, some),
         NEW more \in Nat, most <= more, NEW now, ~now => ~some
  PROVE  IsOwn(match, more, now)
  BY DEF IsOwn, ReadInPlace

LEMMA ProbeBegin ==
  ASSUME Sound, ProbeInv, message = "probe",
         NEW name, NEW bound, NEW part, NEW empty \in BOOLEAN, Begins(name, bound, part, empty), ~memory'.thrown
  PROVE  ProbeHolds(memory', open', parts', empties')
<1>1. /\ Ready("probe", memory) /\ ProbeHolds(memory, open, parts, empties)
      /\ parts \in Nat /\ parts' \in Nat /\ parts <= parts' /\ IsList(open)
      /\ ~empties' => ~empties
  BY DEF Sound, Begins, ProbeInv
<1>2. ProbeOpensAs(memory, memory', name)
  BY <1>1, ProbeOpens DEF Begins, Element
<1>3. /\ memory'.list = memory.list /\ memory'.namespace = memory.namespace
      /\ "ProbeMatch" \in memory.inside => "ProbeMatch" \in memory'.inside
      /\ name = "ProbeMatch" =>
         /\ "ProbeMatch" \notin memory.inside /\ "ProbeMatch" \in memory'.inside
         /\ ~memory'.scan /\ memory'.text["Address"] = <<>> /\ memory'.text["XAddrs"] = <<>>
      /\ name # "ProbeMatch" => memory'.scan = memory.scan /\ memory'.text = memory.text
  BY <1>2 DEF ProbeOpensAs
<1>4. name # "Hosted"
  BY PartNames DEF Begins
<1>5. name = "ProbeMatch" => "ProbeMatch" \notin AroundOf(open)
  BY <1>1, <1>3 DEF ProbeHolds
<1>6. /\ OneMatchIn(open')
      /\ \/ AroundOf(open') = AroundOf(open) /\ CurrentOf(open') = CurrentOf(open)
         \/ AroundOf(open') = AroundOf(open) \cup {name} /\ CurrentOf(open') = part
  <2>1. OneMatchIn(open)
    BY <1>1 DEF ProbeHolds
  <2>2. CASE empty
    BY <1>1, <2>1, <2>2, SameIs, MatchesAre DEF Begins
  <2>3. CASE ~empty
    <3> DEFINE e == [name |-> name, content |-> 0, bound |-> bound, part |-> part]
    <3>1. e.name = name /\ e.part = part
      OBVIOUS
    <3>2. OneMore(open, open', e)
      BY <2>3 DEF Begins
    <3> HIDE DEF e
    <3> QED
      BY <1>1, <1>5, <2>1, <3>1, <3>2, MoreIs, MatchesAre
  <2> QED
    BY <2>2, <2>3
<1>7. ASSUME "ProbeMatch" \in AroundOf(open')
      PROVE  "ProbeMatch" \in memory'.inside /\ MatchIsOwn(memory', CurrentOf(open'))
  <2>1. CASE name = "ProbeMatch"
    <3>1. CurrentOf(open') = part /\ part = parts + 1
      BY <1>5, <1>6, <1>7, <2>1 DEF Begins, IsPart
    <3>2. \A i \in 1 .. Len(memory.list) : memory.list[i].type.part # part
      BY <1>1, <3>1 DEF ProbeHolds, IsOwn
    <3>3. OfPart(<<>>, part)
      BY EmptyIsList, TextGrows
    <3> QED
      BY <1>3, <2>1, <3>1, <3>2, <3>3 DEF MatchIsOwn
  <2>2. CASE name # "ProbeMatch"
    <3>1. "ProbeMatch" \in AroundOf(open) /\ CurrentOf(open') = CurrentOf(open)
      BY <1>4, <1>6, <1>7, <2>2 DEF Begins, IsPart
    <3>2. "ProbeMatch" \in memory.inside /\ MatchIsOwn(memory, CurrentOf(open))
      BY <1>1, <3>1 DEF ProbeHolds
    <3> QED
      BY <1>3, <2>2, <3>1, <3>2 DEF MatchIsOwn
  <2> QED
    BY <2>1, <2>2
<1>8. memory'.scan => ReadInPlace(memory'.namespace, empties')
  BY <1>1, <1>3 DEF ProbeHolds, ReadInPlace
<1>9. \A i \in 1 .. Len(memory'.list) : IsOwn(memory'.list[i], parts', empties')
  BY <1>1, <1>3, StaysOwn DEF ProbeHolds
<1>10. Distinct(memory'.list)
  BY <1>1, <1>3 DEF ProbeHolds
<1> QED
  BY <1>6, <1>7, <1>8, <1>9, <1>10 DEF ProbeHolds

\* A text of this document says where it stands.
LEMMA TextInPlace ==
  ASSUME Sound, Scoped, NEW piece, TextIs(piece), Direct(message), memory.field # "none"
  PROVE  ReadInPlace(piece, empties)
<1>1. Len(open) \in Nat \ {0}
  BY EmptyIsList DEF TextIs, Sound, IsList
<1>2. ~empties => Len(scopes) = Len(open) /\ scopes[Len(open)] = open[Len(open)].bound
  BY <1>1 DEF Scoped, TextIs
<1> QED
  BY <1>2 DEF ReadInPlace, TextIs

LEMMA ProbeRead ==
  ASSUME Sound, Scoped, ProbeInv, message = "probe", NEW piece, TextIs(piece), ~memory'.thrown
  PROVE  ProbeHolds(memory', open', parts', empties')
<1>1. /\ Ready("probe", memory) /\ ProbeHolds(memory, open, parts, empties) /\ IsList(open)
      /\ parts' = parts /\ empties' = empties /\ piece.part = CurrentOf(open)
  BY DEF Sound, TextIs, ProbeInv
<1>2. Reads("probe", memory, memory', piece) /\ ProbeReadsAs(memory, memory', piece)
  BY <1>1, ProbeReads DEF TextIs, ReadText
<1>3. /\ memory'.inside = memory.inside /\ memory'.list = memory.list
      /\ \/ memory'.scan = memory.scan /\ memory'.namespace = memory.namespace
         \/ memory.field = "Types" /\ memory'.scan /\ memory'.namespace = piece
  BY <1>2 DEF Reads, ProbeReadsAs
<1>4. OneMatchIn(open') /\ AroundOf(open') = AroundOf(open) /\ CurrentOf(open') = CurrentOf(open)
  BY <1>1, SameIs, MatchesAre DEF TextIs, ProbeHolds
<1>5. ASSUME "ProbeMatch" \in AroundOf(open)
      PROVE  "ProbeMatch" \in memory.inside /\ MatchIsOwn(memory', CurrentOf(open))
  <2>1. "ProbeMatch" \in memory.inside /\ MatchIsOwn(memory, CurrentOf(open))
    BY <1>1, <1>5 DEF ProbeHolds
  <2>2. ASSUME NEW f \in {"Address", "XAddrs"}, OfPart(memory.text[f], CurrentOf(open))
        PROVE  OfPart(memory'.text[f], CurrentOf(open))
    <3>1. f \in Fields
      BY FieldNames
    <3>2. IsList(memory.text[f])
      BY <1>1, <3>1 DEF Ready, IsMemory
    <3>3. OfPart(Append(memory.text[f], piece), CurrentOf(open))
      BY <1>1, <2>2, <3>2, TextGrows
    <3>4. memory'.text[f] = memory.text[f] \/ memory'.text[f] = Append(memory.text[f], piece)
      BY <1>2, <3>1 DEF Reads
    <3> QED
      BY <2>2, <3>3, <3>4
  <2> QED
    BY <1>1, <1>3, <2>1, <2>2 DEF MatchIsOwn
<1>6. memory'.scan => ReadInPlace(memory'.namespace, empties')
  <2>1. memory.field = "Types" => ReadInPlace(piece, empties)
    BY TextInPlace DEF Direct
  <2> QED
    BY <1>1, <1>3, <2>1 DEF ProbeHolds
<1> QED
  BY <1>1, <1>3, <1>4, <1>5, <1>6 DEF ProbeHolds

\* The type of a candidate and where its address comes from.
LEMMA MatchFound ==
  ASSUME Sound, Standing, Nested, message = "probe", ~memory.thrown, ProbeHolds(memory, open, parts, empties),
         "ProbeMatch" \in AroundOf(open), memory.scan, CurrentOf(open) # 0
  PROVE  LET match == [address |-> memory.text["Address"], xaddrs |-> memory.text["XAddrs"],
                       type |-> memory.namespace]
         IN /\ IsOwn(match, parts, empties)
            /\ \A i \in 1 .. Len(memory.list) : memory.list[i].type.part # match.type.part
<1> DEFINE match == [address |-> memory.text["Address"], xaddrs |-> memory.text["XAddrs"],
                     type |-> memory.namespace]
<1>1. /\ match.address = memory.text["Address"] /\ match.xaddrs = memory.text["XAddrs"]
      /\ match.type = memory.namespace
  OBVIOUS
<1> HIDE DEF match
<1>2. /\ MatchIsOwn(memory, CurrentOf(open)) /\ ReadInPlace(memory.namespace, empties)
      /\ match.type.part = CurrentOf(open)
  BY <1>1 DEF ProbeHolds, MatchIsOwn
<1>3. CurrentOf(open) \in 0 .. parts
  BY DEF CurrentOf, Sound, IsEntry, IsList
<1>4. ~empties =>
        /\ StandsIn(match.address, {"EndpointReference", "Address"})
        /\ StandsIn(match.xaddrs, {"XAddrs"})
  <2>1. {"Address", "XAddrs"} \subseteq Fields \ {"field_value"}
    BY FieldNames
  <2>2. /\ Needs("probe", "Address") = {"EndpointReference", "Address"}
        /\ Needs("probe", "XAddrs") = {"XAddrs"}
    BY DEF Needs
  <2>3. ~empties =>
          \A f \in {"Address", "XAddrs"} : StandsIn(memory.text[f], Needs("probe", f))
    BY <2>1 DEF Standing, Stands
  <2> QED
    BY <1>1, <2>2, <2>3
<1> QED
  BY <1>1, <1>2, <1>3, <1>4 DEF IsOwn, MatchIsOwn, match

LEMMA ProbeEnds ==
  ASSUME Sound, Standing, Nested, ProbeInv, message = "probe", NEW name, Ends(name), ~memory'.thrown
  PROVE  ProbeHolds(memory', open', parts', empties')
<1>1. /\ Ready("probe", memory) /\ ProbeHolds(memory, open, parts, empties) /\ IsList(open) /\ ~memory.thrown
      /\ parts' = parts /\ empties' = empties /\ OneLess(open, open') /\ name = open[Len(open)].name
  BY DEF Sound, Ends, ProbeInv
<1>2. Closes("probe", memory, memory', name) /\ ProbeClosesAs(memory, memory', name)
  BY <1>1, ProbeCloses DEF Ends, EndOf
<1>3. Len(open) \in Nat \ {0} /\ IsList(memory.list)
  BY <1>1 DEF OneLess, IsList, Ready, IsMemory
<1>4. /\ memory'.text = memory.text /\ memory'.scan = memory.scan /\ memory'.namespace = memory.namespace
      /\ name # "ProbeMatch" => memory'.list = memory.list /\ ("ProbeMatch" \in memory.inside => "ProbeMatch" \in memory'.inside)
  BY <1>2 DEF ProbeClosesAs
<1>5. OneMatchIn(open') /\ (name = "ProbeMatch" => "ProbeMatch" \notin AroundOf(open'))
  BY <1>1, MatchesAre DEF ProbeHolds
<1>6. memory'.scan => ReadInPlace(memory'.namespace, empties')
  BY <1>1, <1>4 DEF ProbeHolds
<1>7. CASE name # "ProbeMatch"
  <2>1. name # "Hosted"
    BY <1>1, <1>3, PartNames DEF Sound, IsEntry
  <2>2. AroundOf(open') \subseteq AroundOf(open) /\ CurrentOf(open') = CurrentOf(open)
    BY <1>1, <1>7, <2>1, LessIs DEF Nested, IsPart
  <2> QED
    BY <1>1, <1>4, <1>5, <1>6, <1>7, <2>2 DEF ProbeHolds, MatchIsOwn
<1>8. CASE name = "ProbeMatch"
  <2> DEFINE match == [address |-> memory.text["Address"], xaddrs |-> memory.text["XAddrs"],
                       type |-> memory.namespace]
             longer == Append(memory.list, match)
  <2> HIDE DEF match
  <2>1. memory'.list = memory.list \/ (memory.scan /\ memory'.list = longer)
    <3>1. match = [address |-> memory.text["Address"], xaddrs |-> memory.text["XAddrs"],
                   type |-> memory.namespace]
      BY DEF match
    <3> QED
      BY <1>2, <3>1 DEF ProbeClosesAs
  <2>2. CASE memory'.list = memory.list
    BY <1>1, <1>4, <1>5, <1>6, <1>8, <2>2 DEF ProbeHolds
  <2>3. CASE memory.scan /\ memory'.list = longer
    <3>1. "ProbeMatch" \in AroundOf(open) /\ CurrentOf(open) # 0
      <4>1. Len(open) \in 1 .. Len(open) /\ open[Len(open)].name = "ProbeMatch"
        BY <1>1, <1>3, <1>8
      <4>2. "ProbeMatch" \in AroundOf(open)
        BY <4>1 DEF AroundOf
      <4>3. open[Len(open)].part # 0
        BY <4>1 DEF Nested, NestedIn, IsPart
      <4> QED
        BY <1>3, <4>2, <4>3 DEF CurrentOf
    <3>2. /\ IsOwn(match, parts, empties)
          /\ \A i \in 1 .. Len(memory.list) : memory.list[i].type.part # match.type.part
      BY <1>1, <1>8, <2>3, <3>1, MatchFound DEF match
    <3>3. /\ IsList(longer) /\ Len(longer) = Len(memory.list) + 1 /\ longer[Len(memory.list) + 1] = match
          /\ \A i \in 1 .. Len(memory.list) : longer[i] = memory.list[i]
      BY <1>3, AppendIsList
    <3> HIDE DEF longer
    <3>4. \A i \in 1 .. Len(longer) : i \in 1 .. Len(memory.list) \/ i = Len(memory.list) + 1
      BY <1>3, <3>3 DEF IsList
    <3>5. \A i \in 1 .. Len(longer) : IsOwn(longer[i], parts, empties)
      BY <1>1, <3>2, <3>3, <3>4 DEF ProbeHolds
    <3>6. Distinct(longer)
      BY <1>1, <3>2, <3>3, <3>4 DEF ProbeHolds, Distinct
    <3> QED
      BY <1>1, <1>4, <1>5, <1>6, <1>8, <2>3, <3>5, <3>6 DEF ProbeHolds
  <2> QED
    BY <2>1, <2>2, <2>3
<1> QED
  BY <1>7, <1>8

LEMMA ProbeStep ==
  ASSUME Sound, Standing, Scoped, Nested, ProbeInv, DocumentNext
  PROVE  ProbeInv'
<1>1. message' = message
  BY StepsAre DEF Begins, TextIs, Ends, Restarts
<1> SUFFICES ASSUME message = "probe", ~memory'.thrown
             PROVE  ProbeHolds(memory', open', parts', empties')
  BY <1>1 DEF ProbeInv
<1>2. ASSUME Restarts PROVE ProbeHolds(memory', open', parts', empties')
  <2>1. open' = <<>> /\ memory' = EmptyMemory
    BY <1>2 DEF Restarts
  <2>2. OneMatchIn(<<>>) /\ AroundOf(<<>>) = {} /\ Distinct(<<>>)
    BY EmptyIsList DEF OneMatchIn, AroundOf, Distinct
  <2>3. ~EmptyMemory.scan /\ EmptyMemory.list = <<>>
    BY DEF EmptyMemory
  <2>4. ProbeHolds(EmptyMemory, <<>>, parts', empties')
    BY <2>2, <2>3, EmptyIsList DEF ProbeHolds
  <2> HIDE DEF EmptyMemory
  <2> QED
    BY <2>1, <2>4
<1> QED
  BY <1>2, StepsAre, ProbeBegin, ProbeRead, ProbeEnds

\* What the decoder has of the hosted service that is open.
ServiceOf(m, part) == OfPart(m.text["Address"], part) /\ OfPart(m.list, part)

MetadataHolds(m, list, some) ==
  /\ m.field \in {"Address", "Types"} => "Hosted" \in m.inside
  /\ "Hosted" \in m.inside => ServiceOf(m, CurrentOf(list))
  /\ "Hosted" \notin m.inside => m.text["ServiceAddress"] # <<>> \/ ~m.scan \/ m.list = <<>>
  /\ \A i \in 1 .. Len(m.list) : ReadInPlace(m.list[i], some)
  /\ m.namespace.resolved \in ScanNamespaces =>
       /\ m.namespace.part # 0 /\ ReadInPlace(m.namespace, some)
       /\ OfPart(m.text["ServiceAddress"], m.namespace.part)

MetadataInv == message = "metadata" /\ ~memory.thrown => MetadataHolds(memory, open, empties)

LEMMA MetadataBegin ==
  ASSUME Sound, MetadataInv, message = "metadata",
         NEW name, NEW bound, NEW part, NEW empty \in BOOLEAN, Begins(name, bound, part, empty), ~memory'.thrown
  PROVE  MetadataHolds(memory', open', empties')
<1>1. Ready("metadata", memory) /\ MetadataHolds(memory, open, empties) /\ IsList(open) /\ (~empties' => ~empties)
  BY DEF Sound, Begins, MetadataInv
<1>2. /\ memory'.namespace = memory.namespace
      /\ memory'.text["ServiceAddress"] = memory.text["ServiceAddress"]
      /\ "Hosted" \in memory.inside => "Hosted" \in memory'.inside
      /\ memory'.field \in {"Address", "Types"} => memory'.field = memory.field \/ "Hosted" \in memory.inside
      /\ name = "Hosted" =>
           /\ "Hosted" \in memory'.inside /\ ~memory'.scan
           /\ memory'.list = <<>> /\ memory'.text["Address"] = <<>>
      /\ name # "Hosted" =>
           /\ memory'.list = memory.list /\ memory'.scan = memory.scan /\ memory'.text = memory.text
           /\ "Hosted" \in memory'.inside => "Hosted" \in memory.inside
  <2>1. MetadataOpensAs(memory, memory', name)
    BY <1>1, MetadataOpens DEF Begins, Element
  <2> QED
    BY <2>1 DEF MetadataOpensAs
<1>3. name # "Hosted" => CurrentOf(open') = CurrentOf(open)
  <2>1. name # "Hosted" => ~IsPart(name)
    BY PartNames DEF Begins, IsPart
  <2>2. CASE empty
    BY <1>1, <2>2, SameIs DEF Begins
  <2>3. CASE ~empty
    <3> DEFINE e == [name |-> name, content |-> 0, bound |-> bound, part |-> part]
    <3>1. e.part = part
      OBVIOUS
    <3>2. OneMore(open, open', e)
      BY <2>3 DEF Begins
    <3> HIDE DEF e
    <3> QED
      BY <1>1, <2>1, <3>1, <3>2, MoreIs DEF Begins
  <2> QED
    BY <2>2, <2>3
<1>4. "Hosted" \in memory'.inside => ServiceOf(memory', CurrentOf(open'))
  <2>1. CASE name = "Hosted"
    <3>1. \A p : OfPart(<<>>, p)
      BY EmptyIsList, TextGrows
    <3> QED
      BY <1>2, <2>1, <3>1 DEF ServiceOf
  <2>2. CASE name # "Hosted"
    BY <1>1, <1>2, <1>3, <2>2 DEF MetadataHolds, ServiceOf
  <2> QED
    BY <2>1, <2>2
<1>5. \A i \in 1 .. Len(memory'.list) : ReadInPlace(memory'.list[i], empties')
  BY <1>1, <1>2, EmptyIsList DEF MetadataHolds, ReadInPlace
<1>6. "Hosted" \notin memory'.inside =>
         memory'.text["ServiceAddress"] # <<>> \/ ~memory'.scan \/ memory'.list = <<>>
  BY <1>1, <1>2 DEF MetadataHolds
<1>7. memory'.namespace.resolved \in ScanNamespaces =>
        /\ memory'.namespace.part # 0 /\ ReadInPlace(memory'.namespace, empties')
        /\ OfPart(memory'.text["ServiceAddress"], memory'.namespace.part)
  BY <1>1, <1>2 DEF MetadataHolds, ReadInPlace
<1>8. memory'.field \in {"Address", "Types"} => "Hosted" \in memory'.inside
  BY <1>1, <1>2 DEF MetadataHolds
<1> QED
  BY <1>4, <1>5, <1>6, <1>7, <1>8 DEF MetadataHolds

LEMMA MetadataRead ==
  ASSUME Sound, Scoped, MetadataInv, message = "metadata", NEW piece, TextIs(piece), ~memory'.thrown
  PROVE  MetadataHolds(memory', open', empties')
<1>1. /\ Ready("metadata", memory) /\ MetadataHolds(memory, open, empties) /\ IsList(open)
      /\ empties' = empties /\ piece.part = CurrentOf(open)
  BY DEF Sound, TextIs, MetadataInv
<1>2. Reads("metadata", memory, memory', piece) /\ MetadataReadsAs(memory, memory', piece)
  BY <1>1, MetadataReads DEF TextIs, ReadText
<1>3. /\ memory'.inside = memory.inside /\ memory'.field = memory.field /\ memory'.namespace = memory.namespace
      /\ \/ memory'.list = memory.list /\ memory'.scan = memory.scan
         \/ memory.field = "Types" /\ memory'.list = <<piece>>
  BY <1>2 DEF Reads, MetadataReadsAs
<1>4. CurrentOf(open') = CurrentOf(open)
  BY <1>1, SameIs DEF TextIs
<1>5. memory'.text["ServiceAddress"] = memory.text["ServiceAddress"]
  <2>1. "ServiceAddress" \in Fields /\ "ServiceAddress" \notin Asked("metadata") \cup {"none", "field_value"}
    BY FieldNames DEF Asked
  <2> QED
    BY <1>1, <1>2, <2>1 DEF Reads, Ready
<1>6. Len(<<piece>>) = 1 /\ <<piece>>[1] = piece /\ DOMAIN <<piece>> = 1 .. 1
  OBVIOUS
<1>7. ASSUME "Hosted" \in memory.inside PROVE ServiceOf(memory', CurrentOf(open))
  <2>1. ServiceOf(memory, CurrentOf(open))
    BY <1>1, <1>7 DEF MetadataHolds
  <2>2. OfPart(memory'.text["Address"], CurrentOf(open))
    <3>1. "Address" \in Fields
      BY FieldNames
    <3>2. IsList(memory.text["Address"])
      BY <1>1, <3>1 DEF Ready, IsMemory
    <3>3. OfPart(Append(memory.text["Address"], piece), CurrentOf(open))
      BY <1>1, <2>1, <3>2, TextGrows DEF ServiceOf
    <3>4. \/ memory'.text["Address"] = memory.text["Address"]
          \/ memory'.text["Address"] = Append(memory.text["Address"], piece)
      BY <1>2, <3>1 DEF Reads
    <3> QED
      BY <2>1, <3>3, <3>4 DEF ServiceOf
  <2>3. OfPart(<<piece>>, CurrentOf(open))
    BY <1>1, <1>6 DEF OfPart
  <2> QED
    BY <1>3, <2>1, <2>2, <2>3 DEF ServiceOf
<1>8. \A i \in 1 .. Len(memory'.list) : ReadInPlace(memory'.list[i], empties')
  <2>1. memory.field = "Types" => ReadInPlace(piece, empties)
    BY TextInPlace DEF Direct
  <2>2. CASE memory'.list = memory.list
    BY <1>1, <2>2 DEF MetadataHolds
  <2>3. CASE memory.field = "Types" /\ memory'.list = <<piece>>
    <3>1. \A i \in 1 .. 1 : i = 1
      OBVIOUS
    <3> QED
      BY <1>1, <1>6, <2>1, <2>3, <3>1
  <2> QED
    BY <1>3, <2>2, <2>3
<1>9. "Hosted" \notin memory'.inside =>
         memory'.text["ServiceAddress"] # <<>> \/ ~memory'.scan \/ memory'.list = <<>>
  <2>1. "Hosted" \notin memory.inside => memory.field # "Types"
    BY <1>1 DEF MetadataHolds
  <2> QED
    BY <1>1, <1>3, <1>5, <2>1 DEF MetadataHolds
<1> QED
  BY <1>1, <1>3, <1>4, <1>5, <1>7, <1>8, <1>9 DEF MetadataHolds

LEMMA MetadataEnds ==
  ASSUME Sound, Nested, MetadataInv, message = "metadata", NEW name, Ends(name), ~memory'.thrown
  PROVE  MetadataHolds(memory', open', empties')
<1>1. /\ Ready("metadata", memory) /\ MetadataHolds(memory, open, empties) /\ IsList(open)
      /\ empties' = empties /\ OneLess(open, open') /\ name = open[Len(open)].name
  BY DEF Sound, Ends, MetadataInv
<1>2. MetadataClosesAs(memory, memory', name)
  BY <1>1, MetadataCloses DEF Ends, EndOf
<1>3. Len(open) \in Nat \ {0} /\ IsList(memory.list)
  BY <1>1 DEF OneLess, IsList, Ready, IsMemory
<1>4. /\ memory'.field = "none"
      /\ name = "Hosted" => "Hosted" \notin memory'.inside
      /\ name # "Hosted" => ("Hosted" \in memory'.inside <=> "Hosted" \in memory.inside)
  BY <1>2 DEF MetadataClosesAs
<1>5. CASE /\ memory'.text = memory.text /\ memory'.list = memory.list /\ memory'.scan = memory.scan
           /\ memory'.namespace = memory.namespace
           /\ name = "Hosted" => ~memory.scan \/ memory.text["ServiceAddress"] # <<>>
  <2>1. name # "Hosted" => CurrentOf(open') = CurrentOf(open)
    <3>1. name # "ProbeMatch"
      BY <1>1, <1>3, PartNames DEF Sound, IsEntry
    <3> QED
      BY <1>1, <3>1, LessIs DEF Nested, IsPart
  <2>2. "Hosted" \in memory'.inside => ServiceOf(memory', CurrentOf(open'))
    BY <1>1, <1>4, <1>5, <2>1 DEF MetadataHolds, ServiceOf
  <2>3. "Hosted" \notin memory'.inside =>
           memory'.text["ServiceAddress"] # <<>> \/ ~memory'.scan \/ memory'.list = <<>>
    BY <1>1, <1>4, <1>5 DEF MetadataHolds
  <2> QED
    BY <1>1, <1>4, <1>5, <2>2, <2>3 DEF MetadataHolds
<1>6. CASE /\ name = "Hosted" /\ memory.scan /\ memory.text["ServiceAddress"] = <<>>
           /\ memory'.text["ServiceAddress"] = memory.text["Address"] /\ memory'.list = <<>>
           /\ memory'.namespace = IF memory.list = <<>> THEN NoPiece ELSE memory.list[1]
  <2>1. Len(memory'.list) = 0
    BY <1>6, EmptyIsList
  <2>2. ASSUME memory'.namespace.resolved \in ScanNamespaces
        PROVE  /\ memory'.namespace.part # 0 /\ ReadInPlace(memory'.namespace, empties)
               /\ OfPart(memory'.text["ServiceAddress"], memory'.namespace.part)
    <3>1. NoPiece.resolved \notin ScanNamespaces
      BY DEF NoPiece, ScanNamespaces
    <3>2. memory.list # <<>> /\ memory'.namespace = memory.list[1]
      BY <1>6, <2>2, <3>1
    <3>3. "Hosted" \in memory.inside /\ ServiceOf(memory, CurrentOf(open))
      BY <1>1, <1>6, <3>2 DEF MetadataHolds
    <3>4. Len(memory.list) # 0 /\ 1 \in 1 .. Len(memory.list) /\ DOMAIN memory.list = 1 .. Len(memory.list)
      BY <1>3, <3>2 DEF IsList
    <3>5. CurrentOf(open) # 0
      <4>1. Len(open) \in 1 .. Len(open) /\ open[Len(open)].name = "Hosted"
        BY <1>1, <1>3, <1>6
      <4>2. open[Len(open)].part # 0
        BY <4>1 DEF Nested, NestedIn, IsPart
      <4> QED
        BY <1>3, <4>2 DEF CurrentOf
    <3>6. memory.list[1].part = CurrentOf(open) /\ ReadInPlace(memory.list[1], empties)
      BY <1>1, <3>3, <3>4 DEF ServiceOf, OfPart, MetadataHolds
    <3> QED
      BY <1>6, <3>2, <3>3, <3>5, <3>6 DEF ServiceOf
  <2> QED
    BY <1>1, <1>4, <1>6, <2>1, <2>2 DEF MetadataHolds
<1> QED
  BY <1>2, <1>5, <1>6, Zenon DEF MetadataClosesAs

LEMMA MetadataStep ==
  ASSUME Sound, Scoped, Nested, MetadataInv, DocumentNext
  PROVE  MetadataInv'
<1>1. message' = message
  BY StepsAre DEF Begins, TextIs, Ends, Restarts
<1> SUFFICES ASSUME message = "metadata", ~memory'.thrown
             PROVE  MetadataHolds(memory', open', empties')
  BY <1>1 DEF MetadataInv
<1>2. ASSUME Restarts PROVE MetadataHolds(memory', open', empties')
  <2>1. memory' = EmptyMemory
    BY <1>2 DEF Restarts
  <2>2. /\ EmptyMemory.inside = {} /\ EmptyMemory.list = <<>> /\ EmptyMemory.field = "none"
        /\ EmptyMemory.namespace.resolved \notin ScanNamespaces
    BY DEF EmptyMemory, NoPiece, ScanNamespaces
  <2>3. MetadataHolds(EmptyMemory, open', empties')
    BY <2>2, EmptyIsList DEF MetadataHolds
  <2> HIDE DEF EmptyMemory
  <2> QED
    BY <2>1, <2>3
<1> QED
  BY <1>2, StepsAre, MetadataBegin, MetadataRead, MetadataEnds

\* The children that a fault gives to an element.
FaultChildren(name) ==
  IF name = "Envelope" THEN {"Fault"}
  ELSE IF name = "Fault" THEN {"Code", "Reason"}
  ELSE IF name \in {"Code", "Subcode"} THEN {"Value", "Subcode"}
  ELSE IF name = "Reason" THEN {"Text"}
  ELSE {}

LEMMA PairIs ==
  ASSUME NEW a, NEW b
  PROVE  ToSet(<<a>>) = {a} /\ ToSet(<<a, b>>) = {a, b} /\ ToSet(<<>>) = {}
<1>1. DOMAIN <<a>> = {1} /\ DOMAIN <<a, b>> = {1, 2} /\ DOMAIN <<>> = {}
  OBVIOUS
<1>2. <<a>>[1] = a /\ <<a, b>>[1] = a /\ <<a, b>>[2] = b
  OBVIOUS
<1> DEFINE one == <<a>>
           two == <<a, b>>
<1>3. /\ ToSet(one) = {one[i] : i \in DOMAIN one}
      /\ ToSet(two) = {two[i] : i \in DOMAIN two}
      /\ ToSet(<<>>) = {<<>>[i] : i \in DOMAIN <<>>}
  BY DEF ToSet
<1>4. /\ DOMAIN one = {1} /\ DOMAIN two = {1, 2}
      /\ one[1] = a /\ two[1] = a /\ two[2] = b
  BY <1>1, <1>2
<1> HIDE DEF one, two
<1>5. ToSet(one) = {a} /\ ToSet(two) = {a, b} /\ ToSet(<<>>) = {}
  BY <1>1, <1>3, <1>4
<1> QED
  BY <1>5 DEF one, two

LEMMA FaultSchema ==
  ASSUME message = "fault", NEW name
  PROVE  /\ DOMAIN Children(name) \subseteq Nat /\ ToSet(Children(name)) = FaultChildren(name)
         /\ name \in {"Code", "Subcode"} => Children(name) = <<"Value", "Subcode">>
<1> DEFINE fault ==
     [Envelope |-> <<"Fault">>,
      Fault |-> <<"Code", "Reason">>,
      Code |-> <<"Value", "Subcode">>,
      Subcode |-> <<"Value", "Subcode">>,
      Reason |-> <<"Text">>]
<1>1. Schema[message] = fault
  BY DEF Schema
<1>2. Children(name) = IF name \in DOMAIN fault THEN fault[name] ELSE <<>>
  BY <1>1 DEF Children
<1>3. CASE name \in {"Code", "Subcode"}
  <2>1. Children(name) = <<"Value", "Subcode">>
    BY <1>2, <1>3
  <2>2. ToSet(<<"Value", "Subcode">>) = {"Value", "Subcode"}
    BY PairIs, Zenon
  <2>4. DOMAIN <<"Value", "Subcode">> \subseteq Nat
    OBVIOUS
  <2>3. FaultChildren(name) = {"Value", "Subcode"}
    BY <1>3 DEF FaultChildren
  <2> QED
    BY <1>3, <2>1, <2>2, <2>3, <2>4
<1>4. CASE name = "Fault"
  <2>1. Children(name) = <<"Code", "Reason">>
    BY <1>2, <1>4
  <2>2. ToSet(<<"Code", "Reason">>) = {"Code", "Reason"}
    BY PairIs, Zenon
  <2>4. DOMAIN <<"Code", "Reason">> \subseteq Nat
    OBVIOUS
  <2>3. FaultChildren(name) = {"Code", "Reason"}
    BY <1>4 DEF FaultChildren
  <2> QED
    BY <1>4, <2>1, <2>2, <2>3, <2>4
<1>5. CASE name = "Envelope"
  <2>1. Children(name) = <<"Fault">>
    BY <1>2, <1>5
  <2>2. ToSet(<<"Fault">>) = {"Fault"}
    BY PairIs, Zenon
  <2>4. DOMAIN <<"Fault">> \subseteq Nat
    OBVIOUS
  <2>3. FaultChildren(name) = {"Fault"}
    BY <1>5 DEF FaultChildren
  <2> QED
    BY <1>5, <2>1, <2>2, <2>3, <2>4
<1>6. CASE name = "Reason"
  <2>1. Children(name) = <<"Text">>
    BY <1>2, <1>6
  <2>2. ToSet(<<"Text">>) = {"Text"}
    BY PairIs, Zenon
  <2>4. DOMAIN <<"Text">> \subseteq Nat
    OBVIOUS
  <2>3. FaultChildren(name) = {"Text"}
    BY <1>6 DEF FaultChildren
  <2> QED
    BY <1>6, <2>1, <2>2, <2>3, <2>4
<1>7. CASE name \notin {"Code", "Subcode", "Fault", "Envelope", "Reason"}
  <2>1. Children(name) = <<>>
    BY <1>2, <1>7
  <2>2. ToSet(<<>>) = {}
    BY PairIs, Zenon
  <2>4. DOMAIN <<>> \subseteq Nat
    OBVIOUS
  <2>3. FaultChildren(name) = {}
    BY <1>7 DEF FaultChildren
  <2> QED
    BY <1>7, <2>1, <2>2, <2>3, <2>4
<1> QED
  BY <1>3, <1>4, <1>5, <1>6, <1>7

LEMMA PlaceIs ==
  ASSUME message = "fault", NEW name
  PROVE  LET over == Last(open).name IN
         /\ Place(name) \in Nat /\ (Place(name) # 0 => name \in FaultChildren(over))
         /\ over \in {"Code", "Subcode"} /\ name = "Value" => Place(name) = 1
         /\ over \in {"Code", "Subcode"} /\ name = "Subcode" => Place(name) = 2
<1> DEFINE over == Last(open).name
           children == Children(over)
<1>1. Place(name) = IF name \in ToSet(children) THEN CHOOSE i \in DOMAIN children : children[i] = name ELSE 0
  BY Zenon DEF Place
<1>2. /\ DOMAIN children \subseteq Nat /\ ToSet(children) = FaultChildren(over)
      /\ over \in {"Code", "Subcode"} => children = <<"Value", "Subcode">>
  BY FaultSchema
<1> HIDE DEF children, over
<1>3. Place(name) \in Nat /\ (Place(name) # 0 => name \in FaultChildren(over))
  <2>1. CASE name \in ToSet(children)
    <3>1. \E i \in DOMAIN children : children[i] = name
      BY <2>1 DEF ToSet
    <3>2. (CHOOSE i \in DOMAIN children : children[i] = name) \in DOMAIN children
      BY <3>1
    <3> QED
      BY <1>1, <1>2, <2>1, <3>2
  <2>2. CASE name \notin ToSet(children)
    BY <1>1, <2>2
  <2> QED
    BY <2>1, <2>2
<1>4. ASSUME over \in {"Code", "Subcode"}, name \in {"Value", "Subcode"}
      PROVE  Place(name) = IF name = "Value" THEN 1 ELSE 2
  <2>1. children = <<"Value", "Subcode">>
    BY <1>2, <1>4
  <2>2. DOMAIN children = {1, 2} /\ children[1] = "Value" /\ children[2] = "Subcode"
    BY <2>1
  <2>3. name \in ToSet(children)
    BY <1>4, <2>2 DEF ToSet
  <2>4. \A i \in DOMAIN children : children[i] = name <=> i = IF name = "Value" THEN 1 ELSE 2
    BY <1>4, <2>2
  <2>5. (CHOOSE i \in DOMAIN children : children[i] = name) = IF name = "Value" THEN 1 ELSE 2
    BY <1>4, <2>2, <2>4
  <2> QED
    BY <1>1, <2>3, <2>5
<1> QED
  BY <1>3, <1>4 DEF over

\* An element of a fault: what is noted stays so, and a value is one of the innermost code.
FaultOpensAs(m, n, name) ==
  /\ m.inside \subseteq n.inside
  /\ name = "Fault" \/ (name = "Code" /\ "Fault" \in m.inside) \/ (name = "Subcode" /\ "Code" \in m.inside) =>
       name \in n.inside
  /\ \A f \in Fields \ {"field_value"} : n.text[f] = m.text[f]
  /\ name \notin {"Value", "Text"} => n.field = m.field /\ n.text = m.text
  /\ name = "Value" =>
       /\ n.field = IF "Subcode" \in m.inside THEN "Subcode" ELSE "Code"
       /\ n.text["field_value"] = <<>>
  /\ name = "Text" => n.field \in {m.field, "Reason"}

FaultClosesAs(m, n, name) ==
  n.thrown \/
    /\ m.inside \subseteq n.inside \cup {name}
    /\ m.field # "none" /\ name = (IF m.field = "Reason" THEN "Text" ELSE "Value") => n.field = "none"

LEMMA FaultOpensSo ==
  ASSUME NEW m, Ready("fault", m), NEW name
  PROVE  FaultOpensAs(m, FaultElement(m, name), name)
<1>1. CASE FaultElement(m, name) = CollectsAnew(m, "Reason") /\ name = "Text"
  <2>1. "Reason" \in Fields /\ IsMemory(m)
    BY FieldNames DEF Ready
  <2> DEFINE n == CollectsAnew(m, "Reason")
  <2>2. /\ n.field = "Reason" /\ n.inside = m.inside
        /\ \A f \in Fields \ {"field_value"} : n.text[f] = m.text[f]
    BY <2>1, CollectsAnewIs
  <2> HIDE DEF n
  <2>3. FaultOpensAs(m, n, name)
    BY <1>1, <2>2 DEF FaultOpensAs
  <2> QED
    BY <1>1, <2>3 DEF n
<1>2. CASE /\ name = "Value"
           /\ FaultElement(m, name) = CollectsAnew(m, IF "Subcode" \in m.inside THEN "Subcode" ELSE "Code")
  <2> DEFINE field == IF "Subcode" \in m.inside THEN "Subcode" ELSE "Code"
             n == CollectsAnew(m, field)
  <2>1. field \in Fields /\ IsMemory(m)
    BY FieldNames DEF Ready
  <2>2. field = IF "Subcode" \in m.inside THEN "Subcode" ELSE "Code"
    OBVIOUS
  <2> HIDE DEF field
  <2>3. /\ n.field = field /\ n.inside = m.inside /\ n.text["field_value"] = <<>>
        /\ \A f \in Fields \ {"field_value"} : n.text[f] = m.text[f]
    BY <2>1, CollectsAnewIs
  <2> HIDE DEF n
  <2>4. FaultOpensAs(m, n, name)
    BY <1>2, <2>2, <2>3 DEF FaultOpensAs
  <2> QED
    BY <1>2, <2>4 DEF n, field
<1>3. CASE FaultElement(m, name) = Enters(m, name) /\ name \in Noted("fault")
  <2> DEFINE n == Enters(m, name)
  <2>1. Keeps(m, n, m.field, m.list, m.scan, m.namespace) /\ n.inside = m.inside \cup {name} /\ n.text = m.text
    BY EntersIs DEF Ready
  <2> HIDE DEF n
  <2>2. name \notin {"Value", "Text"}
    BY <1>3 DEF Noted
  <2>3. FaultOpensAs(m, n, name)
    BY <2>1, <2>2 DEF FaultOpensAs, Keeps
  <2> QED
    BY <1>3, <2>3 DEF n
<1>4. CASE /\ FaultElement(m, name) = m /\ name # "Value" /\ name # "Fault"
           /\ ~(name = "Code" /\ "Fault" \in m.inside) /\ ~(name = "Subcode" /\ "Code" \in m.inside)
  BY <1>4 DEF FaultOpensAs
<1>5. \/ /\ FaultElement(m, name) = m /\ name # "Value" /\ name # "Fault"
         /\ ~(name = "Code" /\ "Fault" \in m.inside) /\ ~(name = "Subcode" /\ "Code" \in m.inside)
      \/ name \in Noted("fault") /\ FaultElement(m, name) = Enters(m, name)
      \/ /\ name = "Value"
         /\ FaultElement(m, name) = CollectsAnew(m, IF "Subcode" \in m.inside THEN "Subcode" ELSE "Code")
      \/ name = "Text" /\ FaultElement(m, name) = CollectsAnew(m, "Reason")
  <2>1. Noted("fault") = {"Fault", "Code", "Reason", "Subcode"}
    BY DEF Noted
  <2> QED
    BY <2>1, Zenon DEF FaultElement
<1> QED
  BY <1>1, <1>2, <1>3, <1>4, <1>5

LEMMA FaultClosesSo ==
  ASSUME NEW m, Ready("fault", m), NEW name
  PROVE  FaultClosesAs(m, FaultEnd(m, name), name)
<1> DEFINE own == IF m.field = "Reason" THEN "Text" ELSE "Value"
<1>1. CASE FaultEnd(m, name) = Stores(m) /\ name \notin Noted("fault") /\ m.field # "none"
  <2>1. ~Direct("fault")
    BY DEF Direct
  <2>2. Stores(m).thrown \/ (Stores(m).field = "none" /\ Stores(m).inside = m.inside)
    BY <1>1, <2>1, StoredCloses
  <2> QED
    BY <1>1, <2>2 DEF FaultClosesAs
<1>2. CASE FaultEnd(m, name) = Leaves(m, name) /\ name \in Noted("fault")
  <2>1. Leaves(m, name).inside = m.inside \ {name}
    BY LeavesIs DEF Ready
  <2>2. name \notin {"Value", "Text"}
    BY <1>2 DEF Noted
  <2> QED
    BY <1>2, <2>1, <2>2 DEF FaultClosesAs
<1>3. CASE FaultEnd(m, name) = m /\ ~(m.field # "none" /\ name = own)
  BY <1>3 DEF FaultClosesAs
<1>4. \/ FaultEnd(m, name) = m /\ ~(m.field # "none" /\ name = own)
      \/ FaultEnd(m, name) = Stores(m) /\ name \notin Noted("fault") /\ m.field # "none"
      \/ FaultEnd(m, name) = Leaves(m, name) /\ name \in Noted("fault")
  <2> DEFINE ended == IF m.field # "none" /\ name = own THEN Stores(m) ELSE m
  <2>1. FaultEnd(m, name) = IF name \in {"Subcode", "Code", "Reason", "Fault"} THEN Leaves(ended, name) ELSE ended
    BY Zenon DEF FaultEnd
  <2>2. name \in {"Subcode", "Code", "Reason", "Fault"} => ended = m
    OBVIOUS
  <2>3. \/ ended = m /\ ~(m.field # "none" /\ name = own)
        \/ ended = Stores(m) /\ m.field # "none"
    OBVIOUS
  <2>4. Noted("fault") = {"Fault", "Code", "Reason", "Subcode"}
    BY DEF Noted
  <2> HIDE DEF ended, own
  <2> QED
    BY <2>1, <2>2, <2>3, <2>4, Zenon
<1> QED
  BY <1>1, <1>2, <1>3, <1>4

-----------------------------------------------------------------------------
(* A fault that follows its schema.                                        *)

Parent(piece) == piece.path[Len(piece.path) - 1]

FromElement(text, name) == \A i \in 1 .. Len(text) : Parent(text[i]) = name

\* Where an element stands in a fault.
InFault(list) ==
  /\ \A i \in 1 .. Len(list) :
       /\ list[i].content \in Nat
       /\ list[i].name = "Envelope" => i = 1
       /\ list[i].name = "Fault" => i = 2
       /\ list[i].name = "Code" => i = 3
       /\ list[i].name = "Subcode" => i > 3
  /\ \A i \in 1 .. Len(list) - 1 :
       /\ list[i + 1].name \in FaultChildren(list[i].name)
       /\ list[i + 1].name = "Subcode" => list[i].content >= 2

\* What the decoder has noted of it. A Subcode is forgotten only after the one in it.
NotedFault(m, list) ==
  \A i \in 1 .. Len(list) :
    /\ list[i].name = "Fault" => "Fault" \in m.inside
    /\ list[i].name \in {"Code", "Subcode"} => "Code" \in m.inside
    /\ list[i].name = "Subcode" /\ list[i].content < 2 => "Subcode" \in m.inside

\* The text that it collects is of the innermost element and for the one around it.
CollectsFor(m, list) ==
  m.field # "none" =>
    /\ Len(list) > 1
    /\ list[Len(list)].name = IF m.field = "Reason" THEN "Text" ELSE "Value"
    /\ list[Len(list) - 1].name = m.field

FaultHolds(m, list) ==
  /\ InFault(list) /\ NotedFault(m, list) /\ CollectsFor(m, list)
  /\ m.field \in {"Code", "Subcode"} => FromElement(m.text["field_value"], m.field)
  /\ \A f \in {"Code", "Subcode"} : FromElement(m.text[f], f)

FaultInv ==
  message = "fault" /\ surprises = 0 => ~empties /\ (~memory.thrown => FaultHolds(memory, open))

\* An element begins in the place that the schema has for it.
GrowsBy(list, after, name) ==
  /\ Len(list) > 0 /\ IsList(after) /\ Len(after) = Len(list) + 1
  /\ \A i \in 1 .. Len(list) - 1 : after[i] = list[i]
  /\ after[Len(list)].name = list[Len(list)].name
  /\ after[Len(list)].content \in Nat /\ after[Len(list)].content >= list[Len(list)].content
  /\ after[Len(list) + 1].name = name /\ after[Len(list) + 1].content = 0
  /\ name \in FaultChildren(list[Len(list)].name)
  /\ name = "Subcode" => after[Len(list)].content >= 2
  /\ list[Len(list)].name = "Subcode" /\ name = "Value" => list[Len(list)].content < 2

LEMMA ExpectedCost == \A e \in BOOLEAN : Cost(e) \in {0, 1} /\ (Cost(e) = 0 => e)
  BY DEF Cost

LEMMA FaultGrows ==
  ASSUME Sound, FaultInv, message = "fault", surprises' = 0,
         NEW name \in Names[message], NEW declared, NEW empty \in BOOLEAN, BeginElement(name, declared, empty)
  PROVE  /\ surprises = 0 /\ ~empty /\ ~memory.thrown /\ ~empties
         /\ memory' = FaultElement(memory, name) /\ GrowsBy(open, open', name)
<1> DEFINE top == Last(open)
           place == Place(name)
           fits == \/ place = top.content + 1
                   \/ (place = top.content /\ place # 0 /\ name \in Repeated)
           e == [name |-> name, content |-> 0, part |-> IF name \in {"ProbeMatch", "Hosted"} THEN parts + 1 ELSE top.part,
                 bound |-> IF declared = "none" THEN top.bound ELSE declared]
           revised == [top EXCEPT !.content = IF top.content > place THEN top.content ELSE place]
           around == Append(Front(open), revised)
<1>1. /\ surprises = 0 /\ ~empty /\ fits
  <2> DEFINE a == declared = "none"
             b == ~empty
  <2>1. surprises' = surprises + Cost(a) + Cost(b) + Cost(fits)
    BY Zenon DEF BeginElement
  <2>2. a \in BOOLEAN /\ b \in BOOLEAN /\ fits \in BOOLEAN /\ (b => ~empty)
    OBVIOUS
  <2> HIDE DEF a, b, fits
  <2>3. Cost(a) \in {0, 1} /\ Cost(b) \in {0, 1} /\ Cost(fits) \in {0, 1} /\ surprises \in Nat
    BY <2>2, ExpectedCost DEF Sound
  <2> QED
    BY <2>1, <2>2, <2>3, ExpectedCost
<1>2. open # <<>> /\ ~memory.thrown /\ IsList(open)
  BY DEF BeginElement, Reading, Sound
<1>14. open' = Append(around, e)
  BY <1>1 DEF BeginElement
<1>3. memory' = FaultElement(memory, name)
  BY DEF BeginElement, Element
<1>4. ~empties /\ InFault(open)
  BY <1>1, <1>2 DEF FaultInv, FaultHolds
<1>5. e.name = name /\ e.content = 0
  OBVIOUS
<1> HIDE DEF e
<1>6. /\ Len(open) \in Nat \ {0} /\ top = open[Len(open)]
      /\ IsList(around) /\ Len(around) = Len(open) /\ around[Len(open)] = revised
      /\ \A i \in 1 .. Len(open) - 1 : around[i] = open[i]
  <2> HIDE DEF revised
  <2> QED
    BY <1>2, ReviseIs
<1>7. /\ place \in Nat /\ (place # 0 => name \in FaultChildren(top.name))
      /\ top.name \in {"Code", "Subcode"} /\ name = "Value" => place = 1
      /\ top.name \in {"Code", "Subcode"} /\ name = "Subcode" => place = 2
  BY PlaceIs
<1> HIDE DEF place
<1>8. top.content \in Nat /\ IsElement(top)
  BY <1>4, <1>6 DEF InFault, Sound, IsEntry
<1> HIDE DEF top
<1>9. /\ revised.name = top.name
      /\ revised.content = IF top.content > place THEN top.content ELSE place
  BY <1>8 DEF IsElement
<1> HIDE DEF revised, around
<1>10. /\ name \in FaultChildren(top.name) /\ revised.content \in Nat /\ revised.content >= top.content
       /\ revised.content >= place
       /\ top.name = "Subcode" /\ name = "Value" => top.content < 2
  BY <1>1, <1>7, <1>8, <1>9
<1>11. name = "Subcode" => revised.content >= 2
  <2>1. name = "Subcode" => top.name \in {"Code", "Subcode"}
    BY <1>10 DEF FaultChildren
  <2> QED
    BY <1>7, <1>10, <2>1
<1>12. /\ IsList(open') /\ Len(open') = Len(around) + 1 /\ open'[Len(around) + 1] = e
       /\ \A i \in 1 .. Len(around) : open'[i] = around[i]
  BY <1>6, <1>14, AppendIsList
<1>13. GrowsBy(open, open', name)
  BY <1>5, <1>6, <1>9, <1>10, <1>11, <1>12 DEF GrowsBy
<1> QED
  BY <1>1, <1>2, <1>3, <1>4, <1>13

\* The content of each element only grows.
Swells(list, after) ==
  \A i \in 1 .. Len(list) :
    /\ after[i].name = list[i].name
    /\ after[i].content \in Nat /\ after[i].content >= list[i].content

LEMMA SwellsNoted ==
  ASSUME NEW list, Len(list) \in Nat, InFault(list), NEW after, Swells(list, after), NEW m, NotedFault(m, list)
  PROVE  \A i \in 1 .. Len(list) :
           /\ after[i].content \in Nat
           /\ after[i].name = "Envelope" => i = 1
           /\ after[i].name = "Fault" => i = 2 /\ "Fault" \in m.inside
           /\ after[i].name = "Code" => i = 3
           /\ after[i].name = "Subcode" => i > 3
           /\ after[i].name \in {"Code", "Subcode"} => "Code" \in m.inside
           /\ after[i].name = "Subcode" /\ after[i].content < 2 => "Subcode" \in m.inside
<1> SUFFICES ASSUME NEW i \in 1 .. Len(list)
             PROVE  /\ after[i].content \in Nat
                    /\ after[i].name = "Envelope" => i = 1
                    /\ after[i].name = "Fault" => i = 2 /\ "Fault" \in m.inside
                    /\ after[i].name = "Code" => i = 3
                    /\ after[i].name = "Subcode" => i > 3
                    /\ after[i].name \in {"Code", "Subcode"} => "Code" \in m.inside
                    /\ after[i].name = "Subcode" /\ after[i].content < 2 => "Subcode" \in m.inside
  OBVIOUS
<1>1. /\ after[i].name = list[i].name /\ list[i].content \in Nat
      /\ after[i].content \in Nat /\ after[i].content >= list[i].content
  BY DEF Swells, InFault
<1>2. after[i].content < 2 => list[i].content < 2
  BY <1>1
<1> QED
  BY <1>1, <1>2 DEF InFault, NotedFault

LEMMA SwellsInFault ==
  ASSUME NEW list, Len(list) \in Nat, InFault(list), NEW after, Swells(list, after)
  PROVE  \A i \in 1 .. Len(list) - 1 :
           /\ after[i + 1].name \in FaultChildren(after[i].name)
           /\ after[i + 1].name = "Subcode" => after[i].content >= 2
<1> SUFFICES ASSUME NEW i \in 1 .. Len(list) - 1
             PROVE  /\ after[i + 1].name \in FaultChildren(after[i].name)
                    /\ after[i + 1].name = "Subcode" => after[i].content >= 2
  OBVIOUS
<1>1. i \in 1 .. Len(list) /\ i + 1 \in 1 .. Len(list)
  OBVIOUS
<1>2. /\ after[i].name = list[i].name /\ after[i + 1].name = list[i + 1].name
      /\ after[i].content \in Nat /\ list[i].content \in Nat /\ after[i].content >= list[i].content
  BY <1>1 DEF Swells, InFault
<1>3. /\ list[i + 1].name \in FaultChildren(list[i].name)
      /\ list[i + 1].name = "Subcode" => list[i].content >= 2
  BY DEF InFault
<1> QED
  BY <1>2, <1>3

LEMMA FaultBegin ==
  ASSUME Sound, Standing, FaultInv, message = "fault", surprises = 0, ~memory.thrown, ~empties,
         NEW name, memory' = FaultElement(memory, name), GrowsBy(open, open', name), ~memory'.thrown
  PROVE  FaultHolds(memory', open')
<1> DEFINE n == Len(open)
           over == open[Len(open)].name
<1>1. n \in Nat \ {0} /\ IsList(open) /\ Ready("fault", memory) /\ FaultHolds(memory, open)
  BY DEF Sound, IsList, GrowsBy, FaultInv
<1>2. FaultOpensAs(memory, memory', name)
  BY <1>1, FaultOpensSo
<1>3. Swells(open, open')
  <2>1. \A i \in 1 .. Len(open) : open[i].content \in Nat
    BY <1>1 DEF FaultHolds, InFault
  <2>2. \A i \in 1 .. Len(open) : i \in 1 .. Len(open) - 1 \/ i = Len(open)
    BY <1>1
  <2> QED
    BY <1>1, <2>1, <2>2 DEF Swells, GrowsBy
<1>4. /\ Len(open') = n + 1 /\ open'[n + 1].name = name /\ open'[n + 1].content = 0
      /\ open'[n].name = over /\ name \in FaultChildren(over)
      /\ name = "Subcode" => open'[n].content >= 2
      /\ over = "Subcode" /\ name = "Value" => open[n].content < 2
  BY DEF GrowsBy
<1>5. InFault(open) /\ NotedFault(memory, open) /\ CollectsFor(memory, open)
  BY <1>1 DEF FaultHolds
<1>6. /\ over = "Envelope" => n = 1
      /\ over = "Fault" => n = 2 /\ "Fault" \in memory.inside
      /\ over = "Code" => n = 3 /\ "Code" \in memory.inside
      /\ over = "Subcode" => n > 3 /\ "Code" \in memory.inside
      /\ over = "Subcode" /\ open[n].content < 2 => "Subcode" \in memory.inside
  <2>1. n \in 1 .. Len(open)
    BY <1>1
  <2> QED
    BY <1>5, <2>1 DEF InFault, NotedFault
<1>7. /\ name = "Fault" => over = "Envelope"
      /\ name \in {"Code", "Reason"} => over = "Fault"
      /\ name \in {"Value", "Subcode"} => over \in {"Code", "Subcode"}
      /\ name = "Text" => over = "Reason"
      /\ name \in {"Fault", "Code", "Reason", "Value", "Subcode", "Text"} /\ over \notin {"Value", "Text"}
  BY <1>4 DEF FaultChildren
<1>8. \A i \in 1 .. n + 1 : i \in 1 .. n \/ i = n + 1
  BY <1>1
<1> HIDE DEF over, n
<1>9. InFault(open')
  <2>1. ASSUME NEW i \in 1 .. n + 1
        PROVE  /\ open'[i].content \in Nat
               /\ open'[i].name = "Envelope" => i = 1
               /\ open'[i].name = "Fault" => i = 2
               /\ open'[i].name = "Code" => i = 3
               /\ open'[i].name = "Subcode" => i > 3
    <3>1. CASE i \in 1 .. n
      BY <1>1, <1>3, <1>5, <3>1, SwellsNoted DEF n
    <3>2. CASE i = n + 1
      BY <1>1, <1>4, <1>6, <1>7, <3>2
    <3> QED
      BY <1>8, <3>1, <3>2
  <2>2. ASSUME NEW i \in 1 .. n
        PROVE  /\ open'[i + 1].name \in FaultChildren(open'[i].name)
               /\ open'[i + 1].name = "Subcode" => open'[i].content >= 2
    <3>1. CASE i \in 1 .. n - 1
      BY <1>1, <1>3, <1>5, <3>1, SwellsInFault DEF n
    <3>2. CASE i = n
      BY <1>4, <3>2
    <3> QED
      BY <1>1, <3>1, <3>2
  <2>3. Len(open') - 1 = n
    BY <1>1, <1>4
  <2> QED
    BY <1>4, <2>1, <2>2, <2>3 DEF InFault
<1>10. NotedFault(memory', open')
  <2> SUFFICES ASSUME NEW i \in 1 .. n + 1
               PROVE  /\ open'[i].name = "Fault" => "Fault" \in memory'.inside
                      /\ open'[i].name \in {"Code", "Subcode"} => "Code" \in memory'.inside
                      /\ open'[i].name = "Subcode" /\ open'[i].content < 2 => "Subcode" \in memory'.inside
    BY <1>4 DEF NotedFault
  <2>1. memory.inside \subseteq memory'.inside
    BY <1>2 DEF FaultOpensAs
  <2>2. CASE i \in 1 .. n
    BY <1>1, <1>3, <1>5, <2>1, <2>2, SwellsNoted DEF n
  <2>3. CASE i = n + 1
    <3>1. name = "Fault" \/ (name = "Code" /\ "Fault" \in memory.inside)
             \/ (name = "Subcode" /\ "Code" \in memory.inside) => name \in memory'.inside
      BY <1>2 DEF FaultOpensAs
    <3> QED
      BY <1>4, <1>6, <1>7, <2>1, <2>3, <3>1
  <2> QED
    BY <1>8, <2>2, <2>3
<1>11. memory.field = "none"
  BY <1>5, <1>7 DEF CollectsFor, over
<1>12. /\ name = "Value" => memory'.field = over
       /\ name = "Text" => memory'.field \in {"none", "Reason"}
       /\ name \notin {"Value", "Text"} => memory'.field = "none"
  <2>1. ASSUME name = "Value" PROVE memory'.field = over
    <3>1. memory'.field = IF "Subcode" \in memory.inside THEN "Subcode" ELSE "Code"
      BY <1>2, <2>1 DEF FaultOpensAs
    <3>2. CASE over = "Subcode"
      BY <1>4, <1>6, <2>1, <3>1, <3>2
    <3>3. CASE over = "Code"
      <4>1. n = 3
        BY <1>6, <3>3
      <4>2. "Subcode" \notin AroundOf(open)
        BY <1>5, <4>1 DEF AroundOf, InFault, n
      <4>3. "Subcode" \notin memory.inside
        BY <4>2 DEF Standing, Stands
      <4> QED
        BY <3>1, <3>3, <4>3
    <3> QED
      BY <1>7, <2>1, <3>2, <3>3
  <2> QED
    BY <1>2, <1>11, <2>1 DEF FaultOpensAs
<1>13. CollectsFor(memory', open')
  <2>1. n \in Nat \ {0}
    BY <1>1 DEF n
  <2>2. Len(open') > 1 /\ open'[Len(open')].name = name /\ open'[Len(open') - 1].name = over
    BY <1>4, <2>1
  <2>3. memory'.field # "none" =>
          /\ name = IF memory'.field = "Reason" THEN "Text" ELSE "Value"
          /\ over = memory'.field
    BY <1>7, <1>12
  <2> QED
    BY <2>2, <2>3 DEF CollectsFor
<1>14. memory'.field \in {"Code", "Subcode"} => FromElement(memory'.text["field_value"], memory'.field)
  <2>1. memory'.field \in {"Code", "Subcode"} => name = "Value"
    BY <1>12
  <2>2. name = "Value" => memory'.text["field_value"] = <<>>
    BY <1>2 DEF FaultOpensAs
  <2> QED
    BY <2>1, <2>2, EmptyIsList DEF FromElement
<1>15. \A f \in {"Code", "Subcode"} : FromElement(memory'.text[f], f)
  <2>1. {"Code", "Subcode"} \subseteq Fields \ {"field_value"}
    BY FieldNames
  <2> QED
    BY <1>1, <1>2, <2>1 DEF FaultHolds, FaultOpensAs
<1> QED
  BY <1>9, <1>10, <1>13, <1>14, <1>15 DEF FaultHolds

LEMMA FaultEnvelope ==
  ASSUME Sound, message = "fault", NEW declared, Envelope(declared)
  PROVE  FaultHolds(memory', open')
<1> DEFINE e == [name |-> "Envelope", content |-> 0, bound |-> declared, part |-> 0]
<1>1. memory = EmptyMemory /\ memory' = FaultElement(memory, "Envelope") /\ open' = <<e>>
  BY DEF Envelope, Sound, Element
<1>2. Ready("fault", EmptyMemory)
  BY EmptyStands
<1>3. FaultOpensAs(EmptyMemory, memory', "Envelope")
  BY <1>1, <1>2, FaultOpensSo
<1>4. EmptyMemory.field = "none" /\ \A f \in Fields : EmptyMemory.text[f] = <<>>
  BY DEF EmptyMemory
<1> HIDE DEF EmptyMemory
<1>5. memory'.field = "none" /\ \A f \in {"Code", "Subcode"} : memory'.text[f] = <<>>
  BY <1>3, <1>4, FieldNames DEF FaultOpensAs
<1>6. e.name = "Envelope" /\ e.content = 0 /\ Len(<<e>>) = 1 /\ <<e>>[1] = e
  OBVIOUS
<1> HIDE DEF e
<1>7. /\ Len(open') = 1 /\ \A i \in 1 .. 1 : open'[i].name = "Envelope" /\ open'[i].content = 0 /\ i = 1
      /\ 1 .. (1 - 1) = {}
  BY <1>1, <1>6
<1> QED
  BY <1>5, <1>7, EmptyIsList DEF FaultHolds, InFault, NotedFault, CollectsFor, FromElement

LEMMA FaultRead ==
  ASSUME Sound, FaultInv, message = "fault", surprises' = 0, NEW says, Text(says)
  PROVE  ~empties' /\ (~memory'.thrown => FaultHolds(memory', open'))
<1> DEFINE top == Last(open)
           piece == [says |-> says, path |-> [i \in DOMAIN open |-> open[i].name],
                     part |-> top.part, resolved |-> Last(scopes), bound |-> top.bound]
           revised == [top EXCEPT !.content = IF top.content = 0 THEN 1 ELSE top.content]
<1>1. /\ open # <<>> /\ ~memory.thrown /\ IsList(open) /\ Ready("fault", memory) /\ empties' = empties
  BY DEF Text, Reading, Sound
<1>2. surprises = 0
  BY CostIs DEF Text, Sound
<1>3. ~empties /\ FaultHolds(memory, open)
  BY <1>1, <1>2 DEF FaultInv
<1>4. open' = Append(Front(open), revised)
  BY DEF Text
<1>5. /\ Len(open) \in Nat \ {0} /\ top = open[Len(open)]
      /\ IsList(open') /\ Len(open') = Len(open) /\ open'[Len(open)] = revised
      /\ \A i \in 1 .. Len(open) - 1 : open'[i] = open[i]
  <2> HIDE DEF revised
  <2> QED
    BY <1>1, <1>4, ReviseIs
<1>6. \A i \in 1 .. Len(open) : IsElement(open[i]) /\ open[i].content \in Nat
  BY <1>3 DEF Sound, IsEntry, FaultHolds, InFault
<1>7. revised.name = top.name /\ revised.content \in Nat /\ revised.content >= top.content
  <2>1. IsElement(top) /\ top.content \in Nat
    BY <1>5, <1>6
  <2> HIDE DEF top
  <2> QED
    BY <2>1 DEF IsElement
<1>8. /\ memory' = ReadText(piece)
      /\ DOMAIN open = 1 .. Len(open)
  BY <1>1 DEF Text, IsList
<1>9. Len(piece.path) = Len(open) /\ \A i \in 1 .. Len(open) : piece.path[i] = open[i].name
  BY <1>5, <1>8
<1> HIDE DEF revised, top, piece
<1>10. Swells(open, open')
  <2>1. \A i \in 1 .. Len(open) : i \in 1 .. Len(open) - 1 \/ i = Len(open)
    BY <1>5
  <2> QED
    BY <1>5, <1>6, <1>7, <2>1 DEF Swells
<1>11. InFault(open) /\ NotedFault(memory, open) /\ CollectsFor(memory, open)
  BY <1>3 DEF FaultHolds
<1>12. ASSUME ~memory'.thrown PROVE FaultHolds(memory', open')
  <2>1. Reads("fault", memory, memory', piece)
    BY <1>1, <1>8, MemoryReads DEF Sound
  <2>2. memory'.inside = memory.inside /\ memory'.field = memory.field
    BY <1>12, <2>1 DEF Reads
  <2>3. InFault(open')
    <3>1. Len(open) \in Nat /\ Len(open') = Len(open)
      BY <1>5
    <3>2. \A i \in 1 .. Len(open) :
            /\ open'[i].content \in Nat
            /\ open'[i].name = "Envelope" => i = 1
            /\ open'[i].name = "Fault" => i = 2
            /\ open'[i].name = "Code" => i = 3
            /\ open'[i].name = "Subcode" => i > 3
      BY <1>10, <1>11, <3>1, SwellsNoted
    <3>3. \A i \in 1 .. Len(open) - 1 :
            /\ open'[i + 1].name \in FaultChildren(open'[i].name)
            /\ open'[i + 1].name = "Subcode" => open'[i].content >= 2
      BY <1>10, <1>11, <3>1, SwellsInFault
    <3> QED
      BY <3>1, <3>2, <3>3 DEF InFault
  <2>4. NotedFault(memory', open')
    BY <1>5, <1>10, <1>11, <2>2, SwellsNoted DEF NotedFault
  <2>5. CollectsFor(memory', open')
    <3>1. Len(open) > 1 => Len(open) - 1 \in 1 .. Len(open) /\ Len(open) \in 1 .. Len(open)
      BY <1>5
    <3>2. Len(open) > 1 => /\ open'[Len(open)].name = open[Len(open)].name
                           /\ open'[Len(open) - 1].name = open[Len(open) - 1].name
      BY <1>10, <3>1 DEF Swells
    <3> QED
      BY <1>5, <1>11, <2>2, <3>2 DEF CollectsFor
  <2>6. memory.field # "none" => Parent(piece) = memory.field
    BY <1>5, <1>9, <1>11 DEF CollectsFor, Parent
  <2>7. ASSUME NEW text, IsList(text), NEW name, FromElement(text, name), name = memory.field, name # "none"
        PROVE  FromElement(Append(text, piece), name)
    <3> DEFINE longer == Append(text, piece)
    <3>1. /\ IsList(longer) /\ Len(longer) = Len(text) + 1 /\ longer[Len(text) + 1] = piece
          /\ \A i \in 1 .. Len(text) : longer[i] = text[i]
      BY <2>7, AppendIsList
    <3> HIDE DEF longer
    <3>2. \A i \in 1 .. Len(longer) : i \in 1 .. Len(text) \/ i = Len(text) + 1
      BY <2>7, <3>1 DEF IsList
    <3>3. FromElement(longer, name)
      BY <2>6, <2>7, <3>1, <3>2 DEF FromElement
    <3> QED
      BY <3>3 DEF longer
  <2>8. \A f \in Fields : IsList(memory.text[f])
    BY <1>1 DEF Ready, IsMemory
  <2>9. memory'.field \in {"Code", "Subcode"} => FromElement(memory'.text["field_value"], memory'.field)
    <3> SUFFICES ASSUME memory.field \in {"Code", "Subcode"}
                 PROVE  FromElement(memory'.text["field_value"], memory.field)
      BY <2>2
    <3>1. FromElement(memory.text["field_value"], memory.field)
      BY <1>3 DEF FaultHolds
    <3>2. IsList(memory.text["field_value"]) /\ "field_value" \in Fields
      BY <2>8, FieldNames
    <3>3. FromElement(Append(memory.text["field_value"], piece), memory.field)
      BY <2>7, <3>1, <3>2
    <3>4. \/ memory'.text["field_value"] = memory.text["field_value"]
          \/ memory'.text["field_value"] = Append(memory.text["field_value"], piece)
      BY <1>12, <2>1, <3>2 DEF Reads
    <3> QED
      BY <3>1, <3>3, <3>4
  <2>10. ASSUME NEW f \in {"Code", "Subcode"} PROVE FromElement(memory'.text[f], f)
    <3>1. FromElement(memory.text[f], f)
      BY <1>3 DEF FaultHolds
    <3>2. f \in Fields /\ f # "field_value" /\ f # "none"
      BY FieldNames
    <3>3. IsList(memory.text[f])
      BY <2>8, <3>2
    <3>4. \/ memory'.text[f] = memory.text[f]
          \/ f = memory.field /\ memory'.text[f] = Append(memory.text[f], piece)
      BY <1>12, <2>1, <3>2 DEF Reads
    <3>5. f = memory.field => FromElement(Append(memory.text[f], piece), f)
      BY <2>7, <3>1, <3>2, <3>3
    <3> QED
      BY <3>1, <3>4, <3>5
  <2> QED
    BY <2>3, <2>4, <2>5, <2>9, <2>10 DEF FaultHolds
<1> QED
  BY <1>1, <1>3, <1>12

LEMMA FaultEnds ==
  ASSUME Sound, FaultInv, message = "fault", surprises' = 0, EndElement
  PROVE  ~empties' /\ (~memory'.thrown => FaultHolds(memory', open'))
<1> DEFINE n == Len(open)
           name == Last(open).name
<1>1. /\ open # <<>> /\ ~memory.thrown /\ IsList(open) /\ Ready("fault", memory) /\ empties' = empties
      /\ open' = Front(open)
  BY DEF EndElement, Reading, Sound
<1>2. surprises = 0
  BY CostIs DEF EndElement, Sound
<1>3. ~empties /\ FaultHolds(memory, open)
  BY <1>1, <1>2 DEF FaultInv
<1>4. /\ n \in Nat \ {0} /\ name = open[n].name
      /\ IsList(open') /\ Len(open') = n - 1
      /\ \A i \in 1 .. n - 1 : open'[i] = open[i]
  BY <1>1, FrontIsList
<1>5. memory' = FaultEnd(memory, name)
  BY DEF EndElement
<1>6. InFault(open) /\ NotedFault(memory, open) /\ CollectsFor(memory, open)
  BY <1>3 DEF FaultHolds
<1> HIDE DEF name
<1>7. ASSUME ~memory'.thrown PROVE FaultHolds(memory', open')
  <2>1. Closes("fault", memory, memory', name) /\ FaultClosesAs(memory, memory', name)
    BY <1>1, <1>5, FaultCloses, FaultClosesSo
  <2>2. memory.inside \subseteq memory'.inside \cup {name}
    BY <1>7, <2>1 DEF FaultClosesAs
  <2>3. /\ \A i \in 1 .. n :
             /\ open[i].content \in Nat
             /\ open[i].name = "Envelope" => i = 1
             /\ open[i].name = "Fault" => i = 2 /\ "Fault" \in memory.inside
             /\ open[i].name = "Code" => i = 3
             /\ open[i].name = "Subcode" => i > 3
             /\ open[i].name \in {"Code", "Subcode"} => "Code" \in memory.inside
             /\ open[i].name = "Subcode" /\ open[i].content < 2 => "Subcode" \in memory.inside
        /\ \A i \in 1 .. n - 1 :
             /\ open[i + 1].name \in FaultChildren(open[i].name)
             /\ open[i + 1].name = "Subcode" => open[i].content >= 2
    BY <1>6 DEF InFault, NotedFault
  <2>4. InFault(open')
    <3>1. \A i \in 1 .. n - 1 : i \in 1 .. n
      BY <1>4
    <3>2. \A i \in 1 .. n - 1 - 1 : i \in 1 .. n - 1 /\ i + 1 \in 1 .. n - 1
      BY <1>4
    <3> HIDE DEF n
    <3> QED
      BY <1>4, <2>3, <3>1, <3>2 DEF InFault
  <2>5. NotedFault(memory', open')
    <3> SUFFICES ASSUME NEW i \in 1 .. n - 1
                 PROVE  /\ open[i].name = "Fault" => "Fault" \in memory'.inside
                        /\ open[i].name \in {"Code", "Subcode"} => "Code" \in memory'.inside
                        /\ open[i].name = "Subcode" /\ open[i].content < 2 => "Subcode" \in memory'.inside
      BY <1>4 DEF NotedFault
    <3>1. i \in 1 .. n /\ n \in 1 .. n /\ i + 1 \in 1 .. n /\ i < n /\ i \in Nat
      BY <1>4
    <3>2. open[i].name = "Fault" => name # "Fault"
      BY <1>4, <2>3, <3>1
    <3>3. open[i].name \in {"Code", "Subcode"} => name # "Code"
      BY <1>4, <2>3, <3>1
    <3>4. open[i].name = "Subcode" /\ open[i].content < 2 => name # "Subcode"
      <4> SUFFICES ASSUME open[i].name = "Subcode", open[i].content < 2, name = "Subcode"
                   PROVE  FALSE
        OBVIOUS
      <4>1. open[i + 1].name = "Value"
        BY <2>3, <3>1 DEF FaultChildren
      <4>2. i + 1 # n
        BY <1>4, <4>1
      <4>3. i + 1 \in 1 .. n - 1
        BY <1>4, <3>1, <4>2
      <4>4. FaultChildren("Value") = {}
        BY DEF FaultChildren
      <4> QED
        BY <2>3, <4>1, <4>3, <4>4
    <3> QED
      BY <2>2, <2>3, <3>1, <3>2, <3>3, <3>4
  <2>6. memory'.field = "none"
    <3>1. memory.field = "none" => memory'.field = "none"
      BY <1>7, <2>1 DEF Closes
    <3>2. memory.field # "none" => name = IF memory.field = "Reason" THEN "Text" ELSE "Value"
      BY <1>4, <1>6 DEF CollectsFor
    <3> QED
      BY <1>7, <2>1, <3>1, <3>2 DEF FaultClosesAs
  <2>7. ASSUME NEW f \in {"Code", "Subcode"} PROVE FromElement(memory'.text[f], f)
    <3>1. f \in Fields
      BY FieldNames
    <3>2. \/ memory'.text[f] = memory.text[f]
          \/ memory'.text[f] = <<>>
          \/ f = memory.field /\ memory'.text[f] = memory.text["field_value"]
      BY <1>7, <2>1, <3>1 DEF Closes
    <3>3. FromElement(<<>>, f)
      BY EmptyIsList DEF FromElement
    <3> QED
      BY <1>3, <3>2, <3>3 DEF FaultHolds
  <2> QED
    BY <2>4, <2>5, <2>6, <2>7 DEF FaultHolds, CollectsFor
<1> QED
  BY <1>1, <1>3, <1>7

LEMMA FaultStep ==
  ASSUME Sound, Standing, FaultInv, DocumentNext
  PROVE  FaultInv'
<1>1. message' = message
  BY StepsAre DEF Begins, TextIs, Ends, Restarts
<1> SUFFICES ASSUME message = "fault", surprises' = 0
             PROVE  ~empties' /\ (~memory'.thrown => FaultHolds(memory', open'))
  BY <1>1 DEF FaultInv
<1>2. ASSUME NEW declared, Envelope(declared)
      PROVE  ~empties' /\ (~memory'.thrown => FaultHolds(memory', open'))
  <2>1. FaultHolds(memory', open')
    BY <1>2, FaultEnvelope
  <2>2. ~empties'
    <3>1. empties' <=> empties
      BY <1>2, Zenon DEF Envelope
    <3> QED
      BY <1>2, <3>1 DEF Envelope, Sound
  <2> QED
    BY <2>1, <2>2
<1>3. ASSUME NEW name \in Names[message], NEW declared, NEW empty \in BOOLEAN, BeginElement(name, declared, empty)
      PROVE  ~empties' /\ (~memory'.thrown => FaultHolds(memory', open'))
  <2>1. /\ surprises = 0 /\ ~empty /\ ~memory.thrown /\ ~empties
        /\ memory' = FaultElement(memory, name) /\ GrowsBy(open, open', name)
    BY <1>3, FaultGrows
  <2>2. ~empties'
    <3>1. empties' <=> (empties \/ empty)
      BY <1>3, Zenon DEF BeginElement
    <3> QED
      BY <2>1, <3>1
  <2> QED
    BY <2>1, <2>2, FaultBegin
<1>4. ASSUME NEW says, Text(says)
      PROVE  ~empties' /\ (~memory'.thrown => FaultHolds(memory', open'))
  BY <1>4, FaultRead
<1>5. ASSUME EndElement
      PROVE  ~empties' /\ (~memory'.thrown => FaultHolds(memory', open'))
  BY <1>5, FaultEnds
<1>6. ASSUME NextReply
      PROVE  ~empties' /\ (~memory'.thrown => FaultHolds(memory', open'))
  <2>1. ~empties' /\ open' = <<>> /\ memory' = EmptyMemory
    BY <1>6 DEF NextReply
  <2>2. EmptyMemory.field = "none" /\ \A f \in {"Code", "Subcode"} : EmptyMemory.text[f] = <<>>
    BY FieldNames DEF EmptyMemory
  <2> HIDE DEF EmptyMemory
  <2>3. 1 .. Len(<<>>) = {} /\ 1 .. Len(<<>>) - 1 = {}
    BY EmptyIsList
  <2>4. InFault(<<>>) /\ NotedFault(EmptyMemory, <<>>)
    BY <2>3 DEF InFault, NotedFault
  <2>5. FaultHolds(EmptyMemory, <<>>)
    BY <2>2, <2>3, <2>4 DEF FaultHolds, CollectsFor, FromElement
  <2> QED
    BY <2>1, <2>5
<1> QED
  BY <1>2, <1>3, <1>4, <1>5, <1>6 DEF DocumentNext

DocumentInv ==
  /\ Sound /\ Standing /\ Scoped /\ Nested
  /\ ProbeInv /\ MetadataInv /\ FaultInv

LEMMA DocumentInitInv == DocumentInit => DocumentInv
<1> SUFFICES ASSUME DocumentInit PROVE DocumentInv
  OBVIOUS
<1>1. /\ message \in Messages /\ open = <<>> /\ scopes = <<>> /\ memory = EmptyMemory
      /\ parts = 0 /\ surprises = 0 /\ empties = FALSE
  BY DEF DocumentInit
<1>2. IsList(<<>>) /\ Len(<<>>) = 0 /\ 1 .. Len(<<>>) = {} /\ 1 .. Len(<<>>) - 1 = {}
  BY EmptyIsList
<1>3. \A of, around : Stands(of, EmptyMemory, around) /\ Ready(of, EmptyMemory)
  BY EmptyStands
<1>4. /\ EmptyMemory.field = "none" /\ EmptyMemory.inside = {} /\ EmptyMemory.list = <<>> /\ ~EmptyMemory.scan
      /\ EmptyMemory.namespace.resolved \notin ScanNamespaces
      /\ \A f \in {"Code", "Subcode"} : EmptyMemory.text[f] = <<>>
  BY FieldNames DEF EmptyMemory, NoPiece, ScanNamespaces
<1> HIDE DEF EmptyMemory
<1>5. Sound
  <2>1. /\ IsList(open) /\ IsList(scopes) /\ Len(open) <= Len(scopes)
        /\ \A i \in 1 .. Len(open) : IsEntry(open[i], message, parts)
    BY <1>1, <1>2
  <2>2. Ready(message, memory)
    BY <1>1, <1>3
  <2> QED
    BY <1>1, <2>1, <2>2 DEF Sound
<1>6. Standing /\ Scoped
  BY <1>1, <1>2, <1>3, <1>4 DEF Standing, Scoped
<1>7. NestedIn(<<>>) /\ OneMatchIn(<<>>) /\ AroundOf(<<>>) = {} /\ Distinct(<<>>)
  BY <1>2 DEF NestedIn, OneMatchIn, AroundOf, Distinct
<1>8. ProbeHolds(EmptyMemory, <<>>, 0, FALSE) /\ MetadataHolds(EmptyMemory, <<>>, FALSE)
  BY <1>2, <1>4, <1>7 DEF ProbeHolds, MetadataHolds
<1>9. InFault(<<>>) /\ NotedFault(EmptyMemory, <<>>)
  BY <1>2 DEF InFault, NotedFault
<1>10. FaultHolds(EmptyMemory, <<>>)
  BY <1>2, <1>4, <1>9 DEF FaultHolds, CollectsFor, FromElement
<1> QED
  BY <1>1, <1>5, <1>6, <1>7, <1>8, <1>10 DEF DocumentInv, Nested, ProbeInv, MetadataInv, FaultInv

LEMMA DocumentNextInv == DocumentInv /\ [DocumentNext]_documentVars => DocumentInv'
<1>1. ASSUME DocumentInv, DocumentNext PROVE DocumentInv'
  BY <1>1, SoundStep, StandingStep, ScopedStep, NestedStep, ProbeStep, MetadataStep, FaultStep DEF DocumentInv
<1>2. ASSUME DocumentInv, UNCHANGED documentVars PROVE DocumentInv'
  BY <1>2 DEF DocumentInv, documentVars, Sound, Standing, Scoped, Nested, ProbeInv, MetadataInv, FaultInv
<1> QED
  BY <1>1, <1>2

LEMMA DocumentIsDecoded == DocumentInv => DecodedAsWritten
<1> SUFFICES ASSUME DocumentInv, Accepted PROVE
      /\ message = "probe" => CandidatesAreOwn
      /\ message = "metadata" => ServiceIsOwn
      /\ message = "fault" => FaultIsOwn
      /\ ~empties =>
           \A field \in {"RelatesTo", "Action", "Manufacturer", "ModelName", "ScannerName",
                         "ScannerInfo", "ScannerLocation", "ADFSupportsDuplex", "ScannerState"} :
             StandsIn(memory.text[field], {field})
  BY DEF DecodedAsWritten
<1>1. ~memory.thrown /\ Ready(message, memory)
  BY DEF Accepted, DocumentInv, Sound
<1>2. /\ IsList(memory.list) /\ DOMAIN memory.list = 1 .. Len(memory.list)
      /\ \A f \in Fields : IsList(memory.text[f]) /\ DOMAIN memory.text[f] = 1 .. Len(memory.text[f])
  BY <1>1 DEF Ready, IsMemory, IsList
<1>3. ~empties => \A f \in Fields \ {"field_value"} : StandsIn(memory.text[f], Needs(message, f))
  BY <1>1 DEF DocumentInv, Standing, Stands
<1>4. ASSUME message = "probe" PROVE CandidatesAreOwn
  <2>1. ProbeHolds(memory, open, parts, empties)
    BY <1>1, <1>4 DEF DocumentInv, ProbeInv
  <2> QED
    BY <1>2, <2>1 DEF CandidatesAreOwn, ProbeHolds, IsOwn, Distinct, ReadInPlace
<1>5. ASSUME message = "metadata" PROVE ServiceIsOwn
  <2>1. MetadataHolds(memory, open, empties)
    BY <1>1, <1>5 DEF DocumentInv, MetadataInv
  <2>2. memory.namespace.resolved \in ScanNamespaces
    BY <1>5 DEF Accepted, MetadataAccepts
  <2>3. {"ServiceAddress", "HostAddress"} \subseteq Fields \ {"field_value"}
    BY FieldNames
  <2>4. /\ Needs(message, "ServiceAddress") = {"Hosted", "EndpointReference", "Address"}
        /\ Needs(message, "HostAddress") = {"Host", "EndpointReference", "Address"}
    BY DEF Needs
  <2> QED
    BY <1>3, <2>1, <2>2, <2>3, <2>4 DEF ServiceIsOwn, MetadataHolds, ReadInPlace
<1>6. ASSUME message = "fault" PROVE FaultIsOwn
  <2> SUFFICES ASSUME surprises = 0
               PROVE  \A f \in {"Code", "Subcode"} : FromElement(memory.text[f], f)
    <3>1. \A f \in {"Code", "Subcode"} : DOMAIN memory.text[f] = 1 .. Len(memory.text[f])
      BY <1>2, FieldNames
    <3> QED
      BY <3>1 DEF FaultIsOwn, FromElement, Parent
  <2>1. FaultHolds(memory, open)
    BY <1>1, <1>6 DEF DocumentInv, FaultInv
  <2> QED
    BY <2>1 DEF FaultHolds
<1>7. ASSUME ~empties,
             NEW field \in {"RelatesTo", "Action", "Manufacturer", "ModelName", "ScannerName",
                            "ScannerInfo", "ScannerLocation", "ADFSupportsDuplex", "ScannerState"}
      PROVE  StandsIn(memory.text[field], {field})
  <2>1. Needs(message, field) = {field}
    BY <1>7 DEF Needs
  <2>2. field \in Fields \ {"field_value"}
    BY FieldNames
  <2> QED
    BY <1>3, <1>7, <2>1, <2>2
<1> QED
  BY <1>4, <1>5, <1>6, <1>7

\* Every reply that is accepted is decoded to what its elements say.
THEOREM RepliesAreDecoded == DocumentSpec => []DecodedAsWritten
<1>1. DocumentSpec => []DocumentInv
  BY DocumentInitInv, DocumentNextInv, PTL DEF DocumentSpec
<1> QED
  BY <1>1, DocumentIsDecoded, PTL
=============================================================================
