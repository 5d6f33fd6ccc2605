----------------------------- MODULE Wia_proofs -----------------------------
(***************************************************************************)
(* Theorems about the parts of the WIA side that run in one thread.        *)
(* The transfer protocol, for every word size and every set of limits the  *)
(* constructor accepts: TypeOK, WithinLimits and OutcomeConsistent are     *)
(* inductive together with Underway: before a transfer begins it has no    *)
(* pages, before it ends no short batch, and a page is only in progress    *)
(* while one is missing.                                                   *)
(* The selections that the backend hands out and the negotiation of a      *)
(* scan's settings, for any devices, any limit on them and on their        *)
(* properties, and any number of refreshes.                                *)
(***************************************************************************)
EXTENDS WiaTransferModel, Wia2Backend, WiaCapabilityModel, Subsequences_proofs, TLAPS

-----------------------------------------------------------------------------
(* The transfer.                                                           *)

Underway ==
  /\ state \in {"idle", "configured"} => pages = 0
  /\ state \in {"idle", "configured", "transferring", "cancelling"} => shortBatch = FALSE
  /\ open => pages < requested

Accounting == DataTypeOK /\ WithinLimits /\ OutcomeConsistent /\ Underway

IInv == FlagTypeOK /\ Accounting

\* The subtractions of begin_page() and accept_chunk() are those of numbers.
LEMMA NoUnderflow ==
  ASSUME DataTypeOK, WithinLimits
  PROVE  /\ Minus(MaxTotalBytes, total) = MaxTotalBytes - total
         /\ current \in 0 .. declared
         /\ open => Minus(MaxPageBytes, current) = MaxPageBytes - current
         /\ Minus(Minus(MaxTotalBytes, total), current) = MaxTotalBytes - total - current
         /\ Minus(declared, current) = declared - current
  BY LimitsAssumption DEF TypeOK, DataTypeOK, WithinLimits, Minus, Bytes

\* The flags stay Boolean.
LEMMA FlagTypeStep == FlagTypeOK /\ [Next]_vars => FlagTypeOK'
<1>1. FlagTypeOK /\ Next /\ ~ReportFeederEmpty => FlagTypeOK'
  BY Zenon
  DEF FlagTypeOK, Next, Configure, BeginTransfer, BeginPage, AcceptChunk, CompletePage,
      RequestCancel, AcknowledgeCancel, ReportFailure, FinishTransfer, Protocol, Fail, done, page
<1>3. ASSUME FlagTypeOK, ReportFeederEmpty PROVE FlagTypeOK'
  <2>1. CASE shortBatch' = (pages < requested) /\ UNCHANGED open
    <3>1. (pages < requested) \in BOOLEAN
      BY SMT
    <3> QED
      BY <1>3, <2>1, <3>1, Zenon DEF FlagTypeOK
  <2>2. CASE Fail("protocol_error") \/ Fail("feeder_empty")
    BY <1>3, <2>2, Zenon DEF FlagTypeOK, Fail, done
  <2> QED
    BY <1>3, <2>1, <2>2 DEF ReportFeederEmpty, Protocol, page
<1>2. FlagTypeOK /\ UNCHANGED vars => FlagTypeOK'
  BY DEF FlagTypeOK, vars, done, page
<1> QED
  BY <1>1, <1>2, <1>3

\* fail() leads from any state to a consistent one.
LEMMA FailStep ==
  ASSUME IInv, NEW reason \in Failures \ {"none"}, Fail(reason)
  PROVE  Accounting'
<1>1. DataTypeOK'
  BY LimitsAssumption DEF IInv, Accounting, DataTypeOK, Fail, request, done, Bytes
<1>2. WithinLimits'
  BY LimitsAssumption DEF IInv, Accounting, DataTypeOK, WithinLimits, Fail, request, done, Bytes
<1>3. OutcomeConsistent' /\ Underway'
  BY DEF OutcomeConsistent, Underway, Fail
<1> QED
  BY <1>1, <1>2, <1>3 DEF Accounting

\* The invariant holds at first.
LEMMA InitInvariant == Init => IInv
<1>1. Init => FlagTypeOK
  BY Zenon DEF Init, FlagTypeOK
<1>2. Init => Accounting
  BY LimitsAssumption
  DEF Init, Accounting, DataTypeOK, WithinLimits, OutcomeConsistent, Underway, Sources, Failures,
      Bytes
<1> QED
  BY <1>1, <1>2 DEF IInv

\* The methods that set a transfer up keep the invariant.
LEMMA SetUpStep ==
  ASSUME IInv,
         \/ \E from \in Sources, count \in 0 .. MaxPages + 1 : Configure(from, count)
         \/ BeginTransfer
  PROVE  Accounting'
<1>1. ASSUME NEW from \in Sources, NEW count \in 0 .. MaxPages + 1, Configure(from, count)
      PROVE  Accounting'
  <2>1. CASE Fail("protocol_error") \/ Fail("transfer_limit")
    BY <2>1, FailStep DEF Failures
  <2>2. CASE /\ state = "idle" /\ count \in 1 .. MaxPages
             /\ source' = from /\ requested' = count /\ state' = "configured"
             /\ UNCHANGED <<failure, done, page>>
    <3>1. DataTypeOK'
      BY <2>2 DEF IInv, Accounting, DataTypeOK, done, page
    <3>2. WithinLimits'
      BY <2>2 DEF IInv, Accounting, DataTypeOK, WithinLimits, Underway, done, page
    <3>3. OutcomeConsistent' /\ Underway'
      BY <2>2 DEF IInv, Accounting, OutcomeConsistent, Underway, done, page
    <3> QED
      BY <3>1, <3>2, <3>3 DEF Accounting
  <2> QED
    BY <1>1, <2>1, <2>2, LimitsAssumption DEF Configure, Protocol
<1>2. ASSUME BeginTransfer PROVE Accounting'
  <2>1. CASE Fail("protocol_error")
    BY <2>1, FailStep DEF Failures
  <2>2. CASE /\ state = "configured" /\ state' = "transferring"
             /\ UNCHANGED <<failure, request, done, page>>
    BY <2>2 DEF IInv, Accounting, DataTypeOK, WithinLimits, OutcomeConsistent, Underway, request, done, page
  <2> QED
    BY <1>2, <2>1, <2>2 DEF BeginTransfer, Protocol
<1> QED
  BY <1>1, <1>2

\* Starting and filling a page keep the invariant.
LEMMA PageStep ==
  ASSUME IInv,
         \/ \E width, height \in 0 .. MaxDimension + 1, bytes \in Bytes :
              BeginPage(width, height, bytes)
         \/ \E bytes \in Bytes : AcceptChunk(bytes)
  PROVE  Accounting'
<1>1. ASSUME NEW width \in 0 .. MaxDimension + 1, NEW height \in 0 .. MaxDimension + 1,
             NEW bytes \in Bytes, BeginPage(width, height, bytes)
      PROVE  Accounting'
  <2>1. CASE Fail("protocol_error") \/ Fail("transfer_limit")
    BY <2>1, FailStep DEF Failures
  <2>2. CASE /\ state = "transferring" /\ pages < requested
             /\ bytes \in 1 .. MaxPageBytes /\ bytes <= Minus(MaxTotalBytes, total)
             /\ open' = TRUE /\ current' = 0 /\ declared' = bytes
             /\ UNCHANGED <<state, failure, request, done>>
    <3>1. bytes <= MaxTotalBytes - total
      BY <2>2, NoUnderflow DEF IInv, Accounting
    <3>2. DataTypeOK'
      BY <2>2, LimitsAssumption DEF IInv, Accounting, DataTypeOK, request, done, Bytes
    <3>3. WithinLimits'
      BY <2>2, <3>1, LimitsAssumption DEF IInv, Accounting, DataTypeOK, WithinLimits, request, done, Bytes
    <3>4. OutcomeConsistent' /\ Underway'
      BY <2>2 DEF IInv, Accounting, OutcomeConsistent, Underway, request, done
    <3> QED
      BY <3>2, <3>3, <3>4 DEF Accounting
  <2> QED
    BY <1>1, <2>1, <2>2 DEF BeginPage, Protocol
<1>2. ASSUME NEW bytes \in Bytes, AcceptChunk(bytes) PROVE Accounting'
  <2>1. CASE Fail("protocol_error") \/ Fail("transfer_limit")
    BY <2>1, FailStep DEF Failures
  <2>2. CASE /\ state = "transferring" /\ open /\ bytes <= Minus(declared, current)
             /\ current' = (current + bytes) % Word
             /\ UNCHANGED <<state, failure, request, done, open, declared>>
    <3>1. current + bytes <= declared
      BY <2>2, NoUnderflow DEF IInv, Accounting, DataTypeOK, Bytes
    <3>2. current' = current + bytes
      BY <2>2, <3>1, LimitsAssumption DEF IInv, Accounting, DataTypeOK, Bytes
    <3>3. DataTypeOK'
      BY <2>2, <3>1, <3>2, LimitsAssumption DEF IInv, Accounting, DataTypeOK, request, done, Bytes
    <3>4. WithinLimits'
      BY <2>2, <3>1, <3>2 DEF IInv, Accounting, WithinLimits, request, done
    <3>5. OutcomeConsistent' /\ Underway'
      BY <2>2 DEF IInv, Accounting, OutcomeConsistent, Underway, request, done
    <3> QED
      BY <3>3, <3>4, <3>5 DEF Accounting
  <2> QED
    BY <1>2, <2>1, <2>2 DEF AcceptChunk, Protocol
<1> QED
  BY <1>1, <1>2

\* Completing a page keeps the invariant.
LEMMA CompleteStep ==
  ASSUME IInv, NEW valid \in BOOLEAN, CompletePage(valid)
  PROVE  Accounting'
<1>1. CASE Fail("protocol_error") \/ Fail("invalid_image")
  BY <1>1, FailStep DEF Failures
<1>2. CASE /\ state = "transferring" /\ open /\ current # 0 /\ current = declared
           /\ pages' = pages + 1 /\ total' = (total + current) % Word
           /\ open' = FALSE /\ current' = 0 /\ declared' = 0
           /\ UNCHANGED <<state, failure, request, shortBatch>>
  <2>1. total + current <= MaxTotalBytes
    BY <1>2 DEF IInv, Accounting, WithinLimits
  <2>2. total' = total + current
    BY <1>2, <2>1, LimitsAssumption DEF IInv, Accounting, DataTypeOK, Bytes
  <2>3. pages < requested
    BY <1>2 DEF IInv, Accounting, Underway
  <2>4. DataTypeOK'
    BY <1>2, <2>1, <2>2, <2>3, LimitsAssumption DEF IInv, Accounting, DataTypeOK, request, Bytes
  <2>5. WithinLimits'
    BY <1>2, <2>1, <2>2, <2>3, LimitsAssumption DEF IInv, Accounting, DataTypeOK, WithinLimits, request, Bytes
  <2>6. OutcomeConsistent' /\ Underway'
    BY <1>2 DEF IInv, Accounting, OutcomeConsistent, Underway, request
  <2> QED
    BY <2>4, <2>5, <2>6 DEF Accounting
<1> QED
  BY <1>1, <1>2 DEF CompletePage, Protocol

\* Cancellation, the end of the feeder, a device failure and the end of the
\* transfer keep the invariant.
LEMMA EndStep ==
  ASSUME IInv,
         \/ RequestCancel \/ AcknowledgeCancel \/ ReportFeederEmpty \/ FinishTransfer
         \/ \E reason \in Failures : ReportFailure(reason)
  PROVE  Accounting'
<1>1. CASE \E reason \in Failures \ {"none"} : Fail(reason)
  BY <1>1, FailStep
<1>2. CASE /\ state = "transferring" /\ state' = "cancelling"
           /\ UNCHANGED <<failure, request, done, page>>
  BY <1>2 DEF IInv, Accounting, DataTypeOK, WithinLimits, OutcomeConsistent, Underway, request, done, page
<1>3. CASE /\ state = "transferring" /\ ~open /\ source # "flatbed" /\ pages # 0
           /\ state' = "completed" /\ shortBatch' = (pages < requested)
           /\ UNCHANGED <<failure, request, pages, total, page>>
  <2>1. CASE pages < requested
    <3>1. shortBatch' = TRUE
      BY <1>3, <2>1
    <3>2. DataTypeOK' /\ WithinLimits' /\ Underway'
      BY <1>3, <3>1 DEF IInv, Accounting, DataTypeOK, WithinLimits, Underway, request, page
    <3>3. source = "feeder" /\ pages \in 1 .. requested - 1
      BY <1>3, <2>1 DEF IInv, Accounting, DataTypeOK, Sources
    <3>4. OutcomeConsistent'
      BY <1>3, <3>1, <3>3 DEF IInv, Accounting, OutcomeConsistent, request, page
    <3> QED
      BY <3>2, <3>4 DEF Accounting
  <2>2. CASE ~(pages < requested)
    <3>1. pages = requested
      BY <2>2 DEF IInv, Accounting, DataTypeOK, WithinLimits
    <3>2. shortBatch' = FALSE
      <4>1. (pages < requested) \in BOOLEAN
        BY SMT
      <4> QED
        BY <1>3, <2>2, <4>1, Zenon
    <3>3. DataTypeOK' /\ WithinLimits' /\ Underway'
      BY <1>3, <3>1, <3>2 DEF IInv, Accounting, DataTypeOK, WithinLimits, Underway, request, page
    <3>4. OutcomeConsistent'
      BY <1>3, <3>1, <3>2 DEF IInv, Accounting, OutcomeConsistent, request, page
    <3> QED
      BY <3>3, <3>4 DEF Accounting
  <2> QED
    BY <2>1, <2>2
<1>4. CASE /\ state = "transferring" /\ ~open /\ pages = requested
           /\ state' = "completed" /\ UNCHANGED <<failure, request, done, page>>
  BY <1>4 DEF IInv, Accounting, DataTypeOK, WithinLimits, OutcomeConsistent, Underway, request, done, page
<1> QED
  BY <1>1, <1>2, <1>3, <1>4
  DEF RequestCancel, AcknowledgeCancel, ReportFeederEmpty, ReportFailure, FinishTransfer,
      Protocol, Failures

\* The inductive invariant holds in every reachable state.
THEOREM Invariance == Spec => []IInv
<1>1. ASSUME IInv, [Next]_vars PROVE IInv'
  <2>1. CASE UNCHANGED vars
    BY <1>1, <2>1, FlagTypeStep
    DEF IInv, Accounting, DataTypeOK, WithinLimits, OutcomeConsistent, Underway, vars, request, done, page
  <2>2. CASE Next
    BY <1>1, <2>2, FlagTypeStep, SetUpStep, PageStep, CompleteStep, EndStep DEF IInv, Next
  <2> QED
    BY <1>1, <2>1, <2>2
<1> QED
  BY <1>1, InitInvariant, PTL DEF Spec

\* Every member keeps its type, and the page counts keep to the limit.
THEOREM TypeCorrect == Spec => []TypeOK
  BY Invariance, PTL DEF IInv, Accounting, TypeOK

\* No limit is exceeded and no unsigned subtraction wraps around.
THEOREM LimitsHold == Spec => []WithinLimits
  BY Invariance, PTL DEF IInv, Accounting, TypeOK

\* The outcome tells complete, short and failed transfers apart.
THEOREM OutcomesDistinct == Spec => []OutcomeConsistent
  BY Invariance, PTL DEF IInv, Accounting, TypeOK

\* No callback after a cancellation or the end adds pages or bytes, or succeeds.
THEOREM LateCallbacks == Spec => LateCallbacksAddNothing
<1> DEFINE Late == /\ state' = "failed"
                   /\ state # "cancelling" => failure' = "protocol_error"
                   /\ UNCHANGED <<pages, total, shortBatch>>
<1>1. ASSUME Over, Next PROVE Late
  <2>1. ASSUME NEW from, NEW count, Configure(from, count) PROVE Late
    BY <1>1, <2>1 DEF Over, Configure, Protocol, Fail, done
  <2>2. ASSUME BeginTransfer PROVE Late
    BY <1>1, <2>2 DEF Over, BeginTransfer, Protocol, Fail, done
  <2>3. ASSUME NEW width, NEW height, NEW bytes, BeginPage(width, height, bytes) PROVE Late
    BY <1>1, <2>3 DEF Over, BeginPage, Protocol, Fail, done
  <2>4. ASSUME NEW bytes, AcceptChunk(bytes) PROVE Late
    BY <1>1, <2>4 DEF Over, AcceptChunk, Protocol, Fail, done
  <2>5. ASSUME NEW valid, CompletePage(valid) PROVE Late
    BY <1>1, <2>5 DEF Over, CompletePage, Protocol, Fail, done
  <2>6. ASSUME RequestCancel \/ AcknowledgeCancel PROVE Late
    BY <1>1, <2>6 DEF Over, RequestCancel, AcknowledgeCancel, Protocol, Fail, done
  <2>7. ASSUME ReportFeederEmpty \/ FinishTransfer PROVE Late
    BY <1>1, <2>7 DEF Over, ReportFeederEmpty, FinishTransfer, Protocol, Fail, done
  <2>8. ASSUME NEW reason, ReportFailure(reason) PROVE Late
    BY <1>1, <2>8 DEF Over, ReportFailure, Protocol, Fail, done
  <2> HIDE DEF Late
  <2> QED
    BY <1>1, <2>1, <2>2, <2>3, <2>4, <2>5, <2>6, <2>7, <2>8 DEF Next
<1>2. [Next]_vars => [Over => Late]_vars
  BY <1>1
<1> QED
  BY <1>2, PTL DEF Spec, LateCallbacksAddNothing

-----------------------------------------------------------------------------
(* The backend.                                                            *)

\* Selections come from generations that have been, and those of the current one
\* are in the table of raw ids.
OfferedInv ==
  /\ generation \in 0 .. MaxGeneration
  /\ \A selection \in offered :
       /\ selection[1] \in 1 .. generation
       /\ selection[1] = generation =>
            selection[2] \in DOMAIN rawIds /\ rawIds[selection[2]] = selection[3]

LEMMA InitHolds == BackendInit => OfferedInv
  BY BackendAssumption DEF BackendInit, OfferedInv

\* A refresh begins a generation that no selection has yet, and the selections it
\* hands out are in the table, whatever devices it lists.
LEMMA DiscoverKeeps ==
  ASSUME OfferedInv, NEW entries, Discover(entries)
  PROVE  OfferedInv'
<1>1. CASE UNCHANGED <<generation, rawIds, offered>>
  BY <1>1 DEF OfferedInv
<1>2. CASE generation # MaxGeneration
  <2> DEFINE listed == IF Len(entries) > MaxDiscovered THEN <<>> ELSE Listed(entries)
  <2>1. /\ generation' = generation + 1
        /\ rawIds' = listed
        /\ offered' = offered \cup {<<generation', i, listed[i]>> : i \in DOMAIN listed}
    BY <1>2, Zenon DEF Discover
  <2> HIDE DEF listed
  <2>2. generation' \in 1 .. MaxGeneration
    BY <1>2, <2>1, BackendAssumption DEF OfferedInv
  <2>3. ASSUME NEW selection \in offered
        PROVE  selection[1] \in 1 .. generation' /\ selection[1] # generation'
    BY <2>1, <2>2 DEF OfferedInv
  <2>4. ASSUME NEW i \in DOMAIN listed, NEW selection, selection = <<generation', i, listed[i]>>
        PROVE  /\ selection[1] \in 1 .. generation'
               /\ selection[2] \in DOMAIN rawIds' /\ rawIds'[selection[2]] = selection[3]
    BY <2>1, <2>2, <2>4
  <2> QED
    BY <2>1, <2>2, <2>3, <2>4 DEF OfferedInv
<1> QED
  BY <1>1, <1>2, Zenon DEF Discover

LEMMA Inductive == OfferedInv /\ [BackendNext]_backendVars => OfferedInv'
<1> SUFFICES ASSUME OfferedInv, [BackendNext]_backendVars PROVE OfferedInv'
  OBVIOUS
<1>1. ASSUME NEW entries, EndEnumeration(entries) PROVE OfferedInv'
  <2>1. CASE UNCHANGED <<generation, rawIds, offered>>
    BY <2>1 DEF OfferedInv
  <2> QED
    BY <1>1, <2>1, DiscoverKeeps, Zenon DEF EndEnumeration
<1>2. UNCHANGED <<generation, rawIds, offered>> => OfferedInv'
  BY DEF OfferedInv
<1>3. ASSUME NEW entry \in Entry, Enumerate(entry) PROVE OfferedInv'
  BY <1>1, <1>2, <1>3, Zenon DEF Enumerate
<1>4. EnumerateEnd => OfferedInv'
  BY <1>1, Zenon DEF EnumerateEnd
<1>5. Close => OfferedInv'
  BY BackendAssumption DEF Close, OfferedInv
<1>6. \/ Open \/ (\E operation \in {"refresh", "scan"} : Execute(operation))
      \/ EnumerateFails \/ SetFlag \/ UNCHANGED backendVars
      => UNCHANGED <<generation, rawIds, offered>>
  BY Zenon DEF Open, Execute, EnumerateFails, SetFlag, backendVars
<1> QED
  BY <1>2, <1>3, <1>4, <1>5, <1>6, Zenon DEF BackendNext

\* However refreshes succeed, fail or are cancelled, the selections of the latest
\* one that succeeded stand for the devices they were handed out for; all others
\* are refused.
THEOREM SelectionsAreResolved == BackendSpec => []SelectionsResolve
<1>1. OfferedInv => SelectionsResolve
  BY BackendAssumption DEF OfferedInv, SelectionsResolve, Resolve
<1> QED
  BY <1>1, InitHolds, Inductive, PTL DEF BackendSpec

-----------------------------------------------------------------------------
\* The list of a refresh has devices only, and each once: what is kept of the
\* entries are first mentions, and two of them cannot have the same id.
LEMMA ListedOnce ==
  ASSUME NEW entries \in Seq(Entry)
  PROVE  Listed(entries) \in Seq(Device) /\ Selection!IsInjective(Listed(entries))
<1> DEFINE ids == [i \in DOMAIN entries |-> entries[i].id]
           First(i) == \A j \in 1 .. i - 1 : entries[j].id # entries[i].id
           mentions == {i \in DOMAIN entries : entries[i].id # NoId /\ entries[i].public /\ First(i)}
           kept == Subsequence(ids, mentions)
           at == Ascending(Len(ids), mentions)
<1>1. /\ DOMAIN entries = 1 .. Len(entries) /\ Len(entries) \in Nat
      /\ \A i \in 1 .. Len(entries) : entries[i].id \in Device \cup {NoId}
  <2>1. \A entry \in Entry : entry.id \in Device \cup {NoId}
    BY DEF Entry
  <2>2. /\ DOMAIN entries = 1 .. Len(entries) /\ Len(entries) \in Nat
        /\ \A i \in 1 .. Len(entries) : entries[i] \in Entry
    OBVIOUS
  <2> QED
    BY <2>1, <2>2
<1>2. ids \in Seq(Device \cup {NoId}) /\ Len(ids) = Len(entries)
  BY <1>1
<1> HIDE DEF kept, at
<1>3. /\ kept \in Seq(Device \cup {NoId})
      /\ \A i \in 1 .. Len(kept) : kept[i] = ids[at[i]] /\ at[i] \in 1 .. Len(ids) /\ at[i] \in mentions
      /\ \A i, j \in 1 .. Len(kept) : i < j => at[i] < at[j]
  <2> HIDE DEF ids, mentions
  <2> QED
    BY <1>2, SubsequenceMembers, Zenon DEF kept, at
<1>4. \A i \in 1 .. Len(kept) : kept[i] = entries[at[i]].id /\ kept[i] \in Device /\ at[i] \in 1 .. Len(entries)
  BY <1>1, <1>2, <1>3
<1>5. ASSUME NEW i \in 1 .. Len(kept), NEW j \in 1 .. Len(kept), i < j
      PROVE  kept[i] # kept[j]
  <2>1. at[i] < at[j] /\ at[i] \in 1 .. Len(entries) /\ at[j] \in 1 .. Len(entries) /\ at[j] \in mentions
    BY <1>3, <1>4, <1>5
  <2>2. at[i] \in 1 .. at[j] - 1
    BY <1>1, <2>1
  <2> QED
    BY <1>4, <2>1, <2>2
<1>6. kept \in Seq(Device) /\ Selection!IsInjective(kept)
  <2>1. kept \in Seq(Device) /\ DOMAIN kept = 1 .. Len(kept) /\ Len(kept) \in Nat
    BY <1>3, <1>4
  <2>2. \A i, j \in 1 .. Len(kept) : kept[i] = kept[j] => i = j
    BY <1>5, <2>1
  <2> QED
    BY <2>1, <2>2, Zenon DEF Selection!IsInjective
<1>7. Listed(entries) = kept
  BY Zenon DEF Listed, kept
<1> QED
  BY <1>6, <1>7

\* The enumeration collects entries, so that a refresh lists devices.
EntriesInv == discovered \in Seq(Entry)

LEMMA EntriesStep == EntriesInv /\ [BackendNext]_backendVars => EntriesInv'
<1> SUFFICES ASSUME EntriesInv, [BackendNext]_backendVars PROVE EntriesInv'
  OBVIOUS
<1>1. ASSUME NEW entry \in Entry PROVE Append(discovered, entry) \in Seq(Entry)
  BY DEF EntriesInv
<1>2. <<>> \in Seq(Entry)
  OBVIOUS
<1>3. BackendNext => \/ discovered' = <<>> \/ UNCHANGED discovered
                     \/ \E entry \in Entry : discovered' = Append(discovered, entry)
  BY Zenon DEF BackendNext, Open, Execute, Enumerate, EnumerateEnd, EnumerateFails, Close, SetFlag,
     EndEnumeration, Discover, Reply
<1> QED
  BY <1>1, <1>2, <1>3, Zenon DEF EntriesInv, backendVars

\* A refresh is a search that offers what it lists, or it changes nothing.
LEMMA DiscoverRefines ==
  ASSUME OfferedInv, NEW entries \in Seq(Entry), Discover(entries)
  PROVE  Selection!Search \/ UNCHANGED <<generation, rawIds, offered>>
<1> DEFINE listed == IF Len(entries) > MaxDiscovered THEN <<>> ELSE Listed(entries)
<1>1. listed \in Seq(Device) /\ Selection!IsInjective(listed)
  <2>1. <<>> \in Seq(Device) /\ Selection!IsInjective(<<>>)
    BY DEF Selection!IsInjective
  <2> QED
    BY <2>1, ListedOnce
<1> HIDE DEF listed
<1>2. CASE generation # MaxGeneration
  <2>1. /\ generation' = generation + 1
        /\ rawIds' = listed
        /\ offered' = offered \cup {<<generation', i, listed[i]>> : i \in DOMAIN listed}
    BY <1>2, Zenon DEF Discover, listed
  <2>2. generation < MaxGeneration
    BY <1>2, BackendAssumption DEF OfferedInv
  <2> QED
    BY <1>1, <2>1, <2>2, Zenon DEF Selection!Search, Selection!Settle, Selection!Offer
<1>3. CASE UNCHANGED <<generation, rawIds, offered>>
  BY <1>3
<1> QED
  BY <1>2, <1>3, Zenon DEF Discover

LEMMA StepRefines ==
  OfferedInv /\ EntriesInv /\ [BackendNext]_backendVars => [Selection!Next]_Selection!vars
<1> SUFFICES ASSUME OfferedInv, EntriesInv, [BackendNext]_backendVars
             PROVE  Selection!Next \/ UNCHANGED <<generation, rawIds, offered>>
  BY DEF Selection!vars
<1>1. ASSUME NEW entries \in Seq(Entry), EndEnumeration(entries)
      PROVE  Selection!Search \/ UNCHANGED <<generation, rawIds, offered>>
  BY <1>1, DiscoverRefines, Zenon DEF EndEnumeration
<1>2. ASSUME NEW entry \in Entry, Enumerate(entry)
      PROVE  Selection!Search \/ UNCHANGED <<generation, rawIds, offered>>
  <2>1. Append(discovered, entry) \in Seq(Entry)
    BY DEF EntriesInv
  <2> QED
    BY <1>1, <1>2, <2>1, Zenon DEF Enumerate
<1>3. EnumerateEnd => Selection!Search \/ UNCHANGED <<generation, rawIds, offered>>
  BY <1>1, Zenon DEF EnumerateEnd, EntriesInv
<1>4. Close => Selection!Restart
  BY Zenon DEF Close, Selection!Restart
<1>5. \/ Open \/ (\E operation \in {"refresh", "scan"} : Execute(operation))
      \/ EnumerateFails \/ SetFlag \/ UNCHANGED backendVars
      => UNCHANGED <<generation, rawIds, offered>>
  BY Zenon DEF Open, Execute, EnumerateFails, SetFlag, backendVars
<1> QED
  BY <1>2, <1>3, <1>4, <1>5, Zenon DEF BackendNext, Selection!Next

\* The backend's refreshes are searches of a discovery that keeps its promise, for
\* any devices, any number and order of entries that WIA yields, and any limits.
THEOREM BackendIsDiscovery == BackendSpec => ImplementsSelection
<1>1. BackendInit => Selection!Init /\ EntriesInv
  BY DEF BackendInit, Selection!Init, EntriesInv
<1> QED
  BY <1>1, InitHolds, Inductive, EntriesStep, StepRefines, PTL
     DEF BackendSpec, ImplementsSelection, Selection!Spec

\* A refresh lists no more devices than entries.
LEMMA ListedFits ==
  ASSUME NEW entries \in Seq(Entry)
  PROVE  Len(Listed(entries)) <= Len(entries)
<1> DEFINE ids == [i \in DOMAIN entries |-> entries[i].id]
           First(i) == \A j \in 1 .. i - 1 : entries[j].id # entries[i].id
           mentions == {i \in DOMAIN entries : entries[i].id # NoId /\ entries[i].public /\ First(i)}
<1>1. \A entry \in Entry : entry.id \in Device \cup {NoId}
  BY DEF Entry
<1>2. ids \in Seq(Device \cup {NoId}) /\ Len(ids) = Len(entries)
  BY <1>1
<1>3. Listed(entries) = Subsequence(ids, mentions)
  BY Zenon DEF Listed
<1> HIDE DEF ids, mentions
<1> QED
  BY <1>2, <1>3, SubsequenceMembers

\* What the device list and its limits are, given that the enumeration collects entries.
ListTypes ==
  /\ discovered \in Seq(Entry) /\ Len(discovered) <= MaxDiscovered
  /\ generation \in 0 .. MaxGeneration
  /\ rawIds \in Seq(Device) /\ Len(rawIds) <= MaxDiscovered
  /\ offered \subseteq (Nat \X Nat \X Device)

StateTypes ==
  /\ manager \in BOOLEAN /\ enumerating \in BOOLEAN /\ cancelled \in BOOLEAN
  /\ reply \in {"none", "success", "cancelled", "unsupported_request", "thrown"}

LEMMA DiscoverTypes ==
  ASSUME ListTypes, NEW entries \in Seq(Entry), Discover(entries)
  PROVE  ListTypes'
<1> DEFINE listed == IF Len(entries) > MaxDiscovered THEN <<>> ELSE Listed(entries)
<1>1. listed \in Seq(Device) /\ Len(listed) <= MaxDiscovered
  <2>1. <<>> \in Seq(Device) /\ Len(<<>>) = 0
    OBVIOUS
  <2>2. /\ Listed(entries) \in Seq(Device)
        /\ Len(Listed(entries)) <= Len(entries) /\ Len(Listed(entries)) \in Nat
    BY ListedOnce, ListedFits
  <2> QED
    BY <2>1, <2>2, BackendAssumption
<1>2. discovered' = <<>> /\ Len(discovered') = 0 /\ discovered' \in Seq(Entry)
  <2>1. discovered' = <<>>
    BY Zenon DEF Discover, Reply
  <2> QED
    BY <2>1
<1> HIDE DEF listed
<1>3. CASE /\ generation # MaxGeneration /\ generation' = generation + 1 /\ rawIds' = listed
           /\ offered' = offered \cup {<<generation', i, listed[i]>> : i \in DOMAIN listed}
  <2>1. generation' \in 0 .. MaxGeneration /\ generation' \in Nat
    BY <1>3, BackendAssumption DEF ListTypes
  <2>2. \A i \in DOMAIN listed : <<generation', i, listed[i]>> \in Nat \X Nat \X Device
    BY <1>1, <2>1
  <2> QED
    BY <1>1, <1>2, <1>3, <2>1, <2>2, BackendAssumption DEF ListTypes
<1>4. CASE UNCHANGED <<generation, rawIds, offered>>
  BY <1>2, <1>4, BackendAssumption DEF ListTypes
<1> QED
  BY <1>3, <1>4, Zenon DEF Discover, listed

LEMMA ListTypesStep == ListTypes /\ [BackendNext]_backendVars => ListTypes'
<1> SUFFICES ASSUME ListTypes, [BackendNext]_backendVars PROVE ListTypes'
  OBVIOUS
<1> USE BackendAssumption
<1>1. discovered' = <<>> => discovered' \in Seq(Entry) /\ Len(discovered') <= MaxDiscovered
  OBVIOUS
<1>2. ASSUME UNCHANGED <<generation, rawIds, offered>>, discovered' = <<>> \/ UNCHANGED discovered
      PROVE  ListTypes'
  BY <1>1, <1>2 DEF ListTypes
<1>3. ASSUME NEW entries \in Seq(Entry), EndEnumeration(entries) PROVE ListTypes'
  BY <1>2, <1>3, DiscoverTypes, Zenon DEF EndEnumeration, Reply
<1>4. ASSUME NEW entry \in Entry, Enumerate(entry) PROVE ListTypes'
  <2>1. /\ Append(discovered, entry) \in Seq(Entry)
        /\ Len(Append(discovered, entry)) = Len(discovered) + 1 /\ Len(discovered) \in Nat
    BY DEF ListTypes
  <2>2. CASE EndEnumeration(Append(discovered, entry))
    BY <1>3, <2>1, <2>2
  <2>3. CASE /\ Len(discovered) # MaxDiscovered /\ discovered' = Append(discovered, entry)
             /\ UNCHANGED <<generation, rawIds, offered>>
    BY <2>1, <2>3 DEF ListTypes
  <2> QED
    BY <1>4, <2>2, <2>3, Zenon DEF Enumerate
<1>5. EnumerateEnd => ListTypes'
  BY <1>3, Zenon DEF EnumerateEnd, ListTypes
<1>6. CASE Close
  <2>1. /\ UNCHANGED discovered /\ generation' = 0 /\ rawIds' = <<>> /\ offered' = {}
    BY <1>6 DEF Close
  <2>2. rawIds' \in Seq(Device) /\ Len(rawIds') = 0
    BY <2>1
  <2> QED
    BY <2>1, <2>2 DEF ListTypes
<1>7. \/ Open \/ (\E operation \in {"refresh", "scan"} : Execute(operation))
      \/ EnumerateFails \/ SetFlag \/ UNCHANGED backendVars
      => UNCHANGED <<generation, rawIds, offered>> /\ (discovered' = <<>> \/ UNCHANGED discovered)
  BY Zenon DEF Open, Execute, EnumerateFails, SetFlag, Reply, backendVars
<1> QED
  BY <1>2, <1>4, <1>5, <1>6, <1>7, Zenon DEF BackendNext

LEMMA StateTypesStep == StateTypes /\ [BackendNext]_backendVars => StateTypes'
<1> SUFFICES ASSUME StateTypes, [BackendNext]_backendVars PROVE StateTypes'
  OBVIOUS
<1>1. /\ manager' \in {TRUE, FALSE, manager} /\ enumerating' \in {TRUE, FALSE, enumerating}
      /\ cancelled' \in {cancelled, ~cancelled}
      /\ reply' \in {"none", "success", "cancelled", "unsupported_request", "thrown", reply}
  BY Zenon DEF BackendNext, Open, Execute, Enumerate, EnumerateEnd, EnumerateFails, Close, SetFlag,
     EndEnumeration, Discover, Reply, backendVars
<1> QED
  BY <1>1, Zenon DEF StateTypes

\* However refreshes end, the backend lists at most as many devices as it takes, and
\* the loop that enumerates them holds no more entries than that.
THEOREM BackendTypeCorrect == BackendSpec => []BackendTypeOK
<1>1. BackendInit => ListTypes /\ StateTypes
  <2> SUFFICES ASSUME BackendInit PROVE ListTypes /\ StateTypes
    OBVIOUS
  <2>1. /\ manager = FALSE /\ enumerating = FALSE /\ discovered = <<>> /\ cancelled = FALSE
        /\ reply = "none" /\ generation = 0 /\ rawIds = <<>> /\ offered = {}
    BY DEF BackendInit
  <2>2. /\ discovered \in Seq(Entry) /\ Len(discovered) = 0
        /\ rawIds \in Seq(Device) /\ Len(rawIds) = 0
    BY <2>1
  <2>3. StateTypes
    BY <2>1, Zenon DEF StateTypes
  <2> QED
    BY <2>1, <2>2, <2>3, BackendAssumption DEF ListTypes
<1>2. ListTypes /\ StateTypes => BackendTypeOK
  BY Zenon DEF ListTypes, StateTypes, BackendTypeOK
<1> QED
  BY <1>1, <1>2, ListTypesStep, StateTypesStep, PTL DEF BackendSpec

-----------------------------------------------------------------------------
(* The negotiation of a scan's settings.                                   *)

\* Joining lists gives a list of their members.
LEMMA FlattenMembers ==
  ASSUME NEW P, NEW lists \in Seq(Seq(P))
  PROVE  FlattenSeq(lists) \in Seq(P)
<1> DEFINE n == Len(lists)
           S == Seq(P)
           Value(f, i) == IF i = 1 THEN lists[i] ELSE f[i - 1] \o lists[i]
           Equation(f) == f = [i \in 1 .. n |-> Value(f, i)]
           step == [i \in 1 .. n |-> [list \in S |-> IF i = 1 THEN lists[i] ELSE list \o lists[i]]]
           empty == <<>>
<1>1. n \in Nat /\ \A i \in 1 .. n : lists[i] \in S
  OBVIOUS
<1>2. CASE n = 0
  BY <1>2 DEF FlattenSeq
<1>3. CASE n # 0
  <2>1. step \in [1 .. n -> [S -> S]] /\ empty \in S
    <3>1. \A i \in 1 .. n, list \in S : list \o lists[i] \in S
      BY <1>1
    <3>2. empty \in S
      OBVIOUS
    <3> HIDE DEF n, S, empty
    <3> QED
      BY <1>1, <3>1, <3>2
  <2>2. PICK g : Runs(g, n, S, empty, step)
    <3> HIDE DEF n, S, empty, step
    <3> QED
      BY <1>1, <2>1, RecursionExists, Zenon
  <2> DEFINE h == [i \in 1 .. n |-> g[i]]
  <2>3. \A i \in 1 .. n : h[i] = Value(h, i)
    <3> TAKE i \in 1 .. n
    <3>1. g[i - 1] \in S /\ g[i] = step[i][g[i - 1]]
      <4> HIDE DEF S, step, empty, n
      <4> QED
        BY <1>1, <2>2 DEF Runs
    <3>2. g[i] = IF i = 1 THEN lists[i] ELSE g[i - 1] \o lists[i]
      <4> HIDE DEF S, n
      <4> QED
        BY <3>1
    <3> QED
      BY <1>1, <3>2
  <2>4. Equation(h)
    <3> HIDE DEF Value
    <3> QED
      BY <2>3
  <2> DEFINE f == CHOOSE k : Equation(k)
  <2>5. Equation(f)
    <3> HIDE DEF Equation, h
    <3> QED
      BY <2>4, Zenon
  <2>6. FlattenSeq(lists) = f[n]
    BY <1>3, Zenon DEF FlattenSeq
  <2> HIDE DEF f
  <2>7. \A i \in 1 .. n : f[i] = Value(f, i)
    <3> HIDE DEF Value
    <3> QED
      BY <2>5
  <2> DEFINE T == {i \in 0 .. n : i # 0 => f[i] \in S}
  <2>8. 0 \in T
    BY <1>1
  <2>9. ASSUME NEW i \in 1 .. n, i - 1 \in T PROVE i \in T
    <3>1. CASE i = 1
      BY <1>1, <2>7, <3>1
    <3>2. CASE i # 1
      <4>1. f[i - 1] \in S
        BY <2>9, <3>2
      <4>2. f[i] = f[i - 1] \o lists[i]
        BY <2>7, <3>2
      <4>3. \A s, t \in S : s \o t \in S
        OBVIOUS
      <4>4. lists[i] \in S
        BY <1>1
      <4> HIDE DEF S, n
      <4>5. f[i] \in S
        BY <4>1, <4>2, <4>3, <4>4, Zenon
      <4> QED
        BY <4>5
    <3> QED
      BY <3>1, <3>2
  <2>10. 0 .. n \subseteq T
    <3> HIDE DEF T, n
    <3> QED
      BY <1>1, <2>8, <2>9, IntervalInduction
  <2> QED
    BY <1>1, <1>3, <2>6, <2>10
<1> QED
  BY <1>2, <1>3

-----------------------------------------------------------------------------
\* What CapabilityAssumption says of a property.
Counted(optional) ==
  optional # <<>> => /\ optional[1].minimum \in Int /\ optional[1].maximum \in Int
                     /\ optional[1].step \in Int

LEMMA MultiplesDivide ==
  ASSUME NEW k \in Int, NEW s \in Nat \ {0}
  PROVE  (s * k) % s = 0
  OBVIOUS

\* Every value that the program takes from a property is one that the driver allows.
LEMMA AllowedByDriver ==
  ASSUME NEW optional, Counted(optional), NEW value \in AllowedValues(optional)
  PROVE  DriverAllows(optional, value)
<1> DEFINE property == optional[1]
<1>1. optional # <<>> /\ property.readable
  BY DEF AllowedValues
<1>2. CASE property.shape = "range"
  <2> DEFINE low == property.minimum
             high == property.maximum
             s == property.step
  <2>1. low \in Int /\ high \in Int /\ s \in Int
    BY <1>1 DEF Counted
  <2>2. s > 0 /\ low <= high /\ value \in RangeValues(property)
    <3>1. ~(s <= 0 \/ low > high) /\ value \in RangeValues(property)
      BY <1>1, <1>2 DEF AllowedValues
    <3> HIDE DEF low, high, s
    <3> QED
      BY <2>1, <3>1
  <2>3. PICK k \in 0 .. (high - low) \div s : value = low + s * k
    BY <2>2 DEF RangeValues
  <2> HIDE DEF low, high, s
  <2>4. (high - low) \div s \in Int /\ ((high - low) \div s) * s <= high - low
    BY <2>1, <2>2
  <2>5. s * k \in Nat /\ s * k <= high - low
    <3> DEFINE q == (high - low) \div s
    <3>1. q \in Int /\ k \in 0 .. q /\ q * s <= high - low
      BY <2>3, <2>4
    <3> HIDE DEF q
    <3>2. k * s <= q * s
      BY <2>1, <2>2, <3>1, SMTT(30)
    <3> QED
      BY <2>1, <2>2, <3>1, <3>2
  <2>6. value \in low .. high /\ value - low = s * k
    BY <2>1, <2>3, <2>5
  <2>7. (value - low) % s = 0
    BY <2>1, <2>2, <2>6, MultiplesDivide
  <2> QED
    BY <1>1, <1>2, <2>6, <2>7 DEF DriverAllows, low, high, s
<1>3. CASE property.shape # "range"
  BY <1>1, <1>3 DEF AllowedValues, DriverAllows
<1> QED
  BY <1>2, <1>3

\* The settings of a profile for this source are those of some item of a list.
Backs(item, profile) ==
  /\ item.category = IF profile.source = "flatbed" THEN "flatbed" ELSE "feeder"
  /\ item.transfer
  /\ profile.source = "adf_duplex" => SaysDuplex(item)
  /\ profile.dpi = Resolutions(item) /\ profile.colors = ColorModes(item)
  /\ profile.depths = BitDepths(item)
  /\ profile.pages = IF profile.source = "flatbed" THEN 1 ELSE PageLimit(item)

SettingSources == {"flatbed", "adf_simplex", "adf_duplex"}

Backed(list) ==
  {profile \in UNION {ToSet(ProfileFor(list[i], kind)) : i \in DOMAIN list, kind \in SettingSources} :
     \E i \in DOMAIN list : Backs(list[i], profile)}

LEMMA ProfileIsBacked ==
  ASSUME NEW Some, NEW list \in Seq(Some), NEW i \in DOMAIN list, NEW kind \in SettingSources,
         list[i].category = IF kind = "flatbed" THEN "flatbed" ELSE "feeder",
         kind = "adf_duplex" => SaysDuplex(list[i])
  PROVE  ProfileFor(list[i], kind) \in Seq(Backed(list))
<1> DEFINE profile == [source |-> kind, dpi |-> Resolutions(list[i]), colors |-> ColorModes(list[i]),
                       depths |-> BitDepths(list[i]),
                       pages |-> IF kind = "flatbed" THEN 1 ELSE PageLimit(list[i])]
           empty == <<>>
<1>1. CASE ProfileFor(list[i], kind) = empty
  BY <1>1
<1>2. CASE ProfileFor(list[i], kind) = <<profile>> /\ list[i].transfer
  <2>1. Backs(list[i], profile)
    BY <1>2 DEF Backs
  <2> HIDE DEF profile
  <2>2. profile \in ToSet(ProfileFor(list[i], kind))
    BY <1>2 DEF ToSet
  <2>3. profile \in Backed(list)
    BY <2>1, <2>2 DEF Backed
  <2> QED
    BY <1>2, <2>3
<1>3. ProfileFor(list[i], kind) = empty \/ (ProfileFor(list[i], kind) = <<profile>> /\ list[i].transfer)
  BY Zenon DEF ProfileFor
<1> QED
  BY <1>1, <1>2, <1>3

LEMMA ProfilesAreBacked ==
  ASSUME NEW Some, NEW list \in Seq(Some)
  PROVE  Profiles(list) \in Seq(Backed(list))
<1> DEFINE First(i) == \A j \in 1 .. i - 1 : list[j].category # list[i].category
           Of(i) ==
             IF ~First(i)
             THEN <<>>
             ELSE CASE list[i].category = "flatbed" -> ProfileFor(list[i], "flatbed")
                    [] list[i].category = "feeder" ->
                         ProfileFor(list[i], "adf_simplex") \o
                         (IF SaysDuplex(list[i]) THEN ProfileFor(list[i], "adf_duplex") ELSE <<>>)
                    [] OTHER -> <<>>
           lists == [i \in DOMAIN list |-> Of(i)]
           S == Seq(Backed(list))
<1>1. <<>> \in S /\ \A s, t \in S : s \o t \in S
  OBVIOUS
<1>2. \A i \in DOMAIN list : Of(i) \in S
  <2> TAKE i \in DOMAIN list
  <2>1. CASE First(i) /\ list[i].category = "flatbed"
    <3>1. Of(i) = ProfileFor(list[i], "flatbed")
      BY <2>1, Zenon
    <3>2. ProfileFor(list[i], "flatbed") \in S
      BY <2>1, ProfileIsBacked DEF SettingSources
    <3> QED
      BY <3>1, <3>2
  <2>2. CASE First(i) /\ list[i].category = "feeder"
    <3> DEFINE duplex == IF SaysDuplex(list[i]) THEN ProfileFor(list[i], "adf_duplex") ELSE <<>>
    <3>1. Of(i) = ProfileFor(list[i], "adf_simplex") \o duplex
      BY <2>2
    <3>2. ProfileFor(list[i], "adf_simplex") \in S
      BY <2>2, ProfileIsBacked DEF SettingSources
    <3>3. SaysDuplex(list[i]) => ProfileFor(list[i], "adf_duplex") \in S
      BY <2>2, ProfileIsBacked DEF SettingSources
    <3>4. duplex \in S
      BY <1>1, <3>3
    <3> HIDE DEF Of, S, duplex
    <3> QED
      BY <1>1, <3>1, <3>2, <3>4
  <2>3. CASE ~First(i) \/ list[i].category \notin {"flatbed", "feeder"}
    <3>1. Of(i) = <<>>
      BY <2>3
    <3> QED
      BY <1>1, <3>1
  <2> QED
    BY <2>1, <2>2, <2>3
<1>3. Profiles(list) = FlattenSeq(lists)
  BY Zenon DEF Profiles
<1> HIDE DEF Of
<1>4. lists \in Seq(S)
  BY <1>2
<1> HIDE DEF lists
<1> QED
  BY <1>3, <1>4, FlattenMembers

\* Settings that a profile supports are offered by an item of the device, with a page
\* count within its limit.
LEMMA SupportedByItem ==
  ASSUME items \in DeviceItems, NEW profile \in Backed(items), NEW of, Supports(profile, of)
  PROVE  \E i \in DOMAIN items :
           /\ Offers(items[i], of.source, of.dpi, of.color, of.depth)
           /\ of.pages \in 1 .. (IF of.source = "flatbed" THEN 1 ELSE PageLimit(items[i]))
           /\ Counted(items[i].pages)
<1>1. PICK i \in DOMAIN items : Backs(items[i], profile)
  BY DEF Backed
<1> DEFINE item == items[i]
<1>2. /\ profile.source = of.source /\ of.dpi \in Resolutions(item) /\ of.color \in ColorModes(item)
      /\ of.depth \in BitDepths(item)
      /\ of.pages \in 1 .. (IF of.source = "flatbed" THEN 1 ELSE PageLimit(item))
      /\ item.category = IF of.source = "flatbed" THEN "flatbed" ELSE "feeder"
      /\ item.transfer
      /\ of.source = "adf_duplex" => SaysDuplex(item)
  <2> HIDE DEF item
  <2>1. Backs(item, profile)
    BY <1>1 DEF item
  <2> QED
    BY <2>1 DEF Backs, Supports
<1>3. item \in Item
  BY CapabilityAssumption
<1>4. /\ Counted(item.x) /\ Counted(item.y) /\ Counted(item.type) /\ Counted(item.depth)
      /\ Counted(item.pages)
  <2>1. \A optional \in {item.x, item.y, item.type, item.depth, item.pages} :
          optional # <<>> =>
            {optional[1].minimum, optional[1].maximum, optional[1].step} \subseteq Int
    BY <1>3, CapabilityAssumption
  <2> HIDE DEF item
  <2>2. \A optional \in {item.x, item.y, item.type, item.depth, item.pages} : Counted(optional)
    BY <2>1 DEF Counted
  <2> QED
    BY <2>2
<1> HIDE DEF item
<1>5. /\ DriverAllows(item.x, of.dpi) /\ DriverAllows(item.y, of.dpi)
      /\ DriverAllows(item.type, DataType(of.color)) /\ DriverAllows(item.depth, of.depth)
  <2>1. /\ of.dpi \in AllowedValues(item.x) /\ of.dpi \in AllowedValues(item.y)
        /\ DataType(of.color) \in AllowedValues(item.type) /\ of.depth \in AllowedValues(item.depth)
    BY <1>2, Zenon DEF Resolutions, ColorModes, BitDepths
  <2> QED
    BY <1>4, <2>1, AllowedByDriver
<1>6. Offers(item, of.source, of.dpi, of.color, of.depth)
  BY <1>2, <1>5, Zenon DEF Offers
<1> QED
  BY <1>1, <1>2, <1>4, <1>6, Zenon DEF item

\* A page limit that is not zero is that of a page range, cut at MaxPageCount.
LEMMA LimitOfRange ==
  ASSUME NEW item, Counted(item.pages), NEW n \in 1 .. PageLimit(item)
  PROVE  /\ item.pages # <<>> /\ item.pages[1].readable /\ item.pages[1].shape = "range"
         /\ n \in 1 .. item.pages[1].maximum
<1> DEFINE most == item.pages[1].maximum
<1>1. PageLimit(item) # 0
  OBVIOUS
<1>2. /\ item.pages # <<>> /\ item.pages[1].readable /\ item.pages[1].shape = "range"
      /\ PageLimit(item) = IF most < MaxPageCount THEN most ELSE MaxPageCount
  BY <1>1, Zenon DEF PageLimit
<1>3. most \in Int
  BY <1>2 DEF Counted
<1> HIDE DEF most
<1>4. n \in 1 .. most
  BY <1>2, <1>3, CapabilityAssumption
<1> QED
  BY <1>2, <1>4 DEF most

LEMMA SupportedIsOffered ==
  ASSUME items \in DeviceItems, NEW profile \in Backed(items), NEW of, Supports(profile, of)
  PROVE  DeviceOffers(of.source, of.dpi, of.color, of.depth, of.pages)
<1>1. PICK i \in DOMAIN items :
        /\ Offers(items[i], of.source, of.dpi, of.color, of.depth)
        /\ of.pages \in 1 .. (IF of.source = "flatbed" THEN 1 ELSE PageLimit(items[i]))
        /\ Counted(items[i].pages)
  BY SupportedByItem
<1>2. /\ of.pages >= 1
      /\ IF of.source = "flatbed" THEN of.pages = 1 ELSE of.pages <= items[i].pages[1].maximum
  <2>1. CASE of.source = "flatbed"
    BY <1>1, <2>1
  <2>2. CASE of.source # "flatbed"
    <3>1. of.pages \in 1 .. PageLimit(items[i])
      BY <1>1, <2>2
    <3>2. of.pages \in 1 .. items[i].pages[1].maximum
      BY <1>1, <3>1, LimitOfRange
    <3>3. \A n, m : n \in 1 .. m => n >= 1 /\ n <= m
      OBVIOUS
    <3> QED
      BY <2>2, <3>2, <3>3, Zenon
  <2> QED
    BY <2>1, <2>2
<1> QED
  BY <1>1, <1>2, Zenon DEF DeviceOffers

\* A page count that starts at one or below and goes on by one.
PlainPages(item) ==
  item.pages # <<>> => item.pages[1].minimum <= 1 /\ item.pages[1].step = 1

\* Where the page counts are plain, so that max_pages() says all of a range, the page
\* count is one that the driver allows, too.
LEMMA SupportedIsReported ==
  ASSUME items \in DeviceItems, \A i \in DOMAIN items : PlainPages(items[i]),
         NEW profile \in Backed(items), NEW of, Supports(profile, of)
  PROVE  \E i \in DOMAIN items :
           /\ Offers(items[i], of.source, of.dpi, of.color, of.depth)
           /\ of.source # "flatbed" => DriverAllows(items[i].pages, of.pages)
<1>1. PICK i \in DOMAIN items :
        /\ Offers(items[i], of.source, of.dpi, of.color, of.depth)
        /\ of.pages \in 1 .. (IF of.source = "flatbed" THEN 1 ELSE PageLimit(items[i]))
        /\ Counted(items[i].pages)
  BY SupportedByItem
<1>2. ASSUME of.source # "flatbed" PROVE DriverAllows(items[i].pages, of.pages)
  <2> DEFINE range == items[i].pages[1]
             n == of.pages
  <2>1. of.pages \in 1 .. PageLimit(items[i])
    BY <1>1, <1>2
  <2>2. /\ items[i].pages # <<>> /\ range.readable /\ range.shape = "range"
        /\ n \in 1 .. range.maximum
    BY <1>1, <2>1, LimitOfRange
  <2>3. range.minimum \in Int /\ range.maximum \in Int /\ range.minimum <= 1 /\ range.step = 1
    BY <1>1, <2>2 DEF Counted, PlainPages
  <2> HIDE DEF n
  <2>4. n \in range.minimum .. range.maximum /\ (n - range.minimum) % range.step = 0
    <3> DEFINE low == range.minimum
               high == range.maximum
    <3>1. low \in Int /\ high \in Int /\ low <= 1 /\ n \in 1 .. high
      BY <2>2, <2>3
    <3> HIDE DEF low, high
    <3>2. n \in low .. high /\ (n - low) % 1 = 0
      BY <3>1
    <3> QED
      BY <2>3, <3>2 DEF low, high
  <2> QED
    BY <2>2, <2>4 DEF DriverAllows, n
<1> QED
  BY <1>1, <1>2, Zenon

-----------------------------------------------------------------------------
\* The profiles are those of the device's items, and there is one for the source of
\* settings that have been prepared.
CapabilityInv ==
  /\ items \in DeviceItems
  /\ profiles \in Seq(Backed(items))
  /\ stage \in {"written", "accepted"} => ProfilesOf(wanted) # <<>>
  /\ NegotiationHolds

LEMMA CapabilityInvInit == CapabilityInit => CapabilityInv
<1> SUFFICES ASSUME CapabilityInit PROVE CapabilityInv
  OBVIOUS
<1>1. items \in DeviceItems /\ stage = "device" /\ profiles = <<>>
  BY DEF CapabilityInit
<1>2. profiles \in Seq(Backed(items))
  BY <1>1
<1> QED
  BY <1>1, <1>2, Zenon DEF CapabilityInv, NegotiationHolds

\* The profile that the program finds for a source is one of the device.
LEMMA FoundIsBacked ==
  ASSUME CapabilityInv, NEW of, ProfilesOf(of) # <<>>
  PROVE  ProfilesOf(of)[1] \in Backed(items)
<1>1. ProfilesOf(of) \in Seq(Backed(items))
  BY SubsequenceMembers DEF CapabilityInv, ProfilesOf
<1> HIDE DEF ProfilesOf
<1> QED
  BY <1>1

LEMMA CapabilityInvStep == CapabilityInv /\ [CapabilityNext]_capabilityVars => CapabilityInv'
<1> SUFFICES ASSUME CapabilityInv, [CapabilityNext]_capabilityVars PROVE CapabilityInv'
  OBVIOUS
<1>1. CASE MapCapabilities
  <2>1. items' = items /\ stage' = "profiles" /\ profiles' = Profiles(items)
    BY <1>1 DEF MapCapabilities
  <2>2. items \in Seq(Item)
    BY CapabilityAssumption DEF CapabilityInv
  <2>3. profiles' \in Seq(Backed(items))
    BY <2>1, <2>2, ProfilesAreBacked
  <2> QED
    BY <2>1, <2>3 DEF CapabilityInv, NegotiationHolds
<1>2. ASSUME NEW of \in Request, PrepareWrites(of) PROVE CapabilityInv'
  <2>1. /\ ProfilesOf(of) # <<>> /\ Supports(ProfilesOf(of)[1], of)
        /\ stage' = "written" /\ wanted' = of /\ items' = items /\ profiles' = profiles
        /\ writes' = [x |-> of.dpi, y |-> of.dpi, type |-> DataType(of.color),
                      depth |-> of.depth, pages |-> of.pages]
    BY <1>2, Zenon DEF PrepareWrites
  <2>2. DeviceOffers(of.source, of.dpi, of.color, of.depth, of.pages)
    BY <2>1, FoundIsBacked, SupportedIsOffered DEF CapabilityInv
  <2>3. writes'.x = writes'.y
    BY <2>1
  <2>4. (DeviceOffers(wanted.source, wanted.dpi, wanted.color, wanted.depth, wanted.pages))'
    BY <2>1, <2>2, Zenon DEF DeviceOffers
  <2>5. (ProfilesOf(wanted))' # <<>>
    BY <2>1, Zenon DEF ProfilesOf
  <2>6. items' \in DeviceItems /\ profiles' \in Seq(Backed(items'))
    BY <2>1 DEF CapabilityInv
  <2> QED
    BY <2>1, <2>3, <2>4, <2>5, <2>6, Zenon DEF CapabilityInv, NegotiationHolds
<1>3. ASSUME NEW values \in Readback, ReadBack(values) PROVE CapabilityInv'
  <2> DEFINE settings == [source |-> wanted.source, dpi |-> values.x, color |-> values.color,
                          depth |-> values.depth, pages |-> values.pages]
  <2>1. /\ stage = "written" /\ stage' = "accepted" /\ UNCHANGED <<items, profiles, wanted, writes>>
        /\ Supports(ProfilesOf(wanted)[1], settings)
        /\ accepted' = [dpi |-> values.x, color |-> values.color, depth |-> values.depth,
                        pages |-> values.pages, coerced |-> settings # wanted]
    BY <1>3, Zenon DEF ReadBack
  <2>2. DeviceOffers(settings.source, settings.dpi, settings.color, settings.depth, settings.pages)
    <3>1. ProfilesOf(wanted)[1] \in Backed(items)
      BY <2>1, FoundIsBacked DEF CapabilityInv
    <3> HIDE DEF settings
    <3> QED
      BY <2>1, <3>1, SupportedIsOffered DEF CapabilityInv
  <2>3. (DeviceOffers(wanted.source, accepted.dpi, accepted.color, accepted.depth, accepted.pages))'
    <3>1. /\ settings.source = wanted'.source /\ settings.dpi = accepted'.dpi
          /\ settings.color = accepted'.color /\ settings.depth = accepted'.depth
          /\ settings.pages = accepted'.pages
      BY <2>1
    <3> HIDE DEF settings
    <3> QED
      BY <2>1, <2>2, <3>1, Zenon DEF DeviceOffers
  <2>4. \/ accepted'.coerced
        \/ accepted' = [dpi |-> wanted'.dpi, color |-> wanted'.color, depth |-> wanted'.depth,
                        pages |-> wanted'.pages, coerced |-> FALSE]
    <3>1. CASE settings = wanted
      <4>1. /\ wanted.dpi = values.x /\ wanted.color = values.color /\ wanted.depth = values.depth
            /\ wanted.pages = values.pages
        BY <3>1
      <4>2. (settings # wanted) = FALSE
        BY <3>1, Zenon
      <4> HIDE DEF settings
      <4> QED
        BY <2>1, <4>1, <4>2, Zenon
    <3>2. CASE settings # wanted
      <4>1. (settings # wanted) = TRUE
        BY <3>2, Zenon
      <4>2. \A coerced : [dpi |-> values.x, color |-> values.color, depth |-> values.depth,
                         pages |-> values.pages, coerced |-> coerced].coerced = coerced
        OBVIOUS
      <4>3. accepted'.coerced = TRUE
        BY <2>1, <4>1, <4>2, Zenon
      <4> QED
        BY <4>3
    <3> QED
      BY <3>1, <3>2
  <2>5. (DeviceOffers(wanted.source, wanted.dpi, wanted.color, wanted.depth, wanted.pages))'
        /\ writes'.x = writes'.y
    <3>1. DeviceOffers(wanted.source, wanted.dpi, wanted.color, wanted.depth, wanted.pages)
          /\ writes.x = writes.y
      BY <2>1, Zenon DEF CapabilityInv, NegotiationHolds
    <3> QED
      BY <2>1, <3>1, Zenon DEF DeviceOffers
  <2>6. (ProfilesOf(wanted))' # <<>> /\ items' \in DeviceItems /\ profiles' \in Seq(Backed(items'))
    <3>1. ProfilesOf(wanted) # <<>>
      BY <2>1, Zenon DEF CapabilityInv
    <3> QED
      BY <2>1, <3>1 DEF CapabilityInv, ProfilesOf
  <2> QED
    BY <2>1, <2>3, <2>4, <2>5, <2>6, Zenon DEF CapabilityInv, NegotiationHolds
<1>4. CASE UNCHANGED capabilityVars
  BY <1>4, Zenon DEF capabilityVars, CapabilityInv, NegotiationHolds, ProfilesOf, DeviceOffers
<1> QED
  BY <1>1, <1>2, <1>3, <1>4, Zenon DEF CapabilityNext

\* What is written to the driver and what is accepted of its answer is a source, a
\* resolution, a colour and a depth that one item of the device reports together, and a
\* page count that is not zero and not above the maximum of that item's page range: for
\* any device and limits, any request and any answer.
THEOREM NegotiationIsSound == CapabilitySpec => []NegotiationHolds
<1>1. CapabilityInv => NegotiationHolds
  BY DEF CapabilityInv
<1> QED
  BY <1>1, CapabilityInvInit, CapabilityInvStep, PTL DEF CapabilitySpec

\* No device has a page range with a minimum above one or a step other than one.
PlainDevices == \A list \in DeviceItems : \A i \in DOMAIN list : PlainPages(list[i])

LEMMA PagesStep ==
  ASSUME PlainDevices, CapabilityInv, PagesReported, [CapabilityNext]_capabilityVars
  PROVE  PagesReported'
<1>1. CASE MapCapabilities
  BY <1>1 DEF MapCapabilities, PagesReported
<1>2. ASSUME NEW of \in Request, PrepareWrites(of) PROVE PagesReported'
  <2>1. /\ ProfilesOf(of) # <<>> /\ Supports(ProfilesOf(of)[1], of)
        /\ wanted' = of /\ items' = items
    BY <1>2, Zenon DEF PrepareWrites
  <2>2. items \in DeviceItems /\ \A i \in DOMAIN items : PlainPages(items[i])
    BY Zenon DEF CapabilityInv, PlainDevices
  <2>3. ProfilesOf(of)[1] \in Backed(items)
    BY <2>1, FoundIsBacked
  <2>4. \E i \in DOMAIN items :
          /\ Offers(items[i], of.source, of.dpi, of.color, of.depth)
          /\ of.source # "flatbed" => DriverAllows(items[i].pages, of.pages)
    BY <2>1, <2>2, <2>3, SupportedIsReported
  <2> QED
    BY <2>1, <2>4, Zenon DEF PagesReported
<1>3. ASSUME NEW values \in Readback, ReadBack(values) PROVE PagesReported'
  BY <1>3 DEF ReadBack, PagesReported
<1>4. CASE UNCHANGED capabilityVars
  BY <1>4, Zenon DEF capabilityVars, PagesReported
<1> QED
  BY <1>1, <1>2, <1>3, <1>4, Zenon DEF CapabilityNext

\* The divergence that the run over page ranges finds has no other cause: where every
\* page range starts at one or below and goes on by one, a request is rejected unless
\* each of its values, the page count too, is one that the driver reports.
THEOREM PlainPagesAreReported ==
  ASSUME PlainDevices
  PROVE  CapabilitySpec => []PagesReported
<1>1. CapabilityInit => PagesReported
  BY DEF CapabilityInit, PagesReported
<1>2. CapabilityInv /\ PagesReported /\ [CapabilityNext]_capabilityVars => PagesReported'
  BY PagesStep
<1> QED
  BY <1>1, <1>2, CapabilityInvInit, CapabilityInvStep, PTL DEF CapabilitySpec
=============================================================================
