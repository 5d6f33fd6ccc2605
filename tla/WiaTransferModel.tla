-------------------------- MODULE WiaTransferModel --------------------------
(***************************************************************************)
(* WiaTransferModel of src/src/wia_transfer_model.cpp: the protocol of one *)
(* image transfer, fed by a driver's callbacks and the user's cancellation *)
(* in whatever order they arrive. One action is one method. A method called *)
(* out of sequence does change the state: it fails the transfer and throws. *)
(* Byte counts are machine words, so that a subtraction that should not    *)
(* wrap around would.                                                      *)
(***************************************************************************)
EXTENDS MachineWords

CONSTANTS
  MaxPages,       \* TransferLimits::max_pages
  MaxPageBytes,   \* TransferLimits::max_page_bytes
  MaxTotalBytes,  \* TransferLimits::max_total_bytes
  MaxDimension    \* TransferLimits::max_dimension

\* The checks of the constructor, and the width of its arguments.
ASSUME LimitsAssumption ==
  /\ Word \in Nat /\ MaxPages \in Nat \ {0} /\ MaxDimension \in Nat \ {0}
  /\ MaxPageBytes \in 1 .. MaxTotalBytes
  /\ MaxTotalBytes \in 1 .. Word - 1

VARIABLES
  state, failure, source,
  requested,     \* requested_pages_
  pages,         \* completed_pages_
  total,         \* completed_bytes_
  current,       \* current_page_bytes_
  declared,      \* declared_page_bytes_
  open,          \* page_open_
  shortBatch     \* short_batch_

request == <<source, requested>>
done == <<pages, total, shortBatch>>
page == <<open, current, declared>>
vars == <<state, failure, request, done, page>>

Sources == {"flatbed", "feeder"}

Failures ==
  {"none", "cancelled", "feeder_empty", "paper_jam", "device_lost", "transfer_limit",
   "invalid_image", "protocol_error"}

Init ==
  /\ state = "idle" /\ failure = "none"
  /\ source = "flatbed" /\ requested = 0
  /\ pages = 0 /\ total = 0 /\ shortBatch = FALSE
  /\ open = FALSE /\ current = 0 /\ declared = 0

\* fail().
Fail(reason) ==
  /\ state' = "failed"
  /\ failure' = reason
  /\ open' = FALSE /\ current' = 0 /\ declared' = 0
  /\ UNCHANGED <<request, done>>

\* A method that may run in sequence fails the transfer otherwise.
Protocol(sequence, effect) ==
  \/ sequence /\ effect
  \/ ~sequence /\ Fail("protocol_error")

Configure(from, count) ==
  Protocol(state = "idle",
    IF count = 0 \/ count > MaxPages \/ (from = "flatbed" /\ count # 1)
    THEN Fail("transfer_limit")
    ELSE /\ source' = from
         /\ requested' = count
         /\ state' = "configured"
         /\ UNCHANGED <<failure, done, page>>)

BeginTransfer ==
  Protocol(state = "configured",
    /\ state' = "transferring"
    /\ UNCHANGED <<failure, request, done, page>>)

\* A mutant: the bytes of the earlier pages are forgotten.
BeginPageAfresh(width, height, bytes) ==
  Protocol(state = "transferring" /\ ~open /\ pages < requested,
    IF {width, height} \subseteq 1 .. MaxDimension /\ bytes \in 1 .. MaxPageBytes
    THEN /\ open' = TRUE /\ current' = 0 /\ declared' = bytes
         /\ UNCHANGED <<state, failure, request, done>>
    ELSE Fail("transfer_limit"))

BeginPage(width, height, bytes) ==
  Protocol(state = "transferring" /\ ~open /\ pages < requested,
    IF /\ {width, height} \subseteq 1 .. MaxDimension
       /\ bytes \in 1 .. MaxPageBytes
       /\ bytes <= Minus(MaxTotalBytes, total)
    THEN /\ open' = TRUE /\ current' = 0 /\ declared' = bytes
         /\ UNCHANGED <<state, failure, request, done>>
    ELSE Fail("transfer_limit"))

AcceptChunk(bytes) ==
  Protocol(state = "transferring" /\ open /\ bytes # 0,
    IF /\ bytes <= Minus(MaxPageBytes, current)
       /\ bytes <= Minus(Minus(MaxTotalBytes, total), current)
       /\ bytes <= Minus(declared, current)
    THEN /\ current' = (current + bytes) % Word
         /\ UNCHANGED <<state, failure, request, done, open, declared>>
    ELSE Fail("transfer_limit"))

CompletePage(valid) ==
  Protocol(state = "transferring" /\ open /\ current # 0 /\ current = declared,
    IF valid
    THEN /\ pages' = pages + 1
         /\ total' = (total + current) % Word
         /\ open' = FALSE /\ current' = 0 /\ declared' = 0
         /\ UNCHANGED <<state, failure, request, shortBatch>>
    ELSE Fail("invalid_image"))

\* A mutant: a cancellation that comes too late revives the transfer.
RequestCancelAnytime ==
  /\ state' = "cancelling"
  /\ UNCHANGED <<failure, request, done, page>>

RequestCancel ==
  Protocol(state = "transferring",
    /\ state' = "cancelling"
    /\ UNCHANGED <<failure, request, done, page>>)

AcknowledgeCancel == Protocol(state = "cancelling", Fail("cancelled"))

\* A mutant: the page the feeder was delivering is ignored.
ReportFeederEmptyMidPage ==
  Protocol(state = "transferring" /\ source # "flatbed",
    IF pages = 0
    THEN Fail("feeder_empty")
    ELSE /\ state' = "completed"
         /\ shortBatch' = (pages < requested)
         /\ UNCHANGED <<failure, request, pages, total, page>>)

ReportFeederEmpty ==
  Protocol(state = "transferring" /\ ~open /\ source # "flatbed",
    IF pages = 0
    THEN Fail("feeder_empty")
    ELSE /\ state' = "completed"
         /\ shortBatch' = (pages < requested)
         /\ UNCHANGED <<failure, request, pages, total, page>>)

ReportFailure(reason) ==
  Protocol(state \in {"transferring", "cancelling"} /\ reason \in {"paper_jam", "device_lost"},
    Fail(reason))

FinishTransfer ==
  Protocol(state = "transferring" /\ ~open,
    IF pages # requested
    THEN Fail("protocol_error")
    ELSE state' = "completed" /\ UNCHANGED <<failure, request, done, page>>)

-----------------------------------------------------------------------------
Next ==
  \/ \E from \in Sources, count \in 0 .. MaxPages + 1 : Configure(from, count)
  \/ BeginTransfer
  \/ \E width, height \in 0 .. MaxDimension + 1, bytes \in Bytes : BeginPage(width, height, bytes)
  \/ \E bytes \in Bytes : AcceptChunk(bytes)
  \/ \E valid \in BOOLEAN : CompletePage(valid)
  \/ RequestCancel
  \/ AcknowledgeCancel
  \/ ReportFeederEmpty
  \/ \E reason \in Failures : ReportFailure(reason)
  \/ FinishTransfer

Spec == Init /\ [][Next]_vars

-----------------------------------------------------------------------------
FlagTypeOK == open \in BOOLEAN /\ shortBatch \in BOOLEAN

DataTypeOK ==
  /\ state \in {"idle", "configured", "transferring", "cancelling", "completed", "failed"}
  /\ failure \in Failures
  /\ source \in Sources
  /\ requested \in 0 .. MaxPages /\ pages \in 0 .. MaxPages
  /\ total \in Bytes /\ current \in Bytes /\ declared \in Bytes

\* Every variable has the type of the member it stands for, and the page counts
\* keep to the limit.
TypeOK == FlagTypeOK /\ DataTypeOK

\* Whatever the driver delivers, no limit is exceeded, and so none of the
\* subtractions of unsigned numbers in begin_page() and accept_chunk() wraps
\* around: the page in progress keeps to what was declared for it, that fits
\* beside the pages already there, and every page counted has bytes.
WithinLimits ==
  /\ pages <= requested
  /\ current <= declared /\ declared <= MaxPageBytes
  /\ total + declared <= MaxTotalBytes
  /\ pages <= total

\* outcome() distinguishes complete, short and failed batches: a completed
\* transfer has every requested page, or is a short batch of a feeder with at
\* least one; it has no page in progress and no failure, and a failed one has a
\* reason and gives up the page in progress.
OutcomeConsistent ==
  /\ state = "completed" =>
       \/ pages = requested /\ ~shortBatch
       \/ pages \in 1 .. requested - 1 /\ shortBatch /\ source = "feeder"
  /\ state = "failed" <=> failure # "none"
  /\ open => state \in {"transferring", "cancelling"}
  /\ ~open => current = 0 /\ declared = 0

\* The user has cancelled, or the transfer has ended.
Over == state \in {"cancelling", "completed", "failed"}

\* Once the user has cancelled, or the transfer has ended, no late callback adds
\* a page or bytes or turns the outcome into a success: a call out of sequence
\* can only leave a protocol error, and a cancelled transfer never completes.
LateCallbacksAddNothing ==
  [][Over =>
       /\ state' = "failed"
       /\ state # "cancelling" => failure' = "protocol_error"
       /\ UNCHANGED <<pages, total, shortBatch>>]_vars
=============================================================================
