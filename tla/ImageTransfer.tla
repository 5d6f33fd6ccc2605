--------------------------- MODULE ImageTransfer ---------------------------
(***************************************************************************)
(* What an image transfer promises, whatever the protocol: it gets one     *)
(* owner, images are asked for in the owner's name only and are counted    *)
(* one by one within its limits, and it ends once, as complete, cancelled   *)
(* or failed. An end can still be overruled by a failure, by nothing else. *)
(***************************************************************************)
EXTENDS Naturals

CONSTANTS
  Owner,                \* those a transfer may belong to
  Nobody,               \* none of them
  MaxImages, MaxBytes   \* the limits of one transfer

VARIABLES
  owner,    \* whose transfer it is, or Nobody yet
  asker,    \* in whose name an image is being asked for, or Nobody
  end,      \* "none" yet, "complete", "cancelled" or "failed"
  images,   \* complete images
  bytes     \* the bytes of the complete images

vars == <<owner, asker, end, images, bytes>>

Init ==
  /\ owner = Nobody /\ asker = Nobody /\ end = "none"
  /\ images = 0 /\ bytes = 0

Open ==
  /\ end = "none" /\ owner = Nobody
  /\ owner' \in Owner
  /\ UNCHANGED <<asker, end, images, bytes>>

Ask ==
  /\ end = "none" /\ owner # Nobody /\ asker = Nobody
  /\ asker' = owner
  /\ UNCHANGED <<owner, end, images, bytes>>

\* One more image, of at least one byte; it may be the last.
Receive ==
  /\ end = "none" /\ asker # Nobody /\ asker = owner
  /\ images < MaxImages
  /\ images' = images + 1
  /\ bytes' \in bytes + 1 .. MaxBytes
  /\ end' \in {"none", "complete"}
  /\ asker' = Nobody
  /\ UNCHANGED owner

Cancel ==
  /\ end = "none" /\ owner # Nobody
  /\ end' = "cancelled"
  /\ asker' = Nobody
  /\ UNCHANGED <<owner, images, bytes>>

Fail ==
  /\ end' = "failed"
  /\ asker' = Nobody
  /\ UNCHANGED <<owner, images, bytes>>

Next == Open \/ Ask \/ Receive \/ Cancel \/ Fail

Spec == Init /\ [][Next]_vars
=============================================================================
