-------------------------- MODULE WsdCancellation --------------------------
(***************************************************************************)
(* The std::atomic_bool that the caller of WsdDiscoveryModel::refresh() or *)
(* BoundedWsdHttpTransport::post() passes by reference and another thread  *)
(* may set at any moment while the call runs.                              *)
(***************************************************************************)
VARIABLE cancelled      \* cancel_requested

\* Another thread asks for the running call to stop.
RequestCancel == ~cancelled /\ cancelled' = TRUE

\* The caller passes a fresh flag to its next call.
FreshFlag == cancelled /\ cancelled' = FALSE
=============================================================================
