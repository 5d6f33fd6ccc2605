-------------------------- MODULE WiaWorkerModel --------------------------
(***************************************************************************)
(* The value-only lifecycle of src/src/wia_worker_model.cpp. A value is    *)
(* the snapshot() record. Each method is a pair: CanX(w) says that the     *)
(* method does not throw, AfterX(w) is the value it leaves; a method that  *)
(* throws leaves the value as it was.                                      *)
(***************************************************************************)

Operations == {"refresh", "connect", "scan"}

States == {"stopped", "idle", "refreshing", "connecting", "scanning", "cancelling"}

Snapshots == [state : States, operation : Operations \cup {"none"}, cancel : BOOLEAN]

Stopped == [state |-> "stopped", operation |-> "none", cancel |-> FALSE]

Idle == [state |-> "idle", operation |-> "none", cancel |-> FALSE]

Busy == {"refreshing", "connecting", "scanning"}

\* start() throws unless stopped; run() calls it once, on a fresh value.
AfterStart(w) == [state |-> "idle", operation |-> w.operation, cancel |-> w.cancel]

CanBegin(w, op) == w.state = "idle" /\ op # "none"

BusyWith(op) ==
  IF op = "refresh" THEN "refreshing" ELSE IF op = "connect" THEN "connecting" ELSE "scanning"

AfterBegin(w, op) == [state |-> BusyWith(op), operation |-> op, cancel |-> FALSE]

\* A mutant: a scan cannot be cancelled.
CanCancelUnlessScanning(w) == w.state \in {"refreshing", "connecting"}

CanCancel(w) == w.state \in Busy

AfterCancel(w) == [state |-> "cancelling", operation |-> w.operation, cancel |-> TRUE]

CanComplete(w) == w.state \in Busy \cup {"cancelling"}

\* A mutant: only the state is reset.
AfterCompletePartly(w) == [state |-> "idle", operation |-> w.operation, cancel |-> w.cancel]

AfterComplete(w) == Idle

CanShutdown(w) == w.state \in {"idle", "stopped"}

AfterShutdown(w) == Stopped
=============================================================================
