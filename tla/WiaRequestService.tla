------------------------- MODULE WiaRequestService -------------------------
(***************************************************************************)
(* What WiaComWorker (src/src/wia_com_worker.h) promises to the threads    *)
(* that use it, without its thread, locks and flags: accepted requests are *)
(* answered once each, in the order they were accepted; a request is       *)
(* answered "cancelled" only if somebody asked for that; the service is    *)
(* released only when it owes no answer.                                   *)
(***************************************************************************)
EXTENDS Naturals, Sequences, SequencesExt

CONSTANTS
  Requests,    \* the requests the clients may submit, each at most once
  QueueLimit   \* requests that may wait behind the active one

VARIABLES
  phase,     \* "down", "up" (accepting) or "draining" (refusing, still answering)
  pending,   \* the accepted requests that are owed an answer, oldest first
  asked,     \* the requests whose cancellation took effect while they were oldest
  inHand,    \* the request being executed when draining began, until its answer
  answer     \* the answer each request has had, "none" before it

vars == <<phase, pending, asked, inHand, answer>>

Answers == {"success", "issue", "driver_failure", "cancelled"}

Init ==
  /\ phase = "down"
  /\ pending = << >>
  /\ asked = {}
  /\ inHand = {}
  /\ answer = [r \in Requests |-> "none"]

Open ==
  /\ phase = "down"
  /\ phase' = "up"
  /\ UNCHANGED <<pending, asked, inHand, answer>>

Accept(r) ==
  /\ phase = "up"
  /\ answer[r] = "none"
  /\ r \notin Range(pending)
  /\ Len(pending) <= QueueLimit
  /\ pending' = Append(pending, r)
  /\ UNCHANGED <<phase, asked, inHand, answer>>

Cancel ==
  /\ pending # << >>
  /\ asked' = asked \cup {Head(pending)}
  /\ UNCHANGED <<phase, pending, inHand, answer>>

\* The oldest request is answered. While draining, only the request that was
\* already in hand may still be answered anything but "cancelled".
Reply(a) ==
  /\ pending # << >>
  /\ a = "cancelled" => Head(pending) \in asked \/ phase = "draining"
  /\ phase = "draining" /\ a # "cancelled" => Head(pending) \in inHand
  /\ answer' = [answer EXCEPT ![Head(pending)] = a]
  /\ pending' = Tail(pending)
  /\ inHand' = {}
  /\ UNCHANGED <<phase, asked>>

\* No request is accepted from here on. A request in hand may be asked to stop.
Drain ==
  /\ phase = "up"
  /\ phase' = "draining"
  /\ \/ inHand' = {} /\ UNCHANGED asked
     \/ /\ pending # << >>
        /\ inHand' = {Head(pending)}
        /\ asked' \in {asked, asked \cup inHand'}
  /\ UNCHANGED <<pending, answer>>

Release ==
  /\ phase = "draining"
  /\ pending = << >>
  /\ phase' = "down"
  /\ UNCHANGED <<pending, asked, inHand, answer>>

Next ==
  \/ Open
  \/ \E r \in Requests : Accept(r)
  \/ Cancel
  \/ \E a \in Answers : Reply(a)
  \/ Drain
  \/ Release

Spec == Init /\ [][Next]_vars
=============================================================================
