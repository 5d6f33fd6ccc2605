-------------------------- MODULE MockGuiDiscovery --------------------------
(***************************************************************************)
(* The live-scanner part of src/src/mock_gui.cpp: the Refresh button, the  *)
(* poll timer, the scanner combo box and the window's end, over the worker *)
(* the window owns. The worker is the service WiaRequestService, which     *)
(* WiaComWorker implements; its variables are declared here.               *)
(*                                                                         *)
(* There is one UI thread. One action is one message handler, or, where a  *)
(* handler waits for the worker, the part of it up to or from the wait.    *)
(* Only in start(), submit() and shutdown() of the worker may it wait.     *)
(***************************************************************************)
EXTENDS Naturals, Sequences, SequencesExt

CONSTANTS
  Requests,     \* one for each time Refresh reaches submit()
  QueueLimit,   \* of the worker
  NoRequest     \* no discovery is pending

ASSUME DiscoveryAssumption == NoRequest \notin Requests /\ QueueLimit \in Nat \ {0}

VARIABLES
  phase, pending, asked, inHand, answer,   \* of WiaRequestService
  thread,   \* the UI thread: "messages", "submitting", "closing" or "gone"
  worker,   \* wia_worker: "none", "failed" (an object that did not start) or "started"
  future,   \* discovery_future: the request it belongs to, or NoRequest
  timer,    \* kDiscoveryTimer is set
  combo,    \* what scanner_combo lists: "hint", "searching", "nothing" or "devices"
  latest    \* history: the request submitted last

Service == INSTANCE WiaRequestService

service == <<phase, pending, asked, inHand, answer>>
window == <<future, timer, combo, latest>>
vars == <<service, thread, worker, window>>

Init ==
  /\ Service!Init
  /\ thread = "messages"
  /\ worker = "none"
  /\ future = NoRequest
  /\ timer = FALSE
  /\ combo = "hint"
  /\ latest = NoRequest

-----------------------------------------------------------------------------
\* refresh_live_scanners() without a worker: the object stays if start() throws.
StartWorker ==
  /\ thread = "messages"
  /\ future = NoRequest
  /\ worker = "none"
  /\ \/ worker' = "started" /\ thread' = "submitting" /\ Service!Open
     \/ worker' = "failed" /\ UNCHANGED <<thread, service>>
  /\ UNCHANGED window

\* A mutant: Refresh does not look for a discovery in progress.
RefreshAnyway ==
  /\ thread = "submitting" \/ (thread = "messages" /\ worker = "started")
  /\ \E r \in Requests :
       /\ Service!Accept(r)
       /\ future' = r
       /\ latest' = r
  /\ combo' = "searching"
  /\ timer' = TRUE
  /\ thread' = "messages"
  /\ UNCHANGED worker

\* A mutant: the poll timer is not set.
RefreshWithoutTimer ==
  /\ thread = "submitting" \/ (thread = "messages" /\ worker = "started" /\ future = NoRequest)
  /\ \E r \in Requests :
       /\ Service!Accept(r)
       /\ future' = r
       /\ latest' = r
  /\ combo' = "searching"
  /\ thread' = "messages"
  /\ UNCHANGED <<worker, timer>>

\* refresh_live_scanners() from submit() on. A worker that did not start makes
\* submit() throw, which changes nothing.
Refresh ==
  /\ thread = "submitting" \/ (thread = "messages" /\ worker = "started" /\ future = NoRequest)
  /\ \E r \in Requests :
       /\ Service!Accept(r)
       /\ future' = r
       /\ latest' = r
  /\ combo' = "searching"
  /\ timer' = TRUE
  /\ thread' = "messages"
  /\ UNCHANGED worker

\* A mutant: whatever the answer is, the list is shown.
PollUnread ==
  /\ thread = "messages"
  /\ future # NoRequest /\ answer[future] # "none"
  /\ timer' = FALSE
  /\ future' = NoRequest
  /\ combo' \in {"nothing", "devices"}
  /\ UNCHANGED <<service, thread, worker, latest>>

\* poll_live_scanners() with an answer; without one it changes nothing. The
\* timer's message may be an old one, sent before the timer was last killed.
Poll ==
  /\ thread = "messages"
  /\ future # NoRequest /\ answer[future] # "none"
  /\ timer' = FALSE
  /\ future' = NoRequest
  /\ combo' \in IF answer[future] = "success" THEN {"nothing", "devices"} ELSE {"nothing"}
  /\ UNCHANGED <<service, thread, worker, latest>>

\* A mutant: the worker is dropped without a shutdown.
DestroyAtOnce ==
  /\ thread = "messages"
  /\ timer' = FALSE
  /\ thread' = "gone"
  /\ worker' = "none"
  /\ UNCHANGED <<service, future, combo, latest>>

\* A mutant: the worker is joined without having been told to stop.
DestroyUntold ==
  /\ thread = "messages"
  /\ timer' = FALSE
  /\ IF worker = "started"
     THEN thread' = "closing" /\ UNCHANGED worker
     ELSE thread' = "gone" /\ worker' = "none"
  /\ UNCHANGED <<service, future, combo, latest>>

\* WM_DESTROY up to the wait in shutdown(), and the end without a wait of a
\* worker that is not there or did not start.
Destroy ==
  /\ thread = "messages"
  /\ timer' = FALSE
  /\ IF worker = "started"
     THEN thread' = "closing" /\ Service!Drain /\ UNCHANGED worker
     ELSE thread' = "gone" /\ worker' = "none" /\ UNCHANGED service
  /\ UNCHANGED <<future, combo, latest>>

\* shutdown() returns.
Destroyed ==
  /\ thread = "closing"
  /\ Service!Release
  /\ thread' = "gone"
  /\ worker' = "none"
  /\ UNCHANGED window

\* The worker answers on its own thread.
Answer ==
  /\ \E a \in Service!Answers : Service!Reply(a)
  /\ UNCHANGED <<thread, worker, window>>

Next == StartWorker \/ Refresh \/ Poll \/ Destroy \/ Destroyed \/ Answer

Spec == Init /\ [][Next]_vars

\* The worker answers, the timer's messages are dispatched while the timer is
\* set, and a handler goes on when its wait is over. Nobody has to click.
FairSpec ==
  /\ Spec
  /\ WF_vars(Answer)
  /\ WF_vars(timer /\ Poll)
  /\ WF_vars(thread = "submitting" /\ Refresh)
  /\ WF_vars(Destroyed)

-----------------------------------------------------------------------------
\* Every variable has the type of the member or control it stands for.
TypeOK ==
  /\ phase \in {"down", "up", "draining"}
  /\ pending \in Seq(Requests)
  /\ asked \subseteq Requests /\ inHand \subseteq Requests
  /\ answer \in [Requests -> Service!Answers \cup {"none"}]
  /\ thread \in {"messages", "submitting", "closing", "gone"}
  /\ worker \in {"none", "failed", "started"}
  /\ future \in Requests \cup {NoRequest}
  /\ timer \in BOOLEAN
  /\ combo \in {"hint", "searching", "nothing", "devices"}
  /\ latest \in Requests \cup {NoRequest}

\* The pending future, the timer that polls it, the line "Searching..." and the
\* worker's request are four copies of one fact: while messages are handled
\* all say that a discovery is under way or all say that none is.
DiscoveryTracked ==
  /\ Range(pending) \subseteq {future}
  /\ thread = "messages" =>
       /\ timer <=> future # NoRequest
       /\ combo = "searching" <=> future # NoRequest
       /\ future # NoRequest => future \in Range(pending) \/ answer[future] # "none"

\* However often Refresh is clicked, one request is outstanding at most, so that
\* submit() never meets a full queue, and the handler is never stuck in it.
OneOutstanding ==
  /\ Len(pending) <= 1
  /\ thread = "submitting" => phase = "up" /\ pending = << >>

\* The list shows scanners only if the discovery started last succeeded: an
\* answer never appears under a later search.
ShowsLatestAnswer == combo = "devices" => answer[latest] = "success"

\* When the window is gone, its worker has stopped and owes nobody an answer.
WorkerReleased == thread = "gone" => phase = "down" /\ pending = << >> /\ worker = "none"

\* "Searching..." gives way to a result unless the window is closed first.
SearchEnds == (combo = "searching") ~> (combo # "searching" \/ thread = "gone")

\* Closing the window ends, whatever the worker is doing.
CloseReturns == (thread = "closing") ~> (thread = "gone")
=============================================================================
