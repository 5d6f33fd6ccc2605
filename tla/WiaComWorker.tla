---------------------------- MODULE WiaComWorker ----------------------------
(***************************************************************************)
(* WiaComWorker::Impl of src/src/wia_com_worker.cpp: a dedicated thread    *)
(* that owns a COM apartment and a scanner backend and executes a bounded  *)
(* queue of requests.                                                      *)
(*                                                                         *)
(* The threads are the owner (start, shutdown, the destructor), any number *)
(* of clients (submit, request_cancel) and the worker (run). One action is *)
(* one critical section of Impl::mutex, one atomic access or one call out  *)
(* to the apartment, the backend or a promise, together with the thread-   *)
(* local work around it. A call that throws before it changes anything is  *)
(* a stuttering step. As in src/src/mock_gui.cpp there is one owner thread.*)
(***************************************************************************)
EXTENDS Naturals, Sequences, SequencesExt, WiaWorkerModel

CONSTANTS
  Requests,     \* the requests the clients submit, each at most once
  QueueLimit,   \* 64 in submit()
  MaxStarts,    \* bound of the model: how often the owner calls start()
  NoRequest     \* no request in the worker's hand

ASSUME WorkerAssumption ==
  /\ QueueLimit \in Nat \ {0}
  /\ MaxStarts \in Nat
  /\ NoRequest \notin Requests

VARIABLES
  owner,       \* where the owner thread is
  worker,      \* where run() is
  joinable,    \* thread.joinable()
  started, accepting, stopping,   \* the flags of these names
  active,
  startupDone, startupSucceeded,
  cancelFlag,  \* cancel_requested
  queue,       \* queue
  snapshot,    \* published_snapshot
  lifecycle,   \* run()'s local WiaWorkerModel
  pending,     \* run()'s local pending request
  reply,       \* run()'s local reply (its verdict)
  cancelled,   \* cancel_queued_requests()'s local deque
  apartment,   \* the COM apartment is initialized
  backend,     \* the backend is open
  notifying,   \* clients between the unlock and notify_one of submit()
  operation,   \* the operation of each submitted request
  answer,      \* the value of each promise, "none" before it is set
  asked,       \* history: requests that were active when a cancel took effect
  starts,      \* history: calls of start()
  terminated   \* std::terminate ran: run() is noexcept

gate == <<started, accepting, stopping>>
startup == <<startupDone, startupSucceeded>>
work == <<active, cancelFlag, queue, snapshot>>
shared == <<gate, startup, work>>
locals == <<lifecycle, pending, reply, cancelled>>
com == <<apartment, backend>>
clients == <<notifying, operation>>
outcome == <<answer, asked>>
vars == <<owner, worker, joinable, shared, locals, com, clients, outcome, starts, terminated>>

Verdicts == {"success", "issue", "driver_failure", "cancelled"}

Init ==
  /\ owner = "idle"
  /\ worker = "none"
  /\ joinable = FALSE
  /\ started = FALSE /\ accepting = FALSE /\ stopping = FALSE /\ active = FALSE
  /\ startupDone = FALSE /\ startupSucceeded = FALSE
  /\ cancelFlag = FALSE
  /\ queue = << >>
  /\ snapshot = Stopped
  /\ lifecycle = Stopped
  /\ pending = NoRequest
  /\ reply = "none"
  /\ cancelled = << >>
  /\ apartment = FALSE
  /\ backend = FALSE
  /\ notifying = {}
  /\ operation = [r \in Requests |-> "none"]
  /\ answer = [r \in Requests |-> "none"]
  /\ asked = {}
  /\ starts = 0
  /\ terminated = FALSE

-----------------------------------------------------------------------------
(* The owner thread.                                                       *)

\* start() up to the wait on startup_cv, which gives the mutex up.
StartThread ==
  /\ owner = "idle"
  /\ starts < MaxStarts
  /\ ~joinable /\ ~started
  /\ stopping' = FALSE /\ accepting' = FALSE
  /\ startupDone' = FALSE /\ startupSucceeded' = FALSE
  /\ cancelFlag' = FALSE
  /\ joinable' = TRUE
  /\ worker' = "initialize"
  /\ starts' = starts + 1
  /\ owner' = "starting"
  /\ UNCHANGED <<started, active, queue, snapshot, locals, com, clients, outcome, terminated>>

\* The wait on startup_cv may end without a notification once startup_done is set.
WakeEarly ==
  /\ owner = "starting"
  /\ startupDone
  /\ owner' = "woken"
  /\ UNCHANGED <<worker, joinable, shared, locals, com, clients, outcome, starts, terminated>>

\* start() after the wait: accept requests, or join the failed thread.
FinishStart ==
  /\ owner = "woken"
  /\ started' = startupSucceeded
  /\ accepting' = startupSucceeded
  /\ owner' = IF startupSucceeded THEN "idle" ELSE "joinFailed"
  /\ UNCHANGED <<worker, joinable, stopping, startup, work, locals, com, clients, outcome, starts,
                 terminated>>

JoinFailed ==
  /\ owner = "joinFailed"
  /\ worker = "exited"
  /\ worker' = "none"
  /\ joinable' = FALSE
  /\ owner' = "idle"
  /\ UNCHANGED <<shared, locals, com, clients, outcome, starts, terminated>>

\* A mutant: shutdown() waits for the active request without cancelling it.
BeginShutdownPatiently ==
  /\ owner = "idle"
  /\ joinable
  /\ accepting' = FALSE
  /\ stopping' = TRUE
  /\ owner' = "notifyStop"
  /\ UNCHANGED <<worker, joinable, started, startup, work, locals, com, clients, outcome, starts,
                 terminated>>

\* The first critical section of shutdown(), with a running thread.
BeginShutdown ==
  /\ owner = "idle"
  /\ joinable
  /\ accepting' = FALSE
  /\ stopping' = TRUE
  /\ IF active
     THEN /\ cancelFlag' = TRUE
          /\ snapshot' = AfterCancel(snapshot)
          /\ asked' = asked \cup {pending}
     ELSE UNCHANGED <<cancelFlag, snapshot, asked>>
  /\ owner' = "notifyStop"
  /\ UNCHANGED <<worker, joinable, started, startup, active, queue, locals, com, clients, answer,
                 starts, terminated>>

\* shutdown() of a worker that does not run.
ShutdownIdle ==
  /\ owner = "idle"
  /\ ~joinable
  /\ started' = FALSE
  /\ accepting' = FALSE
  /\ snapshot' = Stopped
  /\ UNCHANGED <<owner, worker, joinable, stopping, startup, active, cancelFlag, queue, locals, com,
                 clients, outcome, starts, terminated>>

\* A mutant: notify_one is forgotten.
WokenNot == worker

\* notify_one wakes the worker if it sleeps in work_cv.wait.
Woken == IF worker = "asleep" THEN "take" ELSE worker

NotifyStop ==
  /\ owner = "notifyStop"
  /\ worker' = Woken
  /\ owner' = "join"
  /\ UNCHANGED <<joinable, shared, locals, com, clients, outcome, starts, terminated>>

\* thread.join() and the last critical section of shutdown().
Join ==
  /\ owner = "join"
  /\ worker = "exited"
  /\ worker' = "none"
  /\ joinable' = FALSE
  /\ started' = FALSE
  /\ active' = FALSE
  /\ snapshot' = Stopped
  /\ owner' = "idle"
  /\ UNCHANGED <<accepting, stopping, startup, cancelFlag, queue, locals, com, clients, outcome,
                 starts, terminated>>

-----------------------------------------------------------------------------
(* The client threads.                                                     *)

\* The fields of a WiaWorkerRequest as far as validate_request reads them:
\* whether the identifier is zero, the length class of the device selection,
\* whether the generation is zero, whether there are scan settings.
RequestShapes ==
  [id : {"zero", "set"}, operation : Operations \cup {"none"},
   device : {"empty", "bounded", "oversized"}, generation : {"zero", "set"},
   settings : BOOLEAN]

\* validate_request() returns.
ValidRequest(q) ==
  /\ q.id # "zero"
  /\ q.operation # "none"
  /\ q.device # "oversized"
  /\ IF q.operation = "refresh"
     THEN q.device = "empty" /\ q.generation = "zero" /\ ~q.settings
     ELSE /\ q.device # "empty" /\ q.generation # "zero"
          /\ q.operation = "connect" => ~q.settings
          /\ q.operation = "scan" => q.settings

\* submit() up to the unlock.
Submit(r) ==
  /\ operation[r] = "none"
  /\ started /\ accepting /\ ~stopping
  /\ Len(queue) < QueueLimit
  /\ \E q \in RequestShapes :
       /\ ValidRequest(q)
       /\ operation' = [operation EXCEPT ![r] = q.operation]
  /\ queue' = Append(queue, r)
  /\ notifying' = notifying \cup {r}
  /\ UNCHANGED <<owner, worker, joinable, gate, startup, active, cancelFlag, snapshot, locals, com,
                 outcome, starts, terminated>>

\* submit() from the unlock on.
NotifyWork(r) ==
  /\ r \in notifying
  /\ notifying' = notifying \ {r}
  /\ worker' = Woken
  /\ UNCHANGED <<owner, joinable, shared, locals, com, operation, outcome, starts, terminated>>

\* A mutant: only the snapshot learns of the cancellation.
RequestCancelUnheard ==
  /\ active
  /\ snapshot' = AfterCancel(snapshot)
  /\ asked' = asked \cup {pending}
  /\ UNCHANGED <<owner, worker, joinable, gate, startup, active, cancelFlag, queue, locals, com,
                 clients, answer, starts, terminated>>

RequestCancel ==
  /\ active
  /\ cancelFlag' = TRUE
  /\ snapshot' = AfterCancel(snapshot)
  /\ asked' = asked \cup {pending}
  /\ UNCHANGED <<owner, worker, joinable, gate, startup, active, queue, locals, com, clients,
                 answer, starts, terminated>>

-----------------------------------------------------------------------------
(* The worker thread. A lifecycle call that throws leaves the noexcept     *)
(* run() and terminates the process.                                       *)

InitializeApartment ==
  /\ worker = "initialize"
  /\ apartment' \in BOOLEAN
  /\ worker' = IF apartment' THEN "open" ELSE "signal"
  /\ UNCHANGED <<owner, joinable, shared, locals, backend, clients, outcome, starts, terminated>>

\* backend->open(), closed again when it throws; a fresh lifecycle is started.
OpenBackend ==
  /\ worker = "open"
  /\ backend' \in BOOLEAN
  /\ worker' = IF backend' THEN "publish" ELSE "signal"
  /\ lifecycle' = IF backend' THEN AfterStart(Stopped) ELSE lifecycle
  /\ UNCHANGED <<owner, joinable, shared, pending, reply, cancelled, apartment, clients, outcome,
                 starts, terminated>>

PublishStarted ==
  /\ worker = "publish"
  /\ snapshot' = lifecycle
  /\ worker' = "signal"
  /\ UNCHANGED <<owner, joinable, gate, startup, active, cancelFlag, queue, locals, com, clients,
                 outcome, starts, terminated>>

SignalStartup ==
  /\ worker = "signal"
  /\ startupDone' = TRUE
  /\ startupSucceeded' = backend
  /\ worker' = "notify"
  /\ UNCHANGED <<owner, joinable, gate, work, locals, com, clients, outcome, starts, terminated>>

\* A mutant: the waiting owner is not notified.
NotifyStartupNot ==
  /\ worker = "notify"
  /\ IF backend
     THEN worker' = "take" /\ UNCHANGED apartment
     ELSE worker' = "exited" /\ apartment' = FALSE
  /\ UNCHANGED <<owner, joinable, shared, locals, backend, clients, outcome, starts, terminated>>

\* A mutant: the failed start returns from run() without leaving the apartment.
NotifyStartupStays ==
  /\ worker = "notify"
  /\ owner' = IF owner = "starting" THEN "woken" ELSE owner
  /\ worker' = IF backend THEN "take" ELSE "exited"
  /\ UNCHANGED <<joinable, shared, locals, com, clients, outcome, starts, terminated>>

\* startup_cv.notify_one(); a worker without a backend leaves the apartment.
NotifyStartup ==
  /\ worker = "notify"
  /\ owner' = IF owner = "starting" THEN "woken" ELSE owner
  /\ IF backend
     THEN worker' = "take" /\ UNCHANGED apartment
     ELSE worker' = "exited" /\ apartment' = FALSE
  /\ UNCHANGED <<joinable, shared, locals, backend, clients, outcome, starts, terminated>>

\* A mutant: the newest request is taken first.
TakeNewest ==
  /\ worker = "take"
  /\ ~stopping
  /\ queue # << >>
  /\ pending' = Last(queue)
  /\ queue' = Front(queue)
  /\ active' = TRUE
  /\ cancelFlag' = FALSE
  /\ worker' = "begin"
  /\ UNCHANGED <<owner, joinable, gate, startup, snapshot, lifecycle, reply, cancelled, com, clients,
                 outcome, starts, terminated>>

\* The critical section at the head of the loop: stop, take the next request,
\* or sleep until notified.
TakeRequest ==
  /\ worker = "take"
  /\ ~stopping
  /\ queue # << >>
  /\ pending' = Head(queue)
  /\ queue' = Tail(queue)
  /\ active' = TRUE
  /\ cancelFlag' = FALSE
  /\ worker' = "begin"
  /\ UNCHANGED <<owner, joinable, gate, startup, snapshot, lifecycle, reply, cancelled, com, clients, outcome,
                 starts, terminated>>

Sleep ==
  /\ worker = "take"
  /\ ~stopping
  /\ queue = << >>
  /\ worker' = "asleep"
  /\ UNCHANGED <<owner, joinable, shared, locals, com, clients, outcome, starts, terminated>>

\* A condition variable may wake without a notification.
SpuriousWakeup ==
  /\ worker = "asleep"
  /\ worker' = "take"
  /\ UNCHANGED <<owner, joinable, shared, locals, com, clients, outcome, starts, terminated>>

Begin ==
  /\ worker = "begin"
  /\ LET may == CanBegin(lifecycle, operation[pending])
     IN  /\ terminated' = ~may
         /\ lifecycle' = IF may THEN AfterBegin(lifecycle, operation[pending]) ELSE lifecycle
         /\ snapshot' = IF may THEN lifecycle' ELSE snapshot
         /\ worker' = IF may THEN "execute" ELSE "dead"
  /\ UNCHANGED <<owner, joinable, gate, startup, active, cancelFlag, queue, pending, reply,
                 cancelled, com, clients, outcome, starts>>

\* How an injected backend may leave execute(): a safe or unsafe issue code, an
\* exception, success, or the code "cancelled" when it saw the flag set.
BackendOutcomes ==
  {"success", "issue", "unsafe", "throw"} \cup (IF cancelFlag THEN {"cancelled"} ELSE {})

Sanitized(result) == IF result \in {"unsafe", "throw"} THEN "driver_failure" ELSE result

Execute ==
  /\ worker = "execute"
  /\ \E result \in BackendOutcomes : reply' = Sanitized(result)
  /\ worker' = "check"
  /\ UNCHANGED <<owner, joinable, shared, lifecycle, pending, cancelled, com, clients, outcome,
                 starts, terminated>>

\* The load of cancel_requested after execute(), and lifecycle.complete().
CheckCancel ==
  /\ worker = "check"
  /\ LET may   == cancelFlag => CanCancel(lifecycle)
         after == IF cancelFlag THEN AfterCancel(lifecycle) ELSE lifecycle
     IN  IF may /\ CanComplete(after)
         THEN lifecycle' = AfterComplete(after) /\ worker' = "finish" /\ UNCHANGED terminated
         ELSE terminated' = TRUE /\ worker' = "dead" /\ UNCHANGED lifecycle
  /\ reply' = IF cancelFlag THEN "cancelled" ELSE reply
  /\ UNCHANGED <<owner, joinable, shared, pending, cancelled, com, clients, outcome, starts>>

\* A mutant: the flag of the finished request stays.
FinishKeepsFlag ==
  /\ worker = "finish"
  /\ active' = FALSE
  /\ snapshot' = lifecycle
  /\ worker' = "reply"
  /\ UNCHANGED <<owner, joinable, gate, startup, cancelFlag, queue, locals, com, clients, outcome,
                 starts, terminated>>

Finish ==
  /\ worker = "finish"
  /\ active' = FALSE
  /\ cancelFlag' = FALSE
  /\ snapshot' = lifecycle
  /\ worker' = "reply"
  /\ UNCHANGED <<owner, joinable, gate, startup, queue, locals, com, clients, outcome, starts, terminated>>

\* pending->promise.set_value(reply); the loop drops its request.
Reply ==
  /\ worker = "reply"
  /\ answer' = [answer EXCEPT ![pending] = reply]
  /\ pending' = NoRequest
  /\ reply' = "none"
  /\ worker' = "take"
  /\ UNCHANGED <<owner, joinable, shared, lifecycle, cancelled, com, clients, asked, starts,
                 terminated>>

\* A mutant: the loop ends and the queue is left as it is.
StopLoopAtOnce ==
  /\ worker = "take"
  /\ stopping
  /\ worker' = "drain"
  /\ UNCHANGED <<owner, joinable, shared, locals, com, clients, outcome, starts, terminated>>

\* The loop ends; cancel_queued_requests() swaps the queue out.
StopLoop ==
  /\ worker = "take"
  /\ stopping
  /\ worker' = "swap"
  /\ UNCHANGED <<owner, joinable, shared, locals, com, clients, outcome, starts, terminated>>

SwapQueue ==
  /\ worker = "swap"
  /\ cancelled' = queue
  /\ queue' = << >>
  /\ worker' = "drain"
  /\ UNCHANGED <<owner, joinable, gate, startup, active, cancelFlag, snapshot, lifecycle, pending,
                 reply, com, clients, outcome, starts, terminated>>

DrainOne ==
  /\ worker = "drain"
  /\ cancelled # << >>
  /\ answer' = [answer EXCEPT ![Head(cancelled)] = "cancelled"]
  /\ cancelled' = Tail(cancelled)
  /\ UNCHANGED <<owner, worker, joinable, shared, lifecycle, pending, reply, com, clients, asked,
                 starts, terminated>>

\* backend->close() and lifecycle.shutdown().
CloseBackend ==
  /\ worker = "drain"
  /\ cancelled = << >>
  /\ backend' = FALSE
  /\ IF CanShutdown(lifecycle)
     THEN lifecycle' = AfterShutdown(lifecycle) /\ worker' = "leave" /\ UNCHANGED terminated
     ELSE terminated' = TRUE /\ worker' = "dead" /\ UNCHANGED lifecycle
  /\ UNCHANGED <<owner, joinable, shared, pending, reply, cancelled, apartment, clients, outcome,
                 starts>>

\* The last publish, and apartment->uninitialize().
LeaveApartment ==
  /\ worker = "leave"
  /\ snapshot' = lifecycle
  /\ apartment' = FALSE
  /\ worker' = "exited"
  /\ UNCHANGED <<owner, joinable, gate, startup, active, cancelFlag, queue, locals, backend, clients,
                 outcome, starts, terminated>>

-----------------------------------------------------------------------------
OwnerContinues == FinishStart \/ JoinFailed \/ NotifyStop \/ Join

OwnerCalls == StartThread \/ BeginShutdown \/ ShutdownIdle

ClientCalls == RequestCancel \/ \E r \in Requests : Submit(r)

WorkerContinues ==
  \/ InitializeApartment \/ OpenBackend \/ PublishStarted \/ SignalStartup \/ NotifyStartup
  \/ TakeRequest \/ Sleep \/ Begin \/ CheckCancel \/ Finish \/ Reply
  \/ StopLoop \/ SwapQueue \/ DrainOne \/ CloseBackend \/ LeaveApartment

Next ==
  /\ ~terminated
  /\ \/ OwnerCalls
     \/ OwnerContinues
     \/ ClientCalls
     \/ \E r \in Requests : NotifyWork(r)
     \/ WorkerContinues
     \/ Execute
     \/ SpuriousWakeup
     \/ WakeEarly

Spec == Init /\ [][Next]_vars

\* A thread inside a call goes on when it can. execute() is only assumed to
\* return once its cancellation flag is set, and nobody has to call anything.
FairSpec ==
  /\ Spec
  /\ WF_vars(OwnerContinues)
  /\ WF_vars(WorkerContinues)
  /\ WF_vars(Execute /\ cancelFlag)
  /\ \A r \in Requests : WF_vars(NotifyWork(r))

-----------------------------------------------------------------------------
OwnerPlaces == {"idle", "starting", "woken", "joinFailed", "notifyStop", "join"}

WorkerPlaces ==
  {"none", "initialize", "open", "publish", "signal", "notify", "take", "asleep", "begin",
   "execute", "check", "finish", "reply", "swap", "drain", "leave", "exited", "dead"}

\* The places of run() where it has a request in hand.
Holding == {"begin", "execute", "check", "finish", "reply"}

FlagTypeOK ==
  /\ joinable \in BOOLEAN
  /\ started \in BOOLEAN /\ accepting \in BOOLEAN /\ stopping \in BOOLEAN
  /\ active \in BOOLEAN /\ cancelFlag \in BOOLEAN
  /\ startupDone \in BOOLEAN /\ startupSucceeded \in BOOLEAN
  /\ apartment \in BOOLEAN /\ backend \in BOOLEAN
  /\ terminated \in BOOLEAN

DataTypeOK ==
  /\ owner \in OwnerPlaces
  /\ worker \in WorkerPlaces
  /\ queue \in Seq(Requests)
  /\ snapshot \in Snapshots
  /\ lifecycle \in Snapshots
  /\ pending \in Requests \cup {NoRequest}
  /\ reply \in Verdicts \cup {"none"}
  /\ cancelled \in Seq(Requests)
  /\ notifying \subseteq Requests
  /\ operation \in [Requests -> Operations \cup {"none"}]
  /\ answer \in [Requests -> Verdicts \cup {"none"}]
  /\ asked \subseteq Requests
  /\ starts \in Nat

\* Every variable has the type its declaration in WiaComWorker::Impl gives it.
TypeOK == FlagTypeOK /\ DataTypeOK

\* run() is noexcept, so a lifecycle call that throws would end the process:
\* no interleaving of clients and owner makes begin(), request_cancel(),
\* complete() or shutdown() of the lifecycle throw.
NoTerminate == ~terminated

\* The backend is opened, used and closed inside the COM apartment of the
\* worker thread; while a request is executed both are there, and when the
\* thread is joined neither is left behind.
ComLifetime ==
  /\ backend => apartment
  /\ worker \in Holding => backend
  /\ ~joinable => ~backend /\ ~apartment

\* No accepted request is left without an answer by a worker that has stopped:
\* the future of every request submit() accepted is ready when shutdown() or a
\* failed start() returns.
NoStrandedRequest ==
  ~joinable => \A r \in Requests : operation[r] # "none" => answer[r] # "none"

\* What snapshot() shows agrees with the queue owner once nothing is in hand:
\* a worker that sleeps shows an idle worker without a pending cancellation,
\* whatever cancels raced the last completion, and one not running shows stopped
\* unless a start is under way.
SnapshotSettles ==
  /\ worker = "asleep" => snapshot = Idle
  /\ ~joinable => snapshot = Stopped

\* A cancellation reaches only the request it was made for: the flag is raised
\* only while a request that was asked to stop is in hand.
CancelBelongsToRequest ==
  cancelFlag => pending \in asked /\ worker \in Holding

\* What the worker's flags and lists mean to those who use it.
Phase == IF accepting THEN "up" ELSE IF started THEN "draining" ELSE "down"

Owed == (IF pending = NoRequest THEN << >> ELSE <<pending>>) \o cancelled \o queue

InHand == IF ~accepting /\ started /\ pending # NoRequest THEN {pending} ELSE {}

Abstract ==
  INSTANCE WiaRequestService WITH phase <- Phase, pending <- Owed, inHand <- InHand

\* The worker implements the request service: answers are given once each, in
\* the order submit() accepted the requests, "cancelled" only to a request that
\* was active when somebody cancelled or that shutdown found waiting, and
\* shutdown() returns only when no answer is owed.
ImplementsService == Abstract!Spec

\* shutdown() returns even if the backend's execute() only ever returns when it
\* is cancelled: the wakeup and the cancellation cannot be lost.
ShutdownReturns == (owner = "notifyStop") ~> (owner = "idle")

\* start() returns, whether or not the apartment and the backend come up.
StartReturns == (owner = "starting") ~> (owner = "idle")

\* A request for which request_cancel() returned is answered.
CancelledAnswered == \A r \in Requests : (r \in asked) ~> (answer[r] # "none")

\* If execute() always returns, every accepted request is answered although
\* nobody ever shuts down: no wakeup of a sleeping worker is lost.
AcceptedAnswered ==
  WF_vars(Execute) => \A r \in Requests : (operation[r] # "none") ~> (answer[r] # "none")
=============================================================================
