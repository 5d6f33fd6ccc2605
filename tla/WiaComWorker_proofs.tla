------------------------ MODULE WiaComWorker_proofs ------------------------
(***************************************************************************)
(* Proofs about WiaComWorker for every set of requests, queue limit and    *)
(* number of restarts.                                                     *)
(***************************************************************************)
EXTENDS WiaComWorker, TLAPS

-----------------------------------------------------------------------------
(* The inductive invariant. Control relates the places of the threads, the *)
(* flags and the resources; Accounting says who owes an answer to whom.    *)

Starting == {"initialize", "open", "publish", "signal", "notify"}

Looping == {"take", "asleep"} \cup Holding

Stopping == {"swap", "drain", "leave", "exited"}

\* Where the owner is determines where the worker can be, and the flags that
\* only the owner writes.
OwnerControl ==
  /\ joinable <=> worker # "none"
  /\ owner = "idle" /\ joinable =>
       started /\ accepting /\ ~stopping /\ worker \in Looping \cup {"notify"} /\ startupSucceeded
  /\ owner = "idle" /\ ~joinable => ~started /\ ~accepting
  /\ owner = "starting" => ~stopping /\ ~started /\ ~accepting /\ worker \in Starting
  /\ owner = "starting" => (startupDone <=> worker = "notify")
  /\ owner = "woken" =>
       /\ ~stopping /\ ~started /\ ~accepting
       /\ worker \in IF startupSucceeded THEN {"notify", "take", "asleep"} ELSE {"notify", "exited"}
  /\ owner = "joinFailed" =>
       ~started /\ ~accepting /\ ~startupSucceeded /\ worker \in {"notify", "exited"}
  /\ owner \in {"notifyStop", "join"} =>
       /\ stopping /\ started /\ ~accepting /\ startupSucceeded
       /\ worker \in Looping \cup Stopping \cup {"notify"}

\* Where the worker is determines the resources, the lifecycle value, what is
\* in hand and what the snapshot shows.
WorkerControl ==
  /\ worker # "dead" /\ ~terminated
  /\ worker \in {"none", "initialize", "exited"} => ~apartment /\ ~backend
  /\ worker \in {"open", "leave"} => apartment /\ ~backend
  /\ worker \in {"publish", "swap", "drain"} \cup Looping => apartment /\ backend
  /\ backend => apartment
  /\ worker = "notify" => (startupSucceeded <=> backend)
  /\ worker \in {"publish", "take", "asleep", "begin", "finish", "reply", "swap", "drain"}
       => lifecycle = Idle
  /\ worker \in {"signal", "notify"} /\ backend => lifecycle = Idle
  /\ worker \in {"execute", "check"} => lifecycle.state \in Busy
  /\ worker = "leave" => lifecycle = Stopped
  /\ pending \in Requests <=> worker \in Holding
  /\ active <=> worker \in Holding \ {"reply"}
  /\ cancelFlag => active /\ pending \in asked
  /\ worker \in {"none", "initialize", "open", "publish", "exited"} => snapshot = Stopped
  /\ worker \in {"signal", "notify"} => snapshot = IF backend THEN Idle ELSE Stopped
  /\ worker \in {"take", "asleep", "reply", "swap", "drain"} => snapshot = Idle

\* Every accepted request without an answer is in hand or in one of the two
\* lists, and both lists are empty where nobody would look at them again.
Accounting ==
  /\ \A r \in Range(queue) : operation[r] # "none"
  /\ pending \in Requests => operation[pending] # "none"
  /\ \A r \in Requests :
       operation[r] # "none" /\ answer[r] = "none" =>
         r = pending \/ r \in Range(queue) \/ r \in Range(cancelled)
  /\ worker # "drain" => cancelled = << >>
  /\ worker \notin Looping \cup {"swap", "notify"} => queue = << >>
  /\ ~started => queue = << >>
  /\ worker \in {"check", "finish", "reply"} => reply # "none"

\* Only accepted requests have answers, and a reply "cancelled" is held only for a
\* request that was asked to stop.
Answering ==
  /\ \A r \in Requests : operation[r] = "none" => answer[r] = "none"
  /\ \A r \in Range(cancelled) : operation[r] # "none"
  /\ worker \in {"check", "finish", "reply"} /\ reply = "cancelled" => pending \in asked

IInv == TypeOK /\ OwnerControl /\ WorkerControl /\ Accounting /\ Answering

-----------------------------------------------------------------------------
(* What a queue holds after the operations on it.                          *)

\* An empty queue holds nothing.
LEMMA EmptyRange == Range(<< >>) = {}
  BY DEF Range

\* push_back adds the new request.
LEMMA AppendRange ==
  ASSUME NEW S, NEW q \in Seq(S), NEW e \in S
  PROVE  Range(Append(q, e)) = Range(q) \cup {e}
<1>1. Range(Append(q, e)) \subseteq Range(q) \cup {e}
  BY DEF Range
<1>2. Range(q) \subseteq Range(Append(q, e))
  BY DEF Range
<1>3. e \in Range(Append(q, e))
  <2>1. Len(q) + 1 \in DOMAIN Append(q, e) /\ Append(q, e)[Len(q) + 1] = e
    OBVIOUS
  <2> QED
    BY <2>1 DEF Range
<1> QED
  BY <1>1, <1>2, <1>3

\* pop_front removes the first request and no other.
LEMMA TailRange ==
  ASSUME NEW S, NEW q \in Seq(S), q # << >>
  PROVE  /\ Head(q) \in S /\ Tail(q) \in Seq(S)
         /\ Range(q) = Range(Tail(q)) \cup {Head(q)}
<1>1. Head(q) \in S /\ Tail(q) \in Seq(S)
  OBVIOUS
<1>2. Range(Tail(q)) \cup {Head(q)} \subseteq Range(q)
  <2>1. \A i \in DOMAIN Tail(q) : i + 1 \in DOMAIN q /\ Tail(q)[i] = q[i + 1]
    OBVIOUS
  <2>2. 1 \in DOMAIN q /\ Head(q) = q[1]
    OBVIOUS
  <2> QED
    BY <2>1, <2>2 DEF Range
<1>3. Range(q) \subseteq Range(Tail(q)) \cup {Head(q)}
  <2>1. \A i \in DOMAIN q : i # 1 => i - 1 \in DOMAIN Tail(q) /\ Tail(q)[i - 1] = q[i]
    OBVIOUS
  <2>2. q[1] = Head(q)
    OBVIOUS
  <2>3. ASSUME NEW x \in Range(q) PROVE x \in Range(Tail(q)) \cup {Head(q)}
    <3>1. PICK i \in DOMAIN q : q[i] = x
      BY DEF Range
    <3>2. CASE i = 1
      BY <2>2, <3>1, <3>2
    <3>3. CASE i # 1
      <4>1. i - 1 \in DOMAIN Tail(q) /\ Tail(q)[i - 1] = x
        BY <2>1, <3>1, <3>3
      <4>2. x \in Range(Tail(q))
        BY <4>1, Zenon DEF Range
      <4> QED
        BY <4>2
    <3> QED
      BY <3>2, <3>3
  <2> QED
    BY <2>3
<1> QED
  BY <1>1, <1>2, <1>3

-----------------------------------------------------------------------------
(* Every step preserves every part of the invariant.                       *)

LEMMA FlagTypeStep == IInv /\ [Next]_vars => FlagTypeOK'
<1> SUFFICES ASSUME IInv, [Next]_vars PROVE FlagTypeOK'
  OBVIOUS
<1> USE DEF IInv, TypeOK, FlagTypeOK
<1> USE DEF gate, startup, work, shared, locals, com, clients, outcome
<1>1. CASE StartThread
  BY <1>1, Zenon DEF StartThread
<1>2. CASE WakeEarly
  BY <1>2, Zenon DEF WakeEarly
<1>3. CASE FinishStart
  BY <1>3, Zenon DEF FinishStart
<1>4. CASE JoinFailed
  BY <1>4, Zenon DEF JoinFailed
<1>5. CASE BeginShutdown
  BY <1>5, Zenon DEF BeginShutdown, AfterCancel
<1>6. CASE ShutdownIdle
  BY <1>6, Zenon DEF ShutdownIdle
<1>7. CASE NotifyStop
  BY <1>7, Zenon DEF NotifyStop, Woken
<1>8. CASE Join
  BY <1>8, Zenon DEF Join
<1>9. CASE RequestCancel
  BY <1>9, Zenon DEF RequestCancel, AfterCancel
<1>10. CASE InitializeApartment
  BY <1>10, Zenon DEF InitializeApartment
<1>11. CASE OpenBackend
  BY <1>11, Zenon DEF OpenBackend, AfterStart
<1>12. CASE PublishStarted
  BY <1>12, Zenon DEF PublishStarted
<1>13. CASE SignalStartup
  BY <1>13, Zenon DEF SignalStartup
<1>14. CASE NotifyStartup
  BY <1>14, Zenon DEF NotifyStartup
<1>15. CASE TakeRequest
  BY <1>15, Zenon DEF TakeRequest
<1>16. CASE Sleep
  BY <1>16, Zenon DEF Sleep
<1>17. CASE SpuriousWakeup
  BY <1>17, Zenon DEF SpuriousWakeup
<1>18. CASE Begin
  BY <1>18, Zenon DEF Begin, CanBegin, AfterBegin, BusyWith
<1>19. CASE Execute
  BY <1>19, Zenon DEF Execute, BackendOutcomes, Sanitized
<1>20. CASE CheckCancel
  BY <1>20, Zenon DEF CheckCancel, CanCancel, AfterCancel, CanComplete, AfterComplete
<1>21. CASE Finish
  BY <1>21, Zenon DEF Finish
<1>22. CASE Reply
  BY <1>22, Zenon DEF Reply
<1>23. CASE StopLoop
  BY <1>23, Zenon DEF StopLoop
<1>24. CASE SwapQueue
  BY <1>24, Zenon DEF SwapQueue
<1>25. CASE DrainOne
  BY <1>25, Zenon DEF DrainOne
<1>26. CASE CloseBackend
  BY <1>26, Zenon DEF CloseBackend, CanShutdown, AfterShutdown
<1>27. CASE LeaveApartment
  BY <1>27, Zenon DEF LeaveApartment
<1>28. ASSUME NEW r \in Requests, Submit(r) PROVE FlagTypeOK'
  BY <1>28, Zenon DEF Submit, RequestShapes, ValidRequest
<1>29. ASSUME NEW r \in Requests, NotifyWork(r) PROVE FlagTypeOK'
  BY <1>29, Zenon DEF NotifyWork, Woken
<1>30. CASE UNCHANGED vars
  BY <1>30, Zenon DEF vars
<1> QED
  BY <1>1, <1>2, <1>3, <1>4, <1>5, <1>6, <1>7, <1>8, <1>9, <1>10, <1>11, <1>12, <1>13, <1>14, <1>15, <1>16, <1>17, <1>18, <1>19, <1>20, <1>21, <1>22, <1>23, <1>24, <1>25, <1>26, <1>27, <1>28, <1>29, <1>30
     DEF Next, OwnerCalls, OwnerContinues, ClientCalls, WorkerContinues

LEMMA DataTypeStep == IInv /\ [Next]_vars => DataTypeOK'
<1> SUFFICES ASSUME IInv, [Next]_vars PROVE DataTypeOK'
  OBVIOUS
<1> USE DEF IInv, TypeOK, DataTypeOK, OwnerControl, WorkerControl, Accounting, Looping, Holding,
           Stopped, Idle, Busy, Snapshots, States, Operations, Verdicts, OwnerPlaces, WorkerPlaces
<1> USE DEF gate, startup, work, shared, locals, com, clients, outcome
<1>1. CASE StartThread
  BY <1>1 DEF StartThread
<1>2. CASE WakeEarly
  BY <1>2 DEF WakeEarly
<1>3. CASE FinishStart
  BY <1>3 DEF FinishStart
<1>4. CASE JoinFailed
  BY <1>4 DEF JoinFailed
<1>5. CASE BeginShutdown
  <2>1. CASE active
    <3>1. pending \in Requests
      BY <2>1
    <3>2. snapshot' = AfterCancel(snapshot) /\ asked' = asked \cup {pending}
      BY <1>5, <2>1 DEF BeginShutdown
    <3> QED
      BY <1>5, <3>1, <3>2 DEF BeginShutdown, AfterCancel
  <2>2. CASE ~active
    BY <1>5, <2>2 DEF BeginShutdown
  <2> QED
    BY <2>1, <2>2
<1>6. CASE ShutdownIdle
  BY <1>6 DEF ShutdownIdle
<1>7. CASE NotifyStop
  BY <1>7 DEF NotifyStop, Woken
<1>8. CASE Join
  BY <1>8 DEF Join
<1>9. CASE RequestCancel
  BY <1>9 DEF RequestCancel, AfterCancel
<1>10. CASE InitializeApartment
  BY <1>10 DEF InitializeApartment
<1>11. CASE OpenBackend
  BY <1>11 DEF OpenBackend, AfterStart
<1>12. CASE PublishStarted
  BY <1>12 DEF PublishStarted
<1>13. CASE SignalStartup
  BY <1>13 DEF SignalStartup
<1>14. CASE NotifyStartup
  BY <1>14 DEF NotifyStartup
<1>15. CASE TakeRequest
  BY <1>15 DEF TakeRequest
<1>16. CASE Sleep
  BY <1>16 DEF Sleep
<1>17. CASE SpuriousWakeup
  BY <1>17 DEF SpuriousWakeup
<1>18. CASE Begin
  BY <1>18 DEF Begin, CanBegin, AfterBegin, BusyWith
<1>19. CASE Execute
  BY <1>19 DEF Execute, BackendOutcomes, Sanitized
<1>20. CASE CheckCancel
  <2>1. lifecycle' = Idle /\ worker' = "finish"
    BY <1>20 DEF CheckCancel, CanCancel, AfterCancel, CanComplete, AfterComplete
  <2>2. reply' \in {reply, "cancelled"}
    BY <1>20 DEF CheckCancel
  <2> QED
    BY <1>20, <2>1, <2>2 DEF CheckCancel
<1>21. CASE Finish
  BY <1>21 DEF Finish
<1>22. CASE Reply
  BY <1>22 DEF Reply
<1>23. CASE StopLoop
  BY <1>23 DEF StopLoop
<1>24. CASE SwapQueue
  BY <1>24 DEF SwapQueue
<1>25. CASE DrainOne
  BY <1>25 DEF DrainOne
<1>26. CASE CloseBackend
  <2>1. lifecycle' = Stopped /\ worker' = "leave"
    BY <1>26 DEF CloseBackend, CanShutdown, AfterShutdown
  <2> QED
    BY <1>26, <2>1 DEF CloseBackend
<1>27. CASE LeaveApartment
  BY <1>27 DEF LeaveApartment
<1>28. ASSUME NEW r \in Requests, Submit(r) PROVE DataTypeOK'
  BY <1>28 DEF Submit, RequestShapes, ValidRequest
<1>29. ASSUME NEW r \in Requests, NotifyWork(r) PROVE DataTypeOK'
  BY <1>29 DEF NotifyWork, Woken
<1>30. CASE UNCHANGED vars
  BY <1>30 DEF vars
<1> QED
  BY <1>1, <1>2, <1>3, <1>4, <1>5, <1>6, <1>7, <1>8, <1>9, <1>10, <1>11, <1>12, <1>13, <1>14, <1>15, <1>16, <1>17, <1>18, <1>19, <1>20, <1>21, <1>22, <1>23, <1>24, <1>25, <1>26, <1>27, <1>28, <1>29, <1>30
     DEF Next, OwnerCalls, OwnerContinues, ClientCalls, WorkerContinues

LEMMA OwnerStep == IInv /\ [Next]_vars => OwnerControl'
<1> SUFFICES ASSUME IInv, [Next]_vars PROVE OwnerControl'
  OBVIOUS
<1> USE DEF IInv, TypeOK, DataTypeOK, OwnerControl, WorkerControl, Accounting, FlagTypeOK,
           Starting, Looping, Stopping, Holding, Stopped, Idle, Busy
<1> USE DEF gate, startup, work, shared, locals, com, clients, outcome
<1>1. CASE StartThread
  BY <1>1 DEF StartThread
<1>2. CASE WakeEarly
  BY <1>2 DEF WakeEarly
<1>3. CASE FinishStart
  BY <1>3 DEF FinishStart
<1>4. CASE JoinFailed
  BY <1>4 DEF JoinFailed
<1>5. CASE BeginShutdown
  BY <1>5 DEF BeginShutdown, AfterCancel
<1>6. CASE ShutdownIdle
  BY <1>6 DEF ShutdownIdle
<1>7. CASE NotifyStop
  BY <1>7 DEF NotifyStop, Woken
<1>8. CASE Join
  BY <1>8 DEF Join
<1>9. CASE RequestCancel
  BY <1>9 DEF RequestCancel, AfterCancel
<1>10. CASE InitializeApartment
  BY <1>10 DEF InitializeApartment
<1>11. CASE OpenBackend
  BY <1>11 DEF OpenBackend, AfterStart
<1>12. CASE PublishStarted
  BY <1>12 DEF PublishStarted
<1>13. CASE SignalStartup
  BY <1>13 DEF SignalStartup
<1>14. CASE NotifyStartup
  BY <1>14 DEF NotifyStartup
<1>15. CASE TakeRequest
  BY <1>15 DEF TakeRequest
<1>16. CASE Sleep
  BY <1>16 DEF Sleep
<1>17. CASE SpuriousWakeup
  BY <1>17 DEF SpuriousWakeup
<1>18. CASE Begin
  BY <1>18 DEF Begin, CanBegin, AfterBegin, BusyWith
<1>19. CASE Execute
  BY <1>19 DEF Execute, BackendOutcomes, Sanitized
<1>20. CASE CheckCancel
  BY <1>20 DEF CheckCancel, CanCancel, AfterCancel, CanComplete, AfterComplete
<1>21. CASE Finish
  BY <1>21 DEF Finish
<1>22. CASE Reply
  BY <1>22 DEF Reply
<1>23. CASE StopLoop
  BY <1>23 DEF StopLoop
<1>24. CASE SwapQueue
  BY <1>24 DEF SwapQueue
<1>25. CASE DrainOne
  BY <1>25 DEF DrainOne
<1>26. CASE CloseBackend
  BY <1>26 DEF CloseBackend, CanShutdown, AfterShutdown
<1>27. CASE LeaveApartment
  BY <1>27 DEF LeaveApartment
<1>28. ASSUME NEW r \in Requests, Submit(r) PROVE OwnerControl'
  BY <1>28 DEF Submit, RequestShapes, ValidRequest
<1>29. ASSUME NEW r \in Requests, NotifyWork(r) PROVE OwnerControl'
  BY <1>29 DEF NotifyWork, Woken
<1>30. CASE UNCHANGED vars
  BY <1>30 DEF vars
<1> QED
  BY <1>1, <1>2, <1>3, <1>4, <1>5, <1>6, <1>7, <1>8, <1>9, <1>10, <1>11, <1>12, <1>13, <1>14, <1>15, <1>16, <1>17, <1>18, <1>19, <1>20, <1>21, <1>22, <1>23, <1>24, <1>25, <1>26, <1>27, <1>28, <1>29, <1>30
     DEF Next, OwnerCalls, OwnerContinues, ClientCalls, WorkerContinues

LEMMA WorkerStep == IInv /\ [Next]_vars => WorkerControl'
<1> SUFFICES ASSUME IInv, [Next]_vars PROVE WorkerControl'
  OBVIOUS
<1> USE DEF IInv, TypeOK, DataTypeOK, OwnerControl, WorkerControl, Accounting, FlagTypeOK,
           Starting, Looping, Stopping, Holding, Stopped, Idle, Busy, Snapshots, Operations
<1> USE DEF gate, startup, work, shared, locals, com, clients, outcome
<1>1. CASE StartThread
  BY <1>1 DEF StartThread
<1>2. CASE WakeEarly
  BY <1>2 DEF WakeEarly
<1>3. CASE FinishStart
  BY <1>3 DEF FinishStart
<1>4. CASE JoinFailed
  BY <1>4 DEF JoinFailed
<1>5. CASE BeginShutdown
  BY <1>5 DEF BeginShutdown, AfterCancel
<1>6. CASE ShutdownIdle
  BY <1>6 DEF ShutdownIdle
<1>7. CASE NotifyStop
  BY <1>7 DEF NotifyStop, Woken
<1>8. CASE Join
  BY <1>8 DEF Join
<1>9. CASE RequestCancel
  BY <1>9 DEF RequestCancel, AfterCancel
<1>10. CASE InitializeApartment
  BY <1>10 DEF InitializeApartment
<1>11. CASE OpenBackend
  BY <1>11 DEF OpenBackend, AfterStart
<1>12. CASE PublishStarted
  BY <1>12 DEF PublishStarted
<1>13. CASE SignalStartup
  BY <1>13 DEF SignalStartup
<1>14. CASE NotifyStartup
  BY <1>14 DEF NotifyStartup
<1>15. CASE TakeRequest
  BY <1>15 DEF TakeRequest
<1>16. CASE Sleep
  BY <1>16 DEF Sleep
<1>17. CASE SpuriousWakeup
  BY <1>17 DEF SpuriousWakeup
<1>18. CASE Begin
  BY <1>18 DEF Begin, CanBegin, AfterBegin, BusyWith
<1>19. CASE Execute
  BY <1>19 DEF Execute, BackendOutcomes, Sanitized
<1>20. CASE CheckCancel
  BY <1>20 DEF CheckCancel, CanCancel, AfterCancel, CanComplete, AfterComplete
<1>21. CASE Finish
  BY <1>21 DEF Finish
<1>22. CASE Reply
  BY <1>22, WorkerAssumption DEF Reply
<1>23. CASE StopLoop
  BY <1>23 DEF StopLoop
<1>24. CASE SwapQueue
  BY <1>24 DEF SwapQueue
<1>25. CASE DrainOne
  BY <1>25 DEF DrainOne
<1>26. CASE CloseBackend
  BY <1>26 DEF CloseBackend, CanShutdown, AfterShutdown
<1>27. CASE LeaveApartment
  BY <1>27 DEF LeaveApartment
<1>28. ASSUME NEW r \in Requests, Submit(r) PROVE WorkerControl'
  BY <1>28 DEF Submit, RequestShapes, ValidRequest
<1>29. ASSUME NEW r \in Requests, NotifyWork(r) PROVE WorkerControl'
  BY <1>29 DEF NotifyWork, Woken
<1>30. CASE UNCHANGED vars
  BY <1>30 DEF vars
<1> QED
  BY <1>1, <1>2, <1>3, <1>4, <1>5, <1>6, <1>7, <1>8, <1>9, <1>10, <1>11, <1>12, <1>13, <1>14, <1>15, <1>16, <1>17, <1>18, <1>19, <1>20, <1>21, <1>22, <1>23, <1>24, <1>25, <1>26, <1>27, <1>28, <1>29, <1>30
     DEF Next, OwnerCalls, OwnerContinues, ClientCalls, WorkerContinues

LEMMA AccountingStep == IInv /\ [Next]_vars => Accounting'
<1> SUFFICES ASSUME IInv, [Next]_vars PROVE Accounting'
  OBVIOUS
<1> USE DEF IInv, TypeOK, DataTypeOK, OwnerControl, WorkerControl, Accounting, FlagTypeOK,
           Starting, Looping, Stopping, Holding, Stopped, Idle, Busy
<1> USE DEF gate, startup, work, shared, locals, com, clients, outcome
<1>1. CASE StartThread
  BY <1>1 DEF StartThread
<1>2. CASE WakeEarly
  BY <1>2 DEF WakeEarly
<1>3. CASE FinishStart
  BY <1>3 DEF FinishStart
<1>4. CASE JoinFailed
  BY <1>4 DEF JoinFailed
<1>5. CASE BeginShutdown
  BY <1>5 DEF BeginShutdown, AfterCancel
<1>6. CASE ShutdownIdle
  BY <1>6 DEF ShutdownIdle
<1>7. CASE NotifyStop
  BY <1>7 DEF NotifyStop, Woken
<1>8. CASE Join
  BY <1>8 DEF Join
<1>9. CASE RequestCancel
  BY <1>9 DEF RequestCancel, AfterCancel
<1>10. CASE InitializeApartment
  BY <1>10 DEF InitializeApartment
<1>11. CASE OpenBackend
  BY <1>11 DEF OpenBackend, AfterStart
<1>12. CASE PublishStarted
  BY <1>12 DEF PublishStarted
<1>13. CASE SignalStartup
  BY <1>13 DEF SignalStartup
<1>14. CASE NotifyStartup
  <2>1. ~backend => ~started
    BY <1>14 DEF NotifyStartup, OwnerPlaces
  <2> QED
    BY <1>14, <2>1 DEF NotifyStartup
<1>15. CASE TakeRequest
  <2>1. /\ Head(queue) \in Requests
        /\ Range(queue) = Range(queue') \cup {Head(queue)}
    BY <1>15, TailRange DEF TakeRequest
  <2> QED
    BY <1>15, <2>1, WorkerAssumption DEF TakeRequest
<1>16. CASE Sleep
  BY <1>16 DEF Sleep
<1>17. CASE SpuriousWakeup
  BY <1>17 DEF SpuriousWakeup
<1>18. CASE Begin
  BY <1>18 DEF Begin, CanBegin, AfterBegin, BusyWith
<1>19. CASE Execute
  BY <1>19 DEF Execute, BackendOutcomes, Sanitized
<1>20. CASE CheckCancel
  BY <1>20 DEF CheckCancel, CanCancel, AfterCancel, CanComplete, AfterComplete
<1>21. CASE Finish
  BY <1>21 DEF Finish
<1>22. CASE Reply
  <2>1. pending' \notin Requests
    BY <1>22, WorkerAssumption DEF Reply
  <2>2. \A r \in Requests : answer'[r] = "none" => answer[r] = "none" /\ r # pending
    BY <1>22 DEF Reply
  <2> QED
    BY <1>22, <2>1, <2>2 DEF Reply
<1>23. CASE StopLoop
  BY <1>23 DEF StopLoop
<1>24. CASE SwapQueue
  BY <1>24, EmptyRange DEF SwapQueue
<1>25. CASE DrainOne
  <2>1. /\ Head(cancelled) \in Requests
        /\ Range(cancelled) = Range(cancelled') \cup {Head(cancelled)}
    BY <1>25, TailRange DEF DrainOne
  <2>2. \A r \in Requests : answer'[r] = "none" => answer[r] = "none" /\ r # Head(cancelled)
    BY <1>25, <2>1 DEF DrainOne
  <2> QED
    BY <1>25, <2>1, <2>2 DEF DrainOne
<1>26. CASE CloseBackend
  BY <1>26 DEF CloseBackend, CanShutdown, AfterShutdown
<1>27. CASE LeaveApartment
  BY <1>27 DEF LeaveApartment
<1>28. ASSUME NEW r \in Requests, Submit(r) PROVE Accounting'
  <2>1. Range(queue') = Range(queue) \cup {r}
    BY <1>28, AppendRange DEF Submit
  <2>2. /\ operation'[r] # "none"
        /\ \A x \in Requests : x # r => operation'[x] = operation[x]
    BY <1>28 DEF Submit, RequestShapes, ValidRequest
  <2>3. Range(queue) \subseteq Requests
    BY DEF Range
  <2>4. worker \in Looping \cup {"swap", "notify"}
    BY <1>28 DEF Submit, OwnerPlaces
  <2> QED
    BY <1>28, <2>1, <2>2, <2>3, <2>4 DEF Submit
<1>29. ASSUME NEW r \in Requests, NotifyWork(r) PROVE Accounting'
  BY <1>29 DEF NotifyWork, Woken
<1>30. CASE UNCHANGED vars
  BY <1>30 DEF vars
<1> QED
  BY <1>1, <1>2, <1>3, <1>4, <1>5, <1>6, <1>7, <1>8, <1>9, <1>10, <1>11, <1>12, <1>13, <1>14, <1>15, <1>16, <1>17, <1>18, <1>19, <1>20, <1>21, <1>22, <1>23, <1>24, <1>25, <1>26, <1>27, <1>28, <1>29, <1>30
     DEF Next, OwnerCalls, OwnerContinues, ClientCalls, WorkerContinues

LEMMA AnsweringStep == IInv /\ [Next]_vars => Answering'
<1> SUFFICES ASSUME IInv, [Next]_vars PROVE Answering'
  OBVIOUS
<1> USE DEF IInv, TypeOK, DataTypeOK, WorkerControl, Accounting, Answering, Looping, Holding
<1> USE DEF gate, startup, work, shared, locals, com, clients, outcome
<1>1. CASE StartThread
  BY <1>1 DEF StartThread
<1>2. CASE WakeEarly
  BY <1>2 DEF WakeEarly
<1>3. CASE FinishStart
  BY <1>3 DEF FinishStart
<1>4. CASE JoinFailed
  BY <1>4 DEF JoinFailed
<1>5. CASE BeginShutdown
  BY <1>5 DEF BeginShutdown
<1>6. CASE ShutdownIdle
  BY <1>6 DEF ShutdownIdle
<1>7. CASE NotifyStop
  BY <1>7 DEF NotifyStop, Woken
<1>8. CASE Join
  BY <1>8 DEF Join
<1>9. CASE RequestCancel
  BY <1>9 DEF RequestCancel
<1>10. CASE InitializeApartment
  BY <1>10 DEF InitializeApartment
<1>11. CASE OpenBackend
  BY <1>11 DEF OpenBackend
<1>12. CASE PublishStarted
  BY <1>12 DEF PublishStarted
<1>13. CASE SignalStartup
  BY <1>13 DEF SignalStartup
<1>14. CASE NotifyStartup
  BY <1>14 DEF NotifyStartup
<1>15. CASE TakeRequest
  BY <1>15 DEF TakeRequest
<1>16. CASE Sleep
  BY <1>16 DEF Sleep
<1>17. CASE SpuriousWakeup
  BY <1>17 DEF SpuriousWakeup
<1>18. CASE Begin
  BY <1>18 DEF Begin
<1>19. CASE Execute
  BY <1>19 DEF Execute, BackendOutcomes, Sanitized
<1>20. CASE CheckCancel
  BY <1>20 DEF CheckCancel
<1>21. CASE Finish
  BY <1>21 DEF Finish
<1>22. CASE Reply
  BY <1>22 DEF Reply
<1>23. CASE StopLoop
  BY <1>23 DEF StopLoop
<1>24. CASE SwapQueue
  BY <1>24, EmptyRange DEF SwapQueue
<1>25. CASE DrainOne
  <2>1. /\ Head(cancelled) \in Range(cancelled)
        /\ Range(cancelled') \subseteq Range(cancelled)
    BY <1>25, TailRange DEF DrainOne
  <2> QED
    BY <1>25, <2>1 DEF DrainOne
<1>26. CASE CloseBackend
  BY <1>26 DEF CloseBackend
<1>27. CASE LeaveApartment
  BY <1>27 DEF LeaveApartment
<1>28. ASSUME NEW r \in Requests, Submit(r) PROVE Answering'
  <2>1. \A x \in Requests : operation'[x] = "none" => operation[x] = "none"
    BY <1>28 DEF Submit, RequestShapes, ValidRequest
  <2>2. Range(cancelled) \subseteq Requests
    BY DEF Range
  <2> QED
    BY <1>28, <2>1, <2>2 DEF Submit
<1>29. ASSUME NEW r \in Requests, NotifyWork(r) PROVE Answering'
  BY <1>29 DEF NotifyWork, Woken
<1>30. CASE UNCHANGED vars
  BY <1>30 DEF vars
<1> QED
  BY <1>1, <1>2, <1>3, <1>4, <1>5, <1>6, <1>7, <1>8, <1>9, <1>10, <1>11, <1>12, <1>13, <1>14, <1>15, <1>16, <1>17, <1>18, <1>19, <1>20, <1>21, <1>22, <1>23, <1>24, <1>25, <1>26, <1>27, <1>28, <1>29, <1>30
     DEF Next, OwnerCalls, OwnerContinues, ClientCalls, WorkerContinues

-----------------------------------------------------------------------------
(* The theorems.                                                           *)

LEMMA InitInvariant == Init => IInv
<1> SUFFICES ASSUME Init PROVE IInv
  OBVIOUS
<1>1. FlagTypeOK
  BY Zenon DEF Init, FlagTypeOK
<1>2. DataTypeOK
  BY DEF Init, DataTypeOK, Snapshots, Stopped, States, OwnerPlaces, WorkerPlaces
<1>3. OwnerControl
  BY DEF Init, OwnerControl
<1>4. WorkerControl
  BY WorkerAssumption DEF Init, WorkerControl, Looping, Holding
<1>5. Accounting
  BY EmptyRange, WorkerAssumption DEF Init, Accounting
<1>6. Answering
  BY EmptyRange DEF Init, Answering
<1> QED
  BY <1>1, <1>2, <1>3, <1>4, <1>5, <1>6 DEF IInv, TypeOK

\* The control, resource and accounting facts hold in every reachable state,
\* for every number of requests, queue limit and number of restarts.
THEOREM Invariance == Spec => []IInv
<1>1. Init => IInv
  BY InitInvariant
<1>2. IInv /\ [Next]_vars => IInv'
  BY FlagTypeStep, DataTypeStep, OwnerStep, WorkerStep, AccountingStep, AnsweringStep DEF IInv, TypeOK
<1> QED
  BY <1>1, <1>2, PTL DEF Spec

\* Every variable of WiaComWorker::Impl keeps its type.
THEOREM TypeCorrect == Spec => []TypeOK
<1>1. IInv => TypeOK
  BY DEF IInv
<1> QED
  BY Invariance, <1>1, PTL

\* No lifecycle call of the noexcept run() throws.
THEOREM NeverTerminates == Spec => []NoTerminate
<1>1. IInv => NoTerminate
  BY DEF IInv, WorkerControl, NoTerminate
<1> QED
  BY Invariance, <1>1, PTL

\* The backend lives inside the COM apartment, both live inside the thread.
THEOREM ComLifetimeHolds == Spec => []ComLifetime
<1>1. IInv => ComLifetime
  BY DEF IInv, OwnerControl, WorkerControl, ComLifetime, Looping, Holding
<1> QED
  BY Invariance, <1>1, PTL

\* The future of every accepted request is ready once the thread is joined.
THEOREM NobodyStranded == Spec => []NoStrandedRequest
<1>1. IInv => NoStrandedRequest
  <2> SUFFICES ASSUME IInv, ~joinable, NEW r \in Requests, operation[r] # "none"
               PROVE  answer[r] # "none"
    BY DEF NoStrandedRequest
  <2>1. worker = "none"
    BY DEF IInv, OwnerControl
  <2>2. queue = << >> /\ cancelled = << >>
    BY <2>1 DEF IInv, Accounting, Looping, Holding
  <2>3. pending \notin Requests
    BY <2>1 DEF IInv, WorkerControl, Holding
  <2> QED
    BY <2>2, <2>3, EmptyRange DEF IInv, Accounting
<1> QED
  BY Invariance, <1>1, PTL

\* What snapshot() shows settles whatever cancels raced the last completion.
THEOREM SnapshotSettled == Spec => []SnapshotSettles
<1>1. IInv => SnapshotSettles
  BY DEF IInv, OwnerControl, WorkerControl, SnapshotSettles
<1> QED
  BY Invariance, <1>1, PTL

\* A cancellation never reaches another request than the one it was made for.
THEOREM CancelsBelong == Spec => []CancelBelongsToRequest
<1>1. IInv => CancelBelongsToRequest
  BY DEF IInv, WorkerControl, CancelBelongsToRequest
<1> QED
  BY Invariance, <1>1, PTL

-----------------------------------------------------------------------------
(* The worker implements the request service.                              *)

\* Nothing before or behind a list changes nothing.
LEMMA NothingAdded ==
  ASSUME NEW S, NEW q \in Seq(S)
  PROVE  << >> \o q = q /\ q \o << >> = q
OBVIOUS

\* The first of a list, put before the rest, is the list.
LEMMA FirstAndRest ==
  ASSUME NEW S, NEW q \in Seq(S), q # << >>
  PROVE  q = <<Head(q)>> \o Tail(q)
OBVIOUS

\* What a list with a first element owes, and how a request is added to it.
LEMMA FirstOfList ==
  ASSUME NEW S, NEW e \in S, NEW q \in Seq(S)
  PROVE  /\ <<e>> \o q \in Seq(S) /\ <<e>> \o q # << >>
         /\ Head(<<e>> \o q) = e /\ Tail(<<e>> \o q) = q
         /\ Len(<<e>> \o q) = Len(q) + 1
         /\ Range(<<e>> \o q) = {e} \cup Range(q)
<1> DEFINE l == <<e>> \o q
<1>1. l \in Seq(S) /\ Len(l) = Len(q) + 1 /\ l[1] = e /\ \A i \in DOMAIN q : l[i + 1] = q[i]
  OBVIOUS
<1>2. Tail(l) = q
  OBVIOUS
<1>3. Head(l) = e /\ l # << >>
  OBVIOUS
<1>4. Range(l) = {e} \cup Range(q)
  BY <1>1, <1>2, <1>3, TailRange
<1> QED
  BY <1>1, <1>2, <1>3, <1>4

\* A request added to the queue is added to what is owed, behind the one in hand.
LEMMA BehindTheFirst ==
  ASSUME NEW e \in Requests, NEW q \in Seq(Requests), NEW r \in Requests
  PROVE  /\ Len(<<e>> \o q) = Len(q) + 1
         /\ Range(<<e>> \o q) = {e} \cup Range(q)
         /\ Append(<<e>> \o q, r) = <<e>> \o Append(q, r)
<1>1. Append(<<e>> \o q, r) = <<e>> \o Append(q, r)
  OBVIOUS
<1>2. Len(<<e>> \o q) = Len(q) + 1 /\ Range(<<e>> \o q) = {e} \cup Range(q)
  BY FirstOfList
<1> QED
  BY <1>1, <1>2, Zenon

\* What the worker owes, for each place of run().
OwedFacts ==
  /\ pending \in Requests => Owed = <<pending>> \o queue
  /\ pending = NoRequest /\ worker # "drain" => Owed = queue
  /\ worker = "drain" => Owed = cancelled

LEMMA OwedByPlace == IInv => OwedFacts
<1> SUFFICES ASSUME IInv PROVE OwedFacts
  OBVIOUS
<1> USE DEF IInv, TypeOK, DataTypeOK, WorkerControl, Accounting, Looping, Holding
<1>1. queue \in Seq(Requests) /\ cancelled \in Seq(Requests)
  OBVIOUS
<1>2. ASSUME pending \in Requests PROVE Owed = <<pending>> \o queue
  <2>1. cancelled = << >> /\ pending # NoRequest
    BY <1>2, WorkerAssumption
  <2>2. <<pending>> \in Seq(Requests)
    BY <1>2
  <2>3. <<pending>> \o << >> = <<pending>>
    BY <2>2, NothingAdded
  <2> QED
    BY <2>1, <2>3, Zenon DEF Owed
<1>3. ASSUME pending = NoRequest PROVE Owed = cancelled \o queue
  <2>1. << >> \o cancelled = cancelled
    BY <1>1, NothingAdded
  <2> QED
    BY <1>3, <2>1, Zenon DEF Owed
<1>4. worker # "drain" => cancelled = << >> /\ cancelled \o queue = queue
  BY <1>1, NothingAdded
<1>5. worker = "drain" => pending = NoRequest /\ queue = << >> /\ cancelled \o queue = cancelled
  BY <1>1, NothingAdded
<1> QED
  BY <1>2, <1>3, <1>4, <1>5 DEF OwedFacts

LEMMA OwedByPlaceLater == IInv' => OwedFacts'
BY OwedByPlace, PTL

\* Steps that change none of what the mapping reads are stuttering steps.
LEMMA MappedStutter ==
  UNCHANGED <<accepting, started, pending, cancelled, queue, outcome>> => UNCHANGED Abstract!vars
BY DEF Abstract!vars, Phase, Owed, InHand, outcome

\* submit() accepts a request, behind all that are owed.
LEMMA SubmitAccepts ==
  ASSUME IInv, IInv', NEW r \in Requests, Submit(r)
  PROVE  Abstract!Accept(r)
<1>1. /\ pending \in Requests \cup {NoRequest}
      /\ queue \in Seq(Requests) /\ Len(queue) < QueueLimit /\ queue' = Append(queue, r)
      /\ accepting /\ operation[r] = "none" /\ answer[r] = "none"
      /\ UNCHANGED <<accepting, started, worker, pending, cancelled, asked, answer>>
  BY DEF Submit, gate, locals, outcome, IInv, TypeOK, DataTypeOK, Answering
<1>2. worker # "drain"
  BY <1>1 DEF Submit, IInv, TypeOK, DataTypeOK, OwnerControl, OwnerPlaces, Looping, Holding
<1>3. r \notin Range(queue) /\ r # pending
  BY <1>1, WorkerAssumption DEF IInv, Accounting
<1>4. Owed' = Append(Owed, r) /\ r \notin Range(Owed) /\ Len(Owed) <= QueueLimit
  <2>1. CASE pending \in Requests
    <3>1. Owed = <<pending>> \o queue /\ Owed' = <<pending>> \o Append(queue, r)
      BY <1>1, <2>1, OwedByPlace, OwedByPlaceLater DEF OwedFacts
    <3>2. /\ Len(Owed) = Len(queue) + 1 /\ Range(Owed) = {pending} \cup Range(queue)
          /\ Owed' = Append(Owed, r)
      <4>1. /\ Len(<<pending>> \o queue) = Len(queue) + 1
            /\ Range(<<pending>> \o queue) = {pending} \cup Range(queue)
            /\ Append(<<pending>> \o queue, r) = <<pending>> \o Append(queue, r)
        BY <1>1, <2>1, BehindTheFirst, Zenon
      <4> QED
        BY <3>1, <4>1, Zenon
    <3> QED
      BY <1>1, <1>3, <3>2, WorkerAssumption
  <2>2. CASE pending = NoRequest
    <3>1. Owed = queue /\ Owed' = queue'
      BY <1>1, <1>2, <2>2, OwedByPlace, OwedByPlaceLater DEF OwedFacts
    <3> QED
      BY <1>1, <1>3, <3>1, WorkerAssumption
  <2> QED
    BY <1>1, <2>1, <2>2
<1>5. Phase = "up" /\ UNCHANGED <<Phase, InHand, asked, answer>>
  BY <1>1 DEF Phase, InHand
<1>6. r \notin Abstract!Range(Owed)
  BY <1>4 DEF Range, Abstract!Range
<1> QED
  BY <1>1, <1>4, <1>5, <1>6, Zenon DEF Abstract!Accept

\* request_cancel() reaches the oldest request.
LEMMA RequestCancelCancels ==
  ASSUME IInv, IInv', RequestCancel
  PROVE  Abstract!Cancel
<1>1. pending \in Requests /\ queue \in Seq(Requests)
  BY DEF RequestCancel, IInv, TypeOK, DataTypeOK, WorkerControl, Holding
<1>2. Owed # << >> /\ Head(Owed) = pending
  BY <1>1, OwedByPlace, FirstOfList DEF OwedFacts
<1>3. UNCHANGED <<Phase, Owed, InHand, answer>> /\ asked' = asked \cup {pending}
  BY DEF RequestCancel, Phase, Owed, InHand, gate, locals
<1> QED
  BY <1>2, <1>3 DEF Abstract!Cancel

\* Shutdown begins to drain the service.
LEMMA BeginShutdownDrains ==
  ASSUME IInv, IInv', BeginShutdown
  PROVE  Abstract!Drain
<1>1. /\ pending \in Requests \cup {NoRequest} /\ queue \in Seq(Requests)
      /\ active => pending \in Requests
      /\ accepting /\ started /\ ~accepting' /\ started' = started
      /\ UNCHANGED <<pending, cancelled, queue, answer>>
      /\ asked' = IF active THEN asked \cup {pending} ELSE asked
  BY DEF BeginShutdown, locals, IInv, TypeOK, DataTypeOK, OwnerControl, WorkerControl, Holding
<1>2. Phase = "up" /\ Phase' = "draining" /\ UNCHANGED <<Owed, answer>>
  BY <1>1, Zenon DEF Phase, Owed
<1>3. CASE pending = NoRequest
  <2>1. InHand' = {} /\ asked' = asked
    BY <1>1, <1>3, WorkerAssumption DEF InHand
  <2> QED
    BY <1>2, <2>1 DEF Abstract!Drain
<1>4. CASE pending \in Requests
  <2>1. Owed # << >> /\ Head(Owed) = pending
    BY <1>1, <1>4, OwedByPlace, FirstOfList DEF OwedFacts
  <2>2. InHand' = {pending}
    BY <1>1, <1>4, WorkerAssumption DEF InHand
  <2> QED
    BY <1>1, <1>2, <2>1, <2>2 DEF Abstract!Drain
<1> QED
  BY <1>1, <1>3, <1>4

\* Setting the promise of the request in hand answers the oldest request.
LEMMA ReplyReplies ==
  ASSUME IInv, IInv', Reply
  PROVE  \E a \in Abstract!Answers : Abstract!Reply(a)
<1>1. /\ pending \in Requests /\ queue \in Seq(Requests) /\ reply \in Verdicts
      /\ reply = "cancelled" => pending \in asked
      /\ answer' = [answer EXCEPT ![pending] = reply]
      /\ pending' = NoRequest /\ worker' = "take"
      /\ UNCHANGED <<accepting, started, cancelled, queue, asked>>
  BY DEF Reply, shared, gate, work, IInv, TypeOK, DataTypeOK, WorkerControl, Accounting, Answering, Holding
<1>2. Owed # << >> /\ Head(Owed) = pending /\ Tail(Owed) = queue
  BY <1>1, OwedByPlace, FirstOfList DEF OwedFacts
<1>3. Owed' = queue
  BY <1>1, OwedByPlaceLater DEF OwedFacts
<1>4. InHand' = {} /\ Phase' = Phase
  BY <1>1 DEF InHand, Phase
<1>5. Phase = "draining" => pending \in InHand
  BY <1>1, WorkerAssumption DEF InHand, Phase
<1>6. reply \in Abstract!Answers
  BY <1>1 DEF Verdicts, Abstract!Answers
<1>7. Abstract!Reply(reply)
  BY <1>1, <1>2, <1>3, <1>4, <1>5, Zenon DEF Abstract!Reply
<1> QED
  BY <1>6, <1>7

\* cancel_queued_requests() answers the oldest request "cancelled".
LEMMA DrainOneReplies ==
  ASSUME IInv, IInv', DrainOne
  PROVE  \E a \in Abstract!Answers : Abstract!Reply(a)
<1>1. /\ pending = NoRequest /\ worker = "drain" /\ cancelled # << >>
      /\ answer' = [answer EXCEPT ![Head(cancelled)] = "cancelled"]
      /\ cancelled' = Tail(cancelled) /\ worker' = worker
      /\ UNCHANGED <<accepting, started, pending, asked>>
  BY WorkerAssumption
     DEF DrainOne, shared, gate, work, IInv, TypeOK, DataTypeOK, WorkerControl, Holding
<1>2. Owed = cancelled /\ Owed' = cancelled'
  BY <1>1, OwedByPlace, OwedByPlaceLater DEF OwedFacts
<1>3. InHand = {} /\ InHand' = {} /\ Phase' = Phase
  BY <1>1 DEF InHand, Phase
<1>4. Phase = "draining"
  BY <1>1 DEF Phase, IInv, TypeOK, DataTypeOK, OwnerControl, OwnerPlaces, Looping, Holding, Starting
<1>5. Abstract!Reply("cancelled")
  BY <1>1, <1>2, <1>3, <1>4, Zenon DEF Abstract!Reply
<1>6. "cancelled" \in Abstract!Answers
  BY DEF Abstract!Answers
<1> QED
  BY <1>5, <1>6

\* The mutex is given up with the oldest request in hand, or with nothing taken
\* from what is owed.
LEMMA TakingChangesNothing ==
  ASSUME IInv, IInv', TakeRequest \/ SwapQueue
  PROVE  UNCHANGED Abstract!vars
<1>1. /\ pending = NoRequest /\ worker # "drain" /\ queue \in Seq(Requests)
      /\ UNCHANGED <<accepting, started, answer, asked>>
  BY DEF TakeRequest, SwapQueue, gate, outcome, IInv, TypeOK, DataTypeOK, WorkerControl, Holding
<1>2. Owed = queue
  BY <1>1, OwedByPlace DEF OwedFacts
<1>3. CASE TakeRequest
  <2>1. /\ queue # << >> /\ pending' = Head(queue) /\ queue' = Tail(queue) /\ pending' \in Requests
    BY <1>1, <1>3 DEF TakeRequest
  <2>2. Owed' = <<pending'>> \o queue'
    BY <2>1, OwedByPlaceLater DEF OwedFacts
  <2>3. Owed' = Owed
    BY <1>1, <1>2, <2>1, <2>2, FirstAndRest
  <2>4. accepting \/ ~started
    BY <1>3 DEF TakeRequest, IInv, TypeOK, DataTypeOK, OwnerControl, OwnerPlaces
  <2>5. UNCHANGED InHand
    BY <1>1, <2>4 DEF InHand
  <2> QED
    BY <1>1, <2>3, <2>5 DEF Abstract!vars, Phase
<1>4. CASE SwapQueue
  <2>1. cancelled' = queue /\ worker' = "drain" /\ pending' = pending
    BY <1>4 DEF SwapQueue
  <2>2. Owed' = Owed
    BY <1>2, <2>1, OwedByPlaceLater DEF OwedFacts
  <2> QED
    BY <1>1, <2>1, <2>2 DEF Abstract!vars, Phase, InHand
<1> QED
  BY <1>3, <1>4

\* start() opens the service, unless the thread failed to start.
LEMMA FinishStartOpens ==
  ASSUME IInv, FinishStart
  PROVE  Abstract!Open \/ UNCHANGED Abstract!vars
<1>1. /\ ~started /\ ~accepting
      /\ started' = startupSucceeded /\ accepting' = startupSucceeded
      /\ startupSucceeded \in BOOLEAN
      /\ UNCHANGED <<pending, cancelled, queue, answer, asked>>
  BY DEF FinishStart, work, locals, outcome, IInv, TypeOK, FlagTypeOK, OwnerControl
<1>2. UNCHANGED <<Owed, InHand, answer, asked>>
  BY <1>1 DEF Owed, InHand
<1>3. Phase = "down" /\ Phase' \in {"up", "down"}
  BY <1>1 DEF Phase
<1> QED
  BY <1>2, <1>3 DEF Abstract!Open, Abstract!vars

\* The last critical section of shutdown() releases the service.
LEMMA JoinReleases ==
  ASSUME IInv, Join
  PROVE  Abstract!Release
<1>1. /\ pending = NoRequest /\ queue = << >> /\ worker = "exited"
      /\ started /\ ~accepting /\ ~started'
      /\ UNCHANGED <<accepting, pending, cancelled, queue, answer, asked>>
  BY DEF Join, locals, outcome, IInv, TypeOK, DataTypeOK, OwnerControl, WorkerControl, Accounting,
         Looping, Holding
<1>2. Owed = << >> /\ UNCHANGED Owed
  BY <1>1, OwedByPlace DEF OwedFacts, Owed
<1>3. Phase = "draining" /\ Phase' = "down" /\ UNCHANGED InHand
  BY <1>1 DEF Phase, InHand
<1> QED
  BY <1>1, <1>2, <1>3 DEF Abstract!Release

\* Every step is one of the service, or none.
LEMMA StepRefines == IInv /\ IInv' /\ [Next]_vars => [Abstract!Next]_Abstract!vars
<1> SUFFICES ASSUME IInv, IInv', [Next]_vars PROVE Abstract!Next \/ UNCHANGED Abstract!vars
  OBVIOUS
<1>1. CASE FinishStart
  BY <1>1, FinishStartOpens DEF Abstract!Next
<1>2. CASE BeginShutdown
  BY <1>2, BeginShutdownDrains DEF Abstract!Next
<1>3. CASE Join
  BY <1>3, JoinReleases DEF Abstract!Next
<1>4. CASE RequestCancel
  BY <1>4, RequestCancelCancels DEF Abstract!Next
<1>5. ASSUME NEW r \in Requests, Submit(r) PROVE Abstract!Next
  BY <1>5, SubmitAccepts DEF Abstract!Next
<1>6. CASE Reply
  BY <1>6, ReplyReplies DEF Abstract!Next
<1>7. CASE DrainOne
  BY <1>7, DrainOneReplies DEF Abstract!Next
<1>8. CASE TakeRequest \/ SwapQueue
  BY <1>8, TakingChangesNothing
<1>9. CASE ShutdownIdle \/ StartThread
  <2>1. started = FALSE /\ accepting = FALSE
    BY <1>9, Zenon DEF ShutdownIdle, StartThread, IInv, TypeOK, FlagTypeOK, OwnerControl
  <2> QED
    BY <1>9, <2>1, MappedStutter DEF ShutdownIdle, StartThread, locals
<1>10. CASE WakeEarly \/ JoinFailed \/ NotifyStop \/ (\E r \in Requests : NotifyWork(r)) \/ UNCHANGED vars
  BY <1>10, MappedStutter
     DEF WakeEarly, JoinFailed, NotifyStop, NotifyWork, vars, shared, gate, work, locals
<1>11. CASE InitializeApartment \/ OpenBackend \/ PublishStarted \/ SignalStartup \/ NotifyStartup
  BY <1>11, MappedStutter
     DEF InitializeApartment, OpenBackend, PublishStarted, SignalStartup, NotifyStartup, shared, gate,
         work, locals
<1>12. CASE Sleep \/ SpuriousWakeup \/ Begin \/ Execute \/ CheckCancel \/ Finish
  BY <1>12, MappedStutter
     DEF Sleep, SpuriousWakeup, Begin, Execute, CheckCancel, Finish, shared, gate, work, locals
<1>13. CASE StopLoop \/ CloseBackend \/ LeaveApartment
  BY <1>13, MappedStutter DEF StopLoop, CloseBackend, LeaveApartment, shared, gate, work, locals
<1> QED
  BY <1>1, <1>2, <1>3, <1>4, <1>5, <1>6, <1>7, <1>8, <1>9, <1>10, <1>11, <1>12, <1>13
     DEF Next, OwnerCalls, OwnerContinues, ClientCalls, WorkerContinues

\* The worker is the request service, for all threads and any number of requests:
\* each accepted request is answered once and in order, "cancelled" only if it was
\* asked to stop or found waiting by shutdown(), which returns when nothing is owed.
THEOREM WorkerIsService == Spec => ImplementsService
<1>1. Init => Abstract!Init
  <2> SUFFICES ASSUME Init PROVE Abstract!Init
    OBVIOUS
  <2>1. Owed = << >>
    BY NothingAdded DEF Init, Owed
  <2> QED
    BY <2>1 DEF Init, Abstract!Init, Phase, InHand
<1> QED
  BY <1>1, Invariance, StepRefines, PTL DEF Spec, ImplementsService, Abstract!Spec

=============================================================================
