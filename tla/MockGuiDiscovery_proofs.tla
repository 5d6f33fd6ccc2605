---------------------- MODULE MockGuiDiscovery_proofs ----------------------
(***************************************************************************)
(* Proofs about MockGuiDiscovery, for any number of searches and any queue *)
(* limit of the worker.                                                    *)
(***************************************************************************)
EXTENDS MockGuiDiscovery, TLAPS

\* What the UI thread and the worker's phase say of each other.
Phases ==
  /\ thread \in {"messages", "submitting"} => (phase = "up" <=> worker = "started")
  /\ thread \in {"messages", "gone"} => phase \in {"up", "down"}
  /\ thread = "submitting" => worker = "started" /\ future = NoRequest
  /\ thread = "closing" => worker = "started" /\ phase = "draining"
  /\ thread = "gone" => worker = "none" /\ phase = "down"
  /\ worker \in {"none", "failed"} => pending = << >>
  /\ thread = "messages" /\ worker \in {"none", "failed"} => future = NoRequest

\* Where the one request is, and what is known of the search it belongs to.
OneSearch ==
  /\ pending # << >> =>
       pending = <<future>> /\ future \in Requests /\ answer[future] = "none"
  /\ thread = "messages" /\ future # NoRequest => pending = <<future>> \/ answer[future] # "none"
  /\ future # NoRequest => latest = future

\* What the window shows.
Shown ==
  /\ thread = "messages" =>
       /\ timer = (future # NoRequest)
       /\ combo = "searching" <=> future # NoRequest
  /\ thread = "submitting" => combo # "searching" /\ timer = FALSE
  /\ combo = "devices" => latest \in Requests /\ answer[latest] = "success"

IInv == TypeOK /\ Phases /\ OneSearch /\ Shown

-----------------------------------------------------------------------------
\* What the operations of the service do to a queue of at most one request.
LEMMA ShortQueue ==
  ASSUME NEW S, NEW r \in S
  PROVE  /\ Append(<< >>, r) = <<r>>
         /\ <<r>> \in Seq(S) /\ << >> \in Seq(S)
         /\ Head(<<r>>) = r /\ Tail(<<r>>) = << >>
         /\ <<r>> # << >> /\ Len(<<r>>) = 1 /\ Len(<< >>) = 0
  OBVIOUS

\* The timer is set or not.
LEMMA TimerStep == timer \in BOOLEAN /\ [Next]_vars => timer' \in BOOLEAN
<1> SUFFICES ASSUME timer \in BOOLEAN, [Next]_vars PROVE timer' \in BOOLEAN
  OBVIOUS
<1>1. Next => timer' \in {TRUE, FALSE, timer}
  BY Zenon DEF Next, StartWorker, Refresh, Poll, Destroy, Destroyed, Answer, window
<1>2. UNCHANGED vars => timer' = timer
  BY Zenon DEF vars, window
<1> QED
  BY <1>1, <1>2, Zenon

LEMMA InitHolds == Init => IInv
<1> SUFFICES ASSUME Init PROVE IInv
  OBVIOUS
<1>1. timer \in BOOLEAN
  BY Zenon DEF Init
<1> QED
  BY <1>1 DEF Init, Service!Init, IInv, TypeOK, Phases, OneSearch, Shown

LEMMA StartWorkerKeeps == IInv /\ StartWorker => IInv'
<1> SUFFICES ASSUME IInv, StartWorker PROVE IInv'
  OBVIOUS
<1> USE DEF IInv, TypeOK, window, service
<1>1. timer' \in BOOLEAN
  BY TimerStep DEF Next
<1>2. CASE worker' = "started" /\ thread' = "submitting" /\ Service!Open
  BY <1>1, <1>2 DEF StartWorker, Service!Open, Phases, OneSearch, Shown
<1>3. CASE worker' = "failed" /\ UNCHANGED <<thread, service>>
  BY <1>1, <1>3 DEF StartWorker, Phases, OneSearch, Shown
<1> QED
  BY <1>2, <1>3 DEF StartWorker

LEMMA RefreshKeeps == IInv /\ Refresh => IInv'
<1> SUFFICES ASSUME IInv, Refresh PROVE IInv'
  OBVIOUS
<1> USE DEF IInv, TypeOK
<1>1. timer' \in BOOLEAN
  BY TimerStep DEF Next
<1>2. worker = "started" /\ future = NoRequest /\ pending = << >>
  BY DiscoveryAssumption DEF Refresh, Phases, OneSearch
<1>3. PICK r \in Requests : Service!Accept(r) /\ future' = r /\ latest' = r
  BY DEF Refresh
<1>4. pending' = <<r>> /\ answer[r] = "none" /\ phase = "up"
      /\ UNCHANGED <<phase, asked, inHand, answer>>
  BY <1>2, <1>3, ShortQueue DEF Service!Accept
<1>5. combo' = "searching" /\ timer' = TRUE /\ thread' = "messages" /\ worker' = worker
  BY DEF Refresh
<1> QED
  BY <1>1, <1>2, <1>3, <1>4, <1>5, ShortQueue, DiscoveryAssumption DEF Phases, OneSearch, Shown

LEMMA PollKeeps == IInv /\ Poll => IInv'
<1> SUFFICES ASSUME IInv, Poll PROVE IInv'
  OBVIOUS
<1> USE DEF IInv, TypeOK, service
<1>1. timer' \in BOOLEAN
  BY TimerStep DEF Next
<1>2. pending = << >> /\ latest = future /\ future \in Requests
  BY DEF Poll, OneSearch
<1>3. combo' \in {"nothing", "devices"} /\ (combo' = "devices" => answer[future] = "success")
  BY DEF Poll
<1> QED
  BY <1>1, <1>2, <1>3, DiscoveryAssumption DEF Poll, Phases, OneSearch, Shown

LEMMA DestroyKeeps == IInv /\ Destroy => IInv'
<1> SUFFICES ASSUME IInv, Destroy PROVE IInv'
  OBVIOUS
<1> USE DEF IInv, TypeOK, service
<1>1. timer' \in BOOLEAN
  BY TimerStep DEF Next
<1>2. CASE worker = "started"
  <2>1. thread' = "closing" /\ Service!Drain /\ UNCHANGED <<worker, future, combo, latest>>
    BY <1>2 DEF Destroy
  <2>2. phase' = "draining" /\ UNCHANGED <<pending, answer>>
    BY <2>1 DEF Service!Drain
  <2>3. inHand' \subseteq Requests /\ asked' \subseteq Requests
    <3>1. pending # << >> => Head(pending) \in Requests
      BY ShortQueue DEF OneSearch
    <3> QED
      BY <2>1, <3>1 DEF Service!Drain
  <2> QED
    BY <1>1, <1>2, <2>1, <2>2, <2>3 DEF Phases, OneSearch, Shown
<1>3. CASE worker # "started"
  BY <1>1, <1>3 DEF Destroy, Phases, OneSearch, Shown
<1> QED
  BY <1>2, <1>3

LEMMA DestroyedKeeps == IInv /\ Destroyed => IInv'
<1> SUFFICES ASSUME IInv, Destroyed PROVE IInv'
  OBVIOUS
<1> USE DEF IInv, TypeOK, window
<1>1. timer' \in BOOLEAN
  BY TimerStep DEF Next
<1> QED
  BY <1>1 DEF Destroyed, Service!Release, Phases, OneSearch, Shown

LEMMA AnswerKeeps == IInv /\ Answer => IInv'
<1> SUFFICES ASSUME IInv, Answer PROVE IInv'
  OBVIOUS
<1> USE DEF IInv, TypeOK, window
<1>1. timer' \in BOOLEAN
  BY TimerStep DEF Next
<1>2. PICK a \in Service!Answers : Service!Reply(a)
  BY DEF Answer
<1>3. pending = <<future>> /\ future \in Requests /\ answer[future] = "none"
  BY <1>2 DEF Service!Reply, OneSearch
<1>4. pending' = << >> /\ answer' = [answer EXCEPT ![future] = a]
      /\ inHand' = {} /\ UNCHANGED <<phase, asked>>
  BY <1>2, <1>3, ShortQueue DEF Service!Reply
<1>5. a # "none"
  BY <1>2 DEF Service!Answers
<1>6. UNCHANGED <<thread, worker, future, timer, combo, latest>>
  BY DEF Answer
<1>7. latest = future
  BY <1>3, DiscoveryAssumption DEF OneSearch
<1>8. answer' \in [Requests -> Service!Answers \cup {"none"}] /\ answer'[future] = a
  BY <1>2, <1>3, <1>4
<1>9. combo # "devices"
  BY <1>3, <1>7 DEF Shown
<1> QED
  BY <1>1, <1>3, <1>4, <1>5, <1>6, <1>7, <1>8, <1>9, ShortQueue, DiscoveryAssumption
  DEF Phases, OneSearch, Shown

\* The strengthened invariant holds in every reachable state.
THEOREM Invariance == Spec => []IInv
<1>1. IInv /\ [Next]_vars => IInv'
  <2> SUFFICES ASSUME IInv, [Next]_vars PROVE IInv'
    OBVIOUS
  <2>1. UNCHANGED vars => IInv'
    BY DEF vars, window, service, IInv, TypeOK, Phases, OneSearch, Shown
  <2> QED
    BY <2>1, StartWorkerKeeps, RefreshKeeps, PollKeeps, DestroyKeeps, DestroyedKeeps, AnswerKeeps
    DEF Next
<1> QED
  BY <1>1, InitHolds, PTL DEF Spec

\* Every variable keeps its type.
THEOREM TypeCorrect == Spec => []TypeOK
<1>1. IInv => TypeOK
  BY DEF IInv
<1> QED
  BY <1>1, Invariance, PTL

\* Future, timer, list and worker agree on whether a discovery is under way.
THEOREM DiscoveryIsTracked == Spec => []DiscoveryTracked
<1>1. IInv => DiscoveryTracked
  <2> SUFFICES ASSUME IInv PROVE DiscoveryTracked
    OBVIOUS
  <2>1. Range(pending) \subseteq {future}
    BY DEF IInv, OneSearch, Range
  <2>2. ASSUME pending = <<future>> PROVE future \in Range(pending)
    <3>1. 1 \in DOMAIN pending /\ pending[1] = future
      BY <2>2
    <3> QED
      BY <3>1 DEF Range
  <2> QED
    BY <2>1, <2>2 DEF IInv, OneSearch, Shown, DiscoveryTracked
<1> QED
  BY <1>1, Invariance, PTL

\* At most one request is outstanding, and submit() never meets a full queue.
THEOREM OneIsOutstanding == Spec => []OneOutstanding
<1>1. IInv => OneOutstanding
  <2> SUFFICES ASSUME IInv PROVE OneOutstanding
    OBVIOUS
  <2>1. Len(pending) <= 1
    <3>1. CASE pending = << >>
      BY <3>1
    <3>2. CASE pending = <<future>>
      BY <3>2
    <3> QED
      BY <3>1, <3>2 DEF IInv, OneSearch
  <2>2. thread = "submitting" => phase = "up" /\ pending = << >>
    BY DiscoveryAssumption DEF IInv, Phases, OneSearch
  <2> QED
    BY <2>1, <2>2 DEF OneOutstanding
<1> QED
  BY <1>1, Invariance, PTL

\* Scanners are shown only as the answer to the latest search.
THEOREM LatestAnswerShown == Spec => []ShowsLatestAnswer
<1>1. IInv => ShowsLatestAnswer
  BY DEF IInv, Shown, ShowsLatestAnswer
<1> QED
  BY <1>1, Invariance, PTL

\* A window that is gone has released its worker.
THEOREM WorkerIsReleased == Spec => []WorkerReleased
<1>1. IInv => WorkerReleased
  BY DEF IInv, Phases, WorkerReleased
<1> QED
  BY <1>1, Invariance, PTL
=============================================================================
