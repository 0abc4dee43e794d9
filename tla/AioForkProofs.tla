---------------------------- MODULE AioForkProofs ----------------------------
(***************************************************************************)
(* Proofs about AioFork, for any number of requests, workers, descriptors  *)
(* and queue places, with and without a limit on the workers: the counters *)
(* are exact, workers and requests belong to each other one to one, nobody *)
(* waits for a worker that is idle, and each answer reaches its request.   *)
(***************************************************************************)
EXTENDS AioFork, FiniteSetTheorems, SequenceTheorems, TLAPS

-----------------------------------------------------------------------------
(* Sequences and offers.                                                   *)

\* What is left of a sequence when one element is taken out of it.
LEMMA RemoveAtProperties ==
    ASSUME NEW S, NEW s \in Seq(S), NEW i \in 1 .. Len(s)
    PROVE  /\ RemoveAt(s, i) \in Seq(S)
           /\ Len(RemoveAt(s, i)) = Len(s) - 1
           /\ \A j \in 1 .. Len(s) - 1 :
                 RemoveAt(s, i)[j] = IF j < i THEN s[j] ELSE s[j + 1]
<1> DEFINE a == SubSeq(s, 1, i - 1)
           b == SubSeq(s, i + 1, Len(s))
<1>1. a \in Seq(S) /\ Len(a) = i - 1 /\ \A j \in 1 .. i - 1 : a[j] = s[j]
  OBVIOUS
<1>2. b \in Seq(S) /\ Len(b) = Len(s) - i /\ \A j \in 1 .. Len(s) - i : b[j] = s[i + j]
  OBVIOUS
<1>3. RemoveAt(s, i) = a \o b
  BY DEF RemoveAt
<1> HIDE DEF a, b
<1>4. /\ a \o b \in Seq(S)
      /\ Len(a \o b) = Len(a) + Len(b)
      /\ \A j \in 1 .. Len(a) + Len(b) :
            (a \o b)[j] = IF j <= Len(a) THEN a[j] ELSE b[j - Len(a)]
  BY <1>1, <1>2, ConcatProperties
<1>5. Len(a) + Len(b) = Len(s) - 1
  BY <1>1, <1>2
<1>6. ASSUME NEW j \in 1 .. Len(s) - 1
      PROVE  (a \o b)[j] = IF j < i THEN s[j] ELSE s[j + 1]
  <2>1. CASE j < i
    BY <1>1, <1>4, <1>5, <2>1
  <2>2. CASE ~(j < i)
    <3>1. (a \o b)[j] = b[j - (i - 1)] /\ j - (i - 1) \in 1 .. Len(s) - i
      BY <1>1, <1>4, <1>5, <2>2
    <3>2. b[j - (i - 1)] = s[i + (j - (i - 1))]
      BY <1>2, <3>1
    <3> QED
      BY <2>2, <3>1, <3>2
  <2> QED
    BY <2>1, <2>2
<1> QED
  BY <1>3, <1>4, <1>5, <1>6

\* A listed worker has a socket.
ListedType == \A w \in Workers : worker[w].listed => worker[w].fd \in Fds

\* A request that a worker has, and no other, names a worker and a descriptor.
ActiveType ==
    \A r \in Requests :
        IF request[r].status = "active"
        THEN request[r].child \in Workers /\ request[r].reading \in Fds
        ELSE request[r].child = None /\ request[r].reading = None

TypedInv ==
    /\ StateType
    /\ numChildren \in Int
    /\ numPending \in Int
    /\ ListedType
    /\ ActiveType

\* A worker that is offered is idle or new, and its state is that of a listed one.
LEMMA OffersAre ==
    ASSUME TypedInv, NEW w \in Offers
    PROVE  /\ w.id \in Workers
           /\ w.state \in WorkerStates
           /\ w.state.listed
           /\ ~w.state.busy
           /\ w.state.fd \in Fds
           /\ w.children \in Int
           /\ \/ /\ w.id \in Idle
                 /\ w.state = worker[w.id]
                 /\ w.children = numChildren
              \/ /\ Idle = {}
                 /\ MayCreate
                 /\ w.id \in Workers \ Children
                 /\ \E fd \in FreeFds : w.state = NewWorker(fd)
                 /\ w.children = numChildren + 1
<1>1. CASE Idle # {}
  <2>1. PICK v \in Idle : w = [id |-> v, state |-> worker[v], children |-> numChildren]
    BY <1>1 DEF Offers, IdleWorkers
  <2>2. w.id = v /\ w.state = worker[v] /\ w.children = numChildren
    BY <2>1
  <2> QED
    BY <2>2 DEF Idle, Children, TypedInv, StateType, ListedType
<1>2. CASE Idle = {}
  <2>1. MayCreate /\ w \in NewWorkers
    BY <1>2 DEF Offers
  <2>2. PICK v \in Workers \ Children, fd \in FreeFds :
            w = [id |-> v, state |-> NewWorker(fd), children |-> numChildren + 1]
    BY <2>1 DEF NewWorkers
  <2>3. w.id = v /\ w.state = NewWorker(fd) /\ w.children = numChildren + 1
    BY <2>2
  <2>4. /\ NewWorker(fd) \in WorkerStates
        /\ NewWorker(fd).listed
        /\ ~NewWorker(fd).busy
        /\ NewWorker(fd).fd \in Fds
    BY DEF NewWorker, WorkerStates, FreeFds
  <2> QED
    BY <1>2, <2>1, <2>2, <2>3, <2>4 DEF TypedInv
<1> QED
  BY <1>1, <1>2

-----------------------------------------------------------------------------
(* Types.                                                                  *)

LEMMA NoWorkerType == NoWorker \in WorkerStates /\ ~NoWorker.listed
BY DEF NoWorker, WorkerStates

LEMMA RequestType ==
    ASSUME NEW status \in {"none", "queued", "active", "answering", "freeing", "finished"},
           NEW result \in {None, "own", "other", "error"}
    PROVE  Request(status, result) \in RequestStates
BY DEF Request, RequestStates

\* A request that a worker does not have any more, or not yet.
LEMMA RequestUpdate ==
    ASSUME TypedInv, NEW r \in Requests,
           NEW status \in {"none", "queued", "answering", "freeing", "finished"},
           NEW result \in {None, "own", "other", "error"},
           request' = [request EXCEPT ![r] = Request(status, result)]
    PROVE  /\ request' \in [Requests -> RequestStates]
           /\ request'[r] = Request(status, result)
           /\ request'[r].status = status
           /\ request'[r].result = result
           /\ \A q \in Requests : q # r => request'[q] = request[q]
           /\ ActiveType'
<1>1. Request(status, result) \in RequestStates
  BY RequestType
<1>2. /\ Request(status, result).status = status
      /\ Request(status, result).result = result
      /\ Request(status, result).child = None
      /\ Request(status, result).reading = None
  BY DEF Request
<1>3. request' \in [Requests -> RequestStates] /\ request'[r] = Request(status, result)
  BY <1>1 DEF TypedInv, StateType
<1>4. \A q \in Requests : q # r => request'[q] = request[q]
  BY DEF TypedInv, StateType
<1> QED
  BY <1>2, <1>3, <1>4 DEF TypedInv, ActiveType

LEMMA DispatchType ==
    ASSUME TypedInv, NEW w \in Offers, NEW r \in Requests,
           Dispatch(r, w) \/ DispatchFails(r, w)
    PROVE  /\ worker' \in [Workers -> WorkerStates] /\ ListedType'
           /\ numChildren' \in Int
           /\ request' \in [Requests -> RequestStates]
           /\ watch' \in [Fds -> Requests \cup {None}]
           /\ ActiveType'
<1> USE DEF TypedInv, StateType, ActiveType, ListedType
<1>0. w.state.fd \in Fds
  BY OffersAre
<1>0a. w.id \in Workers /\ w.state \in WorkerStates /\ w.children \in Int
  BY OffersAre
<1>1. CASE Dispatch(r, w)
  <2>1. [w.state EXCEPT !.busy = TRUE, !.kept = TRUE,
                        !.commands = Append(w.state.commands, r)] \in WorkerStates
    <3>1. Append(w.state.commands, r) \in Seq(Requests)
      BY <1>0a DEF WorkerStates
    <3> QED
      BY <1>0a, <3>1 DEF WorkerStates
  <2>2. worker' \in [Workers -> WorkerStates] /\ ListedType'
    BY <1>0, <1>0a, <1>1, <2>1 DEF Dispatch, ListedType
  <2>3. [status |-> "active", child |-> w.id, reading |-> w.state.fd, result |-> None]
            \in RequestStates
    BY <1>0, <1>0a DEF RequestStates, WorkerStates
  <2> QED
    BY <1>0, <1>0a, <1>1, <2>2, <2>3 DEF Dispatch
<1>2. CASE DispatchFails(r, w)
  <2>1. request' \in [Requests -> RequestStates] /\ ActiveType'
    BY <1>2, RequestUpdate DEF DispatchFails
  <2>2. worker' \in [Workers -> WorkerStates] /\ ListedType'
    BY <1>0a, <1>2, NoWorkerType DEF DispatchFails, ListedType
  <2> QED
    BY <1>0a, <1>2, <2>1, <2>2 DEF DispatchFails
<1> QED
  BY <1>1, <1>2

LEMMA ReleaseType ==
    ASSUME TypedInv, NEW w \in Workers, NEW answers \in Seq(Requests), NEW fails \in BOOLEAN,
           Release(w, answers, fails)
    PROVE  /\ worker' \in [Workers -> WorkerStates] /\ ListedType'
           /\ numChildren' \in Int
           /\ pc' = "schedule"
<1>1. worker[w] \in WorkerStates
  BY DEF TypedInv, StateType
<1>2. [worker[w] EXCEPT !.busy = FALSE, !.answers = answers] \in WorkerStates
  BY <1>1 DEF WorkerStates
<1> QED
  BY <1>1, <1>2, NoWorkerType DEF Release, TypedInv, StateType, ListedType

LEMMA TakeHeadType ==
    ASSUME TypedInv, TakeHead
    PROVE  /\ Head(pending) \in Requests
           /\ pending' \in Seq(Requests)
           /\ Len(pending') = Len(pending) - 1
           /\ \A i \in 1 .. Len(pending') : pending'[i] = pending[i + 1]
           /\ Head(pending) = pending[1]
           /\ numPending' \in Int
BY HeadTailProperties DEF TakeHead, TypedInv, StateType

LEMMA Typed == Spec => []TypedInv
<1> USE AioForkAssumption
<1>1. Init => TypedInv
  <2> SUFFICES ASSUME Init PROVE TypedInv
    OBVIOUS
  <2>1. /\ Request("none", None) \in RequestStates
        /\ Request("none", None).status = "none"
        /\ Request("none", None).child = None
        /\ Request("none", None).reading = None
    BY RequestType DEF Request
  <2> QED
    BY <2>1, NoWorkerType DEF Init, TypedInv, StateType, ActiveType, ListedType
<1>2. TypedInv /\ [Next]_vars => TypedInv'
  <2> SUFFICES ASSUME TypedInv, [Next]_vars
               PROVE  TypedInv'
    OBVIOUS
  <2>0. StateType /\ numChildren \in Int /\ numPending \in Int /\ ListedType /\ ActiveType
    BY DEF TypedInv
  <2>1. ASSUME NEW r \in Requests, Send(r)
        PROVE  TypedInv'
    <3>1. CASE SendRefused(r)
      BY <2>0, <3>1, RequestUpdate DEF SendRefused, TypedInv, StateType, ListedType
    <3>2. CASE SendDispatched(r)
      <4>1. PICK w \in Offers :
                \/ Dispatch(r, w) /\ UNCHANGED pc
                \/ DispatchFails(r, w) /\ pc' = "schedule"
        BY <3>2 DEF SendDispatched
      <4>2. pc' \in {"loop", "schedule", "callback"} /\ UNCHANGED <<pending, numPending>>
        BY <2>0, <3>2, <4>1 DEF SendDispatched, StateType
      <4>3. /\ worker' \in [Workers -> WorkerStates] /\ ListedType'
            /\ numChildren' \in Int
            /\ request' \in [Requests -> RequestStates]
            /\ watch' \in [Fds -> Requests \cup {None}]
            /\ ActiveType'
        BY <4>1, DispatchType
      <4> QED
        BY <2>0, <4>2, <4>3 DEF TypedInv, StateType, ListedType
    <3>3. CASE SendSync(r)
      BY <2>0, <3>3, RequestUpdate DEF SendSync, RunSync, TypedInv, StateType, ListedType
    <3>4. CASE SendQueued(r)
      <4>1. request' \in [Requests -> RequestStates] /\ ActiveType'
        BY <3>4, RequestUpdate DEF SendQueued
      <4>2. pending' \in Seq(Requests)
        BY <2>0, <3>4 DEF SendQueued, StateType
      <4> QED
        BY <2>0, <3>4, <4>1, <4>2 DEF SendQueued, TypedInv, StateType, ListedType
    <3> QED
      BY <2>1, <3>1, <3>2, <3>3, <3>4 DEF Send
  <2>2. ASSUME NEW r \in Requests, DoneAnswer(r)
        PROVE  TypedInv'
    <3> DEFINE w == request[r].child
    <3>1. w \in Workers
      BY <2>0, <2>2 DEF DoneAnswer, ActiveType
    <3>2. worker[w].answers \in Seq(Requests) /\ worker[w].answers # <<>>
      BY <2>0, <2>2, <3>1 DEF DoneAnswer, StateType, WorkerStates
    <3>3. Release(w, Tail(worker[w].answers), FALSE) /\ UNCHANGED <<pending, numPending>>
      BY <2>2 DEF DoneAnswer
    <3>4. Tail(worker[w].answers) \in Seq(Requests)
      BY <3>2
    <3>5. /\ worker' \in [Workers -> WorkerStates] /\ ListedType'
          /\ numChildren' \in Int
          /\ pc' = "schedule"
      BY <3>1, <3>3, <3>4, ReleaseType
    <3>6. PICK result \in {None, "own", "other", "error"} :
              request' = [request EXCEPT ![r] = Request("answering", result)]
      BY <2>2 DEF DoneAnswer, ResultOf
    <3>7. request' \in [Requests -> RequestStates] /\ ActiveType'
      BY <3>6, RequestUpdate
    <3>8. watch' \in [Fds -> Requests \cup {None}]
      BY <2>0, <2>2 DEF DoneAnswer, StateType
    <3> QED
      BY <2>0, <3>3, <3>5, <3>7, <3>8 DEF TypedInv, StateType, ListedType
  <2>3. ASSUME NEW r \in Requests, DoneFailed(r) \/ FreeActive(r)
        PROVE  TypedInv'
    <3>1. request[r].child \in Workers
      BY <2>0, <2>3 DEF DoneFailed, FreeActive, ActiveType
    <3>2. Release(request[r].child, <<>>, TRUE) /\ UNCHANGED <<pending, numPending>>
      BY <2>3 DEF DoneFailed, FreeActive
    <3>3. /\ worker' \in [Workers -> WorkerStates] /\ ListedType'
          /\ numChildren' \in Int
          /\ pc' = "schedule"
      <4>1. <<>> \in Seq(Requests)
        OBVIOUS
      <4> QED
        BY <3>1, <3>2, <4>1, ReleaseType
    <3>4. PICK status \in {"answering", "freeing"}, result \in {None, "error"} :
              request' = [request EXCEPT ![r] = Request(status, result)]
      BY <2>3 DEF DoneFailed, FreeActive
    <3>5. request' \in [Requests -> RequestStates] /\ ActiveType'
      BY <3>4, RequestUpdate
    <3>6. watch' \in [Fds -> Requests \cup {None}]
      BY <2>0, <2>3 DEF DoneFailed, FreeActive, StateType
    <3> QED
      BY <2>0, <3>2, <3>3, <3>5, <3>6 DEF TypedInv, StateType, ListedType
  <2>4. ASSUME NEW r \in Requests, FreeQueued(r)
        PROVE  TypedInv'
    <3>1. pending' \in Seq(Requests)
      BY <2>0, <2>4, RemoveAtProperties DEF FreeQueued, StateType
    <3>2. request' \in [Requests -> RequestStates] /\ ActiveType'
      BY <2>4, RequestUpdate DEF FreeQueued
    <3> QED
      BY <2>0, <2>4, <3>1, <3>2 DEF FreeQueued, TypedInv, StateType, ListedType
  <2>5. ASSUME NEW r \in Requests, Collect(r)
        PROVE  TypedInv'
    BY <2>0, <2>5, RequestUpdate DEF Collect, TypedInv, StateType, ListedType
  <2>6. CASE ScheduleDispatch
    <3>1. PICK w \in Offers : Dispatch(Head(pending), w) \/ DispatchFails(Head(pending), w)
      BY <2>6 DEF ScheduleDispatch
    <3>2. TakeHead /\ UNCHANGED pc
      BY <2>6 DEF ScheduleDispatch
    <3>3. Head(pending) \in Requests /\ pending' \in Seq(Requests) /\ numPending' \in Int
      BY <3>2, TakeHeadType
    <3>4. /\ worker' \in [Workers -> WorkerStates] /\ ListedType'
          /\ numChildren' \in Int
          /\ request' \in [Requests -> RequestStates]
          /\ watch' \in [Fds -> Requests \cup {None}]
          /\ ActiveType'
      BY <3>1, <3>3, DispatchType
    <3> QED
      BY <2>0, <3>2, <3>3, <3>4 DEF TypedInv, StateType, ListedType
  <2>7. CASE ScheduleSync
    <3>1. Head(pending) \in Requests /\ pending' \in Seq(Requests) /\ numPending' \in Int
      BY <2>7, TakeHeadType DEF ScheduleSync
    <3>2. request' \in [Requests -> RequestStates] /\ ActiveType'
      BY <2>7, <3>1, RequestUpdate DEF ScheduleSync, RunSync
    <3> QED
      BY <2>0, <2>7, <3>1, <3>2 DEF ScheduleSync, RunSync, TypedInv, StateType, ListedType
  <2>8. CASE ScheduleStops
    <3>1. ASSUME NEW r \in Requests
          PROVE  /\ Settled(request[r]) \in RequestStates
                 /\ Settled(request[r]).status = "active" => Settled(request[r]) = request[r]
                 /\ Settled(request[r]).status # "active" =>
                       /\ request[r].status # "active"
                       /\ Settled(request[r]).child = None
                       /\ Settled(request[r]).reading = None
      <4>1. request[r] \in RequestStates
        BY <2>0 DEF StateType
      <4>2. CASE request[r].status = "answering"
        BY <2>0, <4>1, <4>2 DEF Settled, RequestStates, ActiveType
      <4>3. CASE request[r].status = "freeing"
        BY <4>3, RequestType DEF Settled, Request
      <4>4. CASE request[r].status \notin {"answering", "freeing"}
        BY <2>0, <4>1, <4>4 DEF Settled, ActiveType
      <4> QED
        BY <4>2, <4>3, <4>4
    <3>2. request' \in [Requests -> RequestStates] /\ ActiveType'
      BY <2>0, <2>8, <3>1 DEF ScheduleStops, ActiveType
    <3> QED
      BY <2>0, <2>8, <3>2 DEF ScheduleStops, TypedInv, StateType, ListedType
  <2>9. CASE ReturnFromCallback
    BY <2>0, <2>9 DEF ReturnFromCallback, TypedInv, StateType, ActiveType, ListedType
  <2>10. CASE Sweep
    <3>1. ASSUME NEW w \in Workers
          PROVE  [worker[w] EXCEPT !.kept = FALSE] \in WorkerStates
      <4>1. worker[w] \in WorkerStates
        BY <2>0 DEF StateType
      <4> QED
        BY <4>1 DEF WorkerStates
    <3>2. worker' \in [Workers -> WorkerStates] /\ ListedType'
      BY <2>0, <2>10, <3>1, NoWorkerType DEF Sweep, StateType, ListedType
    <3>3. numChildren' \in Int
      <4>1. IsFiniteSet(Stale)
        BY FS_Subset DEF Stale, Idle, Children
      <4> QED
        BY <2>0, <2>10, <4>1, FS_CardinalityType DEF Sweep
    <3> QED
      BY <2>0, <2>10, <3>2, <3>3 DEF Sweep, TypedInv, StateType, ActiveType, ListedType
  <2>11. ASSUME NEW w \in Workers, Work(w) \/ Die(w)
         PROVE  TypedInv'
    <3>1. worker[w] \in WorkerStates
      BY <2>0 DEF StateType
    <3>2. CASE Work(w)
      <4>1. /\ worker[w].commands \in Seq(Requests) /\ worker[w].commands # <<>>
            /\ worker[w].answers \in Seq(Requests)
        BY <3>1, <3>2 DEF Work, WorkerStates
      <4>2. /\ Tail(worker[w].commands) \in Seq(Requests)
            /\ Append(worker[w].answers, Head(worker[w].commands)) \in Seq(Requests)
        BY <4>1
      <4>3. worker' \in [Workers -> WorkerStates] /\ ListedType'
        BY <2>0, <3>1, <3>2, <4>2 DEF Work, StateType, WorkerStates, ListedType
      <4> QED
        BY <2>0, <3>2, <4>3 DEF Work, TypedInv, StateType, ActiveType, ListedType
    <3>3. CASE Die(w)
      <4>1. worker' \in [Workers -> WorkerStates] /\ ListedType'
        BY <2>0, <3>1, <3>3 DEF Die, StateType, WorkerStates, ListedType
      <4> QED
        BY <2>0, <3>3, <4>1 DEF Die, TypedInv, StateType, ActiveType, ListedType
    <3> QED
      BY <2>11, <3>2, <3>3
  <2>12. CASE UNCHANGED vars
    BY <2>0, <2>12 DEF vars, TypedInv, StateType, ActiveType, ListedType
  <2> QED
    BY <2>1, <2>2, <2>3, <2>4, <2>5, <2>6, <2>7, <2>8, <2>9, <2>10, <2>11, <2>12
    DEF Next, Done, Schedule
<1> QED
  BY <1>1, <1>2, PTL DEF Spec

-----------------------------------------------------------------------------
(* The queue.                                                              *)

\* The queue, its counter and its requests agree.
QueueInv == QueueIsQueued /\ numPending = Len(pending) /\ numPending <= MaxPending

\* A step that is not about queued requests leaves the queue alone.
LEMMA QueueKept ==
    ASSUME TypedInv, QueueInv, UNCHANGED <<pending, numPending>>, Queued' = Queued
    PROVE  QueueInv'
BY DEF QueueInv, QueueIsQueued

\* One request changes from one status to another, neither of them queued.
LEMMA QueuedSame ==
    ASSUME NEW r \in Requests, request[r].status # "queued", request'[r].status # "queued",
           \A q \in Requests : q # r => request'[q] = request[q]
    PROVE  Queued' = Queued
BY DEF Queued

\* The head of the queue leaves it.
LEMMA HeadTaken ==
    ASSUME TypedInv, QueueInv, TakeHead,
           request'[Head(pending)].status # "queued",
           \A q \in Requests : q # Head(pending) => request'[q] = request[q]
    PROVE  QueueInv'
<1>1. /\ Head(pending) \in Requests
      /\ pending' \in Seq(Requests)
      /\ Len(pending) \in Nat \ {0}
      /\ Len(pending') = Len(pending) - 1
      /\ \A i \in 1 .. Len(pending') : pending'[i] = pending[i + 1]
      /\ Head(pending) = pending[1]
  BY TakeHeadType DEF TakeHead, TypedInv, StateType
<1>2. numPending' = Len(pending') /\ numPending' <= MaxPending
  BY <1>1, AioForkAssumption DEF TakeHead, QueueInv
<1>3. /\ \A i \in 1 .. Len(pending) : pending[i] \in Queued
      /\ \A q \in Queued : \E i \in 1 .. Len(pending) : pending[i] = q
      /\ \A i, j \in 1 .. Len(pending) : pending[i] = pending[j] => i = j
  BY DEF QueueInv, QueueIsQueued, TypedInv, StateType
<1>4. Queued' = Queued \ {Head(pending)}
  BY <1>1 DEF Queued
<1>5. DOMAIN pending' = 1 .. Len(pending')
  BY <1>1
<1>6. \A i \in 1 .. Len(pending') : pending'[i] \in Queued'
  BY <1>1, <1>3, <1>4
<1>7. ASSUME NEW q \in Queued'
      PROVE  \E i \in 1 .. Len(pending') : pending'[i] = q
  <2>1. PICK j \in 1 .. Len(pending) : pending[j] = q
    BY <1>3, <1>4
  <2>2. j # 1
    BY <1>1, <1>4, <2>1
  <2>3. j - 1 \in 1 .. Len(pending') /\ pending'[j - 1] = pending[j]
    BY <1>1, <2>2
  <2> QED
    BY <2>1, <2>3
<1>8. \A i, j \in 1 .. Len(pending') : pending'[i] = pending'[j] => i = j
  BY <1>1, <1>3
<1> QED
  BY <1>2, <1>5, <1>6, <1>7, <1>8 DEF QueueInv, QueueIsQueued

\* A queued request is freed.
LEMMA QueuedFreed ==
    ASSUME TypedInv, QueueInv, NEW r \in Requests, FreeQueued(r)
    PROVE  QueueInv'
<1>1. PICK k \in DOMAIN pending : pending[k] = r /\ pending' = RemoveAt(pending, k)
  BY DEF FreeQueued
<1>2. pending \in Seq(Requests) /\ k \in 1 .. Len(pending)
  BY <1>1 DEF TypedInv, StateType
<1>3. /\ pending' \in Seq(Requests)
      /\ Len(pending') = Len(pending) - 1
      /\ \A i \in 1 .. Len(pending) - 1 :
            pending'[i] = IF i < k THEN pending[i] ELSE pending[i + 1]
  BY <1>1, <1>2, RemoveAtProperties
<1>4. numPending' = Len(pending') /\ numPending' <= MaxPending
  BY <1>2, <1>3, AioForkAssumption DEF FreeQueued, QueueInv
<1>5. /\ \A i \in 1 .. Len(pending) : pending[i] \in Queued
      /\ \A q \in Queued : \E i \in 1 .. Len(pending) : pending[i] = q
      /\ \A i, j \in 1 .. Len(pending) : pending[i] = pending[j] => i = j
  BY <1>2 DEF QueueInv, QueueIsQueued
<1>6. Queued' = Queued \ {r}
  <2>1. request'[r].status = "none" /\ \A q \in Requests : q # r => request'[q] = request[q]
    BY RequestUpdate DEF FreeQueued
  <2> QED
    BY <2>1 DEF Queued
<1>7. DOMAIN pending' = 1 .. Len(pending')
  BY <1>3
<1>8. ASSUME NEW i \in 1 .. Len(pending')
      PROVE  pending'[i] \in Queued'
  <2>1. PICK j \in 1 .. Len(pending) : j # k /\ pending'[i] = pending[j]
    <3>1. CASE i < k
      BY <1>2, <1>3, <3>1
    <3>2. CASE ~(i < k)
      BY <1>2, <1>3, <3>2
    <3> QED
      BY <3>1, <3>2
  <2> QED
    BY <1>1, <1>2, <1>5, <1>6, <2>1
<1>9. ASSUME NEW q \in Queued'
      PROVE  \E i \in 1 .. Len(pending') : pending'[i] = q
  <2>1. PICK j \in 1 .. Len(pending) : pending[j] = q
    BY <1>5, <1>6
  <2>2. j # k
    BY <1>1, <1>6, <2>1
  <2>3. CASE j < k
    BY <1>2, <1>3, <2>1, <2>3
  <2>4. CASE k < j
    <3>1. j - 1 \in 1 .. Len(pending') /\ pending'[j - 1] = pending[j]
      BY <1>2, <1>3, <2>4
    <3> QED
      BY <2>1, <3>1
  <2> QED
    BY <1>2, <2>2, <2>3, <2>4
<1>10. \A i, j \in 1 .. Len(pending') : pending'[i] = pending'[j] => i = j
  BY <1>2, <1>3, <1>5
<1> QED
  BY <1>4, <1>7, <1>8, <1>9, <1>10 DEF QueueInv, QueueIsQueued

\* A request enters the queue at its end.
LEMMA RequestQueued ==
    ASSUME TypedInv, QueueInv, NEW r \in Requests, SendQueued(r)
    PROVE  QueueInv'
<1>1. pending \in Seq(Requests) /\ pending' = Append(pending, r)
  BY DEF SendQueued, TypedInv, StateType
<1>2. /\ Len(pending') = Len(pending) + 1
      /\ DOMAIN pending' = 1 .. Len(pending) + 1
      /\ \A i \in 1 .. Len(pending) : pending'[i] = pending[i]
      /\ pending'[Len(pending) + 1] = r
      /\ Len(pending) \in Nat
  BY <1>1
<1>3. numPending' = Len(pending') /\ numPending' <= MaxPending
  BY <1>2, AioForkAssumption DEF SendQueued, QueueInv
<1>4. /\ \A i \in 1 .. Len(pending) : pending[i] \in Queued
      /\ \A q \in Queued : \E i \in 1 .. Len(pending) : pending[i] = q
      /\ \A i, j \in 1 .. Len(pending) : pending[i] = pending[j] => i = j
  BY <1>1 DEF QueueInv, QueueIsQueued
<1>5. Queued' = Queued \cup {r} /\ r \notin Queued
  <2>1. request'[r].status = "queued" /\ \A q \in Requests : q # r => request'[q] = request[q]
    BY RequestUpdate DEF SendQueued
  <2> QED
    BY <2>1 DEF Queued, SendQueued, Sending
<1>6. \A i \in 1 .. Len(pending) + 1 : pending'[i] \in Queued'
  BY <1>2, <1>4, <1>5
<1>7. \A q \in Queued' : \E i \in 1 .. Len(pending) + 1 : pending'[i] = q
  BY <1>2, <1>4, <1>5
<1>8. \A i, j \in 1 .. Len(pending) + 1 : pending'[i] = pending'[j] => i = j
  BY <1>2, <1>4, <1>5
<1> QED
  BY <1>2, <1>3, <1>6, <1>7, <1>8 DEF QueueInv, QueueIsQueued

\* Giving a request to a worker changes that request only, and it is queued no more.
LEMMA DispatchRequest ==
    ASSUME TypedInv, NEW w \in Offers, NEW r \in Requests,
           Dispatch(r, w) \/ DispatchFails(r, w)
    PROVE  /\ request'[r].status \in {"active", "answering"}
           /\ \A q \in Requests : q # r => request'[q] = request[q]
<1>1. CASE Dispatch(r, w)
  BY <1>1 DEF Dispatch, TypedInv, StateType
<1>2. CASE DispatchFails(r, w)
  BY <1>2, RequestUpdate DEF DispatchFails
<1> QED
  BY <1>1, <1>2

LEMMA QueueInvariant == Spec => []QueueInv
<1>1. Init => QueueInv
  <2> SUFFICES ASSUME Init PROVE QueueInv
    OBVIOUS
  <2>1. Queued = {}
    BY DEF Init, Queued, Request
  <2> QED
    BY <2>1, AioForkAssumption DEF Init, QueueInv, QueueIsQueued
<1>2. TypedInv /\ QueueInv /\ [Next]_vars => QueueInv'
  <2> SUFFICES ASSUME TypedInv, QueueInv, [Next]_vars
               PROVE  QueueInv'
    OBVIOUS
  <2>1. ASSUME NEW r \in Requests, SendRefused(r) \/ SendSync(r) \/ Collect(r)
        PROVE  QueueInv'
    <3>1. request[r].status # "queued"
      BY <2>1 DEF SendRefused, SendSync, Collect, Sending
    <3>2. PICK status \in {"none", "finished"}, result \in {None, "own", "error"} :
              request' = [request EXCEPT ![r] = Request(status, result)]
      BY <2>1 DEF SendRefused, SendSync, RunSync, Collect
    <3>3. Queued' = Queued
      <4>1. /\ request'[r].status # "queued"
            /\ \A q \in Requests : q # r => request'[q] = request[q]
        BY <3>2, RequestUpdate
      <4> QED
        BY <3>1, <4>1, QueuedSame
    <3>4. UNCHANGED <<pending, numPending>>
      BY <2>1 DEF SendRefused, SendSync, Collect
    <3> QED
      BY <3>3, <3>4, QueueKept
  <2>2. ASSUME NEW r \in Requests, SendDispatched(r)
        PROVE  QueueInv'
    <3>1. PICK w \in Offers : Dispatch(r, w) \/ DispatchFails(r, w)
      BY <2>2 DEF SendDispatched
    <3>2. Queued' = Queued
      BY <2>2, <3>1, DispatchRequest, QueuedSame DEF SendDispatched, Sending
    <3> QED
      BY <2>2, <3>2, QueueKept DEF SendDispatched
  <2>3. ASSUME NEW r \in Requests, Done(r) \/ FreeActive(r)
        PROVE  QueueInv'
    <3>1. request[r].status # "queued"
      BY <2>3 DEF Done, DoneAnswer, DoneFailed, FreeActive
    <3>2. PICK status \in {"answering", "freeing"}, result \in {None, "own", "other", "error"} :
              request' = [request EXCEPT ![r] = Request(status, result)]
      BY <2>3 DEF Done, DoneAnswer, DoneFailed, FreeActive, ResultOf
    <3>3. Queued' = Queued
      <4>1. /\ request'[r].status # "queued"
            /\ \A q \in Requests : q # r => request'[q] = request[q]
        BY <3>2, RequestUpdate
      <4> QED
        BY <3>1, <4>1, QueuedSame
    <3>4. UNCHANGED <<pending, numPending>>
      BY <2>3 DEF Done, DoneAnswer, DoneFailed, FreeActive
    <3> QED
      BY <3>3, <3>4, QueueKept
  <2>4. CASE ScheduleDispatch
    <3>1. TakeHead /\ Head(pending) \in Requests
      BY <2>4, TakeHeadType DEF ScheduleDispatch
    <3>2. PICK w \in Offers : Dispatch(Head(pending), w) \/ DispatchFails(Head(pending), w)
      BY <2>4 DEF ScheduleDispatch
    <3> QED
      BY <3>1, <3>2, DispatchRequest, HeadTaken
  <2>5. CASE ScheduleSync
    <3>1. TakeHead /\ Head(pending) \in Requests
      BY <2>5, TakeHeadType DEF ScheduleSync
    <3>2. request' = [request EXCEPT ![Head(pending)] = Request("finished", "own")]
      BY <2>5 DEF ScheduleSync, RunSync
    <3> QED
      BY <3>1, <3>2, RequestUpdate, HeadTaken
  <2>6. CASE ScheduleStops
    <3>1. \A r \in Requests : Settled(request[r]).status = "queued"
                             <=> request[r].status = "queued"
      BY DEF Settled, Request, TypedInv, StateType, RequestStates
    <3>2. Queued' = Queued
      BY <2>6, <3>1 DEF ScheduleStops, Queued
    <3> QED
      BY <2>6, <3>2, QueueKept DEF ScheduleStops
  <2>7. CASE UNCHANGED <<pending, numPending, request>>
    BY <2>7, QueueKept DEF Queued
  <2>8. CASE \/ ReturnFromCallback \/ Sweep
             \/ \E w \in Workers : Work(w) \/ Die(w)
    BY <2>7, <2>8 DEF ReturnFromCallback, Sweep, Work, Die
  <2>9. CASE UNCHANGED vars
    BY <2>7, <2>9 DEF vars
  <2> QED
    BY <2>1, <2>2, <2>3, <2>4, <2>5, <2>6, <2>8, <2>9, QueuedFreed, RequestQueued
    DEF Next, Send, Schedule
<1> QED
  BY <1>1, <1>2, Typed, PTL DEF Spec

-----------------------------------------------------------------------------
(* Workers and requests.                                                   *)

\* Sockets are distinct.
FdsDistinct == \A v, w \in Children : worker[v].fd = worker[w].fd => v = w

\* An idle worker has nothing to do and nothing to say; the worker of a request has the
\* request or its answer, and nothing else.
WorkIsOwn ==
    /\ \A w \in Children : ~worker[w].busy =>
          worker[w].commands = <<>> /\ worker[w].answers = <<>>
    /\ \A r \in Active :
          LET w == worker[request[r].child] IN
          \/ w.commands = <<r>> /\ w.answers = <<>>
          \/ w.commands = <<>> /\ w.answers = <<r>>

OwnInv == WorkersOwned /\ FdsDistinct /\ ActiveIsWatched /\ WorkIsOwn /\ OwnAnswers

\* A request that no worker has changes: the workers are not concerned.
LEMMA OwnKept ==
    ASSUME TypedInv, OwnInv, UNCHANGED <<worker, watch>>, NEW r \in Requests, r \notin Active,
           NEW status \in {"none", "queued", "answering", "freeing", "finished"},
           NEW result \in {None, "own", "error"},
           request' = [request EXCEPT ![r] = Request(status, result)]
    PROVE  OwnInv'
<1>1. /\ request'[r].status # "active"
      /\ request'[r].result # "other"
      /\ \A q \in Requests : q # r => request'[q] = request[q]
  BY RequestUpdate, AioForkAssumption
<1>2. Active' = Active /\ Children' = Children /\ \A q \in Active : request'[q] = request[q]
  BY <1>1 DEF Active, Children
<1>3. WorkersOwned' /\ FdsDistinct'
  BY <1>2 DEF OwnInv, WorkersOwned, FdsDistinct
<1>4. ActiveIsWatched'
  BY <1>2 DEF OwnInv, ActiveIsWatched
<1>5. WorkIsOwn'
  BY <1>2 DEF OwnInv, WorkIsOwn
<1>6. OwnAnswers'
  BY <1>1 DEF OwnInv, OwnAnswers
<1> QED
  BY <1>3, <1>4, <1>5, <1>6 DEF OwnInv

\* A request is given to a worker that is idle or new.
LEMMA DispatchOwn ==
    ASSUME TypedInv, OwnInv, NEW w \in Offers, NEW r \in Requests, r \notin Active,
           Dispatch(r, w)
    PROVE  OwnInv'
<1> DEFINE c == [w.state EXCEPT !.busy = TRUE, !.kept = TRUE,
                                !.commands = Append(w.state.commands, r)]
           a == [status |-> "active", child |-> w.id, reading |-> w.state.fd, result |-> None]
<1>1. /\ w.id \in Workers
      /\ w.state \in WorkerStates
      /\ w.state.listed
      /\ w.state.fd \in Fds
      /\ w.id \in Children => w.id \in Idle /\ w.state = worker[w.id]
      /\ w.id \notin Children => \E fd \in FreeFds : w.state = NewWorker(fd)
  BY OffersAre DEF Idle
<1>2. w.state.commands = <<>> /\ w.state.answers = <<>>
  <2>1. CASE w.id \in Children
    BY <1>1, <2>1 DEF OwnInv, WorkIsOwn, Idle
  <2>2. CASE w.id \notin Children
    <3>1. PICK fd \in FreeFds : w.state = NewWorker(fd)
      BY <1>1, <2>2
    <3> QED
      BY <3>1 DEF NewWorker
  <2> QED
    BY <2>1, <2>2
<1>3. /\ worker' = [worker EXCEPT ![w.id] = c]
      /\ request' = [request EXCEPT ![r] = a]
      /\ watch' = [watch EXCEPT ![w.state.fd] = r]
  BY DEF Dispatch
<1>4. /\ c.busy /\ c.listed /\ c.fd = w.state.fd
      /\ c.commands = <<r>> /\ c.answers = <<>>
  BY <1>1, <1>2 DEF WorkerStates
<1>5. a.status = "active" /\ a.child = w.id /\ a.reading = w.state.fd /\ a.result = None
  OBVIOUS
<1> HIDE DEF c, a
<1>6. /\ worker'[w.id] = c
      /\ \A v \in Workers : v # w.id => worker'[v] = worker[v]
      /\ request'[r] = a
      /\ \A q \in Requests : q # r => request'[q] = request[q]
      /\ watch'[w.state.fd] = r
      /\ \A fd \in Fds : fd # w.state.fd => watch'[fd] = watch[fd]
  BY <1>1, <1>3 DEF TypedInv, StateType
<1>7. Children' = Children \cup {w.id}
  BY <1>1, <1>4, <1>6 DEF Children
<1>8. Active' = Active \cup {r}
  BY <1>5, <1>6 DEF Active
<1>9. \A v \in Children : v # w.id => worker[v].fd # w.state.fd
  <2>1. CASE w.id \in Children
    BY <1>1, <2>1 DEF OwnInv, FdsDistinct
  <2>2. CASE w.id \notin Children
    <3>1. PICK fd \in FreeFds : w.state = NewWorker(fd)
      BY <1>1, <2>2
    <3>2. w.state.fd = fd
      BY <3>1 DEF NewWorker
    <3> QED
      BY <3>1, <3>2 DEF FreeFds
  <2> QED
    BY <2>1, <2>2
<1>10. \A q \in Active : request[q].child # w.id
  BY <1>1 DEF OwnInv, WorkersOwned, Idle
<1>11. WorkersOwned'
  <2>1. \A q \in Active' :
          /\ request'[q].child \in Children'
          /\ worker'[request'[q].child].busy
          /\ request'[q].reading = worker'[request'[q].child].fd
    BY <1>4, <1>5, <1>6, <1>7, <1>8, <1>10 DEF OwnInv, WorkersOwned, Active, Children
  <2>2. \A p, q \in Active' : request'[p].child = request'[q].child => p = q
    BY <1>5, <1>6, <1>8, <1>10 DEF OwnInv, WorkersOwned, Active
  <2>3. \A v \in Children' : worker'[v].busy => \E q \in Active' : request'[q].child = v
    BY <1>5, <1>6, <1>7, <1>8 DEF OwnInv, WorkersOwned, Active, Children
  <2> QED
    BY <2>1, <2>2, <2>3 DEF WorkersOwned
<1>12. FdsDistinct'
  BY <1>4, <1>6, <1>7, <1>9 DEF OwnInv, FdsDistinct, Children
<1>13. ActiveIsWatched'
  <2>1. \A q \in Active : request'[q].reading \in Fds /\ request'[q].reading # w.state.fd
    BY <1>6, <1>9, <1>10 DEF OwnInv, WorkersOwned, Active, TypedInv, ActiveType
  <2> QED
    BY <1>5, <1>6, <1>8, <2>1 DEF OwnInv, ActiveIsWatched, Active
<1>14. WorkIsOwn'
  <2>1. \A v \in Children' : ~worker'[v].busy =>
            worker'[v].commands = <<>> /\ worker'[v].answers = <<>>
    BY <1>4, <1>6, <1>7 DEF OwnInv, WorkIsOwn, Children
  <2>2. ASSUME NEW q \in Active'
        PROVE  \/ /\ worker'[request'[q].child].commands = <<q>>
                  /\ worker'[request'[q].child].answers = <<>>
               \/ /\ worker'[request'[q].child].commands = <<>>
                  /\ worker'[request'[q].child].answers = <<q>>
    <3>1. CASE q = r
      BY <1>4, <1>5, <1>6, <3>1
    <3>2. CASE q # r
      <4>1. /\ q \in Active /\ request'[q] = request[q]
            /\ worker'[request[q].child] = worker[request[q].child]
        BY <1>6, <1>8, <1>10, <3>2 DEF Active, TypedInv, ActiveType
      <4> QED
        BY <4>1 DEF OwnInv, WorkIsOwn
    <3> QED
      BY <3>1, <3>2
  <2> QED
    BY <2>1, <2>2 DEF WorkIsOwn
<1>15. OwnAnswers'
  BY <1>5, <1>6, AioForkAssumption DEF OwnInv, OwnAnswers
<1> QED
  BY <1>11, <1>12, <1>13, <1>14, <1>15 DEF OwnInv

\* A worker that could not be given the request is retired, idle or new.
LEMMA DispatchFailsOwn ==
    ASSUME TypedInv, OwnInv, NEW w \in Offers, NEW r \in Requests, r \notin Active,
           DispatchFails(r, w)
    PROVE  OwnInv'
<1>1. /\ w.id \in Workers
      /\ w.id \in Children => w.id \in Idle
  BY OffersAre DEF Idle
<1>2. /\ worker'[w.id] = NoWorker
      /\ \A v \in Workers : v # w.id => worker'[v] = worker[v]
  BY <1>1 DEF DispatchFails, TypedInv, StateType
<1>3. /\ request'[r].status # "active"
      /\ request'[r].result # "other"
      /\ \A q \in Requests : q # r => request'[q] = request[q]
  BY RequestUpdate DEF DispatchFails
<1>4. Children' = Children \ {w.id}
  BY <1>2, NoWorkerType DEF Children
<1>5. Active' = Active /\ \A q \in Active : request'[q] = request[q]
  BY <1>3 DEF Active
<1>6. \A q \in Active : request[q].child \in Children /\ request[q].child # w.id
  BY <1>1 DEF OwnInv, WorkersOwned, Idle
<1>7. \A v \in Children : v # w.id => worker'[v] = worker[v]
  BY <1>2 DEF Children
<1>8. watch' = watch
  BY DEF DispatchFails
<1>9. WorkersOwned'
  BY <1>4, <1>5, <1>6, <1>7 DEF OwnInv, WorkersOwned
<1>10. FdsDistinct' /\ ActiveIsWatched'
  BY <1>4, <1>5, <1>7, <1>8 DEF OwnInv, FdsDistinct, ActiveIsWatched
<1>11. WorkIsOwn'
  <2>1. \A v \in Children' : ~worker'[v].busy =>
            worker'[v].commands = <<>> /\ worker'[v].answers = <<>>
    BY <1>4, <1>7 DEF OwnInv, WorkIsOwn
  <2>2. \A q \in Active : worker'[request'[q].child] = worker[request[q].child]
    BY <1>5, <1>6, <1>7
  <2>3. ASSUME NEW q \in Active'
        PROVE  \/ /\ worker'[request'[q].child].commands = <<q>>
                  /\ worker'[request'[q].child].answers = <<>>
               \/ /\ worker'[request'[q].child].commands = <<>>
                  /\ worker'[request'[q].child].answers = <<q>>
    BY <1>5, <2>2 DEF OwnInv, WorkIsOwn
  <2> QED
    BY <2>1, <2>3 DEF WorkIsOwn
<1>12. OwnAnswers'
  BY <1>3 DEF OwnInv, OwnAnswers
<1> QED
  BY <1>9, <1>10, <1>11, <1>12 DEF OwnInv

\* A request loses its worker, which is retired or has nothing left to do.
LEMMA ReleaseOwn ==
    ASSUME TypedInv, OwnInv, NEW r \in Active, NEW fails \in BOOLEAN,
           NEW answers \in Seq(Requests),
           Release(request[r].child, answers, fails),
           fails \/ (answers = <<>> /\ worker[request[r].child].commands = <<>>),
           NEW status \in {"answering", "freeing"},
           NEW result \in {None, "own", "error"},
           request' = [request EXCEPT ![r] = Request(status, result)],
           watch' = [watch EXCEPT ![request[r].reading] = None]
    PROVE  OwnInv'
<1> DEFINE w == request[r].child
<1>1. /\ r \in Requests
      /\ w \in Children /\ w \in Workers
      /\ request[r].reading = worker[w].fd /\ request[r].reading \in Fds
  BY DEF OwnInv, WorkersOwned, Active, Children, TypedInv, ActiveType
<1>2. /\ request'[r].status # "active"
      /\ request'[r].result # "other"
      /\ \A q \in Requests : q # r => request'[q] = request[q]
  BY <1>1, RequestUpdate, AioForkAssumption
<1>3. Active' = Active \ {r} /\ \A q \in Active' : request'[q] = request[q]
  BY <1>1, <1>2 DEF Active
<1>4. /\ \A v \in Workers : v # w => worker'[v] = worker[v]
      /\ fails => worker'[w] = NoWorker
      /\ ~fails => worker'[w] = [worker[w] EXCEPT !.busy = FALSE, !.answers = answers]
  BY <1>1 DEF Release, TypedInv, StateType
<1>5. /\ fails => Children' = Children \ {w}
      /\ ~fails =>
            /\ Children' = Children
            /\ worker'[w].fd = worker[w].fd
            /\ ~worker'[w].busy
            /\ worker'[w].commands = <<>> /\ worker'[w].answers = <<>>
  <2>1. worker[w] \in WorkerStates /\ worker[w].listed
    BY <1>1 DEF Children, TypedInv, StateType
  <2>2. CASE fails
    BY <1>4, <2>2, NoWorkerType DEF Children
  <2>3. CASE ~fails
    <3>1. /\ worker'[w].listed /\ worker'[w].fd = worker[w].fd
          /\ ~worker'[w].busy
          /\ worker'[w].commands = <<>> /\ worker'[w].answers = <<>>
      BY <1>4, <2>1, <2>3 DEF WorkerStates
    <3> QED
      BY <1>4, <2>1, <2>3, <3>1 DEF Children
  <2> QED
    BY <2>2, <2>3
<1>6. \A q \in Active' : /\ request'[q].child \in Children /\ request'[q].child # w
                         /\ q \in Active
  BY <1>1, <1>3 DEF OwnInv, WorkersOwned
<1>7. Children' \subseteq Children
  BY <1>5
<1>8. \A v \in Children : v # w => v \in Children' /\ worker'[v] = worker[v]
  BY <1>4, <1>5 DEF Children
<1> HIDE DEF w
<1>9. WorkersOwned'
  <2>1. \A q \in Active' :
          /\ request'[q].child \in Children'
          /\ worker'[request'[q].child].busy
          /\ request'[q].reading = worker'[request'[q].child].fd
    BY <1>3, <1>6, <1>8 DEF OwnInv, WorkersOwned
  <2>2. \A p, q \in Active' : request'[p].child = request'[q].child => p = q
    BY <1>3, <1>6 DEF OwnInv, WorkersOwned
  <2>3. \A v \in Children' : worker'[v].busy => \E q \in Active' : request'[q].child = v
    <3> SUFFICES ASSUME NEW v \in Children', worker'[v].busy
                 PROVE  \E q \in Active' : request'[q].child = v
      OBVIOUS
    <3>1. v # w
      BY <1>5
    <3>2. v \in Children /\ worker[v].busy
      BY <1>7, <1>8, <3>1
    <3>3. PICK q \in Active : request[q].child = v
      BY <3>2 DEF OwnInv, WorkersOwned
    <3>4. q # r
      BY <3>1, <3>3 DEF w
    <3> QED
      BY <1>3, <3>3, <3>4
  <2> QED
    BY <2>1, <2>2, <2>3 DEF WorkersOwned
<1>10. FdsDistinct'
  <2>1. \A v \in Children' : v \in Children /\ worker'[v].fd = worker[v].fd
    BY <1>5, <1>7, <1>8
  <2> QED
    BY <2>1 DEF OwnInv, FdsDistinct
<1>11. ActiveIsWatched'
  <2> SUFFICES ASSUME NEW q \in Active'
               PROVE  watch'[request'[q].reading] = q
    BY DEF ActiveIsWatched
  <2>1. request'[q].reading = worker[request[q].child].fd /\ request'[q].reading \in Fds
    BY <1>3, <1>6 DEF OwnInv, WorkersOwned, Active, TypedInv, ActiveType
  <2>2. request'[q].reading # request[r].reading
    BY <1>1, <1>3, <1>6, <2>1 DEF OwnInv, FdsDistinct
  <2>3. watch'[request'[q].reading] = watch[request[q].reading]
    BY <1>3, <2>1, <2>2 DEF TypedInv, StateType
  <2> QED
    BY <1>6, <2>3 DEF OwnInv, ActiveIsWatched
<1>12. WorkIsOwn'
  <2>1. \A v \in Children' : ~worker'[v].busy =>
            worker'[v].commands = <<>> /\ worker'[v].answers = <<>>
    BY <1>5, <1>7, <1>8 DEF OwnInv, WorkIsOwn
  <2>2. ASSUME NEW q \in Active'
        PROVE  \/ /\ worker'[request'[q].child].commands = <<q>>
                  /\ worker'[request'[q].child].answers = <<>>
               \/ /\ worker'[request'[q].child].commands = <<>>
                  /\ worker'[request'[q].child].answers = <<q>>
    <3>1. /\ q \in Active /\ request'[q] = request[q]
          /\ worker'[request[q].child] = worker[request[q].child]
      BY <1>3, <1>6, <1>8
    <3> QED
      BY <3>1 DEF OwnInv, WorkIsOwn
  <2> QED
    BY <2>1, <2>2 DEF WorkIsOwn
<1>13. OwnAnswers'
  BY <1>2 DEF OwnInv, OwnAnswers
<1> QED
  BY <1>9, <1>10, <1>11, <1>12, <1>13 DEF OwnInv

\* What a worker does changes neither its place in the list, nor its socket, nor whether
\* smbd waits for it.
LEMMA WorkerKept ==
    ASSUME TypedInv, NEW w \in Workers, Work(w) \/ Die(w)
    PROVE  /\ w \in Children
           /\ \A v \in Workers : v # w => worker'[v] = worker[v]
           /\ \A v \in Workers : /\ worker'[v].listed = worker[v].listed
                               /\ worker'[v].fd = worker[v].fd
                               /\ worker'[v].busy = worker[v].busy
<1>1. worker[w] \in WorkerStates /\ worker \in [Workers -> WorkerStates]
  BY DEF TypedInv, StateType
<1>2. \A v \in Workers : v # w => worker'[v] = worker[v]
  BY <1>1 DEF Work, Die
<1>3. w \in Children
  BY DEF Work, Die, Children
<1>4. CASE Work(w)
  <2>1. worker'[w] = [worker[w] EXCEPT
            !.commands = Tail(worker[w].commands),
            !.answers = Append(worker[w].answers, Head(worker[w].commands))]
    BY <1>1, <1>4 DEF Work, WorkerStates
  <2>2. /\ worker'[w].listed = worker[w].listed
        /\ worker'[w].fd = worker[w].fd
        /\ worker'[w].busy = worker[w].busy
    BY <1>1, <2>1 DEF WorkerStates
  <2> QED
    BY <1>2, <1>3, <2>2
<1>5. CASE Die(w)
  <2>1. worker'[w] = [worker[w] EXCEPT !.alive = FALSE]
    BY <1>1, <1>5 DEF Die
  <2>2. /\ worker'[w].listed = worker[w].listed
        /\ worker'[w].fd = worker[w].fd
        /\ worker'[w].busy = worker[w].busy
    BY <1>1, <2>1 DEF WorkerStates
  <2> QED
    BY <1>2, <1>3, <2>2
<1> QED
  BY <1>4, <1>5

\* A worker works or dies; its request, its socket and its being busy stay.
LEMMA WorkerSteps ==
    ASSUME TypedInv, OwnInv, NEW w \in Workers, Work(w) \/ Die(w)
    PROVE  OwnInv'
<1>1. worker[w] \in WorkerStates /\ w \in Children
  BY DEF TypedInv, StateType, Work, Die, Children
<1>2. /\ \A v \in Workers : v # w => worker'[v] = worker[v]
      /\ worker'[w].listed
      /\ worker'[w].fd = worker[w].fd
      /\ worker'[w].busy = worker[w].busy
  BY <1>1, WorkerKept DEF Children
<1>3. UNCHANGED <<request, watch>>
  BY DEF Work, Die
<1>4. Children' = Children /\ Active' = Active
  BY <1>1, <1>2, <1>3 DEF Children, Active
<1>5. \A v \in Children : worker'[v].fd = worker[v].fd /\ worker'[v].busy = worker[v].busy
  BY <1>2 DEF Children
<1>6. WorkersOwned' /\ FdsDistinct' /\ ActiveIsWatched' /\ OwnAnswers'
  BY <1>3, <1>4, <1>5 DEF OwnInv, WorkersOwned, FdsDistinct, ActiveIsWatched, OwnAnswers
<1>7. WorkIsOwn'
  <2>1. CASE Work(w)
    <3>1. worker[w].commands # <<>>
      BY <2>1 DEF Work
    <3>2. PICK r \in Active : request[r].child = w
      BY <1>1, <3>1 DEF OwnInv, WorkIsOwn, WorkersOwned
    <3>3. worker[w].commands = <<r>> /\ worker[w].answers = <<>>
      BY <3>1, <3>2 DEF OwnInv, WorkIsOwn
    <3>4. worker'[w].commands = <<>> /\ worker'[w].answers = <<r>>
      <4>1. /\ worker'[w].commands = Tail(worker[w].commands)
            /\ worker'[w].answers = Append(worker[w].answers, Head(worker[w].commands))
        BY <1>1, <2>1 DEF Work, TypedInv, StateType, WorkerStates
      <4> QED
        BY <3>3, <4>1
    <3>5. worker[w].busy
      BY <1>1, <3>1 DEF OwnInv, WorkIsOwn
    <3>6. \A v \in Children' : ~worker'[v].busy =>
              worker'[v].commands = <<>> /\ worker'[v].answers = <<>>
      BY <1>2, <1>4, <3>5 DEF OwnInv, WorkIsOwn, Children
    <3>7. ASSUME NEW q \in Active'
          PROVE  \/ /\ worker'[request'[q].child].commands = <<q>>
                    /\ worker'[request'[q].child].answers = <<>>
                 \/ /\ worker'[request'[q].child].commands = <<>>
                    /\ worker'[request'[q].child].answers = <<q>>
      <4>1. CASE q = r
        BY <1>3, <3>2, <3>4, <4>1
      <4>2. CASE q # r
        <5>1. /\ q \in Active /\ request[q].child # w /\ request[q].child \in Workers
          BY <1>4, <3>2, <4>2 DEF OwnInv, WorkersOwned, Children
        <5>2. worker'[request'[q].child] = worker[request[q].child]
          BY <1>2, <1>3, <5>1
        <5> QED
          BY <5>1, <5>2 DEF OwnInv, WorkIsOwn
      <4> QED
        BY <4>1, <4>2
    <3> QED
      BY <3>6, <3>7 DEF WorkIsOwn
  <2>2. CASE Die(w)
    <3>1. \A v \in Workers : /\ worker'[v].commands = worker[v].commands
                            /\ worker'[v].answers = worker[v].answers
      BY <1>1, <1>2, <2>2 DEF Die, TypedInv, StateType, WorkerStates
    <3> QED
      BY <1>3, <1>4, <1>5, <3>1 DEF OwnInv, WorkIsOwn, WorkersOwned, Children
  <2> QED
    BY <2>1, <2>2
<1> QED
  BY <1>6, <1>7 DEF OwnInv

LEMMA Own == Spec => []OwnInv
<1>1. Init => OwnInv
  <2> SUFFICES ASSUME Init PROVE OwnInv
    OBVIOUS
  <2>1. Children = {} /\ Active = {}
    BY DEF Init, Children, Active, NoWorker, Request
  <2>2. \A r \in Requests : request[r].result # "other"
    BY AioForkAssumption DEF Init, Request
  <2> QED
    BY <2>1, <2>2 DEF OwnInv, WorkersOwned, FdsDistinct, ActiveIsWatched, WorkIsOwn, OwnAnswers
<1>2. TypedInv /\ QueueInv /\ OwnInv /\ [Next]_vars => OwnInv'
  <2> SUFFICES ASSUME TypedInv, QueueInv, OwnInv, [Next]_vars
               PROVE  OwnInv'
    OBVIOUS
  <2>1. ASSUME NEW r \in Requests,
               SendRefused(r) \/ SendSync(r) \/ SendQueued(r) \/ FreeQueued(r) \/ Collect(r)
        PROVE  OwnInv'
    <3>1. r \notin Active /\ UNCHANGED <<worker, watch>>
      BY <2>1 DEF SendRefused, SendSync, SendQueued, FreeQueued, Collect, Sending, Active, RunSync
    <3>2. PICK status \in {"none", "queued", "finished"}, result \in {None, "own", "error"} :
              request' = [request EXCEPT ![r] = Request(status, result)]
      BY <2>1 DEF SendRefused, SendSync, RunSync, SendQueued, FreeQueued, Collect
    <3> QED
      BY <3>1, <3>2, OwnKept
  <2>2. ASSUME NEW r \in Requests, SendDispatched(r)
        PROVE  OwnInv'
    <3>1. PICK w \in Offers : Dispatch(r, w) \/ DispatchFails(r, w)
      BY <2>2 DEF SendDispatched
    <3>2. r \notin Active
      BY <2>2 DEF SendDispatched, Sending, Active
    <3> QED
      BY <3>1, <3>2, DispatchOwn, DispatchFailsOwn
  <2>3. ASSUME NEW r \in Requests, DoneAnswer(r)
        PROVE  OwnInv'
    <3> DEFINE w == request[r].child
    <3>1. r \in Active /\ worker[w].answers # <<>>
      BY <2>3 DEF DoneAnswer, Active
    <3>2. worker[w].commands = <<>> /\ worker[w].answers = <<r>>
      BY <3>1 DEF OwnInv, WorkIsOwn
    <3>3. Tail(worker[w].answers) = <<>> /\ ResultOf(r, w) = "own"
      BY <3>2 DEF ResultOf
    <3>4. Release(w, <<>>, FALSE)
      BY <2>3, <3>3 DEF DoneAnswer
    <3>5. watch' = [watch EXCEPT ![request[r].reading] = None]
      BY <2>3 DEF DoneAnswer
    <3>6. PICK result \in {None, "own", "error"} :
              request' = [request EXCEPT ![r] = Request("answering", result)]
      BY <2>3, <3>3 DEF DoneAnswer
    <3>7. <<>> \in Seq(Requests)
      OBVIOUS
    <3> QED
      BY <3>1, <3>2, <3>4, <3>5, <3>6, <3>7, ReleaseOwn
  <2>4. ASSUME NEW r \in Requests, DoneFailed(r) \/ FreeActive(r)
        PROVE  OwnInv'
    <3>1. /\ r \in Active
          /\ Release(request[r].child, <<>>, TRUE)
          /\ watch' = [watch EXCEPT ![request[r].reading] = None]
      BY <2>4 DEF DoneFailed, FreeActive, Active
    <3>2. PICK status \in {"answering", "freeing"}, result \in {None, "own", "error"} :
              request' = [request EXCEPT ![r] = Request(status, result)]
      BY <2>4 DEF DoneFailed, FreeActive
    <3>3. <<>> \in Seq(Requests)
      OBVIOUS
    <3> QED
      BY <3>1, <3>2, <3>3, ReleaseOwn
  <2>5. ASSUME ScheduleDispatch \/ ScheduleSync
        PROVE  Head(pending) \in Requests /\ Head(pending) \notin Active
    <3>1. TakeHead
      BY <2>5 DEF ScheduleDispatch, ScheduleSync
    <3>2. Head(pending) \in Requests /\ Head(pending) = pending[1] /\ 1 \in DOMAIN pending
      BY <3>1, TakeHeadType DEF TakeHead, TypedInv, StateType
    <3>3. Head(pending) \in Queued
      BY <3>2 DEF QueueInv, QueueIsQueued
    <3> QED
      BY <3>2, <3>3 DEF Queued, Active
  <2>6. CASE ScheduleDispatch
    BY <2>5, <2>6, DispatchOwn, DispatchFailsOwn DEF ScheduleDispatch
  <2>7. CASE ScheduleSync
    <3>1. /\ request' = [request EXCEPT ![Head(pending)] = Request("finished", "own")]
          /\ UNCHANGED <<worker, watch>>
      BY <2>7 DEF ScheduleSync, RunSync
    <3> QED
      BY <2>5, <2>7, <3>1, OwnKept
  <2>8. CASE ScheduleStops
    <3>1. Leftover = {}
      BY AioForkAssumption DEF Leftover, TypedInv, ActiveType
    <3>2. watch' = watch
      BY <2>8, <3>1 DEF ScheduleStops, TypedInv, StateType
    <3>3. ASSUME NEW r \in Requests
          PROVE  /\ r \in Active => request'[r] = request[r]
                 /\ r \in Active' => r \in Active
                 /\ request'[r].result # "other"
      <4>1. request'[r] = Settled(request[r]) /\ request[r] \in RequestStates
        BY <2>8 DEF ScheduleStops, TypedInv, StateType
      <4>2. CASE request[r].status = "answering"
        BY <4>1, <4>2 DEF Settled, Active, OwnInv, OwnAnswers, RequestStates
      <4>3. CASE request[r].status = "freeing"
        BY <4>1, <4>3, AioForkAssumption DEF Settled, Active, Request
      <4>4. CASE request[r].status \notin {"answering", "freeing"}
        BY <4>1, <4>4 DEF Settled, Active, OwnInv, OwnAnswers
      <4> QED
        BY <4>2, <4>3, <4>4
    <3>4. Active' = Active /\ UNCHANGED worker
      BY <2>8, <3>3 DEF ScheduleStops, Active
    <3>5. Children' = Children /\ \A r \in Active : request'[r] = request[r]
      BY <3>3, <3>4 DEF Children, Active
    <3>6. WorkersOwned'
      BY <3>4, <3>5 DEF OwnInv, WorkersOwned
    <3>7. FdsDistinct' /\ ActiveIsWatched'
      BY <3>2, <3>4, <3>5 DEF OwnInv, FdsDistinct, ActiveIsWatched
    <3>8. WorkIsOwn'
      BY <3>4, <3>5 DEF OwnInv, WorkIsOwn
    <3>9. OwnAnswers'
      BY <3>3 DEF OwnAnswers
    <3> QED
      BY <3>6, <3>7, <3>8, <3>9 DEF OwnInv
  <2>9. CASE Sweep
    <3>1. /\ Children' \subseteq Children
          /\ \A w \in Children \ Idle : w \in Children' /\ worker'[w] = worker[w]
          /\ \A w \in Children' : /\ worker'[w].fd = worker[w].fd
                                  /\ worker'[w].busy = worker[w].busy
                                  /\ worker'[w].commands = worker[w].commands
                                  /\ worker'[w].answers = worker[w].answers
      <4>1. ASSUME NEW w \in Workers
            PROVE  /\ w \in Stale => worker'[w] = NoWorker
                   /\ w \in Idle \ Stale => worker'[w] = [worker[w] EXCEPT !.kept = FALSE]
                   /\ w \notin Idle => worker'[w] = worker[w]
                   /\ worker[w] \in WorkerStates
        BY <2>9 DEF Sweep, Stale, TypedInv, StateType
      <4>2. ASSUME NEW w \in Workers, w \notin Stale
            PROVE  /\ worker'[w].listed = worker[w].listed
                   /\ worker'[w].fd = worker[w].fd
                   /\ worker'[w].busy = worker[w].busy
                   /\ worker'[w].commands = worker[w].commands
                   /\ worker'[w].answers = worker[w].answers
        <5>1. CASE w \in Idle
          BY <4>1, <4>2, <5>1 DEF WorkerStates
        <5>2. CASE w \notin Idle
          BY <4>1, <5>2
        <5> QED
          BY <5>1, <5>2
      <4>3. Children' = Children \ Stale
        <5>1. \A w \in Stale : w \in Workers /\ ~worker'[w].listed
          BY <4>1, NoWorkerType DEF Stale, Idle, Children
        <5> QED
          BY <4>2, <5>1 DEF Children
      <4>4. Stale \subseteq Idle /\ Children \subseteq Workers
        BY DEF Stale, Children
      <4> QED
        BY <4>1, <4>2, <4>3, <4>4
    <3>2. Active' = Active /\ UNCHANGED <<request, watch>>
      BY <2>9 DEF Sweep, Active
    <3>3. \A r \in Active : request[r].child \in Children \ Idle
      BY DEF OwnInv, WorkersOwned, Idle
    <3>4. WorkersOwned'
      BY <3>1, <3>2, <3>3 DEF OwnInv, WorkersOwned
    <3>5. FdsDistinct' /\ ActiveIsWatched' /\ OwnAnswers'
      BY <3>1, <3>2 DEF OwnInv, FdsDistinct, ActiveIsWatched, OwnAnswers
    <3>6. WorkIsOwn'
      BY <3>1, <3>2, <3>3 DEF OwnInv, WorkIsOwn
    <3> QED
      BY <3>4, <3>5, <3>6 DEF OwnInv
  <2>10. CASE UNCHANGED <<worker, request, watch>>
    BY <2>10
    DEF OwnInv, WorkersOwned, FdsDistinct, ActiveIsWatched, WorkIsOwn, OwnAnswers, Children, Active
  <2>11. CASE ReturnFromCallback \/ UNCHANGED vars
    BY <2>10, <2>11 DEF ReturnFromCallback, vars
  <2> QED
    BY <2>1, <2>2, <2>3, <2>4, <2>6, <2>7, <2>8, <2>9, <2>11, WorkerSteps
    DEF Next, Send, Done, Schedule
<1> QED
  BY <1>1, <1>2, Typed, QueueInvariant, PTL DEF Spec

-----------------------------------------------------------------------------
(* The counters.                                                           *)

ChildrenInv ==
    /\ numChildren = Cardinality(Children)
    /\ MaxChildren # 0 => numChildren <= MaxChildren

LEMMA ChildrenFinite == IsFiniteSet(Children) /\ Cardinality(Children) \in Nat
<1>1. IsFiniteSet(Children)
  BY AioForkAssumption, FS_Subset DEF Children
<1> QED
  BY <1>1, FS_CardinalityType

LEMMA DispatchChildren ==
    ASSUME TypedInv, ChildrenInv, NEW w \in Offers, NEW r \in Requests,
           Dispatch(r, w) \/ DispatchFails(r, w)
    PROVE  ChildrenInv'
<1>1. /\ w.id \in Workers
      /\ w.state \in WorkerStates
      /\ w.state.listed
      /\ \/ w.id \in Children /\ w.children = numChildren
         \/ w.id \notin Children /\ w.children = numChildren + 1 /\ MayCreate
  BY OffersAre DEF Idle
<1>2. \A v \in Workers : v # w.id => worker'[v] = worker[v]
  BY DEF Dispatch, DispatchFails, TypedInv, StateType
<1>3. CASE Dispatch(r, w)
  <2>1. worker'[w.id].listed
    BY <1>1, <1>3 DEF Dispatch, TypedInv, StateType, WorkerStates
  <2>2. Children' = Children \cup {w.id}
    BY <1>1, <1>2, <2>1 DEF Children
  <2>3. numChildren' = Cardinality(Children')
    BY <1>1, <1>3, <2>2, ChildrenFinite, FS_AddElement DEF Dispatch, ChildrenInv
  <2> QED
    BY <1>1, <1>3, <2>3, AioForkAssumption DEF Dispatch, ChildrenInv, MayCreate, TypedInv
<1>4. CASE DispatchFails(r, w)
  <2>1. ~worker'[w.id].listed
    BY <1>1, <1>4, NoWorkerType DEF DispatchFails, TypedInv, StateType
  <2>2. Children' = Children \ {w.id}
    BY <1>2, <2>1 DEF Children
  <2>3. numChildren' = Cardinality(Children')
    <3>1. Cardinality(Children \ {w.id}) =
              IF w.id \in Children THEN Cardinality(Children) - 1 ELSE Cardinality(Children)
      BY ChildrenFinite, FS_RemoveElement
    <3>2. numChildren' = w.children - 1 /\ Cardinality(Children) \in Nat
      BY <1>4, ChildrenFinite DEF DispatchFails
    <3> QED
      BY <1>1, <2>2, <3>1, <3>2 DEF ChildrenInv
  <2> QED
    BY <1>1, <1>4, <2>3, AioForkAssumption DEF DispatchFails, ChildrenInv, TypedInv
<1> QED
  BY <1>3, <1>4

LEMMA ReleaseChildren ==
    ASSUME TypedInv, ChildrenInv, NEW w \in Children, NEW answers, NEW fails \in BOOLEAN,
           Release(w, answers, fails)
    PROVE  ChildrenInv'
<1>1. w \in Workers /\ worker[w] \in WorkerStates /\ worker[w].listed
  BY DEF Children, TypedInv, StateType
<1>2. \A v \in Workers : v # w => worker'[v] = worker[v]
  BY DEF Release, TypedInv, StateType
<1>3. CASE fails
  <2>1. ~worker'[w].listed
    BY <1>1, <1>3, NoWorkerType DEF Release, TypedInv, StateType
  <2>2. Children' = Children \ {w}
    BY <1>2, <2>1 DEF Children
  <2> QED
    <3>1. Cardinality(Children \ {w}) = Cardinality(Children) - 1
      BY ChildrenFinite, FS_RemoveElement
    <3>2. numChildren' = numChildren - 1 /\ Cardinality(Children) \in Nat
      BY <1>3, ChildrenFinite DEF Release
    <3> QED
      BY <2>2, <3>1, <3>2, AioForkAssumption DEF ChildrenInv
<1>4. CASE ~fails
  <2>1. worker'[w].listed
    BY <1>1, <1>4 DEF Release, TypedInv, StateType, WorkerStates
  <2>2. Children' = Children
    BY <1>1, <1>2, <2>1 DEF Children
  <2> QED
    BY <1>4, <2>2 DEF Release, ChildrenInv
<1> QED
  BY <1>3, <1>4

LEMMA ChildrenInvariant == Spec => []ChildrenInv
<1>1. Init => ChildrenInv
  <2> SUFFICES ASSUME Init PROVE ChildrenInv
    OBVIOUS
  <2>1. Children = {}
    BY DEF Init, Children, NoWorker
  <2> QED
    BY <2>1, FS_EmptySet, AioForkAssumption DEF Init, ChildrenInv
<1>2. TypedInv /\ QueueInv /\ OwnInv /\ ChildrenInv /\ [Next]_vars => ChildrenInv'
  <2> SUFFICES ASSUME TypedInv, QueueInv, OwnInv, ChildrenInv, [Next]_vars
               PROVE  ChildrenInv'
    OBVIOUS
  <2>1. ASSUME NEW r \in Requests, SendDispatched(r)
        PROVE  ChildrenInv'
    BY <2>1, DispatchChildren DEF SendDispatched
  <2>2. ASSUME NEW r \in Requests, Done(r) \/ FreeActive(r)
        PROVE  ChildrenInv'
    <3>1. request[r].child \in Children
      BY <2>2 DEF Done, DoneAnswer, DoneFailed, FreeActive, Active, OwnInv, WorkersOwned
    <3> QED
      BY <2>2, <3>1, ReleaseChildren DEF Done, DoneAnswer, DoneFailed, FreeActive
  <2>3. CASE ScheduleDispatch
    <3>1. Head(pending) \in Requests
      BY <2>3, TakeHeadType DEF ScheduleDispatch
    <3> QED
      BY <2>3, <3>1, DispatchChildren DEF ScheduleDispatch
  <2>4. CASE Sweep
    <3>1. Children' = Children \ Stale
      <4>1. ASSUME NEW w \in Workers
            PROVE  worker'[w].listed <=> worker[w].listed /\ w \notin Stale
        <5>1. worker[w] \in WorkerStates
          BY DEF TypedInv, StateType
        <5>2. worker'[w] = IF w \in Stale THEN NoWorker
                           ELSE IF w \in Idle THEN [worker[w] EXCEPT !.kept = FALSE]
                           ELSE worker[w]
          BY <2>4 DEF Sweep
        <5> QED
          BY <5>1, <5>2, NoWorkerType DEF WorkerStates
      <4> QED
        BY <4>1 DEF Children
    <3>2. Stale \subseteq Children
      BY DEF Stale, Idle
    <3>3. IsFiniteSet(Stale) /\ Cardinality(Stale) \in Nat
      BY <3>2, ChildrenFinite, FS_Subset, FS_CardinalityType
    <3>4. Children \cap Stale = Stale
      BY <3>2
    <3>5. Cardinality(Children \ Stale) = Cardinality(Children) - Cardinality(Stale)
      BY <3>4, ChildrenFinite, FS_Difference
    <3> QED
      BY <2>4, <3>1, <3>3, <3>5, ChildrenFinite, AioForkAssumption DEF Sweep, ChildrenInv
  <2>5. CASE UNCHANGED <<worker, numChildren>>
    BY <2>5 DEF ChildrenInv, Children
  <2>6. ASSUME NEW w \in Workers, Work(w) \/ Die(w)
        PROVE  ChildrenInv'
    <3>1. \A v \in Workers : worker'[v].listed = worker[v].listed
      BY <2>6, WorkerKept
    <3> QED
      BY <2>6, <3>1 DEF Work, Die, ChildrenInv, Children
  <2>7. ASSUME NEW r \in Requests,
               SendRefused(r) \/ SendSync(r) \/ SendQueued(r) \/ FreeQueued(r) \/ Collect(r)
        PROVE  ChildrenInv'
    BY <2>5, <2>7 DEF SendRefused, SendSync, SendQueued, FreeQueued, Collect, RunSync
  <2>8. CASE ScheduleSync \/ ScheduleStops \/ ReturnFromCallback \/ UNCHANGED vars
    BY <2>5, <2>8 DEF ScheduleSync, RunSync, ScheduleStops, ReturnFromCallback, vars
  <2> QED
    BY <2>1, <2>2, <2>3, <2>4, <2>6, <2>7, <2>8 DEF Next, Send, Schedule
<1> QED
  BY <1>1, <1>2, Typed, QueueInvariant, Own, PTL DEF Spec

-----------------------------------------------------------------------------
(* The theorems.                                                           *)

\* TypeOK: in particular num_children and num_pending are never counted below zero.
THEOREM TypeCorrect == Spec => []TypeOK
<1>1. TypedInv /\ QueueInv /\ ChildrenInv => TypeOK
  BY ChildrenFinite DEF TypedInv, StateType, QueueInv, ChildrenInv, TypeOK
<1> QED
  BY <1>1, Typed, QueueInvariant, ChildrenInvariant, PTL

\* CountersExact: the counters are what they count and the limits hold, whatever fails.
THEOREM CountersAreExact == Spec => []CountersExact
<1>1. QueueInv /\ ChildrenInv => CountersExact
  BY DEF QueueInv, ChildrenInv, CountersExact
<1> QED
  BY <1>1, QueueInvariant, ChildrenInvariant, PTL

\* QueueIsQueued: the queue holds the queued requests, each once.
THEOREM QueueExact == Spec => []QueueIsQueued
<1>1. QueueInv => QueueIsQueued
  BY DEF QueueInv
<1> QED
  BY <1>1, QueueInvariant, PTL

\* WorkersOwned: busy workers and dispatched requests belong to each other one to one.
THEOREM OneToOne == Spec => []WorkersOwned
<1>1. OwnInv => WorkersOwned
  BY DEF OwnInv
<1> QED
  BY <1>1, Own, PTL

\* ActiveIsWatched: no dispatched request loses its read event, however descriptors are
\* used again.
THEOREM Watched == Spec => []ActiveIsWatched
<1>1. OwnInv => ActiveIsWatched
  BY DEF OwnInv
<1> QED
  BY <1>1, Own, PTL

\* OwnAnswers: no request is given the answer to another one.
THEOREM AnswersAreOwn == Spec => []OwnAnswers
<1>1. OwnInv => OwnAnswers
  BY DEF OwnInv
<1> QED
  BY <1>1, Own, PTL

\* NoneWaitsForIdle: in the event loop a request is queued only while every worker the
\* limit allows is busy.
THEOREM NoneWaits == Spec => []NoneWaitsForIdle
<1>1. Init => NoneWaitsForIdle
  BY DEF Init, NoneWaitsForIdle
<1>2. TypedInv /\ NoneWaitsForIdle /\ [Next]_vars => NoneWaitsForIdle'
  <2> SUFFICES ASSUME TypedInv, NoneWaitsForIdle, [Next]_vars,
                      pc' = "loop", pending' # <<>>
               PROVE  MaxChildren # 0 /\ numChildren' >= MaxChildren /\ Idle' = {}
    BY DEF NoneWaitsForIdle
  <2>0. numChildren \in Int /\ MaxChildren \in Nat
    BY AioForkAssumption DEF TypedInv
  <2>1. Saturated => MaxChildren # 0 /\ numChildren >= MaxChildren /\ Idle = {}
    BY <2>0 DEF Saturated, MayCreate
  <2>2. pc = "loop" /\ pending # <<>> => Offers = {}
    BY <2>0 DEF NoneWaitsForIdle, Offers, MayCreate
  <2>3. CASE UNCHANGED <<worker, numChildren>> /\ pc = "loop" /\ pending # <<>>
    BY <2>3 DEF NoneWaitsForIdle, Idle, Children
  <2>4. ASSUME NEW r \in Requests, SendRefused(r) \/ SendSync(r) \/ Collect(r)
        PROVE  MaxChildren # 0 /\ numChildren' >= MaxChildren /\ Idle' = {}
    BY <2>3, <2>4 DEF SendRefused, SendSync, RunSync, Collect
  <2>5. ASSUME NEW r \in Requests, SendDispatched(r)
        PROVE  FALSE
    <3>1. PICK w \in Offers : UNCHANGED pc \/ pc' = "schedule"
      BY <2>5 DEF SendDispatched
    <3>2. UNCHANGED pending
      BY <2>5 DEF SendDispatched
    <3> QED
      BY <2>2, <3>1, <3>2
  <2>6. ASSUME NEW r \in Requests, SendQueued(r)
        PROVE  MaxChildren # 0 /\ numChildren' >= MaxChildren /\ Idle' = {}
    BY <2>1, <2>6 DEF SendQueued, Idle, Children
  <2>7. ASSUME NEW r \in Requests, FreeQueued(r)
        PROVE  MaxChildren # 0 /\ numChildren' >= MaxChildren /\ Idle' = {}
    <3>1. pc = "loop" /\ pending # <<>> /\ UNCHANGED <<worker, numChildren>>
      BY <2>7 DEF FreeQueued
    <3> QED
      BY <2>3, <3>1
  <2>8. ASSUME NEW r \in Requests, Done(r) \/ FreeActive(r)
        PROVE  FALSE
    BY <2>8 DEF Done, DoneAnswer, DoneFailed, FreeActive, Release
  <2>9. CASE ScheduleDispatch \/ ScheduleSync \/ ReturnFromCallback
    BY <2>9 DEF ScheduleDispatch, ScheduleSync, ReturnFromCallback
  <2>10. CASE ScheduleStops
    BY <2>1, <2>10 DEF ScheduleStops, Idle, Children
  <2>11. CASE Sweep
    <3>1. pc = "loop" /\ pending # <<>>
      BY <2>11 DEF Sweep
    <3>2. MaxChildren # 0 /\ numChildren >= MaxChildren /\ Idle = {}
      BY <3>1 DEF NoneWaitsForIdle
    <3>3. Stale = {} /\ worker' = worker
      BY <2>11, <3>2 DEF Sweep, Stale, TypedInv, StateType
    <3>4. numChildren' = numChildren
      BY <2>0, <2>11, <3>3, FS_EmptySet DEF Sweep
    <3> QED
      BY <2>3, <3>1, <3>3, <3>4
  <2>12. ASSUME NEW w \in Workers, Work(w) \/ Die(w)
         PROVE  MaxChildren # 0 /\ numChildren' >= MaxChildren /\ Idle' = {}
    <3>1. pc = "loop" /\ pending # <<>> /\ UNCHANGED numChildren
      BY <2>12 DEF Work, Die
    <3>2. \A v \in Workers : /\ worker'[v].listed = worker[v].listed
                            /\ worker'[v].busy = worker[v].busy
      BY <2>12, WorkerKept
    <3> QED
      BY <3>1, <3>2 DEF NoneWaitsForIdle, Idle, Children
  <2>13. CASE UNCHANGED vars
    BY <2>3, <2>13 DEF vars
  <2> QED
    BY <2>4, <2>5, <2>6, <2>7, <2>8, <2>9, <2>10, <2>11, <2>12, <2>13 DEF Next, Send, Schedule
<1> QED
  BY <1>1, <1>2, Typed, PTL DEF Spec

-----------------------------------------------------------------------------
(* The refinement.                                                         *)

\* A request has a result exactly from its answer to its end, and without a limit on the
\* workers none is ever queued.
ResultInv ==
    /\ \A r \in Requests :
          request[r].result # None <=> request[r].status \in {"answering", "finished"}
    /\ MaxChildren = 0 => pending = <<>>

\* A request is given a new state that has a result if and only if it is over.
LEMMA ResultSet ==
    ASSUME TypedInv, ResultInv, NEW r \in Requests,
           request'[r].result # None <=> request'[r].status \in {"answering", "finished"},
           \A q \in Requests : q # r => request'[q] = request[q],
           MaxChildren = 0 => pending' = <<>>
    PROVE  ResultInv'
BY DEF ResultInv

LEMMA DispatchResult ==
    ASSUME TypedInv, NEW w \in Offers, NEW r \in Requests,
           Dispatch(r, w) \/ DispatchFails(r, w)
    PROVE  /\ request'[r].result # None <=> request'[r].status \in {"answering", "finished"}
           /\ \A q \in Requests : q # r => request'[q] = request[q]
<1>1. CASE Dispatch(r, w)
  BY <1>1 DEF Dispatch, TypedInv, StateType
<1>2. CASE DispatchFails(r, w)
  BY <1>2, RequestUpdate, AioForkAssumption DEF DispatchFails
<1> QED
  BY <1>1, <1>2

LEMMA ResultInvariant == Spec => []ResultInv
<1>1. Init => ResultInv
  BY DEF Init, ResultInv, Request
<1>2. TypedInv /\ QueueInv /\ ResultInv /\ [Next]_vars => ResultInv'
  <2> SUFFICES ASSUME TypedInv, QueueInv, ResultInv, [Next]_vars
               PROVE  ResultInv'
    OBVIOUS
  <2>0. MaxChildren = 0 => pending = <<>>
    BY DEF ResultInv
  <2>1. ASSUME NEW r \in Requests,
               NEW status \in {"none", "queued", "answering", "freeing", "finished"},
               NEW result \in {None, "own", "other", "error"},
               request' = [request EXCEPT ![r] = Request(status, result)],
               result # None <=> status \in {"answering", "finished"},
               MaxChildren = 0 => pending' = <<>>
        PROVE  ResultInv'
    BY <2>1, RequestUpdate, ResultSet
  <2>2. ASSUME NEW r \in Requests, SendRefused(r) \/ SendSync(r) \/ Collect(r)
        PROVE  ResultInv'
    <3>1. PICK status \in {"none", "finished"}, result \in {None, "own", "error"} :
              /\ request' = [request EXCEPT ![r] = Request(status, result)]
              /\ result # None <=> status = "finished"
      BY <2>2, AioForkAssumption DEF SendRefused, SendSync, RunSync, Collect
    <3> QED
      BY <2>0, <2>1, <2>2, <3>1 DEF SendRefused, SendSync, Collect
  <2>3. ASSUME NEW r \in Requests, SendQueued(r)
        PROVE  ResultInv'
    <3>1. MaxChildren # 0
      BY <2>3 DEF SendQueued, Saturated, MayCreate
    <3> QED
      BY <2>1, <2>3, <3>1 DEF SendQueued
  <2>4. ASSUME NEW r \in Requests, SendDispatched(r)
        PROVE  ResultInv'
    BY <2>0, <2>4, DispatchResult, ResultSet DEF SendDispatched
  <2>5. ASSUME NEW r \in Requests, Done(r) \/ FreeActive(r)
        PROVE  ResultInv'
    <3>1. PICK status \in {"answering", "freeing"}, result \in {None, "own", "other", "error"} :
              /\ request' = [request EXCEPT ![r] = Request(status, result)]
              /\ result # None <=> status = "answering"
      BY <2>5, AioForkAssumption DEF Done, DoneAnswer, DoneFailed, FreeActive, ResultOf
    <3> QED
      BY <2>0, <2>1, <2>5, <3>1 DEF Done, DoneAnswer, DoneFailed, FreeActive
  <2>6. ASSUME NEW r \in Requests, FreeQueued(r)
        PROVE  ResultInv'
    <3>1. pending # <<>>
      BY <2>6 DEF FreeQueued, TypedInv, StateType
    <3> QED
      BY <2>0, <2>1, <2>6, <3>1 DEF FreeQueued
  <2>7. CASE ScheduleDispatch
    <3>1. Head(pending) \in Requests /\ MaxChildren # 0
      BY <2>0, <2>7, TakeHeadType DEF ScheduleDispatch, TakeHead
    <3> QED
      BY <2>7, <3>1, DispatchResult, ResultSet DEF ScheduleDispatch
  <2>8. CASE ScheduleSync
    <3>1. Head(pending) \in Requests /\ MaxChildren # 0
      BY <2>0, <2>8, TakeHeadType DEF ScheduleSync, TakeHead
    <3>2. request' = [request EXCEPT ![Head(pending)] = Request("finished", "own")]
      BY <2>8 DEF ScheduleSync, RunSync
    <3> QED
      BY <2>1, <3>1, <3>2, AioForkAssumption
  <2>9. CASE ScheduleStops
    <3>1. ASSUME NEW r \in Requests
          PROVE  request'[r].result # None
                     <=> request'[r].status \in {"answering", "finished"}
      <4>1. request'[r] = Settled(request[r]) /\ request[r] \in RequestStates
        BY <2>9 DEF ScheduleStops, TypedInv, StateType
      <4>2. request[r].result # None <=> request[r].status \in {"answering", "finished"}
        BY DEF ResultInv
      <4> QED
        BY <4>1, <4>2 DEF Settled, Request, RequestStates
    <3> QED
      BY <2>9, <2>0, <3>1 DEF ScheduleStops, ResultInv
  <2>10. CASE UNCHANGED <<pending, request>>
    BY <2>10 DEF ResultInv
  <2>11. CASE \/ ReturnFromCallback \/ Sweep \/ UNCHANGED vars
              \/ \E w \in Workers : Work(w) \/ Die(w)
    BY <2>10, <2>11 DEF ReturnFromCallback, Sweep, Work, Die, vars
  <2> QED
    BY <2>2, <2>3, <2>4, <2>5, <2>6, <2>7, <2>8, <2>9, <2>11 DEF Next, Send, Schedule
<1> QED
  BY <1>1, <1>2, Typed, QueueInvariant, PTL DEF Spec

\* There are no more queued requests than queue places in use.
LEMMA QueuedCount ==
    ASSUME TypedInv, QueueInv
    PROVE  IsFiniteSet(Queued) /\ Cardinality(Queued) <= numPending
<1>1. /\ pending \in Seq(Requests)
      /\ Len(pending) \in Nat
      /\ DOMAIN pending = 1 .. Len(pending)
      /\ numPending = Len(pending)
  BY DEF TypedInv, StateType, QueueInv
<1>2. pending \in Surjection(1 .. Len(pending), Queued)
  <2>1. pending \in [1 .. Len(pending) -> Queued]
    BY <1>1 DEF QueueInv, QueueIsQueued
  <2> QED
    BY <1>1, <2>1 DEF QueueInv, QueueIsQueued, Surjection
<1>3. IsFiniteSet(1 .. Len(pending)) /\ Cardinality(1 .. Len(pending)) = Len(pending)
  <2>1. 1 \in Int /\ Len(pending) \in Int
    BY <1>1
  <2>2. /\ IsFiniteSet(1 .. Len(pending))
        /\ Cardinality(1 .. Len(pending)) =
              IF 1 > Len(pending) THEN 0 ELSE Len(pending) - 1 + 1
    BY <2>1, FS_Interval, Zenon
  <2> QED
    BY <1>1, <2>2
<1> QED
  BY <1>1, <1>2, <1>3, FS_Surjection

\* Each request under way with a worker has a busy worker of its own.
LEMMA ActiveCount ==
    ASSUME TypedInv, OwnInv
    PROVE  /\ IsFiniteSet(Active)
           /\ IsFiniteSet(Children \ Idle)
           /\ Cardinality(Active) <= Cardinality(Children \ Idle)
<1> DEFINE owner == [r \in Active |-> request[r].child]
<1>1. owner \in Injection(Active, Children \ Idle)
  BY DEF OwnInv, WorkersOwned, Idle, Injection, IsInjective
<1>2. IsFiniteSet(Children \ Idle)
  BY ChildrenFinite, FS_Subset
<1> QED
  BY <1>1, <1>2, FS_Injection

Room == IF MaxChildren = 0 THEN Cardinality(Workers) ELSE MaxChildren + MaxPending

\* While a worker can be offered, or a request queued, there is room for one more.
LEMMA RoomLeft ==
    ASSUME TypedInv, QueueInv, OwnInv, ChildrenInv, ResultInv,
           Offers # {} \/ (Saturated /\ numPending < MaxPending)
    PROVE  Cardinality(Active \cup Queued) < Room
<1>1. /\ IsFiniteSet(Active) /\ Cardinality(Active) \in Nat
      /\ IsFiniteSet(Queued) /\ Cardinality(Queued) \in Nat
      /\ Cardinality(Queued) <= numPending
      /\ numPending \in Nat
      /\ MaxChildren \in Nat /\ MaxPending \in Nat
  BY QueuedCount, ActiveCount, FS_CardinalityType, AioForkAssumption
  DEF QueueInv, TypedInv, StateType
<1>2. Cardinality(Active \cup Queued) <= Cardinality(Active) + Cardinality(Queued)
  <2>1. Cardinality(Active \cup Queued) =
            Cardinality(Active) + Cardinality(Queued) - Cardinality(Active \cap Queued)
    BY <1>1, FS_Union
  <2>2. Cardinality(Active \cap Queued) \in Nat
    BY <1>1, FS_Subset, FS_CardinalityType
  <2> QED
    BY <1>1, <2>1, <2>2
<1>3. Cardinality(Active \cup Queued) \in Nat
  BY <1>1, FS_Union, FS_CardinalityType
<1>4. /\ Cardinality(Children) \in Nat /\ Cardinality(Children \ Idle) \in Nat
      /\ Cardinality(Children \ Idle) <= Cardinality(Children)
      /\ Cardinality(Active) <= Cardinality(Children \ Idle)
      /\ numChildren = Cardinality(Children)
      /\ MaxChildren # 0 => numChildren <= MaxChildren
  BY ActiveCount, ChildrenFinite, FS_Subset, FS_CardinalityType DEF ChildrenInv
<1>5. CASE Offers # {}
  <2>1. PICK w \in Offers : TRUE
    BY <1>5
  <2>2. \/ w.id \in Idle
        \/ MayCreate /\ w.id \in Workers \ Children
    BY OffersAre
  <2>3. CASE w.id \in Idle
    <3>1. w.id \in Children /\ Children \ Idle \subseteq Children \ {w.id}
      BY <2>3 DEF Idle
    <3>2. Cardinality(Children \ Idle) <= Cardinality(Children) - 1
      <4>1. Cardinality(Children \ {w.id}) = Cardinality(Children) - 1
        BY <3>1, ChildrenFinite, FS_RemoveElement
      <4>2. IsFiniteSet(Children \ {w.id})
        BY ChildrenFinite, FS_Subset
      <4> QED
        BY <3>1, <4>1, <4>2, FS_Subset
    <3>3. Cardinality(Active) < Cardinality(Children)
      BY <1>1, <1>4, <3>2
    <3>4. Cardinality(Children) <= Cardinality(Workers) /\ Cardinality(Workers) \in Nat
      BY AioForkAssumption, FS_Subset, FS_CardinalityType DEF Children
    <3>5. CASE MaxChildren = 0
      <4>1. numPending = 0
        BY <3>5 DEF ResultInv, QueueInv
      <4> QED
        BY <1>1, <1>2, <1>3, <1>4, <3>3, <3>4, <3>5, <4>1 DEF Room
    <3>6. CASE MaxChildren # 0
      BY <1>1, <1>2, <1>3, <1>4, <3>3, <3>6 DEF Room, QueueInv
    <3> QED
      BY <3>5, <3>6
  <2>4. CASE MayCreate /\ w.id \in Workers \ Children
    <3>1. Cardinality(Children) < Cardinality(Workers) /\ Cardinality(Workers) \in Nat
      BY <2>4, AioForkAssumption, FS_Subset, FS_CardinalityType DEF Children
    <3>2. CASE MaxChildren = 0
      <4>1. numPending = 0
        BY <3>2 DEF ResultInv, QueueInv
      <4> QED
        BY <1>1, <1>2, <1>3, <1>4, <3>1, <3>2, <4>1 DEF Room
    <3>3. CASE MaxChildren # 0
      BY <1>1, <1>2, <1>3, <1>4, <2>4, <3>3 DEF Room, QueueInv, MayCreate
    <3> QED
      BY <3>2, <3>3
  <2> QED
    BY <2>2, <2>3, <2>4
<1>6. CASE Saturated /\ numPending < MaxPending
  BY <1>1, <1>2, <1>3, <1>4, <1>6 DEF Saturated, MayCreate, Room
<1> QED
  BY <1>5, <1>6

\* What the caller sees of one request's step is an abstract step of that request.
LEMMA SeenComplete ==
    ASSUME TypedInv, NEW r \in Requests, Seen(r) \in {"free", "accepted"},
           request'[r].status \in {"answering", "finished"},
           request'[r].result \in {"own", "error"},
           \A q \in Requests : q # r => request'[q] = request[q]
    PROVE  Service!Complete(r)
BY DEF Service!Complete, Service!Outcomes, Seen

\* The instance counts with the same operator.
LEMMA SameCardinality == ASSUME NEW S PROVE Service!Cardinality(S) = Cardinality(S)
BY DEF Service!Cardinality, Cardinality, Service!IsFiniteSet, IsFiniteSet

LEMMA SeenAccept ==
    ASSUME TypedInv, NEW r \in Requests, request[r].status = "none",
           request'[r].status \in {"queued", "active"},
           request'[r].result = request[r].result,
           \A q \in Requests : q # r => request'[q] = request[q],
           Cardinality(Active \cup Queued) < Room
    PROVE  Service!Accept(r)
<1>1. Service!UnderWay = Active \cup Queued
  BY DEF Service!UnderWay, Seen, Active, Queued
<1>2. Service!Cardinality(Service!UnderWay) < Room
  BY <1>1, SameCardinality
<1>3. [q \in Requests |-> Seen(q)][r] = "free"
  BY DEF Seen
<1>4. [q \in Requests |-> Seen(q)]' = [[q \in Requests |-> Seen(q)] EXCEPT ![r] = "accepted"]
  BY DEF Seen
<1>5. [q \in Requests |-> request[q].result]' = [q \in Requests |-> request[q].result]
  OBVIOUS
<1> QED
  BY <1>2, <1>3, <1>4, <1>5 DEF Service!Accept, Room

LEMMA SeenFree ==
    ASSUME TypedInv, NEW r \in Requests, Seen(r) \in {"accepted", "done"},
           request'[r].status \in {"none", "freeing"},
           request'[r].result = None,
           \A q \in Requests : q # r => request'[q] = request[q]
    PROVE  Service!Free(r)
BY DEF Service!Free, Seen

LEMMA SeenSame ==
    ASSUME \A r \in Requests : Seen(r)' = Seen(r) /\ request'[r].result = request[r].result
    PROVE  UNCHANGED Service!vars
BY DEF Service!vars, Seen

\* Giving a request to a worker accepts it, or ends it when the worker cannot be told; a
\* queued request that gets a worker was accepted before.
LEMMA DispatchSeen ==
    ASSUME TypedInv, ResultInv, NEW w \in Offers, NEW r \in Requests,
           Dispatch(r, w) \/ DispatchFails(r, w),
           \/ request[r].status = "none" /\ Cardinality(Active \cup Queued) < Room
           \/ request[r].status = "queued"
    PROVE  Service!Accept(r) \/ Service!Complete(r) \/ UNCHANGED Service!vars
<1>1. \A q \in Requests : q # r => request'[q] = request[q]
  BY DispatchRequest
<1>2. request[r].result = None
  BY DEF ResultInv
<1>3. CASE Dispatch(r, w)
  <2>1. request'[r].status = "active" /\ request'[r].result = None
    BY <1>3 DEF Dispatch, TypedInv, StateType
  <2>2. CASE request[r].status = "none" /\ Cardinality(Active \cup Queued) < Room
    BY <1>1, <1>2, <2>1, <2>2, SeenAccept
  <2>3. CASE request[r].status = "queued"
    <3>1. \A q \in Requests : Seen(q)' = Seen(q) /\ request'[q].result = request[q].result
      BY <1>1, <1>2, <2>1, <2>3 DEF Seen
    <3> QED
      BY <3>1, SeenSame
  <2> QED
    BY <2>2, <2>3
<1>4. CASE DispatchFails(r, w)
  <2>1. request'[r].status = "answering" /\ request'[r].result = "error"
    BY <1>4, RequestUpdate DEF DispatchFails
  <2>2. Seen(r) \in {"free", "accepted"}
    BY DEF Seen
  <2> QED
    BY <1>1, <2>1, <2>2, SeenComplete
<1> QED
  BY <1>3, <1>4

\* ImplementsService: for any number of requests, workers and queue places the pool is
\* seen to do what AioService says, and nothing else, whatever fails.
THEOREM Refines == Spec => ImplementsService
<1> DEFINE Inv == TypedInv /\ QueueInv /\ OwnInv /\ ChildrenInv /\ ResultInv
<1>1. Init => Service!Init
  BY DEF Init, Service!Init, Request, Seen
<1>2. Inv /\ Inv' /\ [Next]_vars => [Service!Next]_(Service!vars)
  <2> DEFINE Goal == \/ \E r \in Requests :
                            Service!Accept(r) \/ Service!Complete(r) \/ Service!Free(r)
                     \/ UNCHANGED Service!vars
  <2> SUFFICES ASSUME TypedInv, QueueInv, OwnInv, ChildrenInv, ResultInv, OwnAnswers',
                      [Next]_vars
               PROVE  Goal
    BY DEF Service!Next, OwnInv
  <2>1. ASSUME UNCHANGED request
        PROVE  Goal
    BY <2>1, SeenSame DEF Seen
  <2>2. ASSUME NEW r \in Requests, Seen(r) \in {"free", "accepted"},
               NEW status \in {"answering", "finished"}, NEW result \in {"own", "error"},
               request' = [request EXCEPT ![r] = Request(status, result)]
        PROVE  Goal
    BY <2>2, RequestUpdate, SeenComplete
  <2>3. ASSUME NEW r \in Requests, Seen(r) \in {"accepted", "done"},
               NEW status \in {"none", "freeing"},
               request' = [request EXCEPT ![r] = Request(status, None)]
        PROVE  Goal
    BY <2>3, RequestUpdate, SeenFree
  <2> HIDE DEF Goal
  <2>4. ASSUME NEW r \in Requests, SendRefused(r) \/ SendSync(r)
        PROVE  Goal
    <3>1. Seen(r) \in {"free", "accepted"}
      BY <2>4 DEF SendRefused, SendSync, Sending, Seen
    <3>2. PICK result \in {"own", "error"} :
              request' = [request EXCEPT ![r] = Request("finished", result)]
      BY <2>4 DEF SendRefused, SendSync, RunSync
    <3> QED
      BY <2>2, <3>1, <3>2
  <2>5. ASSUME NEW r \in Requests, SendDispatched(r)
        PROVE  Goal
    <3>1. PICK w \in Offers : Dispatch(r, w) \/ DispatchFails(r, w)
      BY <2>5 DEF SendDispatched
    <3>2. request[r].status = "none" /\ Cardinality(Active \cup Queued) < Room
      BY <2>5, RoomLeft DEF SendDispatched, Sending
    <3> QED
      BY <3>1, <3>2, DispatchSeen DEF Goal
  <2>6. ASSUME NEW r \in Requests, SendQueued(r)
        PROVE  Goal
    <3>1. request[r].status = "none" /\ Cardinality(Active \cup Queued) < Room
      BY <2>6, RoomLeft DEF SendQueued, Sending
    <3>2. request' = [request EXCEPT ![r] = Request("queued", None)]
      BY <2>6 DEF SendQueued
    <3>3. request[r].result = None
      BY <3>1 DEF ResultInv
    <3> QED
      BY <3>1, <3>2, <3>3, RequestUpdate, SeenAccept DEF Goal
  <2>7. ASSUME NEW r \in Requests, Done(r)
        PROVE  Goal
    <3>1. Seen(r) \in {"free", "accepted"}
      BY <2>7 DEF Done, DoneAnswer, DoneFailed, Seen
    <3>2. PICK result \in {"own", "other", "error"} :
              request' = [request EXCEPT ![r] = Request("answering", result)]
      BY <2>7 DEF Done, DoneAnswer, DoneFailed, ResultOf
    <3>3. result # "other"
      BY <3>2, RequestUpdate DEF OwnAnswers
    <3> QED
      BY <2>2, <3>1, <3>2, <3>3
  <2>8. ASSUME NEW r \in Requests, FreeQueued(r) \/ FreeActive(r) \/ Collect(r)
        PROVE  Goal
    <3>1. Seen(r) \in {"accepted", "done"}
      BY <2>8 DEF FreeQueued, FreeActive, Collect, Seen
    <3>2. PICK status \in {"none", "freeing"} :
              request' = [request EXCEPT ![r] = Request(status, None)]
      BY <2>8 DEF FreeQueued, FreeActive, Collect
    <3> QED
      BY <2>3, <3>1, <3>2
  <2>9. ASSUME ScheduleDispatch \/ ScheduleSync
        PROVE  Head(pending) \in Requests /\ request[Head(pending)].status = "queued"
    <3>1. TakeHead
      BY <2>9 DEF ScheduleDispatch, ScheduleSync
    <3>2. Head(pending) \in Requests /\ Head(pending) = pending[1] /\ 1 \in DOMAIN pending
      BY <3>1, TakeHeadType DEF TakeHead, TypedInv, StateType
    <3> QED
      BY <3>2 DEF QueueInv, QueueIsQueued, Queued
  <2>10. CASE ScheduleDispatch
    <3>1. PICK w \in Offers : Dispatch(Head(pending), w) \/ DispatchFails(Head(pending), w)
      BY <2>10 DEF ScheduleDispatch
    <3> QED
      BY <2>9, <2>10, <3>1, DispatchSeen DEF Goal
  <2>11. CASE ScheduleSync
    <3>1. request' = [request EXCEPT ![Head(pending)] = Request("finished", "own")]
      BY <2>11 DEF ScheduleSync, RunSync
    <3>2. Seen(Head(pending)) = "accepted"
      BY <2>9, <2>11 DEF Seen
    <3>3. Head(pending) \in Requests
      BY <2>9, <2>11
    <3> QED
      BY <2>2, <3>1, <3>2, <3>3
  <2>12. CASE ScheduleStops
    <3>1. ASSUME NEW r \in Requests
          PROVE  Seen(r)' = Seen(r) /\ request'[r].result = request[r].result
      <4>1. request'[r] = Settled(request[r]) /\ request[r] \in RequestStates
        BY <2>12 DEF ScheduleStops, TypedInv, StateType
      <4>2. request[r].status = "freeing" => request[r].result = None
        BY DEF ResultInv
      <4> QED
        BY <4>1, <4>2 DEF Settled, Request, RequestStates, Seen
    <3> QED
      BY <3>1, SeenSame DEF Goal
  <2>13. CASE \/ ReturnFromCallback \/ Sweep \/ UNCHANGED vars
              \/ \E w \in Workers : Work(w) \/ Die(w)
    <3>1. UNCHANGED request
      BY <2>13 DEF ReturnFromCallback, Sweep, Work, Die, vars
    <3> QED
      BY <2>1, <3>1
  <2> QED
    BY <2>4, <2>5, <2>6, <2>7, <2>8, <2>10, <2>11, <2>12, <2>13 DEF Next, Send, Schedule
<1>3. Spec => []Inv
  BY Typed, QueueInvariant, Own, ChildrenInvariant, ResultInvariant, PTL
<1> QED
  BY <1>1, <1>2, <1>3, PTL DEF Spec, ImplementsService, Service!Spec
=============================================================================
