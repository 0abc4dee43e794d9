------------------------------- MODULE AioFork -------------------------------
(***************************************************************************)
(* The bounded aio_fork pool that the Samba patches 0031 and 0034 make of  *)
(* source3/modules/vfs_aio_fork.c: smbd hands reads, writes and fsyncs of  *)
(* one share connection to forked workers over socket pairs, queues a few  *)
(* when every worker is busy, and runs the rest itself.                    *)
(*                                                                         *)
(* smbd is one event loop, so its handlers are atomic except where they    *)
(* call back: aio_fork_schedule_pending recurses (a failed dispatch        *)
(* releases its worker, which schedules again) and runs callers' callbacks *)
(* (a synchronous request completes inside it).  pc says where smbd is; a  *)
(* nested scheduling loop stops where the outer one would, so the loops    *)
(* are one.  Workers are processes of their own: they answer or die at any *)
(* moment.  Watches are keyed by descriptor, as the event library keys     *)
(* them, and a descriptor that was closed may be used again.               *)
(***************************************************************************)
EXTENDS Integers, FiniteSets, SequencesExt

CONSTANTS
    Requests,      \* the requests a client has in flight at one time, at most
    Workers,       \* the worker processes that exist at one time, at most
    Fds,           \* the descriptors the sockets may get
    None,          \* no request, worker, descriptor or result
    MaxChildren,   \* aio_fork:max_children, 0 for no limit
    MaxPending     \* AIO_FORK_MAX_PENDING

ASSUME AioForkAssumption ==
    /\ IsFiniteSet(Workers)
    /\ None \notin Requests \cup Workers \cup Fds \cup {"own", "other", "error"}
    /\ MaxChildren \in Nat
    /\ MaxPending \in Nat

VARIABLES
    worker,        \* the workers: smbd's struct aio_child and the process behind it
    numChildren,   \* list->num_children
    pending,       \* list->pending
    numPending,    \* list->num_pending
    request,       \* the requests' struct aio_fork_state, and what came of them
    watch,         \* the request each descriptor's read event belongs to
    pc             \* where smbd is

vars == <<worker, numChildren, pending, numPending, request, watch, pc>>

WorkerStates ==
    [listed : BOOLEAN, fd : Fds \cup {None}, busy : BOOLEAN, kept : BOOLEAN,
     alive : BOOLEAN, commands : Seq(Requests), answers : Seq(Requests)]

RequestStates ==
    [status : {"none", "queued", "active", "answering", "freeing", "finished"},
     child : Workers \cup {None}, reading : Fds \cup {None},
     result : {None, "own", "other", "error"}]

StateType ==
    /\ worker \in [Workers -> WorkerStates]
    /\ pending \in Seq(Requests)
    /\ request \in [Requests -> RequestStates]
    /\ watch \in [Fds -> Requests \cup {None}]
    /\ pc \in {"loop", "schedule", "callback"}

\* The counters are unsigned in the code: one counted down too far would never be below
\* a limit again.
TypeOK ==
    /\ StateType
    /\ numChildren \in Nat
    /\ numPending \in Nat

NoWorker ==
    [listed |-> FALSE, fd |-> None, busy |-> FALSE, kept |-> FALSE, alive |-> FALSE,
     commands |-> <<>>, answers |-> <<>>]

NewWorker(fd) ==
    [listed |-> TRUE, fd |-> fd, busy |-> FALSE, kept |-> FALSE, alive |-> TRUE,
     commands |-> <<>>, answers |-> <<>>]

\* A request that is not with a worker.
Request(status, result) ==
    [status |-> status, child |-> None, reading |-> None, result |-> result]

Init ==
    /\ worker = [w \in Workers |-> NoWorker]
    /\ numChildren = 0
    /\ pending = <<>>
    /\ numPending = 0
    /\ request = [r \in Requests |-> Request("none", None)]
    /\ watch = [fd \in Fds |-> None]
    /\ pc = "loop"

Children == {w \in Workers : worker[w].listed}
Idle == {w \in Children : ~worker[w].busy}
FreeFds == Fds \ {worker[w].fd : w \in Children}
Queued == {r \in Requests : request[r].status = "queued"}
Active == {r \in Requests : request[r].status = "active"}

(***************************************************************************)
(* Giving a request to a worker                                            *)
(***************************************************************************)

MayCreate == MaxChildren = 0 \/ numChildren < MaxChildren

IdleWorkers == {[id |-> w, state |-> worker[w], children |-> numChildren] : w \in Idle}

NewWorkers ==
    {[id |-> w, state |-> NewWorker(fd), children |-> numChildren + 1] :
        w \in Workers \ Children, fd \in FreeFds}

\* The workers a request may be given to: an idle one, or one forked for it.
Offers ==
    IF Idle # {} THEN IdleWorkers ELSE IF MayCreate THEN NewWorkers ELSE {}

\* (mutation) the worker is not marked busy.
Dispatch_NotBusy(r, w) ==
    /\ w.state.alive
    /\ worker' = [worker EXCEPT ![w.id] =
           [w.state EXCEPT !.kept = TRUE, !.commands = Append(w.state.commands, r)]]
    /\ numChildren' = w.children
    /\ request' = [request EXCEPT ![r] =
           [status |-> "active", child |-> w.id, reading |-> w.state.fd,
            result |-> None]]
    /\ watch' = [watch EXCEPT ![w.state.fd] = r]

\* The command is sent and the answer awaited.
Dispatch(r, w) ==
    /\ w.state.alive
    /\ worker' = [worker EXCEPT ![w.id] =
           [w.state EXCEPT !.busy = TRUE, !.kept = TRUE,
                           !.commands = Append(w.state.commands, r)]]
    /\ numChildren' = w.children
    /\ request' = [request EXCEPT ![r] =
           [status |-> "active", child |-> w.id, reading |-> w.state.fd,
            result |-> None]]
    /\ watch' = [watch EXCEPT ![w.state.fd] = r]

\* (mutation) the worker is counted out here and in its destructor.
DispatchFails_Twice(r, w) ==
    /\ worker' = [worker EXCEPT ![w.id] = NoWorker]
    /\ numChildren' = w.children - 2
    /\ request' = [request EXCEPT ![r] = Request("answering", "error")]
    /\ UNCHANGED watch

\* write_fd or read_packet_send fails: the worker is retired, others are scheduled,
\* and then the request fails.
DispatchFails(r, w) ==
    /\ worker' = [worker EXCEPT ![w.id] = NoWorker]
    /\ numChildren' = w.children - 1
    /\ request' = [request EXCEPT ![r] = Request("answering", "error")]
    /\ UNCHANGED watch

\* aio_fork_run_sync
RunSync(r) ==
    /\ request' = [request EXCEPT ![r] = Request("finished", "own")]
    /\ UNCHANGED <<worker, numChildren, watch>>

(***************************************************************************)
(* aio_fork_send: called from the loop, or by a callback                   *)
(***************************************************************************)

Sending(r) == pc \in {"loop", "callback"} /\ request[r].status = "none"

\* Too large, or no memory for the pool.
SendRefused(r) ==
    /\ Sending(r)
    /\ request' = [request EXCEPT ![r] = Request("finished", "error")]
    /\ UNCHANGED <<worker, numChildren, pending, numPending, watch, pc>>

SendDispatched(r) ==
    /\ Sending(r)
    /\ \E w \in Offers :
          \/ Dispatch(r, w) /\ UNCHANGED pc
          \/ DispatchFails(r, w) /\ pc' = "schedule"
    /\ UNCHANGED <<pending, numPending>>

Saturated == Idle = {} /\ ~MayCreate

\* No worker could be forked, or the queue is full as well.
SendSync(r) ==
    /\ Sending(r)
    /\ \/ Idle = {} /\ MayCreate
       \/ Saturated /\ numPending >= MaxPending
    /\ RunSync(r)
    /\ UNCHANGED <<pending, numPending, pc>>

\* (mutation) the queue has no limit.
SendQueued_Unbounded(r) ==
    /\ Sending(r)
    /\ Saturated
    /\ request' = [request EXCEPT ![r] = Request("queued", None)]
    /\ pending' = Append(pending, r)
    /\ numPending' = numPending + 1
    /\ UNCHANGED <<worker, numChildren, watch, pc>>

\* (mutation) DLIST_ADD for DLIST_ADD_END.
SendQueued_Front(r) ==
    /\ Sending(r)
    /\ Saturated
    /\ numPending < MaxPending
    /\ request' = [request EXCEPT ![r] = Request("queued", None)]
    /\ pending' = <<r>> \o pending
    /\ numPending' = numPending + 1
    /\ UNCHANGED <<worker, numChildren, watch, pc>>

SendQueued(r) ==
    /\ Sending(r)
    /\ Saturated
    /\ numPending < MaxPending
    /\ request' = [request EXCEPT ![r] = Request("queued", None)]
    /\ pending' = Append(pending, r)
    /\ numPending' = numPending + 1
    /\ UNCHANGED <<worker, numChildren, watch, pc>>

Send(r) == SendRefused(r) \/ SendDispatched(r) \/ SendSync(r) \/ SendQueued(r)

(***************************************************************************)
(* aio_fork_schedule_pending                                               *)
(***************************************************************************)

TakeHead ==
    /\ pending # <<>>
    /\ pending' = Tail(pending)
    /\ numPending' = numPending - 1

ScheduleDispatch ==
    /\ pc = "schedule"
    /\ TakeHead
    /\ \E w \in Offers : Dispatch(Head(pending), w) \/ DispatchFails(Head(pending), w)
    /\ UNCHANGED pc

\* The fork fails: the request runs at once, and its caller is called back.
ScheduleSync ==
    /\ pc = "schedule"
    /\ TakeHead
    /\ Idle = {} /\ MayCreate
    /\ RunSync(Head(pending))
    /\ pc' = "callback"

ReturnFromCallback ==
    /\ pc = "callback"
    /\ pc' = "schedule"
    /\ UNCHANGED <<worker, numChildren, pending, numPending, request, watch>>

\* What remains of a handler once its scheduling is over: a request is reported to its
\* caller, and a freed one loses the read it may still have had.
Settled(q) ==
    CASE q.status = "answering" -> [q EXCEPT !.status = "finished"]
      [] q.status = "freeing" -> Request("none", None)
      [] OTHER -> q

Leftover == {fd \in Fds : \E r \in Requests :
                 request[r].status = "freeing" /\ request[r].reading = fd}

ScheduleStops ==
    /\ pc = "schedule"
    /\ pending = <<>> \/ Saturated
    /\ request' = [r \in Requests |-> Settled(request[r])]
    /\ watch' = [fd \in Fds |-> IF fd \in Leftover THEN None ELSE watch[fd]]
    /\ pc' = "loop"
    /\ UNCHANGED <<worker, numChildren, pending, numPending>>

Schedule == ScheduleDispatch \/ ScheduleSync \/ ScheduleStops

(***************************************************************************)
(* The end of a request                                                    *)
(***************************************************************************)

\* (mutation) the destructor does not count the worker out.
Release_Forgets(w, answers, fails) ==
    /\ worker' = [worker EXCEPT ![w] =
           IF fails THEN NoWorker ELSE [@ EXCEPT !.busy = FALSE, !.answers = answers]]
    /\ numChildren' = numChildren
    /\ pc' = "schedule"

\* (mutation) nothing is scheduled.
Release_Silent(w, answers, fails) ==
    /\ worker' = [worker EXCEPT ![w] =
           IF fails THEN NoWorker ELSE [@ EXCEPT !.busy = FALSE, !.answers = answers]]
    /\ numChildren' = IF fails THEN numChildren - 1 ELSE numChildren
    /\ pc' = "loop"

\* aio_fork_release_child, before it schedules.  answers is what is left on the socket.
Release(w, answers, fails) ==
    /\ worker' = [worker EXCEPT ![w] =
           IF fails THEN NoWorker ELSE [@ EXCEPT !.busy = FALSE, !.answers = answers]]
    /\ numChildren' = IF fails THEN numChildren - 1 ELSE numChildren
    /\ pc' = "schedule"

\* The first answer on the socket is taken for the request's.
ResultOf(r, w) == IF Head(worker[w].answers) = r THEN "own" ELSE "other"

\* aio_fork_done with an answer: what a read returned is copied before the worker is
\* released.  An answer longer than the request is refused.
DoneAnswer(r) ==
    LET w == request[r].child IN
    /\ pc = "loop"
    /\ request[r].status = "active"
    /\ watch[request[r].reading] = r
    /\ worker[w].answers # <<>>
    /\ \E result \in {ResultOf(r, w), "error"} :
          request' = [request EXCEPT ![r] = Request("answering", result)]
    /\ watch' = [watch EXCEPT ![request[r].reading] = None]
    /\ Release(w, Tail(worker[w].answers), FALSE)
    /\ UNCHANGED <<pending, numPending>>

\* aio_fork_done when the worker is gone.
DoneFailed(r) ==
    LET w == request[r].child IN
    /\ pc = "loop"
    /\ request[r].status = "active"
    /\ watch[request[r].reading] = r
    /\ ~worker[w].alive
    /\ worker[w].answers = <<>>
    /\ Release(w, <<>>, TRUE)
    /\ request' = [request EXCEPT ![r] = Request("answering", "error")]
    /\ watch' = [watch EXCEPT ![request[r].reading] = None]
    /\ UNCHANGED <<pending, numPending>>

Done(r) == DoneAnswer(r) \/ DoneFailed(r)

\* aio_fork_state_destructor of a request that waits in the queue.
FreeQueued(r) ==
    /\ pc = "loop"
    /\ request[r].status = "queued"
    /\ \E i \in DOMAIN pending : pending[i] = r /\ pending' = RemoveAt(pending, i)
    /\ numPending' = numPending - 1
    /\ request' = [request EXCEPT ![r] = Request("none", None)]
    /\ UNCHANGED <<worker, numChildren, watch, pc>>

\* (mutation) the worker is kept for the next request.
FreeActive_KeepsWorker(r) ==
    /\ pc = "loop"
    /\ request[r].status = "active"
    /\ watch' = [watch EXCEPT ![request[r].reading] = None]
    /\ Release(request[r].child, worker[request[r].child].answers, FALSE)
    /\ request' = [request EXCEPT ![r] = Request("freeing", None)]
    /\ UNCHANGED <<pending, numPending>>

\* aio_fork_state_destructor of a request a worker has: its read is cancelled, and the
\* worker retired before another request can have it.
FreeActive(r) ==
    /\ pc = "loop"
    /\ request[r].status = "active"
    /\ watch' = [watch EXCEPT ![request[r].reading] = None]
    /\ Release(request[r].child, <<>>, TRUE)
    /\ request' = [request EXCEPT ![r] = Request("freeing", None)]
    /\ UNCHANGED <<pending, numPending>>

\* The caller takes the result and frees the request.
Collect(r) ==
    /\ pc \in {"loop", "callback"}
    /\ request[r].status = "finished"
    /\ request' = [request EXCEPT ![r] = Request("none", None)]
    /\ UNCHANGED <<worker, numChildren, pending, numPending, watch, pc>>

(***************************************************************************)
(* The sweep and the workers                                               *)
(***************************************************************************)

\* Idle since the previous sweep.
Stale == {w \in Idle : ~worker[w].kept}

\* aio_child_cleanup
Sweep ==
    /\ pc = "loop"
    /\ Children # {}
    /\ worker' = [w \in Workers |->
           IF w \in Stale THEN NoWorker
           ELSE IF w \in Idle THEN [worker[w] EXCEPT !.kept = FALSE] ELSE worker[w]]
    /\ numChildren' = numChildren - Cardinality(Stale)
    /\ UNCHANGED <<pending, numPending, request, watch, pc>>

\* aio_child_loop: one command is carried out and answered.
Work(w) ==
    /\ worker[w].listed
    /\ worker[w].alive
    /\ worker[w].commands # <<>>
    /\ worker' = [worker EXCEPT
           ![w].commands = Tail(@),
           ![w].answers = Append(@, Head(worker[w].commands))]
    /\ UNCHANGED <<numChildren, pending, numPending, request, watch, pc>>

\* The worker is killed, or fails to answer.
Die(w) ==
    /\ worker[w].listed
    /\ worker[w].alive
    /\ worker' = [worker EXCEPT ![w].alive = FALSE]
    /\ UNCHANGED <<numChildren, pending, numPending, request, watch, pc>>

Next ==
    \/ \E r \in Requests :
          Send(r) \/ Done(r) \/ FreeQueued(r) \/ FreeActive(r) \/ Collect(r)
    \/ Schedule \/ ReturnFromCallback
    \/ Sweep
    \/ \E w \in Workers : Work(w) \/ Die(w)

Spec == Init /\ [][Next]_vars

\* A handler that runs is carried through; the loop comes around to every readable
\* socket, also if other handlers ran in between; a live worker answers.
Fairness ==
    /\ WF_vars(Schedule)
    /\ WF_vars(ReturnFromCallback)
    /\ \A r \in Requests : SF_vars(Done(r))
    /\ \A w \in Workers : WF_vars(Work(w))

FairSpec == Spec /\ Fairness

(***************************************************************************)
(* Properties                                                              *)
(***************************************************************************)

\* The counters the limits are enforced with are what they count, whatever fork, send,
\* worker or caller fails, and the limits hold (aio_fork_send, aio_child_destructor,
\* create_aio_child, aio_fork_unqueue).
CountersExact ==
    /\ numChildren = Cardinality(Children)
    /\ MaxChildren # 0 => numChildren <= MaxChildren
    /\ numPending = Len(pending)
    /\ numPending <= MaxPending

\* Whenever smbd is back in its event loop, a request waits only because every worker
\* the limit allows has work: none waits for an event that will not come
\* (aio_fork_release_child schedules; a failed fork strands nobody).
NoneWaitsForIdle ==
    pc = "loop" /\ pending # <<>> =>
        /\ MaxChildren # 0
        /\ numChildren >= MaxChildren
        /\ Idle = {}

\* The queue holds the queued requests, each once.
QueueIsQueued ==
    /\ \A i \in DOMAIN pending : pending[i] \in Queued
    /\ \A r \in Queued : \E i \in DOMAIN pending : pending[i] = r
    /\ \A i, j \in DOMAIN pending : pending[i] = pending[j] => i = j

\* A busy worker has exactly one request and it has one of its own: none is lost, none
\* shared, and no worker stays busy for a request that is gone.
WorkersOwned ==
    /\ \A r \in Active :
          /\ request[r].child \in Children
          /\ worker[request[r].child].busy
          /\ request[r].reading = worker[request[r].child].fd
    /\ \A q, r \in Active : request[q].child = request[r].child => q = r
    /\ \A w \in Children : worker[w].busy => \E r \in Active : request[r].child = w

\* A request that a worker has is told of the answer: the read event of its descriptor
\* is its own, even when the descriptor belonged to a cancelled request a moment ago
\* (0034: "leaving the read until then can unregister the replacement fd").
ActiveIsWatched == \A r \in Active : watch[request[r].reading] = r

\* No request is given the answer to another one: a worker whose request was cancelled
\* or failed is never used again (aio_fork_state_destructor).
OwnAnswers == \A r \in Requests : request[r].result # "other"

\* What the caller sees of a request: from its first handler on it is under way, once
\* its result is known it is done, and once it is being freed it is free.
Seen(r) ==
    CASE request[r].status \in {"none", "freeing"} -> "free"
      [] request[r].status \in {"queued", "active"} -> "accepted"
      [] OTHER -> "done"

Service == INSTANCE AioService WITH
    phase <- [r \in Requests |-> Seen(r)],
    outcome <- [r \in Requests |-> request[r].result],
    Capacity <- IF MaxChildren = 0 THEN Cardinality(Workers) ELSE MaxChildren + MaxPending

\* The pool implements AioService: it never has more requests under way than workers
\* and queue places, answers each once, and answers no freed one (aio_fork_send,
\* aio_fork_done, aio_fork_state_destructor).
ImplementsService == Service!Spec

\* A request that was accepted is answered, fails or is freed, however many others come:
\* the queue is served in order ("Hold short bursts in a bounded FIFO").
Completes ==
    \A r \in Requests : request[r].status \in {"queued", "active"} ~>
                        request[r].status \notin {"queued", "active"}
=============================================================================
