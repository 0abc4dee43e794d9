----------------------------- MODULE AioService -----------------------------
(***************************************************************************)
(* What the bounded aio_fork pool promises its caller: a request is        *)
(* accepted only while there is room for it, and done or refused at once   *)
(* otherwise; an accepted one is answered once, with its own result or an  *)
(* error, or it is freed and then answered no more.                        *)
(***************************************************************************)
EXTENDS Integers, FiniteSets

CONSTANTS
    Requests,
    None,          \* no outcome
    Capacity       \* how many requests may be under way at one time

VARIABLES
    phase,         \* phase[r]: where request r is
    outcome        \* outcome[r]: how it ended

vars == <<phase, outcome>>

Outcomes == {"own", "error"}

UnderWay == {r \in Requests : phase[r] = "accepted"}

Init ==
    /\ phase = [r \in Requests |-> "free"]
    /\ outcome = [r \in Requests |-> None]

Accept(r) ==
    /\ phase[r] = "free"
    /\ Cardinality(UnderWay) < Capacity
    /\ phase' = [phase EXCEPT ![r] = "accepted"]
    /\ UNCHANGED outcome

\* A request that was accepted, or one that is done at once.
Complete(r) ==
    /\ phase[r] \in {"free", "accepted"}
    /\ phase' = [phase EXCEPT ![r] = "done"]
    /\ \E o \in Outcomes : outcome' = [outcome EXCEPT ![r] = o]

Free(r) ==
    /\ phase[r] \in {"accepted", "done"}
    /\ phase' = [phase EXCEPT ![r] = "free"]
    /\ outcome' = [outcome EXCEPT ![r] = None]

Next == \E r \in Requests : Accept(r) \/ Complete(r) \/ Free(r)

Spec == Init /\ [][Next]_vars
=============================================================================
