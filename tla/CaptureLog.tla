----------------------------- MODULE CaptureLog -----------------------------
(***************************************************************************)
(* What offline capture promises (D11/D12): every captured operation is    *)
(* decided at most once, its decision never changes, the operations of one *)
(* actor are decided in the order in which they were captured, and the     *)
(* photo of a capture is linked at most once, after the capture applied.   *)
(***************************************************************************)
EXTENDS Integers

CONSTANTS Actor, MaxId

VARIABLES
    captured,  \* [id, actor, row] of every operation ever drawn
    decided    \* [id, actor, state] of every operation the server has settled

logVars == <<captured, decided>>

LogInit == captured = {} /\ decided = {}

Fresh(id) == \A x \in captured : x.id < id

\* The operator captures an operation.
Capture(id, a) ==
    /\ Fresh(id)
    /\ captured' = captured \cup {[id |-> id, actor |-> a, row |-> id]}
    /\ UNCHANGED decided

\* The device draws the one evidence link of a capture that was applied.
Link(id, x) ==
    /\ Fresh(id)
    /\ x \in captured /\ x.row = x.id
    /\ \E d \in decided : d.id = x.id /\ d.state = "APPLIED"
    /\ \A y \in captured : y.row = x.row => y = x
    /\ captured' = captured \cup {[id |-> id, actor |-> x.actor, row |-> x.id]}
    /\ UNCHANGED decided

Decide(x, state) ==
    /\ x \in captured
    /\ \A d \in decided : d.id # x.id
    /\ \A y \in captured : y.actor = x.actor /\ y.id < x.id =>
           \E d \in decided : d.id = y.id
    /\ decided' = decided \cup {[id |-> x.id, actor |-> x.actor, state |-> state]}
    /\ UNCHANGED captured

LogNext ==
    \/ \E id \in 1..MaxId, a \in Actor : Capture(id, a)
    \/ \E id \in 1..MaxId, x \in captured : Link(id, x)
    \/ \E x \in captured, state \in {"APPLIED", "REJECTED"} : Decide(x, state)

LogSpec == LogInit /\ [][LogNext]_logVars
=============================================================================
