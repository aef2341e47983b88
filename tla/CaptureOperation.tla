-------------------------- MODULE CaptureOperation --------------------------
(***************************************************************************)
(* The operation envelope that the capture client draws and the server     *)
(* records.                                                                *)
(***************************************************************************)
EXTENDS Integers, FiniteSets

CONSTANTS
    Actor,     \* performing actors of one tenant; each is a scope on the device
    None,      \* absent
    MaxEpoch   \* epochs the device may draw

\* kind is "asset" for the versioned operations (MOVE, ASSIGN, UNASSIGN,
\* TRANSITION), "scan" for RECEIVE_SCAN and RESOLVE, "link" for ATTACH_EVIDENCE.
Operation ==
    [id : Nat, actor : Actor, epoch : 1..MaxEpoch, seq : Nat, kind : {"asset", "scan", "link"},
     row : Nat, expected : Nat \cup {None}]

ASSUME OperationAssumption == MaxEpoch \in Nat /\ None \notin Actor \cup Operation

\* m is the device record the allocation left behind; row is the queue row the
\* operation was drawn for.
Envelope(m, kind, row, expected) ==
    [id |-> m.ordinal, actor |-> m.scope, epoch |-> m.epoch, seq |-> m.seq,
     kind |-> kind, row |-> row, expected |-> expected]
=============================================================================
