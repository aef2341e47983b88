---------------------------- MODULE ExceptionStatus ----------------------------
(***************************************************************************)
(* What the exception workflow promises, whoever moves an exception and    *)
(* whatever its origin: every observation opens once, is acknowledged at   *)
(* most once and is closed at most once, and a closed one stays as it is.  *)
(***************************************************************************)
CONSTANTS Exception, Unopened

VARIABLE status  \* of every exception

Status == {"OPEN", "ACKNOWLEDGED", "RESOLVED", "WAIVED"}

\* exception_workflow.WORKFLOW.
WORKFLOW == [OPEN |-> {"ACKNOWLEDGED", "RESOLVED", "WAIVED"},
             ACKNOWLEDGED |-> {"RESOLVED", "WAIVED"},
             RESOLVED |-> {}, WAIVED |-> {}]

Unresolved == {"OPEN", "ACKNOWLEDGED"}

\* One transaction may move several exceptions, each along one edge.
Step(e) ==
    \/ status'[e] = status[e]
    \/ status[e] = Unopened /\ status'[e] = "OPEN"
    \/ status[e] \in Status /\ status'[e] \in WORKFLOW[status[e]]

Init == status \in [Exception -> {Unopened, "OPEN"}]

Next ==
    /\ status' \in [Exception -> Status \cup {Unopened}]
    /\ \A e \in Exception : Step(e)

Spec == Init /\ [][Next]_status
=============================================================================
