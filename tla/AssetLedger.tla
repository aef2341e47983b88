----------------------------- MODULE AssetLedger -----------------------------
(***************************************************************************)
(* What the histories of an Asset promise, abstractly (ADR-005, ADR-013):  *)
(* one ledger for all classes of facts.  An operation appends an entry at  *)
(* the next version.  A correction takes away the newest entry, and no     *)
(* other, and puts one of the same class two versions later; the facts are *)
(* always those of the newest entries.                                     *)
(***************************************************************************)
EXTENDS Integers

CONSTANTS
    LedgerClass,  \* the classes of facts
    LedgerFact    \* what each may say

VARIABLES
    version,  \* the version of the Asset
    entries,  \* the entries in force: [cls, to, at]
    facts     \* what is true of each class

ledgerVars == <<version, entries, facts>>

Created == [cls |-> "state", to |-> "RECEIVED", at |-> 1]

LedgerInit ==
    /\ version = 1
    /\ entries = {Created}
    /\ \A c \in LedgerClass : facts[c] \in LedgerFact[c]
    /\ facts["state"] = Created.to

Operate(c, to) ==
    /\ version' = version + 1
    /\ entries' = entries \cup {[cls |-> c, to |-> to, at |-> version + 1]}
    /\ facts' = [facts EXCEPT ![c] = to]

Correct(top, to) ==
    /\ top.at = version
    /\ version' = version + 2
    /\ entries' = (entries \ {top}) \cup {[cls |-> top.cls, to |-> to, at |-> version + 2]}
    /\ facts' = [facts EXCEPT ![top.cls] = to]

LedgerNext ==
    \/ \E c \in LedgerClass : \E to \in LedgerFact[c] : Operate(c, to)
    \/ \E top \in entries : \E to \in LedgerFact[top.cls] : Correct(top, to)

LedgerSpec == LedgerInit /\ [][LedgerNext]_ledgerVars
=============================================================================
