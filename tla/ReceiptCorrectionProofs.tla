------------------------ MODULE ReceiptCorrectionProofs ------------------------
(***************************************************************************)
(* Proofs about the corrections of one sealed receipt, for every receipt,  *)
(* order, set of values and set of transactions.                           *)
(*                                                                         *)
(* ReceiptInv has two halves.  TableInv(T) is about the tables, and it is  *)
(* stated of a record T because the same facts are needed of the committed *)
(* tables and of After(t), which no state holds yet: nothing that is       *)
(* pinned can change (Pinning), every generation was caused by one         *)
(* evaluation (Counted), every evaluation still passes the anomaly view    *)
(* (Evaluated), the workflow of an observation repeats its events          *)
(* (Worked), and the live observations are one to one the disagreements of *)
(* the effective facts (Exact, Settled).  The other half, Rows and         *)
(* Locking, says of every transaction what it holds, what it waits for and *)
(* that what it has read is still true: a correction that has locked the   *)
(* first k workflows has seen their present rows, and its plan repeats the *)
(* facts that the receipt has now.                                         *)
(*                                                                         *)
(* The argument has four steps.  After(t) renews the tables (AfterRenews:  *)
(* a pair, an evaluation and the observations that nothing records yet);   *)
(* renewed tables satisfy TableInv (RenewedTables, from one lemma for each *)
(* part), so that Healthy(After(t)) holds; a status change keeps TableInv  *)
(* (MovedTables); and no step of the order, of a lock or of a commit       *)
(* disturbs the row of a transaction that it does not move, because that   *)
(* row says only what the locks of the transaction protect.                *)
(***************************************************************************)
EXTENDS ReceiptCorrections, ProcurementProofs, FunctionTheorems, SequenceTheorems

-----------------------------------------------------------------------------
(***************************************************************************)
(* Finite sets and their enumeration.                                      *)
(***************************************************************************)
LEMMA ImageFinite ==
    ASSUME NEW S, IsFiniteSet(S), NEW f, DOMAIN f = S, NEW T, T = {f[x] : x \in S}
    PROVE  IsFiniteSet(T)
<1>1. [x \in S |-> f[x]] \in Surjection(S, T)
  BY DEF Surjection
<1> QED
  BY <1>1, FS_Surjection

LEMMA Enumeration ==
    ASSUME NEW S, IsFiniteSet(S), NEW s, s = SetToSeq(S)
    PROVE  /\ s \in Seq(S) /\ Len(s) \in Nat /\ DOMAIN s = 1..Len(s)
           /\ \A d : d \in S <=> \E n \in DOMAIN s : s[n] = d
           /\ \A m, n \in DOMAIN s : s[m] = s[n] => m = n
<1>1. PICK c : c = Cardinality(S)
  OBVIOUS
<1>2. c \in Nat /\ ExistsBijection(1..c, S)
  BY <1>1, FS_CardinalityType
<1>3. PICK g : g \in Bijection(1..c, S)
  BY <1>2 DEF ExistsBijection
<1>4. g \in [1..c -> S] /\ IsInjective(g)
  BY <1>3 DEF Bijection, Injection, IsInjective
<1>5. s = CHOOSE f \in [1..c -> S] : IsInjective(f)
  BY <1>1 DEF SetToSeq
<1>6. s \in [1..c -> S] /\ IsInjective(s)
  BY <1>4, <1>5
<1>7. s \in Injection(1..c, S)
  BY <1>6 DEF Injection, IsInjective
<1>8. Cardinality(1..c) = c /\ IsFiniteSet(1..c)
  BY <1>2, FS_Interval
<1>9. s \in Surjection(1..c, S)
  BY <1>1, <1>7, <1>8, FS_Injection
<1>10. s \in Seq(S) /\ Len(s) = c /\ DOMAIN s = 1..c
  BY <1>2, <1>6
<1> QED
  BY <1>2, <1>6, <1>9, <1>10 DEF Surjection, IsInjective

-----------------------------------------------------------------------------
(***************************************************************************)
(* The invariant: the tables T of a receipt, committed or about to be.     *)
(***************************************************************************)
Shape(T) ==
    /\ T.corrections \in [LineId -> Seq(LinePair)]
    /\ T.comparators \subseteq Comparator /\ IsFiniteSet(T.comparators)
    /\ T.observations \in Seq(Range(T.observations))
    /\ T.workflow \in [DOMAIN T.observations -> WorkflowRow]
    /\ T.events \in [DOMAIN T.observations -> Seq(EventRow)]
    /\ T.evaluations \in Seq(EvaluationRow)

\* No expectation that the receipt has pinned can change.
Pinning(T) ==
    \A c \in T.comparators : /\ c.line \in Present /\ c.generation = Generation(c.line)
                             /\ c.introduced <= Len(T.evaluations)

\* Every order line that the facts S select has a pinned expectation.
Covered(S, pins) == \A f \in S : f.poLine # Null => \E c \in pins : c.line = f.poLine

FactsThen(T, n) == {FactsAt(T.corrections, l, T.evaluations[n].pins[l]) : l \in LineId}

Counted(T) ==
    \A l \in LineId : /\ LineCoherent(T.corrections, l)
                      /\ Len(T.corrections[l]) = CausedBy(T, l, Len(T.evaluations))

Evaluated(T) ==
    /\ Covered(Population(T.corrections), Pins(Own(T.comparators)))
    /\ \A n \in 1..Len(T.evaluations) :
          /\ EvaluationSound(T, n)
          /\ Covered(FactsThen(T, n), T.evaluations[n].expectations)

Worked(T) ==
    \A o \in DOMAIN T.observations :
        /\ T.observations[o].origin \in 0..Len(T.evaluations) /\ WorkflowSound(T, o)
        /\ \A s \in DOMAIN T.events[o] : T.events[o][s].cause \in 0..Len(T.evaluations)

LiveIn(T) ==
    {o \in DOMAIN T.observations :
        T.evaluations = <<>> \/ T.evaluations[Len(T.evaluations)].links[o].supported}

Exact(T) ==
    /\ {T.observations[o].key : o \in LiveIn(T)} =
           Disagreements(Population(T.corrections), Pins(Own(T.comparators)))
    /\ \A o, q \in LiveIn(T) : T.observations[o].key = T.observations[q].key => o = q

Settled(T) ==
    /\ \A o \in DOMAIN T.observations :
          T.workflow[o].status \in Edges!Unresolved => o \in LiveIn(T)
    /\ \A o \in LiveIn(T) : \A s \in DOMAIN T.events[o] : T.events[o][s].cause = 0

TableInv(T) ==
    Shape(T) /\ Pinning(T) /\ Counted(T) /\ Evaluated(T) /\ Worked(T) /\ Exact(T) /\ Settled(T)

-----------------------------------------------------------------------------
(***************************************************************************)
(* The invariant: one transaction, x.                                      *)
(***************************************************************************)
LockName == {OrderLock, ReceiptLock} \cup {WorkflowLock(o) : o \in Nat}

Ask == [target : Nat, expected : Edges!Status, to : Edges!Status]

Rowed(x) ==
    x \in [kind : {Null, "correct", "late", "status"}, held : SUBSET LockName,
           todo : Seq(LockName), seen : {x.seen}, ask : Ask \cup {Null},
           plan : CorrectionPlan \cup {Null}]

\* The locks of lock_receiving_context.
Context == IF receipt.order THEN {OrderLock, ReceiptLock} ELSE {ReceiptLock}

Asking(x) ==
    /\ x.plan = Null /\ x.ask \in Ask /\ x.ask.target \in Observed
    /\ \/ x.held = {} /\ x.todo = <<WorkflowLock(x.ask.target)>>
       \/ x.held = {WorkflowLock(x.ask.target)} /\ x.todo = <<>>

Entering(x) ==
    /\ DOMAIN x.seen = {}
    /\ \/ receipt.order /\ x.held = {} /\ x.todo = <<OrderLock, ReceiptLock>>
       \/ receipt.order /\ x.held = {OrderLock} /\ x.todo = <<ReceiptLock>>
       \/ ~ receipt.order /\ x.held = {} /\ x.todo = <<ReceiptLock>>
       \/ x.held = Context /\ x.todo = <<>>

\* The correction locks the first k workflows and has read what they say now.
Locked(x, k) ==
    /\ x.held = Context \cup {WorkflowLock(o) : o \in 1..k}
    /\ x.todo = [i \in 1..(Len(observations) - k) |-> WorkflowLock(k + i)]
    /\ DOMAIN x.seen = 1..k /\ \A o \in 1..k : x.seen[o] = workflow[o]

PlanSound(p) ==
    /\ p.line \in LineId /\ p.pair.reversal = EffectiveReceiptLine(corrections, p.line)
    /\ IsFiniteSet(p.bound)
    /\ \A c \in p.bound : /\ receipt.order /\ c.receipt = Receipt /\ c.line \in Present
                          /\ c.generation = Generation(c.line)
                          /\ c.introduced = Len(evaluations) + 1
    /\ p.pair.corrected.poLine # Null =>
           \E c \in comparators \cup p.bound : c.line = p.pair.corrected.poLine

Row(x) ==
    /\ Rowed(x)
    /\ x.kind = Null => x = Free
    /\ x.kind = "status" => Asking(x)
    /\ x.kind \in {"correct", "late"} /\ x.plan = Null => Entering(x)
    /\ x.plan # Null => /\ x.kind = "correct" /\ PlanSound(x.plan)
                        /\ \E k \in 0..Len(observations) : Locked(x, k)

Rows == \A t \in Tx : Row(tx[t])

Locking ==
    /\ poLock \in Tx \cup {Null}
    /\ \A t \in Tx : poLock = t <=> OrderLock \in tx[t].held
    /\ \A t, u \in Tx : t # u => tx[t].held \cap tx[u].held = {}

ReceiptInv ==
    /\ OrderInv /\ status = "ISSUED" /\ receipt \in Captured /\ TableInv(Tables)
    /\ DOMAIN tx = Tx /\ Rows /\ Locking

-----------------------------------------------------------------------------
(***************************************************************************)
(* Tables that a step leaves alone keep the invariant when every           *)
(* expectation that they pin is kept.                                      *)
(***************************************************************************)
Kept(p) == p \in Present' /\ lines'[p] = lines[p] /\ poCorrections'[p] = poCorrections[p]

LEMMA DisagreementsKept ==
    ASSUME NEW S, NEW pins, Covered(S, pins), \A c \in pins : Kept(c.line)
    PROVE  Disagreements(S, pins)' = Disagreements(S, pins)
<1>1. \A c \in pins : \A g : ExpectationAt(c.line, g)' = ExpectationAt(c.line, g)
  BY DEF Kept, ExpectationAt, Stated
<1>2. ASSUME NEW f \in S
      PROVE  PinnedExpectation(pins, f.poLine)' = PinnedExpectation(pins, f.poLine)
  <2>1. CASE f.poLine = Null
    BY <2>1 DEF PinnedExpectation
  <2>2. CASE f.poLine # Null
    <3>1. PICK c : c = CHOOSE d \in pins : d.line = f.poLine
      OBVIOUS
    <3>2. c \in pins /\ c.line = f.poLine
      BY <2>2, <3>1 DEF Covered
    <3>3. ExpectationAt(f.poLine, c.generation)' = ExpectationAt(f.poLine, c.generation)
      BY <1>1, <3>2
    <3> QED
      BY <2>2, <3>1, <3>3 DEF PinnedExpectation
  <2> QED
    BY <2>1, <2>2
<1>3. \A f \in S : LineExceptions(f, PinnedExpectation(pins, f.poLine), Conflicting(f))'
                   = LineExceptions(f, PinnedExpectation(pins, f.poLine), Conflicting(f))
  BY <1>2
<1>4. \A c \in pins : AggregateKinds(S, c.line, ExpectationAt(c.line, c.generation))'
                      = AggregateKinds(S, c.line, ExpectationAt(c.line, c.generation))
  BY <1>1
<1> QED
  BY <1>3, <1>4 DEF Disagreements

LEMMA EvaluationKept ==
    ASSUME NEW T, NEW n, EvaluationSound(T, n), UNCHANGED receipt,
           Covered(FactsThen(T, n), T.evaluations[n].expectations),
           \A c \in T.comparators : Kept(c.line)
    PROVE  EvaluationSound(T, n)' /\ FactsThen(T, n)' = FactsThen(T, n)
<1>1. LineId' = LineId /\ \A C, l, g : FactsAt(C, l, g)' = FactsAt(C, l, g)
  BY DEF LineId, FactsAt
<1>2. FactsThen(T, n)' = FactsThen(T, n)
  BY <1>1 DEF FactsThen
<1>3. PopulationSound(T, n)'
  BY <1>1 DEF EvaluationSound, PopulationSound
<1>4. \A c \in T.evaluations[n].expectations : Kept(c.line)
  BY DEF EvaluationSound, PopulationSound, Pins
<1>5. DisagreementsThen(T, n) = Disagreements(FactsThen(T, n), T.evaluations[n].expectations)
  BY DEF DisagreementsThen, FactsThen
<1>7. PICK S : S = FactsThen(T, n)
  OBVIOUS
<1>8. PICK pins : pins = T.evaluations[n].expectations
  OBVIOUS
<1>9. Disagreements(S, pins)' = Disagreements(S, pins)
  BY <1>4, <1>7, <1>8, DisagreementsKept
<1>10. DisagreementsThen(T, n)' = DisagreementsThen(T, n)
  BY <1>2, <1>7, <1>8, <1>9, <1>5 DEF DisagreementsThen, FactsThen
<1>11. SupportSound(T, n)'
  BY <1>10 DEF EvaluationSound, SupportSound
<1>12. ConsequencesSound(T, n)'
  BY DEF EvaluationSound, ConsequencesSound
<1> QED
  BY <1>2, <1>3, <1>11, <1>12 DEF EvaluationSound

LEMMA TablesKept ==
    ASSUME NEW T, TableInv(T), UNCHANGED receipt, \A c \in T.comparators : Kept(c.line)
    PROVE  TableInv(T)'
<1>1. LineId' = LineId /\ \A C, l, g : FactsAt(C, l, g)' = FactsAt(C, l, g)
  BY DEF LineId, FactsAt
<1>2. Population(T.corrections)' = Population(T.corrections)
  BY <1>1 DEF Population, EffectiveReceiptLine
<1>3. Shape(T)'
  BY <1>1 DEF TableInv, Shape
<1>4. Pinning(T)'
  BY DEF TableInv, Pinning, Kept, Generation
<1>5. Counted(T)'
  BY <1>1 DEF TableInv, Counted, LineCoherent
<1>6. Evaluated(T)'
  <2>1. Covered(Population(T.corrections), Pins(Own(T.comparators)))'
    BY <1>2 DEF TableInv, Evaluated, Covered
  <2>2. ASSUME NEW n \in 1..Len(T.evaluations)
        PROVE  EvaluationSound(T, n)' /\ Covered(FactsThen(T, n), T.evaluations[n].expectations)'
    <3>1. EvaluationSound(T, n) /\ Covered(FactsThen(T, n), T.evaluations[n].expectations)
      BY DEF TableInv, Evaluated
    <3>2. EvaluationSound(T, n)' /\ FactsThen(T, n)' = FactsThen(T, n)
      BY <3>1, EvaluationKept
    <3> QED
      BY <3>1, <3>2 DEF Covered
  <2> QED
    BY <2>1, <2>2 DEF Evaluated
<1>7. Worked(T)'
  BY DEF TableInv, Worked
<1>8. Exact(T)'
  <2>1. PICK S : S = Population(T.corrections)
    OBVIOUS
  <2>2. PICK pins : pins = Pins(Own(T.comparators))
    OBVIOUS
  <2>3. Covered(S, pins) /\ \A c \in pins : Kept(c.line)
    BY <2>1, <2>2 DEF TableInv, Evaluated, Pins, Own
  <2>4. Disagreements(S, pins)' = Disagreements(S, pins)
    BY <2>3, DisagreementsKept
  <2> QED
    BY <1>2, <2>1, <2>2, <2>4 DEF TableInv, Exact
<1>9. Settled(T)'
  BY DEF TableInv, Settled
<1> QED
  BY <1>3, <1>4, <1>5, <1>6, <1>7, <1>8, <1>9 DEF TableInv

LEMMA Counting ==
    ASSUME NEW T, Shape(T)
    PROVE  /\ T.evaluations \in Seq(EvaluationRow) /\ Len(T.evaluations) \in Nat
           /\ DOMAIN T.evaluations = 1..Len(T.evaluations)
           /\ Len(T.observations) \in Nat /\ DOMAIN T.observations = 1..Len(T.observations)
           /\ \A l \in LineId : T.corrections[l] \in Seq(LinePair) /\ Len(T.corrections[l]) \in Nat
           /\ \A o \in DOMAIN T.observations :
                 T.events[o] \in Seq(EventRow) /\ T.workflow[o] \in WorkflowRow
           /\ \A n \in 1..Len(T.evaluations) :
                 T.evaluations[n] \in EvaluationRow /\ T.evaluations[n].links \in Seq(LinkRow)
<1>1. T.evaluations \in Seq(EvaluationRow) /\ T.observations \in Seq(Range(T.observations))
  BY DEF Shape
<1>2. Len(T.evaluations) \in Nat /\ DOMAIN T.evaluations = 1..Len(T.evaluations)
      /\ \A n \in 1..Len(T.evaluations) : T.evaluations[n] \in EvaluationRow
  BY <1>1
<1>3. Len(T.observations) \in Nat /\ DOMAIN T.observations = 1..Len(T.observations)
  BY <1>1
<1>4. \A x \in EvaluationRow : x.links \in Seq(LinkRow)
  BY DEF EvaluationRow
<1>5. \A l \in LineId : T.corrections[l] \in Seq(LinePair)
  BY DEF Shape
<1>6. \A l \in LineId : Len(T.corrections[l]) \in Nat
  BY <1>5
<1>7. \A o \in DOMAIN T.observations : T.events[o] \in Seq(EventRow) /\ T.workflow[o] \in WorkflowRow
  BY DEF Shape
<1> QED
  BY <1>1, <1>2, <1>3, <1>4, <1>5, <1>6, <1>7

-----------------------------------------------------------------------------
(***************************************************************************)
(* Tables that only grow keep every evaluation that they already have.     *)
(***************************************************************************)
Grown(T, U) ==
    /\ \A l \in LineId : \A g \in 1..Len(T.corrections[l]) : U.corrections[l][g] = T.corrections[l][g]
    /\ \A c : c \in T.comparators => c \in U.comparators
    /\ \A c \in U.comparators : c \in T.comparators \/ c.introduced = Len(T.evaluations) + 1
    /\ \A o \in DOMAIN T.observations : o \in DOMAIN U.observations
    /\ \A o \in DOMAIN U.observations :
          \/ o \in DOMAIN T.observations /\ U.observations[o] = T.observations[o]
          \/ o \notin DOMAIN T.observations /\ U.observations[o].origin = Len(T.evaluations) + 1
    /\ \A n \in 1..Len(T.evaluations) : U.evaluations[n] = T.evaluations[n]
    /\ \A o \in DOMAIN T.observations :
          /\ U.events[o] \in Seq(EventRow) /\ Len(T.events[o]) <= Len(U.events[o])
          /\ \A s \in 1..Len(T.events[o]) : U.events[o][s] = T.events[o][s]
          /\ \A s \in 1..Len(U.events[o]) :
                s \in 1..Len(T.events[o]) \/ U.events[o][s].cause \notin 1..Len(T.evaluations)

\* A line has been corrected at least as often as an evaluation says.
LEMMA PinsWithin ==
    ASSUME NEW T, Shape(T), Counted(T), NEW n \in 1..Len(T.evaluations), PopulationSound(T, n),
           NEW l \in LineId
    PROVE  T.evaluations[n].pins[l] \in 0..Len(T.corrections[l])
<1>1. PICK N : N = Len(T.evaluations) /\ N \in Nat
  BY Counting
<1>2. PICK A : A = {m \in 1..n : T.evaluations[m].line = l}
  OBVIOUS
<1>3. PICK B : B = {m \in 1..N : T.evaluations[m].line = l}
  OBVIOUS
<1>4. IsFiniteSet(1..N) /\ B \subseteq 1..N /\ A \subseteq B
  <2>1. IsFiniteSet(1..N)
    BY <1>1, FS_Interval
  <2>2. 1..n \subseteq 1..N
    BY <1>1
  <2> QED
    BY <1>2, <1>3, <2>1, <2>2
<1>5. IsFiniteSet(B)
  BY <1>4, FS_Subset
<1>6. IsFiniteSet(A) /\ Cardinality(A) <= Cardinality(B)
  BY <1>4, <1>5, FS_Subset
<1>7. Cardinality(A) \in Nat /\ Cardinality(B) \in Nat
  BY <1>5, <1>6, FS_CardinalityType
<1>8. T.evaluations[n].pins[l] = Cardinality(A)
  BY <1>2 DEF PopulationSound, CausedBy
<1>9. Len(T.corrections[l]) = Cardinality(B)
  BY <1>1, <1>3 DEF Counted, CausedBy
<1> QED
  BY <1>6, <1>7, <1>8, <1>9

LEMMA FactsCarried ==
    ASSUME NEW T, NEW U, Shape(T), Counted(T), Grown(T, U), NEW n \in 1..Len(T.evaluations),
           PopulationSound(T, n)
    PROVE  FactsThen(U, n) = FactsThen(T, n) /\ DisagreementsThen(U, n) = DisagreementsThen(T, n)
<1>1. U.evaluations[n] = T.evaluations[n]
  BY DEF Grown
<1>2. ASSUME NEW l \in LineId
      PROVE  FactsAt(U.corrections, l, U.evaluations[n].pins[l])
             = FactsAt(T.corrections, l, T.evaluations[n].pins[l])
  <2>1. PICK g : g = T.evaluations[n].pins[l]
    OBVIOUS
  <2>2. g \in 0..Len(T.corrections[l]) /\ Len(T.corrections[l]) \in Nat
    BY <2>1, PinsWithin, Counting
  <2>3. g = 0 \/ U.corrections[l][g] = T.corrections[l][g]
    BY <2>2 DEF Grown
  <2> QED
    BY <1>1, <2>1, <2>3 DEF FactsAt
<1>3. FactsThen(U, n) = FactsThen(T, n)
  BY <1>2 DEF FactsThen
<1> QED
  BY <1>1, <1>3 DEF DisagreementsThen, FactsThen

LEMMA EvaluationCarried ==
    ASSUME NEW T, NEW U, Shape(T), Counted(T), Grown(T, U), NEW n \in 1..Len(T.evaluations),
           EvaluationSound(T, n)
    PROVE  EvaluationSound(U, n)
<1>1. PICK N : N = Len(T.evaluations) /\ N \in Nat /\ n \in 1..N
  BY Counting
<1>2. \A m \in 1..n : U.evaluations[m] = T.evaluations[m]
  BY <1>1 DEF Grown
<1>3. n \in 1..n
  BY <1>1
<1>4. PopulationSound(T, n) /\ SupportSound(T, n) /\ ConsequencesSound(T, n)
  BY DEF EvaluationSound
<1>5. PopulationSound(U, n)
  <2>1. \A l : CausedBy(U, l, n) = CausedBy(T, l, n)
    BY <1>2 DEF CausedBy
  <2>2. {c \in U.comparators : c.receipt = Receipt /\ c.introduced <= n}
        = {c \in T.comparators : c.receipt = Receipt /\ c.introduced <= n}
    BY <1>1 DEF Grown
  <2>3. {o \in DOMAIN U.observations : U.observations[o].origin <= n}
        = {o \in DOMAIN T.observations : T.observations[o].origin <= n}
    BY <1>1 DEF Grown
  <2> QED
    BY <1>2, <1>3, <1>4, <2>1, <2>2, <2>3 DEF PopulationSound
<1>6. \A o \in DOMAIN T.evaluations[n].links :
         o \in DOMAIN T.observations /\ U.observations[o] = T.observations[o]
  <2>1. DOMAIN T.evaluations[n].links = {o \in DOMAIN T.observations : T.observations[o].origin <= n}
    BY <1>4 DEF PopulationSound
  <2> QED
    BY <2>1 DEF Grown
<1>7. SupportSound(U, n)
  <2>1. DisagreementsThen(U, n) = DisagreementsThen(T, n)
    BY <1>4, FactsCarried
  <2>2. \A m \in 1..(n - 1) : U.evaluations[m] = T.evaluations[m]
    BY <1>1, <1>2
  <2>3. \A o : SupersededBefore(U, o, n) <=> SupersededBefore(T, o, n)
    BY <2>2 DEF SupersededBefore
  <2>4. PICK links : links = T.evaluations[n].links /\ links = U.evaluations[n].links
    BY <1>2, <1>3
  <2>5. \A o \in DOMAIN links : U.observations[o].key = T.observations[o].key
    BY <1>6, <2>4
  <2>6. \A d : {o \in DOMAIN links : links[o].supported /\ U.observations[o].key = d}
               = {o \in DOMAIN links : links[o].supported /\ T.observations[o].key = d}
    BY <2>5
  <2> QED
    BY <1>4, <2>1, <2>3, <2>4, <2>5, <2>6 DEF SupportSound
<1>8. ConsequencesSound(U, n)
  <2> SUFFICES ASSUME NEW o \in DOMAIN T.evaluations[n].links, NEW x, x = T.evaluations[n].links[o]
               PROVE  /\ x.prior <= Len(U.events[o])
                      /\ {s \in DOMAIN U.events[o] : U.events[o][s].cause = n}
                         = IF ~ x.supported /\ StatusAfter(U, o, x.prior) \in Edges!Unresolved
                           THEN {x.prior + 1} ELSE {}
    BY <1>2, <1>3 DEF ConsequencesSound
  <2>1. /\ x.prior <= Len(T.events[o])
        /\ {s \in DOMAIN T.events[o] : T.events[o][s].cause = n}
           = IF ~ x.supported /\ StatusAfter(T, o, x.prior) \in Edges!Unresolved
             THEN {x.prior + 1} ELSE {}
    BY <1>4 DEF ConsequencesSound
  <2>2. o \in DOMAIN T.observations
    BY <1>6
  <2>3. x.prior \in Nat
    <3>1. T.evaluations[n].links \in Seq(LinkRow)
      BY Counting
    <3>2. x \in LinkRow
      BY <3>1
    <3> QED
      BY <3>2 DEF LinkRow
  <2>4. T.events[o] \in Seq(EventRow) /\ U.events[o] \in Seq(EventRow)
    BY <2>2 DEF Shape, Grown
  <2>5. DOMAIN T.events[o] = 1..Len(T.events[o]) /\ DOMAIN U.events[o] = 1..Len(U.events[o])
        /\ Len(T.events[o]) \in Nat /\ Len(U.events[o]) \in Nat
    BY <2>4
  <2>6. /\ Len(T.events[o]) <= Len(U.events[o])
        /\ \A s \in 1..Len(T.events[o]) : U.events[o][s] = T.events[o][s]
        /\ \A s \in 1..Len(U.events[o]) : s \in 1..Len(T.events[o]) \/ U.events[o][s].cause # n
    BY <1>1, <2>2 DEF Grown
  <2>7. {s \in DOMAIN U.events[o] : U.events[o][s].cause = n}
        = {s \in DOMAIN T.events[o] : T.events[o][s].cause = n}
    BY <2>5, <2>6
  <2>8. StatusAfter(U, o, x.prior) = StatusAfter(T, o, x.prior)
    <3>1. x.prior = 0 \/ x.prior \in 1..Len(T.events[o])
      BY <2>1, <2>3, <2>5
    <3> QED
      BY <3>1, <2>6 DEF StatusAfter
  <2> QED
    BY <2>1, <2>3, <2>5, <2>6, <2>7, <2>8
<1> QED
  BY <1>5, <1>7, <1>8 DEF EvaluationSound

-----------------------------------------------------------------------------
(***************************************************************************)
(* A receipt has finitely many disagreements.                              *)
(***************************************************************************)
LEMMA KindsFinite ==
    /\ \A l, e, c : IsFiniteSet(LineKinds(l, e, c))
    /\ \A S, p, e : IsFiniteSet(AggregateKinds(S, p, e))
<1>1. \A x : IsFiniteSet({x})
  BY FS_Singleton
<1>2. IsFiniteSet({})
  BY FS_EmptySet
<1>3. \A A, B : IsFiniteSet(A) /\ IsFiniteSet(B) => IsFiniteSet(A \cup B)
  BY FS_Union
<1>4. \A x, B : IsFiniteSet({x} \cap B)
  BY <1>1, FS_Subset
<1>5. ASSUME NEW l, NEW e, NEW c PROVE IsFiniteSet(LineKinds(l, e, c))
  <2>1. PICK A : A = IF l.poLine = Null THEN {"UNEXPECTED_ITEM"}
                     ELSE (IF l.item # e.item THEN {"SUBSTITUTION"} ELSE {})
                          \cup (IF l.uom # e.uom THEN {"UOM_MISMATCH"} ELSE {})
    OBVIOUS
  <2>2. IsFiniteSet(A)
    BY <1>1, <1>2, <1>3, <2>1
  <2>3. PICK B : B = {l.condition} \cap {"DAMAGED", "OPENED"} /\ IsFiniteSet(B)
    BY <1>4
  <2>4. PICK C : C = (IF l.packing \notin {Null, l.quantity} THEN {"QUANTITY_VARIANCE"} ELSE {})
                 /\ IsFiniteSet(C)
    BY <1>1, <1>2
  <2>5. PICK D : D = (IF l.asset # Null /\ l.serial = Unreadable THEN {"SERIAL_UNREADABLE"} ELSE {})
                 /\ IsFiniteSet(D)
    BY <1>1, <1>2
  <2>6. PICK E : E = (IF c # Null THEN {"SERIAL_MISMATCH"} ELSE {}) /\ IsFiniteSet(E)
    BY <1>1, <1>2
  <2>7. LineKinds(l, e, c) = A \cup B \cup C \cup D \cup E
    BY <2>1, <2>3, <2>4, <2>5, <2>6 DEF LineKinds
  <2>8. IsFiniteSet(A \cup B)
    BY <2>2, <2>3, <1>3
  <2>9. IsFiniteSet(A \cup B \cup C)
    BY <2>8, <2>4, <1>3
  <2>10. IsFiniteSet(A \cup B \cup C \cup D)
    BY <2>9, <2>5, <1>3
  <2> QED
    BY <2>7, <2>10, <2>6, <1>3
<1>6. ASSUME NEW S, NEW p, NEW e PROVE IsFiniteSet(AggregateKinds(S, p, e))
  BY <1>1, <1>2 DEF AggregateKinds
<1> QED
  BY <1>5, <1>6

LEMMA DisagreementsFinite ==
    ASSUME NEW S, IsFiniteSet(S), NEW pins, IsFiniteSet(pins)
    PROVE  IsFiniteSet(Disagreements(S, pins))
<1>1. PICK f : f = [l \in S |-> LineExceptions(l, PinnedExpectation(pins, l.poLine), Conflicting(l))]
  OBVIOUS
<1>2. PICK g : g = [c \in pins |-> {Aggregate(Receipt, c.line, k) :
                        k \in AggregateKinds(S, c.line, ExpectationAt(c.line, c.generation))}]
  OBVIOUS
<1>3. PICK A : A = {f[l] : l \in S}
  OBVIOUS
<1>4. PICK B : B = {g[c] : c \in pins}
  OBVIOUS
<1>5. IsFiniteSet(A) /\ IsFiniteSet(B)
  <2>1. DOMAIN f = S /\ DOMAIN g = pins
    BY <1>1, <1>2
  <2>2. IsFiniteSet(A)
    BY <1>3, <2>1, ImageFinite
  <2>3. IsFiniteSet(B)
    BY <1>4, <2>1, ImageFinite
  <2> QED
    BY <2>2, <2>3
<1>6. ASSUME NEW l \in S PROVE IsFiniteSet(f[l])
  <2>1. PICK e : e = PinnedExpectation(pins, l.poLine)
    OBVIOUS
  <2>2. PICK d : d = Conflicting(l)
    OBVIOUS
  <2>3. PICK h : h = [k \in LineKinds(l, e, d) |-> LineException(l, k, d)]
    OBVIOUS
  <2>4. PICK K : K = LineKinds(l, e, d) /\ IsFiniteSet(K)
    BY KindsFinite
  <2>5. f[l] = {h[k] : k \in K}
    BY <1>1, <2>1, <2>2, <2>3, <2>4 DEF LineExceptions
  <2>6. DOMAIN h = K
    BY <2>3, <2>4
  <2> QED
    BY <2>4, <2>5, <2>6, ImageFinite
<1>7. ASSUME NEW c \in pins PROVE IsFiniteSet(g[c])
  <2>1. PICK K : K = AggregateKinds(S, c.line, ExpectationAt(c.line, c.generation)) /\ IsFiniteSet(K)
    BY KindsFinite
  <2>2. PICK h : h = [k \in K |-> Aggregate(Receipt, c.line, k)]
    OBVIOUS
  <2>3. g[c] = {h[k] : k \in K} /\ DOMAIN h = K
    BY <1>2, <2>1, <2>2
  <2> QED
    BY <2>1, <2>3, ImageFinite
<1>8. IsFiniteSet(UNION A) /\ IsFiniteSet(UNION B)
  BY <1>3, <1>4, <1>5, <1>6, <1>7, FS_UNION
<1>9. Disagreements(S, pins) = (UNION A) \cup (UNION B)
  BY <1>1, <1>2, <1>3, <1>4 DEF Disagreements
<1> QED
  BY <1>8, <1>9, FS_Union

-----------------------------------------------------------------------------
(***************************************************************************)
(* What _evaluate does to the tables T: U is T with one pair, one          *)
(* evaluation and F observations more, D is what the receipt disagrees     *)
(* with now and sup are the observations that stay supported.  T has N     *)
(* evaluations and K observations.                                         *)
(***************************************************************************)
AppendsPair(T, U, p) ==
    /\ U.corrections \in [LineId -> Seq(LinePair)]
    /\ U.corrections[p.line] = Append(T.corrections[p.line], p.pair)
    /\ \A l \in LineId : l # p.line => U.corrections[l] = T.corrections[l]
    /\ U.comparators = T.comparators \cup p.bound

AppendsObservations(T, U, D, sup, N, K, F) ==
    /\ U.observations \in Seq(Range(U.observations)) /\ Len(U.observations) = K + F
    /\ \A o \in 1..K : U.observations[o] = T.observations[o]
    /\ \A o \in (K + 1)..(K + F) :
          /\ U.observations[o].origin = N + 1 /\ U.observations[o].key \in D
          /\ \A q \in sup : T.observations[q].key # U.observations[o].key
    /\ \A d \in D : \/ \E o \in sup : T.observations[o].key = d
                    \/ \E o \in (K + 1)..(K + F) : U.observations[o].key = d
    /\ \A o, q \in (K + 1)..(K + F) : U.observations[o].key = U.observations[q].key => o = q

Closes(T, sup, K, o) == o \in 1..K /\ o \notin sup /\ T.workflow[o].status \in Edges!Unresolved

MovesWorkflows(T, U, sup, N, K, F) ==
    /\ U.workflow \in [1..(K + F) -> WorkflowRow] /\ U.events \in [1..(K + F) -> Seq(EventRow)]
    /\ \A o \in 1..K : Closes(T, sup, K, o) =>
          /\ U.workflow[o] = [status |-> "RESOLVED", seq |-> T.workflow[o].seq + 1]
          /\ U.events[o] = Append(T.events[o], [from |-> T.workflow[o].status, to |-> "RESOLVED",
                                                cause |-> N + 1])
    /\ \A o \in 1..K : ~ Closes(T, sup, K, o) =>
          U.workflow[o] = T.workflow[o] /\ U.events[o] = T.events[o]
    /\ \A o \in (K + 1)..(K + F) :
          U.workflow[o] = [status |-> "OPEN", seq |-> 0] /\ U.events[o] = <<>>

AppendsEvaluation(T, U, p, sup, N, K, F) ==
    /\ U.evaluations \in Seq(EvaluationRow) /\ Len(U.evaluations) = N + 1
    /\ \A n \in 1..N : U.evaluations[n] = T.evaluations[n]
    /\ U.evaluations[N + 1].line = p.line
    /\ \A l \in LineId : U.evaluations[N + 1].pins[l] = Len(U.corrections[l])
    /\ U.evaluations[N + 1].expectations = Pins(Own(U.comparators))
    /\ DOMAIN U.evaluations[N + 1].links = 1..(K + F)
    /\ \A o \in 1..(K + F) : U.evaluations[N + 1].links[o].supported <=> o \in sup \/ o \notin 1..K
    /\ \A o \in 1..K : U.evaluations[N + 1].links[o].prior = T.workflow[o].seq
    /\ \A o \in (K + 1)..(K + F) : U.evaluations[N + 1].links[o].prior = 0

Renews(T, U, p, D, sup, N, K, F) ==
    /\ N = Len(T.evaluations) /\ K = Len(T.observations) /\ F \in Nat
    /\ p \in CorrectionPlan /\ D = Disagreements(Population(U.corrections), Pins(Own(U.comparators)))
    /\ sup = {o \in LiveIn(T) : T.observations[o].key \in D}
    /\ AppendsPair(T, U, p) /\ AppendsObservations(T, U, D, sup, N, K, F)
    /\ MovesWorkflows(T, U, sup, N, K, F) /\ AppendsEvaluation(T, U, p, sup, N, K, F)

\* What a sound plan promises about the tables T.
Planned(T, p) ==
    /\ p.line \in LineId
    /\ p.pair.reversal = FactsAt(T.corrections, p.line, Len(T.corrections[p.line]))
    /\ IsFiniteSet(p.bound)
    /\ \A c \in p.bound : /\ c.line \in Present /\ c.generation = Generation(c.line)
                          /\ c.introduced = Len(T.evaluations) + 1
    /\ p.pair.corrected.poLine # Null =>
           \E c \in T.comparators \cup p.bound : c.line = p.pair.corrected.poLine

LEMMA Sizes ==
    ASSUME NEW T, NEW U, NEW p, NEW D, NEW sup, NEW N, NEW K, NEW F, Shape(T),
           Renews(T, U, p, D, sup, N, K, F)
    PROVE  /\ N \in Nat /\ K \in Nat /\ F \in Nat /\ N + 1 \in Nat /\ K + F \in Nat
           /\ N = Len(T.evaluations) /\ K = Len(T.observations)
           /\ Len(U.evaluations) = N + 1 /\ DOMAIN U.evaluations = 1..(N + 1)
           /\ DOMAIN T.observations = 1..K /\ DOMAIN U.observations = 1..(K + F)
           /\ sup \subseteq 1..K
           /\ \A o : o \in 1..(K + F) <=> o \in 1..K \/ o \in (K + 1)..(K + F)
           /\ \A o \in (K + 1)..(K + F) : o \notin 1..K
           /\ \A n : n \in 1..(N + 1) <=> n \in 1..N \/ n = N + 1
<1>1. N \in Nat /\ K \in Nat /\ F \in Nat /\ N = Len(T.evaluations) /\ K = Len(T.observations)
  BY Counting DEF Renews
<1>2. DOMAIN T.observations = 1..K
  BY <1>1, Counting
<1>3. U.evaluations \in Seq(EvaluationRow) /\ Len(U.evaluations) = N + 1
  BY DEF Renews, AppendsEvaluation
<1>4. U.observations \in Seq(Range(U.observations)) /\ Len(U.observations) = K + F
  BY DEF Renews, AppendsObservations
<1>5. DOMAIN U.evaluations = 1..(N + 1) /\ DOMAIN U.observations = 1..(K + F)
  BY <1>3, <1>4
<1>6. sup \subseteq 1..K
  BY <1>2 DEF Renews, LiveIn
<1>7. \A o : o \in 1..(K + F) <=> o \in 1..K \/ o \in (K + 1)..(K + F)
  BY <1>1
<1>8. \A o \in (K + 1)..(K + F) : o \notin 1..K
  BY <1>1
<1>9. \A n : n \in 1..(N + 1) <=> n \in 1..N \/ n = N + 1
  BY <1>1
<1> QED
  BY <1>1, <1>2, <1>3, <1>5, <1>6, <1>7, <1>8, <1>9

LEMMA Pairs ==
    ASSUME NEW T, NEW U, NEW p \in CorrectionPlan, Shape(T), p.line \in LineId, AppendsPair(T, U, p)
    PROVE  /\ Len(U.corrections[p.line]) = Len(T.corrections[p.line]) + 1
           /\ U.corrections[p.line][Len(T.corrections[p.line]) + 1] = p.pair
           /\ \A l \in LineId : \A g \in 1..Len(T.corrections[l]) :
                 U.corrections[l][g] = T.corrections[l][g]
           /\ p.pair \in LinePair
<1>1. p.pair \in LinePair
  BY DEF CorrectionPlan
<1>2. PICK s : s = T.corrections[p.line] /\ s \in Seq(LinePair)
  BY Counting
<1>3. PICK v : v = Append(s, p.pair)
  OBVIOUS
<1>4. Len(v) = Len(s) + 1 /\ v[Len(s) + 1] = p.pair /\ \A g \in 1..Len(s) : v[g] = s[g]
  BY <1>1, <1>2, <1>3
<1>5. U.corrections[p.line] = v
  BY <1>2, <1>3 DEF AppendsPair
<1> QED
  BY <1>1, <1>2, <1>4, <1>5 DEF AppendsPair

\* How the workflow of an observation moves.
LEMMA Moves ==
    ASSUME NEW T, NEW U, NEW p, NEW D, NEW sup, NEW N, NEW K, NEW F, Shape(T),
           Renews(T, U, p, D, sup, N, K, F), NEW o \in 1..K
    PROVE  /\ T.events[o] \in Seq(EventRow) /\ U.events[o] \in Seq(EventRow)
           /\ Len(T.events[o]) \in Nat
           /\ \A s \in 1..Len(T.events[o]) : U.events[o][s] = T.events[o][s]
           /\ ~ Closes(T, sup, K, o) => U.workflow[o] = T.workflow[o] /\ U.events[o] = T.events[o]
           /\ Closes(T, sup, K, o) =>
                 /\ U.workflow[o].status = "RESOLVED" /\ U.workflow[o].seq = T.workflow[o].seq + 1
                 /\ Len(U.events[o]) = Len(T.events[o]) + 1
                 /\ U.events[o][Len(T.events[o]) + 1].from = T.workflow[o].status
                 /\ U.events[o][Len(T.events[o]) + 1].to = "RESOLVED"
                 /\ U.events[o][Len(T.events[o]) + 1].cause = N + 1
<1>1. K \in Nat /\ F \in Nat /\ N + 1 \in Nat /\ o \in 1..(K + F) /\ o \in DOMAIN T.observations
  BY Sizes
<1>2. T.events[o] \in Seq(EventRow) /\ T.workflow[o] \in WorkflowRow
  BY <1>1, Counting
<1>3. MovesWorkflows(T, U, sup, N, K, F)
  BY DEF Renews
<1>4. U.events[o] \in Seq(EventRow)
  BY <1>1, <1>3 DEF MovesWorkflows
<1>5. ~ Closes(T, sup, K, o) => U.workflow[o] = T.workflow[o] /\ U.events[o] = T.events[o]
  BY <1>3 DEF MovesWorkflows
<1>6. Len(T.events[o]) \in Nat
  BY <1>2
<1>7. CASE Closes(T, sup, K, o)
  <2>1. PICK w : w = [status |-> "RESOLVED", seq |-> T.workflow[o].seq + 1]
    OBVIOUS
  <2>2. PICK e : e = [from |-> T.workflow[o].status, to |-> "RESOLVED", cause |-> N + 1]
    OBVIOUS
  <2>3. U.workflow[o] = w /\ U.events[o] = Append(T.events[o], e)
    BY <1>3, <1>7, <2>1, <2>2 DEF MovesWorkflows
  <2>4. w.status = "RESOLVED" /\ w.seq = T.workflow[o].seq + 1
    BY <2>1
  <2>5. e.from = T.workflow[o].status /\ e.to = "RESOLVED" /\ e.cause = N + 1
    BY <2>2
  <2>6. PICK s, v : s = T.events[o] /\ v = Append(s, e)
    OBVIOUS
  <2>7. Len(v) = Len(s) + 1 /\ v[Len(s) + 1] = e /\ \A i \in 1..Len(s) : v[i] = s[i]
    BY <1>2, <2>6
  <2> QED
    BY <1>2, <1>4, <1>6, <1>7, <2>3, <2>4, <2>5, <2>6, <2>7
<1> QED
  BY <1>2, <1>4, <1>5, <1>6, <1>7

LEMMA RenewedGrows ==
    ASSUME NEW T, NEW U, NEW p, NEW D, NEW sup, NEW N, NEW K, NEW F, Shape(T), Planned(T, p),
           Renews(T, U, p, D, sup, N, K, F)
    PROVE  Grown(T, U)
<1>1. p \in CorrectionPlan /\ p.line \in LineId /\ AppendsPair(T, U, p)
  BY DEF Renews, Planned
<1>2. \A l \in LineId : \A g \in 1..Len(T.corrections[l]) : U.corrections[l][g] = T.corrections[l][g]
  BY <1>1, Pairs
<1>3. /\ \A c : c \in T.comparators => c \in U.comparators
      /\ \A c \in U.comparators : c \in T.comparators \/ c.introduced = Len(T.evaluations) + 1
  BY <1>1 DEF AppendsPair, Planned
<1>4. PICK DT : DT = DOMAIN T.observations
  OBVIOUS
<1>5. PICK DU : DU = DOMAIN U.observations
  OBVIOUS
<1>6. /\ DT = 1..K /\ DU = 1..(K + F) /\ N = Len(T.evaluations) /\ N \in Nat
      /\ \A o : o \in DU <=> o \in DT \/ o \in (K + 1)..(K + F)
      /\ \A o \in (K + 1)..(K + F) : o \notin DT
  BY <1>4, <1>5, Sizes
<1>7. /\ \A o \in 1..K : U.observations[o] = T.observations[o]
      /\ \A o \in (K + 1)..(K + F) : U.observations[o].origin = N + 1
  BY DEF Renews, AppendsObservations
<1>8. \A o \in DU : \/ o \in DT /\ U.observations[o] = T.observations[o]
                    \/ o \notin DT /\ U.observations[o].origin = Len(T.evaluations) + 1
  BY <1>6, <1>7
<1>9. \A n \in 1..N : U.evaluations[n] = T.evaluations[n]
  BY DEF Renews, AppendsEvaluation
<1>10. ASSUME NEW o \in 1..K
       PROVE  /\ U.events[o] \in Seq(EventRow) /\ Len(T.events[o]) <= Len(U.events[o])
              /\ \A s \in 1..Len(T.events[o]) : U.events[o][s] = T.events[o][s]
              /\ \A s \in 1..Len(U.events[o]) :
                    s \in 1..Len(T.events[o]) \/ U.events[o][s].cause \notin 1..N
  <2>1. PICK m : m = Len(T.events[o]) /\ m \in Nat /\ U.events[o] \in Seq(EventRow)
    BY Moves
  <2>2. \A s \in 1..m : U.events[o][s] = T.events[o][s]
    BY <2>1, Moves
  <2>3. CASE Closes(T, sup, K, o)
    <3>1. Len(U.events[o]) = m + 1 /\ U.events[o][m + 1].cause = N + 1
      BY <2>1, <2>3, Moves
    <3>2. \A s \in 1..(m + 1) : s \in 1..m \/ s = m + 1
      BY <2>1
    <3>3. N + 1 \notin 1..N /\ m <= m + 1
      BY <1>6, <2>1
    <3> QED
      BY <2>1, <2>2, <3>1, <3>2, <3>3
  <2>4. CASE ~ Closes(T, sup, K, o)
    <3>1. U.events[o] = T.events[o]
      BY <2>4, Moves
    <3> QED
      BY <2>1, <2>2, <3>1
  <2> QED
    BY <2>3, <2>4
<1> QED
  BY <1>2, <1>3, <1>4, <1>5, <1>6, <1>8, <1>9, <1>10 DEF Grown

LEMMA RenewedShape ==
    ASSUME NEW T, NEW U, NEW p, NEW D, NEW sup, NEW N, NEW K, NEW F, Shape(T), Pinning(T),
           Planned(T, p), Renews(T, U, p, D, sup, N, K, F)
    PROVE  Shape(U) /\ Pinning(U)
<1>1. p \in CorrectionPlan /\ AppendsPair(T, U, p)
  BY DEF Renews
<1>2. /\ U.corrections \in [LineId -> Seq(LinePair)] /\ U.comparators = T.comparators \cup p.bound
  BY <1>1 DEF AppendsPair
<1>3. p.bound \subseteq Comparator /\ IsFiniteSet(p.bound)
  BY <1>1 DEF CorrectionPlan, Planned
<1>4. T.comparators \subseteq Comparator /\ IsFiniteSet(T.comparators)
  BY DEF Shape
<1>5. U.comparators \subseteq Comparator
  BY <1>2, <1>3, <1>4
<1>6. IsFiniteSet(U.comparators)
  BY <1>2, <1>3, <1>4, FS_Union
<1>7. U.observations \in Seq(Range(U.observations)) /\ U.evaluations \in Seq(EvaluationRow)
  BY DEF Renews, AppendsObservations, AppendsEvaluation
<1>8. U.workflow \in [1..(K + F) -> WorkflowRow] /\ U.events \in [1..(K + F) -> Seq(EventRow)]
  BY DEF Renews, MovesWorkflows
<1>9. DOMAIN U.observations = 1..(K + F) /\ N \in Nat /\ N = Len(T.evaluations) /\ Len(U.evaluations) = N + 1
  BY Sizes
<1>10. Shape(U)
  BY <1>2, <1>5, <1>6, <1>7, <1>8, <1>9 DEF Shape
<1>11. \A c \in Comparator : c.introduced \in Nat
  BY DEF Comparator
<1>12. Pinning(U)
  <2> SUFFICES ASSUME NEW c \in U.comparators
               PROVE  c.line \in Present /\ c.generation = Generation(c.line) /\ c.introduced <= N + 1
    BY <1>9 DEF Pinning
  <2>1. c.introduced \in Nat
    BY <1>5, <1>11
  <2> QED
    BY <1>2, <1>9, <2>1 DEF Planned, Pinning
<1> QED
  BY <1>10, <1>12

LEMMA RenewedCounts ==
    ASSUME NEW T, NEW U, NEW p, NEW D, NEW sup, NEW N, NEW K, NEW F, Shape(T), Counted(T),
           Planned(T, p), Renews(T, U, p, D, sup, N, K, F)
    PROVE  Counted(U)
<1>1. p \in CorrectionPlan /\ p.line \in LineId /\ AppendsPair(T, U, p)
  BY DEF Renews, Planned
<1>2. /\ N \in Nat /\ N = Len(T.evaluations) /\ Len(U.evaluations) = N + 1
      /\ \A n : n \in 1..(N + 1) <=> n \in 1..N \/ n = N + 1
  BY Sizes
<1>3. U.evaluations[N + 1].line = p.line /\ \A n \in 1..N : U.evaluations[n] = T.evaluations[n]
  BY DEF Renews, AppendsEvaluation
<1>4. ASSUME NEW l \in LineId PROVE LineCoherent(U.corrections, l)
  <2>1. PICK s : s = T.corrections[l] /\ s \in Seq(LinePair)
    BY Counting
  <2>2. \A g \in 1..Len(s) : s[g].reversal = FactsAt(T.corrections, l, g - 1)
    BY <2>1 DEF Counted, LineCoherent
  <2>3. CASE l # p.line
    <3>1. U.corrections[l] = s
      BY <1>1, <2>1, <2>3 DEF AppendsPair
    <3> QED
      BY <2>1, <3>1 DEF Counted, LineCoherent, FactsAt
  <2>4. CASE l = p.line
    <3>1. PICK v : v = U.corrections[l] /\ v \in Seq(LinePair)
      BY <1>1 DEF AppendsPair
    <3>2. Len(v) = Len(s) + 1 /\ v[Len(s) + 1] = p.pair /\ \A g \in 1..Len(s) : v[g] = s[g]
      BY <1>1, <2>1, <2>4, <3>1, Pairs
    <3>3. \A g \in 0..Len(s) : FactsAt(U.corrections, l, g) = FactsAt(T.corrections, l, g)
      BY <2>1, <3>1, <3>2 DEF FactsAt
    <3>4. Len(s) \in Nat /\ DOMAIN v = 1..(Len(s) + 1)
      BY <2>1, <3>1, <3>2
    <3>5. ASSUME NEW g \in 1..(Len(s) + 1) PROVE v[g].reversal = FactsAt(U.corrections, l, g - 1)
      <4>1. g - 1 \in 0..Len(s)
        BY <3>4
      <4>2. CASE g \in 1..Len(s)
        BY <4>1, <4>2, <2>2, <3>2, <3>3
      <4>3. CASE g = Len(s) + 1
        <5>1. g - 1 = Len(s) /\ v[g] = p.pair
          BY <4>3, <3>2, <3>4
        <5>2. p.pair.reversal = FactsAt(T.corrections, l, Len(s))
          BY <2>1, <2>4 DEF Planned
        <5> QED
          BY <5>1, <5>2, <4>1, <3>3
      <4> QED
        BY <4>2, <4>3, <3>4
    <3> QED
      BY <3>1, <3>4, <3>5 DEF LineCoherent
  <2> QED
    BY <2>3, <2>4
<1>5. ASSUME NEW l \in LineId PROVE Len(U.corrections[l]) = CausedBy(U, l, N + 1)
  <2>1. PICK A : A = {m \in 1..N : T.evaluations[m].line = l}
    OBVIOUS
  <2>2. PICK B : B = {m \in 1..(N + 1) : U.evaluations[m].line = l}
    OBVIOUS
  <2>3. Len(T.corrections[l]) = Cardinality(A) /\ CausedBy(U, l, N + 1) = Cardinality(B)
    BY <1>2, <2>1, <2>2 DEF Counted, CausedBy
  <2>4. IsFiniteSet(A) /\ N + 1 \notin A
    <3>1. IsFiniteSet(1..N) /\ N + 1 \notin 1..N
      BY <1>2, FS_Interval
    <3> QED
      BY <2>1, <3>1, FS_Subset
  <2>5. CASE l # p.line
    <3>1. B = A
      BY <1>2, <1>3, <2>1, <2>2, <2>5
    <3> QED
      BY <3>1, <2>3, <2>5, <1>1 DEF AppendsPair
  <2>6. CASE l = p.line
    <3>1. B = A \cup {N + 1}
      BY <1>2, <1>3, <2>1, <2>2, <2>6
    <3>2. Cardinality(B) = Cardinality(A) + 1
      BY <3>1, <2>4, FS_AddElement
    <3> QED
      BY <3>2, <2>3, <2>6, <1>1, Pairs
  <2> QED
    BY <2>5, <2>6
<1> QED
  BY <1>2, <1>4, <1>5 DEF Counted

\* An observation is live when no evaluation at all has superseded it.
LEMMA LiveNeverSuperseded ==
    ASSUME NEW T, Shape(T), Evaluated(T), Worked(T), NEW o \in DOMAIN T.observations
    PROVE  o \in LiveIn(T) <=> ~ SupersededBefore(T, o, Len(T.evaluations) + 1)
<1>1. PICK N : N = Len(T.evaluations) /\ N \in Nat /\ T.evaluations \in Seq(EvaluationRow)
  BY Counting
<1>2. 1..((N + 1) - 1) = 1..N
  BY <1>1
<1>3. SupersededBefore(T, o, N + 1) <=>
          \E m \in 1..N : o \in DOMAIN T.evaluations[m].links /\ ~ T.evaluations[m].links[o].supported
  BY <1>2 DEF SupersededBefore
<1>4. CASE N = 0
  <2>1. T.evaluations = <<>>
    BY <1>1, <1>4, EmptySeq
  <2>2. 1..N = {}
    BY <1>4
  <2> QED
    BY <1>1, <1>3, <2>1, <2>2 DEF LiveIn
<1>5. CASE N # 0
  <2>1. T.evaluations # <<>> /\ N \in 1..N /\ \A m \in 1..N : m = N \/ m \in 1..(N - 1)
    BY <1>1, <1>5
  <2>2. o \in LiveIn(T) <=> T.evaluations[N].links[o].supported
    BY <1>1, <2>1 DEF LiveIn
  <2>3. EvaluationSound(T, N)
    BY <1>1, <2>1 DEF Evaluated
  <2>4. T.observations[o].origin <= N
    BY <1>1 DEF Worked
  <2>5. o \in DOMAIN T.evaluations[N].links
    BY <2>3, <2>4 DEF EvaluationSound, PopulationSound
  <2>6. T.evaluations[N].links[o].supported => ~ SupersededBefore(T, o, N)
    BY <2>3, <2>5 DEF EvaluationSound, SupportSound
  <2> QED
    BY <1>1, <1>3, <2>1, <2>2, <2>5, <2>6 DEF SupersededBefore
<1> QED
  BY <1>4, <1>5

LEMMA RenewedFacts ==
    ASSUME NEW T, NEW U, NEW p, NEW D, NEW sup, NEW N, NEW K, NEW F, TableInv(T),
           Planned(T, p), Renews(T, U, p, D, sup, N, K, F)
    PROVE  /\ Covered(Population(U.corrections), Pins(Own(U.comparators)))
           /\ FactsThen(U, N + 1) = Population(U.corrections)
           /\ DisagreementsThen(U, N + 1) = D
<1>1. Shape(T) /\ Evaluated(T)
  BY DEF TableInv
<1>2. p \in CorrectionPlan /\ p.line \in LineId /\ AppendsPair(T, U, p)
  BY DEF Renews, Planned
<1>3. ASSUME NEW l \in LineId, FactsAt(U.corrections, l, Len(U.corrections[l])).poLine # Null
      PROVE  \E c \in U.comparators : c.line = FactsAt(U.corrections, l, Len(U.corrections[l])).poLine
  <2>1. CASE l # p.line
    <3>1. PICK f : f = FactsAt(U.corrections, l, Len(U.corrections[l]))
      OBVIOUS
    <3>2. f = FactsAt(T.corrections, l, Len(T.corrections[l]))
      BY <1>2, <2>1, <3>1 DEF AppendsPair, FactsAt
    <3>3. f \in Population(T.corrections)
      BY <3>2 DEF Population, EffectiveReceiptLine
    <3>4. \E c \in Pins(Own(T.comparators)) : c.line = f.poLine
      BY <1>1, <1>3, <3>1, <3>3 DEF Evaluated, Covered
    <3>5. \E c \in T.comparators : c.line = f.poLine
      BY <3>4 DEF Pins, Own
    <3> QED
      BY <1>2, <3>1, <3>5 DEF AppendsPair
  <2>2. CASE l = p.line
    <3>1. PICK m : m = Len(T.corrections[l]) /\ m \in Nat
      BY <1>1, Counting
    <3>2. Len(U.corrections[l]) = m + 1 /\ U.corrections[l][m + 1] = p.pair /\ m + 1 # 0
      BY <1>1, <1>2, <2>2, <3>1, Pairs
    <3>3. FactsAt(U.corrections, l, Len(U.corrections[l])) = p.pair.corrected
      BY <3>2 DEF FactsAt
    <3> QED
      BY <1>2, <1>3, <3>3 DEF AppendsPair, Planned
  <2> QED
    BY <2>1, <2>2
<1>4. \A c \in U.comparators : c.receipt = Receipt
  <2>1. U.comparators \subseteq Comparator
    BY <1>1, RenewedShape DEF TableInv, Shape
  <2> QED
    BY <2>1 DEF Comparator
<1>5. \A c \in U.comparators : \E d \in Pins(Own(U.comparators)) : d.line = c.line
  <2> SUFFICES ASSUME NEW c \in U.comparators
               PROVE  \E d \in Pins(Own(U.comparators)) : d.line = c.line
    OBVIOUS
  <2>1. PICK d : d = [line |-> c.line, generation |-> c.generation]
    OBVIOUS
  <2>2. d \in Pins(Own(U.comparators)) /\ d.line = c.line
    BY <1>4, <2>1 DEF Pins, Own
  <2> QED
    BY <2>2
<1>6. Covered(Population(U.corrections), Pins(Own(U.comparators)))
  BY <1>3, <1>5 DEF Covered, Population, EffectiveReceiptLine
<1>7. /\ \A l \in LineId : U.evaluations[N + 1].pins[l] = Len(U.corrections[l])
      /\ U.evaluations[N + 1].expectations = Pins(Own(U.comparators))
  BY DEF Renews, AppendsEvaluation
<1>8. FactsThen(U, N + 1) = Population(U.corrections)
  BY <1>7 DEF FactsThen, Population, EffectiveReceiptLine
<1>9. DisagreementsThen(U, N + 1) = D
  BY <1>7, <1>8 DEF DisagreementsThen, FactsThen, Renews
<1> QED
  BY <1>6, <1>8, <1>9

LEMMA RenewedPopulation ==
    ASSUME NEW T, NEW U, NEW p, NEW D, NEW sup, NEW N, NEW K, NEW F, TableInv(T),
           Planned(T, p), Renews(T, U, p, D, sup, N, K, F)
    PROVE  PopulationSound(U, N + 1)
<1>1. Shape(T) /\ Pinning(T) /\ Counted(T) /\ Worked(T) /\ AppendsEvaluation(T, U, p, sup, N, K, F)
  BY DEF TableInv, Renews
<1>2. Shape(U) /\ Pinning(U) /\ Counted(U)
  BY <1>1, RenewedShape, RenewedCounts
<1>3. /\ N \in Nat /\ N = Len(T.evaluations) /\ Len(U.evaluations) = N + 1
      /\ DOMAIN T.observations = 1..K /\ DOMAIN U.observations = 1..(K + F)
      /\ \A o : o \in 1..(K + F) <=> o \in 1..K \/ o \in (K + 1)..(K + F)
  BY <1>1, Sizes
<1>4. \A l \in LineId : U.evaluations[N + 1].pins[l] = CausedBy(U, l, N + 1)
  BY <1>1, <1>2, <1>3 DEF AppendsEvaluation, Counted
<1>5. Own(U.comparators) = {c \in U.comparators : c.receipt = Receipt /\ c.introduced <= N + 1}
  BY <1>2, <1>3 DEF Own, Pinning
<1>6. \A o \in 1..(K + F) : U.observations[o].origin <= N + 1
  <2>1. \A o \in 1..K : U.observations[o] = T.observations[o] /\ T.observations[o].origin \in 0..N
    BY <1>1, <1>3 DEF Renews, AppendsObservations, Worked
  <2>2. \A o \in (K + 1)..(K + F) : U.observations[o].origin = N + 1
    BY DEF Renews, AppendsObservations
  <2>3. \A i \in 0..N : i <= N + 1
    BY <1>3
  <2>4. N + 1 <= N + 1
    BY <1>3
  <2> QED
    BY <1>3, <2>1, <2>2, <2>3, <2>4
<1>7. {o \in DOMAIN U.observations : U.observations[o].origin <= N + 1} = 1..(K + F)
  BY <1>3, <1>6
<1> QED
  BY <1>1, <1>4, <1>5, <1>7 DEF PopulationSound, AppendsEvaluation

\* Every disagreement has exactly one supported observation.
LEMMA RenewedOneToOne ==
    ASSUME NEW T, NEW U, NEW p, NEW D, NEW sup, NEW N, NEW K, NEW F, TableInv(T),
           Renews(T, U, p, D, sup, N, K, F),
           NEW R, R = {o \in 1..(K + F) : o \in sup \/ o \notin 1..K}
    PROVE  /\ \A o \in R : U.observations[o].key \in D
           /\ \A d \in D : \E o \in R : U.observations[o].key = d
           /\ \A o, q \in R : U.observations[o].key = U.observations[q].key => o = q
<1>1. /\ sup \subseteq 1..K /\ \A o : o \in 1..(K + F) <=> o \in 1..K \/ o \in (K + 1)..(K + F)
      /\ \A o \in (K + 1)..(K + F) : o \notin 1..K
  BY Sizes DEF TableInv
<1>2. \A o : o \in R <=> o \in sup \/ o \in (K + 1)..(K + F)
  BY <1>1
<1>3. sup = {o \in LiveIn(T) : T.observations[o].key \in D} /\ AppendsObservations(T, U, D, sup, N, K, F)
  BY DEF Renews
<1>4. \A o \in sup : U.observations[o].key = T.observations[o].key
  BY <1>1, <1>3 DEF AppendsObservations
<1>5. \A o, q \in sup : U.observations[o].key = U.observations[q].key => o = q
  BY <1>3, <1>4 DEF TableInv, Exact
<1>6. \A o \in sup, q \in (K + 1)..(K + F) : U.observations[o].key # U.observations[q].key
  BY <1>3, <1>4 DEF AppendsObservations
<1>7. \A o, q \in (K + 1)..(K + F) : U.observations[o].key = U.observations[q].key => o = q
  BY <1>3 DEF AppendsObservations
<1>8. \A o \in R : U.observations[o].key \in D
  BY <1>2, <1>3, <1>4 DEF AppendsObservations
<1>9. \A d \in D : \E o \in R : U.observations[o].key = d
  BY <1>2, <1>3, <1>4 DEF AppendsObservations
<1> QED
  BY <1>2, <1>5, <1>6, <1>7, <1>8, <1>9

LEMMA RenewedSupport ==
    ASSUME NEW T, NEW U, NEW p, NEW D, NEW sup, NEW N, NEW K, NEW F, TableInv(T),
           Planned(T, p), Renews(T, U, p, D, sup, N, K, F)
    PROVE  SupportSound(U, N + 1)
<1>1. Shape(T) /\ Evaluated(T) /\ Worked(T) /\ AppendsEvaluation(T, U, p, sup, N, K, F)
  BY DEF TableInv, Renews
<1>2. /\ N \in Nat /\ N = Len(T.evaluations) /\ DOMAIN T.observations = 1..K
      /\ \A o : o \in 1..(K + F) <=> o \in 1..K \/ o \in (K + 1)..(K + F)
      /\ \A o \in (K + 1)..(K + F) : o \notin 1..K
  BY <1>1, Sizes
<1>3. PICK links : links = U.evaluations[N + 1].links
  OBVIOUS
<1>4. DOMAIN links = 1..(K + F) /\ \A o \in 1..(K + F) : links[o].supported <=> o \in sup \/ o \notin 1..K
  BY <1>1, <1>3 DEF AppendsEvaluation
<1>5. DisagreementsThen(U, N + 1) = D
  BY RenewedFacts
<1>6. \A o : SupersededBefore(U, o, N + 1) <=> SupersededBefore(T, o, N + 1)
  <2>1. 1..((N + 1) - 1) = 1..N /\ \A m \in 1..N : U.evaluations[m] = T.evaluations[m]
    BY <1>1, <1>2 DEF AppendsEvaluation
  <2> QED
    BY <2>1 DEF SupersededBefore
<1>7. PICK R : R = {o \in 1..(K + F) : o \in sup \/ o \notin 1..K}
  OBVIOUS
<1>8. /\ \A o \in R : U.observations[o].key \in D
      /\ \A d \in D : \E o \in R : U.observations[o].key = d
      /\ \A o, q \in R : U.observations[o].key = U.observations[q].key => o = q
  BY <1>7, RenewedOneToOne
<1>9. ASSUME NEW o \in 1..(K + F)
      PROVE  links[o].supported <=>
                 U.observations[o].key \in DisagreementsThen(U, N + 1) /\ ~ SupersededBefore(U, o, N + 1)
  <2>1. CASE o \in 1..K
    <3>1. U.observations[o] = T.observations[o] /\ (o \in sup <=> o \in LiveIn(T) /\ T.observations[o].key \in D)
      BY <2>1 DEF Renews, AppendsObservations
    <3>2. o \in LiveIn(T) <=> ~ SupersededBefore(T, o, N + 1)
      BY <1>1, <1>2, <2>1, LiveNeverSuperseded
    <3> QED
      BY <1>4, <1>5, <1>6, <2>1, <3>1, <3>2
  <2>2. CASE o \in (K + 1)..(K + F)
    <3>1. o \notin 1..K /\ links[o].supported /\ U.observations[o].key \in D
      BY <1>2, <1>4, <1>7, <1>8, <2>2
    <3>2. \A m \in 1..N : DOMAIN T.evaluations[m].links \subseteq 1..K
      BY <1>1, <1>2 DEF Evaluated, EvaluationSound, PopulationSound
    <3>3. 1..((N + 1) - 1) = 1..N
      BY <1>2
    <3>4. ~ SupersededBefore(T, o, N + 1)
      BY <3>1, <3>2, <3>3 DEF SupersededBefore
    <3> QED
      BY <1>5, <1>6, <3>1, <3>4
  <2> QED
    BY <1>2, <2>1, <2>2
<1>10. ASSUME NEW d \in D
       PROVE  Cardinality({o \in DOMAIN links : links[o].supported /\ U.observations[o].key = d}) = 1
  <2>1. PICK q \in R : U.observations[q].key = d
    BY <1>8
  <2>2. {o \in DOMAIN links : links[o].supported /\ U.observations[o].key = d} = {q}
    BY <1>4, <1>7, <1>8, <2>1
  <2> QED
    BY <2>2, FS_Singleton
<1> QED
  BY <1>3, <1>4, <1>5, <1>9, <1>10 DEF SupportSound

LEMMA RenewedConsequences ==
    ASSUME NEW T, NEW U, NEW p, NEW D, NEW sup, NEW N, NEW K, NEW F, TableInv(T),
           Renews(T, U, p, D, sup, N, K, F)
    PROVE  ConsequencesSound(U, N + 1)
<1>1. Shape(T) /\ Worked(T) /\ AppendsEvaluation(T, U, p, sup, N, K, F)
  BY DEF TableInv, Renews
<1>2. /\ N \in Nat /\ N = Len(T.evaluations) /\ DOMAIN T.observations = 1..K
      /\ \A o : o \in 1..(K + F) <=> o \in 1..K \/ o \in (K + 1)..(K + F)
  BY <1>1, Sizes
<1>3. DOMAIN U.evaluations[N + 1].links = 1..(K + F)
  BY <1>1 DEF AppendsEvaluation
<1> SUFFICES ASSUME NEW o \in 1..(K + F), NEW x, x = U.evaluations[N + 1].links[o]
             PROVE  /\ x.prior <= Len(U.events[o])
                    /\ {s \in DOMAIN U.events[o] : U.events[o][s].cause = N + 1}
                       = IF ~ x.supported /\ StatusAfter(U, o, x.prior) \in Edges!Unresolved
                         THEN {x.prior + 1} ELSE {}
  BY <1>3 DEF ConsequencesSound
<1>4. CASE o \in 1..K
  <2>1. PICK m : m = Len(T.events[o]) /\ m \in Nat /\ T.events[o] \in Seq(EventRow)
                 /\ U.events[o] \in Seq(EventRow)
    BY <1>1, <1>4, Moves
  <2>2. WorkflowSound(T, o) /\ \A s \in DOMAIN T.events[o] : T.events[o][s].cause \in 0..N
    BY <1>1, <1>2, <1>4 DEF Worked
  <2>3. T.workflow[o].seq = m /\ T.workflow[o].status = StatusAfter(T, o, m)
    BY <2>1, <2>2 DEF WorkflowSound
  <2>4. x.prior = m /\ (x.supported <=> o \in sup)
    BY <1>1, <1>4, <2>3 DEF AppendsEvaluation
  <2>5. \A s \in 1..m : U.events[o][s] = T.events[o][s]
    BY <1>1, <1>4, <2>1, Moves
  <2>6. StatusAfter(U, o, m) = StatusAfter(T, o, m)
    BY <2>1, <2>5 DEF StatusAfter
  <2>7. DOMAIN T.events[o] = 1..m /\ DOMAIN U.events[o] = 1..Len(U.events[o])
    BY <2>1
  <2>8. \A s \in 1..m : U.events[o][s].cause # N + 1
    BY <1>2, <2>2, <2>5, <2>7
  <2>9. Closes(T, sup, K, o) <=> ~ x.supported /\ StatusAfter(U, o, x.prior) \in Edges!Unresolved
    BY <1>4, <2>3, <2>4, <2>6 DEF Closes
  <2>10. CASE Closes(T, sup, K, o)
    <3>1. Len(U.events[o]) = m + 1 /\ U.events[o][m + 1].cause = N + 1
      BY <1>1, <1>4, <2>1, <2>10, Moves
    <3>2. \A s : s \in 1..(m + 1) <=> s \in 1..m \/ s = m + 1
      BY <2>1
    <3>3. {s \in DOMAIN U.events[o] : U.events[o][s].cause = N + 1} = {m + 1}
      BY <2>7, <2>8, <3>1, <3>2
    <3>4. m <= m + 1
      BY <2>1
    <3> QED
      BY <2>4, <2>9, <2>10, <3>1, <3>3, <3>4
  <2>11. CASE ~ Closes(T, sup, K, o)
    <3>1. U.events[o] = T.events[o]
      BY <1>1, <1>4, <2>11, Moves
    <3>2. {s \in DOMAIN U.events[o] : U.events[o][s].cause = N + 1} = {}
      BY <2>7, <2>8, <3>1
    <3>3. m <= Len(U.events[o])
      BY <2>1, <3>1
    <3> QED
      BY <2>4, <2>9, <2>11, <3>2, <3>3
  <2> QED
    BY <2>10, <2>11
<1>5. CASE o \in (K + 1)..(K + F)
  <2>1. U.events[o] = <<>> /\ x.prior = 0 /\ x.supported
    <3>1. o \notin 1..K
      BY <1>1, <1>5, Sizes
    <3>2. MovesWorkflows(T, U, sup, N, K, F)
      BY DEF Renews
    <3>3. U.events[o] = <<>>
      BY <1>5, <3>2 DEF MovesWorkflows
    <3> QED
      BY <1>1, <1>5, <3>1, <3>3 DEF AppendsEvaluation
  <2>2. Len(U.events[o]) = 0 /\ DOMAIN U.events[o] = {}
    BY <2>1
  <2> QED
    BY <2>1, <2>2
<1> QED
  BY <1>2, <1>4, <1>5

LEMMA RenewedEvaluated ==
    ASSUME NEW T, NEW U, NEW p, NEW D, NEW sup, NEW N, NEW K, NEW F, TableInv(T),
           Planned(T, p), Renews(T, U, p, D, sup, N, K, F)
    PROVE  Evaluated(U)
<1>1. Shape(T) /\ Counted(T) /\ Evaluated(T) /\ AppendsEvaluation(T, U, p, sup, N, K, F)
  BY DEF TableInv, Renews
<1>2. /\ N = Len(T.evaluations) /\ Len(U.evaluations) = N + 1
      /\ \A n : n \in 1..(N + 1) <=> n \in 1..N \/ n = N + 1
  BY <1>1, Sizes
<1>3. Grown(T, U)
  BY <1>1, RenewedGrows
<1>4. ASSUME NEW n \in 1..N
      PROVE  EvaluationSound(U, n) /\ Covered(FactsThen(U, n), U.evaluations[n].expectations)
  <2>1. EvaluationSound(T, n) /\ Covered(FactsThen(T, n), T.evaluations[n].expectations)
    BY <1>1, <1>2 DEF Evaluated
  <2>2. EvaluationSound(U, n)
    BY <1>1, <1>2, <1>3, <2>1, EvaluationCarried
  <2>3. PopulationSound(T, n)
    BY <2>1 DEF EvaluationSound
  <2>4. FactsThen(U, n) = FactsThen(T, n) /\ U.evaluations[n] = T.evaluations[n]
    BY <1>1, <1>2, <1>3, <2>3, FactsCarried DEF AppendsEvaluation
  <2> QED
    BY <2>1, <2>2, <2>4
<1>5. EvaluationSound(U, N + 1)
  BY RenewedPopulation, RenewedSupport, RenewedConsequences DEF EvaluationSound
<1>6. Covered(FactsThen(U, N + 1), U.evaluations[N + 1].expectations)
      /\ Covered(Population(U.corrections), Pins(Own(U.comparators)))
  BY <1>1, RenewedFacts DEF AppendsEvaluation
<1> QED
  BY <1>2, <1>4, <1>5, <1>6 DEF Evaluated

LEMMA RenewedWorkflows ==
    ASSUME NEW T, NEW U, NEW p, NEW D, NEW sup, NEW N, NEW K, NEW F, TableInv(T),
           Renews(T, U, p, D, sup, N, K, F)
    PROVE  Worked(U)
<1>1. Shape(T) /\ Worked(T)
  BY DEF TableInv
<1>2. /\ N \in Nat /\ N = Len(T.evaluations) /\ Len(U.evaluations) = N + 1
      /\ DOMAIN T.observations = 1..K /\ DOMAIN U.observations = 1..(K + F)
      /\ \A o : o \in 1..(K + F) <=> o \in 1..K \/ o \in (K + 1)..(K + F)
  BY <1>1, Sizes
<1>3. N + 1 \in 0..(N + 1) /\ \A i \in 0..N : i \in 0..(N + 1)
  BY <1>2
<1> SUFFICES ASSUME NEW o \in 1..(K + F)
             PROVE  /\ U.observations[o].origin \in 0..(N + 1) /\ WorkflowSound(U, o)
                    /\ \A s \in DOMAIN U.events[o] : U.events[o][s].cause \in 0..(N + 1)
  BY <1>2 DEF Worked
<1>4. CASE o \in 1..K
  <2>1. PICK m : m = Len(T.events[o]) /\ m \in Nat /\ T.events[o] \in Seq(EventRow)
                 /\ U.events[o] \in Seq(EventRow)
    BY <1>1, <1>4, Moves
  <2>2. /\ T.observations[o].origin \in 0..N /\ WorkflowSound(T, o)
        /\ \A s \in DOMAIN T.events[o] : T.events[o][s].cause \in 0..N
    BY <1>1, <1>2, <1>4 DEF Worked
  <2>3. U.observations[o] = T.observations[o]
    BY <1>4 DEF Renews, AppendsObservations
  <2>4. CASE ~ Closes(T, sup, K, o)
    <3>1. U.events[o] = T.events[o] /\ U.workflow[o] = T.workflow[o]
      BY <1>1, <1>4, <2>4, Moves
    <3>2. WorkflowSound(U, o)
      BY <2>2, <3>1 DEF WorkflowSound, StatusAfter
    <3> QED
      BY <1>3, <2>2, <2>3, <3>1, <3>2
  <2>5. CASE Closes(T, sup, K, o)
    <3>1. /\ U.workflow[o].status = "RESOLVED" /\ U.workflow[o].seq = T.workflow[o].seq + 1
          /\ Len(U.events[o]) = m + 1 /\ U.events[o][m + 1].from = T.workflow[o].status
          /\ U.events[o][m + 1].to = "RESOLVED" /\ U.events[o][m + 1].cause = N + 1
          /\ \A s \in 1..m : U.events[o][s] = T.events[o][s]
      BY <1>1, <1>4, <2>1, <2>5, Moves
    <3>2. /\ T.workflow[o].seq = m /\ T.workflow[o].status = StatusAfter(T, o, m)
          /\ \A s \in 1..m : /\ T.events[o][s].from = StatusAfter(T, o, s - 1)
                             /\ T.events[o][s].to \in Edges!WORKFLOW[T.events[o][s].from]
      <4>1. DOMAIN T.events[o] = 1..m
        BY <2>1
      <4> QED
        BY <2>1, <2>2, <4>1 DEF WorkflowSound
    <3>3. DOMAIN U.events[o] = 1..(m + 1) /\ DOMAIN T.events[o] = 1..m
      BY <2>1, <3>1
    <3>4. \A s : s \in 1..(m + 1) <=> s \in 1..m \/ s = m + 1
      <4>1. m \in Nat
        BY <2>1
      <4> QED
        BY ONLY <4>1
    <3>5. \A s \in 0..m : StatusAfter(U, o, s) = StatusAfter(T, o, s)
      <4>1. \A s \in 0..m : s = 0 \/ s \in 1..m
        BY <2>1
      <4> QED
        BY <3>1, <4>1 DEF StatusAfter
    <3>6. StatusAfter(U, o, m + 1) = "RESOLVED"
      <4>1. m + 1 # 0
        BY <2>1
      <4> QED
        BY <3>1, <4>1 DEF StatusAfter
    <3>7. "RESOLVED" \in Edges!WORKFLOW[T.workflow[o].status]
      BY <2>5 DEF Closes, Edges!Unresolved, Edges!WORKFLOW
    <3>8. ASSUME NEW s \in 1..(m + 1)
          PROVE  /\ U.events[o][s].from = StatusAfter(U, o, s - 1)
                 /\ U.events[o][s].to \in Edges!WORKFLOW[U.events[o][s].from]
      <4>1. s - 1 \in 0..m /\ (m + 1) - 1 = m
        BY <2>1
      <4>2. CASE s \in 1..m
        BY <3>1, <3>2, <3>5, <4>1, <4>2
      <4>3. CASE s = m + 1
        <5>1. U.events[o][s].from = StatusAfter(U, o, s - 1)
          BY <3>1, <3>2, <3>5, <4>1, <4>3
        <5> QED
          BY <3>1, <3>7, <4>3, <5>1
      <4> QED
        BY <3>4, <4>2, <4>3
    <3>9. WorkflowSound(U, o)
      BY <3>1, <3>2, <3>3, <3>6, <3>8 DEF WorkflowSound
    <3>10. \A s \in 1..(m + 1) : U.events[o][s].cause \in 0..(N + 1)
      BY <1>3, <2>2, <3>1, <3>3, <3>4
    <3> QED
      BY <1>3, <2>2, <2>3, <3>3, <3>9, <3>10
  <2> QED
    BY <2>4, <2>5
<1>5. CASE o \in (K + 1)..(K + F)
  <2>1. PICK w : w = [status |-> "OPEN", seq |-> 0]
    OBVIOUS
  <2>2. MovesWorkflows(T, U, sup, N, K, F) /\ AppendsObservations(T, U, D, sup, N, K, F)
    BY DEF Renews
  <2>3. U.events[o] = <<>> /\ U.workflow[o] = w /\ U.observations[o].origin = N + 1
    BY <1>5, <2>1, <2>2 DEF MovesWorkflows, AppendsObservations
  <2>4. Len(U.events[o]) = 0 /\ DOMAIN U.events[o] = {} /\ w.status = "OPEN" /\ w.seq = 0
    BY <2>1, <2>3
  <2>5. WorkflowSound(U, o)
    BY <2>3, <2>4 DEF WorkflowSound, StatusAfter
  <2> QED
    BY <1>3, <2>3, <2>4, <2>5
<1> QED
  BY <1>2, <1>4, <1>5

\* A receipt that was sound before a correction is sound after it.
LEMMA RenewedTables ==
    ASSUME NEW T, NEW U, NEW p, NEW D, NEW sup, NEW N, NEW K, NEW F, TableInv(T),
           Planned(T, p), Renews(T, U, p, D, sup, N, K, F)
    PROVE  TableInv(U)
<1>1. Shape(T) /\ Pinning(T) /\ Counted(T) /\ Settled(T)
  BY DEF TableInv
<1>2. Shape(U) /\ Pinning(U) /\ Counted(U) /\ Evaluated(U) /\ Worked(U)
  BY <1>1, RenewedShape, RenewedCounts, RenewedEvaluated, RenewedWorkflows
<1>3. /\ N \in Nat /\ Len(U.evaluations) = N + 1 /\ DOMAIN T.observations = 1..K
      /\ DOMAIN U.observations = 1..(K + F) /\ sup \subseteq 1..K
      /\ \A o : o \in 1..(K + F) <=> o \in 1..K \/ o \in (K + 1)..(K + F)
      /\ \A o \in (K + 1)..(K + F) : o \notin 1..K
  BY <1>1, Sizes
<1>4. PICK R : R = {o \in 1..(K + F) : o \in sup \/ o \notin 1..K}
  OBVIOUS
<1>5. LiveIn(U) = R
  <2>1. U.evaluations # <<>>
    BY <1>3
  <2>2. \A o \in 1..(K + F) : U.evaluations[N + 1].links[o].supported <=> o \in sup \/ o \notin 1..K
    BY DEF Renews, AppendsEvaluation
  <2> QED
    BY <1>3, <1>4, <2>1, <2>2 DEF LiveIn
<1>6. /\ \A o \in R : U.observations[o].key \in D
      /\ \A d \in D : \E o \in R : U.observations[o].key = d
      /\ \A o, q \in R : U.observations[o].key = U.observations[q].key => o = q
  BY <1>4, RenewedOneToOne
<1>7. {U.observations[o].key : o \in R} = D
  BY <1>6
<1>8. Exact(U)
  BY <1>5, <1>6, <1>7 DEF Exact, Renews
<1>9. ASSUME NEW o \in 1..(K + F), U.workflow[o].status \in Edges!Unresolved PROVE o \in R
  <2>1. "RESOLVED" \notin Edges!Unresolved
    BY DEF Edges!Unresolved
  <2>2. o \in 1..K => ~ Closes(T, sup, K, o)
    BY <1>1, <1>9, <2>1, Moves
  <2>3. o \in 1..K => U.workflow[o] = T.workflow[o]
    BY <1>1, <2>2, Moves
  <2> QED
    BY <1>4, <1>9, <2>2, <2>3 DEF Closes
<1>10. ASSUME NEW o \in R, NEW s \in DOMAIN U.events[o] PROVE U.events[o][s].cause = 0
  <2>1. CASE o \in sup
    <3>1. o \in 1..K /\ ~ Closes(T, sup, K, o)
      BY <1>3, <2>1 DEF Closes
    <3>2. U.events[o] = T.events[o] /\ o \in LiveIn(T)
      BY <1>1, <2>1, <3>1, Moves DEF Renews
    <3> QED
      BY <1>1, <1>10, <3>2 DEF Settled
  <2>2. CASE o \in (K + 1)..(K + F)
    <3>1. U.events[o] = <<>>
      BY <2>2 DEF Renews, MovesWorkflows
    <3> QED
      BY <1>10, <3>1
  <2> QED
    BY <1>3, <1>4, <2>1, <2>2
<1>11. Settled(U)
  BY <1>3, <1>5, <1>9, <1>10 DEF Settled
<1> QED
  BY <1>2, <1>8, <1>11 DEF TableInv

-----------------------------------------------------------------------------
(***************************************************************************)
(* What a correction computes renews the tables in this way.               *)
(***************************************************************************)
Joint(S, a, b, c, m, n) ==
    /\ Len(c) = m + n /\ c \in [1..(m + n) -> S] /\ c \in Seq(Range(c))
    /\ \A i \in 1..m : c[i] = a[i]
    /\ \A i \in (m + 1)..(m + n) : i - m \in 1..n /\ c[i] = b[i - m]

LEMMA FunctionIsSeq ==
    ASSUME NEW n \in Nat, NEW S, NEW s \in [1..n -> S]
    PROVE  s \in Seq(S) /\ Len(s) = n
OBVIOUS

LEMMA Joined ==
    ASSUME NEW S, NEW a \in Seq(S), NEW b \in Seq(S), NEW m, m = Len(a), NEW n, n = Len(b),
           NEW c, c = a \o b
    PROVE  Joint(S, a, b, c, m, n)
<1>1. m \in Nat /\ n \in Nat
  OBVIOUS
<1>2. c \in Seq(S) /\ Len(c) = m + n
      /\ \A i \in 1..(m + n) : c[i] = IF i <= m THEN a[i] ELSE b[i - m]
  BY ConcatProperties
<1>3. c \in [1..(m + n) -> S]
  BY <1>2, LenProperties
<1>4. \A i \in 1..m : i \in 1..(m + n) /\ i <= m
  BY <1>1
<1>5. \A i \in (m + 1)..(m + n) : i \in 1..(m + n) /\ ~ (i <= m) /\ i - m \in 1..n
  BY <1>1
<1>6. c \in Seq(Range(c))
  <2>1. PICK R, k : R = Range(c) /\ k = m + n /\ k \in Nat
    BY <1>1
  <2>2. c \in [1..k -> R]
    BY <1>3, <2>1 DEF Range
  <2>3. c \in Seq(R)
    BY ONLY <2>1, <2>2, k \in Nat
  <2> QED
    BY <2>1, <2>3
<1> QED
  BY <1>2, <1>3, <1>4, <1>5, <1>6 DEF Joint

LEMMA ReceiptLines ==
    ASSUME receipt \in Captured
    PROVE  /\ LineId = 1..Len(receipt.lines) /\ Len(receipt.lines) \in Nat /\ IsFiniteSet(LineId)
           /\ \A l \in LineId : receipt.lines[l] \in ReceiptLine
<1>1. receipt.lines \in Seq(ReceiptLine)
  BY ReceiptCorrectionsAssumption DEF SealedReceipt
<1>2. LineId = 1..Len(receipt.lines) /\ Len(receipt.lines) \in Nat
  BY <1>1 DEF LineId
<1>3. IsFiniteSet(LineId)
  BY <1>2, FS_Interval
<1> QED
  BY <1>1, <1>2, <1>3

LEMMA PopulationFinite ==
    ASSUME receipt \in Captured, NEW C
    PROVE  IsFiniteSet(Population(C))
<1>1. PICK f : f = [l \in LineId |-> EffectiveReceiptLine(C, l)]
  OBVIOUS
<1>2. Population(C) = {f[l] : l \in LineId} /\ DOMAIN f = LineId
  BY <1>1 DEF Population
<1> QED
  BY <1>2, ReceiptLines, ImageFinite

LEMMA PinsFinite ==
    ASSUME NEW C, IsFiniteSet(C), C \subseteq Comparator
    PROVE  IsFiniteSet(Pins(Own(C))) /\ Pins(Own(C)) \subseteq PinRow
<1>1. PICK S : S = Own(C) /\ S \subseteq C
  BY DEF Own
<1>2. IsFiniteSet(S)
  BY <1>1, FS_Subset
<1>3. PICK f : f = [c \in S |-> [line |-> c.line, generation |-> c.generation]]
  OBVIOUS
<1>4. Pins(S) = {f[c] : c \in S} /\ DOMAIN f = S
  BY <1>3 DEF Pins
<1>5. IsFiniteSet(Pins(S))
  BY <1>2, <1>4, ImageFinite
<1>6. Pins(S) \subseteq PinRow
  BY <1>1 DEF Pins, PinRow, Comparator
<1> QED
  BY <1>1, <1>5, <1>6

LEMMA PairAppended ==
    ASSUME receipt \in Captured, NEW T, T = Tables, Shape(T), NEW p \in CorrectionPlan,
           p.line \in LineId, NEW U, U.corrections = Corrected(p), U.comparators = BoundBy(p)
    PROVE  AppendsPair(T, U, p)
<1>1. T.corrections = corrections /\ T.comparators = comparators
  BY DEF Tables
<1>2. corrections \in [LineId -> Seq(LinePair)] /\ p.pair \in LinePair
  BY <1>1 DEF Shape, CorrectionPlan
<1>3. PICK v : v = Append(corrections[p.line], p.pair)
  OBVIOUS
<1>4. v \in Seq(LinePair)
  BY <1>2, <1>3
<1>5. U.corrections = [corrections EXCEPT ![p.line] = v]
  BY <1>3 DEF Corrected
<1>6. U.corrections \in [LineId -> Seq(LinePair)] /\ U.corrections[p.line] = v
      /\ \A l \in LineId : l # p.line => U.corrections[l] = corrections[l]
  BY <1>2, <1>4, <1>5
<1> QED
  BY <1>1, <1>3, <1>6 DEF AppendsPair, BoundBy

LEMMA ObservationsAppended ==
    ASSUME NEW T, T = Tables, Shape(T), NEW D, IsFiniteSet(D), NEW N, N = Len(evaluations),
           NEW K, K = Len(observations), NEW sup, sup = Supported(D), NEW fresh, fresh = Unrecorded(D),
           NEW F, F = Len(fresh), NEW U, U.observations = ObservationsAfter(fresh, N + 1)
    PROVE  /\ F \in Nat /\ DOMAIN fresh = 1..F
           /\ AppendsObservations(T, U, D, sup, N, K, F)
<1>1. T.observations = observations /\ observations \in Seq(Range(observations)) /\ K \in Nat
      /\ observations \in [1..K -> Range(observations)]
  <2>1. T.observations = observations
    BY DEF Tables
  <2>2. observations \in Seq(Range(observations))
    BY <2>1 DEF Shape
  <2> QED
    BY <2>1, <2>2, LenProperties
<1>2. PICK S : S = D \ Keys(sup) /\ IsFiniteSet(S)
  BY FS_Subset
<1>3. fresh = SetToSeq(S)
  BY <1>2 DEF Unrecorded
<1>4. /\ F \in Nat /\ DOMAIN fresh = 1..F /\ \A d : d \in S <=> \E n \in 1..F : fresh[n] = d
      /\ \A m, n \in 1..F : fresh[m] = fresh[n] => m = n
  <2>1. /\ Len(fresh) \in Nat /\ DOMAIN fresh = 1..Len(fresh)
        /\ \A d : d \in S <=> \E n \in DOMAIN fresh : fresh[n] = d
        /\ \A m, n \in DOMAIN fresh : fresh[m] = fresh[n] => m = n
    BY <1>2, <1>3, Enumeration
  <2> QED
    BY <2>1
<1>5. PICK b : b = [n \in 1..F |-> [key |-> fresh[n], origin |-> N + 1]]
  OBVIOUS
<1>6. PICK B : B = {b[n] : n \in 1..F}
  OBVIOUS
<1>7. b \in [1..F -> B] /\ \A n \in 1..F : b[n].key = fresh[n] /\ b[n].origin = N + 1
  BY <1>5, <1>6
<1>8. PICK c : c = U.observations /\ c = observations \o b
  BY <1>4, <1>5 DEF ObservationsAfter
<1>9. /\ Len(c) = K + F /\ c \in Seq(Range(c)) /\ \A i \in 1..K : c[i] = observations[i]
      /\ \A i \in (K + 1)..(K + F) : i - K \in 1..F /\ c[i] = b[i - K]
  <2>1. PICK A, a : A = Range(observations) \cup B /\ a = observations
    OBVIOUS
  <2>2. observations \in Seq(A) /\ b \in Seq(A) /\ Len(b) = F
    BY <1>1, <1>4, <1>7, <2>1
  <2>3. a \in Seq(A) /\ b \in Seq(A) /\ K = Len(a) /\ F = Len(b) /\ c = a \o b
    BY <1>8, <2>1, <2>2
  <2>4. Joint(A, a, b, c, K, F)
    BY <2>3, Joined
  <2> QED
    BY <2>1, <2>4 DEF Joint
<1>10. \A i \in (K + 1)..(K + F) : c[i].origin = N + 1 /\ c[i].key = fresh[i - K] /\ c[i].key \in S
  BY <1>4, <1>7, <1>9
<1>11. \A i \in (K + 1)..(K + F) : c[i].key \in D /\ \A q \in sup : observations[q].key # c[i].key
  BY <1>2, <1>10 DEF Keys
<1>12. ASSUME NEW d \in D
       PROVE  (\E o \in sup : observations[o].key = d) \/ \E o \in (K + 1)..(K + F) : c[o].key = d
  <2>1. CASE d \in Keys(sup)
    BY <2>1 DEF Keys
  <2>2. CASE d \in S
    <3>1. PICK n \in 1..F : fresh[n] = d
      BY <1>4, <2>2
    <3>2. K + n \in (K + 1)..(K + F) /\ (K + n) - K = n
      BY <1>1, <1>4
    <3> QED
      BY <1>10, <3>1, <3>2
  <2> QED
    BY <1>2, <2>1, <2>2
<1>13. ASSUME NEW o \in (K + 1)..(K + F), NEW q \in (K + 1)..(K + F), c[o].key = c[q].key PROVE o = q
  <2>1. o - K \in 1..F /\ q - K \in 1..F /\ fresh[o - K] = fresh[q - K]
    BY <1>9, <1>10, <1>13
  <2>2. o - K = q - K
    BY <1>4, <2>1
  <2> QED
    BY <1>1, <1>4, <2>2
<1> QED
  BY <1>1, <1>4, <1>8, <1>9, <1>10, <1>11, <1>12, <1>13 DEF AppendsObservations

LEMMA WorkflowsMoved ==
    ASSUME NEW T, T = Tables, Shape(T), NEW N, N = Len(evaluations), NEW K, K = Len(observations),
           NEW sup, NEW fresh, NEW F \in Nat, DOMAIN fresh = 1..F,
           NEW closing, closing = {o \in 1..K : Closes(T, sup, K, o)},
           NEW U, U.workflow = WorkflowAfter(fresh, closing),
           U.events = EventsAfter(fresh, closing, N + 1)
    PROVE  MovesWorkflows(T, U, sup, N, K, F)
<1>1. T.observations = observations /\ T.workflow = workflow /\ T.events = events /\ T.evaluations = evaluations
  BY DEF Tables
<1>2. N \in Nat /\ K \in Nat /\ Observed = 1..K
  BY <1>1, Counting DEF Observed
<1>3. workflow \in [1..K -> WorkflowRow] /\ events \in [1..K -> Seq(EventRow)]
  BY <1>1, <1>2 DEF Shape, Observed
<1>4. PICK w : w = [status |-> "OPEN", seq |-> 0] /\ w \in WorkflowRow
  <2>1. [status |-> "OPEN", seq |-> 0] \in WorkflowRow
    BY DEF WorkflowRow, Edges!Status
  <2> QED
    BY <2>1
<1>5. ASSUME NEW o \in 1..K
      PROVE  /\ workflow[o] \in WorkflowRow /\ workflow[o].seq \in Nat /\ workflow[o].status \in Edges!Status
             /\ [status |-> "RESOLVED", seq |-> workflow[o].seq + 1] \in WorkflowRow
             /\ events[o] \in Seq(EventRow)
             /\ [from |-> workflow[o].status, to |-> "RESOLVED", cause |-> N + 1] \in EventRow
  <2>1. workflow[o] \in WorkflowRow /\ events[o] \in Seq(EventRow)
    BY <1>3
  <2>2. workflow[o].seq \in Nat /\ workflow[o].status \in Edges!Status
    BY <2>1 DEF WorkflowRow
  <2>3. "RESOLVED" \in Edges!Status
    BY DEF Edges!Status
  <2>4. workflow[o].seq + 1 \in Nat /\ N + 1 \in Nat
    BY <1>2, <2>2
  <2> QED
    BY <2>1, <2>2, <2>3, <2>4 DEF WorkflowRow, EventRow
<1>6. PICK a : a = [o \in 1..K |-> IF o \in closing
                                   THEN [status |-> "RESOLVED", seq |-> workflow[o].seq + 1]
                                   ELSE workflow[o]]
  OBVIOUS
<1>7. a \in [1..K -> WorkflowRow]
  BY <1>5, <1>6
<1>8. PICK b : b = [n \in 1..F |-> w] /\ b \in [1..F -> WorkflowRow]
  <2>1. [n \in 1..F |-> w] \in [1..F -> WorkflowRow]
    BY <1>4
  <2> QED
    BY <2>1
<1>9. PICK c : c = U.workflow /\ c = a \o b
  BY <1>2, <1>4, <1>6, <1>8 DEF WorkflowAfter
<1>10. /\ c \in [1..(K + F) -> WorkflowRow] /\ \A i \in 1..K : c[i] = a[i]
       /\ \A i \in (K + 1)..(K + F) : i - K \in 1..F /\ c[i] = b[i - K]
  <2>1. PICK A : A = WorkflowRow
    OBVIOUS
  <2>2. a \in Seq(A) /\ b \in Seq(A) /\ K = Len(a) /\ F = Len(b)
    BY <1>2, <1>7, <1>8, <2>1
  <2>3. Joint(A, a, b, c, K, F)
    BY <1>9, <2>2, Joined
  <2> QED
    BY <2>1, <2>3 DEF Joint
<1>11. PICK e : e = [o \in 1..K |-> IF o \in closing
                                    THEN Append(events[o], [from |-> workflow[o].status,
                                                            to |-> "RESOLVED", cause |-> N + 1])
                                    ELSE events[o]]
  OBVIOUS
<1>12. e \in [1..K -> Seq(EventRow)]
  <2>1. \A o \in 1..K : e[o] \in Seq(EventRow)
    BY <1>5, <1>11, AppendProperties
  <2> QED
    BY <1>11, <2>1
<1>13. PICK g : g = [n \in 1..F |-> <<>>] /\ g \in [1..F -> Seq(EventRow)]
  <2>1. [n \in 1..F |-> <<>>] \in [1..F -> Seq(EventRow)]
    OBVIOUS
  <2> QED
    BY <2>1
<1>14. PICK h : h = U.events /\ h = e \o g
  BY <1>2, <1>11, <1>13 DEF EventsAfter
<1>15. /\ h \in [1..(K + F) -> Seq(EventRow)] /\ \A i \in 1..K : h[i] = e[i]
       /\ \A i \in (K + 1)..(K + F) : i - K \in 1..F /\ h[i] = g[i - K]
  <2>1. PICK A : A = Seq(EventRow)
    OBVIOUS
  <2>2. e \in Seq(A) /\ g \in Seq(A) /\ K = Len(e) /\ F = Len(g)
    BY <1>2, <1>12, <1>13, <2>1
  <2>3. Joint(A, e, g, h, K, F)
    BY <1>14, <2>2, Joined
  <2> QED
    BY <2>1, <2>3 DEF Joint
<1>16. U.workflow \in [1..(K + F) -> WorkflowRow] /\ U.events \in [1..(K + F) -> Seq(EventRow)]
  BY <1>9, <1>10, <1>14, <1>15
<1>17. \A o \in 1..K : o \in closing <=> Closes(T, sup, K, o)
  OBVIOUS
<1>18. ASSUME NEW o \in 1..K, Closes(T, sup, K, o)
       PROVE  /\ U.workflow[o] = [status |-> "RESOLVED", seq |-> T.workflow[o].seq + 1]
              /\ U.events[o] = Append(T.events[o], [from |-> T.workflow[o].status, to |-> "RESOLVED",
                                                    cause |-> N + 1])
  <2>1. U.workflow[o] = a[o] /\ U.events[o] = e[o] /\ o \in closing
    BY <1>9, <1>10, <1>14, <1>15, <1>17, <1>18
  <2>2. a[o] = [status |-> "RESOLVED", seq |-> workflow[o].seq + 1]
    BY <1>6, <2>1
  <2>3. e[o] = Append(events[o], [from |-> workflow[o].status, to |-> "RESOLVED", cause |-> N + 1])
    BY <1>11, <2>1
  <2> QED
    BY <1>1, <2>1, <2>2, <2>3
<1>19. ASSUME NEW o \in 1..K, ~ Closes(T, sup, K, o)
       PROVE  U.workflow[o] = T.workflow[o] /\ U.events[o] = T.events[o]
  <2>1. U.workflow[o] = a[o] /\ U.events[o] = e[o] /\ o \notin closing
    BY <1>9, <1>10, <1>14, <1>15, <1>17, <1>19
  <2>2. a[o] = workflow[o] /\ e[o] = events[o]
    BY <1>6, <1>11, <2>1
  <2> QED
    BY <1>1, <2>1, <2>2
<1>20. ASSUME NEW o \in (K + 1)..(K + F) PROVE U.workflow[o] = w /\ U.events[o] = <<>>
  <2>1. o - K \in 1..F /\ U.workflow[o] = b[o - K] /\ U.events[o] = g[o - K]
    BY <1>9, <1>10, <1>14, <1>15
  <2> QED
    BY <1>8, <1>13, <2>1
<1> QED
  BY <1>4, <1>16, <1>18, <1>19, <1>20 DEF MovesWorkflows

LEMMA EvaluationAppended ==
    ASSUME receipt \in Captured, NEW T, T = Tables, Shape(T), NEW p \in CorrectionPlan,
           p.line \in LineId, IsFiniteSet(p.bound), NEW N, N = Len(evaluations), NEW K, K = Len(observations),
           NEW fresh, NEW F \in Nat, F = Len(fresh), NEW sup, sup \subseteq 1..K,
           NEW seen, \A o \in 1..K : seen[o] = workflow[o],
           NEW U, AppendsPair(T, U, p), U.corrections = Corrected(p), U.comparators = BoundBy(p),
           NEW e, e = [line |-> p.line, pins |-> PinnedLines(Corrected(p), p.line),
                       expectations |-> Pins(Own(BoundBy(p))), links |-> LinksAfter(seen, fresh, sup)],
           U.evaluations = Append(evaluations, e)
    PROVE  AppendsEvaluation(T, U, p, sup, N, K, F)
<1>1. T.observations = observations /\ T.workflow = workflow /\ T.evaluations = evaluations
      /\ T.comparators = comparators
  BY DEF Tables
<1>2. N \in Nat /\ K \in Nat /\ Observed = 1..K /\ K + F \in Nat /\ evaluations \in Seq(EvaluationRow)
  BY <1>1, Counting DEF Observed
<1>3. \A o \in 1..K : workflow[o] \in WorkflowRow
  BY <1>1, <1>2, Counting DEF Observed
<1>4. \A o \in 1..K : seen[o].seq = workflow[o].seq /\ workflow[o].seq \in Nat
  BY <1>3 DEF WorkflowRow
<1>5. PICK links : links = e.links
  OBVIOUS
<1>6. links = [o \in 1..(K + F) |-> IF o \in 1..K THEN [supported |-> o \in sup, prior |-> seen[o].seq]
                                    ELSE [supported |-> TRUE, prior |-> 0]]
  <2>1. links = LinksAfter(seen, fresh, sup)
    BY <1>5
  <2> QED
    BY <2>1, <1>2 DEF LinksAfter
<1>7. \A o \in 1..K : o \in 1..(K + F)
  BY <1>2
<1>8. ASSUME NEW o \in 1..(K + F)
      PROVE  /\ links[o] \in LinkRow /\ (links[o].supported <=> o \in sup \/ o \notin 1..K)
             /\ links[o].prior = IF o \in 1..K THEN workflow[o].seq ELSE 0
  <2>1. CASE o \in 1..K
    <3>1. links[o] = [supported |-> o \in sup, prior |-> workflow[o].seq] /\ workflow[o].seq \in Nat
      BY <1>4, <1>6, <2>1
    <3>2. links[o].supported = (o \in sup) /\ links[o].prior = workflow[o].seq
      BY <3>1
    <3>3. (o \in sup) \in BOOLEAN
      OBVIOUS
    <3>4. links[o] \in LinkRow
      BY <3>1, <3>3 DEF LinkRow
    <3> QED
      BY <2>1, <3>2, <3>4
  <2>2. CASE o \notin 1..K
    <3>1. links[o] = [supported |-> TRUE, prior |-> 0]
      BY <1>6, <2>2
    <3> QED
      BY <2>2, <3>1 DEF LinkRow
  <2> QED
    BY <2>1, <2>2
<1>9. DOMAIN links = 1..(K + F) /\ links \in [1..(K + F) -> LinkRow]
  BY <1>6, <1>8
<1>10. links \in Seq(LinkRow)
  <2>1. PICK k : k = K + F /\ k \in Nat
    BY <1>2
  <2>2. links \in [1..k -> LinkRow]
    BY <1>9, <2>1
  <2> QED
    BY <2>1, <2>2, FunctionIsSeq
<1>11. e.line = p.line /\ p.line \in Nat
  BY DEF CorrectionPlan
<1>12. PICK pins : pins = e.pins
  OBVIOUS
<1>13. \A l \in LineId : pins[l] = Len(U.corrections[l]) /\ Len(U.corrections[l]) \in Nat
  BY <1>12 DEF PinnedLines, AppendsPair
<1>14. pins \in Seq(Nat)
  <2>1. PICK m : m = Len(receipt.lines) /\ m \in Nat /\ LineId = 1..m
    BY ReceiptLines
  <2>2. pins = [k \in 1..m |-> Len(Corrected(p)[k])]
    BY <1>12, <2>1 DEF PinnedLines
  <2>3. pins \in [1..m -> Nat]
    BY <1>13, <2>1, <2>2
  <2> QED
    BY <2>1, <2>3, FunctionIsSeq
<1>15. e.expectations = Pins(Own(U.comparators)) /\ e.expectations \subseteq PinRow
  <2>1. e.expectations = Pins(Own(U.comparators))
    OBVIOUS
  <2>2. PICK C : C = U.comparators /\ C = T.comparators \cup p.bound
    BY DEF AppendsPair
  <2>3. T.comparators \subseteq Comparator /\ IsFiniteSet(T.comparators)
    BY DEF Shape
  <2>4. p.bound \subseteq Comparator
    BY DEF CorrectionPlan
  <2>5. C \subseteq Comparator
    BY <2>2, <2>3, <2>4
  <2>6. IsFiniteSet(C)
    <3>1. PICK A, B : A = T.comparators /\ B = p.bound
      OBVIOUS
    <3>2. IsFiniteSet(A) /\ IsFiniteSet(B) /\ C = A \cup B
      BY <2>2, <2>3, <3>1
    <3> QED
      BY ONLY <3>2, FS_Union
  <2> QED
    BY <2>1, <2>2, <2>5, <2>6, PinsFinite
<1>16. e \in EvaluationRow
  BY <1>5, <1>10, <1>11, <1>12, <1>14, <1>15 DEF EvaluationRow
<1>17. PICK v : v = Append(evaluations, e)
  OBVIOUS
<1>18. /\ v \in Seq(EvaluationRow) /\ Len(v) = N + 1 /\ v[N + 1] = e
       /\ \A n \in 1..N : v[n] = evaluations[n]
  BY <1>2, <1>16, <1>17
<1>19. U.evaluations = v
  BY <1>17
<1>20. \A o \in (K + 1)..(K + F) : o \in 1..(K + F) /\ o \notin 1..K
  BY <1>2
<1>21. /\ \A o \in 1..K : links[o].prior = T.workflow[o].seq
       /\ \A o \in (K + 1)..(K + F) : links[o].prior = 0
  BY <1>1, <1>7, <1>8, <1>20
<1>22. PICK x : x = U.evaluations[N + 1] /\ x = e
  BY <1>18, <1>19
<1>23. /\ x.line = p.line /\ x.expectations = Pins(Own(U.comparators)) /\ x.links = links /\ x.pins = pins
  BY <1>5, <1>11, <1>12, <1>15, <1>22
<1>24. U.evaluations \in Seq(EvaluationRow) /\ Len(U.evaluations) = N + 1
       /\ \A n \in 1..N : U.evaluations[n] = T.evaluations[n]
  BY <1>1, <1>18, <1>19
<1>25. \A o \in 1..(K + F) : links[o].supported <=> o \in sup \/ o \notin 1..K
  BY <1>8
<1> QED
  BY ONLY <1>9, <1>13, <1>21, <1>22, <1>23, <1>24, <1>25 DEF AppendsEvaluation

LEMMA PlanReady ==
    ASSUME Shape(Tables), NEW x, Row(x), x.plan # Null, x.todo = <<>>, NEW T, T = Tables
    PROVE  /\ x.plan \in CorrectionPlan /\ Planned(T, x.plan)
           /\ \A o \in Observed : x.seen[o] = workflow[o]
<1>1. T.corrections = corrections /\ T.comparators = comparators /\ T.evaluations = evaluations
      /\ T.observations = observations
  BY DEF Tables
<1>2. PlanSound(x.plan) /\ Rowed(x)
  BY DEF Row
<1>3. x.plan \in CorrectionPlan
  BY <1>2 DEF Rowed
<1>4. PICK k \in 0..Len(observations) : Locked(x, k)
  BY DEF Row
<1>5. Len(observations) \in Nat /\ Observed = 1..Len(observations)
  BY <1>1, Counting DEF Observed
<1>6. k = Len(observations)
  <2>1. SUFFICES ASSUME k # Len(observations) PROVE FALSE
    OBVIOUS
  <2>2. 1 \in 1..(Len(observations) - k)
    BY <1>5, <2>1
  <2>3. x.todo = [i \in 1..(Len(observations) - k) |-> WorkflowLock(k + i)]
    BY <1>4 DEF Locked
  <2>4. DOMAIN x.todo = 1..(Len(observations) - k) /\ DOMAIN x.todo = {}
    BY <2>3
  <2> QED
    BY <2>2, <2>4
<1>7. \A o \in Observed : x.seen[o] = workflow[o]
  BY <1>4, <1>5, <1>6 DEF Locked
<1>8. Planned(T, x.plan)
  BY <1>1, <1>2 DEF PlanSound, Planned, EffectiveReceiptLine
<1> QED
  BY <1>3, <1>7, <1>8

LEMMA AfterRenews ==
    ASSUME receipt \in Captured, TableInv(Tables), NEW t \in Tx, Row(tx[t]), Evaluating(t),
           NEW T, T = Tables, NEW U, U = After(t), NEW p, p = tx[t].plan
    PROVE  \E D, sup, N, K, F : Renews(T, U, p, D, sup, N, K, F)
<1>1. PICK x : x = tx[t]
  OBVIOUS
<1>2. Shape(T) /\ Shape(Tables)
  BY DEF TableInv
<1>3. Row(x) /\ x.plan # Null /\ x.todo = <<>> /\ p = x.plan
  BY <1>1 DEF Evaluating
<1>4. p \in CorrectionPlan /\ Planned(T, p) /\ \A o \in Observed : x.seen[o] = workflow[o]
  BY <1>2, <1>3, PlanReady
<1>5. PICK N, K : N = Len(evaluations) /\ K = Len(observations)
  OBVIOUS
<1>6. PICK D : D = Desired(p)
  OBVIOUS
<1>7. PICK sup : sup = Supported(D)
  OBVIOUS
<1>8. PICK closing : closing = Superseded(t, sup)
  OBVIOUS
<1>9. PICK fresh : fresh = Unrecorded(D)
  OBVIOUS
<1>10. PICK F : F = Len(fresh)
  OBVIOUS
<1>11. PICK e : e = [line |-> p.line, pins |-> PinnedLines(Corrected(p), p.line),
                     expectations |-> Pins(Own(BoundBy(p))), links |-> LinksAfter(x.seen, fresh, sup)]
  OBVIOUS
<1>12. U = [corrections |-> Corrected(p), comparators |-> BoundBy(p),
            observations |-> ObservationsAfter(fresh, N + 1), workflow |-> WorkflowAfter(fresh, closing),
            events |-> EventsAfter(fresh, closing, N + 1), evaluations |-> Append(evaluations, e)]
  BY <1>1, <1>5, <1>6, <1>7, <1>8, <1>9, <1>11 DEF After
<1>13. /\ U.corrections = Corrected(p) /\ U.comparators = BoundBy(p)
       /\ U.observations = ObservationsAfter(fresh, N + 1) /\ U.workflow = WorkflowAfter(fresh, closing)
       /\ U.events = EventsAfter(fresh, closing, N + 1) /\ U.evaluations = Append(evaluations, e)
  BY <1>12
<1>14. T.observations = observations /\ T.evaluations = evaluations /\ T.workflow = workflow
       /\ T.comparators = comparators
  BY DEF Tables
<1>15. N = Len(T.evaluations) /\ K = Len(T.observations) /\ Observed = 1..K /\ N \in Nat /\ K \in Nat
       /\ evaluations \in Seq(EvaluationRow)
  BY <1>2, <1>5, <1>14, Counting DEF Observed
<1>16. p.line \in LineId /\ IsFiniteSet(p.bound)
  BY <1>4 DEF Planned
<1>17. AppendsPair(T, U, p)
  BY <1>2, <1>4, <1>13, <1>16, PairAppended
<1>18. D = Disagreements(Population(U.corrections), Pins(Own(U.comparators)))
  BY <1>6, <1>13 DEF Desired
<1>19. IsFiniteSet(D)
  <2>1. PICK C, A, B : C = U.comparators /\ A = T.comparators /\ B = p.bound
    OBVIOUS
  <2>2. A \subseteq Comparator /\ IsFiniteSet(A) /\ B \subseteq Comparator /\ IsFiniteSet(B)
    BY <1>2, <1>4, <1>16, <2>1 DEF Shape, CorrectionPlan
  <2>3. C = A \cup B
    BY <1>17, <2>1 DEF AppendsPair
  <2>4. C \subseteq Comparator /\ IsFiniteSet(C)
    BY ONLY <2>2, <2>3, FS_Union
  <2>5. IsFiniteSet(Pins(Own(C)))
    BY <2>4, PinsFinite
  <2>6. IsFiniteSet(Population(U.corrections))
    BY PopulationFinite
  <2>7. PICK S, pins : S = Population(U.corrections) /\ pins = Pins(Own(C))
    OBVIOUS
  <2> QED
    BY <1>18, <2>1, <2>5, <2>6, <2>7, DisagreementsFinite
<1>20. F \in Nat /\ DOMAIN fresh = 1..F /\ AppendsObservations(T, U, D, sup, N, K, F)
  BY <1>2, <1>5, <1>7, <1>9, <1>10, <1>13, <1>19, ObservationsAppended
<1>21. sup = {o \in LiveIn(T) : T.observations[o].key \in D}
  <2>1. \A o \in Observed : PriorSupport(o) <=> o \in LiveIn(T)
    BY <1>14, <1>15 DEF PriorSupport, LiveIn, Observed, Last
  <2>2. LiveIn(T) \subseteq Observed
    BY <1>14 DEF LiveIn, Observed
  <2> QED
    BY <1>7, <1>14, <2>1, <2>2 DEF Supported, StillSupported
<1>22. sup \subseteq 1..K
  BY <1>7, <1>15 DEF Supported
<1>23. closing = {o \in 1..K : Closes(T, sup, K, o)}
  BY <1>1, <1>4, <1>8, <1>14, <1>15 DEF Superseded, Closes
<1>24. MovesWorkflows(T, U, sup, N, K, F)
  BY <1>2, <1>5, <1>13, <1>20, <1>23, WorkflowsMoved
<1>25. PICK seen : seen = x.seen
  OBVIOUS
<1>26. \A o \in 1..K : seen[o] = workflow[o]
  BY <1>4, <1>15, <1>25
<1>27. e = [line |-> p.line, pins |-> PinnedLines(Corrected(p), p.line),
            expectations |-> Pins(Own(BoundBy(p))), links |-> LinksAfter(seen, fresh, sup)]
  BY <1>11, <1>25
<1>28. AppendsEvaluation(T, U, p, sup, N, K, F)
  BY <1>2, <1>4, <1>5, <1>10, <1>13, <1>16, <1>17, <1>20, <1>22, <1>26, <1>27, EvaluationAppended
<1>29. Renews(T, U, p, D, sup, N, K, F)
  BY <1>4, <1>15, <1>17, <1>18, <1>20, <1>21, <1>24, <1>28 DEF Renews
<1> QED
  BY <1>29

\* assert_receipt_correction_complete has nothing to refuse.
LEMMA AfterSound ==
    ASSUME receipt \in Captured, TableInv(Tables), NEW t \in Tx, Row(tx[t]), Evaluating(t)
    PROVE  TableInv(After(t)) /\ Complete(t)
<1>1. PICK T, U, p : T = Tables /\ U = After(t) /\ p = tx[t].plan
  OBVIOUS
<1>2. TableInv(T) /\ Shape(Tables)
  BY <1>1 DEF TableInv
<1>3. PICK x : x = tx[t]
  OBVIOUS
<1>4. Row(x) /\ x.plan # Null /\ x.todo = <<>> /\ p = x.plan
  BY <1>1, <1>3 DEF Evaluating
<1>5. Planned(T, p) /\ \A o \in Observed : x.seen[o] = workflow[o]
  BY <1>1, <1>2, <1>4, PlanReady
<1>6. PICK D, sup, N, K, F : Renews(T, U, p, D, sup, N, K, F)
  BY <1>1, AfterRenews
<1>7. TableInv(U)
  BY <1>2, <1>5, <1>6, RenewedTables
<1>8. DOMAIN U.evaluations = 1..Len(U.evaluations)
  BY <1>7, Counting DEF TableInv
<1>9. Healthy(U)
  BY <1>7, <1>8 DEF TableInv, Counted, Evaluated, Worked, Healthy
<1> QED
  BY <1>1, <1>3, <1>5, <1>7, <1>9 DEF Complete

-----------------------------------------------------------------------------
(***************************************************************************)
(* A person moves the exception o of the tables T along one edge.          *)
(***************************************************************************)
Moved(T, U, o, to) ==
    /\ U.corrections = T.corrections /\ U.comparators = T.comparators
    /\ U.observations = T.observations /\ U.evaluations = T.evaluations
    /\ o \in DOMAIN T.observations /\ to \in Edges!WORKFLOW[T.workflow[o].status]
    /\ U.events = [T.events EXCEPT ![o] =
           Append(T.events[o], [from |-> T.workflow[o].status, to |-> to, cause |-> 0])]
    /\ U.workflow = [T.workflow EXCEPT ![o] = [status |-> to, seq |-> T.workflow[o].seq + 1]]

LEMMA WorkflowEdges ==
    ASSUME NEW from \in Edges!Status, NEW to \in Edges!WORKFLOW[from]
    PROVE  from \in Edges!Unresolved /\ to \in Edges!Status
BY DEF Edges!Status, Edges!WORKFLOW, Edges!Unresolved

LEMMA MovedRows ==
    ASSUME NEW T, NEW U, NEW o, NEW to, Shape(T), Moved(T, U, o, to)
    PROVE  /\ Shape(U) /\ T.workflow[o].status \in Edges!Unresolved
           /\ \A q \in DOMAIN T.observations : q # o => U.events[q] = T.events[q] /\ U.workflow[q] = T.workflow[q]
           /\ U.workflow[o].status = to /\ U.workflow[o].seq = T.workflow[o].seq + 1
           /\ Len(T.events[o]) \in Nat /\ Len(U.events[o]) = Len(T.events[o]) + 1
           /\ DOMAIN T.events[o] = 1..Len(T.events[o]) /\ DOMAIN U.events[o] = 1..(Len(T.events[o]) + 1)
           /\ \A s \in 1..Len(T.events[o]) : U.events[o][s] = T.events[o][s]
           /\ U.events[o][Len(T.events[o]) + 1].from = T.workflow[o].status
           /\ U.events[o][Len(T.events[o]) + 1].to = to
           /\ U.events[o][Len(T.events[o]) + 1].cause = 0
<1>1. o \in DOMAIN T.observations /\ to \in Edges!WORKFLOW[T.workflow[o].status]
  BY DEF Moved
<1>2. T.workflow[o] \in WorkflowRow /\ T.events[o] \in Seq(EventRow)
  BY <1>1, Counting
<1>3. T.workflow[o].status \in Edges!Status /\ T.workflow[o].seq \in Nat
  BY <1>2 DEF WorkflowRow
<1>4. T.workflow[o].status \in Edges!Unresolved /\ to \in Edges!Status
  BY <1>1, <1>3, WorkflowEdges
<1>5. PICK e : e = [from |-> T.workflow[o].status, to |-> to, cause |-> 0]
  OBVIOUS
<1>6. e \in EventRow /\ e.from = T.workflow[o].status /\ e.to = to /\ e.cause = 0
  BY <1>3, <1>4, <1>5 DEF EventRow
<1>7. PICK w : w = [status |-> to, seq |-> T.workflow[o].seq + 1]
  OBVIOUS
<1>8. w \in WorkflowRow /\ w.status = to /\ w.seq = T.workflow[o].seq + 1
  BY <1>3, <1>4, <1>7 DEF WorkflowRow
<1>9. PICK s, v : s = T.events[o] /\ v = Append(s, e)
  OBVIOUS
<1>10. /\ v \in Seq(EventRow) /\ Len(s) \in Nat /\ Len(v) = Len(s) + 1 /\ v[Len(s) + 1] = e
       /\ DOMAIN s = 1..Len(s) /\ DOMAIN v = 1..(Len(s) + 1) /\ \A i \in 1..Len(s) : v[i] = s[i]
  BY <1>2, <1>6, <1>9
<1>11. T.workflow \in [DOMAIN T.observations -> WorkflowRow] /\ T.events \in [DOMAIN T.observations -> Seq(EventRow)]
  BY DEF Shape
<1>12. U.events = [T.events EXCEPT ![o] = v] /\ U.workflow = [T.workflow EXCEPT ![o] = w]
       /\ U.observations = T.observations
  BY <1>5, <1>7, <1>9 DEF Moved
<1>13. U.workflow \in [DOMAIN T.observations -> WorkflowRow] /\ U.events \in [DOMAIN T.observations -> Seq(EventRow)]
       /\ U.workflow[o] = w /\ U.events[o] = v
       /\ \A q \in DOMAIN T.observations : q # o => U.events[q] = T.events[q] /\ U.workflow[q] = T.workflow[q]
  BY <1>1, <1>8, <1>10, <1>11, <1>12
<1>14. Shape(U)
  BY <1>13 DEF Shape, Moved
<1> QED
  BY <1>4, <1>6, <1>8, <1>9, <1>10, <1>13, <1>14

LEMMA MovedTables ==
    ASSUME NEW T, NEW U, NEW o, NEW to, TableInv(T), Moved(T, U, o, to)
    PROVE  TableInv(U)
<1>1. Shape(T) /\ Pinning(T) /\ Counted(T) /\ Evaluated(T) /\ Worked(T) /\ Exact(T) /\ Settled(T)
  BY DEF TableInv
<1>2. /\ U.corrections = T.corrections /\ U.comparators = T.comparators
      /\ U.observations = T.observations /\ U.evaluations = T.evaluations /\ o \in DOMAIN T.observations
      /\ to \in Edges!WORKFLOW[T.workflow[o].status]
  BY DEF Moved
<1>3. PICK m : m = Len(T.events[o])
  OBVIOUS
<1>4. /\ Shape(U) /\ T.workflow[o].status \in Edges!Unresolved
      /\ \A q \in DOMAIN T.observations : q # o => U.events[q] = T.events[q] /\ U.workflow[q] = T.workflow[q]
      /\ U.workflow[o].status = to /\ U.workflow[o].seq = T.workflow[o].seq + 1
      /\ m \in Nat /\ Len(U.events[o]) = m + 1 /\ DOMAIN T.events[o] = 1..m /\ DOMAIN U.events[o] = 1..(m + 1)
      /\ \A s \in 1..m : U.events[o][s] = T.events[o][s]
      /\ U.events[o][m + 1].from = T.workflow[o].status /\ U.events[o][m + 1].to = to
      /\ U.events[o][m + 1].cause = 0
  BY <1>1, <1>3, MovedRows
<1>5. \A s : s \in 1..(m + 1) <=> s \in 1..m \/ s = m + 1
  BY <1>4
<1>6. Len(T.evaluations) \in Nat
  BY <1>1, Counting
<1>7. Pinning(U) /\ Counted(U) /\ LiveIn(U) = LiveIn(T) /\ Exact(U)
  <2>1. Pinning(U)
    BY <1>1, <1>2 DEF Pinning
  <2>2. Counted(U)
    BY <1>1, <1>2 DEF Counted, CausedBy
  <2>3. LiveIn(U) = LiveIn(T)
    BY <1>2 DEF LiveIn
  <2>4. Exact(U)
    BY <1>1, <1>2, <2>3 DEF Exact
  <2> QED
    BY <2>1, <2>2, <2>3, <2>4
<1>8. Grown(T, U)
  <2>1. ASSUME NEW q \in DOMAIN T.observations
        PROVE  /\ U.events[q] \in Seq(EventRow) /\ Len(T.events[q]) <= Len(U.events[q])
               /\ \A s \in 1..Len(T.events[q]) : U.events[q][s] = T.events[q][s]
               /\ \A s \in 1..Len(U.events[q]) :
                     s \in 1..Len(T.events[q]) \/ U.events[q][s].cause \notin 1..Len(T.evaluations)
    <3>1. U.events[q] \in Seq(EventRow) /\ T.events[q] \in Seq(EventRow)
      BY <1>1, <1>2, <1>4, Counting
    <3>2. CASE q # o
      <4>1. U.events[q] = T.events[q] /\ Len(T.events[q]) \in Nat
        BY <1>4, <3>1, <3>2
      <4> QED
        BY <3>1, <4>1
    <3>3. CASE q = o
      <4>1. 0 \notin 1..Len(T.evaluations) /\ m <= m + 1
        BY <1>4, <1>6
      <4> QED
        BY <1>3, <1>4, <1>5, <3>1, <3>3, <4>1
    <3> QED
      BY <3>2, <3>3
  <2> QED
    BY <1>2, <2>1 DEF Grown
<1>9. Evaluated(U)
  <2>1. ASSUME NEW n \in 1..Len(T.evaluations)
        PROVE  EvaluationSound(U, n) /\ Covered(FactsThen(U, n), U.evaluations[n].expectations)
    <3>1. EvaluationSound(T, n) /\ Covered(FactsThen(T, n), T.evaluations[n].expectations)
      BY <1>1 DEF Evaluated
    <3>2. EvaluationSound(U, n)
      BY <1>1, <1>8, <3>1, EvaluationCarried
    <3>3. PopulationSound(T, n)
      BY <3>1 DEF EvaluationSound
    <3>4. FactsThen(U, n) = FactsThen(T, n)
      BY <1>1, <1>8, <3>3, FactsCarried
    <3> QED
      BY <1>2, <3>1, <3>2, <3>4
  <2> QED
    BY <1>1, <1>2, <2>1 DEF Evaluated
<1>10. Worked(U)
  <2>1. ASSUME NEW q \in DOMAIN T.observations, q # o
        PROVE  /\ U.observations[q].origin \in 0..Len(T.evaluations) /\ WorkflowSound(U, q)
               /\ \A s \in DOMAIN U.events[q] : U.events[q][s].cause \in 0..Len(T.evaluations)
    <3>1. U.events[q] = T.events[q] /\ U.workflow[q] = T.workflow[q]
      BY <1>4, <2>1
    <3>2. WorkflowSound(T, q)
      BY <1>1 DEF Worked
    <3>3. WorkflowSound(U, q)
      BY <3>1, <3>2 DEF WorkflowSound, StatusAfter
    <3> QED
      BY <1>1, <1>2, <3>1, <3>3 DEF Worked
  <2>2. WorkflowSound(U, o)
    <3>1. /\ T.workflow[o].seq = m /\ T.workflow[o].status = StatusAfter(T, o, m)
          /\ \A s \in 1..m : /\ T.events[o][s].from = StatusAfter(T, o, s - 1)
                             /\ T.events[o][s].to \in Edges!WORKFLOW[T.events[o][s].from]
      BY <1>1, <1>2, <1>3, <1>4 DEF Worked, WorkflowSound
    <3>2. \A s \in 0..m : s = 0 \/ s \in 1..m
      BY <1>4
    <3>3. \A s \in 0..m : StatusAfter(U, o, s) = StatusAfter(T, o, s)
      BY <1>4, <3>2 DEF StatusAfter
    <3>4. m + 1 # 0 /\ (m + 1) - 1 = m
      BY <1>4
    <3>5. StatusAfter(U, o, m + 1) = to
      BY <1>4, <3>4 DEF StatusAfter
    <3>6. ASSUME NEW s \in 1..(m + 1)
          PROVE  /\ U.events[o][s].from = StatusAfter(U, o, s - 1)
                 /\ U.events[o][s].to \in Edges!WORKFLOW[U.events[o][s].from]
      <4>1. s - 1 \in 0..m
        BY <1>4
      <4>2. CASE s \in 1..m
        BY <1>4, <3>1, <3>3, <4>1, <4>2
      <4>3. CASE s = m + 1
        <5>1. U.events[o][s].from = StatusAfter(U, o, s - 1)
          BY <1>4, <3>1, <3>3, <3>4, <4>1, <4>3
        <5> QED
          BY <1>2, <1>4, <4>3, <5>1
      <4> QED
        BY <1>5, <4>2, <4>3
    <3> QED
      BY <1>4, <3>1, <3>5, <3>6 DEF WorkflowSound
  <2>3. \A s \in DOMAIN U.events[o] : U.events[o][s].cause \in 0..Len(T.evaluations)
    <3>1. \A s \in 1..m : T.events[o][s].cause \in 0..Len(T.evaluations)
      BY <1>1, <1>2, <1>4 DEF Worked
    <3>2. 0 \in 0..Len(T.evaluations)
      BY <1>6
    <3> QED
      BY <1>4, <1>5, <3>1, <3>2
  <2> QED
    BY <1>1, <1>2, <2>1, <2>2, <2>3 DEF Worked
<1>11. Settled(U)
  <2>1. o \in LiveIn(T)
    BY <1>1, <1>2, <1>4 DEF Settled
  <2>2. \A s \in DOMAIN U.events[o] : U.events[o][s].cause = 0
    BY <1>1, <1>4, <1>5, <2>1 DEF Settled
  <2>3. LiveIn(T) \subseteq DOMAIN T.observations
    BY DEF LiveIn
  <2> QED
    BY <1>1, <1>2, <1>4, <1>7, <2>1, <2>2, <2>3 DEF Settled
<1> QED
  BY <1>4, <1>7, <1>9, <1>10, <1>11 DEF TableInv

-----------------------------------------------------------------------------
(***************************************************************************)
(* The tables, step by step.                                               *)
(***************************************************************************)
tableVars == <<receipt, corrections, comparators, observations, workflow, events, evaluations>>

LEMMA QuietTables ==
    ASSUME TableInv(Tables), UNCHANGED tableVars, \A c \in comparators : Kept(c.line)
    PROVE  TableInv(Tables)'
<1>1. PICK T : T = Tables
  OBVIOUS
<1>2. T.comparators = comparators /\ TableInv(T)
  BY <1>1 DEF Tables
<1>3. TableInv(T)'
  BY <1>2, TablesKept DEF tableVars
<1>4. T = Tables'
  BY <1>1 DEF Tables, tableVars
<1> QED
  BY <1>3, <1>4

\* Nobody touches the order while a transaction moves.
LEMMA OrderAtRest ==
    ASSUME UNCHANGED <<lines, poCorrections>>, NEW p \in Present
    PROVE  Kept(p) /\ Present' = Present /\ Generation(p)' = Generation(p)
BY DEF Kept, Present, Generation

LEMMA TransactionTables ==
    ASSUME OrderInv, status = "ISSUED", receipt \in Captured, TableInv(Tables),
           UNCHANGED <<tableVars, catalog, status, lines, poCorrections>>
    PROVE  OrderInv' /\ status' = "ISSUED" /\ receipt' \in Captured /\ TableInv(Tables)'
<1>1. OrderInv'
  BY OrderStep DEF orderVars
<1>2. \A c \in comparators : c.line \in Present
  BY DEF TableInv, Pinning, Tables
<1>3. \A c \in comparators : Kept(c.line)
  BY <1>2, OrderAtRest
<1>4. TableInv(Tables)'
  BY <1>3, QuietTables
<1> QED
  BY <1>1, <1>4 DEF tableVars

\* The order moves on, but not below the receipt.
LEMMA OrderTables ==
    ASSUME OrderInv, status = "ISSUED", receipt \in Captured, TableInv(Tables),
           OrderNext, UNCHANGED correctionVars
    PROVE  /\ OrderInv' /\ status' = "ISSUED" /\ receipt' \in Captured /\ TableInv(Tables)'
           /\ \A p \in Present : Pinned(p) \/ poLock # Null => Kept(p)
           /\ UNCHANGED <<poLock, comparators>>
<1>1. \/ ProcurementNext
      \/ \E i \in Item, u \in Uom, s \in BOOLEAN : UpdateItem(i, u, s)
  BY DEF OrderNext, ProcurementNext
<1>2. OrderInv'
  BY <1>1, OrderStep
<1>3. UNCHANGED <<status, poLock, comparators>>
  BY DEF OrderNext, AmendLine, CorrectProcurement, UpdateItem
<1>4. \A p \in Present : Pinned(p) \/ poLock # Null => Kept(p)
  BY <1>1, OrderKeeps DEF Kept
<1>5. \A c \in comparators : c.line \in Present /\ Pinned(c.line)
  BY DEF TableInv, Pinning, Tables, Pinned
<1>6. TableInv(Tables)'
  BY <1>3, <1>4, <1>5, QuietTables DEF tableVars, correctionVars
<1> QED
  BY <1>2, <1>3, <1>4, <1>6 DEF correctionVars

LEMMA CommitTables ==
    ASSUME OrderInv, status = "ISSUED", receipt \in Captured, TableInv(Tables),
           NEW U, TableInv(U), U = Tables',
           UNCHANGED <<receipt, catalog, status, lines, poCorrections>>
    PROVE  OrderInv' /\ status' = "ISSUED" /\ receipt' \in Captured /\ TableInv(Tables)'
<1>1. OrderInv'
  BY OrderStep DEF orderVars
<1>2. \A c \in U.comparators : c.line \in Present
  BY DEF TableInv, Pinning
<1>3. \A c \in U.comparators : Kept(c.line)
  BY <1>2, OrderAtRest
<1>4. TableInv(U)'
  BY <1>3, TablesKept
<1> QED
  BY <1>1, <1>4

-----------------------------------------------------------------------------
(***************************************************************************)
(* The rows of the transactions that a step does not move.                 *)
(***************************************************************************)
LEMMA RowKept ==
    ASSUME NEW x, Row(x), UNCHANGED <<receipt, corrections, comparators, observations, evaluations>>,
           \A o \in Nat : WorkflowLock(o) \in x.held => workflow'[o] = workflow[o],
           x.plan # Null => \A c \in x.plan.bound : Kept(c.line)
    PROVE  Row(x)'
<1>1. Rowed(x)' /\ Observed' = Observed /\ LineId' = LineId /\ Context' = Context
  BY DEF Row, Rowed, Observed, LineId, Context
<1>2. Asking(x) => Asking(x)'
  BY <1>1 DEF Asking
<1>3. Entering(x) => Entering(x)'
  BY <1>1 DEF Entering
<1>4. ASSUME NEW k \in 0..Len(observations), Locked(x, k) PROVE Locked(x, k)'
  <2>1. \A o \in 1..k : o \in Nat /\ WorkflowLock(o) \in x.held
    BY <1>4 DEF Locked
  <2> QED
    BY <1>1, <1>4, <2>1 DEF Locked, WorkflowLock
<1>5. x.plan # Null => PlanSound(x.plan)'
  <2> SUFFICES ASSUME x.plan # Null PROVE PlanSound(x.plan)'
    OBVIOUS
  <2>1. PICK p : p = x.plan
    OBVIOUS
  <2>2. PlanSound(p) /\ \A c \in p.bound : Kept(c.line)
    BY <2>1 DEF Row
  <2>3. EffectiveReceiptLine(corrections, p.line)' = EffectiveReceiptLine(corrections, p.line)
    BY DEF EffectiveReceiptLine, FactsAt
  <2>4. \A c \in p.bound : c.line \in Present' /\ Generation(c.line)' = Generation(c.line)
    BY <2>2 DEF Kept, Generation
  <2>5. PlanSound(p)'
    BY <1>1, <2>2, <2>3, <2>4 DEF PlanSound
  <2> QED
    BY <2>1, <2>5
<1>6. (\E k \in 0..Len(observations) : Locked(x, k)) => (\E k \in 0..Len(observations) : Locked(x, k))'
  BY <1>4
<1> QED
  BY <1>1, <1>2, <1>3, <1>5, <1>6 DEF Row


\* What a transaction with a plan holds.
LEMMA PlannedHolds ==
    ASSUME NEW x, Row(x), x.plan # Null
    PROVE  /\ ReceiptLock \in x.held /\ (receipt.order => OrderLock \in x.held)
           /\ x.plan.bound # {} => receipt.order
           /\ \A c \in x.plan.bound : c.line \in Present
<1>1. PlanSound(x.plan) /\ \E k \in 0..Len(observations) : Locked(x, k)
  BY DEF Row
<1>2. Context \subseteq x.held
  BY <1>1 DEF Locked
<1> QED
  BY <1>1, <1>2 DEF PlanSound, Context

LEMMA RowAtRest ==
    ASSUME NEW x, Row(x), UNCHANGED <<tableVars, lines, poCorrections>>
    PROVE  Row(x)'
<1>1. x.plan # Null => \A c \in x.plan.bound : Kept(c.line)
  BY PlannedHolds, OrderAtRest
<1> QED
  BY <1>1, RowKept DEF tableVars

\* Transaction t becomes y and every other one keeps its row.
LEMMA StagedRows ==
    ASSUME DOMAIN tx = Tx, NEW t \in Tx, NEW y, tx' = [tx EXCEPT ![t] = y], Row(y)',
           \A u \in Tx \ {t} : \E x : x = tx[u] /\ Row(x)'
    PROVE  DOMAIN tx' = Tx /\ Rows'
<1>1. DOMAIN tx' = Tx /\ tx'[t] = y /\ \A u \in Tx \ {t} : tx'[u] = tx[u]
  OBVIOUS
<1>2. ASSUME NEW u \in Tx PROVE Row(tx[u])'
  <2>1. PICK x : x = tx'[u] /\ Row(x)'
    BY <1>1
  <2> QED
    BY <2>1
<1> QED
  BY <1>1, <1>2 DEF Rows

LEMMA StagedLocks ==
    ASSUME Locking, DOMAIN tx = Tx, NEW t \in Tx, NEW y, tx' = [tx EXCEPT ![t] = y],
           \A u \in Tx \ {t} : y.held \cap tx[u].held = {},
           poLock' \in Tx \cup {Null}, poLock' = t <=> OrderLock \in y.held,
           \A u \in Tx \ {t} : poLock' = u <=> poLock = u
    PROVE  Locking'
<1>1. tx'[t] = y /\ \A u \in Tx \ {t} : tx'[u] = tx[u]
  OBVIOUS
<1>2. \A u \in Tx : poLock' = u <=> OrderLock \in tx'[u].held
  BY <1>1 DEF Locking
<1>3. \A u, v \in Tx : u # v => tx'[u].held \cap tx'[v].held = {}
  BY <1>1 DEF Locking
<1>4. OrderLock' = OrderLock
  BY DEF OrderLock
<1> QED
  BY <1>2, <1>3, <1>4 DEF Locking

\* A step that takes no lock and gives none back.
LEMMA StagedHolding ==
    ASSUME Locking, DOMAIN tx = Tx, NEW t \in Tx, NEW y, tx' = [tx EXCEPT ![t] = y],
           y.held = tx[t].held, UNCHANGED poLock
    PROVE  Locking'
<1>1. \A u \in Tx \ {t} : y.held \cap tx[u].held = {}
  BY DEF Locking
<1>2. poLock' \in Tx \cup {Null} /\ (poLock' = t <=> OrderLock \in y.held)
  BY DEF Locking
<1> QED
  BY <1>1, <1>2, StagedLocks

\* COMMIT and ROLLBACK.
LEMMA Released ==
    ASSUME Locking, DOMAIN tx = Tx, NEW t \in Tx, Release(t)
    PROVE  Locking' /\ Row(Free)' /\ tx' = [tx EXCEPT ![t] = Free]
<1>1. PICK y : y = Free
  OBVIOUS
<1>2. y.held = {} /\ y.kind = Null /\ y.plan = Null /\ y.todo = <<>> /\ y.ask = Null
  BY <1>1 DEF Free
<1>3. Null \notin Tx /\ Null \notin {"correct", "late", "status"}
  BY ReceiptCorrectionsAssumption
<1>4. tx' = [tx EXCEPT ![t] = y] /\ poLock' = IF poLock = t THEN Null ELSE poLock
  BY <1>1 DEF Release
<1>5. /\ \A u \in Tx \ {t} : y.held \cap tx[u].held = {}
      /\ poLock' \in Tx \cup {Null} /\ (poLock' = t <=> OrderLock \in y.held)
      /\ \A u \in Tx \ {t} : poLock' = u <=> poLock = u
  BY <1>2, <1>3, <1>4 DEF Locking
<1>6. Locking'
  BY <1>4, <1>5, StagedLocks
<1>7. Rowed(y)
  BY <1>1 DEF Rowed, Free
<1>8. Row(y)'
  BY <1>1, <1>2, <1>3, <1>7 DEF Row, Rowed
<1> QED
  BY <1>1, <1>4, <1>6, <1>8

-----------------------------------------------------------------------------
(***************************************************************************)
(* The invariant, step by step.                                            *)
(***************************************************************************)
LEMMA OrderNextInv ==
    ASSUME ReceiptInv, OrderNext, UNCHANGED correctionVars
    PROVE  ReceiptInv'
<1>1. /\ OrderInv' /\ status' = "ISSUED" /\ receipt' \in Captured /\ TableInv(Tables)'
      /\ \A p \in Present : Pinned(p) \/ poLock # Null => Kept(p)
      /\ UNCHANGED <<poLock, comparators>>
  BY OrderTables DEF ReceiptInv
<1>2. UNCHANGED <<receipt, corrections, comparators, observations, workflow, evaluations, tx>>
  BY <1>1 DEF correctionVars
<1>3. ASSUME NEW u \in Tx PROVE Row(tx[u])'
  <2>1. PICK x : x = tx[u]
    OBVIOUS
  <2>2. Row(x) /\ u # Null
    BY <2>1, ReceiptCorrectionsAssumption DEF ReceiptInv, Rows
  <2>3. ASSUME x.plan # Null, NEW c \in x.plan.bound PROVE Kept(c.line)
    <3>1. c.line \in Present /\ OrderLock \in x.held
      BY <2>2, <2>3, PlannedHolds
    <3>2. poLock = u
      BY <2>1, <3>1 DEF ReceiptInv, Locking
    <3> QED
      BY <1>1, <2>2, <3>1, <3>2
  <2>4. Row(x)'
    BY <1>2, <2>2, <2>3, RowKept
  <2>5. x = tx'[u]
    BY <1>2, <2>1
  <2> QED
    BY <2>4, <2>5
<1>4. Locking'
  BY <1>1, <1>2 DEF ReceiptInv, Locking, OrderLock
<1> QED
  BY <1>1, <1>2, <1>3, <1>4 DEF ReceiptInv, Rows

\* A step of one transaction that leaves the tables alone.
LEMMA TransactionInv ==
    ASSUME ReceiptInv, NEW t \in Tx, NEW y, tx' = [tx EXCEPT ![t] = y], Row(y), Locking',
           UNCHANGED <<tableVars, catalog, status, lines, poCorrections>>
    PROVE  ReceiptInv'
<1>1. OrderInv' /\ status' = "ISSUED" /\ receipt' \in Captured /\ TableInv(Tables)'
  BY TransactionTables DEF ReceiptInv
<1>2. ASSUME NEW u \in Tx \ {t} PROVE \E x : x = tx[u] /\ Row(x)'
  <2>1. PICK x : x = tx[u]
    OBVIOUS
  <2>2. Row(x)
    BY <2>1 DEF ReceiptInv, Rows
  <2>3. Row(x)'
    BY <2>2, RowAtRest
  <2> QED
    BY <2>1, <2>3
<1>3. Row(y)'
  BY RowAtRest
<1>4. DOMAIN tx = Tx
  BY DEF ReceiptInv
<1>5. DOMAIN tx' = Tx /\ Rows'
  BY <1>2, <1>3, <1>4, StagedRows
<1> QED
  BY <1>1, <1>5 DEF ReceiptInv

LEMMA LockNames ==
    /\ OrderLock # ReceiptLock /\ OrderLock[1] # "workflow" /\ ReceiptLock[1] # "workflow"
    /\ \A o : /\ WorkflowLock(o) # OrderLock /\ WorkflowLock(o) # ReceiptLock
              /\ WorkflowLock(o)[1] = "workflow" /\ WorkflowLock(o)[2] = o
    /\ \A o, q : WorkflowLock(o) = WorkflowLock(q) => o = q
    /\ OrderLock \in LockName /\ ReceiptLock \in LockName
    /\ \A o \in Nat : WorkflowLock(o) \in LockName
BY DEF OrderLock, ReceiptLock, WorkflowLock, LockName

\* An idle transaction opens the context of the receipt.
LEMMA OpenContextInv ==
    ASSUME ReceiptInv, NEW t \in Tx, NEW kind \in {"correct", "late"}, OpenContext(t, kind)
    PROVE  ReceiptInv'
<1>1. PICK y : y = [Free EXCEPT !.kind = kind, !.todo = LockPlan(kind)]
  OBVIOUS
<1>2. Row(tx[t]) /\ tx[t].kind = Null
  BY DEF ReceiptInv, Rows, OpenContext
<1>3. tx[t] = Free
  BY <1>2 DEF Row
<1>4. tx' = [tx EXCEPT ![t] = y]
  BY <1>1, <1>3 DEF OpenContext, Stage
<1>5. /\ y.kind = kind /\ y.held = {} /\ y.todo = LockPlan(kind) /\ y.seen = <<>> /\ y.ask = Null
      /\ y.plan = Null /\ tx[t].held = {}
  BY <1>1, <1>3 DEF Free
<1>6. Null # kind /\ kind # "status"
  BY ReceiptCorrectionsAssumption
<1>7. LockPlan(kind) \in Seq(LockName)
  BY LockNames DEF LockPlan
<1>8. Rowed(y)
  BY <1>1, <1>7 DEF Rowed, Free
<1>9. Entering(y)
  BY <1>5 DEF Entering, LockPlan
<1>10. Row(y)
  BY <1>5, <1>6, <1>8, <1>9 DEF Row
<1>11. UNCHANGED poLock /\ UNCHANGED <<tableVars, catalog, status, lines, poCorrections>>
  BY DEF OpenContext, tableVars, poVars
<1>12. Locking'
  BY <1>4, <1>5, <1>11, StagedHolding DEF ReceiptInv
<1> QED
  BY <1>4, <1>10, <1>11, <1>12, TransactionInv

\* An idle transaction asks for a status.
LEMMA AskStatusInv ==
    ASSUME ReceiptInv, NEW t \in Tx, NEW o \in Observed, NEW from \in Edges!Status,
           NEW to \in Edges!Status, AskStatus(t, o, from, to)
    PROVE  ReceiptInv'
<1>1. PICK a : a = [target |-> o, expected |-> from, to |-> to]
  OBVIOUS
<1>2. o \in Nat
  BY Counting DEF ReceiptInv, TableInv, Tables, Observed
<1>3. a \in Ask /\ a.target = o
  BY <1>1, <1>2 DEF Ask
<1>4. PICK y : y = [Free EXCEPT !.kind = "status", !.todo = <<WorkflowLock(o)>>, !.ask = a]
  OBVIOUS
<1>5. Row(tx[t]) /\ tx[t].kind = Null
  BY DEF ReceiptInv, Rows, AskStatus
<1>6. tx[t] = Free
  BY <1>5 DEF Row
<1>7. tx' = [tx EXCEPT ![t] = y]
  BY <1>1, <1>4, <1>6 DEF AskStatus, Stage
<1>8. /\ y.kind = "status" /\ y.held = {} /\ y.todo = <<WorkflowLock(o)>> /\ y.ask = a
      /\ y.plan = Null /\ tx[t].held = {}
  BY <1>4, <1>6 DEF Free
<1>9. Null # "status"
  BY ReceiptCorrectionsAssumption
<1>10. <<WorkflowLock(o)>> \in Seq(LockName)
  BY <1>2, LockNames
<1>11. Rowed(y)
  BY <1>3, <1>4, <1>10 DEF Rowed, Free
<1>12. Asking(y)
  BY <1>3, <1>8 DEF Asking
<1>13. Row(y)
  BY <1>8, <1>9, <1>11, <1>12 DEF Row
<1>14. UNCHANGED poLock /\ UNCHANGED <<tableVars, catalog, status, lines, poCorrections>>
  BY DEF AskStatus, tableVars, poVars
<1>15. Locking'
  BY <1>7, <1>8, <1>14, StagedHolding DEF ReceiptInv
<1> QED
  BY <1>7, <1>13, <1>14, <1>15, TransactionInv

LEMMA RollbackInv ==
    ASSUME ReceiptInv, NEW t \in Tx, Rollback(t)
    PROVE  ReceiptInv'
<1>1. Locking' /\ Row(Free)' /\ tx' = [tx EXCEPT ![t] = Free]
  BY Released DEF ReceiptInv, Rollback
<1>2. PICK y : y = Free
  OBVIOUS
<1>3. y.kind = Null /\ y.plan = Null /\ Null \notin {"correct", "late", "status"}
  BY <1>2, ReceiptCorrectionsAssumption DEF Free
<1>4. Rowed(y)
  BY <1>2 DEF Rowed, Free
<1>5. Row(y)
  BY <1>2, <1>3, <1>4 DEF Row
<1>6. UNCHANGED <<tableVars, catalog, status, lines, poCorrections>>
  BY DEF Rollback, tableVars
<1> QED
  BY <1>1, <1>2, <1>5, <1>6, TransactionInv

\* Transaction x is granted k, the first lock of its list, and becomes y.
Grants(x, k, y) ==
    /\ x.todo # <<>> /\ k = Head(x.todo)
    /\ y = [x EXCEPT !.held = @ \cup {k}, !.todo = Tail(@), !.seen = Reading(@, k)]

LEMMA GrantedFields ==
    ASSUME NEW x, NEW y, NEW k, Rowed(x), Grants(x, k, y)
    PROVE  /\ y.held = x.held \cup {k} /\ y.todo = Tail(x.todo) /\ y.seen = Reading(x.seen, k)
           /\ y.kind = x.kind /\ y.ask = x.ask /\ y.plan = x.plan
           /\ x.todo # <<>> /\ k = Head(x.todo) /\ Rowed(y)
<1>1. /\ y.held = x.held \cup {k} /\ y.todo = Tail(x.todo) /\ y.seen = Reading(x.seen, k)
      /\ y.kind = x.kind /\ y.ask = x.ask /\ y.plan = x.plan
      /\ x.todo # <<>> /\ k = Head(x.todo)
  BY DEF Rowed, Grants
<1>2. k \in LockName /\ Tail(x.todo) \in Seq(LockName)
  BY <1>1 DEF Rowed
<1>3. Rowed(y)
  BY <1>1, <1>2 DEF Rowed, Grants
<1> QED
  BY <1>1, <1>3

LEMMA GrantedStatus ==
    ASSUME NEW x, NEW y, NEW k, Rowed(x), Asking(x), Grants(x, k, y)
    PROVE  Asking(y)
<1>0. /\ x.todo # <<>> /\ k = Head(x.todo)
      /\ y.held = x.held \cup {k} /\ y.todo = Tail(x.todo) /\ y.plan = x.plan /\ y.ask = x.ask
  BY GrantedFields
<1>1. PICK w : w = WorkflowLock(x.ask.target)
  OBVIOUS
<1>2. x.held = {} /\ x.todo = <<w>>
  BY <1>0, <1>1 DEF Asking
<1>3. Head(<<w>>) = w /\ Tail(<<w>>) = <<>>
  OBVIOUS
<1>4. y.held = {w} /\ y.todo = <<>>
  BY <1>0, <1>2, <1>3
<1> QED
  BY <1>0, <1>1, <1>4 DEF Asking

LEMMA GrantedContext ==
    ASSUME NEW x, NEW y, NEW k, Rowed(x), Entering(x), Grants(x, k, y)
    PROVE  Entering(y)
<1>0. /\ x.todo # <<>> /\ k = Head(x.todo)
      /\ y.held = x.held \cup {k} /\ y.todo = Tail(x.todo) /\ y.seen = Reading(x.seen, k)
  BY GrantedFields
<1>1. PICK a, b : a = OrderLock /\ b = ReceiptLock
  OBVIOUS
<1>2. /\ Head(<<a, b>>) = a /\ Tail(<<a, b>>) = <<b>>
      /\ Head(<<b>>) = b /\ Tail(<<b>>) = <<>>
  OBVIOUS
<1>3. \/ receipt.order /\ x.held = {} /\ x.todo = <<a, b>>
      \/ receipt.order /\ x.held = {a} /\ x.todo = <<b>>
      \/ ~ receipt.order /\ x.held = {} /\ x.todo = <<b>>
  BY <1>0, <1>1 DEF Entering
<1>4. k \in {a, b}
  BY <1>0, <1>2, <1>3
<1>5. y.seen = x.seen
  BY <1>0, <1>1, <1>4, LockNames DEF Reading
<1>6. \/ receipt.order /\ y.held = {a} /\ y.todo = <<b>>
      \/ y.held = Context /\ y.todo = <<>>
  BY <1>0, <1>1, <1>2, <1>3 DEF Context
<1> QED
  BY <1>1, <1>5, <1>6 DEF Entering

LEMMA GrantedWorkflow ==
    ASSUME NEW x, NEW y, NEW k, NEW n, n = Len(observations), n \in Nat, NEW j \in 0..n, Locked(x, j),
           Rowed(x), Grants(x, k, y)
    PROVE  j + 1 \in 0..n /\ Locked(y, j + 1)
<1>0. /\ x.todo # <<>> /\ k = Head(x.todo)
      /\ y.held = x.held \cup {k} /\ y.todo = Tail(x.todo) /\ y.seen = Reading(x.seen, k)
  BY GrantedFields
<1>1. PICK f : f = [i \in 1..(n - j) |-> WorkflowLock(j + i)]
  OBVIOUS
<1>2. x.todo = f
  BY <1>1 DEF Locked
<1>3. n - j \in Nat
  OBVIOUS
<1>4. PICK R, m : R = {f[i] : i \in 1..(n - j)} /\ m = n - j
  OBVIOUS
<1>4a. m \in Nat /\ f \in [1..m -> R]
  BY <1>1, <1>3, <1>4
<1>4b. f \in Seq(R) /\ Len(f) = m
  BY <1>4a
<1>5. m # 0
  BY <1>0, <1>2, <1>4b
<1>6. j + 1 \in 0..n /\ 1 \in 1..(n - j) /\ n - (j + 1) = (n - j) - 1 /\ n - (j + 1) \in Nat
  BY <1>3, <1>4, <1>5
<1>7. k = WorkflowLock(j + 1)
  BY <1>0, <1>1, <1>2, <1>4, <1>4b, <1>6
<1>8. Tail(f) = [i \in 1..((n - j) - 1) |-> f[i + 1]]
  <2>1. PICK u, d : u = Tail(f) /\ d = m - 1
    OBVIOUS
  <2>2. f # <<>> /\ d \in Nat
    BY <1>0, <1>2, <1>4a, <1>5, <2>1
  <2>3. u \in Seq(R) /\ Len(u) = d /\ \A i \in 1..d : u[i] = f[i + 1]
    BY <1>4b, <2>1, <2>2, HeadTailProperties
  <2>4. u = [i \in 1..d |-> u[i]]
    BY <2>3, LenProperties
  <2>5. u = [i \in 1..d |-> f[i + 1]]
    BY <2>3, <2>4
  <2> QED
    BY <1>4, <2>1, <2>5
<1>9. \A i \in 1..(n - (j + 1)) : i + 1 \in 1..(n - j) /\ j + (i + 1) = (j + 1) + i
  BY <1>3, <1>6
<1>10. \A i \in 1..(n - (j + 1)) : f[i + 1] = WorkflowLock((j + 1) + i)
  BY <1>1, <1>9
<1>11. y.todo = [i \in 1..(n - (j + 1)) |-> WorkflowLock((j + 1) + i)]
  BY <1>0, <1>2, <1>6, <1>8, <1>10
<1>12. \A i : i \in 1..(j + 1) <=> i \in 1..j \/ i = j + 1
  BY <1>6
<1>13. x.held = Context \cup {WorkflowLock(o) : o \in 1..j}
  BY DEF Locked
<1>14. y.held = Context \cup {WorkflowLock(o) : o \in 1..(j + 1)}
  BY <1>0, <1>7, <1>12, <1>13
<1>15. DOMAIN x.seen = 1..j /\ \A o \in 1..j : x.seen[o] = workflow[o]
  BY DEF Locked
<1>16. k[1] = "workflow" /\ k[2] = j + 1
  BY <1>7, LockNames
<1>17. y.seen = [o \in 1..j \cup {j + 1} |-> IF o = j + 1 THEN workflow[o] ELSE x.seen[o]]
  BY <1>0, <1>15, <1>16 DEF Reading
<1>18. DOMAIN y.seen = 1..(j + 1) /\ \A o \in 1..(j + 1) : y.seen[o] = workflow[o]
  BY <1>12, <1>15, <1>17
<1> QED
  BY <1>6, <1>11, <1>14, <1>18 DEF Locked

LEMMA Granted ==
    ASSUME NEW x, NEW y, NEW k, Row(x), Len(observations) \in Nat, Grants(x, k, y)
    PROVE  Row(y) /\ y.held = x.held \cup {k}
<1>1. Rowed(x)
  BY DEF Row
<1>2. /\ y.held = x.held \cup {k} /\ y.kind = x.kind /\ y.plan = x.plan /\ Rowed(y) /\ x.todo # <<>>
  BY <1>1, GrantedFields
<1>3. x.kind # Null
  BY <1>2 DEF Row, Free
<1>4. x.kind = "status" => Asking(y)
  BY <1>1, GrantedStatus DEF Row
<1>5. x.kind \in {"correct", "late"} /\ x.plan = Null => Entering(y)
  BY <1>1, GrantedContext DEF Row
<1>6. x.plan # Null => x.kind = "correct" /\ PlanSound(x.plan) /\ \E j \in 0..Len(observations) : Locked(y, j)
  <2> SUFFICES ASSUME x.plan # Null
               PROVE  x.kind = "correct" /\ PlanSound(x.plan) /\ \E j \in 0..Len(observations) : Locked(y, j)
    OBVIOUS
  <2>1. PICK n : n = Len(observations)
    OBVIOUS
  <2>2. PICK j \in 0..n : Locked(x, j)
    BY <2>1 DEF Row
  <2>3. j + 1 \in 0..n /\ Locked(y, j + 1)
    BY <1>1, <2>1, <2>2, GrantedWorkflow
  <2> QED
    BY <2>1, <2>3 DEF Row
<1> QED
  BY <1>2, <1>3, <1>4, <1>5, <1>6 DEF Row

LEMMA AcquireInv ==
    ASSUME ReceiptInv, NEW t \in Tx, Acquire(t)
    PROVE  ReceiptInv'
<1>1. PICK x, k : x = tx[t] /\ k = Head(x.todo)
  OBVIOUS
<1>2. PICK y : y = [x EXCEPT !.held = @ \cup {k}, !.todo = Tail(@), !.seen = Reading(@, k)]
  OBVIOUS
<1>3. Row(x) /\ x.todo # <<>> /\ Len(observations) \in Nat
  BY <1>1, Counting DEF ReceiptInv, Rows, TableInv, Tables, Acquire
<1>4. Row(y) /\ y.held = x.held \cup {k}
  <2>1. Grants(x, k, y)
    BY <1>1, <1>2, <1>3 DEF Grants
  <2> QED
    BY <1>3, <2>1, Granted
<1>5. /\ Holders(k) = {} /\ tx' = [tx EXCEPT ![t] = y]
      /\ IF k = OrderLock THEN poLock = Null /\ poLock' = t ELSE poLock' = poLock
  BY <1>1, <1>2 DEF Acquire, Stage
<1>6. \A u \in Tx \ {t} : y.held \cap tx[u].held = {}
  BY <1>1, <1>4, <1>5 DEF Holders, ReceiptInv, Locking
<1>7. Null \notin Tx
  BY ReceiptCorrectionsAssumption
<1>8. poLock' \in Tx \cup {Null} /\ (poLock' = t <=> OrderLock \in y.held)
  BY <1>1, <1>4, <1>5, <1>7 DEF ReceiptInv, Locking
<1>9. \A u \in Tx \ {t} : poLock' = u <=> poLock = u
  BY <1>5, <1>7
<1>10. Locking'
  BY <1>5, <1>6, <1>8, <1>9, StagedLocks DEF ReceiptInv
<1>11. UNCHANGED <<tableVars, catalog, status, lines, poCorrections>>
  BY DEF Acquire, tableVars
<1> QED
  BY <1>4, <1>5, <1>10, <1>11, TransactionInv

LEMMA HeadTyped ==
    ASSUME receipt \in Captured, Shape(Tables), NEW l \in LineId
    PROVE  EffectiveReceiptLine(corrections, l) \in ReceiptLine
<1>1. PICK s : s = corrections[l]
  OBVIOUS
<1>2. s \in Seq(LinePair) /\ Len(s) \in Nat
  BY <1>1, Counting DEF Tables
<1>3. receipt.lines[l] \in ReceiptLine
  BY ReceiptLines
<1>4. CASE Len(s) = 0
  BY <1>1, <1>3, <1>4 DEF EffectiveReceiptLine, FactsAt
<1>5. CASE Len(s) # 0
  <2>1. s[Len(s)] \in LinePair
    BY <1>2, <1>5
  <2> QED
    BY <1>1, <1>5, <2>1 DEF EffectiveReceiptLine, FactsAt, LinePair
<1> QED
  BY <1>4, <1>5

\* The given values replace facts by facts of the same type.
LEMMA ReplacedTyped ==
    ASSUME NEW head \in ReceiptLine, NEW values \in Changes
    PROVE  Replaced(head, values) \in ReceiptLine
<1>1. CorrectableFacts(values)
  BY ReceiptCorrectionsAssumption
<1>2. PICK a, b, c, d, e, f, g :
         /\ a = Given(values, "poLine", head.poLine) /\ b = Given(values, "item", head.item)
         /\ c = Given(values, "quantity", head.quantity) /\ d = Given(values, "uom", head.uom)
         /\ e = Given(values, "condition", head.condition)
         /\ f = Given(values, "packing", head.packing) /\ g = Given(values, "serial", head.serial)
  OBVIOUS
<1>3. Replaced(head, values)
      = [head EXCEPT !.poLine = a, !.item = b, !.quantity = c, !.uom = d, !.condition = e,
                     !.packing = f, !.serial = g]
  BY <1>2 DEF Replaced
<1>4. /\ values["poLine"] = values.poLine /\ values["item"] = values.item
      /\ values["quantity"] = values.quantity /\ values["uom"] = values.uom
      /\ values["condition"] = values.condition /\ values["packing"] = values.packing
      /\ values["serial"] = values.serial
  OBVIOUS
<1>5. /\ a \in PoLine \cup {Null} /\ b \in Item /\ c \in Nat \ {0} /\ d \in Uom /\ e \in Condition
      /\ f \in Nat \cup {Null} /\ g \in Serials
  BY <1>1, <1>2, <1>4 DEF Given, CorrectableFacts, ReceiptLine
<1> QED
  BY <1>3, <1>5 DEF ReceiptLine

LEMMA IntroducedRows ==
    ASSUME OrderShape, Shape(Tables), NEW p \in PoLine \cup {Null}, NEW expected, BindingAdmitted(p, expected),
           NEW B, B = Introduced(p)
    PROVE  /\ B \subseteq Comparator /\ IsFiniteSet(B)
           /\ \A c \in B : /\ receipt.order /\ c.receipt = Receipt /\ c.line \in Present
                           /\ c.generation = Generation(c.line)
                           /\ c.introduced = Len(evaluations) + 1
           /\ p # Null => \E c \in comparators \cup B : c.line = p
<1>1. PICK c : c = [receipt |-> Receipt, line |-> p, generation |-> Generation(p),
                    introduced |-> Len(evaluations) + 1]
  OBVIOUS
<1>2. c.receipt = Receipt /\ c.line = p /\ c.generation = Generation(p) /\ c.introduced = Len(evaluations) + 1
  BY <1>1
<1>3. CASE p = Null \/ \E o \in OwnComparators : o.line = p
  <2>1. B = {} /\ IsFiniteSet({})
    BY <1>3, FS_EmptySet DEF Introduced
  <2> QED
    BY <1>3, <2>1 DEF OwnComparators, Own
<1>4. CASE ~ (p = Null \/ \E o \in OwnComparators : o.line = p)
  <2>1. B = {c} /\ IsFiniteSet({c})
    BY <1>1, <1>4, FS_Singleton DEF Introduced
  <2>2. receipt.order /\ p \in Present /\ p \in PoLine
    BY <1>4 DEF BindingAdmitted, ActiveSelection
  <2>3. Len(evaluations) \in Nat
    BY Counting DEF Tables
  <2>4. Generation(p) \in Nat
    <3>1. poCorrections[p] \in Seq(LineCorrection)
      BY <2>2 DEF OrderShape
    <3> QED
      BY <3>1 DEF Generation
  <2>5. c \in Comparator
    BY <1>1, <2>2, <2>3, <2>4 DEF Comparator
  <2> QED
    BY <1>2, <2>1, <2>2, <2>5
<1> QED
  BY <1>3, <1>4

LEMMA PlanMade ==
    ASSUME receipt \in Captured, OrderShape, Shape(Tables), NEW l \in LineId, NEW values \in Changes,
           NEW head, head = EffectiveReceiptLine(corrections, l), NEW new, new = Overlay(l, values),
           NEW expected, BindingAdmitted(new.poLine, expected), NEW p,
           p = [line |-> l, pair |-> [reversal |-> head, corrected |-> new],
                bound |-> Introduced(new.poLine)]
    PROVE  p \in CorrectionPlan /\ PlanSound(p)
<1>1. head \in ReceiptLine
  BY HeadTyped
<1>2. new \in ReceiptLine
  BY <1>1, ReplacedTyped DEF Overlay
<1>3. PICK B, a : B = Introduced(new.poLine) /\ a = new.poLine
  OBVIOUS
<1>4. a \in PoLine \cup {Null} /\ BindingAdmitted(a, expected) /\ B = Introduced(a)
  BY <1>2, <1>3 DEF ReceiptLine
<1>5. /\ B \subseteq Comparator /\ IsFiniteSet(B)
      /\ \A c \in B : /\ receipt.order /\ c.receipt = Receipt /\ c.line \in Present
                      /\ c.generation = Generation(c.line)
                      /\ c.introduced = Len(evaluations) + 1
      /\ a # Null => \E c \in comparators \cup B : c.line = a
  BY <1>4, IntroducedRows
<1>6. PICK w : w = [reversal |-> head, corrected |-> new]
  OBVIOUS
<1>7. w \in LinePair /\ w.reversal = head /\ w.corrected = new
  BY <1>1, <1>2, <1>6 DEF LinePair
<1>8. p = [line |-> l, pair |-> w, bound |-> B]
  BY <1>3, <1>6
<1>9. p.line = l /\ p.pair = w /\ p.bound = B
  BY <1>8
<1>10. l \in Nat
  BY ReceiptLines
<1>11. p \in CorrectionPlan
  BY <1>5, <1>7, <1>8, <1>10 DEF CorrectionPlan
<1>12. PlanSound(p)
  BY <1>3, <1>5, <1>7, <1>9 DEF PlanSound
<1> QED
  BY <1>11, <1>12

\* The transaction waits for every workflow and has locked none.
LEMMA PlanLocks ==
    ASSUME Shape(Tables), NEW x, Entering(x), x.todo = <<>>, NEW y, y.held = x.held, y.seen = x.seen,
           y.todo = WorkflowPlan
    PROVE  Locked(y, 0) /\ 0 \in 0..Len(observations) /\ WorkflowPlan \in Seq(LockName)
<1>1. PICK n : n = Len(observations) /\ n \in Nat /\ Observed = 1..n
  BY Counting DEF Tables, Observed
<1>2. x.held = Context /\ DOMAIN x.seen = {}
  <2>1. PICK a, b : a = OrderLock /\ b = ReceiptLock
    OBVIOUS
  <2>2. <<a, b>> # <<>> /\ <<b>> # <<>>
    OBVIOUS
  <2> QED
    BY <2>1, <2>2 DEF Entering
<1>3. n - 0 = n /\ \A i \in 1..n : 0 + i = i
  BY <1>1
<1>4. y.todo = [i \in 1..(n - 0) |-> WorkflowLock(0 + i)]
  <2>1. y.todo = [i \in 1..n |-> WorkflowLock(i)]
    BY <1>1 DEF WorkflowPlan
  <2>2. \A i \in 1..n : WorkflowLock(0 + i) = WorkflowLock(i)
    BY <1>3
  <2> QED
    BY <1>3, <2>1, <2>2
<1>5. 1..0 = {} /\ {WorkflowLock(o) : o \in 1..0} = {}
  OBVIOUS
<1>6. WorkflowPlan \in Seq(LockName)
  <2>1. \A i \in 1..n : WorkflowLock(i) \in LockName
    BY <1>1, LockNames
  <2>2. WorkflowPlan \in [1..n -> LockName]
    BY <1>1, <2>1 DEF WorkflowPlan
  <2>3. PICK L, w : L = LockName /\ w = WorkflowPlan
    OBVIOUS
  <2>4. w \in [1..n -> L]
    BY <2>2, <2>3
  <2>5. w \in Seq(L)
    BY <1>1, <2>4, FunctionIsSeq
  <2> QED
    BY <2>3, <2>5
<1> QED
  BY <1>1, <1>2, <1>4, <1>5, <1>6 DEF Locked

LEMMA PlanCorrectionInv ==
    ASSUME ReceiptInv, NEW t \in Tx, NEW l \in LineId, NEW g, NEW e, NEW v \in Changes,
           PlanCorrection(t, l, g, e, v)
    PROVE  ReceiptInv'
<1>1. PICK x, head, new :
         x = tx[t] /\ head = EffectiveReceiptLine(corrections, l) /\ new = Overlay(l, v)
  OBVIOUS
<1>2. PICK p : p = [line |-> l, pair |-> [reversal |-> head, corrected |-> new],
                    bound |-> Introduced(new.poLine)]
  OBVIOUS
<1>3. PICK todo : todo = WorkflowPlan
  OBVIOUS
<1>4. PICK y : y = [x EXCEPT !.plan = p, !.todo = todo]
  OBVIOUS
<1>5. /\ x.kind = "correct" /\ x.todo = <<>> /\ x.plan = Null /\ BindingAdmitted(new.poLine, e)
      /\ tx' = [tx EXCEPT ![t] = y]
  BY <1>1, <1>2, <1>3, <1>4 DEF PlanCorrection, Stage
<1>6. receipt \in Captured /\ OrderShape /\ Shape(Tables) /\ Row(x)
  BY <1>1 DEF ReceiptInv, OrderInv, TableInv, Rows
<1>7. p \in CorrectionPlan /\ PlanSound(p)
  BY <1>1, <1>2, <1>5, <1>6, PlanMade
<1>8. p # Null /\ "correct" # Null
  BY <1>7, ReceiptCorrectionsAssumption
<1>9. Rowed(x) /\ Entering(x)
  BY <1>5, <1>6 DEF Row
<1>10. /\ y.kind = x.kind /\ y.held = x.held /\ y.todo = todo /\ y.seen = x.seen
       /\ y.plan = p
  BY <1>4, <1>9 DEF Rowed
<1>11. Locked(y, 0) /\ 0 \in 0..Len(observations) /\ todo \in Seq(LockName)
  BY <1>3, <1>5, <1>6, <1>9, <1>10, PlanLocks
<1>12. Rowed(y)
  BY <1>4, <1>7, <1>9, <1>11 DEF Rowed
<1>13. Row(y)
  BY <1>5, <1>7, <1>8, <1>10, <1>11, <1>12 DEF Row
<1>14. UNCHANGED poLock /\ UNCHANGED <<tableVars, catalog, status, lines, poCorrections>>
  BY DEF PlanCorrection, tableVars, poVars
<1>15. Locking'
  BY <1>1, <1>5, <1>10, <1>14, StagedHolding DEF ReceiptInv
<1> QED
  BY <1>5, <1>13, <1>14, <1>15, TransactionInv

\* A person commits: only the workflow that the transaction holds has moved.
LEMMA CommitStatusInv ==
    ASSUME ReceiptInv, NEW t \in Tx, CommitStatus(t)
    PROVE  ReceiptInv'
<1>1. PICK x, a, T, U : x = tx[t] /\ a = x.ask /\ T = Tables /\ U = Tables'
  OBVIOUS
<1>2. PICK o, to : o = a.target /\ to = a.to
  OBVIOUS
<1>3. Row(x) /\ x.kind = "status" /\ x.todo = <<>>
  BY <1>1 DEF ReceiptInv, Rows, CommitStatus
<1>4. o \in Observed /\ x.held = {WorkflowLock(o)}
  BY <1>1, <1>2, <1>3 DEF Row, Asking
<1>5. /\ to \in Edges!WORKFLOW[workflow[o].status]
      /\ events' = [events EXCEPT ![o] = Append(@, [from |-> workflow[o].status, to |-> to, cause |-> 0])]
      /\ workflow' = [workflow EXCEPT ![o] = [status |-> to, seq |-> workflow[o].seq + 1]]
      /\ Release(t)
      /\ UNCHANGED <<catalog, status, lines, poCorrections, comparators, receipt, corrections,
                     observations, evaluations>>
  BY <1>1, <1>2 DEF CommitStatus, MoveAdmitted
<1>6. /\ T.corrections = corrections /\ T.comparators = comparators /\ T.observations = observations
      /\ T.workflow = workflow /\ T.events = events /\ T.evaluations = evaluations
      /\ U.corrections = corrections' /\ U.comparators = comparators' /\ U.observations = observations'
      /\ U.workflow = workflow' /\ U.events = events' /\ U.evaluations = evaluations'
  BY <1>1 DEF Tables
<1>7. Moved(T, U, o, to)
  BY <1>4, <1>5, <1>6 DEF Moved, Observed
<1>8. TableInv(T)
  BY <1>1 DEF ReceiptInv
<1>9. TableInv(U)
  BY <1>7, <1>8, MovedTables
<1>10. OrderInv' /\ status' = "ISSUED" /\ receipt' \in Captured /\ TableInv(Tables)'
  BY <1>1, <1>5, <1>9, CommitTables DEF ReceiptInv
<1>11. Locking' /\ Row(Free)' /\ tx' = [tx EXCEPT ![t] = Free] /\ DOMAIN tx = Tx
  BY <1>5, Released DEF ReceiptInv
<1>12. ASSUME NEW u \in Tx \ {t} PROVE \E z : z = tx[u] /\ Row(z)'
  <2>1. PICK z : z = tx[u]
    OBVIOUS
  <2>2. Row(z) /\ z.held \cap x.held = {}
    BY <1>1, <2>1 DEF ReceiptInv, Rows, Locking
  <2>3. \A q \in Nat : WorkflowLock(q) \in z.held => workflow'[q] = workflow[q]
    BY <1>4, <1>5, <2>2
  <2>4. z.plan # Null => \A c \in z.plan.bound : Kept(c.line)
    BY <1>5, <2>2, PlannedHolds, OrderAtRest
  <2>5. Row(z)'
    BY <1>5, <2>2, <2>3, <2>4, RowKept
  <2> QED
    BY <2>1, <2>5
<1>13. PICK y : y = Free
  OBVIOUS
<1>14. Row(y)' /\ tx' = [tx EXCEPT ![t] = y]
  BY <1>11, <1>13
<1>15. DOMAIN tx' = Tx /\ Rows'
  BY <1>11, <1>12, <1>14, StagedRows
<1> QED
  BY <1>10, <1>11, <1>15 DEF ReceiptInv

\* A transaction without a plan does not mind a correction of the receipt.
LEMMA RowWithoutPlan ==
    ASSUME NEW x, Row(x), x.plan = Null, UNCHANGED receipt, \A o : o \in Observed => o \in Observed'
    PROVE  Row(x)'
<1>1. Rowed(x)' /\ Context' = Context
  BY DEF Row, Rowed, Context
<1>2. Asking(x) => Asking(x)'
  BY DEF Asking
<1>3. Entering(x) => Entering(x)'
  BY <1>1 DEF Entering
<1> QED
  BY <1>1, <1>2, <1>3 DEF Row

LEMMA CommitCorrectionInv ==
    ASSUME ReceiptInv, NEW t \in Tx, CommitCorrection(t)
    PROVE  ReceiptInv'
<1>1. PICK x, T, U : x = tx[t] /\ T = Tables /\ U = After(t)
  OBVIOUS
<1>2. Row(x) /\ x.plan # Null /\ Evaluating(t) /\ Release(t)
      /\ UNCHANGED <<receipt, catalog, status, lines, poCorrections>>
  BY <1>1 DEF ReceiptInv, Rows, CommitCorrection, Evaluating
<1>3. TableInv(U)
  BY <1>1, <1>2, AfterSound DEF ReceiptInv
<1>4. PICK a, b, c, d, e, f : U = [corrections |-> a, comparators |-> b, observations |-> c,
                                   workflow |-> d, events |-> e, evaluations |-> f]
  BY <1>1 DEF After
<1>5. U = Tables'
  BY <1>1, <1>4 DEF CommitCorrection, Tables
<1>6. OrderInv' /\ status' = "ISSUED" /\ receipt' \in Captured /\ TableInv(Tables)'
  BY <1>2, <1>3, <1>5, CommitTables DEF ReceiptInv
<1>7. Locking' /\ Row(Free)' /\ tx' = [tx EXCEPT ![t] = Free] /\ DOMAIN tx = Tx
  BY <1>2, Released DEF ReceiptInv
<1>8. \A o : o \in Observed => o \in Observed'
  <2>1. PICK p : p = tx[t].plan
    OBVIOUS
  <2>2. TableInv(T) /\ receipt \in Captured
    BY <1>1 DEF ReceiptInv
  <2>3. PICK D, sup, N, K, F : Renews(T, U, p, D, sup, N, K, F)
    BY <1>1, <1>2, <2>1, <2>2, AfterRenews DEF TableInv
  <2>4. Len(U.observations) = K + F /\ K = Len(T.observations) /\ F \in Nat
    BY <2>3 DEF Renews, AppendsObservations
  <2>5. K \in Nat /\ DOMAIN T.observations = 1..K /\ DOMAIN U.observations = 1..(K + F)
    BY <1>3, <2>2, <2>4, Counting DEF TableInv
  <2>6. Observed = DOMAIN T.observations /\ Observed' = DOMAIN U.observations
    BY <1>1, <1>5 DEF Observed, Tables
  <2> QED
    BY <2>4, <2>5, <2>6
<1>9. ReceiptLock \in x.held
  BY <1>2, PlannedHolds
<1>10. ASSUME NEW u \in Tx \ {t} PROVE \E z : z = tx[u] /\ Row(z)'
  <2>1. PICK z : z = tx[u]
    OBVIOUS
  <2>2. Row(z) /\ z.held \cap x.held = {}
    BY <1>1, <2>1 DEF ReceiptInv, Rows, Locking
  <2>3. z.plan = Null
    BY <1>9, <2>2, PlannedHolds
  <2>4. Row(z)'
    BY <1>2, <1>8, <2>2, <2>3, RowWithoutPlan
  <2> QED
    BY <2>1, <2>4
<1>11. PICK y : y = Free
  OBVIOUS
<1>12. Row(y)' /\ tx' = [tx EXCEPT ![t] = y]
  BY <1>7, <1>11
<1>13. DOMAIN tx' = Tx /\ Rows'
  BY <1>7, <1>10, <1>12, StagedRows
<1> QED
  BY <1>6, <1>7, <1>13 DEF ReceiptInv

-----------------------------------------------------------------------------
(***************************************************************************)
(* The sealed receipt and its issued order.                                *)
(***************************************************************************)
LEMMA IssuedOrderInv ==
    ASSUME Init
    PROVE  OrderInv
<1>1. PICK o \in Orders : lines = [l \in PoLine |-> IF l \in DOMAIN o THEN o[l] ELSE Null]
  BY DEF Init
<1>2. IssuedOrder(o)
  BY ReceiptCorrectionsAssumption
<1>3. PICK n : n = Len(o) /\ n \in Nat /\ DOMAIN o = 1..n /\ n <= MaxLine
  BY <1>2 DEF IssuedOrder
<1>4. \A l \in 1..n : l \in PoLine /\ o[l] \in PurchaseOrderLine /\ o[l] # Null /\ lines[l] = o[l]
  <2>1. \A l \in 1..n : l \in PoLine
    BY <1>3, ProcurementAssumption DEF PoLine
  <2>2. \A l \in 1..n : o[l] \in PurchaseOrderLine
    BY <1>2, <1>3 DEF IssuedOrder
  <2> QED
    BY <1>1, <1>3, <2>1, <2>2, ProcurementAssumption
<1>5. Present = 1..n
  BY <1>1, <1>3, <1>4 DEF Present
<1>6. OrderShape
  <2>1. lines \in [PoLine -> PurchaseOrderLine \cup {Null}]
    BY <1>1, <1>3, <1>4
  <2>2. poCorrections \in [PoLine -> Seq(LineCorrection)]
    BY DEF Init
  <2> QED
    BY <2>1, <2>2 DEF Init, OrderShape
<1>7. Consecutive
  BY <1>3, <1>5 DEF Consecutive
<1>8. \A l \in Present : lines[l].supersedes = Null
  BY <1>2, <1>3, <1>4, <1>5 DEF IssuedOrder
<1>9. \A k, l \in Present : lines[k].number = lines[l].number => k = l
  BY <1>2, <1>3, <1>4, <1>5 DEF IssuedOrder
<1>10. \A l \in Present : Active(l)
  <2>1. \A l \in Present : l # Null
    BY <1>3, <1>5, ProcurementAssumption
  <2> QED
    BY <1>8, <2>1 DEF Active
<1>11. Chained
  <2>1. \A l \in Present : Continued(l)
    BY <1>8 DEF Continued
  <2>2. ASSUME NEW m \in Number, Lineage(m) # {} PROVE \E r, a : Chain(m, r, a)
    <3>1. PICK l : l \in Lineage(m)
      BY <2>2
    <3>2. \A k : k \in Lineage(m) <=> k = l
      BY <1>9, <3>1 DEF Lineage
    <3>3. l \in Present
      BY <3>1 DEF Lineage
    <3>4. Chain(m, l, l)
      BY <1>8, <1>10, <3>2, <3>3 DEF Chain
    <3> QED
      BY <3>4
  <2> QED
    BY <2>1, <2>2 DEF Chained
<1>12. Paired
  <2>1. \A l \in PoLine : poCorrections[l] = <<>>
    BY DEF Init
  <2>2. \A l \in Present : l \in PoLine
    BY DEF Present
  <2> QED
    BY <2>1, <2>2 DEF Paired, PairsCoherent
<1> QED
  BY <1>6, <1>7, <1>11, <1>12 DEF OrderInv

LEMMA OpeningComparators ==
    ASSUME Init
    PROVE  /\ comparators \subseteq Comparator /\ IsFiniteSet(comparators)
           /\ \A c \in comparators : c.line \in Present /\ c.generation = 0 /\ c.introduced = 0
           /\ Pins(Own(comparators)) = Pins({[line |-> p, generation |-> 0] : p \in receipt.bound})
           /\ \A p \in receipt.bound : \E c \in Pins(Own(comparators)) : c.line = p
<1>1. PICK f : f = [p \in receipt.bound |->
                       [receipt |-> Receipt, line |-> p, generation |-> 0, introduced |-> 0]]
  OBVIOUS
<1>2. /\ comparators = {f[p] : p \in receipt.bound} /\ DOMAIN f = receipt.bound
      /\ \A p \in receipt.bound : /\ f[p].receipt = Receipt /\ f[p].line = p
                                  /\ f[p].generation = 0 /\ f[p].introduced = 0
  BY <1>1 DEF Init
<1>3. receipt.bound \subseteq PoLine /\ receipt.bound \subseteq Present
  BY ReceiptCorrectionsAssumption DEF Init, SealedReceipt
<1>4. IsFiniteSet(PoLine)
  BY ProcurementAssumption, FS_Interval DEF PoLine
<1>5. IsFiniteSet(receipt.bound)
  BY <1>3, <1>4, FS_Subset
<1>6. IsFiniteSet(comparators)
  BY <1>2, <1>5, ImageFinite
<1>7. comparators \subseteq Comparator
  BY <1>1, <1>2, <1>3 DEF Comparator
<1>8. Own(comparators) = comparators
  BY <1>2 DEF Own
<1>9. PICK B : B = {[line |-> p, generation |-> 0] : p \in receipt.bound}
  OBVIOUS
<1>10. Pins(comparators) = {[line |-> p, generation |-> 0] : p \in receipt.bound}
  BY <1>2 DEF Pins
<1>11. Pins(B) = B
  BY <1>9 DEF Pins
<1> QED
  BY <1>2, <1>3, <1>6, <1>7, <1>8, <1>9, <1>10, <1>11

LEMMA OpeningPopulation ==
    ASSUME Init
    PROVE  /\ corrections \in [LineId -> Seq(LinePair)]
           /\ \A l \in LineId : corrections[l] = <<>> /\ Len(corrections[l]) = 0
           /\ Population(corrections) = {receipt.lines[l] : l \in DOMAIN receipt.lines}
           /\ Covered(Population(corrections), Pins(Own(comparators)))
<1>1. corrections \in [LineId -> Seq(LinePair)] /\ \A l \in LineId : corrections[l] = <<>>
  BY DEF Init
<1>2. \A l \in LineId : Len(corrections[l]) = 0
  BY <1>1
<1>3. \A l \in LineId : EffectiveReceiptLine(corrections, l) = receipt.lines[l]
  BY <1>2 DEF EffectiveReceiptLine, FactsAt
<1>4. Population(corrections) = {receipt.lines[l] : l \in DOMAIN receipt.lines}
  BY <1>3 DEF Population, LineId
<1>5. \A l \in DOMAIN receipt.lines : receipt.lines[l].poLine \in receipt.bound \cup {Null}
  BY ReceiptCorrectionsAssumption DEF Init, SealedReceipt
<1>6. Covered(Population(corrections), Pins(Own(comparators)))
  BY <1>4, <1>5, OpeningComparators DEF Covered
<1> QED
  BY <1>1, <1>2, <1>4, <1>6

LEMMA OpeningObservations ==
    ASSUME Init, NEW D, D = Disagreements(Population(corrections), Pins(Own(comparators)))
    PROVE  /\ observations \in Seq(Range(observations))
           /\ \A o \in Observed : observations[o].origin = 0
           /\ {observations[o].key : o \in Observed} = D
           /\ \A o, q \in Observed : observations[o].key = observations[q].key => o = q
<1>1. IsFiniteSet(D)
  <2>1. receipt \in Captured
    BY DEF Init
  <2>2. PICK S, P : S = Population(corrections) /\ P = Pins(Own(comparators))
    OBVIOUS
  <2>3. IsFiniteSet(S)
    BY <2>1, <2>2, PopulationFinite
  <2>4. IsFiniteSet(P)
    BY <2>2, OpeningComparators, PinsFinite
  <2> QED
    BY <2>2, <2>3, <2>4, DisagreementsFinite
<1>2. PICK f : f = [k \in D |-> [key |-> k, origin |-> 0]]
  OBVIOUS
<1>3. PICK R : R = {f[k] : k \in D}
  OBVIOUS
<1>4. DOMAIN f = D /\ \A k \in D : f[k].key = k /\ f[k].origin = 0
  BY <1>2
<1>5. IsFiniteSet(R)
  BY <1>1, <1>3, <1>4, ImageFinite
<1>6. D = Disagreements({receipt.lines[l] : l \in DOMAIN receipt.lines},
                        Pins({[line |-> p, generation |-> 0] : p \in receipt.bound}))
  BY OpeningPopulation, OpeningComparators
<1>7. observations = SetToSeq(R)
  BY <1>2, <1>3, <1>6 DEF Init, Opening
<1>8. PICK s : s = observations
  OBVIOUS
<1>9. /\ s \in Seq(R) /\ Len(s) \in Nat /\ DOMAIN s = 1..Len(s)
      /\ \A d : d \in R <=> \E n \in DOMAIN s : s[n] = d
      /\ \A m, n \in DOMAIN s : s[m] = s[n] => m = n
  BY <1>5, <1>7, <1>8, Enumeration
<1>10. Range(s) = R
  BY <1>9 DEF Range
<1>11. \A o \in DOMAIN s : s[o] \in R
  BY <1>9
<1>12. \A x \in R : x.origin = 0 /\ x.key \in D /\ x = f[x.key]
  BY <1>3, <1>4
<1>13. ASSUME NEW d PROVE d \in D <=> \E o \in DOMAIN s : s[o].key = d
  <2>1. ASSUME d \in D PROVE \E o \in DOMAIN s : s[o].key = d
    <3>1. f[d] \in R /\ f[d].key = d
      BY <1>3, <1>4, <2>1
    <3> QED
      BY <1>9, <3>1
  <2> QED
    BY <1>11, <1>12, <2>1
<1>14. {s[o].key : o \in DOMAIN s} = D
  BY <1>13
<1>15. \A o, q \in DOMAIN s : s[o].key = s[q].key => o = q
  BY <1>9, <1>11, <1>12
<1> QED
  BY <1>8, <1>9, <1>10, <1>11, <1>12, <1>14, <1>15 DEF Observed

LEMMA OpeningTables ==
    ASSUME Init
    PROVE  TableInv(Tables)
<1>1. PICK T : T = Tables
  OBVIOUS
<1>2. /\ T.corrections = corrections /\ T.comparators = comparators /\ T.observations = observations
      /\ T.workflow = workflow /\ T.events = events /\ T.evaluations = <<>>
      /\ DOMAIN T.observations = Observed
  BY <1>1 DEF Tables, Init, Observed
<1>3. Len(T.evaluations) = 0 /\ 1..0 = {}
  BY <1>2
<1>4. \A o \in Observed : events[o] = <<>> /\ Len(events[o]) = 0 /\ DOMAIN events[o] = {}
  BY DEF Init
<1>5. PICK w : w = [status |-> "OPEN", seq |-> 0]
  OBVIOUS
<1>6. w \in WorkflowRow /\ w.status = "OPEN" /\ w.seq = 0
  BY <1>5 DEF WorkflowRow, Edges!Status
<1>7. \A o \in Observed : workflow[o] = w
  BY <1>5 DEF Init
<1>8. Shape(T)
  <2>1. workflow \in [Observed -> WorkflowRow]
    BY <1>5, <1>6 DEF Init
  <2>2. events \in [Observed -> Seq(EventRow)]
    BY DEF Init
  <2>3. T.evaluations \in Seq(EvaluationRow)
    BY <1>2
  <2> QED
    BY <1>2, <2>1, <2>2, <2>3, OpeningPopulation, OpeningComparators, OpeningObservations DEF Shape
<1>9. Pinning(T)
  <2>1. \A c \in comparators : Generation(c.line) = 0
    <3>1. \A p \in PoLine : poCorrections[p] = <<>>
      BY DEF Init
    <3>2. \A c \in comparators : c.line \in PoLine
      BY OpeningComparators DEF Present
    <3> QED
      BY <3>1, <3>2 DEF Generation
  <2> QED
    BY <1>2, <1>3, <2>1, OpeningComparators DEF Pinning
<1>10. Counted(T)
  <2>1. \A l : CausedBy(T, l, 0) = 0
    <3>1. \A l : {m \in 1..0 : T.evaluations[m].line = l} = {}
      BY <1>3
    <3> QED
      BY <3>1, FS_EmptySet DEF CausedBy
  <2>2. \A l \in LineId : DOMAIN corrections[l] = {}
    BY OpeningPopulation
  <2> QED
    BY <1>2, <1>3, <2>1, <2>2, OpeningPopulation DEF Counted, LineCoherent
<1>11. Evaluated(T)
  BY <1>2, <1>3, OpeningPopulation DEF Evaluated
<1>12. Worked(T)
  <2>1. \A o \in Observed : WorkflowSound(T, o)
    BY <1>2, <1>4, <1>6, <1>7 DEF WorkflowSound, StatusAfter
  <2> QED
    BY <1>2, <1>3, <1>4, <2>1, OpeningObservations DEF Worked
<1>13. LiveIn(T) = Observed
  BY <1>2 DEF LiveIn
<1>14. Exact(T)
  BY <1>2, <1>13, OpeningObservations DEF Exact
<1>15. Settled(T)
  BY <1>2, <1>4, <1>13 DEF Settled
<1> QED
  BY <1>1, <1>8, <1>9, <1>10, <1>11, <1>12, <1>14, <1>15 DEF TableInv

LEMMA InitInv == Init => ReceiptInv
<1> SUFFICES ASSUME Init PROVE ReceiptInv
  OBVIOUS
<1>1. OrderInv /\ TableInv(Tables)
  BY IssuedOrderInv, OpeningTables
<1>2. PICK y : y = Free
  OBVIOUS
<1>3. DOMAIN tx = Tx /\ \A t \in Tx : tx[t] = y
  BY <1>2 DEF Init
<1>4. y.kind = Null /\ y.plan = Null /\ y.held = {} /\ Null \notin Tx \cup {"correct", "late", "status"}
  BY <1>2, ReceiptCorrectionsAssumption DEF Free
<1>5. Rowed(y)
  BY <1>2 DEF Rowed, Free
<1>6. Row(y)
  BY <1>2, <1>4, <1>5 DEF Row
<1>7. Rows /\ Locking
  BY <1>3, <1>4, <1>6 DEF Init, Rows, Locking
<1> QED
  BY <1>1, <1>3, <1>7 DEF Init, ReceiptInv

-----------------------------------------------------------------------------
(***************************************************************************)
(* The invariant holds in every reachable state.                           *)
(***************************************************************************)
LEMMA NextInv == ReceiptInv /\ [Next]_vars => ReceiptInv'
<1> SUFFICES ASSUME ReceiptInv, [Next]_vars PROVE ReceiptInv'
  OBVIOUS
<1>1. ASSUME NEW t \in Correctors, Correct(t, Changes) PROVE ReceiptInv'
  <2>1. t \in Tx
    BY DEF Tx
  <2>2. CASE OpenContext(t, "correct")
    BY <2>1, <2>2, OpenContextInv
  <2>3. CASE \E l \in LineId, g \in 0..MaxEvaluation, p \in 0..MaxGeneration, v \in Changes :
                PlanCorrection(t, l, g, p, v)
    BY <2>1, <2>3, PlanCorrectionInv
  <2>4. CASE CommitCorrection(t)
    BY <2>1, <2>4, CommitCorrectionInv
  <2> QED
    BY <1>1, <2>2, <2>3, <2>4 DEF Correct
<1>2. ASSUME NEW t \in Reviewers, Review(t) PROVE ReceiptInv'
  <2>1. t \in Tx
    BY DEF Tx
  <2>2. CASE CommitStatus(t)
    BY <2>1, <2>2, CommitStatusInv
  <2>3. CASE \E o \in Observed, from \in Edges!Status, to \in Edges!Status : AskStatus(t, o, from, to)
    BY <2>1, <2>3, AskStatusInv
  <2> QED
    BY <1>2, <2>2, <2>3 DEF Review
<1>3. ASSUME NEW t \in Latecomers, OpenContext(t, "late") PROVE ReceiptInv'
  <2>1. t \in Tx
    BY DEF Tx
  <2> QED
    BY <1>3, <2>1, OpenContextInv
<1>4. ASSUME NEW t \in Tx, Acquire(t) \/ Rollback(t) PROVE ReceiptInv'
  BY <1>4, AcquireInv, RollbackInv
<1>5. CASE UNCHANGED vars
  <2>1. UNCHANGED <<tableVars, catalog, status, lines, poCorrections, poLock, tx>>
    BY <1>5 DEF vars, poVars, correctionVars, tableVars
  <2>2. OrderInv' /\ status' = "ISSUED" /\ receipt' \in Captured /\ TableInv(Tables)'
    BY <2>1, TransactionTables DEF ReceiptInv
  <2>3. ASSUME NEW u \in Tx PROVE Row(tx[u])'
    <3>1. PICK x : x = tx[u] /\ Row(x)
      BY DEF ReceiptInv, Rows
    <3>2. Row(x)' /\ x = tx'[u]
      BY <2>1, <3>1, RowAtRest
    <3> QED
      BY <3>2
  <2>4. Locking'
    BY <2>1 DEF ReceiptInv, Locking, OrderLock
  <2> QED
    BY <2>1, <2>2, <2>3, <2>4 DEF ReceiptInv, Rows
<1> QED
  BY <1>1, <1>2, <1>3, <1>4, <1>5, OrderNextInv DEF Next

LEMMA ReceiptInvariance == Spec => []ReceiptInv
BY InitInv, NextInv, PTL DEF Spec

\* The tables of one receipt keep their shape and refer to one another, whatever
\* the order, the receipt, its values and the transactions are.
THEOREM CorrectionsTypeOKProven == Spec => []CorrectionsTypeOK
<1>1. ASSUME ReceiptInv PROVE CorrectionsTypeOK
  <2>1. PICK T : T = Tables
    OBVIOUS
  <2>2. /\ T.corrections = corrections /\ T.comparators = comparators /\ T.observations = observations
        /\ T.workflow = workflow /\ T.events = events /\ T.evaluations = evaluations
    BY <2>1 DEF Tables
  <2>3. Shape(T) /\ Pinning(T)
    BY <1>1, <2>1 DEF ReceiptInv, TableInv
  <2>4. Len(evaluations) \in Nat
    BY <2>2, <2>3, Counting
  <2>5. \A c \in comparators : c.line \in Present /\ c.introduced \in 0..Len(evaluations)
    BY <2>2, <2>3, <2>4 DEF Shape, Pinning, Comparator
  <2>6. /\ corrections \in [LineId -> Seq(LinePair)] /\ evaluations \in Seq(EvaluationRow)
        /\ workflow \in [Observed -> WorkflowRow] /\ events \in [Observed -> Seq(EventRow)]
    BY <2>2, <2>3 DEF Shape, Observed
  <2>7. Locking
    BY <1>1 DEF ReceiptInv
  <2>8. \A t \in Tx : tx[t].kind = Null => tx[t].held = {}
    <3>1. ASSUME NEW t \in Tx, tx[t].kind = Null PROVE tx[t].held = {}
      <4>1. tx[t] = Free
        BY <1>1, <3>1 DEF ReceiptInv, Rows, Row
      <4> QED
        BY <4>1 DEF Free
    <3> QED
      BY <3>1
  <2> QED
    BY <2>5, <2>6, <2>7, <2>8 DEF CorrectionsTypeOK, Locking
<1> QED
  BY <1>1, ReceiptInvariance, PTL

LEMMA LiveTables ==
    ASSUME Shape(Tables), NEW T, T = Tables
    PROVE  Live = LiveIn(T)
<1>1. T.observations = observations /\ T.evaluations = evaluations
  BY DEF Tables
<1>2. evaluations # <<>> => Last(evaluations) = evaluations[Len(evaluations)]
  BY DEF Last
<1> QED
  BY <1>1, <1>2 DEF Live, LiveIn, PriorSupport, Observed

\* ADR-013, for every history of corrections, amendments and status changes: the
\* observations that _evaluate left supported are one to one what the effective
\* lines of the receipt say against the effective lines of the order.
THEOREM SupportExactProven == Spec => []SupportExact
<1>1. ASSUME ReceiptInv PROVE SupportExact
  <2>1. PICK T : T = Tables
    OBVIOUS
  <2>2. T.corrections = corrections /\ T.comparators = comparators /\ T.observations = observations
    BY <2>1 DEF Tables
  <2>3. Shape(Tables) /\ Pinning(T) /\ Exact(T)
    BY <1>1, <2>1 DEF ReceiptInv, TableInv
  <2>4. Live = LiveIn(T)
    BY <2>1, <2>3, LiveTables
  <2>5. Own(comparators) = OwnComparators
    BY DEF OwnComparators
  <2>6. \A c \in OwnComparators : c.generation = Generation(c.line)
    BY <2>2, <2>3 DEF Pinning, OwnComparators, Own
  <2>7. Pins(OwnComparators) = {[line |-> c.line, generation |-> Generation(c.line)] : c \in OwnComparators}
    BY <2>6 DEF Pins
  <2>8. Today = Disagreements(Population(corrections), Pins(OwnComparators))
    BY <2>7 DEF Today
  <2> QED
    BY <2>2, <2>3, <2>4, <2>5, <2>8 DEF SupportExact, Exact
<1> QED
  BY <1>1, ReceiptInvariance, PTL

\* D11, for every interleaving of people and corrections: what is listed as open
\* is supported, and no correction closed what is supported.
THEOREM OpenMeansLiveProven == Spec => []OpenMeansLive
<1>1. ASSUME ReceiptInv PROVE OpenMeansLive
  <2>1. PICK T : T = Tables
    OBVIOUS
  <2>2. T.observations = observations /\ T.workflow = workflow /\ T.events = events
    BY <2>1 DEF Tables
  <2>3. Shape(Tables) /\ Settled(T)
    BY <1>1, <2>1 DEF ReceiptInv, TableInv
  <2>4. Live = LiveIn(T)
    BY <2>1, <2>3, LiveTables
  <2> QED
    BY <2>2, <2>3, <2>4 DEF OpenMeansLive, Settled, Observed
<1> QED
  BY <1>1, ReceiptInvariance, PTL

\* assert_receipt_correction_complete never refuses what _evaluate computed, and
\* every workflow still has the status that was read when its lock was granted.
THEOREM CorrectionCommitsProven == Spec => []CorrectionCommits
<1>1. ASSUME ReceiptInv PROVE CorrectionCommits
  BY <1>1, AfterSound DEF ReceiptInv, Rows, CorrectionCommits
<1> QED
  BY <1>1, ReceiptInvariance, PTL

\* What a transaction that waits may hold.
LEMMA Waiting ==
    ASSUME NEW x, Row(x), Len(observations) \in Nat, x.todo # <<>>
    PROVE  \/ ReceiptLock \in x.held /\ \E o : Head(x.todo) = WorkflowLock(o)
           \/ Head(x.todo) = ReceiptLock /\ \A k \in x.held : k = OrderLock
           \/ x.held = {}
<1>1. x.kind # Null /\ Rowed(x)
  BY DEF Row, Free
<1>2. CASE x.kind = "status"
  BY <1>2 DEF Row, Asking
<1>3. CASE x.kind \in {"correct", "late"} /\ x.plan = Null
  <2>1. PICK a, b : a = OrderLock /\ b = ReceiptLock
    OBVIOUS
  <2>2. Head(<<b>>) = b
    OBVIOUS
  <2> QED
    BY <1>3, <2>1, <2>2 DEF Row, Entering
<1>4. CASE x.plan # Null
  <2>1. PICK n : n = Len(observations)
    OBVIOUS
  <2>2. PICK j \in 0..n : Locked(x, j)
    BY <1>4, <2>1 DEF Row
  <2>3. PICK f : f = [i \in 1..(n - j) |-> WorkflowLock(j + i)]
    OBVIOUS
  <2>4. x.todo = f
    BY <2>1, <2>2, <2>3 DEF Locked
  <2>5. f # <<>> /\ f \in Seq(LockName)
    BY <1>1, <2>4 DEF Rowed
  <2>6. 1 \in DOMAIN f /\ Head(f) = f[1]
    BY <2>5
  <2>7. Head(x.todo) = WorkflowLock(j + 1)
    BY <2>3, <2>4, <2>6
  <2> QED
    BY <1>4, <2>7, PlannedHolds
<1> QED
  BY <1>1, <1>2, <1>3, <1>4 DEF Rowed

\* No set of transactions waits in a circle.  Who waits for a workflow holds the
\* receipt or nothing, who waits for the receipt holds at most the order, and the
\* holder of the receipt is one.
THEOREM NoCircularWaitProven == Spec => []NoCircularWait
<1>1. ASSUME ReceiptInv PROVE NoCircularWait
  <2> SUFFICES ASSUME NEW S \in (SUBSET Tx) \ {{}}, \A t \in S : Blocking(t) \cap S # {}
               PROVE  FALSE
    BY DEF NoCircularWait
  <2>1. \A t \in S : tx[t].todo # <<>> /\ \E u \in S : u # t /\ Head(tx[t].todo) \in tx[u].held
    BY DEF Blocking, Holders
  <2>2. Len(observations) \in Nat
    BY <1>1, Counting DEF ReceiptInv, TableInv, Tables
  <2>3. \A t \in S : \/ ReceiptLock \in tx[t].held /\ \E o : Head(tx[t].todo) = WorkflowLock(o)
                     \/ Head(tx[t].todo) = ReceiptLock /\ \A k \in tx[t].held : k = OrderLock
                     \/ tx[t].held = {}
    BY <1>1, <2>1, <2>2, Waiting DEF ReceiptInv, Rows
  <2>4. \A t, u \in S : t # u => tx[t].held \cap tx[u].held = {}
    BY <1>1 DEF ReceiptInv, Locking
  <2>5. \A t \in S : ReceiptLock \notin tx[t].held
    <3> SUFFICES ASSUME NEW t \in S, ReceiptLock \in tx[t].held PROVE FALSE
      OBVIOUS
    <3>1. PICK o : Head(tx[t].todo) = WorkflowLock(o)
      BY <2>3, LockNames
    <3>2. PICK u \in S : u # t /\ WorkflowLock(o) \in tx[u].held
      BY <2>1, <3>1
    <3>3. ReceiptLock \in tx[u].held
      BY <2>3, <3>2, LockNames
    <3> QED
      BY <2>4, <3>2, <3>3
  <2>6. ASSUME NEW t \in S PROVE tx[t].held = {}
    <3>1. Head(tx[t].todo) # ReceiptLock
      <4>1. PICK u \in S : Head(tx[t].todo) \in tx[u].held
        BY <2>1
      <4> QED
        BY <2>5, <4>1
    <3> QED
      BY <2>3, <2>5, <3>1
  <2>7. PICK t : t \in S
    OBVIOUS
  <2>8. PICK u \in S : Head(tx[t].todo) \in tx[u].held
    BY <2>1, <2>7
  <2> QED
    BY <2>6, <2>8
<1> QED
  BY <1>1, ReceiptInvariance, PTL

-----------------------------------------------------------------------------
(***************************************************************************)
(* Every exception moves as one workflow.                                  *)
(***************************************************************************)
StatusNow(o) == IF o \in Observed THEN workflow[o].status ELSE Null

Along(o) ==
    \/ StatusNow(o)' = StatusNow(o)
    \/ StatusNow(o) = Null /\ StatusNow(o)' = "OPEN"
    \/ StatusNow(o) \in Edges!Status /\ StatusNow(o)' \in Edges!WORKFLOW[StatusNow(o)]

LEMMA StatusTyped == Shape(Tables) => \A o : StatusNow(o) \in Edges!Status \cup {Null}
<1> SUFFICES ASSUME Shape(Tables) PROVE \A o : StatusNow(o) \in Edges!Status \cup {Null}
  OBVIOUS
<1>1. \A q \in Observed : workflow[q] \in WorkflowRow
  BY Counting DEF Tables, Observed
<1> QED
  BY <1>1 DEF StatusNow, WorkflowRow

LEMMA CommitStatusAlong ==
    ASSUME ReceiptInv, NEW t \in Tx, CommitStatus(t), NEW q
    PROVE  Along(q)
<1>1. PICK x, a : x = tx[t] /\ a = x.ask
  OBVIOUS
<1>2. PICK o, to : o = a.target /\ to = a.to
  OBVIOUS
<1>3. Row(x) /\ x.kind = "status"
  BY <1>1 DEF ReceiptInv, Rows, CommitStatus
<1>4. o \in Observed
  BY <1>1, <1>2, <1>3 DEF Row, Asking
<1>5. PICK w : w = [status |-> to, seq |-> workflow[o].seq + 1]
  OBVIOUS
<1>6. /\ to \in Edges!WORKFLOW[workflow[o].status] /\ w.status = to
      /\ workflow' = [workflow EXCEPT ![o] = w] /\ Observed' = Observed
  BY <1>1, <1>2, <1>5 DEF CommitStatus, MoveAdmitted, Observed
<1>7. Shape(Tables)
  BY DEF ReceiptInv, TableInv
<1>8. DOMAIN workflow = Observed /\ workflow[o].status \in Edges!Status
  BY <1>4, <1>7 DEF Shape, Tables, Observed, WorkflowRow
<1>9. CASE q = o
  BY <1>4, <1>6, <1>8, <1>9 DEF Along, StatusNow
<1>10. CASE q # o
  BY <1>6, <1>8, <1>10 DEF Along, StatusNow
<1> QED
  BY <1>9, <1>10

LEMMA CommitCorrectionAlong ==
    ASSUME ReceiptInv, NEW t \in Tx, CommitCorrection(t), NEW q
    PROVE  Along(q)
<1>1. PICK T, U, p : T = Tables /\ U = After(t) /\ p = tx[t].plan
  OBVIOUS
<1>2. TableInv(T) /\ receipt \in Captured /\ Row(tx[t]) /\ Evaluating(t) /\ Shape(T)
  BY <1>1 DEF ReceiptInv, Rows, CommitCorrection, TableInv
<1>3. PICK D, sup, N, K, F : Renews(T, U, p, D, sup, N, K, F)
  BY <1>1, <1>2, AfterRenews
<1>4. /\ T.observations = observations /\ T.workflow = workflow
      /\ U.observations = observations' /\ U.workflow = workflow'
  BY <1>1 DEF Tables, CommitCorrection
<1>5. /\ K = Len(observations) /\ F \in Nat /\ Len(observations') = K + F
      /\ U.observations \in Seq(Range(U.observations)) /\ MovesWorkflows(T, U, sup, N, K, F)
  BY <1>3, <1>4 DEF Renews, AppendsObservations
<1>6. K \in Nat /\ Observed = 1..K /\ Observed' = 1..(K + F)
  BY <1>2, <1>4, <1>5, Counting DEF Observed
<1>7. CASE q \in 1..K
  <2>1. q \in Observed /\ q \in Observed'
    BY <1>5, <1>6, <1>7
  <2>2. CASE Closes(T, sup, K, q)
    <3>1. workflow'[q] = [status |-> "RESOLVED", seq |-> workflow[q].seq + 1]
      BY <1>4, <1>5, <1>7, <2>2 DEF MovesWorkflows
    <3>2. workflow'[q].status = "RESOLVED" /\ workflow[q].status \in Edges!Unresolved
      BY <1>4, <2>2, <3>1 DEF Closes
    <3>3. workflow[q].status \in Edges!Status /\ "RESOLVED" \in Edges!WORKFLOW[workflow[q].status]
      BY <3>2 DEF Edges!Unresolved, Edges!Status, Edges!WORKFLOW
    <3> QED
      BY <2>1, <3>2, <3>3 DEF Along, StatusNow
  <2>3. CASE ~ Closes(T, sup, K, q)
    <3>1. workflow'[q] = workflow[q]
      BY <1>4, <1>5, <1>7, <2>3 DEF MovesWorkflows
    <3> QED
      BY <2>1, <3>1 DEF Along, StatusNow
  <2> QED
    BY <2>2, <2>3
<1>8. CASE q \in (K + 1)..(K + F)
  <2>1. workflow'[q] = [status |-> "OPEN", seq |-> 0]
    BY <1>4, <1>5, <1>8 DEF MovesWorkflows
  <2>2. q \notin Observed /\ q \in Observed' /\ workflow'[q].status = "OPEN"
    BY <1>5, <1>6, <1>8, <2>1
  <2> QED
    BY <2>2 DEF Along, StatusNow
<1>9. CASE q \notin 1..K /\ q \notin (K + 1)..(K + F)
  <2>1. q \notin Observed /\ q \notin Observed'
    BY <1>5, <1>6, <1>9
  <2> QED
    BY <2>1 DEF Along, StatusNow
<1> QED
  BY <1>7, <1>8, <1>9

LEMMA StepAlong ==
    ASSUME ReceiptInv, [Next]_vars, NEW q
    PROVE  Along(q)
<1>1. CASE UNCHANGED <<observations, workflow>>
  BY <1>1 DEF Along, StatusNow, Observed
<1>2. CASE \E t \in Tx : CommitStatus(t)
  BY <1>2, CommitStatusAlong
<1>3. CASE \E t \in Tx : CommitCorrection(t)
  BY <1>3, CommitCorrectionAlong
<1>4. \/ UNCHANGED <<observations, workflow>> \/ \E t \in Tx : CommitStatus(t)
      \/ \E t \in Tx : CommitCorrection(t)
  <2>1. \A t, k : OpenContext(t, k) => UNCHANGED <<observations, workflow>>
    BY DEF OpenContext
  <2>2. \A t, o, a, b : AskStatus(t, o, a, b) => UNCHANGED <<observations, workflow>>
    BY DEF AskStatus
  <2>3. \A t : Acquire(t) \/ Rollback(t) => UNCHANGED <<observations, workflow>>
    BY DEF Acquire, Rollback
  <2>4. \A t, l, g, e, v : PlanCorrection(t, l, g, e, v) => UNCHANGED <<observations, workflow>>
    BY DEF PlanCorrection
  <2>5. UNCHANGED correctionVars \/ UNCHANGED vars => UNCHANGED <<observations, workflow>>
    BY DEF correctionVars, vars
  <2> QED
    BY <2>1, <2>2, <2>3, <2>4, <2>5 DEF Next, Correct, Review, Tx
<1> QED
  BY <1>1, <1>2, <1>3, <1>4

\* Corrections and people together implement the workflow of one exception: it
\* opens once, moves along the edges of WORKFLOW and stays closed.
THEOREM ImplementsStatusProven == Spec => ImplementsStatus
<1>1. Init => Edges!Init
  <2> SUFFICES ASSUME Init PROVE Edges!Init
    OBVIOUS
  <2>1. \A o \in Observed : workflow[o].status = "OPEN"
    BY DEF Init
  <2> QED
    BY <2>1 DEF Edges!Init
<1>2. ReceiptInv /\ ReceiptInv' /\ [Next]_vars =>
         [Edges!Next]_([o \in 1..MaxException |-> IF o \in Observed THEN workflow[o].status ELSE Null])
  <2> SUFFICES ASSUME ReceiptInv, ReceiptInv', [Next]_vars PROVE Edges!Next
    OBVIOUS
  <2>1. \A o : Along(o)
    BY StepAlong
  <2>2. \A o \in 1..MaxException : StatusNow(o)' \in Edges!Status \cup {Null}
    <3>1. (Shape(Tables) => \A o : StatusNow(o) \in Edges!Status \cup {Null})'
      BY StatusTyped, PTL
    <3>2. Shape(Tables)'
      BY DEF ReceiptInv, TableInv
    <3> QED
      BY <3>1, <3>2 DEF Edges!Status
  <2> QED
    BY <2>1, <2>2 DEF Along, StatusNow, Edges!Next, Edges!Step
<1> QED
  BY <1>1, <1>2, ReceiptInvariance, PTL DEF Spec, ImplementsStatus, Edges!Spec
=============================================================================
