----------------------------- MODULE BatchProofs -----------------------------
(***************************************************************************)
(* Proofs about POST /capture/operations with several operations: any      *)
(* number of batches at once, any lists that an honest client may send,    *)
(* failed transactions and dead credentials anywhere.                      *)
(*                                                                         *)
(* The argument: when it is an operation's turn, every predecessor in its  *)
(* epoch stands in the same list, comes before it in the order of          *)
(* ordered() and has a response; so the predecessor was recorded, or its   *)
(* transaction failed, or the epoch belongs to somebody else, in which     *)
(* case the operation itself will be refused.                              *)
(***************************************************************************)
EXTENDS CaptureBatch, WellFoundedInduction, TLAPS

\* The operations of honest lists.
Claims == UNION {{list[i] : i \in DOMAIN list} : list \in {s \in Sent : Honest(s)}}

Flags == {"SEQUENCE_REUSED", "SEQUENCE_GAP"}

AnswerRow ==
    [state : {"APPLIED", "REJECTED", "DUPLICATE", "UNAUTHORIZED"}, code : BOOLEAN, recorded : BOOLEAN]

CallRow ==
    [phase : {"free", "sent", "locked", "sequenced", "answered"}, op : Claims \cup {None},
     identity : Actor \cup {None}, owner : Call \cup {None}, flags : SUBSET Flags,
     answer : AnswerRow \cup {None}]

RecordRow ==
    [op : Claims, actor : Actor, state : {"APPLIED", "REJECTED"}, code : BOOLEAN, flags : SUBSET Flags]

BatchRow(b) ==
    /\ b.list \in Sent /\ Honest(b.list) /\ b.identity \in Actor
    /\ b = [list |-> b.list, identity |-> b.identity, responses |-> b.responses]
    /\ b.responses \in [DOMAIN b.list -> AnswerRow \cup {None}]

BatchShape ==
    /\ calls \in [Call -> CallRow]
    /\ streams \in [1..MaxEpoch -> [actor : Actor \cup {None}, last : Nat]]
    /\ records \subseteq RecordRow
    /\ failed \subseteq Claims
    /\ DOMAIN batches = Call /\ batches = [k \in Call |-> batches[k]]
    /\ \A k \in Call : batches[k] = NoBatch \/ BatchRow(batches[k])

Recorded(op) == \E x \in records : x.op = op

\* The epoch belongs to another actor.
Foreign(op, identity) == streams[op.epoch].actor \notin {None, identity}

\* What a response to an operation means for those that follow it.
Settled(op, identity) == op \in failed \/ Recorded(op) \/ Foreign(op, identity)

Told(answer, op) ==
    answer.recorded => \E x \in records : x.op = op /\ x.code = answer.code

\* The flags of an operation are explained by a failed transaction.
Explained(op, flags) ==
    /\ "SEQUENCE_GAP" \in flags => \E f \in failed : f.epoch = op.epoch /\ f.seq < op.seq
    /\ "SEQUENCE_REUSED" \in flags => op \in failed

Precedes(p, op) == p.epoch = op.epoch /\ p.seq < op.seq

RecordsExplained ==
    \A x \in records :
        /\ Explained(x.op, x.flags)
        /\ \A p \in Claims : Precedes(p, x.op) => p \in failed \/ Recorded(p)

StreamsExplained ==
    /\ \A e \in 1..MaxEpoch : streams[e].last # 0 =>
           \E x \in records : x.op.epoch = e /\ x.op.seq = streams[e].last
    /\ \A x \in records : x.op.seq <= streams[x.op.epoch].last

\* The places of a batch that have no response, and the first of them.
Places(b) == {i \in DOMAIN b.list : b.responses[i] = None}

First(b) == CHOOSE i \in Places(b) : \A j \in Places(b) \ {i} : Before(b.list, i, j)

\* A call serves the operation whose turn it is in its batch.
Placed(c, k, b) ==
    c.phase # "free" =>
        /\ Places(b) # {} /\ c.op = b.list[First(b)]
        /\ c.identity = b.identity /\ c.owner = k

\* What the transaction of a call has found out, and what its answer says.
Backed(c) ==
    /\ c.phase \in {"locked", "sequenced"} => Original(c.op.id) = {}
    /\ c.phase = "sequenced" => ~ Foreign(c.op, c.identity) /\ Explained(c.op, c.flags)
    /\ c.phase = "answered" =>
           /\ Told(c.answer, c.op)
           /\ c.answer # Unauthorized => Settled(c.op, c.identity)

\* Two calls that hold the same lock.
Collide(c, d) ==
    \/ /\ c.phase \in {"locked", "sequenced"} /\ d.phase \in {"locked", "sequenced"}
       /\ c.op.id = d.op.id
    \/ /\ c.phase = "sequenced" /\ d.phase = "sequenced"
       /\ c.op.epoch = d.op.epoch

CallsExplained ==
    \A k \in Call :
        /\ Placed(calls[k], k, batches[k]) /\ Backed(calls[k])
        /\ \A m \in Call \ {k} : ~ Collide(calls[k], calls[m])

Responds(b) ==
    \A i \in DOMAIN b.list : b.responses[i] # None =>
        Told(b.responses[i], b.list[i]) /\ Settled(b.list[i], b.identity)

ResponsesExplained == \A k \in Call : Responds(batches[k])

BatchInv ==
    /\ BatchShape /\ RecordsExplained /\ StreamsExplained
    /\ CallsExplained /\ ResponsesExplained

-----------------------------------------------------------------------------
(***************************************************************************)
(* The lists.                                                              *)
(***************************************************************************)
\* A set of natural numbers has a least element.
LEMMA LeastPlace ==
    ASSUME NEW S, S \subseteq Nat, S # {}
    PROVE  \E m \in S : \A n \in S : m <= n
<1> DEFINE R == OpToRel(<, Nat)
<1>1. PICK m \in S : \A n \in S : ~ (<<n, m>> \in R)
  <2>1. IsWellFoundedOn(R, Nat)
    BY NatLessThanWellFounded
  <2> HIDE DEF R
  <2> QED
    BY <2>1, WFMin
<1>2. \A n \in S : ~ (n < m)
  BY <1>1 DEF OpToRel
<1> QED
  BY <1>2

\* The places of a list and where its groups open are numbers.
LEMMA PlacesTyped ==
    ASSUME NEW list \in Seq(Operation)
    PROVE  /\ DOMAIN list \subseteq Nat
           /\ \A i \in DOMAIN list : list[i] \in Operation /\ list[i].seq \in Nat
           /\ \A i \in DOMAIN list : Opens(list, list[i].epoch) \in Nat
<1>1. DOMAIN list \subseteq Nat /\ \A i \in DOMAIN list : list[i] \in Operation
  OBVIOUS
<1>2. \A op \in Operation : op.seq \in Nat
  BY DEF Operation
<1>3. ASSUME NEW i \in DOMAIN list PROVE Opens(list, list[i].epoch) \in DOMAIN list
  <2> DEFINE P == {j \in DOMAIN list : list[j].epoch = list[i].epoch}
  <2>1. P \subseteq Nat /\ P # {}
    BY <1>1
  <2>2. PICK m \in P : \A n \in P : m <= n
    <3> HIDE DEF P
    <3> QED
      BY <2>1, LeastPlace
  <2> QED
    BY <2>2 DEF Opens
<1> QED
  BY <1>1, <1>2, <1>3

\* ordered(): by group, then by sequence number, then by place.
LEMMA BeforeMeans ==
    ASSUME NEW list, NEW i, NEW j, NEW g, NEW h,
           g = Opens(list, list[i].epoch), h = Opens(list, list[j].epoch)
    PROVE  Before(list, i, j) <=>
               g < h \/ (g = h /\ (list[i].seq < list[j].seq \/ (list[i].seq = list[j].seq /\ i < j)))
BY DEF Before

\* Of any places of a list one comes before all others.
LEMMA FirstPlace ==
    ASSUME NEW list \in Seq(Operation), NEW S \in SUBSET DOMAIN list, S # {}
    PROVE  \E i \in S : \A j \in S \ {i} : Before(list, i, j)
<1>1. /\ DOMAIN list \subseteq Nat /\ \A i \in DOMAIN list : list[i].seq \in Nat
      /\ \A i \in DOMAIN list : Opens(list, list[i].epoch) \in Nat
  BY PlacesTyped
<1> DEFINE g == [i \in DOMAIN list |-> Opens(list, list[i].epoch)]
           G == {g[i] : i \in S}
<1>3. PICK a \in S : \A i \in S : g[a] <= g[i]
  <2>1. G \subseteq Nat /\ G # {}
    BY <1>1
  <2>2. PICK m \in G : \A n \in G : m <= n
    <3> HIDE DEF G
    <3> QED
      BY <2>1, LeastPlace
  <2> QED
    BY <2>2
<1> DEFINE T == {i \in S : g[i] = g[a]}
           Q == {list[i].seq : i \in T}
<1>4. PICK b \in T : \A i \in T : list[b].seq <= list[i].seq
  <2>1. Q \subseteq Nat /\ Q # {}
    BY <1>1
  <2>2. PICK m \in Q : \A n \in Q : m <= n
    <3> HIDE DEF Q
    <3> QED
      BY <2>1, LeastPlace
  <2> QED
    BY <2>2
<1> DEFINE U == {i \in T : list[i].seq = list[b].seq}
<1>5. PICK c \in U : \A i \in U : c <= i
  <2>1. U \subseteq Nat /\ U # {}
    BY <1>1, <1>4
  <2> HIDE DEF U
  <2> QED
    BY <2>1, LeastPlace
<1>6. ASSUME NEW j \in S \ {c} PROVE Before(list, c, j)
  <2>1. c \in S /\ c \in Nat /\ j \in Nat /\ g[c] = g[a] /\ g[a] <= g[j] /\ g[j] \in Nat /\ g[a] \in Nat
    BY <1>1, <1>3, <1>5
  <2>2. g[j] = g[a] => list[c].seq <= list[j].seq /\ list[c].seq \in Nat /\ list[j].seq \in Nat
    BY <1>1, <1>4, <1>5
  <2>3. ASSUME g[j] = g[a], list[j].seq = list[c].seq PROVE c < j
    <3>1. j \in U
      BY <1>5, <2>3
    <3>2. c <= j /\ c # j
      BY <1>5, <3>1
    <3> QED
      BY <2>1, <3>2
  <2>4. g[c] = Opens(list, list[c].epoch) /\ g[j] = Opens(list, list[j].epoch)
    BY <2>1
  <2> HIDE DEF g
  <2> QED
    BY <2>1, <2>2, <2>3, <2>4, BeforeMeans
<1> QED
  BY <1>5, <1>6

\* An id, and a number of an epoch, names one operation in all lists.
LEMMA ClaimsDrawn ==
    /\ Claims \subseteq Operation
    /\ \A p \in Claims : p.seq \in Nat \ {0} /\ p.epoch \in 1..MaxEpoch /\ p.id \in Nat
    /\ \A p, q \in Claims :
           p.id = q.id \/ (p.epoch = q.epoch /\ p.seq = q.seq) => p = q
<1>1. ASSUME NEW p \in Claims
      PROVE  \E list \in Sent : Honest(list) /\ \E i \in DOMAIN list : p = list[i]
  BY DEF Claims
<1>2. ASSUME NEW p \in Claims PROVE p \in Operation /\ p.seq # 0
  <2>1. PICK list \in Sent : Honest(list) /\ \E i \in DOMAIN list : p = list[i]
    BY <1>1
  <2>2. list \in Seq(Operation) /\ \A i \in DOMAIN list : list[i].seq # 0
    BY <2>1 DEF Honest
  <2> QED
    BY <2>1, <2>2
<1>3. ASSUME NEW p \in Claims PROVE p.seq \in Nat \ {0} /\ p.epoch \in 1..MaxEpoch /\ p.id \in Nat
  BY <1>2 DEF Operation
<1>4. ASSUME NEW p \in Claims, NEW q \in Claims, p.id = q.id \/ (p.epoch = q.epoch /\ p.seq = q.seq)
      PROVE  p = q
  <2>1. PICK list \in Sent : Honest(list) /\ \E i \in DOMAIN list : p = list[i]
    BY <1>1
  <2>2. PICK other \in Sent : Honest(other) /\ \E i \in DOMAIN other : q = other[i]
    BY <1>1
  <2> QED
    BY <1>4, <2>1, <2>2 DEF Honest
<1> QED
  BY <1>2, <1>3, <1>4

\* The turn of a batch depends on the batch alone.
LEMMA TurnIs ==
    ASSUME NEW k
    PROVE  Remaining(k) = Places(batches[k]) /\ Turn(k) = First(batches[k])
BY DEF Remaining, Turn, Places, First

\* A batch that has something left is a request, and its turn comes before the rest.
LEMMA TurnFirst ==
    ASSUME NEW b, b = NoBatch \/ BatchRow(b), Places(b) # {}
    PROVE  /\ BatchRow(b)
           /\ First(b) \in Places(b) /\ First(b) \in DOMAIN b.list
           /\ b.list[First(b)] \in Claims
           /\ \A j \in Places(b) \ {First(b)} : Before(b.list, First(b), j)
<1>1. BatchRow(b)
  BY DEF NoBatch, Places
<1>2. b.list \in Seq(Operation) /\ Places(b) \in SUBSET DOMAIN b.list
  BY <1>1 DEF BatchRow, Honest, Places
<1>3. \E i \in Places(b) : \A j \in Places(b) \ {i} : Before(b.list, i, j)
  BY <1>2, FirstPlace
<1>4. /\ First(b) \in Places(b)
      /\ \A j \in Places(b) \ {First(b)} : Before(b.list, First(b), j)
  BY <1>3 DEF First
<1>5. b.list[First(b)] \in Claims
  BY <1>1, <1>2, <1>4 DEF Claims, BatchRow
<1> QED
  BY <1>1, <1>2, <1>4, <1>5

\* Every predecessor of the operation whose turn it is has its response.
LEMMA PredecessorsSettled ==
    ASSUME NEW b, b = NoBatch \/ BatchRow(b), Responds(b), Places(b) # {},
           NEW p \in Claims, Precedes(p, b.list[First(b)])
    PROVE  Settled(p, b.identity)
<1> DEFINE list == b.list
           t == First(b)
<1>1. /\ BatchRow(b) /\ t \in DOMAIN list /\ list[t] \in Claims
      /\ \A j \in Places(b) \ {t} : Before(list, t, j)
  BY TurnFirst
<1>2. Honest(list) /\ list \in Sent /\ DOMAIN list \subseteq Nat
  BY <1>1 DEF BatchRow, Honest
<1>3. p.seq \in 1..(list[t].seq - 1) /\ list[t].seq \in Nat /\ p.epoch = list[t].epoch
  BY <1>1, ClaimsDrawn DEF Precedes
<1>4. PICK j \in DOMAIN list : list[j].epoch = list[t].epoch /\ list[j].seq = p.seq
  BY <1>1, <1>2, <1>3 DEF Honest
<1>5. list[j] \in Claims
  BY <1>2, <1>4 DEF Claims
<1>6. list[j] = p
  BY <1>3, <1>4, <1>5, ClaimsDrawn
<1>7. ~ Before(list, t, j)
  <2>1. Opens(list, list[t].epoch) \in Nat /\ Opens(list, list[j].epoch) = Opens(list, list[t].epoch)
    BY <1>1, <1>2, <1>4, PlacesTyped DEF Honest
  <2> QED
    BY <1>3, <1>4, <2>1, BeforeMeans
<1>8. j # t
  BY <1>3, <1>4
<1>9. b.responses[j] # None
  BY <1>1, <1>7, <1>8 DEF Places
<1> QED
  BY <1>6, <1>9 DEF Responds

-----------------------------------------------------------------------------
(***************************************************************************)
(* What a step may do to what is recorded: nothing, a failure, a record.   *)
(***************************************************************************)
Grows ==
    /\ records \subseteq records' /\ failed \subseteq failed'
    /\ \A e \in 1..MaxEpoch : streams[e].actor # None => streams'[e].actor = streams[e].actor

\* What explains a flag stays.
LEMMA ExplainedGrows ==
    ASSUME Grows, NEW op, NEW flags, Explained(op, flags)
    PROVE  Explained(op, flags)'
BY DEF Grows, Explained

\* What settles a predecessor stays: an epoch does not change hands.
LEMMA SettledGrows ==
    ASSUME Grows, NEW op, op.epoch \in 1..MaxEpoch, NEW identity, Settled(op, identity)
    PROVE  Settled(op, identity)'
BY DEF Grows, Settled, Recorded, Foreign

\* What a response told stays recorded.
LEMMA ToldGrows ==
    ASSUME Grows, NEW answer, NEW op, Told(answer, op)
    PROVE  Told(answer, op)'
BY DEF Grows, Told

\* The responses of a batch stay true.
LEMMA RespondsGrows ==
    ASSUME Grows, NEW b, b = NoBatch \/ BatchRow(b), Responds(b)
    PROVE  Responds(b)'
<1> SUFFICES ASSUME NEW i \in DOMAIN b.list, b.responses[i] # None
             PROVE  Told(b.responses[i], b.list[i])' /\ Settled(b.list[i], b.identity)'
  BY DEF Responds
<1>1. Told(b.responses[i], b.list[i]) /\ Settled(b.list[i], b.identity)
  BY DEF Responds
<1>2. b.list[i].epoch \in 1..MaxEpoch
  <2>1. BatchRow(b)
    BY DEF NoBatch
  <2>2. b.list[i] \in Claims
    BY <2>1 DEF BatchRow, Claims
  <2> QED
    BY <2>2, ClaimsDrawn
<1> QED
  BY <1>1, <1>2, ToldGrows, SettledGrows

\* What is left to show of a step of one call.
LEMMA StepKeeps ==
    ASSUME BatchInv, Grows, RecordsExplained', StreamsExplained',
           streams' \in [1..MaxEpoch -> [actor : Actor \cup {None}, last : Nat]],
           records' \subseteq RecordRow, failed' \subseteq Claims,
           NEW k \in Call, NEW c \in CallRow, NEW b, b = NoBatch \/ BatchRow(b),
           calls' = [calls EXCEPT ![k] = c], batches' = [batches EXCEPT ![k] = b],
           Placed(c, k, b), Backed(c)', Responds(b)',
           \A d \in CallRow : (\E m \in Call \ {k} : calls[m] = d) => Backed(d)',
           \A m \in Call \ {k} : ~ Collide(c, calls[m])
    PROVE  BatchInv'
<1>1. calls \in [Call -> CallRow] /\ batches = [m \in Call |-> batches[m]]
  BY DEF BatchInv, BatchShape
<1>2. calls'[k] = c /\ batches'[k] = b
  BY <1>1
<1>3. \A m \in Call \ {k} : calls'[m] = calls[m] /\ batches'[m] = batches[m]
  BY <1>1
<1>4. BatchShape'
  <2>1. calls' \in [Call -> CallRow]
    BY <1>1
  <2>2. DOMAIN batches' = Call /\ batches' = [m \in Call |-> batches'[m]]
    BY <1>1
  <2>3. ASSUME NEW m \in Call PROVE batches'[m] = NoBatch \/ BatchRow(batches'[m])
    BY <1>2, <1>3 DEF BatchInv, BatchShape
  <2> QED
    BY <2>1, <2>2, <2>3 DEF BatchShape
<1>5. CallsExplained'
  <2>1. ASSUME NEW m \in Call PROVE Placed(calls'[m], m, batches'[m])
    BY <1>2, <1>3 DEF BatchInv, CallsExplained
  <2>2. ASSUME NEW m \in Call, NEW d, d = calls'[m] PROVE Backed(d)'
    <3>1. CASE m = k
      BY <1>2, <2>2, <3>1
    <3>2. CASE m # k
      BY <1>1, <1>3, <2>2, <3>2
    <3> QED
      BY <3>1, <3>2
  <2>3. ASSUME NEW m \in Call, NEW n \in Call \ {m} PROVE ~ Collide(calls'[m], calls'[n])
    <3>1. CASE m = k
      BY <1>2, <1>3, <3>1
    <3>2. CASE n = k
      BY <1>2, <1>3, <3>2 DEF Collide
    <3>3. CASE m # k /\ n # k
      BY <1>3, <3>3 DEF BatchInv, CallsExplained
    <3> QED
      BY <3>1, <3>2, <3>3
  <2>4. \A m \in Call : \A d : d = calls'[m] => Backed(d)'
    BY <2>2
  <2>5. \A m \in Call : Backed(calls[m])'
    BY <2>4 DEF Backed, Original, Foreign, Explained, Told, Settled, Recorded
  <2> QED
    BY <2>1, <2>3, <2>5 DEF CallsExplained
<1>6. ResponsesExplained'
  <2>1. ASSUME NEW m \in Call, NEW e, e = batches'[m] PROVE Responds(e)'
    <3>1. CASE m = k
      BY <1>2, <2>1, <3>1
    <3>2. CASE m # k
      <4>1. e = batches[m]
        BY <1>3, <2>1, <3>2
      <4>2. (e = NoBatch \/ BatchRow(e)) /\ Responds(e)
        BY <4>1 DEF BatchInv, BatchShape, ResponsesExplained
      <4> QED
        BY <4>2, RespondsGrows
    <3> QED
      BY <3>1, <3>2
  <2>2. \A m \in Call : \A e : e = batches'[m] => Responds(e)'
    BY <2>1
  <2> QED
    BY <2>2 DEF ResponsesExplained, Responds, Told, Settled, Recorded, Foreign
<1> QED
  BY <1>4, <1>5, <1>6 DEF BatchInv

\* A step that records nothing: a transaction may have failed.
Rests == UNCHANGED <<streams, records>> /\ failed \subseteq failed' /\ failed' \subseteq Claims

\* What a transaction has found out stays true when nothing is recorded.
LEMMA BackedRests ==
    ASSUME Rests, NEW c, Backed(c)
    PROVE  Backed(c)'
BY DEF Rests, Backed, Original, Foreign, Explained, Told, Settled, Recorded

\* A step of one call that records nothing.
LEMMA RestKeeps ==
    ASSUME BatchInv, Rests,
           NEW k \in Call, NEW c \in CallRow, NEW b, b = NoBatch \/ BatchRow(b),
           calls' = [calls EXCEPT ![k] = c], batches' = [batches EXCEPT ![k] = b],
           Placed(c, k, b), Backed(c)', Responds(b)',
           \A m \in Call \ {k} : ~ Collide(c, calls[m])
    PROVE  BatchInv'
<1>1. Grows
  BY DEF Rests, Grows
<1>2. ASSUME NEW x \in records PROVE Explained(x.op, x.flags)'
  BY <1>1, ExplainedGrows DEF BatchInv, RecordsExplained
<1>3. RecordsExplained'
  BY <1>2 DEF Rests, BatchInv, RecordsExplained, Recorded
<1>4. StreamsExplained'
  BY DEF Rests, BatchInv, StreamsExplained
<1>5. /\ streams' \in [1..MaxEpoch -> [actor : Actor \cup {None}, last : Nat]]
      /\ records' \subseteq RecordRow /\ failed' \subseteq Claims
  BY DEF Rests, BatchInv, BatchShape
<1>6. ASSUME NEW d \in CallRow, \E m \in Call \ {k} : calls[m] = d PROVE Backed(d)'
  <2>1. Backed(d)
    BY <1>6 DEF BatchInv, CallsExplained
  <2> QED
    BY <2>1, BackedRests
<1> QED
  BY <1>1, <1>3, <1>4, <1>5, <1>6, StepKeeps

-----------------------------------------------------------------------------
(***************************************************************************)
(* The actions.                                                            *)
(***************************************************************************)
\* What the invariant says of one call and its batch.
LEMMA CallPicked ==
    ASSUME BatchInv, NEW k \in Call, NEW c, c = calls[k], NEW b, b = batches[k]
    PROVE  /\ c \in CallRow /\ (b = NoBatch \/ BatchRow(b)) /\ Responds(b)
           /\ Placed(c, k, b) /\ Backed(c) /\ \A m \in Call \ {k} : ~ Collide(c, calls[m])
           /\ calls = [calls EXCEPT ![k] = c] /\ batches = [batches EXCEPT ![k] = b]
           /\ Remaining(k) = Places(b) /\ Turn(k) = First(b)
           /\ c.phase # "free" => /\ BatchRow(b) /\ c.op \in Claims /\ c.identity \in Actor
                                  /\ c.owner = k
<1>1. /\ c \in CallRow /\ (b = NoBatch \/ BatchRow(b)) /\ Responds(b)
      /\ Placed(c, k, b) /\ Backed(c) /\ \A m \in Call \ {k} : ~ Collide(c, calls[m])
  BY DEF BatchInv, BatchShape, CallsExplained, ResponsesExplained
<1>2. calls = [calls EXCEPT ![k] = c] /\ batches = [batches EXCEPT ![k] = b]
  BY DEF BatchInv, BatchShape
<1>3. Remaining(k) = Places(b) /\ Turn(k) = First(b)
  BY TurnIs
<1>4. c.phase # "free" => /\ BatchRow(b) /\ c.op \in Claims /\ c.identity \in Actor
                          /\ c.owner = k
  <2> HAVE c.phase # "free"
  <2>1. Places(b) # {} /\ c.op = b.list[First(b)] /\ c.identity = b.identity /\ c.owner = k
    BY <1>1 DEF Placed
  <2>2. BatchRow(b) /\ b.list[First(b)] \in Claims
    BY <1>1, <2>1, TurnFirst
  <2> QED
    BY <2>1, <2>2 DEF BatchRow
<1> QED
  BY <1>1, <1>2, <1>3, <1>4

\* A call that serves nothing owes nothing.
LEMMA FreeFits ==
    /\ Free \in CallRow
    /\ \A k, b : Placed(Free, k, b)
    /\ \A c : ~ Collide(Free, c)
    /\ Backed(Free) /\ Backed(Free)'
<1>1. Free \in CallRow /\ Free.phase = "free"
  BY DEF Free, CallRow
<1> QED
  BY <1>1 DEF Placed, Collide, Backed

\* A new request: the call is free, nothing has a response.
LEMMA SendBatchKeeps ==
    ASSUME BatchInv, NEW k \in Call, NEW list \in Sent, NEW a \in Actor, SendBatch(k, list, a)
    PROVE  BatchInv'
<1>1. PICK c, old : c = calls[k] /\ old = batches[k]
  OBVIOUS
<1> DEFINE b == [list |-> list, identity |-> a, responses |-> [i \in DOMAIN list |-> None]]
<1>2. /\ c \in CallRow /\ Placed(c, k, old) /\ Backed(c)
      /\ calls = [calls EXCEPT ![k] = c] /\ \A m \in Call \ {k} : ~ Collide(c, calls[m])
  BY <1>1, CallPicked
<1>3. c.phase = "free"
  BY <1>1, <1>2 DEF SendBatch, Placed, Places, NoBatch
<1>4. Honest(list) /\ UNCHANGED <<calls, streams, records, failed>> /\ batches' = [batches EXCEPT ![k] = b]
  BY DEF SendBatch, serverVars
<1>5. Rests
  BY <1>4 DEF Rests, BatchInv, BatchShape
<1>6. BatchRow(b) /\ Responds(b)'
  BY <1>4 DEF BatchRow, Responds
<1>7. Placed(c, k, b) /\ Backed(c)'
  BY <1>3 DEF Placed, Backed
<1> HIDE DEF b
<1>8. calls' = [calls EXCEPT ![k] = c] /\ batches' = [batches EXCEPT ![k] = b]
  BY <1>2, <1>4
<1> QED
  BY <1>2, <1>5, <1>6, <1>7, <1>8, RestKeeps

\* The loop opens a transaction for the place whose turn it is.
LEMMA NextOperationKeeps ==
    ASSUME BatchInv, NEW k \in Call, NextOperation(k)
    PROVE  BatchInv'
<1>1. PICK old, b : old = calls[k] /\ b = batches[k]
  OBVIOUS
<1>2. /\ (b = NoBatch \/ BatchRow(b)) /\ Responds(b) /\ batches = [batches EXCEPT ![k] = b]
      /\ Remaining(k) = Places(b) /\ Turn(k) = First(b)
  BY <1>1, CallPicked
<1>3. Places(b) # {} /\ BatchRow(b) /\ b.list[First(b)] \in Claims
  BY <1>2, TurnFirst DEF NextOperation
<1> DEFINE c == [Free EXCEPT !.phase = "sent", !.op = b.list[First(b)],
                             !.identity = b.identity, !.owner = k]
<1>4. /\ calls' = [calls EXCEPT ![k] = c]
      /\ UNCHANGED <<streams, records, failed, batches>>
  BY <1>1, <1>2 DEF NextOperation, Submit
<1>5. Rests
  BY <1>4 DEF Rests, BatchInv, BatchShape
<1>6. c \in CallRow
  BY <1>3 DEF Free, CallRow, BatchRow
<1>7. Placed(c, k, b) /\ Backed(c)' /\ \A d : ~ Collide(c, d)
  <2>1. /\ c.phase = "sent" /\ c.op = b.list[First(b)]
        /\ c.identity = b.identity /\ c.owner = k
    BY DEF Free
  <2> HIDE DEF c
  <2> QED
    BY <1>3, <2>1 DEF Placed, Backed, Collide
<1>8. Responds(b)'
  BY <1>2, <1>5, RespondsGrows DEF Rests, Grows
<1> HIDE DEF c
<1> QED
  BY <1>2, <1>4, <1>5, <1>6, <1>7, <1>8, RestKeeps

\* The answer goes to the place whose turn it is, which its call serves.
LEMMA TakeResponseKeeps ==
    ASSUME BatchInv, NEW k \in Call, TakeResponse(k)
    PROVE  BatchInv'
<1>1. PICK c, old : c = calls[k] /\ old = batches[k]
  OBVIOUS
<1>2. /\ c \in CallRow /\ Responds(old) /\ Placed(c, k, old) /\ Backed(c)
      /\ Turn(k) = First(old) /\ (c.phase # "free" => BatchRow(old))
  BY <1>1, CallPicked
<1>3. c.phase = "answered" /\ c.answer # Unauthorized
  BY <1>1 DEF TakeResponse
<1>4. BatchRow(old) /\ First(old) \in DOMAIN old.list
  BY <1>2, <1>3, TurnFirst DEF Placed
<1> DEFINE b == [old EXCEPT !.responses[First(old)] = c.answer]
<1>5. /\ calls' = [calls EXCEPT ![k] = Free] /\ batches' = [batches EXCEPT ![k] = b]
      /\ UNCHANGED <<streams, records, failed>>
  BY <1>1, <1>2 DEF TakeResponse, BatchInv, BatchShape
<1>6. Rests
  BY <1>5 DEF Rests, BatchInv, BatchShape
<1>7. /\ b.list = old.list /\ b.identity = old.identity
      /\ b.responses = [old.responses EXCEPT ![First(old)] = c.answer]
      /\ b = [list |-> b.list, identity |-> b.identity, responses |-> b.responses]
  BY <1>4 DEF BatchRow
<1> HIDE DEF b
<1>8. BatchRow(b)
  <2>1. c.answer \in AnswerRow \cup {None}
    BY <1>2 DEF CallRow
  <2> QED
    BY <1>4, <1>7, <2>1 DEF BatchRow
<1>9. Responds(b)
  <2> SUFFICES ASSUME NEW i \in DOMAIN b.list, b.responses[i] # None
               PROVE  Told(b.responses[i], b.list[i]) /\ Settled(b.list[i], b.identity)
    BY DEF Responds
  <2>1. CASE i = First(old)
    <3>1. b.responses[i] = c.answer
      BY <1>4, <1>7, <2>1 DEF BatchRow
    <3>2. c.op = old.list[First(old)] /\ c.identity = old.identity
      BY <1>2, <1>3 DEF Placed
    <3>3. Told(c.answer, c.op) /\ Settled(c.op, c.identity)
      BY <1>2, <1>3 DEF Backed
    <3> QED
      BY <1>7, <2>1, <3>1, <3>2, <3>3
  <2>2. CASE i # First(old)
    <3>1. b.responses[i] = old.responses[i]
      BY <1>4, <1>7, <2>2 DEF BatchRow
    <3> QED
      BY <1>2, <1>7, <3>1 DEF Responds
  <2> QED
    BY <2>1, <2>2
<1>10. Responds(b)'
  BY <1>6, <1>8, <1>9, RespondsGrows DEF Rests, Grows
<1> QED
  BY <1>5, <1>6, <1>8, <1>10, FreeFits, RestKeeps

\* A request that ends, answered in full or not.
LEMMA EndKeeps ==
    ASSUME BatchInv, NEW k \in Call, UNCHANGED <<streams, records, failed>>,
           batches' = [batches EXCEPT ![k] = NoBatch], calls' = [calls EXCEPT ![k] = Free]
    PROVE  BatchInv'
<1>1. Rests
  BY DEF Rests, BatchInv, BatchShape
<1>2. Responds(NoBatch)'
  BY DEF Responds, NoBatch
<1> QED
  BY <1>1, <1>2, FreeFits, RestKeeps

\* The loop is over when no place is left.
LEMMA FinishBatchKeeps ==
    ASSUME BatchInv, NEW k \in Call, FinishBatch(k)
    PROVE  BatchInv'
<1>1. PICK c, b : c = calls[k] /\ b = batches[k]
  OBVIOUS
<1>2. /\ c \in CallRow /\ Placed(c, k, b) /\ Remaining(k) = Places(b) /\ Backed(c)
      /\ calls = [calls EXCEPT ![k] = c] /\ \A m \in Call \ {k} : ~ Collide(c, calls[m])
  BY <1>1, CallPicked
<1>3. c.phase = "free"
  BY <1>2 DEF FinishBatch, Placed
<1>4. UNCHANGED <<calls, streams, records, failed>> /\ batches' = [batches EXCEPT ![k] = NoBatch]
  BY DEF FinishBatch, serverVars
<1>5. Rests
  BY <1>4 DEF Rests, BatchInv, BatchShape
<1>6. Responds(NoBatch)' /\ Placed(c, k, NoBatch) /\ Backed(c)'
  BY <1>3 DEF Responds, NoBatch, Placed, Backed
<1>7. calls' = [calls EXCEPT ![k] = c] /\ batches' = [batches EXCEPT ![k] = NoBatch]
  BY <1>2, <1>4
<1> QED
  BY <1>2, <1>5, <1>6, <1>7, RestKeeps

-----------------------------------------------------------------------------
(***************************************************************************)
(* The transactions.                                                       *)
(***************************************************************************)
\* The call with its answer.
Replied(c, answer) == [c EXCEPT !.phase = "answered", !.answer = answer]

\* An answer leaves the operation of a call alone and ends its locks.
LEMMA RepliedIs ==
    ASSUME NEW k, NEW b, NEW c \in CallRow, NEW answer \in AnswerRow,
           c.phase # "free", Placed(c, k, b)
    PROVE  /\ Replied(c, answer) \in CallRow /\ Placed(Replied(c, answer), k, b)
           /\ Replied(c, answer).phase = "answered" /\ Replied(c, answer).answer = answer
           /\ Replied(c, answer).op = c.op /\ Replied(c, answer).identity = c.identity
           /\ \A d : ~ Collide(Replied(c, answer), d)
<1> DEFINE r == Replied(c, answer)
<1>1. /\ r \in CallRow /\ r.phase = "answered" /\ r.answer = answer /\ r.op = c.op
      /\ r.identity = c.identity /\ r.owner = c.owner
  BY DEF Replied, CallRow
<1> HIDE DEF r
<1>2. Placed(r, k, b) /\ \A d : ~ Collide(r, d)
  BY <1>1 DEF Placed, Collide
<1> QED
  BY <1>1, <1>2 DEF r

\* The answers; those that say nothing was recorded claim nothing.
LEMMA AnswersTyped ==
    /\ Unavailable \in AnswerRow /\ Unauthorized \in AnswerRow
    /\ \A code \in BOOLEAN : \A state \in {"APPLIED", "REJECTED", "DUPLICATE"} :
           Answer(state, code, TRUE) \in AnswerRow /\ Answer(state, code, TRUE).code = code
    /\ \A op : Told(Unavailable, op) /\ Told(Unauthorized, op)
    /\ \A op : Told(Unavailable, op)' /\ Told(Unauthorized, op)'
BY DEF Unavailable, Unauthorized, Answer, AnswerRow, Told

\* A transaction that ends without a record of its own.
LEMMA AnsweredKeeps ==
    ASSUME BatchInv, NEW k \in Call, NEW c, c = calls[k], c.phase # "free",
           NEW answer \in AnswerRow, Answered(k, answer), batches' = batches, Rests,
           Told(answer, c.op)', answer # Unauthorized => Settled(c.op, c.identity)'
    PROVE  BatchInv'
<1>1. PICK b : b = batches[k]
  OBVIOUS
<1>2. /\ c \in CallRow /\ (b = NoBatch \/ BatchRow(b)) /\ Responds(b) /\ Placed(c, k, b)
      /\ batches = [batches EXCEPT ![k] = b] /\ c.owner = k
  BY <1>1, CallPicked
<1>3. PICK r : r = Replied(c, answer)
  OBVIOUS
<1>4. /\ r \in CallRow /\ Placed(r, k, b) /\ \A d : ~ Collide(r, d)
      /\ r.phase = "answered" /\ r.answer = answer /\ r.op = c.op /\ r.identity = c.identity
  BY <1>2, <1>3, RepliedIs
<1>5. calls' = [calls EXCEPT ![k] = r]
  <2>1. calls[k].owner # None
    BY <1>2, ServerAssumption
  <2> QED
    BY <1>3, <2>1 DEF Answered, Replied
<1>6. Backed(r)'
  BY <1>4 DEF Backed
<1>7. Responds(b)'
  BY <1>2, RespondsGrows DEF Rests, Grows
<1>8. batches' = [batches EXCEPT ![k] = b]
  BY <1>2
<1> QED
  BY <1>2, <1>4, <1>5, <1>6, <1>7, <1>8, RestKeeps

\* A dead credential settles nothing and ends the batch.
LEMMA UnauthorizeKeeps ==
    ASSUME BatchInv, NEW k \in Call, Unauthorize(k), UNCHANGED <<batches, failed>>
    PROVE  BatchInv'
<1>1. PICK c : c = calls[k]
  OBVIOUS
<1>2. c.phase # "free" /\ Answered(k, Unauthorized) /\ Rests
  BY <1>1 DEF Unauthorize, Rests, BatchInv, BatchShape
<1>3. Unauthorized \in AnswerRow /\ Told(Unauthorized, c.op)'
  BY AnswersTyped
<1> QED
  BY <1>1, <1>2, <1>3, AnsweredKeeps

\* A failed transaction is a failure of the operation it served.
LEMMA FailOperationKeeps ==
    ASSUME BatchInv, NEW k \in Call, FailOperation(k)
    PROVE  BatchInv'
<1>1. PICK c : c = calls[k]
  OBVIOUS
<1>2. c.phase # "free" /\ Answered(k, Unavailable) /\ batches' = batches
  BY <1>1 DEF FailOperation, Abort
<1>3. PICK b : b = batches[k]
  OBVIOUS
<1>4. c.op \in Claims
  BY <1>1, <1>2, <1>3, CallPicked
<1>5. Rests /\ c.op \in failed'
  BY <1>1, <1>4 DEF FailOperation, Abort, Rests, BatchInv, BatchShape
<1>6. Unavailable \in AnswerRow /\ Told(Unavailable, c.op)'
  BY AnswersTyped
<1>7. Settled(c.op, c.identity)'
  BY <1>5 DEF Settled
<1> QED
  BY <1>1, <1>2, <1>5, <1>6, <1>7, AnsweredKeeps

\* The record found under the id is that of this very operation.
LEMMA AnswerDuplicateKeeps ==
    ASSUME BatchInv, NEW k \in Call, AnswerDuplicate(k), UNCHANGED <<batches, failed>>
    PROVE  BatchInv'
<1>1. PICK c, b : c = calls[k] /\ b = batches[k]
  OBVIOUS
<1>2. c.phase # "free" /\ Rests
  BY <1>1 DEF AnswerDuplicate, Rests, BatchInv, BatchShape
<1>3. PICK x \in Original(c.op.id) :
          Answered(k, IF x.actor = c.identity THEN Answer("DUPLICATE", x.code, TRUE) ELSE Unavailable)
  BY <1>1 DEF AnswerDuplicate
<1>4. c.op \in Claims
  BY <1>1, <1>2, CallPicked
<1>5. x \in records /\ x \in RecordRow /\ x.op.id = c.op.id
  BY <1>3 DEF Original, BatchInv, BatchShape
<1>6. x.op = c.op /\ x.code \in BOOLEAN
  BY <1>4, <1>5, ClaimsDrawn DEF RecordRow
<1>7. x \in records'
  BY <1>2, <1>5 DEF Rests
<1>8. PICK answer : answer = IF x.actor = c.identity THEN Answer("DUPLICATE", x.code, TRUE) ELSE Unavailable
  OBVIOUS
<1>9. answer \in AnswerRow /\ Told(answer, c.op)'
  <2>1. CASE x.actor = c.identity
    <3>1. answer \in AnswerRow /\ answer.code = x.code
      BY <1>6, <1>8, <2>1, AnswersTyped
    <3> QED
      BY <1>6, <1>7, <3>1 DEF Told
  <2>2. CASE x.actor # c.identity
    BY <1>8, <2>2, AnswersTyped
  <2> QED
    BY <2>1, <2>2
<1>10. Settled(c.op, c.identity)'
  BY <1>6, <1>7 DEF Settled, Recorded
<1>11. Answered(k, answer)
  BY <1>3, <1>8
<1> QED
  BY <1>1, <1>2, <1>9, <1>10, <1>11, AnsweredKeeps

\* The advisory lock: no other call holds this id, and nothing is recorded of it.
LEMMA LockOperationKeeps ==
    ASSUME BatchInv, NEW k \in Call, LockOperation(k), UNCHANGED <<batches, failed>>
    PROVE  BatchInv'
<1>1. PICK old, b : old = calls[k] /\ b = batches[k]
  OBVIOUS
<1>2. /\ old \in CallRow /\ (b = NoBatch \/ BatchRow(b)) /\ Responds(b) /\ Placed(old, k, b)
      /\ batches = [batches EXCEPT ![k] = b]
  BY <1>1, CallPicked
<1>3. /\ old.phase = "sent" /\ Original(old.op.id) = {} /\ ~ OperationLocked(old.op.id)
      /\ Rests /\ records' = records
  BY <1>1 DEF LockOperation, Rests, BatchInv, BatchShape
<1>4. PICK c : c = [old EXCEPT !.phase = "locked"]
  OBVIOUS
<1>5. /\ c \in CallRow /\ c.phase = "locked" /\ c.op = old.op
      /\ c.identity = old.identity /\ c.owner = old.owner
  BY <1>2, <1>4 DEF CallRow
<1>6. calls' = [calls EXCEPT ![k] = c] /\ batches' = [batches EXCEPT ![k] = b]
  BY <1>1, <1>2, <1>4 DEF LockOperation
<1>7. Placed(c, k, b)
  BY <1>2, <1>3, <1>5 DEF Placed
<1>8. Backed(c)'
  BY <1>3, <1>5 DEF Backed, Original
<1>9. Responds(b)'
  BY <1>2, <1>3, RespondsGrows DEF Rests, Grows
<1>10. \A m \in Call \ {k} : ~ Collide(c, calls[m])
  BY <1>3, <1>5 DEF Collide, OperationLocked
<1> QED
  BY <1>2, <1>3, <1>5, <1>6, <1>7, <1>8, <1>9, <1>10, RestKeeps

\* The flags that _sequence finds are explained by failed transactions.
LEMMA FlagsExplained ==
    ASSUME BatchInv, NEW k \in Call, NEW c, c = calls[k], c.phase = "locked",
           ~ Foreign(c.op, c.identity)
    PROVE  Explained(c.op, SequenceFlags(c.op.seq, streams[c.op.epoch].last))
<1>1. PICK b : b = batches[k]
  OBVIOUS
<1>2. /\ (b = NoBatch \/ BatchRow(b)) /\ Responds(b) /\ Placed(c, k, b) /\ Backed(c)
      /\ BatchRow(b) /\ c.op \in Claims
  BY <1>1, CallPicked
<1>3. Places(b) # {} /\ c.op = b.list[First(b)] /\ c.identity = b.identity
  BY <1>2 DEF Placed
<1>4. First(b) \in DOMAIN b.list
  BY <1>2, <1>3, TurnFirst
<1> DEFINE op == c.op
           last == streams[op.epoch].last
<1>5. op.seq \in Nat \ {0} /\ op.epoch \in 1..MaxEpoch /\ last \in Nat
  BY <1>2, ClaimsDrawn DEF BatchInv, BatchShape
<1>6. ~ Recorded(op)
  BY <1>2 DEF Backed, Original, Recorded
<1>7. ASSUME "SEQUENCE_GAP" \in SequenceFlags(op.seq, last)
      PROVE  \E f \in failed : f.epoch = op.epoch /\ f.seq < op.seq
  <2>1. last + 1 \in 1..(op.seq - 1)
    BY <1>5, <1>7 DEF SequenceFlags
  <2>2. PICK j \in DOMAIN b.list : b.list[j].epoch = op.epoch /\ b.list[j].seq = last + 1
    BY <1>2, <1>3, <1>4, <2>1 DEF BatchRow, Honest
  <2>3. PICK p \in Claims : p = b.list[j]
    BY <1>2, <2>2 DEF BatchRow, Claims
  <2>4. Precedes(p, op) /\ p.seq = last + 1 /\ p.epoch = op.epoch
    BY <1>5, <2>1, <2>2, <2>3 DEF Precedes
  <2>5. Settled(p, c.identity)
    BY <1>2, <1>3, <2>4, PredecessorsSettled
  <2>6. ~ Foreign(p, c.identity)
    BY <2>4 DEF Foreign
  <2>7. ~ Recorded(p)
    <3>1. \A x \in records : x.op.seq <= streams[x.op.epoch].last
      BY DEF BatchInv, StreamsExplained
    <3> QED
      BY <1>5, <2>4, <3>1 DEF Recorded
  <2> QED
    BY <2>4, <2>5, <2>6, <2>7 DEF Settled, Precedes
<1>8. ASSUME "SEQUENCE_REUSED" \in SequenceFlags(op.seq, last)
      PROVE  op \in failed
  <2>1. op.seq <= last /\ last # 0
    BY <1>5, <1>8 DEF SequenceFlags
  <2>2. PICK x \in records : x.op.epoch = op.epoch /\ x.op.seq = last
    BY <1>5, <2>1 DEF BatchInv, StreamsExplained
  <2>3. x.op \in Claims /\ x.op # op
    BY <1>6, <2>2 DEF BatchInv, BatchShape, RecordRow, Recorded
  <2>4. x.op.seq # op.seq
    BY <1>2, <2>2, <2>3, ClaimsDrawn
  <2>5. Precedes(op, x.op)
    BY <1>5, <2>1, <2>2, <2>4 DEF Precedes
  <2> QED
    BY <1>2, <1>6, <2>2, <2>5 DEF BatchInv, RecordsExplained
<1> QED
  BY <1>7, <1>8 DEF Explained

\* The stream row: the epoch is foreign, or its flags are explained.
LEMMA SequenceKeeps ==
    ASSUME BatchInv, NEW k \in Call, Sequence(k), UNCHANGED <<batches, failed>>
    PROVE  BatchInv'
<1>1. PICK old, b : old = calls[k] /\ b = batches[k]
  OBVIOUS
<1>2. old.phase = "locked" /\ ~ StreamLocked(old.op.epoch) /\ Rests /\ UNCHANGED <<records, streams, failed>>
  BY <1>1 DEF Sequence, Rests, BatchInv, BatchShape
<1>3. /\ old \in CallRow /\ (b = NoBatch \/ BatchRow(b)) /\ Responds(b) /\ Placed(old, k, b)
      /\ Backed(old) /\ batches = [batches EXCEPT ![k] = b]
      /\ old.op \in Claims /\ old.identity \in Actor
      /\ \A m \in Call \ {k} : ~ Collide(old, calls[m])
  BY <1>1, <1>2, CallPicked
<1>4. CASE Foreign(old.op, old.identity)
  <2>1. Answered(k, Unavailable)
    BY <1>1, <1>4 DEF Sequence, Foreign
  <2>2. Unavailable \in AnswerRow /\ Told(Unavailable, old.op)'
    BY AnswersTyped
  <2>3. Settled(old.op, old.identity)'
    BY <1>2, <1>4 DEF Settled, Foreign
  <2> QED
    BY <1>1, <1>2, <2>1, <2>2, <2>3, AnsweredKeeps
<1>5. CASE ~ Foreign(old.op, old.identity)
  <2>1. PICK flags : flags = SequenceFlags(old.op.seq, streams[old.op.epoch].last)
    OBVIOUS
  <2>2. Explained(old.op, flags) /\ flags \in SUBSET Flags
    BY <1>1, <1>2, <1>5, <2>1, FlagsExplained DEF SequenceFlags, Flags
  <2>3. PICK c : c = [old EXCEPT !.phase = "sequenced", !.flags = flags]
    OBVIOUS
  <2>4. /\ c \in CallRow /\ c.phase = "sequenced" /\ c.op = old.op /\ c.flags = flags
        /\ c.identity = old.identity /\ c.owner = old.owner
    BY <1>3, <2>2, <2>3 DEF CallRow
  <2>5. calls' = [calls EXCEPT ![k] = c] /\ batches' = [batches EXCEPT ![k] = b]
    BY <1>1, <1>3, <1>5, <2>1, <2>3 DEF Sequence, Foreign
  <2>6. Placed(c, k, b)
    BY <1>2, <1>3, <2>4 DEF Placed
  <2>7. Backed(c)'
    <3>1. Backed(c)
      BY <1>2, <1>3, <1>5, <2>2, <2>4 DEF Backed
    <3> QED
      BY <1>2, <3>1, BackedRests
  <2>8. Responds(b)'
    BY <1>2, <1>3, RespondsGrows DEF Rests, Grows
  <2>9. \A m \in Call \ {k} : ~ Collide(c, calls[m])
    BY <1>2, <1>3, <2>4 DEF Collide, StreamLocked
  <2> QED
    BY <1>2, <1>3, <2>4, <2>5, <2>6, <2>7, <2>8, <2>9, RestKeeps
<1> QED
  BY <1>4, <1>5

\* The commit: what precedes the operation is recorded or has failed.
LEMMA RecordKeeps ==
    ASSUME BatchInv, NEW k \in Call, Record(k), UNCHANGED <<batches, failed>>
    PROVE  BatchInv'
<1>1. PICK c, b : c = calls[k] /\ b = batches[k]
  OBVIOUS
<1>2. c.phase = "sequenced"
  BY <1>1 DEF Record
<1>3. /\ c \in CallRow /\ (b = NoBatch \/ BatchRow(b)) /\ Responds(b) /\ Placed(c, k, b)
      /\ Backed(c) /\ batches = [batches EXCEPT ![k] = b]
      /\ c.op \in Claims /\ c.identity \in Actor /\ c.owner = k
      /\ \A m \in Call \ {k} : ~ Collide(c, calls[m])
  BY <1>1, <1>2, CallPicked
<1>4. PICK outcome \in Outcome(c.op, c.identity), state \in {"APPLIED", "REJECTED"} :
          /\ records' = records \cup {[op |-> c.op, actor |-> c.identity, state |-> state,
                                       code |-> outcome # "APPLIED", flags |-> c.flags]}
          /\ Answered(k, Answer(state, outcome # "APPLIED", TRUE))
  <2>1. PICK outcome \in Outcome(c.op, c.identity) :
          LET state == IF outcome = "APPLIED" THEN "APPLIED" ELSE "REJECTED" IN
          /\ records' = records \cup {[op |-> c.op, actor |-> c.identity, state |-> state,
                                       code |-> outcome # "APPLIED", flags |-> c.flags]}
          /\ Answered(k, Answer(state, outcome # "APPLIED", TRUE))
    BY <1>1 DEF Record
  <2>2. (IF outcome = "APPLIED" THEN "APPLIED" ELSE "REJECTED") \in {"APPLIED", "REJECTED"}
    OBVIOUS
  <2> QED
    BY <2>1, <2>2
<1>5. PICK x : x = [op |-> c.op, actor |-> c.identity, state |-> state,
                    code |-> outcome # "APPLIED", flags |-> c.flags]
  OBVIOUS
<1>6. /\ records' = records \cup {x} /\ x \in RecordRow /\ x.op = c.op /\ x.flags = c.flags
      /\ x.code = (outcome # "APPLIED")
  BY <1>3, <1>4, <1>5 DEF RecordRow, CallRow
<1> DEFINE op == c.op
           last == streams[op.epoch].last
<1>7. op.seq \in Nat \ {0} /\ op.epoch \in 1..MaxEpoch /\ last \in Nat
  BY <1>3, ClaimsDrawn DEF BatchInv, BatchShape
<1>8. streams' = [streams EXCEPT ![op.epoch] =
                     [actor |-> c.identity, last |-> IF op.seq > last THEN op.seq ELSE last]]
  BY <1>1 DEF Record
<1>9. /\ streams \in [1..MaxEpoch -> [actor : Actor \cup {None}, last : Nat]]
      /\ streams' \in [1..MaxEpoch -> [actor : Actor \cup {None}, last : Nat]]
      /\ streams'[op.epoch].actor = c.identity
      /\ streams'[op.epoch].last = IF op.seq > last THEN op.seq ELSE last
      /\ \A e \in (1..MaxEpoch) \ {op.epoch} : streams'[e] = streams[e]
  <2>1. streams \in [1..MaxEpoch -> [actor : Actor \cup {None}, last : Nat]]
    BY DEF BatchInv, BatchShape
  <2> QED
    BY <1>3, <1>7, <1>8, <2>1
<1>10. ~ Foreign(op, c.identity) /\ Explained(op, c.flags)
  BY <1>2, <1>3 DEF Backed
<1>11. Grows
  BY <1>6, <1>7, <1>9, <1>10 DEF Grows, Foreign
<1>12. RecordsExplained'
  <2>1. ASSUME NEW p \in Claims, Precedes(p, op) PROVE p \in failed \/ Recorded(p)
    <3>1. Places(b) # {} /\ op = b.list[First(b)] /\ c.identity = b.identity
      BY <1>2, <1>3 DEF Placed
    <3>2. Settled(p, c.identity)
      BY <1>3, <2>1, <3>1, PredecessorsSettled
    <3>3. ~ Foreign(p, c.identity)
      BY <1>10, <2>1 DEF Foreign, Precedes
    <3> QED
      BY <3>2, <3>3 DEF Settled
  <2>2. ASSUME NEW y \in records'
        PROVE  /\ Explained(y.op, y.flags)
               /\ \A p \in Claims : Precedes(p, y.op) => p \in failed \/ Recorded(p)
    <3>1. CASE y = x
      BY <1>6, <1>10, <2>1, <3>1
    <3>2. CASE y \in records
      BY <3>2 DEF BatchInv, RecordsExplained
    <3> QED
      BY <1>6, <3>1, <3>2
  <2>3. ASSUME NEW y \in records' PROVE Explained(y.op, y.flags)'
    BY <1>11, <2>2, ExplainedGrows
  <2>4. ASSUME NEW y \in records', NEW p \in Claims, Precedes(p, y.op)
        PROVE  p \in failed' \/ Recorded(p)'
    BY <1>11, <2>2, <2>4 DEF Grows, Recorded
  <2> QED
    BY <2>3, <2>4 DEF RecordsExplained, Explained, Recorded
<1>13. StreamsExplained'
  <2>1. ASSUME NEW e \in 1..MaxEpoch, streams'[e].last # 0
        PROVE  \E y \in records' : y.op.epoch = e /\ y.op.seq = streams'[e].last
    <3>1. CASE e = op.epoch /\ op.seq > last
      BY <1>6, <1>7, <1>9, <3>1
    <3>2. CASE e # op.epoch \/ ~ (op.seq > last)
      <4>1. streams'[e].last = streams[e].last
        BY <1>7, <1>9, <3>2
      <4>2. \E y \in records : y.op.epoch = e /\ y.op.seq = streams[e].last
        BY <2>1, <4>1 DEF BatchInv, StreamsExplained
      <4> QED
        BY <1>6, <4>1, <4>2
    <3> QED
      BY <3>1, <3>2
  <2>2. ASSUME NEW y \in records' PROVE y.op.seq <= streams'[y.op.epoch].last
    <3>1. CASE y = x
      BY <1>6, <1>7, <1>9, <3>1
    <3>2. CASE y \in records
      <4>1. y.op \in Claims /\ y.op.seq <= streams[y.op.epoch].last
        BY <3>2 DEF BatchInv, BatchShape, RecordRow, StreamsExplained
      <4>2. y.op.seq \in Nat /\ y.op.epoch \in 1..MaxEpoch
        BY <4>1, ClaimsDrawn
      <4>3. CASE y.op.epoch = op.epoch
        BY <1>7, <1>9, <4>1, <4>2, <4>3
      <4>4. CASE y.op.epoch # op.epoch
        BY <1>9, <4>1, <4>2, <4>4
      <4> QED
        BY <4>3, <4>4
    <3> QED
      BY <1>6, <3>1, <3>2
  <2> QED
    BY <2>1, <2>2 DEF StreamsExplained
<1>14. ASSUME NEW d \in CallRow, \E m \in Call \ {k} : calls[m] = d PROVE Backed(d)'
  <2>1. PICK m \in Call \ {k} : d = calls[m]
    BY <1>14
  <2>2. PICK e : e = batches[m]
    OBVIOUS
  <2>3. Backed(d) /\ (d.phase # "free" => d.op \in Claims /\ d.identity \in Actor) /\ ~ Collide(c, d)
    BY <1>3, <2>1, <2>2, CallPicked
  <2>4. ASSUME d.phase \in {"locked", "sequenced"} PROVE Original(d.op.id)' = {}
    <3>1. Original(d.op.id) = {} /\ c.op.id # d.op.id
      BY <1>2, <2>3, <2>4 DEF Backed, Collide
    <3> QED
      BY <1>6, <3>1 DEF Original
  <2>5. ASSUME d.phase = "sequenced" PROVE ~ Foreign(d.op, d.identity)' /\ Explained(d.op, d.flags)'
    <3>1. ~ Foreign(d.op, d.identity) /\ Explained(d.op, d.flags) /\ d.op.epoch # op.epoch
      BY <1>2, <2>3, <2>5 DEF Backed, Collide
    <3>2. d.op.epoch \in (1..MaxEpoch) \ {op.epoch}
      BY <2>3, <2>5, <3>1, ClaimsDrawn
    <3>3. ~ Foreign(d.op, d.identity)'
      BY <1>9, <3>1, <3>2 DEF Foreign
    <3> QED
      BY <1>11, <3>1, <3>3, ExplainedGrows
  <2>6. ASSUME d.phase = "answered"
        PROVE  Told(d.answer, d.op)' /\ (d.answer # Unauthorized => Settled(d.op, d.identity)')
    <3>1. Told(d.answer, d.op) /\ (d.answer # Unauthorized => Settled(d.op, d.identity))
      BY <2>3, <2>6 DEF Backed
    <3>2. d.op.epoch \in 1..MaxEpoch
      BY <2>3, <2>6, ClaimsDrawn
    <3> QED
      BY <1>11, <3>1, <3>2, ToldGrows, SettledGrows
  <2> QED
    BY <2>4, <2>5, <2>6 DEF Backed
<1>15. PICK answer : answer = Answer(state, outcome # "APPLIED", TRUE)
  OBVIOUS
<1>16. answer \in AnswerRow /\ answer.code = x.code
  BY <1>4, <1>6, <1>15, AnswersTyped
<1>17. PICK r : r = Replied(c, answer)
  OBVIOUS
<1>18. /\ r \in CallRow /\ Placed(r, k, b) /\ \A d : ~ Collide(r, d)
       /\ r.phase = "answered" /\ r.answer = answer /\ r.op = op /\ r.identity = c.identity
  BY <1>2, <1>3, <1>16, <1>17, RepliedIs
<1>19. calls' = [calls EXCEPT ![k] = r]
  <2>1. calls[k].owner # None
    BY <1>1, <1>3, ServerAssumption
  <2> QED
    BY <1>1, <1>4, <1>15, <1>17, <2>1 DEF Answered, Replied
<1>20. Backed(r)'
  BY <1>6, <1>16, <1>18 DEF Backed, Told, Settled, Recorded
<1>21. Responds(b)' /\ batches' = [batches EXCEPT ![k] = b]
  BY <1>3, <1>11, RespondsGrows
<1>22. records' \subseteq RecordRow /\ failed' \subseteq Claims
  BY <1>6 DEF BatchInv, BatchShape
<1> QED
  BY <1>3, <1>9, <1>11, <1>12, <1>13, <1>14, <1>18, <1>19, <1>20, <1>21, <1>22, StepKeeps

-----------------------------------------------------------------------------
\* The server starts empty.
LEMMA BatchStarts ==
    BatchInit => BatchInv
<1> SUFFICES ASSUME BatchInit PROVE BatchInv
  OBVIOUS
<1>1. calls = [k \in Call |-> Free] /\ batches = [k \in Call |-> NoBatch]
  BY DEF BatchInit, ServerInit
<1>2. records = {} /\ failed = {} /\ streams = [e \in 1..MaxEpoch |-> [actor |-> None, last |-> 0]]
  BY DEF BatchInit, ServerInit
<1>3. BatchShape
  BY <1>1, <1>2, FreeFits DEF BatchShape
<1>4. RecordsExplained /\ StreamsExplained
  BY <1>2 DEF RecordsExplained, StreamsExplained
<1>5. CallsExplained
  BY <1>1, FreeFits DEF CallsExplained
<1>6. ResponsesExplained
  BY <1>1 DEF ResponsesExplained, Responds, NoBatch
<1> QED
  BY <1>3, <1>4, <1>5, <1>6 DEF BatchInv

\* Nothing changes when nothing happens.
LEMMA BatchStutters ==
    ASSUME BatchInv, UNCHANGED batchVars
    PROVE  BatchInv'
BY DEF batchVars, serverVars, BatchInv, BatchShape, RecordsExplained, StreamsExplained, CallsExplained,
       ResponsesExplained, Responds, Backed, Original, Foreign, Explained, Told, Settled, Recorded

\* Every step keeps the invariant.
LEMMA BatchInductive ==
    BatchInv /\ [BatchNext]_batchVars => BatchInv'
<1> SUFFICES ASSUME BatchInv, [BatchNext]_batchVars PROVE BatchInv'
  OBVIOUS
<1>1. CASE UNCHANGED batchVars
  BY <1>1, BatchStutters
<1>2. ASSUME NEW k \in Call, NEW list \in Sent, NEW a \in Actor, SendBatch(k, list, a) PROVE BatchInv'
  BY <1>2, SendBatchKeeps
<1>3. ASSUME NEW k \in Call, NextOperation(k) PROVE BatchInv'
  BY <1>3, NextOperationKeeps
<1>4. ASSUME NEW k \in Call, TakeResponse(k) PROVE BatchInv'
  BY <1>4, TakeResponseKeeps
<1>5. ASSUME NEW k \in Call, ExpireBatch(k) PROVE BatchInv'
  BY <1>5, EndKeeps DEF ExpireBatch
<1>6. ASSUME NEW k \in Call, FailOperation(k) PROVE BatchInv'
  BY <1>6, FailOperationKeeps
<1>7. ASSUME NEW k \in Call, FinishBatch(k) PROVE BatchInv'
  BY <1>7, FinishBatchKeeps
<1>8. ASSUME NEW k \in Call, LoseBatch(k) PROVE BatchInv'
  BY <1>8, EndKeeps DEF LoseBatch
<1>9. ASSUME NEW k \in Call, UNCHANGED <<batches, failed>>,
             Unauthorize(k) \/ AnswerDuplicate(k) \/ LockOperation(k) \/ Sequence(k) \/ Record(k)
      PROVE  BatchInv'
  BY <1>9, UnauthorizeKeeps, AnswerDuplicateKeeps, LockOperationKeeps, SequenceKeeps, RecordKeeps
<1> QED
  BY <1>1, <1>2, <1>3, <1>4, <1>5, <1>6, <1>7, <1>8, <1>9 DEF BatchNext

\* The invariant says what was promised.
LEMMA BatchImplies ==
    BatchInv => BatchInOrder
<1> SUFFICES ASSUME BatchInv PROVE BatchInOrder
  OBVIOUS
<1>1. ASSUME NEW x \in records PROVE Explained(x.op, x.flags)
  BY DEF BatchInv, RecordsExplained
<1>2. ASSUME NEW k \in Call, NEW i \in DOMAIN batches[k].list, batches[k].responses[i] # None
      PROVE  Told(batches[k].responses[i], batches[k].list[i])
  BY <1>2 DEF BatchInv, ResponsesExplained, Responds
<1> QED
  BY <1>1, <1>2 DEF BatchInOrder, Explained, Told

\* batch() in capture/service.py: however many batches race, in whatever order an
\* honest client lists its operations and wherever transactions fail or credentials
\* die, a record carries SEQUENCE_GAP only where a predecessor in its epoch, and
\* SEQUENCE_REUSED only where the operation itself, was skipped by a failed
\* transaction; and a response that says recorded stands at the place of its
\* operation and carries the outcome that was recorded of it.
THEOREM BatchInOrderProven ==
    BatchSpec => []BatchInOrder
BY BatchStarts, BatchInductive, BatchImplies, PTL DEF BatchSpec
=============================================================================
