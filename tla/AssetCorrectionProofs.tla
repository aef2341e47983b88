----------------------- MODULE AssetCorrectionProofs -----------------------
(***************************************************************************)
(* Proofs about what corrections leave behind, on top of IInv, for every   *)
(* tenant, every number of callers and every version bound.                *)
(*                                                                         *)
(* Sound says what a history table looks like: its pairs and generations   *)
(* are complete, no ordinary row lies between a root and the corrections   *)
(* of that root, and every row that counts starts from the fact that was   *)
(* in force before its root.  Because only the global head is corrected, a *)
(* correction never changes the fact before any other root; that is what   *)
(* makes Sound inductive.                                                  *)
(***************************************************************************)
EXTENDS AssetHistoryProofs

\* Row h starts from the fact before version r, in the lifecycle along an edge
\* of the graph.
Follows(c, T, h, r) ==
    \E p \in PriorFact(c, T, r) : /\ h.from = p.to
                                  /\ c = "state" => h.to \in Allowed(p.to, p.from)

\* Corrections come after their root and before any later ordinary row.
Spanned(T) ==
    \A h \in T : h.role # "NONE" =>
        /\ h.root < h.ver /\ h.pair <= h.ver
        /\ \A r \in T : r.role = "NONE" => r.ver <= h.root \/ r.ver > h.ver

Sound(c, T) ==
    /\ RolesWellFormed(T) /\ PairsComplete(T) /\ GenerationsContiguous(T)
    /\ ReversalsCopyCancelled(T) /\ Spanned(T)
    /\ \A h \in T : h.role = "CORRECTED" => Follows(c, T, h, h.root)
    /\ \A h \in Effective(T) : (c = "state" /\ h.ver = 1) \/ Follows(c, T, h, RootOf(h))

\* The row of an ordinary operation.
NextRoot(c, new) ==
    /\ new.ver = version + 1 /\ new.role = "NONE"
    /\ new.root = 0 /\ new.pair = 0 /\ new.gen = 0
    /\ \E p \in LatestFact(c) : /\ new.from = p.to
                                /\ c = "state" => new.to \in Allowed(p.to, p.from)

\* The two rows that correct head after version v.
Pair(v, head, rev, cor) ==
    /\ rev.ver = v + 1 /\ rev.role = "REVERSAL" /\ rev.root = RootOf(head)
    /\ rev.pair = v + 1 /\ rev.gen = head.gen + 1
    /\ rev.from = head.from /\ rev.to = head.to /\ rev.evidence = head.evidence
    /\ cor.ver = v + 2 /\ cor.role = "CORRECTED" /\ cor.root = RootOf(head)
    /\ cor.pair = v + 1 /\ cor.gen = head.gen + 1

NextPair(c, rev, cor, head) ==
    /\ head.ver = version /\ Pair(version, head, rev, cor)
    /\ Follows(c, hist[c], cor, RootOf(head))

\* What a caller has prepared still continues the table as it stands.
Last(p, n) == p.version = n.ver /\ p.shown = Shown(p.cls, n)

Continues(p) ==
    /\ p.rows \subseteq Rows(p.cls)
    /\ \A n \in p.rows : EvidenceAccepted(p.cls, n)
    /\ \/ \E new \in p.rows : p.rows = {new} /\ NextRoot(p.cls, new) /\ Last(p, new)
       \/ \E rev, cor \in p.rows : \E head \in Effective(hist[p.cls]) :
              p.rows = {rev, cor} /\ NextPair(p.cls, rev, cor, head) /\ Last(p, cor)

Continuing == \A r \in Request : req[r].phase = "admitted" => Continues(req[r].plan)

\* The newest row of a table, superseded or not, is one that counts.
NewestCounts ==
    \A c \in Class : hist[c] # {} =>
        \E h \in Effective(hist[c]) : \A k \in hist[c] : k.ver <= h.ver

\* A read names versions and events of its past, and stays what it was.
ReadsPast ==
    \A r \in Request : req[r].phase # "idle" =>
        /\ req[r].seen.version <= version
        /\ req[r].seen.projection["assignment"] \in 0..req[r].seen.version
        /\ \A c \in Class : CaptureAssetFacts(req[r].seen.version)[c]
                               = Understood(c, req[r].seen.projection[c])

CorrectionInv ==
    /\ \A c \in Class : Sound(c, hist[c])
    /\ Continuing /\ NewestCounts /\ ReadsPast
    /\ baseline["assignment"] = Null

-----------------------------------------------------------------------------
(***************************************************************************)
(* A table before and after one more operation.                            *)
(***************************************************************************)

\* Rows of the table T up to version v, one for each version.
Dated(c, T, v) ==
    /\ T \subseteq Rows(c) /\ v \in Nat
    /\ \A h \in T : h.ver \in 1..v
    /\ \A h, k \in T : h.ver = k.ver => h = k

LEMMA Numbered ==
    ASSUME NEW c, NEW T, NEW v, Dated(c, T, v), NEW h \in T
    PROVE  /\ h.ver \in Nat /\ h.root \in Nat /\ h.pair \in Nat /\ h.gen \in Nat
           /\ h.ver >= 1 /\ h.ver <= v
           /\ h.role \in {"NONE", "REVERSAL", "CORRECTED"}
<1>1. h \in Rows(c) /\ h.ver \in 1..v /\ v \in Nat
  BY DEF Dated
<1>2. /\ h.ver \in 1..MaxVersion /\ h.root \in 0..MaxVersion /\ h.pair \in 0..MaxVersion
      /\ h.gen \in Nat /\ h.role \in {"NONE", "REVERSAL", "CORRECTED"}
  BY <1>1 DEF Rows
<1> QED
  BY <1>1, <1>2, ConstantsAssumption

\* The root of a row is an ordinary row of its table.
LEMMA Rooted ==
    ASSUME NEW c, NEW T, NEW v, Dated(c, T, v), RolesWellFormed(T), NEW h \in T
    PROVE  /\ RootOf(h) \in Nat /\ RootOf(h) >= 1 /\ RootOf(h) <= v
           /\ \E r \in T : r.ver = RootOf(h) /\ r.role = "NONE"
           /\ h.role = "NONE" => RootOf(h) = h.ver /\ h.gen = 0
           /\ h.role # "NONE" => RootOf(h) = h.root /\ h.gen >= 1
<1>1. /\ h.ver \in Nat /\ h.root \in Nat /\ h.gen \in Nat /\ h.ver >= 1 /\ h.ver <= v
  BY Numbered
<1>2. CASE h.role = "NONE"
  BY <1>1, <1>2 DEF RootOf, RolesWellFormed
<1>3. CASE h.role # "NONE"
  <2>1. PICK r \in T : r.ver = h.root /\ r.role = "NONE"
    BY <1>3 DEF RolesWellFormed
  <2>2. r.ver \in Nat /\ r.ver >= 1 /\ r.ver <= v
    BY Numbered
  <2>3. RootOf(h) = h.root
    BY <2>1, <2>2 DEF RootOf
  <2> QED
    BY <1>3, <2>1, <2>2, <2>3 DEF RolesWellFormed
<1> QED
  BY <1>2, <1>3

\* Of each root at most one row counts.
LEMMA OneCounts ==
    ASSUME NEW c, NEW T, NEW v, Dated(c, T, v), RolesWellFormed(T), GenerationsContiguous(T),
           NEW h \in Effective(T), NEW k \in Effective(T), RootOf(h) = RootOf(k)
    PROVE  h = k
<1>1. h \in T /\ k \in T /\ h.role # "REVERSAL" /\ k.role # "REVERSAL"
  BY DEF Effective
<1>2. h.role \in {"NONE", "CORRECTED"} /\ k.role \in {"NONE", "CORRECTED"}
      /\ h.gen \in Nat /\ k.gen \in Nat
  BY <1>1, Numbered
<1>3. /\ h.role = "NONE" => RootOf(h) = h.ver /\ h.gen = 0
      /\ h.role = "CORRECTED" => RootOf(h) = h.root /\ h.gen >= 1
      /\ k.role = "NONE" => RootOf(k) = k.ver /\ k.gen = 0
      /\ k.role = "CORRECTED" => RootOf(k) = k.root /\ k.gen >= 1
  BY <1>1, Rooted
<1>4. ~ (k.role = "CORRECTED" /\ k.gen > h.gen) /\ ~ (h.role = "CORRECTED" /\ h.gen > k.gen)
  BY <1>1, <1>3 DEF Effective
<1>5. CASE h.role = "NONE"
  BY <1>1, <1>2, <1>3, <1>4, <1>5 DEF Dated
<1>6. CASE h.role = "CORRECTED"
  BY <1>1, <1>2, <1>3, <1>4, <1>6 DEF GenerationsContiguous
<1> QED
  BY <1>2, <1>5, <1>6

\* An ordinary row supersedes nothing and nothing supersedes it.
LEMMA RootCounts ==
    ASSUME NEW c, NEW T, NEW v, Dated(c, T, v), RolesWellFormed(T), NEW new,
           new.ver = v + 1, new.role = "NONE", new.root = 0, NEW U, U = T \cup {new}
    PROVE  /\ Effective(U) = Effective(T) \cup {new}
           /\ \A r \in Nat : r <= v + 1 => PriorFact(c, U, r) = PriorFact(c, T, r)
<1>1. v \in Nat /\ \A h \in T : h.ver \in Nat /\ h.ver <= v
  BY Numbered DEF Dated
<1>2. \A k \in T : k.role = "CORRECTED" => k.root # v + 1
  BY <1>1 DEF RolesWellFormed
<1>3. RootOf(new) = v + 1
  BY DEF RootOf
<1>4. Effective(U) = Effective(T) \cup {new}
  BY <1>2, <1>3 DEF Effective
<1>5. ASSUME NEW r \in Nat, r <= v + 1
      PROVE  {h \in Effective(U) : h.ver < r} = {h \in Effective(T) : h.ver < r}
  <2>1. ~ (new.ver < r)
    BY <1>1, <1>5
  <2> QED
    BY <2>1, <1>4
<1> QED
  BY <1>4, <1>5 DEF PriorFact

\* No ordinary row comes after the root of the newest row.
LEMMA HeadIsLast ==
    ASSUME NEW c, NEW T, NEW v, Dated(c, T, v), RolesWellFormed(T), Spanned(T),
           NEW head \in T, head.ver = v, NEW r \in T, r.role = "NONE"
    PROVE  r.ver <= RootOf(head) /\ RootOf(head) <= v
<1>1. r.ver \in Nat /\ r.ver <= v /\ head.root \in Nat /\ v \in Nat
  BY Numbered DEF Dated
<1>2. CASE head.role = "NONE"
  BY <1>1, <1>2, Rooted
<1>3. CASE head.role # "NONE"
  <2>1. RootOf(head) = head.root /\ head.root < head.ver
    BY <1>3, Rooted DEF Spanned
  <2>2. r.ver <= head.root \/ r.ver > head.ver
    BY <1>3 DEF Spanned
  <2> QED
    BY <1>1, <2>1, <2>2
<1> QED
  BY <1>2, <1>3

\* A correction of the head supersedes the head and nothing else, and changes no
\* fact before a root.
LEMMA PairCounts ==
    ASSUME NEW c, NEW T, NEW v, Dated(c, T, v), RolesWellFormed(T), GenerationsContiguous(T),
           Spanned(T), NEW head \in Effective(T), head.ver = v, NEW rev, NEW cor,
           Pair(v, head, rev, cor), NEW U, U = T \cup {rev, cor}
    PROVE  /\ Effective(U) = (Effective(T) \ {head}) \cup {cor}
           /\ RootOf(cor) = RootOf(head) /\ RootOf(head) \in Nat /\ RootOf(head) <= v
           /\ \A r \in Nat : r <= RootOf(head) =>
                  PriorFact(c, U, r) = PriorFact(c, T, r)
<1>0. /\ rev.ver = v + 1 /\ rev.role = "REVERSAL" /\ cor.ver = v + 2 /\ cor.role = "CORRECTED"
      /\ cor.root = RootOf(head) /\ cor.gen = head.gen + 1
  BY DEF Pair
<1> USE <1>0
<1>1. v \in Nat /\ \A h \in T : h.ver \in Nat /\ h.ver <= v /\ h.gen \in Nat
  BY Numbered DEF Dated
<1>2. head \in T
  BY DEF Effective
<1>3. RootOf(head) \in Nat /\ RootOf(head) >= 1 /\ RootOf(head) <= v
  BY <1>2, Rooted
<1>4. RootOf(cor) = RootOf(head)
  BY <1>3 DEF RootOf
<1>5. \A h \in Effective(T) : h # head => RootOf(h) # RootOf(head)
  BY OneCounts
<1>6. \A k \in T : k.role = "CORRECTED" /\ k.root = RootOf(head) => ~ (k.gen > head.gen)
  BY DEF Effective
<1>7. cor \in Effective(U)
  <2> SUFFICES ASSUME NEW k \in U, k.role = "CORRECTED",
                      k.root = RootOf(cor), k.gen > cor.gen
               PROVE  FALSE
    BY DEF Effective
  <2>1. CASE k \in T
    BY <2>1, <1>1, <1>2, <1>4, <1>6
  <2>2. CASE k = cor
    BY <2>2, <1>1, <1>2
  <2> QED
    BY <2>1, <2>2
<1>8. head \notin Effective(U)
  <2>1. cor.role = "CORRECTED" /\ cor.root = RootOf(head) /\ cor.gen > head.gen
    BY <1>1, <1>2
  <2> QED
    BY <2>1 DEF Effective
<1>9. ASSUME NEW h \in T, h # head PROVE h \in Effective(U) <=> h \in Effective(T)
  <2>1. h \in Effective(U) => h \in Effective(T)
    BY DEF Effective
  <2>2. h \in Effective(T) => h \in Effective(U)
    BY <1>5, <1>9 DEF Effective
  <2> QED
    BY <2>1, <2>2
<1>10. Effective(U) = (Effective(T) \ {head}) \cup {cor}
  <2>1. rev \notin Effective(U)
    BY DEF Effective
  <2>2. Effective(U) \subseteq U /\ Effective(T) \subseteq T
    BY DEF Effective
  <2>3. cor \notin T
    BY <1>1
  <2> QED
    BY <2>1, <2>2, <2>3, <1>7, <1>8, <1>9
<1>11. ASSUME NEW r \in Nat, r <= RootOf(head)
       PROVE  {h \in Effective(U) : h.ver < r} = {h \in Effective(T) : h.ver < r}
  <2>1. ~ (head.ver < r) /\ ~ (cor.ver < r)
    BY <1>1, <1>3, <1>11
  <2> QED
    BY <2>1, <1>10
<1> QED
  BY <1>3, <1>4, <1>10, <1>11 DEF PriorFact

\* Ordinary operations keep a table sound.
LEMMA RootSound ==
    ASSUME NEW c, NEW T, NEW v, Dated(c, T, v), Sound(c, T), NEW new,
           new.ver = v + 1, new.role = "NONE", new.root = 0, new.pair = 0, new.gen = 0,
           Follows(c, T, new, v + 1)
    PROVE  Sound(c, T \cup {new})
<1> DEFINE U == T \cup {new}
<1>1. v \in Nat /\ RolesWellFormed(T)
  BY DEF Dated, Sound
<1>2. \A h \in T : /\ h.ver \in Nat /\ h.ver <= v /\ h.ver >= 1 /\ h.root \in Nat /\ h.gen \in Nat
                   /\ h.role \in {"NONE", "REVERSAL", "CORRECTED"}
  BY Numbered
<1>3. /\ Effective(U) = Effective(T) \cup {new}
      /\ \A r \in Nat : r <= v + 1 => PriorFact(c, U, r) = PriorFact(c, T, r)
  <2>1. U = T \cup {new}
    OBVIOUS
  <2> HIDE DEF U
  <2> QED
    BY <1>1, <2>1, RootCounts
<1>4. RolesWellFormed(U)
  BY <1>1 DEF RolesWellFormed
<1>5. PairsComplete(U)
  <2> SUFFICES ASSUME NEW h \in U, h.role # "NONE"
               PROVE  \E rev, cor \in U :
                          /\ rev.role = "REVERSAL" /\ cor.role = "CORRECTED"
                          /\ {k \in U : k.role # "NONE" /\ k.pair = h.pair} = {rev, cor}
                          /\ rev.root = cor.root /\ rev.gen = cor.gen
                          /\ cor.ver = rev.ver + 1
    BY DEF PairsComplete
  <2>1. h \in T
    OBVIOUS
  <2>2. {k \in U : k.role # "NONE" /\ k.pair = h.pair} = {k \in T : k.role # "NONE" /\ k.pair = h.pair}
    OBVIOUS
  <2>3. PICK rev \in T, cor \in T :
          /\ rev.role = "REVERSAL" /\ cor.role = "CORRECTED"
          /\ {k \in T : k.role # "NONE" /\ k.pair = h.pair} = {rev, cor}
          /\ rev.root = cor.root /\ rev.gen = cor.gen
          /\ cor.ver = rev.ver + 1
    BY <2>1 DEF Sound, PairsComplete
  <2> QED
    BY <2>2, <2>3
<1>6. GenerationsContiguous(U)
  <2>1. {k \in U : k.role = "CORRECTED"} = {k \in T : k.role = "CORRECTED"}
    OBVIOUS
  <2> QED
    BY <2>1 DEF Sound, GenerationsContiguous
<1>7. ReversalsCopyCancelled(U)
  <2> SUFFICES ASSUME NEW h \in U, NEW p \in U, h.role = "REVERSAL", Cancels(h, p)
               PROVE  /\ h.ver = p.ver + 1
                      /\ h.from = p.from /\ h.to = p.to /\ h.evidence = p.evidence
    BY DEF ReversalsCopyCancelled
  <2>1. h \in T
    OBVIOUS
  <2>2. h.root <= v
    BY <2>1, <1>1, <1>2 DEF RolesWellFormed
  <2>3. p \in T
    BY <2>1, <2>2, <1>1, <1>2 DEF Cancels
  <2> QED
    BY <2>1, <2>3 DEF Sound, ReversalsCopyCancelled
<1>8. Spanned(U)
  <2>1. \A h \in T : new.ver > h.ver
    BY <1>1, <1>2
  <2> QED
    BY <2>1 DEF Sound, Spanned
<1>9. ASSUME NEW h \in U, h.role = "CORRECTED" PROVE Follows(c, U, h, h.root)
  <2>1. h \in T /\ h.root \in Nat /\ h.root <= v
    BY <1>9, <1>1, <1>2 DEF RolesWellFormed
  <2>2. PriorFact(c, U, h.root) = PriorFact(c, T, h.root)
    BY <2>1, <1>1, <1>3
  <2> QED
    BY <1>9, <2>1, <2>2 DEF Sound, Follows
<1>10. ASSUME NEW h \in Effective(U), ~ (c = "state" /\ h.ver = 1) PROVE Follows(c, U, h, RootOf(h))
  <2>1. CASE h = new
    <3>1. RootOf(h) = v + 1 /\ v + 1 \in Nat
      BY <2>1, <1>1 DEF RootOf
    <3>2. PICK w : w = v + 1
      OBVIOUS
    <3>3. PriorFact(c, U, w) = PriorFact(c, T, w)
      BY <3>1, <3>2, <1>1, <1>3
    <3> QED
      BY <3>1, <3>2, <3>3, <2>1 DEF Follows
  <2>2. CASE h \in Effective(T)
    <3>1. h \in T
      BY <2>2 DEF Effective
    <3>2. RootOf(h) \in Nat /\ RootOf(h) <= v
      BY <3>1, <1>1, Rooted
    <3>3. PriorFact(c, U, RootOf(h)) = PriorFact(c, T, RootOf(h))
      BY <3>2, <1>1, <1>3
    <3> QED
      BY <1>10, <2>2, <3>3 DEF Sound, Follows
  <2> QED
    BY <2>1, <2>2, <1>3
<1> QED
  BY <1>4, <1>5, <1>6, <1>7, <1>8, <1>9, <1>10 DEF Sound

\* Corrections of the head keep a table sound.
LEMMA PairSound ==
    ASSUME NEW c, NEW T, NEW v, Dated(c, T, v), Sound(c, T),
           NEW head \in Effective(T), head.ver = v, NEW rev, NEW cor,
           Pair(v, head, rev, cor), Follows(c, T, cor, RootOf(head))
    PROVE  Sound(c, T \cup {rev, cor})
<1> DEFINE U == T \cup {rev, cor}
<1>1. v \in Nat /\ RolesWellFormed(T) /\ GenerationsContiguous(T) /\ Spanned(T) /\ PairsComplete(T)
  BY DEF Dated, Sound
<1>2. \A h \in T : /\ h.ver \in Nat /\ h.ver <= v /\ h.ver >= 1 /\ h.root \in Nat /\ h.gen \in Nat
                   /\ h.pair \in Nat /\ h.role \in {"NONE", "REVERSAL", "CORRECTED"}
  BY Numbered
<1>3. /\ Effective(U) = (Effective(T) \ {head}) \cup {cor}
      /\ RootOf(cor) = RootOf(head) /\ RootOf(head) \in Nat /\ RootOf(head) <= v
      /\ \A r \in Nat : r <= RootOf(head) => PriorFact(c, U, r) = PriorFact(c, T, r)
  <2>1. U = T \cup {rev, cor}
    OBVIOUS
  <2> HIDE DEF U
  <2> QED
    BY <1>1, <2>1, PairCounts
<1> USE DEF Pair
<1>4. head \in T /\ head.role \in {"NONE", "CORRECTED"}
  BY <1>2 DEF Effective
<1>5. /\ \E r \in T : r.ver = RootOf(head) /\ r.role = "NONE"
      /\ head.role = "NONE" => RootOf(head) = head.ver /\ head.gen = 0
      /\ head.role # "NONE" => RootOf(head) = head.root /\ head.gen >= 1
  BY <1>1, <1>4, Rooted
<1>6. \A r \in T : r.role = "NONE" => r.ver <= RootOf(head)
  BY <1>1, <1>4, HeadIsLast
<1>7. \A k \in T : k.role = "CORRECTED" /\ k.root = RootOf(head) => k.gen <= head.gen
  BY <1>2, <1>4 DEF Effective
<1>8. RolesWellFormed(U)
  <2> SUFFICES ASSUME NEW h \in U
               PROVE  IF h.role = "NONE" THEN h.root = 0 /\ h.pair = 0 /\ h.gen = 0
                      ELSE /\ \E r \in U : r.ver = h.root /\ r.role = "NONE"
                           /\ h.pair # 0 /\ h.gen >= 1
    BY DEF RolesWellFormed
  <2>1. CASE h \in T
    BY <2>1, <1>1 DEF RolesWellFormed
  <2>2. CASE h \in {rev, cor}
    BY <2>2, <1>1, <1>2, <1>4, <1>5
  <2> QED
    BY <2>1, <2>2
<1>9. PairsComplete(U)
  <2> SUFFICES ASSUME NEW h \in U, h.role # "NONE"
               PROVE  \E a, b \in U :
                          /\ a.role = "REVERSAL" /\ b.role = "CORRECTED"
                          /\ {k \in U : k.role # "NONE" /\ k.pair = h.pair} = {a, b}
                          /\ a.root = b.root /\ a.gen = b.gen
                          /\ b.ver = a.ver + 1
    BY DEF PairsComplete
  <2>1. \A k \in T : k.role # "NONE" => k.pair # v + 1
    BY <1>1, <1>2 DEF Spanned
  <2>2. CASE h \in T
    <3>1. {k \in U : k.role # "NONE" /\ k.pair = h.pair} = {k \in T : k.role # "NONE" /\ k.pair = h.pair}
      BY <2>1, <2>2
    <3>2. PICK a \in T, b \in T :
            /\ a.role = "REVERSAL" /\ b.role = "CORRECTED"
            /\ {k \in T : k.role # "NONE" /\ k.pair = h.pair} = {a, b}
            /\ a.root = b.root /\ a.gen = b.gen
            /\ b.ver = a.ver + 1
      BY <2>2, <1>1 DEF PairsComplete
    <3> QED
      BY <3>1, <3>2
  <2>3. CASE h \in {rev, cor}
    <3>1. {k \in U : k.role # "NONE" /\ k.pair = h.pair} = {rev, cor}
      BY <2>1, <2>3
    <3>2. cor.ver = rev.ver + 1
      BY <1>1
    <3> QED
      BY <3>1, <3>2
  <2> QED
    BY <2>2, <2>3
<1>10. GenerationsContiguous(U)
  <2> DEFINE C == {k \in T : k.role = "CORRECTED"}
             D == {k \in U : k.role = "CORRECTED"}
  <2>1. D = C \cup {cor}
    OBVIOUS
  <2>2. \A h \in D : \A g \in 1..h.gen : \E k \in D : k.root = h.root /\ k.gen = g
    <3> SUFFICES ASSUME NEW h \in D, NEW g \in 1..h.gen PROVE \E k \in D : k.root = h.root /\ k.gen = g
      OBVIOUS
    <3>1. CASE h \in C
      BY <3>1, <2>1, <1>1 DEF GenerationsContiguous
    <3>2. CASE h = cor
      <4>1. g = cor.gen \/ g \in 1..head.gen
        BY <3>2, <1>2, <1>4
      <4>2. CASE g = cor.gen
        BY <4>2, <3>2, <2>1
      <4>3. CASE g \in 1..head.gen
        <5>1. head.role = "CORRECTED" /\ head.root = cor.root
          BY <4>3, <1>2, <1>4, <1>5
        <5>2. head \in C
          BY <5>1, <1>4
        <5>3. \E k \in C : k.root = head.root /\ k.gen = g
          BY <4>3, <5>2, <1>1 DEF GenerationsContiguous
        <5> QED
          BY <5>1, <5>3, <3>2, <2>1
      <4> QED
        BY <4>1, <4>2, <4>3
    <3> QED
      BY <3>1, <3>2, <2>1
  <2>3. \A h, k \in D : h.root = k.root /\ h.gen = k.gen => h = k
    <3>1. \A h \in C : h.root = cor.root => h.gen # cor.gen
      BY <1>2, <1>4, <1>7
    <3>2. \A h, k \in C : h.root = k.root /\ h.gen = k.gen => h = k
      BY <1>1 DEF GenerationsContiguous
    <3> HIDE DEF C, D
    <3> QED
      BY <2>1, <3>1, <3>2
  <2> QED
    BY <2>2, <2>3 DEF GenerationsContiguous
<1>11. ReversalsCopyCancelled(U)
  <2> SUFFICES ASSUME NEW h \in U, NEW p \in U, h.role = "REVERSAL", Cancels(h, p)
               PROVE  /\ h.ver = p.ver + 1
                      /\ h.from = p.from /\ h.to = p.to /\ h.evidence = p.evidence
    BY DEF ReversalsCopyCancelled
  <2>1. CASE h \in T
    <3>1. h.root <= v /\ h.root \in Nat
      BY <2>1, <1>1, <1>2 DEF RolesWellFormed
    <3>2. PICK b \in T : b.role = "CORRECTED" /\ b.root = h.root /\ b.gen = h.gen
      <4>1. PICK a \in T, b \in T :
              /\ b.role = "CORRECTED" /\ a.role = "REVERSAL" /\ a.root = b.root /\ a.gen = b.gen
              /\ {k \in T : k.role # "NONE" /\ k.pair = h.pair} = {a, b}
        BY <2>1, <1>1 DEF PairsComplete
      <4>2. h \in {a, b}
        BY <2>1, <4>1
      <4> QED
        BY <4>1, <4>2
    <3>3. p # cor /\ p # rev
      BY <3>1, <3>2, <2>1, <1>1, <1>2, <1>4, <1>7 DEF Cancels
    <3> QED
      BY <2>1, <3>3 DEF Sound, ReversalsCopyCancelled
  <2>2. CASE h = rev
    <3>1. p = head
      <4>1. CASE h.gen = 1 /\ p.ver = h.root
        <5>1. head.gen = 0 /\ head.role = "NONE"
          BY <4>1, <2>2, <1>2, <1>4, <1>5
        <5>2. p \in T
          BY <4>1, <2>2, <1>1, <1>3
        <5> QED
          BY <4>1, <5>1, <5>2, <2>2, <1>4, <1>5 DEF Dated
      <4>2. CASE h.gen > 1 /\ p.role = "CORRECTED" /\ p.root = h.root /\ p.gen = h.gen - 1
        <5>1. p.gen = head.gen /\ head.gen >= 1 /\ p.root = RootOf(head)
          BY <4>2, <2>2, <1>2, <1>4
        <5>2. head.role = "CORRECTED" /\ head.root = RootOf(head)
          BY <5>1, <1>4, <1>5
        <5>3. p \in T
          BY <4>2, <5>1, <1>2, <1>4
        <5> QED
          BY <4>2, <5>1, <5>2, <5>3, <1>1, <1>4 DEF GenerationsContiguous
      <4> QED
        BY <4>1, <4>2 DEF Cancels
    <3> QED
      BY <2>2, <3>1
  <2>3. h # cor
    OBVIOUS
  <2> QED
    BY <2>1, <2>2, <2>3
<1>12. Spanned(U)
  <2> SUFFICES ASSUME NEW h \in U, h.role # "NONE"
               PROVE  /\ h.root < h.ver /\ h.pair <= h.ver
                      /\ \A r \in U : r.role = "NONE" => r.ver <= h.root \/ r.ver > h.ver
    BY DEF Spanned
  <2>1. CASE h \in T
    BY <2>1, <1>1 DEF Spanned
  <2>2. CASE h \in {rev, cor}
    <3>1. h.root = RootOf(head) /\ h.root < h.ver /\ h.pair <= h.ver
      BY <2>2, <1>1, <1>3
    <3>2. \A r \in U : r.role = "NONE" => r \in T
      OBVIOUS
    <3> QED
      BY <3>1, <3>2, <1>6
  <2> QED
    BY <2>1, <2>2
<1>13. ASSUME NEW h \in T, NEW r \in Nat, r <= RootOf(head), Follows(c, T, h, r) PROVE Follows(c, U, h, r)
  <2>1. PriorFact(c, U, r) = PriorFact(c, T, r)
    BY <1>13, <1>3
  <2> QED
    BY <1>13, <2>1 DEF Follows
<1>14. Follows(c, U, cor, RootOf(head))
  <2>1. RootOf(head) <= RootOf(head)
    BY <1>3
  <2>2. PriorFact(c, U, RootOf(head)) = PriorFact(c, T, RootOf(head))
    BY <2>1, <1>3
  <2> QED
    BY <2>2 DEF Follows
<1>15. \A h \in T : RootOf(h) \in Nat /\ RootOf(h) <= RootOf(head)
  BY <1>1, <1>6, Rooted
<1>16. ASSUME NEW h \in U, h.role = "CORRECTED" PROVE Follows(c, U, h, h.root)
  <2>1. CASE h \in T
    <3>1. h.root = RootOf(h)
      BY <2>1, <1>1, <1>16, Rooted
    <3>2. Follows(c, T, h, h.root)
      BY <2>1, <1>16 DEF Sound
    <3> QED
      BY <2>1, <3>1, <3>2, <1>13, <1>15
  <2>2. CASE h = cor
    BY <2>2, <1>14
  <2> QED
    BY <2>1, <2>2, <1>16
<1>17. ASSUME NEW h \in Effective(U), ~ (c = "state" /\ h.ver = 1) PROVE Follows(c, U, h, RootOf(h))
  <2>1. CASE h = cor
    BY <2>1, <1>3, <1>14
  <2>2. CASE h \in Effective(T)
    <3>1. h \in T /\ Follows(c, T, h, RootOf(h))
      BY <2>2, <1>17 DEF Sound, Effective
    <3> QED
      BY <3>1, <1>13, <1>15
  <2> QED
    BY <2>1, <2>2, <1>3
<1> QED
  BY <1>8, <1>9, <1>10, <1>11, <1>12, <1>16, <1>17 DEF Sound

-----------------------------------------------------------------------------
(***************************************************************************)
(* The state: what the newest rows say, and what a commit makes of them.   *)
(***************************************************************************)

LEMMA HistoryDated ==
    ASSUME IInv, NEW c \in Class
    PROVE  Dated(c, hist[c], version)
BY ConstantsAssumption DEF IInv, Shape, History, VersionsExact, Dated

\* The newest fact of a class is one, it is the newest row that was written, and
\* the Asset row shows it.
LEMMA NewestFact ==
    ASSUME IInv, CorrectionInv, NEW c \in Class
    PROVE  \E h : /\ LatestFact(c) = {h} /\ Authority(c, hist[c]) = {h}
                  /\ projection[c] = Shown(c, h)
                  /\ h \in hist[c] \/ (c # "state" /\ h.to = baseline[c] /\ h.ver = 0 /\ hist[c] = {})
<1> DEFINE T == hist[c]
<1>1. Dated(c, T, version)
  BY HistoryDated
<1>2. PICK f \in LatestFact(c) : projection[c] = Shown(c, f)
  BY DEF IInv, History, ProjectionsAgree
<1>3. CASE T = {}
  <2>1. Effective(T) = {}
    BY <1>3 DEF Effective
  <2>2. LatestFact(c) = Witness(c) /\ Authority(c, T) = Witness(c)
    BY <1>3, <2>1 DEF LatestFact, Authority
  <2>3. c # "state" /\ Witness(c) = {f} /\ f.to = baseline[c] /\ f.ver = 0
    BY <1>2, <2>2 DEF Witness
  <2> QED
    BY <1>2, <1>3, <2>2, <2>3
<1>4. CASE T # {}
  <2>1. PICK h \in Effective(T) : \A k \in T : k.ver <= h.ver
    BY <1>4 DEF CorrectionInv, NewestCounts
  <2>2. h \in T /\ Effective(T) \subseteq T
    BY DEF Effective
  <2>3. \A k \in T : k.ver \in Nat
    BY <1>1, Numbered
  <2>4. \A k \in T : h.ver <= k.ver => k = h
    <3>1. \A k \in T : h.ver <= k.ver => k.ver = h.ver
      BY <2>1, <2>2, <2>3
    <3> QED
      BY <3>1, <2>2, <1>1 DEF Dated
  <2>5. Newest(Effective(T)) = {h} /\ Newest(T) = {h}
    BY <2>1, <2>2, <2>4 DEF Newest
  <2>6. LatestFact(c) = {h} /\ Authority(c, T) = {h}
    BY <1>4, <2>1, <2>5 DEF LatestFact, Authority
  <2> QED
    BY <1>2, <2>2, <2>6
<1> QED
  BY <1>3, <1>4

\* capture_asset_facts of the current version is what the Asset row shows.
LEMMA CurrentFacts ==
    ASSUME IInv, CorrectionInv, NEW c \in Class
    PROVE  /\ CaptureAssetFacts(version)[c] = Understood(c, projection[c])
           /\ c = "assignment" => projection[c] \in 0..version
           /\ \E h \in LatestFact(c) : Understood(c, projection[c]) = {h.to}
<1>1. PICK h : /\ LatestFact(c) = {h} /\ Authority(c, hist[c]) = {h}
               /\ projection[c] = Shown(c, h)
               /\ h \in hist[c] \/ (c # "state" /\ h.to = baseline[c] /\ h.ver = 0 /\ hist[c] = {})
  BY NewestFact
<1>2. Dated(c, hist[c], version)
  BY HistoryDated
<1>3. {k \in hist[c] : k.ver <= version} = hist[c]
  BY <1>2, Numbered
<1>4. CaptureAssetFacts(version)[c] = {h.to}
  BY <1>1, <1>3 DEF CaptureAssetFacts
<1>5. CASE c # "assignment"
  BY <1>1, <1>4, <1>5 DEF Understood, Shown
<1>6. CASE c = "assignment"
  <2>1. version \in Nat
    BY <1>2 DEF Dated
  <2>2. CASE h.to = Null
    BY <1>1, <1>4, <1>6, <2>1, <2>2 DEF Understood, Shown, NoEvent
  <2>3. CASE h.to # Null
    <3>1. h \in hist[c]
      BY <1>1, <1>6, <2>3 DEF CorrectionInv
    <3>2. h.ver \in Nat /\ h.ver >= 1 /\ h.ver <= version
      BY <1>2, <3>1, Numbered
    <3>3. projection[c] = h.ver /\ h.ver # NoEvent
      BY <1>1, <1>6, <2>3, <3>2 DEF Shown, NoEvent
    <3>4. {k \in hist[c] : k.ver = h.ver} = {h}
      BY <1>2, <3>1 DEF Dated
    <3>5. Understood(c, projection[c]) = {h.to}
      BY <1>6, <3>3, <3>4 DEF Understood
    <3> QED
      BY <1>1, <1>4, <3>2, <3>3, <3>5
  <2> QED
    BY <2>2, <2>3
<1> QED
  BY <1>5, <1>6

\* The plan p makes table T into U, and last is its newest row that counts.
Grows(p, U, last) ==
    /\ Sound(p.cls, U)
    /\ last \in p.rows /\ last \in Effective(U) /\ last.ver = p.version
    /\ p.shown = Shown(p.cls, last)
    /\ \A k \in U : k.ver <= last.ver
    /\ \A n \in p.rows : n.ver \in Nat /\ n.ver > version
    /\ \/ /\ last.ver = version + 1
          /\ Effective(U) = Effective(hist[p.cls]) \cup {last}
       \/ /\ last.ver = version + 2
          /\ \E head \in Effective(hist[p.cls]) :
                 /\ head.ver = version
                 /\ Effective(U) = (Effective(hist[p.cls]) \ {head}) \cup {last}

LEMMA ContinuedSound ==
    ASSUME IInv, CorrectionInv, NEW p \in PlanSet, Continues(p)
    PROVE  \E last : Grows(p, hist[p.cls] \cup p.rows, last)
<1>1. PICK c, T, v : c = p.cls /\ T = hist[c] /\ v = version
  OBVIOUS
<1>2. c \in Class /\ Dated(c, T, v) /\ Sound(c, T) /\ v \in Nat
  BY <1>1, HistoryDated DEF PlanSet, CorrectionInv, Dated
<1>3. RolesWellFormed(T) /\ GenerationsContiguous(T) /\ Spanned(T)
  BY <1>2 DEF Sound
<1>4. PICK U : U = T \cup p.rows
  OBVIOUS
<1>5. ASSUME NEW new \in p.rows, p.rows = {new}, NextRoot(c, new), Last(p, new)
      PROVE  Grows(p, U, new)
  <2>1. /\ new.ver = v + 1 /\ new.role = "NONE" /\ new.root = 0 /\ new.pair = 0 /\ new.gen = 0
        /\ \E f \in LatestFact(c) : /\ new.from = f.to
                                    /\ c = "state" => new.to \in Allowed(f.to, f.from)
    BY <1>1, <1>5 DEF NextRoot
  <2>2. PICK w : w = v + 1
    OBVIOUS
  <2>3. \A h \in T : h.ver \in Nat /\ h.ver <= v
    BY <1>2, Numbered
  <2>4. {h \in Effective(T) : h.ver < w} = Effective(T)
    BY <1>2, <2>2, <2>3 DEF Effective
  <2>5. PriorFact(c, T, w) = LatestFact(c)
    BY <1>1, <2>4 DEF PriorFact, LatestFact
  <2>6. Follows(c, T, new, v + 1)
    BY <2>1, <2>2, <2>5 DEF Follows
  <2>7. Sound(c, T \cup {new})
    BY <1>2, <2>1, <2>6, RootSound
  <2>8. U = T \cup {new}
    BY <1>4, <1>5
  <2>9. Sound(c, U) /\ Effective(U) = Effective(T) \cup {new}
    BY <1>2, <1>3, <2>1, <2>7, <2>8, RootCounts
  <2>10. \A k \in U : k.ver <= new.ver
    BY <1>2, <1>4, <1>5, <2>1, <2>3
  <2>11. new.ver \in Nat /\ new.ver > version /\ new.ver = version + 1
    BY <1>1, <1>2, <2>1
  <2> QED
    BY <1>1, <1>5, <2>9, <2>10, <2>11 DEF Grows, Last
<1>6. ASSUME NEW rev \in p.rows, NEW cor \in p.rows, NEW head \in Effective(T), p.rows = {rev, cor},
             NextPair(c, rev, cor, head), Last(p, cor)
      PROVE  Grows(p, U, cor)
  <2>1. head.ver = v /\ Pair(v, head, rev, cor) /\ Follows(c, T, cor, RootOf(head))
    BY <1>1, <1>6 DEF NextPair
  <2>2. U = T \cup {rev, cor}
    BY <1>4, <1>6
  <2>3. Sound(c, T \cup {rev, cor})
    BY <1>2, <2>1, PairSound
  <2>4. Effective(U) = (Effective(T) \ {head}) \cup {cor}
    BY <1>2, <1>3, <2>1, <2>2, PairCounts
  <2>5. rev.ver = v + 1 /\ cor.ver = v + 2
    BY <2>1 DEF Pair
  <2>6. \A h \in T : h.ver \in Nat /\ h.ver <= v
    BY <1>2, Numbered
  <2>7. \A k \in U : k.ver <= cor.ver
    BY <1>2, <2>2, <2>5, <2>6
  <2>8. \A n \in p.rows : n.ver \in Nat /\ n.ver > version
    BY <1>1, <1>2, <1>6, <2>5
  <2>9. cor.ver = version + 2 /\ head.ver = version /\ head \in Effective(hist[p.cls])
    BY <1>1, <2>1, <2>5
  <2>10. Sound(p.cls, U)
    BY <1>1, <2>2, <2>3
  <2>11. Effective(U) = (Effective(hist[p.cls]) \ {head}) \cup {cor}
    BY <1>1, <2>4
  <2>12. cor \in Effective(U) /\ cor.ver = p.version /\ p.shown = Shown(p.cls, cor)
    BY <2>4, <1>6 DEF Last
  <2> QED
    BY <1>6, <2>7, <2>8, <2>9, <2>10, <2>11, <2>12 DEF Grows
<1> QED
  BY <1>1, <1>4, <1>5, <1>6 DEF Continues

-----------------------------------------------------------------------------
(***************************************************************************)
(* The steps.                                                              *)
(***************************************************************************)

\* Only the creation witness ties a table's soundness to the rest of the state.
LEMMA SoundStays ==
    ASSUME UNCHANGED baseline, NEW c, NEW T, Sound(c, T)
    PROVE  Sound(c, T)'
<1>1. \A r : PriorFact(c, T, r)' = PriorFact(c, T, r)
  BY DEF PriorFact, Authority, Witness
<1>2. \A h, r : Follows(c, T, h, r) => Follows(c, T, h, r)'
  BY <1>1 DEF Follows
<1> QED
  BY <1>2 DEF Sound

\* Nothing is committed: a caller reads, locks, prepares or gives up.
LEMMA OpenStep ==
    ASSUME IInv, CorrectionInv, links \subseteq links',
           UNCHANGED <<version, projection, hist, baseline>>,
           \A r \in Request : req'[r].phase = "admitted" => Continues(req'[r].plan),
           \A r \in Request : req'[r].phase # "idle" =>
               \/ req[r].phase # "idle" /\ req'[r].seen = req[r].seen
               \/ req'[r].seen.version = version /\ req'[r].seen.projection = projection
    PROVE  CorrectionInv'
<1>1. ASSUME NEW c \in Class PROVE Sound(c, hist[c])'
  <2>1. PICK T : T = hist[c] /\ T = hist'[c]
    OBVIOUS
  <2>2. Sound(c, T)'
    BY <2>1, SoundStays DEF CorrectionInv
  <2>3. UNCHANGED baseline
    OBVIOUS
  <2> QED
    BY <2>1, <2>2 DEF Sound, Follows, PriorFact, Authority, Witness
<1>2. Continuing'
  <2>1. ASSUME NEW p, Continues(p) PROVE Continues(p)'
    <3>1. LatestFact(p.cls)' = LatestFact(p.cls)
      BY DEF LatestFact, Authority, Witness
    <3>2. \A n \in p.rows : EvidenceAccepted(p.cls, n)'
      BY <2>1, EvidenceMonotone DEF Continues
    <3>3. \A new : NextRoot(p.cls, new) => NextRoot(p.cls, new)'
      BY <3>1 DEF NextRoot
    <3>4. \A rev, cor, head : NextPair(p.cls, rev, cor, head) => NextPair(p.cls, rev, cor, head)'
      BY DEF NextPair, Follows, PriorFact, Authority, Witness
    <3> QED
      BY <2>1, <3>2, <3>3, <3>4 DEF Continues
  <2> SUFFICES ASSUME NEW r \in Request, req'[r].phase = "admitted" PROVE Continues(req[r].plan)'
    BY DEF Continuing
  <2>2. PICK p : p = req'[r].plan
    OBVIOUS
  <2>3. Continues(p)'
    BY <2>1, <2>2
  <2> QED
    BY <2>2, <2>3 DEF Continues, NextRoot, NextPair, Last, LatestFact
<1>3. NewestCounts'
  BY DEF CorrectionInv, NewestCounts
<1>4. ReadsPast'
  <2> SUFFICES ASSUME NEW r \in Request, req'[r].phase # "idle"
               PROVE  /\ req'[r].seen.version <= version
                      /\ req'[r].seen.projection["assignment"] \in 0..req'[r].seen.version
                      /\ \A c \in Class : CaptureAssetFacts(req'[r].seen.version)[c]
                                             = Understood(c, req'[r].seen.projection[c])
    BY DEF ReadsPast, CaptureAssetFacts, Understood, Authority, Witness
  <2>1. CASE req[r].phase # "idle" /\ req'[r].seen = req[r].seen
    BY <2>1 DEF CorrectionInv, ReadsPast
  <2>2. CASE req'[r].seen.version = version /\ req'[r].seen.projection = projection
    <3>1. "assignment" \in Class /\ version <= version
      BY ConstantsAssumption DEF Class, IInv, Shape
    <3> QED
      BY <2>2, <3>1, CurrentFacts
  <2> QED
    BY <2>1, <2>2
<1> QED
  BY <1>1, <1>2, <1>3, <1>4 DEF CorrectionInv

\* Reading, locking, rolling back and linking evidence.
LEMMA WaitStep ==
    ASSUME IInv, CorrectionInv,
           \/ LinkEvidence \/ UNCHANGED vars
           \/ \E r \in Request : Observe(r) \/ Begin(r) \/ Rollback(r)
    PROVE  CorrectionInv'
<1>1. CASE LinkEvidence \/ UNCHANGED vars
  <2>1. links \subseteq links' /\ UNCHANGED <<version, projection, hist, baseline, req>>
    BY <1>1 DEF LinkEvidence, vars
  <2> QED
    BY <2>1, OpenStep DEF CorrectionInv, Continuing
<1>2. ASSUME NEW r \in Request, Observe(r) \/ Begin(r) \/ Rollback(r) PROVE CorrectionInv'
  <2>1. links \subseteq links' /\ UNCHANGED <<version, projection, hist, baseline>>
    BY <1>2 DEF Observe, Begin, Rollback
  <2>2. \A q \in Request : q # r => req'[q] = req[q]
    BY <1>2 DEF Observe, Begin, Rollback, IInv, Shape
  <2>3. \/ /\ req'[r].phase = "observed" /\ req'[r].seen.version = version
           /\ req'[r].seen.projection = projection
        \/ req'[r].phase = "locked" /\ req'[r].seen = req[r].seen /\ req[r].phase = "observed"
        \/ req'[r].phase = "idle"
    BY <1>2 DEF Observe, Begin, Rollback, IInv, Shape, Doing, Idle
  <2>4. \A q \in Request : req'[q].phase = "admitted" => Continues(req'[q].plan)
    BY <2>2, <2>3 DEF CorrectionInv, Continuing
  <2>5. \A q \in Request : req'[q].phase # "idle" =>
            \/ req[q].phase # "idle" /\ req'[q].seen = req[q].seen
            \/ req'[q].seen.version = version /\ req'[q].seen.projection = projection
    BY <2>2, <2>3
  <2> QED
    BY <2>1, <2>4, <2>5, OpenStep
<1> QED
  BY <1>1, <1>2

\* Admission prepares what continues the history.
LEMMA AdmittedStep ==
    ASSUME IInv, CorrectionInv, NEW r \in Request, req[r].phase = "locked", NEW p, Continues(p),
           req' = [req EXCEPT ![r] = Doing("admitted", req[r].seen, p)],
           UNCHANGED <<version, projection, hist, baseline, links>>
    PROVE  CorrectionInv'
<1>1. /\ req'[r].phase = "admitted" /\ req'[r].seen = req[r].seen /\ req'[r].plan = p
      /\ \A q \in Request : q # r => req'[q] = req[q]
  BY DEF IInv, Shape, Doing
<1>2. \A q \in Request : req'[q].phase = "admitted" => Continues(req'[q].plan)
  BY <1>1 DEF CorrectionInv, Continuing
<1>3. \A q \in Request : req'[q].phase # "idle" =>
          \/ req[q].phase # "idle" /\ req'[q].seen = req[q].seen
          \/ req'[q].seen.version = version /\ req'[q].seen.projection = projection
  BY <1>1
<1>4. links \subseteq links'
  OBVIOUS
<1> QED
  BY <1>2, <1>3, <1>4, OpenStep

\* What was admitted holds rows of its class with accepted evidence.
LEMMA AdmittedRows ==
    ASSUME IInv', UNCHANGED links, NEW r \in Request, req'[r].phase = "admitted",
           NEW p, p = req'[r].plan
    PROVE  p.rows \subseteq Rows(p.cls) /\ \A n \in p.rows : EvidenceAccepted(p.cls, n)
<1>1. OrdinaryPlan(req[r].plan)' \/ CorrectionPlan(req[r].plan)'
  BY DEF IInv, Planned
<1>2. \A n : EvidenceAccepted(p.cls, n)' <=> EvidenceAccepted(p.cls, n)
  BY DEF EvidenceAccepted, ValidAssetEvidence
<1>3. CASE OrdinaryPlan(req[r].plan)'
  <2>1. p.rows \subseteq Rows(p.cls) /\ \A n \in p.rows : EvidenceAccepted(p.cls, n)'
    BY <1>3 DEF OrdinaryPlan, EvidenceAccepted
  <2> QED
    BY <2>1, <1>2
<1>4. CASE CorrectionPlan(req[r].plan)'
  <2>1. p.rows \subseteq Rows(p.cls) /\ \A n \in p.rows : EvidenceAccepted(p.cls, n)'
    BY <1>4 DEF CorrectionPlan, EvidenceAccepted
  <2> QED
    BY <2>1, <1>2
<1> QED
  BY <1>1, <1>3, <1>4

LEMMA AdmitOrdinaryStep ==
    ASSUME IInv, IInv', CorrectionInv, NEW r \in Request, AdmitOrdinary(r)
    PROVE  CorrectionInv'
<1>0. PICK op \in Operation(r) : \E latest \in LatestFact(op.cls) :
        /\ Preflight(op) /\ EdgeAccepted(op, latest)
        /\ req' = [req EXCEPT ![r] =
              Doing("admitted", req[r].seen,
                    Plan(op, {NewRow(version + 1, latest.to, op.to, "NONE", 0, 0, 0, op.evidence)},
                         NewRow(version + 1, latest.to, op.to, "NONE", 0, 0, 0, op.evidence)))]
  <2>1. PICK c \in Exercised : \E op \in Ordinary(r, c), latest \in LatestFact(c) :
          /\ Preflight(op) /\ EdgeAccepted(op, latest)
          /\ req' = [req EXCEPT ![r] =
                Doing("admitted", req[r].seen,
                      Plan(op, {NewRow(version + 1, latest.to, op.to, "NONE", 0, 0, 0, op.evidence)},
                           NewRow(version + 1, latest.to, op.to, "NONE", 0, 0, 0, op.evidence)))]
    BY DEF AdmitOrdinary
  <2>2. \A op \in Ordinary(r, c) : op \in Operation(r) /\ LatestFact(op.cls) = LatestFact(c)
    BY Operations
  <2> QED
    BY <2>1, <2>2
<1>1. PICK latest \in LatestFact(op.cls) :
        /\ Preflight(op) /\ EdgeAccepted(op, latest)
        /\ req' = [req EXCEPT ![r] =
              Doing("admitted", req[r].seen,
                    Plan(op, {NewRow(version + 1, latest.to, op.to, "NONE", 0, 0, 0, op.evidence)},
                         NewRow(version + 1, latest.to, op.to, "NONE", 0, 0, 0, op.evidence)))]
  BY <1>0
<1>2. PICK row : row = NewRow(version + 1, latest.to, op.to, "NONE", 0, 0, 0, op.evidence)
  OBVIOUS
<1>3. PICK p : p = Plan(op, {row}, row)
  OBVIOUS
<1>4. /\ row.ver = version + 1 /\ row.from = latest.to /\ row.to = op.to /\ row.role = "NONE"
      /\ row.root = 0 /\ row.pair = 0 /\ row.gen = 0
  BY <1>2 DEF NewRow
<1>5. p.cls = op.cls /\ p.rows = {row} /\ p.version = row.ver /\ p.shown = Shown(op.cls, row)
  BY <1>3 DEF Plan
<1>6. req[r].phase = "locked" /\ UNCHANGED <<version, projection, hist, baseline, links>>
  BY DEF AdmitOrdinary
<1>7. req' = [req EXCEPT ![r] = Doing("admitted", req[r].seen, p)]
  BY <1>1, <1>2, <1>3
<1>8. req'[r].phase = "admitted" /\ req'[r].plan = p
  BY <1>7 DEF IInv, Shape, Doing
<1>9. p.rows \subseteq Rows(p.cls) /\ \A n \in p.rows : EvidenceAccepted(p.cls, n)
  BY <1>6, <1>8, AdmittedRows
<1>10. op.cls = "state" => op.to \in Allowed(latest.to, latest.from)
  BY <1>1 DEF Preflight, EdgeAccepted, Allowed
<1>11. NextRoot(p.cls, row) /\ Last(p, row)
  BY <1>4, <1>5, <1>10 DEF NextRoot, Last
<1>12. Continues(p)
  BY <1>5, <1>9, <1>11 DEF Continues
<1> QED
  BY <1>6, <1>7, <1>12, AdmittedStep

LEMMA AdmitCorrectionStep ==
    ASSUME IInv, IInv', CorrectionInv, NEW r \in Request, AdmitCorrection(r)
    PROVE  CorrectionInv'
<1>0. PICK op \in Operation(r) :
        \E head \in Effective(hist[op.cls]), prior \in PriorFact(op.cls, hist[op.cls], op.root) :
             /\ RootOf(head) = op.root /\ IsGlobalHead(head)
             /\ CorrectedEdgeAccepted(op, prior)
             /\ req' = [req EXCEPT ![r] =
                          Doing("admitted", req[r].seen,
                                Plan(op, {ReversalRow(head, op), CorrectedRow(head, prior, op)},
                                     CorrectedRow(head, prior, op)))]
  <2>1. PICK c \in Exercised : \E op \in Correction(r, c) :
        \E head \in Effective(hist[op.cls]), prior \in PriorFact(op.cls, hist[op.cls], op.root) :
             /\ RootOf(head) = op.root /\ IsGlobalHead(head)
             /\ CorrectedEdgeAccepted(op, prior)
             /\ req' = [req EXCEPT ![r] =
                          Doing("admitted", req[r].seen,
                                Plan(op, {ReversalRow(head, op), CorrectedRow(head, prior, op)},
                                     CorrectedRow(head, prior, op)))]
    BY DEF AdmitCorrection
  <2>2. \A op \in Correction(r, c) : op \in Operation(r)
    BY Operations
  <2> QED
    BY <2>1, <2>2
<1>1. PICK head \in Effective(hist[op.cls]), prior \in PriorFact(op.cls, hist[op.cls], op.root) :
             /\ RootOf(head) = op.root /\ IsGlobalHead(head)
             /\ CorrectedEdgeAccepted(op, prior)
             /\ req' = [req EXCEPT ![r] =
                          Doing("admitted", req[r].seen,
                                Plan(op, {ReversalRow(head, op), CorrectedRow(head, prior, op)},
                                     CorrectedRow(head, prior, op)))]
  BY <1>0
<1>2. PICK rev, cor : rev = ReversalRow(head, op) /\ cor = CorrectedRow(head, prior, op)
  OBVIOUS
<1>3. PICK p : p = Plan(op, {rev, cor}, cor)
  OBVIOUS
<1>4. head.ver = version /\ Pair(version, head, rev, cor) /\ cor.from = prior.to /\ cor.to = op.to
  BY <1>1, <1>2 DEF ReversalRow, CorrectedRow, NewRow, Pair, IsGlobalHead
<1>5. p.cls = op.cls /\ p.rows = {rev, cor} /\ p.version = cor.ver /\ p.shown = Shown(op.cls, cor)
  BY <1>3 DEF Plan
<1>6. req[r].phase = "locked" /\ UNCHANGED <<version, projection, hist, baseline, links>>
  BY DEF AdmitCorrection
<1>7. req' = [req EXCEPT ![r] = Doing("admitted", req[r].seen, p)]
  BY <1>1, <1>2, <1>3
<1>8. req'[r].phase = "admitted" /\ req'[r].plan = p
  BY <1>7 DEF IInv, Shape, Doing
<1>9. p.rows \subseteq Rows(p.cls) /\ \A n \in p.rows : EvidenceAccepted(p.cls, n)
  BY <1>6, <1>8, AdmittedRows
<1>10. Follows(op.cls, hist[op.cls], cor, RootOf(head))
  BY <1>1, <1>4 DEF Follows, CorrectedEdgeAccepted
<1>11. NextPair(p.cls, rev, cor, head) /\ Last(p, cor)
  BY <1>4, <1>5, <1>10 DEF NextPair, Last
<1>12. Continues(p)
  BY <1>1, <1>5, <1>9, <1>11 DEF Continues
<1> QED
  BY <1>6, <1>7, <1>12, AdmittedStep

\* COMMIT: the plan becomes history; what anybody has read before lies in the
\* past of the new rows.
LEMMA CommittedStep ==
    ASSUME IInv, IInv', CorrectionInv, NEW r \in Request, Commit(r)
    PROVE  CorrectionInv'
<1>1. PICK p, c : p = req[r].plan /\ c = p.cls
  OBVIOUS
<1>2. /\ req[r].phase = "admitted" /\ p \in PlanSet /\ Continues(p)
      /\ hist' = [hist EXCEPT ![c] = @ \cup p.rows]
      /\ req' = [req EXCEPT ![r] = Idle] /\ version' = p.version
      /\ UNCHANGED <<baseline, links>>
  BY <1>1 DEF Commit, IInv, Shape, CorrectionInv, Continuing
<1>3. c \in Class
  BY <1>1, <1>2 DEF PlanSet
<1>4. /\ hist'[c] = hist[c] \cup p.rows
      /\ \A d \in Class : d # c => hist'[d] = hist[d]
      /\ req'[r].phase = "idle"
      /\ \A q \in Request : q # r => req'[q] = req[q] /\ req[q].phase # "admitted"
  BY <1>2, <1>3 DEF IInv, Shape, Locked, Idle, Doing
<1>5. PICK U : U = hist[p.cls] \cup p.rows
  OBVIOUS
<1>6. PICK last : Grows(p, U, last)
  BY <1>2, <1>5, ContinuedSound
<1>7. /\ Sound(c, U) /\ U = hist'[c] /\ last \in Effective(U) /\ \A k \in U : k.ver <= last.ver
      /\ \A n \in p.rows : n.ver \in Nat /\ n.ver > version
      /\ last.ver = version' /\ last \in p.rows
  BY <1>1, <1>2, <1>4, <1>5, <1>6 DEF Grows
<1>8. ASSUME NEW d \in Class PROVE Sound(d, hist[d])'
  <2>1. PICK T : T = hist'[d]
    OBVIOUS
  <2>2. Sound(d, T)
    BY <2>1, <1>4, <1>7 DEF CorrectionInv
  <2>3. Sound(d, T)'
    BY <2>2, <1>2, SoundStays
  <2> QED
    BY <2>1, <2>3 DEF Sound, Follows, PriorFact, Authority, Witness
<1>9. Continuing'
  BY <1>4 DEF Continuing
<1>10. NewestCounts'
  BY <1>4, <1>7 DEF CorrectionInv, NewestCounts
<1>11. version \in Nat /\ version' \in Nat /\ version < version'
  BY <1>2, <1>7, ConstantsAssumption DEF IInv, Shape
<1>12. ASSUME NEW d \in Class, NEW v \in Nat, v <= version
       PROVE  CaptureAssetFacts(v)[d]' = CaptureAssetFacts(v)[d]
  <2>1. {k \in hist'[d] : k.ver <= v} = {k \in hist[d] : k.ver <= v}
    BY <1>4, <1>7, <1>11, <1>12
  <2> QED
    BY <2>1, <1>2 DEF CaptureAssetFacts, Authority, Witness
<1>13. ASSUME NEW d \in Class, NEW shown, d = "assignment" => shown \in Nat /\ shown <= version
       PROVE  Understood(d, shown)' = Understood(d, shown)
  <2>1. CASE d = "assignment"
    <3>1. {k \in hist'[d] : k.ver = shown} = {k \in hist[d] : k.ver = shown}
      BY <2>1, <1>4, <1>7, <1>11, <1>13
    <3> QED
      BY <2>1, <3>1 DEF Understood
  <2>2. CASE d # "assignment"
    BY <2>2 DEF Understood
  <2> QED
    BY <2>1, <2>2
<1>14. ReadsPast'
  <2> SUFFICES ASSUME NEW q \in Request, req'[q].phase # "idle"
               PROVE  /\ req'[q].seen.version <= version'
                      /\ req'[q].seen.projection["assignment"] \in 0..req'[q].seen.version
                      /\ \A d \in Class : CaptureAssetFacts(req[q].seen.version)[d]'
                                             = Understood(d, req[q].seen.projection[d])'
    BY DEF ReadsPast
  <2>1. q # r /\ req'[q] = req[q] /\ req[q].phase # "idle"
    BY <1>4
  <2>2. PICK v, shown : v = req[q].seen.version /\ shown = req[q].seen.projection
    OBVIOUS
  <2>3. /\ v <= version /\ shown["assignment"] \in 0..v
        /\ \A d \in Class : CaptureAssetFacts(v)[d] = Understood(d, shown[d])
    BY <2>1, <2>2 DEF CorrectionInv, ReadsPast
  <2>4. v \in Nat /\ shown["assignment"] \in Nat
    <3>1. req'[q].seen \in Seen /\ req[q].seen \in Seen
      BY <2>1 DEF IInv, Shape
    <3>2. v \in 1..MaxVersion
      BY <2>2, <3>1 DEF Seen
    <3> QED
      BY <2>3, <3>2, ConstantsAssumption
  <2>5. ASSUME NEW d \in Class
        PROVE  CaptureAssetFacts(req[q].seen.version)[d]' = Understood(d, req[q].seen.projection[d])'
    <3>1. CaptureAssetFacts(v)[d]' = CaptureAssetFacts(v)[d]
      BY <2>3, <2>4, <1>12
    <3>2. PICK s : s = shown[d]
      OBVIOUS
    <3>3. d = "assignment" => s \in Nat /\ s <= version
      BY <2>3, <2>4, <3>2, <1>11
    <3>4. Understood(d, s)' = Understood(d, s)
      BY <3>3, <1>13
    <3>5. CaptureAssetFacts(v)[d]' = Understood(d, s)'
      BY <3>1, <3>2, <3>4, <2>3
    <3> QED
      BY <3>2, <3>5, <2>1, <2>2 DEF CaptureAssetFacts, Understood
  <2> QED
    BY <2>1, <2>2, <2>3, <2>4, <2>5, <1>11
<1> QED
  BY <1>2, <1>8, <1>9, <1>10, <1>14 DEF CorrectionInv

\* The Asset has just been created: its first row is the only history.
LEMMA InitCorrectionInv ==
    Init => CorrectionInv
<1> SUFFICES ASSUME Init PROVE CorrectionInv
  OBVIOUS
<1>1. PICK first : first = NewRow(1, Null, "RECEIVED", "NONE", 0, 0, 0, Null)
  OBVIOUS
<1>2. \A c \in Class : /\ c = "state" => hist[c] = {first}
                       /\ c # "state" => hist[c] = {}
  BY <1>1 DEF Init
<1>3. first.ver = 1 /\ first.role = "NONE" /\ first.root = 0 /\ first.pair = 0 /\ first.gen = 0
  BY <1>1 DEF NewRow
<1>4. ASSUME NEW c, NEW T, T = {} \/ (c = "state" /\ T = {first}) PROVE Sound(c, T)
  <2>1. \A h \in T : h.role = "NONE" /\ h.ver = 1 /\ h.root = 0 /\ h.pair = 0 /\ h.gen = 0
    BY <1>3, <1>4
  <2>2. RolesWellFormed(T) /\ PairsComplete(T) /\ GenerationsContiguous(T)
        /\ ReversalsCopyCancelled(T) /\ Spanned(T)
    BY <2>1 DEF RolesWellFormed, PairsComplete, GenerationsContiguous,
                ReversalsCopyCancelled, Spanned
  <2>3. \A h \in Effective(T) : h.ver = 1 /\ c = "state"
    BY <1>3, <1>4, <2>1 DEF Effective
  <2> QED
    BY <2>1, <2>2, <2>3 DEF Sound
<1>5. \A c \in Class : Sound(c, hist[c])
  BY <1>2, <1>4
<1>6. NewestCounts
  <2>1. first \in Effective({first}) /\ first.ver <= first.ver
    BY <1>3 DEF Effective
  <2> QED
    BY <1>2, <2>1 DEF NewestCounts
<1>7. Continuing /\ ReadsPast
  BY DEF Init, Continuing, ReadsPast, Idle, Doing
<1>8. baseline["assignment"] = Null
  BY DEF Init
<1> QED
  BY <1>5, <1>6, <1>7, <1>8 DEF CorrectionInv

-----------------------------------------------------------------------------
(***************************************************************************)
(* The theorems.                                                           *)
(***************************************************************************)

\* The correction invariant holds in every reachable state: every table stays
\* sound, and what is admitted under the lock still continues it at COMMIT.
THEOREM CorrectionInvariance ==
    Spec => []CorrectionInv
<1>1. IInv /\ IInv' /\ CorrectionInv /\ [Next]_vars => CorrectionInv'
  <2> SUFFICES ASSUME IInv, IInv', CorrectionInv, [Next]_vars PROVE CorrectionInv'
    OBVIOUS
  <2>1. CASE LinkEvidence \/ UNCHANGED vars
    BY <2>1, WaitStep
  <2>2. ASSUME NEW r \in Request, Observe(r) \/ Begin(r) \/ Rollback(r) PROVE CorrectionInv'
    BY <2>2, WaitStep
  <2>3. ASSUME NEW r \in Request, AdmitOrdinary(r) PROVE CorrectionInv'
    BY <2>3, AdmitOrdinaryStep
  <2>4. ASSUME NEW r \in Request, AdmitCorrection(r) PROVE CorrectionInv'
    BY <2>4, AdmitCorrectionStep
  <2>5. ASSUME NEW r \in Request, Commit(r) PROVE CorrectionInv'
    BY <2>5, CommittedStep
  <2> QED
    BY <2>1, <2>2, <2>3, <2>4, <2>5 DEF Next
<1> QED
  BY <1>1, InitCorrectionInv, Invariance, PTL DEF Spec

\* A sound table with accepted evidence has no correction anomaly.
LEMMA SoundWellFormed ==
    ASSUME NEW c, NEW T, Sound(c, T), \A h \in T : EvidenceAccepted(c, h)
    PROVE  WellFormed(c, T)
BY DEF Sound, WellFormed, SourcesCoherent, Follows

\* asset_correction_anomalies is empty and no corrected edge is illegal after any
\* mix of transitions and corrections by any number of callers: an Asset never
\* locks its own operations out.
THEOREM NeverAnomalousProven ==
    Spec => []NeverAnomalous
<1>1. IInv /\ CorrectionInv => NeverAnomalous
  <2> SUFFICES ASSUME IInv, CorrectionInv PROVE NeverAnomalous
    OBVIOUS
  <2>1. \A c \in Class : WellFormed(c, hist[c])
    BY SoundWellFormed DEF CorrectionInv, IInv, History
  <2>2. ASSUME NEW h \in hist["state"], h.role = "CORRECTED"
        PROVE  \E p \in PriorFact("state", hist["state"], h.root) :
                   /\ h.to \in Allowed(p.to, p.from)
                   /\ h.to = "RETIRED" => ValidAssetEvidence(h.evidence, "DISPOSAL_EVIDENCE")
    <3>1. "state" \in Class
      BY DEF Class
    <3>2. Follows("state", hist["state"], h, h.root)
      BY <2>2, <3>1 DEF CorrectionInv, Sound
    <3>3. EvidenceAccepted("state", h)
      BY <2>2, <3>1 DEF IInv, History
    <3>4. h.to = "RETIRED" => ValidAssetEvidence(h.evidence, "DISPOSAL_EVIDENCE")
      BY <2>2, <3>3, ConstantsAssumption DEF EvidenceAccepted, Purpose
    <3> QED
      BY <3>2, <3>4 DEF Follows
  <2> QED
    BY <2>1, <2>2 DEF NeverAnomalous, LifecycleSound
<1> QED
  BY <1>1, Invariance, CorrectionInvariance, PTL

\* Neither uq_<table>_version nor the deferred pair trigger refuses at COMMIT what
\* was admitted under the row lock.
THEOREM CommitNeverRefusedProven ==
    Spec => []CommitNeverRefused
<1>1. IInv /\ CorrectionInv => CommitNeverRefused
  <2> SUFFICES ASSUME IInv, CorrectionInv, NEW r \in Request, req[r].phase = "admitted"
               PROVE  CommitAccepted(req[r].plan)
    BY DEF CommitNeverRefused
  <2>1. PICK p : p = req[r].plan
    OBVIOUS
  <2>2. p \in PlanSet /\ Continues(p)
    BY <2>1 DEF IInv, Shape, CorrectionInv, Continuing
  <2>3. PICK U : U = hist[p.cls] \cup p.rows
    OBVIOUS
  <2>4. PICK last : Grows(p, U, last)
    BY <2>2, <2>3, ContinuedSound
  <2>5. p.cls \in Class
    BY <2>2 DEF PlanSet
  <2>6. \A h \in hist[p.cls] : h.ver \in Nat /\ h.ver <= version
    BY <2>5, HistoryDated, Numbered
  <2>7. \A h \in hist[p.cls], n \in p.rows : h.ver # n.ver
    BY <2>4, <2>6, ConstantsAssumption DEF Grows, IInv, Shape
  <2>8. \A h \in U : EvidenceAccepted(p.cls, h)
    BY <2>2, <2>3, <2>5 DEF Continues, IInv, History
  <2>9. WellFormed(p.cls, U)
    BY <2>4, <2>8, SoundWellFormed DEF Grows
  <2> QED
    BY <2>1, <2>3, <2>7, <2>9 DEF CommitAccepted
<1> QED
  BY <1>1, Invariance, CorrectionInvariance, PTL

\* The effective views form one unbroken chain per class whatever was corrected.
THEOREM EffectiveChainProven ==
    Spec => []EffectiveChain
<1>1. CorrectionInv => EffectiveChain
  BY DEF CorrectionInv, Sound, EffectiveChain, Follows
<1> QED
  BY <1>1, CorrectionInvariance, PTL

\* Every effective lifecycle edge is legal where it stands, the return from
\* ON_HOLD included.
THEOREM EffectiveLifecycleLegalProven ==
    Spec => []EffectiveLifecycleLegal
<1>1. CorrectionInv => EffectiveLifecycleLegal
  BY DEF CorrectionInv, Sound, EffectiveLifecycleLegal, Follows, Class
<1> QED
  BY <1>1, CorrectionInvariance, PTL

\* capture_asset_facts quotes a version as its reader saw it, and the current
\* version as the Asset row shows it.
THEOREM FactsAsSeenProven ==
    Spec => []FactsAsSeen
<1>1. IInv /\ CorrectionInv => FactsAsSeen
  <2> SUFFICES ASSUME IInv, CorrectionInv PROVE FactsAsSeen
    OBVIOUS
  <2>1. \A c \in Class : CaptureAssetFacts(version)[c] = Understood(c, projection[c])
    BY CurrentFacts
  <2> QED
    BY <2>1 DEF CorrectionInv, ReadsPast, FactsAsSeen
<1> QED
  BY <1>1, Invariance, CorrectionInvariance, PTL

\* What transition_options offers is exactly what transition_asset admits at the
\* same version.
THEOREM OptionsMatchAdmissionProven ==
    Spec => []OptionsMatchAdmission
<1>1. IInv /\ CorrectionInv => OptionsMatchAdmission
  <2> SUFFICES ASSUME IInv, CorrectionInv PROVE OptionsMatchAdmission
    OBVIOUS
  <2>1. "state" \in Class
    BY DEF Class
  <2>2. PICK h : LatestFact("state") = {h} /\ projection["state"] = Shown("state", h)
                 /\ h \in hist["state"]
    BY <2>1, NewestFact
  <2>3. projection["state"] = h.to /\ h.to \in AssetState /\ h.from \in AssetState \cup {Null}
        /\ h.ver <= version
    <3>1. h \in Rows("state") /\ h.ver \in 1..version
      BY <2>1, <2>2, HistoryDated DEF Dated
    <3> QED
      BY <2>1, <2>2, <3>1, ConstantsAssumption DEF Rows, Fact, Shown, IInv, Shape
  <2>4. TransitionOptions = Allowed(h.to, h.from)
    BY <2>2, <2>3 DEF TransitionOptions
  <2>5. Allowed(h.to, h.from) \subseteq AssetState
    BY <2>3 DEF Allowed, LIFECYCLE, AssetState
  <2>6. ASSUME NEW to \in AssetState
        PROVE  to \in Allowed(h.to, h.from) <=>
                 /\ projection["state"] # "ON_HOLD" => to \in LIFECYCLE[projection["state"]]
                 /\ EdgeAccepted([cls |-> "state", from |-> projection["state"], to |-> to,
                                  evidence |-> Null, expected |-> version], h)
    BY <2>2, <2>3 DEF EdgeAccepted, Allowed
  <2> QED
    BY <2>2, <2>4, <2>5, <2>6 DEF OptionsMatchAdmission
<1> QED
  BY <1>1, Invariance, CorrectionInvariance, PTL

-----------------------------------------------------------------------------
(***************************************************************************)
(* The refinement of AssetLedger.                                          *)
(***************************************************************************)

Entry(c, h) == [cls |-> c, to |-> h.to, at |-> h.ver]

Entries == UNION {{[cls |-> c, to |-> h.to, at |-> h.ver] : h \in Effective(hist[c])} : c \in Class}

Facts == [c \in Class |-> CHOOSE f \in Fact[c] : Understood(c, projection[c]) = {f}]

LEMMA EntryOf ==
    \A e : e \in Entries <=> \E c \in Class : \E h \in Effective(hist[c]) : e = Entry(c, h)
BY DEF Entries, Entry

\* The abstract fact of a class is the one its newest row states.
FactsRead ==
    \A c \in Class : \E h : LatestFact(c) = {h} /\ Facts[c] = h.to /\ h.to \in Fact[c]

LEMMA FactsMeaning ==
    IInv /\ CorrectionInv => FactsRead
<1> SUFFICES ASSUME IInv, CorrectionInv, NEW c \in Class
             PROVE  \E h : LatestFact(c) = {h} /\ Facts[c] = h.to /\ h.to \in Fact[c]
  BY DEF FactsRead
<1>1. PICK h \in LatestFact(c) : Understood(c, projection[c]) = {h.to}
  BY CurrentFacts
<1>2. LatestFact(c) = {h}
  BY <1>1, NewestFact
<1>3. h.to \in Fact[c]
  <2>1. Effective(hist[c]) \in SUBSET hist[c]
    BY DEF Effective
  <2>2. h \in Authority(c, Effective(hist[c])) /\ Shape
    BY <1>1 DEF LatestFact, IInv
  <2> QED
    BY <2>1, <2>2, AuthorityTyped
<1>4. Facts[c] = CHOOSE f \in Fact[c] : {h.to} = {f}
  BY <1>1 DEF Facts
<1>5. \A f : {h.to} = {f} <=> f = h.to
  OBVIOUS
<1>6. Facts[c] = h.to
  BY <1>3, <1>4, <1>5
<1> QED
  BY <1>2, <1>3, <1>6

\* What the newest entry of a class is, before and after a commit by r.
LEMMA CommitAppends ==
    ASSUME IInv, IInv', CorrectionInv, CorrectionInv', NEW r \in Request, Commit(r)
    PROVE  \E c \in Class : \E last :
              /\ last.to \in Fact[c]
              /\ Facts' = [Facts EXCEPT ![c] = last.to]
              /\ \/ /\ version' = version + 1 /\ last.ver = version + 1
                    /\ Entries' = Entries \cup {Entry(c, last)}
                 \/ /\ version' = version + 2 /\ last.ver = version + 2
                    /\ \E head \in Effective(hist[c]) :
                           /\ head.ver = version
                           /\ Entries' = (Entries \ {Entry(c, head)}) \cup {Entry(c, last)}
<1>1. PICK p, c : p = req[r].plan /\ c = p.cls
  OBVIOUS
<1>2. /\ p \in PlanSet /\ Continues(p) /\ c \in Class
      /\ hist' = [hist EXCEPT ![c] = @ \cup p.rows]
      /\ version' = p.version /\ UNCHANGED baseline
      /\ projection' = [projection EXCEPT ![c] = p.shown]
  BY <1>1 DEF Commit, IInv, Shape, CorrectionInv, Continuing, PlanSet
<1>3. hist'[c] = hist[c] \cup p.rows /\ \A d \in Class : d # c => hist'[d] = hist[d]
  BY <1>2 DEF IInv, Shape
<1>4. PICK U : U = hist[p.cls] \cup p.rows
  OBVIOUS
<1>5. PICK last : Grows(p, U, last)
  BY <1>2, <1>4, ContinuedSound
<1>6. PICK E, F : E = Effective(hist[c]) /\ F = Effective(U)
  OBVIOUS
<1>7. /\ last \in F /\ last.ver = version' /\ U = hist'[c] /\ \A k \in U : k.ver <= last.ver
      /\ \/ last.ver = version + 1 /\ F = E \cup {last}
         \/ /\ last.ver = version + 2
            /\ \E head \in E : head.ver = version /\ F = (E \ {head}) \cup {last}
  BY <1>1, <1>2, <1>3, <1>4, <1>5, <1>6 DEF Grows
<1>8. \A d \in Class : /\ d = c => Effective(hist'[d]) = F
                       /\ d # c => Effective(hist'[d]) = Effective(hist[d])
  BY <1>3, <1>6, <1>7
<1>9. last \in LatestFact(c)'
  <2>1. last \in Newest(F)
    BY <1>6, <1>7 DEF Newest, Effective
  <2> QED
    BY <2>1, <1>2, <1>7, <1>8 DEF LatestFact, Authority
<1>10. \A d \in Class : d # c => LatestFact(d)' = LatestFact(d)
  BY <1>2, <1>8 DEF LatestFact, Authority, Witness
<1>11. \A d \in Class : \E h : LatestFact(d)' = {h} /\ Facts'[d] = h.to /\ h.to \in Fact[d]
  <2>1. (IInv /\ CorrectionInv => FactsRead)'
    BY FactsMeaning, PTL
  <2> QED
    BY <2>1 DEF FactsRead
<1>12. Facts'[c] = last.to /\ last.to \in Fact[c]
  BY <1>2, <1>9, <1>11
<1>13. \A d \in Class : d # c => Facts'[d] = Facts[d]
  <2> SUFFICES ASSUME NEW d \in Class, d # c PROVE Facts'[d] = Facts[d]
    OBVIOUS
  <2>1. PICK h : LatestFact(d) = {h} /\ Facts[d] = h.to
    BY FactsMeaning DEF FactsRead
  <2>2. PICK k : LatestFact(d)' = {k} /\ Facts'[d] = k.to
    BY <1>11
  <2> QED
    BY <2>1, <2>2, <1>10
<1>14. Facts' = [Facts EXCEPT ![c] = last.to]
  <2>1. Facts = [d \in Class |-> Facts[d]] /\ Facts' = [d \in Class |-> Facts'[d]]
    BY DEF Facts
  <2> QED
    BY <2>1, <1>2, <1>12, <1>13
<1>15. \A e : e \in Entries' <=> \E d \in Class : \E h \in Effective(hist'[d]) : e = Entry(d, h)
  BY DEF Entries, Entry
<1>16. CASE last.ver = version + 1 /\ F = E \cup {last}
  <2>1. \A e : e \in Entries' <=> e \in Entries \cup {Entry(c, last)}
    <3>1. \A d \in Class : \A h : h \in Effective(hist'[d]) <=>
                \/ h \in Effective(hist[d])
                \/ d = c /\ h = last
      BY <1>6, <1>8, <1>16
    <3>2. ASSUME NEW e \in Entries' PROVE e \in Entries \cup {Entry(c, last)}
      <4>1. PICK d \in Class : \E h \in Effective(hist'[d]) : e = Entry(d, h)
        BY <1>15
      <4>2. PICK h \in Effective(hist'[d]) : e = Entry(d, h)
        BY <4>1
      <4> QED
        BY <3>1, <4>2, EntryOf
    <3>3. ASSUME NEW e \in Entries PROVE e \in Entries'
      <4>1. PICK d \in Class : \E h \in Effective(hist[d]) : e = Entry(d, h)
        BY EntryOf
      <4> QED
        BY <3>1, <4>1, <1>15
    <3>4. Entry(c, last) \in Entries'
      BY <3>1, <1>2, <1>15
    <3> QED
      BY <3>2, <3>3, <3>4
  <2>2. Entries' = Entries \cup {Entry(c, last)}
    BY <2>1
  <2> QED
    BY <1>2, <1>7, <1>12, <1>14, <1>16, <2>2
<1>17. ASSUME last.ver = version + 2, NEW head \in E, head.ver = version,
              F = (E \ {head}) \cup {last}
       PROVE  Entries' = (Entries \ {Entry(c, head)}) \cup {Entry(c, last)}
  <2>1. \A h \in E : h.ver = head.ver => h = head
    BY <1>2, <1>6, <1>17, HistoryDated DEF Dated, Effective
  <2>2. \A d \in Class : \A h : Entry(d, h) = Entry(c, head) => d = c /\ h.ver = head.ver
    BY DEF Entry
  <2>3. \A e : e \in Entries' <=> e \in (Entries \ {Entry(c, head)}) \cup {Entry(c, last)}
    <3> SUFFICES ASSUME NEW e
                 PROVE  e \in Entries' <=> e \in (Entries \ {Entry(c, head)}) \cup {Entry(c, last)}
      OBVIOUS
    <3>1. ASSUME e \in Entries' PROVE e \in (Entries \ {Entry(c, head)}) \cup {Entry(c, last)}
      <4>1. PICK d, h : d \in Class /\ h \in Effective(hist'[d]) /\ e = Entry(d, h)
        BY <3>1, <1>15
      <4>2. CASE d = c /\ h = last
        BY <4>1, <4>2
      <4>3. CASE ~(d = c /\ h = last)
        <5>1. h \in Effective(hist[d])
          BY <4>1, <4>3, <1>6, <1>8, <1>17
        <5>2. d = c => h \in E /\ h # head
          BY <4>1, <4>3, <1>8, <1>17
        <5>3. e # Entry(c, head)
          BY <4>1, <5>2, <2>1, <2>2
        <5> QED
          BY <4>1, <5>1, <5>3, EntryOf
      <4> QED
        BY <4>2, <4>3
    <3>2. ASSUME e = Entry(c, last) PROVE e \in Entries'
      BY <3>2, <1>2, <1>7, <1>8, <1>15
    <3>3. ASSUME e \in Entries, e # Entry(c, head) PROVE e \in Entries'
      <4>1. PICK d, h : d \in Class /\ h \in Effective(hist[d]) /\ e = Entry(d, h)
        BY <3>3, EntryOf
      <4>2. h \in Effective(hist'[d])
        BY <4>1, <3>3, <1>6, <1>8, <1>17
      <4> QED
        BY <4>1, <4>2, <1>15
    <3> QED
      BY <3>1, <3>2, <3>3
  <2> QED
    BY <2>3
<1> QED
  BY <1>2, <1>6, <1>7, <1>12, <1>14, <1>16, <1>17

\* The five histories with their locks, plans and REVERSAL/CORRECTED pairs
\* implement the one ledger of AssetLedger: each commit is one operation or one
\* correction of the newest entry, and every other step leaves the ledger alone.
THEOREM ImplementsLedgerProven ==
    Spec => ImplementsLedger
<1>1. Init => Ledger!LedgerInit
  <2> SUFFICES ASSUME Init PROVE Ledger!LedgerInit
    OBVIOUS
  <2>1. IInv /\ CorrectionInv
    BY InitIInv, InitCorrectionInv
  <2>2. PICK first : first = NewRow(1, Null, "RECEIVED", "NONE", 0, 0, 0, Null)
    OBVIOUS
  <2>3. first.ver = 1 /\ first.to = "RECEIVED" /\ first.role = "NONE"
    BY <2>2 DEF NewRow
  <2>4. \A c \in Class : /\ c = "state" => hist[c] = {first}
                         /\ c # "state" => hist[c] = {}
    BY <2>2 DEF Init
  <2>5. Effective({first}) = {first} /\ Effective({}) = {}
    BY <2>3 DEF Effective
  <2>6. "state" \in Class
    BY DEF Class
  <2>7. Entry("state", first) = [cls |-> "state", to |-> "RECEIVED", at |-> 1]
    BY <2>3 DEF Entry
  <2>8. Entries = {[cls |-> "state", to |-> "RECEIVED", at |-> 1]}
    <3>1. \A c \in Class : \A h : h \in Effective(hist[c]) <=> c = "state" /\ h = first
      BY <2>4, <2>5, <2>6
    <3>2. \A e : e \in Entries <=> e = Entry("state", first)
      BY <3>1, <2>6, EntryOf
    <3> QED
      BY <3>2, <2>7
  <2>9. \A c \in Class : Facts[c] \in Fact[c]
    BY <2>1, FactsMeaning DEF FactsRead
  <2>10. Facts["state"] = "RECEIVED"
    <3>1. LatestFact("state") = {first}
      BY <2>3, <2>4, <2>5, <2>6 DEF LatestFact, Authority, Newest
    <3> QED
      BY <3>1, <2>1, <2>3, <2>6, FactsMeaning DEF FactsRead
  <2>11. version = 1
    BY DEF Init
  <2> QED
    BY <2>8, <2>9, <2>10, <2>11 DEF Ledger!LedgerInit, Ledger!Created, Entries, Facts
<1>2. IInv /\ IInv' /\ CorrectionInv /\ CorrectionInv' /\ [Next]_vars
        => [Ledger!LedgerNext]_(Ledger!ledgerVars)
  <2> SUFFICES ASSUME IInv, IInv', CorrectionInv, CorrectionInv', [Next]_vars
               PROVE  \/ Ledger!LedgerNext
                      \/ UNCHANGED <<version, Entries, Facts>>
    BY DEF Ledger!ledgerVars, Entries, Facts
  <2>1. ASSUME UNCHANGED <<version, projection, hist>>
        PROVE  UNCHANGED <<version, Entries, Facts>>
    BY <2>1 DEF Entries, Facts, Understood
  <2>2. CASE LinkEvidence \/ UNCHANGED vars
    BY <2>1, <2>2 DEF LinkEvidence, vars
  <2>3. ASSUME NEW r \in Request,
               Observe(r) \/ Begin(r) \/ AdmitOrdinary(r) \/ AdmitCorrection(r) \/ Rollback(r)
        PROVE  UNCHANGED <<version, Entries, Facts>>
    BY <2>1, <2>3 DEF Observe, Begin, AdmitOrdinary, AdmitCorrection, Rollback
  <2>4. ASSUME NEW r \in Request, Commit(r) PROVE Ledger!LedgerNext
    <3>1. PICK c, last :
              /\ c \in Class /\ last.to \in Fact[c]
              /\ Facts' = [Facts EXCEPT ![c] = last.to]
              /\ \/ /\ version' = version + 1 /\ last.ver = version + 1
                    /\ Entries' = Entries \cup {Entry(c, last)}
                 \/ /\ version' = version + 2 /\ last.ver = version + 2
                    /\ \E head \in Effective(hist[c]) :
                           /\ head.ver = version
                           /\ Entries' = (Entries \ {Entry(c, head)}) \cup {Entry(c, last)}
      BY <2>4, CommitAppends
    <3>2. PICK to : to = last.to
      OBVIOUS
    <3>3. CASE /\ version' = version + 1 /\ last.ver = version + 1
               /\ Entries' = Entries \cup {Entry(c, last)}
      <4>1. Entry(c, last) = [cls |-> c, to |-> to, at |-> version + 1]
        BY <3>2, <3>3 DEF Entry
      <4>2. Ledger!Operate(c, to)
        BY <3>1, <3>2, <3>3, <4>1 DEF Ledger!Operate, Entries, Facts
      <4> QED
        BY <3>1, <3>2, <4>2 DEF Ledger!LedgerNext
    <3>4. ASSUME version' = version + 2, last.ver = version + 2,
                 NEW head \in Effective(hist[c]), head.ver = version,
                 Entries' = (Entries \ {Entry(c, head)}) \cup {Entry(c, last)}
          PROVE  Ledger!LedgerNext
      <4>1. PICK top : top = Entry(c, head)
        OBVIOUS
      <4>2. top.cls = c /\ top.at = version /\ top \in Entries
        BY <3>1, <3>4, <4>1, EntryOf DEF Entry
      <4>3. Entry(c, last) = [cls |-> top.cls, to |-> to, at |-> version + 2]
        BY <3>2, <3>4, <4>2 DEF Entry
      <4>4. Ledger!Correct(top, to)
        BY <3>1, <3>2, <3>4, <4>1, <4>2, <4>3 DEF Ledger!Correct, Entries, Facts
      <4> QED
        BY <3>1, <3>2, <4>2, <4>4 DEF Ledger!LedgerNext, Entries
    <3> QED
      BY <3>1, <3>3, <3>4
  <2> QED
    BY <2>2, <2>3, <2>4 DEF Next
<1> QED
  BY <1>1, <1>2, Invariance, CorrectionInvariance, PTL DEF Spec, ImplementsLedger, Ledger!LedgerSpec
=============================================================================
