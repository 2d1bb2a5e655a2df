------------------------------- MODULE LogProofs -------------------------------
(***************************************************************************)
(* Proofs about the call log, in the process that Backoffice models, for   *)
(* any bounds.  First what Only selects from a sequence; then LogOrder: a  *)
(* row moves from the queue through the writer to the file in the order of *)
(* the calls.  On these rest the cost of broken writes (DamageInv), the    *)
(* refinement of RowLog, the answers to queries, and the rows that stay    *)
(* readable once shown (ShownInv).                                         *)
(***************************************************************************)
EXTENDS BackofficeProofs, SequenceLemmas, FiniteSetTheorems

-----------------------------------------------------------------------------
(* What Only selects. *)

(* How Only gets to its result, prefix by prefix. *)
Kept(s, S) == CHOOSE kept : kept = [n \in 0..Len(s) |->
                  IF n = 0 THEN <<>>
                  ELSE IF s[n] \in S THEN Append(kept[n - 1], s[n]) ELSE kept[n - 1]]

KeepsTo(kept, s, S, m) ==
    /\ kept[0] = <<>>
    /\ \A n \in 1..m : kept[n] = IF s[n] \in S THEN Append(kept[n - 1], s[n]) ELSE kept[n - 1]

(* There is such a function: for each prefix, and so for the whole. *)
LEMMA KeptExists ==
    ASSUME NEW T, NEW s \in Seq(T), NEW S
    PROVE  \E kept \in [0..Len(s) -> Seq(T)] : KeepsTo(kept, s, S, Len(s))
<1> DEFINE Good(n) == \E kept \in [0..n -> Seq(T)] : KeepsTo(kept, s, S, n)
           Bad == {n \in 0..Len(s) : ~Good(n)}
<1>1. Good(0)
  <2> DEFINE kept == [n \in 0..0 |-> <<>>]
  <2>1. kept \in [0..0 -> Seq(T)] /\ KeepsTo(kept, s, S, 0)
    BY DEF KeepsTo
  <2> QED
    BY <2>1
<1>2. ASSUME NEW n \in 0..Len(s), n # Len(s), Good(n)
      PROVE  Good(n + 1)
  <2>1. PICK kept \in [0..n -> Seq(T)] : KeepsTo(kept, s, S, n)
    BY <1>2
  <2> DEFINE new == IF s[n + 1] \in S THEN Append(kept[n], s[n + 1]) ELSE kept[n]
             more == [i \in 0..(n + 1) |-> IF i <= n THEN kept[i] ELSE new]
  <2>2. n + 1 \in 1..Len(s) /\ s[n + 1] \in T /\ kept[n] \in Seq(T)
    BY <1>2
  <2>3. new \in Seq(T)
    BY <2>2
  <2>4. /\ more[n + 1] = new
        /\ \A i \in 0..n : more[i] = kept[i]
        /\ more \in [0..(n + 1) -> Seq(T)]
    <3> HIDE DEF new
    <3> QED
      BY <2>3
  <2> HIDE DEF more
  <2>5. ASSUME NEW i \in 1..(n + 1)
        PROVE  more[i] = IF s[i] \in S THEN Append(more[i - 1], s[i]) ELSE more[i - 1]
    <3>1. CASE i = n + 1
      <4>1. i - 1 = n /\ more[i - 1] = kept[n]
        BY <2>4, <3>1
      <4> QED
        BY <2>4, <3>1, <4>1
    <3>2. CASE i # n + 1
      <4>1. i \in 1..n /\ more[i] = kept[i] /\ more[i - 1] = kept[i - 1]
        BY <2>4, <3>2
      <4> QED
        BY <2>1, <4>1 DEF KeepsTo
    <3> QED
      BY <3>1, <3>2
  <2>6. KeepsTo(more, s, S, n + 1)
    BY <2>1, <2>4, <2>5 DEF KeepsTo
  <2> QED
    BY <2>4, <2>6
<1> HIDE DEF Good
<1>3. Bad = {}
  <2> SUFFICES ASSUME Bad # {}
               PROVE  FALSE
    OBVIOUS
  <2>1. PICK b \in Bad : \A c \in Bad : b <= c
    <3>1. Bad \subseteq Nat
      OBVIOUS
    <3> HIDE DEF Bad
    <3> QED
      BY <3>1, LeastElement
  <2>2. b # 0 /\ b - 1 \in 0..Len(s) /\ b - 1 # Len(s) /\ b - 1 \notin Bad
    BY <1>1, <2>1
  <2>3. Good(b - 1) /\ b - 1 + 1 = b
    BY <2>1, <2>2
  <2>4. Good(b)
    BY <1>2, <2>2, <2>3
  <2> QED
    BY <2>1, <2>4
<1>4. Good(Len(s))
  BY <1>3
<1> QED
  BY <1>4 DEF Good

LEMMA KeptStep ==
    ASSUME NEW T, NEW s \in Seq(T), NEW S
    PROVE  /\ Kept(s, S) \in [0..Len(s) -> Seq(T)]
           /\ KeepsTo(Kept(s, S), s, S, Len(s))
           /\ Only(s, S) = Kept(s, S)[Len(s)]
<1> DEFINE Is(kept) == kept = [n \in 0..Len(s) |->
                           IF n = 0 THEN <<>>
                           ELSE IF s[n] \in S THEN Append(kept[n - 1], s[n]) ELSE kept[n - 1]]
<1>1. PICK kept \in [0..Len(s) -> Seq(T)] : KeepsTo(kept, s, S, Len(s))
  BY KeptExists
<1>2. ASSUME NEW n \in 0..Len(s)
      PROVE  kept[n] = IF n = 0 THEN <<>>
                       ELSE IF s[n] \in S THEN Append(kept[n - 1], s[n]) ELSE kept[n - 1]
  <2>1. CASE n = 0
    BY <1>1, <2>1 DEF KeepsTo
  <2>2. CASE n # 0
    <3>1. n \in 1..Len(s)
      BY <2>2
    <3> QED
      BY <1>1, <2>2, <3>1 DEF KeepsTo
  <2> QED
    BY <2>1, <2>2
<1>3. Is(kept)
  <2> DEFINE f == [n \in 0..Len(s) |->
                       IF n = 0 THEN <<>>
                       ELSE IF s[n] \in S THEN Append(kept[n - 1], s[n]) ELSE kept[n - 1]]
  <2>1. \A n \in 0..Len(s) : kept[n] = f[n]
    BY <1>2
  <2>2. kept = [n \in 0..Len(s) |-> kept[n]] /\ f = [n \in 0..Len(s) |-> f[n]]
    OBVIOUS
  <2> HIDE DEF f
  <2>3. kept = f
    BY <2>1, <2>2
  <2> QED
    BY <2>3 DEF f
<1>4. Is(Kept(s, S))
  BY <1>3, Zenon DEF Kept
<1>5. Only(s, S) = Kept(s, S)[Len(s)]
  BY Zenon DEF Only, Kept
<1> DEFINE K == Kept(s, S)
           f == [n \in 0..Len(s) |-> IF n = 0 THEN <<>>
                                    ELSE IF s[n] \in S THEN Append(K[n - 1], s[n]) ELSE K[n - 1]]
<1>6. K = f
  BY <1>4
<1> HIDE DEF K
<1>7. \A n \in 0..Len(s) : f[n] = IF n = 0 THEN <<>>
                                  ELSE IF s[n] \in S THEN Append(K[n - 1], s[n]) ELSE K[n - 1]
  OBVIOUS
<1>8. DOMAIN f = 0..Len(s) /\ f = [n \in 0..Len(s) |-> f[n]]
  OBVIOUS
<1> HIDE DEF f
<1>9. KeepsTo(K, s, S, Len(s))
  <2>1. 0 \in 0..Len(s)
    OBVIOUS
  <2>2. ASSUME NEW n \in 1..Len(s)
        PROVE  n \in 0..Len(s) /\ n # 0
    OBVIOUS
  <2> QED
    BY <1>6, <1>7, <2>1, <2>2 DEF KeepsTo
<1>10. \A n \in 0..Len(s) : K[n] \in Seq(T)
  <2> DEFINE Bad == {n \in 0..Len(s) : K[n] \notin Seq(T)}
  <2> SUFFICES ASSUME Bad # {}
               PROVE  FALSE
    OBVIOUS
  <2>1. PICK b \in Bad : \A c \in Bad : b <= c
    <3>1. Bad \subseteq Nat
      OBVIOUS
    <3> HIDE DEF Bad
    <3> QED
      BY <3>1, LeastElement
  <2>2. K[0] \in Seq(T)
    BY <1>9 DEF KeepsTo
  <2>3. b \in 1..Len(s) /\ b - 1 \notin Bad /\ s[b] \in T
    BY <2>1, <2>2
  <2>4. K[b - 1] \in Seq(T)
    BY <2>3
  <2>5. K[b] = IF s[b] \in S THEN Append(K[b - 1], s[b]) ELSE K[b - 1]
    BY <1>9, <2>3 DEF KeepsTo
  <2>6. Append(K[b - 1], s[b]) \in Seq(T)
    BY <2>3, <2>4
  <2>7. K[b] \in Seq(T)
    BY <2>4, <2>5, <2>6
  <2> QED
    BY <2>1, <2>7
<1>11. K \in [0..Len(s) -> Seq(T)]
  BY <1>6, <1>8, <1>10
<1> QED
  BY <1>5, <1>9, <1>11 DEF K

(* Where two sequences agree, so does what is selected of them. *)
LEMMA KeptPrefix ==
    ASSUME NEW T, NEW s \in Seq(T), NEW t \in Seq(T), NEW S,
           NEW m \in 0..Len(s), m <= Len(t), \A i \in 1..m : s[i] = t[i]
    PROVE  Kept(s, S)[m] = Kept(t, S)[m]
<1> DEFINE K == Kept(s, S)
           L == Kept(t, S)
           Bad == {n \in 0..m : K[n] # L[n]}
<1>1. KeepsTo(K, s, S, Len(s)) /\ KeepsTo(L, t, S, Len(t))
  BY KeptStep
<1> HIDE DEF K, L
<1>2. Bad = {}
  <2> SUFFICES ASSUME Bad # {}
               PROVE  FALSE
    OBVIOUS
  <2>1. PICK b \in Bad : \A c \in Bad : b <= c
    <3>1. Bad \subseteq Nat
      OBVIOUS
    <3> HIDE DEF Bad
    <3> QED
      BY <3>1, LeastElement
  <2>2. K[0] = L[0]
    BY <1>1 DEF KeepsTo
  <2>3. b \in 1..m /\ b - 1 \notin Bad
    BY <2>1, <2>2
  <2>4. K[b - 1] = L[b - 1] /\ b \in 1..Len(s) /\ b \in 1..Len(t) /\ s[b] = t[b]
    BY <2>3
  <2>5. K[b] = L[b]
    BY <1>1, <2>4 DEF KeepsTo
  <2> QED
    BY <2>1, <2>5
<1>3. m \in 0..m
  OBVIOUS
<1> QED
  BY <1>2, <1>3 DEF K, L

LEMMA OnlyType ==
    ASSUME NEW T, NEW s \in Seq(T), NEW S
    PROVE  Only(s, S) \in Seq(T)
<1>1. Len(s) \in 0..Len(s)
  OBVIOUS
<1> QED
  BY <1>1, KeptStep

(* An appended element is selected or not, and changes nothing else. *)
LEMMA OnlyAppend ==
    ASSUME NEW T, NEW s \in Seq(T), NEW e \in T, NEW S
    PROVE  Only(Append(s, e), S) = IF e \in S THEN Append(Only(s, S), e) ELSE Only(s, S)
<1> DEFINE t == Append(s, e)
<1>1. t \in Seq(T) /\ Len(t) = Len(s) + 1 /\ t[Len(t)] = e /\ \A i \in 1..Len(s) : s[i] = t[i]
  OBVIOUS
<1> HIDE DEF t
<1>2. Len(s) \in 0..Len(s) /\ Len(s) <= Len(t) /\ Len(t) \in 1..Len(t) /\ Len(t) - 1 = Len(s)
  BY <1>1
<1>3. Kept(s, S)[Len(s)] = Kept(t, S)[Len(s)]
  BY <1>1, <1>2, KeptPrefix
<1>4. KeepsTo(Kept(t, S), t, S, Len(t)) /\ Only(t, S) = Kept(t, S)[Len(t)]
  BY <1>1, KeptStep
<1>5. Only(s, S) = Kept(s, S)[Len(s)]
  BY KeptStep
<1>6. Only(t, S) = IF e \in S THEN Append(Only(s, S), e) ELSE Only(s, S)
  BY <1>1, <1>2, <1>3, <1>4, <1>5 DEF KeepsTo
<1> QED
  BY <1>6 DEF t

(* The last element, replaced by one that is not selected, is lost if it was. *)
LEMMA OnlyReplaced ==
    ASSUME NEW T, NEW s \in Seq(T), s # <<>>, NEW S,
           NEW t \in Seq(T), Len(t) = Len(s), t[Len(s)] \notin S,
           \A i \in 1..(Len(s) - 1) : t[i] = s[i]
    PROVE  /\ s[Len(s)] \notin S => Only(t, S) = Only(s, S)
           /\ s[Len(s)] \in S =>
                  /\ Len(Only(s, S)) \in Nat \ {0}
                  /\ Only(s, S)[Len(Only(s, S))] = s[Len(s)]
                  /\ Only(t, S) = SubSeq(Only(s, S), 1, Len(Only(s, S)) - 1)
<1> DEFINE n == Len(s) - 1
           a == Kept(s, S)[n]
<1>1. n \in 0..Len(s) /\ Len(s) \in 1..Len(s) /\ \A i \in 1..n : s[i] = t[i]
  OBVIOUS
<1>2. Kept(s, S)[n] = Kept(t, S)[n]
  <2>1. n <= Len(t)
    BY <1>1
  <2> HIDE DEF n
  <2> QED
    BY <1>1, <2>1, KeptPrefix
<1>3. a \in Seq(T)
  BY <1>1, KeptStep
<1>4. Only(t, S) = a
  <2>1. KeepsTo(Kept(t, S), t, S, Len(t)) /\ Only(t, S) = Kept(t, S)[Len(t)]
    BY <1>1, KeptStep
  <2> QED
    BY <1>1, <1>2, <2>1 DEF KeepsTo
<1>5. Only(s, S) = IF s[Len(s)] \in S THEN Append(a, s[Len(s)]) ELSE a
  <2>1. KeepsTo(Kept(s, S), s, S, Len(s)) /\ Only(s, S) = Kept(s, S)[Len(s)]
    BY KeptStep
  <2> QED
    BY <1>1, <2>1 DEF KeepsTo
<1> HIDE DEF a
<1>6. CASE s[Len(s)] \in S
  <2> DEFINE last == s[Len(s)]
  <2>1. last \in T
    BY <1>1
  <2> HIDE DEF last
  <2>2. /\ Len(Append(a, last)) = Len(a) + 1
        /\ Append(a, last)[Len(a) + 1] = last
        /\ Len(a) \in Nat
    BY <1>3, <2>1
  <2>3. SubSeq(Append(a, last), 1, Len(a)) = a
    BY <1>3, <2>1
  <2>4. Only(s, S) = Append(a, last)
    BY <1>5, <1>6 DEF last
  <2>5. Only(t, S) = SubSeq(Only(s, S), 1, Len(Only(s, S)) - 1)
    BY <1>4, <2>2, <2>3, <2>4
  <2>6. Len(Only(s, S)) \in Nat \ {0} /\ Only(s, S)[Len(Only(s, S))] = last
    BY <2>2, <2>4
  <2> QED
    BY <1>6, <2>5, <2>6 DEF last
<1>7. CASE s[Len(s)] \notin S
  BY <1>4, <1>5, <1>7
<1> QED
  BY <1>6, <1>7

(* The elements of r are those of the first m of s that are in S, pos tells    *)
(* where each comes from, and their order is kept.                             *)
Selects(pos, r, s, S, m) ==
    /\ pos \in [1..Len(r) -> 1..m]
    /\ \A k \in 1..Len(r) : r[k] = s[pos[k]] /\ s[pos[k]] \in S
    /\ \A k, l \in 1..Len(r) : k < l => pos[k] < pos[l]
    /\ \A i \in 1..m : s[i] \in S => \E k \in 1..Len(r) : pos[k] = i

LEMMA OnlyShape ==
    ASSUME NEW T, NEW s \in Seq(T), NEW S
    PROVE  \E pos : Selects(pos, Only(s, S), s, S, Len(s))
<1> DEFINE K == Kept(s, S)
           Good(n) == \E pos : Selects(pos, K[n], s, S, n)
           Bad == {n \in 0..Len(s) : ~Good(n)}
<1>1. K \in [0..Len(s) -> Seq(T)] /\ KeepsTo(K, s, S, Len(s)) /\ Only(s, S) = K[Len(s)]
  BY KeptStep
<1> HIDE DEF K
<1>2. Good(0)
  <2>1. K[0] = <<>>
    BY <1>1 DEF KeepsTo
  <2>2. Selects(<<>>, <<>>, s, S, 0)
    BY DEF Selects
  <2> QED
    BY <2>1, <2>2
<1>3. ASSUME NEW n \in 1..Len(s), Good(n - 1)
      PROVE  Good(n)
  <2>1. PICK pos : Selects(pos, K[n - 1], s, S, n - 1)
    BY <1>3
  <2> DEFINE r == K[n - 1]
  <2>2. r \in Seq(T) /\ s[n] \in T
    BY <1>1
  <2>3. K[n] = IF s[n] \in S THEN Append(r, s[n]) ELSE r
    BY <1>1 DEF KeepsTo
  <2> HIDE DEF r
  <2>4. CASE s[n] \notin S
    <3>1. Selects(pos, r, s, S, n)
      <4>1. pos \in [1..Len(r) -> 1..n]
        BY <2>1 DEF Selects, r
      <4>2. \A i \in 1..n : s[i] \in S => i \in 1..(n - 1)
        BY <2>4
      <4> QED
        BY <2>1, <4>1, <4>2 DEF Selects, r
    <3> QED
      BY <2>3, <2>4, <3>1
  <2>5. CASE s[n] \in S
    <3> DEFINE new == Append(r, s[n])
               npos == [k \in 1..(Len(r) + 1) |-> IF k <= Len(r) THEN pos[k] ELSE n]
    <3>1. /\ Len(new) = Len(r) + 1 /\ new[Len(r) + 1] = s[n]
          /\ \A k \in 1..Len(r) : new[k] = r[k]
          /\ Len(r) \in Nat
      BY <2>2
    <3>2. /\ pos \in [1..Len(r) -> 1..(n - 1)]
          /\ \A k \in 1..Len(r) : r[k] = s[pos[k]] /\ s[pos[k]] \in S
          /\ \A k, l \in 1..Len(r) : k < l => pos[k] < pos[l]
          /\ \A i \in 1..(n - 1) : s[i] \in S => \E k \in 1..Len(r) : pos[k] = i
      BY <2>1 DEF Selects, r
    <3>3. /\ npos \in [1..(Len(r) + 1) -> 1..n]
          /\ npos[Len(r) + 1] = n
          /\ \A k \in 1..Len(r) : npos[k] = pos[k] /\ npos[k] \in 1..(n - 1)
      BY <3>1, <3>2
    <3> HIDE DEF new, npos
    <3>4. ASSUME NEW k \in 1..(Len(r) + 1)
          PROVE  new[k] = s[npos[k]] /\ s[npos[k]] \in S
      <4>1. CASE k = Len(r) + 1
        BY <2>5, <3>1, <3>3, <4>1
      <4>2. CASE k # Len(r) + 1
        <5>1. k \in 1..Len(r)
          BY <3>1, <4>2
        <5> QED
          BY <3>1, <3>2, <3>3, <5>1
      <4> QED
        BY <4>1, <4>2
    <3>5. ASSUME NEW k \in 1..(Len(r) + 1), NEW l \in 1..(Len(r) + 1), k < l
          PROVE  npos[k] < npos[l]
      <4>1. k \in 1..Len(r)
        BY <3>1, <3>5
      <4>2. CASE l = Len(r) + 1
        BY <3>3, <4>1, <4>2
      <4>3. CASE l # Len(r) + 1
        <5>1. l \in 1..Len(r)
          BY <3>1, <4>3
        <5> QED
          BY <3>2, <3>3, <3>5, <4>1, <5>1
      <4> QED
        BY <4>2, <4>3
    <3>6. ASSUME NEW i \in 1..n, s[i] \in S
          PROVE  \E k \in 1..(Len(r) + 1) : npos[k] = i
      <4>1. CASE i = n
        <5>1. Len(r) + 1 \in 1..(Len(r) + 1)
          BY <3>1
        <5> QED
          BY <3>3, <4>1, <5>1
      <4>2. CASE i # n
        <5>1. PICK k \in 1..Len(r) : pos[k] = i
          BY <3>2, <3>6, <4>2
        <5>2. k \in 1..(Len(r) + 1)
          BY <3>1
        <5> QED
          BY <3>3, <5>1, <5>2
      <4> QED
        BY <4>1, <4>2
    <3>7. Selects(npos, new, s, S, n)
      BY <3>1, <3>3, <3>4, <3>5, <3>6 DEF Selects
    <3> QED
      BY <2>3, <2>5, <3>7 DEF new
  <2> QED
    BY <2>4, <2>5
<1> HIDE DEF Good
<1>4. Bad = {}
  <2> SUFFICES ASSUME Bad # {}
               PROVE  FALSE
    OBVIOUS
  <2>1. PICK b \in Bad : \A c \in Bad : b <= c
    <3>1. Bad \subseteq Nat
      OBVIOUS
    <3> HIDE DEF Bad
    <3> QED
      BY <3>1, LeastElement
  <2>2. b \in 1..Len(s) /\ b - 1 \in 0..Len(s) /\ b - 1 \notin Bad
    BY <1>2, <2>1
  <2>3. Good(b)
    BY <1>3, <2>2
  <2> QED
    BY <2>1, <2>3
<1>5. Good(Len(s))
  BY <1>4
<1> QED
  BY <1>1, <1>5 DEF Good

LEMMA ShorterLength ==
    ASSUME NEW T, NEW s \in Seq(T), s # <<>>
    PROVE  Len(SubSeq(s, 1, Len(s) - 1)) = Len(s) - 1
<1>1. PICK n \in Nat : n = Len(s) - 1
  OBVIOUS
<1>2. \A i \in 1..n : s[i] \in T
  BY <1>1
<1>3. Len(SubSeq(s, 1, n)) = n
  BY <1>2, SubSeqProperties
<1> QED
  BY <1>1, <1>3

-----------------------------------------------------------------------------
(* The order of the rows. *)

(* Rows go from the queue over the writer's hands to the file in the order of  *)
(* their calls, and none is in two places.                                     *)
LogOrder ==
    /\ \A i, j \in DOMAIN lines :
           i < j /\ lines[i] \in Entry /\ lines[j] \in Entry => lines[i].id < lines[j].id
    /\ \A i \in DOMAIN lines : lines[i] \in Entry =>
           /\ lines[i].id <= calls
           /\ writing # NoEntry => lines[i].id < writing.id
           /\ \A k \in DOMAIN logChan : lines[i].id < logChan[k].id
    /\ writing # NoEntry => /\ writing.id <= calls
                            /\ \A k \in DOMAIN logChan : writing.id < logChan[k].id
    /\ \A k, l \in DOMAIN logChan : k < l => logChan[k].id < logChan[l].id
    /\ \A k \in DOMAIN logChan : logChan[k].id <= calls

LogInv == LogTypeOK /\ LogShape /\ LogOrder

(* What the composition does to the log is one of the log's own actions. *)
LEMMA LogActions ==
    ASSUME SessionsInv, [Next]_vars
    PROVE  \/ \E user \in Users, status \in StatusCodes : Log(user, status)
           \/ Writer
           \/ LogRestart
           \/ UNCHANGED logVars
<1>1. ASSUME NEW c \in Clients, EndCall(c)
      PROVE  \/ \E user \in Users, status \in StatusCodes : Log(user, status)
             \/ UNCHANGED logVars
  <2>1. Username[caller[c]] \in Users
    BY <1>1, BackofficeAssumption DEF EndCall, SessionsInv, AuthTypeOK
  <2> QED
    BY <1>1, <2>1 DEF EndCall
<1>2. ASSUME NEW a \in Admins, Logs(a)
      PROVE  UNCHANGED logVars
  BY <1>2 DEF Logs
<1>3. CASE Restart
  BY <1>3 DEF Restart
<1>4. CASE UNCHANGED vars
  BY <1>4 DEF vars
<1> QED
  BY <1>1, <1>2, <1>3, <1>4 DEF Next

(* The writer takes its row to the file, whole or not, or gives it up. *)
LEMMA WriterActions ==
    ASSUME LogTypeOK, Writer
    PROVE  \/ TakeEntry
           \/ WriteFails
           \/ \E line \in {writing, Torn}, whole \in BOOLEAN :
                 /\ Put(line, whole)
                 /\ cut' = IF whole THEN cut ELSE cut + 1
                 /\ whole => line = writing
  BY DEF Writer, WriteWhole, WriteCut

(* What a write makes of the lines. *)
LEMMA PutShape ==
    ASSUME LogTypeOK, LogShape, NEW line \in {writing, Torn}, NEW whole \in BOOLEAN,
           Put(line, whole)
    PROVE  /\ writing \in Entry /\ line \in Entry \cup {Torn}
           /\ terminated =>
                  /\ lines' = Append(lines, line)
                  /\ DOMAIN lines' = 1..(Len(lines) + 1) /\ Len(lines') = Len(lines) + 1
                  /\ lines'[Len(lines) + 1] = line
                  /\ \A i \in 1..Len(lines) : lines'[i] = lines[i]
           /\ ~terminated =>
                  /\ lines' = [lines EXCEPT ![Len(lines)] = Torn] /\ lines # <<>>
                  /\ Len(lines) \in 1..Len(lines)
                  /\ DOMAIN lines' = 1..Len(lines) /\ Len(lines') = Len(lines)
                  /\ lines'[Len(lines)] = Torn
                  /\ \A i \in 1..(Len(lines) - 1) : lines'[i] = lines[i]
           /\ DOMAIN lines = 1..Len(lines) /\ Len(lines) \in Nat
<1>1. writing \in Entry /\ line \in Entry \cup {Torn}
  BY DEF Put, LogTypeOK
<1>2. lines \in Seq(Entry \cup {Torn})
  BY DEF LogTypeOK
<1>3. CASE terminated
  <2>1. lines' = Append(lines, line)
    BY <1>3 DEF Put, Appended
  <2> QED
    BY <1>1, <1>2, <1>3, <2>1
<1>4. CASE ~terminated
  <2>1. lines' = [lines EXCEPT ![Len(lines)] = Torn] /\ lines # <<>>
    BY <1>4 DEF Put, Appended, LogShape
  <2> QED
    BY <1>1, <1>2, <1>4, <2>1
<1> QED
  BY <1>3, <1>4 DEF LogTypeOK

LEMMA OrderStep ==
    ASSUME SessionsInv, LogInv, [Next]_vars
    PROVE  LogOrder'
<1>0. /\ calls \in Nat /\ DOMAIN logChan = 1..Len(logChan) /\ Len(logChan) \in Nat
      /\ \A k \in DOMAIN logChan : logChan[k].id \in Nat
      /\ writing # NoEntry => writing.id \in Nat
      /\ \A i \in DOMAIN lines : lines[i] \in Entry => lines[i].id \in Nat
  <2>1. \A e \in Entry : e.id \in Nat
    BY DEF Entry
  <2> QED
    BY <2>1 DEF LogInv, LogTypeOK
<1> USE DEF LogInv, LogOrder
<1>1. ASSUME NEW user \in Users, NEW status \in StatusCodes, Log(user, status)
      PROVE  LogOrder'
  <2>1. CASE Len(logChan) < QueueSize
    <3> DEFINE new == [id |-> calls', user |-> user, status |-> status]
    <3>1. new.id = calls + 1 /\ calls' = calls + 1 /\ calls \in Nat
      BY <1>1 DEF Log, LogTypeOK
    <3>2. logChan' = Append(logChan, new) /\ UNCHANGED <<writing, lines>>
      BY <1>1, <2>1 DEF Log
    <3> HIDE DEF new
    <3>3. /\ DOMAIN logChan = 1..Len(logChan) /\ Len(logChan) \in Nat
          /\ DOMAIN logChan' = 1..(Len(logChan) + 1)
          /\ logChan'[Len(logChan) + 1] = new
          /\ \A k \in 1..Len(logChan) : logChan'[k] = logChan[k]
      BY <3>2 DEF LogTypeOK
    <3> QED
      BY <1>0, <3>1, <3>2, <3>3
  <2>2. CASE ~(Len(logChan) < QueueSize)
    <3>1. UNCHANGED <<logChan, writing, lines>> /\ calls' = calls + 1 /\ calls \in Nat
      BY <1>1, <2>2 DEF Log, LogTypeOK
    <3> QED
      BY <1>0, <3>1
  <2> QED
    BY <2>1, <2>2
<1>2. CASE TakeEntry
  <2>1. logChan \in Seq(Entry) /\ logChan # <<>>
    BY <1>2 DEF TakeEntry, LogTypeOK
  <2>2. /\ writing' = logChan[1] /\ UNCHANGED <<lines, calls>> /\ 1 \in DOMAIN logChan
        /\ DOMAIN logChan' = 1..(Len(logChan) - 1)
        /\ \A k \in 1..(Len(logChan) - 1) : k + 1 \in DOMAIN logChan /\ logChan'[k] = logChan[k + 1]
    BY <1>2, <2>1 DEF TakeEntry
  <2>3. writing' # NoEntry => writing'.id = logChan[1].id
    BY <2>2
  <2>4. \A k \in DOMAIN logChan' : k + 1 \in DOMAIN logChan /\ 1 < k + 1
    BY <1>0, <2>2
  <2> QED
    BY <1>0, <2>2, <2>3, <2>4
<1>3. CASE WriteFails
  BY <1>3 DEF WriteFails
<1>4. ASSUME NEW line \in {writing, Torn}, NEW whole \in BOOLEAN, Put(line, whole)
      PROVE  LogOrder'
  <2>1. writing # NoEntry /\ writing' = NoEntry /\ UNCHANGED <<logChan, calls>>
    BY <1>4 DEF Put
  <2>2. Torn \notin Entry
    BY LogAssumption
  <2>3. CASE terminated
    <3>1. /\ DOMAIN lines' = 1..(Len(lines) + 1)
          /\ lines'[Len(lines) + 1] = line
          /\ \A i \in 1..Len(lines) : lines'[i] = lines[i]
          /\ DOMAIN lines = 1..Len(lines) /\ Len(lines) \in Nat
      BY <1>4, <2>3, PutShape
    <3>2. ASSUME NEW i \in DOMAIN lines', lines'[i] \in Entry
          PROVE  \/ i \in DOMAIN lines /\ lines'[i] = lines[i]
                 \/ i = Len(lines) + 1 /\ lines'[i] = writing
      BY <2>2, <3>1, <3>2
    <3> QED
      BY <2>1, <3>1, <3>2
  <2>4. CASE ~terminated
    <3>1. /\ DOMAIN lines' = DOMAIN lines
          /\ \A i \in DOMAIN lines' : lines'[i] = Torn \/ lines'[i] = lines[i]
      BY <1>4, <2>4, PutShape
    <3> QED
      BY <2>1, <2>2, <3>1
  <2> QED
    BY <2>3, <2>4
<1>5. CASE LogRestart
  BY <1>5 DEF LogRestart
<1>6. CASE UNCHANGED logVars
  BY <1>6 DEF logVars
<1> QED
  BY <1>1, <1>2, <1>3, <1>4, <1>5, <1>6, LogActions, WriterActions

LEMMA LogInvariant == Spec => [](SessionsInv /\ LogInv)
<1>1. Init => LogInv
  BY LogAssumption DEF Init, LogInit, LogInv, LogTypeOK, LogShape, LogOrder
<1>2. SessionsInv /\ LogInv /\ [Next]_vars => LogInv'
  BY LogStep, OrderStep DEF LogInv
<1> QED
  BY SessionsInvariant, <1>1, <1>2, PTL DEF Spec

-----------------------------------------------------------------------------
(* The rows that can be read. *)

LEMMA RowsShape ==
    ASSUME LogInv
    PROVE  /\ Rows \in Seq(Entry)
           /\ \A i, j \in DOMAIN Rows : i < j => Rows[i].id < Rows[j].id
           /\ \A i \in DOMAIN Rows : \E n \in DOMAIN lines : lines[n] = Rows[i]
           /\ \A n \in DOMAIN lines : lines[n] \in Entry => \E i \in DOMAIN Rows : Rows[i] = lines[n]
<1> DEFINE r == Rows
<1>1. lines \in Seq(Entry \cup {Torn})
  BY DEF LogInv, LogTypeOK
<1>2. r \in Seq(Entry \cup {Torn})
  BY <1>1, OnlyType DEF Rows
<1>3. PICK pos : Selects(pos, r, lines, Entry, Len(lines))
  BY <1>1, OnlyShape DEF Rows
<1> HIDE DEF r
<1>4. /\ DOMAIN r = 1..Len(r) /\ Len(r) \in Nat
      /\ DOMAIN lines = 1..Len(lines) /\ Len(lines) \in Nat
  BY <1>1, <1>2
<1>5. /\ pos \in [1..Len(r) -> 1..Len(lines)]
      /\ \A k \in 1..Len(r) : r[k] = lines[pos[k]] /\ lines[pos[k]] \in Entry
      /\ \A k, l \in 1..Len(r) : k < l => pos[k] < pos[l]
      /\ \A i \in 1..Len(lines) : lines[i] \in Entry => \E k \in 1..Len(r) : pos[k] = i
  BY <1>3 DEF Selects
<1>6. r \in Seq(Entry)
  <2>1. \A k \in 1..Len(r) : r[k] \in Entry
    BY <1>5
  <2> QED
    BY <1>2, <2>1
<1>7. \A i, j \in DOMAIN r : i < j => r[i].id < r[j].id
  BY <1>4, <1>5 DEF LogInv, LogOrder
<1>8. \A i \in DOMAIN r : \E n \in DOMAIN lines : lines[n] = r[i]
  BY <1>4, <1>5
<1>9. ASSUME NEW n \in DOMAIN lines, lines[n] \in Entry
      PROVE  \E i \in DOMAIN r : r[i] = lines[n]
  BY <1>4, <1>5, <1>9
<1> QED
  BY <1>6, <1>7, <1>8, <1>9 DEF r

(* What a write makes of the rows. *)
LEMMA RowsAfterPut ==
    ASSUME LogTypeOK, LogShape, NEW line \in {writing, Torn}, NEW whole \in BOOLEAN,
           Put(line, whole)
    PROVE  /\ terminated => Rows' = IF line = Torn THEN Rows ELSE Append(Rows, line)
           /\ ~terminated /\ lines[Len(lines)] = Torn => Rows' = Rows
           /\ ~terminated /\ lines[Len(lines)] # Torn =>
                  /\ Len(Rows) \in Nat \ {0}
                  /\ Rows' = SubSeq(Rows, 1, Len(Rows) - 1)
<1>1. lines \in Seq(Entry \cup {Torn}) /\ Torn \notin Entry /\ Torn \in Entry \cup {Torn}
  BY LogAssumption DEF LogTypeOK
<1>2. line \in Entry \cup {Torn}
  BY PutShape
<1>3. Rows' = Only(lines', Entry)
  BY DEF Rows
<1>4. CASE terminated
  <2>1. lines' = Append(lines, line)
    BY <1>4, PutShape
  <2>2. Only(Append(lines, line), Entry) = IF line \in Entry THEN Append(Rows, line) ELSE Rows
    BY <1>1, <1>2, OnlyAppend DEF Rows
  <2> QED
    BY <1>1, <1>2, <1>3, <1>4, <2>1, <2>2
<1>5. CASE ~terminated
  <2>1. lines' = [lines EXCEPT ![Len(lines)] = Torn] /\ lines # <<>> /\ Len(lines) \in 1..Len(lines)
    BY <1>5, PutShape
  <2>2. lines[Len(lines)] \in Entry \cup {Torn} /\ Rows = Only(lines, Entry)
    BY <1>1, <2>1 DEF Rows
  <2> DEFINE T == Entry \cup {Torn}
             t == lines'
  <2>3. lines \in Seq(T) /\ t \in Seq(T)
    BY <1>1, <2>1
  <2>4. /\ Len(t) = Len(lines) /\ t[Len(lines)] \notin Entry
        /\ \A i \in 1..(Len(lines) - 1) : t[i] = lines[i]
    BY <1>1, <1>5, PutShape
  <2> HIDE DEF T, t
  <2>5. /\ lines[Len(lines)] \notin Entry => Only(t, Entry) = Rows
        /\ lines[Len(lines)] \in Entry =>
               /\ Len(Rows) \in Nat \ {0}
               /\ Only(t, Entry) = SubSeq(Rows, 1, Len(Rows) - 1)
    BY <2>1, <2>2, <2>3, <2>4, OnlyReplaced
  <2> QED
    BY <1>1, <1>3, <1>5, <2>2, <2>5 DEF t
<1> QED
  BY <1>4, <1>5

-----------------------------------------------------------------------------
(* What broken writes can cost. *)

(* A line without its newline has been paid for: its own row is lost with the  *)
(* next write, if it is not torn already, and so is the row that comes next.   *)
DamageInv ==
    settled + (IF terminated THEN 0 ELSE IF lines[Len(lines)] = Torn THEN 1 ELSE 2)
        <= Len(Rows) + failed + 2 * cut

LEMMA DamageStep ==
    ASSUME SessionsInv, LogInv, DamageInv, [Next]_vars
    PROVE  DamageInv'
<1>1. /\ settled \in Nat /\ failed \in Nat /\ cut \in Nat
      /\ Rows \in Seq(Entry) /\ Len(Rows) \in Nat
  BY RowsShape DEF LogInv, LogTypeOK
<1>2. ASSUME NEW user \in Users, NEW status \in StatusCodes, Log(user, status)
      PROVE  DamageInv'
  BY <1>2 DEF Log, DamageInv, Rows
<1>3. CASE TakeEntry
  BY <1>3 DEF TakeEntry, DamageInv, Rows
<1>4. CASE WriteFails
  <2>1. Rows' = Rows /\ UNCHANGED <<lines, terminated, cut>>
        /\ settled' = settled + 1 /\ failed' = failed + 1
    BY <1>4 DEF WriteFails, Rows
  <2> QED
    BY <1>1, <2>1 DEF DamageInv
<1>5. ASSUME NEW line \in {writing, Torn}, NEW whole \in BOOLEAN, Put(line, whole),
             cut' = IF whole THEN cut ELSE cut + 1, whole => line = writing
      PROVE  DamageInv'
  <2>1. settled' = settled + 1 /\ terminated' = whole /\ UNCHANGED failed
    BY <1>5 DEF Put
  <2>2. writing # Torn
    BY <1>5, LogAssumption DEF Put, LogInv, LogTypeOK
  <2>3. CASE terminated
    <3>1. /\ Rows' = IF line = Torn THEN Rows ELSE Append(Rows, line)
          /\ lines'[Len(lines')] = line
      BY <1>5, <2>3, RowsAfterPut, PutShape DEF LogInv
    <3>2. line # Torn => Len(Append(Rows, line)) = Len(Rows) + 1
      BY <1>1
    <3>3. Len(Rows') = Len(Rows) + IF line = Torn THEN 0 ELSE 1
      BY <1>1, <3>1, <3>2
    <3>4. settled <= Len(Rows) + failed + 2 * cut
      BY <1>1, <2>3 DEF DamageInv
    <3>5. CASE whole
      <4>1. Len(Rows') = Len(Rows) + 1 /\ cut' = cut /\ terminated'
        BY <1>5, <2>1, <2>2, <3>3, <3>5
      <4> QED
        BY <1>1, <2>1, <3>4, <4>1 DEF DamageInv
    <3>6. CASE ~whole
      <4>1. cut' = cut + 1 /\ ~terminated' /\ lines'[Len(lines')] = line
        BY <1>5, <2>1, <3>1, <3>6
      <4>2. 2 * cut' = 2 * cut + 2 /\ settled' = settled + 1 /\ failed' = failed
        BY <1>1, <2>1, <4>1
      <4>3. CASE line = Torn
        <5>1. Len(Rows') = Len(Rows)
          BY <1>1, <3>3, <4>3
        <5>2. settled' + 1 <= Len(Rows') + failed' + 2 * cut'
          BY <1>1, <3>4, <4>2, <5>1
        <5> QED
          BY <4>1, <4>3, <5>2 DEF DamageInv
      <4>4. CASE line # Torn
        <5>1. Len(Rows') = Len(Rows) + 1
          BY <1>1, <3>3, <4>4
        <5>2. settled' + 2 <= Len(Rows') + failed' + 2 * cut'
          BY <1>1, <3>4, <4>2, <5>1
        <5> QED
          BY <4>1, <4>4, <5>2 DEF DamageInv
      <4> QED
        BY <4>3, <4>4
    <3> QED
      BY <3>5, <3>6
  <2>4. CASE ~terminated
    <3>1. /\ lines[Len(lines)] = Torn => Rows' = Rows
          /\ lines[Len(lines)] # Torn =>
                 Len(Rows) \in Nat \ {0} /\ Rows' = SubSeq(Rows, 1, Len(Rows) - 1)
          /\ lines'[Len(lines')] = Torn
      BY <1>5, <2>4, RowsAfterPut, PutShape DEF LogInv
    <3>2. Len(Rows) # 0 => Len(SubSeq(Rows, 1, Len(Rows) - 1)) = Len(Rows) - 1
      BY <1>1, ShorterLength
    <3>3. Len(Rows') = Len(Rows) - IF lines[Len(lines)] = Torn THEN 0 ELSE 1
      BY <1>1, <3>1, <3>2
    <3> QED
      BY <1>1, <1>5, <2>1, <2>4, <3>1, <3>3 DEF DamageInv
  <2> QED
    BY <2>3, <2>4
<1>6. CASE LogRestart
  BY <1>6 DEF LogRestart, DamageInv, Rows
<1>7. CASE UNCHANGED logVars
  BY <1>7 DEF logVars, DamageInv, Rows
<1> QED
  BY <1>2, <1>3, <1>4, <1>5, <1>6, <1>7, LogActions, WriterActions DEF LogInv

(* Whatever the number of faults, a failed write costs one row at most, and a  *)
(* cut one two.                                                                *)
THEOREM DamageIsBounded == Spec => []DamageBounded
<1>1. Init => DamageInv
  <2> SUFFICES ASSUME Init
               PROVE  DamageInv
    OBVIOUS
  <2>1. lines = <<>> /\ terminated /\ settled = 0 /\ failed = 0 /\ cut = 0
    BY DEF Init, LogInit
  <2>2. Len(Rows) \in Nat
    BY <2>1, OnlyType DEF Rows
  <2> QED
    BY <2>1, <2>2 DEF DamageInv
<1>2. SessionsInv /\ LogInv /\ DamageInv /\ [Next]_vars => DamageInv'
  BY DamageStep
<1>3. LogInv /\ DamageInv => DamageBounded
  <2> SUFFICES ASSUME LogInv, DamageInv
               PROVE  DamageBounded
    OBVIOUS
  <2>1. settled \in Nat /\ failed \in Nat /\ cut \in Nat /\ Len(Rows) \in Nat
    BY RowsShape DEF LogInv, LogTypeOK
  <2> QED
    BY <2>1 DEF DamageInv, DamageBounded
<1> QED
  BY LogInvariant, <1>1, <1>2, <1>3, PTL DEF Spec

-----------------------------------------------------------------------------
(* The log implements RowLog. *)

LEMMA RowLogStep ==
    ASSUME SessionsInv, LogInv, [Next]_vars
    PROVE  [Readable!Add \/ Readable!LoseNewest]_<<Rows, ~terminated /\ lines[Len(lines)] # Torn>>
<1> DEFINE fragile == ~terminated /\ lines[Len(lines)] # Torn
<1>1. ASSUME NEW line \in {writing, Torn}, NEW whole \in BOOLEAN, Put(line, whole),
             whole => line = writing
      PROVE  Readable!Add \/ Readable!LoseNewest \/ (Rows' = Rows /\ fragile' = fragile)
  <2>1. writing \in Entry /\ line \in Entry \cup {Torn} /\ Torn \notin Entry /\ terminated' = whole
    BY <1>1, PutShape, LogAssumption DEF LogInv, Put
  <2>2. CASE terminated
    <3>1. /\ Rows' = IF line = Torn THEN Rows ELSE Append(Rows, line)
          /\ lines'[Len(lines')] = line /\ ~fragile /\ fragile' \in BOOLEAN
      BY <1>1, <2>2, RowsAfterPut, PutShape DEF LogInv
    <3>2. CASE line = Torn
      BY <2>1, <3>1, <3>2
    <3>3. CASE line # Torn
      <4>1. line = writing /\ line \in Entry
        BY <2>1, <3>3
      <4>2. ASSUME NEW i \in DOMAIN Rows
            PROVE  Rows[i].id < line.id
        <5>1. PICK n \in DOMAIN lines : lines[n] = Rows[i]
          BY RowsShape
        <5>2. Rows[i] \in Entry
          BY RowsShape
        <5> QED
          BY <1>1, <4>1, <5>1, <5>2 DEF Put, LogInv, LogOrder
      <4>3. Readable!Newer(line)
        BY <4>2 DEF Readable!Newer
      <4> QED
        BY <3>1, <3>3, <4>1, <4>3 DEF Readable!Add
    <3> QED
      BY <3>2, <3>3
  <2>3. CASE ~terminated
    <3>1. /\ lines[Len(lines)] = Torn => Rows' = Rows
          /\ lines[Len(lines)] # Torn => Rows' = SubSeq(Rows, 1, Len(Rows) - 1)
          /\ lines'[Len(lines')] = Torn
      BY <1>1, <2>3, RowsAfterPut, PutShape DEF LogInv
    <3> QED
      BY <2>3, <3>1 DEF Readable!LoseNewest
  <2> QED
    BY <2>2, <2>3
<1>2. CASE UNCHANGED <<lines, terminated>>
  BY <1>2 DEF Rows
<1>3. ASSUME NEW user \in Users, NEW status \in StatusCodes, Log(user, status)
      PROVE  UNCHANGED <<lines, terminated>>
  BY <1>3 DEF Log
<1>4. TakeEntry \/ WriteFails \/ LogRestart \/ UNCHANGED logVars => UNCHANGED <<lines, terminated>>
  BY DEF TakeEntry, WriteFails, LogRestart, logVars
<1> QED
  BY <1>1, <1>2, <1>3, <1>4, LogActions, WriterActions DEF LogInv

(* To its readers the file is a log that grows by newer rows and can lose only *)
(* a newest row that lacks its newline.                                        *)
THEOREM LogIsRowLog == Spec => ImplementsRowLog
<1>1. Init => Rows = <<>> /\ (~terminated /\ lines[Len(lines)] # Torn) = FALSE
  <2> SUFFICES ASSUME Init
               PROVE  Rows = <<>> /\ terminated
    OBVIOUS
  <2>1. lines = <<>> /\ lines \in Seq({}) /\ Len(lines) = 0 /\ terminated
    BY DEF Init, LogInit
  <2>2. Only(lines, Entry) = Kept(lines, Entry)[0] /\ KeepsTo(Kept(lines, Entry), lines, Entry, 0)
    BY <2>1, KeptStep
  <2> QED
    BY <2>1, <2>2 DEF Rows, KeepsTo
<1>2. SessionsInv /\ LogInv /\ [Next]_vars =>
          [Readable!Add \/ Readable!LoseNewest]_<<Rows, ~terminated /\ lines[Len(lines)] # Torn>>
  BY RowLogStep
<1> QED
  BY LogInvariant, <1>1, <1>2, PTL DEF Spec, ImplementsRowLog, Readable!RowLogSpec

-----------------------------------------------------------------------------
(* What a query shows. *)

(* The matching rows among the first n lines. *)
Matches(filter, n) == {row \in Entry : rowMatches(row, filter) /\ \E i \in 1..n : lines[i] = row}

(* They are in the order of the calls, and all of them are there. *)
LEMMA MatchesShape ==
    ASSUME LogInv, NEW filter, NEW n \in 0..Len(lines)
    PROVE  LET matches == Only(SubSeq(lines, 1, n), Matching(filter))
           IN  /\ matches \in Seq(Entry)
               /\ \A i, j \in DOMAIN matches : i < j => matches[i].id < matches[j].id
               /\ {matches[i] : i \in DOMAIN matches} = Matches(filter, n)
               /\ \A i \in DOMAIN matches : i # Len(matches) =>
                      \E k \in DOMAIN lines : lines[k] = matches[i] /\ k # Len(lines)
<1> DEFINE S == Matching(filter)
           part == SubSeq(lines, 1, n)
           m == Only(part, S)
<1>1. /\ lines \in Seq(Entry \cup {Torn})
      /\ DOMAIN lines = 1..Len(lines) /\ Len(lines) \in Nat
  BY DEF LogInv, LogTypeOK
<1>2. \A row : row \in S <=> row \in Entry /\ rowMatches(row, filter)
  BY DEF Matching
<1> HIDE DEF S
<1>3. /\ part \in Seq(Entry \cup {Torn}) /\ Len(part) = n
      /\ \A i \in 1..n : i \in DOMAIN lines /\ part[i] = lines[i]
  <2>1. \A i \in 1..n : lines[i] \in Entry \cup {Torn}
    BY <1>1
  <2>2. 1 \in Int /\ n \in Int /\ (IF 1 <= n THEN n - 1 + 1 ELSE 0) = n
    BY <1>1
  <2>3. /\ part \in Seq(Entry \cup {Torn})
        /\ Len(part) = IF 1 <= n THEN n - 1 + 1 ELSE 0
        /\ \A i \in 1..(n - 1 + 1) : part[i] = lines[1 + i - 1]
    BY <1>1, <2>1, <2>2, SubSeqProperties
  <2> QED
    BY <1>1, <2>2, <2>3
<1> HIDE DEF part
<1>4. m \in Seq(Entry \cup {Torn})
  BY <1>3, OnlyType
<1>5. PICK pos : Selects(pos, m, part, S, n)
  BY <1>3, OnlyShape
<1> HIDE DEF m
<1>6. DOMAIN m = 1..Len(m) /\ Len(m) \in Nat
  BY <1>4
<1>7. /\ pos \in [1..Len(m) -> 1..n]
      /\ \A k \in 1..Len(m) : m[k] = lines[pos[k]] /\ lines[pos[k]] \in S
      /\ \A k, l \in 1..Len(m) : k < l => pos[k] < pos[l]
      /\ \A i \in 1..n : lines[i] \in S => \E k \in 1..Len(m) : pos[k] = i
  BY <1>3, <1>5 DEF Selects
<1>8. m \in Seq(Entry)
  <2>1. \A k \in 1..Len(m) : m[k] \in Entry
    BY <1>2, <1>7
  <2> QED
    BY <1>4, <2>1
<1>9. ASSUME NEW i \in DOMAIN m, NEW j \in DOMAIN m, i < j
      PROVE  m[i].id < m[j].id
  <2>1. /\ pos[i] \in DOMAIN lines /\ pos[j] \in DOMAIN lines /\ pos[i] < pos[j]
        /\ m[i] = lines[pos[i]] /\ m[j] = lines[pos[j]]
        /\ lines[pos[i]] \in Entry /\ lines[pos[j]] \in Entry
    BY <1>1, <1>2, <1>6, <1>7, <1>9
  <2> QED
    BY <2>1 DEF LogInv, LogOrder
<1>10. {m[i] : i \in DOMAIN m} = Matches(filter, n)
  <2>1. ASSUME NEW i \in DOMAIN m
        PROVE  m[i] \in Matches(filter, n)
    <3>1. /\ pos[i] \in 1..n /\ m[i] = lines[pos[i]]
          /\ m[i] \in Entry /\ rowMatches(m[i], filter)
      BY <1>2, <1>6, <1>7
    <3> QED
      BY <3>1 DEF Matches
  <2>2. ASSUME NEW row \in Matches(filter, n)
        PROVE  row \in {m[k] : k \in DOMAIN m}
    <3>1. row \in Entry /\ rowMatches(row, filter) /\ \E i \in 1..n : lines[i] = row
      BY DEF Matches
    <3>2. PICK i \in 1..n : lines[i] = row
      BY <3>1
    <3>3. lines[i] \in S
      BY <1>2, <3>1, <3>2
    <3> QED
      BY <1>6, <1>7, <3>2, <3>3
  <2> QED
    BY <2>1, <2>2
<1>11. ASSUME NEW i \in DOMAIN m, i # Len(m)
       PROVE  \E k \in DOMAIN lines : lines[k] = m[i] /\ k # Len(lines)
  <2>1. i \in 1..Len(m) /\ Len(m) \in 1..Len(m) /\ i < Len(m)
    BY <1>6, <1>11
  <2>2. pos[i] < pos[Len(m)] /\ pos[i] \in 1..n /\ pos[Len(m)] \in 1..n
    BY <1>7, <2>1
  <2>3. pos[i] # Len(lines) /\ pos[i] \in DOMAIN lines /\ m[i] = lines[pos[i]]
    BY <1>1, <1>7, <2>1, <2>2
  <2> QED
    BY <2>3
<1> QED
  BY <1>8, <1>9, <1>10, <1>11 DEF m, part, S

(* How many of the matching rows are newer than the one at k. *)
LEMMA NewerMatches ==
    ASSUME NEW m \in Seq(Entry), NEW k \in 1..Len(m),
           \A i, j \in 1..Len(m) : i < j => m[i].id < m[j].id
    PROVE  Cardinality({row \in {m[i] : i \in 1..Len(m)} : row.id > m[k].id}) = Len(m) - k
<1> DEFINE Above == {row \in {m[i] : i \in 1..Len(m)} : row.id > m[k].id}
           f == [i \in (k + 1)..Len(m) |-> m[i]]
<1>1. \A e \in Entry : e.id \in Nat
  BY DEF Entry
<1>2. \A i \in 1..Len(m) : m[i].id \in Nat
  BY <1>1
<1>3. ASSUME NEW i \in 1..Len(m)
      PROVE  m[i].id > m[k].id <=> i \in (k + 1)..Len(m)
  <2>1. CASE i > k
    BY <1>2, <2>1
  <2>2. CASE i = k
    BY <1>2, <2>2
  <2>3. CASE i < k
    BY <1>2, <2>3
  <2> QED
    BY <2>1, <2>2, <2>3
<1>4. Above = {m[i] : i \in (k + 1)..Len(m)}
  BY <1>3
<1> HIDE DEF Above
<1>5. f \in Bijection((k + 1)..Len(m), Above)
  <2>1. f \in [(k + 1)..Len(m) -> Above]
    BY <1>4
  <2>2. \A i, j \in (k + 1)..Len(m) : m[i] = m[j] => i = j
    <3>1. \A i, j \in 1..Len(m) : m[i] = m[j] => i = j
      BY <1>2
    <3>2. (k + 1)..Len(m) \subseteq 1..Len(m)
      OBVIOUS
    <3> QED
      BY <3>1, <3>2
  <2>3. \A row \in Above : \E i \in (k + 1)..Len(m) : f[i] = row
    BY <1>4
  <2> QED
    BY <2>1, <2>2, <2>3 DEF Bijection, Injection, Surjection, IsInjective
<1>6. /\ IsFiniteSet((k + 1)..Len(m))
      /\ Cardinality((k + 1)..Len(m)) = Len(m) - k
  <2>1. k + 1 \in Int /\ Len(m) \in Int /\ k <= Len(m)
    OBVIOUS
  <2> QED
    BY <2>1, FS_Interval
<1>7. ExistsBijection((k + 1)..Len(m), Above)
  BY <1>5 DEF ExistsBijection
<1> QED
  BY <1>6, <1>7, FS_Bijection DEF Above

(* An answer is the matching rows backwards, up to the limit. *)
LEMMA QueryShape ==
    ASSUME LogInv, NEW filter, NEW read \in 0..Len(lines)
    PROVE  LET matches == Only(SubSeq(lines, 1, read), Matching(filter))
               answer == Query(filter, read)
           IN  /\ \A i \in DOMAIN answer : answer[i] \in Entry
               /\ DOMAIN answer = {i \in 1..Len(matches) : i <= Limit}
               /\ \A i \in DOMAIN answer : answer[i] = matches[Len(matches) + 1 - i]
<1> DEFINE m == Only(SubSeq(lines, 1, read), Matching(filter))
           answer == Query(filter, read)
           low == IF Len(m) > Limit THEN Len(m) - Limit + 1 ELSE 1
           part == SubSeq(m, low, Len(m))
<1>1. m \in Seq(Entry)
  BY MatchesShape
<1>2. answer = Backwards(part)
  BY DEF Query, Newest
<1> HIDE DEF m, answer
<1>3. Limit \in Nat \ {0} /\ Len(m) \in Nat
  BY <1>1, LogAssumption
<1>4. low \in 1..(Len(m) + 1) /\ Len(m) - low + 1 = IF Len(m) > Limit THEN Limit ELSE Len(m)
  BY <1>3
<1>5. PICK n \in Nat : n = Len(m) - low + 1
  BY <1>3, <1>4
<1> HIDE DEF low
<1>6. \A i \in low..Len(m) : m[i] \in Entry
  BY <1>1, <1>4
<1>7. /\ part \in Seq(Entry)
      /\ Len(part) = IF low <= Len(m) THEN Len(m) - low + 1 ELSE 0
      /\ \A i \in 1..(Len(m) - low + 1) : part[i] = m[low + i - 1]
  BY <1>3, <1>4, <1>6, SubSeqProperties
<1> HIDE DEF part
<1>8. Len(part) = n /\ DOMAIN part = 1..n /\ \A i \in 1..n : part[i] = m[low + i - 1]
  BY <1>3, <1>4, <1>5, <1>7
<1>9. /\ DOMAIN answer = 1..n
      /\ \A i \in 1..n : answer[i] = part[n + 1 - i]
      /\ answer = [i \in 1..n |-> answer[i]]
  BY <1>2, <1>8 DEF Backwards
<1>10. ASSUME NEW i \in 1..n
       PROVE  answer[i] = m[Len(m) + 1 - i] /\ answer[i] \in Entry
  <2>1. n + 1 - i \in 1..n /\ low + (n + 1 - i) - 1 = Len(m) + 1 - i
    BY <1>3, <1>4, <1>5
  <2>2. answer[i] = m[Len(m) + 1 - i]
    BY <1>8, <1>9, <2>1
  <2>3. Len(m) + 1 - i \in low..Len(m)
    BY <1>3, <1>4, <1>5
  <2> QED
    BY <1>6, <2>2, <2>3
<1>11. 1..n = {i \in 1..Len(m) : i <= Limit}
  BY <1>3, <1>4, <1>5
<1>12. \A i \in DOMAIN answer : answer[i] \in Entry
  BY <1>9, <1>10
<1> QED
  BY <1>9, <1>10, <1>11, <1>12 DEF m, answer

LEMMA AnswerShape ==
    ASSUME LogInv, NEW filter, NEW read \in 0..Len(lines)
    PROVE  LET matching == Matches(filter, read)
               answer == Query(filter, read)
           IN  /\ {answer[i] : i \in DOMAIN answer} =
                  {row \in matching : Cardinality({m \in matching : m.id > row.id}) < Limit}
               /\ \A i, j \in DOMAIN answer : i < j => answer[i].id > answer[j].id
<1> DEFINE m == Only(SubSeq(lines, 1, read), Matching(filter))
           answer == Query(filter, read)
           matching == Matches(filter, read)
           Newer(row) == {other \in matching : other.id > row.id}
<1>1. /\ m \in Seq(Entry)
      /\ \A i, j \in DOMAIN m : i < j => m[i].id < m[j].id
      /\ {m[i] : i \in DOMAIN m} = matching
  BY MatchesShape
<1>2. /\ DOMAIN answer = {i \in 1..Len(m) : i <= Limit}
      /\ \A i \in DOMAIN answer : answer[i] = m[Len(m) + 1 - i]
  BY QueryShape
<1> HIDE DEF m, answer
<1>3. DOMAIN m = 1..Len(m) /\ Len(m) \in Nat /\ Limit \in Nat \ {0}
  BY <1>1, LogAssumption
<1>4. matching = {m[i] : i \in 1..Len(m)}
  BY <1>1, <1>3
<1> HIDE DEF matching
<1>5. ASSUME NEW k \in 1..Len(m)
      PROVE  Cardinality(Newer(m[k])) = Len(m) - k
  BY <1>1, <1>3, <1>4, NewerMatches
<1>6. ASSUME NEW i \in DOMAIN answer
      PROVE  answer[i] \in matching /\ Cardinality(Newer(answer[i])) < Limit
  <2>1. Len(m) + 1 - i \in 1..Len(m) /\ i <= Limit /\ i \in Nat /\ answer[i] = m[Len(m) + 1 - i]
    BY <1>2, <1>3
  <2>2. Cardinality(Newer(answer[i])) = Len(m) - (Len(m) + 1 - i)
    BY <1>5, <2>1
  <2>3. Cardinality(Newer(answer[i])) = i - 1
    BY <1>3, <2>1, <2>2
  <2>4. answer[i] \in matching
    BY <1>4, <2>1
  <2> QED
    BY <1>3, <2>1, <2>3, <2>4
<1>7. ASSUME NEW row \in matching, Cardinality(Newer(row)) < Limit
      PROVE  row \in {answer[i] : i \in DOMAIN answer}
  <2>1. PICK k \in 1..Len(m) : row = m[k]
    BY <1>4
  <2>2. Len(m) - k < Limit
    BY <1>5, <1>7, <2>1
  <2> DEFINE i == Len(m) + 1 - k
  <2>3. i \in 1..Len(m)
    BY <1>3
  <2>4. i <= Limit /\ k = Len(m) + 1 - i
    BY <1>3, <2>2, <2>3
  <2>5. i \in DOMAIN answer
    BY <1>2, <2>4
  <2> QED
    BY <1>2, <2>1, <2>4, <2>5
<1>8. {answer[i] : i \in DOMAIN answer} = {row \in matching : Cardinality(Newer(row)) < Limit}
  BY <1>6, <1>7
<1>9. ASSUME NEW i \in DOMAIN answer, NEW j \in DOMAIN answer, i < j
      PROVE  answer[i].id > answer[j].id
  <2>1. PICK k \in 1..Len(m), l \in 1..Len(m) : /\ k = Len(m) + 1 - i /\ l = Len(m) + 1 - j
                                               /\ l < k
    BY <1>2, <1>3, <1>9
  <2>2. m[l].id < m[k].id
    BY <1>1, <1>3, <2>1
  <2>3. m[l].id \in Nat /\ m[k].id \in Nat
    <3>1. \A e \in Entry : e.id \in Nat
      BY DEF Entry
    <3> QED
      BY <1>1, <3>1
  <2> QED
    BY <1>2, <2>1, <2>2, <2>3
<1> QED
  BY <1>8, <1>9 DEF answer, matching

(* A query's answer is exactly the newest matches, the newest first.           *)
THEOREM QueriesShowTheNewest == Spec => []NewestFirst
<1>1. LogInv => NewestFirst
  BY AnswerShape DEF NewestFirst, Matches
<1> QED
  BY LogInvariant, <1>1, PTL

-----------------------------------------------------------------------------
(* Rows that were shown. *)

(* A row that was shown below another is in a line that no write touches. *)
ShownInv ==
    /\ shown \subseteq Entry
    /\ \A row \in shown : \E n \in DOMAIN lines : lines[n] = row /\ (n = Len(lines) => terminated)

LEMMA LinesStay ==
    ASSUME SessionsInv, LogInv, [Next]_vars,
           NEW n \in DOMAIN lines, n = Len(lines) => terminated
    PROVE  n \in DOMAIN lines' /\ lines'[n] = lines[n] /\ (n = Len(lines') => terminated')
<1>1. ASSUME NEW line \in {writing, Torn}, NEW whole \in BOOLEAN, Put(line, whole)
      PROVE  n \in DOMAIN lines' /\ lines'[n] = lines[n] /\ n # Len(lines')
  BY <1>1, PutShape DEF LogInv
<1>2. CASE UNCHANGED <<lines, terminated>>
  BY <1>2
<1>3. ASSUME NEW user \in Users, NEW status \in StatusCodes, Log(user, status)
      PROVE  UNCHANGED <<lines, terminated>>
  BY <1>3 DEF Log
<1>4. TakeEntry \/ WriteFails \/ LogRestart \/ UNCHANGED logVars => UNCHANGED <<lines, terminated>>
  BY DEF TakeEntry, WriteFails, LogRestart, logVars
<1> QED
  BY <1>1, <1>2, <1>3, <1>4, LogActions, WriterActions DEF LogInv

LEMMA ShownStep ==
    ASSUME SessionsInv, LogInv, ShownInv, [Next]_vars
    PROVE  ShownInv'
<1>1. CASE UNCHANGED shown
  BY <1>1, LinesStay DEF ShownInv
<1>2. ASSUME NEW a \in Admins, Logs(a)
      PROVE  ShownInv'
  <2>1. PICK read \in 0..Len(lines) :
            shown' = shown \cup {Query(Everything, read)[i] :
                                     i \in DOMAIN Query(Everything, read) \ {1}}
    BY <1>2 DEF Logs
  <2> DEFINE m == Only(SubSeq(lines, 1, read), Matching(Everything))
             answer == Query(Everything, read)
  <2>2. /\ m \in Seq(Entry)
        /\ \A i \in DOMAIN m : i # Len(m) =>
               \E n \in DOMAIN lines : lines[n] = m[i] /\ n # Len(lines)
    BY MatchesShape
  <2>3. /\ \A i \in DOMAIN answer : answer[i] \in Entry
        /\ DOMAIN answer = {i \in 1..Len(m) : i <= Limit}
        /\ \A i \in DOMAIN answer : answer[i] = m[Len(m) + 1 - i]
    BY QueryShape
  <2>4. shown' = shown \cup {answer[i] : i \in DOMAIN answer \ {1}}
    BY <2>1
  <2> HIDE DEF m, answer
  <2>5. ASSUME NEW i \in DOMAIN answer \ {1}
        PROVE  \E n \in DOMAIN lines : lines[n] = answer[i] /\ n # Len(lines)
    <3>1. i \in 1..Len(m) /\ i # 1 /\ answer[i] = m[Len(m) + 1 - i]
      BY <2>3
    <3>2. PICK k \in DOMAIN m : k = Len(m) + 1 - i
      BY <2>2, <3>1
    <3>3. k # Len(m)
      BY <2>2, <3>1, <3>2
    <3> QED
      BY <2>2, <3>1, <3>2, <3>3
  <2>6. UNCHANGED <<lines, terminated>>
    BY <1>2 DEF Logs, logVars
  <2> QED
    BY <2>3, <2>4, <2>5, <2>6 DEF ShownInv
<1>3. (\A a \in Admins : ~Logs(a)) => UNCHANGED shown
  BY DEF Next, EndCall, Restart, vars
<1> QED
  BY <1>1, <1>2, <1>3

(* What an admin has seen below the newest row stays readable for good.        *)
THEOREM ShownRowsAreKept == Spec => []ShownRowsStay
<1>1. Init => ShownInv
  BY DEF Init, ShownInv
<1>2. SessionsInv /\ LogInv /\ ShownInv /\ [Next]_vars => ShownInv'
  BY ShownStep
<1>3. LogInv /\ ShownInv => ShownRowsStay
  <2> SUFFICES ASSUME LogInv, ShownInv, NEW row \in shown
               PROVE  \E j \in DOMAIN Rows : Rows[j] = row
    BY DEF ShownRowsStay
  <2>1. PICK n \in DOMAIN lines : lines[n] = row
    BY DEF ShownInv
  <2>2. lines[n] \in Entry
    BY <2>1 DEF ShownInv
  <2> QED
    BY <2>1, <2>2, RowsShape
<1> QED
  BY LogInvariant, <1>1, <1>2, <1>3, PTL DEF Spec
=============================================================================
