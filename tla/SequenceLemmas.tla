---------------------------- MODULE SequenceLemmas -----------------------------
(***************************************************************************)
(* What the operators on sequences return that the models take from the    *)
(* community modules: the least element of a set of numbers, on which the  *)
(* search for a first match rests; removal; functions that are defined by  *)
(* recursion over the prefixes of a sequence; and FlattenSeq, of           *)
(* concatenations, of single elements and of mapped sequences.             *)
(***************************************************************************)
EXTENDS SequencesExt, WellFoundedInduction, SequenceTheorems, TLAPS

Less == {ss \in Nat \X Nat : ss[1] < ss[2]}

(* A set of naturals that is not empty has a least element. *)
LEMMA LeastElement ==
    ASSUME NEW T, T \subseteq Nat, T # {}
    PROVE  \E m \in T : \A n \in T : m <= n
<1>1. IsWellFoundedOn(Less, Nat)
  BY NatLessThanWellFounded DEF OpToRel, Less
<1>2. PICK m \in T : \A n \in T : <<n, m>> \notin Less
  BY <1>1, WFMin
<1>3. \A i, j \in Nat : <<i, j>> \in Less <=> i < j
  BY DEF Less
<1>4. \A n \in T : ~(n < m)
  BY <1>2, <1>3
<1>5. \A n \in T : m <= n
  BY <1>4
<1> QED
  BY <1>5

LEMMA MinIsLeast ==
    ASSUME NEW T, T \subseteq Nat, T # {}
    PROVE  Min(T) \in T /\ \A n \in T : Min(T) <= n
  BY LeastElement DEF Min

(* Without one element, the others keep their order. *)
LEMMA RemoveAtShape ==
    ASSUME NEW S, NEW s \in Seq(S), NEW i \in 1..Len(s)
    PROVE  /\ RemoveAt(s, i) \in Seq(S)
           /\ Len(RemoveAt(s, i)) = Len(s) - 1
           /\ \A j \in 1..(Len(s) - 1) : RemoveAt(s, i)[j] = IF j < i THEN s[j] ELSE s[j + 1]
<1> DEFINE a == SubSeq(s, 1, i - 1)
           b == SubSeq(s, i + 1, Len(s))
<1>1. a \in Seq(S) /\ Len(a) = i - 1 /\ \A j \in 1..(i - 1) : a[j] = s[j]
  BY SubSeqProperties
<1>2. b \in Seq(S) /\ Len(b) = Len(s) - i /\ \A j \in 1..(Len(s) - i) : b[j] = s[i + j]
  BY SubSeqProperties
<1> HIDE DEF a, b
<1>3. /\ a \o b \in Seq(S)
      /\ Len(a \o b) = Len(s) - 1
      /\ \A j \in 1..(Len(s) - 1) : (a \o b)[j] = IF j <= i - 1 THEN a[j] ELSE b[j - (i - 1)]
  <2>1. a \in Seq(S) /\ b \in Seq(S)
    BY <1>1, <1>2
  <2>2. /\ a \o b \in Seq(S)
        /\ Len(a \o b) = Len(a) + Len(b)
        /\ \A j \in 1..(Len(a) + Len(b)) :
               (a \o b)[j] = IF j <= Len(a) THEN a[j] ELSE b[j - Len(a)]
    BY <2>1, ConcatProperties
  <2>3. Len(s) \in Nat
    OBVIOUS
  <2> QED
    BY <1>1, <1>2, <2>2, <2>3
<1>4. ASSUME NEW j \in 1..(Len(s) - 1)
      PROVE  (a \o b)[j] = IF j < i THEN s[j] ELSE s[j + 1]
  <2>1. CASE j < i
    BY <1>1, <1>3, <2>1
  <2>2. CASE ~(j < i)
    <3>1. j - (i - 1) \in 1..(Len(s) - i) /\ i + (j - (i - 1)) = j + 1
      BY <2>2
    <3>2. b[j - (i - 1)] = s[i + (j - (i - 1))]
      BY <1>2, <3>1
    <3>3. ~(j <= i - 1)
      BY <2>2
    <3> QED
      BY <1>3, <2>2, <3>1, <3>2, <3>3
  <2> QED
    BY <2>1, <2>2
<1>5. RemoveAt(s, i) = a \o b
  BY DEF RemoveAt, a, b
<1> QED
  BY <1>3, <1>4, <1>5

(* Removing an element, if it is there. *)
LEMMA RemoveFirstType ==
    ASSUME NEW S, NEW s \in Seq(S), NEW e
    PROVE  RemoveFirst(s, e) \in Seq(S)
<1>1. CASE \E i \in 1..Len(s) : s[i] = e
  <2> DEFINE I == {i \in 1..Len(s) : s[i] = e}
  <2>1. Min(I) \in I
    BY <1>1, MinIsLeast
  <2>2. SelectInSeq(s, LAMBDA v : v = e) = Min(I)
    BY <1>1 DEF SelectInSeq
  <2> QED
    BY <1>1, <2>1, <2>2, RemoveAtShape DEF RemoveFirst
<1>2. CASE ~\E i \in 1..Len(s) : s[i] = e
  BY <1>2 DEF RemoveFirst
<1> QED
  BY <1>1, <1>2

(* A function on 1..n is a sequence. *)
LEMMA FunctionIsSeq ==
    ASSUME NEW S, NEW n \in Nat, NEW f, DOMAIN f = 1..n, f = [i \in 1..n |-> f[i]],
           \A i \in 1..n : f[i] \in S
    PROVE  f \in Seq(S) /\ Len(f) = n
<1>1. f \in [1..n -> S]
  OBVIOUS
<1> QED
  BY <1>1, SeqDef

-----------------------------------------------------------------------------
(* Recursion over the prefixes of a sequence. *)

(* Induction up to N, with a set for the property. *)
LEMMA InductionUpTo ==
    ASSUME NEW N \in Nat, NEW Good, 0 \in Good,
           \A n \in 0..N : n # N /\ n \in Good => n + 1 \in Good
    PROVE  \A n \in 0..N : n \in Good
<1> DEFINE Bad == {n \in 0..N : n \notin Good}
<1> SUFFICES ASSUME Bad # {}
             PROVE  FALSE
  OBVIOUS
<1>1. PICK b \in Bad : \A c \in Bad : b <= c
  <2>1. Bad \subseteq Nat
    OBVIOUS
  <2> HIDE DEF Bad
  <2> QED
    BY <2>1, LeastElement
<1>2. b \in 0..N /\ b # 0 /\ b - 1 \in 0..N /\ b - 1 # N /\ b - 1 \notin Bad /\ b - 1 + 1 = b
  BY <1>1
<1>3. b - 1 \in Good
  BY <1>2
<1>4. b \in Good
  BY <1>2, <1>3
<1> QED
  BY <1>1, <1>4

(* f begins with base, and each of its values up to m follows from the last. *)
Follows(f, base, step, m) == f[0] = base /\ \A n \in 1..m : f[n] = step[n][f[n - 1]]

StaysIn(X, step, N) == \A n \in 1..N : \A x \in X : step[n][x] \in X

(* There is a function that is given by its first value and by what follows. *)
LEMMA RecursionExists ==
    ASSUME NEW N \in Nat, NEW X, NEW base \in X, NEW step, StaysIn(X, step, N)
    PROVE  \E f \in [0..N -> X] : Follows(f, base, step, N)
<1> USE DEF Follows, StaysIn
<1> DEFINE Upto(f, m) == Follows(f, base, step, m)
           Good == {m \in 0..N : \E f \in [0..m -> X] : Upto(f, m)}
<1>1. 0 \in Good
  <2> DEFINE f == [n \in 0..0 |-> base]
  <2>1. f \in [0..0 -> X] /\ Upto(f, 0)
    OBVIOUS
  <2>2. 0 \in 0..N
    OBVIOUS
  <2> QED
    BY <2>1, <2>2
<1>2. ASSUME NEW m \in 0..N, m # N, m \in Good
      PROVE  m + 1 \in Good
  <2>1. PICK f \in [0..m -> X] : Upto(f, m)
    BY <1>2
  <2> DEFINE new == step[m + 1][f[m]]
             more == [n \in 0..(m + 1) |-> IF n <= m THEN f[n] ELSE new]
  <2>2. m + 1 \in 1..N /\ m \in 0..m /\ m + 1 \in 0..N
    BY <1>2
  <2>3. new \in X
    <3>1. f[m] \in X
      BY <2>2
    <3> QED
      BY <2>2, <3>1
  <2>4. /\ more[m + 1] = new
        /\ \A n \in 0..m : more[n] = f[n]
        /\ more \in [0..(m + 1) -> X]
    <3> HIDE DEF new
    <3> QED
      BY <2>3
  <2> HIDE DEF more
  <2>5. ASSUME NEW n \in 1..(m + 1)
        PROVE  more[n] = step[n][more[n - 1]]
    <3>1. CASE n = m + 1
      <4>1. n - 1 = m /\ more[n - 1] = f[m]
        BY <2>2, <2>4, <3>1
      <4> QED
        BY <2>4, <3>1, <4>1
    <3>2. CASE n # m + 1
      <4>1. n \in 1..m /\ n \in 0..m /\ n - 1 \in 0..m
        BY <3>2
      <4> QED
        BY <2>1, <2>4, <4>1
    <3> QED
      BY <3>1, <3>2
  <2>6. more[0] = base
    <3>1. 0 \in 0..m
      OBVIOUS
    <3> QED
      BY <2>1, <2>4, <3>1
  <2>7. Upto(more, m + 1)
    BY <2>5, <2>6
  <2> QED
    BY <2>2, <2>4, <2>7
<1> HIDE DEF Good
<1>3. N \in Good
  <2>1. N \in 0..N
    OBVIOUS
  <2> QED
    BY <1>1, <1>2, <2>1, InductionUpTo
<1> QED
  BY <1>3 DEF Good

-----------------------------------------------------------------------------
(* Sequences of sequences, one after the other. *)

(* How FlattenSeq gets to its result, piece by piece. *)
Flat(p) == CHOOSE flatten : flatten = [i \in 1..Len(p) |->
                                IF i = 1 THEN p[i] ELSE flatten[i - 1] \o p[i]]

LEMMA FlatShape ==
    ASSUME NEW T, NEW p \in Seq(Seq(T)), p # <<>>
    PROVE  /\ FlattenSeq(p) = Flat(p)[Len(p)]
           /\ Flat(p) \in [1..Len(p) -> Seq(T)]
           /\ \A i \in 1..Len(p) : Flat(p)[i] = IF i = 1 THEN p[1] ELSE Flat(p)[i - 1] \o p[i]
<1> DEFINE N == Len(p)
           step == [n \in 1..N |-> [x \in Seq(T) |-> x \o p[n]]]
<1>1. N \in Nat /\ N # 0 /\ <<>> \in Seq(T) /\ \A n \in 1..N : p[n] \in Seq(T)
  OBVIOUS
<1> HIDE DEF N
<1>2. \A n \in 1..N : \A x \in Seq(T) : x \o p[n] \in Seq(T)
  BY <1>1
<1>3. \A n \in 1..N : \A x \in Seq(T) : step[n][x] = x \o p[n]
  OBVIOUS
<1> HIDE DEF step
<1>4. PICK f \in [0..N -> Seq(T)] : f[0] = <<>> /\ \A n \in 1..N : f[n] = step[n][f[n - 1]]
  <2> DEFINE X == Seq(T)
             base == <<>>
  <2>1. base \in X /\ N \in Nat /\ StaysIn(X, step, N)
    BY <1>1, <1>2, <1>3 DEF StaysIn
  <2> HIDE DEF X, base
  <2>2. \E f \in [0..N -> X] : Follows(f, base, step, N)
    BY <2>1, RecursionExists
  <2> QED
    BY <2>2 DEF X, base, Follows
<1> DEFINE g == [i \in 1..N |-> f[i]]
           Is(h) == h = [i \in 1..N |-> IF i = 1 THEN p[i] ELSE h[i - 1] \o p[i]]
<1>5. ASSUME NEW i \in 1..N
      PROVE  g[i] = IF i = 1 THEN p[i] ELSE g[i - 1] \o p[i]
  <2>1. i \in 0..N /\ i - 1 \in 0..N /\ f[i - 1] \in Seq(T) /\ (i # 1 => i - 1 \in 1..N)
    BY <1>1
  <2>2. f[i] = f[i - 1] \o p[i]
    BY <1>3, <1>4, <2>1
  <2>3. <<>> \o p[i] = p[i]
    BY <1>1
  <2>4. CASE i = 1
    <3>1. f[i - 1] = <<>> /\ g[i] = f[i]
      BY <1>4, <2>4
    <3> QED
      BY <2>2, <2>3, <2>4, <3>1
  <2>5. CASE i # 1
    BY <2>1, <2>2, <2>5
  <2> QED
    BY <2>4, <2>5
<1>6. g \in [1..N -> Seq(T)]
  <2>1. \A i \in 1..N : i \in 0..N
    OBVIOUS
  <2> QED
    BY <2>1
<1>7. Is(g)
  <2> DEFINE h == [i \in 1..N |-> IF i = 1 THEN p[i] ELSE g[i - 1] \o p[i]]
  <2>1. \A i \in 1..N : g[i] = h[i]
    BY <1>5
  <2>2. g = [i \in 1..N |-> g[i]] /\ h = [i \in 1..N |-> h[i]]
    OBVIOUS
  <2> HIDE DEF g, h
  <2>3. g = h
    BY <2>1, <2>2
  <2> QED
    BY <2>3 DEF h
<1> HIDE DEF g
<1>8. Is(Flat(p))
  BY <1>7, Zenon DEF Flat, N
<1>9. FlattenSeq(p) = Flat(p)[Len(p)]
  <2>1. Len(p) # 0
    BY <1>1 DEF N
  <2> QED
    BY <2>1, Zenon DEF FlattenSeq, Flat
<1> DEFINE K == Flat(p)
           k == [i \in 1..N |-> IF i = 1 THEN p[i] ELSE K[i - 1] \o p[i]]
<1>10. K = k
  BY <1>8
<1> HIDE DEF K
<1>11. \A i \in 1..N : k[i] = IF i = 1 THEN p[i] ELSE K[i - 1] \o p[i]
  OBVIOUS
<1>12. DOMAIN k = 1..N /\ k = [i \in 1..N |-> k[i]]
  OBVIOUS
<1> HIDE DEF k
<1>13. \A i \in 1..N : K[i] = IF i = 1 THEN p[1] ELSE K[i - 1] \o p[i]
  BY <1>10, <1>11
<1>14. \A i \in 1..N : K[i] \in Seq(T)
  <2> DEFINE Good == {n \in 0..N : n # 0 => K[n] \in Seq(T)}
  <2>1. 0 \in Good
    BY <1>1
  <2>2. ASSUME NEW n \in 0..N, n # N, n \in Good
        PROVE  n + 1 \in Good
    <3>1. n + 1 \in 1..N /\ n + 1 \in 0..N
      BY <1>1, <2>2
    <3>2. CASE n = 0
      <4>1. n + 1 = 1 /\ p[1] \in Seq(T) /\ K[n + 1] = p[1]
        BY <1>1, <1>13, <3>1, <3>2
      <4> QED
        BY <3>1, <4>1
    <3>3. CASE n # 0
      <4>1. n + 1 # 1 /\ n + 1 - 1 = n /\ K[n] \in Seq(T) /\ p[n + 1] \in Seq(T)
        BY <1>1, <2>2, <3>1, <3>3
      <4>2. K[n] \o p[n + 1] \in Seq(T)
        BY <4>1
      <4>3. K[n + 1] = K[n] \o p[n + 1]
        <5> DEFINE i == n + 1
        <5>1. i \in 1..N /\ i # 1 /\ i - 1 = n
          BY <3>1, <4>1
        <5> HIDE DEF i
        <5>2. K[i] = K[n] \o p[i]
          BY <1>13, <5>1
        <5> QED
          BY <5>2 DEF i
      <4> QED
        BY <3>1, <4>2, <4>3
    <3> QED
      BY <3>2, <3>3
  <2>3. \A n \in 0..N : n \in Good
    <3> HIDE DEF Good
    <3> QED
      BY <1>1, <2>1, <2>2, InductionUpTo
  <2>4. \A i \in 1..N : i \in 0..N /\ i # 0
    OBVIOUS
  <2> QED
    BY <2>3, <2>4
<1>15. K \in [1..N -> Seq(T)]
  BY <1>10, <1>12, <1>14
<1> QED
  BY <1>9, <1>13, <1>15 DEF K, N

(* The first n pieces, one after the other. *)
FlatUpTo(p, n) == IF n = 0 THEN <<>> ELSE Flat(p)[n]

LEMMA FlattenShape ==
    ASSUME NEW T, NEW p \in Seq(Seq(T))
    PROVE  /\ FlatUpTo(p, 0) = <<>>
           /\ \A n \in 0..Len(p) : FlatUpTo(p, n) \in Seq(T)
           /\ \A n \in 1..Len(p) : FlatUpTo(p, n) = FlatUpTo(p, n - 1) \o p[n]
           /\ FlattenSeq(p) = FlatUpTo(p, Len(p))
           /\ FlattenSeq(p) \in Seq(T)
<1>1. FlatUpTo(p, 0) = <<>>
  BY DEF FlatUpTo
<1>2. CASE p = <<>>
  <2>1. Len(p) = 0
    BY <1>2
  <2>2. FlattenSeq(p) = <<>>
    BY <1>2, <2>1 DEF FlattenSeq
  <2>3. <<>> \in Seq(T) /\ \A n \in 0..Len(p) : n = 0
    BY <2>1
  <2>4. ~\E n \in 1..Len(p) : TRUE
    BY <2>1
  <2> HIDE DEF FlatUpTo
  <2> QED
    BY <1>1, <2>1, <2>2, <2>3, <2>4
<1>3. CASE p # <<>>
  <2>1. /\ FlattenSeq(p) = Flat(p)[Len(p)]
        /\ Flat(p) \in [1..Len(p) -> Seq(T)]
        /\ \A i \in 1..Len(p) : Flat(p)[i] = IF i = 1 THEN p[1] ELSE Flat(p)[i - 1] \o p[i]
    BY <1>3, FlatShape
  <2>2. Len(p) \in 1..Len(p) /\ Len(p) # 0 /\ \A i \in 1..Len(p) : p[i] \in Seq(T)
    BY <1>3
  <2>3. ASSUME NEW n \in 0..Len(p)
        PROVE  FlatUpTo(p, n) \in Seq(T)
    <3>1. <<>> \in Seq(T) /\ (n # 0 => n \in 1..Len(p))
      OBVIOUS
    <3> QED
      BY <2>1, <3>1 DEF FlatUpTo
  <2>4. ASSUME NEW n \in 1..Len(p)
        PROVE  FlatUpTo(p, n) = FlatUpTo(p, n - 1) \o p[n]
    <3>1. n # 0 /\ (n = 1 => n - 1 = 0) /\ (n # 1 => n - 1 # 0)
      OBVIOUS
    <3>2. <<>> \o p[n] = p[n]
      BY <2>2
    <3>3. CASE n = 1
      BY <2>1, <3>1, <3>2, <3>3 DEF FlatUpTo
    <3>4. CASE n # 1
      BY <2>1, <3>1, <3>4 DEF FlatUpTo
    <3> QED
      BY <3>3, <3>4
  <2>5. FlattenSeq(p) = FlatUpTo(p, Len(p))
    BY <2>1, <2>2 DEF FlatUpTo
  <2>6. Len(p) \in 0..Len(p)
    OBVIOUS
  <2>7. FlattenSeq(p) \in Seq(T)
    BY <2>3, <2>5, <2>6
  <2> QED
    BY <1>1, <2>3, <2>4, <2>5, <2>7
<1> QED
  BY <1>2, <1>3

(* One piece is its own whole, and none is nothing. *)
LEMMA FlattenFew ==
    ASSUME NEW T, NEW x \in Seq(T)
    PROVE  FlattenSeq(<<>>) = <<>> /\ FlattenSeq(<<x>>) = x
<1>1. FlattenSeq(<<>>) = <<>>
  BY DEF FlattenSeq
<1> DEFINE p == <<x>>
<1>2. p \in Seq(Seq(T)) /\ Len(p) = 1 /\ p[1] = x
  OBVIOUS
<1> HIDE DEF p
<1>3. FlattenSeq(p) = FlatUpTo(p, 0) \o x /\ FlatUpTo(p, 0) = <<>>
  <2>1. 1 \in 1..Len(p) /\ 1 - 1 = 0
    BY <1>2
  <2> QED
    BY <1>2, <2>1, FlattenShape
<1>4. FlattenSeq(p) = x
  BY <1>3
<1> QED
  BY <1>1, <1>4 DEF p

(* Pieces that come after others come after their whole. *)
LEMMA FlattenConcat ==
    ASSUME NEW T, NEW a \in Seq(Seq(T)), NEW b \in Seq(Seq(T))
    PROVE  FlattenSeq(a \o b) = FlattenSeq(a) \o FlattenSeq(b)
<1> DEFINE c == a \o b
<1>1. /\ c \in Seq(Seq(T)) /\ Len(c) = Len(a) + Len(b)
      /\ \A i \in 1..Len(a) : c[i] = a[i]
      /\ \A i \in 1..Len(b) : c[Len(a) + i] = b[i]
  OBVIOUS
<1> HIDE DEF c
<1>2. FlatUpTo(c, Len(a)) = FlatUpTo(a, Len(a))
  <2> DEFINE Good == {n \in 0..Len(a) : FlatUpTo(c, n) = FlatUpTo(a, n)}
  <2>1. 0 \in Good
    <3>1. FlatUpTo(c, 0) = <<>> /\ FlatUpTo(a, 0) = <<>> /\ 0 \in 0..Len(a)
      BY DEF FlatUpTo
    <3> QED
      BY <3>1
  <2>2. ASSUME NEW n \in 0..Len(a), n # Len(a), n \in Good
        PROVE  n + 1 \in Good
    <3> DEFINE i == n + 1
    <3>1. i \in 0..Len(a) /\ i \in 1..Len(a) /\ i \in 1..Len(c) /\ i - 1 = n
      BY <1>1, <2>2
    <3> HIDE DEF i
    <3>2. FlatUpTo(c, i) = FlatUpTo(c, n) \o c[i] /\ FlatUpTo(a, i) = FlatUpTo(a, n) \o a[i]
      BY <1>1, <3>1, FlattenShape
    <3>3. i \in Good
      BY <1>1, <2>2, <3>1, <3>2
    <3> QED
      BY <3>3 DEF i
  <2> HIDE DEF Good
  <2>3. Len(a) \in 0..Len(a) /\ Len(a) \in Nat
    OBVIOUS
  <2>4. Len(a) \in Good
    BY <2>1, <2>2, <2>3, InductionUpTo
  <2> QED
    BY <2>4 DEF Good
<1>3. FlattenSeq(a) = FlatUpTo(a, Len(a)) /\ FlattenSeq(a) \in Seq(T)
  BY FlattenShape
<1> DEFINE whole == FlattenSeq(a)
           Good == {n \in 0..Len(b) : FlatUpTo(c, Len(a) + n) = whole \o FlatUpTo(b, n)}
<1>4. 0 \in Good
  <2>1. Len(a) + 0 = Len(a) /\ 0 \in 0..Len(b)
    OBVIOUS
  <2>2. whole \o <<>> = whole
    BY <1>3
  <2>3. FlatUpTo(b, 0) = <<>>
    BY FlattenShape
  <2> QED
    BY <1>2, <1>3, <2>1, <2>2, <2>3
<1>5. ASSUME NEW n \in 0..Len(b), n # Len(b), n \in Good
      PROVE  n + 1 \in Good
  <2> DEFINE i == n + 1
             j == Len(a) + n + 1
  <2>1. /\ i \in 0..Len(b) /\ i \in 1..Len(b) /\ i - 1 = n
        /\ j \in 1..Len(c) /\ j - 1 = Len(a) + n /\ j = Len(a) + i
    BY <1>1, <1>5
  <2> HIDE DEF i, j
  <2>2. FlatUpTo(c, j) = FlatUpTo(c, Len(a) + n) \o c[j] /\ FlatUpTo(b, i) = FlatUpTo(b, n) \o b[i]
    BY <1>1, <2>1, FlattenShape
  <2>3. c[j] = b[i]
    BY <1>1, <2>1
  <2>4. FlatUpTo(c, j) = (whole \o FlatUpTo(b, n)) \o b[i]
    BY <1>5, <2>2, <2>3
  <2> DEFINE y == FlatUpTo(b, n)
             z == b[i]
  <2>5. y \in Seq(T) /\ z \in Seq(T) /\ whole \in Seq(T)
    <3>1. \A k \in 0..Len(b) : FlatUpTo(b, k) \in Seq(T)
      BY FlattenShape
    <3>2. z \in Seq(T)
      BY <2>1
    <3> QED
      BY <1>3, <3>1, <3>2
  <2> HIDE DEF whole, y, z
  <2>6. (whole \o y) \o z = whole \o (y \o z)
    BY <2>5, ConcatAssociative
  <2> QED
    BY <2>1, <2>2, <2>4, <2>6 DEF i, y, z
<1> HIDE DEF Good
<1>6. Len(b) \in Good
  <2>1. Len(b) \in 0..Len(b) /\ Len(b) \in Nat
    OBVIOUS
  <2> QED
    BY <1>4, <1>5, <2>1, InductionUpTo
<1>7. FlattenSeq(b) = FlatUpTo(b, Len(b)) /\ FlattenSeq(c) = FlatUpTo(c, Len(a) + Len(b))
  BY <1>1, FlattenShape
<1> QED
  BY <1>6, <1>7 DEF c, Good

(* Nothing, however often, is nothing. *)
LEMMA FlattenNothing ==
    ASSUME NEW T, NEW p \in Seq(Seq(T)), \A i \in 1..Len(p) : p[i] = <<>>
    PROVE  FlattenSeq(p) = <<>>
<1>1. /\ \A n \in 1..Len(p) : FlatUpTo(p, n) = FlatUpTo(p, n - 1) \o p[n]
      /\ FlattenSeq(p) = FlatUpTo(p, Len(p)) /\ FlatUpTo(p, 0) = <<>>
  BY FlattenShape
<1> DEFINE Good == {n \in 0..Len(p) : FlatUpTo(p, n) = <<>>}
<1>2. 0 \in Good
  BY <1>1
<1>3. ASSUME NEW n \in 0..Len(p), n # Len(p), n \in Good
      PROVE  n + 1 \in Good
  <2> DEFINE i == n + 1
  <2>1. i \in 0..Len(p) /\ i \in 1..Len(p) /\ i - 1 = n
    BY <1>3
  <2>2. <<>> \o <<>> = <<>>
    OBVIOUS
  <2> HIDE DEF i
  <2>3. FlatUpTo(p, i) = <<>>
    BY <1>1, <1>3, <2>1, <2>2
  <2> QED
    BY <2>1, <2>3 DEF i
<1> HIDE DEF Good
<1>4. Len(p) \in Good
  <2>1. Len(p) \in 0..Len(p) /\ Len(p) \in Nat
    OBVIOUS
  <2> QED
    BY <1>2, <1>3, <2>1, InductionUpTo
<1> QED
  BY <1>1, <1>4 DEF Good

(* What each piece is, so is the whole: single elements. *)
LEMMA FlattenSingles ==
    ASSUME NEW T, NEW s \in Seq(T), NEW p, p = [i \in DOMAIN s |-> <<s[i]>>]
    PROVE  FlattenSeq(p) = s
<1>1. /\ p \in Seq(Seq(T)) /\ Len(p) = Len(s) /\ Len(s) \in Nat
      /\ \A i \in 1..Len(s) : p[i] = <<s[i]>> /\ s[i] \in T
  <2>1. DOMAIN s = 1..Len(s) /\ Len(s) \in Nat /\ \A i \in 1..Len(s) : s[i] \in T
    OBVIOUS
  <2>2. DOMAIN p = 1..Len(s) /\ \A i \in 1..Len(s) : p[i] = <<s[i]>>
    BY <2>1
  <2>3. \A i \in 1..Len(s) : p[i] \in Seq(T)
    BY <2>1, <2>2
  <2>4. p = [i \in 1..Len(s) |-> p[i]]
    BY <2>1
  <2> QED
    BY <2>1, <2>2, <2>3, <2>4, FunctionIsSeq
<1>2. /\ \A n \in 1..Len(p) : FlatUpTo(p, n) = FlatUpTo(p, n - 1) \o p[n]
      /\ FlattenSeq(p) = FlatUpTo(p, Len(p)) /\ FlatUpTo(p, 0) = <<>>
  BY <1>1, FlattenShape
<1> DEFINE Good == {n \in 0..Len(s) : FlatUpTo(p, n) = SubSeq(s, 1, n)}
<1>3. 0 \in Good
  <2>1. SubSeq(s, 1, 0) = <<>> /\ 0 \in 0..Len(s)
    OBVIOUS
  <2> QED
    BY <1>2, <2>1
<1>4. ASSUME NEW n \in 0..Len(s), n # Len(s), n \in Good
      PROVE  n + 1 \in Good
  <2> DEFINE i == n + 1
             e == s[i]
  <2>1. i \in 0..Len(s) /\ i \in 1..Len(s) /\ i - 1 = n /\ i \in 1..Len(p) /\ p[i] = <<e>>
    <3>1. i \in 0..Len(s) /\ i \in 1..Len(s) /\ i - 1 = n
      BY <1>4
    <3> HIDE DEF i
    <3> QED
      BY <1>1, <3>1
  <2>2. SubSeq(s, 1, n) \o <<e>> = SubSeq(s, 1, i)
    BY <2>1
  <2> HIDE DEF i, e
  <2>3. FlatUpTo(p, i) = FlatUpTo(p, n) \o <<e>>
    BY <1>2, <2>1
  <2> QED
    BY <1>4, <2>1, <2>2, <2>3 DEF i
<1> HIDE DEF Good
<1>5. Len(s) \in Good
  <2>1. Len(s) \in 0..Len(s)
    OBVIOUS
  <2> QED
    BY <1>1, <1>3, <1>4, <2>1, InductionUpTo
<1>6. SubSeq(s, 1, Len(s)) = s
  OBVIOUS
<1> QED
  BY <1>1, <1>2, <1>5, <1>6 DEF Good

(* g of every element. *)
Mapped(g, s) == [i \in DOMAIN s |-> g[s[i]]]

MapsInto(g, M, X) == \A m \in M : g[m] \in X

LEMMA MappedShape ==
    ASSUME NEW M, NEW X, NEW g, MapsInto(g, M, X), NEW s \in Seq(M)
    PROVE  Mapped(g, s) \in Seq(X) /\ Len(Mapped(g, s)) = Len(s)
  BY DEF Mapped, MapsInto

LEMMA MappedConcat ==
    ASSUME NEW M, NEW X, NEW g, MapsInto(g, M, X), NEW s \in Seq(M), NEW t \in Seq(M)
    PROVE  Mapped(g, s \o t) = Mapped(g, s) \o Mapped(g, t)
<1> DEFINE a == Mapped(g, s)
           b == Mapped(g, t)
           st == s \o t
           c == Mapped(g, st)
<1>1. /\ st \in Seq(M) /\ Len(st) = Len(s) + Len(t)
      /\ \A i \in 1..Len(st) : st[i] = IF i <= Len(s) THEN s[i] ELSE t[i - Len(s)]
  BY ConcatProperties
<1> HIDE DEF st
<1>2. /\ a \in Seq(X) /\ Len(a) = Len(s) /\ \A i \in 1..Len(s) : a[i] = g[s[i]]
      /\ b \in Seq(X) /\ Len(b) = Len(t) /\ \A i \in 1..Len(t) : b[i] = g[t[i]]
      /\ c \in Seq(X) /\ Len(c) = Len(st) /\ \A i \in 1..Len(st) : c[i] = g[st[i]]
  <2>1. a \in Seq(X) /\ Len(a) = Len(s)
    BY MappedShape
  <2>2. b \in Seq(X) /\ Len(b) = Len(t)
    BY MappedShape
  <2>3. c \in Seq(X) /\ Len(c) = Len(st)
    BY <1>1, MappedShape
  <2>4. /\ DOMAIN s = 1..Len(s) /\ DOMAIN t = 1..Len(t) /\ DOMAIN st = 1..Len(st)
    BY <1>1
  <2> QED
    BY <2>1, <2>2, <2>3, <2>4 DEF Mapped
<1> HIDE DEF a, b, c
<1>3. /\ a \o b \in Seq(X) /\ Len(a \o b) = Len(a) + Len(b)
      /\ \A i \in 1..(Len(a) + Len(b)) : (a \o b)[i] = IF i <= Len(a) THEN a[i] ELSE b[i - Len(a)]
  <2>1. a \in Seq(X) /\ b \in Seq(X)
    BY <1>2
  <2> QED
    BY <2>1, ConcatProperties
<1>4. ASSUME NEW i \in 1..Len(c)
      PROVE  c[i] = (a \o b)[i]
  <2>1. Len(s) \in Nat /\ Len(t) \in Nat /\ i \in 1..(Len(s) + Len(t))
    BY <1>1, <1>2
  <2>2. c[i] = g[st[i]] /\ i \in 1..Len(st) /\ i \in 1..(Len(a) + Len(b))
    BY <1>1, <1>2, <2>1
  <2>3. CASE i <= Len(s)
    <3>1. i \in 1..Len(s) /\ i <= Len(a)
      BY <1>2, <2>1, <2>3
    <3>2. st[i] = s[i] /\ (a \o b)[i] = a[i]
      BY <1>1, <1>3, <2>2, <2>3, <3>1
    <3> QED
      BY <1>2, <2>2, <3>1, <3>2
  <2>4. CASE ~(i <= Len(s))
    <3>1. i - Len(s) \in 1..Len(t) /\ ~(i <= Len(a)) /\ Len(a) = Len(s)
      BY <1>2, <2>1, <2>4
    <3>2. st[i] = t[i - Len(s)] /\ (a \o b)[i] = b[i - Len(s)]
      BY <1>1, <1>3, <2>2, <2>4, <3>1
    <3> QED
      BY <1>2, <2>2, <3>1, <3>2
  <2> QED
    BY <2>3, <2>4
<1>5. c = a \o b
  BY <1>1, <1>2, <1>3, <1>4, SeqEqual
<1> QED
  BY <1>5 DEF a, b, c, st

(* Flattening before or after. *)
LEMMA FlattenMapped ==
    ASSUME NEW M, NEW T, NEW g, MapsInto(g, M, Seq(T)), NEW c \in Seq(Seq(M)),
           NEW q, q = [i \in DOMAIN c |-> FlattenSeq(Mapped(g, c[i]))]
    PROVE  FlattenSeq(Mapped(g, FlattenSeq(c))) = FlattenSeq(q)
<1> DEFINE X == Seq(T)
<1>1. MapsInto(g, M, X)
  OBVIOUS
<1>2. \A s \in Seq(M) : Mapped(g, s) \in Seq(X)
  <2> HIDE DEF X
  <2> QED
    BY <1>1, MappedShape
<1>3. \A s \in Seq(M) : Mapped(g, s) \in Seq(Seq(T)) /\ FlattenSeq(Mapped(g, s)) \in Seq(T)
  BY <1>2, FlattenShape
<1>4. /\ q \in Seq(Seq(T)) /\ Len(q) = Len(c) /\ Len(c) \in Nat
      /\ \A i \in 1..Len(c) : q[i] = FlattenSeq(Mapped(g, c[i])) /\ c[i] \in Seq(M)
  <2>1. DOMAIN c = 1..Len(c) /\ Len(c) \in Nat /\ \A i \in 1..Len(c) : c[i] \in Seq(M)
    OBVIOUS
  <2>2. DOMAIN q = 1..Len(c) /\ \A i \in 1..Len(c) : q[i] = FlattenSeq(Mapped(g, c[i]))
    BY <2>1
  <2>3. \A i \in 1..Len(c) : q[i] \in Seq(T)
    BY <1>3, <2>1, <2>2
  <2>4. q = [i \in 1..Len(c) |-> q[i]]
    BY <2>1
  <2> QED
    BY <2>1, <2>2, <2>3, <2>4, FunctionIsSeq
<1> DEFINE F(n) == FlattenSeq(Mapped(g, FlatUpTo(c, n)))
           Good == {n \in 0..Len(c) : F(n) = FlatUpTo(q, n)}
<1>5. 0 \in Good
  <2>1. Mapped(g, <<>>) = <<>> /\ FlattenSeq(<<>>) = <<>> /\ 0 \in 0..Len(c)
    BY DEF Mapped, FlattenSeq
  <2>2. FlatUpTo(c, 0) = <<>> /\ FlatUpTo(q, 0) = <<>>
    BY DEF FlatUpTo
  <2> QED
    BY <2>1, <2>2
<1>6. ASSUME NEW n \in 0..Len(c), n # Len(c), n \in Good
      PROVE  n + 1 \in Good
  <2> DEFINE i == n + 1
             u == FlatUpTo(c, n)
             v == c[i]
  <2>1. i \in 0..Len(c) /\ i \in 1..Len(c) /\ i - 1 = n /\ i \in 1..Len(q)
    <3>1. Len(c) \in Nat /\ n \in 0..Len(c) /\ n # Len(c)
      BY <1>6
    <3> HIDE DEF Good
    <3>2. i \in 0..Len(c) /\ i \in 1..Len(c) /\ i - 1 = n
      BY <3>1
    <3> HIDE DEF i
    <3> QED
      BY <1>4, <3>2
  <2>2. /\ FlatUpTo(c, i) = u \o v /\ u \in Seq(M) /\ v \in Seq(M)
        /\ FlatUpTo(q, i) = FlatUpTo(q, n) \o FlattenSeq(Mapped(g, v))
    <3> HIDE DEF i
    <3>1. FlatUpTo(c, i) = FlatUpTo(c, n) \o c[i] /\ FlatUpTo(c, n) \in Seq(M)
      BY <2>1, FlattenShape
    <3>2. FlatUpTo(q, i) = FlatUpTo(q, n) \o q[i]
      BY <1>4, <2>1, FlattenShape
    <3> QED
      BY <1>4, <2>1, <3>1, <3>2
  <2> HIDE DEF i, u, v
  <2>3. Mapped(g, u \o v) = Mapped(g, u) \o Mapped(g, v)
    <3> HIDE DEF X
    <3> QED
      BY <1>1, <2>2, MappedConcat
  <2>4. FlattenSeq(Mapped(g, u) \o Mapped(g, v)) = FlattenSeq(Mapped(g, u)) \o FlattenSeq(Mapped(g, v))
    BY <1>3, <2>2, FlattenConcat
  <2>5. F(i) = FlattenSeq(Mapped(g, u)) \o FlattenSeq(Mapped(g, v))
    BY <2>2, <2>3, <2>4
  <2>6. FlattenSeq(Mapped(g, u)) = FlatUpTo(q, n)
    BY <1>6 DEF u
  <2>7. i \in Good
    BY <2>1, <2>2, <2>5, <2>6
  <2> QED
    BY <2>7 DEF i
<1> HIDE DEF Good
<1>7. Len(c) \in Good
  <2>1. Len(c) \in 0..Len(c)
    OBVIOUS
  <2> QED
    BY <1>4, <1>5, <1>6, <2>1, InductionUpTo
<1>8. FlattenSeq(c) = FlatUpTo(c, Len(c)) /\ FlattenSeq(q) = FlatUpTo(q, Len(c))
  BY <1>4, FlattenShape
<1> QED
  BY <1>7, <1>8 DEF Good

-----------------------------------------------------------------------------
(* The same without a set of elements at hand. *)

(* A sequence of sequences, and what they hold. *)
Pieces(p) == p \in Seq(ToSet(p)) /\ \A i \in DOMAIN p : p[i] \in Seq(ToSet(p[i]))

Elements(p) == UNION {ToSet(p[i]) : i \in DOMAIN p}

LEMMA SeqOfItself ==
    ASSUME NEW S, NEW s \in Seq(S)
    PROVE  /\ s \in Seq(ToSet(s)) /\ ToSet(s) \subseteq S
           /\ DOMAIN s = 1..Len(s) /\ Len(s) \in Nat
<1>1. DOMAIN s = 1..Len(s) /\ Len(s) \in Nat /\ s = [i \in 1..Len(s) |-> s[i]]
      /\ \A i \in 1..Len(s) : s[i] \in S
  OBVIOUS
<1>2. \A i \in 1..Len(s) : s[i] \in ToSet(s)
  BY <1>1 DEF ToSet
<1>3. s \in Seq(ToSet(s))
  BY <1>1, <1>2, FunctionIsSeq
<1>4. ToSet(s) \subseteq S
  BY <1>1 DEF ToSet
<1> QED
  BY <1>1, <1>3, <1>4

(* A function on 1..n is a sequence of what it holds. *)
LEMMA FunctionIsSequence ==
    ASSUME NEW n \in Nat, NEW f, DOMAIN f = 1..n, f = [i \in 1..n |-> f[i]]
    PROVE  f \in Seq(ToSet(f)) /\ Len(f) = n
<1>1. \A i \in 1..n : f[i] \in ToSet(f)
  BY DEF ToSet
<1> QED
  BY <1>1, FunctionIsSeq

LEMMA PiecesType ==
    ASSUME NEW p, Pieces(p)
    PROVE  /\ p \in Seq(Seq(Elements(p))) /\ DOMAIN p = 1..Len(p) /\ Len(p) \in Nat
           /\ \A i \in 1..Len(p) : p[i] \in Seq(ToSet(p[i]))
           /\ FlattenSeq(p) \in Seq(ToSet(FlattenSeq(p)))
           /\ FlattenSeq(p) \in Seq(Elements(p))
<1> DEFINE X == Seq(Elements(p))
           P == ToSet(p)
<1>1. p \in Seq(P)
  BY DEF Pieces
<1>2. DOMAIN p = 1..Len(p) /\ Len(p) \in Nat /\ p = [i \in 1..Len(p) |-> p[i]]
  <2> HIDE DEF P
  <2> QED
    BY <1>1
<1>3. ASSUME NEW i \in 1..Len(p)
      PROVE  p[i] \in Seq(ToSet(p[i])) /\ p[i] \in X
  <2> DEFINE S == ToSet(p[i])
             E == Elements(p)
             s == p[i]
  <2>1. s \in Seq(S) /\ S \subseteq E
    BY <1>2 DEF Pieces, Elements
  <2> HIDE DEF S, E, s
  <2>2. s \in Seq(E)
    BY <2>1
  <2> QED
    BY <2>1, <2>2 DEF S, E, s
<1>4. p \in Seq(X)
  <2> HIDE DEF X
  <2> QED
    BY <1>2, <1>3, FunctionIsSeq
<1>5. FlattenSeq(p) \in X
  BY <1>4, FlattenShape
<1> QED
  BY <1>2, <1>3, <1>4, <1>5, SeqOfItself

LEMMA MakePieces ==
    ASSUME NEW n \in Nat, NEW p, DOMAIN p = 1..n, p = [i \in 1..n |-> p[i]],
           \A i \in 1..n : p[i] \in Seq(ToSet(p[i]))
    PROVE  Pieces(p) /\ Len(p) = n
  BY FunctionIsSequence DEF Pieces

(* Two sequences of pieces have their elements in one set. *)
LEMMA CommonType ==
    ASSUME NEW p, Pieces(p), NEW q, Pieces(q)
    PROVE  \E T : p \in Seq(Seq(T)) /\ q \in Seq(Seq(T)) /\ Len(p) \in Nat
<1> DEFINE T == Elements(p) \cup Elements(q)
<1>1. p \in Seq(Seq(T)) /\ q \in Seq(Seq(T)) /\ Len(p) \in Nat
  <2> DEFINE A == Elements(p)
             B == Elements(q)
             X == Seq(T)
  <2>1. p \in Seq(Seq(A)) /\ q \in Seq(Seq(B)) /\ Len(p) \in Nat
    BY PiecesType
  <2>2. Seq(A) \subseteq X /\ Seq(B) \subseteq X
    <3>1. A \subseteq T /\ B \subseteq T
      OBVIOUS
    <3> HIDE DEF A, B, T
    <3> QED
      BY <3>1
  <2> HIDE DEF A, B, X
  <2>3. p \in Seq(X) /\ q \in Seq(X)
    <3> DEFINE Y == Seq(A)
               Z == Seq(B)
    <3>1. p \in Seq(Y) /\ q \in Seq(Z) /\ Y \subseteq X /\ Z \subseteq X
      BY <2>1, <2>2
    <3> HIDE DEF Y, Z
    <3> QED
      BY <3>1
  <2> QED
    BY <2>1, <2>3 DEF X
<1> QED
  BY <1>1

(* The sequences that differ in their first piece only. *)
LEMMA FlattenFirst ==
    ASSUME NEW p, Pieces(p), NEW q, Pieces(q), Len(p) = Len(q), Len(p) # 0, q[1] = <<>>,
           \A i \in 2..Len(p) : p[i] = q[i]
    PROVE  FlattenSeq(p) = p[1] \o FlattenSeq(q)
<1>1. PICK T : p \in Seq(Seq(T)) /\ q \in Seq(Seq(T)) /\ Len(p) \in Nat
  BY CommonType
<1>2. /\ \A n \in 0..Len(p) : FlatUpTo(q, n) \in Seq(T)
      /\ \A n \in 1..Len(p) : /\ FlatUpTo(p, n) = FlatUpTo(p, n - 1) \o p[n]
                              /\ FlatUpTo(q, n) = FlatUpTo(q, n - 1) \o q[n]
      /\ FlattenSeq(p) = FlatUpTo(p, Len(p)) /\ FlatUpTo(p, 0) = <<>>
      /\ FlattenSeq(q) = FlatUpTo(q, Len(p)) /\ FlatUpTo(q, 0) = <<>>
  BY <1>1, FlattenShape
<1>3. \A n \in 1..Len(p) : p[n] \in Seq(T)
  BY <1>1
<1> DEFINE first == p[1]
           Good == {n \in 0..Len(p) : n # 0 => FlatUpTo(p, n) = first \o FlatUpTo(q, n)}
<1>4. 0 \in Good
  BY <1>1
<1>5. ASSUME NEW n \in 0..Len(p), n # Len(p), n \in Good
      PROVE  n + 1 \in Good
  <2> DEFINE i == n + 1
  <2>1. i \in 0..Len(p) /\ i \in 1..Len(p) /\ i - 1 = n
    BY <1>1, <1>5
  <2>2. CASE n = 0
    <3>1. 1 \in 1..Len(p) /\ 1 - 1 = 0 /\ i = 1
      BY <2>1, <2>2
    <3> HIDE DEF i
    <3>2. FlatUpTo(p, 1) = <<>> \o first /\ FlatUpTo(q, 1) = <<>> \o <<>>
      BY <1>2, <3>1
    <3>3. first \in Seq(T)
      BY <1>3, <3>1
    <3>4. <<>> \o first = first \o (<<>> \o <<>>)
      <4> HIDE DEF first
      <4> QED
        BY <3>3
    <3>5. 1 \in Good
      BY <2>1, <3>1, <3>2, <3>4
    <3> QED
      BY <3>1, <3>5 DEF i
  <2>3. CASE n # 0
    <3> DEFINE x == FlatUpTo(q, n)
               y == q[i]
    <3>1. i \in 2..Len(p) /\ 1 \in 1..Len(p)
      BY <2>1, <2>3
    <3> HIDE DEF i
    <3>2. FlatUpTo(p, i) = (first \o x) \o y /\ FlatUpTo(q, i) = x \o y
      BY <1>2, <1>5, <2>1, <2>3, <3>1
    <3>3. first \in Seq(T) /\ x \in Seq(T) /\ y \in Seq(T)
      BY <1>2, <1>3, <2>1, <3>1
    <3> HIDE DEF first, x, y
    <3>4. (first \o x) \o y = first \o (x \o y)
      BY <3>3, ConcatAssociative
    <3> QED
      BY <2>1, <3>2, <3>4 DEF i
  <2> QED
    BY <2>2, <2>3
<1> HIDE DEF Good
<1>6. Len(p) \in Good
  <2>1. Len(p) \in 0..Len(p)
    BY <1>1
  <2> QED
    BY <1>1, <1>4, <1>5, <2>1, InductionUpTo
<1> QED
  BY <1>2, <1>6 DEF Good

(* Flattening before or after. *)
LEMMA FlattenThrough ==
    ASSUME NEW c, Pieces(c), NEW g, \A e \in Elements(c) : g[e] \in Seq(ToSet(g[e])),
           NEW q, q = [i \in DOMAIN c |-> FlattenSeq(Mapped(g, c[i]))]
    PROVE  FlattenSeq(Mapped(g, FlattenSeq(c))) = FlattenSeq(q)
<1> DEFINE M == Elements(c)
           T == UNION {ToSet(g[e]) : e \in M}
<1>1. ASSUME NEW e \in M
      PROVE  g[e] \in Seq(T)
  <2> DEFINE s == g[e]
             S == ToSet(s)
  <2>1. s \in Seq(S) /\ S \subseteq T
    OBVIOUS
  <2> HIDE DEF s, S, T
  <2>2. s \in Seq(T)
    BY <2>1
  <2> QED
    BY <2>2 DEF s
<1>2. c \in Seq(Seq(M))
  BY PiecesType
<1> HIDE DEF M, T
<1>3. MapsInto(g, M, Seq(T))
  BY <1>1 DEF MapsInto
<1> QED
  BY <1>2, <1>3, FlattenMapped

=============================================================================
