--------------------------- MODULE SequenceProofs ---------------------------
(***************************************************************************)
(* Lemmas about numbers and sequences that the proofs about the lists of   *)
(* the server and of its clients share: the least and the greatest of a    *)
(* set, and what a list holds after the operations of utils/linked_list.c. *)
(***************************************************************************)
EXTENDS Integers, FiniteSets, SequencesExt, SequenceTheorems,
        WellFoundedInduction, FiniteSetTheorems, TLAPS

-----------------------------------------------------------------------------
\* Numbers

\* A non-empty set of naturals has a least element, so Min is one.
LEMMA MinProperties ==
    ASSUME NEW S \in SUBSET Nat, S # {}
    PROVE  /\ Min(S) \in S
           /\ \A y \in S : Min(S) <= y
<1>1. PICK x \in S : \A y \in S : ~(<<y, x>> \in OpToRel(<, Nat))
    BY NatLessThanWellFounded, WFMin
<1>2. \A a, b \in Nat : a < b => <<a, b>> \in OpToRel(<, Nat)
    BY DEF OpToRel
<1>3. \A y \in S : ~(y < x)
    BY <1>1, <1>2
<1>4. \A y \in S : x <= y
    BY <1>3
<1> QED
    BY <1>4 DEF Min

\* A finite set of numbers has a greatest element.
LEMMA MaxProperties ==
    ASSUME NEW S, S \subseteq Nat, S # {}, IsFiniteSet(S)
    PROVE  Max(S) \in S /\ \A f \in S : f <= Max(S)
<1> DEFINE From(x) == {y \in S : x <= y}
           T == {X \in SUBSET S : \E x \in S : X = From(x)}
           R == StrictSubsetOrdering(S)
<1>1. IsWellFoundedOn(R, SUBSET S)
    BY FS_StrictSubsetOrderingWellFounded, FS_FiniteSubsetsOfFinite
<1>2. T \subseteq SUBSET S /\ T # {}
    <2>1. PICK x \in S : TRUE
        OBVIOUS
    <2>2. From(x) \in T
        BY <2>1
    <2> QED
        BY <2>2
<1> HIDE DEF R
<1>3. PICK X \in T : \A Y \in T : <<Y, X>> \notin R
    <2> HIDE DEF T
    <2> QED
        BY <1>1, <1>2, WFMin
<1>4. PICK m \in S : X = From(m)
    BY <1>3
<1>5. ASSUME NEW f \in S, ~(f <= m)
      PROVE  FALSE
    <2>1. m < f /\ m \in Nat /\ f \in Nat
        BY <1>5
    <2>2. From(f) \subseteq X /\ m \in X /\ m \notin From(f) /\ From(f) \in T
        <3>1. m \in From(m) /\ m \notin From(f) /\ From(f) \in T
            BY <2>1
        <3>2. \A y \in S : f <= y => m <= y
            BY <2>1
        <3>3. From(f) \subseteq From(m)
            BY <3>2
        <3> QED
            BY <1>4, <3>1, <3>3
    <2>3. From(f) \in SUBSET S /\ X \in SUBSET S
        BY <1>3
    <2> HIDE DEF From, T
    <2>4. <<From(f), X>> \in R
        BY <2>2, <2>3 DEF R, StrictSubsetOrdering
    <2> QED
        BY <1>3, <2>2, <2>4
<1>6. \A f \in S : f <= m
    BY <1>5
<1> QED
    BY <1>6 DEF Max

-----------------------------------------------------------------------------
\* The first and the last element

LEMMA NonEmptyHead ==
    ASSUME NEW S, NEW q \in Seq(S), q # <<>>
    PROVE  1 \in DOMAIN q /\ Head(q) = q[1]
BY HeadTailProperties, LenProperties, EmptySeq

LEMMA TailElements ==
    ASSUME NEW S, NEW q \in Seq(S), q # <<>>
    PROVE  \A i \in DOMAIN Tail(q) : /\ i \in Nat /\ i + 1 # 1
                                    /\ i + 1 \in DOMAIN q
                                    /\ Tail(q)[i] = q[i + 1]
BY HeadTailProperties, LenProperties, EmptySeq

LEMMA AppendedElements ==
    ASSUME NEW S, NEW q \in Seq(S), NEW e \in S
    PROVE  /\ DOMAIN Append(q, e) = DOMAIN q \cup {Len(q) + 1}
           /\ Len(q) + 1 \notin DOMAIN q
           /\ \A i \in DOMAIN q : Append(q, e)[i] = q[i]
           /\ Append(q, e)[Len(q) + 1] = e
<1>1. /\ DOMAIN q = 1 .. Len(q) /\ Len(q) \in Nat
      /\ DOMAIN Append(q, e) = 1 .. (Len(q) + 1)
      /\ \A i \in 1 .. Len(q) : Append(q, e)[i] = q[i]
      /\ Append(q, e)[Len(q) + 1] = e
    BY AppendProperties, LenProperties
<1>2. /\ 1 .. (Len(q) + 1) = 1 .. Len(q) \cup {Len(q) + 1}
      /\ Len(q) + 1 \notin 1 .. Len(q)
    BY <1>1
<1> QED
    BY <1>1, <1>2

LEMMA TailRest ==
    ASSUME NEW S, NEW q \in Seq(S), q # <<>>
    PROVE  \A i \in DOMAIN q : i # 1 => i - 1 \in DOMAIN Tail(q) /\ Tail(q)[i - 1] = q[i]
<1>1. /\ DOMAIN q = 1 .. Len(q) /\ Len(q) \in Nat
      /\ Tail(q) \in Seq(S) /\ Len(Tail(q)) = Len(q) - 1
      /\ \A i \in 1 .. Len(Tail(q)) : Tail(q)[i] = q[i + 1]
    BY HeadTailProperties, LenProperties, EmptySeq
<1>2. DOMAIN Tail(q) = 1 .. Len(Tail(q))
    BY <1>1, LenProperties
<1> QED
    BY <1>1, <1>2

-----------------------------------------------------------------------------
\* Elements taken out

\* SelectInSeq finds an element that is there.
LEMMA SelectFirst ==
    ASSUME NEW T, NEW s \in Seq(T), NEW e, \E i \in 1 .. Len(s) : s[i] = e
    PROVE  /\ SelectInSeq(s, LAMBDA v : v = e) \in 1 .. Len(s)
           /\ s[SelectInSeq(s, LAMBDA v : v = e)] = e
<1> DEFINE I == {i \in 1 .. Len(s) : s[i] = e}
<1>1. I \in SUBSET Nat /\ I # {}
    OBVIOUS
<1>2. Min(I) \in I
    BY <1>1, MinProperties
<1>3. SelectInSeq(s, LAMBDA v : v = e) = Min(I)
    BY <1>1 DEF SelectInSeq
<1> QED
    BY <1>2, <1>3

\* What RemoveAt returns, element by element.
LEMMA RemoveAtProperties ==
    ASSUME NEW T, NEW s \in Seq(T), NEW k \in 1 .. Len(s)
    PROVE  /\ RemoveAt(s, k) \in Seq(T)
           /\ Len(RemoveAt(s, k)) = Len(s) - 1
           /\ \A i \in 1 .. (Len(s) - 1) :
                 RemoveAt(s, k)[i] = IF i < k THEN s[i] ELSE s[i + 1]
<1> DEFINE a == SubSeq(s, 1, k - 1)
           b == SubSeq(s, k + 1, Len(s))
<1>0. Len(s) \in Nat
    BY LenProperties
<1>1. /\ a \in Seq(T) /\ Len(a) = k - 1
      /\ \A i \in 1 .. (k - 1) : a[i] = s[i]
    <2>1. \A i \in 1 .. (k - 1) : i \in 1 .. Len(s)
        BY <1>0
    <2> QED
        BY <1>0, <2>1, SubSeqProperties
<1>2. /\ b \in Seq(T) /\ Len(b) = Len(s) - k
      /\ \A i \in 1 .. (Len(s) - k) : b[i] = s[k + i]
    <2>1. \A i \in (k + 1) .. Len(s) : i \in 1 .. Len(s)
        BY <1>0
    <2>2. b \in Seq(T) /\ Len(b) = IF k + 1 <= Len(s) THEN Len(s) - (k + 1) + 1 ELSE 0
        BY <1>0, <2>1, SubSeqProperties
    <2>3. \A i \in 1 .. (Len(s) - (k + 1) + 1) : b[i] = s[(k + 1) + i - 1]
        BY <1>0, <2>1, SubSeqProperties
    <2> QED
        BY <1>0, <2>2, <2>3
<1>3. /\ a \o b \in Seq(T) /\ Len(a \o b) = Len(a) + Len(b)
      /\ \A i \in 1 .. Len(a) + Len(b) :
            (a \o b)[i] = IF i <= Len(a) THEN a[i] ELSE b[i - Len(a)]
    BY <1>1, <1>2, ConcatProperties
<1>4. RemoveAt(s, k) = a \o b
    BY DEF RemoveAt
<1> HIDE DEF a, b
<1>5. Len(a) + Len(b) = Len(s) - 1
    BY <1>0, <1>1, <1>2
<1>6. ASSUME NEW i \in 1 .. (Len(s) - 1)
      PROVE  (a \o b)[i] = IF i < k THEN s[i] ELSE s[i + 1]
    <2>1. CASE i < k
        BY <1>0, <1>1, <1>3, <1>5, <2>1
    <2>2. CASE ~(i < k)
        <3>1. i - Len(a) \in 1 .. (Len(s) - k) /\ k + (i - Len(a)) = i + 1
            BY <1>0, <1>1, <2>2
        <3>2. (a \o b)[i] = b[i - Len(a)]
            BY <1>0, <1>1, <1>3, <1>5, <2>2
        <3> QED
            BY <1>2, <2>2, <3>1, <3>2
    <2> QED
        BY <2>1, <2>2
<1> QED
    BY <1>3, <1>4, <1>5, <1>6

\* A sequence without the first element that is e.
LEMMA RemoveFirstProperties ==
    ASSUME NEW T, NEW q \in Seq(T), NEW e
    PROVE  /\ RemoveFirst(q, e) \in Seq(T)
           /\ (~\E i \in 1 .. Len(q) : q[i] = e) => RemoveFirst(q, e) = q
           /\ (\E i \in 1 .. Len(q) : q[i] = e) =>
                 \E k \in 1 .. Len(q) : q[k] = e /\ RemoveFirst(q, e) = RemoveAt(q, k)
<1>1. CASE \E i \in 1 .. Len(q) : q[i] = e
    <2> DEFINE k == SelectInSeq(q, LAMBDA v : v = e)
    <2>1. k \in 1 .. Len(q) /\ q[k] = e
        BY <1>1, SelectFirst
    <2>2. RemoveFirst(q, e) = RemoveAt(q, k)
        BY <1>1 DEF RemoveFirst
    <2>3. RemoveAt(q, k) \in Seq(T)
        BY <2>1, RemoveAtProperties
    <2> QED
        BY <1>1, <2>1, <2>2, <2>3
<1>2. CASE ~\E i \in 1 .. Len(q) : q[i] = e
    <2>1. RemoveFirst(q, e) = q
        BY <1>2 DEF RemoveFirst
    <2> QED
        BY <1>2, <2>1
<1> QED
    BY <1>1, <1>2

\* When no element is there twice, e is gone and the others stay, each once.
LEMMA RemoveFirstInjective ==
    ASSUME NEW T, NEW q \in Seq(T), IsInjective(q), NEW e
    PROVE  /\ ToSet(RemoveFirst(q, e)) = ToSet(q) \ {e}
           /\ IsInjective(RemoveFirst(q, e))
<1>0. Len(q) \in Nat /\ DOMAIN q = 1 .. Len(q)
    BY LenProperties
<1>1. CASE ~\E i \in 1 .. Len(q) : q[i] = e
    <2>1. RemoveFirst(q, e) = q
        BY <1>1, RemoveFirstProperties
    <2> QED
        BY <1>0, <1>1, <2>1 DEF ToSet
<1>2. CASE \E i \in 1 .. Len(q) : q[i] = e
    <2>1. PICK k \in 1 .. Len(q) : q[k] = e /\ RemoveFirst(q, e) = RemoveAt(q, k)
        BY <1>2, RemoveFirstProperties
    <2> DEFINE r == RemoveAt(q, k)
    <2>2. /\ r \in Seq(T) /\ Len(r) = Len(q) - 1
          /\ \A i \in 1 .. (Len(q) - 1) : r[i] = IF i < k THEN q[i] ELSE q[i + 1]
        BY RemoveAtProperties
    <2> HIDE DEF r
    <2>3. DOMAIN r = 1 .. (Len(q) - 1)
        BY <2>2, LenProperties
    <2>4. \A i \in 1 .. Len(q) : i # k => q[i] # e
        BY <1>0, <2>1 DEF IsInjective
    <2>5. \A i \in 1 .. (Len(q) - 1) :
             \E j \in 1 .. Len(q) : j # k /\ r[i] = q[j] /\ j = IF i < k THEN i ELSE i + 1
        <3> SUFFICES ASSUME NEW i \in 1 .. (Len(q) - 1)
                     PROVE  \E j \in 1 .. Len(q) :
                               j # k /\ r[i] = q[j] /\ j = IF i < k THEN i ELSE i + 1
            OBVIOUS
        <3>1. CASE i < k
            <4>1. i \in 1 .. Len(q) /\ i # k /\ r[i] = q[i]
                BY <1>0, <2>2, <3>1
            <4> QED
                BY <3>1, <4>1
        <3>2. CASE ~(i < k)
            <4>1. i + 1 \in 1 .. Len(q) /\ i + 1 # k /\ r[i] = q[i + 1]
                BY <1>0, <2>2, <3>2
            <4> QED
                BY <3>2, <4>1
        <3> QED
            BY <3>1, <3>2
    <2>6. \A j \in 1 .. Len(q) : j # k =>
             \E i \in 1 .. (Len(q) - 1) : r[i] = q[j]
        <3> SUFFICES ASSUME NEW j \in 1 .. Len(q), j # k
                     PROVE  \E i \in 1 .. (Len(q) - 1) : r[i] = q[j]
            OBVIOUS
        <3>1. CASE j < k
            <4>1. j \in 1 .. (Len(q) - 1)
                BY <1>0, <3>1
            <4> QED
                BY <2>2, <3>1, <4>1
        <3>2. CASE j > k
            <4>1. j - 1 \in 1 .. (Len(q) - 1) /\ ~(j - 1 < k) /\ (j - 1) + 1 = j
                BY <1>0, <3>2
            <4> QED
                BY <2>2, <4>1
        <3> QED
            BY <1>0, <3>1, <3>2
    <2>7. ToSet(r) = ToSet(q) \ {e}
        <3>1. /\ ToSet(r) = {r[i] : i \in 1 .. (Len(q) - 1)}
              /\ ToSet(q) = {q[i] : i \in 1 .. Len(q)}
            BY <1>0, <2>3 DEF ToSet
        <3>2. \A x \in ToSet(r) : x \in ToSet(q) /\ x # e
            BY <2>4, <2>5, <3>1
        <3>3. \A x \in ToSet(q) : x # e => x \in ToSet(r)
            BY <2>1, <2>6, <3>1
        <3> QED
            BY <2>1, <3>2, <3>3
    <2>8. IsInjective(r)
        <3> SUFFICES ASSUME NEW a \in 1 .. (Len(q) - 1), NEW b \in 1 .. (Len(q) - 1),
                            r[a] = r[b]
                     PROVE  a = b
            BY <2>3 DEF IsInjective
        <3>1. PICK i \in 1 .. Len(q) : i # k /\ r[a] = q[i] /\ i = IF a < k THEN a ELSE a + 1
            BY <2>5
        <3>2. PICK j \in 1 .. Len(q) : j # k /\ r[b] = q[j] /\ j = IF b < k THEN b ELSE b + 1
            BY <2>5
        <3>3. i = j
            BY <1>0, <3>1, <3>2 DEF IsInjective
        <3> QED
            BY <1>0, <3>1, <3>2, <3>3
    <2> QED
        BY <2>1, <2>7, <2>8 DEF r
<1> QED
    BY <1>1, <1>2

-----------------------------------------------------------------------------
\* How often an element occurs in a sequence.
Once(q, e) == \E i \in DOMAIN q : q[i] = e /\ \A j \in DOMAIN q : q[j] = e => j = i
Never(q, e) == \A i \in DOMAIN q : q[i] # e

LEMMA OccursAppend ==
    ASSUME NEW S, NEW q \in Seq(S), NEW e \in S, NEW f
    PROVE  /\ e # f => /\ Once(q, f) => Once(Append(q, e), f)
                       /\ Never(q, f) => Never(Append(q, e), f)
           /\ e = f /\ Never(q, f) => Once(Append(q, e), f)
<1> DEFINE r == Append(q, e)
           n == Len(q)
<1>1. /\ DOMAIN q = 1 .. n /\ DOMAIN r = 1 .. (n + 1) /\ n \in Nat
      /\ \A i \in 1 .. n : r[i] = q[i]
      /\ r[n + 1] = e
    BY AppendProperties, LenProperties
<1> HIDE DEF r, n
<1>2. n + 1 \in 1 .. (n + 1) /\ n + 1 \notin 1 .. n /\ 1 .. n \subseteq 1 .. (n + 1)
    BY <1>1
<1>3. \A i \in 1 .. (n + 1) : i \in 1 .. n \/ i = n + 1
    BY <1>1
<1>4. ASSUME e # f, Once(q, f)
      PROVE  Once(r, f)
    <2>1. PICK i \in 1 .. n : q[i] = f /\ \A j \in 1 .. n : q[j] = f => j = i
        BY <1>1, <1>4 DEF Once
    <2>2. i \in DOMAIN r /\ r[i] = f /\ \A j \in DOMAIN r : r[j] = f => j = i
        BY <1>1, <1>2, <1>3, <1>4, <2>1
    <2> QED
        BY <2>2 DEF Once
<1>5. ASSUME e # f, Never(q, f)
      PROVE  Never(r, f)
    BY <1>1, <1>3, <1>5 DEF Never
<1>6. ASSUME e = f, Never(q, f)
      PROVE  Once(r, f)
    <2>1. /\ n + 1 \in DOMAIN r /\ r[n + 1] = f
          /\ \A j \in DOMAIN r : r[j] = f => j = n + 1
        BY <1>1, <1>2, <1>3, <1>6 DEF Never
    <2> QED
        BY <2>1 DEF Once
<1> QED
    BY <1>4, <1>5, <1>6 DEF r

LEMMA OccursTail ==
    ASSUME NEW S, NEW q \in Seq(S), q # <<>>, NEW f
    PROVE  /\ Head(q) # f => /\ Once(q, f) => Once(Tail(q), f)
                             /\ Never(q, f) => Never(Tail(q), f)
           /\ Head(q) = f => ~Never(q, f) /\ (Once(q, f) => Never(Tail(q), f))
<1> DEFINE r == Tail(q)
           n == Len(q)
<1>1. /\ DOMAIN q = 1 .. n /\ DOMAIN r = 1 .. (n - 1) /\ n \in Nat /\ n > 0
      /\ \A i \in 1 .. (n - 1) : r[i] = q[i + 1]
      /\ Head(q) = q[1]
    BY HeadTailProperties, LenProperties, EmptySeq
<1> HIDE DEF r, n
<1>2. /\ 1 \in 1 .. n
      /\ \A i \in 1 .. (n - 1) : i + 1 \in 1 .. n /\ i + 1 # 1
      /\ \A i, j \in 1 .. (n - 1) : i + 1 = j + 1 => i = j
      /\ \A i \in 1 .. n : i # 1 => i - 1 \in 1 .. (n - 1) /\ (i - 1) + 1 = i
    BY <1>1
<1>3. ASSUME Head(q) # f, Once(q, f)
      PROVE  Once(r, f)
    <2>1. PICK i \in 1 .. n : q[i] = f /\ \A j \in 1 .. n : q[j] = f => j = i
        BY <1>1, <1>3 DEF Once
    <2>2. i # 1
        BY <1>1, <1>3, <2>1
    <2>3. PICK k \in 1 .. (n - 1) : k + 1 = i
        BY <1>2, <2>2
    <2>4. r[k] = f /\ \A j \in 1 .. (n - 1) : r[j] = f => j = k
        BY <1>1, <1>2, <2>1, <2>3
    <2> QED
        BY <1>1, <2>4 DEF Once
<1>4. ASSUME Never(q, f)
      PROVE  Never(r, f)
    BY <1>1, <1>2, <1>4 DEF Never
<1>5. ASSUME Head(q) = f
      PROVE  ~Never(q, f) /\ (Once(q, f) => Never(r, f))
    <2>1. ~Never(q, f)
        BY <1>1, <1>2, <1>5 DEF Never
    <2>2. ASSUME Once(q, f)
          PROVE  Never(r, f)
        <3>1. \A j \in 1 .. n : q[j] = f => j = 1
            BY <1>1, <1>2, <1>5, <2>2 DEF Once
        <3> QED
            BY <1>1, <1>2, <3>1 DEF Never
    <2> QED
        BY <2>1, <2>2
<1> QED
    BY <1>3, <1>4, <1>5 DEF r
=============================================================================
