------------------------------ MODULE DataLemmas ------------------------------
(***************************************************************************)
(* Facts about data that the proofs share: induction over the naturals and *)
(* recursion along them, stated about sets, and the sequence operators the *)
(* models use.                                                             *)
(***************************************************************************)
EXTENDS Integers, FiniteSets, SequencesExt, WellFoundedInduction, FiniteSetTheorems, SequenceTheorems, TLAPS

\* The order of the naturals is well founded.
LEMMA LeastMember ==
  ASSUME NEW T \in SUBSET Nat, T # {}
  PROVE  \E n \in T : \A k \in T : n <= k
<1> DEFINE R == {ss \in Nat \X Nat : ss[1] < ss[2]}
<1>1. IsWellFoundedOn(R, Nat)
  BY NatLessThanWellFounded DEF OpToRel
<1>2. PICK n \in T : \A k \in T : <<k, n>> \notin R
  BY <1>1, WFMin
<1>3. \A k \in T : ~ (k < n)
  BY <1>2
<1> QED
  BY <1>2, <1>3

\* A set of naturals with 0 and every successor is all of them.
LEMMA SetInduction ==
  ASSUME NEW T \in SUBSET Nat, 0 \in T, \A n \in T : n + 1 \in T
  PROVE  T = Nat
<1> SUFFICES ASSUME T # Nat PROVE FALSE
  OBVIOUS
<1>1. PICK n \in Nat \ T : \A k \in Nat \ T : n <= k
  BY LeastMember
<1>2. n # 0 /\ n - 1 \in Nat
  BY <1>1
<1>3. n - 1 \in T
  BY <1>1, <1>2
<1> QED
  BY <1>1, <1>2, <1>3

\* The same up to a bound.
LEMMA SetInductionUpTo ==
  ASSUME NEW n \in Nat, NEW T, 0 \in T, \A k \in 1 .. n : k - 1 \in T => k \in T
  PROVE  0 .. n \subseteq T
<1> DEFINE U == {k \in Nat : k <= n => k \in T}
<1>1. 0 \in U
  OBVIOUS
<1>2. ASSUME NEW k \in U PROVE k + 1 \in U
  <2>1. k + 1 <= n => k + 1 \in 1 .. n /\ (k + 1) - 1 = k /\ k \in T
    OBVIOUS
  <2> QED
    BY <2>1
<1>3. U = Nat
  BY <1>1, <1>2, SetInduction
<1> QED
  BY <1>3

\* The values in S a base goes through in n steps, the k-th one taken at k.
Courses(S, base, step, n) ==
  {f \in [0 .. n -> S] : f[0] = base /\ \A k \in 1 .. n : f[k] = step[<<k, f[k - 1]>>]}

LEMMA Recursion ==
  ASSUME NEW S, NEW base \in S, NEW step \in [Nat \X S -> S], NEW n \in Nat
  PROVE  Courses(S, base, step, n) # {}
<1> DEFINE Reaches(m) == \E f \in [0 .. m -> S] : f[0] = base /\ \A k \in 1 .. m : f[k] = step[<<k, f[k - 1]>>]
           T == {m \in Nat : Reaches(m)}
<1>1. 0 \in T
  <2> DEFINE f == [k \in 0 .. 0 |-> base]
  <2>1. f \in [0 .. 0 -> S] /\ f[0] = base /\ \A k \in 1 .. 0 : f[k] = step[<<k, f[k - 1]>>]
    OBVIOUS
  <2> HIDE DEF f
  <2> QED
    BY <2>1
<1>2. ASSUME NEW m \in T PROVE m + 1 \in T
  <2>1. PICK f \in [0 .. m -> S] : f[0] = base /\ \A k \in 1 .. m : f[k] = step[<<k, f[k - 1]>>]
    BY <1>2
  <2> DEFINE g == [k \in 0 .. m + 1 |-> IF k = m + 1 THEN step[<<k, f[m]>>] ELSE f[k]]
  <2>2. step[<<m + 1, f[m]>>] \in S
    OBVIOUS
  <2>3. g \in [0 .. m + 1 -> S] /\ g[0] = base
    BY <2>1, <2>2
  <2>4. ASSUME NEW k \in 1 .. m + 1 PROVE g[k] = step[<<k, g[k - 1]>>]
    <3>1. CASE k = m + 1
      BY <3>1
    <3>2. CASE k # m + 1
      BY <2>1, <3>2
    <3> QED
      BY <3>1, <3>2
  <2>5. m + 1 \in Nat
    OBVIOUS
  <2> HIDE DEF g
  <2>6. Reaches(m + 1)
    BY <2>3, <2>4
  <2> QED
    BY <2>5, <2>6
<1>3. T = Nat
  BY <1>1, <1>2, SetInduction
<1> QED
  BY <1>3 DEF Courses

\* The values in S a base goes through by the same step, n times.
Iterations(S, base, step, n) ==
  {f \in [0 .. n -> S] : f = [k \in 0 .. n |-> IF k = 0 THEN base ELSE step[f[k - 1]]]}

LEMMA Iterates ==
  ASSUME NEW S, NEW base \in S, NEW step \in [S -> S], NEW n \in Nat
  PROVE  Iterations(S, base, step, n) # {}
<1> DEFINE by == [p \in Nat \X S |-> step[p[2]]]
<1>1. by \in [Nat \X S -> S]
  OBVIOUS
<1>2. PICK f \in [0 .. n -> S] : f[0] = base /\ \A k \in 1 .. n : f[k] = by[<<k, f[k - 1]>>]
  <2> HIDE DEF by
  <2>1. Courses(S, base, by, n) # {}
    BY <1>1, Recursion
  <2> QED
    BY <2>1 DEF Courses
<1>3. ASSUME NEW k \in 1 .. n PROVE f[k] = step[f[k - 1]]
  <2>1. k \in Nat /\ k - 1 \in 0 .. n
    OBVIOUS
  <2>2. <<k, f[k - 1]>> \in Nat \X S
    BY <2>1
  <2> QED
    BY <1>2, <2>2
<1>4. ASSUME NEW k \in 0 .. n PROVE f[k] = IF k = 0 THEN base ELSE step[f[k - 1]]
  <2>1. k # 0 => k \in 1 .. n
    OBVIOUS
  <2> QED
    BY <1>2, <1>3, <2>1
<1>5. f = [k \in 0 .. n |-> f[k]]
  OBVIOUS
<1>6. f = [k \in 0 .. n |-> IF k = 0 THEN base ELSE step[f[k - 1]]]
  BY <1>4, <1>5, Zenon
<1> QED
  BY <1>6 DEF Iterations

(***************************************************************************)
(* Sequences and the sets of their elements.                               *)
(***************************************************************************)
LEMMA ElementsOf ==
  ASSUME NEW S, NEW s \in Seq(S)
  PROVE  /\ ToSet(s) \subseteq S
         /\ \A e : Contains(s, e) <=> e \in ToSet(s)
         /\ s = <<>> <=> ToSet(s) = {}
         /\ ToSet(<<>>) = {}
BY DEF ToSet, Contains

LEMMA EmptyAndLength ==
  ASSUME NEW S, NEW s \in Seq(S)
  PROVE  /\ Len(s) \in Nat /\ (Len(s) = 0 <=> s = <<>>)
         /\ <<>> \in Seq(S) /\ s \o <<>> = s /\ <<>> \o s = s
OBVIOUS

LEMMA SeqOfMore ==
  ASSUME NEW A, NEW B, A \subseteq B
  PROVE  Seq(A) \subseteq Seq(B)
OBVIOUS

LEMMA ElementsOfConcat ==
  ASSUME NEW S, NEW s \in Seq(S), NEW t \in Seq(S)
  PROVE  s \o t \in Seq(S) /\ ToSet(s \o t) = ToSet(s) \cup ToSet(t)
<1>1. s \o t \in Seq(S) /\ Len(s \o t) = Len(s) + Len(t)
  OBVIOUS
<1>2. ASSUME NEW i \in DOMAIN (s \o t) PROVE (s \o t)[i] \in ToSet(s) \cup ToSet(t)
  BY DEF ToSet
<1>3. ASSUME NEW i \in DOMAIN s PROVE s[i] \in ToSet(s \o t)
  <2>1. i \in DOMAIN (s \o t) /\ (s \o t)[i] = s[i]
    OBVIOUS
  <2> QED
    BY <2>1 DEF ToSet
<1>4. ASSUME NEW i \in DOMAIN t PROVE t[i] \in ToSet(s \o t)
  <2>1. Len(s) + i \in DOMAIN (s \o t) /\ (s \o t)[Len(s) + i] = t[i]
    OBVIOUS
  <2> QED
    BY <2>1 DEF ToSet
<1> QED
  BY <1>1, <1>2, <1>3, <1>4 DEF ToSet

LEMMA ElementsOfAppend ==
  ASSUME NEW S, NEW s \in Seq(S), NEW e \in S
  PROVE  /\ Append(s, e) \in Seq(S)
         /\ ToSet(Append(s, e)) = ToSet(s) \cup {e}
         /\ e \notin ToSet(s) /\ IsInjective(s) => IsInjective(Append(s, e))
<1>1. ToSet(Append(s, e)) = ToSet(s) \cup {e}
  <2>1. /\ Append(s, e)[Len(s) + 1] = e /\ DOMAIN Append(s, e) = 1 .. Len(s) + 1
        /\ \A i \in 1 .. Len(s) : Append(s, e)[i] = s[i]
    OBVIOUS
  <2> QED
    BY <2>1 DEF ToSet
<1>2. e \notin ToSet(s) /\ IsInjective(s) => IsInjective(Append(s, e))
  BY DEF ToSet, IsInjective
<1> QED
  BY <1>1, <1>2

\* A sequence of the elements of a finite set, each once.
LEMMA ElementsOfSetToSeq ==
  ASSUME NEW S, IsFiniteSet(S)
  PROVE  SetToSeq(S) \in Seq(S) /\ ToSet(SetToSeq(S)) = S /\ IsInjective(SetToSeq(S))
<1>1. Cardinality(S) \in Nat
  BY FS_CardinalityType
<1>2. PICK f \in Bijection(1 .. Cardinality(S), S) : TRUE
  BY FS_CardinalityType DEF ExistsBijection
<1>3. f \in [1 .. Cardinality(S) -> S] /\ IsInjective(f)
  BY <1>2 DEF Bijection, Injection, IsInjective
<1>4. SetToSeq(S) \in [1 .. Cardinality(S) -> S] /\ IsInjective(SetToSeq(S))
  BY <1>3 DEF SetToSeq
<1>5. SetToSeq(S) \in Injection(1 .. Cardinality(S), S)
  BY <1>4 DEF Injection
<1>6. Cardinality(1 .. Cardinality(S)) = Cardinality(S)
  BY <1>1, FS_Interval
<1>7. SetToSeq(S) \in Surjection(1 .. Cardinality(S), S)
  BY <1>5, <1>6, FS_Injection
<1>8. ToSet(SetToSeq(S)) = S
  BY <1>4, <1>7 DEF Surjection, ToSet
<1>9. SetToSeq(S) \in Seq(S)
  BY <1>1, <1>4
<1> QED
  BY <1>4, <1>8, <1>9

LEMMA InjectiveConcat ==
  ASSUME NEW S, NEW s \in Seq(S), NEW t \in Seq(S),
         IsInjective(s), IsInjective(t), ToSet(s) \cap ToSet(t) = {}
  PROVE  IsInjective(s \o t)
<1> SUFFICES ASSUME NEW i \in DOMAIN (s \o t), NEW j \in DOMAIN (s \o t), (s \o t)[i] = (s \o t)[j]
             PROVE  i = j
  BY DEF IsInjective
<1>0. /\ Len(s) \in Nat /\ Len(t) \in Nat /\ DOMAIN s = 1 .. Len(s) /\ DOMAIN t = 1 .. Len(t)
      /\ i \in 1 .. Len(s) + Len(t) /\ j \in 1 .. Len(s) + Len(t)
  OBVIOUS
<1>1. ASSUME NEW k \in 1 .. Len(s) + Len(t)
      PROVE  \/ k \in DOMAIN s /\ (s \o t)[k] = s[k]
             \/ k - Len(s) \in DOMAIN t /\ (s \o t)[k] = t[k - Len(s)] /\ k \notin DOMAIN s
  <2>1. CASE k <= Len(s)
    BY <2>1
  <2>2. CASE ~(k <= Len(s))
    <3>1. (s \o t)[k] = t[k - Len(s)]
      BY <2>2
    <3> QED
      BY <1>0, <2>2, <3>1
  <2> QED
    BY <2>1, <2>2
<1>2. CASE i \in DOMAIN s /\ j \in DOMAIN s
  <2>1. s[i] = s[j]
    BY <1>0, <1>1, <1>2
  <2> QED
    BY <1>2, <2>1 DEF IsInjective
<1>3. CASE i \notin DOMAIN s /\ j \notin DOMAIN s
  <2>1. i - Len(s) \in DOMAIN t /\ j - Len(s) \in DOMAIN t /\ t[i - Len(s)] = t[j - Len(s)]
    BY <1>0, <1>1, <1>3
  <2>2. i - Len(s) = j - Len(s)
    BY <2>1 DEF IsInjective
  <2> QED
    BY <1>0, <2>2
<1>4. CASE i \in DOMAIN s /\ j \notin DOMAIN s
  <2>1. s[i] \in ToSet(s) /\ t[j - Len(s)] \in ToSet(t) /\ s[i] = t[j - Len(s)]
    BY <1>0, <1>1, <1>4 DEF ToSet
  <2> QED
    BY <2>1
<1>5. CASE i \notin DOMAIN s /\ j \in DOMAIN s
  <2>1. s[j] \in ToSet(s) /\ t[i - Len(s)] \in ToSet(t) /\ s[j] = t[i - Len(s)]
    BY <1>0, <1>1, <1>5 DEF ToSet
  <2> QED
    BY <2>1
<1> QED
  BY <1>2, <1>3, <1>4, <1>5

\* The two parts of a sequence cut after its k-th element.
LEMMA CutInTwo ==
  ASSUME NEW S, NEW s \in Seq(S), NEW k \in 0 .. Len(s)
  PROVE  /\ SubSeq(s, 1, k) \in Seq(S) /\ SubSeq(s, k + 1, Len(s)) \in Seq(S)
         /\ SubSeq(s, 1, k) \o SubSeq(s, k + 1, Len(s)) = s
         /\ Len(SubSeq(s, 1, k)) = k
<1>1. SubSeq(s, 1, k) \o SubSeq(s, k + 1, Len(s)) = SubSeq(s, 1, Len(s))
  <2>1. 1 \in 1 .. Len(s) + 1 /\ k \in 1 - 1 .. Len(s) /\ Len(s) \in k .. Len(s)
    OBVIOUS
  <2> QED
    BY <2>1, ConcatAdjacentSubSeq, Zenon
<1>2. SubSeq(s, 1, k) \in Seq(S) /\ Len(SubSeq(s, 1, k)) = k
  BY SubSeqProperties
<1>3. SubSeq(s, k + 1, Len(s)) \in Seq(S)
  BY SubSeqProperties
<1> QED
  BY <1>1, <1>2, <1>3, SubSeqFull

LEMMA ElementsOfTail ==
  ASSUME NEW S, NEW s \in Seq(S), s # <<>>
  PROVE  /\ Head(s) \in S /\ Tail(s) \in Seq(S) /\ Len(Tail(s)) = Len(s) - 1
         /\ ToSet(s) = {Head(s)} \cup ToSet(Tail(s))
<1>1. /\ Head(s) \in S /\ Head(s) = s[1] /\ Tail(s) \in Seq(S) /\ Len(Tail(s)) = Len(s) - 1
      /\ \A i \in 1 .. Len(Tail(s)) : Tail(s)[i] = s[i + 1]
      /\ Len(s) \in Nat /\ Len(s) > 0
  BY HeadTailProperties
<1>2. ASSUME NEW i \in DOMAIN s PROVE s[i] \in {Head(s)} \cup ToSet(Tail(s))
  <2>1. CASE i = 1
    BY <1>1, <2>1
  <2>2. CASE i # 1
    <3>1. i - 1 \in 1 .. Len(Tail(s)) /\ Tail(s)[i - 1] = s[i]
      BY <1>1, <2>2
    <3>2. DOMAIN Tail(s) = 1 .. Len(Tail(s))
      BY <1>1
    <3> QED
      BY <3>1, <3>2 DEF ToSet
  <2> QED
    BY <2>1, <2>2
<1>3. ASSUME NEW i \in DOMAIN Tail(s) PROVE Tail(s)[i] \in ToSet(s)
  <2>1. i \in 1 .. Len(Tail(s))
    BY <1>1
  <2>2. i + 1 \in DOMAIN s /\ s[i + 1] = Tail(s)[i]
    BY <1>1, <2>1
  <2> QED
    BY <2>2 DEF ToSet
<1>4. Head(s) \in ToSet(s)
  <2>1. 1 \in DOMAIN s
    BY <1>1
  <2> QED
    BY <1>1, <2>1 DEF ToSet
<1> QED
  BY <1>1, <1>2, <1>3, <1>4 DEF ToSet

LEMMA ElementsOfRemoveAt ==
  ASSUME NEW S, NEW s \in Seq(S), NEW r \in DOMAIN s
  PROVE  /\ RemoveAt(s, r) \in Seq(S)
         /\ ToSet(RemoveAt(s, r)) \subseteq ToSet(s)
         /\ \A i \in DOMAIN s : i # r => s[i] \in ToSet(RemoveAt(s, r))
<1> DEFINE left == SubSeq(s, 1, r - 1)
           right == SubSeq(s, r + 1, Len(s))
<1>1. Len(s) \in Nat /\ DOMAIN s = 1 .. Len(s)
  OBVIOUS
<1>2. /\ left \in Seq(S) /\ Len(left) = r - 1 /\ DOMAIN left = 1 .. r - 1
      /\ \A i \in 1 .. r - 1 : left[i] = s[i]
  <2>1. \A i \in 1 .. r - 1 : s[i] \in S
    BY <1>1
  <2>2. r - 1 \in Int /\ r - 1 >= 0
    BY <1>1
  <2>3. left \in Seq(S) /\ Len(left) = r - 1 /\ \A i \in 1 .. r - 1 : left[i] = s[i]
    BY <2>1, <2>2, SubSeqProperties
  <2> QED
    BY <2>3
<1>3. /\ right \in Seq(S) /\ Len(right) = Len(s) - r /\ DOMAIN right = 1 .. Len(s) - r
      /\ \A i \in 1 .. Len(s) - r : right[i] = s[r + i]
  <2>1. \A i \in r + 1 .. Len(s) : s[i] \in S
    BY <1>1
  <2>2. right \in Seq(S) /\ Len(right) = Len(s) - r /\ \A i \in 1 .. Len(s) - (r + 1) + 1 : right[i] = s[(r + 1) + i - 1]
    BY <1>1, <2>1, SubSeqProperties
  <2> QED
    BY <1>1, <2>2
<1>4. RemoveAt(s, r) = left \o right
  BY DEF RemoveAt
<1> HIDE DEF left, right
<1>5. RemoveAt(s, r) \in Seq(S) /\ ToSet(RemoveAt(s, r)) = ToSet(left) \cup ToSet(right)
  BY <1>2, <1>3, <1>4, ElementsOfConcat
<1>6. ToSet(left) \subseteq ToSet(s) /\ ToSet(right) \subseteq ToSet(s)
  <2>1. \A i \in 1 .. r - 1 : i \in DOMAIN s
    BY <1>1
  <2>2. \A i \in 1 .. Len(s) - r : r + i \in DOMAIN s
    BY <1>1
  <2> QED
    BY <1>2, <1>3, <2>1, <2>2 DEF ToSet
<1>7. ASSUME NEW i \in DOMAIN s, i # r PROVE s[i] \in ToSet(left) \cup ToSet(right)
  <2>1. CASE i < r
    <3>1. i \in 1 .. r - 1
      BY <1>1, <2>1
    <3> QED
      BY <1>2, <3>1 DEF ToSet
  <2>2. CASE ~(i < r)
    <3>1. i - r \in 1 .. Len(s) - r /\ r + (i - r) = i
      BY <1>1, <1>7, <2>2
    <3> QED
      BY <1>3, <3>1 DEF ToSet
  <2> QED
    BY <2>1, <2>2
<1> QED
  BY <1>5, <1>6, <1>7

\* One sequence after the other.
LEMMA FlattenSteps ==
  ASSUME NEW E, NEW seqs \in Seq(Seq(E)), Len(seqs) > 0
  PROVE  \E f : /\ FlattenSeq(seqs) = f[Len(seqs)] /\ f[1] = seqs[1]
                /\ \A k \in 2 .. Len(seqs) : f[k] = f[k - 1] \o seqs[k]
<1> DEFINE n == Len(seqs)
           S == Seq(E)
           step == [p \in Nat \X S |-> IF p[1] \in 1 .. n THEN p[2] \o seqs[p[1]] ELSE p[2]]
<1>1. n \in Nat /\ n > 0 /\ DOMAIN seqs = 1 .. n /\ <<>> \in S /\ \A k \in 1 .. n : seqs[k] \in S
  OBVIOUS
<1>2. ASSUME NEW s \in S, NEW k \in 1 .. n PROVE s \o seqs[k] \in S
  <2>1. seqs[k] \in Seq(E)
    BY <1>1
  <2> QED
    BY <2>1, ElementsOfConcat
<1>3. step \in [Nat \X S -> S]
  <2> HIDE DEF S, n
  <2> QED
    BY <1>2
<1>4. \A s \in S : <<>> \o s = s
  OBVIOUS
<1> HIDE DEF n, S
<1>5. PICK g \in [0 .. n -> S] : g[0] = <<>> /\ \A k \in 1 .. n : g[k] = step[<<k, g[k - 1]>>]
  <2> HIDE DEF step
  <2>1. Courses(S, <<>>, step, n) # {}
    BY <1>1, <1>3, Recursion
  <2> QED
    BY <2>1 DEF Courses
<1>6. ASSUME NEW k \in 1 .. n PROVE g[k] = g[k - 1] \o seqs[k]
  <2>1. k \in Nat /\ k - 1 \in 0 .. n
    BY <1>1
  <2>2. <<k, g[k - 1]>> \in Nat \X S
    BY <2>1
  <2> QED
    BY <1>5, <2>2
<1> DEFINE h == [k \in 1 .. n |-> g[k]]
<1>7. h = [k \in 1 .. n |-> IF k = 1 THEN seqs[k] ELSE h[k - 1] \o seqs[k]]
  <2>1. ASSUME NEW k \in 1 .. n PROVE h[k] = IF k = 1 THEN seqs[k] ELSE h[k - 1] \o seqs[k]
    <3>1. CASE k = 1
      <4>1. k - 1 = 0
        BY <3>1
      <4>2. g[k] = g[k - 1] \o seqs[k]
        BY <1>6
      <4>3. g[k - 1] = <<>>
        BY <1>5, <4>1
      <4>4. <<>> \o seqs[k] = seqs[k]
        BY <1>1, <1>4
      <4> QED
        BY <3>1, <4>2, <4>3, <4>4
    <3>2. CASE k # 1
      <4>1. k - 1 \in 1 .. n
        BY <1>1, <3>2
      <4> QED
        BY <1>6, <3>2, <4>1
    <3> QED
      BY <3>1, <3>2
  <2>2. DOMAIN h = 1 .. n
    OBVIOUS
  <2> HIDE DEF h
  <2>3. h = [k \in 1 .. n |-> h[k]]
    BY <2>2, <1>5 DEF h
  <2> QED
    BY <2>1, <2>3
<1>8. PICK f : /\ f = [k \in 1 .. n |-> IF k = 1 THEN seqs[k] ELSE f[k - 1] \o seqs[k]]
               /\ FlattenSeq(seqs) = f[n]
  <2> HIDE DEF h
  <2>1. Len(seqs) # 0
    BY <1>1 DEF n
  <2> QED
    BY <1>7, <2>1 DEF FlattenSeq, n
<1>9. f[1] = seqs[1] /\ \A k \in 2 .. n : f[k] = f[k - 1] \o seqs[k]
  <2>1. 1 \in 1 .. n /\ \A k \in 2 .. n : k \in 1 .. n /\ k # 1
    BY <1>1
  <2> QED
    BY <1>8, <2>1
<1> QED
  BY <1>8, <1>9 DEF n

LEMMA ElementsOfFlatten ==
  ASSUME NEW E, NEW seqs \in Seq(Seq(E))
  PROVE  /\ FlattenSeq(seqs) \in Seq(E)
         /\ ToSet(FlattenSeq(seqs)) = UNION {ToSet(seqs[i]) : i \in 1 .. Len(seqs)}
<1> DEFINE n == Len(seqs)
           Upto(k) == UNION {ToSet(seqs[i]) : i \in 1 .. k}
<1>1. n \in Nat /\ \A k \in 1 .. n : seqs[k] \in Seq(E)
  OBVIOUS
<1>2. CASE n = 0
  <2>1. FlattenSeq(seqs) = <<>>
    BY <1>2 DEF FlattenSeq
  <2>2. Upto(n) = {}
    BY <1>2
  <2>3. <<>> \in Seq(E) /\ ToSet(<<>>) = {}
    BY DEF ToSet
  <2> QED
    BY <2>1, <2>2, <2>3
<1>3. CASE n > 0
  <2>1. PICK f : /\ FlattenSeq(seqs) = f[n] /\ f[1] = seqs[1]
                 /\ \A k \in 2 .. n : f[k] = f[k - 1] \o seqs[k]
    BY <1>3, FlattenSteps
  <2> DEFINE T == {k \in 0 .. n : k = 0 \/ (f[k] \in Seq(E) /\ ToSet(f[k]) = Upto(k))}
  <2>2. ASSUME NEW k \in 1 .. n, k - 1 \in T PROVE k \in T
    <3>1. CASE k = 1
      <4>1. Upto(1) = ToSet(seqs[1])
        OBVIOUS
      <4> QED
        BY <1>1, <2>1, <3>1, <4>1
    <3>2. CASE k # 1
      <4>1. k \in 2 .. n /\ k - 1 # 0 /\ f[k - 1] \in Seq(E) /\ ToSet(f[k - 1]) = Upto(k - 1) /\ seqs[k] \in Seq(E)
        BY <1>1, <2>2, <3>2
      <4> DEFINE s == f[k - 1]
                 t == seqs[k]
      <4>0. f[k] = s \o t
        BY <2>1, <4>1
      <4> HIDE DEF s, t
      <4>2. f[k] \in Seq(E) /\ ToSet(f[k]) = ToSet(s) \cup ToSet(t)
        <5>1. s \in Seq(E) /\ t \in Seq(E)
          BY <4>1 DEF s, t
        <5> QED
          BY <4>0, <5>1, ElementsOfConcat
      <4>3. 1 .. k = 1 .. k - 1 \cup {k}
        BY <1>1
      <4>4. Upto(k) = Upto(k - 1) \cup ToSet(seqs[k])
        BY <4>3
      <4>5. ToSet(f[k]) = Upto(k)
        BY <4>1, <4>2, <4>4 DEF s, t
      <4> QED
        BY <4>2, <4>5
    <3> QED
      BY <3>1, <3>2
  <2>3. 0 \in T
    BY <1>1
  <2> HIDE DEF T
  <2>4. n \in T
    <3>1. 0 .. n \subseteq T
      BY <1>1, <2>2, <2>3, SetInductionUpTo
    <3> QED
      BY <1>1, <3>1
  <2> QED
    BY <1>3, <2>1, <2>4 DEF T
<1> QED
  BY <1>1, <1>2, <1>3

=============================================================================
