---------------------------- MODULE SequenceLemmas ----------------------------
(***************************************************************************)
(* What the operators on sets of numbers and on sequences return that      *)
(* the models of the file server, the chat room, the mmu, the heap and the *)
(* scheduler are built from.  Sums over finite sets are at the end: what a *)
(* member more or another value makes of them.                             *)
(***************************************************************************)
EXTENDS Integers, Sequences, SequencesExt, FiniteSetsExt, FiniteSetTheorems,
        SequenceTheorems, WellFoundedInduction, TLAPS

\* A set of indices has a least one.
LEMMA MinOfNat ==
  ASSUME NEW I \in SUBSET Nat, I # {}
  PROVE  Min(I) \in I /\ \A x \in I : Min(I) <= x
<1>. DEFINE R == OpToRel(<, Nat)
<1>1. IsWellFoundedOn(R, Nat)
  BY NatLessThanWellFounded
<1>2. \A x, y \in Nat : y < x => <<y, x>> \in R
  BY DEF OpToRel
<1>. HIDE DEF R
<1>3. PICK x \in I : \A y \in I : ~(<<y, x>> \in R)
  BY <1>1, WFMin
<1>4. \A y \in I : ~(y < x)
  BY <1>2, <1>3
<1>5. \E z \in I : \A y \in I : z <= y
  BY <1>4
<1>. QED
  BY <1>5 DEF Min

\* r is s without its entry i: the gap is closed.
ClosedAt(r, s, i) ==
  /\ Len(r) = Len(s) - 1
  /\ \A k \in 1..(Len(s) - 1) : r[k] = IF k < i THEN s[k] ELSE s[k + 1]

\* RemoveFirst closes the gap that the entry leaves.
LEMMA RemoveFirstIs ==
  ASSUME NEW S, NEW s \in Seq(S), NEW e \in ToSet(s)
  PROVE  LET r == RemoveFirst(s, e) IN
         \E i \in 1..Len(s) : s[i] = e /\ r \in Seq(S) /\ ClosedAt(r, s, i)
<1>. DEFINE I == { i \in 1..Len(s) : s[i] = e }
            i == Min(I)
<1>1. I \subseteq Nat /\ I # {} /\ \E k \in 1..Len(s) : s[k] = e
  BY DEF ToSet
<1>2. i \in 1..Len(s) /\ s[i] = e
  BY <1>1, MinOfNat
<1>3. SelectInSeq(s, LAMBDA v : v = e) = i
  BY <1>1 DEF SelectInSeq
<1>4. RemoveFirst(s, e) = SubSeq(s, 1, i - 1) \o SubSeq(s, i + 1, Len(s))
  BY <1>1, <1>3 DEF RemoveFirst, RemoveAt
<1>. HIDE DEF i, I
<1>. DEFINE front == SubSeq(s, 1, i - 1)
            back  == SubSeq(s, i + 1, Len(s))
<1>5. /\ front \in Seq(S) /\ Len(front) = i - 1
      /\ \A k \in 1..(i - 1) : front[k] = s[k]
  BY <1>2
<1>6. /\ back \in Seq(S) /\ Len(back) = Len(s) - i
      /\ \A k \in 1..(Len(s) - i) : back[k] = s[i + k]
  BY <1>2
<1>. HIDE DEF front, back
<1>7. /\ front \o back \in Seq(S) /\ Len(front \o back) = Len(s) - 1
      /\ \A k \in 1..(Len(s) - 1) :
            (front \o back)[k] = IF k < i THEN s[k] ELSE s[k + 1]
  <2>1. /\ front \o back \in Seq(S)
        /\ Len(front \o back) = Len(front) + Len(back)
        /\ \A k \in 1..(Len(front) + Len(back)) :
              (front \o back)[k] = IF k <= Len(front) THEN front[k]
                                   ELSE back[k - Len(front)]
    BY <1>5, <1>6, ConcatProperties
  <2>2. Len(s) \in Nat /\ (i - 1) + (Len(s) - i) = Len(s) - 1
    BY <1>2
  <2>3. ASSUME NEW k \in 1..(Len(s) - 1)
        PROVE  (front \o back)[k] = IF k < i THEN s[k] ELSE s[k + 1]
    <3>1. CASE k < i
      BY <1>2, <1>5, <1>6, <2>1, <2>2, <3>1
    <3>2. CASE ~(k < i)
      <4>1. k - (i - 1) \in 1..(Len(s) - i) /\ i + (k - (i - 1)) = k + 1
        BY <1>2, <3>2
      <4>2. k \in 1..(Len(front) + Len(back)) /\ ~(k <= Len(front)) /\ Len(front) = i - 1
        BY <1>2, <1>5, <1>6, <2>2, <3>2
      <4>3. (front \o back)[k] = back[k - (i - 1)]
        BY <2>1, <4>2
      <4>. QED
        BY <1>6, <3>2, <4>1, <4>3
    <3>. QED
      BY <3>1, <3>2
  <2>. QED
    BY <1>5, <1>6, <2>1, <2>2, <2>3
<1>8. ClosedAt(front \o back, s, i)
  BY <1>7 DEF ClosedAt
<1>. QED
  BY <1>2, <1>4, <1>7, <1>8 DEF front, back

\* What stays listed, and that a name listed once is gone.
LEMMA RemoveFirstElements ==
  ASSUME NEW S, NEW s \in Seq(S), NEW e \in ToSet(s)
  PROVE  LET r == RemoveFirst(s, e) IN
         /\ r \in Seq(S)
         /\ ToSet(s) \ {e} \subseteq ToSet(r) /\ ToSet(r) \subseteq ToSet(s)
         /\ IsInjective(s) => IsInjective(r) /\ e \notin ToSet(r)
<1>. DEFINE r == RemoveFirst(s, e)
            n == Len(s)
<1>0. PICK i \in 1..n : s[i] = e /\ r \in Seq(S) /\ ClosedAt(r, s, i)
  BY RemoveFirstIs
<1>1. /\ s[i] = e
      /\ r \in Seq(S) /\ Len(r) = n - 1
      /\ \A k \in 1..(n - 1) : r[k] = IF k < i THEN s[k] ELSE s[k + 1]
  BY <1>0 DEF ClosedAt
<1>. HIDE DEF r
<1>2. n \in Nat /\ DOMAIN s = 1..n /\ DOMAIN r = 1..(n - 1)
  BY <1>1
<1>3. ASSUME NEW k \in 1..n, s[k] # e  PROVE s[k] \in ToSet(r)
  <2>1. k < i \/ k > i
    BY <1>1, <1>3
  <2>2. CASE k < i
    BY <1>1, <1>2, <2>2 DEF ToSet
  <2>3. CASE k > i
    <3>1. k - 1 \in 1..(n - 1) /\ ~(k - 1 < i) /\ (k - 1) + 1 = k
      BY <2>3
    <3>. QED
      BY <1>1, <1>2, <3>1 DEF ToSet
  <2>. QED
    BY <2>1, <2>2, <2>3
<1>4. ASSUME NEW k \in 1..(n - 1)  PROVE r[k] \in ToSet(s)
  <2>1. k \in DOMAIN s /\ k + 1 \in DOMAIN s
    BY <1>2
  <2>2. r[k] = s[k] \/ r[k] = s[k + 1]
    BY <1>1
  <2>. QED
    BY <2>1, <2>2 DEF ToSet
<1>5. ASSUME IsInjective(s)  PROVE IsInjective(r) /\ e \notin ToSet(r)
  <2>1. \A a, b \in 1..n : s[a] = s[b] => a = b
    BY <1>2, <1>5 DEF IsInjective
  <2>2. ASSUME NEW a \in 1..(n - 1), NEW b \in 1..(n - 1), r[a] = r[b]  PROVE a = b
    BY <1>1, <2>1, <2>2
  <2>3. ASSUME NEW a \in 1..(n - 1)  PROVE r[a] # e
    <3>1. a \in 1..n /\ a + 1 \in 1..n /\ (a < i => a # i) /\ (~(a < i) => a + 1 # i)
      BY <1>2
    <3>2. s[a] = e => a = i
      BY <1>1, <2>1, <3>1
    <3>3. s[a + 1] = e => a + 1 = i
      BY <1>1, <2>1, <3>1
    <3>. QED
      BY <1>1, <3>1, <3>2, <3>3
  <2>. QED
    BY <1>2, <2>2, <2>3 DEF IsInjective, ToSet
<1>. QED
  BY <1>1, <1>2, <1>3, <1>4, <1>5 DEF ToSet, r

\* A new name at the end of the list.
LEMMA AppendElements ==
  ASSUME NEW S, NEW s \in Seq(S), NEW e \in S
  PROVE  /\ Append(s, e) \in Seq(S)
         /\ ToSet(Append(s, e)) = ToSet(s) \cup {e}
         /\ IsInjective(s) /\ e \notin ToSet(s) => IsInjective(Append(s, e))
<1>. DEFINE r == Append(s, e)
            n == Len(s)
<1>1. /\ r \in Seq(S) /\ n \in Nat /\ DOMAIN s = 1..n /\ DOMAIN r = 1..(n + 1)
      /\ r[n + 1] = e /\ \A k \in 1..n : r[k] = s[k]
  OBVIOUS
<1>. HIDE DEF r
<1>2. 1..(n + 1) = (1..n) \cup {n + 1}
  BY <1>1
<1>3. ToSet(r) = ToSet(s) \cup {e}
  BY <1>1, <1>2 DEF ToSet
<1>4. IsInjective(s) /\ e \notin ToSet(s) => IsInjective(r)
  BY <1>1, <1>2 DEF ToSet, IsInjective
<1>. QED
  BY <1>1, <1>3, <1>4 DEF r

\* A set of one element has one enumeration.
LEMMA SetToSeqOne ==
  ASSUME NEW m
  PROVE  SetToSeq({m}) = <<m>>
<1>1. Cardinality({m}) = 1
  BY FS_Singleton
<1>2. \E f : f \in [1..1 -> {m}] /\ IsInjective(f)
  <2>1. [i \in 1..1 |-> m] \in [1..1 -> {m}] /\ IsInjective([i \in 1..1 |-> m])
    BY DEF IsInjective
  <2>. QED
    BY <2>1
<1>3. SetToSeq({m}) \in [1..1 -> {m}]
  BY <1>1, <1>2 DEF SetToSeq
<1>. QED
  BY <1>3

\* The empty set has the empty one.
LEMMA SetToSeqNone == SetToSeq({}) = <<>>
<1>1. Cardinality({}) = 0
  BY FS_EmptySet
<1>2. \E f : f \in [1..0 -> {}] /\ IsInjective(f)
  <2>1. <<>> \in [1..0 -> {}] /\ IsInjective(<<>>)
    BY DEF IsInjective
  <2>. QED
    BY <2>1
<1>3. SetToSeq({}) \in [1..0 -> {}]
  BY <1>1, <1>2 DEF SetToSeq
<1>. QED
  BY <1>3

\* A sequence may be given another element in the place of one.
LEMMA ReplaceAllElements ==
  ASSUME NEW S, NEW s \in Seq(S), NEW old \in ToSet(s), NEW new \in S
  PROVE  LET r == ReplaceAll(s, old, new) IN
         /\ r \in Seq(S)
         /\ ToSet(r) = (ToSet(s) \ {old}) \cup {new}
         /\ IsInjective(s) /\ new \notin ToSet(s) => IsInjective(r)
<1>. DEFINE r == ReplaceAll(s, old, new)
            n == Len(s)
<1>1. /\ n \in Nat /\ DOMAIN s = 1..n /\ \A k \in 1..n : s[k] \in S
      /\ r = [k \in 1..n |-> IF s[k] = old THEN new ELSE s[k]]
  BY DEF ReplaceAll
<1>. HIDE DEF r, n
<1>2. /\ r \in [1..n -> S] /\ DOMAIN r = 1..n
      /\ \A k \in 1..n : r[k] = IF s[k] = old THEN new ELSE s[k]
  BY <1>1
<1>3. r \in Seq(S)
  BY <1>1, <1>2, SeqDef
<1>4. ToSet(r) = (ToSet(s) \ {old}) \cup {new}
  <2>1. PICK k \in 1..n : s[k] = old
    BY <1>1 DEF ToSet
  <2>2. \A x \in ToSet(r) : x \in (ToSet(s) \ {old}) \cup {new}
    BY <1>1, <1>2 DEF ToSet
  <2>3. new \in ToSet(r)
    BY <1>2, <2>1 DEF ToSet
  <2>4. \A x \in ToSet(s) \ {old} : x \in ToSet(r)
    BY <1>1, <1>2 DEF ToSet
  <2>. QED
    BY <2>2, <2>3, <2>4
<1>5. IsInjective(s) /\ new \notin ToSet(s) => IsInjective(r)
  BY <1>1, <1>2 DEF IsInjective, ToSet
<1>. QED
  BY <1>3, <1>4, <1>5 DEF r

\* A new first element.
LEMMA PrependElements ==
  ASSUME NEW S, NEW s \in Seq(S), NEW e \in S
  PROVE  LET r == <<e>> \o s IN
         /\ r \in Seq(S)
         /\ ToSet(r) = ToSet(s) \cup {e}
         /\ IsInjective(s) /\ e \notin ToSet(s) => IsInjective(r)
<1>. DEFINE r == <<e>> \o s
            n == Len(s)
<1>1. n \in Nat /\ DOMAIN s = 1..n /\ \A k \in 1..n : s[k] \in S
  OBVIOUS
<1>2. r \in Seq(S) /\ Len(r) = n + 1
  OBVIOUS
<1>3. r[1] = e /\ \A k \in 2..(n + 1) : r[k] = s[k - 1]
  OBVIOUS
<1>. HIDE DEF r, n
<1>4. DOMAIN r = 1..(n + 1)
  BY <1>2
<1>5. \A k \in 1..(n + 1) : k = 1 \/ (k \in 2..(n + 1) /\ k - 1 \in 1..n)
  BY <1>1
<1>6. ToSet(r) = ToSet(s) \cup {e}
  <2>1. \A x \in ToSet(r) : x \in ToSet(s) \cup {e}
    BY <1>1, <1>3, <1>4, <1>5 DEF ToSet
  <2>2. e \in ToSet(r)
    BY <1>1, <1>3, <1>4 DEF ToSet
  <2>3. ASSUME NEW k \in 1..n  PROVE s[k] \in ToSet(r)
    <3>1. k + 1 \in 2..(n + 1) /\ (k + 1) - 1 = k /\ k + 1 \in 1..(n + 1)
      BY <1>1
    <3>2. r[k + 1] = s[k]
      BY <1>3, <3>1
    <3>. QED
      BY <1>4, <3>1, <3>2 DEF ToSet
  <2>. QED
    BY <1>1, <2>1, <2>2, <2>3 DEF ToSet
<1>7. IsInjective(s) /\ e \notin ToSet(s) => IsInjective(r)
  <2>. SUFFICES ASSUME IsInjective(s), e \notin ToSet(s),
                       NEW k \in 1..(n + 1), NEW l \in 1..(n + 1), r[k] = r[l]
                PROVE  k = l
    BY <1>4 DEF IsInjective
  <2>1. \A x \in 2..(n + 1) : r[x] # e
    BY <1>1, <1>3, <1>5 DEF ToSet
  <2>2. CASE k = 1 \/ l = 1
    BY <1>3, <1>5, <2>1, <2>2
  <2>3. CASE k # 1 /\ l # 1
    <3>1. s[k - 1] = s[l - 1] /\ k - 1 \in 1..n /\ l - 1 \in 1..n
      BY <1>3, <1>5, <2>3
    <3>2. k - 1 = l - 1
      BY <1>1, <3>1 DEF IsInjective
    <3>. QED
      BY <1>1, <3>2
  <2>. QED
    BY <2>2, <2>3
<1>. QED
  BY <1>2, <1>6, <1>7 DEF r

-----------------------------------------------------------------------------
\* A set of indices has a greatest one.
LEMMA MaxOfIndices ==
  ASSUME NEW n \in Nat, NEW I \in SUBSET (1..n), I # {}
  PROVE  Max(I) \in I
<1>. DEFINE J == { n - i : i \in I }
<1>1. J \in SUBSET Nat /\ J # {}
  <2>1. \A i \in I : n - i \in Nat
    OBVIOUS
  <2>. QED
    BY <2>1
<1>2. Min(J) \in J /\ \A x \in J : Min(J) <= x
  <2>. HIDE DEF J
  <2>. QED
    BY <1>1, MinOfNat
<1>3. PICK i \in I : Min(J) = n - i
  BY <1>2
<1>4. \A k \in I : i >= k
  <2>. TAKE k \in I
  <2>1. n - i <= n - k
    BY <1>2, <1>3
  <2>. QED
    BY <2>1
<1>5. \E x \in I : \A y \in I : x >= y
  BY <1>4
<1>. QED
  BY <1>5 DEF Max

\* Of the finite sets with some property, one has no proper part with it.
LEMMA MinimalSet ==
  ASSUME NEW S, IsFiniteSet(S), NEW T \in SUBSET SUBSET S, T # {}
  PROVE  \E t \in T : \A u \in SUBSET t : u # t => u \notin T
<1>. DEFINE sizes == { Cardinality(t) : t \in T }
<1>1. \A t \in SUBSET S : IsFiniteSet(t) /\ Cardinality(t) \in Nat
  BY FS_Subset, FS_CardinalityType
<1>2. sizes \in SUBSET Nat /\ sizes # {}
  BY <1>1
<1>5. Min(sizes) \in sizes /\ \A n \in sizes : Min(sizes) <= n
  <2>. HIDE DEF sizes
  <2>. QED
    BY <1>2, MinOfNat
<1>3. PICK t \in T : \A n \in sizes : Cardinality(t) <= n
  <2>1. PICK t \in T : Min(sizes) = Cardinality(t)
    BY <1>5
  <2>. QED
    BY <1>5, <2>1
<1>4. ASSUME NEW u \in SUBSET t, u # t, u \in T  PROVE FALSE
  <2>1. Cardinality(u) <= Cardinality(t) /\ Cardinality(u) # Cardinality(t)
    BY <1>1, <1>4, FS_Subset
  <2>2. Cardinality(t) <= Cardinality(u)
    BY <1>3, <1>4
  <2>. QED
    BY <1>1, <1>4, <2>1, <2>2
<1>. QED
  BY <1>3, <1>4

\* g adds up the values v of the members of a set, in some order.
Adds(g, v, S) == \A s \in SUBSET S :
                    IF s = {} THEN g[s] = 0
                    ELSE \E x \in s : g[s] = v[x] + g[s \ {x}]

\* The order does not matter.
LEMMA AddsAnyOrder ==
  ASSUME NEW S, IsFiniteSet(S), NEW g, NEW v, Adds(g, v, S), \A x \in S : v[x] \in Int
  PROVE  \A s \in SUBSET S : g[s] \in Int /\ \A x \in s : g[s] = v[x] + g[s \ {x}]
<1>. DEFINE Good(s) == g[s] \in Int /\ \A x \in s : g[s] = v[x] + g[s \ {x}]
            T == { s \in SUBSET S : ~Good(s) }
<1>1. SUFFICES ASSUME T # {}  PROVE FALSE
  OBVIOUS
<1>2. PICK t \in T : \A u \in SUBSET t : u # t => u \notin T
  <2>1. T \in SUBSET SUBSET S
    OBVIOUS
  <2>. HIDE DEF T
  <2>. QED
    BY <1>1, <2>1, MinimalSet
<1>3. t \in SUBSET S /\ ~Good(t)
  OBVIOUS
<1>4. \A u \in SUBSET t : u # t => Good(u)
  BY <1>2, <1>3
<1>. HIDE DEF T
<1>5. t # {}
  BY <1>3 DEF Adds
<1>6. PICK c \in t : g[t] = v[c] + g[t \ {c}]
  BY <1>3, <1>5 DEF Adds
<1>7. Good(t \ {c}) /\ v[c] \in Int
  BY <1>3, <1>4
<1>8. g[t] \in Int
  BY <1>6, <1>7
<1>9. ASSUME NEW x \in t  PROVE g[t] = v[x] + g[t \ {x}]
  <2>1. CASE x = c
    BY <1>6, <2>1
  <2>2. CASE x # c
    <3>1. Good(t \ {x}) /\ v[x] \in Int /\ c \in t \ {x} /\ x \in t \ {c}
      BY <1>3, <1>4, <2>2
    <3>2. (t \ {x}) \ {c} = (t \ {c}) \ {x}
      OBVIOUS
    <3>3. Good((t \ {c}) \ {x})
      BY <1>4
    <3>4. g[t \ {x}] = v[c] + g[(t \ {c}) \ {x}] /\ g[t \ {c}] = v[x] + g[(t \ {c}) \ {x}]
      BY <1>7, <3>1, <3>2
    <3>. QED
      BY <1>6, <1>7, <3>1, <3>3, <3>4
  <2>. QED
    BY <2>1, <2>2
<1>. QED
  BY <1>3, <1>8, <1>9

\* One member apart from the others.
LEMMA AddsOne ==
  ASSUME NEW S, IsFiniteSet(S), NEW g, NEW v, Adds(g, v, S), \A i \in S : v[i] \in Int,
         NEW s, s \subseteq S, NEW x \in s, NEW r, r = s \ {x}
  PROVE  g[s] \in Int /\ g[r] \in Int /\ v[x] \in Int /\ g[s] = v[x] + g[r]
<1>1. s \in SUBSET S /\ r \in SUBSET S
  OBVIOUS
<1>2. g[s] \in Int
  BY <1>1, AddsAnyOrder
<1>3. g[r] \in Int
  BY <1>1, AddsAnyOrder
<1>4. g[s] = v[x] + g[s \ {x}]
  BY <1>1, AddsAnyOrder
<1>. QED
  BY <1>2, <1>3, <1>4

\* Nor does anything else but the values.
LEMMA AddsSame ==
  ASSUME NEW S, IsFiniteSet(S), NEW R, IsFiniteSet(R),
         NEW g, NEW v, Adds(g, v, S), \A x \in S : v[x] \in Int,
         NEW h, NEW w, Adds(h, w, R), \A x \in R : w[x] \in Int,
         NEW U, U \subseteq S, U \subseteq R, \A x \in U : v[x] = w[x]
  PROVE  g[U] = h[U]
<1>. DEFINE T == { s \in SUBSET U : g[s] # h[s] }
<1>1. SUFFICES ASSUME T # {}  PROVE FALSE
  OBVIOUS
<1>2. IsFiniteSet(U)
  BY FS_Subset
<1>3. PICK t \in T : \A u \in SUBSET t : u # t => u \notin T
  <2>1. T \in SUBSET SUBSET U
    OBVIOUS
  <2>. HIDE DEF T
  <2>. QED
    BY <1>1, <1>2, <2>1, MinimalSet
<1>4. t \in SUBSET U /\ g[t] # h[t] /\ t # {}
  BY DEF Adds
<1>5. \A u \in SUBSET t : u # t => g[u] = h[u]
  BY <1>3, <1>4
<1>. HIDE DEF T
<1>6. PICK c \in t : TRUE
  BY <1>4
<1>7. g[t] = v[c] + g[t \ {c}] /\ h[t] = w[c] + h[t \ {c}]
  <2>1. t \in SUBSET S /\ t \in SUBSET R
    BY <1>4
  <2>2. g[t] = v[c] + g[t \ {c}]
    BY <2>1, AddsAnyOrder
  <2>3. h[t] = w[c] + h[t \ {c}]
    BY <2>1, AddsAnyOrder
  <2>. QED
    BY <2>2, <2>3
<1>. QED
  BY <1>4, <1>5, <1>7

\* The same for sums up to some index.
LEMMA AddsUpTo ==
  ASSUME NEW k \in Nat, NEW g, NEW v, Adds(g, v, 1..k), \A i \in 1..k : v[i] \in Int,
         NEW m \in 1..k
  PROVE  /\ g[1..m] = v[m] + g[1..(m - 1)]
         /\ g[1..m] \in Int /\ g[1..(m - 1)] \in Int
<1>1. 1..m \subseteq 1..k /\ m \in 1..m /\ 1..(m - 1) = (1..m) \ {m}
  OBVIOUS
<1>2. IsFiniteSet(1..k)
  BY FS_Interval
<1>3. PICK S : S = 1..k
  OBVIOUS
<1>4. PICK s : s = 1..m
  OBVIOUS
<1>5. PICK r : r = 1..(m - 1)
  OBVIOUS
<1>6. s \subseteq S /\ m \in s /\ r = s \ {m}
  BY <1>1, <1>3, <1>4, <1>5
<1>7. IsFiniteSet(S)
  BY <1>2, <1>3
<1>8. Adds(g, v, S)
  BY <1>3
<1>9. \A i \in S : v[i] \in Int
  BY <1>3
<1>10. g[s] \in Int /\ g[r] \in Int /\ v[m] \in Int /\ g[s] = v[m] + g[r]
  <2>1. \A t \in SUBSET S : g[t] \in Int /\ \A x \in t : g[t] = v[x] + g[t \ {x}]
    BY ONLY <1>7, <1>8, <1>9, AddsAnyOrder
  <2>2. s \in SUBSET S /\ r \in SUBSET S /\ m \in S
    BY <1>6
  <2>. QED
    BY <1>6, <1>9, <2>1, <2>2
<1>. QED
  BY <1>4, <1>5, <1>10

\* Sums over two sequences that begin alike agree as far as that.
LEMMA AddsSameUpTo ==
  ASSUME NEW k \in Nat, NEW g, NEW v, Adds(g, v, 1..k), \A i \in 1..k : v[i] \in Int,
         NEW j \in Nat, NEW h, NEW w, Adds(h, w, 1..j), \A i \in 1..j : w[i] \in Int,
         NEW m \in Nat, m <= k, m <= j, \A i \in 1..m : v[i] = w[i]
  PROVE  g[1..m] = h[1..m]
<1>1. PICK S, R, U : S = 1..k /\ R = 1..j /\ U = 1..m
  OBVIOUS
<1>2. IsFiniteSet(S) /\ IsFiniteSet(R) /\ U \subseteq S /\ U \subseteq R
  BY <1>1, FS_Interval
<1>3. Adds(g, v, S) /\ (\A i \in S : v[i] \in Int) /\ Adds(h, w, R) /\ (\A i \in R : w[i] \in Int)
  BY <1>1
<1>4. \A i \in U : v[i] = w[i]
  BY <1>1
<1>5. g[U] = h[U]
  BY <1>2, <1>3, <1>4, AddsSame
<1>. QED
  BY <1>1, <1>5

\* ch takes an element out of a set.
Chooses(ch, S) == \A s \in SUBSET S : s # {} => ch[s] \in s

\* g takes an element out of a set after the other, and adds it up with F.
FoldsBy(g, F, ch, S) ==
  \A s \in SUBSET S : g[s] = IF s = {} THEN 0 ELSE F[ch[s]][g[s \ {ch[s]}]]

\* There is such a function.
LEMMA FoldExists ==
  ASSUME NEW S, IsFiniteSet(S), NEW F \in [S -> [Int -> Int]],
         NEW ch, Chooses(ch, S)
  PROVE  \E g \in [SUBSET S -> Int] : FoldsBy(g, F, ch, S)
<1>. DEFINE D(n)    == { s \in SUBSET S : Cardinality(s) <= n }
            OK(n, g) == /\ g \in [D(n) -> Int]
                        /\ \A s \in D(n) : g[s] = IF s = {} THEN 0
                                                  ELSE F[ch[s]][g[s \ {ch[s]}]]
            T       == { n \in Nat : ~ \E g : OK(n, g) }
<1>1. \A s \in SUBSET S : IsFiniteSet(s) /\ Cardinality(s) \in Nat
  BY FS_Subset, FS_CardinalityType
<1>2. \A s \in SUBSET S : s # {} => /\ s \ {ch[s]} \in SUBSET S
                                    /\ Cardinality(s \ {ch[s]}) = Cardinality(s) - 1
  BY <1>1, FS_RemoveElement DEF Chooses
<1>3. ASSUME T # {}  PROVE FALSE
  <2>. DEFINE m == Min(T)
  <2>1. m \in T /\ \A n \in T : m <= n
    BY <1>3, MinOfNat
  <2>. HIDE DEF m
  <2>2. m \in Nat /\ ~ \E g : OK(m, g)
    BY <2>1
  <2>3. CASE m = 0
    <3>1. \A s \in D(m) : s = {}
      BY <1>1, <2>3, FS_EmptySet
    <3>2. OK(m, [s \in D(m) |-> 0])
      BY <3>1
    <3>. QED
      BY <2>2, <3>2
  <2>4. CASE m # 0
    <3>1. m - 1 \in Nat /\ m - 1 \notin T
      <4>1. m - 1 \in Nat /\ ~(m <= m - 1)
        BY <2>2, <2>4
      <4>. QED
        BY <2>1, <4>1
    <3>2. PICK g : OK(m - 1, g)
      BY <3>1
    <3>. DEFINE h == [s \in D(m) |-> IF s = {} THEN 0 ELSE F[ch[s]][g[s \ {ch[s]}]]]
    <3>3. \A s \in D(m) : s # {} => ch[s] \in S /\ s \ {ch[s]} \in D(m - 1)
      BY <1>1, <1>2, <2>2 DEF Chooses
    <3>4. h \in [D(m) -> Int]
      <4>1. g \in [D(m - 1) -> Int]
        BY <3>2
      <4>2. ASSUME NEW s \in D(m)
            PROVE  (IF s = {} THEN 0 ELSE F[ch[s]][g[s \ {ch[s]}]]) \in Int
        <5>1. CASE s # {}
          <6>1. ch[s] \in S /\ s \ {ch[s]} \in D(m - 1)
            BY ONLY <3>3, <4>2, <5>1
          <6>2. g[s \ {ch[s]}] \in Int
            BY ONLY <4>1, <6>1
          <6>3. F[ch[s]] \in [Int -> Int]
            BY <6>1
          <6>. QED
            BY ONLY <5>1, <6>2, <6>3
        <5>2. CASE s = {}
          BY <5>2
        <5>. QED
          BY <5>1, <5>2
      <4>. QED
        BY ONLY <4>2
    <3>5. \A s \in D(m - 1) : s \in D(m) /\ h[s] = g[s]
      <4>. TAKE s \in D(m - 1)
      <4>1. s \in SUBSET S /\ Cardinality(s) \in Nat /\ Cardinality(s) <= m - 1
        BY <1>1
      <4>2. Cardinality(s) <= m
        BY <2>2, <4>1
      <4>3. s \in D(m)
        BY <4>1, <4>2
      <4>4. h[s] = IF s = {} THEN 0 ELSE F[ch[s]][g[s \ {ch[s]}]]
        BY <4>3
      <4>. QED
        BY <3>2, <4>3, <4>4
    <3>6. OK(m, h)
      BY <3>3, <3>4, <3>5
    <3>. QED
      BY <2>2, <3>6
  <2>. QED
    BY <2>3, <2>4
<1>. DEFINE N == Cardinality(S)
<1>4. N \in Nat /\ D(N) = SUBSET S
  BY <1>1, FS_Subset
<1>5. PICK g : OK(N, g)
  BY <1>3, <1>4
<1>6. g \in [SUBSET S -> Int] /\
      \A s \in SUBSET S : g[s] = IF s = {} THEN 0 ELSE F[ch[s]][g[s \ {ch[s]}]]
  BY <1>4, <1>5
<1>. QED
  BY <1>6 DEF FoldsBy
===============================================================================
