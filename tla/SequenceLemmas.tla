--------------------------- MODULE SequenceLemmas ---------------------------
(***************************************************************************)
(* What the operators of the community modules return that the models are  *)
(* built from, and the induction this needs.  A set of natural numbers     *)
(* that has 0 and the successor of each of its numbers has them all: a     *)
(* statement about n is put as membership in the set of those n for which  *)
(* it holds.                                                               *)
(***************************************************************************)
EXTENDS Integers, SequencesExt, SequenceTheorems, WellFoundedInduction, TLAPS

\* Induction over the natural numbers.
LEMMA NatSetInduction ==
  ASSUME NEW S, 0 \in S, \A n \in Nat : n \in S => n + 1 \in S
  PROVE  Nat \subseteq S
<1> SUFFICES ASSUME Nat \ S # {} PROVE FALSE
  OBVIOUS
<1> DEFINE R == OpToRel(<, Nat)
<1>1. IsWellFoundedOn(R, Nat)
  BY NatLessThanWellFounded
<1>2. PICK x \in Nat \ S : \A y \in Nat \ S : ~(<<y, x>> \in R)
  <2> HIDE DEF R
  <2> QED
    BY <1>1, WFMin
<1>3. \A y \in Nat \ S : ~(y < x)
  <2> SUFFICES ASSUME NEW y \in Nat \ S, y < x PROVE FALSE
    OBVIOUS
  <2>1. <<y, x>> \in Nat \X Nat
    OBVIOUS
  <2>2. <<y, x>> \in R
    BY <2>1 DEF OpToRel
  <2> QED
    BY <1>2, <2>2
<1>4. x # 0 /\ x - 1 \in Nat
  OBVIOUS
<1>5. x - 1 \in S
  BY <1>3, <1>4
<1> QED
  BY <1>4, <1>5
-----------------------------------------------------------------------------
\* The function that FlattenSeq defines by recursion.
IsFlat(f, seqs, n) ==
    f = [i \in 1..n |-> IF i = 1 THEN seqs[i] ELSE f[i - 1] \o seqs[i]]

\* There is one for every number of sequences.
LEMMA FlatExists ==
  ASSUME NEW seqs, NEW n \in Nat
  PROVE  \E f : IsFlat(f, seqs, n)
<1> DEFINE S == {k \in Nat : \E f : IsFlat(f, seqs, k)}
<1>1. 0 \in S
  <2>1. IsFlat([i \in 1..0 |-> 0], seqs, 0)
    BY DEF IsFlat
  <2> QED
    BY <2>1
<1>2. ASSUME NEW k \in Nat, k \in S PROVE k + 1 \in S
  <2>1. PICK f : IsFlat(f, seqs, k)
    BY <1>2
  <2> DEFINE g == [i \in 1..(k + 1) |->
                      IF i = 1 THEN seqs[i] ELSE f[i - 1] \o seqs[i]]
  <2>2. ASSUME NEW i \in 1..k PROVE g[i] = f[i]
    <3>1. f[i] = IF i = 1 THEN seqs[i] ELSE f[i - 1] \o seqs[i]
      BY <2>1, Zenon DEF IsFlat
    <3>2. i \in 1..(k + 1)
      OBVIOUS
    <3> QED
      BY <3>1, <3>2, Zenon
  <2>3. ASSUME NEW i \in 1..(k + 1), i # 1 PROVE f[i - 1] = g[i - 1]
    <3>1. i - 1 \in 1..k
      BY <2>3
    <3> HIDE DEF g
    <3> QED
      BY <2>2, <3>1
  <2>4. IsFlat(g, seqs, k + 1)
    BY <2>3, Zenon DEF IsFlat
  <2> QED
    BY <2>4
<1> HIDE DEF S
<1>3. Nat \subseteq S
  BY <1>1, <1>2, NatSetInduction
<1> QED
  BY <1>3 DEF S

\* FlattenSeq is its last value.
LEMMA FlatIs ==
  ASSUME NEW T, NEW seqs \in Seq(Seq(T)), seqs # <<>>
  PROVE  \E f : IsFlat(f, seqs, Len(seqs)) /\ FlattenSeq(seqs) = f[Len(seqs)]
<1>1. Len(seqs) \in Nat /\ Len(seqs) # 0
  BY EmptySeq
<1>2. PICK f : IsFlat(f, seqs, Len(seqs))
  BY <1>1, FlatExists
<1> DEFINE g == CHOOSE h : IsFlat(h, seqs, Len(seqs))
<1>3. IsFlat(g, seqs, Len(seqs))
  BY <1>2
<1>4. FlattenSeq(seqs) = g[Len(seqs)]
  BY <1>1 DEF FlattenSeq, IsFlat
<1> QED
  BY <1>3, <1>4

\* Sequences that begin alike have it in common.
LEMMA FlatAgree ==
  ASSUME NEW T, NEW s \in Seq(Seq(T)), NEW t \in Seq(Seq(T)), NEW n \in Nat,
         n <= Len(s), n <= Len(t), \A i \in 1..n : s[i] = t[i],
         NEW f, IsFlat(f, s, Len(s)), NEW g, IsFlat(g, t, Len(t))
  PROVE  \A i \in 1..n : f[i] = g[i] /\ f[i] \in Seq(T)
<1> DEFINE S == {k \in Nat : k \in 1..n => f[k] = g[k] /\ f[k] \in Seq(T)}
<1>1. 0 \in S
  OBVIOUS
<1>2. ASSUME NEW k \in Nat, k \in S PROVE k + 1 \in S
  <2> SUFFICES ASSUME k + 1 \in 1..n
               PROVE  f[k + 1] = g[k + 1] /\ f[k + 1] \in Seq(T)
    OBVIOUS
  <2>1. /\ s[k + 1] = t[k + 1] /\ s[k + 1] \in Seq(T)
        /\ k + 1 \in 1..Len(s) /\ k + 1 \in 1..Len(t)
    BY ElementOfSeq
  <2>2. /\ f[k + 1] = IF k + 1 = 1 THEN s[k + 1] ELSE f[(k + 1) - 1] \o s[k + 1]
        /\ g[k + 1] = IF k + 1 = 1 THEN t[k + 1] ELSE g[(k + 1) - 1] \o t[k + 1]
    BY <2>1 DEF IsFlat
  <2>3. (k + 1) - 1 = k
    OBVIOUS
  <2>4. CASE k = 0
    BY <2>1, <2>2, <2>4
  <2>5. CASE k # 0
    <3>1. f[k] = g[k] /\ f[k] \in Seq(T)
      BY <1>2, <2>5
    <3>2. k + 1 # 1
      BY <2>5
    <3>3. f[k + 1] = f[k] \o s[k + 1] /\ g[k + 1] = g[k] \o t[k + 1]
      BY <2>2, <2>3, <3>2, Zenon
    <3>4. f[k] \o s[k + 1] \in Seq(T)
      BY <2>1, <3>1, ConcatProperties
    <3> QED
      BY <2>1, <3>1, <3>3, <3>4, Zenon
  <2> QED
    BY <2>4, <2>5
<1> HIDE DEF S
<1>3. Nat \subseteq S
  BY <1>1, <1>2, NatSetInduction
<1> QED
  BY <1>3 DEF S

\* FlattenSeq of a sequence that has got one more.
LEMMA FlattenAppend ==
  ASSUME NEW T, NEW seqs \in Seq(Seq(T)), NEW last \in Seq(T)
  PROVE  /\ FlattenSeq(seqs) \in Seq(T)
         /\ FlattenSeq(Append(seqs, last)) = FlattenSeq(seqs) \o last
<1>0. PICK all, n : all = Append(seqs, last) /\ n = Len(seqs)
  OBVIOUS
<1>1. /\ all \in Seq(Seq(T)) /\ all # <<>> /\ Len(all) = n + 1 /\ n \in Nat
      /\ all[n + 1] = last /\ \A i \in 1..n : all[i] = seqs[i]
  BY <1>0, AppendProperties
<1>2. PICK f : IsFlat(f, all, n + 1) /\ FlattenSeq(all) = f[n + 1]
  BY <1>1, FlatIs
<1>3. f[n + 1] = IF n + 1 = 1 THEN last ELSE f[(n + 1) - 1] \o last
  <2>1. n + 1 \in 1..(n + 1)
    BY <1>1
  <2> QED
    BY <1>1, <1>2, <2>1, Zenon DEF IsFlat
<1>4. (n + 1) - 1 = n
  BY <1>1
<1>5. CASE n = 0
  <2>1. seqs = <<>>
    BY <1>0, <1>5, EmptySeq
  <2>2. FlattenSeq(seqs) = <<>>
    BY <2>1 DEF FlattenSeq
  <2> QED
    BY <1>0, <1>2, <1>3, <1>5, <2>2, EmptySeq, ConcatEmptySeq
<1>6. CASE n # 0
  <2>1. seqs # <<>>
    BY <1>0, <1>6, EmptySeq
  <2>2. PICK g : IsFlat(g, seqs, n) /\ FlattenSeq(seqs) = g[n]
    BY <1>0, <2>1, FlatIs
  <2>3. n <= Len(all) /\ n <= Len(seqs) /\ n \in 1..n /\ n + 1 # 1
    BY <1>0, <1>1, <1>6
  <2>4. IsFlat(f, all, Len(all)) /\ IsFlat(g, seqs, Len(seqs))
    BY <1>0, <1>1, <1>2, <2>2
  <2>5. \A i \in 1..n : f[i] = g[i] /\ f[i] \in Seq(T)
    BY <1>1, <2>3, <2>4, FlatAgree
  <2> QED
    BY <1>0, <1>2, <1>3, <1>4, <2>2, <2>3, <2>5
<1> QED
  BY <1>5, <1>6
-----------------------------------------------------------------------------
\* A bounded set of natural numbers has a maximum.
LEMMA MaxNat ==
  ASSUME NEW n \in Nat, NEW S \in SUBSET (0..n), S # {}
  PROVE  Max(S) \in S /\ \A x \in S : x <= Max(S)
<1> DEFINE P == {k \in Nat : \A U \in SUBSET (0..k) :
                               U # {} => \E m \in U : \A x \in U : m >= x}
<1>1. 0 \in P
  <2>1. ASSUME NEW U \in SUBSET (0..0), U # {}
        PROVE  0 \in U /\ \A x \in U : 0 >= x
    <3>1. \A x \in U : x = 0 /\ 0 >= x
      OBVIOUS
    <3>2. PICK x \in U : TRUE
      BY <2>1
    <3> QED
      BY <3>1, <3>2
  <2> QED
    BY <2>1
<1>2. ASSUME NEW k \in Nat, k \in P PROVE k + 1 \in P
  <2> SUFFICES ASSUME NEW U \in SUBSET (0..(k + 1)), U # {}
               PROVE  \E m \in U : \A x \in U : m >= x
    OBVIOUS
  <2>1. CASE k + 1 \in U
    <3>1. \A x \in U : k + 1 >= x
      OBVIOUS
    <3> QED
      BY <2>1, <3>1
  <2>2. CASE k + 1 \notin U
    <3>1. U \in SUBSET (0..k)
      BY <2>2
    <3> QED
      BY <1>2, <3>1
  <2> QED
    BY <2>1, <2>2
<1> HIDE DEF P
<1>3. n \in P
  BY <1>1, <1>2, NatSetInduction
<1>4. \E m \in S : \A x \in S : m >= x
  BY <1>3 DEF P
<1>5. Max(S) \in S /\ \A x \in S : Max(S) >= x
  BY <1>4 DEF Max
<1> QED
  BY <1>5

\* The lesser of two numbers.
LEMMA MinTwo ==
  ASSUME NEW a \in Int, NEW b \in Int
  PROVE  Min({a, b}) = IF a <= b THEN a ELSE b
BY DEF Min

\* Concatenation is associative.
LEMMA Regroup ==
  ASSUME NEW T
  PROVE  \A s, t, u \in Seq(T) : (s \o t) \o u = s \o (t \o u)
BY ConcatAssociative

\* The same as a predicate, for a set of sequences that is not a variable: the
\* provers find an instance of it at once.
Regroups(M) == \A s, t, u \in M : (s \o t) \o u = s \o (t \o u)

\* Sequences are regrouped.
LEMMA SeqRegroups ==
  ASSUME NEW T
  PROVE  Regroups(Seq(T))
BY Regroup DEF Regroups

\* Appending to the end of a concatenation.
LEMMA AppendToConcat ==
  ASSUME NEW T, NEW s \in Seq(T), NEW t \in Seq(T), NEW x \in T
  PROVE  s \o Append(t, x) = Append(s \o t, x)
<1>1. <<x>> \in Seq(T) /\ s \o t \in Seq(T)
  <2>1. <<x>> \in [1..1 -> T]
    OBVIOUS
  <2> QED
    BY <2>1, SeqDef, ConcatProperties
<1>2. Append(t, x) = t \o <<x>> /\ Append(s \o t, x) = (s \o t) \o <<x>>
  BY <1>1, AppendIsConcat
<1>3. (s \o t) \o <<x>> = s \o (t \o <<x>>)
  BY <1>1, Regroup
<1> QED
  BY <1>2, <1>3, Zenon

\* Concatenation under a name of its own: where many sequences are regrouped,
\* the provers are given its two laws and not its definition.
Cat(s, t) == s \o t

\* Four or five parts of a sequence, grouped from the right, two by two, and
\* from the left.
Grouped(M) ==
    \A f, o, r, z, l \in M :
       /\ Cat(f, Cat(Cat(o, r), l)) = Cat(Cat(Cat(f, o), r), l)
       /\ Cat(Cat(f, Cat(o, r)), Cat(z, l)) = Cat(Cat(Cat(f, o), Cat(r, z)), l)

\* Sequences can be grouped in any way.
LEMMA SeqGrouped ==
  ASSUME NEW T
  PROVE  Grouped(Seq(T))
<1>1. \A s, t, u \in Seq(T) : Cat(Cat(s, t), u) = Cat(s, Cat(t, u))
  BY ConcatAssociative DEF Cat
<1>2. \A s, t \in Seq(T) : Cat(s, t) \in Seq(T)
  BY ConcatProperties DEF Cat
<1>3. PICK M : M = Seq(T)
  OBVIOUS
<1>4. /\ \A s, t, u \in M : Cat(Cat(s, t), u) = Cat(s, Cat(t, u))
      /\ \A s, t \in M : Cat(s, t) \in M
  BY <1>1, <1>2, <1>3
<1>5. ASSUME NEW f \in M, NEW o \in M, NEW r \in M, NEW z \in M, NEW l \in M
      PROVE  /\ Cat(f, Cat(Cat(o, r), l)) = Cat(Cat(Cat(f, o), r), l)
             /\ Cat(Cat(f, Cat(o, r)), Cat(z, l)) = Cat(Cat(Cat(f, o), Cat(r, z)), l)
  <2>1. Cat(o, r) \in M /\ Cat(f, o) \in M
    BY <1>4
  <2>2. Cat(Cat(f, o), r) \in M
    BY <1>4, <2>1
  <2>3. Cat(Cat(f, o), r) = Cat(f, Cat(o, r))
    BY <1>4
  <2>4. Cat(Cat(f, Cat(o, r)), l) = Cat(f, Cat(Cat(o, r), l))
    BY <1>4, <2>1
  <2>5. Cat(Cat(Cat(f, o), r), z) = Cat(Cat(f, o), Cat(r, z))
    BY <1>4, <2>1
  <2>6. Cat(Cat(Cat(Cat(f, o), r), z), l) = Cat(Cat(Cat(f, o), r), Cat(z, l))
    BY <1>4, <2>2
  <2> QED
    BY <2>3, <2>4, <2>5, <2>6
<1>6. Grouped(M)
  BY <1>5 DEF Grouped
<1> QED
  BY <1>3, <1>6

\* A sequence is what it begins with and the rest.
LEMMA CutSeq ==
  ASSUME NEW T, NEW s \in Seq(T), NEW n \in 0..Len(s)
  PROVE  /\ SubSeq(s, 1, n) \in Seq(T) /\ Len(SubSeq(s, 1, n)) = n
         /\ SubSeq(s, n + 1, Len(s)) \in Seq(T)
         /\ Len(SubSeq(s, n + 1, Len(s))) = Len(s) - n
         /\ SubSeq(s, 1, n) \o SubSeq(s, n + 1, Len(s)) = s
<1> DEFINE a == SubSeq(s, 1, n)
           b == SubSeq(s, n + 1, Len(s))
<1>1. /\ a \in Seq(T) /\ Len(a) = n /\ \A i \in 1..n : a[i] = s[i]
      /\ b \in Seq(T) /\ Len(b) = Len(s) - n
      /\ \A i \in 1..(Len(s) - n) : b[i] = s[n + i]
  BY SubSeqProperties
<1> HIDE DEF a, b
<1>2. /\ a \o b \in Seq(T) /\ Len(a \o b) = Len(s)
      /\ \A i \in 1..Len(s) : (a \o b)[i] = IF i <= n THEN a[i] ELSE b[i - n]
  BY <1>1, ConcatProperties
<1>3. \A i \in 1..Len(s) : (a \o b)[i] = s[i]
  BY <1>1, <1>2
<1>4. a \o b = s
  BY <1>2, <1>3, SeqEqual
<1> QED
  BY <1>1, <1>4 DEF a, b
-----------------------------------------------------------------------------
\* The function that FoldLeft defines by recursion over sets of indices: step[i]
\* is what the element at i makes of a value.
IsFold(h, step, base, n) ==
    h = [s \in SUBSET (1..n) |->
            IF s = {} THEN base ELSE step[Max(s)][h[s \ {Max(s)}]]]

\* The numbers up to k + 1 without k + 1.
LEMMA MaxOfAll ==
  ASSUME NEW k \in Nat, NEW s \in SUBSET (1..(k + 1))
  PROVE  /\ k + 1 \in s => Max(s) = k + 1 /\ s \ {k + 1} \in SUBSET (1..k)
         /\ k + 1 \notin s => s \in SUBSET (1..k)
         /\ s # {} => Max(s) \in s
         /\ s # {} /\ k + 1 \notin s => s \ {Max(s)} \in SUBSET (1..k)
<1>1. s # {} => Max(s) \in s /\ \A x \in s : x <= Max(s)
  <2>1. s \in SUBSET (0..(k + 1)) /\ k + 1 \in Nat
    OBVIOUS
  <2> QED
    BY <2>1, MaxNat
<1>2. k + 1 \in s => Max(s) = k + 1
  <2> SUFFICES ASSUME k + 1 \in s PROVE Max(s) = k + 1
    OBVIOUS
  <2>1. PICK m : m = Max(s)
    OBVIOUS
  <2>2. m \in 1..(k + 1) /\ k + 1 <= m
    BY <1>1, <2>1
  <2>3. m = k + 1
    BY <2>2
  <2> QED
    BY <2>1, <2>3
<1>3. \A x \in 1..(k + 1) : x # k + 1 => x \in 1..k
  OBVIOUS
<1>4. s \ {k + 1} \in SUBSET (1..k) /\ (k + 1 \notin s => s \in SUBSET (1..k))
  BY <1>3
<1> QED
  BY <1>1, <1>2, <1>4

\* There is one, if a step makes a value of a value.
HasFold(Acc, step, base, n) ==
    \E h : IsFold(h, step, base, n) /\ h \in [SUBSET (1..n) -> Acc]

\* There is one for each number of steps.
LEMMA FoldExists ==
  ASSUME NEW Acc, NEW base \in Acc, NEW step, NEW n \in Nat,
         \A i \in 1..n : step[i] \in [Acc -> Acc]
  PROVE  HasFold(Acc, step, base, n)
<1> DEFINE S == {k \in Nat : k <= n => HasFold(Acc, step, base, k)}
<1>1. 0 \in S
  <2> DEFINE h == [s \in SUBSET (1..0) |-> base]
  <2>1. \A s \in SUBSET (1..0) : s = {}
    OBVIOUS
  <2>2. IsFold(h, step, base, 0)
    BY <2>1 DEF IsFold
  <2>3. HasFold(Acc, step, base, 0)
    BY <2>2 DEF HasFold
  <2> QED
    BY <2>3
<1>2. ASSUME NEW k \in Nat, k \in S PROVE k + 1 \in S
  <2> SUFFICES ASSUME k + 1 <= n
               PROVE  HasFold(Acc, step, base, k + 1)
    OBVIOUS
  <2>0. HasFold(Acc, step, base, k)
    BY <1>2
  <2>1. PICK f : IsFold(f, step, base, k) /\ f \in [SUBSET (1..k) -> Acc]
    BY <2>0 DEF HasFold
  <2>2. step[k + 1] \in [Acc -> Acc]
    OBVIOUS
  <2> DEFINE g == [s \in SUBSET (1..(k + 1)) |->
                      IF k + 1 \in s THEN step[k + 1][f[s \ {k + 1}]] ELSE f[s]]
  <2>3. ASSUME NEW s \in SUBSET (1..(k + 1)) PROVE g[s] \in Acc
    <3>1. CASE k + 1 \in s
      <4>1. f[s \ {k + 1}] \in Acc
        BY <2>1, <3>1, MaxOfAll
      <4> QED
        BY <2>2, <3>1, <4>1
    <3>2. CASE k + 1 \notin s
      <4>1. f[s] \in Acc
        BY <2>1, <3>2, MaxOfAll
      <4> QED
        BY <3>2, <4>1
    <3> QED
      BY <3>1, <3>2
  <2>4. \A s \in SUBSET (1..k) : g[s] = f[s]
    <3>1. \A s \in SUBSET (1..k) : k + 1 \notin s /\ s \in SUBSET (1..(k + 1))
      OBVIOUS
    <3> QED
      BY <3>1
  <2>5. ASSUME NEW s \in SUBSET (1..(k + 1)), k + 1 \in s
        PROVE  g[s] = step[k + 1][f[s \ {k + 1}]]
    BY <2>5
  <2>6. g \in [SUBSET (1..(k + 1)) -> Acc]
    BY <2>3
  <2>7. DOMAIN g = SUBSET (1..(k + 1)) /\ g = [s \in SUBSET (1..(k + 1)) |-> g[s]]
    OBVIOUS
  <2> HIDE DEF g
  <2>8. ASSUME NEW s \in SUBSET (1..(k + 1))
        PROVE  g[s] = IF s = {} THEN base ELSE step[Max(s)][g[s \ {Max(s)}]]
    <3>1. CASE k + 1 \in s
      <4>1. Max(s) = k + 1 /\ s \ {k + 1} \in SUBSET (1..k) /\ s # {}
        BY <3>1, MaxOfAll
      <4>2. g[s \ {k + 1}] = f[s \ {k + 1}]
        BY <2>4, <4>1
      <4> QED
        BY <2>5, <3>1, <4>1, <4>2
    <3>2. CASE k + 1 \notin s
      <4>1. s \in SUBSET (1..k) /\ g[s] = f[s]
        BY <2>4, <3>2, MaxOfAll
      <4>2. f[s] = IF s = {} THEN base ELSE step[Max(s)][f[s \ {Max(s)}]]
        BY <2>1, <4>1 DEF IsFold
      <4>3. s # {} => g[s \ {Max(s)}] = f[s \ {Max(s)}]
        BY <2>4, <3>2, MaxOfAll
      <4> QED
        BY <4>1, <4>2, <4>3
    <3> QED
      BY <3>1, <3>2
  <2>9. IsFold(g, step, base, k + 1)
    BY <2>7, <2>8, Zenon DEF IsFold
  <2> QED
    BY <2>6, <2>9 DEF HasFold
<1> HIDE DEF S
<1>3. n \in S
  BY <1>1, <1>2, NatSetInduction
<1> QED
  BY <1>3 DEF S

\* A set of natural numbers has a minimum.
LEMMA MinNat ==
  ASSUME NEW S \in SUBSET Nat, S # {}
  PROVE  Min(S) \in S /\ \A x \in S : Min(S) <= x
<1> DEFINE R == OpToRel(<, Nat)
<1>1. IsWellFoundedOn(R, Nat)
  BY NatLessThanWellFounded
<1>2. PICK x \in S : \A y \in S : ~(<<y, x>> \in R)
  <2> HIDE DEF R
  <2> QED
    BY <1>1, WFMin
<1>3. \A y \in S : ~(y < x)
  <2> SUFFICES ASSUME NEW y \in S, y < x PROVE FALSE
    OBVIOUS
  <2>1. <<y, x>> \in Nat \X Nat
    OBVIOUS
  <2>2. <<y, x>> \in R
    BY <2>1 DEF OpToRel
  <2> QED
    BY <1>2, <2>2
<1>4. \A y \in S : x <= y
  BY <1>3
<1> QED
  BY <1>4 DEF Min

\* The least number of a set is its minimum, the greatest its maximum.
LEMMA MinIs ==
  ASSUME NEW S \in SUBSET Int, NEW m \in S, \A x \in S : m <= x
  PROVE  Min(S) = m
<1>1. \A x \in S : (\A y \in S : x <= y) => x = m
  OBVIOUS
<1> QED
  BY <1>1 DEF Min

\* As MinIs.
LEMMA MaxIs ==
  ASSUME NEW S \in SUBSET Int, NEW m \in S, \A x \in S : x <= m
  PROVE  Max(S) = m
<1>1. \A x \in S : (\A y \in S : x >= y) => x = m
  OBVIOUS
<1>2. \A y \in S : m >= y
  OBVIOUS
<1> QED
  BY <1>1, <1>2 DEF Max

\* FlattenSeq makes one sequence of many.
LEMMA FlattenType ==
  ASSUME NEW T, NEW seqs \in Seq(Seq(T))
  PROVE  FlattenSeq(seqs) \in Seq(T)
<1>1. <<>> \in Seq(T)
  BY EmptySeq
<1> QED
  BY <1>1, FlattenAppend

\* FlattenSeq of a sequence that begins with one more.
LEMMA FlattenCons ==
  ASSUME NEW T, NEW first \in Seq(T), NEW seqs \in Seq(Seq(T))
  PROVE  FlattenSeq(<<first>> \o seqs) = first \o FlattenSeq(seqs)
<1> DEFINE S == {n \in Nat : \A s \in Seq(Seq(T)) :
                    Len(s) = n => FlattenSeq(<<first>> \o s) = first \o FlattenSeq(s)}
<1>0. <<first>> \in Seq(Seq(T)) /\ Len(<<first>>) = 1
  OBVIOUS
<1>1. 0 \in S
  <2> SUFFICES ASSUME NEW s \in Seq(Seq(T)), Len(s) = 0
               PROVE  FlattenSeq(<<first>> \o s) = first \o FlattenSeq(s)
    OBVIOUS
  <2>1. s = <<>>
    BY EmptySeq
  <2>2. FlattenSeq(<<>>) = <<>> /\ <<>> \in Seq(Seq(T))
    BY DEF FlattenSeq
  <2>3. FlattenSeq(Append(<<>>, first)) = FlattenSeq(<<>>) \o first
    BY <2>2, FlattenAppend
  <2>4. Append(<<>>, first) = <<first>>
    OBVIOUS
  <2>5. <<first>> \o s = <<first>>
    BY <1>0, <2>1, ConcatEmptySeq
  <2>6. <<>> \o first = first /\ first \o <<>> = first
    BY ConcatEmptySeq
  <2> QED
    BY <2>1, <2>2, <2>3, <2>4, <2>5, <2>6, Zenon
<1>2. ASSUME NEW n \in Nat, n \in S PROVE n + 1 \in S
  <2>00. n + 1 \in Nat
    OBVIOUS
  <2> SUFFICES ASSUME NEW s \in Seq(Seq(T)), Len(s) = n + 1
               PROVE  FlattenSeq(<<first>> \o s) = first \o FlattenSeq(s)
    BY <2>00, Zenon
  <2>0. s # <<>>
    BY EmptySeq
  <2>1. PICK front, last : /\ front = SubSeq(s, 1, Len(s) - 1) /\ last = s[Len(s)]
                           /\ front \in Seq(Seq(T)) /\ last \in Seq(T)
                           /\ Len(front) = n /\ s = Append(front, last)
    <3>1. SubSeq(s, 1, Len(s) - 1) \in Seq(Seq(T)) /\ Len(SubSeq(s, 1, Len(s) - 1)) = n
      BY SubSeqProperties
    <3>2. s[Len(s)] \in Seq(T)
      BY ElementOfSeq
    <3>3. s = Append(SubSeq(s, 1, Len(s) - 1), s[Len(s)])
      OBVIOUS
    <3> QED
      BY <3>1, <3>2, <3>3
  <2>2. FlattenSeq(<<first>> \o front) = first \o FlattenSeq(front)
    BY <1>2, <2>1
  <2>3. <<first>> \o s = Append(<<first>> \o front, last) /\ <<first>> \o front \in Seq(Seq(T))
    BY <1>0, <2>1, AppendToConcat, ConcatProperties
  <2>4. FlattenSeq(Append(<<first>> \o front, last)) = FlattenSeq(<<first>> \o front) \o last
    BY <2>1, <2>3, FlattenAppend
  <2>5. FlattenSeq(s) = FlattenSeq(front) \o last /\ FlattenSeq(front) \in Seq(T)
    BY <2>1, FlattenAppend
  <2>6. Regroups(Seq(T))
    BY SeqRegroups
  <2>7. (first \o FlattenSeq(front)) \o last = first \o (FlattenSeq(front) \o last)
    BY <2>1, <2>5, <2>6, Zenon DEF Regroups
  <2> QED
    BY <2>2, <2>3, <2>4, <2>5, <2>7, Zenon
<1> HIDE DEF S
<1>3. Nat \subseteq S
  BY <1>1, <1>2, NatSetInduction
<1>4. Len(seqs) \in Nat
  OBVIOUS
<1> QED
  BY <1>3, <1>4 DEF S

\* Of two concatenations that are equal, with first parts of one length, the parts
\* are equal.
LEMMA SameCut ==
  ASSUME NEW T, NEW a \in Seq(T), NEW b \in Seq(T), NEW c \in Seq(T), NEW d \in Seq(T),
         a \o b = c \o d, Len(a) = Len(c)
  PROVE  a = c /\ b = d
<1>0. /\ Len(a \o b) = Len(a) + Len(b)
      /\ \A k \in 1..(Len(a) + Len(b)) :
            (a \o b)[k] = IF k <= Len(a) THEN a[k] ELSE b[k - Len(a)]
      /\ Len(c \o d) = Len(c) + Len(d)
      /\ \A k \in 1..(Len(c) + Len(d)) :
            (c \o d)[k] = IF k <= Len(c) THEN c[k] ELSE d[k - Len(c)]
  BY ConcatProperties
<1>1. PICK s : s = a \o b /\ s = c \o d
  OBVIOUS
<1>2. /\ Len(s) = Len(a) + Len(b)
      /\ \A k \in 1..Len(s) : s[k] = IF k <= Len(a) THEN a[k] ELSE b[k - Len(a)]
  BY <1>0, <1>1
<1>3. /\ Len(s) = Len(c) + Len(d)
      /\ \A k \in 1..Len(s) : s[k] = IF k <= Len(c) THEN c[k] ELSE d[k - Len(c)]
  BY <1>0, <1>1
<1>4. Len(a) \in Nat /\ Len(b) \in Nat /\ Len(c) \in Nat /\ Len(d) \in Nat
  OBVIOUS
<1>5. Len(b) = Len(d)
  BY <1>2, <1>3, <1>4
<1>6. \A k \in 1..Len(a) : a[k] = c[k]
  BY <1>2, <1>3, <1>4
<1>7. ASSUME NEW k \in 1..Len(b) PROVE b[k] = d[k]
  <2>1. PICK m : m = k + Len(a)
    OBVIOUS
  <2>2. m \in 1..Len(s) /\ ~(m <= Len(a)) /\ m - Len(a) = k
    BY <1>2, <1>4, <2>1
  <2> QED
    BY <1>2, <1>3, <2>2
<1>8. a = c
  BY <1>6, SeqEqual
<1>9. b = d
  BY <1>5, <1>7, SeqEqual
<1> QED
  BY <1>8, <1>9

\* A concatenation, element by element.
IsJoin(u, s, t) ==
    /\ Len(u) = Len(s) + Len(t)
    /\ \A k \in 1..Len(s) : u[k] = s[k]
    /\ \A k \in 1..Len(t) : u[Len(s) + k] = t[k]

\* It is what \o makes.
LEMMA JoinedSeqs ==
  ASSUME NEW T, NEW s \in Seq(T), NEW t \in Seq(T)
  PROVE  s \o t \in Seq(T) /\ IsJoin(s \o t, s, t)
<1>1. /\ s \o t \in Seq(T) /\ Len(s \o t) = Len(s) + Len(t)
      /\ \A k \in 1..(Len(s) + Len(t)) :
            (s \o t)[k] = IF k <= Len(s) THEN s[k] ELSE t[k - Len(s)]
  BY ConcatProperties
<1>2. Len(s) \in Nat /\ Len(t) \in Nat
  OBVIOUS
<1>3. PICK u : u = s \o t
  OBVIOUS
<1>4. /\ u \in Seq(T) /\ Len(u) = Len(s) + Len(t)
      /\ \A k \in 1..(Len(s) + Len(t)) :
            u[k] = IF k <= Len(s) THEN s[k] ELSE t[k - Len(s)]
  BY <1>1, <1>3, Zenon
<1>5. \A k \in 1..Len(s) : u[k] = s[k]
  BY <1>2, <1>4
<1>6. ASSUME NEW k \in 1..Len(t) PROVE u[Len(s) + k] = t[k]
  <2>1. PICK m : m = Len(s) + k
    OBVIOUS
  <2>2. m \in 1..(Len(s) + Len(t)) /\ ~(m <= Len(s)) /\ m - Len(s) = k
    BY <1>2, <2>1
  <2> QED
    BY <1>4, <2>1, <2>2
<1>7. IsJoin(u, s, t)
  BY <1>4, <1>5, <1>6 DEF IsJoin
<1> QED
  BY <1>3, <1>4, <1>7

\* There is a function defined by recursion over 0..n: step[k] is what becomes of a value
\* at k.
HasRecursion(Acc, step, base, n) ==
    \E f \in [0..n -> Acc] : f[0] = base /\ \A k \in 1..n : f[k] = step[k][f[k - 1]]

\* There is one, if a step makes a value of a value.
LEMMA RecursionExists ==
  ASSUME NEW n \in Nat, NEW Acc, NEW base \in Acc, NEW step,
         \A k \in 1..n : step[k] \in [Acc -> Acc]
  PROVE  HasRecursion(Acc, step, base, n)
<1> DEFINE Up0(m) == \E f \in [0..m -> Acc] :
                        f[0] = base /\ \A k \in 1..m : f[k] = step[k][f[k - 1]]
           S == {m \in Nat : m <= n => Up0(m)}
<1>1. 0 \in S
  <2> DEFINE f == [k \in 0..0 |-> base]
  <2>1. f \in [0..0 -> Acc] /\ f[0] = base /\ \A k \in 1..0 : f[k] = step[k][f[k - 1]]
    OBVIOUS
  <2> QED
    BY <2>1
<1>2. ASSUME NEW m \in Nat, m \in S PROVE m + 1 \in S
  <2> SUFFICES ASSUME m + 1 <= n PROVE Up0(m + 1)
    OBVIOUS
  <2>1. PICK f \in [0..m -> Acc] :
            f[0] = base /\ \A k \in 1..m : f[k] = step[k][f[k - 1]]
    BY <1>2
  <2>2. PICK x : x = step[m + 1][f[m]]
    OBVIOUS
  <2>3. x \in Acc
    <3>1. m + 1 \in 1..n /\ f[m] \in Acc
      BY <2>1
    <3>2. step[m + 1] \in [Acc -> Acc]
      BY <3>1
    <3> QED
      BY <2>2, <3>1, <3>2
  <2>4. PICK g : g = [j \in 0..(m + 1) |-> IF j = m + 1 THEN x ELSE f[j]]
    OBVIOUS
  <2>5. \A j \in 0..(m + 1) : j # m + 1 => j \in 0..m
    OBVIOUS
  <2>6. g \in [0..(m + 1) -> Acc]
    BY <2>1, <2>3, <2>4, <2>5
  <2>7. g[0] = base
    BY <2>1, <2>4
  <2>8. ASSUME NEW k \in 1..(m + 1) PROVE g[k] = step[k][g[k - 1]]
    <3>1. CASE k = m + 1
      <4>1. g[k] = x /\ g[k - 1] = f[m] /\ k - 1 = m
        BY <2>4, <3>1
      <4> QED
        BY <2>2, <3>1, <4>1, Zenon
    <3>2. CASE k # m + 1
      <4>1. k \in 1..m /\ k - 1 \in 0..m /\ k - 1 # m + 1 /\ k \in 0..(m + 1)
            /\ k - 1 \in 0..(m + 1)
        BY <3>2
      <4>2. g[k] = f[k] /\ g[k - 1] = f[k - 1]
        BY <2>4, <3>2, <4>1
      <4>3. f[k] = step[k][f[k - 1]]
        BY <2>1, <4>1, Zenon
      <4> QED
        BY <4>2, <4>3, Zenon
    <3> QED
      BY <3>1, <3>2
  <2> QED
    BY <2>6, <2>7, <2>8, Zenon
<1> HIDE DEF S
<1>3. Nat \subseteq S
  BY <1>1, <1>2, NatSetInduction
<1>4. n \in S
  BY <1>3
<1> QED
  BY <1>4 DEF S, HasRecursion

\* A function over lo..hi that makes sequences of what comes behind: at k stands g[k], and
\* then what stands at nx[k].
IsChain(f, T, g, nx, lo, hi) ==
    /\ f \in [lo..hi -> Seq(T)] /\ f[hi] = <<>>
    /\ \A k \in lo..(hi - 1) : f[k] = g[k] \o f[nx[k]]

\* There is such a function.
HasChain(T, g, nx, lo, hi) == \E f : IsChain(f, T, g, nx, lo, hi)

\* There is one, if every place leads to a later one.
LEMMA ChainExists ==
  ASSUME NEW T, NEW lo \in Int, NEW hi \in Int, lo <= hi, NEW g, NEW nx,
         \A k \in lo..(hi - 1) : g[k] \in Seq(T) /\ nx[k] \in (k + 1)..hi
  PROVE  HasChain(T, g, nx, lo, hi)
<1> DEFINE S == {m \in Nat : lo <= hi - m => HasChain(T, g, nx, hi - m, hi)}
<1>1. 0 \in S
  <2> DEFINE f == [k \in hi..hi |-> <<>>]
  <2>1. <<>> \in Seq(T)
    BY EmptySeq
  <2>2. f \in [hi..hi -> Seq(T)] /\ f[hi] = <<>>
    BY <2>1
  <2>3. hi..(hi - 1) = {}
    OBVIOUS
  <2>4. IsChain(f, T, g, nx, hi, hi)
    BY <2>2, <2>3 DEF IsChain
  <2>5. hi - 0 = hi
    OBVIOUS
  <2> QED
    BY <2>4, <2>5 DEF HasChain
<1>2. ASSUME NEW m \in Nat, m \in S PROVE m + 1 \in S
  <2> SUFFICES ASSUME lo <= hi - (m + 1) PROVE HasChain(T, g, nx, hi - (m + 1), hi)
    OBVIOUS
  <2>1. PICK j, k : j = hi - m /\ k = hi - (m + 1)
    OBVIOUS
  <2>2. j \in Int /\ k \in Int /\ j = k + 1 /\ k < hi /\ lo <= k /\ k \in lo..(hi - 1)
    BY <2>1
  <2>3. PICK f : IsChain(f, T, g, nx, j, hi)
    BY <1>2, <2>1, <2>2 DEF HasChain
  <2>4. PICK x : x = g[k] \o f[nx[k]]
    OBVIOUS
  <2>5. nx[k] \in j..hi /\ g[k] \in Seq(T)
    BY <2>2
  <2>6. x \in Seq(T)
    <3>1. f[nx[k]] \in Seq(T)
      BY <2>3, <2>5 DEF IsChain
    <3> QED
      BY <2>4, <2>5, <3>1, ConcatProperties
  <2>7. PICK h : h = [n \in k..hi |-> IF n = k THEN x ELSE f[n]]
    OBVIOUS
  <2>8. \A n \in k..hi : n # k => n \in j..hi
    BY <2>2
  <2>9. \A n \in j..hi : h[n] = f[n] /\ n # k /\ n \in k..hi
    BY <2>2, <2>7
  <2>10. h \in [k..hi -> Seq(T)]
    BY <2>3, <2>6, <2>7, <2>8 DEF IsChain
  <2>11. h[hi] = <<>>
    <3>1. hi \in j..hi
      BY <2>2
    <3> QED
      BY <2>3, <2>9, <3>1 DEF IsChain
  <2>12. ASSUME NEW n \in k..(hi - 1) PROVE h[n] = g[n] \o h[nx[n]]
    <3>1. CASE n = k
      <4>1. h[n] = x
        BY <2>2, <2>7, <3>1
      <4>2. h[nx[k]] = f[nx[k]]
        BY <2>5, <2>9
      <4> QED
        BY <2>4, <3>1, <4>1, <4>2, Zenon
    <3>2. CASE n # k
      <4>1. n \in j..(hi - 1) /\ n \in j..hi /\ n \in lo..(hi - 1)
        BY <2>2, <3>2
      <4>2. nx[n] \in j..hi
        <5>1. nx[n] \in (n + 1)..hi
          BY <4>1
        <5> QED
          BY <2>2, <4>1, <5>1
      <4>3. f[n] = g[n] \o f[nx[n]]
        BY <2>3, <4>1 DEF IsChain
      <4>4. h[n] = f[n] /\ h[nx[n]] = f[nx[n]]
        BY <2>9, <4>1, <4>2
      <4> QED
        BY <4>3, <4>4, Zenon
    <3> QED
      BY <3>1, <3>2
  <2>13. IsChain(h, T, g, nx, k, hi)
    BY <2>10, <2>11, <2>12 DEF IsChain
  <2> QED
    BY <2>1, <2>13 DEF HasChain
<1> HIDE DEF S
<1>3. Nat \subseteq S
  BY <1>1, <1>2, NatSetInduction
<1>4. hi - lo \in S /\ hi - (hi - lo) = lo
  BY <1>3
<1> QED
  BY <1>4 DEF S

\* A text that is not empty has a first byte.
HasFirst(t, T, m) == \E x \in T : \E v \in Seq(T) : t = <<x>> \o v /\ Len(v) = m

\* It can be taken off.
LEMMA FirstOf ==
  ASSUME NEW T, NEW t \in Seq(T), NEW m \in Nat, Len(t) = m + 1
  PROVE  HasFirst(t, T, m)
<1>1. t # <<>>
  BY EmptySeq
<1>2. PICK x, v : x = Head(t) /\ v = Tail(t)
  OBVIOUS
<1>3. /\ x \in T /\ v \in Seq(T) /\ Len(v) = m /\ x = t[1]
      /\ \A k \in 1..m : v[k] = t[k + 1]
  BY <1>1, <1>2, HeadTailProperties
<1>4. /\ <<x>> \o v \in Seq(T) /\ Len(<<x>> \o v) = m + 1
      /\ \A k \in 1..(m + 1) : (<<x>> \o v)[k] = IF k = 1 THEN x ELSE v[k - 1]
  <2>1. <<x>> \in Seq(T) /\ Len(<<x>>) = 1 /\ <<x>>[1] = x
    BY <1>3
  <2>2. PICK u : u = <<x>>
    OBVIOUS
  <2>3. /\ u \o v \in Seq(T) /\ Len(u \o v) = Len(u) + Len(v)
        /\ \A k \in 1..(Len(u) + Len(v)) : (u \o v)[k] = IF k <= Len(u) THEN u[k] ELSE v[k - Len(u)]
    BY <1>3, <2>1, <2>2, ConcatProperties
  <2> QED
    BY <1>3, <2>1, <2>2, <2>3
<1>5. \A k \in 1..(m + 1) : t[k] = (<<x>> \o v)[k]
  <2> SUFFICES ASSUME NEW k \in 1..(m + 1) PROVE t[k] = IF k = 1 THEN x ELSE v[k - 1]
    BY <1>4
  <2>1. CASE k = 1
    BY <1>3, <2>1
  <2>2. CASE k # 1
    <3>1. k - 1 \in 1..m /\ k - 1 + 1 = k
      BY <2>2
    <3> QED
      BY <1>3, <2>2, <3>1
  <2> QED
    BY <2>1, <2>2
<1>6. t = <<x>> \o v
  BY <1>4, <1>5, SeqEqual
<1> QED
  BY <1>3, <1>6 DEF HasFirst

\* A sequence over a set is one over a larger set.
LEMMA SeqGrows ==
  ASSUME NEW T, NEW U, T \subseteq U, NEW s \in Seq(T)
  PROVE  s \in Seq(U)
<1>1. s \in [1..Len(s) -> T] /\ Len(s) \in Nat
  BY LenProperties
<1>2. s \in [1..Len(s) -> U]
  BY <1>1
<1> QED
  BY <1>1, <1>2, SeqDef

\* Two sequences of one element.
LEMMA PairJoined ==
  ASSUME NEW T, NEW a \in T, NEW b \in T
  PROVE  <<a>> \o <<b>> = <<a, b>>
<1>1. PICK s, t, v : s = <<a>> /\ t = <<b>> /\ v = <<a, b>>
  OBVIOUS
<1>2. /\ s \in Seq(T) /\ Len(s) = 1 /\ s[1] = a
      /\ t \in Seq(T) /\ Len(t) = 1 /\ t[1] = b
      /\ v \in Seq(T) /\ Len(v) = 2 /\ v[1] = a /\ v[2] = b
  BY <1>1
<1>3. PICK u : u = s \o t
  OBVIOUS
<1>4. u \in Seq(T) /\ IsJoin(u, s, t)
  BY <1>2, <1>3, JoinedSeqs
<1>5. Len(u) = 2 /\ u[1] = a /\ u[1 + 1] = b
  BY <1>2, <1>4 DEF IsJoin
<1>6. \A k \in 1..2 : u[k] = v[k]
  <2>1. 1 + 1 = 2
    OBVIOUS
  <2> QED
    BY <1>2, <1>5, <2>1
<1>7. u = v
  BY <1>2, <1>4, <1>5, <1>6, SeqEqual
<1> QED
  BY <1>1, <1>3, <1>7

\* Two elements at once.
LEMMA AppendPair ==
  ASSUME NEW T, NEW o \in Seq(T), NEW a \in T, NEW b \in T
  PROVE  o \o <<a, b>> = Append(Append(o, a), b)
<1>1. PICK s, t, M : s = <<a>> /\ t = <<b>> /\ M = Seq(T)
  OBVIOUS
<1>2. s \in M /\ t \in M /\ o \in M /\ o \o s \in Seq(T)
  BY <1>1, ConcatProperties
<1>3. Append(o, a) = o \o s
  BY <1>1, AppendIsConcat
<1>4. Append(o \o s, b) = (o \o s) \o t
  BY <1>1, <1>2, AppendIsConcat
<1>5. (o \o s) \o t = o \o (s \o t)
  BY <1>1, <1>2, Regroup
<1>6. s \o t = <<a, b>>
  BY <1>1, PairJoined
<1> QED
  BY <1>3, <1>4, <1>5, <1>6

\* FlattenSeq of two.
LEMMA FlatTwo ==
  ASSUME NEW T, NEW a \in Seq(T), NEW b \in Seq(T)
  PROVE  FlattenSeq(<<a, b>>) = a \o b
<1>1. PICK M : M = Seq(T)
  OBVIOUS
<1>2. PICK s, none : s = <<b>> /\ none = <<>>
  OBVIOUS
<1>3. s \in Seq(M) /\ none \in Seq(M) /\ a \in M /\ b \in M /\ s = Append(none, b)
  BY <1>1, <1>2
<1>4. FlattenSeq(none) = <<>>
  BY <1>2 DEF FlattenSeq
<1>5. FlattenSeq(s) = FlattenSeq(none) \o b
  BY <1>1, <1>3, FlattenAppend
<1>6. FlattenSeq(s) = b
  BY <1>3, <1>1, <1>4, <1>5, ConcatEmptySeq
<1>7. FlattenSeq(<<a>> \o s) = a \o FlattenSeq(s)
  BY <1>1, <1>3, FlattenCons
<1>8. <<a>> \o s = <<a, b>>
  BY <1>2, <1>3, PairJoined
<1> QED
  BY <1>6, <1>7, <1>8

\* A function of 1 and 2 is a pair.
LEMMA PairOf ==
  ASSUME NEW T, NEW v \in T, NEW w \in T, NEW u, DOMAIN u = 1..2,
         u = [k \in 1..2 |-> u[k]], u[1] = v, u[2] = w
  PROVE  u = <<v, w>>
<1>1. u \in Seq(T)
  <2>1. u \in [1..2 -> T]
    <3>1. \A k \in 1..2 : k = 1 \/ k = 2
      OBVIOUS
    <3> QED
      BY <3>1
  <2> QED
    BY <2>1, SeqDef
<1>2. Len(u) = 2
  BY <1>1, LenProperties
<1>3. PICK p : p = <<v, w>>
  OBVIOUS
<1>4. p \in Seq(T) /\ Len(p) = 2 /\ p[1] = v /\ p[2] = w
  BY <1>3
<1>5. \A k \in 1..2 : u[k] = p[k]
  BY <1>4
<1>6. u = p
  BY <1>1, <1>2, <1>4, <1>5, SeqEqual
<1> QED
  BY <1>3, <1>6
=============================================================================
