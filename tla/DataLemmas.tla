------------------------------ MODULE DataLemmas ------------------------------
(***************************************************************************)
(* What the proofs need to know about the data of the models: sums over     *)
(* finite sets, the rows of a table, and least and greatest numbers.        *)
(*                                                                         *)
(* MapThenSumSet folds a set in the order CHOOSE picks its elements.  The   *)
(* lemmas show that this recursion is well defined on every finite set,     *)
(* that the order does not matter, and hence what adding, removing or       *)
(* changing one element does.  They argue from a smallest subset for which  *)
(* a claim fails.                                                           *)
(***************************************************************************)
EXTENDS Integers, Sequences, FiniteSets, FiniteSetsExt, FiniteSetTheorems, SequenceTheorems,
        WellFoundedInduction, TLAPS

\* The sum of f over S.
SumOver(f, S) == MapThenSumSet(LAMBDA x : f[x], S)

\* The element of s that the fold takes first.
Chosen(s) == CHOOSE x \in s : TRUE

\* g[s] is the sum of f over s, for every subset s of S.
Partial(f, S, g) ==
  g = [s \in SUBSET S |-> IF s = {} THEN 0 ELSE f[Chosen(s)] + g[s \ {Chosen(s)}]]

\* What the fold computes.
Total(f, S) == (CHOOSE g : Partial(f, S, g))[S]

-------------------------------------------------------------------------------
(* A family of subsets of a finite set has a smallest member.              *)
LEMMA SmallestSubset ==
  ASSUME NEW S, IsFiniteSet(S), NEW B \in SUBSET SUBSET S, B # {}
  PROVE  \E T \in B : \A U \in B : ~(U \subseteq T /\ U # T)
<1>1. B \subseteq FiniteSubsetsOf(S)
  BY FS_Subset DEF FiniteSubsetsOf
<1>2. PICK T \in B : \A U \in B : ~(<<U, T>> \in StrictSubsetOrdering(S))
  BY <1>1, FS_StrictSubsetOrderingWellFounded, WFMin
<1>3. \A U \in B : U \subseteq T /\ U # T => <<U, T>> \in StrictSubsetOrdering(S)
  BY DEF StrictSubsetOrdering
<1>4. \A U \in B : ~(U \subseteq T /\ U # T)
  BY <1>2, <1>3
<1> QED BY <1>4

LEMMA ChosenIn ==
  ASSUME NEW s, s # {}
  PROVE  Chosen(s) \in s
  BY DEF Chosen

(* The partial sums are determined by the recursion.                       *)
LEMMA PartialUnique ==
  ASSUME NEW f, NEW S, IsFiniteSet(S), NEW g, NEW h, Partial(f, S, g), Partial(f, S, h)
  PROVE  g = h
<1> DEFINE B == {s \in SUBSET S : g[s] # h[s]}
<1>1. ASSUME B # {} PROVE FALSE
  <2>1. PICK T \in B : \A U \in B : ~(U \subseteq T /\ U # T)
    <3>1. B \in SUBSET SUBSET S
      OBVIOUS
    <3> HIDE DEF B
    <3> QED BY <1>1, <3>1, SmallestSubset
  <2>2. T \in SUBSET S /\ g[T] # h[T]
    OBVIOUS
  <2>3. T # {}
    BY <2>2 DEF Partial
  <2>4. Chosen(T) \in T
    BY <2>3, ChosenIn
  <2>5. g[T \ {Chosen(T)}] = h[T \ {Chosen(T)}]
    BY <2>1, <2>4
  <2>6. g[T] = f[Chosen(T)] + g[T \ {Chosen(T)}] /\ h[T] = f[Chosen(T)] + h[T \ {Chosen(T)}]
    BY <2>2, <2>3 DEF Partial
  <2> QED BY <2>2, <2>5, <2>6
<1>2. \A s \in SUBSET S : g[s] = h[s]
  BY <1>1
<1>3. g = [s \in SUBSET S |-> g[s]] /\ h = [s \in SUBSET S |-> h[s]]
  BY DEF Partial
<1> QED BY <1>2, <1>3

(* A subset's partial sums are those of the set.                           *)
LEMMA PartialRestrict ==
  ASSUME NEW f, NEW S, NEW g, Partial(f, S, g), NEW T \in SUBSET S
  PROVE  Partial(f, T, [s \in SUBSET T |-> g[s]])
<1> DEFINE h == [s \in SUBSET T |-> g[s]]
<1>1. ASSUME NEW s \in SUBSET T
      PROVE  h[s] = IF s = {} THEN 0 ELSE f[Chosen(s)] + h[s \ {Chosen(s)}]
  <2>1. s \in SUBSET S
    OBVIOUS
  <2>2. g[s] = IF s = {} THEN 0 ELSE f[Chosen(s)] + g[s \ {Chosen(s)}]
    BY <2>1 DEF Partial
  <2>3. h[s] = g[s] /\ h[s \ {Chosen(s)}] = g[s \ {Chosen(s)}]
    OBVIOUS
  <2> QED BY <2>2, <2>3
<1>2. h = [s \in SUBSET T |-> IF s = {} THEN 0 ELSE f[Chosen(s)] + h[s \ {Chosen(s)}]]
  BY <1>1
<1> HIDE DEF h
<1> QED BY <1>2 DEF Partial, h

(* A finite set has partial sums.                                          *)
LEMMA PartialExists ==
  ASSUME NEW f, NEW S, IsFiniteSet(S)
  PROVE  \E g : Partial(f, S, g)
<1> DEFINE B == {T \in SUBSET S : ~ \E g : Partial(f, T, g)}
<1>1. ASSUME B # {} PROVE FALSE
  <2>1. PICK T \in B : \A U \in B : ~(U \subseteq T /\ U # T)
    <3>1. B \in SUBSET SUBSET S
      OBVIOUS
    <3> HIDE DEF B
    <3> QED BY <1>1, <3>1, SmallestSubset
  <2>2. T \in SUBSET S /\ IsFiniteSet(T)
    BY FS_Subset
  <2>3. ASSUME NEW U \in SUBSET T, U # T
        PROVE  /\ Partial(f, U, CHOOSE g : Partial(f, U, g))
               /\ IsFiniteSet(U)
    BY <2>1, <2>2, <2>3, FS_Subset
  <2> DEFINE value(s) == IF s = {} THEN 0
                         ELSE f[Chosen(s)] + Total(f, s \ {Chosen(s)})
             G == [s \in SUBSET T |-> value(s)]
  <2>4. ASSUME NEW U \in SUBSET T, U # T PROVE G[U] = Total(f, U)
    <3> DEFINE g == CHOOSE x : Partial(f, U, x)
    <3>1. Partial(f, U, g) /\ IsFiniteSet(U)
      BY <2>3, <2>4
    <3> HIDE DEF g
    <3>2. g[U] = IF U = {} THEN 0 ELSE f[Chosen(U)] + g[U \ {Chosen(U)}]
      BY <3>1 DEF Partial
    <3>3. ASSUME U # {} PROVE g[U \ {Chosen(U)}] = Total(f, U \ {Chosen(U)})
      <4> DEFINE V == U \ {Chosen(U)}
                 k == CHOOSE x : Partial(f, V, x)
                 r == [s \in SUBSET V |-> g[s]]
      <4>1. V \in SUBSET U /\ V \in SUBSET T /\ V # T
        BY <2>4, <3>3, ChosenIn
      <4>2. Partial(f, V, k) /\ IsFiniteSet(V)
        BY <2>3, <4>1
      <4>3. Partial(f, V, r)
        BY <3>1, <4>1, PartialRestrict
      <4>4. r = k
        <5> HIDE DEF r, k, V
        <5> QED BY <4>2, <4>3, PartialUnique
      <4>5. r[V] = g[V]
        OBVIOUS
      <4>6. Total(f, V) = k[V]
        BY DEF Total
      <4> HIDE DEF r, k, V
      <4>7. g[V] = Total(f, V)
        BY <4>4, <4>5, <4>6
      <4> QED BY <4>7 DEF V
    <3>4. G[U] = value(U)
      BY <2>4
    <3>5. Total(f, U) = g[U]
      BY DEF Total, g
    <3>6. value(U) = g[U]
      BY <3>2, <3>3
    <3> QED BY <3>4, <3>5, <3>6
  <2>5. ASSUME NEW s \in SUBSET T
        PROVE  G[s] = IF s = {} THEN 0 ELSE f[Chosen(s)] + G[s \ {Chosen(s)}]
    <3>1. CASE s = {}
      BY <3>1
    <3>2. CASE s # {}
      <4>1. s \ {Chosen(s)} \in SUBSET T /\ s \ {Chosen(s)} # T
        BY <3>2, ChosenIn
      <4>2. G[s \ {Chosen(s)}] = Total(f, s \ {Chosen(s)})
        BY <2>4, <4>1
      <4>3. G[s] = f[Chosen(s)] + Total(f, s \ {Chosen(s)})
        BY <3>2
      <4> QED BY <3>2, <4>2, <4>3
    <3> QED BY <3>1, <3>2
  <2>6. G = [s \in SUBSET T |-> IF s = {} THEN 0 ELSE f[Chosen(s)] + G[s \ {Chosen(s)}]]
    BY <2>5
  <2>7. Partial(f, T, G)
    <3> HIDE DEF G
    <3> QED BY <2>6 DEF Partial
  <2> QED BY <2>1, <2>7
<1> QED BY <1>1

(* The recursion of the fold.                                              *)
LEMMA TotalStep ==
  ASSUME NEW f, NEW S, IsFiniteSet(S)
  PROVE  /\ S = {} => Total(f, S) = 0
         /\ S # {} => Total(f, S) = f[Chosen(S)] + Total(f, S \ {Chosen(S)})
<1> DEFINE g == CHOOSE x : Partial(f, S, x)
<1>1. Partial(f, S, g)
  BY PartialExists
<1>2. Total(f, S) = g[S]
  BY DEF Total
<1> HIDE DEF g
<1>3. g[S] = IF S = {} THEN 0 ELSE f[Chosen(S)] + g[S \ {Chosen(S)}]
  BY <1>1 DEF Partial
<1>4. ASSUME S # {} PROVE g[S \ {Chosen(S)}] = Total(f, S \ {Chosen(S)})
  <2> DEFINE V == S \ {Chosen(S)}
             k == CHOOSE x : Partial(f, V, x)
             r == [s \in SUBSET V |-> g[s]]
  <2>1. V \in SUBSET S /\ IsFiniteSet(V)
    BY FS_Subset
  <2>2. Partial(f, V, k)
    BY <2>1, PartialExists
  <2>3. Partial(f, V, r)
    BY <1>1, <2>1, PartialRestrict
  <2>4. r = k
    <3> HIDE DEF r, k, V
    <3> QED BY <2>1, <2>2, <2>3, PartialUnique
  <2>5. r[V] = g[V]
    OBVIOUS
  <2>6. Total(f, V) = k[V]
    BY DEF Total
  <2> HIDE DEF r, k, V
  <2>7. g[V] = Total(f, V)
    BY <2>4, <2>5, <2>6
  <2> QED BY <2>7 DEF V
<1> QED BY <1>2, <1>3, <1>4

(* SumOver is that recursion.                                              *)
LEMMA SumIsTotal ==
  ASSUME NEW f, NEW S
  PROVE  SumOver(f, S) = Total(f, S)
<1> DEFINE F(g) == [s \in SUBSET S |-> IF s = {} THEN 0
                      ELSE LET x == CHOOSE y \in s : TRUE IN f[x] + g[s \ {x}]]
<1>1. SumOver(f, S) = (CHOOSE g : g = F(g))[S]
  BY DEF SumOver, MapThenSumSet, MapThenFoldSet
<1>2. \A g : Partial(f, S, g) <=> g = F(g)
  BY DEF Partial, Chosen
<1>3. (CHOOSE g : g = F(g)) = (CHOOSE g : Partial(f, S, g))
  <2> HIDE DEF F
  <2> QED BY <1>2, Zenon
<1> QED BY <1>1, <1>3 DEF Total

-------------------------------------------------------------------------------
(* The empty sum.                                                          *)
LEMMA SumEmpty == \A f : SumOver(f, {}) = 0
  BY SumIsTotal, TotalStep, FS_EmptySet

(* A sum of integers is an integer, one of naturals a natural.             *)
LEMMA SumType ==
  ASSUME NEW f, NEW S, IsFiniteSet(S), \A x \in S : f[x] \in Int
  PROVE  /\ SumOver(f, S) \in Int
         /\ (\A x \in S : f[x] \in Nat) => SumOver(f, S) \in Nat
<1> DEFINE A == {T \in SUBSET S : Total(f, T) \notin Int}
           B == {T \in SUBSET S : Total(f, T) \notin Nat}
<1>1. ASSUME A # {} PROVE FALSE
  <2>1. PICK T \in A : \A U \in A : ~(U \subseteq T /\ U # T)
    <3>1. A \in SUBSET SUBSET S
      OBVIOUS
    <3> HIDE DEF A
    <3> QED BY <1>1, <3>1, SmallestSubset
  <2>2. T \in SUBSET S /\ Total(f, T) \notin Int /\ IsFiniteSet(T)
    BY FS_Subset
  <2>3. T # {}
    <3>1. T = {} => Total(f, T) = 0
      BY <2>2, TotalStep
    <3> QED BY <2>2, <3>1
  <2>4. Chosen(T) \in T
    BY <2>3, ChosenIn
  <2>5. Total(f, T \ {Chosen(T)}) \in Int
    BY <2>1, <2>4
  <2>6. Total(f, T) = f[Chosen(T)] + Total(f, T \ {Chosen(T)})
    BY <2>2, <2>3, TotalStep
  <2> QED BY <2>2, <2>4, <2>5, <2>6
<1>2. ASSUME \A x \in S : f[x] \in Nat, B # {} PROVE FALSE
  <2>1. PICK T \in B : \A U \in B : ~(U \subseteq T /\ U # T)
    <3>1. B \in SUBSET SUBSET S
      OBVIOUS
    <3> HIDE DEF B
    <3> QED BY <1>2, <3>1, SmallestSubset
  <2>2. T \in SUBSET S /\ Total(f, T) \notin Nat /\ IsFiniteSet(T)
    BY FS_Subset
  <2>3. T # {}
    <3>1. T = {} => Total(f, T) = 0
      BY <2>2, TotalStep
    <3> QED BY <2>2, <3>1
  <2>4. Chosen(T) \in T
    BY <2>3, ChosenIn
  <2>5. Total(f, T \ {Chosen(T)}) \in Nat
    BY <2>1, <2>4
  <2>6. Total(f, T) = f[Chosen(T)] + Total(f, T \ {Chosen(T)})
    BY <2>2, <2>3, TotalStep
  <2> QED BY <1>2, <2>2, <2>4, <2>5, <2>6
<1>3. Total(f, S) \in Int /\ ((\A x \in S : f[x] \in Nat) => Total(f, S) \in Nat)
  BY <1>1, <1>2
<1> QED BY <1>3, SumIsTotal

(* Any element may be taken out first: the order does not matter.          *)
LEMMA SumRemove ==
  ASSUME NEW f, NEW S, IsFiniteSet(S), \A y \in S : f[y] \in Int, NEW x \in S
  PROVE  SumOver(f, S) = f[x] + SumOver(f, S \ {x})
<1> DEFINE B == {T \in SUBSET S : \E y \in T : Total(f, T) # f[y] + Total(f, T \ {y})}
<1>1. \A T \in SUBSET S : Total(f, T) \in Int /\ IsFiniteSet(T)
  BY SumIsTotal, SumType, FS_Subset
<1>2. ASSUME B # {} PROVE FALSE
  <2>1. PICK T \in B : \A U \in B : ~(U \subseteq T /\ U # T)
    <3>1. B \in SUBSET SUBSET S
      OBVIOUS
    <3> HIDE DEF B
    <3> QED BY <1>2, <3>1, SmallestSubset
  <2>2. PICK y \in T : Total(f, T) # f[y] + Total(f, T \ {y})
    OBVIOUS
  <2> DEFINE p == Chosen(T)
  <2>3. T \in SUBSET S /\ p \in T
    BY ChosenIn
  <2>4. Total(f, T) = f[p] + Total(f, T \ {p})
    BY <1>1, <2>3, TotalStep
  <2>5. p # y
    BY <2>2, <2>4
  <2> HIDE DEF p
  <2>6. Total(f, T \ {p}) = f[y] + Total(f, (T \ {p}) \ {y})
    <3>1. T \ {p} \in SUBSET S /\ y \in T \ {p} /\ T \ {p} # T
      BY <2>2, <2>3, <2>5
    <3>2. T \ {p} \notin B
      BY <2>1, <3>1
    <3> QED BY <3>1, <3>2
  <2>7. Total(f, T \ {y}) = f[p] + Total(f, (T \ {y}) \ {p})
    <3>1. T \ {y} \in SUBSET S /\ p \in T \ {y} /\ T \ {y} # T
      BY <2>2, <2>3, <2>5
    <3>2. T \ {y} \notin B
      BY <2>1, <3>1
    <3> QED BY <3>1, <3>2
  <2>8. (T \ {p}) \ {y} = (T \ {y}) \ {p}
    OBVIOUS
  <2>9. /\ f[p] \in Int /\ f[y] \in Int
        /\ Total(f, (T \ {p}) \ {y}) \in Int
    BY <1>1, <2>2, <2>3
  <2>10. Total(f, T) = f[y] + Total(f, T \ {y})
    <3> DEFINE R == Total(f, (T \ {p}) \ {y})
    <3>1. Total(f, T) = f[p] + (f[y] + R) /\ Total(f, T \ {y}) = f[p] + R
      BY <2>4, <2>6, <2>7, <2>8
    <3>2. f[p] + (f[y] + R) = f[y] + (f[p] + R)
      <4>1. \A a, b, c \in Int : a + (b + c) = b + (a + c)
        OBVIOUS
      <4> QED BY <2>9, <4>1
    <3> HIDE DEF R
    <3> QED BY <3>1, <3>2
  <2> QED BY <2>2, <2>10
<1>3. Total(f, S) = f[x] + Total(f, S \ {x})
  BY <1>2
<1> QED BY <1>3, SumIsTotal

(* One more element.                                                       *)
LEMMA SumAdd ==
  ASSUME NEW f, NEW S, IsFiniteSet(S), NEW x, x \notin S, \A y \in S \cup {x} : f[y] \in Int
  PROVE  SumOver(f, S \cup {x}) = f[x] + SumOver(f, S)
<1>1. IsFiniteSet(S \cup {x}) /\ (S \cup {x}) \ {x} = S
  BY FS_AddElement
<1> QED BY <1>1, SumRemove

(* Functions that agree on S have the same sum over it.                    *)
LEMMA SumSame ==
  ASSUME NEW f, NEW g, NEW S, IsFiniteSet(S), \A x \in S : f[x] = g[x]
  PROVE  SumOver(f, S) = SumOver(g, S)
<1> DEFINE B == {T \in SUBSET S : Total(f, T) # Total(g, T)}
<1>1. ASSUME B # {} PROVE FALSE
  <2>1. PICK T \in B : \A U \in B : ~(U \subseteq T /\ U # T)
    <3>1. B \in SUBSET SUBSET S
      OBVIOUS
    <3> HIDE DEF B
    <3> QED BY <1>1, <3>1, SmallestSubset
  <2>2. T \in SUBSET S /\ Total(f, T) # Total(g, T) /\ IsFiniteSet(T)
    BY FS_Subset
  <2>3. T # {}
    BY <2>2, TotalStep
  <2>4. Chosen(T) \in T
    BY <2>3, ChosenIn
  <2>5. Total(f, T \ {Chosen(T)}) = Total(g, T \ {Chosen(T)})
    BY <2>1, <2>4
  <2>6. /\ Total(f, T) = f[Chosen(T)] + Total(f, T \ {Chosen(T)})
        /\ Total(g, T) = g[Chosen(T)] + Total(g, T \ {Chosen(T)})
    BY <2>2, <2>3, TotalStep
  <2> QED BY <2>2, <2>4, <2>5, <2>6
<1>2. Total(f, S) = Total(g, S)
  BY <1>1
<1> QED BY <1>2, SumIsTotal

-------------------------------------------------------------------------------
(* The rows of a table.  A sequence of rows is a function on 1 .. n.        *)
LEMMA RowsShape ==
  ASSUME NEW S, NEW q \in Seq(S)
  PROVE  /\ Len(q) \in Nat
         /\ DOMAIN q = 1 .. Len(q)
         /\ q = [i \in DOMAIN q |-> q[i]]
         /\ \A i \in DOMAIN q : q[i] \in S /\ i \in Nat /\ i \in Int
<1>1. Len(q) \in Nat /\ DOMAIN q = 1 .. Len(q) /\ q \in [1 .. Len(q) -> S]
  BY LenProperties
<1>2. q = [i \in DOMAIN q |-> q[i]]
  BY <1>1
<1>3. \A i \in DOMAIN q : q[i] \in S /\ i \in Nat /\ i \in Int
  BY <1>1
<1> QED BY <1>1, <1>2, <1>3

(* Rows computed one by one from the rows of a table make a table as long. *)
LEMMA RowsMapped ==
  ASSUME NEW S, NEW T, NEW q \in Seq(S), NEW f, f = [i \in DOMAIN q |-> f[i]],
         \A i \in DOMAIN q : f[i] \in T
  PROVE  f \in Seq(T) /\ Len(f) = Len(q) /\ DOMAIN f = DOMAIN q
<1>1. Len(q) \in Nat /\ DOMAIN q = 1 .. Len(q)
  BY LenProperties
<1>2. f \in [1 .. Len(q) -> T]
  BY <1>1
<1>3. f \in Seq(T)
  BY <1>1, <1>2, SeqDef
<1>4. Len(f) \in Nat /\ DOMAIN f = 1 .. Len(f)
  BY <1>3, LenProperties
<1>5. DOMAIN f = DOMAIN q /\ Len(f) = Len(q)
  BY <1>1, <1>2, <1>4
<1> QED BY <1>3, <1>5

(* A row is replaced, or none where there is no such row.                  *)
LEMMA RowsReplaced ==
  ASSUME NEW S, NEW q \in Seq(S), NEW i, NEW r, i \in DOMAIN q => r \in S
  PROVE  LET p == [q EXCEPT ![i] = r]
         IN  /\ p \in Seq(S) /\ Len(p) = Len(q) /\ DOMAIN p = DOMAIN q
             /\ \A j \in DOMAIN q : p[j] = IF j = i THEN r ELSE q[j]
<1> DEFINE p == [q EXCEPT ![i] = r]
<1>1. p = [j \in DOMAIN q |-> IF j = i THEN r ELSE q[j]]
  BY RowsShape
<1>2. \A j \in DOMAIN q : p[j] = IF j = i THEN r ELSE q[j]
  BY <1>1
<1>3. p = [j \in DOMAIN q |-> p[j]]
  BY <1>1
<1>4. \A j \in DOMAIN q : p[j] \in S
  BY <1>2, RowsShape
<1> HIDE DEF p
<1>5. p \in Seq(S) /\ Len(p) = Len(q) /\ DOMAIN p = DOMAIN q
  BY <1>3, <1>4, RowsMapped
<1> QED BY <1>2, <1>5 DEF p

(* Rows are inserted after those there are.                                *)
LEMMA RowsJoined ==
  ASSUME NEW S, NEW q \in Seq(S), NEW r \in Seq(S)
  PROVE  LET p == q \o r
         IN  /\ p \in Seq(S) /\ Len(p) = Len(q) + Len(r)
             /\ DOMAIN p = 1 .. Len(q) + Len(r)
             /\ DOMAIN q \subseteq DOMAIN p
             /\ \A i \in DOMAIN q : p[i] = q[i]
             /\ \A i \in DOMAIN r : Len(q) + i \in DOMAIN p /\ p[Len(q) + i] = r[i]
             /\ \A i \in DOMAIN p \ DOMAIN q : i - Len(q) \in DOMAIN r /\ p[i] = r[i - Len(q)]
<1> DEFINE p == q \o r
<1>1. /\ p \in Seq(S) /\ Len(p) = Len(q) + Len(r)
      /\ \A i \in 1 .. Len(q) + Len(r) : p[i] = IF i <= Len(q) THEN q[i] ELSE r[i - Len(q)]
  BY ConcatProperties
<1>2. /\ Len(q) \in Nat /\ DOMAIN q = 1 .. Len(q) /\ Len(r) \in Nat /\ DOMAIN r = 1 .. Len(r)
  BY LenProperties
<1> HIDE DEF p
<1>3. DOMAIN p = 1 .. Len(q) + Len(r)
  BY <1>1, LenProperties
<1>4. DOMAIN q \subseteq DOMAIN p /\ \A i \in DOMAIN q : p[i] = q[i]
  BY <1>1, <1>2, <1>3
<1>5. \A i \in DOMAIN r : Len(q) + i \in DOMAIN p /\ p[Len(q) + i] = r[i]
  <2> TAKE i \in DOMAIN r
  <2>1. i \in Nat /\ 1 <= i /\ i <= Len(r) /\ ~(Len(q) + i <= Len(q)) /\ (Len(q) + i) - Len(q) = i
    BY <1>2
  <2>2. Len(q) + i \in 1 .. Len(q) + Len(r)
    BY <1>2, <2>1
  <2> QED BY <1>1, <1>3, <2>1, <2>2
<1>6. \A i \in DOMAIN p \ DOMAIN q : i - Len(q) \in DOMAIN r /\ p[i] = r[i - Len(q)]
  BY <1>1, <1>2, <1>3
<1> QED BY <1>1, <1>3, <1>4, <1>5, <1>6 DEF p

LEMMA RowsAppended ==
  ASSUME NEW S, NEW q \in Seq(S), NEW x \in S
  PROVE  LET p == Append(q, x)
         IN  /\ p \in Seq(S) /\ Len(p) = Len(q) + 1
             /\ DOMAIN p = DOMAIN q \cup {Len(q) + 1} /\ Len(q) + 1 \notin DOMAIN q
             /\ p[Len(q) + 1] = x
             /\ \A i \in DOMAIN q : p[i] = q[i]
<1>1. Len(q) \in Nat /\ DOMAIN q = 1 .. Len(q)
  BY LenProperties
<1> DEFINE p == Append(q, x)
<1>2. /\ p \in Seq(S) /\ Len(p) = Len(q) + 1 /\ p[Len(q) + 1] = x
      /\ \A i \in 1 .. Len(q) : p[i] = q[i]
  OBVIOUS
<1> HIDE DEF p
<1>3. DOMAIN p = 1 .. Len(q) + 1
  BY <1>2, LenProperties
<1>4. DOMAIN p = DOMAIN q \cup {Len(q) + 1} /\ Len(q) + 1 \notin DOMAIN q
  BY <1>1, <1>3
<1> QED BY <1>1, <1>2, <1>4 DEF p

LEMMA OneRow == \A S : \A x \in S : <<x>> \in Seq(S) /\ Len(<<x>>) = 1 /\ <<x>>[1] = x /\ DOMAIN <<x>> = {1}
  OBVIOUS

-------------------------------------------------------------------------------
(* Least and greatest numbers.                                             *)
LEMMA LeastMember ==
  ASSUME NEW S \in SUBSET Nat, S # {}
  PROVE  Min(S) \in S /\ \A y \in S : Min(S) <= y
<1>1. PICK x \in S : \A y \in S : ~(<<y, x>> \in OpToRel(<, Nat))
  BY NatLessThanWellFounded, WFMin
<1>2. \A y \in S : ~(y < x)
  BY <1>1, Zenon DEF OpToRel
<1>3. \A y \in S : x <= y
  BY <1>2
<1> QED BY <1>3 DEF Min

(* A bounded set of numbers has a greatest member.                         *)
LEMMA GreatestMember ==
  ASSUME NEW n \in Int, NEW S \in SUBSET Int, S # {}, \A y \in S : y <= n
  PROVE  Max(S) \in S /\ \A y \in S : Max(S) >= y
<1> DEFINE T == {m \in Nat : n - m \in S}
<1>1. T # {}
  <2>1. PICK y \in S : TRUE
    OBVIOUS
  <2>2. n - y \in Nat /\ n - (n - y) = y
    OBVIOUS
  <2> QED BY <2>1, <2>2
<1>2. Min(T) \in T /\ \A m \in T : Min(T) <= m
  <2>1. T \in SUBSET Nat
    OBVIOUS
  <2> HIDE DEF T
  <2> QED BY <1>1, <2>1, LeastMember
<1> DEFINE t == Min(T)
<1>3. t \in Nat /\ n - t \in S /\ \A m \in T : t <= m
  BY <1>2
<1> HIDE DEF t
<1>4. \A y \in S : n - t >= y
  <2> TAKE y \in S
  <2>1. n - y \in Nat /\ n - (n - y) = y
    OBVIOUS
  <2>2. n - y \in T
    BY <2>1
  <2>3. t <= n - y
    BY <1>3, <2>2
  <2> QED BY <1>3, <2>1, <2>3
<1> QED BY <1>3, <1>4 DEF Max

(* A row of numbers is bounded.                                            *)
LEMMA RowsBounded ==
  ASSUME NEW n \in Nat, NEW g, \A i \in 1 .. n : g[i] \in Nat
  PROVE  \E b \in Nat : \A i \in 1 .. n : g[i] <= b
<1> DEFINE Bounded(k) == \E b \in Nat : \A i \in 1 .. k : g[i] <= b
           S == {k \in 0 .. n : ~Bounded(k)}
<1> SUFFICES ASSUME S # {} PROVE FALSE
  <2>1. n \in 0 .. n
    OBVIOUS
  <2> QED BY <2>1
<1>1. PICK k \in S : \A j \in S : k <= j
  <2>1. S \in SUBSET Nat
    OBVIOUS
  <2> HIDE DEF S
  <2> QED BY <2>1, LeastMember
<1>2. Bounded(0)
  <2>1. 0 \in Nat /\ \A i \in 1 .. 0 : g[i] <= 0
    OBVIOUS
  <2> QED BY <2>1
<1>3. k \in 1 .. n /\ k - 1 \in 0 .. n /\ ~(k <= k - 1)
  BY <1>1, <1>2
<1>4. PICK b \in Nat : \A i \in 1 .. k - 1 : g[i] <= b
  BY <1>1, <1>3
<1>5. PICK c \in Nat : c = g[k]
  BY <1>3
<1>6. \A i \in 1 .. k : g[i] <= b + c
  <2> TAKE i \in 1 .. k
  <2>1. i = k \/ i \in 1 .. k - 1
    BY <1>3
  <2>2. g[i] \in Nat
    BY <1>3
  <2> QED BY <1>4, <1>5, <2>1, <2>2
<1>7. Bounded(k)
  <2>1. b + c \in Nat
    OBVIOUS
  <2> QED BY <1>6, <2>1
<1> QED BY <1>1, <1>7

-------------------------------------------------------------------------------
(* A loop of n rounds, each of which makes its value of the round's number   *)
(* and the value before: F[<<i, v>>] in round i.                            *)
Loop(f, n, base, F) ==
  /\ f = [i \in 0 .. n |-> f[i]] /\ f[0] = base
  /\ \A i \in 1 .. n : f[i] = F[<<i, f[i - 1]>>]

LEMMA LoopExists ==
  ASSUME NEW n \in Nat, NEW W, NEW base \in W, NEW F, \A i \in 1 .. n, v \in W : F[<<i, v>>] \in W
  PROVE  \E f : Loop(f, n, base, F)
<1> DEFINE Run(f, m) == /\ f \in [0 .. m -> W] /\ f[0] = base
                        /\ \A i \in 1 .. m : f[i] = F[<<i, f[i - 1]>>]
           Without == {m \in 0 .. n : ~\E f : Run(f, m)}
<1>1. Without = {}
  <2> SUFFICES ASSUME Without # {} PROVE FALSE
    OBVIOUS
  <2>1. PICK m \in Without : \A k \in Without : m <= k
    <3>1. Without \in SUBSET Nat
      OBVIOUS
    <3> HIDE DEF Without
    <3> QED BY <3>1, LeastMember
  <2>2. m \in 0 .. n /\ ~\E f : Run(f, m)
    BY <2>1
  <2>3. m # 0
    <3>1. Run([i \in 0 .. 0 |-> base], 0)
      OBVIOUS
    <3> QED BY <2>2, <3>1
  <2>4. PICK f : Run(f, m - 1)
    <3>1. m - 1 \in 0 .. n /\ ~(m <= m - 1)
      BY <2>2, <2>3
    <3> QED BY <2>1, <3>1
  <2> DEFINE g == [i \in 0 .. m |-> IF i = m THEN F[<<m, f[m - 1]>>] ELSE f[i]]
  <2>5. m \in Nat /\ m \in 1 .. n /\ m - 1 \in 0 .. m - 1
    BY <2>2, <2>3
  <2>6. /\ g = [i \in 0 .. m |-> g[i]] /\ g[m] = F[<<m, f[m - 1]>>]
        /\ \A i \in 0 .. m - 1 : g[i] = f[i] /\ f[i] \in W
    BY <2>4, <2>5
  <2>7. F[<<m, f[m - 1]>>] \in W
    BY <2>5, <2>6
  <2> HIDE DEF g
  <2>8. \A i \in 0 .. m : g[i] \in W
    <3>1. \A i \in 0 .. m : i = m \/ i \in 0 .. m - 1
      BY <2>5
    <3> QED BY <2>6, <2>7, <3>1
  <2>9. \A i \in 1 .. m : g[i] = F[<<i, g[i - 1]>>]
    <3> TAKE i \in 1 .. m
    <3>1. i - 1 \in 0 .. m - 1 /\ g[i - 1] = f[i - 1]
      <4>1. i - 1 \in 0 .. m - 1
        BY <2>5
      <4> QED BY <2>6, <4>1
    <3>2. CASE i = m
      BY <2>6, <3>1, <3>2
    <3>3. CASE i # m
      <4>1. i \in 1 .. m - 1 /\ i \in 0 .. m - 1
        BY <2>5, <3>3
      <4> QED BY <2>4, <2>6, <3>1, <4>1
    <3> QED BY <3>2, <3>3
  <2>10. g \in [0 .. m -> W] /\ g[0] = base
    <3>1. 0 \in 0 .. m - 1
      BY <2>5
    <3> QED BY <2>4, <2>6, <2>8, <3>1
  <2>11. Run(g, m)
    BY <2>9, <2>10
  <2> QED BY <2>2, <2>11
<1>2. PICK f : Run(f, n)
  <2>1. n \in 0 .. n
    OBVIOUS
  <2>2. n \notin Without
    BY <1>1
  <2> QED BY <2>1, <2>2
<1> QED BY <1>2 DEF Loop

(* What every round keeps holds throughout.                                *)
LEMMA LoopKeeps ==
  ASSUME NEW n \in Nat, NEW W, NEW f, f[0] \in W, \A i \in 1 .. n : f[i - 1] \in W => f[i] \in W
  PROVE  \A i \in 0 .. n : f[i] \in W
<1> DEFINE Bad == {i \in 0 .. n : f[i] \notin W}
<1> SUFFICES ASSUME Bad # {} PROVE FALSE
  OBVIOUS
<1>1. PICK m \in Bad : \A k \in Bad : m <= k
  <2>1. Bad \in SUBSET Nat
    OBVIOUS
  <2> HIDE DEF Bad
  <2> QED BY <2>1, LeastMember
<1>2. m \in 1 .. n /\ m - 1 \in 0 .. n /\ ~(m <= m - 1)
  BY <1>1
<1>3. f[m - 1] \in W
  BY <1>1, <1>2
<1> QED BY <1>1, <1>2, <1>3
===============================================================================
