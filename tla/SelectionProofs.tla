--------------------------- MODULE SelectionProofs ---------------------------
(***************************************************************************)
(* What loops over sequences compute, for sequences of any length.         *)
(***************************************************************************)
EXTENDS Selection, SequenceTheorems, WellFoundedInduction, TLAPS

-----------------------------------------------------------------------------
(* Induction over the length of a vector.  The library states induction over *)
(* predicates, which the provers cannot instantiate; over a set of numbers   *)
(* it follows from the well-foundedness of < .                               *)

LEMMA LeastElement ==
  ASSUME NEW T \in SUBSET Nat, T # {}
  PROVE  \E x \in T : \A y \in T : x <= y
<1> DEFINE R == {p \in Nat \X Nat : p[1] < p[2]}
<1>1. IsWellFoundedOn(R, Nat)
  <2>1. R = OpToRel(<, Nat)
    BY Zenon DEF OpToRel
  <2>2. QED
    BY <2>1, NatLessThanWellFounded, Zenon
<1>2. \A x, y \in Nat : <<y, x>> \notin R => x <= y
  OBVIOUS
<1> HIDE DEF R
<1>3. PICK x \in T : \A y \in T : <<y, x>> \notin R
  BY <1>1, WFMin, Zenon
<1>4. QED
  BY <1>2, <1>3

\* Induction in the form the provers can use: over a set, not a predicate.
LEMMA SetInduction ==
  ASSUME NEW G \in SUBSET Nat, 0 \in G, \A n \in Nat : n \in G => n + 1 \in G
  PROVE  G = Nat
<1> SUFFICES ASSUME Nat \ G # {} PROVE FALSE
  OBVIOUS
<1>1. PICK x \in Nat \ G : \A y \in Nat \ G : x <= y
  BY LeastElement
<1>2. x # 0 /\ x - 1 \in Nat
  BY <1>1
<1>3. x - 1 \in G
  BY <1>1, <1>2
<1>4. QED
  BY <1>1, <1>2, <1>3

\* Every value of f is in T: the first is, and each that follows one that is.
LEMMA Stepwise ==
  ASSUME NEW m \in Nat, NEW T, NEW f, f[0] \in T,
         \A n \in 1..m : f[n - 1] \in T => f[n] \in T
  PROVE  \A n \in 0..m : f[n] \in T
<1> DEFINE G == {n \in Nat : n <= m => f[n] \in T}
<1>1. 0 \in G
  OBVIOUS
<1>2. ASSUME NEW n \in Nat, n \in G PROVE n + 1 \in G
  <2> SUFFICES ASSUME n + 1 <= m PROVE f[n + 1] \in T
    OBVIOUS
  <2>1. n + 1 \in 1..m /\ (n + 1) - 1 = n /\ f[n] \in T
    BY <1>2
  <2>2. f[n + 1 - 1] \in T => f[n + 1] \in T
    BY <2>1
  <2>3. QED
    BY <2>1, <2>2
<1> HIDE DEF G
<1>3. G = Nat
  <2>1. G \in SUBSET Nat
    BY DEF G
  <2>2. QED
    BY <1>1, <1>2, <2>1, SetInduction
<1>4. QED
  BY <1>3 DEF G

\* The function a loop computes: f[n] is what it has after n turns.
Iterates(f, base, step, m) ==
  f = [n \in 0..m |-> IF n = 0 THEN base ELSE step[<<f[n - 1], n>>]]

LEMMA IterationExists ==
  ASSUME NEW m \in Nat, NEW base, NEW step
  PROVE  \E f : Iterates(f, base, step, m)
<1> DEFINE G == {k \in Nat : \E f : Iterates(f, base, step, k)}
<1>1. 0 \in G
  <2> DEFINE f == [n \in 0..0 |-> base]
  <2>1. Iterates(f, base, step, 0)
    BY DEF Iterates
  <2>2. QED
    BY <2>1
<1>2. ASSUME NEW k \in Nat, k \in G PROVE k + 1 \in G
  <2>1. PICK f : Iterates(f, base, step, k)
    BY <1>2
  <2> DEFINE g == [n \in 0..(k + 1) |-> IF n = k + 1 THEN step[<<f[k], n>>] ELSE f[n]]
  <2>2. ASSUME NEW n \in 0..(k + 1)
        PROVE  g[n] = IF n = 0 THEN base ELSE step[<<g[n - 1], n>>]
    <3>1. CASE n = k + 1
      BY <3>1
    <3>2. CASE n # k + 1
      <4>1. n \in 0..k /\ (n # 0 => n - 1 \in 0..k)
        BY <3>2
      <4>2. f[n] = IF n = 0 THEN base ELSE step[<<f[n - 1], n>>]
        BY <2>1, <4>1 DEF Iterates
      <4>3. g[n] = f[n] /\ (n # 0 => g[n - 1] = f[n - 1])
        BY <4>1
      <4> HIDE DEF g
      <4>4. QED
        BY <4>2, <4>3
    <3>3. QED
      BY <3>1, <3>2
  <2>3. Iterates(g, base, step, k + 1)
    <3>1. g = [n \in 0..(k + 1) |-> g[n]]
      OBVIOUS
    <3> HIDE DEF g
    <3>2. QED
      BY <2>2, <3>1 DEF Iterates
  <2>4. QED
    BY <2>3
<1> HIDE DEF G
<1>3. G = Nat
  <2>1. G \in SUBSET Nat
    BY DEF G
  <2>2. QED
    BY <1>1, <1>2, <2>1, SetInduction
<1>4. QED
  BY <1>3 DEF G

\* A loop whose turns stay in T runs to its end, in T.
LEMMA LoopRuns ==
  ASSUME NEW m \in Nat, NEW T, NEW base \in T, NEW step,
         \A x \in T, n \in 1..m : step[<<x, n>>] \in T
  PROVE  \E g : /\ Iterates(g, base, step, m) /\ g[0] = base
                /\ \A n \in 1..m : g[n] = step[<<g[n - 1], n>>]
                /\ \A n \in 0..m : g[n] \in T
<1>1. PICK g : Iterates(g, base, step, m)
  BY IterationExists
<1>2. 0 \in 0..m /\ \A n \in 1..m : n \in 0..m /\ n # 0
  OBVIOUS
<1>3. g[0] = base /\ \A n \in 1..m : g[n] = step[<<g[n - 1], n>>]
  <2>1. g[0] = IF 0 = 0 THEN base ELSE step[<<g[0 - 1], 0>>]
    BY <1>1, <1>2, Zenon DEF Iterates
  <2>2. \A n \in 1..m : g[n] = IF n = 0 THEN base ELSE step[<<g[n - 1], n>>]
    BY <1>1, <1>2, Zenon DEF Iterates
  <2>3. QED
    BY <1>2, <2>1, <2>2
<1>4. \A n \in 0..m : g[n] \in T
  <2>1. \A n \in 1..m : g[n - 1] \in T => g[n] \in T
    BY <1>3
  <2>2. g[0] \in T
    BY <1>3
  <2>3. QED
    BY <2>1, <2>2, Stepwise
<1>5. QED
  BY <1>1, <1>3, <1>4

\* Two loops that start alike and whose turns do alike end alike.
LEMMA RunAlike ==
  ASSUME NEW m \in Nat, NEW f, NEW g, f[0] = g[0],
         \A n \in 1..m : f[n - 1] = g[n - 1] => f[n] = g[n]
  PROVE  f[m] = g[m]
<1> DEFINE G == {n \in Nat : n <= m => f[n] = g[n]}
<1>1. 0 \in G
  OBVIOUS
<1>2. ASSUME NEW n \in Nat, n \in G PROVE n + 1 \in G
  <2> SUFFICES ASSUME n + 1 <= m PROVE f[n + 1] = g[n + 1]
    OBVIOUS
  <2>1. n + 1 \in 1..m /\ (n + 1) - 1 = n /\ f[n] = g[n]
    BY <1>2
  <2>2. f[n + 1 - 1] = g[n + 1 - 1] => f[n + 1] = g[n + 1]
    BY <2>1
  <2>3. QED
    BY <2>1, <2>2
<1> HIDE DEF G
<1>3. G = Nat
  <2>1. G \in SUBSET Nat
    BY DEF G
  <2>2. QED
    BY <1>1, <1>2, <2>1, SetInduction
<1>4. QED
  BY <1>3 DEF G

-----------------------------------------------------------------------------
(* Retain. *)

\* What retain() has built after m elements.
IsUpTo(f, v, kept, m) ==
  f = [n \in 0..m |-> IF n = 0 THEN << >>
                      ELSE IF v[n] \in kept THEN Append(f[n - 1], v[n])
                      ELSE f[n - 1]]

LEMMA UpToExists ==
  ASSUME NEW S, NEW v \in Seq(S), NEW kept
  PROVE  \E f : IsUpTo(f, v, kept, Len(v))
<1> DEFINE G == {m \in Nat : \E f : IsUpTo(f, v, kept, m)}
<1>1. 0 \in G
  <2> DEFINE f == [n \in 0..0 |-> << >>]
  <2>1. IsUpTo(f, v, kept, 0)
    BY DEF IsUpTo
  <2>2. QED
    BY <2>1
<1>2. ASSUME NEW m \in Nat, m \in G PROVE m + 1 \in G
  <2>1. PICK f : IsUpTo(f, v, kept, m)
    BY <1>2
  <2> DEFINE g == [n \in 0..(m + 1) |->
                     IF n = m + 1
                     THEN IF v[n] \in kept THEN Append(f[m], v[n]) ELSE f[m]
                     ELSE f[n]]
  <2>2. ASSUME NEW n \in 0..(m + 1)
        PROVE  g[n] = IF n = 0 THEN << >>
                      ELSE IF v[n] \in kept THEN Append(g[n - 1], v[n])
                      ELSE g[n - 1]
    <3>1. CASE n = m + 1
      BY <3>1
    <3>2. CASE n # m + 1
      <4>1. n \in 0..m /\ (n # 0 => n - 1 \in 0..m)
        BY <3>2
      <4>2. f[n] = IF n = 0 THEN << >>
                   ELSE IF v[n] \in kept THEN Append(f[n - 1], v[n])
                   ELSE f[n - 1]
        BY <2>1, <4>1 DEF IsUpTo
      <4>3. g[n] = f[n] /\ (n # 0 => g[n - 1] = f[n - 1])
        BY <4>1
      <4> HIDE DEF g
      <4>4. QED
        BY <4>2, <4>3
    <3>3. QED
      BY <3>1, <3>2
  <2>3. IsUpTo(g, v, kept, m + 1)
    <3>1. g = [n \in 0..(m + 1) |-> g[n]]
      OBVIOUS
    <3> HIDE DEF g
    <3>2. QED
      BY <2>2, <3>1 DEF IsUpTo
  <2>4. QED
    BY <2>3
<1> HIDE DEF G
<1>3. G = Nat
  <2>1. G \in SUBSET Nat
    BY DEF G
  <2>2. QED
    BY <1>1, <1>2, <2>1, SetInduction
<1>4. Len(v) \in G
  BY <1>3, LenProperties
<1>5. QED
  BY <1>4 DEF G

\* What is retained is a vector of the same elements, no longer than the whole.
LEMMA RetainTyped ==
  ASSUME NEW S, NEW v \in Seq(S), NEW kept
  PROVE  /\ Retain(v, kept) \in Seq(S)
         /\ Len(Retain(v, kept)) <= Len(v)
<1> DEFINE f == CHOOSE f : IsUpTo(f, v, kept, Len(v))
<1>1. Retain(v, kept) = f[Len(v)]
  BY DEF Retain, IsUpTo
<1>2. IsUpTo(f, v, kept, Len(v))
  BY UpToExists
<1> HIDE DEF f
<1> DEFINE G == {m \in Nat : m <= Len(v) => f[m] \in Seq(S) /\ Len(f[m]) <= m}
<1>3. f[0] = << >>
  BY <1>2 DEF IsUpTo
<1>4. ASSUME NEW m \in Nat, m \in G PROVE m + 1 \in G
  <2> SUFFICES ASSUME m + 1 <= Len(v) PROVE f[m + 1] \in Seq(S) /\ Len(f[m + 1]) <= m + 1
    OBVIOUS
  <2>1. m + 1 \in 0..Len(v) /\ m + 1 \in 1..Len(v) /\ m + 1 # 0 /\ (m + 1) - 1 = m
    BY LenProperties
  <2>2. f[m + 1] = IF v[m + 1] \in kept THEN Append(f[m], v[m + 1]) ELSE f[m]
    BY <1>2, <2>1, Zenon DEF IsUpTo
  <2>3. f[m] \in Seq(S) /\ Len(f[m]) <= m /\ v[m + 1] \in S
    BY <1>4, <2>1, ElementOfSeq, LenProperties
  <2>4. CASE v[m + 1] \in kept
    <3>1. f[m + 1] = Append(f[m], v[m + 1])
      BY <2>2, <2>4
    <3>2. QED
      BY <2>3, <3>1, AppendProperties, LenProperties
  <2>5. CASE v[m + 1] \notin kept
    BY <2>2, <2>3, <2>5, LenProperties
  <2>6. QED
    BY <2>4, <2>5
<1>5. 0 \in G
  <2>1. << >> \in Seq(S) /\ Len(<< >>) <= 0
    OBVIOUS
  <2>2. f[0] \in Seq(S) /\ Len(f[0]) <= 0
    BY <1>3, <2>1, Zenon
  <2>3. 0 \in Nat
    OBVIOUS
  <2>4. QED
    BY <2>2, <2>3, Zenon
<1> HIDE DEF G
<1>6. G = Nat
  <2>1. G \in SUBSET Nat
    BY DEF G
  <2>2. QED
    BY <1>4, <1>5, <2>1, SetInduction
<1>7. Len(v) \in G
  BY <1>6, LenProperties
<1>8. QED
  BY <1>1, <1>7, LenProperties DEF G

\* w holds elements of v from the first m, in their order, all in T.
Selects(w, v, T, m) ==
  /\ w \in Seq(T)
  /\ \A i \in 1..Len(w) : \E p \in 1..m : w[i] = v[p]
  /\ \A i, j \in 1..Len(w) : i < j => \E p, q \in 1..m : p < q /\ w[i] = v[p] /\ w[j] = v[q]

LEMMA SelectsNext ==
  ASSUME NEW T, NEW v, NEW m \in Nat, NEW w, Selects(w, v, T, m)
  PROVE  /\ Selects(w, v, T, m + 1)
         /\ v[m + 1] \in T => Selects(Append(w, v[m + 1]), v, T, m + 1)
<1>1. \A p \in 1..m : p \in 1..(m + 1)
  OBVIOUS
<1>2. Selects(w, v, T, m + 1)
  <2>1. ASSUME NEW i \in 1..Len(w) PROVE \E p \in 1..(m + 1) : w[i] = v[p]
    <3>1. PICK p \in 1..m : w[i] = v[p]
      BY DEF Selects
    <3>2. QED
      BY <1>1, <3>1
  <2>2. ASSUME NEW i \in 1..Len(w), NEW j \in 1..Len(w), i < j
        PROVE  \E p, q \in 1..(m + 1) : p < q /\ w[i] = v[p] /\ w[j] = v[q]
    <3>1. PICK p \in 1..m, q \in 1..m : p < q /\ w[i] = v[p] /\ w[j] = v[q]
      BY <2>2 DEF Selects
    <3>2. QED
      BY <1>1, <3>1
  <2>3. QED
    BY <2>1, <2>2 DEF Selects
<1>3. ASSUME v[m + 1] \in T PROVE Selects(Append(w, v[m + 1]), v, T, m + 1)
  <2> DEFINE x == v[m + 1]
             u == Append(w, x)
  <2>1. /\ w \in Seq(T) /\ x \in T /\ Len(w) \in Nat
    BY <1>3, LenProperties DEF Selects
  <2>2. /\ u \in Seq(T) /\ Len(u) = Len(w) + 1 /\ u[Len(w) + 1] = x
        /\ \A i \in 1..Len(w) : u[i] = w[i]
    <3> HIDE DEF x
    <3>1. QED
      BY <2>1, AppendProperties
  <2> HIDE DEF u
  <2>3. m + 1 \in 1..(m + 1) /\ \A p \in 1..m : p < m + 1
    OBVIOUS
  <2>4. ASSUME NEW i \in 1..Len(u) PROVE \E p \in 1..(m + 1) : u[i] = v[p]
    <3>1. CASE i \in 1..Len(w)
      <4>1. PICK p \in 1..m : w[i] = v[p]
        BY <3>1 DEF Selects
      <4>2. p \in 1..(m + 1) /\ u[i] = v[p]
        BY <2>2, <3>1, <4>1
      <4>3. QED
        BY <4>2
    <3>2. CASE i = Len(w) + 1
      BY <2>2, <2>3, <3>2
    <3>3. QED
      BY <2>1, <2>2, <3>1, <3>2
  <2>5. ASSUME NEW i \in 1..Len(u), NEW j \in 1..Len(u), i < j
        PROVE  \E p, q \in 1..(m + 1) : p < q /\ u[i] = v[p] /\ u[j] = v[q]
    <3>1. i \in 1..Len(w) /\ (j \in 1..Len(w) \/ j = Len(w) + 1)
      BY <2>1, <2>2, <2>5
    <3>2. CASE j \in 1..Len(w)
      <4>1. PICK p \in 1..m, q \in 1..m : p < q /\ w[i] = v[p] /\ w[j] = v[q]
        BY <2>5, <3>1, <3>2 DEF Selects
      <4>2. p \in 1..(m + 1) /\ q \in 1..(m + 1) /\ u[i] = v[p] /\ u[j] = v[q]
        BY <1>1, <2>2, <3>1, <3>2, <4>1
      <4>3. QED
        BY <4>1, <4>2
    <3>3. CASE j = Len(w) + 1
      <4>1. PICK p \in 1..m : w[i] = v[p]
        BY <3>1 DEF Selects
      <4>2. p \in 1..(m + 1) /\ p < m + 1 /\ u[i] = v[p] /\ u[j] = v[m + 1]
        BY <1>1, <2>2, <2>3, <3>1, <3>3, <4>1
      <4>3. QED
        BY <2>3, <4>2
    <3>4. QED
      BY <3>1, <3>2, <3>3
  <2>6. QED
    BY <2>2, <2>4, <2>5 DEF Selects, u
<1>4. QED
  BY <1>2, <1>3

\* retain() keeps elements of the vector that are to be kept, in their order.
LEMMA RetainSelects ==
  ASSUME NEW S, NEW v \in Seq(S), NEW kept
  PROVE  Selects(Retain(v, kept), v, S \cap kept, Len(v))
<1> DEFINE f == CHOOSE f : IsUpTo(f, v, kept, Len(v))
           T == S \cap kept
<1>1. Retain(v, kept) = f[Len(v)]
  BY DEF Retain, IsUpTo
<1>2. IsUpTo(f, v, kept, Len(v))
  BY UpToExists
<1> HIDE DEF f
<1> DEFINE G == {m \in Nat : m <= Len(v) => Selects(f[m], v, T, m)}
<1>3. 0 \in G
  <2>1. f[0] = << >>
    BY <1>2, LenProperties DEF IsUpTo
  <2> HIDE DEF T
  <2>2. Selects(<< >>, v, T, 0)
    BY EmptySeq DEF Selects
  <2>3. 0 \in Nat
    OBVIOUS
  <2>4. QED
    BY <2>1, <2>2, <2>3, Zenon
<1>4. ASSUME NEW m \in Nat, m \in G PROVE m + 1 \in G
  <2> SUFFICES ASSUME m + 1 <= Len(v) PROVE Selects(f[m + 1], v, T, m + 1)
    OBVIOUS
  <2>1. m + 1 \in 0..Len(v) /\ m + 1 \in 1..Len(v) /\ m + 1 # 0 /\ (m + 1) - 1 = m
    BY LenProperties
  <2>2. f[m + 1] = IF v[m + 1] \in kept THEN Append(f[m], v[m + 1]) ELSE f[m]
    BY <1>2, <2>1, Zenon DEF IsUpTo
  <2>3. Selects(f[m], v, T, m)
    BY <1>4, <2>1, LenProperties
  <2>4. v[m + 1] \in S
    BY <2>1, ElementOfSeq
  <2>5. v[m + 1] \in kept => v[m + 1] \in T
    BY <2>4
  <2> HIDE DEF T
  <2>6. Selects(f[m], v, T, m + 1) /\ (v[m + 1] \in T => Selects(Append(f[m], v[m + 1]), v, T, m + 1))
    BY <2>3, SelectsNext
  <2>7. QED
    BY <2>2, <2>5, <2>6, Zenon
<1> HIDE DEF G
<1>5. G = Nat
  <2>1. G \in SUBSET Nat
    BY DEF G
  <2>2. QED
    BY <1>3, <1>4, <2>1, SetInduction
<1>6. Len(v) \in G
  BY <1>5, LenProperties
<1>7. QED
  BY <1>1, <1>6, LenProperties DEF G, T

\* Everything that is to be kept among the first m elements of v is in w.
Retains(w, v, kept, m) == \A p \in 1..m : v[p] \in kept => \E i \in 1..Len(w) : w[i] = v[p]

LEMMA RetainsNext ==
  ASSUME NEW S, NEW v, NEW kept, NEW m \in Nat, NEW w \in Seq(S), Retains(w, v, kept, m)
  PROVE  /\ v[m + 1] \notin kept => Retains(w, v, kept, m + 1)
         /\ v[m + 1] \in S => Retains(Append(w, v[m + 1]), v, kept, m + 1)
<1>1. \A p \in 1..(m + 1) : p \in 1..m \/ p = m + 1
  OBVIOUS
<1>2. v[m + 1] \notin kept => Retains(w, v, kept, m + 1)
  BY <1>1 DEF Retains
<1>3. ASSUME v[m + 1] \in S PROVE Retains(Append(w, v[m + 1]), v, kept, m + 1)
  <2>1. PICK x \in S : x = v[m + 1]
    BY <1>3
  <2>2. PICK u : u = Append(w, x)
    OBVIOUS
  <2>3. /\ Len(u) = Len(w) + 1 /\ Len(w) \in Nat /\ u[Len(w) + 1] = x
        /\ \A i \in 1..Len(w) : u[i] = w[i]
    BY <2>2, AppendProperties, LenProperties
  <2>4. /\ Len(w) + 1 \in 1..Len(u) /\ \A i \in 1..Len(w) : i \in 1..Len(u)
    BY <2>3
  <2>5. ASSUME NEW p \in 1..(m + 1), v[p] \in kept PROVE \E i \in 1..Len(u) : u[i] = v[p]
    <3>1. CASE p = m + 1
      BY <2>1, <2>3, <2>4, <3>1
    <3>2. CASE p \in 1..m
      <4>1. PICK i \in 1..Len(w) : w[i] = v[p]
        BY <2>5, <3>2 DEF Retains
      <4>2. QED
        BY <2>3, <2>4, <4>1
    <3>3. QED
      BY <1>1, <3>1, <3>2
  <2>6. QED
    BY <2>1, <2>2, <2>5 DEF Retains
<1>4. QED
  BY <1>2, <1>3

\* retain() loses nothing that is to be kept.
LEMMA RetainLosesNothing ==
  ASSUME NEW S, NEW v \in Seq(S), NEW kept, NEW p \in 1..Len(v), v[p] \in kept
  PROVE  \E i \in 1..Len(Retain(v, kept)) : Retain(v, kept)[i] = v[p]
<1> DEFINE f == CHOOSE f : IsUpTo(f, v, kept, Len(v))
<1>1. Retain(v, kept) = f[Len(v)]
  BY DEF Retain, IsUpTo
<1>2. IsUpTo(f, v, kept, Len(v))
  BY UpToExists
<1> HIDE DEF f
<1> DEFINE G == {m \in Nat : m <= Len(v) => f[m] \in Seq(S) /\ Retains(f[m], v, kept, m)}
<1>3. 0 \in G
  <2>1. f[0] = << >>
    BY <1>2, LenProperties DEF IsUpTo
  <2>2. << >> \in Seq(S) /\ Retains(<< >>, v, kept, 0)
    BY EmptySeq DEF Retains
  <2>3. 0 \in Nat
    OBVIOUS
  <2>4. QED
    BY <2>1, <2>2, <2>3, Zenon
<1>4. ASSUME NEW m \in Nat, m \in G PROVE m + 1 \in G
  <2> SUFFICES ASSUME m + 1 <= Len(v)
               PROVE  f[m + 1] \in Seq(S) /\ Retains(f[m + 1], v, kept, m + 1)
    OBVIOUS
  <2>1. m + 1 \in 0..Len(v) /\ m + 1 \in 1..Len(v) /\ m + 1 # 0 /\ (m + 1) - 1 = m
    BY LenProperties
  <2>2. f[m + 1] = IF v[m + 1] \in kept THEN Append(f[m], v[m + 1]) ELSE f[m]
    BY <1>2, <2>1, Zenon DEF IsUpTo
  <2>3. f[m] \in Seq(S) /\ Retains(f[m], v, kept, m)
    BY <1>4, <2>1, LenProperties
  <2>4. v[m + 1] \in S
    BY <2>1, ElementOfSeq
  <2>5. Append(f[m], v[m + 1]) \in Seq(S)
    BY <2>3, <2>4, AppendProperties
  <2>6. /\ v[m + 1] \notin kept => Retains(f[m], v, kept, m + 1)
        /\ Retains(Append(f[m], v[m + 1]), v, kept, m + 1)
    BY <2>3, <2>4, RetainsNext
  <2>7. QED
    BY <2>2, <2>3, <2>5, <2>6, Zenon
<1> HIDE DEF G
<1>5. G = Nat
  <2>1. G \in SUBSET Nat
    BY DEF G
  <2>2. QED
    BY <1>3, <1>4, <2>1, SetInduction
<1>6. Retains(f[Len(v)], v, kept, Len(v))
  <2>1. Len(v) \in G
    BY <1>5, LenProperties
  <2>2. QED
    BY <2>1, LenProperties DEF G
<1>7. QED
  BY <1>1, <1>6 DEF Retains
=============================================================================
