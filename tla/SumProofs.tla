------------------------------ MODULE SumProofs -------------------------------
(***************************************************************************)
(* Facts about SumFunctionOnSet, the sum of a function over a finite set,  *)
(* which the books of the contract are stated with.  Its definition is     *)
(* recursive, over the subsets of the set; that the recursion defines a    *)
(* function, and what it computes, follows from the smallest set on which  *)
(* it might not.                                                           *)
(***************************************************************************)
EXTENDS FiniteSetTheorems, TLAPS

\* A family of subsets of a finite set has a member that contains no other.
LEMMA SmallestSet ==
    ASSUME NEW S, IsFiniteSet(S), NEW F, F \subseteq SUBSET S, F # {}
    PROVE  \E T \in F : \A U \in F : ~(U \subseteq T /\ U # T)
<1>1. IsWellFoundedOn(StrictSubsetOrdering(S), SUBSET S)
  BY FS_StrictSubsetOrderingWellFounded, FS_FiniteSubsetsOfFinite
<1>2. PICK T \in F : \A U \in F : ~(<<U, T>> \in StrictSubsetOrdering(S))
  BY <1>1, WFMin
<1>3. QED
  BY <1>2 DEF StrictSubsetOrdering

-----------------------------------------------------------------------------
\* The recursion.

One(s) == CHOOSE x \in s : TRUE
Rest(s) == s \ {One(s)}

\* g adds f up over the subsets of S.
Adds(g, f, S) ==
    \A s \in SUBSET S : g[s] = IF s = {} THEN 0 ELSE f[One(s)] + g[Rest(s)]

LEMMA Chosen ==
    ASSUME NEW s, s # {}
    PROVE  One(s) \in s /\ Rest(s) \subseteq s /\ Rest(s) # s
BY DEF One, Rest

\* Two functions that do so agree.
LEMMA AddsAgree ==
    ASSUME NEW f, NEW S, NEW T, NEW g, NEW h, Adds(g, f, S), Adds(h, f, T),
           NEW U, U \subseteq S, U \subseteq T, IsFiniteSet(U)
    PROVE  g[U] = h[U]
<1> DEFINE F == {u \in SUBSET U : g[u] # h[u]}
<1>1. F \subseteq SUBSET U
  OBVIOUS
<1>2. ASSUME F # {} PROVE FALSE
  <2> HIDE DEF F
  <2>1. PICK u \in F : \A v \in F : ~(v \subseteq u /\ v # u)
    BY <1>1, <1>2, SmallestSet
  <2> USE DEF F
  <2>2. u # {}
    BY <2>1 DEF Adds
  <2>3. Rest(u) \subseteq u /\ Rest(u) # u
    BY <2>2, Chosen
  <2>4. g[Rest(u)] = h[Rest(u)]
    BY <2>1, <2>3
  <2>5. g[u] = f[One(u)] + g[Rest(u)] /\ h[u] = f[One(u)] + h[Rest(u)]
    BY <2>2 DEF Adds
  <2>6. QED
    BY <2>1, <2>4, <2>5
<1>3. QED
  BY <1>2

LEMMA AddsExists ==
    ASSUME NEW f, NEW S, IsFiniteSet(S)
    PROVE  \E g : Adds(g, f, S)
<1> DEFINE F == {T \in SUBSET S : ~\E g : Adds(g, f, T)}
<1>1. F \subseteq SUBSET S
  OBVIOUS
<1>2. ASSUME F # {} PROVE FALSE
  <2> HIDE DEF F
  <2>1. PICK T \in F : \A U \in F : ~(U \subseteq T /\ U # T)
    BY <1>1, <1>2, SmallestSet
  <2> USE DEF F
  <2>2. IsFiniteSet(T) /\ \A u \in SUBSET T : IsFiniteSet(u)
    BY <2>1, FS_Subset
  <2> DEFINE V(u) == CHOOSE g : Adds(g, f, u)
             G == [s \in SUBSET T |->
                     IF s = {} THEN 0 ELSE f[One(s)] + V(Rest(s))[Rest(s)]]
  <2>3. ASSUME NEW u \in SUBSET T, u # T PROVE Adds(V(u), f, u)
    <3>1. \E g : Adds(g, f, u)
      BY <2>1, <2>3
    <3>2. QED
      BY <3>1
  <2> HIDE DEF V
  <2>4. ASSUME NEW u \in SUBSET T, u # T PROVE V(u)[u] = G[u]
    <3>1. Adds(V(u), f, u)
      BY <2>3, <2>4
    <3>2. CASE u = {}
      BY <3>1, <3>2 DEF Adds
    <3>3. CASE u # {}
      <4>1. Rest(u) \subseteq u /\ Rest(u) # u
        BY <3>3, Chosen
      <4>2. V(u)[u] = f[One(u)] + V(u)[Rest(u)]
        BY <3>1, <3>3 DEF Adds
      <4>3. Adds(V(Rest(u)), f, Rest(u))
        BY <2>3, <4>1
      <4>4. V(u)[Rest(u)] = V(Rest(u))[Rest(u)]
        BY <2>2, <3>1, <4>1, <4>3, AddsAgree
      <4>5. QED
        BY <3>3, <4>2, <4>4
    <3>4. QED
      BY <3>2, <3>3
  <2>5. ASSUME NEW s \in SUBSET T, s # {} PROVE G[s] = f[One(s)] + G[Rest(s)]
    <3>1. Rest(s) \subseteq s /\ Rest(s) # s
      BY <2>5, Chosen
    <3>2. Rest(s) \in SUBSET T /\ Rest(s) # T
      BY <3>1
    <3>3. V(Rest(s))[Rest(s)] = G[Rest(s)]
      BY <2>4, <3>2
    <3>4. G[s] = f[One(s)] + V(Rest(s))[Rest(s)]
      BY <2>5
    <3>5. QED
      BY <3>3, <3>4
  <2>6. G[{}] = 0
    OBVIOUS
  <2> HIDE DEF G
  <2>7. Adds(G, f, T)
    BY <2>5, <2>6 DEF Adds
  <2>8. QED
    BY <2>1, <2>7
<1>3. QED
  BY <1>2

LEMMA SumAdds ==
    ASSUME NEW f, NEW S, IsFiniteSet(S)
    PROVE  \E g : Adds(g, f, S) /\ SumFunctionOnSet(f, S) = g[S]
<1> DEFINE P(h) == h = [s \in SUBSET S |->
                          IF s = {} THEN 0 ELSE f[One(s)] + h[Rest(s)]]
<1>1. PICK g : Adds(g, f, S)
  BY AddsExists
<1>2. P([s \in SUBSET S |-> g[s]])
  <2>1. \A s \in SUBSET S : s # {} => Rest(s) \in SUBSET S
    BY DEF Rest
  <2>2. QED
    BY <1>1, <2>1 DEF Adds
<1>3. P(CHOOSE h : P(h))
  BY <1>2
<1>4. SumFunctionOnSet(f, S) = (CHOOSE h : P(h))[S]
  BY DEF SumFunctionOnSet, FoldFunctionOnSet, MapThenFoldSet, One, Rest
<1>5. PICK h : P(h) /\ SumFunctionOnSet(f, S) = h[S]
  BY <1>3, <1>4
<1>6. Adds(h, f, S)
  BY <1>5 DEF Adds
<1>7. QED
  BY <1>5, <1>6

-----------------------------------------------------------------------------
\* What a sum is.

LEMMA SumEmpty ==
    ASSUME NEW f
    PROVE  SumFunctionOnSet(f, {}) = 0
BY SumAdds, FS_EmptySet DEF Adds

LEMMA SumRest ==
    ASSUME NEW f, NEW S, IsFiniteSet(S), S # {}
    PROVE  SumFunctionOnSet(f, S) = f[One(S)] + SumFunctionOnSet(f, Rest(S))
<1>1. Rest(S) \subseteq S /\ IsFiniteSet(Rest(S))
  BY FS_Subset DEF Rest
<1>2. PICK g : Adds(g, f, S) /\ SumFunctionOnSet(f, S) = g[S]
  BY SumAdds
<1>3. PICK h : Adds(h, f, Rest(S)) /\ SumFunctionOnSet(f, Rest(S)) = h[Rest(S)]
  BY <1>1, SumAdds
<1>4. g[Rest(S)] = h[Rest(S)]
  BY <1>1, <1>2, <1>3, AddsAgree
<1>5. g[S] = f[One(S)] + g[Rest(S)]
  BY <1>2 DEF Adds
<1>6. QED
  BY <1>2, <1>3, <1>4, <1>5

LEMMA SumType ==
    ASSUME NEW f, NEW S, IsFiniteSet(S), \A x \in S : f[x] \in Int
    PROVE  SumFunctionOnSet(f, S) \in Int
<1> DEFINE F == {T \in SUBSET S : SumFunctionOnSet(f, T) \notin Int}
<1>1. F \subseteq SUBSET S
  OBVIOUS
<1>2. ASSUME F # {} PROVE FALSE
  <2> HIDE DEF F
  <2>1. PICK T \in F : \A U \in F : ~(U \subseteq T /\ U # T)
    BY <1>1, <1>2, SmallestSet
  <2> USE DEF F
  <2>2. T # {} /\ IsFiniteSet(T)
    <3>1. T \in SUBSET S
      BY <2>1
    <3>2. IsFiniteSet(T)
      BY <3>1, FS_Subset
    <3>3. SumFunctionOnSet(f, T) \notin Int
      BY <2>1
    <3>4. 0 \in Int /\ SumFunctionOnSet(f, {}) = 0
      BY SumEmpty
    <3>5. QED
      BY <3>2, <3>3, <3>4
  <2>3. One(T) \in S /\ Rest(T) \subseteq T /\ Rest(T) # T
    BY <2>1, <2>2, Chosen
  <2>4. SumFunctionOnSet(f, Rest(T)) \in Int
    BY <2>1, <2>3
  <2>5. QED
    BY <2>1, <2>2, <2>3, <2>4, SumRest
<1>3. QED
  BY <1>2

\* In whatever order the elements are taken.
LEMMA SumRemove ==
    ASSUME NEW f, NEW S, IsFiniteSet(S), \A x \in S : f[x] \in Int, NEW x \in S
    PROVE  SumFunctionOnSet(f, S) = f[x] + SumFunctionOnSet(f, S \ {x})
<1> DEFINE Holds(T) ==
             \A y \in T : SumFunctionOnSet(f, T) = f[y] + SumFunctionOnSet(f, T \ {y})
           F == {T \in SUBSET S : ~Holds(T)}
<1>1. F \subseteq SUBSET S
  OBVIOUS
<1>2. ASSUME F # {} PROVE FALSE
  <2> HIDE DEF F
  <2>1. PICK T \in F : \A U \in F : ~(U \subseteq T /\ U # T)
    BY <1>1, <1>2, SmallestSet
  <2> USE DEF F
  <2>2. PICK y \in T : SumFunctionOnSet(f, T) # f[y] + SumFunctionOnSet(f, T \ {y})
    BY <2>1
  <2>3. PICK c : c = One(T)
    OBVIOUS
  <2>4. /\ IsFiniteSet(T) /\ T \subseteq S /\ c \in T
        /\ SumFunctionOnSet(f, T) = f[c] + SumFunctionOnSet(f, T \ {c})
    BY <2>1, <2>2, <2>3, FS_Subset, Chosen, SumRest DEF Rest
  <2>5. c # y
    BY <2>2, <2>4
  <2>6. Holds(T \ {c}) /\ Holds(T \ {y})
    BY <2>1, <2>2, <2>4
  <2>7. /\ SumFunctionOnSet(f, T \ {c}) = f[y] + SumFunctionOnSet(f, (T \ {c}) \ {y})
        /\ SumFunctionOnSet(f, T \ {y}) = f[c] + SumFunctionOnSet(f, (T \ {y}) \ {c})
    BY <2>2, <2>4, <2>5, <2>6
  <2>8. (T \ {c}) \ {y} = (T \ {y}) \ {c}
    OBVIOUS
  <2>9. f[c] \in Int /\ f[y] \in Int /\ SumFunctionOnSet(f, (T \ {y}) \ {c}) \in Int
    <3>1. IsFiniteSet((T \ {y}) \ {c}) /\ (T \ {y}) \ {c} \subseteq S
      BY <2>4, FS_Subset
    <3>2. QED
      BY <2>2, <2>4, <3>1, SumType
  <2>10. PICK p, q, w \in Int :
           p = f[c] /\ q = f[y] /\ w = SumFunctionOnSet(f, (T \ {y}) \ {c})
    BY <2>9
  <2>11. /\ SumFunctionOnSet(f, T) = p + (q + w)
         /\ SumFunctionOnSet(f, T \ {y}) = p + w
    BY <2>4, <2>7, <2>8, <2>10
  <2>12. SumFunctionOnSet(f, T) # q + (p + w)
    BY <2>2, <2>10, <2>11
  <2>13. QED
    BY <2>10, <2>11, <2>12
<1>3. QED
  BY <1>2

LEMMA SumAdd ==
    ASSUME NEW f, NEW S, IsFiniteSet(S), NEW x, x \notin S,
           \A y \in S \cup {x} : f[y] \in Int
    PROVE  SumFunctionOnSet(f, S \cup {x}) = f[x] + SumFunctionOnSet(f, S)
<1>1. IsFiniteSet(S \cup {x}) /\ (S \cup {x}) \ {x} = S
  BY FS_AddElement
<1>2. QED
  BY <1>1, SumRemove

\* Only the values on the set count.
LEMMA SumSame ==
    ASSUME NEW f, NEW g, NEW S, IsFiniteSet(S), \A x \in S : f[x] = g[x]
    PROVE  SumFunctionOnSet(f, S) = SumFunctionOnSet(g, S)
<1> DEFINE F == {T \in SUBSET S : SumFunctionOnSet(f, T) # SumFunctionOnSet(g, T)}
<1>1. F \subseteq SUBSET S
  OBVIOUS
<1>2. ASSUME F # {} PROVE FALSE
  <2> HIDE DEF F
  <2>1. PICK T \in F : \A U \in F : ~(U \subseteq T /\ U # T)
    BY <1>1, <1>2, SmallestSet
  <2> USE DEF F
  <2>2. T # {} /\ IsFiniteSet(T)
    <3>1. T \in SUBSET S
      BY <2>1
    <3>2. IsFiniteSet(T)
      BY <3>1, FS_Subset
    <3>3. T # {}
      BY <2>1, SumEmpty
    <3>4. QED
      BY <3>2, <3>3
  <2>3. One(T) \in S /\ Rest(T) \subseteq T /\ Rest(T) # T
    BY <2>1, <2>2, Chosen
  <2>4. SumFunctionOnSet(f, Rest(T)) = SumFunctionOnSet(g, Rest(T))
    BY <2>1, <2>3
  <2>5. f[One(T)] = g[One(T)]
    BY <2>3
  <2>6. QED
    BY <2>1, <2>2, <2>4, <2>5, SumRest
<1>3. QED
  BY <1>2

\* One value changes.
LEMMA SumChange ==
    ASSUME NEW f, NEW g, NEW S, IsFiniteSet(S), NEW x \in S,
           \A y \in S : f[y] \in Int, g[x] \in Int, \A y \in S : y # x => g[y] = f[y]
    PROVE  SumFunctionOnSet(g, S) = SumFunctionOnSet(f, S) - f[x] + g[x]
<1>1. IsFiniteSet(S \ {x})
  BY FS_RemoveElement
<1>2. SumFunctionOnSet(f, S) = f[x] + SumFunctionOnSet(f, S \ {x})
  BY SumRemove
<1>3. SumFunctionOnSet(g, S) = g[x] + SumFunctionOnSet(g, S \ {x})
  BY SumRemove
<1>4. SumFunctionOnSet(g, S \ {x}) = SumFunctionOnSet(f, S \ {x})
  BY <1>1, SumSame
<1>5. SumFunctionOnSet(f, S \ {x}) \in Int /\ f[x] \in Int
  BY <1>1, SumType
<1>6. QED
  BY <1>2, <1>3, <1>4, <1>5

\* A term more and a term less.
LEMMA SumGain ==
    ASSUME NEW f, NEW g, NEW S, IsFiniteSet(S), NEW x, x \notin S, g[x] \in Int,
           \A y \in S : f[y] \in Int /\ g[y] = f[y]
    PROVE  SumFunctionOnSet(g, S \cup {x}) = SumFunctionOnSet(f, S) + g[x]
<1>1. \A y \in S \cup {x} : g[y] \in Int
  OBVIOUS
<1>2. SumFunctionOnSet(g, S \cup {x}) = g[x] + SumFunctionOnSet(g, S)
  BY <1>1, SumAdd
<1>3. SumFunctionOnSet(g, S) = SumFunctionOnSet(f, S)
  BY SumSame
<1>4. SumFunctionOnSet(f, S) \in Int
  BY SumType
<1>5. QED
  BY <1>2, <1>3, <1>4

LEMMA SumLose ==
    ASSUME NEW f, NEW g, NEW S, IsFiniteSet(S), NEW x \in S,
           \A y \in S : f[y] \in Int, \A y \in S : y # x => g[y] = f[y],
           NEW T, T = S \ {x}
    PROVE  SumFunctionOnSet(g, T) = SumFunctionOnSet(f, S) - f[x]
<1>1. SumFunctionOnSet(f, S) = f[x] + SumFunctionOnSet(f, S \ {x})
  BY SumRemove
<1>2. IsFiniteSet(S \ {x})
  BY FS_RemoveElement
<1>3. SumFunctionOnSet(g, S \ {x}) = SumFunctionOnSet(f, S \ {x})
  BY <1>2, SumSame
<1>4. SumFunctionOnSet(f, S \ {x}) \in Int /\ f[x] \in Int
  BY <1>2, SumType
<1>5. QED
  BY <1>1, <1>3, <1>4

\* Terms of nothing add nothing, and naturals add up to a natural.
LEMMA SumZero ==
    ASSUME NEW f, NEW S, IsFiniteSet(S), \A x \in S : f[x] = 0
    PROVE  SumFunctionOnSet(f, S) = 0
<1> DEFINE F == {T \in SUBSET S : SumFunctionOnSet(f, T) # 0}
<1>1. F \subseteq SUBSET S
  OBVIOUS
<1>2. ASSUME F # {} PROVE FALSE
  <2> HIDE DEF F
  <2>1. PICK T \in F : \A U \in F : ~(U \subseteq T /\ U # T)
    BY <1>1, <1>2, SmallestSet
  <2> USE DEF F
  <2>2. T # {} /\ IsFiniteSet(T)
    <3>1. T \in SUBSET S
      BY <2>1
    <3>2. IsFiniteSet(T)
      BY <3>1, FS_Subset
    <3>3. T # {}
      BY <2>1, SumEmpty
    <3>4. QED
      BY <3>2, <3>3
  <2>3. One(T) \in S /\ Rest(T) \subseteq T /\ Rest(T) # T
    BY <2>1, <2>2, Chosen
  <2>4. QED
    BY <2>1, <2>2, <2>3, SumRest
<1>3. QED
  BY <1>2

LEMMA SumNat ==
    ASSUME NEW f, NEW S, IsFiniteSet(S), \A x \in S : f[x] \in Nat
    PROVE  SumFunctionOnSet(f, S) \in Nat
<1> DEFINE F == {T \in SUBSET S : SumFunctionOnSet(f, T) \notin Nat}
<1>1. F \subseteq SUBSET S
  OBVIOUS
<1>2. ASSUME F # {} PROVE FALSE
  <2> HIDE DEF F
  <2>1. PICK T \in F : \A U \in F : ~(U \subseteq T /\ U # T)
    BY <1>1, <1>2, SmallestSet
  <2> USE DEF F
  <2>2. T # {} /\ IsFiniteSet(T)
    <3>1. T \in SUBSET S
      BY <2>1
    <3>2. IsFiniteSet(T)
      BY <3>1, FS_Subset
    <3>3. SumFunctionOnSet(f, T) \notin Nat
      BY <2>1
    <3>4. 0 \in Nat /\ SumFunctionOnSet(f, {}) = 0
      BY SumEmpty
    <3>5. QED
      BY <3>2, <3>3, <3>4
  <2>3. One(T) \in S /\ Rest(T) \subseteq T /\ Rest(T) # T
    BY <2>1, <2>2, Chosen
  <2>4. SumFunctionOnSet(f, Rest(T)) \in Nat
    BY <2>1, <2>3
  <2>5. QED
    BY <2>1, <2>2, <2>3, <2>4, SumRest
<1>3. QED
  BY <1>2

\* No term exceeds a sum of naturals.
LEMMA SumCovers ==
    ASSUME NEW f, NEW S, IsFiniteSet(S), \A y \in S : f[y] \in Nat, NEW x \in S
    PROVE  f[x] <= SumFunctionOnSet(f, S)
<1>1. SumFunctionOnSet(f, S) = f[x] + SumFunctionOnSet(f, S \ {x})
  BY SumRemove
<1>2. IsFiniteSet(S \ {x})
  BY FS_RemoveElement
<1>3. SumFunctionOnSet(f, S \ {x}) \in Nat
  BY <1>2, SumNat
<1>4. QED
  BY <1>1, <1>3

\* The larger terms have the larger sum.
LEMMA SumBounded ==
    ASSUME NEW f, NEW g, NEW S, IsFiniteSet(S),
           \A x \in S : f[x] \in Int /\ g[x] \in Int /\ f[x] <= g[x]
    PROVE  SumFunctionOnSet(f, S) <= SumFunctionOnSet(g, S)
<1> DEFINE F == {T \in SUBSET S : ~(SumFunctionOnSet(f, T) <= SumFunctionOnSet(g, T))}
<1>1. F \subseteq SUBSET S
  OBVIOUS
<1>2. ASSUME F # {} PROVE FALSE
  <2> HIDE DEF F
  <2>1. PICK T \in F : \A U \in F : ~(U \subseteq T /\ U # T)
    BY <1>1, <1>2, SmallestSet
  <2> USE DEF F
  <2>2. IsFiniteSet(T) /\ T \subseteq S
    BY <2>1, FS_Subset
  <2>3. T # {}
    <3>1. ~(SumFunctionOnSet(f, T) <= SumFunctionOnSet(g, T))
      BY <2>1
    <3>2. SumFunctionOnSet(f, {}) = 0 /\ SumFunctionOnSet(g, {}) = 0
      BY SumEmpty
    <3>3. QED
      BY <3>1, <3>2
  <2>4. PICK x, R : x = One(T) /\ R = Rest(T)
    OBVIOUS
  <2>5. x \in S /\ R \subseteq T /\ R # T
    BY <2>2, <2>3, <2>4, Chosen
  <2>6. SumFunctionOnSet(f, R) <= SumFunctionOnSet(g, R)
    BY <2>1, <2>5
  <2>7. SumFunctionOnSet(f, R) \in Int /\ SumFunctionOnSet(g, R) \in Int
    <3>1. IsFiniteSet(R) /\ R \subseteq S
      BY <2>2, <2>5, FS_Subset
    <3>2. QED
      BY <3>1, SumType
  <2>8. /\ SumFunctionOnSet(f, T) = f[x] + SumFunctionOnSet(f, R)
        /\ SumFunctionOnSet(g, T) = g[x] + SumFunctionOnSet(g, R)
    BY <2>2, <2>3, <2>4, SumRest
  <2>9. f[x] \in Int /\ g[x] \in Int /\ f[x] <= g[x]
    BY <2>5
  <2>10. SumFunctionOnSet(f, T) <= SumFunctionOnSet(g, T)
    BY <2>6, <2>7, <2>8, <2>9
  <2>11. QED
    BY <2>1, <2>10
<1>3. QED
  BY <1>2

\* Sums are subtracted term by term.
LEMMA SumMinus ==
    ASSUME NEW f, NEW g, NEW h, NEW S, IsFiniteSet(S),
           \A x \in S : f[x] \in Int /\ g[x] \in Int /\ h[x] = f[x] - g[x]
    PROVE  SumFunctionOnSet(h, S) = SumFunctionOnSet(f, S) - SumFunctionOnSet(g, S)
<1> DEFINE Minus(T) ==
             SumFunctionOnSet(h, T) = SumFunctionOnSet(f, T) - SumFunctionOnSet(g, T)
           F == {T \in SUBSET S : ~Minus(T)}
<1>1. F \subseteq SUBSET S
  OBVIOUS
<1>2. ASSUME F # {} PROVE FALSE
  <2> HIDE DEF F
  <2>1. PICK T \in F : \A U \in F : ~(U \subseteq T /\ U # T)
    BY <1>1, <1>2, SmallestSet
  <2> USE DEF F
  <2>2. IsFiniteSet(T) /\ T \subseteq S
    BY <2>1, FS_Subset
  <2>3. T # {}
    <3>1. ~Minus(T)
      BY <2>1
    <3>2. /\ SumFunctionOnSet(f, {}) = 0 /\ SumFunctionOnSet(g, {}) = 0
          /\ SumFunctionOnSet(h, {}) = 0
      BY SumEmpty
    <3>3. QED
      BY <3>1, <3>2
  <2>4. PICK x, R : x = One(T) /\ R = Rest(T)
    OBVIOUS
  <2>5. x \in S /\ R \subseteq T /\ R # T
    BY <2>2, <2>3, <2>4, Chosen
  <2>6. Minus(R)
    BY <2>1, <2>5
  <2>7. SumFunctionOnSet(f, R) \in Int /\ SumFunctionOnSet(g, R) \in Int
    <3>1. IsFiniteSet(R) /\ R \subseteq S
      BY <2>2, <2>5, FS_Subset
    <3>2. QED
      BY <3>1, SumType
  <2>8. /\ SumFunctionOnSet(f, T) = f[x] + SumFunctionOnSet(f, R)
        /\ SumFunctionOnSet(g, T) = g[x] + SumFunctionOnSet(g, R)
        /\ SumFunctionOnSet(h, T) = h[x] + SumFunctionOnSet(h, R)
    BY <2>2, <2>3, <2>4, SumRest
  <2>9. f[x] \in Int /\ g[x] \in Int /\ h[x] = f[x] - g[x]
    BY <2>5
  <2>10. Minus(T)
    BY <2>6, <2>7, <2>8, <2>9
  <2>11. QED
    BY <2>1, <2>10
<1>3. QED
  BY <1>2

\* Two sets that share nothing are added up one after the other.
LEMMA SumUnion ==
    ASSUME NEW f, NEW A, NEW B, IsFiniteSet(A), IsFiniteSet(B), A \cap B = {},
           \A x \in A \cup B : f[x] \in Int
    PROVE  SumFunctionOnSet(f, A \cup B) = SumFunctionOnSet(f, A) + SumFunctionOnSet(f, B)
<1> DEFINE Both(T) ==
             SumFunctionOnSet(f, A \cup T) = SumFunctionOnSet(f, A) + SumFunctionOnSet(f, T)
           F == {T \in SUBSET B : ~Both(T)}
<1>1. F \subseteq SUBSET B
  OBVIOUS
<1>2. ASSUME F # {} PROVE FALSE
  <2> HIDE DEF F
  <2>1. PICK T \in F : \A U \in F : ~(U \subseteq T /\ U # T)
    BY <1>1, <1>2, SmallestSet
  <2> USE DEF F
  <2>2. IsFiniteSet(T) /\ T \subseteq B
    BY <2>1, FS_Subset
  <2>3. SumFunctionOnSet(f, A) \in Int
    BY SumType
  <2>4. T # {}
    <3>1. ~Both(T)
      BY <2>1
    <3>2. SumFunctionOnSet(f, {}) = 0 /\ A \cup {} = A
      BY SumEmpty
    <3>3. Both({})
      BY <2>3, <3>2
    <3>4. QED
      BY <3>1, <3>3
  <2>5. PICK x, R : x \in T /\ R = T \ {x}
    BY <2>4
  <2>6. Both(R)
    BY <2>1, <2>5
  <2>7. /\ IsFiniteSet(R) /\ IsFiniteSet(A \cup T)
        /\ (A \cup T) \ {x} = A \cup R
    <3>1. IsFiniteSet(R)
      BY <2>2, <2>5, FS_Subset
    <3>2. IsFiniteSet(A \cup T)
      BY <2>2, FS_Union
    <3>3. x \notin A
      BY <2>2, <2>5
    <3>4. QED
      BY <2>5, <3>1, <3>2, <3>3
  <2>8. SumFunctionOnSet(f, T) = f[x] + SumFunctionOnSet(f, R)
    BY <2>2, <2>5, SumRemove
  <2>9. SumFunctionOnSet(f, A \cup T) = f[x] + SumFunctionOnSet(f, A \cup R)
    <3>1. x \in A \cup T /\ \A y \in A \cup T : f[y] \in Int
      BY <2>2, <2>5
    <3>2. SumFunctionOnSet(f, A \cup T) = f[x] + SumFunctionOnSet(f, (A \cup T) \ {x})
      BY <2>7, <3>1, SumRemove
    <3>3. QED
      BY <2>7, <3>2
  <2>10. f[x] \in Int /\ SumFunctionOnSet(f, R) \in Int
    <3>1. R \subseteq B /\ x \in B
      BY <2>2, <2>5
    <3>2. QED
      BY <2>7, <3>1, SumType
  <2>11. Both(T)
    BY <2>3, <2>6, <2>8, <2>9, <2>10
  <2>12. QED
    BY <2>1, <2>11
<1>3. QED
  BY <1>2

\* What is added up part by part is added up once, if the parts share nothing.
LEMMA SumParts ==
    ASSUME NEW f, NEW P, NEW w, NEW S, IsFiniteSet(S), NEW E, IsFiniteSet(E),
           \A x \in S : P[x] \subseteq E /\ w[x] = SumFunctionOnSet(f, P[x]),
           \A x, y \in S : x # y => P[x] \cap P[y] = {},
           \A e \in E : f[e] \in Int
    PROVE  SumFunctionOnSet(w, S) = SumFunctionOnSet(f, UNION {P[x] : x \in S})
<1> DEFINE All(T) == UNION {P[x] : x \in T}
           F == {T \in SUBSET S : SumFunctionOnSet(w, T) # SumFunctionOnSet(f, All(T))}
<1>1. F \subseteq SUBSET S
  OBVIOUS
<1>2. \A T \in SUBSET S : All(T) \subseteq E /\ IsFiniteSet(All(T))
  <2>1. \A T \in SUBSET S : All(T) \subseteq E
    OBVIOUS
  <2> HIDE DEF All
  <2>2. QED
    BY <2>1, FS_Subset
<1>3. ASSUME F # {} PROVE FALSE
  <2> HIDE DEF F
  <2>1. PICK T \in F : \A U \in F : ~(U \subseteq T /\ U # T)
    BY <1>1, <1>3, SmallestSet
  <2> USE DEF F
  <2>2. T \subseteq S /\ IsFiniteSet(T)
    BY <2>1, FS_Subset
  <2>3. T # {}
    <3>1. SumFunctionOnSet(w, T) # SumFunctionOnSet(f, All(T))
      BY <2>1
    <3>2. All({}) = {}
      OBVIOUS
    <3>3. QED
      BY <3>1, <3>2, SumEmpty
  <2>4. PICK x, R : x = One(T) /\ R = Rest(T)
    OBVIOUS
  <2>5. x \in T /\ x \in S /\ R = T \ {x} /\ R \subseteq S
    BY <2>2, <2>3, <2>4, Chosen DEF Rest
  <2>6. SumFunctionOnSet(w, R) = SumFunctionOnSet(f, All(R))
    BY <2>1, <2>5
  <2>7. All(T) = P[x] \cup All(R) /\ P[x] \cap All(R) = {}
    BY <2>5
  <2>8. IsFiniteSet(P[x]) /\ IsFiniteSet(All(R)) /\ \A e \in P[x] \cup All(R) : f[e] \in Int
    <3>1. P[x] \subseteq E
      BY <2>5
    <3>2. IsFiniteSet(P[x])
      BY <3>1, FS_Subset
    <3>3. All(R) \subseteq E /\ IsFiniteSet(All(R))
      BY <1>2, <2>5
    <3> HIDE DEF All
    <3>4. QED
      BY <3>1, <3>2, <3>3
  <2>9. SumFunctionOnSet(f, All(T)) = SumFunctionOnSet(f, P[x]) + SumFunctionOnSet(f, All(R))
    <3> HIDE DEF All
    <3>1. QED
      BY <2>7, <2>8, SumUnion
  <2>10. SumFunctionOnSet(w, T) = w[x] + SumFunctionOnSet(w, R)
    BY <2>2, <2>3, <2>4, SumRest
  <2>11. QED
    BY <2>1, <2>5, <2>6, <2>9, <2>10
<1>4. QED
  BY <1>3

=============================================================================
