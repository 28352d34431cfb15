-------------------------------- MODULE Sums --------------------------------
(***************************************************************************)
(* Facts about sums over finite sets and about least elements, for the     *)
(* proofs of what is conserved.  The sum is the fold the models use; its   *)
(* recursion over the subsets of the index set is unfolded once, and every *)
(* induction is a minimal counterexample: strict inclusion is well founded *)
(* on finite sets.                                                         *)
(***************************************************************************)
EXTENDS Integers, FiniteSets, Functions, FiniteSetTheorems, TLAPS

SumOver(f, S) == FoldFunctionOnSet(+, 0, f, S)

\* The element the fold takes next, and the function it is the value of.
Pick(s) == CHOOSE x \in s : TRUE

IsIter(g, f, S) ==
  g = [s \in SUBSET S |-> IF s = {} THEN 0 ELSE f[Pick(s)] + g[s \ {Pick(s)}]]

-----------------------------------------------------------------------------
\* A nonempty family of finite sets has a member none of the others is
\* strictly inside of.
LEMMA MinimalSet ==
  ASSUME NEW F, F # {}, \A A \in F : IsFiniteSet(A)
  PROVE  \E A \in F : \A B \in F : ~ (B \subseteq A /\ B # A)
<1> DEFINE S == UNION F
<1>1. IsWellFoundedOn(StrictSubsetOrdering(S), FiniteSubsetsOf(S))
  BY FS_StrictSubsetOrderingWellFounded
<1>2. F \subseteq SUBSET S /\ F \subseteq FiniteSubsetsOf(S)
  BY DEF FiniteSubsetsOf
<1> HIDE DEF S
<1>3. \E A \in F : \A B \in F : <<B, A>> \notin StrictSubsetOrdering(S)
  BY <1>1, <1>2, WFMin
<1> QED
  BY <1>2, <1>3 DEF StrictSubsetOrdering

\* A nonempty set of naturals has a least element.
LEMMA LeastOf ==
  ASSUME NEW T \in SUBSET Nat, T # {}
  PROVE  \E n \in T : \A m \in T : n <= m
<1> DEFINE I == {1 .. n : n \in T}
<1>1. \A A \in I : IsFiniteSet(A)
  BY FS_Interval
<1>2. I # {}
  <2>1. PICK n \in T : TRUE
    OBVIOUS
  <2> QED
    BY <2>1
<1> HIDE DEF I
<1>3. PICK A \in I : \A B \in I : ~ (B \subseteq A /\ B # A)
  BY <1>1, <1>2, MinimalSet
<1>4. PICK n \in T : A = 1 .. n
  BY DEF I
<1>5. ASSUME NEW m \in T, m < n PROVE FALSE
  <2>1. n \in 1 .. n /\ n \notin 1 .. m /\ 1 .. m \subseteq 1 .. n
    BY <1>5
  <2>2. 1 .. m \in I
    BY DEF I
  <2> QED
    BY <1>3, <1>4, <2>1, <2>2
<1> QED
  BY <1>5

\* So a nonempty set of naturals below a bound has a greatest one.
LEMMA GreatestOf ==
  ASSUME NEW N \in Nat, NEW T \in SUBSET (0 .. N), T # {}
  PROVE  \E n \in T : \A m \in T : m <= n
<1> DEFINE D == {N - n : n \in T}
<1>0. PICK n0 \in T : TRUE
  OBVIOUS
<1>1. D \in SUBSET Nat /\ D # {}
  <2>1. N - n0 \in D
    OBVIOUS
  <2>2. \A n \in T : N - n \in Nat
    OBVIOUS
  <2> QED
    BY <2>1, <2>2
<1> HIDE DEF D
<1>2. PICK d \in D : \A e \in D : d <= e
  BY <1>1, LeastOf
<1>3. PICK n \in T : d = N - n
  BY DEF D
<1>4. \A m \in T : N - m \in D
  BY DEF D
<1>5. \A m \in T : m <= n
  BY <1>2, <1>3, <1>4
<1> QED
  BY <1>5

-----------------------------------------------------------------------------
\* The fold is the value of its recursive function.
LEMMA SumUnfold ==
  ASSUME NEW f, NEW S
  PROVE  SumOver(f, S) = (CHOOSE g : IsIter(g, f, S))[S]
  BY Zenon DEF SumOver, IsIter, FoldFunctionOnSet, MapThenFoldSet, Pick

\* The element taken next is one of the set.
LEMMA PickIn == ASSUME NEW s, s # {} PROVE Pick(s) \in s
  BY DEF Pick

\* The equation of the recursive function at the empty set and elsewhere.
LEMMA IterEmpty == ASSUME NEW f, NEW S, NEW g, IsIter(g, f, S) PROVE g[{}] = 0
  BY DEF IsIter

\* At a nonempty set it adds the term of the element taken next.
LEMMA IterStep ==
  ASSUME NEW f, NEW S, NEW g, IsIter(g, f, S), NEW s, s \subseteq S, s # {}
  PROVE  g[s] = f[Pick(s)] + g[s \ {Pick(s)}]
<1>1. s \in SUBSET S
  OBVIOUS
<1> QED
  BY <1>1 DEF IsIter

\* Two such functions agree where both are defined: the fold does not depend
\* on the set it runs in.
LEMMA IterAgree ==
  ASSUME NEW f, NEW S, IsFiniteSet(S), NEW A \in SUBSET S, NEW B \in SUBSET S,
         NEW g, IsIter(g, f, A), NEW h, IsIter(h, f, B),
         NEW r, r \subseteq A, r \subseteq B
  PROVE  g[r] = h[r]
<1> DEFINE F == {s \in SUBSET (A \cap B) : g[s] # h[s]}
<1> SUFFICES ASSUME F # {} PROVE FALSE
  OBVIOUS
<1>1. \A s \in F : s \in SUBSET S /\ IsFiniteSet(s)
  BY FS_Subset
<1> HIDE DEF F
<1>2. PICK s \in F : \A t \in F : ~ (t \subseteq s /\ t # s)
  BY <1>1, MinimalSet
<1>3. s \in SUBSET A /\ s \in SUBSET B /\ g[s] # h[s]
  BY DEF F
<1>4. s # {}
  <2>1. g[{}] = 0
    BY IterEmpty
  <2>2. h[{}] = 0
    BY IterEmpty
  <2> QED
    BY <1>3, <2>1, <2>2
<1>5. Pick(s) \in s
  BY <1>4, PickIn
<1>6. s \ {Pick(s)} \notin F
  BY <1>2, <1>5
<1>7. g[s \ {Pick(s)}] = h[s \ {Pick(s)}]
  BY <1>3, <1>6 DEF F
<1>8. g[s] = f[Pick(s)] + g[s \ {Pick(s)}]
  BY <1>3, <1>4, IterStep
<1>9. h[s] = f[Pick(s)] + h[s \ {Pick(s)}]
  BY <1>3, <1>4, IterStep
<1> QED
  BY <1>3, <1>7, <1>8, <1>9
\* Over a finite set the recursive function exists.
LEMMA IterExists ==
  ASSUME NEW f, NEW S, IsFiniteSet(S)
  PROVE  \A A \in SUBSET S : \E g : IsIter(g, f, A)
<1> DEFINE F == {A \in SUBSET S : ~ \E g : IsIter(g, f, A)}
<1> SUFFICES ASSUME F # {} PROVE FALSE
  OBVIOUS
<1>1. \A A \in F : A \in SUBSET S /\ IsFiniteSet(A)
  BY FS_Subset
<1> HIDE DEF F
<1>2. PICK A \in F : \A B \in F : ~ (B \subseteq A /\ B # A)
  BY <1>1, MinimalSet
<1>3. A \in SUBSET S /\ ~ \E g : IsIter(g, f, A)
  BY DEF F
<1> DEFINE It(V) == CHOOSE g : IsIter(g, f, V)
           E(V) == It(V)[V]
<1>4. ASSUME NEW V \in SUBSET A, V # A PROVE IsIter(It(V), f, V)
  <2>1. V \in SUBSET S /\ V \notin F
    BY <1>2, <1>3, <1>4
  <2>2. \E g : IsIter(g, f, V)
    BY <2>1 DEF F
  <2> QED
    BY <2>2, Zenon
<1> HIDE DEF It
\* The value at a proper subset follows the recursion.
<1>5. ASSUME NEW V \in SUBSET A, V # A
      PROVE  E(V) = IF V = {} THEN 0 ELSE f[Pick(V)] + E(V \ {Pick(V)})
  <2>1. IsIter(It(V), f, V)
    BY <1>4, <1>5
  <2>2. CASE V = {}
    BY <2>1, <2>2, IterEmpty
  <2>3. CASE V # {}
    <3> DEFINE W == V \ {Pick(V)}
    <3>1. Pick(V) \in V
      BY <2>3, PickIn
    <3>2. W \in SUBSET A /\ W # A /\ W \in SUBSET V
      BY <3>1
    <3>3. IsIter(It(W), f, W)
      BY <1>4, <3>2
    <3> HIDE DEF W
    <3>4. It(V)[W] = It(W)[W]
      <4>1. V \in SUBSET S /\ W \in SUBSET S /\ W \subseteq V
        BY <1>3, <3>2
      <4> QED
        BY <2>1, <3>3, <4>1, IterAgree
    <3>5. It(V)[V] = f[Pick(V)] + It(V)[W]
      BY <2>1, <2>3, IterStep DEF W
    <3> QED
      BY <2>3, <3>4, <3>5 DEF W
  <2> QED
    BY <2>2, <2>3
<1> DEFINE G == [s \in SUBSET A |-> IF s = {} THEN 0 ELSE f[Pick(s)] + E(s \ {Pick(s)})]
<1>6. ASSUME NEW V \in SUBSET A, V # A PROVE G[V] = E(V)
  BY <1>5, <1>6
<1>7. ASSUME NEW s \in SUBSET A, s # {}
      PROVE  G[s] = f[Pick(s)] + G[s \ {Pick(s)}]
  <2>1. Pick(s) \in s
    BY <1>7, PickIn
  <2>2. s \ {Pick(s)} \in SUBSET A /\ s \ {Pick(s)} # A
    BY <2>1
  <2>3. G[s] = f[Pick(s)] + E(s \ {Pick(s)})
    BY <1>7
  <2> HIDE DEF G
  <2> QED
    BY <1>6, <2>2, <2>3
<1>8. G = [s \in SUBSET A |-> IF s = {} THEN 0 ELSE f[Pick(s)] + G[s \ {Pick(s)}]]
  <2>1. G[{}] = 0
    OBVIOUS
  <2>2. DOMAIN G = SUBSET A /\ G = [s \in SUBSET A |-> G[s]]
    OBVIOUS
  <2> HIDE DEF G
  <2>3. \A s \in SUBSET A : G[s] = IF s = {} THEN 0 ELSE f[Pick(s)] + G[s \ {Pick(s)}]
    BY <1>7, <2>1
  <2> QED
    BY <2>2, <2>3
<1> HIDE DEF G
<1>9. IsIter(G, f, A)
  BY <1>8 DEF IsIter
<1> QED
  BY <1>3, <1>9
-----------------------------------------------------------------------------
\* A sum, taken apart at the element the fold starts with.
LEMMA SumPick ==
  ASSUME NEW f, NEW S, IsFiniteSet(S)
  PROVE  /\ S = {} => SumOver(f, S) = 0
         /\ S # {} => SumOver(f, S) = f[Pick(S)] + SumOver(f, S \ {Pick(S)})
<1> DEFINE It(V) == CHOOSE g : IsIter(g, f, V)
<1>1. \A V \in SUBSET S : IsIter(It(V), f, V)
  <2> SUFFICES ASSUME NEW V \in SUBSET S PROVE IsIter(It(V), f, V)
    OBVIOUS
  <2>1. \E g : IsIter(g, f, V)
    BY IterExists
  <2> QED
    BY <2>1, Zenon
<1>2. \A V \in SUBSET S : SumOver(f, V) = It(V)[V]
  BY SumUnfold
<1> HIDE DEF It
<1>3. CASE S = {}
  <2>1. It(S)[{}] = 0
    BY <1>1, IterEmpty
  <2> QED
    BY <1>2, <1>3, <2>1
<1>4. CASE S # {}
  <2> DEFINE W == S \ {Pick(S)}
  <2>1. IsIter(It(S), f, S) /\ IsIter(It(W), f, W)
    BY <1>1
  <2>2. It(S)[S] = f[Pick(S)] + It(S)[W]
    BY <1>4, <2>1, IterStep
  <2>3. W \in SUBSET S /\ S \in SUBSET S /\ W \subseteq S /\ W \subseteq W
    OBVIOUS
  <2> HIDE DEF W
  <2>4. It(S)[W] = It(W)[W]
    BY <2>1, <2>3, IterAgree
  <2>5. SumOver(f, S) = f[Pick(S)] + SumOver(f, W)
    BY <1>2, <2>2, <2>3, <2>4
  <2> QED
    BY <1>4, <2>5 DEF W
<1> QED
  BY <1>3, <1>4

\* A sum of integers is an integer.
LEMMA SumType ==
  ASSUME NEW f, NEW S, IsFiniteSet(S), \A x \in S : f[x] \in Int
  PROVE  SumOver(f, S) \in Int
<1> DEFINE F == {A \in SUBSET S : SumOver(f, A) \notin Int}
<1> SUFFICES ASSUME F # {} PROVE FALSE
  OBVIOUS
<1>1. \A A \in F : A \in SUBSET S /\ IsFiniteSet(A) /\ SumOver(f, A) \notin Int
  BY FS_Subset
<1>2. \A A \in SUBSET S : A \notin F => SumOver(f, A) \in Int
  OBVIOUS
<1> HIDE DEF F
<1>3. PICK A \in F : \A B \in F : ~ (B \subseteq A /\ B # A)
  BY <1>1, MinimalSet
<1>4. A # {}
  <2>1. A = {} => SumOver(f, A) = 0
    BY <1>1, SumPick
  <2> QED
    BY <1>1, <2>1
<1>5. Pick(A) \in A /\ f[Pick(A)] \in Int
  BY <1>1, <1>4, PickIn
<1>6. A \ {Pick(A)} \in SUBSET S /\ A \ {Pick(A)} \notin F
  BY <1>1, <1>3, <1>5
<1>7. SumOver(f, A) = f[Pick(A)] + SumOver(f, A \ {Pick(A)})
  BY <1>1, <1>4, SumPick
<1> QED
  BY <1>1, <1>2, <1>5, <1>6, <1>7

\* A sum can be taken apart at any element.
LEMMA SumRemove ==
  ASSUME NEW f, NEW S, IsFiniteSet(S), \A x \in S : f[x] \in Int, NEW y \in S
  PROVE  SumOver(f, S) = f[y] + SumOver(f, S \ {y})
<1> DEFINE F == {A \in SUBSET S : \E z \in A : SumOver(f, A) # f[z] + SumOver(f, A \ {z})}
<1> SUFFICES ASSUME F # {} PROVE FALSE
  OBVIOUS
<1>1. \A A \in F : /\ A \in SUBSET S /\ IsFiniteSet(A)
                   /\ \E z \in A : SumOver(f, A) # f[z] + SumOver(f, A \ {z})
  BY FS_Subset
<1>2. \A A \in SUBSET S : A \notin F => \A z \in A : SumOver(f, A) = f[z] + SumOver(f, A \ {z})
  OBVIOUS
<1> HIDE DEF F
<1>3. PICK A \in F : \A B \in F : ~ (B \subseteq A /\ B # A)
  BY <1>1, MinimalSet
<1>4. PICK z \in A : SumOver(f, A) # f[z] + SumOver(f, A \ {z})
  BY <1>1
<1> DEFINE x == Pick(A)
           R == A \ {x, z}
<1>5. x \in A
  BY PickIn
<1>6. SumOver(f, A) = f[x] + SumOver(f, A \ {x})
  BY <1>1, SumPick
<1> HIDE DEF x
<1>7. x # z
  BY <1>4, <1>6
<1>8. A \ {x} \in SUBSET S /\ A \ {x} \notin F /\ z \in A \ {x} /\ (A \ {x}) \ {z} = R
  BY <1>1, <1>3, <1>5, <1>7
<1>9. A \ {z} \in SUBSET S /\ A \ {z} \notin F /\ x \in A \ {z} /\ (A \ {z}) \ {x} = R
  BY <1>1, <1>3, <1>5, <1>7
<1>10. SumOver(f, A \ {x}) = f[z] + SumOver(f, R)
  BY <1>2, <1>8
<1>11. SumOver(f, A \ {z}) = f[x] + SumOver(f, R)
  BY <1>2, <1>9
<1>12. f[x] \in Int /\ f[z] \in Int
  BY <1>1, <1>5
<1>13. SumOver(f, R) \in Int
  <2>1. R \in SUBSET S
    BY <1>8
  <2>2. IsFiniteSet(R) /\ \A e \in R : f[e] \in Int
    BY <2>1, FS_Subset
  <2> HIDE DEF R
  <2> QED
    BY <2>2, SumType
<1> HIDE DEF R
<1> QED
  BY <1>4, <1>6, <1>10, <1>11, <1>12, <1>13

\* Equal terms have equal sums.
LEMMA SumSame ==
  ASSUME NEW f, NEW h, NEW S, IsFiniteSet(S), \A x \in S : f[x] = h[x]
  PROVE  SumOver(f, S) = SumOver(h, S)
<1> DEFINE F == {A \in SUBSET S : SumOver(f, A) # SumOver(h, A)}
<1> SUFFICES ASSUME F # {} PROVE FALSE
  OBVIOUS
<1>1. \A A \in F : A \in SUBSET S /\ IsFiniteSet(A) /\ SumOver(f, A) # SumOver(h, A)
  BY FS_Subset
<1>2. \A A \in SUBSET S : A \notin F => SumOver(f, A) = SumOver(h, A)
  OBVIOUS
<1> HIDE DEF F
<1>3. PICK A \in F : \A B \in F : ~ (B \subseteq A /\ B # A)
  BY <1>1, MinimalSet
<1>4. A # {}
  <2>1. A = {} => SumOver(f, A) = 0
    BY <1>1, SumPick
  <2>2. A = {} => SumOver(h, A) = 0
    BY <1>1, SumPick
  <2> QED
    BY <1>1, <2>1, <2>2
<1>5. Pick(A) \in A /\ f[Pick(A)] = h[Pick(A)]
  BY <1>1, <1>4, PickIn
<1>6. A \ {Pick(A)} \in SUBSET S /\ A \ {Pick(A)} \notin F
  BY <1>1, <1>3, <1>5
<1>7. SumOver(f, A) = f[Pick(A)] + SumOver(f, A \ {Pick(A)})
  BY <1>1, <1>4, SumPick
<1>8. SumOver(h, A) = h[Pick(A)] + SumOver(h, A \ {Pick(A)})
  BY <1>1, <1>4, SumPick
<1> QED
  BY <1>1, <1>2, <1>5, <1>6, <1>7, <1>8

\* What changing one term does to a sum.
LEMMA SumChange ==
  ASSUME NEW f, NEW h, NEW S, IsFiniteSet(S), NEW y \in S,
         \A x \in S : f[x] \in Int /\ h[x] \in Int,
         \A x \in S \ {y} : f[x] = h[x]
  PROVE  SumOver(h, S) = SumOver(f, S) - f[y] + h[y]
<1>1. SumOver(f, S) = f[y] + SumOver(f, S \ {y})
  BY SumRemove
<1>2. SumOver(h, S) = h[y] + SumOver(h, S \ {y})
  BY SumRemove
<1>3. IsFiniteSet(S \ {y})
  BY FS_Subset
<1>4. SumOver(f, S \ {y}) = SumOver(h, S \ {y})
  BY <1>3, SumSame
<1>5. SumOver(f, S \ {y}) \in Int
  BY <1>3, SumType
<1>6. f[y] \in Int /\ h[y] \in Int
  OBVIOUS
<1> QED
  BY <1>1, <1>2, <1>4, <1>5, <1>6

\* A sum of naturals is a natural, and no term of it exceeds it.
LEMMA SumNat ==
  ASSUME NEW f, NEW S, IsFiniteSet(S), \A x \in S : f[x] \in Nat
  PROVE  SumOver(f, S) \in Nat
<1> DEFINE F == {A \in SUBSET S : SumOver(f, A) \notin Nat}
<1> SUFFICES ASSUME F # {} PROVE FALSE
  OBVIOUS
<1>1. \A A \in F : A \in SUBSET S /\ IsFiniteSet(A) /\ SumOver(f, A) \notin Nat
  BY FS_Subset
<1>2. \A A \in SUBSET S : A \notin F => SumOver(f, A) \in Nat
  OBVIOUS
<1> HIDE DEF F
<1>3. PICK A \in F : \A B \in F : ~ (B \subseteq A /\ B # A)
  BY <1>1, MinimalSet
<1>4. A # {}
  <2>1. A = {} => SumOver(f, A) = 0
    BY <1>1, SumPick
  <2> QED
    BY <1>1, <2>1
<1>5. Pick(A) \in A /\ f[Pick(A)] \in Nat
  BY <1>1, <1>4, PickIn
<1>6. A \ {Pick(A)} \in SUBSET S /\ A \ {Pick(A)} \notin F
  BY <1>1, <1>3, <1>5
<1>7. SumOver(f, A) = f[Pick(A)] + SumOver(f, A \ {Pick(A)})
  BY <1>1, <1>4, SumPick
<1> QED
  BY <1>1, <1>2, <1>5, <1>6, <1>7

\* No term of a sum of naturals exceeds it.
LEMMA TermWithinSum ==
  ASSUME NEW f, NEW S, IsFiniteSet(S), \A x \in S : f[x] \in Nat, NEW y \in S
  PROVE  f[y] <= SumOver(f, S)
<1>1. SumOver(f, S) = f[y] + SumOver(f, S \ {y})
  BY SumRemove
<1>2. IsFiniteSet(S \ {y})
  BY FS_Subset
<1>3. SumOver(f, S \ {y}) \in Nat
  BY <1>2, SumNat
<1> QED
  BY <1>1, <1>3
\* A sum of zeros is zero.
LEMMA SumZero ==
  ASSUME NEW f, NEW S, IsFiniteSet(S), \A x \in S : f[x] = 0
  PROVE  SumOver(f, S) = 0
<1> DEFINE F == {A \in SUBSET S : SumOver(f, A) # 0}
<1> SUFFICES ASSUME F # {} PROVE FALSE
  OBVIOUS
<1>1. \A A \in F : A \in SUBSET S /\ IsFiniteSet(A) /\ SumOver(f, A) # 0
  BY FS_Subset
<1>2. \A A \in SUBSET S : A \notin F => SumOver(f, A) = 0
  OBVIOUS
<1> HIDE DEF F
<1>3. PICK A \in F : \A B \in F : ~ (B \subseteq A /\ B # A)
  BY <1>1, MinimalSet
<1>4. A # {}
  <2>1. A = {} => SumOver(f, A) = 0
    BY <1>1, SumPick
  <2> QED
    BY <1>1, <2>1
<1>5. Pick(A) \in A /\ f[Pick(A)] = 0
  BY <1>1, <1>4, PickIn
<1>6. A \ {Pick(A)} \in SUBSET S /\ A \ {Pick(A)} \notin F
  BY <1>1, <1>3, <1>5
<1>7. SumOver(f, A) = f[Pick(A)] + SumOver(f, A \ {Pick(A)})
  BY <1>1, <1>4, SumPick
<1> QED
  BY <1>1, <1>2, <1>5, <1>6, <1>7
=============================================================================
