------------------- MODULE SettlementConservation_proofs --------------------
(***************************************************************************)
(* Conservation of locks and fills, for every set of matches, wallets and  *)
(* orders and every payload matchSchema accepts: user_balance.in_orders    *)
(* and orders.filled_quantity are, at every moment, the sums over the      *)
(* matches they stand for.                                                 *)
(*                                                                         *)
(* Every step of the pipeline runs at most one of the five transactions of *)
(* MatchStore; each moves one summand (or, in a cleanup, none that the     *)
(* statement speaks of), and GREATEST's clamp never bites.                 *)
(***************************************************************************)
EXTENDS SettlementPipeline_proofs, WellFoundedInduction

-----------------------------------------------------------------------------
(* Sums over finite sets: what FoldFunctionOnSet(+, 0, f, S) returns, for  *)
(* every finite S.  The balances and fills of MatchStore are such sums.    *)
(*                                                                         *)
(* The provers at hand cannot instantiate an induction theorem, whose      *)
(* parameter is an operator; the well-foundedness of the subset order has  *)
(* none, so each induction is a minimal counterexample.                    *)

\* Subsets of a finite set have a smallest one.  This is how the proofs below
\* do induction: the smallest set that breaks a claim is shown not to break it.
LEMMA LeastSubset ==
    ASSUME NEW S, IsFiniteSet(S), NEW F, F \subseteq SUBSET S, F # {}
    PROVE  \E T \in F : \A U \in F : U \subseteq T => U = T
<1>1. F \subseteq FiniteSubsetsOf(S)
  BY FS_Subset DEF FiniteSubsetsOf
<1>2. IsWellFoundedOn(StrictSubsetOrdering(S), FiniteSubsetsOf(S))
  BY FS_StrictSubsetOrderingWellFounded
<1>3. \E T \in F : \A U \in F : ~ (<<U, T>> \in StrictSubsetOrdering(S))
  BY <1>1, <1>2, WFMin
<1> QED
  BY <1>3 DEF StrictSubsetOrdering

\* Numbers have a smallest one.
LEMMA LeastNat ==
    ASSUME NEW T \in SUBSET Nat, T # {}
    PROVE  \E n \in T : \A k \in T : n <= k
<1>1. PICK p \in T : TRUE
  OBVIOUS
<1> DEFINE F == {0..k : k \in {n \in T : n <= p}}
<1>2. F \subseteq SUBSET (0..p) /\ F # {}
  <2>1. \A k \in Nat : k <= p => 0..k \in SUBSET (0..p)
    BY <1>1
  <2> QED
    BY <1>1, <2>1
<1>3. IsFiniteSet(0..p)
  BY <1>1, FS_Interval
<1>4. PICK M \in F : \A U \in F : U \subseteq M => U = M
  <2> DEFINE S == 0..p
  <2>1. IsFiniteSet(S) /\ F \subseteq SUBSET S /\ F # {}
    BY <1>2, <1>3
  <2> HIDE DEF F, S
  <2> QED
    BY <2>1, LeastSubset
<1>5. PICK n \in T : n <= p /\ M = 0..n
  OBVIOUS
<1>6. ASSUME NEW k \in T, k < n
      PROVE  FALSE
  <2>1. k <= p /\ k \in Nat /\ n \in Nat /\ p \in Nat
    BY <1>1, <1>5, <1>6
  <2>2. 0..k \in F
    BY <2>1
  <2>3. 0..k \subseteq 0..n /\ n \in 0..n /\ n \notin 0..k
    BY <1>6, <2>1
  <2> QED
    BY <1>4, <1>5, <2>2, <2>3
<1> QED
  BY <1>6
\* What MapThenSumSet and its like compute over S.
SumOf(f, S) == FoldFunctionOnSet(+, 0, f, S)

Pick(s) == CHOOSE x \in s : TRUE

Body(f, g, D) ==
    g = [s \in D |-> IF s = {} THEN 0 ELSE f[Pick(s)] + g[s \ {Pick(s)}]]

\* The fold is the value at S of a function Body defines.
LEMMA SumDef ==
    ASSUME NEW f, NEW S
    PROVE  SumOf(f, S) = (CHOOSE g : Body(f, g, SUBSET S))[S]
BY DEF SumOf, FoldFunctionOnSet, MapThenFoldSet, Body, Pick

\* The fold takes an element of the set.
LEMMA PickIn ==
    ASSUME NEW s, s # {}
    PROVE  Pick(s) \in s
BY DEF Pick

\* Body has a solution on a finite set: extend one for the subsets of at most
\* n elements to those of n + 1.
LEMMA BodyExists ==
    ASSUME NEW f, NEW S, IsFiniteSet(S)
    PROVE  \E g : Body(f, g, SUBSET S)
<1> DEFINE D(n) == {T \in SUBSET S : Cardinality(T) <= n}
           Bad == {n \in Nat : ~ \E g : Body(f, g, D(n))}
<1>1. \A T \in SUBSET S : IsFiniteSet(T) /\ Cardinality(T) \in Nat
  BY FS_Subset, FS_CardinalityType
<1>2. 0 \notin Bad
  <2>1. D(0) = {{}}
    BY <1>1, FS_EmptySet
  <2> DEFINE g == [s \in D(0) |-> 0]
  <2>2. Body(f, g, D(0))
    BY <2>1 DEF Body
  <2> QED
    BY <2>2
<1>3. ASSUME NEW n \in Nat, n \notin Bad
      PROVE  n + 1 \notin Bad
  <2>1. PICK g : Body(f, g, D(n))
    BY <1>3
  <2> DEFINE h == [s \in D(n + 1) |->
                     IF s = {} THEN 0 ELSE f[Pick(s)] + g[s \ {Pick(s)}]]
  <2>2. ASSUME NEW s \in D(n + 1), s # {}
        PROVE  s \ {Pick(s)} \in D(n) /\ s \ {Pick(s)} \in D(n + 1)
    <3>1. Cardinality(s \ {Pick(s)}) = Cardinality(s) - 1
      BY <1>1, <2>2, PickIn, FS_RemoveElement
    <3>2. Cardinality(s) \in Nat /\ Cardinality(s) <= n + 1
      BY <1>1
    <3> QED
      BY <3>1, <3>2
  <2>3. ASSUME NEW s \in D(n)
        PROVE  g[s] = h[s]
    <3>1. s \in D(n + 1)
      BY <1>1
    <3>2. g[s] = IF s = {} THEN 0 ELSE f[Pick(s)] + g[s \ {Pick(s)}]
      BY <2>1 DEF Body
    <3> QED
      BY <3>1, <3>2
  <2>4. h = [s \in D(n + 1) |->
               IF s = {} THEN 0 ELSE f[Pick(s)] + h[s \ {Pick(s)}]]
    <3> HIDE DEF D
    <3>1. \A s \in D(n + 1) : s # {} => g[s \ {Pick(s)}] = h[s \ {Pick(s)}]
      BY <2>2, <2>3
    <3> QED
      BY <3>1
  <2>5. Body(f, h, D(n + 1))
    BY <2>4 DEF Body
  <2> QED
    BY <2>5
<1>4. Bad = {}
  <2>1. SUFFICES ASSUME Bad # {}
                 PROVE  FALSE
    OBVIOUS
  <2>2. PICK n \in Bad : \A k \in Bad : n <= k
    <3> HIDE DEF Bad
    <3>1. Bad \in SUBSET Nat
      BY DEF Bad
    <3> QED
      BY <2>1, <3>1, LeastNat
  <2>3. n - 1 \in Nat
    BY <1>2, <2>2
  <2>4. n - 1 \notin Bad
    <3> HIDE DEF Bad
    <3>1. n \in Nat
      BY DEF Bad
    <3> QED
      BY <2>2, <2>3, <3>1
  <2>5. (n - 1) + 1 \notin Bad
    <3> HIDE DEF Bad
    <3> QED
      BY <1>3, <2>3, <2>4
  <2>6. (n - 1) + 1 = n
    BY <2>3
  <2> QED
    BY <2>5, <2>6
<1>5. D(Cardinality(S)) = SUBSET S
  BY FS_Subset, FS_CardinalityType
<1>6. Cardinality(S) \in Nat
  BY FS_CardinalityType
<1>7. \E g : Body(f, g, D(Cardinality(S)))
  BY <1>4, <1>6
<1> QED
  BY <1>5, <1>7

Solves(f, g, S) == Body(f, g, SUBSET S)

\* Solutions on a set and on a part of it agree on the part.
LEMMA BodyUnique ==
    ASSUME NEW f, NEW S, IsFiniteSet(S), NEW T, T \subseteq S,
           NEW g, Solves(f, g, S), NEW h, Solves(f, h, T)
    PROVE  g[T] = h[T]
<1> DEFINE Bad == {s \in SUBSET T : g[s] # h[s]}
<1>1. SUFFICES ASSUME Bad # {}
               PROVE  FALSE
  <2>1. T \in SUBSET T
    OBVIOUS
  <2> QED
    BY <2>1
<1>2. IsFiniteSet(T)
  BY FS_Subset
<1>3. PICK s \in Bad : \A U \in Bad : U \subseteq s => U = s
  <2>1. Bad \subseteq SUBSET T
    OBVIOUS
  <2> HIDE DEF Bad
  <2> QED
    BY <1>1, <1>2, <2>1, LeastSubset
<1>4. /\ g[s] = IF s = {} THEN 0 ELSE f[Pick(s)] + g[s \ {Pick(s)}]
      /\ h[s] = IF s = {} THEN 0 ELSE f[Pick(s)] + h[s \ {Pick(s)}]
  BY DEF Body, Solves
<1>5. s # {}
  BY <1>4
<1>6. Pick(s) \in s
  BY <1>5, PickIn
<1>7. s \ {Pick(s)} \notin Bad
  <2>1. s \ {Pick(s)} \subseteq s /\ s \ {Pick(s)} # s
    BY <1>6
  <2> QED
    BY <1>3, <2>1
<1>8. g[s \ {Pick(s)}] = h[s \ {Pick(s)}]
  BY <1>7
<1> QED
  BY <1>4, <1>8

\* So the fold is a solution,
LEMMA SumSolves ==
    ASSUME NEW f, NEW S, IsFiniteSet(S)
    PROVE  \E g : Solves(f, g, S) /\ SumOf(f, S) = g[S]
<1> DEFINE g == CHOOSE g : Body(f, g, SUBSET S)
<1>1. Body(f, g, SUBSET S)
  BY BodyExists
<1>2. SumOf(f, S) = g[S]
  BY SumDef
<1> QED
  BY <1>1, <1>2 DEF Solves

\* and it unfolds.
LEMMA SumStep ==
    ASSUME NEW f, NEW S, IsFiniteSet(S)
    PROVE  SumOf(f, S) = IF S = {} THEN 0
                                 ELSE f[Pick(S)] + SumOf(f, S \ {Pick(S)})
<1>1. PICK T : T = S \ {Pick(S)}
  OBVIOUS
<1>2. IsFiniteSet(T) /\ T \subseteq S
  BY <1>1, FS_Subset
<1>3. PICK g : Solves(f, g, S) /\ SumOf(f, S) = g[S]
  BY SumSolves
<1>4. PICK h : Solves(f, h, T) /\ SumOf(f, T) = h[T]
  BY <1>2, SumSolves
<1>5. g[T] = h[T]
  BY <1>2, <1>3, <1>4, BodyUnique
<1>6. g[S] = IF S = {} THEN 0 ELSE f[Pick(S)] + g[T]
  BY <1>1, <1>3 DEF Body, Solves
<1> QED
  BY <1>1, <1>3, <1>4, <1>5, <1>6

\* A sum of integers is an integer.
LEMMA SumType ==
    ASSUME NEW S, IsFiniteSet(S), NEW f, \A x \in S : f[x] \in Int
    PROVE  SumOf(f, S) \in Int
<1> DEFINE Bad == {T \in SUBSET S : SumOf(f, T) \notin Int}
<1>1. SUFFICES ASSUME Bad # {}
               PROVE  FALSE
  <2>1. S \in SUBSET S
    OBVIOUS
  <2> QED
    BY <2>1
<1>2. PICK T \in Bad : \A U \in Bad : U \subseteq T => U = T
  <2>1. Bad \subseteq SUBSET S
    OBVIOUS
  <2> HIDE DEF Bad
  <2> QED
    BY <1>1, <2>1, LeastSubset
<1>3. IsFiniteSet(T)
  BY FS_Subset
<1>4. SumOf(f, T) = IF T = {} THEN 0 ELSE f[Pick(T)] + SumOf(f, T \ {Pick(T)})
  BY <1>3, SumStep
<1>5. T # {} /\ Pick(T) \in T
  BY <1>4, PickIn
<1>6. T \ {Pick(T)} \notin Bad
  BY <1>2, <1>5
<1> QED
  BY <1>4, <1>5, <1>6

\* The order of the fold does not matter: any element can be taken out first.
LEMMA SumRemove ==
    ASSUME NEW S, IsFiniteSet(S), NEW f, \A x \in S : f[x] \in Int,
           NEW x \in S
    PROVE  SumOf(f, S) = f[x] + SumOf(f, S \ {x})
<1> DEFINE Bad == {T \in SUBSET S :
                     \E y \in T : SumOf(f, T) # f[y] + SumOf(f, T \ {y})}
<1>1. SUFFICES ASSUME Bad # {}
               PROVE  FALSE
  <2>1. S \in SUBSET S
    OBVIOUS
  <2> QED
    BY <2>1
<1>2. PICK T \in Bad : \A U \in Bad : U \subseteq T => U = T
  <2>1. Bad \subseteq SUBSET S
    OBVIOUS
  <2> HIDE DEF Bad
  <2> QED
    BY <1>1, <2>1, LeastSubset
<1>3. PICK y \in T : SumOf(f, T) # f[y] + SumOf(f, T \ {y})
  OBVIOUS
<1>4. PICK c \in T : SumOf(f, T) = f[c] + SumOf(f, T \ {c})
  <2>1. SumOf(f, T) = IF T = {} THEN 0 ELSE f[Pick(T)] + SumOf(f, T \ {Pick(T)})
    BY SumStep, FS_Subset
  <2> QED
    BY <2>1, PickIn
<1>5. c # y
  BY <1>3, <1>4
<1>6. SumOf(f, T \ {c}) = f[y] + SumOf(f, (T \ {c}) \ {y})
  <2>1. T \ {c} \notin Bad /\ T \ {c} \in SUBSET S /\ y \in T \ {c}
    BY <1>2, <1>5
  <2> QED
    BY <2>1
<1>7. SumOf(f, T \ {y}) = f[c] + SumOf(f, (T \ {y}) \ {c})
  <2>1. T \ {y} \notin Bad /\ T \ {y} \in SUBSET S /\ c \in T \ {y}
    BY <1>2, <1>5
  <2> QED
    BY <2>1
<1>8. SumOf(f, (T \ {c}) \ {y}) = SumOf(f, (T \ {y}) \ {c})
  <2>1. (T \ {c}) \ {y} = (T \ {y}) \ {c}
    OBVIOUS
  <2> QED
    BY <2>1, Zenon
<1>9. /\ SumOf(f, (T \ {y}) \ {c}) \in Int
      /\ f[c] \in Int /\ f[y] \in Int
  <2>1. (T \ {y}) \ {c} \in SUBSET S
    OBVIOUS
  <2>2. IsFiniteSet((T \ {y}) \ {c})
    BY <2>1, FS_Subset
  <2> QED
    BY <2>1, <2>2, SumType
<1>10. \A a, b, r, s, t, u \in Int :
          s = b + t /\ t = a + r /\ u = b + r => s = a + u
  OBVIOUS
<1>11. /\ SumOf(f, T) \in Int /\ SumOf(f, T \ {c}) \in Int
       /\ SumOf(f, T \ {y}) \in Int
  BY <1>4, <1>6, <1>7, <1>8, <1>9
<1>12. SumOf(f, T) = f[y] + SumOf(f, T \ {y})
  BY <1>4, <1>6, <1>7, <1>8, <1>9, <1>10, <1>11
<1> QED
  BY <1>3, <1>12

\* A sum of naturals is a natural.
LEMMA SumNat ==
    ASSUME NEW S, IsFiniteSet(S), NEW f, \A x \in S : f[x] \in Nat
    PROVE  SumOf(f, S) \in Nat
<1> DEFINE Bad == {T \in SUBSET S : SumOf(f, T) \notin Nat}
<1>1. SUFFICES ASSUME Bad # {}
               PROVE  FALSE
  <2>1. S \in SUBSET S
    OBVIOUS
  <2> QED
    BY <2>1
<1>2. PICK T \in Bad : \A U \in Bad : U \subseteq T => U = T
  <2>1. Bad \subseteq SUBSET S
    OBVIOUS
  <2> HIDE DEF Bad
  <2> QED
    BY <1>1, <2>1, LeastSubset
<1>3. IsFiniteSet(T)
  BY FS_Subset
<1>4. SumOf(f, T) = IF T = {} THEN 0 ELSE f[Pick(T)] + SumOf(f, T \ {Pick(T)})
  BY <1>3, SumStep
<1>5. T # {} /\ Pick(T) \in T
  BY <1>4, PickIn
<1>6. T \ {Pick(T)} \notin Bad
  BY <1>2, <1>5
<1> QED
  BY <1>4, <1>5, <1>6

\* A sum of zeros is zero.
LEMMA SumZero ==
    ASSUME NEW S, IsFiniteSet(S), NEW f, \A x \in S : f[x] = 0
    PROVE  SumOf(f, S) = 0
<1> DEFINE Bad == {T \in SUBSET S : SumOf(f, T) # 0}
<1>1. SUFFICES ASSUME Bad # {}
               PROVE  FALSE
  <2>1. S \in SUBSET S
    OBVIOUS
  <2> QED
    BY <2>1
<1>2. PICK T \in Bad : \A U \in Bad : U \subseteq T => U = T
  <2>1. Bad \subseteq SUBSET S
    OBVIOUS
  <2> HIDE DEF Bad
  <2> QED
    BY <1>1, <2>1, LeastSubset
<1>3. IsFiniteSet(T)
  BY FS_Subset
<1>4. SumOf(f, T) = IF T = {} THEN 0 ELSE f[Pick(T)] + SumOf(f, T \ {Pick(T)})
  BY <1>3, SumStep
<1>5. T # {} /\ Pick(T) \in T
  BY <1>4, PickIn
<1>6. T \ {Pick(T)} \notin Bad
  BY <1>2, <1>5
<1> QED
  BY <1>4, <1>5, <1>6

\* Elements that add nothing can be left out.
LEMMA SumSupport ==
    ASSUME NEW S, IsFiniteSet(S), NEW f, \A x \in S : f[x] \in Int,
           NEW P, P \subseteq S, \A x \in S \ P : f[x] = 0
    PROVE  SumOf(f, S) = SumOf(f, P)
<1> DEFINE Bad == {T \in SUBSET S : P \subseteq T /\ SumOf(f, T) # SumOf(f, P)}
<1>1. SUFFICES ASSUME Bad # {}
               PROVE  FALSE
  <2>1. S \in SUBSET S
    OBVIOUS
  <2> QED
    BY <2>1
<1>2. PICK T \in Bad : \A U \in Bad : U \subseteq T => U = T
  <2>1. Bad \subseteq SUBSET S
    OBVIOUS
  <2> HIDE DEF Bad
  <2> QED
    BY <1>1, <2>1, LeastSubset
<1>3. IsFiniteSet(T)
  BY FS_Subset
<1>4. T # P
  OBVIOUS
<1>5. PICK x \in T : x \notin P
  BY <1>4
<1>6. SumOf(f, T) = f[x] + SumOf(f, T \ {x})
  <2>1. \A y \in T : f[y] \in Int
    OBVIOUS
  <2> QED
    BY <1>3, <2>1, SumRemove
<1>7. T \ {x} \notin Bad
  BY <1>2
<1>8. SumOf(f, T \ {x}) = SumOf(f, P)
  BY <1>5, <1>7
<1>9. SumOf(f, P) \in Int
  BY FS_Subset, SumType
<1>10. f[x] = 0
  BY <1>5
<1> QED
  BY <1>6, <1>8, <1>9, <1>10

-----------------------------------------------------------------------------
(* The sums of MatchStore.                                                 *)

\* Locks and fills are naturals, and a match fills its own orders.
LEMMA TermsType ==
    ASSUME NEW m \in Matches
    PROVE  /\ \A w : LockOf(m, w) \in Nat
           /\ \A o : FillOf(m, o) \in Nat
           /\ \A o : o \in OrdersOf(m) <=> FillOf(m, o) > 0
BY TermsAssumption
   DEF LockOf, FillOf, LenderLock, BorrowerLock, LenderTradeFee,
       BorrowerTradeFee, OrdersOf

\* A total of locks is a natural; a match can be taken out of it.
LEMMA TotalLockRemove ==
    ASSUME NEW w, NEW M \in SUBSET Matches
    PROVE  /\ TotalLock(M, w) \in Nat
           /\ \A m \in M : /\ TotalLock(M \ {m}, w) \in Nat
                           /\ TotalLock(M, w) =
                                 LockOf(m, w) + TotalLock(M \ {m}, w)
<1> DEFINE f == [m \in Matches |-> LockOf(m, w)]
<1>1. \A m \in Matches : f[m] = LockOf(m, w) /\ f[m] \in Nat
  BY TermsType
<1>2. \A N \in SUBSET Matches : /\ TotalLock(N, w) = SumOf(f, N)
                                /\ IsFiniteSet(N)
  BY MatchesAssumption, FS_Subset DEF TotalLock, SumOf
<1> HIDE DEF f
<1>3. \A N \in SUBSET Matches : TotalLock(N, w) \in Nat
  BY <1>1, <1>2, SumNat
<1>4. ASSUME NEW m \in M
      PROVE  TotalLock(M, w) = LockOf(m, w) + TotalLock(M \ {m}, w)
  <2>1. \A x \in M : f[x] \in Int
    BY <1>1
  <2>2. SumOf(f, M) = f[m] + SumOf(f, M \ {m})
    BY <1>2, <2>1, SumRemove
  <2> QED
    BY <1>1, <1>2, <2>2
<1> QED
  BY <1>3, <1>4

\* The same for fills.
LEMMA TotalFillRemove ==
    ASSUME NEW o, NEW M \in SUBSET Matches
    PROVE  /\ TotalFill(M, o) \in Nat
           /\ \A m \in M : /\ TotalFill(M \ {m}, o) \in Nat
                           /\ TotalFill(M, o) =
                                 FillOf(m, o) + TotalFill(M \ {m}, o)
<1> DEFINE f == [m \in Matches |-> FillOf(m, o)]
<1>1. \A m \in Matches : f[m] = FillOf(m, o) /\ f[m] \in Nat
  BY TermsType
<1>2. \A N \in SUBSET Matches : /\ TotalFill(N, o) = SumOf(f, N)
                                /\ IsFiniteSet(N)
  BY MatchesAssumption, FS_Subset DEF TotalFill, SumOf
<1> HIDE DEF f
<1>3. \A N \in SUBSET Matches : TotalFill(N, o) \in Nat
  BY <1>1, <1>2, SumNat
<1>4. ASSUME NEW m \in M
      PROVE  TotalFill(M, o) = FillOf(m, o) + TotalFill(M \ {m}, o)
  <2>1. \A x \in M : f[x] \in Int
    BY <1>1
  <2>2. SumOf(f, M) = f[m] + SumOf(f, M \ {m})
    BY <1>2, <2>1, SumRemove
  <2> QED
    BY <1>1, <1>2, <2>2
<1> QED
  BY <1>3, <1>4

\* Matches that lock nothing for w do not count.
LEMMA TotalLockSame ==
    ASSUME NEW w, NEW M \in SUBSET Matches, NEW N \in SUBSET Matches,
           \A m \in (M \ N) \cup (N \ M) : LockOf(m, w) = 0
    PROVE  TotalLock(M, w) = TotalLock(N, w)
<1> DEFINE f == [m \in Matches |-> LockOf(m, w)]
<1>1. \A m \in Matches : f[m] = LockOf(m, w) /\ f[m] \in Int
  BY TermsType
<1>2. \A S \in SUBSET Matches : /\ TotalLock(S, w) = SumOf(f, S)
                                /\ IsFiniteSet(S)
  BY MatchesAssumption, FS_Subset DEF TotalLock, SumOf
<1> HIDE DEF f
<1>3. PICK P : P = M \cap N
  OBVIOUS
<1>4. SumOf(f, M) = SumOf(f, P)
  <2>1. P \subseteq M /\ \A x \in M \ P : f[x] = 0
    BY <1>1, <1>3
  <2>2. \A x \in M : f[x] \in Int
    BY <1>1
  <2> QED
    BY <1>2, <2>1, <2>2, SumSupport
<1>5. SumOf(f, N) = SumOf(f, P)
  <2>1. P \subseteq N /\ \A x \in N \ P : f[x] = 0
    BY <1>1, <1>3
  <2>2. \A x \in N : f[x] \in Int
    BY <1>1
  <2> QED
    BY <1>2, <2>1, <2>2, SumSupport
<1> QED
  BY <1>2, <1>4, <1>5

\* Neither matches that fill nothing of o.
LEMMA TotalFillSame ==
    ASSUME NEW o, NEW M \in SUBSET Matches, NEW N \in SUBSET M,
           \A m \in M \ N : FillOf(m, o) = 0
    PROVE  TotalFill(M, o) = TotalFill(N, o)
<1> DEFINE f == [m \in Matches |-> FillOf(m, o)]
<1>1. \A m \in Matches : f[m] = FillOf(m, o) /\ f[m] \in Int
  BY TermsType
<1>2. \A S \in SUBSET Matches : /\ TotalFill(S, o) = SumOf(f, S)
                                /\ IsFiniteSet(S)
  BY MatchesAssumption, FS_Subset DEF TotalFill, SumOf
<1> HIDE DEF f
<1>3. /\ N \subseteq M
      /\ \A x \in M \ N : f[x] = 0
      /\ \A x \in M : f[x] \in Int
  BY <1>1
<1>4. SumOf(f, M) = SumOf(f, N)
  BY <1>2, <1>3, SumSupport
<1> QED
  BY <1>2, <1>4

\* A batch none of whose matches concerns the wallet moves nothing of it.
LEMMA BatchLockZero ==
    ASSUME NEW w, NEW S \in SUBSET Entries,
           \A m \in MatchesIn(S) : LockOf(m, w) = 0
    PROVE  BatchLock(S, w) = 0
<1> DEFINE f == [e \in Entries |-> LockOf(MatchOf[e], w)]
<1>1. \A e \in S : f[e] = 0
  BY DEF MatchesIn
<1>2. BatchLock(S, w) = SumOf(f, S) /\ IsFiniteSet(S)
  BY EntriesAssumption, FS_Subset DEF BatchLock, SumOf
<1> HIDE DEF f
<1> QED
  BY <1>1, <1>2, SumZero

\* ... and none of whose matches is of the order fills nothing of it.
LEMMA BatchFillZero ==
    ASSUME NEW o, NEW S \in SUBSET Entries,
           \A m \in MatchesIn(S) : FillOf(m, o) = 0
    PROVE  BatchFill(S, o) = 0
<1> DEFINE f == [e \in Entries |-> FillOf(MatchOf[e], o)]
<1>1. \A e \in S : f[e] = 0
  BY DEF MatchesIn
<1>2. BatchFill(S, o) = SumOf(f, S) /\ IsFiniteSet(S)
  BY EntriesAssumption, FS_Subset DEF BatchFill, SumOf
<1> HIDE DEF f
<1> QED
  BY <1>1, <1>2, SumZero

\* An order has a fill left exactly while a match of it is left.
LEMMA TotalFillZero ==
    ASSUME NEW o, NEW M \in SUBSET Matches, \A m \in M : o \in OrdersOf(m)
    PROVE  TotalFill(M, o) = 0 <=> M = {}
<1>1. CASE M = {}
  <2> DEFINE f == [m \in Matches |-> FillOf(m, o)]
  <2>1. TotalFill(M, o) = SumOf(f, M)
    BY DEF TotalFill, SumOf
  <2> HIDE DEF f
  <2>2. SumOf(f, {}) = 0
    BY FS_EmptySet, SumZero
  <2> QED
    BY <1>1, <2>1, <2>2
<1>2. CASE M # {}
  <2>1. PICK m \in M : TRUE
    BY <1>2
  <2>2. FillOf(m, o) \in Nat \ {0}
    BY TermsType
  <2>3. /\ TotalFill(M \ {m}, o) \in Nat
        /\ TotalFill(M, o) = FillOf(m, o) + TotalFill(M \ {m}, o)
    BY TotalFillRemove
  <2> QED
    BY <1>2, <2>2, <2>3
<1> QED
  BY <1>1, <1>2

-----------------------------------------------------------------------------
(* The five transactions.                                                  *)

\* What a step may do to the store.
StoreStep ==
    \/ UNCHANGED storeVars
    \/ \E m \in Matches : Writeback(m) \/ FailPending(m)
    \/ \E S \in SUBSET Entries :
          /\ MatchesIn(S) \subseteq cleaned
          /\ UnlockFailed(S) \/ RecordFailed(S) \/ RestoreFailed(S)

Pending == {m \in Matches : status[m] = "PENDING"}

\* Each transaction keeps the locks conserved.
LEMMA LocksKept ==
    ASSUME StoreTypeOK, LocksConserved, StoreStep, cleaned \subseteq cleaned'
    PROVE  LocksConserved'
<1> SUFFICES ASSUME NEW w \in Wallets, \A m \in cleaned' : LockOf(m, w) = 0
             PROVE  inOrders'[w] = TotalLock(Pending', w)
  BY DEF LocksConserved, Pending
<1>1. /\ inOrders[w] = TotalLock(Pending, w)
      /\ \A m \in cleaned : LockOf(m, w) = 0
  BY DEF LocksConserved, Pending
<1>2. inOrders[w] \in Nat /\ status \in [Matches -> Statuses]
  BY DEF StoreTypeOK
<1>3. Pending \in SUBSET Matches /\ Pending' \in SUBSET Matches
  BY DEF Pending
<1>4. CASE UNCHANGED <<status, inOrders>>
  <2>1. Pending' = Pending
    BY <1>4 DEF Pending
  <2> QED
    BY <1>1, <1>4, <2>1
<1>5. ASSUME NEW m \in Pending, Pending' = Pending \ {m}, ReleaseLock(m)
      PROVE  inOrders'[w] = TotalLock(Pending', w)
  <2>1. /\ TotalLock(Pending \ {m}, w) \in Nat
        /\ TotalLock(Pending, w) = LockOf(m, w) + TotalLock(Pending \ {m}, w)
    BY <1>3, TotalLockRemove
  <2>2. LockOf(m, w) \in Nat
    BY <1>3, TermsType
  <2>3. inOrders[w] - LockOf(m, w) = TotalLock(Pending \ {m}, w)
    BY <1>1, <2>1, <2>2
  <2>4. inOrders'[w] = Clamp(inOrders[w] - LockOf(m, w))
    BY <1>5 DEF ReleaseLock
  <2> QED
    BY <1>5, <2>1, <2>3, <2>4 DEF Clamp
<1>6. ASSUME NEW m \in Matches, Writeback(m) \/ FailPending(m)
      PROVE  inOrders'[w] = TotalLock(Pending', w)
  <2>1. CASE status[m] = "PENDING"
    <3>1. m \in Pending /\ ReleaseLock(m)
      BY <1>6, <2>1 DEF Writeback, FailPending, Pending
    <3>2. Pending' = Pending \ {m}
      BY <1>2, <1>6, <2>1 DEF Writeback, FailPending, Pending
    <3> QED
      BY <1>5, <3>1, <3>2
  <2>2. CASE status[m] # "PENDING"
    BY <1>4, <1>6, <2>2 DEF Writeback, FailPending, storeVars
  <2> QED
    BY <2>1, <2>2
<1>7. ASSUME NEW S \in SUBSET Entries, MatchesIn(S) \subseteq cleaned,
             UnlockFailed(S) \/ RecordFailed(S) \/ RestoreFailed(S)
      PROVE  inOrders'[w] = TotalLock(Pending', w)
  <2>1. CASE UnlockFailed(S)
    <3>1. BatchLock(S, w) = 0
      BY <1>1, <1>7, BatchLockZero
    <3>2. inOrders'[w] = Clamp(inOrders[w] - BatchLock(S, w))
      BY <2>1 DEF UnlockFailed
    <3>3. inOrders'[w] = inOrders[w]
      BY <1>2, <3>1, <3>2 DEF Clamp
    <3>4. Pending' = Pending
      BY <2>1 DEF UnlockFailed, Pending
    <3> QED
      BY <1>1, <3>3, <3>4
  <2>2. CASE RecordFailed(S)
    <3>1. \A m \in (Pending \ Pending') \cup (Pending' \ Pending) :
             LockOf(m, w) = 0
      BY <1>1, <1>2, <1>7, <2>2 DEF RecordFailed, Pending
    <3>2. TotalLock(Pending, w) = TotalLock(Pending', w)
      BY <1>3, <3>1, TotalLockSame
    <3> QED
      BY <1>1, <2>2, <3>2 DEF RecordFailed
  <2>3. CASE RestoreFailed(S)
    BY <1>4, <2>3 DEF RestoreFailed
  <2> QED
    BY <1>7, <2>1, <2>2, <2>3
<1> QED
  BY <1>4, <1>6, <1>7 DEF StoreStep, storeVars

OfOrder(o) == {m \in Matches : o \in OrdersOf(m)}
Kept(o) == {m \in OfOrder(o) : status[m] # "FAILED"}

\* What OrdersConserved says of one order.
OrderOK(o) ==
    /\ filled[o] = TotalFill(Kept(o), o)
    /\ (orderStatus[o] = "CANCELLED") <=> (Kept(o) = {})
    /\ (orderStatus[o] = "FILLED") <=> (Kept(o) = OfOrder(o))

\* Each transaction keeps the fills conserved.
LEMMA OrdersKept ==
    ASSUME StoreTypeOK, OrdersConserved, StoreStep, cleaned \subseteq cleaned'
    PROVE  OrdersConserved'
<1> SUFFICES ASSUME NEW o \in Orders, OfOrder(o) # {},
                    OfOrder(o) \cap cleaned' = {}
             PROVE  OrderOK(o)'
  BY DEF OrdersConserved, OrderOK, Kept, OfOrder
<1>1. OrderOK(o) /\ OfOrder(o) \cap cleaned = {}
  BY DEF OrdersConserved, OrderOK, Kept, OfOrder
<1>2. filled \in [Orders -> Nat] /\ status \in [Matches -> Statuses]
  BY DEF StoreTypeOK
<1>3. Kept(o) \in SUBSET Matches /\ OfOrder(o) \in SUBSET Matches
  BY DEF Kept, OfOrder
<1>4. CASE Kept(o)' = Kept(o) /\ filled'[o] = filled[o]
           /\ orderStatus'[o] = orderStatus[o]
  BY <1>1, <1>4 DEF OrderOK
<1>5. ASSUME NEW m \in Matches, FailPending(m), status[m] = "PENDING",
             o \in OrdersOf(m)
      PROVE  OrderOK(o)'
  <2>1. m \in Kept(o) /\ m \in OfOrder(o)
    BY <1>5 DEF Kept, OfOrder
  <2>2. Kept(o)' = Kept(o) \ {m}
    BY <1>2, <1>5 DEF FailPending, Kept, OfOrder
  <2>3. /\ TotalFill(Kept(o) \ {m}, o) \in Nat
        /\ TotalFill(Kept(o), o)
              = FillOf(m, o) + TotalFill(Kept(o) \ {m}, o)
    BY <1>3, <2>1, TotalFillRemove
  <2>4. FillOf(m, o) \in Nat
    BY TermsType
  <2>5. filled[o] - FillOf(m, o) = TotalFill(Kept(o) \ {m}, o)
    BY <1>1, <2>3, <2>4 DEF OrderOK
  <2>6. /\ filled'[o] = Clamp(filled[o] - FillOf(m, o))
        /\ orderStatus'[o] = RestoredStatus(o, FillOf(m, o))
    BY <1>5 DEF FailPending, RestoreOrders
  <2>7. TotalFill(Kept(o) \ {m}, o) = 0 <=> Kept(o) \ {m} = {}
    <3>1. \A n \in Kept(o) \ {m} : o \in OrdersOf(n)
      BY DEF Kept, OfOrder
    <3> QED
      BY <1>3, <3>1, TotalFillZero
  <2>8. filled'[o] = TotalFill(Kept(o)', o)
    BY <2>2, <2>3, <2>5, <2>6 DEF Clamp
  <2>9. orderStatus'[o] = IF Kept(o)' = {} THEN "CANCELLED"
                                          ELSE "PARTIALLY_FILLED"
    BY <2>2, <2>3, <2>5, <2>6, <2>7 DEF RestoredStatus
  <2>10. Kept(o)' # OfOrder(o)
    BY <2>1, <2>2
  <2> QED
    BY <2>8, <2>9, <2>10 DEF OrderOK
<1>6. ASSUME NEW m \in Matches, FailPending(m), status[m] = "PENDING",
             o \notin OrdersOf(m)
      PROVE  OrderOK(o)'
  <2>1. Kept(o)' = Kept(o)
    BY <1>2, <1>6 DEF FailPending, Kept, OfOrder
  <2>2. FillOf(m, o) = 0
    BY <1>6, TermsType
  <2>3. /\ filled'[o] = Clamp(filled[o] - FillOf(m, o))
        /\ orderStatus'[o] = orderStatus[o]
    BY <1>6 DEF FailPending, RestoreOrders
  <2>4. filled'[o] = filled[o]
    BY <1>2, <2>2, <2>3 DEF Clamp
  <2> QED
    BY <1>4, <2>1, <2>3, <2>4
<1>7. ASSUME NEW m \in Matches, Writeback(m) \/ FailPending(m)
      PROVE  OrderOK(o)'
  <2>1. CASE status[m] # "PENDING"
    BY <1>4, <1>7, <2>1 DEF Writeback, FailPending, storeVars, Kept, OfOrder
  <2>2. CASE Writeback(m) /\ status[m] = "PENDING"
    <3>1. Kept(o)' = Kept(o)
      BY <1>2, <2>2 DEF Writeback, Kept, OfOrder
    <3> QED
      BY <1>4, <2>2, <3>1 DEF Writeback
  <2> QED
    BY <1>5, <1>6, <1>7, <2>1, <2>2
<1>8. ASSUME NEW S \in SUBSET Entries, MatchesIn(S) \subseteq cleaned,
             UnlockFailed(S) \/ RecordFailed(S) \/ RestoreFailed(S)
      PROVE  OrderOK(o)'
  <2>1. \A m \in MatchesIn(S) : m \in Matches /\ o \notin OrdersOf(m)
    BY <1>1, <1>8, MatchesInType DEF OfOrder
  <2>2. CASE UnlockFailed(S)
    BY <1>4, <2>2 DEF UnlockFailed, Kept, OfOrder
  <2>3. CASE RecordFailed(S)
    <3>1. Kept(o)' = Kept(o)
      BY <1>2, <2>1, <2>3 DEF RecordFailed, Kept, OfOrder
    <3> QED
      BY <1>4, <2>3, <3>1 DEF RecordFailed
  <2>4. CASE RestoreFailed(S)
    <3>1. BatchFill(S, o) = 0
      <4>1. \A m \in MatchesIn(S) : FillOf(m, o) = 0
        BY <2>1, TermsType
      <4> QED
        BY <4>1, BatchFillZero
    <3>2. /\ filled'[o] = Clamp(filled[o] - BatchFill(S, o))
          /\ orderStatus'[o] = orderStatus[o]
      BY <2>1, <2>4 DEF RestoreFailed
    <3>3. filled'[o] = filled[o]
      BY <1>2, <3>1, <3>2 DEF Clamp
    <3>4. Kept(o)' = Kept(o)
      BY <2>4 DEF RestoreFailed, Kept, OfOrder
    <3> QED
      BY <1>4, <3>2, <3>3, <3>4
  <2> QED
    BY <1>8, <2>2, <2>3, <2>4
<1>9. CASE UNCHANGED storeVars
  BY <1>4, <1>9 DEF storeVars, Kept, OfOrder
<1> QED
  BY <1>7, <1>8, <1>9 DEF StoreStep

-----------------------------------------------------------------------------
(* The pipeline.                                                           *)

\* Every step runs at most one transaction, the ungated ones on what was
\* handed to the cleanup.
LEMMA NextIsStoreStep ==
    ASSUME IInv, [Next]_vars
    PROVE  StoreStep /\ cleaned \subseteq cleaned'
<1>1. ASSUME NEW w \in Workers, WorkerStep(w)
      PROVE  StoreStep /\ cleaned \subseteq cleaned'
  <2>1. CASE GhostWriteback(w) \/ WritebackSettled(w)
    <3>1. PICK e \in todo[w] : WritebackOrSwallow(MatchOf[e])
      BY <2>1 DEF GhostWriteback, WritebackSettled
    <3>2. MatchOf[e] \in Matches
      BY MatchOfAssumption DEF IInv, TypeOK, WorkersTypeOK
    <3> QED
      BY <2>1, <3>1, <3>2
         DEF GhostWriteback, WritebackSettled, WritebackOrSwallow, StoreStep
  <2>2. CASE Quarantine(w)
    <3>1. PICK e \in todo[w] : FailPending(MatchOf[e])
      BY <2>2 DEF Quarantine
    <3>2. MatchOf[e] \in Matches
      BY MatchOfAssumption DEF IInv, TypeOK, WorkersTypeOK
    <3> QED
      BY <2>2, <3>1, <3>2 DEF Quarantine, StoreStep
  <2>3. CASE Unlock(w) \/ Record(w) \/ Restore(w)
    <3>1. batch[w] \in SUBSET Entries
      BY DEF IInv, TypeOK, WorkersTypeOK
    <3>2. MatchesIn(batch[w]) \subseteq cleaned
      BY <2>3 DEF IInv, KnowledgeIsCurrent, WorkerKnows, Unlock, Record,
                  Restore
    <3>3. \/ UnlockFailed(batch[w]) \/ RecordFailed(batch[w])
          \/ RestoreFailed(batch[w]) \/ UNCHANGED storeVars
      BY <2>3 DEF Unlock, Record, Restore, Swallow
    <3> QED
      BY <2>3, <3>1, <3>2, <3>3 DEF Unlock, Record, Restore, StoreStep
  <2>4. CASE UNCHANGED storeVars /\ cleaned \subseteq cleaned'
    BY <2>4 DEF StoreStep
  <2>5. \/ GhostWriteback(w) \/ WritebackSettled(w) \/ Quarantine(w)
        \/ Unlock(w) \/ Record(w) \/ Restore(w)
        \/ UNCHANGED storeVars /\ cleaned \subseteq cleaned'
    BY <1>1
       DEF WorkerStep, StartBatch, Filter, GhostAck, Simulate,
           SimulateUnknown, Probe, ProbeUnknown, Resimulate,
           ResimulateUnknown, PoisonAck, Submit, SubmitFatal, SubmitUnknown,
           Receipt, ReceiptReverted, Apply, Ack, CleanupAck, StartCleanup,
           Retry, GiveUp
  <2> QED
    BY <2>1, <2>2, <2>3, <2>4, <2>5
<1>2. ASSUME UNCHANGED storeVars, UNCHANGED cleaned
      PROVE  StoreStep /\ cleaned \subseteq cleaned'
  BY <1>2 DEF StoreStep
<1>3. ASSUME NEW w \in Workers, Failure(w) \/ Mine(w)
      PROVE  UNCHANGED storeVars /\ UNCHANGED cleaned
  BY <1>3 DEF Failure, ReceiptLost, RpcFailure, DbFailure, RedisFailure,
              Crash, Retry, GiveUp, Mine
<1>4. ASSUME NEW w \in Workers, NEW e \in Entries, Deliver(w, e)
      PROVE  UNCHANGED storeVars /\ UNCHANGED cleaned
  BY <1>4 DEF Deliver
<1>5. ASSUME \/ ResolveOrphan
             \/ \E m \in Matches : Flip(m)
             \/ Quiet
             \/ UNCHANGED vars
      PROVE  UNCHANGED storeVars /\ UNCHANGED cleaned
  BY <1>5 DEF ResolveOrphan, Flip, Quiet, vars, pipeVars
<1> QED
  BY <1>1, <1>2, <1>3, <1>4, <1>5 DEF Next

\* At the start every lock is held and every order filled.
LEMMA InitConserved ==
    ASSUME Init
    PROVE  LocksConserved /\ OrdersConserved
<1>1. status = [m \in Matches |-> "PENDING"] /\ cleaned = {}
  BY DEF Init, StoreInit, PipeInit
<1>2. ASSUME NEW w \in Wallets
      PROVE  inOrders[w] = TotalLock(Pending, w)
  <2>1. Pending = Matches
    BY <1>1 DEF Pending
  <2>2. TotalLock(Matches, w) \in Nat
    BY TotalLockRemove
  <2>3. inOrders[w] = Clamp(TotalLock(Matches, w))
    BY <1>2 DEF Init, StoreInit
  <2> QED
    BY <2>1, <2>2, <2>3 DEF Clamp
<1>3. ASSUME NEW o \in Orders, OfOrder(o) # {}
      PROVE  OrderOK(o)
  <2>1. Kept(o) = OfOrder(o)
    BY <1>1 DEF Kept, OfOrder
  <2>2. TotalFill(Matches, o) = TotalFill(OfOrder(o), o)
    <3>1. OfOrder(o) \in SUBSET Matches
      BY DEF OfOrder
    <3>2. \A m \in Matches \ OfOrder(o) : FillOf(m, o) = 0
      BY TermsType DEF OfOrder
    <3> QED
      BY <3>1, <3>2, TotalFillSame
  <2>3. TotalFill(Matches, o) \in Nat
    BY TotalFillRemove
  <2>4. filled[o] = Clamp(TotalFill(Matches, o)) /\ orderStatus[o] = "FILLED"
    BY <1>3 DEF Init, StoreInit
  <2> QED
    BY <1>3, <2>1, <2>2, <2>3, <2>4 DEF Clamp, OrderOK
<1>4. LocksConserved
  BY <1>2 DEF LocksConserved, Pending
<1>5. OrdersConserved
  BY <1>3 DEF OrdersConserved, OrderOK, Kept, OfOrder
<1> QED
  BY <1>4, <1>5

\* in_orders is the sum of the locks of the wallet's PENDING matches, at
\* every moment, for every wallet no cleanup has touched.
THEOREM LocksAreConserved == Spec => []LocksConserved
<1>1. Init => LocksConserved
  BY InitConserved
<1>2. IInv /\ LocksConserved /\ [Next]_vars => LocksConserved'
  BY NextIsStoreStep, LocksKept DEF IInv, TypeOK
<1> QED
  BY <1>1, <1>2, Invariance, PTL DEF Spec

\* An order is filled by its matches that have not FAILED, and cancelled when
\* there are none, for every order no cleanup has touched.
THEOREM OrdersAreConserved == Spec => []OrdersConserved
<1>1. Init => OrdersConserved
  BY InitConserved
<1>2. IInv /\ OrdersConserved /\ [Next]_vars => OrdersConserved'
  BY NextIsStoreStep, OrdersKept DEF IInv, TypeOK
<1> QED
  BY <1>1, <1>2, Invariance, PTL DEF Spec
=============================================================================
