------------------------------ MODULE SumProofs ------------------------------
(***************************************************************************)
(* Sums over finite sets, as SumFunctionOnSet of the community modules     *)
(* adds them up: recursively, taking the elements in an order it chooses.  *)
(* The induction theorems of the library have an operator as a parameter,  *)
(* so induction is by a smallest counterexample here.                      *)
(*                                                                         *)
(* And recursive functions of one number: what they do step by step, and   *)
(* that counting up from one number reaches another.                       *)
(***************************************************************************)
EXTENDS Integers, Functions, FiniteSetTheorems, WellFoundedInduction, TLAPS

-----------------------------------------------------------------------------
(* Smallest counterexamples *)

\* A set of natural numbers that is not empty has a smallest element.
LEMMA SmallestNumber ==
    ASSUME NEW T \in SUBSET Nat, T # {}
    PROVE  \E n \in T : \A m \in T : n <= m
<1> DEFINE less == { p \in Nat \X Nat : p[1] < p[2] }
<1>1. IsWellFoundedOn(less, Nat)
  BY NatLessThanWellFounded DEF OpToRel
<1>2. PICK n \in T : \A m \in T : <<m, n>> \notin less
  BY <1>1, WFMin
<1>3. ASSUME NEW m \in T, m < n PROVE <<m, n>> \in less
  BY <1>3
<1> HIDE DEF less
<1>4. ASSUME NEW m \in T PROVE n <= m
  <2>1. m \in Nat /\ n \in Nat
    OBVIOUS
  <2>2. ~(m < n)
    BY <1>2, <1>3
  <2>3. QED BY <2>1, <2>2
<1>5. QED BY <1>4

\* Among some subsets of a finite set there is one with no smaller one below it.
LEMMA SmallestSet ==
    ASSUME NEW S, IsFiniteSet(S), NEW T \in SUBSET SUBSET S, T # {}
    PROVE  \E s \in T : \A u \in T : ~(u \subseteq s /\ u # s)
<1>1. IsWellFoundedOn(StrictSubsetOrdering(S), SUBSET S)
  BY FS_FiniteSubsetsOfFinite, FS_StrictSubsetOrderingWellFounded
<1>2. PICK s \in T : \A u \in T : ~(<<u, s>> \in StrictSubsetOrdering(S))
  BY <1>1, WFMin
<1>3. \A u \in T : u \subseteq s /\ u # s => <<u, s>> \in StrictSubsetOrdering(S)
  BY <1>2 DEF StrictSubsetOrdering
<1>4. \A u \in T : ~(u \subseteq s /\ u # s)
  BY <1>2, <1>3
<1>5. QED BY <1>4

-----------------------------------------------------------------------------
(* The recursion of the sum is well defined *)

Taken(s) == CHOOSE x \in s : TRUE

\* The element that is taken is one of the set.
LEMMA TakenFrom == ASSUME NEW s, s # {} PROVE Taken(s) \in s
  BY DEF Taken

\* h sums up c over each set of D, by taking out one element.
Sums(h, D, c) ==
    h = [s \in D |-> IF s = {} THEN 0 ELSE c[Taken(s)] + h[s \ {Taken(s)}]]

Small(S, n) == { s \in SUBSET S : Cardinality(s) <= n }

\* There is a function that sums up c over each subset of a finite set.
LEMMA SumsExist ==
    ASSUME NEW S, IsFiniteSet(S), NEW c
    PROVE  \E h : Sums(h, SUBSET S, c)
<1> DEFINE Bad == { n \in Nat : ~\E h : Sums(h, Small(S, n), c) }
<1>1. \A s \in SUBSET S : /\ IsFiniteSet(s) /\ Cardinality(s) \in Nat
                          /\ Cardinality(s) <= Cardinality(S)
                          /\ Cardinality(s) = 0 <=> s = {}
                          /\ s # {} => Cardinality(s \ {Taken(s)}) = Cardinality(s) - 1
  BY FS_Subset, FS_CardinalityType, FS_EmptySet, FS_RemoveElement, TakenFrom
<1>2. Bad = {}
  <2> SUFFICES ASSUME Bad # {} PROVE FALSE
    OBVIOUS
  <2>1. PICK n \in Bad : \A m \in Bad : n <= m
    BY SmallestNumber
  <2>2. n # 0
    <3>1. Small(S, 0) = {{}}
      <4>1. ASSUME NEW s \in SUBSET S PROVE Cardinality(s) <= 0 <=> s = {}
        <5>1. Cardinality(s) \in Nat /\ (Cardinality(s) = 0 <=> s = {})
          BY <1>1
        <5>2. QED BY <5>1
      <4>2. {} \in SUBSET S
        OBVIOUS
      <4>3. QED BY <4>1, <4>2 DEF Small
    <3>2. Sums([s \in {{}} |-> 0], {{}}, c)
      BY DEF Sums
    <3>3. QED BY <3>1, <3>2
  <2>3. PICK g : Sums(g, Small(S, n - 1), c)
    <3>1. n - 1 \in Nat /\ n - 1 \notin Bad
      BY <2>1, <2>2
    <3>2. QED BY <3>1
  <2> DEFINE h == [s \in Small(S, n) |-> IF s = {} THEN 0 ELSE c[Taken(s)] + g[s \ {Taken(s)}]]
  <2>4. ASSUME NEW s \in Small(S, n), s # {}
        PROVE  /\ s \ {Taken(s)} \in Small(S, n - 1)
               /\ s \ {Taken(s)} \in Small(S, n)
    <3>1. /\ n \in Nat /\ s \in SUBSET S /\ Cardinality(s) <= n /\ Cardinality(s) \in Nat
          /\ Cardinality(s \ {Taken(s)}) = Cardinality(s) - 1
      BY <1>1, <2>1, <2>4 DEF Small
    <3>2. s \ {Taken(s)} \in SUBSET S
      BY <3>1
    <3>3. QED BY <3>1, <3>2 DEF Small
  <2>5. ASSUME NEW s \in Small(S, n - 1) PROVE s \in Small(S, n) /\ h[s] = g[s]
    <3>1. s \in Small(S, n)
      <4>1. /\ n \in Nat /\ s \in SUBSET S /\ Cardinality(s) <= n - 1 /\ Cardinality(s) \in Nat
        BY <1>1, <2>1 DEF Small
      <4>2. QED BY <4>1 DEF Small
    <3>2. g[s] = IF s = {} THEN 0 ELSE c[Taken(s)] + g[s \ {Taken(s)}]
      BY <2>3 DEF Sums
    <3>3. QED BY <3>1, <3>2
  <2>6. \A s \in Small(S, n) :
           h[s] = IF s = {} THEN 0 ELSE c[Taken(s)] + h[s \ {Taken(s)}]
    <3> SUFFICES ASSUME NEW s \in Small(S, n), s # {}
                 PROVE  h[s] = c[Taken(s)] + h[s \ {Taken(s)}]
      OBVIOUS
    <3>1. h[s \ {Taken(s)}] = g[s \ {Taken(s)}]
      BY <2>4, <2>5
    <3>2. QED BY <3>1
  <2>7. Sums(h, Small(S, n), c)
    <3>1. h = [s \in Small(S, n) |-> h[s]]
      OBVIOUS
    <3> HIDE DEF h
    <3>2. QED BY <3>1, <2>6 DEF Sums
  <2>8. QED BY <2>1, <2>7
<1>3. Small(S, Cardinality(S)) = SUBSET S /\ Cardinality(S) \in Nat
  BY <1>1, FS_CardinalityType DEF Small
<1>4. QED BY <1>2, <1>3

\* The sum of the community modules is the recursion.
LEMMA SumIsSum ==
    ASSUME NEW S, IsFiniteSet(S), NEW c
    PROVE  \E h : Sums(h, SUBSET S, c) /\ SumFunctionOnSet(c, S) = h[S]
<1> DEFINE iter == CHOOSE h : Sums(h, SUBSET S, c)
<1>1. Sums(iter, SUBSET S, c)
  BY SumsExist
<1>2. SumFunctionOnSet(c, S) = iter[S]
  BY DEF SumFunctionOnSet, FoldFunctionOnSet, MapThenFoldSet, Sums, Taken
<1>3. QED BY <1>1, <1>2
-----------------------------------------------------------------------------
(* What sums are *)

\* The recursion, one step: some element is taken out first.
LEMMA SumTaken ==
    ASSUME NEW S, IsFiniteSet(S), NEW c
    PROVE  /\ S = {} => SumFunctionOnSet(c, S) = 0
           /\ S # {} => \E x \in S :
                 SumFunctionOnSet(c, S) = c[x] + SumFunctionOnSet(c, S \ {x})
<1>1. PICK h : Sums(h, SUBSET S, c) /\ SumFunctionOnSet(c, S) = h[S]
  BY SumIsSum
<1>2. h[S] = IF S = {} THEN 0 ELSE c[Taken(S)] + h[S \ {Taken(S)}]
  BY <1>1 DEF Sums
<1>3. CASE S # {}
  <2> DEFINE rest == S \ {Taken(S)}
  <2>1. Taken(S) \in S /\ IsFiniteSet(rest)
    BY <1>3, TakenFrom, FS_RemoveElement
  <2>2. PICK g : Sums(g, SUBSET rest, c) /\ SumFunctionOnSet(c, rest) = g[rest]
    BY <2>1, SumIsSum
  <2> HIDE DEF rest
  <2> DEFINE Bad == { s \in SUBSET rest : g[s] # h[s] }
  <2>3. rest \subseteq S
    BY DEF rest
  <2>4. Bad = {}
    <3> SUFFICES ASSUME Bad # {} PROVE FALSE
      OBVIOUS
    <3>1. PICK s \in Bad : \A u \in Bad : ~(u \subseteq s /\ u # s)
      <4>1. Bad \in SUBSET SUBSET rest
        OBVIOUS
      <4> HIDE DEF Bad
      <4>2. QED BY <2>1, <4>1, SmallestSet
    <3>2. s \in SUBSET rest /\ s \in SUBSET S
      BY <3>1, <2>3
    <3>3. /\ g[s] = IF s = {} THEN 0 ELSE c[Taken(s)] + g[s \ {Taken(s)}]
          /\ h[s] = IF s = {} THEN 0 ELSE c[Taken(s)] + h[s \ {Taken(s)}]
      BY <3>2, <2>2, <1>1 DEF Sums
    <3>4. CASE s = {}
      BY <3>1, <3>3, <3>4
    <3>5. CASE s # {}
      <4>1. s \ {Taken(s)} \subseteq s /\ s \ {Taken(s)} # s
        BY <3>5, TakenFrom
      <4>2. g[s \ {Taken(s)}] = h[s \ {Taken(s)}]
        BY <4>1, <3>1, <3>2
      <4>3. QED BY <3>1, <3>3, <3>5, <4>2
    <3>6. QED BY <3>4, <3>5
  <2>5. g[rest] = h[rest]
    BY <2>4
  <2>6. SumFunctionOnSet(c, S) = c[Taken(S)] + SumFunctionOnSet(c, rest)
    BY <1>1, <1>2, <1>3, <2>2, <2>5 DEF rest
  <2>7. QED BY <1>3, <2>1, <2>6 DEF rest
<1>4. QED BY <1>1, <1>2, <1>3

Natural(c, S) == \A x \in S : c[x] \in Nat

\* A sum of natural numbers is one.
LEMMA SumType ==
    ASSUME NEW S, IsFiniteSet(S), NEW c, Natural(c, S)
    PROVE  SumFunctionOnSet(c, S) \in Nat
<1> DEFINE Bad == { s \in SUBSET S : SumFunctionOnSet(c, s) \notin Nat }
<1> SUFFICES ASSUME Bad # {} PROVE FALSE
  OBVIOUS
<1>1. PICK s \in Bad : \A u \in Bad : ~(u \subseteq s /\ u # s)
  <2>1. Bad \in SUBSET SUBSET S
    OBVIOUS
  <2> HIDE DEF Bad
  <2>2. QED BY <2>1, SmallestSet
<1>2. IsFiniteSet(s)
  BY FS_Subset
<1>3. CASE s = {}
  BY <1>1, <1>2, <1>3, SumTaken
<1>4. CASE s # {}
  <2>1. PICK x \in s : SumFunctionOnSet(c, s) = c[x] + SumFunctionOnSet(c, s \ {x})
    BY <1>2, <1>4, SumTaken
  <2>2. SumFunctionOnSet(c, s \ {x}) \in Nat
    BY <1>1
  <2>3. QED BY <1>1, <2>1, <2>2 DEF Natural
<1>5. QED BY <1>3, <1>4

\* Whichever element is taken out, the rest and it make up the sum.
LEMMA SumWithout ==
    ASSUME NEW S, IsFiniteSet(S), NEW c, Natural(c, S), NEW x \in S
    PROVE  SumFunctionOnSet(c, S) = c[x] + SumFunctionOnSet(c, S \ {x})
<1> DEFINE Bad == { s \in SUBSET S :
                      \E y \in s : SumFunctionOnSet(c, s) # c[y] + SumFunctionOnSet(c, s \ {y}) }
<1> SUFFICES ASSUME Bad # {} PROVE FALSE
  OBVIOUS
<1>1. PICK s \in Bad : \A u \in Bad : ~(u \subseteq s /\ u # s)
  <2>1. Bad \in SUBSET SUBSET S
    OBVIOUS
  <2> HIDE DEF Bad
  <2>2. QED BY <2>1, SmallestSet
<1>2. PICK y \in s : SumFunctionOnSet(c, s) # c[y] + SumFunctionOnSet(c, s \ {y})
  BY <1>1
<1>3. IsFiniteSet(s) /\ \A z \in s : IsFiniteSet(s \ {z}) /\ IsFiniteSet((s \ {z}) \ {y})
  BY FS_Subset, FS_RemoveElement
<1>4. PICK z \in s : SumFunctionOnSet(c, s) = c[z] + SumFunctionOnSet(c, s \ {z})
  BY <1>3, SumTaken
<1>5. y # z
  BY <1>2, <1>4
<1> DEFINE rest == (s \ {z}) \ {y}
<1>6. rest = (s \ {y}) \ {z}
  OBVIOUS
<1>7. SumFunctionOnSet(c, s \ {z}) = c[y] + SumFunctionOnSet(c, rest)
  <2>1. s \ {z} \in SUBSET S /\ s \ {z} \subseteq s /\ s \ {z} # s /\ y \in s \ {z}
    BY <1>5
  <2>2. QED BY <1>1, <2>1
<1>8. SumFunctionOnSet(c, s \ {y}) = c[z] + SumFunctionOnSet(c, rest)
  <2>1. s \ {y} \in SUBSET S /\ s \ {y} \subseteq s /\ s \ {y} # s /\ z \in s \ {y}
    BY <1>5
  <2>2. QED BY <1>1, <1>6, <2>1
<1>9. SumFunctionOnSet(c, rest) \in Nat /\ c[y] \in Nat /\ c[z] \in Nat
  <2>1. Natural(c, rest) /\ c[y] \in Nat /\ c[z] \in Nat
    BY DEF Natural
  <2>2. QED BY <1>3, <2>1, SumType
<1> HIDE DEF rest
<1>10. QED BY <1>2, <1>4, <1>7, <1>8, <1>9

\* Sums of what is the same are the same.
LEMMA SumAgrees ==
    ASSUME NEW S, IsFiniteSet(S), NEW c, NEW d, Natural(c, S), \A x \in S : c[x] = d[x]
    PROVE  SumFunctionOnSet(c, S) = SumFunctionOnSet(d, S)
<1> DEFINE Bad == { s \in SUBSET S : SumFunctionOnSet(c, s) # SumFunctionOnSet(d, s) }
<1> SUFFICES ASSUME Bad # {} PROVE FALSE
  OBVIOUS
<1>1. PICK s \in Bad : \A u \in Bad : ~(u \subseteq s /\ u # s)
  <2>1. Bad \in SUBSET SUBSET S
    OBVIOUS
  <2> HIDE DEF Bad
  <2>2. QED BY <2>1, SmallestSet
<1>2. IsFiniteSet(s) /\ Natural(c, s) /\ Natural(d, s)
  BY FS_Subset DEF Natural
<1>3. CASE s = {}
  BY <1>1, <1>2, <1>3, SumTaken
<1>4. CASE s # {}
  <2>1. PICK x \in s : TRUE
    BY <1>4
  <2>2. /\ SumFunctionOnSet(c, s) = c[x] + SumFunctionOnSet(c, s \ {x})
        /\ SumFunctionOnSet(d, s) = d[x] + SumFunctionOnSet(d, s \ {x})
    BY <1>2, SumWithout
  <2>3. SumFunctionOnSet(c, s \ {x}) = SumFunctionOnSet(d, s \ {x})
    BY <1>1
  <2>4. QED BY <1>1, <2>1, <2>2, <2>3
<1>5. QED BY <1>3, <1>4

\* A part sums up to no more than the whole.
LEMMA SumOfPart ==
    ASSUME NEW S, IsFiniteSet(S), NEW T \in SUBSET S, NEW c, Natural(c, S)
    PROVE  SumFunctionOnSet(c, T) <= SumFunctionOnSet(c, S)
<1> DEFINE Bad == { s \in SUBSET S :
                      T \subseteq s /\ ~(SumFunctionOnSet(c, T) <= SumFunctionOnSet(c, s)) }
<1> SUFFICES ASSUME Bad # {} PROVE FALSE
  OBVIOUS
<1>1. PICK s \in Bad : \A u \in Bad : ~(u \subseteq s /\ u # s)
  <2>1. Bad \in SUBSET SUBSET S
    OBVIOUS
  <2> HIDE DEF Bad
  <2>2. QED BY <2>1, SmallestSet
<1>2. /\ IsFiniteSet(s) /\ Natural(c, s)
      /\ IsFiniteSet(T) /\ Natural(c, T)
  BY FS_Subset DEF Natural
<1>3. SumFunctionOnSet(c, T) \in Nat
  BY <1>2, SumType
<1>4. CASE s = T
  BY <1>1, <1>3, <1>4
<1>5. CASE s # T
  <2>1. PICK x \in s : x \notin T
    BY <1>1, <1>5
  <2>2. SumFunctionOnSet(c, s) = c[x] + SumFunctionOnSet(c, s \ {x})
    BY <1>2, SumWithout
  <2>3. SumFunctionOnSet(c, T) <= SumFunctionOnSet(c, s \ {x})
    BY <1>1, <2>1
  <2>4. SumFunctionOnSet(c, s \ {x}) \in Nat /\ c[x] \in Nat
    <3>1. IsFiniteSet(s \ {x}) /\ Natural(c, s \ {x})
      BY <1>2, FS_RemoveElement DEF Natural
    <3>2. QED BY <1>2, <3>1, SumType DEF Natural
  <2>5. QED BY <1>1, <1>3, <2>2, <2>3, <2>4
<1>6. QED BY <1>4, <1>5

-----------------------------------------------------------------------------
(* Counting and recursion *)

\* What holds of zero and goes over to the next number holds of all up to the last.
LEMMA CountingUp ==
    ASSUME NEW n \in Nat, NEW P, 0 \in P, \A k \in 1..n : k - 1 \in P => k \in P
    PROVE  \A k \in 0..n : k \in P
<1> DEFINE Bad == { k \in 0..n : k \notin P }
<1> SUFFICES ASSUME Bad # {} PROVE FALSE
  OBVIOUS
<1>1. Bad \in SUBSET Nat
  OBVIOUS
<1>2. PICK k \in Bad : \A m \in Bad : k <= m
  BY <1>1, SmallestNumber
<1>3. k # 0 /\ k \in 1..n /\ k - 1 \in 0..n
  BY <1>1, <1>2
<1>4. k - 1 \notin Bad
  BY <1>2, <1>3
<1>5. QED BY <1>2, <1>3, <1>4

\* A function can be defined on 0..n by what it is at zero and how it goes on.
Advances(F, S, n) == F \in [S \X (1..n) -> S]
StepByStep(h, r, F, S, n) ==
    /\ h \in [0..n -> S] /\ h[0] = r
    /\ \A k \in 1..n : h[k] = F[<<h[k - 1], k>>]

\* There is one that goes on so from any first value.
LEMMA StepsExist ==
    ASSUME NEW n \in Nat, NEW S, NEW r \in S, NEW F, Advances(F, S, n)
    PROVE  \E h : StepByStep(h, r, F, S, n)
<1> USE DEF Advances
<1> DEFINE P == { k \in 0..n : \E h \in [0..k -> S] :
                                   h[0] = r /\ \A j \in 1..k : h[j] = F[<<h[j - 1], j>>] }
<1>1. 0 \in P
  <2> DEFINE h == [j \in 0..0 |-> r]
  <2>1. h \in [0..0 -> S] /\ h[0] = r /\ 1..0 = {}
    OBVIOUS
  <2> HIDE DEF h
  <2>2. QED BY <2>1
<1>2. ASSUME NEW k \in 1..n, k - 1 \in P PROVE k \in P
  <2>1. PICK g \in [0..(k - 1) -> S] :
           g[0] = r /\ \A j \in 1..(k - 1) : g[j] = F[<<g[j - 1], j>>]
    BY <1>2
  <2> DEFINE h == [j \in 0..k |-> IF j = k THEN F[<<g[k - 1], k>>] ELSE g[j]]
  <2>2. F[<<g[k - 1], k>>] \in S
    <3>1. <<g[k - 1], k>> \in S \X (1..n)
      BY <2>1
    <3>2. QED BY <3>1
  <2>3. h \in [0..k -> S] /\ h[k] = F[<<g[k - 1], k>>] /\ \A j \in 0..(k - 1) : h[j] = g[j]
    BY <2>1, <2>2
  <2> HIDE DEF h
  <2>4. h[0] = r
    BY <2>1, <2>3
  <2>5. ASSUME NEW j \in 1..k PROVE h[j] = F[<<h[j - 1], j>>]
    <3>1. CASE j = k
      BY <2>3, <3>1
    <3>2. CASE j # k
      <4>1. j \in 1..(k - 1) /\ j \in 0..(k - 1) /\ j - 1 \in 0..(k - 1)
        BY <3>2
      <4>2. QED BY <2>1, <2>3, <4>1
    <3>3. QED BY <3>1, <3>2
  <2>6. QED BY <2>3, <2>4, <2>5
<1> HIDE DEF P
<1>3. \A k \in 0..n : k \in P
  BY <1>1, <1>2, CountingUp
<1>4. n \in P
  BY <1>3
<1>5. QED BY <1>4 DEF P, StepByStep

=============================================================================
