---------------------------- MODULE MCOrbitProofs ----------------------------
(* Proofs about Orbit, of the part of MCRemote that is one inspected         *)
(* directory: for every tree, limit, number of changes, failing calls and    *)
(* passed deadlines, what a scan says was there, what a check reports of two *)
(* complete scans is right, and the snapshot is one that verify accepts.     *)
(*                                                                           *)
(* A claim about a directory rests on what was hashed below it, and is made  *)
(* at the end, when the scan has left it.  It is true because the directory  *)
(* was attached: its handle is still what the path leads to, which a change  *)
(* can end but never restore, and because times only grow, so that a         *)
(* fingerprint that did not change is of a content that did not.             *)
EXTENDS MCRemote, FiniteSetTheorems, TLAPS
-----------------------------------------------------------------------------
(* Induction, in the form the proofs below use it: the least number for    *)
(* which a statement fails.                                                *)
LEMMA Least ==
  ASSUME NEW T \in SUBSET Nat, T # {}
  PROVE  \E m \in T : \A k \in T : m <= k
PROOF
<1> DEFINE U == {0..k : k \in T}
<1>1. U \subseteq FiniteSubsetsOf(Nat) /\ U # {}
  <2>1. ASSUME NEW k \in T PROVE 0..k \in FiniteSubsetsOf(Nat)
    <3>1. IsFiniteSet(0..k)
      BY FS_Interval
    <3>2. QED
      BY <3>1 DEF FiniteSubsetsOf
  <2>2. QED
    BY <2>1
<1>2. PICK m \in U : \A y \in U : ~(<<y, m>> \in StrictSubsetOrdering(Nat))
  <2>1. IsWellFoundedOn(StrictSubsetOrdering(Nat), FiniteSubsetsOf(Nat))
    BY FS_StrictSubsetOrderingWellFounded
  <2> HIDE DEF U
  <2>2. QED
    BY <1>1, <2>1, WFMin
<1>3. PICK k \in T : m = 0..k
  OBVIOUS
<1>4. ASSUME NEW j \in T PROVE k <= j
  <2>1. SUFFICES ASSUME j < k PROVE FALSE
    OBVIOUS
  <2>2. 0..j \subseteq 0..k /\ 0..j # 0..k
    <3>1. k \in 0..k /\ k \notin 0..j
      BY <2>1
    <3>2. QED
      BY <2>1, <3>1
  <2>3. <<0..j, 0..k>> \in StrictSubsetOrdering(Nat)
    BY <2>2 DEF StrictSubsetOrdering
  <2>4. QED
    BY <1>2, <1>3, <2>3
<1>5. QED
  BY <1>4

-----------------------------------------------------------------------------
(* The node a path leads to, step by step.                                 *)
Child(nd, i, n) == IF i # 0 /\ nd[i].kind = "dir" THEN nd[i].names[n] ELSE 0
IsWalk(g, nd, rt, path, D) ==
  g = [s \in SUBSET D |-> IF s = {} THEN rt ELSE Child(nd, g[s \ {O!Max(s)}], path[O!Max(s)])]
At(nd, rt, path) == (CHOOSE g : IsWalk(g, nd, rt, path, DOMAIN path))[DOMAIN path]

(* An operator of the model, of the tree and the root it is about.         *)
LEMMA AtNow == \A path : O!At(path) = At(node, root, path)
BY DEF O!At, O!FoldLeft, O!MapThenFoldSet, O!Child, At, IsWalk, Child

(* The greatest of the numbers in a set.                                   *)
LEMMA MaxIs ==
  ASSUME NEW s, NEW m \in s, m \in Int, \A k \in s : k \in Int /\ k <= m
  PROVE  O!Max(s) = m
<1>1. \A x \in s : (\A y \in s : x >= y) => x = m
  OBVIOUS
<1>2. \A y \in s : m >= y
  OBVIOUS
<1> QED
  BY <1>1, <1>2, Zenon DEF O!Max

(* There is a walk along every path, so the one that is chosen is one.     *)
LEMMA WalkExists ==
  ASSUME NEW nd, NEW rt, NEW path, NEW n \in Nat
  PROVE  \E g : IsWalk(g, nd, rt, path, 1..n)
<1> DEFINE Upto(m) == \E g : IsWalk(g, nd, rt, path, 1..m)
           T == {m \in Nat : ~Upto(m)}
<1>1. SUFFICES ASSUME T # {} PROVE FALSE
  OBVIOUS
<1>2. PICK m \in T : \A k \in T : m <= k
  <2>1. T \in SUBSET Nat
    OBVIOUS
  <2> HIDE DEF T
  <2> QED
    BY <1>1, <2>1, Least
<1>3. CASE m = 0
  <2> DEFINE g == [s \in SUBSET (1..0) |-> rt]
  <2>1. \A s \in SUBSET (1..0) : s = {}
    OBVIOUS
  <2>2. IsWalk(g, nd, rt, path, 1..0)
    BY <2>1 DEF IsWalk
  <2> QED
    BY <1>3, <2>2
<1>4. CASE m # 0
  <2>1. m - 1 \in Nat /\ Upto(m - 1)
    BY <1>2, <1>4
  <2>2. PICK g : IsWalk(g, nd, rt, path, 1..(m - 1))
    BY <2>1
  <2> DEFINE h == [s \in SUBSET (1..m) |-> IF m \in s THEN Child(nd, g[s \ {m}], path[m]) ELSE g[s]]
  <2>3. ASSUME NEW s \in SUBSET (1..m)
        PROVE  h[s] = IF s = {} THEN rt ELSE Child(nd, h[s \ {O!Max(s)}], path[O!Max(s)])
    <3>1. CASE m \in s
      <4>1. O!Max(s) = m
        <5>1. m \in Int /\ \A k \in s : k \in Int /\ k <= m
          OBVIOUS
        <5> QED
          BY <3>1, <5>1, MaxIs
      <4>2. s \ {m} \in SUBSET (1..m) /\ m \notin s \ {m}
        OBVIOUS
      <4>3. h[s \ {m}] = g[s \ {m}]
        BY <4>2
      <4> QED
        BY <3>1, <4>1, <4>3
    <3>2. CASE m \notin s
      <4>1. s \in SUBSET (1..(m - 1)) /\ \A x : m \notin s \ {x} /\ s \ {x} \in SUBSET (1..m)
        <5>1. \A x \in s : x \in 1..(m - 1)
          BY <3>2
        <5> QED
          BY <3>2, <5>1
      <4>2. g[s] = IF s = {} THEN rt ELSE Child(nd, g[s \ {O!Max(s)}], path[O!Max(s)])
        BY <2>2, <4>1 DEF IsWalk
      <4>3. h[s] = g[s] /\ h[s \ {O!Max(s)}] = g[s \ {O!Max(s)}]
        BY <3>2, <4>1
      <4> QED
        BY <4>2, <4>3
    <3> QED
      BY <3>1, <3>2
  <2>4. h = [s \in SUBSET (1..m) |-> h[s]]
    OBVIOUS
  <2> HIDE DEF h
  <2>5. h = [s \in SUBSET (1..m) |-> IF s = {} THEN rt ELSE Child(nd, h[s \ {O!Max(s)}], path[O!Max(s)])]
    BY <2>3, <2>4
  <2>6. IsWalk(h, nd, rt, path, 1..m)
    BY <2>5 DEF IsWalk
  <2> QED
    BY <1>2, <2>6
<1> QED
  BY <1>3, <1>4

(* It goes from the root to what is at the path, one name at a time.       *)
LEMMA WalkSteps ==
  ASSUME NEW nd, NEW rt, NEW path, NEW n \in Nat, DOMAIN path = 1..n
  PROVE  \E a : /\ a[0] = rt /\ a[n] = At(nd, rt, path)
                /\ \A k \in 1..n : a[k] = Child(nd, a[k - 1], path[k])
<1>1. IsWalk(CHOOSE g : IsWalk(g, nd, rt, path, 1..n), nd, rt, path, 1..n)
  BY WalkExists
<1>2. PICK g : IsWalk(g, nd, rt, path, 1..n) /\ At(nd, rt, path) = g[1..n]
  BY <1>1 DEF At
<1> DEFINE a == [k \in 0..n |-> g[1..k]]
<1>3. a[0] = rt
  <2>1. 1..0 = {} /\ 1..0 \in SUBSET (1..n)
    OBVIOUS
  <2> QED
    BY <1>2, <2>1 DEF IsWalk
<1>4. ASSUME NEW k \in 1..n PROVE a[k] = Child(nd, a[k - 1], path[k])
  <2>1. 1..k \in SUBSET (1..n) /\ k \in 1..k /\ k - 1 \in 0..n
    OBVIOUS
  <2>2. O!Max(1..k) = k
    <3>1. k \in Int /\ \A j \in 1..k : j \in Int /\ j <= k
      OBVIOUS
    <3> QED
      BY <2>1, <3>1, MaxIs
  <2>3. (1..k) \ {k} = 1..(k - 1)
    <3>1. \A j : j \in (1..k) \ {k} <=> j \in 1..(k - 1)
      OBVIOUS
    <3> QED
      BY <3>1
  <2>4. g[1..k] = IF 1..k = {} THEN rt ELSE Child(nd, g[(1..k) \ {O!Max(1..k)}], path[O!Max(1..k)])
    BY <1>2, <2>1, Zenon DEF IsWalk
  <2> QED
    <3>1. a[k] = g[1..k] /\ a[k - 1] = g[1..(k - 1)]
      BY <2>1
    <3>2. 1..k # {}
      BY <2>1
    <3> HIDE DEF a
    <3> QED
      BY <2>2, <2>3, <2>4, <3>1, <3>2, Zenon
<1>5. a[n] = At(nd, rt, path)
  BY <1>2
<1> QED
  BY <1>3, <1>4, <1>5

(* At the empty path is the root, and behind one more name its child.      *)
LEMMA AtRoot == \A nd, rt : At(nd, rt, << >>) = rt
<1> SUFFICES ASSUME NEW nd, NEW rt PROVE At(nd, rt, << >>) = rt
  OBVIOUS
<1>1. DOMAIN << >> = 1..0 /\ 0 \in Nat
  OBVIOUS
<1> QED
  BY <1>1, WalkSteps

LEMMA AtAppend ==
  ASSUME NEW nd, NEW rt, NEW S, NEW q \in Seq(S), NEW x \in S
  PROVE  At(nd, rt, Append(q, x)) = Child(nd, At(nd, rt, q), x)
<1> DEFINE n == Len(q)
           r == Append(q, x)
<1>1. /\ n \in Nat /\ n + 1 \in Nat /\ DOMAIN q = 1..n /\ DOMAIN r = 1..(n + 1) /\ r[n + 1] = x
      /\ \A k \in 1..n : r[k] = q[k]
  OBVIOUS
<1> HIDE DEF n, r
<1>2. PICK a : a[0] = rt /\ a[n] = At(nd, rt, q) /\ \A k \in 1..n : a[k] = Child(nd, a[k - 1], q[k])
  BY <1>1, WalkSteps
<1>3. PICK b : /\ b[0] = rt /\ b[n + 1] = At(nd, rt, r)
               /\ \A k \in 1..(n + 1) : b[k] = Child(nd, b[k - 1], r[k])
  BY <1>1, WalkSteps
<1>4. a[n] = b[n]
  <2> DEFINE T == {k \in 0..n : a[k] # b[k]}
  <2>1. SUFFICES ASSUME T # {} PROVE FALSE
    BY <1>1
  <2>2. T \in SUBSET Nat
    OBVIOUS
  <2>3. PICK k \in T : \A j \in T : k <= j
    <3> HIDE DEF T
    <3> QED
      BY <2>1, <2>2, Least
  <2>4. k # 0
    BY <1>2, <1>3, <2>3
  <2>5. k - 1 \in 0..n /\ k - 1 \notin T /\ k \in 1..n /\ k \in 1..(n + 1)
    BY <2>3, <2>4, <1>1
  <2>6. a[k - 1] = b[k - 1]
    BY <2>5
  <2>7. a[k] = Child(nd, a[k - 1], q[k]) /\ b[k] = Child(nd, b[k - 1], r[k]) /\ r[k] = q[k]
    BY <1>1, <1>2, <1>3, <2>5
  <2> QED
    BY <2>3, <2>6, <2>7
<1>5. b[n + 1] = Child(nd, b[n], x)
  <2>1. n + 1 \in 1..(n + 1) /\ (n + 1) - 1 = n
    BY <1>1
  <2> QED
    BY <1>1, <1>3, <2>1
<1> QED
  BY <1>2, <1>3, <1>4, <1>5 DEF r

-----------------------------------------------------------------------------
(* Sums over a function, in whatever order they are taken.                 *)
IsSum(g, f, D) ==
  g = [s \in SUBSET D |-> IF s = {} THEN 0 ELSE f[CHOOSE x \in s : TRUE] + g[s \ {CHOOSE x \in s : TRUE}]]

(* The sum of the model is that of such a function.                        *)
LEMMA SumIs == \A f : O!SumFunction(f) = (CHOOSE g : IsSum(g, f, DOMAIN f))[DOMAIN f]
BY DEF O!SumFunction, O!SumFunctionOnSet, O!FoldFunctionOnSet, O!MapThenFoldSet, IsSum

(* Of the finite sets with some property one has the fewest elements.      *)
LEMMA Smallest ==
  ASSUME NEW D, IsFiniteSet(D), NEW T \in SUBSET (SUBSET D), T # {}
  PROVE  \E s \in T : \A r \in T : Cardinality(s) <= Cardinality(r)
<1> DEFINE N == {Cardinality(s) : s \in T}
<1>1. \A s \in SUBSET D : IsFiniteSet(s) /\ Cardinality(s) \in Nat
  BY FS_Subset, FS_CardinalityType
<1>2. N \in SUBSET Nat /\ N # {}
  BY <1>1
<1>3. PICK n \in N : \A m \in N : n <= m
  <2> HIDE DEF N
  <2> QED
    BY <1>2, Least
<1> QED
  BY <1>3

(* What a set has without one of its elements.                             *)
LEMMA SmallerWithout ==
  ASSUME NEW D, IsFiniteSet(D), NEW s \in SUBSET D, NEW x \in s
  PROVE  /\ s \ {x} \in SUBSET D /\ IsFiniteSet(s) /\ Cardinality(s) \in Nat /\ Cardinality(s \ {x}) \in Nat
         /\ Cardinality(s \ {x}) = Cardinality(s) - 1
BY FS_Subset, FS_CardinalityType, FS_RemoveElement

(* There is such a function, by the number of elements.                    *)
LEMMA SumExists ==
  ASSUME NEW f, NEW D, IsFiniteSet(D)
  PROVE  \E g : IsSum(g, f, D)
<1> DEFINE Up(n) == {s \in SUBSET D : Cardinality(s) <= n}
           Pick(s) == CHOOSE x \in s : TRUE
           Part0(g, n) == \A s \in Up(n) : g[s] = IF s = {} THEN 0 ELSE f[Pick(s)] + g[s \ {Pick(s)}]
           T == {n \in Nat : ~ \E g : Part0(g, n)}
<1>0. \A s \in SUBSET D : IsFiniteSet(s) /\ Cardinality(s) \in Nat /\ (Cardinality(s) = 0 <=> s = {})
  BY FS_Subset, FS_CardinalityType, FS_EmptySet
<1>1. T = {}
  <2>1. SUFFICES ASSUME T # {} PROVE FALSE
    OBVIOUS
  <2>2. PICK n \in T : \A k \in T : n <= k
    <3>1. T \in SUBSET Nat
      OBVIOUS
    <3> HIDE DEF T
    <3> QED
      BY <2>1, <3>1, Least
  <2>3. CASE n = 0
    <3>1. \A s \in Up(0) : s = {}
      BY <1>0
    <3>2. Part0([s \in SUBSET D |-> 0], 0)
      BY <3>1
    <3> QED
      BY <2>2, <2>3, <3>2
  <2>4. CASE n # 0
    <3>1. n - 1 \in Nat /\ n - 1 \notin T
      <4>1. n \in Nat
        OBVIOUS
      <4> HIDE DEF T
      <4> QED
        BY <2>2, <2>4, <4>1
    <3>2. PICK g : Part0(g, n - 1)
      <4> HIDE DEF Part0
      <4> QED
        BY <3>1
    <3> DEFINE h == [s \in SUBSET D |-> IF s \in Up(n - 1) THEN g[s] ELSE f[Pick(s)] + g[s \ {Pick(s)}]]
    <3>3. ASSUME NEW s \in Up(n) PROVE h[s] = IF s = {} THEN 0 ELSE f[Pick(s)] + h[s \ {Pick(s)}]
      <4>1. CASE s = {}
        <5>1. s \in Up(n - 1)
          BY <1>0, <3>1, <4>1
        <5> QED
          BY <3>2, <4>1, <5>1
      <4>2. CASE s # {}
        <5>1. Pick(s) \in s
          BY <4>2
        <5>2. s \ {Pick(s)} \in Up(n - 1)
          <6> DEFINE c == Pick(s)
          <6> HIDE DEF c
          <6>1. c \in s
            BY <5>1 DEF c
          <6>2. s \ {c} \in SUBSET D /\ Cardinality(s \ {c}) = Cardinality(s) - 1 /\ Cardinality(s) \in Nat
            BY <6>1, SmallerWithout
          <6>3. Cardinality(s) <= n
            OBVIOUS
          <6>4. s \ {c} \in Up(n - 1)
            BY <6>2, <6>3, <3>1
          <6> QED
            BY <6>4 DEF c
        <5>3. h[s \ {Pick(s)}] = g[s \ {Pick(s)}]
          BY <5>2
        <5>4. s \in Up(n - 1) => g[s] = f[Pick(s)] + g[s \ {Pick(s)}]
          BY <3>2, <4>2
        <5> QED
          BY <4>2, <5>3, <5>4
      <4> QED
        BY <4>1, <4>2
    <3>4. Part0(h, n)
      <4> HIDE DEF h
      <4> QED
        BY <3>3
    <3> HIDE DEF Part0, h
    <3> QED
      BY <2>2, <3>4
  <2> QED
    BY <2>3, <2>4
<1>2. Cardinality(D) \in Nat
  BY FS_CardinalityType
<1>3. PICK g : Part0(g, Cardinality(D))
  <2> HIDE DEF Part0
  <2> QED
    BY <1>1, <1>2
<1>4. \A s \in SUBSET D : s \in Up(Cardinality(D))
  BY FS_Subset
<1> DEFINE h == [s \in SUBSET D |-> g[s]]
<1>5. \A s \in SUBSET D : h[s] = IF s = {} THEN 0 ELSE f[Pick(s)] + h[s \ {Pick(s)}]
  <2> SUFFICES ASSUME NEW s \in SUBSET D PROVE h[s] = IF s = {} THEN 0 ELSE f[Pick(s)] + h[s \ {Pick(s)}]
    OBVIOUS
  <2>1. g[s] = IF s = {} THEN 0 ELSE f[Pick(s)] + g[s \ {Pick(s)}]
    BY <1>3, <1>4
  <2>2. s \ {Pick(s)} \in SUBSET D
    OBVIOUS
  <2> QED
    BY <2>1, <2>2
<1>6. h = [s \in SUBSET D |-> h[s]]
  OBVIOUS
<1> HIDE DEF h
<1>7. IsSum(h, f, D)
  BY <1>5, <1>6 DEF IsSum
<1> QED
  BY <1>7

(* It takes one element after the other,                                   *)
LEMMA SumOne ==
  ASSUME NEW f, NEW D, IsFiniteSet(D), NEW g, IsSum(g, f, D), NEW s \in SUBSET D
  PROVE  /\ s = {} => g[s] = 0
         /\ s # {} => \E c \in s : g[s] = f[c] + g[s \ {c}]
BY DEF IsSum

(* and it does not matter which,                                           *)
LEMMA SumAny ==
  ASSUME NEW D, IsFiniteSet(D), NEW f, \A x \in D : f[x] \in Nat, NEW g, IsSum(g, f, D)
  PROVE  \A s \in SUBSET D : g[s] \in Nat /\ \A x \in s : g[s] = f[x] + g[s \ {x}]
<1> DEFINE Holds0(s) == g[s] \in Nat /\ \A x \in s : g[s] = f[x] + g[s \ {x}]
           T == {s \in SUBSET D : ~Holds0(s)}
<1>1. SUFFICES ASSUME T # {} PROVE FALSE
  OBVIOUS
<1>2. PICK s \in T : \A r \in T : Cardinality(s) <= Cardinality(r)
  <2>1. T \in SUBSET (SUBSET D)
    OBVIOUS
  <2> HIDE DEF T
  <2> QED
    BY <1>1, <2>1, Smallest
<1>3. \A x \in s : s \ {x} \in SUBSET D /\ Holds0(s \ {x})
  <2> SUFFICES ASSUME NEW x \in s PROVE s \ {x} \in SUBSET D /\ Holds0(s \ {x})
    OBVIOUS
  <2>1. s \ {x} \in SUBSET D /\ Cardinality(s \ {x}) = Cardinality(s) - 1 /\ Cardinality(s) \in Nat
    BY SmallerWithout
  <2>2. s \ {x} \notin T
    <3> HIDE DEF T
    <3> QED
      BY <1>2, <2>1
  <2> HIDE DEF Holds0
  <2> QED
    BY <2>1, <2>2
<1>4. CASE s = {}
  <2>1. g[s] = 0
    BY <1>4, SumOne
  <2> QED
    BY <1>2, <1>4, <2>1
<1>5. CASE s # {}
  <2>1. PICK c \in s : g[s] = f[c] + g[s \ {c}]
    BY <1>5, SumOne
  <2>2. f[c] \in Nat /\ g[s \ {c}] \in Nat /\ g[s] \in Nat
    <3>1. f[c] \in Nat /\ g[s \ {c}] \in Nat
      BY <1>3
    <3> QED
      BY <2>1, <3>1
  <2>3. ASSUME NEW x \in s PROVE g[s] = f[x] + g[s \ {x}]
    <3>1. CASE x = c
      BY <2>1, <3>1
    <3>2. CASE x # c
      <4>1. x \in s \ {c} /\ c \in s \ {x} /\ (s \ {c}) \ {x} = (s \ {x}) \ {c}
        BY <3>2
      <4>2. g[s \ {c}] = f[x] + g[(s \ {c}) \ {x}] /\ g[s \ {x}] = f[c] + g[(s \ {x}) \ {c}]
        BY <1>3, <4>1
      <4>3. g[(s \ {x}) \ {c}] \in Nat
        <5>1. s \ {x} \in SUBSET D /\ IsFiniteSet(s \ {x})
          BY FS_Subset
        <5>2. (s \ {x}) \ {c} \in SUBSET D /\ Cardinality((s \ {x}) \ {c}) < Cardinality(s)
          <6>1. Cardinality(s \ {x}) = Cardinality(s) - 1 /\ Cardinality(s) \in Nat
            BY SmallerWithout
          <6>2. Cardinality((s \ {x}) \ {c}) = Cardinality(s \ {x}) - 1
            BY <4>1, <5>1, SmallerWithout
          <6> QED
            BY <6>1, <6>2
        <5>3. (s \ {x}) \ {c} \notin T
          <6>1. Cardinality((s \ {x}) \ {c}) \in Nat /\ Cardinality(s) \in Nat
            BY <5>2, FS_Subset, FS_CardinalityType
          <6> HIDE DEF T
          <6> QED
            BY <1>2, <5>2, <6>1
        <5>4. Holds0((s \ {x}) \ {c})
          <6> HIDE DEF Holds0
          <6> QED
            BY <5>2, <5>3
        <5> QED
          BY <5>4
      <4>4. f[x] \in Nat /\ f[c] \in Nat
        BY <2>2
      <4> QED
        BY <2>1, <4>1, <4>2, <4>3, <4>4
    <3> QED
      BY <3>1, <3>2
  <2> QED
    BY <1>2, <2>2, <2>3
<1> QED
  BY <1>4, <1>5

(* nor what else it would have summed up.                                  *)
LEMMA SumAgree ==
  ASSUME NEW D, IsFiniteSet(D), NEW f, \A x \in D : f[x] \in Nat, NEW g, IsSum(g, f, D),
         NEW E, IsFiniteSet(E), D \subseteq E, NEW k, \A x \in E : k[x] \in Nat, NEW h, IsSum(h, k, E), \A x \in D : k[x] = f[x]
  PROVE  g[D] = h[D]
<1> DEFINE T == {s \in SUBSET D : g[s] # h[s]}
<1>1. SUFFICES ASSUME T # {} PROVE FALSE
  OBVIOUS
<1>2. PICK s \in T : \A r \in T : Cardinality(s) <= Cardinality(r)
  <2>1. T \in SUBSET (SUBSET D)
    OBVIOUS
  <2> HIDE DEF T
  <2> QED
    BY <1>1, <2>1, Smallest
<1>3. s \in SUBSET E
  OBVIOUS
<1>4. CASE s = {}
  BY <1>2, <1>3, <1>4, SumOne
<1>5. CASE s # {}
  <2>1. PICK c \in s : TRUE
    BY <1>5
  <2>2. s \ {c} \in SUBSET D /\ Cardinality(s \ {c}) = Cardinality(s) - 1 /\ Cardinality(s) \in Nat
    BY SmallerWithout
  <2>3. g[s \ {c}] = h[s \ {c}]
    BY <1>2, <2>2
  <2>4. g[s] = f[c] + g[s \ {c}]
    BY SumAny
  <2>5. h[s] = k[c] + h[s \ {c}]
    <3>1. \A r \in SUBSET E : h[r] \in Nat /\ \A x \in r : h[r] = k[x] + h[r \ {x}]
      BY SumAny
    <3> QED
      BY <1>3, <3>1
  <2> QED
    BY <1>2, <2>3, <2>4, <2>5
<1> QED
  BY <1>4, <1>5

-----------------------------------------------------------------------------
(* Where a scan may be.                                                    *)
Picked == {"open", "read", "bind", "opendir"}      \* a name was taken, and has no entry yet
Looked == {"after", "binddir"}                     \* the names of the directory are done
Walking == {"list", "listing", "name", "finish"} \union Picked \union Looked
Good == {"hashed", "directory"}
Observed == Good \union {"unreadable", "unsupported", "unstable", "budget"}

Entries ==
  [kind : {"file", "dir", "other"}, observation : Observed, read : Nat, sha256 : Seq(Nat) \union {None},
   before : O!Fingerprints \union {None}, after : O!Fingerprints \union {None}]
Frames ==
  [dir : Nat, path : Seq(FileNames \ Unsafe), before : O!Fingerprints, todo : SUBSET FileNames, name : Nat]
Readings == [handle : Nat, entry : Entries, digest : Seq(Nat)]

Top == frames[Len(frames)]
Below(q, p) == Len(q) < Len(p) /\ \A i \in 1..Len(q) : p[i] = q[i]
Present(nd, i) == {n \in FileNames : nd[i].names[n] # 0}
Children(es, q) == {n \in FileNames : Append(q, n) \in DOMAIN es}
OpenPaths(fs) == {fs[k].path : k \in 2..Len(fs)}
Everywhere == O!Inspected \union {O!Root}

(* The tree, and what was at every path until now.                         *)
TreeOK ==
  /\ O!Tree(node) /\ root \in 1..Len(node) /\ node[root].kind = "dir"
  /\ now \in Nat /\ hidden \in BOOLEAN /\ \A i \in 1..Len(node) : node[i].changed <= now
  /\ DOMAIN held = Everywhere /\ DOMAIN heldThen = Everywhere
  /\ \A p \in Everywhere : O!ShownAt(p) \in held[p]

(* The open directories lie in each other, along the names that were       *)
(* taken.                                                                  *)
FramesOK ==
  /\ step \in {"begin", "end", "done"} \union Walking /\ job \in {"capture", "check"}
  /\ issue \in BOOLEAN /\ late \in BOOLEAN
  /\ frames \in Seq(Frames) /\ Len(frames) <= MaxDepth + 1 /\ (step \in Walking <=> frames # << >>)
  /\ \A k \in 1..Len(frames) :
       /\ frames[k].dir \in 1..Len(node) /\ node[frames[k].dir].kind = "dir"
       /\ Len(frames[k].path) = k - 1 /\ \A j \in 1..(k - 1) : frames[k].path[j] = frames[j].name
  /\ step \in Looked => Len(frames) > 1
  /\ step = "finish" => Len(frames) = 1
  /\ step \in Picked => Top.name \in FileNames \ Unsafe /\ Top.name \notin Top.todo

(* What has an entry lies in no name that an open directory still has to   *)
(* look at.                                                                *)
Unseen(es, q, n) == \A p \in DOMAIN es : ~(Below(q, p) /\ p[Len(q) + 1] = n)
Ahead ==
  /\ step = "begin" => DOMAIN entries = {} /\ bytes = 0
  /\ step \in {"list", "listing"} => \A p \in DOMAIN entries : ~Below(Top.path, p)
  /\ \A k \in 1..Len(frames) :
       k < Len(frames) \/ step \notin {"list", "listing"} => \A n \in frames[k].todo : Unseen(entries, frames[k].path, n)
  /\ step \in Picked => Unseen(entries, Top.path, Top.name)

(* What validate_snapshot asks of an entry.                                *)
EntryOK(e) ==
  /\ e.read <= MaxFile
  /\ CASE e.observation = "hashed" ->
            e.sha256 # None /\ e.kind = "file" /\ e.before # None /\ e.before = e.after /\ e.before.bytes = e.read
       [] e.observation = "directory" ->
            e.sha256 = None /\ e.kind = "dir" /\ e.before # None /\ e.before = e.after /\ e.read = 0
       [] OTHER -> e.sha256 = None
EntriesOK ==
  /\ IsFiniteSet(DOMAIN entries) /\ entries \in [DOMAIN entries -> Entries]
  /\ DOMAIN entries \subseteq O!Inspected
  /\ \A p \in DOMAIN entries : O!Range(p) \intersect Unsafe = {} /\ EntryOK(entries[p])
  /\ \A k \in 2..Len(frames) :
       /\ frames[k].path \in DOMAIN entries /\ entries[frames[k].path].kind = "dir"
       /\ entries[frames[k].path].observation \notin Good /\ entries[frames[k].path].read = 0
       /\ k = Len(frames) /\ step = "binddir" =>
            entries[frames[k].path].after = None \/ entries[frames[k].path].after.node = frames[k].dir

(* The limits.                                                             *)
Reads(es) == O!SumFunction([p \in DOMAIN es |-> es[p].read])
BudgetOK ==
  /\ Cardinality(DOMAIN entries) <= MaxEntries
  /\ step \in Picked => Cardinality(DOMAIN entries) < MaxEntries
  /\ bytes = Reads(entries) + (IF step \in {"read", "bind"} THEN reading.entry.read ELSE 0) /\ bytes <= MaxTotal
  /\ step = "read" => bytes + (reading.entry.before.bytes - reading.entry.read) <= MaxTotal

(* The open file: as long as its time is that of its opening, what was     *)
(* read is what it has.                                                    *)
ReadingOK ==
  step \in {"read", "bind"} =>
    LET e == reading.entry
        h == reading.handle
    IN /\ reading \in Readings /\ h \in 1..Len(node) /\ node[h].kind = "file"
       /\ e.kind = "file" /\ e.observation = "unreadable" /\ e.sha256 = None
       /\ e.before # None /\ e.before.node = h /\ e.before.changed <= node[h].changed
       /\ e.read <= e.before.bytes /\ e.before.bytes <= MaxFile /\ (step = "bind" => e.read = e.before.bytes)
       /\ ~hidden /\ e.before.changed = node[h].changed =>
            /\ Len(node[h].data) = e.before.bytes /\ Len(reading.digest) = e.read
            /\ \A i \in 1..e.read : reading.digest[i] = node[h].data[i]

(* An open directory: as long as its time is that of its opening, what was *)
(* listed is what is in it.                                                *)
Listing(fs, es, st, k) ==
  IF k = Len(fs) /\ st = "listing" THEN fs[k].todo
  ELSE fs[k].todo \union (IF k = Len(fs) /\ st \in Picked THEN {fs[k].name} ELSE {}) \union Children(es, fs[k].path)
ListingsOK ==
  \A k \in 1..Len(frames) :
    /\ frames[k].before.node = frames[k].dir /\ frames[k].before.changed <= node[frames[k].dir].changed
    /\ ~hidden /\ ~issue /\ frames[k].before.changed = node[frames[k].dir].changed
         /\ (k < Len(frames) \/ step \notin {"list", "finish"} \union Looked)
       => Listing(frames, entries, step, k) = Present(node, frames[k].dir)

(* What a scan says is there: if the open directories are still where they *)
(* were opened, it was.                                                    *)
Seen(es, q) ==
  IF q = O!Root \/ es[q].kind = "dir" THEN [kind |-> "dir", data |-> << >>, names |-> Children(es, q)]
  ELSE [kind |-> es[q].kind, data |-> es[q].sha256, names |-> {}]
Claim(es, hs, q) ==
  /\ Seen(es, q) \in hs[q]
  /\ \A p \in O!Inspected : Below(q, p) /\ p[Len(q) + 1] \notin Children(es, q) => None \in hs[p]
Attached ==
  \A k \in 1..Len(frames) : frames[k].dir = IF k = 1 THEN root ELSE Child(node, frames[k - 1].dir, frames[k - 1].name)
Reliable ==
  /\ ~hidden /\ ~issue /\ Attached
  /\ \A p \in DOMAIN entries : entries[p].observation \in Good \/ p \in OpenPaths(frames)
Settled ==
  {p \in DOMAIN entries : entries[p].observation \in Good}
    \union (IF step \in Looked \union {"finish"} THEN {Top.path} ELSE IF step \in {"end", "done"} THEN {O!Root} ELSE {})
TruthOK ==
  /\ ~hidden => \A p \in DOMAIN entries : entries[p].sha256 # None => entries[p].sha256 \in O!Data
  /\ Reliable => \A q \in Settled : Claim(entries, held, q)

(* The baseline, once it is captured.                                      *)
BaselineOK ==
  job = "check" /\ ~hidden =>
    /\ DOMAIN baseline \subseteq O!Inspected
    /\ \A p \in DOMAIN baseline : \/ baseline[p].kind = "file" /\ baseline[p].sha256 \in O!Data
                                  \/ baseline[p].kind = "dir" /\ baseline[p].sha256 = None
    /\ \A q \in DOMAIN baseline \union {O!Root} : Claim(baseline, heldThen, q)

OrbitInv ==
  /\ TreeOK /\ FramesOK /\ Ahead /\ EntriesOK /\ BudgetOK /\ ReadingOK /\ ListingsOK /\ TruthOK /\ BaselineOK

-----------------------------------------------------------------------------
(* The assumption on the constants, in parts.                              *)
LEMMA ConstantsAre ==
  /\ FileNames \subseteq Nat /\ Unsafe \subseteq FileNames /\ O!Data \subseteq Seq(Nat) /\ << >> \in O!Data
  /\ MaxEntries \in Nat /\ MaxDepth \in Nat /\ MaxFile \in Nat /\ MaxTotal \in Nat
  /\ None \notin Seq(Nat) /\ None \notin O!Shapes /\ None \notin O!Fingerprints
<1>1. /\ FileNames \subseteq Nat /\ Unsafe \subseteq FileNames /\ Contents \subseteq Seq(Nat)
      /\ {MaxEntries, MaxDepth, MaxFile, MaxTotal, MaxNodes, MaxTroubles} \subseteq Nat
      /\ None \notin Seq(Nat) \union O!Shapes \union O!Fingerprints
  BY TreeConstants, Zenon DEF O!OrbitConstants
<1>2. << >> \in Seq(Nat)
  OBVIOUS
<1>3. O!Data \subseteq Seq(Nat) /\ << >> \in O!Data
  BY <1>1, <1>2 DEF O!Data
<1>4. MaxEntries \in Nat /\ MaxDepth \in Nat /\ MaxFile \in Nat /\ MaxTotal \in Nat
  BY <1>1
<1> QED
  BY <1>1, <1>3, <1>4

(* Paths and their beginnings.                                             *)
Prefix(p, k) == [i \in 1..k |-> p[i]]

(* A path grows from the root by one name at a time.                       *)
LEMMA Prefixes ==
  ASSUME NEW p \in Seq(FileNames)
  PROVE  /\ Prefix(p, 0) = O!Root /\ Prefix(p, Len(p)) = p
         /\ \A k \in 0..Len(p) : Prefix(p, k) \in Seq(FileNames) /\ Len(Prefix(p, k)) = k /\ \A i \in 1..k : Prefix(p, k)[i] = p[i]
         /\ \A k \in 1..Len(p) : p[k] \in FileNames /\ Prefix(p, k) = Append(Prefix(p, k - 1), p[k])
<1>1. Prefix(p, 0) = O!Root
  BY DEF Prefix, O!Root
<1>2. Prefix(p, Len(p)) = p
  BY DEF Prefix
<1>3. \A k \in 0..Len(p) : Prefix(p, k) \in Seq(FileNames) /\ Len(Prefix(p, k)) = k /\ \A i \in 1..k : Prefix(p, k)[i] = p[i]
  BY DEF Prefix
<1>4. ASSUME NEW k \in 1..Len(p) PROVE p[k] \in FileNames /\ Prefix(p, k) = Append(Prefix(p, k - 1), p[k])
  <2>1. p[k] \in FileNames
    OBVIOUS
  <2>2. k - 1 \in 0..Len(p) /\ k \in 0..Len(p)
    OBVIOUS
  <2> DEFINE a == Prefix(p, k)
             b == Prefix(p, k - 1)
  <2>3. /\ a \in Seq(FileNames) /\ Len(a) = k /\ (\A i \in 1..k : a[i] = p[i])
        /\ b \in Seq(FileNames) /\ Len(b) = k - 1 /\ (\A i \in 1..(k - 1) : b[i] = p[i])
    BY <1>3, <2>2
  <2> HIDE DEF a, b
  <2>4. Append(b, p[k]) \in Seq(FileNames) /\ Len(Append(b, p[k])) = k /\ \A i \in 1..k : Append(b, p[k])[i] = p[i]
    BY <2>1, <2>3
  <2>5. a = Append(b, p[k])
    BY <2>3, <2>4
  <2> QED
    BY <2>1, <2>5 DEF a, b
<1> QED
  BY <1>1, <1>2, <1>3, <1>4

(* The inspected paths are those that are not too long.                    *)
LEMMA InspectedAre == \A p : p \in O!Inspected <=> p \in Seq(FileNames) /\ Len(p) \in 1..(MaxDepth + 1)
<1> SUFFICES ASSUME NEW p PROVE p \in O!Inspected <=> p \in Seq(FileNames) /\ Len(p) \in 1..(MaxDepth + 1)
  OBVIOUS
<1>1. ASSUME p \in O!Inspected PROVE p \in Seq(FileNames) /\ Len(p) \in 1..(MaxDepth + 1)
  <2>1. PICK d \in 1..(MaxDepth + 1) : p \in [1..d -> FileNames]
    BY <1>1 DEF O!Inspected
  <2> QED
    BY <2>1, ConstantsAre
<1>2. ASSUME p \in Seq(FileNames), Len(p) \in 1..(MaxDepth + 1) PROVE p \in O!Inspected
  <2>1. p \in [1..Len(p) -> FileNames]
    BY <1>2
  <2> QED
    BY <1>2, <2>1 DEF O!Inspected
<1> QED
  BY <1>1, <1>2

LEMMA EverywhereAre ==
  /\ O!Root \in Everywhere /\ O!Root = << >> /\ O!Root \notin O!Inspected
  /\ \A p : p \in Everywhere <=> p \in Seq(FileNames) /\ Len(p) <= MaxDepth + 1
<1>1. O!Root \in Everywhere /\ O!Root = << >> /\ O!Root \notin O!Inspected
  BY InspectedAre DEF Everywhere, O!Root
<1>2. ASSUME NEW p, p \in Everywhere PROVE p \in Seq(FileNames) /\ Len(p) <= MaxDepth + 1
  BY <1>2, InspectedAre, ConstantsAre DEF Everywhere, O!Root
<1>3. ASSUME NEW p, p \in Seq(FileNames), Len(p) <= MaxDepth + 1 PROVE p \in Everywhere
  <2>1. CASE Len(p) = 0
    <3>1. p = << >>
      BY <1>3, <2>1
    <3> QED
      BY <3>1 DEF Everywhere, O!Root
  <2>2. CASE Len(p) # 0
    BY <1>3, <2>2, InspectedAre, ConstantsAre DEF Everywhere
  <2> QED
    BY <2>1, <2>2
<1> QED
  BY <1>1, <1>2, <1>3

(* A path of one name more.                                                *)
LEMMA Appended ==
  ASSUME NEW S, NEW q \in Seq(S), NEW n \in S
  PROVE  /\ Append(q, n) \in Seq(S) /\ Len(Append(q, n)) = Len(q) + 1 /\ Append(q, n)[Len(q) + 1] = n
         /\ (\A i \in 1..Len(q) : Append(q, n)[i] = q[i]) /\ Below(q, Append(q, n))
         /\ \A r \in Seq(S), m \in S : Append(r, m) = Append(q, n) <=> r = q /\ m = n
<1>1. /\ Append(q, n) \in Seq(S) /\ Len(Append(q, n)) = Len(q) + 1 /\ Append(q, n)[Len(q) + 1] = n
      /\ \A i \in 1..Len(q) : Append(q, n)[i] = q[i]
  OBVIOUS
<1>2. Below(q, Append(q, n))
  BY <1>1 DEF Below
<1>3. ASSUME NEW r \in Seq(S), NEW m \in S, Append(r, m) = Append(q, n) PROVE r = q /\ m = n
  <2>1. Len(r) = Len(q) /\ Append(r, m)[Len(r) + 1] = m /\ \A i \in 1..Len(r) : Append(r, m)[i] = r[i]
    BY <1>1, <1>3
  <2>2. m = n /\ \A i \in 1..Len(q) : r[i] = q[i]
    BY <1>1, <1>3, <2>1
  <2> QED
    BY <2>1, <2>2
<1> QED
  BY <1>1, <1>2, <1>3

-----------------------------------------------------------------------------
(* An entry that is put.                                                   *)
With(es, p, e) == [q \in DOMAIN es \union {p} |-> IF q = p THEN e ELSE es[q]]

(* Putting an entry gives the entries with it.                             *)
LEMMA PutIs == \A p, e : O!Put(p, e) <=> entries' = With(entries, p, e)
BY DEF O!Put, With

(* They have one more, and the others as they were.                        *)
LEMMA WithHas ==
  ASSUME NEW es, NEW p, NEW e
  PROVE  /\ DOMAIN With(es, p, e) = DOMAIN es \union {p} /\ With(es, p, e)[p] = e
         /\ \A q \in DOMAIN es : q # p => With(es, p, e)[q] = es[q]
         /\ es \in [DOMAIN es -> Entries] /\ e \in Entries => With(es, p, e) \in [DOMAIN With(es, p, e) -> Entries]
         /\ IsFiniteSet(DOMAIN es) => IsFiniteSet(DOMAIN With(es, p, e))
<1>1. /\ DOMAIN With(es, p, e) = DOMAIN es \union {p} /\ With(es, p, e)[p] = e
      /\ \A q \in DOMAIN es : q # p => With(es, p, e)[q] = es[q]
  BY DEF With
<1>2. ASSUME es \in [DOMAIN es -> Entries], e \in Entries PROVE With(es, p, e) \in [DOMAIN With(es, p, e) -> Entries]
  BY <1>2 DEF With
<1>3. IsFiniteSet(DOMAIN es) => IsFiniteSet(DOMAIN With(es, p, e))
  BY <1>1, FS_AddElement
<1> QED
  BY <1>1, <1>2, <1>3

(* The sum over a finite function of numbers.                              *)
LEMMA SumWhole ==
  ASSUME NEW D, IsFiniteSet(D), NEW f, f \in [D -> Nat]
  PROVE  \E g : IsSum(g, f, D) /\ O!SumFunction(f) = g[D]
<1>1. DOMAIN f = D
  OBVIOUS
<1>2. IsSum(CHOOSE g : IsSum(g, f, D), f, D)
  BY SumExists
<1> QED
  BY <1>1, <1>2, SumIs

(* What a scan has read: of no entry nothing, and with every entry its     *)
(* part.                                                                   *)
LEMMA ReadsNone == \A es : DOMAIN es = {} => Reads(es) = 0
<1> SUFFICES ASSUME NEW es, DOMAIN es = {} PROVE Reads(es) = 0
  OBVIOUS
<1> DEFINE f == [p \in DOMAIN es |-> es[p].read]
<1>1. f \in [{} -> Nat] /\ IsFiniteSet({})
  BY FS_EmptySet
<1>2. Reads(es) = O!SumFunction(f)
  BY DEF Reads
<1> HIDE DEF f
<1>3. PICK g : IsSum(g, f, {}) /\ O!SumFunction(f) = g[{}]
  BY <1>1, SumWhole
<1>4. g[{}] = 0
  BY <1>1, <1>3, SumOne
<1> QED
  BY <1>2, <1>3, <1>4

LEMMA ReadsMore ==
  ASSUME NEW es, es \in [DOMAIN es -> Entries], IsFiniteSet(DOMAIN es), NEW p, p \notin DOMAIN es, NEW e \in Entries
  PROVE  Reads(es) \in Nat /\ Reads(With(es, p, e)) = Reads(es) + e.read
<1> DEFINE D == DOMAIN es
           E == D \union {p}
           w == With(es, p, e)
           f == [q \in D |-> es[q].read]
           k == [q \in E |-> w[q].read]
<1>1. /\ IsFiniteSet(E) /\ DOMAIN w = E /\ w[p] = e /\ (\A q \in D : w[q] = es[q]) /\ w \in [E -> Entries]
  <2>1. /\ DOMAIN With(es, p, e) = DOMAIN es \union {p} /\ With(es, p, e)[p] = e
        /\ \A q \in DOMAIN es : q # p => With(es, p, e)[q] = es[q]
        /\ es \in [DOMAIN es -> Entries] /\ e \in Entries => With(es, p, e) \in [DOMAIN With(es, p, e) -> Entries]
        /\ IsFiniteSet(DOMAIN es) => IsFiniteSet(DOMAIN With(es, p, e))
    BY WithHas, Zenon
  <2> HIDE DEF w
  <2>2. DOMAIN w = E /\ w[p] = e /\ (\A q \in DOMAIN es : q # p => w[q] = es[q]) /\ w \in [DOMAIN w -> Entries] /\ IsFiniteSet(DOMAIN w)
    BY <2>1 DEF w
  <2> QED
    BY <2>2
<1>2. f \in [D -> Nat]
  BY DEF Entries
<1>3. \A q \in E : w[q].read \in Nat
  <2> HIDE DEF w
  <2> QED
    BY <1>1 DEF Entries
<1>4. k \in [E -> Nat] /\ k[p] = e.read /\ \A q \in D : k[q] = f[q]
  <2> HIDE DEF w
  <2> QED
    BY <1>1, <1>3
<1>5. Reads(es) = O!SumFunction(f) /\ Reads(w) = O!SumFunction(k)
  BY <1>1 DEF Reads
<1> HIDE DEF f, k, w
<1>6. PICK g : IsSum(g, f, D) /\ O!SumFunction(f) = g[D]
  BY <1>2, SumWhole
<1>7. PICK h : IsSum(h, k, E) /\ O!SumFunction(k) = h[E]
  BY <1>1, <1>4, SumWhole
<1>8. (\A x \in D : f[x] \in Nat) /\ (\A x \in E : k[x] \in Nat) /\ D \subseteq E /\ D \in SUBSET E
  BY <1>2, <1>4
<1>9. g[D] = h[D]
  BY <1>1, <1>4, <1>6, <1>7, <1>8, SumAgree
<1>10. g[D] \in Nat
  <2>1. \A s \in SUBSET D : g[s] \in Nat /\ \A x \in s : g[s] = f[x] + g[s \ {x}]
    BY <1>6, <1>8, SumAny
  <2> QED
    BY <2>1
<1>11. h[E] = k[p] + h[D]
  <2>1. \A s \in SUBSET E : h[s] \in Nat /\ \A x \in s : h[s] = k[x] + h[s \ {x}]
    <3> HIDE DEF E, D
    <3> QED
      BY <1>1, <1>7, <1>8, SumAny
  <2>2. E \in SUBSET E /\ p \in E /\ E \ {p} = D
    OBVIOUS
  <2> HIDE DEF E, D
  <2>3. h[E] = k[p] + h[E \ {p}]
    BY <2>1, <2>2
  <2> QED
    BY <2>2, <2>3
<1>12. e.read \in Nat
  BY DEF Entries
<1> HIDE DEF E, D
<1>13. Reads(w) = Reads(es) + e.read /\ Reads(es) \in Nat
  BY <1>4, <1>5, <1>6, <1>7, <1>9, <1>10, <1>11, <1>12
<1> QED
  BY <1>13 DEF w

(* An entry that read as much as the one it replaces changes nothing.      *)
LEMMA ReadsSame ==
  ASSUME NEW es, NEW p \in DOMAIN es, NEW e, e.read = es[p].read
  PROVE  Reads(With(es, p, e)) = Reads(es)
<1> DEFINE w == With(es, p, e)
<1>1. DOMAIN w = DOMAIN es /\ \A q \in DOMAIN es : w[q].read = es[q].read
  <2>1. DOMAIN es \union {p} = DOMAIN es
    OBVIOUS
  <2>2. DOMAIN w = DOMAIN es
    BY <2>1 DEF With
  <2>3. \A q \in DOMAIN es : w[q] = IF q = p THEN e ELSE es[q]
    BY <2>1 DEF With
  <2> HIDE DEF w
  <2> QED
    BY <2>2, <2>3
<1> HIDE DEF w
<1>2. [q \in DOMAIN w |-> w[q].read] = [q \in DOMAIN es |-> es[q].read]
  BY <1>1
<1>3. Reads(w) = Reads(es)
  BY <1>2, Zenon DEF Reads
<1> QED
  BY <1>3 DEF w

(* What is said of a path does not depend on entries elsewhere.            *)
LEMMA ClaimKept ==
  ASSUME NEW es, NEW es2, NEW hs, NEW hs2, NEW q \in Everywhere, Claim(es, hs, q), \A p \in Everywhere : hs[p] \subseteq hs2[p],
         Children(es2, q) = Children(es, q), q = O!Root \/ (es2[q].kind = es[q].kind /\ es2[q].sha256 = es[q].sha256)
  PROVE  Claim(es2, hs2, q)
<1>1. Seen(es2, q) = Seen(es, q)
  BY DEF Seen
<1>2. Seen(es2, q) \in hs2[q]
  BY <1>1 DEF Claim
<1>3. \A p \in O!Inspected : Below(q, p) /\ p[Len(q) + 1] \notin Children(es2, q) => None \in hs2[p]
  BY DEF Claim, Everywhere
<1> QED
  BY <1>2, <1>3 DEF Claim

(* A new entry is a child of the directory it is in and of no other.       *)
LEMMA ChildrenWith ==
  ASSUME NEW es, NEW q \in Seq(FileNames), NEW n \in FileNames, NEW e
  PROVE  /\ Children(With(es, Append(q, n), e), q) = Children(es, q) \union {n}
         /\ \A r \in Seq(FileNames) : r # q => Children(With(es, Append(q, n), e), r) = Children(es, r)
<1> DEFINE w == With(es, Append(q, n), e)
<1>1. DOMAIN w = DOMAIN es \union {Append(q, n)}
  BY WithHas
<1> HIDE DEF w
<1>2. \A r \in Seq(FileNames), m \in FileNames : Append(r, m) = Append(q, n) <=> r = q /\ m = n
  BY Appended
<1>3. Children(w, q) = Children(es, q) \union {n}
  BY <1>1, <1>2 DEF Children
<1>4. \A r \in Seq(FileNames) : r # q => Children(w, r) = Children(es, r)
  BY <1>1, <1>2 DEF Children
<1> QED
  BY <1>3, <1>4 DEF w

-----------------------------------------------------------------------------
(* What the tree and the open directories are made of.                     *)
LEMMA NodesAre ==
  ASSUME TreeOK, NEW i \in 1..Len(node)
  PROVE  /\ node \in Seq(O!Nodes) /\ Len(node) \in Nat /\ DOMAIN node = 1..Len(node) /\ i # 0 /\ i \in Nat
         /\ node[i] \in O!Nodes /\ node[i].kind \in {"file", "dir", "other"} /\ node[i].data \in O!Data
         /\ node[i].data \in Seq(Nat) /\ Len(node[i].data) \in Nat /\ node[i].changed \in Nat
         /\ node[i].kind = "dir" => node[i].data = << >>
         /\ \A n \in FileNames : node[i].names[n] \in 0..Len(node) /\ (node[i].kind # "dir" => node[i].names[n] = 0)
<1>1. O!Tree(node)
  BY DEF TreeOK
<1>2. node \in Seq(O!Nodes) /\ DOMAIN node = 1..Len(node) /\ Len(node) \in Nat
  BY <1>1 DEF O!Tree
<1>3. node[i] \in O!Nodes
  BY <1>2
<1>4. /\ node[i].kind \in {"file", "dir", "other"} /\ node[i].data \in O!Data /\ node[i].changed \in Nat
      /\ node[i].names \in [FileNames -> Nat]
  BY <1>3 DEF O!Nodes
<1>5. node[i].data \in Seq(Nat) /\ Len(node[i].data) \in Nat
  BY <1>4, ConstantsAre
<1>6. node[i].kind = "dir" => node[i].data = << >>
  BY <1>1, <1>2 DEF O!Tree
<1>7. ASSUME NEW n \in FileNames PROVE node[i].names[n] \in 0..Len(node) /\ (node[i].kind # "dir" => node[i].names[n] = 0)
  <2>1. node[i].names[n] \in Nat
    BY <1>4
  <2>2. node[i].names[n] <= Len(node) /\ (node[i].kind # "dir" => node[i].names[n] = 0)
    BY <1>1, <1>2 DEF O!Tree
  <2> QED
    BY <1>2, <2>1, <2>2
<1> QED
  BY <1>2, <1>3, <1>4, <1>5, <1>6, <1>7

(* The fingerprint of what is there tells its number, its size and its     *)
(* time.                                                                   *)
LEMMA Prints ==
  ASSUME TreeOK, NEW i \in 1..Len(node)
  PROVE  /\ O!Fingerprint(i) \in O!Fingerprints /\ O!Fingerprint(i) # None
         /\ O!Fingerprint(i).node = i /\ O!Fingerprint(i).bytes = Len(node[i].data) /\ O!Fingerprint(i).changed = node[i].changed
<1>1. O!Fingerprint(i) = [node |-> i, bytes |-> Len(node[i].data), changed |-> node[i].changed]
  BY NodesAre DEF O!Fingerprint
<1>2. O!Fingerprint(i) \in O!Fingerprints
  BY <1>1, NodesAre DEF O!Fingerprints
<1> QED
  BY <1>1, <1>2, ConstantsAre

LEMMA NoPrint == O!Fingerprint(0) = None
BY DEF O!Fingerprint

(* A name in a directory leads to a node of the tree or to nothing.        *)
LEMMA ChildIs ==
  ASSUME TreeOK, NEW i \in 0..Len(node), NEW n \in FileNames
  PROVE  O!Child(i, n) \in 0..Len(node) /\ O!Child(i, n) = Child(node, i, n)
<1>1. CASE i = 0
  <2>1. Len(node) \in Nat
    BY DEF TreeOK, O!Tree
  <2> QED
    BY <1>1, <2>1 DEF O!Child, Child
<1>2. CASE i # 0
  <2>1. i \in 1..Len(node)
    BY <1>2
  <2>2. node[i].names[n] \in 0..Len(node) /\ Len(node) \in Nat
    BY <2>1, NodesAre
  <2> QED
    BY <2>2 DEF O!Child, Child
<1> QED
  BY <1>1, <1>2

LEMMA TopIs == O!Top = Top
BY DEF O!Top, O!Last, Top

(* An open directory is one, at a path as long as it lies deep.            *)
LEMMA FramesAre ==
  ASSUME FramesOK, NEW k \in 1..Len(frames)
  PROVE  /\ Len(frames) \in Nat /\ DOMAIN frames = 1..Len(frames) /\ k \in Nat /\ frames[k] \in Frames
         /\ frames[k].dir \in 1..Len(node) /\ node[frames[k].dir].kind = "dir"
         /\ frames[k].path \in Seq(FileNames) /\ frames[k].path \in Seq(FileNames \ Unsafe) /\ Len(frames[k].path) = k - 1
         /\ frames[k].path \in Everywhere
         /\ frames[k].todo \subseteq FileNames /\ frames[k].name \in Nat /\ frames[k].before \in O!Fingerprints
<1>1. Len(frames) \in Nat /\ DOMAIN frames = 1..Len(frames) /\ k \in Nat /\ frames[k] \in Frames
  BY DEF FramesOK
<1>2. /\ frames[k].path \in Seq(FileNames \ Unsafe) /\ frames[k].todo \subseteq FileNames /\ frames[k].name \in Nat
      /\ frames[k].before \in O!Fingerprints
  BY <1>1 DEF Frames
<1>3. frames[k].path \in Seq(FileNames)
  BY <1>2
<1>4. frames[k].dir \in 1..Len(node) /\ node[frames[k].dir].kind = "dir" /\ Len(frames[k].path) = k - 1
  BY DEF FramesOK
<1>5. Len(frames) <= MaxDepth + 1
  BY DEF FramesOK
<1>6. frames[k].path \in Everywhere
  BY <1>1, <1>3, <1>4, <1>5, EverywhereAre, ConstantsAre
<1> QED
  BY <1>1, <1>2, <1>3, <1>4, <1>6

(* Its path is that of the directory around it and one name.               *)
LEMMA FramesNest ==
  ASSUME FramesOK, NEW k \in 2..Len(frames)
  PROVE  /\ frames[k - 1].name \in FileNames /\ frames[k].path = Append(frames[k - 1].path, frames[k - 1].name)
         /\ frames[k].path \in O!Inspected
<1>1. k \in 1..Len(frames) /\ k - 1 \in 1..Len(frames)
  OBVIOUS
<1>2. /\ frames[k].path \in Seq(FileNames) /\ Len(frames[k].path) = k - 1
      /\ frames[k - 1].path \in Seq(FileNames) /\ Len(frames[k - 1].path) = k - 2 /\ frames[k].path \in Everywhere
  BY <1>1, FramesAre
<1>3. /\ \A j \in 1..(k - 1) : frames[k].path[j] = frames[j].name
      /\ \A j \in 1..(k - 2) : frames[k - 1].path[j] = frames[j].name
  <2>1. \A m \in 1..Len(frames) : \A j \in 1..(m - 1) : frames[m].path[j] = frames[j].name
    BY DEF FramesOK
  <2>2. \A j \in 1..((k - 1) - 1) : frames[k - 1].path[j] = frames[j].name
    BY <1>1, <2>1
  <2> QED
    BY <1>1, <2>1, <2>2
<1>4. frames[k - 1].name \in FileNames
  BY <1>2, <1>3
<1>5. /\ Len(Append(frames[k - 1].path, frames[k - 1].name)) = k - 1
      /\ Append(frames[k - 1].path, frames[k - 1].name) \in Seq(FileNames)
      /\ \A j \in 1..(k - 1) : Append(frames[k - 1].path, frames[k - 1].name)[j] = frames[j].name
  BY <1>2, <1>3, <1>4
<1>6. frames[k].path = Append(frames[k - 1].path, frames[k - 1].name)
  BY <1>2, <1>3, <1>5
<1>7. frames[k].path \in O!Inspected
  BY <1>2, InspectedAre, EverywhereAre
<1> QED
  BY <1>4, <1>6, <1>7

LEMMA FirstIsRoot == FramesOK /\ frames # << >> => 1 \in 1..Len(frames) /\ Len(frames) \in 1..Len(frames) /\ frames[1].path = O!Root
<1> SUFFICES ASSUME FramesOK, frames # << >> PROVE 1 \in 1..Len(frames) /\ Len(frames) \in 1..Len(frames) /\ frames[1].path = O!Root
  OBVIOUS
<1>1. 1 \in 1..Len(frames) /\ Len(frames) \in 1..Len(frames)
  BY DEF FramesOK
<1>2. frames[1].path \in Seq(FileNames) /\ Len(frames[1].path) = 0
  BY <1>1, FramesAre
<1> QED
  BY <1>1, <1>2 DEF O!Root

-----------------------------------------------------------------------------
(* As long as the open directories are still where they were opened, their *)
(* paths lead to them.                                                     *)
LEMMA AttachedAt ==
  ASSUME TreeOK, FramesOK, Attached
  PROVE  \A k \in 1..Len(frames) : O!At(frames[k].path) = frames[k].dir
<1> DEFINE T == {k \in 1..Len(frames) : O!At(frames[k].path) # frames[k].dir}
<1>1. SUFFICES ASSUME T # {} PROVE FALSE
  OBVIOUS
<1>2. T \in SUBSET Nat
  OBVIOUS
<1>3. PICK k \in T : \A j \in T : k <= j
  <2> HIDE DEF T
  <2> QED
    BY <1>1, <1>2, Least
<1>4. k \in 1..Len(frames) /\ frames # << >>
  BY DEF FramesOK
<1>5. CASE k = 1
  <2>1. frames[1].dir = root
    BY <1>4, <1>5 DEF Attached
  <2>2. O!At(frames[1].path) = root
    BY <1>4, FirstIsRoot, AtRoot, AtNow, EverywhereAre
  <2> QED
    BY <1>3, <1>5, <2>1, <2>2
<1>6. CASE k # 1
  <2>1. k - 1 \in 1..Len(frames) /\ k - 1 \notin T /\ k \in 2..Len(frames)
    BY <1>3, <1>4, <1>6
  <2>2. O!At(frames[k - 1].path) = frames[k - 1].dir
    BY <2>1
  <2>3. frames[k].dir = Child(node, frames[k - 1].dir, frames[k - 1].name)
    BY <1>4, <1>6 DEF Attached
  <2>4. frames[k - 1].name \in FileNames /\ frames[k].path = Append(frames[k - 1].path, frames[k - 1].name)
    BY <2>1, FramesNest
  <2>5. frames[k - 1].path \in Seq(FileNames) /\ frames[k - 1].dir \in 0..Len(node)
    BY <2>1, FramesAre
  <2>6. O!At(frames[k].path) = Child(node, O!At(frames[k - 1].path), frames[k - 1].name)
    BY <2>4, <2>5, AtAppend, AtNow
  <2>7. O!At(frames[k].path) = frames[k].dir
    BY <2>2, <2>3, <2>6
  <2> QED
    BY <1>3, <2>7
<1> QED
  BY <1>5, <1>6

(* Where there is nothing, nothing lies below.                             *)
LEMMA NothingBelow ==
  ASSUME TreeOK, NEW q \in Seq(FileNames), NEW p \in O!Inspected, Below(q, p), Child(node, O!At(q), p[Len(q) + 1]) = 0
  PROVE  None \in held[p]
<1>1. p \in Seq(FileNames) /\ Len(p) \in Nat /\ Len(q) \in Nat /\ Len(q) < Len(p)
  BY InspectedAre DEF Below
<1> DEFINE Upto(k) == Prefix(p, k)
           T == {k \in (Len(q) + 1)..Len(p) : O!At(Upto(k)) # 0}
<1>2. \A k \in 1..Len(p) : O!At(Upto(k)) = Child(node, O!At(Upto(k - 1)), p[k])
  <2> SUFFICES ASSUME NEW k \in 1..Len(p) PROVE O!At(Upto(k)) = Child(node, O!At(Upto(k - 1)), p[k])
    OBVIOUS
  <2>1. k - 1 \in 0..Len(p)
    BY <1>1
  <2>2. p[k] \in FileNames /\ Upto(k) = Append(Upto(k - 1), p[k]) /\ Upto(k - 1) \in Seq(FileNames)
    BY <1>1, <2>1, Prefixes
  <2> HIDE DEF Upto
  <2>3. At(node, root, Append(Upto(k - 1), p[k])) = Child(node, At(node, root, Upto(k - 1)), p[k])
    BY <2>2, AtAppend
  <2> QED
    BY <2>2, <2>3, AtNow
<1>3. Upto(Len(q)) = q
  <2>1. Len(q) \in 0..Len(p)
    BY <1>1
  <2>2. Upto(Len(q)) \in Seq(FileNames) /\ Len(Upto(Len(q))) = Len(q) /\ \A i \in 1..Len(q) : Upto(Len(q))[i] = p[i]
    BY <1>1, <2>1, Prefixes
  <2>3. \A i \in 1..Len(q) : p[i] = q[i]
    BY DEF Below
  <2> HIDE DEF Upto
  <2> QED
    BY <1>1, <2>2, <2>3
<1>4. T = {}
  <2>1. SUFFICES ASSUME T # {} PROVE FALSE
    OBVIOUS
  <2>2. T \in SUBSET Nat
    BY <1>1
  <2>3. PICK k \in T : \A j \in T : k <= j
    <3> HIDE DEF T
    <3> QED
      BY <2>1, <2>2, Least
  <2> HIDE DEF Upto
  <2>4. k \in (Len(q) + 1)..Len(p) /\ k \in 1..Len(p)
    BY <1>1
  <2>5. CASE k = Len(q) + 1
    <3>1. O!At(Upto(k)) = Child(node, O!At(Upto(k - 1)), p[k]) /\ k - 1 = Len(q)
      BY <1>1, <1>2, <2>4, <2>5
    <3> QED
      BY <1>3, <2>3, <2>5, <3>1
  <2>6. CASE k # Len(q) + 1
    <3>1. k - 1 \in (Len(q) + 1)..Len(p) /\ k - 1 \notin T
      BY <1>1, <2>3, <2>4, <2>6
    <3>2. O!At(Upto(k - 1)) = 0
      BY <3>1
    <3>3. O!At(Upto(k)) = 0
      BY <1>2, <2>4, <3>2 DEF Child
    <3> QED
      BY <2>3, <3>3
  <2> QED
    BY <2>5, <2>6
<1>5. Upto(Len(p)) = p
  BY <1>1, Prefixes
<1>6. O!At(p) = 0
  <2> HIDE DEF Upto
  <2>1. Len(p) \in (Len(q) + 1)..Len(p) /\ Len(p) \notin T
    BY <1>1, <1>4
  <2> QED
    BY <1>5, <2>1
<1>7. O!ShownAt(p) = None
  BY <1>6 DEF O!ShownAt, O!Shown
<1>8. p \in Everywhere
  BY DEF Everywhere
<1> QED
  BY <1>7, <1>8 DEF TreeOK

(* What a path leads to, and what is not there, may be said of it.         *)
LEMMA DirSeen ==
  ASSUME TreeOK, NEW q \in Everywhere, NEW d \in 1..Len(node), node[d].kind = "dir", O!At(q) = d,
         NEW es, Children(es, q) = Present(node, d), q = O!Root \/ es[q].kind = "dir"
  PROVE  Claim(es, held, q)
<1>1. d # 0 /\ node[d].data = << >>
  BY NodesAre
<1>2. O!ShownAt(q) = [kind |-> "dir", data |-> << >>, names |-> O!Present(d)]
  BY <1>1 DEF O!ShownAt, O!Shown
<1>3. Seen(es, q) \in held[q]
  BY <1>2 DEF Seen, TreeOK, Present, O!Present
<1>4. ASSUME NEW p \in O!Inspected, Below(q, p), p[Len(q) + 1] \notin Children(es, q) PROVE None \in held[p]
  <2>1. p \in Seq(FileNames) /\ q \in Seq(FileNames)
    BY InspectedAre, EverywhereAre
  <2>2. Len(q) + 1 \in 1..Len(p)
    BY <1>4, <2>1 DEF Below
  <2>3. p[Len(q) + 1] \in FileNames
    BY <2>1, <2>2
  <2>4. node[d].names[p[Len(q) + 1]] = 0
    BY <1>4, <2>3 DEF Present
  <2>5. Child(node, O!At(q), p[Len(q) + 1]) = 0
    BY <2>4 DEF Child
  <2> QED
    BY <1>4, <2>1, <2>5, NothingBelow
<1> QED
  BY <1>3, <1>4 DEF Claim

(* A file that is there with the bytes that were hashed.                   *)
LEMMA FileSeen ==
  ASSUME TreeOK, NEW q \in O!Inspected, NEW h \in 1..Len(node), node[h].kind = "file", O!At(q) = h,
         NEW es, es[q].kind = "file", es[q].sha256 = node[h].data
  PROVE  Claim(es, held, q)
<1>1. h # 0 /\ q # O!Root /\ q \in Everywhere /\ q \in Seq(FileNames)
  BY NodesAre, EverywhereAre, InspectedAre DEF Everywhere
<1>2. O!Present(h) = {}
  BY NodesAre DEF O!Present
<1>3. O!ShownAt(q) = [kind |-> "file", data |-> node[h].data, names |-> {}]
  BY <1>1, <1>2 DEF O!ShownAt, O!Shown
<1>4. Seen(es, q) \in held[q]
  BY <1>1, <1>3 DEF Seen, TreeOK
<1>5. ASSUME NEW p \in O!Inspected, Below(q, p) PROVE None \in held[p]
  <2>1. Child(node, O!At(q), p[Len(q) + 1]) = 0
    BY DEF Child
  <2> QED
    BY <1>1, <1>5, <2>1, NothingBelow
<1> QED
  BY <1>4, <1>5 DEF Claim

-----------------------------------------------------------------------------
(* A step of the scan leaves the tree alone.                               *)
Quiet ==
  /\ node' = node /\ root' = root /\ now' = now /\ hidden' = hidden /\ job' = job /\ late' = late
  /\ baseline' = baseline /\ held' = held /\ heldThen' = heldThen

(* Nothing is lost of the tree and of what was at its paths.               *)
LEMMA TreeStays ==
  ASSUME TreeOK, node' = node, root' = root, now' = now, hidden' = hidden, held' \in {held, O!HeldNow}, heldThen' \in {heldThen, held}
  PROVE  TreeOK'
<1>1. \A p : O!ShownAt(p)' = O!ShownAt(p)
  BY DEF O!ShownAt, O!Shown, O!Present, O!At, O!FoldLeft, O!MapThenFoldSet, O!Child
<1>2. /\ O!Tree(node') /\ root' \in 1..Len(node') /\ node'[root'].kind = "dir"
      /\ now' \in Nat /\ hidden' \in BOOLEAN /\ \A i \in 1..Len(node') : node'[i].changed <= now'
  BY DEF TreeOK
<1>3. DOMAIN held' = Everywhere /\ DOMAIN heldThen' = Everywhere
  <2>1. DOMAIN O!HeldNow = Everywhere
    BY DEF O!HeldNow, Everywhere
  <2> QED
    BY <2>1 DEF TreeOK
<1>4. \A p \in Everywhere : O!ShownAt(p) \in held'[p]
  <2>1. \A p \in Everywhere : O!ShownAt(p) \in O!HeldNow[p]
    BY DEF O!HeldNow, Everywhere
  <2> QED
    BY <2>1 DEF TreeOK
<1> QED
  BY <1>1, <1>2, <1>3, <1>4 DEF TreeOK

(* Nor of the baseline.                                                    *)
LEMMA BaselineStays ==
  ASSUME BaselineOK, job' = job, hidden => hidden', baseline' = baseline, heldThen' = heldThen
  PROVE  BaselineOK'
BY DEF BaselineOK

-----------------------------------------------------------------------------
(* The open directories are the same, but for what is listed of the        *)
(* innermost.                                                              *)
SamePlaces(fs, gs) ==
  /\ gs \in Seq(Frames) /\ Len(gs) = Len(fs)
  /\ \A k \in 1..Len(fs) : /\ gs[k].dir = fs[k].dir /\ gs[k].path = fs[k].path /\ gs[k].before = fs[k].before
                           /\ k < Len(fs) => gs[k] = fs[k]
WithTodo(fs, S) == [fs EXCEPT ![Len(fs)].todo = S]
WithPick(fs, S, n) == [fs EXCEPT ![Len(fs)].todo = S, ![Len(fs)].name = n]

LEMMA PlacesSame == \A fs \in Seq(Frames) : SamePlaces(fs, fs)
BY DEF SamePlaces

(* A sequence with one element replaced.                                   *)
LEMMA Replaced ==
  ASSUME NEW S, NEW fs \in Seq(S), NEW n \in 1..Len(fs), NEW t \in S
  PROVE  /\ [fs EXCEPT ![n] = t] \in Seq(S) /\ Len([fs EXCEPT ![n] = t]) = Len(fs) /\ [fs EXCEPT ![n] = t][n] = t
         /\ \A k \in 1..Len(fs) : k # n => [fs EXCEPT ![n] = t][k] = fs[k]
<1> DEFINE gs == [fs EXCEPT ![n] = t]
<1>1. gs \in [1..Len(fs) -> S] /\ Len(fs) \in Nat
  OBVIOUS
<1>2. gs \in Seq(S) /\ Len(gs) = Len(fs)
  BY <1>1
<1> QED
  BY <1>2

(* What the innermost directory has yet to look at is replaced,            *)
LEMMA TodoIs ==
  ASSUME NEW fs \in Seq(Frames), fs # << >>, NEW S \in SUBSET FileNames
  PROVE  /\ SamePlaces(fs, WithTodo(fs, S)) /\ WithTodo(fs, S)[Len(fs)].todo = S
         /\ WithTodo(fs, S)[Len(fs)].name = fs[Len(fs)].name
<1> DEFINE n == Len(fs)
           t == [fs[n] EXCEPT !.todo = S]
           gs == WithTodo(fs, S)
<1>1. n \in Nat /\ n \in 1..n /\ DOMAIN fs = 1..n /\ fs[n] \in Frames
  OBVIOUS
<1>2. /\ t \in Frames /\ t.dir = fs[n].dir /\ t.path = fs[n].path /\ t.before = fs[n].before /\ t.todo = S /\ t.name = fs[n].name
  BY <1>1 DEF Frames
<1>3. gs = [fs EXCEPT ![n] = t]
  BY DEF WithTodo
<1> HIDE DEF t, gs
<1>4. gs \in Seq(Frames) /\ Len(gs) = n /\ gs[n] = t /\ \A k \in 1..n : k < n => gs[k] = fs[k]
  <2>1. /\ [fs EXCEPT ![n] = t] \in Seq(Frames) /\ Len([fs EXCEPT ![n] = t]) = Len(fs) /\ [fs EXCEPT ![n] = t][n] = t
        /\ \A k \in 1..Len(fs) : k # n => [fs EXCEPT ![n] = t][k] = fs[k]
    BY <1>1, <1>2, Replaced
  <2>2. gs \in Seq(Frames) /\ Len(gs) = Len(fs) /\ gs[n] = t /\ \A k \in 1..Len(fs) : k # n => gs[k] = fs[k]
    BY <1>3, <2>1, Zenon
  <2>3. \A k \in 1..Len(fs) : k < Len(fs) => k # Len(fs)
    OBVIOUS
  <2> QED
    BY <2>2, <2>3, Zenon
<1>5. SamePlaces(fs, gs) /\ gs[n].todo = S /\ gs[n].name = fs[n].name
  BY <1>1, <1>2, <1>4 DEF SamePlaces
<1> QED
  BY <1>5 DEF gs

(* and a name is taken.                                                    *)
LEMMA PickIs ==
  ASSUME NEW fs \in Seq(Frames), fs # << >>, NEW S \in SUBSET FileNames, NEW m \in Nat
  PROVE  /\ SamePlaces(fs, WithPick(fs, S, m)) /\ WithPick(fs, S, m)[Len(fs)].todo = S /\ WithPick(fs, S, m)[Len(fs)].name = m
<1> DEFINE n == Len(fs)
           t == [fs[n] EXCEPT !.todo = S, !.name = m]
           gs == WithPick(fs, S, m)
<1>1. n \in Nat /\ n \in 1..n /\ DOMAIN fs = 1..n /\ fs[n] \in Frames
  OBVIOUS
<1>2. /\ t \in Frames /\ t.dir = fs[n].dir /\ t.path = fs[n].path /\ t.before = fs[n].before /\ t.todo = S /\ t.name = m
  BY <1>1 DEF Frames
<1>3. gs = [fs EXCEPT ![n] = t]
  BY <1>1 DEF WithPick
<1> HIDE DEF t, gs
<1>4. gs \in Seq(Frames) /\ Len(gs) = n /\ gs[n] = t /\ \A k \in 1..n : k < n => gs[k] = fs[k]
  <2>1. /\ [fs EXCEPT ![n] = t] \in Seq(Frames) /\ Len([fs EXCEPT ![n] = t]) = Len(fs) /\ [fs EXCEPT ![n] = t][n] = t
        /\ \A k \in 1..Len(fs) : k # n => [fs EXCEPT ![n] = t][k] = fs[k]
    BY <1>1, <1>2, Replaced
  <2>2. gs \in Seq(Frames) /\ Len(gs) = Len(fs) /\ gs[n] = t /\ \A k \in 1..Len(fs) : k # n => gs[k] = fs[k]
    BY <1>3, <2>1, Zenon
  <2>3. \A k \in 1..Len(fs) : k < Len(fs) => k # Len(fs)
    OBVIOUS
  <2> QED
    BY <2>2, <2>3, Zenon
<1>5. SamePlaces(fs, gs) /\ gs[n].todo = S /\ gs[n].name = m
  BY <1>1, <1>2, <1>4 DEF SamePlaces
<1> QED
  BY <1>5 DEF gs

-----------------------------------------------------------------------------
(* Steps that put no entry.                                                *)
LEMMA FramesStay ==
  ASSUME FramesOK, frames # << >>, SamePlaces(frames, frames'), node' = node, job' = job,
         issue' \in BOOLEAN, late' \in BOOLEAN, step' \in Walking, step' \in Looked => Len(frames) > 1,
         step' = "finish" => Len(frames) = 1,
         step' \in Picked => frames'[Len(frames)].name \in FileNames \ Unsafe /\ frames'[Len(frames)].name \notin frames'[Len(frames)].todo
  PROVE  FramesOK'
<1>1. /\ frames' \in Seq(Frames) /\ Len(frames') = Len(frames) /\ Len(frames) \in Nat /\ Len(frames) # 0 /\ Len(frames) <= MaxDepth + 1
      /\ \A k \in 1..Len(frames) : /\ frames'[k].dir = frames[k].dir /\ frames'[k].path = frames[k].path
                                   /\ k < Len(frames) => frames'[k] = frames[k]
  BY DEF SamePlaces, FramesOK
<1>2. job' \in {"capture", "check"} /\ step' \in {"begin", "end", "done"} \union Walking /\ frames' # << >>
  BY <1>1 DEF FramesOK
<1>3. ASSUME NEW k \in 1..Len(frames)
      PROVE  /\ frames'[k].dir \in 1..Len(node') /\ node'[frames'[k].dir].kind = "dir"
             /\ Len(frames'[k].path) = k - 1 /\ \A j \in 1..(k - 1) : frames'[k].path[j] = frames'[j].name
  <2>1. /\ frames[k].dir \in 1..Len(node) /\ node[frames[k].dir].kind = "dir"
        /\ Len(frames[k].path) = k - 1 /\ \A j \in 1..(k - 1) : frames[k].path[j] = frames[j].name
    BY DEF FramesOK
  <2>2. \A j \in 1..(k - 1) : frames'[j] = frames[j]
    BY <1>1
  <2> QED
    BY <1>1, <2>1, <2>2
<1> QED
  BY <1>1, <1>2, <1>3 DEF FramesOK, Top

(* While no entry is put, the entries stay right.                          *)
LEMMA EntriesStay ==
  ASSUME EntriesOK, entries' = entries, Len(frames) \in Nat, SamePlaces(frames, frames'), step' = "binddir" => step = "binddir"
  PROVE  EntriesOK'
<1>1. \A k \in 1..Len(frames) : frames'[k].dir = frames[k].dir /\ frames'[k].path = frames[k].path
  BY DEF SamePlaces
<1>2. Len(frames') = Len(frames)
  BY DEF SamePlaces
<1>3. \A k \in 2..Len(frames) : k \in 1..Len(frames)
  OBVIOUS
<1>4. ASSUME NEW k \in 2..Len(frames')
      PROVE  /\ frames'[k].path \in DOMAIN entries' /\ entries'[frames'[k].path].kind = "dir"
             /\ entries'[frames'[k].path].observation \notin Good /\ entries'[frames'[k].path].read = 0
             /\ k = Len(frames') /\ step' = "binddir" =>
                  entries'[frames'[k].path].after = None \/ entries'[frames'[k].path].after.node = frames'[k].dir
  <2>1. frames'[k].path = frames[k].path /\ frames'[k].dir = frames[k].dir /\ k \in 2..Len(frames)
    BY <1>1, <1>2, <1>3
  <2> QED
    BY <1>2, <2>1 DEF EntriesOK
<1>5. /\ IsFiniteSet(DOMAIN entries') /\ entries' \in [DOMAIN entries' -> Entries] /\ DOMAIN entries' \subseteq O!Inspected
      /\ \A p \in DOMAIN entries' : O!Range(p) \intersect Unsafe = {} /\ EntryOK(entries'[p])
  BY DEF EntriesOK
<1> QED
  BY <1>4, <1>5 DEF EntriesOK, EntryOK

(* The open directories are where they were.                               *)
LEMMA AttachedSame ==
  ASSUME FramesOK, SamePlaces(frames, frames'), node' = node, root' = root
  PROVE  Attached' <=> Attached
<1>1. /\ Len(frames') = Len(frames) /\ Len(frames) \in Nat
      /\ \A k \in 1..Len(frames) : frames'[k].dir = frames[k].dir /\ (k < Len(frames) => frames'[k] = frames[k])
  BY DEF SamePlaces, FramesOK
<1>2. \A k \in 1..Len(frames) : k # 1 => frames'[k - 1] = frames[k - 1]
  BY <1>1
<1> QED
  BY <1>1, <1>2 DEF Attached

(* Their paths are the same.                                               *)
LEMMA OpenSame ==
  ASSUME FramesOK, SamePlaces(frames, frames')
  PROVE  OpenPaths(frames') = OpenPaths(frames)
<1>1. Len(frames') = Len(frames) /\ \A k \in 1..Len(frames) : frames'[k].path = frames[k].path
  BY DEF SamePlaces
<1>2. \A k \in 2..Len(frames) : frames'[k].path = frames[k].path
  BY <1>1
<1> QED
  BY <1>1, <1>2 DEF OpenPaths

(* What is said stays true, if the directory that is done now adds what    *)
(* is true.                                                                *)
LEMMA TruthStays ==
  ASSUME FramesOK, TruthOK, Quiet, frames # << >>, entries' = entries, SamePlaces(frames, frames'), issue => issue',
         step' \in Walking, step' \in Looked \union {"finish"} /\ ~issue' /\ Reliable => Claim(entries, held, Top.path)
  PROVE  TruthOK'
<1>1. Reliable' => Reliable /\ ~issue'
  BY AttachedSame, OpenSame DEF Reliable, Quiet
<1>2. frames'[Len(frames')].path = frames[Len(frames)].path
  <2>1. Len(frames) \in 1..Len(frames) /\ Len(frames') = Len(frames)
    BY FirstIsRoot DEF SamePlaces
  <2> QED
    BY <2>1 DEF SamePlaces
<1>3. ASSUME Reliable', NEW q \in Settled' PROVE Claim(entries', held', q)
  <2>1. CASE q \in DOMAIN entries /\ entries[q].observation \in Good
    <3>1. Claim(entries, held, q)
      BY <1>1, <1>3, <2>1 DEF TruthOK, Settled
    <3> QED
      BY <3>1 DEF Quiet
  <2>2. CASE q = frames[Len(frames)].path /\ step' \in Looked \union {"finish"}
    BY <1>1, <1>3, <2>2 DEF Top, Quiet
  <2>3. step' \notin {"end", "done"}
    BY DEF Walking, Picked, Looked
  <2> QED
    BY <1>2, <1>3, <2>1, <2>2, <2>3 DEF Settled, Top
<1>4. ~hidden' => \A p \in DOMAIN entries' : entries'[p].sha256 # None => entries'[p].sha256 \in O!Data
  BY DEF TruthOK, Quiet
<1> QED
  BY <1>3, <1>4 DEF TruthOK

(* What has to be looked at yet is still ahead.                            *)
LEMMA AheadStays ==
  ASSUME FramesOK, Ahead, frames # << >>, entries' = entries, SamePlaces(frames, frames'), step' \in Walking,
         step \in {"list", "listing"} \/ frames'[Len(frames)].todo \subseteq frames[Len(frames)].todo,
         step' \in {"list", "listing"} => step \in {"list", "listing"},
         step' \in Picked => Unseen(entries, Top.path, frames'[Len(frames)].name)
  PROVE  Ahead'
<1>1. /\ Len(frames') = Len(frames) /\ Len(frames) \in 1..Len(frames)
      /\ \A k \in 1..Len(frames) : frames'[k].path = frames[k].path /\ (k < Len(frames) => frames'[k] = frames[k])
  BY FirstIsRoot DEF SamePlaces
<1>2. step \in {"list", "listing"} => \A n : Unseen(entries, Top.path, n)
  BY DEF Ahead, Unseen
<1>3. ASSUME NEW k \in 1..Len(frames), k < Len(frames) \/ step' \notin {"list", "listing"}, NEW n \in frames'[k].todo
      PROVE  Unseen(entries, frames[k].path, n)
  <2>1. CASE k < Len(frames)
    BY <1>1, <2>1 DEF Ahead
  <2>2. CASE k = Len(frames) /\ step \in {"list", "listing"}
    BY <1>2, <2>2 DEF Top
  <2>3. CASE k = Len(frames) /\ step \notin {"list", "listing"}
    <3>1. n \in frames[k].todo
      BY <2>3
    <3> QED
      BY <2>3, <3>1 DEF Ahead
  <2> QED
    BY <1>1, <2>1, <2>2, <2>3
<1>4. step' # "begin"
  BY DEF Walking, Picked, Looked
<1>5. step' \in {"list", "listing"} => \A p \in DOMAIN entries' : ~Below(frames'[Len(frames')].path, p)
  BY <1>1 DEF Ahead, Top
<1>6. step' \in Picked => Unseen(entries', frames'[Len(frames')].path, frames'[Len(frames')].name)
  BY <1>1 DEF Top
<1>7. \A k \in 1..Len(frames') :
        k < Len(frames') \/ step' \notin {"list", "listing"} => \A n \in frames'[k].todo : Unseen(entries', frames'[k].path, n)
  BY <1>1, <1>3
<1> QED
  BY <1>4, <1>5, <1>6, <1>7 DEF Ahead, Top

(* What is known of an open directory: of those around the innermost one,  *)
(* of the innermost one between two names, and with a name taken.          *)
LEMMA ListingInner ==
  ASSUME NEW fs, NEW es, NEW st, NEW k, k # Len(fs)
  PROVE  Listing(fs, es, st, k) = fs[k].todo \union Children(es, fs[k].path)
BY DEF Listing

LEMMA ListingNamed ==
  ASSUME NEW fs, NEW es, NEW st, NEW k, st \notin Picked \union {"listing"}
  PROVE  Listing(fs, es, st, k) = fs[k].todo \union Children(es, fs[k].path)
BY DEF Listing

LEMMA ListingPicked ==
  ASSUME NEW fs, NEW es, NEW st, st \in Picked
  PROVE  Listing(fs, es, st, Len(fs)) = fs[Len(fs)].todo \union {fs[Len(fs)].name} \union Children(es, fs[Len(fs)].path)
BY DEF Listing, Picked

(* What was listed is still what is there, if it is for the innermost      *)
(* one.                                                                    *)
LEMMA ListingsStay ==
  ASSUME FramesOK, ListingsOK, frames # << >>, Quiet, entries' = entries, SamePlaces(frames, frames'), issue => issue',
         LET d == Top.dir
         IN  ~hidden /\ ~issue' /\ Top.before.changed = node[d].changed /\ step' \notin {"list", "finish"} \union Looked
               => Listing(frames', entries, step', Len(frames)) = Present(node, d)
  PROVE  ListingsOK'
<1>1. /\ Len(frames') = Len(frames) /\ Len(frames) \in 1..Len(frames)
      /\ \A k \in 1..Len(frames) : /\ frames'[k].dir = frames[k].dir /\ frames'[k].path = frames[k].path
                                   /\ frames'[k].before = frames[k].before
                                   /\ k < Len(frames) => frames'[k] = frames[k]
  BY FirstIsRoot DEF SamePlaces
<1>2. ASSUME NEW k \in 1..Len(frames), ~hidden, ~issue', frames[k].before.changed = node[frames[k].dir].changed,
             k < Len(frames) \/ step' \notin {"list", "finish"} \union Looked
      PROVE  Listing(frames', entries, step', k) = Present(node, frames[k].dir)
  <2>1. CASE k < Len(frames)
    <3>1. Listing(frames, entries, step, k) = Present(node, frames[k].dir)
      BY <1>2, <2>1 DEF ListingsOK
    <3>2. frames'[k] = frames[k]
      BY <1>1, <2>1
    <3>3. Listing(frames', entries, step', k) = Listing(frames, entries, step, k)
      <4>1. k # Len(frames) /\ k # Len(frames')
        BY <1>1, <2>1
      <4>2. Listing(frames, entries, step, k) = frames[k].todo \union Children(entries, frames[k].path)
        BY <4>1, ListingInner
      <4>3. Listing(frames', entries, step', k) = frames'[k].todo \union Children(entries, frames'[k].path)
        BY <4>1, ListingInner
      <4> QED
        BY <3>2, <4>2, <4>3
    <3> QED
      BY <3>1, <3>3
  <2>2. CASE k = Len(frames)
    BY <1>2, <2>2 DEF Top
  <2> QED
    BY <1>1, <2>1, <2>2
<1>3. \A k \in 1..Len(frames) : frames[k].before.node = frames[k].dir /\ frames[k].before.changed <= node[frames[k].dir].changed
  BY DEF ListingsOK
<1> QED
  BY <1>1, <1>2, <1>3 DEF ListingsOK, Quiet

-----------------------------------------------------------------------------
(* Steps that put the entry of the name that was taken.                    *)
PutName(n, e) ==
  /\ frames # << >> /\ n \in FileNames \ Unsafe /\ Unseen(entries, Top.path, n)
  /\ e \in Entries /\ EntryOK(e) /\ entries' = With(entries, Append(Top.path, n), e)

LEMMA FromTwo == \A k \in Nat : k \in 1..k /\ k # 1 => k \in 2..k
OBVIOUS

(* The innermost open directory.                                           *)
LEMMA TopAre ==
  ASSUME FramesOK, frames # << >>
  PROVE  /\ Len(frames) \in Nat /\ Len(frames) \in 1..Len(frames) /\ Top = frames[Len(frames)] /\ Top \in Frames
         /\ Top.dir \in 1..Len(node) /\ node[Top.dir].kind = "dir" /\ Top.path \in Seq(FileNames) /\ Len(Top.path) = Len(frames) - 1
         /\ Top.path \in Seq(FileNames \ Unsafe) /\ Top.path \in Everywhere
         /\ Top.todo \subseteq FileNames /\ Top.name \in Nat /\ Top.before \in O!Fingerprints
<1>1. Len(frames) \in 1..Len(frames)
  BY FirstIsRoot
<1> QED
  BY <1>1, FramesAre DEF Top

(* A path that gets an entry is new, lies in the innermost directory and   *)
(* has only safe names.                                                    *)
LEMMA PutPath ==
  ASSUME FramesOK, EntriesOK, NEW n, NEW e, PutName(n, e), NEW q, q = Append(Top.path, n)
  PROVE  /\ q \in O!Inspected /\ O!Range(q) \intersect Unsafe = {} /\ q \notin DOMAIN entries /\ q \notin OpenPaths(frames)
         /\ Len(q) = Len(frames) /\ q[Len(frames)] = n /\ \A k \in 1..(Len(frames) - 1) : q[k] = frames[k].name
<1>1. /\ Len(frames) \in Nat /\ Len(frames) \in 1..Len(frames) /\ Top.path \in Seq(FileNames) /\ Len(Top.path) = Len(frames) - 1
      /\ Top.path \in Seq(FileNames \ Unsafe) /\ Top.path \in Everywhere /\ n \in FileNames \ Unsafe /\ n \in FileNames
  BY TopAre DEF PutName
<1>2. /\ Append(Top.path, n) \in Seq(FileNames) /\ Len(Append(Top.path, n)) = Len(Top.path) + 1
      /\ Append(Top.path, n)[Len(Top.path) + 1] = n
      /\ (\A i \in 1..Len(Top.path) : Append(Top.path, n)[i] = Top.path[i]) /\ Below(Top.path, Append(Top.path, n))
  BY <1>1, Appended
<1>3. q \in Seq(FileNames) /\ Len(q) = Len(frames) /\ q[Len(frames)] = n /\ Below(Top.path, q)
  BY <1>1, <1>2
<1>4. Len(frames) <= MaxDepth + 1
  BY DEF FramesOK
<1>5. q \in O!Inspected
  <2>1. Len(q) \in 1..(MaxDepth + 1)
    BY <1>1, <1>3, <1>4, ConstantsAre
  <2> QED
    BY <1>3, <2>1, InspectedAre
<1>6. O!Range(q) \intersect Unsafe = {}
  <2>1. q \in Seq(FileNames \ Unsafe)
    BY <1>1
  <2>2. \A i \in DOMAIN q : q[i] \in FileNames \ Unsafe
    BY <2>1
  <2> QED
    BY <2>2 DEF O!Range
<1>7. q \notin DOMAIN entries
  <2>1. q[Len(Top.path) + 1] = n
    BY <1>2
  <2>2. Unseen(entries, Top.path, n)
    BY DEF PutName
  <2> QED
    BY <1>3, <2>1, <2>2 DEF Unseen
<1>8. \A k \in 1..(Len(frames) - 1) : q[k] = frames[k].name
  <2>1. \A k \in 1..(Len(frames) - 1) : Top.path[k] = frames[k].name
    BY <1>1 DEF FramesOK, Top
  <2> QED
    BY <1>1, <1>2, <2>1
<1>9. OpenPaths(frames) \subseteq DOMAIN entries
  BY DEF OpenPaths, EntriesOK
<1> QED
  BY <1>3, <1>5, <1>6, <1>7, <1>8, <1>9

(* With it there is one entry more, and what was read of it.               *)
LEMMA PutEntries ==
  ASSUME FramesOK, EntriesOK, NEW n, NEW e, PutName(n, e), NEW q, q = Append(Top.path, n)
  PROVE  /\ DOMAIN entries' = DOMAIN entries \union {q} /\ entries'[q] = e /\ \A p \in DOMAIN entries : entries'[p] = entries[p]
         /\ IsFiniteSet(DOMAIN entries') /\ entries' \in [DOMAIN entries' -> Entries] /\ DOMAIN entries' \subseteq O!Inspected
         /\ \A p \in DOMAIN entries' : O!Range(p) \intersect Unsafe = {} /\ EntryOK(entries'[p])
         /\ Cardinality(DOMAIN entries') = Cardinality(DOMAIN entries) + 1 /\ Cardinality(DOMAIN entries) \in Nat
         /\ Reads(entries) \in Nat /\ Reads(entries') = Reads(entries) + e.read /\ e.read \in Nat
<1>1. q \in O!Inspected /\ O!Range(q) \intersect Unsafe = {} /\ q \notin DOMAIN entries
  BY PutPath
<1>2. e \in Entries /\ EntryOK(e) /\ entries' = With(entries, q, e)
  BY DEF PutName
<1>3. IsFiniteSet(DOMAIN entries) /\ entries \in [DOMAIN entries -> Entries] /\ DOMAIN entries \subseteq O!Inspected
  BY DEF EntriesOK
<1>4. DOMAIN entries' = DOMAIN entries \union {q} /\ entries'[q] = e /\ \A p \in DOMAIN entries : entries'[p] = entries[p]
  BY <1>1, <1>2 DEF With
<1>5. IsFiniteSet(DOMAIN entries') /\ entries' \in [DOMAIN entries' -> Entries]
  <2>1. IsFiniteSet(DOMAIN entries')
    <3>1. IsFiniteSet(DOMAIN entries \union {q})
      BY <1>3, FS_AddElement
    <3> QED
      BY <1>4, <3>1
  <2>2. entries' = [p \in DOMAIN entries' |-> entries'[p]]
    BY <1>2 DEF With
  <2>3. \A p \in DOMAIN entries' : entries'[p] \in Entries
    BY <1>2, <1>3, <1>4
  <2> QED
    BY <2>1, <2>2, <2>3
<1>6. DOMAIN entries' \subseteq O!Inspected
  BY <1>1, <1>3, <1>4
<1>7. ASSUME NEW p \in DOMAIN entries' PROVE O!Range(p) \intersect Unsafe = {} /\ EntryOK(entries'[p])
  <2>1. CASE p = q
    BY <1>1, <1>2, <1>4, <2>1
  <2>2. CASE p # q
    <3>1. p \in DOMAIN entries /\ entries'[p] = entries[p]
      BY <1>4, <2>2
    <3>2. O!Range(p) \intersect Unsafe = {} /\ EntryOK(entries[p])
      BY <3>1 DEF EntriesOK
    <3> QED
      BY <3>1, <3>2
  <2> QED
    BY <2>1, <2>2
<1>8. Cardinality(DOMAIN entries') = Cardinality(DOMAIN entries) + 1 /\ Cardinality(DOMAIN entries) \in Nat
  BY <1>1, <1>3, <1>4, FS_AddElement, FS_CardinalityType
<1>9. Reads(entries) \in Nat /\ Reads(With(entries, q, e)) = Reads(entries) + e.read
  BY <1>1, <1>2, <1>3, ReadsMore
<1>10. e.read \in Nat
  BY <1>2 DEF Entries
<1> QED
  BY <1>2, <1>4, <1>5, <1>6, <1>7, <1>8, <1>9, <1>10

(* No directory but the innermost has the name that was taken in its list. *)
LEMMA PutAhead ==
  ASSUME FramesOK, EntriesOK, Ahead, NEW n, NEW e, PutName(n, e)
  PROVE  /\ \A k \in 1..(Len(frames) - 1) : \A m \in frames[k].todo : Unseen(entries', frames[k].path, m)
         /\ step \notin {"list", "listing"} => \A m \in Top.todo \ {n} : Unseen(entries', Top.path, m)
<1> DEFINE N == Len(frames)
<1>1. /\ N \in Nat /\ N \in 1..N /\ Top = frames[N] /\ Len(Top.path) = N - 1 /\ frames # << >>
  BY TopAre DEF PutName
<1>2. PICK q : q = Append(Top.path, n)
  OBVIOUS
<1>3. DOMAIN entries' = DOMAIN entries \union {q}
  BY <1>2, PutEntries
<1>4. Len(q) = N /\ q[N] = n /\ \A k \in 1..(N - 1) : q[k] = frames[k].name
  BY <1>2, PutPath
<1> HIDE DEF N
<1>5. ASSUME NEW k \in 1..(N - 1), NEW m \in frames[k].todo PROVE Unseen(entries', frames[k].path, m)
  <2>1. k \in 1..N /\ k + 1 \in 2..N /\ k < N /\ (k + 1) - 1 = k /\ k \in 1..((k + 1) - 1)
    BY <1>1
  <2>2. Unseen(entries, frames[k].path, m)
    BY <2>1 DEF Ahead, N
  <2>3. Len(frames[k].path) + 1 = k
    BY <2>1, FramesAre DEF N
  <2>4. frames[k].name # m
    <3>1. frames[k + 1].path \in DOMAIN entries
      BY <2>1 DEF EntriesOK, N
    <3>2. frames[k].name \in FileNames /\ frames[k + 1].path = Append(frames[k].path, frames[k].name)
      BY <2>1, FramesNest DEF N
    <3>3. frames[k].path \in Seq(FileNames)
      BY <2>1, FramesAre DEF N
    <3>4. /\ Below(frames[k].path, Append(frames[k].path, frames[k].name))
          /\ Append(frames[k].path, frames[k].name)[Len(frames[k].path) + 1] = frames[k].name
      BY <3>2, <3>3, Appended
    <3>5. ~(Below(frames[k].path, frames[k + 1].path) /\ frames[k + 1].path[Len(frames[k].path) + 1] = m)
      BY <2>2, <3>1 DEF Unseen
    <3> QED
      BY <3>2, <3>4, <3>5
  <2>5. q[Len(frames[k].path) + 1] # m
    BY <1>4, <2>3, <2>4
  <2> QED
    BY <1>3, <2>2, <2>5 DEF Unseen
<1>6. ASSUME step \notin {"list", "listing"}, NEW m \in Top.todo \ {n} PROVE Unseen(entries', Top.path, m)
  <2>1. Unseen(entries, Top.path, m)
    BY <1>1, <1>6 DEF Ahead, N
  <2>2. Len(Top.path) + 1 = N
    BY <1>1
  <2>3. q[Len(Top.path) + 1] # m
    BY <1>4, <1>6, <2>2
  <2> QED
    BY <1>3, <2>1, <2>3 DEF Unseen
<1> QED
  BY <1>5, <1>6 DEF N

(* What the children of the open directories are.                          *)
LEMMA PutChildren ==
  ASSUME FramesOK, NEW n, NEW e, PutName(n, e)
  PROVE  /\ Children(entries', Top.path) = Children(entries, Top.path) \union {n}
         /\ \A p \in Seq(FileNames) : p # Top.path => Children(entries', p) = Children(entries, p)
         /\ \A k \in 1..(Len(frames) - 1) : Children(entries', frames[k].path) = Children(entries, frames[k].path)
<1>1. Top.path \in Seq(FileNames) /\ n \in FileNames /\ Len(frames) \in Nat /\ Len(Top.path) = Len(frames) - 1
  BY TopAre DEF PutName
<1>2. /\ Children(With(entries, Append(Top.path, n), e), Top.path) = Children(entries, Top.path) \union {n}
      /\ \A r \in Seq(FileNames) : r # Top.path => Children(With(entries, Append(Top.path, n), e), r) = Children(entries, r)
  <2>1. PICK t : t = Top.path
    OBVIOUS
  <2>2. t \in Seq(FileNames)
    BY <1>1, <2>1
  <2>3. /\ Children(With(entries, Append(t, n), e), t) = Children(entries, t) \union {n}
        /\ \A r \in Seq(FileNames) : r # t => Children(With(entries, Append(t, n), e), r) = Children(entries, r)
    BY <1>1, <2>2, ChildrenWith
  <2> QED
    BY <2>1, <2>3
<1>3. entries' = With(entries, Append(Top.path, n), e)
  BY DEF PutName
<1>4. \A k \in 1..(Len(frames) - 1) : frames[k].path \in Seq(FileNames) /\ frames[k].path # Top.path
  <2> SUFFICES ASSUME NEW k \in 1..(Len(frames) - 1) PROVE frames[k].path \in Seq(FileNames) /\ frames[k].path # Top.path
    OBVIOUS
  <2>1. k \in 1..Len(frames)
    BY <1>1
  <2>2. frames[k].path \in Seq(FileNames) /\ Len(frames[k].path) = k - 1
    BY <2>1, FramesAre
  <2> QED
    BY <1>1, <2>2
<1>5. /\ Children(entries', Top.path) = Children(entries, Top.path) \union {n}
      /\ \A p \in Seq(FileNames) : p # Top.path => Children(entries', p) = Children(entries, p)
  BY <1>2, <1>3
<1> QED
  BY <1>4, <1>5

(* The directory whose name was taken has no final entry yet, and what is  *)
(* said of the others stands.                                              *)
LEMMA PutClaims ==
  ASSUME FramesOK, EntriesOK, NEW n, NEW e, PutName(n, e), held' = held,
         NEW p \in DOMAIN entries, entries[p].observation \in Good, Claim(entries, held, p)
  PROVE  Claim(entries', held', p)
<1>1. p \in O!Inspected /\ p \in Seq(FileNames) /\ p \in Everywhere /\ p # O!Root
  BY InspectedAre, EverywhereAre DEF EntriesOK, Everywhere
<1>2. p # Top.path
  <2>1. CASE Len(frames) = 1
    <3>1. Top.path = O!Root
      BY <2>1, FirstIsRoot DEF Top, PutName
    <3> QED
      BY <1>1, <3>1
  <2>2. CASE Len(frames) # 1
    <3>1. Len(frames) \in 2..Len(frames)
      <4>1. Len(frames) \in 1..Len(frames) /\ Len(frames) \in Nat
        BY TopAre DEF PutName
      <4> QED
        BY <2>2, <4>1, FromTwo, Zenon
    <3>2. entries[Top.path].observation \notin Good
      BY <3>1 DEF EntriesOK, Top
    <3> QED
      BY <3>2
  <2> QED
    BY <2>1, <2>2
<1>3. Children(entries', p) = Children(entries, p)
  BY <1>1, <1>2, PutChildren
<1>4. PICK q : q = Append(Top.path, n)
  OBVIOUS
<1>5. entries'[p] = entries[p]
  BY <1>4, PutEntries
<1> QED
  BY <1>1, <1>3, <1>5, ClaimKept

-----------------------------------------------------------------------------
(* A step that puts the entry of the name that was taken and goes on to    *)
(* the next name.                                                          *)
LEMMA PutKeeps ==
  ASSUME OrbitInv, Quiet, step \in {"name"} \union Picked, NEW n, NEW e, PutName(n, e),
         step = "name" => n \in Top.todo, step \in Picked => n = Top.name,
         SamePlaces(frames, frames'), frames'[Len(frames)].todo = Top.todo \ {n}, step' = "name", issue' = issue,
         Cardinality(DOMAIN entries) < MaxEntries, bytes' = Reads(entries) + e.read, bytes' <= MaxTotal,
         ~hidden /\ e.sha256 # None => e.sha256 \in O!Data,
         ~hidden /\ Attached /\ e.observation \in Good => Claim(entries', held, Append(Top.path, n))
  PROVE  OrbitInv'
<1> DEFINE N == Len(frames)
<1>0. TreeOK /\ FramesOK /\ Ahead /\ EntriesOK /\ BudgetOK /\ ListingsOK /\ TruthOK /\ BaselineOK
  BY DEF OrbitInv
<1>1. /\ N \in Nat /\ N \in 1..N /\ Top = frames[N] /\ frames # << >> /\ Len(Top.path) = N - 1 /\ Top.path \in Seq(FileNames)
      /\ Top.todo \subseteq FileNames
  BY <1>0, TopAre DEF PutName
<1>2. PICK q : q = Append(Top.path, n)
  OBVIOUS
<1>3. /\ DOMAIN entries' = DOMAIN entries \union {q} /\ entries'[q] = e /\ (\A p \in DOMAIN entries : entries'[p] = entries[p])
      /\ IsFiniteSet(DOMAIN entries') /\ entries' \in [DOMAIN entries' -> Entries] /\ DOMAIN entries' \subseteq O!Inspected
      /\ \A p \in DOMAIN entries' : O!Range(p) \intersect Unsafe = {} /\ EntryOK(entries'[p])
  <2>1. DOMAIN entries' = DOMAIN entries \union {q} /\ entries'[q] = e /\ \A p \in DOMAIN entries : entries'[p] = entries[p]
    <3>1. q \notin DOMAIN entries
      BY <1>0, <1>2, PutPath
    <3>2. entries' = With(entries, q, e)
      BY <1>2 DEF PutName
    <3> QED
      BY <3>1, <3>2 DEF With
  <2>2. IsFiniteSet(DOMAIN entries') /\ entries' \in [DOMAIN entries' -> Entries] /\ DOMAIN entries' \subseteq O!Inspected
    BY <1>0, <1>2, PutEntries
  <2>3. \A p \in DOMAIN entries' : O!Range(p) \intersect Unsafe = {} /\ EntryOK(entries'[p])
    BY <1>0, <1>2, PutEntries
  <2> QED
    BY <2>1, <2>2, <2>3
<1>4. /\ Cardinality(DOMAIN entries') = Cardinality(DOMAIN entries) + 1 /\ Cardinality(DOMAIN entries) \in Nat
      /\ Reads(entries') = Reads(entries) + e.read /\ Reads(entries) \in Nat /\ e.read \in Nat
  BY <1>0, <1>2, PutEntries
<1>5. q \notin DOMAIN entries /\ q \notin OpenPaths(frames)
  BY <1>0, <1>2, PutPath
<1>6. /\ Len(frames') = N
      /\ \A k \in 1..N : /\ frames'[k].dir = frames[k].dir /\ frames'[k].path = frames[k].path /\ frames'[k].before = frames[k].before
                         /\ k < N => frames'[k] = frames[k]
  BY DEF SamePlaces
<1>7. step' \in Walking /\ step' \notin Looked /\ step' \notin Picked
  BY DEF Walking, Looked, Picked
<1>8. TreeOK'
  BY <1>0, TreeStays DEF Quiet
<1>9. FramesOK'
  BY <1>0, <1>1, <1>7, FramesStay DEF FramesOK, Quiet
<1>10. Ahead'
  <2>1. ASSUME NEW k \in 1..N, NEW m \in frames'[k].todo PROVE Unseen(entries', frames'[k].path, m)
    <3>1. CASE k = N
      <4>1. m \in Top.todo \ {n} /\ step \notin {"list", "listing"}
        BY <3>1 DEF Picked
      <4>2. Unseen(entries', Top.path, m)
        BY <1>0, <4>1, PutAhead
      <4> QED
        BY <1>1, <1>6, <3>1, <4>2
    <3>2. CASE k # N
      <4>1. k \in 1..(N - 1) /\ k < N
        BY <1>1, <3>2
      <4>2. m \in frames[k].todo
        BY <1>6, <4>1
      <4>3. Unseen(entries', frames[k].path, m)
        BY <1>0, <4>1, <4>2, PutAhead
      <4> QED
        BY <1>6, <4>3
    <3> QED
      BY <3>1, <3>2
  <2> QED
    BY <1>6, <1>7, <2>1 DEF Ahead
<1>11. EntriesOK'
  <2>1. ASSUME NEW k \in 2..N
        PROVE  /\ frames'[k].path \in DOMAIN entries' /\ entries'[frames'[k].path].kind = "dir"
               /\ entries'[frames'[k].path].observation \notin Good /\ entries'[frames'[k].path].read = 0
    <3>1. k \in 1..N
      BY <1>1
    <3>2. /\ frames[k].path \in DOMAIN entries /\ entries[frames[k].path].kind = "dir"
          /\ entries[frames[k].path].observation \notin Good /\ entries[frames[k].path].read = 0
      BY <1>0 DEF EntriesOK
    <3> QED
      BY <1>3, <1>6, <3>1, <3>2
  <2> QED
    BY <1>3, <1>6, <2>1 DEF EntriesOK, EntryOK
<1>12. BudgetOK'
  <2>1. Cardinality(DOMAIN entries') <= MaxEntries
    BY <1>4, ConstantsAre
  <2>2. bytes' = Reads(entries') + 0
    BY <1>4
  <2> QED
    BY <1>7, <2>1, <2>2 DEF BudgetOK
<1>13. ReadingOK'
  BY DEF ReadingOK
<1>14. ListingsOK'
  <2>1. ASSUME NEW k \in 1..N, ~hidden, ~issue, frames[k].before.changed = node[frames[k].dir].changed
        PROVE  Listing(frames', entries', "name", k) = Present(node, frames[k].dir)
    <3>1. Listing(frames', entries', "name", k) = frames'[k].todo \union Children(entries', frames[k].path)
      <4>1. "name" \notin Picked \union {"listing"}
        BY DEF Picked
      <4>2. Listing(frames', entries', "name", k) = frames'[k].todo \union Children(entries', frames'[k].path)
        BY <4>1, ListingNamed
      <4> QED
        BY <1>6, <4>2
    <3>2. CASE k = N
      <4>1. Listing(frames, entries, step, N) = Present(node, frames[N].dir)
        BY <1>0, <2>1, <3>2 DEF ListingsOK, Picked, Looked
      <4>2. Children(entries', Top.path) = Children(entries, Top.path) \union {n}
        BY <1>0, PutChildren
      <4>3. Listing(frames', entries', "name", k) = (Top.todo \ {n}) \union Children(entries, Top.path) \union {n}
        BY <1>1, <3>1, <3>2, <4>2
      <4>4. CASE step = "name"
        <5>1. step \notin Picked \union {"listing"}
          BY <4>4 DEF Picked
        <5>2. Listing(frames, entries, step, N) = Top.todo \union Children(entries, Top.path)
          BY <1>1, <5>1, ListingNamed
        <5>3. n \in Top.todo
          BY <4>4
        <5> QED
          BY <1>1, <3>2, <4>1, <4>3, <5>2, <5>3
      <4>5. CASE step \in Picked
        <5>1. Listing(frames, entries, step, N) = Top.todo \union {Top.name} \union Children(entries, Top.path)
          BY <1>1, <4>5, ListingPicked
        <5>2. n = Top.name
          BY <4>5
        <5> QED
          BY <1>1, <3>2, <4>1, <4>3, <5>1, <5>2
      <4> QED
        BY <4>4, <4>5
    <3>3. CASE k # N
      <4>1. k < N /\ k \in 1..(N - 1)
        BY <1>1, <3>3
      <4>2. Listing(frames, entries, step, k) = Present(node, frames[k].dir)
        BY <1>0, <2>1, <4>1 DEF ListingsOK
      <4>3. Listing(frames, entries, step, k) = frames[k].todo \union Children(entries, frames[k].path)
        BY <3>3, ListingInner
      <4>4. Children(entries', frames[k].path) = Children(entries, frames[k].path) /\ frames'[k] = frames[k]
        BY <1>0, <1>6, <4>1, PutChildren
      <4> QED
        BY <3>1, <4>2, <4>3, <4>4
    <3> QED
      BY <3>2, <3>3
  <2>2. \A k \in 1..N : frames[k].before.node = frames[k].dir /\ frames[k].before.changed <= node[frames[k].dir].changed
    BY <1>0 DEF ListingsOK
  <2> QED
    BY <1>6, <2>1, <2>2 DEF ListingsOK, Quiet
<1>15. TruthOK'
  <2>1. ~hidden' => \A p \in DOMAIN entries' : entries'[p].sha256 # None => entries'[p].sha256 \in O!Data
    BY <1>0, <1>3 DEF TruthOK, Quiet
  <2>2. ASSUME Reliable' PROVE Reliable /\ e.observation \in Good
    <3>1. Attached /\ OpenPaths(frames') = OpenPaths(frames)
      BY <1>0, <2>2, AttachedSame, OpenSame DEF Reliable, Quiet
    <3>2. \A p \in DOMAIN entries' : entries'[p].observation \in Good \/ p \in OpenPaths(frames)
      BY <2>2, <3>1 DEF Reliable
    <3>3. e.observation \in Good
      BY <1>3, <1>5, <3>2
    <3>4. \A p \in DOMAIN entries : entries[p].observation \in Good \/ p \in OpenPaths(frames)
      BY <1>3, <3>2
    <3> QED
      BY <2>2, <3>1, <3>3, <3>4 DEF Reliable, Quiet
  <2>3. ASSUME Reliable', NEW p \in Settled' PROVE Claim(entries', held', p)
    <3>1. p \in DOMAIN entries' /\ entries'[p].observation \in Good
      BY <1>7, <2>3 DEF Settled, Looked
    <3>2. CASE p = q
      BY <1>2, <2>2, <2>3, <3>2 DEF Reliable, Quiet
    <3>3. CASE p # q
      <4>1. p \in DOMAIN entries /\ entries[p].observation \in Good
        BY <1>3, <3>1, <3>3
      <4>2. Claim(entries, held, p)
        BY <1>0, <2>2, <2>3, <4>1 DEF TruthOK, Settled
      <4> QED
        BY <1>0, <4>1, <4>2, PutClaims DEF Quiet
    <3> QED
      BY <3>2, <3>3
  <2> QED
    BY <2>1, <2>3 DEF TruthOK
<1>16. BaselineOK'
  BY <1>0, BaselineStays DEF Quiet
<1> QED
  BY <1>8, <1>9, <1>10, <1>11, <1>12, <1>13, <1>14, <1>15, <1>16 DEF OrbitInv

-----------------------------------------------------------------------------
(* A directory is entered.                                                 *)
LEMMA EntryIs ==
  ASSUME NEW kind \in {"file", "dir", "other"}, NEW observation \in Observed \ Good, NEW b \in O!Fingerprints \union {None}
  PROVE  /\ O!Entry(kind, observation) \in Entries /\ EntryOK(O!Entry(kind, observation))
         /\ O!Entry(kind, observation).kind = kind /\ O!Entry(kind, observation).observation = observation
         /\ O!Entry(kind, observation).read = 0 /\ O!Entry(kind, observation).sha256 = None
         /\ [O!Entry(kind, observation) EXCEPT !.before = b] \in Entries /\ EntryOK([O!Entry(kind, observation) EXCEPT !.before = b])
         /\ [O!Entry(kind, observation) EXCEPT !.before = b].kind = kind
         /\ [O!Entry(kind, observation) EXCEPT !.before = b].observation = observation
         /\ [O!Entry(kind, observation) EXCEPT !.before = b].read = 0
         /\ [O!Entry(kind, observation) EXCEPT !.before = b].sha256 = None
         /\ [O!Entry(kind, observation) EXCEPT !.before = b].before = b
<1> DEFINE e == O!Entry(kind, observation)
           f == [kind |-> kind, observation |-> observation, read |-> 0, sha256 |-> None, before |-> b, after |-> None]
<1>1. e = [kind |-> kind, observation |-> observation, read |-> 0, sha256 |-> None, before |-> None, after |-> None]
  BY DEF O!Entry
<1>2. [e EXCEPT !.before = b] = f
  BY <1>1
<1>3. e \in Entries /\ f \in Entries
  BY <1>1 DEF Entries
<1>4. observation # "hashed" /\ observation # "directory"
  BY DEF Good
<1>5. EntryOK(e) /\ EntryOK(f)
  BY <1>1, <1>4, ConstantsAre DEF EntryOK
<1>6. e.kind = kind /\ e.observation = observation /\ e.read = 0 /\ e.sha256 = None
  BY <1>1
<1> HIDE DEF e
<1> QED
  BY <1>2, <1>3, <1>5, <1>6 DEF e

NamedPath(q, n) == q = Append(Top.path, n)
Entered(fs, gs, f) == gs = Append(fs, f)

(* A directory is opened: its entry is put and a frame for it is pushed.   *)
LEMMA EnterKeeps ==
  ASSUME OrbitInv, Quiet, step = "opendir", NEW n, n = Top.name, NEW e, PutName(n, e), NEW q, NamedPath(q, n),
         e.kind = "dir", e.observation \notin Good, e.read = 0, e.sha256 = None,
         NEW c \in 1..Len(node), node[c].kind = "dir", c = Child(node, Top.dir, n),
         NEW f, f = [dir |-> c, path |-> q, before |-> O!Fingerprint(c), todo |-> {}, name |-> 0],
         Entered(frames, frames', f), Len(frames) - 1 < MaxDepth,
         step' = "list", issue' = issue, bytes' = bytes
  PROVE  OrbitInv'
<1> DEFINE N == Len(frames)
<1>0. TreeOK /\ FramesOK /\ Ahead /\ EntriesOK /\ BudgetOK /\ ListingsOK /\ TruthOK /\ BaselineOK
  BY DEF OrbitInv
<1>a. q = Append(Top.path, n)
  BY DEF NamedPath
<1>1. /\ N \in Nat /\ N \in 1..N /\ Top = frames[N] /\ frames # << >> /\ Len(Top.path) = N - 1 /\ Top.path \in Seq(FileNames)
      /\ Top.todo \subseteq FileNames /\ Top.path \in Seq(FileNames \ Unsafe) /\ n \in FileNames \ Unsafe /\ n \in FileNames
  BY <1>0, TopAre DEF PutName
<1>2. DOMAIN entries' = DOMAIN entries \union {q} /\ entries'[q] = e /\ \A p \in DOMAIN entries : entries'[p] = entries[p]
  <2>1. q \notin DOMAIN entries
    BY <1>0, <1>a, PutPath
  <2>2. entries' = With(entries, q, e)
    BY <1>a DEF PutName
  <2> QED
    BY <2>1, <2>2 DEF With
<1>3. /\ IsFiniteSet(DOMAIN entries') /\ entries' \in [DOMAIN entries' -> Entries] /\ DOMAIN entries' \subseteq O!Inspected
      /\ \A p \in DOMAIN entries' : O!Range(p) \intersect Unsafe = {} /\ EntryOK(entries'[p])
  BY <1>0, <1>a, PutEntries
<1>4. /\ Cardinality(DOMAIN entries') = Cardinality(DOMAIN entries) + 1 /\ Cardinality(DOMAIN entries) \in Nat
      /\ Reads(entries') = Reads(entries) + e.read /\ Reads(entries) \in Nat
  BY <1>0, <1>a, PutEntries
<1>5. /\ q \in O!Inspected /\ q \notin DOMAIN entries /\ q \notin OpenPaths(frames) /\ Len(q) = N /\ q[N] = n
      /\ \A k \in 1..(N - 1) : q[k] = frames[k].name
  <2>1. q \in O!Inspected /\ q \notin DOMAIN entries /\ q \notin OpenPaths(frames)
    BY <1>0, <1>a, PutPath
  <2>2. Len(q) = Len(frames) /\ q[Len(frames)] = n
    BY <1>0, <1>a, PutPath
  <2>3. \A k \in 1..(Len(frames) - 1) : q[k] = frames[k].name
    <3>1. \A k \in 1..(Len(frames) - 1) : Top.path[k] = frames[k].name
      BY <1>0, <1>1 DEF FramesOK, Top
    <3>2. \A k \in 1..(Len(frames) - 1) : q[k] = Top.path[k]
      BY <1>1, <1>a
    <3> QED
      BY <3>1, <3>2
  <2> QED
    BY <2>1, <2>2, <2>3
<1>6. q \in Seq(FileNames \ Unsafe) /\ \A i \in 1..Len(Top.path) : q[i] = Top.path[i]
  BY <1>1, <1>a
<1>7. f \in Frames /\ f.dir = c /\ f.path = q /\ f.before = O!Fingerprint(c) /\ f.todo = {}
  <2>1. O!Fingerprint(c) \in O!Fingerprints /\ c \in Nat
    BY <1>0, Prints, NodesAre
  <2> QED
    BY <1>6, <2>1 DEF Frames
<1>8. /\ frames' \in Seq(Frames) /\ Len(frames') = N + 1 /\ frames'[N + 1] = f
      /\ \A k \in 1..N : frames'[k] = frames[k]
  BY <1>0, <1>1, <1>7 DEF FramesOK, Entered
<1>9. Top.todo \ {n} = Top.todo
  BY <1>0 DEF FramesOK, Picked
<1>10. /\ step' \in Walking /\ step' \notin Looked /\ step' \notin Picked /\ step \in Picked /\ step \notin Looked
       /\ step \notin {"list", "listing", "finish", "read", "bind"}
  BY DEF Walking, Looked, Picked
<1>11. TreeOK'
  BY <1>0, TreeStays DEF Quiet
<1>12. FramesOK'
  <2>1. N + 1 <= MaxDepth + 1
    BY <1>1, ConstantsAre
  <2>2. ASSUME NEW k \in 1..(N + 1)
        PROVE  /\ frames'[k].dir \in 1..Len(node) /\ node[frames'[k].dir].kind = "dir"
               /\ Len(frames'[k].path) = k - 1 /\ \A j \in 1..(k - 1) : frames'[k].path[j] = frames'[j].name
    <3>1. CASE k = N + 1
      <4>1. \A j \in 1..N : q[j] = frames[j].name
        <5>1. \A j \in 1..N : j = N \/ j \in 1..(N - 1)
          BY <1>1
        <5>2. q[N] = frames[N].name
          BY <1>1, <1>5
        <5> QED
          BY <1>5, <5>1, <5>2, Zenon
      <4>2. \A j \in 1..N : q[j] = frames'[j].name
        BY <1>8, <4>1
      <4> QED
        BY <1>1, <1>5, <1>7, <1>8, <3>1, <4>2
    <3>2. CASE k # N + 1
      <4>1. k \in 1..N
        BY <1>1, <3>2
      <4>2. /\ frames[k].dir \in 1..Len(node) /\ node[frames[k].dir].kind = "dir"
            /\ Len(frames[k].path) = k - 1 /\ \A j \in 1..(k - 1) : frames[k].path[j] = frames[j].name
        BY <1>0, <4>1 DEF FramesOK
      <4>3. \A j \in 1..(k - 1) : j \in 1..N
        BY <1>1, <4>1
      <4>4. \A j \in 1..(k - 1) : frames'[j] = frames[j]
        BY <1>8, <4>3
      <4> QED
        BY <1>8, <4>1, <4>2, <4>4
    <3> QED
      BY <3>1, <3>2
  <2>3. frames' # << >>
    BY <1>1, <1>8
  <2>4. issue' \in BOOLEAN /\ late' \in BOOLEAN /\ job' \in {"capture", "check"}
    BY <1>0 DEF FramesOK, Quiet
  <2> QED
    BY <1>8, <1>10, <2>1, <2>2, <2>3, <2>4 DEF FramesOK, Quiet
<1>13. Ahead'
  <2>1. ASSUME NEW p \in DOMAIN entries' PROVE ~Below(q, p)
    <3>1. CASE p = q
      BY <1>1, <1>5, <3>1 DEF Below
    <3>2. CASE p # q
      <4>1. p \in DOMAIN entries
        BY <1>2, <3>2
      <4>2. Unseen(entries, Top.path, n)
        BY DEF PutName
      <4>3. ~(Below(Top.path, p) /\ p[N] = n)
        <5>1. Len(Top.path) + 1 = N
          BY <1>1
        <5> QED
          BY <4>1, <4>2, <5>1 DEF Unseen
      <4>4. ASSUME Below(q, p) PROVE Below(Top.path, p) /\ p[N] = n
        <5>1. N < Len(p) /\ \A i \in 1..N : p[i] = q[i]
          BY <1>5, <4>4 DEF Below
        <5>2. \A i \in 1..Len(Top.path) : q[i] = Top.path[i]
          BY <1>6
        <5>3. p \in Seq(FileNames)
          BY <1>0, <4>1, InspectedAre DEF EntriesOK
        <5>4. Len(p) \in Nat
          BY <5>3
        <5>5. Len(Top.path) < Len(p) /\ \A i \in 1..Len(Top.path) : i \in 1..N
          BY <1>1, <5>1, <5>4
        <5>6. \A i \in 1..Len(Top.path) : p[i] = Top.path[i]
          BY <5>1, <5>2, <5>5, Zenon
        <5>7. p[N] = n
          BY <1>1, <1>5, <5>1
        <5> QED
          BY <5>5, <5>6, <5>7 DEF Below
      <4> QED
        BY <4>3, <4>4
    <3> QED
      BY <3>1, <3>2
  <2>2. ASSUME NEW k \in 1..N, NEW m \in frames[k].todo PROVE Unseen(entries', frames[k].path, m)
    <3>1. CASE k = N
      BY <1>0, <1>1, <1>9, <1>10, <3>1, PutAhead
    <3>2. CASE k # N
      <4>1. k \in 1..(N - 1)
        BY <1>1, <3>2
      <4> QED
        BY <1>0, <4>1, PutAhead
    <3> QED
      BY <3>1, <3>2
  <2>3. ASSUME NEW k \in 1..(N + 1), NEW m \in frames'[k].todo PROVE Unseen(entries', frames'[k].path, m)
    <3>1. CASE k = N + 1
      BY <1>7, <1>8, <2>3, <3>1
    <3>2. CASE k # N + 1
      <4>1. k \in 1..N
        BY <1>1, <3>2
      <4> QED
        BY <1>8, <2>2, <2>3, <4>1
    <3> QED
      BY <3>1, <3>2
  <2>4. frames'[Len(frames')].path = q
    BY <1>7, <1>8
  <2> QED
    BY <1>8, <1>10, <2>1, <2>3, <2>4 DEF Ahead, Top
<1>14. EntriesOK'
  <2>1. ASSUME NEW k \in 2..(N + 1)
        PROVE  /\ frames'[k].path \in DOMAIN entries' /\ entries'[frames'[k].path].kind = "dir"
               /\ entries'[frames'[k].path].observation \notin Good /\ entries'[frames'[k].path].read = 0
    <3>1. CASE k = N + 1
      BY <1>2, <1>7, <1>8, <3>1
    <3>2. CASE k # N + 1
      <4>1. k \in 2..N /\ k \in 1..N
        BY <1>1, <3>2
      <4>2. /\ frames[k].path \in DOMAIN entries /\ entries[frames[k].path].kind = "dir"
            /\ entries[frames[k].path].observation \notin Good /\ entries[frames[k].path].read = 0
        BY <1>0, <4>1 DEF EntriesOK
      <4> QED
        BY <1>2, <1>8, <4>1, <4>2
    <3> QED
      BY <3>1, <3>2
  <2> QED
    BY <1>3, <1>8, <2>1 DEF EntriesOK, EntryOK
<1>15. BudgetOK'
  <2>1. Cardinality(DOMAIN entries') <= MaxEntries
    BY <1>0, <1>4, <1>10, ConstantsAre DEF BudgetOK
  <2>2. bytes' = Reads(entries') + 0 /\ bytes' <= MaxTotal
    BY <1>0, <1>4, <1>10 DEF BudgetOK
  <2> QED
    BY <1>10, <2>1, <2>2 DEF BudgetOK
<1>16. ReadingOK'
  BY DEF ReadingOK
<1>17. ListingsOK'
  <2>1. ASSUME NEW k \in 1..N, ~hidden, ~issue, frames[k].before.changed = node[frames[k].dir].changed
        PROVE  Listing(frames', entries', "list", k) = Present(node, frames[k].dir)
    <3>1. Listing(frames', entries', "list", k) = frames[k].todo \union Children(entries', frames[k].path)
      <4>1. "list" \notin Picked \union {"listing"}
        BY DEF Picked
      <4>2. Listing(frames', entries', "list", k) = frames'[k].todo \union Children(entries', frames'[k].path)
        BY <4>1, ListingNamed
      <4> QED
        BY <1>8, <4>2
    <3>2. CASE k = N
      <4>1. Listing(frames, entries, step, N) = Present(node, frames[N].dir)
        BY <1>0, <1>10, <2>1, <3>2 DEF ListingsOK
      <4>2. Children(entries', Top.path) = Children(entries, Top.path) \union {n}
        BY <1>0, PutChildren
      <4>3. Listing(frames, entries, step, N) = Top.todo \union {Top.name} \union Children(entries, Top.path)
        BY <1>1, <1>10, ListingPicked
      <4> QED
        BY <1>1, <3>1, <3>2, <4>1, <4>2, <4>3
    <3>3. CASE k # N
      <4>1. k < N /\ k \in 1..(N - 1)
        BY <1>1, <3>3
      <4>2. Listing(frames, entries, step, k) = Present(node, frames[k].dir)
        BY <1>0, <2>1, <4>1 DEF ListingsOK
      <4>3. Listing(frames, entries, step, k) = frames[k].todo \union Children(entries, frames[k].path)
        BY <3>3, ListingInner
      <4>4. Children(entries', frames[k].path) = Children(entries, frames[k].path)
        BY <1>0, <4>1, PutChildren
      <4> QED
        BY <3>1, <4>2, <4>3, <4>4
    <3> QED
      BY <3>2, <3>3
  <2>2. ASSUME NEW k \in 1..(N + 1)
        PROVE  /\ frames'[k].before.node = frames'[k].dir /\ frames'[k].before.changed <= node[frames'[k].dir].changed
               /\ ~hidden /\ ~issue /\ frames'[k].before.changed = node[frames'[k].dir].changed /\ k < N + 1
                    => Listing(frames', entries', "list", k) = Present(node, frames'[k].dir)
    <3>1. CASE k = N + 1
      <4>1. /\ O!Fingerprint(c).node = c /\ O!Fingerprint(c).changed = node[c].changed /\ node[c].changed \in Nat
        BY <1>0, Prints, NodesAre
      <4> QED
        BY <1>1, <1>7, <1>8, <3>1, <4>1
    <3>2. CASE k # N + 1
      <4>1. k \in 1..N /\ frames'[k] = frames[k]
        BY <1>1, <1>8, <3>2
      <4>2. frames[k].before.node = frames[k].dir /\ frames[k].before.changed <= node[frames[k].dir].changed
        BY <1>0, <4>1 DEF ListingsOK
      <4> QED
        BY <2>1, <4>1, <4>2
    <3> QED
      BY <3>1, <3>2
  <2>3. \A k \in 1..Len(frames') : k < Len(frames') \/ step' \notin {"list", "finish"} \union Looked => k < N + 1
    BY <1>8
  <2>4. node' = node /\ hidden' = hidden /\ issue' = issue /\ step' = "list" /\ Len(frames') = N + 1
    BY <1>8 DEF Quiet
  <2>5. ASSUME NEW k \in 1..Len(frames')
        PROVE  /\ frames'[k].before.node = frames'[k].dir /\ frames'[k].before.changed <= node'[frames'[k].dir].changed
               /\ ~hidden' /\ ~issue' /\ frames'[k].before.changed = node'[frames'[k].dir].changed
                    /\ (k < Len(frames') \/ step' \notin {"list", "finish"} \union Looked)
                  => Listing(frames', entries', step', k) = Present(node', frames'[k].dir)
    <3>1. k \in 1..(N + 1)
      BY <2>4
    <3> HIDE DEF N
    <3> QED
      BY <2>2, <2>3, <2>4, <3>1
  <2> QED
    BY <2>5, Zenon DEF ListingsOK
<1>18. TruthOK'
  <2>1. ~hidden' => \A p \in DOMAIN entries' : entries'[p].sha256 # None => entries'[p].sha256 \in O!Data
    BY <1>0, <1>2 DEF TruthOK, Quiet
  <2>2. ASSUME Reliable' PROVE Reliable
    <3>1. Attached
      <4>1. \A k \in 1..(N + 1) : frames'[k].dir = IF k = 1 THEN root ELSE Child(node, frames'[k - 1].dir, frames'[k - 1].name)
        BY <1>8, <2>2 DEF Reliable, Attached, Quiet
      <4>2. \A k \in 1..N : k \in 1..(N + 1) /\ frames'[k] = frames[k] /\ (k # 1 => k - 1 \in 1..N /\ frames'[k - 1] = frames[k - 1])
        BY <1>1, <1>8
      <4> QED
        BY <4>1, <4>2 DEF Attached
    <3>2. OpenPaths(frames') \subseteq OpenPaths(frames) \union {q}
      <4>1. ASSUME NEW k \in 2..(N + 1) PROVE frames'[k].path \in OpenPaths(frames) \union {q}
        <5>1. CASE k = N + 1
          BY <1>7, <1>8, <5>1
        <5>2. CASE k # N + 1
          <6>1. k \in 2..N /\ k \in 1..N
            BY <1>1, <5>2
          <6> QED
            BY <1>8, <6>1 DEF OpenPaths
        <5> QED
          BY <5>1, <5>2
      <4> QED
        BY <1>8, <4>1 DEF OpenPaths
    <3>3. \A p \in DOMAIN entries : entries[p].observation \in Good \/ p \in OpenPaths(frames)
      <4> SUFFICES ASSUME NEW p \in DOMAIN entries PROVE entries[p].observation \in Good \/ p \in OpenPaths(frames)
        OBVIOUS
      <4>1. p \in DOMAIN entries' /\ entries'[p] = entries[p] /\ p # q
        BY <1>2, <1>5
      <4>2. entries'[p].observation \in Good \/ p \in OpenPaths(frames')
        BY <2>2, <4>1 DEF Reliable
      <4> QED
        BY <3>2, <4>1, <4>2
    <3> QED
      BY <2>2, <3>1, <3>3 DEF Reliable, Quiet
  <2>3. ASSUME Reliable', NEW p \in Settled' PROVE Claim(entries', held', p)
    <3>1. p \in DOMAIN entries' /\ entries'[p].observation \in Good
      BY <2>3, <1>10 DEF Settled, Looked
    <3>2. p \in DOMAIN entries /\ entries[p].observation \in Good
      BY <1>2, <3>1
    <3>3. Claim(entries, held, p)
      BY <1>0, <2>2, <2>3, <3>2 DEF TruthOK, Settled
    <3> QED
      BY <1>0, <3>2, <3>3, PutClaims DEF Quiet
  <2> QED
    BY <2>1, <2>3 DEF TruthOK
<1>19. BaselineOK'
  BY <1>0, BaselineStays DEF Quiet
<1> QED
  BY <1>11, <1>12, <1>13, <1>14, <1>15, <1>16, <1>17, <1>18, <1>19 DEF OrbitInv

-----------------------------------------------------------------------------
(* A directory is left: its entry is completed.                            *)
PutTop(t, e) ==
  /\ step \in Looked /\ t = Top.path /\ e \in Entries /\ EntryOK(e) /\ e.kind = entries[t].kind /\ e.read = entries[t].read
  /\ e.sha256 = entries[t].sha256 /\ entries' = With(entries, t, e)

(* A directory that was looked at has its entry, of which nothing is said  *)
(* yet.                                                                    *)
LEMMA LookedAt ==
  ASSUME FramesOK, EntriesOK, step \in Looked
  PROVE  /\ Len(frames) \in Nat /\ Len(frames) \in 2..Len(frames) /\ Len(frames) \in 1..Len(frames) /\ Len(frames) - 1 \in 1..Len(frames)
         /\ frames # << >> /\ Top = frames[Len(frames)]
         /\ Top.path \in DOMAIN entries /\ entries[Top.path] \in Entries /\ EntryOK(entries[Top.path])
         /\ entries[Top.path].kind = "dir" /\ entries[Top.path].observation \notin Good
         /\ entries[Top.path].read = 0 /\ entries[Top.path].sha256 = None
         /\ step = "binddir" => entries[Top.path].after = None \/ entries[Top.path].after.node = Top.dir
         /\ \A k \in 1..(Len(frames) - 1) : frames[k].path # Top.path
<1>1. Len(frames) > 1 /\ Len(frames) \in Nat
  BY DEF FramesOK
<1>2. Len(frames) \in 2..Len(frames) /\ Len(frames) \in 1..Len(frames) /\ Len(frames) - 1 \in 1..Len(frames)
  BY <1>1
<1>3. frames # << >> /\ Top = frames[Len(frames)]
  BY <1>1 DEF Top
<1>4. /\ Top.path \in DOMAIN entries /\ entries[Top.path].kind = "dir" /\ entries[Top.path].observation \notin Good
      /\ entries[Top.path].read = 0
      /\ step = "binddir" => entries[Top.path].after = None \/ entries[Top.path].after.node = Top.dir
  BY <1>2, <1>3 DEF EntriesOK
<1>5. entries[Top.path] \in Entries /\ EntryOK(entries[Top.path])
  BY <1>4 DEF EntriesOK
<1>6. entries[Top.path].sha256 = None
  BY <1>4, <1>5 DEF EntryOK, Good
<1>7. ASSUME NEW k \in 1..(Len(frames) - 1) PROVE frames[k].path # Top.path
  <2>1. k \in 1..Len(frames) /\ k # Len(frames)
    BY <1>1
  <2>2. Len(frames[k].path) = k - 1 /\ Len(Top.path) = Len(frames) - 1 /\ k \in Nat
    BY <1>2, <1>3, <2>1, FramesAre
  <2> QED
    BY <1>1, <2>1, <2>2
<1> QED
  BY <1>1, <1>2, <1>3, <1>4, <1>5, <1>6, <1>7

(* That entry is replaced.                                                 *)
LEMMA TopEntries ==
  ASSUME FramesOK, EntriesOK, NEW t, NEW e, PutTop(t, e)
  PROVE  /\ t \in DOMAIN entries /\ DOMAIN entries' = DOMAIN entries /\ entries'[t] = e
         /\ \A p \in DOMAIN entries : p # t => entries'[p] = entries[p]
         /\ IsFiniteSet(DOMAIN entries') /\ entries' \in [DOMAIN entries' -> Entries] /\ DOMAIN entries' \subseteq O!Inspected
         /\ \A p \in DOMAIN entries' : O!Range(p) \intersect Unsafe = {} /\ EntryOK(entries'[p])
         /\ Reads(entries') = Reads(entries) /\ \A r : Children(entries', r) = Children(entries, r)
<1>1. /\ t \in DOMAIN entries /\ e \in Entries /\ EntryOK(e) /\ entries' = With(entries, t, e) /\ e.read = entries[t].read
  BY LookedAt DEF PutTop
<1>2. IsFiniteSet(DOMAIN entries) /\ entries \in [DOMAIN entries -> Entries] /\ DOMAIN entries \subseteq O!Inspected
  BY DEF EntriesOK
<1>3. DOMAIN entries' = DOMAIN entries /\ entries'[t] = e /\ \A p \in DOMAIN entries : p # t => entries'[p] = entries[p]
  BY <1>1 DEF With
<1>4. entries' \in [DOMAIN entries' -> Entries]
  <2>1. entries' = [p \in DOMAIN entries' |-> entries'[p]]
    BY <1>1 DEF With
  <2>2. \A p \in DOMAIN entries' : entries'[p] \in Entries
    BY <1>1, <1>2, <1>3
  <2> QED
    BY <2>1, <2>2
<1>5. ASSUME NEW p \in DOMAIN entries' PROVE O!Range(p) \intersect Unsafe = {} /\ EntryOK(entries'[p])
  <2>1. p \in DOMAIN entries /\ O!Range(p) \intersect Unsafe = {} /\ EntryOK(entries[p])
    BY <1>3 DEF EntriesOK
  <2>2. entries'[p] = entries[p] \/ entries'[p] = e
    BY <1>3, <2>1
  <2> QED
    BY <1>1, <2>1, <2>2
<1>6. Reads(entries') = Reads(entries)
  BY <1>1, ReadsSame
<1>7. \A r : Children(entries', r) = Children(entries, r)
  BY <1>3 DEF Children
<1> QED
  BY <1>1, <1>2, <1>3, <1>4, <1>5, <1>6, <1>7

(* The names of the directory are done: its fingerprint is taken again.    *)
LEMMA AfterKeeps ==
  ASSUME OrbitInv, Quiet, step = "after", step' = "binddir", NEW t, NEW e, PutTop(t, e), e.observation = entries[t].observation,
         e.after = None \/ e.after.node = Top.dir, frames' = frames, bytes' = bytes, issue' = issue
  PROVE  OrbitInv'
<1> DEFINE N == Len(frames)
<1>0. TreeOK /\ FramesOK /\ Ahead /\ EntriesOK /\ BudgetOK /\ ListingsOK /\ TruthOK /\ BaselineOK
  BY DEF OrbitInv
<1>1. /\ N \in Nat /\ N \in 2..N /\ N \in 1..N /\ frames # << >> /\ Top = frames[N] /\ entries[t].observation \notin Good
      /\ entries[t].read = 0 /\ entries[t].kind = "dir"
  BY <1>0, LookedAt DEF PutTop
<1>2. /\ t \in DOMAIN entries /\ DOMAIN entries' = DOMAIN entries /\ entries'[t] = e
      /\ \A p \in DOMAIN entries : p # t => entries'[p] = entries[p]
  BY <1>0, TopEntries
<1>3. /\ IsFiniteSet(DOMAIN entries') /\ entries' \in [DOMAIN entries' -> Entries] /\ DOMAIN entries' \subseteq O!Inspected
      /\ \A p \in DOMAIN entries' : O!Range(p) \intersect Unsafe = {} /\ EntryOK(entries'[p])
  BY <1>0, TopEntries
<1>4. Reads(entries') = Reads(entries) /\ \A r : Children(entries', r) = Children(entries, r)
  BY <1>0, TopEntries
<1>5. step' \in Walking /\ step' \in Looked /\ step' \notin Picked /\ step \notin Picked \union {"list", "listing"}
  BY DEF Walking, Looked, Picked
<1>6. /\ t = Top.path /\ t = frames[N].path /\ e.kind = entries[t].kind /\ e.read = entries[t].read
      /\ e.sha256 = entries[t].sha256
  BY <1>1 DEF PutTop
<1>7. TreeOK'
  BY <1>0, TreeStays DEF Quiet
<1>8. FramesOK'
  <2>1. SamePlaces(frames, frames')
    BY <1>0, PlacesSame DEF FramesOK
  <2>2. Len(frames) > 1
    BY <1>1
  <2> QED
    BY <1>0, <1>1, <1>5, <2>1, <2>2, FramesStay DEF FramesOK, Quiet
<1>9. Ahead'
  <2>1. \A q, n : Unseen(entries', q, n) <=> Unseen(entries, q, n)
    BY <1>2 DEF Unseen
  <2> QED
    BY <1>0, <1>5, <2>1 DEF Ahead
<1>10. EntriesOK'
  <2>1. ASSUME NEW k \in 2..N
        PROVE  /\ frames[k].path \in DOMAIN entries' /\ entries'[frames[k].path].kind = "dir"
               /\ entries'[frames[k].path].observation \notin Good /\ entries'[frames[k].path].read = 0
               /\ k = N => entries'[frames[k].path].after = None \/ entries'[frames[k].path].after.node = frames[k].dir
    <3>1. /\ frames[k].path \in DOMAIN entries /\ entries[frames[k].path].kind = "dir"
          /\ entries[frames[k].path].observation \notin Good /\ entries[frames[k].path].read = 0
      BY <1>0 DEF EntriesOK
    <3>2. CASE frames[k].path = t
      BY <1>1, <1>2, <1>6, <3>1, <3>2
    <3>3. CASE frames[k].path # t
      BY <1>2, <1>6, <3>1, <3>3
    <3> QED
      BY <3>2, <3>3
  <2> QED
    BY <1>3, <2>1 DEF EntriesOK, EntryOK
<1>11. BudgetOK'
  <2>1. step' \notin {"read", "bind"} /\ step \notin {"read", "bind"}
    OBVIOUS
  <2>2. Cardinality(DOMAIN entries') <= MaxEntries /\ bytes' = Reads(entries') + 0 /\ bytes' <= MaxTotal
    BY <1>0, <1>2, <1>4, <2>1 DEF BudgetOK
  <2> QED
    BY <1>5, <2>1, <2>2 DEF BudgetOK
<1>12. ReadingOK'
  BY DEF ReadingOK
<1>13. ListingsOK'
  <2>1. ASSUME NEW k \in 1..N
        PROVE  /\ frames'[k].before.node = frames'[k].dir /\ frames'[k].before.changed <= node'[frames'[k].dir].changed
               /\ ~hidden' /\ ~issue' /\ frames'[k].before.changed = node'[frames'[k].dir].changed
                    /\ (k < Len(frames') \/ step' \notin {"list", "finish"} \union Looked)
                  => Listing(frames', entries', step', k) = Present(node', frames'[k].dir)
    <3>1. frames[k].before.node = frames[k].dir /\ frames[k].before.changed <= node[frames[k].dir].changed
      BY <1>0 DEF ListingsOK
    <3>2. ASSUME ~hidden, ~issue, frames[k].before.changed = node[frames[k].dir].changed, k < N
          PROVE  Listing(frames, entries', step', k) = Present(node, frames[k].dir)
      <4>1. Listing(frames, entries, step, k) = Present(node, frames[k].dir)
        BY <1>0, <3>2 DEF ListingsOK
      <4>2. step \notin Picked \union {"listing"} /\ step' \notin Picked \union {"listing"}
        BY <1>5
      <4>3. Listing(frames, entries, step, k) = frames[k].todo \union Children(entries, frames[k].path)
        BY <4>2, ListingNamed
      <4>4. Listing(frames, entries', step', k) = frames[k].todo \union Children(entries', frames[k].path)
        BY <4>2, ListingNamed
      <4> QED
        BY <1>4, <4>1, <4>3, <4>4
    <3> QED
      BY <1>5, <3>1, <3>2 DEF Quiet
  <2> QED
    BY <2>1, Zenon DEF ListingsOK
<1>14. TruthOK'
  <2>1. ~hidden' => \A p \in DOMAIN entries' : entries'[p].sha256 # None => entries'[p].sha256 \in O!Data
    <3>1. \A p \in DOMAIN entries' : p \in DOMAIN entries /\ entries'[p].sha256 = entries[p].sha256
      BY <1>2, <1>6
    <3> QED
      BY <1>0, <3>1 DEF TruthOK, Quiet
  <2>2. \A p \in DOMAIN entries' : p \in DOMAIN entries /\ entries'[p].observation = entries[p].observation
    BY <1>2
  <2>3. Reliable' => Reliable
    BY <1>2, <2>2 DEF Reliable, Attached, Quiet
  <2>4. ASSUME Reliable', NEW q \in Settled' PROVE Claim(entries', held', q)
    <3>1. q \in Settled
      BY <1>2, <1>5, <2>2 DEF Settled, Looked, Top
    <3>2. Claim(entries, held, q)
      BY <1>0, <2>3, <2>4, <3>1 DEF TruthOK
    <3>3. q \in DOMAIN entries
      BY <1>2, <1>6, <3>1 DEF Settled, Looked
    <3>4. q \in Everywhere
      BY <1>0, <3>3 DEF EntriesOK, Everywhere
    <3>5. entries'[q].kind = entries[q].kind /\ entries'[q].sha256 = entries[q].sha256
      BY <1>2, <1>6, <3>3
    <3> QED
      BY <1>4, <3>2, <3>4, <3>5, ClaimKept DEF Quiet
  <2> QED
    BY <2>1, <2>4 DEF TruthOK
<1>15. BaselineOK'
  BY <1>0, BaselineStays DEF Quiet
<1> QED
  BY <1>7, <1>8, <1>9, <1>10, <1>11, <1>12, <1>13, <1>14, <1>15 DEF OrbitInv

(* The directory is still in the one around it, or its entry says that it  *)
(* is not.                                                                 *)
Left(fs, gs) == gs = O!Front(fs)

(* Its verdict is given and its frame is popped: what it says is true,     *)
(* for all its names were settled.                                         *)
LEMMA LeaveKeeps ==
  ASSUME OrbitInv, Quiet, step = "binddir", step' = "name", NEW t, NEW e, PutTop(t, e), Left(frames, frames'),
         bytes' = bytes, issue' = issue,
         e.observation \in Good => Child(node, frames[Len(frames) - 1].dir, frames[Len(frames) - 1].name) = Top.dir
  PROVE  OrbitInv'
<1> DEFINE N == Len(frames)
<1>0. TreeOK /\ FramesOK /\ Ahead /\ EntriesOK /\ BudgetOK /\ ListingsOK /\ TruthOK /\ BaselineOK
  BY DEF OrbitInv
<1>1. /\ N \in Nat /\ N \in 2..N /\ N \in 1..N /\ N - 1 \in 1..N /\ frames # << >> /\ Top = frames[N]
      /\ entries[t].read = 0 /\ entries[t].kind = "dir" /\ \A k \in 1..(N - 1) : frames[k].path # Top.path
  BY <1>0, LookedAt DEF PutTop, Looked
<1>2. /\ t \in DOMAIN entries /\ DOMAIN entries' = DOMAIN entries /\ entries'[t] = e
      /\ \A p \in DOMAIN entries : p # t => entries'[p] = entries[p]
  BY <1>0, TopEntries
<1>3. /\ IsFiniteSet(DOMAIN entries') /\ entries' \in [DOMAIN entries' -> Entries] /\ DOMAIN entries' \subseteq O!Inspected
      /\ \A p \in DOMAIN entries' : O!Range(p) \intersect Unsafe = {} /\ EntryOK(entries'[p])
  BY <1>0, TopEntries
<1>4. Reads(entries') = Reads(entries) /\ \A r : Children(entries', r) = Children(entries, r)
  BY <1>0, TopEntries
<1>5. /\ step' \in Walking /\ step' \notin Looked /\ step' \notin Picked /\ step \notin Picked \union {"list", "listing"}
      /\ step \in Looked
  BY DEF Walking, Looked, Picked
<1>6. /\ t = Top.path /\ t = frames[N].path /\ e.kind = entries[t].kind /\ e.read = entries[t].read
      /\ e.sha256 = entries[t].sha256
  BY <1>1 DEF PutTop
<1>7. frames' \in Seq(Frames) /\ Len(frames') = N - 1 /\ \A k \in 1..(N - 1) : frames'[k] = frames[k]
  BY <1>0, <1>1 DEF FramesOK, Left, O!Front
<1>8. \A k \in 1..(N - 1) : k \in 1..N /\ k < N /\ k # N
  BY <1>1
<1>9. TreeOK'
  BY <1>0, TreeStays DEF Quiet
<1>10. FramesOK'
  <2>1. ASSUME NEW k \in 1..(N - 1)
        PROVE  /\ frames'[k].dir \in 1..Len(node) /\ node[frames'[k].dir].kind = "dir"
               /\ Len(frames'[k].path) = k - 1 /\ \A j \in 1..(k - 1) : frames'[k].path[j] = frames'[j].name
    <3>1. /\ frames[k].dir \in 1..Len(node) /\ node[frames[k].dir].kind = "dir"
          /\ Len(frames[k].path) = k - 1 /\ \A j \in 1..(k - 1) : frames[k].path[j] = frames[j].name
      BY <1>0, <1>8 DEF FramesOK
    <3>2. \A j \in 1..(k - 1) : j \in 1..(N - 1)
      BY <1>1
    <3>3. \A j \in 1..(k - 1) : frames'[j] = frames[j]
      BY <1>7, <3>2
    <3> QED
      BY <1>7, <3>1, <3>3
  <2>2. Len(frames') <= MaxDepth + 1 /\ frames' # << >>
    BY <1>0, <1>1, <1>7, ConstantsAre DEF FramesOK
  <2>3. issue' \in BOOLEAN /\ late' \in BOOLEAN /\ job' \in {"capture", "check"}
    BY <1>0 DEF FramesOK, Quiet
  <2> QED
    BY <1>5, <1>7, <2>1, <2>2, <2>3 DEF FramesOK, Quiet
<1>11. Ahead'
  <2>1. \A q, n : Unseen(entries', q, n) <=> Unseen(entries, q, n)
    BY <1>2 DEF Unseen
  <2>2. \A k \in 1..(N - 1) : \A n \in frames[k].todo : Unseen(entries, frames[k].path, n)
    BY <1>0, <1>8 DEF Ahead
  <2> QED
    BY <1>5, <1>7, <2>1, <2>2 DEF Ahead
<1>12. EntriesOK'
  <2>1. ASSUME NEW k \in 2..(N - 1)
        PROVE  /\ frames'[k].path \in DOMAIN entries' /\ entries'[frames'[k].path].kind = "dir"
               /\ entries'[frames'[k].path].observation \notin Good /\ entries'[frames'[k].path].read = 0
    <3>1. k \in 1..(N - 1) /\ k \in 2..N
      BY <1>1
    <3>2. /\ frames[k].path \in DOMAIN entries /\ entries[frames[k].path].kind = "dir"
          /\ entries[frames[k].path].observation \notin Good /\ entries[frames[k].path].read = 0
      BY <1>0, <3>1 DEF EntriesOK
    <3>3. frames[k].path # t /\ frames'[k] = frames[k]
      BY <1>1, <1>6, <1>7, <3>1
    <3> QED
      BY <1>2, <3>2, <3>3
  <2> QED
    BY <1>3, <1>7, <2>1 DEF EntriesOK, EntryOK
<1>13. BudgetOK'
  <2>1. step' \notin {"read", "bind"} /\ step \notin {"read", "bind"}
    OBVIOUS
  <2>2. Cardinality(DOMAIN entries') <= MaxEntries /\ bytes' = Reads(entries') + 0 /\ bytes' <= MaxTotal
    BY <1>0, <1>2, <1>4, <2>1 DEF BudgetOK
  <2> QED
    BY <1>5, <2>1, <2>2 DEF BudgetOK
<1>14. ReadingOK'
  BY DEF ReadingOK
<1>15. ListingsOK'
  <2>1. ASSUME NEW k \in 1..(N - 1)
        PROVE  /\ frames[k].before.node = frames[k].dir /\ frames[k].before.changed <= node[frames[k].dir].changed
               /\ ~hidden /\ ~issue /\ frames[k].before.changed = node[frames[k].dir].changed
                    => Listing(frames', entries', step', k) = Present(node, frames[k].dir)
    <3>1. frames[k].before.node = frames[k].dir /\ frames[k].before.changed <= node[frames[k].dir].changed
      BY <1>0, <1>8 DEF ListingsOK
    <3>2. ASSUME ~hidden, ~issue, frames[k].before.changed = node[frames[k].dir].changed
          PROVE  Listing(frames', entries', step', k) = Present(node, frames[k].dir)
      <4>1. Listing(frames, entries, step, k) = Present(node, frames[k].dir)
        BY <1>0, <1>8, <3>2 DEF ListingsOK
      <4>2. step \notin Picked \union {"listing"} /\ step' \notin Picked \union {"listing"}
        BY <1>5
      <4>3. Listing(frames, entries, step, k) = frames[k].todo \union Children(entries, frames[k].path)
        BY <4>2, ListingNamed
      <4>4. Listing(frames', entries', step', k) = frames'[k].todo \union Children(entries', frames'[k].path)
        BY <4>2, ListingNamed
      <4> QED
        BY <1>4, <1>7, <4>1, <4>3, <4>4
    <3> QED
      BY <3>1, <3>2
  <2>2. ASSUME NEW k \in 1..Len(frames')
        PROVE  /\ frames'[k].before.node = frames'[k].dir /\ frames'[k].before.changed <= node'[frames'[k].dir].changed
               /\ ~hidden' /\ ~issue' /\ frames'[k].before.changed = node'[frames'[k].dir].changed
                    /\ (k < Len(frames') \/ step' \notin {"list", "finish"} \union Looked)
                  => Listing(frames', entries', step', k) = Present(node', frames'[k].dir)
    <3>1. k \in 1..(N - 1) /\ frames'[k] = frames[k]
      BY <1>7
    <3> QED
      BY <2>1, <3>1 DEF Quiet
  <2> QED
    BY <2>2, Zenon DEF ListingsOK
<1>16. TruthOK'
  <2>1. ~hidden' => \A p \in DOMAIN entries' : entries'[p].sha256 # None => entries'[p].sha256 \in O!Data
    <3>1. \A p \in DOMAIN entries' : p \in DOMAIN entries /\ entries'[p].sha256 = entries[p].sha256
      BY <1>2, <1>6
    <3> QED
      BY <1>0, <3>1 DEF TruthOK, Quiet
  <2>2. ASSUME Reliable' PROVE Reliable
    <3>1. OpenPaths(frames') \subseteq OpenPaths(frames) /\ t \notin OpenPaths(frames')
      <4>1. ASSUME NEW k \in 2..(N - 1) PROVE frames'[k].path \in OpenPaths(frames) /\ frames'[k].path # t
        <5>1. k \in 1..(N - 1) /\ k \in 2..N
          BY <1>1
        <5> QED
          BY <1>1, <1>6, <1>7, <5>1 DEF OpenPaths
      <4> QED
        BY <1>7, <4>1 DEF OpenPaths
    <3>2. \A p \in DOMAIN entries' : entries'[p].observation \in Good \/ p \in OpenPaths(frames')
      BY <2>2 DEF Reliable
    <3>3. e.observation \in Good
      BY <1>2, <3>1, <3>2
    <3>4. \A p \in DOMAIN entries : entries[p].observation \in Good \/ p \in OpenPaths(frames)
      <4>1. t \in OpenPaths(frames)
        BY <1>1, <1>6 DEF OpenPaths
      <4> QED
        BY <1>2, <3>1, <3>2, <4>1
    <3>5. Attached
      <4>1. \A k \in 1..(N - 1) : frames'[k].dir = IF k = 1 THEN root ELSE Child(node, frames'[k - 1].dir, frames'[k - 1].name)
        BY <1>7, <2>2 DEF Reliable, Attached, Quiet
      <4>2. ASSUME NEW k \in 1..(N - 1)
            PROVE  frames[k].dir = IF k = 1 THEN root ELSE Child(node, frames[k - 1].dir, frames[k - 1].name)
        <5>1. CASE k = 1
          BY <1>7, <4>1, <5>1
        <5>2. CASE k # 1
          <6>1. k - 1 \in 1..(N - 1)
            BY <1>1, <5>2
          <6>2. frames'[k] = frames[k] /\ frames'[k - 1] = frames[k - 1]
            BY <1>7, <6>1
          <6> QED
            BY <4>1, <5>2, <6>2
        <5> QED
          BY <5>1, <5>2
      <4>3. frames[N].dir = Child(node, frames[N - 1].dir, frames[N - 1].name) /\ N # 1
        BY <1>1, <3>3
      <4>4. \A k \in 1..N : k \in 1..(N - 1) \/ k = N
        BY <1>1
      <4> QED
        BY <4>2, <4>3, <4>4 DEF Attached
    <3> QED
      BY <2>2, <3>4, <3>5 DEF Reliable, Quiet
  <2>3. ASSUME Reliable', NEW q \in Settled' PROVE Claim(entries', held', q)
    <3>1. q \in DOMAIN entries' /\ entries'[q].observation \in Good
      BY <1>5, <2>3 DEF Settled, Looked
    <3>2. q \in Settled
      BY <1>2, <1>5, <1>6, <3>1 DEF Settled
    <3>3. Claim(entries, held, q)
      BY <1>0, <2>2, <2>3, <3>2 DEF TruthOK
    <3>4. q \in DOMAIN entries /\ q \in Everywhere
      BY <1>0, <1>2, <3>1 DEF EntriesOK, Everywhere
    <3>5. entries'[q].kind = entries[q].kind /\ entries'[q].sha256 = entries[q].sha256
      BY <1>2, <1>6, <3>4
    <3> QED
      BY <1>4, <3>3, <3>4, <3>5, ClaimKept DEF Quiet
  <2> QED
    BY <2>1, <2>3 DEF TruthOK
<1>17. BaselineOK'
  BY <1>0, BaselineStays DEF Quiet
<1> QED
  BY <1>9, <1>10, <1>11, <1>12, <1>13, <1>14, <1>15, <1>16, <1>17 DEF OrbitInv

-----------------------------------------------------------------------------
(* A step that puts no entry and leaves the directories open.              *)
LEMMA MoveKeeps ==
  ASSUME OrbitInv, Quiet, frames # << >>, entries' = entries, SamePlaces(frames, frames'),
         issue' \in BOOLEAN, issue => issue', step' \in Walking, step' # "binddir",
         step' \in Looked => Len(frames) > 1, step' = "finish" => Len(frames) = 1,
         step' \in Picked => /\ frames'[Len(frames)].name \in FileNames \ Unsafe /\ frames'[Len(frames)].name \notin frames'[Len(frames)].todo
                             /\ Unseen(entries, Top.path, frames'[Len(frames)].name),
         step \in {"list", "listing"} \/ frames'[Len(frames)].todo \subseteq frames[Len(frames)].todo,
         step' \in {"list", "listing"} => step \in {"list", "listing"},
         step' \in Looked \union {"finish"} /\ ~issue' /\ Reliable => Claim(entries, held, Top.path),
         ~hidden /\ ~issue' /\ Top.before.changed = node[Top.dir].changed /\ step' \notin {"list", "finish"} \union Looked
           => Listing(frames', entries, step', Len(frames)) = Present(node, Top.dir),
         BudgetOK', ReadingOK'
  PROVE  OrbitInv'
<1>0. TreeOK /\ FramesOK /\ Ahead /\ EntriesOK /\ ListingsOK /\ TruthOK /\ BaselineOK
  BY DEF OrbitInv
<1>1. TreeOK'
  BY <1>0, TreeStays DEF Quiet
<1>2. FramesOK'
  <2>1. late' \in BOOLEAN
    BY <1>0 DEF FramesOK, Quiet
  <2> QED
    BY <1>0, <2>1, FramesStay DEF Quiet
<1>3. Ahead'
  BY <1>0, AheadStays
<1>4. EntriesOK'
  BY <1>0, TopAre, EntriesStay
<1>5. ListingsOK'
  BY <1>0, ListingsStay
<1>6. TruthOK'
  BY <1>0, TruthStays
<1>7. BaselineOK'
  BY <1>0, BaselineStays DEF Quiet
<1> QED
  BY <1>1, <1>2, <1>3, <1>4, <1>5, <1>6, <1>7 DEF OrbitInv

(* The limits, when nothing is read.                                       *)
LEMMA BudgetPlain ==
  ASSUME BudgetOK, entries' = entries, bytes' = bytes, step \notin {"read", "bind"}, step' \notin {"read", "bind"},
         step' \in Picked => Cardinality(DOMAIN entries) < MaxEntries
  PROVE  BudgetOK' /\ ReadingOK'
BY DEF BudgetOK, ReadingOK

(* What Scan leaves alone.                                                 *)
LEMMA ScanIsQuiet ==
  ASSUME O!Scan, step # "begin"
  PROVE  Quiet
BY DEF O!Scan, Quiet

(* The names in a directory.                                               *)
LEMMA PresentIs == \A i : O!Present(i) = Present(node, i)
BY DEF O!Present, Present

(* List and Listed: what was there before the first readdir and after the  *)
(* last one.                                                               *)
LEMMA ListKeeps ==
  ASSUME OrbitInv, O!Scan, O!List
  PROVE  OrbitInv'
<1>0. FramesOK /\ BudgetOK
  BY DEF OrbitInv
<1>1. step = "list" /\ step' = "listing" /\ entries' = entries /\ issue' = issue /\ bytes' = bytes
  BY DEF O!List
<1>2. frames # << >> /\ Quiet
  BY <1>0, <1>1, ScanIsQuiet DEF FramesOK, Walking
<1> DEFINE S == Present(node, Top.dir)
<1>3. frames' = WithTodo(frames, S)
  BY PresentIs, TopIs DEF O!List, WithTodo
<1>4. S \in SUBSET FileNames /\ frames \in Seq(Frames)
  BY <1>0 DEF Present, FramesOK
<1> HIDE DEF S
<1>5. SamePlaces(frames, frames') /\ frames'[Len(frames)].todo = S
  BY <1>2, <1>3, <1>4, TodoIs
<1>6. Listing(frames', entries, "listing", Len(frames)) = S
  <2>1. Len(frames') = Len(frames)
    BY <1>5 DEF SamePlaces
  <2> QED
    BY <1>5, <2>1 DEF Listing
<1>7. step' \in Walking /\ step' \notin Looked /\ step' \notin Picked /\ step \notin Picked
  BY <1>1 DEF Walking, Looked, Picked
<1>8. BudgetOK' /\ ReadingOK'
  BY <1>0, <1>1, <1>7, BudgetPlain
<1>9. issue' \in BOOLEAN
  BY <1>0, <1>1 DEF FramesOK
<1> QED
  BY <1>1, <1>2, <1>5, <1>6, <1>7, <1>8, <1>9, MoveKeeps DEF S

LEMMA ListedKeeps ==
  ASSUME OrbitInv, O!Scan, O!Listed
  PROVE  OrbitInv'
<1>0. FramesOK /\ BudgetOK /\ ListingsOK
  BY DEF OrbitInv
<1>1. step = "listing" /\ entries' = entries /\ bytes' = bytes
  BY DEF O!Listed
<1>2. frames # << >> /\ Quiet /\ frames \in Seq(Frames) /\ issue \in BOOLEAN
  BY <1>0, <1>1, ScanIsQuiet DEF FramesOK, Walking
<1>3. CASE step' = O!Leave /\ issue' = TRUE /\ frames' = frames
  <2>1. step' \in {"after", "finish"} /\ (step' = "finish" <=> Len(frames) = 1)
    BY <1>3 DEF O!Leave
  <2>2. Len(frames) \in Nat /\ Len(frames) >= 1
    BY <1>0, <1>2, FirstIsRoot
  <2>3. step' \in Walking /\ step' \notin Picked
    BY <2>1 DEF Walking, Picked, Looked
  <2>4. SamePlaces(frames, frames')
    BY <1>2, <1>3, PlacesSame
  <2>5. BudgetOK' /\ ReadingOK'
    BY <1>0, <1>1, <2>1, <2>3, BudgetPlain
  <2>6. step' \in Looked => Len(frames) > 1
    <3>1. "finish" \notin Looked
      BY DEF Looked
    <3>2. step' \in Looked => Len(frames) # 1
      BY <2>1, <3>1
    <3> QED
      BY <2>2, <3>2
  <2> QED
    BY <1>1, <1>2, <1>3, <2>1, <2>3, <2>4, <2>5, <2>6, MoveKeeps
<1>4. CASE ~(step' = O!Leave /\ issue' = TRUE /\ frames' = frames)
  <2>1. PICK S \in SUBSET FileNames :
          /\ O!Top.todo \intersect O!Present(O!Top.dir) \subseteq S /\ S \subseteq O!Top.todo \union O!Present(O!Top.dir)
          /\ step' = "name" /\ frames' = [frames EXCEPT ![Len(frames)].todo = S] /\ issue' = issue
    BY <1>4 DEF O!Listed
  <2>2. frames' = WithTodo(frames, S)
    BY <2>1 DEF WithTodo
  <2>3. SamePlaces(frames, frames') /\ frames'[Len(frames)].todo = S /\ Len(frames') = Len(frames)
    BY <1>2, <2>2, TodoIs DEF SamePlaces
  <2>4. step' \in Walking /\ step' \notin Picked /\ step' \notin Looked
    BY <2>1 DEF Walking, Picked, Looked
  <2>5. BudgetOK' /\ ReadingOK'
    BY <1>0, <1>1, <2>1, <2>4, BudgetPlain
  <2>6. ASSUME ~hidden, ~issue', Top.before.changed = node[Top.dir].changed
        PROVE  Listing(frames', entries, step', Len(frames)) = Present(node, Top.dir)
    <3>1. Len(frames) \in 1..Len(frames) /\ Top = frames[Len(frames)]
      BY <1>0, <1>2, FirstIsRoot DEF Top
    <3>2. "listing" \notin {"list", "finish"} \union Looked
      BY DEF Looked
    <3>3. Listing(frames, entries, step, Len(frames)) = Present(node, Top.dir)
      BY <1>0, <1>1, <2>1, <2>6, <3>1, <3>2 DEF ListingsOK
    <3>4. Top.todo = Present(node, Top.dir)
      BY <1>1, <3>1, <3>3 DEF Listing
    <3>5. S = Present(node, Top.dir)
      BY <2>1, <3>4, TopIs, PresentIs
    <3>6. \A p \in DOMAIN entries : ~Below(Top.path, p)
      BY <1>0, <1>1 DEF OrbitInv, Ahead
    <3>7. Children(entries, Top.path) = {}
      <4>1. Top.path \in Seq(FileNames)
        BY <1>0, <1>2, TopAre
      <4>2. \A n \in FileNames : Below(Top.path, Append(Top.path, n))
        BY <4>1, Appended
      <4> QED
        BY <3>6, <4>2 DEF Children
    <3>8. frames'[Len(frames)].path = Top.path
      BY <2>3, <3>1 DEF SamePlaces
    <3>9. Listing(frames', entries, "name", Len(frames)) = S \union {}
      <4>1. "name" \notin Picked \union {"listing"}
        BY DEF Picked
      <4>2. Listing(frames', entries, "name", Len(frames)) = frames'[Len(frames)].todo \union Children(entries, frames'[Len(frames)].path)
        BY <4>1, ListingNamed, Zenon
      <4> QED
        BY <2>3, <3>7, <3>8, <4>2
    <3> QED
      BY <2>1, <3>5, <3>9
  <2> QED
    BY <1>1, <1>2, <2>1, <2>3, <2>4, <2>5, <2>6, MoveKeeps
<1> QED
  BY <1>3, <1>4

-----------------------------------------------------------------------------
(* The next name.                                                          *)
Taken(n) == frames' = WithPick(frames, Top.todo \ {n}, n)
NextCases(n) ==
  \/ frames' = WithTodo(frames, {}) /\ issue' = TRUE /\ step' = step /\ entries' = entries
  \/ /\ ~O!Full /\ Taken(n)
     /\ \/ issue' = TRUE /\ step' = step /\ entries' = entries
        \/ n \notin Unsafe /\ issue' = issue /\ step' \in {"open", "opendir"} /\ entries' = entries
        \/ /\ n \notin Unsafe /\ issue' = issue /\ step' = step
           /\ \E o \in {"unsupported", "unreadable"} : entries' = With(entries, Append(Top.path, n), O!Entry("other", o))

(* NextName has four outcomes.                                             *)
LEMMA NextIs ==
  ASSUME O!NextName, Top.todo \subseteq Nat
  PROVE  /\ step = "name" /\ reading' = reading /\ bytes' = bytes
         /\ \E n \in Top.todo : NextCases(n)
<1>1. step = "name" /\ reading' = reading /\ bytes' = bytes /\ Top.todo # {}
  BY TopIs DEF O!NextName
<1>2. PICK n : n = CHOOSE m \in Top.todo : \A k \in Top.todo : m <= k
  OBVIOUS
<1>3. n \in Top.todo
  <2>1. \E m \in Top.todo : \A k \in Top.todo : m <= k
    BY <1>1, Least
  <2> QED
    BY <1>2, <2>1
<1> DEFINE picked == [frames EXCEPT ![Len(frames)].todo = @ \ {n}, ![Len(frames)].name = n]
           cleared == [frames EXCEPT ![Len(frames)].todo = {}]
           put(o) == O!Put(Append(Top.path, n), O!Entry("other", o))
<1>4. \/ frames' = cleared /\ issue' = TRUE /\ step' = step /\ entries' = entries
      \/ /\ ~O!Full /\ frames' = picked
         /\ \/ issue' = TRUE /\ step' = step /\ entries' = entries
            \/ n \notin Unsafe /\ issue' = issue /\ step' \in {"open", "opendir"} /\ entries' = entries
            \/ n \notin Unsafe /\ issue' = issue /\ step' = step /\ (put("unsupported") \/ put("unreadable"))
  <2> HIDE DEF picked, cleared, put
  <2> USE DEF picked, cleared, put
  <2> QED
    BY <1>2, TopIs, Zenon DEF O!NextName
<1>5. picked = WithPick(frames, Top.todo \ {n}, n) /\ cleared = WithTodo(frames, {})
  BY DEF WithPick, WithTodo, Top
<1>6. \A o : put(o) => entries' = With(entries, Append(Top.path, n), O!Entry("other", o))
  BY PutIs
<1> HIDE DEF picked, cleared, put
<1>7. NextCases(n)
  BY <1>4, <1>5, <1>6, Zenon DEF NextCases, Taken
<1> QED
  BY <1>1, <1>3, <1>7

(* One cardinality for both.                                               *)
LEMMA SizeIs == \A S : O!Cardinality(S) = Cardinality(S)
BY DEF O!Cardinality, Cardinality

(* NextName: a name is taken, refused or gets an entry at once.            *)
LEMMA NextNameKeeps ==
  ASSUME OrbitInv, O!Scan, O!NextName
  PROVE  OrbitInv'
<1>0. FramesOK /\ BudgetOK /\ ListingsOK /\ EntriesOK /\ Ahead
  BY DEF OrbitInv
<1>1. step = "name"
  BY DEF O!NextName
<1>2. frames # << >> /\ Quiet /\ frames \in Seq(Frames) /\ issue \in BOOLEAN
  BY <1>0, <1>1, ScanIsQuiet DEF FramesOK, Walking
<1>3. Len(frames) \in 1..Len(frames) /\ Len(frames) \in Nat /\ Top = frames[Len(frames)] /\ Top.todo \subseteq FileNames /\ Top.path \in Seq(FileNames)
  BY <1>0, <1>2, TopAre
<1>4. bytes' = bytes /\ \E n \in Top.todo : NextCases(n)
  BY <1>3, ConstantsAre, NextIs
<1>5. PICK n \in Top.todo : NextCases(n)
  BY <1>4
<1>6. n \in FileNames /\ n \in Nat /\ Unseen(entries, Top.path, n)
  BY <1>0, <1>1, <1>3, ConstantsAre DEF Ahead
<1>7. Cardinality(DOMAIN entries) \in Nat /\ MaxEntries \in Nat
  BY <1>0, FS_CardinalityType, ConstantsAre DEF EntriesOK
<1>8. step \in Walking /\ step \notin Looked /\ step \notin Picked /\ step # "binddir" /\ step \notin {"list", "listing", "finish", "read", "bind"}
  BY <1>1 DEF Walking, Looked, Picked
<1>9. CASE frames' = WithTodo(frames, {}) /\ issue' = TRUE /\ step' = step /\ entries' = entries
  <2>1. SamePlaces(frames, frames') /\ frames'[Len(frames)].todo = {}
    BY <1>2, <1>9, TodoIs
  <2>2. BudgetOK' /\ ReadingOK'
    BY <1>0, <1>4, <1>8, <1>9, BudgetPlain
  <2> QED
    BY <1>2, <1>8, <1>9, <2>1, <2>2, MoveKeeps
<1>10. CASE ~O!Full /\ Taken(n)
  <2>1. SamePlaces(frames, frames') /\ frames'[Len(frames)].todo = Top.todo \ {n} /\ frames'[Len(frames)].name = n
    BY <1>2, <1>3, <1>6, <1>10, PickIs DEF Taken
  <2>2. Cardinality(DOMAIN entries) < MaxEntries
    BY <1>7, <1>10, SizeIs DEF O!Full
  <2>3. frames'[Len(frames)].todo \subseteq frames[Len(frames)].todo /\ n \notin frames'[Len(frames)].todo
    BY <1>3, <2>1
  <2>4. CASE issue' = TRUE /\ step' = step /\ entries' = entries
    <3>1. BudgetOK' /\ ReadingOK'
      BY <1>0, <1>4, <1>8, <2>4, BudgetPlain
    <3> QED
      BY <1>2, <1>8, <2>1, <2>3, <2>4, <3>1, MoveKeeps
  <2>5. CASE n \notin Unsafe /\ issue' = issue /\ step' \in {"open", "opendir"} /\ entries' = entries
    <3>1. step' \in Walking /\ step' \notin Looked /\ step' \in Picked /\ step' \notin {"list", "listing", "finish", "read", "bind", "binddir"}
      BY <2>5 DEF Walking, Looked, Picked
    <3>2. BudgetOK' /\ ReadingOK'
      BY <1>0, <1>4, <1>8, <2>2, <2>5, <3>1, BudgetPlain
    <3>3. ASSUME ~hidden, ~issue', Top.before.changed = node[Top.dir].changed
          PROVE  Listing(frames', entries, step', Len(frames)) = Present(node, Top.dir)
      <4>1. Listing(frames, entries, step, Len(frames)) = Present(node, Top.dir)
        BY <1>0, <1>3, <1>8, <2>5, <3>3 DEF ListingsOK
      <4>2. Listing(frames, entries, step, Len(frames)) = Top.todo \union Children(entries, Top.path)
        BY <1>3, <1>8, ListingNamed
      <4>3. Len(frames') = Len(frames) /\ frames'[Len(frames)].path = Top.path
        BY <1>3, <2>1 DEF SamePlaces
      <4>4. Listing(frames', entries, step', Len(frames'))
              = frames'[Len(frames')].todo \union {frames'[Len(frames')].name} \union Children(entries, frames'[Len(frames')].path)
        BY <3>1, ListingPicked
      <4>5. Listing(frames', entries, step', Len(frames)) = (Top.todo \ {n}) \union {n} \union Children(entries, Top.path)
        BY <2>1, <4>3, <4>4
      <4> QED
        BY <4>1, <4>2, <4>5
    <3> QED
      BY <1>2, <1>6, <1>8, <2>1, <2>3, <2>5, <3>1, <3>2, <3>3, MoveKeeps
  <2>6. CASE /\ n \notin Unsafe /\ issue' = issue /\ step' = step
             /\ \E o \in {"unsupported", "unreadable"} : entries' = With(entries, Append(Top.path, n), O!Entry("other", o))
    <3>1. PICK o \in {"unsupported", "unreadable"} : entries' = With(entries, Append(Top.path, n), O!Entry("other", o))
      BY <2>6
    <3>2. o \in Observed \ Good
      BY DEF Observed, Good
    <3>3. PICK e : e = O!Entry("other", o)
      OBVIOUS
    <3>4. e \in Entries /\ EntryOK(e) /\ e.observation = o /\ e.read = 0 /\ e.sha256 = None
      BY <3>2, <3>3, EntryIs
    <3>5. PutName(n, e)
      BY <1>2, <1>6, <2>6, <3>1, <3>3, <3>4 DEF PutName
    <3>6. bytes' = Reads(entries) + e.read /\ bytes' <= MaxTotal
      BY <1>0, <1>1, <1>4, <3>4 DEF BudgetOK
    <3> QED
      BY <1>1, <1>2, <1>8, <2>1, <2>2, <2>6, <3>2, <3>4, <3>5, <3>6, PutKeeps
  <2> QED
    BY <1>5, <1>10, <2>4, <2>5, <2>6 DEF NextCases
<1> QED
  BY <1>5, <1>9, <1>10 DEF NextCases

(* NamesEnd: the directory has the time it had, so what was listed is      *)
(* there.                                                                  *)
LEMMA NamesEndKeeps ==
  ASSUME OrbitInv, O!Scan, O!NamesEnd
  PROVE  OrbitInv'
<1>0. TreeOK /\ FramesOK /\ BudgetOK /\ ListingsOK /\ EntriesOK
  BY DEF OrbitInv
<1>1. step = "name" /\ Top.todo = {} /\ step' = O!Leave /\ frames' = frames /\ entries' = entries /\ bytes' = bytes
  BY TopIs DEF O!NamesEnd
<1>2. frames # << >> /\ Quiet /\ frames \in Seq(Frames) /\ issue \in BOOLEAN
  BY <1>0, <1>1, ScanIsQuiet DEF FramesOK, Walking
<1>3. /\ Len(frames) \in 1..Len(frames) /\ Len(frames) \in Nat /\ Len(frames) >= 1 /\ Top = frames[Len(frames)]
      /\ Top.dir \in 1..Len(node) /\ node[Top.dir].kind = "dir" /\ Top.path \in Everywhere
  BY <1>0, <1>2, TopAre
<1>4. step' \in {"after", "finish"} /\ (step' = "finish" <=> Len(frames) = 1)
  BY <1>1 DEF O!Leave
<1>5. step' \in Walking /\ step' \notin Picked /\ step' \notin {"list", "listing", "binddir"} /\ (step' \in Looked => Len(frames) # 1)
  BY <1>4 DEF Walking, Picked, Looked
<1>6. issue' \in BOOLEAN /\ (issue => issue') /\ (~issue' => O!Fingerprint(Top.dir) = Top.before)
  BY <1>2, TopIs DEF O!NamesEnd
<1>7. SamePlaces(frames, frames')
  BY <1>1, <1>2, PlacesSame
<1>8. BudgetOK' /\ ReadingOK'
  BY <1>0, <1>1, <1>4, <1>5, BudgetPlain
<1>9. ASSUME ~issue', Reliable PROVE Claim(entries, held, Top.path)
  <2>1. ~hidden /\ ~issue /\ Attached
    BY <1>9 DEF Reliable
  <2>2. Top.before.changed = node[Top.dir].changed
    BY <1>0, <1>3, <1>6, <1>9, Prints
  <2>3. step \notin {"list", "finish"} \union Looked /\ step \notin Picked \union {"listing"}
    BY <1>1 DEF Looked, Picked
  <2>4. Listing(frames, entries, step, Len(frames)) = Present(node, Top.dir)
    BY <1>0, <1>3, <2>1, <2>2, <2>3 DEF ListingsOK
  <2>5. Listing(frames, entries, step, Len(frames)) = Top.todo \union Children(entries, Top.path)
    BY <1>3, <2>3, ListingNamed
  <2>6. Children(entries, Top.path) = Present(node, Top.dir)
    BY <1>1, <2>4, <2>5
  <2>7. O!At(Top.path) = Top.dir
    BY <1>0, <1>3, <2>1, AttachedAt
  <2>8. Top.path = O!Root \/ entries[Top.path].kind = "dir"
    <3>1. CASE Len(frames) = 1
      BY <1>0, <1>2, <1>3, <3>1, FirstIsRoot
    <3>2. CASE Len(frames) # 1
      <4>1. Len(frames) \in 2..Len(frames)
        BY <1>3, <3>2, FromTwo
      <4> QED
        BY <1>0, <1>3, <4>1 DEF EntriesOK
    <3> QED
      BY <3>1, <3>2
  <2> QED
    BY <1>0, <1>3, <2>6, <2>7, <2>8, DirSeen
<1>10. step' \in Looked => Len(frames) > 1
  <2>1. ASSUME step' \in Looked PROVE Len(frames) # 1
    BY <1>5, <2>1, Zenon
  <2>2. Len(frames) \in Nat /\ Len(frames) >= 1
    BY <1>3
  <2> QED
    BY <2>1, <2>2
<1>11. step' # "binddir" /\ step' \notin {"list", "listing"} /\ step' \notin Picked /\ step' \in {"list", "finish"} \union Looked
  BY <1>4, <1>5 DEF Looked
<1>12. frames'[Len(frames)].todo = frames[Len(frames)].todo
  BY <1>1
<1> QED
  BY <1>1, <1>2, <1>4, <1>5, <1>6, <1>7, <1>8, <1>9, <1>10, <1>11, <1>12, MoveKeeps

-----------------------------------------------------------------------------
(* The entry of the name that was taken.                                   *)
LEMMA PickedAre ==
  ASSUME OrbitInv, step \in Picked
  PROVE  /\ frames # << >> /\ Top.name \in FileNames \ Unsafe /\ Top.name \in FileNames /\ Top.name \notin Top.todo
         /\ Unseen(entries, Top.path, Top.name) /\ Cardinality(DOMAIN entries) < MaxEntries
         /\ O!Here = Append(Top.path, Top.name) /\ O!Named = Child(node, Top.dir, Top.name) /\ O!Named \in 0..Len(node)
         /\ SamePlaces(frames, frames) /\ issue \in BOOLEAN /\ step \notin Looked
<1>0. TreeOK /\ FramesOK /\ Ahead /\ BudgetOK
  BY DEF OrbitInv
<1>1. frames # << >> /\ issue \in BOOLEAN /\ frames \in Seq(Frames)
  BY <1>0 DEF FramesOK, Walking
<1>2. Top.name \in FileNames \ Unsafe /\ Top.name \notin Top.todo
  BY <1>0 DEF FramesOK
<1>3. Unseen(entries, Top.path, Top.name) /\ Cardinality(DOMAIN entries) < MaxEntries
  BY <1>0 DEF Ahead, BudgetOK
<1>4. O!Here = Append(Top.path, Top.name)
  BY TopIs DEF O!Here
<1>5. O!Named = Child(node, Top.dir, Top.name) /\ O!Named \in 0..Len(node)
  <2>1. Top.dir \in 0..Len(node)
    BY <1>0, <1>1, TopAre
  <2>2. O!Child(Top.dir, Top.name) \in 0..Len(node) /\ O!Child(Top.dir, Top.name) = Child(node, Top.dir, Top.name)
    BY <1>0, <1>2, <2>1, ChildIs
  <2> QED
    BY <2>2, TopIs DEF O!Named
<1>6. step \notin Looked
  BY DEF Picked, Looked
<1> QED
  BY <1>1, <1>2, <1>3, <1>4, <1>5, <1>6, PlacesSame

(* The name that was taken gets its entry.                                 *)
LEMMA DoneKeeps ==
  ASSUME OrbitInv, Quiet, step \in Picked, NEW e, e \in Entries, EntryOK(e), O!Put(O!Here, e), step' = "name",
         frames' = frames, issue' = issue, bytes' = Reads(entries) + e.read, bytes' <= MaxTotal,
         ~hidden /\ e.sha256 # None => e.sha256 \in O!Data,
         ~hidden /\ Attached /\ e.observation \in Good => Claim(entries', held, Append(Top.path, Top.name))
  PROVE  OrbitInv'
<1>1. /\ frames # << >> /\ Top.name \in FileNames \ Unsafe /\ Top.name \notin Top.todo
      /\ Unseen(entries, Top.path, Top.name) /\ Cardinality(DOMAIN entries) < MaxEntries
      /\ O!Here = Append(Top.path, Top.name) /\ SamePlaces(frames, frames')
  BY PickedAre
<1>2. entries' = With(entries, Append(Top.path, Top.name), e)
  BY <1>1, PutIs
<1>3. PutName(Top.name, e)
  BY <1>1, <1>2 DEF PutName
<1>4. frames'[Len(frames)].todo = Top.todo \ {Top.name}
  BY <1>1 DEF Top
<1>5. step # "name"
  BY DEF Picked
<1> QED
  BY <1>1, <1>3, <1>4, <1>5, PutKeeps

(* An entry that says nothing of a content is a right one.                 *)
LEMMA ObservedIs ==
  ASSUME NEW e \in Entries, e.sha256 = None, e.read <= MaxFile, NEW o \in Observed \ Good
  PROVE  /\ [e EXCEPT !.observation = o] \in Entries /\ EntryOK([e EXCEPT !.observation = o])
         /\ [e EXCEPT !.observation = o].observation = o /\ [e EXCEPT !.observation = o].read = e.read
         /\ [e EXCEPT !.observation = o].sha256 = None
<1> DEFINE f == [e EXCEPT !.observation = o]
<1>1. f \in Entries /\ f.observation = o /\ f.read = e.read /\ f.sha256 = e.sha256
  BY DEF Entries
<1>2. o # "hashed" /\ o # "directory"
  BY DEF Good
<1> HIDE DEF f
<1>3. EntryOK(f)
  BY <1>1, <1>2 DEF EntryOK
<1> QED
  BY <1>1, <1>3 DEF f

(* The file that is opened.                                                *)
Opening(i, r) ==
  /\ reading' = r /\ r.handle = i /\ r.digest = << >> /\ r \in Readings /\ r.entry.kind = "file"
  /\ r.entry.observation = "unreadable" /\ r.entry.sha256 = None /\ r.entry.read = 0 /\ r.entry.before = O!Fingerprint(i)

(* A file that fits is opened.                                             *)
LEMMA OpeningKeeps ==
  ASSUME OrbitInv, Quiet, step = "open", step' = "read", frames' = frames, issue' = issue, bytes' = bytes, entries' = entries,
         NEW i \in 1..Len(node), node[i].kind = "file", NEW r, Opening(i, r), O!Fits(O!Fingerprint(i).bytes)
  PROVE  OrbitInv'
<1>0. TreeOK /\ FramesOK /\ BudgetOK /\ ListingsOK
  BY DEF OrbitInv
<1>1. step \in Picked /\ step' \in Walking /\ step' \in Picked /\ step' \notin Looked
  BY DEF Picked, Walking, Looked
<1>2. /\ frames # << >> /\ Top.name \in FileNames \ Unsafe /\ Top.name \notin Top.todo
      /\ Unseen(entries, Top.path, Top.name) /\ SamePlaces(frames, frames) /\ issue \in BOOLEAN
      /\ Cardinality(DOMAIN entries) < MaxEntries
  BY <1>1, PickedAre
<1>3. /\ O!Fingerprint(i) # None /\ O!Fingerprint(i).node = i /\ O!Fingerprint(i).bytes = Len(node[i].data)
      /\ O!Fingerprint(i).changed = node[i].changed /\ Len(node[i].data) \in Nat /\ node[i].changed \in Nat
  BY <1>0, Prints, NodesAre
<1>4. Len(node[i].data) <= MaxFile /\ Len(node[i].data) <= MaxTotal - bytes
  BY <1>3 DEF O!Fits
<1>5. bytes = Reads(entries) + 0 /\ bytes <= MaxTotal /\ Cardinality(DOMAIN entries) <= MaxEntries
  BY <1>0 DEF BudgetOK
<1>6. Reads(entries) \in Nat
  <2>1. IsFiniteSet(DOMAIN entries) /\ entries \in [DOMAIN entries -> Entries]
    BY DEF OrbitInv, EntriesOK
  <2>2. PICK p : p \notin DOMAIN entries
    BY EverywhereAre DEF OrbitInv, EntriesOK
  <2>3. O!Entry("other", "unreadable") \in Entries
    BY EntryIs DEF Observed, Good
  <2> QED
    BY <2>1, <2>2, <2>3, ReadsMore
<1>7. /\ r.entry.read = 0 /\ r.entry.before = O!Fingerprint(i) /\ r.handle = i /\ r.digest = << >> /\ reading' = r /\ r \in Readings
      /\ r.entry.kind = "file" /\ r.entry.observation = "unreadable" /\ r.entry.sha256 = None
  BY DEF Opening
<1>8. BudgetOK'
  <2>1. bytes + (r.entry.before.bytes - r.entry.read) <= MaxTotal
    BY <1>3, <1>4, <1>5, <1>6, <1>7, ConstantsAre
  <2> QED
    BY <1>1, <1>2, <1>5, <1>7, <2>1 DEF BudgetOK
<1>9. ReadingOK'
  <2>1. r.entry.before # None /\ r.entry.before.node = i /\ r.entry.before.changed <= node[i].changed
    BY <1>3, <1>7
  <2>2. r.entry.read <= r.entry.before.bytes /\ r.entry.before.bytes <= MaxFile
    BY <1>3, <1>4, <1>7
  <2>3. Len(node[i].data) = r.entry.before.bytes /\ Len(r.digest) = r.entry.read
    BY <1>3, <1>7
  <2>4. \A k \in 1..r.entry.read : r.digest[k] = node[i].data[k]
    BY <1>7
  <2>5. i \in 1..Len(node') /\ node'[i].kind = "file" /\ node' = node
    BY DEF Quiet
  <2> QED
    BY <1>7, <2>1, <2>2, <2>3, <2>4, <2>5, Zenon DEF ReadingOK
<1>10. ASSUME ~hidden, ~issue', Top.before.changed = node[Top.dir].changed
      PROVE  Listing(frames', entries, step', Len(frames)) = Present(node, Top.dir)
  <2>1. Len(frames) \in 1..Len(frames) /\ Top = frames[Len(frames)]
    BY <1>0, <1>2, TopAre
  <2>2. step \notin {"list", "finish"} \union Looked
    BY DEF Looked
  <2>3. Listing(frames, entries, step, Len(frames)) = Present(node, Top.dir)
    BY <1>0, <1>10, <2>1, <2>2 DEF ListingsOK
  <2>4. Listing(frames, entries, step', Len(frames)) = Listing(frames, entries, step, Len(frames))
    BY <1>1, ListingPicked
  <2> QED
    BY <2>3, <2>4
<1>11. frames'[Len(frames)].name = Top.name /\ frames'[Len(frames)].todo = Top.todo /\ frames'[Len(frames)].todo = frames[Len(frames)].todo
  BY DEF Top
<1>12. step' \notin {"list", "listing", "finish", "binddir"}
  OBVIOUS
<1> QED
  BY <1>1, <1>2, <1>8, <1>9, <1>10, <1>11, <1>12, MoveKeeps

-----------------------------------------------------------------------------
(* Opening a file.                                                         *)
Unopened(o, b, kind) == [O!Entry(kind, o) EXCEPT !.before = b]
OpenCases ==
  \/ O!Done(O!Entry("file", "unreadable"))
  \/ O!Done(O!Entry("other", "unsupported"))
  \/ /\ O!Named # 0 /\ node[O!Named].kind = "file"
     /\ \/ O!Done([Unopened("unreadable", O!Fingerprint(O!Named), "file") EXCEPT !.observation = "budget"])
        \/ /\ O!Fits(Unopened("unreadable", O!Fingerprint(O!Named), "file").before.bytes)
           /\ reading' = [handle |-> O!Named, entry |-> Unopened("unreadable", O!Fingerprint(O!Named), "file"), digest |-> << >>]
           /\ step' = "read" /\ entries' = entries

(* OpenFile has four outcomes.                                             *)
LEMMA OpenFileIs ==
  ASSUME O!OpenFile
  PROVE  step = "open" /\ frames' = frames /\ bytes' = bytes /\ issue' = issue /\ OpenCases
<1>1. step = "open" /\ frames' = frames /\ bytes' = bytes /\ issue' = issue
  BY DEF O!OpenFile
<1>2. OpenCases
  BY Zenon DEF O!OpenFile, OpenCases, Unopened
<1> QED
  BY <1>1, <1>2

(* The entry of a file that is not read.                                   *)
LEMMA UnopenedIs ==
  ASSUME NEW o \in Observed \ Good, NEW b \in O!Fingerprints \union {None}
  PROVE  /\ Unopened(o, b, "file") \in Entries /\ EntryOK(Unopened(o, b, "file")) /\ Unopened(o, b, "file").kind = "file"
         /\ Unopened(o, b, "file").observation = o /\ Unopened(o, b, "file").read = 0 /\ Unopened(o, b, "file").sha256 = None
         /\ Unopened(o, b, "file").before = b
BY EntryIs DEF Unopened

(* OpenFile: refused, of another kind, too large, or opened.               *)
LEMMA OpenFileKeeps ==
  ASSUME OrbitInv, O!Scan, O!OpenFile
  PROVE  OrbitInv'
<1>1. step = "open" /\ frames' = frames /\ bytes' = bytes /\ issue' = issue /\ OpenCases
  BY OpenFileIs
<1>2. Quiet /\ TreeOK /\ step \in Picked
  BY <1>1, ScanIsQuiet DEF OrbitInv, Picked
<1>3. O!Named \in 0..Len(node) /\ Len(node) \in Nat
  BY <1>2, PickedAre DEF TreeOK, O!Tree
<1>4. bytes = Reads(entries) + 0 /\ bytes <= MaxTotal
  BY <1>1 DEF OrbitInv, BudgetOK
<1>5. ASSUME NEW e, e \in Entries, EntryOK(e), e.observation \notin Good, e.read = 0, e.sha256 = None, O!Done(e)
      PROVE  OrbitInv'
  <2>1. O!Put(O!Here, e) /\ step' = "name"
    BY <1>5 DEF O!Done
  <2>2. bytes' = Reads(entries) + e.read /\ bytes' <= MaxTotal
    BY <1>1, <1>4, <1>5
  <2> QED
    BY <1>1, <1>2, <1>5, <2>1, <2>2, DoneKeeps
<1>6. {"unreadable", "unsupported", "budget"} \subseteq Observed \ Good
  BY DEF Observed, Good
<1>7. CASE O!Done(O!Entry("file", "unreadable"))
  <2>1. PICK e : e = O!Entry("file", "unreadable")
    OBVIOUS
  <2>2. "unreadable" \in Observed \ Good /\ "file" \in {"file", "dir", "other"}
    BY <1>6
  <2>3. e \in Entries /\ EntryOK(e) /\ e.observation = "unreadable" /\ e.read = 0 /\ e.sha256 = None
    BY <2>1, <2>2, EntryIs
  <2> QED
    BY <1>5, <1>7, <2>1, <2>2, <2>3
<1>8. CASE O!Done(O!Entry("other", "unsupported"))
  <2>1. PICK e : e = O!Entry("other", "unsupported")
    OBVIOUS
  <2>2. e \in Entries /\ EntryOK(e) /\ e.observation = "unsupported" /\ e.read = 0 /\ e.sha256 = None
    BY <1>6, <2>1, EntryIs
  <2> QED
    BY <1>5, <1>6, <1>8, <2>1, <2>2
<1>9. CASE O!Named # 0 /\ node[O!Named].kind = "file"
  <2>1. PICK i : i = O!Named
    OBVIOUS
  <2>2. i \in 1..Len(node) /\ node[i].kind = "file"
    BY <1>3, <1>9, <2>1
  <2>3. PICK b : b = O!Fingerprint(i)
    OBVIOUS
  <2>4. b \in O!Fingerprints
    BY <1>2, <2>2, <2>3, Prints
  <2>5. PICK u : u = Unopened("unreadable", b, "file")
    OBVIOUS
  <2>6. /\ u \in Entries /\ u.kind = "file" /\ u.observation = "unreadable" /\ u.read = 0 /\ u.sha256 = None /\ u.before = b
    BY <1>6, <2>4, <2>5, UnopenedIs
  <2>7. CASE O!Done([Unopened("unreadable", O!Fingerprint(O!Named), "file") EXCEPT !.observation = "budget"])
    <3>1. PICK e : e = [u EXCEPT !.observation = "budget"]
      OBVIOUS
    <3>2. O!Done(e)
      BY <2>1, <2>3, <2>5, <2>7, <3>1
    <3>3. u.read <= MaxFile
      BY <2>6, ConstantsAre
    <3>4. e \in Entries /\ EntryOK(e) /\ e.observation = "budget" /\ e.read = 0 /\ e.sha256 = None
      BY <1>6, <2>6, <3>1, <3>3, ObservedIs
    <3> QED
      BY <1>5, <1>6, <3>2, <3>4
  <2>8. CASE /\ O!Fits(Unopened("unreadable", O!Fingerprint(O!Named), "file").before.bytes)
             /\ reading' = [handle |-> O!Named, entry |-> Unopened("unreadable", O!Fingerprint(O!Named), "file"), digest |-> << >>]
             /\ step' = "read" /\ entries' = entries
    <3>1. PICK r : r = [handle |-> i, entry |-> u, digest |-> << >>]
      OBVIOUS
    <3>2. r.handle = i /\ r.entry = u /\ r.digest = << >> /\ r \in Readings
      <4>1. i \in Nat
        BY <1>3, <2>2
      <4> QED
        BY <2>6, <3>1, <4>1 DEF Readings
    <3>3. reading' = r
      BY <2>1, <2>3, <2>5, <2>8, <3>1
    <3>4. Opening(i, r)
      BY <2>3, <2>6, <3>2, <3>3 DEF Opening
    <3>5. O!Fits(O!Fingerprint(i).bytes)
      BY <2>1, <2>3, <2>5, <2>6, <2>8
    <3> QED
      BY <1>1, <1>2, <2>2, <2>8, <3>4, <3>5, OpeningKeeps
  <2> QED
    BY <1>1, <1>9, <2>7, <2>8, <1>7, <1>8 DEF OpenCases
<1> QED
  BY <1>1, <1>7, <1>8, <1>9 DEF OpenCases

-----------------------------------------------------------------------------
(* Reading a file.                                                         *)
LEMMA ReadingIs ==
  ASSUME OrbitInv, step \in {"read", "bind"}
  PROVE  /\ reading \in Readings /\ reading.entry \in Entries /\ reading.handle \in 1..Len(node) /\ reading.digest \in Seq(Nat)
         /\ node[reading.handle].kind = "file" /\ reading.entry.kind = "file" /\ reading.entry.observation = "unreadable"
         /\ reading.entry.sha256 = None /\ reading.entry.read \in Nat /\ reading.entry.read <= MaxFile
         /\ reading.entry.before # None /\ reading.entry.before \in O!Fingerprints /\ reading.entry.before.bytes \in Nat
         /\ reading.entry.before.changed \in Nat /\ reading.entry.before.node = reading.handle
         /\ bytes = Reads(entries) + reading.entry.read /\ bytes <= MaxTotal /\ EntryOK(reading.entry)
<1>1. /\ reading \in Readings /\ reading.handle \in 1..Len(node) /\ node[reading.handle].kind = "file"
      /\ reading.entry.kind = "file" /\ reading.entry.observation = "unreadable" /\ reading.entry.sha256 = None
      /\ reading.entry.before # None /\ reading.entry.before.node = reading.handle
      /\ reading.entry.read <= reading.entry.before.bytes /\ reading.entry.before.bytes <= MaxFile
  BY DEF OrbitInv, ReadingOK
<1>2. reading.entry \in Entries /\ reading.digest \in Seq(Nat)
  BY <1>1 DEF Readings
<1>3. reading.entry.read \in Nat /\ reading.entry.before \in O!Fingerprints
  BY <1>1, <1>2 DEF Entries
<1>4. reading.entry.before.bytes \in Nat /\ reading.entry.before.changed \in Nat
  BY <1>3 DEF O!Fingerprints
<1>5. reading.entry.read <= MaxFile
  BY <1>1, <1>3, <1>4, ConstantsAre
<1>6. bytes = Reads(entries) + reading.entry.read /\ bytes <= MaxTotal
  BY DEF OrbitInv, BudgetOK
<1>7. EntryOK(reading.entry)
  BY <1>1, <1>5 DEF EntryOK
<1> QED
  BY <1>1, <1>2, <1>3, <1>4, <1>5, <1>6, <1>7

(* The file is given up.                                                   *)
LEMMA GiveUpKeeps ==
  ASSUME OrbitInv, Quiet, step \in {"read", "bind"}, NEW e,
         e = reading.entry \/ \E o \in {"budget", "unstable"} : e = [reading.entry EXCEPT !.observation = o],
         O!Done(e), frames' = frames, issue' = issue, bytes' = bytes
  PROVE  OrbitInv'
<1>1. /\ reading.entry \in Entries /\ reading.entry.sha256 = None /\ reading.entry.read <= MaxFile /\ EntryOK(reading.entry)
      /\ bytes = Reads(entries) + reading.entry.read /\ bytes <= MaxTotal /\ reading.entry.observation = "unreadable"
  BY ReadingIs
<1>2. e \in Entries /\ EntryOK(e) /\ e.read = reading.entry.read /\ e.sha256 = None /\ e.observation \notin Good
  <2>1. "unreadable" \notin Good /\ {"budget", "unstable"} \subseteq Observed \ Good
    BY DEF Observed, Good
  <2>2. CASE e = reading.entry
    BY <1>1, <2>1, <2>2
  <2>3. ASSUME NEW o \in {"budget", "unstable"}, e = [reading.entry EXCEPT !.observation = o]
        PROVE  e \in Entries /\ EntryOK(e) /\ e.read = reading.entry.read /\ e.sha256 = None /\ e.observation \notin Good
    <3>1. o \in Observed \ Good
      BY <2>1
    <3> QED
      BY <1>1, <2>3, <3>1, ObservedIs
  <2> QED
    BY <2>2, <2>3
<1>3. O!Put(O!Here, e) /\ step' = "name"
  BY DEF O!Done
<1>4. step \in Picked
  BY DEF Picked
<1>5. bytes' = Reads(entries) + e.read /\ bytes' <= MaxTotal
  BY <1>1, <1>2
<1> QED
  BY <1>2, <1>3, <1>4, <1>5, DoneKeeps

(* Between two steps of the same file nothing else of the scan changes.    *)
LEMMA ContinueKeeps ==
  ASSUME OrbitInv, Quiet, step \in {"read", "bind"}, step' \in {"read", "bind"}, frames' = frames, issue' = issue,
         entries' = entries, BudgetOK', ReadingOK'
  PROVE  OrbitInv'
<1>0. FramesOK /\ ListingsOK
  BY DEF OrbitInv
<1>1. step \in Picked /\ step' \in Walking /\ step' \in Picked /\ step' \notin Looked /\ step' \notin {"list", "listing", "finish", "binddir"}
  BY DEF Picked, Walking, Looked
<1>2. /\ frames # << >> /\ Top.name \in FileNames \ Unsafe /\ Top.name \notin Top.todo
      /\ Unseen(entries, Top.path, Top.name) /\ SamePlaces(frames, frames') /\ issue \in BOOLEAN
  BY <1>1, PickedAre
<1>3. ASSUME ~hidden, ~issue', Top.before.changed = node[Top.dir].changed
      PROVE  Listing(frames', entries, step', Len(frames)) = Present(node, Top.dir)
  <2>1. Len(frames) \in 1..Len(frames) /\ Top = frames[Len(frames)]
    BY <1>0, <1>2, TopAre
  <2>2. step \notin {"list", "finish"} \union Looked
    BY DEF Looked
  <2>3. Listing(frames, entries, step, Len(frames)) = Present(node, Top.dir)
    BY <1>0, <1>3, <2>1, <2>2 DEF ListingsOK
  <2>4. Listing(frames, entries, step', Len(frames)) = Listing(frames, entries, step, Len(frames))
    BY <1>1, ListingPicked
  <2> QED
    BY <2>3, <2>4
<1>4. frames'[Len(frames)].name = Top.name /\ frames'[Len(frames)].todo = Top.todo /\ frames'[Len(frames)].todo = frames[Len(frames)].todo
  BY DEF Top
<1> QED
  BY <1>1, <1>2, <1>3, <1>4, MoveKeeps

MoreRead(r, x) == [r EXCEPT !.entry.read = @ + 1, !.digest = Append(@, x)]
(* The reading with one more buffer.                                       *)
LEMMA MoreReadIs ==
  ASSUME NEW r \in Readings, NEW x \in Nat
  PROVE  /\ MoreRead(r, x) \in Readings /\ MoreRead(r, x).handle = r.handle /\ MoreRead(r, x).digest = Append(r.digest, x)
         /\ MoreRead(r, x).entry.read = r.entry.read + 1 /\ MoreRead(r, x).entry.before = r.entry.before
         /\ MoreRead(r, x).entry.kind = r.entry.kind /\ MoreRead(r, x).entry.observation = r.entry.observation
         /\ MoreRead(r, x).entry.sha256 = r.entry.sha256
<1> DEFINE n == r.entry.read + 1
           d == Append(r.digest, x)
           e == [r.entry EXCEPT !.read = n]
           m == [handle |-> r.handle, entry |-> e, digest |-> d]
<1>1. r.entry \in Entries /\ r.digest \in Seq(Nat) /\ r.handle \in Nat /\ r = [handle |-> r.handle, entry |-> r.entry, digest |-> r.digest]
  BY DEF Readings
<1>a. n \in Nat /\ d \in Seq(Nat)
  <2>1. r.entry.read \in Nat
    BY <1>1 DEF Entries
  <2> QED
    BY <1>1, <2>1
<1>b. MoreRead(r, x) = [r EXCEPT !.entry.read = n, !.digest = d]
  BY DEF MoreRead
<1> HIDE DEF n, d
<1>2. /\ e \in Entries /\ e.read = n /\ e.before = r.entry.before /\ e.kind = r.entry.kind
      /\ e.observation = r.entry.observation /\ e.sha256 = r.entry.sha256
  BY <1>1, <1>a DEF Entries
<1>c. [r EXCEPT !.entry.read = n, !.digest = d] = [r EXCEPT !.entry = e, !.digest = d]
  OBVIOUS
<1> HIDE DEF e
<1>d. [r EXCEPT !.entry = e, !.digest = d] = m
  <2>1. [r EXCEPT !.entry = e] = [handle |-> r.handle, entry |-> e, digest |-> r.digest]
    BY DEF Readings
  <2>2. [[handle |-> r.handle, entry |-> e, digest |-> r.digest] EXCEPT !.digest = d] = m
    OBVIOUS
  <2>3. [r EXCEPT !.entry = e, !.digest = d] = [[r EXCEPT !.entry = e] EXCEPT !.digest = d]
    OBVIOUS
  <2> QED
    BY <2>1, <2>2, <2>3
<1>3. MoreRead(r, x) = m
  BY <1>b, <1>c, <1>d
<1>4. m \in Readings
  BY <1>1, <1>a, <1>2 DEF Readings
<1> QED
  BY <1>2, <1>3, <1>4 DEF n, d

Checked(r, a) == [r EXCEPT !.entry.after = a]
(* The reading with its last fingerprint.                                  *)
LEMMA CheckedIs ==
  ASSUME NEW r \in Readings, NEW a \in O!Fingerprints \union {None}
  PROVE  /\ Checked(r, a) \in Readings /\ Checked(r, a).handle = r.handle /\ Checked(r, a).digest = r.digest
         /\ Checked(r, a).entry.read = r.entry.read /\ Checked(r, a).entry.before = r.entry.before
         /\ Checked(r, a).entry.kind = r.entry.kind /\ Checked(r, a).entry.observation = r.entry.observation
         /\ Checked(r, a).entry.sha256 = r.entry.sha256 /\ Checked(r, a).entry.after = a
<1> DEFINE e == [r.entry EXCEPT !.after = a]
           m == [handle |-> r.handle, entry |-> e, digest |-> r.digest]
<1>1. r.entry \in Entries /\ r.digest \in Seq(Nat) /\ r.handle \in Nat
  BY DEF Readings
<1>2. /\ e \in Entries /\ e.read = r.entry.read /\ e.before = r.entry.before /\ e.kind = r.entry.kind
      /\ e.observation = r.entry.observation /\ e.sha256 = r.entry.sha256 /\ e.after = a
  BY <1>1 DEF Entries
<1>3. Checked(r, a) = m
  BY DEF Checked, Readings
<1> HIDE DEF e
<1>4. m \in Readings
  BY <1>1, <1>2 DEF Readings
<1> QED
  BY <1>2, <1>3, <1>4

-----------------------------------------------------------------------------
(* The next byte, and the limits with it.                                  *)
LEMMA NextByte == \A s \in Seq(Nat), k \in Nat : Len(s) > k => k + 1 \in 1..Len(s) /\ s[k + 1] \in Nat
OBVIOUS
LEMMA OneMore == \A k \in Nat : \A i \in 1..(k + 1) : i \in 1..k \/ i = k + 1
OBVIOUS
(* A buffer that was read is no longer left.                               *)
LEMMA Spent ==
  \A b, s, k, t, m \in Int : b = s + k /\ k < t /\ b + (t - k) <= m => b + 1 = s + (k + 1) /\ b + 1 <= m /\ (b + 1) + (t - (k + 1)) <= m
OBVIOUS

(* Read: the next buffer, which is that of the opened content while the    *)
(* time is the same.                                                       *)
LEMMA ReadKeeps ==
  ASSUME OrbitInv, O!Scan, O!Read
  PROVE  OrbitInv'
<1> DEFINE e == reading.entry
           h == reading.handle
           data == node[h].data
<1>0. TreeOK /\ BudgetOK /\ ReadingOK
  BY DEF OrbitInv
<1>1. step = "read" /\ e.read < e.before.bytes /\ frames' = frames /\ issue' = issue
  BY DEF O!Read
<1>2. Quiet
  BY <1>1, ScanIsQuiet
<1>3. CASE entries' = entries /\ step' = step
  <2>1. /\ Len(data) > e.read /\ reading' = MoreRead(reading, data[e.read + 1]) /\ bytes' = bytes + 1
    BY <1>1, <1>3 DEF O!Read, O!Done, MoreRead
  <2>2. /\ reading \in Readings /\ h \in 1..Len(node) /\ node[h].kind = "file" /\ reading.digest \in Seq(Nat)
        /\ e.read \in Nat /\ e.before.bytes \in Nat /\ e.before.changed \in Nat /\ bytes = Reads(entries) + e.read /\ bytes <= MaxTotal
        /\ e.kind = "file" /\ e.observation = "unreadable" /\ e.sha256 = None /\ e.before # None /\ e.before.node = h
    BY <1>1, ReadingIs
  <2>3. data \in Seq(Nat) /\ Len(data) \in Nat
    BY <1>0, <2>2, NodesAre
  <2>4. e.read + 1 \in 1..Len(data) /\ data[e.read + 1] \in Nat
    <3>1. PICK s \in Seq(Nat) : s = data
      BY <2>3
    <3>2. PICK k \in Nat : k = e.read
      BY <2>2
    <3>3. Len(s) > k
      BY <2>1, <3>1, <3>2
    <3> QED
      BY <3>1, <3>2, <3>3, NextByte
  <2>5. PICK x \in Nat : x = data[e.read + 1]
    BY <2>4
  <2>6. PICK r : r = MoreRead(reading, x)
    OBVIOUS
  <2>7. /\ r \in Readings /\ r.handle = h /\ r.digest = Append(reading.digest, x)
        /\ r.entry.read = e.read + 1 /\ r.entry.before = e.before
        /\ r.entry.kind = e.kind /\ r.entry.observation = e.observation /\ r.entry.sha256 = e.sha256
    BY <2>2, <2>5, <2>6, MoreReadIs
  <2>8. reading' = r
    BY <2>1, <2>5, <2>6
  <2>9. e.before.changed <= node[h].changed /\ e.before.bytes <= MaxFile
    BY <1>0, <1>1 DEF ReadingOK
  <2>10. BudgetOK'
    <3>1. bytes + (e.before.bytes - e.read) <= MaxTotal /\ Cardinality(DOMAIN entries) <= MaxEntries /\ Cardinality(DOMAIN entries) < MaxEntries
      BY <1>0, <1>1 DEF BudgetOK, Picked
    <3>2. Reads(entries) \in Int
      <4>1. IsFiniteSet(DOMAIN entries) /\ entries \in [DOMAIN entries -> Entries]
        BY DEF OrbitInv, EntriesOK
      <4>2. PICK p : p \notin DOMAIN entries
        BY EverywhereAre DEF OrbitInv, EntriesOK
      <4>3. O!Entry("other", "unreadable") \in Entries
        BY EntryIs DEF Observed, Good
      <4> QED
        BY <4>1, <4>2, <4>3, ReadsMore
    <3>3. bytes' = Reads(entries) + r.entry.read /\ bytes' <= MaxTotal /\ bytes' + (r.entry.before.bytes - r.entry.read) <= MaxTotal
      <4>1. bytes \in Int /\ e.read \in Int /\ e.before.bytes \in Int /\ MaxTotal \in Int
        BY <2>2, <3>2, ConstantsAre
      <4>2. /\ bytes + 1 = Reads(entries) + (e.read + 1) /\ bytes + 1 <= MaxTotal
            /\ (bytes + 1) + (e.before.bytes - (e.read + 1)) <= MaxTotal
        <5>1. PICK k \in Int : k = e.read
          BY <4>1
        <5>2. PICK t \in Int : t = e.before.bytes
          BY <4>1
        <5>3. PICK s \in Int : s = Reads(entries)
          BY <3>2
        <5>4. bytes = s + k /\ k < t /\ bytes + (t - k) <= MaxTotal
          BY <1>1, <2>2, <3>1, <5>1, <5>2, <5>3
        <5>5. bytes + 1 = s + (k + 1) /\ bytes + 1 <= MaxTotal /\ (bytes + 1) + (t - (k + 1)) <= MaxTotal
          BY <4>1, <5>4, Spent
        <5> QED
          BY <5>1, <5>2, <5>3, <5>5
      <4> QED
        BY <2>1, <2>7, <4>2
    <3> QED
      BY <1>1, <1>3, <2>8, <3>1, <3>3 DEF BudgetOK
  <2>11. ReadingOK'
    <3>1. ASSUME ~hidden, e.before.changed = node[h].changed
          PROVE  /\ Len(data) = e.before.bytes /\ Len(r.digest) = e.read + 1
                 /\ \A i \in 1..(e.read + 1) : r.digest[i] = data[i]
      <4>1. Len(data) = e.before.bytes /\ Len(reading.digest) = e.read /\ \A i \in 1..e.read : reading.digest[i] = data[i]
        BY <1>0, <1>1, <3>1 DEF ReadingOK
      <4>2. Len(r.digest) = e.read + 1 /\ r.digest[e.read + 1] = x /\ \A i \in 1..e.read : r.digest[i] = reading.digest[i]
        BY <2>2, <2>7, <4>1
      <4>3. \A i \in 1..(e.read + 1) : i \in 1..e.read \/ i = e.read + 1
        BY <2>2, OneMore
      <4> QED
        BY <2>5, <4>1, <4>2, <4>3
    <3>2. e.read + 1 <= e.before.bytes
      BY <1>1, <2>2
    <3>3. step' # "bind" /\ node' = node /\ hidden' = hidden
      BY <1>1, <1>2, <1>3 DEF Quiet
    <3>4. /\ r \in Readings /\ h \in 1..Len(node) /\ node[h].kind = "file"
          /\ r.entry.kind = "file" /\ r.entry.observation = "unreadable" /\ r.entry.sha256 = None
          /\ r.entry.before # None /\ r.entry.before.node = h /\ r.entry.before.changed <= node[h].changed
          /\ r.entry.read <= r.entry.before.bytes /\ r.entry.before.bytes <= MaxFile
      BY <2>2, <2>7, <2>9, <3>2
    <3>5. ~hidden /\ r.entry.before.changed = node[h].changed =>
            /\ Len(node[h].data) = r.entry.before.bytes /\ Len(r.digest) = r.entry.read
            /\ \A i \in 1..r.entry.read : r.digest[i] = node[h].data[i]
      BY <2>7, <3>1
    <3> QED
      BY <2>7, <2>8, <3>3, <3>4, <3>5, Zenon DEF ReadingOK
  <2> QED
    BY <1>1, <1>2, <1>3, <2>10, <2>11, ContinueKeeps
<1>4. CASE ~(entries' = entries /\ step' = step)
  <2>1. /\ bytes' = bytes
        /\ \/ O!Done(e)
           \/ O!Done([e EXCEPT !.observation = "budget"])
           \/ O!Done([e EXCEPT !.observation = "unstable"])
    BY <1>4, Zenon DEF O!Read
  <2>2. PICK f : /\ f = e \/ \E o \in {"budget", "unstable"} : f = [e EXCEPT !.observation = o]
                 /\ O!Done(f)
    BY <2>1
  <2> QED
    BY <1>1, <1>2, <2>1, <2>2, GiveUpKeeps
<1> QED
  BY <1>3, <1>4

(* ReadEnd: the size and the time once more.                               *)
LEMMA ReadEndKeeps ==
  ASSUME OrbitInv, O!Scan, O!ReadEnd
  PROVE  OrbitInv'
<1> DEFINE e == reading.entry
           h == reading.handle
<1>0. TreeOK /\ BudgetOK /\ ReadingOK
  BY DEF OrbitInv
<1>1. step = "read" /\ e.read = e.before.bytes /\ frames' = frames /\ issue' = issue /\ bytes' = bytes
  BY DEF O!ReadEnd
<1>2. Quiet
  BY <1>1, ScanIsQuiet
<1>3. CASE O!Done(e)
  BY <1>1, <1>2, <1>3, GiveUpKeeps
<1>4. CASE step' = "bind" /\ entries' = entries /\ reading' = [reading EXCEPT !.entry.after = O!Fingerprint(reading.handle)]
  <2>1. /\ reading \in Readings /\ h \in 1..Len(node) /\ node[h].kind = "file" /\ e.read \in Nat /\ e.before.bytes \in Nat
        /\ e.kind = "file" /\ e.observation = "unreadable" /\ e.sha256 = None /\ e.before # None /\ e.before.node = h
        /\ bytes = Reads(entries) + e.read /\ bytes <= MaxTotal
    BY <1>1, ReadingIs
  <2>2. PICK a : a = O!Fingerprint(h)
    OBVIOUS
  <2>3. a \in O!Fingerprints \union {None}
    BY <1>0, <2>1, <2>2, Prints
  <2>4. PICK r : r = Checked(reading, a)
    OBVIOUS
  <2>5. /\ r \in Readings /\ r.handle = h /\ r.digest = reading.digest
        /\ r.entry.read = e.read /\ r.entry.before = e.before
        /\ r.entry.kind = e.kind /\ r.entry.observation = e.observation /\ r.entry.sha256 = e.sha256
    BY <2>1, <2>3, <2>4, CheckedIs
  <2>6. reading' = r
    BY <1>4, <2>2, <2>4 DEF Checked
  <2>7. /\ e.before.changed <= node[h].changed /\ e.before.bytes <= MaxFile
        /\ ~hidden /\ e.before.changed = node[h].changed =>
             /\ Len(node[h].data) = e.before.bytes /\ Len(reading.digest) = e.read
             /\ \A i \in 1..e.read : reading.digest[i] = node[h].data[i]
    BY <1>0, <1>1 DEF ReadingOK
  <2>8. BudgetOK'
    <3>1. Cardinality(DOMAIN entries) <= MaxEntries /\ Cardinality(DOMAIN entries) < MaxEntries
      BY <1>0, <1>1 DEF BudgetOK, Picked
    <3>2. bytes = Reads(entries) + r.entry.read
      BY <2>1, <2>5
    <3> QED
      BY <1>1, <1>4, <2>1, <2>6, <3>1, <3>2 DEF BudgetOK
  <2>9. ReadingOK'
    <3>1. node' = node /\ hidden' = hidden
      BY <1>2 DEF Quiet
    <3>2. /\ r \in Readings /\ h \in 1..Len(node) /\ node[h].kind = "file"
          /\ r.entry.kind = "file" /\ r.entry.observation = "unreadable" /\ r.entry.sha256 = None
          /\ r.entry.before # None /\ r.entry.before.node = h /\ r.entry.before.changed <= node[h].changed
          /\ r.entry.read <= r.entry.before.bytes /\ r.entry.before.bytes <= MaxFile /\ r.entry.read = r.entry.before.bytes
      BY <1>1, <2>1, <2>5, <2>7
    <3>3. ~hidden /\ r.entry.before.changed = node[h].changed =>
            /\ Len(node[h].data) = r.entry.before.bytes /\ Len(r.digest) = r.entry.read
            /\ \A i \in 1..r.entry.read : r.digest[i] = node[h].data[i]
      BY <2>5, <2>7
    <3> QED
      BY <2>5, <2>6, <3>1, <3>2, <3>3, Zenon DEF ReadingOK
  <2> QED
    BY <1>1, <1>2, <1>4, <2>8, <2>9, ContinueKeeps
<1> QED
  BY <1>3, <1>4, Zenon DEF O!ReadEnd

-----------------------------------------------------------------------------
(* A file is compared with what it was when it was opened.                 *)
Hashed(e, d) == [e EXCEPT !.observation = "hashed", !.sha256 = d]
(* The entry of a file that was read whole.                                *)
LEMMA HashedIs ==
  ASSUME NEW e \in Entries, NEW d \in Seq(Nat), e.kind = "file", e.before # None, e.before = e.after, e.before.bytes = e.read,
         e.read <= MaxFile
  PROVE  /\ Hashed(e, d) \in Entries /\ EntryOK(Hashed(e, d)) /\ Hashed(e, d).kind = "file" /\ Hashed(e, d).observation = "hashed"
         /\ Hashed(e, d).read = e.read /\ Hashed(e, d).sha256 = d
<1> DEFINE f == Hashed(e, d)
<1>1. /\ f \in Entries /\ f.observation = "hashed" /\ f.sha256 = d /\ f.kind = e.kind /\ f.read = e.read /\ f.before = e.before
      /\ f.after = e.after
  BY DEF Hashed, Entries, Observed, Good
<1> HIDE DEF f
<1>2. EntryOK(f)
  BY <1>1, ConstantsAre DEF EntryOK
<1> QED
  BY <1>1, <1>2 DEF f

(* BindFile hashes only what has one fingerprint all the time.             *)
LEMMA BindFileIs ==
  ASSUME O!BindFile
  PROVE  /\ step = "bind" /\ frames' = frames /\ bytes' = bytes /\ issue' = issue
         /\ \/ /\ reading.entry.before = reading.entry.after /\ reading.entry.after \in {O!Fingerprint(O!Named), None}
               /\ O!Done(Hashed(reading.entry, reading.digest))
            \/ O!Done([reading.entry EXCEPT !.observation = "unstable"])
<1>1. step = "bind" /\ frames' = frames /\ bytes' = bytes /\ issue' = issue
  BY DEF O!BindFile
<1>2. PICK b \in {O!Fingerprint(O!Named), None} :
        IF reading.entry.before = reading.entry.after /\ b = reading.entry.after
          THEN O!Done(Hashed(reading.entry, reading.digest))
          ELSE O!Done([reading.entry EXCEPT !.observation = "unstable"])
  BY Zenon DEF O!BindFile, Hashed
<1> QED
  BY <1>1, <1>2, Zenon

(* What was read buffer by buffer is the content.                          *)
LEMMA SameBytes == \A s, d \in Seq(Nat), k, t \in Nat : Len(s) = t /\ Len(d) = k /\ t = k /\ (\A i \in 1..k : d[i] = s[i]) => d = s
OBVIOUS

(* BindFile: the digest is of what the file had, and it is where it was    *)
(* opened.                                                                 *)
LEMMA BindFileKeeps ==
  ASSUME OrbitInv, O!Scan, O!BindFile
  PROVE  OrbitInv'
<1> DEFINE e == reading.entry
           h == reading.handle
<1>0. TreeOK /\ FramesOK /\ ReadingOK
  BY DEF OrbitInv
<1>1. /\ step = "bind" /\ frames' = frames /\ bytes' = bytes /\ issue' = issue
      /\ \/ e.before = e.after /\ e.after \in {O!Fingerprint(O!Named), None} /\ O!Done(Hashed(e, reading.digest))
         \/ O!Done([e EXCEPT !.observation = "unstable"])
  BY BindFileIs
<1>2. Quiet /\ step \in Picked
  BY <1>1, ScanIsQuiet DEF Picked
<1>3. CASE O!Done([e EXCEPT !.observation = "unstable"])
  <2>1. PICK f : f = [e EXCEPT !.observation = "unstable"]
    OBVIOUS
  <2> QED
    BY <1>1, <1>2, <1>3, <2>1, GiveUpKeeps
<1>4. CASE e.before = e.after /\ e.after \in {O!Fingerprint(O!Named), None} /\ O!Done(Hashed(e, reading.digest))
  <2>1. /\ reading \in Readings /\ e \in Entries /\ h \in 1..Len(node) /\ reading.digest \in Seq(Nat) /\ node[h].kind = "file"
        /\ e.kind = "file" /\ e.read \in Nat /\ e.read <= MaxFile /\ e.before # None /\ e.before.node = h
        /\ bytes = Reads(entries) + e.read /\ bytes <= MaxTotal
    BY <1>1, ReadingIs
  <2>2. e.before.bytes = e.read
    BY <1>0, <1>1 DEF ReadingOK
  <2>3. PICK f : f = Hashed(e, reading.digest)
    OBVIOUS
  <2>4. f \in Entries /\ EntryOK(f) /\ f.kind = "file" /\ f.observation = "hashed" /\ f.read = e.read /\ f.sha256 = reading.digest
    BY <1>4, <2>1, <2>2, <2>3, HashedIs
  <2>5. O!Put(O!Here, f) /\ step' = "name"
    BY <1>4, <2>3 DEF O!Done
  <2>6. /\ frames # << >> /\ Top.name \in FileNames /\ O!Here = Append(Top.path, Top.name)
        /\ O!Named = Child(node, Top.dir, Top.name) /\ O!Named \in 0..Len(node)
    BY <1>2, PickedAre
  <2>7. O!Named = h /\ e.before.changed = node[h].changed
    <3>1. e.before = O!Fingerprint(O!Named) /\ O!Fingerprint(O!Named) # None
      BY <1>4, <2>1
    <3>2. O!Named # 0
      BY <3>1, NoPrint
    <3>3. PICK i : i = O!Named
      OBVIOUS
    <3>4. Len(node) \in Nat
      BY <1>0 DEF TreeOK, O!Tree
    <3>5. i \in 1..Len(node)
      BY <2>6, <3>2, <3>3, <3>4
    <3>6. O!Fingerprint(i).node = i /\ O!Fingerprint(i).changed = node[i].changed
      BY <1>0, <3>5, Prints
    <3> QED
      BY <2>1, <3>1, <3>3, <3>6
  <2>8. ASSUME ~hidden PROVE f.sha256 = node[h].data /\ node[h].data \in O!Data
    <3>1. node[h].data \in Seq(Nat) /\ node[h].data \in O!Data
      BY <1>0, <2>1, NodesAre
    <3>2. Len(node[h].data) = e.before.bytes /\ Len(reading.digest) = e.read /\ \A i \in 1..e.read : reading.digest[i] = node[h].data[i]
      BY <1>0, <1>1, <2>7, <2>8 DEF ReadingOK
    <3>3. reading.digest = node[h].data
      <4>1. PICK s \in Seq(Nat) : s = node[h].data
        BY <3>1
      <4>2. PICK d \in Seq(Nat) : d = reading.digest
        BY <2>1
      <4>3. PICK k \in Nat : k = e.read
        BY <2>1
      <4>4. Len(s) = k /\ Len(d) = k /\ \A i \in 1..k : d[i] = s[i]
        BY <2>2, <3>2, <4>1, <4>2, <4>3
      <4> QED
        BY <4>1, <4>2, <4>4, SameBytes
    <3> QED
      BY <2>4, <3>1, <3>3
  <2>9. ASSUME ~hidden, Attached PROVE Claim(entries', held, Append(Top.path, Top.name))
    <3>1. Len(frames) \in 1..Len(frames) /\ Top = frames[Len(frames)] /\ Top.path \in Seq(FileNames)
      BY <1>0, <2>6, TopAre
    <3>2. O!At(Top.path) = Top.dir
      BY <1>0, <2>9, <3>1, AttachedAt
    <3>3. O!At(Append(Top.path, Top.name)) = Child(node, O!At(Top.path), Top.name)
      BY <2>6, <3>1, AtAppend, AtNow
    <3>4. O!At(Append(Top.path, Top.name)) = h
      BY <2>6, <2>7, <3>2, <3>3
    <3>5. entries' = With(entries, Append(Top.path, Top.name), f)
      BY <2>5, <2>6, PutIs
    <3>6. PICK q : q = Append(Top.path, Top.name)
      OBVIOUS
    <3>7. entries'[q] = f
      <4>1. With(entries, q, f)[q] = f
        BY DEF With
      <4> QED
        BY <3>5, <3>6, <4>1
    <3>8. q \in O!Inspected
      <4>1. /\ Top.name \in FileNames \ Unsafe /\ Unseen(entries, Top.path, Top.name)
        BY <1>2, PickedAre
      <4>2. PutName(Top.name, f)
        BY <2>4, <2>6, <3>5, <4>1 DEF PutName
      <4> QED
        BY <1>0, <3>6, <4>2, PutPath DEF OrbitInv
    <3>9. Claim(entries', held, q)
      BY <1>0, <2>1, <2>4, <2>8, <2>9, <3>4, <3>6, <3>7, <3>8, FileSeen
    <3> QED
      BY <3>6, <3>9
  <2>10. bytes' = Reads(entries) + f.read /\ bytes' <= MaxTotal
    BY <1>1, <2>1, <2>4
  <2> QED
    BY <1>1, <1>2, <2>4, <2>5, <2>8, <2>9, <2>10, DoneKeeps
<1> QED
  BY <1>1, <1>3, <1>4

-----------------------------------------------------------------------------
(* A directory in the directory.                                           *)
Unwalked == IF O!Depth >= MaxDepth THEN "budget" ELSE "unreadable"
(* OpenDir opens what the name leads to, or nothing.                       *)
LEMMA OpenDirIs ==
  ASSUME O!OpenDir
  PROVE  /\ step = "opendir" /\ bytes' = bytes /\ issue' = issue
         /\ \E i \in {O!Named, 0} :
              /\ i # 0 => node[i].kind = "dir"
              /\ \E b \in {O!Fingerprint(i), None} :
                   O!Put(O!Here, Unopened(Unwalked, b, "dir"))
              /\ \/ step' = "name" /\ frames' = frames
                 \/ O!Depth < MaxDepth /\ i # 0 /\ step' = "list" /\ frames' = Append(frames, O!Frame(i, O!Here))
<1>1. step = "opendir" /\ bytes' = bytes /\ issue' = issue
  BY DEF O!OpenDir
<1>2. PICK i : i = IF O!Child(O!Top.dir, O!Top.name) # 0 /\ node[O!Named].kind = "dir" THEN O!Named ELSE 0
  OBVIOUS
<1>3. i \in {O!Named, 0} /\ (i # 0 => node[i].kind = "dir")
  BY <1>2
<1>4. PICK child \in {i, 0}, b \in {O!Fingerprint(i), None} :
        /\ O!Put(O!Here, Unopened(Unwalked, b, "dir"))
        /\ IF O!Depth < MaxDepth /\ child # 0
             THEN frames' = Append(frames, O!Frame(child, O!Here)) /\ step' = "list"
             ELSE step' = "name" /\ frames' = frames
  BY <1>2, Zenon DEF O!OpenDir, Unopened, Unwalked
<1>5. \/ step' = "name" /\ frames' = frames
      \/ O!Depth < MaxDepth /\ i # 0 /\ step' = "list" /\ frames' = Append(frames, O!Frame(i, O!Here))
  BY <1>4, Zenon
<1> QED
  BY <1>1, <1>3, <1>4, <1>5

(* OpenDir: an entry that is not to be trusted yet, and perhaps a frame.   *)
LEMMA OpenDirKeeps ==
  ASSUME OrbitInv, O!Scan, O!OpenDir
  PROVE  OrbitInv'
<1>0. TreeOK /\ FramesOK /\ BudgetOK
  BY DEF OrbitInv
<1>1. step = "opendir" /\ bytes' = bytes /\ issue' = issue
  BY OpenDirIs
<1>a. PICK i \in {O!Named, 0} :
        /\ i # 0 => node[i].kind = "dir"
        /\ \E b \in {O!Fingerprint(i), None} : O!Put(O!Here, Unopened(Unwalked, b, "dir"))
        /\ \/ step' = "name" /\ frames' = frames
           \/ O!Depth < MaxDepth /\ i # 0 /\ step' = "list" /\ frames' = Append(frames, O!Frame(i, O!Here))
  BY OpenDirIs
<1>2. PICK b \in {O!Fingerprint(i), None} :
        /\ i # 0 => node[i].kind = "dir"
        /\ O!Put(O!Here, Unopened(Unwalked, b, "dir"))
        /\ \/ step' = "name" /\ frames' = frames
           \/ O!Depth < MaxDepth /\ i # 0 /\ step' = "list" /\ frames' = Append(frames, O!Frame(i, O!Here))
  BY <1>a
<1>3. Quiet /\ step \in Picked
  BY <1>1, ScanIsQuiet DEF Picked
<1>4. /\ frames # << >> /\ Top.name \in FileNames \ Unsafe /\ Unseen(entries, Top.path, Top.name)
      /\ O!Here = Append(Top.path, Top.name)
      /\ O!Named = Child(node, Top.dir, Top.name) /\ O!Named \in 0..Len(node)
  BY <1>3, PickedAre
<1>5. i # 0 => i \in 1..Len(node) /\ node[i].kind = "dir" /\ i = Child(node, Top.dir, Top.name)
  <2>1. Len(node) \in Nat
    BY <1>0 DEF TreeOK, O!Tree
  <2> QED
    BY <1>2, <1>4, <2>1
<1>6. b \in O!Fingerprints \union {None}
  <2>1. CASE i = 0
    BY <1>2, <2>1, NoPrint
  <2>2. CASE i # 0
    BY <1>0, <1>5, <2>2, Prints
  <2> QED
    BY <2>1, <2>2
<1>7. PICK e : e = Unopened(Unwalked, b, "dir")
  OBVIOUS
<1>8. e \in Entries /\ EntryOK(e) /\ e.kind = "dir" /\ e.observation \notin Good /\ e.read = 0 /\ e.sha256 = None
  <2>1. PICK o : o = Unwalked
    OBVIOUS
  <2>2. o \in Observed \ Good
    BY <2>1 DEF Unwalked, Observed, Good
  <2>3. e = [O!Entry("dir", o) EXCEPT !.before = b]
    BY <1>7, <2>1 DEF Unopened
  <2>4. "dir" \in {"file", "dir", "other"}
    OBVIOUS
  <2> QED
    BY <1>6, <2>2, <2>3, <2>4, EntryIs
<1>9. O!Put(O!Here, e)
  BY <1>2, <1>7
<1>10. bytes = Reads(entries) + 0 /\ bytes <= MaxTotal
  BY <1>0, <1>1 DEF BudgetOK
<1>11. CASE step' = "name" /\ frames' = frames
  <2>1. bytes' = Reads(entries) + e.read /\ bytes' <= MaxTotal
    BY <1>1, <1>8, <1>10
  <2> QED
    BY <1>1, <1>3, <1>8, <1>9, <1>11, <2>1, DoneKeeps
<1>12. CASE O!Depth < MaxDepth /\ i # 0 /\ step' = "list" /\ frames' = Append(frames, O!Frame(i, O!Here))
  <2>1. i \in 1..Len(node) /\ node[i].kind = "dir" /\ i = Child(node, Top.dir, Top.name)
    BY <1>5, <1>12
  <2>2. PICK q : q = O!Here
    OBVIOUS
  <2>3. NamedPath(q, Top.name)
    BY <1>4, <2>2 DEF NamedPath
  <2>4. PICK f : f = [dir |-> i, path |-> q, before |-> O!Fingerprint(i), todo |-> {}, name |-> 0]
    OBVIOUS
  <2>5. Entered(frames, frames', f)
    BY <1>12, <2>2, <2>4 DEF Entered, O!Frame
  <2>6. Len(frames) - 1 < MaxDepth
    BY <1>12 DEF O!Depth
  <2>7. PutName(Top.name, e)
    <3>1. entries' = With(entries, Append(Top.path, Top.name), e)
      BY <1>4, <1>9, PutIs
    <3> QED
      BY <1>4, <1>8, <3>1 DEF PutName
  <2>8. step' = "list"
    BY <1>12
  <2> QED
    BY <1>1, <1>3, <1>8, <2>1, <2>3, <2>4, <2>5, <2>6, <2>7, <2>8, EnterKeeps
<1> QED
  BY <1>2, <1>11, <1>12

(* A directory that was walked.                                            *)
After(e, a) == [e EXCEPT !.after = a]
(* The entry with the last fingerprint of the directory.                   *)
LEMMA AfterIs ==
  ASSUME NEW e \in Entries, e.observation \notin Good, EntryOK(e), NEW a \in O!Fingerprints \union {None}
  PROVE  /\ After(e, a) \in Entries /\ EntryOK(After(e, a)) /\ After(e, a).kind = e.kind /\ After(e, a).read = e.read
         /\ After(e, a).sha256 = e.sha256 /\ After(e, a).observation = e.observation /\ After(e, a).after = a
<1> DEFINE f == After(e, a)
<1>1. /\ f \in Entries /\ f.observation = e.observation /\ f.sha256 = e.sha256 /\ f.kind = e.kind /\ f.read = e.read
      /\ f.after = a
  BY DEF After, Entries
<1> HIDE DEF f
<1>2. EntryOK(f)
  BY <1>1 DEF EntryOK, Good
<1> QED
  BY <1>1, <1>2 DEF f

(* AfterDir: the size and the time once more.                              *)
LEMMA AfterDirKeeps ==
  ASSUME OrbitInv, O!Scan, O!AfterDir
  PROVE  OrbitInv'
<1>0. TreeOK /\ FramesOK /\ EntriesOK
  BY DEF OrbitInv
<1>1. step = "after" /\ step' = "binddir" /\ frames' = frames /\ bytes' = bytes /\ issue' = issue
  BY DEF O!AfterDir
<1>2. PICK a \in {O!Fingerprint(O!Top.dir), None} : O!Put(O!Top.path, [entries[O!Top.path] EXCEPT !.after = a])
  BY DEF O!AfterDir
<1>3. Quiet /\ step \in Looked
  BY <1>1, ScanIsQuiet DEF Looked
<1>4. PICK t : t = Top.path
  OBVIOUS
<1>5. /\ frames # << >> /\ entries[t] \in Entries /\ EntryOK(entries[t]) /\ entries[t].observation \notin Good
  BY <1>0, <1>3, <1>4, LookedAt
<1>6. /\ O!Fingerprint(Top.dir) \in O!Fingerprints /\ O!Fingerprint(Top.dir).node = Top.dir
  BY <1>0, <1>5, TopAre, Prints
<1>7. a \in O!Fingerprints \union {None} /\ (a = None \/ a.node = Top.dir)
  BY <1>2, <1>6, TopIs
<1>8. PICK e : e = After(entries[t], a)
  OBVIOUS
<1>9. /\ e \in Entries /\ EntryOK(e) /\ e.kind = entries[t].kind /\ e.read = entries[t].read /\ e.sha256 = entries[t].sha256
      /\ e.observation = entries[t].observation /\ e.after = a
  BY <1>5, <1>7, <1>8, AfterIs
<1>10. entries' = With(entries, t, e)
  BY <1>2, <1>4, <1>8, TopIs, PutIs DEF After
<1>11. PutTop(t, e)
  BY <1>3, <1>4, <1>9, <1>10 DEF PutTop
<1> QED
  BY <1>1, <1>3, <1>7, <1>9, <1>11, AfterKeeps

Verdict(e, o) == [e EXCEPT !.observation = o]
(* The entry with its verdict.                                             *)
LEMMA VerdictIs ==
  ASSUME NEW e \in Entries, e.sha256 = None, e.read = 0, e.kind = "dir", NEW o, o \in {"directory", "unstable"},
         o = "directory" => e.before # None /\ e.before = e.after
  PROVE  /\ Verdict(e, o) \in Entries /\ EntryOK(Verdict(e, o)) /\ Verdict(e, o).kind = e.kind /\ Verdict(e, o).read = e.read
         /\ Verdict(e, o).sha256 = e.sha256 /\ Verdict(e, o).observation = o
<1> DEFINE f == Verdict(e, o)
<1>1. /\ f \in Entries /\ f.observation = o /\ f.sha256 = e.sha256 /\ f.kind = e.kind /\ f.read = e.read /\ f.before = e.before
      /\ f.after = e.after
  BY DEF Verdict, Entries, Observed, Good
<1> HIDE DEF f
<1>2. EntryOK(f)
  BY <1>1, ConstantsAre DEF EntryOK
<1> QED
  BY <1>1, <1>2 DEF f

(* BindDir: the name in the directory around it leads to the directory     *)
(* that was walked.                                                        *)
LEMMA BindDirKeeps ==
  ASSUME OrbitInv, O!Scan, O!BindDir
  PROVE  OrbitInv'
<1>0. TreeOK /\ FramesOK /\ EntriesOK
  BY DEF OrbitInv
<1>1. step = "binddir" /\ step' = "name" /\ bytes' = bytes /\ issue' = issue /\ Left(frames, frames')
  BY DEF O!BindDir, Left
<1> DEFINE parent == frames[Len(frames) - 1]
           i == O!Child(parent.dir, parent.name)
           bound == IF i # 0 /\ node[i].kind = "dir" THEN O!Fingerprint(i) ELSE None
<1>2. PICK t : t = Top.path
  OBVIOUS
<1>3. PICK b \in {bound, None} :
        O!Put(t, Verdict(entries[t], IF entries[t].before # None /\ entries[t].before = entries[t].after /\ b = entries[t].after
                                     THEN "directory" ELSE "unstable"))
  BY <1>2, TopIs DEF O!BindDir, Verdict
<1>4. Quiet /\ step \in Looked
  BY <1>1, ScanIsQuiet DEF Looked
<1>5. /\ frames # << >> /\ Len(frames) \in Nat /\ Len(frames) \in 2..Len(frames) /\ Len(frames) - 1 \in 1..Len(frames)
      /\ entries[t] \in Entries /\ entries[t].kind = "dir" /\ entries[t].read = 0 /\ entries[t].sha256 = None
      /\ entries[t].after = None \/ entries[t].after.node = Top.dir
  BY <1>0, <1>1, <1>2, <1>4, LookedAt
<1>6. PICK o : o = IF entries[t].before # None /\ entries[t].before = entries[t].after /\ b = entries[t].after
                   THEN "directory" ELSE "unstable"
  OBVIOUS
<1>7. PICK e : e = Verdict(entries[t], o)
  OBVIOUS
<1>8. /\ e \in Entries /\ EntryOK(e) /\ e.kind = entries[t].kind /\ e.read = entries[t].read
      /\ e.sha256 = entries[t].sha256 /\ e.observation = o
  BY <1>5, <1>6, <1>7, VerdictIs
<1>9. entries' = With(entries, t, e)
  BY <1>3, <1>6, <1>7, PutIs
<1>10. PutTop(t, e)
  BY <1>2, <1>4, <1>8, <1>9 DEF PutTop
<1>11. ASSUME o = "directory" PROVE Child(node, frames[Len(frames) - 1].dir, frames[Len(frames) - 1].name) = Top.dir
  <2>1. b = bound /\ b # None /\ b = entries[t].after /\ b.node = Top.dir
    BY <1>3, <1>5, <1>6, <1>11
  <2>2. i # 0 /\ b = O!Fingerprint(i)
    BY <2>1
  <2>3. parent.name \in FileNames /\ parent.dir \in 1..Len(node)
    BY <1>0, <1>5, FramesNest, FramesAre
  <2>4. parent.dir \in 0..Len(node) /\ Len(node) \in Nat
    BY <1>0, <2>3 DEF TreeOK, O!Tree
  <2>5. i \in 0..Len(node) /\ i = Child(node, parent.dir, parent.name)
    BY <1>0, <2>3, <2>4, ChildIs
  <2>6. PICK j : j = i
    OBVIOUS
  <2>7. j \in 1..Len(node)
    BY <2>2, <2>4, <2>5, <2>6
  <2>8. O!Fingerprint(j).node = j
    BY <1>0, <2>7, Prints
  <2> QED
    BY <2>1, <2>2, <2>5, <2>6, <2>8
<1>12. "unstable" \notin Good
  BY DEF Good
<1> QED
  BY <1>1, <1>4, <1>6, <1>8, <1>10, <1>11, <1>12, LeaveKeeps

-----------------------------------------------------------------------------
(* The beginning and the end of a scan.                                    *)
(* With no directory open and no entry.                                    *)
LEMMA EmptyIs ==
  /\ IsFiniteSet({}) /\ Cardinality({}) = 0 /\ 0 <= MaxEntries /\ 0 <= MaxTotal
  /\ \A es : DOMAIN es = {} => Reads(es) = 0
BY FS_EmptySet, ConstantsAre, ReadsNone

(* OpenRoot: from here on everything is held that is at a path.            *)
LEMMA OpenRootKeeps ==
  ASSUME OrbitInv, O!Scan, O!OpenRoot
  PROVE  OrbitInv'
<1>0. TreeOK /\ FramesOK /\ Ahead /\ EntriesOK /\ BudgetOK /\ BaselineOK
  BY DEF OrbitInv
<1>1. step = "begin" /\ entries' = entries /\ bytes' = bytes
  BY DEF O!OpenRoot
<1>2. /\ node' = node /\ root' = root /\ now' = now /\ hidden' = hidden /\ job' = job /\ late' = late
      /\ baseline' = baseline /\ held' = O!HeldNow /\ heldThen' = heldThen
  BY <1>1 DEF O!Scan
<1>3. DOMAIN entries = {} /\ bytes = 0
  BY <1>0, <1>1 DEF Ahead
<1>4. TreeOK'
  BY <1>0, <1>2, TreeStays
<1>5. BaselineOK'
  BY <1>0, <1>2, BaselineStays
<1>6. issue \in BOOLEAN /\ late \in BOOLEAN /\ job \in {"capture", "check"}
  BY <1>0 DEF FramesOK
<1>7. root \in 1..Len(node) /\ node[root].kind = "dir" /\ Len(node) \in Nat
  BY <1>0 DEF TreeOK, O!Tree
<1>8. CASE step' = "list" /\ frames' = <<O!Frame(root, O!Root)>> /\ issue' = issue
  <2>1. PICK f : f = O!Frame(root, O!Root)
    OBVIOUS
  <2>2. /\ O!Fingerprint(root) \in O!Fingerprints /\ O!Fingerprint(root).node = root
        /\ O!Fingerprint(root).changed = node[root].changed /\ node[root].changed \in Nat
    BY <1>0, <1>7, Prints, NodesAre
  <2>3. f = [dir |-> root, path |-> << >>, before |-> O!Fingerprint(root), todo |-> {}, name |-> 0]
    BY <2>1 DEF O!Frame, O!Root
  <2>4. /\ f \in Frames /\ f.dir = root /\ f.path = << >> /\ f.before = O!Fingerprint(root) /\ f.todo = {}
    <3>1. root \in Nat /\ << >> \in Seq(FileNames \ Unsafe)
      BY <1>7
    <3> QED
      BY <2>2, <2>3, <3>1 DEF Frames
  <2>5. frames' = <<f>>
    BY <1>8, <2>1
  <2>6. frames' \in Seq(Frames) /\ Len(frames') = 1 /\ frames'[1] = f /\ frames' # << >>
    BY <2>4, <2>5
  <2>7. step' \in Walking /\ step' \notin Looked /\ step' \notin Picked /\ step' \notin {"finish", "begin", "end", "done", "read", "bind"}
    BY <1>8 DEF Walking, Looked, Picked
  <2>8. \A k \in 1..1 : k = 1
    OBVIOUS
  <2>9. FramesOK'
    <3>1. 1 <= MaxDepth + 1
      BY ConstantsAre
    <3>2. ASSUME NEW k \in 1..Len(frames')
          PROVE  /\ frames'[k].dir \in 1..Len(node') /\ node'[frames'[k].dir].kind = "dir"
                 /\ Len(frames'[k].path) = k - 1 /\ \A j \in 1..(k - 1) : frames'[k].path[j] = frames'[j].name
      <4>1. k = 1
        BY <2>6, <2>8
      <4>2. Len(f.path) = 1 - 1 /\ \A j \in 1..(1 - 1) : FALSE
        BY <2>4
      <4> QED
        BY <1>2, <1>7, <2>4, <2>6, <4>1, <4>2
    <3> QED
      BY <1>2, <1>6, <1>8, <2>6, <2>7, <3>1, <3>2 DEF FramesOK
  <2>10. Ahead'
    <3>1. DOMAIN entries' = {}
      BY <1>1, <1>3
    <3> QED
      BY <2>7, <3>1 DEF Ahead, Unseen
  <2>11. EntriesOK'
    <3>1. \A k \in 2..1 : FALSE
      OBVIOUS
    <3>2. \A k \in 2..Len(frames') : FALSE
      BY <2>6, <3>1
    <3>3. /\ IsFiniteSet(DOMAIN entries') /\ entries' \in [DOMAIN entries' -> Entries] /\ DOMAIN entries' \subseteq O!Inspected
          /\ \A p \in DOMAIN entries' : O!Range(p) \intersect Unsafe = {} /\ EntryOK(entries'[p])
      BY <1>0, <1>1 DEF EntriesOK
    <3> QED
      BY <3>2, <3>3 DEF EntriesOK, EntryOK
  <2>12. BudgetOK' /\ ReadingOK'
    <3>1. step \notin {"read", "bind"}
      BY <1>1
    <3> QED
      BY <1>0, <1>1, <2>7, <3>1, BudgetPlain
  <2>13. ListingsOK'
    <3>1. ASSUME NEW k \in 1..Len(frames')
          PROVE  k = 1 /\ frames'[k].before.node = frames'[k].dir /\ frames'[k].before.changed <= node'[frames'[k].dir].changed
      <4>1. k = 1
        BY <2>6, <2>8
      <4> QED
        BY <1>2, <2>2, <2>4, <2>6, <4>1
    <3>2. ~(1 < Len(frames')) /\ step' \in {"list", "finish"} \union Looked
      BY <1>8, <2>6
    <3> QED
      BY <3>1, <3>2 DEF ListingsOK
  <2>14. TruthOK'
    BY <1>1, <1>3, <2>7 DEF TruthOK, Settled
  <2> QED
    BY <1>4, <1>5, <2>9, <2>10, <2>11, <2>12, <2>13, <2>14 DEF OrbitInv
<1>9. CASE step' = "end" /\ frames' = << >> /\ issue' = TRUE
  <2>1. step' \notin Walking /\ step' \notin Looked /\ step' \notin Picked /\ step' \notin {"finish", "begin", "list", "listing", "read", "bind", "binddir"}
    BY <1>9 DEF Walking, Looked, Picked
  <2>2. frames' \in Seq(Frames) /\ Len(frames') = 0 /\ 0 <= MaxDepth + 1
    BY <1>9, ConstantsAre
  <2>3. FramesOK'
    BY <1>2, <1>6, <1>9, <2>1, <2>2 DEF FramesOK
  <2>4. Ahead'
    BY <2>1, <2>2 DEF Ahead
  <2>5. EntriesOK'
    <3>1. \A k \in 2..0 : FALSE
      OBVIOUS
    <3>2. \A k \in 2..Len(frames') : FALSE
      BY <2>2, <3>1
    <3>3. /\ IsFiniteSet(DOMAIN entries') /\ entries' \in [DOMAIN entries' -> Entries] /\ DOMAIN entries' \subseteq O!Inspected
          /\ \A p \in DOMAIN entries' : O!Range(p) \intersect Unsafe = {} /\ EntryOK(entries'[p])
      BY <1>0, <1>1 DEF EntriesOK
    <3> QED
      BY <3>2, <3>3 DEF EntriesOK, EntryOK
  <2>6. BudgetOK' /\ ReadingOK'
    <3>1. step \notin {"read", "bind"}
      BY <1>1
    <3> QED
      BY <1>0, <1>1, <2>1, <3>1, BudgetPlain
  <2>7. ListingsOK'
    BY <2>2 DEF ListingsOK
  <2>8. TruthOK'
    BY <1>1, <1>3, <1>9 DEF TruthOK, Reliable
  <2> QED
    BY <1>4, <1>5, <2>3, <2>4, <2>5, <2>6, <2>7, <2>8 DEF OrbitInv
<1> QED
  BY <1>8, <1>9 DEF O!OpenRoot

(* The last directory is left, or the scan is over.                        *)
LEMMA EndsKeep ==
  ASSUME OrbitInv, Quiet, step \in {"finish", "end"}, step' \in {"end", "done"}, frames' = << >>, entries' = entries, bytes' = bytes,
         issue' \in BOOLEAN, ~issue' /\ Reliable' => Reliable /\ Settled' \subseteq Settled
  PROVE  OrbitInv'
<1>0. TreeOK /\ FramesOK /\ EntriesOK /\ BudgetOK /\ TruthOK /\ BaselineOK
  BY DEF OrbitInv
<1>1. /\ step' \notin Walking /\ step' \notin Looked /\ step' \notin Picked
      /\ step' \notin {"finish", "begin", "list", "listing", "read", "bind", "binddir"} /\ step \notin {"read", "bind"}
  BY DEF Walking, Looked, Picked
<1>2. frames' \in Seq(Frames) /\ Len(frames') = 0 /\ 0 <= MaxDepth + 1
  BY ConstantsAre
<1>3. late' \in BOOLEAN /\ job' \in {"capture", "check"}
  BY <1>0 DEF FramesOK, Quiet
<1>4. FramesOK'
  BY <1>1, <1>2, <1>3 DEF FramesOK
<1>5. Ahead'
  BY <1>1, <1>2 DEF Ahead
<1>6. EntriesOK'
  <2>1. \A k \in 2..0 : FALSE
    OBVIOUS
  <2>2. \A k \in 2..Len(frames') : FALSE
    BY <1>2, <2>1
  <2>3. /\ IsFiniteSet(DOMAIN entries') /\ entries' \in [DOMAIN entries' -> Entries] /\ DOMAIN entries' \subseteq O!Inspected
        /\ \A p \in DOMAIN entries' : O!Range(p) \intersect Unsafe = {} /\ EntryOK(entries'[p])
    BY <1>0 DEF EntriesOK
  <2> QED
    BY <2>2, <2>3 DEF EntriesOK, EntryOK
<1>7. BudgetOK' /\ ReadingOK'
  BY <1>0, <1>1, BudgetPlain
<1>8. ListingsOK'
  BY <1>2 DEF ListingsOK
<1>9. TruthOK'
  <2>1. ~hidden' => \A p \in DOMAIN entries' : entries'[p].sha256 # None => entries'[p].sha256 \in O!Data
    BY <1>0 DEF TruthOK, Quiet
  <2>2. ASSUME Reliable', NEW q \in Settled' PROVE Claim(entries', held', q)
    <3>1. Reliable /\ q \in Settled
      BY <2>2 DEF Reliable
    <3>2. Claim(entries, held, q)
      BY <1>0, <3>1 DEF TruthOK
    <3> QED
      BY <3>2 DEF Quiet
  <2> QED
    BY <2>1, <2>2 DEF TruthOK
<1>10. TreeOK'
  BY <1>0, TreeStays DEF Quiet
<1>11. BaselineOK'
  BY <1>0, BaselineStays DEF Quiet
<1> QED
  BY <1>4, <1>5, <1>6, <1>7, <1>8, <1>9, <1>10, <1>11 DEF OrbitInv

-----------------------------------------------------------------------------
(* Finish: the root is still at its path.                                  *)
LEMMA FinishKeeps ==
  ASSUME OrbitInv, O!Scan, O!Finish
  PROVE  OrbitInv'
<1>0. TreeOK /\ FramesOK
  BY DEF OrbitInv
<1>1. /\ step = "finish" /\ step' = "end" /\ frames' = << >> /\ entries' = entries /\ bytes' = bytes /\ issue' \in BOOLEAN
      /\ (~issue' => ~issue /\ O!Fingerprint(Top.dir) = O!Fingerprint(root))
  BY <1>0, TopIs DEF O!Finish, FramesOK
<1>2. Quiet
  BY <1>1, ScanIsQuiet
<1>3. Len(frames) = 1 /\ frames # << >>
  BY <1>0, <1>1 DEF FramesOK
<1>4. Top = frames[1] /\ Top.path = O!Root /\ Top.dir \in 1..Len(node)
  BY <1>0, <1>3, TopAre, FirstIsRoot
<1>5. ASSUME ~issue', Reliable' PROVE Reliable /\ Settled' \subseteq Settled
  <2>1. ~hidden /\ ~issue
    BY <1>1, <1>2, <1>5 DEF Reliable, Quiet
  <2>2. Top.dir = root
    <3>1. root \in 1..Len(node)
      BY <1>0 DEF TreeOK
    <3>2. O!Fingerprint(Top.dir).node = Top.dir
      BY <1>0, <1>4, Prints
    <3>3. O!Fingerprint(root).node = root
      BY <1>0, <3>1, Prints
    <3> QED
      BY <1>1, <1>5, <3>2, <3>3
  <2>3. Attached
    <3>1. \A k \in 1..1 : k = 1
      OBVIOUS
    <3> QED
      BY <1>3, <1>4, <2>2, <3>1 DEF Attached
  <2>4. OpenPaths(frames') = {}
    <3>1. Len(frames') = 0
      BY <1>1
    <3>2. \A k \in 2..0 : FALSE
      OBVIOUS
    <3> QED
      BY <3>1, <3>2 DEF OpenPaths
  <2>5. \A p \in DOMAIN entries : entries[p].observation \in Good
    BY <1>1, <1>5, <2>4 DEF Reliable
  <2>6. Reliable
    BY <2>1, <2>3, <2>5 DEF Reliable
  <2>7. Settled' \subseteq Settled
    BY <1>1, <1>4 DEF Settled, Looked
  <2> QED
    BY <2>6, <2>7
<1> QED
  BY <1>1, <1>2, <1>5, EndsKeep

(* EndScan: nothing is reported that was not said.                         *)
LEMMA EndScanKeeps ==
  ASSUME OrbitInv, O!Scan, O!EndScan
  PROVE  OrbitInv'
<1>0. FramesOK
  BY DEF OrbitInv
<1>1. /\ step = "end" /\ step' = "done" /\ frames' = frames /\ entries' = entries /\ bytes' = bytes /\ issue' \in BOOLEAN
      /\ (~issue' => ~issue)
  BY <1>0 DEF O!EndScan, FramesOK
<1>2. Quiet
  BY <1>1, ScanIsQuiet
<1>3. frames = << >>
  BY <1>0, <1>1 DEF FramesOK, Walking, Picked, Looked
<1>4. ASSUME ~issue', Reliable' PROVE Reliable /\ Settled' \subseteq Settled
  <2>1. Reliable
    BY <1>1, <1>2, <1>4 DEF Reliable, Attached, Quiet
  <2>2. Settled' \subseteq Settled
    BY <1>1 DEF Settled, Looked
  <2> QED
    BY <2>1, <2>2
<1> QED
  BY <1>1, <1>2, <1>3, <1>4, EndsKeep

(* Every step of a scan.                                                   *)
LEMMA ScanKeeps ==
  ASSUME OrbitInv, O!Scan
  PROVE  OrbitInv'
<1>1. O!Steps
  BY DEF O!Scan
<1> QED
  BY <1>1, OpenRootKeeps, ListKeeps, ListedKeeps, NextNameKeeps, NamesEndKeeps, OpenFileKeeps, ReadKeeps, ReadEndKeeps,
     BindFileKeeps, OpenDirKeeps, AfterDirKeeps, BindDirKeeps, FinishKeeps, EndScanKeeps, Zenon DEF O!Steps

-----------------------------------------------------------------------------
(* The deadline passes, or nothing happens.                                *)
LEMMA StillKeeps ==
  ASSUME OrbitInv, node' = node, root' = root, now' = now, hidden' = hidden, job' = job, baseline' = baseline, held' = held,
         heldThen' = heldThen, step' = step, frames' = frames, reading' = reading, entries' = entries, bytes' = bytes,
         issue' = issue, late' \in BOOLEAN
  PROVE  OrbitInv'
<1>0. TreeOK /\ FramesOK /\ Ahead /\ EntriesOK /\ BudgetOK /\ ReadingOK /\ ListingsOK /\ TruthOK /\ BaselineOK
  BY DEF OrbitInv
<1>1. TreeOK'
  BY <1>0, TreeStays
<1>2. FramesOK'
  BY <1>0 DEF FramesOK, Top
<1>3. Ahead'
  BY <1>0 DEF Ahead, Top
<1>4. EntriesOK'
  BY <1>0 DEF EntriesOK
<1>5. BudgetOK'
  BY <1>0 DEF BudgetOK
<1>6. ReadingOK'
  BY <1>0 DEF ReadingOK
<1>7. ListingsOK'
  BY <1>0 DEF ListingsOK
<1>8. TruthOK'
  BY <1>0 DEF TruthOK, Reliable, Attached, Settled, Top
<1>9. BaselineOK'
  BY <1>0, BaselineStays
<1> QED
  BY <1>1, <1>2, <1>3, <1>4, <1>5, <1>6, <1>7, <1>8, <1>9 DEF OrbitInv

(* Expire: the deadline passes.                                            *)
LEMMA ExpireKeeps ==
  ASSUME OrbitInv, O!Expire
  PROVE  OrbitInv'
<1>1. /\ node' = node /\ root' = root /\ now' = now /\ hidden' = hidden /\ job' = job /\ baseline' = baseline /\ held' = held
      /\ heldThen' = heldThen /\ step' = step /\ frames' = frames /\ reading' = reading /\ entries' = entries /\ bytes' = bytes
      /\ issue' = issue /\ late' \in BOOLEAN
  BY DEF O!Expire, O!scan
<1> QED
  BY <1>1, StillKeeps

(* What a complete scan says.                                              *)
Told(es) ==
  /\ DOMAIN es \subseteq O!Inspected
  /\ \A p \in DOMAIN es : \/ es[p].kind = "file" /\ es[p].sha256 \in O!Data
                          \/ es[p].kind = "dir" /\ es[p].sha256 = None
(* A complete scan has no open directory left, and says nothing that was   *)
(* not there.                                                              *)
LEMMA WholeIs ==
  ASSUME OrbitInv, step = "done", ~hidden, O!Complete
  PROVE  Told(entries) /\ \A q \in DOMAIN entries \union {O!Root} : Claim(entries, held, q)
<1>0. FramesOK /\ EntriesOK /\ TruthOK
  BY DEF OrbitInv
<1>1. ~issue /\ \A p \in DOMAIN entries : entries[p].observation \in Good
  BY DEF O!Complete, Good
<1>2. frames = << >>
  BY <1>0 DEF FramesOK, Walking, Picked, Looked
<1>3. Reliable
  BY <1>1, <1>2 DEF Reliable, Attached
<1>4. Settled = DOMAIN entries \union {O!Root}
  BY <1>1 DEF Settled, Looked
<1>5. \A q \in DOMAIN entries \union {O!Root} : Claim(entries, held, q)
  BY <1>0, <1>3, <1>4 DEF TruthOK
<1>6. ASSUME NEW p \in DOMAIN entries
      PROVE  \/ entries[p].kind = "file" /\ entries[p].sha256 \in O!Data
             \/ entries[p].kind = "dir" /\ entries[p].sha256 = None
  <2>1. EntryOK(entries[p])
    BY <1>0 DEF EntriesOK
  <2>2. entries[p].sha256 # None => entries[p].sha256 \in O!Data
    BY <1>0 DEF TruthOK
  <2>3. CASE entries[p].observation = "hashed"
    BY <2>1, <2>2, <2>3 DEF EntryOK
  <2>4. CASE entries[p].observation = "directory"
    BY <2>1, <2>4 DEF EntryOK
  <2> QED
    BY <1>1, <2>3, <2>4 DEF Good
<1> QED
  BY <1>0, <1>5, <1>6 DEF EntriesOK, Told

(* A complete scan becomes the baseline.                                   *)
LEMMA CaptureKeeps ==
  ASSUME OrbitInv, O!Capture
  PROVE  OrbitInv'
<1>0. TreeOK /\ FramesOK /\ EntriesOK /\ TruthOK
  BY DEF OrbitInv
<1>1. /\ step = "done" /\ job = "capture" /\ baseline' = entries /\ heldThen' = held /\ job' = "check" /\ step' = "begin"
      /\ entries' = << >> /\ bytes' = 0 /\ late' = FALSE /\ node' = node /\ root' = root /\ now' = now /\ hidden' = hidden
      /\ frames' = frames /\ issue' = issue /\ held' = held
      /\ ~issue /\ \A p \in DOMAIN entries : entries[p].observation \in Good
  BY DEF O!Capture, O!Complete, Good
<1>2. frames = << >> /\ issue \in BOOLEAN
  BY <1>0, <1>1 DEF FramesOK, Walking, Picked, Looked
<1>3. frames' \in Seq(Frames) /\ Len(frames') = 0 /\ 0 <= MaxDepth + 1 /\ frames' = << >>
  BY <1>1, <1>2, ConstantsAre
<1>4. step' \notin Walking /\ step' \notin Looked /\ step' \notin Picked /\ step' \notin {"finish", "end", "done", "list", "listing", "read", "bind", "binddir"}
  BY <1>1 DEF Walking, Looked, Picked
<1>5. DOMAIN entries' = {} /\ entries' \in [DOMAIN entries' -> Entries]
  BY <1>1
<1>6. TreeOK'
  BY <1>0, <1>1, TreeStays
<1>7. FramesOK'
  <2>1. late' \in BOOLEAN /\ issue' \in BOOLEAN /\ job' \in {"capture", "check"} /\ step' \in {"begin", "end", "done"} \union Walking
    BY <1>1, <1>2
  <2>2. \A k \in 1..0 : FALSE
    OBVIOUS
  <2> QED
    BY <1>3, <1>4, <2>1, <2>2 DEF FramesOK
<1>8. Ahead'
  BY <1>1, <1>3, <1>4, <1>5 DEF Ahead
<1>9. EntriesOK'
  <2>1. \A k \in 2..0 : FALSE
    OBVIOUS
  <2>2. \A k \in 2..Len(frames') : FALSE
    BY <1>3, <2>1
  <2>3. IsFiniteSet(DOMAIN entries') /\ DOMAIN entries' \subseteq O!Inspected
    BY <1>5, EmptyIs
  <2> QED
    BY <1>5, <2>2, <2>3 DEF EntriesOK
<1>10. BudgetOK'
  <2>1. Cardinality(DOMAIN entries') <= MaxEntries /\ Reads(entries') = 0 /\ 0 <= MaxTotal
    BY <1>5, EmptyIs
  <2> QED
    BY <1>1, <1>4, <2>1 DEF BudgetOK
<1>11. ReadingOK'
  BY <1>4 DEF ReadingOK
<1>12. ListingsOK'
  BY <1>3 DEF ListingsOK
<1>13. TruthOK'
  BY <1>4, <1>5 DEF TruthOK, Settled
<1>14. BaselineOK'
  <2>1. ~hidden => Told(entries) /\ \A q \in DOMAIN entries \union {O!Root} : Claim(entries, held, q)
    BY <1>1, WholeIs DEF O!Complete, Good
  <2> QED
    BY <1>1, <2>1 DEF BaselineOK, Told
<1> QED
  BY <1>6, <1>7, <1>8, <1>9, <1>10, <1>11, <1>12, <1>13, <1>14 DEF OrbitInv

-----------------------------------------------------------------------------
(* Other programs change one file or directory and may make one; what is   *)
(* of the same time is the same, unless changes are hidden.                *)
Allowed(v, m) ==
  /\ v \in O!Nodes /\ (v.kind = "dir" => v.data = << >>) /\ (v.kind # "dir" => \A n \in FileNames : v.names[n] = 0)
  /\ \A n \in FileNames : v.names[n] <= m
Grown ==
  /\ O!Tree(node') /\ Len(node') \in Nat /\ Len(node) <= Len(node')
  /\ root' \in 1..Len(node') /\ node'[root'].kind = "dir" /\ (root' = root \/ root' > Len(node))
  /\ now' \in Nat /\ hidden' \in BOOLEAN /\ (hidden => hidden')
  /\ \A j \in 1..Len(node') : node'[j].changed <= now'
  /\ \A j \in 1..Len(node) :
       /\ node'[j].kind = node[j].kind /\ node[j].changed <= node'[j].changed
       /\ ~hidden' /\ node'[j].changed = node[j].changed => node'[j] = node[j]
       /\ \A n \in FileNames : node'[j].names[n] = node[j].names[n] \/ node'[j].names[n] = 0 \/ node'[j].names[n] > Len(node)
(* Every node but i is as it was, and the new one, if any, is at the end.  *)
One(i, v) ==
  /\ node' \in Seq(O!Nodes) /\ Len(node') \in {Len(node), Len(node) + 1} /\ node'[i] = v
  /\ \A j \in 1..Len(node) : j # i => node'[j] = node[j]
Made(v, w) ==
  /\ Len(node') = Len(node) + 1 => node'[Len(node) + 1] = w /\ Allowed(w, Len(node')) /\ w.changed <= now'
  /\ Allowed(v, Len(node'))

(* A tree, node by node.                                                   *)
LEMMA TreeIs ==
  /\ \A nd : O!Tree(nd) <=> nd \in Seq(O!Nodes) /\ \A j \in 1..Len(nd) : Allowed(nd[j], Len(nd))
<1> SUFFICES ASSUME NEW nd PROVE O!Tree(nd) <=> nd \in Seq(O!Nodes) /\ \A j \in 1..Len(nd) : Allowed(nd[j], Len(nd))
  OBVIOUS
<1>1. ASSUME nd \in Seq(O!Nodes) PROVE DOMAIN nd = 1..Len(nd) /\ \A j \in 1..Len(nd) : nd[j] \in O!Nodes
  BY <1>1
<1>2. ASSUME O!Tree(nd) PROVE nd \in Seq(O!Nodes) /\ \A j \in 1..Len(nd) : Allowed(nd[j], Len(nd))
  BY <1>1, <1>2 DEF O!Tree, Allowed
<1>3. ASSUME nd \in Seq(O!Nodes), \A j \in 1..Len(nd) : Allowed(nd[j], Len(nd)) PROVE O!Tree(nd)
  BY <1>1, <1>3 DEF O!Tree, Allowed
<1> QED
  BY <1>2, <1>3

(* From one length to the next.                                            *)
LEMMA Longer == \A m, k \in Nat : k \in {m, m + 1} => m <= k /\ \A j \in 1..k : j \in 1..m \/ (k = m + 1 /\ j = m + 1)
OBVIOUS

(* A change of one node, with or without a new one, lets the tree grow.    *)
LEMMA ChangeGrows ==
  ASSUME TreeOK, NEW i \in 1..Len(node), NEW v, NEW w, One(i, v), Made(v, w), root' = root,
         now' \in {now, now + 1}, hidden' = (hidden \/ node[i].changed = now'), v.changed = now', v.kind = node[i].kind,
         \A n \in FileNames : v.names[n] = node[i].names[n] \/ v.names[n] = 0 \/ v.names[n] > Len(node)
  PROVE  Grown
<1>1. Len(node) \in Nat /\ root \in 1..Len(node) /\ node[root].kind = "dir" /\ now \in Nat /\ hidden \in BOOLEAN
  BY DEF TreeOK, O!Tree
<1>2. now' \in Nat /\ now <= now'
  BY <1>1
<1>3. /\ node' \in Seq(O!Nodes) /\ Len(node') \in Nat /\ Len(node) <= Len(node') /\ node'[i] = v
      /\ \A j \in 1..Len(node) : j # i => node'[j] = node[j]
      /\ \A j \in 1..Len(node') : j \in 1..Len(node) \/ (Len(node') = Len(node) + 1 /\ j = Len(node) + 1)
  <2>1. Len(node') \in Nat /\ Len(node') \in {Len(node), Len(node) + 1}
    BY <1>1 DEF One
  <2> QED
    BY <1>1, <2>1, Longer DEF One
<1>4. ASSUME NEW j \in 1..Len(node)
      PROVE  node[j].changed \in Nat /\ node[j].changed <= now /\ Allowed(node[j], Len(node'))
  <2>1. node[j].changed \in Nat /\ node[j].changed <= now
    BY NodesAre DEF TreeOK
  <2>2. Allowed(node[j], Len(node))
    BY TreeIs DEF TreeOK
  <2>3. \A n \in FileNames : node[j].names[n] \in Nat
    BY <1>1, NodesAre
  <2>4. \A n \in FileNames : node[j].names[n] <= Len(node')
    <3>1. \A a, b, c \in Nat : a <= b /\ b <= c => a <= c
      OBVIOUS
    <3> QED
      BY <1>1, <1>3, <2>2, <2>3, <3>1 DEF Allowed
  <2> QED
    BY <2>1, <2>2, <2>4 DEF Allowed
<1>5. ASSUME NEW j \in 1..Len(node') PROVE Allowed(node'[j], Len(node')) /\ node'[j].changed <= now'
  <2>1. CASE j \in 1..Len(node) /\ j # i
    BY <1>1, <1>2, <1>3, <1>4, <2>1
  <2>2. CASE j = i
    <3>1. Allowed(v, Len(node'))
      BY DEF Made
    <3> QED
      BY <1>2, <1>3, <2>2, <3>1
  <2>3. CASE Len(node') = Len(node) + 1 /\ j = Len(node) + 1
    BY <2>3 DEF Made
  <2> QED
    BY <1>3, <2>1, <2>2, <2>3
<1>6. O!Tree(node')
  BY <1>3, <1>5, TreeIs
<1>7. ASSUME NEW j \in 1..Len(node)
      PROVE  /\ node'[j].kind = node[j].kind /\ node[j].changed <= node'[j].changed
             /\ ~hidden' /\ node'[j].changed = node[j].changed => node'[j] = node[j]
             /\ \A n \in FileNames : node'[j].names[n] = node[j].names[n] \/ node'[j].names[n] = 0 \/ node'[j].names[n] > Len(node)
  <2>1. CASE j # i
    BY <1>3, <1>4, <2>1
  <2>2. CASE j = i
    <3>1. node'[j] = v
      BY <1>3, <2>2
    <3>2. node[j].changed <= now'
      BY <1>1, <1>2, <1>4
    <3>3. ~hidden' => node[j].changed # now'
      BY <2>2
    <3> QED
      BY <2>2, <3>1, <3>2, <3>3
  <2> QED
    BY <2>1, <2>2
<1>8. root' \in 1..Len(node') /\ node'[root'].kind = "dir"
  BY <1>1, <1>3, <1>7
<1>9. hidden' \in BOOLEAN /\ (hidden => hidden')
  BY <1>1
<1> QED
  BY <1>2, <1>3, <1>5, <1>6, <1>7, <1>8, <1>9 DEF Grown

-----------------------------------------------------------------------------
Timed(v, t) == [v EXCEPT !.changed = t]
(* A node that is changed now.                                             *)
LEMMA TimedIs ==
  ASSUME NEW v \in O!Nodes, NEW t \in Nat
  PROVE  /\ Timed(v, t) \in O!Nodes /\ Timed(v, t).changed = t /\ Timed(v, t).kind = v.kind /\ Timed(v, t).data = v.data
         /\ Timed(v, t).names = v.names
BY DEF Timed, O!Nodes

WithLast(fs, w) == fs \o <<w>>
(* A sequence with one more element.                                       *)
LEMMA WithLastIs ==
  ASSUME NEW S, NEW fs \in Seq(S), NEW w \in S
  PROVE  /\ fs \o << >> = fs
         /\ WithLast(fs, w) \in Seq(S) /\ Len(WithLast(fs, w)) = Len(fs) + 1 /\ WithLast(fs, w)[Len(fs) + 1] = w
         /\ \A j \in 1..Len(fs) : WithLast(fs, w)[j] = fs[j]
BY DEF WithLast

(* One change, with or without a new file or directory.                    *)
LEMMA ChangeIs ==
  ASSUME TreeOK, NEW i \in 1..Len(node), NEW new, new \in O!Nodes, NEW more, O!Change(i, new, more), NEW w \in O!Nodes,
         more = << >> \/ more = <<w>>
  PROVE  /\ now' \in {now, now + 1} /\ now' \in Nat /\ hidden' = (hidden \/ node[i].changed = now') /\ One(i, Timed(new, now'))
         /\ more = << >> => Len(node') = Len(node)
         /\ more = <<w>> => Len(node') = Len(node) + 1 /\ node'[Len(node) + 1] = w
<1>1. /\ now' \in {now, now + 1} /\ hidden' = (hidden \/ node[i].changed = now')
      /\ node' = [node EXCEPT ![i] = Timed(new, now')] \o more
  BY DEF O!Change, Timed
<1>2. now' \in Nat /\ node \in Seq(O!Nodes) /\ Len(node) \in Nat
  BY <1>1 DEF TreeOK, O!Tree
<1>3. PICK v : v = Timed(new, now')
  OBVIOUS
<1>4. v \in O!Nodes
  BY <1>2, <1>3, TimedIs
<1>5. PICK fs : fs = [node EXCEPT ![i] = v]
  OBVIOUS
<1>6. fs \in Seq(O!Nodes) /\ Len(fs) = Len(node) /\ fs[i] = v /\ \A j \in 1..Len(node) : j # i => fs[j] = node[j]
  BY <1>2, <1>4, <1>5, Replaced
<1>7. node' = fs \o more
  BY <1>1, <1>3, <1>5
<1>8. i \in 1..Len(fs) /\ \A j \in 1..Len(node) : j \in 1..Len(fs)
  BY <1>6
<1>9. CASE more = << >>
  <2>1. node' = fs
    BY <1>4, <1>6, <1>7, <1>9, WithLastIs
  <2>2. One(i, v)
    BY <1>2, <1>6, <2>1 DEF One
  <2>3. << >> # <<w>>
    OBVIOUS
  <2> QED
    BY <1>1, <1>2, <1>3, <1>6, <1>9, <2>1, <2>2, <2>3
<1>10. CASE more = <<w>>
  <2>1. /\ node' \in Seq(O!Nodes) /\ Len(node') = Len(fs) + 1 /\ node'[Len(fs) + 1] = w
        /\ \A j \in 1..Len(fs) : node'[j] = fs[j]
    <3>1. PICK g : g = WithLast(fs, w)
      OBVIOUS
    <3>2. g \in Seq(O!Nodes) /\ Len(g) = Len(fs) + 1 /\ g[Len(fs) + 1] = w /\ \A j \in 1..Len(fs) : g[j] = fs[j]
      <4>1. fs \in Seq(O!Nodes) /\ w \in O!Nodes
        BY <1>6
      <4>2. /\ WithLast(fs, w) \in Seq(O!Nodes) /\ Len(WithLast(fs, w)) = Len(fs) + 1 /\ WithLast(fs, w)[Len(fs) + 1] = w
            /\ \A j \in 1..Len(fs) : WithLast(fs, w)[j] = fs[j]
        <5>1. \A gs \in Seq(O!Nodes), x \in O!Nodes : WithLast(gs, x) \in Seq(O!Nodes)
          BY WithLastIs
        <5>2. \A gs \in Seq(O!Nodes), x \in O!Nodes : Len(WithLast(gs, x)) = Len(gs) + 1
          BY WithLastIs
        <5>3. \A gs \in Seq(O!Nodes), x \in O!Nodes : WithLast(gs, x)[Len(gs) + 1] = x
          BY WithLastIs
        <5>4. \A gs \in Seq(O!Nodes), x \in O!Nodes : \A j \in 1..Len(gs) : WithLast(gs, x)[j] = gs[j]
          BY WithLastIs
        <5> QED
          BY <4>1, <5>1, <5>2, <5>3, <5>4
      <4> QED
        BY <3>1, <4>2
    <3> QED
      BY <1>7, <1>10, <3>1, <3>2 DEF WithLast
  <2>2. Len(node') = Len(node) + 1 /\ node'[Len(node) + 1] = w
    BY <1>6, <2>1
  <2>3. node'[i] = v /\ \A j \in 1..Len(node) : j # i => node'[j] = node[j]
    BY <1>6, <1>8, <2>1
  <2>4. One(i, v)
    BY <2>1, <2>2, <2>3 DEF One
  <2>5. << >> # <<w>>
    OBVIOUS
  <2> QED
    BY <1>1, <1>2, <1>3, <1>10, <2>2, <2>4, <2>5
<1> QED
  BY <1>9, <1>10

(* What is made has nothing in it.                                         *)
LEMMA NewIs ==
  ASSUME NEW kind \in {"file", "dir", "other"}, NEW data \in O!Data, kind = "dir" => data = << >>
  PROVE  /\ O!New(kind, data) \in O!Nodes /\ O!New(kind, data).kind = kind /\ O!New(kind, data).data = data
         /\ O!New(kind, data).changed = 0 /\ \A n \in FileNames : O!New(kind, data).names[n] = 0
BY DEF O!New, O!Nodes

(* What is made is a node that leads nowhere.                              *)
LEMMA MadeIs == \A v \in O!Made : v \in O!Nodes /\ (v.kind = "dir" => v.data = << >>) /\ \A n \in FileNames : v.names[n] = 0
<1>1. ASSUME NEW c \in Contents
      PROVE  /\ O!New("file", c) \in O!Nodes /\ O!New("file", c).kind = "file"
             /\ \A n \in FileNames : O!New("file", c).names[n] = 0
  <2>1. c \in O!Data
    BY DEF O!Data
  <2> QED
    BY <2>1, NewIs
<1>2. /\ O!New("dir", << >>) \in O!Nodes /\ O!New("dir", << >>).data = << >>
      /\ \A n \in FileNames : O!New("dir", << >>).names[n] = 0
  BY ConstantsAre, NewIs
<1>3. /\ O!New("other", << >>) \in O!Nodes /\ O!New("other", << >>).data = << >>
      /\ \A n \in FileNames : O!New("other", << >>).names[n] = 0
  BY ConstantsAre, NewIs
<1> QED
  BY <1>1, <1>2, <1>3 DEF O!Made

(* Write, Unlink, Place and ReplaceRoot let the tree grow.                 *)
LEMMA WriteGrows ==
  ASSUME TreeOK, O!Write, root' = root
  PROVE  Grown
<1>1. PICK i \in DOMAIN node, c \in O!Data : node[i].kind = "file" /\ O!Change(i, [node[i] EXCEPT !.data = c], << >>)
  BY DEF O!Write
<1>2. i \in 1..Len(node) /\ Len(node) \in Nat
  BY <1>1 DEF TreeOK, O!Tree
<1>3. /\ node[i] \in O!Nodes /\ \A n \in FileNames : node[i].names[n] = 0
  BY <1>1, <1>2, NodesAre
<1>4. PICK u : u = [node[i] EXCEPT !.data = c]
  OBVIOUS
<1>5. u \in O!Nodes /\ u.kind = "file" /\ u.names = node[i].names
  BY <1>1, <1>3, <1>4 DEF O!Nodes
<1>6. O!Change(i, u, << >>)
  BY <1>1, <1>4
<1>7. /\ now' \in {now, now + 1} /\ now' \in Nat /\ hidden' = (hidden \/ node[i].changed = now') /\ One(i, Timed(u, now'))
      /\ Len(node') = Len(node)
  BY <1>2, <1>3, <1>5, <1>6, ChangeIs
<1>8. PICK v : v = Timed(u, now')
  OBVIOUS
<1>9. v \in O!Nodes /\ v.changed = now' /\ v.kind = "file" /\ \A n \in FileNames : v.names[n] = 0
  <2>1. v \in O!Nodes /\ v.changed = now' /\ v.kind = u.kind /\ v.names = u.names
    BY <1>5, <1>7, <1>8, TimedIs
  <2> QED
    BY <1>3, <1>5, <2>1
<1>10. Made(v, v)
  <2>1. Len(node') # Len(node) + 1 /\ 0 <= Len(node')
    BY <1>2, <1>7
  <2> QED
    BY <1>9, <2>1 DEF Made, Allowed
<1> QED
  BY <1>1, <1>2, <1>7, <1>8, <1>9, <1>10, ChangeGrows

LEMMA UnlinkGrows ==
  ASSUME TreeOK, O!Unlink, root' = root
  PROVE  Grown
<1>1. PICK d \in DOMAIN node, m \in FileNames : node[d].names[m] # 0 /\ O!Change(d, [node[d] EXCEPT !.names[m] = 0], << >>)
  BY DEF O!Unlink
<1>2. d \in 1..Len(node) /\ Len(node) \in Nat
  BY <1>1 DEF TreeOK, O!Tree
<1>3. /\ node[d] \in O!Nodes /\ node[d].kind = "dir" /\ node[d].data = << >> /\ \A n \in FileNames : node[d].names[n] \in 0..Len(node)
  BY <1>1, <1>2, NodesAre DEF O!Nodes
<1>4. PICK u : u = [node[d] EXCEPT !.names[m] = 0]
  OBVIOUS
<1>5. /\ u \in O!Nodes /\ u.kind = "dir" /\ u.data = << >> /\ \A n \in FileNames : u.names[n] = node[d].names[n] \/ u.names[n] = 0
  BY <1>3, <1>4 DEF O!Nodes
<1>6. O!Change(d, u, << >>)
  BY <1>1, <1>4
<1>7. /\ now' \in {now, now + 1} /\ now' \in Nat /\ hidden' = (hidden \/ node[d].changed = now') /\ One(d, Timed(u, now'))
      /\ Len(node') = Len(node)
  BY <1>2, <1>3, <1>5, <1>6, ChangeIs
<1>8. PICK v : v = Timed(u, now')
  OBVIOUS
<1>9. /\ v \in O!Nodes /\ v.changed = now' /\ v.kind = "dir" /\ v.data = << >>
      /\ \A n \in FileNames : v.names[n] = node[d].names[n] \/ v.names[n] = 0
  BY <1>5, <1>7, <1>8, TimedIs
<1>10. Made(v, v)
  <2>1. Len(node') # Len(node) + 1
    BY <1>2, <1>7
  <2>2. \A n \in FileNames : v.names[n] <= Len(node')
    BY <1>2, <1>3, <1>7, <1>9
  <2> QED
    BY <1>9, <2>1, <2>2 DEF Made, Allowed
<1> QED
  BY <1>2, <1>3, <1>7, <1>8, <1>9, <1>10, ChangeGrows

LEMMA PlaceGrows ==
  ASSUME TreeOK, O!Place, root' = root
  PROVE  Grown
<1>1. PICK d \in DOMAIN node, m \in FileNames, new \in O!Made :
        /\ node[d].kind = "dir"
        /\ O!Change(d, [node[d] EXCEPT !.names[m] = Len(node) + 1], <<[new EXCEPT !.changed = now']>>)
  BY DEF O!Place
<1>2. d \in 1..Len(node) /\ Len(node) \in Nat
  BY <1>1 DEF TreeOK, O!Tree
<1>3. /\ node[d] \in O!Nodes /\ node[d].data = << >> /\ \A n \in FileNames : node[d].names[n] \in 0..Len(node)
  BY <1>1, <1>2, NodesAre
<1>4. PICK k \in Nat : k = Len(node) + 1
  BY <1>2
<1>5. PICK u : u = [node[d] EXCEPT !.names[m] = k]
  OBVIOUS
<1>6. /\ u \in O!Nodes /\ u.kind = "dir" /\ u.data = << >> /\ \A n \in FileNames : u.names[n] = node[d].names[n] \/ u.names[n] = k
  BY <1>1, <1>3, <1>5 DEF O!Nodes
<1>7. now' \in Nat
  BY <1>1 DEF O!Change, TreeOK
<1>8. PICK w : w = Timed(new, now')
  OBVIOUS
<1>9. w \in O!Nodes /\ w.changed = now' /\ (w.kind = "dir" => w.data = << >>) /\ \A n \in FileNames : w.names[n] = 0
  <2>1. new \in O!Nodes /\ (new.kind = "dir" => new.data = << >>) /\ \A n \in FileNames : new.names[n] = 0
    BY MadeIs
  <2> QED
    BY <1>7, <1>8, <2>1, TimedIs
<1>10. O!Change(d, u, <<w>>)
  BY <1>1, <1>4, <1>5, <1>8 DEF Timed
<1>11. /\ now' \in {now, now + 1} /\ hidden' = (hidden \/ node[d].changed = now') /\ One(d, Timed(u, now'))
       /\ Len(node') = Len(node) + 1 /\ node'[Len(node) + 1] = w
  BY <1>2, <1>6, <1>9, <1>10, ChangeIs
<1>12. PICK v : v = Timed(u, now')
  OBVIOUS
<1>13. /\ v \in O!Nodes /\ v.changed = now' /\ v.kind = "dir" /\ v.data = << >>
       /\ \A n \in FileNames : v.names[n] = node[d].names[n] \/ v.names[n] = k
  BY <1>6, <1>7, <1>12, TimedIs
<1>14. Made(v, w)
  <2>1. \A n \in FileNames : v.names[n] <= Len(node')
    BY <1>2, <1>3, <1>4, <1>11, <1>13
  <2>2. \A n \in FileNames : w.names[n] <= Len(node')
    BY <1>2, <1>9, <1>11
  <2>3. w.changed <= now'
    BY <1>7, <1>9
  <2> QED
    BY <1>9, <1>11, <1>13, <2>1, <2>2, <2>3 DEF Made, Allowed
<1>15. \A n \in FileNames : v.names[n] = node[d].names[n] \/ v.names[n] = 0 \/ v.names[n] > Len(node)
  BY <1>2, <1>4, <1>13
<1> QED
  BY <1>1, <1>2, <1>11, <1>12, <1>13, <1>14, <1>15, ChangeGrows

-----------------------------------------------------------------------------
LEMMA RootGrows ==
  ASSUME TreeOK, O!ReplaceRoot
  PROVE  Grown
<1>1. /\ node' = Append(node, O!New("dir", << >>)) /\ root' = Len(node) + 1 /\ now' = now /\ hidden' = hidden
  BY DEF O!ReplaceRoot
<1>2. Len(node) \in Nat /\ node \in Seq(O!Nodes) /\ now \in Nat /\ hidden \in BOOLEAN
  BY DEF TreeOK, O!Tree
<1>3. PICK w : w = O!New("dir", << >>)
  OBVIOUS
<1>4. w \in O!Nodes /\ w.kind = "dir" /\ w.data = << >> /\ w.changed = 0 /\ \A n \in FileNames : w.names[n] = 0
  BY <1>3, ConstantsAre, NewIs
<1>5. /\ node' \in Seq(O!Nodes) /\ Len(node') = Len(node) + 1 /\ node'[Len(node) + 1] = w
      /\ \A j \in 1..Len(node) : node'[j] = node[j]
  BY <1>1, <1>2, <1>3, <1>4
<1>6. \A j \in 1..Len(node') : j \in 1..Len(node) \/ j = Len(node) + 1
  BY <1>2, <1>5
<1>7. ASSUME NEW j \in 1..Len(node) PROVE Allowed(node[j], Len(node')) /\ node[j].changed <= now /\ node[j].changed \in Nat
  <2>1. Allowed(node[j], Len(node)) /\ node[j].changed <= now /\ node[j].changed \in Nat
    BY TreeIs, NodesAre DEF TreeOK
  <2>2. \A n \in FileNames : node[j].names[n] \in 0..Len(node)
    BY NodesAre
  <2>3. \A n \in FileNames : node[j].names[n] <= Len(node')
    BY <1>2, <1>5, <2>2
  <2> QED
    BY <2>1, <2>3 DEF Allowed
<1>8. Allowed(w, Len(node'))
  BY <1>2, <1>4, <1>5 DEF Allowed
<1>9. ASSUME NEW j \in 1..Len(node') PROVE Allowed(node'[j], Len(node')) /\ node'[j].changed <= now'
  <2>1. CASE j \in 1..Len(node)
    BY <1>1, <1>5, <1>7, <2>1
  <2>2. CASE j = Len(node) + 1
    BY <1>1, <1>2, <1>4, <1>5, <1>8, <2>2
  <2> QED
    BY <1>6, <2>1, <2>2
<1>10. O!Tree(node')
  BY <1>5, <1>9, TreeIs
<1>11. ASSUME NEW j \in 1..Len(node)
       PROVE  /\ node'[j] = node[j] /\ node'[j].kind = node[j].kind /\ node[j].changed <= node'[j].changed
              /\ \A n \in FileNames : node'[j].names[n] = node[j].names[n]
  BY <1>5, <1>7
<1>12. root' \in 1..Len(node') /\ node'[root'].kind = "dir" /\ root' > Len(node) /\ Len(node') \in Nat /\ Len(node) <= Len(node')
  BY <1>1, <1>2, <1>4, <1>5
<1> QED
  BY <1>1, <1>2, <1>9, <1>10, <1>11, <1>12 DEF Grown

(* So does every step of other programs, and what was at a path is kept.   *)
LEMMA OthersGrow ==
  ASSUME TreeOK, O!Others
  PROVE  Grown
BY WriteGrows, PlaceGrows, UnlinkGrows, RootGrows DEF O!Others

-----------------------------------------------------------------------------
(* What grows keeps what a scan has said: a directory that lost its place  *)
(* never gets it back, and what is of the same time is the same.           *)
LEMMA GrownAttached ==
  ASSUME TreeOK, FramesOK, Grown, frames' = frames, Attached'
  PROVE  Attached
<1>1. ASSUME NEW k \in 1..Len(frames) PROVE frames[k].dir = IF k = 1 THEN root ELSE Child(node, frames[k - 1].dir, frames[k - 1].name)
  <2>1. frames[k].dir \in 1..Len(node) /\ Len(node) \in Nat /\ root \in 1..Len(node) /\ Len(frames) \in Nat
    BY FramesAre DEF TreeOK, O!Tree
  <2>2. frames[k].dir = IF k = 1 THEN root' ELSE Child(node', frames[k - 1].dir, frames[k - 1].name)
    BY DEF Attached
  <2>3. CASE k = 1
    BY <2>1, <2>2, <2>3 DEF Grown
  <2>4. CASE k # 1
    <3>1. k \in 2..Len(frames) /\ k - 1 \in 1..Len(frames)
      BY <2>1, <2>4
    <3>2. PICK d : d = frames[k - 1].dir
      OBVIOUS
    <3>3. PICK n : n = frames[k - 1].name
      OBVIOUS
    <3>4. d \in 1..Len(node) /\ node[d].kind = "dir" /\ n \in FileNames /\ d # 0
      <4>1. d \in 1..Len(node) /\ node[d].kind = "dir"
        BY <3>1, <3>2, FramesAre
      <4>2. n \in FileNames
        BY <3>1, <3>3, FramesNest
      <4> QED
        BY <2>1, <4>1, <4>2
    <3>5. /\ node'[d].kind = node[d].kind
          /\ node'[d].names[n] = node[d].names[n] \/ node'[d].names[n] = 0 \/ node'[d].names[n] > Len(node)
      BY <3>4 DEF Grown
    <3>6. frames[k].dir = node'[d].names[n]
      BY <2>2, <2>4, <3>2, <3>3, <3>4, <3>5 DEF Child
    <3>7. frames[k].dir = node[d].names[n]
      BY <2>1, <3>5, <3>6
    <3> QED
      BY <2>4, <3>2, <3>3, <3>4, <3>7 DEF Child
  <2> QED
    BY <2>3, <2>4
<1> QED
  BY <1>1 DEF Attached

(* Others: while times tell changes apart, what was observed was there,    *)
(* and what was detached stays so.                                         *)
LEMMA OthersKeep ==
  ASSUME OrbitInv, O!Others
  PROVE  OrbitInv'
<1>0. TreeOK /\ FramesOK /\ Ahead /\ EntriesOK /\ BudgetOK /\ ReadingOK /\ ListingsOK /\ TruthOK /\ BaselineOK
  BY DEF OrbitInv
<1>1. /\ job' = job /\ late' = late /\ baseline' = baseline /\ heldThen' = heldThen /\ step' = step /\ frames' = frames
      /\ reading' = reading /\ entries' = entries /\ bytes' = bytes /\ issue' = issue
      /\ held' = [p \in DOMAIN held |-> held[p] \union {O!ShownAt(p)'}]
  BY DEF O!Others, O!scan
<1>2. Grown
  BY <1>0, OthersGrow
<1>3. DOMAIN held = Everywhere /\ DOMAIN heldThen = Everywhere /\ Len(node) \in Nat
  BY <1>0 DEF TreeOK, O!Tree
<1>4. \A p \in Everywhere : held'[p] = held[p] \union {O!ShownAt(p)'}
  BY <1>1, <1>3
<1>5. TreeOK'
  <2>1. DOMAIN held' = Everywhere /\ DOMAIN heldThen' = Everywhere
    BY <1>1, <1>3
  <2>2. \A p \in Everywhere : O!ShownAt(p)' \in held'[p]
    BY <1>4
  <2>3. /\ O!Tree(node') /\ root' \in 1..Len(node') /\ node'[root'].kind = "dir"
        /\ now' \in Nat /\ hidden' \in BOOLEAN /\ \A i \in 1..Len(node') : node'[i].changed <= now'
    BY <1>2 DEF Grown
  <2> QED
    BY <2>1, <2>2, <2>3 DEF TreeOK
<1>6. ASSUME NEW i \in 1..Len(node)
      PROVE  /\ i \in 1..Len(node') /\ node'[i].kind = node[i].kind
             /\ node[i].changed \in Nat /\ node'[i].changed \in Nat /\ node[i].changed <= node'[i].changed
             /\ ~hidden' /\ node'[i].changed = node[i].changed => node'[i] = node[i]
  <2>1. Len(node) <= Len(node') /\ Len(node') \in Nat /\ O!Tree(node')
    BY <1>2 DEF Grown
  <2>2. i \in 1..Len(node')
    BY <1>3, <2>1
  <2>3. node[i].changed \in Nat
    BY <1>0, NodesAre
  <2>4. node'[i].changed \in Nat
    <3>1. node'[i] \in O!Nodes
      BY <2>1, <2>2, TreeIs DEF Allowed
    <3> QED
      BY <3>1 DEF O!Nodes
  <2>5. /\ node'[i].kind = node[i].kind /\ node[i].changed <= node'[i].changed
        /\ ~hidden' /\ node'[i].changed = node[i].changed => node'[i] = node[i]
    BY <1>2 DEF Grown
  <2> QED
    BY <2>2, <2>3, <2>4, <2>5
<1>7. FramesOK'
  <2>1. ASSUME NEW k \in 1..Len(frames)
        PROVE  frames[k].dir \in 1..Len(node') /\ node'[frames[k].dir].kind = "dir"
    <3>1. frames[k].dir \in 1..Len(node) /\ node[frames[k].dir].kind = "dir"
      BY <1>0, FramesAre
    <3> QED
      BY <1>6, <3>1
  <2> QED
    BY <1>0, <1>1, <2>1 DEF FramesOK, Top
<1>8. Ahead'
  BY <1>0, <1>1 DEF Ahead, Top
<1>9. EntriesOK'
  BY <1>0, <1>1 DEF EntriesOK
<1>10. BudgetOK'
  BY <1>0, <1>1 DEF BudgetOK
<1>11. ReadingOK'
  <2>1. SUFFICES ASSUME step \in {"read", "bind"}
                 PROVE  LET e == reading.entry
                            h == reading.handle
                        IN /\ reading \in Readings /\ h \in 1..Len(node') /\ node'[h].kind = "file"
                           /\ e.kind = "file" /\ e.observation = "unreadable" /\ e.sha256 = None
                           /\ e.before # None /\ e.before.node = h /\ e.before.changed <= node'[h].changed
                           /\ e.read <= e.before.bytes /\ e.before.bytes <= MaxFile /\ (step = "bind" => e.read = e.before.bytes)
                           /\ ~hidden' /\ e.before.changed = node'[h].changed =>
                                /\ Len(node'[h].data) = e.before.bytes /\ Len(reading.digest) = e.read
                                /\ \A i \in 1..e.read : reading.digest[i] = node'[h].data[i]
    BY <1>1, Zenon DEF ReadingOK
  <2> DEFINE e == reading.entry
             h == reading.handle
  <2>2. /\ reading \in Readings /\ h \in 1..Len(node) /\ node[h].kind = "file"
        /\ e.kind = "file" /\ e.observation = "unreadable" /\ e.sha256 = None
        /\ e.before # None /\ e.before.node = h /\ e.before.changed <= node[h].changed
        /\ e.read <= e.before.bytes /\ e.before.bytes <= MaxFile /\ (step = "bind" => e.read = e.before.bytes)
        /\ ~hidden /\ e.before.changed = node[h].changed =>
             /\ Len(node[h].data) = e.before.bytes /\ Len(reading.digest) = e.read
             /\ \A i \in 1..e.read : reading.digest[i] = node[h].data[i]
    BY <1>0, <2>1 DEF ReadingOK
  <2>3. e.before.changed \in Nat
    BY <2>1, ReadingIs
  <2>4. /\ h \in 1..Len(node') /\ node'[h].kind = node[h].kind
        /\ node[h].changed \in Nat /\ node'[h].changed \in Nat /\ node[h].changed <= node'[h].changed
        /\ ~hidden' /\ node'[h].changed = node[h].changed => node'[h] = node[h]
    BY <1>6, <2>2
  <2>5. hidden => hidden'
    BY <1>2 DEF Grown
  <2>6. e.before.changed <= node'[h].changed
    BY <2>2, <2>3, <2>4
  <2>7. ASSUME ~hidden', e.before.changed = node'[h].changed
        PROVE  /\ Len(node'[h].data) = e.before.bytes /\ Len(reading.digest) = e.read
               /\ \A i \in 1..e.read : reading.digest[i] = node'[h].data[i]
    <3>1. e.before.changed = node[h].changed /\ node'[h].changed = node[h].changed
      BY <2>2, <2>3, <2>4, <2>7
    <3>2. node'[h] = node[h] /\ ~hidden
      BY <2>4, <2>5, <2>7, <3>1
    <3> QED
      BY <2>2, <3>1, <3>2
  <2> QED
    BY <2>2, <2>4, <2>6, <2>7
<1>12. ListingsOK'
  <2>1. ASSUME NEW k \in 1..Len(frames)
        PROVE  /\ frames[k].before.node = frames[k].dir /\ frames[k].before.changed <= node'[frames[k].dir].changed
               /\ ~hidden' /\ ~issue /\ frames[k].before.changed = node'[frames[k].dir].changed
                    /\ (k < Len(frames) \/ step \notin {"list", "finish"} \union Looked)
                  => Listing(frames, entries, step, k) = Present(node', frames[k].dir)
    <3>1. PICK d : d = frames[k].dir
      OBVIOUS
    <3>2. d \in 1..Len(node)
      BY <1>0, <3>1, FramesAre
    <3>3. frames[k].before.changed \in Nat
      <4>1. frames[k].before \in O!Fingerprints
        BY <1>0, FramesAre
      <4> QED
        BY <4>1 DEF O!Fingerprints
    <3>4. frames[k].before.node = d /\ frames[k].before.changed <= node[d].changed
      BY <1>0, <3>1 DEF ListingsOK
    <3>5. /\ node[d].changed \in Nat /\ node'[d].changed \in Nat /\ node[d].changed <= node'[d].changed
          /\ ~hidden' /\ node'[d].changed = node[d].changed => node'[d] = node[d]
      BY <1>6, <3>2
    <3>6. frames[k].before.changed <= node'[d].changed
      BY <3>3, <3>4, <3>5
    <3>7. ASSUME ~hidden', ~issue, frames[k].before.changed = node'[d].changed,
                 k < Len(frames) \/ step \notin {"list", "finish"} \union Looked
          PROVE  Listing(frames, entries, step, k) = Present(node', d)
      <4>1. frames[k].before.changed = node[d].changed /\ node'[d].changed = node[d].changed
        BY <3>3, <3>4, <3>5, <3>7
      <4>2. node'[d] = node[d] /\ ~hidden
        BY <1>2, <3>5, <3>7, <4>1 DEF Grown
      <4>3. Listing(frames, entries, step, k) = Present(node, d)
        BY <1>0, <3>1, <3>7, <4>1, <4>2 DEF ListingsOK
      <4> QED
        BY <4>2, <4>3 DEF Present
    <3> QED
      BY <3>1, <3>4, <3>6, <3>7
  <2> QED
    BY <1>1, <2>1, Zenon DEF ListingsOK
<1>13. TruthOK'
  <2>1. hidden => hidden'
    BY <1>2 DEF Grown
  <2>2. ~hidden' => \A p \in DOMAIN entries' : entries'[p].sha256 # None => entries'[p].sha256 \in O!Data
    BY <1>0, <1>1, <2>1 DEF TruthOK
  <2>3. ASSUME Reliable', NEW q \in Settled' PROVE Claim(entries', held', q)
    <3>1. Reliable
      <4>1. Attached
        BY <1>0, <1>1, <1>2, <2>3, GrownAttached DEF Reliable
      <4> QED
        BY <1>1, <2>1, <2>3, <4>1 DEF Reliable
    <3>2. q \in Settled
      BY <1>1 DEF Settled, Top
    <3>3. Claim(entries, held, q)
      BY <1>0, <3>1, <3>2 DEF TruthOK
    <3>4. q \in Everywhere
      <4>1. DOMAIN entries \subseteq Everywhere
        BY <1>0 DEF EntriesOK, Everywhere
      <4>2. step \in Looked \union {"finish"} => Top.path \in Everywhere
        <5>1. step \in Looked \union {"finish"} => frames # << >>
          BY <1>0 DEF FramesOK, Walking
        <5> QED
          BY <1>0, <5>1, TopAre
      <4> QED
        BY <3>2, <4>1, <4>2, EverywhereAre DEF Settled
    <3>5. \A p \in Everywhere : held[p] \subseteq held'[p]
      BY <1>4
    <3>6. Claim(entries, held', q)
      BY <3>3, <3>4, <3>5, ClaimKept
    <3> QED
      BY <1>1, <3>6
  <2> QED
    BY <2>2, <2>3 DEF TruthOK
<1>14. BaselineOK'
  <2>1. hidden => hidden'
    BY <1>2 DEF Grown
  <2> QED
    BY <1>0, <1>1, <2>1, BaselineStays
<1> QED
  BY <1>5, <1>7, <1>8, <1>9, <1>10, <1>11, <1>12, <1>13, <1>14 DEF OrbitInv

-----------------------------------------------------------------------------
(* What a complete scan says of every path.                                *)
(* What has no entry was not there: of the first name on the way to it     *)
(* that has none, the directory before it says so.                         *)
LEMMA Absent ==
  ASSUME NEW es, NEW hs, Told(es), \A q \in DOMAIN es \union {O!Root} : Claim(es, hs, q),
         NEW p \in O!Inspected, p \notin DOMAIN es
  PROVE  None \in hs[p]
<1>1. p \in Seq(FileNames) /\ Len(p) \in Nat /\ Len(p) >= 1
  BY InspectedAre
<1> DEFINE Upto(k) == Prefix(p, k)
           T == {k \in 1..Len(p) : Upto(k) \notin DOMAIN es}
<1>2. Upto(0) = O!Root /\ Upto(Len(p)) = p
  BY <1>1, Prefixes
<1>3. /\ \A k \in 0..Len(p) : Upto(k) \in Seq(FileNames) /\ Len(Upto(k)) = k /\ \A i \in 1..k : Upto(k)[i] = p[i]
      /\ \A k \in 1..Len(p) : p[k] \in FileNames /\ Upto(k) = Append(Upto(k - 1), p[k])
  BY <1>1, Prefixes
<1> HIDE DEF Upto
<1>4. Len(p) \in T /\ T \in SUBSET Nat
  BY <1>1, <1>2
<1>5. PICK k \in T : \A j \in T : k <= j
  <2> HIDE DEF T
  <2>1. T # {}
    BY <1>4
  <2> QED
    BY <1>4, <2>1, Least
<1>6. k \in 1..Len(p) /\ k - 1 \in 0..Len(p) /\ Upto(k) \notin DOMAIN es
  BY <1>1, <1>5
<1>7. Upto(k - 1) \in DOMAIN es \union {O!Root}
  <2>1. CASE k = 1
    BY <1>2, <2>1
  <2>2. CASE k # 1
    <3>1. k - 1 \in 1..Len(p) /\ ~(k <= k - 1)
      BY <1>6, <2>2
    <3>2. k - 1 \notin T
      BY <1>5, <3>1
    <3> QED
      BY <3>1, <3>2
  <2> QED
    BY <2>1, <2>2
<1>8. PICK q : q = Upto(k - 1)
  OBVIOUS
<1>9. Len(q) = k - 1 /\ (\A i \in 1..(k - 1) : q[i] = p[i]) /\ p[k] \in FileNames /\ Upto(k) = Append(q, p[k])
  BY <1>3, <1>6, <1>8
<1>10. Len(q) + 1 = k /\ Len(q) < Len(p)
  BY <1>1, <1>6, <1>9
<1>11. Below(q, p)
  BY <1>9, <1>10 DEF Below
<1>12. p[Len(q) + 1] \notin Children(es, q)
  BY <1>6, <1>9, <1>10 DEF Children
<1> QED
  BY <1>7, <1>8, <1>11, <1>12 DEF Claim

(* And what has one was something.                                         *)
LEMMA SeenIs ==
  ASSUME NEW es, Told(es), NEW p \in DOMAIN es
  PROVE  /\ Seen(es, p) # None /\ Seen(es, p).kind = es[p].kind
         /\ es[p].kind = "file" => Seen(es, p).data = es[p].sha256
         /\ es[p].kind = "dir" => Seen(es, p).names = Children(es, p)
<1>1. p # O!Root
  BY EverywhereAre DEF Told
<1>2. Children(es, p) \in SUBSET FileNames
  BY DEF Children
<1>3. CASE es[p].kind = "file" /\ es[p].sha256 \in O!Data
  <2>1. Seen(es, p) = [kind |-> es[p].kind, data |-> es[p].sha256, names |-> {}]
    BY <1>1, <1>3 DEF Seen
  <2>2. Seen(es, p) \in O!Shapes
    BY <1>3, <2>1 DEF O!Shapes
  <2>3. Seen(es, p) # None
    BY <2>2, ConstantsAre
  <2> QED
    BY <1>3, <2>1, <2>3
<1>4. CASE es[p].kind = "dir"
  <2>1. Seen(es, p) = [kind |-> "dir", data |-> << >>, names |-> Children(es, p)]
    BY <1>4 DEF Seen
  <2>2. Seen(es, p) \in O!Shapes
    BY <1>2, <2>1, ConstantsAre DEF O!Shapes
  <2>3. Seen(es, p) # None
    BY <2>2, ConstantsAre
  <2> QED
    BY <1>4, <2>1, <2>3
<1> QED
  BY <1>3, <1>4 DEF Told

(* A complete scan is true.                                                *)
LEMMA ScanTrue ==
  ASSUME OrbitInv
  PROVE  O!ScanIsTrue
<1>1. SUFFICES ASSUME step = "done", ~hidden
               PROVE  /\ \A p \in DOMAIN entries : entries[p].sha256 # None => entries[p].sha256 \in O!Data
                      /\ O!Complete => \A p \in DOMAIN held \ DOMAIN entries : p # O!Root => None \in held[p]
                      /\ O!Complete =>
                           \A p \in DOMAIN entries : \E x \in held[p] \ {None} :
                             /\ x.kind = entries[p].kind
                             /\ IF x.kind = "file" THEN x.data = entries[p].sha256
                                ELSE x.names = {n \in FileNames : Append(p, n) \in DOMAIN entries}
  BY Zenon DEF O!ScanIsTrue
<1>2. \A p \in DOMAIN entries : entries[p].sha256 # None => entries[p].sha256 \in O!Data
  BY <1>1 DEF OrbitInv, TruthOK
<1>3. ASSUME O!Complete, NEW p \in DOMAIN held \ DOMAIN entries, p # O!Root PROVE None \in held[p]
  <2>1. Told(entries) /\ \A q \in DOMAIN entries \union {O!Root} : Claim(entries, held, q)
    BY <1>1, <1>3, WholeIs
  <2>2. p \in O!Inspected
    BY <1>3 DEF OrbitInv, TreeOK, Everywhere
  <2> QED
    BY <1>3, <2>1, <2>2, Absent
<1>4. ASSUME O!Complete, NEW p \in DOMAIN entries
      PROVE  \E x \in held[p] \ {None} :
               /\ x.kind = entries[p].kind
               /\ IF x.kind = "file" THEN x.data = entries[p].sha256 ELSE x.names = {n \in FileNames : Append(p, n) \in DOMAIN entries}
  <2>1. Told(entries) /\ Claim(entries, held, p)
    BY <1>1, <1>4, WholeIs
  <2>2. PICK x : x = Seen(entries, p)
    OBVIOUS
  <2>3. /\ x # None /\ x.kind = entries[p].kind
        /\ entries[p].kind = "file" => x.data = entries[p].sha256
        /\ entries[p].kind = "dir" => x.names = Children(entries, p)
    BY <2>1, <2>2, SeenIs
  <2>4. x \in held[p] \ {None}
    BY <2>1, <2>2, <2>3 DEF Claim
  <2>5. entries[p].kind = "file" \/ entries[p].kind = "dir"
    BY <2>1 DEF Told
  <2> QED
    BY <2>3, <2>4, <2>5 DEF Children
<1> QED
  BY <1>2, <1>3, <1>4

-----------------------------------------------------------------------------
(* Two complete scans that say the same.                                   *)
LEMMA RowsTrue ==
  ASSUME OrbitInv
  PROVE  O!RowsAreTrue
<1>1. SUFFICES ASSUME step = "done", job = "check", ~hidden, O!Complete
               PROVE  /\ O!Status = "MATCH" => \A p \in DOMAIN held : held[p] \intersect heldThen[p] # {}
                      /\ \A p \in O!Compared :
                           /\ O!Row(p) = "missing" => None \in held[p] /\ heldThen[p] # {None}
                           /\ O!Row(p) = "added" => None \in heldThen[p] /\ held[p] # {None}
                           /\ O!Row(p) = "changed" => \E x \in held[p] \ {None}, y \in heldThen[p] \ {None} : x # y
  BY Zenon DEF O!RowsAreTrue, O!Checked
<1>2. Told(entries) /\ \A q \in DOMAIN entries \union {O!Root} : Claim(entries, held, q)
  BY <1>1, WholeIs
<1>3. Told(baseline) /\ \A q \in DOMAIN baseline \union {O!Root} : Claim(baseline, heldThen, q)
  BY <1>1 DEF OrbitInv, BaselineOK, Told
<1>4. DOMAIN held = O!Inspected \union {O!Root}
  BY DEF OrbitInv, TreeOK, Everywhere
<1>5. ASSUME NEW p \in DOMAIN entries PROVE Seen(entries, p) \in held[p] /\ Seen(entries, p) # None
  BY <1>2, <1>5, SeenIs DEF Claim
<1>6. ASSUME NEW p \in DOMAIN baseline PROVE Seen(baseline, p) \in heldThen[p] /\ Seen(baseline, p) # None
  BY <1>3, <1>6, SeenIs DEF Claim
<1>7. ASSUME NEW p \in DOMAIN entries PROVE entries[p].observation \in {"hashed", "directory"}
  BY <1>1 DEF O!Complete
<1>8. ASSUME NEW p \in O!Compared
      PROVE  /\ p \notin DOMAIN entries => O!Row(p) = "missing" /\ p \in DOMAIN baseline
             /\ p \in DOMAIN entries /\ p \notin DOMAIN baseline => O!Row(p) = "added"
             /\ p \in DOMAIN entries /\ p \in DOMAIN baseline =>
                  O!Row(p) = IF baseline[p].kind = entries[p].kind /\ baseline[p].sha256 = entries[p].sha256 THEN "match" ELSE "changed"
  <2>1. CASE p \notin DOMAIN entries
    BY <1>1, <2>1 DEF O!Row, O!Compared
  <2>2. CASE p \in DOMAIN entries
    <3>1. entries[p].observation = "hashed" \/ entries[p].observation = "directory"
      BY <1>7, <2>2
    <3> QED
      BY <2>2, <3>1 DEF O!Row
  <2> QED
    BY <2>1, <2>2
<1>9. ASSUME NEW p \in O!Compared, O!Row(p) = "missing" PROVE None \in held[p] /\ heldThen[p] # {None}
  <2>1. p \notin DOMAIN entries /\ p \in DOMAIN baseline
    BY <1>8, <1>9
  <2>2. p \in O!Inspected
    BY <1>3, <2>1 DEF Told
  <2>3. None \in held[p]
    BY <1>2, <2>1, <2>2, Absent
  <2> QED
    BY <1>6, <2>1, <2>3
<1>10. ASSUME NEW p \in O!Compared, O!Row(p) = "added" PROVE None \in heldThen[p] /\ held[p] # {None}
  <2>1. p \in DOMAIN entries /\ p \notin DOMAIN baseline
    BY <1>8, <1>10
  <2>2. p \in O!Inspected
    BY <1>2, <2>1 DEF Told
  <2>3. None \in heldThen[p]
    BY <1>3, <2>1, <2>2, Absent
  <2> QED
    BY <1>5, <2>1, <2>3
<1>11. ASSUME NEW p \in O!Compared, O!Row(p) = "changed"
       PROVE  \E x \in held[p] \ {None}, y \in heldThen[p] \ {None} : x # y
  <2>1. /\ p \in DOMAIN entries /\ p \in DOMAIN baseline
        /\ ~(baseline[p].kind = entries[p].kind /\ baseline[p].sha256 = entries[p].sha256)
    BY <1>8, <1>11
  <2>2. PICK x : x = Seen(entries, p)
    OBVIOUS
  <2>3. PICK y : y = Seen(baseline, p)
    OBVIOUS
  <2>4. x \in held[p] \ {None} /\ y \in heldThen[p] \ {None}
    BY <1>5, <1>6, <2>1, <2>2, <2>3
  <2>5. x.kind = entries[p].kind /\ (entries[p].kind = "file" => x.data = entries[p].sha256)
    BY <1>2, <2>1, <2>2, SeenIs
  <2>6. y.kind = baseline[p].kind /\ (baseline[p].kind = "file" => y.data = baseline[p].sha256)
    BY <1>3, <2>1, <2>3, SeenIs
  <2>7. /\ entries[p].kind = "file" \/ (entries[p].kind = "dir" /\ entries[p].sha256 = None)
        /\ baseline[p].kind = "file" \/ (baseline[p].kind = "dir" /\ baseline[p].sha256 = None)
    BY <1>2, <1>3, <2>1 DEF Told
  <2>8. x # y
    BY <2>1, <2>5, <2>6, <2>7
  <2> QED
    BY <2>4, <2>8
<1>12. ASSUME O!Status = "MATCH", NEW p \in DOMAIN held PROVE held[p] \intersect heldThen[p] # {}
  <2>1. \A q \in O!Compared : O!Row(q) = "match"
    BY <1>1, <1>12 DEF O!Status
  <2>2. ASSUME NEW q \in O!Compared
        PROVE  /\ q \in DOMAIN entries /\ q \in DOMAIN baseline
               /\ baseline[q].kind = entries[q].kind /\ baseline[q].sha256 = entries[q].sha256
    <3>1. O!Row(q) = "match"
      BY <2>1
    <3> QED
      BY <1>8, <3>1
  <2>3. DOMAIN entries = DOMAIN baseline
    BY <2>2 DEF O!Compared
  <2>4. \A q : Children(entries, q) = Children(baseline, q)
    BY <2>3 DEF Children
  <2>5. CASE p \in DOMAIN entries \union {O!Root}
    <3>1. Seen(entries, p) = Seen(baseline, p)
      <4>1. CASE p = O!Root
        BY <2>4, <4>1 DEF Seen
      <4>2. CASE p \in DOMAIN entries
        <5>1. baseline[p].kind = entries[p].kind /\ baseline[p].sha256 = entries[p].sha256
          BY <2>2, <4>2 DEF O!Compared
        <5> QED
          BY <2>4, <5>1 DEF Seen
      <4> QED
        BY <2>5, <4>1, <4>2
    <3>2. Seen(entries, p) \in held[p]
      BY <1>2, <2>5 DEF Claim
    <3>3. Seen(baseline, p) \in heldThen[p]
      BY <1>3, <2>3, <2>5 DEF Claim
    <3> QED
      BY <3>1, <3>2, <3>3
  <2>6. CASE p \notin DOMAIN entries \union {O!Root}
    <3>1. p \in O!Inspected /\ p \notin DOMAIN entries /\ p \notin DOMAIN baseline
      BY <1>4, <1>12, <2>3, <2>6
    <3>2. None \in held[p]
      BY <1>2, <3>1, Absent
    <3>3. None \in heldThen[p]
      BY <1>3, <3>1, Absent
    <3> QED
      BY <3>2, <3>3
  <2> QED
    BY <2>5, <2>6
<1> QED
  BY <1>9, <1>10, <1>11, <1>12

(* Every snapshot is one that check and verify accept.                     *)
LEMMA SnapshotValid ==
  ASSUME OrbitInv
  PROVE  O!SnapshotsValid
<1>0. EntriesOK /\ BudgetOK
  BY DEF OrbitInv
<1>1. SUFFICES ASSUME step = "done" PROVE O!ValidSnapshot
  BY DEF O!SnapshotsValid
<1>2. O!Cardinality(DOMAIN entries) <= MaxEntries
  BY <1>0, SizeIs DEF BudgetOK
<1>3. ASSUME NEW p \in DOMAIN entries PROVE O!Consistent(p)
  <2>1. O!Range(p) \intersect Unsafe = {} /\ EntryOK(entries[p]) /\ p \in O!Inspected
    BY <1>0 DEF EntriesOK
  <2>2. Len(p) <= MaxDepth + 1
    BY <2>1, InspectedAre
  <2> QED
    BY <2>1, <2>2, Zenon DEF O!Consistent, EntryOK
<1>4. bytes = O!SumFunction([p \in DOMAIN entries |-> entries[p].read]) /\ bytes <= MaxTotal
  <2>1. step \notin {"read", "bind"} /\ bytes = Reads(entries) + 0 /\ bytes <= MaxTotal
    BY <1>0, <1>1 DEF BudgetOK
  <2>2. Reads(entries) \in Nat
    <3>1. IsFiniteSet(DOMAIN entries) /\ entries \in [DOMAIN entries -> Entries]
      BY <1>0 DEF EntriesOK
    <3>2. PICK p : p \notin DOMAIN entries
      BY <1>0, EverywhereAre DEF EntriesOK
    <3>3. O!Entry("other", "unreadable") \in Entries
      BY EntryIs DEF Observed, Good
    <3> QED
      BY <3>1, <3>2, <3>3, ReadsMore
  <2> QED
    BY <2>1, <2>2 DEF Reads
<1> QED
  BY <1>2, <1>3, <1>4 DEF O!ValidSnapshot

-----------------------------------------------------------------------------
(* The beginning, every step, and the theorem.                             *)
(* In the beginning.                                                       *)
LEMMA OrbitInit == O!Init => OrbitInv
<1> SUFFICES ASSUME O!Init PROVE OrbitInv
  OBVIOUS
<1>1. /\ node \in Trees /\ root = 1 /\ now = 1 /\ hidden = FALSE /\ step = "begin" /\ job = "capture" /\ frames = << >>
      /\ entries = << >> /\ bytes = 0 /\ issue = FALSE /\ late = FALSE /\ held = O!HeldNow /\ heldThen = O!HeldNow
  BY Zenon DEF O!Init
<1>2. O!Tree(node) /\ node # << >> /\ node[1].kind = "dir" /\ \A i \in DOMAIN node : node[i].changed = 0
  BY <1>1, TreeConstants, Zenon DEF O!OrbitConstants
<1>3. Len(node) \in Nat /\ DOMAIN node = 1..Len(node) /\ 1 \in 1..Len(node)
  <2>1. node \in Seq(O!Nodes)
    BY <1>2, TreeIs
  <2> QED
    BY <1>2, <2>1
<1>4. step \notin Walking /\ step \notin Looked /\ step \notin Picked /\ step \notin {"finish", "end", "done", "list", "listing", "read", "bind", "binddir"}
  BY <1>1 DEF Walking, Looked, Picked
<1>5. frames \in Seq(Frames) /\ Len(frames) = 0 /\ 0 <= MaxDepth + 1
  BY <1>1, ConstantsAre
<1>6. DOMAIN entries = {} /\ entries \in [DOMAIN entries -> Entries]
  BY <1>1
<1>7. TreeOK
  <2>1. \A i \in 1..Len(node) : node[i].changed <= now
    BY <1>1, <1>2, <1>3
  <2>2. DOMAIN held = Everywhere /\ DOMAIN heldThen = Everywhere /\ \A p \in Everywhere : O!ShownAt(p) \in held[p]
    BY <1>1 DEF O!HeldNow, Everywhere
  <2> QED
    BY <1>1, <1>2, <1>3, <2>1, <2>2 DEF TreeOK
<1>8. FramesOK
  <2>1. \A k \in 1..0 : FALSE
    OBVIOUS
  <2>2. late \in BOOLEAN /\ issue \in BOOLEAN /\ job \in {"capture", "check"} /\ step \in {"begin", "end", "done"} \union Walking
    BY <1>1
  <2> QED
    BY <1>1, <1>4, <1>5, <2>1, <2>2 DEF FramesOK
<1>9. Ahead
  BY <1>1, <1>4, <1>5, <1>6 DEF Ahead
<1>10. EntriesOK
  <2>1. \A k \in 2..0 : FALSE
    OBVIOUS
  <2>2. \A k \in 2..Len(frames) : FALSE
    BY <1>5, <2>1
  <2>3. IsFiniteSet(DOMAIN entries) /\ DOMAIN entries \subseteq O!Inspected
    BY <1>6, EmptyIs
  <2> QED
    BY <1>6, <2>2, <2>3 DEF EntriesOK
<1>11. BudgetOK
  <2>1. Cardinality(DOMAIN entries) <= MaxEntries /\ Reads(entries) = 0 /\ 0 <= MaxTotal
    BY <1>6, EmptyIs
  <2> QED
    BY <1>1, <1>4, <2>1 DEF BudgetOK
<1>12. ReadingOK
  BY <1>4 DEF ReadingOK
<1>13. ListingsOK
  BY <1>5 DEF ListingsOK
<1>14. TruthOK
  BY <1>4, <1>6 DEF TruthOK, Settled
<1>15. BaselineOK
  BY <1>1 DEF BaselineOK
<1> QED
  BY <1>7, <1>8, <1>9, <1>10, <1>11, <1>12, <1>13, <1>14, <1>15 DEF OrbitInv

(* Whatever happens next.                                                  *)
LEMMA OrbitStep ==
  ASSUME OrbitInv, [O!Next]_orbit
  PROVE  OrbitInv'
<1>1. CASE O!Next
  BY <1>1, OthersKeep, ScanKeeps, ExpireKeeps, CaptureKeeps, Zenon DEF O!Next
<1>2. CASE UNCHANGED orbit
  <2>1. /\ node' = node /\ root' = root /\ now' = now /\ hidden' = hidden /\ job' = job /\ baseline' = baseline /\ held' = held
        /\ heldThen' = heldThen /\ step' = step /\ frames' = frames /\ reading' = reading /\ entries' = entries /\ bytes' = bytes
        /\ issue' = issue /\ late' = late
    BY <1>2 DEF orbit
  <2>2. late \in BOOLEAN
    BY DEF OrbitInv, FramesOK
  <2> QED
    BY <2>1, <2>2, StillKeeps
<1> QED
  BY <1>1, <1>2

(* The invariant of a scan, in the specification that contains it.         *)
IInvOrbit == what = "orbit" => OrbitInv

(* It holds in every behaviour.                                            *)
LEMMA OrbitInductive == MCSpec => []IInvOrbit
<1>1. MCInit => IInvOrbit
  BY OrbitInit DEF MCInit, IInvOrbit
<1>2. ASSUME IInvOrbit, [MCNext]_<<what, vars, fetch, private, orbit, bundle>> PROVE IInvOrbit'
  <2>1. CASE what = "orbit"
    <3>1. what' = what /\ [O!Next]_orbit
      BY <1>2, <2>1 DEF MCNext
    <3> QED
      BY <1>2, <2>1, <3>1, OrbitStep DEF IInvOrbit
  <2>2. CASE what # "orbit"
    BY <1>2, <2>2 DEF MCNext, IInvOrbit
  <2> QED
    BY <2>1, <2>2
<1> QED
  BY <1>1, <1>2, PTL DEF MCSpec

(* What a scan says of a path was there at some moment of it, what a check *)
(* reports of two complete scans is right about both, and the snapshot of  *)
(* every scan is one that check and verify accept (scan, walk and          *)
(* file_observe of orbit_scan.rs, comparison and validate_snapshot of      *)
(* orbit.rs).                                                              *)
THEOREM ScansAreTrue == MCSpec => []ObservedAsHeld
<1>1. IInvOrbit => ObservedAsHeld
  BY ScanTrue, RowsTrue, SnapshotValid DEF IInvOrbit, ObservedAsHeld
<1> QED
  BY <1>1, OrbitInductive, PTL
=============================================================================
