------------------------ MODULE AuthzManagerProofs ------------------------
(***************************************************************************)
(* Proofs about AuthzManager for any roles, domains, grants, definitions,  *)
(* policies and number of calls: what the expansion of the definitions     *)
(* yields and refuses; who may replace the rules; what the table of        *)
(* permission rules holds; and, when nothing is in progress, how enforcer, *)
(* cached inputs and database agree.                                       *)
(***************************************************************************)
EXTENDS AuthzManager, FiniteSetTheorems, TLAPS


-----------------------------------------------------------------------------
(* Role inheritance: what the expansion of a role yields *)

Parents(graph, r) == graph[r] \ {r}

\* The roles some path of direct inheritance leads to.
Reached(graph, a) == {q \in Roles : Reaches(graph, a, q)}

\* Every set of natural numbers with 0 and the successors of its members has all.
LEMMA AllNaturals ==
    ASSUME NEW S, 0 \in S, \A n \in Nat : n \in S => n + 1 \in S
    PROVE  Nat \subseteq S
  <1> DEFINE Less == OpToRel(<, Nat)
             T == Nat \ S
  <1> SUFFICES ASSUME T # {} PROVE FALSE
    OBVIOUS
  <1>1. IsWellFoundedOn(Less, Nat)
    BY NatLessThanWellFounded
  <1>2. T \subseteq Nat
    OBVIOUS
  <1>3. \A i, j \in Nat : <<i, j>> \in Less <=> i < j
    BY DEF OpToRel
  <1> HIDE DEF Less
  <1>4. PICK n \in T : \A m \in T : ~ (<<m, n>> \in Less)
    BY <1>1, <1>2, WFMin
  <1>5. n # 0 /\ n \in Nat /\ n - 1 \in Nat /\ n - 1 < n
    OBVIOUS
  <1>6. n - 1 \in S
    BY <1>3, <1>4, <1>5
  <1> QED
    BY <1>4, <1>5, <1>6

\* A direct parent is reached.
LEMMA ParentsAreReached ==
    ASSUME NEW graph \in [Roles -> SUBSET Roles], NEW a \in Roles
    PROVE  Parents(graph, a) \subseteq Reached(graph, a)
  <1> SUFFICES ASSUME NEW q \in Parents(graph, a) PROVE q \in Reached(graph, a)
    OBVIOUS
  <1>1. q \in Roles /\ q \in graph[a] \ {a}
    BY DEF Parents
  <1>2. Cardinality(Roles) \in Nat /\ Cardinality(Roles) >= 1
    BY RegistryAssumption, FS_CardinalityType, FS_EmptySet
  <1> DEFINE path == [k \in 0..1 |-> IF k = 0 THEN a ELSE q]
  <1>3. path \in [0..1 -> Roles] /\ path[0] = a /\ path[1] = q
    BY <1>1
  <1>4. \A k \in 1..1 : path[k] \in graph[path[k-1]] \ {path[k-1]}
    BY <1>1
  <1> HIDE DEF path
  <1>5. \E n \in 1..Cardinality(Roles) : \E walk \in [0..n -> Roles] :
            /\ walk[0] = a /\ walk[n] = q
            /\ \A k \in 1..n : walk[k] \in graph[walk[k-1]] \ {walk[k-1]}
    <2>1. 1 \in 1..Cardinality(Roles)
      BY <1>2
    <2> QED
      BY <1>3, <1>4, <2>1
  <1> QED
    BY <1>1, <1>5 DEF Reached, Reaches

\* So is a parent of what is reached, by a path that meets no role twice.
LEMMA ReachedIsClosed ==
    ASSUME NEW graph \in [Roles -> SUBSET Roles], NEW a \in Roles, NEW b \in Reached(graph, a)
    PROVE  Parents(graph, b) \subseteq Reached(graph, a)
  <1> SUFFICES ASSUME NEW q \in Parents(graph, b) PROVE q \in Reached(graph, a)
    OBVIOUS
  <1> DEFINE N == Cardinality(Roles)
  <1>1. q \in Roles /\ q \in graph[b] \ {b} /\ b \in Roles
    BY DEF Parents, Reached
  <1>2. N \in Nat
    BY RegistryAssumption, FS_CardinalityType
  <1> HIDE DEF N
  <1>3. PICK n \in 1..N : \E path \in [0..n -> Roles] :
            /\ path[0] = a /\ path[n] = b
            /\ \A k \in 1..n : path[k] \in graph[path[k-1]] \ {path[k-1]}
    BY DEF Reached, Reaches, N
  <1>4. PICK path \in [0..n -> Roles] :
            /\ path[0] = a /\ path[n] = b
            /\ \A k \in 1..n : path[k] \in graph[path[k-1]] \ {path[k-1]}
    BY <1>3
  <1>5. SUFFICES \E m \in 1..N : \E walk \in [0..m -> Roles] :
            /\ walk[0] = a /\ walk[m] = q
            /\ \A k \in 1..m : walk[k] \in graph[walk[k-1]] \ {walk[k-1]}
    BY <1>1 DEF Reached, Reaches, N
  <1>6. CASE n < N
    <2> DEFINE walk == [k \in 0..(n+1) |-> IF k <= n THEN path[k] ELSE q]
    <2>1. n + 1 \in 1..N
      BY <1>2, <1>6
    <2>2. walk \in [0..(n+1) -> Roles] /\ walk[0] = a /\ walk[n+1] = q
      BY <1>1, <1>2, <1>4
    <2>3. ASSUME NEW k \in 1..(n+1)
          PROVE  walk[k] \in graph[walk[k-1]] \ {walk[k-1]}
      <3>1. CASE k <= n
        <4>1. walk[k] = path[k] /\ walk[k-1] = path[k-1] /\ k \in 1..n
          BY <1>2, <3>1
        <4> QED
          BY <1>4, <4>1
      <3>2. CASE k = n + 1
        <4>1. walk[k] = q /\ walk[k-1] = b
          BY <1>2, <1>4, <3>2
        <4> QED
          BY <1>1, <4>1
      <3> QED
        BY <1>2, <3>1, <3>2
    <2> HIDE DEF walk
    <2> QED
      BY <2>1, <2>2, <2>3
  <1>7. CASE n = N
    <2>1. IsFiniteSet(0..N) /\ Cardinality(0..N) = N + 1
      BY <1>2, FS_Interval
    <2>2. path \in [0..N -> Roles]
      BY <1>7
    <2>3. \E i, j \in 0..N : i # j /\ path[i] = path[j]
      BY <1>2, <2>1, <2>2, RegistryAssumption, FS_PigeonHole DEF N
    <2>4. PICK i \in 0..N, j \in 0..N : i < j /\ path[i] = path[j]
      BY <1>2, <2>3
    <2> DEFINE m == N - (j - i) + 1
               walk == [k \in 0..m |-> IF k = m THEN q ELSE IF k <= i THEN path[k] ELSE path[k + (j - i)]]
    <2>5. m \in 1..N /\ i < m /\ \A k \in 0..m : k # m /\ k > i => k + (j - i) \in 0..N
      BY <1>2, <2>4
    <2>6. walk \in [0..m -> Roles] /\ walk[0] = a /\ walk[m] = q
      BY <1>1, <1>2, <1>4, <2>2, <2>4, <2>5
    <2>7. ASSUME NEW k \in 1..m
          PROVE  walk[k] \in graph[walk[k-1]] \ {walk[k-1]}
      <3>1. CASE k = m
        <4>1. walk[k] = q
          BY <3>1
        <4>2. walk[k-1] = b
          <5>1. CASE k - 1 <= i
            <6>1. k - 1 = i /\ j = N
              BY <1>2, <2>4, <2>5, <3>1, <5>1
            <6> QED
              BY <1>2, <1>4, <1>7, <2>4, <2>5, <3>1, <6>1
          <5>2. CASE k - 1 > i
            <6>1. k - 1 + (j - i) = N /\ k - 1 \in 0..m /\ k - 1 # m
              BY <1>2, <2>4, <2>5, <3>1
            <6> QED
              BY <1>4, <1>7, <5>2, <6>1
          <5> QED
            BY <1>2, <2>4, <2>5, <5>1, <5>2
        <4> QED
          BY <1>1, <4>1, <4>2
      <3>2. CASE k # m /\ k <= i
        <4>1. walk[k] = path[k] /\ walk[k-1] = path[k-1] /\ k \in 1..n
          BY <1>2, <1>7, <2>4, <2>5, <3>2
        <4> QED
          BY <1>4, <4>1
      <3>3. CASE k # m /\ k > i
        <4>1. walk[k] = path[k + (j - i)] /\ k + (j - i) \in 1..n
          BY <1>2, <1>7, <2>4, <2>5, <3>3
        <4>2. walk[k-1] = path[k + (j - i) - 1]
          <5>1. CASE k - 1 = i
            BY <1>2, <2>4, <2>5, <3>3, <5>1
          <5>2. CASE k - 1 > i
            <6>1. k - 1 \in 0..m /\ k - 1 # m /\ k - 1 + (j - i) = k + (j - i) - 1
              BY <1>2, <2>4, <2>5, <3>3, <5>2
            <6> QED
              BY <5>2, <6>1
          <5> QED
            BY <2>4, <3>3, <5>1, <5>2
        <4> QED
          BY <1>4, <4>1, <4>2
      <3> QED
        BY <2>4, <3>1, <3>2, <3>3
    <2> HIDE DEF walk, m
    <2> QED
      BY <2>5, <2>6, <2>7
  <1> QED
    BY <1>2, <1>6, <1>7

\* Nothing else is: a path does not leave a set with the parents of its members.
LEMMA ReachedIsLeast ==
    ASSUME NEW graph \in [Roles -> SUBSET Roles], NEW a \in Roles, NEW S,
           Parents(graph, a) \subseteq S,
           \A b \in S \intersect Roles : Parents(graph, b) \subseteq S
    PROVE  Reached(graph, a) \subseteq S
  <1> SUFFICES ASSUME NEW q \in Reached(graph, a) PROVE q \in S
    OBVIOUS
  <1> DEFINE N == Cardinality(Roles)
  <1>1. N \in Nat
    BY RegistryAssumption, FS_CardinalityType
  <1> HIDE DEF N
  <1>2. PICK n \in 1..N : \E path \in [0..n -> Roles] :
            /\ path[0] = a /\ path[n] = q
            /\ \A k \in 1..n : path[k] \in graph[path[k-1]] \ {path[k-1]}
    BY DEF Reached, Reaches, N
  <1>3. PICK path \in [0..n -> Roles] :
            /\ path[0] = a /\ path[n] = q
            /\ \A k \in 1..n : path[k] \in graph[path[k-1]] \ {path[k-1]}
    BY <1>2
  <1> DEFINE T == {k \in Nat : k + 1 <= n => path[k + 1] \in S}
  <1>4. 0 \in T
    <2>1. path[1] \in Parents(graph, path[0])
      BY <1>1, <1>2, <1>3 DEF Parents
    <2> QED
      BY <1>3, <2>1
  <1>5. ASSUME NEW k \in Nat, k \in T PROVE k + 1 \in T
    <2> SUFFICES ASSUME k + 2 <= n PROVE path[k + 2] \in S
      OBVIOUS
    <2>1. path[k + 1] \in S /\ k + 2 \in 1..n /\ path[k + 1] \in Roles /\ (k + 2) - 1 = k + 1
      BY <1>1, <1>2, <1>3, <1>5
    <2>2. path[k + 2] \in Parents(graph, path[k + 1])
      BY <1>3, <2>1 DEF Parents
    <2> QED
      BY <2>1, <2>2
  <1>6. Nat \subseteq T
    <2> HIDE DEF T
    <2> QED
      BY <1>4, <1>5, AllNaturals
  <1>7. n - 1 \in T /\ (n - 1) + 1 = n
    <2>1. n - 1 \in Nat /\ (n - 1) + 1 = n
      BY <1>1, <1>2
    <2> HIDE DEF T
    <2> QED
      BY <1>6, <2>1
  <1> QED
    BY <1>1, <1>2, <1>3, <1>7

-----------------------------------------------------------------------------

\* The equation of expandInheritedRoles.
Unfold(graph, f) ==
    [path \in SUBSET Roles |->
        [r \in Roles |->
            IF r \in path
              THEN {Loop}
              ELSE LET parents == graph[r] \ {r}
                   IN  parents \union UNION {f[path \union {r}][q] : q \in parents}]]

Expansions == [SUBSET Roles -> [Roles -> SUBSET (Roles \union {Loop})]]

\* One unfolding, role by role.
LEMMA Unfolded ==
    ASSUME NEW graph \in [Roles -> SUBSET Roles], NEW f,
           NEW path \in SUBSET Roles, NEW r \in Roles
    PROVE  \A x : x \in Unfold(graph, f)[path][r] <=>
               IF r \in path THEN x = Loop
               ELSE \/ x \in Parents(graph, r)
                    \/ \E q \in Parents(graph, r) : x \in f[path \union {r}][q]
  BY DEF Unfold, Parents

\* It keeps the type.
LEMMA UnfoldType ==
    ASSUME NEW graph \in [Roles -> SUBSET Roles], NEW f \in Expansions
    PROVE  Unfold(graph, f) \in Expansions
  <1>1. ASSUME NEW path \in SUBSET Roles, NEW r \in Roles
        PROVE  Unfold(graph, f)[path][r] \subseteq Roles \union {Loop}
    <2>0. \A x : x \in Unfold(graph, f)[path][r] <=>
               IF r \in path THEN x = Loop
               ELSE \/ x \in Parents(graph, r)
                    \/ \E q \in Parents(graph, r) : x \in f[path \union {r}][q]
      BY Unfolded
    <2> SUFFICES ASSUME NEW x \in Unfold(graph, f)[path][r] PROVE x \in Roles \union {Loop}
      OBVIOUS
    <2>1. CASE r \in path
      BY <2>0, <2>1
    <2>2. CASE r \notin path
      <3>1. \/ x \in Parents(graph, r)
            \/ \E q \in Parents(graph, r) : x \in f[path \union {r}][q]
        BY <2>0, <2>2
      <3>2. path \union {r} \in SUBSET Roles /\ Parents(graph, r) \subseteq Roles
        BY DEF Parents
      <3>3. \A q \in Parents(graph, r) : f[path \union {r}][q] \subseteq Roles \union {Loop}
        BY <3>2 DEF Expansions
      <3> QED
        BY <3>1, <3>2, <3>3
    <2> QED
      BY <2>1, <2>2
  <1>2. /\ Unfold(graph, f) = [path \in SUBSET Roles |-> Unfold(graph, f)[path]]
        /\ \A path \in SUBSET Roles :
              Unfold(graph, f)[path] = [r \in Roles |-> Unfold(graph, f)[path][r]]
    BY DEF Unfold
  <1>3. \A path \in SUBSET Roles : Unfold(graph, f)[path] \in [Roles -> SUBSET (Roles \union {Loop})]
    BY <1>1, <1>2
  <1> QED
    BY <1>2, <1>3 DEF Expansions

\* What is left to visit shrinks with each step.
LEMMA Remaining ==
    ASSUME NEW path \in SUBSET Roles
    PROVE  /\ Cardinality(Roles \ path) \in Nat
           /\ \A r \in Roles \ path :
                 Cardinality(Roles \ (path \union {r})) = Cardinality(Roles \ path) - 1
  <1>1. IsFiniteSet(Roles \ path)
    BY RegistryAssumption, FS_Subset
  <1>2. ASSUME NEW r \in Roles \ path
        PROVE  Cardinality(Roles \ (path \union {r})) = Cardinality(Roles \ path) - 1
    <2>1. Roles \ (path \union {r}) = (Roles \ path) \ {r}
      OBVIOUS
    <2> QED
      BY <1>1, <2>1, FS_RemoveElement
  <1> QED
    BY <1>1, <1>2, FS_CardinalityType

\* The equation has a solution: unfolding it n times settles the paths that
\* leave fewer than n roles.
LEMMA ExpansionExists ==
    ASSUME NEW graph \in [Roles -> SUBSET Roles]
    PROVE  \E f \in Expansions : f = Unfold(graph, f)
  <1> DEFINE Settled(f, n) == \A path \in SUBSET Roles :
                 Cardinality(Roles \ path) < n => f[path] = Unfold(graph, f)[path]
             T == {n \in Nat : \E f \in Expansions : Settled(f, n)}
  <1>1. 0 \in T
    <2>1. [path \in SUBSET Roles |-> [r \in Roles |-> {}]] \in Expansions
      BY DEF Expansions
    <2>2. \A path \in SUBSET Roles : ~(Cardinality(Roles \ path) < 0)
      BY Remaining
    <2> QED
      BY <2>1, <2>2
  <1>2. ASSUME NEW n \in Nat, n \in T PROVE n + 1 \in T
    <2>1. PICK f \in Expansions : Settled(f, n)
      BY <1>2
    <2> DEFINE h == Unfold(graph, f)
    <2>2. h \in Expansions
      BY UnfoldType
    <2>3. ASSUME NEW path \in SUBSET Roles, Cardinality(Roles \ path) < n + 1
          PROVE  h[path] = Unfold(graph, h)[path]
      <3>1. ASSUME NEW r \in Roles
            PROVE  h[path][r] = Unfold(graph, h)[path][r]
        <4>1. \A x : x \in h[path][r] <=>
               IF r \in path THEN x = Loop
               ELSE \/ x \in Parents(graph, r)
                    \/ \E q \in Parents(graph, r) : x \in f[path \union {r}][q]
          BY Unfolded
        <4> HIDE DEF h
        <4>2. \A x : x \in Unfold(graph, h)[path][r] <=>
               IF r \in path THEN x = Loop
               ELSE \/ x \in Parents(graph, r)
                    \/ \E q \in Parents(graph, r) : x \in h[path \union {r}][q]
          BY Unfolded
        <4>3. ASSUME r \notin path PROVE f[path \union {r}] = h[path \union {r}]
          <5>1. path \union {r} \in SUBSET Roles /\ Cardinality(Roles \ (path \union {r})) < n
            BY <2>3, <4>3, Remaining
          <5> QED
            BY <2>1, <5>1 DEF h
        <4> QED
          BY <4>1, <4>2, <4>3
      <3>2. /\ h[path] = [r \in Roles |-> h[path][r]]
            /\ Unfold(graph, h)[path] = [r \in Roles |-> Unfold(graph, h)[path][r]]
        BY DEF Unfold
      <3> HIDE DEF h
      <3> QED
        BY <3>1, <3>2
    <2> HIDE DEF h
    <2>4. Settled(h, n + 1)
      BY <2>3
    <2> QED
      BY <2>2, <2>4
  <1>3. Nat \subseteq T
    <2> HIDE DEF T
    <2> QED
      BY <1>1, <1>2, AllNaturals
  <1>4. Cardinality(Roles) \in Nat
    BY RegistryAssumption, FS_CardinalityType
  <1>5. PICK f \in Expansions : Settled(f, Cardinality(Roles) + 1)
    <2>1. Cardinality(Roles) + 1 \in T
      <3> HIDE DEF T
      <3> QED
        BY <1>3, <1>4
    <2> QED
      BY <2>1
  <1>6. \A path \in SUBSET Roles : f[path] = Unfold(graph, f)[path]
    <2>1. ASSUME NEW path \in SUBSET Roles
          PROVE  Cardinality(Roles \ path) < Cardinality(Roles) + 1
      <3>1. Roles \ path \in SUBSET Roles
        OBVIOUS
      <3>2. Cardinality(Roles \ path) <= Cardinality(Roles)
        BY <3>1, RegistryAssumption, FS_Subset
      <3> QED
        BY <1>4, <3>2, Remaining
    <2> QED
      BY <1>5, <2>1
  <1>7. f = [path \in SUBSET Roles |-> f[path]]
    BY DEF Expansions
  <1>8. Unfold(graph, f) = [path \in SUBSET Roles |-> Unfold(graph, f)[path]]
    BY DEF Unfold
  <1>9. f = Unfold(graph, f)
    BY <1>6, <1>7, <1>8
  <1> QED
    BY <1>9

\* What a solution says of role r below a path: without a loop it is what r
\* reaches, none of it on the path or on a cycle; with one it is not.
Sound(graph, f, path, r) ==
    /\ f[path][r] \subseteq Reached(graph, r) \union {Loop}
    /\ IF Loop \in f[path][r]
         THEN \E x \in Reached(graph, r) \union {r} : x \in path \/ x \in Reached(graph, x)
         ELSE /\ Reached(graph, r) \subseteq f[path][r]
              /\ \A x \in Reached(graph, r) \union {r} : x \notin path /\ x \notin Reached(graph, x)

\* It is so for a role if it is so for its parents.
LEMMA SoundStep ==
    ASSUME NEW graph \in [Roles -> SUBSET Roles], NEW f, f = Unfold(graph, f),
           NEW path \in SUBSET Roles, NEW r \in Roles,
           r \notin path => \A q \in Parents(graph, r) : Sound(graph, f, path \union {r}, q)
    PROVE  Sound(graph, f, path, r)
  <1>1. CASE r \in path
    <2>1. \A x : x \in Unfold(graph, f)[path][r] <=>
               IF r \in path THEN x = Loop
               ELSE \/ x \in Parents(graph, r)
                    \/ \E q \in Parents(graph, r) : x \in f[path \union {r}][q]
      BY Unfolded
    <2>2. \A x : x \in f[path][r] <=> x = Loop
      BY <1>1, <2>1
    <2> QED
      BY <1>1, <2>2 DEF Sound
  <1>2. CASE r \notin path
    <2>1. \A x : x \in f[path][r] <=>
               \/ x \in Parents(graph, r)
               \/ \E q \in Parents(graph, r) : x \in f[path \union {r}][q]
      BY <1>2, Unfolded
    <2>2. \A q \in Parents(graph, r) : q \in Roles /\ q # r /\ q \in Reached(graph, r)
      BY ParentsAreReached DEF Parents
    <2>3. Reached(graph, r) \subseteq Roles /\ Loop \notin Roles
      BY RegistryAssumption DEF Reached
    <2>4. ASSUME NEW q \in Parents(graph, r)
          PROVE  Reached(graph, q) \subseteq Reached(graph, r)
      <3>1. \A b \in Reached(graph, r) \intersect Roles : Parents(graph, b) \subseteq Reached(graph, r)
        BY ReachedIsClosed
      <3>2. Parents(graph, q) \subseteq Reached(graph, r)
        BY <2>2, ReachedIsClosed
      <3> QED
        BY <2>2, <3>1, <3>2, ReachedIsLeast
    <2>5. \A q \in Parents(graph, r) : Sound(graph, f, path \union {r}, q)
      BY <1>2
    <2>6. f[path][r] \subseteq Reached(graph, r) \union {Loop}
      BY <2>1, <2>2, <2>4, <2>5 DEF Sound
    <2>7. CASE Loop \in f[path][r]
      <3>1. PICK q \in Parents(graph, r) : Loop \in f[path \union {r}][q]
        BY <2>1, <2>2, <2>3, <2>7
      <3>2. PICK x \in Reached(graph, q) \union {q} : x \in path \union {r} \/ x \in Reached(graph, x)
        BY <2>5, <3>1 DEF Sound
      <3>3. x \in Reached(graph, r)
        BY <2>2, <2>4, <3>2
      <3>4. \E y \in Reached(graph, r) \union {r} : y \in path \/ y \in Reached(graph, y)
        BY <3>2, <3>3
      <3> QED
        BY <2>6, <2>7, <3>4 DEF Sound
    <2>8. CASE Loop \notin f[path][r]
      <3>1. ASSUME NEW q \in Parents(graph, r)
            PROVE  /\ Reached(graph, q) \subseteq f[path \union {r}][q]
                   /\ \A x \in Reached(graph, q) \union {q} :
                         x \notin path \union {r} /\ x \notin Reached(graph, x)
        BY <2>1, <2>5, <2>8 DEF Sound
      <3> DEFINE S == Parents(graph, r) \union UNION {Reached(graph, q) : q \in Parents(graph, r)}
      <3>2. \A b \in S \intersect Roles : Parents(graph, b) \subseteq S
        <4> SUFFICES ASSUME NEW b \in S, b \in Roles PROVE Parents(graph, b) \subseteq S
          OBVIOUS
        <4>1. CASE b \in Parents(graph, r)
          BY <4>1, ParentsAreReached
        <4>2. ASSUME NEW q \in Parents(graph, r), b \in Reached(graph, q)
              PROVE  Parents(graph, b) \subseteq S
          <5>1. q \in Roles
            BY <2>2
          <5>2. Parents(graph, b) \subseteq Reached(graph, q)
            BY <4>2, <5>1, ReachedIsClosed
          <5> QED
            BY <5>2
        <4> QED
          BY <4>1, <4>2
      <3>3. Parents(graph, r) \subseteq S
        OBVIOUS
      <3>4. Reached(graph, r) \subseteq S
        <4> HIDE DEF S
        <4> QED
          BY <3>2, <3>3, ReachedIsLeast
      <3>5. Reached(graph, r) \subseteq f[path][r]
        <4> SUFFICES ASSUME NEW x \in Reached(graph, r) PROVE x \in f[path][r]
          OBVIOUS
        <4>1. x \in Parents(graph, r) \/ \E q \in Parents(graph, r) : x \in Reached(graph, q)
          BY <3>4
        <4>2. x \in Parents(graph, r) \/ \E q \in Parents(graph, r) : x \in f[path \union {r}][q]
          BY <3>1, <4>1
        <4> QED
          BY <2>1, <4>2
      <3>6. \A x \in Reached(graph, r) : x \notin path \union {r} /\ x \notin Reached(graph, x)
        BY <3>1, <3>4
      <3>7. \A x \in Reached(graph, r) \union {r} : x \notin path /\ x \notin Reached(graph, x)
        BY <1>2, <3>6
      <3> QED
        BY <2>6, <2>8, <3>5, <3>7 DEF Sound
    <2> QED
      BY <2>7, <2>8
  <1> QED
    BY <1>1, <1>2

\* So it is for every role and path.
LEMMA SolutionsAreSound ==
    ASSUME NEW graph \in [Roles -> SUBSET Roles], NEW f, f = Unfold(graph, f)
    PROVE  \A path \in SUBSET Roles : \A r \in Roles : Sound(graph, f, path, r)
  <1> DEFINE T == {n \in Nat : \A path \in SUBSET Roles : Cardinality(Roles \ path) < n =>
                                  \A r \in Roles : Sound(graph, f, path, r)}
  <1>1. 0 \in T
    <2>1. \A path \in SUBSET Roles : ~(Cardinality(Roles \ path) < 0)
      BY Remaining
    <2> QED
      BY <2>1
  <1>2. ASSUME NEW n \in Nat, n \in T PROVE n + 1 \in T
    <2> SUFFICES ASSUME NEW path \in SUBSET Roles, Cardinality(Roles \ path) < n + 1,
                        NEW r \in Roles
                 PROVE  Sound(graph, f, path, r)
      OBVIOUS
    <2>1. r \notin path => \A q \in Parents(graph, r) : Sound(graph, f, path \union {r}, q)
      <3> SUFFICES ASSUME r \notin path, NEW q \in Parents(graph, r)
                   PROVE  Sound(graph, f, path \union {r}, q)
        OBVIOUS
      <3>1. path \union {r} \in SUBSET Roles /\ Cardinality(Roles \ (path \union {r})) < n
        BY Remaining
      <3>2. q \in Roles
        BY DEF Parents
      <3> QED
        BY <1>2, <3>1, <3>2
    <2> QED
      BY <2>1, SoundStep
  <1>3. Nat \subseteq T
    <2> HIDE DEF T
    <2> QED
      BY <1>1, <1>2, AllNaturals
  <1> SUFFICES ASSUME NEW path \in SUBSET Roles
               PROVE  \A r \in Roles : Sound(graph, f, path, r)
    OBVIOUS
  <1>4. Cardinality(Roles \ path) \in Nat
    BY Remaining
  <1>5. Cardinality(Roles \ path) + 1 \in T
    <2> HIDE DEF T
    <2> QED
      BY <1>3, <1>4
  <1>6. Cardinality(Roles \ path) < Cardinality(Roles \ path) + 1
    BY <1>4
  <1> QED
    BY <1>5, <1>6

\* The expansion of a role finds a loop exactly if the role, or one it reaches,
\* reaches itself, and otherwise yields what the role reaches.
LEMMA ExpansionIsReach ==
    ASSUME NEW graph \in [Roles -> SUBSET Roles], NEW role \in Roles
    PROVE  /\ Loop \in expandInheritedRoles(graph, role) <=>
                 \E x \in Reached(graph, role) \union {role} : x \in Reached(graph, x)
           /\ Loop \notin expandInheritedRoles(graph, role) =>
                 expandInheritedRoles(graph, role) = Reached(graph, role)
  <1> DEFINE e == CHOOSE f : f = Unfold(graph, f)
  <1>1. \E f : f = Unfold(graph, f)
    BY ExpansionExists
  <1>2. e = Unfold(graph, e)
    BY <1>1
  <1>3. expandInheritedRoles(graph, role) = e[{}][role]
    BY DEF Unfold, expandInheritedRoles
  <1> HIDE DEF e
  <1>4. Sound(graph, e, {}, role)
    BY <1>2, SolutionsAreSound
  <1>5. Loop \notin Reached(graph, role)
    BY RegistryAssumption DEF Reached
  <1> DEFINE got == e[{}][role]
             all == Reached(graph, role)
  <1>6. got \subseteq all \union {Loop}
    BY <1>4 DEF Sound
  <1>7. CASE Loop \in got
    <2>1. \E x \in all \union {role} : x \in Reached(graph, x)
      BY <1>4, <1>7 DEF Sound
    <2> QED
      BY <1>3, <1>7, <2>1
  <1>8. CASE Loop \notin got
    <2>1. all \subseteq got /\ \A x \in all \union {role} : x \notin Reached(graph, x)
      BY <1>4, <1>8 DEF Sound
    <2> QED
      BY <1>3, <1>6, <1>8, <2>1
  <1> QED
    BY <1>7, <1>8

\* The parents of the roles of one domain are roles.
LEMMA GraphType ==
    ASSUME NEW defs \in SUBSET Definition, NEW d
    PROVE  Graph(defs, d) \in [Roles -> SUBSET Roles]
  <1> SUFFICES ASSUME NEW r \in Roles
               PROVE  UNION {def.inherits : def \in {e \in defs : e.name = r /\ e.domain = d}}
                         \in SUBSET Roles
    BY DEF Graph
  <1>1. \A def \in defs : def.inherits \subseteq Roles
    BY DEF Definition
  <1> QED
    BY <1>1

\* Load refuses exactly the definitions with a cycle.
THEOREM LoadRefusesCycles ==
    ASSUME NEW defs \in SUBSET Definition
    PROVE  LoadFails(defs) <=> ~Acyclic(defs)
  <1>1. ASSUME NEW def \in defs
        PROVE  Loop \in expandInheritedRoles(Graph(defs, def.domain), def.name) <=>
                 \E r \in Roles : /\ r = def.name \/ Reaches(Graph(defs, def.domain), def.name, r)
                                  /\ Reaches(Graph(defs, def.domain), r, r)
    <2> DEFINE graph == Graph(defs, def.domain)
    <2>1. graph \in [Roles -> SUBSET Roles] /\ def.name \in Roles
      BY GraphType DEF Definition
    <2> HIDE DEF graph
    <2>2. Loop \in expandInheritedRoles(graph, def.name) <=>
             \E x \in Reached(graph, def.name) \union {def.name} : x \in Reached(graph, x)
      BY <2>1, ExpansionIsReach
    <2>3. @ <=> \E r \in Roles : (r = def.name \/ Reaches(graph, def.name, r)) /\ Reaches(graph, r, r)
      BY <2>1, <2>2 DEF Reached
    <2> QED
      BY <2>2, <2>3 DEF graph
  <1> QED
    BY <1>1 DEF LoadFails, Acyclic

\* Otherwise its rules are those of the reference.
THEOREM RulesAreReach ==
    ASSUME NEW defs \in SUBSET Definition, ~LoadFails(defs)
    PROVE  InheritanceRules(defs) = ReachableRules(defs)
  <1>1. ASSUME NEW def \in defs
        PROVE  /\ expandInheritedRoles(Graph(defs, def.domain), def.name)
                     = Reached(Graph(defs, def.domain), def.name)
               /\ def.name \in Roles /\ def.domain \in Domains
    <2>1. Graph(defs, def.domain) \in [Roles -> SUBSET Roles] /\ def.name \in Roles
      BY GraphType DEF Definition
    <2>2. Loop \notin expandInheritedRoles(Graph(defs, def.domain), def.name)
      BY DEF LoadFails
    <2> QED
      BY <2>1, <2>2, ExpansionIsReach DEF Definition
  <1>2. \A rule : rule \in InheritanceRules(defs) <=>
           \E def \in defs : \E q \in Reached(Graph(defs, def.domain), def.name) :
               rule = <<def.name, q, def.domain>>
    <2>1. \A rule : rule \in InheritanceRules(defs) <=>
           \E def \in defs : \E q \in expandInheritedRoles(Graph(defs, def.domain), def.name) :
               rule = <<def.name, q, def.domain>>
      BY DEF InheritanceRules
    <2> QED
      BY <1>1, <2>1
  <1>3. ASSUME NEW rule \in InheritanceRules(defs)
        PROVE  rule \in ReachableRules(defs)
    <2>a. PICK def \in defs : \E q \in Reached(Graph(defs, def.domain), def.name) :
              rule = <<def.name, q, def.domain>>
      BY <1>2
    <2>1. PICK q \in Reached(Graph(defs, def.domain), def.name) : rule = <<def.name, q, def.domain>>
      BY <2>a
    <2>2. q \in Roles /\ Reaches(Graph(defs, def.domain), def.name, q)
      BY DEF Reached
    <2>3. rule \in Roles \X Roles \X Domains
      BY <1>1, <2>1, <2>2
    <2>4. rule[1] = def.name /\ rule[2] = q /\ rule[3] = def.domain
      BY <2>1
    <2> QED
      BY <2>2, <2>3, <2>4 DEF ReachableRules
  <1>4. ASSUME NEW rule \in ReachableRules(defs)
        PROVE  rule \in InheritanceRules(defs)
    <2>1. /\ rule \in Roles \X Roles \X Domains
          /\ \E def \in defs : def.name = rule[1] /\ def.domain = rule[3]
          /\ Reaches(Graph(defs, rule[3]), rule[1], rule[2])
      BY DEF ReachableRules
    <2>2. PICK def \in defs : def.name = rule[1] /\ def.domain = rule[3]
      BY <2>1
    <2>3. rule[2] \in Reached(Graph(defs, def.domain), def.name)
      BY <2>1, <2>2 DEF Reached
    <2>4. rule = <<def.name, rule[2], def.domain>>
      BY <2>1, <2>2
    <2> QED
      BY <1>2, <2>3, <2>4
  <1> QED
    BY <1>3, <1>4

-----------------------------------------------------------------------------
(* Lists of grants *)

\* A set of natural numbers has a least member.
LEMMA LeastExists ==
    ASSUME NEW I \in SUBSET Nat, I # {}
    PROVE  \E i \in I : \A j \in I : i <= j
  <1> DEFINE Less == OpToRel(<, Nat)
  <1>1. IsWellFoundedOn(Less, Nat)
    BY NatLessThanWellFounded
  <1>2. \A i, j \in Nat : <<i, j>> \in Less <=> i < j
    BY DEF OpToRel
  <1> HIDE DEF Less
  <1>3. PICK i \in I : \A j \in I : ~ (<<j, i>> \in Less)
    BY <1>1, WFMin
  <1>4. \A j \in I : ~ (j < i) /\ i \in Nat /\ j \in Nat
    BY <1>2, <1>3
  <1> QED
    BY <1>4

\* What is left of a list without the entry at k.
Cut(list, k) == [i \in 1..(Len(list) - 1) |-> IF i < k THEN list[i] ELSE list[i + 1]]

\* Removing the entry at k is cutting it out.
LEMMA RemovedAt ==
    ASSUME NEW list \in Seq(Grants), NEW k \in 1..Len(list)
    PROVE  RemoveAt(list, k) = Cut(list, k)
  <1> DEFINE a == SubSeq(list, 1, k - 1)
             b == SubSeq(list, k + 1, Len(list))
  <1>1. a \in Seq(Grants) /\ Len(a) = k - 1 /\ \A i \in 1..(k - 1) : a[i] = list[i]
    OBVIOUS
  <1>2. /\ b \in Seq(Grants) /\ Len(b) = Len(list) - k
        /\ \A i \in 1..(Len(list) - k) : b[i] = list[k + i]
    OBVIOUS
  <1> HIDE DEF a, b
  <1>3. a \o b \in Seq(Grants) /\ Len(a \o b) = Len(list) - 1
    <2>1. ASSUME NEW x \in Seq(Grants), NEW y \in Seq(Grants)
          PROVE  x \o y \in Seq(Grants) /\ Len(x \o y) = Len(x) + Len(y)
      OBVIOUS
    <2>2. a \o b \in Seq(Grants) /\ Len(a \o b) = Len(a) + Len(b)
      BY <1>1, <1>2, <2>1
    <2>3. k - 1 \in Int /\ Len(list) - k \in Int /\ (k - 1) + (Len(list) - k) = Len(list) - 1
      OBVIOUS
    <2> QED
      BY <1>1, <1>2, <2>2, <2>3
  <1>4. ASSUME NEW i \in 1..(Len(list) - 1)
        PROVE  (a \o b)[i] = IF i < k THEN list[i] ELSE list[i + 1]
    <2>1. CASE i < k
      BY <1>1, <1>2, <2>1
    <2>2. CASE ~(i < k)
      <3>1. i - (k - 1) \in 1..(Len(list) - k) /\ k + (i - (k - 1)) = i + 1
        BY <2>2
      <3>2. (a \o b)[i] = b[i - (k - 1)]
        BY <1>1, <1>2, <2>2
      <3> QED
        BY <1>2, <2>2, <3>1, <3>2
    <2> QED
      BY <2>1, <2>2
  <1>5. a \o b = [i \in 1..(Len(list) - 1) |-> (a \o b)[i]]
    <2>1. ASSUME NEW s \in Seq(Grants)
          PROVE  s = [i \in 1..Len(s) |-> s[i]]
      OBVIOUS
    <2> QED
      BY <1>3, <2>1
  <1>6. a \o b = Cut(list, k)
    BY <1>4, <1>5 DEF Cut
  <1> QED
    BY <1>6 DEF RemoveAt, a, b

\* filterAssignment leaves a list without u as it is, and cuts one entry of u
\* out of any other.
LEMMA RemovedFirst ==
    ASSUME NEW list \in Seq(Grants), NEW u \in Grants
    PROVE  /\ u \notin GrantsIn(list) => filterAssignment(list, u) = list
           /\ u \in GrantsIn(list) => \E k \in 1..Len(list) :
                 list[k] = u /\ filterAssignment(list, u) = Cut(list, k)
  <1>1. CASE u \notin GrantsIn(list)
    <2>1. ~ \E i \in 1..Len(list) : list[i] = u
      BY <1>1 DEF GrantsIn
    <2> QED
      BY <1>1, <2>1 DEF filterAssignment, RemoveFirst
  <1>2. CASE u \in GrantsIn(list)
    <2> DEFINE I == {i \in 1..Len(list) : list[i] = u}
               k == Min(I)
    <2>1. I # {} /\ I \subseteq Nat
      BY <1>2 DEF GrantsIn
    <2>a. \E i \in I : \A j \in I : i <= j
      BY <2>1, LeastExists
    <2>2. k \in I
      BY <2>a DEF Min
    <2>3. filterAssignment(list, u) = RemoveAt(list, k)
      BY <2>1 DEF filterAssignment, RemoveFirst, SelectInSeq
    <2> QED
      BY <1>2, <2>2, <2>3, RemovedAt
  <1> QED
    BY <1>1, <1>2

Once(list, u) == \A i, j \in DOMAIN list : list[i] = u /\ list[j] = u => i = j

\* That keeps the other grants, repeats none, and leaves no entry of a grant
\* that was there once.
LEMMA CutFacts ==
    ASSUME NEW list \in Seq(Grants), NEW k \in 1..Len(list)
    PROVE  /\ Cut(list, k) \in Seq(Grants)
           /\ \A v : v # list[k] => (v \in GrantsIn(Cut(list, k)) <=> v \in GrantsIn(list))
           /\ \A v : Once(list, v) => Once(Cut(list, k), v)
           /\ Once(list, list[k]) => list[k] \notin GrantsIn(Cut(list, k))
  <1> DEFINE n == Len(list) - 1
             rest == Cut(list, k)
             from(i) == IF i < k THEN i ELSE i + 1
  <1>1. n \in Nat /\ \A i \in 1..n : from(i) \in DOMAIN list /\ from(i) # k
    OBVIOUS
  <1>2. DOMAIN rest = 1..n /\ \A i \in 1..n : rest[i] = list[from(i)]
    BY DEF Cut
  <1>3. \A j \in DOMAIN list : j # k => \E i \in 1..n : from(i) = j
    <2> SUFFICES ASSUME NEW j \in DOMAIN list, j # k PROVE \E i \in 1..n : from(i) = j
      OBVIOUS
    <2>1. CASE j < k
      <3>1. j \in 1..n /\ from(j) = j
        BY <2>1
      <3> QED
        BY <3>1
    <2>2. CASE j > k
      <3>1. j - 1 \in 1..n /\ from(j - 1) = j
        BY <2>2
      <3> QED
        BY <3>1
    <2> QED
      BY <2>1, <2>2
  <1>4. \A i, j \in 1..n : from(i) = from(j) => i = j
    OBVIOUS
  <1>5. \A i \in DOMAIN list : list[i] \in Grants
    OBVIOUS
  <1>6. rest \in Seq(Grants)
    BY <1>1, <1>5 DEF Cut
  <1> HIDE DEF n, rest, from
  <1>7. \A v : v # list[k] => (v \in GrantsIn(rest) <=> v \in GrantsIn(list))
    <2> SUFFICES ASSUME NEW v, v # list[k]
                 PROVE  v \in GrantsIn(rest) <=> v \in GrantsIn(list)
      OBVIOUS
    <2>1. v \in GrantsIn(rest) <=> \E i \in 1..n : list[from(i)] = v
      BY <1>2 DEF GrantsIn
    <2>2. v \in GrantsIn(list) <=> \E j \in DOMAIN list : list[j] = v /\ j # k
      BY DEF GrantsIn
    <2>3. (\E i \in 1..n : list[from(i)] = v) <=> \E j \in DOMAIN list : list[j] = v /\ j # k
      BY <1>1, <1>3
    <2> QED
      BY <2>1, <2>2, <2>3
  <1>8. \A v : Once(list, v) => Once(rest, v)
    BY <1>1, <1>2, <1>4 DEF Once
  <1>9. Once(list, list[k]) => list[k] \notin GrantsIn(rest)
    <2>1. k \in DOMAIN list
      OBVIOUS
    <2> QED
      BY <1>1, <1>2, <2>1 DEF Once, GrantsIn
  <1> QED
    BY <1>6, <1>7, <1>8, <1>9 DEF rest

\* An append adds one grant, and repeats it only if it was there.
LEMMA AppendFacts ==
    ASSUME NEW list \in Seq(Grants), NEW u \in Grants
    PROVE  /\ Append(list, u) \in Seq(Grants)
           /\ GrantsIn(Append(list, u)) = GrantsIn(list) \union {u}
           /\ \A v : Once(list, v) /\ (v = u => u \notin GrantsIn(list)) => Once(Append(list, u), v)
  <1> DEFINE n == Len(list)
             longer == Append(list, u)
  <1>1. n \in Nat /\ DOMAIN list = 1..n /\ longer \in Seq(Grants)
    OBVIOUS
  <1>2. /\ DOMAIN longer = 1..(n + 1) /\ longer[n + 1] = u
        /\ \A i \in 1..n : longer[i] = list[i]
    OBVIOUS
  <1>3. \A i \in 1..(n + 1) : i = n + 1 \/ i \in 1..n
    BY <1>1
  <1>4. n + 1 \in 1..(n + 1) /\ \A i \in 1..n : i \in 1..(n + 1)
    BY <1>1
  <1> HIDE DEF n, longer
  <1>5. GrantsIn(longer) = GrantsIn(list) \union {u}
    BY <1>1, <1>2, <1>3, <1>4 DEF GrantsIn
  <1>6. ASSUME NEW v, Once(list, v), v = u => u \notin GrantsIn(list),
               NEW i \in DOMAIN longer, NEW j \in DOMAIN longer, longer[i] = v, longer[j] = v
        PROVE  i = j
    <2>1. CASE v = u
      <3>1. \A m \in 1..n : list[m] # u
        BY <1>1, <1>6, <2>1 DEF GrantsIn
      <3> QED
        BY <1>2, <1>3, <1>6, <2>1, <3>1
    <2>2. CASE v # u
      <3>1. i \in 1..n /\ j \in 1..n
        BY <1>2, <1>3, <1>6, <2>2
      <3> QED
        BY <1>1, <1>2, <1>6, <3>1 DEF Once
    <2> QED
      BY <2>1, <2>2
  <1>7. \A v : Once(list, v) /\ (v = u => u \notin GrantsIn(list)) => Once(longer, v)
    BY <1>6 DEF Once
  <1> QED
    BY <1>1, <1>5, <1>7 DEF longer

-----------------------------------------------------------------------------
(* Who replaces the rules, and what is saved *)


\* Every thread has a call, and a call has a place where it is.
CallShape ==
    /\ call = [t \in Threads |-> call[t]]
    /\ \A t \in Threads : "pc" \in DOMAIN call[t]

Replacing == {"clear", "add", "unlock"}

\* Places from which a call goes on to switch saving on again.
Unsaving == {"rule", "cache", "restore"} \union Replacing

SavingReturns == autoSave \/ \E t \in Threads : call[t].pc \in Unsaving

\* Once the process has loaded its policies the two copies differ in the
\* unsaved ones only.
StoredUnlessUnsaved ==
    call[Boot].pc \notin {"load", "down"} =>
        \A x \in Policies \ unsaved : x \in p <=> x \in pTable

IInv == CallShape /\ RebuildsExclude /\ SavingReturns /\ StoredUnlessUnsaved

-----------------------------------------------------------------------------

\* The threads are different goroutines, and nobody is none of them.
LEMMA ThreadsDiffer ==
    /\ Boot \in Threads /\ Boot \notin Callers /\ Boot \notin Topics
    /\ Topics \subseteq Threads /\ Callers \subseteq Threads
    /\ None \notin Threads
  BY AuthzAssumption DEF Threads, Boot, Topics

\* The records a call may be replaced by say where it is.
LEMMA IdleShape ==
    /\ Idle.pc = "idle" /\ "pc" \in DOMAIN Idle
    /\ \A pc : /\ [Idle EXCEPT !.pc = pc].pc = pc
               /\ "pc" \in DOMAIN [Idle EXCEPT !.pc = pc]
    /\ \A pc, op : /\ [Idle EXCEPT !.pc = pc, !.op = op].pc = pc
                   /\ "pc" \in DOMAIN [Idle EXCEPT !.pc = pc, !.op = op]
    /\ \A pc, op, u : /\ [Idle EXCEPT !.pc = pc, !.op = op, !.grant = u].pc = pc
                      /\ "pc" \in DOMAIN [Idle EXCEPT !.pc = pc, !.op = op, !.grant = u]
    /\ \A pc, op, u : /\ [Idle EXCEPT !.pc = pc, !.grant = u, !.op = op].pc = pc
                      /\ "pc" \in DOMAIN [Idle EXCEPT !.pc = pc, !.grant = u, !.op = op]
  BY DEF Idle

\* So does what a rebuild returns to.
LEMMA ReturnShape ==
    ASSUME NEW t \in Threads
    PROVE  "pc" \in DOMAIN Return(t) /\ Return(t).pc \in {"subscribe", "publish", "idle"}
  <1>1. CASE t = Boot
    BY <1>1, IdleShape DEF Return
  <1>2. CASE t # Boot /\ call[t].op = "registry"
    BY <1>2, IdleShape DEF Return
  <1>3. CASE t # Boot /\ call[t].op # "registry"
    BY <1>3, IdleShape DEF Return
  <1> QED
    BY <1>1, <1>2, <1>3

-----------------------------------------------------------------------------
(* What a step does to the calls *)

\* The step is one of t: every other call stays where it is.
MovesOnly(t) ==
    /\ CallShape'
    /\ \A s \in Threads \ {t} : call'[s].pc = call[s].pc

\* Replacing one call keeps the shape and leaves the others alone.
LEMMA ReplaceCall ==
    ASSUME NEW t \in Threads, NEW r, CallShape, "pc" \in DOMAIN r,
           call' = [call EXCEPT ![t] = r]
    PROVE  MovesOnly(t) /\ call'[t].pc = r.pc
  BY DEF CallShape, MovesOnly

\* So does moving one call on.
LEMMA MoveCall ==
    ASSUME NEW t \in Threads, NEW pc, CallShape, Step(t, pc)
    PROVE  MovesOnly(t) /\ call'[t].pc = pc
  <1> DEFINE r == [call[t] EXCEPT !.pc = pc]
  <1>1. call' = [call EXCEPT ![t] = r]
    BY DEF Step
  <1>2. "pc" \in DOMAIN r /\ r.pc = pc
    BY DEF CallShape
  <1> QED
    BY <1>1, <1>2, ReplaceCall

\* A step of one call keeps the invariant if it neither takes nor leaves the
\* lock, leaves the permission rules alone, and remembers to switch saving on.
LEMMA OrdinaryStep ==
    ASSUME NEW t \in Threads, IInv, MovesOnly(t), mu' = mu,
           call'[t].pc \in Replacing <=> call[t].pc \in Replacing,
           \/ autoSave' = TRUE
           \/ call'[t].pc \in Unsaving
           \/ autoSave' = autoSave /\ call[t].pc \notin Unsaving,
           UNCHANGED <<p, pTable, unsaved>>,
           call[t].pc \in {"load", "down"} /\ t = Boot => call'[t].pc \in {"load", "down"}
    PROVE  IInv'
  <1>1. CallShape'
    BY DEF MovesOnly
  <1>2. RebuildsExclude'
    <2> SUFFICES ASSUME NEW s \in Threads
                 PROVE  call'[s].pc \in Replacing <=> mu' = s
      BY DEF RebuildsExclude, Replacing
    <2>1. call[s].pc \in Replacing <=> mu = s
      BY DEF IInv, RebuildsExclude, Replacing
    <2>2. call'[s].pc \in Replacing <=> call[s].pc \in Replacing
      BY DEF MovesOnly
    <2> QED
      BY <2>1, <2>2
  <1>3. SavingReturns'
    <2>1. CASE autoSave' = TRUE
      BY <2>1 DEF SavingReturns
    <2>2. CASE call'[t].pc \in Unsaving
      BY <2>2 DEF SavingReturns
    <2>3. CASE autoSave' = autoSave /\ call[t].pc \notin Unsaving
      BY <2>3 DEF IInv, SavingReturns, MovesOnly
    <2> QED
      BY <2>1, <2>2, <2>3
  <1>4. StoredUnlessUnsaved'
    BY ThreadsDiffer DEF IInv, StoredUnlessUnsaved, MovesOnly
  <1> QED
    BY <1>1, <1>2, <1>3, <1>4 DEF IInv

\* A step that moves no call keeps it too.
LEMMA NoCallMoves ==
    ASSUME IInv, UNCHANGED <<call, mu, autoSave, p, pTable, unsaved>>
    PROVE  IInv'
  BY DEF IInv, CallShape, RebuildsExclude, SavingReturns, StoredUnlessUnsaved

-----------------------------------------------------------------------------
(* The steps of one call *)

\* A service call or a handled event starts.
LEMMA CallStarts ==
    ASSUME NEW t \in Threads, NEW r, IInv, At(t, "idle"),
           call' = [call EXCEPT ![t] = r], "pc" \in DOMAIN r,
           r.pc \in {"save", "roles", "load"}, r.pc = "load" => t # Boot,
           UNCHANGED <<mu, autoSave, p, pTable, unsaved>>
    PROVE  IInv'
  <1>1. MovesOnly(t) /\ call'[t].pc = r.pc
    BY ReplaceCall DEF IInv
  <1>2. call[t].pc = "idle"
    BY DEF At
  <1> QED
    BY <1>1, <1>2, OrdinaryStep DEF Replacing, Unsaving

\* A call ends, or waits elsewhere, without having switched saving off.
LEMMA CallEnds ==
    ASSUME NEW t \in Threads, NEW r, IInv,
           call' = [call EXCEPT ![t] = r], "pc" \in DOMAIN r,
           call[t].pc \notin Unsaving,
           r.pc \in {"idle", "down", "subscribe", "publish", "lock", "assignments"},
           t = Boot => r.pc = "down" \/ call[t].pc \notin {"load", "down"},
           UNCHANGED <<mu, autoSave, p, pTable, unsaved>>
    PROVE  IInv'
  <1>1. MovesOnly(t) /\ call'[t].pc = r.pc
    BY ReplaceCall DEF IInv
  <1> QED
    BY <1>1, OrdinaryStep DEF Replacing, Unsaving

\* AssignUserRole and RevokeUserRole leave the lock to the rebuilds and switch
\* saving on after they have switched it off.
LEMMA UpdatingKeeps ==
    ASSUME NEW t \in Threads, IInv, Updating(t)
    PROVE  IInv'
  <1>1. CASE DisableAutoSave(t)
    <2>1. MovesOnly(t) /\ call'[t].pc = "rule"
      BY <1>1, MoveCall DEF IInv, DisableAutoSave
    <2> QED
      BY <1>1, <2>1, OrdinaryStep DEF DisableAutoSave, At, Replacing, Unsaving, tables, ghosts
  <1>2. CASE ChangeRule(t)
    <2>1. MovesOnly(t) /\ call'[t].pc \in {"restore", "cache"}
      BY <1>2, MoveCall DEF IInv, ChangeRule
    <2>2. call[t].pc = "rule" /\ UNCHANGED <<mu, p, pTable, unsaved>>
      BY <1>2 DEF ChangeRule, At
    <2> QED
      BY <2>1, <2>2, OrdinaryStep DEF Replacing, Unsaving
  <1>3. CASE UpdateCache(t)
    <2>1. call[t].pc = "cache" /\ UNCHANGED <<mu, p, pTable, unsaved>>
      BY <1>3 DEF UpdateCache, At, tables
    <2>2. MovesOnly(t) /\ call'[t].pc = "restore"
      <3>1. CASE Step(t, "restore")
        BY <3>1, MoveCall DEF IInv
      <3>2. CASE ~Step(t, "restore")
        <4> DEFINE moved(old) == IF call[t].op = "assign" THEN Overwritten(old, cache, call[t].grant)
                                 ELSE Shifted(old, cache, call[t].grant)
        <4>1. PICK inPlace \in BOOLEAN :
                call' = [s \in Threads |->
                           IF s = t THEN [call[s] EXCEPT !.pc = "restore"]
                           ELSE IF s \in Sharing
                             THEN [call[s] EXCEPT !.list = IF inPlace THEN moved(@) ELSE @,
                                                  !.shared = inPlace]
                           ELSE call[s]]
          BY <1>3, <3>2 DEF UpdateCache
        <4> HIDE DEF moved
        <4> QED
          BY <4>1 DEF IInv, CallShape, MovesOnly
      <3> QED
        BY <3>1, <3>2
    <2> QED
      BY <2>1, <2>2, OrdinaryStep DEF Replacing, Unsaving
  <1>4. CASE RestoreAutoSave(t)
    <2> DEFINE r == IF t \in Callers THEN [call[t] EXCEPT !.pc = "publish"] ELSE Idle
    <2>1. call' = [call EXCEPT ![t] = r]
      BY <1>4 DEF RestoreAutoSave
    <2>2. "pc" \in DOMAIN r /\ r.pc \in {"publish", "idle"}
      BY IdleShape DEF IInv, CallShape
    <2>3. MovesOnly(t) /\ call'[t].pc \in {"publish", "idle"}
      BY <2>1, <2>2, ReplaceCall DEF IInv
    <2>4. /\ call[t].pc = "restore" /\ autoSave' = TRUE
          /\ UNCHANGED <<mu, p, pTable, unsaved>>
      BY <1>4 DEF RestoreAutoSave, At, tables, ghosts
    <2> QED
      BY <2>3, <2>4, OrdinaryStep DEF Replacing, Unsaving
  <1> QED
    BY <1>1, <1>2, <1>3, <1>4 DEF Updating

\* A rebuild takes the lock, switches saving off, and undoes both on every path.
LEMMA RebuildingKeeps ==
    ASSUME NEW t \in Threads, IInv, Rebuilding(t)
    PROVE  IInv'
  <1> DEFINE end == IF t = Boot THEN [Idle EXCEPT !.pc = "down"] ELSE Idle
  <1>e. "pc" \in DOMAIN end /\ end.pc \in {"idle", "down"} /\ (t = Boot => end.pc = "down")
    BY IdleShape
  <1> HIDE DEF end
  <1>1. CASE LoadPolicy(t)
    <2>1. call[t].pc = "load" /\ UNCHANGED <<mu, autoSave, pTable>>
      BY <1>1 DEF LoadPolicy, At, tables
    <2>2. CASE call' = [call EXCEPT ![t] = end] /\ UNCHANGED <<p, unsaved>>
      BY <2>1, <2>2, <1>e, CallEnds DEF Unsaving, Replacing
    <2>3. CASE p' = pTable /\ Step(t, IF t = Boot THEN "policies" ELSE "read")
      <3>1. MovesOnly(t) /\ call'[t].pc \in {"policies", "read"}
        BY <2>3, MoveCall DEF IInv
      <3>2. CallShape' /\ RebuildsExclude'
        BY <2>1, <3>1 DEF MovesOnly, IInv, RebuildsExclude
      <3>3. SavingReturns'
        BY <2>1, <3>1 DEF MovesOnly, IInv, SavingReturns, Unsaving, Replacing
      <3>4. StoredUnlessUnsaved'
        BY <2>1, <2>3 DEF StoredUnlessUnsaved
      <3> QED
        BY <3>2, <3>3, <3>4 DEF IInv
    <2> QED
      BY <1>1, <2>2, <2>3 DEF LoadPolicy, end
  <1>2. CASE ReadCached(t)
    <2> DEFINE r == [call[t] EXCEPT !.pc = "lock", !.defs = lastDefs, !.list = cache,
                                    !.shared = TRUE]
    <2>1. /\ call[t].pc = "read" /\ call' = [call EXCEPT ![t] = r]
          /\ UNCHANGED <<mu, autoSave, p, pTable, unsaved>>
      BY <1>2 DEF ReadCached, At, tables, ghosts
    <2>2. "pc" \in DOMAIN r /\ r.pc = "lock"
      BY DEF IInv, CallShape
    <2> HIDE DEF r
    <2> QED
      BY <2>1, <2>2, CallEnds DEF Unsaving, Replacing
  <1>3. CASE ListRoles(t)
    <2>1. call[t].pc = "roles" /\ UNCHANGED <<mu, autoSave, p, pTable, unsaved>>
      BY <1>3 DEF ListRoles, At, tables, ghosts
    <2>2. CASE call' = [call EXCEPT ![t] = end]
      BY <2>1, <2>2, <1>e, CallEnds DEF Unsaving, Replacing
    <2>3. CASE call' # [call EXCEPT ![t] = end]
      <3> DEFINE r == [call[t] EXCEPT !.pc = IF call[t].op = "registry" THEN "lock" ELSE "assignments",
                                      !.defs = db.defs,
                                      !.asOf = IF Undisturbed(t) THEN db.commits ELSE None]
      <3>1. call' = [call EXCEPT ![t] = r]
        BY <1>3, <2>3 DEF ListRoles, end
      <3>2. "pc" \in DOMAIN r /\ r.pc \in {"lock", "assignments"}
        BY DEF IInv, CallShape
      <3> HIDE DEF r
      <3> QED
        BY <2>1, <3>1, <3>2, CallEnds DEF Unsaving, Replacing
    <2> QED
      BY <2>2, <2>3
  <1>4. CASE ListAllAssignments(t)
    <2>1. call[t].pc = "assignments" /\ UNCHANGED <<mu, autoSave, p, pTable, unsaved>>
      BY <1>4 DEF ListAllAssignments, At, tables, ghosts
    <2>2. CASE call' = [call EXCEPT ![t] = end]
      BY <2>1, <2>2, <1>e, CallEnds DEF Unsaving, Replacing
    <2>3. CASE call' # [call EXCEPT ![t] = end]
      <3>1. PICK list \in Listings(db.grants) :
              call' = [call EXCEPT ![t] = [call[t] EXCEPT !.pc = "lock", !.list = list]]
        BY <1>4, <2>3 DEF ListAllAssignments, end
      <3> DEFINE r == [call[t] EXCEPT !.pc = "lock", !.list = list]
      <3>2. "pc" \in DOMAIN r /\ r.pc = "lock"
        BY DEF IInv, CallShape
      <3>3. call' = [call EXCEPT ![t] = r]
        BY <3>1
      <3> HIDE DEF r
      <3> QED
        BY <2>1, <3>2, <3>3, CallEnds DEF Unsaving, Replacing
    <2> QED
      BY <2>2, <2>3
  <1>5. CASE LoadRefused(t)
    <2>1. call[t].pc = "lock" /\ UNCHANGED <<mu, autoSave, p, pTable, unsaved>>
      BY <1>5 DEF LoadRefused, At, tables, ghosts
    <2>2. \/ call' = [call EXCEPT ![t] = end]
          \/ t # Boot /\ call' = [call EXCEPT ![t] = Return(t)]
      BY <1>5 DEF LoadRefused, end
    <2> QED
      BY <2>1, <2>2, <1>e, ReturnShape, CallEnds DEF Unsaving, Replacing
  <1>6. CASE LockAndLoad(t)
    <2>1. call[t].pc = "lock" /\ mu = None /\ mu' = t /\ UNCHANGED <<p, pTable, unsaved>>
      BY <1>6 DEF LockAndLoad, At, tables
    <2>2. MovesOnly(t) /\ call'[t].pc = "clear"
      BY <1>6 DEF LockAndLoad, IInv, CallShape, MovesOnly
    <2>3. RebuildsExclude'
      BY <2>1, <2>2, ThreadsDiffer DEF IInv, RebuildsExclude, MovesOnly
    <2>4. SavingReturns'
      BY <2>2 DEF SavingReturns, Unsaving, Replacing
    <2>5. StoredUnlessUnsaved'
      BY <2>1, <2>2, ThreadsDiffer DEF IInv, StoredUnlessUnsaved, MovesOnly
    <2> QED
      BY <2>2, <2>3, <2>4, <2>5 DEF IInv, MovesOnly
  <1>7. CASE ClearRules(t) \/ AddRule(t)
    <2>1. call[t].pc \in {"clear", "add"} /\ UNCHANGED <<mu, autoSave, p, pTable, unsaved>>
      BY <1>7 DEF ClearRules, AddRule, At, ghosts
    <2>2. MovesOnly(t) /\ call'[t].pc \in {"add", "unlock"}
      <3>1. CASE Fails(t)
        <4> DEFINE r == [call[t] EXCEPT !.pc = "unlock", !.failed = TRUE]
        <4>1. call' = [call EXCEPT ![t] = r]
          BY <3>1 DEF Fails
        <4>2. "pc" \in DOMAIN r /\ r.pc = "unlock"
          BY DEF IInv, CallShape
        <4> HIDE DEF r
        <4> QED
          BY <4>1, <4>2, ReplaceCall DEF IInv
      <3>2. CASE ClearRules(t) /\ ~Fails(t)
        <4> DEFINE rest == InheritanceRules(lastDefs) \union GrantsIn(call[t].list)
                   r == [call[t] EXCEPT !.pc = "add", !.todo = rest]
        <4>1. call' = [call EXCEPT ![t] = r]
          BY <3>2 DEF ClearRules
        <4>2. "pc" \in DOMAIN r /\ r.pc = "add"
          BY DEF IInv, CallShape
        <4> HIDE DEF r
        <4> QED
          BY <4>1, <4>2, ReplaceCall DEF IInv
      <3>3. CASE AddRule(t) /\ ~Fails(t)
        <4>1. PICK rule : call' = [call EXCEPT ![t] = [call[t] EXCEPT !.todo = call[t].todo \ {rule}]]
          BY <3>3 DEF AddRule
        <4> DEFINE r == [call[t] EXCEPT !.todo = call[t].todo \ {rule}]
        <4>2. "pc" \in DOMAIN r /\ r.pc = call[t].pc
          BY DEF IInv, CallShape
        <4>3. call[t].pc = "add"
          BY <3>3 DEF AddRule, At
        <4> QED
          BY <4>1, <4>2, <4>3, ReplaceCall DEF IInv
      <3> QED
        BY <1>7, <3>1, <3>2, <3>3
    <2> QED
      BY <2>1, <2>2, OrdinaryStep DEF Unsaving, Replacing
  <1>8. CASE Unlock(t)
    <2>1. /\ call[t].pc \in {"add", "unlock"} /\ mu' = None /\ autoSave' = TRUE
          /\ UNCHANGED <<p, pTable, unsaved>>
      BY <1>8 DEF Unlock, At, tables
    <2>2. MovesOnly(t) /\ call'[t].pc \in {"idle", "down", "subscribe", "publish"}
      <3>1. \/ call' = [call EXCEPT ![t] = [Idle EXCEPT !.pc = "down"]]
            \/ call' = [call EXCEPT ![t] = Return(t)]
        BY <1>8 DEF Unlock
      <3> QED
        BY <3>1, IdleShape, ReturnShape, ReplaceCall DEF IInv
    <2>3. RebuildsExclude'
      BY <2>1, <2>2, ThreadsDiffer DEF IInv, RebuildsExclude, MovesOnly
    <2>4. SavingReturns'
      BY <2>1 DEF SavingReturns
    <2>5. StoredUnlessUnsaved'
      BY <2>1, <2>2, ThreadsDiffer DEF IInv, StoredUnlessUnsaved, MovesOnly
    <2> QED
      BY <2>2, <2>3, <2>4, <2>5 DEF IInv, MovesOnly
  <1> QED
    BY <1>1, <1>2, <1>3, <1>4, <1>5, <1>6, <1>7, <1>8 DEF Rebuilding

\* A service call starts and publishes when it needs neither lock nor switch.
LEMMA CallingKeeps ==
    ASSUME NEW c \in Callers, IInv, Calling(c) \/ PublishOwn(c)
    PROVE  IInv'
  <1>0. c \in Threads /\ c # Boot
    BY ThreadsDiffer
  <1>1. ASSUME NEW u \in Grants, CallAssign(c, u) \/ CallRevoke(c, u)
        PROVE  IInv'
    <2>1. PICK op : call' = [call EXCEPT ![c] = [Idle EXCEPT !.pc = "save", !.op = op, !.grant = u]]
      BY <1>1 DEF CallAssign, CallRevoke
    <2>2. At(c, "idle") /\ UNCHANGED <<mu, autoSave, p, pTable, unsaved>>
      BY <1>1 DEF CallAssign, CallRevoke, tables
    <2> DEFINE r == [Idle EXCEPT !.pc = "save", !.op = op, !.grant = u]
    <2>3. "pc" \in DOMAIN r /\ r.pc = "save"
      BY IdleShape
    <2>4. call' = [call EXCEPT ![c] = r]
      BY <2>1
    <2> HIDE DEF r
    <2> QED
      BY <1>0, <2>2, <2>3, <2>4, CallStarts
  <1>2. CASE CallReloadRegistry(c) \/ CallReloadPolicy(c)
    <2>1. PICK pc \in {"roles", "load"} : \E op :
            call' = [call EXCEPT ![c] = [Idle EXCEPT !.pc = pc, !.op = op]]
      BY <1>2 DEF CallReloadRegistry, CallReloadPolicy
    <2>2. At(c, "idle") /\ UNCHANGED <<mu, autoSave, p, pTable, unsaved>>
      BY <1>2 DEF CallReloadRegistry, CallReloadPolicy, tables, ghosts
    <2>a. PICK op : call' = [call EXCEPT ![c] = [Idle EXCEPT !.pc = pc, !.op = op]]
      BY <2>1
    <2> DEFINE r == [Idle EXCEPT !.pc = pc, !.op = op]
    <2>3. "pc" \in DOMAIN r /\ r.pc \in {"roles", "load"}
      BY IdleShape
    <2>4. call' = [call EXCEPT ![c] = r]
      BY <2>a
    <2> HIDE DEF r
    <2> QED
      BY <1>0, <2>2, <2>3, <2>4, CallStarts
  <1>3. CASE PublishOwn(c)
    <2>1. call[c].pc = "publish" /\ call' = [call EXCEPT ![c] = Idle]
      BY <1>3 DEF PublishOwn, At
    <2>2. UNCHANGED <<mu, autoSave, p, pTable, unsaved>>
      BY <1>3 DEF PublishOwn, tables, ghosts
    <2> QED
      BY <1>0, <2>1, <2>2, IdleShape, CallEnds DEF Unsaving, Replacing
  <1> QED
    BY <1>1, <1>2, <1>3 DEF Calling

\* So do the handlers of events.
LEMMA HandlingKeeps ==
    ASSUME IInv, Handling
    PROVE  IInv'
  <1>1. CASE handleRoleChanged
    <2>1. "role.changed" \in Threads /\ "role.changed" # Boot
      BY ThreadsDiffer DEF Topics, Boot
    <2>2. /\ At("role.changed", "idle")
          /\ UNCHANGED <<mu, autoSave, p, pTable, unsaved>>
          /\ \/ UNCHANGED call
             \/ call' = [call EXCEPT !["role.changed"] = [Idle EXCEPT !.pc = "roles", !.op = "rebuild"]]
      BY <1>1 DEF handleRoleChanged, tables, ghosts
    <2>3. CASE UNCHANGED call
      BY <2>2, <2>3, NoCallMoves
    <2>4. CASE ~UNCHANGED call
      <3> DEFINE r == [Idle EXCEPT !.pc = "roles", !.op = "rebuild"]
      <3>1. "pc" \in DOMAIN r /\ r.pc = "roles"
        BY IdleShape
      <3>2. call' = [call EXCEPT !["role.changed"] = r]
        BY <2>2, <2>4
      <3> HIDE DEF r
      <3> QED
        BY <2>1, <2>2, <3>1, <3>2, CallStarts
    <2> QED
      BY <2>3, <2>4
  <1>2. ASSUME NEW topic \in Topics, handleRoleEvent(topic)
        PROVE  IInv'
    <2>1. topic \in Threads /\ topic # Boot
      BY ThreadsDiffer
    <2>2. /\ At(topic, "idle")
          /\ UNCHANGED <<mu, autoSave, p, pTable, unsaved>>
          /\ \/ UNCHANGED call
             \/ \E op, u : call' = [call EXCEPT ![topic] =
                                      [Idle EXCEPT !.pc = "save", !.grant = u, !.op = op]]
      BY <1>2 DEF handleRoleEvent, tables, ghosts
    <2>3. CASE UNCHANGED call
      BY <2>2, <2>3, NoCallMoves
    <2>4. CASE ~UNCHANGED call
      <3>1. PICK op, u : call' = [call EXCEPT ![topic] =
                                    [Idle EXCEPT !.pc = "save", !.grant = u, !.op = op]]
        BY <2>2, <2>4
      <3> DEFINE r == [Idle EXCEPT !.pc = "save", !.grant = u, !.op = op]
      <3>2. "pc" \in DOMAIN r /\ r.pc = "save"
        BY IdleShape
      <3>3. call' = [call EXCEPT ![topic] = r]
        BY <3>1
      <3> HIDE DEF r
      <3> QED
        BY <2>1, <2>2, <3>2, <3>3, CallStarts
    <2> QED
      BY <2>3, <2>4
  <1> QED
    BY <1>1, <1>2 DEF Handling

\* The start of a process seeds both copies of the policies or neither.
LEMMA StartingKeeps ==
    ASSUME IInv, Starting
    PROVE  IInv'
  <1>1. CASE InitDefaultPolicies
    <2>1. call[Boot].pc = "policies" /\ UNCHANGED <<mu, autoSave, unsaved>>
      BY <1>1 DEF InitDefaultPolicies, At, ghosts
    <2>2. MovesOnly(Boot) /\ call'[Boot].pc \in {"roles", "down"}
      <3>1. CASE Step(Boot, "down")
        BY <3>1, ThreadsDiffer, MoveCall DEF IInv
      <3>2. CASE ~Step(Boot, "down")
        <4> DEFINE r == [Idle EXCEPT !.pc = "roles", !.op = "rebuild"]
        <4>1. call' = [call EXCEPT ![Boot] = r]
          BY <1>1, <3>2 DEF InitDefaultPolicies
        <4>2. "pc" \in DOMAIN r /\ r.pc = "roles"
          BY IdleShape
        <4> HIDE DEF r
        <4> QED
          BY <4>1, <4>2, ThreadsDiffer, ReplaceCall DEF IInv
      <3> QED
        BY <3>1, <3>2
    <2>3. CallShape' /\ RebuildsExclude'
      BY <2>1, <2>2 DEF IInv, MovesOnly, RebuildsExclude
    <2>4. SavingReturns'
      BY <2>1, <2>2 DEF IInv, MovesOnly, SavingReturns, Unsaving, Replacing
    <2>5. \A x \in Policies \ unsaved : x \in p <=> x \in pTable
      BY <2>1 DEF IInv, StoredUnlessUnsaved
    <2>6. \/ UNCHANGED <<p, pTable>>
          \/ p = {} /\ p' = defaultPolicies /\ pTable' = pTable \union defaultPolicies
      BY <1>1 DEF InitDefaultPolicies
    <2>7. StoredUnlessUnsaved'
      BY <2>1, <2>5, <2>6 DEF StoredUnlessUnsaved
    <2> QED
      BY <2>3, <2>4, <2>7 DEF IInv
  <1>2. ASSUME NEW topic \in Topics, SubscribeTo(topic)
        PROVE  IInv'
    <2>1. /\ call[Boot].pc = "subscribe"
          /\ UNCHANGED call \/ call' = [call EXCEPT ![Boot] = Idle]
          /\ UNCHANGED <<mu, autoSave, p, pTable, unsaved>>
      BY <1>2 DEF SubscribeTo, At, tables, ghosts
    <2> QED
      BY <2>1, ThreadsDiffer, IdleShape, NoCallMoves, CallEnds DEF Unsaving, Replacing
  <1> QED
    BY <1>1, <1>2 DEF Starting

\* Permission rules change in both copies, or become unsaved.
LEMMA PolicyKeeps ==
    ASSUME NEW x \in Policies, IInv, AddPolicy(x) \/ RemovePolicy(x)
    PROVE  IInv'
  <1>1. UNCHANGED <<call, mu, autoSave>> /\ call[Boot].pc = "idle"
    BY DEF AddPolicy, RemovePolicy, Up, At
  <1>2. CallShape' /\ RebuildsExclude' /\ SavingReturns'
    BY <1>1 DEF IInv, CallShape, RebuildsExclude, SavingReturns
  <1>3. \A y \in Policies \ unsaved : y \in p <=> y \in pTable
    BY <1>1 DEF IInv, StoredUnlessUnsaved
  <1>4. StoredUnlessUnsaved'
    <2>1. \A y \in Policies \ unsaved' : y \in p' <=> y \in pTable'
      <3>1. CASE AddPolicy(x)
        BY <1>3, <3>1 DEF AddPolicy
      <3>2. CASE RemovePolicy(x)
        BY <1>3, <3>2 DEF RemovePolicy
      <3> QED
        BY <3>1, <3>2
    <2> QED
      BY <2>1 DEF StoredUnlessUnsaved
  <1> QED
    BY <1>2, <1>4 DEF IInv

\* Close only ends the subscriptions.
LEMMA CloseKeeps == ASSUME IInv, Close PROVE IInv'
  <1>1. MovesOnly(Boot) /\ call'[Boot].pc = "down"
    BY ThreadsDiffer, MoveCall DEF Close, IInv
  <1>2. /\ call[Boot].pc = "idle"
        /\ UNCHANGED <<mu, autoSave, p, pTable, unsaved>>
    BY DEF Close, Up, At, tables, ghosts
  <1> QED
    BY <1>1, <1>2, ThreadsDiffer, OrdinaryStep DEF Unsaving, Replacing

\* A process that has just started holds nothing and has switched nothing off.
LEMMA RestartKeeps == ASSUME Restart PROVE IInv'
  <1>1. /\ call' = [t \in Threads |-> IF t = Boot THEN [Idle EXCEPT !.pc = "load"] ELSE Idle]
        /\ autoSave' = TRUE /\ mu' = None
    BY DEF Restart
  <1>2. \A t \in Threads : "pc" \in DOMAIN (call'[t]) /\ call'[t].pc \in {"load", "idle"}
    BY <1>1, IdleShape
  <1>3. call'[Boot].pc = "load"
    BY <1>1, ThreadsDiffer, IdleShape
  <1> QED
    BY <1>1, <1>2, <1>3, ThreadsDiffer
    DEF IInv, CallShape, RebuildsExclude, SavingReturns, StoredUnlessUnsaved

\* The same holds for the first process.
LEMMA InitIInv == Init => IInv
  <1> SUFFICES ASSUME Init PROVE IInv
    OBVIOUS
  <1>1. /\ call = [t \in Threads |-> IF t = Boot THEN [Idle EXCEPT !.pc = "load"] ELSE Idle]
        /\ autoSave = TRUE /\ mu = None
    BY DEF Init
  <1>2. \A t \in Threads : "pc" \in DOMAIN (call[t]) /\ call[t].pc \in {"load", "idle"}
    BY <1>1, IdleShape
  <1>3. call[Boot].pc = "load"
    BY <1>1, ThreadsDiffer, IdleShape
  <1> QED
    BY <1>1, <1>2, <1>3, ThreadsDiffer
    DEF IInv, CallShape, RebuildsExclude, SavingReturns, StoredUnlessUnsaved

-----------------------------------------------------------------------------
(* Theorems *)

\* The invariant is inductive.
LEMMA InvariantKept == IInv /\ [Next]_vars => IInv'
  <1> SUFFICES ASSUME IInv, [Next]_vars PROVE IInv'
    OBVIOUS
  <1>1. CASE RemoteCommit \/ RemotePublish
    <2>1. UNCHANGED <<call, mu, autoSave, p, pTable, unsaved>>
      BY <1>1 DEF RemoteCommit, RemotePublish, tables, ghosts
    <2> QED
      BY <2>1, NoCallMoves
  <1>2. CASE UNCHANGED vars
    <2>1. UNCHANGED <<call, mu, autoSave, p, pTable, unsaved>>
      BY <1>2 DEF vars, tables, ghosts
    <2> QED
      BY <2>1, NoCallMoves
  <1>3. ASSUME NEW c \in Callers, Calling(c) \/ PublishOwn(c) PROVE IInv'
    BY <1>3, CallingKeeps
  <1>4. ASSUME NEW t \in Threads, Updating(t) \/ Rebuilding(t) PROVE IInv'
    BY <1>4, UpdatingKeeps, RebuildingKeeps
  <1>5. CASE Handling \/ Starting \/ Close \/ Restart
    BY <1>5, HandlingKeeps, StartingKeeps, CloseKeeps, RestartKeeps
  <1>6. ASSUME NEW x \in Policies, AddPolicy(x) \/ RemovePolicy(x) PROVE IInv'
    BY <1>6, PolicyKeeps
  <1> QED
    BY <1>1, <1>2, <1>3, <1>4, <1>5, <1>6 DEF Next

\* It holds in every reachable state.
LEMMA Invariant == Spec => []IInv
  BY InitIInv, InvariantKept, PTL DEF Spec

\* Only the owner of AuthzManager.mu clears and adds grouping rules, whatever
\* fails or is called meanwhile: two rebuilds are never mixed.
THEOREM RebuildsNeverMix == Spec => []RebuildsExclude
  <1>1. IInv => RebuildsExclude
    BY DEF IInv
  <1> QED
    BY <1>1, Invariant, PTL

\* The switch for saving, shared by all calls, is on again when they are done,
\* and the table and the enforcer agree on every permission rule that was not
\* changed while it was off.
THEOREM StoredWhenQuiet == Spec => []PoliciesAreStored
  <1>1. IInv => PoliciesAreStored
    <2> SUFFICES ASSUME IInv, Quiet
                 PROVE  autoSave /\ \A x \in Policies \ unsaved : x \in p <=> x \in pTable
      BY DEF PoliciesAreStored
    <2>1. \A t \in Threads : call[t].pc = "idle"
      BY DEF Quiet, InFlight, At
    <2>2. autoSave
      BY <2>1 DEF IInv, SavingReturns, Unsaving, Replacing
    <2>3. \A x \in Policies \ unsaved : x \in p <=> x \in pTable
      BY <2>1, ThreadsDiffer DEF IInv, StoredUnlessUnsaved
    <2> QED
      BY <2>2, <2>3
  <1> QED
    BY <1>1, Invariant, PTL

-----------------------------------------------------------------------------
(* The invariant behind the agreement of enforcer, inputs and database *)

\* What a call is about, by the place where it is.
Sane(t, r) ==
    /\ r.pc = "idle" => r.op = "none"
    /\ r.pc \in {"save", "rule", "cache", "restore"} => r.op \in {"assign", "revoke"} /\ r.grant \in Grants
    /\ r.pc = "publish" => \/ r.op \in {"assign", "revoke"} /\ r.grant \in Grants
                           \/ r.op = "registry"
    /\ r.pc \in {"load", "read"} => r.op = IF t = Boot THEN "none" ELSE "policy"
    /\ r.pc = "roles" => r.op \in {"rebuild", "registry"} /\ r.asOf = None
    /\ r.pc = "assignments" => r.op = "rebuild"
    /\ r.pc \in {"lock", "clear", "add", "unlock"} => r.op \in {"rebuild", "registry", "policy"}
    /\ r.pc = "lock" /\ r.op = "policy" => ~LoadFails(r.defs)
    /\ r.pc \in {"policies", "subscribe"} => t = Boot /\ r.op = "none"
    /\ t = Boot /\ r.pc \in {"roles", "assignments", "lock", "clear", "add", "unlock"} => r.op = "rebuild"
    /\ t = Boot => r.pc # "read"
    /\ r.failed <=> r.pc = "unlock"

\* Events on assignments name one.
NamesGrant(event) == event.topic # "role.changed" => event.grant \in Grants

Place == {"idle", "save", "rule", "cache", "restore", "publish", "roles",
          "assignments", "load", "read", "lock", "clear", "add", "unlock",
          "policies", "subscribe", "down"}

WorldOK ==
    /\ db \in [grants : SUBSET Grants, defs : DefSets, commits : 0..MaxCommits]
    /\ IsFiniteSet(db.grants)
    /\ unsent \subseteq [topic : Topics, grant : Grants \union {None}, n : 0..MaxCommits]
    /\ \A event \in unsent : NamesGrant(event)

BusOK ==
    /\ queue \in [Topics -> Seq(Event)] /\ subs \subseteq Topics
    /\ \A topic \in Topics : \A i \in DOMAIN queue[topic] :
          queue[topic][i].topic = topic /\ NamesGrant(queue[topic][i])

RulesOK ==
    /\ p \subseteq Policies /\ pTable \subseteq Policies
    /\ g \subseteq Rule /\ gTable \subseteq Rule

MarksOK ==
    /\ autoSave \in BOOLEAN /\ mu \in Threads \union {None}
    /\ raced \subseteq Grants /\ unsaved \subseteq Policies
    /\ cut \in BOOLEAN /\ clean \in BOOLEAN

InputsOK ==
    /\ lastDefs \in DefSets \union {{}} /\ cache \in Seq(Grants)
    /\ ~LoadFails(lastDefs)

CallsOK ==
    /\ call \in [Threads -> Call]
    /\ \A t \in Threads : Sane(t, call[t])

AsOfKnown == \A t \in Threads : call[t].asOf # None => call[t].asOf <= db.commits

ListIsCached == \A t \in Threads : call[t].pc = "clear" => call[t].list = cache

BaseInv == /\ WorldOK /\ BusOK /\ RulesOK /\ MarksOK /\ InputsOK /\ CallsOK
           /\ AsOfKnown /\ ListIsCached

\* A call that has replaced all rules by those of the table, and has yet to
\* take the lock and build them anew; a process that is starting or stopping.
DoomedAs(t, r) ==
    \/ r.pc = "read"
    \/ r.pc = "lock" /\ r.op = "policy"
    \/ t = Boot /\ r.pc \in {"load", "policies", "roles", "assignments", "lock", "down"}

Doomed(t) == DoomedAs(t, call[t])

NoneDoomed == \A t \in Threads : ~Doomed(t)

\* The inheritance rules are those of the definitions loaded last, or a rebuild
\* is under way and will make them so.
ReachInv ==
    NoneDoomed =>
        /\ mu = None /\ ~cut => g \ Grants = InheritanceRules(lastDefs)
        /\ \A t \in Threads : call[t].pc = "add" =>
              (g \union call[t].todo) \ Grants = InheritanceRules(lastDefs)

Pending(u) == {t \in Threads : call[t].pc = "cache" /\ call[t].grant = u}

\* A grant that was not raced is in the cached list once or not at all; the
\* enforcer agrees, or differs by the one call that has yet to change the list.
SyncOf(u) ==
    /\ Once(cache, u)
    /\ mu # None => Pending(u) = {}
    /\ mu = None /\ Pending(u) = {} => (u \in g <=> u \in GrantsIn(cache))
    /\ \A s \in Pending(u) :
          /\ Pending(u) = {s}
          /\ call[s].op = "assign" => u \in g /\ u \notin GrantsIn(cache)
          /\ call[s].op = "revoke" => u \notin g /\ u \in GrantsIn(cache)
    /\ \A t \in Threads : call[t].pc = "add" =>
          (u \in g \union call[t].todo <=> u \in GrantsIn(cache))

SyncInv == NoneDoomed => \A u \in Grants \ raced : SyncOf(u)

\* A rebuild whose inputs no commit has outdated and nothing has disturbed.
Fresh(t) == call[t].op = "rebuild" /\ call[t].asOf = db.commits

\* No event of another instance is on its way.
CalmBus ==
    /\ unsent = {}
    /\ \A topic \in Topics : \A i \in DOMAIN queue[topic] : queue[topic][i].local

\* A call that changes nothing but the rules, from the cached inputs.
Calm(t) ==
    /\ call[t].op \in {"none", "policy"}
    /\ t = Boot => call[t].pc \in {"idle", "subscribe", "down"}

\* The cached inputs are those of the database.
InputsCurrent == lastDefs = db.defs /\ GrantsIn(cache) = db.grants

\* What a call brings to the lock is what the database holds.
BringsCurrent(t) ==
    call[t].pc = "lock" => call[t].defs = db.defs /\ GrantsIn(call[t].list) = db.grants

FreshInv ==
    \A t \in Threads : Fresh(t) =>
        /\ CalmBus /\ \A s \in Threads \ {t} : Calm(s)
        /\ call[t].defs = db.defs /\ BringsCurrent(t)
        /\ call[t].pc \in {"clear", "add"} => InputsCurrent

CleanInv ==
    clean => /\ CalmBus /\ \A s \in Threads : Calm(s) /\ BringsCurrent(s)
             /\ InputsCurrent

\* All that the inputs say, and nothing else, is in the enforcer or on its way.
Complete(rules) == rules = InheritanceRules(lastDefs) \union GrantsIn(cache)

RulesInv ==
    NoneDoomed =>
        /\ clean /\ mu = None => Complete(g)
        /\ \A t \in Threads : (clean \/ Fresh(t)) /\ call[t].pc = "add" =>
              Complete(g \union call[t].todo)

HealInv == FreshInv /\ CleanInv /\ RulesInv

\* The invariant contains the type invariant.
LEMMA BaseIsTyped == BaseInv => TypeOK
  BY DEF BaseInv, TypeOK, WorldOK, BusOK, RulesOK, MarksOK, InputsOK, CallsOK

-----------------------------------------------------------------------------
(* What each step makes of the call that takes it *)

\* The step is one of t and makes r of its call.
Becomes(t, r) ==
    /\ r \in Call /\ Sane(t, r)
    /\ r.asOf \in {None, call[t].asOf, db.commits}
    /\ call' = [call EXCEPT ![t] = r]

\* The fields of a call.
LEMMA CallFields ==
    ASSUME NEW r \in Call
    PROVE  /\ r.pc \in Place /\ r.grant \in Grants \union {None} /\ r.defs \in DefSets \union {{}}
           /\ r.op \in {"none", "assign", "revoke", "rebuild", "registry", "policy"}
           /\ r.list \in Seq(Grants) /\ r.todo \in SUBSET Rule /\ r.shared \in BOOLEAN
           /\ r.asOf \in (0..MaxCommits) \union {None} /\ r.failed \in BOOLEAN
  BY DEF Call, Place

Op == {"none", "assign", "revoke", "rebuild", "registry", "policy"}

\* A call that is not in progress.
LEMMA IdleIsCall ==
    /\ Idle \in Call
    /\ Idle.pc = "idle" /\ Idle.op = "none" /\ Idle.grant = None /\ Idle.defs = {}
    /\ Idle.list = <<>> /\ Idle.todo = {} /\ Idle.shared = FALSE /\ Idle.asOf = None
    /\ Idle.failed = FALSE
  BY DEF Idle, Call

\* r is a call at pc that is about op and u and has no inputs yet.
Waits(r, pc, op, u) ==
    /\ r \in Call
    /\ r.pc = pc /\ r.op = op /\ r.grant = u /\ r.shared = FALSE /\ r.asOf = None /\ r.failed = FALSE

\* The records a call starts with.
LEMMA StartedForms ==
    ASSUME NEW pc \in Place, NEW op \in Op, NEW u \in Grants \union {None}
    PROVE  /\ Waits([Idle EXCEPT !.pc = pc], pc, "none", None)
           /\ Waits([Idle EXCEPT !.pc = pc, !.op = op], pc, op, None)
           /\ Waits([Idle EXCEPT !.pc = pc, !.op = op, !.grant = u], pc, op, u)
           /\ Waits([Idle EXCEPT !.pc = pc, !.grant = u, !.op = op], pc, op, u)
  <1> DEFINE a == [Idle EXCEPT !.pc = pc]
             b == [Idle EXCEPT !.pc = pc, !.op = op]
             c == [Idle EXCEPT !.pc = pc, !.op = op, !.grant = u]
             d == [Idle EXCEPT !.pc = pc, !.grant = u, !.op = op]
  <1>1. a \in Call /\ b \in Call /\ c \in Call /\ d \in Call
    <2>1. a \in Call
      BY IdleIsCall DEF Call, Place
    <2>2. b \in Call
      BY IdleIsCall DEF Call, Place, Op
    <2>3. c \in Call
      BY IdleIsCall DEF Call, Place, Op
    <2>4. d \in Call
      BY IdleIsCall DEF Call, Place, Op
    <2> QED
      BY <2>1, <2>2, <2>3, <2>4
  <1>2. /\ a.pc = pc /\ b.pc = pc /\ c.pc = pc /\ d.pc = pc
        /\ a.op = "none" /\ b.op = op /\ c.op = op /\ d.op = op
        /\ a.grant = None /\ b.grant = None /\ c.grant = u /\ d.grant = u
    BY IdleIsCall DEF Call
  <1>3. /\ a.shared = FALSE /\ b.shared = FALSE /\ c.shared = FALSE /\ d.shared = FALSE
        /\ a.asOf = None /\ b.asOf = None /\ c.asOf = None /\ d.asOf = None
        /\ a.failed = FALSE /\ b.failed = FALSE /\ c.failed = FALSE /\ d.failed = FALSE
    BY IdleIsCall DEF Call
  <1> HIDE DEF a, b, c, d
  <1> QED
    BY <1>1, <1>2, <1>3 DEF Waits, a, b, c, d

\* The one that is about nothing.
LEMMA StartedPlace ==
    ASSUME NEW pc \in Place
    PROVE  Waits([Idle EXCEPT !.pc = pc], pc, "none", None)
  <1>1. "none" \in Op /\ None \in Grants \union {None}
    BY DEF Op
  <1> QED
    BY <1>1, StartedForms

\* r is q moved on to pc.
Follows(r, q, pc) ==
    /\ r \in Call /\ r.pc = pc
    /\ r.op = q.op /\ r.grant = q.grant /\ r.defs = q.defs /\ r.list = q.list /\ r.todo = q.todo
    /\ r.shared = q.shared /\ r.asOf = q.asOf /\ r.failed = q.failed

\* A call moved on is what it was but for its place.
LEMMA MovedForms ==
    ASSUME NEW q \in Call, NEW pc \in Place
    PROVE  Follows([q EXCEPT !.pc = pc], q, pc)
  <1> DEFINE r == [q EXCEPT !.pc = pc]
  <1>1. r \in Call
    BY DEF Call, Place
  <1>2. /\ r.pc = pc /\ r.op = q.op /\ r.grant = q.grant /\ r.defs = q.defs
        /\ r.list = q.list /\ r.todo = q.todo /\ r.shared = q.shared /\ r.asOf = q.asOf
        /\ r.failed = q.failed
    BY DEF Call
  <1> HIDE DEF r
  <1> QED
    BY <1>1, <1>2 DEF Follows, r

\* The step leaves the calls well formed.
LEMMA BecomesKeeps ==
    ASSUME BaseInv, NEW t \in Threads, NEW r, Becomes(t, r)
    PROVE  /\ CallsOK'
           /\ call'[t] = r
           /\ \A s \in Threads \ {t} : call'[s] = call[s]
  BY DEF Becomes, BaseInv, CallsOK

\* A step that moves its call on.
LEMMA StepEffect ==
    ASSUME BaseInv, NEW t \in Threads, NEW pc \in Place, Step(t, pc),
           \A r : Follows(r, call[t], pc) => Sane(t, r)
    PROVE  \E r : Becomes(t, r) /\ Follows(r, call[t], pc)
  <1> DEFINE r == [call[t] EXCEPT !.pc = pc]
  <1>1. call' = [call EXCEPT ![t] = r]
    BY DEF Step
  <1>2. call[t] \in Call
    BY DEF BaseInv, CallsOK
  <1>3. Follows(r, call[t], pc)
    BY <1>2, MovedForms
  <1> HIDE DEF r
  <1> QED
    BY <1>1, <1>3 DEF Becomes, Follows

\* A step that makes its call wait for something.
LEMMA WaitEffect ==
    ASSUME NEW t \in Threads, NEW r, NEW pc \in Place, NEW op \in Op,
           NEW u \in Grants \union {None}, Waits(r, pc, op, u),
           call' = [call EXCEPT ![t] = r],
           \A q : Waits(q, pc, op, u) => Sane(t, q)
    PROVE  Becomes(t, r)
  BY DEF Becomes, Waits

\* AssignUserRole and RevokeUserRole start without inputs.
LEMMA StartEffect ==
    ASSUME BaseInv, NEW c \in Callers, NEW u \in Grants, CallAssign(c, u) \/ CallRevoke(c, u)
    PROVE  \E r : Becomes(c, r) /\ r.pc = "save" /\ r.asOf = None
  <1>1. PICK op \in {"assign", "revoke"} :
          call' = [call EXCEPT ![c] = [Idle EXCEPT !.pc = "save", !.op = op, !.grant = u]]
    BY DEF CallAssign, CallRevoke
  <1> DEFINE r == [Idle EXCEPT !.pc = "save", !.op = op, !.grant = u]
  <1>2. call' = [call EXCEPT ![c] = r]
    BY <1>1
  <1>3. Waits(r, "save", op, u)
    <2>1. "save" \in Place /\ u \in Grants \union {None} /\ op \in Op
      BY DEF Place, Op
    <2> QED
      BY <2>1, StartedForms
  <1> HIDE DEF r
  <1>4. Sane(c, r)
    BY <1>3 DEF Sane, Waits
  <1> QED
    BY <1>2, <1>3, <1>4 DEF Becomes, Waits

\* The other calls a service makes start without inputs.
LEMMA ReloadEffect ==
    ASSUME BaseInv, NEW c \in Callers, CallReloadRegistry(c) \/ CallReloadPolicy(c)
    PROVE  /\ call[c].pc = "idle"
           /\ \E r : /\ Becomes(c, r)
                    /\ \/ CallReloadRegistry(c) /\ Waits(r, "roles", "registry", None)
                       \/ CallReloadPolicy(c) /\ Waits(r, "load", "policy", None)
  <1>0. c # Boot /\ c \in Threads
    BY ThreadsDiffer
  <1>1. CASE CallReloadRegistry(c)
    <2> DEFINE r == [Idle EXCEPT !.pc = "roles", !.op = "registry"]
    <2>1. call' = [call EXCEPT ![c] = r] /\ call[c].pc = "idle"
      BY <1>1 DEF CallReloadRegistry, At
    <2>2. Waits(r, "roles", "registry", None)
      BY StartedForms DEF Place, Op
    <2> HIDE DEF r
    <2>3. Sane(c, r)
      BY <1>0, <2>2 DEF Waits, Sane
    <2> QED
      BY <1>1, <2>1, <2>2, <2>3 DEF Becomes, Waits
  <1>2. CASE CallReloadPolicy(c)
    <2> DEFINE r == [Idle EXCEPT !.pc = "load", !.op = "policy"]
    <2>1. call' = [call EXCEPT ![c] = r] /\ call[c].pc = "idle"
      BY <1>2 DEF CallReloadPolicy, At
    <2>2. Waits(r, "load", "policy", None)
      BY StartedForms DEF Place, Op
    <2> HIDE DEF r
    <2>3. Sane(c, r)
      BY <1>0, <2>2 DEF Waits, Sane
    <2> QED
      BY <1>2, <2>1, <2>2, <2>3 DEF Becomes, Waits
  <1> QED
    BY <1>1, <1>2

\* A handled event is dropped or starts a call.
LEMMA HandleEffect ==
    ASSUME BaseInv, NEW topic \in Topics,
           handleRoleEvent(topic) \/ (topic = "role.changed" /\ handleRoleChanged)
    PROVE  /\ call[topic].pc = "idle"
           /\ \/ UNCHANGED call /\ Head(queue[topic]).local
              \/ /\ ~Head(queue[topic]).local
                 /\ \E r : Becomes(topic, r) /\ r.pc \in {"save", "roles"} /\ r.asOf = None
  <1>0. topic # Boot /\ topic \in Threads
    BY ThreadsDiffer
  <1>1. CASE handleRoleEvent(topic)
    <2> DEFINE event == Head(queue[topic])
               op == IF topic = "role.assign" THEN "assign" ELSE "revoke"
               r == [Idle EXCEPT !.pc = "save", !.grant = event.grant, !.op = op]
    <2>1. /\ call[topic].pc = "idle" /\ topic \in {"role.assign", "role.revoke"}
          /\ queue[topic] # <<>>
          /\ call' = IF event.local THEN call ELSE [call EXCEPT ![topic] = r]
      BY <1>1 DEF handleRoleEvent, At
    <2>2. event.grant \in Grants
      <3>1. queue[topic] \in Seq(Event) /\ 1 \in DOMAIN queue[topic] /\ event = queue[topic][1]
        BY <2>1 DEF BaseInv, BusOK
      <3>2. event.topic = topic /\ NamesGrant(event)
        BY <3>1 DEF BaseInv, BusOK
      <3> QED
        BY <2>1, <3>2 DEF NamesGrant
    <2>3. Waits(r, "save", op, event.grant)
      <3>1. "save" \in Place /\ op \in Op /\ event.grant \in Grants \union {None}
        BY <2>2 DEF Place, Op
      <3> QED
        BY <3>1, StartedForms
    <2>4. op \in {"assign", "revoke"}
      OBVIOUS
    <2> HIDE DEF event, op, r
    <2>5. Sane(topic, r)
      BY <1>0, <2>2, <2>3, <2>4 DEF Waits, Sane
    <2> QED
      BY <2>1, <2>3, <2>5 DEF Becomes, Waits, event
  <1>2. CASE topic = "role.changed" /\ handleRoleChanged
    <2> DEFINE r == [Idle EXCEPT !.pc = "roles", !.op = "rebuild"]
    <2>1. /\ call[topic].pc = "idle"
          /\ call' = IF Head(queue[topic]).local THEN call ELSE [call EXCEPT ![topic] = r]
      BY <1>2 DEF handleRoleChanged, At
    <2>2. Waits(r, "roles", "rebuild", None)
      BY StartedForms DEF Place, Op
    <2> HIDE DEF r
    <2>3. Sane(topic, r)
      BY <1>0, <2>2 DEF Waits, Sane
    <2> QED
      BY <2>1, <2>2, <2>3 DEF Becomes, Waits
  <1> QED
    BY <1>1, <1>2

\* AssignUserRole and RevokeUserRole go on with their own grant.
LEMMA UpdateEffect ==
    ASSUME BaseInv, NEW t \in Threads, DisableAutoSave(t) \/ ChangeRule(t)
    PROVE  \E r : /\ Becomes(t, r)
                 /\ \/ DisableAutoSave(t) /\ call[t].pc = "save" /\ Follows(r, call[t], "rule")
                    \/ /\ ChangeRule(t) /\ call[t].pc = "rule"
                       /\ UNCHANGED <<g, gTable, raced>> /\ Follows(r, call[t], "restore")
                    \/ /\ ChangeRule(t) /\ call[t].pc = "rule"
                       /\ Step(t, "cache") /\ Follows(r, call[t], "cache")
  <1>0. Sane(t, call[t])
    BY DEF BaseInv, CallsOK
  <1>1. CASE DisableAutoSave(t)
    <2>1. Step(t, "rule") /\ call[t].pc = "save" /\ "rule" \in Place
      BY <1>1 DEF DisableAutoSave, At, Place
    <2>2. \A r : Follows(r, call[t], "rule") => Sane(t, r)
      BY <1>0, <2>1 DEF Follows, Sane
    <2> QED
      BY <1>1, <2>1, <2>2, StepEffect
  <1>2. CASE ChangeRule(t)
    <2>1. call[t].pc = "rule" /\ "restore" \in Place /\ "cache" \in Place
      BY <1>2 DEF ChangeRule, At, Place
    <2>2. \A r : Follows(r, call[t], "restore") => Sane(t, r)
      BY <1>0, <2>1 DEF Follows, Sane
    <2>3. \A r : Follows(r, call[t], "cache") => Sane(t, r)
      BY <1>0, <2>1 DEF Follows, Sane
    <2>4. \/ Step(t, "restore") /\ UNCHANGED <<g, gTable, raced>>
          \/ Step(t, "cache")
      BY <1>2 DEF ChangeRule
    <2> QED
      BY <1>2, <2>1, <2>2, <2>3, <2>4, StepEffect
  <1> QED
    BY <1>1, <1>2

\* They end by switching saving on again; a service call publishes.
LEMMA EndEffect ==
    ASSUME BaseInv, NEW t \in Threads, RestoreAutoSave(t) \/ (t \in Callers /\ PublishOwn(t))
    PROVE  \E r : /\ Becomes(t, r)
                  /\ \/ RestoreAutoSave(t) /\ call[t].pc = "restore" /\ r.pc \in {"publish", "idle"}
                     \/ PublishOwn(t) /\ call[t].pc = "publish" /\ r.pc = "idle"
                  /\ r.op \in {"none", "assign", "revoke"} /\ r.asOf \in {None, call[t].asOf}
                  /\ r.pc = "idle" => r.op = "none"
  <1>0. Sane(t, call[t]) /\ call[t] \in Call
    BY DEF BaseInv, CallsOK
  <1>i. Waits(Idle, "idle", "none", None) /\ \A q : Waits(q, "idle", "none", None) => Sane(t, q)
    BY IdleIsCall DEF Waits, Sane
  <1>1. CASE RestoreAutoSave(t)
    <2>1. /\ call[t].pc = "restore"
          /\ call' = [call EXCEPT ![t] = IF t \in Callers THEN [call[t] EXCEPT !.pc = "publish"] ELSE Idle]
      BY <1>1 DEF RestoreAutoSave, At
    <2>2. CASE t \in Callers
      <3> DEFINE r == [call[t] EXCEPT !.pc = "publish"]
      <3>1. call' = [call EXCEPT ![t] = r]
        BY <2>1, <2>2
      <3>2. Follows(r, call[t], "publish")
        BY <1>0, MovedForms DEF Place
      <3> HIDE DEF r
      <3>3. Sane(t, r) /\ r.op \in {"assign", "revoke"}
        BY <1>0, <2>1, <2>2, <3>2, ThreadsDiffer DEF Follows, Sane
      <3> QED
        BY <1>1, <2>1, <3>1, <3>2, <3>3 DEF Becomes, Follows
    <2>3. CASE t \notin Callers
      <3>1. call' = [call EXCEPT ![t] = Idle]
        BY <2>1, <2>3
      <3> QED
        BY <1>1, <1>i, <2>1, <3>1 DEF Becomes, Waits
    <2> QED
      BY <2>2, <2>3
  <1>2. CASE PublishOwn(t)
    <2>1. call[t].pc = "publish" /\ call' = [call EXCEPT ![t] = Idle]
      BY <1>2 DEF PublishOwn, At
    <2> QED
      BY <1>2, <1>i, <2>1 DEF Becomes, Waits
  <1> QED
    BY <1>1, <1>2

\* A rebuild gives up, or the process does.
GivesUp(r, t) == Waits(r, IF t = Boot THEN "down" ELSE "idle", "none", None)

\* The record that stands for it.
LEMMA GivesUpForms ==
    ASSUME NEW t \in Threads
    PROVE  /\ GivesUp(IF t = Boot THEN [Idle EXCEPT !.pc = "down"] ELSE Idle, t)
           /\ \A r : GivesUp(r, t) => Sane(t, r)
  <1>1. Waits([Idle EXCEPT !.pc = "down"], "down", "none", None) /\ Waits(Idle, "idle", "none", None)
    BY StartedPlace, IdleIsCall DEF Place, Waits
  <1>2. \A r : GivesUp(r, t) => Sane(t, r)
    BY DEF GivesUp, Waits, Sane
  <1> QED
    BY <1>1, <1>2 DEF GivesUp

\* It reads the definitions.
LEMMA ListRolesEffect ==
    ASSUME BaseInv, NEW t \in Threads, ListRoles(t)
    PROVE  /\ call[t].pc = "roles"
           /\ \E r : /\ Becomes(t, r)
                     /\ \/ GivesUp(r, t)
                        \/ /\ r.pc = IF call[t].op = "registry" THEN "lock" ELSE "assignments"
                           /\ r.op = call[t].op /\ r.defs = db.defs
                           /\ r.asOf = IF Undisturbed(t) THEN db.commits ELSE None
  <1>0. Sane(t, call[t]) /\ call[t] \in Call /\ call[t].pc = "roles"
    BY DEF BaseInv, CallsOK, ListRoles, At
  <1> DEFINE end == IF t = Boot THEN [Idle EXCEPT !.pc = "down"] ELSE Idle
             pc == IF call[t].op = "registry" THEN "lock" ELSE "assignments"
             asOf == IF Undisturbed(t) THEN db.commits ELSE None
             r == [call[t] EXCEPT !.pc = pc, !.defs = db.defs, !.asOf = asOf]
  <1>1. call' = [call EXCEPT ![t] = r] \/ call' = [call EXCEPT ![t] = end]
    BY DEF ListRoles
  <1>2. pc \in Place /\ asOf \in (0..MaxCommits) \union {None} /\ db.defs \in DefSets \union {{}}
    BY DEF Place, BaseInv, WorldOK
  <1>3. /\ pc = "lock" => call[t].op = "registry"
        /\ pc = "assignments" => call[t].op # "registry"
        /\ pc \in {"lock", "assignments"}
    OBVIOUS
  <1>4. asOf \in {None, db.commits}
    OBVIOUS
  <1> HIDE DEF pc, asOf
  <1>5. r \in Call
    BY <1>0, <1>2 DEF Call, Place
  <1>6. /\ r.pc = pc /\ r.op = call[t].op /\ r.defs = db.defs /\ r.asOf = asOf
        /\ r.failed = call[t].failed
    BY <1>0 DEF Call
  <1> HIDE DEF r
  <1>7. Sane(t, r)
    BY <1>0, <1>3, <1>6 DEF Sane
  <1>8. CASE call' = [call EXCEPT ![t] = r]
    <2>1. Becomes(t, r)
      BY <1>4, <1>5, <1>6, <1>7, <1>8 DEF Becomes
    <2> QED
      BY <1>0, <1>6, <2>1 DEF pc, asOf
  <1>9. CASE call' = [call EXCEPT ![t] = end]
    <2>1. GivesUp(end, t) /\ Sane(t, end)
      BY GivesUpForms
    <2> HIDE DEF end
    <2> QED
      BY <1>0, <1>9, <2>1 DEF Becomes, GivesUp, Waits
  <1> QED
    BY <1>1, <1>8, <1>9

\* A listing has the rows of the table, each once.
LEMMA ListingType ==
    ASSUME BaseInv, NEW list \in Listings(db.grants)
    PROVE  list \in Seq(Grants) /\ GrantsIn(list) = db.grants
  <1>1. db.grants \subseteq Grants /\ Cardinality(db.grants) \in Nat
    BY FS_CardinalityType DEF BaseInv, WorldOK
  <1>2. list \in [1..Cardinality(db.grants) -> db.grants]
    BY DEF Listings
  <1>3. list \in Seq(Grants)
    BY <1>1, <1>2
  <1> QED
    BY <1>3 DEF Listings, GrantsIn

\* Then the assignments.
LEMMA ListAssignmentsEffect ==
    ASSUME BaseInv, NEW t \in Threads, ListAllAssignments(t)
    PROVE  /\ call[t].pc = "assignments" /\ call[t].op = "rebuild"
           /\ \E r : /\ Becomes(t, r)
                     /\ \/ GivesUp(r, t)
                        \/ /\ r.pc = "lock" /\ r.op = "rebuild" /\ r.defs = call[t].defs
                           /\ r.asOf = call[t].asOf /\ GrantsIn(r.list) = db.grants
  <1>0. Sane(t, call[t]) /\ call[t] \in Call /\ call[t].pc = "assignments"
    BY DEF BaseInv, CallsOK, ListAllAssignments, At
  <1>1. call[t].op = "rebuild"
    BY <1>0 DEF Sane
  <1> DEFINE end == IF t = Boot THEN [Idle EXCEPT !.pc = "down"] ELSE Idle
  <1>2. ASSUME NEW list \in Listings(db.grants),
               call' = [call EXCEPT ![t].pc = "lock", ![t].list = list]
        PROVE  \E r : /\ Becomes(t, r)
                      /\ r.pc = "lock" /\ r.op = "rebuild" /\ r.defs = call[t].defs
                      /\ r.asOf = call[t].asOf /\ GrantsIn(r.list) = db.grants
    <2> DEFINE r == [call[t] EXCEPT !.pc = "lock", !.list = list]
    <2>1. call' = [call EXCEPT ![t] = r]
      BY <1>2
    <2>2. list \in Seq(Grants) /\ GrantsIn(list) = db.grants
      BY ListingType
    <2>3. r \in Call
      BY <1>0, <2>2 DEF Call, Place
    <2>4. /\ r.pc = "lock" /\ r.op = call[t].op /\ r.defs = call[t].defs /\ r.list = list
          /\ r.asOf = call[t].asOf /\ r.failed = call[t].failed
      BY <1>0 DEF Call
    <2> HIDE DEF r
    <2>5. Sane(t, r)
      BY <1>0, <1>1, <2>4 DEF Sane
    <2> QED
      BY <1>1, <2>1, <2>2, <2>3, <2>4, <2>5 DEF Becomes
  <1>3. CASE call' = [call EXCEPT ![t] = end]
    <2>1. GivesUp(end, t) /\ Sane(t, end)
      BY GivesUpForms
    <2> HIDE DEF end
    <2> QED
      BY <1>0, <1>1, <1>3, <2>1 DEF Becomes, GivesUp, Waits
  <1>4. \/ \E list \in Listings(db.grants) :
             call' = [call EXCEPT ![t].pc = "lock", ![t].list = list]
        \/ call' = [call EXCEPT ![t] = end]
    BY DEF ListAllAssignments
  <1> QED
    BY <1>0, <1>1, <1>2, <1>3, <1>4

\* Where a rebuild that is through, or refused, goes.
LEMMA ReturnForms ==
    ASSUME NEW t \in Threads, t = Boot => call[t].op # "registry"
    PROVE  /\ \/ t = Boot /\ Waits(Return(t), "subscribe", "none", None)
              \/ t # Boot /\ call[t].op = "registry" /\ Waits(Return(t), "publish", "registry", None)
              \/ t # Boot /\ call[t].op # "registry" /\ Waits(Return(t), "idle", "none", None)
           /\ Sane(t, Return(t))
  <1>1. CASE t = Boot
    <2>1. Return(t) = [Idle EXCEPT !.pc = "subscribe"]
      BY <1>1 DEF Return
    <2>2. Waits(Return(t), "subscribe", "none", None)
      BY <2>1, StartedPlace DEF Place
    <2> QED
      BY <1>1, <2>2 DEF Waits, Sane
  <1>2. CASE t # Boot /\ call[t].op = "registry"
    <2>1. Return(t) = [Idle EXCEPT !.pc = "publish", !.op = "registry"]
      BY <1>2 DEF Return
    <2>2. Waits(Return(t), "publish", "registry", None)
      BY <2>1, StartedForms DEF Place, Op
    <2> QED
      BY <1>2, <2>2 DEF Waits, Sane
  <1>3. CASE t # Boot /\ call[t].op # "registry"
    <2>1. Return(t) = Idle
      BY <1>3 DEF Return
    <2>2. Waits(Return(t), "idle", "none", None)
      BY <2>1, IdleIsCall DEF Waits
    <2> QED
      BY <1>3, <2>2 DEF Waits, Sane
  <1> QED
    BY <1>1, <1>2, <1>3

\* What the registry holds of definitions it does not refuse.
LEMMA RulesType ==
    ASSUME NEW defs \in DefSets \union {{}}, ~LoadFails(defs)
    PROVE  /\ InheritanceRules(defs) \subseteq Roles \X Roles \X Domains
           /\ InheritanceRules(defs) \subseteq Rule
           /\ InheritanceRules(defs) \intersect Grants = {}
           /\ InheritanceRules(defs) = ReachableRules(defs) /\ Acyclic(defs)
  <1>1. defs \in SUBSET Definition
    BY AuthzAssumption
  <1>2. InheritanceRules(defs) = ReachableRules(defs) /\ Acyclic(defs)
    BY <1>1, RulesAreReach, LoadRefusesCycles
  <1>3. ReachableRules(defs) \subseteq Roles \X Roles \X Domains
    BY DEF ReachableRules
  <1> QED
    BY <1>2, <1>3, AuthzAssumption DEF Rule

\* Without definitions there is nothing to refuse and nothing to inherit.
LEMMA NothingToLoad == ~LoadFails({}) /\ InheritanceRules({}) = {}
  BY DEF LoadFails, InheritanceRules

\* The registry refuses the definitions; ReloadPolicy brings some it has taken.
LEMMA RefusedEffect ==
    ASSUME BaseInv, NEW t \in Threads, LoadRefused(t)
    PROVE  /\ call[t].pc = "lock" /\ call[t].op \in {"rebuild", "registry"}
           /\ \E r : /\ Becomes(t, r) /\ r.op \in {"none", "registry"} /\ r.asOf = None
                     /\ GivesUp(r, t) \/ (t # Boot /\ r.pc \in {"idle", "publish"})
  <1>0. Sane(t, call[t]) /\ call[t].pc = "lock" /\ LoadFails(call[t].defs)
    BY DEF BaseInv, CallsOK, LoadRefused, At
  <1>1. call[t].op \in {"rebuild", "registry"} /\ (t = Boot => call[t].op # "registry")
    BY <1>0 DEF Sane
  <1> DEFINE end == IF t = Boot THEN [Idle EXCEPT !.pc = "down"] ELSE Idle
  <1>2. \/ call' = [call EXCEPT ![t] = end]
        \/ t # Boot /\ call' = [call EXCEPT ![t] = Return(t)]
    BY DEF LoadRefused
  <1>3. CASE call' = [call EXCEPT ![t] = end]
    <2>1. GivesUp(end, t) /\ Sane(t, end)
      BY GivesUpForms
    <2> HIDE DEF end
    <2> QED
      BY <1>0, <1>1, <1>3, <2>1 DEF Becomes, GivesUp, Waits
  <1>4. CASE t # Boot /\ call' = [call EXCEPT ![t] = Return(t)]
    <2> QED
      BY <1>0, <1>1, <1>4, ReturnForms DEF Becomes, Waits
  <1> QED
    BY <1>2, <1>3, <1>4

\* The call is what it was, but for its list and whether that is shared.
SameCall(s) ==
    /\ call'[s].pc = call[s].pc /\ call'[s].op = call[s].op /\ call'[s].grant = call[s].grant
    /\ call'[s].defs = call[s].defs /\ call'[s].todo = call[s].todo
    /\ call'[s].asOf = call[s].asOf /\ call'[s].failed = call[s].failed

\* The list a call brings to the lock.
Brought(t) == IF call[t].op = "registry" THEN cache ELSE call[t].list

\* A rebuild has the lock and new inputs.
LEMMA LockEffect ==
    ASSUME BaseInv, NEW t \in Threads, LockAndLoad(t)
    PROVE  /\ CallsOK'
           /\ call[t].pc = "lock" /\ mu = None /\ mu' = t
           /\ lastDefs' = call[t].defs /\ ~LoadFails(call[t].defs)
           /\ cache' = Brought(t) /\ Brought(t) \in Seq(Grants)
           /\ raced' = Unfinished \union Repeated(Brought(t))
                          \union (IF call[t].op = "rebuild" THEN {} ELSE raced)
           /\ call'[t].pc = "clear" /\ call'[t].op = call[t].op /\ call'[t].asOf = call[t].asOf
           /\ call'[t].defs = call[t].defs /\ call'[t].list = cache'
           /\ \A s \in Threads \ {t} : SameCall(s) /\ call'[s].list = call[s].list
  <1>0. call \in [Threads -> Call] /\ \A s \in Threads : Sane(s, call[s]) /\ call[s] \in Call
    BY DEF BaseInv, CallsOK
  <1>1. /\ call[t].pc = "lock" /\ mu = None /\ mu' = t
        /\ lastDefs' = call[t].defs /\ ~LoadFails(call[t].defs) /\ cache' = Brought(t)
        /\ raced' = Unfinished \union Repeated(Brought(t))
                       \union (IF call[t].op = "rebuild" THEN {} ELSE raced)
    BY DEF LockAndLoad, At, Brought
  <1>2. Brought(t) \in Seq(Grants)
    BY <1>0, CallFields DEF Brought, BaseInv, InputsOK
  <1> DEFINE mine == [call[t] EXCEPT !.pc = "clear", !.list = Brought(t), !.shared = FALSE]
             alone(s) == [call[s] EXCEPT !.shared = FALSE]
             other(s) == IF call[t].op = "registry" \/ call[t].shared THEN call[s] ELSE alone(s)
  <1>3. call' = [s \in Threads |-> IF s = t THEN mine ELSE other(s)]
    BY DEF LockAndLoad, Brought
  <1>4. /\ mine \in Call /\ mine.pc = "clear" /\ mine.op = call[t].op /\ mine.asOf = call[t].asOf
        /\ mine.list = Brought(t) /\ mine.failed = call[t].failed /\ mine.defs = call[t].defs
    BY <1>0, <1>2 DEF Call, Place
  <1>5. ASSUME NEW s \in Threads
        PROVE  /\ alone(s) \in Call
               /\ alone(s).pc = call[s].pc /\ alone(s).op = call[s].op
               /\ alone(s).grant = call[s].grant /\ alone(s).defs = call[s].defs
               /\ alone(s).todo = call[s].todo /\ alone(s).asOf = call[s].asOf
               /\ alone(s).failed = call[s].failed /\ alone(s).list = call[s].list
    BY <1>0 DEF Call
  <1>6. Sane(t, mine)
    BY <1>0, <1>1, <1>4 DEF Sane
  <1> HIDE DEF mine, alone
  <1>7. ASSUME NEW s \in Threads
        PROVE  /\ other(s) \in Call /\ Sane(s, other(s))
               /\ other(s).pc = call[s].pc /\ other(s).op = call[s].op
               /\ other(s).grant = call[s].grant /\ other(s).defs = call[s].defs
               /\ other(s).todo = call[s].todo /\ other(s).asOf = call[s].asOf
               /\ other(s).failed = call[s].failed /\ other(s).list = call[s].list
    <2>1. Sane(s, alone(s))
      BY <1>0, <1>5 DEF Sane
    <2> QED
      BY <1>0, <1>5, <2>1
  <1> HIDE DEF other
  <1>8. \A s \in Threads \ {t} : SameCall(s) /\ call'[s].list = call[s].list
    BY <1>3, <1>7 DEF SameCall
  <1>9. CallsOK'
    <2>1. call' \in [Threads -> Call]
      BY <1>3, <1>4, <1>7
    <2>2. \A s \in Threads : Sane(s, call'[s])
      BY <1>3, <1>6, <1>7
    <2> QED
      BY <2>1, <2>2 DEF CallsOK
  <1>10. call'[t] = mine
    BY <1>3
  <1> QED
    BY <1>1, <1>2, <1>4, <1>8, <1>9, <1>10

\* The adapter refuses: the rebuild is cut short.
LEMMA FailsEffect ==
    ASSUME BaseInv, NEW t \in Threads, call[t].pc \in {"clear", "add"}, Fails(t)
    PROVE  \E r : Becomes(t, r) /\ r.pc = "unlock" /\ r.op = call[t].op /\ r.asOf = call[t].asOf
                  /\ r.defs = call[t].defs /\ r.failed = TRUE
  <1>0. Sane(t, call[t]) /\ call[t] \in Call
    BY DEF BaseInv, CallsOK
  <1> DEFINE r == [call[t] EXCEPT !.pc = "unlock", !.failed = TRUE]
  <1>1. call' = [call EXCEPT ![t] = r]
    BY DEF Fails
  <1>2. /\ r \in Call /\ r.pc = "unlock" /\ r.op = call[t].op /\ r.asOf = call[t].asOf
        /\ r.defs = call[t].defs /\ r.failed = TRUE
    BY <1>0 DEF Call, Place
  <1> HIDE DEF r
  <1>3. Sane(t, r)
    BY <1>0, <1>2 DEF Sane
  <1> QED
    BY <1>1, <1>2, <1>3 DEF Becomes

\* The old rules go, and what is to be added is what the inputs say.
LEMMA ClearEffect ==
    ASSUME BaseInv, NEW t \in Threads, ClearRules(t)
    PROVE  /\ call[t].pc = "clear"
           /\ \E r : /\ Becomes(t, r) /\ r.op = call[t].op /\ r.asOf = call[t].asOf
                     /\ r.defs = call[t].defs
                     /\ \/ r.pc = "unlock" /\ UNCHANGED <<g, gTable>>
                        \/ /\ r.pc = "add" /\ g' = {} /\ gTable' \in {{}, gTable}
                           /\ r.todo = InheritanceRules(lastDefs) \union GrantsIn(cache)
  <1>0. Sane(t, call[t]) /\ call[t] \in Call /\ call[t].pc = "clear" /\ call[t].list = cache
    BY DEF BaseInv, CallsOK, ListIsCached, ClearRules, At
  <1>1. CASE Fails(t) /\ UNCHANGED <<g, gTable>>
    BY <1>0, <1>1, FailsEffect
  <1>2. CASE ~(Fails(t) /\ UNCHANGED <<g, gTable>>)
    <2> DEFINE rest == InheritanceRules(lastDefs) \union GrantsIn(cache)
               r == [call[t] EXCEPT !.pc = "add", !.todo = rest]
    <2>1. /\ g' = {} /\ gTable' \in {{}, gTable}
          /\ call' = [call EXCEPT ![t] = r]
      BY <1>0, <1>2 DEF ClearRules
    <2>2. rest \in SUBSET Rule
      <3>1. InheritanceRules(lastDefs) \subseteq Rule
        BY RulesType DEF BaseInv, InputsOK
      <3>2. GrantsIn(cache) \subseteq Grants
        BY DEF BaseInv, InputsOK, GrantsIn
      <3> QED
        BY <3>1, <3>2 DEF Rule
    <2> HIDE DEF rest
    <2>3. r \in Call
      BY <1>0, <2>2 DEF Call, Place
    <2>4. /\ r.pc = "add" /\ r.op = call[t].op /\ r.asOf = call[t].asOf
          /\ r.defs = call[t].defs /\ r.todo = rest /\ r.failed = call[t].failed
      BY <1>0 DEF Call
    <2> HIDE DEF r
    <2>5. Sane(t, r)
      BY <1>0, <2>4 DEF Sane
    <2> QED
      BY <1>0, <2>1, <2>3, <2>4, <2>5 DEF Becomes, rest
  <1> QED
    BY <1>1, <1>2

\* One rule moves from those to be added to the enforcer.
LEMMA AddEffect ==
    ASSUME BaseInv, NEW t \in Threads, AddRule(t)
    PROVE  /\ call[t].pc = "add"
           /\ \E r : /\ Becomes(t, r) /\ r.op = call[t].op /\ r.asOf = call[t].asOf
                     /\ r.defs = call[t].defs
                     /\ \/ r.pc = "unlock" /\ UNCHANGED <<g, gTable>>
                        \/ \E rule \in call[t].todo :
                              /\ r.pc = "add" /\ r.todo = call[t].todo \ {rule}
                              /\ g' = g \union {rule} /\ gTable' \in {gTable, gTable \union {rule}}
  <1>0. Sane(t, call[t]) /\ call[t] \in Call /\ call[t].pc = "add"
    BY DEF BaseInv, CallsOK, AddRule, At
  <1>1. CASE Fails(t) /\ UNCHANGED <<g, gTable>>
    BY <1>0, <1>1, FailsEffect
  <1>2. CASE ~(Fails(t) /\ UNCHANGED <<g, gTable>>)
    <2>1. call[t].todo # {}
      BY DEF AddRule
    <2> DEFINE rest == call[t].todo
               first == IF rest \subseteq Grants THEN rest ELSE {CHOOSE rule \in rest \ Grants : TRUE}
    <2>2. first \subseteq rest
      BY <2>1
    <2>3. PICK rule \in first :
            /\ g' = g \union {rule}
            /\ gTable' = IF autoSave /\ rule \notin g THEN gTable \union {rule} ELSE gTable
            /\ call' = [call EXCEPT ![t].todo = rest \ {rule}]
      BY <1>2 DEF AddRule
    <2>4. rule \in rest
      BY <2>2
    <2> HIDE DEF first
    <2> DEFINE r == [call[t] EXCEPT !.todo = rest \ {rule}]
    <2>5. call' = [call EXCEPT ![t] = r]
      BY <2>3
    <2>6. r \in Call
      BY <1>0 DEF Call
    <2>7. /\ r.pc = "add" /\ r.op = call[t].op /\ r.asOf = call[t].asOf
          /\ r.defs = call[t].defs /\ r.todo = rest \ {rule} /\ r.failed = call[t].failed
      BY <1>0 DEF Call
    <2> HIDE DEF r
    <2>8. Sane(t, r)
      BY <1>0, <2>7 DEF Sane
    <2>9. Becomes(t, r) /\ gTable' \in {gTable, gTable \union {rule}}
      BY <2>3, <2>5, <2>6, <2>7, <2>8 DEF Becomes
    <2> QED
      BY <1>0, <2>3, <2>4, <2>7, <2>9
  <1> QED
    BY <1>1, <1>2

\* A rebuild is over, complete or cut short.
LEMMA UnlockEffect ==
    ASSUME BaseInv, NEW t \in Threads, Unlock(t)
    PROVE  /\ mu' = None /\ UNCHANGED <<g, lastDefs, cache>>
           /\ cut' = call[t].failed /\ clean' = (~call[t].failed /\ (clean \/ Current(t)))
           /\ raced' = IF call[t].failed THEN Grants ELSE raced
           /\ \/ call[t].pc = "unlock" /\ call[t].failed
              \/ call[t].pc = "add" /\ ~call[t].failed /\ call[t].todo = {}
           /\ \E r : /\ Becomes(t, r) /\ r.asOf = None /\ r.op \in {"none", "registry"}
                     /\ r.pc \in {"idle", "subscribe", "publish"} \/ (t = Boot /\ r.pc = "down" /\ call[t].failed)
                     /\ r.op = "registry" => call[t].op = "registry"
                     /\ t = Boot => r.pc \in {"subscribe", "down"}
  <1>0. Sane(t, call[t]) /\ call[t] \in Call
    BY DEF BaseInv, CallsOK
  <1>1. /\ mu' = None /\ UNCHANGED <<g, lastDefs, cache>>
        /\ cut' = call[t].failed /\ clean' = (~call[t].failed /\ (clean \/ Current(t)))
        /\ raced' = IF call[t].failed THEN Grants ELSE raced
    BY DEF Unlock, cached
  <1>2. \/ call[t].pc = "unlock" /\ call[t].failed
        \/ call[t].pc = "add" /\ ~call[t].failed /\ call[t].todo = {}
    <2>1. call[t].pc = "unlock" \/ (call[t].pc = "add" /\ call[t].todo = {})
      BY DEF Unlock, At
    <2> QED
      BY <1>0, <2>1 DEF Sane
  <1>3. t = Boot => call[t].op # "registry"
    BY <1>0, <1>2 DEF Sane
  <1>4. \/ t = Boot /\ call[t].failed /\ call' = [call EXCEPT ![t] = [Idle EXCEPT !.pc = "down"]]
        \/ ~(t = Boot /\ call[t].failed) /\ call' = [call EXCEPT ![t] = Return(t)]
    BY DEF Unlock
  <1>5. CASE t = Boot /\ call[t].failed /\ call' = [call EXCEPT ![t] = [Idle EXCEPT !.pc = "down"]]
    <2> DEFINE r == [Idle EXCEPT !.pc = "down"]
    <2>1. Waits(r, "down", "none", None)
      BY StartedPlace DEF Place
    <2> HIDE DEF r
    <2>2. Sane(t, r)
      BY <2>1 DEF Sane, Waits
    <2>3. call' = [call EXCEPT ![t] = r]
      BY <1>5 DEF r
    <2> QED
      BY <1>1, <1>2, <1>5, <2>1, <2>2, <2>3 DEF Becomes, Waits
  <1>6. CASE ~(t = Boot /\ call[t].failed) /\ call' = [call EXCEPT ![t] = Return(t)]
    <2> QED
      BY <1>1, <1>2, <1>3, <1>6, ReturnForms DEF Becomes, Waits
  <1> QED
    BY <1>4, <1>5, <1>6

\* Enforcer.LoadPolicy fails or replaces all rules.
LEMMA LoadPolicyEffect ==
    ASSUME BaseInv, NEW t \in Threads, LoadPolicy(t)
    PROVE  /\ call[t].pc = "load"
           /\ \E r : /\ Becomes(t, r) /\ r.asOf \in {None, call[t].asOf}
                     /\ \/ GivesUp(r, t) /\ UNCHANGED <<p, g>>
                        \/ /\ r.pc = IF t = Boot THEN "policies" ELSE "read"
                           /\ r.op = call[t].op
                           /\ p' = pTable /\ g' = gTable
  <1>0. Sane(t, call[t]) /\ call[t] \in Call /\ call[t].pc = "load"
    BY DEF BaseInv, CallsOK, LoadPolicy, At
  <1> DEFINE end == IF t = Boot THEN [Idle EXCEPT !.pc = "down"] ELSE Idle
             pc == IF t = Boot THEN "policies" ELSE "read"
  <1>1. \/ call' = [call EXCEPT ![t] = end] /\ UNCHANGED <<p, g>>
        \/ p' = pTable /\ g' = gTable /\ Step(t, pc)
    BY DEF LoadPolicy
  <1>2. CASE call' = [call EXCEPT ![t] = end] /\ UNCHANGED <<p, g>>
    <2>1. GivesUp(end, t) /\ Sane(t, end)
      BY GivesUpForms
    <2> HIDE DEF end
    <2> QED
      BY <1>0, <1>2, <2>1 DEF Becomes, GivesUp, Waits
  <1>3. CASE p' = pTable /\ g' = gTable /\ Step(t, pc)
    <2>1. pc \in Place
      BY DEF Place
    <2>2. \A r : Follows(r, call[t], pc) => Sane(t, r)
      BY <1>0 DEF Follows, Sane
    <2> HIDE DEF pc
    <2>3. PICK r : Becomes(t, r) /\ Follows(r, call[t], pc)
      BY <1>3, <2>1, <2>2, StepEffect
    <2> QED
      BY <1>0, <1>3, <2>3 DEF Follows, pc
  <1> QED
    BY <1>1, <1>2, <1>3

\* ReloadPolicy brings the cached inputs.
LEMMA ReadEffect ==
    ASSUME BaseInv, NEW t \in Threads, ReadCached(t)
    PROVE  /\ call[t].pc = "read"
           /\ \E r : /\ Becomes(t, r) /\ r.pc = "lock" /\ r.op = "policy"
                     /\ r.defs = lastDefs /\ r.list = cache /\ r.asOf = call[t].asOf
  <1>0. Sane(t, call[t]) /\ call[t] \in Call /\ call[t].pc = "read"
    BY DEF BaseInv, CallsOK, ReadCached, At
  <1>1. lastDefs \in DefSets \union {{}} /\ cache \in Seq(Grants) /\ ~LoadFails(lastDefs)
    BY DEF BaseInv, InputsOK
  <1> DEFINE r == [call[t] EXCEPT !.pc = "lock", !.defs = lastDefs, !.list = cache, !.shared = TRUE]
  <1>2. call' = [call EXCEPT ![t] = r]
    BY DEF ReadCached
  <1>3. r \in Call
    BY <1>0, <1>1 DEF Call, Place
  <1>4. /\ r.pc = "lock" /\ r.op = call[t].op /\ r.defs = lastDefs /\ r.list = cache
        /\ r.asOf = call[t].asOf /\ r.failed = call[t].failed
    BY <1>0 DEF Call
  <1> HIDE DEF r
  <1>5. t # Boot /\ call[t].op = "policy"
    BY <1>0 DEF Sane
  <1>6. Sane(t, r)
    BY <1>0, <1>1, <1>4, <1>5 DEF Sane
  <1> QED
    BY <1>0, <1>2, <1>3, <1>4, <1>5, <1>6 DEF Becomes

\* The process seeds its policies, or stops.
LEMMA SeedEffect ==
    ASSUME BaseInv, InitDefaultPolicies
    PROVE  /\ call[Boot].pc = "policies"
           /\ \E r : /\ Becomes(Boot, r) /\ r.pc \in {"roles", "down"} /\ r.asOf \in {None, call[Boot].asOf}
                     /\ r.op = "rebuild" => r.asOf = None
  <1>0. call[Boot].pc = "policies" /\ Sane(Boot, call[Boot]) /\ Boot \in Threads
    BY ThreadsDiffer DEF BaseInv, CallsOK, InitDefaultPolicies, At
  <1> DEFINE r == [Idle EXCEPT !.pc = "roles", !.op = "rebuild"]
  <1>1. call' = [call EXCEPT ![Boot] = r] \/ Step(Boot, "down")
    BY DEF InitDefaultPolicies
  <1>2. CASE call' = [call EXCEPT ![Boot] = r]
    <2>1. Waits(r, "roles", "rebuild", None)
      BY StartedForms DEF Place, Op
    <2> HIDE DEF r
    <2>2. Sane(Boot, r)
      BY <2>1 DEF Waits, Sane
    <2> QED
      BY <1>0, <1>2, <2>1, <2>2 DEF Becomes, Waits
  <1>3. CASE Step(Boot, "down")
    <2>1. \A q : Follows(q, call[Boot], "down") => Sane(Boot, q)
      BY <1>0 DEF Follows, Sane
    <2>2. PICK q : Becomes(Boot, q) /\ Follows(q, call[Boot], "down")
      BY <1>0, <1>3, <2>1, StepEffect DEF Place
    <2>3. q.op # "rebuild"
      BY <1>0, <2>2 DEF Follows, Sane
    <2> QED
      BY <1>0, <2>2, <2>3 DEF Follows
  <1> QED
    BY <1>1, <1>2, <1>3

\* It is up with the last subscription.
LEMMA SubscribeEffect ==
    ASSUME BaseInv, NEW topic \in Topics, SubscribeTo(topic)
    PROVE  /\ call[Boot].pc = "subscribe"
           /\ UNCHANGED call \/ Becomes(Boot, Idle)
  <1>1. Waits(Idle, "idle", "none", None) /\ \A q : Waits(q, "idle", "none", None) => Sane(Boot, q)
    BY IdleIsCall DEF Waits, Sane
  <1> QED
    BY <1>1 DEF SubscribeTo, At, Becomes, Waits

\* Close ends it.
LEMMA CloseEffect ==
    ASSUME BaseInv, Close
    PROVE  /\ call[Boot].pc = "idle"
           /\ \E r : Becomes(Boot, r) /\ Follows(r, call[Boot], "down") /\ r.op = "none"
  <1>0. call[Boot].pc = "idle" /\ Sane(Boot, call[Boot]) /\ Boot \in Threads /\ Step(Boot, "down")
    BY ThreadsDiffer DEF BaseInv, CallsOK, Close, Up, At
  <1>1. \A q : Follows(q, call[Boot], "down") => Sane(Boot, q)
    BY <1>0 DEF Follows, Sane
  <1>2. PICK q : Becomes(Boot, q) /\ Follows(q, call[Boot], "down")
    BY <1>0, <1>1, StepEffect DEF Place
  <1>3. q.op = "none"
    BY <1>0, <1>2 DEF Follows, Sane
  <1> QED
    BY <1>0, <1>2, <1>3

\* What a slice shows after its array was changed is still a list of grants.
LEMMA MovedLists ==
    ASSUME NEW old \in Seq(Grants), NEW list \in Seq(Grants), NEW u \in Grants
    PROVE  Overwritten(old, list, u) \in Seq(Grants) /\ Shifted(old, list, u) \in Seq(Grants)
  <1>1. \A i \in 1..Len(old) : old[i] \in Grants
    OBVIOUS
  <1>2. \A i \in 1..Len(list) : list[i] \in Grants
    OBVIOUS
  <1>3. \A i \in 1..Len(old) : i < Len(list) => i + 1 \in 1..Len(list)
    OBVIOUS
  <1>4. Overwritten(old, list, u) \in Seq(Grants)
    BY <1>1 DEF Overwritten
  <1> DEFINE first == CHOOSE i \in DOMAIN list : list[i] = u /\ \A j \in 1..(i-1) : list[j] # u
             at(i) == IF first <= i /\ i < Len(list) THEN list[i+1] ELSE old[i]
  <1>5. \A i \in 1..Len(old) : at(i) \in Grants
    BY <1>1, <1>2, <1>3
  <1> HIDE DEF at
  <1>6. [i \in 1..Len(old) |-> at(i)] \in Seq(Grants)
    BY <1>5
  <1>7. Shifted(old, list, u) = [i \in DOMAIN old |-> at(i)] /\ DOMAIN old = 1..Len(old)
    BY DEF Shifted, at
  <1> QED
    BY <1>4, <1>6, <1>7

\* The cached list changes, and what other calls see of it.
LEMMA CacheEffect ==
    ASSUME BaseInv, NEW t \in Threads, UpdateCache(t)
    PROVE  /\ CallsOK'
           /\ call[t].pc = "cache" /\ mu = None
           /\ call[t].op \in {"assign", "revoke"} /\ call[t].grant \in Grants
           /\ cache' = IF call[t].op = "assign" THEN Append(cache, call[t].grant)
                       ELSE filterAssignment(cache, call[t].grant)
           /\ cache' \in Seq(Grants)
           /\ raced' \in {raced, Grants}
           /\ call'[t].pc = "restore" /\ call'[t].op = call[t].op /\ call'[t].asOf = call[t].asOf
           /\ \A s \in Threads \ {t} : SameCall(s)
  <1>0. call \in [Threads -> Call] /\ \A s \in Threads : Sane(s, call[s]) /\ call[s] \in Call
    BY DEF BaseInv, CallsOK
  <1>1. /\ call[t].pc = "cache" /\ mu = None /\ raced' \in {raced, Grants}
        /\ cache' = IF call[t].op = "assign" THEN Append(cache, call[t].grant)
                    ELSE filterAssignment(cache, call[t].grant)
    BY DEF UpdateCache, At
  <1>2. call[t].op \in {"assign", "revoke"} /\ call[t].grant \in Grants /\ cache \in Seq(Grants)
    BY <1>0, <1>1 DEF Sane, BaseInv, InputsOK
  <1>3. cache' \in Seq(Grants)
    <2>1. Append(cache, call[t].grant) \in Seq(Grants)
      BY <1>2, AppendFacts
    <2>2. filterAssignment(cache, call[t].grant) \in Seq(Grants)
      BY <1>2, RemovedFirst, CutFacts
    <2> QED
      BY <1>1, <2>1, <2>2
  <1> DEFINE moved(old) == IF call[t].op = "assign" THEN Overwritten(old, cache, call[t].grant)
                           ELSE Shifted(old, cache, call[t].grant)
             mine == [call[t] EXCEPT !.pc = "restore"]
             seen(s, inPlace) == [call[s] EXCEPT !.list = IF inPlace THEN moved(@) ELSE @,
                                                 !.shared = inPlace]
             other(s, inPlace) == IF s \in Sharing THEN seen(s, inPlace) ELSE call[s]
  <1>4. Follows(mine, call[t], "restore")
    BY <1>0, MovedForms DEF Place
  <1>5. ASSUME NEW s \in Threads, NEW inPlace \in BOOLEAN
        PROVE  /\ seen(s, inPlace) \in Call
               /\ seen(s, inPlace).pc = call[s].pc /\ seen(s, inPlace).op = call[s].op
               /\ seen(s, inPlace).grant = call[s].grant /\ seen(s, inPlace).defs = call[s].defs
               /\ seen(s, inPlace).todo = call[s].todo /\ seen(s, inPlace).asOf = call[s].asOf
               /\ seen(s, inPlace).failed = call[s].failed
    <2>1. call[s].list \in Seq(Grants)
      BY <1>0, CallFields
    <2>2. moved(call[s].list) \in Seq(Grants)
      BY <1>2, <2>1, MovedLists
    <2> HIDE DEF moved
    <2> DEFINE list == IF inPlace THEN moved(call[s].list) ELSE call[s].list
    <2>3. list \in Seq(Grants)
      BY <2>1, <2>2
    <2>4. seen(s, inPlace) = [call[s] EXCEPT !.list = list, !.shared = inPlace]
      OBVIOUS
    <2> HIDE DEF list, seen
    <2> QED
      BY <1>0, <2>3, <2>4 DEF Call
  <1>6. \/ call' = [call EXCEPT ![t] = mine]
        \/ \E inPlace \in BOOLEAN :
              call' = [s \in Threads |-> IF s = t THEN mine ELSE other(s, inPlace)]
    BY DEF UpdateCache, Step
  <1> HIDE DEF moved, mine, seen
  <1>7. PICK inPlace \in BOOLEAN :
          /\ call' \in [Threads -> Call] /\ call'[t] = mine
          /\ \A s \in Threads \ {t} : call'[s] = call[s] \/ call'[s] = seen(s, inPlace)
    <2>1. mine \in Call
      BY <1>4 DEF Follows
    <2>2. CASE call' = [call EXCEPT ![t] = mine]
      BY <1>0, <2>1, <2>2
    <2>3. ASSUME NEW inPlace \in BOOLEAN,
                 call' = [s \in Threads |-> IF s = t THEN mine ELSE other(s, inPlace)]
          PROVE  /\ call' \in [Threads -> Call] /\ call'[t] = mine
                 /\ \A s \in Threads \ {t} : call'[s] = call[s] \/ call'[s] = seen(s, inPlace)
      <3>1. \A s \in Threads : other(s, inPlace) \in Call /\ other(s, inPlace) \in {call[s], seen(s, inPlace)}
        BY <1>0, <1>5
      <3> HIDE DEF other
      <3> QED
        BY <2>1, <2>3, <3>1
    <2> QED
      BY <1>6, <2>2, <2>3
  <1>8. \A s \in Threads \ {t} : SameCall(s)
    BY <1>5, <1>7 DEF SameCall
  <1>9. Sane(t, mine) /\ mine.pc = "restore" /\ mine.op = call[t].op /\ mine.asOf = call[t].asOf
    BY <1>0, <1>1, <1>4 DEF Follows, Sane
  <1>10. ASSUME NEW s \in Threads
         PROVE  Sane(s, call'[s])
    <2>1. CASE s = t
      BY <1>7, <1>9, <2>1
    <2>2. CASE s # t
      BY <1>0, <1>8, <2>2 DEF SameCall, Sane
    <2> QED
      BY <2>1, <2>2
  <1>11. CallsOK'
    BY <1>7, <1>10 DEF CallsOK
  <1> QED
    BY <1>1, <1>2, <1>3, <1>7, <1>8, <1>9, <1>11

-----------------------------------------------------------------------------
(* Type correctness *)

\* Each part of the invariant is about some of the variables only.
LEMMA PartsKept ==
    /\ WorldOK /\ UNCHANGED world => WorldOK'
    /\ BusOK /\ UNCHANGED bus => BusOK'
    /\ RulesOK /\ UNCHANGED <<p, g, tables>> => RulesOK'
    /\ MarksOK /\ UNCHANGED <<autoSave, mu, ghosts>> => MarksOK'
    /\ InputsOK /\ UNCHANGED cached => InputsOK'
  <1>1. WorldOK /\ UNCHANGED world => WorldOK'
    BY DEF WorldOK, world
  <1>2. BusOK /\ UNCHANGED bus => BusOK'
    BY DEF BusOK, bus
  <1>3. RulesOK /\ UNCHANGED <<p, g, tables>> => RulesOK'
    BY DEF RulesOK, tables
  <1>4. MarksOK /\ UNCHANGED <<autoSave, mu, ghosts>> => MarksOK'
    BY DEF MarksOK, ghosts
  <1>5. InputsOK /\ UNCHANGED cached => InputsOK'
    BY DEF InputsOK, cached
  <1> QED
    BY <1>1, <1>2, <1>3, <1>4, <1>5

\* A step of one call, with the database and the inputs as they are.
LEMMA CallKept ==
    ASSUME BaseInv, NEW t \in Threads, NEW r, Becomes(t, r), r.pc # "clear",
           db' = db, UNCHANGED cached, WorldOK', BusOK', RulesOK', MarksOK'
    PROVE  BaseInv'
  <1>1. /\ CallsOK' /\ call'[t] = r /\ r.asOf \in {None, call[t].asOf, db.commits}
        /\ \A s \in Threads \ {t} : call'[s] = call[s]
    BY BecomesKeeps DEF Becomes
  <1>2. AsOfKnown'
    <2> SUFFICES ASSUME NEW s \in Threads, call'[s].asOf # None
                 PROVE  call'[s].asOf <= db.commits
      BY DEF AsOfKnown
    <2>1. db.commits \in Nat
      BY AuthzAssumption DEF BaseInv, WorldOK
    <2> QED
      BY <1>1, <2>1 DEF BaseInv, AsOfKnown
  <1>3. ListIsCached'
    BY <1>1 DEF BaseInv, ListIsCached, cached
  <1>4. InputsOK'
    BY PartsKept DEF BaseInv
  <1> QED
    BY <1>1, <1>2, <1>3, <1>4 DEF BaseInv

\* A step that moves no call.
LEMMA NothingMoves ==
    ASSUME BaseInv, UNCHANGED call, db' = db, UNCHANGED cached, WorldOK', BusOK', RulesOK', MarksOK'
    PROVE  BaseInv'
  <1>1. CallsOK' /\ AsOfKnown' /\ ListIsCached'
    BY DEF BaseInv, CallsOK, AsOfKnown, ListIsCached, cached
  <1> QED
    BY <1>1, PartsKept DEF BaseInv

\* What a commit makes of the database.
LEMMA CommitKept ==
    ASSUME BaseInv, NEW grants \in SUBSET Grants, IsFiniteSet(grants), NEW defs \in DefSets,
           Commit(grants, defs)
    PROVE  /\ db' \in [grants : SUBSET Grants, defs : DefSets, commits : 0..MaxCommits]
           /\ db'.grants = grants /\ IsFiniteSet(db'.grants)
           /\ db.commits \in Nat /\ db'.commits = db.commits + 1
           /\ clean' = FALSE
  <1>1. db.commits \in 0..MaxCommits /\ MaxCommits \in Nat
    BY AuthzAssumption DEF BaseInv, WorldOK
  <1> QED
    BY <1>1 DEF Commit

\* After a commit a call that has started anew has no inputs to outdate.
LEMMA CommitCallKept ==
    ASSUME BaseInv, NEW grants \in SUBSET Grants, IsFiniteSet(grants), NEW defs \in DefSets,
           Commit(grants, defs), UNCHANGED cached, WorldOK', BusOK', RulesOK', MarksOK',
           \/ UNCHANGED call
           \/ \E t \in Threads : \E r : Becomes(t, r) /\ r.pc # "clear" /\ r.asOf = None
    PROVE  BaseInv'
  <1>1. db.commits \in Nat /\ db'.commits = db.commits + 1
    BY CommitKept
  <1>2. /\ CallsOK'
        /\ \A s \in Threads : call'[s] = call[s] \/ (call'[s].asOf = None /\ call'[s].pc # "clear")
    <2>1. CASE UNCHANGED call
      BY <2>1 DEF BaseInv, CallsOK
    <2>2. CASE \E t \in Threads : \E r : Becomes(t, r) /\ r.pc # "clear" /\ r.asOf = None
      <3>1. PICK t \in Threads : \E r : Becomes(t, r) /\ r.pc # "clear" /\ r.asOf = None
        BY <2>2
      <3>2. PICK r : Becomes(t, r) /\ r.pc # "clear" /\ r.asOf = None
        BY <3>1
      <3> QED
        BY <3>2, BecomesKeeps
    <2> QED
      BY <2>1, <2>2
  <1>3. AsOfKnown'
    <2> SUFFICES ASSUME NEW s \in Threads, call'[s].asOf # None
                 PROVE  call'[s].asOf <= db'.commits
      BY DEF AsOfKnown
    <2>1. call[s].asOf <= db.commits /\ call'[s].asOf = call[s].asOf
      BY <1>2 DEF BaseInv, AsOfKnown
    <2>2. call[s].asOf \in Nat
      <3>1. call[s] \in Call
        BY DEF BaseInv, CallsOK
      <3> QED
        BY <1>2, <3>1, CallFields
    <2> QED
      BY <1>1, <2>1, <2>2
  <1>4. ListIsCached'
    BY <1>2 DEF BaseInv, ListIsCached, cached
  <1> QED
    BY <1>2, <1>3, <1>4, PartsKept DEF BaseInv

\* An event that names what its topic is about can arrive.
LEMMA ArrivesKept ==
    ASSUME BusOK, NEW event \in Event, NamesGrant(event), Arrives(event), UNCHANGED subs
    PROVE  BusOK'
  <1>1. CASE UNCHANGED queue
    BY <1>1 DEF BusOK
  <1>2. CASE queue' # queue
    <2> DEFINE topic == event.topic
               old == queue[topic]
    <2>1. topic \in Topics /\ queue' = [queue EXCEPT ![topic] = Append(old, event)]
      BY <1>2 DEF Arrives, Event
    <2>2. old \in Seq(Event) /\ \A i \in DOMAIN old : old[i].topic = topic /\ NamesGrant(old[i])
      BY <2>1 DEF BusOK
    <2> HIDE DEF topic, old
    <2> DEFINE longer == Append(old, event)
    <2>3. /\ longer \in Seq(Event)
          /\ \A i \in DOMAIN longer : longer[i] = event \/ (i \in DOMAIN old /\ longer[i] = old[i])
      BY <2>2
    <2> HIDE DEF longer
    <2>4. \A i \in DOMAIN longer : longer[i].topic = topic /\ NamesGrant(longer[i])
      BY <2>2, <2>3 DEF topic
    <2>5. queue' = [queue EXCEPT ![topic] = longer]
      BY <2>1 DEF longer
    <2>6. queue' \in [Topics -> Seq(Event)]
      BY <2>1, <2>3, <2>5 DEF BusOK
    <2>7. ASSUME NEW q \in Topics, NEW i \in DOMAIN queue'[q]
          PROVE  queue'[q][i].topic = q /\ NamesGrant(queue'[q][i])
      <3>1. CASE q = topic
        BY <2>1, <2>4, <2>5, <2>7, <3>1 DEF BusOK
      <3>2. CASE q # topic
        BY <2>1, <2>5, <2>7, <3>2 DEF BusOK
      <3> QED
        BY <3>1, <3>2
    <2> QED
      BY <2>6, <2>7 DEF BusOK
  <1> QED
    BY <1>1, <1>2

\* The first one can be taken.
LEMMA TakenKept ==
    ASSUME BusOK, NEW topic \in Topics, queue[topic] # <<>>,
           queue' = [queue EXCEPT ![topic] = Tail(@)], UNCHANGED subs
    PROVE  BusOK' /\ \A i \in DOMAIN queue'[topic] : i + 1 \in DOMAIN queue[topic] /\ queue'[topic][i] = queue[topic][i + 1]
  <1> DEFINE old == queue[topic]
             rest == Tail(old)
  <1>1. /\ old \in Seq(Event) /\ old # <<>>
        /\ \A i \in DOMAIN old : old[i].topic = topic /\ NamesGrant(old[i])
        /\ queue' = [queue EXCEPT ![topic] = rest]
    BY DEF BusOK
  <1> HIDE DEF old
  <1>2. /\ rest \in Seq(Event)
        /\ \A i \in DOMAIN rest : i + 1 \in DOMAIN old /\ rest[i] = old[i + 1]
    BY <1>1
  <1> HIDE DEF rest
  <1>3. queue' \in [Topics -> Seq(Event)] /\ queue'[topic] = rest
    BY <1>1, <1>2 DEF BusOK
  <1>4. ASSUME NEW q \in Topics, NEW i \in DOMAIN queue'[q]
        PROVE  queue'[q][i].topic = q /\ NamesGrant(queue'[q][i])
    <2>1. CASE q = topic
      BY <1>1, <1>2, <1>3, <1>4, <2>1
    <2>2. CASE q # topic
      BY <1>1, <1>4, <2>2 DEF BusOK
    <2> QED
      BY <2>1, <2>2
  <1> QED
    BY <1>2, <1>3, <1>4 DEF BusOK, old

\* Other instances commit and publish.
LEMMA RemoteTyped ==
    ASSUME BaseInv, RemoteCommit \/ RemotePublish
    PROVE  BaseInv'
  <1>0. /\ db.grants \subseteq Grants /\ IsFiniteSet(db.grants) /\ db.defs \in DefSets
        /\ unsent \subseteq [topic : Topics, grant : Grants \union {None}, n : 0..MaxCommits]
        /\ \A event \in unsent : NamesGrant(event)
        /\ db.commits \in 0..MaxCommits
    BY DEF BaseInv, WorldOK
  <1>1. CASE RemoteCommit
    <2>1. /\ UNCHANGED <<call, cached, bus, p, g, tables, autoSave, mu, raced, unsaved, cut>>
          /\ clean' = FALSE
      BY <1>1 DEF RemoteCommit, Commit
    <2>2. BusOK' /\ RulesOK' /\ MarksOK'
      <3>1. MarksOK'
        BY <2>1 DEF BaseInv, MarksOK
      <3> QED
        BY <2>1, <3>1, PartsKept DEF BaseInv
    <2>3. ASSUME NEW grants \in SUBSET Grants, IsFiniteSet(grants), NEW defs \in DefSets,
                 NEW topic \in Topics, NEW u \in Grants \union {None},
                 topic # "role.changed" => u \in Grants,
                 Commit(grants, defs), unsent' = unsent \union {Remote(topic, u)}
          PROVE  BaseInv'
      <3>1. /\ Remote(topic, u) \in [topic : Topics, grant : Grants \union {None}, n : 0..MaxCommits]
            /\ NamesGrant(Remote(topic, u))
        BY <1>0, <2>3 DEF Remote, NamesGrant
      <3>2. WorldOK'
        BY <1>0, <2>3, <3>1, CommitKept DEF WorldOK
      <3> QED
        BY <2>1, <2>2, <2>3, <3>2, CommitCallKept
    <2>4. CASE \E u \in Grants \ db.grants :
                 /\ Commit(db.grants \union {u}, db.defs)
                 /\ unsent' = unsent \union {Remote("role.assign", u)}
      <3>1. PICK u \in Grants \ db.grants :
                 /\ Commit(db.grants \union {u}, db.defs)
                 /\ unsent' = unsent \union {Remote("role.assign", u)}
        BY <2>4
      <3>2. IsFiniteSet(db.grants \union {u}) /\ db.grants \union {u} \in SUBSET Grants
        BY <1>0, FS_AddElement
      <3>3. "role.assign" \in Topics
        BY DEF Topics
      <3> QED
        BY <1>0, <2>3, <3>1, <3>2, <3>3
    <2>5. CASE \E u \in db.grants :
                 /\ Commit(db.grants \ {u}, db.defs)
                 /\ unsent' = unsent \union {Remote("role.revoke", u)}
      <3>1. PICK u \in db.grants :
                 /\ Commit(db.grants \ {u}, db.defs)
                 /\ unsent' = unsent \union {Remote("role.revoke", u)}
        BY <2>5
      <3>2. IsFiniteSet(db.grants \ {u}) /\ db.grants \ {u} \in SUBSET Grants
        BY <1>0, FS_RemoveElement
      <3>3. "role.revoke" \in Topics
        BY DEF Topics
      <3> QED
        BY <1>0, <2>3, <3>1, <3>2, <3>3
    <2>6. CASE \E defs \in DefSets :
                 /\ Commit(db.grants, defs)
                 /\ unsent' = unsent \union {Remote("role.changed", None)}
      <3>1. "role.changed" \in Topics /\ db.grants \in SUBSET Grants
        BY <1>0 DEF Topics
      <3> QED
        BY <1>0, <2>3, <2>6, <3>1
    <2> QED
      BY <1>1, <2>4, <2>5, <2>6 DEF RemoteCommit
  <1>2. CASE RemotePublish
    <2>1. PICK event \in unsent :
            /\ unsent' = unsent \ {event}
            /\ Arrives([topic |-> event.topic, grant |-> event.grant, local |-> FALSE])
      BY <1>2 DEF RemotePublish
    <2>2. UNCHANGED <<db, subs, p, g, tables, autoSave, mu, cached, call, ghosts>>
      BY <1>2 DEF RemotePublish
    <2>3. WorldOK'
      BY <1>0, <2>1, <2>2 DEF BaseInv, WorldOK
    <2> DEFINE arrived == [topic |-> event.topic, grant |-> event.grant, local |-> FALSE]
    <2>4. arrived \in Event /\ NamesGrant(arrived)
      BY <1>0 DEF Event, NamesGrant
    <2> HIDE DEF arrived
    <2>5. BusOK'
      BY <2>1, <2>2, <2>4, ArrivesKept DEF BaseInv, arrived
    <2> QED
      BY <2>2, <2>3, <2>5, PartsKept, NothingMoves DEF BaseInv
  <1> QED
    BY <1>1, <1>2

\* Service calls start.
LEMMA CallingTyped ==
    ASSUME BaseInv, NEW c \in Callers, Calling(c)
    PROVE  BaseInv'
  <1>0. /\ db.grants \subseteq Grants /\ IsFiniteSet(db.grants) /\ db.defs \in DefSets
        /\ unsent \subseteq [topic : Topics, grant : Grants \union {None}, n : 0..MaxCommits]
        /\ \A event \in unsent : NamesGrant(event)
        /\ c \in Threads
    BY ThreadsDiffer DEF BaseInv, WorldOK
  <1>1. ASSUME NEW grants \in SUBSET Grants, IsFiniteSet(grants), NEW defs \in DefSets,
               Commit(grants, defs), UNCHANGED unsent,
               UNCHANGED <<cached, bus, p, g, tables, autoSave, mu, raced, unsaved, cut>>,
               \E r : Becomes(c, r) /\ r.pc # "clear" /\ r.asOf = None
        PROVE  BaseInv'
    <2>1. WorldOK'
      BY <1>0, <1>1, CommitKept DEF WorldOK
    <2>2. MarksOK'
      BY <1>1 DEF BaseInv, MarksOK, Commit
    <2> QED
      BY <1>0, <1>1, <2>1, <2>2, PartsKept, CommitCallKept DEF BaseInv
  <1>2. ASSUME NEW u \in Grants, CallAssign(c, u) \/ CallRevoke(c, u)
        PROVE  BaseInv'
    <2>1. \E r : Becomes(c, r) /\ r.pc # "clear" /\ r.asOf = None
      BY <1>2, StartEffect
    <2>2. PICK grants \in {db.grants \union {u}, db.grants \ {u}} : Commit(grants, db.defs)
      BY <1>2 DEF CallAssign, CallRevoke
    <2>3. IsFiniteSet(grants) /\ grants \in SUBSET Grants
      BY <1>0, FS_AddElement, FS_RemoveElement
    <2>4. UNCHANGED <<unsent, cached, bus, p, g, tables, autoSave, mu, raced, unsaved, cut>>
      BY <1>2 DEF CallAssign, CallRevoke
    <2> QED
      BY <1>0, <1>1, <2>1, <2>2, <2>3, <2>4
  <1>3. CASE CallReloadRegistry(c)
    <2>1. \E r : Becomes(c, r) /\ r.pc # "clear" /\ r.asOf = None
      <3>1. PICK r : Becomes(c, r) /\ (r.pc = "roles" \/ r.pc = "load") /\ r.asOf = None
        BY <1>3, ReloadEffect DEF Waits
      <3> QED
        BY <3>1
    <2>2. PICK defs \in DefSets : Commit(db.grants, defs)
      BY <1>3 DEF CallReloadRegistry
    <2>3. UNCHANGED <<unsent, cached, bus, p, g, tables, autoSave, mu, raced, unsaved, cut>>
      BY <1>3 DEF CallReloadRegistry
    <2> QED
      BY <1>0, <1>1, <2>1, <2>2, <2>3
  <1>4. CASE CallReloadPolicy(c)
    <2>1. PICK r : Becomes(c, r) /\ (r.pc = "roles" \/ r.pc = "load")
      BY <1>4, ReloadEffect DEF Waits
    <2>2. UNCHANGED <<world, bus, p, g, tables, autoSave, mu, cached, ghosts>>
      BY <1>4 DEF CallReloadPolicy
    <2> QED
      BY <1>0, <2>1, <2>2, PartsKept, CallKept DEF BaseInv, world
  <1> QED
    BY <1>2, <1>3, <1>4 DEF Calling

\* AssignUserRole and RevokeUserRole.
LEMMA UpdatingTyped ==
    ASSUME BaseInv, RebuildsExclude, NEW t \in Threads, Updating(t)
    PROVE  BaseInv'
  <1>1. CASE DisableAutoSave(t)
    <2>1. PICK r : Becomes(t, r) /\ r.pc # "clear"
      <3>1. PICK r : Becomes(t, r) /\ (r.pc = "rule" \/ r.pc = "restore" \/ r.pc = "cache")
        BY <1>1, UpdateEffect DEF Follows
      <3> QED
        BY <3>1
    <2>2. /\ UNCHANGED <<world, bus, p, g, tables, cached>>
          /\ UNCHANGED <<mu, ghosts>> /\ autoSave' = FALSE
      BY <1>1 DEF DisableAutoSave
    <2>3. MarksOK'
      BY <2>2 DEF BaseInv, MarksOK, ghosts
    <2> QED
      BY <2>1, <2>2, <2>3, PartsKept, CallKept DEF BaseInv, world
  <1>2. CASE ChangeRule(t)
    <2>1. PICK r : Becomes(t, r) /\ r.pc # "clear"
      <3>1. PICK r : Becomes(t, r) /\ (r.pc = "rule" \/ r.pc = "restore" \/ r.pc = "cache")
        BY <1>2, UpdateEffect DEF Follows
      <3> QED
        BY <3>1
    <2>2. call[t].grant \in Grants
      BY <1>2 DEF BaseInv, CallsOK, Sane, ChangeRule, At
    <2>3. UNCHANGED <<world, bus, p, pTable, autoSave, mu, cached, unsaved, cut, clean>>
      BY <1>2 DEF ChangeRule
    <2>4. /\ g' \in {g, g \union {call[t].grant}, g \ {call[t].grant}}
          /\ gTable' \in {gTable, gTable \union {call[t].grant}, gTable \ {call[t].grant}}
          /\ raced' \in {raced, raced \union {call[t].grant}}
      BY <1>2 DEF ChangeRule
    <2>5. RulesOK'
      BY <2>2, <2>3, <2>4 DEF BaseInv, RulesOK, Rule
    <2>6. MarksOK'
      BY <2>2, <2>3, <2>4 DEF BaseInv, MarksOK
    <2> QED
      BY <2>1, <2>3, <2>5, <2>6, PartsKept, CallKept DEF BaseInv, world
  <1>3. CASE UpdateCache(t)
    <2>1. /\ CallsOK' /\ mu = None /\ cache' \in Seq(Grants) /\ raced' \in {raced, Grants}
          /\ call'[t].pc = "restore" /\ call'[t].asOf = call[t].asOf
          /\ \A s \in Threads \ {t} : SameCall(s)
      BY <1>3, CacheEffect
    <2>2. UNCHANGED <<world, bus, p, g, tables, autoSave, mu, lastDefs, unsaved, cut, clean>>
      BY <1>3 DEF UpdateCache
    <2>3. MarksOK' /\ InputsOK'
      BY <2>1, <2>2 DEF BaseInv, MarksOK, InputsOK
    <2>4. AsOfKnown'
      BY <2>1, <2>2 DEF BaseInv, AsOfKnown, SameCall, world
    <2>5. ListIsCached'
      BY <2>1, ThreadsDiffer DEF ListIsCached, SameCall, RebuildsExclude
    <2> QED
      BY <2>1, <2>2, <2>3, <2>4, <2>5, PartsKept DEF BaseInv
  <1>4. CASE RestoreAutoSave(t)
    <2>1. PICK r : Becomes(t, r) /\ r.pc # "clear"
      <3>1. PICK r : Becomes(t, r) /\ (r.pc = "publish" \/ r.pc = "idle")
        BY <1>4, EndEffect
      <3> QED
        BY <3>1
    <2>2. /\ UNCHANGED <<world, bus, p, g, tables, cached>>
          /\ UNCHANGED <<mu, ghosts>> /\ autoSave' = TRUE
      BY <1>4 DEF RestoreAutoSave
    <2>3. MarksOK'
      BY <2>2 DEF BaseInv, MarksOK, ghosts
    <2> QED
      BY <2>1, <2>2, <2>3, PartsKept, CallKept DEF BaseInv, world
  <1> QED
    BY <1>1, <1>2, <1>3, <1>4 DEF Updating

\* Rebuilds, and ReloadPolicy before them.
LEMMA RebuildingTyped ==
    ASSUME BaseInv, RebuildsExclude, NEW t \in Threads, Rebuilding(t)
    PROVE  BaseInv'
  <1>1. CASE LoadPolicy(t)
    <2>1. PICK r : /\ Becomes(t, r) /\ r.pc # "clear"
                   /\ p' \in {p, pTable} /\ g' \in {g, gTable}
      <3>1. PICK r : /\ Becomes(t, r)
                     /\ \/ GivesUp(r, t) /\ UNCHANGED <<p, g>>
                        \/ r.pc = (IF t = Boot THEN "policies" ELSE "read") /\ p' = pTable /\ g' = gTable
        BY <1>1, LoadPolicyEffect
      <3> QED
        BY <3>1 DEF GivesUp, Waits
    <2>2. /\ UNCHANGED <<world, bus, tables, autoSave, mu, cached, raced, cut, clean>>
          /\ unsaved' \in {unsaved, {}}
      BY <1>1 DEF LoadPolicy
    <2>3. RulesOK'
      BY <2>1, <2>2 DEF BaseInv, RulesOK, tables
    <2>4. MarksOK'
      BY <2>2 DEF BaseInv, MarksOK
    <2> QED
      BY <2>1, <2>2, <2>3, <2>4, PartsKept, CallKept DEF BaseInv, world
  <1>2. ASSUME \E r : Becomes(t, r) /\ r.pc # "clear",
               UNCHANGED <<world, bus, p, g, tables, autoSave, mu, cached, ghosts>>
        PROVE  BaseInv'
    BY <1>2, PartsKept, CallKept DEF BaseInv, world
  <1>3. CASE ReadCached(t)
    <2>1. PICK r : Becomes(t, r) /\ r.pc = "lock"
      BY <1>3, ReadEffect
    <2> QED
      BY <1>2, <1>3, <2>1 DEF ReadCached
  <1>4. CASE ListRoles(t)
    <2>1. PICK r : Becomes(t, r) /\ (GivesUp(r, t) \/ r.pc = (IF call[t].op = "registry" THEN "lock" ELSE "assignments"))
      BY <1>4, ListRolesEffect
    <2>2. r.pc # "clear"
      BY <2>1 DEF GivesUp, Waits
    <2> QED
      BY <1>2, <1>4, <2>1, <2>2 DEF ListRoles
  <1>5. CASE ListAllAssignments(t)
    <2>1. PICK r : Becomes(t, r) /\ (GivesUp(r, t) \/ r.pc = "lock")
      BY <1>5, ListAssignmentsEffect
    <2>2. r.pc # "clear"
      BY <2>1 DEF GivesUp, Waits
    <2> QED
      BY <1>2, <1>5, <2>1, <2>2 DEF ListAllAssignments
  <1>6. CASE LoadRefused(t)
    <2>1. PICK r : Becomes(t, r) /\ (GivesUp(r, t) \/ r.pc \in {"idle", "publish"})
      BY <1>6, RefusedEffect
    <2>2. r.pc # "clear"
      BY <2>1 DEF GivesUp, Waits
    <2> QED
      BY <1>2, <1>6, <2>1, <2>2 DEF LoadRefused
  <1>7. CASE LockAndLoad(t)
    <2>1. /\ CallsOK' /\ mu = None /\ mu' = t
          /\ lastDefs' = call[t].defs /\ ~LoadFails(call[t].defs)
          /\ cache' \in Seq(Grants)
          /\ call'[t].asOf = call[t].asOf /\ call'[t].list = cache'
          /\ \A s \in Threads \ {t} : SameCall(s) /\ call'[s].list = call[s].list
      BY <1>7, LockEffect
    <2>2. raced' = Unfinished \union Repeated(Brought(t))
                          \union (IF call[t].op = "rebuild" THEN {} ELSE raced)
      BY <1>7, LockEffect
    <2>3. UNCHANGED <<world, bus, p, g, tables, unsaved, cut, clean>> /\ autoSave' = FALSE
      BY <1>7 DEF LockAndLoad
    <2>4. Unfinished \subseteq Grants
      BY DEF Unfinished, At, BaseInv, CallsOK, Sane
    <2>5. Repeated(Brought(t)) \subseteq Grants
      <3>1. Brought(t) \in Seq(Grants)
        BY <1>7, LockEffect
      <3> QED
        BY <3>1 DEF Repeated
    <2>6. MarksOK'
      BY <2>1, <2>2, <2>3, <2>4, <2>5 DEF BaseInv, MarksOK
    <2>7. InputsOK'
      <3>1. call[t].defs \in DefSets \union {{}}
        BY CallFields DEF BaseInv, CallsOK
      <3> QED
        BY <2>1, <3>1 DEF InputsOK
    <2>8. AsOfKnown'
      BY <2>1, <2>3 DEF BaseInv, AsOfKnown, SameCall, world
    <2>9. ListIsCached'
      BY <2>1, ThreadsDiffer DEF ListIsCached, SameCall, RebuildsExclude
    <2> QED
      BY <2>1, <2>3, <2>6, <2>7, <2>8, <2>9, PartsKept DEF BaseInv
  <1>8. CASE ClearRules(t) \/ AddRule(t)
    <2>1. /\ \E r : Becomes(t, r) /\ r.pc # "clear"
          /\ g' \subseteq Rule /\ gTable' \subseteq Rule
      <3>0. g \subseteq Rule /\ gTable \subseteq Rule /\ call[t].todo \subseteq Rule
        BY CallFields DEF BaseInv, RulesOK, CallsOK
      <3>1. CASE ClearRules(t)
        <4>1. PICK r : /\ Becomes(t, r)
                       /\ \/ r.pc = "unlock" /\ UNCHANGED <<g, gTable>>
                          \/ r.pc = "add" /\ g' = {} /\ gTable' \in {{}, gTable}
          BY <3>1, ClearEffect
        <4> QED
          BY <3>0, <4>1
      <3>2. CASE AddRule(t)
        <4>1. PICK r : /\ Becomes(t, r)
                       /\ \/ r.pc = "unlock" /\ UNCHANGED <<g, gTable>>
                          \/ \E rule \in call[t].todo :
                               /\ r.pc = "add"
                               /\ g' = g \union {rule} /\ gTable' \in {gTable, gTable \union {rule}}
          BY <3>2, AddEffect
        <4> QED
          BY <3>0, <4>1
      <3> QED
        BY <1>8, <3>1, <3>2
    <2>2. UNCHANGED <<world, bus, p, pTable, autoSave, mu, cached, ghosts>>
      BY <1>8 DEF ClearRules, AddRule
    <2>3. RulesOK'
      BY <2>1, <2>2 DEF BaseInv, RulesOK
    <2> QED
      BY <2>1, <2>2, <2>3, PartsKept, CallKept DEF BaseInv, world
  <1>9. CASE Unlock(t)
    <2>1. PICK r : Becomes(t, r) /\ (r.pc \in {"idle", "subscribe", "publish"} \/ r.pc = "down")
      BY <1>9, UnlockEffect
    <2>2. UNCHANGED <<world, bus, p, g, tables, cached, unsaved>> /\ autoSave' = TRUE /\ mu' = None
      BY <1>9 DEF Unlock
    <2>3. /\ cut' = call[t].failed /\ clean' = (~call[t].failed /\ (clean \/ Current(t)))
          /\ raced' \in {raced, Grants}
      BY <1>9 DEF Unlock
    <2>4. call[t].failed \in BOOLEAN
      BY CallFields DEF BaseInv, CallsOK
    <2>5. MarksOK'
      <3>1. cut' \in BOOLEAN /\ clean' \in BOOLEAN
        BY <2>3, <2>4, Zenon
      <3> QED
        BY <2>2, <2>3, <3>1 DEF BaseInv, MarksOK
    <2>6. r.pc # "clear"
      BY <2>1
    <2> QED
      BY <2>1, <2>2, <2>5, <2>6, PartsKept, CallKept DEF BaseInv, world
  <1> QED
    BY <1>1, <1>3, <1>4, <1>5, <1>6, <1>7, <1>8, <1>9 DEF Rebuilding

\* The own event of a call, and handled events.
LEMMA EventsTyped ==
    ASSUME BaseInv, (\E c \in Callers : PublishOwn(c)) \/ Handling
    PROVE  BaseInv'
  <1>1. ASSUME NEW c \in Callers, PublishOwn(c)
        PROVE  BaseInv'
    <2>0. c \in Threads /\ Sane(c, call[c]) /\ call[c].pc = "publish"
      BY <1>1, ThreadsDiffer DEF BaseInv, CallsOK, PublishOwn, At
    <2> DEFINE topic == CASE call[c].op = "assign" -> "role.assign"
                          [] call[c].op = "revoke" -> "role.revoke"
                          [] OTHER -> "role.changed"
               event == [topic |-> topic, grant |-> call[c].grant, local |-> TRUE]
    <2>1. Arrives(event) /\ UNCHANGED <<world, subs, p, g, tables, autoSave, mu, cached, ghosts>>
      BY <1>1 DEF PublishOwn
    <2>2. topic \in Topics /\ (topic # "role.changed" => call[c].op \in {"assign", "revoke"})
      BY <2>0 DEF Topics
    <2>3. PICK r : Becomes(c, r) /\ r.pc # "clear"
      <3>1. PICK r : Becomes(c, r) /\ (r.pc = "publish" \/ r.pc = "idle")
        BY <1>1, <2>0, EndEffect
      <3> QED
        BY <3>1
    <2>4. call[c].grant \in Grants \union {None}
      BY <2>0, CallFields DEF BaseInv, CallsOK
    <2>5. call[c].op \in {"assign", "revoke"} => call[c].grant \in Grants
      BY <2>0 DEF Sane
    <2> HIDE DEF topic
    <2>6. event \in Event /\ NamesGrant(event)
      BY <2>2, <2>4, <2>5 DEF Event, NamesGrant
    <2> HIDE DEF event
    <2>7. BusOK'
      BY <2>1, <2>6, ArrivesKept DEF BaseInv
    <2> QED
      BY <2>0, <2>1, <2>3, <2>7, PartsKept, CallKept DEF BaseInv, world
  <1>2. ASSUME NEW topic \in Topics,
               handleRoleEvent(topic) \/ (topic = "role.changed" /\ handleRoleChanged)
        PROVE  BaseInv'
    <2>0. topic \in Threads
      BY ThreadsDiffer
    <2>1. /\ queue[topic] # <<>> /\ queue' = [queue EXCEPT ![topic] = Tail(@)]
          /\ UNCHANGED <<world, subs, p, g, tables, autoSave, mu, cached, ghosts>>
      BY <1>2 DEF handleRoleEvent, handleRoleChanged
    <2>2. BusOK'
      BY <2>1, TakenKept DEF BaseInv
    <2>3. UNCHANGED call \/ \E r : Becomes(topic, r) /\ r.pc # "clear"
      <3>1. UNCHANGED call \/ \E r : Becomes(topic, r) /\ r.pc \in {"save", "roles"}
        BY <1>2, HandleEffect
      <3> QED
        BY <3>1
    <2> QED
      BY <2>0, <2>1, <2>2, <2>3, PartsKept, CallKept, NothingMoves DEF BaseInv, world
  <1> QED
    BY <1>1, <1>2 DEF Handling, Topics

\* The calls of a process that starts.
LEMMA AnewForms ==
    LET anew == [t \in Threads |-> IF t = Boot THEN [Idle EXCEPT !.pc = "load"] ELSE Idle]
    IN  /\ anew \in [Threads -> Call]
        /\ \A t \in Threads : /\ Sane(t, anew[t]) /\ anew[t].asOf = None /\ anew[t].op = "none"
                              /\ anew[t].pc \in {"load", "idle"}
        /\ anew[Boot].pc = "load"
  <1> DEFINE first == [Idle EXCEPT !.pc = "load"]
  <1>1. Waits(first, "load", "none", None) /\ Waits(Idle, "idle", "none", None)
    BY StartedPlace, IdleIsCall DEF Place, Waits
  <1> HIDE DEF first
  <1>2. Sane(Boot, first) /\ \A t \in Threads : Sane(t, Idle)
    BY <1>1 DEF Waits, Sane
  <1>3. /\ first \in Call /\ first.pc = "load" /\ first.asOf = None /\ first.op = "none"
        /\ Idle \in Call /\ Idle.pc = "idle" /\ Idle.asOf = None /\ Idle.op = "none"
    BY <1>1 DEF Waits
  <1>4. Boot \in Threads
    BY ThreadsDiffer
  <1> DEFINE anew == [t \in Threads |-> IF t = Boot THEN first ELSE Idle]
  <1>5. /\ anew \in [Threads -> Call]
        /\ \A t \in Threads : /\ Sane(t, anew[t]) /\ anew[t].asOf = None /\ anew[t].op = "none"
                              /\ anew[t].pc \in {"load", "idle"}
        /\ anew[Boot].pc = "load"
    BY <1>2, <1>3, <1>4
  <1> QED
    BY <1>5 DEF first

\* The start and the end of the process, and its permission rules.
LEMMA LifeTyped ==
    ASSUME BaseInv, Starting \/ Close \/ Restart \/ \E x \in Policies : AddPolicy(x) \/ RemovePolicy(x)
    PROVE  BaseInv'
  <1>0. Boot \in Threads /\ defaultPolicies \subseteq Policies
    BY ThreadsDiffer, AuthzAssumption
  <1>1. CASE InitDefaultPolicies
    <2>1. PICK r : Becomes(Boot, r) /\ r.pc # "clear"
      <3>1. PICK r : Becomes(Boot, r) /\ (r.pc \in {"roles", "down"})
        BY <1>1, SeedEffect
      <3> QED
        BY <3>1
    <2>2. /\ UNCHANGED <<world, bus, g, gTable, autoSave, mu, cached, ghosts>>
          /\ p' \in {p, defaultPolicies} /\ pTable' \in {pTable, pTable \union defaultPolicies}
      BY <1>1 DEF InitDefaultPolicies
    <2>3. RulesOK'
      BY <1>0, <2>2 DEF BaseInv, RulesOK
    <2> QED
      BY <1>0, <2>1, <2>2, <2>3, PartsKept, CallKept DEF BaseInv, world
  <1>2. ASSUME NEW topic \in Topics, SubscribeTo(topic)
        PROVE  BaseInv'
    <2>1. UNCHANGED call \/ Becomes(Boot, Idle)
      BY <1>2, SubscribeEffect
    <2>2. /\ subs' = subs \union {topic}
          /\ UNCHANGED <<world, queue, p, g, tables, autoSave, mu, cached, ghosts>>
      BY <1>2 DEF SubscribeTo
    <2>3. BusOK'
      BY <2>2 DEF BaseInv, BusOK
    <2>4. Idle.pc # "clear"
      BY IdleIsCall
    <2> QED
      BY <1>0, <2>1, <2>2, <2>3, <2>4, PartsKept, CallKept, NothingMoves DEF BaseInv, world
  <1>3. CASE Close
    <2>1. PICK r : Becomes(Boot, r) /\ Follows(r, call[Boot], "down")
      BY <1>3, CloseEffect
    <2>2. subs' = {} /\ UNCHANGED <<world, queue, p, g, tables, autoSave, mu, cached, ghosts>>
      BY <1>3 DEF Close
    <2>3. BusOK'
      BY <2>2 DEF BaseInv, BusOK
    <2>4. r.pc # "clear"
      BY <2>1 DEF Follows
    <2> QED
      BY <1>0, <2>1, <2>2, <2>3, <2>4, PartsKept, CallKept DEF BaseInv, world
  <1>4. CASE Restart
    <2>1. /\ UNCHANGED <<world, tables>> /\ queue' = [topic \in Topics |-> <<>>] /\ subs' = {}
          /\ p' = {} /\ g' = {} /\ autoSave' = TRUE /\ mu' = None
          /\ lastDefs' = {} /\ cache' = <<>>
          /\ raced' = {} /\ unsaved' = {} /\ cut' = FALSE /\ clean' = FALSE
      BY <1>4 DEF Restart
    <2>2. WorldOK' /\ BusOK' /\ RulesOK' /\ MarksOK' /\ InputsOK'
      <3>1. WorldOK'
        BY <2>1, PartsKept DEF BaseInv
      <3>2. BusOK'
        BY <2>1 DEF BusOK
      <3>3. RulesOK'
        BY <2>1 DEF BaseInv, RulesOK, tables
      <3>4. MarksOK'
        BY <2>1 DEF MarksOK
      <3>5. InputsOK'
        BY <2>1, NothingToLoad DEF InputsOK
      <3> QED
        BY <3>1, <3>2, <3>3, <3>4, <3>5
    <2>3. CallsOK' /\ AsOfKnown' /\ ListIsCached'
      BY <1>4, AnewForms DEF Restart, CallsOK, AsOfKnown, ListIsCached
    <2> QED
      BY <2>2, <2>3 DEF BaseInv
  <1>5. ASSUME NEW x \in Policies, AddPolicy(x) \/ RemovePolicy(x)
        PROVE  BaseInv'
    <2>1. UNCHANGED <<world, bus, g, gTable, autoSave, mu, cached, call, raced, cut, clean>>
      BY <1>5 DEF AddPolicy, RemovePolicy
    <2>2. /\ p' \in {p \union {x}, p \ {x}} /\ pTable' \in {pTable, pTable \union {x}, pTable \ {x}}
          /\ unsaved' \in {unsaved, unsaved \union {x}}
      BY <1>5 DEF AddPolicy, RemovePolicy
    <2>3. RulesOK'
      BY <2>1, <2>2 DEF BaseInv, RulesOK
    <2>4. MarksOK'
      BY <2>1, <2>2 DEF BaseInv, MarksOK
    <2> QED
      BY <2>1, <2>3, <2>4, PartsKept, NothingMoves DEF BaseInv, world
  <1> QED
    BY <1>1, <1>2, <1>3, <1>4, <1>5 DEF Starting

\* Initially too.
LEMMA InitTyped == Init => BaseInv
  <1> SUFFICES ASSUME Init PROVE BaseInv
    OBVIOUS
  <1>1. /\ storedGrants \subseteq Grants /\ IsFiniteSet(storedGrants) /\ 0 \in 0..MaxCommits
    BY AuthzAssumption
  <1>2. PICK defs \in DefSets : db = [grants |-> storedGrants, defs |-> defs, commits |-> 0]
    BY DEF Init
  <1>3. /\ unsent = {} /\ queue = [topic \in Topics |-> <<>>] /\ subs = {}
        /\ p = {} /\ g = {} /\ pTable = {} /\ gTable = {}
        /\ autoSave = TRUE /\ mu = None
        /\ lastDefs = {} /\ cache = <<>>
        /\ call = [t \in Threads |-> IF t = Boot THEN [Idle EXCEPT !.pc = "load"] ELSE Idle]
        /\ raced = {} /\ unsaved = {} /\ cut = FALSE /\ clean = FALSE
    BY DEF Init
  <1>4. WorldOK
    BY <1>1, <1>2, <1>3 DEF WorldOK
  <1>5. BusOK
    BY <1>3 DEF BusOK
  <1>6. RulesOK /\ MarksOK
    BY <1>3 DEF RulesOK, MarksOK
  <1>7. InputsOK
    BY <1>3, NothingToLoad DEF InputsOK
  <1>8. CallsOK /\ AsOfKnown /\ ListIsCached
    BY <1>3, AnewForms DEF CallsOK, AsOfKnown, ListIsCached
  <1> QED
    BY <1>4, <1>5, <1>6, <1>7, <1>8 DEF BaseInv

\* A step that changes nothing.
LEMMA StutterTyped == BaseInv /\ UNCHANGED vars => BaseInv'
  BY PartsKept, NothingMoves DEF BaseInv, vars, world, bus, tables, cached, ghosts

\* Every step keeps the state well formed.
LEMMA StepTyped == BaseInv /\ RebuildsExclude /\ [Next]_vars => BaseInv'
  <1> SUFFICES ASSUME BaseInv, RebuildsExclude, Next PROVE BaseInv'
    BY StutterTyped
  <1>1. CASE RemoteCommit \/ RemotePublish
    BY <1>1, RemoteTyped
  <1>2. CASE \E c \in Callers : Calling(c) \/ PublishOwn(c)
    BY <1>2, CallingTyped, EventsTyped
  <1>3. CASE \E t \in Threads : Updating(t) \/ Rebuilding(t)
    BY <1>3, UpdatingTyped, RebuildingTyped
  <1>4. CASE Handling
    BY <1>4, EventsTyped
  <1>5. CASE Starting \/ Close \/ Restart \/ \E x \in Policies : AddPolicy(x) \/ RemovePolicy(x)
    BY <1>5, LifeTyped
  <1> QED
    BY <1>1, <1>2, <1>3, <1>4, <1>5 DEF Next

\* The state of the manager, its tables, the bus and every call is what it is
\* declared to be, whatever the calls and the other instances do.
THEOREM TypeCorrect == Spec => []TypeOK
  <1>1. Init => BaseInv
    BY InitTyped
  <1>2. BaseInv /\ RebuildsExclude /\ [Next]_vars => BaseInv'
    BY StepTyped
  <1>3. Spec => []RebuildsExclude
    BY RebuildsNeverMix
  <1>4. BaseInv => TypeOK
    BY BaseIsTyped
  <1> QED
    BY <1>1, <1>2, <1>3, <1>4, PTL DEF Spec

-----------------------------------------------------------------------------
(* Steps that leave the enforcer and its inputs alone *)

\* Places from which a call changes the rules or their inputs.
Touching == {"cache", "clear", "add", "unlock"}

StaysAway(t) ==
    \/ call'[t] = call[t]
    \/ /\ call[t].pc \notin Touching /\ call'[t].pc \notin Touching
       /\ Doomed(t) => Doomed(t)'

Steady == UNCHANGED <<g, mu, lastDefs, cache, raced, cut>> /\ \A t \in Threads : StaysAway(t)

\* Such a step makes its call another one that stays away.
LEMMA SteadyCall ==
    ASSUME BaseInv, NEW t \in Threads, NEW r, Becomes(t, r),
           call[t].pc \notin Touching, r.pc \notin Touching, Doomed(t) => DoomedAs(t, r),
           UNCHANGED <<g, mu, lastDefs, cache, raced, cut>>
    PROVE  Steady
  <1>1. call'[t] = r /\ \A s \in Threads \ {t} : call'[s] = call[s]
    BY BecomesKeeps
  <1> QED
    BY <1>1 DEF Steady, StaysAway, Doomed

\* No call is saved from its doom.
LEMMA SteadyDoom == Steady /\ NoneDoomed' => NoneDoomed
  BY DEF Steady, StaysAway, NoneDoomed, Doomed, DoomedAs

\* What a step is that is not steady.
Effective(t) ==
    \/ ChangeRule(t) /\ call'[t].pc = "cache"
    \/ UpdateCache(t) \/ LockAndLoad(t) \/ ClearRules(t) \/ AddRule(t) \/ Unlock(t)

\* AssignUserRole and RevokeUserRole before and after their two changes.
LEMMA UpdatingSteady ==
    ASSUME BaseInv, NEW t \in Threads, Updating(t)
    PROVE  Steady \/ Effective(t)
  <1>1. CASE DisableAutoSave(t)
    <2>1. /\ call[t].pc = "save" /\ UNCHANGED <<g, mu, lastDefs, cache, raced, cut>>
      BY <1>1 DEF DisableAutoSave, At, ghosts, cached
    <2>2. PICK r : Becomes(t, r) /\ r.pc = "rule"
      <3>1. PICK r : /\ Becomes(t, r)
                     /\ \/ Follows(r, call[t], "rule")
                        \/ call[t].pc = "rule"
        BY <1>1, UpdateEffect
      <3> QED
        BY <2>1, <3>1 DEF Follows
    <2> QED
      BY <2>1, <2>2, SteadyCall DEF Touching, Doomed, DoomedAs
  <1>2. CASE ChangeRule(t)
    <2>1. /\ call[t].pc = "rule" /\ UNCHANGED <<mu, lastDefs, cache, cut>>
      BY <1>2 DEF ChangeRule, At, cached
    <2>2. PICK r : /\ Becomes(t, r)
                   /\ \/ UNCHANGED <<g, gTable, raced>> /\ r.pc = "restore"
                      \/ r.pc = "cache"
      <3>1. PICK r : /\ Becomes(t, r)
                     /\ \/ call[t].pc = "save"
                        \/ UNCHANGED <<g, gTable, raced>> /\ Follows(r, call[t], "restore")
                        \/ Follows(r, call[t], "cache")
        BY <1>2, UpdateEffect
      <3> QED
        BY <2>1, <3>1 DEF Follows
    <2>3. CASE r.pc = "cache"
      BY <1>2, <2>2, <2>3, BecomesKeeps DEF Effective
    <2>4. CASE UNCHANGED <<g, gTable, raced>> /\ r.pc = "restore"
      BY <2>1, <2>2, <2>4, SteadyCall DEF Touching, Doomed, DoomedAs
    <2> QED
      BY <2>2, <2>3, <2>4
  <1>3. CASE RestoreAutoSave(t)
    <2>1. PICK r : Becomes(t, r) /\ call[t].pc = "restore" /\ r.pc \in {"publish", "idle"}
      <3>1. PICK r : Becomes(t, r)
                  /\ \/ call[t].pc = "restore" /\ r.pc \in {"publish", "idle"}
                     \/ call[t].pc = "publish" /\ r.pc = "idle"
        BY <1>3, EndEffect
      <3>2. call[t].pc = "restore"
        BY <1>3 DEF RestoreAutoSave, At
      <3> QED
        BY <3>1, <3>2
    <2>2. UNCHANGED <<g, mu, lastDefs, cache, raced, cut>>
      BY <1>3 DEF RestoreAutoSave, ghosts, cached
    <2> QED
      BY <2>1, <2>2, SteadyCall DEF Touching, Doomed, DoomedAs
  <1> QED
    BY <1>1, <1>2, <1>3 DEF Updating, Effective

\* Rebuilds before they have the lock; ReloadPolicy dooms itself.
LEMMA RebuildingSteady ==
    ASSUME BaseInv, NEW t \in Threads, Rebuilding(t)
    PROVE  Steady \/ Doomed(t)' \/ Effective(t)
  <1>0. Sane(t, call[t])
    BY DEF BaseInv, CallsOK
  <1>g. \A r : GivesUp(r, t) => r.pc \notin Touching /\ r.pc = IF t = Boot THEN "down" ELSE "idle"
    BY DEF GivesUp, Waits, Touching
  <1>1. CASE LoadPolicy(t)
    <2>1. /\ call[t].pc = "load"
          /\ UNCHANGED <<mu, lastDefs, cache, raced, cut>>
      BY <1>1 DEF LoadPolicy, At, cached
    <2>2. PICK r : /\ Becomes(t, r)
                   /\ \/ GivesUp(r, t) /\ UNCHANGED <<p, g>>
                      \/ r.pc = IF t = Boot THEN "policies" ELSE "read"
      BY <1>1, LoadPolicyEffect
    <2>3. CASE GivesUp(r, t) /\ UNCHANGED <<p, g>>
      <3>1. DoomedAs(t, call[t]) => DoomedAs(t, r)
        BY <2>1, <2>3, <1>g DEF DoomedAs
      <3> QED
        BY <1>g, <2>1, <2>2, <2>3, <3>1, SteadyCall DEF Touching, Doomed
    <2>4. CASE r.pc = IF t = Boot THEN "policies" ELSE "read"
      <3>1. call'[t] = r
        BY <2>2, BecomesKeeps
      <3> QED
        BY <2>4, <3>1 DEF Doomed, DoomedAs
    <2> QED
      BY <2>2, <2>3, <2>4
  <1>2. CASE ReadCached(t)
    <2>1. PICK r : Becomes(t, r) /\ r.pc = "lock" /\ r.op = "policy" /\ call[t].pc = "read"
      BY <1>2, ReadEffect
    <2>2. UNCHANGED <<g, mu, lastDefs, cache, raced, cut>>
      BY <1>2 DEF ReadCached, ghosts, cached
    <2> QED
      BY <2>1, <2>2, SteadyCall DEF Touching, Doomed, DoomedAs
  <1>3. CASE ListRoles(t)
    <2>1. PICK r : Becomes(t, r) /\ (GivesUp(r, t) \/ r.pc = (IF call[t].op = "registry" THEN "lock" ELSE "assignments"))
      BY <1>3, ListRolesEffect
    <2>2. call[t].pc = "roles" /\ UNCHANGED <<g, mu, lastDefs, cache, raced, cut>>
      BY <1>3 DEF ListRoles, At, ghosts, cached
    <2>3. DoomedAs(t, call[t]) => DoomedAs(t, r)
      BY <1>g, <2>1, <2>2 DEF DoomedAs
    <2>4. r.pc \notin Touching
      BY <1>g, <2>1 DEF Touching
    <2> QED
      BY <2>1, <2>2, <2>3, <2>4, SteadyCall DEF Touching, Doomed
  <1>4. CASE ListAllAssignments(t)
    <2>1. PICK r : Becomes(t, r) /\ (GivesUp(r, t) \/ r.pc = "lock")
      BY <1>4, ListAssignmentsEffect
    <2>2. call[t].pc = "assignments" /\ UNCHANGED <<g, mu, lastDefs, cache, raced, cut>>
      BY <1>4 DEF ListAllAssignments, At, ghosts, cached
    <2>3. DoomedAs(t, call[t]) => DoomedAs(t, r)
      BY <1>g, <2>1, <2>2 DEF DoomedAs
    <2>4. r.pc \notin Touching
      BY <1>g, <2>1 DEF Touching
    <2> QED
      BY <2>1, <2>2, <2>3, <2>4, SteadyCall DEF Touching, Doomed
  <1>5. CASE LoadRefused(t)
    <2>1. PICK r : Becomes(t, r) /\ (GivesUp(r, t) \/ (t # Boot /\ r.pc \in {"idle", "publish"}))
      BY <1>5, RefusedEffect
    <2>2. /\ call[t].pc = "lock" /\ call[t].op \in {"rebuild", "registry"}
          /\ UNCHANGED <<g, mu, lastDefs, cache, raced, cut>>
      BY <1>5, RefusedEffect DEF LoadRefused, ghosts, cached
    <2>3. DoomedAs(t, call[t]) => DoomedAs(t, r)
      BY <1>g, <2>1, <2>2 DEF DoomedAs
    <2>4. r.pc \notin Touching
      BY <1>g, <2>1 DEF Touching
    <2> QED
      BY <2>1, <2>2, <2>3, <2>4, SteadyCall DEF Touching, Doomed
  <1> QED
    BY <1>1, <1>2, <1>3, <1>4, <1>5 DEF Rebuilding, Effective

\* All steps but the effective ones are steady, or doom a call.
LEMMA OthersSteady ==
    ASSUME BaseInv, [Next]_vars
    PROVE  \/ Steady
           \/ \E t \in Threads : Doomed(t)' \/ Effective(t)
  <1>0. Boot \in Threads /\ \A t \in Threads : Sane(t, call[t])
    BY ThreadsDiffer DEF BaseInv, CallsOK
  <1>1. CASE RemoteCommit \/ RemotePublish \/ UNCHANGED vars
             \/ \E x \in Policies : AddPolicy(x) \/ RemovePolicy(x)
    <2>1. UNCHANGED <<call, g, mu, lastDefs, cache, raced, cut>>
      <3>1. CASE RemoteCommit
        BY <3>1 DEF RemoteCommit, ghosts, cached
      <3>2. CASE RemotePublish
        BY <3>2 DEF RemotePublish, ghosts, cached
      <3>3. CASE UNCHANGED vars
        BY <3>3 DEF vars, ghosts, cached
      <3>4. CASE \E x \in Policies : AddPolicy(x) \/ RemovePolicy(x)
        BY <3>4 DEF AddPolicy, RemovePolicy, cached
      <3> QED
        BY <1>1, <3>1, <3>2, <3>3, <3>4
    <2> QED
      BY <2>1 DEF Steady, StaysAway
  <1>2. ASSUME NEW c \in Callers, Calling(c)
        PROVE  Steady
    <2>1. c \in Threads /\ c # Boot
      BY ThreadsDiffer
    <2>2. call[c].pc = "idle" /\ UNCHANGED <<g, mu, lastDefs, cache, raced, cut>>
      BY <1>2 DEF Calling, CallAssign, CallRevoke, CallReloadRegistry, CallReloadPolicy, At, cached, ghosts
    <2>3. PICK r : Becomes(c, r) /\ r.pc \in {"save", "roles", "load"}
      <3>1. CASE \E u \in Grants : CallAssign(c, u) \/ CallRevoke(c, u)
        BY <3>1, StartEffect
      <3>2. CASE CallReloadRegistry(c) \/ CallReloadPolicy(c)
        BY <3>2, ReloadEffect DEF Waits
      <3> QED
        BY <1>2, <3>1, <3>2 DEF Calling
    <2> QED
      BY <2>1, <2>2, <2>3, SteadyCall DEF Touching, Doomed, DoomedAs
  <1>3. ASSUME NEW c \in Callers, PublishOwn(c)
        PROVE  Steady
    <2>1. c \in Threads /\ c # Boot
      BY ThreadsDiffer
    <2>2. call[c].pc = "publish" /\ UNCHANGED <<g, mu, lastDefs, cache, raced, cut>>
      BY <1>3 DEF PublishOwn, At, cached, ghosts
    <2>3. PICK r : Becomes(c, r) /\ r.pc \in {"publish", "idle"}
      BY <1>3, <2>1, EndEffect
    <2> QED
      BY <2>1, <2>2, <2>3, SteadyCall DEF Touching, Doomed, DoomedAs
  <1>4. ASSUME NEW topic \in Topics,
               handleRoleEvent(topic) \/ (topic = "role.changed" /\ handleRoleChanged)
        PROVE  Steady
    <2>1. topic \in Threads /\ topic # Boot
      BY ThreadsDiffer
    <2>2. UNCHANGED <<g, mu, lastDefs, cache, raced, cut>>
      BY <1>4 DEF handleRoleEvent, handleRoleChanged, cached, ghosts
    <2>3. /\ call[topic].pc = "idle"
          /\ UNCHANGED call \/ \E r : Becomes(topic, r) /\ r.pc \in {"save", "roles"}
      BY <1>4, HandleEffect
    <2>4. CASE UNCHANGED call
      BY <2>2, <2>4 DEF Steady, StaysAway
    <2>5. CASE \E r : Becomes(topic, r) /\ r.pc \in {"save", "roles"}
      <3>1. PICK r : Becomes(topic, r) /\ r.pc \in {"save", "roles"}
        BY <2>5
      <3> QED
        BY <2>1, <2>2, <2>3, <3>1, SteadyCall DEF Touching, Doomed, DoomedAs
    <2> QED
      BY <2>3, <2>4, <2>5
  <1>5. CASE InitDefaultPolicies
    <2>1. UNCHANGED <<g, mu, lastDefs, cache, raced, cut>>
      BY <1>5 DEF InitDefaultPolicies, cached, ghosts
    <2>2. PICK r : Becomes(Boot, r) /\ r.pc \in {"roles", "down"} /\ call[Boot].pc = "policies"
      BY <1>5, SeedEffect
    <2> QED
      BY <1>0, <2>1, <2>2, SteadyCall DEF Touching, Doomed, DoomedAs
  <1>6. ASSUME NEW topic \in Topics, SubscribeTo(topic)
        PROVE  Steady
    <2>1. UNCHANGED <<g, mu, lastDefs, cache, raced, cut>>
      BY <1>6 DEF SubscribeTo, cached, ghosts
    <2>2. call[Boot].pc = "subscribe" /\ (UNCHANGED call \/ Becomes(Boot, Idle))
      BY <1>6, SubscribeEffect
    <2>3. CASE UNCHANGED call
      BY <2>1, <2>3 DEF Steady, StaysAway
    <2>4. CASE Becomes(Boot, Idle)
      BY <1>0, <2>1, <2>2, <2>4, IdleIsCall, SteadyCall DEF Touching, Doomed, DoomedAs
    <2> QED
      BY <2>2, <2>3, <2>4
  <1>7. CASE Close
    <2>1. UNCHANGED <<g, mu, lastDefs, cache, raced, cut>>
      BY <1>7 DEF Close, cached, ghosts
    <2>2. PICK r : Becomes(Boot, r) /\ Follows(r, call[Boot], "down") /\ call[Boot].pc = "idle"
      BY <1>7, CloseEffect
    <2> QED
      BY <1>0, <2>1, <2>2, SteadyCall DEF Follows, Touching, Doomed, DoomedAs
  <1>8. CASE Restart
    <2>1. call'[Boot].pc = "load"
      BY <1>8, AnewForms DEF Restart
    <2> QED
      BY <1>0, <2>1 DEF Doomed, DoomedAs
  <1>9. ASSUME NEW t \in Threads, Updating(t) \/ Rebuilding(t)
        PROVE  Steady \/ Doomed(t)' \/ Effective(t)
    BY <1>9, UpdatingSteady, RebuildingSteady
  <1>10. CASE Handling
    BY <1>4, <1>10 DEF Handling, Topics
  <1> QED
    BY <1>1, <1>2, <1>3, <1>5, <1>6, <1>7, <1>8, <1>9, <1>10 DEF Next, Starting

-----------------------------------------------------------------------------
(* The rules follow the inputs *)

\* One call at a time is about to replace the rules.
LEMMA OneReplaces ==
    ASSUME RebuildsExclude, NEW t \in Threads
    PROVE  /\ call[t].pc \in Touching \ {"cache"} => mu = t /\ t # None
           /\ mu = None => call[t].pc \notin {"clear", "add", "unlock"}
           /\ mu \in Threads /\ mu # t => call[t].pc \notin {"clear", "add", "unlock"}
  BY ThreadsDiffer DEF RebuildsExclude, Touching

\* An effective step is one of its call.
LEMMA EffectiveIsOwn ==
    ASSUME BaseInv, NEW t \in Threads, Effective(t)
    PROVE  /\ \A s \in Threads \ {t} : SameCall(s)
           /\ ~Doomed(t) \/ LockAndLoad(t)
  <1>1. ASSUME NEW r, Becomes(t, r)
        PROVE  \A s \in Threads \ {t} : SameCall(s)
    BY <1>1, BecomesKeeps DEF SameCall
  <1>2. CASE ChangeRule(t)
    <2>1. PICK r : Becomes(t, r)
      BY <1>2, UpdateEffect
    <2>2. call[t].pc = "rule"
      BY <1>2 DEF ChangeRule, At
    <2> QED
      BY <1>1, <2>1, <2>2 DEF Doomed, DoomedAs
  <1>3. CASE UpdateCache(t)
    BY <1>3, CacheEffect DEF Doomed, DoomedAs
  <1>4. CASE LockAndLoad(t)
    BY <1>4, LockEffect
  <1>5. CASE ClearRules(t)
    <2>1. PICK r : Becomes(t, r) /\ call[t].pc = "clear"
      BY <1>5, ClearEffect
    <2> QED
      BY <1>1, <2>1 DEF Doomed, DoomedAs
  <1>6. CASE AddRule(t)
    <2>1. PICK r : Becomes(t, r) /\ call[t].pc = "add"
      BY <1>6, AddEffect
    <2> QED
      BY <1>1, <2>1 DEF Doomed, DoomedAs
  <1>7. CASE Unlock(t)
    <2>1. PICK r : Becomes(t, r)
      BY <1>7, UnlockEffect
    <2>2. call[t].pc \in {"add", "unlock"}
      BY <1>7 DEF Unlock, At
    <2> QED
      BY <1>1, <2>1, <2>2 DEF Doomed, DoomedAs
  <1> QED
    BY <1>2, <1>3, <1>4, <1>5, <1>6, <1>7 DEF Effective

\* Only a step that takes the lock takes a call out of its doom.
LEMMA EffectiveDoom ==
    ASSUME BaseInv, NEW t \in Threads, Effective(t), ~LockAndLoad(t), NoneDoomed'
    PROVE  NoneDoomed
  BY EffectiveIsOwn DEF NoneDoomed, Doomed, DoomedAs, SameCall

\* Cached assignments are grants.
LEMMA CachedGrants == BaseInv => GrantsIn(cache) \subseteq Grants
  BY DEF BaseInv, InputsOK, GrantsIn

\* An effective change of one grant.
LEMMA ChangeForms ==
    ASSUME BaseInv, NEW t \in Threads, ChangeRule(t), call'[t].pc = "cache"
    PROVE  LET u == call[t].grant
           IN  /\ u \in Grants /\ call[t].pc = "rule" /\ call[t].op \in {"assign", "revoke"}
               /\ call'[t].grant = u /\ call'[t].op = call[t].op
               /\ \/ call[t].op = "assign" /\ u \notin g /\ g' = g \union {u}
                  \/ call[t].op = "revoke" /\ u \in g /\ g' = g \ {u}
               /\ raced' = IF Contended(t, u) THEN raced \union {u} ELSE raced
               /\ UNCHANGED <<mu, lastDefs, cache, cut>>
  <1> DEFINE u == call[t].grant
             rules == IF call[t].op = "assign" THEN g \union {u} ELSE g \ {u}
  <1>1. /\ u \in Grants /\ call[t].pc = "rule" /\ call[t].op \in {"assign", "revoke"}
    BY DEF BaseInv, CallsOK, Sane, ChangeRule, At
  <1>2. PICK r : /\ Becomes(t, r)
                 /\ Follows(r, call[t], "restore") \/ Follows(r, call[t], "cache")
    <2>1. PICK r : /\ Becomes(t, r)
                   /\ \/ call[t].pc = "save"
                      \/ Follows(r, call[t], "restore")
                      \/ Follows(r, call[t], "cache")
      BY UpdateEffect
    <2> QED
      BY <1>1, <2>1
  <1>3. call'[t] = r /\ call'[t].grant = u /\ call'[t].op = call[t].op
    <2>1. call'[t] = r
      BY <1>2, BecomesKeeps
    <2> QED
      BY <1>2, <2>1 DEF Follows
  <1>4. ~Step(t, "restore")
    <2> SUFFICES ASSUME Step(t, "restore") PROVE FALSE
      OBVIOUS
    <2>1. call'[t].pc = "restore"
      BY DEF Step, BaseInv, CallsOK, Call
    <2> QED
      BY <2>1
  <1>5. /\ rules # g /\ g' = rules
        /\ raced' = IF Contended(t, u) THEN raced \union {u} ELSE raced
    BY <1>4 DEF ChangeRule
  <1>6. UNCHANGED <<mu, lastDefs, cache, cut>>
    BY DEF ChangeRule, cached
  <1>7. \/ call[t].op = "assign" /\ u \notin g /\ g' = g \union {u}
        \/ call[t].op = "revoke" /\ u \in g /\ g' = g \ {u}
    BY <1>1, <1>5
  <1> HIDE DEF rules
  <1> QED
    BY <1>1, <1>3, <1>5, <1>6, <1>7

\* The inheritance rules are those of the definitions loaded last unless a
\* rebuild is under way, or the last one was cut short.
LEMMA ReachKept ==
    ASSUME BaseInv, RebuildsExclude, ReachInv, [Next]_vars
    PROVE  ReachInv'
  <1> SUFFICES ASSUME NoneDoomed'
               PROVE  /\ mu' = None /\ ~cut' => g' \ Grants = InheritanceRules(lastDefs')
                      /\ \A s \in Threads : call'[s].pc = "add" =>
                            (g' \union call'[s].todo) \ Grants = InheritanceRules(lastDefs')
    BY DEF ReachInv
  <1>1. CASE Steady
    <2>1. NoneDoomed
      BY <1>1, SteadyDoom
    <2> QED
      BY <1>1, <2>1 DEF ReachInv, Steady, StaysAway, Touching
  <1>2. ASSUME NEW t \in Threads, Effective(t), ~LockAndLoad(t)
        PROVE  /\ NoneDoomed
               /\ \A s \in Threads \ {t} : call'[s].pc = call[s].pc /\ call'[s].todo = call[s].todo
               /\ mu = None /\ ~cut => g \ Grants = InheritanceRules(lastDefs)
               /\ \A s \in Threads : call[s].pc = "add" =>
                     (g \union call[s].todo) \ Grants = InheritanceRules(lastDefs)
    BY <1>2, EffectiveDoom, EffectiveIsOwn DEF ReachInv, SameCall
  <1>3. ASSUME NEW t \in Threads, ChangeRule(t), call'[t].pc = "cache"
        PROVE  /\ mu' = None /\ ~cut' => g' \ Grants = InheritanceRules(lastDefs')
               /\ \A s \in Threads : call'[s].pc = "add" =>
                     (g' \union call'[s].todo) \ Grants = InheritanceRules(lastDefs')
    <2>0. Effective(t) /\ ~LockAndLoad(t)
      BY <1>3, ChangeForms DEF Effective, LockAndLoad, At
    <2>1. \A rules : (g' \union rules) \ Grants = (g \union rules) \ Grants
      BY <1>3, ChangeForms
    <2>2. g' \ Grants = g \ Grants
      BY <1>3, ChangeForms
    <2>3. UNCHANGED <<mu, lastDefs, cut>>
      BY <1>3, ChangeForms
    <2> QED
      BY <1>2, <1>3, <2>0, <2>1, <2>2, <2>3
  <1>4. ASSUME NEW t \in Threads, UpdateCache(t)
        PROVE  /\ mu' = None /\ ~cut' => g' \ Grants = InheritanceRules(lastDefs')
               /\ \A s \in Threads : call'[s].pc = "add" =>
                     (g' \union call'[s].todo) \ Grants = InheritanceRules(lastDefs')
    <2>1. call[t].pc = "cache" /\ call'[t].pc = "restore"
      BY <1>4, CacheEffect
    <2>2. UNCHANGED <<g, mu, lastDefs, cut>> /\ Effective(t) /\ ~LockAndLoad(t)
      BY <1>4, <2>1 DEF UpdateCache, Effective, LockAndLoad, At
    <2> QED
      BY <1>2, <2>1, <2>2
  <1>5. ASSUME NEW t \in Threads, LockAndLoad(t)
        PROVE  /\ mu' = None /\ ~cut' => g' \ Grants = InheritanceRules(lastDefs')
               /\ \A s \in Threads : call'[s].pc = "add" =>
                     (g' \union call'[s].todo) \ Grants = InheritanceRules(lastDefs')
    <2>1. /\ mu = None /\ mu' = t /\ call'[t].pc = "clear"
          /\ \A s \in Threads \ {t} : call'[s].pc = call[s].pc
      BY <1>5, LockEffect DEF SameCall
    <2> QED
      BY <2>1, ThreadsDiffer, OneReplaces
  <1>6. ASSUME NEW t \in Threads, ClearRules(t)
        PROVE  /\ mu' = None /\ ~cut' => g' \ Grants = InheritanceRules(lastDefs')
               /\ \A s \in Threads : call'[s].pc = "add" =>
                     (g' \union call'[s].todo) \ Grants = InheritanceRules(lastDefs')
    <2>1. PICK r : /\ Becomes(t, r)
                   /\ \/ r.pc = "unlock" /\ UNCHANGED <<g, gTable>>
                      \/ /\ r.pc = "add" /\ g' = {}
                         /\ r.todo = InheritanceRules(lastDefs) \union GrantsIn(cache)
      BY <1>6, ClearEffect
    <2>2. call[t].pc = "clear" /\ UNCHANGED <<mu, lastDefs>>
      BY <1>6 DEF ClearRules, At, cached
    <2>3. mu = t /\ t # None
      BY <2>2, OneReplaces DEF Touching
    <2>4. call'[t] = r /\ \A s \in Threads \ {t} : call'[s].pc # "add"
      BY <2>1, <2>3, BecomesKeeps, OneReplaces
    <2>5. ({} \union (InheritanceRules(lastDefs) \union GrantsIn(cache))) \ Grants = InheritanceRules(lastDefs)
      <3>1. InheritanceRules(lastDefs) \intersect Grants = {}
        BY RulesType DEF BaseInv, InputsOK
      <3> QED
        BY <3>1, CachedGrants
    <2> QED
      BY <2>1, <2>2, <2>3, <2>4, <2>5
  <1>7. ASSUME NEW t \in Threads, AddRule(t)
        PROVE  /\ mu' = None /\ ~cut' => g' \ Grants = InheritanceRules(lastDefs')
               /\ \A s \in Threads : call'[s].pc = "add" =>
                     (g' \union call'[s].todo) \ Grants = InheritanceRules(lastDefs')
    <2>0. Effective(t) /\ call[t].pc = "add" /\ ~LockAndLoad(t) /\ UNCHANGED <<mu, lastDefs>>
      BY <1>7 DEF Effective, AddRule, LockAndLoad, At, cached
    <2>1. PICK r : /\ Becomes(t, r)
                   /\ \/ r.pc = "unlock"
                      \/ g' \union r.todo = g \union call[t].todo
      <3>1. PICK r : /\ Becomes(t, r)
                     /\ \/ r.pc = "unlock" /\ UNCHANGED <<g, gTable>>
                        \/ \E rule \in call[t].todo :
                              /\ r.pc = "add" /\ r.todo = call[t].todo \ {rule}
                              /\ g' = g \union {rule}
        BY <1>7, AddEffect
      <3> QED
        BY <3>1
    <2>3. mu = t /\ t # None
      BY <2>0, OneReplaces DEF Touching
    <2>4. call'[t] = r /\ \A s \in Threads \ {t} : call'[s].pc # "add"
      BY <2>1, <2>3, BecomesKeeps, OneReplaces
    <2> QED
      BY <1>2, <2>0, <2>1, <2>3, <2>4
  <1>8. ASSUME NEW t \in Threads, Unlock(t)
        PROVE  /\ mu' = None /\ ~cut' => g' \ Grants = InheritanceRules(lastDefs')
               /\ \A s \in Threads : call'[s].pc = "add" =>
                     (g' \union call'[s].todo) \ Grants = InheritanceRules(lastDefs')
    <2>1. /\ UNCHANGED <<g, lastDefs>> /\ cut' = call[t].failed
          /\ \/ call[t].pc = "unlock" /\ call[t].failed
             \/ call[t].pc = "add" /\ ~call[t].failed /\ call[t].todo = {}
      BY <1>8, UnlockEffect
    <2>2. PICK r : Becomes(t, r) /\ r.pc # "add"
      <3>1. PICK r : Becomes(t, r) /\ (r.pc \in {"idle", "subscribe", "publish"} \/ r.pc = "down")
        BY <1>8, UnlockEffect
      <3> QED
        BY <3>1
    <2>3. mu = t /\ t # None
      BY <2>1, OneReplaces DEF Touching
    <2>4. call'[t].pc # "add" /\ \A s \in Threads \ {t} : call'[s].pc # "add"
      BY <2>2, <2>3, BecomesKeeps, OneReplaces
    <2>5. Effective(t) /\ ~LockAndLoad(t)
      BY <1>8, <2>1 DEF Effective, LockAndLoad, At
    <2> QED
      BY <1>2, <2>1, <2>4, <2>5
  <1>9. \A t \in Threads : ~Doomed(t)'
    BY DEF NoneDoomed
  <1> QED
    BY <1>1, <1>3, <1>4, <1>5, <1>6, <1>7, <1>8, <1>9, OthersSteady DEF Effective

\* Calls elsewhere do not change whose entry is pending.
LEMMA SyncFrame ==
    ASSUME NEW u, NEW t \in Threads, SyncOf(u), UNCHANGED <<mu, cache>>, u \in g' <=> u \in g,
           \A s \in Threads \ {t} : SameCall(s),
           call[t].pc # "cache" \/ call[t].grant # u, call'[t].pc # "cache" \/ call'[t].grant # u,
           call'[t].pc # "add"
    PROVE  SyncOf(u)'
  <1>1. Pending(u)' = Pending(u) /\ \A s \in Pending(u) : s # t /\ s \in Threads
    BY DEF Pending, SameCall
  <1>2. \A s \in Pending(u) : SameCall(s)
    BY <1>1
  <1>3. Once(cache', u) /\ GrantsIn(cache') = GrantsIn(cache)
    BY DEF SyncOf, Once
  <1>4. \A s \in Threads : call'[s].pc = "add" => SameCall(s)
    OBVIOUS
  <1>5. mu' # None => Pending(u)' = {}
    BY <1>1 DEF SyncOf
  <1>6. mu' = None /\ Pending(u)' = {} => (u \in g' <=> u \in GrantsIn(cache'))
    BY <1>1, <1>3 DEF SyncOf
  <1>7. ASSUME NEW s \in Pending(u)'
        PROVE  /\ Pending(u)' = {s}
               /\ call'[s].op = "assign" => u \in g' /\ u \notin GrantsIn(cache')
               /\ call'[s].op = "revoke" => u \notin g' /\ u \in GrantsIn(cache')
    BY <1>1, <1>2, <1>3, <1>7 DEF SyncOf, SameCall
  <1>8. ASSUME NEW s \in Threads, call'[s].pc = "add"
        PROVE  u \in g' \union call'[s].todo <=> u \in GrantsIn(cache')
    BY <1>3, <1>4, <1>8 DEF SyncOf, SameCall
  <1> QED
    BY <1>3, <1>5, <1>6, <1>7, <1>8 DEF SyncOf

\* With the lock held, the rules to be added count.
LEMMA SyncLocked ==
    ASSUME NEW u, NEW t \in Threads, mu' # None, Once(cache', u), Pending(u)' = {},
           \A s \in Threads \ {t} : call'[s].pc # "add",
           call'[t].pc = "add" => (u \in g' \union call'[t].todo <=> u \in GrantsIn(cache'))
    PROVE  SyncOf(u)'
  BY DEF SyncOf

\* So do steady steps.
LEMMA SyncSteady ==
    ASSUME BaseInv, SyncInv, Steady
    PROVE  SyncInv'
  <1> SUFFICES ASSUME NoneDoomed', NEW u \in Grants \ raced
               PROVE  SyncOf(u)'
    BY DEF SyncInv, Steady
  <1>1. SyncOf(u)
    BY SteadyDoom DEF SyncInv
  <1>2. UNCHANGED <<g, mu, cache>>
    BY DEF Steady
  <1>3. /\ \A s \in Threads : call'[s].pc = "cache" => call'[s] = call[s]
        /\ \A s \in Threads : call[s].pc = "cache" => call'[s] = call[s]
        /\ \A s \in Threads : call'[s].pc = "add" => call'[s] = call[s]
    BY DEF Steady, StaysAway, Touching
  <1>4. Pending(u)' = Pending(u) /\ \A s \in Pending(u) : call'[s] = call[s]
    BY <1>3 DEF Pending
  <1>5. Once(cache', u) /\ GrantsIn(cache') = GrantsIn(cache)
    BY <1>1, <1>2 DEF SyncOf, Once
  <1>6. ASSUME NEW s \in Pending(u)'
        PROVE  /\ Pending(u)' = {s}
               /\ call'[s].op = "assign" => u \in g' /\ u \notin GrantsIn(cache')
               /\ call'[s].op = "revoke" => u \notin g' /\ u \in GrantsIn(cache')
    BY <1>1, <1>2, <1>4, <1>5, <1>6 DEF SyncOf
  <1>7. ASSUME NEW s \in Threads, call'[s].pc = "add"
        PROVE  u \in g' \union call'[s].todo <=> u \in GrantsIn(cache')
    BY <1>1, <1>2, <1>3, <1>5, <1>7 DEF SyncOf
  <1>8. mu' # None => Pending(u)' = {}
    BY <1>1, <1>2, <1>4 DEF SyncOf
  <1>9. mu' = None /\ Pending(u)' = {} => (u \in g' <=> u \in GrantsIn(cache'))
    BY <1>1, <1>2, <1>4, <1>5 DEF SyncOf
  <1> QED
    BY <1>5, <1>6, <1>7, <1>8, <1>9 DEF SyncOf

\* A call that changes a rule without being contended leaves its own grant to
\* itself, until it has changed the list.
LEMMA SyncChange ==
    ASSUME BaseInv, RebuildsExclude, SyncInv, NEW t \in Threads, ChangeRule(t),
           call'[t].pc = "cache", NoneDoomed', NEW v \in Grants \ raced'
    PROVE  SyncOf(v)'
  <1> DEFINE u == call[t].grant
  <1>1. /\ u \in Grants /\ call[t].pc = "rule" /\ call[t].op \in {"assign", "revoke"}
        /\ call'[t].grant = u /\ call'[t].op = call[t].op
        /\ \/ call[t].op = "assign" /\ u \notin g /\ g' = g \union {u}
           \/ call[t].op = "revoke" /\ u \in g /\ g' = g \ {u}
        /\ raced' = IF Contended(t, u) THEN raced \union {u} ELSE raced
        /\ UNCHANGED <<mu, cache>>
    BY ChangeForms
  <1>2. Effective(t) /\ ~LockAndLoad(t)
    BY <1>1 DEF Effective, LockAndLoad, At
  <1>3. NoneDoomed /\ \A s \in Threads \ {t} : SameCall(s)
    BY <1>2, EffectiveDoom, EffectiveIsOwn
  <1>4. SyncOf(v)
    BY <1>1, <1>3 DEF SyncInv
  <1>5. CASE v # u
    <2>1. v \in g' <=> v \in g
      BY <1>1, <1>5
    <2> QED
      BY <1>1, <1>3, <1>4, <1>5, <2>1, SyncFrame
  <1>6. CASE v = u
    <2>1. ~Contended(t, u)
      BY <1>1, <1>6
    <2>2. \A s \in Threads \ {t} : /\ ~(call[s].pc = "cache" /\ call[s].grant = u)
                                   /\ call[s].pc \notin {"clear", "add", "unlock"}
      BY <2>1 DEF Contended, At
    <2>3. mu = None
      BY <1>1, <2>2 DEF RebuildsExclude, BaseInv, MarksOK
    <2>4. Pending(v) = {}
      BY <1>1, <1>6, <2>2 DEF Pending
    <2>5. Pending(v)' = {t}
      BY <1>1, <1>3, <1>6, <2>2 DEF Pending, SameCall
    <2>6. Once(cache', v) /\ (v \in g <=> v \in GrantsIn(cache)) /\ GrantsIn(cache') = GrantsIn(cache)
      BY <1>1, <1>4, <2>3, <2>4 DEF SyncOf, Once
    <2>7. \A s \in Threads : call'[s].pc # "add"
      BY <1>3, <2>2 DEF SameCall
    <2>8. /\ call'[t].op = "assign" => v \in g' /\ v \notin GrantsIn(cache')
          /\ call'[t].op = "revoke" => v \notin g' /\ v \in GrantsIn(cache')
      BY <1>1, <1>6, <2>6
    <2> QED
      BY <1>1, <2>3, <2>5, <2>6, <2>7, <2>8 DEF SyncOf
  <1> QED
    BY <1>5, <1>6

\* Then list and enforcer agree on it.
LEMMA SyncUpdate ==
    ASSUME BaseInv, RebuildsExclude, SyncInv, NEW t \in Threads, UpdateCache(t), NoneDoomed',
           NEW v \in Grants \ raced'
    PROVE  SyncOf(v)'
  <1> DEFINE u == call[t].grant
  <1>1. /\ call[t].pc = "cache" /\ mu = None /\ call[t].op \in {"assign", "revoke"} /\ u \in Grants
        /\ cache' = IF call[t].op = "assign" THEN Append(cache, u) ELSE filterAssignment(cache, u)
        /\ raced' \in {raced, Grants}
        /\ call'[t].pc = "restore" /\ call'[t].op = call[t].op
        /\ \A s \in Threads \ {t} : SameCall(s)
        /\ UNCHANGED <<g, mu>>
    BY CacheEffect DEF UpdateCache
  <1>2. Effective(t) /\ ~LockAndLoad(t)
    BY <1>1 DEF Effective, LockAndLoad, At
  <1>3. SyncOf(v) /\ v \notin raced
    BY <1>1, <1>2, EffectiveDoom DEF SyncInv
  <1>4. \A s \in Threads : call[s].pc # "add" /\ call'[s].pc # "add"
    BY <1>1, OneReplaces DEF SameCall
  <1>5. cache \in Seq(Grants)
    BY DEF BaseInv, InputsOK
  <1>6. CASE v # u
    <2>1. Pending(v)' = Pending(v) /\ \A s \in Pending(v) : SameCall(s)
      BY <1>1, <1>6 DEF Pending, SameCall
    <2>2. Once(cache', v) /\ (v \in GrantsIn(cache') <=> v \in GrantsIn(cache))
      <3>1. Once(cache, v)
        BY <1>3 DEF SyncOf
      <3>2. CASE call[t].op = "assign"
        BY <1>1, <1>5, <1>6, <3>1, <3>2, AppendFacts
      <3>3. CASE call[t].op # "assign"
        <4>1. cache' = cache \/ \E k \in 1..Len(cache) : cache[k] = u /\ cache' = Cut(cache, k)
          BY <1>1, <1>5, <3>3, RemovedFirst
        <4>2. CASE cache' = cache
          BY <3>1, <4>2 DEF Once
        <4>3. ASSUME NEW k \in 1..Len(cache), cache[k] = u, cache' = Cut(cache, k)
              PROVE  Once(cache', v) /\ (v \in GrantsIn(cache') <=> v \in GrantsIn(cache))
          BY <1>5, <1>6, <3>1, <4>3, CutFacts
        <4> QED
          BY <4>1, <4>2, <4>3
      <3> QED
        BY <3>2, <3>3
    <2>3. ASSUME NEW s \in Pending(v)'
          PROVE  /\ Pending(v)' = {s}
                 /\ call'[s].op = "assign" => v \in g' /\ v \notin GrantsIn(cache')
                 /\ call'[s].op = "revoke" => v \notin g' /\ v \in GrantsIn(cache')
      BY <1>1, <1>3, <2>1, <2>2, <2>3 DEF SyncOf, SameCall
    <2>4. Pending(v)' = {} => (v \in g' <=> v \in GrantsIn(cache'))
      BY <1>1, <1>3, <2>1, <2>2 DEF SyncOf
    <2> QED
      BY <1>1, <1>4, <2>2, <2>3, <2>4 DEF SyncOf
  <1>7. CASE v = u
    <2>1. t \in Pending(v)
      BY <1>1, <1>7 DEF Pending
    <2>2. /\ Pending(v) = {t} /\ Once(cache, v)
          /\ call[t].op = "assign" => v \in g /\ v \notin GrantsIn(cache)
          /\ call[t].op = "revoke" => v \notin g /\ v \in GrantsIn(cache)
      BY <1>3, <2>1 DEF SyncOf
    <2>3. Pending(v)' = {}
      BY <1>1, <2>2 DEF Pending, SameCall
    <2>4. Once(cache', v) /\ (v \in g' <=> v \in GrantsIn(cache'))
      <3>1. CASE call[t].op = "assign"
        BY <1>1, <1>5, <1>7, <2>2, <3>1, AppendFacts
      <3>2. CASE call[t].op = "revoke"
        <4>1. PICK k \in 1..Len(cache) : cache[k] = u /\ cache' = Cut(cache, k)
          BY <1>1, <1>5, <1>7, <2>2, <3>2, RemovedFirst
        <4> QED
          BY <1>1, <1>5, <1>7, <2>2, <3>2, <4>1, CutFacts
      <3> QED
        BY <1>1, <3>1, <3>2
    <2> QED
      BY <1>1, <1>4, <2>3, <2>4 DEF SyncOf
  <1> QED
    BY <1>6, <1>7

\* A rebuild begins with the list it brings: the grants that are not marked
\* are in it once or not at all, and no call is about to change their entry.
LEMMA SyncLock ==
    ASSUME BaseInv, RebuildsExclude, NEW t \in Threads, LockAndLoad(t), NEW v \in Grants \ raced'
    PROVE  SyncOf(v)'
  <1>1. /\ mu = None /\ mu' = t /\ cache' = Brought(t) /\ Brought(t) \in Seq(Grants)
        /\ v \notin Unfinished /\ v \notin Repeated(Brought(t))
        /\ call[t].pc = "lock" /\ call'[t].pc = "clear" /\ \A s \in Threads \ {t} : SameCall(s)
    BY LockEffect
  <1>2. Once(cache', v)
    <2> SUFFICES ASSUME NEW i \in DOMAIN cache', NEW j \in DOMAIN cache', cache'[i] = v, cache'[j] = v, i # j
                 PROVE  FALSE
      BY DEF Once
    <2> DEFINE list == Brought(t)
    <2>0. cache' = list /\ list \in Seq(Grants) /\ v \notin Repeated(list)
      BY <1>1
    <2> HIDE DEF list
    <2>1. i \in 1..Len(list) /\ j \in 1..Len(list) /\ Len(list) \in Nat /\ DOMAIN list = 1..Len(list)
      BY <2>0
    <2>2. i \in 1..(j - 1) \/ j \in 1..(i - 1)
      BY <2>1
    <2>3. CASE i \in 1..(j - 1)
      BY <2>0, <2>1, <2>3 DEF Repeated
    <2>4. CASE j \in 1..(i - 1)
      BY <2>0, <2>1, <2>4 DEF Repeated
    <2> QED
      BY <2>2, <2>3, <2>4
  <1>3. Pending(v)' = {}
    BY <1>1 DEF Pending, SameCall, Unfinished, At
  <1>4. \A s \in Threads : call'[s].pc # "add"
    BY <1>1, OneReplaces DEF SameCall
  <1> QED
    BY <1>1, <1>2, <1>3, <1>4, ThreadsDiffer, SyncLocked

\* What it adds is in the list, and the other way round.
LEMMA SyncRebuild ==
    ASSUME BaseInv, RebuildsExclude, SyncInv, NEW t \in Threads, ClearRules(t) \/ AddRule(t),
           NoneDoomed', NEW v \in Grants \ raced'
    PROVE  SyncOf(v)'
  <1>1. /\ call[t].pc \in {"clear", "add"} /\ UNCHANGED <<mu, cache, lastDefs, raced>>
    BY DEF ClearRules, AddRule, At, cached, ghosts
  <1>2. Effective(t) /\ ~LockAndLoad(t)
    BY <1>1 DEF Effective, LockAndLoad, At
  <1>3. SyncOf(v) /\ \A s \in Threads \ {t} : SameCall(s)
    BY <1>1, <1>2, EffectiveDoom, EffectiveIsOwn DEF SyncInv
  <1>4. mu = t /\ t # None /\ \A s \in Threads \ {t} : call'[s].pc # "add"
    BY <1>1, <1>3, OneReplaces DEF Touching, SameCall
  <1>5. Pending(v) = {} /\ Once(cache', v) /\ GrantsIn(cache') = GrantsIn(cache)
    BY <1>1, <1>3, <1>4 DEF SyncOf, Once
  <1>6. PICK r : /\ Becomes(t, r)
                 /\ \/ r.pc = "unlock"
                    \/ r.pc = "add" /\ (v \in g' \union r.todo <=> v \in GrantsIn(cache))
    <2>1. CASE ClearRules(t)
      <3>1. PICK r : /\ Becomes(t, r)
                     /\ \/ r.pc = "unlock" /\ UNCHANGED <<g, gTable>>
                        \/ /\ r.pc = "add" /\ g' = {}
                           /\ r.todo = InheritanceRules(lastDefs) \union GrantsIn(cache)
        BY <2>1, ClearEffect
      <3>2. v \notin InheritanceRules(lastDefs)
        BY RulesType DEF BaseInv, InputsOK
      <3> QED
        BY <3>1, <3>2
    <2>2. CASE AddRule(t)
      <3>1. PICK r : /\ Becomes(t, r)
                     /\ \/ r.pc = "unlock" /\ UNCHANGED <<g, gTable>>
                        \/ \E rule \in call[t].todo :
                              /\ r.pc = "add" /\ r.todo = call[t].todo \ {rule}
                              /\ g' = g \union {rule}
        BY <2>2, AddEffect
      <3>2. call[t].pc = "add"
        BY <2>2 DEF AddRule, At
      <3>3. v \in g \union call[t].todo <=> v \in GrantsIn(cache)
        BY <1>3, <3>2 DEF SyncOf
      <3> QED
        BY <3>1, <3>3
    <2> QED
      BY <2>1, <2>2
  <1>7. call'[t] = r
    BY <1>6, BecomesKeeps
  <1>8. Pending(v)' = {}
    BY <1>3, <1>5, <1>6, <1>7 DEF Pending, SameCall
  <1>9. call'[t].pc = "add" => (v \in g' \union call'[t].todo <=> v \in GrantsIn(cache'))
    BY <1>5, <1>6, <1>7
  <1> QED
    BY <1>1, <1>4, <1>5, <1>8, <1>9, SyncLocked

\* When it is through all of it is in the enforcer.
LEMMA SyncUnlock ==
    ASSUME BaseInv, RebuildsExclude, SyncInv, NEW t \in Threads, Unlock(t),
           NoneDoomed', NEW v \in Grants \ raced'
    PROVE  SyncOf(v)'
  <1>1. /\ mu' = None /\ UNCHANGED <<g, cache>>
        /\ raced' = raced /\ call[t].pc = "add" /\ call[t].todo = {}
    <2>1. /\ mu' = None /\ UNCHANGED <<g, lastDefs, cache>>
          /\ raced' = IF call[t].failed THEN Grants ELSE raced
          /\ \/ call[t].pc = "unlock" /\ call[t].failed
             \/ call[t].pc = "add" /\ ~call[t].failed /\ call[t].todo = {}
      BY UnlockEffect
    <2> QED
      BY <2>1
  <1>2. Effective(t) /\ ~LockAndLoad(t)
    BY <1>1 DEF Effective, LockAndLoad, At
  <1>3. SyncOf(v) /\ \A s \in Threads \ {t} : SameCall(s)
    BY <1>1, <1>2, EffectiveDoom, EffectiveIsOwn DEF SyncInv
  <1>4. mu = t /\ t # None /\ \A s \in Threads \ {t} : call'[s].pc # "add"
    BY <1>1, <1>3, OneReplaces DEF Touching, SameCall
  <1>5. call'[t].pc # "add" /\ call'[t].pc # "cache"
    <2>1. PICK r : Becomes(t, r) /\ (r.pc \in {"idle", "subscribe", "publish"} \/ r.pc = "down")
      BY UnlockEffect
    <2> QED
      BY <2>1, BecomesKeeps
  <1>6. Pending(v) = {} /\ Once(cache', v) /\ GrantsIn(cache') = GrantsIn(cache)
        /\ (v \in g <=> v \in GrantsIn(cache))
    BY <1>1, <1>3, <1>4 DEF SyncOf, Once
  <1>7. Pending(v)' = {}
    BY <1>3, <1>5, <1>6 DEF Pending, SameCall
  <1> QED
    BY <1>1, <1>4, <1>5, <1>6, <1>7 DEF SyncOf

\* Enforcer and cached list stay in step on all grants that are not marked.
LEMMA SyncKept ==
    ASSUME BaseInv, RebuildsExclude, SyncInv, [Next]_vars
    PROVE  SyncInv'
  <1>1. CASE Steady
    BY <1>1, SyncSteady
  <1>2. ASSUME NEW t \in Threads, Doomed(t)'
        PROVE  SyncInv'
    BY <1>2 DEF SyncInv, NoneDoomed
  <1>3. ASSUME NEW t \in Threads, Effective(t)
        PROVE  SyncInv'
    <2> SUFFICES ASSUME NoneDoomed', NEW v \in Grants \ raced'
                 PROVE  SyncOf(v)'
      BY DEF SyncInv
    <2> QED
      BY <1>3, SyncChange, SyncUpdate, SyncLock, SyncRebuild, SyncUnlock DEF Effective
  <1> QED
    BY <1>1, <1>2, <1>3, OthersSteady

-----------------------------------------------------------------------------
(* A rebuild that nothing disturbs *)

\* Neither a current rebuild nor the claim that the instance is current.
NothingFresh == ~clean /\ \A t \in Threads : ~Fresh(t)

\* Then there is nothing to show.
LEMMA NothingToKeep == NothingFresh' => HealInv'
  BY DEF NothingFresh, HealInv, FreshInv, CleanInv, RulesInv

\* A call that is not calm rules out both, but for a rebuild of its own.
LEMMA NotCalm ==
    ASSUME HealInv, NEW t \in Threads, ~Calm(t)
    PROVE  ~clean /\ \A s \in Threads \ {t} : ~Fresh(s)
  BY DEF HealInv, FreshInv, CleanInv

\* When such a call ends, or goes on without inputs, nothing is current.
LEMMA DisturbedStays ==
    ASSUME BaseInv, HealInv, NEW t \in Threads, ~Calm(t), UNCHANGED <<clean, db>>,
           \A s \in Threads \ {t} : call'[s].op = call[s].op /\ call'[s].asOf = call[s].asOf,
           call'[t].op # "rebuild" \/ call'[t].asOf = None
    PROVE  HealInv'
  <1>1. ~clean' /\ \A s \in Threads \ {t} : ~Fresh(s)'
    BY NotCalm DEF Fresh
  <1>2. db.commits \in 0..MaxCommits /\ None \notin 0..MaxCommits
    BY AuthzAssumption DEF BaseInv, WorldOK
  <1>3. ~Fresh(t)'
    BY <1>2 DEF Fresh
  <1> QED
    BY <1>1, <1>3, NothingToKeep DEF NothingFresh

\* For instance with a step of its own.
LEMMA DisturbedCall ==
    ASSUME BaseInv, HealInv, NEW t \in Threads, NEW r, Becomes(t, r), ~Calm(t),
           UNCHANGED <<clean, db>>, r.op # "rebuild" \/ r.asOf = None
    PROVE  HealInv'
  <1>1. call'[t] = r /\ \A s \in Threads \ {t} : call'[s] = call[s]
    BY BecomesKeeps
  <1> QED
    BY <1>1, DisturbedStays

\* A commit outdates everything.
LEMMA CommitOutdates ==
    ASSUME BaseInv, NEW grants, NEW defs, Commit(grants, defs),
           \/ UNCHANGED call
           \/ \E t \in Threads : \E r : Becomes(t, r) /\ r.asOf = None
    PROVE  HealInv'
  <1>1. db.commits \in 0..MaxCommits /\ db'.commits = db.commits + 1 /\ clean' = FALSE
    BY DEF Commit, BaseInv, WorldOK
  <1>2. \A s \in Threads : call'[s].asOf = None \/ call'[s] = call[s]
    <2>1. CASE UNCHANGED call
      BY <2>1
    <2>2. CASE \E t \in Threads : \E r : Becomes(t, r) /\ r.asOf = None
      <3>1. PICK t \in Threads : \E r : Becomes(t, r) /\ r.asOf = None
        BY <2>2
      <3>2. PICK r : Becomes(t, r) /\ r.asOf = None
        BY <3>1
      <3> QED
        BY <3>2, BecomesKeeps
    <2> QED
      BY <2>1, <2>2
  <1>3. ASSUME NEW s \in Threads
        PROVE  ~Fresh(s)'
    <2>1. CASE call'[s].asOf = None
      <3>1. db'.commits \in Nat /\ db'.commits \in 0..MaxCommits
        BY <1>1, AuthzAssumption DEF Commit
      <3> QED
        BY <2>1, <3>1, AuthzAssumption DEF Fresh
    <2>2. CASE call'[s] = call[s] /\ call[s].asOf # None
      <3>1. call[s].asOf \in 0..MaxCommits /\ call[s].asOf <= db.commits
        <4>1. call[s] \in Call
          BY DEF BaseInv, CallsOK
        <4>2. call[s].asOf \in (0..MaxCommits) \union {None}
          BY <4>1, CallFields
        <4> QED
          BY <2>2, <4>2 DEF BaseInv, AsOfKnown
      <3>2. call[s].asOf # db'.commits
        BY <1>1, <3>1
      <3> QED
        BY <2>2, <3>2 DEF Fresh
    <2> QED
      BY <1>2, <2>1, <2>2
  <1> QED
    BY <1>1, <1>3, NothingToKeep DEF NothingFresh

\* An event that is about to arrive, or to be handled, belongs to this instance
\* if anything is current.
LEMMA EventsOnTheirWay ==
    ASSUME HealInv, ~CalmBus
    PROVE  NothingFresh
  BY DEF HealInv, FreshInv, CleanInv, NothingFresh

\* Nothing but the bus and the policies changes, and the bus stays calm.
LEMMA HealFrame ==
    ASSUME HealInv, UNCHANGED <<db, g, mu, lastDefs, cache, clean, call>>, CalmBus => CalmBus'
    PROVE  HealInv'
  <1>1. \A s \in Threads : /\ Fresh(s)' <=> Fresh(s)
                           /\ Calm(s)' <=> Calm(s)
                           /\ BringsCurrent(s)' <=> BringsCurrent(s)
                           /\ Doomed(s)' <=> Doomed(s)
    BY DEF Fresh, Calm, BringsCurrent, Doomed, GrantsIn
  <1>2. InputsCurrent' <=> InputsCurrent
    BY DEF InputsCurrent, GrantsIn
  <1>4. NoneDoomed' <=> NoneDoomed
    BY <1>1 DEF NoneDoomed
  <1>5. FreshInv' /\ CleanInv'
    BY <1>1, <1>2 DEF HealInv, FreshInv, CleanInv
  <1>6. RulesInv'
    <2>1. (Complete(g))' <=> Complete(g)
      BY DEF Complete, GrantsIn
    <2>2. \A s \in Threads : (Complete(g \union call[s].todo))' <=> Complete(g \union call[s].todo)
      BY DEF Complete, GrantsIn
    <2> QED
      BY <1>1, <1>4, <2>1, <2>2 DEF HealInv, RulesInv
  <1> QED
    BY <1>5, <1>6 DEF HealInv

\* A calm call goes on; it waits for the lock only with the cached inputs.
LEMMA CalmStep ==
    ASSUME BaseInv, HealInv, NEW t \in Threads, NEW r, Becomes(t, r), Calm(t),
           r.op \in {"none", "policy"}, t = Boot => r.pc \in {"idle", "subscribe", "down"},
           r.pc = "lock" => r.defs = lastDefs /\ r.list = cache,
           UNCHANGED <<db, lastDefs, cache, clean>>, CalmBus => CalmBus',
           \/ ~NoneDoomed'
           \/ UNCHANGED <<g, mu>> /\ r.pc # "add" /\ (NoneDoomed' => NoneDoomed)
    PROVE  HealInv'
  <1>1. call'[t] = r /\ \A s \in Threads \ {t} : call'[s] = call[s]
    BY BecomesKeeps
  <1>2. ~Fresh(t)' /\ \A s \in Threads \ {t} : Fresh(s)' <=> Fresh(s)
    BY <1>1 DEF Fresh
  <1>3. Calm(t)' /\ \A s \in Threads \ {t} : Calm(s)' <=> Calm(s)
    BY <1>1 DEF Calm
  <1>4. InputsCurrent' <=> InputsCurrent
    BY DEF InputsCurrent, GrantsIn
  <1>5. \A s \in Threads \ {t} : BringsCurrent(s)' <=> BringsCurrent(s)
    BY <1>1 DEF BringsCurrent, GrantsIn
  <1>6. InputsCurrent => BringsCurrent(t)'
    BY <1>1 DEF BringsCurrent, InputsCurrent, GrantsIn
  <1>7. FreshInv'
    BY <1>1, <1>2, <1>3, <1>4, <1>5 DEF HealInv, FreshInv
  <1>8. CleanInv'
    BY <1>1, <1>2, <1>3, <1>4, <1>5, <1>6 DEF HealInv, CleanInv
  <1>9. RulesInv'
    <2>1. CASE ~NoneDoomed'
      BY <2>1 DEF RulesInv
    <2>2. CASE UNCHANGED <<g, mu>> /\ r.pc # "add" /\ (NoneDoomed' => NoneDoomed)
      <3>1. (Complete(g))' <=> Complete(g)
        BY <2>2 DEF Complete, GrantsIn
      <3>2. \A s \in Threads \ {t} : (Complete(g \union call[s].todo))' <=> Complete(g \union call[s].todo)
        BY <1>1, <2>2 DEF Complete, GrantsIn
      <3> QED
        BY <1>1, <1>2, <2>2, <3>1, <3>2 DEF HealInv, RulesInv
    <2> QED
      BY <2>1, <2>2
  <1> QED
    BY <1>7, <1>8, <1>9 DEF HealInv

\* A rebuild is alone in being current.
LEMMA FreshAlone ==
    ASSUME NEW t \in Threads, ~clean', \A s \in Threads \ {t} : ~Fresh(s)',
           Fresh(t)' => /\ CalmBus' /\ \A s \in Threads \ {t} : Calm(s)'
                        /\ call'[t].defs = db'.defs /\ BringsCurrent(t)'
                        /\ call'[t].pc \in {"clear", "add"} => InputsCurrent',
           call'[t].pc # "add"
    PROVE  HealInv'
  <1>1. FreshInv' /\ CleanInv'
    BY DEF FreshInv, CleanInv
  <1>2. RulesInv'
    BY DEF RulesInv
  <1> QED
    BY <1>1, <1>2 DEF HealInv

\* The rebuild reads the database when nothing disturbs it, or is not current.
LEMMA HealLists ==
    ASSUME BaseInv, HealInv, NEW t \in Threads, ListRoles(t) \/ ListAllAssignments(t)
    PROVE  HealInv'
  <1>0. Sane(t, call[t]) /\ call[t] \in Call
    BY DEF BaseInv, CallsOK
  <1>1. UNCHANGED <<db, unsent, queue, clean>>
    BY DEF ListRoles, ListAllAssignments, world, bus, ghosts
  <1>2. ~Calm(t)
    BY <1>0 DEF ListRoles, ListAllAssignments, At, Sane, Calm
  <1>3. ~clean' /\ \A s \in Threads \ {t} : ~Fresh(s)
    BY <1>1, <1>2, NotCalm
  <1>4. CASE ListRoles(t)
    <2>1. PICK r : /\ Becomes(t, r)
                   /\ \/ GivesUp(r, t)
                      \/ /\ r.pc = IF call[t].op = "registry" THEN "lock" ELSE "assignments"
                         /\ r.op = call[t].op /\ r.defs = db.defs
                         /\ r.asOf = IF Undisturbed(t) THEN db.commits ELSE None
      BY <1>4, ListRolesEffect
    <2>2. CASE r.op # "rebuild" \/ r.asOf = None
      BY <1>1, <1>2, <2>1, <2>2, DisturbedCall
    <2>3. CASE r.op = "rebuild" /\ r.asOf # None
      <3>1. r.pc = "assignments" /\ Undisturbed(t) /\ r.defs = db.defs
        BY <2>1, <2>3 DEF GivesUp, Waits
      <3>2. call'[t] = r /\ \A s \in Threads \ {t} : call'[s] = call[s]
        BY <2>1, BecomesKeeps
      <3>3. CalmBus'
        BY <1>1, <3>1 DEF Undisturbed, CalmBus
      <3>4. \A s \in Threads \ {t} : Calm(s)'
        <4>1. \A s \in Threads \ {t} : call[s].pc = "idle" /\ Sane(s, call[s])
          BY <3>1 DEF Undisturbed, InFlight, At, BaseInv, CallsOK
        <4> QED
          BY <3>2, <4>1 DEF Sane, Calm
      <3>5. BringsCurrent(t)' /\ call'[t].pc \notin {"clear", "add"} /\ call'[t].defs = db'.defs
        BY <1>1, <3>1, <3>2 DEF BringsCurrent
      <3>6. \A s \in Threads \ {t} : ~Fresh(s)'
        BY <1>1, <1>3, <3>2 DEF Fresh
      <3> QED
        BY <1>3, <3>3, <3>4, <3>5, <3>6, FreshAlone
    <2> QED
      BY <2>2, <2>3
  <1>5. CASE ListAllAssignments(t)
    <2>1. PICK r : /\ Becomes(t, r)
                   /\ \/ GivesUp(r, t)
                      \/ /\ r.pc = "lock" /\ r.op = "rebuild" /\ r.defs = call[t].defs
                         /\ r.asOf = call[t].asOf /\ GrantsIn(r.list) = db.grants
      BY <1>5, ListAssignmentsEffect
    <2>2. CASE GivesUp(r, t)
      BY <1>1, <1>2, <2>1, <2>2, DisturbedCall DEF GivesUp, Waits
    <2>3. CASE ~GivesUp(r, t)
      <3>1. call'[t] = r /\ \A s \in Threads \ {t} : call'[s] = call[s]
        BY <2>1, BecomesKeeps
      <3>2. call[t].op = "rebuild"
        BY <1>5, ListAssignmentsEffect
      <3>3. Fresh(t)' => Fresh(t)
        BY <1>1, <2>1, <2>3, <3>1, <3>2 DEF Fresh
      <3>4. \A s \in Threads \ {t} : ~Fresh(s)' /\ (Calm(s)' <=> Calm(s))
        BY <1>1, <1>3, <3>1 DEF Fresh, Calm
      <3>5. Fresh(t) => CalmBus /\ (\A s \in Threads \ {t} : Calm(s)) /\ call[t].defs = db.defs
        BY DEF HealInv, FreshInv
      <3>6. CalmBus' <=> CalmBus
        BY <1>1 DEF CalmBus
      <3>7. call[t].defs = db.defs => call'[t].defs = db'.defs /\ BringsCurrent(t)'
        BY <1>1, <2>1, <2>3, <3>1 DEF BringsCurrent, GrantsIn
      <3>8. call'[t].pc \notin {"clear", "add"}
        BY <2>1, <2>3, <3>1
      <3> QED
        BY <1>3, <3>3, <3>4, <3>5, <3>6, <3>7, <3>8, FreshAlone
    <2> QED
      BY <2>2, <2>3
  <1> QED
    BY <1>4, <1>5

\* It takes the lock with what it has read; ReloadPolicy with what is cached.
LEMMA HealLock ==
    ASSUME BaseInv, RebuildsExclude, HealInv, NEW t \in Threads, LockAndLoad(t)
    PROVE  HealInv'
  <1>0. Sane(t, call[t])
    BY DEF BaseInv, CallsOK
  <1>1. /\ call[t].pc = "lock" /\ mu = None /\ mu' = t
        /\ lastDefs' = call[t].defs /\ cache' = Brought(t)
        /\ call'[t].pc = "clear" /\ call'[t].op = call[t].op /\ call'[t].asOf = call[t].asOf
        /\ call'[t].defs = call[t].defs
        /\ \A s \in Threads \ {t} : SameCall(s) /\ call'[s].list = call[s].list
    BY LockEffect
  <1>2. UNCHANGED <<db, unsent, queue, clean>>
    BY DEF LockAndLoad, world, bus
  <1>3. call[t].op \in {"rebuild", "registry", "policy"}
    BY <1>0, <1>1 DEF Sane
  <1>4. CalmBus' <=> CalmBus
    BY <1>2 DEF CalmBus
  <1>5. /\ \A s \in Threads : Fresh(s)' <=> Fresh(s)
        /\ \A s \in Threads \ {t} : Calm(s)' <=> Calm(s)
        /\ \A s \in Threads \ {t} : BringsCurrent(s)' <=> BringsCurrent(s)
    BY <1>1, <1>2 DEF Fresh, Calm, BringsCurrent, SameCall, GrantsIn
  <1>6. BringsCurrent(t)'
    BY <1>1 DEF BringsCurrent
  <1>7. call[t].op # "registry" /\ BringsCurrent(t) => InputsCurrent'
    BY <1>1, <1>2 DEF BringsCurrent, InputsCurrent, Brought, GrantsIn
  <1>8. CASE call[t].op # "policy"
    <2>1. ~Calm(t)
      BY <1>3, <1>8 DEF Calm
    <2>2. ~clean' /\ \A s \in Threads \ {t} : ~Fresh(s)'
      BY <1>2, <1>5, <2>1, NotCalm
    <2>3. Fresh(t) => /\ CalmBus /\ \A s \in Threads \ {t} : Calm(s)
                      /\ call[t].defs = db.defs /\ BringsCurrent(t) /\ call[t].op # "registry"
      BY DEF HealInv, FreshInv, Fresh
    <2>4. Fresh(t)' => /\ CalmBus' /\ \A s \in Threads \ {t} : Calm(s)'
                       /\ call'[t].defs = db'.defs /\ BringsCurrent(t)'
                       /\ call'[t].pc \in {"clear", "add"} => InputsCurrent'
      BY <1>1, <1>2, <1>4, <1>5, <1>6, <1>7, <2>3
    <2> QED
      BY <1>1, <2>2, <2>4, FreshAlone
  <1>9. CASE call[t].op = "policy"
    <2>0. t # Boot
      BY <1>0, <1>1, <1>9 DEF Sane
    <2>1. Calm(t) /\ Calm(t)' /\ ~Fresh(t)
      BY <1>1, <1>9, <2>0 DEF Calm, Fresh
    <2>2. \A s \in Threads \ {t} : call'[s].pc \notin {"clear", "add"}
      BY <1>1, OneReplaces DEF SameCall
    <2>3. FreshInv'
      <3> SUFFICES ASSUME NEW s \in Threads, Fresh(s)'
                   PROVE  /\ CalmBus' /\ \A q \in Threads \ {s} : Calm(q)'
                          /\ call'[s].defs = db'.defs /\ BringsCurrent(s)'
                          /\ call'[s].pc \in {"clear", "add"} => InputsCurrent'
        BY DEF FreshInv
      <3>1. Fresh(s) /\ s # t
        BY <1>5, <2>1
      <3>2. /\ CalmBus /\ \A q \in Threads \ {s} : Calm(q)
            /\ call[s].defs = db.defs /\ BringsCurrent(s)
        BY <3>1 DEF HealInv, FreshInv
      <3>3. call'[s].defs = call[s].defs
        BY <1>1, <3>1 DEF SameCall
      <3> QED
        BY <1>2, <1>4, <1>5, <2>1, <2>2, <3>1, <3>2, <3>3
    <2>4. CleanInv'
      BY <1>2, <1>4, <1>5, <1>6, <1>7, <1>9, <2>1 DEF HealInv, CleanInv
    <2>5. RulesInv'
      BY <1>1, <2>2, ThreadsDiffer DEF RulesInv
    <2> QED
      BY <2>3, <2>4, <2>5 DEF HealInv
  <1> QED
    BY <1>8, <1>9

\* It replaces the rules by all that its inputs say.
LEMMA HealRebuild ==
    ASSUME BaseInv, RebuildsExclude, HealInv, NEW t \in Threads, ClearRules(t) \/ AddRule(t)
    PROVE  HealInv'
  <1>1. /\ call[t].pc \in {"clear", "add"}
        /\ UNCHANGED <<db, unsent, queue, mu, lastDefs, cache, clean>>
    BY DEF ClearRules, AddRule, At, world, bus, cached, ghosts
  <1>2. Effective(t) /\ ~LockAndLoad(t)
    BY <1>1 DEF Effective, LockAndLoad, At
  <1>3. PICK r : /\ Becomes(t, r) /\ r.op = call[t].op /\ r.asOf = call[t].asOf
                 /\ r.defs = call[t].defs
                 /\ \/ r.pc = "unlock"
                    \/ /\ r.pc = "add" /\ call[t].pc = "clear"
                       /\ g' \union r.todo = InheritanceRules(lastDefs) \union GrantsIn(cache)
                    \/ /\ r.pc = "add" /\ call[t].pc = "add"
                       /\ g' \union r.todo = g \union call[t].todo
    <2>1. CASE ClearRules(t)
      <3>1. PICK r : /\ Becomes(t, r) /\ r.op = call[t].op /\ r.asOf = call[t].asOf
                     /\ r.defs = call[t].defs
                     /\ \/ r.pc = "unlock" /\ UNCHANGED <<g, gTable>>
                        \/ /\ r.pc = "add" /\ g' = {}
                           /\ r.todo = InheritanceRules(lastDefs) \union GrantsIn(cache)
        BY <2>1, ClearEffect
      <3>2. call[t].pc = "clear"
        BY <2>1 DEF ClearRules, At
      <3> QED
        BY <3>1, <3>2
    <2>2. CASE AddRule(t)
      <3>1. PICK r : /\ Becomes(t, r) /\ r.op = call[t].op /\ r.asOf = call[t].asOf
                     /\ r.defs = call[t].defs
                     /\ \/ r.pc = "unlock" /\ UNCHANGED <<g, gTable>>
                        \/ \E rule \in call[t].todo :
                              /\ r.pc = "add" /\ r.todo = call[t].todo \ {rule}
                              /\ g' = g \union {rule}
        BY <2>2, AddEffect
      <3>2. call[t].pc = "add"
        BY <2>2 DEF AddRule, At
      <3> QED
        BY <3>1, <3>2
    <2> QED
      BY <2>1, <2>2
  <1>4. call'[t] = r /\ \A s \in Threads \ {t} : call'[s] = call[s]
    BY <1>3, BecomesKeeps
  <1>5. r.pc \in {"unlock", "add"}
    BY <1>3
  <1>6. /\ \A s \in Threads : Fresh(s)' <=> Fresh(s)
        /\ \A s \in Threads : Calm(s)' <=> Calm(s)
        /\ \A s \in Threads : BringsCurrent(s) => BringsCurrent(s)'
        /\ \A s \in Threads : call'[s].pc \in {"clear", "add"} => call[s].pc \in {"clear", "add"}
    <2>1. ASSUME NEW s \in Threads
          PROVE  /\ Fresh(s)' <=> Fresh(s)
                 /\ Calm(s)' <=> Calm(s)
                 /\ BringsCurrent(s) => BringsCurrent(s)'
                 /\ call'[s].pc \in {"clear", "add"} => call[s].pc \in {"clear", "add"}
      <3>1. CASE s = t
        BY <1>1, <1>3, <1>4, <1>5, <3>1 DEF Fresh, Calm, BringsCurrent, GrantsIn
      <3>2. CASE s # t
        BY <1>1, <1>4, <3>2 DEF Fresh, Calm, BringsCurrent, GrantsIn
      <3> QED
        BY <3>1, <3>2
    <2> QED
      BY <2>1
  <1>7. (CalmBus' <=> CalmBus) /\ (InputsCurrent' <=> InputsCurrent)
    BY <1>1 DEF CalmBus, InputsCurrent, GrantsIn
  <1>8. \A s \in Threads : call'[s].defs = call[s].defs
    BY <1>3, <1>4
  <1>9. FreshInv'
    BY <1>1, <1>6, <1>7, <1>8 DEF HealInv, FreshInv
  <1>10. CleanInv'
    BY <1>1, <1>6, <1>7 DEF HealInv, CleanInv
  <1>11. RulesInv'
    <2> SUFFICES ASSUME NoneDoomed'
                 PROVE  /\ clean' /\ mu' = None => (Complete(g))'
                        /\ \A s \in Threads : (clean' \/ Fresh(s)') /\ call'[s].pc = "add" =>
                              (Complete(g \union call[s].todo))'
      BY DEF RulesInv
    <2>1. NoneDoomed
      BY <1>2, EffectiveDoom
    <2>2. mu = t /\ t # None /\ \A s \in Threads \ {t} : call'[s].pc # "add"
      BY <1>1, <1>4, OneReplaces DEF Touching
    <2>3. clean' \/ Fresh(t)' => clean \/ Fresh(t)
      BY <1>1, <1>6
    <2>4. CASE r.pc = "unlock"
      BY <1>1, <1>4, <2>2, <2>4
    <2>5. CASE /\ r.pc = "add" /\ call[t].pc = "clear"
               /\ g' \union r.todo = InheritanceRules(lastDefs) \union GrantsIn(cache)
      <3>1. (Complete(g \union call[t].todo))'
        BY <1>1, <1>4, <2>5 DEF Complete
      <3> QED
        BY <1>1, <2>2, <3>1
    <2>6. CASE /\ r.pc = "add" /\ call[t].pc = "add"
               /\ g' \union r.todo = g \union call[t].todo
      <3>1. (clean \/ Fresh(t)) => Complete(g \union call[t].todo)
        BY <2>1, <2>6 DEF HealInv, RulesInv
      <3>2. Complete(g \union call[t].todo) => (Complete(g \union call[t].todo))'
        BY <1>1, <1>4, <2>6 DEF Complete
      <3> QED
        BY <1>1, <2>2, <2>3, <3>1, <3>2
    <2> QED
      BY <1>3, <2>4, <2>5, <2>6
  <1> QED
    BY <1>9, <1>10, <1>11 DEF HealInv

\* When a current rebuild is through, the instance is current.
LEMMA HealUnlock ==
    ASSUME BaseInv, RebuildsExclude, HealInv, NEW t \in Threads, Unlock(t)
    PROVE  HealInv'
  <1>0. Sane(t, call[t])
    BY DEF BaseInv, CallsOK
  <1>1. /\ mu' = None /\ UNCHANGED <<g, lastDefs, cache>>
        /\ clean' = (~call[t].failed /\ (clean \/ Current(t)))
        /\ \/ call[t].pc = "unlock" /\ call[t].failed
           \/ call[t].pc = "add" /\ ~call[t].failed /\ call[t].todo = {}
    BY UnlockEffect
  <1>2. PICK r : /\ Becomes(t, r) /\ r.asOf = None /\ r.op \in {"none", "registry"}
                 /\ r.pc \in {"idle", "subscribe", "publish"} \/ r.pc = "down"
                 /\ r.op = "registry" => call[t].op = "registry"
                 /\ t = Boot => r.pc \in {"subscribe", "down"}
    BY UnlockEffect
  <1>3. UNCHANGED <<db, unsent, queue>> /\ call[t].pc \in {"add", "unlock"}
    BY <1>1 DEF Unlock, world, bus
  <1>4. call'[t] = r /\ \A s \in Threads \ {t} : call'[s] = call[s]
    BY <1>2, BecomesKeeps
  <1>5. mu = t /\ t # None /\ \A s \in Threads : call'[s].pc \notin {"add", "clear"}
    <2>1. mu = t /\ t # None
      BY <1>3, OneReplaces DEF Touching
    <2>2. r.pc \notin {"add", "clear"}
      BY <1>2
    <2> QED
      BY <1>4, <2>1, <2>2, OneReplaces
  <1>6. ~Fresh(t)' /\ \A s \in Threads \ {t} : Fresh(s)' <=> Fresh(s)
    BY <1>2, <1>3, <1>4 DEF Fresh
  <1>7. (CalmBus' <=> CalmBus) /\ (InputsCurrent' <=> InputsCurrent)
    BY <1>1, <1>3 DEF CalmBus, InputsCurrent, GrantsIn
  <1>8. /\ \A s \in Threads \ {t} : Calm(s)' <=> Calm(s)
        /\ \A s \in Threads \ {t} : BringsCurrent(s)' <=> BringsCurrent(s)
        /\ BringsCurrent(t)'
    <2>1. r.pc # "lock"
      BY <1>2
    <2> QED
      BY <1>1, <1>3, <1>4, <2>1 DEF Calm, BringsCurrent, GrantsIn
  <1>9. call[t].op # "registry" => Calm(t)'
    BY <1>2, <1>4 DEF Calm
  <1>10. Calm(t) \/ Fresh(t) => Calm(t)'
    BY <1>9 DEF Calm, Fresh
  <1>11. FreshInv'
    BY <1>3, <1>4, <1>5, <1>6, <1>7, <1>8, <1>10 DEF HealInv, FreshInv
  <1>12. Current(t) => /\ Fresh(t)
                       /\ \A s \in Threads \ {t} : BringsCurrent(s)
    BY DEF Current, Fresh, BringsCurrent, InFlight, At
  <1>13. ASSUME clean'
         PROVE  /\ call[t].pc = "add" /\ call[t].todo = {} /\ (clean \/ Fresh(t))
                /\ CalmBus' /\ InputsCurrent'
                /\ \A s \in Threads : Calm(s)' /\ BringsCurrent(s)'
    <2>1. ~call[t].failed /\ (clean \/ Current(t))
      BY <1>1, <1>13
    <2>2. call[t].pc = "add" /\ call[t].todo = {}
      BY <1>1, <2>1
    <2>3. CASE clean
      BY <1>7, <1>8, <1>10, <2>2, <2>3 DEF HealInv, CleanInv
    <2>4. CASE Current(t)
      <3>1. CalmBus /\ InputsCurrent /\ \A s \in Threads \ {t} : Calm(s)
        BY <1>12, <2>2, <2>4 DEF HealInv, FreshInv
      <3> QED
        BY <1>7, <1>8, <1>10, <1>12, <2>2, <2>4, <3>1
    <2> QED
      BY <2>1, <2>3, <2>4
  <1>14. CleanInv'
    BY <1>13 DEF CleanInv
  <1>15. RulesInv'
    <2> SUFFICES ASSUME NoneDoomed', clean'
                 PROVE  (Complete(g))'
      BY <1>5 DEF RulesInv
    <2>1. Effective(t) /\ ~LockAndLoad(t)
      BY <1>3 DEF Effective, LockAndLoad, At
    <2>2. NoneDoomed
      BY <2>1, EffectiveDoom
    <2>3. Complete(g \union call[t].todo) /\ call[t].todo = {}
      BY <1>13, <2>2 DEF HealInv, RulesInv
    <2> QED
      BY <1>1, <2>3 DEF Complete, GrantsIn
  <1> QED
    BY <1>11, <1>14, <1>15 DEF HealInv

\* AssignUserRole and RevokeUserRole work only when nothing is current.
LEMMA HealUpdating ==
    ASSUME BaseInv, HealInv, NEW t \in Threads, Updating(t)
    PROVE  HealInv'
  <1>0. Sane(t, call[t])
    BY DEF BaseInv, CallsOK
  <1>1. call[t].pc \in {"save", "rule", "cache", "restore"}
    BY DEF Updating, DisableAutoSave, ChangeRule, UpdateCache, RestoreAutoSave, At
  <1>2. call[t].op \in {"assign", "revoke"} /\ ~Calm(t)
    BY <1>0, <1>1 DEF Sane, Calm
  <1>3. UNCHANGED <<db, clean>>
    BY DEF Updating, DisableAutoSave, ChangeRule, UpdateCache, RestoreAutoSave, world, ghosts
  <1>4. CASE DisableAutoSave(t) \/ ChangeRule(t)
    <2>1. PICK r : /\ Becomes(t, r)
                   /\ \/ Follows(r, call[t], "rule") \/ Follows(r, call[t], "restore")
                      \/ Follows(r, call[t], "cache")
      BY <1>4, UpdateEffect
    <2>2. r.op = call[t].op
      BY <2>1 DEF Follows
    <2> QED
      BY <1>2, <1>3, <2>1, <2>2, DisturbedCall
  <1>5. CASE UpdateCache(t)
    BY <1>2, <1>3, <1>5, CacheEffect, DisturbedStays DEF SameCall
  <1>6. CASE RestoreAutoSave(t)
    <2>1. PICK r : Becomes(t, r) /\ r.op \in {"none", "assign", "revoke"}
      BY <1>6, EndEffect
    <2> QED
      BY <1>2, <1>3, <2>1, DisturbedCall
  <1> QED
    BY <1>4, <1>5, <1>6 DEF Updating

\* ReloadPolicy works from the cached inputs; a refused rebuild is over.
LEMMA HealReload ==
    ASSUME BaseInv, HealInv, NEW t \in Threads,
           LoadPolicy(t) \/ ReadCached(t) \/ LoadRefused(t)
    PROVE  HealInv'
  <1>0. Sane(t, call[t])
    BY DEF BaseInv, CallsOK
  <1>1. UNCHANGED <<db, unsent, queue, mu, lastDefs, cache, clean>>
    BY DEF LoadPolicy, ReadCached, LoadRefused, world, bus, cached, ghosts
  <1>2. CalmBus' <=> CalmBus
    BY <1>1 DEF CalmBus
  <1>3. CASE LoadPolicy(t)
    <2>1. PICK r : /\ Becomes(t, r)
                   /\ \/ GivesUp(r, t) /\ UNCHANGED <<p, g>>
                      \/ /\ r.pc = IF t = Boot THEN "policies" ELSE "read"
                         /\ r.op = call[t].op
      BY <1>3, LoadPolicyEffect
    <2>2. call[t].pc = "load" /\ call[t].op = IF t = Boot THEN "none" ELSE "policy"
      BY <1>0, <1>3 DEF LoadPolicy, At, Sane
    <2>3. r.op \in {"none", "policy"} /\ call'[t] = r
      BY <2>1, <2>2, BecomesKeeps DEF GivesUp, Waits
    <2>4. CASE t = Boot
      <3>1. ~Calm(t)
        BY <2>2, <2>4 DEF Calm
      <3> QED
        BY <1>1, <2>1, <2>3, <3>1, DisturbedCall
    <2>5. CASE t # Boot
      <3>1. Calm(t) /\ r.pc # "lock" /\ r.pc # "add"
        BY <2>1, <2>2, <2>5 DEF Calm, GivesUp, Waits
      <3>2. CASE r.pc = "read"
        <4>1. ~NoneDoomed'
          BY <2>3, <3>2 DEF NoneDoomed, Doomed, DoomedAs
        <4> QED
          BY <1>1, <1>2, <2>1, <2>3, <2>5, <3>1, <4>1, CalmStep
      <3>3. CASE r.pc # "read"
        <4>1. UNCHANGED <<g, mu>>
          BY <1>1, <2>1, <2>5, <3>3
        <4>2. ~DoomedAs(t, call[t])
          BY <2>2, <2>5 DEF DoomedAs
        <4>3. \A s \in Threads \ {t} : call'[s] = call[s]
          BY <2>1, BecomesKeeps
        <4>4. NoneDoomed' => NoneDoomed
          BY <4>2, <4>3 DEF NoneDoomed, Doomed
        <4> QED
          BY <1>1, <1>2, <2>1, <2>3, <2>5, <3>1, <4>1, <4>4, CalmStep
      <3> QED
        BY <3>2, <3>3
    <2> QED
      BY <2>4, <2>5
  <1>4. CASE ReadCached(t)
    <2>1. PICK r : /\ Becomes(t, r) /\ r.pc = "lock" /\ r.op = "policy"
                   /\ r.defs = lastDefs /\ r.list = cache
      BY <1>4, ReadEffect
    <2>2. call[t].op = "policy" /\ t # Boot
      BY <1>0, <1>4 DEF ReadCached, At, Sane
    <2>3. Calm(t)
      BY <2>2 DEF Calm
    <2>4. ~NoneDoomed'
      <3>1. call'[t] = r
        BY <2>1, BecomesKeeps
      <3> QED
        BY <2>1, <3>1 DEF NoneDoomed, Doomed, DoomedAs
    <2> QED
      BY <1>1, <1>2, <2>1, <2>2, <2>3, <2>4, CalmStep
  <1>5. CASE LoadRefused(t)
    <2>1. /\ call[t].op \in {"rebuild", "registry"}
          /\ \E r : Becomes(t, r) /\ r.op \in {"none", "registry"}
      BY <1>5, RefusedEffect
    <2>2. ~Calm(t)
      BY <2>1 DEF Calm
    <2> QED
      BY <1>1, <2>1, <2>2, DisturbedCall
  <1> QED
    BY <1>3, <1>4, <1>5

\* Service calls that commit outdate everything; ReloadPolicy is calm.
LEMMA HealCalling ==
    ASSUME BaseInv, HealInv, NEW c \in Callers, Calling(c) \/ PublishOwn(c)
    PROVE  HealInv'
  <1>0. c \in Threads /\ c # Boot /\ Sane(c, call[c])
    BY ThreadsDiffer DEF BaseInv, CallsOK
  <1>1. ASSUME NEW u \in Grants, CallAssign(c, u) \/ CallRevoke(c, u)
        PROVE  HealInv'
    <2>1. \E r : Becomes(c, r) /\ r.asOf = None
      BY <1>1, StartEffect
    <2>2. \E grants : Commit(grants, db.defs)
      BY <1>1 DEF CallAssign, CallRevoke
    <2> QED
      BY <1>0, <2>1, <2>2, CommitOutdates
  <1>2. CASE CallReloadRegistry(c)
    <2>1. \E r : Becomes(c, r) /\ r.asOf = None
      BY <1>2, ReloadEffect DEF Waits
    <2>2. \E defs : Commit(db.grants, defs)
      BY <1>2 DEF CallReloadRegistry
    <2> QED
      BY <1>0, <2>1, <2>2, CommitOutdates
  <1>3. CASE CallReloadPolicy(c)
    <2>1. UNCHANGED <<db, unsent, queue, g, mu, lastDefs, cache, clean>>
      BY <1>3 DEF CallReloadPolicy, world, bus, cached, ghosts
    <2>2. call[c].pc = "idle"
      BY <1>3, ReloadEffect
    <2>3. PICK r : Becomes(c, r) /\ r.pc = "load" /\ r.op = "policy"
      <3>1. PICK r : /\ Becomes(c, r)
                     /\ \/ CallReloadRegistry(c) /\ r.pc = "roles"
                        \/ CallReloadPolicy(c) /\ r.pc = "load" /\ r.op = "policy"
        BY <1>3, ReloadEffect DEF Waits
      <3>2. call'[c] = r
        BY <1>0, <3>1, BecomesKeeps
      <3>3. call'[c].pc = "load"
        <4>1. "load" \in Place /\ "policy" \in Op
          BY DEF Place, Op
        <4>2. Waits([Idle EXCEPT !.pc = "load", !.op = "policy"], "load", "policy", None)
          BY <4>1, StartedForms
        <4>3. call'[c] = [Idle EXCEPT !.pc = "load", !.op = "policy"]
          BY <1>0, <1>3 DEF CallReloadPolicy, BaseInv, CallsOK
        <4> QED
          BY <4>2, <4>3 DEF Waits
      <3> QED
        BY <3>1, <3>2, <3>3
    <2>4. Calm(c) /\ ~DoomedAs(c, call[c])
      BY <1>0, <2>2 DEF Sane, Calm, DoomedAs
    <2>5. CalmBus => CalmBus'
      BY <2>1 DEF CalmBus
    <2>6. NoneDoomed' => NoneDoomed
      <3>1. \A s \in Threads \ {c} : call'[s] = call[s]
        BY <1>0, <2>3, BecomesKeeps
      <3> QED
        BY <2>4, <3>1 DEF NoneDoomed, Doomed
    <2> QED
      BY <1>0, <2>1, <2>3, <2>4, <2>5, <2>6, CalmStep
  <1>4. CASE PublishOwn(c)
    <2>1. UNCHANGED <<db, clean>>
      BY <1>4 DEF PublishOwn, world, ghosts
    <2>2. call[c].pc = "publish"
      BY <1>4 DEF PublishOwn, At
    <2>3. ~Calm(c)
      BY <1>0, <2>2 DEF Sane, Calm
    <2>4. PICK r : Becomes(c, r) /\ r.op \in {"none", "assign", "revoke"}
      BY <1>0, <1>4, EndEffect
    <2> QED
      BY <1>0, <2>1, <2>3, <2>4, DisturbedCall
  <1> QED
    BY <1>1, <1>2, <1>3, <1>4 DEF Calling

\* An event of another instance cannot be on its way when anything is current.
LEMMA HealEvents ==
    ASSUME BaseInv, HealInv, RemoteCommit \/ RemotePublish \/ Handling
    PROVE  HealInv'
  <1>1. CASE RemoteCommit
    <2>1. UNCHANGED call /\ \E grants, defs : Commit(grants, defs)
      BY <1>1 DEF RemoteCommit
    <2> QED
      BY <2>1, CommitOutdates
  <1>2. CASE RemotePublish
    <2>1. unsent # {} /\ UNCHANGED <<db, call, clean>>
      BY <1>2 DEF RemotePublish, ghosts
    <2>2. NothingFresh
      BY <2>1, EventsOnTheirWay DEF CalmBus
    <2>3. NothingFresh'
      BY <2>1, <2>2 DEF NothingFresh, Fresh
    <2> QED
      BY <2>3, NothingToKeep
  <1>3. ASSUME NEW topic \in Topics,
               handleRoleEvent(topic) \/ (topic = "role.changed" /\ handleRoleChanged)
        PROVE  HealInv'
    <2>0. topic \in Threads
      BY ThreadsDiffer
    <2>1. /\ queue[topic] # <<>> /\ queue' = [queue EXCEPT ![topic] = Tail(@)]
          /\ UNCHANGED <<db, unsent, subs, g, mu, lastDefs, cache, clean>>
      BY <1>3 DEF handleRoleEvent, handleRoleChanged, world, cached, ghosts
    <2>2. /\ BusOK'
          /\ \A i \in DOMAIN queue'[topic] :
                i + 1 \in DOMAIN queue[topic] /\ queue'[topic][i] = queue[topic][i + 1]
      BY <2>1, TakenKept DEF BaseInv
    <2>3. CASE UNCHANGED call
      <3>1. CalmBus => CalmBus'
        <4> SUFFICES ASSUME CalmBus, NEW q \in Topics, NEW i \in DOMAIN queue'[q]
                     PROVE  queue'[q][i].local
          BY <2>1 DEF CalmBus
        <4>1. CASE q = topic
          BY <2>2, <4>1 DEF CalmBus
        <4>2. CASE q # topic
          BY <2>1, <4>2 DEF CalmBus, BaseInv, BusOK
        <4> QED
          BY <4>1, <4>2
      <3> QED
        BY <2>1, <2>3, <3>1, HealFrame
    <2>4. CASE ~Head(queue[topic]).local /\ \E r : Becomes(topic, r) /\ r.asOf = None
      <3>1. 1 \in DOMAIN queue[topic] /\ Head(queue[topic]) = queue[topic][1]
        BY <2>1 DEF BaseInv, BusOK
      <3>2. NothingFresh
        BY <2>4, <3>1, EventsOnTheirWay DEF CalmBus
      <3>3. PICK r : Becomes(topic, r) /\ r.asOf = None
        BY <2>4
      <3>4. call'[topic] = r /\ \A s \in Threads \ {topic} : call'[s] = call[s]
        BY <2>0, <3>3, BecomesKeeps
      <3>5. db.commits # None
        BY AuthzAssumption DEF BaseInv, WorldOK
      <3>6. NothingFresh'
        BY <2>1, <3>2, <3>3, <3>4, <3>5 DEF NothingFresh, Fresh
      <3> QED
        BY <3>6, NothingToKeep
    <2> QED
      BY <1>3, <2>3, <2>4, HandleEffect
  <1>4. CASE Handling
    BY <1>3, <1>4 DEF Handling, Topics
  <1> QED
    BY <1>1, <1>2, <1>4

\* A process that starts has nothing current until it has rebuilt its rules.
LEMMA HealLife ==
    ASSUME BaseInv, HealInv, Starting \/ Close \/ Restart
    PROVE  HealInv'
  <1>0. Boot \in Threads /\ Sane(Boot, call[Boot])
    BY ThreadsDiffer DEF BaseInv, CallsOK
  <1>1. CASE InitDefaultPolicies
    <2>1. PICK r : /\ Becomes(Boot, r) /\ (r.op = "rebuild" => r.asOf = None)
      BY <1>1, SeedEffect
    <2>2. ~Calm(Boot) /\ UNCHANGED <<db, clean>>
      BY <1>1 DEF InitDefaultPolicies, At, Calm, world, ghosts
    <2> QED
      BY <1>0, <2>1, <2>2, DisturbedCall
  <1>2. ASSUME NEW topic \in Topics, SubscribeTo(topic)
        PROVE  HealInv'
    <2>1. UNCHANGED <<db, unsent, queue, g, mu, lastDefs, cache, clean>>
      BY <1>2 DEF SubscribeTo, world, cached, ghosts
    <2>2. call[Boot].pc = "subscribe" /\ (UNCHANGED call \/ Becomes(Boot, Idle))
      BY <1>2, SubscribeEffect
    <2>3. CalmBus => CalmBus'
      BY <2>1 DEF CalmBus
    <2>4. CASE UNCHANGED call
      BY <2>1, <2>3, <2>4, HealFrame
    <2>5. CASE Becomes(Boot, Idle)
      <3>1. Calm(Boot) /\ ~DoomedAs(Boot, call[Boot])
        BY <1>0, <2>2 DEF Sane, Calm, DoomedAs
      <3>2. NoneDoomed' => NoneDoomed
        <4>1. \A s \in Threads \ {Boot} : call'[s] = call[s]
          BY <1>0, <2>5, BecomesKeeps
        <4> QED
          BY <3>1, <4>1 DEF NoneDoomed, Doomed
      <3> QED
        BY <1>0, <2>1, <2>3, <2>5, <3>1, <3>2, IdleIsCall, CalmStep
    <2> QED
      BY <2>2, <2>4, <2>5
  <1>3. CASE Close
    <2>1. UNCHANGED <<db, unsent, queue, g, mu, lastDefs, cache, clean>>
      BY <1>3 DEF Close, world, cached, ghosts
    <2>2. PICK r : Becomes(Boot, r) /\ Follows(r, call[Boot], "down") /\ r.op = "none"
      BY <1>3, CloseEffect
    <2>3. CalmBus => CalmBus'
      BY <2>1 DEF CalmBus
    <2>4. call[Boot].pc = "idle" /\ r.pc = "down"
      BY <1>3, <2>2, CloseEffect DEF Follows
    <2>5. Calm(Boot) /\ ~NoneDoomed'
      <3>1. call'[Boot] = r
        BY <1>0, <2>2, BecomesKeeps
      <3> QED
        BY <1>0, <2>4, <3>1 DEF Sane, Calm, NoneDoomed, Doomed, DoomedAs
    <2> QED
      BY <1>0, <2>1, <2>2, <2>3, <2>4, <2>5, CalmStep
  <1>4. CASE Restart
    <2>1. clean' = FALSE /\ \A s \in Threads : call'[s].op = "none"
      BY <1>4, AnewForms DEF Restart
    <2> QED
      BY <2>1, NothingToKeep DEF NothingFresh, Fresh
  <1> QED
    BY <1>1, <1>2, <1>3, <1>4 DEF Starting

\* What a rebuild from the database that nothing disturbs leaves is kept until
\* somebody commits.
LEMMA HealKept ==
    ASSUME BaseInv, RebuildsExclude, HealInv, [Next]_vars
    PROVE  HealInv'
  <1>1. CASE UNCHANGED vars \/ \E x \in Policies : AddPolicy(x) \/ RemovePolicy(x)
    <2>1. UNCHANGED <<db, unsent, queue, g, mu, lastDefs, cache, clean, call>>
      <3>1. CASE UNCHANGED vars
        BY <3>1 DEF vars, world, bus, cached, ghosts
      <3>2. CASE \E x \in Policies : AddPolicy(x) \/ RemovePolicy(x)
        BY <3>2 DEF AddPolicy, RemovePolicy, world, bus, cached
      <3> QED
        BY <1>1, <3>1, <3>2
    <2> QED
      BY <2>1, HealFrame DEF CalmBus
  <1>2. ASSUME NEW t \in Threads, Rebuilding(t)
        PROVE  HealInv'
    BY <1>2, HealLists, HealLock, HealRebuild, HealUnlock, HealReload DEF Rebuilding
  <1>3. ASSUME NEW t \in Threads, Updating(t)
        PROVE  HealInv'
    BY <1>3, HealUpdating
  <1> QED
    BY <1>1, <1>2, <1>3, HealCalling, HealEvents, HealLife DEF Next

-----------------------------------------------------------------------------
(* The theorems *)

FlowInv == BaseInv /\ RebuildsExclude /\ ReachInv /\ SyncInv /\ HealInv

\* The first process is starting, so there is nothing to claim yet.
LEMMA InitFlow == Init => ReachInv /\ SyncInv /\ HealInv
  <1> SUFFICES ASSUME Init PROVE ReachInv /\ SyncInv /\ HealInv
    OBVIOUS
  <1>1. clean = FALSE /\ call[Boot].pc = "load" /\ \A s \in Threads : call[s].op = "none"
    BY AnewForms DEF Init
  <1>2. ~NoneDoomed
    BY <1>1, ThreadsDiffer DEF NoneDoomed, Doomed, DoomedAs
  <1>3. FreshInv /\ CleanInv
    BY <1>1 DEF FreshInv, CleanInv, Fresh
  <1> QED
    BY <1>2, <1>3 DEF ReachInv, SyncInv, HealInv, RulesInv

\* All parts of the invariant hold in every reachable state.
LEMMA Flow == Spec => []FlowInv
  <1>1. Init => BaseInv /\ ReachInv /\ SyncInv /\ HealInv
    BY InitTyped, InitFlow
  <1>2. BaseInv /\ ReachInv /\ SyncInv /\ HealInv /\ RebuildsExclude /\ [Next]_vars
          => (BaseInv /\ ReachInv /\ SyncInv /\ HealInv)'
    BY StepTyped, ReachKept, SyncKept, HealKept
  <1>3. Spec => []RebuildsExclude
    BY RebuildsNeverMix
  <1> QED
    BY <1>1, <1>2, <1>3, PTL DEF Spec, FlowInv

\* Nothing is doomed, pending or locked when nothing is in progress.
LEMMA QuietCalls ==
    ASSUME BaseInv, RebuildsExclude, Quiet
    PROVE  NoneDoomed /\ mu = None /\ \A u : Pending(u) = {}
  <1>1. \A t \in Threads : call[t].pc = "idle"
    BY DEF Quiet, InFlight, At
  <1>2. mu \in Threads \union {None}
    BY DEF BaseInv, MarksOK
  <1> QED
    BY <1>1, <1>2 DEF NoneDoomed, Doomed, DoomedAs, RebuildsExclude, Pending

\* Once nothing is in progress, and unless the adapter cut the last rebuild
\* short, the inheritance rules of the enforcer are one for every pair of roles
\* that the definitions loaded last connect, and these have no cycle, whatever
\* roles and domains there are and however calls, events and restarts meet.
THEOREM InheritanceFollowsDefinitions == Spec => []InheritanceIsReachability
  <1>1. FlowInv => InheritanceIsReachability
    <2> SUFFICES ASSUME FlowInv, Quiet, ~cut
                 PROVE  lastDefs \in DOMAIN Reachable /\ g \ Grants = Reachable[lastDefs]
      BY DEF InheritanceIsReachability
    <2>1. NoneDoomed /\ mu = None
      BY QuietCalls DEF FlowInv
    <2>2. g \ Grants = InheritanceRules(lastDefs)
      BY <2>1 DEF FlowInv, ReachInv
    <2>3. lastDefs \in DefSets \union {{}} /\ ~LoadFails(lastDefs)
      BY DEF FlowInv, BaseInv, InputsOK
    <2>4. InheritanceRules(lastDefs) = ReachableRules(lastDefs) /\ Acyclic(lastDefs)
      BY <2>3, RulesType
    <2> QED
      BY <2>2, <2>3, <2>4 DEF Reachable
  <1> QED
    BY <1>1, Flow, PTL

\* When nothing is in progress the enforcer and the cached assignments name the
\* same grants, but for those whose calls ran into each other or into a rebuild.
THEOREM CacheStaysInSync == Spec => []InSyncUnlessRaced
  <1>1. FlowInv => InSyncUnlessRaced
    <2> SUFFICES ASSUME FlowInv, Quiet, NEW u \in Grants \ raced
                 PROVE  u \in g <=> u \in GrantsIn(cache)
      BY DEF InSyncUnlessRaced
    <2>1. NoneDoomed /\ mu = None /\ Pending(u) = {}
      BY QuietCalls DEF FlowInv
    <2>2. SyncOf(u)
      BY <2>1 DEF FlowInv, SyncInv
    <2> QED
      BY <2>1, <2>2 DEF SyncOf
  <1> QED
    BY <1>1, Flow, PTL

\* A rebuild from the database that ran with nothing else going on leaves the
\* instance deciding by the committed roles and grants until the next commit,
\* whatever was wrong with its rules and its cached list before.
THEOREM RebuildsDoHeal == Spec => []RebuildHeals
  <1>1. FlowInv => RebuildHeals
    <2> SUFFICES ASSUME FlowInv, Quiet, clean
                 PROVE  /\ g = InheritanceRules(db.defs) \union db.grants
                        /\ GrantsIn(cache) = db.grants /\ lastDefs = db.defs
      BY DEF RebuildHeals
    <2>1. NoneDoomed /\ mu = None
      BY QuietCalls DEF FlowInv
    <2>2. Complete(g) /\ InputsCurrent
      BY <2>1 DEF FlowInv, HealInv, RulesInv, CleanInv
    <2> QED
      BY <2>2 DEF Complete, InputsCurrent
  <1> QED
    BY <1>1, Flow, PTL
=============================================================================
