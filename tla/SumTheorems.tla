---------------------------- MODULE SumTheorems -----------------------------
(***************************************************************************)
(* Sums over finite sets of rows, as MapThenSumSet of the community        *)
(* modules gives them: the lemmas about money that the ledgers need.  The  *)
(* fold is a recursive function, so that a set for which a statement fails *)
(* has a subset of the fewest elements for which it fails; that subset and *)
(* the one without an element contradict each other.                       *)
(***************************************************************************)
EXTENDS Integers, FiniteSets, FiniteSetsExt, FiniteSetTheorems, WellFoundedInduction, TLAPS

\* Of some natural numbers one is the least.
LEMMA LeastOf ==
    ASSUME NEW D, D \subseteq Nat, D # {}
    PROVE  \E d \in D : \A e \in D : d <= e
<1>1. PICK d \in D : \A e \in D : ~(<<e, d>> \in OpToRel(<, Nat))
  BY WFMin, NatLessThanWellFounded, Zenon
<1>2. \A e \in D : ~(e < d)
  BY <1>1 DEF OpToRel
<1>3. \A e \in D : d <= e
  BY <1>2
<1> QED
  BY <1>3

\* Of some numbers up to a bound one is the greatest.
LEMMA GreatestOf ==
    ASSUME NEW D, D \subseteq Int, D # {}, NEW n \in Int, \A d \in D : d <= n
    PROVE  \E d \in D : \A e \in D : e <= d
<1> DEFINE R == {n - d : d \in D}
<1>1. \A d \in D : d \in Int /\ d <= n
  OBVIOUS
<1>2. R \subseteq Nat /\ R # {}
  <2>1. \A d \in D : n - d \in Nat
    BY <1>1
  <2>2. PICK d : d \in D
    OBVIOUS
  <2>3. n - d \in R
    BY <2>2
  <2> QED
    BY <2>1, <2>3
<1>3. PICK r \in R : \A e \in R : r <= e
  BY <1>2, LeastOf
<1>4. PICK d \in D : r = n - d
  OBVIOUS
<1>5. ASSUME NEW e \in D PROVE e <= d
  <2>1. n - e \in R
    OBVIOUS
  <2>2. n - d <= n - e
    BY <1>3, <1>4, <2>1
  <2>3. d \in Int /\ e \in Int
    BY <1>1
  <2> HIDE DEF R
  <2> QED
    BY <2>2, <2>3
<1> QED
  BY <1>5

\* Of some finite sets one has the fewest elements.
LEMMA SmallestOf ==
    ASSUME NEW F, F # {}, \A s \in F : IsFiniteSet(s)
    PROVE  \E s \in F : \A t \in F : t \subseteq s => t = s
<1> DEFINE D == {Cardinality(s) : s \in F}
<1>1. \A s \in F : Cardinality(s) \in Nat
  BY FS_CardinalityType
<1>2. D \subseteq Nat /\ D # {}
  BY <1>1
<1>3. PICK d \in D : \A e \in D : d <= e
  BY <1>2, LeastOf
<1>4. PICK s \in F : d = Cardinality(s)
  OBVIOUS
<1>5. ASSUME NEW t \in F, t \subseteq s PROVE t = s
  <2>1. Cardinality(t) <= Cardinality(s) /\ (Cardinality(s) = Cardinality(t) => s = t)
    BY <1>5, FS_Subset
  <2>2. Cardinality(s) <= Cardinality(t)
    BY <1>3, <1>4
  <2> QED
    BY <1>1, <2>1, <2>2
<1> QED
  BY <1>5

-----------------------------------------------------------------------------
\* The element that the fold takes out first, and the others.
One(s) == CHOOSE x \in s : TRUE

Rest(s) == s \ {One(s)}

\* The recursion of MapThenFoldSet.
IsSum(g, h, S) ==
    g = [s \in SUBSET S |-> IF s = {} THEN 0 ELSE h[One(s)] + g[Rest(s)]]

\* The others are fewer.
LEMMA OneOf == \A s : s # {} => One(s) \in s /\ Rest(s) \subseteq s /\ Rest(s) # s
  BY DEF One, Rest

\* The recursion has at most one solution on a finite set.
LEMMA SumsAgree ==
    ASSUME NEW S, NEW T, IsFiniteSet(S), NEW g, NEW f, NEW h, NEW k,
           IsSum(g, h, S), IsSum(f, k, T), S \subseteq T, \A x \in S : h[x] = k[x]
    PROVE  g[S] = f[S]
<1> DEFINE F == {s \in SUBSET S : g[s] # f[s]}
<1>1. SUFFICES ASSUME F # {} PROVE FALSE
  OBVIOUS
<1>2. PICK s \in F : \A t \in F : t \subseteq s => t = s
  <2>1. \A t \in F : IsFiniteSet(t)
    BY FS_Subset
  <2> HIDE DEF F
  <2> QED
    BY <1>1, <2>1, SmallestOf
<1>3. /\ g[s] = IF s = {} THEN 0 ELSE h[One(s)] + g[Rest(s)]
      /\ f[s] = IF s = {} THEN 0 ELSE k[One(s)] + f[Rest(s)]
  <2>1. s \in SUBSET S /\ s \in SUBSET T
    OBVIOUS
  <2> QED
    BY <2>1 DEF IsSum
<1>4. s # {}
  BY <1>3
<1>5. Rest(s) \notin F
  BY <1>2, <1>4, OneOf
<1>6. g[Rest(s)] = f[Rest(s)] /\ h[One(s)] = k[One(s)]
  BY <1>4, <1>5, OneOf
<1> QED
  BY <1>3, <1>6

\* And it has one.
LEMMA SumExists ==
    ASSUME NEW S, IsFiniteSet(S), NEW h
    PROVE  \E g : IsSum(g, h, S)
<1> DEFINE F == {s \in SUBSET S : ~ \E g : IsSum(g, h, s)}
<1>1. SUFFICES ASSUME F # {} PROVE FALSE
  OBVIOUS
<1>2. PICK s \in F : \A t \in F : t \subseteq s => t = s
  <2>1. \A t \in F : IsFiniteSet(t)
    BY FS_Subset
  <2> HIDE DEF F
  <2> QED
    BY <1>1, <2>1, SmallestOf
<1> DEFINE G(t) == CHOOSE g : IsSum(g, h, t)
           below == [t \in SUBSET s |-> G(t)[t]]
           g == [t \in SUBSET s |-> IF t = {} THEN 0 ELSE h[One(t)] + below[Rest(t)]]
<1>3. \A t : t \subseteq s /\ t # s => IsSum(G(t), h, t)
  BY <1>2
<1>4. ASSUME NEW t, t \subseteq s, t # s PROVE g[t] = below[t]
  <2>1. IsSum(G(t), h, t)
    BY <1>3, <1>4
  <2>2. G(t)[t] = IF t = {} THEN 0 ELSE h[One(t)] + G(t)[Rest(t)]
    BY <2>1 DEF IsSum
  <2>3. CASE t = {}
    BY <2>2, <2>3, <1>4
  <2>4. CASE t # {}
    <3>1. Rest(t) \subseteq t /\ Rest(t) \subseteq s /\ Rest(t) # s /\ IsFiniteSet(Rest(t))
      <4>1. Rest(t) \subseteq t /\ Rest(t) \subseteq s /\ Rest(t) # s
        BY <2>4, <1>4, OneOf
      <4> QED
        BY <4>1, FS_Subset
    <3>2. IsSum(G(Rest(t)), h, Rest(t))
      BY <3>1, <1>3
    <3>3. G(Rest(t))[Rest(t)] = G(t)[Rest(t)]
      BY <3>1, <3>2, <2>1, SumsAgree
    <3> QED
      BY <3>1, <3>3, <2>2, <2>4, <1>4
  <2> QED
    BY <2>3, <2>4
<1>5. \A t \in SUBSET s : t # {} => Rest(t) \subseteq s /\ Rest(t) # s
  BY OneOf
<1>6. \A t \in SUBSET s : t # {} => below[Rest(t)] = g[Rest(t)]
  BY <1>4, <1>5
<1>7. g = [t \in SUBSET s |-> IF t = {} THEN 0 ELSE h[One(t)] + g[Rest(t)]]
  <2> DEFINE gg == [t \in SUBSET s |-> IF t = {} THEN 0 ELSE h[One(t)] + g[Rest(t)]]
  <2> HIDE DEF below
  <2>1. \A t \in SUBSET s : g[t] = gg[t]
    BY <1>6
  <2> QED
    BY <2>1
<1>8. IsSum(g, h, s)
  BY <1>7 DEF IsSum
<1> QED
  BY <1>8, <1>2

\* The sum of h over S.
Sum(h, S) == MapThenSumSet(LAMBDA i : h[i], S)

\* The sum is the value of the recursion.
LEMMA SumIs ==
    ASSUME NEW S, IsFiniteSet(S), NEW h, NEW g, IsSum(g, h, S)
    PROVE  Sum(h, S) = g[S]
<1>1. PICK f : IsSum(f, h, S) /\ Sum(h, S) = f[S]
  BY DEF IsSum, One, Rest, Sum, MapThenSumSet, MapThenFoldSet
<1> QED
  BY <1>1, SumsAgree

\* Nothing adds up to nothing.
LEMMA SumOfNone == \A h : Sum(h, {}) = 0
<1>1. ASSUME NEW h PROVE Sum(h, {}) = 0
  <2>1. IsFiniteSet({})
    BY FS_EmptySet
  <2>2. PICK g : IsSum(g, h, {})
    BY <2>1, SumExists
  <2>3. g[{}] = 0
    BY <2>2 DEF IsSum
  <2> QED
    BY <2>1, <2>2, <2>3, SumIs
<1> QED
  BY <1>1

\* Only the values of the elements count.
LEMMA SumSame ==
    ASSUME NEW S, IsFiniteSet(S), NEW h, NEW k, \A x \in S : h[x] = k[x]
    PROVE  Sum(h, S) = Sum(k, S)
<1>1. PICK g : IsSum(g, h, S)
  BY SumExists
<1>2. PICK f : IsSum(f, k, S)
  BY SumExists
<1>3. g[S] = f[S]
  BY <1>1, <1>2, SumsAgree
<1> QED
  BY <1>1, <1>2, <1>3, SumIs

\* The sum is the value of the first element and the sum of the others.
LEMMA SumStep ==
    ASSUME NEW S, IsFiniteSet(S), NEW h, S # {}
    PROVE  Sum(h, S) = h[One(S)] + Sum(h, Rest(S))
<1>1. IsFiniteSet(Rest(S)) /\ Rest(S) \subseteq S
  BY OneOf, FS_Subset
<1>2. PICK g : IsSum(g, h, S)
  BY SumExists
<1>3. PICK f : IsSum(f, h, Rest(S))
  BY <1>1, SumExists
<1>4. g[Rest(S)] = f[Rest(S)]
  BY <1>1, <1>2, <1>3, SumsAgree
<1>5. g[S] = h[One(S)] + g[Rest(S)]
  BY <1>2 DEF IsSum
<1> QED
  BY <1>1, <1>2, <1>3, <1>4, <1>5, SumIs

\* Whole cents add up to whole cents.
LEMMA SumType ==
    ASSUME NEW S, IsFiniteSet(S), NEW h, \A x \in S : h[x] \in Int
    PROVE  Sum(h, S) \in Int
<1> DEFINE F == {s \in SUBSET S : Sum(h, s) \notin Int}
<1>1. SUFFICES ASSUME F # {} PROVE FALSE
  OBVIOUS
<1>2. PICK s \in F : \A t \in F : t \subseteq s => t = s
  <2>1. \A t \in F : IsFiniteSet(t)
    BY FS_Subset
  <2> HIDE DEF F
  <2> QED
    BY <1>1, <2>1, SmallestOf
<1>3. s # {} /\ IsFiniteSet(s)
  BY SumOfNone, FS_Subset
<1>4. Rest(s) \notin F /\ Rest(s) \subseteq S
  BY <1>2, <1>3, OneOf
<1>5. h[One(s)] \in Int
  BY <1>3, OneOf
<1> QED
  BY <1>3, <1>4, <1>5, SumStep

\* Whichever element is taken out, it adds its value.
LEMMA SumWithout ==
    ASSUME NEW S, IsFiniteSet(S), NEW h, \A x \in S : h[x] \in Int, NEW x \in S
    PROVE  Sum(h, S) = h[x] + Sum(h, S \ {x})
<1> DEFINE F == {s \in SUBSET S : \E y \in s : Sum(h, s) # h[y] + Sum(h, s \ {y})}
<1>1. SUFFICES ASSUME F # {} PROVE FALSE
  OBVIOUS
<1>2. PICK s \in F : \A t \in F : t \subseteq s => t = s
  <2>1. \A t \in F : IsFiniteSet(t)
    BY FS_Subset
  <2> HIDE DEF F
  <2> QED
    BY <1>1, <2>1, SmallestOf
<1>3. PICK y \in s : Sum(h, s) # h[y] + Sum(h, s \ {y})
  OBVIOUS
<1> DEFINE z == One(s)
<1> HIDE DEF z
<1>4. z \in s /\ Rest(s) = s \ {z} /\ s \subseteq S
  BY <1>3, OneOf DEF z, Rest
<1>5. IsFiniteSet(s) /\ IsFiniteSet(s \ {z}) /\ IsFiniteSet(s \ {y}) /\ IsFiniteSet(s \ {y, z})
  <2>1. s \ {z} \subseteq S /\ s \ {y} \subseteq S /\ s \ {y, z} \subseteq S
    BY <1>4
  <2> QED
    BY <1>4, <2>1, FS_Subset
<1>6. Sum(h, s) = h[z] + Sum(h, s \ {z})
  BY <1>3, <1>4, <1>5, SumStep DEF z
<1>7. y # z
  BY <1>3, <1>6
<1>8. s \ {z} \notin F /\ s \ {y} \notin F
  <2>1. s \ {z} # s /\ s \ {y} # s
    BY <1>3, <1>4
  <2>2. s \ {z} \subseteq s /\ s \ {y} \subseteq s
    OBVIOUS
  <2> HIDE DEF F
  <2> QED
    BY <1>2, <2>1, <2>2
<1>9. /\ Sum(h, s \ {z}) = h[y] + Sum(h, s \ {y, z})
      /\ Sum(h, s \ {y}) = h[z] + Sum(h, s \ {y, z})
  <2>1. y \in s \ {z} /\ z \in s \ {y}
    BY <1>3, <1>4, <1>7
  <2>2. (s \ {z}) \ {y} = s \ {y, z} /\ (s \ {y}) \ {z} = s \ {y, z}
    OBVIOUS
  <2>3. s \ {z} \in SUBSET S /\ s \ {y} \in SUBSET S
    BY <1>4
  <2>4. \A t \in SUBSET S : t \notin F => \A v \in t : Sum(h, t) = h[v] + Sum(h, t \ {v})
    OBVIOUS
  <2> HIDE DEF F
  <2>5. /\ Sum(h, s \ {z}) = h[y] + Sum(h, (s \ {z}) \ {y})
        /\ Sum(h, s \ {y}) = h[z] + Sum(h, (s \ {y}) \ {z})
    BY <1>8, <2>1, <2>3, <2>4
  <2> QED
    BY <2>2, <2>5
<1>10. h[y] \in Int /\ h[z] \in Int /\ Sum(h, s \ {y, z}) \in Int
  <2>1. \A v \in s \ {y, z} : h[v] \in Int
    BY <1>4
  <2> QED
    BY <1>3, <1>4, <1>5, <2>1, SumType
<1> QED
  BY <1>3, <1>6, <1>9, <1>10

-----------------------------------------------------------------------------
\* Values that come in pairs of a value and the row that takes it back add up
\* to the values that nothing takes back.
LEMMA PairsCancel ==
    ASSUME NEW S, IsFiniteSet(S), 0 \notin S, NEW a, NEW back, NEW h,
           \A i \in S : a[i] \in Int /\ h[i] = IF back[i] # 0 THEN -a[i] ELSE a[i],
           \A i \in S : back[i] # 0 =>
               back[i] \in S /\ back[back[i]] = 0 /\ a[back[i]] = a[i],
           \A i, j \in S : back[i] # 0 /\ back[i] = back[j] => i = j
    PROVE  Sum(h, S) = Sum(a, {i \in S : back[i] = 0 /\ \A j \in S : back[j] # i})
<1> DEFINE Standing(s) == {i \in s : back[i] = 0 /\ \A j \in s : back[j] # i}
           Closed(s) == \A i \in s : back[i] # 0 => back[i] \in s
           F == {s \in SUBSET S : Closed(s) /\ Sum(h, s) # Sum(a, Standing(s))}
<1>1. SUFFICES ASSUME F # {} PROVE FALSE
  <2>1. S \in SUBSET S /\ Closed(S)
    OBVIOUS
  <2> QED
    BY <1>1, <2>1
<1>2. PICK s \in F : \A t \in F : t \subseteq s => t = s
  <2>1. \A t \in F : IsFiniteSet(t)
    BY FS_Subset
  <2> HIDE DEF F
  <2> QED
    BY <1>1, <2>1, SmallestOf
<1>3. s \subseteq S /\ Closed(s) /\ IsFiniteSet(s) /\ Sum(h, s) # Sum(a, Standing(s))
  BY FS_Subset
<1>4. CASE \A i \in s : back[i] = 0
  <2>1. Standing(s) = s
    BY <1>3, <1>4
  <2>2. \A i \in s : h[i] = a[i]
    BY <1>3, <1>4
  <2> QED
    BY <1>3, <2>1, <2>2, SumSame
<1>5. ASSUME NEW j \in s, back[j] # 0 PROVE FALSE
  <2> DEFINE i == back[j]
             r == (s \ {j}) \ {i}
  <2>1. i \in s /\ i # j /\ back[i] = 0 /\ a[i] = a[j] /\ h[j] = -a[j] /\ h[i] = a[i]
    BY <1>3, <1>5
  <2> HIDE DEF i
  <2>2. Closed(r)
    <3>1. SUFFICES ASSUME NEW k \in r, back[k] # 0 PROVE back[k] \in r
      OBVIOUS
    <3>2. back[k] \in s /\ back[k] # i
      BY <1>3, <1>5, <2>1, <3>1 DEF i
    <3>3. back[k] # j
      BY <1>3, <1>5, <3>1
    <3> QED
      BY <3>2, <3>3
  <2>3. Standing(r) = Standing(s)
    <3>1. ASSUME NEW k \in Standing(s) PROVE k \in Standing(r)
      BY <1>3, <1>5, <2>1 DEF i
    <3>2. ASSUME NEW k \in Standing(r) PROVE k \in Standing(s)
      <4>1. k \in S /\ k # 0 /\ k # i /\ k \in s /\ back[k] = 0 /\ \A n \in r : back[n] # k
        BY <1>3
      <4>2. back[i] # k /\ back[j] # k
        BY <2>1, <4>1 DEF i
      <4> QED
        BY <4>1, <4>2
    <3> QED
      BY <3>1, <3>2
  <2>4. r \notin F /\ r \subseteq S
    <3>1. r \subseteq s /\ r # s
      BY <2>1
    <3> HIDE DEF F
    <3> QED
      BY <1>2, <1>3, <3>1
  <2>5. Sum(h, r) = Sum(a, Standing(s))
    BY <2>2, <2>3, <2>4
  <2>6. Sum(h, s) = h[j] + (h[i] + Sum(h, r))
    <3>1. IsFiniteSet(s \ {j}) /\ i \in s \ {j}
      BY <1>3, <2>1, FS_Subset
    <3>2. \A k \in s : h[k] \in Int
      BY <1>3
    <3>3. Sum(h, s) = h[j] + Sum(h, s \ {j})
      BY <1>3, <1>5, <3>2, SumWithout
    <3>4. Sum(h, s \ {j}) = h[i] + Sum(h, r)
      BY <3>1, <3>2, SumWithout
    <3> QED
      BY <3>3, <3>4
  <2>7. Sum(h, r) \in Int /\ a[j] \in Int
    <3>1. IsFiniteSet(r) /\ \A k \in r : h[k] \in Int
      BY <1>3, FS_Subset
    <3> QED
      BY <1>3, <1>5, <3>1, SumType
  <2> QED
    BY <1>3, <2>1, <2>5, <2>6, <2>7
<1> QED
  BY <1>4, <1>5

\* A family of subsets that holds nothing, and with a subset each larger by
\* one element, holds the whole finite set.
LEMMA SetInduction ==
    ASSUME NEW S, IsFiniteSet(S), NEW F, {} \in F,
           \A s \in SUBSET S : \A x \in S \ s : s \in F => s \cup {x} \in F
    PROVE  S \in F
<1> DEFINE N == {s \in SUBSET S : s \notin F}
<1>1. SUFFICES ASSUME N # {} PROVE FALSE
  OBVIOUS
<1>2. \A s \in N : IsFiniteSet(s)
  BY FS_Subset
<1> HIDE DEF N
<1>3. PICK s \in N : \A t \in N : t \subseteq s => t = s
  BY <1>1, <1>2, SmallestOf
<1> USE DEF N
<1>4. PICK x \in s : TRUE
  OBVIOUS
<1>5. s \ {x} \notin N /\ s \ {x} \in SUBSET S
  BY <1>3
<1>6. (s \ {x}) \cup {x} = s
  OBVIOUS
<1> QED
  BY <1>5, <1>6

\* One more element adds its value.
LEMMA SumWith ==
    ASSUME NEW S, IsFiniteSet(S), NEW h, NEW x, x \notin S, h[x] \in Int,
           \A y \in S : h[y] \in Int
    PROVE  Sum(h, S \cup {x}) = Sum(h, S) + h[x] /\ Sum(h, S) \in Int
<1>1. IsFiniteSet(S \cup {x}) /\ (S \cup {x}) \ {x} = S /\ x \in S \cup {x}
  BY FS_AddElement
<1>2. \A y \in S \cup {x} : h[y] \in Int
  OBVIOUS
<1>3. Sum(h, S \cup {x}) = h[x] + Sum(h, (S \cup {x}) \ {x})
  BY <1>1, <1>2, SumWithout
<1>4. Sum(h, S) \in Int
  BY SumType
<1>5. Sum(h, (S \cup {x}) \ {x}) = Sum(h, S)
  BY <1>1
<1> QED
  BY <1>3, <1>4, <1>5

\* Sums are added value by value.
LEMMA SumAdd ==
    ASSUME NEW S, IsFiniteSet(S), NEW h, NEW k, NEW m,
           \A x \in S : h[x] \in Int /\ k[x] \in Int /\ m[x] = h[x] + k[x]
    PROVE  Sum(m, S) = Sum(h, S) + Sum(k, S)
<1>0. \A x \in S : h[x] \in Int /\ k[x] \in Int /\ m[x] \in Int
  OBVIOUS
<1> DEFINE F == {s \in SUBSET S : Sum(m, s) = Sum(h, s) + Sum(k, s)}
<1>1. {} \in F
  BY SumOfNone
<1>2. ASSUME NEW s \in SUBSET S, NEW x \in S \ s, s \in F PROVE s \cup {x} \in F
  <2>1. IsFiniteSet(s) /\ s \cup {x} \subseteq S
    BY FS_Subset
  <2>2. Sum(m, s \cup {x}) = Sum(m, s) + m[x] /\ Sum(m, s) \in Int
    BY <1>0, <2>1, SumWith
  <2>3. Sum(h, s \cup {x}) = Sum(h, s) + h[x] /\ Sum(h, s) \in Int
    BY <1>0, <2>1, SumWith
  <2>4. Sum(k, s \cup {x}) = Sum(k, s) + k[x] /\ Sum(k, s) \in Int
    BY <1>0, <2>1, SumWith
  <2> QED
    BY <1>2, <2>1, <2>2, <2>3, <2>4
<1> HIDE DEF F
<1>3. S \in F
  BY <1>1, <1>2, SetInduction
<1> QED
  BY <1>3 DEF F

\* A common factor.
LEMMA SumTimes ==
    ASSUME NEW S, IsFiniteSet(S), NEW c \in Int, NEW h, NEW m,
           \A x \in S : h[x] \in Int /\ m[x] = c * h[x]
    PROVE  Sum(m, S) = c * Sum(h, S)
<1>0. \A x \in S : c * h[x] \in Int /\ m[x] \in Int
  OBVIOUS
<1> DEFINE F == {s \in SUBSET S : Sum(m, s) = c * Sum(h, s)}
<1>1. {} \in F
  BY SumOfNone
<1>2. ASSUME NEW s \in SUBSET S, NEW x \in S \ s, s \in F PROVE s \cup {x} \in F
  <2>1. IsFiniteSet(s) /\ s \cup {x} \subseteq S
    BY FS_Subset
  <2>3. Sum(m, s \cup {x}) = Sum(m, s) + m[x] /\ Sum(m, s) \in Int
    BY <1>0, <2>1, SumWith
  <2>4. Sum(h, s \cup {x}) = Sum(h, s) + h[x] /\ Sum(h, s) \in Int
    BY <2>1, SumWith
  <2>5. \A a, b \in Int : c * (a + b) = c * a + c * b
    OBVIOUS
  <2>6. h[x] \in Int /\ m[x] = c * h[x] /\ Sum(m, s) = c * Sum(h, s)
    BY <1>2
  <2>7. Sum(m, s \cup {x}) = c * Sum(h, s \cup {x})
    BY <2>3, <2>4, <2>5, <2>6
  <2> QED
    BY <2>1, <2>7
<1> HIDE DEF F
<1>3. S \in F
  BY <1>1, <1>2, SetInduction
<1> QED
  BY <1>3 DEF F

\* Nothing but zeroes.
LEMMA SumZero ==
    ASSUME NEW S, IsFiniteSet(S), NEW h, \A x \in S : h[x] = 0
    PROVE  Sum(h, S) = 0
<1>0. \A x \in S : h[x] \in Int
  OBVIOUS
<1> DEFINE F == {s \in SUBSET S : Sum(h, s) = 0}
<1>1. {} \in F
  BY SumOfNone
<1>2. ASSUME NEW s \in SUBSET S, NEW x \in S \ s, s \in F PROVE s \cup {x} \in F
  <2>1. IsFiniteSet(s) /\ s \cup {x} \subseteq S
    BY FS_Subset
  <2>2. Sum(h, s \cup {x}) = Sum(h, s) + h[x] /\ Sum(h, s) \in Int
    BY <1>0, <2>1, SumWith
  <2> QED
    BY <1>2, <2>1, <2>2
<1> HIDE DEF F
<1>3. S \in F
  BY <1>1, <1>2, SetInduction
<1> QED
  BY <1>3 DEF F

\* No value is negative, and no sum.
LEMMA SumNat ==
    ASSUME NEW S, IsFiniteSet(S), NEW h, \A x \in S : h[x] \in Nat
    PROVE  Sum(h, S) \in Nat
<1> DEFINE F == {s \in SUBSET S : Sum(h, s) \in Nat}
<1>1. {} \in F
  BY SumOfNone
<1>2. ASSUME NEW s \in SUBSET S, NEW x \in S \ s, s \in F PROVE s \cup {x} \in F
  <2>1. IsFiniteSet(s) /\ s \cup {x} \subseteq S
    BY FS_Subset
  <2>2. Sum(h, s \cup {x}) = Sum(h, s) + h[x] /\ Sum(h, s) \in Int
    BY <2>1, SumWith
  <2> QED
    BY <1>2, <2>1, <2>2
<1> HIDE DEF F
<1>3. S \in F
  BY <1>1, <1>2, SetInduction
<1> QED
  BY <1>3 DEF F

\* Two parts without a common element.
LEMMA SumUnion ==
    ASSUME NEW S, NEW T, IsFiniteSet(S), IsFiniteSet(T), S \cap T = {}, NEW h,
           \A x \in S \cup T : h[x] \in Int
    PROVE  Sum(h, S \cup T) = Sum(h, S) + Sum(h, T)
<1> DEFINE F == {t \in SUBSET T : Sum(h, S \cup t) = Sum(h, S) + Sum(h, t)}
<1>1. {} \in F
  <2>1. Sum(h, S) \in Int /\ S \cup {} = S
    BY SumType
  <2> QED
    BY <2>1, SumOfNone
<1>2. ASSUME NEW t \in SUBSET T, NEW x \in T \ t, t \in F PROVE t \cup {x} \in F
  <2>1. IsFiniteSet(t) /\ t \cup {x} \subseteq T /\ IsFiniteSet(S \cup t)
    BY FS_Subset, FS_Union
  <2>2. Sum(h, t \cup {x}) = Sum(h, t) + h[x] /\ Sum(h, t) \in Int
    BY <2>1, SumWith
  <2>3. S \cup (t \cup {x}) = (S \cup t) \cup {x} /\ x \notin S \cup t
    OBVIOUS
  <2>4. Sum(h, (S \cup t) \cup {x}) = Sum(h, S \cup t) + h[x]
    BY <2>1, <2>3, SumWith
  <2>5. Sum(h, S) \in Int /\ h[x] \in Int
    BY SumType
  <2> QED
    <3>1. Sum(h, S \cup (t \cup {x})) = Sum(h, (S \cup t) \cup {x})
      BY <2>3
    <3>2. Sum(h, S \cup t) = Sum(h, S) + Sum(h, t)
      BY <1>2
    <3>3. Sum(h, S \cup (t \cup {x})) = Sum(h, S) + Sum(h, t \cup {x})
      BY <2>2, <2>4, <2>5, <3>1, <3>2
    <3> QED
      BY <2>1, <3>3
<1> HIDE DEF F
<1>3. T \in F
  BY <1>1, <1>2, SetInduction
<1> QED
  BY <1>3 DEF F

\* What adds nothing may be left out.
LEMMA SumOnly ==
    ASSUME NEW S, IsFiniteSet(S), NEW T, T \subseteq S, NEW h,
           \A x \in T : h[x] \in Int, \A x \in S \ T : h[x] = 0
    PROVE  Sum(h, S) = Sum(h, T)
<1>1. IsFiniteSet(T) /\ IsFiniteSet(S \ T) /\ T \cap (S \ T) = {} /\ T \cup (S \ T) = S
  BY FS_Subset
<1>2. Sum(h, S) = Sum(h, T) + Sum(h, S \ T)
  <2>1. \A x \in T \cup (S \ T) : h[x] \in Int
    OBVIOUS
  <2> QED
    BY <1>1, <2>1, SumUnion
<1>3. Sum(h, S \ T) = 0 /\ Sum(h, T) \in Int
  BY <1>1, SumZero, SumType
<1> QED
  BY <1>2, <1>3

\* A sum over one element.
LEMMA SumOne ==
    ASSUME NEW x, NEW h, h[x] \in Int
    PROVE  Sum(h, {x}) = h[x]
<1>1. IsFiniteSet({x}) /\ {x} \ {x} = {} /\ x \in {x}
  BY FS_Singleton
<1>2. Sum(h, {x}) = h[x] + Sum(h, {x} \ {x})
  BY <1>1, SumWithout
<1> QED
  BY <1>1, <1>2, SumOfNone

\* The same values over other names.
LEMMA SumRenamed ==
    ASSUME NEW S, IsFiniteSet(S), NEW T, NEW b, NEW h, NEW k,
           T = {b[x] : x \in S}, \A x, y \in S : b[x] = b[y] => x = y,
           \A x \in S : h[x] \in Int /\ h[x] = k[b[x]]
    PROVE  IsFiniteSet(T) /\ Sum(h, S) = Sum(k, T)
<1> DEFINE Image(s) == {b[x] : x \in s}
           F == {s \in SUBSET S : IsFiniteSet(Image(s)) /\ Sum(h, s) = Sum(k, Image(s))}
<1>0. \A x \in S : h[x] \in Int /\ k[b[x]] \in Int
  OBVIOUS
<1>1. {} \in F
  <2>1. Image({}) = {}
    OBVIOUS
  <2> QED
    BY <2>1, SumOfNone, FS_EmptySet
<1>2. ASSUME NEW s \in SUBSET S, NEW x \in S \ s, s \in F PROVE s \cup {x} \in F
  <2>1. IsFiniteSet(s) /\ s \cup {x} \subseteq S
    BY FS_Subset
  <2>2. Sum(h, s \cup {x}) = Sum(h, s) + h[x] /\ Sum(h, s) \in Int
    BY <1>0, <2>1, SumWith
  <2>3. Image(s \cup {x}) = Image(s) \cup {b[x]} /\ b[x] \notin Image(s)
    OBVIOUS
  <2>4. IsFiniteSet(Image(s)) /\ Sum(h, s) = Sum(k, Image(s))
    BY <1>2
  <2>5. \A y \in Image(s) : k[y] \in Int
    BY <1>0
  <2>8. k[b[x]] \in Int /\ h[x] = k[b[x]]
    BY <1>0
  <2> HIDE DEF Image
  <2>6. /\ Sum(k, Image(s) \cup {b[x]}) = Sum(k, Image(s)) + k[b[x]]
        /\ IsFiniteSet(Image(s) \cup {b[x]})
    <3> DEFINE i == Image(s)
               v == b[x]
    <3>1. IsFiniteSet(i) /\ v \notin i /\ k[v] \in Int /\ \A y \in i : k[y] \in Int
      BY <2>3, <2>4, <2>5, <2>8
    <3> HIDE DEF i, v
    <3>2. Sum(k, i \cup {v}) = Sum(k, i) + k[v] /\ IsFiniteSet(i \cup {v})
      BY <3>1, SumWith, FS_AddElement
    <3> QED
      BY <3>2 DEF i, v
  <2>7. IsFiniteSet(Image(s \cup {x})) /\ Sum(h, s \cup {x}) = Sum(k, Image(s \cup {x}))
    BY <2>2, <2>3, <2>4, <2>6, <2>8
  <2> QED
    BY <2>1, <2>7
<1> HIDE DEF F
<1>3. S \in F
  BY <1>1, <1>2, SetInduction
<1> QED
  BY <1>3 DEF F

\* Each element has a value and a key, each key the sum of its elements.
Keyed(S, K, key, part, h, m) ==
    /\ \A x \in S : key[x] \in K /\ h[x] \in Int
    /\ \A k \in K : /\ \A x : x \in part[k] <=> x \in S /\ key[x] = k
                    /\ m[k] = Sum(h, part[k])

\* A sum is the sum over keys of the sums of the elements with the key.
LEMMA SumByKey ==
    ASSUME NEW S, IsFiniteSet(S), NEW K, IsFiniteSet(K), NEW key, NEW part,
           NEW h, NEW m, Keyed(S, K, key, part, h, m)
    PROVE  Sum(h, S) = Sum(m, K)
<1> USE DEF Keyed
<1> DEFINE Under(L) == {x \in S : key[x] \in L}
           F == {L \in SUBSET K : Sum(h, Under(L)) = Sum(m, L)}
<1>0. \A k \in K : m[k] \in Int
  <2> SUFFICES ASSUME NEW k \in K PROVE m[k] \in Int
    OBVIOUS
  <2> DEFINE s == part[k]
  <2>1. IsFiniteSet(s) /\ \A x \in s : h[x] \in Int
    BY FS_Subset
  <2>2. m[k] = Sum(h, s)
    OBVIOUS
  <2> HIDE DEF s
  <2> QED
    BY <2>1, <2>2, SumType
<1>1. {} \in F
  <2>1. Under({}) = {}
    OBVIOUS
  <2> QED
    BY <2>1, SumOfNone
<1>2. ASSUME NEW L \in SUBSET K, NEW k \in K \ L, L \in F PROVE L \cup {k} \in F
  <2> DEFINE s == part[k]
             t == Under(L)
  <2>1. IsFiniteSet(L) /\ IsFiniteSet(s) /\ IsFiniteSet(t)
    <3>1. s \subseteq S /\ t \subseteq S /\ L \subseteq K
      OBVIOUS
    <3> QED
      BY <3>1, FS_Subset
  <2>2. Sum(m, L \cup {k}) = Sum(m, L) + m[k] /\ Sum(m, L) \in Int
    BY <1>0, <2>1, SumWith
  <2>3. Under(L \cup {k}) = t \cup s /\ t \cap s = {}
    OBVIOUS
  <2>4. \A x \in t \cup s : h[x] \in Int
    OBVIOUS
  <2>5. m[k] = Sum(h, s)
    OBVIOUS
  <2>8. Sum(h, t) = Sum(m, L)
    BY <1>2
  <2> HIDE DEF t, s, Under
  <2>6. Sum(h, t \cup s) = Sum(h, t) + Sum(h, s)
    BY <2>1, <2>3, <2>4, SumUnion
  <2>7. Sum(h, Under(L \cup {k})) = Sum(m, L \cup {k})
    BY <2>2, <2>3, <2>5, <2>6, <2>8
  <2> QED
    BY <2>7
<1>3. K \in F
  <2> HIDE DEF F
  <2> QED
    BY <1>1, <1>2, SetInduction
<1>4. Under(K) = S
  OBVIOUS
<1> HIDE DEF Under
<1> QED
  BY <1>3, <1>4

\* Numbers in rows and columns.
Table(h, A, B) == \A p \in A \X B : h[p] \in Int

RowSum(h, a, B) == Sum([b \in B |-> h[<<a, b>>]], B)

ColumnSum(h, A, b) == Sum([a \in A |-> h[<<a, b>>]], A)

\* A table is added up row by row, or column by column.
LEMMA SumOfTable ==
    ASSUME NEW A, IsFiniteSet(A), NEW B, IsFiniteSet(B), NEW h,
           Table(h, A, B),
           NEW f, \A a \in A : f[a] = RowSum(h, a, B),
           NEW g, \A b \in B : g[b] = ColumnSum(h, A, b)
    PROVE  Sum(h, A \X B) = Sum(f, A) /\ Sum(h, A \X B) = Sum(g, B)
<1> DEFINE P == A \X B
<1>1. IsFiniteSet(P)
  BY FS_Product
<1>2. Sum(h, P) = Sum(f, A)
  <2> DEFINE key == [p \in P |-> p[1]]
             part == [a \in A |-> {p \in P : key[p] = a}]
  <2>1. ASSUME NEW a \in A
               PROVE  /\ \A p : p \in part[a] <=> p \in P /\ key[p] = a
                      /\ f[a] = Sum(h, part[a])
    <3> DEFINE pair == [b \in B |-> <<a, b>>]
               row == [b \in B |-> h[<<a, b>>]]
               T == {p \in P : key[p] = a}
    <3>1. T = {pair[b] : b \in B} /\ \A b, c \in B : pair[b] = pair[c] => b = c
      OBVIOUS
    <3>2. \A b \in B : row[b] \in Int /\ row[b] = h[pair[b]]
      BY DEF Table
    <3>3. f[a] = Sum(row, B)
      BY DEF RowSum
    <3> HIDE DEF pair, row, T
    <3>4. Sum(row, B) = Sum(h, T)
      BY <3>1, <3>2, SumRenamed
    <3> QED
      BY <3>3, <3>4 DEF T, part
  <2>2. \A p \in P : key[p] \in A /\ h[p] \in Int
    BY DEF Table
  <2> HIDE DEF key, part, P
  <2>3. Keyed(P, A, key, part, h, f)
    BY <2>1, <2>2 DEF Keyed
  <2> QED
    BY <1>1, <2>3, SumByKey
<1>3. Sum(h, P) = Sum(g, B)
  <2> DEFINE key == [p \in P |-> p[2]]
             part == [b \in B |-> {p \in P : key[p] = b}]
  <2>1. ASSUME NEW b \in B
               PROVE  /\ \A p : p \in part[b] <=> p \in P /\ key[p] = b
                      /\ g[b] = Sum(h, part[b])
    <3> DEFINE pair == [a \in A |-> <<a, b>>]
               column == [a \in A |-> h[<<a, b>>]]
               T == {p \in P : key[p] = b}
    <3>1. T = {pair[a] : a \in A} /\ \A a, c \in A : pair[a] = pair[c] => a = c
      OBVIOUS
    <3>2. \A a \in A : column[a] \in Int /\ column[a] = h[pair[a]]
      BY DEF Table
    <3>3. g[b] = Sum(column, A)
      BY DEF ColumnSum
    <3> HIDE DEF pair, column, T
    <3>4. Sum(column, A) = Sum(h, T)
      BY <3>1, <3>2, SumRenamed
    <3> QED
      BY <3>3, <3>4 DEF T, part
  <2>2. \A p \in P : key[p] \in B /\ h[p] \in Int
    BY DEF Table
  <2> HIDE DEF key, part, P
  <2>3. Keyed(P, B, key, part, h, g)
    BY <2>1, <2>2 DEF Keyed
  <2> QED
    BY <1>1, <2>3, SumByKey
<1> QED
  BY <1>2, <1>3

\* The sums of the rows, and the sums of the columns.
Rows(h, A, B) == [a \in A |-> RowSum(h, a, B)]

Columns(h, A, B) == [b \in B |-> ColumnSum(h, A, b)]

\* The rows together, and the columns together, are the table.
LEMMA SumOfRows ==
    ASSUME NEW A, IsFiniteSet(A), NEW B, IsFiniteSet(B), NEW h, Table(h, A, B)
    PROVE  Sum(h, A \X B) = Sum(Rows(h, A, B), A) /\ Sum(h, A \X B) = Sum(Columns(h, A, B), B)
<1> DEFINE f == Rows(h, A, B)
           g == Columns(h, A, B)
<1>1. (\A a \in A : f[a] = RowSum(h, a, B)) /\ \A b \in B : g[b] = ColumnSum(h, A, b)
  BY DEF Rows, Columns
<1> HIDE DEF f, g
<1>2. Sum(h, A \X B) = Sum(f, A) /\ Sum(h, A \X B) = Sum(g, B)
  BY <1>1, SumOfTable
<1> QED
  BY <1>2 DEF f, g

\* Every element once.
LEMMA SumOfOnes ==
    ASSUME NEW S, IsFiniteSet(S), NEW h, \A x \in S : h[x] = 1
    PROVE  Sum(h, S) = Cardinality(S)
<1>0. \A x \in S : h[x] \in Int
  OBVIOUS
<1> DEFINE F == {s \in SUBSET S : Sum(h, s) = Cardinality(s)}
<1>1. {} \in F
  BY SumOfNone, FS_EmptySet
<1>2. ASSUME NEW s \in SUBSET S, NEW x \in S \ s, s \in F PROVE s \cup {x} \in F
  <2>1. IsFiniteSet(s) /\ s \cup {x} \subseteq S
    BY FS_Subset
  <2>2. Sum(h, s \cup {x}) = Sum(h, s) + h[x] /\ Sum(h, s) \in Int
    BY <1>0, <2>1, SumWith
  <2>3. Cardinality(s \cup {x}) = Cardinality(s) + 1
    BY <2>1, FS_AddElement
  <2> QED
    BY <1>2, <2>1, <2>2, <2>3
<1> HIDE DEF F
<1>3. S \in F
  BY <1>1, <1>2, SetInduction
<1> QED
  BY <1>3 DEF F

\* The same value on each of some elements, and nothing on the others.
ValueOn(h, W, D, c) == \A d \in W : h[d] = IF d \in D THEN c ELSE 0

\* A value on every day of a part of a period.
LEMMA SumOfDays ==
    ASSUME NEW W, IsFiniteSet(W), NEW a \in Int, NEW b \in Int, a <= b,
           a .. b - 1 \subseteq W, NEW c \in Int, NEW h,
           ValueOn(h, W, a .. b - 1, c)
    PROVE  Sum(h, W) = c * (b - a)
<1> DEFINE D == a .. b - 1
           one == [d \in D |-> 1]
<1>1. IsFiniteSet(D) /\ Cardinality(D) = b - a
  <2>1. IsFiniteSet(D) /\ Cardinality(D) = IF a > b - 1 THEN 0 ELSE (b - 1) - a + 1
    BY FS_Interval
  <2> QED
    BY <2>1
<1>2. Sum(h, W) = Sum(h, D)
  <2>1. \A d \in D : h[d] \in Int
    BY DEF ValueOn
  <2>2. D \subseteq W /\ \A d \in W \ D : h[d] = 0
    BY DEF ValueOn
  <2> HIDE DEF D
  <2> QED
    BY <2>1, <2>2, SumOnly
<1>3. Sum(h, D) = c * Sum(one, D)
  <2>1. \A d \in D : one[d] \in Int /\ h[d] = c * one[d]
    BY DEF ValueOn
  <2> HIDE DEF D, one
  <2> QED
    BY <1>1, <2>1, SumTimes
<1>4. Sum(one, D) = Cardinality(D)
  <2>1. \A d \in D : one[d] = 1
    OBVIOUS
  <2> HIDE DEF D, one
  <2> QED
    BY <1>1, <2>1, SumOfOnes
<1> QED
  BY <1>1, <1>2, <1>3, <1>4
=============================================================================
