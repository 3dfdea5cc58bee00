----------------------- MODULE CostAllocation_proofs -----------------------
(***************************************************************************)
(* The allocation of costs, for any building that the tables can hold: the *)
(* lines of a cost and the days they stand for. The engine cuts the time   *)
(* of a unit into tenancies and vacancies, and those into pieces; every    *)
(* piece is a line. The reference in MCEngines goes day by day. Every day  *)
(* of a unit is in the line of its tenant or in a vacancy, so a sum over   *)
(* the lines is a sum over the days.                                       *)
(*                                                                         *)
(* That is shown key by key: by area, by units and for one unit, with the  *)
(* days that the owner bears for want of an agreement; by persons, with    *)
(* the counts entered and those assumed for empty units; and by            *)
(* consumption, of which a figure belongs to a single party.               *)
(***************************************************************************)
EXTENDS MCEngines, SumTheorems

-----------------------------------------------------------------------------
(* Periods of days.                                                        *)

\* A record with the days of a period, and what it may be clipped to.
HasDays(p) == DOMAIN p \cap {"from", "to"} = {"from", "to"} /\ p.from \in Int /\ p.to \in Int

\* Clipping keeps the days that are in the window, and every other field.
LEMMA ClipKeepsDays ==
    ASSUME NEW p, HasDays(p), NEW w, w.from \in Int, w.to \in Int
    PROVE  /\ HasDays(Clip(p, w)) /\ DOMAIN Clip(p, w) = DOMAIN p
           /\ DaysOf(Clip(p, w)) = DaysOf(p) \cap DaysOf(w)
           /\ Clip(p, w).from = Later(p.from, w.from) /\ Clip(p, w).to = Earlier(p.to, w.to)
           /\ \A x \in DOMAIN p \ {"from", "to"} : Clip(p, w)[x] = p[x]
<1> DEFINE c == Clip(p, w)
<1>1. /\ DOMAIN c = DOMAIN p /\ c.from = Later(p.from, w.from) /\ c.to = Earlier(p.to, w.to)
      /\ \A x \in DOMAIN p \ {"from", "to"} : c[x] = p[x]
  BY DEF Clip, HasDays
<1>2. Later(p.from, w.from) \in Int /\ Earlier(p.to, w.to) \in Int
  BY DEF Later, Earlier, HasDays
<1>3. DaysOf(c) = DaysOf(p) \cap DaysOf(w)
  BY <1>1 DEF DaysOf, Later, Earlier, HasDays
<1> QED
  BY <1>1, <1>2, <1>3 DEF HasDays

\* The days of a period inside a window are counted one by one.
LEMMA DaysInCounted ==
    ASSUME NEW p, p.from \in Int, p.to \in Int, NEW w, w.from \in Int, w.to \in Int,
           NEW c \in Int, NEW h, ValueOn(h, DaysOf(w), DaysOf(p), c)
    PROVE  Sum(h, DaysOf(w)) = c * DaysIn(p, w) /\ DaysIn(p, w) \in Nat
<1> DEFINE a == Later(p.from, w.from)
           b == Later(a, Earlier(p.to, w.to))
           W == DaysOf(w)
<1>1. a \in Int /\ b \in Int /\ a <= b /\ DaysIn(p, w) = b - a
  BY DEF Later, Earlier, DaysIn
<1>2. a .. b - 1 = DaysOf(p) \cap W
  BY DEF Later, Earlier, DaysOf
<1>3. IsFiniteSet(W)
  BY FS_Interval DEF DaysOf
<1> HIDE DEF a, b
<1>4. a .. b - 1 \subseteq W
  BY <1>2
<1>5. ValueOn(h, W, a .. b - 1, c)
  BY <1>2 DEF ValueOn
<1> HIDE DEF W
<1>6. Sum(h, W) = c * (b - a)
  BY <1>1, <1>3, <1>4, <1>5, SumOfDays
<1> QED
  BY <1>1, <1>6 DEF W

\* A period has a day in the window exactly when it has days in it.
LEMMA DaysInMeets ==
    ASSUME NEW p, p.from \in Int, p.to \in Int, NEW w, w.from \in Int, w.to \in Int
    PROVE  DaysIn(p, w) > 0 <=> DaysOf(p) \cap DaysOf(w) # {}
<1>1. ASSUME DaysIn(p, w) > 0 PROVE Later(p.from, w.from) \in DaysOf(p) \cap DaysOf(w)
  BY <1>1 DEF DaysIn, Later, Earlier, DaysOf
<1>2. ASSUME NEW d \in DaysOf(p) \cap DaysOf(w) PROVE DaysIn(p, w) > 0
  BY DEF DaysIn, Later, Earlier, DaysOf
<1> QED
  BY <1>1, <1>2

\* Periods that share out some days: each day is in one of them.
SharesOut(P, D) ==
    /\ IsFiniteSet(P)
    /\ \A p \in P : p.from \in Int /\ p.to \in Int /\ p.from < p.to /\ DaysOf(p) \subseteq D
    /\ \A d \in D : \E p \in P : d \in DaysOf(p)
    /\ \A p, q \in P : DaysOf(p) \cap DaysOf(q) # {} => p = q

\* What is summed over the days of each of them is summed over all the days.
LEMMA SumOfShares ==
    ASSUME NEW P, NEW D, IsFiniteSet(D), SharesOut(P, D), NEW h, \A d \in D : h[d] \in Int,
           NEW m, \A p \in P : m[p] = Sum(h, DaysOf(p))
    PROVE  Sum(h, D) = Sum(m, P)
<1> DEFINE key == [d \in D |-> CHOOSE p \in P : d \in DaysOf(p)]
           part == [p \in P |-> DaysOf(p)]
<1>1. \A d \in D : key[d] \in P /\ d \in DaysOf(key[d])
  BY DEF SharesOut
<1>2. ASSUME NEW p \in P
      PROVE  /\ \A d : d \in part[p] <=> d \in D /\ key[d] = p
             /\ m[p] = Sum(h, part[p])
  <2>1. part[p] = DaysOf(p) /\ DaysOf(p) \subseteq D
    BY DEF SharesOut
  <2>2. \A d \in DaysOf(p) : d \in DaysOf(key[d]) /\ key[d] \in P
    BY <1>1, <2>1
  <2>3. \A d \in DaysOf(p) : key[d] = p
    BY <2>2 DEF SharesOut
  <2> QED
    BY <1>1, <2>1, <2>3
<1>3. \A d \in D : key[d] \in P /\ h[d] \in Int
  BY <1>1
<1>4. IsFiniteSet(P)
  BY DEF SharesOut
<1> HIDE DEF key, part
<1>5. Keyed(D, P, key, part, h, m)
  BY <1>2, <1>3 DEF Keyed
<1> QED
  BY <1>4, <1>5, SumByKey

\* Periods without a common day are finitely many if the days are.
LEMMA SharesAreFinite ==
    ASSUME NEW P, NEW D, IsFiniteSet(D),
           \A p \in P : p.from \in D,
           \A p, q \in P : p.from = q.from => p = q
    PROVE  IsFiniteSet(P)
<1> DEFINE f == [p \in P |-> p.from]
<1>1. f \in Injection(P, D)
  BY DEF Injection, IsInjective
<1> HIDE DEF f
<1> QED
  BY <1>1, FS_Injection

\* The maximal pieces of some days share them out.
Pieces(free) ==
    {[from |-> s[1], to |-> s[2] + 1] :
        s \in {x \in free \X free :
            /\ x[1] <= x[2] /\ x[1] .. x[2] \subseteq free
            /\ x[1] - 1 \notin free /\ x[2] + 1 \notin free}}

\* Each of the days is in one of the pieces.
LEMMA PiecesShareOut ==
    ASSUME NEW a \in Int, NEW b \in Int, NEW free, free \subseteq a .. b
    PROVE  SharesOut(Pieces(free), free)
<1>0. free \subseteq Int
  OBVIOUS
<1>1. \A p \in Pieces(free) :
         /\ p.from \in free /\ p.to \in Int /\ p.from < p.to
         /\ p.from .. p.to - 1 \subseteq free /\ p.from - 1 \notin free /\ p.to \notin free
         /\ p = [from |-> p.from, to |-> p.to]
  <2> SUFFICES ASSUME NEW s \in free \X free, s[1] <= s[2], s[1] .. s[2] \subseteq free,
                      s[1] - 1 \notin free, s[2] + 1 \notin free,
                      NEW p, p = [from |-> s[1], to |-> s[2] + 1]
               PROVE  /\ p.from \in free /\ p.to \in Int /\ p.from < p.to
                      /\ p.from .. p.to - 1 \subseteq free /\ p.from - 1 \notin free
                      /\ p.to \notin free /\ p = [from |-> p.from, to |-> p.to]
    BY DEF Pieces
  <2>1. s[1] \in Int /\ s[2] \in Int /\ s[1] \in free
    <3>1. s[1] \in free /\ s[2] \in free
      OBVIOUS
    <3> QED
      BY <1>0, <3>1
  <2>2. p.from = s[1] /\ p.to = s[2] + 1
    OBVIOUS
  <2> QED
    BY <2>1, <2>2
<1>2. \A x, y \in free :
         x <= y /\ x .. y \subseteq free /\ x - 1 \notin free /\ y + 1 \notin free
         => [from |-> x, to |-> y + 1] \in Pieces(free)
  <2> SUFFICES ASSUME NEW x \in free, NEW y \in free,
                      x <= y, x .. y \subseteq free, x - 1 \notin free, y + 1 \notin free
               PROVE  [from |-> x, to |-> y + 1] \in Pieces(free)
    OBVIOUS
  <2> DEFINE s == <<x, y>>
  <2>1. s \in free \X free /\ s[1] = x /\ s[2] = y
    OBVIOUS
  <2> QED
    BY <2>1 DEF Pieces
<1>3. ASSUME NEW d \in free
      PROVE  \E p \in Pieces(free) : d \in DaysOf(p)
  <2> DEFINE L == {x \in Int : x < d /\ x \notin free}
             U == {x \in Int : -x > d /\ -x \notin free}
  <2>1. a - 1 \in L /\ -(b + 1) \in U /\ d \in Int
    OBVIOUS
  <2>2. PICK x \in L : \A e \in L : e <= x
    <3>1. \A e \in L : e <= d
      BY <2>1
    <3>2. L \subseteq Int /\ L # {}
      BY <2>1
    <3> HIDE DEF L
    <3> QED
      BY <2>1, <3>1, <3>2, GreatestOf
  <2>3. PICK z \in U : \A e \in U : e <= z
    <3>1. \A e \in U : e <= -d
      BY <2>1
    <3>2. U \subseteq Int /\ U # {} /\ -d \in Int
      BY <2>1
    <3> HIDE DEF U
    <3> QED
      BY <3>1, <3>2, GreatestOf
  <2> DEFINE y == -z
  <2>4. x \in Int /\ y \in Int /\ x < d /\ d < y /\ x \notin free /\ y \notin free
    OBVIOUS
  <2>5. ASSUME NEW e \in x + 1 .. y - 1 PROVE e \in free
    <3>1. CASE e = d
      BY <3>1
    <3>2. CASE e < d
      BY <2>2, <2>4, <3>2
    <3>3. CASE e > d
      <4>1. e \notin free => -e \in U
        BY <3>3, <2>4
      <4>2. e \in Int /\ z \in Int /\ -e \in Int /\ -e > z
        OBVIOUS
      <4>3. -e \in U => -e <= z
        BY <2>3
      <4> HIDE DEF U, y
      <4> QED
        BY <4>1, <4>2, <4>3
    <3> QED
      BY <3>1, <3>2, <3>3, <2>1, <2>4
  <2> DEFINE l == x + 1
             r == y - 1
  <2>6. l \in free /\ r \in free /\ l <= r /\ l .. r \subseteq free /\ d \in l .. r
    BY <2>4, <2>5
  <2>7. l - 1 \notin free /\ r + 1 \notin free /\ l \in Int /\ r \in Int
    BY <2>4
  <2> HIDE DEF l, r
  <2>8. [from |-> l, to |-> r + 1] \in Pieces(free)
    BY <1>2, <2>6, <2>7
  <2>9. d \in DaysOf([from |-> l, to |-> r + 1])
    BY <2>6, <2>7 DEF DaysOf
  <2> QED
    BY <2>8, <2>9
<1>4. ASSUME NEW p \in Pieces(free), NEW q \in Pieces(free),
             DaysOf(p) \cap DaysOf(q) # {}
      PROVE  p = q
  <2>1. PICK d : d \in DaysOf(p) /\ d \in DaysOf(q)
    BY <1>4
  <2>2. /\ p.from \in Int /\ p.to \in Int /\ q.from \in Int /\ q.to \in Int /\ d \in Int
        /\ p.from <= d /\ d < p.to /\ q.from <= d /\ d < q.to
    BY <1>1, <2>1 DEF DaysOf
  <2>3. ~(p.from < q.from)
    <3>1. p.from < q.from => q.from - 1 \in p.from .. p.to - 1
      BY <2>2
    <3> QED
      BY <1>1, <3>1
  <2>4. ~(q.from < p.from)
    <3>1. q.from < p.from => p.from - 1 \in q.from .. q.to - 1
      BY <2>2
    <3> QED
      BY <1>1, <3>1
  <2>5. ~(p.to < q.to)
    <3>1. p.to < q.to => p.to \in q.from .. q.to - 1
      BY <2>2
    <3> QED
      BY <1>1, <3>1
  <2>6. ~(q.to < p.to)
    <3>1. q.to < p.to => q.to \in p.from .. p.to - 1
      BY <2>2
    <3> QED
      BY <1>1, <3>1
  <2>7. p.from = q.from /\ p.to = q.to
    BY <2>2, <2>3, <2>4, <2>5, <2>6
  <2> QED
    BY <1>1, <2>7
<1>5. IsFiniteSet(free)
  BY FS_Interval, FS_Subset
<1>6. \A p, q \in Pieces(free) : p.from = q.from => p = q
  <2> SUFFICES ASSUME NEW p \in Pieces(free), NEW q \in Pieces(free), p.from = q.from
               PROVE  p = q
    OBVIOUS
  <2>1. p.from \in DaysOf(p) \cap DaysOf(q)
    BY <1>1 DEF DaysOf
  <2> QED
    BY <1>4, <2>1
<1>7. IsFiniteSet(Pieces(free))
  BY <1>1, <1>5, <1>6, SharesAreFinite
<1>8. \A p \in Pieces(free) : p.from \in Int /\ p.to \in Int /\ p.from < p.to
                              /\ DaysOf(p) \subseteq free
  BY <1>1 DEF DaysOf
<1> QED
  BY <1>3, <1>4, <1>7, <1>8 DEF SharesOut

\* What is left of a period is shared out by its pieces.
LEMMA RemainingSharesOut ==
    ASSUME NEW p, p.from \in Int, p.to \in Int, NEW C
    PROVE  SharesOut(Remaining(p, C), DaysOf(p) \ UNION {DaysOf(c) : c \in C})
<1> DEFINE free == DaysOf(p) \ UNION {DaysOf(c) : c \in C}
<1>1. free \subseteq p.from .. p.to - 1 /\ p.to - 1 \in Int
  BY DEF DaysOf
<1>2. Remaining(p, C) = Pieces(free)
  BY DEF Remaining, Pieces
<1> HIDE DEF free
<1>3. SharesOut(Pieces(free), free)
  BY <1>1, PiecesShareOut
<1> QED
  BY <1>2, <1>3 DEF free

\* The sum of a function is the sum over its domain.
LEMMA SumOfIs == \A f : SumOf(f) = Sum(f, DOMAIN f)
  BY DEF SumOf, Sum

(* What the tables keep.                                                   *)

\* The window has days, finitely many.
LEMMA WindowStored ==
    ASSUME NEW f, Stored(f)
    PROVE  /\ f.window.from \in Int /\ f.window.to \in Int /\ f.window.from < f.window.to
           /\ IsFiniteSet(DaysOf(f.window)) /\ DaysOf(f.window) \subseteq Int
           /\ f.window.from \in DaysOf(f.window)
<1>1. f.window.from \in Int /\ f.window.to \in Int /\ f.window.from < f.window.to
  BY DEF Stored
<1>2. DaysOf(f.window) = f.window.from .. f.window.to - 1
  BY DEF DaysOf
<1>3. IsFiniteSet(f.window.from .. f.window.to - 1)
  <2>1. f.window.to - 1 \in Int
    BY <1>1
  <2> QED
    BY <1>1, <2>1, FS_Interval
<1> QED
  BY <1>1, <1>2, <1>3

\* A tenancy has days and a unit, and one row.
LEMMA TenancyStored ==
    ASSUME NEW f, Stored(f), NEW r \in f.tenancies
    PROVE  /\ HasDays(r) /\ r.from < r.to /\ DOMAIN r = {"tenancy", "unit", "from", "to"}
           /\ r.from \in Int /\ r.to \in Int
           /\ r.tenancy \in Nat \ {NoOne} /\ r.unit \in DOMAIN f.area
           /\ \A s \in f.tenancies : s.tenancy = r.tenancy => s = r
<1>1. r \in [tenancy : Nat \ {NoOne}, unit : DOMAIN f.area, from : Int, to : Int]
  BY DEF Stored
<1>2. r.from < r.to
  <2>1. [from |-> r.from, to |-> r.to] \in {p \in [from : Int, to : Int] : p.from < p.to}
    BY DEF Stored
  <2> QED
    BY <2>1
<1>3. \A s \in f.tenancies : s.tenancy = r.tenancy => s = r
  BY DEF Stored
<1>4. DOMAIN r = {"tenancy", "unit", "from", "to"}
  BY <1>1
<1> QED
  BY <1>1, <1>2, <1>3, <1>4 DEF HasDays

(* Days without an agreement.                                              *)

\* The days of a tenancy in the window on which there is no agreement.
Withheld(f, r) == {d \in DaysOf(r) \cap DaysOf(f.window) : ~AgreedOn(f, r.tenancy, d)}

\* They are shared out by the periods that the statement merges them to.
LEMMA IneligibleSharesOut ==
    ASSUME NEW f, Stored(f), NEW r \in f.tenancies
    PROVE  SharesOut(Ineligible(f, r), Withheld(f, r))
<1> DEFINE p0 == [from |-> r.from, to |-> r.to]
           p == Clip(p0, f.window)
           A == {x \in DaysOf(p) : AgreedOn(f, r.tenancy, x)}
           C == {[from |-> d, to |-> d + 1] : d \in A}
<1>1. HasDays(p0) /\ DaysOf(p0) = DaysOf(r)
  BY TenancyStored DEF HasDays, DaysOf
<1>2. HasDays(p) /\ DaysOf(p) = DaysOf(r) \cap DaysOf(f.window)
  <2> HIDE DEF p0
  <2> QED
    BY <1>1, WindowStored, ClipKeepsDays
<1>3. p.from \in Int /\ p.to \in Int
  BY <1>2 DEF HasDays
<1>4. Ineligible(f, r) = Remaining(p, C)
  BY DEF Ineligible
<1>5. UNION {DaysOf(c) : c \in C} = A
  <2>1. A \subseteq Int
    BY <1>2, WindowStored
  <2>2. \A d \in A : DaysOf([from |-> d, to |-> d + 1]) = {d}
    BY <2>1 DEF DaysOf
  <2>3. ASSUME NEW x \in UNION {DaysOf(c) : c \in C} PROVE x \in A
    <3>1. PICK c \in C : x \in DaysOf(c)
      OBVIOUS
    <3>2. PICK d \in A : c = [from |-> d, to |-> d + 1]
      BY <3>1
    <3> HIDE DEF A
    <3> QED
      BY <2>2, <3>1, <3>2
  <2>4. ASSUME NEW x \in A PROVE x \in UNION {DaysOf(c) : c \in C}
    <3>1. [from |-> x, to |-> x + 1] \in C /\ x \in DaysOf([from |-> x, to |-> x + 1])
      BY <2>2
    <3> HIDE DEF A, C
    <3> QED
      BY <3>1
  <2> HIDE DEF A, C
  <2> QED
    BY <2>3, <2>4
<1> HIDE DEF p, C
<1>6. SharesOut(Remaining(p, C), DaysOf(p) \ UNION {DaysOf(c) : c \in C})
  BY <1>3, RemainingSharesOut
<1>7. DaysOf(p) \ A = Withheld(f, r)
  BY <1>2 DEF Withheld
<1> QED
  BY <1>4, <1>5, <1>6, <1>7

\* They are counted day by day.
LEMMA IneligibleCounted ==
    ASSUME NEW f, Stored(f), NEW r \in f.tenancies, NEW p, p.from \in Int, p.to \in Int,
           NEW v \in Int, NEW h,
           ValueOn(h, DaysOf(f.window), Withheld(f, r) \cap DaysOf(p), v)
    PROVE  Sum(h, DaysOf(f.window)) = v * IneligibleDays(f, r.tenancy, p)
           /\ IneligibleDays(f, r.tenancy, p) \in Int
<1> DEFINE W == DaysOf(f.window)
           D == Withheld(f, r)
           P == Ineligible(f, r)
           g == [d \in D |-> IF d \in DaysOf(p) THEN 1 ELSE 0]
           m == [i \in P |-> DaysIn(i, p)]
<1>1. D \subseteq W /\ IsFiniteSet(W) /\ IsFiniteSet(D)
  BY WindowStored, FS_Subset DEF Withheld
<1>2. SharesOut(P, D)
  BY IneligibleSharesOut
<1>3. IneligibleDays(f, r.tenancy, p) = Sum(m, P)
  <2>1. {x \in f.tenancies : x.tenancy = r.tenancy} = {r}
    BY TenancyStored
  <2>2. UNION {Ineligible(f, x) : x \in {r}} = P
    OBVIOUS
  <2>3. IneligibleDays(f, r.tenancy, p)
        = SumOf([i \in UNION {Ineligible(f, x) : x \in {y \in f.tenancies : y.tenancy = r.tenancy}}
                    |-> DaysIn(i, p)])
    BY DEF IneligibleDays
  <2>4. IneligibleDays(f, r.tenancy, p) = SumOf(m)
    BY <2>1, <2>2, <2>3
  <2>5. DOMAIN m = P
    OBVIOUS
  <2> QED
    BY <2>4, <2>5, SumOfIs
<1>4. \A i \in P : m[i] = Sum(g, DaysOf(i)) /\ m[i] \in Int
  <2> SUFFICES ASSUME NEW i \in P PROVE m[i] = Sum(g, DaysOf(i)) /\ m[i] \in Int
    OBVIOUS
  <2>1. i.from \in Int /\ i.to \in Int /\ DaysOf(i) \subseteq D
    BY <1>2 DEF SharesOut
  <2>2. ValueOn(g, DaysOf(i), DaysOf(p), 1)
    BY <2>1 DEF ValueOn
  <2>3. m[i] = DaysIn(p, i) /\ m[i] \in Int
    BY <2>1 DEF DaysIn, Later, Earlier
  <2> HIDE DEF g, m, P
  <2> QED
    BY <2>1, <2>2, <2>3, DaysInCounted
<1>5. \A d \in D : g[d] \in Int /\ h[d] = v * g[d] /\ h[d] \in Int
  BY <1>1 DEF ValueOn
<1>6. \A d \in W \ D : h[d] = 0
  BY DEF ValueOn
<1> HIDE DEF W, D, P, g, m
<1>7. Sum(g, D) = Sum(m, P)
  BY <1>1, <1>2, <1>4, <1>5, SumOfShares
<1>8. Sum(h, D) = v * Sum(g, D)
  BY <1>1, <1>5, SumTimes
<1>9. Sum(h, W) = Sum(h, D)
  BY <1>1, <1>5, <1>6, SumOnly
<1>10. Sum(g, D) \in Int
  BY <1>1, <1>5, SumType
<1> QED
  BY <1>3, <1>7, <1>8, <1>9, <1>10 DEF W

\* What days of a tenancy weigh: those with an agreement on the renter, those
\* without one on the owner.
LEMMA DaysWeigh ==
    ASSUME NEW f, Stored(f), NEW r \in f.tenancies, NEW p, p.from \in Int, p.to \in Int,
           DaysOf(p) \subseteq DaysOf(r) \cap DaysOf(f.window), NEW v \in Int,
           NEW h, ValueOn(h, DaysOf(f.window), DaysOf(p) \ Withheld(f, r), v),
           NEW k, ValueOn(k, DaysOf(f.window), Withheld(f, r) \cap DaysOf(p), v)
    PROVE  /\ Sum(h, DaysOf(f.window))
              = v * (DaysIn(p, f.window) - IneligibleDays(f, r.tenancy, p))
           /\ Sum(k, DaysOf(f.window)) = v * IneligibleDays(f, r.tenancy, p)
           /\ IneligibleDays(f, r.tenancy, p) \in Int /\ DaysIn(p, f.window) \in Int
<1> DEFINE W == DaysOf(f.window)
           m == [d \in W |-> h[d] + k[d]]
           i == IneligibleDays(f, r.tenancy, p)
           n == DaysIn(p, f.window)
<1>1. \A d \in W : h[d] \in Int /\ k[d] \in Int /\ m[d] = h[d] + k[d]
  BY DEF ValueOn
<1>2. ValueOn(m, W, DaysOf(p), v)
  BY DEF ValueOn
<1>3. IsFiniteSet(W)
  BY WindowStored
<1>4. Sum(m, W) = v * n /\ n \in Int
  <2> HIDE DEF m
  <2> QED
    BY <1>2, WindowStored, DaysInCounted
<1>5. Sum(k, W) = v * i /\ i \in Int
  BY IneligibleCounted
<1>6. Sum(m, W) = Sum(h, W) + Sum(k, W)
  <2> HIDE DEF W, m
  <2> QED
    BY <1>1, <1>3, SumAdd
<1>7. Sum(h, W) \in Int
  <2> HIDE DEF W
  <2> QED
    BY <1>1, <1>3, SumType
<1> HIDE DEF W, m, i, n
<1>8. v * (n - i) = v * n - v * i /\ v * n \in Int /\ v * i \in Int
  BY <1>4, <1>5
<1>9. Sum(h, W) = v * (n - i)
  BY <1>4, <1>5, <1>6, <1>7, <1>8
<1> QED
  BY <1>4, <1>5, <1>9 DEF W, i, n

\* A table whose numbers are in one row is added up along this row.
LEMMA SumOfOneRow ==
    ASSUME NEW A, IsFiniteSet(A), NEW B, IsFiniteSet(B), NEW h, Table(h, A, B),
           NEW a \in A, NEW g,
           \A x \in A : \A y \in B : x # a => h[<<x, y>>] = 0,
           \A y \in B : g[y] = h[<<a, y>>]
    PROVE  Sum(h, A \X B) = Sum(g, B)
<1> DEFINE f == Rows(h, A, B)
<1>1. Sum(h, A \X B) = Sum(f, A)
  BY SumOfRows
<1>2. \A x \in A \ {a} : f[x] = 0
  <2> SUFFICES ASSUME NEW x \in A, x # a PROVE RowSum(h, x, B) = 0
    BY DEF Rows
  <2> DEFINE row == [y \in B |-> h[<<x, y>>]]
  <2>1. \A y \in B : row[y] = 0
    OBVIOUS
  <2>2. Sum(row, B) = 0
    <3> HIDE DEF row
    <3> QED
      BY <2>1, SumZero
  <2> QED
    BY <2>2 DEF RowSum
<1>3. f[a] = Sum(g, B)
  <2> DEFINE row == [y \in B |-> h[<<a, y>>]]
  <2>1. \A y \in B : row[y] = g[y]
    OBVIOUS
  <2>2. Sum(row, B) = Sum(g, B)
    <3> HIDE DEF row
    <3> QED
      BY <2>1, SumSame
  <2> QED
    BY <2>2 DEF Rows, RowSum
<1>4. Sum(g, B) \in Int
  <2>1. \A y \in B : <<a, y>> \in A \X B
    OBVIOUS
  <2>2. \A y \in B : g[y] \in Int
    BY <2>1 DEF Table
  <2> QED
    BY <2>2, SumType
<1> HIDE DEF f
<1>5. Sum(f, A) = Sum(f, {a})
  BY <1>2, <1>3, <1>4, SumOnly
<1>6. Sum(f, {a}) = f[a]
  BY <1>3, <1>4, SumOne
<1> QED
  BY <1>1, <1>3, <1>5, <1>6

-----------------------------------------------------------------------------
(* Lines and days.  A line has a tenancy, a period inside it and a value   *)
(* for each of its days.                                                   *)

\* The lines add up to what each tenancy weighs on each day.
Lines(f, L, ten, per, v) ==
    /\ IsFiniteSet(L)
    /\ \A c \in L : /\ per[c].from \in Int /\ per[c].to \in Int /\ v[c] \in Int
                    /\ \E r \in f.tenancies :
                          /\ r.tenancy = ten[c]
                          /\ DaysOf(per[c]) \subseteq DaysOf(r) \cap DaysOf(f.window)
    /\ \A r \in f.tenancies : \A d \in DaysOf(f.window) :
          DayWeight(f, r.tenancy, r.unit, d)
          = Sum(v, {c \in L : ten[c] = r.tenancy /\ d \in DaysOf(per[c])})

LinesOf(L, ten, t) == {c \in L : ten[c] = t}

PaysOn(f, t, u, d) == IF AgreedOn(f, t, d) THEN DayWeight(f, t, u, d) ELSE 0

HoldsOn(f, t, u, d) == IF AgreedOn(f, t, d) THEN 0 ELSE DayWeight(f, t, u, d)

\* What a line weighs, and what it leaves to the owner.
LineWeight(f, ten, per, v, c) ==
    v[c] * (DaysIn(per[c], f.window) - IneligibleDays(f, ten[c], per[c]))

LineHeld(f, ten, per, v, c) == v[c] * IneligibleDays(f, ten[c], per[c])

\* A tenancy's weight on a day is a number.
LEMMA DayWeightType ==
    ASSUME NEW f, NEW L, NEW ten, NEW per, NEW v, Lines(f, L, ten, per, v),
           NEW r \in f.tenancies, NEW d \in DaysOf(f.window)
    PROVE  DayWeight(f, r.tenancy, r.unit, d) \in Int
<1> DEFINE S == {c \in L : ten[c] = r.tenancy /\ d \in DaysOf(per[c])}
<1>1. IsFiniteSet(S)
  BY FS_Subset DEF Lines
<1>2. \A c \in S : v[c] \in Int
  BY DEF Lines
<1>3. DayWeight(f, r.tenancy, r.unit, d) = Sum(v, S)
  BY DEF Lines
<1> HIDE DEF S
<1> QED
  BY <1>1, <1>2, <1>3, SumType

\* The lines of a tenancy are finitely many and weigh what its days weigh, with
\* and without agreement.
TenancyMatches(f, L, ten, per, v, r) ==
    /\ IsFiniteSet(LinesOf(L, ten, r.tenancy))
    /\ \A c \in LinesOf(L, ten, r.tenancy) :
          LineWeight(f, ten, per, v, c) \in Int /\ LineHeld(f, ten, per, v, c) \in Int
    /\ Sum([c \in LinesOf(L, ten, r.tenancy) |-> LineWeight(f, ten, per, v, c)],
           LinesOf(L, ten, r.tenancy))
       = Sum([d \in DaysOf(f.window) |-> PaysOn(f, r.tenancy, r.unit, d)],
             DaysOf(f.window))
    /\ Sum([c \in LinesOf(L, ten, r.tenancy) |-> LineHeld(f, ten, per, v, c)],
           LinesOf(L, ten, r.tenancy))
       = Sum([d \in DaysOf(f.window) |-> HoldsOn(f, r.tenancy, r.unit, d)],
             DaysOf(f.window))

\* So they do in every building.
LEMMA LinesMatchDays ==
    ASSUME NEW f, Stored(f), NEW L, NEW ten, NEW per, NEW v, Lines(f, L, ten, per, v),
           NEW r \in f.tenancies
    PROVE  TenancyMatches(f, L, ten, per, v, r)
<1> DEFINE W == DaysOf(f.window)
           t == r.tenancy
           M == LinesOf(L, ten, t)
           pay == [p \in M \X W |-> IF p[2] \in DaysOf(per[p[1]]) \ Withheld(f, r)
                                    THEN v[p[1]] ELSE 0]
           hold == [p \in M \X W |-> IF p[2] \in Withheld(f, r) \cap DaysOf(per[p[1]])
                                     THEN v[p[1]] ELSE 0]
           weight == [c \in M |-> LineWeight(f, ten, per, v, c)]
           held == [c \in M |-> LineHeld(f, ten, per, v, c)]
           pays == [d \in W |-> PaysOn(f, t, r.unit, d)]
           holds == [d \in W |-> HoldsOn(f, t, r.unit, d)]
<1>1. IsFiniteSet(W) /\ IsFiniteSet(M)
  BY WindowStored, FS_Subset DEF Lines, LinesOf
<1>2. \A c \in M : /\ per[c].from \in Int /\ per[c].to \in Int /\ v[c] \in Int
                   /\ ten[c] = t /\ DaysOf(per[c]) \subseteq DaysOf(r) \cap W
  <2> SUFFICES ASSUME NEW c \in M
               PROVE  /\ per[c].from \in Int /\ per[c].to \in Int /\ v[c] \in Int
                      /\ ten[c] = t /\ DaysOf(per[c]) \subseteq DaysOf(r) \cap W
    OBVIOUS
  <2>1. c \in L /\ ten[c] = t
    BY DEF LinesOf
  <2>2. PICK s \in f.tenancies : s.tenancy = ten[c] /\ DaysOf(per[c]) \subseteq DaysOf(s) \cap W
    BY <2>1 DEF Lines
  <2>3. s = r
    BY <2>1, <2>2, TenancyStored
  <2> QED
    BY <2>1, <2>2, <2>3 DEF Lines
<1>3. Table(pay, M, W) /\ Table(hold, M, W)
  BY <1>2 DEF Table
<1>4. ASSUME NEW c \in M
      PROVE  /\ RowSum(pay, c, W) = weight[c] /\ weight[c] \in Int
             /\ RowSum(hold, c, W) = held[c] /\ held[c] \in Int
  <2> DEFINE h == [d \in W |-> pay[<<c, d>>]]
             k == [d \in W |-> hold[<<c, d>>]]
             p == per[c]
             n == DaysIn(p, f.window)
             i == IneligibleDays(f, t, p)
  <2>1. ValueOn(h, W, DaysOf(p) \ Withheld(f, r), v[c])
        /\ ValueOn(k, W, Withheld(f, r) \cap DaysOf(p), v[c])
    BY DEF ValueOn
  <2>2. p.from \in Int /\ p.to \in Int /\ DaysOf(p) \subseteq DaysOf(r) \cap W /\ v[c] \in Int
    BY <1>2
  <2>3. ten[c] = t
    BY <1>2
  <2>4. RowSum(pay, c, W) = Sum(h, W) /\ RowSum(hold, c, W) = Sum(k, W)
    BY DEF RowSum
  <2>5. weight[c] = v[c] * (n - i) /\ held[c] = v[c] * i
    BY <2>3 DEF LineWeight, LineHeld
  <2> DEFINE u == v[c]
  <2>6. Sum(h, W) = v[c] * (n - i) /\ Sum(k, W) = v[c] * i /\ i \in Int /\ n \in Int
    <3>1. /\ ValueOn(h, DaysOf(f.window), DaysOf(p) \ Withheld(f, r), u)
          /\ ValueOn(k, DaysOf(f.window), Withheld(f, r) \cap DaysOf(p), u)
          /\ p.from \in Int /\ p.to \in Int /\ u \in Int
          /\ DaysOf(p) \subseteq DaysOf(r) \cap DaysOf(f.window)
      BY <2>1, <2>2
    <3> HIDE DEF h, k, p, u
    <3>2. /\ Sum(h, DaysOf(f.window))
              = u * (DaysIn(p, f.window) - IneligibleDays(f, r.tenancy, p))
          /\ Sum(k, DaysOf(f.window)) = u * IneligibleDays(f, r.tenancy, p)
          /\ IneligibleDays(f, r.tenancy, p) \in Int /\ DaysIn(p, f.window) \in Int
      BY <3>1, DaysWeigh
    <3> QED
      BY <3>2 DEF u
  <2> HIDE DEF n, i, weight, held, h, k, p
  <2> QED
    BY <2>2, <2>4, <2>5, <2>6
<1>5. ASSUME NEW d \in W
      PROVE  ColumnSum(pay, M, d) = pays[d] /\ ColumnSum(hold, M, d) = holds[d]
  <2> DEFINE S == {c \in M : d \in DaysOf(per[c])}
             h == [c \in M |-> pay[<<c, d>>]]
             k == [c \in M |-> hold[<<c, d>>]]
  <2>1. DayWeight(f, t, r.unit, d) = Sum(v, S)
    <3>1. {c \in L : ten[c] = t /\ d \in DaysOf(per[c])} = S
      BY DEF LinesOf
    <3> QED
      BY <3>1 DEF Lines
  <2>2. S \subseteq M /\ IsFiniteSet(S)
    BY <1>1, FS_Subset
  <2>3. \A c \in S : v[c] \in Int /\ d \in DaysOf(r) \cap W
    BY <1>2
  <2>4. ColumnSum(pay, M, d) = Sum(h, M) /\ ColumnSum(hold, M, d) = Sum(k, M)
    BY DEF ColumnSum
  <2>5. CASE AgreedOn(f, t, d)
    <3>1. d \notin Withheld(f, r)
      BY <2>5 DEF Withheld
    <3>2. /\ \A c \in M : k[c] = 0
          /\ \A c \in S : h[c] = v[c] /\ h[c] \in Int
          /\ \A c \in M \ S : h[c] = 0
      BY <3>1, <2>3
    <3>3. pays[d] = DayWeight(f, t, r.unit, d) /\ holds[d] = 0
      BY <2>5 DEF PaysOn, HoldsOn
    <3> HIDE DEF h, k, S, M
    <3>4. Sum(k, M) = 0 /\ Sum(h, M) = Sum(h, S) /\ Sum(h, S) = Sum(v, S)
      BY <1>1, <2>2, <3>2, SumZero, SumOnly, SumSame
    <3> QED
      BY <2>1, <2>4, <3>3, <3>4
  <2>6. CASE ~AgreedOn(f, t, d)
    <3>1. \A c \in S : d \in Withheld(f, r)
      BY <2>3, <2>6 DEF Withheld
    <3>2. /\ \A c \in M : h[c] = 0
          /\ \A c \in S : k[c] = v[c] /\ k[c] \in Int
          /\ \A c \in M \ S : k[c] = 0
      BY <3>1, <2>3
    <3>3. holds[d] = DayWeight(f, t, r.unit, d) /\ pays[d] = 0
      BY <2>6 DEF PaysOn, HoldsOn
    <3> HIDE DEF h, k, S, M
    <3>4. Sum(h, M) = 0 /\ Sum(k, M) = Sum(k, S) /\ Sum(k, S) = Sum(v, S)
      BY <1>1, <2>2, <3>2, SumZero, SumOnly, SumSame
    <3> QED
      BY <2>1, <2>4, <3>3, <3>4
  <2> QED
    BY <2>5, <2>6
<1>6. Sum(Rows(pay, M, W), M) = Sum(weight, M) /\ Sum(Rows(hold, M, W), M) = Sum(held, M)
  <2>1. \A c \in M : Rows(pay, M, W)[c] = weight[c] /\ Rows(hold, M, W)[c] = held[c]
    BY <1>4 DEF Rows
  <2> HIDE DEF M, pay, hold, weight, held
  <2> QED
    BY <1>1, <2>1, SumSame
<1>7. Sum(Columns(pay, M, W), W) = Sum(pays, W) /\ Sum(Columns(hold, M, W), W) = Sum(holds, W)
  <2>1. \A d \in W : Columns(pay, M, W)[d] = pays[d] /\ Columns(hold, M, W)[d] = holds[d]
    BY <1>5 DEF Columns
  <2> HIDE DEF W, M, pay, hold, pays, holds
  <2> QED
    BY <1>1, <2>1, SumSame
<1>8. Sum(weight, M) = Sum(pays, W) /\ Sum(held, M) = Sum(holds, W)
  <2> HIDE DEF W, M, pay, hold, weight, held, pays, holds
  <2>1. Sum(pay, M \X W) = Sum(Rows(pay, M, W), M)
             /\ Sum(pay, M \X W) = Sum(Columns(pay, M, W), W)
    BY <1>1, <1>3, SumOfRows
  <2>2. Sum(hold, M \X W) = Sum(Rows(hold, M, W), M)
             /\ Sum(hold, M \X W) = Sum(Columns(hold, M, W), W)
    BY <1>1, <1>3, SumOfRows
  <2> QED
    BY <1>6, <1>7, <2>1, <2>2
<1> QED
  BY <1>1, <1>4, <1>8 DEF TenancyMatches

\* A tenancy weighs nothing on the units it does not have.
LEMMA NothingElsewhere ==
    ASSUME NEW f, Stored(f), NEW r \in f.tenancies, NEW u, u # r.unit, NEW d
    PROVE  PaysOn(f, r.tenancy, u, d) = 0 /\ HoldsOn(f, r.tenancy, u, d) = 0
<1>1. r.tenancy \notin OccupiedBy(f, u, d)
  BY TenancyStored DEF OccupiedBy
<1>2. DayWeight(f, r.tenancy, u, d) = 0
  BY <1>1 DEF DayWeight
<1> QED
  BY <1>2 DEF PaysOn, HoldsOn

\* The units and the tenancies are finitely many.
LEMMA UnitsStored ==
    ASSUME NEW f, Stored(f)
    PROVE  /\ IsFiniteSet(DOMAIN f.area) /\ IsFiniteSet(f.tenancies)
           /\ \A u \in DOMAIN f.area : f.area[u] \in Nat /\ f.reading[u] \in Nat \cup {NoValue}
  BY DEF Stored

\* What the days of a tenancy weigh on all units is what they weigh on its own.
LEMMA DaysOfOneUnit ==
    ASSUME NEW f, Stored(f), NEW r \in f.tenancies,
           \A d \in DaysOf(f.window) : DayWeight(f, r.tenancy, r.unit, d) \in Int
    PROVE  /\ Sum([p \in UnitDays(f) |-> PaysOn(f, r.tenancy, p[1], p[2])], UnitDays(f))
              = Sum([d \in DaysOf(f.window) |-> PaysOn(f, r.tenancy, r.unit, d)],
                    DaysOf(f.window))
           /\ Sum([p \in UnitDays(f) |-> HoldsOn(f, r.tenancy, p[1], p[2])], UnitDays(f))
              = Sum([d \in DaysOf(f.window) |-> HoldsOn(f, r.tenancy, r.unit, d)],
                    DaysOf(f.window))
<1> DEFINE W == DaysOf(f.window)
           U == DOMAIN f.area
           a == r.unit
           pay == [p \in U \X W |-> PaysOn(f, r.tenancy, p[1], p[2])]
           hold == [p \in U \X W |-> HoldsOn(f, r.tenancy, p[1], p[2])]
           pays == [d \in W |-> PaysOn(f, r.tenancy, r.unit, d)]
           holds == [d \in W |-> HoldsOn(f, r.tenancy, r.unit, d)]
<1>1. IsFiniteSet(U) /\ IsFiniteSet(W) /\ a \in U
  BY UnitsStored, WindowStored, TenancyStored
<1>2. \A x \in U : \A y \in W : pay[<<x, y>>] = PaysOn(f, r.tenancy, x, y)
                                /\ hold[<<x, y>>] = HoldsOn(f, r.tenancy, x, y)
  OBVIOUS
<1>3. \A y \in W : pays[y] = pay[<<a, y>>] /\ holds[y] = hold[<<a, y>>]
                   /\ pays[y] \in Int /\ holds[y] \in Int
  BY <1>1, <1>2 DEF PaysOn, HoldsOn
<1>4. \A x \in U : \A y \in W : x # a => pay[<<x, y>>] = 0 /\ hold[<<x, y>>] = 0
  <2> SUFFICES ASSUME NEW x \in U, NEW y \in W, x # a
               PROVE  pay[<<x, y>>] = 0 /\ hold[<<x, y>>] = 0
    OBVIOUS
  <2>1. PaysOn(f, r.tenancy, x, y) = 0 /\ HoldsOn(f, r.tenancy, x, y) = 0
    BY NothingElsewhere
  <2> QED
    BY <2>1
<1>5. Table(pay, U, W) /\ Table(hold, U, W)
  <2>1. \A x \in U : \A y \in W : pay[<<x, y>>] \in Int /\ hold[<<x, y>>] \in Int
    <3> SUFFICES ASSUME NEW x \in U, NEW y \in W
                 PROVE  pay[<<x, y>>] \in Int /\ hold[<<x, y>>] \in Int
      OBVIOUS
    <3> HIDE DEF pay, hold, pays, holds, U, W, a
    <3>1. CASE x = a
      BY <1>3, <3>1
    <3>2. CASE x # a
      BY <1>4, <3>2
    <3> QED
      BY <3>1, <3>2
  <2>2. \A p \in U \X W : p = <<p[1], p[2]>> /\ p[1] \in U /\ p[2] \in W
    OBVIOUS
  <2> HIDE DEF U, W, pay, hold
  <2>3. \A p \in U \X W : pay[p] \in Int /\ hold[p] \in Int
    BY <2>1, <2>2
  <2> QED
    BY <2>3 DEF Table
<1>6. Sum(pay, U \X W) = Sum(pays, W) /\ Sum(hold, U \X W) = Sum(holds, W)
  <2> HIDE DEF U, W, a, pay, hold, pays, holds
  <2>1. Sum(pay, U \X W) = Sum(pays, W)
    BY <1>1, <1>3, <1>4, <1>5, SumOfOneRow
  <2>2. Sum(hold, U \X W) = Sum(holds, W)
    BY <1>1, <1>3, <1>4, <1>5, SumOfOneRow
  <2> QED
    BY <2>1, <2>2
<1> QED
  BY <1>6 DEF UnitDays

\* The lines of a tenancy weigh what the renter pays for.
LEMMA PayingMatches ==
    ASSUME NEW f, Stored(f), NEW L, NEW ten, NEW per, NEW v, Lines(f, L, ten, per, v),
           NEW t \in Tenants(f)
    PROVE  Sum([c \in LinesOf(L, ten, t) |-> LineWeight(f, ten, per, v, c)],
               LinesOf(L, ten, t)) = PayingWeight(f, t)
<1>1. PICK r \in f.tenancies : r.tenancy = t
  BY DEF Tenants
<1>2. PayingWeight(f, t)
      = Sum([p \in UnitDays(f) |-> PaysOn(f, t, p[1], p[2])], UnitDays(f))
  <2> DEFINE g == [p \in UnitDays(f) |-> PaysOn(f, t, p[1], p[2])]
  <2>1. PayingWeight(f, t) = SumOf(g) /\ DOMAIN g = UnitDays(f)
    BY DEF PayingWeight, PaysOn
  <2> QED
    BY <2>1, SumOfIs
<1>3. \A d \in DaysOf(f.window) : DayWeight(f, r.tenancy, r.unit, d) \in Int
  BY DayWeightType
<1> DEFINE W == DaysOf(f.window)
           pays == Sum([d \in W |-> PaysOn(f, r.tenancy, r.unit, d)], W)
<1>4. Sum([p \in UnitDays(f) |-> PaysOn(f, r.tenancy, p[1], p[2])], UnitDays(f)) = pays
  BY <1>3, DaysOfOneUnit
<1>5. Sum([c \in LinesOf(L, ten, r.tenancy) |-> LineWeight(f, ten, per, v, c)],
          LinesOf(L, ten, r.tenancy)) = pays
  <2>1. TenancyMatches(f, L, ten, per, v, r)
    BY LinesMatchDays
  <2> QED
    BY <2>1 DEF TenancyMatches
<1> HIDE DEF pays
<1>6. PayingWeight(f, t) = pays
  BY <1>1, <1>2, <1>4
<1> QED
  BY <1>1, <1>5, <1>6

\* What a tenancy's days leave to the owner.
HeldOf(f, r) == Sum([d \in DaysOf(f.window) |-> HoldsOn(f, r.tenancy, r.unit, d)],
                    DaysOf(f.window))

\* What all lines leave to the owner.
LEMMA HeldByTenancy ==
    ASSUME NEW f, Stored(f), NEW L, NEW ten, NEW per, NEW v, Lines(f, L, ten, per, v)
    PROVE  Sum([c \in L |-> LineHeld(f, ten, per, v, c)], L)
           = Sum([r \in f.tenancies |-> HeldOf(f, r)], f.tenancies)
<1> DEFINE R == f.tenancies
           key == [c \in L |-> CHOOSE r \in R : r.tenancy = ten[c]]
           part == [r \in R |-> LinesOf(L, ten, r.tenancy)]
           h == [c \in L |-> LineHeld(f, ten, per, v, c)]
           m == [r \in R |-> HeldOf(f, r)]
<1>1. IsFiniteSet(L) /\ IsFiniteSet(R)
  BY UnitsStored DEF Lines
<1>2. \A c \in L : key[c] \in R /\ key[c].tenancy = ten[c]
  BY DEF Lines
<1>3. ASSUME NEW r \in R
      PROVE  /\ \A c : c \in part[r] <=> c \in L /\ key[c] = r
             /\ m[r] = Sum(h, part[r])
             /\ \A c \in part[r] : h[c] \in Int
  <2>1. \A c : c \in part[r] <=> c \in L /\ key[c] = r
    BY <1>2, TenancyStored DEF LinesOf
  <2> DEFINE M == LinesOf(L, ten, r.tenancy)
             k == [c \in M |-> LineHeld(f, ten, per, v, c)]
  <2>2. IsFiniteSet(M) /\ m[r] = Sum(k, M) /\ \A c \in M : LineHeld(f, ten, per, v, c) \in Int
    <3>1. TenancyMatches(f, L, ten, per, v, r)
      BY LinesMatchDays
    <3> QED
      BY <3>1 DEF TenancyMatches, HeldOf
  <2>3. \A c \in M : k[c] = h[c]
    BY DEF LinesOf
  <2>4. part[r] = M
    OBVIOUS
  <2>5. Sum(k, M) = Sum(h, M)
    <3> HIDE DEF M, k, h
    <3> QED
      BY <2>2, <2>3, SumSame
  <2>6. \A c \in part[r] : h[c] \in Int
    BY <2>2, <2>4 DEF LinesOf
  <2> QED
    BY <2>1, <2>2, <2>4, <2>5, <2>6
<1>4. \A c \in L : key[c] \in R /\ h[c] \in Int
  <2> HIDE DEF R, key, part, h, m
  <2> QED
    BY <1>2, <1>3
<1> HIDE DEF R, key, part, h, m
<1>5. Sum(h, L) = Sum(m, R)
  <2>1. Keyed(L, R, key, part, h, m)
    BY <1>3, <1>4 DEF Keyed
  <2> QED
    BY <1>1, <2>1, SumByKey
<1> QED
  BY <1>5 DEF R, h, m

\* On a unit's day, what the renters leave to the owner.
HeldOn(f, p) == Sum([r \in f.tenancies |-> HoldsOn(f, r.tenancy, p[1], p[2])], f.tenancies)

\* Tenancies are counted by their rows.
LEMMA HeldByRows ==
    ASSUME NEW f, Stored(f), NEW p, \A r \in f.tenancies : HoldsOn(f, r.tenancy, p[1], p[2]) \in Int
    PROVE  /\ SumOf([t \in Tenants(f) |->
                        IF AgreedOn(f, t, p[2]) THEN 0 ELSE DayWeight(f, t, p[1], p[2])])
              = HeldOn(f, p)
           /\ HeldOn(f, p) \in Int
<1> DEFINE R == f.tenancies
           T == Tenants(f)
           b == [r \in R |-> r.tenancy]
           h == [r \in R |-> HoldsOn(f, r.tenancy, p[1], p[2])]
           k == [t \in T |-> HoldsOn(f, t, p[1], p[2])]
<1>1. SumOf([t \in T |-> IF AgreedOn(f, t, p[2]) THEN 0 ELSE DayWeight(f, t, p[1], p[2])])
      = Sum(k, T)
  <2>1. [t \in T |-> IF AgreedOn(f, t, p[2]) THEN 0 ELSE DayWeight(f, t, p[1], p[2])] = k
    BY DEF HoldsOn
  <2>2. DOMAIN k = T
    OBVIOUS
  <2> HIDE DEF k
  <2> QED
    BY <2>1, <2>2, SumOfIs
<1>2. T = {b[r] : r \in R}
  BY DEF Tenants
<1>3. \A r, s \in R : b[r] = b[s] => r = s
  BY TenancyStored
<1>4. \A r \in R : h[r] \in Int /\ h[r] = k[b[r]]
  BY DEF Tenants
<1>5. IsFiniteSet(R)
  BY UnitsStored
<1>6. Sum(h, R) \in Int
  <2> HIDE DEF R, h, k
  <2> QED
    BY <1>4, <1>5, SumType
<1>7. Sum(h, R) = Sum(k, T)
  <2> HIDE DEF R, T, b, h, k
  <2> QED
    BY <1>2, <1>3, <1>4, <1>5, SumRenamed
<1> QED
  BY <1>1, <1>6, <1>7 DEF HeldOn

\* The owner carries the empty units and what the lines leave.
LEMMA OwnerMatches ==
    ASSUME NEW f, Stored(f), NEW L, NEW ten, NEW per, NEW v, Lines(f, L, ten, per, v),
           \A p \in UnitDays(f) : EmptyWeight(f, p[1], p[2]) \in Int
    PROVE  OwnerWeight(f)
           = Sum([p \in UnitDays(f) |-> EmptyWeight(f, p[1], p[2])], UnitDays(f))
             + Sum([c \in L |-> LineHeld(f, ten, per, v, c)], L)
<1> DEFINE D == UnitDays(f)
           R == f.tenancies
           e == [p \in D |-> EmptyWeight(f, p[1], p[2])]
           h == [p \in D |-> HeldOn(f, p)]
           m == [p \in D |-> EmptyWeight(f, p[1], p[2])
                             + SumOf([t \in Tenants(f) |->
                                  IF AgreedOn(f, t, p[2]) THEN 0 ELSE DayWeight(f, t, p[1], p[2])])]
           x == [q \in D \X R |-> HoldsOn(f, q[2].tenancy, q[1][1], q[1][2])]
           o == [r \in R |-> HeldOf(f, r)]
<1>1. IsFiniteSet(D) /\ IsFiniteSet(R)
  BY UnitsStored, WindowStored, FS_Product DEF UnitDays
<1>2. \A r \in R : \A d \in DaysOf(f.window) : DayWeight(f, r.tenancy, r.unit, d) \in Int
  BY DayWeightType
<1>3. \A p \in D : \A r \in R : HoldsOn(f, r.tenancy, p[1], p[2]) \in Int
  <2> SUFFICES ASSUME NEW p \in D, NEW r \in R PROVE HoldsOn(f, r.tenancy, p[1], p[2]) \in Int
    OBVIOUS
  <2>1. p[2] \in DaysOf(f.window)
    BY DEF UnitDays
  <2>2. CASE p[1] = r.unit
    BY <1>2, <2>1, <2>2 DEF HoldsOn
  <2>3. CASE p[1] # r.unit
    BY <2>3, NothingElsewhere
  <2> QED
    BY <2>2, <2>3
<1>4. \A p \in D : e[p] \in Int /\ h[p] \in Int /\ m[p] = e[p] + h[p]
  <2> SUFFICES ASSUME NEW p \in D PROVE e[p] \in Int /\ h[p] \in Int /\ m[p] = e[p] + h[p]
    OBVIOUS
  <2> DEFINE s == SumOf([t \in Tenants(f) |->
                     IF AgreedOn(f, t, p[2]) THEN 0 ELSE DayWeight(f, t, p[1], p[2])])
  <2>1. s = HeldOn(f, p) /\ HeldOn(f, p) \in Int
    BY <1>3, HeldByRows
  <2>2. m[p] = e[p] + s
    OBVIOUS
  <2>3. e[p] \in Int /\ h[p] = HeldOn(f, p)
    OBVIOUS
  <2> HIDE DEF s, m, e, h
  <2> QED
    BY <2>1, <2>2, <2>3
<1>5. OwnerWeight(f) = Sum(m, D)
  <2>1. OwnerWeight(f) = SumOf(m) /\ DOMAIN m = D
    BY DEF OwnerWeight
  <2> HIDE DEF m, D
  <2> QED
    BY <2>1, SumOfIs
<1>6. Sum(m, D) = Sum(e, D) + Sum(h, D)
  <2> HIDE DEF m, D, e, h
  <2> QED
    BY <1>1, <1>4, SumAdd
<1>7. Table(x, D, R)
  <2>1. \A q \in D \X R : /\ q[1] \in D /\ q[2] \in R
                          /\ x[q] = HoldsOn(f, q[2].tenancy, q[1][1], q[1][2])
    OBVIOUS
  <2> HIDE DEF D, R, x
  <2>2. \A q \in D \X R : x[q] \in Int
    BY <1>3, <2>1
  <2> QED
    BY <2>2 DEF Table
<1>8. \A p \in D : \A r \in R : x[<<p, r>>] = HoldsOn(f, r.tenancy, p[1], p[2])
  <2> SUFFICES ASSUME NEW p \in D, NEW r \in R
               PROVE  x[<<p, r>>] = HoldsOn(f, r.tenancy, p[1], p[2])
    OBVIOUS
  <2> DEFINE q == <<p, r>>
  <2>1. q \in D \X R /\ q[1] = p /\ q[2] = r
    OBVIOUS
  <2>2. x[q] = HoldsOn(f, q[2].tenancy, q[1][1], q[1][2])
    BY <2>1
  <2> QED
    BY <2>1, <2>2
<1>9. Sum(Rows(x, D, R), D) = Sum(h, D)
  <2>1. ASSUME NEW p \in D PROVE Rows(x, D, R)[p] = h[p]
    <3>1. [r \in R |-> x[<<p, r>>]] = [r \in R |-> HoldsOn(f, r.tenancy, p[1], p[2])]
      <4> HIDE DEF D, R, x
      <4> QED
        BY <1>8
    <3> QED
      BY <3>1 DEF Rows, RowSum, HeldOn
  <2> HIDE DEF D, R, x, h
  <2> QED
    BY <1>1, <2>1, SumSame
<1>10. Sum(Columns(x, D, R), R) = Sum(o, R)
  <2>1. ASSUME NEW r \in R PROVE Columns(x, D, R)[r] = o[r]
    <3>1. [p \in D |-> x[<<p, r>>]] = [p \in D |-> HoldsOn(f, r.tenancy, p[1], p[2])]
      <4> HIDE DEF D, R, x
      <4> QED
        BY <1>8
    <3>2. Sum([p \in D |-> HoldsOn(f, r.tenancy, p[1], p[2])], D) = HeldOf(f, r)
      BY <1>2, DaysOfOneUnit DEF HeldOf
    <3>3. Columns(x, D, R)[r] = Sum([p \in D |-> x[<<p, r>>]], D)
      BY DEF Columns, ColumnSum
    <3> QED
      BY <3>1, <3>2, <3>3
  <2> HIDE DEF D, R, x, o
  <2> QED
    BY <1>1, <2>1, SumSame
<1>11. /\ Sum(x, D \X R) = Sum(Rows(x, D, R), D)
       /\ Sum(x, D \X R) = Sum(Columns(x, D, R), R)
  <2> HIDE DEF D, R, x
  <2> QED
    BY <1>1, <1>7, SumOfRows
<1>12. Sum(h, D) = Sum([c \in L |-> LineHeld(f, ten, per, v, c)], L)
  BY <1>9, <1>10, <1>11, HeldByTenancy
<1> QED
  BY <1>5, <1>6, <1>12

-----------------------------------------------------------------------------
(* The occupancy timeline.                                                 *)

\* Spans of different tenancies have an order.
HasOrder(S) ==
    /\ IsFiniteSet(S)
    /\ \A a \in S : a.from \in Int /\ a.tenancy \in Int
    /\ \A a, b \in S : a.tenancy = b.tenancy => a = b

\* One of them begins last.
LEMMA LastOne ==
    ASSUME NEW S, HasOrder(S), S # {}
    PROVE  \E m \in S : \A a \in S \ {m} : StartsBefore(a, m)
<1> DEFINE F == {s \in SUBSET S : s = {} \/ \E m \in s : \A a \in s \ {m} : StartsBefore(a, m)}
<1>1. {} \in F
  OBVIOUS
<1>2. ASSUME NEW s \in SUBSET S, NEW x \in S \ s, s \in F
      PROVE  s \cup {x} \in F
  <2>1. CASE s = {}
    BY <2>1
  <2>2. CASE s # {}
    <3>1. PICK m \in s : \A a \in s \ {m} : StartsBefore(a, m)
      BY <1>2, <2>2
    <3>2. /\ m \in S /\ x \in S /\ m # x
          /\ \A a \in S : a.from \in Int /\ a.tenancy \in Int
          /\ m.tenancy # x.tenancy
      BY <3>1 DEF HasOrder
    <3>3. CASE StartsBefore(x, m)
      BY <3>1, <3>3
    <3>4. CASE ~StartsBefore(x, m)
      <4>1. StartsBefore(m, x)
        BY <3>2, <3>4 DEF StartsBefore
      <4>2. \A a \in s : StartsBefore(a, x)
        BY <3>1, <3>2, <4>1 DEF StartsBefore
      <4>3. \A a \in (s \cup {x}) \ {x} : StartsBefore(a, x)
        BY <4>2
      <4> QED
        BY <4>3
    <3> QED
      BY <3>3, <3>4
  <2> QED
    BY <2>1, <2>2
<1> HIDE DEF F
<1>3. S \in F
  BY <1>1, <1>2, SetInduction DEF HasOrder
<1> USE DEF F
<1> QED
  BY <1>3

\* The spans in their order.
InOrder(q) == \A i, j \in DOMAIN q : i < j => StartsBefore(q[i], q[j])

Ordered(S) == {q \in [1 .. Cardinality(S) -> S] : InOrder(q)}

\* They have one.
LEMMA OrderedExists ==
    ASSUME NEW S, HasOrder(S)
    PROVE  Ordered(S) # {}
<1> DEFINE N == {s \in SUBSET S : Ordered(s) = {}}
<1>1. SUFFICES ASSUME S \in N PROVE FALSE
  OBVIOUS
<1>2. \A s \in N : IsFiniteSet(s)
  BY FS_Subset DEF HasOrder
<1>3. N # {}
  BY <1>1
<1>4. PICK s \in N : \A t \in N : t \subseteq s => t = s
  <2> HIDE DEF N
  <2> QED
    BY <1>2, <1>3, SmallestOf
<1>5. s \subseteq S /\ Ordered(s) = {} /\ IsFiniteSet(s)
  BY <1>2
<1>6. s # {}
  <2> SUFFICES ASSUME s = {} PROVE FALSE
    OBVIOUS
  <2> DEFINE q == [i \in 1 .. 0 |-> {}]
  <2>1. Cardinality(s) = 0 /\ 1 .. 0 = {}
    BY FS_EmptySet
  <2>2. q \in [1 .. Cardinality(s) -> s] /\ DOMAIN q = {}
    BY <2>1
  <2>3. InOrder(q)
    BY <2>2 DEF InOrder
  <2> QED
    BY <1>5, <2>2, <2>3 DEF Ordered
<1>7. HasOrder(s)
  BY <1>5 DEF HasOrder
<1>8. PICK m \in s : \A a \in s \ {m} : StartsBefore(a, m)
  BY <1>6, <1>7, LastOne
<1> DEFINE r == s \ {m}
           n == Cardinality(s)
<1>9. Cardinality(r) = n - 1 /\ n \in Nat /\ n - 1 \in Nat
  <2>1. Cardinality(r) = n - 1
    BY <1>5, FS_RemoveElement
  <2>2. n \in Nat /\ Cardinality(r) \in Nat
    BY <1>5, FS_RemoveElement, FS_CardinalityType
  <2> QED
    BY <2>1, <2>2
<1>10. Ordered(r) # {}
  <2>1. r \in SUBSET S /\ r \subseteq s /\ r # s
    BY <1>5
  <2> QED
    BY <1>4, <2>1
<1>11. PICK q : q \in [1 .. n - 1 -> r] /\ InOrder(q)
  BY <1>9, <1>10 DEF Ordered
<1> HIDE DEF n
<1> DEFINE p == [i \in 1 .. n |-> IF i = n THEN m ELSE q[i]]
<1>12. p \in [1 .. n -> s]
  <2>1. \A i \in 1 .. n : i # n => i \in 1 .. n - 1
    BY <1>9
  <2>2. \A i \in 1 .. n - 1 : q[i] \in s
    BY <1>11
  <2> QED
    BY <2>1, <2>2
<1>13. InOrder(p)
  <2> SUFFICES ASSUME NEW i \in 1 .. n, NEW j \in 1 .. n, i < j
               PROVE  StartsBefore(p[i], p[j])
    BY DEF InOrder
  <2>1. i \in 1 .. n - 1 /\ p[i] = q[i]
    BY <1>9
  <2>2. CASE j = n
    BY <1>8, <1>11, <2>1, <2>2
  <2>3. CASE j # n
    <3>1. j \in 1 .. n - 1 /\ p[j] = q[j]
      BY <1>9, <2>3
    <3> QED
      BY <1>11, <2>1, <3>1 DEF InOrder
  <2> QED
    BY <2>2, <2>3
<1> QED
  BY <1>5, <1>12, <1>13 DEF Ordered, n

\* The order holds each of them.
LEMMA OrderedHoldsAll ==
    ASSUME NEW S, HasOrder(S), NEW q \in Ordered(S)
    PROVE  \A x \in S : \E i \in DOMAIN q : q[i] = x
<1> DEFINE n == Cardinality(S)
<1>1. q \in [1 .. n -> S] /\ InOrder(q)
  BY DEF Ordered
<1>2. n \in Nat /\ IsFiniteSet(S)
  BY FS_CardinalityType DEF HasOrder
<1>3. ASSUME NEW i \in 1 .. n, NEW j \in 1 .. n, i < j PROVE q[i] # q[j]
  <2>1. StartsBefore(q[i], q[j]) /\ q[i] \in S
    BY <1>1, <1>3 DEF InOrder
  <2>2. q[i].from \in Int /\ q[i].tenancy \in Int
    BY <2>1 DEF HasOrder
  <2> QED
    BY <2>1, <2>2 DEF StartsBefore
<1>4. \A i, j \in 1 .. n : q[i] = q[j] => i = j
  BY <1>2, <1>3
<1>5. q \in Injection(1 .. n, S)
  BY <1>1, <1>4 DEF Injection, IsInjective
<1>6. Cardinality(1 .. n) = n
  BY <1>2, FS_Interval
<1>7. q \in Surjection(1 .. n, S)
  BY <1>2, <1>5, <1>6, FS_Injection
<1> QED
  BY <1>1, <1>7 DEF Surjection

\* The values of a function on a finite set are finitely many.
LEMMA FiniteImage ==
    ASSUME NEW S, IsFiniteSet(S), NEW b, NEW T, T = {b[x] : x \in S}
    PROVE  IsFiniteSet(T)
<1> DEFINE g == [x \in S |-> b[x]]
<1>1. g \in Surjection(S, T)
  BY DEF Surjection
<1> HIDE DEF g
<1> QED
  BY <1>1, FS_Surjection

\* The tenancies that have a unit in the window, and their days in it.
InWindow(f, u) == {x \in TenanciesOf(f, u) : DaysIn(x, f.window) > 0}

ClippedOf(f, u) == {Clip(r, f.window) : r \in InWindow(f, u)}

\* A span is a tenancy's days in the window.
LEMMA SpansAre ==
    ASSUME NEW f, Stored(f), NEW r \in f.tenancies, DaysIn(r, f.window) > 0
    PROVE  LET s == Clip(r, f.window) IN
           /\ s.from \in Int /\ s.to \in Int /\ s.from < s.to
           /\ f.window.from <= s.from /\ s.to <= f.window.to
           /\ DaysOf(s) = DaysOf(r) \cap DaysOf(f.window)
           /\ s.tenancy = r.tenancy /\ s.unit = r.unit
           /\ DaysIn(s, f.window) = s.to - s.from
<1> DEFINE s == Clip(r, f.window)
<1>1. /\ HasDays(r) /\ r.from \in Int /\ r.to \in Int
      /\ DOMAIN r = {"tenancy", "unit", "from", "to"}
      /\ f.window.from \in Int /\ f.window.to \in Int
  BY TenancyStored, WindowStored
<1>2. /\ DaysOf(s) = DaysOf(r) \cap DaysOf(f.window) /\ HasDays(s)
      /\ s.from = Later(r.from, f.window.from) /\ s.to = Earlier(r.to, f.window.to)
      /\ \A x \in DOMAIN r \ {"from", "to"} : s[x] = r[x]
  BY <1>1, ClipKeepsDays
<1>3. s.tenancy = r.tenancy /\ s.unit = r.unit
  BY <1>1, <1>2
<1>4. /\ s.from \in Int /\ s.to \in Int /\ s.from < s.to
      /\ f.window.from <= s.from /\ s.to <= f.window.to
  BY <1>1, <1>2 DEF DaysIn, Later, Earlier
<1> HIDE DEF s
<1>5. DaysIn(s, f.window) = s.to - s.from
  BY <1>1, <1>4 DEF DaysIn, Later, Earlier
<1> QED
  BY <1>2, <1>3, <1>4, <1>5 DEF s

\* The spans of a unit have an order.
LEMMA SpansHaveOrder ==
    ASSUME NEW f, Stored(f), NEW u
    PROVE  /\ HasOrder(ClippedOf(f, u))
           /\ \A s \in ClippedOf(f, u) :
                 /\ s.from \in Int /\ s.to \in Int /\ s.from < s.to
                 /\ f.window.from <= s.from /\ s.to <= f.window.to
<1> DEFINE S == ClippedOf(f, u)
           R == InWindow(f, u)
           b == [r \in R |-> Clip(r, f.window)]
<1>1. \A r \in R : r \in f.tenancies /\ DaysIn(r, f.window) > 0
  BY DEF InWindow, TenanciesOf
<1>2. \A s \in S : \E r \in R : s = Clip(r, f.window)
  BY DEF ClippedOf
<1>3. IsFiniteSet(S)
  <2>1. IsFiniteSet(R)
    BY <1>1, UnitsStored, FS_Subset
  <2>2. S = {b[r] : r \in R}
    BY DEF ClippedOf
  <2> HIDE DEF S, R, b
  <2> QED
    BY <2>1, <2>2, FiniteImage
<1>4. \A s \in S : /\ s.from \in Int /\ s.to \in Int /\ s.from < s.to /\ s.tenancy \in Int
                   /\ f.window.from <= s.from /\ s.to <= f.window.to
  <2> SUFFICES ASSUME NEW s \in S
               PROVE  /\ s.from \in Int /\ s.to \in Int /\ s.from < s.to /\ s.tenancy \in Int
                      /\ f.window.from <= s.from /\ s.to <= f.window.to
    OBVIOUS
  <2>1. PICK r \in R : s = Clip(r, f.window)
    BY <1>2
  <2>2. r.tenancy \in Int
    BY <1>1, TenancyStored
  <2> QED
    BY <1>1, <2>1, <2>2, SpansAre
<1>5. ASSUME NEW s \in S, NEW t \in S, s.tenancy = t.tenancy PROVE s = t
  <2>1. PICK r \in R : s = Clip(r, f.window)
    BY <1>2
  <2>2. PICK x \in R : t = Clip(x, f.window)
    BY <1>2
  <2>3. s.tenancy = r.tenancy /\ t.tenancy = x.tenancy
    BY <1>1, <2>1, <2>2, SpansAre
  <2>4. r = x
    BY <1>1, <1>5, <2>3, TenancyStored
  <2> QED
    BY <2>1, <2>2, <2>4
<1> QED
  BY <1>3, <1>4, <1>5 DEF HasOrder

\* The timeline is the spans in their order.
LEMMA TimelineIs ==
    ASSUME NEW f, Stored(f), NEW u
    PROVE  LET q == TimelineOf(f, u) IN
           /\ Len(q) \in Nat /\ DOMAIN q = 1 .. Len(q)
           /\ \A i \in 1 .. Len(q) : q[i] \in ClippedOf(f, u)
           /\ \A s \in ClippedOf(f, u) : \E i \in 1 .. Len(q) : q[i] = s
           /\ \A i, j \in 1 .. Len(q) : i < j => StartsBefore(q[i], q[j])
<1> DEFINE S == ClippedOf(f, u)
           n == Cardinality(S)
           q == TimelineOf(f, u)
<1>1. HasOrder(S) /\ n \in Nat
  BY SpansHaveOrder, FS_CardinalityType DEF HasOrder
<1>2. q = CHOOSE x \in [1 .. n -> S] : \A i, j \in DOMAIN x : i < j => StartsBefore(x[i], x[j])
  BY DEF TimelineOf, Timeline, ClippedOf, InWindow
<1>3. \E x \in [1 .. n -> S] : \A i, j \in DOMAIN x : i < j => StartsBefore(x[i], x[j])
  BY <1>1, OrderedExists DEF Ordered, InOrder
<1>4. q \in [1 .. n -> S] /\ \A i, j \in DOMAIN q : i < j => StartsBefore(q[i], q[j])
  <2> HIDE DEF q, S, n
  <2> QED
    BY <1>2, <1>3
<1>5. \A s \in S : \E i \in DOMAIN q : q[i] = s
  <2>1. q \in Ordered(S)
    BY <1>4 DEF Ordered, InOrder
  <2> HIDE DEF q, S
  <2> QED
    BY <1>1, <2>1, OrderedHoldsAll
<1>6. Len(q) = n
  <2> HIDE DEF q, n, S
  <2> QED
    BY <1>1, <1>4
<1> HIDE DEF q, n, S
<1>7. DOMAIN q = 1 .. n
  BY <1>4
<1> QED
  BY <1>1, <1>4, <1>5, <1>6, <1>7 DEF q, S

\* In a timeline without a day claimed twice a span ends before the next begins.
LEMMA SpansFollow ==
    ASSUME NEW f, Stored(f), NEW u, ~DoublyClaimed(TimelineOf(f, u)),
           NEW i \in 1 .. Len(TimelineOf(f, u)), NEW j \in 1 .. Len(TimelineOf(f, u)), i < j
    PROVE  TimelineOf(f, u)[i].to <= TimelineOf(f, u)[j].from
<1> DEFINE q == TimelineOf(f, u)
           n == Len(q)
<1>1. n \in Nat /\ \A k \in 1 .. n : q[k].from \in Int /\ q[k].to \in Int
  BY TimelineIs, SpansHaveOrder
<1>2. i + 1 \in 1 .. n /\ i \in 1 .. n - 1 /\ i \in 1 .. n /\ j \in 1 .. n
  BY <1>1
<1>3. ~(q[i + 1].from < q[i].to)
  BY <1>2 DEF DoublyClaimed
<1>4. q[i + 1].from <= q[j].from
  <2>1. CASE j = i + 1
    BY <1>1, <2>1
  <2>2. CASE j # i + 1
    <3>1. i + 1 < j
      BY <1>1, <2>2
    <3>2. StartsBefore(q[i + 1], q[j])
      BY <1>2, <3>1, TimelineIs
    <3> HIDE DEF q, n
    <3> QED
      BY <1>1, <1>2, <3>2 DEF StartsBefore
  <2> QED
    BY <2>1, <2>2
<1> HIDE DEF q, n
<1>5. q[i].to <= q[j].from
  BY <1>1, <1>2, <1>3, <1>4
<1> QED
  BY <1>5 DEF q

\* Then no day of the window has two tenancies.
LEMMA OneTenancyADay ==
    ASSUME NEW f, Stored(f), NEW u, ~DoublyClaimed(TimelineOf(f, u)),
           NEW r \in TenanciesOf(f, u), NEW s \in TenanciesOf(f, u),
           NEW d \in DaysOf(f.window), d \in DaysOf(r), d \in DaysOf(s)
    PROVE  r = s
<1> DEFINE q == TimelineOf(f, u)
<1>1. r \in f.tenancies /\ s \in f.tenancies
  BY DEF TenanciesOf
<1>2. DaysIn(r, f.window) > 0 /\ DaysIn(s, f.window) > 0
  BY <1>1, TenancyStored, WindowStored, DaysInMeets
<1>3. Clip(r, f.window) \in ClippedOf(f, u) /\ Clip(s, f.window) \in ClippedOf(f, u)
  BY <1>2 DEF ClippedOf, InWindow
<1>4. PICK i \in 1 .. Len(q) : q[i] = Clip(r, f.window)
  BY <1>3, TimelineIs
<1>5. PICK j \in 1 .. Len(q) : q[j] = Clip(s, f.window)
  BY <1>3, TimelineIs
<1>6. /\ d \in DaysOf(q[i]) /\ d \in DaysOf(q[j]) /\ d \in Int
      /\ q[i].tenancy = r.tenancy /\ q[j].tenancy = s.tenancy
  BY <1>1, <1>2, <1>4, <1>5, SpansAre, WindowStored
<1>7. Len(q) \in Nat /\ \A k \in 1 .. Len(q) : q[k].from \in Int /\ q[k].to \in Int
  BY TimelineIs, SpansHaveOrder
<1>8. ~(i < j)
  <2>1. i < j => q[i].to <= q[j].from
    BY SpansFollow
  <2> HIDE DEF q
  <2> QED
    BY <1>6, <1>7, <2>1 DEF DaysOf
<1>9. ~(j < i)
  <2>1. j < i => q[j].to <= q[i].from
    BY SpansFollow
  <2> HIDE DEF q
  <2> QED
    BY <1>6, <1>7, <2>1 DEF DaysOf
<1>10. i = j
  BY <1>7, <1>8, <1>9
<1> QED
  BY <1>1, <1>6, <1>10, TenancyStored

\* The days on which nobody has a unit.
EmptyDays(f, u) == {d \in DaysOf(f.window) : OccupiedBy(f, u, d) = {}}

\* They are the days of no span.
LEMMA EmptyDaysAre ==
    ASSUME NEW f, Stored(f), NEW u, NEW d \in DaysOf(f.window)
    PROVE  d \in EmptyDays(f, u) <=> \A s \in ClippedOf(f, u) : d \notin DaysOf(s)
<1>1. ASSUME NEW r \in TenanciesOf(f, u), d \in DaysOf(r)
      PROVE  Clip(r, f.window) \in ClippedOf(f, u) /\ d \in DaysOf(Clip(r, f.window))
  <2>1. r \in f.tenancies
    BY DEF TenanciesOf
  <2>2. DaysIn(r, f.window) > 0
    BY <1>1, <2>1, TenancyStored, WindowStored, DaysInMeets
  <2> QED
    BY <1>1, <2>1, <2>2, SpansAre DEF ClippedOf, InWindow
<1>2. ASSUME NEW s \in ClippedOf(f, u), d \in DaysOf(s)
      PROVE  \E r \in TenanciesOf(f, u) : d \in DaysOf(r)
  <2>1. PICK r \in InWindow(f, u) : s = Clip(r, f.window)
    BY DEF ClippedOf
  <2>2. r \in f.tenancies /\ DaysIn(r, f.window) > 0 /\ r \in TenanciesOf(f, u)
    BY DEF InWindow, TenanciesOf
  <2> QED
    BY <1>2, <2>1, <2>2, SpansAre
<1>3. OccupiedBy(f, u, d) = {} <=> \A r \in TenanciesOf(f, u) : d \notin DaysOf(r)
  BY DEF OccupiedBy, TenanciesOf
<1> QED
  BY <1>1, <1>2, <1>3 DEF EmptyDays

\* The vacancies share out the days on which nobody has the unit.
LEMMA VacanciesShareOut ==
    ASSUME NEW f, Stored(f), NEW u, ~DoublyClaimed(TimelineOf(f, u))
    PROVE  SharesOut(Vacancies(TimelineOf(f, u), f.window), EmptyDays(f, u))
<1> DEFINE q == TimelineOf(f, u)
           n == Len(q)
           a == f.window.from
           b == f.window.to
           start(i) == IF i = 0 THEN a ELSE q[i].to
           end(i) == IF i = n THEN b ELSE q[i + 1].from
           V == Vacancies(q, f.window)
           D == EmptyDays(f, u)
<1>1. /\ n \in Nat
      /\ \A k \in 1 .. n : /\ q[k].from \in Int /\ q[k].to \in Int /\ q[k].from < q[k].to
                           /\ a <= q[k].from /\ q[k].to <= b
  BY TimelineIs, SpansHaveOrder
<1>2. a \in Int /\ b \in Int /\ a < b /\ DaysOf(f.window) = a .. b - 1
      /\ IsFiniteSet(DaysOf(f.window))
  BY WindowStored DEF DaysOf
<1>3. \A i, j \in 1 .. n : i < j => q[i].to <= q[j].from
  BY SpansFollow
<1>4. \A d \in a .. b - 1 : d \in D <=> \A k \in 1 .. n : ~(q[k].from <= d /\ d < q[k].to)
  <2> SUFFICES ASSUME NEW d \in a .. b - 1
               PROVE  d \in D <=> \A k \in 1 .. n : ~(q[k].from <= d /\ d < q[k].to)
    OBVIOUS
  <2>1. d \in DaysOf(f.window)
    BY <1>2
  <2>2. (\A s \in ClippedOf(f, u) : d \notin DaysOf(s))
        <=> \A k \in 1 .. n : d \notin DaysOf(q[k])
    BY TimelineIs
  <2>3. \A k \in 1 .. n : d \in DaysOf(q[k]) <=> q[k].from <= d /\ d < q[k].to
    <3> HIDE DEF q, n
    <3> QED
      BY <1>1, <1>2 DEF DaysOf
  <2> QED
    BY <2>1, <2>2, <2>3, EmptyDaysAre
<1>5. V = {[from |-> start(i), to |-> end(i)] : i \in {j \in 0 .. n : start(j) < end(j)}}
  BY DEF Vacancies
<1>6. D \subseteq DaysOf(f.window) /\ D \subseteq a .. b - 1
  BY <1>2 DEF EmptyDays
<1> HIDE DEF q, n, a, b, V, D
<1>7. \A i \in 0 .. n : start(i) \in Int /\ end(i) \in Int /\ a <= start(i) /\ end(i) <= b
  <2> SUFFICES ASSUME NEW i \in 0 .. n
               PROVE  start(i) \in Int /\ end(i) \in Int /\ a <= start(i) /\ end(i) <= b
    OBVIOUS
  <2>1. i # 0 => i \in 1 .. n
    BY <1>1
  <2>2. i # n => i + 1 \in 1 .. n
    BY <1>1
  <2> QED
    BY <1>1, <1>2, <2>1, <2>2
<1>8. ASSUME NEW i \in 0 .. n, NEW d \in Int, start(i) <= d, d < end(i) PROVE d \in D
  <2>1. d \in a .. b - 1
    BY <1>2, <1>7, <1>8
  <2>2. ASSUME NEW k \in 1 .. n PROVE ~(q[k].from <= d /\ d < q[k].to)
    <3>1. CASE k <= i
      <4>1. i \in 1 .. n /\ i # 0
        BY <1>1, <3>1
      <4>2. q[k].to <= q[i].to
        <5>1. CASE k = i
          BY <1>1, <5>1
        <5>2. CASE k < i
          BY <1>1, <1>3, <4>1, <5>2
        <5> QED
          BY <3>1, <5>1, <5>2
      <4>3. q[i].to <= d
        BY <1>8, <4>1
      <4> QED
        BY <1>1, <4>1, <4>2, <4>3
    <3>2. CASE k > i
      <4>1. i + 1 \in 1 .. n /\ i # n
        BY <1>1, <3>2
      <4>2. q[i + 1].from <= q[k].from
        <5>1. CASE k = i + 1
          BY <1>1, <5>1
        <5>2. CASE k > i + 1
          BY <1>1, <1>3, <4>1, <5>2
        <5> QED
          BY <3>2, <5>1, <5>2
      <4>3. d < q[i + 1].from
        BY <1>8, <4>1
      <4> QED
        BY <1>1, <4>1, <4>2, <4>3
    <3> QED
      BY <1>1, <3>1, <3>2
  <2> QED
    BY <1>4, <2>1, <2>2
<1>9. ASSUME NEW d \in D PROVE \E i \in 0 .. n : start(i) <= d /\ d < end(i)
  <2> DEFINE K == {k \in 0 .. n : k = 0 \/ q[k].from <= d}
  <2>1. 0 \in K /\ K \subseteq Int /\ n \in Int /\ \A k \in K : k <= n
    BY <1>1
  <2>2. PICK i \in K : \A k \in K : k <= i
    <3>1. K # {}
      BY <2>1
    <3> HIDE DEF K
    <3> QED
      BY <2>1, <3>1, GreatestOf
  <2>3. d \in a .. b - 1 /\ \A k \in 1 .. n : ~(q[k].from <= d /\ d < q[k].to)
    BY <1>4, <1>6
  <2>4. start(i) <= d
    <3>1. CASE i = 0
      BY <1>2, <2>3, <3>1
    <3>2. CASE i # 0
      <4>1. i \in 1 .. n /\ q[i].from <= d
        BY <1>1, <3>2
      <4> QED
        BY <1>1, <1>2, <2>3, <3>2, <4>1
    <3> QED
      BY <3>1, <3>2
  <2>5. d < end(i)
    <3>1. CASE i = n
      BY <1>2, <2>3, <3>1
    <3>2. CASE i # n
      <4>1. i + 1 \in 1 .. n /\ i + 1 > i
        BY <1>1, <3>2
      <4>2. i + 1 \notin K
        BY <2>2, <4>1
      <4>3. ~(q[i + 1].from <= d)
        BY <4>1, <4>2
      <4> QED
        BY <1>1, <1>2, <2>3, <3>2, <4>1, <4>3
    <3> QED
      BY <3>1, <3>2
  <2> QED
    BY <2>4, <2>5
<1>10. \A i \in 0 .. n : \A j \in 0 .. n :
         i < j /\ start(j) < end(j) => end(i) <= start(j)
  <2> SUFFICES ASSUME NEW i \in 0 .. n, NEW j \in 0 .. n, i < j
               PROVE  end(i) <= start(j)
    OBVIOUS
  <2>1. /\ i + 1 \in 1 .. n /\ j \in 1 .. n /\ i # n /\ j # 0
    BY <1>1
  <2>2. q[i + 1].from <= q[j].to
    <3>1. CASE i + 1 = j
      BY <1>1, <2>1, <3>1
    <3>2. CASE i + 1 < j
      BY <1>1, <1>3, <2>1, <3>2
    <3> QED
      BY <2>1, <3>1, <3>2
  <2> QED
    BY <2>1, <2>2
<1>11. \A v \in V : \E i \in 0 .. n : /\ start(i) < end(i) /\ v = [from |-> start(i), to |-> end(i)]
                                       /\ v.from = start(i) /\ v.to = end(i)
  BY <1>5
<1>12. \A i \in 0 .. n : start(i) < end(i) => [from |-> start(i), to |-> end(i)] \in V
  BY <1>5
<1> HIDE DEF start, end
<1>13. \A v \in V : /\ v.from \in Int /\ v.to \in Int /\ v.from < v.to /\ DaysOf(v) \subseteq D
                    /\ v.from \in D
  <2> SUFFICES ASSUME NEW v \in V
               PROVE  /\ v.from \in Int /\ v.to \in Int /\ v.from < v.to /\ DaysOf(v) \subseteq D
                      /\ v.from \in D
    OBVIOUS
  <2>1. PICK i \in 0 .. n : start(i) < end(i) /\ v.from = start(i) /\ v.to = end(i)
    BY <1>11
  <2>2. start(i) \in Int /\ end(i) \in Int
    BY <1>7
  <2>3. \A d \in start(i) .. end(i) - 1 : d \in D
    BY <1>8, <2>2
  <2>4. start(i) \in start(i) .. end(i) - 1
    BY <2>1, <2>2
  <2> QED
    BY <2>1, <2>2, <2>3, <2>4 DEF DaysOf
<1>14. \A d \in D : \E v \in V : d \in DaysOf(v)
  <2> SUFFICES ASSUME NEW d \in D PROVE \E v \in V : d \in DaysOf(v)
    OBVIOUS
  <2>1. PICK i \in 0 .. n : start(i) <= d /\ d < end(i)
    BY <1>9
  <2>2. start(i) \in Int /\ end(i) \in Int /\ d \in Int
    BY <1>2, <1>6, <1>7
  <2> DEFINE v == [from |-> start(i), to |-> end(i)]
  <2>3. v \in V /\ d \in DaysOf(v)
    BY <1>12, <2>1, <2>2 DEF DaysOf
  <2> QED
    BY <2>3
<1>15. \A v, w \in V : DaysOf(v) \cap DaysOf(w) # {} => v = w
  <2> SUFFICES ASSUME NEW v \in V, NEW w \in V, NEW d, d \in DaysOf(v), d \in DaysOf(w)
               PROVE  v = w
    OBVIOUS
  <2>1. PICK i \in 0 .. n : /\ start(i) < end(i) /\ v = [from |-> start(i), to |-> end(i)]
                            /\ v.from = start(i) /\ v.to = end(i)
    BY <1>11
  <2>2. PICK j \in 0 .. n : /\ start(j) < end(j) /\ w = [from |-> start(j), to |-> end(j)]
                            /\ w.from = start(j) /\ w.to = end(j)
    BY <1>11
  <2>3. /\ start(i) \in Int /\ end(i) \in Int /\ start(j) \in Int /\ end(j) \in Int
    BY <1>7
  <2>4. d \in Int /\ start(i) <= d /\ d < end(i) /\ start(j) <= d /\ d < end(j)
    BY <2>1, <2>2, <2>3 DEF DaysOf
  <2>5. ~(i < j)
    BY <1>10, <2>2, <2>3, <2>4
  <2>6. ~(j < i)
    BY <1>10, <2>1, <2>3, <2>4
  <2>7. i = j
    BY <1>1, <2>5, <2>6
  <2> QED
    BY <2>1, <2>2, <2>7
<1>16. IsFiniteSet(D)
  BY <1>2, <1>6, FS_Subset
<1>17. IsFiniteSet(V)
  <2>1. \A v, w \in V : v.from = w.from => v = w
    <3> SUFFICES ASSUME NEW v \in V, NEW w \in V, v.from = w.from PROVE v = w
      OBVIOUS
    <3>1. v.from \in DaysOf(v) /\ w.from \in DaysOf(w)
      BY <1>13 DEF DaysOf
    <3> QED
      BY <1>15, <3>1
  <2> QED
    BY <1>13, <1>16, <2>1, SharesAreFinite
<1> QED
  BY <1>13, <1>14, <1>15, <1>17 DEF SharesOut, V, D, q

-----------------------------------------------------------------------------
(* The weights of the lines, by a line's identity.                         *)

\* A weight for each line, and x for its line.
Weighs(w, L, ten, x) ==
    /\ IsFiniteSet(L)
    /\ DOMAIN w = {<<ten[c], c>> : c \in L}
    /\ \A c \in L : x[c] \in Int /\ w[<<ten[c], c>>] = x[c]

SumOfTenancy(w, t) == SumOf([l \in {y \in DOMAIN w : Of(y) = t} |-> w[l]])

\* They are added up by line, for one tenancy or for all.
LEMMA WeightsByLine ==
    ASSUME NEW w, NEW L, NEW ten, NEW x, Weighs(w, L, ten, x)
    PROVE  /\ IsFiniteSet(DOMAIN w) /\ \A l \in DOMAIN w : w[l] \in Int
           /\ SumOf(w) = Sum(x, L)
           /\ \A t : SumOfTenancy(w, t) = Sum(x, LinesOf(L, ten, t))
<1> DEFINE b == [c \in L |-> <<ten[c], c>>]
           T == DOMAIN w
<1>1. IsFiniteSet(L) /\ T = {b[c] : c \in L}
  BY DEF Weighs
<1>2. \A c \in L : b[c] \in T /\ Of(b[c]) = ten[c] /\ x[c] \in Int /\ x[c] = w[b[c]]
  BY DEF Weighs, Of
<1>3. \A c, e \in L : b[c] = b[e] => c = e
  OBVIOUS
<1>4. \A l \in T : \E c \in L : l = b[c]
  BY <1>1
<1>5. IsFiniteSet(T) /\ Sum(x, L) = Sum(w, T)
  <2>1. \A c \in L : x[c] \in Int /\ x[c] = w[b[c]]
    BY <1>2
  <2> HIDE DEF b, T
  <2> QED
    BY <1>1, <1>3, <2>1, SumRenamed
<1>6. ASSUME NEW t PROVE SumOfTenancy(w, t) = Sum(x, LinesOf(L, ten, t))
  <2> DEFINE M == LinesOf(L, ten, t)
             N == {y \in T : Of(y) = t}
             k == [l \in N |-> w[l]]
  <2>1. M \subseteq L /\ IsFiniteSet(M)
    BY <1>1, FS_Subset DEF LinesOf
  <2>2. N = {b[c] : c \in M}
    <3>1. \A c \in M : b[c] \in N
      BY <1>2 DEF LinesOf
    <3>2. \A l \in N : \E c \in M : l = b[c]
      <4> SUFFICES ASSUME NEW l \in N PROVE \E c \in M : l = b[c]
        OBVIOUS
      <4>1. PICK c \in L : l = b[c]
        BY <1>4
      <4>2. ten[c] = t
        BY <1>2, <4>1
      <4> QED
        BY <4>1, <4>2 DEF LinesOf
    <3> HIDE DEF M, N, b
    <3> QED
      BY <3>1, <3>2
  <2>3. \A c \in M : x[c] \in Int /\ x[c] = k[b[c]]
    BY <1>2, <2>1 DEF LinesOf
  <2>4. \A c, e \in M : b[c] = b[e] => c = e
    BY <1>3, <2>1
  <2>5. Sum(x, M) = Sum(k, N)
    <3> HIDE DEF M, N, k, b
    <3> QED
      BY <2>1, <2>2, <2>3, <2>4, SumRenamed
  <2>6. SumOfTenancy(w, t) = SumOf(k) /\ DOMAIN k = N
    BY DEF SumOfTenancy
  <2>7. SumOf(k) = Sum(k, N)
    <3> HIDE DEF k, N
    <3> QED
      BY <2>6, SumOfIs
  <2> QED
    BY <2>5, <2>6, <2>7
<1>7. \A l \in T : w[l] \in Int
  BY <1>2, <1>4
<1>8. SumOf(w) = Sum(w, T)
  BY SumOfIs
<1> QED
  BY <1>5, <1>6, <1>7, <1>8

\* The days with and the days without an agreement are natural numbers.
LEMMA DaysAreNat ==
    ASSUME NEW f, Stored(f), NEW r \in f.tenancies, NEW p, p.from \in Int, p.to \in Int,
           DaysOf(p) \subseteq DaysOf(r) \cap DaysOf(f.window)
    PROVE  /\ DaysIn(p, f.window) - IneligibleDays(f, r.tenancy, p) \in Nat
           /\ IneligibleDays(f, r.tenancy, p) \in Nat
           /\ DaysIn(p, f.window) \in Nat
<1> DEFINE W == DaysOf(f.window)
           h == [d \in W |-> IF d \in DaysOf(p) \ Withheld(f, r) THEN 1 ELSE 0]
           k == [d \in W |-> IF d \in Withheld(f, r) \cap DaysOf(p) THEN 1 ELSE 0]
           n == DaysIn(p, f.window)
           i == IneligibleDays(f, r.tenancy, p)
<1>1. ValueOn(h, W, DaysOf(p) \ Withheld(f, r), 1)
      /\ ValueOn(k, W, Withheld(f, r) \cap DaysOf(p), 1)
  BY DEF ValueOn
<1>2. \A d \in W : h[d] \in Nat /\ k[d] \in Nat
  OBVIOUS
<1>3. Sum(h, W) \in Nat /\ Sum(k, W) \in Nat
  <2>1. IsFiniteSet(W)
    BY WindowStored
  <2> HIDE DEF W, h, k
  <2> QED
    BY <1>2, <2>1, SumNat
<1>4. Sum(h, W) = 1 * (n - i) /\ Sum(k, W) = 1 * i /\ i \in Int /\ n \in Int
  <2> DEFINE u == 1
  <2>1. /\ ValueOn(h, DaysOf(f.window), DaysOf(p) \ Withheld(f, r), u)
        /\ ValueOn(k, DaysOf(f.window), Withheld(f, r) \cap DaysOf(p), u)
        /\ p.from \in Int /\ p.to \in Int /\ u \in Int
        /\ DaysOf(p) \subseteq DaysOf(r) \cap DaysOf(f.window)
    BY <1>1
  <2> HIDE DEF h, k, u
  <2>2. /\ Sum(h, DaysOf(f.window))
            = u * (DaysIn(p, f.window) - IneligibleDays(f, r.tenancy, p))
        /\ Sum(k, DaysOf(f.window)) = u * IneligibleDays(f, r.tenancy, p)
        /\ IneligibleDays(f, r.tenancy, p) \in Int /\ DaysIn(p, f.window) \in Int
    BY <2>1, DaysWeigh
  <2> QED
    BY <2>2 DEF u
<1> HIDE DEF W, h, k, n, i
<1>5. n - i \in Nat /\ i \in Nat
  BY <1>3, <1>4
<1> QED
  BY <1>4, <1>5 DEF n, i

-----------------------------------------------------------------------------
(* Costs by area, by units, and of one unit.                               *)

\* Each day of a unit of U weighs the unit's value.
ByUnit(f, U, value) ==
    /\ U \subseteq DOMAIN f.area
    /\ \A u \in U : value[u] \in Nat /\ ~DoublyClaimed(TimelineOf(f, u))
    /\ \A r \in f.tenancies : \A d \in DaysOf(f.window) :
          DayWeight(f, r.tenancy, r.unit, d)
          = IF r.unit \in U /\ d \in DaysOf(r) THEN value[r.unit] ELSE 0
    /\ \A u \in DOMAIN f.area : \A d \in DaysOf(f.window) :
          EmptyWeight(f, u, d) = IF u \in U /\ d \in EmptyDays(f, u) THEN value[u] ELSE 0

UnitRows(f, U) == UNION {ClippedOf(f, u) : u \in U}

UnitTen(L) == [c \in L |-> c.tenancy]

UnitPer(L) == [c \in L |-> c]

UnitVal(L, value) == [c \in L |-> value[c.unit]]

\* The lines of a cost by unit are the spans of its units.
LEMMA UnitRowsAre ==
    ASSUME NEW f, Stored(f), NEW U, U \subseteq DOMAIN f.area, NEW c \in UnitRows(f, U)
    PROVE  /\ \E r \in f.tenancies : /\ c = Clip(r, f.window) /\ DaysIn(r, f.window) > 0
                                     /\ r.unit \in U /\ r.tenancy = c.tenancy /\ r.unit = c.unit
                                     /\ DaysOf(c) = DaysOf(r) \cap DaysOf(f.window)
           /\ c.from \in Int /\ c.to \in Int /\ c.from < c.to
           /\ DaysIn(c, f.window) = c.to - c.from
<1>1. PICK u \in U : c \in ClippedOf(f, u)
  BY DEF UnitRows
<1>2. PICK r \in InWindow(f, u) : c = Clip(r, f.window)
  BY <1>1 DEF ClippedOf
<1>3. r \in f.tenancies /\ r.unit \in U /\ DaysIn(r, f.window) > 0
  BY <1>2 DEF InWindow, TenanciesOf
<1> QED
  BY <1>2, <1>3, SpansAre

\* A tenancy has one line, with its days.
LEMMA UnitRowOf ==
    ASSUME NEW f, Stored(f), NEW U, U \subseteq DOMAIN f.area, NEW r \in f.tenancies,
           NEW c \in UnitRows(f, U), c.tenancy = r.tenancy
    PROVE  c = Clip(r, f.window) /\ DaysOf(c) = DaysOf(r) \cap DaysOf(f.window)
           /\ r.unit \in U /\ c.unit = r.unit
<1>1. PICK s \in f.tenancies : /\ c = Clip(s, f.window) /\ s.unit \in U
                               /\ s.tenancy = c.tenancy /\ s.unit = c.unit
                               /\ DaysOf(c) = DaysOf(s) \cap DaysOf(f.window)
  BY UnitRowsAre
<1>2. s = r
  BY <1>1, TenancyStored
<1> QED
  BY <1>1, <1>2

\* A tenancy that has a unit on a day has a line with that day.
LEMMA UnitRowExists ==
    ASSUME NEW f, Stored(f), NEW U, U \subseteq DOMAIN f.area, NEW r \in f.tenancies,
           r.unit \in U, NEW d \in DaysOf(f.window), d \in DaysOf(r)
    PROVE  /\ Clip(r, f.window) \in UnitRows(f, U) /\ Clip(r, f.window).tenancy = r.tenancy
           /\ d \in DaysOf(Clip(r, f.window))
<1>1. DaysIn(r, f.window) > 0
  BY TenancyStored, WindowStored, DaysInMeets
<1>2. Clip(r, f.window) \in ClippedOf(f, r.unit)
  BY <1>1 DEF ClippedOf, InWindow, TenanciesOf
<1>3. Clip(r, f.window) \in UnitRows(f, U)
  BY <1>2 DEF UnitRows
<1> QED
  BY <1>1, <1>3, SpansAre

\* They are finitely many, and add up to the value on the days of each tenancy.
LEMMA UnitLines ==
    ASSUME NEW f, Stored(f), NEW U, NEW value, ByUnit(f, U, value)
    PROVE  LET L == UnitRows(f, U) IN Lines(f, L, UnitTen(L), UnitPer(L), UnitVal(L, value))
<1> DEFINE L == UnitRows(f, U)
           ten == UnitTen(L)
           per == UnitPer(L)
           v == UnitVal(L, value)
<1>1. U \subseteq DOMAIN f.area /\ IsFiniteSet(U) /\ \A u \in U : value[u] \in Nat
  BY UnitsStored, FS_Subset DEF ByUnit
<1>2. IsFiniteSet(L)
  <2> DEFINE Z == {ClippedOf(f, u) : u \in U}
             b == [u \in U |-> ClippedOf(f, u)]
  <2>1. Z = {b[u] : u \in U}
    OBVIOUS
  <2>2. \A z \in Z : IsFiniteSet(z)
    BY SpansHaveOrder DEF HasOrder
  <2>3. IsFiniteSet(Z)
    <3> HIDE DEF Z, b
    <3> QED
      BY <1>1, <2>1, FiniteImage
  <2> HIDE DEF Z
  <2>4. IsFiniteSet(UNION Z)
    BY <2>2, <2>3, FS_UNION
  <2> QED
    BY <2>4 DEF Z, UnitRows
<1>3. \A c \in L : ten[c] = c.tenancy /\ per[c] = c /\ v[c] = value[c.unit]
  BY DEF UnitTen, UnitPer, UnitVal
<1>4. ASSUME NEW c \in L
      PROVE  /\ per[c].from \in Int /\ per[c].to \in Int /\ v[c] \in Int
             /\ \E r \in f.tenancies :
                   /\ r.tenancy = ten[c]
                   /\ DaysOf(per[c]) \subseteq DaysOf(r) \cap DaysOf(f.window)
  <2>1. /\ c.from \in Int /\ c.to \in Int
        /\ \E r \in f.tenancies : /\ r.unit \in U /\ r.tenancy = c.tenancy /\ r.unit = c.unit
                                  /\ DaysOf(c) = DaysOf(r) \cap DaysOf(f.window)
    BY <1>1, UnitRowsAre
  <2>2. value[c.unit] \in Int
    BY <1>1, <2>1
  <2> HIDE DEF ten, per, v
  <2> QED
    BY <1>3, <2>1, <2>2
<1>5. ASSUME NEW r \in f.tenancies, NEW d \in DaysOf(f.window)
      PROVE  DayWeight(f, r.tenancy, r.unit, d)
             = Sum(v, {c \in L : ten[c] = r.tenancy /\ d \in DaysOf(per[c])})
  <2> DEFINE S == {c \in L : ten[c] = r.tenancy /\ d \in DaysOf(per[c])}
  <2>1. DayWeight(f, r.tenancy, r.unit, d)
        = IF r.unit \in U /\ d \in DaysOf(r) THEN value[r.unit] ELSE 0
    BY DEF ByUnit
  <2>2. \A c \in S : c \in L /\ c.tenancy = r.tenancy /\ d \in DaysOf(c)
    BY <1>3
  <2>3. \A c \in S : /\ c = Clip(r, f.window) /\ r.unit \in U /\ c.unit = r.unit
                     /\ d \in DaysOf(r)
    BY <1>1, <2>2, UnitRowOf
  <2>4. CASE r.unit \in U /\ d \in DaysOf(r)
    <3> DEFINE c == Clip(r, f.window)
    <3>1. c \in L /\ c.tenancy = r.tenancy /\ d \in DaysOf(c)
      BY <1>1, <2>4, UnitRowExists
    <3>2. c \in S
      <4> HIDE DEF c, L, ten, per
      <4> QED
        BY <1>3, <3>1
    <3>3. S = {c}
      <4> HIDE DEF S
      <4> QED
        BY <2>3, <3>2
    <3>4. v[c] = value[r.unit] /\ v[c] \in Int
      <4>1. c.unit = r.unit
        BY <2>3, <3>2
      <4> HIDE DEF c, v
      <4> QED
        BY <1>1, <1>3, <2>4, <3>1, <4>1
    <3> HIDE DEF c, S, v
    <3>5. Sum(v, {c}) = v[c]
      BY <3>4, SumOne
    <3> QED
      BY <2>1, <2>4, <3>3, <3>4, <3>5 DEF S
  <2>5. CASE ~(r.unit \in U /\ d \in DaysOf(r))
    <3>1. S = {}
      <4> HIDE DEF S
      <4> QED
        BY <2>3, <2>5
    <3> HIDE DEF S, v
    <3> QED
      BY <2>1, <2>5, <3>1, SumOfNone DEF S
  <2> QED
    BY <2>4, <2>5
<1> HIDE DEF L, ten, per, v
<1>6. Lines(f, L, ten, per, v)
  BY <1>2, <1>4, <1>5 DEF Lines
<1> QED
  BY <1>6 DEF L, ten, per, v

\* The lengths of the periods that share out some days.
LEMMA SharesWeigh ==
    ASSUME NEW P, NEW W, IsFiniteSet(W), NEW D, D \subseteq W, SharesOut(P, D),
           NEW m, \A p \in P : m[p] = p.to - p.from, NEW c \in Int,
           NEW h, ValueOn(h, W, D, c)
    PROVE  Sum(h, W) = c * Sum(m, P) /\ Sum(m, P) \in Int
<1> DEFINE one == [d \in D |-> 1]
<1>1. IsFiniteSet(D) /\ IsFiniteSet(P)
  BY FS_Subset DEF SharesOut
<1>2. \A p \in P : m[p] = Sum(one, DaysOf(p)) /\ m[p] \in Int
  <2> SUFFICES ASSUME NEW p \in P PROVE m[p] = Sum(one, DaysOf(p)) /\ m[p] \in Int
    OBVIOUS
  <2>1. p.from \in Int /\ p.to \in Int /\ p.from < p.to /\ DaysOf(p) \subseteq D
    BY DEF SharesOut
  <2>2. IsFiniteSet(DaysOf(p)) /\ Cardinality(DaysOf(p)) = p.to - p.from
    <3>1. p.to - 1 \in Int /\ ~(p.from > p.to - 1) /\ (p.to - 1) - p.from + 1 = p.to - p.from
      BY <2>1
    <3> QED
      BY <2>1, <3>1, FS_Interval DEF DaysOf
  <2>3. \A d \in DaysOf(p) : one[d] = 1
    BY <2>1
  <2> HIDE DEF one
  <2>4. Sum(one, DaysOf(p)) = p.to - p.from
    BY <2>2, <2>3, SumOfOnes
  <2> QED
    BY <2>1, <2>4
<1>3. \A d \in D : one[d] \in Int /\ h[d] = c * one[d] /\ h[d] \in Int
  BY DEF ValueOn
<1>4. \A d \in W \ D : h[d] = 0
  BY DEF ValueOn
<1> HIDE DEF one
<1>5. Sum(one, D) = Sum(m, P)
  BY <1>1, <1>2, <1>3, SumOfShares
<1>6. Sum(h, D) = c * Sum(one, D)
  BY <1>1, <1>3, SumTimes
<1>7. Sum(h, W) = Sum(h, D)
  BY <1>3, <1>4, SumOnly
<1>8. Sum(m, P) \in Int
  BY <1>1, <1>2, SumType
<1> QED
  BY <1>5, <1>6, <1>7, <1>8

\* The empty days of a unit.
EmptySum(f, u) ==
    SumOf([v \in Vacancies(TimelineOf(f, u), f.window) |-> v.to - v.from])

\* They are counted day by day.
LEMMA EmptyCounted ==
    ASSUME NEW f, Stored(f), NEW u, ~DoublyClaimed(TimelineOf(f, u)), NEW c \in Int,
           NEW h, ValueOn(h, DaysOf(f.window), EmptyDays(f, u), c)
    PROVE  Sum(h, DaysOf(f.window)) = c * EmptySum(f, u) /\ EmptySum(f, u) \in Int
<1> DEFINE V == Vacancies(TimelineOf(f, u), f.window)
           m == [v \in V |-> v.to - v.from]
           W == DaysOf(f.window)
           D == EmptyDays(f, u)
<1>1. SharesOut(V, D) /\ IsFiniteSet(W) /\ D \subseteq W
  BY VacanciesShareOut, WindowStored DEF EmptyDays
<1>2. EmptySum(f, u) = Sum(m, V)
  <2>1. EmptySum(f, u) = SumOf(m) /\ DOMAIN m = V
    BY DEF EmptySum
  <2> HIDE DEF m, V
  <2> QED
    BY <2>1, SumOfIs
<1>3. \A p \in V : m[p] = p.to - p.from
  OBVIOUS
<1>4. ValueOn(h, W, D, c)
  OBVIOUS
<1> HIDE DEF V, m, W, D
<1>5. Sum(h, W) = c * Sum(m, V) /\ Sum(m, V) \in Int
  BY <1>1, <1>3, <1>4, SharesWeigh
<1> QED
  BY <1>2, <1>5 DEF W

EmptyTable(f) == [p \in UnitDays(f) |-> EmptyWeight(f, p[1], p[2])]

\* The empty days of all units.
LEMMA EmptyUnits ==
    ASSUME NEW f, Stored(f), NEW U, NEW value, ByUnit(f, U, value)
    PROVE  /\ \A p \in UnitDays(f) : EmptyWeight(f, p[1], p[2]) \in Int
           /\ Sum(EmptyTable(f), UnitDays(f)) = SumOf([u \in U |-> value[u] * EmptySum(f, u)])
           /\ \A u \in U : EmptySum(f, u) \in Int
<1> DEFINE A == DOMAIN f.area
           W == DaysOf(f.window)
           e == EmptyTable(f)
           g == [u \in U |-> value[u] * EmptySum(f, u)]
<1>1. /\ U \subseteq A /\ \A u \in U : value[u] \in Nat /\ ~DoublyClaimed(TimelineOf(f, u))
      /\ \A u \in A : \A d \in W :
            EmptyWeight(f, u, d) = IF u \in U /\ d \in EmptyDays(f, u) THEN value[u] ELSE 0
      /\ IsFiniteSet(A) /\ IsFiniteSet(W) /\ UnitDays(f) = A \X W
  BY UnitsStored, WindowStored DEF ByUnit, UnitDays
<1>2. \A p \in A \X W : p[1] \in A /\ p[2] \in W /\ e[p] = EmptyWeight(f, p[1], p[2])
  BY <1>1 DEF EmptyTable
<1>3. \A u \in A : \A d \in W : EmptyWeight(f, u, d) \in Int
  BY <1>1
<1>4. \A p \in A \X W : EmptyWeight(f, p[1], p[2]) \in Int
  BY <1>2, <1>3
<1>5. Table(e, A, W)
  BY <1>2, <1>4 DEF Table
<1>6. ASSUME NEW u \in A
      PROVE  /\ u \in U => RowSum(e, u, W) = g[u] /\ g[u] \in Int /\ EmptySum(f, u) \in Int
             /\ u \notin U => RowSum(e, u, W) = 0
  <2> DEFINE h == [d \in W |-> e[<<u, d>>]]
  <2>1. \A d \in W : h[d] = EmptyWeight(f, u, d)
    <3>1. \A d \in W : <<u, d>> \in A \X W
      OBVIOUS
    <3> QED
      BY <1>2, <3>1
  <2>2. RowSum(e, u, W) = Sum(h, W)
    BY DEF RowSum
  <2>3. CASE u \in U
    <3> DEFINE c == value[u]
    <3>1. ValueOn(h, W, EmptyDays(f, u), c)
      BY <1>1, <2>1, <2>3 DEF ValueOn
    <3>2. c \in Int /\ ~DoublyClaimed(TimelineOf(f, u)) /\ g[u] = c * EmptySum(f, u)
      BY <1>1, <2>3
    <3> HIDE DEF h, c, g
    <3>3. Sum(h, DaysOf(f.window)) = c * EmptySum(f, u) /\ EmptySum(f, u) \in Int
      BY <3>1, <3>2, EmptyCounted
    <3> QED
      BY <2>2, <2>3, <3>2, <3>3
  <2>4. CASE u \notin U
    <3>1. \A d \in W : h[d] = 0
      BY <1>1, <2>1, <2>4
    <3> HIDE DEF h, W
    <3>2. Sum(h, W) = 0
      BY <1>1, <3>1, SumZero
    <3> QED
      BY <2>2, <2>4, <3>2
  <2> QED
    BY <2>3, <2>4
<1> DEFINE k == Rows(e, A, W)
<1>7. /\ \A u \in U : k[u] = g[u] /\ k[u] \in Int
      /\ \A u \in A \ U : k[u] = 0
  BY <1>1, <1>6 DEF Rows
<1>8. Sum(e, A \X W) = Sum(k, A)
  <2> HIDE DEF A, W, e
  <2> QED
    BY <1>1, <1>5, SumOfRows
<1>9. IsFiniteSet(U)
  BY <1>1, FS_Subset
<1>10. SumOf(g) = Sum(g, U)
  <2>1. DOMAIN g = U
    OBVIOUS
  <2> HIDE DEF g
  <2> QED
    BY <2>1, SumOfIs
<1>11. \A u \in U : EmptySum(f, u) \in Int
  BY <1>1, <1>6
<1> HIDE DEF A, W, e, k, g
<1>12. Sum(k, A) = Sum(k, U) /\ Sum(k, U) = Sum(g, U)
  BY <1>1, <1>7, <1>9, SumOnly, SumSame
<1> QED
  BY <1>1, <1>4, <1>8, <1>10, <1>11, <1>12 DEF e, g

\* What all the conditions on the weights of a cost have in common: its lines
\* are named, weigh what the renters pay for, and the owner has the rest.
WeighedByDays(f, P) ==
    /\ IsFiniteSet(DOMAIN P.weight) /\ \A l \in DOMAIN P.weight : P.weight[l] \in Nat
    /\ P.owner \in Nat
    /\ \A t \in Tenants(f) : SumOfTenancy(P.weight, t) = PayingWeight(f, t)
    /\ P.owner = OwnerWeight(f)

\* Lines and empty days that are the days of a cost give its weights.
LEMMA WeighedByLines ==
    ASSUME NEW f, Stored(f), NEW L, NEW ten, NEW per, NEW v, Lines(f, L, ten, per, v),
           \A c \in L : v[c] \in Nat,
           NEW w, Weighs(w, L, ten, [c \in L |-> LineWeight(f, ten, per, v, c)]),
           \A p \in UnitDays(f) : EmptyWeight(f, p[1], p[2]) \in Nat,
           NEW o, o = Sum(EmptyTable(f), UnitDays(f))
                      + Sum([c \in L |-> LineHeld(f, ten, per, v, c)], L)
    PROVE  /\ WeighedByDays(f, [weight |-> w, owner |-> o])
           /\ SumOf(w) = Sum([c \in L |-> LineWeight(f, ten, per, v, c)], L)
           /\ \A c \in L : LineWeight(f, ten, per, v, c) \in Nat
                           /\ LineHeld(f, ten, per, v, c) \in Nat
                           /\ LineWeight(f, ten, per, v, c) + LineHeld(f, ten, per, v, c)
                              = v[c] * DaysIn(per[c], f.window)
<1> DEFINE x == [c \in L |-> LineWeight(f, ten, per, v, c)]
           y == [c \in L |-> LineHeld(f, ten, per, v, c)]
           P == [weight |-> w, owner |-> o]
<1>1. ASSUME NEW c \in L
      PROVE  /\ LineWeight(f, ten, per, v, c) \in Nat /\ LineHeld(f, ten, per, v, c) \in Nat
             /\ LineWeight(f, ten, per, v, c) + LineHeld(f, ten, per, v, c)
                = v[c] * DaysIn(per[c], f.window)
  <2>1. PICK r \in f.tenancies :
           r.tenancy = ten[c] /\ DaysOf(per[c]) \subseteq DaysOf(r) \cap DaysOf(f.window)
    BY DEF Lines
  <2> DEFINE p == per[c]
             n == DaysIn(p, f.window)
             i == IneligibleDays(f, ten[c], p)
             u == v[c]
  <2>2. p.from \in Int /\ p.to \in Int /\ u \in Nat
    BY DEF Lines
  <2>3. n - i \in Nat /\ i \in Nat /\ n \in Nat
    <3>1. DaysIn(p, f.window) - IneligibleDays(f, r.tenancy, p) \in Nat
          /\ IneligibleDays(f, r.tenancy, p) \in Nat /\ DaysIn(p, f.window) \in Nat
      <4> HIDE DEF p
      <4> QED
        BY <2>1, <2>2, DaysAreNat DEF p
    <3> QED
      BY <2>1, <3>1
  <2>4. LineWeight(f, ten, per, v, c) = u * (n - i) /\ LineHeld(f, ten, per, v, c) = u * i
    BY DEF LineWeight, LineHeld
  <2> HIDE DEF p, n, i, u
  <2>5. u * (n - i) \in Nat /\ u * i \in Nat /\ u * (n - i) + u * i = u * n
    BY <2>2, <2>3
  <2> QED
    BY <2>4, <2>5 DEF u, n, p
<1>2. IsFiniteSet(L)
  BY DEF Lines
<1>3. /\ IsFiniteSet(DOMAIN w) /\ SumOf(w) = Sum(x, L)
      /\ \A t : SumOfTenancy(w, t) = Sum(x, LinesOf(L, ten, t))
  <2> HIDE DEF x
  <2> QED
    BY WeightsByLine DEF x
<1>4. \A l \in DOMAIN w : w[l] \in Nat
  <2> SUFFICES ASSUME NEW l \in DOMAIN w PROVE w[l] \in Nat
    OBVIOUS
  <2>1. PICK c \in L : l = <<ten[c], c>>
    BY DEF Weighs
  <2>2. w[l] = LineWeight(f, ten, per, v, c)
    BY <2>1 DEF Weighs
  <2> QED
    BY <1>1, <2>2
<1>5. ASSUME NEW t \in Tenants(f) PROVE SumOfTenancy(w, t) = PayingWeight(f, t)
  <2> DEFINE M == LinesOf(L, ten, t)
             z == [c \in M |-> LineWeight(f, ten, per, v, c)]
  <2>1. Sum(z, M) = PayingWeight(f, t)
    BY PayingMatches
  <2>2. M \subseteq L /\ IsFiniteSet(M)
    BY <1>2, FS_Subset DEF LinesOf
  <2>3. \A c \in M : z[c] = x[c]
    BY <2>2
  <2>4. Sum(z, M) = Sum(x, M)
    <3> HIDE DEF M, z, x
    <3> QED
      BY <2>2, <2>3, SumSame
  <2> QED
    BY <1>3, <2>1, <2>4
<1>6. o = OwnerWeight(f)
  <2>1. \A p \in UnitDays(f) : EmptyWeight(f, p[1], p[2]) \in Int
    OBVIOUS
  <2> QED
    BY <2>1, OwnerMatches DEF EmptyTable
<1>7. o \in Nat
  <2>1. Sum(y, L) \in Nat
    <3>1. \A c \in L : y[c] \in Nat
      BY <1>1
    <3> HIDE DEF y
    <3> QED
      BY <1>2, <3>1, SumNat
  <2>2. Sum(EmptyTable(f), UnitDays(f)) \in Nat
    <3>1. \A p \in UnitDays(f) : EmptyTable(f)[p] \in Nat
      BY DEF EmptyTable
    <3>2. IsFiniteSet(UnitDays(f))
      BY UnitsStored, WindowStored, FS_Product DEF UnitDays
    <3> QED
      BY <3>1, <3>2, SumNat
  <2> QED
    BY <2>1, <2>2
<1>8. P.weight = w /\ P.owner = o
  OBVIOUS
<1> HIDE DEF P
<1>9. WeighedByDays(f, P)
  BY <1>3, <1>4, <1>5, <1>6, <1>7, <1>8 DEF WeighedByDays
<1> QED
  BY <1>1, <1>3, <1>9 DEF P

\* The parties of a cost by unit.
LEMMA UnitPartiesAre ==
    ASSUME NEW f, Stored(f), NEW U, NEW value, ByUnit(f, U, value)
    PROVE  LET L == UnitRows(f, U)
               x == [c \in L |-> LineWeight(f, UnitTen(L), UnitPer(L), UnitVal(L, value), c)]
               y == [c \in L |-> LineHeld(f, UnitTen(L), UnitPer(L), UnitVal(L, value), c)]
               P == UnitParties(f, U, value)
           IN  /\ Weighs(P.weight, L, UnitTen(L), x)
               /\ P.owner = SumOf([u \in U |-> value[u] * EmptySum(f, u)]) + Sum(y, L)
               /\ P = [weight |-> P.weight, owner |-> P.owner]
<1> DEFINE L == UnitRows(f, U)
           ten == UnitTen(L)
           per == UnitPer(L)
           v == UnitVal(L, value)
           x == [c \in L |-> LineWeight(f, ten, per, v, c)]
           y == [c \in L |-> LineHeld(f, ten, per, v, c)]
           P == UnitParties(f, U, value)
           none(r) == IneligibleDays(f, r.tenancy, r)
           w == [l \in {<<r.tenancy, r>> : r \in L} |->
                    value[l[2].unit] * (l[2].to - l[2].from - none(l[2]))]
           h == [r \in L |-> value[r.unit] * none(r)]
           o == SumOf([u \in U |-> value[u] * EmptySum(f, u)]) + SumOf(h)
<1>1. P = [weight |-> w, owner |-> o]
  BY DEF UnitParties, UnitRows, ClippedOf, InWindow, EmptySum
<1>2. Lines(f, L, ten, per, v) /\ U \subseteq DOMAIN f.area
  BY UnitLines DEF ByUnit
<1>3. \A c \in L : ten[c] = c.tenancy /\ per[c] = c /\ v[c] = value[c.unit]
  BY DEF UnitTen, UnitPer, UnitVal
<1>4. ASSUME NEW c \in L PROVE h[c] = LineHeld(f, ten, per, v, c)
  <2>1. h[c] = value[c.unit] * none(c)
    OBVIOUS
  <2> HIDE DEF h, ten, per, v, L
  <2> QED
    BY <1>3, <2>1 DEF LineHeld
<1>5. SumOf(h) = Sum(y, L)
  <2>1. h = y
    BY <1>4
  <2>2. DOMAIN y = L
    OBVIOUS
  <2> HIDE DEF h, y
  <2> QED
    BY <2>1, <2>2, SumOfIs
<1>6. ASSUME NEW c \in L
      PROVE  x[c] \in Int /\ w[<<ten[c], c>>] = x[c] /\ <<ten[c], c>> = <<c.tenancy, c>>
  <2> DEFINE l == <<c.tenancy, c>>
  <2>1. l[2] = c /\ l \in {<<r.tenancy, r>> : r \in L}
    OBVIOUS
  <2>2. w[l] = value[c.unit] * (c.to - c.from - none(c))
    BY <2>1
  <2>3. c.to - c.from = DaysIn(c, f.window)
    BY <1>2, UnitRowsAre
  <2>4. x[c] = value[c.unit] * (DaysIn(c, f.window) - none(c))
    <3>1. x[c] = LineWeight(f, ten, per, v, c)
      OBVIOUS
    <3> HIDE DEF x, ten, per, v, L
    <3> QED
      BY <1>3, <3>1 DEF LineWeight
  <2>5. x[c] \in Int
    <3>1. PICK r \in f.tenancies : r.tenancy = ten[c]
      BY <1>2 DEF Lines
    <3>2. c \in LinesOf(L, ten, r.tenancy)
      BY <3>1 DEF LinesOf
    <3>3. LineWeight(f, ten, per, v, c) \in Int
      <4> HIDE DEF L, ten, per, v
      <4>1. TenancyMatches(f, L, ten, per, v, r)
        BY <1>2, LinesMatchDays
      <4> QED
        BY <3>2, <4>1 DEF TenancyMatches
    <3> QED
      BY <3>3
  <2>6. ten[c] = c.tenancy
    BY <1>3
  <2> HIDE DEF x, w, L, ten, none
  <2> QED
    BY <2>2, <2>3, <2>4, <2>5, <2>6
<1>7. DOMAIN w = {<<ten[c], c>> : c \in L}
  <2>1. DOMAIN w = {<<c.tenancy, c>> : c \in L}
    OBVIOUS
  <2> HIDE DEF w, ten, L
  <2>2. {<<ten[c], c>> : c \in L} = {<<c.tenancy, c>> : c \in L}
    BY <1>3
  <2> QED
    BY <2>1, <2>2
<1>8. Weighs(w, L, ten, x)
  <2>1. IsFiniteSet(L)
    BY <1>2 DEF Lines
  <2> HIDE DEF w, L, ten, x
  <2> QED
    BY <1>6, <1>7, <2>1 DEF Weighs
<1>9. P.weight = w /\ P.owner = o
  BY <1>1
<1> HIDE DEF P, w, o, L, ten, per, v, h
<1>10. P.owner = SumOf([u \in U |-> value[u] * EmptySum(f, u)]) + Sum(y, L)
  BY <1>5, <1>9 DEF o
<1> QED
  BY <1>1, <1>8, <1>9, <1>10 DEF L, ten, per, v, P

\* The spans share out the days on which someone has the unit.
LEMMA SpansShareOut ==
    ASSUME NEW f, Stored(f), NEW u, ~DoublyClaimed(TimelineOf(f, u))
    PROVE  SharesOut(ClippedOf(f, u), DaysOf(f.window) \ EmptyDays(f, u))
<1> DEFINE S == ClippedOf(f, u)
           D == DaysOf(f.window) \ EmptyDays(f, u)
<1>1. IsFiniteSet(S) /\ \A s \in S : s.from \in Int /\ s.to \in Int /\ s.from < s.to
  BY SpansHaveOrder DEF HasOrder
<1>2. \A s \in S : \E r \in TenanciesOf(f, u) :
         s = Clip(r, f.window) /\ DaysOf(s) = DaysOf(r) \cap DaysOf(f.window)
  <2> SUFFICES ASSUME NEW r \in InWindow(f, u)
               PROVE  /\ r \in TenanciesOf(f, u)
                      /\ DaysOf(Clip(r, f.window)) = DaysOf(r) \cap DaysOf(f.window)
    BY DEF ClippedOf
  <2>1. r \in TenanciesOf(f, u) /\ r \in f.tenancies /\ DaysIn(r, f.window) > 0
    BY DEF InWindow, TenanciesOf
  <2> QED
    BY <2>1, SpansAre
<1>3. \A s \in S : DaysOf(s) \subseteq D
  <2> SUFFICES ASSUME NEW s \in S, NEW d \in DaysOf(s) PROVE d \in D
    OBVIOUS
  <2>1. d \in DaysOf(f.window)
    BY <1>2
  <2>2. d \notin EmptyDays(f, u)
    BY <2>1, EmptyDaysAre
  <2> QED
    BY <2>1, <2>2
<1>4. \A d \in D : \E s \in S : d \in DaysOf(s)
  BY EmptyDaysAre
<1>5. \A s, t \in S : DaysOf(s) \cap DaysOf(t) # {} => s = t
  <2> SUFFICES ASSUME NEW s \in S, NEW t \in S, NEW d, d \in DaysOf(s), d \in DaysOf(t)
               PROVE  s = t
    OBVIOUS
  <2>1. PICK r \in TenanciesOf(f, u) :
           s = Clip(r, f.window) /\ DaysOf(s) = DaysOf(r) \cap DaysOf(f.window)
    BY <1>2
  <2>2. PICK x \in TenanciesOf(f, u) :
           t = Clip(x, f.window) /\ DaysOf(t) = DaysOf(x) \cap DaysOf(f.window)
    BY <1>2
  <2>3. d \in DaysOf(f.window) /\ d \in DaysOf(r) /\ d \in DaysOf(x)
    BY <2>1, <2>2
  <2>4. r = x
    BY <2>3, OneTenancyADay
  <2> QED
    BY <2>1, <2>2, <2>4
<1> HIDE DEF S, D
<1>6. SharesOut(S, D)
  BY <1>1, <1>3, <1>4, <1>5 DEF SharesOut
<1> QED
  BY <1>6 DEF S, D

\* The spans and the empty days of a unit are all its days.
LEMMA UnitIsWhole ==
    ASSUME NEW f, Stored(f), NEW u, ~DoublyClaimed(TimelineOf(f, u)), NEW c \in Int,
           NEW m, \A s \in ClippedOf(f, u) : m[s] = c * (s.to - s.from)
    PROVE  Sum(m, ClippedOf(f, u)) + c * EmptySum(f, u)
           = Sum([d \in DaysOf(f.window) |-> c], DaysOf(f.window))
<1> DEFINE W == DaysOf(f.window)
           S == ClippedOf(f, u)
           E == EmptyDays(f, u)
           O == W \ E
           h == [d \in W |-> IF d \in O THEN c ELSE 0]
           k == [d \in W |-> IF d \in E THEN c ELSE 0]
           a == [d \in W |-> c]
           n == [s \in S |-> s.to - s.from]
<1>1. IsFiniteSet(W) /\ O \subseteq W /\ IsFiniteSet(S)
  BY WindowStored, SpansHaveOrder DEF HasOrder
<1>2. ValueOn(h, W, O, c) /\ ValueOn(k, W, E, c)
  BY DEF ValueOn
<1>3. \A d \in W : h[d] \in Int /\ k[d] \in Int /\ a[d] = h[d] + k[d]
  OBVIOUS
<1>4. SharesOut(S, O)
  BY SpansShareOut
<1>5. \A s \in S : n[s] = s.to - s.from /\ n[s] \in Int /\ m[s] = c * n[s]
  BY SpansHaveOrder
<1>6. Sum(k, W) = c * EmptySum(f, u)
  <2> HIDE DEF k
  <2> QED
    BY <1>2, EmptyCounted
<1> HIDE DEF W, S, E, O, h, k, a, n
<1>7. Sum(h, W) = c * Sum(n, S)
  BY <1>1, <1>2, <1>4, <1>5, SharesWeigh
<1>8. Sum(m, S) = c * Sum(n, S)
  BY <1>1, <1>5, SumTimes
<1>9. Sum(a, W) = Sum(h, W) + Sum(k, W)
  BY <1>1, <1>3, SumAdd
<1> QED
  BY <1>6, <1>7, <1>8, <1>9 DEF a, W, S

\* The weights of a cost by unit add up to the value of its units on all days.
Lengths(f, value) ==
    [c \in UnitRows(f, DOMAIN f.area) |-> value[c.unit] * (c.to - c.from)]

\* With the empty days, the lines of all units are all their days.
LEMMA UnitsAreWhole ==
    ASSUME NEW f, Stored(f), NEW value, ByUnit(f, DOMAIN f.area, value)
    PROVE  Sum(Lengths(f, value), UnitRows(f, DOMAIN f.area))
           + SumOf([u \in DOMAIN f.area |-> value[u] * EmptySum(f, u)])
           = Sum([p \in UnitDays(f) |-> value[p[1]]], UnitDays(f))
<1> DEFINE A == DOMAIN f.area
           W == DaysOf(f.window)
           L == UnitRows(f, A)
           z == Lengths(f, value)
           key == [c \in L |-> c.unit]
           part == [u \in A |-> ClippedOf(f, u)]
           m == [u \in A |-> Sum(z, ClippedOf(f, u))]
           e == [u \in A |-> value[u] * EmptySum(f, u)]
           x == [p \in A \X W |-> value[p[1]]]
           k == Rows(x, A, W)
<1>1. /\ IsFiniteSet(A) /\ IsFiniteSet(W) /\ IsFiniteSet(L)
      /\ \A u \in A : value[u] \in Nat /\ ~DoublyClaimed(TimelineOf(f, u))
  <2>1. IsFiniteSet(L)
    BY UnitLines DEF Lines
  <2> QED
    BY <2>1, UnitsStored, WindowStored DEF ByUnit
<1>2. \A c \in L : /\ c.unit \in A /\ c.from \in Int /\ c.to \in Int
                   /\ z[c] = value[c.unit] * (c.to - c.from)
  BY UnitRowsAre DEF Lengths
<1>3. ASSUME NEW u \in A, NEW s
      PROVE  s \in ClippedOf(f, u) <=> s \in L /\ s.unit = u
  <2>1. s \in L <=> \E y \in A : s \in ClippedOf(f, y)
    BY DEF UnitRows
  <2>2. \A y : s \in ClippedOf(f, y) => s.unit = y
    <3> SUFFICES ASSUME NEW y, NEW r \in InWindow(f, y), s = Clip(r, f.window) PROVE s.unit = y
      BY DEF ClippedOf
    <3>1. r \in f.tenancies /\ r.unit = y /\ DaysIn(r, f.window) > 0
      BY DEF InWindow, TenanciesOf
    <3> QED
      BY <3>1, SpansAre
  <2> QED
    BY <2>1, <2>2
<1>4. \A c \in L : key[c] \in A /\ z[c] \in Int
  <2>1. \A c \in L : value[c.unit] \in Int /\ c.to - c.from \in Int
    BY <1>1, <1>2
  <2>2. \A c \in L : z[c] \in Int
    BY <1>2, <2>1
  <2> QED
    BY <1>2, <2>2
<1>5. \A u \in A : /\ \A c : c \in part[u] <=> c \in L /\ key[c] = u
                   /\ m[u] = Sum(z, part[u])
  BY <1>3
<1>6. ASSUME NEW u \in A PROVE k[u] = m[u] + e[u] /\ m[u] \in Int /\ e[u] \in Int
  <2> DEFINE c == value[u]
             a == [d \in W |-> c]
             S == ClippedOf(f, u)
  <2>1. c \in Int /\ ~DoublyClaimed(TimelineOf(f, u))
    BY <1>1
  <2>2. \A s \in S : z[s] = c * (s.to - s.from)
    BY <1>2, <1>3
  <2>3. Sum(z, S) + c * EmptySum(f, u) = Sum(a, W)
    <3> HIDE DEF c
    <3> QED
      BY <2>1, <2>2, UnitIsWhole
  <2>4. k[u] = Sum(a, W)
    <3>1. \A d \in W : x[<<u, d>>] = c
      OBVIOUS
    <3>2. [d \in W |-> x[<<u, d>>]] = a
      BY <3>1
    <3> QED
      BY <3>2 DEF Rows, RowSum
  <2>5. Sum(z, S) \in Int
    <3>1. S \subseteq L
      BY <1>3
    <3>2. IsFiniteSet(S) /\ \A s \in S : z[s] \in Int
      BY <1>1, <1>4, <3>1, FS_Subset
    <3> HIDE DEF S
    <3> QED
      BY <3>2, SumType
  <2>6. e[u] \in Int
    <3>1. EmptySum(f, u) \in Int
      BY EmptyUnits
    <3> QED
      BY <1>1, <3>1
  <2> QED
    BY <2>3, <2>4, <2>5, <2>6
<1>7. Table(x, A, W)
  <2>1. \A p \in A \X W : p[1] \in A /\ x[p] = value[p[1]]
    OBVIOUS
  <2> QED
    BY <1>1, <2>1 DEF Table
<1>8. SumOf(e) = Sum(e, A)
  <2>1. DOMAIN e = A
    OBVIOUS
  <2> HIDE DEF e
  <2> QED
    BY <2>1, SumOfIs
<1> HIDE DEF A, W, L, z, key, part, m, e, x, k
<1>9. Sum(z, L) = Sum(m, A)
  <2>1. IsFiniteSet(A) /\ IsFiniteSet(L)
    BY <1>1
  <2>2. Keyed(L, A, key, part, z, m)
    BY <1>4, <1>5 DEF Keyed
  <2> QED
    BY <2>1, <2>2, SumByKey
<1>10. Sum(k, A) = Sum(m, A) + Sum(e, A)
  BY <1>1, <1>6, SumAdd
<1>11. Sum(x, A \X W) = Sum(k, A)
  BY <1>1, <1>7, SumOfRows DEF k
<1> QED
  BY <1>8, <1>9, <1>10, <1>11 DEF A, W, L, z, e, x, UnitDays

\* A line is for a renter with days in the window.
ForRenters(f, P) ==
    \A l \in DOMAIN P.weight :
        \E r \in f.tenancies : r.tenancy = Of(l) /\ DaysIn(r, f.window) > 0

\* The parties of a cost by unit weigh what the days of its units weigh.
LEMMA UnitsWeigh ==
    ASSUME NEW f, Stored(f), NEW U, NEW value, ByUnit(f, U, value)
    PROVE  LET P == UnitParties(f, U, value) IN
           /\ WeighedByDays(f, P) /\ ForRenters(f, P)
           /\ U = DOMAIN f.area =>
                 SumOf(P.weight) + P.owner
                 = Sum([p \in UnitDays(f) |-> value[p[1]]], UnitDays(f))
<1> DEFINE P == UnitParties(f, U, value)
           L == UnitRows(f, U)
           ten == UnitTen(L)
           per == UnitPer(L)
           v == UnitVal(L, value)
           x == [c \in L |-> LineWeight(f, ten, per, v, c)]
           y == [c \in L |-> LineHeld(f, ten, per, v, c)]
           w == P.weight
           o == P.owner
           e == SumOf([u \in U |-> value[u] * EmptySum(f, u)])
<1>1. Weighs(w, L, ten, x) /\ o = e + Sum(y, L) /\ P = [weight |-> w, owner |-> o]
  BY UnitPartiesAre
<1>2. Lines(f, L, ten, per, v)
  BY UnitLines
<1>3. \A u \in DOMAIN f.area : \A d \in DaysOf(f.window) : EmptyWeight(f, u, d) \in Nat
  BY DEF ByUnit
<1>4. \A p \in UnitDays(f) : EmptyWeight(f, p[1], p[2]) \in Nat
  <2>1. \A p \in UnitDays(f) : p[1] \in DOMAIN f.area /\ p[2] \in DaysOf(f.window)
    BY DEF UnitDays
  <2> QED
    BY <1>3, <2>1
<1>5. o = Sum(EmptyTable(f), UnitDays(f)) + Sum(y, L)
  BY <1>1, EmptyUnits
<1>6. U \subseteq DOMAIN f.area /\ \A u \in U : value[u] \in Nat
  BY DEF ByUnit
<1>7. \A c \in L : /\ v[c] \in Nat /\ v[c] = value[c.unit] /\ per[c] = c /\ ten[c] = c.tenancy
                   /\ DaysIn(c, f.window) = c.to - c.from
  BY <1>6, UnitRowsAre DEF UnitVal, UnitPer, UnitTen
<1>8. /\ WeighedByDays(f, [weight |-> w, owner |-> o]) /\ SumOf(w) = Sum(x, L)
      /\ \A c \in L : LineWeight(f, ten, per, v, c) \in Nat
                      /\ LineHeld(f, ten, per, v, c) \in Nat
                      /\ LineWeight(f, ten, per, v, c) + LineHeld(f, ten, per, v, c)
                         = v[c] * DaysIn(per[c], f.window)
  <2>1. \A c \in L : v[c] \in Nat
    BY <1>7
  <2> HIDE DEF L, ten, per, v, w, o, P
  <2> QED
    BY <1>1, <1>2, <1>4, <1>5, <2>1, WeighedByLines
<1>9. ForRenters(f, P)
  <2> SUFFICES ASSUME NEW l \in DOMAIN w
               PROVE  \E r \in f.tenancies : r.tenancy = Of(l) /\ DaysIn(r, f.window) > 0
    BY DEF ForRenters
  <2>1. PICK c \in L : l = <<ten[c], c>>
    BY <1>1 DEF Weighs
  <2>2. Of(l) = c.tenancy
    BY <1>7, <2>1 DEF Of
  <2>3. \E r \in f.tenancies : r.tenancy = c.tenancy /\ DaysIn(r, f.window) > 0
    BY <1>6, UnitRowsAre
  <2> QED
    BY <2>2, <2>3
<1>10. ASSUME U = DOMAIN f.area
       PROVE  SumOf(w) + o = Sum([p \in UnitDays(f) |-> value[p[1]]], UnitDays(f))
  <2> DEFINE z == Lengths(f, value)
  <2>1. \A c \in L : z[c] = x[c] + y[c] /\ x[c] \in Int /\ y[c] \in Int
    <3> SUFFICES ASSUME NEW c \in L
                 PROVE  z[c] = x[c] + y[c] /\ x[c] \in Int /\ y[c] \in Int
      OBVIOUS
    <3>1. z[c] = v[c] * DaysIn(per[c], f.window)
      BY <1>7, <1>10 DEF Lengths
    <3>2. x[c] = LineWeight(f, ten, per, v, c) /\ y[c] = LineHeld(f, ten, per, v, c)
      OBVIOUS
    <3> HIDE DEF x, y, z, L, ten, per, v
    <3> QED
      BY <1>8, <3>1, <3>2
  <2>2. IsFiniteSet(L)
    BY <1>2 DEF Lines
  <2>3. Sum(z, L) = Sum(x, L) + Sum(y, L) /\ Sum(x, L) \in Int /\ Sum(y, L) \in Int
    <3> HIDE DEF z, x, y, L
    <3> QED
      BY <2>1, <2>2, SumAdd, SumType
  <2>4. Sum(z, L) + e = Sum([p \in UnitDays(f) |-> value[p[1]]], UnitDays(f))
    BY <1>10, UnitsAreWhole
  <2>5. e \in Int
    <3>1. e = Sum(EmptyTable(f), UnitDays(f))
      BY EmptyUnits
    <3>2. IsFiniteSet(UnitDays(f))
      BY UnitsStored, WindowStored, FS_Product DEF UnitDays
    <3>3. \A p \in UnitDays(f) : EmptyTable(f)[p] \in Int
      BY <1>4 DEF EmptyTable
    <3> QED
      BY <3>1, <3>2, <3>3, SumType
  <2> HIDE DEF z, x, y, L, e, w, o
  <2> QED
    BY <1>1, <1>8, <2>3, <2>4, <2>5
<1> QED
  BY <1>1, <1>8, <1>9, <1>10

\* A tenancy has its unit on its days.
LEMMA OccupiedOn ==
    ASSUME NEW f, Stored(f), NEW r \in f.tenancies, NEW d
    PROVE  r.tenancy \in OccupiedBy(f, r.unit, d) <=> d \in DaysOf(r)
  BY TenancyStored DEF OccupiedBy

\* The keys by unit count days of units.
LEMMA AreaByUnit ==
    ASSUME NEW f, Stored(f), f.cost.key = "AREA",
           \A u \in DOMAIN f.area : ~DoublyClaimed(TimelineOf(f, u))
    PROVE  ByUnit(f, DOMAIN f.area, f.area)
<1>1. \A r \in f.tenancies : r.unit \in DOMAIN f.area
  BY TenancyStored
<1>2. \A r \in f.tenancies : \A d \in DaysOf(f.window) :
         DayWeight(f, r.tenancy, r.unit, d)
         = IF r.unit \in DOMAIN f.area /\ d \in DaysOf(r) THEN f.area[r.unit] ELSE 0
  BY <1>1, OccupiedOn DEF DayWeight
<1>3. \A u \in DOMAIN f.area : \A d \in DaysOf(f.window) :
         EmptyWeight(f, u, d) = IF u \in DOMAIN f.area /\ d \in EmptyDays(f, u)
                                THEN f.area[u] ELSE 0
  BY DEF EmptyWeight, EmptyDays
<1> QED
  BY <1>2, <1>3, UnitsStored DEF ByUnit

\* A cost by units counts one for each unit.
LEMMA UnitsByUnit ==
    ASSUME NEW f, Stored(f), f.cost.key = "UNITS",
           \A u \in DOMAIN f.area : ~DoublyClaimed(TimelineOf(f, u))
    PROVE  ByUnit(f, DOMAIN f.area, OneEach(f))
<1>1. \A r \in f.tenancies : r.unit \in DOMAIN f.area
  BY TenancyStored
<1>2. \A u \in DOMAIN f.area : OneEach(f)[u] = 1
  BY DEF OneEach
<1>3. \A r \in f.tenancies : \A d \in DaysOf(f.window) :
         DayWeight(f, r.tenancy, r.unit, d)
         = IF r.unit \in DOMAIN f.area /\ d \in DaysOf(r) THEN OneEach(f)[r.unit] ELSE 0
  BY <1>1, <1>2, OccupiedOn DEF DayWeight
<1>4. \A u \in DOMAIN f.area : \A d \in DaysOf(f.window) :
         EmptyWeight(f, u, d) = IF u \in DOMAIN f.area /\ d \in EmptyDays(f, u)
                                THEN OneEach(f)[u] ELSE 0
  BY <1>2 DEF EmptyWeight, EmptyDays
<1> QED
  BY <1>2, <1>3, <1>4 DEF ByUnit

\* A direct cost of a unit counts one for that unit alone.
LEMMA DirectByUnit ==
    ASSUME NEW f, Stored(f), f.cost.key = "DIRECT", f.cost.unit \in DOMAIN f.area,
           ~DoublyClaimed(TimelineOf(f, f.cost.unit))
    PROVE  ByUnit(f, {f.cost.unit}, OneEach(f))
<1>1. OneEach(f)[f.cost.unit] = 1
  BY DEF OneEach
<1>2. \A r \in f.tenancies : \A d \in DaysOf(f.window) :
         DayWeight(f, r.tenancy, r.unit, d)
         = IF r.unit \in {f.cost.unit} /\ d \in DaysOf(r) THEN OneEach(f)[r.unit] ELSE 0
  BY <1>1, OccupiedOn DEF DayWeight
<1>3. \A u \in DOMAIN f.area : \A d \in DaysOf(f.window) :
         EmptyWeight(f, u, d) = IF u \in {f.cost.unit} /\ d \in EmptyDays(f, u)
                                THEN OneEach(f)[u] ELSE 0
  BY <1>1 DEF EmptyWeight, EmptyDays
<1> QED
  BY <1>1, <1>2, <1>3 DEF ByUnit

-----------------------------------------------------------------------------
(* Costs by persons: the fictional occupancy.                              *)

\* Of finitely many rows one begins last.
LEMMA LatestRow ==
    ASSUME NEW S, IsFiniteSet(S), S # {}, \A a \in S : a.from \in Int
    PROVE  \E m \in S : \A a \in S : a.from <= m.from
<1> DEFINE F == {s \in SUBSET S : s = {} \/ \E m \in s : \A a \in s : a.from <= m.from}
<1>1. {} \in F
  OBVIOUS
<1>2. ASSUME NEW s \in SUBSET S, NEW x \in S \ s, s \in F
      PROVE  s \cup {x} \in F
  <2>1. CASE s = {}
    <3>1. \A a \in s \cup {x} : a.from <= x.from
      BY <2>1
    <3> QED
      BY <3>1
  <2>2. CASE s # {}
    <3>1. PICK m \in s : \A a \in s : a.from <= m.from
      BY <1>2, <2>2
    <3>2. m \in S /\ x \in S /\ m.from \in Int /\ x.from \in Int
      BY <3>1
    <3>3. CASE x.from <= m.from
      BY <3>1, <3>3
    <3>4. CASE ~(x.from <= m.from)
      <4>1. \A a \in s \cup {x} : a.from <= x.from
        BY <3>1, <3>2, <3>4
      <4> QED
        BY <4>1
    <3> QED
      BY <3>3, <3>4
  <2> QED
    BY <2>1, <2>2
<1> HIDE DEF F
<1>3. S \in F
  BY <1>1, <1>2, SetInduction
<1> USE DEF F
<1> QED
  BY <1>3

\* A row of persons has a tenancy, a count and days.
LEMMA PersonStored ==
    ASSUME NEW f, Stored(f)
    PROVE  /\ IsFiniteSet(f.persons)
           /\ \A c \in f.persons :
                 /\ c.from \in Int /\ c.to \in Int /\ c.count \in Nat
                 /\ c.tenancy \in Nat \ {NoOne}
           /\ \A b, c \in f.persons :
                 b.tenancy = c.tenancy /\ DaysOf(b) \cap DaysOf(c) # {} => b = c
<1>1. f.persons \subseteq [tenancy : Nat \ {NoOne}, count : Nat, from : Int, to : Int]
  BY DEF Stored
<1>2. \A c \in f.persons : /\ c.from \in Int /\ c.to \in Int /\ c.count \in Nat
                           /\ c.tenancy \in Nat \ {NoOne}
  BY <1>1
<1>3. /\ IsFiniteSet(f.persons)
      /\ \A b, c \in f.persons :
            b.tenancy = c.tenancy /\ DaysOf(b) \cap DaysOf(c) # {} => b = c
  BY DEF Stored
<1> QED
  BY <1>2, <1>3

\* What is known of a unit depends on the tenancies that began before.
KnownAmong(f, before) ==
    LET last == CHOOSE r \in before :
                    \A x \in before : x.from < r.from
                                      \/ (x.from = r.from /\ x.tenancy <= r.tenancy)
        counts == {c \in f.persons : c.tenancy = last.tenancy}
    IN  IF before = {} \/ counts = {} THEN 1
        ELSE (CHOOSE c \in counts : \A x \in counts : x.from <= c.from).count

Began(f, u, d) == {r \in TenanciesOf(f, u) : r.from <= d}

\* The number of persons last known is a natural number.
LEMMA LastKnownIs ==
    ASSUME NEW f, Stored(f), NEW u, NEW d
    PROVE  LastKnown(f, u, d) = KnownAmong(f, Began(f, u, d)) /\ LastKnown(f, u, d) \in Nat
<1>1. LastKnown(f, u, d) = KnownAmong(f, Began(f, u, d))
  BY DEF LastKnown, KnownAmong, Began
<1>2. ASSUME NEW t, {c \in f.persons : c.tenancy = t} # {}
      PROVE  (CHOOSE c \in {y \in f.persons : y.tenancy = t} :
                 \A x \in {y \in f.persons : y.tenancy = t} : x.from <= c.from).count \in Nat
  <2> DEFINE S == {c \in f.persons : c.tenancy = t}
  <2>1. IsFiniteSet(S) /\ S # {} /\ \A c \in S : c.from \in Int /\ c.count \in Nat
    BY <1>2, PersonStored, FS_Subset
  <2> HIDE DEF S
  <2>2. \E c \in S : \A x \in S : x.from <= c.from
    BY <2>1, LatestRow
  <2>3. (CHOOSE c \in S : \A x \in S : x.from <= c.from) \in S
    BY <2>2
  <2>4. (CHOOSE c \in S : \A x \in S : x.from <= c.from).count \in Nat
    BY <2>1, <2>3
  <2> QED
    BY <2>4 DEF S
<1>3. KnownAmong(f, Began(f, u, d)) \in Nat
  BY <1>2 DEF KnownAmong
<1> QED
  BY <1>1, <1>3

\* The days that a unit stands empty and the owner does not use all of it.
OwnUseOn(f, u, d) == \E s \in f.selfUse : s.unit = u /\ s.area >= f.area[u] /\ d \in DaysOf(s)

FreeDays(f, u) == {d \in EmptyDays(f, u) : ~OwnUseOn(f, u, d)}

FreeSpans(f, u) ==
    UNION {Remaining(v, WholeSelfUse(f, u)) : v \in Vacancies(TimelineOf(f, u), f.window)}

\* The days of whole self-use in the window.
LEMMA WholeSelfUseDays ==
    ASSUME NEW f, Stored(f), NEW u, NEW d \in DaysOf(f.window)
    PROVE  d \in UNION {DaysOf(c) : c \in WholeSelfUse(f, u)} <=> OwnUseOn(f, u, d)
<1>1. \A s \in f.selfUse : HasDays(s) /\ s.from \in Int /\ s.to \in Int
  <2>1. \A s \in f.selfUse : s \in [unit : DOMAIN f.area, area : Nat, from : Int, to : Int]
    BY DEF Stored
  <2> QED
    BY <2>1 DEF HasDays
<1>2. \A s \in f.selfUse : DaysOf(Clip(s, f.window)) = DaysOf(s) \cap DaysOf(f.window)
  BY <1>1, WindowStored, ClipKeepsDays
<1>3. \A s \in f.selfUse : d \in DaysOf(s) => DaysIn(s, f.window) > 0
  BY <1>1, WindowStored, DaysInMeets
<1>4. ASSUME OwnUseOn(f, u, d) PROVE d \in UNION {DaysOf(c) : c \in WholeSelfUse(f, u)}
  <2>1. PICK s \in f.selfUse : s.unit = u /\ s.area >= f.area[u] /\ d \in DaysOf(s)
    BY <1>4 DEF OwnUseOn
  <2>2. Clip(s, f.window) \in WholeSelfUse(f, u)
    BY <1>3, <2>1 DEF WholeSelfUse
  <2> QED
    BY <1>2, <2>1, <2>2
<1>5. ASSUME d \in UNION {DaysOf(c) : c \in WholeSelfUse(f, u)} PROVE OwnUseOn(f, u, d)
  <2>1. PICK c \in WholeSelfUse(f, u) : d \in DaysOf(c)
    BY <1>5
  <2>2. PICK s \in f.selfUse : s.unit = u /\ s.area >= f.area[u] /\ c = Clip(s, f.window)
    BY <2>1 DEF WholeSelfUse
  <2> QED
    BY <1>2, <2>1, <2>2 DEF OwnUseOn
<1> QED
  BY <1>4, <1>5

\* They are shared out by the spans for which the statement assumes occupants.
LEMMA FreeSpansShareOut ==
    ASSUME NEW f, Stored(f), NEW u, ~DoublyClaimed(TimelineOf(f, u))
    PROVE  SharesOut(FreeSpans(f, u), FreeDays(f, u))
<1> DEFINE V == Vacancies(TimelineOf(f, u), f.window)
           E == EmptyDays(f, u)
           C == WholeSelfUse(f, u)
           X == UNION {DaysOf(c) : c \in C}
           b == [v \in V |-> Remaining(v, C)]
           Z == {b[v] : v \in V}
           S == FreeSpans(f, u)
           D == FreeDays(f, u)
<1>1. SharesOut(V, E)
  BY VacanciesShareOut
<1>2. \A v \in V : SharesOut(Remaining(v, C), DaysOf(v) \ X)
  <2> SUFFICES ASSUME NEW v \in V PROVE SharesOut(Remaining(v, C), DaysOf(v) \ X)
    OBVIOUS
  <2>1. v.from \in Int /\ v.to \in Int
    BY <1>1 DEF SharesOut
  <2> HIDE DEF C
  <2> QED
    BY <2>1, RemainingSharesOut
<1>3. D = E \ X
  <2>1. \A d \in E : d \in X <=> OwnUseOn(f, u, d)
    BY WholeSelfUseDays DEF EmptyDays
  <2> HIDE DEF E, X
  <2> QED
    BY <2>1 DEF FreeDays, E
<1>4. S = UNION Z
  BY DEF FreeSpans
<1>5. \A s \in S : \E v \in V : s \in Remaining(v, C)
  BY DEF FreeSpans
<1>6. \A v \in V : Remaining(v, C) \subseteq S
  BY DEF FreeSpans
<1>7. IsFiniteSet(S)
  <2>1. IsFiniteSet(Z)
    <3>1. IsFiniteSet(V)
      BY <1>1 DEF SharesOut
    <3> HIDE DEF V, b
    <3> QED
      BY <3>1, FiniteImage
  <2>2. \A z \in Z : IsFiniteSet(z)
    <3>1. \A v \in V : IsFiniteSet(Remaining(v, C))
      BY <1>2 DEF SharesOut
    <3> QED
      BY <3>1
  <2> HIDE DEF Z
  <2> QED
    BY <1>4, <2>1, <2>2, FS_UNION
<1> HIDE DEF V, E, C, X, b, Z, S, D
<1>8. \A s \in S : /\ s.from \in Int /\ s.to \in Int /\ s.from < s.to /\ DaysOf(s) \subseteq D
  <2> SUFFICES ASSUME NEW s \in S
               PROVE  /\ s.from \in Int /\ s.to \in Int /\ s.from < s.to
                      /\ DaysOf(s) \subseteq D
    OBVIOUS
  <2>1. PICK v \in V : s \in Remaining(v, C)
    BY <1>5
  <2>2. /\ s.from \in Int /\ s.to \in Int /\ s.from < s.to /\ DaysOf(s) \subseteq DaysOf(v) \ X
    BY <1>2, <2>1 DEF SharesOut
  <2>3. DaysOf(v) \subseteq E
    BY <1>1 DEF SharesOut
  <2> QED
    BY <1>3, <2>2, <2>3
<1>9. \A d \in D : \E s \in S : d \in DaysOf(s)
  <2> SUFFICES ASSUME NEW d \in D PROVE \E s \in S : d \in DaysOf(s)
    OBVIOUS
  <2>1. PICK v \in V : d \in DaysOf(v) \ X
    BY <1>1, <1>3 DEF SharesOut
  <2>2. \E s \in Remaining(v, C) : d \in DaysOf(s)
    BY <1>2, <2>1 DEF SharesOut
  <2> QED
    BY <1>6, <2>2
<1>10. \A s, t \in S : DaysOf(s) \cap DaysOf(t) # {} => s = t
  <2> SUFFICES ASSUME NEW s \in S, NEW t \in S, NEW d, d \in DaysOf(s), d \in DaysOf(t)
               PROVE  s = t
    OBVIOUS
  <2>1. PICK v \in V : s \in Remaining(v, C)
    BY <1>5
  <2>2. PICK w \in V : t \in Remaining(w, C)
    BY <1>5
  <2>3. d \in DaysOf(v) /\ d \in DaysOf(w)
    BY <1>2, <2>1, <2>2 DEF SharesOut
  <2>4. v = w
    BY <1>1, <2>3 DEF SharesOut
  <2> QED
    BY <1>2, <2>1, <2>2, <2>4 DEF SharesOut
<1> QED
  BY <1>7, <1>8, <1>9, <1>10 DEF SharesOut, S, D

FictionCount(f, u, d) == IF f.mode = "immer_1" THEN 1 ELSE Later(1, LastKnown(f, u, d))

FictionRow(f, u, g) ==
    [tenancy |-> NoOne, unit |-> u, from |-> g.from, to |-> g.to,
     count |-> FictionCount(f, u, g.from)]

\* The rows of the fictional occupancy.
LEMMA FictionRowsAre ==
    ASSUME NEW f, f.mode # "keine", NEW c
    PROVE  c \in FictionalCounts(f)
           <=> \E u \in DOMAIN f.area : \E g \in FreeSpans(f, u) : c = FictionRow(f, u, g)
<1> DEFINE G == UNION {{u} \X FreeSpans(f, u) : u \in DOMAIN f.area}
<1>1. FictionalCounts(f) = {FictionRow(f, g[1], g[2]) : g \in G}
  BY DEF FictionalCounts, FictionRow, FictionCount, FreeSpans
<1>2. ASSUME NEW u \in DOMAIN f.area, NEW g \in FreeSpans(f, u)
      PROVE  <<u, g>> \in G
  <2>1. <<u, g>> \in {u} \X FreeSpans(f, u)
    OBVIOUS
  <2> QED
    BY <2>1
<1>3. ASSUME NEW x \in G
      PROVE  x[1] \in DOMAIN f.area /\ x[2] \in FreeSpans(f, x[1])
  <2>1. PICK u \in DOMAIN f.area : x \in {u} \X FreeSpans(f, u)
    OBVIOUS
  <2> QED
    BY <2>1
<1> HIDE DEF G
<1>4. ASSUME c \in FictionalCounts(f)
      PROVE  \E u \in DOMAIN f.area : \E g \in FreeSpans(f, u) : c = FictionRow(f, u, g)
  <2>1. PICK x \in G : c = FictionRow(f, x[1], x[2])
    BY <1>1, <1>4
  <2> QED
    BY <1>3, <2>1
<1>5. ASSUME NEW u \in DOMAIN f.area, NEW g \in FreeSpans(f, u), c = FictionRow(f, u, g)
      PROVE  c \in FictionalCounts(f)
  <2> DEFINE x == <<u, g>>
  <2>1. x \in G /\ x[1] = u /\ x[2] = g
    BY <1>2
  <2> HIDE DEF x
  <2>2. c = FictionRow(f, x[1], x[2])
    BY <1>5, <2>1
  <2> QED
    BY <1>1, <2>1, <2>2
<1> QED
  BY <1>4, <1>5

\* On the days of a span without occupants the same count is assumed.
LEMMA FictionIsConstant ==
    ASSUME NEW f, Stored(f), NEW u, ~DoublyClaimed(TimelineOf(f, u)),
           NEW g \in FreeSpans(f, u), NEW d \in DaysOf(g)
    PROVE  FictionCount(f, u, d) = FictionCount(f, u, g.from)
           /\ FictionCount(f, u, d) \in Nat
<1>1. /\ g.from \in Int /\ g.to \in Int /\ DaysOf(g) \subseteq FreeDays(f, u)
  BY FreeSpansShareOut DEF SharesOut
<1>2. \A e \in DaysOf(g) : OccupiedBy(f, u, e) = {}
  BY <1>1 DEF FreeDays, EmptyDays
<1>3. d \in Int /\ g.from <= d /\ d < g.to
  BY <1>1 DEF DaysOf
<1>4. ASSUME NEW r \in TenanciesOf(f, u), g.from < r.from, r.from <= d PROVE FALSE
  <2>1. r \in f.tenancies /\ r.unit = u
    BY DEF TenanciesOf
  <2>2. r.from \in Int /\ r.to \in Int /\ r.from < r.to
    BY <2>1, TenancyStored
  <2>3. r.from \in DaysOf(g) /\ r.from \in DaysOf(r)
    BY <1>1, <1>3, <1>4, <2>2 DEF DaysOf
  <2>4. r.tenancy \in OccupiedBy(f, u, r.from)
    BY <2>1, <2>3 DEF OccupiedBy
  <2> QED
    BY <1>2, <2>3, <2>4
<1>5. \A r \in TenanciesOf(f, u) : r.from \in Int
  BY TenancyStored DEF TenanciesOf
<1>6. Began(f, u, d) = Began(f, u, g.from)
  <2>1. \A r \in TenanciesOf(f, u) : r.from <= d <=> r.from <= g.from
    BY <1>1, <1>3, <1>4, <1>5
  <2> QED
    BY <2>1 DEF Began
<1>7. LastKnown(f, u, d) = LastKnown(f, u, g.from) /\ LastKnown(f, u, d) \in Nat
  BY <1>6, LastKnownIs
<1> QED
  BY <1>7 DEF FictionCount, Later

\* What the persons key counts on a unit's day that is not occupied.
LEMMA FictionOnIs ==
    ASSUME NEW f, Stored(f), f.mode # "keine", NEW u, NEW d \in DaysOf(f.window)
    PROVE  FictionOn(f, u, d) = IF d \in FreeDays(f, u) THEN FictionCount(f, u, d) ELSE 0
  BY DEF FictionOn, FreeDays, EmptyDays, OwnUseOn, FictionCount

UnitFiction(f, u) == {c \in FictionalCounts(f) : c.unit = u}

\* The rows of a unit share out its days without occupants.
LEMMA FictionSharesOut ==
    ASSUME NEW f, Stored(f), f.mode # "keine", NEW u \in DOMAIN f.area,
           ~DoublyClaimed(TimelineOf(f, u))
    PROVE  /\ SharesOut(UnitFiction(f, u), FreeDays(f, u))
           /\ \A c \in UnitFiction(f, u) :
                 /\ c.tenancy = NoOne /\ c.count \in Nat
                 /\ \A d \in DaysOf(c) : FictionOn(f, u, d) = c.count
<1> DEFINE S == FreeSpans(f, u)
           D == FreeDays(f, u)
           R == UnitFiction(f, u)
           b == [g \in S |-> FictionRow(f, u, g)]
<1>1. SharesOut(S, D)
  BY FreeSpansShareOut
<1>2. \A g \in S : /\ FictionRow(f, u, g).from = g.from /\ FictionRow(f, u, g).to = g.to
                   /\ FictionRow(f, u, g).unit = u /\ FictionRow(f, u, g).tenancy = NoOne
                   /\ FictionRow(f, u, g).count = FictionCount(f, u, g.from)
                   /\ DaysOf(FictionRow(f, u, g)) = DaysOf(g)
  BY DEF FictionRow, DaysOf
<1>3. \A c \in R : \E g \in S : c = FictionRow(f, u, g)
  <2> SUFFICES ASSUME NEW c \in R PROVE \E g \in S : c = FictionRow(f, u, g)
    OBVIOUS
  <2>1. PICK y \in DOMAIN f.area : \E g \in FreeSpans(f, y) : c = FictionRow(f, y, g)
    BY FictionRowsAre DEF UnitFiction
  <2>2. y = u
    BY <2>1 DEF UnitFiction, FictionRow
  <2> QED
    BY <2>1, <2>2
<1>4. \A g \in S : FictionRow(f, u, g) \in R
  BY <1>2, FictionRowsAre DEF UnitFiction
<1>5. IsFiniteSet(R)
  <2>1. R = {b[g] : g \in S}
    <3>1. \A g \in S : b[g] = FictionRow(f, u, g)
      OBVIOUS
    <3> HIDE DEF R, S, b
    <3> QED
      BY <1>3, <1>4, <3>1
  <2>2. IsFiniteSet(S)
    BY <1>1 DEF SharesOut
  <2> HIDE DEF R, S, b
  <2> QED
    BY <2>1, <2>2, FiniteImage
<1>6. ASSUME NEW c \in R
      PROVE  /\ c.tenancy = NoOne /\ c.count \in Nat
             /\ c.from \in Int /\ c.to \in Int /\ c.from < c.to /\ DaysOf(c) \subseteq D
             /\ \A d \in DaysOf(c) : FictionOn(f, u, d) = c.count
             /\ \E g \in S : c = FictionRow(f, u, g) /\ DaysOf(c) = DaysOf(g)
  <2>1. PICK g \in S : c = FictionRow(f, u, g)
    BY <1>3
  <2>2. /\ c.from = g.from /\ c.to = g.to /\ c.tenancy = NoOne
        /\ c.count = FictionCount(f, u, g.from) /\ DaysOf(c) = DaysOf(g)
    BY <1>2, <2>1
  <2>3. g.from \in Int /\ g.to \in Int /\ g.from < g.to /\ DaysOf(g) \subseteq D
    BY <1>1 DEF SharesOut
  <2>4. g.from \in DaysOf(g)
    BY <2>3 DEF DaysOf
  <2>5. \A d \in DaysOf(g) : FictionCount(f, u, d) = FictionCount(f, u, g.from)
                             /\ FictionCount(f, u, d) \in Nat
    BY FictionIsConstant
  <2>6. \A d \in DaysOf(g) : d \in DaysOf(f.window) /\ d \in FreeDays(f, u)
    BY <2>3 DEF FreeDays, EmptyDays
  <2>7. \A d \in DaysOf(g) : FictionOn(f, u, d) = FictionCount(f, u, d)
    BY <2>6, FictionOnIs
  <2> HIDE DEF S, D, R
  <2> QED
    BY <2>1, <2>2, <2>3, <2>4, <2>5, <2>7
<1> HIDE DEF S, D, R, b
<1>7. \A d \in D : \E c \in R : d \in DaysOf(c)
  <2> SUFFICES ASSUME NEW d \in D PROVE \E c \in R : d \in DaysOf(c)
    OBVIOUS
  <2>1. PICK g \in S : d \in DaysOf(g)
    BY <1>1 DEF SharesOut
  <2> QED
    BY <1>2, <1>4, <2>1
<1>8. \A c, e \in R : DaysOf(c) \cap DaysOf(e) # {} => c = e
  <2> SUFFICES ASSUME NEW c \in R, NEW e \in R, DaysOf(c) \cap DaysOf(e) # {} PROVE c = e
    OBVIOUS
  <2>1. PICK g \in S : c = FictionRow(f, u, g) /\ DaysOf(c) = DaysOf(g)
    BY <1>6
  <2>2. PICK h \in S : e = FictionRow(f, u, h) /\ DaysOf(e) = DaysOf(h)
    BY <1>6
  <2>3. g = h
    BY <1>1, <2>1, <2>2 DEF SharesOut
  <2> QED
    BY <2>1, <2>2, <2>3
<1>9. SharesOut(R, D)
  BY <1>5, <1>6, <1>7, <1>8 DEF SharesOut
<1> QED
  BY <1>6, <1>9 DEF R, D

FictionWeight(f) == [c \in FictionalCounts(f) |-> c.count * DaysIn(c, f.window)]

\* The rows of the fictional occupancy of a unit weigh what its days weigh.
LEMMA FictionOfUnit ==
    ASSUME NEW f, Stored(f), f.mode # "keine", NEW u \in DOMAIN f.area,
           ~DoublyClaimed(TimelineOf(f, u)),
           NEW h, \A d \in DaysOf(f.window) : h[d] = FictionOn(f, u, d)
    PROVE  /\ \A d \in DaysOf(f.window) : h[d] \in Nat
           /\ \A c \in UnitFiction(f, u) : FictionWeight(f)[c] \in Int /\ DaysIn(c, f.window) > 0
           /\ Sum(h, DaysOf(f.window)) = Sum(FictionWeight(f), UnitFiction(f, u))
<1> DEFINE W == DaysOf(f.window)
           D == FreeDays(f, u)
           R == UnitFiction(f, u)
           m == FictionWeight(f)
<1>1. SharesOut(R, D)
  BY FictionSharesOut
<1>2. \A c \in R : /\ c.count \in Nat /\ c \in FictionalCounts(f)
                   /\ \A d \in DaysOf(c) : FictionOn(f, u, d) = c.count
  BY FictionSharesOut DEF UnitFiction
<1>3. D \subseteq W
  BY DEF FreeDays, EmptyDays
<1>4. \A d \in W : h[d] = IF d \in D THEN FictionCount(f, u, d) ELSE 0
  BY FictionOnIs
<1>5. \A d \in D : h[d] \in Nat
  <2> SUFFICES ASSUME NEW d \in D PROVE h[d] \in Nat
    OBVIOUS
  <2>1. PICK c \in R : d \in DaysOf(c)
    BY <1>1 DEF SharesOut
  <2> HIDE DEF R, D, W
  <2> QED
    BY <1>2, <1>3, <2>1 DEF W
<1>6. \A d \in W : h[d] \in Nat
  <2> HIDE DEF W, D
  <2> QED
    BY <1>4, <1>5
<1>7. IsFiniteSet(W) /\ IsFiniteSet(D) /\ f.window.from \in Int /\ f.window.to \in Int
  BY <1>3, WindowStored, FS_Subset
<1>8. ASSUME NEW c \in R
      PROVE  /\ m[c] = Sum(h, DaysOf(c)) /\ m[c] \in Int /\ DaysIn(c, f.window) > 0
  <2>1. c.from \in Int /\ c.to \in Int /\ c.from < c.to /\ DaysOf(c) \subseteq D
    BY <1>1 DEF SharesOut
  <2>2. c.from \in DaysOf(c) /\ c.to - 1 \in DaysOf(c)
    BY <2>1 DEF DaysOf
  <2>3. c.from \in W /\ c.to - 1 \in W /\ DaysOf(c) \subseteq W
    BY <1>3, <2>1, <2>2
  <2>4. DaysIn(c, f.window) = c.to - c.from
    BY <1>7, <2>1, <2>3 DEF DaysOf, DaysIn, Later, Earlier
  <2>5. m[c] = c.count * (c.to - c.from)
    BY <1>2, <2>4 DEF FictionWeight
  <2>6. \A d \in DaysOf(c) : h[d] = c.count
    BY <1>2, <2>3
  <2>7. IsFiniteSet(DaysOf(c)) /\ ValueOn(h, DaysOf(c), c.from .. c.to - 1, c.count)
    BY <1>7, <2>1, <2>6, FS_Subset DEF ValueOn, DaysOf
  <2>8. c.count \in Int /\ c.from <= c.to /\ c.from .. c.to - 1 \subseteq DaysOf(c)
    BY <1>2, <2>1 DEF DaysOf
  <2>9. Sum(h, DaysOf(c)) = c.count * (c.to - c.from)
    <3> HIDE DEF m, R, D, W
    <3> QED
      BY <2>1, <2>7, <2>8, SumOfDays
  <2>10. c.count * (c.to - c.from) \in Int
    BY <2>1, <2>8
  <2> QED
    BY <2>1, <2>4, <2>5, <2>9, <2>10
<1> HIDE DEF W, D, R, m
<1>9. Sum(h, W) = Sum(h, D)
  BY <1>3, <1>4, <1>5, <1>7, SumOnly
<1>10. Sum(h, D) = Sum(m, R)
  <2>1. \A d \in D : h[d] \in Int
    BY <1>5
  <2>2. \A c \in R : m[c] = Sum(h, DaysOf(c))
    BY <1>8
  <2> QED
    BY <1>1, <1>7, <2>1, <2>2, SumOfShares
<1> QED
  BY <1>6, <1>8, <1>9, <1>10 DEF W, R, m

\* No occupancy is assumed if the building's mode is to assume none.
LEMMA NoFiction ==
    ASSUME NEW f, Stored(f), f.mode = "keine", f.cost.key = "PERSONS"
    PROVE  /\ FictionalCounts(f) = {}
           /\ \A p \in UnitDays(f) : EmptyTable(f)[p] = 0 /\ EmptyWeight(f, p[1], p[2]) = 0
           /\ Sum(EmptyTable(f), UnitDays(f)) = 0
           /\ Sum(FictionWeight(f), {}) = 0
<1>1. \A p \in UnitDays(f) : EmptyTable(f)[p] = 0 /\ EmptyWeight(f, p[1], p[2]) = 0
  BY DEF EmptyTable, EmptyWeight, FictionOn
<1>2. IsFiniteSet(UnitDays(f))
  BY UnitsStored, WindowStored, FS_Product DEF UnitDays
<1>3. Sum(EmptyTable(f), UnitDays(f)) = 0
  BY <1>1, <1>2, SumZero
<1>4. Sum(FictionWeight(f), {}) = 0
  BY SumZero, FS_EmptySet
<1> QED
  BY <1>1, <1>3, <1>4 DEF FictionalCounts

\* The rows of the fictional occupancy weigh what the empty days weigh.
LEMMA FictionIsWhole ==
    ASSUME NEW f, Stored(f), f.cost.key = "PERSONS",
           f.mode # "keine" => \A u \in DOMAIN f.area : ~DoublyClaimed(TimelineOf(f, u))
    PROVE  /\ IsFiniteSet(FictionalCounts(f))
           /\ \A c \in FictionalCounts(f) :
                 /\ c.tenancy = NoOne /\ DaysIn(c, f.window) > 0
                 /\ FictionWeight(f)[c] \in Int
           /\ \A p \in UnitDays(f) : EmptyWeight(f, p[1], p[2]) \in Nat
           /\ Sum(FictionWeight(f), FictionalCounts(f)) = Sum(EmptyTable(f), UnitDays(f))
<1>1. CASE f.mode = "keine"
  <2>1. /\ FictionalCounts(f) = {}
        /\ \A p \in UnitDays(f) : EmptyWeight(f, p[1], p[2]) = 0
        /\ Sum(EmptyTable(f), UnitDays(f)) = 0
        /\ Sum(FictionWeight(f), {}) = 0
    BY <1>1, NoFiction
  <2> QED
    BY <2>1, FS_EmptySet
<1>2. CASE f.mode # "keine"
  <2> DEFINE W == DaysOf(f.window)
             K == DOMAIN f.area
             F == FictionalCounts(f)
             m == FictionWeight(f)
             part == [u \in K |-> UnitFiction(f, u)]
             key == [c \in F |-> c.unit]
             h(u) == [d \in W |-> EmptyTable(f)[<<u, d>>]]
             rows == Rows(EmptyTable(f), K, W)
  <2>1. IsFiniteSet(K) /\ IsFiniteSet(W)
    BY UnitsStored, WindowStored
  <2>2. \A u \in K : \A d \in W : EmptyTable(f)[<<u, d>>] = FictionOn(f, u, d)
                                  /\ EmptyWeight(f, u, d) = FictionOn(f, u, d)
    BY DEF EmptyTable, EmptyWeight, UnitDays
  <2>3. ASSUME NEW u \in K
        PROVE  /\ \A d \in W : h(u)[d] = FictionOn(f, u, d) /\ h(u)[d] \in Nat
               /\ \A c \in UnitFiction(f, u) : m[c] \in Int /\ DaysIn(c, f.window) > 0
               /\ rows[u] = Sum(m, UnitFiction(f, u))
               /\ IsFiniteSet(UnitFiction(f, u))
               /\ \A c \in UnitFiction(f, u) : c.tenancy = NoOne
    <3>1. \A d \in W : h(u)[d] = FictionOn(f, u, d)
      BY <2>2
    <3>2. rows[u] = Sum(h(u), W)
      BY DEF Rows, RowSum
    <3>3. IsFiniteSet(UnitFiction(f, u)) /\ \A c \in UnitFiction(f, u) : c.tenancy = NoOne
      BY <1>2, FictionSharesOut DEF SharesOut
    <3>4. /\ \A d \in W : h(u)[d] \in Nat
          /\ \A c \in UnitFiction(f, u) : m[c] \in Int /\ DaysIn(c, f.window) > 0
          /\ Sum(h(u), W) = Sum(m, UnitFiction(f, u))
      <4> DEFINE g == h(u)
      <4>1. \A d \in W : g[d] = FictionOn(f, u, d)
        BY <3>1
      <4> HIDE DEF g
      <4>2. /\ \A d \in W : g[d] \in Nat
            /\ \A c \in UnitFiction(f, u) : m[c] \in Int /\ DaysIn(c, f.window) > 0
            /\ Sum(g, W) = Sum(m, UnitFiction(f, u))
        BY <1>2, <4>1, FictionOfUnit
      <4> QED
        BY <4>2 DEF g
    <3> QED
      BY <3>1, <3>2, <3>3, <3>4
  <2>4. \A c \in F : c.unit \in K /\ c \in UnitFiction(f, c.unit)
    <3> SUFFICES ASSUME NEW c \in F PROVE c.unit \in K /\ c \in UnitFiction(f, c.unit)
      OBVIOUS
    <3>1. PICK u \in K : \E g \in FreeSpans(f, u) : c = FictionRow(f, u, g)
      BY <1>2, FictionRowsAre
    <3>2. c.unit = u
      BY <3>1 DEF FictionRow
    <3> QED
      BY <3>2 DEF UnitFiction
  <2>5. IsFiniteSet(F)
    <3> DEFINE T == {part[u] : u \in K}
    <3>1. IsFiniteSet(T)
      <4> HIDE DEF part, K
      <4> QED
        BY <2>1, FiniteImage
    <3>2. \A X \in T : IsFiniteSet(X)
      BY <2>3
    <3>3. F = UNION T
      <4>1. UNION T \subseteq F
        BY DEF UnitFiction
      <4>2. F \subseteq UNION T
        <5> SUFFICES ASSUME NEW c \in F PROVE \E X \in T : c \in X
          OBVIOUS
        <5>1. part[c.unit] \in T /\ c \in part[c.unit]
          BY <2>4
        <5> QED
          BY <5>1
      <4> QED
        BY <4>1, <4>2
    <3> HIDE DEF T, F
    <3> QED
      BY <3>1, <3>2, <3>3, FS_UNION
  <2>6. Sum(m, F) = Sum(rows, K)
    <3>1. \A c \in F : key[c] \in K /\ m[c] \in Int
      BY <2>3, <2>4
    <3>2. \A u \in K : /\ \A c : c \in part[u] <=> c \in F /\ key[c] = u
                       /\ rows[u] = Sum(m, part[u])
      BY <2>3 DEF UnitFiction
    <3>3. IsFiniteSet(K)
      BY <2>1
    <3> HIDE DEF F, key, m, part, rows, K, W, h
    <3>4. Keyed(F, K, key, part, m, rows)
      BY <3>1, <3>2 DEF Keyed
    <3> QED
      BY <2>5, <3>3, <3>4, SumByKey
  <2>7. Sum(EmptyTable(f), K \X W) = Sum(rows, K)
    <3>1. Table(EmptyTable(f), K, W)
      <4> SUFFICES ASSUME NEW p \in K \X W PROVE EmptyTable(f)[p] \in Int
        BY DEF Table
      <4>1. p[1] \in K /\ p[2] \in W /\ p = <<p[1], p[2]>>
        OBVIOUS
      <4>2. h(p[1])[p[2]] \in Nat
        BY <2>3, <4>1
      <4> QED
        BY <4>1, <4>2
    <3> HIDE DEF K, W
    <3> QED
      BY <2>1, <3>1, SumOfRows
  <2>8. \A p \in UnitDays(f) : EmptyWeight(f, p[1], p[2]) \in Nat
    <3>1. \A p \in UnitDays(f) : p[1] \in K /\ p[2] \in W
      BY DEF UnitDays
    <3>2. \A u \in K : \A d \in W : EmptyWeight(f, u, d) \in Nat
      <4> SUFFICES ASSUME NEW u \in K, NEW d \in W PROVE EmptyWeight(f, u, d) \in Nat
        OBVIOUS
      <4>1. h(u)[d] = FictionOn(f, u, d) /\ h(u)[d] \in Nat
        BY <2>3
      <4> QED
        BY <2>2, <4>1
    <3> HIDE DEF K, W
    <3> QED
      BY <3>1, <3>2
  <2>9. \A c \in F : c.tenancy = NoOne /\ DaysIn(c, f.window) > 0 /\ m[c] \in Int
    BY <2>3, <2>4
  <2> QED
    BY <2>5, <2>6, <2>7, <2>8, <2>9 DEF UnitDays
<1> QED
  BY <1>1, <1>2

-----------------------------------------------------------------------------
(* The persons key: the renters' counts.                                   *)

\* A count inside its tenancy.
Entered(b, r) ==
    [tenancy |-> b.tenancy, unit |-> r.unit, from |-> Later(b.from, r.from),
     to |-> Earlier(b.to, r.to), count |-> b.count]

\* A count is entered where it has a day of its tenancy.
LEMMA EnteredRowsAre ==
    ASSUME NEW f, NEW c
    PROVE  c \in EnteredCounts(f)
           <=> \E b \in f.persons, r \in f.tenancies :
                  b.tenancy = r.tenancy /\ DaysIn(b, r) > 0 /\ c = Entered(b, r)
<1> DEFINE X == {x \in f.persons \X f.tenancies :
                    x[1].tenancy = x[2].tenancy /\ DaysIn(x[1], x[2]) > 0}
<1>1. EnteredCounts(f) = {Entered(x[1], x[2]) : x \in X}
  BY DEF EnteredCounts, Entered
<1>2. ASSUME NEW b \in f.persons, NEW r \in f.tenancies, b.tenancy = r.tenancy,
             DaysIn(b, r) > 0, c = Entered(b, r)
      PROVE  c \in EnteredCounts(f)
  <2> DEFINE x == <<b, r>>
  <2>1. x \in X /\ x[1] = b /\ x[2] = r
    BY <1>2
  <2> HIDE DEF x, X
  <2>2. c = Entered(x[1], x[2])
    BY <1>2, <2>1
  <2> QED
    BY <1>1, <2>1, <2>2
<1>3. \A x \in X : /\ x[1] \in f.persons /\ x[2] \in f.tenancies
                   /\ x[1].tenancy = x[2].tenancy /\ DaysIn(x[1], x[2]) > 0
  OBVIOUS
<1> HIDE DEF X
<1> QED
  BY <1>1, <1>2, <1>3

\* The counts that a renter has in the window.
RenterRows(f) == {c \in EnteredCounts(f) : DaysIn(c, f.window) > 0}

\* A count is one tenancy's, on days that it shares with it.
LEMMA EnteredRow ==
    ASSUME NEW f, Stored(f), NEW b \in f.persons, NEW r \in f.tenancies
    PROVE  LET c == Entered(b, r) IN
           /\ HasDays(c) /\ c.from \in Int /\ c.to \in Int
           /\ c.count = b.count /\ c.count \in Nat /\ c.tenancy = b.tenancy
           /\ DaysOf(c) = DaysOf(b) \cap DaysOf(r)
           /\ HasDays(Clip(c, f.window))
           /\ DaysOf(Clip(c, f.window)) = DaysOf(c) \cap DaysOf(f.window)
           /\ DaysIn(Clip(c, f.window), f.window) = DaysIn(c, f.window)
<1> DEFINE c == Entered(b, r)
<1>1. b.from \in Int /\ b.to \in Int /\ b.count \in Nat /\ r.from \in Int /\ r.to \in Int
  BY PersonStored, TenancyStored
<1>2. /\ DOMAIN c = {"tenancy", "unit", "from", "to", "count"} /\ c.count = b.count
      /\ c.tenancy = b.tenancy
      /\ c.from = Later(b.from, r.from) /\ c.to = Earlier(b.to, r.to)
  BY DEF Entered
<1> HIDE DEF c
<1>3. c.from \in Int /\ c.to \in Int /\ DaysOf(c) = DaysOf(b) \cap DaysOf(r)
  BY <1>1, <1>2 DEF DaysOf, Later, Earlier
<1>4. HasDays(c)
  BY <1>2, <1>3 DEF HasDays
<1>5. f.window.from \in Int /\ f.window.to \in Int
  BY WindowStored
<1>6. /\ HasDays(Clip(c, f.window))
      /\ DaysOf(Clip(c, f.window)) = DaysOf(c) \cap DaysOf(f.window)
      /\ Clip(c, f.window).from = Later(c.from, f.window.from)
      /\ Clip(c, f.window).to = Earlier(c.to, f.window.to)
  BY <1>4, <1>5, ClipKeepsDays
<1>7. DaysIn(Clip(c, f.window), f.window) = DaysIn(c, f.window)
  BY <1>3, <1>5, <1>6 DEF DaysIn, Later, Earlier
<1> QED
  BY <1>1, <1>2, <1>3, <1>4, <1>6, <1>7 DEF c

\* A renter's count comes from a row of persons and a tenancy.
LEMMA RenterRow ==
    ASSUME NEW f, Stored(f), NEW c \in RenterRows(f)
    PROVE  /\ c.count \in Nat /\ c.tenancy \in Nat \ {NoOne}
           /\ Clip(c, f.window).from \in Int /\ Clip(c, f.window).to \in Int
           /\ DaysIn(Clip(c, f.window), f.window) = DaysIn(c, f.window)
           /\ \E b \in f.persons, r \in f.tenancies :
                 /\ b.tenancy = r.tenancy /\ c = Entered(b, r) /\ r.tenancy = c.tenancy
                 /\ DaysOf(Clip(c, f.window)) \subseteq DaysOf(r) \cap DaysOf(f.window)
                 /\ DaysOf(Clip(c, f.window)) \subseteq DaysOf(b)
                 /\ DaysIn(r, f.window) > 0
<1>1. c \in EnteredCounts(f) /\ DaysIn(c, f.window) > 0
  BY DEF RenterRows
<1>2. PICK b \in f.persons, r \in f.tenancies : b.tenancy = r.tenancy /\ c = Entered(b, r)
  BY <1>1, EnteredRowsAre
<1>3. /\ c.from \in Int /\ c.to \in Int /\ c.count \in Nat /\ c.tenancy = b.tenancy
      /\ DaysOf(c) = DaysOf(b) \cap DaysOf(r) /\ HasDays(Clip(c, f.window))
      /\ DaysOf(Clip(c, f.window)) = DaysOf(c) \cap DaysOf(f.window)
      /\ DaysIn(Clip(c, f.window), f.window) = DaysIn(c, f.window)
  BY <1>2, EnteredRow
<1>4. f.window.from \in Int /\ f.window.to \in Int
  BY WindowStored
<1>5. r.from \in Int /\ r.to \in Int /\ r.tenancy \in Nat \ {NoOne}
  BY TenancyStored
<1>6. DaysOf(c) \cap DaysOf(f.window) # {}
  BY <1>1, <1>3, <1>4, DaysInMeets
<1>7. DaysOf(r) \cap DaysOf(f.window) # {}
  BY <1>3, <1>6
<1>8. DaysIn(r, f.window) > 0
  BY <1>4, <1>5, <1>7, DaysInMeets
<1> QED
  BY <1>2, <1>3, <1>5, <1>8 DEF HasDays

\* On a day of the window, a tenancy's row of persons is in one line or in none.
LEMMA RenterRowOn ==
    ASSUME NEW f, Stored(f), NEW b \in f.persons, NEW r \in f.tenancies,
           b.tenancy = r.tenancy, NEW d \in DaysOf(f.window), d \in DaysOf(b), d \in DaysOf(r)
    PROVE  LET c == Entered(b, r) IN
           /\ c \in RenterRows(f) /\ d \in DaysOf(Clip(c, f.window))
<1> DEFINE c == Entered(b, r)
<1>1. /\ c.from \in Int /\ c.to \in Int
      /\ DaysOf(c) = DaysOf(b) \cap DaysOf(r)
      /\ DaysOf(Clip(c, f.window)) = DaysOf(c) \cap DaysOf(f.window)
  BY EnteredRow
<1>2. f.window.from \in Int /\ f.window.to \in Int
  BY WindowStored
<1>3. b.from \in Int /\ b.to \in Int /\ r.from \in Int /\ r.to \in Int
  BY PersonStored, TenancyStored
<1>4. DaysOf(b) \cap DaysOf(r) # {}
  OBVIOUS
<1>5. DaysIn(b, r) > 0
  BY <1>3, <1>4, DaysInMeets
<1>6. c \in EnteredCounts(f)
  BY <1>5, EnteredRowsAre
<1> HIDE DEF c
<1>7. DaysOf(c) \cap DaysOf(f.window) # {}
  BY <1>1
<1>8. DaysIn(c, f.window) > 0
  BY <1>1, <1>2, <1>7, DaysInMeets
<1> QED
  BY <1>1, <1>6, <1>8 DEF RenterRows, c

RenterTen(L) == [c \in L |-> c.tenancy]
RenterPer(f, L) == [c \in L |-> Clip(c, f.window)]
RenterVal(L) == [c \in L |-> c.count]

\* The counts of the renters are finitely many.
LEMMA RenterRowsFinite ==
    ASSUME NEW f, Stored(f)
    PROVE  IsFiniteSet(RenterRows(f))
<1> DEFINE X == f.persons \X f.tenancies
           b == [x \in X |-> Entered(x[1], x[2])]
           T == {b[x] : x \in X}
<1>1. IsFiniteSet(X)
  BY PersonStored, UnitsStored, FS_Product
<1>2. IsFiniteSet(T)
  <2> HIDE DEF X, b
  <2> QED
    BY <1>1, FiniteImage
<1>3. RenterRows(f) \subseteq T
  <2> SUFFICES ASSUME NEW c \in RenterRows(f) PROVE \E x \in X : c = b[x]
    OBVIOUS
  <2>1. PICK p \in f.persons, r \in f.tenancies : c = Entered(p, r)
    BY RenterRow
  <2>2. <<p, r>> \in X /\ b[<<p, r>>] = Entered(p, r)
    OBVIOUS
  <2> HIDE DEF b, X
  <2> QED
    BY <2>1, <2>2
<1> HIDE DEF T
<1> QED
  BY <1>2, <1>3, FS_Subset

\* They add up to what the persons key counts for each tenancy.
LEMMA RenterLines ==
    ASSUME NEW f, Stored(f), f.cost.key = "PERSONS"
    PROVE  LET L == RenterRows(f) IN Lines(f, L, RenterTen(L), RenterPer(f, L), RenterVal(L))
<1> DEFINE L == RenterRows(f)
           ten == RenterTen(L)
           per == RenterPer(f, L)
           v == RenterVal(L)
<1>1. IsFiniteSet(L)
  BY RenterRowsFinite
<1>2. \A c \in L : ten[c] = c.tenancy /\ per[c] = Clip(c, f.window) /\ v[c] = c.count
  BY DEF RenterTen, RenterPer, RenterVal
<1>3. ASSUME NEW c \in L
      PROVE  /\ per[c].from \in Int /\ per[c].to \in Int /\ v[c] \in Int
             /\ \E r \in f.tenancies :
                   /\ r.tenancy = ten[c]
                   /\ DaysOf(per[c]) \subseteq DaysOf(r) \cap DaysOf(f.window)
  <2>1. /\ Clip(c, f.window).from \in Int /\ Clip(c, f.window).to \in Int /\ c.count \in Int
        /\ \E r \in f.tenancies :
              /\ r.tenancy = c.tenancy
              /\ DaysOf(Clip(c, f.window)) \subseteq DaysOf(r) \cap DaysOf(f.window)
    BY RenterRow
  <2> HIDE DEF ten, per, v, L
  <2> QED
    BY <1>2, <2>1
<1>4. ASSUME NEW r \in f.tenancies, NEW d \in DaysOf(f.window)
      PROVE  DayWeight(f, r.tenancy, r.unit, d)
             = Sum(v, {c \in L : ten[c] = r.tenancy /\ d \in DaysOf(per[c])})
  <2> DEFINE S == {c \in L : ten[c] = r.tenancy /\ d \in DaysOf(per[c])}
             B == {x \in f.persons : x.tenancy = r.tenancy /\ d \in DaysOf(x)}
             k == [c \in B |-> c.count]
  <2>1. DayWeight(f, r.tenancy, r.unit, d) = IF d \in DaysOf(r) THEN Sum(k, B) ELSE 0
    <3>1. SumOf(k) = Sum(k, B)
      <4>1. DOMAIN k = B
        OBVIOUS
      <4> HIDE DEF k, B
      <4> QED
        BY <4>1, SumOfIs
    <3>2. CountedOn(f, r.tenancy, d) = SumOf(k)
      BY DEF CountedOn
    <3> HIDE DEF k, B
    <3> QED
      BY <3>1, <3>2, OccupiedOn DEF DayWeight
  <2>2. \A c \in S : c \in L /\ c.tenancy = r.tenancy /\ d \in DaysOf(Clip(c, f.window))
    BY <1>2
  <2>3. ASSUME NEW c \in S
        PROVE  d \in DaysOf(r) /\ \E b \in B : c = Entered(b, r)
    <3>1. c \in RenterRows(f) /\ c.tenancy = r.tenancy /\ d \in DaysOf(Clip(c, f.window))
      BY <2>2
    <3>2. PICK b \in f.persons, s \in f.tenancies :
             /\ b.tenancy = s.tenancy /\ c = Entered(b, s) /\ s.tenancy = c.tenancy
             /\ DaysOf(Clip(c, f.window)) \subseteq DaysOf(s) \cap DaysOf(f.window)
             /\ DaysOf(Clip(c, f.window)) \subseteq DaysOf(b)
      BY <3>1, RenterRow
    <3>3. s = r
      BY <3>1, <3>2, TenancyStored
    <3> QED
      BY <3>1, <3>2, <3>3
  <2>4. CASE d \in DaysOf(r) /\ B # {}
    <3>1. PICK b : b \in B
      BY <2>4
    <3>2. B = {b}
      <4>1. \A x \in B : x = b
        <5>1. \A x \in B : x \in f.persons /\ x.tenancy = b.tenancy
                           /\ DaysOf(x) \cap DaysOf(b) # {}
          BY <3>1
        <5>2. b \in f.persons
          BY <3>1
        <5> QED
          BY <5>1, <5>2, PersonStored
      <4> QED
        BY <3>1, <4>1
    <3> DEFINE c == Entered(b, r)
    <3>3. b \in f.persons /\ b.tenancy = r.tenancy /\ d \in DaysOf(b)
      BY <3>1
    <3>4. c \in L /\ d \in DaysOf(Clip(c, f.window))
      BY <2>4, <3>3, RenterRowOn
    <3>5. c.tenancy = r.tenancy /\ c.count = b.count /\ c.count \in Nat
      BY <3>3, EnteredRow
    <3>6. c \in S
      <4> HIDE DEF c, L, ten, per
      <4> QED
        BY <1>2, <3>4, <3>5
    <3>7. S = {c}
      <4> HIDE DEF S, B
      <4> QED
        BY <2>3, <3>2, <3>6
    <3>8. v[c] = c.count
      <4> HIDE DEF c, L, v
      <4> QED
        BY <1>2, <3>4
    <3>9. k[b] = b.count
      BY <3>1
    <3>10. v[c] = k[b] /\ v[c] \in Int /\ k[b] \in Int
      <4> HIDE DEF c, v, k, L
      <4> QED
        BY <3>5, <3>8, <3>9
    <3> HIDE DEF c, S, v, k, B
    <3>11. Sum(v, {c}) = v[c] /\ Sum(k, {b}) = k[b]
      BY <3>10, SumOne
    <3> QED
      BY <2>1, <2>4, <3>2, <3>7, <3>10, <3>11 DEF S
  <2>5. CASE ~(d \in DaysOf(r) /\ B # {})
    <3>1. S = {}
      <4> HIDE DEF S, B
      <4> QED
        BY <2>3, <2>5
    <3> HIDE DEF S, v, k, B
    <3> QED
      BY <2>1, <2>5, <3>1, SumOfNone DEF S
  <2> QED
    BY <2>4, <2>5
<1> HIDE DEF L, ten, per, v
<1>5. Lines(f, L, ten, per, v)
  BY <1>1, <1>3, <1>4 DEF Lines
<1> QED
  BY <1>5 DEF L, ten, per, v

\* The parties of the persons key.
LEMMA PersonPartiesAre ==
    ASSUME NEW f, Stored(f), f.cost.key = "PERSONS",
           f.mode # "keine" => \A u \in DOMAIN f.area : ~DoublyClaimed(TimelineOf(f, u))
    PROVE  LET L == RenterRows(f)
               x == [c \in L |-> LineWeight(f, RenterTen(L), RenterPer(f, L), RenterVal(L), c)]
               y == [c \in L |-> LineHeld(f, RenterTen(L), RenterPer(f, L), RenterVal(L), c)]
               P == PersonParties(f)
           IN  /\ Weighs(P.weight, L, RenterTen(L), x)
               /\ P.owner = Sum(FictionWeight(f), FictionalCounts(f)) + Sum(y, L)
               /\ P = [weight |-> P.weight, owner |-> P.owner]
<1> DEFINE L == RenterRows(f)
           F == FictionalCounts(f)
           ten == RenterTen(L)
           per == RenterPer(f, L)
           v == RenterVal(L)
           x == [c \in L |-> LineWeight(f, ten, per, v, c)]
           y == [c \in L |-> LineHeld(f, ten, per, v, c)]
           P == PersonParties(f)
           none(c) == IneligibleDays(f, c.tenancy, Clip(c, f.window))
           w == [l \in {<<c.tenancy, c>> : c \in L} |->
                    l[2].count * (DaysIn(l[2], f.window) - none(l[2]))]
           h == [c \in L |-> c.count * none(c)]
           g == [c \in F |-> c.count * DaysIn(c, f.window)]
           o == SumOf(g) + SumOf(h)
           rows == {c \in PersonRows(f) : DaysIn(c, f.window) > 0}
           renters == {c \in rows : c.tenancy # NoOne}
<1>1. renters = L /\ rows \ renters = F
  <2>1. \A c \in F : c.tenancy = NoOne /\ DaysIn(c, f.window) > 0
    BY FictionIsWhole
  <2>2. \A c \in L : c \in EnteredCounts(f) /\ DaysIn(c, f.window) > 0 /\ c.tenancy # NoOne
    BY RenterRow DEF RenterRows
  <2>3. \A c \in rows : c \in F \/ c \in L
    BY DEF PersonRows, RenterRows
  <2>4. \A c : c \in F \/ c \in EnteredCounts(f) => c \in PersonRows(f)
    BY DEF PersonRows
  <2> HIDE DEF F, L
  <2> QED
    BY <2>1, <2>2, <2>3, <2>4
<1>2. P = [weight |-> w, owner |-> o]
  <2>1. P = [weight |-> [l \in {<<c.tenancy, c>> : c \in renters} |->
                            l[2].count * (DaysIn(l[2], f.window) - none(l[2]))],
             owner |-> SumOf([c \in rows \ renters |-> c.count * DaysIn(c, f.window)])
                       + SumOf([c \in renters |-> c.count * none(c)])]
    BY DEF PersonParties
  <2> HIDE DEF rows, renters, L, F, none
  <2> QED
    BY <1>1, <2>1
<1>3. Lines(f, L, ten, per, v)
  BY RenterLines
<1>4. \A c \in L : /\ ten[c] = c.tenancy /\ per[c] = Clip(c, f.window) /\ v[c] = c.count
                   /\ DaysIn(per[c], f.window) = DaysIn(c, f.window)
  BY RenterRow DEF RenterTen, RenterPer, RenterVal
<1>5. ASSUME NEW c \in L PROVE h[c] = LineHeld(f, ten, per, v, c)
  <2>1. h[c] = c.count * none(c)
    OBVIOUS
  <2> HIDE DEF h, ten, per, v, L
  <2> QED
    BY <1>4, <2>1 DEF LineHeld
<1>6. SumOf(h) = Sum(y, L)
  <2>1. h = y
    BY <1>5
  <2>2. DOMAIN y = L
    OBVIOUS
  <2> HIDE DEF h, y
  <2> QED
    BY <2>1, <2>2, SumOfIs
<1>7. SumOf(g) = Sum(FictionWeight(f), F)
  <2>1. g = FictionWeight(f) /\ DOMAIN g = F
    BY DEF FictionWeight
  <2> HIDE DEF g, F
  <2> QED
    BY <2>1, SumOfIs
<1>8. ASSUME NEW c \in L
      PROVE  x[c] \in Int /\ w[<<ten[c], c>>] = x[c]
  <2> DEFINE l == <<c.tenancy, c>>
  <2>1. l[2] = c /\ l \in {<<r.tenancy, r>> : r \in L}
    OBVIOUS
  <2>2. w[l] = c.count * (DaysIn(c, f.window) - none(c))
    BY <2>1
  <2>3. x[c] = c.count * (DaysIn(c, f.window) - none(c))
    <3>1. x[c] = LineWeight(f, ten, per, v, c)
      OBVIOUS
    <3> HIDE DEF x, ten, per, v, L
    <3> QED
      BY <1>4, <3>1 DEF LineWeight
  <2>4. x[c] \in Int
    <3>1. PICK r \in f.tenancies : r.tenancy = ten[c]
      BY <1>3 DEF Lines
    <3>2. c \in LinesOf(L, ten, r.tenancy)
      BY <3>1 DEF LinesOf
    <3>3. LineWeight(f, ten, per, v, c) \in Int
      <4> HIDE DEF L, ten, per, v
      <4>1. TenancyMatches(f, L, ten, per, v, r)
        BY <1>3, LinesMatchDays
      <4> QED
        BY <3>2, <4>1 DEF TenancyMatches
    <3> QED
      BY <3>3
  <2>5. ten[c] = c.tenancy
    BY <1>4
  <2> HIDE DEF x, w, L, ten, none
  <2> QED
    BY <2>2, <2>3, <2>4, <2>5
<1>9. DOMAIN w = {<<ten[c], c>> : c \in L}
  <2>1. DOMAIN w = {<<c.tenancy, c>> : c \in L}
    OBVIOUS
  <2> HIDE DEF w, ten, L
  <2>2. {<<ten[c], c>> : c \in L} = {<<c.tenancy, c>> : c \in L}
    BY <1>4
  <2> QED
    BY <2>1, <2>2
<1>10. Weighs(w, L, ten, x)
  <2>1. IsFiniteSet(L)
    BY <1>3 DEF Lines
  <2> HIDE DEF w, L, ten, x
  <2> QED
    BY <1>8, <1>9, <2>1 DEF Weighs
<1>11. P.weight = w /\ P.owner = o
  BY <1>2
<1> HIDE DEF P, w, o, L, ten, per, v, h, g, F, x, y
<1>12. P.owner = Sum(FictionWeight(f), F) + Sum(y, L)
  BY <1>6, <1>7, <1>11 DEF o
<1> QED
  BY <1>2, <1>10, <1>11, <1>12 DEF L, ten, per, v, P, F, x, y

\* The parties of the persons key weigh what the counts and the fiction weigh.
LEMMA PersonsWeigh ==
    ASSUME NEW f, Stored(f), f.cost.key = "PERSONS",
           f.mode # "keine" => \A u \in DOMAIN f.area : ~DoublyClaimed(TimelineOf(f, u))
    PROVE  WeighedByDays(f, PersonParties(f)) /\ ForRenters(f, PersonParties(f))
<1> DEFINE P == PersonParties(f)
           L == RenterRows(f)
           ten == RenterTen(L)
           per == RenterPer(f, L)
           v == RenterVal(L)
           x == [c \in L |-> LineWeight(f, ten, per, v, c)]
           y == [c \in L |-> LineHeld(f, ten, per, v, c)]
           w == P.weight
           o == P.owner
<1>1. /\ Weighs(w, L, ten, x) /\ P = [weight |-> w, owner |-> o]
      /\ o = Sum(FictionWeight(f), FictionalCounts(f)) + Sum(y, L)
  BY PersonPartiesAre
<1>2. Lines(f, L, ten, per, v)
  BY RenterLines
<1>3. /\ \A p \in UnitDays(f) : EmptyWeight(f, p[1], p[2]) \in Nat
      /\ Sum(FictionWeight(f), FictionalCounts(f)) = Sum(EmptyTable(f), UnitDays(f))
  BY FictionIsWhole
<1>4. o = Sum(EmptyTable(f), UnitDays(f)) + Sum(y, L)
  BY <1>1, <1>3
<1>5. \A c \in L : v[c] \in Nat /\ ten[c] = c.tenancy
  BY RenterRow DEF RenterVal, RenterTen
<1>6. \A c \in L : v[c] \in Nat
  BY <1>5
<1>7. \A p \in UnitDays(f) : EmptyWeight(f, p[1], p[2]) \in Nat
  BY <1>3
<1>8. Weighs(w, L, ten, x)
  BY <1>1
<1>9. WeighedByDays(f, [weight |-> w, owner |-> o])
  <2> HIDE DEF L, ten, per, v, w, o, P
  <2> QED
    BY <1>2, <1>4, <1>6, <1>7, <1>8, WeighedByLines
<1>10. ForRenters(f, P)
  <2> SUFFICES ASSUME NEW l \in DOMAIN w
               PROVE  \E r \in f.tenancies : r.tenancy = Of(l) /\ DaysIn(r, f.window) > 0
    BY DEF ForRenters
  <2>1. PICK c \in L : l = <<ten[c], c>>
    BY <1>8 DEF Weighs
  <2>2. Of(l) = c.tenancy
    BY <1>5, <2>1 DEF Of
  <2>3. \E r \in f.tenancies : r.tenancy = c.tenancy /\ DaysIn(r, f.window) > 0
    BY RenterRow
  <2> QED
    BY <2>2, <2>3
<1> QED
  BY <1>1, <1>9, <1>10

-----------------------------------------------------------------------------
(* The consumption key: one figure, one party.                             *)

\* The parties that have a unit in the window; NoOne stands for its empty days.
Users(f, u) ==
    LET q == TimelineOf(f, u) IN
    {q[i].tenancy : i \in DOMAIN q}
      \cup (IF Vacancies(q, f.window) = {} THEN {} ELSE {NoOne})

\* Periods that share out some days are none exactly when the days are.
LEMMA SharesOfNone ==
    ASSUME NEW P, NEW D, SharesOut(P, D)
    PROVE  P = {} <=> D = {}
<1>1. ASSUME NEW p \in P PROVE D # {}
  <2>1. p.from \in Int /\ p.to \in Int /\ p.from < p.to /\ DaysOf(p) \subseteq D
    BY DEF SharesOut
  <2>2. p.from \in DaysOf(p)
    BY <2>1 DEF DaysOf
  <2> QED
    BY <2>1, <2>2
<1>2. ASSUME NEW d \in D PROVE P # {}
  BY DEF SharesOut
<1> QED
  BY <1>1, <1>2

\* They are the tenancies with days in the window, and NoOne if a day is empty.
LEMMA UsersAre ==
    ASSUME NEW f, Stored(f), NEW u, ~DoublyClaimed(TimelineOf(f, u)), NEW t
    PROVE  t \in Users(f, u)
           <=> \/ \E r \in TenanciesOf(f, u) : t = r.tenancy /\ DaysIn(r, f.window) > 0
               \/ t = NoOne /\ EmptyDays(f, u) # {}
<1> DEFINE q == TimelineOf(f, u)
           V == Vacancies(q, f.window)
<1>1. V = {} <=> EmptyDays(f, u) = {}
  BY VacanciesShareOut, SharesOfNone
<1>2. DOMAIN q = 1 .. Len(q)
  BY TimelineIs
<1>3. ASSUME NEW i \in 1 .. Len(q)
      PROVE  \E r \in TenanciesOf(f, u) : q[i].tenancy = r.tenancy /\ DaysIn(r, f.window) > 0
  <2>1. q[i] \in ClippedOf(f, u)
    BY TimelineIs
  <2>2. PICK r \in TenanciesOf(f, u) : DaysIn(r, f.window) > 0 /\ q[i] = Clip(r, f.window)
    BY <2>1 DEF ClippedOf, InWindow
  <2>3. q[i].tenancy = r.tenancy
    BY <2>2, SpansAre DEF TenanciesOf
  <2> QED
    BY <2>2, <2>3
<1>4. ASSUME NEW r \in TenanciesOf(f, u), DaysIn(r, f.window) > 0
      PROVE  \E i \in 1 .. Len(q) : q[i].tenancy = r.tenancy
  <2>1. Clip(r, f.window) \in ClippedOf(f, u) /\ Clip(r, f.window).tenancy = r.tenancy
    BY <1>4, SpansAre DEF ClippedOf, InWindow, TenanciesOf
  <2> QED
    BY <2>1, TimelineIs
<1>5. t \in Users(f, u) <=> (\E i \in DOMAIN q : t = q[i].tenancy) \/ (t = NoOne /\ V # {})
  <2>1. Users(f, u) = {q[i].tenancy : i \in DOMAIN q} \cup (IF V = {} THEN {} ELSE {NoOne})
    BY DEF Users
  <2> HIDE DEF q, V
  <2> QED
    BY <2>1
<1> HIDE DEF q, V
<1> QED
  BY <1>1, <1>2, <1>3, <1>4, <1>5

\* A tenancy is the only party of a unit exactly when it has the unit on every day.
LEMMA SoleUserIs ==
    ASSUME NEW f, Stored(f), NEW u, ~DoublyClaimed(TimelineOf(f, u)), NEW t
    PROVE  t \in SoleUser(f, u) <=> t # NoOne /\ Users(f, u) = {t}
<1> DEFINE W == DaysOf(f.window)
<1>1. \A r \in TenanciesOf(f, u) :
         /\ r \in f.tenancies /\ r.unit = u /\ r.tenancy \in Nat \ {NoOne}
         /\ DaysIn(r, f.window) > 0 <=> \E d \in W : d \in DaysOf(r)
  <2> SUFFICES ASSUME NEW r \in TenanciesOf(f, u)
               PROVE  /\ r \in f.tenancies /\ r.unit = u /\ r.tenancy \in Nat \ {NoOne}
                      /\ DaysIn(r, f.window) > 0 <=> \E d \in W : d \in DaysOf(r)
    OBVIOUS
  <2>1. r \in f.tenancies /\ r.unit = u
    BY DEF TenanciesOf
  <2>2. r.from \in Int /\ r.to \in Int /\ r.tenancy \in Nat \ {NoOne}
    BY <2>1, TenancyStored
  <2>3. DaysIn(r, f.window) > 0 <=> DaysOf(r) \cap W # {}
    BY <2>2, WindowStored, DaysInMeets
  <2> QED
    BY <2>1, <2>2, <2>3
<1>2. \A d \in W : \A s : s \in OccupiedBy(f, u, d)
         <=> \E r \in TenanciesOf(f, u) : s = r.tenancy /\ d \in DaysOf(r)
  BY DEF OccupiedBy, TenanciesOf
<1>3. f.window.from \in W
  BY WindowStored
<1>4. EmptyDays(f, u) = {d \in W : OccupiedBy(f, u, d) = {}}
  BY DEF EmptyDays
<1>5. \A r \in TenanciesOf(f, u) : r.tenancy \in Tenants(f)
  BY <1>1 DEF Tenants
<1>6. \A s \in Tenants(f) : s # NoOne
  BY TenancyStored DEF Tenants
<1> HIDE DEF W
<1>7. ASSUME t \in SoleUser(f, u) PROVE t # NoOne /\ Users(f, u) = {t}
  <2>1. t \in Tenants(f) /\ \A d \in W : OccupiedBy(f, u, d) = {t}
    BY <1>7 DEF SoleUser, W
  <2>2. EmptyDays(f, u) = {}
    BY <1>4, <2>1
  <2>3. \A s \in Users(f, u) : s = t
    BY <1>1, <1>2, <2>1, <2>2, UsersAre
  <2>4. t \in Users(f, u)
    <3>1. PICK r \in TenanciesOf(f, u) : t = r.tenancy /\ f.window.from \in DaysOf(r)
      BY <1>2, <1>3, <2>1
    <3>2. DaysIn(r, f.window) > 0
      BY <1>1, <1>3, <3>1
    <3> QED
      BY <3>1, <3>2, UsersAre
  <2> QED
    BY <1>6, <2>1, <2>3, <2>4
<1>8. ASSUME t # NoOne, Users(f, u) = {t} PROVE t \in SoleUser(f, u)
  <2>1. PICK r \in TenanciesOf(f, u) : t = r.tenancy
    BY <1>8, UsersAre
  <2>2. t \in Tenants(f)
    BY <1>5, <2>1
  <2>3. EmptyDays(f, u) = {}
    BY <1>8, UsersAre
  <2>4. \A d \in W : OccupiedBy(f, u, d) = {t}
    <3> SUFFICES ASSUME NEW d \in W PROVE OccupiedBy(f, u, d) = {t}
      OBVIOUS
    <3>1. OccupiedBy(f, u, d) # {}
      BY <1>4, <2>3
    <3>2. \A s \in OccupiedBy(f, u, d) : s \in Users(f, u)
      <4> SUFFICES ASSUME NEW s \in OccupiedBy(f, u, d) PROVE s \in Users(f, u)
        OBVIOUS
      <4>1. PICK x \in TenanciesOf(f, u) : s = x.tenancy /\ d \in DaysOf(x)
        BY <1>2
      <4>2. DaysIn(x, f.window) > 0
        BY <1>1, <4>1
      <4> QED
        BY <4>1, <4>2, UsersAre
    <3> QED
      BY <1>8, <3>1, <3>2
  <2> QED
    BY <2>2, <2>4 DEF SoleUser, W
<1> QED
  BY <1>7, <1>8

\* A unit has only empty days exactly when NoOne is its only party.
LEMMA NoUserIs ==
    ASSUME NEW f, Stored(f), NEW u, ~DoublyClaimed(TimelineOf(f, u))
    PROVE  (\A d \in DaysOf(f.window) : OccupiedBy(f, u, d) = {}) <=> Users(f, u) = {NoOne}
<1> DEFINE W == DaysOf(f.window)
<1>1. \A r \in TenanciesOf(f, u) :
         /\ r \in f.tenancies /\ r.unit = u /\ r.tenancy # NoOne
         /\ DaysIn(r, f.window) > 0 <=> \E d \in W : d \in DaysOf(r)
  <2> SUFFICES ASSUME NEW r \in TenanciesOf(f, u)
               PROVE  /\ r \in f.tenancies /\ r.unit = u /\ r.tenancy # NoOne
                      /\ DaysIn(r, f.window) > 0 <=> \E d \in W : d \in DaysOf(r)
    OBVIOUS
  <2>1. r \in f.tenancies /\ r.unit = u
    BY DEF TenanciesOf
  <2>2. r.from \in Int /\ r.to \in Int /\ r.tenancy \in Nat \ {NoOne}
    BY <2>1, TenancyStored
  <2>3. DaysIn(r, f.window) > 0 <=> DaysOf(r) \cap W # {}
    BY <2>2, WindowStored, DaysInMeets
  <2> QED
    BY <2>1, <2>2, <2>3
<1>2. \A d \in W : \A s : s \in OccupiedBy(f, u, d)
         <=> \E r \in TenanciesOf(f, u) : s = r.tenancy /\ d \in DaysOf(r)
  BY DEF OccupiedBy, TenanciesOf
<1>3. f.window.from \in W
  BY WindowStored
<1>4. EmptyDays(f, u) = {d \in W : OccupiedBy(f, u, d) = {}}
  BY DEF EmptyDays
<1> HIDE DEF W
<1>5. ASSUME \A d \in W : OccupiedBy(f, u, d) = {} PROVE Users(f, u) = {NoOne}
  <2>1. EmptyDays(f, u) # {}
    BY <1>3, <1>4, <1>5
  <2>2. \A s \in Users(f, u) : s = NoOne
    <3> SUFFICES ASSUME NEW s \in Users(f, u), s # NoOne PROVE FALSE
      OBVIOUS
    <3>1. PICK r \in TenanciesOf(f, u) : DaysIn(r, f.window) > 0
      BY UsersAre
    <3>2. PICK d \in W : d \in DaysOf(r)
      BY <1>1, <3>1
    <3> QED
      BY <1>2, <1>5, <3>2
  <2> QED
    BY <2>1, <2>2, UsersAre
<1>6. ASSUME Users(f, u) = {NoOne}, NEW d \in W PROVE OccupiedBy(f, u, d) = {}
  <2> SUFFICES ASSUME NEW s \in OccupiedBy(f, u, d) PROVE FALSE
    OBVIOUS
  <2>1. PICK r \in TenanciesOf(f, u) : s = r.tenancy /\ d \in DaysOf(r)
    BY <1>2
  <2>2. DaysIn(r, f.window) > 0
    BY <1>1, <2>1
  <2>3. r.tenancy \in Users(f, u)
    BY <2>2, UsersAre
  <2> QED
    BY <1>1, <1>6, <2>3
<1> QED
  BY <1>5, <1>6 DEF W

\* A timeline is built for every unit with a meter, so none claims a day twice.
MetersClear(f) ==
    \A u \in DOMAIN f.area : f.reading[u] # NoValue => ~DoublyClaimed(TimelineOf(f, u))

\* The units whose figure has one party, the party and the figure.
OneParty(f) == {u \in DOMAIN f.area : f.reading[u] # NoValue /\ \E t : Users(f, u) = {t}}
SoleParty(f, u) == CHOOSE t \in Users(f, u) : TRUE
MeterRow(f, u) == [unit |-> u, tenancy |-> SoleParty(f, u), value |-> f.reading[u]]

\* The parties of a unit are finitely many.
LEMMA UsersFinite ==
    ASSUME NEW f, Stored(f), NEW u, ~DoublyClaimed(TimelineOf(f, u))
    PROVE  IsFiniteSet(Users(f, u))
<1> DEFINE R == f.tenancies
           b == [r \in R |-> r.tenancy]
           T == {b[r] : r \in R}
<1>1. IsFiniteSet(T)
  <2>1. IsFiniteSet(R)
    BY UnitsStored
  <2> HIDE DEF R, b
  <2> QED
    BY <2>1, FiniteImage
<1>2. \A t \in Users(f, u) : t \in T \cup {NoOne}
  <2>1. \A r \in R : r.tenancy \in T
    OBVIOUS
  <2>2. \A r \in TenanciesOf(f, u) : r \in R
    BY DEF TenanciesOf
  <2> HIDE DEF R, T
  <2> QED
    BY <2>1, <2>2, UsersAre
<1>3. Users(f, u) \subseteq T \cup {NoOne}
  BY <1>2
<1>4. IsFiniteSet(T \cup {NoOne})
  BY <1>1, FS_AddElement
<1> QED
  BY <1>3, <1>4, FS_Subset

\* The figures that the statement hands to the engine.
LEMMA ConsumptionsAre ==
    ASSUME NEW f, Stored(f), MetersClear(f)
    PROVE  Consumptions(f) = {MeterRow(f, u) : u \in OneParty(f)}
<1> DEFINE X == {x \in DOMAIN f.area : f.reading[x] # NoValue /\ Cardinality(Users(f, x)) = 1}
<1>1. Consumptions(f) = {MeterRow(f, u) : u \in X}
  BY DEF Consumptions, MeterRow, SoleParty, Users
<1>2. \A u \in DOMAIN f.area :
         f.reading[u] # NoValue => (Cardinality(Users(f, u)) = 1 <=> \E t : Users(f, u) = {t})
  BY UsersFinite, FS_Singleton DEF MetersClear
<1>3. X = OneParty(f)
  BY <1>2 DEF OneParty
<1> QED
  BY <1>1, <1>3

\* The party of a unit with one, and what its days are.
LEMMA PartyIs ==
    ASSUME NEW f, Stored(f), MetersClear(f), NEW u \in OneParty(f)
    PROVE  /\ Users(f, u) = {SoleParty(f, u)} /\ u \in DOMAIN f.area
           /\ f.reading[u] \in Nat /\ f.reading[u] # NoValue /\ ~DoublyClaimed(TimelineOf(f, u))
           /\ SoleParty(f, u) # NoOne =>
                 \E r \in f.tenancies :
                    /\ r.tenancy = SoleParty(f, u) /\ DaysOf(f.window) \subseteq DaysOf(r)
                    /\ DaysIn(r, f.window) > 0
<1>1. u \in DOMAIN f.area /\ f.reading[u] # NoValue /\ ~DoublyClaimed(TimelineOf(f, u))
  BY DEF OneParty, MetersClear
<1>2. PICK t : Users(f, u) = {t}
  BY DEF OneParty
<1>3. Users(f, u) = {SoleParty(f, u)}
  BY <1>2 DEF SoleParty
<1>4. f.reading[u] \in Nat
  BY <1>1, UnitsStored
<1>5. ASSUME SoleParty(f, u) # NoOne
      PROVE  \E r \in f.tenancies :
                /\ r.tenancy = SoleParty(f, u) /\ DaysOf(f.window) \subseteq DaysOf(r)
                /\ DaysIn(r, f.window) > 0
  <2> DEFINE p == SoleParty(f, u)
  <2>1. p \in Users(f, u) /\ p # NoOne
    BY <1>3, <1>5
  <2>2. PICK r \in TenanciesOf(f, u) : p = r.tenancy /\ DaysIn(r, f.window) > 0
    BY <1>1, <2>1, UsersAre
  <2>3. p \in SoleUser(f, u)
    BY <1>1, <1>3, <1>5, SoleUserIs
  <2>4. \A d \in DaysOf(f.window) : OccupiedBy(f, u, d) = {p}
    BY <2>3 DEF SoleUser
  <2>5. r \in f.tenancies /\ r.unit = u
    BY <2>2 DEF TenanciesOf
  <2>6. \A d \in DaysOf(f.window) : d \in DaysOf(r)
    BY <2>2, <2>4, <2>5, OccupiedOn
  <2> QED
    BY <2>2, <2>5, <2>6
<1> QED
  BY <1>1, <1>3, <1>4, <1>5

\* A figure is withheld from its renter if a period without an agreement is found.
WithheldFrom(f, c) ==
    /\ c.tenancy # NoOne
    /\ \E r \in f.tenancies : r.tenancy = c.tenancy /\ Ineligible(f, r) # {}

\* That is if one day of the window has none.
LEMMA WithheldIs ==
    ASSUME NEW f, Stored(f), MetersClear(f), NEW u \in OneParty(f)
    PROVE  WithheldFrom(f, MeterRow(f, u))
           <=> /\ SoleParty(f, u) # NoOne
               /\ ~ \A d \in DaysOf(f.window) : AgreedOn(f, SoleParty(f, u), d)
<1> DEFINE p == SoleParty(f, u)
           c == MeterRow(f, u)
<1>1. c.tenancy = p
  BY DEF MeterRow
<1>2. CASE p = NoOne
  BY <1>1, <1>2 DEF WithheldFrom
<1>3. CASE p # NoOne
  <2>1. PICK r \in f.tenancies : r.tenancy = p /\ DaysOf(f.window) \subseteq DaysOf(r)
    BY <1>3, PartyIs
  <2>2. \A s \in f.tenancies : s.tenancy = p => s = r
    BY <2>1, TenancyStored
  <2>3. Ineligible(f, r) = {} <=> Withheld(f, r) = {}
    BY IneligibleSharesOut, SharesOfNone
  <2>4. Withheld(f, r) = {d \in DaysOf(f.window) : ~AgreedOn(f, p, d)}
    BY <2>1 DEF Withheld
  <2>5. WithheldFrom(f, c) <=> Ineligible(f, r) # {}
    <3> HIDE DEF c, p
    <3> QED
      BY <1>1, <1>3, <2>1, <2>2 DEF WithheldFrom
  <2> QED
    BY <1>3, <2>3, <2>4, <2>5
<1> QED
  BY <1>2, <1>3

\* A unit's figure is withheld from its renter, or it is not.
LEMMA MeterOf ==
    ASSUME NEW f, Stored(f), MetersClear(f), NEW u \in DOMAIN f.area,
           f.reading[u] # NoValue, NEW t, t # NoOne
    PROVE  SoleUser(f, u) = {t} <=> u \in OneParty(f) /\ SoleParty(f, u) = t
<1>1. ~DoublyClaimed(TimelineOf(f, u))
  BY DEF MetersClear
<1>2. ASSUME SoleUser(f, u) = {t} PROVE u \in OneParty(f) /\ SoleParty(f, u) = t
  <2>1. Users(f, u) = {t}
    BY <1>1, <1>2, SoleUserIs
  <2>2. u \in OneParty(f)
    BY <2>1 DEF OneParty
  <2> QED
    BY <2>1, <2>2, PartyIs
<1>3. ASSUME u \in OneParty(f), SoleParty(f, u) = t PROVE SoleUser(f, u) = {t}
  <2>1. Users(f, u) = {t}
    BY <1>3, PartyIs
  <2>2. \A s : s \in SoleUser(f, u) <=> s = t
    BY <1>1, <2>1, SoleUserIs
  <2> QED
    BY <2>2
<1> QED
  BY <1>2, <1>3

\* A unit has a figure exactly when it has one party.
LEMMA MeteredIs ==
    ASSUME NEW f, Stored(f), MetersClear(f), NEW u \in DOMAIN f.area,
           f.reading[u] # NoValue
    PROVE  (\/ SoleUser(f, u) # {}
            \/ \A d \in DaysOf(f.window) : OccupiedBy(f, u, d) = {}) <=> u \in OneParty(f)
<1>1. ~DoublyClaimed(TimelineOf(f, u))
  BY DEF MetersClear
<1>2. u \in OneParty(f) <=> \E t : Users(f, u) = {t}
  BY DEF OneParty
<1>3. SoleUser(f, u) # {} <=> \E t : t # NoOne /\ Users(f, u) = {t}
  BY <1>1, SoleUserIs
<1>4. (\A d \in DaysOf(f.window) : OccupiedBy(f, u, d) = {}) <=> Users(f, u) = {NoOne}
  BY <1>1, NoUserIs
<1> QED
  BY <1>2, <1>3, <1>4

\* The lines of the renters, and what stays with the owner.
MeterLines(f) == {c \in Consumptions(f) : c.tenancy # NoOne}
MeterTen(f) == [c \in MeterLines(f) |-> c.tenancy]
MeterPaid(f) == [c \in MeterLines(f) |-> IF WithheldFrom(f, c) THEN 0 ELSE c.value]
MeterHeld(f) == {c \in Consumptions(f) : c.tenancy = NoOne \/ WithheldFrom(f, c)}
MeterValue(f) == [c \in Consumptions(f) |-> c.value]

\* The figures are finitely many, one for each unit with one party.
LEMMA ConsumptionRow ==
    ASSUME NEW f, Stored(f), MetersClear(f)
    PROVE  /\ IsFiniteSet(OneParty(f)) /\ IsFiniteSet(Consumptions(f))
           /\ \A u \in OneParty(f) : /\ MeterRow(f, u).unit = u
                                     /\ MeterRow(f, u).tenancy = SoleParty(f, u)
                                     /\ MeterRow(f, u).value = f.reading[u]
                                     /\ MeterRow(f, u) \in Consumptions(f)
           /\ \A c \in Consumptions(f) : /\ c.value \in Nat
                                         /\ \E u \in OneParty(f) : c = MeterRow(f, u)
<1>1. OneParty(f) \subseteq DOMAIN f.area
  BY DEF OneParty
<1>2. IsFiniteSet(OneParty(f))
  BY <1>1, UnitsStored, FS_Subset
<1>3. Consumptions(f) = {MeterRow(f, u) : u \in OneParty(f)}
  BY ConsumptionsAre
<1>4. IsFiniteSet(Consumptions(f))
  <2> DEFINE b == [u \in OneParty(f) |-> MeterRow(f, u)]
  <2>1. Consumptions(f) = {b[u] : u \in OneParty(f)}
    BY <1>3
  <2> HIDE DEF b
  <2> QED
    BY <1>2, <2>1, FiniteImage
<1>5. \A u \in OneParty(f) : /\ MeterRow(f, u).unit = u
                             /\ MeterRow(f, u).tenancy = SoleParty(f, u)
                             /\ MeterRow(f, u).value = f.reading[u]
  BY DEF MeterRow
<1>6. \A u \in OneParty(f) : f.reading[u] \in Nat
  BY PartyIs
<1> QED
  BY <1>2, <1>3, <1>4, <1>5, <1>6

\* The parties of the consumption key.
LEMMA ConsumptionPartiesAre ==
    ASSUME NEW f, Stored(f), MetersClear(f)
    PROVE  LET P == ConsumptionParties(f) IN
           /\ Weighs(P.weight, MeterLines(f), MeterTen(f), MeterPaid(f))
           /\ P.owner = Sum(MeterValue(f), MeterHeld(f))
           /\ \A c \in MeterLines(f) : MeterPaid(f)[c] \in Nat
<1> DEFINE P == ConsumptionParties(f)
           C == Consumptions(f)
           L == MeterLines(f)
           ten == MeterTen(f)
           x == MeterPaid(f)
           H == MeterHeld(f)
           w == [l \in {<<c.tenancy, c>> : c \in L} |->
                    IF WithheldFrom(f, l[2]) THEN 0 ELSE l[2].value]
           h == [c \in H |-> c.value]
<1>1. P = [weight |-> w, owner |-> SumOf(h)]
  BY DEF ConsumptionParties, WithheldFrom, MeterLines, MeterHeld
<1>2. IsFiniteSet(C) /\ \A c \in C : c.value \in Nat
  BY ConsumptionRow
<1>3. L \subseteq C /\ H \subseteq C /\ IsFiniteSet(L) /\ IsFiniteSet(H)
  BY <1>2, FS_Subset DEF MeterLines, MeterHeld
<1>4. \A c \in L : /\ ten[c] = c.tenancy
                   /\ x[c] = IF WithheldFrom(f, c) THEN 0 ELSE c.value
  BY DEF MeterTen, MeterPaid
<1>5. \A c \in L : x[c] \in Nat
  BY <1>2, <1>3, <1>4
<1>6. ASSUME NEW c \in L PROVE w[<<ten[c], c>>] = x[c]
  <2> DEFINE l == <<c.tenancy, c>>
  <2>1. l[2] = c /\ l \in {<<r.tenancy, r>> : r \in L}
    OBVIOUS
  <2>2. w[l] = IF WithheldFrom(f, c) THEN 0 ELSE c.value
    BY <2>1
  <2> HIDE DEF x, w, L, ten
  <2> QED
    BY <1>4, <2>2
<1>7. DOMAIN w = {<<ten[c], c>> : c \in L}
  <2>1. DOMAIN w = {<<c.tenancy, c>> : c \in L}
    OBVIOUS
  <2> HIDE DEF w, ten, L
  <2>2. {<<ten[c], c>> : c \in L} = {<<c.tenancy, c>> : c \in L}
    BY <1>4
  <2> QED
    BY <2>1, <2>2
<1>8. Weighs(w, L, ten, x)
  <2> HIDE DEF w, L, ten, x
  <2> QED
    BY <1>3, <1>5, <1>6, <1>7 DEF Weighs
<1>9. SumOf(h) = Sum(MeterValue(f), H)
  <2>1. \A c \in H : h[c] = MeterValue(f)[c]
    BY <1>3 DEF MeterValue
  <2>2. DOMAIN h = H
    OBVIOUS
  <2> HIDE DEF h, H
  <2>3. SumOf(h) = Sum(h, H)
    BY <2>2, SumOfIs
  <2> QED
    BY <1>3, <2>1, <2>3, SumSame
<1>10. P.weight = w /\ P.owner = SumOf(h)
  BY <1>1
<1> HIDE DEF P, w, h, L, ten, x, H
<1> QED
  BY <1>5, <1>8, <1>9, <1>10 DEF P, L, ten, x, H

\* A renter's lines weigh the figures that are the renter's.
LEMMA PaidMatches ==
    ASSUME NEW f, Stored(f), MetersClear(f), NEW t, t # NoOne
    PROVE  Sum(MeterPaid(f), LinesOf(MeterLines(f), MeterTen(f), t)) = MeteredWeight(f, t)
<1> DEFINE K == DOMAIN f.area
           T == {u \in OneParty(f) : SoleParty(f, u) = t}
           C == LinesOf(MeterLines(f), MeterTen(f), t)
           x == MeterPaid(f)
           agreed == \A d \in DaysOf(f.window) : AgreedOn(f, t, d)
           mine(u) == SoleUser(f, u) = {t} /\ f.reading[u] # NoValue /\ agreed
           k == [u \in K |-> IF mine(u) THEN f.reading[u] ELSE 0]
           b == [u \in T |-> MeterRow(f, u)]
<1>1. MeteredWeight(f, t) = Sum(k, K)
  <2>1. MeteredWeight(f, t) = SumOf(k)
    BY DEF MeteredWeight
  <2>2. DOMAIN k = K
    OBVIOUS
  <2> HIDE DEF k, K
  <2> QED
    BY <2>1, <2>2, SumOfIs
<1>2. \A u \in T : /\ u \in OneParty(f) /\ u \in K /\ SoleParty(f, u) = t
                   /\ f.reading[u] # NoValue /\ f.reading[u] \in Nat
  BY PartyIs
<1>3. \A u \in K : f.reading[u] # NoValue => (SoleUser(f, u) = {t} <=> u \in T)
  BY MeterOf
<1>4. \A u \in K : k[u] = IF u \in T /\ agreed THEN f.reading[u] ELSE 0
  <2> SUFFICES ASSUME NEW u \in K
               PROVE  k[u] = IF u \in T /\ agreed THEN f.reading[u] ELSE 0
    OBVIOUS
  <2>1. k[u] = IF mine(u) THEN f.reading[u] ELSE 0
    OBVIOUS
  <2>2. mine(u) <=> u \in T /\ agreed
    <3> HIDE DEF T, agreed, K
    <3> QED
      BY <1>2, <1>3
  <2> HIDE DEF T, agreed, K, k, mine
  <2> QED
    BY <2>1, <2>2
<1>5. ASSUME NEW u \in T
      PROVE  /\ b[u] \in C /\ b[u] = MeterRow(f, u) /\ b[u].unit = u
             /\ x[b[u]] = k[u] /\ k[u] \in Nat
  <2> DEFINE c == MeterRow(f, u)
  <2>1. /\ c \in Consumptions(f) /\ c.tenancy = t /\ c.unit = u /\ c.value = f.reading[u]
    BY <1>2, ConsumptionRow
  <2>2. c \in MeterLines(f)
    BY <2>1 DEF MeterLines
  <2>3. c \in C /\ x[c] = IF WithheldFrom(f, c) THEN 0 ELSE c.value
    BY <2>1, <2>2 DEF LinesOf, MeterTen, MeterPaid
  <2>4. WithheldFrom(f, c) <=> ~agreed
    BY <1>2, WithheldIs
  <2>5. b[u] = c
    OBVIOUS
  <2>6. k[u] = IF agreed THEN f.reading[u] ELSE 0
    <3> HIDE DEF k, K, T, agreed
    <3> QED
      BY <1>2, <1>4
  <2> HIDE DEF b, c, k, x, C, agreed, T
  <2> QED
    BY <1>2, <2>1, <2>3, <2>4, <2>5, <2>6 DEF c
<1>6. \A c \in C : \E u \in T : c = b[u]
  <2> SUFFICES ASSUME NEW c \in C PROVE \E u \in T : c = b[u]
    OBVIOUS
  <2>1. c \in Consumptions(f) /\ c.tenancy = t
    BY DEF LinesOf, MeterLines, MeterTen
  <2>2. PICK u \in OneParty(f) : c = MeterRow(f, u)
    BY <2>1, ConsumptionRow
  <2>3. u \in T
    BY <2>1, <2>2, ConsumptionRow
  <2> QED
    BY <2>2, <2>3
<1>7. IsFiniteSet(K) /\ IsFiniteSet(T) /\ T \subseteq K
  <2>1. IsFiniteSet(K)
    BY UnitsStored
  <2>2. T \subseteq K
    BY <1>2
  <2> QED
    BY <2>1, <2>2, FS_Subset
<1> HIDE DEF K, T, C, x, k, b, agreed, mine
<1>8. Sum(k, K) = Sum(k, T)
  <2>1. \A u \in T : k[u] \in Int
    BY <1>5
  <2>2. \A u \in K \ T : k[u] = 0
    BY <1>4
  <2> QED
    BY <1>7, <2>1, <2>2, SumOnly
<1>9. Sum(k, T) = Sum(x, C)
  <2>1. C = {b[u] : u \in T}
    BY <1>5, <1>6
  <2>2. \A u, v \in T : b[u] = b[v] => u = v
    BY <1>5
  <2>3. \A u \in T : k[u] \in Int /\ k[u] = x[b[u]]
    BY <1>5
  <2>4. IsFiniteSet(T)
    BY <1>7
  <2> QED
    BY <2>1, <2>2, <2>3, <2>4, SumRenamed
<1> QED
  BY <1>1, <1>8, <1>9 DEF x, C

\* All figures together.
LEMMA FiguresMatch ==
    ASSUME NEW f, Stored(f), MetersClear(f)
    PROVE  Sum(MeterValue(f), Consumptions(f)) = Metered(f)
<1> DEFINE K == DOMAIN f.area
           T == OneParty(f)
           C == Consumptions(f)
           m == MeterValue(f)
           has(u) == f.reading[u] # NoValue
                     /\ (SoleUser(f, u) # {}
                         \/ \A d \in DaysOf(f.window) : OccupiedBy(f, u, d) = {})
           k == [u \in K |-> IF has(u) THEN f.reading[u] ELSE 0]
           b == [u \in T |-> MeterRow(f, u)]
<1>1. Metered(f) = Sum(k, K)
  <2>1. Metered(f) = SumOf(k)
    BY DEF Metered
  <2>2. DOMAIN k = K
    OBVIOUS
  <2> HIDE DEF k, K
  <2> QED
    BY <2>1, <2>2, SumOfIs
<1>2. \A u \in T : u \in K /\ f.reading[u] # NoValue /\ f.reading[u] \in Nat
  BY PartyIs
<1>3. \A u \in K : has(u) <=> u \in T
  <2> SUFFICES ASSUME NEW u \in K PROVE has(u) <=> u \in T
    OBVIOUS
  <2>1. CASE f.reading[u] # NoValue
    BY <2>1, MeteredIs
  <2>2. CASE f.reading[u] = NoValue
    BY <1>2, <2>2
  <2> QED
    BY <2>1, <2>2
<1>4. \A u \in K : k[u] = IF u \in T THEN f.reading[u] ELSE 0
  <2> SUFFICES ASSUME NEW u \in K PROVE k[u] = IF u \in T THEN f.reading[u] ELSE 0
    OBVIOUS
  <2>1. k[u] = IF has(u) THEN f.reading[u] ELSE 0
    OBVIOUS
  <2> HIDE DEF k, has, T, K
  <2> QED
    BY <1>3, <2>1
<1>5. ASSUME NEW u \in T
      PROVE  /\ b[u] \in C /\ b[u].unit = u
             /\ m[b[u]] = k[u] /\ k[u] \in Nat
  <2> DEFINE c == MeterRow(f, u)
  <2>1. c \in C /\ c.unit = u /\ c.value = f.reading[u]
    BY ConsumptionRow
  <2>2. m[c] = c.value
    BY <2>1 DEF MeterValue
  <2>3. b[u] = c
    OBVIOUS
  <2> HIDE DEF b, c, k, m, C, T, K
  <2> QED
    BY <1>2, <1>4, <2>1, <2>2, <2>3
<1>6. \A c \in C : \E u \in T : c = b[u]
  BY ConsumptionRow
<1>7. IsFiniteSet(K) /\ IsFiniteSet(T) /\ T \subseteq K
  BY <1>2, UnitsStored, ConsumptionRow
<1> HIDE DEF K, T, C, m, k, b, has
<1>8. Sum(k, K) = Sum(k, T)
  <2>1. \A u \in T : k[u] \in Int
    BY <1>5
  <2>2. \A u \in K \ T : k[u] = 0
    BY <1>4
  <2> QED
    BY <1>7, <2>1, <2>2, SumOnly
<1>9. Sum(k, T) = Sum(m, C)
  <2>1. C = {b[u] : u \in T}
    BY <1>5, <1>6
  <2>2. \A u, v \in T : b[u] = b[v] => u = v
    BY <1>5
  <2>3. \A u \in T : k[u] \in Int /\ k[u] = m[b[u]]
    BY <1>5
  <2>4. IsFiniteSet(T)
    BY <1>7
  <2> QED
    BY <2>1, <2>2, <2>3, <2>4, SumRenamed
<1> QED
  BY <1>1, <1>8, <1>9 DEF m, C

\* What is paid and what is withheld are the figures.
LEMMA FiguresAreWhole ==
    ASSUME NEW f, Stored(f), MetersClear(f)
    PROVE  /\ Sum(MeterPaid(f), MeterLines(f)) + Sum(MeterValue(f), MeterHeld(f))
              = Sum(MeterValue(f), Consumptions(f))
           /\ Sum(MeterValue(f), MeterHeld(f)) \in Nat
<1> DEFINE C == Consumptions(f)
           L == MeterLines(f)
           H == MeterHeld(f)
           m == MeterValue(f)
           x == MeterPaid(f)
           p == [c \in C |-> IF c \in H THEN 0 ELSE m[c]]
           o == [c \in C |-> IF c \in H THEN m[c] ELSE 0]
<1>1. IsFiniteSet(C) /\ \A c \in C : m[c] \in Nat
  BY ConsumptionRow DEF MeterValue
<1>2. L \subseteq C /\ H \subseteq C /\ IsFiniteSet(L) /\ IsFiniteSet(H)
  BY <1>1, FS_Subset DEF MeterLines, MeterHeld
<1>3. \A c \in C : c \notin L => c \in H
  BY DEF MeterLines, MeterHeld
<1>4. \A c \in L : x[c] = IF c \in H THEN 0 ELSE m[c]
  <2> SUFFICES ASSUME NEW c \in L PROVE x[c] = IF c \in H THEN 0 ELSE m[c]
    OBVIOUS
  <2>1. c \in C /\ c.tenancy # NoOne
    BY DEF MeterLines
  <2>2. c \in H <=> WithheldFrom(f, c)
    BY <2>1 DEF MeterHeld
  <2>3. x[c] = IF WithheldFrom(f, c) THEN 0 ELSE c.value
    BY DEF MeterPaid
  <2>4. m[c] = c.value
    BY <2>1 DEF MeterValue
  <2> HIDE DEF x, H, m
  <2> QED
    BY <2>2, <2>3, <2>4
<1> HIDE DEF C, L, H, m, x
<1>5. \A c \in C : /\ p[c] \in Int /\ o[c] \in Int /\ m[c] = p[c] + o[c]
                   /\ p[c] = (IF c \in H THEN 0 ELSE m[c])
                   /\ o[c] = (IF c \in H THEN m[c] ELSE 0)
  BY <1>1
<1> HIDE DEF p, o
<1>6. Sum(m, C) = Sum(p, C) + Sum(o, C)
  BY <1>1, <1>5, SumAdd
<1>7. Sum(p, C) = Sum(x, L)
  <2>1. \A c \in L : p[c] \in Int
    BY <1>2, <1>5
  <2>2. \A c \in C \ L : p[c] = 0
    BY <1>3, <1>5
  <2>3. Sum(p, C) = Sum(p, L)
    BY <1>1, <1>2, <2>1, <2>2, SumOnly
  <2>4. \A c \in L : p[c] = x[c]
    BY <1>2, <1>4, <1>5
  <2> QED
    BY <1>2, <2>3, <2>4, SumSame
<1>8. Sum(o, C) = Sum(m, H)
  <2>1. \A c \in H : o[c] \in Int
    BY <1>2, <1>5
  <2>2. \A c \in C \ H : o[c] = 0
    BY <1>5
  <2>3. Sum(o, C) = Sum(o, H)
    BY <1>1, <1>2, <2>1, <2>2, SumOnly
  <2>4. \A c \in H : o[c] = m[c]
    BY <1>2, <1>5
  <2> QED
    BY <1>2, <2>3, <2>4, SumSame
<1>9. Sum(m, H) \in Nat
  BY <1>1, <1>2, SumNat
<1> QED
  BY <1>6, <1>7, <1>8, <1>9 DEF C, L, H, m, x

\* The weights of metered figures.
WeighedByMeters(f, P) ==
    /\ IsFiniteSet(DOMAIN P.weight) /\ \A l \in DOMAIN P.weight : P.weight[l] \in Nat
    /\ P.owner \in Nat
    /\ \A t \in Tenants(f) : SumOfTenancy(P.weight, t) = MeteredWeight(f, t)
    /\ SumOf(P.weight) + P.owner = Metered(f)

\* The parties of the consumption key weigh what the figures are.
LEMMA MetersWeigh ==
    ASSUME NEW f, Stored(f), MetersClear(f)
    PROVE  WeighedByMeters(f, ConsumptionParties(f)) /\ ForRenters(f, ConsumptionParties(f))
<1> DEFINE P == ConsumptionParties(f)
           L == MeterLines(f)
           ten == MeterTen(f)
           x == MeterPaid(f)
           w == P.weight
<1>1. /\ Weighs(w, L, ten, x) /\ P.owner = Sum(MeterValue(f), MeterHeld(f))
      /\ \A c \in L : x[c] \in Nat
  BY ConsumptionPartiesAre
<1>2. /\ IsFiniteSet(DOMAIN w) /\ SumOf(w) = Sum(x, L)
      /\ \A t : SumOfTenancy(w, t) = Sum(x, LinesOf(L, ten, t))
  <2> HIDE DEF w, L, ten, x
  <2> QED
    BY <1>1, WeightsByLine
<1>3. \A l \in DOMAIN w : w[l] \in Nat /\ \E c \in L : l = <<ten[c], c>>
  <2> HIDE DEF w, L, ten, x
  <2> QED
    BY <1>1 DEF Weighs
<1>4. P.owner \in Nat /\ SumOf(w) + P.owner = Metered(f)
  BY <1>1, <1>2, FiguresAreWhole, FiguresMatch
<1>5. \A t \in Tenants(f) : SumOfTenancy(w, t) = MeteredWeight(f, t)
  <2>1. \A t \in Tenants(f) : t # NoOne
    BY TenancyStored DEF Tenants
  <2>2. \A t \in Tenants(f) : Sum(x, LinesOf(L, ten, t)) = MeteredWeight(f, t)
    BY <2>1, PaidMatches
  <2> HIDE DEF w, L, ten, x
  <2> QED
    BY <1>2, <2>2
<1>6. ForRenters(f, P)
  <2> SUFFICES ASSUME NEW l \in DOMAIN w
               PROVE  \E r \in f.tenancies : r.tenancy = Of(l) /\ DaysIn(r, f.window) > 0
    BY DEF ForRenters
  <2>1. PICK c \in L : l = <<ten[c], c>>
    BY <1>3
  <2>2. Of(l) = c.tenancy /\ c \in Consumptions(f) /\ c.tenancy # NoOne
    BY <2>1 DEF Of, MeterTen, MeterLines
  <2>3. PICK u \in OneParty(f) : c = MeterRow(f, u)
    BY <2>2, ConsumptionRow
  <2>4. SoleParty(f, u) = c.tenancy
    BY <2>3, ConsumptionRow
  <2>5. \E r \in f.tenancies : r.tenancy = SoleParty(f, u) /\ DaysIn(r, f.window) > 0
    BY <2>2, <2>4, PartyIs
  <2> QED
    BY <2>2, <2>4, <2>5
<1> HIDE DEF P, w
<1>7. WeighedByMeters(f, P)
  BY <1>2, <1>3, <1>4, <1>5 DEF WeighedByMeters, w
<1> QED
  BY <1>6, <1>7 DEF P
=============================================================================
