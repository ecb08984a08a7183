-------------------------- MODULE DataCacheProofs --------------------------
(***************************************************************************)
(* For pages of any size, any number of segments and pages, and writes of  *)
(* any length: what DataCache says of the cache holds in every state.      *)
(*                                                                         *)
(* The loops of the code are recursive functions in DataCache: the pass of *)
(* EnforceRange over a list, and the passes of a write and of a read over  *)
(* the segments.  Such a function is a CHOOSE, of which nothing is known   *)
(* until a function with its equation is known to exist (RangeRecursion),  *)
(* and what holds after every round follows by induction, here with a set  *)
(* in place of a predicate (RangeInduction); both rest on the least        *)
(* element of a set of naturals.                                           *)
(***************************************************************************)
EXTENDS DataCache, TLAPS, WellFoundedInduction

-----------------------------------------------------------------------------
(* Induction and recursion over an interval.                               *)

\* Every set of naturals that is not empty has a least element.
LEMMA LeastElement ==
    ASSUME NEW T \in SUBSET Nat, T # {}
    PROVE  \E x \in T : \A y \in T : x <= y
<1> DEFINE R == OpToRel(<, Nat)
<1>1. \E x \in T : \A y \in T : ~ (<<y, x>> \in R)
  <2> HIDE DEF R
  <2> QED
    BY NatLessThanWellFounded, WFMin, Zenon DEF R
<1>2. \E x \in T : \A y \in T : ~ (y < x)
  BY <1>1, Zenon DEF OpToRel
<1> QED
  BY <1>2

\* A set that has the first integer of an interval, and with each the next, has
\* the whole interval.
LEMMA RangeInduction ==
    ASSUME NEW a \in Int, NEW z \in Int, NEW S,
           a \in S, \A i \in a .. z : i # a /\ i - 1 \in S => i \in S
    PROVE  a .. z \subseteq S
<1> DEFINE T == {n \in Nat : a + n \in (a .. z) \ S}
<1>1. SUFFICES ASSUME NEW k \in a .. z, k \notin S
               PROVE  FALSE
  OBVIOUS
<1>2. k - a \in T
  <2>1. k - a \in Nat /\ a + (k - a) = k
    OBVIOUS
  <2> QED
    BY <1>1, <2>1
<1>3. PICK n \in T : \A m \in T : n <= m
  BY <1>2, LeastElement
<1>4. n # 0 /\ n \in Nat /\ a + n \in a .. z /\ a + n \notin S
  BY <1>3
<1>5. n - 1 \notin T
  BY <1>3, <1>4
<1>6. a + (n - 1) \in S
  BY <1>4, <1>5
<1> QED
  BY <1>4, <1>6

\* There is a function on a .. z with the values that x and h prescribe.
Recursion(a, z, A, x, h) ==
    \E g \in [a .. z -> A] :
        g[a] = x /\ \A i \in a .. z : i # a => g[i] = h[<<g[i - 1], i>>]

\* There always is one, if h stays in A.
LEMMA RangeRecursion ==
    ASSUME NEW a \in Int, NEW z \in Int, a <= z, NEW A, NEW x \in A,
           NEW h \in [A \X (a .. z) -> A]
    PROVE  Recursion(a, z, A, x, h)
<1> DEFINE Upto(k, g) == g[a] = x /\ \A i \in a .. k : i # a => g[i] = h[<<g[i - 1], i>>]
           S == {k \in a .. z : \E g \in [a .. k -> A] : Upto(k, g)}
<1>1. a \in S
  <2> DEFINE f == [i \in a .. a |-> x]
  <2>1. f \in [a .. a -> A] /\ f[a] = x /\ \A i \in a .. a : i = a
    OBVIOUS
  <2>2. Upto(a, f)
    BY <2>1
  <2> HIDE DEF f, Upto
  <2> QED
    BY <2>1, <2>2
<1>2. ASSUME NEW k \in a .. z, k # a, k - 1 \in S
      PROVE  k \in S
  <2>1. PICK g \in [a .. k - 1 -> A] : Upto(k - 1, g)
    BY <1>2
  <2> DEFINE f == [i \in a .. k |-> IF i = k THEN h[<<g[k - 1], k>>] ELSE g[i]]
  <2>2. k - 1 \in a .. z /\ k - 1 \in a .. k - 1 /\ a \in a .. k - 1 /\ k \in a .. z /\ k \in a .. k
    BY <1>2
  <2>3. h[<<g[k - 1], k>>] \in A
    BY <2>2
  <2>4. f \in [a .. k -> A]
    BY <2>3
  <2>5. \A i \in a .. k - 1 : f[i] = g[i]
    OBVIOUS
  <2>6. f[k] = h[<<f[k - 1], k>>]
    <3>1. f[k] = h[<<g[k - 1], k>>]
      BY <2>2
    <3> HIDE DEF f
    <3> QED
      BY <2>2, <2>5, <3>1
  <2> HIDE DEF f
  <2>7. ASSUME NEW i \in a .. k, i # a
        PROVE  f[i] = h[<<f[i - 1], i>>]
    <3>1. CASE i = k
      BY <2>6, <3>1
    <3>2. CASE i # k
      <4>1. i \in a .. k - 1 /\ i - 1 \in a .. k - 1
        BY <2>7, <3>2
      <4>2. g[i] = h[<<g[i - 1], i>>]
        BY <2>1, <2>7, <4>1
      <4> QED
        BY <2>5, <4>1, <4>2
    <3> QED
      BY <3>1, <3>2
  <2>8. Upto(k, f)
    BY <2>1, <2>2, <2>5, <2>7
  <2> HIDE DEF Upto
  <2> QED
    BY <2>2, <2>4, <2>8
<1>3. z \in S
  <2> HIDE DEF S
  <2> QED
    BY <1>1, <1>2, RangeInduction
<1> QED
  BY <1>3 DEF Recursion

-----------------------------------------------------------------------------
(* The pass of EnforceRange.                                               *)

\* What a list of ranges has, and what the pass over it carries along.
RangeType == [b : Offsets, e : 1 .. PageSize]
Passes == [b : Offsets, e : 1 .. PageSize, list : Seq(RangeType), at : Nat \cup {None},
           done : BOOLEAN]

\* One visit keeps the types.
LEMMA VisitPasses ==
    ASSUME NEW acc \in Passes, NEW r \in RangeType
    PROVE  Visit(acc, r) \in Passes
<1>1. Append(acc.list, r) \in Seq(RangeType) /\ Len(acc.list) \in Nat
  BY DEF Passes
<1>2. Keep(acc, r) \in Passes /\ [Keep(acc, r) EXCEPT !.done = TRUE] \in Passes
  BY <1>1 DEF Keep, Passes
<1>3. ASSUME NEW b \in Offsets, NEW e \in 1 .. PageSize
      PROVE  Kill(acc, b, e) \in Passes
  BY <1>1 DEF Kill, Passes
<1> QED
  BY <1>2, <1>3 DEF Visit, Passes, RangeType

\* Pass is the function that its definition describes.
LEMMA PassRecursion ==
    ASSUME NEW list \in Seq(RangeType), NEW b \in Offsets, NEW e \in 1 .. PageSize
    PROVE  /\ Pass(list, b, e) \in [0 .. Len(list) -> Passes]
           /\ Pass(list, b, e)[0] =
                 [b |-> b, e |-> e, list |-> <<>>, at |-> None, done |-> FALSE]
           /\ \A i \in 1 .. Len(list) :
                 Pass(list, b, e)[i] = Visit(Pass(list, b, e)[i - 1], list[i])
<1> DEFINE n == Len(list)
           x == [b |-> b, e |-> e, list |-> <<>>, at |-> None, done |-> FALSE]
           h == [p \in Passes \X (0 .. n) |->
                    IF p[2] = 0 THEN x ELSE Visit(p[1], list[p[2]])]
           D(g) == [i \in 0 .. n |-> IF i = 0 THEN x ELSE Visit(g[i - 1], list[i])]
<1>1. x \in Passes /\ n \in Nat
  BY DEF Passes
<1>2. h \in [Passes \X (0 .. n) -> Passes]
  <2> HIDE DEF x
  <2> SUFFICES ASSUME NEW p \in Passes \X (0 .. n)
               PROVE  (IF p[2] = 0 THEN x ELSE Visit(p[1], list[p[2]])) \in Passes
    OBVIOUS
  <2>1. CASE p[2] = 0
    BY <1>1, <2>1
  <2>2. CASE p[2] # 0
    <3>1. list[p[2]] \in RangeType /\ p[1] \in Passes
      BY <1>1, <2>2
    <3> QED
      BY <2>2, <3>1, VisitPasses
  <2> QED
    BY <2>1, <2>2
<1>3. \A i \in 1 .. n : \A a \in Passes : h[<<a, i>>] = Visit(a, list[i])
  BY <1>1
<1> HIDE DEF h, n, x
<1>4. PICK f \in [0 .. n -> Passes] :
          f[0] = x /\ \A i \in 0 .. n : i # 0 => f[i] = h[<<f[i - 1], i>>]
  <2> DEFINE lo == 0
  <2>1. lo \in Int /\ n \in Int /\ lo <= n /\ h \in [Passes \X (lo .. n) -> Passes] /\ x \in Passes
    BY <1>1, <1>2
  <2> HIDE DEF D, lo
  <2>2. Recursion(lo, n, Passes, x, h)
    BY <2>1, RangeRecursion
  <2> QED
    BY <2>2 DEF lo, Recursion
<1>5. \A i \in 1 .. n : f[i] = Visit(f[i - 1], list[i])
  BY <1>1, <1>3, <1>4
<1>6. f = D(f)
  BY <1>1, <1>4, <1>5
<1>7. Pass(list, b, e) = CHOOSE g : g = D(g)
  BY Zenon DEF Pass, n, x
<1> DEFINE g == Pass(list, b, e)
<1>8. g = D(g)
  <2> HIDE DEF D
  <2> QED
    BY <1>6, <1>7
<1> HIDE DEF g
<1>9. g[0] = x /\ \A i \in 1 .. n : g[i] = Visit(g[i - 1], list[i])
  BY <1>1, <1>8
<1> DEFINE S == {i \in 0 .. n : g[i] \in Passes}
<1>10. 0 \in S
  BY <1>1, <1>9
<1>11. ASSUME NEW i \in 0 .. n, i # 0, i - 1 \in S
       PROVE  i \in S
  <2>1. list[i] \in RangeType
    BY <1>1, <1>11 DEF n
  <2>2. g[i] = Visit(g[i - 1], list[i]) /\ g[i - 1] \in Passes
    BY <1>1, <1>9, <1>11
  <2> QED
    BY <2>1, <2>2, VisitPasses
<1>12. 0 .. n \subseteq S
  <2> HIDE DEF S
  <2> QED
    BY <1>1, <1>10, <1>11, RangeInduction, 0 \in Int, n \in Int
<1>13. g \in [0 .. n -> Passes]
  <2>1. \A i \in 0 .. n : g[i] \in Passes
    BY <1>12
  <2> QED
    BY <1>8, <2>1
<1> QED
  BY <1>9, <1>13 DEF g, n, x

\* Two ranges neither overlap nor touch; the ranges of a list do not.
Apart(r, q) == r.e < q.b \/ q.e < r.b
ApartList(list) ==
    \A i, j \in DOMAIN list :
        /\ list[i].b < list[i].e
        /\ i # j => Apart(list[i], list[j])

In(r, o) == r.b <= o /\ o < r.e

\* What holds of acc when the pass over list has visited i of its ranges.
PassInv(list, b, e, acc, i) ==
    /\ acc \in Passes
    /\ acc.b <= b /\ e <= acc.e /\ b < e
    /\ acc.at # None => acc.at <= Len(acc.list)
    /\ ApartList(acc.list)
    /\ \A j \in DOMAIN acc.list : \A k \in DOMAIN list : i < k => Apart(acc.list[j], list[k])
    /\ ~acc.done => \A j \in DOMAIN acc.list : Apart(acc.list[j], [b |-> acc.b, e |-> acc.e])
    /\ \A o \in Offsets :
          (b <= o /\ o < e) \/ (\E k \in DOMAIN list : k <= i /\ In(list[k], o)) <=>
             Covers(acc.list, o) \/ (~acc.done /\ acc.b <= o /\ o < acc.e)

\* A range that is apart from the others can be appended.
LEMMA KeepList ==
    ASSUME NEW list \in Seq(RangeType), NEW r \in RangeType, ApartList(list), r.b < r.e,
           \A j \in DOMAIN list : Apart(list[j], r)
    PROVE  /\ Append(list, r) \in Seq(RangeType)
           /\ ApartList(Append(list, r))
           /\ \A o \in Offsets : Covers(Append(list, r), o) <=> Covers(list, o) \/ In(r, o)
           /\ Len(Append(list, r)) = Len(list) + 1
           /\ DOMAIN Append(list, r) = 1 .. Len(list) + 1
           /\ DOMAIN list = 1 .. Len(list)
           /\ \A j \in DOMAIN list : Append(list, r)[j] = list[j]
           /\ Append(list, r)[Len(list) + 1] = r
<1> DEFINE l == Append(list, r)
           n == Len(list)
<1>1. /\ l \in Seq(RangeType) /\ Len(l) = n + 1 /\ DOMAIN l = 1 .. n + 1
      /\ DOMAIN list = 1 .. n /\ n \in Nat
      /\ \A j \in DOMAIN list : l[j] = list[j]
      /\ l[n + 1] = r
  OBVIOUS
<1> HIDE DEF l, n
<1>2. ApartList(l)
  <2> SUFFICES ASSUME NEW i \in 1 .. n + 1, NEW j \in 1 .. n + 1
               PROVE  l[i].b < l[i].e /\ (i # j => Apart(l[i], l[j]))
    BY <1>1 DEF ApartList
  <2>1. CASE i = n + 1
    BY <1>1, <2>1 DEF Apart
  <2>2. CASE i # n + 1
    BY <1>1, <2>2 DEF ApartList
  <2> QED
    BY <2>1, <2>2
<1>3. ASSUME NEW o \in Offsets
      PROVE  Covers(l, o) <=> Covers(list, o) \/ In(r, o)
  BY <1>1 DEF Covers, In
<1> QED
  BY <1>1, <1>2, <1>3 DEF l, n

\* A visit keeps PassInv: a range that dies is taken over by the needed one, and
\* what was apart from both is apart from their union.
LEMMA VisitPassInv ==
    ASSUME NEW list \in Seq(RangeType), ApartList(list), NEW b \in Offsets,
           NEW e \in 1 .. PageSize, NEW acc, NEW i \in DOMAIN list,
           PassInv(list, b, e, acc, i - 1)
    PROVE  PassInv(list, b, e, Visit(acc, list[i]), i)
<1> DEFINE r == list[i]
           v == Visit(acc, r)
<1>1. /\ r \in RangeType /\ r.b \in Int /\ r.e \in Int /\ r.b < r.e /\ i \in Int
      /\ \A o \in Offsets : o \in Int
  <2>1. r \in RangeType /\ i \in Int
    OBVIOUS
  <2>2. r.b < r.e
    BY DEF ApartList
  <2> QED
    BY <2>1, <2>2, DataCacheAssumption DEF RangeType, Offsets
<1>2. /\ acc \in Passes /\ acc.list \in Seq(RangeType) /\ acc.b \in Int /\ acc.e \in Int
      /\ acc.b < acc.e /\ acc.done \in BOOLEAN
      /\ b \in Int /\ e \in Int
  BY DataCacheAssumption DEF PassInv, Passes, Offsets
<1>3. \A j \in DOMAIN acc.list :
          /\ acc.list[j] \in RangeType
          /\ acc.list[j].b \in Int /\ acc.list[j].e \in Int /\ acc.list[j].b < acc.list[j].e
          /\ Apart(acc.list[j], r)
  <2> SUFFICES ASSUME NEW j \in DOMAIN acc.list
               PROVE  /\ acc.list[j] \in RangeType
                      /\ acc.list[j].b \in Int /\ acc.list[j].e \in Int
                      /\ acc.list[j].b < acc.list[j].e
                      /\ Apart(acc.list[j], r)
    OBVIOUS
  <2>1. acc.list[j] \in RangeType
    BY <1>2
  <2>2. acc.list[j].b < acc.list[j].e
    BY DEF PassInv, ApartList
  <2>3. i - 1 < i
    BY <1>1
  <2>4. Apart(acc.list[j], r)
    BY <2>3 DEF PassInv
  <2> QED
    BY <2>1, <2>2, <2>4, DataCacheAssumption DEF RangeType, Offsets
<1>4. \A k \in DOMAIN list : k \in Int /\ (k <= i <=> k <= i - 1 \/ k = i)
  OBVIOUS
<1>5. \A k \in DOMAIN list : i < k => Apart(r, list[k]) /\ i - 1 < k
  BY <1>4 DEF ApartList
<1>6. v \in Passes
  BY <1>1, <1>2, VisitPasses
<1> SUFFICES PassInv(list, b, e, v, i)
  OBVIOUS
<1> HIDE DEF r, v
<1>7. ASSUME v.list = Append(acc.list, r), v.b = acc.b, v.e = acc.e, v.at = acc.at,
             v.done \in BOOLEAN,
             v.done = FALSE => ~acc.done /\ Apart(r, [b |-> acc.b, e |-> acc.e]),
             v.done = TRUE => acc.done = TRUE \/ (r.b <= acc.b /\ acc.e <= r.e)
      PROVE  PassInv(list, b, e, v, i)
  <2>1. ApartList(acc.list)
    BY DEF PassInv
  <2>2. /\ v.list \in Seq(RangeType)
        /\ ApartList(v.list)
        /\ \A o \in Offsets : Covers(v.list, o) <=> Covers(acc.list, o) \/ In(r, o)
        /\ Len(v.list) = Len(acc.list) + 1
        /\ DOMAIN v.list = 1 .. Len(acc.list) + 1
        /\ DOMAIN acc.list = 1 .. Len(acc.list)
        /\ \A j \in DOMAIN acc.list : v.list[j] = acc.list[j]
        /\ v.list[Len(acc.list) + 1] = r
        /\ Len(acc.list) \in Nat
    BY <1>1, <1>2, <1>3, <1>7, <2>1, KeepList
  <2>3. v.at # None => v.at <= Len(v.list)
    BY <1>2, <1>7, <2>2 DEF PassInv, Passes
  <2>4. ASSUME NEW j \in DOMAIN v.list
        PROVE  /\ \A k \in DOMAIN list : i < k => Apart(v.list[j], list[k])
               /\ ~v.done => Apart(v.list[j], [b |-> v.b, e |-> v.e])
    <3>1. CASE j = Len(acc.list) + 1
      BY <1>5, <1>7, <2>2, <3>1
    <3>2. CASE j # Len(acc.list) + 1
      <4>1. j \in DOMAIN acc.list /\ v.list[j] = acc.list[j]
        BY <2>2, <3>2
      <4> QED
        BY <1>5, <1>7, <4>1 DEF PassInv
    <3> QED
      BY <3>1, <3>2
  <2>5. ASSUME NEW o \in Offsets
        PROVE  (b <= o /\ o < e) \/ (\E k \in DOMAIN list : k <= i /\ In(list[k], o)) <=>
                  Covers(v.list, o) \/ (~v.done /\ v.b <= o /\ o < v.e)
    <3>1. (\E k \in DOMAIN list : k <= i /\ In(list[k], o)) <=>
             (\E k \in DOMAIN list : k <= i - 1 /\ In(list[k], o)) \/ In(r, o)
      BY <1>4 DEF r
    <3>2. (b <= o /\ o < e) \/ (\E k \in DOMAIN list : k <= i - 1 /\ In(list[k], o)) <=>
             Covers(acc.list, o) \/ (~acc.done /\ acc.b <= o /\ o < acc.e)
      BY DEF PassInv
    <3>3. (acc.b <= o /\ o < acc.e) /\ r.b <= acc.b /\ acc.e <= r.e => In(r, o)
      BY <1>1, <1>2 DEF In
    <3> QED
      BY <1>2, <1>7, <2>2, <3>1, <3>2, <3>3
  <2>6. v.b <= b /\ e <= v.e /\ b < e
    BY <1>7 DEF PassInv
  <2> QED
    BY <1>6, <2>2, <2>3, <2>4, <2>5, <2>6 DEF PassInv
<1>8. ASSUME v.list = acc.list, ~acc.done, v.done = FALSE, v.at = Len(acc.list),
             v.b \in Int, v.e \in Int, v.b <= acc.b, acc.e <= v.e,
             \A o \in Int : v.b <= o /\ o < v.e <=> (acc.b <= o /\ o < acc.e) \/ In(r, o),
             v.b \in {acc.b, r.b}, v.e \in {acc.e, r.e}, r.b <= acc.e, acc.b <= r.e
      PROVE  PassInv(list, b, e, v, i)
  <2>1. ApartList(v.list) /\ v.b <= b /\ e <= v.e /\ b < e
    BY <1>2, <1>8 DEF PassInv
  <2>2. v.at # None => v.at <= Len(v.list)
    BY <1>2, <1>8
  <2>3. ASSUME NEW j \in DOMAIN v.list
        PROVE  /\ \A k \in DOMAIN list : i < k => Apart(v.list[j], list[k])
               /\ Apart(v.list[j], [b |-> v.b, e |-> v.e])
    <3>1. Apart(acc.list[j], [b |-> acc.b, e |-> acc.e]) /\ Apart(acc.list[j], r)
      BY <1>3, <1>8 DEF PassInv
    <3>2. /\ acc.list[j].b \in Int /\ acc.list[j].e \in Int /\ acc.list[j].b < acc.list[j].e
          /\ v.list[j] = acc.list[j]
      BY <1>3, <1>8
    <3>3. /\ acc.list[j].e < acc.b \/ acc.e < acc.list[j].b
          /\ acc.list[j].e < r.b \/ r.e < acc.list[j].b
      BY <3>1 DEF Apart
    <3>4. acc.list[j].e < v.b \/ v.e < acc.list[j].b
      <4>1. /\ v.b = acc.b \/ v.b = r.b
            /\ v.e = acc.e \/ v.e = r.e
            /\ r.b <= acc.e /\ acc.b <= r.e
        BY <1>8
      <4>2. /\ r.b \in Int /\ r.e \in Int /\ acc.b \in Int /\ acc.e \in Int
            /\ r.b < r.e /\ acc.b < acc.e
        BY <1>1, <1>2
      <4>3. CASE acc.list[j].e < acc.b /\ acc.list[j].e < r.b
        BY <4>1, <4>3
      <4>4. CASE acc.e < acc.list[j].b /\ r.e < acc.list[j].b
        BY <4>1, <4>4
      <4>5. CASE acc.list[j].e < acc.b /\ r.e < acc.list[j].b
        BY <3>2, <4>1, <4>2, <4>5
      <4>6. CASE acc.e < acc.list[j].b /\ acc.list[j].e < r.b
        BY <3>2, <4>1, <4>2, <4>6
      <4> QED
        BY <3>3, <4>3, <4>4, <4>5, <4>6
    <3>5. Apart(v.list[j], [b |-> v.b, e |-> v.e])
      BY <3>2, <3>4 DEF Apart
    <3> QED
      BY <1>5, <1>8, <3>5 DEF PassInv
  <2>4. ASSUME NEW o \in Offsets
        PROVE  (b <= o /\ o < e) \/ (\E k \in DOMAIN list : k <= i /\ In(list[k], o)) <=>
                  Covers(v.list, o) \/ (~v.done /\ v.b <= o /\ o < v.e)
    <3>1. (\E k \in DOMAIN list : k <= i /\ In(list[k], o)) <=>
             (\E k \in DOMAIN list : k <= i - 1 /\ In(list[k], o)) \/ In(r, o)
      BY <1>4 DEF r
    <3>2. (b <= o /\ o < e) \/ (\E k \in DOMAIN list : k <= i - 1 /\ In(list[k], o)) <=>
             Covers(acc.list, o) \/ (~acc.done /\ acc.b <= o /\ o < acc.e)
      BY DEF PassInv
    <3>3. v.b <= o /\ o < v.e <=> (acc.b <= o /\ o < acc.e) \/ In(r, o)
      BY <1>1, <1>8
    <3> QED
      BY <1>8, <3>1, <3>2, <3>3
  <2> QED
    BY <1>6, <1>8, <2>1, <2>2, <2>3, <2>4 DEF PassInv
<1>9. CASE acc.done
  <2>1. v = Keep(acc, r)
    BY <1>9 DEF v, Visit
  <2>2. v.list = Append(acc.list, r) /\ v.b = acc.b /\ v.e = acc.e /\ v.at = acc.at /\ v.done = TRUE
    BY <1>2, <1>9, <2>1 DEF Keep, Passes
  <2> QED
    BY <1>7, <1>9, <2>2
<1>10. CASE ~acc.done /\ r.b <= acc.b /\ r.e >= acc.e
  <2>1. v = [Keep(acc, r) EXCEPT !.done = TRUE]
    BY <1>10 DEF v, Visit
  <2>2. v.list = Append(acc.list, r) /\ v.b = acc.b /\ v.e = acc.e /\ v.at = acc.at /\ v.done = TRUE
    BY <1>2, <2>1 DEF Keep, Passes
  <2> QED
    BY <1>7, <1>10, <2>2
<1>11. ASSUME NEW vb \in Int, NEW ve \in Int, v = Kill(acc, vb, ve), ~acc.done,
              vb \in {acc.b, r.b}, ve \in {acc.e, r.e}, vb <= acc.b, acc.e <= ve,
              vb <= r.b, r.e <= ve, r.b <= acc.e, acc.b <= r.e
       PROVE  PassInv(list, b, e, v, i)
  <2>1. /\ v.list = acc.list /\ v.done = FALSE /\ v.at = Len(acc.list)
        /\ v.b = vb /\ v.e = ve
    BY <1>2, <1>11 DEF Kill, Passes
  <2>2. \A o \in Int : v.b <= o /\ o < v.e <=> (acc.b <= o /\ o < acc.e) \/ In(r, o)
    BY <1>1, <1>2, <1>11, <2>1 DEF In
  <2> QED
    BY <1>8, <1>11, <2>1, <2>2
<1>12. CASE ~acc.done /\ ~(r.b <= acc.b /\ r.e >= acc.e)
  <2>1. CASE r.b >= acc.b /\ r.e <= acc.e
    <3>1. v = Kill(acc, acc.b, acc.e)
      BY <1>12, <2>1 DEF v, Visit
    <3> QED
      BY <1>1, <1>2, <1>11, <1>12, <2>1, <3>1
  <2>2. CASE ~(r.b >= acc.b /\ r.e <= acc.e) /\ r.b <= acc.b /\ r.e >= acc.b
    <3>1. v = Kill(acc, r.b, acc.e)
      BY <1>12, <2>2 DEF v, Visit
    <3> QED
      BY <1>1, <1>2, <1>11, <1>12, <2>2, <3>1
  <2>3. CASE /\ ~(r.b >= acc.b /\ r.e <= acc.e) /\ ~(r.b <= acc.b /\ r.e >= acc.b)
             /\ r.b <= acc.e /\ r.e >= acc.e
    <3>1. v = Kill(acc, acc.b, r.e)
      BY <1>12, <2>3 DEF v, Visit
    <3> QED
      BY <1>1, <1>2, <1>11, <1>12, <2>3, <3>1
  <2>4. CASE /\ ~(r.b >= acc.b /\ r.e <= acc.e) /\ ~(r.b <= acc.b /\ r.e >= acc.b)
             /\ ~(r.b <= acc.e /\ r.e >= acc.e)
    <3>1. v = Keep(acc, r)
      BY <1>12, <2>4 DEF v, Visit
    <3>2. Apart(r, [b |-> acc.b, e |-> acc.e])
      BY <1>1, <1>2, <1>12, <2>4 DEF Apart
    <3>3. /\ v.list = Append(acc.list, r) /\ v.b = acc.b /\ v.e = acc.e
          /\ v.at = acc.at /\ v.done = FALSE
      BY <1>2, <1>12, <3>1 DEF Keep, Passes
    <3> QED
      BY <1>7, <1>12, <3>2, <3>3
  <2> QED
    BY <2>1, <2>2, <2>3, <2>4
<1> QED
  BY <1>2, <1>9, <1>10, <1>12 DEF v, r

\* So it holds at the end of the pass.
LEMMA PassHolds ==
    ASSUME NEW list \in Seq(RangeType), ApartList(list), NEW b \in Offsets,
           NEW e \in 1 .. PageSize, b < e
    PROVE  PassInv(list, b, e, Pass(list, b, e)[Len(list)], Len(list))
<1> DEFINE n == Len(list)
           g == Pass(list, b, e)
           S == {i \in 0 .. n : PassInv(list, b, e, g[i], i)}
<1>1. /\ n \in Nat /\ g \in [0 .. n -> Passes]
      /\ g[0] = [b |-> b, e |-> e, list |-> <<>>, at |-> None, done |-> FALSE]
      /\ \A i \in 1 .. n : g[i] = Visit(g[i - 1], list[i])
  BY PassRecursion
<1> HIDE DEF g, n
<1>0. 0 \in 0 .. n /\ 0 \in Int /\ n \in Int
  BY <1>1
<1>2. 0 \in S
  <2>1. /\ g[0] \in Passes /\ g[0].list = <<>> /\ g[0].b = b /\ g[0].e = e
        /\ g[0].done = FALSE /\ g[0].at = None
    <3>1. g[0] \in Passes
      BY <1>0, <1>1
    <3> QED
      BY <1>1, <3>1
  <2>2. DOMAIN g[0].list = {} /\ b \in Int /\ e \in Int
    BY <2>1, DataCacheAssumption DEF Offsets
  <2>3. \A k \in DOMAIN list : ~(k <= 0)
    OBVIOUS
  <2>4. ApartList(g[0].list) /\ \A o \in Offsets : ~Covers(g[0].list, o)
    BY <2>2 DEF ApartList, Covers
  <2>5. PassInv(list, b, e, g[0], 0)
    BY <2>1, <2>2, <2>3, <2>4 DEF PassInv
  <2> QED
    BY <1>0, <2>5
<1>3. ASSUME NEW i \in 0 .. n, i # 0, i - 1 \in S
      PROVE  i \in S
  <2>1. i \in 1 .. n /\ i \in DOMAIN list
    BY <1>1, <1>3 DEF n
  <2>2. PassInv(list, b, e, g[i - 1], i - 1)
    BY <1>3
  <2>3. PassInv(list, b, e, Visit(g[i - 1], list[i]), i)
    BY <2>1, <2>2, VisitPassInv
  <2> QED
    BY <1>1, <2>1, <2>3
<1>4. 0 .. n \subseteq S
  <2> HIDE DEF S
  <2> QED
    BY <1>0, <1>2, <1>3, RangeInduction
<1>5. n \in 0 .. n
  BY <1>1
<1> QED
  BY <1>4, <1>5 DEF g, n

\* The needed range, apart from all that are left, can be put anywhere.
LEMMA InsertedList ==
    ASSUME NEW list \in Seq(RangeType), NEW r \in RangeType, NEW at \in 0 .. Len(list),
           ApartList(list), r.b < r.e, \A j \in DOMAIN list : Apart(list[j], r)
    PROVE  /\ Inserted(list, at, r) \in Seq(RangeType)
           /\ ApartList(Inserted(list, at, r))
           /\ \A o \in Offsets : Covers(Inserted(list, at, r), o) <=> Covers(list, o) \/ In(r, o)
<1> DEFINE l == Inserted(list, at, r)
           n == Len(list)
           from(i) == IF i <= at THEN i ELSE i - 1
<1>1. n \in Nat /\ DOMAIN list = 1 .. n /\ at \in 0 .. n
  OBVIOUS
<1>2. /\ DOMAIN l = 1 .. n + 1
      /\ l[at + 1] = r
      /\ \A i \in 1 .. n + 1 : i # at + 1 =>
            l[i] = list[from(i)] /\ from(i) \in DOMAIN list
      /\ \A i, j \in 1 .. n + 1 : i # at + 1 /\ j # at + 1 /\ i # j => from(i) # from(j)
      /\ \A k \in DOMAIN list : \E i \in 1 .. n + 1 : i # at + 1 /\ from(i) = k
  <2>1. DOMAIN l = 1 .. n + 1 /\ l[at + 1] = r
    BY <1>1 DEF Inserted
  <2>2. ASSUME NEW i \in 1 .. n + 1, i # at + 1
        PROVE  l[i] = list[from(i)] /\ from(i) \in DOMAIN list
    BY <1>1, <2>2 DEF Inserted
  <2>3. ASSUME NEW i \in 1 .. n + 1, NEW j \in 1 .. n + 1, i # at + 1, j # at + 1, i # j
        PROVE  from(i) # from(j)
    BY <1>1, <2>3
  <2>4. ASSUME NEW k \in DOMAIN list
        PROVE  \E i \in 1 .. n + 1 : i # at + 1 /\ from(i) = k
    <3>1. CASE k <= at
      BY <1>1, <3>1
    <3>2. CASE k > at
      <4>1. k + 1 \in 1 .. n + 1 /\ k + 1 # at + 1 /\ from(k + 1) = k
        BY <1>1, <3>2
      <4> QED
        BY <4>1
    <3> QED
      BY <1>1, <3>1, <3>2
  <2> HIDE DEF l, n, from
  <2> QED
    BY <2>1, <2>2, <2>3, <2>4
<1>3. at + 1 \in 1 .. n + 1
  BY <1>1
<1> HIDE DEF l, n, from
<1>4. \A i \in 1 .. n + 1 : l[i] \in RangeType
  <2> SUFFICES ASSUME NEW i \in 1 .. n + 1
               PROVE  l[i] \in RangeType
    OBVIOUS
  <2>1. CASE i = at + 1
    BY <1>2, <2>1
  <2>2. CASE i # at + 1
    BY <1>2, <2>2
  <2> QED
    BY <2>1, <2>2
<1>5. l \in Seq(RangeType)
  <2>1. l = [i \in 1 .. n + 1 |-> l[i]]
    BY <1>1, <1>2 DEF l, Inserted, n
  <2>2. n + 1 \in Nat
    BY <1>1
  <2> QED
    BY <1>4, <2>1, <2>2
<1>6. ApartList(l)
  <2> SUFFICES ASSUME NEW i \in 1 .. n + 1, NEW j \in 1 .. n + 1
               PROVE  l[i].b < l[i].e /\ (i # j => Apart(l[i], l[j]))
    BY <1>2 DEF ApartList
  <2>1. CASE i = at + 1 /\ j = at + 1
    BY <1>2, <2>1
  <2>2. CASE i = at + 1 /\ j # at + 1
    BY <1>2, <2>2 DEF Apart
  <2>3. CASE i # at + 1 /\ j = at + 1
    BY <1>2, <2>3 DEF ApartList
  <2>4. CASE i # at + 1 /\ j # at + 1
    BY <1>2, <2>4 DEF ApartList
  <2> QED
    BY <2>1, <2>2, <2>3, <2>4
<1>7. ASSUME NEW o \in Offsets
      PROVE  Covers(l, o) <=> Covers(list, o) \/ In(r, o)
  <2>1. ASSUME Covers(l, o)
        PROVE  Covers(list, o) \/ In(r, o)
    <3>1. PICK i \in 1 .. n + 1 : In(l[i], o)
      BY <1>2, <2>1 DEF Covers, In
    <3>2. CASE i = at + 1
      BY <1>2, <3>1, <3>2
    <3>3. CASE i # at + 1
      BY <1>2, <3>1, <3>3 DEF Covers, In
    <3> QED
      BY <3>2, <3>3
  <2>2. ASSUME Covers(list, o)
        PROVE  Covers(l, o)
    <3>1. PICK k \in DOMAIN list : In(list[k], o)
      BY <2>2 DEF Covers, In
    <3>2. PICK i \in 1 .. n + 1 : i # at + 1 /\ from(i) = k
      BY <1>2
    <3> QED
      BY <1>2, <3>1, <3>2 DEF Covers, In
  <2>3. In(r, o) => Covers(l, o)
    BY <1>2, <1>3 DEF Covers, In
  <2> QED
    BY <2>1, <2>2, <2>3
<1> QED
  BY <1>5, <1>6, <1>7 DEF l

\* EnforceRange adds the range that it is given and keeps the ranges apart.
LEMMA EnforceRangeCorrect ==
    ASSUME NEW list \in Seq(RangeType), ApartList(list), NEW b \in Offsets,
           NEW e \in 1 .. PageSize, b < e
    PROVE  /\ EnforceRange(list, b, e) \in Seq(RangeType)
           /\ ApartList(EnforceRange(list, b, e))
           /\ \A o \in Offsets :
                 Covers(EnforceRange(list, b, e), o) <=> Covers(list, o) \/ (b <= o /\ o < e)
<1> DEFINE acc == Pass(list, b, e)[Len(list)]
           r == PageRange(acc.b, acc.e)
           at == IF acc.at = None THEN Len(acc.list) ELSE acc.at
<1>1. PassInv(list, b, e, acc, Len(list))
  BY PassHolds
<1>2. EnforceRange(list, b, e) = IF acc.done THEN acc.list ELSE Inserted(acc.list, at, r)
  BY DEF EnforceRange
<1> HIDE DEF acc
<1>3. /\ acc \in Passes /\ acc.list \in Seq(RangeType) /\ ApartList(acc.list)
      /\ acc.done \in BOOLEAN
  BY <1>1 DEF PassInv, Passes
<1>4. ASSUME NEW o \in Offsets
      PROVE  (\E k \in DOMAIN list : k <= Len(list) /\ In(list[k], o)) <=> Covers(list, o)
  <2>1. \A k \in DOMAIN list : k <= Len(list)
    OBVIOUS
  <2> QED
    BY <2>1 DEF Covers, In
<1>5. \A o \in Offsets : (b <= o /\ o < e) \/ Covers(list, o) <=>
             Covers(acc.list, o) \/ (~acc.done /\ acc.b <= o /\ o < acc.e)
  BY <1>1, <1>4 DEF PassInv
<1>6. CASE acc.done
  BY <1>2, <1>3, <1>5, <1>6
<1>7. CASE ~acc.done
  <2>1. /\ r \in RangeType /\ r = [b |-> acc.b, e |-> acc.e] /\ r.b = acc.b /\ r.e = acc.e
    BY <1>3 DEF Passes, RangeType, PageRange
  <2>2. r.b < r.e
    BY <1>1, <2>1, DataCacheAssumption DEF PassInv, Passes, Offsets
  <2>3. at \in 0 .. Len(acc.list)
    BY <1>1, <1>3 DEF PassInv, Passes
  <2>4. \A j \in DOMAIN acc.list : Apart(acc.list[j], r)
    BY <1>1, <1>7, <2>1 DEF PassInv
  <2> HIDE DEF r, at
  <2>5. /\ Inserted(acc.list, at, r) \in Seq(RangeType)
        /\ ApartList(Inserted(acc.list, at, r))
        /\ \A o \in Offsets :
              Covers(Inserted(acc.list, at, r), o) <=> Covers(acc.list, o) \/ In(r, o)
    BY <1>3, <2>1, <2>2, <2>3, <2>4, InsertedList
  <2>6. \A o \in Offsets : In(r, o) <=> acc.b <= o /\ o < acc.e
    BY <2>1 DEF In
  <2> QED
    BY <1>2, <1>5, <1>7, <2>5, <2>6
<1> QED
  BY <1>3, <1>6, <1>7

\* HaveRange gives all there is from b on, and no more.
LEMMA HaveRangeCorrect ==
    ASSUME NEW list \in Seq(RangeType), ApartList(list), NEW b \in Offsets,
           NEW e \in 1 .. PageSize, b < e
    PROVE  /\ HaveRange(list, b, e) \in 0 .. e - b
           /\ \A o \in b .. b + HaveRange(list, b, e) - 1 : Covers(list, o)
           /\ HaveRange(list, b, e) # e - b => ~Covers(list, b + HaveRange(list, b, e))
<1> DEFINE hits == {i \in DOMAIN list : list[i].b <= b /\ list[i].e > b}
           first == CHOOSE i \in hits : \A j \in hits : i <= j
<1>0. b \in Int /\ e \in Int
  BY DataCacheAssumption DEF Offsets
<1>1. ASSUME NEW i \in DOMAIN list
      PROVE  /\ list[i] \in RangeType /\ list[i].b \in Int /\ list[i].e \in Int
             /\ list[i].b < list[i].e /\ i \in Int
  <2>1. list[i] \in RangeType /\ i \in Int
    OBVIOUS
  <2> QED
    BY <2>1, DataCacheAssumption DEF ApartList, RangeType, Offsets
<1>2. CASE hits = {}
  <2>1. HaveRange(list, b, e) = 0
    BY <1>2 DEF HaveRange
  <2>2. ~Covers(list, b)
    BY <1>0, <1>1, <1>2 DEF Covers
  <2> QED
    BY <1>0, <2>1, <2>2
<1>3. CASE hits # {}
  <2>1. \A i, j \in hits : i = j
    BY <1>0, <1>1 DEF ApartList, Apart
  <2>2. first \in hits
    BY <1>1, <1>3, <2>1
  <2>3. HaveRange(list, b, e) = IF e > list[first].e THEN list[first].e - b ELSE e - b
    BY <1>3 DEF HaveRange
  <2> HIDE DEF first
  <2>4. /\ first \in DOMAIN list /\ list[first].b <= b /\ list[first].e > b
        /\ list[first].b \in Int /\ list[first].e \in Int
    BY <1>1, <2>2
  <2>5. HaveRange(list, b, e) \in 0 .. e - b
    BY <1>0, <2>3, <2>4
  <2>6. \A o \in b .. b + HaveRange(list, b, e) - 1 : Covers(list, o)
    <3> SUFFICES ASSUME NEW o \in b .. b + HaveRange(list, b, e) - 1
                 PROVE  list[first].b <= o /\ o < list[first].e
      BY <2>4 DEF Covers
    <3> QED
      BY <1>0, <2>3, <2>4, <2>5
  <2>7. ASSUME HaveRange(list, b, e) # e - b
        PROVE  ~Covers(list, b + HaveRange(list, b, e))
    <3>1. b + HaveRange(list, b, e) = list[first].e
      BY <1>0, <2>3, <2>4, <2>7
    <3>2. SUFFICES ASSUME NEW i \in DOMAIN list, list[i].b <= list[first].e,
                          list[first].e < list[i].e
                   PROVE  FALSE
      BY <3>1 DEF Covers
    <3> QED
      BY <1>1, <2>4, <3>2 DEF ApartList, Apart
  <2> QED
    BY <2>5, <2>6, <2>7
<1> QED
  BY <1>2, <1>3

-----------------------------------------------------------------------------
(* The storage file and its pages.                                         *)

\* The states of a cache that a call works on.
Stores == [capacity : 0 .. MaxPages,
           storage : [Pages -> [Offsets -> Positions \cup {Stale}]],
           page : [Segs -> Pages \cup {NoPage}],
           ranges : [Segs -> Seq(RangeType)],
           lastRead : [Segs -> 0 .. MaxTick]]

\* PagesAreExclusive and RangesApart, of a state within a call.
Exclusive(st) ==
    \A s, t \in Segs : st.page[s] # NoPage =>
        st.page[s] < st.capacity /\ (st.page[s] = st.page[t] => s = t)

Good(st) == st \in Stores /\ Exclusive(st) /\ \A s \in Segs : ApartList(st.ranges[s])

\* What st gives for the byte at offset o of segment s.
Byte(st, s, o) ==
    IF st.page[s] # NoPage /\ Covers(st.ranges[s], o) THEN st.storage[st.page[s]][o] ELSE None

\* All that sp has of a byte it has from st.
Fewer(st, sp, s, o) == Byte(sp, s, o) \in {None, Byte(st, s, o)}

\* If a page is in use, there is an oldest one.
LEMMA OldestExists ==
    ASSUME NEW st \in Stores, \E t \in Segs : st.page[t] # NoPage
    PROVE  Oldest(st) \in Segs /\ st.page[Oldest(st)] # NoPage
<1> DEFINE H == {s \in Segs : st.page[s] # NoPage}
           T == {st.lastRead[s] : s \in H}
<1>1. Segs \subseteq Nat /\ \A s \in Segs : st.lastRead[s] \in Nat
  BY DataCacheAssumption DEF Segs, Stores
<1>2. T \in SUBSET Nat /\ T # {}
  BY <1>1
<1>3. PICK m \in T : \A x \in T : m <= x
  BY <1>2, LeastElement
<1> DEFINE U == {s \in H : st.lastRead[s] = m}
<1>4. U \in SUBSET Nat /\ U # {}
  BY <1>1, <1>3
<1>5. PICK s \in U : \A t \in U : s <= t
  BY <1>4, LeastElement
<1>6. \A t \in Segs : st.page[t] # NoPage =>
          st.lastRead[s] < st.lastRead[t] \/ (st.lastRead[s] = st.lastRead[t] /\ s <= t)
  <2> SUFFICES ASSUME NEW t \in H
               PROVE  st.lastRead[s] < st.lastRead[t]
                         \/ (st.lastRead[s] = st.lastRead[t] /\ s <= t)
    OBVIOUS
  <2>1. m <= st.lastRead[t] /\ st.lastRead[s] = m /\ m \in Nat /\ st.lastRead[t] \in Nat
    BY <1>1, <1>3, <1>5
  <2>2. CASE st.lastRead[t] = m
    BY <1>5, <2>1, <2>2
  <2> QED
    BY <2>1, <2>2
<1>7. s \in Segs /\ st.page[s] # NoPage
  BY <1>5
<1> QED
  BY <1>6, <1>7 DEF Oldest

\* A page that nobody has can be given to a segment that has none.
LEMMA NewPageGood ==
    ASSUME NEW st, Good(st), NEW s \in Segs, st.page[s] = NoPage,
           NEW g \in Pages, NEW c \in 0 .. MaxPages, clock \in 0 .. MaxTick,
           st.capacity <= c, g < c, \A t \in Segs : st.page[t] # g
    PROVE  LET sp == [Assign(st, s, g) EXCEPT !.capacity = c] IN
           /\ Good(sp) /\ sp.ranges[s] = <<>>
           /\ \A t \in Segs, o \in Offsets : Fewer(st, sp, t, o)
<1> DEFINE sp == [Assign(st, s, g) EXCEPT !.capacity = c]
<1>1. /\ st \in Stores /\ Exclusive(st) /\ \A t \in Segs : ApartList(st.ranges[t])
      /\ st.capacity \in Int /\ c \in Int
      /\ \A p \in Pages : p \in Int
      /\ NoPage \notin Pages
  BY DataCacheAssumption DEF Good, Stores, Pages, NoPage
<1>2. /\ sp.capacity = c
      /\ sp.page = [st.page EXCEPT ![s] = g]
      /\ sp.ranges = [st.ranges EXCEPT ![s] = <<>>]
      /\ sp.lastRead = [st.lastRead EXCEPT ![s] = clock]
      /\ sp.storage = [st.storage EXCEPT ![g] = [o \in Offsets |-> Stale]]
  BY <1>1 DEF Assign, Stores
<1> HIDE DEF sp
<1>3. /\ sp.page[s] = g /\ sp.ranges[s] = <<>>
      /\ \A t \in Segs \ {s} : sp.page[t] = st.page[t] /\ sp.ranges[t] = st.ranges[t]
      /\ \A p \in Pages \ {g} : sp.storage[p] = st.storage[p]
  BY <1>1, <1>2 DEF Stores
<1>4. sp \in Stores
  <2>1. sp.page \in [Segs -> Pages \cup {NoPage}] /\ sp.lastRead \in [Segs -> 0 .. MaxTick]
    BY <1>1, <1>2 DEF Stores
  <2>2. sp.ranges \in [Segs -> Seq(RangeType)]
    BY <1>1, <1>2 DEF Stores
  <2>3. sp.storage \in [Pages -> [Offsets -> Positions \cup {Stale}]]
    BY <1>1, <1>2 DEF Stores
  <2>4. sp.capacity \in 0 .. MaxPages
    BY <1>2
  <2> QED
    BY <1>1, <1>2, <2>1, <2>2, <2>3, <2>4 DEF Stores, sp, Assign
<1>5. Exclusive(sp)
  <2> SUFFICES ASSUME NEW t \in Segs, NEW u \in Segs, sp.page[t] # NoPage
               PROVE  sp.page[t] < sp.capacity /\ (sp.page[t] = sp.page[u] => t = u)
    BY DEF Exclusive
  <2>1. CASE t = s
    BY <1>2, <1>3, <2>1
  <2>2. CASE t # s
    <3>1. sp.page[t] = st.page[t] /\ st.page[t] \in Pages /\ st.page[t] < st.capacity
      BY <1>1, <1>3, <2>2 DEF Exclusive, Stores
    <3>2. sp.page[t] < sp.capacity
      BY <1>1, <1>2, <3>1
    <3>3. sp.page[t] = sp.page[u] => t = u
      BY <1>1, <1>3, <2>2, <3>1 DEF Exclusive
    <3> QED
      BY <3>2, <3>3
  <2> QED
    BY <2>1, <2>2
<1>6. \A t \in Segs : ApartList(sp.ranges[t])
  <2>1. ApartList(<<>>)
    BY DEF ApartList
  <2> QED
    BY <1>1, <1>3, <2>1
<1>7. \A t \in Segs, o \in Offsets : Fewer(st, sp, t, o)
  <2> SUFFICES ASSUME NEW t \in Segs, NEW o \in Offsets
               PROVE  Fewer(st, sp, t, o)
    OBVIOUS
  <2>1. CASE t = s
    BY <1>3, <2>1 DEF Fewer, Byte, Covers
  <2>2. CASE t # s
    <3>1. sp.page[t] = st.page[t] /\ sp.ranges[t] = st.ranges[t]
      BY <1>3, <2>2
    <3>2. CASE st.page[t] = NoPage
      BY <3>1, <3>2 DEF Fewer, Byte
    <3>3. CASE st.page[t] # NoPage
      <4>1. st.page[t] \in Pages \ {g}
        BY <1>1, <3>3 DEF Stores
      <4> QED
        BY <1>3, <3>1, <4>1 DEF Fewer, Byte
    <3> QED
      BY <3>2, <3>3
  <2> QED
    BY <2>1, <2>2
<1> QED
  BY <1>3, <1>4, <1>5, <1>6, <1>7 DEF Good, sp

\* A segment can lose its page.
LEMMA FreeGood ==
    ASSUME NEW st, Good(st), NEW s \in Segs
    PROVE  /\ Good(Free(st, s))
           /\ Free(st, s).capacity = st.capacity
           /\ Free(st, s).page[s] = NoPage
           /\ \A t \in Segs \ {s} : Free(st, s).page[t] = st.page[t]
           /\ \A t \in Segs, o \in Offsets : Fewer(st, Free(st, s), t, o)
<1> DEFINE sp == Free(st, s)
<1>1. st \in Stores /\ Exclusive(st) /\ \A t \in Segs : ApartList(st.ranges[t])
  BY DEF Good
<1>2. /\ sp.capacity = st.capacity /\ sp.storage = st.storage
      /\ sp.page = [st.page EXCEPT ![s] = NoPage]
      /\ sp.ranges = [st.ranges EXCEPT ![s] = <<>>]
      /\ sp.lastRead = [st.lastRead EXCEPT ![s] = 0]
  BY <1>1 DEF Free, Stores
<1> HIDE DEF sp
<1>3. /\ sp.page[s] = NoPage /\ sp.ranges[s] = <<>>
      /\ \A t \in Segs \ {s} : sp.page[t] = st.page[t] /\ sp.ranges[t] = st.ranges[t]
  BY <1>1, <1>2 DEF Stores
<1>4. sp \in Stores
  <2>1. sp.page \in [Segs -> Pages \cup {NoPage}] /\ sp.lastRead \in [Segs -> 0 .. MaxTick]
    BY <1>1, <1>2, DataCacheAssumption DEF Stores
  <2>2. sp.ranges \in [Segs -> Seq(RangeType)]
    BY <1>1, <1>2 DEF Stores
  <2> QED
    BY <1>1, <1>2, <2>1, <2>2 DEF Stores, sp, Free
<1>5. Exclusive(sp)
  BY <1>1, <1>2, <1>3 DEF Exclusive
<1>6. \A t \in Segs : ApartList(sp.ranges[t])
  <2>1. ApartList(<<>>)
    BY DEF ApartList
  <2> QED
    BY <1>1, <1>3, <2>1
<1>7. \A t \in Segs, o \in Offsets : Fewer(st, sp, t, o)
  BY <1>2, <1>3 DEF Fewer, Byte
<1> QED
  BY <1>2, <1>3, <1>4, <1>5, <1>6, <1>7 DEF Good, sp

\* However a segment comes by its page, no byte is shown that was not before.
LEMMA WithPageGood ==
    ASSUME NEW st, Good(st), NEW s \in Segs, NEW full \in BOOLEAN, clock \in 0 .. MaxTick
    PROVE  LET sp == WithPage(st, s, full) IN
           /\ Good(sp)
           /\ \A t \in Segs, o \in Offsets : Fewer(st, sp, t, o)
<1> DEFINE sp == WithPage(st, s, full)
<1>1. /\ st \in Stores /\ st.capacity \in 0 .. MaxPages /\ MaxPages \in Nat
  BY DataCacheAssumption DEF Good, Stores
<1>2. CASE st.page[s] # NoPage
  BY <1>2 DEF WithPage, Fewer
<1>3. CASE st.page[s] = NoPage /\ st.capacity < MaxPages /\ (full => st.capacity = 0)
  <2>1. st.capacity \in Pages /\ st.capacity + 1 \in 0 .. MaxPages
        /\ st.capacity < st.capacity + 1 /\ st.capacity <= st.capacity + 1
    BY <1>1, <1>3 DEF Pages
  <2>2. sp = [Assign(st, s, st.capacity) EXCEPT !.capacity = st.capacity + 1]
    BY <1>1, <1>3 DEF WithPage, Assign, Stores
  <2>3. \A t \in Segs : st.page[t] # st.capacity
    BY <1>1, <2>1 DEF Good, Exclusive, Pages, NoPage
  <2> QED
    BY <1>3, <2>1, <2>2, <2>3, NewPageGood
<1>4. CASE /\ st.page[s] = NoPage /\ ~(st.capacity < MaxPages /\ (full => st.capacity = 0))
           /\ \E t \in Segs : st.page[t] # NoPage
  <2> DEFINE u == Oldest(st)
             fr == Free(st, u)
  <2>1. u \in Segs /\ st.page[u] # NoPage /\ u # s
    BY <1>1, <1>4, OldestExists
  <2>2. sp = Assign(fr, s, st.page[u])
    BY <1>4 DEF WithPage
  <2> HIDE DEF u
  <2>3. /\ Good(fr) /\ fr.capacity = st.capacity /\ fr.page[u] = NoPage
        /\ \A t \in Segs \ {u} : fr.page[t] = st.page[t]
        /\ \A t \in Segs, o \in Offsets : Fewer(st, fr, t, o)
    BY <2>1, FreeGood
  <2> HIDE DEF fr
  <2>4. st.page[u] \in Pages /\ st.page[u] < fr.capacity /\ fr.capacity \in 0 .. MaxPages
    BY <1>1, <2>1, <2>3 DEF Good, Exclusive, Stores
  <2>5. \A t \in Segs : fr.page[t] # st.page[u]
    BY <2>1, <2>3 DEF Good, Exclusive
  <2>6. fr.page[s] = NoPage /\ fr.capacity <= fr.capacity
    BY <1>1, <1>4, <2>1, <2>3
  <2>7. Assign(fr, s, st.page[u]) =
           [Assign(fr, s, st.page[u]) EXCEPT !.capacity = fr.capacity]
    BY <2>3 DEF Good, Stores, Assign
  <2>8. Good(sp) /\ \A t \in Segs, o \in Offsets : Fewer(fr, sp, t, o)
    BY <2>2, <2>3, <2>4, <2>5, <2>6, <2>7, NewPageGood
  <2> QED
    BY <2>3, <2>8 DEF Fewer
<1>5. CASE /\ st.page[s] = NoPage /\ ~(st.capacity < MaxPages /\ (full => st.capacity = 0))
           /\ ~\E t \in Segs : st.page[t] # NoPage
  BY <1>5 DEF WithPage, Fewer
<1> QED
  BY <1>2, <1>3, <1>4, <1>5

-----------------------------------------------------------------------------
(* The write to one segment.                                               *)

\* A position is a segment and an offset.
LEMMA Place ==
  ASSUME NEW p \in Positions
  PROVE /\ SegOf(p) \in Segs
        /\ p % PageSize \in Offsets
        /\ p = SegOf(p) * PageSize + (p % PageSize)
  BY DataCacheAssumption DEF SegOf, Segs, Offsets, Positions

\* A segment and an offset are a position.
LEMMA PlaceInv ==
  ASSUME NEW s \in Segs, NEW o \in Offsets
  PROVE /\ s * PageSize + o \in Positions
        /\ SegOf(s * PageSize + o) = s
        /\ (s * PageSize + o) % PageSize = o
  BY DataCacheAssumption DEF SegOf, Segs, Offsets, Positions

\* A write to one segment shows the new bytes of its chunk or none; it shows
\* elsewhere what was shown before or nothing; and where the disk is full, it
\* shows nothing that was not shown before.
LEMMA WriteAlignedGood ==
    ASSUME NEW st, Good(st), NEW s \in Segs, NEW pos, NEW size, NEW bad, NEW taken,
           clock \in 0 .. MaxTick,
           ChunkBegin(s, pos) \in Offsets, ChunkEnd(s, pos, size) \in 1 .. PageSize,
           ChunkBegin(s, pos) < ChunkEnd(s, pos, size),
           s = bad => taken \in 0 .. ChunkEnd(s, pos, size) - ChunkBegin(s, pos)
    PROVE  LET b  == ChunkBegin(s, pos)
               e  == ChunkEnd(s, pos, size)
               sq == WriteAligned(st, s, pos, size, bad, taken) IN
           /\ Good(sq)
           /\ \A t \in Segs \ {s}, o \in Offsets : Fewer(st, sq, t, o)
           /\ \A o \in Offsets : ~(b <= o /\ o < e) => Fewer(st, sq, s, o)
           /\ s # bad => \A o \in Offsets :
                 b <= o /\ o < e => Byte(sq, s, o) \in {None, s * PageSize + o}
           /\ s = bad => \A o \in Offsets : Byte(st, s, o) = None => Byte(sq, s, o) = None
<1> DEFINE b  == ChunkBegin(s, pos)
           e  == ChunkEnd(s, pos, size)
           sq == WriteAligned(st, s, pos, size, bad, taken)
           sp == WithPage(st, s, s = bad)
           end == IF s = bad THEN b + taken ELSE e
           g == sp.page[s]
           new == [o \in Offsets |->
                      IF b <= o /\ o < end THEN s * PageSize + o ELSE sp.storage[g][o]]
           list == IF s = bad THEN sp.ranges[s] ELSE EnforceRange(sp.ranges[s], b, e)
<1>1. /\ b \in Offsets /\ e \in 1 .. PageSize /\ b < e
      /\ b \in Int /\ e \in Int /\ end \in Int /\ end <= e
      /\ \A o \in Offsets : o \in Int
  BY DataCacheAssumption DEF Offsets
<1>2. Good(sp) /\ \A t \in Segs, o \in Offsets : Fewer(st, sp, t, o)
  BY WithPageGood
<1>3. sq = IF g = NoPage THEN sp
           ELSE [sp EXCEPT !.storage[g] = new, !.ranges[s] = list]
  BY DEF WriteAligned
<1> HIDE DEF b, e, sq, sp, end, new, list
<1>4. CASE g = NoPage
  <2>1. \A o \in Offsets : Byte(sp, s, o) = None
    BY <1>4 DEF Byte
  <2> QED
    BY <1>2, <1>3, <1>4, <2>1 DEF Fewer, sq, b, e
<1>5. CASE g # NoPage
  <2>1. /\ sp \in Stores /\ g \in Pages /\ sp.ranges[s] \in Seq(RangeType)
        /\ ApartList(sp.ranges[s])
    BY <1>2, <1>5 DEF Good, Stores
  <2>2. /\ sq.capacity = sp.capacity /\ sq.page = sp.page /\ sq.lastRead = sp.lastRead
        /\ sq.storage = [sp.storage EXCEPT ![g] = new]
        /\ sq.ranges = [sp.ranges EXCEPT ![s] = list]
    BY <1>3, <1>5, <2>1 DEF Stores
  <2>3. /\ sq.storage[g] = new /\ sq.ranges[s] = list
        /\ \A p \in Pages \ {g} : sq.storage[p] = sp.storage[p]
        /\ \A t \in Segs \ {s} : sq.ranges[t] = sp.ranges[t]
    BY <2>1, <2>2 DEF Stores
  <2>4. /\ list \in Seq(RangeType) /\ ApartList(list)
        /\ s = bad => list = sp.ranges[s]
        /\ \A o \in Offsets : ~(b <= o /\ o < e) =>
              (Covers(list, o) <=> Covers(sp.ranges[s], o))
    BY <1>1, <2>1, EnforceRangeCorrect DEF list
  <2>5. /\ new \in [Offsets -> Positions \cup {Stale}]
        /\ \A o \in Offsets : new[o] = IF b <= o /\ o < end THEN s * PageSize + o
                                       ELSE sp.storage[g][o]
    <3>1. \A o \in Offsets : s * PageSize + o \in Positions
      BY PlaceInv
    <3>2. sp.storage[g] \in [Offsets -> Positions \cup {Stale}]
      BY <2>1 DEF Stores
    <3> QED
      BY <3>1, <3>2 DEF new
  <2>6. sq \in Stores
    <3>1. sq.storage \in [Pages -> [Offsets -> Positions \cup {Stale}]]
      BY <2>1, <2>2, <2>5 DEF Stores
    <3>2. sq.ranges \in [Segs -> Seq(RangeType)]
      BY <2>1, <2>2, <2>4 DEF Stores
    <3> QED
      BY <1>3, <1>5, <2>1, <2>2, <3>1, <3>2 DEF Stores
  <2>7. Good(sq)
    <3>1. Exclusive(sq)
      BY <1>2, <2>2 DEF Good, Exclusive
    <3>2. \A t \in Segs : ApartList(sq.ranges[t])
      BY <1>2, <2>3, <2>4 DEF Good
    <3> QED
      BY <2>6, <3>1, <3>2 DEF Good
  <2>8. ASSUME NEW t \in Segs \ {s}, NEW o \in Offsets
        PROVE  Fewer(st, sq, t, o)
    <3>1. Byte(sq, t, o) = Byte(sp, t, o)
      <4>1. sp.page[t] # NoPage => sp.page[t] \in Pages \ {g}
        BY <1>2, <1>5, <2>1 DEF Good, Exclusive, Stores
      <4> QED
        BY <2>2, <2>3, <4>1 DEF Byte
    <3> QED
      BY <1>2, <3>1 DEF Fewer
  <2>9. ASSUME NEW o \in Offsets, ~(b <= o /\ o < e)
        PROVE  Fewer(st, sq, s, o)
    <3>1. Byte(sq, s, o) = Byte(sp, s, o)
      BY <1>1, <2>2, <2>3, <2>4, <2>5, <2>9 DEF Byte
    <3> QED
      BY <1>2, <3>1 DEF Fewer
  <2>10. ASSUME s # bad, NEW o \in Offsets, b <= o, o < e
         PROVE  Byte(sq, s, o) \in {None, s * PageSize + o}
    <3>1. new[o] = s * PageSize + o
      BY <2>5, <2>10 DEF end
    <3> QED
      BY <2>2, <2>3, <3>1 DEF Byte
  <2>11. ASSUME s = bad, NEW o \in Offsets, Byte(st, s, o) = None
         PROVE  Byte(sq, s, o) = None
    <3>1. Byte(sp, s, o) = None
      BY <1>2, <2>11 DEF Fewer
    <3>2. sp.storage[g][o] # None
      <4>1. sp.storage[g][o] \in Positions \cup {Stale}
        BY <2>1 DEF Stores
      <4> QED
        BY <4>1, DataCacheAssumption DEF Positions
    <3>3. ~Covers(sp.ranges[s], o)
      BY <1>5, <3>1, <3>2 DEF Byte
    <3> QED
      BY <2>3, <2>4, <2>11, <3>3 DEF Byte
  <2> QED
    BY <2>7, <2>8, <2>9, <2>10, <2>11 DEF sq, b, e
<1> QED
  BY <1>4, <1>5

-----------------------------------------------------------------------------
(* The chunks of a call.                                                   *)

\* Facts about products and quotients by the page size.
LEMMA Products ==
    ASSUME NEW i \in Int, NEW j \in Int, i <= j
    PROVE  i * PageSize <= j * PageSize
  BY DataCacheAssumption

\* The segment of a position begins at the position or before it.
LEMMA Quotient ==
    ASSUME NEW p \in Nat
    PROVE  /\ SegOf(p) \in Nat
           /\ SegOf(p) * PageSize <= p
           /\ p < SegOf(p) * PageSize + PageSize
  BY DataCacheAssumption DEF SegOf

\* A call on [pos, pos + size).
Call(pos, size) ==
    pos \in Positions /\ size \in Nat \ {0} /\ pos + size <= Segments * PageSize

\* The chunk of each segment of a call is a range of its page, and has exactly
\* the positions of the call that are in the segment.
LEMMA Chunks ==
    ASSUME NEW pos, NEW size, Call(pos, size),
           NEW s \in SegOf(pos) .. LastSeg(pos, size)
    PROVE  /\ s \in Segs
           /\ ChunkBegin(s, pos) \in Offsets /\ ChunkEnd(s, pos, size) \in 1 .. PageSize
           /\ ChunkBegin(s, pos) < ChunkEnd(s, pos, size)
           /\ \A o \in Offsets : s * PageSize + o \in pos .. pos + size - 1 <=>
                 ChunkBegin(s, pos) <= o /\ o < ChunkEnd(s, pos, size)
<1> DEFINE m == s * PageSize
           last == pos + size - 1
           total == Segments * PageSize
<1>1. /\ pos \in Nat /\ last \in Nat /\ PageSize \in Nat \ {0} /\ size \in Nat \ {0}
      /\ Segments \in Nat /\ last < total /\ last = pos + size - 1 /\ total \in Nat
  BY DataCacheAssumption DEF Call, Positions
<1>2. LastSeg(pos, size) = SegOf(last)
  BY DEF LastSeg, SegOf
<1>3. SegOf(pos) \in Nat /\ SegOf(last) \in Nat /\ s \in Nat
  BY <1>1, <1>2, Quotient
<1> HIDE DEF last
<1>4. m <= last
  <2>1. m <= SegOf(last) * PageSize
    BY <1>2, <1>3, Products
  <2>2. SegOf(last) * PageSize <= last
    BY <1>1, Quotient
  <2>3. SegOf(last) * PageSize \in Nat /\ m \in Nat
    BY <1>1, <1>3
  <2> QED
    BY <1>1, <2>1, <2>2, <2>3
<1>5. pos < m + PageSize
  <2>1. SegOf(pos) * PageSize <= m
    BY <1>2, <1>3, Products
  <2>2. pos < SegOf(pos) * PageSize + PageSize
    BY <1>1, Quotient
  <2>3. SegOf(pos) * PageSize \in Nat /\ m \in Nat
    BY <1>1, <1>3
  <2> QED
    BY <1>1, <2>1, <2>2, <2>3
<1>6. s < Segments
  <2> SUFFICES ASSUME Segments <= s
               PROVE  FALSE
    BY <1>1, <1>3
  <2>1. total <= m
    BY <1>1, <1>3, Products
  <2> QED
    BY <1>1, <1>3, <1>4, <2>1
<1>7. (s + 1) * PageSize = m + PageSize /\ m \in Nat
  BY <1>1, <1>3
<1>8. ChunkBegin(s, pos) = IF pos > m THEN pos - m ELSE 0
  BY DEF ChunkBegin
<1>9. ChunkEnd(s, pos, size) = IF pos + size < m + PageSize THEN pos + size - m ELSE PageSize
  BY <1>7 DEF ChunkEnd
<1> HIDE DEF m, total
<1>10. s \in Segs
  BY <1>1, <1>3, <1>6 DEF Segs
<1>11. /\ ChunkBegin(s, pos) \in Offsets /\ ChunkEnd(s, pos, size) \in 1 .. PageSize
       /\ ChunkBegin(s, pos) < ChunkEnd(s, pos, size)
  BY <1>1, <1>4, <1>5, <1>7, <1>8, <1>9 DEF Offsets
<1>12. ASSUME NEW o \in Offsets
       PROVE  m + o \in pos .. pos + size - 1 <=>
                 ChunkBegin(s, pos) <= o /\ o < ChunkEnd(s, pos, size)
  BY <1>1, <1>4, <1>5, <1>7, <1>8, <1>9 DEF Offsets
<1> QED
  BY <1>10, <1>11, <1>12 DEF m

\* Every position of a call is in one of its segments.
LEMMA CallSegments ==
    ASSUME NEW pos, NEW size, Call(pos, size)
    PROVE  /\ SegOf(pos) \in Nat /\ LastSeg(pos, size) \in Nat
           /\ SegOf(pos) <= LastSeg(pos, size)
           /\ \A p \in pos .. pos + size - 1 :
                 p \in Positions /\ SegOf(p) \in SegOf(pos) .. LastSeg(pos, size)
<1> DEFINE last == pos + size - 1
<1>1. /\ pos \in Nat /\ last \in Nat /\ size \in Nat \ {0} /\ pos <= last
      /\ last <= Segments * PageSize - 1 /\ Segments * PageSize \in Nat
  BY DataCacheAssumption DEF Call, Positions
<1>2. LastSeg(pos, size) = SegOf(last)
  BY DEF LastSeg, SegOf
<1> HIDE DEF last
<1>3. ASSUME NEW p \in Nat, NEW q \in Nat, p <= q
      PROVE  SegOf(p) <= SegOf(q)
  <2> SUFFICES ASSUME SegOf(q) + 1 <= SegOf(p)
               PROVE  FALSE
    BY <1>3, Quotient
  <2>1. (SegOf(q) + 1) * PageSize <= SegOf(p) * PageSize
    BY <1>3, Quotient, Products
  <2>2. (SegOf(q) + 1) * PageSize = SegOf(q) * PageSize + PageSize
    BY <1>3, Quotient, DataCacheAssumption
  <2>3. SegOf(p) * PageSize <= p /\ q < SegOf(q) * PageSize + PageSize
    BY <1>3, Quotient
  <2>4. SegOf(p) * PageSize \in Int /\ SegOf(q) * PageSize \in Int /\ PageSize \in Int
    BY <1>3, Quotient, DataCacheAssumption
  <2> QED
    BY <1>3, <2>1, <2>2, <2>3, <2>4
<1>4. ASSUME NEW p \in pos .. pos + size - 1
      PROVE  p \in Positions /\ SegOf(p) \in SegOf(pos) .. LastSeg(pos, size)
  <2>1. p \in Nat /\ pos <= p /\ p <= last
    BY <1>1 DEF last
  <2> QED
    BY <1>1, <1>2, <1>3, <2>1, Quotient DEF Positions
<1> QED
  BY <1>1, <1>2, <1>3, <1>4, Quotient

-----------------------------------------------------------------------------
(* A whole write.                                                          *)

\* The states in which a write can be.
GoodStores == {st \in Stores : Good(st)}

\* The disk is full for at most one segment, and takes less than its chunk.
Failure(pos, size, bad, taken) ==
    \A s \in SegOf(pos) .. LastSeg(pos, size) :
        s = bad => taken \in 0 .. ChunkEnd(s, pos, size) - ChunkBegin(s, pos)

\* A write goes from one such state to the next.
LEMMA WriteAlignedStores ==
    ASSUME NEW pos, NEW size, Call(pos, size), NEW bad, NEW taken,
           Failure(pos, size, bad, taken), clock \in 0 .. MaxTick,
           NEW st \in GoodStores, NEW s \in SegOf(pos) .. LastSeg(pos, size)
    PROVE  WriteAligned(st, s, pos, size, bad, taken) \in GoodStores
<1>1. Good(WriteAligned(st, s, pos, size, bad, taken))
  BY Chunks, WriteAlignedGood DEF Failure, GoodStores
<1> QED
  BY <1>1 DEF Good, GoodStores

\* Written is the function that its definition describes.
LEMMA WrittenRecursion ==
    ASSUME NEW pos, NEW size, Call(pos, size), NEW bad, NEW taken,
           Failure(pos, size, bad, taken), clock \in 0 .. MaxTick,
           Good(State(pos .. pos + size - 1))
    PROVE  LET g == Written(pos, size, bad, taken) IN
           /\ g[SegOf(pos) - 1] = State(pos .. pos + size - 1)
           /\ \A s \in SegOf(pos) - 1 .. LastSeg(pos, size) : Good(g[s])
           /\ \A s \in SegOf(pos) .. LastSeg(pos, size) :
                 g[s] = WriteAligned(g[s - 1], s, pos, size, bad, taken)
<1> DEFINE a == SegOf(pos) - 1
           n == LastSeg(pos, size)
           x == State(pos .. pos + size - 1)
           W(st, s) == WriteAligned(st, s, pos, size, bad, taken)
           h == [p \in GoodStores \X (a .. n) |-> IF p[2] = a THEN x ELSE W(p[1], p[2])]
           D(g) == [s \in a .. n |-> IF s < SegOf(pos) THEN x ELSE W(g[s - 1], s)]
<1>1. /\ a \in Int /\ n \in Int /\ a <= n /\ SegOf(pos) \in Int
      /\ \A s \in a .. n : s < SegOf(pos) <=> s = a
      /\ \A s \in a .. n : s # a => s \in SegOf(pos) .. n /\ s - 1 \in a .. n
      /\ \A s \in SegOf(pos) .. n : s \in a .. n /\ s # a
  BY CallSegments
<1>2. x \in GoodStores
  BY DEF Good, GoodStores
<1>3. h \in [GoodStores \X (a .. n) -> GoodStores]
  <2> HIDE DEF x, a, n, W
  <2> SUFFICES ASSUME NEW p \in GoodStores \X (a .. n)
               PROVE  (IF p[2] = a THEN x ELSE W(p[1], p[2])) \in GoodStores
    OBVIOUS
  <2>1. CASE p[2] = a
    BY <1>2, <2>1
  <2>2. CASE p[2] # a
    <3>1. p[2] \in SegOf(pos) .. n /\ p[1] \in GoodStores
      BY <1>1, <2>2
    <3> QED
      BY <2>2, <3>1, WriteAlignedStores DEF W, n
  <2> QED
    BY <2>1, <2>2
<1>4. \A s \in a .. n : s # a => \A st \in GoodStores : h[<<st, s>>] = W(st, s)
  BY <1>1
<1> HIDE DEF h, n, x, a, W
<1>5. PICK f \in [a .. n -> GoodStores] :
          f[a] = x /\ \A s \in a .. n : s # a => f[s] = h[<<f[s - 1], s>>]
  <2>1. Recursion(a, n, GoodStores, x, h)
    BY <1>1, <1>2, <1>3, RangeRecursion
  <2> QED
    BY <2>1 DEF Recursion
<1>6. \A s \in a .. n : s # a => f[s] = W(f[s - 1], s)
  BY <1>1, <1>4, <1>5
<1>7. f = D(f)
  BY <1>1, <1>5, <1>6
<1>8. Written(pos, size, bad, taken) = CHOOSE g : g = D(g)
  BY Zenon DEF Written, n, x, a, W
<1> DEFINE g == Written(pos, size, bad, taken)
<1>9. g = D(g)
  <2> HIDE DEF D
  <2> QED
    BY <1>7, <1>8
<1> HIDE DEF g
<1>10. a \in a .. n
  BY <1>1
<1>11. g[a] = x /\ \A s \in a .. n : s # a => g[s] = W(g[s - 1], s)
  BY <1>1, <1>9, <1>10
<1> DEFINE S == {s \in a .. n : g[s] \in GoodStores}
<1>12. a \in S
  BY <1>2, <1>10, <1>11
<1>13. ASSUME NEW s \in a .. n, s # a, s - 1 \in S
       PROVE  s \in S
  <2>1. s \in SegOf(pos) .. n
    BY <1>1, <1>13
  <2>2. g[s] = W(g[s - 1], s) /\ g[s - 1] \in GoodStores
    BY <1>11, <1>13
  <2> QED
    BY <2>1, <2>2, WriteAlignedStores DEF W, n
<1>14. a .. n \subseteq S
  <2> HIDE DEF S
  <2> QED
    BY <1>1, <1>12, <1>13, RangeInduction
<1>15. \A s \in a .. n : Good(g[s])
  BY <1>14 DEF GoodStores
<1>16. \A s \in SegOf(pos) .. n : g[s] = W(g[s - 1], s)
  BY <1>1, <1>11
<1> QED
  BY <1>11, <1>15, <1>16 DEF g, n, x, a, W

\* The types of the variables.
Types ==
    /\ capacity \in 0 .. MaxPages
    /\ storage \in [Pages -> [Offsets -> Positions \cup {Stale}]]
    /\ page \in [Segs -> Pages \cup {NoPage}]
    /\ ranges \in [Segs -> Seq(RangeType)]
    /\ lastRead \in [Segs -> 0 .. MaxTick] /\ clock \in 0 .. MaxTick
    /\ torn \subseteq Positions

\* The invariant: ShowsLatest needs the other two, since a byte can only be
\* right if no other segment writes to its page and no range is listed twice.
IInv == Types /\ PagesAreExclusive /\ RangesApart /\ ShowsLatest

\* What the cache has at offset o of segment s.
Cached(s, o) == IF page[s] # NoPage /\ Covers(ranges[s], o) THEN storage[page[s]][o] ELSE None

\* A write starts from a good state, in which the bytes it replaces are stale.
LEMMA StateGood ==
    ASSUME IInv, NEW S \in SUBSET Positions
    PROVE  /\ Good(State(S))
           /\ \A s \in Segs, o \in Offsets :
                 Byte(State(S), s, o) = IF Cached(s, o) \in S THEN Stale ELSE Cached(s, o)
<1> DEFINE st == State(S)
<1>1. /\ st.capacity = capacity /\ st.storage = Outdated(S) /\ st.page = page
      /\ st.ranges = ranges /\ st.lastRead = lastRead
  BY DEF State
<1>2. Outdated(S) \in [Pages -> [Offsets -> Positions \cup {Stale}]]
  BY DEF Outdated, IInv, Types
<1>3. st \in Stores
  BY <1>2 DEF State, Stores, IInv, Types
<1> HIDE DEF st
<1>4. Exclusive(st)
  BY <1>1 DEF Exclusive, IInv, PagesAreExclusive
<1>5. \A s \in Segs : ApartList(st.ranges[s])
  BY <1>1 DEF ApartList, Apart, IInv, RangesApart
<1>6. ASSUME NEW s \in Segs, NEW o \in Offsets
      PROVE  Byte(st, s, o) = IF Cached(s, o) \in S THEN Stale ELSE Cached(s, o)
  <2>1. CASE page[s] # NoPage /\ Covers(ranges[s], o)
    <3>1. page[s] \in Pages
      BY <2>1 DEF IInv, Types
    <3> QED
      BY <1>1, <2>1, <3>1 DEF Byte, Cached, Outdated
  <2>2. CASE ~(page[s] # NoPage /\ Covers(ranges[s], o))
    <3>1. None \notin S
      <4>1. Positions \subseteq Nat
        BY DEF Positions
      <4> QED
        BY <4>1, DataCacheAssumption
    <3> QED
      BY <1>1, <2>2, <3>1 DEF Byte, Cached
  <2> QED
    BY <2>1, <2>2
<1> QED
  BY <1>3, <1>4, <1>5, <1>6 DEF Good, st

\* What the cache st has of p when a call has come up to segment k.
Right(st, k, pos, size, bad, p) ==
    LET s == SegOf(p)
        shown == Byte(st, s, p % PageSize) IN
    IF p \in pos .. pos + size - 1
    THEN IF s = bad THEN shown = None ELSE s <= k => shown \in {None, p}
    ELSE shown \in {None, p}

\* What the write of segment k does to the byte of a position p.
LEMMA SegmentWritten ==
    ASSUME NEW pos, NEW size, Call(pos, size), NEW bad, NEW taken,
           Failure(pos, size, bad, taken), clock \in 0 .. MaxTick,
           NEW st, Good(st), NEW k \in SegOf(pos) .. LastSeg(pos, size), NEW p \in Positions
    PROVE  LET s  == SegOf(p)
               o  == p % PageSize
               sq == WriteAligned(st, k, pos, size, bad, taken)
               hit == s = k /\ p \in pos .. pos + size - 1 IN
           /\ s \in Int /\ k \in Int
           /\ ~hit => Fewer(st, sq, s, o)
           /\ hit /\ s # bad => Byte(sq, s, o) \in {None, p}
           /\ hit /\ s = bad => (Byte(st, s, o) = None => Byte(sq, s, o) = None)
<1> DEFINE s  == SegOf(p)
           o  == p % PageSize
           sq == WriteAligned(st, k, pos, size, bad, taken)
           b  == ChunkBegin(k, pos)
           e  == ChunkEnd(k, pos, size)
           written == pos .. pos + size - 1
<1>1. s \in Segs /\ o \in Offsets /\ p = s * PageSize + o
  BY Place
<1>2. /\ k \in Segs
      /\ \A x \in Offsets : k * PageSize + x \in written <=> b <= x /\ x < e
  BY Chunks
<1>3. /\ \A t \in Segs \ {k}, x \in Offsets : Fewer(st, sq, t, x)
      /\ \A x \in Offsets : ~(b <= x /\ x < e) => Fewer(st, sq, k, x)
      /\ k # bad => \A x \in Offsets :
            b <= x /\ x < e => Byte(sq, k, x) \in {None, k * PageSize + x}
      /\ k = bad => \A x \in Offsets : Byte(st, k, x) = None => Byte(sq, k, x) = None
  BY <1>2, Chunks, WriteAlignedGood DEF Failure
<1>4. s \in Int /\ k \in Int
  BY <1>1, <1>2 DEF Segs
<1> HIDE DEF s, o, sq, b, e, written
<1>5. s = k => (p \in written <=> b <= o /\ o < e)
  BY <1>1, <1>2
<1>6. ~(s = k /\ p \in written) => Fewer(st, sq, s, o)
  BY <1>1, <1>3, <1>5
<1>7. s = k /\ p \in written /\ s # bad => Byte(sq, s, o) \in {None, p}
  BY <1>1, <1>3, <1>5
<1>8. s = k /\ p \in written /\ s = bad => (Byte(st, s, o) = None => Byte(sq, s, o) = None)
  BY <1>1, <1>3
<1> QED
  BY <1>4, <1>6, <1>7, <1>8 DEF s, o, sq, written

\* One segment of a write keeps Right.
LEMMA WriteStep ==
    ASSUME NEW pos, NEW size, Call(pos, size), NEW bad, NEW taken,
           Failure(pos, size, bad, taken), clock \in 0 .. MaxTick,
           NEW st, Good(st), NEW k \in SegOf(pos) .. LastSeg(pos, size),
           NEW p \in Positions, Right(st, k - 1, pos, size, bad, p)
    PROVE  Right(WriteAligned(st, k, pos, size, bad, taken), k, pos, size, bad, p)
  BY SegmentWritten DEF Right, Fewer

\* A write keeps the invariant, wherever the disk is full.
LEMMA WriteKeepsIInv ==
    ASSUME IInv, NEW pos, NEW size, Call(pos, size), NEW bad, NEW taken,
           Failure(pos, size, bad, taken), Write(pos, size, bad, taken)
    PROVE  IInv'
<1> DEFINE written == pos .. pos + size - 1
           a == SegOf(pos) - 1
           n == LastSeg(pos, size)
           g == Written(pos, size, bad, taken)
<1>0. clock \in 0 .. MaxTick
  BY DEF IInv, Types
<1>1. /\ a \in Int /\ n \in Int /\ a <= n
      /\ \A s \in a .. n : s # a => s \in SegOf(pos) .. n /\ s - 1 \in a .. n
      /\ written \in SUBSET Positions
      /\ \A p \in written : SegOf(p) \in SegOf(pos) .. n
      /\ a < SegOf(pos) /\ SegOf(pos) \in Int
  BY CallSegments
<1>2. /\ Good(State(written))
      /\ \A s \in Segs, o \in Offsets :
            Byte(State(written), s, o) = IF Cached(s, o) \in written THEN Stale ELSE Cached(s, o)
  BY <1>1, StateGood
<1>3. /\ g[a] = State(written)
      /\ \A s \in a .. n : Good(g[s])
      /\ \A s \in SegOf(pos) .. n : g[s] = WriteAligned(g[s - 1], s, pos, size, bad, taken)
  BY <1>0, <1>2, WrittenRecursion
<1> HIDE DEF a, n, g
<1>4. \A p \in Positions : Shown(p) = Cached(SegOf(p), p % PageSize)
  BY DEF Shown, Cached
<1>5. torn' = (torn \ written) \cup {p \in written : SegOf(p) = bad /\ Shown(p) # None}
  BY DEF Write
<1>6. ASSUME NEW p \in Positions \ torn'
      PROVE  Right(g[n], n, pos, size, bad, p)
  <2> DEFINE S == {k \in a .. n : Right(g[k], k, pos, size, bad, p)}
  <2>1. a \in S
    <3>1. SegOf(p) \in Segs /\ p % PageSize \in Offsets
      BY Place
    <3>2. Byte(g[a], SegOf(p), p % PageSize) = IF Shown(p) \in written THEN Stale ELSE Shown(p)
      BY <1>2, <1>3, <1>4, <3>1
    <3>3. CASE p \notin written
      <4>1. p \notin torn
        BY <1>5, <3>3
      <4>2. Shown(p) \in {None, p}
        BY <4>1 DEF IInv, ShowsLatest
      <4>3. None \notin written
        BY <1>1, DataCacheAssumption DEF Positions
      <4> QED
        BY <1>1, <3>2, <3>3, <4>2, <4>3 DEF Right
    <3>4. CASE p \in written
      <4>1. SegOf(p) = bad => Shown(p) = None
        BY <1>5, <3>4
      <4>2. None \notin written
        BY <1>1, DataCacheAssumption DEF Positions
      <4>3. ~(SegOf(p) <= a)
        BY <1>1, <3>4 
      <4> QED
        BY <1>1, <3>2, <3>4, <4>1, <4>2, <4>3 DEF Right
    <3> QED
      BY <3>3, <3>4
  <2>2. ASSUME NEW k \in a .. n, k # a, k - 1 \in S
        PROVE  k \in S
    <3>1. k \in SegOf(pos) .. n /\ k - 1 \in a .. n
      BY <1>1, <2>2
    <3> QED
      BY <1>0, <1>3, <2>2, <3>1, WriteStep DEF n
  <2>3. a .. n \subseteq S
    <3> HIDE DEF S
    <3> QED
      BY <1>1, <2>1, <2>2, RangeInduction
  <2>4. n \in a .. n
    BY <1>1
  <2> QED
    BY <2>3, <2>4
<1> DEFINE st == g[n]
<1>7. /\ capacity' = st.capacity /\ storage' = st.storage /\ page' = st.page
      /\ ranges' = st.ranges /\ lastRead' = st.lastRead /\ clock' = clock
  BY DEF Write, g, n
<1>8. Good(st)
  BY <1>1, <1>3
<1> HIDE DEF st
<1>9. Types'
  <2>1. torn' \subseteq Positions
    BY <1>1, <1>5 DEF IInv, Types
  <2> QED
    BY <1>0, <1>7, <1>8, <2>1 DEF Good, Stores, Types
<1>10. PagesAreExclusive'
  BY <1>7, <1>8 DEF Good, Exclusive, PagesAreExclusive
<1>11. RangesApart'
  BY <1>7, <1>8 DEF Good, ApartList, Apart, RangesApart
<1>12. ShowsLatest'
  <2> SUFFICES ASSUME NEW p \in Positions \ torn'
               PROVE  Shown(p)' \in {None, p}
    BY DEF ShowsLatest
  <2>1. Shown(p)' = Byte(st, SegOf(p), p % PageSize)
    BY <1>7 DEF Shown, Byte
  <2>2. p \in written => SegOf(p) <= n
    BY <1>1
  <2> QED
    BY <1>6, <2>1, <2>2 DEF Right, st
<1> QED
  BY <1>9, <1>10, <1>11, <1>12 DEF IInv

-----------------------------------------------------------------------------
(* Reads.                                                                  *)

\* A read of one chunk gives all that is in the cache up to the first gap.
LEMMA ReadAlignedCorrect ==
    ASSUME IInv, NEW pos, NEW size, Call(pos, size),
           NEW s \in SegOf(pos) .. LastSeg(pos, size)
    PROVE  LET b   == ChunkBegin(s, pos)
               e   == ChunkEnd(s, pos, size)
               got == ReadAligned(s, pos, size) IN
           /\ got \in 0 .. e - b
           /\ \A o \in b .. b + got - 1 : Shown(s * PageSize + o) # None
           /\ got # e - b => Shown(s * PageSize + (b + got)) = None
<1> DEFINE b   == ChunkBegin(s, pos)
           e   == ChunkEnd(s, pos, size)
           got == ReadAligned(s, pos, size)
<1>1. s \in Segs /\ b \in Offsets /\ e \in 1 .. PageSize /\ b < e
  BY Chunks
<1>2. b \in Int /\ e \in Int /\ b >= 0 /\ e <= PageSize /\ PageSize \in Int
      /\ \A o \in b .. e - 1 : o \in Offsets
  BY <1>1, DataCacheAssumption DEF Offsets
<1>3. got = IF page[s] = NoPage THEN 0 ELSE HaveRange(ranges[s], b, e)
  BY DEF ReadAligned
<1>4. \A o \in Offsets : Shown(s * PageSize + o) =
          IF page[s] # NoPage /\ Covers(ranges[s], o) THEN storage[page[s]][o] ELSE None
  BY <1>1, PlaceInv DEF Shown
<1> HIDE DEF b, e, got
<1>5. CASE page[s] = NoPage
  BY <1>2, <1>1, <1>3, <1>4, <1>5 DEF b, e, got
<1>6. CASE page[s] # NoPage
  <2>1. ranges[s] \in Seq(RangeType) /\ ApartList(ranges[s])
    BY <1>1 DEF IInv, Types, RangesApart, ApartList, Apart
  <2>2. /\ got \in 0 .. e - b
        /\ \A o \in b .. b + got - 1 : Covers(ranges[s], o)
        /\ got # e - b => ~Covers(ranges[s], b + got)
    BY <1>1, <1>3, <1>6, <2>1, HaveRangeCorrect
  <2>3. ASSUME NEW o \in b .. b + got - 1
        PROVE  Shown(s * PageSize + o) # None
    <3>1. o \in Offsets
      BY <1>2, <2>2
    <3>2. storage[page[s]][o] \in Positions \cup {Stale}
      BY <1>1, <1>6, <3>1 DEF IInv, Types
    <3>3. storage[page[s]][o] # None
      <4>1. Positions \subseteq Nat
        BY DEF Positions
      <4> QED
        BY <3>2, <4>1, DataCacheAssumption
    <3> QED
      BY <1>4, <1>6, <2>2, <3>1, <3>3
  <2>4. got # e - b => Shown(s * PageSize + (b + got)) = None
    BY <1>2, <1>4, <2>2
  <2> QED
    BY <2>2, <2>3, <2>4 DEF b, e, got
<1> QED
  BY <1>5, <1>6

\* The chunks of a call follow each other without a gap.
LEMMA ChunksFollow ==
    ASSUME NEW pos, NEW size, Call(pos, size),
           NEW s \in SegOf(pos) .. LastSeg(pos, size)
    PROVE  /\ s * PageSize \in Nat
           /\ s = SegOf(pos) => s * PageSize + ChunkBegin(s, pos) = pos
           /\ s # SegOf(pos) => s * PageSize + ChunkBegin(s, pos) =
                                   (s - 1) * PageSize + ChunkEnd(s - 1, pos, size)
           /\ s = LastSeg(pos, size) => s * PageSize + ChunkEnd(s, pos, size) = pos + size
<1> DEFINE m == s * PageSize
           last == pos + size - 1
<1>1. /\ pos \in Nat /\ last \in Nat /\ PageSize \in Nat \ {0} /\ size \in Nat \ {0}
      /\ last = pos + size - 1
  BY DataCacheAssumption DEF Call, Positions
<1>2. LastSeg(pos, size) = SegOf(last)
  BY DEF LastSeg, SegOf
<1> HIDE DEF last
<1>3. SegOf(pos) \in Nat /\ SegOf(last) \in Nat /\ s \in Nat
  BY <1>1, <1>2, Quotient
<1>4. m \in Nat /\ (s + 1) * PageSize = m + PageSize /\ (s - 1) * PageSize = m - PageSize
  BY <1>1, <1>3
<1>5. m <= last
  <2>1. m <= SegOf(last) * PageSize
    BY <1>2, <1>3, Products
  <2>2. SegOf(last) * PageSize <= last
    BY <1>1, Quotient
  <2>3. SegOf(last) * PageSize \in Nat
    BY <1>1, <1>3
  <2> QED
    BY <1>1, <1>4, <2>1, <2>2, <2>3
<1>6. s = SegOf(pos) => m <= pos
  BY <1>1, Quotient
<1>7. s # SegOf(pos) => pos < m
  <2> SUFFICES ASSUME s # SegOf(pos)
               PROVE  pos < m
    OBVIOUS
  <2>1. SegOf(pos) * PageSize <= (s - 1) * PageSize
    BY <1>2, <1>3, Products
  <2>2. pos < SegOf(pos) * PageSize + PageSize
    BY <1>1, Quotient
  <2>3. SegOf(pos) * PageSize \in Nat
    BY <1>1, <1>3
  <2> QED
    BY <1>1, <1>4, <2>1, <2>2, <2>3
<1>8. s = SegOf(last) => last < m + PageSize
  BY <1>1, Quotient
<1>9. ChunkBegin(s, pos) = IF pos > m THEN pos - m ELSE 0
  BY DEF ChunkBegin
<1>10. ChunkEnd(s, pos, size) = IF pos + size < m + PageSize THEN pos + size - m ELSE PageSize
  BY <1>4 DEF ChunkEnd
<1>11. ChunkEnd(s - 1, pos, size) =
           IF pos + size < m THEN pos + size - (m - PageSize) ELSE PageSize
  <2>1. (s - 1) + 1 = s
    BY <1>3
  <2> QED
    BY <1>4, <2>1 DEF ChunkEnd
<1> HIDE DEF m
<1>12. /\ s = SegOf(pos) => m + ChunkBegin(s, pos) = pos
       /\ s # SegOf(pos) => m + ChunkBegin(s, pos) = (m - PageSize) + ChunkEnd(s - 1, pos, size)
       /\ s = SegOf(last) => m + ChunkEnd(s, pos, size) = pos + size
  BY <1>1, <1>4, <1>5, <1>6, <1>7, <1>8, <1>9, <1>10, <1>11
<1> QED
  BY <1>2, <1>4, <1>12 DEF m

\* What the read carries along.
Reading == [out : Nat, done : BOOLEAN]

\* One chunk keeps its type.
LEMMA ReadChunkReading ==
    ASSUME IInv, NEW pos, NEW size, Call(pos, size),
           NEW acc \in Reading, NEW s \in SegOf(pos) .. LastSeg(pos, size)
    PROVE  ReadChunk(acc, s, pos, size) \in Reading
<1>1. ReadAligned(s, pos, size) \in Nat
  <2>1. /\ ReadAligned(s, pos, size) \in 0 .. ChunkEnd(s, pos, size) - ChunkBegin(s, pos)
    BY ReadAlignedCorrect
  <2> QED
    BY <2>1
<1> QED
  BY <1>1 DEF ReadChunk, Reading

\* Reads is the function that its definition describes.
LEMMA ReadsRecursion ==
    ASSUME IInv, NEW pos, NEW size, Call(pos, size)
    PROVE  LET g == Reads(pos, size) IN
           /\ g[SegOf(pos) - 1] = [out |-> 0, done |-> FALSE]
           /\ \A s \in SegOf(pos) - 1 .. LastSeg(pos, size) : g[s] \in Reading
           /\ \A s \in SegOf(pos) .. LastSeg(pos, size) :
                 g[s] = ReadChunk(g[s - 1], s, pos, size)
<1> DEFINE a == SegOf(pos) - 1
           n == LastSeg(pos, size)
           x == [out |-> 0, done |-> FALSE]
           W(acc, s) == ReadChunk(acc, s, pos, size)
           h == [p \in Reading \X (a .. n) |-> IF p[2] = a THEN x ELSE W(p[1], p[2])]
           D(g) == [s \in a .. n |-> IF s < SegOf(pos) THEN x ELSE W(g[s - 1], s)]
<1>1. /\ a \in Int /\ n \in Int /\ a <= n /\ SegOf(pos) \in Int
      /\ \A s \in a .. n : s < SegOf(pos) <=> s = a
      /\ \A s \in a .. n : s # a => s \in SegOf(pos) .. n /\ s - 1 \in a .. n
      /\ \A s \in SegOf(pos) .. n : s \in a .. n /\ s # a
  BY CallSegments
<1>2. x \in Reading
  BY DEF Reading
<1>3. h \in [Reading \X (a .. n) -> Reading]
  <2> HIDE DEF x, a, n, W
  <2> SUFFICES ASSUME NEW p \in Reading \X (a .. n)
               PROVE  (IF p[2] = a THEN x ELSE W(p[1], p[2])) \in Reading
    OBVIOUS
  <2>1. CASE p[2] = a
    BY <1>2, <2>1
  <2>2. CASE p[2] # a
    <3>1. p[2] \in SegOf(pos) .. n /\ p[1] \in Reading
      BY <1>1, <2>2
    <3> QED
      BY <2>2, <3>1, ReadChunkReading DEF W, n
  <2> QED
    BY <2>1, <2>2
<1>4. \A s \in a .. n : s # a => \A acc \in Reading : h[<<acc, s>>] = W(acc, s)
  BY <1>1
<1> HIDE DEF h, n, x, a, W
<1>5. PICK f \in [a .. n -> Reading] :
          f[a] = x /\ \A s \in a .. n : s # a => f[s] = h[<<f[s - 1], s>>]
  <2>1. Recursion(a, n, Reading, x, h)
    BY <1>1, <1>2, <1>3, RangeRecursion
  <2> QED
    BY <2>1 DEF Recursion
<1>6. \A s \in a .. n : s # a => f[s] = W(f[s - 1], s)
  BY <1>1, <1>4, <1>5
<1>7. f = D(f)
  BY <1>1, <1>5, <1>6
<1>8. Reads(pos, size) = CHOOSE g : g = D(g)
  BY Zenon DEF Reads, n, x, a, W
<1> DEFINE g == Reads(pos, size)
<1>9. g = D(g)
  <2> HIDE DEF D
  <2> QED
    BY <1>7, <1>8
<1> HIDE DEF g
<1>10. a \in a .. n
  BY <1>1
<1>11. g[a] = x /\ \A s \in a .. n : s # a => g[s] = W(g[s - 1], s)
  BY <1>1, <1>9, <1>10
<1> DEFINE S == {s \in a .. n : g[s] \in Reading}
<1>12. a \in S
  BY <1>2, <1>10, <1>11
<1>13. ASSUME NEW s \in a .. n, s # a, s - 1 \in S
       PROVE  s \in S
  <2>1. s \in SegOf(pos) .. n
    BY <1>1, <1>13
  <2>2. g[s] = W(g[s - 1], s) /\ g[s - 1] \in Reading
    BY <1>11, <1>13
  <2> QED
    BY <2>1, <2>2, ReadChunkReading DEF W, n
<1>14. a .. n \subseteq S
  <2> HIDE DEF S
  <2> QED
    BY <1>1, <1>12, <1>13, RangeInduction
<1>15. \A s \in a .. n : g[s] \in Reading
  BY <1>14
<1>16. \A s \in SegOf(pos) .. n : g[s] = W(g[s - 1], s)
  BY <1>1, <1>11
<1> QED
  BY <1>11, <1>15, <1>16 DEF g, n, x, a, W

\* What a read has found when it has come up to segment s.
ReadInv(pos, size, acc, s) ==
    /\ acc.out <= size
    /\ \A p \in pos .. pos + acc.out - 1 : Shown(p) # None
    /\ acc.done => acc.out < size /\ Shown(pos + acc.out) = None
    /\ ~acc.done => pos + acc.out = IF s < SegOf(pos) THEN pos
                                    ELSE s * PageSize + ChunkEnd(s, pos, size)

\* One chunk keeps ReadInv.
LEMMA ReadStep ==
    ASSUME IInv, NEW pos, NEW size, Call(pos, size), NEW acc \in Reading,
           NEW s \in SegOf(pos) .. LastSeg(pos, size), ReadInv(pos, size, acc, s - 1)
    PROVE  ReadInv(pos, size, ReadChunk(acc, s, pos, size), s)
<1> DEFINE m   == s * PageSize
           b   == ChunkBegin(s, pos)
           e   == ChunkEnd(s, pos, size)
           got == ReadAligned(s, pos, size)
           new == ReadChunk(acc, s, pos, size)
<1>1. CASE acc.done
  BY <1>1 DEF ReadChunk, ReadInv
<1>2. CASE ~acc.done
  <2>1. /\ pos \in Nat /\ size \in Nat /\ acc.out \in Nat /\ s \in Int /\ SegOf(pos) \in Int
        /\ s >= SegOf(pos)
    BY CallSegments DEF Call, Positions, Reading
  <2>2. /\ m \in Nat /\ b \in Int /\ e \in Int /\ b < e
    BY Chunks, ChunksFollow, DataCacheAssumption DEF Offsets
  <2>3. pos + acc.out = m + b
    <3>1. CASE s = SegOf(pos)
      BY <1>2, <2>1, <3>1, ChunksFollow DEF ReadInv
    <3>2. CASE s # SegOf(pos)
      BY <1>2, <2>1, <3>2, ChunksFollow DEF ReadInv
    <3> QED
      BY <3>1, <3>2
  <2>4. /\ got \in 0 .. e - b
        /\ \A o \in b .. b + got - 1 : Shown(m + o) # None
        /\ got # e - b => Shown(m + (b + got)) = None
    BY ReadAlignedCorrect
  <2>5. new = [out |-> acc.out + got, done |-> got # e - b]
    BY <1>2 DEF ReadChunk
  <2>6. m + e <= pos + size
    <3>1. \A o \in Offsets : m + o \in pos .. pos + size - 1 <=> b <= o /\ o < e
      BY Chunks
    <3>2. e - 1 \in Offsets
      BY Chunks, DataCacheAssumption DEF Offsets
    <3> QED
      BY <2>1, <2>2, <3>1, <3>2
  <2> HIDE DEF m, b, e, got, new
  <2>7. new.out = acc.out + got /\ new.done = (got # e - b)
    BY <2>5
  <2>8. ASSUME NEW p \in pos .. pos + new.out - 1
        PROVE  Shown(p) # None
    <3>1. CASE p < pos + acc.out
      BY <2>1, <2>4, <2>7, <2>8, <3>1 DEF ReadInv
    <3>2. CASE p >= pos + acc.out
      <4>1. p - m \in b .. b + got - 1 /\ m + (p - m) = p
        BY <2>1, <2>2, <2>3, <2>4, <2>7, <2>8, <3>2
      <4> QED
        BY <2>4, <4>1
    <3> QED
      BY <2>1, <2>8, <3>1, <3>2
  <2>9. pos + new.out = m + (b + got) /\ new.out <= size
        /\ (got # e - b => new.out < size)
        /\ (got = e - b => pos + new.out = m + e)
    BY <2>1, <2>2, <2>3, <2>4, <2>6, <2>7
  <2>10. ~(s < SegOf(pos))
    BY <2>1
  <2> QED
    BY <2>4, <2>7, <2>8, <2>9, <2>10 DEF ReadInv, m, e, new
<1> QED
  BY <1>1, <1>2 DEF Reading

\* So it holds at the end of the read.
LEMMA ReadCorrect ==
    ASSUME IInv, NEW pos, NEW size, Call(pos, size)
    PROVE  /\ ReadSize(pos, size) <= size
           /\ \A p \in pos .. pos + ReadSize(pos, size) - 1 : Shown(p) # None
           /\ ReadSize(pos, size) < size => Shown(pos + ReadSize(pos, size)) = None
<1> DEFINE a == SegOf(pos) - 1
           n == LastSeg(pos, size)
           g == Reads(pos, size)
           S == {s \in a .. n : ReadInv(pos, size, g[s], s)}
<1>1. /\ a \in Int /\ n \in Int /\ a <= n /\ SegOf(pos) \in Int /\ a < SegOf(pos)
      /\ \A s \in a .. n : s # a => s \in SegOf(pos) .. n /\ s - 1 \in a .. n
      /\ a \in a .. n /\ n \in a .. n /\ n >= SegOf(pos) /\ n \in SegOf(pos) .. n
      /\ pos \in Nat /\ size \in Nat
  BY CallSegments DEF Call, Positions
<1>2. /\ g[a] = [out |-> 0, done |-> FALSE]
      /\ \A s \in a .. n : g[s] \in Reading
      /\ \A s \in SegOf(pos) .. n : g[s] = ReadChunk(g[s - 1], s, pos, size)
  BY ReadsRecursion
<1>3. ReadSize(pos, size) = g[n].out
  BY DEF ReadSize
<1>4. n * PageSize + ChunkEnd(n, pos, size) = pos + size
  BY <1>1, ChunksFollow
<1> HIDE DEF a, n, g
<1>5. a \in S
  <2>1. g[a].out = 0 /\ g[a].done = FALSE
    BY <1>2
  <2>2. pos + 0 = pos /\ pos .. pos + 0 - 1 = {} /\ 0 <= size
    BY <1>1
  <2>3. ReadInv(pos, size, g[a], a)
    BY <1>1, <2>1, <2>2 DEF ReadInv
  <2> QED
    BY <1>1, <2>3
<1>6. ASSUME NEW s \in a .. n, s # a, s - 1 \in S
      PROVE  s \in S
  <2>1. s \in SegOf(pos) .. n /\ s - 1 \in a .. n
    BY <1>1, <1>6
  <2> QED
    BY <1>2, <1>6, <2>1, ReadStep DEF n
<1>7. a .. n \subseteq S
  <2> HIDE DEF S
  <2> QED
    BY <1>1, <1>5, <1>6, RangeInduction
<1>8. ReadInv(pos, size, g[n], n) /\ g[n] \in Reading /\ ~(n < SegOf(pos))
  BY <1>1, <1>2, <1>7
<1>9. g[n].out < size => g[n].done
  BY <1>1, <1>4, <1>8 DEF ReadInv, Reading
<1> QED
  BY <1>3, <1>8, <1>9 DEF ReadInv

-----------------------------------------------------------------------------
(* The invariant of the specification, and the theorems.                   *)

\* An empty cache shows nothing.
LEMMA InitIInv == Init => IInv
<1> SUFFICES ASSUME Init
             PROVE  IInv
  OBVIOUS
<1>1. Types
  <2>1. \A s \in Segs : <<>> \in Seq(RangeType)
    OBVIOUS
  <2> QED
    BY <2>1, DataCacheAssumption DEF Init, Types
<1>2. PagesAreExclusive
  BY DEF Init, PagesAreExclusive
<1>3. RangesApart
  BY DEF Init, RangesApart
<1>4. ShowsLatest
  <2> SUFFICES ASSUME NEW p \in Positions
               PROVE  Shown(p) = None
    BY DEF ShowsLatest
  <2>1. SegOf(p) \in Segs
    BY Place
  <2> QED
    BY <2>1 DEF Init, Shown
<1> QED
  BY <1>1, <1>2, <1>3, <1>4 DEF IInv

\* Neither does one that was dropped.
LEMMA CleanKeepsIInv == IInv /\ Clean => IInv'
<1> SUFFICES ASSUME IInv, Clean
             PROVE  IInv'
  OBVIOUS
<1>1. Types'
  <2>1. \A s \in Segs : <<>> \in Seq(RangeType)
    OBVIOUS
  <2> QED
    BY <2>1, DataCacheAssumption DEF Clean, Types, IInv
<1>2. PagesAreExclusive' /\ RangesApart'
  BY DEF Clean, PagesAreExclusive, RangesApart
<1>3. ShowsLatest'
  <2> SUFFICES ASSUME NEW p \in Positions
               PROVE  Shown(p)' = None
    BY DEF ShowsLatest
  <2>1. SegOf(p) \in Segs
    BY Place
  <2> QED
    BY <2>1 DEF Clean, Shown
<1> QED
  BY <1>1, <1>2, <1>3 DEF IInv

\* Time does not matter to what is shown.
LEMMA OtherStepsKeepIInv ==
    IInv /\ (Tick \/ UNCHANGED vars) => IInv'
<1> SUFFICES ASSUME IInv, Tick \/ UNCHANGED vars
             PROVE  IInv'
  OBVIOUS
<1>1. /\ UNCHANGED <<capacity, storage, page, ranges, lastRead, torn>>
      /\ clock' \in 0 .. MaxTick
  BY DataCacheAssumption DEF Tick, vars, IInv, Types
<1> QED
  BY <1>1 DEF IInv, Types, PagesAreExclusive, RangesApart, ShowsLatest, Shown

\* Every step keeps the invariant.
LEMMA NextIInv == IInv /\ [Next]_vars => IInv'
<1> SUFFICES ASSUME IInv, [Next]_vars
             PROVE  IInv'
  OBVIOUS
<1>1. ASSUME NEW pos \in Positions, NEW size \in WriteSizes(pos)
      PROVE  Call(pos, size)
  BY DataCacheAssumption DEF WriteSizes, Call
<1>2. ASSUME NEW pos \in Positions, NEW size \in WriteSizes(pos), Write(pos, size, NoPage, 0)
      PROVE  IInv'
  <2>1. Failure(pos, size, NoPage, 0)
    BY <1>1, Chunks DEF Failure, Segs, NoPage
  <2> QED
    BY <1>1, <1>2, <2>1, WriteKeepsIInv
<1>3. ASSUME NEW pos \in Positions, NEW size \in WriteSizes(pos),
             NEW bad \in SegOf(pos) .. LastSeg(pos, size),
             NEW taken \in 0 .. ChunkEnd(bad, pos, size) - ChunkBegin(bad, pos) - 1,
             Write(pos, size, bad, taken)
      PROVE  IInv'
  <2>1. ChunkEnd(bad, pos, size) \in Int /\ ChunkBegin(bad, pos) \in Int
    BY <1>1, Chunks, DataCacheAssumption DEF Offsets
  <2>2. taken \in 0 .. ChunkEnd(bad, pos, size) - ChunkBegin(bad, pos)
    BY <2>1
  <2>3. Failure(pos, size, bad, taken)
    BY <2>2 DEF Failure
  <2> QED
    BY <1>1, <1>3, <2>3, WriteKeepsIInv
<1> QED
  BY <1>2, <1>3, CleanKeepsIInv, OtherStepsKeepIInv DEF Next

\* The invariant holds in every reachable state.
LEMMA Invariance == Spec => []IInv
  BY InitIInv, NextIInv, PTL DEF Spec

\* The variables have their types; above all, every range lies within its page and
\* the storage file never grows beyond MaxPages.
THEOREM DCTypeCorrect == Spec => []DCTypeOK
<1>1. IInv => DCTypeOK
  <2> SUFFICES ASSUME IInv
               PROVE  DCTypeOK
    OBVIOUS
  <2>1. \A s \in Segs : \A i \in DOMAIN ranges[s] : ranges[s][i] \in RangeType
    BY DEF IInv, Types
  <2> QED
    BY <2>1 DEF IInv, Types, DCTypeOK, RangeType
<1> QED
  BY <1>1, Invariance, PTL

\* No two segments share a page of the storage file, however often FreeOldestPage
\* takes pages away, also several times in one write.
THEOREM ExclusivePages == Spec => []PagesAreExclusive
<1>1. IInv => PagesAreExclusive
  BY DEF IInv
<1> QED
  BY <1>1, Invariance, PTL

\* The ranges of a segment never overlap or touch, which the single pass of
\* EnforceRange and the search of HaveRange take for granted.
THEOREM ApartRanges == Spec => []RangesApart
<1>1. IInv => RangesApart
  BY DEF IInv
<1> QED
  BY <1>1, Invariance, PTL

\* The cache gives the byte last written, whatever the disk refused on the way;
\* only where a write failed half-way may the older byte be left.
THEOREM LatestShown == Spec => []ShowsLatest
<1>1. IInv => ShowsLatest
  BY DEF IInv
<1> QED
  BY <1>1, Invariance, PTL

\* EnforceRange adds exactly the needed bytes to every list that occurs.
THEOREM RangesUnited == Spec => []EnforceRangeIsUnion
<1>1. IInv => EnforceRangeIsUnion
  <2> SUFFICES ASSUME IInv, NEW s \in Segs, NEW b \in Offsets, NEW e \in b + 1 .. PageSize,
                      NEW o \in Offsets
               PROVE  Covers(EnforceRange(ranges[s], b, e), o) <=>
                         Covers(ranges[s], o) \/ (b <= o /\ o < e)
    BY DEF EnforceRangeIsUnion
  <2>1. e \in 1 .. PageSize /\ b < e
    BY DataCacheAssumption DEF Offsets
  <2>2. ranges[s] \in Seq(RangeType) /\ ApartList(ranges[s])
    BY DEF IInv, Types, RangesApart, ApartList, Apart
  <2> QED
    BY <2>1, <2>2, EnforceRangeCorrect
<1> QED
  BY <1>1, Invariance, PTL

\* A read gives everything up to the first byte that is not in the cache, across
\* any number of segments.
THEOREM ReadsGiveAll == Spec => []ReadGivesAllItHas
<1>1. IInv => ReadGivesAllItHas
  <2> SUFFICES ASSUME IInv, NEW pos \in Positions, NEW size \in 1 .. Segments * PageSize - pos
               PROVE  LET n == ReadSize(pos, size) IN
                      /\ n <= size
                      /\ \A p \in pos .. pos + n - 1 : Shown(p) # None
                      /\ n < size => Shown(pos + n) = None
    BY DEF ReadGivesAllItHas
  <2>1. Call(pos, size)
    BY DataCacheAssumption DEF Call, Positions
  <2> QED
    BY <2>1, ReadCorrect
<1> QED
  BY <1>1, Invariance, PTL

-----------------------------------------------------------------------------
(* The cache implements FileCache.                                         *)

\* What the cache st has of p when a call has come up to segment k, against
\* what was shown before the call.
Promised(st, k, pos, size, bad, p) ==
    LET written == pos .. pos + size - 1
        byte == Byte(st, SegOf(p), p % PageSize) IN
    IF p \in written
    THEN Shown(p) = None => byte = None \/ (SegOf(p) <= k /\ SegOf(p) # bad /\ byte = p)
    ELSE byte \in {None, IF Shown(p) \in written THEN Stale ELSE Shown(p)}

\* One segment of a write keeps the promise.
LEMMA PromiseStep ==
    ASSUME NEW pos, NEW size, Call(pos, size), NEW bad, NEW taken,
           Failure(pos, size, bad, taken), clock \in 0 .. MaxTick,
           NEW st, Good(st), NEW k \in SegOf(pos) .. LastSeg(pos, size),
           NEW p \in Positions, Promised(st, k - 1, pos, size, bad, p)
    PROVE  Promised(WriteAligned(st, k, pos, size, bad, taken), k, pos, size, bad, p)
  BY SegmentWritten DEF Promised, Fewer

\* A write is what FileCache allows for the positions written to.
LEMMA WriteImplements ==
    ASSUME IInv, NEW pos, NEW size, Call(pos, size), NEW bad, NEW taken,
           Failure(pos, size, bad, taken), Write(pos, size, bad, taken)
    PROVE  FC!Next
<1> DEFINE written == pos .. pos + size - 1
           a == SegOf(pos) - 1
           n == LastSeg(pos, size)
           g == Written(pos, size, bad, taken)
<1>0. clock \in 0 .. MaxTick
  BY DEF IInv, Types
<1>1. /\ a \in Int /\ n \in Int /\ a <= n
      /\ \A s \in a .. n : s # a => s \in SegOf(pos) .. n /\ s - 1 \in a .. n
      /\ written \in SUBSET Positions
  BY CallSegments
<1>2. /\ Good(State(written))
      /\ \A s \in Segs, o \in Offsets :
            Byte(State(written), s, o) = IF Cached(s, o) \in written THEN Stale ELSE Cached(s, o)
  BY <1>1, StateGood
<1>3. /\ g[a] = State(written)
      /\ \A s \in a .. n : Good(g[s])
      /\ \A s \in SegOf(pos) .. n : g[s] = WriteAligned(g[s - 1], s, pos, size, bad, taken)
  BY <1>0, <1>2, WrittenRecursion
<1> HIDE DEF a, n, g
<1>4. \A p \in Positions : Shown(p) = Cached(SegOf(p), p % PageSize)
  BY DEF Shown, Cached
<1>5. None \notin written /\ None \notin Positions /\ Stale \notin Positions /\ Stale # None
  BY <1>1, DataCacheAssumption DEF Positions
<1>6. ASSUME NEW p \in Positions
      PROVE  Promised(g[n], n, pos, size, bad, p)
  <2> DEFINE S == {k \in a .. n : Promised(g[k], k, pos, size, bad, p)}
  <2>1. a \in S
    <3>1. SegOf(p) \in Segs /\ p % PageSize \in Offsets
      BY Place
    <3>2. Byte(g[a], SegOf(p), p % PageSize) = IF Shown(p) \in written THEN Stale ELSE Shown(p)
      BY <1>2, <1>3, <1>4, <3>1
    <3> QED
      BY <1>1, <1>5, <3>2 DEF Promised
  <2>2. ASSUME NEW k \in a .. n, k # a, k - 1 \in S
        PROVE  k \in S
    <3>1. k \in SegOf(pos) .. n /\ k - 1 \in a .. n
      BY <1>1, <2>2
    <3> QED
      BY <1>0, <1>3, <2>2, <3>1, PromiseStep DEF n
  <2>3. a .. n \subseteq S
    <3> HIDE DEF S
    <3> QED
      BY <1>1, <2>1, <2>2, RangeInduction
  <2>4. n \in a .. n
    BY <1>1
  <2> QED
    BY <2>3, <2>4
<1> DEFINE st == g[n]
<1>7. page' = st.page /\ ranges' = st.ranges /\ storage' = st.storage
  BY DEF Write, g, n
<1>8. \A p \in Positions : Shown(p)' = Byte(st, SegOf(p), p % PageSize)
  BY <1>7 DEF Shown, Byte
<1> HIDE DEF st
<1>9. ASSUME NEW p \in Positions \ written
      PROVE  Kind(p)' \in {Kind(p), "none"}
  <2>1. Shown(p)' \in {None, IF Shown(p) \in written THEN Stale ELSE Shown(p)}
    BY <1>6, <1>8 DEF Promised, st
  <2> QED
    BY <1>5, <2>1 DEF Kind
<1>10. ASSUME NEW p \in written, Kind(p)' = "older"
       PROVE  Kind(p) # "none"
  <2>1. p \in Positions /\ Shown(p)' # None /\ Shown(p)' # p
    BY <1>1, <1>10 DEF Kind
  <2>2. Shown(p) # None
    BY <1>6, <1>8, <2>1 DEF Promised, st
  <2> QED
    BY <2>2 DEF Kind
<1>11. FC!WriteToCache(written)
  <2> DEFINE f == [p \in Positions |-> Kind(p)']
  <2>1. f \in [Positions -> {"last", "older", "none"}]
    BY DEF Kind
  <2> QED
    BY <1>1, <1>9, <1>10, <2>1 DEF FC!WriteToCache
<1> QED
  BY <1>1, <1>11 DEF FC!Next

\* The cache of a file does what FileCache promises to those who use it, with
\* any pages, any limit and any failure of the disk: the refinement holds for
\* every value of the constants.
THEOREM CacheImplementsFileCache == Spec => ImplementsFileCache
<1> DEFINE shown == [p \in Positions |-> Kind(p)]
<1>1. Init => FC!Init
  <2> SUFFICES ASSUME Init, NEW p \in Positions
               PROVE  Kind(p) = "none"
    BY DEF FC!Init
  <2>1. SegOf(p) \in Segs
    BY Place
  <2> QED
    BY <2>1 DEF Init, Kind, Shown
<1>2. IInv /\ [Next]_vars => [FC!Next]_shown
  <2> SUFFICES ASSUME IInv, [Next]_vars
               PROVE  FC!Next \/ UNCHANGED shown
    OBVIOUS
  <2>1. ASSUME NEW pos \in Positions, NEW size \in WriteSizes(pos)
        PROVE  Call(pos, size)
    BY DataCacheAssumption DEF WriteSizes, Call
  <2>2. ASSUME NEW pos \in Positions, NEW size \in WriteSizes(pos), Write(pos, size, NoPage, 0)
        PROVE  FC!Next
    <3>1. Failure(pos, size, NoPage, 0)
      BY <2>1, Chunks DEF Failure, Segs, NoPage
    <3> QED
      BY <2>1, <2>2, <3>1, WriteImplements
  <2>3. ASSUME NEW pos \in Positions, NEW size \in WriteSizes(pos),
               NEW bad \in SegOf(pos) .. LastSeg(pos, size),
               NEW taken \in 0 .. ChunkEnd(bad, pos, size) - ChunkBegin(bad, pos) - 1,
               Write(pos, size, bad, taken)
        PROVE  FC!Next
    <3>1. ChunkEnd(bad, pos, size) \in Int /\ ChunkBegin(bad, pos) \in Int
      BY <2>1, Chunks, DataCacheAssumption DEF Offsets
    <3>2. taken \in 0 .. ChunkEnd(bad, pos, size) - ChunkBegin(bad, pos)
      BY <3>1
    <3>3. Failure(pos, size, bad, taken)
      BY <3>2 DEF Failure
    <3> QED
      BY <2>1, <2>3, <3>3, WriteImplements
  <2>4. CASE Clean
    <3>1. \A p \in Positions : Kind(p)' = "none"
      <4> SUFFICES ASSUME NEW p \in Positions
                   PROVE  Kind(p)' = "none"
        OBVIOUS
      <4>1. SegOf(p) \in Segs
        BY Place
      <4> QED
        BY <2>4, <4>1 DEF Clean, Kind, Shown
    <3>2. FC!WriteToCache({})
      BY <3>1 DEF FC!WriteToCache
    <3> QED
      BY <3>2 DEF FC!Next
  <2>5. CASE Tick \/ UNCHANGED vars
    <3>1. \A p \in Positions : Kind(p)' = Kind(p)
      BY <2>5 DEF Tick, vars, Kind, Shown
    <3> QED
      BY <3>1
  <2> QED
    BY <2>2, <2>3, <2>4, <2>5 DEF Next
<1> QED
  BY <1>1, <1>2, Invariance, PTL DEF Spec, ImplementsFileCache, FC!Spec
=============================================================================
