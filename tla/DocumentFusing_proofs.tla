------------------------ MODULE DocumentFusing_proofs ------------------------
(***************************************************************************)
(* What DocumentFusing promises, for whatever the sources find of however  *)
(* many papers and however often it is fused, merged, subtracted and       *)
(* sampled.  The lemmas follow the operators: sets in order, snippets,     *)
(* origins, the fusing of two documents, of all that join a result, and    *)
(* then the steps.  Services_proofs uses the lemmas of the invariant.      *)
(***************************************************************************)
EXTENDS DocumentFusing, FiniteSetTheorems, SequenceTheorems, WellFoundedInduction, TLAPS

-----------------------------------------------------------------------------
(* Numbers, lists, and sets in an order.                                     *)
LEMMA LeastNumber ==
  ASSUME NEW S \in SUBSET Nat, S # {}
  PROVE  \E q \in S : \A r \in S : q <= r
<1>1. PICK q \in S : \A r \in S : ~(<<r, q>> \in OpToRel(<, Nat))
  BY WFMin, NatLessThanWellFounded
<1>2. \A r \in S : ~(r < q)
  BY <1>1 DEF OpToRel
<1> QED BY <1>2

(* Different ranks, as many as there are, are all of them.                   *)
LEMMA RanksAreAll ==
  ASSUME NEW n \in Nat, NEW D, IsFiniteSet(D), Cardinality(D) = n, NEW f \in [D -> 1..n],
         \A i, j \in D : f[i] = f[j] => i = j
  PROVE  \A r \in 1..n : \E i \in D : f[i] = r
<1> DEFINE R == {f[i] : i \in D}
<1>1. IsFiniteSet(1..n) /\ Cardinality(1..n) = n
  BY FS_Interval
<1>2. R \subseteq 1..n
  OBVIOUS
<1>3. f \in Bijection(D, R)
  BY DEF Bijection, Injection, Surjection, IsInjective
<1>4. IsFiniteSet(R) /\ Cardinality(R) = n
  BY <1>3, FS_Bijection DEF ExistsBijection
<1> HIDE DEF R
<1>5. R = 1..n
  BY <1>1, <1>2, <1>4, FS_Subset
<1> QED BY <1>5 DEF R

LEMMA FunctionIsSeq ==
  ASSUME NEW X, NEW n \in Nat, NEW f \in [1..n -> X]
  PROVE  f \in Seq(X) /\ Len(f) = n /\ DOMAIN f = 1..n
  OBVIOUS

LEMMA UpToAll ==
  ASSUME NEW N \in Nat, NEW T, 0 \in T, \A n \in 0..N : n < N /\ n \in T => n + 1 \in T
  PROVE  \A n \in 0..N : n \in T
<1> DEFINE Bad == {n \in 0..N : n \notin T}
<1>1. SUFFICES ASSUME Bad # {} PROVE FALSE
  OBVIOUS
<1>2. PICK n \in Bad : \A k \in Bad : n <= k
  <2>1. Bad \subseteq Nat
    OBVIOUS
  <2> HIDE DEF Bad
  <2> QED BY <1>1, <2>1, LeastNumber
<1>3. n \in 0..N /\ n \notin T /\ n # 0
  BY <1>2
<1>4. n - 1 \in 0..N /\ n - 1 < N /\ ~(n <= n - 1) /\ (n - 1) + 1 = n
  BY <1>3
<1>5. n - 1 \in T
  BY <1>2, <1>4
<1> HIDE DEF Bad
<1> QED BY <1>3, <1>4, <1>5

LEMMA FiniteImage ==
  ASSUME NEW D, IsFiniteSet(D), NEW f, DOMAIN f = D
  PROVE  IsFiniteSet({f[d] : d \in D})
<1> DEFINE R == {f[d] : d \in D}
           g == [d \in D |-> f[d]]
<1>1. g \in Surjection(D, R)
  BY DEF Surjection
<1> HIDE DEF R, g
<1> QED BY <1>1, FS_Surjection DEF R

(* A relation that puts each two members of a set in an order.               *)
Orders(S, R) ==
  /\ \A x \in S : <<x, x>> \notin R
  /\ \A x, y, z \in S : <<x, y>> \in R /\ <<y, z>> \in R => <<x, z>> \in R
  /\ \A x, y \in S : x = y \/ <<x, y>> \in R \/ <<y, x>> \in R

(* A finite set in an order has each member once, in its place.              *)
LEMMA InOrderOf ==
  ASSUME NEW S, IsFiniteSet(S), NEW R, Orders(S, R)
  PROVE  /\ InOrder(S, R) \in Seq(S)
         /\ Len(InOrder(S, R)) = Cardinality(S) /\ Cardinality(S) \in Nat
         /\ DOMAIN InOrder(S, R) = 1..Cardinality(S)
         /\ \A x \in S : \E r \in 1..Cardinality(S) : InOrder(S, R)[r] = x
         /\ \A i, j \in 1..Cardinality(S) :
               i < j => <<InOrder(S, R)[i], InOrder(S, R)[j]>> \in R
         /\ \A i, j \in 1..Cardinality(S) :
               InOrder(S, R)[i] = InOrder(S, R)[j] => i = j
<1> DEFINE n == Cardinality(S)
           Below(x) == {y \in S : <<y, x>> \in R}
           f == [x \in S |-> Cardinality(Below(x)) + 1]
           s == InOrder(S, R)
<1>1. n \in Nat
  BY FS_CardinalityType
<1>2. \A x \in S : /\ IsFiniteSet(Below(x)) /\ Cardinality(Below(x)) \in Nat
                   /\ Cardinality(Below(x)) < n
  <2> TAKE x \in S
  <2>1. Below(x) \subseteq S /\ x \notin Below(x)
    BY DEF Orders
  <2> HIDE DEF Below
  <2>2. IsFiniteSet(Below(x)) /\ Cardinality(Below(x)) <= n /\ Cardinality(Below(x)) \in Nat
    BY <2>1, FS_Subset, FS_CardinalityType
  <2>3. Cardinality(Below(x)) # n
    BY <2>1, FS_Subset
  <2> QED BY <1>1, <2>2, <2>3
<1>3. \A x, y \in S : <<x, y>> \in R => Cardinality(Below(x)) < Cardinality(Below(y))
  <2> SUFFICES ASSUME NEW x \in S, NEW y \in S, <<x, y>> \in R
               PROVE  Cardinality(Below(x)) < Cardinality(Below(y))
    OBVIOUS
  <2>1. Below(x) \subseteq Below(y) /\ x \in Below(y) /\ x \notin Below(x)
    BY DEF Orders
  <2>2. IsFiniteSet(Below(y)) /\ Cardinality(Below(x)) \in Nat /\ Cardinality(Below(y)) \in Nat
    BY <1>2
  <2> HIDE DEF Below
  <2>3. Cardinality(Below(x)) <= Cardinality(Below(y))
    BY <2>1, <2>2, FS_Subset
  <2>4. Cardinality(Below(x)) # Cardinality(Below(y))
    BY <2>1, <2>2, FS_Subset
  <2> QED BY <2>2, <2>3, <2>4
<1>4. f \in [S -> 1..n]
  <2>1. \A x \in S : Cardinality(Below(x)) + 1 \in 1..n
    <3> HIDE DEF Below, n
    <3> QED BY <1>1, <1>2
  <2> QED BY <2>1
<1>5. \A x, y \in S : f[x] = f[y] => x = y
  <2> SUFFICES ASSUME NEW x \in S, NEW y \in S, f[x] = f[y], x # y PROVE FALSE
    OBVIOUS
  <2>1. Cardinality(Below(x)) \in Nat /\ Cardinality(Below(y)) \in Nat
    BY <1>2
  <2>2. Cardinality(Below(x)) = Cardinality(Below(y))
    BY <2>1
  <2>3. <<x, y>> \in R \/ <<y, x>> \in R
    BY DEF Orders
  <2> HIDE DEF Below, f
  <2> QED BY <1>3, <2>1, <2>2, <2>3
<1>6. \A r \in 1..n : \E x \in S : f[x] = r
  <2> HIDE DEF f, n
  <2> QED BY <1>1, <1>4, <1>5, RanksAreAll DEF n
<1>7. s = [r \in 1..Cardinality(S) |->
             CHOOSE x \in S : Cardinality({y \in S : <<y, x>> \in R}) = r - 1]
  BY Zenon DEF InOrder, Cardinality, Cardinality
<1>8. \A r \in 1..n : s[r] \in S /\ f[s[r]] = r
  <2> TAKE r \in 1..n
  <2>1. \E x \in S : Cardinality(Below(x)) = r - 1
    <3>1. PICK x \in S : f[x] = r
      BY <1>6
    <3>2. Cardinality(Below(x)) \in Nat /\ f[x] = Cardinality(Below(x)) + 1
      BY <1>2
    <3> HIDE DEF Below, f
    <3> QED BY <1>1, <3>1, <3>2
  <2>2. s[r] = CHOOSE x \in S : Cardinality(Below(x)) = r - 1
    <3> HIDE DEF s
    <3> QED BY <1>7
  <2>3. s[r] \in S /\ Cardinality(Below(s[r])) = r - 1
    BY <2>1, <2>2
  <2> HIDE DEF s
  <2> QED BY <1>1, <2>3
<1>9. DOMAIN s = 1..n /\ s = [r \in 1..n |-> s[r]]
  <2> HIDE DEF s, n
  <2> DEFINE at(r) == CHOOSE x \in S : Cardinality({y \in S : <<y, x>> \in R}) = r - 1
  <2>1. s = [r \in 1..n |-> at(r)]
    BY <1>7 DEF n
  <2> HIDE DEF at
  <2> QED BY <2>1
<1> HIDE DEF s, n
<1>10. s \in [1..n -> S]
  BY <1>8, <1>9
<1>11. s \in Seq(S) /\ Len(s) = n
  BY <1>1, <1>10, FunctionIsSeq
<1> HIDE DEF f
<1>12. \A x \in S : \E r \in 1..n : s[r] = x
  BY <1>4, <1>5, <1>8
<1>13. \A i, j \in 1..n : s[i] = s[j] => i = j
  BY <1>8
<1>14. \A i, j \in 1..n : i < j => <<s[i], s[j]>> \in R
  <2> SUFFICES ASSUME NEW i \in 1..n, NEW j \in 1..n, i < j, <<s[i], s[j]>> \notin R PROVE FALSE
    OBVIOUS
  <2>1. s[i] \in S /\ s[j] \in S /\ f[s[i]] = i /\ f[s[j]] = j
    BY <1>8
  <2>2. s[i] # s[j]
    BY <1>1, <1>13
  <2>3. <<s[j], s[i]>> \in R
    BY <2>1, <2>2 DEF Orders
  <2>4. Cardinality(Below(s[j])) < Cardinality(Below(s[i]))
    BY <1>3, <2>1, <2>3
  <2>5. /\ f[s[i]] = Cardinality(Below(s[i])) + 1 /\ f[s[j]] = Cardinality(Below(s[j])) + 1
        /\ Cardinality(Below(s[i])) \in Nat /\ Cardinality(Below(s[j])) \in Nat
    BY <1>2, <2>1 DEF f
  <2> HIDE DEF Below
  <2> QED BY <1>1, <2>1, <2>4, <2>5
<1> QED BY <1>1, <1>9, <1>11, <1>12, <1>13, <1>14 DEF s, n

-----------------------------------------------------------------------------
(* A snippet with a place has both bounds; one without has neither.          *)
Snipped == {s \in Snippets : s.start = None => s.end = None}

LEMMA SnippetIs ==
  ASSUME NEW s \in Snipped
  PROVE  /\ s = [kind |-> s.kind, start |-> s.start, end |-> s.end, text |-> s.text]
         /\ s.kind \in Int /\ s.start \in Nat /\ s.end \in Nat /\ s.text \in Int
         /\ s.start = 0 => s.end = 0
BY DEF Snipped, Snippets, None

Precedes(s, t) ==
  \/ s.kind < t.kind
  \/ s.kind = t.kind /\ \/ s.start < t.start
                        \/ s.start = t.start /\ \/ s.end < t.end
                                                \/ s.end = t.end /\ s.text < t.text

LEMMA EarlierIs ==
  ASSUME NEW s \in Snipped, NEW t \in Snipped
  PROVE  Earlier(s, t) <=> Precedes(s, t)
<1>1. /\ SortKey(s)[1] = s.kind /\ SortKey(s)[2] = s.start
      /\ SortKey(s)[3] = s.end /\ SortKey(s)[4] = s.text
  BY SnippetIs DEF SortKey, None
<1>2. /\ SortKey(t)[1] = t.kind /\ SortKey(t)[2] = t.start
      /\ SortKey(t)[3] = t.end /\ SortKey(t)[4] = t.text
  BY SnippetIs DEF SortKey, None
<1> DEFINE a == SortKey(s)
           b == SortKey(t)
           At(i) == a[i] < b[i] /\ \A j \in 1..i - 1 : a[j] = b[j]
<1>3. Earlier(s, t) <=> \E i \in 1..4 : At(i)
  BY DEF Earlier
<1> HIDE DEF a, b
<1>4. /\ At(1) <=> a[1] < b[1]
      /\ At(2) <=> a[2] < b[2] /\ a[1] = b[1]
      /\ At(3) <=> a[3] < b[3] /\ a[1] = b[1] /\ a[2] = b[2]
      /\ At(4) <=> a[4] < b[4] /\ a[1] = b[1] /\ a[2] = b[2] /\ a[3] = b[3]
  <2>1. 1..1 - 1 = {} /\ 1..2 - 1 = {1} /\ 1..3 - 1 = {1, 2} /\ 1..4 - 1 = {1, 2, 3}
    OBVIOUS
  <2> QED BY <2>1
<1>5. (\E i \in 1..4 : At(i)) <=> At(1) \/ At(2) \/ At(3) \/ At(4)
  <2>1. 1..4 = {1, 2, 3, 4}
    OBVIOUS
  <2> HIDE DEF At
  <2> QED BY <2>1
<1>6. /\ a[1] = s.kind /\ a[2] = s.start /\ a[3] = s.end /\ a[4] = s.text
      /\ b[1] = t.kind /\ b[2] = t.start /\ b[3] = t.end /\ b[4] = t.text
  BY <1>1, <1>2 DEF a, b
<1> HIDE DEF At
<1> QED BY <1>3, <1>4, <1>5, <1>6 DEF Precedes

Before(S) == {p \in S \X S : Earlier(p[1], p[2])}

LEMMA BeforeIs ==
  ASSUME NEW S \in SUBSET Snipped, NEW s \in S, NEW t \in S
  PROVE  <<s, t>> \in Before(S) <=> Precedes(s, t)
BY EarlierIs DEF Before

LEMMA SnippetsOrdered ==
  ASSUME NEW S \in SUBSET Snipped,
         \A s, t \in S : s.start = t.start /\ s.end = t.end /\ s.text = t.text => s = t
  PROVE  Orders(S, Before(S))
<1>1. \A s \in S : /\ s.kind \in Int /\ s.start \in Nat /\ s.end \in Nat /\ s.text \in Int
  BY SnippetIs
<1>2. \A s \in S : <<s, s>> \notin Before(S)
  BY <1>1, BeforeIs DEF Precedes
<1>3. \A s, t, u \in S : Precedes(s, t) /\ Precedes(t, u) => Precedes(s, u)
  BY <1>1 DEF Precedes
<1>4. \A s, t \in S : s = t \/ Precedes(s, t) \/ Precedes(t, s)
  BY <1>1 DEF Precedes
<1> QED BY <1>2, <1>3, <1>4, BeforeIs DEF Orders

(* What a snippet shows of the text of its paper, and where a part of it is  *)
(* after its end was cut.                                                    *)
Covers(s, x) == s.start # 0 /\ s.start <= x /\ x < s.end
CutOf(s, z)  == s.kind = z.kind /\ s.start = z.start /\ s.text = z.text /\ s.end <= z.end
OnFrom(m, s) == m.kind < s.kind \/ (m.kind = s.kind /\ m.start >= s.start)
Continued(s, z, M) == \A x \in Nat : Covers(z, x) /\ ~Covers(s, x) =>
                          \E m \in M : Covers(m, x) /\ OnFrom(m, s)
Inside(Z) == \E s, t \in Z : s.start # 0 /\ t.start # 0 /\ s.start < t.start /\ t.end < s.end

CutAt(list, i) ==
  IF i < Len(list) /\ Overlap(list[i], list[i + 1])
  THEN [list[i] EXCEPT !.end = list[i + 1].start] ELSE list[i]

LEMMA EndMoved ==
  ASSUME NEW s \in Snipped, NEW e
  PROVE  [s EXCEPT !.end = e] = [kind |-> s.kind, start |-> s.start, end |-> e, text |-> s.text]
BY DEF Snipped, Snippets

LEMMA CutIs ==
  ASSUME NEW list \in Seq(Snipped), NEW i \in 1..Len(list),
         i < Len(list) => Precedes(list[i], list[i + 1])
  PROVE  /\ CutAt(list, i) \in Snipped /\ CutOf(CutAt(list, i), list[i])
         /\ \A x \in Nat : Covers(list[i], x) =>
               \/ Covers(CutAt(list, i), x)
               \/ /\ i < Len(list) /\ list[i + 1].start # 0 /\ list[i + 1].kind = list[i].kind
                  /\ list[i].start <= list[i + 1].start /\ list[i + 1].start <= x
<1>1. list[i] \in Snipped /\ Len(list) \in Nat
  OBVIOUS
<1>2. CASE i < Len(list) /\ Overlap(list[i], list[i + 1])
  <2>1. i + 1 \in 1..Len(list)
    BY <1>1, <1>2
  <2>2. list[i + 1] \in Snipped
    BY <2>1
  <2>3. CutAt(list, i) = [kind |-> list[i].kind, start |-> list[i].start,
                          end |-> list[i + 1].start, text |-> list[i].text]
    <3>1. CutAt(list, i) = [list[i] EXCEPT !.end = list[i + 1].start]
      BY <1>2 DEF CutAt
    <3> QED BY <1>1, <3>1, EndMoved
  <2>4. /\ list[i].start # 0 /\ list[i + 1].start # 0
        /\ list[i].kind = list[i + 1].kind /\ list[i].end > list[i + 1].start
    BY <1>2 DEF Overlap, None
  <2>5. /\ list[i].start \in Nat /\ list[i].end \in Nat /\ list[i].kind \in Int
        /\ list[i].text \in Int /\ list[i + 1].start \in Nat /\ list[i + 1].kind \in Int
    BY <1>1, <2>2, SnippetIs
  <2>6. list[i].start <= list[i + 1].start
    BY <1>2, <2>4, <2>5 DEF Precedes
  <2>7. CutAt(list, i) \in Snipped
    <3> DEFINE c == [kind |-> list[i].kind, start |-> list[i].start,
                     end |-> list[i + 1].start, text |-> list[i].text]
    <3>1. c \in Snippets /\ c.start = list[i].start
      BY <2>5 DEF Snippets
    <3>2. c \in Snipped
      BY <2>4, <3>1 DEF Snipped, None
    <3> QED BY <2>3, <3>2
  <2> QED BY <1>2, <2>3, <2>4, <2>5, <2>6, <2>7 DEF CutOf, Covers
<1>3. CASE ~(i < Len(list) /\ Overlap(list[i], list[i + 1]))
  <2>1. CutAt(list, i) = list[i]
    BY <1>3 DEF CutAt
  <2>2. list[i].end \in Nat
    BY <1>1, SnippetIs
  <2> QED BY <1>1, <2>1, <2>2 DEF CutOf
<1> QED BY <1>2, <1>3

(* Of each key the first place that has it.                                  *)
LEMMA FirstsAre ==
  ASSUME NEW n \in Nat, NEW keys, DOMAIN keys = 1..n
  PROVE  /\ Firsts(keys) \subseteq 1..n /\ IsFiniteSet(Firsts(keys))
         /\ \A i \in 1..n : \E j \in Firsts(keys) : j <= i /\ keys[j] = keys[i]
         /\ \A i, j \in Firsts(keys) : keys[i] = keys[j] => i = j
<1>1. Firsts(keys) = {i \in 1..n : \A j \in 1..i - 1 : keys[j] # keys[i]}
  BY DEF Firsts
<1>2. IsFiniteSet(1..n)
  BY FS_Interval
<1>3. IsFiniteSet(Firsts(keys)) /\ Firsts(keys) \subseteq 1..n
  <2>1. Firsts(keys) \subseteq 1..n
    BY <1>1
  <2> QED BY <1>2, <2>1, FS_Subset
<1>4. ASSUME NEW i \in 1..n PROVE \E j \in Firsts(keys) : j <= i /\ keys[j] = keys[i]
  <2> DEFINE Same == {j \in 1..n : keys[j] = keys[i]}
  <2>1. Same \in SUBSET Nat /\ i \in Same /\ \A j : j \in Same <=> j \in 1..n /\ keys[j] = keys[i]
    OBVIOUS
  <2> HIDE DEF Same
  <2>2. PICK j \in Same : \A k \in Same : j <= k
    BY <2>1, LeastNumber
  <2>3. j \in 1..n /\ keys[j] = keys[i] /\ j <= i
    BY <2>1, <2>2
  <2>4. \A k \in 1..j - 1 : k \in 1..n /\ ~(j <= k)
    BY <2>3
  <2>5. \A k \in 1..j - 1 : keys[k] # keys[j]
    BY <2>1, <2>2, <2>3, <2>4
  <2> QED BY <1>1, <2>3, <2>5
<1>5. \A i, j \in Firsts(keys) : keys[i] = keys[j] => i = j
  <2> SUFFICES ASSUME NEW i \in Firsts(keys), NEW j \in Firsts(keys),
                      keys[i] = keys[j]
               PROVE  ~(i < j) /\ ~(j < i)
    BY <1>1
  <2>1. i \in 1..n /\ j \in 1..n
    BY <1>1
  <2>2. /\ \A k \in 1..i - 1 : keys[k] # keys[i]
        /\ \A k \in 1..j - 1 : keys[k] # keys[j]
    BY <1>1
  <2>3. i < j => i \in 1..j - 1
    BY <2>1
  <2>4. j < i => j \in 1..i - 1
    BY <2>1
  <2> QED BY <2>2, <2>3, <2>4
<1> QED BY <1>3, <1>4, <1>5

Keys(list)     == [i \in DOMAIN list |-> <<list[i].start, list[i].end, list[i].text>>]
Distinct(list) == {list[i] : i \in Firsts(Keys(list))}
Sorted(list)   == InOrder(Distinct(list), Before(Distinct(list)))

LEMMA DistinctAre ==
  ASSUME NEW list \in Seq(Snipped)
  PROVE  /\ Distinct(list) \in SUBSET Snipped /\ IsFiniteSet(Distinct(list))
         /\ \A s \in Distinct(list) : \E i \in 1..Len(list) : list[i] = s
         /\ \A s, t \in Distinct(list) :
               s.start = t.start /\ s.end = t.end /\ s.text = t.text => s = t
         /\ \A i \in 1..Len(list) : \E j \in 1..i :
               /\ list[j] \in Distinct(list) /\ list[j].start = list[i].start
               /\ list[j].end = list[i].end /\ list[j].text = list[i].text
<1> DEFINE n == Len(list)
           keys == Keys(list)
           F == Firsts(keys)
<1>1. n \in Nat /\ DOMAIN list = 1..n /\ \A i \in 1..n : list[i] \in Snipped
  OBVIOUS
<1>2. DOMAIN keys = 1..n /\ \A i \in 1..n : keys[i] = <<list[i].start, list[i].end, list[i].text>>
  BY <1>1 DEF Keys
<1> HIDE DEF keys, n
<1>3. /\ F \subseteq 1..n /\ IsFiniteSet(F)
      /\ \A i \in 1..n : \E j \in F : j <= i /\ keys[j] = keys[i]
      /\ \A i, j \in F : keys[i] = keys[j] => i = j
  BY <1>1, <1>2, FirstsAre
<1> HIDE DEF F
<1>4. Distinct(list) = {list[i] : i \in F}
  BY DEF Distinct, F, keys
<1>5. IsFiniteSet(Distinct(list))
  <2> DEFINE f == [i \in F |-> list[i]]
  <2>1. DOMAIN f = F /\ \A i \in F : f[i] = list[i]
    OBVIOUS
  <2> HIDE DEF f
  <2>2. IsFiniteSet({f[i] : i \in F})
    BY <1>3, <2>1, FiniteImage
  <2>3. {f[i] : i \in F} = {list[i] : i \in F}
    BY <2>1
  <2> QED BY <1>4, <2>2, <2>3
<1>6. \A s, t \in Distinct(list) : s.start = t.start /\ s.end = t.end /\ s.text = t.text => s = t
  <2> SUFFICES ASSUME NEW i \in F, NEW j \in F, list[i].start = list[j].start,
                      list[i].end = list[j].end, list[i].text = list[j].text
               PROVE  list[i] = list[j]
    BY <1>4
  <2>1. i \in 1..n /\ j \in 1..n
    BY <1>3
  <2>2. keys[i] = <<list[i].start, list[i].end, list[i].text>>
    BY <1>2, <2>1
  <2>3. keys[j] = <<list[j].start, list[j].end, list[j].text>>
    BY <1>2, <2>1
  <2>4. keys[i] = keys[j]
    BY <2>2, <2>3
  <2> QED BY <1>3, <2>4
<1>7. ASSUME NEW i \in 1..n
      PROVE  \E j \in 1..i : /\ list[j] \in Distinct(list) /\ list[j].start = list[i].start
                             /\ list[j].end = list[i].end /\ list[j].text = list[i].text
  <2>1. PICK j \in F : j <= i /\ keys[j] = keys[i]
    BY <1>3
  <2>2. j \in 1..n /\ j \in 1..i
    BY <1>1, <1>3, <2>1
  <2> QED BY <1>2, <1>4, <2>1, <2>2
<1> QED BY <1>1, <1>3, <1>4, <1>5, <1>6, <1>7 DEF n

(* The snippets fused are those of a list, in their order, some of them cut. *)
LEMMA FuseSnippetIs ==
  ASSUME NEW list \in Seq(Snipped)
  PROVE  /\ Sorted(list) \in Seq(Snipped)
         /\ \A i \in 1..Len(Sorted(list)) : Sorted(list)[i] \in Distinct(list)
         /\ \A s \in Distinct(list) : \E i \in 1..Len(Sorted(list)) : Sorted(list)[i] = s
         /\ \A i, j \in 1..Len(Sorted(list)) : i < j => Precedes(Sorted(list)[i], Sorted(list)[j])
         /\ FuseSnippet(list) \in Seq(Snipped)
         /\ Len(FuseSnippet(list)) = Len(Sorted(list))
         /\ \A i \in 1..Len(Sorted(list)) : FuseSnippet(list)[i] = CutAt(Sorted(list), i)
<1> DEFINE D == Distinct(list)
           o == Sorted(list)
           n == Len(o)
<1>1. D \in SUBSET Snipped /\ IsFiniteSet(D) /\ Orders(D, Before(D))
  BY DistinctAre, SnippetsOrdered
<1>2. /\ o \in Seq(D) /\ n = Cardinality(D) /\ n \in Nat /\ DOMAIN o = 1..n
      /\ \A x \in D : \E r \in 1..n : o[r] = x
      /\ \A i, j \in 1..n : i < j => <<o[i], o[j]>> \in Before(D)
  <2> HIDE DEF D
  <2>1. o = InOrder(D, Before(D))
    BY DEF Sorted, D
  <2> HIDE DEF o
  <2> QED BY <1>1, <2>1, InOrderOf
<1>3. FuseSnippet(list) = CleanOverlaps(o)
  BY DEF FuseSnippet, Sorted, Distinct, Keys, Before
<1> HIDE DEF D, o
<1>4. \A i \in 1..n : o[i] \in D /\ o[i] \in Snipped
  BY <1>1, <1>2
<1>5. o \in Seq(Snipped)
  BY <1>1, <1>2
<1>6. \A i, j \in 1..n : i < j => Precedes(o[i], o[j])
  BY <1>1, <1>2, <1>4, BeforeIs
<1>7. \A i \in 1..n : CutAt(o, i) \in Snipped
  <2> TAKE i \in 1..n
  <2>1. i < Len(o) => Precedes(o[i], o[i + 1])
    <3>1. i < n => i + 1 \in 1..n /\ i < i + 1
      BY <1>2
    <3> QED BY <1>6, <3>1
  <2> QED BY <1>5, <2>1, CutIs
<1>8. CleanOverlaps(o) = [i \in 1..n |-> CutAt(o, i)]
  BY <1>2 DEF CleanOverlaps, CutAt
<1> DEFINE f == [i \in 1..n |-> CutAt(o, i)]
<1>9. f \in [1..n -> Snipped]
  BY <1>7
<1>10. f \in Seq(Snipped) /\ Len(f) = n /\ \A i \in 1..n : f[i] = CutAt(o, i)
  <2>1. \A i \in 1..n : f[i] = CutAt(o, i)
    OBVIOUS
  <2> HIDE DEF f
  <2> QED BY <1>2, <1>9, <2>1, FunctionIsSeq
<1> QED BY <1>2, <1>3, <1>4, <1>5, <1>6, <1>8, <1>10 DEF D, o

(* A list stands for the snippets of Z when it has parts of them, shows all  *)
(* that they show, and where one of them was cut goes on in another; it is   *)
(* as it was found or sorted by kinds.                                       *)
Partly(s, Z, M) == \E z \in Z : CutOf(s, z) /\ Continued(s, z, M)
Showing(Z, M)   == \A z \in Z, x \in Nat : Covers(z, x) => \E m \in M : Covers(m, x)
Stands(list, Z) ==
  /\ list \in Seq(Snipped)
  /\ \A i \in 1..Len(list) : Partly(list[i], Z, Members(list))
  /\ Showing(Z, Members(list))
  /\ \/ Members(list) \subseteq Z
     \/ \A i, j \in 1..Len(list) : i <= j => list[i].kind <= list[j].kind

LEMMA MembersOf ==
  ASSUME NEW X, NEW list \in Seq(X)
  PROVE  /\ Len(list) \in Nat /\ DOMAIN list = 1..Len(list)
         /\ Members(list) = {list[i] : i \in 1..Len(list)} /\ Members(list) \subseteq X
BY DEF Members

LEMMA Joint ==
  ASSUME NEW X, NEW a \in Seq(X), NEW b \in Seq(X)
  PROVE  /\ a \o b \in Seq(X) /\ Len(a \o b) = Len(a) + Len(b)
         /\ \A i \in 1..Len(a) : (a \o b)[i] = a[i]
         /\ \A i \in 1..Len(b) : (a \o b)[Len(a) + i] = b[i]
         /\ \A i \in 1..Len(a \o b) : i \notin 1..Len(a) => i - Len(a) \in 1..Len(b)
         /\ Members(a \o b) = Members(a) \cup Members(b)
<1>1. /\ a \o b \in Seq(X) /\ Len(a \o b) = Len(a) + Len(b)
      /\ Len(a) \in Nat /\ Len(b) \in Nat
  OBVIOUS
<1>2. /\ \A i \in 1..Len(a) : (a \o b)[i] = a[i]
      /\ \A i \in 1..Len(b) : (a \o b)[Len(a) + i] = b[i]
  OBVIOUS
<1> DEFINE c == a \o b
<1>3. \A i \in 1..Len(a) : i \in 1..Len(c)
  BY <1>1
<1>4. \A i \in 1..Len(b) : Len(a) + i \in 1..Len(c)
  BY <1>1
<1>5. \A i \in 1..Len(c) : i \notin 1..Len(a) => i - Len(a) \in 1..Len(b) /\ Len(a) + (i - Len(a)) = i
  BY <1>1
<1>6. /\ Members(a) = {a[i] : i \in 1..Len(a)} /\ Members(b) = {b[i] : i \in 1..Len(b)}
      /\ Members(c) = {c[i] : i \in 1..Len(c)}
  BY <1>1 DEF Members
<1> HIDE DEF c
<1>7. Members(c) \subseteq Members(a) \cup Members(b)
  <2> SUFFICES ASSUME NEW i \in 1..Len(c) PROVE c[i] \in Members(a) \cup Members(b)
    BY <1>6
  <2>1. CASE i \in 1..Len(a)
    BY <1>2, <1>6, <2>1 DEF c
  <2>2. CASE i \notin 1..Len(a)
    BY <1>2, <1>5, <1>6, <2>2 DEF c
  <2> QED BY <2>1, <2>2
<1>8. Members(a) \subseteq Members(c) /\ Members(b) \subseteq Members(c)
  BY <1>2, <1>3, <1>4, <1>6 DEF c
<1> QED BY <1>1, <1>2, <1>5, <1>7, <1>8 DEF c

LEMMA DistinctStand ==
  ASSUME NEW Z \in SUBSET Snipped, NEW Y \in SUBSET Snipped,
         NEW a \in Seq(Snipped), NEW b \in Seq(Snipped), Stands(a, Z),
         \A i \in 1..Len(b) : b[i] \in Y \/ b[i] \in Members(a),
         Showing(Y, Members(a \o b))
  PROVE  /\ \A s \in Distinct(a \o b) : Partly(s, Z \cup Y, Distinct(a \o b))
         /\ Showing(Z \cup Y, Distinct(a \o b))
<1> DEFINE list == a \o b
           D == Distinct(list)
<1>1. /\ list \in Seq(Snipped) /\ Len(list) = Len(a) + Len(b)
      /\ \A i \in 1..Len(a) : list[i] = a[i]
      /\ \A i \in 1..Len(b) : list[Len(a) + i] = b[i]
      /\ \A i \in 1..Len(list) : i \notin 1..Len(a) => i - Len(a) \in 1..Len(b)
      /\ Members(list) = Members(a) \cup Members(b)
  BY Joint
<1>2. /\ Len(a) \in Nat /\ Members(a) = {a[i] : i \in 1..Len(a)}
      /\ Len(b) \in Nat /\ Members(list) = {list[i] : i \in 1..Len(list)}
      /\ Len(list) \in Nat
      /\ Members(a) \subseteq Snipped /\ Members(list) \subseteq Snipped
  BY <1>1, MembersOf
<1> HIDE DEF list
<1>3. /\ D \in SUBSET Snipped /\ \A s \in D : \E i \in 1..Len(list) : list[i] = s
      /\ \A i \in 1..Len(list) : \E j \in 1..i :
               /\ list[j] \in D /\ list[j].start = list[i].start
               /\ list[j].end = list[i].end /\ list[j].text = list[i].text
  BY <1>1, DistinctAre
<1> HIDE DEF D
<1>4. \A m \in Members(list), x \in Nat : Covers(m, x) => \E d \in D : Covers(d, x)
  <2> SUFFICES ASSUME NEW i \in 1..Len(list), NEW x \in Nat, Covers(list[i], x)
               PROVE  \E d \in D : Covers(d, x)
    BY <1>2
  <2> QED BY <1>3 DEF Covers
<1>5. Showing(Z \cup Y, D)
  <2> SUFFICES ASSUME NEW z \in Z \cup Y, NEW x \in Nat, Covers(z, x)
               PROVE  \E m \in Members(list) : Covers(m, x)
    BY <1>4 DEF Showing
  <2>1. Showing(Z, Members(a)) /\ Showing(Y, Members(list))
    BY DEF Stands, list
  <2> QED BY <1>1, <2>1 DEF Showing
<1>6. ASSUME NEW s \in Snipped, s \in Y \/ s \in Z PROVE Partly(s, Z \cup Y, D)
  <2>1. s.kind \in Int /\ s.start \in Nat /\ s.end \in Nat
    BY SnippetIs
  <2>2. CutOf(s, s) /\ Continued(s, s, D)
    BY <2>1 DEF CutOf, Continued
  <2> QED BY <1>6, <2>2 DEF Partly
<1>7. ASSUME NEW s \in Members(a) PROVE Partly(s, Z \cup Y, D)
  <2>1. CASE Members(a) \subseteq Z
    BY <1>2, <1>6, <2>1
  <2>2. CASE \A i, j \in 1..Len(a) : i <= j => a[i].kind <= a[j].kind
    <3>1. PICK z \in Z : CutOf(s, z) /\ Continued(s, z, Members(a))
      BY <1>2 DEF Stands, Partly
    <3>2. ASSUME NEW x \in Nat, Covers(z, x), ~Covers(s, x)
          PROVE  \E m \in D : Covers(m, x) /\ OnFrom(m, s)
      <4>1. PICK j \in 1..Len(a) : Covers(a[j], x) /\ OnFrom(a[j], s)
        BY <1>2, <3>1, <3>2 DEF Continued
      <4>2. j \in 1..Len(list) /\ list[j] = a[j]
        BY <1>1, <1>2
      <4>3. PICK k \in 1..j : /\ list[k] \in D /\ list[k].start = list[j].start
                              /\ list[k].end = list[j].end
        BY <1>3, <4>2
      <4>4. k \in 1..Len(a) /\ k <= j
        BY <1>2
      <4>5. list[k] = a[k] /\ a[k].kind <= a[j].kind
        BY <1>1, <2>2, <4>4
      <4>6. a[k] \in Snipped /\ a[j] \in Snipped /\ s \in Snipped
        BY <1>2, <4>4
      <4>7. /\ a[k].kind \in Int /\ a[j].kind \in Int /\ s.kind \in Int
            /\ a[k].start \in Nat /\ a[j].start \in Nat /\ s.start \in Nat
        BY <4>6, SnippetIs
      <4>8. a[k].start = a[j].start /\ a[k].end = a[j].end
        BY <4>2, <4>3, <4>5
      <4>9. Covers(a[k], x)
        BY <4>1, <4>8 DEF Covers
      <4>10. OnFrom(a[k], s)
        BY <4>1, <4>5, <4>7, <4>8 DEF OnFrom
      <4> QED BY <4>3, <4>5, <4>9, <4>10
    <3> QED BY <3>1, <3>2 DEF Partly, Continued
  <2> QED BY <2>1, <2>2 DEF Stands
<1>8. ASSUME NEW s \in D PROVE Partly(s, Z \cup Y, D)
  <2>1. PICK i \in 1..Len(list) : list[i] = s
    BY <1>3
  <2>2. CASE i \in 1..Len(a)
    BY <1>1, <1>2, <1>7, <2>1, <2>2
  <2>3. CASE i \notin 1..Len(a)
    <3>1. i - Len(a) \in 1..Len(b) /\ Len(a) + (i - Len(a)) = i
      BY <1>1, <1>2, <2>3
    <3>2. s = b[i - Len(a)]
      BY <1>1, <2>1, <3>1
    <3>3. s \in Y \/ s \in Members(a)
      BY <3>1, <3>2
    <3>4. s \in Snipped
      BY <1>3
    <3> QED BY <1>6, <1>7, <3>3, <3>4
  <2> QED BY <2>2, <2>3
<1> QED BY <1>5, <1>8 DEF list, D

LEMMA GreatestNumber ==
  ASSUME NEW n \in Nat, NEW S \in SUBSET (1..n), S # {}
  PROVE  \E q \in S : \A r \in S : r <= q
<1> DEFINE T == {n - q : q \in S}
<1>1. T \in SUBSET Nat /\ T # {}
  <2>1. \A q \in S : q \in 1..n
    OBVIOUS
  <2>2. \A q \in S : n - q \in Nat
    BY <2>1
  <2>3. PICK q \in S : TRUE
    OBVIOUS
  <2> QED BY <2>2, <2>3
<1>2. PICK t \in T : \A r \in T : t <= r
  <2> HIDE DEF T
  <2> QED BY <1>1, LeastNumber
<1>3. PICK q \in S : t = n - q
  OBVIOUS
<1>4. \A r \in S : n - q <= n - r
  BY <1>2, <1>3
<1> QED BY <1>4

(* What a snippet shows is still shown after the cuts, by one that comes no  *)
(* earlier: of those that show it the last of the first kind is not cut.     *)
LEMMA NothingCutAway ==
  ASSUME NEW Z \in SUBSET Snipped, ~Inside(Z), NEW list \in Seq(Snipped),
         \A s \in Distinct(list) : Partly(s, Z, Distinct(list)),
         NEW s \in Snipped, NEW x \in Nat,
         \E m \in Distinct(list) : Covers(m, x) /\ OnFrom(m, s)
  PROVE  \E q \in 1..Len(Sorted(list)) : /\ Covers(CutAt(Sorted(list), q), x)
                                         /\ OnFrom(Sorted(list)[q], s)
<1> DEFINE D == Distinct(list)
           o == Sorted(list)
           n == Len(o)
           On == {i \in 1..n : Covers(o[i], x) /\ OnFrom(o[i], s)}
<1>1. /\ o \in Seq(Snipped) /\ n \in Nat
      /\ \A i \in 1..n : o[i] \in D
      /\ \A d \in D : \E i \in 1..n : o[i] = d
      /\ \A i, j \in 1..n : i < j => Precedes(o[i], o[j])
  BY FuseSnippetIs
<1>2. /\ \A d \in D : Partly(d, Z, D)
      /\ \E m \in D : Covers(m, x) /\ OnFrom(m, s)
  OBVIOUS
<1> HIDE DEF D, o
<1>3. \A i \in 1..n : /\ o[i] \in Snipped /\ o[i].kind \in Int /\ o[i].start \in Nat
                      /\ o[i].end \in Nat
  BY <1>1, SnippetIs
<1>4. s.kind \in Int /\ s.start \in Nat
  BY SnippetIs
<1>5. On \in SUBSET Nat /\ On \in SUBSET (1..n) /\ On # {}
  BY <1>1, <1>2, SMTT(60)
<1>6. \A i : i \in On <=> i \in 1..n /\ Covers(o[i], x) /\ OnFrom(o[i], s)
  OBVIOUS
<1> HIDE DEF On
<1>7. PICK p \in On : \A i \in On : p <= i
  BY <1>5, LeastNumber
<1> DEFINE Kind == {i \in On : o[i].kind = o[p].kind}
<1>8. Kind \in SUBSET (1..n) /\ Kind # {} /\ \A i : i \in Kind <=> i \in On /\ o[i].kind = o[p].kind
  BY <1>5
<1> HIDE DEF Kind
<1>9. PICK q \in Kind : \A i \in Kind : i <= q
  BY <1>1, <1>8, GreatestNumber
<1>10. /\ p \in 1..n /\ q \in 1..n /\ q \in On /\ o[q].kind = o[p].kind
       /\ Covers(o[q], x) /\ OnFrom(o[q], s)
  BY <1>6, <1>8, <1>9
<1>11. \A i \in On : o[q].kind <= o[i].kind
  <2> TAKE i \in On
  <2>1. i \in 1..n /\ p <= i
    BY <1>6, <1>7
  <2>2. p = i \/ Precedes(o[p], o[i])
    BY <1>1, <1>10, <2>1
  <2> QED BY <1>3, <1>10, <2>1, <2>2 DEF Precedes
<1>12. SUFFICES ASSUME ~Covers(CutAt(o, q), x) PROVE FALSE
  BY <1>10 DEF o
<1> DEFINE t == o[q + 1]
<1>13. /\ q < n /\ q + 1 \in 1..n /\ t.start # 0 /\ t.kind = o[q].kind
       /\ o[q].start <= t.start /\ t.start <= x
  <2>1. q < Len(o) => Precedes(o[q], o[q + 1])
    <3>1. q < n => q + 1 \in 1..n /\ q < q + 1
      BY <1>1, <1>10
    <3> QED BY <1>1, <1>10, <3>1
  <2>2. \A y \in Nat : Covers(o[q], y) =>
               \/ Covers(CutAt(o, q), y)
               \/ /\ q < Len(o) /\ o[q + 1].start # 0 /\ o[q + 1].kind = o[q].kind
                  /\ o[q].start <= o[q + 1].start /\ o[q + 1].start <= y
    BY <1>1, <1>10, <2>1, CutIs
  <2>3. q < n => q + 1 \in 1..n
    BY <1>1, <1>10
  <2> QED BY <1>10, <1>12, <2>2, <2>3
<1>14. t \in Snipped /\ t \in D /\ t.kind \in Int /\ t.start \in Nat /\ t.end \in Nat
  BY <1>1, <1>3, <1>13
<1>15. o[q] \in D /\ o[q].kind \in Int /\ o[q].start \in Nat /\ o[q].end \in Nat
  BY <1>1, <1>3, <1>10
<1>16. Precedes(o[q], t)
  <2>1. q < q + 1
    BY <1>10
  <2> QED BY <1>1, <1>10, <1>13, <2>1
<1> HIDE DEF t
<1>17. ~Covers(t, x)
  <2> SUFFICES ASSUME Covers(t, x) PROVE FALSE
    OBVIOUS
  <2>1. OnFrom(t, s)
    BY <1>4, <1>10, <1>13, <1>14, <1>15 DEF OnFrom
  <2>2. q + 1 \in Kind
    BY <1>6, <1>8, <1>10, <1>13, <2>1 DEF t
  <2> QED BY <1>9, <1>10, <2>2
<1>18. t.end <= x
  BY <1>13, <1>14, <1>17 DEF Covers
<1>19. o[q].start < t.start
  BY <1>10, <1>13, <1>14, <1>15, <1>16, <1>18 DEF Covers, Precedes
<1>20. PICK z \in Z : CutOf(t, z) /\ Continued(t, z, D)
  BY <1>2, <1>14 DEF Partly
<1>21. PICK y \in Z : CutOf(o[q], y)
  BY <1>2, <1>15 DEF Partly
<1>22. Covers(z, x)
  <2>1. y.start \in Nat /\ y.end \in Nat /\ z.start \in Nat /\ z.end \in Nat
    BY SnippetIs
  <2>2. y.start = o[q].start /\ z.start = t.start /\ o[q].end <= y.end
    BY <1>20, <1>21 DEF CutOf
  <2>3. ~(z.end < y.end)
    BY <1>10, <1>13, <1>19, <2>2 DEF Inside, Covers
  <2> QED BY <1>10, <1>13, <1>15, <2>1, <2>2, <2>3 DEF Covers
<1>23. PICK m \in D : Covers(m, x) /\ OnFrom(m, t)
  BY <1>17, <1>20, <1>22 DEF Continued
<1>24. PICK j \in 1..n : o[j] = m
  BY <1>1
<1>25. /\ o[j].kind \in Int /\ o[j].start \in Nat
  BY <1>3
<1>26. OnFrom(o[j], s)
  <2>1. o[j].kind < t.kind \/ (o[j].kind = t.kind /\ o[j].start >= t.start)
    BY <1>23, <1>24 DEF OnFrom
  <2>2. o[q].kind < s.kind \/ (o[q].kind = s.kind /\ o[q].start >= s.start)
    BY <1>10 DEF OnFrom
  <2>3. t.kind = o[q].kind
    BY <1>13
  <2>4. o[j].kind < s.kind \/ (o[j].kind = s.kind /\ o[j].start >= s.start)
    BY <1>4, <1>14, <1>15, <1>19, <1>25, <2>1, <2>2, <2>3, SMTT(60)
  <2> QED BY <2>4 DEF OnFrom
<1>27. j \in On
  BY <1>6, <1>23, <1>24, <1>26
<1>28. o[j].kind = o[q].kind /\ o[q].start < o[j].start
  BY <1>11, <1>13, <1>14, <1>15, <1>19, <1>23, <1>24, <1>25, <1>27, SMTT(60) DEF OnFrom
<1>29. j <= q /\ j # q
  BY <1>8, <1>9, <1>10, <1>15, <1>27, <1>28
<1>30. Precedes(o[j], o[q])
  <2>1. j < q
    BY <1>10, <1>29
  <2> QED BY <1>1, <1>10, <2>1
<1> QED BY <1>15, <1>25, <1>28, <1>30 DEF Precedes

LEMMA CutStand ==
  ASSUME NEW Z \in SUBSET Snipped, ~Inside(Z), NEW list \in Seq(Snipped),
         \A s \in Distinct(list) : Partly(s, Z, Distinct(list)),
         Showing(Z, Distinct(list))
  PROVE  Stands(FuseSnippet(list), Z)
<1> DEFINE D == Distinct(list)
           o == Sorted(list)
           f == FuseSnippet(list)
           n == Len(o)
<1>1. /\ o \in Seq(Snipped) /\ n \in Nat
      /\ \A i \in 1..n : o[i] \in D
      /\ \A d \in D : \E i \in 1..n : o[i] = d
      /\ \A i, j \in 1..n : i < j => Precedes(o[i], o[j])
      /\ f \in Seq(Snipped) /\ Len(f) = n /\ \A i \in 1..n : f[i] = CutAt(o, i)
  BY FuseSnippetIs
<1>2. \A s \in Snipped, x \in Nat : (\E m \in D : Covers(m, x) /\ OnFrom(m, s)) =>
         \E q \in 1..n : Covers(CutAt(o, q), x) /\ OnFrom(o[q], s)
  BY NothingCutAway
<1>3. (\A s \in D : Partly(s, Z, D)) /\ Showing(Z, D)
  OBVIOUS
<1> HIDE DEF D, o, f
<1>4. \A i \in 1..n : o[i] \in Snipped /\ o[i].kind \in Int /\ o[i].start \in Nat /\ o[i].end \in Nat
  BY <1>1, SnippetIs
<1>5. ASSUME NEW i \in 1..n
      PROVE  f[i] \in Members(f) /\ f[i] \in Snipped /\ CutOf(f[i], o[i])
  <2>1. i < Len(o) => Precedes(o[i], o[i + 1])
    <3>1. i < n => i + 1 \in 1..n /\ i < i + 1
      BY <1>1
    <3> QED BY <1>1, <3>1
  <2>2. CutAt(o, i) \in Snipped /\ CutOf(CutAt(o, i), o[i])
    BY <1>1, <2>1, CutIs
  <2> QED BY <1>1, <2>2 DEF Members
<1>6. ASSUME NEW i \in 1..n, NEW x \in Nat, NEW m \in D, Covers(m, x), OnFrom(m, o[i])
      PROVE  \E c \in Members(f) : Covers(c, x) /\ OnFrom(c, f[i])
  <2>1. PICK q \in 1..n : Covers(CutAt(o, q), x) /\ OnFrom(o[q], o[i])
    BY <1>2, <1>4, <1>6
  <2>2. f[q] \in Members(f) /\ CutOf(f[q], o[q]) /\ CutOf(f[i], o[i]) /\ f[q] = CutAt(o, q)
    BY <1>1, <1>5
  <2>3. OnFrom(f[q], f[i])
    BY <2>1, <2>2 DEF CutOf, OnFrom
  <2> QED BY <2>1, <2>2, <2>3
<1>7. \A i \in 1..n, x \in Nat : Covers(o[i], x) => \E c \in Members(f) : Covers(c, x) /\ OnFrom(c, f[i])
  <2> SUFFICES ASSUME NEW i \in 1..n, NEW x \in Nat, Covers(o[i], x)
               PROVE  OnFrom(o[i], o[i])
    BY <1>1, <1>6
  <2> QED BY <1>4 DEF OnFrom
<1>8. ASSUME NEW i \in 1..n PROVE Partly(f[i], Z, Members(f))
  <2>1. PICK z \in Z : CutOf(o[i], z) /\ Continued(o[i], z, D)
    BY <1>1, <1>3 DEF Partly
  <2>2. CutOf(f[i], z)
    <3>1. f[i].end \in Nat /\ o[i].end \in Nat /\ z.end \in Nat
      BY <1>4, <1>5, SnippetIs
    <3> QED BY <1>5, <2>1, <3>1 DEF CutOf
  <2>3. ASSUME NEW x \in Nat, Covers(z, x), ~Covers(f[i], x)
        PROVE  \E c \in Members(f) : Covers(c, x) /\ OnFrom(c, f[i])
    <3>1. CASE Covers(o[i], x)
      BY <1>7, <3>1
    <3>2. CASE ~Covers(o[i], x)
      BY <1>6, <2>1, <2>3, <3>2 DEF Continued
    <3> QED BY <3>1, <3>2
  <2> QED BY <2>2, <2>3 DEF Partly, Continued
<1>9. Showing(Z, Members(f))
  <2> SUFFICES ASSUME NEW z \in Z, NEW x \in Nat, Covers(z, x)
               PROVE  \E m \in Members(f) : Covers(m, x)
    BY DEF Showing
  <2>1. PICK d \in D : Covers(d, x)
    BY <1>3 DEF Showing
  <2>2. PICK i \in 1..n : o[i] = d
    BY <1>1
  <2> QED BY <1>7, <2>1, <2>2
<1>10. \A i, j \in 1..n : i <= j => f[i].kind <= f[j].kind
  <2> SUFFICES ASSUME NEW i \in 1..n, NEW j \in 1..n, i <= j PROVE o[i].kind <= o[j].kind
    BY <1>5 DEF CutOf
  <2>1. i = j \/ Precedes(o[i], o[j])
    BY <1>1
  <2> QED BY <1>4, <2>1 DEF Precedes
<1> QED BY <1>1, <1>8, <1>9, <1>10 DEF Stands, f

(* Fusing the snippets of two documents: the second has them as they were    *)
(* found, or is the first.                                                   *)
LEMMA FusedStand ==
  ASSUME NEW Z \in SUBSET Snipped, NEW Y \in SUBSET Snipped,
         NEW a \in Seq(Snipped), NEW b \in Seq(Snipped), Stands(a, Z),
         \A i \in 1..Len(b) : b[i] \in Y \/ b[i] \in Members(a),
         Showing(Y, Members(a \o b)), ~Inside(Z \cup Y)
  PROVE  Stands(FuseSnippet(a \o b), Z \cup Y)
<1>1. a \o b \in Seq(Snipped)
  OBVIOUS
<1>2. /\ \A s \in Distinct(a \o b) : Partly(s, Z \cup Y, Distinct(a \o b))
      /\ Showing(Z \cup Y, Distinct(a \o b))
  BY DistinctStand
<1>3. Z \cup Y \in SUBSET Snipped
  OBVIOUS
<1> QED BY <1>1, <1>2, <1>3, CutStand

-----------------------------------------------------------------------------
(* The origins of a document, and documents that are fused.                  *)
LEMMA RisingIs ==
  ASSUME NEW S \in SUBSET Int, IsFiniteSet(S)
  PROVE  /\ Rising(S) \in Seq(S) /\ DOMAIN Rising(S) = 1..Len(Rising(S))
         /\ Members(Rising(S)) = S
         /\ \A x \in S : \E r \in 1..Len(Rising(S)) : Rising(S)[r] = x
<1> DEFINE R == {p \in S \X S : p[1] < p[2]}
           o == InOrder(S, R)
<1>1. Orders(S, R)
  BY DEF Orders
<1>2. Rising(S) = o
  BY DEF Rising
<1> HIDE DEF R
<1>3. /\ o \in Seq(S) /\ Len(o) = Cardinality(S) /\ Cardinality(S) \in Nat
      /\ \A x \in S : \E r \in 1..Cardinality(S) : o[r] = x
  BY <1>1, InOrderOf
<1> HIDE DEF o
<1>4. Members(o) = S
  <2>1. DOMAIN o = 1..Cardinality(S) /\ \A r \in DOMAIN o : o[r] \in S
    BY <1>3
  <2> QED BY <1>3, <2>1 DEF Members
<1> QED BY <1>2, <1>3, <1>4

Origins == [query : Int, ranks : SUBSET Int]

(* The origins fused have what each of the list had, and nothing else.       *)
LEMMA OriginsFused ==
  ASSUME NEW store, store.origins \in Seq(Origins), NEW list \in Seq(DOMAIN store.origins)
  PROVE  LET fused == FuseOriginQuery(store, list)
         IN  /\ fused.refs \in Seq(DOMAIN store.origins) /\ Members(fused.refs) \subseteq Members(list)
             /\ fused.origins \in Seq(Origins) /\ DOMAIN fused.origins = DOMAIN store.origins
             /\ \A o \in DOMAIN store.origins :
                   /\ fused.origins[o].query = store.origins[o].query
                   /\ store.origins[o].ranks \subseteq fused.origins[o].ranks
                   /\ \A v \in fused.origins[o].ranks :
                         \/ v \in store.origins[o].ranks
                         \/ /\ o \in Members(list)
                            /\ \E p \in Members(list) :
                                  /\ store.origins[p].query = store.origins[o].query
                                  /\ v \in store.origins[p].ranks
             /\ \A o \in Members(list) : \A v \in store.origins[o].ranks :
                   \E p \in Members(fused.refs) :
                      /\ fused.origins[p].query = store.origins[o].query
                      /\ v \in fused.origins[p].ranks
<1> DEFINE fused == FuseOriginQuery(store, list)
           all == store.origins
           n == Len(list)
           query == [i \in DOMAIN list |-> store.origins[list[i]].query]
           F == Firsts(query)
           first == Rising(F)
           refs == [k \in DOMAIN first |-> list[first[k]]]
           Taken(o) == UNION {store.origins[list[i]].ranks :
                                 i \in {j \in DOMAIN list : query[j] = store.origins[o].query}}
           New(o) == [all[o] EXCEPT !.ranks = Taken(o)]
           news == [o \in DOMAIN all |-> IF \A i \in F : list[i] # o THEN all[o] ELSE New(o)]
<1>1. fused.refs = refs /\ fused.origins = news
  BY DEF FuseOriginQuery
<1>2. /\ n \in Nat /\ DOMAIN list = 1..n /\ \A i \in 1..n : list[i] \in DOMAIN all
      /\ Members(list) = {list[i] : i \in 1..n}
  BY MembersOf
<1>3. Len(all) \in Nat /\ DOMAIN all = 1..Len(all)
      /\ \A o \in DOMAIN all : /\ all[o] \in Origins /\ all[o].query \in Int
                               /\ all[o].ranks \in SUBSET Int
  <2>1. Len(all) \in Nat /\ DOMAIN all = 1..Len(all) /\ \A o \in 1..Len(all) : all[o] \in Origins
    OBVIOUS
  <2> QED BY <2>1 DEF Origins
<1>4. DOMAIN query = 1..n /\ \A i \in 1..n : query[i] = all[list[i]].query
  BY <1>2
<1> HIDE DEF query, fused
<1>5. /\ F \subseteq 1..n /\ IsFiniteSet(F)
      /\ \A i \in 1..n : \E j \in F : j <= i /\ query[j] = query[i]
      /\ \A i, j \in F : query[i] = query[j] => i = j
  BY <1>2, <1>4, FirstsAre
<1> HIDE DEF F
<1>6. /\ first \in Seq(F) /\ DOMAIN first = 1..Len(first) /\ Len(first) \in Nat
      /\ \A x \in F : \E r \in 1..Len(first) : first[r] = x
      /\ \A r \in 1..Len(first) : first[r] \in F
  <2>1. F \in SUBSET Int
    BY <1>5
  <2>2. first \in Seq(F) /\ \A x \in F : \E r \in 1..Len(first) : first[r] = x
    BY <1>5, <2>1, RisingIs
  <2> HIDE DEF first
  <2> QED BY <2>2
<1> HIDE DEF first
<1>7. /\ refs \in Seq(DOMAIN all) /\ Len(refs) = Len(first)
      /\ \A k \in 1..Len(first) : refs[k] = list[first[k]]
  <2>1. refs \in [1..Len(first) -> DOMAIN all]
    BY <1>2, <1>5, <1>6
  <2>2. \A k \in 1..Len(first) : refs[k] = list[first[k]]
    BY <1>6
  <2> HIDE DEF refs
  <2> QED BY <1>6, <2>1, <2>2, FunctionIsSeq
<1>8. Members(refs) = {list[i] : i \in F}
  <2>1. Members(refs) = {refs[k] : k \in 1..Len(first)}
    BY <1>6, <1>7, MembersOf
  <2> HIDE DEF refs
  <2>2. \A k \in 1..Len(first) : refs[k] \in {list[i] : i \in F}
    BY <1>6, <1>7
  <2>3. \A i \in F : \E k \in 1..Len(first) : refs[k] = list[i]
    BY <1>6, <1>7, SMTT(60)
  <2> QED BY <2>1, <2>2, <2>3
<1> HIDE DEF refs
<1>9. \A o \in DOMAIN all : /\ New(o) \in Origins /\ New(o).query = all[o].query
                            /\ New(o).ranks = Taken(o)
  <2> TAKE o \in DOMAIN all
  <2>1. Taken(o) \in SUBSET Int
    BY <1>2, <1>3
  <2> HIDE DEF Taken
  <2> QED BY <1>3, <2>1 DEF Origins
<1>10. \A o \in DOMAIN all : \A v : v \in Taken(o) <=>
          \E j \in 1..n : all[list[j]].query = all[o].query /\ v \in all[list[j]].ranks
  <2> TAKE o \in DOMAIN all
  <2> TAKE v
  <2>1. Taken(o) = UNION {all[list[i]].ranks : i \in {j \in 1..n : query[j] = all[o].query}}
    BY <1>2
  <2> HIDE DEF Taken
  <2> QED BY <1>4, <2>1
<1> HIDE DEF Taken, New
<1>11. DOMAIN news = DOMAIN all /\ \A o \in DOMAIN all : news[o] =
          IF \A i \in F : list[i] # o THEN all[o] ELSE New(o)
  OBVIOUS
<1>12. \A o \in DOMAIN all : news[o] \in Origins /\ news[o].query = all[o].query
  BY <1>3, <1>9, <1>11
<1>13. news \in Seq(Origins)
  <2>1. news \in [1..Len(all) -> Origins]
    BY <1>3, <1>12
  <2> HIDE DEF news
  <2> QED BY <1>3, <2>1, FunctionIsSeq
<1> HIDE DEF news
<1>14. ASSUME NEW i \in F PROVE news[list[i]].ranks = Taken(list[i])
  BY <1>2, <1>5, <1>9, <1>11
<1>15. ASSUME NEW o \in DOMAIN all
       PROVE  /\ all[o].ranks \subseteq news[o].ranks
              /\ \A v \in news[o].ranks :
                    \/ v \in all[o].ranks
                    \/ /\ o \in Members(list)
                       /\ \E p \in Members(list) : /\ all[p].query = all[o].query
                                                   /\ v \in all[p].ranks
  <2>1. CASE \A i \in F : list[i] # o
    BY <1>11, <2>1
  <2>2. CASE ~\A i \in F : list[i] # o
    <3>1. PICK i \in F : list[i] = o
      BY <2>2
    <3>2. i \in 1..n /\ news[o].ranks = Taken(o)
      BY <1>5, <1>14, <3>1
    <3>3. o \in Members(list) /\ \A j \in 1..n : list[j] \in Members(list)
      BY <1>2, <3>1, <3>2
    <3>4. \A v \in all[o].ranks : v \in Taken(o)
      BY <1>10, <3>1, <3>2
    <3>5. ASSUME NEW v \in Taken(o)
          PROVE  \E p \in Members(list) : all[p].query = all[o].query /\ v \in all[p].ranks
      <4>1. PICK j \in 1..n : all[list[j]].query = all[o].query /\ v \in all[list[j]].ranks
        BY <1>10
      <4> QED BY <3>3, <4>1
    <3> QED BY <3>2, <3>3, <3>4, <3>5
  <2> QED BY <2>1, <2>2
<1>16. ASSUME NEW o \in Members(list), NEW v \in all[o].ranks
       PROVE  \E p \in Members(refs) : news[p].query = all[o].query /\ v \in news[p].ranks
  <2>1. PICK i \in 1..n : o = list[i]
    BY <1>2
  <2>2. PICK j \in F : query[j] = query[i]
    BY <1>5
  <2>3. j \in 1..n /\ list[j] \in DOMAIN all /\ all[list[j]].query = all[o].query
    BY <1>2, <1>4, <1>5, <2>1, <2>2
  <2>4. v \in Taken(list[j])
    BY <1>10, <1>16, <2>1, <2>3
  <2>5. news[list[j]].query = all[o].query /\ v \in news[list[j]].ranks
    BY <1>12, <1>14, <2>3, <2>4
  <2> QED BY <1>8, <2>5
<1>17. Members(refs) \subseteq Members(list)
  BY <1>2, <1>5, <1>8
<1> QED BY <1>1, <1>7, <1>11, <1>12, <1>13, <1>15, <1>16, <1>17 DEF fused

(* A document of a store has a rank of a query.                              *)
Has(s, d, q, v) ==
  \E o \in Members(s.docs[d].origins) : s.origins[o].query = q /\ v \in s.origins[o].ranks

DocsOf(os) == [id : DOMAIN Relevance, title : Int, origins : Seq(DOMAIN os),
               snippets : Seq(Snipped)]
Stored(s) ==
  /\ s = [docs |-> s.docs, origins |-> s.origins, result |-> s.result]
  /\ s.origins \in Seq(Origins) /\ s.docs \in Seq(DocsOf(s.origins))

LEMMA StoredIs ==
  ASSUME NEW s, Stored(s)
  PROVE  /\ Len(s.docs) \in Nat /\ DOMAIN s.docs = 1..Len(s.docs)
         /\ Len(s.origins) \in Nat /\ DOMAIN s.origins = 1..Len(s.origins)
         /\ \A d \in DOMAIN s.docs :
               /\ s.docs[d].id \in DOMAIN Relevance /\ s.docs[d].title \in Int
               /\ s.docs[d].origins \in Seq(DOMAIN s.origins)
               /\ Members(s.docs[d].origins) \subseteq DOMAIN s.origins
               /\ s.docs[d].snippets \in Seq(Snipped)
         /\ \A o \in DOMAIN s.origins : s.origins[o] \in Origins
<1>1. /\ Len(s.docs) \in Nat /\ DOMAIN s.docs = 1..Len(s.docs)
      /\ Len(s.origins) \in Nat /\ DOMAIN s.origins = 1..Len(s.origins)
      /\ \A d \in DOMAIN s.docs : s.docs[d] \in DocsOf(s.origins)
      /\ \A o \in DOMAIN s.origins : s.origins[o] \in Origins
  BY DEF Stored
<1>2. ASSUME NEW d \in DOMAIN s.docs
      PROVE  /\ s.docs[d].id \in DOMAIN Relevance /\ s.docs[d].title \in Int
             /\ s.docs[d].origins \in Seq(DOMAIN s.origins)
             /\ s.docs[d].snippets \in Seq(Snipped)
  BY <1>1 DEF DocsOf
<1> QED BY <1>1, <1>2, MembersOf

(* A document that was fused has the paper's id, the first title known, every*)
(* rank of both and all that their snippets show; no other document changes. *)
LEMMA FuseIs ==
  ASSUME NEW s, Stored(s), NEW r \in DOMAIN s.docs, NEW d \in DOMAIN s.docs
  PROVE  LET f == Fuse(s, r, d)
             A == Members(s.docs[r].origins) \cup Members(s.docs[d].origins)
         IN  /\ Stored(f) /\ f.result = s.result
             /\ DOMAIN f.docs = DOMAIN s.docs /\ DOMAIN f.origins = DOMAIN s.origins
             /\ \A o \in DOMAIN s.origins :
                   /\ f.origins[o].query = s.origins[o].query
                   /\ \A v \in f.origins[o].ranks :
                         \/ v \in s.origins[o].ranks
                         \/ o \in A /\ \E p \in A : /\ s.origins[p].query = s.origins[o].query
                                                    /\ v \in s.origins[p].ranks
             /\ \A e \in DOMAIN s.docs : e # r => f.docs[e] = s.docs[e]
             /\ f.docs[r].id = s.docs[r].id
             /\ f.docs[r].title = TakeFirst(s.docs[r].title, s.docs[d].title)
             /\ f.docs[r].snippets = FuseSnippet(s.docs[r].snippets \o s.docs[d].snippets)
             /\ Members(f.docs[r].origins) \subseteq A
             /\ \A e \in DOMAIN s.docs : \A q, v : Has(s, e, q, v) => Has(f, e, q, v)
             /\ \A q, v : Has(s, d, q, v) => Has(f, r, q, v)
<1> DEFINE a == s.docs[r]
           b == s.docs[d]
           list == a.origins \o b.origins
           snips == FuseSnippet(a.snippets \o b.snippets)
           fused == FuseOriginQuery(s, list)
           A == Members(a.origins) \cup Members(b.origins)
           new == [id |-> a.id, title |-> TakeFirst(a.title, b.title),
                   origins |-> fused.refs, snippets |-> snips]
           f == Fuse(s, r, d)
<1>1. /\ Len(s.docs) \in Nat /\ DOMAIN s.docs = 1..Len(s.docs)
      /\ \A e \in DOMAIN s.docs :
               /\ s.docs[e].id \in DOMAIN Relevance /\ s.docs[e].title \in Int
               /\ s.docs[e].origins \in Seq(DOMAIN s.origins)
               /\ Members(s.docs[e].origins) \subseteq DOMAIN s.origins
               /\ s.docs[e].snippets \in Seq(Snipped)
  BY StoredIs
<1>2. s.origins \in Seq(Origins) /\ s.docs \in Seq(DocsOf(s.origins))
  BY DEF Stored
<1>3. list \in Seq(DOMAIN s.origins) /\ Members(list) = A
  <2>1. a.origins \in Seq(DOMAIN s.origins) /\ b.origins \in Seq(DOMAIN s.origins)
    BY <1>1
  <2> HIDE DEF a, b
  <2>2. a.origins \o b.origins \in Seq(DOMAIN s.origins)
    BY <2>1, Joint
  <2>3. Members(a.origins \o b.origins) = Members(a.origins) \cup Members(b.origins)
    BY <2>1, Joint
  <2> QED BY <2>2, <2>3
<1>4. snips \in Seq(Snipped)
  <2>1. a.snippets \o b.snippets \in Seq(Snipped)
    BY <1>1, Joint
  <2> QED BY <2>1, FuseSnippetIs
<1>5. f = [docs |-> [s.docs EXCEPT ![r] = new], origins |-> fused.origins, result |-> s.result]
  BY DEF Fuse
<1> HIDE DEF f, snips, list, a, b
<1>6. /\ fused.refs \in Seq(DOMAIN s.origins) /\ Members(fused.refs) \subseteq A
      /\ fused.origins \in Seq(Origins) /\ DOMAIN fused.origins = DOMAIN s.origins
      /\ \A o \in DOMAIN s.origins :
            /\ fused.origins[o].query = s.origins[o].query
            /\ s.origins[o].ranks \subseteq fused.origins[o].ranks
            /\ \A v \in fused.origins[o].ranks :
                  \/ v \in s.origins[o].ranks
                  \/ o \in A /\ \E p \in A : /\ s.origins[p].query = s.origins[o].query
                                             /\ v \in s.origins[p].ranks
      /\ \A o \in A : \A v \in s.origins[o].ranks :
            \E p \in Members(fused.refs) : /\ fused.origins[p].query = s.origins[o].query
                                           /\ v \in fused.origins[p].ranks
  <2>1. /\ fused.refs \in Seq(DOMAIN s.origins) /\ Members(fused.refs) \subseteq Members(list)
        /\ fused.origins \in Seq(Origins) /\ DOMAIN fused.origins = DOMAIN s.origins
        /\ \A o \in DOMAIN s.origins :
              /\ fused.origins[o].query = s.origins[o].query
              /\ s.origins[o].ranks \subseteq fused.origins[o].ranks
              /\ \A v \in fused.origins[o].ranks :
                    \/ v \in s.origins[o].ranks
                    \/ /\ o \in Members(list)
                       /\ \E p \in Members(list) : /\ s.origins[p].query = s.origins[o].query
                                                   /\ v \in s.origins[p].ranks
        /\ \A o \in Members(list) : \A v \in s.origins[o].ranks :
              \E p \in Members(fused.refs) : /\ fused.origins[p].query = s.origins[o].query
                                             /\ v \in fused.origins[p].ranks
    BY <1>2, <1>3, OriginsFused
  <2> HIDE DEF fused, A
  <2> QED BY <1>3, <2>1
<1> HIDE DEF fused
<1>7. TakeFirst(a.title, b.title) \in Int
  BY <1>1 DEF TakeFirst, a, b
<1>8. new \in DocsOf(s.origins)
  BY <1>1, <1>4, <1>6, <1>7 DEF DocsOf, a
<1>9. /\ f.docs \in Seq(DocsOf(s.origins)) /\ DOMAIN f.docs = DOMAIN s.docs
      /\ f.docs[r] = new /\ \A e \in DOMAIN s.docs : e # r => f.docs[e] = s.docs[e]
  <2> HIDE DEF new
  <2> QED BY <1>1, <1>2, <1>5, <1>8
<1>10. f.origins = fused.origins /\ f.result = s.result
  BY <1>5
<1>11. Stored(f)
  <2>1. f = [docs |-> f.docs, origins |-> f.origins, result |-> f.result]
    BY <1>5
  <2> QED BY <1>6, <1>9, <1>10, <2>1 DEF Stored, DocsOf
<1>12. /\ new.id = a.id /\ new.title = TakeFirst(a.title, b.title) /\ new.snippets = snips
       /\ new.origins = fused.refs
  OBVIOUS
<1> HIDE DEF new
<1>13. ASSUME NEW q, NEW v, Has(s, r, q, v) \/ Has(s, d, q, v)
       PROVE  Has(f, r, q, v)
  <2>1. PICK o \in A : s.origins[o].query = q /\ v \in s.origins[o].ranks
    BY <1>13 DEF Has, a, b
  <2>2. PICK p \in Members(fused.refs) : /\ fused.origins[p].query = s.origins[o].query
                                         /\ v \in fused.origins[p].ranks
    BY <1>6, <2>1
  <2> QED BY <1>9, <1>10, <1>12, <2>1, <2>2 DEF Has
<1>14. ASSUME NEW e \in DOMAIN s.docs, NEW q, NEW v, Has(s, e, q, v), e # r
       PROVE  Has(f, e, q, v)
  <2>1. PICK o \in Members(s.docs[e].origins) : s.origins[o].query = q /\ v \in s.origins[o].ranks
    BY <1>14 DEF Has
  <2>2. o \in DOMAIN s.origins /\ o \in Members(f.docs[e].origins)
    BY <1>1, <1>9, <1>14, <2>1
  <2>3. f.origins[o].query = q /\ v \in f.origins[o].ranks
    BY <1>6, <1>10, <2>1, <2>2
  <2> QED BY <2>2, <2>3 DEF Has
<1> QED BY <1>6, <1>9, <1>10, <1>11, <1>12, <1>13, <1>14 DEF a, b, snips, f

-----------------------------------------------------------------------------
(* What holds while the documents of P join the result, s being the store    *)
(* and S the one at the start.                                               *)
Typed(S, s) ==
  /\ Stored(s) /\ s.result \in Seq(DOMAIN s.docs)
  /\ DOMAIN s.origins = DOMAIN S.origins /\ DOMAIN S.docs \subseteq DOMAIN s.docs
  /\ \A o \in DOMAIN S.origins : s.origins[o].query = S.origins[o].query

(* No two papers have an origin in common, nor one two documents in a result.*)
Apart(S) == \A d, e \in DOMAIN S.docs : S.docs[d].id # S.docs[e].id =>
                Members(S.docs[d].origins) \cap Members(S.docs[e].origins) = {}
OnePerPaper(s) == \A q, r \in Members(s.result) : s.docs[q].id = s.docs[r].id => q = r

(* Only new documents, those that joined and, when they are cloned, those    *)
(* that were there before are in the result.                                 *)
Resulting(S, s, P, cloned) ==
  /\ \A d \in DOMAIN s.docs : d \in DOMAIN S.docs \/ d \in Members(s.result)
  /\ \A r \in Members(s.result) \cap DOMAIN S.docs : r \in P /\ (cloned => r \in Members(S.result))
  /\ OnePerPaper(s)

Following(S, s) ==
  \A d \in DOMAIN S.docs :
    /\ s.docs[d].id = S.docs[d].id
    /\ d \notin Members(s.result) => s.docs[d] = S.docs[d]
    /\ S.docs[d].title # Unloaded => s.docs[d].title = S.docs[d].title
    /\ \A q, v : Has(S, d, q, v) => Has(s, d, q, v)

(* Where a rank and an origin come from.                                     *)
FromSame(S, P, o, v) ==
  \E e, g \in P : \E p \in Members(S.docs[g].origins) :
     /\ S.docs[e].id = S.docs[g].id /\ o \in Members(S.docs[e].origins)
     /\ S.origins[p].query = S.origins[o].query /\ v \in S.origins[p].ranks
OneOf(S, P, id, o) == \E e \in P : S.docs[e].id = id /\ o \in Members(S.docs[e].origins)
Handed(S, s, P) ==
  /\ \A o \in DOMAIN S.origins : \A v \in s.origins[o].ranks :
        v \in S.origins[o].ranks \/ FromSame(S, P, o, v)
  /\ \A r \in Members(s.result) : \A o \in Members(s.docs[r].origins) :
        OneOf(S, P, s.docs[r].id, o)

(* The snippets found of a paper, and what a document has gathered.          *)
Found(S, P, id) == UNION {Members(S.docs[d].snippets) : d \in {e \in P : S.docs[e].id = id}}
Gathered(S, s, P, r) ==
  /\ \E d \in P : S.docs[d].id = s.docs[r].id
  /\ s.docs[r].title = Unloaded <=>
        \A d \in P : S.docs[d].id = s.docs[r].id => S.docs[d].title = Unloaded
  /\ \A d \in P : \A q, v : S.docs[d].id = s.docs[r].id /\ Has(S, d, q, v) => Has(s, r, q, v)
  /\ ~Inside(Found(S, P, s.docs[r].id)) =>
        Stands(s.docs[r].snippets, Found(S, P, s.docs[r].id))
Gathering(S, s, P) ==
  /\ \A d \in P : \E r \in Members(s.result) : s.docs[r].id = S.docs[d].id
  /\ \A r \in Members(s.result) : Gathered(S, s, P, r)

Joined(S, s, P, cloned) ==
  /\ Typed(S, s) /\ Resulting(S, s, P, cloned) /\ Following(S, s)
  /\ Handed(S, s, P) /\ Gathering(S, s, P)

LEMMA FoundIs ==
  ASSUME NEW S, NEW P \in SUBSET DOMAIN S.docs, NEW d \in DOMAIN S.docs, Stored(S), NEW id
  PROVE  /\ Found(S, P, id) \in SUBSET Snipped
         /\ S.docs[d].id = id =>
               Found(S, P \cup {d}, id) = Found(S, P, id) \cup Members(S.docs[d].snippets)
         /\ S.docs[d].id # id => Found(S, P \cup {d}, id) = Found(S, P, id)
         /\ d \in P /\ S.docs[d].id = id => Members(S.docs[d].snippets) \subseteq Found(S, P, id)
<1>1. \A e \in DOMAIN S.docs : Members(S.docs[e].snippets) \subseteq Snipped
  BY StoredIs, MembersOf
<1> DEFINE M(e) == Members(S.docs[e].snippets)
           I(e) == S.docs[e].id
<1>2. \A Q : Found(S, Q, id) = UNION {M(e) : e \in {g \in Q : I(g) = id}}
  BY DEF Found
<1>3. \A e \in DOMAIN S.docs : M(e) \subseteq Snipped
  BY <1>1
<1> HIDE DEF M, I
<1>4. \A Q, x : x \in Found(S, Q, id) <=> \E e \in Q : I(e) = id /\ x \in M(e)
  BY <1>2
<1>5. Found(S, P, id) \in SUBSET Snipped
  BY <1>3, <1>4
<1>6. I(d) = id => Found(S, P \cup {d}, id) = Found(S, P, id) \cup M(d)
  <2> SUFFICES ASSUME I(d) = id, NEW x
               PROVE  x \in Found(S, P \cup {d}, id) <=> x \in Found(S, P, id) \/ x \in M(d)
    OBVIOUS
  <2> QED BY <1>4
<1>7. I(d) # id => Found(S, P \cup {d}, id) = Found(S, P, id)
  <2> SUFFICES ASSUME I(d) # id, NEW x
               PROVE  x \in Found(S, P \cup {d}, id) <=> x \in Found(S, P, id)
    OBVIOUS
  <2> QED BY <1>4
<1>8. d \in P /\ I(d) = id => M(d) \subseteq Found(S, P, id)
  BY <1>4
<1> QED BY <1>5, <1>6, <1>7, <1>8 DEF M, I

LEMMA FusedGathers ==
  ASSUME NEW S, Stored(S), NEW s, NEW P \in SUBSET DOMAIN S.docs, NEW cloned,
         Joined(S, s, P, cloned), NEW d \in DOMAIN S.docs, NEW r \in Members(s.result),
         s.docs[r].id = s.docs[d].id
  PROVE  Gathering(S, Fuse(s, r, d), P \cup {d})
<1> DEFINE f == Fuse(s, r, d)
           Q == P \cup {d}
           id == s.docs[r].id
           a == s.docs[r].snippets
           b == s.docs[d].snippets
           Z == Found(S, P, id)
           Y == Members(S.docs[d].snippets)
<1>1. /\ Stored(s) /\ Members(s.result) \subseteq DOMAIN s.docs /\ DOMAIN S.docs \subseteq DOMAIN s.docs
  BY MembersOf DEF Joined, Typed
<1>2. r \in DOMAIN s.docs /\ d \in DOMAIN s.docs
  BY <1>1
<1>3. /\ f.result = s.result
      /\ \A e \in DOMAIN s.docs : e # r => f.docs[e] = s.docs[e]
      /\ f.docs[r].id = s.docs[r].id
      /\ f.docs[r].title = TakeFirst(s.docs[r].title, s.docs[d].title)
      /\ f.docs[r].snippets = FuseSnippet(a \o b)
      /\ \A e \in DOMAIN s.docs : \A q, v : Has(s, e, q, v) => Has(f, e, q, v)
      /\ \A q, v : Has(s, d, q, v) => Has(f, r, q, v)
  BY <1>1, <1>2, FuseIs
<1> HIDE DEF f
<1>4. /\ s.docs[d].id = S.docs[d].id /\ (d \notin Members(s.result) => s.docs[d] = S.docs[d])
      /\ \A q, v : Has(S, d, q, v) => Has(s, d, q, v)
  BY DEF Joined, Following
<1>5. \A t \in Members(s.result) : s.docs[t].id = id => t = r
  BY DEF Joined, Resulting, OnePerPaper
<1>6. d \in Members(s.result) => d = r /\ d \in P
  BY <1>5 DEF Joined, Resulting
<1>7. /\ \A e \in P : \E t \in Members(s.result) : s.docs[t].id = S.docs[e].id
      /\ \A t \in Members(s.result) : Gathered(S, s, P, t)
  BY DEF Joined, Gathering
<1>8. \A t \in Members(s.result) : t \in DOMAIN s.docs /\ f.docs[t].id = s.docs[t].id
  BY <1>1, <1>3
<1>9. \A e \in Q : \E t \in Members(f.result) : f.docs[t].id = S.docs[e].id
  BY <1>3, <1>4, <1>7, <1>8
<1>10. ASSUME NEW t \in Members(s.result), t # r PROVE Gathered(S, f, Q, t)
  <2>1. f.docs[t] = s.docs[t] /\ s.docs[t].id # S.docs[d].id
    BY <1>3, <1>4, <1>5, <1>8, <1>10
  <2>2. Found(S, Q, s.docs[t].id) = Found(S, P, s.docs[t].id)
    BY <2>1, FoundIs
  <2>3. \A q, v : Has(s, t, q, v) => Has(f, t, q, v)
    BY <1>3, <1>8
  <2>4. Gathered(S, s, P, t)
    BY <1>7
  <2> QED BY <2>1, <2>2, <2>3, <2>4 DEF Gathered
<1>11. Gathered(S, f, Q, r)
  <2>1. Gathered(S, s, P, r)
    BY <1>7
  <2>2. \E e \in Q : S.docs[e].id = f.docs[r].id
    BY <1>3, <1>4
  <2>3. f.docs[r].title = Unloaded <=>
           \A e \in Q : S.docs[e].id = f.docs[r].id => S.docs[e].title = Unloaded
    <3>1. s.docs[r].title = Unloaded <=>
             \A e \in P : S.docs[e].id = id => S.docs[e].title = Unloaded
      BY <2>1 DEF Gathered
    <3>2. CASE d \in Members(s.result)
      <4>1. d = r /\ Q = P
        BY <1>6, <3>2
      <4> QED BY <1>3, <3>1, <4>1 DEF TakeFirst
    <3>3. CASE d \notin Members(s.result)
      BY <1>3, <1>4, <3>1, <3>3 DEF TakeFirst
    <3> QED BY <3>2, <3>3
  <2>4. ASSUME NEW e \in Q, NEW q, NEW v, S.docs[e].id = f.docs[r].id, Has(S, e, q, v)
        PROVE  Has(f, r, q, v)
    <3>1. CASE e \in P
      <4>1. Has(s, r, q, v)
        BY <1>3, <2>1, <2>4, <3>1 DEF Gathered
      <4> QED BY <1>2, <1>3, <4>1
    <3>2. CASE e = d
      BY <1>3, <1>4, <2>4, <3>2
    <3> QED BY <3>1, <3>2
  <2>5. ASSUME ~Inside(Found(S, Q, id)) PROVE Stands(FuseSnippet(a \o b), Found(S, Q, id))
    <3>1. /\ Found(S, Q, id) = Z \cup Y /\ Z \in SUBSET Snipped
          /\ d \in P => Y \subseteq Z
      BY <1>4, FoundIs
    <3>2. /\ Y \in SUBSET Snipped /\ a \in Seq(Snipped) /\ b \in Seq(Snipped)
      BY <1>1, <1>2, StoredIs, MembersOf
    <3>3. Stands(a, Z)
      <4>1. ~Inside(Z)
        BY <2>5, <3>1 DEF Inside
      <4> QED BY <2>1, <4>1 DEF Gathered
    <3> HIDE DEF a, b, Z, Y, Q
    <3>4. Members(a \o b) = Members(a) \cup Members(b) /\ Members(b) = {b[i] : i \in 1..Len(b)}
      BY <3>2, Joint, MembersOf
    <3>5. /\ \A i \in 1..Len(b) : b[i] \in Y \/ b[i] \in Members(a)
          /\ Showing(Y, Members(a \o b))
      <4>1. CASE d \in Members(s.result)
        <5>1. b = a /\ Y \subseteq Z
          BY <1>6, <3>1, <4>1 DEF a, b
        <5>2. Showing(Z, Members(a))
          BY <3>3 DEF Stands
        <5> QED BY <3>4, <5>1, <5>2 DEF Showing
      <4>2. CASE d \notin Members(s.result)
        <5>1. Members(b) = Y
          BY <1>4, <4>2 DEF b, Y
        <5> QED BY <3>4, <5>1 DEF Showing
      <4> QED BY <4>1, <4>2
    <3>6. ~Inside(Z \cup Y)
      BY <2>5, <3>1
    <3> QED BY <3>1, <3>2, <3>3, <3>5, <3>6, FusedStand
  <2> QED BY <1>3, <2>2, <2>3, <2>4, <2>5 DEF Gathered
<1> QED BY <1>3, <1>9, <1>10, <1>11 DEF Gathering, f

LEMMA FusedJoins ==
  ASSUME NEW S, Stored(S), Apart(S), NEW s, NEW P \in SUBSET DOMAIN S.docs, NEW cloned,
         Joined(S, s, P, cloned), NEW d \in DOMAIN S.docs, NEW r \in Members(s.result),
         s.docs[r].id = s.docs[d].id
  PROVE  Joined(S, Fuse(s, r, d), P \cup {d}, cloned)
<1> DEFINE f == Fuse(s, r, d)
           Q == P \cup {d}
           id == s.docs[r].id
           A == Members(s.docs[r].origins) \cup Members(s.docs[d].origins)
<1>1. /\ Stored(s) /\ Members(s.result) \subseteq DOMAIN s.docs /\ DOMAIN S.docs \subseteq DOMAIN s.docs
      /\ s.result \in Seq(DOMAIN s.docs)
      /\ DOMAIN s.origins = DOMAIN S.origins
      /\ \A o \in DOMAIN S.origins : s.origins[o].query = S.origins[o].query
  BY MembersOf DEF Joined, Typed
<1>2. r \in DOMAIN s.docs /\ d \in DOMAIN s.docs
  BY <1>1
<1>3. /\ Stored(f) /\ f.result = s.result
      /\ DOMAIN f.docs = DOMAIN s.docs /\ DOMAIN f.origins = DOMAIN s.origins
      /\ \A o \in DOMAIN s.origins :
            /\ f.origins[o].query = s.origins[o].query
            /\ \A v \in f.origins[o].ranks :
                  \/ v \in s.origins[o].ranks
                  \/ o \in A /\ \E p \in A : /\ s.origins[p].query = s.origins[o].query
                                             /\ v \in s.origins[p].ranks
      /\ \A e \in DOMAIN s.docs : e # r => f.docs[e] = s.docs[e]
      /\ f.docs[r].id = s.docs[r].id
      /\ f.docs[r].title = TakeFirst(s.docs[r].title, s.docs[d].title)
      /\ Members(f.docs[r].origins) \subseteq A
      /\ \A e \in DOMAIN s.docs : \A q, v : Has(s, e, q, v) => Has(f, e, q, v)
  <2> HIDE DEF A
  <2>1. Stored(f) /\ f.result = s.result
    BY <1>1, <1>2, FuseIs
  <2>2. DOMAIN f.docs = DOMAIN s.docs /\ DOMAIN f.origins = DOMAIN s.origins
    BY <1>1, <1>2, FuseIs
  <2>3. \A o \in DOMAIN s.origins :
            /\ f.origins[o].query = s.origins[o].query
            /\ \A v \in f.origins[o].ranks :
                  \/ v \in s.origins[o].ranks
                  \/ o \in A /\ \E p \in A : /\ s.origins[p].query = s.origins[o].query
                                             /\ v \in s.origins[p].ranks
    BY <1>1, <1>2, FuseIs DEF A
  <2>4. /\ \A e \in DOMAIN s.docs : e # r => f.docs[e] = s.docs[e]
        /\ f.docs[r].id = s.docs[r].id
        /\ f.docs[r].title = TakeFirst(s.docs[r].title, s.docs[d].title)
    BY <1>1, <1>2, FuseIs
  <2>5. Members(f.docs[r].origins) \subseteq A
    BY <1>1, <1>2, FuseIs DEF A
  <2>6. \A e \in DOMAIN s.docs : \A q, v : Has(s, e, q, v) => Has(f, e, q, v)
    BY <1>1, <1>2, FuseIs
  <2> QED BY <2>1, <2>2, <2>3, <2>4, <2>5, <2>6
<1>4. Gathering(S, f, Q)
  BY FusedGathers
<1> HIDE DEF f
<1>5. \A e \in DOMAIN s.docs : f.docs[e].id = s.docs[e].id
  BY <1>3
<1>6. Typed(S, f)
  BY <1>1, <1>3 DEF Typed
<1>7. Resulting(S, f, Q, cloned)
  <2>1. Resulting(S, s, P, cloned)
    BY DEF Joined
  <2>2. OnePerPaper(f)
    BY <1>1, <1>3, <1>5, <2>1 DEF Resulting, OnePerPaper
  <2> QED BY <1>3, <2>1, <2>2 DEF Resulting
<1>8. Following(S, s)
  BY DEF Joined
<1>9. Following(S, f)
  <2> SUFFICES ASSUME NEW e \in DOMAIN S.docs
               PROVE  /\ f.docs[e].id = S.docs[e].id
                      /\ e \notin Members(f.result) => f.docs[e] = S.docs[e]
                      /\ S.docs[e].title # Unloaded => f.docs[e].title = S.docs[e].title
                      /\ \A q, v : Has(S, e, q, v) => Has(f, e, q, v)
    BY DEF Following
  <2>1. e \in DOMAIN s.docs
    BY <1>1
  <2>2. /\ s.docs[e].id = S.docs[e].id
        /\ e \notin Members(s.result) => s.docs[e] = S.docs[e]
        /\ S.docs[e].title # Unloaded => s.docs[e].title = S.docs[e].title
        /\ \A q, v : Has(S, e, q, v) => Has(s, e, q, v)
    BY <1>8 DEF Following
  <2>3. S.docs[e].title # Unloaded => f.docs[e].title = S.docs[e].title
    <3>1. CASE e = r
      BY <1>3, <2>2, <3>1 DEF TakeFirst
    <3>2. CASE e # r
      BY <1>3, <2>1, <2>2, <3>2
    <3> QED BY <3>1, <3>2
  <2>4. e \notin Members(f.result) => f.docs[e] = S.docs[e]
    BY <1>3, <2>1, <2>2
  <2> QED BY <1>3, <1>5, <2>1, <2>2, <2>3, <2>4
<1>10. Handed(S, s, P)
  BY DEF Joined
<1>11. \A p \in A : p \in DOMAIN S.origins /\ OneOf(S, Q, id, p)
  <2>1. A \subseteq DOMAIN s.origins
    BY <1>1, <1>2, StoredIs
  <2>2. ASSUME NEW p \in Members(s.docs[r].origins) PROVE OneOf(S, Q, id, p)
    BY <1>10 DEF Handed, OneOf
  <2>3. ASSUME NEW p \in Members(s.docs[d].origins) PROVE OneOf(S, Q, id, p)
    <3>1. CASE d \in Members(s.result)
      <4>1. d = r
        BY <3>1 DEF Joined, Resulting, OnePerPaper
      <4> QED BY <2>2, <2>3, <4>1
    <3>2. CASE d \notin Members(s.result)
      <4>1. s.docs[d] = S.docs[d]
        BY <1>8, <3>2 DEF Following
      <4> QED BY <2>3, <4>1 DEF OneOf
    <3> QED BY <3>1, <3>2
  <2> QED BY <1>1, <2>1, <2>2, <2>3
<1>12. ASSUME NEW o, NEW v, FromSame(S, P, o, v) PROVE FromSame(S, Q, o, v)
  BY <1>12 DEF FromSame
<1>13. ASSUME NEW o \in A, NEW p \in A, NEW v, S.origins[p].query = S.origins[o].query,
              v \in s.origins[p].ranks
       PROVE  FromSame(S, Q, o, v)
  <2>1. PICK e \in Q : S.docs[e].id = id /\ o \in Members(S.docs[e].origins)
    BY <1>11 DEF OneOf
  <2>2. PICK g \in Q : S.docs[g].id = id /\ p \in Members(S.docs[g].origins)
    BY <1>11 DEF OneOf
  <2>3. p \in DOMAIN S.origins
    BY <1>11
  <2>4. CASE v \in S.origins[p].ranks
    BY <1>13, <2>1, <2>2, <2>4 DEF FromSame
  <2>5. CASE FromSame(S, P, p, v)
    <3>1. PICK h \in P, k \in P : \E n \in Members(S.docs[k].origins) :
             /\ S.docs[h].id = S.docs[k].id /\ p \in Members(S.docs[h].origins)
             /\ S.origins[n].query = S.origins[p].query /\ v \in S.origins[n].ranks
      BY <2>5 DEF FromSame
    <3>2. PICK n \in Members(S.docs[k].origins) :
             /\ S.docs[h].id = S.docs[k].id /\ p \in Members(S.docs[h].origins)
             /\ S.origins[n].query = S.origins[p].query /\ v \in S.origins[n].ranks
      BY <3>1
    <3>3. g \in DOMAIN S.docs /\ h \in DOMAIN S.docs
      OBVIOUS
    <3>4. S.docs[h].id = id
      BY <2>2, <3>2, <3>3 DEF Apart
    <3>5. /\ S.docs[e].id = S.docs[k].id /\ o \in Members(S.docs[e].origins)
          /\ S.origins[n].query = S.origins[o].query
      BY <1>13, <2>1, <3>2, <3>4
    <3> QED BY <2>1, <3>2, <3>5 DEF FromSame
  <2> QED BY <1>10, <1>13, <2>3, <2>4, <2>5 DEF Handed
<1>14. \A o \in DOMAIN S.origins : \A v \in f.origins[o].ranks :
          v \in S.origins[o].ranks \/ FromSame(S, Q, o, v)
  <2> SUFFICES ASSUME NEW o \in DOMAIN S.origins, NEW v \in f.origins[o].ranks
               PROVE  v \in S.origins[o].ranks \/ FromSame(S, Q, o, v)
    OBVIOUS
  <2>1. CASE v \in s.origins[o].ranks
    BY <1>10, <1>12, <2>1 DEF Handed
  <2>2. CASE v \notin s.origins[o].ranks
    <3>1. /\ o \in A
          /\ \E p \in A : s.origins[p].query = s.origins[o].query /\ v \in s.origins[p].ranks
      BY <1>1, <1>3, <2>2
    <3>2. PICK p \in A : s.origins[p].query = s.origins[o].query /\ v \in s.origins[p].ranks
      BY <3>1
    <3>3. S.origins[p].query = S.origins[o].query
      BY <1>1, <1>11, <3>2
    <3> QED BY <1>13, <3>1, <3>2, <3>3
  <2> QED BY <2>1, <2>2
<1>15. \A t \in Members(f.result) : \A o \in Members(f.docs[t].origins) :
          OneOf(S, Q, f.docs[t].id, o)
  <2> SUFFICES ASSUME NEW t \in Members(s.result), NEW o \in Members(f.docs[t].origins)
               PROVE  OneOf(S, Q, f.docs[t].id, o)
    BY <1>3
  <2>1. CASE t = r
    BY <1>3, <1>11, <2>1
  <2>2. CASE t # r
    <3>1. f.docs[t] = s.docs[t]
      BY <1>1, <1>3, <2>2
    <3>2. OneOf(S, P, s.docs[t].id, o)
      BY <1>10, <3>1 DEF Handed
    <3> QED BY <3>1, <3>2 DEF OneOf
  <2> QED BY <2>1, <2>2
<1> QED BY <1>4, <1>6, <1>7, <1>9, <1>14, <1>15 DEF Joined, Handed, f

(* A document of a paper that the result does not have is added to it.       *)
LEMMA RawStands ==
  ASSUME NEW list \in Seq(Snipped) PROVE Stands(list, Members(list))
<1>1. /\ Len(list) \in Nat /\ DOMAIN list = 1..Len(list)
      /\ Members(list) = {list[i] : i \in 1..Len(list)} /\ Members(list) \subseteq Snipped
  BY MembersOf
<1>2. ASSUME NEW i \in 1..Len(list) PROVE Partly(list[i], Members(list), Members(list))
  <2>1. list[i] \in Members(list) /\ list[i] \in Snipped
    BY <1>1
  <2>2. CutOf(list[i], list[i]) /\ Continued(list[i], list[i], Members(list))
    BY <2>1, SnippetIs DEF CutOf, Continued
  <2> QED BY <2>1, <2>2 DEF Partly
<1> QED BY <1>2 DEF Stands, Showing

LEMMA AddedJoins ==
  ASSUME NEW S, Stored(S), NEW s, NEW P \in SUBSET DOMAIN S.docs, NEW cloned,
         Joined(S, s, P, cloned), NEW d \in DOMAIN S.docs,
         \A r \in Members(s.result) : s.docs[r].id # s.docs[d].id,
         NEW f, NEW n, Stored(f), f.origins = s.origins, n \in DOMAIN f.docs,
         DOMAIN f.docs = DOMAIN s.docs \cup {n}, f.docs[n] = s.docs[d],
         \A e \in DOMAIN s.docs : f.docs[e] = s.docs[e],
         f.result \in Seq(DOMAIN f.docs), Members(f.result) = Members(s.result) \cup {n},
         (n = d /\ ~cloned) \/ n \notin DOMAIN s.docs
  PROVE  Joined(S, f, P \cup {d}, cloned)
<1> DEFINE Q == P \cup {d}
<1>1. /\ Stored(s) /\ Members(s.result) \subseteq DOMAIN s.docs /\ DOMAIN S.docs \subseteq DOMAIN s.docs
      /\ DOMAIN s.origins = DOMAIN S.origins
      /\ \A o \in DOMAIN S.origins : s.origins[o].query = S.origins[o].query
  BY MembersOf DEF Joined, Typed
<1>2. Following(S, s) /\ Handed(S, s, P) /\ Gathering(S, s, P) /\ Resulting(S, s, P, cloned)
  BY DEF Joined
<1>3. /\ d \in DOMAIN s.docs /\ d \notin Members(s.result) /\ s.docs[d] = S.docs[d]
      /\ n \notin Members(s.result)
  BY <1>1, <1>2 DEF Following
<1>4. \A r \in Members(s.result) : f.docs[r] = s.docs[r] /\ f.docs[r].id # f.docs[n].id
  BY <1>1, <1>3
<1>5. Typed(S, f)
  BY <1>1 DEF Typed
<1>6. Resulting(S, f, Q, cloned)
  <2>1. OnePerPaper(f)
    BY <1>2, <1>4 DEF Resulting, OnePerPaper
  <2>2. \A e \in DOMAIN f.docs : e \in DOMAIN S.docs \/ e \in Members(f.result)
    BY <1>2 DEF Resulting
  <2>3. \A r \in Members(f.result) \cap DOMAIN S.docs :
           r \in Q /\ (cloned => r \in Members(S.result))
    BY <1>1, <1>2 DEF Resulting
  <2> QED BY <2>1, <2>2, <2>3 DEF Resulting
<1>7. \A e \in DOMAIN s.docs : \A q, v : Has(s, e, q, v) => Has(f, e, q, v)
  BY DEF Has
<1>8. Following(S, f)
  <2> SUFFICES ASSUME NEW e \in DOMAIN S.docs
               PROVE  /\ f.docs[e].id = S.docs[e].id
                      /\ e \notin Members(f.result) => f.docs[e] = S.docs[e]
                      /\ S.docs[e].title # Unloaded => f.docs[e].title = S.docs[e].title
                      /\ \A q, v : Has(S, e, q, v) => Has(f, e, q, v)
    BY DEF Following
  <2>1. e \in DOMAIN s.docs /\ f.docs[e] = s.docs[e]
    BY <1>1
  <2> QED BY <1>2, <1>7, <2>1 DEF Following
<1>9. Handed(S, f, Q)
  <2>1. \A o \in DOMAIN S.origins : \A v \in f.origins[o].ranks :
           v \in S.origins[o].ranks \/ FromSame(S, Q, o, v)
    BY <1>2 DEF Handed, FromSame
  <2>2. ASSUME NEW r \in Members(s.result), NEW o \in Members(f.docs[r].origins)
        PROVE  OneOf(S, Q, f.docs[r].id, o)
    <3>1. OneOf(S, P, s.docs[r].id, o)
      BY <1>2, <1>4 DEF Handed
    <3> QED BY <1>4, <3>1 DEF OneOf
  <2>3. ASSUME NEW o \in Members(f.docs[n].origins) PROVE OneOf(S, Q, f.docs[n].id, o)
    BY <1>3, <2>3 DEF OneOf
  <2> QED BY <2>1, <2>2, <2>3 DEF Handed
<1>10. ASSUME NEW r \in Members(s.result) PROVE Gathered(S, f, Q, r)
  <2>1. f.docs[r] = s.docs[r] /\ S.docs[d].id # s.docs[r].id
    BY <1>3, <1>4
  <2>2. Found(S, Q, s.docs[r].id) = Found(S, P, s.docs[r].id)
    BY <2>1, FoundIs
  <2>3. Gathered(S, s, P, r)
    BY <1>2 DEF Gathering
  <2>4. \A q, v : Has(s, r, q, v) => Has(f, r, q, v)
    BY <1>1, <1>7
  <2> QED BY <2>1, <2>2, <2>3, <2>4 DEF Gathered
<1>11. Gathered(S, f, Q, n)
  <2> DEFINE id == f.docs[n].id
  <2>1. f.docs[n] = S.docs[d]
    BY <1>3
  <2>2. \A e \in P : S.docs[e].id # id
    <3> SUFFICES ASSUME NEW e \in P, S.docs[e].id = id PROVE FALSE
      OBVIOUS
    <3>1. PICK r \in Members(s.result) : s.docs[r].id = S.docs[e].id
      BY <1>2 DEF Gathering
    <3> QED BY <3>1
  <2>3. Found(S, Q, id) = Members(S.docs[d].snippets)
    <3>1. Found(S, P, id) = {}
      BY <2>2 DEF Found
    <3>2. Found(S, Q, id) = Found(S, P, id) \cup Members(S.docs[d].snippets)
      <4>1. S.docs[d].id = id
        BY <2>1
      <4> HIDE DEF id
      <4> QED BY <4>1, FoundIs
    <3> QED BY <3>1, <3>2
  <2>4. Stands(f.docs[n].snippets, Found(S, Q, id))
    <3>1. S.docs[d].snippets \in Seq(Snipped)
      BY StoredIs
    <3> QED BY <2>1, <2>3, <3>1, RawStands
  <2>5. \A q, v : Has(S, d, q, v) => Has(f, n, q, v)
    <3>1. \A q, v : Has(S, d, q, v) => Has(s, d, q, v)
      BY <1>2 DEF Following
    <3>2. f.docs[n] = s.docs[d] /\ f.origins = s.origins
      OBVIOUS
    <3>3. \A q, v : Has(s, d, q, v) => Has(f, n, q, v)
      BY <3>2 DEF Has
    <3> QED BY <3>1, <3>3
  <2>6. S.docs[d].id = id
    BY <2>1
  <2>7. \A e \in Q : \A q, v : S.docs[e].id = id /\ Has(S, e, q, v) => Has(f, n, q, v)
    BY <2>2, <2>5
  <2>8. f.docs[n].title = Unloaded <=> \A e \in Q : S.docs[e].id = id => S.docs[e].title = Unloaded
    BY <2>1, <2>2
  <2> QED BY <2>4, <2>6, <2>7, <2>8 DEF Gathered
<1>12. Gathering(S, f, Q)
  <2>1. \A e \in Q : \E r \in Members(f.result) : f.docs[r].id = S.docs[e].id
    BY <1>2, <1>3, <1>4 DEF Gathering
  <2> QED BY <1>10, <1>11, <2>1 DEF Gathering
<1> QED BY <1>5, <1>6, <1>8, <1>9, <1>12 DEF Joined

LEMMA AppendIs ==
  ASSUME NEW X, NEW s \in Seq(X), NEW x \in X
  PROVE  /\ Append(s, x) \in Seq(X) /\ Len(Append(s, x)) = Len(s) + 1
         /\ DOMAIN Append(s, x) = DOMAIN s \cup {Len(s) + 1} /\ Len(s) + 1 \notin DOMAIN s
         /\ \A i \in DOMAIN s : Append(s, x)[i] = s[i]
         /\ Append(s, x)[Len(s) + 1] = x
         /\ Members(Append(s, x)) = Members(s) \cup {x}
<1> DEFINE t == Append(s, x)
<1>1. /\ t \in Seq(X) /\ Len(t) = Len(s) + 1 /\ Len(s) \in Nat
      /\ \A i \in 1..Len(s) : t[i] = s[i]
      /\ t[Len(s) + 1] = x /\ DOMAIN s = 1..Len(s)
  OBVIOUS
<1> HIDE DEF t
<1>2. DOMAIN t = 1..Len(s) + 1
  BY <1>1
<1>3. DOMAIN t = DOMAIN s \cup {Len(s) + 1} /\ Len(s) + 1 \notin DOMAIN s
  BY <1>1, <1>2
<1>4. Members(t) = Members(s) \cup {x}
  BY <1>1, <1>3 DEF Members
<1> QED BY <1>1, <1>3, <1>4 DEF t

LEMMA JoinStep ==
  ASSUME NEW S, Stored(S), Apart(S), NEW s, NEW P \in SUBSET DOMAIN S.docs,
         NEW cloned \in BOOLEAN, Joined(S, s, P, cloned), NEW d \in DOMAIN S.docs
  PROVE  Joined(S, Join(s, d, cloned), P \cup {d}, cloned)
<1> DEFINE same == {r \in Members(s.result) : s.docs[r].id = s.docs[d].id}
<1>1. /\ Stored(s) /\ s.result \in Seq(DOMAIN s.docs) /\ d \in DOMAIN s.docs
      /\ s.docs \in Seq(DocsOf(s.origins)) /\ s.origins \in Seq(Origins)
  BY DEF Joined, Typed, Stored
<1>2. CASE same # {}
  <2> DEFINE r == CHOOSE q \in same : TRUE
  <2>1. r \in same
    BY <1>2
  <2>2. Join(s, d, cloned) = Fuse(s, r, d)
    BY <1>2 DEF Join
  <2> HIDE DEF r
  <2> QED BY <2>1, <2>2, FusedJoins
<1>3. CASE same = {}
  <2>1. \A r \in Members(s.result) : s.docs[r].id # s.docs[d].id
    BY <1>3
  <2>2. CASE cloned
    <3> DEFINE n == Len(s.docs) + 1
               f == Clone(s, d)
    <3>1. Join(s, d, cloned) = f
      BY <1>3, <2>2 DEF Join, Add
    <3>2. f = [docs |-> Append(s.docs, s.docs[d]), origins |-> s.origins,
               result |-> Append(s.result, n)]
      BY DEF Clone
    <3>3. /\ f.docs = Append(s.docs, s.docs[d]) /\ f.origins = s.origins
          /\ f.result = Append(s.result, n)
          /\ f = [docs |-> f.docs, origins |-> f.origins, result |-> f.result]
      BY <3>2
    <3> HIDE DEF f
    <3>4. s.docs[d] \in DocsOf(s.origins)
      BY <1>1
    <3>5. /\ f.docs \in Seq(DocsOf(s.origins)) /\ DOMAIN f.docs = DOMAIN s.docs \cup {n}
          /\ n \notin DOMAIN s.docs /\ f.docs[n] = s.docs[d]
          /\ \A e \in DOMAIN s.docs : f.docs[e] = s.docs[e]
      BY <1>1, <3>3, <3>4, AppendIs
    <3>6. s.result \in Seq(DOMAIN f.docs) /\ n \in DOMAIN f.docs
      BY <1>1, <3>5
    <3>7. f.result \in Seq(DOMAIN f.docs) /\ Members(f.result) = Members(s.result) \cup {n}
      BY <3>3, <3>6, AppendIs
    <3>8. Stored(f)
      BY <1>1, <3>3, <3>5 DEF Stored
    <3> HIDE DEF n
    <3> QED BY <2>1, <3>1, <3>3, <3>5, <3>6, <3>7, <3>8, AddedJoins
  <2>3. CASE ~cloned
    <3> DEFINE f == Take(s, d)
    <3>1. Join(s, d, cloned) = f
      BY <1>3, <2>3 DEF Join
    <3>2. f = [docs |-> s.docs, origins |-> s.origins, result |-> Append(s.result, d)]
      BY DEF Take
    <3>3. /\ f.docs = s.docs /\ f.origins = s.origins /\ f.result = Append(s.result, d)
          /\ f = [docs |-> f.docs, origins |-> f.origins, result |-> f.result]
      BY <3>2
    <3> HIDE DEF f
    <3>4. f.result \in Seq(DOMAIN f.docs) /\ Members(f.result) = Members(s.result) \cup {d}
      <4>1. s.result \in Seq(DOMAIN f.docs) /\ d \in DOMAIN f.docs
        BY <1>1, <3>3
      <4>2. /\ Append(s.result, d) \in Seq(DOMAIN f.docs)
            /\ Members(Append(s.result, d)) = Members(s.result) \cup {d}
        <5> DEFINE X == DOMAIN f.docs
                   t == s.result
        <5>1. t \in Seq(X) /\ d \in X
          BY <4>1
        <5> HIDE DEF X, t
        <5>2. Append(t, d) \in Seq(X) /\ Members(Append(t, d)) = Members(t) \cup {d}
          BY <5>1, AppendIs
        <5> QED BY <5>2 DEF X, t
      <4> QED BY <3>3, <4>2
    <3>5. Stored(f) /\ DOMAIN f.docs = DOMAIN s.docs \cup {d} /\ d \in DOMAIN f.docs
      BY <1>1, <3>3 DEF Stored
    <3>6. f.docs[d] = s.docs[d] /\ \A e \in DOMAIN s.docs : f.docs[e] = s.docs[e]
      BY <3>3
    <3> QED BY <2>1, <2>3, <3>1, <3>3, <3>4, <3>5, <3>6, AddedJoins
  <2> QED BY <2>2, <2>3
<1> QED BY <1>2, <1>3

LEMMA NoneJoined ==
  ASSUME NEW S, Stored(S), S.result \in Seq(DOMAIN S.docs), OnePerPaper(S), NEW cloned
  PROVE  Joined(S, S, Members(S.result), cloned)
<1> DEFINE P == Members(S.result)
<1>1. P \subseteq DOMAIN S.docs
  BY MembersOf
<1>2. Typed(S, S) /\ Following(S, S)
  BY DEF Typed, Following
<1>3. Resulting(S, S, P, cloned)
  BY DEF Resulting
<1>4. Handed(S, S, P)
  BY DEF Handed, OneOf
<1>5. ASSUME NEW r \in P PROVE Gathered(S, S, P, r)
  <2>1. \A d \in P : S.docs[d].id = S.docs[r].id => d = r
    BY DEF OnePerPaper
  <2>2. Found(S, P, S.docs[r].id) = Members(S.docs[r].snippets)
    <3>1. {e \in P : S.docs[e].id = S.docs[r].id} = {r}
      BY <2>1
    <3> HIDE DEF P
    <3> QED BY <3>1 DEF Found
  <2>3. Stands(S.docs[r].snippets, Members(S.docs[r].snippets))
    <3>1. S.docs[r].snippets \in Seq(Snipped)
      BY <1>1, StoredIs
    <3> QED BY <3>1, RawStands
  <2> HIDE DEF P
  <2> QED BY <2>1, <2>2, <2>3 DEF Gathered
<1>6. Gathering(S, S, P)
  BY <1>5 DEF Gathering
<1> QED BY <1>2, <1>3, <1>4, <1>6 DEF Joined

(* The steps of JoinAll.                                                     *)
JoinSteps(n, S, list, cloned, f) ==
  f = [k \in 0..n |-> IF k = 0 THEN S ELSE Join(f[k - 1], list[k], cloned)]

LEMMA JoinStepsExist ==
  ASSUME NEW N \in Nat, NEW S, NEW list, NEW cloned
  PROVE  \E f : JoinSteps(N, S, list, cloned, f)
<1> DEFINE T == {n \in 0..N : \E f : JoinSteps(n, S, list, cloned, f)}
<1>1. 0 \in T
  <2> DEFINE f == [k \in 0..0 |-> S]
  <2>1. JoinSteps(0, S, list, cloned, f)
    BY DEF JoinSteps
  <2> HIDE DEF f
  <2> QED BY <2>1
<1>2. ASSUME NEW n \in 0..N, n < N, n \in T PROVE n + 1 \in T
  <2>1. PICK f : JoinSteps(n, S, list, cloned, f)
    BY <1>2
  <2> DEFINE Next1(k, h) == IF k = 0 THEN S ELSE Join(h[k - 1], list[k], cloned)
             g == [k \in 0..n + 1 |-> IF k <= n THEN f[k] ELSE Join(f[n], list[n + 1], cloned)]
  <2>2. n \in Nat /\ n + 1 \in 0..N /\ (n + 1) - 1 = n /\ n + 1 # 0
    BY <1>2
  <2>3. \A k \in 0..n : g[k] = f[k]
    BY <2>2
  <2>4. g[n + 1] = Join(f[n], list[n + 1], cloned)
    BY <2>2
  <2>5. \A k \in 0..n : f[k] = Next1(k, f)
    BY <2>1 DEF JoinSteps
  <2>6. DOMAIN g = 0..n + 1 /\ g = [k \in 0..n + 1 |-> g[k]]
    OBVIOUS
  <2> HIDE DEF g
  <2>7. ASSUME NEW k \in 0..n + 1 PROVE g[k] = Next1(k, g)
    <3>1. CASE k = n + 1
      <4>1. g[k - 1] = f[n]
        BY <2>2, <2>3, <3>1
      <4> QED BY <2>2, <2>4, <3>1, <4>1
    <3>2. CASE k # n + 1
      <4>1. k \in 0..n /\ (k # 0 => k - 1 \in 0..n)
        BY <2>2, <3>2
      <4>2. k # 0 => g[k - 1] = f[k - 1]
        BY <2>3, <4>1
      <4>3. g[k] = Next1(k, f)
        BY <2>3, <2>5, <4>1
      <4> QED BY <4>2, <4>3
    <3> QED BY <3>1, <3>2
  <2>8. JoinSteps(n + 1, S, list, cloned, g)
    <3> HIDE DEF Next1
    <3>1. g = [k \in 0..n + 1 |-> Next1(k, g)]
      BY <2>6, <2>7
    <3> QED BY <3>1 DEF JoinSteps, Next1
  <2> QED BY <2>2, <2>8
<1>3. N \in T
  <2> HIDE DEF T
  <2>1. \A n \in 0..N : n < N /\ n \in T => n + 1 \in T
    BY <1>2
  <2>2. \A n \in 0..N : n \in T
    BY <1>1, <2>1, UpToAll
  <2>3. N \in 0..N
    OBVIOUS
  <2> QED BY <2>2, <2>3
<1> QED BY <1>3

LEMMA JoinAllIs ==
  ASSUME NEW S, NEW list, NEW cloned, Len(list) \in Nat
  PROVE  \E f : /\ JoinSteps(Len(list), S, list, cloned, f)
                /\ JoinAll(S, list, cloned) = f[Len(list)]
<1> DEFINE f == CHOOSE g : JoinSteps(Len(list), S, list, cloned, g)
<1>1. JoinSteps(Len(list), S, list, cloned, f)
  BY JoinStepsExist
<1>2. JoinAll(S, list, cloned) = f[Len(list)]
  BY DEF JoinAll, JoinSteps
<1> QED BY <1>1, <1>2

LEMMA AllJoined ==
  ASSUME NEW S, Stored(S), Apart(S), S.result \in Seq(DOMAIN S.docs), OnePerPaper(S),
         NEW list \in Seq(DOMAIN S.docs), NEW cloned \in BOOLEAN
  PROVE  Joined(S, JoinAll(S, list, cloned), Members(S.result) \cup Members(list), cloned)
<1> DEFINE N == Len(list)
           Some(n) == Members(S.result) \cup {list[i] : i \in 1..n}
<1>1. N \in Nat /\ Members(list) = {list[i] : i \in 1..N} /\ Members(S.result) \subseteq DOMAIN S.docs
      /\ \A i \in 1..N : list[i] \in DOMAIN S.docs
  BY MembersOf
<1>2. PICK f : JoinSteps(N, S, list, cloned, f) /\ JoinAll(S, list, cloned) = f[N]
  BY <1>1, JoinAllIs
<1> DEFINE T == {n \in 0..N : Joined(S, f[n], Some(n), cloned)}
<1>3. 0 \in T
  <2>1. f[0] = S /\ Some(0) = Members(S.result)
    BY <1>1, <1>2 DEF JoinSteps
  <2> HIDE DEF Some
  <2> QED BY <1>1, <2>1, NoneJoined
<1>4. ASSUME NEW n \in 0..N, n < N, n \in T PROVE n + 1 \in T
  <2>1. n + 1 \in 0..N /\ n + 1 \in 1..N /\ (n + 1) - 1 = n /\ n + 1 # 0 /\ n \in Nat
    BY <1>1, <1>4
  <2>2. f[n + 1] = Join(f[n], list[n + 1], cloned)
    BY <1>2, <2>1 DEF JoinSteps
  <2>3. Some(n + 1) = Some(n) \cup {list[n + 1]}
    <3>1. \A i : i \in 1..n + 1 <=> i \in 1..n \/ i = n + 1
      BY <2>1
    <3> QED BY <3>1
  <2>4. Some(n) \in SUBSET DOMAIN S.docs /\ list[n + 1] \in DOMAIN S.docs
    BY <1>1, <2>1
  <2>5. Joined(S, f[n], Some(n), cloned)
    BY <1>4
  <2> HIDE DEF Some
  <2>6. Joined(S, Join(f[n], list[n + 1], cloned), Some(n) \cup {list[n + 1]}, cloned)
    BY <2>4, <2>5, JoinStep
  <2> QED BY <2>1, <2>2, <2>3, <2>6
<1>5. N \in T
  <2> HIDE DEF T
  <2>1. \A n \in 0..N : n < N /\ n \in T => n + 1 \in T
    BY <1>4
  <2>2. \A n \in 0..N : n \in T
    BY <1>1, <1>3, <2>1, UpToAll
  <2>3. N \in 0..N
    BY <1>1
  <2> QED BY <2>2, <2>3
<1>6. Some(N) = Members(S.result) \cup Members(list)
  BY <1>1
<1> HIDE DEF Some
<1> QED BY <1>2, <1>5, <1>6

(* The documents of collections, one collection after the other.             *)
TogetherSteps(n, cs, f) ==
  f = [i \in 0..n |-> IF i = 0 THEN << >> ELSE f[i - 1] \o colls[cs[i]].docs]

LEMMA TogetherStepsExist ==
  ASSUME NEW N \in Nat, NEW cs
  PROVE  \E f : TogetherSteps(N, cs, f)
<1> DEFINE T == {n \in 0..N : \E f : TogetherSteps(n, cs, f)}
<1>1. 0 \in T
  <2> DEFINE f == [k \in 0..0 |-> << >>]
  <2>1. TogetherSteps(0, cs, f)
    BY DEF TogetherSteps
  <2> HIDE DEF f
  <2> QED BY <2>1
<1>2. ASSUME NEW n \in 0..N, n < N, n \in T PROVE n + 1 \in T
  <2>1. PICK f : TogetherSteps(n, cs, f)
    BY <1>2
  <2> DEFINE Next1(k, h) == IF k = 0 THEN << >> ELSE h[k - 1] \o colls[cs[k]].docs
             more == f[n] \o colls[cs[n + 1]].docs
             g == [k \in 0..n + 1 |-> IF k <= n THEN f[k] ELSE more]
  <2>2. n \in Nat /\ n + 1 \in 0..N /\ (n + 1) - 1 = n /\ n + 1 # 0
    BY <1>2
  <2>3. \A k \in 0..n : g[k] = f[k]
    BY <2>2
  <2>4. g[n + 1] = f[n] \o colls[cs[n + 1]].docs
    <3> HIDE DEF more
    <3>1. g[n + 1] = more
      BY <2>2
    <3> QED BY <3>1 DEF more
  <2>5. \A k \in 0..n : f[k] = Next1(k, f)
    BY <2>1 DEF TogetherSteps
  <2>6. DOMAIN g = 0..n + 1 /\ g = [k \in 0..n + 1 |-> g[k]]
    OBVIOUS
  <2> HIDE DEF g
  <2>7. ASSUME NEW k \in 0..n + 1 PROVE g[k] = Next1(k, g)
    <3>1. CASE k = n + 1
      <4>1. g[k - 1] = f[n]
        BY <2>2, <2>3, <3>1
      <4> QED BY <2>2, <2>4, <3>1, <4>1
    <3>2. CASE k # n + 1
      <4>1. k \in 0..n /\ (k # 0 => k - 1 \in 0..n)
        BY <2>2, <3>2
      <4>2. k # 0 => g[k - 1] = f[k - 1]
        BY <2>3, <4>1
      <4>3. g[k] = Next1(k, f)
        BY <2>3, <2>5, <4>1
      <4> QED BY <4>2, <4>3
    <3> QED BY <3>1, <3>2
  <2>8. TogetherSteps(n + 1, cs, g)
    <3> HIDE DEF Next1
    <3>1. g = [k \in 0..n + 1 |-> Next1(k, g)]
      BY <2>6, <2>7
    <3> QED BY <3>1 DEF TogetherSteps, Next1
  <2> QED BY <2>2, <2>8
<1>3. N \in T
  <2> HIDE DEF T
  <2>1. \A n \in 0..N : n < N /\ n \in T => n + 1 \in T
    BY <1>2
  <2>2. \A n \in 0..N : n \in T
    BY <1>1, <2>1, UpToAll
  <2>3. N \in 0..N
    OBVIOUS
  <2> QED BY <2>2, <2>3
<1> QED BY <1>3

LEMMA TogetherIs ==
  ASSUME NEW cs \in Seq(DOMAIN colls), NEW X, \A c \in DOMAIN colls : colls[c].docs \in Seq(X)
  PROVE  /\ Together(cs) \in Seq(X)
         /\ Members(Together(cs)) = UNION {Members(colls[c].docs) : c \in Members(cs)}
<1> DEFINE N == Len(cs)
           f == CHOOSE g : TogetherSteps(N, cs, g)
           Some(n) == UNION {Members(colls[cs[i]].docs) : i \in 1..n}
           T == {n \in 0..N : f[n] \in Seq(X) /\ Members(f[n]) = Some(n)}
<1>1. N \in Nat /\ Members(cs) = {cs[i] : i \in 1..N} /\ \A i \in 1..N : cs[i] \in DOMAIN colls
  BY MembersOf
<1>2. TogetherSteps(N, cs, f)
  BY <1>1, TogetherStepsExist
<1>3. Together(cs) = f[N]
  BY DEF Together, TogetherSteps
<1> HIDE DEF f, N
<1>4. 0 \in T
  <2>1. f[0] = << >> /\ Some(0) = {}
    BY <1>1, <1>2 DEF TogetherSteps
  <2>2. Members(<< >>) = {} /\ << >> \in Seq(X)
    BY DEF Members
  <2>3. 0 \in 0..N
    BY <1>1
  <2> HIDE DEF Some
  <2>4. f[0] \in Seq(X) /\ Members(f[0]) = Some(0)
    BY <2>1, <2>2
  <2> QED BY <2>3, <2>4
<1>5. ASSUME NEW n \in 0..N, n < N, n \in T PROVE n + 1 \in T
  <2> DEFINE more == colls[cs[n + 1]].docs
  <2>1. n + 1 \in 0..N /\ n + 1 \in 1..N /\ (n + 1) - 1 = n /\ n + 1 # 0 /\ n \in Nat
    BY <1>1, <1>5
  <2>2. f[n + 1] = f[n] \o more /\ more \in Seq(X) /\ f[n] \in Seq(X) /\ Members(f[n]) = Some(n)
    BY <1>1, <1>2, <1>5, <2>1 DEF TogetherSteps
  <2>3. Some(n + 1) = Some(n) \cup Members(more)
    <3>1. \A i : i \in 1..n + 1 <=> i \in 1..n \/ i = n + 1
      BY <2>1
    <3> QED BY <3>1
  <2> HIDE DEF Some, more
  <2>4. f[n + 1] \in Seq(X) /\ Members(f[n + 1]) = Members(f[n]) \cup Members(more)
    BY <2>2, Joint
  <2> QED BY <2>1, <2>2, <2>3, <2>4
<1>6. N \in T
  <2> HIDE DEF T
  <2>1. \A n \in 0..N : n < N /\ n \in T => n + 1 \in T
    BY <1>5
  <2>2. \A n \in 0..N : n \in T
    BY <1>1, <1>4, <2>1, UpToAll
  <2>3. N \in 0..N
    BY <1>1
  <2> QED BY <2>2, <2>3
<1>7. Some(N) = UNION {Members(colls[c].docs) : c \in Members(cs)}
  BY <1>1
<1> HIDE DEF Some
<1> QED BY <1>3, <1>6, <1>7

(* What a step keeps that lets the documents of P join a result.             *)
LEMMA RanksAre ==
  ASSUME NEW s, s.docs = docs, s.origins = origins, NEW d, NEW q, NEW v
  PROVE  v \in Ranks(d, q) <=> Has(s, d, q, v)
BY DEF Ranks, Has

LEMMA NewRanksAre ==
  ASSUME NEW s, s.docs = docs', s.origins = origins', NEW d, NEW q, NEW v
  PROVE  v \in Ranks(d, q)' <=> Has(s, d, q, v)
<1>1. Ranks(d, q)' = UNION {s.origins[o].ranks :
                            o \in {p \in Members(s.docs[d].origins) : s.origins[p].query = q}}
  BY DEF Ranks, Members
<1> QED BY <1>1 DEF Has

LEMMA RanksFrom ==
  ASSUME NEW S, Stored(S), Apart(S), NEW s, NEW P \in SUBSET DOMAIN S.docs, NEW cloned,
         Joined(S, s, P, cloned), NEW r \in Members(s.result), NEW q, NEW v, Has(s, r, q, v)
  PROVE  \E e \in P : S.docs[e].id = s.docs[r].id /\ Has(S, e, q, v)
<1>1. /\ Handed(S, s, P) /\ Typed(S, s)
  BY DEF Joined
<1>2. PICK o \in Members(s.docs[r].origins) : s.origins[o].query = q /\ v \in s.origins[o].ranks
  BY DEF Has
<1>3. PICK e \in P : S.docs[e].id = s.docs[r].id /\ o \in Members(S.docs[e].origins)
  BY <1>1 DEF Handed, OneOf
<1>4. e \in DOMAIN S.docs /\ o \in DOMAIN S.origins
  BY <1>3, StoredIs
<1>5. S.origins[o].query = q
  BY <1>1, <1>2, <1>4 DEF Typed
<1>6. CASE v \in S.origins[o].ranks
  BY <1>3, <1>5, <1>6 DEF Has
<1>7. CASE FromSame(S, P, o, v)
  <2>1. PICK h \in P, g \in P : \E p \in Members(S.docs[g].origins) :
           /\ S.docs[h].id = S.docs[g].id /\ o \in Members(S.docs[h].origins)
           /\ S.origins[p].query = S.origins[o].query /\ v \in S.origins[p].ranks
    BY <1>7 DEF FromSame
  <2>2. S.docs[h].id = S.docs[e].id
    BY <1>3, <1>4, <2>1 DEF Apart
  <2>3. Has(S, g, q, v)
    BY <1>5, <2>1 DEF Has
  <2> QED BY <1>3, <2>1, <2>2, <2>3
<1> QED BY <1>1, <1>2, <1>4, <1>6, <1>7 DEF Handed

LEMMA JoinedKeeps ==
  ASSUME NEW S, Stored(S), Apart(S), S.docs = docs, S.origins = origins,
         NEW s, NEW P \in SUBSET DOMAIN S.docs, NEW cloned, Joined(S, s, P, cloned),
         docs' = s.docs, origins' = s.origins
  PROVE  KnownKept
<1> SUFFICES ASSUME NEW d \in DOMAIN docs
             PROVE  /\ docs[d].title # Unloaded => docs'[d].title = docs[d].title
                    /\ \A q \in Queries : /\ Ranks(d, q) \subseteq Ranks(d, q)'
                                          /\ Ranks(d, q)' \subseteq UNION {Ranks(e, q) : e \in SamePaper(d)}
  BY DEF KnownKept
<1>1. Following(S, s) /\ Handed(S, s, P) /\ Typed(S, s)
  BY DEF Joined
<1>2. docs[d].title # Unloaded => docs'[d].title = docs[d].title
  BY <1>1 DEF Following
<1>3. ASSUME NEW q, NEW v \in Ranks(d, q) PROVE v \in Ranks(d, q)'
  <2>1. Has(S, d, q, v)
    BY <1>3, RanksAre
  <2>2. Has(s, d, q, v)
    BY <1>1, <2>1 DEF Following
  <2> QED BY <2>2, NewRanksAre
<1>4. ASSUME NEW q, NEW v \in Ranks(d, q)' PROVE v \in UNION {Ranks(e, q) : e \in SamePaper(d)}
  <2>1. Has(s, d, q, v)
    BY <1>4, NewRanksAre
  <2>2. \E e \in DOMAIN docs : docs[e].id = docs[d].id /\ Has(S, e, q, v)
    <3>1. CASE d \in Members(s.result)
      <4>1. s.docs[d].id = docs[d].id
        BY <1>1 DEF Following
      <4> QED BY <2>1, <3>1, <4>1, RanksFrom
    <3>2. CASE d \notin Members(s.result)
      <4>1. s.docs[d] = docs[d]
        BY <1>1, <3>2 DEF Following
      <4>2. PICK o \in Members(docs[d].origins) : s.origins[o].query = q /\ v \in s.origins[o].ranks
        BY <2>1, <4>1 DEF Has
      <4>3. o \in DOMAIN S.origins
        BY <4>2, StoredIs
      <4>4. S.origins[o].query = q
        BY <1>1, <4>2, <4>3 DEF Typed
      <4>5. CASE v \in S.origins[o].ranks
        BY <4>2, <4>4, <4>5 DEF Has
      <4>6. CASE FromSame(S, P, o, v)
        <5>1. PICK h \in P, g \in P : \E p \in Members(S.docs[g].origins) :
                 /\ S.docs[h].id = S.docs[g].id /\ o \in Members(S.docs[h].origins)
                 /\ S.origins[p].query = S.origins[o].query /\ v \in S.origins[p].ranks
          BY <4>6 DEF FromSame
        <5>2. S.docs[h].id = docs[d].id
          BY <4>2, <5>1 DEF Apart
        <5>3. Has(S, g, q, v)
          BY <4>4, <5>1 DEF Has
        <5> QED BY <5>1, <5>2, <5>3
      <4> QED BY <1>1, <4>2, <4>3, <4>5, <4>6 DEF Handed
    <3> QED BY <3>1, <3>2
  <2>3. PICK e \in DOMAIN docs : docs[e].id = docs[d].id /\ Has(S, e, q, v)
    BY <2>2
  <2>4. v \in Ranks(e, q) /\ e \in SamePaper(d)
    BY <2>3, RanksAre DEF SamePaper
  <2> QED BY <2>4
<1> QED BY <1>2, <1>3, <1>4

LEMMA ShowsIs ==
  ASSUME NEW M \in SUBSET Snipped, NEW x
  PROVE  x \in UNION {s.start .. s.end - 1 : s \in {t \in M : t.start # None}}
            <=> x \in Nat /\ \E m \in M : Covers(m, x)
<1>1. \A m \in M : m.start \in Nat /\ m.end \in Nat
  BY SnippetIs
<1>2. ASSUME NEW m \in M, m.start # None, x \in m.start .. m.end - 1
      PROVE  x \in Nat /\ Covers(m, x)
  BY <1>1, <1>2 DEF Covers, None
<1>3. ASSUME x \in Nat, NEW m \in M, Covers(m, x)
      PROVE  m.start # None /\ x \in m.start .. m.end - 1
  BY <1>1, <1>3 DEF Covers, None
<1> QED BY <1>2, <1>3

(* A collection that was made has every paper of the documents of P once,    *)
(* with all that is known of it.                                             *)
Completes(P, made) ==
  LET Same(r) == {d \in P : docs[d].id = docs'[r].id}
  IN  /\ {docs'[r].id : r \in Members(made)} = {docs[d].id : d \in P}
      /\ Cardinality(Members(made)) = Cardinality({docs[d].id : d \in P})
      /\ \A r \in Members(made) :
             /\ docs'[r].title = Unloaded <=> \A d \in Same(r) : docs[d].title = Unloaded
             /\ \A q \in Queries : Ranks(r, q)' = UNION {Ranks(d, q) : d \in Same(r)}
             /\ Nested(Same(r)) \/ Shown(r)' = UNION {Shown(d) : d \in Same(r)}

LEMMA JoinedComplete ==
  ASSUME NEW S, Stored(S), Apart(S), S.docs = docs, S.origins = origins,
         NEW s, NEW P \in SUBSET DOMAIN docs, NEW cloned, Joined(S, s, P, cloned),
         docs' = s.docs, origins' = s.origins
  PROVE  Completes(P, s.result)
<1> DEFINE Same(r) == {d \in P : docs[d].id = docs'[r].id}
           M == Members(s.result)
<1>1. /\ Gathering(S, s, P) /\ Typed(S, s) /\ OnePerPaper(s)
  BY DEF Joined, Resulting
<1>2. M \subseteq DOMAIN s.docs /\ s.result \in Seq(DOMAIN s.docs)
  BY <1>1, MembersOf DEF Typed
<1>3. \A r \in M : Gathered(S, s, P, r)
  BY <1>1 DEF Gathering
<1>4. {docs'[r].id : r \in M} = {docs[d].id : d \in P}
  <2>1. \A r \in M : \E d \in P : docs[d].id = docs'[r].id
    BY <1>3 DEF Gathered
  <2>2. \A d \in P : \E r \in M : docs'[r].id = docs[d].id
    BY <1>1 DEF Gathering
  <2> QED BY <2>1, <2>2
<1>5. Cardinality(M) = Cardinality({docs[d].id : d \in P})
  <2> DEFINE I == {docs'[r].id : r \in M}
             f == [r \in M |-> docs'[r].id]
             D == 1..Len(s.result)
  <2>1. IsFiniteSet(M)
    <3>1. M = {s.result[i] : i \in D} /\ IsFiniteSet(D) /\ DOMAIN s.result = D
      <4> DEFINE list == s.result
      <4>1. list \in Seq(DOMAIN s.docs)
        BY <1>2
      <4> HIDE DEF list
      <4>2. Len(list) \in Nat /\ DOMAIN list = 1..Len(list) /\ Members(list) = {list[i] : i \in 1..Len(list)}
        BY <4>1, MembersOf
      <4>3. IsFiniteSet(1..Len(list))
        BY <4>2, FS_Interval
      <4> QED BY <4>2, <4>3 DEF list
    <3> HIDE DEF M, D
    <3> QED BY <3>1, FiniteImage
  <2>2. \A q, r \in M : docs'[q].id = docs'[r].id => q = r
    BY <1>1 DEF OnePerPaper
  <2>3. f \in Bijection(M, I)
    <3> HIDE DEF M
    <3> QED BY <2>2 DEF Bijection, Injection, Surjection, IsInjective
  <2>4. ExistsBijection(M, I)
    BY <2>3 DEF ExistsBijection
  <2> HIDE DEF I, M
  <2>5. Cardinality(I) = Cardinality(M)
    BY <2>1, <2>4, FS_Bijection
  <2> QED BY <1>4, <2>5 DEF I, M
<1>6. ASSUME NEW r \in M
      PROVE  /\ docs'[r].title = Unloaded <=> \A d \in Same(r) : docs[d].title = Unloaded
             /\ \A q \in Queries : Ranks(r, q)' = UNION {Ranks(d, q) : d \in Same(r)}
             /\ Nested(Same(r)) \/ Shown(r)' = UNION {Shown(d) : d \in Same(r)}
  <2> DEFINE id == s.docs[r].id
             Z == Found(S, P, id)
             list == s.docs[r].snippets
  <2>1. Gathered(S, s, P, r)
    BY <1>3
  <2>2. docs'[r].title = Unloaded <=> \A d \in Same(r) : docs[d].title = Unloaded
    BY <2>1 DEF Gathered
  <2>3. ASSUME NEW q, NEW v
        PROVE  v \in Ranks(r, q)' <=> \E d \in Same(r) : v \in Ranks(d, q)
    <3>1. v \in Ranks(r, q)' <=> Has(s, r, q, v)
      BY NewRanksAre
    <3>2. \A d : v \in Ranks(d, q) <=> Has(S, d, q, v)
      BY RanksAre
    <3>3. \A d \in P : S.docs[d].id = s.docs[r].id /\ Has(S, d, q, v) => Has(s, r, q, v)
      BY <2>1 DEF Gathered
    <3>4. Has(s, r, q, v) => \E d \in P : S.docs[d].id = s.docs[r].id /\ Has(S, d, q, v)
      BY RanksFrom
    <3> QED BY <3>1, <3>2, <3>3, <3>4
  <2>4. ASSUME ~Nested(Same(r)), NEW x
        PROVE  x \in Shown(r)' <=> \E d \in Same(r) : x \in Shown(d)
    <3>1. \A d \in P : Members(docs[d].snippets) \in SUBSET Snipped
      BY StoredIs, MembersOf
    <3>2. Z = UNION {Members(docs[d].snippets) : d \in Same(r)}
      BY DEF Found
    <3>3. ~Inside(Z)
      BY <2>4, <3>2 DEF Nested, Inside, None
    <3>4. Stands(list, Z)
      BY <2>1, <3>3 DEF Gathered
    <3>5. Members(list) \in SUBSET Snipped
      BY <3>4, MembersOf DEF Stands
    <3>6. \A d \in P : x \in Shown(d) <=> x \in Nat /\ \E m \in Members(docs[d].snippets) : Covers(m, x)
      BY <3>1, ShowsIs DEF Shown
    <3>7. x \in Shown(r)' <=> x \in Nat /\ \E m \in Members(list) : Covers(m, x)
      <4>1. Shown(r)' = UNION {t.start .. t.end - 1 : t \in {u \in Members(list) : u.start # None}}
        BY DEF Shown, Members
      <4> HIDE DEF list
      <4> QED BY <3>5, <4>1, ShowsIs
    <3>8. ASSUME NEW m \in Members(list), x \in Nat, Covers(m, x) PROVE \E z \in Z : Covers(z, x)
      <4>1. PICK i \in 1..Len(list) : list[i] = m
        <5>1. list \in Seq(Snipped)
          BY <3>4 DEF Stands
        <5> HIDE DEF list
        <5> QED BY <5>1, MembersOf
      <4>2. PICK z \in Z : CutOf(m, z)
        BY <3>4, <4>1 DEF Stands, Partly
      <4>3. z \in Snipped
        BY <3>1, <3>2
      <4>4. z.end \in Nat /\ m.end \in Nat /\ z.start \in Nat
        BY <3>5, <4>3, SnippetIs
      <4> QED BY <3>8, <4>2, <4>4 DEF CutOf, Covers
    <3>9. ASSUME NEW z \in Z, x \in Nat, Covers(z, x) PROVE \E m \in Members(list) : Covers(m, x)
      BY <3>4, <3>9 DEF Stands, Showing
    <3>10. (\E z \in Z : Covers(z, x)) <=> \E d \in Same(r) : \E m \in Members(docs[d].snippets) : Covers(m, x)
      BY <3>2
    <3> HIDE DEF Z, list
    <3> QED BY <3>6, <3>7, <3>8, <3>9, <3>10
  <2> HIDE DEF Same
  <2>5. \A q \in Queries : Ranks(r, q)' = UNION {Ranks(d, q) : d \in Same(r)}
    BY <2>3
  <2>6. Nested(Same(r)) \/ Shown(r)' = UNION {Shown(d) : d \in Same(r)}
    BY <2>4
  <2> QED BY <2>2, <2>5, <2>6 DEF Same
<1> QED BY <1>4, <1>5, <1>6 DEF Completes

-----------------------------------------------------------------------------
(* The inductive invariant: papers share no origin, what the sources found   *)
(* is in one list and in no collection, collections of different roots share *)
(* no document, and none has two documents of one paper.                     *)
Now == Store(<< >>)
ListsTyped == lists \in Seq([docs : Seq(DOMAIN docs), computed : Int])
CollsTyped == /\ colls \in Seq([docs : Seq(DOMAIN docs), computed : Int, root : Nat])
              /\ \A c \in DOMAIN colls : colls[c].root \in 1..Len(colls)
ListsApart ==
  \A i \in DOMAIN lists :
    /\ \A j \in DOMAIN lists : i # j => Members(lists[i].docs) \cap Members(lists[j].docs) = {}
    /\ \A c \in DOMAIN colls : Members(lists[i].docs) \cap Members(colls[c].docs) = {}
RootsApart ==
  \A c, e \in DOMAIN colls : colls[c].root # colls[e].root =>
      Members(colls[c].docs) \cap Members(colls[e].docs) = {}
EachOnce == \A c \in DOMAIN colls : \A q, r \in Members(colls[c].docs) :
                docs[q].id = docs[r].id => q = r
IInv ==
  /\ Stored(Now) /\ Apart(Now) /\ ListsTyped /\ CollsTyped
  /\ ListsApart /\ RootsApart /\ EachOnce

LEMMA StoreIs ==
  ASSUME NEW result
  PROVE  /\ Store(result) = [docs |-> docs, origins |-> origins, result |-> result]
         /\ Store(result).docs = docs /\ Store(result).origins = origins
         /\ Store(result).result = result
         /\ Stored(Now) => Stored(Store(result))
         /\ Apart(Now) => Apart(Store(result))
BY DEF Store, Now, Stored, Apart

LEMMA CollsAre ==
  ASSUME CollsTyped
  PROVE  /\ Len(colls) \in Nat /\ DOMAIN colls = 1..Len(colls)
         /\ \A c \in DOMAIN colls :
               /\ colls[c].docs \in Seq(DOMAIN docs) /\ Members(colls[c].docs) \subseteq DOMAIN docs
               /\ colls[c].computed \in Int /\ colls[c].root \in 1..Len(colls)
<1> DEFINE D == DOMAIN docs
           R == [docs : Seq(D), computed : Int, root : Nat]
<1>1. colls \in Seq(R) /\ \A c \in DOMAIN colls : colls[c].root \in 1..Len(colls)
  BY DEF CollsTyped
<1>2. \A r \in R : r.docs \in Seq(D) /\ r.computed \in Int
  OBVIOUS
<1> HIDE DEF R, D
<1>3. /\ Len(colls) \in Nat /\ DOMAIN colls = 1..Len(colls)
      /\ \A c \in DOMAIN colls : colls[c] \in R
  BY <1>1
<1>4. \A c \in DOMAIN colls : colls[c].docs \in Seq(D) /\ colls[c].computed \in Int
  BY <1>2, <1>3
<1>5. \A c \in DOMAIN colls : Members(colls[c].docs) \subseteq D
  BY <1>4, MembersOf
<1> QED BY <1>1, <1>3, <1>4, <1>5 DEF D

LEMMA ListsAre ==
  ASSUME ListsTyped
  PROVE  /\ Len(lists) \in Nat /\ DOMAIN lists = 1..Len(lists)
         /\ \A i \in DOMAIN lists :
               /\ lists[i].docs \in Seq(DOMAIN docs) /\ Members(lists[i].docs) \subseteq DOMAIN docs
               /\ lists[i].computed \in Int
<1> DEFINE D == DOMAIN docs
           R == [docs : Seq(D), computed : Int]
<1>1. lists \in Seq(R)
  BY DEF ListsTyped
<1>2. \A r \in R : r.docs \in Seq(D) /\ r.computed \in Int
  OBVIOUS
<1> HIDE DEF R, D
<1>3. /\ Len(lists) \in Nat /\ DOMAIN lists = 1..Len(lists)
      /\ \A i \in DOMAIN lists : lists[i] \in R
  BY <1>1
<1>4. \A i \in DOMAIN lists : lists[i].docs \in Seq(D) /\ lists[i].computed \in Int
  BY <1>2, <1>3
<1>5. \A i \in DOMAIN lists : Members(lists[i].docs) \subseteq D
  BY <1>4, MembersOf
<1> QED BY <1>3, <1>4, <1>5 DEF D

LEMMA SeqWidened ==
  ASSUME NEW X, NEW Y, X \subseteq Y, NEW s \in Seq(X) PROVE s \in Seq(Y)
OBVIOUS

LEMMA StoredSame ==
  ASSUME NEW s, NEW t, t = [docs |-> s.docs, origins |-> s.origins, result |-> t.result]
  PROVE  (Stored(s) => Stored(t)) /\ (Apart(s) => Apart(t))
<1>1. t.docs = s.docs /\ t.origins = s.origins
  OBVIOUS
<1> QED BY <1>1 DEF Stored, Apart

(* Documents were made and changed, and the collections are those there were.*)
LEMMA StoreGrown ==
  ASSUME IInv, NEW s, Stored(s), Apart(s), docs' = s.docs, origins' = s.origins,
         DOMAIN docs \subseteq DOMAIN s.docs, \A d \in DOMAIN docs : s.docs[d].id = docs[d].id
  PROVE  /\ Stored(Now)' /\ Apart(Now)'
         /\ lists \in Seq([docs : Seq(DOMAIN docs'), computed : Int])
         /\ colls \in Seq([docs : Seq(DOMAIN docs'), computed : Int, root : Nat])
         /\ \A c \in DOMAIN colls : \A q, r \in Members(colls[c].docs) :
                docs'[q].id = docs'[r].id => q = r
<1>1. Now' = [docs |-> s.docs, origins |-> s.origins, result |-> << >>]
  BY DEF Now, Store
<1>2. Stored(Now)' /\ Apart(Now)'
  <2> DEFINE t == [docs |-> s.docs, origins |-> s.origins, result |-> << >>]
  <2>1. t = [docs |-> s.docs, origins |-> s.origins, result |-> t.result]
    OBVIOUS
  <2> HIDE DEF t
  <2>2. Stored(t) /\ Apart(t)
    BY <2>1, StoredSame
  <2> QED BY <1>1, <2>2 DEF t
<1> DEFINE D == DOMAIN docs
           E == DOMAIN s.docs
           LD == [docs : Seq(D), computed : Int]
           LE == [docs : Seq(E), computed : Int]
           CD == [docs : Seq(D), computed : Int, root : Nat]
           CE == [docs : Seq(E), computed : Int, root : Nat]
<1>3. lists \in Seq(LD) /\ colls \in Seq(CD) /\ D \subseteq E /\ DOMAIN docs' = E
  BY DEF IInv, ListsTyped, CollsTyped
<1>4. LD \subseteq LE /\ CD \subseteq CE
  <2> HIDE DEF D, E
  <2>1. Seq(D) \subseteq Seq(E)
    BY <1>3, SeqWidened
  <2> QED BY <2>1
<1>5. lists \in Seq(LE) /\ colls \in Seq(CE)
  <2> HIDE DEF LD, LE, CD, CE
  <2> QED BY <1>3, <1>4, SeqWidened
<1>6. \A c \in DOMAIN colls : \A q, r \in Members(colls[c].docs) :
         docs'[q].id = docs'[r].id => q = r
  BY CollsAre DEF IInv, EachOnce
<1> QED BY <1>2, <1>3, <1>5, <1>6

(* A collection was made, of new documents and of those of one that it has   *)
(* the root of.                                                              *)
LEMMA CollectionMade ==
  ASSUME IInv, NEW s, Stored(s), Apart(s), docs' = s.docs, origins' = s.origins,
         DOMAIN docs \subseteq DOMAIN s.docs, \A d \in DOMAIN docs : s.docs[d].id = docs[d].id,
         s.result \in Seq(DOMAIN s.docs), OnePerPaper(s), NEW k \in Int, NEW root,
         colls' = Append(colls, [docs |-> s.result, computed |-> k, root |-> root]),
         lists' = lists \/ (lists # << >> /\ lists' = Tail(lists)),
         \A i \in DOMAIN lists' : Members(lists'[i].docs) \cap Members(s.result) = {},
         \/ root = Own /\ \A c \in DOMAIN colls : Members(s.result) \cap Members(colls[c].docs) = {}
         \/ \E a \in DOMAIN colls : /\ root = colls[a].root
                                    /\ Members(s.result) \cap DOMAIN docs \subseteq Members(colls[a].docs)
  PROVE  IInv'
<1> DEFINE new == [docs |-> s.result, computed |-> k, root |-> root]
           n == Len(colls) + 1
           C == [docs : Seq(DOMAIN docs'), computed : Int, root : Nat]
           L == [docs : Seq(DOMAIN docs'), computed : Int]
<1>1. /\ Stored(Now)' /\ Apart(Now)' /\ lists \in Seq(L) /\ colls \in Seq(C)
      /\ \A c \in DOMAIN colls : \A q, r \in Members(colls[c].docs) :
             docs'[q].id = docs'[r].id => q = r
  BY StoreGrown
<1>2. /\ Len(colls) \in Nat /\ DOMAIN colls = 1..Len(colls)
      /\ \A c \in DOMAIN colls : /\ Members(colls[c].docs) \subseteq DOMAIN docs
                                 /\ colls[c].root \in 1..Len(colls)
  BY CollsAre DEF IInv
<1>3. root \in 1..n
  BY <1>2 DEF Own
<1>4. new \in C
  <2>1. s.result \in Seq(DOMAIN docs') /\ root \in Nat
    BY <1>2, <1>3
  <2> QED BY <2>1
<1>5. new.docs = s.result /\ new.root = root
  OBVIOUS
<1> HIDE DEF new, C
<1>6. /\ colls' \in Seq(C) /\ Len(colls') = n /\ DOMAIN colls' = DOMAIN colls \cup {n}
      /\ n \notin DOMAIN colls
      /\ \A c \in DOMAIN colls : colls'[c] = colls[c]
      /\ colls'[n] = new
  BY <1>1, <1>4, AppendIs DEF new
<1>7. CollsTyped'
  <2>1. \A c \in DOMAIN colls' : colls'[c].root \in 1..Len(colls')
    BY <1>2, <1>3, <1>5, <1>6
  <2> QED BY <1>6, <2>1 DEF CollsTyped, C
<1>8. /\ lists' \in Seq(L)
      /\ \A i \in DOMAIN lists' : \E j \in DOMAIN lists : lists'[i] = lists[j]
      /\ \A i, j \in DOMAIN lists' : i # j =>
            Members(lists'[i].docs) \cap Members(lists'[j].docs) = {}
  <2>0. ListsApart
    BY DEF IInv
  <2> HIDE DEF L
  <2>1. CASE lists' = lists
    BY <1>1, <2>0, <2>1 DEF ListsApart
  <2>2. CASE lists # << >> /\ lists' = Tail(lists)
    <3>1. /\ lists' \in Seq(L) /\ DOMAIN lists' = 1..Len(lists) - 1 /\ DOMAIN lists = 1..Len(lists)
          /\ Len(lists) \in Nat
          /\ \A i \in DOMAIN lists' : lists'[i] = lists[i + 1]
      BY <1>1, <2>2
    <3>2. \A i \in DOMAIN lists' : i + 1 \in DOMAIN lists
      BY <3>1
    <3>3. \A i, j \in DOMAIN lists' : i # j => i + 1 # j + 1
      BY <3>1
    <3> QED BY <2>0, <3>1, <3>2, <3>3, ZenonT(60) DEF ListsApart
  <2> QED BY <2>1, <2>2
<1>9. ListsApart'
  <2>1. \A i \in DOMAIN lists' : \A c \in DOMAIN colls : Members(lists'[i].docs) \cap Members(colls[c].docs) = {}
    BY <1>8 DEF IInv, ListsApart
  <2>2. ASSUME NEW i \in DOMAIN lists', NEW c \in DOMAIN colls'
        PROVE  Members(lists'[i].docs) \cap Members(colls'[c].docs) = {}
    <3>1. CASE c = n
      BY <1>5, <1>6, <3>1
    <3>2. CASE c \in DOMAIN colls
      <4>1. colls'[c] = colls[c]
        BY <1>6, <3>2
      <4> QED BY <2>1, <3>2, <4>1
    <3> QED BY <1>6, <3>1, <3>2
  <2> QED BY <1>8, <2>2 DEF ListsApart, Members
<1>10. RootsApart'
  <2>1. \A c, e \in DOMAIN colls : colls[c].root # colls[e].root =>
           Members(colls[c].docs) \cap Members(colls[e].docs) = {}
    BY DEF IInv, RootsApart
  <2>2. ASSUME NEW c \in DOMAIN colls, colls[c].root # root
        PROVE  Members(colls[c].docs) \cap Members(s.result) = {}
    <3>1. CASE root = Own /\ \A e \in DOMAIN colls : Members(s.result) \cap Members(colls[e].docs) = {}
      BY <3>1
    <3>2. ASSUME NEW a \in DOMAIN colls, root = colls[a].root,
                 Members(s.result) \cap DOMAIN docs \subseteq Members(colls[a].docs)
          PROVE  Members(colls[c].docs) \cap Members(s.result) = {}
      BY <1>2, <2>1, <2>2, <3>2
    <3> QED BY <3>1, <3>2
  <2>4. colls'[n].docs = s.result /\ colls'[n].root = root
    BY <1>5, <1>6
  <2>3. ASSUME NEW c \in DOMAIN colls', NEW e \in DOMAIN colls', colls'[c].root # colls'[e].root
        PROVE  Members(colls'[c].docs) \cap Members(colls'[e].docs) = {}
    <3>1. CASE c = n /\ e = n
      BY <2>3, <3>1
    <3>2. CASE c = n /\ e \in DOMAIN colls
      <4>1. colls'[e] = colls[e]
        BY <1>6, <3>2
      <4>2. colls[e].root # root
        BY <2>3, <2>4, <3>2, <4>1
      <4> QED BY <2>2, <2>4, <3>2, <4>1, <4>2
    <3>3. CASE c \in DOMAIN colls /\ e = n
      <4>1. colls'[c] = colls[c]
        BY <1>6, <3>3
      <4>2. colls[c].root # root
        BY <2>3, <2>4, <3>3, <4>1
      <4> QED BY <2>2, <2>4, <3>3, <4>1, <4>2
    <3>4. CASE c \in DOMAIN colls /\ e \in DOMAIN colls
      <4>1. colls'[c] = colls[c] /\ colls'[e] = colls[e]
        BY <1>6, <3>4
      <4> QED BY <2>1, <2>3, <3>4, <4>1
    <3> QED BY <1>6, <3>1, <3>2, <3>3, <3>4
  <2> QED BY <2>3 DEF RootsApart, Members
<1>11. EachOnce'
  <2>1. ASSUME NEW c \in DOMAIN colls', NEW q \in Members(colls'[c].docs),
               NEW r \in Members(colls'[c].docs), docs'[q].id = docs'[r].id
        PROVE  q = r
    <3>1. CASE c = n
      <4>1. colls'[c].docs = s.result
        BY <1>5, <1>6, <3>1
      <4> QED BY <2>1, <4>1 DEF OnePerPaper
    <3>2. CASE c \in DOMAIN colls
      <4>1. colls'[c] = colls[c]
        BY <1>6, <3>2
      <4> QED BY <1>1, <2>1, <3>2, <4>1
    <3> QED BY <1>6, <3>1, <3>2
  <2> QED BY <2>1 DEF EachOnce, Members
<1> QED BY <1>1, <1>7, <1>8, <1>9, <1>10, <1>11 DEF IInv, ListsTyped

LEMMA JoinedStore ==
  ASSUME IInv, NEW S, Stored(S), Apart(S), S.docs = docs, S.origins = origins,
         NEW s, NEW P \in SUBSET DOMAIN docs, NEW cloned, Joined(S, s, P, cloned)
  PROVE  /\ Stored(s) /\ Apart(s) /\ DOMAIN docs \subseteq DOMAIN s.docs
         /\ s.result \in Seq(DOMAIN s.docs) /\ OnePerPaper(s)
         /\ Members(s.result) \cap DOMAIN docs \subseteq P
         /\ \A d \in DOMAIN docs : /\ s.docs[d].id = docs[d].id
                                   /\ d \notin Members(s.result) => s.docs[d] = docs[d]
<1>1. Typed(S, s) /\ Resulting(S, s, P, cloned) /\ Following(S, s) /\ Handed(S, s, P)
  BY DEF Joined
<1>2. Apart(s)
  <2>1. ASSUME NEW d \in DOMAIN s.docs, NEW o \in Members(s.docs[d].origins)
        PROVE  \E g \in DOMAIN docs : docs[g].id = s.docs[d].id /\ o \in Members(docs[g].origins)
    <3>1. CASE d \in Members(s.result)
      BY <1>1, <3>1 DEF Handed, OneOf
    <3>2. CASE d \notin Members(s.result)
      BY <1>1, <3>2 DEF Resulting, Following
    <3> QED BY <3>1, <3>2
  <2>2. \A g, h \in DOMAIN docs : \A o : o \in Members(docs[g].origins) /\ o \in Members(docs[h].origins)
           => docs[g].id = docs[h].id
    BY DEF Apart
  <2>3. \A d, e \in DOMAIN s.docs : \A o : o \in Members(s.docs[d].origins) /\ o \in Members(s.docs[e].origins)
           => s.docs[d].id = s.docs[e].id
    BY <2>1, <2>2, SMTT(60)
  <2> QED BY <2>3 DEF Apart
<1> QED BY <1>1, <1>2 DEF Typed, Resulting, Following

-----------------------------------------------------------------------------
(* The steps.                                                                *)
Steps == IInv' /\ FusingStep

LEMMA FromDocsSteps == IInv /\ FromDocs => Steps
<1> SUFFICES ASSUME IInv, FromDocs PROVE Steps
  OBVIOUS
<1> DEFINE S == Store(<< >>)
           list == Head(lists).docs
           P == Members(list)
           s == JoinAll(S, list, FALSE)
<1>1. /\ lists # << >> /\ lists' = Tail(lists)
      /\ call' = [name |-> "from_docs", with |-> << >>, raised |-> FALSE]
      /\ docs' = s.docs /\ origins' = s.origins
      /\ colls' = Append(colls, [docs |-> s.result, computed |-> Head(lists).computed, root |-> Own])
  BY DEF FromDocs, Calls, Made
<1>2. /\ Len(lists) \in Nat /\ DOMAIN lists = 1..Len(lists) /\ 1 \in DOMAIN lists
      /\ Head(lists) = lists[1] /\ list \in Seq(DOMAIN docs) /\ P \subseteq DOMAIN docs
      /\ Head(lists).computed \in Int
      /\ DOMAIN lists' = 1..Len(lists) - 1
      /\ \A i \in DOMAIN lists' : lists'[i] = lists[i + 1]
  <2>1. ListsTyped
    BY DEF IInv
  <2>2. /\ Len(lists) \in Nat /\ DOMAIN lists = 1..Len(lists)
        /\ \A i \in DOMAIN lists :
               /\ lists[i].docs \in Seq(DOMAIN docs) /\ Members(lists[i].docs) \subseteq DOMAIN docs
               /\ lists[i].computed \in Int
    BY <2>1, ListsAre
  <2>3. /\ 1 \in DOMAIN lists /\ Head(lists) = lists[1]
        /\ DOMAIN lists' = 1..Len(lists) - 1
        /\ \A i \in DOMAIN lists' : lists'[i] = lists[i + 1]
    BY <1>1, <2>1 DEF ListsTyped
  <2> QED BY <2>2, <2>3
<1>3. /\ Stored(S) /\ Apart(S) /\ S.docs = docs /\ S.origins = origins /\ S.result = << >>
  BY StoreIs DEF IInv
<1>4. /\ S.result \in Seq(DOMAIN S.docs) /\ Members(S.result) = {} /\ OnePerPaper(S)
  <2>1. Members(<< >>) = {}
    BY DEF Members
  <2>2. << >> \in Seq(DOMAIN S.docs)
    <3> DEFINE D == DOMAIN S.docs
    <3> HIDE DEF D
    <3>1. << >> \in Seq(D)
      OBVIOUS
    <3> QED BY <3>1 DEF D
  <2> HIDE DEF S
  <2> QED BY <1>3, <2>1, <2>2 DEF OnePerPaper
<1> HIDE DEF S, s
<1>5. Joined(S, s, P, FALSE)
  <2>1. Joined(S, JoinAll(S, list, FALSE), Members(S.result) \cup Members(list), FALSE)
    <3> HIDE DEF list
    <3> QED BY <1>2, <1>3, <1>4, AllJoined
  <2>2. Members(S.result) \cup Members(list) = P
    BY <1>4
  <2> QED BY <2>1, <2>2 DEF s
<1> HIDE DEF P
<1>6. /\ Stored(s) /\ Apart(s) /\ DOMAIN docs \subseteq DOMAIN s.docs
      /\ s.result \in Seq(DOMAIN s.docs) /\ OnePerPaper(s)
      /\ Members(s.result) \cap DOMAIN docs \subseteq P
      /\ \A d \in DOMAIN docs : /\ s.docs[d].id = docs[d].id
                                /\ d \notin Members(s.result) => s.docs[d] = docs[d]
  BY <1>2, <1>3, <1>5, JoinedStore
<1>7. \A c \in DOMAIN colls : Members(colls[c].docs) \subseteq DOMAIN docs
  BY CollsAre DEF IInv
<1>8. \A c \in DOMAIN colls : Members(s.result) \cap Members(colls[c].docs) = {}
  <2>1. \A c \in DOMAIN colls : P \cap Members(colls[c].docs) = {}
    BY <1>2 DEF IInv, ListsApart, P
  <2> QED BY <1>6, <1>7, <2>1
<1>9. \A i \in DOMAIN lists' : Members(lists'[i].docs) \cap Members(s.result) = {}
  <2> TAKE i \in DOMAIN lists'
  <2>1. i + 1 \in DOMAIN lists /\ i + 1 # 1
    BY <1>2
  <2>2. Members(lists[i + 1].docs) \cap P = {}
    BY <1>2, <2>1 DEF IInv, ListsApart, P
  <2>3. Members(lists[i + 1].docs) \subseteq DOMAIN docs
    BY <2>1, ListsAre DEF IInv
  <2> QED BY <1>2, <1>6, <2>2, <2>3
<1>10. IInv'
  BY <1>1, <1>2, <1>6, <1>8, <1>9, CollectionMade
<1>11. KnownKept
  BY <1>1, <1>2, <1>3, <1>5, JoinedKeeps
<1>12. OthersUntouched
  BY <1>1, <1>6, <1>7, <1>8 DEF OthersUntouched
<1>13. call'.name = "from_docs"
  BY <1>1
<1>14. MergedComplete /\ SampleFair
  BY <1>13 DEF MergedComplete, SampleFair, Methods
<1> QED BY <1>10, <1>11, <1>12, <1>14 DEF Steps, FusingStep

(* A merge into the documents of a collection, or into none: the store after *)
(* it, and what it promises of the documents that were merged.               *)
DocumentsOf(cs) == UNION {Members(colls[c].docs) : c \in cs}

MergeStore(list, cs) == JoinAll(Store(list), Together(cs), TRUE)
MergeFacts(list, cs, s) ==
  /\ Stored(s) /\ Apart(s) /\ DOMAIN docs \subseteq DOMAIN s.docs
  /\ s.result \in Seq(DOMAIN s.docs) /\ OnePerPaper(s)
  /\ Members(s.result) \cap DOMAIN docs \subseteq Members(list)
  /\ \A d \in DOMAIN docs : /\ s.docs[d].id = docs[d].id
                            /\ d \notin Members(s.result) => s.docs[d] = docs[d]
  /\ KnownKept
  /\ Completes(Members(list) \cup DocumentsOf(Members(cs)), s.result)

LEMMA MergeMade ==
  ASSUME IInv, NEW list \in Seq(DOMAIN docs), OnePerPaper(Store(list)),
         NEW cs \in Seq(DOMAIN colls), NEW s, s = MergeStore(list, cs),
         docs' = s.docs, origins' = s.origins
  PROVE  MergeFacts(list, cs, s)
<1> DEFINE S == Store(list)
           D == DOMAIN docs
           T == Together(cs)
           P == Members(list) \cup Members(T)
<1>1. /\ Stored(S) /\ Apart(S) /\ S.docs = docs /\ S.origins = origins /\ S.result = list
  BY StoreIs DEF IInv
<1>2. \A c \in DOMAIN colls : colls[c].docs \in Seq(D)
  BY CollsAre DEF IInv
<1>3. list \in Seq(D) /\ OnePerPaper(S)
  OBVIOUS
<1> HIDE DEF D, S
<1>4. T \in Seq(D) /\ Members(T) = DocumentsOf(Members(cs))
  BY <1>2, TogetherIs DEF DocumentsOf
<1> HIDE DEF T
<1>5. P \in SUBSET D
  BY <1>3, <1>4, MembersOf
<1>6. Joined(S, s, P, TRUE)
  <2>1. S.result \in Seq(DOMAIN S.docs) /\ T \in Seq(DOMAIN S.docs)
    BY <1>1, <1>3, <1>4 DEF D
  <2>2. s = JoinAll(S, T, TRUE)
    BY DEF S, T, MergeStore
  <2>3. Joined(S, JoinAll(S, T, TRUE), Members(S.result) \cup Members(T), TRUE)
    BY <1>1, <1>3, <2>1, AllJoined
  <2> QED BY <1>1, <2>2, <2>3
<1>7. P = Members(list) \cup DocumentsOf(Members(cs))
  BY <1>4
<1> HIDE DEF P
<1>8. P \in SUBSET DOMAIN docs /\ P \in SUBSET DOMAIN S.docs
  BY <1>1, <1>5 DEF D
<1>9. /\ Stored(s) /\ Apart(s) /\ DOMAIN docs \subseteq DOMAIN s.docs
      /\ s.result \in Seq(DOMAIN s.docs) /\ OnePerPaper(s)
      /\ \A d \in DOMAIN docs : /\ s.docs[d].id = docs[d].id
                                /\ d \notin Members(s.result) => s.docs[d] = docs[d]
  BY <1>1, <1>6, <1>8, JoinedStore, ZenonT(60)
<1>12. Members(s.result) \cap DOMAIN docs \subseteq Members(list)
  BY <1>1, <1>6 DEF Joined, Resulting
<1>10. KnownKept
  BY <1>1, <1>6, <1>8, JoinedKeeps
<1>11. Completes(P, s.result)
  BY <1>1, <1>6, <1>8, JoinedComplete
<1> QED BY <1>1, <1>7, <1>9, <1>10, <1>11, <1>12 DEF MergeFacts

LEMMA LastMade ==
  ASSUME CollsTyped, NEW new, colls' = Append(colls, new)
  PROVE  colls'[Len(colls')] = new
<1> DEFINE Y == [docs : Seq(DOMAIN docs), computed : Int, root : Nat]
           X == Y \cup {new}
<1>1. colls \in Seq(Y)
  BY DEF CollsTyped
<1>2. X = Y \cup {new}
  OBVIOUS
<1> HIDE DEF X, Y
<1>3. Y \subseteq X /\ new \in X
  BY <1>2
<1>4. colls \in Seq(X)
  BY <1>1, <1>3, SeqWidened
<1>5. Len(colls') = Len(colls) + 1 /\ colls'[Len(colls) + 1] = new
  BY <1>3, <1>4, AppendIs
<1> QED BY <1>5

LEMMA OneComputed ==
  ASSUME IInv, NEW cs \in SUBSET DOMAIN colls
  PROVE  TheOne(cs) \in Int
<1>1. \A c \in cs : colls[c].computed \in Int
  BY CollsAre DEF IInv
<1>2. Computed(cs) \subseteq Int
  BY <1>1 DEF Computed
<1>3. None \in Int
  BY DEF None
<1>4. CASE Computed(cs) = {}
  BY <1>3, <1>4 DEF TheOne
<1>5. CASE Computed(cs) # {}
  <2>1. (CHOOSE f \in Computed(cs) : TRUE) \in Computed(cs)
    BY <1>5
  <2> QED BY <1>2, <1>5, <2>1 DEF TheOne
<1> QED BY <1>4, <1>5

LEMMA FirstOf ==
  ASSUME NEW X, NEW a \in X, NEW others \in Seq(X)
  PROVE  (<<a>> \o others)[1] = a /\ Members(<<a>> \o others) = {a} \cup Members(others)
<1>1. /\ <<a>> \in Seq(X) /\ Len(<<a>>) = 1 /\ <<a>>[1] = a /\ Len(others) \in Nat
      /\ DOMAIN others = 1..Len(others)
  OBVIOUS
<1> DEFINE t == <<a>> \o others
<1>2. /\ t \in Seq(X) /\ Len(t) = 1 + Len(others) /\ DOMAIN t = 1..Len(t)
      /\ t[1] = a /\ \A i \in 1..Len(others) : t[i + 1] = others[i]
  BY <1>1
<1> HIDE DEF t
<1>3. Members(t) \subseteq {a} \cup Members(others)
  <2> SUFFICES ASSUME NEW i \in DOMAIN t PROVE t[i] \in {a} \cup Members(others)
    BY DEF Members
  <2>1. CASE i = 1
    BY <1>2, <2>1
  <2>2. CASE i # 1
    <3>1. i - 1 \in 1..Len(others) /\ i = (i - 1) + 1
      BY <1>1, <1>2, <2>2
    <3>2. t[i] = others[i - 1]
      BY <1>2, <3>1
    <3> QED BY <1>1, <3>1, <3>2 DEF Members
  <2> QED BY <2>1, <2>2
<1>4. {a} \cup Members(others) \subseteq Members(t)
  <2>1. a \in Members(t)
    BY <1>1, <1>2 DEF Members
  <2>2. ASSUME NEW i \in DOMAIN others PROVE others[i] \in Members(t)
    <3>1. i + 1 \in DOMAIN t /\ t[i + 1] = others[i]
      BY <1>1, <1>2
    <3> QED BY <3>1 DEF Members
  <2> QED BY <2>1, <2>2 DEF Members
<1> QED BY <1>2, <1>3, <1>4 DEF t

(* A merge changes documents of one collection, if any.                      *)
LEMMA Untouched ==
  ASSUME IInv, NEW s, docs' = s.docs, NEW Q,
         Members(s.result) \cap DOMAIN docs \subseteq Q,
         \A d \in DOMAIN docs : d \notin Members(s.result) => s.docs[d] = docs[d],
         \A c \in DOMAIN colls :
            ~(call'.name = "merged" /\ colls[c].root = colls[call'.with[1]].root) =>
                 Members(colls[c].docs) \cap Q = {}
  PROVE  OthersUntouched
<1>1. \A c \in DOMAIN colls : Members(colls[c].docs) \subseteq DOMAIN docs
  BY CollsAre DEF IInv
<1> QED BY <1>1 DEF OthersUntouched

LEMMA MergedSteps ==
  ASSUME IInv, NEW a \in DOMAIN colls, NEW others \in Seq(DOMAIN colls), Merged(a, others)
  PROVE  Steps
<1> DEFINE list == colls[a].docs
           s == MergeStore(list, others)
           k == TheOne({a} \cup Members(others))
           root == colls[a].root
<1>1. /\ call' = [name |-> "merged", with |-> <<a>> \o others, raised |-> FALSE]
      /\ docs' = s.docs /\ origins' = s.origins /\ lists' = lists
      /\ colls' = Append(colls, [docs |-> s.result, computed |-> k, root |-> root])
  BY DEF Merged, Calls, Made, MergeStore
<1>2. CollsTyped
  BY DEF IInv
<1>3. list \in Seq(DOMAIN docs) /\ Members(list) \subseteq DOMAIN docs
  BY <1>2, CollsAre
<1>4. OnePerPaper(Store(list))
  BY StoreIs DEF IInv, EachOnce, OnePerPaper
<1>5. k \in Int
  <2>1. Members(others) \subseteq DOMAIN colls
    <3> DEFINE X == DOMAIN colls
    <3> HIDE DEF X
    <3>1. others \in Seq(X) => Members(others) \subseteq X
      BY MembersOf
    <3> QED BY <3>1 DEF X
  <2>2. {a} \cup Members(others) \in SUBSET DOMAIN colls
    BY <2>1
  <2> QED BY <2>2, OneComputed
<1>6. /\ (<<a>> \o others)[1] = a
      /\ Members(<<a>> \o others) = {a} \cup Members(others)
  <2> DEFINE X == DOMAIN colls
  <2>1. a \in X /\ others \in Seq(X)
    OBVIOUS
  <2> HIDE DEF X
  <2> QED BY <2>1, FirstOf
<1> HIDE DEF s, k, root
<1>7. /\ Stored(s) /\ Apart(s) /\ DOMAIN docs \subseteq DOMAIN s.docs
      /\ s.result \in Seq(DOMAIN s.docs) /\ OnePerPaper(s)
      /\ Members(s.result) \cap DOMAIN docs \subseteq Members(list)
      /\ \A d \in DOMAIN docs : /\ s.docs[d].id = docs[d].id
                                /\ d \notin Members(s.result) => s.docs[d] = docs[d]
      /\ KnownKept
      /\ Completes(Members(list) \cup DocumentsOf(Members(others)), s.result)
  <2> HIDE DEF list
  <2>1. s = MergeStore(list, others)
    BY DEF s, list
  <2>2. docs' = s.docs /\ origins' = s.origins
    BY <1>1
  <2>3. list \in Seq(DOMAIN docs) /\ OnePerPaper(Store(list))
    BY <1>3, <1>4
  <2>4. MergeFacts(list, others, s)
    BY <2>1, <2>2, <2>3, MergeMade
  <2> QED BY <2>4 DEF MergeFacts
<1>8. IInv'
  <2>1. \A i \in DOMAIN lists' : Members(lists'[i].docs) \cap Members(s.result) = {}
    <3> TAKE i \in DOMAIN lists'
    <3>1. i \in DOMAIN lists /\ lists'[i] = lists[i]
      BY <1>1
    <3>2. Members(lists[i].docs) \subseteq DOMAIN docs
      BY <3>1, ListsAre DEF IInv
    <3>3. Members(lists[i].docs) \cap Members(list) = {}
      BY <3>1 DEF IInv, ListsApart
    <3> QED BY <1>7, <3>1, <3>2, <3>3
  <2>2. root = colls[a].root
    BY DEF root
  <2> QED BY <1>1, <1>5, <1>7, <2>1, <2>2, CollectionMade
<1>9. call'.name = "merged" /\ call'.with = <<a>> \o others /\ ~call'.raised
  BY <1>1
<1>10. OthersUntouched
  <2>1. \A c \in DOMAIN colls : colls[c].root # colls[a].root =>
           Members(colls[c].docs) \cap Members(list) = {}
    BY DEF IInv, RootsApart
  <2> DEFINE Q == Members(list)
  <2>2. call'.with[1] = a /\ call'.name = "merged"
    BY <1>6, <1>9
  <2>3. \A c \in DOMAIN colls :
           ~(call'.name = "merged" /\ colls[c].root = colls[call'.with[1]].root) =>
               Members(colls[c].docs) \cap Q = {}
    BY <2>1, <2>2
  <2>4. Members(s.result) \cap DOMAIN docs \subseteq Q
    BY <1>7
  <2> HIDE DEF Q
  <2> QED BY <1>1, <1>7, <2>3, <2>4, Untouched, ZenonT(60)
<1>11. MergedComplete
  <2>2. colls'[Len(colls')].docs = s.result
    BY <1>1, <1>2, LastMade
  <2>3. DocumentsOf(Members(call'.with)) = Members(list) \cup DocumentsOf(Members(others))
    BY <1>6, <1>9 DEF DocumentsOf
  <2>4. Completes(DocumentsOf(Members(call'.with)), colls'[Len(colls')].docs)
    BY <1>7, <2>2, <2>3
  <2> QED BY <2>4 DEF MergedComplete, Completes, DocumentsOf
<1>12. SampleFair
  BY <1>9 DEF SampleFair, Methods
<1> QED BY <1>7, <1>8, <1>10, <1>11, <1>12 DEF Steps, FusingStep

LEMMA FactoryMergeSteps ==
  ASSUME IInv, NEW cs \in Seq(DOMAIN colls), FactoryMerge(cs)
  PROVE  Steps
<1> DEFINE list == << >>
           s == MergeStore(list, cs)
           k == TheOne(Members(cs))
<1>1. /\ call' = [name |-> "merge", with |-> cs, raised |-> FALSE]
      /\ docs' = s.docs /\ origins' = s.origins /\ lists' = lists
      /\ colls' = Append(colls, [docs |-> s.result, computed |-> k, root |-> Own])
  BY DEF FactoryMerge, Calls, Made, MergeStore
<1>2. CollsTyped
  BY DEF IInv
<1>3. list \in Seq(DOMAIN docs) /\ Members(list) = {}
  <2>1. Members(list) = {}
    BY DEF Members
  <2>2. list \in Seq(DOMAIN docs)
    <3> DEFINE D == DOMAIN docs
    <3> HIDE DEF D
    <3>1. list \in Seq(D)
      OBVIOUS
    <3> QED BY <3>1 DEF D
  <2> QED BY <2>1, <2>2
<1> HIDE DEF s, k, list
<1>4. OnePerPaper(Store(list))
  BY <1>3, StoreIs DEF OnePerPaper
<1>5. k \in Int
  <2>1. Members(cs) \in SUBSET DOMAIN colls
    <3> DEFINE X == DOMAIN colls
    <3> HIDE DEF X
    <3>1. cs \in Seq(X) => Members(cs) \subseteq X
      BY MembersOf
    <3> QED BY <3>1 DEF X
  <2> QED BY <2>1, OneComputed DEF k
<1>7. MergeFacts(list, cs, s)
  <2>1. s = MergeStore(list, cs)
    BY DEF s
  <2>2. docs' = s.docs /\ origins' = s.origins
    BY <1>1
  <2> QED BY <1>3, <1>4, <2>1, <2>2, MergeMade
<1>8. /\ Stored(s) /\ Apart(s) /\ DOMAIN docs \subseteq DOMAIN s.docs
      /\ s.result \in Seq(DOMAIN s.docs) /\ OnePerPaper(s)
      /\ Members(s.result) \cap DOMAIN docs = {}
      /\ \A d \in DOMAIN docs : /\ s.docs[d].id = docs[d].id
                                /\ d \notin Members(s.result) => s.docs[d] = docs[d]
  BY <1>3, <1>7 DEF MergeFacts
<1>9. IInv'
  <2>1. \A i \in DOMAIN lists' : Members(lists'[i].docs) \cap Members(s.result) = {}
    <3> TAKE i \in DOMAIN lists'
    <3>1. i \in DOMAIN lists /\ lists'[i] = lists[i]
      BY <1>1
    <3>2. Members(lists[i].docs) \subseteq DOMAIN docs
      BY <3>1, ListsAre DEF IInv
    <3> QED BY <1>8, <3>1, <3>2
  <2>2. \A c \in DOMAIN colls : Members(s.result) \cap Members(colls[c].docs) = {}
    <3> TAKE c \in DOMAIN colls
    <3>1. Members(colls[c].docs) \subseteq DOMAIN docs
      BY <1>2, CollsAre
    <3> QED BY <1>8, <3>1
  <2> QED BY <1>1, <1>5, <1>8, <2>1, <2>2, CollectionMade
<1>10. call'.name = "merge" /\ call'.with = cs /\ ~call'.raised
  BY <1>1
<1>11. OthersUntouched
  <2>1. Members(s.result) \cap DOMAIN docs \subseteq {}
    BY <1>8
  <2>2. \A c \in DOMAIN colls :
           ~(call'.name = "merged" /\ colls[c].root = colls[call'.with[1]].root) =>
               Members(colls[c].docs) \cap {} = {}
    OBVIOUS
  <2> QED BY <1>1, <1>8, <2>1, <2>2, Untouched
<1>12. MergedComplete
  <2>2. colls'[Len(colls')].docs = s.result
    BY <1>1, <1>2, LastMade
  <2>3. DocumentsOf(Members(call'.with)) = Members(list) \cup DocumentsOf(Members(cs))
    BY <1>3, <1>10
  <2>4. Completes(DocumentsOf(Members(call'.with)), colls'[Len(colls')].docs)
    BY <1>7, <2>2, <2>3 DEF MergeFacts
  <2> QED BY <2>4 DEF MergedComplete, Completes, DocumentsOf
<1>13. SampleFair
  BY <1>10 DEF SampleFair, Methods
<1>14. KnownKept
  BY <1>7 DEF MergeFacts
<1> QED BY <1>9, <1>11, <1>12, <1>13, <1>14 DEF Steps, FusingStep

LEMMA PrefixOf ==
  ASSUME NEW X, NEW s \in Seq(X), NEW n \in 0..Len(s)
  PROVE  /\ SubSeq(s, 1, n) \in Seq(X) /\ Len(SubSeq(s, 1, n)) = n
         /\ DOMAIN SubSeq(s, 1, n) = 1..n
         /\ \A i \in 1..n : SubSeq(s, 1, n)[i] = s[i]
<1>1. Len(s) \in Nat /\ \A i \in 1..n : s[i] \in X
  OBVIOUS
<1>2. SubSeq(s, 1, n) = [i \in 1..n |-> s[i]]
  BY <1>1
<1>3. [i \in 1..n |-> s[i]] \in [1..n -> X] /\ n \in Nat
  BY <1>1
<1> QED BY <1>2, <1>3, FunctionIsSeq

LEMMA SomeLast ==
  ASSUME NEW N \in Nat, NEW fit \in SUBSET (0..N), 0 \in fit
  PROVE  \E n \in fit : \A m \in fit : m <= n
<1> DEFINE T == {m \in fit : m # 0}
<1>0. \A m \in 0..N : m # 0 => m \in 1..N
  OBVIOUS
<1>1. CASE T = {}
  BY <1>1
<1>2. CASE T # {}
  <2>1. T \in SUBSET (1..N)
    BY <1>0
  <2>2. PICK q \in T : \A r \in T : r <= q
    <3>1. T # {}
      BY <1>2
    <3> HIDE DEF T
    <3> QED BY <2>1, <3>1, GreatestNumber
  <2> QED BY <2>1, <2>2 DEF T
<1> QED BY <1>1, <1>2

LEMMA SameLists ==
  ASSUME IInv, lists' = lists, colls' = colls,
         \A c \in DOMAIN colls : \A q, r \in Members(colls[c].docs) : docs'[q].id = docs'[r].id => q = r
  PROVE  ListsApart' /\ RootsApart' /\ EachOnce'
<1>1. ListsApart /\ RootsApart
  BY DEF IInv
<1>2. ListsApart'
  <2>1. \A i \in DOMAIN lists' :
          /\ \A j \in DOMAIN lists' : i # j => Members(lists'[i].docs) \cap Members(lists'[j].docs) = {}
          /\ \A c \in DOMAIN colls' : Members(lists'[i].docs) \cap Members(colls'[c].docs) = {}
    BY <1>1 DEF ListsApart
  <2> QED BY <2>1 DEF ListsApart, Members
<1>3. RootsApart'
  <2>1. \A c, e \in DOMAIN colls' : colls'[c].root # colls'[e].root =>
           Members(colls'[c].docs) \cap Members(colls'[e].docs) = {}
    BY <1>1 DEF RootsApart
  <2> QED BY <2>1 DEF RootsApart, Members
<1>4. EachOnce'
  <2>1. \A c \in DOMAIN colls' : \A q, r \in Members(colls'[c].docs) :
           docs'[q].id = docs'[r].id => q = r
    OBVIOUS
  <2> QED BY <2>1 DEF EachOnce, Members
<1> QED BY <1>2, <1>3, <1>4

LEMMA MergeRaisesSteps ==
  ASSUME IInv, NEW a \in DOMAIN colls, NEW others \in Seq(DOMAIN colls), MergeRaises(a, others)
  PROVE  Steps
<1> DEFINE list == colls[a].docs
           fit == {n \in 0 .. Len(others) :
                       Cardinality(Computed({a} \cup Members(SubSeq(others, 1, n)))) <= 1}
           last == CHOOSE n \in fit : \A m \in fit : m <= n
           cs == SubSeq(others, 1, last)
           s == MergeStore(list, cs)
<1>1. /\ call' = [name |-> "merged", with |-> <<a>> \o others, raised |-> TRUE]
      /\ docs' = s.docs /\ origins' = s.origins /\ lists' = lists /\ colls' = colls
  BY DEF MergeRaises, Calls, MergeStore
<1>2. CollsTyped
  BY DEF IInv
<1>3. Len(others) \in Nat
  <2> DEFINE X == DOMAIN colls
  <2>1. others \in Seq(X)
    OBVIOUS
  <2> HIDE DEF X
  <2> QED BY <2>1
<1>4. 0 \in fit
  <2>1. SubSeq(others, 1, 0) = << >>
    BY <1>3
  <2>2. Members(<< >>) = {}
    BY DEF Members
  <2>3. Computed({a}) = {} \/ Computed({a}) = {colls[a].computed}
    BY DEF Computed
  <2>4. Cardinality({}) = 0 /\ Cardinality({colls[a].computed}) = 1
    <3>1. Cardinality({}) = 0
      BY FS_EmptySet
    <3>2. \A x : Cardinality({x}) = 1
      BY FS_Singleton
    <3> QED BY <3>1, <3>2
  <2>5. Cardinality(Computed({a})) <= 1
    <3> DEFINE C == Computed({a})
               one == {colls[a].computed}
    <3>1. (C = {} \/ C = one) /\ Cardinality({}) = 0 /\ Cardinality(one) = 1
      BY <2>3, <2>4
    <3> HIDE DEF C, one
    <3>2. Cardinality(C) = 0 \/ Cardinality(C) = 1
      BY <3>1, Zenon
    <3>3. Cardinality(C) <= 1
      BY <3>2
    <3> QED BY <3>3 DEF C
  <2>6. {a} \cup Members(SubSeq(others, 1, 0)) = {a}
    BY <2>1, <2>2
  <2>7. Cardinality(Computed({a} \cup Members(SubSeq(others, 1, 0)))) <= 1
    BY <2>5, <2>6
  <2>8. 0 \in 0 .. Len(others)
    BY <1>3
  <2> QED BY <2>7, <2>8
<1>5. last \in 0..Len(others)
  <2>1. fit \in SUBSET (0..Len(others))
    OBVIOUS
  <2> HIDE DEF fit
  <2>2. \E n \in fit : \A m \in fit : m <= n
    BY <1>3, <1>4, <2>1, SomeLast
  <2> QED BY <2>1, <2>2
<1> HIDE DEF last, fit
<1>6. cs \in Seq(DOMAIN colls)
  <2> DEFINE X == DOMAIN colls
  <2>1. others \in Seq(X)
    OBVIOUS
  <2> HIDE DEF X
  <2>2. cs \in Seq(X)
    BY <1>5, <2>1, PrefixOf
  <2> QED BY <2>2 DEF X
<1>7. list \in Seq(DOMAIN docs) /\ Members(list) \subseteq DOMAIN docs
  BY <1>2, CollsAre
<1>8. OnePerPaper(Store(list))
  BY StoreIs DEF IInv, EachOnce, OnePerPaper
<1>9. (<<a>> \o others)[1] = a
  <2> DEFINE X == DOMAIN colls
  <2>1. a \in X /\ others \in Seq(X)
    OBVIOUS
  <2> HIDE DEF X
  <2> QED BY <2>1, FirstOf
<1> HIDE DEF s, cs
<1>10. MergeFacts(list, cs, s)
  <2>1. s = MergeStore(list, cs)
    BY DEF s
  <2>2. docs' = s.docs /\ origins' = s.origins
    BY <1>1
  <2>3. list \in Seq(DOMAIN docs) /\ OnePerPaper(Store(list))
    BY <1>7, <1>8
  <2> HIDE DEF list
  <2> QED BY <1>6, <2>1, <2>2, <2>3, MergeMade
<1>11. /\ Stored(s) /\ Apart(s) /\ DOMAIN docs \subseteq DOMAIN s.docs
       /\ Members(s.result) \cap DOMAIN docs \subseteq Members(list)
       /\ \A d \in DOMAIN docs : /\ s.docs[d].id = docs[d].id
                                 /\ d \notin Members(s.result) => s.docs[d] = docs[d]
  BY <1>10 DEF MergeFacts
<1>12. IInv'
  <2>1. /\ Stored(Now)' /\ Apart(Now)'
        /\ lists \in Seq([docs : Seq(DOMAIN docs'), computed : Int])
        /\ colls \in Seq([docs : Seq(DOMAIN docs'), computed : Int, root : Nat])
        /\ \A c \in DOMAIN colls : \A q, r \in Members(colls[c].docs) :
               docs'[q].id = docs'[r].id => q = r
    BY <1>1, <1>11, StoreGrown
  <2>2. ListsTyped'
    BY <1>1, <2>1 DEF ListsTyped
  <2>3. CollsTyped'
    BY <1>1, <1>2, <2>1 DEF CollsTyped
  <2>4. ListsApart' /\ RootsApart' /\ EachOnce'
    BY <1>1, <2>1, SameLists
  <2> QED BY <2>1, <2>2, <2>3, <2>4 DEF IInv
<1>13. call'.name = "merged" /\ call'.with = <<a>> \o others /\ call'.raised
  BY <1>1
<1>14. OthersUntouched
  <2> DEFINE Q == Members(list)
  <2>1. \A c \in DOMAIN colls : colls[c].root # colls[a].root =>
           Members(colls[c].docs) \cap Q = {}
    BY DEF IInv, RootsApart
  <2>2. call'.with[1] = a /\ call'.name = "merged"
    BY <1>9, <1>13
  <2>3. \A c \in DOMAIN colls :
           ~(call'.name = "merged" /\ colls[c].root = colls[call'.with[1]].root) =>
               Members(colls[c].docs) \cap Q = {}
    BY <2>1, <2>2
  <2>4. Members(s.result) \cap DOMAIN docs \subseteq Q
    BY <1>11
  <2> HIDE DEF Q
  <2> QED BY <1>1, <1>11, <2>3, <2>4, Untouched, ZenonT(60)
<1>15. MergedComplete /\ SampleFair
  BY <1>13 DEF MergedComplete, SampleFair, Methods
<1>16. KnownKept
  BY <1>10 DEF MergeFacts
<1> QED BY <1>12, <1>14, <1>15, <1>16 DEF Steps, FusingStep

(* Operations that keep some of the documents of a collection.               *)
LEMMA KeptSteps ==
  ASSUME IInv, NEW a \in DOMAIN colls, NEW list, list \in Seq(Members(colls[a].docs)),
         call'.name \notin {"merged", "merge"}, lists' = lists,
         Made(Store(list), colls[a].computed, colls[a].root)
  PROVE  IInv' /\ KnownKept /\ OthersUntouched /\ MergedComplete
         /\ Members(colls'[Len(colls')].docs) = Members(list)
<1> DEFINE s == Store(list)
           k == colls[a].computed
           root == colls[a].root
<1>1. /\ docs' = docs /\ origins' = origins /\ s.docs = docs /\ s.origins = origins
      /\ s.result = list /\ Stored(s) /\ Apart(s)
      /\ colls' = Append(colls, [docs |-> list, computed |-> k, root |-> root])
  <2>1. Made(s, k, root)
    OBVIOUS
  <2>2. s.docs = docs /\ s.origins = origins /\ s.result = list /\ Stored(s) /\ Apart(s)
    BY StoreIs DEF IInv
  <2> HIDE DEF s, k, root
  <2> QED BY <2>1, <2>2 DEF Made
<1>2. CollsTyped /\ EachOnce
  BY DEF IInv
<1>3. /\ Members(colls[a].docs) \subseteq DOMAIN docs
      /\ k \in Int
  BY <1>2, CollsAre
<1>4. Members(list) \subseteq Members(colls[a].docs) /\ list \in Seq(DOMAIN docs)
  <2> DEFINE X == Members(colls[a].docs)
             Y == DOMAIN docs
  <2>1. list \in Seq(X) /\ X \subseteq Y
    BY <1>3
  <2> HIDE DEF X, Y
  <2>2. Members(list) \subseteq X /\ list \in Seq(Y)
    BY <2>1, MembersOf, SeqWidened
  <2> QED BY <2>2 DEF X, Y
<1> HIDE DEF s, k
<1>5. OnePerPaper(s)
  BY <1>1, <1>2, <1>4 DEF OnePerPaper, EachOnce
<1>6. IInv'
  <2>1. \A i \in DOMAIN lists' : Members(lists'[i].docs) \cap Members(s.result) = {}
    BY <1>1, <1>4 DEF IInv, ListsApart
  <2>2. Members(s.result) \cap DOMAIN docs \subseteq Members(colls[a].docs)
    BY <1>1, <1>4
  <2>3. /\ docs' = s.docs /\ origins' = s.origins /\ s.result \in Seq(DOMAIN s.docs)
        /\ DOMAIN docs \subseteq DOMAIN s.docs
        /\ \A d \in DOMAIN docs : s.docs[d].id = docs[d].id
        /\ colls' = Append(colls, [docs |-> s.result, computed |-> k, root |-> root])
    BY <1>1, <1>4
  <2> HIDE DEF root
  <2>4. root = colls[a].root
    BY DEF root
  <2> QED BY <1>1, <1>3, <1>5, <2>1, <2>2, <2>3, <2>4, CollectionMade
<1>7. KnownKept
  <2> SUFFICES ASSUME NEW d \in DOMAIN docs
               PROVE  /\ docs'[d].title = docs[d].title
                      /\ \A q \in Queries :
                             /\ Ranks(d, q) \subseteq Ranks(d, q)'
                             /\ Ranks(d, q)' \subseteq UNION {Ranks(e, q) : e \in SamePaper(d)}
    BY DEF KnownKept
  <2>1. docs'[d].title = docs[d].title
    BY <1>1
  <2>2. d \in SamePaper(d)
    BY DEF SamePaper
  <2>3. ASSUME NEW q PROVE Ranks(d, q)' = Ranks(d, q)
    BY <1>1 DEF Ranks, Members
  <2> QED BY <2>1, <2>2, <2>3
<1>8. OthersUntouched
  BY <1>1 DEF OthersUntouched
<1>9. MergedComplete
  BY DEF MergedComplete
<1>10. Members(colls'[Len(colls')].docs) = Members(list)
  BY <1>1, <1>2, LastMade
<1> QED BY <1>6, <1>7, <1>8, <1>9, <1>10

LEMMA WithoutIs ==
  ASSUME NEW X, NEW list \in Seq(X), NEW ids
  PROVE  Without(list, ids) \in Seq(Members(list))
<1> DEFINE T == {i \in DOMAIN list : Of(list[i]).id \notin ids}
           kept == Rising(T)
           f == [k \in DOMAIN kept |-> list[kept[k]]]
<1>1. Len(list) \in Nat /\ DOMAIN list = 1..Len(list)
  BY MembersOf
<1>2. T \in SUBSET DOMAIN list
  OBVIOUS
<1>3. Without(list, ids) = f
  BY DEF Without
<1> HIDE DEF T
<1>4. T \in SUBSET Int /\ IsFiniteSet(T)
  <2>1. IsFiniteSet(1..Len(list))
    BY <1>1, FS_Interval
  <2> QED BY <1>1, <1>2, <2>1, FS_Subset
<1>5. kept \in Seq(T) /\ DOMAIN kept = 1..Len(kept)
  BY <1>4, RisingIs
<1> HIDE DEF kept
<1>6. Len(kept) \in Nat /\ \A k \in 1..Len(kept) : kept[k] \in T
  BY <1>5
<1>7. f \in [1..Len(kept) -> Members(list)]
  BY <1>2, <1>5, <1>6 DEF Members
<1> HIDE DEF f
<1> QED BY <1>3, <1>6, <1>7, FunctionIsSeq

LEMMA SubtractSteps ==
  ASSUME IInv, NEW a \in DOMAIN colls, NEW b \in DOMAIN colls, Subtract(a, b)
  PROVE  Steps
<1> DEFINE list == Without(colls[a].docs, {Of(e).id : e \in Members(colls[b].docs)})
<1>1. /\ call' = [name |-> "subtract", with |-> <<a, b>>, raised |-> FALSE]
      /\ Made(Store(list), colls[a].computed, colls[a].root) /\ lists' = lists
  BY DEF Subtract, Calls
<1>2. list \in Seq(Members(colls[a].docs))
  <2>1. colls[a].docs \in Seq(DOMAIN docs)
    BY CollsAre DEF IInv
  <2> QED BY <2>1, WithoutIs
<1> HIDE DEF list
<1>3. call'.name = "subtract"
  BY <1>1
<1>4. IInv' /\ KnownKept /\ OthersUntouched /\ MergedComplete
  BY <1>1, <1>2, <1>3, KeptSteps
<1>5. SampleFair
  BY <1>3 DEF SampleFair, Methods
<1> QED BY <1>4, <1>5 DEF Steps, FusingStep

(* A stable sort by an order in which documents may be level.                *)
Weak(S, less) ==
  /\ \A x, y \in S : <<x, y>> \in less => <<y, x>> \notin less
  /\ \A x, y, z \in S : <<x, z>> \in less => <<x, y>> \in less \/ <<y, z>> \in less

LEMMA SortedIs ==
  ASSUME NEW X, NEW list \in Seq(X), NEW less, Weak(Members(list), less)
  PROVE  /\ SortedBy(list, less) \in Seq(Members(list))
         /\ Len(SortedBy(list, less)) = Len(list)
         /\ \A x \in Members(list) : \E i \in 1..Len(list) : SortedBy(list, less)[i] = x
         /\ \A i, j \in 1..Len(list) :
               i < j => <<SortedBy(list, less)[j], SortedBy(list, less)[i]>> \notin less
<1> DEFINE n == Len(list)
           N == 1..n
           R == {p \in N \X N :
                        \/ <<list[p[1]], list[p[2]]>> \in less
                        \/ <<list[p[2]], list[p[1]]>> \notin less /\ p[1] < p[2]}
           order == InOrder(N, R)
           f == [k \in DOMAIN order |-> list[order[k]]]
<1>1. SortedBy(list, less) = f
  BY DEF SortedBy
<1>2. n \in Nat /\ DOMAIN list = N /\ \A i \in N : list[i] \in Members(list)
  <2>1. n \in Nat /\ DOMAIN list = N
    BY MembersOf
  <2> QED BY <2>1 DEF Members
<1>3. IsFiniteSet(N) /\ Cardinality(N) = n
  <2>1. IsFiniteSet(1..n) /\ Cardinality(1..n) = IF 1 > n THEN 0 ELSE n - 1 + 1
    BY <1>2, FS_Interval
  <2> QED BY <1>2, <2>1
<1>4. \A i, j : <<i, j>> \in R <=>
         /\ i \in N /\ j \in N
         /\ (<<list[i], list[j]>> \in less \/ (<<list[j], list[i]>> \notin less /\ i < j))
  OBVIOUS
<1> HIDE DEF R
<1>5. Orders(N, R)
  <2>0. N \subseteq Nat
    BY <1>2
  <2> HIDE DEF N
  <2>3. \A i, j \in N : <<list[i], list[j]>> \in less => <<list[j], list[i]>> \notin less
    BY <1>2 DEF Weak
  <2>5. \A i, j \in N : i < j \/ j < i \/ i = j
    BY <2>0
  <2>6. \A i \in N : ~(i < i)
    BY <2>0
  <2>1. \A i \in N : <<i, i>> \notin R
    <3> SUFFICES ASSUME NEW i \in N, <<i, i>> \in R PROVE FALSE
      OBVIOUS
    <3>1. <<list[i], list[i]>> \in less \/ i < i
      BY <1>4
    <3> QED BY <2>3, <2>6, <3>1
  <2>2. \A i, j \in N : i = j \/ <<i, j>> \in R \/ <<j, i>> \in R
    <3> SUFFICES ASSUME NEW i \in N, NEW j \in N, i # j PROVE <<i, j>> \in R \/ <<j, i>> \in R
      OBVIOUS
    <3>1. CASE <<list[i], list[j]>> \in less
      BY <1>4, <3>1
    <3>2. CASE <<list[j], list[i]>> \in less
      BY <1>4, <3>2
    <3>3. CASE <<list[i], list[j]>> \notin less /\ <<list[j], list[i]>> \notin less
      BY <1>4, <2>5, <3>3
    <3> QED BY <3>1, <3>2, <3>3
  <2>4. \A i, j, k \in N : <<i, j>> \in R /\ <<j, k>> \in R => <<i, k>> \in R
    <3> SUFFICES ASSUME NEW i \in N, NEW j \in N, NEW k \in N, <<i, j>> \in R, <<j, k>> \in R
                 PROVE  <<i, k>> \in R
      OBVIOUS
    <3> DEFINE x == list[i]
               y == list[j]
               z == list[k]
    <3>1. /\ <<x, y>> \in less \/ (<<y, x>> \notin less /\ i < j)
          /\ <<y, z>> \in less \/ (<<z, y>> \notin less /\ j < k)
      BY <1>4
    <3>2. x \in Members(list) /\ y \in Members(list) /\ z \in Members(list)
      BY <1>2
    <3>3. <<x, z>> \in less \/ (<<z, x>> \notin less /\ i < k)
      <4> HIDE DEF x, y, z
      <4>1. \A u, v \in {x, y, z} : <<u, v>> \in less => <<v, u>> \notin less
        BY <3>2 DEF Weak
      <4>2. \A u, v, w \in {x, y, z} : <<u, w>> \in less => <<u, v>> \in less \/ <<v, w>> \in less
        BY <3>2 DEF Weak
      <4>3. i \in Nat /\ j \in Nat /\ k \in Nat
        BY <2>0
      <4> QED BY <3>1, <4>1, <4>2, <4>3
    <3> QED BY <1>4, <3>3
  <2> QED BY <2>1, <2>2, <2>4 DEF Orders
<1> HIDE DEF N
<1>6. /\ order \in Seq(N) /\ DOMAIN order = 1..n
      /\ \A x \in N : \E r \in 1..n : order[r] = x
      /\ \A i, j \in 1..n : i < j => <<order[i], order[j]>> \in R
  BY <1>3, <1>5, InOrderOf
<1> HIDE DEF order
<1>7. \A k \in 1..n : order[k] \in N
  <2>1. order \in Seq(N) => \A k \in DOMAIN order : order[k] \in N
    OBVIOUS
  <2> QED BY <1>6, <2>1
<1>8. f \in [1..n -> Members(list)]
  BY <1>2, <1>6, <1>7
<1>9. \A k \in 1..n : f[k] = list[order[k]]
  BY <1>6
<1> HIDE DEF f
<1>10. f \in Seq(Members(list)) /\ Len(f) = n
  BY <1>2, <1>8, FunctionIsSeq
<1>11. \A x \in Members(list) : \E i \in 1..n : f[i] = x
  <2> SUFFICES ASSUME NEW k \in DOMAIN list PROVE \E i \in 1..n : f[i] = list[k]
    BY DEF Members
  <2>1. PICK i \in 1..n : order[i] = k
    BY <1>2, <1>6
  <2> QED BY <1>9, <2>1
<1>12. \A i, j \in 1..n : i < j => <<f[j], f[i]>> \notin less
  <2> SUFFICES ASSUME NEW i \in 1..n, NEW j \in 1..n, i < j, <<f[j], f[i]>> \in less
               PROVE  FALSE
    OBVIOUS
  <2>1. <<order[i], order[j]>> \in R
    BY <1>6
  <2>2. <<list[order[i]], list[order[j]]>> \in less \/ <<list[order[j]], list[order[i]]>> \notin less
    BY <1>4, <2>1
  <2>3. f[i] \in Members(list) /\ f[j] \in Members(list) /\ f[i] = list[order[i]] /\ f[j] = list[order[j]]
    BY <1>2, <1>7, <1>9
  <2> QED BY <2>2, <2>3 DEF Weak
<1> QED BY <1>1, <1>10, <1>11, <1>12

(* A sample is a list of documents of the collection, and a sample by        *)
(* relevance leaves nothing out that is more relevant than what it takes.    *)
Fair(list, s) == \A d \in Members(s), e \in Members(list) \ Members(s) : Relevant(d) >= Relevant(e)

LEMMA FirstSorted ==
  ASSUME NEW X, NEW list \in Seq(X), \A d \in Members(list) : Relevant(d) \in Int,
         NEW less, Weak(Members(list), less),
         \A d, e \in Members(list) : Relevant(d) > Relevant(e) => <<d, e>> \in less,
         NEW size \in 0..Len(list), NEW s, s = SubSeq(SortedBy(list, less), 1, size)
  PROVE  s \in Seq(Members(list)) /\ Fair(list, s)
<1> DEFINE t == SortedBy(list, less)
           M == Members(list)
           n == Len(list)
<1>1. n \in Nat
  BY MembersOf
<1>2. /\ t \in Seq(M) /\ Len(t) = n
      /\ \A x \in M : \E i \in 1..n : t[i] = x
      /\ \A i, j \in 1..n : i < j => <<t[j], t[i]>> \notin less
  BY SortedIs
<1>3. s = SubSeq(t, 1, size) /\ size \in 0..n
  OBVIOUS
<1>4. /\ \A d \in M : Relevant(d) \in Int
      /\ \A d, e \in M : Relevant(d) > Relevant(e) => <<d, e>> \in less
  OBVIOUS
<1> HIDE DEF t, M, n
<1>5. /\ s \in Seq(M) /\ DOMAIN s = 1..size /\ \A i \in 1..size : s[i] = t[i]
  BY <1>2, <1>3, PrefixOf
<1>6. ASSUME NEW d \in Members(s), NEW e \in M \ Members(s)
      PROVE  Relevant(d) >= Relevant(e)
  <2>1. PICK i \in 1..size : d = t[i]
    BY <1>5 DEF Members
  <2>2. PICK j \in 1..n : t[j] = e
    BY <1>2
  <2>3. j \notin 1..size
    BY <1>5, <2>2 DEF Members
  <2>4. i \in 1..n /\ i < j
    BY <1>1, <1>3, <2>2, <2>3
  <2>5. <<e, d>> \notin less
    BY <1>2, <2>1, <2>2, <2>4
  <2>6. d \in M
    BY <1>5, MembersOf
  <2>7. ~(Relevant(e) > Relevant(d)) /\ Relevant(e) \in Int /\ Relevant(d) \in Int
    BY <1>4, <2>5, <2>6
  <2> QED BY <2>7
<1> QED BY <1>5, <1>6 DEF Fair, M

LEMMA AfterIs ==
  ASSUME NEW X, NEW list \in Seq(X), NEW i
  PROVE  After(list, i) \in Nat
<1> DEFINE T == {j \in DOMAIN list : j > i /\ Group(list[j]) = Group(list[i])}
<1>1. DOMAIN list = 1..Len(list) /\ Len(list) \in Nat
  BY MembersOf
<1>2. T \subseteq 1..Len(list)
  BY <1>1
<1>3. After(list, i) = Cardinality(T)
  BY DEF After
<1> HIDE DEF T
<1>4. IsFiniteSet(1..Len(list))
  BY <1>1, FS_Interval
<1>5. IsFiniteSet(T)
  BY <1>2, <1>4, FS_Subset
<1> QED BY <1>3, <1>5, FS_CardinalityType

LEMMA SampleIs ==
  ASSUME Sourced, NEW list \in Seq(DOMAIN docs), Stored(Now),
         \A q, r \in Members(list) : docs[q].id = docs[r].id => q = r,
         NEW n \in 1..2, NEW method \in Methods, NEW s \in Samples(list, n, method)
  PROVE  s \in Seq(Members(list)) /\ (method # "random" => Fair(list, s))
<1> DEFINE D == DOMAIN docs
           M == Members(list)
           N == Len(list)
           size == IF n < Len(list) THEN n ELSE Len(list)
<1>1. list \in Seq(D)
  OBVIOUS
<1>2. \A d \in D : Of(d).id \in Int /\ Relevant(d) \in Int
  <2>1. \A d \in D : docs[d].id \in DOMAIN Relevance
    <3>1. Now.docs = docs
      BY StoreIs DEF Now
    <3> QED BY <3>1, StoredIs
  <2>2. DOMAIN Relevance \subseteq Int /\ Relevance \in [DOMAIN Relevance -> Int]
    BY DEF Sourced
  <2> QED BY <2>1, <2>2 DEF Of, Relevant
<1>3. \A q, r \in M : Of(q).id = Of(r).id => q = r
  BY DEF Of
<1> HIDE DEF D
<1>4. M \subseteq D /\ N \in Nat /\ DOMAIN list = 1..N
  BY <1>1, MembersOf
<1>5. size \in 0..N /\ size \in Nat
  BY <1>4
<1>6. \A d \in M : Of(d).id \in Int /\ Relevant(d) \in Int
  BY <1>2, <1>4
<1> HIDE DEF M, N, size
<1>7. CASE method = "random"
  <2>1. s \in [1..size -> M]
    BY <1>7 DEF Samples, M, size
  <2>2. s \in Seq(M)
    BY <1>5, <2>1, FunctionIsSeq
  <2> QED BY <1>7, <2>2 DEF M
<1>8. CASE method = "top_relevance"
  <2> DEFINE less == ByRelevance(M)
  <2>1. s = SubSeq(SortedBy(list, less), 1, size)
    BY <1>8 DEF Samples, M, size
  <2>2. \A d, e : <<d, e>> \in less <=> d \in M /\ e \in M /\ Relevant(d) > Relevant(e)
    BY DEF ByRelevance
  <2> HIDE DEF less
  <2>3. Weak(M, less)
    BY <1>6, <2>2 DEF Weak
  <2>4. \A d, e \in M : Relevant(d) > Relevant(e) => <<d, e>> \in less
    BY <2>2
  <2>5. /\ size \in 0..Len(list) /\ Weak(Members(list), less)
        /\ \A d \in Members(list) : Relevant(d) \in Int
        /\ \A d, e \in Members(list) : Relevant(d) > Relevant(e) => <<d, e>> \in less
    BY <1>5, <1>6, <2>3, <2>4 DEF M, N
  <2> QED BY <1>1, <2>1, <2>5, FirstSorted
<1>9. CASE method = "random_stratified_relevance"
  <2>1. PICK T \in SUBSET M :
           /\ s = InOrder(T, ById(T))
           /\ \A d \in T, e \in M \ T : Relevant(d) >= Relevant(e)
    BY <1>9 DEF Samples, M, size
  <2>2. IsFiniteSet(T)
    <3>1. IsFiniteSet(1..N) /\ DOMAIN list = 1..N
      BY <1>4, FS_Interval
    <3>2. M = {list[i] : i \in 1..N}
      BY <3>1 DEF M, Members
    <3>3. IsFiniteSet({list[i] : i \in 1..N})
      BY <3>1, FiniteImage
    <3> QED BY <3>2, <3>3, FS_Subset
  <2>3. \A d, e : <<d, e>> \in ById(T) <=> d \in T /\ e \in T /\ Of(d).id < Of(e).id
    BY DEF ById
  <2>4. Orders(T, ById(T))
    <3>1. \A d \in T : Of(d).id \in Int
      BY <1>6, <2>1
    <3>2. \A q, r \in T : Of(q).id = Of(r).id => q = r
      BY <1>3, <2>1
    <3>3. \A x \in T : <<x, x>> \notin ById(T)
      BY <2>3, <3>1
    <3>4. \A x, y, z \in T : <<x, y>> \in ById(T) /\ <<y, z>> \in ById(T) => <<x, z>> \in ById(T)
      BY <2>3, <3>1
    <3>5. \A x, y \in T : x = y \/ <<x, y>> \in ById(T) \/ <<y, x>> \in ById(T)
      <4> SUFFICES ASSUME NEW x \in T, NEW y \in T, x # y
                   PROVE  <<x, y>> \in ById(T) \/ <<y, x>> \in ById(T)
        OBVIOUS
      <4>1. Of(x).id # Of(y).id
        BY <3>2
      <4>2. Of(x).id < Of(y).id \/ Of(y).id < Of(x).id
        BY <3>1, <4>1
      <4> QED BY <2>3, <4>2
    <3> QED BY <3>3, <3>4, <3>5 DEF Orders
  <2>5. /\ s \in Seq(T) /\ DOMAIN s = 1..Cardinality(T)
        /\ \A x \in T : \E r \in 1..Cardinality(T) : s[r] = x
    BY <2>1, <2>2, <2>4, InOrderOf
  <2>6. Members(s) = T
    <3>1. Members(s) \subseteq T
      BY <2>5, MembersOf
    <3>2. T \subseteq Members(s)
      BY <2>5 DEF Members
    <3> QED BY <3>1, <3>2
  <2>7. s \in Seq(M)
    BY <2>1, <2>5, SeqWidened
  <2> QED BY <2>1, <2>6, <2>7 DEF Fair, M
<1>10. CASE method = "bottom_origin_rank_stratified_relevance"
  <2> DEFINE less == ByOrigin(list)
             A(d) == After(list, PlaceIn(list, d))
  <2>1. s = SubSeq(SortedBy(list, less), 1, size)
    BY <1>10 DEF Samples, size
  <2>2. \A d, e : <<d, e>> \in less <=>
           /\ d \in M /\ e \in M
           /\ \/ Relevant(d) > Relevant(e)
              \/ /\ Relevant(d) = Relevant(e)
                 /\ A(d) > A(e) \/ (A(d) = A(e) /\ Of(d).id < Of(e).id)
    BY DEF ByOrigin, M
  <2>3. \A d \in M : A(d) \in Nat
    BY <1>1, AfterIs
  <2> HIDE DEF less, A
  <2>4. Weak(M, less)
    <3>1. \A x, y \in M : <<x, y>> \in less => <<y, x>> \notin less
      BY <1>6, <2>2, <2>3, SMTT(60)
    <3>2. \A x, y, z \in M : <<x, z>> \in less => <<x, y>> \in less \/ <<y, z>> \in less
      <4> SUFFICES ASSUME NEW x \in M, NEW y \in M, NEW z \in M, <<x, z>> \in less
                   PROVE  <<x, y>> \in less \/ <<y, z>> \in less
        OBVIOUS
      <4>1. Relevant(x) > Relevant(y) => <<x, y>> \in less
        BY <2>2
      <4>2. Relevant(y) > Relevant(z) => <<y, z>> \in less
        BY <2>2
      <4>3. CASE Relevant(x) > Relevant(z)
        <5>1. Relevant(x) > Relevant(y) \/ Relevant(y) > Relevant(z)
          BY <1>6, <4>3
        <5> QED BY <4>1, <4>2, <5>1
      <4>4. CASE Relevant(x) = Relevant(z)
        <5>1. A(x) > A(z) \/ (A(x) = A(z) /\ Of(x).id < Of(z).id)
          BY <1>6, <2>2, <4>4
        <5>2. CASE Relevant(x) # Relevant(y)
          <6>1. Relevant(x) > Relevant(y) \/ Relevant(y) > Relevant(z)
            BY <1>6, <4>4, <5>2
          <6> QED BY <4>1, <4>2, <6>1
        <5>3. CASE Relevant(x) = Relevant(y)
          <6>1. \/ A(x) > A(y) \/ (A(x) = A(y) /\ Of(x).id < Of(y).id)
                \/ A(y) > A(z) \/ (A(y) = A(z) /\ Of(y).id < Of(z).id)
            BY <1>6, <2>3, <5>1
          <6>2. Relevant(y) = Relevant(z)
            BY <4>4, <5>3
          <6> QED BY <2>2, <5>3, <6>1, <6>2
        <5> QED BY <5>2, <5>3
      <4>5. Relevant(x) > Relevant(z) \/ Relevant(x) = Relevant(z)
        BY <2>2
      <4> QED BY <4>3, <4>4, <4>5
    <3> QED BY <3>1, <3>2 DEF Weak
  <2>5. \A d, e \in M : Relevant(d) > Relevant(e) => <<d, e>> \in less
    BY <2>2
  <2>6. /\ size \in 0..Len(list) /\ Weak(Members(list), less)
        /\ \A d \in Members(list) : Relevant(d) \in Int
        /\ \A d, e \in Members(list) : Relevant(d) > Relevant(e) => <<d, e>> \in less
    BY <1>5, <1>6, <2>4, <2>5 DEF M, N
  <2> QED BY <1>1, <2>1, <2>6, FirstSorted
<1> QED BY <1>7, <1>8, <1>9, <1>10 DEF Methods

LEMMA SampleSteps ==
  ASSUME Sourced, IInv, NEW a \in DOMAIN colls, Sample(a)
  PROVE  Steps
<1> DEFINE list == colls[a].docs
<1>1. PICK n \in 1..2, method \in Methods :
        \E s \in Samples(list, n, method) :
           /\ call' = [name |-> method, with |-> <<a>>, raised |-> FALSE]
           /\ Made(Store(s), colls[a].computed, colls[a].root)
  BY DEF Sample, Calls
<1>2. PICK s \in Samples(list, n, method) :
           /\ call' = [name |-> method, with |-> <<a>>, raised |-> FALSE]
           /\ Made(Store(s), colls[a].computed, colls[a].root)
  BY <1>1
<1>3. lists' = lists
  BY DEF Sample
<1>4. list \in Seq(DOMAIN docs)
  BY CollsAre DEF IInv
<1>5. Stored(Now) /\ \A q, r \in Members(list) : docs[q].id = docs[r].id => q = r
  BY DEF IInv, EachOnce
<1>6. s \in Seq(Members(list)) /\ (method # "random" => Fair(list, s))
  <2> HIDE DEF list
  <2> QED BY <1>4, <1>5, SampleIs
<1>7. call'.name = method /\ call'.with[1] = a /\ method \notin {"merged", "merge"}
  BY <1>2 DEF Methods
<1>8. /\ IInv' /\ KnownKept /\ OthersUntouched /\ MergedComplete
      /\ Members(colls'[Len(colls')].docs) = Members(s)
  BY <1>2, <1>3, <1>6, <1>7, KeptSteps
<1>9. SampleFair
  <2>1. method # "random" => \A d \in Members(s), e \in Members(list) \ Members(s) : Relevant(d) >= Relevant(e)
    BY <1>6 DEF Fair
  <2> QED BY <1>7, <1>8, <2>1 DEF SampleFair
<1> QED BY <1>8, <1>9 DEF Steps, FusingStep

-----------------------------------------------------------------------------
(* The specification.                                                        *)
AsSourced(ds, os, ls) ==
  /\ os \in Seq([query : Int, ranks : SUBSET Int])
  /\ ds \in Seq([id : DOMAIN Relevance, title : Int,
                 origins : Seq(DOMAIN os), snippets : Seq(Snippets)])
  /\ \A d \in DOMAIN ds : \A t \in Members(ds[d].snippets) : t.start = None => t.end = None
  /\ \A d, e \in DOMAIN ds : ds[d].id # ds[e].id =>
                      Members(ds[d].origins) \cap Members(ds[e].origins) = {}
  /\ ls \in Seq([docs : Seq(DOMAIN ds), computed : Int])
  /\ \A i, j \in DOMAIN ls : \A k \in DOMAIN ls[i].docs, l \in DOMAIN ls[j].docs :
                      ls[i].docs[k] = ls[j].docs[l] => i = j /\ k = l

LEMMA InitHolds == Sourced /\ Init => IInv
<1> SUFFICES ASSUME Sourced, Init PROVE IInv
  OBVIOUS
<1>1. PICK w \in Worlds : docs = w.docs /\ origins = w.origins /\ lists = w.lists
  BY DEF Init
<1>2. colls = << >>
  BY DEF Init
<1>3. AsSourced(docs, origins, lists)
  <2>1. AsSourced(w.docs, w.origins, w.lists)
    BY Zenon DEF Sourced, AsSourced
  <2> QED BY <1>1, <2>1
<1>4. Now.docs = docs /\ Now.origins = origins /\ Now = [docs |-> docs, origins |-> origins, result |-> << >>]
  BY DEF Now, Store
<1>5. Stored(Now)
  <2> DEFINE O == DOMAIN origins
             I == DOMAIN Relevance
             R == [id : I, title : Int, origins : Seq(O), snippets : Seq(Snippets)]
             Q == [id : I, title : Int, origins : Seq(O), snippets : Seq(Snipped)]
  <2>1. docs \in Seq(R)
    BY <1>3 DEF AsSourced
  <2>2. ASSUME NEW d \in DOMAIN docs PROVE docs[d] \in Q
    <3>1. docs[d] \in R
      <4> HIDE DEF R
      <4> QED BY <2>1
    <3>2. docs[d].snippets \in Seq(Snippets) /\ \A t \in Members(docs[d].snippets) : t.start = None => t.end = None
      BY <1>3, <3>1 DEF AsSourced
    <3>3. docs[d].snippets \in Seq(Snipped)
      <4> DEFINE l == docs[d].snippets
                 n == Len(l)
      <4>1. l \in Seq(Snippets) /\ \A t \in Members(l) : t.start = None => t.end = None
        BY <3>2
      <4> HIDE DEF l
      <4>2. n \in Nat /\ l \in [1..n -> Snippets] /\ DOMAIN l = 1..n
        BY <4>1
      <4>3. \A i \in 1..n : l[i] \in Snipped
        <5> TAKE i \in 1..n
        <5>1. l[i] \in Snippets /\ (l[i].start = None => l[i].end = None)
          BY <4>1, <4>2 DEF Members
        <5> QED BY <5>1 DEF Snipped
      <4> HIDE DEF n
      <4>4. l \in [1..n -> Snipped]
        BY <4>2, <4>3
      <4>5. l \in Seq(Snipped)
        BY <4>2, <4>4, FunctionIsSeq
      <4> QED BY <4>5 DEF l
    <3> QED BY <3>1, <3>3
  <2> HIDE DEF R, Q
  <2>3. docs \in Seq(Q)
    <3>1. Len(docs) \in Nat /\ DOMAIN docs = 1..Len(docs) /\ docs \in [1..Len(docs) -> R]
      BY <2>1
    <3>2. docs \in [1..Len(docs) -> Q]
      BY <2>2, <3>1
    <3> QED BY <3>1, <3>2, FunctionIsSeq
  <2>4. docs \in Seq(DocsOf(origins))
    BY <2>3 DEF Q, DocsOf
  <2>5. origins \in Seq(Origins)
    BY <1>3 DEF AsSourced, Origins
  <2>6. Now = [docs |-> Now.docs, origins |-> Now.origins, result |-> Now.result]
    BY <1>4
  <2> QED BY <1>4, <2>4, <2>5, <2>6 DEF Stored
<1>6. Apart(Now)
  BY <1>3, <1>4 DEF AsSourced, Apart
<1>7. ListsTyped /\ CollsTyped /\ RootsApart /\ EachOnce
  <2>1. ListsTyped
    BY <1>3 DEF AsSourced, ListsTyped
  <2>2. DOMAIN colls = {}
    BY <1>2
  <2>3. CollsTyped
    <3> DEFINE C == [docs : Seq(DOMAIN docs), computed : Int, root : Nat]
    <3> HIDE DEF C
    <3>1. << >> \in Seq(C)
      OBVIOUS
    <3> QED BY <1>2, <2>2, <3>1 DEF CollsTyped, C
  <2> QED BY <2>1, <2>2, <2>3 DEF RootsApart, EachOnce
<1>8. ListsApart
  <2>1. DOMAIN colls = {}
    BY <1>2
  <2>2. \A i, j \in DOMAIN lists : i # j => Members(lists[i].docs) \cap Members(lists[j].docs) = {}
    <3> SUFFICES ASSUME NEW i \in DOMAIN lists, NEW j \in DOMAIN lists, i # j,
                        NEW k \in DOMAIN lists[i].docs, NEW l \in DOMAIN lists[j].docs,
                        lists[i].docs[k] = lists[j].docs[l]
                 PROVE  FALSE
      BY DEF Members
    <3> QED BY <1>3 DEF AsSourced
  <2> QED BY <2>1, <2>2 DEF ListsApart
<1> QED BY <1>5, <1>6, <1>7, <1>8 DEF IInv

LEMMA StutterHolds == IInv /\ UNCHANGED vars => IInv'
<1> SUFFICES ASSUME IInv, UNCHANGED vars PROVE IInv'
  OBVIOUS
<1>1. docs' = docs /\ origins' = origins /\ lists' = lists /\ colls' = colls
  BY DEF vars
<1>3. Stored(Now)' /\ Apart(Now)'
  <2>1. Now' = Now
    BY <1>1 DEF Now, Store
  <2>2. Stored(Now)'
    BY <2>1 DEF IInv, Stored
  <2>3. Apart(Now)'
    <3>1. \A d, e \in DOMAIN Now'.docs : Now'.docs[d].id # Now'.docs[e].id =>
                Members(Now'.docs[d].origins) \cap Members(Now'.docs[e].origins) = {}
      BY <2>1 DEF IInv, Apart
    <3> QED BY <3>1 DEF Apart, Members
  <2> QED BY <2>2, <2>3
<1>4. ListsTyped' /\ CollsTyped'
  BY <1>1 DEF IInv, ListsTyped, CollsTyped
<1>5. ListsApart' /\ RootsApart' /\ EachOnce'
  BY <1>1, SameLists DEF IInv, EachOnce
<1> QED BY <1>3, <1>4, <1>5 DEF IInv

LEMMA PairOf ==
  ASSUME NEW X, NEW b \in X, NEW c \in X
  PROVE  <<b>> \in Seq(X) /\ <<b, c>> \in Seq(X)
OBVIOUS

LEMMA NextHolds == Sourced /\ IInv /\ Next => Steps
<1> SUFFICES ASSUME Sourced, IInv, Next PROVE Steps
  OBVIOUS
<1>1. CASE FromDocs
  BY <1>1, FromDocsSteps
<1>2. ASSUME NEW a \in DOMAIN colls, Sample(a) PROVE Steps
  BY <1>2, SampleSteps
<1>3. ASSUME NEW a \in DOMAIN colls, NEW b \in DOMAIN colls, Subtract(a, b) PROVE Steps
  BY <1>3, SubtractSteps
<1>4. \A b, c \in DOMAIN colls : <<b>> \in Seq(DOMAIN colls) /\ <<b, c>> \in Seq(DOMAIN colls)
  BY PairOf
<1>5. ASSUME NEW a \in DOMAIN colls, NEW b \in DOMAIN colls, Merged(a, <<b>>) PROVE Steps
  BY <1>4, <1>5, MergedSteps
<1>6. ASSUME NEW a \in DOMAIN colls, NEW b \in DOMAIN colls, NEW c \in DOMAIN colls,
             Merged(a, <<b, c>>)
      PROVE  Steps
  BY <1>4, <1>6, MergedSteps
<1>7. ASSUME NEW b \in DOMAIN colls, NEW c \in DOMAIN colls, FactoryMerge(<<b, c>>) PROVE Steps
  BY <1>4, <1>7, FactoryMergeSteps
<1>8. ASSUME NEW a \in DOMAIN colls, NEW b \in DOMAIN colls, NEW c \in DOMAIN colls,
             MergeRaises(a, <<b, c>>)
      PROVE  Steps
  BY <1>4, <1>8, MergeRaisesSteps
<1> QED BY <1>1, <1>2, <1>3, <1>5, <1>6, <1>7, <1>8 DEF Next

(* No title and no rank is lost nor handed to another paper, what another search *)
(* found stays as it was found, a merge is complete, and a sample by relevance is *)
(* fair (fuse.py, document.py, collection.py, sampling.py).                       *)
THEOREM DocumentsKeepAll == ASSUME Sourced PROVE Spec => FusingSound
<1>1. Init => IInv
  BY InitHolds
<1>2. IInv /\ [Next]_vars => IInv' /\ [FusingStep]_vars
  <2>1. IInv /\ Next => IInv' /\ FusingStep
    BY NextHolds DEF Steps
  <2> QED BY <2>1, StutterHolds
<1> QED BY <1>1, <1>2, PTL DEF Spec, FusingSound
=============================================================================
