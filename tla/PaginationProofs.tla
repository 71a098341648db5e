--------------------------- MODULE PaginationProofs ---------------------------
(***************************************************************************)
(* Proofs about Pagination: what a client has listed, page by page, for    *)
(* every table, page size and interleaving of the statements of a page     *)
(* with the inserts and deletes of others.                                 *)
(***************************************************************************)
EXTENDS Pagination, FiniteSetTheorems, TLAPS

(* The provers that a step is tried with, and how long each may take. *)
USE ZenonT(5), SMTT(30)

-----------------------------------------------------------------------------
(* Descending, without repetition. *)
Sorted(s) == \A i, j \in 1 .. Len(s) : i < j => Less(s[j], s[i])

(* The order in which the backend compares rows: by score only on Redis.   *)
Lower(a, b) == IF backend = "psql" THEN Less(a, b) ELSE a.key < b.key

(* r comes after c in the direction of the listing. *)
Ahead(r, c) == IF dir = "backward" THEN Lower(c, r) ELSE Lower(r, c)

(* What the request asks for, and what the client had before it. *)
Todo(r) == cursor = None \/ Ahead(r, cursor)
Passed(v) == v = cursor \/ IF dir = "backward" THEN Less(v, cursor) ELSE Less(cursor, v)

(* r is in s or, on Redis, hidden there by a member of the same score. *)
Covered(r, s) == \E i \in 1 .. Len(s) : s[i].key = r.key /\ (backend = "psql" => s[i] = r)

(* r comes after the page s. *)
Rim(s) == IF dir = "backward" THEN s[1] ELSE s[Len(s)]
Left(r, s) == s # <<>> /\ Ahead(r, Rim(s))

-----------------------------------------------------------------------------
Asking == {"query", "count", "next", "prev", "ready"}

Types ==
  /\ backend \in {"psql", "redis"} /\ dir \in {"forward", "backward", "all"}
  /\ size \in Nat /\ total \in Nat
  /\ table \subseteq Rows /\ stable \subseteq table
  /\ items \in Seq(Rows) /\ visited \in Seq(Rows)
  /\ stage \in Asking \cup {"idle", "failed", "ended"}

(* The listing so far: it ends at the cursor, and the page goes on there. *)
InOrder ==
  /\ Sorted(visited) /\ Sorted(items)
  /\ stage = "idle" => visited = <<>>
  /\ stage \in Asking =>
       /\ cursor = None \/ cursor \in Rows
       /\ dir = "all" => cursor = None
       /\ cursor = None => visited = <<>>
       /\ \A i \in 1 .. Len(visited) : Passed(visited[i])
       /\ \A i \in 1 .. Len(items) : Todo(items[i])

Full == size > 0 \/ dir = "all"
AllAtOnce == dir = "all" /\ backend = "psql"

(* The page was read; and it was looked for rows that come after it. *)
Fetched == stage \in {"next", "prev", "ready"} \/ (stage = "count" /\ backend = "psql")
Looked ==
  \/ stage = "ready"
  \/ dir # "backward" /\ stage = "prev"
  \/ dir = "backward" /\ backend = "psql" /\ stage = "next"

(* The page says that there are more, or is not asked. *)
Announced ==
  CASE dir = "forward"  -> next
    [] dir = "backward" -> prev
    [] OTHER            -> AllAtOnce \/ next

(* A stable row was listed, is asked for, is on the page, or comes after it. *)
Reached ==
  /\ Full /\ stage \in Asking => \A r \in stable : Todo(r) \/ Covered(r, visited)
  /\ stage = "query" /\ backend # "psql" => total > 0
  /\ Full /\ Fetched =>
       \A r \in stable : Todo(r) => Covered(r, items) \/ (Left(r, items) /\ ~AllAtOnce)
  /\ Looked /\ ~Announced => \A r \in stable : ~Left(r, items)
  /\ stage = "ended" /\ Full /\ (dir = "all" => AllAtOnce \/ ~next) =>
       \A r \in stable : Covered(r, visited)

Inv == Types /\ InOrder /\ Reached

-----------------------------------------------------------------------------
(* Rows by (key, id) are in a strict total order. *)
LEMMA RowFacts ==
  ASSUME Usage, NEW a \in Rows
  PROVE  a.key \in Nat /\ a.id \in Nat /\ a # None /\ a.id # NoID
BY DEF Usage, None, NoID

LEMMA LessFacts ==
  ASSUME Usage, NEW a \in Rows, NEW b \in Rows
  PROVE  /\ ~Less(a, a)
         /\ Less(a, b) => ~Less(b, a)
         /\ a = b \/ Less(a, b) \/ Less(b, a)
<1>1. a \in [key : Nat, id : Nat] /\ b \in [key : Nat, id : Nat]
  BY DEF Usage
<1>2. a.key \in Nat /\ a.id \in Nat /\ b.key \in Nat /\ b.id \in Nat
  BY <1>1
<1>3. a.key = b.key /\ a.id = b.id => a = b
  BY <1>1
<1>4. QED
  BY <1>2, <1>3 DEF Less

LEMMA LessTransitive ==
  ASSUME Usage, NEW a \in Rows, NEW b \in Rows, NEW c \in Rows, Less(a, b), Less(b, c)
  PROVE  Less(a, c)
<1>1. /\ a.key \in Nat /\ a.id \in Nat /\ b.key \in Nat /\ b.id \in Nat
      /\ c.key \in Nat /\ c.id \in Nat
  BY RowFacts
<1>2. QED
  BY <1>1 DEF Less

(* What a row has to do with a row of the page, by the backend's order. *)
LEMMA LowerFacts ==
  ASSUME Usage, NEW a \in Rows, NEW b \in Rows
  PROVE  /\ Lower(a, b) => Less(a, b)
         /\ Less(a, b) => Lower(a, b) \/ (backend # "psql" /\ a.key = b.key)
<1>1. a.key \in Nat /\ b.key \in Nat
  BY RowFacts
<1>2. QED
  BY <1>1 DEF Less, Lower

-----------------------------------------------------------------------------
(* How many rows of S come before r: no two rows have the same rank, so     *)
(* that every rank below the number of rows is taken.                       *)
Rank(S, r) == Cardinality({q \in S : Less(r, q)})

LEMMA RankType ==
  ASSUME Usage, NEW S \in SUBSET Rows, NEW r \in S
  PROVE  /\ IsFiniteSet(S) /\ Cardinality(S) \in Nat
         /\ Rank(S, r) \in 0 .. Cardinality(S) - 1
<1> DEFINE T == {q \in S : Less(r, q)}
<1>1. IsFiniteSet(S) /\ Cardinality(S) \in Nat
  BY FS_Subset, FS_CardinalityType DEF Usage
<1>2. T \in SUBSET S /\ T # S
  BY LessFacts
<1>3. IsFiniteSet(T) /\ Cardinality(T) <= Cardinality(S) /\ Cardinality(T) # Cardinality(S)
  <2> HIDE DEF T
  <2>1. QED
    BY <1>1, <1>2, FS_Subset
<1>4. Cardinality(T) \in Nat
  BY <1>3, FS_CardinalityType
<1>5. QED
  BY <1>1, <1>3, <1>4 DEF Rank

LEMMA RankOrder ==
  ASSUME Usage, NEW S \in SUBSET Rows, NEW a \in S, NEW b \in S, Less(a, b)
  PROVE  Rank(S, b) < Rank(S, a)
<1> DEFINE A == {q \in S : Less(a, q)}
           B == {q \in S : Less(b, q)}
<1>1. B \in SUBSET A
  BY LessTransitive
<1>2. b \in A /\ b \notin B
  BY LessFacts
<1>3. IsFiniteSet(A)
  BY FS_Subset DEF Usage
<1>4. IsFiniteSet(B) /\ Cardinality(B) <= Cardinality(A) /\ Cardinality(A) # Cardinality(B)
  <2> HIDE DEF A, B
  <2>1. QED
    BY <1>1, <1>2, <1>3, FS_Subset
<1>5. Cardinality(A) \in Nat /\ Cardinality(B) \in Nat
  BY <1>3, <1>4, FS_CardinalityType
<1>6. QED
  BY <1>4, <1>5 DEF Rank

LEMMA RankTaken ==
  ASSUME Usage, NEW S \in SUBSET Rows, NEW k \in 0 .. Cardinality(S) - 1, S # {}
  PROVE  \E r \in S : Rank(S, r) = k
<1> DEFINE n == Cardinality(S)
           f == [r \in S |-> Rank(S, r)]
<1>1. n \in Nat /\ IsFiniteSet(S)
  BY RankType
<1>2. f \in [S -> 0 .. n - 1]
  BY RankType
<1>3. ASSUME NEW a \in S, NEW b \in S, f[a] = f[b] PROVE a = b
  <2>1. Rank(S, a) = Rank(S, b) /\ Rank(S, a) \in Nat
    BY <1>3, RankType
  <2>2. a = b \/ Less(a, b) \/ Less(b, a)
    BY LessFacts
  <2>3. QED
    BY <2>1, <2>2, RankOrder
<1>4. IsFiniteSet(0 .. n - 1) /\ Cardinality(0 .. n - 1) = n
  <2>1. n # 0
    BY <1>1, FS_EmptySet
  <2> HIDE DEF n
  <2>2. QED
    BY <1>1, <2>1, FS_Interval
<1>5. f \in Surjection(S, 0 .. n - 1)
  <2>1. f \in Injection(S, 0 .. n - 1)
    <3> HIDE DEF f, n
    <3>1. QED
      BY <1>2, <1>3 DEF Injection, IsInjective
  <2>2. Cardinality(S) = Cardinality(0 .. n - 1)
    BY <1>4
  <2> HIDE DEF f, n
  <2>3. QED
    BY <1>4, <2>1, <2>2, FS_Injection
<1>6. PICK r \in S : f[r] = k
  BY <1>5 DEF Surjection
<1>7. QED
  BY <1>6

(* ORDER BY created_at DESC, id DESC and ZREVRANGE: every row once, in      *)
(* descending order.                                                        *)
LEMMA ListingFacts ==
  ASSUME Usage, NEW S \in SUBSET Rows
  PROVE  /\ Listing(S) \in Seq(S) /\ Len(Listing(S)) = Cardinality(S)
         /\ Sorted(Listing(S))
         /\ \A r \in S : \E i \in 1 .. Len(Listing(S)) : Listing(S)[i] = r
<1> DEFINE n == Cardinality(S)
           L == Listing(S)
<1>1. n \in Nat /\ (S = {} => n = 0)
  BY FS_Subset, FS_CardinalityType, FS_EmptySet DEF Usage
<1>2. DOMAIN L = 1 .. n
  BY DEF Listing
<1>3. ASSUME NEW i \in 1 .. n PROVE L[i] \in S /\ Rank(S, L[i]) = i - 1
  <2>1. \E r \in S : Rank(S, r) = i - 1
    BY <1>1, RankTaken
  <2>2. L[i] = CHOOSE r \in S : Rank(S, r) = i - 1
    BY DEF Listing, Rank
  <2>3. QED
    BY <2>1, <2>2
<1>4. L \in Seq(S) /\ Len(L) = n
  <2> DEFINE g(i) == CHOOSE r \in S : Cardinality({q \in S : Less(r, q)}) = i - 1
  <2>1. L = [i \in 1 .. n |-> g(i)]
    BY DEF Listing
  <2> HIDE DEF L, n, g
  <2>2. L \in [1 .. n -> S]
    BY <1>3, <2>1
  <2>3. QED
    BY <1>1, <2>2
<1>5. Sorted(L)
  <2> SUFFICES ASSUME NEW i \in 1 .. n, NEW j \in 1 .. n, i < j PROVE Less(L[j], L[i])
    BY <1>4 DEF Sorted
  <2>1. L[i] \in S /\ L[j] \in S /\ Rank(S, L[i]) = i - 1 /\ Rank(S, L[j]) = j - 1
    BY <1>3
  <2> HIDE DEF L, n
  <2>2. L[i] = L[j] \/ Less(L[i], L[j]) \/ Less(L[j], L[i])
    BY <2>1, LessFacts
  <2>3. ~Less(L[i], L[j])
    <3>1. ASSUME Less(L[i], L[j]) PROVE Rank(S, L[j]) < Rank(S, L[i])
      BY <2>1, <3>1, RankOrder
    <3>2. QED
      BY <1>1, <2>1, <3>1
  <2>4. QED
    BY <1>1, <2>1, <2>2, <2>3
<1>6. ASSUME NEW r \in S PROVE \E i \in 1 .. n : L[i] = r
  <2>1. Rank(S, r) \in 0 .. n - 1
    BY RankType
  <2> DEFINE i == Rank(S, r) + 1
  <2>2. i \in 1 .. n /\ L[i] \in S /\ Rank(S, L[i]) = Rank(S, r)
    BY <1>1, <1>3, <2>1
  <2> HIDE DEF L, n, i
  <2>3. L[i] = r \/ Less(L[i], r) \/ Less(r, L[i])
    BY <2>2, LessFacts
  <2>4. ~Less(L[i], r) /\ ~Less(r, L[i])
    BY <1>1, <2>1, <2>2, RankOrder
  <2>5. QED
    BY <2>2, <2>3, <2>4
<1>7. QED
  BY <1>4, <1>5, <1>6

-----------------------------------------------------------------------------
(* LIMIT and slices.Reverse. *)
LEMMA LimitFacts ==
  ASSUME NEW S, NEW s \in Seq(S), NEW n \in Nat, NEW m,
         m = IF n < Len(s) THEN n ELSE Len(s)
  PROVE  /\ m \in 0 .. Len(s) /\ Limit(s, n) \in Seq(S) /\ Len(Limit(s, n)) = m
         /\ \A i \in 1 .. m : Limit(s, n)[i] = s[i]
<1>1. m \in 0 .. Len(s) /\ Len(s) \in Nat /\ Limit(s, n) = SubSeq(s, 1, m)
  BY DEF Limit
<1>2. QED
  BY <1>1

LEMMA ReversedFacts ==
  ASSUME NEW S, NEW s \in Seq(S)
  PROVE  /\ Reversed(s) \in Seq(S) /\ Len(Reversed(s)) = Len(s)
         /\ \A i \in 1 .. Len(s) : Reversed(s)[i] = s[Len(s) - i + 1]
<1>1. Len(s) \in Nat /\ \A i \in 1 .. Len(s) : s[Len(s) - i + 1] \in S
  OBVIOUS
<1>2. Reversed(s) \in [1 .. Len(s) -> S]
  BY <1>1 DEF Reversed
<1>3. QED
  BY <1>1, <1>2 DEF Reversed

(* The first n rows of the listing of S: the others are below the last. *)
FirstOf(p, S, n) ==
  /\ p \in Seq(S) /\ Sorted(p)
  /\ n > 0 => \A r \in S : \/ \E i \in 1 .. Len(p) : p[i] = r
                           \/ p # <<>> /\ Less(r, p[Len(p)])

LEMMA FirstFacts ==
  ASSUME Usage, NEW S \in SUBSET Rows, NEW n \in Nat, NEW p, p = Limit(Listing(S), n)
  PROVE  FirstOf(p, S, n)
<1> SUFFICES /\ p \in Seq(S) /\ Sorted(p)
             /\ n > 0 => \A r \in S : \/ \E i \in 1 .. Len(p) : p[i] = r
                                      \/ p # <<>> /\ Less(r, p[Len(p)])
  BY DEF FirstOf
<1> DEFINE L == Listing(S)
           m == IF n < Len(L) THEN n ELSE Len(L)
<1>1. /\ L \in Seq(S) /\ Sorted(L)
      /\ \A r \in S : \E i \in 1 .. Len(L) : L[i] = r
  BY ListingFacts
<1> HIDE DEF L
<1>2. /\ m \in 0 .. Len(L) /\ p \in Seq(S) /\ Len(p) = m
      /\ \A i \in 1 .. m : p[i] = L[i]
  <2>1. p = Limit(L, n)
    BY DEF L
  <2>2. m = IF n < Len(L) THEN n ELSE Len(L)
    OBVIOUS
  <2> HIDE DEF m
  <2>3. /\ m \in 0 .. Len(L) /\ Limit(L, n) \in Seq(S) /\ Len(Limit(L, n)) = m
        /\ \A i \in 1 .. m : Limit(L, n)[i] = L[i]
    <3>1. L \in Seq(S) /\ n \in Nat
      BY <1>1
    <3>2. QED
      BY ZenonT(30), <2>2, <3>1, LimitFacts
  <2>4. QED
    BY <2>1, <2>3
<1>3. Len(L) \in Nat /\ (n > 0 /\ Len(L) > 0 => m > 0)
  BY <1>1
<1> HIDE DEF m
<1>4. Sorted(p)
  <2> SUFFICES ASSUME NEW i \in 1 .. m, NEW j \in 1 .. m, i < j PROVE Less(p[j], p[i])
    BY <1>2 DEF Sorted
  <2>1. i \in 1 .. Len(L) /\ j \in 1 .. Len(L)
    BY <1>2, <1>3
  <2>2. Less(L[j], L[i])
    BY <1>1, <2>1 DEF Sorted
  <2>3. QED
    BY <1>2, <2>2
<1>5. ASSUME n > 0, NEW r \in S, \A i \in 1 .. Len(p) : p[i] # r
      PROVE  p # <<>> /\ Less(r, p[Len(p)])
  <2>1. PICK k \in 1 .. Len(L) : L[k] = r
    BY <1>1
  <2>2. m < k /\ m > 0
    BY <1>2, <1>3, <1>5, <2>1
  <2>3. Less(L[k], L[m])
    <3>1. m \in 1 .. Len(L)
      BY <1>2, <1>3, <2>2
    <3>2. QED
      BY <1>1, <2>2, <3>1 DEF Sorted
  <2>4. p # <<>> /\ p[Len(p)] = L[m]
    BY <1>2, <2>2
  <2>5. QED
    BY <2>1, <2>3, <2>4
<1>6. QED
  BY <1>2, <1>4, <1>5

(* The last n rows, read in ascending order and reversed: the others are    *)
(* above the first.                                                         *)
LastOf(p, S, n) ==
  /\ p \in Seq(S) /\ Sorted(p)
  /\ n > 0 => \A r \in S : \/ \E i \in 1 .. Len(p) : p[i] = r
                           \/ p # <<>> /\ Less(p[1], r)

LEMMA LastFacts ==
  ASSUME Usage, NEW S \in SUBSET Rows, NEW n \in Nat, NEW p,
         p = Reversed(Limit(Reversed(Listing(S)), n))
  PROVE  LastOf(p, S, n)
<1> SUFFICES /\ p \in Seq(S) /\ Sorted(p)
             /\ n > 0 => \A r \in S : \/ \E i \in 1 .. Len(p) : p[i] = r
                                      \/ p # <<>> /\ Less(p[1], r)
  BY DEF LastOf
<1> DEFINE L == Listing(S)
           l == Len(L)
           m == IF n < l THEN n ELSE l
           s == Reversed(L)
           t == Limit(s, n)
<1>1. /\ L \in Seq(S) /\ Sorted(L)
      /\ \A r \in S : \E i \in 1 .. Len(L) : L[i] = r
  BY ListingFacts
<1> HIDE DEF L
<1>2. s \in Seq(S) /\ Len(s) = l /\ \A i \in 1 .. l : s[i] = L[l - i + 1]
  BY <1>1, ReversedFacts
<1> HIDE DEF s
<1>3. m \in 0 .. l /\ t \in Seq(S) /\ Len(t) = m /\ \A i \in 1 .. m : t[i] = s[i]
  <2>1. s \in Seq(S) /\ Len(s) = l /\ m = IF n < Len(s) THEN n ELSE Len(s)
    BY <1>2
  <2> HIDE DEF m, l
  <2>2. /\ m \in 0 .. Len(s) /\ Limit(s, n) \in Seq(S) /\ Len(Limit(s, n)) = m
        /\ \A i \in 1 .. m : Limit(s, n)[i] = s[i]
    BY ZenonT(30), <2>1, LimitFacts
  <2>3. QED
    BY <2>1, <2>2
<1>4. l \in Nat /\ (n > 0 /\ l > 0 => m > 0)
  BY <1>1
<1> HIDE DEF t, m
<1>5. p = Reversed(t)
  BY DEF t, s, L
<1>6. p \in Seq(S) /\ Len(p) = m /\ \A i \in 1 .. m : p[i] = t[m - i + 1]
  BY <1>3, <1>5, ReversedFacts
<1> HIDE DEF l
<1>7. \A i \in 1 .. m : p[i] = L[l - m + i]
  <2> SUFFICES ASSUME NEW i \in 1 .. m PROVE p[i] = L[l - m + i]
    OBVIOUS
  <2>1. m - i + 1 \in 1 .. m /\ m - i + 1 \in 1 .. l /\ l - (m - i + 1) + 1 = l - m + i
    BY <1>3, <1>4
  <2>2. QED
    BY ZenonT(30), <1>2, <1>3, <1>6, <2>1
<1>8. Sorted(p)
  <2> SUFFICES ASSUME NEW i \in 1 .. m, NEW j \in 1 .. m, i < j PROVE Less(p[j], p[i])
    BY <1>6 DEF Sorted
  <2>1. l - m + i \in 1 .. l /\ l - m + j \in 1 .. l /\ l - m + i < l - m + j
    BY <1>3, <1>4
  <2>2. QED
    BY <1>1, <1>7, <2>1 DEF Sorted, l
<1>9. ASSUME n > 0, NEW r \in S, \A i \in 1 .. Len(p) : p[i] # r
      PROVE  p # <<>> /\ Less(p[1], r)
  <2>1. PICK k \in 1 .. l : L[k] = r
    BY <1>1 DEF l
  <2>2. k <= l - m
    <3>1. ASSUME k > l - m PROVE FALSE
      <4>1. k - (l - m) \in 1 .. m /\ l - m + (k - (l - m)) = k
        BY <1>3, <1>4, <3>1
      <4>2. QED
        BY ZenonT(30), <1>6, <1>7, <1>9, <2>1, <4>1
    <3>2. QED
      BY <1>3, <1>4, <3>1
  <2>3. m > 0 /\ l - m + 1 \in 1 .. l /\ k < l - m + 1
    BY <1>3, <1>4, <1>9, <2>2
  <2>4. Less(L[l - m + 1], L[k])
    BY <1>1, <2>3 DEF Sorted, l
  <2>5. p # <<>> /\ p[1] = L[l - m + 1]
    BY <1>3, <1>6, <1>7, <2>3
  <2>6. QED
    BY <2>1, <2>4, <2>5
<1>10. QED
  BY <1>6, <1>8, <1>9

(* go-redis sends no LIMIT for a count of 0. *)
LEMMA Count0Facts ==
  ASSUME NEW S, NEW s \in Seq(S), size \in Nat
  PROVE  \E n \in Nat : Count0(s) = Limit(s, n) /\ (size > 0 => n > 0)
<1>1. CASE size = 0
  <2>1. Len(s) \in Nat /\ Limit(s, Len(s)) = s
    BY DEF Limit
  <2>2. QED
    BY <1>1, <2>1 DEF Count0
<1>2. CASE size # 0
  BY <1>2 DEF Count0
<1>3. QED
  BY <1>1, <1>2

-----------------------------------------------------------------------------
(* p is a page of the rows in S. *)
Holds(p, r) == \E i \in 1 .. Len(p) : p[i] = r
Beyond(r, p) ==
  p # <<>> /\ ~AllAtOnce /\ IF dir = "backward" THEN Less(p[1], r) ELSE Less(r, p[Len(p)])
PageOf(p, S) ==
  p \in Seq(S) /\ Sorted(p) /\ (Full => \A r \in S : Holds(p, r) \/ Beyond(r, p))

Wanted == {r \in table : Todo(r)}

LEMMA FirstPage ==
  ASSUME Usage, NEW S \in SUBSET Rows, NEW n \in Nat, dir # "backward", ~AllAtOnce,
         Full => n > 0
  PROVE  PageOf(Limit(Listing(S), n), S)
<1> DEFINE p == Limit(Listing(S), n)
<1>p. p = Limit(Listing(S), n)
  OBVIOUS
<1> HIDE DEF p
<1>1. FirstOf(p, S, n)
  BY <1>p, FirstFacts
<1>2. PageOf(p, S)
  BY <1>1 DEF FirstOf, PageOf, Holds, Beyond
<1>3. QED
  BY <1>2 DEF p

LEMMA LastPage ==
  ASSUME Usage, NEW S \in SUBSET Rows, NEW n \in Nat, dir = "backward", Full => n > 0
  PROVE  PageOf(Reversed(Limit(Reversed(Listing(S)), n)), S)
<1> DEFINE p == Reversed(Limit(Reversed(Listing(S)), n))
<1>p. p = Reversed(Limit(Reversed(Listing(S)), n))
  OBVIOUS
<1> HIDE DEF p
<1>1. LastOf(p, S, n)
  BY <1>p, LastFacts
<1>2. PageOf(p, S)
  BY <1>1 DEF LastOf, PageOf, Holds, Beyond, AllAtOnce
<1>3. QED
  BY <1>2 DEF p

LEMMA PSQLPage ==
  ASSUME Usage, Inv, stage = "query", backend = "psql"
  PROVE  PageOf(queryItems, Wanted)
<1>1. /\ size \in Nat /\ table \subseteq Rows /\ dir \in {"forward", "backward", "all"}
      /\ cursor = None \/ cursor \in Rows
  BY DEF Inv, Types, InOrder, Asking
<1>2. Wanted \in SUBSET Rows
  BY <1>1 DEF Wanted
<1>3. cursor = None \/ cursor.id # NoID
  BY <1>1, RowFacts
<1>4. dir # "backward" => {r \in table : After(r)} = Wanted
  BY <1>3 DEF Wanted, Todo, After, Ahead, Lower, Below
<1>5. dir = "backward" => {r \in table : Before(r)} = Wanted
  BY <1>3 DEF Wanted, Todo, Before, Ahead, Lower, Above
<1>6. CASE dir = "forward"
  <2>1. queryItems = Limit(Listing(Wanted), size)
    BY <1>4, <1>6 DEF queryItems
  <2>2. QED
    BY <1>1, <1>2, <1>6, <2>1, FirstPage DEF Full, AllAtOnce
<1>7. CASE dir = "backward"
  <2>1. queryItems = Reversed(Limit(Reversed(Listing(Wanted)), size))
    BY <1>5, <1>7 DEF queryItems
  <2>2. QED
    BY <1>1, <1>2, <1>7, <2>1, LastPage DEF Full
<1>8. CASE dir = "all"
  <2>1. queryItems = Listing(Wanted)
    BY <1>4, <1>8 DEF queryItems
  <2>2. QED
    BY <1>2, <2>1, ListingFacts DEF PageOf, Holds
<1>9. QED
  BY <1>1, <1>6, <1>7, <1>8

LEMMA RedisPage ==
  ASSUME Usage, Inv, stage = "query", backend # "psql"
  PROVE  PageOf(queryMembers, Wanted)
<1>1. /\ size \in Nat /\ total \in Nat /\ table \subseteq Rows
      /\ dir \in {"forward", "backward", "all"}
      /\ dir = "all" => cursor = None
      /\ total > 0
  BY DEF Inv, Types, InOrder, Reached, Asking
<1>2. Wanted \in SUBSET Rows
  BY <1>1 DEF Wanted
<1>3. Listing(Wanted) \in Seq(Wanted)
  BY <1>2, ListingFacts
<1>4. CASE dir = "forward"
  <2>1. {r \in table : cursor = None \/ r.key < cursor.key} = Wanted
    BY <1>4 DEF Wanted, Todo, Ahead, Lower
  <2>2. queryMembers = Count0(Listing(Wanted))
    BY <1>4, <2>1 DEF queryMembers, queryForward
  <2>3. PICK n \in Nat : queryMembers = Limit(Listing(Wanted), n) /\ (size > 0 => n > 0)
    BY <1>1, <1>3, <2>2, Count0Facts
  <2>4. QED
    BY <1>1, <1>2, <1>4, <2>3, FirstPage DEF Full, AllAtOnce
<1>5. CASE dir = "backward"
  <2>1. {r \in table : cursor = None \/ r.key > cursor.key} = Wanted
    <3>1. \A r \in table : r.key > cursor.key <=> cursor.key < r.key
      OBVIOUS
    <3>2. QED
      BY <1>5, <3>1 DEF Wanted, Todo, Ahead, Lower
  <2>2. queryMembers = Reversed(Count0(Reversed(Listing(Wanted))))
    BY <1>5, <2>1 DEF queryMembers, queryBackward
  <2>3. Reversed(Listing(Wanted)) \in Seq(Wanted)
    BY <1>3, ReversedFacts
  <2>4. PICK n \in Nat : /\ queryMembers = Reversed(Limit(Reversed(Listing(Wanted)), n))
                         /\ size > 0 => n > 0
    BY <1>1, <2>2, <2>3, Count0Facts
  <2>5. QED
    BY <1>1, <1>2, <1>5, <2>4, LastPage DEF Full
<1>6. CASE dir = "all"
  <2>1. Wanted = table
    BY <1>1, <1>6 DEF Wanted, Todo
  <2>2. queryMembers = Limit(Listing(Wanted), total)
    BY <1>6, <2>1 DEF queryMembers
  <2>3. QED
    BY <1>1, <1>2, <1>6, <2>2, FirstPage DEF AllAtOnce
<1>7. QED
  BY <1>1, <1>4, <1>5, <1>6

(* A row of the table that is not on the page is hidden there by one of its *)
(* score, or comes after the page.                                          *)
LEMMA PageCovers ==
  ASSUME Usage, NEW S \in SUBSET Rows, NEW p, PageOf(p, S), Full, NEW r \in S
  PROVE  Covered(r, p) \/ (Left(r, p) /\ ~AllAtOnce)
<1>1. p \in Seq(S) /\ (Holds(p, r) \/ Beyond(r, p))
  BY DEF PageOf
<1>2. CASE Holds(p, r)
  BY <1>2 DEF Holds, Covered
<1>3. CASE Beyond(r, p)
  <2> DEFINE k == IF dir = "backward" THEN 1 ELSE Len(p)
  <2>1. p # <<>> /\ ~AllAtOnce /\ k \in 1 .. Len(p) /\ p[k] \in Rows /\ r \in Rows
    BY <1>1, <1>3 DEF Beyond
  <2>2. Rim(p) = p[k] /\ IF dir = "backward" THEN Less(p[k], r) ELSE Less(r, p[k])
    BY <1>3 DEF Beyond, Rim
  <2> HIDE DEF k
  <2>3. Ahead(r, p[k]) \/ (backend # "psql" /\ p[k].key = r.key)
    BY <2>1, <2>2, LowerFacts DEF Ahead
  <2>4. QED
    BY <2>1, <2>2, <2>3 DEF Left, Covered
<1>4. QED
  BY <1>1, <1>2, <1>3

-----------------------------------------------------------------------------
(* The statements of ListItems in their order. *)
LEMMA FollowingFacts ==
  /\ First = IF backend = "psql" THEN "query" ELSE "count"
  /\ backend = "psql" /\ stage = "query" => Following = "count"
  /\ backend = "psql" /\ dir = "forward" =>
       /\ stage = "count" => Following = "next"
       /\ stage = "next" => Following = "prev"
       /\ stage = "prev" => Following = "ready"
  /\ backend = "psql" /\ dir # "forward" =>
       /\ stage = "count" => Following = "prev"
       /\ stage = "prev" => Following = "next"
       /\ stage = "next" => Following = "ready"
  /\ backend # "psql" =>
       /\ stage = "count" => Following = "query"
       /\ stage = "query" => Following = "next"
       /\ stage = "next" => Following = "prev"
       /\ stage = "prev" => Following = "ready"
<1> DEFINE k == CHOOSE i \in 1 .. 4 : Statements[i] = stage
<1>1. Following = Statements[1 + k]
  BY DEF Following
<1>2. ASSUME NEW i \in 1 .. 4, Statements[i] = stage PROVE k \in 1 .. 4 /\ Statements[k] = stage
  BY <1>2
<1> HIDE DEF k
<1>3. CASE backend = "psql" /\ dir = "forward"
  <2>1. Statements = <<"query", "count", "next", "prev", "ready">>
    BY <1>3 DEF Statements, PSQLStatements
  <2>2. QED
    BY <1>1, <1>2, <1>3, <2>1 DEF First
<1>4. CASE backend = "psql" /\ dir # "forward"
  <2>1. Statements = <<"query", "count", "prev", "next", "ready">>
    BY <1>4 DEF Statements, PSQLStatements
  <2>2. QED
    BY <1>1, <1>2, <1>4, <2>1 DEF First
<1>5. CASE backend # "psql"
  <2>1. Statements = <<"count", "query", "next", "prev", "ready">>
    BY <1>5 DEF Statements, RedisStatements
  <2>2. QED
    BY <1>1, <1>2, <1>5, <2>1 DEF First
<1>6. QED
  BY <1>3, <1>4, <1>5

LEMMA EmptyFacts == Sorted(<<>>) /\ \A r : ~Covered(r, <<>>)
BY DEF Sorted, Covered

LEMMA InitInv == ASSUME Usage PROVE Init => Inv
<1> SUFFICES ASSUME Init PROVE Inv
  OBVIOUS
<1>1. Types
  BY DEF Init, Types, Usage, Asking
<1>2. InOrder /\ Reached
  BY EmptyFacts DEF Init, InOrder, Reached, Asking, Fetched, Looked
<1>3. QED
  BY <1>1, <1>2 DEF Inv

(* The listing starts. *)
LEMMA BeginStep == ASSUME Usage, Inv, Begin PROVE Inv'
<1>1. /\ stage = "idle" /\ cursor' = None /\ stage' \in {"query", "count", "failed"}
      /\ stage' = "query" => backend = "psql"
      /\ stage' = "count" => backend # "psql"
      /\ items' = <<>> /\ total' = 0 /\ stable' = table
      /\ UNCHANGED <<backend, shape, dir, size, table, writes, visited>>
  BY FollowingFacts DEF Begin, Request, request
<1>2. visited = <<>>
  BY <1>1 DEF Inv, InOrder
<1>3. Types'
  BY <1>1 DEF Inv, Types, Asking
<1>4. InOrder'
  BY <1>1, <1>2, EmptyFacts DEF InOrder, Asking, Sorted, None, NoID
<1>5. Reached'
  BY <1>1 DEF Reached, Asking, Todo, Fetched, Looked, None, NoID
<1>6. QED
  BY <1>3, <1>4, <1>5 DEF Inv

(* Others write: a stable row that is deleted is not stable any more. *)
LEMMA WriteSteps ==
  ASSUME Usage, Inv, NEW r \in Rows, Insert(r) \/ Delete(r)
  PROVE  Inv'
<1>1. /\ table' \subseteq Rows /\ stable' \subseteq table' /\ stable' \subseteq stable
      /\ UNCHANGED <<backend, shape, dir, size, stage, cursor, items, total, next, prev, visited>>
  BY DEF Inv, Types, Insert, Delete, request, page
<1>2. Types'
  BY <1>1 DEF Inv, Types
<1>3. InOrder'
  BY <1>1 DEF Inv, InOrder, Sorted, Passed, Todo, Ahead, Lower
<1>4. Reached'
  <2>1. /\ Fetched' = Fetched /\ Looked' = Looked /\ Announced' = Announced /\ Full' = Full
        /\ AllAtOnce' = AllAtOnce
        /\ \A q : Todo(q)' = Todo(q)
        /\ \A q : Covered(q, items)' = Covered(q, items)
        /\ \A q : Covered(q, visited)' = Covered(q, visited)
        /\ \A q : Left(q, items)' = Left(q, items)
    BY <1>1 DEF Fetched, Looked, Announced, Full, AllAtOnce, Todo, Covered, Left, Ahead, Lower, Rim
  <2>2. QED
    BY <1>1, <2>1 DEF Inv, Reached
<1>5. QED
  BY <1>2, <1>3, <1>4 DEF Inv

-----------------------------------------------------------------------------
(* The statements of a page. *)
LEMMA QueryStep == ASSUME Usage, Inv, Query PROVE Inv'
<1>1. /\ stage = "query" /\ PageOf(items', Wanted)
      /\ stage' = IF backend = "psql" THEN "count" ELSE "next"
      /\ UNCHANGED <<backend, shape, dir, size, table, stable, cursor, total, next, prev, visited>>
  BY PSQLPage, RedisPage, FollowingFacts DEF Query, request
<1>2. table \subseteq Rows /\ stable \subseteq table /\ Wanted \in SUBSET Rows
  BY DEF Inv, Types, Wanted
<1>3. items' \in Seq(Wanted) /\ Sorted(items')
  BY <1>1 DEF PageOf
<1>4. Types'
  BY <1>1, <1>2, <1>3 DEF Inv, Types, Asking
<1>5. \A r : Todo(r)' = Todo(r) /\ Passed(r)' = Passed(r) /\ Covered(r, visited)' = Covered(r, visited)
  BY <1>1 DEF Todo, Passed, Ahead, Lower, Covered
<1>6. InOrder'
  <2>1. \A i \in 1 .. Len(items') : Todo(items'[i])
    BY <1>3 DEF Wanted
  <2>2. \A i \in 1 .. Len(items') : Todo(items[i])'
    BY <1>1, <2>1 DEF Todo, Ahead, Lower
  <2>3. \A i \in 1 .. Len(visited) : Passed(visited[i])'
    BY <1>1, <1>5 DEF Inv, InOrder, Asking
  <2>4. Sorted(visited)' /\ Sorted(items)'
    BY <1>1, <1>3 DEF Inv, InOrder, Sorted
  <2>5. QED
    BY <1>1, <2>2, <2>3, <2>4 DEF Inv, InOrder, Asking, None, NoID
<1>7. Reached'
  <2>1. Full' = Full /\ AllAtOnce' = AllAtOnce /\ ~Looked'
    BY <1>1 DEF Full, AllAtOnce, Looked
  <2>2. ASSUME Full, NEW r \in stable, Todo(r)
        PROVE  Covered(r, items') \/ (Left(r, items') /\ ~AllAtOnce)
    <3>1. r \in Wanted
      BY <1>2, <2>2 DEF Wanted
    <3>2. QED
      BY <1>1, <1>2, <2>2, <3>1, PageCovers
  <2>3. \A r : /\ Covered(r, items)' = Covered(r, items')
               /\ Left(r, items)' = Left(r, items')
    BY <1>1 DEF Covered, Left, Rim, Ahead, Lower
  <2>4. QED
    BY <1>1, <1>5, <2>1, <2>2, <2>3 DEF Inv, Reached, Asking
<1>8. QED
  BY <1>4, <1>6, <1>7 DEF Inv

(* A statement that changes neither page nor cursor keeps the listing. *)
LEMMA SamePage ==
  ASSUME Inv, stage \in Asking, stage' \in Asking \cup {"failed"}, total' \in Nat,
         UNCHANGED <<backend, shape, dir, size, table, stable, cursor, items, visited>>
  PROVE  /\ Types' /\ InOrder' /\ Full' = Full /\ AllAtOnce' = AllAtOnce
         /\ \A r : /\ Todo(r)' = Todo(r) /\ Left(r, items)' = Left(r, items)
                   /\ Covered(r, items)' = Covered(r, items)
                   /\ Covered(r, visited)' = Covered(r, visited)
<1>1. Types'
  BY DEF Inv, Types
<1>2. InOrder'
  BY DEF Inv, InOrder, Sorted, Passed, Todo, Ahead, Lower, Asking
<1>3. Full' = Full /\ AllAtOnce' = AllAtOnce
  BY DEF Full, AllAtOnce
<1>4. QED
  BY <1>1, <1>2, <1>3 DEF Todo, Left, Covered, Rim, Ahead, Lower

LEMMA CountStep == ASSUME Usage, Inv, Count \/ ZCard PROVE Inv'
<1>1. Cardinality(table) \in Nat /\ (Cardinality(table) = 0 <=> table = {})
  BY FS_Subset, FS_CardinalityType, FS_EmptySet DEF Inv, Types, Usage
<1>2. /\ stage = "count" /\ total' = Cardinality(table)
      /\ UNCHANGED <<backend, shape, dir, size, table, stable, cursor, items, next, prev, visited>>
  BY DEF Count, ZCard, request
<1>3. \/ stage' = "failed"
      \/ backend = "psql" /\ stage' = IF dir = "forward" THEN "next" ELSE "prev"
      \/ backend # "psql" /\ table = {} /\ stage' = "ready"
      \/ backend # "psql" /\ table # {} /\ stage' = "query"
  BY FollowingFacts DEF Count, ZCard
<1>4. stage \in Asking /\ stage' \in Asking \cup {"failed"}
  BY <1>2, <1>3 DEF Asking
<1>5. /\ Types' /\ InOrder' /\ Full' = Full /\ AllAtOnce' = AllAtOnce
      /\ \A r : /\ Todo(r)' = Todo(r) /\ Left(r, items)' = Left(r, items)
                /\ Covered(r, items)' = Covered(r, items)
                /\ Covered(r, visited)' = Covered(r, visited)
  BY <1>1, <1>2, <1>4, SamePage
<1>6. Reached'
  <2>1. stable \subseteq table
    BY DEF Inv, Types
  <2>2. Looked' /\ ~Announced' => stable' = {}
    <3>1. dir \in {"forward", "backward", "all"}
      BY DEF Inv, Types
    <3>2. QED
      BY <1>2, <1>3, <2>1, <3>1 DEF Looked, Announced, AllAtOnce
  <2>3. Fetched' => Fetched \/ stable' = {}
    BY <1>2, <1>3, <2>1 DEF Fetched
  <2>4. stage' = "query" => total' > 0
    BY <1>1, <1>2, <1>3
  <2>5. QED
    BY <1>2, <1>3, <1>4, <1>5, <2>2, <2>3, <2>4 DEF Inv, Reached, Asking
<1>7. QED
  BY <1>5, <1>6 DEF Inv

(* The look ahead finds every row that comes after the page. *)
LEMMA NoneLeft ==
  ASSUME Usage, Inv, NEW r \in table,
         \/ /\ dir # "backward" /\ ~AllAtOnce
            /\ ~(IF backend = "psql" THEN psqlHasNext ELSE redisHasNext)
         \/ /\ dir = "backward"
            /\ ~(IF backend = "psql" THEN psqlHasPrevious ELSE redisHasPrevious)
  PROVE  ~Left(r, items)
<1> SUFFICES ASSUME items # <<>> PROVE ~Ahead(r, Rim(items))
  BY DEF Left
<1>1. dir \in {"forward", "backward", "all"} /\ items \in Seq(Rows) /\ r \in Rows
  BY DEF Inv, Types
<1>2. Rim(items) \in Rows
  BY <1>1 DEF Rim
<1>3. Rim(items).key \in Nat /\ Rim(items).id # NoID /\ r.key \in Nat
  BY <1>1, <1>2, RowFacts
<1>4. CASE backend = "psql"
  <2>1. dir # "all"
    BY <1>4 DEF AllAtOnce
  <2>2. Reference = Rim(items)
    BY <1>1, <2>1 DEF Reference, ForwardReference, BackwardReference, Otherwise, Edge, Rim, LastItem
  <2>3. QED
    BY <1>1, <1>3, <1>4, <2>1, <2>2
    DEF psqlHasNext, psqlHasPrevious, Below, Above, Ahead, Lower
<1>5. CASE backend # "psql"
  <2>1. Rim(items) = IF dir = "backward" THEN Head(items) ELSE LastItem
    BY <1>1 DEF Rim, LastItem
  <2>2. QED
    BY <1>3, <1>5, <2>1 DEF redisHasNext, redisHasPrevious, Ahead, Lower
<1>6. QED
  BY <1>4, <1>5

LEMMA LookSteps == ASSUME Usage, Inv, HasNext \/ HasPrevious PROVE Inv'
<1>1. /\ UNCHANGED <<backend, shape, dir, size, table, stable, cursor, items, total, visited>>
      /\ dir \in {"forward", "backward", "all"} /\ total \in Nat /\ stable \subseteq table
  BY DEF HasNext, HasPrevious, request, Inv, Types
<1>2. \/ /\ stage = "next" /\ prev' = prev
         /\ next' = IF backend = "psql" THEN psqlHasNext ELSE redisHasNext
         /\ stage' = IF backend = "psql" /\ dir # "forward" THEN "ready" ELSE "prev"
      \/ /\ stage = "prev" /\ next' = next
         /\ prev' = IF backend = "psql" THEN psqlHasPrevious ELSE redisHasPrevious
         /\ stage' = IF backend = "psql" /\ dir # "forward" THEN "next" ELSE "ready"
  BY FollowingFacts DEF HasNext, HasPrevious
<1>3. stage \in Asking /\ stage' \in Asking /\ stage' # "query" /\ Fetched /\ Fetched'
  BY <1>2 DEF Asking, Fetched
<1>4. /\ Types' /\ InOrder' /\ Full' = Full /\ AllAtOnce' = AllAtOnce
      /\ \A r : /\ Todo(r)' = Todo(r) /\ Left(r, items)' = Left(r, items)
                /\ Covered(r, items)' = Covered(r, items)
                /\ Covered(r, visited)' = Covered(r, visited)
  BY <1>1, <1>3, SamePage
<1>5. ASSUME Looked', ~Announced', NEW r \in stable PROVE ~Left(r, items)
  <2>1. CASE Looked /\ ~Announced
    BY <2>1 DEF Inv, Reached
  <2>2. CASE ~(Looked /\ ~Announced)
    <3>1. \/ dir # "backward" /\ ~AllAtOnce /\ ~next' /\ stage = "next"
          \/ dir = "backward" /\ ~prev' /\ stage = "prev"
      BY <1>1, <1>2, <1>5, <2>2 DEF Looked, Announced, AllAtOnce
    <3>2. QED
      BY <1>1, <1>2, <3>1, NoneLeft
  <2>3. QED
    BY <2>1, <2>2
<1>6. Reached'
  BY <1>1, <1>3, <1>4, <1>5 DEF Inv, Reached, Asking
<1>7. QED
  BY <1>4, <1>6 DEF Inv

-----------------------------------------------------------------------------
(* Pages put together. *)
LEMMA JoinSorted ==
  ASSUME Usage, NEW s \in Seq(Rows), NEW t \in Seq(Rows), Sorted(s), Sorted(t),
         \A i \in 1 .. Len(s), j \in 1 .. Len(t) : Less(t[j], s[i])
  PROVE  Sorted(s \o t)
<1> DEFINE u == s \o t
           m == Len(s)
           n == Len(t)
<1>1. /\ m \in Nat /\ n \in Nat /\ u \in Seq(Rows) /\ Len(u) = m + n
      /\ \A i \in 1 .. m : u[i] = s[i]
      /\ \A i \in m + 1 .. m + n : u[i] = t[i - m]
  OBVIOUS
<1>2. /\ \A i, j \in 1 .. m : i < j => Less(s[j], s[i])
      /\ \A i, j \in 1 .. n : i < j => Less(t[j], t[i])
  BY DEF Sorted
<1>3. \A i \in 1 .. m, j \in 1 .. n : Less(t[j], s[i])
  OBVIOUS
<1> HIDE DEF u, m, n
<1>4. ASSUME NEW i \in 1 .. m + n, NEW j \in 1 .. m + n, i < j PROVE Less(u[j], u[i])
  <2>1. CASE j <= m
    BY <1>1, <1>2, <1>4, <2>1
  <2>2. CASE i > m
    <3>1. i - m \in 1 .. n /\ j - m \in 1 .. n /\ i - m < j - m
      BY <1>1, <1>4, <2>2
    <3>2. QED
      BY <1>1, <1>2, <1>4, <2>2, <3>1
  <2>3. CASE i <= m /\ j > m
    <3>1. j - m \in 1 .. n
      BY <1>1, <2>3
    <3>2. QED
      BY <1>1, <1>3, <2>3, <3>1
  <2>4. QED
    BY <1>1, <2>1, <2>2, <2>3
<1>5. Sorted(u)
  BY <1>1, <1>4 DEF Sorted
<1>6. QED
  BY <1>5 DEF u

LEMMA JoinHas ==
  ASSUME NEW s \in Seq(Rows), NEW t \in Seq(Rows)
  PROVE  /\ s \o t \in Seq(Rows)
         /\ \A i \in 1 .. Len(s \o t) :
              \/ \E j \in 1 .. Len(s) : (s \o t)[i] = s[j]
              \/ \E j \in 1 .. Len(t) : (s \o t)[i] = t[j]
         /\ \A r : Covered(r, s) \/ Covered(r, t) => Covered(r, s \o t)
<1> DEFINE u == s \o t
           m == Len(s)
           n == Len(t)
<1>1. /\ m \in Nat /\ n \in Nat /\ u \in Seq(Rows) /\ Len(u) = m + n
      /\ \A i \in 1 .. m : u[i] = s[i]
      /\ \A i \in m + 1 .. m + n : u[i] = t[i - m]
      /\ \A i \in 1 .. n : u[m + i] = t[i]
  OBVIOUS
<1>2. \A r : Covered(r, s) => \E i \in 1 .. m : s[i].key = r.key /\ (backend = "psql" => s[i] = r)
  BY DEF Covered
<1>3. \A r : Covered(r, t) => \E i \in 1 .. n : t[i].key = r.key /\ (backend = "psql" => t[i] = r)
  BY DEF Covered
<1> HIDE DEF u
<1>4. ASSUME NEW r, Covered(r, s) PROVE Covered(r, u)
  <2>1. PICK i \in 1 .. m : s[i].key = r.key /\ (backend = "psql" => s[i] = r)
    BY <1>2, <1>4
  <2>2. i \in 1 .. Len(u) /\ u[i] = s[i]
    BY <1>1
  <2>3. QED
    BY <2>1, <2>2 DEF Covered
<1>5. ASSUME NEW r, Covered(r, t) PROVE Covered(r, u)
  <2>1. PICK i \in 1 .. n : t[i].key = r.key /\ (backend = "psql" => t[i] = r)
    BY <1>3, <1>5
  <2>2. m + i \in 1 .. Len(u) /\ u[m + i] = t[i]
    BY <1>1
  <2>3. QED
    BY <2>1, <2>2 DEF Covered
<1>6. ASSUME NEW i \in 1 .. Len(u)
      PROVE  (\E j \in 1 .. m : u[i] = s[j]) \/ (\E j \in 1 .. n : u[i] = t[j])
  <2>1. i \in 1 .. m \/ (i \in m + 1 .. m + n /\ i - m \in 1 .. n)
    BY <1>1
  <2>2. QED
    BY <1>1, <2>1
<1>7. QED
  BY <1>1, <1>4, <1>5, <1>6 DEF u

(* What the client has after it takes a page. *)
Listed == IF dir = "backward" THEN items \o visited ELSE visited \o items

LEMMA ListedFacts ==
  ASSUME Usage, Inv, stage = "ready"
  PROVE  /\ Listed \in Seq(Rows) /\ Sorted(Listed)
         /\ \A r : Covered(r, items) \/ Covered(r, visited) => Covered(r, Listed)
         /\ items # <<>> => \A i \in 1 .. Len(Listed) :
              \/ Listed[i] = Rim(items)
              \/ IF dir = "backward" THEN Less(Listed[i], Rim(items))
                                     ELSE Less(Rim(items), Listed[i])
<1>1. /\ items \in Seq(Rows) /\ visited \in Seq(Rows) /\ Sorted(items) /\ Sorted(visited)
      /\ cursor = None \/ cursor \in Rows
      /\ cursor = None => visited = <<>>
      /\ \A i \in 1 .. Len(visited) : Passed(visited[i])
      /\ \A i \in 1 .. Len(items) : Todo(items[i])
  BY DEF Inv, Types, InOrder, Asking
<1>2. ASSUME NEW i \in 1 .. Len(visited), NEW j \in 1 .. Len(items)
      PROVE  IF dir = "backward" THEN Less(visited[i], items[j]) ELSE Less(items[j], visited[i])
  <2>1. cursor \in Rows /\ cursor # None /\ visited[i] \in Rows /\ items[j] \in Rows
    BY <1>1, RowFacts
  <2>2. Ahead(items[j], cursor)
    BY <1>1, <2>1 DEF Todo
  <2>3. IF dir = "backward" THEN Less(cursor, items[j]) ELSE Less(items[j], cursor)
    BY <2>1, <2>2, LowerFacts DEF Ahead
  <2>4. visited[i] = cursor \/ IF dir = "backward" THEN Less(visited[i], cursor)
                                                  ELSE Less(cursor, visited[i])
    BY <1>1 DEF Passed
  <2>5. QED
    BY <2>1, <2>3, <2>4, LessTransitive
<1>3. Listed \in Seq(Rows) /\ \A r : Covered(r, items) \/ Covered(r, visited) => Covered(r, Listed)
  BY <1>1, JoinHas DEF Listed
<1>4. Sorted(Listed)
  BY <1>1, <1>2, JoinSorted DEF Listed
<1>5. ASSUME items # <<>>, NEW i \in 1 .. Len(Listed)
      PROVE  \/ Listed[i] = Rim(items)
             \/ IF dir = "backward" THEN Less(Listed[i], Rim(items))
                                    ELSE Less(Rim(items), Listed[i])
  <2> DEFINE k == IF dir = "backward" THEN 1 ELSE Len(items)
  <2>1. k \in 1 .. Len(items) /\ Rim(items) = items[k] /\ Len(items) \in Nat
    BY <1>1, <1>5 DEF Rim
  <2>2. \/ \E j \in 1 .. Len(items) : Listed[i] = items[j]
        \/ \E j \in 1 .. Len(visited) : Listed[i] = visited[j]
    <3>1. IF dir = "backward" THEN Listed = items \o visited ELSE Listed = visited \o items
      BY DEF Listed
    <3>2. CASE dir = "backward"
      <4>1. \A h \in 1 .. Len(items \o visited) :
              \/ \E j \in 1 .. Len(items) : (items \o visited)[h] = items[j]
              \/ \E j \in 1 .. Len(visited) : (items \o visited)[h] = visited[j]
        BY <1>1, JoinHas
      <4>2. QED
        BY <1>5, <3>1, <3>2, <4>1
    <3>3. CASE dir # "backward"
      <4>1. \A h \in 1 .. Len(visited \o items) :
              \/ \E j \in 1 .. Len(visited) : (visited \o items)[h] = visited[j]
              \/ \E j \in 1 .. Len(items) : (visited \o items)[h] = items[j]
        BY <1>1, JoinHas
      <4>2. QED
        BY <1>5, <3>1, <3>3, <4>1
    <3>4. QED
      BY <3>2, <3>3
  <2>3. ASSUME NEW j \in 1 .. Len(items), Listed[i] = items[j], j # k
        PROVE  IF dir = "backward" THEN Less(items[j], items[k]) ELSE Less(items[k], items[j])
    BY <1>1, <2>1, <2>3 DEF Sorted
  <2> HIDE DEF k
  <2>4. QED
    BY <1>2, <2>1, <2>2, <2>3
<1>6. QED
  BY <1>3, <1>4, <1>5

LEMMA TakePageStep == ASSUME Usage, Inv, TakePage PROVE Inv'
<1>1. /\ stage = "ready" /\ visited' = Listed
      /\ UNCHANGED <<backend, shape, dir, size, table, stable, writes>>
  BY DEF TakePage, Listed, request
<1>2. /\ Listed \in Seq(Rows) /\ Sorted(Listed)
      /\ \A r : Covered(r, items) \/ Covered(r, visited) => Covered(r, Listed)
  BY <1>1, ListedFacts
<1>3. \A r : Covered(r, visited)' = Covered(r, Listed)
  BY <1>1 DEF Covered
<1>4. Full' = Full /\ AllAtOnce' = AllAtOnce /\ Sorted(visited)'
  BY <1>1, <1>2 DEF Full, AllAtOnce, Sorted
<1>5. /\ items \in Seq(Rows) /\ total \in Nat /\ Sorted(items)
      /\ cursor = None \/ cursor \in Rows
      /\ cursor = None => visited = <<>>
      /\ \A i \in 1 .. Len(visited) : Passed(visited[i])
      /\ dir \in {"forward", "backward", "all"}
  BY <1>1 DEF Inv, Types, InOrder, Asking
<1>6. ASSUME Full, NEW r \in stable PROVE Covered(r, Listed) \/ (Left(r, items) /\ ~AllAtOnce)
  BY <1>1, <1>2, <1>6 DEF Inv, Reached, Asking, Fetched
<1>7. CASE More
  <2>1. /\ cursor' = IF items = <<>> THEN cursor ELSE Edge
        /\ stage' \in {"query", "count", "failed"} /\ items' = <<>> /\ total' = 0
        /\ stage' = "query" => backend = "psql"
        /\ stage' = "count" => backend # "psql"
        /\ dir # "all"
    BY <1>1, <1>7, FollowingFacts DEF TakePage, Request, More
  <2>2. Edge = Rim(items) /\ (items # <<>> => Rim(items) \in Rows /\ Rim(items) # None)
    <3>1. Edge = Rim(items)
      BY <1>5, <2>1 DEF Edge, Rim, LastItem
    <3>2. items # <<>> => Rim(items) \in Rows
      BY <1>5 DEF Rim
    <3>3. QED
      BY <3>1, <3>2, RowFacts
  <2>3. Types'
    BY <1>1, <1>2, <2>1 DEF Inv, Types, Asking
  <2>4. InOrder'
    <3>1. \A i \in 1 .. Len(visited') : Passed(visited[i])'
      <4>1. CASE items = <<>>
        <5>1. visited' = visited /\ cursor' = cursor
          BY <1>1, <1>5, <2>1, <4>1 DEF Listed, Inv, Types
        <5>2. QED
          BY <1>1, <1>5, <5>1 DEF Passed
      <4>2. CASE items # <<>>
        <5>1. cursor' = Rim(items)
          BY <2>1, <2>2, <4>2
        <5>2. \A i \in 1 .. Len(Listed) :
                \/ Listed[i] = Rim(items)
                \/ IF dir = "backward" THEN Less(Listed[i], Rim(items))
                                       ELSE Less(Rim(items), Listed[i])
          BY <1>1, <4>2, ListedFacts
        <5>3. QED
          BY <1>1, <5>1, <5>2 DEF Passed
      <4>3. QED
        BY <4>1, <4>2
    <3>2. cursor' = None => visited' = <<>>
      BY <1>1, <1>5, <2>1, <2>2 DEF Listed
    <3>3. (cursor' = None \/ cursor' \in Rows) /\ Sorted(items)'
      BY <1>5, <2>1, <2>2 DEF Sorted
    <3>4. QED
      BY <1>1, <1>4, <2>1, <3>1, <3>2, <3>3 DEF InOrder, Asking, None, NoID
  <2>5. Reached'
    <3>1. ASSUME Full, NEW r \in stable, ~Covered(r, Listed) PROVE Todo(r)'
      <4>1. Left(r, items)
        BY <1>6, <3>1
      <4>2. cursor' = Rim(items) /\ Ahead(r, Rim(items))
        BY <2>1, <2>2, <4>1 DEF Left
      <4>3. QED
        BY <1>1, <4>2 DEF Todo, Ahead, Lower
    <3>2. ~Fetched' /\ ~Looked' /\ stage' # "ended"
      BY <1>1, <2>1 DEF Fetched, Looked
    <3>3. QED
      BY <1>1, <1>3, <1>4, <2>1, <3>1, <3>2 DEF Reached
  <2>6. QED
    BY <2>3, <2>4, <2>5 DEF Inv
<1>8. CASE ~More
  <2>1. stage' = "ended" /\ total' \in {total, 0} /\ UNCHANGED <<cursor, items, next, prev>>
    BY <1>8 DEF TakePage, Totals
  <2>2. Types'
    BY <1>1, <1>2, <1>5, <2>1 DEF Inv, Types, Asking
  <2>3. InOrder'
    BY <1>4, <1>5, <2>1 DEF InOrder, Asking, Sorted
  <2>4. ASSUME Full, dir = "all" => AllAtOnce \/ ~next, NEW r \in stable
        PROVE  Covered(r, Listed)
    <3>1. AllAtOnce \/ ~Announced
      BY <1>5, <1>8, <2>4 DEF More, Announced
    <3>2. AllAtOnce \/ ~Left(r, items)
      BY <1>1, <3>1 DEF Inv, Reached, Looked
    <3>3. QED
      BY <1>6, <2>4, <3>2
  <2>5. Reached'
    BY <1>1, <1>3, <1>4, <2>1, <2>4 DEF Reached, Asking, Fetched, Looked
  <2>6. QED
    BY <2>2, <2>3, <2>5 DEF Inv
<1>9. QED
  BY <1>7, <1>8

LEMMA Invariance == ASSUME Usage PROVE Spec => []Inv
<1>1. ASSUME Inv, [Next]_vars PROVE Inv'
  <2>1. CASE UNCHANGED vars
    <3>1. UNCHANGED <<backend, shape, dir, size, table, stable, writes, stage, cursor, items,
                      total, next, prev, visited>>
      BY <2>1 DEF vars
    <3>2. Types' /\ InOrder'
      BY <1>1, <3>1 DEF Inv, Types, InOrder, Sorted, Passed, Todo, Ahead, Lower
    <3>3. /\ Fetched' = Fetched /\ Looked' = Looked /\ Announced' = Announced /\ Full' = Full
          /\ AllAtOnce' = AllAtOnce
          /\ \A q : Todo(q)' = Todo(q)
          /\ \A q : Covered(q, items)' = Covered(q, items)
          /\ \A q : Covered(q, visited)' = Covered(q, visited)
          /\ \A q : Left(q, items)' = Left(q, items)
      BY <3>1 DEF Fetched, Looked, Announced, Full, AllAtOnce, Todo, Covered, Left, Ahead,
           Lower, Rim
    <3>4. Reached'
      BY <1>1, <3>1, <3>3 DEF Inv, Reached
    <3>5. QED
      BY <3>2, <3>4 DEF Inv
  <2>2. CASE Next
    BY <1>1, <2>2, BeginStep, QueryStep, CountStep, LookSteps, TakePageStep, WriteSteps
    DEF Next, Statement
  <2>3. QED
    BY <1>1, <2>1, <2>2
<1>2. QED
  BY <1>1, InitInv, PTL DEF Spec

(* What the invariant says of the listing. *)
LEMMA InvImplies == ASSUME Inv PROVE OrderedVisit /\ EveryRowVisited
<1>1. /\ visited \in Seq(Rows) /\ items \in Seq(Rows) /\ backend \in {"psql", "redis"}
      /\ size \in Nat
  BY DEF Inv, Types
<1>2. OrderedVisit
  <2> SUFFICES ASSUME NEW i \in 1 .. Len(visited) - 1 PROVE Less(visited[i + 1], visited[i])
    BY DEF OrderedVisit
  <2>1. i \in 1 .. Len(visited) /\ i + 1 \in 1 .. Len(visited) /\ i < i + 1
    BY <1>1
  <2>2. QED
    BY <2>1 DEF Inv, InOrder, Sorted
<1>3. EveryRowVisited
  <2> SUFFICES ASSUME stage = "ended", dir = "all" \/ size > 0, backend = "psql" \/ UniqueKeys,
                      dir = "all" /\ backend = "redis" => ~next, NEW r \in stable
               PROVE  r \in Range(visited)
    BY DEF EveryRowVisited
  <2>1. Covered(r, visited)
    BY <1>1 DEF Inv, Reached, Full, AllAtOnce
  <2>2. PICK k \in 1 .. Len(visited) :
          visited[k].key = r.key /\ (backend = "psql" => visited[k] = r)
    BY <2>1 DEF Covered
  <2>3. CASE backend = "psql"
    BY <1>1, <2>2, <2>3 DEF Range
  <2>4. CASE UniqueKeys
    <3>1. visited[k] \in Range(items \o visited)
      <4>1. /\ Len(items) + k \in DOMAIN (items \o visited)
            /\ (items \o visited)[Len(items) + k] = visited[k]
        BY <1>1
      <4>2. QED
        BY <4>1 DEF Range
    <3>2. visited[k] = r
      BY <2>2, <2>4, <3>1 DEF UniqueKeys
    <3>3. QED
      BY <1>1, <3>2 DEF Range
  <2>5. QED
    BY <2>3, <2>4
<1>4. QED
  BY <1>2, <1>3

(* However others write between the statements, the pages put together are  *)
(* in order without repetition, and a listing that ends has every row that  *)
(* was there all the time.                                                  *)
THEOREM ListingIsCorrect == ASSUME Usage PROVE Spec => [](OrderedVisit /\ EveryRowVisited)
BY Invariance, InvImplies, PTL

-----------------------------------------------------------------------------
(* What a page says of the rows that come after it, while nobody writes.    *)
(* The property for the other direction, by the comment on HasPreviousPage  *)
(* (types.go:57): "If the client is paginating with last/before, then the   *)
(* server must return true if prior items exist, otherwise false."          *)
PriorItemsAnnounced ==
  stage = "ready" /\ writes = 0 /\ dir = "backward" /\ items # <<>> =>
    (prev <=> \E r \in table : Less(Head(items), r))

(* A page with rows announces exactly what is left; a page without rows,    *)
(* when rows were asked for, found none and announces none.                 *)
AnnounceInv ==
  /\ writes \in Nat
  /\ stage = "idle" => cursor = None
  /\ stage = "count" /\ backend # "psql" => items = <<>> /\ ~next /\ ~prev
  /\ writes = 0 /\ dir # "all" /\ Looked /\ items # <<>> =>
       (Announced <=> \E r \in table : Left(r, items))
  /\ writes = 0 /\ size > 0 /\ items = <<>> =>
       /\ Fetched => Wanted = {}
       /\ Looked /\ dir # "all" => ~Announced

(* The look ahead finds the rows that come after the page, and no others. *)
LEMMA LookFacts ==
  ASSUME Usage, Inv, items # <<>>
  PROVE  /\ dir = "forward" =>
              ((IF backend = "psql" THEN psqlHasNext ELSE redisHasNext)
                 <=> \E r \in table : Left(r, items))
         /\ dir = "backward" =>
              ((IF backend = "psql" THEN psqlHasPrevious ELSE redisHasPrevious)
                 <=> \E r \in table : Left(r, items))
<1>1. items \in Seq(Rows) /\ table \subseteq Rows
  BY DEF Inv, Types
<1>2. Rim(items) \in Rows
  BY <1>1 DEF Rim
<1>3. Rim(items).id # NoID /\ Rim(items).key \in Nat /\ \A r \in table : r.key \in Nat
  BY <1>1, <1>2, RowFacts
<1>4. CASE backend = "psql"
  <2>1. dir \in {"forward", "backward"} => Reference = Rim(items)
    BY <1>1 DEF Reference, ForwardReference, BackwardReference, Otherwise, Edge, Rim, LastItem
  <2>2. QED
    BY <1>3, <1>4, <2>1 DEF psqlHasNext, psqlHasPrevious, Below, Above, Left, Ahead, Lower
<1>5. CASE backend # "psql"
  <2>1. Rim(items) = IF dir = "backward" THEN Head(items) ELSE LastItem
    BY <1>1 DEF Rim, LastItem
  <2>2. \A r \in table : r.key > Rim(items).key <=> Rim(items).key < r.key
    BY <1>3
  <2>3. QED
    BY <1>5, <2>1, <2>2 DEF redisHasNext, redisHasPrevious, Left, Ahead, Lower
<1>6. QED
  BY <1>4, <1>5

(* When nothing was found, there is nothing ahead. *)
LEMMA EmptyLook ==
  ASSUME Usage, Inv, stage \in Asking, items = <<>>, Wanted = {}
  PROVE  /\ dir = "forward" => ~(IF backend = "psql" THEN psqlHasNext ELSE redisHasNext)
         /\ dir = "backward" =>
              ~(IF backend = "psql" THEN psqlHasPrevious ELSE redisHasPrevious)
<1>1. cursor = None \/ cursor \in Rows
  BY DEF Inv, InOrder
<1>2. CASE backend = "psql"
  <2>1. CASE cursor = None
    <3>1. table = {}
      BY <2>1 DEF Wanted, Todo
    <3>2. QED
      BY <1>2, <3>1 DEF psqlHasNext, psqlHasPrevious
  <2>2. CASE cursor # None
    <3>1. cursor.id # NoID
      BY <1>1, <2>2, RowFacts
    <3>2. dir \in {"forward", "backward"} => Reference = cursor
      BY <2>2 DEF Reference, ForwardReference, BackwardReference, Otherwise, Cursor
    <3>3. \A r \in table : ~Ahead(r, cursor)
      BY <2>2 DEF Wanted, Todo
    <3>4. QED
      BY <1>2, <3>1, <3>2, <3>3
      DEF psqlHasNext, psqlHasPrevious, Below, Above, Ahead, Lower
  <2>3. QED
    BY <2>1, <2>2
<1>3. CASE backend # "psql"
  BY <1>3 DEF redisHasNext, redisHasPrevious
<1>4. QED
  BY <1>2, <1>3

LEMMA AnnounceLooks ==
  ASSUME Usage, Inv, AnnounceInv, HasNext \/ HasPrevious
  PROVE  AnnounceInv'
<1>1. /\ UNCHANGED <<backend, dir, size, table, writes, cursor, items>>
      /\ dir \in {"forward", "backward", "all"}
  BY DEF HasNext, HasPrevious, request, Inv, Types
<1>2. \/ /\ stage = "next" /\ prev' = prev
         /\ next' = IF backend = "psql" THEN psqlHasNext ELSE redisHasNext
         /\ stage' = IF backend = "psql" /\ dir # "forward" THEN "ready" ELSE "prev"
      \/ /\ stage = "prev" /\ next' = next
         /\ prev' = IF backend = "psql" THEN psqlHasPrevious ELSE redisHasPrevious
         /\ stage' = IF backend = "psql" /\ dir # "forward" THEN "next" ELSE "ready"
  BY FollowingFacts DEF HasNext, HasPrevious
<1>3. /\ stage \in Asking /\ Fetched /\ stage' \notin {"idle", "count"}
      /\ Wanted' = Wanted /\ \A r : Left(r, items)' = Left(r, items)
  BY <1>1, <1>2 DEF Asking, Fetched, Wanted, Todo, Left, Rim, Ahead, Lower
<1>4. ASSUME writes = 0, dir # "all", Looked', items # <<>>
      PROVE  Announced' <=> \E r \in table : Left(r, items)
  <2>1. CASE Looked
    <3>1. Announced' <=> Announced
      BY <1>1, <1>2, <1>4, <2>1 DEF Looked, Announced
    <3>2. QED
      BY <1>4, <2>1, <3>1 DEF AnnounceInv
  <2>2. CASE ~Looked
    BY <1>1, <1>2, <1>4, <2>2, LookFacts DEF Looked, Announced
  <2>3. QED
    BY <2>1, <2>2
<1>5. ASSUME writes = 0, size > 0, dir # "all", Looked', items = <<>>
      PROVE  ~Announced'
  <2>1. Wanted = {}
    BY <1>3, <1>5 DEF AnnounceInv
  <2>2. CASE Looked
    <3>1. Announced' <=> Announced
      BY <1>1, <1>2, <1>5, <2>2 DEF Looked, Announced
    <3>2. QED
      BY <1>5, <2>2, <3>1 DEF AnnounceInv
  <2>3. CASE ~Looked
    <3>1. /\ dir = "forward" => ~(IF backend = "psql" THEN psqlHasNext ELSE redisHasNext)
          /\ dir = "backward" =>
               ~(IF backend = "psql" THEN psqlHasPrevious ELSE redisHasPrevious)
      BY <1>3, <1>5, <2>1, EmptyLook
    <3>2. QED
      BY <1>1, <1>2, <1>5, <2>3, <3>1 DEF Looked, Announced
  <2>4. QED
    BY <2>2, <2>3
<1>6. QED
  BY <1>1, <1>3, <1>4, <1>5 DEF AnnounceInv

LEMMA AnnounceQuery ==
  ASSUME Usage, Inv, AnnounceInv, Query
  PROVE  AnnounceInv'
<1>1. /\ PageOf(items', Wanted) /\ stage' = (IF backend = "psql" THEN "count" ELSE "next")
      /\ UNCHANGED <<backend, dir, size, table, writes, cursor>>
  BY PSQLPage, RedisPage, FollowingFacts DEF Query, request
<1>2. ~Looked' /\ Wanted' = Wanted
  BY <1>1 DEF Looked, Wanted, Todo, Ahead, Lower
<1>3. ASSUME size > 0, items' = <<>> PROVE Wanted = {}
  BY <1>1, <1>3 DEF PageOf, Holds, Beyond, Full
<1>4. QED
  BY <1>1, <1>2, <1>3 DEF AnnounceInv

LEMMA AnnounceStep ==
  ASSUME Usage, Inv, AnnounceInv, [Next]_vars
  PROVE  AnnounceInv'
<1>1. CASE Begin \/ TakePage
  <2>1. /\ writes' = writes /\ UNCHANGED backend /\ stage' # "idle" /\ ~Looked'
        /\ stage' \in {"query", "count"} =>
             items' = <<>> /\ ~next' /\ ~prev' /\ (backend = "psql" <=> stage' = "query")
    BY <1>1, FollowingFacts DEF Begin, TakePage, Request, request, Looked
  <2>2. ~Fetched'
    BY <1>1, <2>1, FollowingFacts DEF Begin, TakePage, Request, Fetched
  <2>3. QED
    BY <2>1, <2>2 DEF AnnounceInv
<1>2. CASE \E r \in Rows : Insert(r) \/ Delete(r)
  <2>1. /\ writes' = writes + 1
        /\ UNCHANGED <<backend, stage, cursor, items, next, prev>>
    BY <1>2 DEF Insert, Delete, request, page
  <2>2. writes' \in Nat /\ writes' # 0
    BY <2>1 DEF AnnounceInv
  <2>3. QED
    BY <2>1, <2>2 DEF AnnounceInv, None
<1>3. CASE Query
  BY <1>3, AnnounceQuery
<1>4. CASE Count \/ ZCard
  <2>1. /\ stage = "count" /\ UNCHANGED <<backend, dir, size, table, writes, cursor, items, next, prev>>
        /\ dir \in {"forward", "backward", "all"}
    BY <1>4 DEF Count, ZCard, request, Inv, Types
  <2>2. \/ stage' = "failed"
        \/ backend = "psql" /\ stage' = IF dir = "forward" THEN "next" ELSE "prev"
        \/ backend # "psql" /\ table = {} /\ stage' = "ready"
        \/ backend # "psql" /\ stage' = "query"
    BY <1>4, FollowingFacts DEF Count, ZCard
  <2>3. Wanted' = Wanted /\ (table = {} => Wanted = {})
    BY <2>1 DEF Wanted, Todo, Ahead, Lower
  <2>4. Fetched' => Fetched \/ table = {}
    BY <2>1, <2>2 DEF Fetched
  <2>5. Looked' /\ dir # "all" => items = <<>> /\ ~Announced'
    BY <2>1, <2>2 DEF Looked, Announced, AnnounceInv
  <2>6. QED
    BY <2>1, <2>2, <2>3, <2>4, <2>5 DEF AnnounceInv
<1>5. CASE HasNext \/ HasPrevious
  BY <1>5, AnnounceLooks
<1>6. CASE UNCHANGED vars
  BY <1>6 DEF vars, AnnounceInv, Looked, Fetched, Announced, AllAtOnce, Wanted, Todo, Left, Rim,
    Ahead, Lower, None
<1>7. QED
  BY <1>1, <1>2, <1>3, <1>4, <1>5, <1>6 DEF Next, Statement

LEMMA AnnounceInvariance == ASSUME Usage PROVE Spec => [](Inv /\ AnnounceInv)
<1>1. Init => AnnounceInv
  BY DEF Init, AnnounceInv, Looked, Fetched
<1>2. Inv /\ AnnounceInv /\ [Next]_vars => AnnounceInv'
  BY AnnounceStep
<1>3. QED
  BY <1>1, <1>2, Invariance, PTL DEF Spec

(* While nobody writes, a page says that there are more rows exactly if     *)
(* there are, in both directions (types.go:57 and 64), for any table and    *)
(* page size: on PostgreSQL always, on Redis if no two members have the     *)
(* same score.                                                              *)
THEOREM PagesTellTheRest ==
  ASSUME Usage
  PROVE  Spec => [](backend = "psql" \/ UniqueKeys => FurtherItemsAnnounced /\ PriorItemsAnnounced)
<1>1. ASSUME Inv, AnnounceInv, backend = "psql" \/ UniqueKeys
      PROVE  FurtherItemsAnnounced /\ PriorItemsAnnounced
  <2> SUFFICES ASSUME stage = "ready", writes = 0, items # <<>>
               PROVE  /\ dir = "forward" => (next <=> \E r \in table : Less(r, LastItem))
                      /\ dir = "backward" => (prev <=> \E r \in table : Less(Head(items), r))
    BY DEF FurtherItemsAnnounced, PriorItemsAnnounced
  <2>1. items \in Seq(Rows) /\ table \subseteq Rows /\ dir \in {"forward", "backward", "all"}
    BY <1>1 DEF Inv, Types
  <2>2. Rim(items) = (IF dir = "backward" THEN Head(items) ELSE LastItem) /\ Rim(items) \in Rows
    BY <2>1 DEF Rim, LastItem
  <2>3. dir # "all" => (Announced <=> \E r \in table : Left(r, items))
    BY <1>1 DEF AnnounceInv, Looked
  <2>4. ASSUME NEW r \in table PROVE r.key = Rim(items).key => backend = "psql" \/ r = Rim(items)
    <3>1. Rim(items) \in Range(items \o visited)
      <4>1. visited \in Seq(Rows)
        BY <1>1 DEF Inv, Types
      <4>2. PICK k \in 1 .. Len(items) : Rim(items) = items[k]
        BY <2>1 DEF Rim
      <4>3. k \in DOMAIN (items \o visited) /\ (items \o visited)[k] = items[k]
        BY <2>1, <4>1, <4>2
      <4>4. QED
        BY <4>2, <4>3 DEF Range
    <3>2. QED
      BY <1>1, <2>4, <3>1 DEF UniqueKeys
  <2>5. ASSUME NEW r \in table
        PROVE  Left(r, items) <=> IF dir = "backward" THEN Less(Rim(items), r)
                                                      ELSE Less(r, Rim(items))
    <3>1. r \in Rows
      BY <2>1
    <3>2. Lower(r, Rim(items)) <=> Less(r, Rim(items))
      BY <2>2, <2>4, <3>1, LowerFacts, LessFacts
    <3>3. Lower(Rim(items), r) <=> Less(Rim(items), r)
      BY <2>2, <2>4, <3>1, LowerFacts, LessFacts
    <3>4. QED
      BY <3>2, <3>3 DEF Left, Ahead
  <2>6. QED
    BY <2>1, <2>2, <2>3, <2>5 DEF Announced
<1>2. Inv /\ AnnounceInv =>
        (backend = "psql" \/ UniqueKeys => FurtherItemsAnnounced /\ PriorItemsAnnounced)
  BY <1>1
<1>3. QED
  BY <1>2, AnnounceInvariance, PTL

(* Where the request of the next page begins. *)
CursorMoves ==
  /\ cursor # None /\ cursor' # cursor =>
       IF dir = "backward" THEN Less(cursor, cursor') ELSE Less(cursor', cursor)
  /\ stage = "ready" /\ stage' \notin {"ready", "ended"} /\ size > 0 /\ writes = 0 =>
       cursor' # cursor

(* From page to page the cursor only goes on in the direction of the        *)
(* listing, also while others write, and while nobody writes no page is     *)
(* asked for twice: with finitely many rows this is why a listing ends.     *)
THEOREM PagesAdvance == ASSUME Usage PROVE Spec => [][CursorMoves]_vars
<1>1. ASSUME Inv, AnnounceInv, Next PROVE CursorMoves
  <2>1. CASE TakePage /\ More
    <3>1. /\ stage = "ready" /\ dir \in {"forward", "backward"} /\ Announced
          /\ cursor' = (IF items = <<>> THEN cursor ELSE Edge)
      BY <2>1 DEF TakePage, More, Request, Announced
    <3>2. CASE items = <<>>
      <4>1. ~(size > 0 /\ writes = 0)
        BY <1>1, <3>1, <3>2 DEF AnnounceInv, Looked
      <4>2. QED
        BY <3>1, <3>2, <4>1 DEF CursorMoves
    <3>3. CASE items # <<>>
      <4>1. items \in Seq(Rows) /\ stage \in Asking /\ (cursor = None \/ cursor \in Rows)
        BY <1>1, <3>1 DEF Inv, Types, InOrder, Asking
      <4>2. PICK k \in 1 .. Len(items) : Edge = items[k]
        BY <3>3, <4>1 DEF Edge, LastItem
      <4>3. Edge \in Rows /\ Todo(Edge)
        BY <1>1, <4>1, <4>2 DEF Inv, InOrder
      <4>4. CASE cursor = None
        BY <3>1, <3>3, <4>3, <4>4, RowFacts DEF CursorMoves
      <4>5. CASE cursor # None
        <5>1. IF dir = "backward" THEN Less(cursor, Edge) ELSE Less(Edge, cursor)
          BY <4>1, <4>3, <4>5, LowerFacts DEF Todo, Ahead
        <5>2. Edge # cursor
          BY <4>1, <4>3, <4>5, <5>1, LessFacts
        <5>3. QED
          BY <3>1, <3>3, <5>1, <5>2 DEF CursorMoves
      <4>6. QED
        BY <4>4, <4>5
    <3>4. QED
      BY <3>2, <3>3
  <2>2. CASE TakePage /\ ~More
    BY <2>2 DEF TakePage, CursorMoves
  <2>3. CASE Begin
    BY <1>1, <2>3 DEF Begin, CursorMoves, AnnounceInv
  <2>4. CASE Statement \/ \E r \in Rows : Insert(r) \/ Delete(r)
    <3>1. cursor' = cursor /\ (stage = "ready" => stage' = "ready")
      BY <2>4 DEF Statement, Query, Count, ZCard, HasNext, HasPrevious, Insert, Delete
    <3>2. QED
      BY <3>1 DEF CursorMoves
  <2>5. QED
    BY <1>1, <2>1, <2>2, <2>3, <2>4 DEF Next
<1>2. Inv /\ AnnounceInv /\ [Next]_vars => [CursorMoves]_vars
  BY <1>1
<1>3. QED
  BY <1>2, AnnounceInvariance, PTL DEF Spec
=============================================================================
