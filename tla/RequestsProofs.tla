---------------------------- MODULE RequestsProofs ----------------------------
(***************************************************************************)
(* Proofs about what happens to one request or value: the signed cookie,   *)
(* value.Int, the chains of HTTP middlewares and gRPC interceptors, and a  *)
(* listing page by page.                                                   *)
(***************************************************************************)
EXTENDS MCRequests, FiniteSetTheorems, TLAPS

(* The provers that a step is tried with, and how long each may take. *)
USE ZenonT(5), SMTT(30)

-----------------------------------------------------------------------------
(* The signed cookie.  An undamaged cookie is what the signing key of the   *)
(* deployment that set it makes of the value.                               *)
Versions == 1 .. Len(Rings)

CookieInv ==
  /\ c_version \in [Instances -> Versions]
  /\ ~c_damaged =>
       \/ c_jar = Cookie!None
       \/ /\ c_setBy.version \in Versions
          /\ c_jar.form = "signed" /\ c_jar.payload = Cookie!base64(c_setBy.value)
          /\ c_jar.mac = Cookie!signBytes(CookieName, c_jar.payload, Rings[c_setBy.version][1])
  /\ RotationKeepsCookies

LEMMA CookieInit == Cookie!Init => CookieInv
<1> SUFFICES ASSUME Cookie!Init PROVE CookieInv
  OBVIOUS
<1>1. c_version \in [Instances -> Versions]
  <2>1. 1 \in Versions
    BY RotationAssumption DEF Versions
  <2>2. QED
    BY <2>1 DEF Cookie!Init
<1>2. RotationKeepsCookies
  BY DEF Cookie!Init, Cookie!NotVerified, RotationKeepsCookies, Cookie!RotationKeepsCookies
<1>3. QED
  BY <1>1, <1>2 DEF Cookie!Init, CookieInv

LEMMA CookieVerify ==
  ASSUME CookieInv, NEW i \in Instances, Cookie!Verify(i)
  PROVE  CookieInv'
<1>1. /\ c_verified' = Cookie!verifySignedValue(i)
      /\ UNCHANGED <<c_version, c_jar, c_setBy, c_damaged>>
  BY DEF Cookie!Verify
<1> DEFINE w == c_setBy.version
           v == c_version[i]
<1>2. v \in Versions
  BY DEF CookieInv
<1>3. c_verified'.at = v
  BY <1>1 DEF Cookie!verifySignedValue
<1>4. ASSUME ~c_damaged, c_jar = Cookie!None
      PROVE  c_verified'.result = "none"
  BY <1>1, <1>4 DEF Cookie!verifySignedValue, Cookie!None
<1>5. ASSUME ~c_damaged, c_jar # Cookie!None, w - v \in {-1, 0, 1}
      PROVE  c_verified'.result = "ok" /\ c_verified'.raw = c_setBy.value
  <2>1. /\ w \in Versions /\ c_jar.form = "signed"
        /\ c_jar.payload = Cookie!base64(c_setBy.value)
        /\ c_jar.mac = Cookie!signBytes(CookieName, c_jar.payload, Rings[w][1])
    BY <1>5 DEF CookieInv
  <2>2. v - w \in {-1, 0, 1}
    BY <1>2, <1>5, <2>1 DEF Versions
  <2>3. PICK k \in 1 .. Len(Rings[v]) : Rings[v][k] = Rings[w][1]
    BY <1>2, <2>1, <2>2, RotationAssumption DEF Versions
  <2>4. Cookie!Valid(i)
    BY <2>1, <2>3 DEF Cookie!Valid, Cookie!keys
  <2>5. c_jar.payload # Cookie!NotBase64 /\ c_jar.payload[2] = c_setBy.value
    BY <2>1 DEF Cookie!base64, Cookie!NotBase64
  <2>6. QED
    BY <1>1, <2>1, <2>4, <2>5 DEF Cookie!verifySignedValue
<1>6. RotationKeepsCookies'
  BY <1>1, <1>3, <1>4, <1>5 DEF RotationKeepsCookies, Cookie!RotationKeepsCookies
<1>7. QED
  BY <1>1, <1>6 DEF CookieInv, Versions

LEMMA CookieOther ==
  ASSUME CookieInv,
         \/ \E i \in Instances : Cookie!Deploy(i) \/ \E p \in Payloads : Cookie!Set(i, p)
         \/ Cookie!Damage
  PROVE  CookieInv'
<1>1. c_verified' = Cookie!NotVerified
  BY DEF Cookie!Deploy, Cookie!Set, Cookie!Damage
<1>2. RotationKeepsCookies'
  BY <1>1 DEF Cookie!NotVerified, RotationKeepsCookies, Cookie!RotationKeepsCookies
<1>3. CASE \E i \in Instances : Cookie!Deploy(i)
  <2>1. PICK i \in Instances : Cookie!Deploy(i)
    BY <1>3
  <2>2. c_version' \in [Instances -> Versions] /\ UNCHANGED <<c_jar, c_setBy, c_damaged>>
    BY <2>1, RotationAssumption DEF CookieInv, Cookie!Deploy, Versions
  <2>3. QED
    BY <1>2, <2>2 DEF CookieInv, Versions
<1>4. CASE \E i \in Instances, p \in Payloads : Cookie!Set(i, p)
  <2>1. PICK i \in Instances, p \in Payloads : Cookie!Set(i, p)
    BY <1>4
  <2>2. QED
    BY <1>2, <2>1 DEF CookieInv, Cookie!Set, Cookie!signingKey, Cookie!keys, Versions
<1>5. CASE Cookie!Damage
  BY <1>2, <1>5 DEF CookieInv, Cookie!Damage, Versions
<1>6. QED
  BY <1>3, <1>4, <1>5

(* A stepwise key rotation logs nobody out: what a deployment set, it and  *)
(* its neighbours verify, and they return the value that was set, for any  *)
(* number of instances and any sequence of key rings in which neighbours   *)
(* hold each other's signing keys.                                         *)
THEOREM RotationIsSafe == Cookie!Spec => []RotationKeepsCookies
<1>1. CookieInv /\ [Cookie!Next]_(Cookie!vars) => CookieInv'
  <2> SUFFICES ASSUME CookieInv, [Cookie!Next]_(Cookie!vars) PROVE CookieInv'
    OBVIOUS
  <2>1. CASE UNCHANGED Cookie!vars
    BY <2>1 DEF Cookie!vars, CookieInv, Versions, RotationKeepsCookies,
                Cookie!RotationKeepsCookies
  <2>2. CASE Cookie!Next
    BY <2>2, CookieVerify, CookieOther DEF Cookie!Next
  <2>3. QED
    BY <2>1, <2>2
<1>2. CookieInv => RotationKeepsCookies
  BY DEF CookieInv
<1>3. QED
  BY CookieInit, <1>1, <1>2, PTL DEF Cookie!Spec

-----------------------------------------------------------------------------
(* value.Int.  An Int that did not take over the words of a *big.Int shares *)
(* its words with none.                                                     *)
Wide(x) == x.len = 1 => x.cell \in Cells

ValueTypes ==
  /\ v_heap \in [Cells -> Nat] /\ v_shared \subseteq Ints
  /\ v_int \in [Ints -> Value!Num] /\ v_big \in [Bigs -> Value!Num \cup {Value!Nil}]
  /\ \A v \in Ints : Wide(v_int[v])
  /\ \A b \in Bigs : Wide(v_big[b])

OwnCells ==
  \A v \in Ints \ v_shared, b \in Bigs : v_int[v].cell = v_big[b].cell => v_int[v].cell = 0

ValueInv == ValueTypes /\ OwnCells

(* What a step that is no operation on v may do to it. *)
Unaffected(v) == Value!Val(v_heap', v_int'[v]) = Value!Val(v_heap, v_int[v])

(* It changes with a *big.Int whose words it took over. *)
Along(v) ==
  v \in v_shared /\ \E b \in Bigs :
    /\ v_big[b].cell = v_int[v].cell
    /\ Value!Val(v_heap', v_big'[b]) # Value!Val(v_heap, v_big[b])

LEMMA NumFacts ==
  /\ Value!Zero \in Value!Num /\ Wide(Value!Zero) /\ Value!Zero.cell = 0
  /\ Wide(Value!Nil) /\ Value!Nil.cell = -1 /\ Value!Nil.len = 0
  /\ \A n \in Value!Num : n.len \in {0, 1} /\ n.neg \in BOOLEAN /\ n.cell \in Cells \cup {0}
BY DEF Value!Zero, Value!Nil, Value!Num, Wide

(* There are words that no other variable refers to. *)
LEMMA SomeFree ==
  ASSUME NEW x \in Ints \cup Bigs
  PROVE  Value!Free(x) \in Cells /\ Value!Free(x) \notin Value!Used(x)
<1> DEFINE I == Ints \ {x}
           B == Bigs \ {x}
           f == [v \in I |-> v_int[v].cell]
           g == [b \in B |-> v_big[b].cell]
           UI == {f[v] : v \in I}
           UB == {g[b] : b \in B}
<1>1. /\ IsFiniteSet(I) /\ IsFiniteSet(B)
      /\ Cardinality(I) = IF x \in Ints THEN Cardinality(Ints) - 1 ELSE Cardinality(Ints)
      /\ Cardinality(B) = IF x \in Bigs THEN Cardinality(Bigs) - 1 ELSE Cardinality(Bigs)
  BY CellsAssumption, FS_RemoveElement
<1>2. IsFiniteSet(UI) /\ Cardinality(UI) <= Cardinality(I)
  <2>1. f \in Surjection(I, UI)
    BY DEF Surjection
  <2>2. QED
    BY <1>1, <2>1, FS_Surjection
<1>3. IsFiniteSet(UB) /\ Cardinality(UB) <= Cardinality(B)
  <2>1. g \in Surjection(B, UB)
    BY DEF Surjection
  <2>2. QED
    BY <1>1, <2>1, FS_Surjection
<1>4. /\ IsFiniteSet(UI \cup UB)
      /\ Cardinality(UI \cup UB) <= Cardinality(UI) + Cardinality(UB)
  <2>1. /\ IsFiniteSet(UI \cup UB) /\ IsFiniteSet(UI \cap UB)
        /\ Cardinality(UI \cup UB) = Cardinality(UI) + Cardinality(UB) - Cardinality(UI \cap UB)
    BY <1>2, <1>3, FS_Union, FS_Intersection
  <2>2. Cardinality(UI \cap UB) \in Nat /\ Cardinality(UI) \in Nat /\ Cardinality(UB) \in Nat
    BY <1>2, <1>3, <2>1, FS_CardinalityType
  <2> HIDE DEF UI, UB
  <2>3. QED
    BY <2>1, <2>2
<1>5. Value!Used(x) = UI \cup UB
  BY DEF Value!Used
<1>6. ~(Cells \subseteq UI \cup UB)
  <2>1. Cardinality(UI \cup UB) < Cardinality(Cells)
    <3>1. /\ Cardinality(UI) \in Nat /\ Cardinality(UB) \in Nat /\ Cardinality(UI \cup UB) \in Nat
          /\ Cardinality(Ints) \in Nat /\ Cardinality(Bigs) \in Nat /\ Cardinality(Cells) \in Nat
          /\ Cardinality(I) \in Nat /\ Cardinality(B) \in Nat
      BY <1>1, <1>2, <1>3, <1>4, CellsAssumption, FS_CardinalityType
    <3>2. Cardinality(I) + Cardinality(B) <= Cardinality(Ints) + Cardinality(Bigs) - 1
      <4> HIDE DEF I, B
      <4> QED
        BY <1>1, <3>1
    <3> HIDE DEF I, B, UI, UB
    <3>3. QED
      BY <1>2, <1>3, <1>4, <3>1, <3>2, CellsAssumption
  <2>2. ASSUME Cells \subseteq UI \cup UB PROVE FALSE
    <3>1. Cardinality(Cells) <= Cardinality(UI \cup UB)
      BY <1>4, <2>2, FS_Subset
    <3>2. Cardinality(Cells) \in Nat /\ Cardinality(UI \cup UB) \in Nat
      BY <1>4, CellsAssumption, FS_CardinalityType
    <3> HIDE DEF UI, UB
    <3>3. QED
      BY <2>1, <3>1, <3>2
  <2>3. QED
    BY <2>2
<1>7. \E c \in Cells : c \notin Value!Used(x)
  BY <1>5, <1>6
<1>8. QED
  BY <1>7 DEF Value!Free

(* New words for x leave the words of the others alone. *)
LEMMA AllocFacts ==
  ASSUME ValueTypes, NEW x \in Ints \cup Bigs, NEW n \in Int, Value!Alloc(x, n)
  PROVE  /\ v_heap' \in [Cells -> Nat]
         /\ \A c \in Cells \cap Value!Used(x) : v_heap'[c] = v_heap[c]
         /\ Value!Fresh(x, n) \in Value!Num /\ Wide(Value!Fresh(x, n))
         /\ Value!Fresh(x, n).cell # 0 => Value!Fresh(x, n).cell \notin Value!Used(x)
<1>1. v_heap' \in [Cells -> Nat] /\ \A c \in Cells \cap Value!Used(x) : v_heap'[c] = v_heap[c]
  BY DEF Value!Alloc, Value!Abs, Value!Garbage, ValueTypes
<1>2. Value!Free(x) \in Cells /\ Value!Free(x) \notin Value!Used(x)
  BY SomeFree
<1>3. CASE n = 0
  BY <1>1, <1>3, NumFacts DEF Value!Fresh
<1>4. CASE n # 0
  <2>1. Value!Fresh(x, n) = [neg |-> n < 0, len |-> 1, cell |-> Value!Free(x)]
    BY <1>4 DEF Value!Fresh
  <2>2. QED
    BY <1>1, <1>2, <2>1 DEF Value!Num, Wide
<1>5. QED
  BY <1>3, <1>4

LEMMA SetFacts ==
  ASSUME ValueInv, NEW v \in Ints, NEW n \in Int, Value!Set(v, n)
  PROVE  ValueInv' /\ v_assigned' = v /\ \A u \in Ints \ {v} : Unaffected(u)
<1>1. /\ Value!Alloc(v, n) /\ v_int' = [v_int EXCEPT ![v] = Value!Fresh(v, n)]
      /\ v_assigned' = v /\ v_shared' = v_shared \ {v} /\ v_big' = v_big
  BY DEF Value!Set
<1>2. /\ v_heap' \in [Cells -> Nat]
      /\ \A c \in Cells \cap Value!Used(v) : v_heap'[c] = v_heap[c]
      /\ Value!Fresh(v, n) \in Value!Num /\ Wide(Value!Fresh(v, n))
      /\ Value!Fresh(v, n).cell # 0 => Value!Fresh(v, n).cell \notin Value!Used(v)
  BY <1>1, AllocFacts DEF ValueInv
<1>3. /\ \A u \in Ints \ {v} : v_int'[u] = v_int[u] /\ v_int[u].cell \in Value!Used(v)
      /\ \A b \in Bigs : v_big[b].cell \in Value!Used(v)
      /\ v_int'[v] = Value!Fresh(v, n)
  BY <1>1, CellsAssumption DEF Value!Used, ValueInv, ValueTypes
<1>4. ASSUME NEW u \in Ints \ {v} PROVE Unaffected(u)
  <2>1. v_int[u].len = 0 \/ v_int[u].cell \in Cells \cap Value!Used(v)
    BY <1>3, NumFacts DEF ValueInv, ValueTypes, Wide
  <2>2. QED
    BY <1>2, <1>3, <2>1 DEF Unaffected, Value!Val
<1>5. ValueTypes'
  <2>1. v_int' \in [Ints -> Value!Num]
    BY <1>1, <1>2 DEF ValueInv, ValueTypes
  <2>2. \A u \in Ints : Wide(v_int'[u])
    BY <1>2, <1>3 DEF ValueInv, ValueTypes
  <2>3. QED
    BY <1>1, <1>2, <2>1, <2>2 DEF ValueInv, ValueTypes, Wide, Value!Num, Value!Nil
<1>6. OwnCells'
  <2> SUFFICES ASSUME NEW u \in Ints \ v_shared', NEW b \in Bigs, v_int'[u].cell = v_big[b].cell
               PROVE  v_int'[u].cell = 0
    BY <1>1 DEF OwnCells
  <2>1. CASE u = v
    BY <1>2, <1>3, <2>1
  <2>2. CASE u # v
    BY <1>1, <1>3, <2>2 DEF ValueInv, OwnCells
  <2>3. QED
    BY <2>1, <2>2
<1>7. QED
  BY <1>1, <1>4, <1>5, <1>6 DEF ValueInv

LEMMA KeepFacts ==
  ASSUME ValueInv, NEW v \in Ints, Value!Keep(v)
  PROVE  ValueInv' /\ \A u \in Ints : Unaffected(u)
BY DEF Value!Keep, ValueInv, ValueTypes, OwnCells, Unaffected, Wide, Value!Num, Value!Nil,
       Value!Zero

(* Taking over a number, of an Int or, as shared, of a *big.Int. *)
LEMMA TakeFacts ==
  ASSUME ValueInv, NEW v \in Ints, NEW x \in Value!Num, Wide(x),
         v_int' = [v_int EXCEPT ![v] = x], UNCHANGED <<v_heap, v_big>>,
         \/ v_shared' = v_shared \cup {v}
         \/ /\ v_shared' = v_shared \ {v}
            /\ \A b \in Bigs : x.cell = v_big[b].cell => x.cell = 0
  PROVE  ValueInv' /\ \A u \in Ints \ {v} : Unaffected(u)
<1>1. v_int'[v] = x /\ \A u \in Ints \ {v} : v_int'[u] = v_int[u]
  BY DEF ValueInv, ValueTypes
<1>2. ValueTypes'
  BY <1>1 DEF ValueInv, ValueTypes, Wide, Value!Num, Value!Nil
<1>3. OwnCells'
  BY ZenonT(30), <1>1 DEF ValueInv, OwnCells
<1>4. QED
  BY <1>1, <1>2, <1>3 DEF ValueInv, Unaffected

(* Values are integers. *)
LEMMA ValIsInt ==
  ASSUME ValueInv
  PROVE  /\ \A v \in Ints : Value!Value(v) \in Int
         /\ \A b \in Bigs : Value!Val(v_heap, v_big[b]) \in Int
<1>1. \A v \in Ints : v_int[v].len = 0 \/ v_heap[v_int[v].cell] \in Int
  BY NumFacts DEF ValueInv, ValueTypes, Wide
<1>2. \A b \in Bigs : v_big[b].len = 0 \/ v_heap[v_big[b].cell] \in Int
  <2>1. \A b \in Bigs : v_big[b].len \in {0, 1}
    BY NumFacts DEF ValueInv, ValueTypes
  <2>2. QED
    BY <2>1 DEF ValueInv, ValueTypes, Wide
<1>3. QED
  BY <1>1, <1>2 DEF Value!Value, Value!Val

LEMMA BigIntFacts ==
  ASSUME ValueInv, NEW b \in Bigs, NEW n \in Int, Value!Alloc(b, n),
         v_big' = [v_big EXCEPT ![b] = Value!Fresh(b, n)], UNCHANGED <<v_int, v_shared>>
  PROVE  ValueInv' /\ \A u \in Ints : Unaffected(u)
<1>1. /\ v_heap' \in [Cells -> Nat]
      /\ \A c \in Cells \cap Value!Used(b) : v_heap'[c] = v_heap[c]
      /\ Value!Fresh(b, n) \in Value!Num /\ Wide(Value!Fresh(b, n))
      /\ Value!Fresh(b, n).cell # 0 => Value!Fresh(b, n).cell \notin Value!Used(b)
  BY AllocFacts DEF ValueInv
<1>2. /\ \A u \in Ints : v_int[u].cell \in Value!Used(b)
      /\ v_big'[b] = Value!Fresh(b, n) /\ \A d \in Bigs \ {b} : v_big'[d] = v_big[d]
  BY CellsAssumption DEF Value!Used, ValueInv, ValueTypes
<1>3. ASSUME NEW u \in Ints PROVE Unaffected(u)
  <2>1. v_int[u].len = 0 \/ v_int[u].cell \in Cells \cap Value!Used(b)
    BY <1>2, NumFacts DEF ValueInv, ValueTypes, Wide
  <2>2. QED
    BY <1>1, <2>1 DEF Unaffected, Value!Val
<1>4. ValueTypes'
  <2>1. v_big' \in [Bigs -> Value!Num \cup {Value!Nil}]
    BY <1>1 DEF ValueInv, ValueTypes
  <2>2. \A d \in Bigs : Wide(v_big'[d])
    BY <1>1, <1>2 DEF ValueInv, ValueTypes
  <2>3. QED
    BY <1>1, <2>1, <2>2 DEF ValueInv, ValueTypes, Wide, Value!Num, Value!Nil
<1>5. OwnCells'
  <2> SUFFICES ASSUME NEW u \in Ints \ v_shared, NEW d \in Bigs, v_int[u].cell = v_big'[d].cell
               PROVE  v_int[u].cell = 0
    BY DEF OwnCells
  <2>1. CASE d = b
    BY <1>1, <1>2, <2>1
  <2>2. CASE d # b
    BY <1>2, <2>2 DEF ValueInv, OwnCells
  <2>3. QED
    BY <2>1, <2>2
<1>6. QED
  BY <1>3, <1>4, <1>5 DEF ValueInv

(* What a sign and a word read as. *)
LEMMA SignedWord ==
  ASSUME NEW h, NEW y, NEW n \in Int, y.len = 1, y.neg = (n < 0), h[y.cell] = Value!Abs(n)
  PROVE  Value!Val(h, y) = n
<1>1. y.len # 0
  OBVIOUS
<1>2. Value!Val(h, y) = IF n < 0 THEN -h[y.cell] ELSE h[y.cell]
  BY <1>1, Zenon DEF Value!Val
<1>3. QED
  BY <1>2 DEF Value!Abs

(* The application computes on its *big.Int in place. *)
LEMMA MutateFacts ==
  ASSUME ValueInv, NEW b \in Bigs, NEW n \in Numbers, Value!Mutate(b, n)
  PROVE  ValueInv' /\ \A u \in Ints : Unaffected(u) \/ Along(u)
<1>1. n \in Int /\ v_big[b] \in Value!Num /\ UNCHANGED <<v_int, v_shared>>
  BY CellsAssumption DEF Value!Mutate, ValueInv, ValueTypes
<1> DEFINE x == v_big[b]
<1>2. CASE n = 0
  <2>1. v_heap' = v_heap /\ v_big' = [v_big EXCEPT ![b].len = 0, ![b].neg = FALSE]
    BY <1>2 DEF Value!Mutate
  <2>2. /\ v_big'[b] \in Value!Num /\ v_big'[b].cell = x.cell /\ v_big'[b].len = 0
        /\ \A d \in Bigs \ {b} : v_big'[d] = v_big[d]
    BY <1>1, <2>1 DEF ValueInv, ValueTypes, Value!Num
  <2>3. v_big' \in [Bigs -> Value!Num \cup {Value!Nil}]
    BY <2>1, <2>2 DEF ValueInv, ValueTypes
  <2>4. ValueTypes'
    BY <1>1, <2>1, <2>2, <2>3 DEF ValueInv, ValueTypes, Wide, Value!Num, Value!Nil
  <2>5. OwnCells'
    BY ZenonT(30), <1>1, <2>2 DEF ValueInv, OwnCells
  <2>6. QED
    BY <1>1, <2>1, <2>4, <2>5 DEF ValueInv, Unaffected
<1>3. CASE n # 0 /\ x.cell = 0
  <2>1. Value!Alloc(b, n) /\ v_big' = [v_big EXCEPT ![b] = Value!Fresh(b, n)]
    BY <1>3 DEF Value!Mutate
  <2>2. QED
    BY <1>1, <2>1, BigIntFacts
<1>4. CASE n # 0 /\ x.cell # 0
  <2>1. /\ v_heap' = [v_heap EXCEPT ![x.cell] = Value!Abs(n)]
        /\ v_big' = [v_big EXCEPT ![b].len = 1, ![b].neg = n < 0]
    BY <1>4 DEF Value!Mutate
  <2>2. x.cell \in Cells
    BY <1>1, <1>4, NumFacts
  <2>3. /\ v_big'[b] \in Value!Num /\ v_big'[b].cell = x.cell
        /\ \A d \in Bigs \ {b} : v_big'[d] = v_big[d]
    <3> DEFINE neg == n < 0
    <3>1. neg \in BOOLEAN
      OBVIOUS
    <3>2. v_big' = [v_big EXCEPT ![b].len = 1, ![b].neg = neg]
      BY <2>1
    <3> HIDE DEF neg
    <3>3. v_big'[b] = [x EXCEPT !.len = 1, !.neg = neg]
      BY <3>2 DEF ValueInv, ValueTypes
    <3>4. v_big'[b] \in Value!Num /\ v_big'[b].cell = x.cell
      BY <1>1, <3>1, <3>3 DEF Value!Num
    <3>5. QED
      BY <3>2, <3>4 DEF ValueInv, ValueTypes
  <2>4. v_heap' \in [Cells -> Nat] /\ \A c \in Cells \ {x.cell} : v_heap'[c] = v_heap[c]
    <3>1. Value!Abs(n) \in Nat
      BY <1>1 DEF Value!Abs
    <3>2. QED
      BY <2>1, <2>2, <3>1 DEF ValueInv, ValueTypes
  <2>5. v_big' \in [Bigs -> Value!Num \cup {Value!Nil}] /\ \A d \in Bigs : Wide(v_big'[d])
    <3>1. v_big' \in [Bigs -> Value!Num \cup {Value!Nil}]
      BY <2>1, <2>3 DEF ValueInv, ValueTypes
    <3>2. QED
      BY <2>2, <2>3, <3>1 DEF ValueInv, ValueTypes, Wide
  <2>6. ValueTypes'
    BY <1>1, <2>4, <2>5 DEF ValueInv, ValueTypes, Wide, Value!Num, Value!Nil
  <2>7. OwnCells'
    BY <1>1, <2>3 DEF ValueInv, OwnCells
  <2>8. ASSUME NEW u \in Ints, ~Unaffected(u) PROVE Along(u)
    <3>1. v_int[u].len = 1 /\ v_int[u].cell \in Cells
      BY <1>1, <2>8, NumFacts DEF ValueInv, ValueTypes, Wide, Unaffected, Value!Val
    <3>2. v_int[u].cell = x.cell /\ v_heap'[x.cell] # v_heap[x.cell]
      BY <1>1, <2>4, <2>8, <3>1 DEF Unaffected, Value!Val
    <3>3. u \in v_shared
      BY <1>4, <3>2 DEF ValueInv, OwnCells
    <3>4. v_heap'[x.cell] = Value!Abs(n) /\ v_heap[x.cell] \in Nat
      BY <2>1, <2>2 DEF ValueInv, ValueTypes
    <3>5. v_big'[b].len = 1 /\ v_big'[b].neg = (n < 0) /\ v_big'[b].cell = x.cell
      <4> DEFINE neg == n < 0
      <4>1. v_big' = [v_big EXCEPT ![b].len = 1, ![b].neg = neg]
        BY <2>1
      <4> HIDE DEF neg
      <4>2. v_big'[b] = [x EXCEPT !.len = 1, !.neg = neg]
        BY <4>1 DEF ValueInv, ValueTypes
      <4>3. v_big'[b].len = 1 /\ v_big'[b].neg = neg
        BY <1>1, <4>2 DEF Value!Num
      <4>4. QED
        BY <2>3, <4>3 DEF neg
    <3>6. Value!Val(v_heap', v_big'[b]) = n
      BY <1>1, <3>4, <3>5, SignedWord
    <3>7. Value!Val(v_heap, x) # n
      BY <1>1, <1>4, <3>2, <3>4 DEF Value!Val, Value!Abs
    <3>8. QED
      BY <3>2, <3>3, <3>6, <3>7 DEF Along
  <2>9. QED
    BY <2>6, <2>7, <2>8 DEF ValueInv
<1>5. QED
  BY <1>2, <1>3, <1>4

(* One operation on the Int v. *)
ValueOperation(v) ==
  \/ \E n \in Numbers : Value!New(v, n)
  \/ \E w \in Ints : Value!SetBytes(v, w) \/ Value!Assign(v, w)
  \/ \E w, x \in Ints : Value!Arithmetic(v, w, x)
  \/ \E b \in Bigs : Value!NewIntFromBigInt(v, b) \/ Value!SetBigInt(v, b)
  \/ \E t \in Texts : \/ Value!NewIntFromString(v, t) \/ Value!SetString(v, t)
                      \/ Value!UnmarshalText(v, t) \/ Value!UnmarshalJSON(v, t)
  \/ Value!Scan(v)

LEMMA OperationFacts ==
  ASSUME ValueInv, NEW v \in Ints, ValueOperation(v)
  PROVE  ValueInv' /\ v_assigned' = v /\ \A u \in Ints \ {v} : Unaffected(u)
<1> DEFINE Done == ValueInv' /\ v_assigned' = v /\ \A u \in Ints \ {v} : Unaffected(u)
<1>1. ASSUME \E n \in Int : Value!Set(v, n) PROVE Done
  BY <1>1, SetFacts
<1>2. ASSUME Value!Keep(v) PROVE Done
  BY <1>2, KeepFacts DEF Value!Keep
<1> SUFFICES Done
  OBVIOUS
<1> HIDE DEF Done
<1>3. CASE \E n \in Numbers : Value!New(v, n)
  BY <1>1, <1>3, CellsAssumption DEF Value!New
<1>4. CASE \E w \in Ints : Value!SetBytes(v, w)
  <2>1. PICK w \in Ints : Value!Set(v, Value!Abs(Value!Value(w)))
    BY <1>4 DEF Value!SetBytes
  <2>2. Value!Abs(Value!Value(w)) \in Int
    BY ValIsInt DEF Value!Abs
  <2>3. QED
    BY <1>1, <2>1, <2>2
<1>5. CASE \E w \in Ints : Value!Assign(v, w)
  <2>1. PICK w \in Ints : Value!Assign(v, w)
    BY <1>5
  <2>2. v_int[w] \in Value!Num /\ Wide(v_int[w])
    BY DEF ValueInv, ValueTypes
  <2>3. \/ v_shared' = v_shared \cup {v}
        \/ /\ v_shared' = v_shared \ {v}
           /\ \A b \in Bigs : v_int[w].cell = v_big[b].cell => v_int[w].cell = 0
    BY <2>1 DEF Value!Assign, ValueInv, OwnCells
  <2>4. /\ v_int' = [v_int EXCEPT ![v] = v_int[w]] /\ v_assigned' = v
        /\ UNCHANGED <<v_heap, v_big>>
    BY <2>1 DEF Value!Assign
  <2>5. QED
    BY <2>2, <2>3, <2>4, TakeFacts DEF Done
<1>6. CASE \E w, x \in Ints : Value!Arithmetic(v, w, x)
  <2>1. Value!Keep(v) \/ \E n \in Numbers : Value!Set(v, n)
    BY <1>6 DEF Value!Arithmetic
  <2>2. QED
    BY <1>1, <1>2, <2>1, CellsAssumption
<1>7. CASE \E b \in Bigs : Value!NewIntFromBigInt(v, b) \/ Value!SetBigInt(v, b)
  <2>1. PICK b \in Bigs : Value!NewIntFromBigInt(v, b) \/ Value!SetBigInt(v, b)
    BY <1>7
  <2>2. CASE v_big[b] = Value!Nil
    <3>1. \/ Value!Set(v, 0)
          \/ /\ v_int' = [v_int EXCEPT ![v] = Value!Zero] /\ v_assigned' = v
             /\ v_shared' = v_shared \ {v} /\ UNCHANGED <<v_heap, v_big>>
      BY <2>1, <2>2 DEF Value!NewIntFromBigInt, Value!SetBigInt
    <3>2. QED
      BY <1>1, <3>1, NumFacts, TakeFacts DEF Done
  <2>3. CASE v_big[b] # Value!Nil /\ Value!SetBigInt(v, b)
    BY <1>1, <2>3, ValIsInt DEF Value!SetBigInt
  <2>4. CASE v_big[b] # Value!Nil /\ Value!NewIntFromBigInt(v, b)
    <3>1. v_big[b] \in Value!Num /\ Wide(v_big[b])
      BY <2>4 DEF ValueInv, ValueTypes
    <3>2. /\ v_int' = [v_int EXCEPT ![v] = v_big[b]] /\ v_shared' = v_shared \cup {v}
          /\ v_assigned' = v /\ UNCHANGED <<v_heap, v_big>>
      BY <2>4 DEF Value!NewIntFromBigInt
    <3>3. QED
      BY <3>1, <3>2, TakeFacts DEF Done
  <2>5. QED
    BY <2>1, <2>2, <2>3, <2>4
<1>8. CASE \E t \in Texts : \/ Value!NewIntFromString(v, t) \/ Value!SetString(v, t)
                           \/ Value!UnmarshalText(v, t) \/ Value!UnmarshalJSON(v, t)
  <2>1. PICK t \in Texts : \/ Value!NewIntFromString(v, t) \/ Value!SetString(v, t)
                           \/ Value!UnmarshalText(v, t) \/ Value!UnmarshalJSON(v, t)
    BY <1>8
  <2>2. Value!Keep(v) \/ \E n \in t.dec \cup t.auto \cup t.json \cup {0} : Value!Set(v, n)
    BY <2>1 DEF Value!NewIntFromString, Value!SetString, Value!UnmarshalText,
                Value!UnmarshalJSON, Value!Parse
  <2>3. t.dec \cup t.auto \cup t.json \cup {0} \subseteq Int
    BY CellsAssumption
  <2>4. QED
    BY <1>1, <1>2, <2>2, <2>3
<1>9. CASE Value!Scan(v)
  BY <1>1, <1>2, <1>9, CellsAssumption DEF Value!Scan
<1>10. QED
  BY <1>3, <1>4, <1>5, <1>6, <1>7, <1>8, <1>9 DEF ValueOperation

LEMMA ValueStep ==
  ASSUME ValueInv, [Value!Next]_(Value!vars)
  PROVE  /\ ValueInv'
         /\ \A v \in Ints : Unaffected(v) \/ v_assigned' = v \/ Along(v)
<1>1. CASE UNCHANGED Value!vars
  BY <1>1 DEF Value!vars, ValueInv, ValueTypes, OwnCells, Unaffected, Wide, Value!Num,
              Value!Nil, Value!Zero
<1>2. CASE \E v \in Ints : ValueOperation(v)
  BY <1>2, OperationFacts
<1>3. CASE \E v \in Ints, b \in Bigs : Value!BigInt(b, v)
  <2>1. PICK v \in Ints, b \in Bigs : Value!BigInt(b, v)
    BY <1>3
  <2>2. Value!Value(v) \in Int
    BY ValIsInt
  <2>3. QED
    BY <2>1, <2>2, BigIntFacts DEF Value!BigInt
<1>4. CASE \E b \in Bigs, n \in Numbers : Value!Mutate(b, n)
  BY <1>4, MutateFacts
<1>5. CASE Value!Next
  BY <1>2, <1>3, <1>4, <1>5 DEF Value!Next, ValueOperation
<1>6. QED
  BY <1>1, <1>5

(* An Int changes its value only by an operation on it: what becomes of the *)
(* *big.Ints that it was set from or that it handed out does not matter.    *)
(* One that NewIntFromBigInt made, or a copy of it, changes only together   *)
(* with a *big.Int that has its words.                                      *)
THEOREM IntsOwnTheirWords == Value!Spec => OwnWords
<1>1. Value!Init => ValueInv
  BY NumFacts DEF Value!Init, ValueInv, ValueTypes, OwnCells, Value!Garbage
<1>2. ValueInv /\ [Value!Next]_(Value!vars) => ValueInv'
  BY ValueStep
<1>3. ValueInv /\ [Value!Next]_(Value!vars) =>
        [\A v \in Ints : Value!Val(v_heap', v_int'[v]) # Value!Value(v)
          => \/ v_assigned' = v
             \/ v \in v_shared /\ \E b \in Bigs :
                  /\ v_big[b].cell = v_int[v].cell
                  /\ Value!Val(v_heap', v_big'[b]) # Value!Val(v_heap, v_big[b])]_(Value!vars)
  BY ValueStep DEF Unaffected, Along, Value!Value
<1>4. QED
  BY <1>1, <1>2, <1>3, PTL DEF Value!Spec, OwnWords, Value!OwnWords

-----------------------------------------------------------------------------
(* The chain of HTTP middlewares.  While a request is on its way, each      *)
(* middleware is on the chain once.                                         *)
HTTPTypes ==
  /\ h_chain \in Seq(Middlewares)
  /\ \A p, q \in DOMAIN h_chain : h_chain[p] = h_chain[q] => p = q
  /\ h_phase \in {"routes", "handler", "error", "up", "done"}
  /\ h_pos \in Nat /\ h_pos <= Len(h_chain) + 1
  /\ h_phase = "routes" => h_pos = 0 /\ h_wrote = FALSE
  /\ h_phase \in {"handler", "error"} => h_pos = Len(h_chain) + 1
  /\ h_phase = "up" => h_pos <= Len(h_chain)
  /\ h_phase = "done" => h_pos = 0
  /\ h_err \in Errors \cup {HTTP!NoError}
  /\ h_panic \in BOOLEAN /\ h_sent \in Int /\ h_ww \in Int

(* What the two writers have: the code of chi's is the one sent, unless it  *)
(* has none or one that could not be sent, and inside the logger nothing is *)
(* sent that it does not have.                                              *)
HTTPWriters ==
  /\ HTTP!Outside("logger") /\ h_ww = 0 => h_sent = 0
  /\ h_ww \notin {0, -1} => h_sent = h_ww
  /\ h_logged # HTTP!NotLogged =>
       h_logged = h_ww /\ ~HTTP!Outside("logger") /\ h_phase \in {"up", "done"}

Recoverable ==
  h_panicked /\ ~h_wrote /\ HTTP!Has("recoverer") /\ ~HTTP!Before("recoverer", "sentry")

(* What became of a failure: an error was answered as such; a panic         *)
(* unwinds the stack as far as the Recoverer, which answers it with 500.    *)
HTTPFailures ==
  /\ h_phase \in {"routes", "handler", "error"} => ~h_panic /\ ~h_panicked
  /\ h_phase \in {"routes", "handler", "error"} /\ ~h_wrote => h_sent = 0 /\ h_ww = 0
  /\ h_phase \in {"routes", "handler"} \/ h_panicked => h_err = HTTP!NoError
  /\ /\ h_phase \in {"up", "done"} /\ ~h_wrote
     /\ h_err # HTTP!NoError /\ HTTP!KnownType(h_err)
     => h_sent >= 400
  /\ h_phase \in {"up", "done"} /\ Recoverable =>
       \A p \in DOMAIN h_chain : h_chain[p] = "recoverer" =>
         \/ p <= h_pos /\ h_panic /\ h_sent = 0 /\ h_ww = 0
         \/ p > h_pos /\ ~h_panic /\ h_sent = 500

HTTPInv == HTTPTypes /\ HTTPWriters /\ HTTPFailures

(* The codes that are written: an HTTP error's own, and those of            *)
(* ProblemStatus.                                                           *)
Failure(code) == code \in Int /\ 400 <= code /\ code <= 599

LEMMA StatusFacts ==
  ASSUME NEW e \in Errors \cup {HTTP!NoError}
  PROVE  /\ Failure(HTTP!ProblemStatus(e)) \/ HTTP!ProblemStatus(e) = -1
         /\ HTTP!KnownType(e) => Failure(HTTP!ProblemStatus(e))
         /\ "http" \in e.kinds => Failure(e.code)
<1> DEFINE st == HTTP!HTTPStatus(e.type)
           ks == e.kinds
<1>1. Failure(400) /\ Failure(500) /\ (Failure(st) \/ st = -1) /\ ~Failure(-1)
  BY DEF HTTP!HTTPStatus, Failure
<1>2. /\ HTTP!ProblemStatus(e) \in {400, 500, st}
      /\ "app" \notin ks => HTTP!ProblemStatus(e) \in {400, 500}
  <2> HIDE DEF st
  <2> QED
    BY DEF HTTP!ProblemStatus, st
<1>3. "http" \in ks => Failure(e.code)
  BY StatusAssumption DEF HTTP!NoError, Failure
<1> HIDE DEF st, ks
<1>4. QED
  BY <1>1, <1>2, <1>3 DEF HTTP!KnownType, st, ks

(* What writing a header comes to: the first code counts, and inside the    *)
(* logger it is the one that chi's writer keeps.                            *)
Written(code) ==
  /\ h_ww' \in Int /\ h_sent' \in Int /\ h_panic' \in BOOLEAN
  /\ h_ww' \notin {0, -1} => h_sent' = h_ww'
  /\ HTTP!Outside("logger") => h_ww' # 0
  /\ HTTP!Outside("logger") /\ h_ww = 0 => h_ww' = code
  /\ ~HTTP!Outside("logger") \/ h_ww # 0 => h_ww' = h_ww
  /\ h_sent # 0 => h_sent' = h_sent
  /\ h_sent = 0 /\ h_ww = 0 /\ code # -1 => h_sent' = code
  /\ code # -1 => ~h_panic'

LEMMA WriteFacts ==
  ASSUME HTTPTypes, HTTPWriters, NEW code, HTTP!Write(code),
         code = 200 \/ Failure(code) \/ code = -1
  PROVE  Written(code)
<1> DEFINE wrapped == HTTP!Outside("logger")
           valid == HTTP!Valid(code)
<1>1. /\ h_ww' = IF wrapped /\ h_ww = 0 THEN code ELSE h_ww
      /\ h_sent' = IF (~wrapped \/ h_ww = 0) /\ h_sent = 0 /\ ~valid THEN h_sent
                   ELSE IF h_sent = 0 THEN IF ~wrapped \/ h_ww = 0 THEN code ELSE 200
                   ELSE h_sent
  BY DEF HTTP!Write, HTTP!First
<1>2. /\ wrapped /\ h_ww = 0 => h_sent = 0
      /\ h_ww \notin {0, -1} => h_sent = h_ww
      /\ h_sent \in Int /\ h_ww \in Int
  BY DEF HTTPTypes, HTTPWriters
<1>3. code \in Int /\ (code # -1 => valid)
  BY DEF HTTP!Valid, Failure
<1>4. h_panic' \in BOOLEAN /\ (code # -1 => ~h_panic')
  <2>1. h_panic' = ((~wrapped \/ h_ww = 0) /\ h_sent = 0 /\ ~valid)
    BY DEF HTTP!Write
  <2>2. (~wrapped \/ h_ww = 0) /\ h_sent = 0 /\ ~valid => code = -1
    BY <1>3
  <2> HIDE DEF wrapped, valid
  <2>3. QED
    BY <2>1, <2>2
<1> HIDE DEF wrapped, valid
<1>5. /\ h_ww' \in Int /\ h_sent' \in Int
      /\ h_ww' \notin {0, -1} => h_sent' = h_ww'
      /\ wrapped => h_ww' # 0
      /\ wrapped /\ h_ww = 0 => h_ww' = code
      /\ ~wrapped \/ h_ww # 0 => h_ww' = h_ww
      /\ h_sent # 0 => h_sent' = h_sent
      /\ h_sent = 0 /\ h_ww = 0 /\ code # -1 => h_sent' = code
  <2>1. CASE wrapped
    <3>1. code # 0
      BY DEF Failure
    <3>2. QED
      BY <1>1, <1>2, <1>3, <2>1, <3>1
  <2>2. CASE ~wrapped
    BY <1>1, <1>2, <1>3, <2>2
  <2>3. QED
    BY <2>1, <2>2
<1>6. QED
  BY <1>4, <1>5 DEF wrapped, Written

(* On its way up a request is outside ever fewer middlewares. *)
LEMMA OutsideShrinks ==
  ASSUME HTTPTypes, h_chain' = h_chain, h_pos' \in Int, h_pos' <= h_pos
  PROVE  HTTP!Outside("logger")' => HTTP!Outside("logger")
BY DEF HTTPTypes, HTTP!Outside

(* Where a request may be once the chain is fixed. *)
LEMMA TypesKept ==
  ASSUME HTTPTypes, h_chain' = h_chain, h_err' \in Errors \cup {HTTP!NoError},
         h_panic' \in BOOLEAN, h_ww' \in Int, h_sent' \in Int, h_pos' \in Nat,
         \/ h_phase' \in {"handler", "error"} /\ h_pos' = Len(h_chain) + 1
         \/ h_phase' = "up" /\ h_pos' <= Len(h_chain)
         \/ h_phase' = "done" /\ h_pos' = 0
  PROVE  HTTPTypes'
<1>1. /\ h_chain' \in Seq(Middlewares) /\ Len(h_chain) \in Nat
      /\ \A p, q \in DOMAIN h_chain' : h_chain'[p] = h_chain'[q] => p = q
  BY DEF HTTPTypes
<1>2. /\ h_phase' \in {"routes", "handler", "error", "up", "done"}
      /\ h_pos' <= Len(h_chain') + 1
      /\ h_phase' # "routes"
      /\ h_phase' \in {"handler", "error"} => h_pos' = Len(h_chain') + 1
      /\ h_phase' = "up" => h_pos' <= Len(h_chain')
      /\ h_phase' = "done" => h_pos' = 0
  BY <1>1
<1>3. h_err' \in Errors \cup {HTTP!NoError'}
  BY DEF HTTP!NoError
<1>4. QED
  BY <1>1, <1>2, <1>3 DEF HTTPTypes

(* One middleware up. *)
LEMMA UpTypes ==
  ASSUME HTTPTypes, h_pos \in DOMAIN h_chain, h_pos' = h_pos - 1, h_phase' = "up",
         UNCHANGED <<h_chain, h_err>>, h_panic' \in BOOLEAN, h_ww' \in Int, h_sent' \in Int
  PROVE  HTTPTypes'
<1>1. h_pos' \in Nat /\ h_pos' <= Len(h_chain)
  BY DEF HTTPTypes
<1>2. h_err' \in Errors \cup {HTTP!NoError}
  BY DEF HTTPTypes
<1>3. QED
  BY <1>1, <1>2, TypesKept

LEMMA HTTPUse ==
  ASSUME HTTPInv, NEW m \in Middlewares, HTTP!Use(m)
  PROVE  HTTPInv'
<1>1. /\ h_phase = "routes" /\ ~HTTP!Has(m) /\ h_chain' = Append(h_chain, m)
      /\ UNCHANGED <<h_pos, h_phase, h_err, h_panic, h_panicked, h_wrote, h_ww, h_sent, h_logged>>
  BY DEF HTTP!Use
<1>2. /\ h_chain' \in Seq(Middlewares) /\ Len(h_chain') = Len(h_chain) + 1
      /\ \A p, q \in DOMAIN h_chain' : h_chain'[p] = h_chain'[q] => p = q
  BY <1>1 DEF HTTPInv, HTTPTypes, HTTP!Has
<1>3. HTTPTypes'
  BY <1>1, <1>2 DEF HTTPInv, HTTPTypes, HTTP!NoError
<1>4. h_pos = 0 /\ h_sent = 0
  BY <1>1 DEF HTTPInv, HTTPTypes, HTTPFailures
<1>5. HTTPWriters'
  BY <1>1, <1>2, <1>4 DEF HTTPInv, HTTPWriters, HTTP!Outside, HTTP!NotLogged
<1>6. HTTPFailures'
  BY <1>1 DEF HTTPInv, HTTPFailures, HTTP!NoError
<1>7. QED
  BY <1>3, <1>5, <1>6 DEF HTTPInv

LEMMA HTTPServe ==
  ASSUME HTTPInv, HTTP!ServeHTTP
  PROVE  HTTPInv'
<1>1. /\ h_phase = "routes" /\ h_phase' = "handler" /\ h_pos' = Len(h_chain) + 1
      /\ UNCHANGED <<h_chain, h_err, h_panic, h_panicked, h_wrote, h_ww, h_sent, h_logged>>
  BY DEF HTTP!ServeHTTP
<1>2. HTTPTypes'
  <2>1. /\ h_err' \in Errors \cup {HTTP!NoError} /\ h_panic' \in BOOLEAN
        /\ h_ww' \in Int /\ h_sent' \in Int /\ h_pos' \in Nat
    BY <1>1 DEF HTTPInv, HTTPTypes
  <2>2. QED
    BY <1>1, <2>1, TypesKept DEF HTTPInv
<1>3. h_sent = 0 /\ h_ww = 0 /\ h_logged = HTTP!NotLogged
  BY <1>1 DEF HTTPInv, HTTPTypes, HTTPWriters, HTTPFailures
<1>4. HTTPWriters'
  BY <1>1, <1>3 DEF HTTPWriters, HTTP!NotLogged
<1>5. HTTPFailures'
  BY <1>1, <1>3 DEF HTTPInv, HTTPFailures, HTTP!NoError
<1>6. QED
  BY <1>2, <1>4, <1>5 DEF HTTPInv

LEMMA HTTPHandler ==
  ASSUME HTTPInv,
         \/ HTTP!HandlerWrites \/ HTTP!HandlerPanics
         \/ \E e \in Errors \cup {HTTP!NoError} : HTTP!HandlerReturns(e)
  PROVE  HTTPInv'
<1>1. h_phase = "handler" /\ h_chain' = h_chain /\ h_logged' = h_logged
  BY DEF HTTP!HandlerWrites, HTTP!HandlerPanics, HTTP!HandlerReturns
<1>2. /\ h_pos = Len(h_chain) + 1 /\ Len(h_chain) \in Nat /\ h_logged = HTTP!NotLogged
      /\ ~h_panic /\ ~h_panicked /\ h_err = HTTP!NoError
      /\ ~h_wrote => h_sent = 0 /\ h_ww = 0
  BY <1>1 DEF HTTPInv, HTTPTypes, HTTPWriters, HTTPFailures
<1>3. CASE HTTP!HandlerWrites
  <2>1. /\ HTTP!Write(200) /\ h_wrote' = TRUE
        /\ UNCHANGED <<h_pos, h_phase, h_err, h_panicked>>
    BY <1>3 DEF HTTP!HandlerWrites
  <2>2. /\ h_ww' \in Int /\ h_sent' \in Int /\ h_panic' \in BOOLEAN /\ ~h_panic'
        /\ h_ww' \notin {0, -1} => h_sent' = h_ww'
        /\ HTTP!Outside("logger") => h_ww' # 0
    BY <2>1, WriteFacts DEF HTTPInv, Written
  <2>3. HTTPTypes'
    <3>1. h_err' \in Errors \cup {HTTP!NoError} /\ h_pos' \in Nat
      BY <2>1 DEF HTTPInv, HTTPTypes
    <3>2. QED
      BY <1>1, <1>2, <2>1, <2>2, <3>1, TypesKept DEF HTTPInv
  <2>4. HTTPWriters'
    BY <1>1, <1>2, <2>1, <2>2 DEF HTTPWriters, HTTP!Outside, HTTP!NotLogged
  <2>5. HTTPFailures'
    BY <1>1, <1>2, <2>1, <2>2 DEF HTTPFailures, HTTP!NoError
  <2>6. QED
    BY <2>3, <2>4, <2>5 DEF HTTPInv
<1>4. CASE HTTP!HandlerPanics
  <2>1. /\ h_panic' = TRUE /\ h_panicked' = TRUE /\ h_phase' = "up" /\ h_pos' = h_pos - 1
        /\ UNCHANGED <<h_err, h_wrote, h_ww, h_sent>>
    BY <1>4 DEF HTTP!HandlerPanics
  <2>2. HTTPTypes'
    <3>1. /\ h_err' \in Errors \cup {HTTP!NoError} /\ h_panic' \in BOOLEAN
          /\ h_ww' \in Int /\ h_sent' \in Int
      BY <2>1 DEF HTTPInv, HTTPTypes
    <3>2. h_pos' \in Nat /\ h_pos' <= Len(h_chain)
      BY <1>2, <2>1
    <3>3. QED
      BY <1>1, <2>1, <3>1, <3>2, TypesKept DEF HTTPInv
  <2>3. HTTP!Outside("logger")' => HTTP!Outside("logger")
    BY <1>1, <1>2, <2>1, OutsideShrinks DEF HTTPInv
  <2>4. HTTPWriters'
    BY <1>1, <1>2, <2>1, <2>3 DEF HTTPInv, HTTPWriters, HTTP!NotLogged
  <2>5. HTTPFailures'
    BY <1>1, <1>2, <2>1 DEF HTTPInv, HTTPTypes, HTTPFailures, Recoverable, HTTP!NoError
  <2>6. QED
    BY <2>2, <2>4, <2>5 DEF HTTPInv
<1>5. CASE \E e \in Errors \cup {HTTP!NoError} : HTTP!HandlerReturns(e)
  <2>1. PICK e \in Errors \cup {HTTP!NoError} : HTTP!HandlerReturns(e)
    BY <1>5
  <2>2. /\ h_err' = e
        /\ h_phase' = IF e = HTTP!NoError THEN "up" ELSE "error"
        /\ h_pos' = IF e = HTTP!NoError THEN h_pos - 1 ELSE h_pos
        /\ UNCHANGED <<h_panic, h_panicked, h_wrote, h_ww, h_sent>>
    BY <2>1 DEF HTTP!HandlerReturns
  <2>3. HTTPTypes'
    <3>1. h_panic' \in BOOLEAN /\ h_ww' \in Int /\ h_sent' \in Int
      BY <2>2 DEF HTTPInv, HTTPTypes
    <3>2. /\ h_pos' \in Nat
          /\ \/ h_phase' = "error" /\ h_pos' = Len(h_chain) + 1
             \/ h_phase' = "up" /\ h_pos' <= Len(h_chain)
      BY <1>2, <2>2
    <3>3. QED
      BY <1>1, <2>2, <3>1, <3>2, TypesKept DEF HTTPInv
  <2>4. HTTP!Outside("logger")' => HTTP!Outside("logger")
    BY <1>1, <1>2, <2>2, OutsideShrinks DEF HTTPInv
  <2>5. HTTPWriters'
    BY <1>1, <1>2, <2>2, <2>4 DEF HTTPInv, HTTPWriters, HTTP!NotLogged
  <2>6. HTTPFailures'
    BY <1>1, <1>2, <2>2 DEF HTTPFailures, Recoverable, HTTP!NoError
  <2>7. QED
    BY <2>3, <2>5, <2>6 DEF HTTPInv
<1>6. QED
  BY <1>3, <1>4, <1>5

(* The handler's error is answered. *)
LEMMA Answering ==
  ASSUME HTTPInv, HTTP!HandleError \/ HTTP!WriteErrorResponse
  PROVE  \E code : Written(code) /\ (HTTP!KnownType(h_err) => Failure(code))
<1>1. h_err \in Errors \cup {HTTP!NoError}
  BY DEF HTTPInv, HTTPTypes
<1>2. PICK code : /\ HTTP!Write(code) /\ (Failure(code) \/ code = -1)
                  /\ HTTP!KnownType(h_err) => Failure(code)
  <2>1. CASE HTTP!HandleError
    <3>1. \/ "http" \in h_err.kinds /\ HTTP!Write(h_err.code)
          \/ HTTP!Write(500)
      BY <2>1 DEF HTTP!HandleError
    <3>2. CASE "http" \in h_err.kinds /\ HTTP!Write(h_err.code)
      BY <1>1, <3>2, StatusFacts
    <3>3. CASE HTTP!Write(500)
      BY <3>3 DEF Failure
    <3>4. QED
      BY <3>1, <3>2, <3>3
  <2>2. CASE HTTP!WriteErrorResponse
    <3>1. HTTP!Write(HTTP!ProblemStatus(h_err))
      BY <2>2 DEF HTTP!WriteErrorResponse
    <3>2. QED
      BY <1>1, <3>1, StatusFacts
  <2>3. QED
    BY <2>1, <2>2
<1>3. QED
  BY <1>2, WriteFacts DEF HTTPInv

LEMMA HTTPAnswer ==
  ASSUME HTTPInv, HTTP!HandleError \/ HTTP!WriteErrorResponse
  PROVE  HTTPInv'
<1>1. /\ h_phase = "error" /\ h_phase' = "up" /\ h_pos' = h_pos - 1
      /\ UNCHANGED <<h_chain, h_err, h_panicked, h_wrote, h_logged>>
  BY DEF HTTP!HandleError, HTTP!WriteErrorResponse
<1>2. /\ h_pos = Len(h_chain) + 1 /\ Len(h_chain) \in Nat /\ h_logged = HTTP!NotLogged
      /\ ~h_panicked /\ h_err \in Errors \cup {HTTP!NoError}
      /\ ~h_wrote => h_sent = 0 /\ h_ww = 0
  BY <1>1 DEF HTTPInv, HTTPTypes, HTTPWriters, HTTPFailures
<1>3. PICK code : Written(code) /\ (HTTP!KnownType(h_err) => Failure(code))
  BY Answering
<1>4. Written(code)
  BY <1>3
<1>5. HTTPTypes'
  <2>1. h_pos' \in Nat /\ h_pos' <= Len(h_chain)
    BY <1>1, <1>2
  <2>2. QED
    BY <1>1, <1>2, <1>4, <2>1, TypesKept DEF HTTPInv, Written
<1>6. HTTP!Outside("logger")' => HTTP!Outside("logger")
  BY <1>1, <1>2, OutsideShrinks DEF HTTPInv
<1>7. HTTPWriters'
  BY <1>1, <1>2, <1>4, <1>6 DEF HTTPWriters, HTTP!NotLogged, Written
<1>8. ~h_wrote /\ HTTP!KnownType(h_err) => h_sent' >= 400
  BY <1>2, <1>3, <1>4 DEF Written, Failure
<1>9. HTTPFailures'
  BY <1>1, <1>2, <1>8 DEF HTTPFailures, Recoverable, HTTP!NoError, HTTP!KnownType, HTTP!HTTPStatus
<1>10. QED
  BY <1>5, <1>7, <1>9 DEF HTTPInv

(* The way up, and the end. *)
LEMMA HTTPRecoverer ==
  ASSUME HTTPInv, HTTP!Recoverer
  PROVE  HTTPInv'
<1>1. /\ h_phase = "up" /\ h_pos \in DOMAIN h_chain /\ h_chain[h_pos] = "recoverer"
      /\ h_pos' = h_pos - 1 /\ UNCHANGED <<h_chain, h_phase, h_err, h_panicked, h_wrote, h_logged>>
  BY DEF HTTP!Recoverer, HTTP!Up
<1>2. CASE ~h_panic
  <2>1. UNCHANGED <<h_panic, h_ww, h_sent>>
    BY <1>2 DEF HTTP!Recoverer
  <2>2. HTTPTypes'
    <3>1. h_panic' \in BOOLEAN /\ h_ww' \in Int /\ h_sent' \in Int
      BY <2>1 DEF HTTPInv, HTTPTypes
    <3>2. QED
      BY <1>1, <3>1, UpTypes DEF HTTPInv
  <2>3. HTTP!Outside("logger")' => HTTP!Outside("logger")
    BY <1>1, OutsideShrinks DEF HTTPInv, HTTPTypes
  <2>4. HTTPWriters'
    BY <1>1, <2>1, <2>3 DEF HTTPInv, HTTPWriters, HTTP!NotLogged
  <2>5. HTTPFailures'
    BY <1>1, <1>2, <2>1 DEF HTTPInv, HTTPTypes, HTTPFailures, Recoverable, HTTP!NoError, HTTP!Has,
                            HTTP!Before, HTTP!KnownType, HTTP!HTTPStatus
  <2>6. QED
    BY <2>2, <2>4, <2>5 DEF HTTPInv
<1>3. CASE h_panic
  <2>1. HTTP!Write(500)
    BY <1>3 DEF HTTP!Recoverer, HTTP!RecovererCode
  <2>2. /\ h_ww' \in Int /\ h_sent' \in Int /\ h_panic' \in BOOLEAN /\ ~h_panic'
        /\ h_ww' \notin {0, -1} => h_sent' = h_ww'
        /\ HTTP!Outside("logger") => h_ww' # 0
        /\ ~HTTP!Outside("logger") => h_ww' = h_ww
        /\ h_sent # 0 => h_sent' = h_sent
        /\ h_sent = 0 /\ h_ww = 0 => h_sent' = 500
    BY <2>1, WriteFacts DEF HTTPInv, Written, Failure
  <2>3. HTTPTypes'
    BY <1>1, <2>2, UpTypes DEF HTTPInv
  <2>4. HTTP!Outside("logger")' => HTTP!Outside("logger")
    BY <1>1, OutsideShrinks DEF HTTPInv, HTTPTypes
  <2>5. HTTPWriters'
    BY <1>1, <2>2, <2>4 DEF HTTPInv, HTTPWriters, HTTP!NotLogged
  <2>6. HTTPFailures'
    <3>1. /\ h_phase \in {"up", "done"} /\ ~h_wrote
          /\ h_err # HTTP!NoError /\ HTTP!KnownType(h_err)
          => h_sent' >= 400
      BY <2>2 DEF HTTPInv, HTTPFailures
    <3>2. ASSUME Recoverable PROVE h_sent' = 500
      BY <1>1, <1>3, <2>2, <3>2 DEF HTTPInv, HTTPTypes, HTTPFailures
    <3>3. \A p \in DOMAIN h_chain : h_chain[p] = "recoverer" => p > h_pos'
      BY <1>1 DEF HTTPInv, HTTPTypes
    <3>4. QED
      BY <1>1, <2>2, <3>1, <3>2, <3>3 DEF HTTPInv, HTTPFailures, Recoverable, HTTP!NoError,
           HTTP!Has, HTTP!Before, HTTP!KnownType, HTTP!HTTPStatus
  <2>7. QED
    BY <2>3, <2>5, <2>6 DEF HTTPInv
<1>4. QED
  BY <1>2, <1>3 DEF HTTPInv, HTTPTypes

LEMMA HTTPSentry ==
  ASSUME HTTPInv, HTTP!Sentry
  PROVE  HTTPInv'
<1>1. /\ h_phase = "up" /\ h_pos \in DOMAIN h_chain /\ h_chain[h_pos] = "sentry"
      /\ h_pos' = h_pos - 1 /\ h_panic' = FALSE
      /\ UNCHANGED <<h_chain, h_phase, h_err, h_panicked, h_wrote, h_ww, h_sent, h_logged>>
  BY DEF HTTP!Sentry, HTTP!Up
<1>2. HTTPTypes'
  <2>1. h_ww' \in Int /\ h_sent' \in Int
    BY <1>1 DEF HTTPInv, HTTPTypes
  <2>2. h_panic' \in BOOLEAN
    BY <1>1
  <2>3. QED
    BY <1>1, <2>1, <2>2, UpTypes DEF HTTPInv
<1>3. HTTP!Outside("logger")' => HTTP!Outside("logger")
  BY <1>1, OutsideShrinks DEF HTTPInv, HTTPTypes
<1>4. HTTPWriters'
  BY <1>1, <1>3 DEF HTTPInv, HTTPWriters, HTTP!NotLogged
<1>5. HTTPFailures'
  <2>1. ASSUME Recoverable, NEW p \in DOMAIN h_chain, h_chain[p] = "recoverer"
        PROVE  p > h_pos /\ h_sent = 500
    <3>1. ~(p < h_pos)
      BY <1>1, <2>1 DEF Recoverable, HTTP!Before
    <3>2. p # h_pos /\ p \in Int /\ h_pos \in Int
      BY <1>1, <2>1 DEF HTTPInv, HTTPTypes
    <3>3. QED
      BY <1>1, <2>1, <3>1, <3>2 DEF HTTPInv, HTTPFailures
  <2>2. h_pos \in Int /\ DOMAIN h_chain \subseteq Int
    BY DEF HTTPInv, HTTPTypes
  <2>3. Recoverable' => Recoverable
    BY <1>1 DEF Recoverable, HTTP!Has, HTTP!Before
  <2>4. QED
    BY <1>1, <2>1, <2>2, <2>3 DEF HTTPInv, HTTPFailures, HTTP!NoError, HTTP!KnownType,
                                 HTTP!HTTPStatus
<1>6. QED
  BY <1>2, <1>4, <1>5 DEF HTTPInv

(* The request logger and the request id middleware leave the response. *)
LEMMA HTTPPass ==
  ASSUME HTTPInv, HTTP!Logger \/ HTTP!PassBack
  PROVE  HTTPInv'
<1>1. /\ h_phase = "up" /\ h_pos \in DOMAIN h_chain /\ h_pos' = h_pos - 1
      /\ UNCHANGED <<h_chain, h_phase, h_err, h_panic, h_panicked, h_wrote, h_ww, h_sent>>
  BY DEF HTTP!Logger, HTTP!PassBack, HTTP!Up
<1>2. \/ h_chain[h_pos] = "logger" /\ h_logged' = h_ww
      \/ h_chain[h_pos] = "requestid" /\ h_logged' = h_logged
  BY DEF HTTP!Logger, HTTP!PassBack, HTTP!Up
<1>3. HTTPTypes'
  <2>1. h_panic' \in BOOLEAN /\ h_ww' \in Int /\ h_sent' \in Int
    BY <1>1 DEF HTTPInv, HTTPTypes
  <2>2. QED
    BY <1>1, <2>1, UpTypes DEF HTTPInv
<1>4. HTTP!Outside("logger")' => HTTP!Outside("logger")
  BY <1>1, OutsideShrinks DEF HTTPInv, HTTPTypes
<1>5. h_chain[h_pos] = "logger" => ~HTTP!Outside("logger")'
  BY <1>1 DEF HTTPInv, HTTPTypes, HTTP!Outside
<1>6. HTTPWriters'
  BY <1>1, <1>2, <1>4, <1>5 DEF HTTPInv, HTTPWriters, HTTP!NotLogged
<1>7. HTTPFailures'
  <2>1. \A p \in DOMAIN h_chain : h_chain[p] = "recoverer" => (p <= h_pos <=> p <= h_pos')
    BY <1>1, <1>2 DEF HTTPInv, HTTPTypes
  <2>2. h_pos \in Int /\ h_pos' \in Int /\ DOMAIN h_chain \subseteq Int
    BY <1>1 DEF HTTPInv, HTTPTypes
  <2>3. Recoverable' => Recoverable
    BY <1>1 DEF Recoverable, HTTP!Has, HTTP!Before
  <2>4. QED
    BY <1>1, <2>1, <2>2, <2>3 DEF HTTPInv, HTTPFailures, HTTP!NoError, HTTP!KnownType,
                                 HTTP!HTTPStatus
<1>8. QED
  BY <1>3, <1>6, <1>7 DEF HTTPInv

LEMMA HTTPFinish ==
  ASSUME HTTPInv, HTTP!Finish
  PROVE  HTTPInv'
<1>1. /\ h_phase = "up" /\ h_pos = 0 /\ h_phase' = "done"
      /\ h_sent' = IF h_sent = 0 /\ ~h_panic THEN 200 ELSE h_sent
      /\ UNCHANGED <<h_chain, h_pos, h_err, h_panic, h_panicked, h_wrote, h_ww, h_logged>>
  BY DEF HTTP!Finish
<1>2. HTTPTypes'
  <2>1. /\ h_err' \in Errors \cup {HTTP!NoError} /\ h_panic' \in BOOLEAN
        /\ h_ww' \in Int /\ h_sent' \in Int
    BY <1>1 DEF HTTPInv, HTTPTypes
  <2>2. QED
    BY <1>1, <2>1, TypesKept DEF HTTPInv
<1>3. ~HTTP!Outside("logger") /\ ~HTTP!Outside("logger")'
  BY <1>1 DEF HTTPInv, HTTPTypes, HTTP!Outside
<1>4. HTTPWriters'
  BY <1>1, <1>3 DEF HTTPInv, HTTPWriters, HTTP!NotLogged
<1>5. HTTPFailures'
  <2>1. h_sent # 0 => h_sent' = h_sent
    BY <1>1
  <2>2. \A p \in DOMAIN h_chain : p > h_pos
    BY <1>1 DEF HTTPInv, HTTPTypes
  <2>3. Recoverable' => Recoverable
    BY <1>1 DEF Recoverable, HTTP!Has, HTTP!Before
  <2>4. h_pos \in Int /\ DOMAIN h_chain \subseteq Int
    BY DEF HTTPInv, HTTPTypes
  <2>5. QED
    BY <1>1, <2>1, <2>2, <2>3, <2>4 DEF HTTPInv, HTTPFailures, HTTP!NoError, HTTP!KnownType,
                                 HTTP!HTTPStatus
<1>6. QED
  BY <1>2, <1>4, <1>5 DEF HTTPInv

LEMMA HTTPInvariance == HTTP!Spec => []HTTPInv
<1>1. HTTP!Init => HTTPInv
  <2> SUFFICES ASSUME HTTP!Init PROVE HTTPInv
    OBVIOUS
  <2>1. HTTPTypes
    <3>1. h_chain = <<>> /\ Len(h_chain) = 0 /\ h_chain \in Seq(Middlewares)
      BY DEF HTTP!Init
    <3>2. h_panic \in BOOLEAN
      BY DEF HTTP!Init
    <3>3. QED
      BY <3>1, <3>2 DEF HTTP!Init, HTTPTypes
  <2>2. HTTPWriters
    BY DEF HTTP!Init, HTTPWriters
  <2>3. HTTPFailures
    BY DEF HTTP!Init, HTTPFailures
  <2>4. QED
    BY <2>1, <2>2, <2>3 DEF HTTPInv
<1>2. HTTPInv /\ [HTTP!Next]_(HTTP!vars) => HTTPInv'
  <2> SUFFICES ASSUME HTTPInv, [HTTP!Next]_(HTTP!vars) PROVE HTTPInv'
    OBVIOUS
  <2>1. ASSUME HTTP!ReportError \/ UNCHANGED HTTP!vars
        PROVE  UNCHANGED <<h_chain, h_pos, h_phase, h_err, h_panic, h_panicked, h_wrote, h_ww,
                           h_sent, h_logged>>
    BY <2>1 DEF HTTP!ReportError, HTTP!vars
  <2>2. CASE HTTP!ReportError \/ UNCHANGED HTTP!vars
    <3>1. HTTPTypes'
      BY <2>1, <2>2 DEF HTTPInv, HTTPTypes, HTTP!NoError
    <3>2. HTTPWriters'
      BY <2>1, <2>2 DEF HTTPInv, HTTPWriters, HTTP!NotLogged, HTTP!Outside
    <3>3. HTTPFailures'
      BY <2>1, <2>2 DEF HTTPInv, HTTPFailures, Recoverable, HTTP!Has, HTTP!Before,
           HTTP!NoError, HTTP!KnownType, HTTP!HTTPStatus
    <3>4. QED
      BY <3>1, <3>2, <3>3 DEF HTTPInv
  <2>3. CASE HTTP!Next
    BY <2>2, <2>3, HTTPUse, HTTPServe, HTTPHandler, HTTPAnswer, HTTPRecoverer, HTTPSentry,
       HTTPPass, HTTPFinish DEF HTTP!Next
  <2>4. QED
    BY <2>2, <2>3
<1>3. QED
  BY <1>1, <1>2, PTL DEF HTTP!Spec

(* Before anything was written, and whatever the other middlewares and      *)
(* their order: no handler's error is told as a success, but for one of a   *)
(* type without a status; and a panic behind the Recoverer is answered with *)
(* 500, but for one that a Sentry middleware inside the Recoverer swallows. *)
THEOREM ClientsHearOfFailures == HTTP!Spec => []FailuresAreTold
<1>1. HTTPInv => FailuresAreTold
  <2> SUFFICES ASSUME HTTPInv, h_phase = "done", ~h_wrote
               PROVE  /\ h_err # HTTP!NoError /\ HTTP!KnownType(h_err) => h_sent >= 400
                      /\ Recoverable => h_sent = 500 /\ ~h_panic
    BY DEF FailuresAreTold, HTTP!FailuresAreTold, HTTP!Recovered, Recoverable
  <2>1. \A p \in DOMAIN h_chain : ~(p <= h_pos)
    BY DEF HTTPInv, HTTPTypes
  <2>2. QED
    BY <2>1 DEF HTTPInv, HTTPFailures, Recoverable, HTTP!Has
<1>2. QED
  BY <1>1, HTTPInvariance, PTL

(* What a panic before any response comes to, on a chain with the Recoverer *)
(* and the Sentry middleware: it unwinds the stack up to the inner one.     *)
Inside(a, b) ==
  \A p, q \in DOMAIN h_chain : h_chain[p] = a /\ h_chain[q] = b => q < p
Unwinding ==
  /\ h_panic /\ ~h_captured /\ h_sent = 0 /\ h_ww = 0
  /\ \A p \in DOMAIN h_chain : h_chain[p] \in {"recoverer", "sentry"} => p <= h_pos
Captured ==
  /\ ~h_panic /\ h_captured /\ h_sent = (IF h_phase = "done" THEN 200 ELSE 0) /\ h_ww = 0
  /\ HTTP!Has("sentry") /\ Inside("sentry", "recoverer")
Answered ==
  /\ ~h_panic /\ ~h_captured /\ h_sent = 500
  /\ h_ww = IF HTTP!Before("logger", "recoverer") THEN 500 ELSE 0
  /\ HTTP!Has("recoverer") /\ Inside("recoverer", "sentry")

CaptureInv ==
  /\ h_phase \in {"routes", "handler", "error"} => ~h_captured
  /\ h_phase \in {"up", "done"} /\ h_panicked /\ ~h_wrote => Unwinding \/ Captured \/ Answered

CapturedOrAnswered ==
  h_phase = "done" /\ h_panicked /\ ~h_wrote /\ HTTP!Has("recoverer") /\ HTTP!Has("sentry") =>
    IF HTTP!Before("recoverer", "sentry") THEN h_captured /\ h_sent = 200
                                          ELSE ~h_captured /\ h_sent = 500

LEMMA CaptureDown ==
  ASSUME HTTPInv, CaptureInv, h_phase \in {"routes", "handler", "error"},
         [HTTP!Next]_(HTTP!vars)
  PROVE  CaptureInv'
<1>1. ~h_panicked /\ ~h_captured /\ (~h_wrote => h_sent = 0 /\ h_ww = 0)
  BY DEF HTTPInv, HTTPFailures, CaptureInv
<1>2. h_captured' = h_captured
  BY DEF HTTP!Next, HTTP!vars, HTTP!Use, HTTP!ServeHTTP, HTTP!HandlerWrites, HTTP!HandlerPanics,
    HTTP!HandlerReturns, HTTP!HandleError, HTTP!WriteErrorResponse, HTTP!ReportError, HTTP!Up,
    HTTP!Recoverer, HTTP!Sentry, HTTP!Logger, HTTP!PassBack, HTTP!Finish
<1>3. CASE HTTP!HandlerPanics
  <2>1. /\ h_phase = "handler" /\ h_panic' /\ h_pos' = h_pos - 1
        /\ UNCHANGED <<h_chain, h_wrote, h_ww, h_sent>> /\ h_phase' = "up"
    BY <1>3 DEF HTTP!HandlerPanics
  <2>2. \A p \in DOMAIN h_chain' : p <= h_pos'
    BY <2>1 DEF HTTPInv, HTTPTypes
  <2>3. h_wrote' \/ Unwinding'
    BY <1>1, <1>2, <2>1, <2>2 DEF Unwinding
  <2>4. QED
    BY <2>1, <2>3 DEF CaptureInv
<1>4. CASE ~HTTP!HandlerPanics
  <2>1. h_panicked' = h_panicked
    BY <1>4 DEF HTTP!Next, HTTP!vars, HTTP!Use, HTTP!ServeHTTP, HTTP!HandlerWrites,
      HTTP!HandlerReturns, HTTP!HandleError, HTTP!WriteErrorResponse, HTTP!ReportError,
      HTTP!Recoverer, HTTP!Sentry, HTTP!Logger, HTTP!PassBack, HTTP!Finish
  <2>2. QED
    BY <1>1, <1>2, <2>1 DEF CaptureInv
<1>5. QED
  BY <1>3, <1>4

LEMMA CaptureUp ==
  ASSUME HTTPInv, CaptureInv, h_panicked, ~h_wrote,
         HTTP!Recoverer \/ HTTP!Sentry \/ HTTP!Logger \/ HTTP!PassBack \/ HTTP!Finish
  PROVE  Unwinding' \/ Captured' \/ Answered'
<1>1. /\ h_phase = "up" /\ h_chain' = h_chain /\ DOMAIN h_chain \subseteq Nat /\ h_pos \in Nat
      /\ \A p, q \in DOMAIN h_chain : h_chain[p] = h_chain[q] => p = q
  <2>1. h_phase = "up" /\ h_chain' = h_chain
    BY DEF HTTP!Up, HTTP!Recoverer, HTTP!Sentry, HTTP!Logger, HTTP!PassBack, HTTP!Finish
  <2>2. DOMAIN h_chain \subseteq Nat
    BY DEF HTTPInv, HTTPTypes
  <2>3. QED
    BY <2>1, <2>2 DEF HTTPInv, HTTPTypes
<1>2. Unwinding \/ Captured \/ Answered
  BY <1>1 DEF CaptureInv
<1>3. CASE HTTP!Recoverer
  <2>1. /\ h_pos \in DOMAIN h_chain /\ h_chain[h_pos] = "recoverer" /\ h_phase' = h_phase
        /\ h_captured' = h_captured
    BY <1>3 DEF HTTP!Recoverer, HTTP!Up
  <2>2. CASE Unwinding
    <3>1. HTTP!Write(500)
      BY <1>3, <2>2 DEF Unwinding, HTTP!Recoverer, HTTP!RecovererCode
    <3>2. /\ h_sent' = 500 /\ ~h_panic'
          /\ h_ww' = IF HTTP!Outside("logger") THEN 500 ELSE 0
      BY <2>2, <3>1, WriteFacts DEF Unwinding, HTTPInv, Written, Failure
    <3>3. HTTP!Outside("logger") <=> HTTP!Before("logger", "recoverer")
      BY <1>1, <2>1 DEF HTTP!Outside, HTTP!Before
    <3>4. h_ww' = (IF HTTP!Before("logger", "recoverer") THEN 500 ELSE 0)'
      BY <1>1, <3>2, <3>3 DEF HTTP!Before
    <3>5. Inside("recoverer", "sentry")'
      <4> SUFFICES ASSUME NEW p \in DOMAIN h_chain, NEW q \in DOMAIN h_chain,
                          h_chain[p] = "recoverer", h_chain[q] = "sentry"
                   PROVE  q < p
        BY <1>1 DEF Inside
      <4>1. p = h_pos /\ q # h_pos /\ q <= h_pos /\ q \in Nat
        BY <1>1, <2>1, <2>2 DEF Unwinding
      <4>2. QED
        BY <1>1, <4>1
    <3>6. QED
      BY <1>1, <2>1, <2>2, <3>2, <3>4, <3>5 DEF Unwinding, Answered, HTTP!Has
  <2>3. CASE Captured \/ Answered
    <3>1. UNCHANGED <<h_panic, h_sent, h_ww>>
      BY <1>3, <2>3 DEF Captured, Answered, HTTP!Recoverer
    <3>2. QED
      BY <1>1, <2>1, <2>3, <3>1 DEF Captured, Answered, Inside, HTTP!Has, HTTP!Before
  <2>4. QED
    BY <1>2, <2>2, <2>3
<1>4. CASE HTTP!Sentry
  <2>1. /\ h_pos \in DOMAIN h_chain /\ h_chain[h_pos] = "sentry" /\ h_phase' = h_phase
        /\ h_captured' = (h_captured \/ h_panic) /\ ~h_panic' /\ h_sent' = h_sent
        /\ h_ww' = h_ww
    BY <1>4 DEF HTTP!Sentry, HTTP!Up
  <2>2. CASE Unwinding
    <3>1. Inside("sentry", "recoverer")'
      <4> SUFFICES ASSUME NEW p \in DOMAIN h_chain, NEW q \in DOMAIN h_chain,
                          h_chain[p] = "sentry", h_chain[q] = "recoverer"
                   PROVE  q < p
        BY <1>1 DEF Inside
      <4>1. p = h_pos /\ q # h_pos /\ q <= h_pos /\ q \in Nat
        BY <1>1, <2>1, <2>2 DEF Unwinding
      <4>2. QED
        BY <1>1, <4>1
    <3>2. h_captured' /\ h_sent' = 0 /\ h_phase' # "done" /\ h_ww' = 0 /\ HTTP!Has("sentry")'
      BY <1>1, <2>1, <2>2 DEF Unwinding, HTTP!Has
    <3>3. QED
      BY <2>1, <3>1, <3>2 DEF Captured
  <2>3. CASE Captured
    BY <1>1, <2>1, <2>3 DEF Captured, Inside, HTTP!Has
  <2>4. CASE Answered
    BY <1>1, <2>1, <2>4 DEF Answered, Inside, HTTP!Has, HTTP!Before
  <2>5. QED
    BY <1>2, <2>2, <2>3, <2>4
<1>5. CASE HTTP!Logger \/ HTTP!PassBack
  <2>1. /\ h_pos \in DOMAIN h_chain /\ h_chain[h_pos] \in {"logger", "requestid"}
        /\ h_pos' = h_pos - 1 /\ UNCHANGED <<h_phase, h_captured, h_panic, h_sent, h_ww>>
    BY <1>5 DEF HTTP!Logger, HTTP!PassBack, HTTP!Up
  <2>2. CASE Unwinding
    <3>1. ASSUME NEW p \in DOMAIN h_chain, h_chain[p] \in {"recoverer", "sentry"}
          PROVE  p <= h_pos'
      <4>1. p # h_pos /\ p <= h_pos /\ p \in Nat
        BY <1>1, <2>1, <2>2, <3>1 DEF Unwinding
      <4>2. QED
        BY <1>1, <2>1, <4>1
    <3>2. QED
      BY <1>1, <2>1, <2>2, <3>1 DEF Unwinding
  <2>3. CASE Captured \/ Answered
    BY <1>1, <2>1, <2>3 DEF Captured, Answered, Inside, HTTP!Has, HTTP!Before
  <2>4. QED
    BY <1>2, <2>2, <2>3
<1>6. CASE HTTP!Finish
  <2>1. /\ h_phase' = "done" /\ h_sent' = IF h_sent = 0 /\ ~h_panic THEN 200 ELSE h_sent
        /\ UNCHANGED <<h_pos, h_captured, h_panic, h_ww>>
    BY <1>6 DEF HTTP!Finish
  <2>2. CASE Unwinding
    BY <1>1, <2>1, <2>2 DEF Unwinding
  <2>3. CASE Captured
    BY <1>1, <2>1, <2>3 DEF Captured, Inside, HTTP!Has
  <2>4. CASE Answered
    <3>1. h_sent' = 500
      BY <2>1, <2>4 DEF Answered
    <3>2. QED
      BY <1>1, <2>1, <2>4, <3>1 DEF Answered, Inside, HTTP!Has, HTTP!Before
  <2>5. QED
    BY <1>2, <2>2, <2>3, <2>4
<1>7. QED
  BY <1>3, <1>4, <1>5, <1>6

LEMMA CaptureStep ==
  ASSUME HTTPInv, CaptureInv, [HTTP!Next]_(HTTP!vars)
  PROVE  CaptureInv'
<1>1. CASE h_phase \in {"routes", "handler", "error"}
  BY <1>1, CaptureDown
<1>2. CASE HTTP!ReportError \/ UNCHANGED HTTP!vars
  <2>1. UNCHANGED <<h_chain, h_pos, h_phase, h_panic, h_panicked, h_wrote, h_ww, h_sent,
                    h_captured>>
    BY <1>2 DEF HTTP!ReportError, HTTP!vars
  <2>2. QED
    BY <2>1 DEF CaptureInv, Unwinding, Captured, Answered, Inside, HTTP!Has, HTTP!Before
<1>3. CASE HTTP!Recoverer \/ HTTP!Sentry \/ HTTP!Logger \/ HTTP!PassBack \/ HTTP!Finish
  <2>1. h_phase' \in {"up", "done"} /\ UNCHANGED <<h_panicked, h_wrote>>
    BY <1>3 DEF HTTP!Recoverer, HTTP!Sentry, HTTP!Logger, HTTP!PassBack, HTTP!Finish, HTTP!Up
  <2>2. QED
    BY <1>3, <2>1, CaptureUp DEF CaptureInv
<1>4. h_phase \in {"up", "done"} /\ HTTP!Next =>
        HTTP!ReportError \/ HTTP!Recoverer \/ HTTP!Sentry \/ HTTP!Logger \/ HTTP!PassBack
          \/ HTTP!Finish
  BY DEF HTTP!Next, HTTP!Use, HTTP!ServeHTTP, HTTP!HandlerWrites, HTTP!HandlerPanics,
    HTTP!HandlerReturns, HTTP!HandleError, HTTP!WriteErrorResponse
<1>5. QED
  BY <1>1, <1>2, <1>3, <1>4 DEF HTTPInv, HTTPTypes

LEMMA CaptureInvariance == HTTP!Spec => [](HTTPInv /\ CaptureInv)
<1>1. HTTP!Init => CaptureInv
  BY DEF HTTP!Init, CaptureInv
<1>2. HTTPInv /\ CaptureInv /\ [HTTP!Next]_(HTTP!vars) => CaptureInv'
  BY CaptureStep
<1>3. QED
  BY <1>1, <1>2, HTTPInvariance, PTL DEF HTTP!Spec

(* With the Recoverer and the Sentry middleware on one chain, whatever else *)
(* is on it, a panic of the handler before any response comes to exactly    *)
(* one of the two: captured and answered with an empty 200 when the         *)
(* Recoverer is outside (line 33 of sentry/middleware.go), not captured and *)
(* answered with 500 when it is inside.                                     *)
THEOREM PanicGoesToTheInner == HTTP!Spec => []CapturedOrAnswered
<1>1. HTTPInv /\ CaptureInv => CapturedOrAnswered
  <2> SUFFICES ASSUME HTTPInv, CaptureInv, h_phase = "done", h_panicked, ~h_wrote,
                      NEW p \in DOMAIN h_chain, h_chain[p] = "recoverer",
                      NEW q \in DOMAIN h_chain, h_chain[q] = "sentry"
               PROVE  IF HTTP!Before("recoverer", "sentry") THEN h_captured /\ h_sent = 200
                                                            ELSE ~h_captured /\ h_sent = 500
    BY DEF CapturedOrAnswered, HTTP!Has
  <2>1. h_pos = 0 /\ DOMAIN h_chain \subseteq Nat \ {0}
    BY DEF HTTPInv, HTTPTypes
  <2>2. ~Unwinding
    BY <2>1 DEF Unwinding
  <2>3. CASE Captured
    BY <2>3 DEF Captured, Inside, HTTP!Before
  <2>4. CASE Answered
    <3>1. ~HTTP!Before("recoverer", "sentry")
      BY <2>1, <2>4 DEF Answered, Inside, HTTP!Before
    <3>2. QED
      BY <2>4, <3>1 DEF Answered
  <2>5. QED
    BY <2>2, <2>3, <2>4 DEF CaptureInv
<1>2. QED
  BY <1>1, CaptureInvariance, PTL

(* What the logger's writer has: the code of the handler's response or of   *)
(* the answer to its error, or nothing, if there was neither nor a panic.   *)
LoggedInv ==
  /\ h_wrote /\ HTTP!Has("logger") => h_ww = 200
  /\ h_phase \in {"up", "done"} /\ ~h_wrote =>
       /\ h_err # HTTP!NoError /\ HTTP!KnownType(h_err) /\ HTTP!Has("logger") => Failure(h_ww)
       /\ h_err = HTTP!NoError /\ ~h_panicked =>
            ~h_panic /\ h_ww = 0 /\ h_sent = IF h_phase = "done" THEN 200 ELSE 0
  /\ h_logged # HTTP!NotLogged => HTTP!Has("logger")
  /\ h_phase = "error" => h_err # HTTP!NoError

LEMMA LoggedDown ==
  ASSUME HTTPInv, LoggedInv, h_phase \in {"routes", "handler", "error"}, HTTP!Next
  PROVE  LoggedInv'
<1>1. /\ ~h_panic /\ ~h_panicked /\ (~h_wrote => h_sent = 0 /\ h_ww = 0)
      /\ h_logged = HTTP!NotLogged
      /\ h_phase = "routes" => ~h_wrote
  BY DEF HTTPInv, HTTPTypes, HTTPWriters, HTTPFailures
<1>2. h_phase # "routes" => (HTTP!Outside("logger") <=> HTTP!Has("logger"))
  BY DEF HTTPInv, HTTPTypes, HTTP!Outside, HTTP!Has
<1>3. CASE h_phase = "routes" \/ HTTP!ReportError
  <2>1. /\ h_phase' \notin {"up", "done"}
        /\ UNCHANGED <<h_wrote, h_logged, h_ww, h_err>>
        /\ h_phase # "routes" => h_chain' = h_chain
        /\ h_phase' = "error" => h_phase = "error"
    BY <1>3 DEF HTTP!Next, HTTP!Use, HTTP!ServeHTTP, HTTP!HandlerWrites, HTTP!HandlerPanics,
      HTTP!HandlerReturns, HTTP!HandleError, HTTP!WriteErrorResponse, HTTP!ReportError, HTTP!Up,
      HTTP!Recoverer, HTTP!Sentry, HTTP!Logger, HTTP!PassBack, HTTP!Finish
  <2>2. QED
    BY <1>1, <2>1 DEF LoggedInv, HTTP!Has, HTTP!NotLogged, HTTP!NoError
<1>4. CASE HTTP!HandlerWrites
  <2>1. /\ h_phase = "handler" /\ ~h_wrote /\ HTTP!Write(200)
        /\ UNCHANGED <<h_phase, h_chain, h_logged>>
    BY <1>4 DEF HTTP!HandlerWrites
  <2>2. HTTP!Has("logger") => h_ww' = 200
    BY <1>1, <1>2, <2>1, WriteFacts DEF HTTPInv, Written
  <2>3. QED
    BY <1>1, <2>1, <2>2 DEF LoggedInv, HTTP!Has, HTTP!NotLogged
<1>5. CASE HTTP!HandlerPanics \/ \E e \in Errors \cup {HTTP!NoError} : HTTP!HandlerReturns(e)
  <2>1. /\ UNCHANGED <<h_chain, h_wrote, h_ww, h_sent, h_logged>>
        /\ h_phase' \in {"up", "error"}
        /\ h_phase' = "up" <=> h_err' = HTTP!NoError
        /\ h_panicked' \/ h_panic' = h_panic
    <3>1. CASE HTTP!HandlerPanics
      BY <3>1 DEF HTTP!HandlerPanics, HTTPInv, HTTPFailures
    <3>2. CASE \E e \in Errors \cup {HTTP!NoError} : HTTP!HandlerReturns(e)
      BY <3>2 DEF HTTP!HandlerReturns
    <3>3. QED
      BY <1>5, <3>1, <3>2
  <2>2. QED
    BY <1>1, <2>1 DEF LoggedInv, HTTP!Has, HTTP!NotLogged, HTTP!NoError
<1>6. CASE HTTP!HandleError \/ HTTP!WriteErrorResponse
  <2>1. /\ h_phase = "error" /\ h_phase' = "up"
        /\ UNCHANGED <<h_chain, h_err, h_panicked, h_wrote, h_logged>>
    BY <1>6 DEF HTTP!HandleError, HTTP!WriteErrorResponse
  <2>2. PICK code : Written(code) /\ (HTTP!KnownType(h_err) => Failure(code))
    BY <1>6, Answering
  <2>3. h_wrote /\ HTTP!Has("logger") => h_ww' = 200
    BY <2>2 DEF LoggedInv, Written
  <2>4. ~h_wrote /\ HTTP!KnownType(h_err) /\ HTTP!Has("logger") => Failure(h_ww')
    BY <1>1, <1>2, <2>1, <2>2 DEF Written
  <2>5. h_err # HTTP!NoError
    BY <2>1 DEF LoggedInv
  <2>6. QED
    BY <1>1, <2>1, <2>3, <2>4, <2>5 DEF LoggedInv, Failure, HTTP!Has, HTTP!NotLogged,
      HTTP!NoError, HTTP!KnownType, HTTP!HTTPStatus
<1>7. QED
  BY <1>3, <1>4, <1>5, <1>6 DEF HTTP!Next, HTTP!Use, HTTP!ServeHTTP, HTTP!Up, HTTP!Recoverer,
    HTTP!Sentry, HTTP!Logger, HTTP!PassBack, HTTP!Finish

LEMMA LoggedUp ==
  ASSUME HTTPInv, LoggedInv,
         HTTP!Recoverer \/ HTTP!Sentry \/ HTTP!Logger \/ HTTP!PassBack \/ HTTP!Finish
  PROVE  LoggedInv'
<1>1. /\ h_phase = "up" /\ h_phase' \in {"up", "done"}
      /\ UNCHANGED <<h_chain, h_err, h_panicked, h_wrote>>
  BY DEF HTTP!Up, HTTP!Recoverer, HTTP!Sentry, HTTP!Logger, HTTP!PassBack, HTTP!Finish
<1>2. h_logged' = h_logged \/ HTTP!Has("logger")
  BY DEF HTTP!Up, HTTP!Recoverer, HTTP!Sentry, HTTP!Logger, HTTP!PassBack, HTTP!Finish, HTTP!Has
<1>3. h_ww # 0 => h_ww' = h_ww
  <2>1. CASE HTTP!Recoverer /\ h_panic
    <3>1. HTTP!Write(500)
      BY <2>1 DEF HTTP!Recoverer, HTTP!RecovererCode
    <3>2. QED
      BY <3>1, WriteFacts DEF HTTPInv, Written, Failure
  <2>2. CASE ~(HTTP!Recoverer /\ h_panic)
    BY <2>2 DEF HTTP!Recoverer, HTTP!Sentry, HTTP!Logger, HTTP!PassBack, HTTP!Finish
  <2>3. QED
    BY <2>1, <2>2
<1>4. ASSUME ~h_panic, h_ww = 0, h_sent = 0
      PROVE  ~h_panic' /\ h_ww' = 0 /\ h_sent' = IF h_phase' = "done" THEN 200 ELSE 0
  BY <1>1, <1>4 DEF HTTP!Recoverer, HTTP!Sentry, HTTP!Logger, HTTP!PassBack, HTTP!Finish, HTTP!Up
<1>5. /\ h_wrote /\ HTTP!Has("logger") => h_ww' = 200
      /\ ~h_wrote /\ h_err # HTTP!NoError /\ HTTP!KnownType(h_err) /\ HTTP!Has("logger")
           => Failure(h_ww')
      /\ ~h_wrote /\ h_err = HTTP!NoError /\ ~h_panicked =>
           ~h_panic' /\ h_ww' = 0 /\ h_sent' = IF h_phase' = "done" THEN 200 ELSE 0
  <2>1. h_wrote /\ HTTP!Has("logger") => h_ww' = 200
    BY <1>3 DEF LoggedInv
  <2>2. ~h_wrote /\ h_err # HTTP!NoError /\ HTTP!KnownType(h_err) /\ HTTP!Has("logger")
          => Failure(h_ww')
    BY <1>1, <1>3 DEF LoggedInv, Failure
  <2>3. ~h_wrote /\ h_err = HTTP!NoError /\ ~h_panicked => ~h_panic /\ h_ww = 0 /\ h_sent = 0
    BY <1>1 DEF LoggedInv
  <2>4. QED
    BY <1>4, <2>1, <2>2, <2>3
<1>6. QED
  BY <1>1, <1>2, <1>5 DEF LoggedInv, Failure, HTTP!Has, HTTP!NotLogged, HTTP!NoError,
    HTTP!KnownType, HTTP!HTTPStatus

LEMMA LoggedInvariance == HTTP!Spec => []LoggedInv
<1>1. HTTP!Init => LoggedInv
  BY DEF HTTP!Init, LoggedInv
<1>2. HTTPInv /\ LoggedInv /\ [HTTP!Next]_(HTTP!vars) => LoggedInv'
  <2> SUFFICES ASSUME HTTPInv, LoggedInv, [HTTP!Next]_(HTTP!vars) PROVE LoggedInv'
    OBVIOUS
  <2>1. CASE UNCHANGED HTTP!vars \/ HTTP!ReportError
    <3>1. UNCHANGED <<h_chain, h_phase, h_err, h_panic, h_panicked, h_wrote, h_ww, h_sent,
                      h_logged>>
      BY <2>1 DEF HTTP!vars, HTTP!ReportError
    <3>2. QED
      BY <3>1 DEF LoggedInv, Failure, HTTP!Has, HTTP!NotLogged, HTTP!NoError, HTTP!KnownType,
        HTTP!HTTPStatus
  <2>2. CASE HTTP!Next /\ h_phase \in {"routes", "handler", "error"}
    BY <2>2, LoggedDown
  <2>3. h_phase \in {"up", "done"} /\ HTTP!Next =>
          HTTP!ReportError \/ HTTP!Recoverer \/ HTTP!Sentry \/ HTTP!Logger \/ HTTP!PassBack
            \/ HTTP!Finish
    BY DEF HTTP!Next, HTTP!Use, HTTP!ServeHTTP, HTTP!HandlerWrites, HTTP!HandlerPanics,
      HTTP!HandlerReturns, HTTP!HandleError, HTTP!WriteErrorResponse
  <2>4. h_phase \in {"routes", "handler", "error", "up", "done"}
    BY DEF HTTPInv, HTTPTypes
  <2>5. QED
    BY <2>1, <2>2, <2>3, <2>4, LoggedUp
<1>3. QED
  BY <1>1, <1>2, HTTPInvariance, PTL DEF HTTP!Spec

(* Whatever the middlewares and their order, and whatever the handler does, *)
(* but for an error of a type without a status: the status in the request   *)
(* log is the one that was sent if the handler wrote or failed, or if the   *)
(* Recoverer answered a panic inside the logger.  Else the log has 0, and   *)
(* 500 was sent for a panic that the Recoverer answered outside the logger, *)
(* as on the default router, against the comment on Panic in                *)
(* structuredlog.go; nothing for a panic that nobody recovered; and 200 for *)
(* one that was captured and for an empty response.                         *)
THEOREM LogTellsTheStatus == HTTP!Spec => []LoggedStatus
<1>1. HTTPInv /\ CaptureInv /\ LoggedInv => LoggedStatus
  <2> SUFFICES ASSUME HTTPInv, CaptureInv, LoggedInv, h_phase = "done",
                      h_logged # HTTP!NotLogged, HTTP!KnownType(h_err)
               PROVE  IF \/ h_wrote \/ h_err # HTTP!NoError
                         \/ HTTP!Recovered /\ HTTP!Before("logger", "recoverer")
                      THEN h_logged = h_sent
                      ELSE /\ h_logged = 0
                           /\ h_sent = IF HTTP!Recovered THEN 500
                                       ELSE IF h_panicked /\ ~h_captured THEN 0 ELSE 200
    BY DEF LoggedStatus, HTTP!LoggedStatus
  <2>1. /\ h_logged = h_ww /\ HTTP!Has("logger")
        /\ h_ww \notin {0, -1} => h_sent = h_ww
    BY DEF HTTPInv, HTTPWriters, LoggedInv
  <2>2. CASE h_wrote
    BY <2>1, <2>2 DEF LoggedInv
  <2>3. CASE ~h_wrote /\ h_err # HTTP!NoError
    BY <2>1, <2>3 DEF LoggedInv, Failure
  <2>4. CASE ~h_wrote /\ h_err = HTTP!NoError /\ ~h_panicked
    BY <2>1, <2>4 DEF LoggedInv, HTTP!Recovered
  <2>5. CASE ~h_wrote /\ h_panicked
    <3>1. /\ h_pos = 0 /\ DOMAIN h_chain \subseteq Nat \ {0} /\ h_err = HTTP!NoError
          /\ Unwinding \/ Captured \/ Answered
      BY <2>5 DEF HTTPInv, HTTPTypes, HTTPFailures, CaptureInv
    <3>2. CASE Unwinding
      <4>1. ~HTTP!Has("recoverer")
        BY <3>1, <3>2 DEF Unwinding, HTTP!Has
      <4>2. QED
        BY <2>1, <2>5, <3>1, <3>2, <4>1 DEF Unwinding, HTTP!Recovered
    <3>3. CASE Captured
      <4>1. ~HTTP!Recovered
        BY <3>3 DEF Captured, Inside, HTTP!Recovered, HTTP!Has, HTTP!Before
      <4>2. QED
        BY <2>1, <2>5, <3>1, <3>3, <4>1 DEF Captured
    <3>4. CASE Answered
      <4>1. ~HTTP!Before("recoverer", "sentry")
        BY <3>1, <3>4 DEF Answered, Inside, HTTP!Before
      <4>2. HTTP!Recovered
        BY <2>5, <3>4, <4>1 DEF Answered, HTTP!Recovered
      <4>3. QED
        BY <2>1, <2>5, <3>1, <3>4, <4>2 DEF Answered
    <3>5. QED
      BY <3>1, <3>2, <3>3, <3>4
  <2>6. QED
    BY <2>2, <2>3, <2>4, <2>5
<1>2. QED
  BY <1>1, CaptureInvariance, LoggedInvariance, PTL

-----------------------------------------------------------------------------
(* The chain of gRPC interceptors, for which GRPCChainProofs has the proofs. *)
GP == INSTANCE GRPCChainProofs WITH
  opts <- g_opts, chain <- g_chain, phase <- g_phase, pos <- g_pos, call <- g_call,
  user <- g_user, outgoing <- g_outgoing, result <- g_result, out <- g_out,
  reports <- g_reports, seen <- g_seen

LEMMA GRPCProperties ==
  GRPC!Spec => [](/\ ErrorsKeepTheirType /\ FailuresReportedOnce /\ PanicsAreRecovered
                  /\ ErrorsSurface /\ AuthorizedHandler /\ RequestIDPassedOn)
<1>1. GP!Usage
  BY HandlersAssumption DEF GRPC!Usage, GRPC!Known, GRPC!IsErr, GRPC!Leaf, GRPC!StatusRec,
     GRPC!Err, GRPC!App, GRPC!Status, GP!Usage, GP!Known, GP!IsErr, GP!Leaf, GP!StatusRec,
     GP!Err, GP!App, GP!Status
<1>2. GP!Spec => [](/\ GP!ErrorsKeepTheirType /\ GP!FailuresReportedOnce
                    /\ GP!PanicsAreRecovered /\ GP!ErrorsSurface
                    /\ GP!AuthorizedHandler /\ GP!RequestIDPassedOn)
  BY <1>1, GP!ChainIsCorrect, PTL
<1>3. GRPC!Init => GP!Init
  BY DEF GRPC!Init, GP!Init, GRPC!Pending, GP!Pending
<1>4. [GRPC!Next]_(GRPC!vars) => [GP!Next]_(GP!vars)
  BY DEF
      GRPC!vars, GRPC!ctxVars, GRPC!Known, GRPC!Flags, GRPC!Pending, GRPC!OK, GRPC!Nil,
      GRPC!Panic, GRPC!Err, GRPC!Status, GRPC!App, GRPC!Simple, GRPC!WithFlag,
      GRPC!WithUnaryServerInterceptor, GRPC!NewSimpleServer, GRPC!If, GRPC!Chained,
      GRPC!NewServer, GRPC!At, GRPC!Answer, GRPC!NextHandler, GRPC!PassRequestID,
      GRPC!ContextPropagation, GRPC!MayCall, GRPC!Authorize, GRPC!UserInterceptor,
      GRPC!PassThrough, GRPC!Handle, GRPC!Is, GRPC!As, GRPC!Dropped, GRPC!FromError,
      GRPC!isGRPCStatus, GRPC!Code, GRPC!StatusErr, GRPC!AppStatus, GRPC!Internal,
      GRPC!Return, GRPC!Up, GRPC!HandleError, GRPC!Reportable, GRPC!ErrorInterceptor,
      GRPC!RecoverPanic, GRPC!RecoverSimple, GRPC!Debug, GRPC!Monitor, GRPC!Recovers,
      GRPC!Converts, GRPC!PassBack, GRPC!Respond, GRPC!Unmarshal, GRPC!Configure,
      GRPC!Next, GP!vars, GP!ctxVars, GP!Known, GP!Flags, GP!Pending, GP!OK, GP!Nil,
      GP!Panic, GP!Err, GP!Status, GP!App, GP!Simple, GP!WithFlag,
      GP!WithUnaryServerInterceptor, GP!NewSimpleServer, GP!If, GP!Chained, GP!NewServer,
      GP!At, GP!Answer, GP!NextHandler, GP!PassRequestID, GP!ContextPropagation,
      GP!MayCall, GP!Authorize, GP!UserInterceptor, GP!PassThrough, GP!Handle, GP!Is,
      GP!As, GP!Dropped, GP!FromError, GP!isGRPCStatus, GP!Code, GP!StatusErr,
      GP!AppStatus, GP!Internal, GP!Return, GP!Up, GP!HandleError, GP!Reportable,
      GP!ErrorInterceptor, GP!RecoverPanic, GP!RecoverSimple, GP!Debug, GP!Monitor,
      GP!Recovers, GP!Converts, GP!PassBack, GP!Respond, GP!Unmarshal, GP!Configure,
      GP!Next
<1>5. (/\ GP!ErrorsKeepTheirType /\ GP!FailuresReportedOnce /\ GP!PanicsAreRecovered
       /\ GP!ErrorsSurface /\ GP!AuthorizedHandler /\ GP!RequestIDPassedOn)
      => (/\ ErrorsKeepTheirType /\ FailuresReportedOnce /\ PanicsAreRecovered
          /\ ErrorsSurface /\ AuthorizedHandler /\ RequestIDPassedOn)
  BY DEF
      ErrorsKeepTheirType, FailuresReportedOnce, PanicsAreRecovered, ErrorsSurface,
      AuthorizedHandler, RequestIDPassedOn, GRPC!ErrorsKeepTheirType,
      GRPC!FailuresReportedOnce, GRPC!PanicsAreRecovered, GRPC!ErrorsSurface,
      GRPC!AuthorizedHandler, GRPC!RequestIDPassedOn, GRPC!In, GRPC!Converting,
      GRPC!Canceled, GRPC!Before, GRPC!App, GRPC!OK, GRPC!Panic, GRPC!Pending, GRPC!Simple,
      GRPC!Is,
      GP!ErrorsKeepTheirType, GP!FailuresReportedOnce, GP!PanicsAreRecovered,
      GP!ErrorsSurface, GP!AuthorizedHandler, GP!RequestIDPassedOn, GP!In, GP!Converting,
      GP!Canceled, GP!Before, GP!App, GP!OK, GP!Panic, GP!Pending, GP!Simple, GP!Is
<1>6. QED
  BY <1>2, <1>3, <1>4, <1>5, PTL DEF GRPC!Spec, GP!Spec

(* An application error that a handler returns reaches the caller of the    *)
(* client interceptor with its type, whatever interceptors convert, forward *)
(* or wrap it, as long as one converts.                                     *)
THEOREM TypesReachTheCaller == GRPC!Spec => []ErrorsKeepTheirType
BY GRPCProperties, PTL

(* An unknown error and a recovered panic are reported exactly once on a    *)
(* chain that converts, and nothing is reported twice.                      *)
THEOREM OneReport == GRPC!Spec => []FailuresReportedOnce
BY GRPCProperties, PTL

(* With WithPanicHandler, or in the simple server, no panic of the handler  *)
(* or of an interceptor of the application ends the process.                *)
THEOREM NoPanicEscapes == GRPC!Spec => []PanicsAreRecovered
BY GRPCProperties, PTL

(* The caller sees a success exactly if the handler succeeded, or if it     *)
(* returned an error that is or joins context.Canceled and a converter is   *)
(* on the chain, wherever it is: no other error is lost on the way.         *)
THEOREM OnlyCancellationsAreLost == GRPC!Spec => []ErrorsSurface
BY GRPCProperties, PTL

(* Wherever in the chain the auth interceptor is, the handler of a          *)
(* restricted method runs only for a role of the method.                    *)
THEOREM OnlyAuthorizedRun == GRPC!Spec => []AuthorizedHandler
BY GRPCProperties, PTL

(* With the request-id interceptor, wherever it is, a request id that came  *)
(* in goes out once; inside the context propagation, twice.                 *)
THEOREM RequestIDGoesOut == GRPC!Spec => []RequestIDPassedOn
BY GRPCProperties, PTL

-----------------------------------------------------------------------------
(* Pagination, for which PaginationProofs has the proofs. *)
PP == INSTANCE PaginationProofs WITH
  backend <- p_backend, shape <- p_shape,
  dir <- p_dir, size <- p_size, table <- p_table, stable <- p_stable, writes <- p_writes,
  stage <- p_stage, cursor <- p_cursor, items <- p_items, total <- p_total,
  next <- p_next, prev <- p_prev, visited <- p_visited

LEMMA PagesProperties == Pages!Spec => [](OrderedVisit /\ EveryRowVisited)
<1>1. PP!Usage
  BY TablesAssumption DEF Pages!Usage, PP!Usage, Pages!IsFiniteSet, PP!IsFiniteSet
<1>2. PP!Spec => [](PP!OrderedVisit /\ PP!EveryRowVisited)
  BY <1>1, PP!ListingIsCorrect, PTL
<1>3. Pages!Init => PP!Init
  BY DEF Pages!Init, PP!Init, Pages!None, PP!None, Pages!NoID, PP!NoID
<1>4. [Pages!Next]_(Pages!vars) => [PP!Next]_(PP!vars)
  BY DEF
      Pages!vars, Pages!request, Pages!page, Pages!NoID, Pages!None, Pages!Less,
      Pages!Insert, Pages!Delete, Pages!Below, Pages!Above, Pages!Listing, Pages!Limit,
      Pages!Reversed, Pages!After, Pages!Before, Pages!queryItems, Pages!Count0,
      Pages!queryForward, Pages!queryBackward, Pages!queryMembers, Pages!HasID,
      Pages!computeItemCursor, Pages!PSQLStatements, Pages!RedisStatements,
      Pages!Statements, Pages!First, Pages!Following, Pages!Encodes, Pages!Decodes,
      Pages!Request, Pages!Begin, Pages!Query, Pages!Count, Pages!ZCard, Pages!Cursor,
      Pages!LastItem, Pages!Edge, Pages!Otherwise, Pages!ForwardReference,
      Pages!BackwardReference, Pages!Reference, Pages!psqlHasNext, Pages!psqlHasPrevious,
      Pages!redisHasNext, Pages!redisHasPrevious, Pages!HasNext, Pages!HasPrevious,
      Pages!Totals, Pages!More, Pages!TakePage, Pages!Statement, Pages!Next,
      Pages!Cardinality, PP!vars, PP!request, PP!page, PP!NoID, PP!None, PP!Less,
      PP!Insert, PP!Delete, PP!Below, PP!Above, PP!Listing, PP!Limit, PP!Reversed,
      PP!After, PP!Before, PP!queryItems, PP!Count0, PP!queryForward, PP!queryBackward,
      PP!queryMembers, PP!HasID, PP!computeItemCursor, PP!PSQLStatements,
      PP!RedisStatements, PP!Statements, PP!First, PP!Following, PP!Encodes, PP!Decodes,
      PP!Request, PP!Begin, PP!Query, PP!Count, PP!ZCard, PP!Cursor, PP!LastItem,
      PP!Edge, PP!Otherwise, PP!ForwardReference, PP!BackwardReference, PP!Reference,
      PP!psqlHasNext, PP!psqlHasPrevious, PP!redisHasNext, PP!redisHasPrevious,
      PP!HasNext, PP!HasPrevious, PP!Totals, PP!More, PP!TakePage, PP!Statement, PP!Next,
      PP!Cardinality
<1>5. PP!OrderedVisit /\ PP!EveryRowVisited => OrderedVisit /\ EveryRowVisited
  BY DEF OrderedVisit, EveryRowVisited, Pages!OrderedVisit, Pages!EveryRowVisited,
     PP!OrderedVisit, PP!EveryRowVisited, Pages!UniqueKeys, PP!UniqueKeys, Pages!Less, PP!Less,
     Pages!Range, PP!Range
<1>6. QED
  BY <1>2, <1>3, <1>4, <1>5, PTL DEF Pages!Spec, PP!Spec

(* The pages that a client puts together are in descending order and no row *)
(* is on two of them, on PostgreSQL and on Redis and in both directions,    *)
(* however others insert and delete between the statements of ListItems.    *)
THEOREM PagesInOrder == Pages!Spec => []OrderedVisit
BY PagesProperties, PTL

(* A listing that ends has visited every row that was in the table from its *)
(* first page to its last; on Redis, if no two members have one score.      *)
THEOREM NoRowIsSkipped == Pages!Spec => []EveryRowVisited
BY PagesProperties, PTL
=============================================================================
