----------------------------- MODULE ValueInt -----------------------------
(***************************************************************************)
(* value.Int wraps a big.Int by value.  A big.Int is a sign, a length and  *)
(* a slice of words; copying the struct copies the sign and the length but *)
(* shares the words, and arithmetic on a *big.Int overwrites its words in  *)
(* place when they fit.  An Int is therefore only as immutable as its      *)
(* constructors are careful to copy.  Numbers here are one word long.      *)
(***************************************************************************)
EXTENDS Integers, FiniteSets

CONSTANTS Ints,       \* variables of type Int
          Bigs,       \* variables of type *big.Int of the application
          Numbers,    \* bound: the values there are
          Cells,      \* bound: the word slices there can be, as many as variables
          Texts       \* texts to parse: what base 10, a base prefix and JSON make of each ({}: an error)

VARIABLES
    heap,       \* the word in each slice
    int,        \* the number each Int holds: sign, length, slice
    big,        \* the number behind each *big.Int, or Nil
    assigned,   \* history: the Int the last step was an operation on, or NoInt
    shared      \* history: the Ints that took over the words of a *big.Int

vars == <<heap, int, big, assigned, shared>>

NoInt == "none"
Abs(n) == IF n < 0 THEN -n ELSE n
Zero == [neg |-> FALSE, len |-> 0, cell |-> 0]
Nil == [Zero EXCEPT !.cell = -1]
Num == [neg : BOOLEAN, len : {0, 1}, cell : Cells \cup {0}]

\* What a number with its words reads as (String, Cmp, Int64, Bytes).
Val(h, x) == IF x.len = 0 THEN 0 ELSE IF x.neg THEN -h[x.cell] ELSE h[x.cell]
Value(v) == Val(heap, int[v])

Garbage == 1
\* New words for the variable x: words no other variable refers to.
Used(x) == {int[v].cell : v \in Ints \ {x}} \cup {big[b].cell : b \in Bigs \ {x}}
Free(x) == CHOOSE c \in Cells : c \notin Used(x)
Fresh(x, n) == IF n = 0 THEN Zero ELSE [neg |-> n < 0, len |-> 1, cell |-> Free(x)]
Alloc(x, n) ==
    heap' = [c \in Cells |-> IF c \in Used(x) THEN heap[c]
                             ELSE IF n # 0 /\ c = Free(x) THEN Abs(n) ELSE Garbage]

Init ==
    /\ heap = [c \in Cells |-> Garbage] /\ int = [v \in Ints |-> Zero]
    /\ big = [b \in Bigs |-> Nil]
    /\ assigned = NoInt /\ shared = {}

\* v.bigInt = *new(big.Int).Set...(n)
Set(v, n) ==
    /\ Alloc(v, n) /\ int' = [int EXCEPT ![v] = Fresh(v, n)]
    /\ assigned' = v /\ shared' = shared \ {v}
    /\ UNCHANGED big
Keep(v) == assigned' = v /\ UNCHANGED <<heap, int, big, shared>>

\* NewIntFromInt64, NewIntFromUint64, NewIntFromBytes, SetBytes.
New(v, n) == Set(v, n)
SetBytes(v, w) == Set(v, Abs(Value(w)))

\* NewIntFromBigInt: the struct is copied, the words are not.
NewIntFromBigInt(v, b) ==
    IF big[b] = Nil
    THEN Set(v, 0)
    ELSE /\ int' = [int EXCEPT ![v] = big[b]] /\ shared' = shared \cup {v}
         /\ assigned' = v /\ UNCHANGED <<heap, big>>

\* Neg, Add, Sub, Mul: computed on copies.  Div is Euclidean and panics on zero.
Arithmetic(v, w, x) ==
    \/ \E n \in {-Value(w), Value(w) + Value(x), Value(w) - Value(x), Value(w) * Value(x)} :
          n \in Numbers /\ Set(v, n)
    \/ Value(x) = 0 /\ Keep(v)
    \/ /\ Value(x) # 0
       /\ LET q == Value(w) \div Abs(Value(x)) IN
          \E n \in {IF Value(x) > 0 THEN q ELSE -q} : n \in Numbers /\ Set(v, n)

\* An assignment v = w of the application.
Assign(v, w) ==
    /\ int' = [int EXCEPT ![v] = int[w]]
    /\ shared' = (IF w \in shared THEN shared \cup {v} ELSE shared \ {v})
    /\ assigned' = v /\ UNCHANGED <<heap, big>>

\* Mutant of SetBigInt: the words are not copied.
SetBigIntShared(v, b) == IF big[b] = Nil THEN Keep(v) ELSE
    /\ int' = [int EXCEPT ![v] = big[b]] /\ assigned' = v
    /\ UNCHANGED <<heap, big, shared>>

\* SetBigInt copies; for nil it goes on to Set(nil), which panics after v is zero.
SetBigInt(v, b) ==
    IF big[b] = Nil
    THEN /\ int' = [int EXCEPT ![v] = Zero] /\ assigned' = v
         /\ shared' = shared \ {v} /\ UNCHANGED <<heap, big>>
    ELSE Set(v, Val(heap, big[b]))

\* SetString and NewIntFromString read base 10, and the latter returns zero with
\* its error; UnmarshalText and UnmarshalJSON read a base prefix, and JSON null
\* leaves the new number zero.
NewIntFromString(v, t) == \E n \in (IF t.dec = {} THEN {0} ELSE t.dec) : Set(v, n)
Parse(v, ns) == IF ns = {} THEN Keep(v) ELSE \E n \in ns : Set(v, n)
SetString(v, t) == Parse(v, t.dec)
UnmarshalText(v, t) == Parse(v, t.auto)
UnmarshalJSON(v, t) == Parse(v, t.json)

\* Scan of what Value stored: text, bytes or int64; NULL is zero, and a column of
\* another type an error.
Scan(v) == Keep(v) \/ \E n \in Numbers : Set(v, n)

\* BigInt returns a copy.
BigInt(b, v) ==
    /\ Alloc(b, Value(v)) /\ big' = [big EXCEPT ![b] = Fresh(b, Value(v))]
    /\ assigned' = NoInt /\ UNCHANGED <<int, shared>>

\* External: the application computes on its *big.Int, in place if it has words.
Mutate(b, n) ==
    /\ big[b] # Nil
    /\ LET x == big[b] IN
       /\ IF n = 0
          THEN UNCHANGED heap /\ big' = [big EXCEPT ![b].len = 0, ![b].neg = FALSE]
          ELSE IF x.cell = 0
          THEN Alloc(b, n) /\ big' = [big EXCEPT ![b] = Fresh(b, n)]
          ELSE /\ heap' = [heap EXCEPT ![x.cell] = Abs(n)]
               /\ big' = [big EXCEPT ![b].len = 1, ![b].neg = n < 0]
    /\ assigned' = NoInt /\ UNCHANGED <<int, shared>>

Next ==
    \/ \E v \in Ints :
          \/ \E n \in Numbers : New(v, n)
          \/ \E w \in Ints : SetBytes(v, w) \/ Assign(v, w) \/ \E x \in Ints : Arithmetic(v, w, x)
          \/ \E b \in Bigs : NewIntFromBigInt(v, b) \/ SetBigInt(v, b) \/ BigInt(b, v)
          \/ \E t \in Texts : NewIntFromString(v, t) \/ SetString(v, t) \/ UnmarshalText(v, t) \/ UnmarshalJSON(v, t)
          \/ Scan(v)
    \/ \E b \in Bigs, n \in Numbers : Mutate(b, n)

Spec == Init /\ [][Next]_vars

-----------------------------------------------------------------------------
\* An Int changes its value only by an operation on that Int, whatever is done
\* to the *big.Ints it was set from or that it handed out; and, if it or the Int
\* it is a copy of was made by NewIntFromBigInt, the one constructor that does
\* not copy (int.go:93), together with a *big.Int that has its words.
OwnWords ==
    [][\A v \in Ints : Val(heap', int'[v]) # Value(v) =>
          \/ assigned' = v
          \/ v \in shared /\ \E b \in Bigs :
                /\ big[b].cell = int[v].cell
                /\ Val(heap', big'[b]) # Val(heap, big[b])]_vars
=============================================================================
