--------------------------- MODULE BlockingQueue ---------------------------
(***************************************************************************)
(* blockingqueue: a Go channel filled with the elements of a slice, taken  *)
(* from by any number of goroutines and topped up by Refill.               *)
(*                                                                         *)
(* Take does not use the mutex, so takes interleave with the turns of the  *)
(* Refill loop: each turn is a step.  An element is its index in the       *)
(* slice.                                                                  *)
(***************************************************************************)
EXTENDS Naturals, Sequences, FiniteSets

CONSTANTS
  N,          \* len(elements), which is also the capacity of elementsChan
  Takers,     \* goroutines that call Take
  Refillers,  \* goroutines that call Refill
  NoOne,      \* the value of resetMutex when nobody holds it
  MaxTakes    \* bound: number of elements handed out

ASSUME NAssumption == N \in Nat \ {0}
ASSUME NoOneAssumption == NoOne \notin Refillers
ASSUME MaxTakesAssumption == MaxTakes \in Nat

VARIABLES
  elementsChan,   \* the buffered elements
  resetMutex,     \* who holds the mutex
  elementsIndex,  \* where the next Refill starts
  i,              \* i[r]: the loop variable of r's Refill
  waiting,        \* the takers inside the select of Take
  taken           \* history: the elements handed out, in order

vars == <<elementsChan, resetMutex, elementsIndex, i, waiting, taken>>

Elements == 0..N-1

(* New fills the channel and leaves the index at the first element. *)
Init ==
  /\ elementsChan = [k \in 1..N |-> k - 1]
  /\ resetMutex = NoOne
  /\ elementsIndex = 0
  /\ i = [r \in Refillers |-> 0]
  /\ waiting = {}
  /\ taken = << >>

-----------------------------------------------------------------------------
TakeCall(t) ==
  /\ t \notin waiting
  /\ Len(taken) < MaxTakes
  /\ waiting' = waiting \cup {t}
  /\ UNCHANGED <<elementsChan, resetMutex, elementsIndex, i, taken>>

TakeElement(t) ==
  /\ t \in waiting
  /\ elementsChan # << >>
  /\ taken' = Append(taken, Head(elementsChan))
  /\ elementsChan' = Tail(elementsChan)
  /\ waiting' = waiting \ {t}
  /\ UNCHANGED <<resetMutex, elementsIndex, i>>

(* The context is done: Take returns the zero value, also when an element *)
(* was available.                                                         *)
TakeCancelled(t) ==
  /\ t \in waiting
  /\ waiting' = waiting \ {t}
  /\ UNCHANGED <<elementsChan, resetMutex, elementsIndex, i, taken>>

-----------------------------------------------------------------------------
(* Mutant of RefillLock: every Refill starts at the first element. *)
RefillLockFromZero(r) ==
  /\ resetMutex = NoOne
  /\ resetMutex' = r
  /\ i' = [i EXCEPT ![r] = 0]
  /\ UNCHANGED <<elementsChan, elementsIndex, waiting, taken>>

RefillLock(r) ==
  /\ resetMutex = NoOne
  /\ resetMutex' = r
  /\ i' = [i EXCEPT ![r] = elementsIndex]
  /\ UNCHANGED <<elementsChan, elementsIndex, waiting, taken>>

(* The top of the loop body: past the end of the slice, start again. *)
Wrapped(k) == IF k = N THEN 0 ELSE k

RefillSend(r) ==
  /\ resetMutex = r
  /\ Len(elementsChan) < N
  /\ elementsChan' = Append(elementsChan, Wrapped(i[r]))
  /\ i' = [i EXCEPT ![r] = Wrapped(@) + 1]
  /\ UNCHANGED <<resetMutex, elementsIndex, waiting, taken>>

(* Mutant of RefillReturn: the full channel is not noticed. *)
RefillNeverFull(r) ==
  /\ resetMutex = r
  /\ Len(elementsChan) > N
  /\ elementsIndex' = Wrapped(i[r])
  /\ resetMutex' = NoOne
  /\ UNCHANGED <<elementsChan, i, waiting, taken>>

(* The channel is full: store the index and return. *)
RefillReturn(r) ==
  /\ resetMutex = r
  /\ Len(elementsChan) = N
  /\ elementsIndex' = Wrapped(i[r])
  /\ resetMutex' = NoOne
  /\ UNCHANGED <<elementsChan, i, waiting, taken>>

Refill(r) == RefillSend(r) \/ RefillReturn(r)

Next ==
  \/ \E t \in Takers : TakeCall(t) \/ TakeElement(t) \/ TakeCancelled(t)
  \/ \E r \in Refillers : RefillLock(r) \/ Refill(r)

Spec == Init /\ [][Next]_vars

(* A Refill that has begun keeps running; nobody is obliged to call. *)
Fairness == \A r \in Refillers : WF_vars(Refill(r))

FairSpec == Spec /\ Fairness

-----------------------------------------------------------------------------
(* Types; the channel never exceeds its capacity and every index used on the *)
(* slice is within it.                                                       *)
TypeOK ==
  /\ elementsChan \in Seq(Elements)
  /\ Len(elementsChan) <= N
  /\ resetMutex \in Refillers \cup {NoOne}
  /\ elementsIndex \in Elements
  /\ i \in [Refillers -> 0..N]
  /\ waiting \subseteq Takers
  /\ taken \in Seq(Elements)

(* The successor of an element in the round robin over the slice. *)
After(e) == IF e = N - 1 THEN 0 ELSE e + 1

(* The element d places after e in the round robin, for d up to N. *)
Nth(e, d) == IF e + d < N THEN e + d ELSE e + d - N

(* The element due next: the first one, or the successor of the last taken. *)
Due == IF taken = << >> THEN 0 ELSE After(taken[Len(taken)])

(* Whatever the interleaving of takers and refillers, the elements are handed *)
(* out round robin, in slice order, without a repeat or a gap.                *)
RoundRobin ==
  \A k \in 1..Len(taken) :
    taken[k] = IF k = 1 THEN 0 ELSE After(taken[k - 1])

(* The channel holds the elements that are due, in order. *)
ChanContinues ==
  \A k \in 1..Len(elementsChan) : elementsChan[k] = Nth(Due, k - 1)

(* The element the next send will issue is the one due after those in the    *)
(* channel: at the index Refill saved while nobody refills, at the loop      *)
(* variable of the refiller that holds the mutex otherwise.                  *)
IndexContinues ==
  /\ resetMutex = NoOne => elementsIndex = Nth(Due, Len(elementsChan))
  /\ \A r \in Refillers :
       resetMutex = r => Wrapped(i[r]) = Nth(Due, Len(elementsChan))

(* No element is in the channel twice, and a full channel - what Refill      *)
(* leaves behind - holds each of the initial elements.                       *)
RefillRestores ==
  /\ \A j, k \in 1..Len(elementsChan) : elementsChan[j] = elementsChan[k] => j = k
  /\ Len(elementsChan) = N =>
       \A e \in Elements : \E k \in 1..N : elementsChan[k] = e

(* The inductive invariant. *)
Inv == TypeOK /\ RoundRobin /\ ChanContinues /\ IndexContinues

(* A Refill returns once the takers stop taking (here, after MaxTakes). *)
RefillReturns == \A r \in Refillers : resetMutex = r ~> resetMutex # r
=============================================================================
