-------------------------- MODULE ConsumersProofs ---------------------------
(***************************************************************************)
(* The safety of the consumers of channels and queues: the blocking queue, *)
(* the partition consumers of kafkasarama, the watermill subscription,     *)
(* pubsublite and the AMQP worker, for every number of goroutines,         *)
(* messages, jobs and restarts.                                            *)
(***************************************************************************)
EXTENDS MCConsumers, TLAPS

(* The provers that a step is tried with, and how long each may take. *)
USE ZenonT(5), SMTT(30)

-----------------------------------------------------------------------------
(* Blocking queue. *)

(* Arithmetic of the round robin. *)
LEMMA NthFacts ==
  ASSUME NEW e \in Elements, NEW d \in 0..N
  PROVE  /\ Nth(e, d) \in Elements
         /\ Nth(e, 0) = e
         /\ d < N => Nth(After(e), d) = Nth(e, d + 1)
         /\ d < N => After(Nth(e, d)) = Nth(e, d + 1)
         /\ After(e) \in Elements
BY NAssumption DEF Elements, Nth, After

LEMMA NthInjective ==
  ASSUME NEW e \in Elements, NEW d1 \in 0..N-1, NEW d2 \in 0..N-1, Nth(e, d1) = Nth(e, d2)
  PROVE  d1 = d2
BY NAssumption DEF Elements, Nth

LEMMA NthOnto ==
  ASSUME NEW e \in Elements, NEW f \in Elements
  PROVE  \E d \in 0..N-1 : Nth(e, d) = f
<1>1. CASE e <= f
  <2>1. f - e \in 0..N-1 /\ Nth(e, f - e) = f
    BY <1>1, NAssumption DEF Elements, Nth
  <2>2. QED
    BY <2>1
<1>2. CASE ~(e <= f)
  <2>1. f + N - e \in 0..N-1 /\ Nth(e, f + N - e) = f
    BY <1>2, NAssumption DEF Elements, Nth
  <2>2. QED
    BY <2>1
<1>3. QED
  BY <1>1, <1>2

LEMMA DueIsElement == TypeOK => Due \in Elements
<1> SUFFICES ASSUME TypeOK PROVE Due \in Elements
  OBVIOUS
<1>1. CASE taken = <<>>
  BY <1>1, NAssumption DEF Due, Elements
<1>2. CASE taken # <<>>
  <2>1. taken[Len(taken)] \in Elements
    BY <1>2 DEF TypeOK
  <2>2. QED
    BY <1>2, <2>1, NAssumption DEF Due, After, Elements
<1>3. QED
  BY <1>1, <1>2

LEMMA InitInv == Init => Inv
<1> SUFFICES ASSUME Init PROVE Inv
  OBVIOUS
<1>1. elementsChan \in Seq(Elements) /\ Len(elementsChan) = N
  BY NAssumption DEF Init, Elements
<1>2. TypeOK
  BY <1>1, NAssumption DEF Init, TypeOK, Elements
<1>3. RoundRobin /\ ChanContinues /\ IndexContinues
  BY <1>1, NAssumption, NoOneAssumption
  DEF Init, RoundRobin, ChanContinues, IndexContinues, Due, Nth
<1>4. QED
  BY <1>2, <1>3 DEF Inv

(* A taker receives the element due, and the rest of the channel is what is *)
(* due after it.                                                            *)
LEMMA TakeElementInv ==
  ASSUME Inv, NEW t \in Takers, TakeElement(t)
  PROVE  Inv'
<1> USE DEF Inv, TakeElement
<1>1. /\ Len(elementsChan) \in 1..N
      /\ Head(elementsChan) = elementsChan[1]
      /\ Head(elementsChan) \in Elements
      /\ Tail(elementsChan) \in Seq(Elements)
      /\ Len(Tail(elementsChan)) = Len(elementsChan) - 1
      /\ \A k \in 1..Len(Tail(elementsChan)) : Tail(elementsChan)[k] = elementsChan[k + 1]
  BY NAssumption DEF TypeOK
<1>2. Head(elementsChan) = Due
  BY <1>1, NthFacts, DueIsElement, NAssumption DEF ChanContinues
<1>3. /\ taken' \in Seq(Elements)
      /\ Len(taken') = Len(taken) + 1
      /\ Len(taken) \in Nat
      /\ taken'[Len(taken) + 1] = Due
      /\ \A k \in 1..Len(taken) : taken'[k] = taken[k]
  BY <1>1, <1>2 DEF TypeOK
<1>4. Due' = After(Due)
  BY <1>3 DEF Due
<1>5. TypeOK'
  BY <1>1, <1>3, NAssumption DEF TypeOK
<1>6. RoundRobin'
  <2>1. Due = IF Len(taken) = 0 THEN 0 ELSE After(taken[Len(taken)])
    BY DEF Due, TypeOK
  <2>2. QED
    BY <1>3, <2>1 DEF RoundRobin
<1>7. ChanContinues'
  <2> SUFFICES ASSUME NEW k \in 1..Len(Tail(elementsChan))
               PROVE  Tail(elementsChan)[k] = Nth(Due', k - 1)
    BY DEF ChanContinues, Nth
  <2>1. Tail(elementsChan)[k] = Nth(Due, k)
    BY <1>1, NAssumption DEF ChanContinues
  <2>2. k - 1 \in 0..N /\ k - 1 < N /\ (k - 1) + 1 = k
    BY <1>1, NAssumption
  <2>3. QED
    BY <1>4, <2>1, <2>2, NthFacts, DueIsElement
<1>8. IndexContinues'
  <2>1. Nth(Due, Len(elementsChan)) = Nth(Due', Len(elementsChan'))
    <3>1. /\ Len(elementsChan) - 1 \in 0..N
          /\ Len(elementsChan) - 1 < N
          /\ (Len(elementsChan) - 1) + 1 = Len(elementsChan)
          /\ Len(elementsChan') = Len(elementsChan) - 1
      BY <1>1, NAssumption
    <3>2. QED
      BY <1>4, <3>1, NthFacts, DueIsElement
  <2>2. QED
    BY <2>1 DEF IndexContinues, Wrapped, Nth
<1>9. QED
  BY <1>5, <1>6, <1>7, <1>8

LEMMA RefillLockInv ==
  ASSUME Inv, NEW r \in Refillers, RefillLock(r)
  PROVE  Inv'
<1> USE DEF Inv, RefillLock
<1>1. TypeOK'
  BY NAssumption DEF TypeOK, Elements
<1>2. RoundRobin' /\ ChanContinues'
  BY DEF RoundRobin, ChanContinues, Due
<1>3. Wrapped(elementsIndex) = elementsIndex
  BY NAssumption DEF TypeOK, Wrapped, Elements
<1>4. IndexContinues'
  BY <1>3, NoOneAssumption DEF TypeOK, IndexContinues, Due, Wrapped
<1>5. QED
  BY <1>1, <1>2, <1>4

(* A turn of the loop issues the element due after those in the channel. *)
LEMMA RefillSendInv ==
  ASSUME Inv, NEW r \in Refillers, RefillSend(r)
  PROVE  Inv'
<1> USE DEF Inv, RefillSend
<1> DEFINE e == Wrapped(i[r])
<1>1. e = Nth(Due, Len(elementsChan)) /\ e \in Elements
  BY NAssumption DEF IndexContinues, TypeOK, Wrapped, Elements
<1>2. /\ Len(elementsChan) \in 0..N-1
      /\ elementsChan' \in Seq(Elements)
      /\ Len(elementsChan') = Len(elementsChan) + 1
      /\ elementsChan'[Len(elementsChan) + 1] = e
      /\ \A k \in 1..Len(elementsChan) : elementsChan'[k] = elementsChan[k]
  BY <1>1, NAssumption DEF TypeOK
<1>3. TypeOK'
  BY <1>1, <1>2, NAssumption DEF TypeOK, Elements
<1>4. Due' = Due /\ RoundRobin'
  BY DEF Due, RoundRobin
<1>5. ChanContinues'
  <2> SUFFICES ASSUME NEW k \in 1..Len(elementsChan') PROVE elementsChan'[k] = Nth(Due, k - 1)
    BY <1>4 DEF ChanContinues
  <2>1. CASE k = Len(elementsChan) + 1
    BY <1>1, <1>2, <2>1
  <2>2. CASE k \in 1..Len(elementsChan)
    BY <1>2, <2>2 DEF ChanContinues
  <2>3. QED
    BY <1>2, <2>1, <2>2
<1>6. IndexContinues'
  <2>1. Wrapped(e + 1) = After(e)
    BY <1>1, NAssumption DEF Wrapped, After, Elements
  <2>2. After(e) = Nth(Due, Len(elementsChan) + 1)
    <3>1. Len(elementsChan) \in 0..N /\ Len(elementsChan) < N
      BY <1>2, NAssumption
    <3>2. After(Nth(Due, Len(elementsChan))) = Nth(Due, Len(elementsChan) + 1)
      BY <3>1, NthFacts, DueIsElement
    <3>3. QED
      BY <1>1, <3>2
  <2>3. resetMutex' = r /\ i'[r] = e + 1
    BY DEF TypeOK
  <2>4. QED
    BY <1>2, <1>4, <2>1, <2>2, <2>3, NoOneAssumption DEF IndexContinues, Wrapped
<1>7. QED
  BY <1>3, <1>4, <1>5, <1>6

LEMMA RefillReturnInv ==
  ASSUME Inv, NEW r \in Refillers, RefillReturn(r)
  PROVE  Inv'
<1> USE DEF Inv, RefillReturn
<1>1. TypeOK'
  BY NAssumption DEF TypeOK, Wrapped, Elements
<1>2. RoundRobin' /\ ChanContinues'
  BY DEF RoundRobin, ChanContinues, Due
<1>3. IndexContinues'
  BY NoOneAssumption DEF IndexContinues, Due, Wrapped
<1>4. QED
  BY <1>1, <1>2, <1>3

(* The invariant holds in every reachable state of the queue. *)
THEOREM Invariance == Spec => []Inv
<1>1. Inv /\ [Next]_vars => Inv'
  <2> SUFFICES ASSUME Inv, [Next]_vars PROVE Inv'
    OBVIOUS
  <2>1. CASE UNCHANGED vars
    BY <2>1 DEF vars, Inv, TypeOK, RoundRobin, ChanContinues, IndexContinues, Due, Wrapped
  <2>2. ASSUME NEW t \in Takers, TakeCall(t) \/ TakeCancelled(t) PROVE Inv'
    BY <2>2 DEF TakeCall, TakeCancelled, Inv, TypeOK, RoundRobin, ChanContinues,
                IndexContinues, Due, Wrapped
  <2>3. QED
    BY <2>1, <2>2, TakeElementInv, RefillLockInv, RefillSendInv, RefillReturnInv
    DEF Next, Refill
<1>2. QED
  BY InitInv, <1>1, PTL DEF Spec

(* The elements are handed out round robin under every interleaving. *)
THEOREM HandsOutRoundRobin == Spec => []RoundRobin
<1>1. Inv => RoundRobin
  BY DEF Inv
<1>2. QED
  BY <1>1, Invariance, PTL

(* The channel never exceeds its capacity, and no index used on the slice is *)
(* out of range.                                                             *)
THEOREM TypeCorrect == Spec => []TypeOK
<1>1. Inv => TypeOK
  BY DEF Inv
<1>2. QED
  BY <1>1, Invariance, PTL

(* No element is ever in the channel twice, and a full channel holds each of *)
(* the initial elements.                                                     *)
THEOREM RefillRestoresAll == Spec => []RefillRestores
<1>1. ASSUME Inv PROVE RefillRestores
  <2>1. /\ Len(elementsChan) \in 0..N
        /\ Due \in Elements
        /\ \A k \in 1..Len(elementsChan) : elementsChan[k] = Nth(Due, k - 1)
    BY <1>1, DueIsElement, NAssumption DEF Inv, TypeOK, ChanContinues
  <2>2. ASSUME NEW j \in 1..Len(elementsChan), NEW k \in 1..Len(elementsChan),
               elementsChan[j] = elementsChan[k]
        PROVE  j = k
    <3>1. /\ j - 1 \in 0..N-1 /\ k - 1 \in 0..N-1
          /\ Nth(Due, j - 1) = Nth(Due, k - 1)
      BY <2>1, <2>2, NAssumption
    <3>2. j - 1 = k - 1
      BY <2>1, <3>1, NthInjective
    <3>3. QED
      BY <3>2
  <2>3. ASSUME Len(elementsChan) = N, NEW e \in Elements
        PROVE  \E k \in 1..N : elementsChan[k] = e
    <3>1. PICK d \in 0..N-1 : Nth(Due, d) = e
      BY <2>1, NthOnto
    <3>2. d + 1 \in 1..N /\ (d + 1) - 1 = d
      BY NAssumption
    <3>3. QED
      BY <2>1, <2>3, <3>1, <3>2
  <2>4. QED
    BY <2>2, <2>3 DEF RefillRestores
<1>2. QED
  BY <1>1, Invariance, PTL

-----------------------------------------------------------------------------
(* Partition consumers. *)
PartStates == {"none", "select", "send", "sendErr", "done"}

(* What the application has of p, by where p's goroutine is. *)
Behind(p) ==
  /\ \A k \in 1..Len(p_got[p]) : p_got[p][k] = k
  /\ p_pc[p] \in {"none", "select", "sendErr"} => p_taken[p] = Len(p_got[p])
  /\ p_pc[p] = "send" => p_taken[p] = Len(p_got[p]) + 1
  /\ p_pc[p] = "done" => p_taken[p] = Len(p_got[p]) \/ p_taken[p] = Len(p_got[p]) + 1

PartsInv ==
  /\ p_pc \in [Partitions -> PartStates]
  /\ p_taken \in [Partitions -> Nat]
  /\ p_got \in [Partitions -> Seq(Nat)]
  /\ \A p \in Partitions : Behind(p)
  /\ Parts!NoSendOnClosed

LEMMA PartsInit == Parts!Init => PartsInv
BY DEF Parts!Init, PartsInv, PartStates, Behind, Parts!NoSendOnClosed

(* Only the goroutine of p, or the receiver of its message, changes what p has. *)
LEMMA BehindStep ==
  ASSUME PartsInv, NEW p \in Partitions,
         Parts!OpenPartition(p) \/ Parts!TakeMessage(p) \/ Parts!TakeError(p)
         \/ Parts!Stop(p) \/ Parts!Receive(p)
  PROVE  PartsInv'
<1> USE DEF PartsInv, PartStates
<1>1. /\ p_pc' \in [Partitions -> PartStates]
      /\ \A q \in Partitions \ {p} : p_pc'[q] = p_pc[q]
      /\ p_pc[p] # "done" /\ p_eventChClosed' = p_eventChClosed
  BY DEF Parts!OpenPartition, Parts!TakeMessage, Parts!TakeError, Parts!Stop,
                    Parts!Receive
<1>2. /\ p_taken' \in [Partitions -> Nat]
      /\ \A q \in Partitions \ {p} : p_taken'[q] = p_taken[q]
  <2>1. p_taken' = p_taken \/ p_taken' = [p_taken EXCEPT ![p] = p_taken[p] + 1]
    BY DEF Parts!OpenPartition, Parts!TakeMessage, Parts!TakeError, Parts!Stop,
           Parts!Receive
  <2>2. QED
    BY <2>1
<1>3. /\ p_got' \in [Partitions -> Seq(Nat)]
      /\ \A q \in Partitions \ {p} : p_got'[q] = p_got[q]
  <2>1. p_got' = p_got \/ p_got' = [p_got EXCEPT ![p] = Append(p_got[p], p_taken[p])]
    BY DEF Parts!OpenPartition, Parts!TakeMessage, Parts!TakeError, Parts!Stop,
           Parts!Receive
  <2>2. Append(p_got[p], p_taken[p]) \in Seq(Nat)
    OBVIOUS
  <2>3. QED
    BY <2>1, <2>2
<1>4. \A q \in Partitions \ {p} : Behind(q)'
  BY <1>1, <1>2, <1>3 DEF Behind
<1>5. Behind(p)'
  <2>1. CASE Parts!OpenPartition(p)
    BY <2>1 DEF Parts!OpenPartition, Behind
  <2>2. CASE Parts!TakeMessage(p)
    BY <2>2 DEF Parts!TakeMessage, Behind
  <2>3. CASE Parts!TakeError(p)
    BY <2>3 DEF Parts!TakeError, Behind
  <2>4. CASE Parts!Stop(p)
    BY <2>4 DEF Parts!Stop, Behind
  <2>5. CASE Parts!Receive(p) /\ p_pc[p] = "send"
    <3>1. /\ p_got[p] \in Seq(Nat) /\ p_taken[p] \in Nat /\ p_taken[p] = Len(p_got[p]) + 1
          /\ p_got'[p] = Append(p_got[p], p_taken[p])
          /\ p_taken'[p] = p_taken[p] /\ p_pc'[p] = "select"
      BY <2>5 DEF Parts!Receive, Behind
    <3>2. /\ Len(p_got'[p]) = Len(p_got[p]) + 1
          /\ p_got'[p][Len(p_got[p]) + 1] = Len(p_got[p]) + 1
          /\ \A k \in 1..Len(p_got[p]) : p_got'[p][k] = p_got[p][k]
      BY <3>1
    <3>3. QED
      BY <3>1, <3>2 DEF Behind
  <2>6. CASE Parts!Receive(p) /\ p_pc[p] = "sendErr"
    BY <2>6 DEF Parts!Receive, Behind
  <2>7. QED
    BY <2>1, <2>2, <2>3, <2>4, <2>5, <2>6 DEF Parts!Receive
<1>6. Parts!NoSendOnClosed'
  BY <1>1 DEF Parts!NoSendOnClosed
<1>7. QED
  BY <1>1, <1>2, <1>3, <1>4, <1>5, <1>6

LEMMA PartsNext == PartsInv /\ [Parts!Next]_(Parts!vars) => PartsInv'
<1> SUFFICES ASSUME PartsInv, [Parts!Next]_(Parts!vars) PROVE PartsInv'
  OBVIOUS
<1>1. CASE Parts!OpenFails \/ Parts!OpenedAll \/ Parts!CloseCancels \/ Parts!CloseReturns
  BY <1>1
  DEF Parts!OpenFails, Parts!OpenedAll, Parts!CloseCancels, Parts!CloseReturns, PartsInv,
      Behind, Parts!NoSendOnClosed
<1>2. CASE \E p \in Partitions :
             Parts!OpenPartition(p) \/ Parts!TakeMessage(p) \/ Parts!TakeError(p)
             \/ Parts!Stop(p) \/ Parts!Receive(p)
  BY <1>2, BehindStep
<1>3. CASE UNCHANGED Parts!vars
  BY <1>3 DEF Parts!vars, PartsInv, Behind, Parts!NoSendOnClosed
<1>4. QED
  BY <1>1, <1>2, <1>3 DEF Parts!Next

LEMMA PartsFacts == PartsInv => Parts!NoGap /\ Parts!NoSendOnClosed
<1> SUFFICES ASSUME PartsInv, NEW p \in Partitions
             PROVE  /\ \A k \in 1..Len(p_got[p]) : p_got[p][k] = k
                    /\ Len(p_got[p]) < p_taken[p] =>
                         Len(p_got[p]) = p_taken[p] - 1 /\ p_pc[p] \in {"send", "done"}
  BY DEF Parts!NoGap, PartsInv
<1>1. Len(p_got[p]) \in Nat /\ p_taken[p] \in Nat /\ p_pc[p] \in PartStates /\ Behind(p)
  BY DEF PartsInv
<1>2. QED
  BY <1>1 DEF Behind, PartStates

(* Every message of a partition reaches the application in order and without a *)
(* gap (consumePartition, lines 143-182), for any number of partitions.        *)
THEOREM DeliveredInOrder == Parts!Spec => []Parts!NoGap
BY PartsInit, PartsNext, PartsFacts, PTL DEF Parts!Spec

(* Close never closes eventCh while a goroutine could send on it (lines 228-243). *)
THEOREM PartsCloseWaits == Parts!Spec => []Parts!NoSendOnClosed
BY PartsInit, PartsNext, PartsFacts, PTL DEF Parts!Spec

-----------------------------------------------------------------------------
(* Watermill. *)
WatermillInv ==
  /\ w_fwd \in [Subs -> {"select", "send", "done"}]
  /\ w_taken \in [Subs -> Nat]
  /\ w_got \in [Subs -> Seq(Nat)]
  /\ Watermill!Forwarded

LEMMA WatermillInit == Watermill!Init => WatermillInv
BY DEF Watermill!Init, WatermillInv, Watermill!Forwarded

(* The send that the application receives: the message in hand is the next. *)
LEMMA WatermillReceives ==
  ASSUME WatermillInv, NEW s \in Subs, Watermill!Receive(s)
  PROVE  WatermillInv'
<1> USE DEF WatermillInv
<1>1. /\ w_got[s] \in Seq(Nat) /\ w_taken[s] \in Nat /\ w_fwd[s] = "send"
      /\ w_taken[s] = Len(w_got[s]) + 1
  BY DEF Watermill!Receive, Watermill!Forwarded
<1>2. /\ w_fwd' = [w_fwd EXCEPT ![s] = "select"]
      /\ w_got' = [w_got EXCEPT ![s] = Append(w_got[s], w_taken[s])] /\ w_taken' = w_taken
  BY DEF Watermill!Receive
<1>3. w_got' \in [Subs -> Seq(Nat)] /\ w_got'[s] = Append(w_got[s], w_taken[s])
  BY <1>1, <1>2
<1>4. /\ Len(w_got'[s]) = Len(w_got[s]) + 1
      /\ w_got'[s][Len(w_got[s]) + 1] = Len(w_got[s]) + 1
      /\ \A k \in 1..Len(w_got[s]) : w_got'[s][k] = w_got[s][k]
  BY <1>1, <1>3
<1>5. Watermill!Forwarded'
  <2> SUFFICES ASSUME NEW t \in Subs
               PROVE  /\ \A k \in 1..Len(w_got'[t]) : w_got'[t][k] = k
                      /\ w_taken'[t] = Len(w_got'[t]) + (IF w_fwd'[t] = "send" THEN 1 ELSE 0)
    BY DEF Watermill!Forwarded
  <2>1. CASE t = s
    BY <1>1, <1>2, <1>4, <2>1 DEF Watermill!Forwarded
  <2>2. CASE t # s
    BY <1>2, <2>2 DEF Watermill!Forwarded
  <2>3. QED
    BY <2>1, <2>2
<1>6. QED
  BY <1>2, <1>3, <1>5

LEMMA WatermillTakes ==
  ASSUME WatermillInv, NEW s \in Subs, Watermill!TakeMessage(s) \/ Watermill!Stop(s)
  PROVE  WatermillInv'
<1> USE DEF WatermillInv
<1>1. CASE Watermill!TakeMessage(s)
  <2>1. /\ w_fwd' = [w_fwd EXCEPT ![s] = "send"] /\ w_fwd[s] = "select"
        /\ w_taken' = [w_taken EXCEPT ![s] = w_taken[s] + 1] /\ w_got' = w_got
    BY <1>1 DEF Watermill!TakeMessage
  <2>2. \A t \in Subs : Len(w_got[t]) \in Nat /\ w_taken[t] \in Nat
    OBVIOUS
  <2>3. Watermill!Forwarded'
    BY <2>1, <2>2 DEF Watermill!Forwarded
  <2>4. QED
    BY <2>1, <2>3
<1>2. CASE Watermill!Stop(s)
  <2>1. w_fwd' = [w_fwd EXCEPT ![s] = "done"] /\ w_fwd[s] = "select"
        /\ w_taken' = w_taken /\ w_got' = w_got
    BY <1>2 DEF Watermill!Stop
  <2>2. QED
    BY <2>1 DEF Watermill!Forwarded
<1>3. QED
  BY <1>1, <1>2

LEMMA WatermillNext == WatermillInv /\ [Watermill!Next]_(Watermill!vars) => WatermillInv'
<1> SUFFICES ASSUME WatermillInv, [Watermill!Next]_(Watermill!vars) PROVE WatermillInv'
  OBVIOUS
<1>1. CASE UNCHANGED <<w_fwd, w_taken, w_got>>
  BY <1>1 DEF WatermillInv, Watermill!Forwarded
<1>2. CASE \E s \in Subs :
             Watermill!TakeMessage(s) \/ Watermill!Stop(s) \/ Watermill!Receive(s)
  BY <1>2, WatermillReceives, WatermillTakes
<1>3. QED
  BY <1>1, <1>2
  DEF Watermill!Next, Watermill!vars, Watermill!SubscriberClose, Watermill!SendPanics,
      Watermill!CloseEventCh, Watermill!CloseCloseCh

(* What C() yields is watermill's messages in order and without a gap, also while *)
(* Close and Subscriber.Close run (newSubscription, kafka_subscriber.go:81-99).   *)
THEOREM ForwardsInOrder == Watermill!Spec => []Watermill!Forwarded
<1>1. WatermillInv => Watermill!Forwarded
  BY DEF WatermillInv
<1>2. QED
  BY WatermillInit, WatermillNext, <1>1, PTL DEF Watermill!Spec

-----------------------------------------------------------------------------
(* pubsublite. *)
LitePlaces == {"none", "dropped", "queue", "buffered", "held", "acked"}

(* What the broker has out is out on an open channel; a message that was   *)
(* given to the application is acked, in its hands, or out of this         *)
(* subscriber's reach; only the one in its hands lacks the ack.            *)
MsgInv ==
  /\ l_place \in [Messages -> LitePlaces]
  /\ l_loop \in {"select", "acking"} => l_cur \in Messages
  /\ l_channel \in {"none", "open", "closed"}
  /\ l_channel = "none" => l_loop = "off" /\ l_given = {}
  /\ l_given \subseteq Messages
  /\ \A m \in Messages : l_place[m] \in {"buffered", "held"} => l_channel = "open"
  /\ \A m \in l_given :
       l_place[m] = "acked" \/ (l_loop = "acking" /\ m = l_cur) \/ l_channel = "closed"
  /\ \A m \in l_given \ l_ack : l_loop = "acking" /\ m = l_cur
  /\ Lite!AckedByApplication

(* Only one Close finds the AMQP channel open and goes on to close closing. *)
CloseInv ==
  /\ l_close \in [Closers -> {"idle", "cancelled", "closed", "returned", "failed"}]
  /\ l_closing \in {0, 1}
  /\ l_closing = 1 => l_channel = "closed"
  /\ \A c \in Closers : l_close[c] = "closed" =>
       /\ l_channel = "closed" /\ l_closing = 0
       /\ \A d \in Closers : l_close[d] = "closed" => d = c

LiteInv == MsgInv /\ CloseInv

LEMMA LiteInit == Lite!Init => LiteInv
BY DEF Lite!Init, LiteInv, MsgInv, LitePlaces, CloseInv, Lite!AckedByApplication

(* Requeued takes back what is out and nothing else. *)
LEMMA LiteRequeues ==
  ASSUME MsgInv, l_place' = Lite!Requeued
  PROVE  /\ l_place' \in [Messages -> LitePlaces]
         /\ \A m \in Messages : l_place'[m] \notin {"buffered", "held"}
         /\ \A m \in Messages : l_place'[m] = "acked" <=> l_place[m] = "acked"
BY DEF MsgInv, LitePlaces, Lite!Requeued

LEMMA SetupStep ==
  ASSUME LiteInv, Lite!Dial \/ Lite!NewSubscription \/ Lite!SetupQueue
         \/ Lite!CreateConsumer \/ UNCHANGED Lite!vars
  PROVE  LiteInv'
<1> USE DEF LiteInv, MsgInv, LitePlaces, CloseInv, Lite!AckedByApplication, Lite!brokerVars,
            Lite!linkVars, Lite!loopVars, Lite!closeVars
<1>1. CASE Lite!Dial
  BY <1>1 DEF Lite!Dial
<1>2. CASE Lite!NewSubscription
  BY <1>2 DEF Lite!NewSubscription
<1>3. CASE Lite!SetupQueue
  BY <1>3 DEF Lite!SetupQueue
<1>4. CASE Lite!CreateConsumer
  BY <1>4 DEF Lite!CreateConsumer
<1>5. CASE UNCHANGED Lite!vars
  BY <1>5 DEF Lite!vars
<1>6. QED
  BY <1>1, <1>2, <1>3, <1>4, <1>5

(* The channel closes under the subscriber. *)
LEMMA CutStep ==
  ASSUME LiteInv, Lite!PublisherClose \/ Lite!ChannelFails
  PROVE  LiteInv'
<1> USE DEF LiteInv, Lite!loopVars, Lite!closeVars
<1>1. /\ l_place' = Lite!Requeued
      /\ UNCHANGED <<l_loop, l_cur, l_given, l_ack, l_close, l_closing>>
      /\ l_channel' = (IF l_channel = "open" THEN "closed" ELSE l_channel)
  BY DEF Lite!PublisherClose, Lite!ChannelFails
<1>2. MsgInv'
  BY <1>1, LiteRequeues DEF MsgInv, LitePlaces, Lite!AckedByApplication
<1>3. CloseInv'
  BY <1>1 DEF CloseInv
<1>4. QED
  BY <1>2, <1>3

LEMMA MessageStep ==
  ASSUME LiteInv, NEW m \in Messages, Lite!Publish(m) \/ Lite!Deliver(m)
         \/ Lite!RangeNext(m) \/ Lite!Ack(m)
  PROVE  LiteInv'
<1> USE DEF LiteInv, Lite!brokerVars, Lite!linkVars, Lite!loopVars, Lite!closeVars
<1>1. CloseInv'
  BY DEF Lite!Publish, Lite!Deliver, Lite!RangeNext, Lite!Ack, CloseInv
<1>2. CASE Lite!Publish(m)
  <2>1. PICK x \in {"queue", "dropped"} : l_place' = [l_place EXCEPT ![m] = x]
    BY <1>2 DEF Lite!Publish
  <2>2. l_place[m] = "none" /\ UNCHANGED <<l_channel, l_loop, l_cur, l_given, l_ack>>
    BY <1>2 DEF Lite!Publish
  <2>3. QED
    BY <1>1, <2>1, <2>2 DEF MsgInv, LitePlaces, Lite!AckedByApplication
<1>3. CASE Lite!Deliver(m)
  <2>1. /\ l_place' = [l_place EXCEPT ![m] = "buffered"] /\ l_place[m] = "queue"
        /\ l_channel = "open"
        /\ UNCHANGED <<l_channel, l_loop, l_cur, l_given, l_ack>>
    BY <1>3 DEF Lite!Deliver
  <2>2. QED
    BY <1>1, <2>1 DEF MsgInv, LitePlaces, Lite!AckedByApplication
<1>4. CASE Lite!RangeNext(m)
  <2>1. /\ l_place' = [l_place EXCEPT ![m] = "held"] /\ l_place[m] = "buffered"
        /\ l_ack' = l_ack \ {m} /\ l_loop = "range" /\ l_loop' = "select" /\ l_cur' = m
        /\ UNCHANGED <<l_channel, l_given>>
    BY <1>4 DEF Lite!RangeNext
  <2>2. m \notin l_given
    BY <2>1 DEF MsgInv, LitePlaces
  <2>3. QED
    BY <1>1, <2>1, <2>2 DEF MsgInv, LitePlaces, Lite!AckedByApplication
<1>5. CASE Lite!Ack(m)
  BY <1>1, <1>5 DEF Lite!Ack, MsgInv, LitePlaces, Lite!AckedByApplication
<1>6. QED
  BY <1>2, <1>3, <1>4, <1>5

LEMMA LoopStep ==
  ASSUME LiteInv, Lite!RangeEnds \/ Lite!Receive \/ Lite!BreakLoop \/ Lite!AckMessage
  PROVE  LiteInv'
<1> USE DEF LiteInv, Lite!brokerVars, Lite!linkVars, Lite!loopVars, Lite!closeVars
<1>1. CloseInv'
  BY DEF Lite!RangeEnds, Lite!Receive, Lite!BreakLoop, Lite!AckMessage, CloseInv
<1>2. CASE Lite!RangeEnds
  BY <1>1, <1>2 DEF Lite!RangeEnds, MsgInv, LitePlaces, Lite!AckedByApplication
<1>3. CASE Lite!Receive
  BY <1>1, <1>3 DEF Lite!Receive, MsgInv, LitePlaces, Lite!AckedByApplication
<1>4. CASE Lite!BreakLoop
  BY <1>1, <1>4 DEF Lite!BreakLoop, MsgInv, LitePlaces, Lite!AckedByApplication
<1>5. CASE Lite!AckMessage
  <2>1. /\ l_place' = l_place \/ l_place' = [l_place EXCEPT ![l_cur] = "acked"]
        /\ l_channel = "open" => l_place' = [l_place EXCEPT ![l_cur] = "acked"]
        /\ l_loop = "acking" /\ l_cur \in l_ack /\ l_loop' = "range" /\ l_cur' = NoMessage
        /\ UNCHANGED <<l_channel, l_given, l_ack>>
    BY <1>5 DEF Lite!AckMessage, Lite!Acked, MsgInv, LitePlaces
  <2>2. QED
    BY <1>1, <2>1 DEF MsgInv, LitePlaces, Lite!AckedByApplication
<1>6. QED
  BY <1>2, <1>3, <1>4, <1>5

LEMMA CloseStep ==
  ASSUME LiteInv, NEW c \in Closers, Lite!CloseCancels(c) \/ Lite!CloseChannel(c)
         \/ Lite!CloseClosing(c)
  PROVE  LiteInv'
<1> USE DEF LiteInv, Lite!brokerVars, Lite!linkVars, Lite!loopVars
<1>1. CASE Lite!CloseCancels(c)
  <2>1. PICK x \in {"cancelled", "failed"} : l_close' = [l_close EXCEPT ![c] = x]
    BY <1>1 DEF Lite!CloseCancels
  <2>2. UNCHANGED <<l_place, l_channel, l_loop, l_cur, l_given, l_ack, l_closing>>
    BY <1>1 DEF Lite!CloseCancels
  <2>3. QED
    BY <2>1, <2>2 DEF MsgInv, LitePlaces, Lite!AckedByApplication, CloseInv
<1>2. CASE Lite!CloseChannel(c)
  <2>1. /\ l_place' = Lite!Requeued /\ l_channel' = "closed"
        /\ UNCHANGED <<l_loop, l_cur, l_given, l_ack, l_closing>>
        /\ l_close[c] = "cancelled"
    BY <1>2 DEF Lite!CloseChannel
  <2>2. PICK x \in {"closed", "failed"} :
          l_close' = [l_close EXCEPT ![c] = x] /\ (x = "closed" => l_channel = "open")
    BY <1>2 DEF Lite!CloseChannel, Lite!CanCloseChannel
  <2>3. MsgInv'
    BY <2>1, LiteRequeues DEF MsgInv, LitePlaces, Lite!AckedByApplication
  <2>4. CloseInv'
    BY <2>1, <2>2 DEF CloseInv
  <2>5. QED
    BY <2>3, <2>4
<1>3. CASE Lite!CloseClosing(c)
  <2>1. /\ l_close' = [l_close EXCEPT ![c] = "returned"] /\ l_closing' = l_closing + 1
        /\ l_close[c] = "closed"
        /\ UNCHANGED <<l_place, l_channel, l_loop, l_cur, l_given, l_ack>>
    BY <1>3 DEF Lite!CloseClosing
  <2>2. QED
    BY <2>1 DEF MsgInv, LitePlaces, Lite!AckedByApplication, CloseInv
<1>4. QED
  BY <1>1, <1>2, <1>3

LEMMA RestartStep ==
  ASSUME LiteInv, Lite!Restart
  PROVE  LiteInv'
<1>1. /\ l_place' = Lite!Requeued /\ l_channel' = "none" /\ l_loop' = "off"
      /\ l_given' = {} /\ l_ack' = l_ack
      /\ l_close' = [c \in Closers |-> "idle"] /\ l_closing' = 0
  BY DEF Lite!Restart
<1>2. MsgInv'
  BY <1>1, LiteRequeues DEF LiteInv, MsgInv, LitePlaces, Lite!AckedByApplication
<1>3. CloseInv'
  BY <1>1 DEF CloseInv
<1>4. QED
  BY <1>2, <1>3 DEF LiteInv

LEMMA LiteNext == LiteInv /\ [Lite!Next]_(Lite!vars) => LiteInv'
BY SetupStep, CutStep, MessageStep, LoopStep, CloseStep, RestartStep
DEF Lite!Next, Lite!Consume

LEMMA LiteAlways == Lite!Spec => []LiteInv
BY LiteInit, LiteNext, PTL DEF Lite!Spec

(* At least once: the broker drops a message only after the application     *)
(* acked its event (lines 85-101 of subscriber.go).                          *)
THEOREM AckedOnlyByApplication == Lite!Spec => []AckedByApplication
<1>1. LiteInv => AckedByApplication
  BY DEF LiteInv, MsgInv, LitePlaces, AckedByApplication
<1>2. QED
  BY <1>1, LiteAlways, PTL

(* The application never holds two events it has not acked, whatever closes *)
(* or restarts in between.                                                  *)
THEOREM OneEventOut == Lite!Spec => []Lite!OneUnacked
<1>1. LiteInv => Lite!OneUnacked
  BY DEF LiteInv, MsgInv, LitePlaces, Lite!OneUnacked
<1>2. QED
  BY <1>1, LiteAlways, PTL

(* Any number of concurrent Closes close the closing channel at most once   *)
(* (Close, lines 153-165 of subscriber.go).                                 *)
THEOREM NoSecondClose == Lite!Spec => []Lite!ClosedOnce
<1>1. LiteInv => Lite!ClosedOnce
  BY DEF LiteInv, CloseInv, Lite!ClosedOnce
<1>2. QED
  BY <1>1, LiteAlways, PTL

-----------------------------------------------------------------------------
(* AMQP worker. *)
(* The consumer holds a job while it works on it, and acks only one whose  *)
(* handler has returned nil.                                               *)
JobInv ==
  /\ a_job \in [Jobs -> Worker!Places]
  /\ a_consumer \in {"sem", "handle", "ack"} => a_cur \in Jobs
  /\ a_consumer = "ack" => a_cur \in a_ran
  /\ Worker!AckedAfterSuccess

(* Nothing receives from sem, so it holds one value for every delivery     *)
(* whose send is done and one for every turn of the last loop.             *)
SemInv ==
  /\ a_consumer \in Worker!Consumer
  /\ a_sem \in 0..maxConcurrency /\ a_filled \in Nat /\ a_taken \in Nat
  /\ a_consumer # "exited" =>
       a_sem + (IF a_consumer = "sem" THEN 1 ELSE 0) = a_taken + a_filled
  /\ a_consumer \notin {"refill", "exited"} => a_filled = 0
  /\ a_consumer = "exited" => a_taken = 0

(* Jobs move between the places of the broker, but none becomes acked. *)
Moved ==
  /\ a_job' \in [Jobs -> Worker!Places]
  /\ \A j \in Jobs : a_job'[j] = "acked" => a_job[j] = "acked"

LEMMA RequeuedMoves ==
  ASSUME a_job \in [Jobs -> Worker!Places], a_job' = Worker!Requeued
  PROVE  Moved
BY DEF Moved, Worker!Requeued, Worker!Places, Worker!Unacked

LEMMA BrokerStep ==
  ASSUME JobInv,
         \/ Worker!StartCall \/ Worker!StartOpens \/ Worker!Cancel \/ Worker!AppStops
            \/ Worker!ChannelFails \/ UNCHANGED Worker!vars
         \/ \E g \in Worker!Stoppers : Worker!StopChannel(g) \/ Worker!StopConnection(g)
         \/ \E j \in Jobs : Worker!Perform(j) \/ Worker!Expire(j) \/ Worker!Deliver(j)
         \/ \E j \in Jobs, t \in Delays : Worker!PerformIn(j, t)
  PROVE  Moved /\ UNCHANGED Worker!consumerVars
<1> USE DEF JobInv
<1>1. CASE Worker!StartCall \/ Worker!StartOpens \/ Worker!Cancel \/ Worker!AppStops
      \/ UNCHANGED Worker!vars
  BY <1>1
  DEF Worker!StartCall, Worker!StartOpens, Worker!Cancel, Worker!AppStops, Worker!vars,
      Worker!brokerVars, Moved
<1>2. CASE Worker!ChannelFails
  BY <1>2, RequeuedMoves DEF Worker!ChannelFails
<1>3. CASE \E g \in Worker!Stoppers : Worker!StopChannel(g)
  <2>1. (a_job' = a_job \/ a_job' = Worker!Requeued) /\ UNCHANGED Worker!consumerVars
    BY <1>3 DEF Worker!StopChannel
  <2>2. QED
    BY <2>1, RequeuedMoves DEF Moved
<1>4. CASE \E g \in Worker!Stoppers : Worker!StopConnection(g)
  BY <1>4 DEF Worker!StopConnection, Worker!brokerVars, Moved
<1>5. CASE \E j \in Jobs : Worker!Perform(j) \/ Worker!Expire(j) \/ Worker!Deliver(j)
  <2>1. PICK j \in Jobs : Worker!Perform(j) \/ Worker!Expire(j) \/ Worker!Deliver(j)
    BY <1>5
  <2>2. PICK x \in {"queue", "dropped", "buffered"} : a_job' = [a_job EXCEPT ![j] = x]
    BY <2>1 DEF Worker!Perform, Worker!Expire, Worker!Deliver, Worker!Arrive
  <2>3. UNCHANGED Worker!consumerVars
    BY <2>1 DEF Worker!Perform, Worker!Expire, Worker!Deliver
  <2>4. QED
    BY <2>2, <2>3 DEF Moved, Worker!Places, Worker!Unacked
<1>6. CASE \E j \in Jobs, t \in Delays : Worker!PerformIn(j, t)
  <2>1. PICK j \in Jobs, t \in Delays : Worker!PerformIn(j, t)
    BY <1>6
  <2>2. /\ \/ a_job' = [Worker!Requeued EXCEPT ![j] = "dropped"]
           \/ a_job' = [a_job EXCEPT ![j] = "delayed"]
        /\ UNCHANGED Worker!consumerVars
    BY <2>1 DEF Worker!PerformIn
  <2>3. QED
    BY <2>2 DEF Moved, Worker!Requeued, Worker!Places, Worker!Unacked
<1>7. QED
  BY <1>1, <1>2, <1>3, <1>4, <1>5, <1>6

(* What Settle does to the jobs: at most the one the consumer holds moves. *)
LEMMA SettleMoves ==
  ASSUME JobInv, a_cur \in Jobs, NEW place \in Worker!Places, Worker!Settle(place)
  PROVE  /\ a_job' \in [Jobs -> Worker!Places]
         /\ \A j \in Jobs : a_job'[j] = "acked" =>
              a_job[j] = "acked" \/ (j = a_cur /\ place = "acked")
<1>1. a_job' = a_job \/ a_job' = [a_job EXCEPT ![a_cur] = place]
  BY DEF Worker!Settle, JobInv
<1>2. QED
  BY <1>1 DEF JobInv

LEMMA JobNext ==
  ASSUME JobInv, [Worker!Next]_(Worker!vars)
  PROVE  JobInv'
<1> USE DEF JobInv, Worker!AckedAfterSuccess
<1>1. CASE Moved /\ UNCHANGED Worker!consumerVars
  BY <1>1 DEF Moved, Worker!consumerVars
<1>2. CASE Worker!RegisterDeclares \/ Worker!RegisterConsumes \/ Worker!RangeEnds
      \/ Worker!Refill
  BY <1>2
  DEF Worker!RegisterDeclares, Worker!RegisterConsumes, Worker!RangeEnds, Worker!Refill,
      Worker!brokerVars
<1>3. CASE \E j \in Jobs : Worker!RangeNext(j)
  <2>1. PICK j \in Jobs : Worker!RangeNext(j)
    BY <1>3
  <2>2. /\ a_job' = [a_job EXCEPT ![j] = "held"] /\ a_consumer' = "sem" /\ a_cur' = j
        /\ a_ran' = a_ran
    BY <2>1 DEF Worker!RangeNext
  <2>3. QED
    BY <2>2 DEF Worker!Places, Worker!Unacked
<1>4. CASE Worker!TakeSlot
  BY <1>4 DEF Worker!TakeSlot, Worker!brokerVars
<1>5. CASE Worker!HandleFails
  <2>1. Worker!Settle("skipped") /\ a_consumer = "handle" /\ a_consumer' = "range"
        /\ a_ran' = a_ran
    BY <1>5 DEF Worker!HandleFails
  <2>2. QED
    BY <2>1, SettleMoves DEF Worker!Places, Worker!Unacked
<1>6. CASE Worker!HandleSucceeds
  BY <1>6 DEF Worker!HandleSucceeds, Worker!brokerVars
<1>7. CASE Worker!Ack
  <2>1. Worker!Settle("acked") /\ a_consumer = "ack" /\ a_consumer' = "range"
        /\ a_ran' = a_ran
    BY <1>7 DEF Worker!Ack
  <2>2. QED
    BY <2>1, SettleMoves DEF Worker!Places, Worker!Unacked
<1>8. CASE Worker!Restart
  <2>1. a_job' = Worker!Requeued /\ a_consumer' = "none" /\ a_ran' = a_ran
    BY <1>8 DEF Worker!Restart
  <2>2. QED
    BY <2>1, RequeuedMoves DEF Moved
<1>9. QED
  BY <1>1, <1>2, <1>3, <1>4, <1>5, <1>6, <1>7, <1>8, BrokerStep
  DEF Worker!Next, Worker!Consume

LEMMA SemNext ==
  ASSUME JobInv, SemInv, [Worker!Next]_(Worker!vars)
  PROVE  SemInv'
<1> USE CapacityAssumption DEF SemInv
<1>1. CASE UNCHANGED Worker!consumerVars
  BY <1>1 DEF Worker!consumerVars
<1>2. CASE Worker!RegisterDeclares \/ Worker!RegisterConsumes
  BY <1>2 DEF Worker!RegisterDeclares, Worker!RegisterConsumes, Worker!Consumer
<1>3. CASE \E j \in Jobs : Worker!RangeNext(j)
  BY <1>3 DEF Worker!RangeNext, Worker!Consumer
<1>4. CASE Worker!TakeSlot
  BY <1>4 DEF Worker!TakeSlot, Worker!SlotFree, Worker!Consumer
<1>5. CASE Worker!HandleFails \/ Worker!HandleSucceeds \/ Worker!Ack
  BY <1>5 DEF Worker!HandleFails, Worker!HandleSucceeds, Worker!Ack, Worker!Consumer
<1>6. CASE Worker!RangeEnds
  BY <1>6 DEF Worker!RangeEnds, Worker!Consumer
<1>7. CASE Worker!Refill
  BY <1>7 DEF Worker!Refill, Worker!SlotFree, Worker!Consumer
<1>8. CASE Worker!Restart
  BY <1>8 DEF Worker!Restart, Worker!Consumer
<1>9. QED
  BY <1>1, <1>2, <1>3, <1>4, <1>5, <1>6, <1>7, <1>8, BrokerStep
  DEF Worker!Next, Worker!Consume

LEMMA WorkerInit == Worker!Init => JobInv /\ SemInv
BY CapacityAssumption
DEF Worker!Init, JobInv, Worker!AckedAfterSuccess, Worker!Places, SemInv, Worker!Consumer

(* A job leaves the broker only after its handler returned nil, through     *)
(* every failure of the handler, the channel or the process (consumer loop, *)
(* lines 192-213 of amqpw.go).                                              *)
THEOREM NoJobLost == Worker!Spec => []AckedAfterSuccess
<1>1. Worker!Init => JobInv
  BY WorkerInit
<1>2. JobInv /\ [Worker!Next]_(Worker!vars) => JobInv'
  BY JobNext
<1>3. JobInv => AckedAfterSuccess
  BY DEF JobInv, AckedAfterSuccess
<1>4. QED
  BY <1>1, <1>2, <1>3, PTL DEF Worker!Spec

(* For every capacity of sem: a consumer goroutine that has received a      *)
(* delivery never gets past its last loop (lines 215-217 of amqpw.go).      *)
THEOREM ConsumerStays == Worker!Spec => []Worker!ExitsOnlyIdle
<1>1. Worker!Init => JobInv /\ SemInv
  BY WorkerInit
<1>2. JobInv /\ SemInv /\ [Worker!Next]_(Worker!vars) => (JobInv /\ SemInv)'
  BY JobNext, SemNext
<1>3. SemInv => Worker!ExitsOnlyIdle
  BY DEF SemInv, Worker!ExitsOnlyIdle
<1>4. QED
  BY <1>1, <1>2, <1>3, PTL DEF Worker!Spec

(* The processes are counted. *)
StartsCounted == a_starts \in Nat

LEMMA StartsNext == StartsCounted /\ [Worker!Next]_(Worker!vars) => StartsCounted'
<1> SUFFICES ASSUME StartsCounted, [Worker!Next]_(Worker!vars) PROVE StartsCounted'
  OBVIOUS
<1>1. CASE Worker!Restart
  BY <1>1 DEF StartsCounted, Worker!Restart
<1>2. CASE a_starts' = a_starts
  BY <1>2 DEF StartsCounted
<1>3. Worker!Restart \/ a_starts' = a_starts
  BY DEF Worker!Next, Worker!vars, Worker!StartCall, Worker!StartOpens, Worker!Cancel,
    Worker!AppStops, Worker!StopChannel, Worker!StopConnection, Worker!ChannelFails,
    Worker!Perform, Worker!Expire, Worker!Deliver, Worker!PerformIn, Worker!RegisterDeclares,
    Worker!RegisterConsumes, Worker!Consume, Worker!RangeNext, Worker!TakeSlot,
    Worker!HandleFails, Worker!HandleSucceeds, Worker!Ack, Worker!RangeEnds, Worker!Refill
<1>4. QED
  BY <1>1, <1>2, <1>3

(* The goroutine holds a delivery, and sem, which nobody empties, is full.  *)
Stalled == a_consumer = "sem" /\ a_sem = maxConcurrency
StalledBeyond ==
  a_taken <= maxConcurrency + 1 /\ (a_taken = maxConcurrency + 1 => Stalled)

(* For every capacity of sem: a consumer goroutine takes at most one        *)
(* delivery more than maxConcurrency, in the whole life of its process, and *)
(* that one waits for a slot (line 194 of amqpw.go).                        *)
THEOREM SlotsRunOut == Worker!Spec => []StalledBeyond
<1>1. Worker!Init => JobInv /\ SemInv
  BY WorkerInit
<1>2. JobInv /\ SemInv /\ [Worker!Next]_(Worker!vars) => (JobInv /\ SemInv)'
  BY JobNext, SemNext
<1>3. SemInv => StalledBeyond
  <2> SUFFICES ASSUME SemInv PROVE StalledBeyond
    OBVIOUS
  <2>1. /\ maxConcurrency \in Nat /\ a_sem \in Nat /\ a_taken \in Nat /\ a_filled \in Nat
        /\ a_sem <= maxConcurrency
    BY CapacityAssumption DEF SemInv
  <2>2. CASE a_consumer = "exited"
    <3>1. a_taken = 0
      BY <2>2 DEF SemInv
    <3>2. QED
      BY <2>1, <3>1 DEF StalledBeyond
  <2>3. CASE a_consumer = "sem"
    <3>1. a_sem + 1 = a_taken
      BY <2>1, <2>3 DEF SemInv
    <3>2. QED
      BY <2>1, <2>3, <3>1 DEF StalledBeyond, Stalled
  <2>4. CASE a_consumer \notin {"exited", "sem"}
    <3>1. a_sem = a_taken + a_filled
      BY <2>1, <2>4 DEF SemInv
    <3>2. QED
      BY <2>1, <3>1 DEF StalledBeyond
  <2>5. QED
    BY <2>2, <2>3, <2>4
<1>4. QED
  BY <1>1, <1>2, <1>3, PTL DEF Worker!Spec

(* And it waits for good: whatever the application, the broker and the      *)
(* context do, only a new process ends the wait.                            *)
THEOREM StallIsFinal ==
  Worker!Spec => [][Stalled => Stalled' \/ a_starts' # a_starts]_(Worker!vars)
<1>1. ASSUME a_starts \in Nat, [Worker!Next]_(Worker!vars), Stalled
      PROVE  Stalled' \/ a_starts' # a_starts
  <2>1. CASE Worker!Restart
    BY <1>1, <2>1 DEF Worker!Restart
  <2>2. CASE Worker!Consume
    <3>1. maxConcurrency \in Nat /\ ~(a_sem < maxConcurrency)
      BY <1>1, CapacityAssumption DEF Stalled
    <3>2. QED
      BY <1>1, <2>2, <3>1 DEF Stalled, Worker!Consume, Worker!RangeNext, Worker!TakeSlot,
        Worker!SlotFree, Worker!HandleFails, Worker!HandleSucceeds, Worker!Ack,
        Worker!RangeEnds, Worker!Refill
  <2>3. CASE Worker!RegisterDeclares \/ Worker!RegisterConsumes
    BY <1>1, <2>3 DEF Stalled, Worker!RegisterDeclares, Worker!RegisterConsumes
  <2>4. CASE \/ Worker!StartCall \/ Worker!StartOpens \/ Worker!Cancel \/ Worker!AppStops
             \/ \E g \in Worker!Stoppers : Worker!StopChannel(g) \/ Worker!StopConnection(g)
             \/ Worker!ChannelFails \/ UNCHANGED Worker!vars
    BY <1>1, <2>4 DEF Stalled, Worker!StartCall, Worker!StartOpens, Worker!Cancel,
      Worker!AppStops, Worker!StopChannel, Worker!StopConnection, Worker!ChannelFails,
      Worker!consumerVars, Worker!vars
  <2>5. CASE \/ \E j \in Jobs : Worker!Perform(j) \/ Worker!Expire(j) \/ Worker!Deliver(j)
             \/ \E j \in Jobs, t \in Delays : Worker!PerformIn(j, t)
    BY <1>1, <2>5 DEF Stalled, Worker!Perform, Worker!Expire, Worker!Deliver,
      Worker!PerformIn, Worker!consumerVars
  <2>6. QED
    BY <1>1, <2>1, <2>2, <2>3, <2>4, <2>5 DEF Worker!Next
<1>2. Worker!Init => StartsCounted
  BY DEF Worker!Init, StartsCounted
<1>3. StartsCounted /\ [Worker!Next]_(Worker!vars) => StartsCounted'
  BY StartsNext
<1>4. StartsCounted /\ [Worker!Next]_(Worker!vars) =>
        [Stalled => Stalled' \/ a_starts' # a_starts]_(Worker!vars)
  BY <1>1 DEF StartsCounted
<1>5. QED
  BY <1>2, <1>3, <1>4, PTL DEF Worker!Spec

-----------------------------------------------------------------------------
(* The types of all the components. *)

(* Partition consumers: what PartsInv does not say. *)
PartsBounds ==
  /\ p_creator \in {"opening", "returned", "failed"}
  /\ p_closer \in {"idle", "waiting", "closed"}
  /\ \A p \in Partitions : p_taken[p] <= NumMessages
  /\ p_errs \in [Partitions -> 0..MaxErrors]

PartsFlags == p_ctxDone \in BOOLEAN /\ p_eventChClosed \in BOOLEAN

LEMMA PartsBoundsStep ==
  ASSUME PartsInv, PartsBounds, [Parts!Next]_(Parts!vars)
  PROVE  PartsBounds'
<1> USE BoundsAssumption DEF PartsBounds
<1>1. CASE Parts!OpenFails \/ Parts!OpenedAll \/ Parts!CloseCancels \/ Parts!CloseReturns
           \/ UNCHANGED Parts!vars
  BY <1>1 DEF Parts!OpenFails, Parts!OpenedAll, Parts!CloseCancels, Parts!CloseReturns,
              Parts!vars
<1>2. ASSUME NEW p \in Partitions,
             Parts!OpenPartition(p) \/ Parts!Stop(p) \/ Parts!Receive(p)
      PROVE  PartsBounds'
  BY <1>2 DEF Parts!OpenPartition, Parts!Stop, Parts!Receive
<1>3. ASSUME NEW p \in Partitions, Parts!TakeMessage(p)
      PROVE  PartsBounds'
  <2>1. /\ p_taken[p] \in Nat /\ p_taken[p] < NumMessages
        /\ p_taken' = [p_taken EXCEPT ![p] = p_taken[p] + 1]
        /\ UNCHANGED <<p_creator, p_closer, p_errs>>
    BY <1>3 DEF Parts!TakeMessage, PartsInv
  <2>2. QED
    BY <2>1 DEF PartsInv
<1>4. ASSUME NEW p \in Partitions, Parts!TakeError(p)
      PROVE  PartsBounds'
  BY <1>4 DEF Parts!TakeError
<1>5. QED
  BY <1>1, <1>2, <1>3, <1>4 DEF Parts!Next

LEMMA PartsFlagsStep ==
  ASSUME PartsFlags, [Parts!Next]_(Parts!vars)
  PROVE  PartsFlags'
BY DEF PartsFlags, Parts!Next, Parts!vars, Parts!OpenFails, Parts!OpenedAll,
  Parts!CloseCancels, Parts!CloseReturns, Parts!OpenPartition, Parts!Stop, Parts!Receive,
  Parts!TakeMessage, Parts!TakeError

LEMMA PartsTypes == PartsInv /\ PartsBounds /\ PartsFlags => Parts!TypeOK
<1> SUFFICES ASSUME PartsInv, PartsBounds, PartsFlags PROVE Parts!TypeOK
  OBVIOUS
<1>1. ASSUME NEW p \in Partitions
      PROVE  p_taken[p] \in 0..NumMessages /\ p_got[p] \in Seq(1..NumMessages)
  <2>1. /\ p_taken[p] \in Nat /\ p_taken[p] <= NumMessages /\ p_got[p] \in Seq(Nat)
        /\ Behind(p) /\ p_pc[p] \in PartStates
    BY <1>1 DEF PartsInv, PartsBounds
  <2>2. Len(p_got[p]) \in Nat /\ Len(p_got[p]) <= p_taken[p]
    BY <2>1 DEF Behind, PartStates
  <2>3. \A k \in 1..Len(p_got[p]) : p_got[p][k] \in 1..NumMessages
    BY <2>1, <2>2, BoundsAssumption DEF Behind
  <2>4. QED
    BY <2>1, <2>2, <2>3, BoundsAssumption
<1>2. p_taken \in [Partitions -> 0..NumMessages]
  BY <1>1 DEF PartsInv
<1>3. p_got \in [Partitions -> Seq(1..NumMessages)]
  BY <1>1 DEF PartsInv
<1>4. QED
  BY <1>2, <1>3 DEF PartsInv, PartStates, PartsBounds, PartsFlags, Parts!TypeOK

(* Watermill: the bound and the flags. *)
WatermillBounds ==
  /\ \A s \in Subs : w_taken[s] <= SubMessages
  /\ w_closer \in [Subs -> {"idle", "half", "closed"}]

WatermillFlags == w_mesChClosed \in BOOLEAN /\ w_panicked \in BOOLEAN

LEMMA WatermillBoundsStep ==
  ASSUME WatermillInv, WatermillBounds, [Watermill!Next]_(Watermill!vars)
  PROVE  WatermillBounds'
<1> USE BoundsAssumption DEF WatermillBounds
<1>1. CASE UNCHANGED <<w_taken, w_closer>>
  BY <1>1
<1>2. ASSUME NEW s \in Subs, Watermill!TakeMessage(s)
      PROVE  WatermillBounds'
  <2>1. /\ w_taken[s] \in Nat /\ w_taken[s] < SubMessages
        /\ w_taken' = [w_taken EXCEPT ![s] = w_taken[s] + 1] /\ w_closer' = w_closer
    BY <1>2 DEF Watermill!TakeMessage, WatermillInv
  <2>2. QED
    BY <2>1 DEF WatermillInv
<1>3. ASSUME NEW s \in Subs, Watermill!CloseEventCh(s) \/ Watermill!CloseCloseCh(s)
      PROVE  WatermillBounds'
  BY <1>3 DEF Watermill!CloseEventCh, Watermill!CloseCloseCh
<1>4. QED
  BY <1>1, <1>2, <1>3
  DEF Watermill!Next, Watermill!vars, Watermill!SubscriberClose, Watermill!SendPanics,
      Watermill!Stop, Watermill!Receive

LEMMA WatermillFlagsStep ==
  ASSUME WatermillFlags, [Watermill!Next]_(Watermill!vars)
  PROVE  WatermillFlags'
BY DEF WatermillFlags, Watermill!Next, Watermill!vars, Watermill!SubscriberClose,
  Watermill!SendPanics, Watermill!Stop, Watermill!Receive, Watermill!TakeMessage,
  Watermill!CloseEventCh, Watermill!CloseCloseCh

LEMMA SmallerSeq ==
  ASSUME NEW s \in Seq(Nat), NEW S, \A k \in 1..Len(s) : s[k] \in S
  PROVE  s \in Seq(S)
OBVIOUS

LEMMA WatermillTypes == WatermillInv /\ WatermillBounds /\ WatermillFlags => Watermill!TypeOK
<1> SUFFICES ASSUME WatermillInv, WatermillBounds, WatermillFlags PROVE Watermill!TypeOK
  OBVIOUS
<1>1. ASSUME NEW s \in Subs
      PROVE  w_taken[s] \in 0..SubMessages /\ w_got[s] \in Seq(1..SubMessages)
  <2>1. w_taken[s] \in Nat /\ w_taken[s] <= SubMessages /\ w_got[s] \in Seq(Nat)
    BY <1>1 DEF WatermillInv, WatermillBounds
  <2>2. /\ \A k \in 1..Len(w_got[s]) : w_got[s][k] = k
        /\ w_taken[s] = Len(w_got[s]) \/ w_taken[s] = Len(w_got[s]) + 1
    <3>1. Len(w_got[s]) \in Nat
      BY <2>1
    <3>2. QED
      BY <1>1, <3>1 DEF WatermillInv, Watermill!Forwarded
  <2>3. Len(w_got[s]) \in Nat /\ Len(w_got[s]) <= w_taken[s]
    BY <2>1, <2>2
  <2>4. \A k \in 1..Len(w_got[s]) : w_got[s][k] \in 1..SubMessages
    BY <2>1, <2>2, <2>3, BoundsAssumption
  <2>5. w_got[s] \in Seq(1..SubMessages)
    BY <2>1, <2>4, SmallerSeq
  <2>6. QED
    BY <2>1, <2>5, BoundsAssumption
<1>2. w_taken \in [Subs -> 0..SubMessages]
  BY <1>1 DEF WatermillInv
<1>3. w_got \in [Subs -> Seq(1..SubMessages)]
  BY <1>1 DEF WatermillInv
<1>4. QED
  BY <1>2, <1>3 DEF WatermillInv, WatermillBounds, WatermillFlags, Watermill!TypeOK

(* pubsublite: the dials, the goroutine and the events. *)
LiteBounds ==
  /\ l_tries \in 0..(MaxRetries + 1)
  /\ l_conn \in {"none", "open", "closed"}
  /\ l_loop \in {"off", "declared", "range", "select", "acking", "done"}
  /\ l_cur \in Messages \cup {NoMessage}
  /\ l_ack \subseteq Messages

LEMMA LiteBoundsStep ==
  ASSUME LiteInv, LiteBounds, [Lite!Next]_(Lite!vars)
  PROVE  LiteBounds'
<1> USE BoundsAssumption
    DEF LiteBounds, Lite!brokerVars, Lite!linkVars, Lite!loopVars, Lite!closeVars
<1>1. CASE UNCHANGED <<l_tries, l_conn, l_loop, l_cur, l_ack>>
  BY <1>1
<1>2. CASE Lite!Dial
  BY <1>2 DEF Lite!Dial, Lite!MayDial
<1>3. CASE Lite!SetupQueue \/ Lite!CreateConsumer \/ Lite!PublisherClose \/ Lite!Restart
  BY <1>3 DEF Lite!SetupQueue, Lite!CreateConsumer, Lite!PublisherClose, Lite!Restart
<1>4. CASE Lite!RangeEnds \/ Lite!AckMessage \/ Lite!Receive \/ Lite!BreakLoop
  BY <1>4 DEF Lite!RangeEnds, Lite!AckMessage, Lite!Receive, Lite!BreakLoop
<1>5. ASSUME NEW m \in Messages, Lite!RangeNext(m) \/ Lite!Ack(m)
      PROVE  LiteBounds'
  BY <1>5 DEF Lite!RangeNext, Lite!Ack
<1>6. ASSUME NEW m \in Messages, Lite!Publish(m) \/ Lite!Deliver(m)
      PROVE  LiteBounds'
  BY <1>6 DEF Lite!Publish, Lite!Deliver
<1>7. ASSUME NEW c \in Closers,
             Lite!CloseCancels(c) \/ Lite!CloseChannel(c) \/ Lite!CloseClosing(c)
      PROVE  LiteBounds'
  BY <1>7 DEF Lite!CloseCancels, Lite!CloseChannel, Lite!CloseClosing
<1>8. CASE Lite!NewSubscription \/ Lite!ChannelFails \/ UNCHANGED Lite!vars
  BY <1>8 DEF Lite!NewSubscription, Lite!ChannelFails, Lite!vars
<1>9. QED
  BY <1>2, <1>3, <1>4, <1>5, <1>6, <1>7, <1>8 DEF Lite!Next, Lite!Consume

LEMMA LiteTypes == LiteInv /\ LiteBounds => Lite!TypeOK
BY DEF LiteInv, MsgInv, LitePlaces, CloseInv, LiteBounds, Lite!TypeOK

(* Worker: the connection, the Stops, the job in hand and the last loop. *)
WorkerBounds ==
  /\ a_conn \in {"nil", "open", "closed"}
  /\ a_channel \in {"nil", "open", "closed"}
  /\ a_starter \in {"idle", "opening", "started", "failed"}
  /\ a_stop \in [Worker!Stoppers -> {"off", "ready", "closing", "done"}]
  /\ a_cur \in Jobs \cup {NoJob}
  /\ a_filled \in 0..maxConcurrency
  /\ a_ran \subseteq Jobs

WorkerFlags ==
  /\ a_ctxDone \in BOOLEAN /\ a_declared \in BOOLEAN
  /\ a_sawNil \in BOOLEAN /\ a_failed \in BOOLEAN

LEMMA WorkerBoundsStep ==
  ASSUME JobInv, SemInv, WorkerBounds, [Worker!Next]_(Worker!vars)
  PROVE  WorkerBounds'
<1> USE CapacityAssumption
    DEF WorkerBounds, Worker!linkVars, Worker!startVars, Worker!consumerVars, Worker!Stoppers
<1>1. CASE Worker!StartCall \/ Worker!StartOpens \/ Worker!Cancel \/ Worker!AppStops
  BY <1>1 DEF Worker!StartCall, Worker!StartOpens, Worker!Cancel, Worker!AppStops
<1>2. ASSUME NEW g \in Worker!Stoppers, Worker!StopChannel(g) \/ Worker!StopConnection(g)
      PROVE  WorkerBounds'
  BY <1>2 DEF Worker!StopChannel, Worker!StopConnection
<1>3. CASE Worker!ChannelFails \/ UNCHANGED Worker!vars
  BY <1>3 DEF Worker!ChannelFails, Worker!vars
<1>4. CASE Worker!Restart
  BY <1>4 DEF Worker!Restart
<1>5. ASSUME NEW j \in Jobs, Worker!Perform(j) \/ Worker!Expire(j) \/ Worker!Deliver(j)
      PROVE  WorkerBounds'
  BY <1>5 DEF Worker!Perform, Worker!Expire, Worker!Deliver
<1>6. ASSUME NEW j \in Jobs, NEW t \in Delays, Worker!PerformIn(j, t)
      PROVE  WorkerBounds'
  <2>1. /\ a_channel' \in {"closed", a_channel}
        /\ UNCHANGED <<a_conn, Worker!startVars, Worker!consumerVars>>
    BY <1>6 DEF Worker!PerformIn
  <2>2. QED
    BY <2>1
<1>7. CASE Worker!RegisterDeclares \/ Worker!RegisterConsumes \/ Worker!RangeEnds
           \/ Worker!TakeSlot
  BY <1>7 DEF Worker!RegisterDeclares, Worker!RegisterConsumes, Worker!RangeEnds,
              Worker!TakeSlot
<1>8. ASSUME NEW j \in Jobs, Worker!RangeNext(j)
      PROVE  WorkerBounds'
  BY <1>8 DEF Worker!RangeNext
<1>9. CASE Worker!HandleFails \/ Worker!HandleSucceeds \/ Worker!Ack
  BY <1>9 DEF Worker!HandleFails, Worker!HandleSucceeds, Worker!Ack, JobInv
<1>10. CASE Worker!Refill
  BY <1>10 DEF Worker!Refill
<1>11. QED
  BY <1>1, <1>2, <1>3, <1>4, <1>5, <1>6, <1>7, <1>8, <1>9, <1>10
  DEF Worker!Next, Worker!Consume

LEMMA WorkerFlagsStep ==
  ASSUME WorkerFlags, [Worker!Next]_(Worker!vars)
  PROVE  WorkerFlags'
<1> USE DEF WorkerFlags, Worker!brokerVars, Worker!linkVars, Worker!startVars
<1>1. CASE UNCHANGED <<a_ctxDone, a_declared, a_sawNil, a_failed>>
  BY <1>1
<1>2. CASE Worker!Cancel \/ Worker!ChannelFails \/ Worker!RegisterDeclares \/ Worker!Restart
  BY <1>2
  DEF Worker!Cancel, Worker!ChannelFails, Worker!RegisterDeclares, Worker!Restart
<1>3. ASSUME NEW g \in Worker!Stoppers, Worker!StopChannel(g)
      PROVE  WorkerFlags'
  BY <1>3 DEF Worker!StopChannel
<1>4. ASSUME NEW j \in Jobs, NEW t \in Delays, Worker!PerformIn(j, t)
      PROVE  WorkerFlags'
  <2>1. a_failed' = TRUE \/ a_failed' = a_failed
    BY <1>4 DEF Worker!PerformIn
  <2>2. UNCHANGED <<a_ctxDone, a_declared, a_sawNil>>
    BY <1>4 DEF Worker!PerformIn
  <2>3. QED
    BY <2>1, <2>2
<1>5. CASE \/ Worker!StartCall \/ Worker!StartOpens \/ Worker!AppStops
           \/ \E g \in Worker!Stoppers : Worker!StopConnection(g)
           \/ \E j \in Jobs : Worker!Perform(j) \/ Worker!Expire(j) \/ Worker!Deliver(j)
           \/ Worker!RegisterConsumes \/ Worker!Consume \/ UNCHANGED Worker!vars
  <2>1. UNCHANGED <<a_ctxDone, a_declared, a_sawNil, a_failed>>
    BY <1>5
    DEF Worker!StartCall, Worker!StartOpens, Worker!AppStops, Worker!StopConnection,
        Worker!Perform, Worker!Expire, Worker!Deliver, Worker!RegisterConsumes,
        Worker!Consume, Worker!RangeNext, Worker!TakeSlot, Worker!HandleFails,
        Worker!HandleSucceeds, Worker!Ack, Worker!RangeEnds, Worker!Refill, Worker!vars
  <2>2. QED
    BY <1>1, <2>1
<1>6. QED
  BY <1>2, <1>3, <1>4, <1>5 DEF Worker!Next

LEMMA WorkerTypes == JobInv /\ SemInv /\ WorkerBounds /\ WorkerFlags => Worker!TypeOK
BY DEF JobInv, SemInv, WorkerBounds, WorkerFlags, Worker!TypeOK

GP == INSTANCE KafkaSaramaGroupProofs WITH
  Partitions <- GroupPartitions, NumMessages <- GroupMessages,
  creator <- g_creator, awaited <- g_awaited, ready <- g_ready, closed <- g_closed,
  loop <- g_loop, fails <- g_fails, ctxDone <- g_ctxDone, session <- g_session,
  ended <- g_ended, claim <- g_claim, next <- g_next, acker <- g_acker,
  marked <- g_marked, committed <- g_committed, eventChClosed <- g_eventChClosed,
  closer <- g_closer

(* The consumer group: the theorem of KafkaSaramaGroupProofs for the group *)
(* among the consumers.                                                    *)
LEMMA GroupTypes == Group!Spec => []Group!TypeOK
<1>1. GP!Bounds /\ MaxFails \in Nat
  BY BoundsAssumption DEF GP!Bounds
<1>2. GP!Spec => []GP!TypeOK
  BY <1>1, GP!TypeCorrect
<1>3. Group!Init => GP!Init
  BY DEF Group!Init, GP!Init, Group!Offsets, GP!Offsets, Group!Sessions, GP!Sessions
<1>4. [Group!Next]_(Group!vars) => [GP!Next]_(GP!vars)
  BY DEF Group!creatorVars, GP!creatorVars, Group!loopVars, GP!loopVars, Group!claimVars,
      GP!claimVars, Group!closeVars, GP!closeVars, Group!vars, GP!vars, Group!Offsets,
      GP!Offsets, Group!Sessions, GP!Sessions, Group!Decided, GP!Decided,
      Group!SessionDone, GP!SessionDone, Group!Subscribe, GP!Subscribe, Group!CreatorReads,
      GP!CreatorReads, Group!CreatorReturns, GP!CreatorReturns, Group!ConsumeFails,
      GP!ConsumeFails, Group!Setup, GP!Setup, Group!ConsumeCancelled, GP!ConsumeCancelled,
      Group!Rebalance, GP!Rebalance, Group!SessionEnds, GP!SessionEnds, Group!LoopAgain,
      GP!LoopAgain, Group!Poll, GP!Poll, Group!InFlight, GP!InFlight, Group!Deliver,
      GP!Deliver, Group!MarkMessage, GP!MarkMessage, Group!Resolve, GP!Resolve,
      Group!ClaimReturns, GP!ClaimReturns, Group!AckOrNack, GP!AckOrNack, Group!AutoCommit,
      GP!AutoCommit, Group!CloseCancels, GP!CloseCancels, Group!CloseReturns,
      GP!CloseReturns, Group!Crash, GP!Crash, Group!ConsumeLoop, GP!ConsumeLoop,
      Group!ConsumeClaim, GP!ConsumeClaim, Group!Next, GP!Next
<1>5. GP!TypeOK => Group!TypeOK
  BY DEF Group!TypeOK, GP!TypeOK, Group!Offsets, GP!Offsets, Group!Sessions, GP!Sessions
<1>6. QED
  BY <1>2, <1>3, <1>4, <1>5, PTL DEF Group!Spec, GP!Spec

(* The types of every component of the run: no message beyond the end of a  *)
(* partition or a topic is taken or handed out, NewConnection dials at most *)
(* once more than it may retry, and sem never exceeds its capacity.  A      *)
(* behaviour of the run is one of each component's, stuttering included.    *)
THEOREM AllTyped == MCSpec => []Types
<1>1. MCSpec => []TypeOK
  <2>1. MCInit => Init
    BY DEF MCInit
  <2>2. [MCNext]_MCvars => [Next]_vars
    BY DEF MCNext, MCvars
  <2>3. QED
    BY <2>1, <2>2, TypeCorrect, PTL DEF MCSpec, Spec
<1>2. MCSpec => []Group!TypeOK
  <2>1. MCInit => Group!Init
    BY DEF MCInit
  <2>2. [MCNext]_MCvars => [Group!Next]_(Group!vars)
    <3> SUFFICES ASSUME [MCNext]_MCvars PROVE [Group!Next]_(Group!vars)
      OBVIOUS
    <3>1. Group!Next \/ UNCHANGED gVars
      BY DEF MCNext, MCvars
    <3>2. QED
      BY <3>1 DEF gVars, Group!vars, Group!creatorVars, Group!loopVars, Group!claimVars,
                  Group!closeVars
  <2>3. QED
    BY <2>1, <2>2, GroupTypes, PTL DEF MCSpec, Group!Spec
<1>3. MCSpec => []Parts!TypeOK
  <2>1. MCInit => PartsInv /\ PartsBounds /\ PartsFlags
    <3>1. MCInit => Parts!Init
      BY DEF MCInit
    <3>2. Parts!Init => PartsBounds
      BY BoundsAssumption DEF Parts!Init, PartsBounds
    <3>3. Parts!Init => PartsFlags
      BY DEF Parts!Init, PartsFlags
    <3>4. QED
      BY <3>1, <3>2, <3>3, PartsInit
  <2>2. [MCNext]_MCvars => [Parts!Next]_(Parts!vars)
    BY DEF MCNext, MCvars, pVars, Parts!vars
  <2>3. PartsInv /\ PartsBounds /\ PartsFlags /\ [Parts!Next]_(Parts!vars)
        => (PartsInv /\ PartsBounds /\ PartsFlags)'
    BY PartsNext, PartsBoundsStep, PartsFlagsStep
  <2>4. QED
    BY <2>1, <2>2, <2>3, PartsTypes, PTL DEF MCSpec
<1>4. MCSpec => []Watermill!TypeOK
  <2>1. MCInit => WatermillInv /\ WatermillBounds /\ WatermillFlags
    <3>1. MCInit => Watermill!Init
      BY DEF MCInit
    <3>2. Watermill!Init => WatermillBounds
      BY BoundsAssumption DEF Watermill!Init, WatermillBounds
    <3>3. Watermill!Init => WatermillFlags
      BY DEF Watermill!Init, WatermillFlags
    <3>4. QED
      BY <3>1, <3>2, <3>3, WatermillInit
  <2>2. [MCNext]_MCvars => [Watermill!Next]_(Watermill!vars)
    BY DEF MCNext, MCvars, wVars, Watermill!vars
  <2>3. WatermillInv /\ WatermillBounds /\ WatermillFlags /\ [Watermill!Next]_(Watermill!vars)
        => (WatermillInv /\ WatermillBounds /\ WatermillFlags)'
    BY WatermillNext, WatermillBoundsStep, WatermillFlagsStep
  <2>4. QED
    BY <2>1, <2>2, <2>3, WatermillTypes, PTL DEF MCSpec
<1>5. MCSpec => []Lite!TypeOK
  <2>1. MCInit => LiteInv /\ LiteBounds
    <3>1. MCInit => Lite!Init
      BY DEF MCInit
    <3>2. Lite!Init => LiteBounds
      BY BoundsAssumption DEF Lite!Init, LiteBounds
    <3>3. QED
      BY <3>1, <3>2, LiteInit
  <2>2. [MCNext]_MCvars => [Lite!Next]_(Lite!vars)
    BY DEF MCNext, MCvars, lVars, Lite!vars, Lite!brokerVars, Lite!linkVars, Lite!loopVars,
           Lite!closeVars
  <2>3. LiteInv /\ LiteBounds /\ [Lite!Next]_(Lite!vars) => (LiteInv /\ LiteBounds)'
    BY LiteNext, LiteBoundsStep
  <2>4. QED
    BY <2>1, <2>2, <2>3, LiteTypes, PTL DEF MCSpec
<1>6. MCSpec => []Worker!TypeOK
  <2>1. MCInit => JobInv /\ SemInv /\ WorkerBounds /\ WorkerFlags
    <3>1. MCInit => Worker!Init
      BY DEF MCInit
    <3>2. Worker!Init => WorkerBounds
      BY CapacityAssumption DEF Worker!Init, WorkerBounds
    <3>3. Worker!Init => WorkerFlags
      BY DEF Worker!Init, WorkerFlags
    <3>4. QED
      BY <3>1, <3>2, <3>3, WorkerInit
  <2>2. [MCNext]_MCvars => [Worker!Next]_(Worker!vars)
    BY DEF MCNext, MCvars, aVars, Worker!vars, Worker!brokerVars, Worker!linkVars,
           Worker!startVars, Worker!consumerVars
  <2>3. JobInv /\ SemInv /\ WorkerBounds /\ WorkerFlags /\ [Worker!Next]_(Worker!vars)
        => (JobInv /\ SemInv /\ WorkerBounds /\ WorkerFlags)'
    BY JobNext, SemNext, WorkerBoundsStep, WorkerFlagsStep
  <2>4. QED
    BY <2>1, <2>2, <2>3, WorkerTypes, PTL DEF MCSpec
<1>7. QED
  BY <1>1, <1>2, <1>3, <1>4, <1>5, <1>6, PTL DEF Types
=============================================================================
