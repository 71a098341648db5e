------------------------- MODULE InmemPubSubProofs -------------------------
(***************************************************************************)
(* The invariants of InmemPubSub for every set of subscriptions, channels  *)
(* and publishers and every buffer size.                                   *)
(***************************************************************************)
EXTENDS InmemPubSub, FiniteSetTheorems, SequenceTheorems, TLAPS

(* The provers that a step is tried with, and how long each may take. *)
USE ZenonT(5), SMTT(30)

(* The list of channels of a Publish is a sequence of channels. *)
LEMMA ChannelListsAreSeqs == \A cs \in ChannelLists : cs \in Seq(Channels)
BY SizeAssumption DEF ChannelLists

(* removeSubscription leaves s in no map, every other subscription where it *)
(* was, and no empty map.                                                   *)
LEMMA WithoutRemoves ==
  ASSUME TypeOK, MapAgrees, NoEmptyMap, NEW s \in Subs
  PROVE  /\ DOMAIN Without(s) \subseteq Channels
         /\ Without(s) \in [DOMAIN Without(s) -> SUBSET Subs]
         /\ \A ch \in DOMAIN Without(s) : Without(s)[ch] # {}
         /\ \A ch \in Channels, t \in Subs :
              (ch \in DOMAIN Without(s) /\ t \in Without(s)[ch])
                <=> t # s /\ t \in Subscribed(ch)
<1> DEFINE left == [ch \in DOMAIN channelsSubs |->
                      IF ch \in chans[s] THEN channelsSubs[ch] \ {s}
                                         ELSE channelsSubs[ch]]
           keys == {k \in DOMAIN left : k \in chans[s] => left[k] # {}}
<1>1. Without(s) = [ch \in keys |-> left[ch]]
  BY DEF Without
<1>2. keys \subseteq DOMAIN channelsSubs
  OBVIOUS
<1>3. \A ch \in DOMAIN channelsSubs :
        left[ch] = channelsSubs[ch] \ {s}
  BY DEF TypeOK, MapAgrees, Subscribed
<1>4. \A ch \in keys : left[ch] # {}
  BY <1>3 DEF NoEmptyMap
<1>5. \A ch \in DOMAIN channelsSubs : left[ch] # {} => ch \in keys
  OBVIOUS
<1>6. \A ch \in Channels, t \in Subs :
        (ch \in keys /\ t \in left[ch]) <=> t # s /\ t \in Subscribed(ch)
  BY <1>2, <1>3, <1>5 DEF Subscribed
<1> HIDE DEF left, keys
<1>7. \A ch \in keys : left[ch] \in SUBSET Subs
  BY <1>2, <1>3 DEF TypeOK
<1>8. QED
  BY <1>1, <1>2, <1>4, <1>6, <1>7 DEF TypeOK

LEMMA InitInv == Init => Inv
BY SizeAssumption, NoOneAssumption
DEF Init, Inv, TypeOK, MapAgrees, NoEmptyMap, NoSendOnClosed, OnlyOwnerPublishes,
    ParkedIsCurrent, Subscribed

(* Subscribe adds s to the maps of its channels and to no other. *)
LEMMA SubscribeInv ==
  ASSUME Inv, NEW s \in Subs, NEW cs \in SUBSET Channels, Subscribe(s, cs)
  PROVE  Inv'
<1> USE DEF Inv, Subscribe, pubVars
<1>1. TypeOK'
  BY DEF TypeOK, Subscribed
<1>2. \A ch \in Channels : Subscribed(ch)' = IF ch \in cs THEN Subscribed(ch) \cup {s}
                                                       ELSE Subscribed(ch)
  BY DEF TypeOK, Subscribed
<1>3. MapAgrees'
  BY <1>2 DEF TypeOK, MapAgrees
<1>4. NoEmptyMap'
  BY DEF TypeOK, NoEmptyMap, Subscribed
<1>5. NoSendOnClosed' /\ OnlyOwnerPublishes' /\ ParkedIsCurrent'
  BY DEF TypeOK, NoSendOnClosed, OnlyOwnerPublishes, ParkedIsCurrent
<1>6. QED
  BY <1>1, <1>3, <1>4, <1>5

(* What removeSubscription re-establishes, for Unsubscribe and for a drop. *)
LEMMA RemoveKeepsMap ==
  ASSUME TypeOK, MapAgrees, NoEmptyMap, NEW s \in Subs, removeSubscription(s),
         UNCHANGED chans
  PROVE  /\ MapAgrees'
         /\ NoEmptyMap'
         /\ DOMAIN channelsSubs' \subseteq Channels
         /\ channelsSubs' \in [DOMAIN channelsSubs' -> SUBSET Subs]
<1>1. channelsSubs' = Without(s)
  BY DEF removeSubscription
<1>2. \A ch \in Channels, t \in Subs :
        t \in Subscribed(ch)' <=> t # s /\ t \in Subscribed(ch)
  BY <1>1, WithoutRemoves DEF Subscribed
<1>3. MapAgrees'
  BY <1>2 DEF MapAgrees, removeSubscription, TypeOK
<1>4. QED
  BY <1>1, <1>3, WithoutRemoves DEF NoEmptyMap

LEMMA UnsubscribeInv ==
  ASSUME Inv, NEW s \in Subs, Unsubscribe(s)
  PROVE  Inv'
<1> USE DEF Inv, Unsubscribe, pubVars
<1>1. /\ MapAgrees' /\ NoEmptyMap'
      /\ DOMAIN channelsSubs' \subseteq Channels
      /\ channelsSubs' \in [DOMAIN channelsSubs' -> SUBSET Subs]
  BY RemoveKeepsMap
<1>2. TypeOK'
  BY <1>1 DEF TypeOK, removeSubscription
<1>3. NoSendOnClosed'
  BY NoOneAssumption DEF NoSendOnClosed, OnlyOwnerPublishes
<1>4. OnlyOwnerPublishes' /\ ParkedIsCurrent'
  BY DEF TypeOK, OnlyOwnerPublishes, ParkedIsCurrent, removeSubscription
<1>5. QED
  BY <1>1, <1>2, <1>3, <1>4

LEMMA PublishLockInv ==
  ASSUME Inv, NEW p \in Publishers, NEW cs \in ChannelLists, PublishLock(p, cs)
  PROVE  Inv'
<1> USE DEF Inv, PublishLock, subVars
<1>1. TypeOK'
  BY ChannelListsAreSeqs DEF TypeOK
<1>2. MapAgrees' /\ NoEmptyMap' /\ ParkedIsCurrent'
  BY DEF MapAgrees, NoEmptyMap, ParkedIsCurrent, Subscribed
<1>3. NoSendOnClosed' /\ OnlyOwnerPublishes'
  BY NoOneAssumption DEF TypeOK, NoSendOnClosed, OnlyOwnerPublishes
<1>4. QED
  BY <1>1, <1>2, <1>3

(* The subscriptions of a channel that the inner loop starts on are open. *)
LEMMA PublishChannelInv ==
  ASSUME Inv, NEW p \in Publishers, PublishChannel(p)
  PROVE  Inv'
<1> USE DEF Inv, PublishChannel, subVars
<1>1. /\ todo[p] \in Seq(Channels) /\ todo[p] # << >>
      /\ Head(todo[p]) \in Channels
      /\ Tail(todo[p]) \in Seq(Channels)
  BY DEF TypeOK
<1>2. Subscribed(Head(todo[p])) \in SUBSET Subs
  BY DEF TypeOK, Subscribed
<1>3. TypeOK'
  BY <1>1, <1>2 DEF TypeOK
<1>4. MapAgrees' /\ NoEmptyMap' /\ ParkedIsCurrent'
  BY DEF MapAgrees, NoEmptyMap, ParkedIsCurrent, Subscribed
<1>5. \A s \in Subscribed(Head(todo[p])) : state[s] = "open"
  BY <1>1, <1>2 DEF MapAgrees
<1>6. NoSendOnClosed' /\ OnlyOwnerPublishes'
  BY <1>5 DEF TypeOK, NoSendOnClosed, OnlyOwnerPublishes
<1>7. QED
  BY <1>3, <1>4, <1>6

(* A turn of the inner loop; the subscription it drops is not one it has yet *)
(* to reach.                                                                 *)
LEMMA PublishToInv ==
  ASSUME Inv, NEW p \in Publishers, NEW s \in Subs, PublishTo(p, s)
  PROVE  Inv'
<1> USE DEF Inv, PublishTo
<1>1. CASE SendTo(p, s)
  <2> USE DEF SendTo
  <2>1. TypeOK'
    <3>1. /\ Append(got[s], event[p]) \in Seq(Nat)
          /\ Append(c[s], event[p]) \in Seq(Nat)
          /\ Len(Append(c[s], event[p])) = Len(c[s]) + 1
      BY DEF TypeOK
    <3>2. c' \in [Subs -> Seq(Nat)] /\ \A t \in Subs : Len(c'[t]) <= eventBufferSize
      <4>1. CASE listening[s]
        BY <1>1, <4>1 DEF TypeOK
      <4>2. CASE ~listening[s]
        <5>1. Len(c[s]) < eventBufferSize /\ Len(c[s]) \in Nat
          BY <1>1, <4>2 DEF CanSend, TypeOK
        <5>2. c' = [c EXCEPT ![s] = Append(c[s], event[p])]
          BY <1>1, <4>2
        <5>3. Len(Append(c[s], event[p])) <= eventBufferSize
          BY <3>1, <5>1, SizeAssumption
        <5>4. c' \in [Subs -> Seq(Nat)]
          BY <3>1, <5>2 DEF TypeOK
        <5>5. ASSUME NEW t \in Subs PROVE Len(c'[t]) <= eventBufferSize
          <6>1. CASE t = s
            BY <5>2, <5>3, <6>1 DEF TypeOK
          <6>2. CASE t # s
            BY <5>2, <6>2 DEF TypeOK
          <6>3. QED
            BY <6>1, <6>2
        <5>6. QED
          BY <5>4, <5>5
      <4>3. QED
        BY <4>1, <4>2
    <3>3. QED
      BY <1>1, <3>1, <3>2 DEF TypeOK
  <2>2. MapAgrees' /\ NoEmptyMap'
    BY <1>1 DEF MapAgrees, NoEmptyMap, Subscribed
  <2>3. NoSendOnClosed' /\ OnlyOwnerPublishes'
    BY <1>1 DEF TypeOK, NoSendOnClosed, OnlyOwnerPublishes
  <2>4. ParkedIsCurrent'
    BY <1>1 DEF TypeOK, ParkedIsCurrent
  <2>5. QED
    BY <2>1, <2>2, <2>3, <2>4
<1>2. CASE RemoveSlow(s)
  <2> USE DEF RemoveSlow
  <2>1. /\ MapAgrees' /\ NoEmptyMap'
        /\ DOMAIN channelsSubs' \subseteq Channels
        /\ channelsSubs' \in [DOMAIN channelsSubs' -> SUBSET Subs]
    BY <1>2, RemoveKeepsMap
  <2>2. TypeOK'
    BY <1>2, <2>1 DEF TypeOK, removeSubscription
  <2>3. NoSendOnClosed' /\ OnlyOwnerPublishes' /\ ParkedIsCurrent'
    BY <1>2, NoOneAssumption
    DEF TypeOK, NoSendOnClosed, OnlyOwnerPublishes, ParkedIsCurrent, removeSubscription
  <2>4. QED
    BY <2>1, <2>2, <2>3
<1>3. QED
  BY <1>1, <1>2

LEMMA PublishUnlockInv ==
  ASSUME Inv, NEW p \in Publishers, PublishUnlock(p)
  PROVE  Inv'
BY DEF Inv, PublishUnlock, subVars, pubVars, TypeOK, MapAgrees, NoEmptyMap, Subscribed,
       NoSendOnClosed, OnlyOwnerPublishes, ParkedIsCurrent

LEMMA ReceiveInv ==
  ASSUME Inv, NEW s \in Subs, Receive(s)
  PROVE  Inv'
<1> USE DEF Inv, Receive, pubVars
<1>1. /\ Head(c[s]) \in Nat /\ Tail(c[s]) \in Seq(Nat)
      /\ Len(Tail(c[s])) <= eventBufferSize
  BY SizeAssumption DEF TypeOK
<1>2. TypeOK'
  BY <1>1 DEF TypeOK
<1>3. MapAgrees' /\ NoEmptyMap' /\ NoSendOnClosed' /\ OnlyOwnerPublishes'
  BY DEF MapAgrees, NoEmptyMap, Subscribed, NoSendOnClosed, OnlyOwnerPublishes
<1>4. ParkedIsCurrent'
  BY DEF TypeOK, ParkedIsCurrent
<1>5. QED
  BY <1>2, <1>3, <1>4

LEMMA ListenInv ==
  ASSUME Inv, NEW s \in Subs, Listen(s)
  PROVE  Inv'
BY DEF Inv, Listen, pubVars, TypeOK, MapAgrees, NoEmptyMap, Subscribed,
       NoSendOnClosed, OnlyOwnerPublishes, ParkedIsCurrent

(* The invariant holds in every reachable state of the in-memory PubSub. *)
THEOREM Invariance == Spec => []Inv
<1>1. Inv /\ [Next]_vars => Inv'
  <2> SUFFICES ASSUME Inv, [Next]_vars PROVE Inv'
    OBVIOUS
  <2>1. CASE UNCHANGED vars
    BY <2>1 DEF vars, subVars, pubVars, Inv, TypeOK, MapAgrees, NoEmptyMap, Subscribed,
                NoSendOnClosed, OnlyOwnerPublishes, ParkedIsCurrent
  <2>2. CASE Next
    BY <2>2, SubscribeInv, UnsubscribeInv, PublishLockInv, PublishChannelInv,
       PublishToInv, PublishUnlockInv, ReceiveInv, ListenInv DEF Next, Publish
  <2>3. QED
    BY <2>1, <2>2
<1>2. QED
  BY InitInv, <1>1, PTL DEF Spec

(* Every variable keeps its type and no subscription's Go channel ever holds *)
(* more than eventBufferSize events.                                         *)
THEOREM TypeCorrect == Spec => []TypeOK
<1>1. Inv => TypeOK
  BY DEF Inv
<1>2. QED
  BY <1>1, Invariance, PTL

(* No Publish ever sends on the channel of a closed subscription. *)
THEOREM NeverSendsOnClosed == Spec => []NoSendOnClosed
<1>1. Inv => NoSendOnClosed
  BY DEF Inv
<1>2. QED
  BY <1>1, Invariance, PTL

(* The map of each channel is exactly the open subscriptions created for it, *)
(* and no empty map is kept.                                                 *)
THEOREM MapIsExact == Spec => [](MapAgrees /\ NoEmptyMap)
<1>1. Inv => MapAgrees /\ NoEmptyMap
  BY DEF Inv
<1>2. QED
  BY <1>1, Invariance, PTL

-----------------------------------------------------------------------------
(* Refinement.  What is left to send is counted along the list of channels. *)
Count(q, S) == Cardinality({i \in DOMAIN q : q[i] \in S})

(* n copies of an event. *)
Rep(e, n) == [k \in 1..n |-> e]

LEMMA CountEmpty ==
  ASSUME NEW S
  PROVE  Count(<< >>, S) = 0
<1>1. {k \in DOMAIN << >> : << >>[k] \in S} = {}
  OBVIOUS
<1>2. QED
  BY <1>1, FS_EmptySet DEF Count

LEMMA CountIsNat ==
  ASSUME NEW q \in Seq(Channels), NEW S
  PROVE  /\ IsFiniteSet({k \in DOMAIN q : q[k] \in S})
         /\ Count(q, S) \in Nat
<1>1. DOMAIN q = 1..Len(q) /\ Len(q) \in Nat
  BY LenProperties
<1>2. IsFiniteSet(1..Len(q))
  BY <1>1, FS_Interval
<1>3. {k \in DOMAIN q : q[k] \in S} \in SUBSET (1..Len(q))
  BY <1>1
<1>4. IsFiniteSet({k \in DOMAIN q : q[k] \in S})
  BY <1>2, <1>3, FS_Subset
<1>5. QED
  BY <1>4, FS_CardinalityType DEF Count

(* The first channel counts or not, and then the rest. *)
LEMMA CountTail ==
  ASSUME NEW q \in Seq(Channels), q # << >>, NEW S
  PROVE  Count(q, S) = (IF Head(q) \in S THEN 1 ELSE 0) + Count(Tail(q), S)
<1> DEFINE A == {k \in DOMAIN q : q[k] \in S}
           B == {k \in DOMAIN Tail(q) : Tail(q)[k] \in S}
           f == [k \in B |-> k + 1]
<1>1. /\ Tail(q) \in Seq(Channels) /\ Len(Tail(q)) = Len(q) - 1
      /\ \A k \in 1..Len(Tail(q)) : Tail(q)[k] = q[k + 1]
      /\ DOMAIN q = 1..Len(q) /\ DOMAIN Tail(q) = 1..Len(Tail(q)) /\ Len(q) \in Nat \ {0}
      /\ Head(q) = q[1]
  BY HeadTailProperties, LenProperties, EmptySeq
<1>2. IsFiniteSet(A) /\ IsFiniteSet(B) /\ Count(Tail(q), S) \in Nat
  BY <1>1, CountIsNat
<1>3. \A k \in A \ {1} : k - 1 \in B /\ f[k - 1] = k
  BY <1>1
<1>4. \A k \in B : f[k] \in A \ {1} /\ k \in Int
  BY <1>1
<1>5. f \in Bijection(B, A \ {1})
  <2>1. f \in [B -> A \ {1}]
    BY <1>4
  <2>2. \A k, m \in B : f[k] = f[m] => k = m
    BY <1>4
  <2>3. \A k \in A \ {1} : \E m \in B : f[m] = k
    BY <1>3
  <2>4. QED
    BY <2>1, <2>2, <2>3 DEF Bijection, Injection, Surjection, IsInjective
<1>6. Cardinality(A \ {1}) = Cardinality(B)
  BY ZenonT(30), <1>2, <1>5, FS_Bijection DEF ExistsBijection
<1>7. Cardinality(A \ {1}) = IF 1 \in A THEN Cardinality(A) - 1 ELSE Cardinality(A)
  BY <1>2, FS_RemoveElement
<1>8. 1 \in A <=> Head(q) \in S
  BY <1>1
<1>9. Cardinality(A) \in Nat
  BY <1>2, FS_CardinalityType
<1>10. Count(q, S) = Cardinality(A) /\ Count(Tail(q), S) = Cardinality(B)
  BY DEF Count
<1> HIDE DEF A, B
<1>11. QED
  BY <1>6, <1>7, <1>8, <1>9, <1>10

LEMMA RepFacts ==
  ASSUME NEW e \in Nat, NEW n \in Nat
  PROVE  /\ Rep(e, n) \in Seq(Nat) /\ Len(Rep(e, n)) = n
         /\ Rep(e, 0) = << >>
         /\ Rep(e, n + 1) = <<e>> \o Rep(e, n)
<1>1. Rep(e, n) \in Seq(Nat) /\ Len(Rep(e, n)) = n
  BY DEF Rep
<1>2. Rep(e, n + 1) \in Seq(Nat) /\ Len(Rep(e, n + 1)) = n + 1
  BY DEF Rep
<1>3. Rep(e, 0) = << >>
  BY DEF Rep
<1>4. Rep(e, n + 1) = <<e>> \o Rep(e, n)
  <2>1. <<e>> \in Seq(Nat) /\ Len(<<e>>) = 1 /\ <<e>>[1] = e
    OBVIOUS
  <2>2. /\ <<e>> \o Rep(e, n) \in Seq(Nat) /\ Len(<<e>> \o Rep(e, n)) = n + 1
        /\ \A k \in 1..n + 1 : (<<e>> \o Rep(e, n))[k] =
             IF k <= 1 THEN <<e>>[k] ELSE Rep(e, n)[k - 1]
    BY <1>1, <2>1, ConcatProperties
  <2>3. ASSUME NEW k \in 1..n + 1 PROVE Rep(e, n + 1)[k] = (<<e>> \o Rep(e, n))[k]
    <3>1. Rep(e, n + 1)[k] = e
      BY DEF Rep
    <3>2. k > 1 => Rep(e, n)[k - 1] = e
      BY DEF Rep
    <3>3. QED
      BY <2>1, <2>2, <3>1, <3>2
  <2>4. QED
    BY <1>2, <2>2, <2>3, SeqEqual
<1>5. QED
  BY <1>1, <1>3, <1>4

LEMMA Assoc == \A x, y, z \in Seq(Nat) : (x \o y) \o z = x \o (y \o z)
<1> DEFINE S == Nat
<1>1. \A x, y, z \in Seq(S) : (x \o y) \o z = x \o (y \o z)
  <2> HIDE DEF S
  <2> QED
    BY ConcatAssociative
<1>2. QED
  BY <1>1

Ahead(e, r) == <<e>> \o r

(* An event moves from what is owed to the buffer, and from the buffer to    *)
(* the consumer, without a change of the whole.                              *)
LEMMA Buffering ==
  ASSUME NEW g \in Seq(Nat), NEW b \in Seq(Nat), NEW r \in Seq(Nat), NEW e \in Nat
  PROVE  g \o Append(b, e) \o r = g \o b \o Ahead(e, r)
<1>1. <<e>> \in Seq(Nat) /\ Append(b, e) = b \o <<e>> /\ Append(g, e) = g \o <<e>>
  BY AppendIsConcat
<1>2. g \o Append(b, e) \o r = g \o b \o (<<e>> \o r)
  <2>1. g \o (b \o <<e>>) = (g \o b) \o <<e>>
    BY <1>1, Assoc
  <2>2. g \o b \in Seq(Nat)
    BY ConcatProperties
  <2>3. ((g \o b) \o <<e>>) \o r = (g \o b) \o (<<e>> \o r)
    BY <1>1, <2>2, Assoc
  <2>4. QED
    BY <1>1, <2>1, <2>3
<1>3. QED
  BY <1>2 DEF Ahead

LEMMA Handing ==
  ASSUME NEW g \in Seq(Nat), NEW r \in Seq(Nat), NEW e \in Nat
  PROVE  Append(g, e) \o << >> \o r = g \o << >> \o Ahead(e, r)
<1>1. <<e>> \in Seq(Nat) /\ Append(g, e) = g \o <<e>>
  BY AppendIsConcat
<1>2. Append(g, e) \o << >> \o r = g \o << >> \o (<<e>> \o r)
  <2>1. g \o << >> = g /\ Append(g, e) \o << >> = Append(g, e)
    BY ConcatEmptySeq, AppendProperties
  <2>2. (g \o <<e>>) \o r = g \o (<<e>> \o r)
    BY <1>1, Assoc
  <2>3. QED
    BY <1>1, <2>1, <2>2
<1>3. QED
  BY <1>2 DEF Ahead

LEMMA Taking ==
  ASSUME NEW g \in Seq(Nat), NEW b \in Seq(Nat), NEW r \in Seq(Nat), b # << >>
  PROVE  Append(g, Head(b)) \o Tail(b) \o r = g \o b \o r
<1>1. /\ Head(b) \in Nat /\ Tail(b) \in Seq(Nat) /\ <<Head(b)>> \in Seq(Nat)
      /\ Len(Tail(b)) = Len(b) - 1 /\ Len(b) \in Nat \ {0} /\ Head(b) = b[1]
      /\ \A i \in 1..Len(Tail(b)) : Tail(b)[i] = b[i + 1]
  BY HeadTailProperties, EmptySeq
<1>2. Append(g, Head(b)) = g \o <<Head(b)>>
  BY <1>1, AppendIsConcat
<1>3. <<Head(b)>> \o Tail(b) = b
  <2>1. /\ <<Head(b)>> \o Tail(b) \in Seq(Nat)
        /\ Len(<<Head(b)>> \o Tail(b)) = 1 + Len(Tail(b))
        /\ \A i \in 1..1 + Len(Tail(b)) : (<<Head(b)>> \o Tail(b))[i] =
             IF i <= 1 THEN <<Head(b)>>[i] ELSE Tail(b)[i - 1]
    BY <1>1, ConcatProperties
  <2>2. \A i \in 1..Len(b) : (<<Head(b)>> \o Tail(b))[i] = b[i]
    BY <1>1, <2>1
  <2>3. QED
    BY <1>1, <2>1, <2>2, SeqEqual
<1>4. (g \o <<Head(b)>>) \o Tail(b) = g \o (<<Head(b)>> \o Tail(b))
  BY ZenonT(30), <1>1, Assoc
<1>5. QED
  BY <1>2, <1>3, <1>4

(* The first event that the consumer has not received, and the prefix that   *)
(* a drop leaves.                                                            *)
LEMMA NextOwed ==
  ASSUME NEW g \in Seq(Nat), NEW r \in Seq(Nat), NEW e \in Nat
  PROVE  (g \o << >> \o Ahead(e, r))[Len(g) + 1] = e
<1>1. g \o << >> = g
  BY ConcatEmptySeq
<1>2. Len(g) \in Nat /\ Len(r) \in Nat
  BY LenProperties
<1>3. /\ <<e>> \in Seq(Nat) /\ Len(<<e>>) = 1 /\ <<e>>[1] = e
  OBVIOUS
<1>4. <<e>> \o r \in Seq(Nat) /\ Len(<<e>> \o r) = 1 + Len(r) /\ (<<e>> \o r)[1] = e
  BY <1>2, <1>3, ConcatProperties
<1>5. (g \o (<<e>> \o r))[Len(g) + 1] = (<<e>> \o r)[Len(g) + 1 - Len(g)]
  BY <1>2, <1>4, ConcatProperties
<1>6. Len(g) + 1 - Len(g) = 1
  BY <1>2
<1>7. QED
  BY <1>1, <1>4, <1>5, <1>6 DEF Ahead

LEMMA Fronts ==
  ASSUME NEW g \in Seq(Nat), NEW b \in Seq(Nat), NEW r \in Seq(Nat)
  PROVE  /\ b # << >> => (g \o b \o r)[Len(g) + 1] = Head(b)
         /\ SubSeq(g \o b \o r, 1, Len(g) + Len(b)) = g \o b
<1>1. /\ g \o b \in Seq(Nat) /\ Len(g \o b) = Len(g) + Len(b)
      /\ Len(g) \in Nat /\ Len(b) \in Nat /\ Len(r) \in Nat
      /\ \A i \in 1..Len(g) + Len(b) : (g \o b)[i] = IF i <= Len(g) THEN g[i] ELSE b[i - Len(g)]
  BY ConcatProperties, LenProperties
<1>2. /\ (g \o b) \o r \in Seq(Nat) /\ Len((g \o b) \o r) = Len(g) + Len(b) + Len(r)
      /\ \A i \in 1..Len(g) + Len(b) + Len(r) :
           ((g \o b) \o r)[i] = IF i <= Len(g) + Len(b) THEN (g \o b)[i]
                                                       ELSE r[i - (Len(g) + Len(b))]
  BY <1>1, ConcatProperties
<1>3. ASSUME b # << >> PROVE (g \o b \o r)[Len(g) + 1] = Head(b)
  <2>1. Len(b) \in Nat \ {0} /\ Head(b) = b[1]
    BY <1>3, EmptySeq
  <2>2. QED
    BY <1>1, <1>2, <2>1
<1>4. SubSeq(g \o b \o r, 1, Len(g) + Len(b)) = g \o b
  <2>1. \A i \in 1..Len(g) + Len(b) : ((g \o b) \o r)[i] = (g \o b)[i] /\ ((g \o b) \o r)[i] \in Nat
    BY <1>1, <1>2, ElementOfSeq
  <2>2. /\ SubSeq((g \o b) \o r, 1, Len(g) + Len(b)) \in Seq(Nat)
        /\ Len(SubSeq((g \o b) \o r, 1, Len(g) + Len(b))) = Len(g) + Len(b)
        /\ \A i \in 1..Len(g) + Len(b) :
             SubSeq((g \o b) \o r, 1, Len(g) + Len(b))[i] = ((g \o b) \o r)[i]
    BY <1>1, <2>1, SubSeqProperties
  <2>3. QED
    BY <1>1, <2>1, <2>2, SeqEqual
<1>5. QED
  BY <1>3, <1>4

(* What mu's Publish still owes an open subscription. *)
Owes(s) == (IF s \in pending[mu] THEN 1 ELSE 0) + Count(todo[mu], chans[s])

LEMMA OwedFacts ==
  ASSUME Inv, NEW s \in Subs
  PROVE  /\ mu = NoOne \/ state[s] # "open" => Owed(s) = << >>
         /\ mu # NoOne /\ state[s] = "open" =>
              Owes(s) \in Nat /\ event[mu] \in Nat /\ Owed(s) = Rep(event[mu], Owes(s))
         /\ Owed(s) \in Seq(Nat)
<1>1. mu = NoOne \/ state[s] # "open" => Owed(s) = << >>
  BY DEF Owed
<1>2. ASSUME mu # NoOne, state[s] = "open"
      PROVE  Owes(s) \in Nat /\ event[mu] \in Nat /\ Owed(s) = Rep(event[mu], Owes(s))
  <2>1. mu \in Publishers /\ todo[mu] \in Seq(Channels) /\ event[mu] \in Nat
    BY <1>2 DEF Inv, TypeOK
  <2>2. Owes(s) \in Nat
    <3>1. Count(todo[mu], chans[s]) \in Nat
      BY <2>1, CountIsNat
    <3>2. QED
      BY <3>1 DEF Owes
  <2>3. Owed(s) = [i \in 1..Owes(s) |-> event[mu]]
    BY <1>2 DEF Owed, Owes, Count
  <2>4. QED
    BY <2>1, <2>2, <2>3 DEF Rep
<1>3. Owed(s) \in Seq(Nat)
  BY <1>1, <1>2, RepFacts
<1>4. QED
  BY <1>1, <1>2, <1>3

Log(s) == got[s] \o c[s] \o Owed(s)

LEMMA LogFacts ==
  ASSUME Inv, NEW s \in Subs
  PROVE  /\ got[s] \in Seq(Nat) /\ c[s] \in Seq(Nat) /\ Owed(s) \in Seq(Nat)
         /\ got[s] \o c[s] \in Seq(Nat) /\ Log(s) \in Seq(Nat)
         /\ Len(Log(s)) = Len(got[s]) + Len(c[s]) + Len(Owed(s))
<1>1. got[s] \in Seq(Nat) /\ c[s] \in Seq(Nat) /\ Owed(s) \in Seq(Nat)
  BY OwedFacts DEF Inv, TypeOK
<1>2. got[s] \o c[s] \in Seq(Nat) /\ Len(got[s] \o c[s]) = Len(got[s]) + Len(c[s])
  BY <1>1, ConcatProperties
<1>3. Log(s) \in Seq(Nat) /\ Len(Log(s)) = Len(got[s] \o c[s]) + Len(Owed(s))
  BY <1>1, <1>2, ConcatProperties DEF Log
<1>4. QED
  BY <1>1, <1>2, <1>3

(* Steps that leave the logs and what the contract sees alone. *)
LEMMA SameLogs ==
  ASSUME \A s \in Subs : Log(s)' = Log(s)
  PROVE  [s \in Subs |-> got[s] \o c[s] \o Owed(s)]'
           = [s \in Subs |-> got[s] \o c[s] \o Owed(s)]
BY DEF Log

LEMMA InitRefines == Init => Contract!Init
<1> SUFFICES ASSUME Init PROVE Contract!Init
  OBVIOUS
<1>1. \A s \in Subs : got[s] \o c[s] \o Owed(s) = << >>
  BY DEF Init, Owed
<1>2. QED
  BY <1>1 DEF Init, Contract!Init

(* Subscribe and Unsubscribe run outside every Publish: nothing is owed. *)
LEMMA SubscribeRefines ==
  ASSUME Inv, NEW s \in Subs, NEW cs \in SUBSET Channels, Subscribe(s, cs)
  PROVE  Contract!Subscribe(s, cs) /\ cs # {}
<1>1. \A t \in Subs : Log(t)' = Log(t)
  BY DEF Subscribe, Log, Owed
<1>2. QED
  BY <1>1, SameLogs DEF Subscribe, Contract!Subscribe

LEMMA UnsubscribeRefines ==
  ASSUME Inv, NEW s \in Subs, Unsubscribe(s)
  PROVE  Contract!Close(s) \/ UNCHANGED Contract!vars
<1>1. \A t \in Subs : Log(t)' = Log(t)
  BY DEF Unsubscribe, Log, Owed
<1>2. /\ state' = [state EXCEPT ![s] = "closed"] /\ state[s] \in {"open", "closed"}
      /\ UNCHANGED <<chans, got, published>>
  BY DEF Unsubscribe, removeSubscription, Inv, TypeOK
<1>3. CASE state[s] = "open"
  BY <1>1, <1>2, <1>3, SameLogs DEF Contract!Close
<1>4. CASE state[s] = "closed"
  <2>1. state' = state
    BY <1>2, <1>4 DEF Inv, TypeOK
  <2>2. QED
    BY <1>1, <1>2, <2>1, SameLogs DEF Contract!vars
<1>5. QED
  BY <1>2, <1>3, <1>4

(* A Publish takes effect for the contract when it takes mu. *)
LEMMA LockRefines ==
  ASSUME Inv, NEW p \in Publishers, NEW cs \in ChannelLists, PublishLock(p, cs)
  PROVE  Contract!Publish(cs)
<1> DEFINE log == [s \in Subs |-> got[s] \o c[s] \o Owed(s)]
<1>1. /\ mu = NoOne /\ mu' = p /\ p # NoOne /\ pending' = pending /\ pending[p] = {}
      /\ todo'[p] = cs /\ event'[p] = published + 1 /\ published \in Nat
      /\ UNCHANGED <<state, chans, c, got>>
      /\ published < MaxEvents /\ published' = published + 1
  BY NoOneAssumption DEF PublishLock, subVars, Inv, TypeOK, OnlyOwnerPublishes
<1>2. ASSUME NEW s \in Subs
      PROVE  log'[s] = IF state[s] = "open"
                       THEN log[s] \o [i \in 1..Contract!Copies(s, cs) |-> published + 1]
                       ELSE log[s]
  <2>1. /\ Owed(s) = << >> /\ got[s] \o c[s] \in Seq(Nat)
        /\ log[s] = got[s] \o c[s] \o Owed(s)
        /\ log'[s] = got[s] \o c[s] \o Owed(s)'
    BY <1>1, OwedFacts, LogFacts
  <2>2. log[s] = got[s] \o c[s]
    BY <2>1, ConcatEmptySeq
  <2>3. CASE state[s] = "open"
    <3>1. Owes(s)' = Contract!Copies(s, cs)
      <4>1. cs \in Seq(Channels)
        BY ChannelListsAreSeqs
      <4>2. Count(cs, chans[s]) \in Nat
        BY <4>1, CountIsNat
      <4>3. Owes(s)' = 0 + Count(cs, chans[s])
        BY <1>1 DEF Owes
      <4>4. Count(cs, chans[s]) = Contract!Copies(s, cs)
        BY DEF Count, Contract!Copies, Cardinality, Contract!Cardinality
      <4>5. QED
        BY <4>2, <4>3, <4>4
    <3>2. Owed(s)' = Rep(published + 1, Owes(s)')
      <4>1. Inv'
        BY PublishLockInv
      <4>2. Owed(s)' = [i \in 1..Owes(s)' |-> event'[mu']]
        BY <1>1, <2>3 DEF Owed, Owes, Count
      <4>3. QED
        BY <1>1, <4>2 DEF Rep
    <3>3. QED
      BY <2>1, <2>2, <2>3, <3>1, <3>2 DEF Rep
  <2>4. CASE state[s] # "open"
    BY <1>1, <2>1, <2>4 DEF Owed
  <2>5. QED
    BY <2>3, <2>4
<1>3. log' = [s \in Subs |-> IF state[s] = "open"
                            THEN log[s] \o [i \in 1..Contract!Copies(s, cs) |-> published + 1]
                            ELSE log[s]]
  BY <1>2
<1>4. QED
  BY <1>1, <1>3 DEF Contract!Publish

(* Moving on to the next channel changes where the copies are counted. *)
LEMMA ChannelRefines ==
  ASSUME Inv, NEW p \in Publishers, PublishChannel(p)
  PROVE  UNCHANGED Contract!vars
<1>1. /\ mu = p /\ mu' = p /\ p # NoOne /\ pending[p] = {}
      /\ todo[p] \in Seq(Channels) /\ todo[p] # << >> /\ todo'[p] = Tail(todo[p])
      /\ pending'[p] = Subscribed(Head(todo[p])) /\ Head(todo[p]) \in Channels
      /\ UNCHANGED <<event, state, chans, c, got, published>>
  BY NoOneAssumption DEF PublishChannel, subVars, Inv, TypeOK
<1>2. ASSUME NEW s \in Subs PROVE Log(s)' = Log(s)
  <2>1. CASE state[s] = "open"
    <3>1. s \in pending'[p] <=> Head(todo[p]) \in chans[s]
      BY <1>1, <2>1 DEF Inv, MapAgrees
    <3>2. Count(todo[p], chans[s])
            = (IF Head(todo[p]) \in chans[s] THEN 1 ELSE 0) + Count(Tail(todo[p]), chans[s])
      BY <1>1, CountTail
    <3>3. Count(todo[p], chans[s]) \in Nat
      BY <1>1, CountIsNat
    <3>4. Owes(s) = 0 + Count(todo[p], chans[s])
      BY <1>1 DEF Owes
    <3>5. Owes(s)' = (IF s \in pending'[p] THEN 1 ELSE 0) + Count(Tail(todo[p]), chans[s])
      BY <1>1 DEF Owes
    <3>6. Owes(s)' = Owes(s)
      BY <3>1, <3>2, <3>3, <3>4, <3>5
    <3>7. Owed(s) = [i \in 1..Owes(s) |-> event[mu]]
      BY <1>1, <2>1 DEF Owed, Owes, Count
    <3>8. Owed(s)' = [i \in 1..Owes(s)' |-> event'[mu']]
      BY <1>1, <2>1 DEF Owed, Owes, Count
    <3>9. QED
      BY <1>1, <3>6, <3>7, <3>8 DEF Log
  <2>2. CASE state[s] # "open"
    BY <1>1, <2>2 DEF Log, Owed
  <2>3. QED
    BY <2>1, <2>2
<1>3. QED
  BY <1>1, <1>2, SameLogs DEF Contract!vars

(* One turn of the inner loop: the subscription owed a copy is owed one less, *)
(* the others what they were.                                                *)
LEMMA TurnOwes ==
  ASSUME Inv, NEW p \in Publishers, NEW s \in Subs, PublishTo(p, s)
  PROVE  /\ mu = p /\ p # NoOne /\ state[s] = "open" /\ event[p] \in Nat
         /\ UNCHANGED <<mu, chans, published, event>>
         /\ \A t \in Subs \ {s} : state'[t] = state[t] => Owed(t)' = Owed(t)
         /\ \E r \in Seq(Nat) :
              /\ Owed(s) = Ahead(event[p], r) /\ Len(Owed(s)) > 0
              /\ state'[s] = "open" => Owed(s)' = r
<1>1. /\ mu = p /\ mu' = p /\ p # NoOne /\ s \in pending[p] /\ pending'[p] = pending[p] \ {s}
      /\ UNCHANGED <<chans, published, event, todo>>
      /\ state[s] = "open" /\ event[p] \in Nat /\ todo[p] \in Seq(Channels)
  BY NoOneAssumption DEF PublishTo, Inv, TypeOK, NoSendOnClosed
<1>2. ASSUME NEW t \in Subs \ {s}, state'[t] = state[t]
      PROVE  Owed(t)' = Owed(t)
  BY <1>1, <1>2 DEF Owed
<1>3. /\ Owes(s) = 1 + Count(todo[p], chans[s]) /\ Count(todo[p], chans[s]) \in Nat
      /\ Owes(s)' = 0 + Count(todo[p], chans[s])
  BY <1>1, CountIsNat DEF Owes
<1> DEFINE n == Count(todo[p], chans[s])
           r == Rep(event[p], n)
<1>4. r \in Seq(Nat) /\ Rep(event[p], n + 1) = Ahead(event[p], r)
  BY <1>1, <1>3, RepFacts DEF Ahead
<1>5. Owed(s) = Rep(event[p], n + 1)
  <2>1. Owed(s) = Rep(event[mu], Owes(s))
    BY <1>1, OwedFacts
  <2>2. Owes(s) = n + 1
    BY <1>3
  <2>3. QED
    BY <1>1, <2>1, <2>2
<1>6. ASSUME state'[s] = "open" PROVE Owed(s)' = r
  <2>1. Owed(s)' = [i \in 1..Owes(s)' |-> event'[mu']]
    BY <1>1, <1>6 DEF Owed, Owes, Count
  <2>2. Owes(s)' = n
    BY <1>3
  <2>3. QED
    BY <1>1, <2>1, <2>2 DEF Rep
<1>7. Len(Rep(event[p], n + 1)) = n + 1
  <2>1. n + 1 \in Nat
    BY <1>3
  <2>2. QED
    BY <1>1, <2>1, RepFacts
<1>8. Len(Owed(s)) > 0
  BY <1>3, <1>5, <1>7
<1>9. QED
  BY <1>1, <1>2, <1>4, <1>5, <1>6, <1>8

(* A send to a parked consumer is a Receive, a send into the buffer no step, *)
(* and the removal of a slow subscription a Drop.                            *)
LEMMA TurnRefines ==
  ASSUME Inv, NEW p \in Publishers, NEW s \in Subs, PublishTo(p, s)
  PROVE  Contract!Receive(s) \/ Contract!Drop(s) \/ UNCHANGED Contract!vars
<1> DEFINE log == [t \in Subs |-> got[t] \o c[t] \o Owed(t)]
           e == event[p]
<1>1. /\ state[s] = "open" /\ e \in Nat /\ UNCHANGED <<chans, published>>
      /\ \A t \in Subs \ {s} : state'[t] = state[t] => Owed(t)' = Owed(t)
  BY TurnOwes
<1>2. PICK r \in Seq(Nat) : /\ Owed(s) = Ahead(e, r) /\ Len(Owed(s)) > 0
                            /\ state'[s] = "open" => Owed(s)' = r
  BY TurnOwes
<1>3. /\ got[s] \in Seq(Nat) /\ c[s] \in Seq(Nat) /\ Owed(s) \in Seq(Nat)
      /\ Len(Log(s)) = Len(got[s]) + Len(c[s]) + Len(Owed(s))
      /\ log[s] = Log(s)
  BY LogFacts DEF Log
<1>a. got[s] \in Seq(Nat) /\ c[s] \in Seq(Nat) /\ Owed(s) \in Seq(Nat)
  BY LogFacts
<1>b. Len(got[s]) \in Nat /\ Len(c[s]) \in Nat /\ Len(Owed(s)) \in Nat
  BY <1>a, LenProperties
<1>c. Len(log[s]) = Len(got[s]) + Len(c[s]) + Len(Owed(s))
  BY <1>3
<1>e. e \in Nat
  BY <1>1
<1>d. /\ got[s] \o Append(c[s], e) \o r = got[s] \o c[s] \o Owed(s)
      /\ Append(got[s], e) \o << >> \o r = got[s] \o << >> \o Owed(s)
      /\ (got[s] \o << >> \o Owed(s))[Len(got[s]) + 1] = e
  <2> HIDE DEF e
  <2>1. r \in Seq(Nat) /\ Owed(s) = Ahead(e, r)
    BY <1>2
  <2>2. got[s] \o Append(c[s], e) \o r = got[s] \o c[s] \o Ahead(e, r)
    <3>1. got[s] \in Seq(Nat) /\ c[s] \in Seq(Nat)
      BY <1>a
    <3>2. QED
      BY ZenonT(30), <1>e, <2>1, <3>1, Buffering
  <2>3. Append(got[s], e) \o << >> \o r = got[s] \o << >> \o Ahead(e, r)
    BY <1>a, <1>e, <2>1, Handing
  <2>4. (got[s] \o << >> \o Ahead(e, r))[Len(got[s]) + 1] = e
    BY <1>a, <1>e, <2>1, NextOwed
  <2>5. QED
    BY <2>1, <2>2, <2>3, <2>4
<1>4. CASE SendTo(p, s)
  <2>1. UNCHANGED state
    BY <1>4 DEF SendTo
  <2>2. Owed(s)' = r
    BY <1>1, <1>2, <2>1
  <2>3. \A t \in Subs \ {s} : got'[t] = got[t] /\ c'[t] = c[t] /\ Log(t)' = Log(t)
    <3>1. \A t \in Subs \ {s} : got'[t] = got[t] /\ c'[t] = c[t]
      BY <1>4 DEF SendTo, Inv, TypeOK
    <3>2. QED
      BY <1>1, <2>1, <3>1 DEF Log
  <2>4. CASE listening[s]
    <3>1. /\ c[s] = << >> /\ c' = c /\ got' = [got EXCEPT ![s] = Append(got[s], e)]
          /\ got'[s] = Append(got[s], e)
      BY <1>4, <2>4 DEF SendTo, Inv, TypeOK, ParkedIsCurrent
    <3>2. Log(s)' = Log(s)
      <4>1. /\ Log(s)' = Append(got[s], e) \o << >> \o r
            /\ Log(s) = got[s] \o << >> \o Owed(s)
        BY <2>2, <3>1 DEF Log
      <4>2. QED
        BY <1>d, <4>1
    <3>3. log' = log
      BY <2>3, <3>2 DEF Log
    <3>4. log[s][Len(got[s]) + 1] = e
      <4>1. log[s] = got[s] \o << >> \o Owed(s)
        BY <1>3, <3>1 DEF Log
      <4>2. QED
        BY <1>d, <4>1
    <3>5. Len(got[s]) < Len(log[s])
      <4> DEFINE x == Len(got[s])
                 y == Len(c[s])
                 z == Len(Owed(s))
                 l == Len(log[s])
      <4>1. z > 0
        BY <1>2
      <4>2. x \in Nat /\ y \in Nat /\ z \in Nat /\ l = x + y + z
        BY <1>b, <1>c
      <4> HIDE DEF x, y, z, l
      <4>3. x < l
        BY <4>1, <4>2
      <4>4. QED
        BY <4>3 DEF x, l
    <3>6. QED
      BY <1>1, <2>1, <3>1, <3>3, <3>4, <3>5 DEF Contract!Receive
  <2>5. CASE ~listening[s]
    <3>1. got' = got /\ c'[s] = Append(c[s], e)
      BY <1>4, <2>5 DEF SendTo, Inv, TypeOK
    <3>2. Log(s)' = Log(s)
      <4>1. Log(s)' = got[s] \o Append(c[s], e) \o r
        BY <2>2, <3>1 DEF Log
      <4>2. QED
        BY <1>d, <4>1 DEF Log
    <3>3. log' = log
      BY <2>3, <3>2 DEF Log
    <3>4. QED
      BY <1>1, <2>1, <3>1, <3>3 DEF Contract!vars
  <2>6. QED
    BY <2>4, <2>5
<1>5. CASE RemoveSlow(s)
  <2>1. /\ state' = [state EXCEPT ![s] = "closed"] /\ state'[s] = "closed"
        /\ \A t \in Subs \ {s} : state'[t] = state[t]
        /\ UNCHANGED <<c, got>>
    BY <1>5 DEF RemoveSlow, removeSubscription, Inv, TypeOK
  <2>2. Len(c[s]) = eventBufferSize
    <3>1. ~(Len(c[s]) < eventBufferSize) /\ Len(c[s]) <= eventBufferSize
      BY <1>5 DEF RemoveSlow, CanSend, Inv, TypeOK
    <3>2. QED
      BY <1>3, <3>1, SizeAssumption
  <2>3. Owed(s)' = << >>
    BY <2>1 DEF Owed
  <2>4. Log(s)' = SubSeq(log[s], 1, Len(got[s]) + eventBufferSize)
    <3>1. Log(s)' = got[s] \o c[s]
      <4>1. got[s] \o c[s] \in Seq(Nat)
        BY <1>3, ConcatProperties
      <4>2. QED
        BY <2>1, <2>3, <4>1, ConcatEmptySeq DEF Log
    <3>2. SubSeq(got[s] \o c[s] \o Owed(s), 1, Len(got[s]) + Len(c[s])) = got[s] \o c[s]
      BY <1>a, Fronts
    <3>3. QED
      BY <1>3, <2>2, <3>1, <3>2 DEF Log
  <2>5. \A t \in Subs \ {s} : Log(t)' = Log(t)
    BY <1>1, <2>1 DEF Log
  <2>6. log' = [log EXCEPT ![s] = SubSeq(@, 1, Len(got[s]) + eventBufferSize)]
    BY <2>4, <2>5 DEF Log
  <2>7. Len(log[s]) - Len(got[s]) > eventBufferSize
    <3> HIDE DEF log
    <3>1. Len(Owed(s)) > 0
      BY <1>2
    <3>2. QED
      BY <1>b, <1>c, <2>2, <3>1
  <2>8. QED
    BY <1>1, <2>1, <2>6, <2>7 DEF Contract!Drop
<1>6. QED
  BY <1>4, <1>5 DEF PublishTo

(* The Publish that ends owes nothing. *)
LEMMA UnlockRefines ==
  ASSUME Inv, NEW p \in Publishers, PublishUnlock(p)
  PROVE  UNCHANGED Contract!vars
<1>1. /\ mu = p /\ mu' = NoOne /\ p # NoOne /\ pending[p] = {} /\ todo[p] = << >>
      /\ UNCHANGED <<state, chans, c, got, published>> /\ event[p] \in Nat
  BY NoOneAssumption DEF PublishUnlock, subVars, Inv, TypeOK
<1>2. ASSUME NEW s \in Subs PROVE Log(s)' = Log(s)
  <2>1. Owed(s)' = << >>
    BY <1>1 DEF Owed
  <2>2. Owed(s) = << >>
    <3>1. CASE state[s] = "open"
      <4>1. Owes(s) = 0
        BY <1>1, CountEmpty DEF Owes
      <4>2. QED
        BY <1>1, <3>1, <4>1, OwedFacts, RepFacts
    <3>2. QED
      BY <3>1, OwedFacts
  <2>3. QED
    BY <1>1, <2>1, <2>2 DEF Log
<1>3. QED
  BY <1>1, <1>2, SameLogs DEF Contract!vars

LEMMA ReceiveRefines ==
  ASSUME Inv, NEW s \in Subs, Receive(s)
  PROVE  Contract!Receive(s)
<1> DEFINE log == [t \in Subs |-> got[t] \o c[t] \o Owed(t)]
<1>1. /\ c[s] # << >> /\ got' = [got EXCEPT ![s] = Append(got[s], Head(c[s]))]
      /\ got'[s] = Append(got[s], Head(c[s])) /\ c'[s] = Tail(c[s])
      /\ \A t \in Subs \ {s} : got'[t] = got[t] /\ c'[t] = c[t]
      /\ UNCHANGED <<mu, state, chans, published, event, todo, pending>>
  BY DEF Receive, pubVars, Inv, TypeOK
<1>2. \A t \in Subs : Owed(t)' = Owed(t)
  BY <1>1 DEF Owed
<1>3. /\ got[s] \in Seq(Nat) /\ c[s] \in Seq(Nat) /\ Owed(s) \in Seq(Nat)
      /\ Len(Log(s)) = Len(got[s]) + Len(c[s]) + Len(Owed(s))
      /\ log[s] = Log(s)
  BY LogFacts DEF Log
<1>a. got[s] \in Seq(Nat) /\ c[s] \in Seq(Nat) /\ Owed(s) \in Seq(Nat)
  BY LogFacts
<1>b. Len(got[s]) \in Nat /\ Len(c[s]) \in Nat /\ Len(Owed(s)) \in Nat
  BY <1>a, LenProperties
<1>c. Len(log[s]) = Len(got[s]) + Len(c[s]) + Len(Owed(s))
  BY <1>3
<1>4. Log(s)' = Log(s) /\ log[s][Len(got[s]) + 1] = Head(c[s])
  <2>2. /\ Append(got[s], Head(c[s])) \o Tail(c[s]) \o Owed(s) = got[s] \o c[s] \o Owed(s)
        /\ (got[s] \o c[s] \o Owed(s))[Len(got[s]) + 1] = Head(c[s])
    <3>1. c[s] # << >>
      BY <1>1
    <3>2. Append(got[s], Head(c[s])) \o Tail(c[s]) \o Owed(s) = got[s] \o c[s] \o Owed(s)
      BY <1>a, <3>1, Taking
    <3>3. (got[s] \o c[s] \o Owed(s))[Len(got[s]) + 1] = Head(c[s])
      BY <1>a, <3>1, Fronts
    <3>4. QED
      BY <3>2, <3>3
  <2>3. Log(s)' = Append(got[s], Head(c[s])) \o Tail(c[s]) \o Owed(s)
    BY <1>1, <1>2 DEF Log
  <2>4. QED
    BY <1>3, <2>2, <2>3 DEF Log
<1>5. log' = log
  <2>1. \A t \in Subs : Log(t)' = Log(t)
    BY <1>1, <1>2, <1>4 DEF Log
  <2>2. QED
    BY <2>1 DEF Log
<1>6. Len(c[s]) \in Nat \ {0}
  BY <1>1, <1>3, EmptySeq
<1>7. Len(got[s]) < Len(log[s])
  <2> DEFINE x == Len(got[s])
             y == Len(c[s])
             z == Len(Owed(s))
             l == Len(log[s])
  <2>1. x \in Nat /\ y \in Nat \ {0} /\ z \in Nat /\ l = x + y + z
    BY <1>b, <1>c, <1>6
  <2> HIDE DEF x, y, z, l
  <2>2. x < l
    BY <2>1
  <2>3. QED
    BY <2>2 DEF x, l
<1>8. QED
  BY <1>1, <1>4, <1>5, <1>7 DEF Contract!Receive

LEMMA ListenRefines ==
  ASSUME Inv, NEW s \in Subs, Listen(s)
  PROVE  UNCHANGED Contract!vars
<1>1. \A t \in Subs : Log(t)' = Log(t)
  BY DEF Listen, pubVars, Log, Owed
<1>2. QED
  BY <1>1, SameLogs DEF Listen, Contract!vars

(* Every step of the bus is a step of the contract or none of its variables *)
(* change.                                                                  *)
LEMMA StepRefines ==
  ASSUME Inv, [Next]_vars
  PROVE  [Contract!Next]_(Contract!vars)
<1>1. ASSUME NEW s \in Subs, NEW cs \in SUBSET Channels, Subscribe(s, cs)
      PROVE  Contract!Next
  BY <1>1, SubscribeRefines DEF Contract!Next
<1>2. ASSUME NEW s \in Subs, Unsubscribe(s)
      PROVE  [Contract!Next]_(Contract!vars)
  BY <1>2, UnsubscribeRefines DEF Contract!Next
<1>3. ASSUME NEW p \in Publishers, NEW cs \in ChannelLists, PublishLock(p, cs)
      PROVE  Contract!Next
  <2>1. Contract!Publish(cs)
    BY <1>3, LockRefines
  <2>2. ChannelLists = Contract!ChannelLists
    BY DEF ChannelLists, Contract!ChannelLists
  <2>3. QED
    BY <2>1, <2>2 DEF Contract!Next
<1>4. ASSUME NEW p \in Publishers, PublishChannel(p)
      PROVE  UNCHANGED Contract!vars
  BY <1>4, ChannelRefines
<1>5. ASSUME NEW p \in Publishers, NEW s \in Subs, PublishTo(p, s)
      PROVE  [Contract!Next]_(Contract!vars)
  BY <1>5, TurnRefines DEF Contract!Next
<1>6. ASSUME NEW p \in Publishers, PublishUnlock(p)
      PROVE  UNCHANGED Contract!vars
  BY <1>6, UnlockRefines
<1>7. ASSUME NEW s \in Subs, Receive(s)
      PROVE  Contract!Next
  BY <1>7, ReceiveRefines DEF Contract!Next
<1>8. ASSUME NEW s \in Subs, Listen(s)
      PROVE  UNCHANGED Contract!vars
  BY <1>8, ListenRefines
<1>9. CASE UNCHANGED vars
  <2>1. \A t \in Subs : Log(t)' = Log(t)
    BY <1>9 DEF vars, subVars, pubVars, Log, Owed
  <2>2. QED
    BY <1>9, <2>1, SameLogs DEF vars, subVars, Contract!vars
<1>10. QED
  BY <1>1, <1>2, <1>3, <1>4, <1>5, <1>6, <1>7, <1>8, <1>9 DEF Next, Publish

(* The in-memory bus implements the contract of the pubsub package: behind  *)
(* its mutex, its channels and its publishers' loops there is one log per   *)
(* subscription, to which a Publish appends in one step and from which the  *)
(* consumer reads in order.                                                 *)
THEOREM BusKeepsContract == Spec => ImplementsContract
<1>1. Init => Contract!Init
  BY InitRefines
<1>2. Inv /\ [Next]_vars => [Contract!Next]_(Contract!vars)
  BY StepRefines
<1>3. Spec => []Inv
  BY Invariance
<1>4. QED
  BY <1>1, <1>2, <1>3, PTL DEF Spec, ImplementsContract, Contract!Spec
=============================================================================
