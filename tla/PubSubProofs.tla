---------------------------- MODULE PubSubProofs ----------------------------
(***************************************************************************)
(* The properties of the publish/subscribe run, for every value of the     *)
(* constants, from the theorems about its components: the in-memory bus    *)
(* with a buffer and with none, and the Kafka consumer group.              *)
(***************************************************************************)
EXTENDS MCPubSub, InmemPubSubProofs

(* The provers that a step is tried with, and how long each may take. *)
USE ZenonT(5), SMTT(30)

UP == INSTANCE InmemPubSubProofs WITH
  eventBufferSize <- 0, mu <- u_mu, channelsSubs <- u_channelsSubs, state <- u_state,
  chans <- u_chans, c <- u_c, listening <- u_listening, got <- u_got,
  published <- u_published, event <- u_event, todo <- u_todo, pending <- u_pending

GP == INSTANCE KafkaSaramaGroupProofs WITH
  creator <- g_creator, awaited <- g_awaited, ready <- g_ready, closed <- g_closed,
  loop <- g_loop, fails <- g_fails, ctxDone <- g_ctxDone, session <- g_session,
  ended <- g_ended, claim <- g_claim, next <- g_next, acker <- g_acker,
  marked <- g_marked, committed <- g_committed, eventChClosed <- g_eventChClosed,
  closer <- g_closer

(* The bus that InmemPubSubProofs is about is the unbuffered one of the run. *)
LEMMA UnbufferedIsBus ==
  /\ Unbuffered!Init => UP!Init
  /\ [Unbuffered!Next]_(Unbuffered!vars) => [UP!Next]_(UP!vars)
<1>1. Unbuffered!Init => UP!Init
  BY DEF Unbuffered!Init, UP!Init
<1>2. [Unbuffered!Next]_(Unbuffered!vars) => [UP!Next]_(UP!vars)
  BY DEF
      Unbuffered!subVars, Unbuffered!pubVars, Unbuffered!vars, Unbuffered!Subscribed,
      Unbuffered!ChannelLists, Unbuffered!Subscribe, Unbuffered!Without,
      Unbuffered!removeSubscription, Unbuffered!Unsubscribe, Unbuffered!PublishLock,
      Unbuffered!PublishChannel, Unbuffered!CanSend, Unbuffered!SendTo,
      Unbuffered!RemoveSlow, Unbuffered!PublishTo, Unbuffered!PublishUnlock,
      Unbuffered!Receive, Unbuffered!Listen, Unbuffered!Publish, Unbuffered!Next,
      UP!subVars, UP!pubVars, UP!vars, UP!Subscribed, UP!ChannelLists, UP!Subscribe,
      UP!Without, UP!removeSubscription, UP!Unsubscribe, UP!PublishLock,
      UP!PublishChannel, UP!CanSend, UP!SendTo, UP!RemoveSlow, UP!PublishTo,
      UP!PublishUnlock, UP!Receive, UP!Listen, UP!Publish, UP!Next
<1>3. QED
  BY <1>1, <1>2

(* The contract it keeps is that of the run. *)
LEMMA SameContract == UP!ImplementsContract => Unbuffered!ImplementsContract
<1>1. /\ \A s : UP!Owed(s) = Unbuffered!Owed(s)
      /\ \A s : UP!Owed(s)' = Unbuffered!Owed(s)'
  <2>1. \A S : UP!Cardinality(S) = Unbuffered!Cardinality(S)
    BY DEF UP!Cardinality, Unbuffered!Cardinality
  <2>2. QED
    BY <2>1 DEF UP!Owed, Unbuffered!Owed
<1>2. UP!Contract!Init => Unbuffered!Contract!Init
  BY <1>1 DEF UP!Contract!Init, Unbuffered!Contract!Init
<1>3. [UP!Contract!Next]_(UP!Contract!vars)
        => [Unbuffered!Contract!Next]_(Unbuffered!Contract!vars)
  <2>1. ASSUME NEW s, NEW cs, UP!Contract!Subscribe(s, cs)
       PROVE  Unbuffered!Contract!Subscribe(s, cs)
    BY <2>1, <1>1 DEF UP!Contract!Subscribe, Unbuffered!Contract!Subscribe
  <2>2. ASSUME NEW s, NEW cs
       PROVE  UP!Contract!Copies(s, cs) = Unbuffered!Contract!Copies(s, cs)
    BY DEF UP!Contract!Copies, Unbuffered!Contract!Copies, UP!Contract!Cardinality,
           Unbuffered!Contract!Cardinality
  <2>3. ASSUME NEW cs, UP!Contract!Publish(cs)
       PROVE  Unbuffered!Contract!Publish(cs)
    BY <2>2, <2>3, <1>1 DEF UP!Contract!Publish, Unbuffered!Contract!Publish
  <2>4. ASSUME NEW s, UP!Contract!Receive(s)
       PROVE  Unbuffered!Contract!Receive(s)
    BY <2>4, <1>1 DEF UP!Contract!Receive, Unbuffered!Contract!Receive
  <2>5. ASSUME NEW s, UP!Contract!Close(s)
       PROVE  Unbuffered!Contract!Close(s)
    BY <2>5, <1>1 DEF UP!Contract!Close, Unbuffered!Contract!Close
  <2>6. ASSUME NEW s, UP!Contract!Drop(s)
       PROVE  Unbuffered!Contract!Drop(s)
    BY <2>6, <1>1 DEF UP!Contract!Drop, Unbuffered!Contract!Drop
  <2>7. UNCHANGED UP!Contract!vars => UNCHANGED Unbuffered!Contract!vars
    BY <1>1 DEF UP!Contract!vars, Unbuffered!Contract!vars
  <2>8. UP!Contract!ChannelLists = Unbuffered!Contract!ChannelLists
    BY DEF UP!Contract!ChannelLists, Unbuffered!Contract!ChannelLists
  <2>9. QED
    BY <2>1, <2>3, <2>4, <2>5, <2>6, <2>7, <2>8
    DEF UP!Contract!Next, Unbuffered!Contract!Next
<1>4. QED
  BY <1>2, <1>3, PTL
  DEF UP!ImplementsContract, Unbuffered!ImplementsContract, UP!Contract!Spec,
      Unbuffered!Contract!Spec

(* An unbuffered bus keeps the contract: an event goes to a consumer parked  *)
(* in its receive, or the subscription is dropped with what it has received. *)
THEOREM UnbufferedKeepsContract == Unbuffered!Spec => Unbuffered!ImplementsContract
<1>1. 0 \in Nat /\ MaxEvents \in Nat /\ MaxChannels \in Nat
  BY SizeAssumption
<1>2. UP!Spec => UP!ImplementsContract
  BY UP!BusKeepsContract, NoOneAssumption, <1>1, PTL
<1>3. QED
  BY <1>2, UnbufferedIsBus, SameContract, PTL DEF Unbuffered!Spec, UP!Spec

(* Whichever component runs, the two buses keep the contract of the pubsub  *)
(* package.                                                                 *)
THEOREM BothKeepContract == MCSpec => KeepsContract
<1>1. MCInit => Init /\ Unbuffered!Init
  BY DEF MCInit
<1>2. [MCNext]_MCvars => [Next]_vars /\ [Unbuffered!Next]_(Unbuffered!vars)
  BY DEF MCNext, MCvars, vars, subVars, pubVars, uVars,
         Unbuffered!vars, Unbuffered!subVars, Unbuffered!pubVars
<1>3. QED
  BY <1>1, <1>2, BusKeepsContract, UnbufferedKeepsContract, PTL
  DEF MCSpec, Spec, Unbuffered!Spec, KeepsContract

(* A Kafka consumer group never commits past a message that its application *)
(* has neither acked nor nacked, whatever rebalances, crashes and failures  *)
(* of Consume come between.                                                 *)
THEOREM GroupSkipsNothing == Group!Spec => []NothingSkipped
<1>1. GP!Bounds
  BY GroupAssumption DEF GP!Bounds
<1>2. GP!Spec => []GP!NothingSkipped
  BY <1>1, GP!AtLeastOnce, PTL
<1>3. Group!Init => GP!Init
  BY DEF Group!Init, GP!Init, Group!Offsets, GP!Offsets, Group!Sessions, GP!Sessions
<1>4. [Group!Next]_(Group!vars) => [GP!Next]_(GP!vars)
  BY DEF
      Group!creatorVars, Group!loopVars, Group!claimVars, Group!closeVars,
      Group!vars, Group!Offsets, Group!Sessions, Group!Decided, Group!SessionDone,
      Group!Subscribe, Group!CreatorReads, Group!CreatorReturns, Group!ConsumeFails,
      Group!Setup, Group!ConsumeCancelled, Group!Rebalance, Group!SessionEnds,
      Group!LoopAgain, Group!Poll, Group!InFlight, Group!Deliver, Group!MarkMessage,
      Group!Resolve, Group!ClaimReturns, Group!AckOrNack, Group!AutoCommit,
      Group!CloseCancels, Group!CloseReturns, Group!Crash, Group!ConsumeLoop,
      Group!ConsumeClaim, Group!Next, GP!creatorVars, GP!loopVars, GP!claimVars,
      GP!closeVars, GP!vars, GP!Offsets, GP!Sessions, GP!Decided, GP!SessionDone,
      GP!Subscribe, GP!CreatorReads, GP!CreatorReturns, GP!ConsumeFails, GP!Setup,
      GP!ConsumeCancelled, GP!Rebalance, GP!SessionEnds, GP!LoopAgain, GP!Poll,
      GP!InFlight, GP!Deliver, GP!MarkMessage, GP!Resolve, GP!ClaimReturns,
      GP!AckOrNack, GP!AutoCommit, GP!CloseCancels, GP!CloseReturns, GP!Crash,
      GP!ConsumeLoop, GP!ConsumeClaim, GP!Next
<1>5. GP!NothingSkipped => NothingSkipped
  BY DEF NothingSkipped, Group!NothingSkipped, GP!NothingSkipped,
         Group!Sessions, GP!Sessions, Group!Offsets, GP!Offsets, Group!Decided, GP!Decided
<1>6. QED
  BY <1>2, <1>3, <1>4, <1>5, PTL DEF Group!Spec, GP!Spec
=============================================================================
