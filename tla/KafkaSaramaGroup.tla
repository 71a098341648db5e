-------------------------- MODULE KafkaSaramaGroup --------------------------
(***************************************************************************)
(* pubsub/kafkasarama, consumer-group path: newConsumerGroupSubscription,  *)
(* the handler's Setup and ConsumeClaim, messageAcker, Subscription.Close. *)
(*                                                                         *)
(* The goroutines are the caller of Subscribe (the creator), the Consume   *)
(* loop, one ConsumeClaim per claimed partition, the application that      *)
(* receives events and acks or nacks them, and the caller of Close.  Each  *)
(* select is a choice between its ready cases.                             *)
(*                                                                         *)
(* External, modelled from how the code uses it: sarama's Consume (it may  *)
(* fail before Setup, it runs Setup once and then the claims, it ends the  *)
(* session on a rebalance or when ctx is done and returns when every claim *)
(* has returned), MarkMessage (a high-water mark), and the broker, which   *)
(* keeps one committed offset per partition and starts a claim there.      *)
(* Consume's ErrClosedConsumerGroup needs a closed group, which Close       *)
(* closes only after the loop has ended: that exit cannot be taken.  The    *)
(* group starts with committed offset 0, and what other members of the      *)
(* group commit is not modelled.                                            *)
(***************************************************************************)
EXTENDS Naturals

CONSTANTS
  Partitions,   \* partitions of the subscribed topics
  NumMessages,  \* messages in each partition, at offsets 0..NumMessages-1
  MaxSessions,  \* bound: sessions; rebalances and crashes stop at the last
  MaxFails      \* bound: Consume calls that fail before Setup

VARIABLES
  creator,    \* Subscribe: "idle", "start", "blocked" in <-ready, "returned"
  awaited,    \* the ready channel the creator is blocked on
  ready,      \* consumer.ready: the number of the current channel
  closed,     \* the ready channels that have been closed
  loop,       \* Consume loop: "off", "consume", "session", "returned", "done"
  fails,      \* number of Consume calls that failed before Setup
  ctxDone,    \* cancelFunc was called
  session,    \* number of sessions so far; the current one
  ended,      \* the current session's context is done by a rebalance
  claim,      \* claim[p]: "off", "poll", "send" (blocked on eventCh), "wait"
  next,       \* next[p]: the offset claim.Messages() yields next
  acker,      \* acker[p][o][n]: the acker of offset o of p in session n
  marked,     \* marked[p]: next offset to read according to the session
  committed,  \* committed[p]: the same, according to the broker
  eventChClosed,
  closer      \* Close: "idle", "waiting" in wg.Wait, "closed"

creatorVars == <<creator, awaited>>
loopVars == <<ready, closed, loop, fails, session, ended>>
claimVars == <<claim, next, acker, marked>>
closeVars == <<ctxDone, eventChClosed, closer>>
vars == <<creatorVars, loopVars, claimVars, committed, closeVars>>

Offsets == 0..NumMessages-1
Sessions == 1..MaxSessions

Decided == {"ack", "nack"}

Init ==
  /\ creator = "idle" /\ awaited = 0
  /\ ready = 1 /\ closed = {}
  /\ loop = "off" /\ fails = 0
  /\ session = 0 /\ ended = FALSE
  /\ claim = [p \in Partitions |-> "off"]
  /\ next = [p \in Partitions |-> 0]
  /\ acker = [p \in Partitions |-> [o \in Offsets |-> [n \in Sessions |-> "unsent"]]]
  /\ marked = [p \in Partitions |-> 0]
  /\ committed = [p \in Partitions |-> 0]
  /\ ctxDone = FALSE /\ eventChClosed = FALSE /\ closer = "idle"

(* session.Context(): derived from ctx, and ended by a rebalance. *)
SessionDone == ended \/ ctxDone

-----------------------------------------------------------------------------
(* Subscribe with a group: the handler with its first ready, and the loop. *)
Subscribe ==
  /\ creator = "idle"
  /\ creator' = "start" /\ loop' = "consume"
  /\ UNCHANGED <<awaited, ready, closed, fails, session, ended, claimVars, committed, closeVars>>

(* <-consumer.ready: the channel is read once, then waited for. *)
CreatorReads ==
  /\ creator = "start"
  /\ creator' = "blocked"
  /\ awaited' = ready
  /\ UNCHANGED <<loopVars, claimVars, committed, closeVars>>

CreatorReturns ==
  /\ creator = "blocked"
  /\ awaited \in closed
  /\ creator' = "returned"
  /\ UNCHANGED <<awaited, loopVars, claimVars, committed, closeVars>>

-----------------------------------------------------------------------------
(* Consume returns an error before it has run Setup. *)
ConsumeFails ==
  /\ loop = "consume"
  /\ fails < MaxFails
  /\ fails' = fails + 1
  /\ loop' = "returned"
  /\ UNCHANGED <<creatorVars, ready, closed, session, ended, claimVars, committed, closeVars>>

(* Consume joins the group, runs Setup, which closes ready, and starts a claim *)
(* on each partition it was given, at the committed offset.                    *)
Setup(ps) ==
  /\ loop = "consume"
  /\ loop' = "session"
  /\ closed' = closed \cup {ready}
  /\ session' = session + 1
  /\ ended' = FALSE
  /\ claim' = [p \in Partitions |-> IF p \in ps THEN "poll" ELSE "off"]
  /\ next' = committed
  /\ marked' = committed
  /\ UNCHANGED <<creatorVars, ready, fails, acker, committed, closeVars>>

(* Consume was called, or is retrying, when ctx is done: it returns. *)
ConsumeCancelled ==
  /\ loop = "consume"
  /\ ctxDone
  /\ loop' = "returned"
  /\ UNCHANGED <<creatorVars, ready, closed, fails, session, ended, claimVars, committed, closeVars>>

(* A rebalance, a lost heartbeat or a closed claim ends the session. *)
Rebalance ==
  /\ loop = "session"
  /\ ~ended
  /\ session < MaxSessions
  /\ ended' = TRUE
  /\ UNCHANGED <<creatorVars, ready, closed, loop, fails, session, claimVars, committed, closeVars>>

(* The session is over and every claim has returned: the marks are flushed, *)
(* unless the broker no longer accepts them, and Consume returns.           *)
SessionEnds ==
  /\ loop = "session"
  /\ SessionDone
  /\ \A p \in Partitions : claim[p] = "off"
  /\ loop' = "returned"
  /\ \E lost \in SUBSET Partitions :
       committed' = [p \in Partitions |-> IF p \in lost THEN committed[p] ELSE marked[p]]
  /\ UNCHANGED <<creatorVars, ready, closed, fails, session, ended, claimVars, closeVars>>

(* After Consume: leave if ctx is done, else make a new ready and go again. *)
LoopAgain ==
  /\ loop = "returned"
  /\ IF ctxDone THEN loop' = "done" /\ UNCHANGED ready
                ELSE loop' = "consume" /\ ready' = ready + 1
  /\ UNCHANGED <<creatorVars, closed, fails, session, ended, claimVars, committed, closeVars>>

-----------------------------------------------------------------------------
(* ConsumeClaim.  The outer select: a message, or the end of the session. *)
Poll(p) ==
  /\ claim[p] = "poll"
  /\ next[p] < NumMessages
  /\ claim' = [claim EXCEPT ![p] = "send"]
  /\ next' = [next EXCEPT ![p] = @ + 1]
  /\ UNCHANGED <<creatorVars, loopVars, acker, marked, committed, closeVars>>

(* The offset in p's hands. *)
InFlight(p) == next[p] - 1

(* Mutant of Deliver: the message is marked when it is sent, not when acked. *)
DeliverMarks(p) ==
  /\ claim[p] = "send"
  /\ creator = "returned"
  /\ claim' = [claim EXCEPT ![p] = "wait"]
  /\ acker' = [acker EXCEPT ![p][InFlight(p)][session] = "none"]
  /\ marked' = [marked EXCEPT ![p] = next[p]]
  /\ UNCHANGED <<creatorVars, loopVars, next, committed, closeVars>>

(* The application, which has the Subscription, receives the event. *)
Deliver(p) ==
  /\ claim[p] = "send"
  /\ creator = "returned"
  /\ claim' = [claim EXCEPT ![p] = "wait"]
  /\ acker' = [acker EXCEPT ![p][InFlight(p)][session] = "none"]
  /\ UNCHANGED <<creatorVars, loopVars, next, marked, committed, closeVars>>

(* MarkMessage moves the session's mark past the message, never back. *)
MarkMessage(p) ==
  marked' = [marked EXCEPT ![p] = IF InFlight(p) + 1 > @ THEN InFlight(p) + 1 ELSE @]

(* Mutant of Resolve: a nack does not reach the claim. *)
ResolveAckOnly(p) ==
  /\ claim[p] = "wait"
  /\ acker[p][InFlight(p)][session] = "ack"
  /\ claim' = [claim EXCEPT ![p] = "poll"]
  /\ MarkMessage(p)
  /\ UNCHANGED <<creatorVars, loopVars, next, acker, committed, closeVars>>

(* The select on acker.done: ack marks the message, nack skips it. *)
Resolve(p) ==
  /\ claim[p] = "wait"
  /\ acker[p][InFlight(p)][session] \in Decided
  /\ claim' = [claim EXCEPT ![p] = "poll"]
  /\ IF acker[p][InFlight(p)][session] = "ack" THEN MarkMessage(p) ELSE UNCHANGED marked
  /\ UNCHANGED <<creatorVars, loopVars, next, acker, committed, closeVars>>

(* Mutant of ClaimReturns: the wait for the acker has no Done case. *)
ClaimReturnsUnlessWaiting(p) ==
  /\ claim[p] \in {"poll", "send"}
  /\ SessionDone
  /\ claim' = [claim EXCEPT ![p] = "off"]
  /\ UNCHANGED <<creatorVars, loopVars, next, acker, marked, committed, closeVars>>

(* Each select also has <-session.Context().Done(). *)
ClaimReturns(p) ==
  /\ claim[p] # "off"
  /\ SessionDone
  /\ claim' = [claim EXCEPT ![p] = "off"]
  /\ UNCHANGED <<creatorVars, loopVars, next, acker, marked, committed, closeVars>>

(* Event.Ack or Event.Nack, at any time after delivery; once makes the first *)
(* call the one that counts.                                                 *)
AckOrNack(p, o, n, d) ==
  /\ acker[p][o][n] = "none"
  /\ acker' = [acker EXCEPT ![p][o][n] = d]
  /\ UNCHANGED <<creatorVars, loopVars, claim, next, marked, committed, closeVars>>

(* sarama commits the marks periodically during the session. *)
AutoCommit(p) ==
  /\ loop = "session"
  /\ committed[p] # marked[p]
  /\ committed' = [committed EXCEPT ![p] = marked[p]]
  /\ UNCHANGED <<creatorVars, loopVars, claimVars, closeVars>>

-----------------------------------------------------------------------------
CloseCancels ==
  /\ creator = "returned"
  /\ closer = "idle"
  /\ ctxDone' = TRUE
  /\ closer' = "waiting"
  /\ UNCHANGED <<creatorVars, loopVars, claimVars, committed, eventChClosed>>

(* wg.Wait returned: close(eventCh), then the consumer group is closed. *)
CloseReturns ==
  /\ closer = "waiting"
  /\ loop = "done"
  /\ eventChClosed' = TRUE
  /\ closer' = "closed"
  /\ UNCHANGED <<creatorVars, loopVars, claimVars, committed, ctxDone>>

(* The process dies, or has closed, and a new one subscribes: only the commits survive, and *)
(* no acker of the old process can be called.                               *)
Crash ==
  /\ session < MaxSessions
  /\ loop \in {"session", "done"}
  /\ creator' = "start" /\ awaited' = 0
  /\ ready' = ready + 1 /\ loop' = "consume" /\ ended' = FALSE
  /\ claim' = [p \in Partitions |-> "off"]
  /\ acker' = [p \in Partitions |-> [o \in Offsets |-> [n \in Sessions |->
                 IF acker[p][o][n] = "none" THEN "lost" ELSE acker[p][o][n]]]]
  /\ ctxDone' = FALSE /\ eventChClosed' = FALSE /\ closer' = "idle"
  /\ UNCHANGED <<closed, fails, session, next, marked, committed>>

ConsumeLoop ==
  \/ \E ps \in SUBSET Partitions : Setup(ps)
  \/ ConsumeCancelled
  \/ SessionEnds
  \/ LoopAgain

ConsumeClaim(p) == Poll(p) \/ Resolve(p) \/ ClaimReturns(p)

Next ==
  \/ Subscribe \/ CreatorReads \/ CreatorReturns
  \/ ConsumeFails \/ ConsumeLoop \/ Rebalance \/ Crash
  \/ \E p \in Partitions : ConsumeClaim(p) \/ Deliver(p) \/ AutoCommit(p)
  \/ \E p \in Partitions, o \in Offsets, n \in Sessions, d \in Decided : AckOrNack(p, o, n, d)
  \/ CloseCancels \/ CloseReturns

Spec == Init /\ [][Next]_vars

(* Goroutines run on and Consume, which fails at most MaxFails times, in the *)
(* end joins the group.  The application is obliged to nothing: it need not  *)
(* receive, ack, nack or close.                                              *)
Fairness ==
  /\ WF_vars(CreatorReads \/ CreatorReturns)
  /\ WF_vars(ConsumeLoop)
  /\ WF_vars(CloseReturns)
  /\ \A p \in Partitions : WF_vars(ConsumeClaim(p)) /\ WF_vars(ClaimReturns(p))

FairSpec == Spec /\ Fairness

(* An application that receives every event and acks or nacks it. *)
Diligent ==
  \A p \in Partitions :
    /\ WF_vars(Deliver(p))
    /\ WF_vars(\E o \in Offsets, n \in Sessions, d \in Decided : AckOrNack(p, o, n, d))

-----------------------------------------------------------------------------
(* Types: in particular every offset is one of the partition's, or its end. *)
TypeOK ==
  /\ creator \in {"idle", "start", "blocked", "returned"}
  /\ awaited \in 0..ready
  /\ ready \in Nat \ {0}
  /\ closed \subseteq 1..ready
  /\ loop \in {"off", "consume", "session", "returned", "done"}
  /\ fails \in 0..MaxFails
  /\ session \in 0..MaxSessions
  /\ ended \in BOOLEAN
  /\ claim \in [Partitions -> {"off", "poll", "send", "wait"}]
  /\ next \in [Partitions -> 0..NumMessages]
  /\ acker \in [Partitions -> [Offsets -> [Sessions ->
                 {"unsent", "none", "lost", "ack", "nack"}]]]
  /\ marked \in [Partitions -> 0..NumMessages]
  /\ committed \in [Partitions -> 0..NumMessages]
  /\ ctxDone \in BOOLEAN
  /\ eventChClosed \in BOOLEAN
  /\ closer \in {"idle", "waiting", "closed"}

(* At least once: through rebalances, crashes, lost commits and late acks, the *)
(* group's committed offset never passes a message that the application has    *)
(* not received and acked or nacked.                                           *)
NothingSkipped ==
  \A p \in Partitions, o \in Offsets :
    o < committed[p] => \E n \in Sessions : acker[p][o][n] \in Decided

(* The Subscriber's contract: within a session the next message of a partition *)
(* is not delivered before the previous one is acked or nacked.                *)
OneAtATime ==
  \A p \in Partitions, n \in Sessions : \A o1, o2 \in Offsets :
    /\ o1 < o2
    /\ acker[p][o1][n] # "unsent"
    /\ acker[p][o2][n] # "unsent"
    => acker[p][o1][n] \in Decided

(* When Close closes the event channel no claim is left that could send on it. *)
NoSendOnClosed == eventChClosed => \A p \in Partitions : claim[p] = "off"

(* Setup closes ready, and closing a closed channel panics: each Consume call  *)
(* starts with a ready channel that no earlier session has closed.             *)
NoDoubleClose == loop = "consume" => ready \notin closed

(* Close returns although the application may have stopped receiving and may   *)
(* never ack what it holds.                                                    *)
CloseTerminates == closer = "waiting" ~> closer # "waiting"

(* Subscribe "creates a new subscription that runs in the background": it      *)
(* returns, once Consume has stopped failing.                                  *)
SubscribeReturns == creator = "blocked" ~> creator # "blocked"

(* "message nacked; offset not committed": a message that was only ever nacked *)
(* is not below the committed offset.                                          *)
NackedNotCommitted ==
  \A p \in Partitions, o \in Offsets :
    (\E n \in Sessions : acker[p][o][n] = "nack") /\ o < committed[p]
      => \E n \in Sessions : acker[p][o][n] = "ack"

(* With an application that receives and decides every event, a claim that no  *)
(* later rebalance or crash interrupts gets every message of its partition     *)
(* decided, the ones below its first offset in earlier sessions, unless the    *)
(* subscription is closed.                                                     *)
AllDecided ==
  Diligent =>
    \A p \in Partitions :
      session = MaxSessions /\ claim[p] # "off" ~>
        \/ ctxDone
        \/ \A o \in Offsets : \E n \in Sessions : acker[p][o][n] \in Decided
=============================================================================
