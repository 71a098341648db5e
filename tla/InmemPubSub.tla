---------------------------- MODULE InmemPubSub ----------------------------
(***************************************************************************)
(* pubsub/inmem: the in-memory PubSub and its Subscriptions.               *)
(*                                                                         *)
(* Publish, Subscribe and Unsubscribe run under PubSub.mu.  A consumer     *)
(* receives from Subscription.c without the mutex, so receives interleave  *)
(* with the sends of a Publish: Publish is a loop of one step per channel  *)
(* and one step per subscription.  Subscribe and Unsubscribe touch, under  *)
(* the mutex, nothing another goroutine sees in between (the close of c is *)
(* their only effect outside the mutex), and are one step each.            *)
(*                                                                         *)
(* An event is its number in publication order; a Go map from channels to  *)
(* sets of subscriptions is a function whose domain is the map's keys; one *)
(* consumer reads each subscription.                                       *)
(***************************************************************************)
EXTENDS Naturals, Sequences, FiniteSets

CONSTANTS
  Subs,             \* subscription identities; each is created at most once
  Channels,         \* channel names
  Publishers,       \* goroutines that call Publish
  NoOne,            \* the value of mu when nobody holds it
  eventBufferSize,  \* capacity of a subscription's Go channel; 0: unbuffered
  MaxEvents,        \* bound: number of Publish calls
  MaxChannels       \* bound: number of channel arguments of one Publish

ASSUME NoOneAssumption == NoOne \notin Publishers
ASSUME SizeAssumption ==
  /\ eventBufferSize \in Nat
  /\ MaxEvents \in Nat
  /\ MaxChannels \in Nat

VARIABLES
  mu,            \* who holds PubSub.mu
  channelsSubs,  \* PubSub.channelsSubs
  state,         \* state[s]: "none", "open", or "closed" once close(s.c) ran
  chans,         \* Subscription.channels, as a set
  c,             \* Subscription.c: the buffered events
  listening,     \* listening[s]: the consumer is parked in <-s.C()
  got,           \* got[s]: history of what the consumer has received
  published,     \* number of Publish calls that took the mutex; last event
  event,         \* event[p]: the argument of p's Publish
  todo,          \* todo[p]: the channels p's outer loop has not reached
  pending        \* pending[p]: the subs p's inner loop has not reached

subVars == <<state, chans, c, listening, got>>
pubVars == <<event, todo, pending>>
vars == <<mu, channelsSubs, subVars, published, pubVars>>

(* len(ps.channelsSubs[channel]): a missing key reads as an empty map. *)
Subscribed(ch) == IF ch \in DOMAIN channelsSubs THEN channelsSubs[ch] ELSE {}

ChannelLists == UNION {[1..n -> Channels] : n \in 1..MaxChannels}

Init ==
  /\ mu = NoOne
  /\ channelsSubs = [ch \in {} |-> {}]
  /\ state = [s \in Subs |-> "none"]
  /\ chans = [s \in Subs |-> {}]
  /\ c = [s \in Subs |-> << >>]
  /\ listening = [s \in Subs |-> FALSE]
  /\ got = [s \in Subs |-> << >>]
  /\ published = 0
  /\ event = [p \in Publishers |-> 0]
  /\ todo = [p \in Publishers |-> << >>]
  /\ pending = [p \in Publishers |-> {}]

-----------------------------------------------------------------------------
(* Subscribe registers s in the map of each of its channels, creating the *)
(* maps that do not exist.  No channels: ErrNoChannel, nothing changes.   *)
Subscribe(s, cs) ==
  /\ cs # {}
  /\ mu = NoOne
  /\ state[s] = "none"
  /\ state' = [state EXCEPT ![s] = "open"]
  /\ chans' = [chans EXCEPT ![s] = cs]
  /\ channelsSubs' = [ch \in DOMAIN channelsSubs \cup cs |->
                        IF ch \in cs THEN Subscribed(ch) \cup {s}
                                     ELSE channelsSubs[ch]]
  /\ UNCHANGED <<mu, c, listening, got, published, pubVars>>

(* Mutant of Without: the channel is deleted while other subscriptions remain. *)
WithoutChannel(s) == [ch \in DOMAIN channelsSubs \ chans[s] |-> channelsSubs[ch]]

(* removeSubscription's effect on the map: s leaves its channels' maps, and *)
(* a map left empty is deleted.                                             *)
Without(s) ==
  LET left == [ch \in DOMAIN channelsSubs |->
                 IF ch \in chans[s] THEN channelsSubs[ch] \ {s}
                                    ELSE channelsSubs[ch]]
  IN  [ch \in {k \in DOMAIN left : k \in chans[s] => left[k] # {}} |-> left[ch]]

(* close(c), once, wakes a parked consumer; what c buffers stays readable. *)
removeSubscription(s) ==
  /\ state' = [state EXCEPT ![s] = "closed"]
  /\ listening' = [listening EXCEPT ![s] = FALSE]
  /\ channelsSubs' = Without(s)

(* Mutant of Unsubscribe: the mutex is not taken. *)
UnsubscribeUnlocked(s) ==
  /\ state[s] # "none"
  /\ removeSubscription(s)
  /\ UNCHANGED <<mu, chans, c, got, published, pubVars>>

(* Subscription.Close -> PubSub.Unsubscribe; a second Close is allowed. *)
Unsubscribe(s) ==
  /\ mu = NoOne
  /\ state[s] # "none"
  /\ removeSubscription(s)
  /\ UNCHANGED <<mu, chans, c, got, published, pubVars>>

-----------------------------------------------------------------------------
(* Publish, up to the mutex.  No channels: ErrNoChannel, nothing changes. *)
PublishLock(p, cs) ==
  /\ Len(cs) > 0
  /\ mu = NoOne
  /\ published < MaxEvents
  /\ mu' = p
  /\ published' = published + 1
  /\ event' = [event EXCEPT ![p] = published + 1]
  /\ todo' = [todo EXCEPT ![p] = cs]
  /\ UNCHANGED <<channelsSubs, subVars, pending>>

(* The outer loop: read the map of the next channel. *)
PublishChannel(p) ==
  /\ mu = p
  /\ pending[p] = {}
  /\ todo[p] # << >>
  /\ pending' = [pending EXCEPT ![p] = Subscribed(Head(todo[p]))]
  /\ todo' = [todo EXCEPT ![p] = Tail(@)]
  /\ UNCHANGED <<mu, channelsSubs, subVars, published, event>>

(* Mutant of CanSend: the buffer is one larger than asked for. *)
CanSendOneMore(s) == listening[s] \/ Len(c[s]) <= eventBufferSize

(* A send that does not block: to a parked consumer, or into the buffer. *)
CanSend(s) == listening[s] \/ Len(c[s]) < eventBufferSize

(* One turn of the inner loop: the select on sub.c sends the event, or else  *)
(* removes the subscription.  A send on a closed c would panic: that a closed *)
(* subscription is never reached here is NoSendOnClosed below.                *)
SendTo(p, s) ==
  /\ CanSend(s)
  /\ IF listening[s]
     THEN /\ listening' = [listening EXCEPT ![s] = FALSE]
          /\ got' = [got EXCEPT ![s] = Append(@, event[p])]
          /\ UNCHANGED c
     ELSE /\ c' = [c EXCEPT ![s] = Append(@, event[p])]
          /\ UNCHANGED <<listening, got>>
  /\ UNCHANGED <<channelsSubs, state>>

(* Mutant of RemoveSlow: the event is skipped, the subscription stays. *)
SkipSlow(s) ==
  /\ ~CanSend(s)
  /\ UNCHANGED <<state, listening, channelsSubs, c, got>>

(* Mutant of RemoveSlow: no default case, the send blocks. *)
BlockOnSlow(s) ==
  /\ FALSE
  /\ UNCHANGED <<state, listening, channelsSubs, c, got>>

RemoveSlow(s) ==
  /\ ~CanSend(s)
  /\ removeSubscription(s)
  /\ UNCHANGED <<c, got>>

PublishTo(p, s) ==
  /\ mu = p
  /\ s \in pending[p]
  /\ pending' = [pending EXCEPT ![p] = @ \ {s}]
  /\ SendTo(p, s) \/ RemoveSlow(s)
  /\ UNCHANGED <<mu, chans, published, event, todo>>

PublishUnlock(p) ==
  /\ mu = p
  /\ pending[p] = {}
  /\ todo[p] = << >>
  /\ mu' = NoOne
  /\ UNCHANGED <<channelsSubs, subVars, published, pubVars>>

-----------------------------------------------------------------------------
(* The consumer takes what is buffered, also after the close. *)
Receive(s) ==
  /\ c[s] # << >>
  /\ ~listening[s]
  /\ got' = [got EXCEPT ![s] = Append(@, Head(c[s]))]
  /\ c' = [c EXCEPT ![s] = Tail(@)]
  /\ UNCHANGED <<mu, channelsSubs, state, chans, listening, published, pubVars>>

(* Nothing buffered: a blocking receive parks the consumer. *)
Listen(s) ==
  /\ state[s] = "open"
  /\ c[s] = << >>
  /\ ~listening[s]
  /\ listening' = [listening EXCEPT ![s] = TRUE]
  /\ UNCHANGED <<mu, channelsSubs, state, chans, c, got, published, pubVars>>

Publish(p) ==
  \/ PublishChannel(p)
  \/ \E s \in Subs : PublishTo(p, s)
  \/ PublishUnlock(p)

Next ==
  \/ \E s \in Subs, cs \in SUBSET Channels : Subscribe(s, cs)
  \/ \E s \in Subs : Unsubscribe(s) \/ Receive(s) \/ Listen(s)
  \/ \E p \in Publishers, cs \in ChannelLists : PublishLock(p, cs)
  \/ \E p \in Publishers : Publish(p)

Spec == Init /\ [][Next]_vars

(* A goroutine inside Publish keeps running; consumers and callers need not. *)
Fairness == \A p \in Publishers : WF_vars(Publish(p))

FairSpec == Spec /\ Fairness

-----------------------------------------------------------------------------
(* Types, and that a Go channel never holds more than its capacity. *)
TypeOK ==
  /\ mu \in Publishers \cup {NoOne}
  /\ DOMAIN channelsSubs \subseteq Channels
  /\ channelsSubs \in [DOMAIN channelsSubs -> SUBSET Subs]
  /\ state \in [Subs -> {"none", "open", "closed"}]
  /\ chans \in [Subs -> SUBSET Channels]
  /\ c \in [Subs -> Seq(Nat)]
  /\ \A s \in Subs : Len(c[s]) <= eventBufferSize
  /\ listening \in [Subs -> BOOLEAN]
  /\ got \in [Subs -> Seq(Nat)]
  /\ published \in Nat
  /\ event \in [Publishers -> Nat]
  /\ todo \in [Publishers -> Seq(Channels)]
  /\ pending \in [Publishers -> SUBSET Subs]

(* The map and the subscriptions agree at every step, also in the middle of  *)
(* a Publish: a subscription is in a channel's map exactly when it is open   *)
(* and was created for that channel.  In particular removeSubscription finds *)
(* every map the subscription is in, and leaves no closed one registered.    *)
MapAgrees ==
  \A ch \in Channels, s \in Subs :
    s \in Subscribed(ch) <=> state[s] = "open" /\ ch \in chans[s]

(* No channel keeps an empty map: the storage does not grow with the channels *)
(* that ever had a subscription.                                              *)
NoEmptyMap == \A ch \in DOMAIN channelsSubs : channelsSubs[ch] # {}

(* Publish never sends on a closed channel, which would panic: whatever the  *)
(* Closes and the drops between its turns, the subscriptions its inner loop   *)
(* has still to reach are open.                                              *)
NoSendOnClosed ==
  \A p \in Publishers : \A s \in pending[p] : state[s] = "open"

(* Only the holder of mu is inside the loops of Publish. *)
OnlyOwnerPublishes ==
  \A p \in Publishers : mu # p => pending[p] = {} /\ todo[p] = << >>

(* A parked consumer has an empty buffer and an open channel, so an event is *)
(* never handed to it ahead of an older one.                                 *)
ParkedIsCurrent ==
  \A s \in Subs : listening[s] => c[s] = << >> /\ state[s] = "open"

(* The inductive invariant. *)
Inv ==
  /\ TypeOK
  /\ MapAgrees
  /\ NoEmptyMap
  /\ NoSendOnClosed
  /\ OnlyOwnerPublishes
  /\ ParkedIsCurrent

(* A Publish returns whatever the consumers do: no consumer, however slow, *)
(* makes it wait.                                                          *)
PublishReturns == \A p \in Publishers : mu = p ~> mu = NoOne

-----------------------------------------------------------------------------
(* Refinement.  A Publish takes effect for the contract when it takes mu.   *)
(* What its loops still owe s: one copy if s is in the rest of the inner    *)
(* loop, one for each remaining channel s is on; nothing once s is closed.  *)
Owed(s) ==
  IF mu = NoOne \/ state[s] # "open" THEN << >>
  ELSE LET n == (IF s \in pending[mu] THEN 1 ELSE 0)
                + Cardinality({i \in DOMAIN todo[mu] : todo[mu][i] \in chans[s]})
       IN  [i \in 1..n |-> event[mu]]

Contract == INSTANCE PubSubContract
              WITH log <- [s \in Subs |-> got[s] \o c[s] \o Owed(s)]

(* Every behaviour of the implementation is one the contract allows: events *)
(* in publication order, none missing, none invented, drops only of         *)
(* subscriptions that fell behind.                                          *)
ImplementsContract == Contract!Spec
=============================================================================
