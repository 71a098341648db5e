--------------------------- MODULE PubSubContract ---------------------------
(***************************************************************************)
(* What pubsub.PublishSubscriber promises its users, as the in-memory      *)
(* implementation understands it.  A subscription has a log: the events    *)
(* owed to it, in publication order.  Publish owes the event to every open *)
(* subscription, once for each published channel the subscription is on.   *)
(* The consumer reads the log from the front and never sees a gap.  Close  *)
(* stops new events but leaves what is already in the log readable.  A     *)
(* subscription is dropped only for having fallen behind by more than its  *)
(* buffer, and then it keeps exactly a buffer's worth of unread events.    *)
(***************************************************************************)
EXTENDS Naturals, Sequences, FiniteSets

CONSTANTS
  Subs,             \* subscription identities; each is created at most once
  Channels,         \* channel names
  eventBufferSize,  \* capacity of a subscription's Go channel
  MaxEvents,        \* bound: number of Publish calls
  MaxChannels       \* bound: number of channel arguments of one Publish

VARIABLES
  state,     \* state[s]: "none" before Subscribe, then "open", then "closed"
  chans,     \* chans[s]: the channels s subscribed to
  log,       \* log[s]: the events owed to s
  got,       \* got[s]: the events its consumer has received
  published  \* number of Publish calls so far; also the last event

vars == <<state, chans, log, got, published>>

ChannelLists == UNION {[1..n -> Channels] : n \in 1..MaxChannels}

Copies(s, cs) == Cardinality({i \in DOMAIN cs : cs[i] \in chans[s]})

Init ==
  /\ state = [s \in Subs |-> "none"]
  /\ chans = [s \in Subs |-> {}]
  /\ log = [s \in Subs |-> << >>]
  /\ got = [s \in Subs |-> << >>]
  /\ published = 0

Subscribe(s, cs) ==
  /\ state[s] = "none"
  /\ state' = [state EXCEPT ![s] = "open"]
  /\ chans' = [chans EXCEPT ![s] = cs]
  /\ UNCHANGED <<log, got, published>>

Publish(cs) ==
  /\ published < MaxEvents
  /\ published' = published + 1
  /\ log' = [s \in Subs |->
               IF state[s] = "open"
               THEN log[s] \o [i \in 1..Copies(s, cs) |-> published + 1]
               ELSE log[s]]
  /\ UNCHANGED <<state, chans, got>>

Receive(s) ==
  /\ Len(got[s]) < Len(log[s])
  /\ got' = [got EXCEPT ![s] = Append(@, log[s][Len(@) + 1])]
  /\ UNCHANGED <<state, chans, log, published>>

Close(s) ==
  /\ state[s] = "open"
  /\ state' = [state EXCEPT ![s] = "closed"]
  /\ UNCHANGED <<chans, log, got, published>>

Drop(s) ==
  /\ state[s] = "open"
  /\ Len(log[s]) - Len(got[s]) > eventBufferSize
  /\ state' = [state EXCEPT ![s] = "closed"]
  /\ log' = [log EXCEPT ![s] = SubSeq(@, 1, Len(got[s]) + eventBufferSize)]
  /\ UNCHANGED <<chans, got, published>>

Next ==
  \/ \E s \in Subs, cs \in (SUBSET Channels) \ {{}} : Subscribe(s, cs)
  \/ \E cs \in ChannelLists : Publish(cs)
  \/ \E s \in Subs : Receive(s) \/ Close(s) \/ Drop(s)

Spec == Init /\ [][Next]_vars
=============================================================================
