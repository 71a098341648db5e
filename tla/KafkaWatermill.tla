---------------------------- MODULE KafkaWatermill ----------------------------
(***************************************************************************)
(* pubsub/kafka: newSubscription's goroutine forwards watermill's messages *)
(* to the unbuffered eventCh; Subscription.Close closes eventCh and then   *)
(* closeCh, without waiting for the goroutine.  A send on a closed channel *)
(* panics, also when the sender was blocked before the close, and a panic  *)
(* ends the process.                                                       *)
(*                                                                         *)
(* External: watermill's channel mesCh, which yields the messages in order *)
(* and is closed when the Subscriber is closed.                            *)
(***************************************************************************)
EXTENDS Naturals, Sequences

CONSTANTS
  Subs,         \* subscriptions of one process
  NumMessages   \* bound: messages per subscription, numbered from 1

VARIABLES
  fwd,            \* fwd[s]: "select", "send", "done"
  taken,          \* taken[s]: number of the last message taken from mesCh
  got,            \* got[s]: the messages received from C()
  closer,         \* closer[s]: "idle", "half" (eventCh closed), "closed"
  mesChClosed,    \* Subscriber.Close was called
  panicked        \* the process is gone

vars == <<fwd, taken, got, closer, mesChClosed, panicked>>

Init ==
  /\ fwd = [s \in Subs |-> "select"]
  /\ taken = [s \in Subs |-> 0]
  /\ got = [s \in Subs |-> <<>>]
  /\ closer = [s \in Subs |-> "idle"]
  /\ mesChClosed = FALSE
  /\ panicked = FALSE

eventChClosed(s) == closer[s] # "idle"
closeChClosed(s) == closer[s] = "closed"

(* The select: a message, a closed mesCh, or a closed closeCh. *)
TakeMessage(s) ==
  /\ ~panicked
  /\ fwd[s] = "select"
  /\ ~mesChClosed
  /\ taken[s] < NumMessages
  /\ fwd' = [fwd EXCEPT ![s] = "send"]
  /\ taken' = [taken EXCEPT ![s] = @ + 1]
  /\ UNCHANGED <<got, closer, mesChClosed, panicked>>

(* Mutant of Stop: only the end of mesCh stops the goroutine. *)
StopOnMesCh(s) ==
  /\ ~panicked
  /\ fwd[s] = "select"
  /\ mesChClosed
  /\ fwd' = [fwd EXCEPT ![s] = "done"]
  /\ UNCHANGED <<taken, got, closer, mesChClosed, panicked>>

Stop(s) ==
  /\ ~panicked
  /\ fwd[s] = "select"
  /\ mesChClosed \/ closeChClosed(s)
  /\ fwd' = [fwd EXCEPT ![s] = "done"]
  /\ UNCHANGED <<taken, got, closer, mesChClosed, panicked>>

(* eventCh <- event, with the application receiving. *)
Receive(s) ==
  /\ ~panicked
  /\ fwd[s] = "send"
  /\ ~eventChClosed(s)
  /\ fwd' = [fwd EXCEPT ![s] = "select"]
  /\ got' = [got EXCEPT ![s] = Append(@, taken[s])]
  /\ UNCHANGED <<taken, closer, mesChClosed, panicked>>

SendPanics(s) ==
  /\ ~panicked
  /\ fwd[s] = "send"
  /\ eventChClosed(s)
  /\ panicked' = TRUE
  /\ UNCHANGED <<fwd, taken, got, closer, mesChClosed>>

(* Subscription.Close, called once: its two closes, in the code's order. *)
CloseEventCh(s) ==
  /\ ~panicked
  /\ closer[s] = "idle"
  /\ closer' = [closer EXCEPT ![s] = "half"]
  /\ UNCHANGED <<fwd, taken, got, mesChClosed, panicked>>

CloseCloseCh(s) ==
  /\ ~panicked
  /\ closer[s] = "half"
  /\ closer' = [closer EXCEPT ![s] = "closed"]
  /\ UNCHANGED <<fwd, taken, got, mesChClosed, panicked>>

SubscriberClose ==
  /\ ~panicked
  /\ ~mesChClosed
  /\ mesChClosed' = TRUE
  /\ UNCHANGED <<fwd, taken, got, closer, panicked>>

Next ==
  \/ SubscriberClose
  \/ \E s \in Subs :
       \/ TakeMessage(s) \/ Stop(s) \/ Receive(s) \/ SendPanics(s)
       \/ CloseEventCh(s) \/ CloseCloseCh(s)

Spec == Init /\ [][Next]_vars

(* The goroutine and a started Close run on; the application may not receive. *)
Fairness ==
  \A s \in Subs :
    WF_vars(Stop(s)) /\ WF_vars(SendPanics(s)) /\ WF_vars(CloseCloseCh(s))

FairSpec == Spec /\ Fairness

-----------------------------------------------------------------------------
(* Types: no message beyond those of the topic. *)
TypeOK ==
  /\ fwd \in [Subs -> {"select", "send", "done"}]
  /\ taken \in [Subs -> 0..NumMessages]
  /\ got \in [Subs -> Seq(1..NumMessages)]
  /\ closer \in [Subs -> {"idle", "half", "closed"}]
  /\ mesChClosed \in BOOLEAN /\ panicked \in BOOLEAN

(* What C() yields is the topic's messages in order; a message taken and not   *)
(* yielded is in the goroutine's hands.                                        *)
Forwarded ==
  \A s \in Subs :
    /\ \A k \in 1..Len(got[s]) : got[s][k] = k
    /\ taken[s] = Len(got[s]) + (IF fwd[s] = "send" THEN 1 ELSE 0)

(* A closed subscription leaves no goroutine behind: it stops, or the process  *)
(* is gone with it.                                                            *)
ForwarderStops == \A s \in Subs : eventChClosed(s) ~> fwd[s] = "done" \/ panicked

(* Close "closes the event stream channel, thus the subscription will stop     *)
(* receiving any type of Event": closing a subscription only stops it, it does *)
(* not bring the process down.                                                 *)
CloseIsSafe == ~panicked
=============================================================================
