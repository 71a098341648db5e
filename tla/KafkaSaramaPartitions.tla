------------------------ MODULE KafkaSaramaPartitions ------------------------
(***************************************************************************)
(* pubsub/kafkasarama without a consumer group: newConsumerSubscription    *)
(* starts one consumePartition goroutine per partition, all of them send   *)
(* on one unbuffered eventCh, and Close cancels them and waits for them.   *)
(*                                                                         *)
(* External: sarama's ConsumePartition may fail; a partition consumer      *)
(* yields the messages of its partition in order and, at any time, errors. *)
(***************************************************************************)
EXTENDS Naturals, Sequences

CONSTANTS
  Partitions,   \* the partitions of the topic
  NumMessages,  \* bound: messages per partition, numbered from 1
  MaxErrors     \* bound: errors per partition

VARIABLES
  creator,  \* Subscribe: "opening", "returned" a Subscription, "failed"
  pc,       \* pc[p]: "none" (not started), "select", "send", "sendErr", "done"
  taken,    \* taken[p]: number of the last message taken from p's consumer
  errs,     \* errs[p]: number of errors taken from p's consumer
  got,      \* got[p]: the messages of p that the application received
  ctxDone, eventChClosed,
  closer    \* Close: "idle", "waiting" in wg.Wait, "closed"

vars == <<creator, pc, taken, errs, got, ctxDone, eventChClosed, closer>>

Init ==
  /\ creator = "opening"
  /\ pc = [p \in Partitions |-> "none"]
  /\ taken = [p \in Partitions |-> 0]
  /\ errs = [p \in Partitions |-> 0]
  /\ got = [p \in Partitions |-> <<>>]
  /\ ctxDone = FALSE /\ eventChClosed = FALSE /\ closer = "idle"

-----------------------------------------------------------------------------
(* The loop over the partitions: ConsumePartition, then the goroutine. *)
OpenPartition(p) ==
  /\ creator = "opening"
  /\ pc[p] = "none"
  /\ pc' = [pc EXCEPT ![p] = "select"]
  /\ UNCHANGED <<creator, taken, errs, got, ctxDone, eventChClosed, closer>>

(* ConsumePartition failed: cancel() and return the error. *)
OpenFails ==
  /\ creator = "opening"
  /\ \E p \in Partitions : pc[p] = "none"
  /\ creator' = "failed"
  /\ ctxDone' = TRUE
  /\ UNCHANGED <<pc, taken, errs, got, eventChClosed, closer>>

OpenedAll ==
  /\ creator = "opening"
  /\ \A p \in Partitions : pc[p] # "none"
  /\ creator' = "returned"
  /\ UNCHANGED <<pc, taken, errs, got, ctxDone, eventChClosed, closer>>

-----------------------------------------------------------------------------
(* consumePartition: the cases of the outer select. *)
TakeMessage(p) ==
  /\ pc[p] = "select"
  /\ taken[p] < NumMessages
  /\ pc' = [pc EXCEPT ![p] = "send"]
  /\ taken' = [taken EXCEPT ![p] = @ + 1]
  /\ UNCHANGED <<creator, errs, got, ctxDone, eventChClosed, closer>>

TakeError(p) ==
  /\ pc[p] = "select"
  /\ errs[p] < MaxErrors
  /\ pc' = [pc EXCEPT ![p] = "sendErr"]
  /\ errs' = [errs EXCEPT ![p] = @ + 1]
  /\ UNCHANGED <<creator, taken, got, ctxDone, eventChClosed, closer>>

(* Mutant of Stop: only the select that sends has the ctx.Done() case. *)
StopSending(p) ==
  /\ pc[p] = "send"
  /\ ctxDone
  /\ pc' = [pc EXCEPT ![p] = "done"]
  /\ UNCHANGED <<creator, taken, errs, got, ctxDone, eventChClosed, closer>>

(* <-ctx.Done(), in both selects; the send of an error has no such case. *)
Stop(p) ==
  /\ pc[p] \in {"select", "send"}
  /\ ctxDone
  /\ pc' = [pc EXCEPT ![p] = "done"]
  /\ UNCHANGED <<creator, taken, errs, got, ctxDone, eventChClosed, closer>>

(* The application, which has the Subscription, receives from C(). *)
Receive(p) ==
  /\ creator = "returned"
  /\ \/ pc[p] = "send" /\ got' = [got EXCEPT ![p] = Append(@, taken[p])]
     \/ pc[p] = "sendErr" /\ UNCHANGED got
  /\ pc' = [pc EXCEPT ![p] = "select"]
  /\ UNCHANGED <<creator, taken, errs, ctxDone, eventChClosed, closer>>

-----------------------------------------------------------------------------
CloseCancels ==
  /\ creator = "returned"
  /\ closer = "idle"
  /\ closer' = "waiting"
  /\ ctxDone' = TRUE
  /\ UNCHANGED <<creator, pc, taken, errs, got, eventChClosed>>

(* wg.Wait returned: close(eventCh), and the consumer is closed. *)
CloseReturns ==
  /\ closer = "waiting"
  /\ \A p \in Partitions : pc[p] = "done"
  /\ closer' = "closed"
  /\ eventChClosed' = TRUE
  /\ UNCHANGED <<creator, pc, taken, errs, got, ctxDone>>

Next ==
  \/ OpenFails \/ OpenedAll \/ CloseCancels \/ CloseReturns
  \/ \E p \in Partitions :
       OpenPartition(p) \/ TakeMessage(p) \/ TakeError(p) \/ Stop(p) \/ Receive(p)

Spec == Init /\ [][Next]_vars

(* Goroutines run on; a select whose ctx.Done() case stays ready takes it in *)
(* the end.  The application need not receive.                               *)
Fairness == WF_vars(CloseReturns) /\ \A p \in Partitions : WF_vars(Stop(p))

FairSpec == Spec /\ Fairness

(* An application that keeps receiving until the channel is closed. *)
Reading == \A p \in Partitions : WF_vars(Receive(p))

-----------------------------------------------------------------------------
(* Types: no claim on messages beyond the end of a partition. *)
TypeOK ==
  /\ creator \in {"opening", "returned", "failed"}
  /\ pc \in [Partitions -> {"none", "select", "send", "sendErr", "done"}]
  /\ taken \in [Partitions -> 0..NumMessages]
  /\ errs \in [Partitions -> 0..MaxErrors]
  /\ got \in [Partitions -> Seq(1..NumMessages)]
  /\ ctxDone \in BOOLEAN /\ eventChClosed \in BOOLEAN
  /\ closer \in {"idle", "waiting", "closed"}

(* The application receives the messages of a partition in order and without a *)
(* gap, errors and Close in between or not; at most the message in a           *)
(* goroutine's hands is lost.                                                  *)
NoGap ==
  \A p \in Partitions :
    /\ \A k \in 1..Len(got[p]) : got[p][k] = k
    /\ Len(got[p]) < taken[p] => Len(got[p]) = taken[p] - 1 /\ pc[p] \in {"send", "done"}

(* A closed event channel has no goroutine left that could send on it. *)
NoSendOnClosed == eventChClosed => \A p \in Partitions : pc[p] = "done"

(* Close returns while the application keeps receiving, errors included. *)
CloseTerminates == Reading => (closer = "waiting" ~> closer = "closed")

(* "consume partition in the background, stop when the context is cancelled":  *)
(* after Close, and after a Subscribe that failed half way, no goroutine stays.*)
StopsOnCancel == ctxDone ~> \A p \in Partitions : pc[p] \in {"none", "done"}
=============================================================================
