---------------------------- MODULE MCConsumers -----------------------------
(***************************************************************************)
(* The consumers of channels and queues, one of them in each behaviour:    *)
(* the blocking queue, the two subscriptions of kafkasarama, the watermill *)
(* subscription, pubsublite and the AMQP worker.                           *)
(***************************************************************************)
EXTENDS BlockingQueue, Integers

CONSTANTS
  GroupPartitions, GroupMessages, MaxSessions, MaxFails,    \* of the consumer group
  Partitions, NumMessages, MaxErrors,                       \* of the partition consumers
  Subs, SubMessages,                                        \* of the watermill subscriptions
  Messages, NoMessage, Closers, MaxRetries, LiteStarts,     \* of pubsublite
  Jobs, NoJob, maxConcurrency, Delays, WorkerStarts         \* of the AMQP worker

(* The capacity of the worker's Go channel sem. *)
ASSUME CapacityAssumption == maxConcurrency \in Nat

(* The bounds are numbers, and the group gets at least one session. *)
ASSUME BoundsAssumption ==
  /\ GroupMessages \in Nat /\ MaxFails \in Nat /\ MaxSessions \in Nat \ {0}
  /\ NumMessages \in Nat /\ MaxErrors \in Nat /\ SubMessages \in Nat /\ MaxRetries \in Nat

VARIABLES
  which,  \* the component that runs
  g_creator, g_awaited, g_ready, g_closed, g_loop, g_fails, g_ctxDone, g_session, g_ended,
  g_claim, g_next, g_acker, g_marked, g_committed, g_eventChClosed, g_closer,
  p_creator, p_pc, p_taken, p_errs, p_got, p_ctxDone, p_eventChClosed, p_closer,
  w_fwd, w_taken, w_got, w_closer, w_mesChClosed, w_panicked,
  l_tries, l_conn, l_channel, l_declared, l_place, l_loop, l_cur, l_given, l_ack, l_close,
  l_closing, l_cut, l_starts,
  a_conn, a_channel, a_starter, a_ctxDone, a_stop, a_declared, a_job, a_consumer, a_cur,
  a_sem, a_filled, a_ran, a_taken, a_sawNil, a_failed, a_starts

Group == INSTANCE KafkaSaramaGroup WITH
  Partitions <- GroupPartitions, NumMessages <- GroupMessages,
  creator <- g_creator, awaited <- g_awaited, ready <- g_ready, closed <- g_closed,
  loop <- g_loop, fails <- g_fails, ctxDone <- g_ctxDone, session <- g_session,
  ended <- g_ended, claim <- g_claim, next <- g_next, acker <- g_acker,
  marked <- g_marked, committed <- g_committed, eventChClosed <- g_eventChClosed,
  closer <- g_closer

Parts == INSTANCE KafkaSaramaPartitions WITH
  creator <- p_creator, pc <- p_pc, taken <- p_taken, errs <- p_errs, got <- p_got, ctxDone <- p_ctxDone,
  eventChClosed <- p_eventChClosed, closer <- p_closer

Watermill == INSTANCE KafkaWatermill WITH
  NumMessages <- SubMessages, fwd <- w_fwd, taken <- w_taken, got <- w_got,
  closer <- w_closer, mesChClosed <- w_mesChClosed, panicked <- w_panicked

Lite == INSTANCE PubSubLite WITH
  MaxStarts <- LiteStarts, tries <- l_tries, conn <- l_conn, channel <- l_channel,
  declared <- l_declared, place <- l_place, loop <- l_loop, cur <- l_cur,
  given <- l_given, ack <- l_ack, close <- l_close, closing <- l_closing, cut <- l_cut,
  starts <- l_starts

Worker == INSTANCE AMQPWorker WITH
  MaxStarts <- WorkerStarts, conn <- a_conn, channel <- a_channel,
  starter <- a_starter, ctxDone <- a_ctxDone, stop <- a_stop, declared <- a_declared,
  job <- a_job, consumer <- a_consumer, cur <- a_cur, sem <- a_sem, filled <- a_filled,
  ran <- a_ran, taken <- a_taken, sawNil <- a_sawNil, failed <- a_failed,
  starts <- a_starts

gVars == <<g_creator, g_awaited, g_ready, g_closed, g_loop, g_fails, g_ctxDone, g_session,
           g_ended, g_claim, g_next, g_acker, g_marked, g_committed, g_eventChClosed,
           g_closer>>
pVars == <<p_creator, p_pc, p_taken, p_errs, p_got, p_ctxDone, p_eventChClosed, p_closer>>
wVars == <<w_fwd, w_taken, w_got, w_closer, w_mesChClosed, w_panicked>>
lVars == <<l_tries, l_conn, l_channel, l_declared, l_place, l_loop, l_cur, l_given, l_ack,
           l_close, l_closing, l_cut, l_starts>>
aVars == <<a_conn, a_channel, a_starter, a_ctxDone, a_stop, a_declared, a_job, a_consumer,
           a_cur, a_sem, a_filled, a_ran, a_taken, a_sawNil, a_failed, a_starts>>
MCvars == <<which, vars, gVars, pVars, wVars, lVars, aVars>>

MCInit ==
  /\ which \in {"queue", "group", "partitions", "watermill", "lite", "worker"}
  /\ Init
  /\ Group!Init
  /\ Parts!Init
  /\ Watermill!Init
  /\ Lite!Init
  /\ Worker!Init /\ (which # "worker" => a_conn = "nil")

MCNext ==
  \/ /\ which = "queue" /\ Next
     /\ UNCHANGED <<which, gVars, pVars, wVars, lVars, aVars>>
  \/ /\ which = "group" /\ Group!Next
     /\ UNCHANGED <<which, vars, pVars, wVars, lVars, aVars>>
  \/ /\ which = "partitions" /\ Parts!Next
     /\ UNCHANGED <<which, vars, gVars, wVars, lVars, aVars>>
  \/ /\ which = "watermill" /\ Watermill!Next
     /\ UNCHANGED <<which, vars, gVars, pVars, lVars, aVars>>
  \/ /\ which = "lite" /\ Lite!Next
     /\ UNCHANGED <<which, vars, gVars, pVars, wVars, aVars>>
  \/ /\ which = "worker" /\ Worker!Next
     /\ UNCHANGED <<which, vars, gVars, pVars, wVars, lVars>>

MCSpec ==
  /\ MCInit /\ [][MCNext]_MCvars
  /\ Fairness
  /\ Group!Fairness
  /\ Parts!Fairness
  /\ Watermill!Fairness
  /\ Lite!Fairness
  /\ Worker!Fairness

(* Milliseconds: whole, broken and negative seconds. *)
MCDelays == {-1500, -500, 1500}

-----------------------------------------------------------------------------
(* The type invariants of all of them. *)
Types ==
  /\ TypeOK /\ Group!TypeOK /\ Parts!TypeOK
  /\ Watermill!TypeOK /\ Lite!TypeOK /\ Worker!TypeOK

(* Consumer group: Close returns whatever the application holds. *)
GroupCloseTerminates == Group!CloseTerminates

(* Consumer group: a diligent application gets and decides every message. *)
AllDecided == Group!AllDecided

(* Partition consumers: Close returns to an application that receives. *)
CloseTerminates == Parts!CloseTerminates

(* Watermill: a closed subscription leaves no goroutine behind. *)
ForwarderStops == Watermill!ForwarderStops

(* pubsublite: acked at the broker only after the application's ack. *)
AckedByApplication == Lite!AckedByApplication

(* pubsublite: a Close that succeeded ends the goroutine. *)
CloseEndsLoop == Lite!CloseEndsLoop

(* Worker: a job is acked only after its handler has succeeded. *)
AckedAfterSuccess == Worker!AckedAfterSuccess

(* Worker: cancelling the context closes the connection. *)
CancelCloses == Worker!CancelCloses
=============================================================================
