----------------------------- MODULE AMQPWorker -----------------------------
(***************************************************************************)
(* worker/amqpw: one Adapter with one registered handler.  The goroutines  *)
(* are the caller of Start, the goroutine Start leaves waiting for ctx,    *)
(* the application (Perform*, Register, Stop) and the consumer that        *)
(* Register starts.                                                        *)
(*                                                                         *)
(* External: the broker.  A job published to a queue that does not exist   *)
(* is dropped; without a prefetch limit every ready job is pushed to the   *)
(* consumer; the jobs a closed channel had not acked become ready again; a *)
(* negative TTL is an error that closes the channel.                       *)
(***************************************************************************)
EXTENDS Integers, FiniteSets

CONSTANTS
  Jobs,            \* jobs, each enqueued at most once
  NoJob,           \* the consumer holds no job
  maxConcurrency,  \* capacity of sem
  Delays,          \* durations given to PerformIn and PerformAt, in ms
  MaxStarts        \* bound: processes, one after the other

VARIABLES
  conn,      \* Connection: "nil", "open", "closed"
  channel,   \* Channel: "nil", "open", "closed"
  starter,   \* Start: "idle", "opening", "started", "failed"
  ctxDone,   \* the context given to Start
  stop,      \* stop[g]: Stop run by g: "off", "ready", "closing", "done"
  declared,  \* the handler's queue exists
  job,       \* job[j]: where it is, see Places
  consumer,  \* Register's goroutine, see Consumer
  cur,       \* the job the consumer holds
  sem,       \* number of values in sem
  filled,    \* i of the last loop of the goroutine
  ran,       \* jobs whose handler has returned nil
  taken,     \* deliveries this consumer has received
  sawNil,    \* a Stop found no channel
  failed,    \* the broker closed the channel
  starts     \* processes so far

brokerVars == <<declared, job>>
linkVars == <<conn, channel, failed>>
startVars == <<starter, ctxDone, stop, sawNil>>
consumerVars == <<consumer, cur, sem, filled, ran, taken>>
vars == <<brokerVars, linkVars, startVars, consumerVars, starts>>

Stoppers == {"ctx", "app"}
Unacked == {"buffered", "held", "skipped"}
Places == Unacked \cup {"none", "queue", "delayed", "dropped", "acked"}
Consumer == {"none", "declared", "range", "sem", "handle", "ack", "refill", "exited"}

Init ==
  /\ conn \in {"nil", "open"} /\ channel = "nil" /\ failed = FALSE
  /\ starter = "idle" /\ ctxDone = FALSE
  /\ stop = [g \in Stoppers |-> "off"] /\ sawNil = FALSE
  /\ declared = FALSE /\ job = [j \in Jobs |-> "none"]
  /\ consumer = "none" /\ cur = NoJob /\ sem = 0 /\ filled = 0
  /\ ran = {} /\ taken = 0
  /\ starts = 1

-----------------------------------------------------------------------------
(* Start leaves a goroutine that will call Stop, then opens the channel. *)
StartCall ==
  /\ starter = "idle"
  /\ starter' = IF conn = "nil" THEN "failed" ELSE "opening"
  /\ stop' = [stop EXCEPT !["ctx"] = "ready"]
  /\ UNCHANGED <<brokerVars, linkVars, ctxDone, sawNil, consumerVars, starts>>

(* The exchange is never declared: New does not set q.exchange. *)
StartOpens ==
  /\ starter = "opening"
  /\ \/ conn = "open" /\ channel' = "open" /\ starter' = "started"
     \/ channel' = channel /\ starter' = "failed"
  /\ UNCHANGED <<brokerVars, conn, failed, ctxDone, stop, sawNil, consumerVars, starts>>

Cancel ==
  /\ ~ctxDone
  /\ ctxDone' = TRUE
  /\ UNCHANGED <<brokerVars, linkVars, starter, stop, sawNil, consumerVars, starts>>

AppStops ==
  /\ stop["app"] = "off"
  /\ stop' = [stop EXCEPT !["app"] = "ready"]
  /\ UNCHANGED <<brokerVars, linkVars, starter, ctxDone, sawNil, consumerVars, starts>>

(* What the broker does with the jobs of a channel that closes. *)
Requeued == [j \in Jobs |-> IF job[j] \in Unacked THEN "queue" ELSE job[j]]

(* Stop, up to Channel.Close: no channel, or one that is closed already,   *)
(* ends it there.                                                          *)
StopChannel(g) ==
  /\ stop[g] = "ready"
  /\ g = "ctx" => ctxDone
  /\ sawNil' = (sawNil \/ channel = "nil")
  /\ IF channel = "open"
     THEN /\ stop' = [stop EXCEPT ![g] = "closing"]
          /\ channel' = "closed" /\ job' = Requeued
     ELSE /\ stop' = [stop EXCEPT ![g] = "done"]
          /\ UNCHANGED <<channel, job>>
  /\ UNCHANGED <<declared, conn, failed, starter, ctxDone, consumerVars, starts>>

(* Mutant of StopConnection: only the channel is closed. *)
StopChannelOnly(g) ==
  /\ stop[g] = "closing"
  /\ stop' = [stop EXCEPT ![g] = "done"]
  /\ UNCHANGED <<brokerVars, linkVars, starter, ctxDone, sawNil, consumerVars, starts>>

StopConnection(g) ==
  /\ stop[g] = "closing"
  /\ stop' = [stop EXCEPT ![g] = "done"]
  /\ conn' = "closed"
  /\ UNCHANGED <<brokerVars, channel, failed, starter, ctxDone, sawNil, consumerVars, starts>>

(* The broker or the network closes the channel. *)
ChannelFails ==
  /\ channel = "open"
  /\ channel' = "closed" /\ failed' = TRUE /\ job' = Requeued
  /\ UNCHANGED <<declared, conn, startVars, consumerVars, starts>>

-----------------------------------------------------------------------------
Arrive(j) == [job EXCEPT ![j] = IF declared THEN "queue" ELSE "dropped"]

(* mandatory asks for the return of a job without a queue; nobody listens. *)
Perform(j) ==
  /\ channel = "open"
  /\ job[j] = "none"
  /\ job' = Arrive(j)
  /\ UNCHANGED <<declared, linkVars, startVars, consumerVars, starts>>

(* int64(t / time.Second) truncates towards zero. *)
Seconds(t) == IF t >= 0 THEN t \div 1000 ELSE -((-t) \div 1000)

(* The temporary queue's TTL is Seconds(t); PerformAt passes time.Until. *)
PerformIn(j, t) ==
  /\ channel = "open"
  /\ job[j] = "none"
  /\ IF Seconds(t) < 0
     THEN /\ channel' = "closed" /\ failed' = TRUE
          /\ job' = [Requeued EXCEPT ![j] = "dropped"]
     ELSE /\ job' = [job EXCEPT ![j] = "delayed"]
          /\ UNCHANGED <<channel, failed>>
  /\ UNCHANGED <<declared, conn, startVars, consumerVars, starts>>

Expire(j) ==
  /\ job[j] = "delayed"
  /\ job' = Arrive(j)
  /\ UNCHANGED <<declared, linkVars, startVars, consumerVars, starts>>

-----------------------------------------------------------------------------
(* Register: QueueDeclare, then Consume and the goroutine.  An error of    *)
(* either, when the channel is closed, leaves what was done.               *)
RegisterDeclares ==
  /\ channel = "open" /\ consumer = "none"
  /\ declared' = TRUE /\ consumer' = "declared"
  /\ UNCHANGED <<job, linkVars, startVars, cur, sem, filled, ran, taken, starts>>

RegisterConsumes ==
  /\ channel = "open" /\ consumer = "declared"
  /\ consumer' = "range"
  /\ UNCHANGED <<brokerVars, linkVars, startVars, cur, sem, filled, ran, taken, starts>>

Deliver(j) ==
  /\ channel = "open" /\ consumer \notin {"none", "declared"}
  /\ job[j] = "queue"
  /\ job' = [job EXCEPT ![j] = "buffered"]
  /\ UNCHANGED <<declared, linkVars, startVars, consumerVars, starts>>

RangeNext(j) ==
  /\ consumer = "range"
  /\ job[j] = "buffered"
  /\ job' = [job EXCEPT ![j] = "held"]
  /\ consumer' = "sem" /\ cur' = j /\ taken' = taken + 1
  /\ UNCHANGED <<declared, linkVars, startVars, sem, filled, ran, starts>>

(* Mutant of SlotFree: one slot more. *)
SlotFreeAtCap == sem <= maxConcurrency

SlotFree == sem < maxConcurrency

(* sem <- true; nothing ever receives from sem. *)
TakeSlot ==
  /\ consumer = "sem" /\ SlotFree
  /\ sem' = sem + 1 /\ consumer' = "handle"
  /\ UNCHANGED <<brokerVars, linkVars, startVars, cur, filled, ran, taken, starts>>

(* The place of the held job, unless the channel closed in the meantime. *)
Settle(place) ==
  job' = [job EXCEPT ![cur] = IF channel = "open" THEN place ELSE @]

(* Mutant of HandleFails: the job is acked before its error is looked at. *)
HandleFailsAcked ==
  /\ consumer = "handle"
  /\ Settle("acked")
  /\ consumer' = "range" /\ cur' = NoJob
  /\ UNCHANGED <<declared, linkVars, startVars, sem, filled, ran, taken, starts>>

(* Bad JSON or a handler error: neither ack nor nack. *)
HandleFails ==
  /\ consumer = "handle"
  /\ Settle("skipped")
  /\ consumer' = "range" /\ cur' = NoJob
  /\ UNCHANGED <<declared, linkVars, startVars, sem, filled, ran, taken, starts>>

HandleSucceeds ==
  /\ consumer = "handle"
  /\ ran' = ran \cup {cur}
  /\ consumer' = "ack"
  /\ UNCHANGED <<brokerVars, linkVars, startVars, cur, sem, filled, taken, starts>>

Ack ==
  /\ consumer = "ack"
  /\ Settle("acked")
  /\ consumer' = "range" /\ cur' = NoJob
  /\ UNCHANGED <<declared, linkVars, startVars, sem, filled, ran, taken, starts>>

(* A closed channel closes msgs: what was buffered is dropped. *)
RangeEnds ==
  /\ consumer = "range"
  /\ channel = "closed"
  /\ consumer' = "refill"
  /\ UNCHANGED <<brokerVars, linkVars, startVars, cur, sem, filled, ran, taken, starts>>

(* One turn of the last loop, or its end. *)
Refill ==
  /\ consumer = "refill"
  /\ IF filled < maxConcurrency
     THEN /\ SlotFree
          /\ sem' = sem + 1 /\ filled' = filled + 1 /\ UNCHANGED consumer
     ELSE /\ consumer' = "exited" /\ UNCHANGED <<sem, filled>>
  /\ UNCHANGED <<brokerVars, linkVars, startVars, cur, ran, taken, starts>>

(* The process ends and another one starts with a new Adapter. *)
Restart ==
  /\ starts < MaxStarts
  /\ starts' = starts + 1
  /\ conn' = "open" /\ channel' = "nil" /\ failed' = FALSE
  /\ starter' = "idle" /\ ctxDone' = FALSE
  /\ stop' = [g \in Stoppers |-> "off"] /\ sawNil' = FALSE
  /\ job' = Requeued
  /\ consumer' = "none" /\ cur' = NoJob /\ sem' = 0 /\ filled' = 0 /\ taken' = 0
  /\ UNCHANGED <<declared, ran>>

Consume ==
  \/ \E j \in Jobs : RangeNext(j)
  \/ TakeSlot \/ HandleFails \/ HandleSucceeds \/ Ack \/ RangeEnds \/ Refill

Next ==
  \/ StartCall \/ StartOpens \/ Cancel \/ AppStops
  \/ \E g \in Stoppers : StopChannel(g) \/ StopConnection(g)
  \/ ChannelFails \/ Restart
  \/ \E j \in Jobs : Perform(j) \/ Expire(j) \/ Deliver(j)
  \/ \E j \in Jobs, t \in Delays : PerformIn(j, t)
  \/ RegisterDeclares \/ RegisterConsumes
  \/ Consume

Spec == Init /\ [][Next]_vars

(* Goroutines and the broker's deliveries go on; the application need not  *)
(* call anything, and handlers return.                                     *)
Fairness ==
  /\ WF_vars(StartOpens) /\ WF_vars(RegisterConsumes) /\ WF_vars(Consume)
  /\ \A g \in Stoppers : WF_vars(StopChannel(g)) /\ WF_vars(StopConnection(g))
  /\ \A j \in Jobs : WF_vars(Deliver(j)) /\ WF_vars(Expire(j))

FairSpec == Spec /\ Fairness

-----------------------------------------------------------------------------
(* Types: in particular sem never holds more than its capacity. *)
TypeOK ==
  /\ conn \in {"nil", "open", "closed"}
  /\ channel \in {"nil", "open", "closed"}
  /\ starter \in {"idle", "opening", "started", "failed"}
  /\ stop \in [Stoppers -> {"off", "ready", "closing", "done"}]
  /\ job \in [Jobs -> Places]
  /\ consumer \in Consumer
  /\ cur \in Jobs \cup {NoJob}
  /\ sem \in 0..maxConcurrency
  /\ filled \in 0..maxConcurrency
  /\ ran \subseteq Jobs
  /\ ctxDone \in BOOLEAN /\ declared \in BOOLEAN /\ sawNil \in BOOLEAN /\ failed \in BOOLEAN

(* A job leaves the broker only when its handler has returned nil: through *)
(* failures, closed channels and restarts a job is never lost by an ack.   *)
AckedAfterSuccess == \A j \in Jobs : job[j] = "acked" => j \in ran

(* The consumer goroutine ends only if it never received a delivery: every *)
(* slot it took is still in sem when the last loop wants to fill it, so    *)
(* after the first delivery a Stop leaves the goroutine behind.            *)
ExitsOnlyIdle == consumer = "exited" => taken = 0

(* Cancelling the context after Start returned closes the connection,      *)
(* except where Stop ran before Start had set Channel, or where Channel    *)
(* was closed by the broker, so that Stop returns before Connection.Close. *)
CancelCloses ==
  ctxDone /\ starter = "started" ~>
    conn = "closed" \/ sawNil \/ failed \/ starter # "started"

Attempted(j) == job[j] \in {"skipped", "acked"} \/ j \in ran

(* "Perform a job as soon as possibly", "MaxConcurrency restricts the      *)
(* amount of workers in parallel": a ready job is given to the handler as  *)
(* long as the channel stays open, however many came before it.            *)
EveryJobAttempted ==
  \A j \in Jobs :
    job[j] = "queue" /\ consumer \notin {"none", "declared"} ~>
      Attempted(j) \/ channel # "open"
=============================================================================
