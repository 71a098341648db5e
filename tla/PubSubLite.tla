----------------------------- MODULE PubSubLite -----------------------------
(***************************************************************************)
(* pubsublite over AMQP: a Connection shared by a Publisher and a          *)
(* Subscriber, the goroutine Subscribe starts, Event.Ack, and Close called *)
(* by several goroutines.                                                  *)
(*                                                                         *)
(* External: the broker.  Publishing to a queue that does not exist drops  *)
(* the message; what a closed channel had not acked is delivered again;    *)
(* closing a connection closes its channels; Cancel and Close of a closed  *)
(* channel are errors.  consumerTag is never set, so Cancel names no       *)
(* consumer and has no effect.                                             *)
(***************************************************************************)
EXTENDS Naturals, FiniteSets

CONSTANTS
  Messages,    \* each published at most once
  NoMessage,   \* the goroutine holds no message
  Closers,     \* goroutines that call Subscriber.Close
  MaxRetries,  \* backoff.WithMaxRetries
  MaxStarts    \* bound: processes, one after the other

VARIABLES
  tries,     \* failed dials of NewConnection
  conn,      \* "none", "open", "closed"
  channel,   \* the Subscriber's channel: "none", "open", "closed"
  declared,  \* the topic's queue exists
  place,     \* place[m]: "none", "dropped", "queue", "buffered", "held", "acked"
  loop,      \* the goroutine: "off", "declared", "range", "select", "acking", "done"
  cur,       \* the message it holds
  given,     \* messages given to this process's application
  ack,       \* messages whose Event.ack is closed
  close,     \* close[c]: "idle", "cancelled", "closed", "returned", "failed"
  closing,   \* how often s.closing was closed
  cut,       \* the connection or the broker closed the channel
  starts

brokerVars == <<declared, place>>
linkVars == <<tries, conn, channel, cut>>
loopVars == <<loop, cur, given>>
closeVars == <<close, closing>>
vars == <<brokerVars, linkVars, loopVars, ack, closeVars, starts>>

Init ==
  /\ tries = 0 /\ conn = "none" /\ channel = "none" /\ cut = FALSE
  /\ declared = FALSE /\ place = [m \in Messages |-> "none"]
  /\ loop = "off" /\ cur = NoMessage /\ given = {}
  /\ ack = {}
  /\ close = [c \in Closers |-> "idle"] /\ closing = 0
  /\ starts = 1

-----------------------------------------------------------------------------
MayDial == tries <= MaxRetries

(* One dial of NewConnection's retried operation; after MaxRetries retries *)
(* the error is returned and there is no connection.                       *)
Dial ==
  /\ conn = "none"
  /\ MayDial
  /\ \/ conn' = "open" /\ UNCHANGED tries
     \/ tries' = tries + 1 /\ UNCHANGED conn
  /\ UNCHANGED <<channel, cut, brokerVars, loopVars, ack, closeVars, starts>>

(* NewSubscription; an error of Channel or ExchangeDeclare returns none. *)
NewSubscription ==
  /\ conn = "open" /\ channel = "none"
  /\ channel' = "open"
  /\ UNCHANGED <<tries, conn, cut, brokerVars, loopVars, ack, closeVars, starts>>

(* Subscribe: setupQueue, then createConsumer and the goroutine. *)
SetupQueue ==
  /\ channel = "open" /\ loop = "off"
  /\ declared' = TRUE /\ loop' = "declared"
  /\ UNCHANGED <<place, linkVars, cur, given, ack, closeVars, starts>>

CreateConsumer ==
  /\ channel = "open" /\ loop = "declared"
  /\ loop' = "range"
  /\ UNCHANGED <<brokerVars, linkVars, cur, given, ack, closeVars, starts>>

Publish(m) ==
  /\ conn = "open"
  /\ place[m] = "none"
  /\ place' = [place EXCEPT ![m] = IF declared THEN "queue" ELSE "dropped"]
  /\ UNCHANGED <<declared, linkVars, loopVars, ack, closeVars, starts>>

Requeued ==
  [m \in Messages |-> IF place[m] \in {"buffered", "held"} THEN "queue" ELSE place[m]]

(* Publisher.Close closes the Connection, and with it the Subscriber's channel. *)
PublisherClose ==
  /\ conn = "open"
  /\ conn' = "closed"
  /\ channel' = IF channel = "open" THEN "closed" ELSE channel
  /\ cut' = (cut \/ channel = "open") /\ place' = Requeued
  /\ UNCHANGED <<tries, declared, loopVars, ack, closeVars, starts>>

ChannelFails ==
  /\ channel = "open"
  /\ channel' = "closed" /\ cut' = TRUE /\ place' = Requeued
  /\ UNCHANGED <<tries, conn, declared, loopVars, ack, closeVars, starts>>

-----------------------------------------------------------------------------
Deliver(m) ==
  /\ channel = "open" /\ loop \notin {"off", "declared"}
  /\ place[m] = "queue"
  /\ place' = [place EXCEPT ![m] = "buffered"]
  /\ UNCHANGED <<declared, linkVars, loopVars, ack, closeVars, starts>>

(* range msgs, and a new Event with an open ack channel; a body that is    *)
(* not JSON leaves the payload empty and is delivered all the same.        *)
RangeNext(m) ==
  /\ loop = "range"
  /\ place[m] = "buffered"
  /\ place' = [place EXCEPT ![m] = "held"]
  /\ ack' = ack \ {m}
  /\ loop' = "select" /\ cur' = m
  /\ UNCHANGED <<declared, linkVars, given, closeVars, starts>>

RangeEnds ==
  /\ loop = "range" /\ channel = "closed"
  /\ loop' = "done"
  /\ UNCHANGED <<brokerVars, linkVars, cur, given, ack, closeVars, starts>>

(* The select: the application receives from out, or closing is closed. *)
Receive ==
  /\ loop = "select"
  /\ loop' = "acking" /\ given' = given \cup {cur}
  /\ UNCHANGED <<brokerVars, linkVars, cur, ack, closeVars, starts>>

(* Mutant of BreakLoop: the send is not in a select with closing. *)
NoBreak ==
  /\ FALSE
  /\ UNCHANGED vars

BreakLoop ==
  /\ loop = "select" /\ closing > 0
  /\ loop' = "done" /\ cur' = NoMessage
  /\ UNCHANGED <<brokerVars, linkVars, given, ack, closeVars, starts>>

(* Event.Ack, under ackMutex: the first call closes ack, the others return. *)
Ack(m) ==
  /\ m \in given /\ m \notin ack
  /\ ack' = ack \cup {m}
  /\ UNCHANGED <<brokerVars, linkVars, loopVars, closeVars, starts>>

(* Mutant of Acked: the wait is missing. *)
NoWait == TRUE

(* <-evt.Acked(), with no way out but the ack. *)
Acked == cur \in ack

(* msg.Ack, whose error is ignored, and the next turn. *)
AckMessage ==
  /\ loop = "acking" /\ Acked
  /\ loop' = "range" /\ cur' = NoMessage
  /\ place' = [place EXCEPT ![cur] = IF channel = "open" THEN "acked" ELSE @]
  /\ UNCHANGED <<declared, linkVars, given, ack, closeVars, starts>>

-----------------------------------------------------------------------------
CloseCancels(c) ==
  /\ close[c] = "idle" /\ channel # "none"
  /\ close' = [close EXCEPT ![c] = IF channel = "open" THEN "cancelled" ELSE "failed"]
  /\ UNCHANGED <<brokerVars, linkVars, loopVars, ack, closing, starts>>

(* The channel's own Close fails when it is closed. *)
CanCloseChannel == channel = "open"

CloseChannel(c) ==
  /\ close[c] = "cancelled"
  /\ close' = [close EXCEPT ![c] = IF CanCloseChannel THEN "closed" ELSE "failed"]
  /\ channel' = "closed"
  /\ place' = Requeued
  /\ UNCHANGED <<declared, tries, conn, cut, loopVars, ack, closing, starts>>

CloseClosing(c) ==
  /\ close[c] = "closed"
  /\ close' = [close EXCEPT ![c] = "returned"]
  /\ closing' = closing + 1
  /\ UNCHANGED <<brokerVars, linkVars, loopVars, ack, starts>>

(* The process ends and another one starts. *)
Restart ==
  /\ starts < MaxStarts /\ conn # "none"
  /\ starts' = starts + 1
  /\ conn' = "open" /\ channel' = "none" /\ cut' = FALSE
  /\ place' = Requeued
  /\ loop' = "off" /\ cur' = NoMessage /\ given' = {}
  /\ close' = [c \in Closers |-> "idle"] /\ closing' = 0
  /\ UNCHANGED <<tries, declared, ack>>

Consume == (\E m \in Messages : RangeNext(m)) \/ RangeEnds \/ AckMessage

Next ==
  \/ Dial \/ NewSubscription \/ SetupQueue \/ CreateConsumer
  \/ PublisherClose \/ ChannelFails \/ Restart
  \/ \E m \in Messages : Publish(m) \/ Deliver(m) \/ Ack(m)
  \/ Consume \/ Receive \/ BreakLoop
  \/ \E c \in Closers : CloseCancels(c) \/ CloseChannel(c) \/ CloseClosing(c)

Spec == Init /\ [][Next]_vars

(* Goroutines run on; the application need not receive, ack or close. *)
Fairness ==
  /\ WF_vars(Consume) /\ WF_vars(BreakLoop)
  /\ \A c \in Closers : WF_vars(CloseChannel(c)) /\ WF_vars(CloseClosing(c))

FairSpec == Spec /\ Fairness

-----------------------------------------------------------------------------
(* Types: in particular the bound on the dials of NewConnection. *)
TypeOK ==
  /\ tries \in 0..(MaxRetries + 1)
  /\ conn \in {"none", "open", "closed"}
  /\ channel \in {"none", "open", "closed"}
  /\ place \in [Messages -> {"none", "dropped", "queue", "buffered", "held", "acked"}]
  /\ loop \in {"off", "declared", "range", "select", "acking", "done"}
  /\ cur \in Messages \cup {NoMessage}
  /\ given \subseteq Messages /\ ack \subseteq Messages
  /\ close \in [Closers -> {"idle", "cancelled", "closed", "returned", "failed"}]

(* At least once: a message leaves the broker only when the application    *)
(* has acked its event, in this process or in an earlier one.              *)
AckedByApplication == \A m \in Messages : place[m] = "acked" => m \in ack

(* The goroutine waits for the ack: the application never holds two events *)
(* it has not acked.                                                       *)
OneUnacked == \A m1, m2 \in given \ ack : m1 = m2

(* Closing the closing channel twice would panic: of several concurrent    *)
(* Closes only the one that closed the AMQP channel gets that far.         *)
ClosedOnce == closing <= 1

(* A Close that returned nil ends the goroutine, unless it waits for an    *)
(* ack.  After the connection or the broker closed the channel, Close      *)
(* fails before it closes closing, and a blocked send stays.               *)
CloseEndsLoop ==
  \A c \in Closers :
    close[c] = "returned" ~> loop \in {"off", "declared", "done", "acking"}
=============================================================================
