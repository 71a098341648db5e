------------------------------ MODULE MCPubSub ------------------------------
(***************************************************************************)
(* Publish and subscribe, one implementation in each behaviour: the        *)
(* in-memory one, the same without a buffer, and a Kafka consumer group    *)
(* with one partition, two messages and a Consume that may fail.           *)
(***************************************************************************)
EXTENDS InmemPubSub

CONSTANTS Partitions, NumMessages, MaxSessions, MaxFails  \* of the consumer group

ASSUME GroupAssumption == NumMessages \in Nat /\ MaxSessions \in Nat \ {0}

VARIABLES
  which,  \* the component that runs
  u_mu, u_channelsSubs, u_state, u_chans, u_c, u_listening, u_got, u_published, u_event,
  u_todo, u_pending,
  g_creator, g_awaited, g_ready, g_closed, g_loop, g_fails, g_ctxDone, g_session, g_ended,
  g_claim, g_next, g_acker, g_marked, g_committed, g_eventChClosed, g_closer

Unbuffered == INSTANCE InmemPubSub WITH
  eventBufferSize <- 0, mu <- u_mu, channelsSubs <- u_channelsSubs, state <- u_state,
  chans <- u_chans, c <- u_c, listening <- u_listening, got <- u_got,
  published <- u_published, event <- u_event, todo <- u_todo, pending <- u_pending

Group == INSTANCE KafkaSaramaGroup WITH
  creator <- g_creator, awaited <- g_awaited, ready <- g_ready, closed <- g_closed,
  loop <- g_loop, fails <- g_fails, ctxDone <- g_ctxDone, session <- g_session,
  ended <- g_ended, claim <- g_claim, next <- g_next, acker <- g_acker,
  marked <- g_marked, committed <- g_committed, eventChClosed <- g_eventChClosed,
  closer <- g_closer

uVars == <<u_mu, u_channelsSubs, u_state, u_chans, u_c, u_listening, u_got, u_published,
           u_event, u_todo, u_pending>>
gVars == <<g_creator, g_awaited, g_ready, g_closed, g_loop, g_fails, g_ctxDone, g_session,
           g_ended, g_claim, g_next, g_acker, g_marked, g_committed, g_eventChClosed,
           g_closer>>
MCvars == <<which, vars, uVars, gVars>>

MCInit ==
  /\ which \in {"inmem", "unbuffered", "group"}
  /\ Init
  /\ Unbuffered!Init
  /\ Group!Init

MCNext ==
  \/ /\ which = "inmem" /\ Next
     /\ UNCHANGED <<which, uVars, gVars>>
  \/ /\ which = "unbuffered" /\ Unbuffered!Next
     /\ UNCHANGED <<which, vars, gVars>>
  \/ /\ which = "group" /\ Group!Next
     /\ UNCHANGED <<which, vars, uVars>>

MCSpec ==
  /\ MCInit /\ [][MCNext]_MCvars
  /\ Fairness

-----------------------------------------------------------------------------
(* With a buffer and without one the implementation keeps the contract: a  *)
(* step of the code is a step of PubSubContract, or no step.               *)
KeepsContract == ImplementsContract /\ Unbuffered!ImplementsContract

(* Consumer group: what was neither acked nor nacked is not committed past. *)
NothingSkipped == Group!NothingSkipped
=============================================================================
