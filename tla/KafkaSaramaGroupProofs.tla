----------------------- MODULE KafkaSaramaGroupProofs -----------------------
(***************************************************************************)
(* At-least-once delivery, one message at a time and the safety of the     *)
(* channels of a consumer-group subscription, for every number of          *)
(* partitions, messages, failed Consumes and sessions.                     *)
(***************************************************************************)
EXTENDS KafkaSaramaGroup, TLAPS

(* The provers that a step is tried with, and how long each may take. *)
USE ZenonT(5), SMTT(30)

AckerStates == {"unsent", "none", "lost", "ack", "nack"}
ClaimStates == {"off", "poll", "send", "wait"}

TInv ==
  /\ ready \in Nat /\ closed \subseteq Nat
  /\ loop \in {"off", "consume", "session", "returned", "done"}
  /\ session \in Nat
  /\ claim \in [Partitions -> ClaimStates]
  /\ next \in [Partitions -> 0..NumMessages]
  /\ marked \in [Partitions -> 0..NumMessages]
  /\ committed \in [Partitions -> 0..NumMessages]
  /\ acker \in [Partitions -> [Offsets -> [Sessions -> AckerStates]]]

(* The Consume loop: a new session is within the bound, its ready is new,   *)
(* and only during a session are there claims.                              *)
LoopInv ==
  /\ \A c \in closed : c <= ready
  /\ loop \in {"off", "consume"} => session < MaxSessions /\ \A c \in closed : c < ready
  /\ loop = "session" => session \in Sessions
  /\ loop = "session" /\ ended => session < MaxSessions
  /\ loop = "returned" /\ ~ctxDone => session < MaxSessions
  /\ loop # "session" => \A p \in Partitions : claim[p] = "off"
  /\ eventChClosed => loop = "done"
  /\ creator = "idle" => loop = "off"

DecidedOnce(p, o) == \E n \in Sessions : acker[p][o][n] \in Decided

(* Later sessions have sent nothing, and the marks too pass only what is    *)
(* decided.                                                                 *)
AckInv ==
  /\ \A p \in Partitions, o \in Offsets, n \in Sessions : n > session => acker[p][o][n] = "unsent"
  /\ OneAtATime
  /\ NothingSkipped
  /\ \A p \in Partitions, o \in Offsets : o < marked[p] => DecidedOnce(p, o)

(* Before the offset in p's hands, and not sent in this session. *)
Past(p, o) == o < next[p] /\ (claim[p] \in {"send", "wait"} => o + 1 < next[p])
Ahead(p, o) == o >= next[p] \/ (claim[p] = "send" /\ o + 1 = next[p])

(* A running claim has everything before it decided and nothing after it sent. *)
ClaimInv ==
  \A p \in Partitions : claim[p] # "off" =>
    /\ claim[p] \in {"send", "wait"} => next[p] >= 1
    /\ \A o \in Offsets :
         /\ Past(p, o) => DecidedOnce(p, o)
         /\ Past(p, o) /\ acker[p][o][session] # "unsent" => acker[p][o][session] \in Decided
         /\ Ahead(p, o) => acker[p][o][session] = "unsent"

IInv == TInv /\ LoopInv /\ AckInv /\ ClaimInv

(* The constants the theorems are about. *)
Bounds == NumMessages \in Nat /\ MaxSessions \in Nat \ {0}

-----------------------------------------------------------------------------
(* One acker changes. *)
LEMMA AckerUpdate ==
  ASSUME TInv, NEW p \in Partitions, NEW o \in Offsets, NEW n \in Sessions,
         NEW d \in AckerStates, acker' = [acker EXCEPT ![p][o][n] = d]
  PROVE  /\ acker' \in [Partitions -> [Offsets -> [Sessions -> AckerStates]]]
         /\ acker'[p][o][n] = d
         /\ \A q \in Partitions, r \in Offsets, m \in Sessions :
              ~(q = p /\ r = o /\ m = n) => acker'[q][r][m] = acker[q][r][m]
BY DEF TInv

(* Acks and nacks, and what a crash makes of them, change neither what is   *)
(* decided nor what is unsent, except that an open acker may be decided.    *)
AckersKept ==
  \A p \in Partitions, o \in Offsets, n \in Sessions :
    /\ acker[p][o][n] \in Decided => acker'[p][o][n] \in Decided
    /\ acker[p][o][n] = "unsent" <=> acker'[p][o][n] = "unsent"

LEMMA KeptAckInv ==
  ASSUME TInv, AckInv, AckersKept, session' \in Nat, session' >= session,
         UNCHANGED <<marked, committed>>
  PROVE  AckInv'
<1>1. \A p \in Partitions, o \in Offsets : DecidedOnce(p, o) => DecidedOnce(p, o)'
  BY DEF AckersKept, DecidedOnce
<1>2. OneAtATime'
  BY DEF AckInv, OneAtATime, AckersKept
<1>3. NothingSkipped'
  BY <1>1 DEF AckInv, NothingSkipped, DecidedOnce
<1>4. \A p \in Partitions, o \in Offsets, n \in Sessions :
        n > session' => acker'[p][o][n] = "unsent"
  <2> SUFFICES ASSUME NEW p \in Partitions, NEW o \in Offsets, NEW n \in Sessions, n > session'
               PROVE  acker'[p][o][n] = "unsent"
    OBVIOUS
  <2>1. n > session
    BY DEF TInv, Sessions
  <2>2. QED
    BY <2>1 DEF AckInv, AckersKept
<1>5. QED
  BY <1>1, <1>2, <1>3, <1>4 DEF AckInv

LEMMA KeptClaimInv ==
  ASSUME TInv, LoopInv, ClaimInv, AckersKept, UNCHANGED <<claim, next, session>>
  PROVE  ClaimInv'
<1> SUFFICES ASSUME NEW p \in Partitions, claim[p] # "off"
             PROVE  /\ claim[p] \in {"send", "wait"} => next[p] >= 1
                    /\ \A o \in Offsets :
                         /\ Past(p, o) => DecidedOnce(p, o)'
                         /\ Past(p, o) /\ acker'[p][o][session] # "unsent"
                              => acker'[p][o][session] \in Decided
                         /\ Ahead(p, o) => acker'[p][o][session] = "unsent"
  BY DEF ClaimInv, Past, Ahead
<1>1. session \in Sessions
  BY DEF LoopInv
<1>2. \A o \in Offsets : DecidedOnce(p, o) => DecidedOnce(p, o)'
  BY DEF AckersKept, DecidedOnce
<1>3. QED
  BY <1>1, <1>2 DEF ClaimInv, AckersKept

LEMMA InitIInv ==
  ASSUME Bounds, Init
  PROVE  IInv
<1> USE DEF Bounds, Init
<1>1. TInv
  BY DEF TInv, ClaimStates, AckerStates
<1>2. LoopInv
  BY DEF LoopInv
<1>3. \A p \in Partitions, o \in Offsets, n \in Sessions : acker[p][o][n] = "unsent"
  OBVIOUS
<1>4. AckInv
  BY <1>3 DEF AckInv, OneAtATime, NothingSkipped, Offsets
<1>5. ClaimInv
  BY DEF ClaimInv
<1>6. QED
  BY <1>1, <1>2, <1>4, <1>5 DEF IInv

-----------------------------------------------------------------------------
(* The steps of Subscribe, of the loop outside of sessions and of Close. *)
LEMMA LoopStep ==
  ASSUME Bounds, IInv,
         \/ Subscribe \/ CreatorReads \/ CreatorReturns \/ ConsumeFails \/ ConsumeCancelled
         \/ Rebalance \/ LoopAgain \/ CloseCancels \/ CloseReturns \/ UNCHANGED vars
  PROVE  IInv'
<1> USE DEF IInv, creatorVars, loopVars, claimVars, closeVars, vars
<1>1. UNCHANGED <<claimVars, committed, session>>
  BY DEF Subscribe, CreatorReads, CreatorReturns, ConsumeFails, ConsumeCancelled, Rebalance,
         LoopAgain, CloseCancels, CloseReturns
<1>2. TInv'
  <2>1. /\ loop' \in {"off", "consume", "session", "returned", "done"}
        /\ ready' \in Nat /\ closed' = closed
    BY DEF Subscribe, CreatorReads, CreatorReturns, ConsumeFails, ConsumeCancelled, Rebalance,
           LoopAgain, CloseCancels, CloseReturns, TInv
  <2>2. QED
    BY <1>1, <2>1 DEF TInv
<1>7. LoopInv'
  <2> USE <1>1 DEF Bounds, TInv, LoopInv
  <2>1. CASE Subscribe
    BY <2>1 DEF Subscribe
  <2>2. CASE CreatorReads
    BY <2>2 DEF CreatorReads
  <2>3. CASE CreatorReturns
    BY <2>3 DEF CreatorReturns
  <2>4. CASE ConsumeFails
    BY <2>4 DEF ConsumeFails
  <2>5. CASE ConsumeCancelled
    BY <2>5 DEF ConsumeCancelled
  <2>6. CASE Rebalance
    BY <2>6 DEF Rebalance
  <2>7. CASE LoopAgain
    BY <2>7 DEF LoopAgain
  <2>8. CASE CloseCancels
    BY <2>8 DEF CloseCancels
  <2>9. CASE CloseReturns
    BY <2>9 DEF CloseReturns
  <2>10. CASE UNCHANGED vars
    BY <2>10
  <2>11. QED
    BY <2>1, <2>2, <2>3, <2>4, <2>5, <2>6, <2>7, <2>8, <2>9, <2>10
<1>3. AckersKept
  BY <1>1 DEF AckersKept
<1>4. AckInv'
  BY <1>1, <1>3, KeptAckInv DEF TInv
<1>5. ClaimInv'
  BY <1>1, <1>3, KeptClaimInv
<1>6. QED
  BY <1>2, <1>4, <1>5, <1>7

(* A session starts where the group has committed: everything before is     *)
(* decided, and nothing is sent yet.                                        *)
LEMMA SetupStep ==
  ASSUME Bounds, IInv, NEW ps \in SUBSET Partitions, Setup(ps)
  PROVE  IInv'
<1> USE DEF IInv, creatorVars, closeVars
<1>1. /\ session' = session + 1 /\ session \in Nat /\ session < MaxSessions
      /\ acker' = acker /\ committed' = committed /\ next' = committed /\ marked' = committed
      /\ claim' \in [Partitions -> {"off", "poll"}]
  BY DEF Setup, TInv, LoopInv
<1>2. session' \in Sessions
  BY <1>1 DEF Bounds, Sessions
<1>3. TInv'
  BY <1>1 DEF Setup, TInv, ClaimStates
<1>7. LoopInv'
  BY <1>1, <1>2 DEF Setup, LoopInv, TInv
<1>4. AckInv'
  BY <1>1, <1>2 DEF AckInv, OneAtATime, NothingSkipped, DecidedOnce, Sessions, TInv
<1>5. ClaimInv'
  <2> SUFFICES ASSUME NEW p \in Partitions, NEW o \in Offsets
               PROVE  /\ claim'[p] \notin {"send", "wait"}
                      /\ o < next'[p] => DecidedOnce(p, o)'
                      /\ acker'[p][o][session'] = "unsent"
    BY <1>1, <1>2 DEF ClaimInv, Past, Ahead
  <2>1. o < committed[p] => DecidedOnce(p, o)
    BY DEF AckInv, NothingSkipped, DecidedOnce
  <2>2. acker[p][o][session'] = "unsent"
    BY <1>1, <1>2 DEF AckInv
  <2>3. QED
    BY <1>1, <2>1, <2>2 DEF DecidedOnce
<1>6. QED
  BY <1>3, <1>4, <1>5, <1>7

(* Commits copy marks. *)
LEMMA CommitStep ==
  ASSUME Bounds, IInv, SessionEnds \/ \E p \in Partitions : AutoCommit(p)
  PROVE  IInv'
<1> USE DEF IInv, creatorVars, loopVars, claimVars, closeVars
<1>1. /\ UNCHANGED <<creator, claim, next, acker, marked, session, ready, closed, ended, ctxDone,
                    eventChClosed>>
      /\ committed' \in [Partitions -> 0..NumMessages]
      /\ \A p \in Partitions : committed'[p] \in {committed[p], marked[p]}
  BY DEF SessionEnds, AutoCommit, TInv
<1>2. loop' = loop \/ (loop' = "returned" /\ SessionEnds)
  BY DEF SessionEnds, AutoCommit
<1>3. TInv'
  BY <1>1, <1>2 DEF TInv
<1>7. LoopInv'
  BY <1>1, <1>2 DEF SessionEnds, SessionDone, TInv, LoopInv
<1>4. AckInv'
  BY <1>1 DEF AckInv, OneAtATime, NothingSkipped, DecidedOnce
<1>5. ClaimInv'
  BY <1>1 DEF ClaimInv, Past, Ahead, DecidedOnce
<1>6. QED
  BY <1>3, <1>4, <1>5, <1>7

LEMMA CrashStep ==
  ASSUME Bounds, IInv, Crash
  PROVE  IInv'
<1> USE DEF IInv
<1>1. acker' = [p \in Partitions |-> [o \in Offsets |-> [n \in Sessions |->
                 IF acker[p][o][n] = "none" THEN "lost" ELSE acker[p][o][n]]]]
  BY DEF Crash
<1>2. acker' \in [Partitions -> [Offsets -> [Sessions -> AckerStates]]]
  BY <1>1 DEF TInv, AckerStates
<1>3. AckersKept
  BY <1>1 DEF AckersKept, Decided
<1>4. TInv'
  BY <1>2 DEF Crash, TInv, ClaimStates
<1>8. LoopInv'
  BY DEF Crash, TInv, LoopInv
<1>5. AckInv'
  BY <1>3, KeptAckInv DEF Crash, TInv
<1>6. ClaimInv'
  BY DEF Crash, ClaimInv
<1>7. QED
  BY <1>4, <1>5, <1>6, <1>8

-----------------------------------------------------------------------------
(* A claim's own steps change its claim and next, its mark or one acker. *)
LEMMA PollStep ==
  ASSUME Bounds, IInv, NEW p \in Partitions, Poll(p) \/ ClaimReturns(p)
  PROVE  IInv'
<1> USE DEF IInv, creatorVars, loopVars, closeVars
<1>1. UNCHANGED <<creatorVars, loopVars, acker, marked, committed, closeVars>>
  BY DEF Poll, ClaimReturns
<1>2. claim[p] # "off" /\ loop = "session" /\ session \in Sessions
  BY DEF Poll, ClaimReturns, LoopInv
<1>3. /\ claim' \in [Partitions -> ClaimStates]
      /\ next' \in [Partitions -> 0..NumMessages]
      /\ \A q \in Partitions \ {p} : claim'[q] = claim[q] /\ next'[q] = next[q]
  <2>1. CASE Poll(p)
    <3>1. /\ claim' = [claim EXCEPT ![p] = "send"] /\ next' = [next EXCEPT ![p] = next[p] + 1]
          /\ next[p] \in 0..NumMessages /\ next[p] < NumMessages
      BY <2>1 DEF Poll, TInv
    <3>2. next[p] + 1 \in 0..NumMessages
      BY <3>1 DEF Bounds
    <3>3. QED
      BY <3>1, <3>2 DEF TInv, ClaimStates
  <2>2. CASE ClaimReturns(p)
    BY <2>2 DEF ClaimReturns, TInv, ClaimStates
  <2>3. QED
    BY <2>1, <2>2
<1>4. TInv' /\ LoopInv'
  BY <1>1, <1>2, <1>3 DEF TInv, LoopInv
<1>5. AckInv'
  BY <1>1 DEF AckInv, OneAtATime, NothingSkipped, DecidedOnce
<1>6. ClaimInv'
  <2> SUFFICES ASSUME NEW q \in Partitions, claim'[q] # "off"
               PROVE  /\ claim'[q] \in {"send", "wait"} => next'[q] >= 1
                      /\ \A o \in Offsets :
                           /\ Past(q, o)' => DecidedOnce(q, o)'
                           /\ Past(q, o)' /\ acker'[q][o][session'] # "unsent"
                                => acker'[q][o][session'] \in Decided
                           /\ Ahead(q, o)' => acker'[q][o][session'] = "unsent"
    BY DEF ClaimInv
  <2>1. CASE q # p
    BY <1>1, <1>3, <2>1 DEF ClaimInv, Past, Ahead, DecidedOnce
  <2>2. CASE q = p
    <3>1. /\ claim[p] = "poll" /\ claim'[p] = "send" /\ next'[p] = next[p] + 1
          /\ next[p] \in Nat
      BY <2>2 DEF Poll, ClaimReturns, TInv, Bounds
    <3>2. \A o \in Offsets : (Past(p, o)' => Past(p, o)) /\ (Ahead(p, o)' => Ahead(p, o))
      BY <3>1 DEF Past, Ahead, Offsets
    <3>3. QED
      BY <1>1, <2>2, <3>1, <3>2 DEF ClaimInv, DecidedOnce
  <2>3. QED
    BY <2>1, <2>2
<1>7. QED
  BY <1>4, <1>5, <1>6

(* The event is received: its acker opens, in this session for the first time. *)
LEMMA DeliverStep ==
  ASSUME Bounds, IInv, NEW p \in Partitions, Deliver(p)
  PROVE  IInv'
<1> USE DEF IInv, creatorVars, loopVars, closeVars
<1> DEFINE f == InFlight(p)
<1>1. /\ claim[p] = "send" /\ claim' = [claim EXCEPT ![p] = "wait"]
      /\ acker' = [acker EXCEPT ![p][f][session] = "none"]
      /\ UNCHANGED <<creatorVars, loopVars, next, marked, committed, closeVars>>
  BY DEF Deliver
<1>2. session \in Sessions /\ loop = "session"
  BY <1>1 DEF LoopInv
<1>3. f \in Offsets /\ next[p] = f + 1
  <2>1. next[p] >= 1 /\ next[p] \in 0..NumMessages
    BY <1>1 DEF ClaimInv, TInv
  <2>2. QED
    BY <2>1 DEF InFlight, Offsets, Bounds
<1>4. acker[p][f][session] = "unsent"
  BY <1>1, <1>3 DEF ClaimInv, Ahead
<1> HIDE DEF f
<1>5. /\ acker' \in [Partitions -> [Offsets -> [Sessions -> AckerStates]]]
      /\ acker'[p][f][session] = "none"
      /\ \A q \in Partitions, r \in Offsets, m \in Sessions :
           ~(q = p /\ r = f /\ m = session) => acker'[q][r][m] = acker[q][r][m]
  BY <1>1, <1>2, <1>3, AckerUpdate DEF AckerStates
<1>6. TInv' /\ LoopInv'
  BY <1>1, <1>2, <1>5 DEF TInv, LoopInv, ClaimStates
<1>7. \A q \in Partitions, r \in Offsets, n \in Sessions :
        acker[q][r][n] \in Decided => acker'[q][r][n] = acker[q][r][n]
  BY <1>4, <1>5 DEF Decided
<1>8. \A q \in Partitions, r \in Offsets : DecidedOnce(q, r) => DecidedOnce(q, r)'
  BY <1>7 DEF DecidedOnce
<1>9. AckInv'
  <2>1. OneAtATime'
    <3> SUFFICES ASSUME NEW q \in Partitions, NEW n \in Sessions,
                        NEW o1 \in Offsets, NEW o2 \in Offsets, o1 < o2,
                        acker'[q][o1][n] # "unsent", acker'[q][o2][n] # "unsent"
                 PROVE  acker'[q][o1][n] \in Decided
      BY DEF OneAtATime
    <3>1. CASE ~(q = p /\ n = session)
      <4>1. acker'[q][o1][n] = acker[q][o1][n] /\ acker'[q][o2][n] = acker[q][o2][n]
        BY <1>5, <3>1
      <4>2. QED
        BY <4>1 DEF AckInv, OneAtATime
    <3>2. CASE q = p /\ n = session /\ o2 = f
      <4>1. Past(p, o1)
        BY <1>1, <1>3, <3>2 DEF Past, Offsets
      <4>2. acker'[p][o1][session] = acker[p][o1][session]
        BY <1>5, <3>2 DEF Offsets
      <4>3. QED
        BY <1>1, <3>2, <4>1, <4>2 DEF ClaimInv
    <3>3. CASE q = p /\ n = session /\ o1 = f
      <4>1. Ahead(p, o2) /\ o2 # f
        BY <1>1, <1>3, <3>3 DEF Ahead, Offsets
      <4>2. acker[p][o2][session] = "unsent" /\ acker'[p][o2][session] = acker[p][o2][session]
        BY <1>1, <1>2, <1>5, <4>1 DEF ClaimInv
      <4>3. QED
        BY <3>3, <4>2
    <3>4. CASE q = p /\ n = session /\ o1 # f /\ o2 # f
      <4>1. acker'[q][o1][n] = acker[q][o1][n] /\ acker'[q][o2][n] = acker[q][o2][n]
        BY <1>5, <3>4
      <4>2. QED
        BY <4>1 DEF AckInv, OneAtATime
    <3>5. QED
      BY <3>1, <3>2, <3>3, <3>4
  <2>2. NothingSkipped'
    BY <1>1, <1>8 DEF AckInv, NothingSkipped, DecidedOnce
  <2>3. \A q \in Partitions, o \in Offsets, n \in Sessions :
          n > session' => acker'[q][o][n] = "unsent"
    BY <1>1, <1>2, <1>5 DEF AckInv, Sessions
  <2>4. QED
    BY <1>1, <1>8, <2>1, <2>2, <2>3 DEF AckInv
<1>10. ClaimInv'
  <2> SUFFICES ASSUME NEW q \in Partitions, claim'[q] # "off", NEW o \in Offsets
               PROVE  /\ claim'[q] \in {"send", "wait"} => next'[q] >= 1
                      /\ Past(q, o)' => DecidedOnce(q, o)'
                      /\ Past(q, o)' /\ acker'[q][o][session'] # "unsent"
                           => acker'[q][o][session'] \in Decided
                      /\ Ahead(q, o)' => acker'[q][o][session'] = "unsent"
    BY <1>3 DEF ClaimInv
  <2>1. CASE q # p
    BY <1>1, <1>2, <1>5, <1>8, <2>1 DEF ClaimInv, Past, Ahead, TInv
  <2>2. CASE q = p
    <3>1. /\ claim'[p] = "wait" /\ next'[p] = f + 1 /\ next[p] >= 1 /\ next'[p] = next[p]
      BY <1>1, <1>3 DEF TInv, ClaimInv
    <3>2. (Past(p, o)' => Past(p, o) /\ o # f) /\ (Ahead(p, o)' => Ahead(p, o) /\ o # f)
      BY <1>1, <1>3, <3>1 DEF Past, Ahead, Offsets
    <3>3. QED
      BY <1>1, <1>2, <1>5, <1>8, <2>2, <3>1, <3>2 DEF ClaimInv
  <2>3. QED
    BY <2>1, <2>2
<1>11. QED
  BY <1>6, <1>9, <1>10

LEMMA AckOrNackStep ==
  ASSUME Bounds, IInv, NEW p \in Partitions, NEW o \in Offsets, NEW n \in Sessions,
         NEW d \in Decided, AckOrNack(p, o, n, d)
  PROVE  IInv'
<1> USE DEF IInv, creatorVars, loopVars, closeVars
<1>1. /\ acker[p][o][n] = "none" /\ acker' = [acker EXCEPT ![p][o][n] = d]
      /\ UNCHANGED <<creatorVars, loopVars, claim, next, marked, committed, closeVars>>
  BY DEF AckOrNack
<1>2. /\ acker' \in [Partitions -> [Offsets -> [Sessions -> AckerStates]]]
      /\ acker'[p][o][n] = d
      /\ \A q \in Partitions, r \in Offsets, m \in Sessions :
           ~(q = p /\ r = o /\ m = n) => acker'[q][r][m] = acker[q][r][m]
  BY <1>1, AckerUpdate DEF AckerStates, Decided
<1>3. AckersKept
  BY <1>1, <1>2 DEF AckersKept, Decided
<1>4. TInv' /\ LoopInv'
  BY <1>1, <1>2 DEF TInv, LoopInv
<1>5. AckInv'
  BY <1>1, <1>3, KeptAckInv DEF TInv
<1>6. ClaimInv'
  BY <1>1, <1>3, KeptClaimInv
<1>7. QED
  BY <1>4, <1>5, <1>6

(* The acker is decided: only now may the mark pass the message, and        *)
(* everything before it is decided already.                                 *)
LEMMA ResolveStep ==
  ASSUME Bounds, IInv, NEW p \in Partitions, Resolve(p)
  PROVE  IInv'
<1> USE DEF IInv, creatorVars, loopVars, closeVars
<1> DEFINE f == InFlight(p)
<1>1. /\ claim[p] = "wait" /\ claim' = [claim EXCEPT ![p] = "poll"]
      /\ acker[p][f][session] \in Decided
      /\ UNCHANGED <<creatorVars, loopVars, next, acker, committed, closeVars>>
  BY DEF Resolve
<1>2. session \in Sessions /\ loop = "session"
  BY <1>1 DEF LoopInv
<1>3. f \in Offsets /\ next[p] = f + 1 /\ next[p] \in 0..NumMessages
  <2>1. next[p] >= 1 /\ next[p] \in 0..NumMessages
    BY <1>1 DEF ClaimInv, TInv
  <2>2. QED
    BY <2>1 DEF InFlight, Offsets, Bounds
<1>4. /\ marked' \in [Partitions -> 0..NumMessages]
      /\ marked'[p] \in {marked[p], next[p]}
      /\ \A q \in Partitions \ {p} : marked'[q] = marked[q]
  <2>1. marked' = marked \/ marked' = [marked EXCEPT ![p] =
                                         IF f + 1 > marked[p] THEN f + 1 ELSE marked[p]]
    BY DEF Resolve, MarkMessage
  <2>2. QED
    BY <1>3, <2>1 DEF TInv
<1> HIDE DEF f
<1>5. \A o \in Offsets : o < next[p] => DecidedOnce(p, o)
  <2> SUFFICES ASSUME NEW o \in Offsets, o < next[p] PROVE DecidedOnce(p, o)
    OBVIOUS
  <2>1. CASE o = f
    BY <1>1, <1>2, <2>1 DEF DecidedOnce
  <2>2. CASE o # f
    <3>1. Past(p, o)
      BY <1>3, <2>2 DEF Past, Offsets
    <3>2. QED
      BY <1>1, <3>1 DEF ClaimInv
  <2>3. QED
    BY <2>1, <2>2
<1>6. TInv' /\ LoopInv'
  BY <1>1, <1>2, <1>4 DEF TInv, LoopInv, ClaimStates
<1>7. AckInv'
  <2>1. OneAtATime' /\ NothingSkipped'
    BY <1>1 DEF AckInv, OneAtATime, NothingSkipped
  <2>2. \A q \in Partitions, o \in Offsets : o < marked'[q] => DecidedOnce(q, o)
    <3> SUFFICES ASSUME NEW q \in Partitions, NEW o \in Offsets, o < marked'[q]
                 PROVE  DecidedOnce(q, o)
      OBVIOUS
    <3>1. CASE q = p
      BY <1>4, <1>5, <3>1 DEF AckInv
    <3>2. CASE q # p
      BY <1>4, <3>2 DEF AckInv
    <3>3. QED
      BY <3>1, <3>2
  <2>3. QED
    BY <1>1, <2>1, <2>2 DEF AckInv, DecidedOnce
<1>8. ClaimInv'
  <2> SUFFICES ASSUME NEW q \in Partitions, claim'[q] # "off", NEW o \in Offsets
               PROVE  /\ claim'[q] \in {"send", "wait"} => next'[q] >= 1
                      /\ Past(q, o)' => DecidedOnce(q, o)'
                      /\ Past(q, o)' /\ acker'[q][o][session'] # "unsent"
                           => acker'[q][o][session'] \in Decided
                      /\ Ahead(q, o)' => acker'[q][o][session'] = "unsent"
    BY <1>3 DEF ClaimInv
  <2>1. CASE q # p
    BY <1>1, <2>1 DEF ClaimInv, Past, Ahead, DecidedOnce, TInv
  <2>2. CASE q = p
    <3>1. claim'[p] = "poll" /\ next'[p] = f + 1
      BY <1>1, <1>3 DEF TInv
    <3>2. (Past(p, o)' => Past(p, o) \/ o = f) /\ (Ahead(p, o)' => Ahead(p, o))
      <4>1. o \in Nat /\ f \in Nat
        BY <1>3 DEF Offsets, Bounds
      <4>2. Past(p, o)' => o < f + 1
        BY <3>1 DEF Past
      <4>3. o < f => Past(p, o)
        BY <1>3, <4>1 DEF Past
      <4>4. Ahead(p, o)' => o >= next[p]
        BY <1>1, <3>1 DEF Ahead
      <4>5. QED
        BY <4>1, <4>2, <4>3, <4>4 DEF Ahead
    <3>3. Past(p, o)' => o < next[p]
      BY <1>1 DEF Past
    <3>4. DecidedOnce(p, o)' <=> DecidedOnce(p, o)
      BY <1>1 DEF DecidedOnce
    <3>5. QED
      BY <1>1, <1>5, <2>2, <3>1, <3>2, <3>3, <3>4 DEF ClaimInv
  <2>3. QED
    BY <2>1, <2>2
<1>9. QED
  BY <1>6, <1>7, <1>8

-----------------------------------------------------------------------------
LEMMA NextIInv ==
  ASSUME Bounds, IInv, [Next]_vars
  PROVE  IInv'
<1>1. CASE \/ Subscribe \/ CreatorReads \/ CreatorReturns \/ ConsumeFails \/ ConsumeCancelled
           \/ Rebalance \/ LoopAgain \/ CloseCancels \/ CloseReturns \/ UNCHANGED vars
  BY <1>1, LoopStep
<1>2. CASE \E ps \in SUBSET Partitions : Setup(ps)
  BY <1>2, SetupStep
<1>3. CASE SessionEnds \/ \E p \in Partitions : AutoCommit(p)
  BY <1>3, CommitStep
<1>4. CASE Crash
  BY <1>4, CrashStep
<1>5. CASE \E p \in Partitions : Poll(p) \/ ClaimReturns(p)
  BY <1>5, PollStep
<1>6. CASE \E p \in Partitions : Deliver(p)
  BY <1>6, DeliverStep
<1>7. CASE \E p \in Partitions : Resolve(p)
  BY <1>7, ResolveStep
<1>8. CASE \E p \in Partitions, o \in Offsets, n \in Sessions, d \in Decided : AckOrNack(p, o, n, d)
  BY <1>8, AckOrNackStep
<1>9. QED
  BY <1>1, <1>2, <1>3, <1>4, <1>5, <1>6, <1>7, <1>8 DEF Next, ConsumeLoop, ConsumeClaim

LEMMA Consequences ==
  ASSUME IInv
  PROVE  NothingSkipped /\ OneAtATime /\ NoSendOnClosed /\ NoDoubleClose
<1>1. NothingSkipped /\ OneAtATime
  BY DEF IInv, AckInv
<1>2. NoSendOnClosed
  BY DEF IInv, LoopInv, NoSendOnClosed
<1>3. NoDoubleClose
  BY DEF IInv, TInv, LoopInv, NoDoubleClose
<1>4. QED
  BY <1>1, <1>2, <1>3

LEMMA Always ==
  ASSUME Bounds
  PROVE  Spec => [](NothingSkipped /\ OneAtATime /\ NoSendOnClosed /\ NoDoubleClose)
<1>1. Init => IInv
  BY InitIInv
<1>2. IInv /\ [Next]_vars => IInv'
  BY NextIInv
<1>3. IInv => NothingSkipped /\ OneAtATime /\ NoSendOnClosed /\ NoDoubleClose
  BY Consequences
<1>4. QED
  BY <1>1, <1>2, <1>3, PTL DEF Spec

(* At least once: the committed offset never passes a message that the      *)
(* application has not acked or nacked (ConsumeClaim, lines 326-381), for   *)
(* any number of partitions, messages, rebalances, crashes and failures.    *)
THEOREM AtLeastOnce ==
  ASSUME Bounds
  PROVE  Spec => []NothingSkipped
BY Always, PTL

(* Within a session the next message of a partition is delivered only after *)
(* the previous one is acked or nacked (lines 348-370).                     *)
THEOREM InTurn ==
  ASSUME Bounds
  PROVE  Spec => []OneAtATime
BY Always, PTL

(* No claim can send on eventCh when Close closes it (lines 228-243).       *)
THEOREM CloseWaits ==
  ASSUME Bounds
  PROVE  Spec => []NoSendOnClosed
BY Always, PTL

(* Setup never closes a ready channel for the second time (lines 284-296 and *)
(* 312-324), whatever Consume's failures, rebalances and restarts.           *)
THEOREM ReadyClosedOnce ==
  ASSUME Bounds
  PROVE  Spec => []NoDoubleClose
BY Always, PTL

-----------------------------------------------------------------------------
(* What TypeOK says of the counters and of the program counters. *)
Counters ==
  /\ ready \in Nat \ {0} /\ awaited \in 0..ready /\ closed \subseteq 1..ready
  /\ fails \in 0..MaxFails /\ session \in 0..MaxSessions
Places ==
  /\ creator \in {"idle", "start", "blocked", "returned"}
  /\ closer \in {"idle", "waiting", "closed"}
  /\ ended \in BOOLEAN /\ ctxDone \in BOOLEAN /\ eventChClosed \in BOOLEAN

LEMMA TypedStep ==
  ASSUME Bounds, MaxFails \in Nat, IInv, Counters, Places, [Next]_vars
  PROVE  Counters' /\ Places'
<1>1. /\ ready \in Nat \ {0} /\ session \in 0..MaxSessions /\ MaxSessions \in Nat
      /\ loop \in {"off", "consume"} => session < MaxSessions
  BY DEF Counters, Bounds, IInv, LoopInv
<1>2. CASE UNCHANGED <<creatorVars, loopVars, closeVars>>
  BY <1>2 DEF Counters, Places, creatorVars, loopVars, closeVars
<1>3. CASE Subscribe \/ CreatorReads \/ CreatorReturns
  <2>1. UNCHANGED <<ready, closed, fails, session, ended, closeVars>>
    BY <1>3 DEF Subscribe, CreatorReads, CreatorReturns, loopVars
  <2>2. awaited' \in 0..ready
    BY <1>1, <1>3 DEF Counters, Subscribe, CreatorReads, CreatorReturns
  <2>3. creator' \in {"idle", "start", "blocked", "returned"}
    BY <1>3 DEF Subscribe, CreatorReads, CreatorReturns
  <2>4. QED
    BY <2>1, <2>2, <2>3 DEF Counters, Places, closeVars
<1>4. CASE ConsumeFails
  <2>1. fails' \in 0..MaxFails
    BY <1>4 DEF Counters, ConsumeFails
  <2>2. UNCHANGED <<creatorVars, ready, closed, session, ended, closeVars>>
    BY <1>4 DEF ConsumeFails
  <2>3. QED
    BY <2>1, <2>2 DEF Counters, Places, creatorVars, closeVars
<1>5. CASE \E ps \in SUBSET Partitions : Setup(ps)
  <2>1. /\ closed' = closed \cup {ready} /\ session' = session + 1 /\ loop = "consume"
        /\ ended' = FALSE /\ UNCHANGED <<creatorVars, ready, fails, closeVars>>
    BY <1>5 DEF Setup
  <2>2. session' \in 0..MaxSessions /\ closed' \subseteq 1..ready
    BY <1>1, <2>1 DEF Counters
  <2>3. QED
    BY <2>1, <2>2 DEF Counters, Places, creatorVars, closeVars
<1>6. CASE ConsumeCancelled \/ SessionEnds \/ Rebalance
  <2>1. UNCHANGED <<creatorVars, ready, closed, fails, session, closeVars>>
    BY <1>6 DEF ConsumeCancelled, SessionEnds, Rebalance
  <2>2. ended' = ended \/ ended' = TRUE
    BY <1>6 DEF ConsumeCancelled, SessionEnds, Rebalance
  <2>3. Counters'
    BY <2>1 DEF Counters, creatorVars
  <2>4. QED
    BY <2>1, <2>2, <2>3 DEF Places, creatorVars, closeVars
<1>7. CASE LoopAgain
  <2>1. /\ ready' \in {ready, ready + 1}
        /\ UNCHANGED <<creatorVars, closed, fails, session, ended, closeVars>>
    BY <1>7 DEF LoopAgain
  <2>2. /\ ready' \in Nat \ {0} /\ awaited' \in 0..ready' /\ closed' \subseteq 1..ready'
    BY <1>1, <2>1 DEF Counters, creatorVars
  <2>3. QED
    BY <2>1, <2>2 DEF Counters, Places, creatorVars, closeVars
<1>8. CASE Crash
  <2>1. /\ creator' = "start" /\ awaited' = 0 /\ ready' = ready + 1 /\ ended' = FALSE
        /\ ctxDone' = FALSE /\ eventChClosed' = FALSE /\ closer' = "idle"
        /\ UNCHANGED <<closed, fails, session>>
    BY <1>8 DEF Crash
  <2>2. /\ ready' \in Nat \ {0} /\ awaited' \in 0..ready' /\ closed' \subseteq 1..ready'
    BY <1>1, <2>1 DEF Counters
  <2>3. QED
    BY <2>1, <2>2 DEF Counters, Places
<1>9. CASE CloseCancels \/ CloseReturns
  <2>1. /\ UNCHANGED <<creatorVars, loopVars>>
        /\ closer' \in {"waiting", "closed"}
    BY <1>9 DEF CloseCancels, CloseReturns
  <2>2. ctxDone' \in BOOLEAN /\ eventChClosed' \in BOOLEAN
    BY <1>9 DEF CloseCancels, CloseReturns, Places
  <2>3. Counters'
    BY <2>1 DEF Counters, creatorVars, loopVars
  <2>4. QED
    BY <2>1, <2>2, <2>3 DEF Places, creatorVars, loopVars
<1>10. CASE \/ \E p \in Partitions : ConsumeClaim(p) \/ Deliver(p) \/ AutoCommit(p)
            \/ \E p \in Partitions, o \in Offsets, n \in Sessions, d \in Decided :
                 AckOrNack(p, o, n, d)
            \/ UNCHANGED vars
  <2>1. UNCHANGED <<creatorVars, loopVars, closeVars>>
    BY <1>10 DEF ConsumeClaim, Poll, Resolve, ClaimReturns, Deliver, AutoCommit, AckOrNack, vars
  <2>2. QED
    BY <1>2, <2>1
<1>11. QED
  BY <1>3, <1>4, <1>5, <1>6, <1>7, <1>8, <1>9, <1>10 DEF Next, ConsumeLoop

(* Types: in particular every offset is one of the partition's or its end,  *)
(* and the creator waits for a ready channel that the loop has made.        *)
THEOREM TypeCorrect ==
  ASSUME Bounds, MaxFails \in Nat
  PROVE  Spec => []TypeOK
<1>1. Init => IInv /\ Counters /\ Places
  <2>1. Init => IInv
    BY InitIInv
  <2>2. Init => Counters
    BY DEF Init, Counters, Bounds
  <2>3. Init => Places
    BY DEF Init, Places
  <2>4. QED
    BY <2>1, <2>2, <2>3
<1>2. IInv /\ Counters /\ Places /\ [Next]_vars => IInv' /\ Counters' /\ Places'
  BY NextIInv, TypedStep
<1>3. IInv /\ Counters /\ Places => TypeOK
  BY DEF IInv, TInv, Counters, Places, TypeOK, ClaimStates, AckerStates
<1>4. QED
  BY <1>1, <1>2, <1>3, PTL DEF Spec

-----------------------------------------------------------------------------
(* What a nack does to the offset.  The marks and the commits stand just    *)
(* behind an acked message.                                                 *)
AckedBefore(p, m) == \E n \in Sessions : acker[p][m - 1][n] = "ack"

CommitFollowsAck == \A p \in Partitions : committed[p] > 0 => AckedBefore(p, committed[p])

MarkInv == CommitFollowsAck /\ \A p \in Partitions : marked[p] > 0 => AckedBefore(p, marked[p])

LEMMA AcksStay ==
  ASSUME Bounds, IInv, [Next]_vars,
         NEW p \in Partitions, NEW o \in Offsets, NEW n \in Sessions, acker[p][o][n] = "ack"
  PROVE  acker'[p][o][n] = "ack"
<1>1. TInv
  BY DEF IInv
<1>2. ASSUME NEW q \in Partitions, Deliver(q) PROVE acker'[p][o][n] = "ack"
  <2> DEFINE f == InFlight(q)
  <2>1. /\ claim[q] = "send" /\ acker' = [acker EXCEPT ![q][f][session] = "none"]
    BY <1>2 DEF Deliver
  <2>2. session \in Sessions
    BY <2>1 DEF IInv, LoopInv
  <2>3. next[q] >= 1 /\ next[q] \in 0..NumMessages
    BY <2>1 DEF IInv, ClaimInv, TInv
  <2>4. f \in Offsets /\ f + 1 = next[q]
    BY <2>3 DEF InFlight, Offsets, Bounds
  <2> HIDE DEF f
  <2>5. acker[q][f][session] = "unsent"
    BY <2>1, <2>4 DEF IInv, ClaimInv, Ahead
  <2>6. ~(p = q /\ o = f /\ n = session)
    BY <2>5
  <2>7. "none" \in AckerStates
    BY DEF AckerStates
  <2>8. QED
    BY <1>1, <2>1, <2>2, <2>4, <2>6, <2>7, AckerUpdate
<1>3. ASSUME NEW q \in Partitions, NEW r \in Offsets, NEW m \in Sessions, NEW d \in Decided,
             AckOrNack(q, r, m, d)
      PROVE  acker'[p][o][n] = "ack"
  <2>1. acker[q][r][m] = "none" /\ acker' = [acker EXCEPT ![q][r][m] = d]
    BY <1>3 DEF AckOrNack
  <2>2. ~(p = q /\ o = r /\ n = m)
    BY <2>1
  <2>3. d \in AckerStates
    BY DEF AckerStates, Decided
  <2>4. QED
    BY <1>1, <2>1, <2>2, <2>3, AckerUpdate
<1>4. CASE Crash
  BY <1>4 DEF Crash
<1>5. CASE acker' = acker
  BY <1>5
<1>6. \/ acker' = acker \/ Crash \/ \E q \in Partitions : Deliver(q)
      \/ \E q \in Partitions, r \in Offsets, m \in Sessions, d \in Decided : AckOrNack(q, r, m, d)
  <2>1. CASE \/ Subscribe \/ CreatorReads \/ CreatorReturns \/ ConsumeFails \/ ConsumeLoop
             \/ Rebalance \/ CloseCancels \/ CloseReturns \/ UNCHANGED vars
    BY <2>1 DEF Subscribe, CreatorReads, CreatorReturns, ConsumeFails, ConsumeLoop, Setup,
      ConsumeCancelled, SessionEnds, LoopAgain, Rebalance, CloseCancels, CloseReturns,
      vars, claimVars
  <2>2. CASE \E q \in Partitions : ConsumeClaim(q) \/ AutoCommit(q)
    BY <2>2 DEF ConsumeClaim, Poll, Resolve, ClaimReturns, AutoCommit, claimVars
  <2>3. QED
    BY <2>1, <2>2 DEF Next
<1>7. QED
  BY <1>2, <1>3, <1>4, <1>5, <1>6

(* A mark moves behind a message that is acked, or back to the commit. *)
LEMMA MarkMoves ==
  ASSUME Bounds, IInv, [Next]_vars, NEW p \in Partitions
  PROVE  /\ marked'[p] \in {marked[p], committed[p]} \/ AckedBefore(p, marked'[p])
         /\ committed'[p] \in {marked[p], committed[p]}
<1>1. /\ marked \in [Partitions -> 0..NumMessages] /\ committed \in [Partitions -> 0..NumMessages]
  BY DEF IInv, TInv
<1>2. ASSUME NEW q \in Partitions, Resolve(q)
      PROVE  /\ marked'[p] = marked[p] \/ AckedBefore(p, marked'[p])
             /\ committed' = committed
  <2> DEFINE f == InFlight(q)
  <2>1. claim[q] = "wait" /\ committed' = committed
    BY <1>2 DEF Resolve
  <2>2. next[q] >= 1 /\ next[q] \in 0..NumMessages
    BY <2>1 DEF IInv, ClaimInv, TInv
  <2>3. f \in Nat /\ (f + 1) - 1 = f
    BY <2>2 DEF InFlight, Bounds
  <2>4. session \in Sessions
    BY <2>1 DEF IInv, LoopInv
  <2> HIDE DEF f
  <2>5. \/ marked' = marked
        \/ /\ acker[q][f][session] = "ack"
           /\ marked' = [marked EXCEPT ![q] = IF f + 1 > @ THEN f + 1 ELSE @]
    BY <1>2 DEF Resolve, MarkMessage, f
  <2>6. marked'[p] = marked[p] \/ (p = q /\ acker[q][f][session] = "ack" /\ marked'[p] = f + 1)
    BY <1>1, <2>5
  <2>7. QED
    BY <2>1, <2>3, <2>4, <2>6 DEF AckedBefore
<1>3. CASE \E ps \in SUBSET Partitions : Setup(ps)
  BY <1>3 DEF Setup
<1>4. CASE SessionEnds
  BY <1>4 DEF SessionEnds, claimVars
<1>5. CASE \E q \in Partitions : AutoCommit(q)
  BY <1>1, <1>5 DEF AutoCommit, claimVars
<1>6. CASE marked' = marked /\ committed' = committed
  BY <1>6
<1>7. \/ marked' = marked /\ committed' = committed
      \/ SessionEnds \/ \E ps \in SUBSET Partitions : Setup(ps)
      \/ \E q \in Partitions : Resolve(q) \/ AutoCommit(q)
  <2>1. CASE \/ Subscribe \/ CreatorReads \/ CreatorReturns \/ ConsumeFails
             \/ ConsumeCancelled \/ LoopAgain \/ Rebalance \/ CloseCancels \/ CloseReturns
             \/ Crash \/ UNCHANGED vars
    BY <2>1 DEF Subscribe, CreatorReads, CreatorReturns, ConsumeFails, ConsumeCancelled,
      LoopAgain, Rebalance, CloseCancels, CloseReturns, Crash, vars, claimVars
  <2>2. CASE \/ \E q \in Partitions : Poll(q) \/ ClaimReturns(q) \/ Deliver(q)
             \/ \E q \in Partitions, r \in Offsets, m \in Sessions, d \in Decided :
                  AckOrNack(q, r, m, d)
    BY <2>2 DEF Poll, ClaimReturns, Deliver, AckOrNack
  <2>3. QED
    BY <2>1, <2>2 DEF Next, ConsumeLoop, ConsumeClaim
<1>8. QED
  BY <1>2, <1>3, <1>4, <1>5, <1>6, <1>7

(* For any partitions, messages and sessions: nacks alone move no offset.   *)
(* Wherever the group's offset stands, the message just before it was       *)
(* acked; so a commit passes a nacked message only with the ack of a later  *)
(* one (kafkasarama_subscriber.go:362).                                     *)
THEOREM NackMovesNoOffset ==
  ASSUME Bounds
  PROVE  Spec => []CommitFollowsAck
<1>1. Init => IInv /\ MarkInv
  <2>1. Init => MarkInv
    BY DEF Init, MarkInv, CommitFollowsAck
  <2>2. QED
    BY <2>1, InitIInv
<1>2. ASSUME IInv, MarkInv, [Next]_vars PROVE MarkInv'
  <2>1. ASSUME NEW p \in Partitions, NEW m \in 1..NumMessages, AckedBefore(p, m)
        PROVE  AckedBefore(p, m)'
    <3>1. PICK n \in Sessions : acker[p][m - 1][n] = "ack"
      BY <2>1 DEF AckedBefore
    <3>2. m - 1 \in Offsets
      BY DEF Offsets, Bounds
    <3>3. acker'[p][m - 1][n] = "ack"
      BY <1>2, <3>1, <3>2, AcksStay
    <3>4. QED
      BY <3>3 DEF AckedBefore
  <2>2. TInv'
    BY <1>2, NextIInv DEF IInv
  <2>3. ASSUME NEW p \in Partitions
        PROVE  /\ marked'[p] > 0 => AckedBefore(p, marked[p])'
               /\ committed'[p] > 0 => AckedBefore(p, committed[p])'
    <3>1. /\ marked'[p] > 0 => marked'[p] \in 1..NumMessages
          /\ committed'[p] > 0 => committed'[p] \in 1..NumMessages
      BY <2>2 DEF TInv
    <3>2. /\ marked'[p] > 0 => AckedBefore(p, marked'[p])
          /\ committed'[p] > 0 => AckedBefore(p, committed'[p])
      BY <1>2, MarkMoves DEF MarkInv, CommitFollowsAck
    <3>3. QED
      BY <2>1, <3>1, <3>2 DEF AckedBefore
  <2>4. QED
    BY <2>3 DEF MarkInv, CommitFollowsAck
<1>3. IInv /\ [Next]_vars => IInv'
  BY NextIInv
<1>4. MarkInv => CommitFollowsAck
  BY DEF MarkInv
<1>5. QED
  BY <1>1, <1>2, <1>3, <1>4, PTL DEF Spec

-----------------------------------------------------------------------------
(* What Subscribe waits for, as long as no Consume has failed: a ready      *)
(* channel that is closed, or the one that the Setup to come will close.    *)
AwaitsItsReady ==
  fails = 0 /\ creator = "blocked" => awaited \in closed \/ (awaited = ready /\ loop = "consume")

(* Before Subscribe has returned nobody can cancel, and a Consume that did  *)
(* not fail has run Setup.                                                  *)
ReadyInv ==
  /\ fails \in Nat /\ AwaitsItsReady
  /\ creator # "returned" => ~ctxDone
  /\ creator \in {"start", "blocked"} => loop # "off"
  /\ fails = 0 /\ creator \in {"start", "blocked"} => loop = "consume" \/ ready \in closed

LEMMA ReadyStep ==
  ASSUME ReadyInv, [Next]_vars
  PROVE  ReadyInv'
<1> USE DEF ReadyInv, AwaitsItsReady
<1>1. CASE Subscribe \/ CreatorReads \/ CreatorReturns
  BY <1>1 DEF Subscribe, CreatorReads, CreatorReturns, loopVars, closeVars
<1>2. CASE ConsumeFails
  <2>1. fails' \in Nat /\ fails' # 0
    BY <1>2 DEF ConsumeFails
  <2>2. QED
    BY <1>2, <2>1 DEF ConsumeFails, creatorVars, closeVars
<1>3. CASE \E ps \in SUBSET Partitions : Setup(ps)
  BY <1>3 DEF Setup, creatorVars, closeVars
<1>4. CASE ConsumeCancelled \/ LoopAgain
  BY <1>4 DEF ConsumeCancelled, LoopAgain, creatorVars, closeVars
<1>5. CASE SessionEnds \/ Rebalance
  BY <1>5 DEF SessionEnds, Rebalance, creatorVars, closeVars
<1>6. CASE Crash
  BY <1>6 DEF Crash
<1>7. CASE CloseCancels \/ CloseReturns
  BY <1>7 DEF CloseCancels, CloseReturns, creatorVars, loopVars
<1>8. CASE \/ \E p \in Partitions : ConsumeClaim(p) \/ Deliver(p) \/ AutoCommit(p)
           \/ \E p \in Partitions, o \in Offsets, n \in Sessions, d \in Decided :
                AckOrNack(p, o, n, d)
           \/ UNCHANGED vars
  <2>1. UNCHANGED <<creatorVars, loopVars, closeVars>>
    BY <1>8 DEF ConsumeClaim, Poll, Resolve, ClaimReturns, Deliver, AutoCommit, AckOrNack, vars
  <2>2. QED
    BY <2>1 DEF creatorVars, loopVars, closeVars
<1>9. QED
  BY <1>1, <1>2, <1>3, <1>4, <1>5, <1>6, <1>7, <1>8 DEF Next, ConsumeLoop

(* As long as no Consume has failed, through rebalances and restarts,       *)
(* Subscribe is blocked on a ready channel that is closed, or on the one    *)
(* that the Setup of the running Consume closes (lines 280-299 of           *)
(* kafkasarama_subscriber.go): only a Consume that fails makes it hang.     *)
THEOREM SubscribeAwaitsSetup == Spec => []AwaitsItsReady
<1>1. Init => ReadyInv
  BY DEF Init, ReadyInv, AwaitsItsReady
<1>2. ReadyInv /\ [Next]_vars => ReadyInv'
  BY ReadyStep
<1>3. ReadyInv => AwaitsItsReady
  BY DEF ReadyInv
<1>4. QED
  BY <1>1, <1>2, <1>3, PTL DEF Spec
=============================================================================
