----------------------------- MODULE HTTPServer -----------------------------
(***************************************************************************)
(* httpserver: Serve and ListenAndServe, Shutdown called by the            *)
(* application and by the goroutine of WithShutdownSignalsOption, the done *)
(* channel between them, and WithBaseContext.                              *)
(*                                                                         *)
(* External: net/http.  Shutdown stops the listeners, starts the           *)
(* registered callbacks and waits until no request runs or its context is  *)
(* done; Serve then returns ErrServerClosed at once.  A nil base context   *)
(* makes Serve panic, and a nil parent makes WithCancel panic.             *)
(***************************************************************************)
EXTENDS FiniteSets

CONSTANTS
  Requests,  \* requests, each sent at most once
  Callers    \* goroutines that call Shutdown, "signal" among them

VARIABLES
  baseCtx,     \* the context of WithBaseContext: "unset", "nil", "given"
  cancelBase,  \* its cancelContextOnShutdown
  panicked,    \* where the options made the process panic: "no", "New", "Serve"
  signal,      \* a shutdown signal was delivered
  server,      \* Serve: "idle", "serving", "waiting" for done, "returned"
  serveErr,    \* error of the inner Serve: "none", "closed", "failed"
  inShutdown,  \* http.Server's flag
  shutdown,    \* shutdown[c]: "idle", "draining", "drained", "timedOut"
  cancelled,   \* the base context is cancelled
  done,        \* the done channel is closed
  request      \* request[r]: "none", "running", "ended"

optionVars == <<baseCtx, cancelBase>>
vars == <<optionVars, panicked, signal, server, serveErr, inShutdown, shutdown, cancelled, done, request>>

Running == {r \in Requests : request[r] = "running"}

Init ==
  /\ baseCtx \in {"unset", "nil", "given"}
  /\ cancelBase \in BOOLEAN
  /\ panicked = IF baseCtx = "nil" /\ cancelBase THEN "New" ELSE "no"
  /\ signal = FALSE
  /\ server = "idle" /\ serveErr = "none"
  /\ inShutdown = FALSE
  /\ shutdown = [c \in Callers |-> "idle"]
  /\ cancelled = FALSE /\ done = FALSE
  /\ request = [r \in Requests |-> "none"]

(* The function set as http.Server.BaseContext returns ctx, which is still *)
(* nil when a context was given and is not to be cancelled on shutdown.    *)
BaseContextIsNil == baseCtx = "given" /\ ~cancelBase

(* The callback that cancels the base context. *)
OnShutdown == baseCtx = "given" /\ cancelBase

-----------------------------------------------------------------------------
ServeCall ==
  /\ panicked = "no" /\ server = "idle"
  /\ \/ /\ inShutdown
        /\ server' = "waiting" /\ serveErr' = "closed" /\ UNCHANGED panicked
     \/ /\ ~inShutdown /\ ~BaseContextIsNil
        /\ server' = "serving" /\ UNCHANGED <<serveErr, panicked>>
     \/ /\ ~inShutdown /\ BaseContextIsNil
        /\ panicked' = "Serve" /\ UNCHANGED <<server, serveErr>>
     \/ server' = "waiting" /\ serveErr' = "failed" /\ UNCHANGED panicked
  /\ UNCHANGED <<optionVars, signal, inShutdown, shutdown, cancelled, done, request>>

(* The inner Serve ends: by Shutdown, or because accepting failed. *)
ServeEnds ==
  /\ panicked = "no" /\ server = "serving"
  /\ \/ inShutdown /\ serveErr' = "closed"
     \/ serveErr' = "failed"
  /\ server' = "waiting"
  /\ UNCHANGED <<optionVars, panicked, signal, inShutdown, shutdown, cancelled, done, request>>

(* Mutant of Done: handleShutdown does not wait. *)
NotWaited == TRUE

Done == done

(* handleShutdown: <-s.done, then nil for ErrServerClosed or the error. *)
ServeReturns ==
  /\ panicked = "no" /\ server = "waiting"
  /\ Done
  /\ server' = "returned"
  /\ UNCHANGED <<optionVars, panicked, signal, serveErr, inShutdown, shutdown, cancelled, done, request>>

-----------------------------------------------------------------------------
Signal ==
  /\ panicked = "no" /\ ~signal
  /\ signal' = TRUE
  /\ UNCHANGED <<optionVars, panicked, server, serveErr, inShutdown, shutdown, cancelled, done, request>>

ShutdownCall(c) ==
  /\ panicked = "no" /\ shutdown[c] = "idle"
  /\ c = "signal" => signal
  /\ inShutdown' = TRUE
  /\ shutdown' = [shutdown EXCEPT ![c] = "draining"]
  /\ UNCHANGED <<optionVars, panicked, signal, server, serveErr, cancelled, done, request>>

(* Mutant of CancelBase: the callback is not registered. *)
NoCallback == FALSE /\ UNCHANGED vars

(* http.Server.Shutdown starts the callbacks in goroutines of their own. *)
CancelBase ==
  /\ panicked = "no" /\ OnShutdown /\ inShutdown /\ ~cancelled
  /\ cancelled' = TRUE
  /\ UNCHANGED <<optionVars, panicked, signal, server, serveErr, inShutdown, shutdown, done, request>>

(* Mutant of ShutdownReturns: an error returns before done is closed. *)
ShutdownReturnsError(c, how) ==
  /\ panicked = "no" /\ shutdown[c] = "draining"
  /\ how = "drained" => Running = {}
  /\ shutdown' = [shutdown EXCEPT ![c] = how]
  /\ done' = (done \/ how = "drained")
  /\ UNCHANGED <<optionVars, panicked, signal, server, serveErr, inShutdown, cancelled, request>>

(* http.Server.Shutdown returns; closeDoneOnce closes done in either case. *)
ShutdownReturns(c, how) ==
  /\ panicked = "no" /\ shutdown[c] = "draining"
  /\ how = "drained" => Running = {}
  /\ shutdown' = [shutdown EXCEPT ![c] = how]
  /\ done' = TRUE
  /\ UNCHANGED <<optionVars, panicked, signal, server, serveErr, inShutdown, cancelled, request>>

-----------------------------------------------------------------------------
Accept(r) ==
  /\ panicked = "no" /\ server = "serving" /\ ~inShutdown
  /\ request[r] = "none"
  /\ request' = [request EXCEPT ![r] = "running"]
  /\ UNCHANGED <<optionVars, panicked, signal, server, serveErr, inShutdown, shutdown, cancelled, done>>

(* The handler ends: by itself, or because its context is done. *)
RequestEnds(r) ==
  /\ panicked = "no" /\ request[r] = "running"
  /\ request' = [request EXCEPT ![r] = "ended"]
  /\ UNCHANGED <<optionVars, panicked, signal, server, serveErr, inShutdown, shutdown, cancelled, done>>

Next ==
  \/ ServeCall \/ ServeEnds \/ ServeReturns
  \/ Signal \/ CancelBase
  \/ \E c \in Callers, how \in {"drained", "timedOut"} :
       ShutdownCall(c) \/ ShutdownReturns(c, how)
  \/ \E r \in Requests : Accept(r) \/ RequestEnds(r)

Spec == Init /\ [][Next]_vars

(* Goroutines run on and a Shutdown returns, at the latest by its timeout. *)
(* A request ends when its context is cancelled; nothing else is assumed   *)
(* of it.                                                                  *)
Fairness ==
  /\ WF_vars(ServeEnds /\ inShutdown) /\ WF_vars(ServeReturns) /\ WF_vars(CancelBase)
  /\ \A c \in Callers :
       WF_vars(ShutdownReturns(c, "drained")) /\ WF_vars(ShutdownReturns(c, "timedOut"))
  /\ \A r \in Requests : WF_vars(RequestEnds(r) /\ cancelled)

FairSpec == Spec /\ Fairness

-----------------------------------------------------------------------------
TimedOut == \E c \in Callers : shutdown[c] = "timedOut"

(* Serve returns only when the requests are drained, unless some Shutdown  *)
(* timed out: done is closed by the first Shutdown that returns, whichever *)
(* it is, and no request is accepted after the first one was called.       *)
ReturnedIsDrained == server = "returned" => Running = {} \/ TimedOut

(* Any Shutdown, by the application or by a signal, ends Serve.            *)
ShutdownEndsServe ==
  inShutdown /\ server # "idle" ~> server = "returned"

(* A base context that is cancelled on shutdown ends the requests that     *)
(* wait for it, so that the server can shut down.                          *)
CancelDrains == inShutdown /\ OnShutdown ~> Running = {}
=============================================================================
