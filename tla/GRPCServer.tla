----------------------------- MODULE GRPCServer -----------------------------
(***************************************************************************)
(* grpc.Server: the gRPC server and the HTTP gateway above it, started     *)
(* together by ListenAndServe in a run group and stopped by Close, by the  *)
(* group's interrupts, or by both at once.                                 *)
(*                                                                         *)
(* External: oklog/run (Run starts the actors, and when the first returns  *)
(* interrupts all of them in order, then waits for the rest); grpc-go      *)
(* (GracefulStop refuses new RPCs and waits for the running ones, Serve    *)
(* returns when that is done); net/http (Shutdown makes Serve return at    *)
(* once and waits for the running requests; its error is an error of       *)
(* closing the listener).  A request of the gateway makes one RPC.         *)
(***************************************************************************)
EXTENDS FiniteSets

CONSTANTS
  Requests,  \* HTTP requests to the gateway
  RPCs,      \* calls made to the gRPC server directly
  Closers,   \* goroutines that call Server.Close
  NoOne      \* the value of mu when nobody holds it

VARIABLES
  created,   \* NewServer: "no", "listening", "grpc", "ok", "failed"
  gateway,   \* a gateway is wanted
  listener,  \* listener[x]: "none", "open", "closed"
  mu,        \* the Closer that holds Server.mu
  las,       \* ListenAndServe: "idle", "run", "interrupt", "wait", "returned"
  serve,     \* serve[x]: Serve of x: "idle", "serving", "returned", "failed"
  closed,    \* closed[x]: the atomic flag of x
  stopping,  \* stopping[x]: GracefulStop or Shutdown was called on x
  firedBy,   \* who called GracefulStop first
  at,        \* at[a]: where the closing actor a is: <<server, phase>>
  call       \* call[r]: "none", "gateway", "rpc", "done", "refused"

Servers == {"grpc", "gw"}
Group == "group"
Actors == Closers \cup {Group}
Calls == Requests \cup RPCs

vars == <<created, gateway, listener, mu, las, serve, closed, stopping, firedBy, at, call>>
serverVars == <<created, gateway>>

Init ==
  /\ created = "no" /\ gateway \in BOOLEAN
  /\ listener = [x \in Servers |-> "none"]
  /\ mu = NoOne /\ las = "idle"
  /\ serve = [x \in Servers |-> "idle"]
  /\ closed = [x \in Servers |-> FALSE]
  /\ stopping = [x \in Servers |-> FALSE] /\ firedBy = NoOne
  /\ at = [a \in Actors |-> <<"none", "idle">>]
  /\ call = [r \in Calls |-> "none"]

-----------------------------------------------------------------------------
(* NewServer: the gRPC listener first, then tracing and the gateway's.     *)
(* When a later one fails the first stays open, and nobody can close it.   *)
Creates(from, to, open) ==
  /\ created = from
  /\ \/ created' = to /\ listener' = [x \in Servers |-> IF x \in open THEN "open" ELSE listener[x]]
     \/ created' = "failed" /\ UNCHANGED listener
  /\ UNCHANGED <<gateway, mu, las, serve, closed, stopping, firedBy, at, call>>

newGRPCListener == Creates("no", "listening", {"grpc"})
setGRPCTracing == Creates("listening", "grpc", {})
newGatewayServer == gateway /\ Creates("grpc", "ok", {"gw"})

(* A gateway server is not wanted. *)
NoGateway ==
  /\ created = "grpc" /\ ~gateway
  /\ created' = "ok"
  /\ UNCHANGED <<gateway, listener, mu, las, serve, closed, stopping, firedBy, at, call>>

NewServer == newGRPCListener \/ setGRPCTracing \/ newGatewayServer \/ NoGateway

Actor(x) == x = "grpc" \/ gateway

Returned(x) == serve[x] \in {"returned", "failed"}

(* closed is never set, so ListenAndServe always goes on to the group. *)
ListenAndServe ==
  /\ created = "ok" /\ las = "idle" /\ mu = NoOne
  /\ las' = "run"
  /\ UNCHANGED <<serverVars, listener, mu, serve, closed, stopping, firedBy, at, call>>

(* An actor of the group enters Serve; a stopped server returns at once    *)
(* and closes the listener it was given.                                   *)
Serve(x) ==
  /\ las \in {"run", "interrupt", "wait"} /\ Actor(x)
  /\ serve[x] = "idle"
  /\ serve' = [serve EXCEPT ![x] = IF stopping[x] THEN "returned" ELSE "serving"]
  /\ listener' = [listener EXCEPT ![x] = IF stopping[x] THEN "closed" ELSE @]
  /\ UNCHANGED <<serverVars, mu, las, closed, stopping, firedBy, at, call>>

(* GracefulStop is done: no RPC runs. *)
Drained(x) ==
  IF x = "grpc" THEN \A r \in Calls : call[r] # "rpc"
                ELSE \A r \in Requests : call[r] \notin {"gateway", "rpc"}

(* Serve of gRPC returns when GracefulStop is done, the gateway's at once. *)
MayReturn(x) == x = "grpc" => Drained(x)

ServeEnds(x) ==
  /\ serve[x] = "serving" /\ stopping[x] /\ MayReturn(x)
  /\ serve' = [serve EXCEPT ![x] = "returned"]
  /\ UNCHANGED <<serverVars, listener, mu, las, closed, stopping, firedBy, at, call>>

(* Accepting connections fails. *)
ServeFails(x) ==
  /\ serve[x] = "serving" /\ ~stopping[x]
  /\ serve' = [serve EXCEPT ![x] = "failed"]
  /\ listener' = [listener EXCEPT ![x] = "closed"]
  /\ UNCHANGED <<serverVars, mu, las, closed, stopping, firedBy, at, call>>

(* runGroup.Run: the first actor has returned, the interrupts start. *)
GroupInterrupts ==
  /\ las = "run"
  /\ \E x \in Servers : Returned(x)
  /\ las' = "interrupt"
  /\ at' = [at EXCEPT ![Group] = <<"grpc", "load">>]
  /\ UNCHANGED <<serverVars, listener, mu, serve, closed, stopping, firedBy, call>>

GroupReturns ==
  /\ las = "wait"
  /\ \A x \in Servers : Actor(x) => Returned(x)
  /\ las' = "returned"
  /\ UNCHANGED <<serverVars, listener, mu, serve, closed, stopping, firedBy, at, call>>

-----------------------------------------------------------------------------
(* Mutant of First: Close does the gRPC server first, and only that. *)
FirstGRPC == "grpc"

First == IF gateway THEN "gw" ELSE "grpc"

Close(c) ==
  /\ created = "ok" /\ mu = NoOne /\ at[c][2] = "idle"
  /\ mu' = c
  /\ at' = [at EXCEPT ![c] = <<First, "load">>]
  /\ UNCHANGED <<serverVars, listener, las, serve, closed, stopping, firedBy, call>>

(* Mutant of After: the interrupts forget the gateway. *)
AfterOne(a, x) == IF a # Group /\ x = "gw" THEN <<"grpc", "load">> ELSE <<"none", "done">>

(* What follows the close of x: Close does the gateway and then gRPC, the  *)
(* group's interrupts gRPC and then the gateway.                           *)
After(a, x) ==
  CASE a # Group /\ x = "gw"               -> <<"grpc", "load">>
    [] a = Group /\ x = "grpc" /\ gateway  -> <<"gw", "load">>
    [] OTHER                               -> <<"none", "done">>

(* Leaving the close of x for p: the last one releases mu, or joins Run. *)
Leave(a, p) ==
  /\ at' = [at EXCEPT ![a] = p]
  /\ mu' = IF p[2] = "done" /\ mu = a THEN NoOne ELSE mu
  /\ las' = IF p[2] = "done" /\ a = Group THEN "wait" ELSE las

(* close of x: closed.Load, then closed.Store, then the stop. *)
Load(a, x) ==
  /\ at[a] = <<x, "load">>
  /\ IF closed[x] THEN Leave(a, After(a, x))
                  ELSE at' = [at EXCEPT ![a] = <<x, "store">>] /\ UNCHANGED <<mu, las>>
  /\ UNCHANGED <<serverVars, listener, serve, closed, stopping, firedBy, call>>

Store(a, x) ==
  /\ at[a] = <<x, "store">>
  /\ closed' = [closed EXCEPT ![x] = TRUE]
  /\ at' = [at EXCEPT ![a] = <<x, "stop">>]
  /\ UNCHANGED <<serverVars, listener, mu, las, serve, stopping, firedBy, call>>

(* Mutant of Stops: close sets its flag and does not stop gRPC. *)
StopsGateway(x) == [stopping EXCEPT ![x] = x = "gw"]

Stops(x) == [stopping EXCEPT ![x] = TRUE]

(* The listener is closed if x serves on it; one never served stays open. *)
Stop(a, x) ==
  /\ at[a] = <<x, "stop">>
  /\ stopping' = Stops(x)
  /\ firedBy' = IF x = "grpc" /\ ~stopping[x] THEN a ELSE firedBy
  /\ listener' = [listener EXCEPT ![x] = IF serve[x] = "serving" THEN "closed" ELSE @]
  /\ at' = [at EXCEPT ![a] = <<x, "await">>]
  /\ UNCHANGED <<serverVars, mu, las, serve, closed, call>>

Await(a, x) ==
  /\ at[a] = <<x, "await">>
  /\ Drained(x)
  /\ Leave(a, After(a, x))
  /\ UNCHANGED <<serverVars, listener, serve, closed, stopping, firedBy, call>>

(* Shutdown's error: Close returns it and leaves the gRPC server alone,    *)
(* the interrupt ignores it.                                               *)
AwaitFails(a) ==
  /\ at[a] = <<"gw", "await">> /\ Drained("gw")
  /\ Leave(a, <<"none", "done">>)
  /\ UNCHANGED <<serverVars, listener, serve, closed, stopping, firedBy, call>>

-----------------------------------------------------------------------------
Arrive(r) ==
  /\ call[r] = "none"
  /\ \/ /\ r \in Requests /\ serve["gw"] = "serving" /\ ~stopping["gw"]
        /\ call' = [call EXCEPT ![r] = "gateway"]
     \/ /\ r \in RPCs /\ serve["grpc"] = "serving" /\ ~stopping["grpc"]
        /\ call' = [call EXCEPT ![r] = "rpc"]
  /\ UNCHANGED <<serverVars, listener, mu, las, serve, closed, stopping, firedBy, at>>

(* The gateway calls the gRPC server: the call waits for Serve, and after  *)
(* a failed Serve it succeeds only on a connection that already exists.    *)
Forward(r) ==
  /\ call[r] = "gateway" /\ serve["grpc"] # "idle"
  /\ \/ /\ ~stopping["grpc"]
        /\ call' = [call EXCEPT ![r] = "rpc"]
     \/ /\ stopping["grpc"] \/ serve["grpc"] = "failed"
        /\ call' = [call EXCEPT ![r] = "refused"]
  /\ UNCHANGED <<serverVars, listener, mu, las, serve, closed, stopping, firedBy, at>>

CallEnds(r) ==
  /\ call[r] = "rpc"
  /\ call' = [call EXCEPT ![r] = "done"]
  /\ UNCHANGED <<serverVars, listener, mu, las, serve, closed, stopping, firedBy, at>>

ClosingStep(a) ==
  \/ \E x \in Servers : Load(a, x) \/ Store(a, x) \/ Stop(a, x) \/ Await(a, x)
  \/ AwaitFails(a)

Next ==
  \/ NewServer \/ ListenAndServe \/ GroupInterrupts \/ GroupReturns
  \/ \E x \in Servers : Serve(x) \/ ServeEnds(x) \/ ServeFails(x)
  \/ \E c \in Closers : Close(c)
  \/ \E a \in Actors : ClosingStep(a)
  \/ \E r \in Calls : Arrive(r) \/ Forward(r) \/ CallEnds(r)

Spec == Init /\ [][Next]_vars

(* Goroutines run on, and handlers return. *)
Fairness ==
  /\ WF_vars(GroupInterrupts) /\ WF_vars(GroupReturns)
  /\ \A x \in Servers : WF_vars(Serve(x)) /\ WF_vars(ServeEnds(x))
  /\ \A a \in Actors : WF_vars(ClosingStep(a))
  /\ \A r \in Calls : WF_vars(Forward(r)) /\ WF_vars(CallEnds(r))

FairSpec == Spec /\ Fairness

-----------------------------------------------------------------------------
(* "It starts and stops both of them together.  In case one of the server  *)
(* fails the other one is closed": once Close was called or one Serve has  *)
(* returned, ListenAndServe returns, whatever the other closers do.        *)
StopsTogether ==
  las = "run" /\ ((\E x \in Servers : Returned(x)) \/ mu # NoOne)
    ~> las = "returned"

(* Close finds closed set by the interrupt and returns before the gRPC     *)
(* server has stopped; but it does stop.                                   *)
CloseStops ==
  \A c \in Closers :
    at[c] = <<"none", "done">> /\ serve["grpc"] = "serving" ~> Returned("grpc")

(* Close never stops the gRPC server under a request of the gateway; the   *)
(* interrupts of the run group may.                                        *)
RefusedByGroupOnly ==
  (\E r \in Requests : call[r] = "refused") => firedBy = Group \/ serve["grpc"] = "failed"

(* "Stop GRPC Gateway server first as it sits above GRPC server": with no  *)
(* failure of either server, a Close refuses no request that the gateway   *)
(* has accepted.                                                           *)
GatewayDrainedFirst ==
  (\A x \in Servers : serve[x] # "failed") => \A r \in Requests : call[r] # "refused"
=============================================================================
