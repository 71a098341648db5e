---------------------------- MODULE MCLifecycles ----------------------------
(***************************************************************************)
(* What is started and stopped, one component in each behaviour: the HTTP  *)
(* server, the gRPC server with its gateway, the Kafka test cluster and    *)
(* the database and broker test containers.                                *)
(***************************************************************************)
EXTENDS HTTPServer, Integers

CONSTANTS
  GatewayRequests, RPCs, Closers, NoOne,  \* of the gRPC server
  Brokers, Networks, Stoppers,            \* of the Kafka cluster
  Kinds, NumSQLs, MaxStarts               \* of the test containers

ASSUME NoOneAssumption == NoOne \notin Closers \cup {"group"} /\ "group" \notin Closers
ASSUME SQLsAssumption == NumSQLs \in Nat

VARIABLES
  which,  \* the component that runs
  g_created, g_gateway, g_listener, g_mu, g_las, g_serve, g_closed, g_stopping, g_firedBy,
  g_at, g_call,
  k_kraft, k_probe, k_started, k_network, k_ref, k_addrs, k_probed, k_up, k_nets, k_at,
  k_ret, k_stop, k_lost, k_overlapped, k_unstopped,
  d_kind, d_pools, d_at, d_ret, d_starts, d_live, d_phase, d_logged, d_expires, d_ref,
  d_done, d_leaked

GRPC == INSTANCE GRPCServer WITH
  Requests <- GatewayRequests,
  created <- g_created, gateway <- g_gateway, listener <- g_listener, mu <- g_mu,
  las <- g_las, serve <- g_serve, closed <- g_closed, stopping <- g_stopping,
  firedBy <- g_firedBy, at <- g_at, call <- g_call

Cluster == INSTANCE KafkaCluster WITH
  kraft <- k_kraft, probe <- k_probe, started <- k_started, network <- k_network, ref <- k_ref,
  addrs <- k_addrs, probed <- k_probed, up <- k_up, nets <- k_nets, at <- k_at,
  ret <- k_ret, stop <- k_stop, lost <- k_lost, overlapped <- k_overlapped,
  unstopped <- k_unstopped

ASSUME ClusterAssumption == Brokers \in Int /\ Networks \cap Cluster!Containers = {}

Container == INSTANCE DBContainers WITH
  kind <- d_kind, pools <- d_pools, at <- d_at, ret <- d_ret, starts <- d_starts,
  live <- d_live, phase <- d_phase, logged <- d_logged, expires <- d_expires,
  ref <- d_ref, done <- d_done, leaked <- d_leaked

gVars == <<g_created, g_gateway, g_listener, g_mu, g_las, g_serve, g_closed, g_stopping,
           g_firedBy, g_at, g_call>>
kVars == <<k_kraft, k_probe, k_started, k_network, k_ref, k_addrs, k_probed, k_up, k_nets,
           k_at, k_ret, k_stop, k_lost, k_overlapped, k_unstopped>>
dVars == <<d_kind, d_pools, d_at, d_ret, d_starts, d_live, d_phase, d_logged, d_expires,
           d_ref, d_done, d_leaked>>
MCvars == <<which, vars, gVars, kVars, dVars>>

MCInit ==
  /\ which \in {"http", "grpc", "cluster", "container"}
  /\ Init /\ (which # "http" => baseCtx = "unset" /\ ~cancelBase)
  /\ GRPC!Init /\ (which # "grpc" => g_gateway)
  /\ Cluster!Init /\ (which # "cluster" => ~k_kraft /\ ~k_probe)
  /\ Container!Init /\ (which # "container" => d_kind = "psql")

MCNext ==
  \/ /\ which = "http" /\ Next
     /\ UNCHANGED <<which, gVars, kVars, dVars>>
  \/ /\ which = "grpc" /\ GRPC!Next
     /\ UNCHANGED <<which, vars, kVars, dVars>>
  \/ /\ which = "cluster" /\ Cluster!Next
     /\ UNCHANGED <<which, vars, gVars, dVars>>
  \/ /\ which = "container" /\ Container!Next
     /\ UNCHANGED <<which, vars, gVars, kVars>>

MCSpec ==
  /\ MCInit /\ [][MCNext]_MCvars
  /\ Fairness
  /\ GRPC!Fairness

-----------------------------------------------------------------------------
(* gRPC server: the two servers stop together. *)
StopsTogether == GRPC!StopsTogether

(* gRPC server: after a Close the gRPC server stops. *)
CloseStops == GRPC!CloseStops

(* gRPC server: a Close never stops gRPC under a request of the gateway. *)
RefusedByGroupOnly == GRPC!RefusedByGroupOnly

(* Kafka cluster: a Stop that returned nil leaves nothing behind. *)
CleanStop == Cluster!CleanStop

(* Kafka cluster: what is up can still be stopped. *)
StoppableWhileUp == Cluster!StoppableWhileUp

(* Test container: every container is one that Close would remove. *)
NothingLeftBehind == Container!NothingLeftBehind

(* Test container: a Start that returned nil has a server that is ready. *)
ReadyOnReturn == Container!ReadyOnReturn
=============================================================================
