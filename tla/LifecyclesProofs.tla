-------------------------- MODULE LifecyclesProofs --------------------------
(***************************************************************************)
(* What is started and stopped: the safety of the HTTP server, the gRPC    *)
(* server with its gateway, the Kafka test cluster and the test containers *)
(* for any number of requests, callers, brokers and statements.            *)
(***************************************************************************)
EXTENDS MCLifecycles, TLAPS

(* The provers that a step is tried with, and how long each may take. *)
USE ZenonT(5), SMTT(30)

-----------------------------------------------------------------------------
(* HTTP server.  done is closed by a Shutdown that returned, a Shutdown    *)
(* that was called has set inShutdown, and one that drained the server     *)
(* found it empty.                                                         *)
ServeInv ==
  /\ shutdown \in [Callers -> {"idle", "draining", "drained", "timedOut"}]
  /\ request \in [Requests -> {"none", "running", "ended"}]
  /\ server = "returned" => done
  /\ done => \E c \in Callers : shutdown[c] \in {"drained", "timedOut"}
  /\ \A c \in Callers : shutdown[c] # "idle" => inShutdown
  /\ \A c \in Callers : shutdown[c] = "drained" => Running = {}

LEMMA ServeInit == Init => ServeInv
BY DEF Init, ServeInv, Running

LEMMA ServeStep ==
  ASSUME ServeInv, ServeCall \/ ServeEnds \/ ServeReturns \/ Signal \/ CancelBase \/ UNCHANGED vars
  PROVE  ServeInv'
<1>1. UNCHANGED <<inShutdown, shutdown, done, request>>
  BY DEF ServeCall, ServeEnds, ServeReturns, Signal, CancelBase, vars
<1>2. server' = "returned" => done
  BY DEF ServeInv, ServeCall, ServeEnds, ServeReturns, Done, Signal, CancelBase, vars
<1>3. Running' = Running
  BY <1>1 DEF Running
<1>4. QED
  BY <1>1, <1>2, <1>3 DEF ServeInv

LEMMA ShutdownStep ==
  ASSUME ServeInv, NEW c \in Callers, NEW how \in {"drained", "timedOut"},
         ShutdownCall(c) \/ ShutdownReturns(c, how)
  PROVE  ServeInv'
<1>1. Running' = Running
  BY DEF ShutdownCall, ShutdownReturns, Running
<1>2. CASE ShutdownCall(c)
  <2>1. /\ shutdown' = [shutdown EXCEPT ![c] = "draining"] /\ inShutdown' /\ shutdown[c] = "idle"
        /\ UNCHANGED <<server, done, request>>
    BY <1>2 DEF ShutdownCall
  <2>2. QED
    BY <1>1, <2>1 DEF ServeInv
<1>3. CASE ShutdownReturns(c, how)
  <2>1. /\ shutdown' = [shutdown EXCEPT ![c] = how] /\ done' /\ shutdown[c] = "draining"
        /\ how = "drained" => Running = {}
        /\ UNCHANGED <<server, inShutdown, request>>
    BY <1>3 DEF ShutdownReturns
  <2>2. QED
    BY <1>1, <2>1 DEF ServeInv
<1>4. QED
  BY <1>2, <1>3

(* No request is accepted after the first Shutdown was called. *)
LEMMA RequestStep ==
  ASSUME ServeInv, NEW r \in Requests, Accept(r) \/ RequestEnds(r)
  PROVE  ServeInv'
<1>1. UNCHANGED <<server, inShutdown, shutdown, done>>
  BY DEF Accept, RequestEnds
<1>2. request' \in [Requests -> {"none", "running", "ended"}]
  BY DEF ServeInv, Accept, RequestEnds
<1>3. ASSUME NEW c \in Callers, shutdown[c] = "drained"
      PROVE  Running' = {}
  <2>1. inShutdown /\ Running = {}
    BY <1>3 DEF ServeInv
  <2>2. request' = [request EXCEPT ![r] = "ended"]
    BY <2>1 DEF Accept, RequestEnds
  <2>3. QED
    BY <2>1, <2>2 DEF ServeInv, Running
<1>4. QED
  BY <1>1, <1>2, <1>3 DEF ServeInv

(* A Serve that returned found done closed by a Shutdown that had returned: *)
(* that one drained the server, or timed out (handleShutdown, lines 131-145 *)
(* of server.go).                                                           *)
THEOREM ServeDrains == Spec => []ReturnedIsDrained
<1>1. Init => ServeInv
  BY ServeInit
<1>2. ServeInv /\ [Next]_vars => ServeInv'
  BY ServeStep, ShutdownStep, RequestStep DEF Next
<1>3. ServeInv => ReturnedIsDrained
  BY DEF ServeInv, ReturnedIsDrained, TimedOut
<1>4. QED
  BY <1>1, <1>2, <1>3, PTL DEF Spec

-----------------------------------------------------------------------------
(* Test containers.  Containers are numbered by the Start that ran them:   *)
(* one that exists and is not the newest is the one Close would remove, or *)
(* is out of reach; where Start stands says whether the newest exists, is  *)
(* stored and is ready.                                                    *)
LiveInv ==
  /\ d_starts \in Nat /\ (d_at # "idle" => d_starts >= 1)
  /\ \A x \in d_live : x \in 1..d_starts
  /\ d_at \in {"idle", "pool", "run", "wait", "host", "sql", "expire"}
  /\ \A x \in d_live \ d_leaked : x = d_ref \/ (d_at = "wait" /\ x = d_starts)
  /\ d_at \in {"pool", "run"} => d_starts \notin d_live
  /\ d_at \in {"host", "sql", "expire"} \/ (d_at = "wait" /\ d_kind # "psql") => d_ref = d_starts
  /\ d_at = "idle" /\ d_ret = "error" => d_starts \notin d_live \ d_leaked

ReadyInv ==
  /\ d_at # "idle" => d_ret = "running"
  /\ d_at = "host" => d_kind = "psql"
  /\ d_done \in 0..NumSQLs
  /\ d_at \in {"host", "sql"} \/ (d_at = "expire" /\ d_kind = "rabbitmq") => d_phase = "ready"
  /\ ReadyOnReturn

ContainerInv == LiveInv /\ ReadyInv

(* A Start is called, or fails before there is a container. *)
LEMMA ContainerBegins ==
  ASSUME ContainerInv,
         \/ Container!StartPsql \/ Container!StartClickhouse \/ Container!NewContainer
         \/ Container!newPool \/ Container!pool
  PROVE  ContainerInv'
<1> USE SQLsAssumption DEF ContainerInv, LiveInv, ReadyInv, ReadyOnReturn, Container!ReadyOnReturn, Container!server
<1>1. ASSUME NEW k, NEW p \in {"run", "pool"}, Container!StartCall(k, p) PROVE ContainerInv'
  BY <1>1 DEF Container!StartCall
<1>2. ASSUME NEW k, Container!NewPool(k) PROVE ContainerInv'
  BY <1>2 DEF Container!NewPool, Container!Returns
<1>3. QED
  BY <1>1, <1>2 DEF Container!StartPsql, Container!StartClickhouse, Container!NewContainer,
                    Container!newPool, Container!pool

(* A container is run, and stored now or when it is ready. *)
LEMMA ContainerRuns ==
  ASSUME ContainerInv,
         \/ Container!GenericContainer \/ Container!WaitingFor
         \/ Container!startContainer \/ Container!startRabbitMQ
  PROVE  ContainerInv'
<1> USE SQLsAssumption DEF ContainerInv, LiveInv, ReadyInv, ReadyOnReturn, Container!ReadyOnReturn,
                           Container!server, Container!Returns, Container!Stored
<1>1. CASE Container!GenericContainer
  BY <1>1 DEF Container!GenericContainer
<1>2. CASE Container!WaitingFor
  BY <1>2 DEF Container!WaitingFor, Container!Ready
<1>3. CASE Container!startContainer
  BY <1>3 DEF Container!startContainer, Container!RunWithOptions
<1>4. CASE Container!startRabbitMQ
  BY <1>4 DEF Container!startRabbitMQ, Container!RunWithOptions
<1>5. QED
  BY <1>1, <1>2, <1>3, <1>4

(* What follows, each with an error path that cleans up. *)
LEMMA ContainerGoesOn ==
  ASSUME ContainerInv,
         \/ Container!HostAndPort \/ Container!ExecutePsql \/ Container!ExecuteClickhouse
         \/ Container!pingDB \/ Container!ping
         \/ Container!ExpireClickhouse \/ Container!ExpireRabbitMQ
  PROVE  ContainerInv'
<1> USE SQLsAssumption DEF ContainerInv, LiveInv, ReadyInv, ReadyOnReturn, Container!ReadyOnReturn,
                           Container!server, Container!Returns, Container!Clean
<1>1. CASE Container!HostAndPort
  BY <1>1 DEF Container!HostAndPort
<1>2. ASSUME NEW k \in {"psql", "clickhouse"}, Container!ExecuteSQLs(k) PROVE ContainerInv'
  BY <1>2 DEF Container!ExecuteSQLs, Container!MoreSQLs
<1>3. CASE Container!pingDB
  BY <1>3 DEF Container!pingDB, Container!Retry, Container!Ready
<1>4. CASE Container!ping
  BY <1>4 DEF Container!ping, Container!Retry, Container!Ready
<1>5. CASE Container!ExpireClickhouse
  BY <1>5 DEF Container!ExpireClickhouse
<1>6. CASE Container!ExpireRabbitMQ
  BY <1>6 DEF Container!ExpireRabbitMQ
<1>7. QED
  BY <1>1, <1>2, <1>3, <1>4, <1>5, <1>6 DEF Container!ExecutePsql, Container!ExecuteClickhouse

(* Close, the server's boot and the expiration only take containers away. *)
LEMMA ContainerGoes ==
  ASSUME ContainerInv,
         \/ Container!ClosePsql \/ Container!CloseClickhouse \/ Container!CloseResource
         \/ Container!Boot \/ Container!Expired \/ UNCHANGED Container!vars
  PROVE  ContainerInv'
<1> USE SQLsAssumption DEF ContainerInv, LiveInv, ReadyInv, ReadyOnReturn, Container!ReadyOnReturn,
                           Container!server, Container!Removed
<1>1. CASE Container!ClosePsql
  BY <1>1 DEF Container!ClosePsql
<1>2. CASE Container!CloseClickhouse
  BY <1>2 DEF Container!CloseClickhouse
<1>3. CASE Container!CloseResource
  BY <1>3 DEF Container!CloseResource
<1>4. CASE Container!Boot
  BY <1>4 DEF Container!Boot
<1>5. CASE Container!Expired
  BY <1>5 DEF Container!Expired
<1>6. CASE UNCHANGED Container!vars
  BY <1>6 DEF Container!vars
<1>7. QED
  BY <1>1, <1>2, <1>3, <1>4, <1>5, <1>6

LEMMA ContainerAlways == Container!Spec => []ContainerInv
<1>1. Container!Init => ContainerInv
  BY SQLsAssumption DEF Container!Init, ContainerInv, LiveInv, ReadyInv, ReadyOnReturn, Container!ReadyOnReturn
<1>2. ContainerInv /\ [Container!Next]_(Container!vars) => ContainerInv'
  BY ContainerBegins, ContainerRuns, ContainerGoesOn, ContainerGoes
  DEF Container!Next, Container!Psql, Container!Clickhouse, Container!RabbitMQ
<1>3. QED
  BY <1>1, <1>2, PTL DEF Container!Spec

(* No Start of psqldocker, clickhousedocker or rabbitmqdocker leaves behind *)
(* a container that Close would not remove, unless its removal failed or it *)
(* was out of reach; one that failed leaves none, however far it came.      *)
THEOREM ContainersAreRemoved == Container!Spec => []NothingLeftBehind
<1>1. ContainerInv => NothingLeftBehind
  BY DEF ContainerInv, LiveInv, ReadyInv, NothingLeftBehind, Container!NothingLeftBehind
<1>2. QED
  BY <1>1, ContainerAlways, PTL

(* A Start that returned nil ran every statement, for any number of them,   *)
(* against the server that stays (psql_container.go:48-57, executeSQLs).    *)
THEOREM ContainersAreReady == Container!Spec => []ReadyOnReturn
<1>1. ContainerInv => ReadyOnReturn
  BY DEF ContainerInv, LiveInv, ReadyInv
<1>2. QED
  BY <1>1, ContainerAlways, PTL

-----------------------------------------------------------------------------
(* Kafka cluster. *)
StopCalls == [at : {"idle", "terminating"}, todo : SUBSET Cluster!Containers, err : BOOLEAN]

(* There is a network before there is a container, and where Start stands  *)
(* fits the kind of cluster.                                               *)
ClusterTypes ==
  /\ k_ref \in [Cluster!Containers -> {"nil", "live", "stale"}]
  /\ k_stop \in [Stoppers -> StopCalls]
  /\ k_up \subseteq Cluster!Containers /\ k_nets \subseteq Networks /\ k_network \in Networks \cup {0}
  /\ \A s \in Stoppers : k_stop[s].at = "idle" => k_stop[s].todo = {}
  /\ k_kraft => /\ k_at \in {"idle", "network", "create", "jaas", "run", "addresses"}
               /\ \A x \in Cluster!Containers : x # Cluster!KraftBroker => k_ref[x] # "live"
  /\ ~k_kraft => k_at \in {"idle", "network", "zookeeper", "brokers", "addresses", "probe"}
  /\ k_network = 0 => k_up = {} /\ k_nets = {} /\ k_at \in {"idle", "network"}

(* What the Cluster value still refers to, and what it does not: as long as *)
(* no Start overlapped a Stop, what exists is referred to, or lost, or the  *)
(* KRaft broker on its way; a Stop has what it has not terminated yet still *)
(* to do, or has met an error.                                              *)
Referred ==
  /\ \A s \in Stoppers : k_stop[s].at = "terminating" =>
       /\ k_at = "idle"
       /\ ~k_stop[s].err =>
            \A x \in Cluster!Containers : k_ref[x] = "live" => x \in k_stop[s].todo
  /\ k_at # "idle" => k_started
  /\ \A x \in k_up \ k_lost :
       k_ref[x] = "live" \/ (k_at \in {"jaas", "run"} /\ x = Cluster!KraftBroker)
  /\ \A n \in k_nets \ k_lost : n = k_network
  /\ (\E x \in Cluster!Containers : k_ref[x] = "live") => k_started \/ k_unstopped

ClusterInv == ClusterTypes /\ (~k_overlapped => Referred)

LEMMA ContainerNames ==
  /\ Cluster!KraftBroker \in Cluster!BrokerIDs
  /\ Cluster!Zookeeper \in Cluster!Containers /\ Cluster!Zookeeper = 0
  /\ Cluster!Zookeeper # Cluster!KraftBroker
  /\ Cluster!BrokerIDs = Cluster!Containers \ {Cluster!Zookeeper}
  /\ \A n \in Networks : n \notin Cluster!Containers
BY ClusterAssumption
DEF Cluster!KraftBroker, Cluster!BrokerIDs, Cluster!Containers, Cluster!Zookeeper

LEMMA ClusterInit == Cluster!Init => ClusterInv
BY DEF Cluster!Init, Cluster!Idle, ClusterInv, ClusterTypes, StopCalls, Referred

(* The steps of Start that create nothing. *)
LEMMA ClusterCalls ==
  ASSUME ClusterInv,
         \/ Cluster!StartCall \/ Cluster!Addresses \/ Cluster!ProbesDone
         \/ Cluster!CopyJaas \/ UNCHANGED Cluster!vars
         \/ \E b \in Cluster!BrokerIDs : Cluster!ProbeBroker(b)
  PROVE  ClusterInv'
<1> USE DEF ClusterInv, ClusterTypes, Referred, Cluster!config, Cluster!docker, Cluster!Fail
<1>1. CASE Cluster!StartCall
  BY <1>1 DEF Cluster!StartCall, StopCalls
<1>2. CASE Cluster!Addresses
  BY <1>2 DEF Cluster!Addresses
<1>3. CASE Cluster!ProbesDone
  BY <1>3 DEF Cluster!ProbesDone
<1>4. CASE Cluster!CopyJaas
  BY <1>4 DEF Cluster!CopyJaas
<1>5. CASE \E b \in Cluster!BrokerIDs : Cluster!ProbeBroker(b)
  BY <1>5 DEF Cluster!ProbeBroker
<1>6. CASE UNCHANGED Cluster!vars
  BY <1>6 DEF Cluster!vars
<1>7. QED
  BY <1>1, <1>2, <1>3, <1>4, <1>5, <1>6

(* What exists and is not lost after a call for the containers C: what the *)
(* call handed over, and what it was not about.                            *)
LEMMA CreatedFacts ==
  ASSUME ClusterInv, NEW C \in SUBSET Cluster!Containers, NEW good \in SUBSET C,
         Cluster!Created(C, good)
  PROVE  /\ k_up' \subseteq Cluster!Containers
         /\ \A x \in k_up' \ k_lost' : x \in good \/ (x \in k_up \ k_lost /\ x \notin C)
         /\ \A n \in Networks : n \in k_lost => n \in k_lost'
BY ContainerNames DEF Cluster!Created, ClusterInv, ClusterTypes

(* The steps of Start that create, and those that record what they created. *)
LEMMA ClusterCreates ==
  ASSUME ClusterInv,
         \/ Cluster!NewNetwork \/ Cluster!StartZookeeper \/ Cluster!StartBrokers
         \/ Cluster!CreateKraft \/ Cluster!RunKraft
  PROVE  ClusterInv'
<1> USE ContainerNames
    DEF ClusterInv, ClusterTypes, Referred, Cluster!config, Cluster!docker, Cluster!Fail
<1>1. CASE Cluster!NewNetwork
  BY <1>1 DEF Cluster!NewNetwork
<1>2. CASE Cluster!StartZookeeper
  <2>1. PICK good \in SUBSET {Cluster!Zookeeper} :
          /\ Cluster!Created({Cluster!Zookeeper}, good)
          /\ IF good = {}
             THEN k_at' = "idle" /\ k_ref' = k_ref
             ELSE k_at' = "brokers" /\ k_ref' = [k_ref EXCEPT ![Cluster!Zookeeper] = "live"]
    BY <1>2 DEF Cluster!StartZookeeper
  <2>2. /\ k_at = "zookeeper" /\ k_started' = k_started
        /\ UNCHANGED <<k_kraft, k_network, k_nets, k_stop, k_overlapped, k_unstopped>>
    BY <1>2 DEF Cluster!StartZookeeper
  <2>3. ClusterTypes'
    <3>1. k_up' \subseteq Cluster!Containers
      <4> HIDE DEF ClusterInv, ClusterTypes, Referred
      <4>1. QED
        BY <2>1, CreatedFacts
    <3>2. ~k_kraft /\ k_network # 0 /\ k_at' \in {"idle", "brokers"}
      BY <2>1, <2>2
    <3>3. k_ref' \in [Cluster!Containers -> {"nil", "live", "stale"}]
      BY <2>1
    <3>4. QED
      BY <2>2, <3>1, <3>2, <3>3
  <2>4. ASSUME ~k_overlapped PROVE Referred'
    <3>1. /\ \A x \in k_up' \ k_lost' : x \in good \/ (x \in k_up \ k_lost /\ x # Cluster!Zookeeper)
          /\ \A n \in Networks : n \in k_lost => n \in k_lost'
      BY <2>1, CreatedFacts
    <3>2. CASE good = {}
      BY <2>1, <2>2, <2>4, <3>1, <3>2
    <3>3. CASE good # {}
      <4>1. /\ k_at' = "brokers" /\ k_ref'[Cluster!Zookeeper] = "live"
            /\ \A x \in Cluster!Containers : x # Cluster!Zookeeper => k_ref'[x] = k_ref[x]
        BY <2>1, <3>3
      <4>2. \A x \in k_up' \ k_lost' : k_ref'[x] = "live"
        BY <2>2, <2>4, <3>1, <4>1
      <4>3. QED
        BY <2>2, <2>4, <3>1, <4>1, <4>2
    <3>4. QED
      BY <3>2, <3>3
  <2>5. QED
    BY <2>2, <2>3, <2>4
<1>3. CASE Cluster!StartBrokers
  <2>1. PICK good \in SUBSET Cluster!BrokerIDs :
          /\ Cluster!Created(Cluster!BrokerIDs, good) /\ Cluster!Recorded(good)
          /\ k_at' = IF good = Cluster!BrokerIDs THEN "addresses" ELSE "idle"
    BY <1>3 DEF Cluster!StartBrokers
  <2>2. /\ k_at = "brokers" /\ k_started' = k_started
        /\ UNCHANGED <<k_kraft, k_network, k_nets, k_stop, k_overlapped, k_unstopped>>
    BY <1>3 DEF Cluster!StartBrokers
  <2>3. ClusterTypes'
    BY <2>1, <2>2, CreatedFacts DEF Cluster!Recorded
  <2>4. ASSUME ~k_overlapped PROVE Referred'
    BY <2>1, <2>2, <2>4, CreatedFacts DEF Cluster!Recorded
  <2>5. QED
    BY <2>2, <2>3, <2>4
<1>4. CASE Cluster!CreateKraft
  BY ZenonT(30), <1>4 DEF Cluster!CreateKraft, Cluster!Created
<1>5. CASE Cluster!RunKraft
  BY <1>5 DEF Cluster!RunKraft
<1>6. QED
  BY <1>1, <1>2, <1>3, <1>4, <1>5

LEMMA ClusterStops ==
  ASSUME ClusterInv, NEW s \in Stoppers,
         \/ Cluster!StopCall(s) \/ Cluster!RemoveNetwork(s)
         \/ \E x \in Cluster!Containers : Cluster!Terminate(s, x)
  PROVE  ClusterInv'
<1> USE ContainerNames
    DEF ClusterInv, ClusterTypes, Referred, Cluster!config, Cluster!docker, StopCalls
<1>1. CASE Cluster!StopCall(s)
  BY <1>1 DEF Cluster!StopCall
<1>2. CASE Cluster!RemoveNetwork(s)
  <2>1. PICK removed \in BOOLEAN :
          /\ k_nets' = IF removed THEN k_nets \ {k_network} ELSE k_nets
          /\ k_lost' = IF removed THEN k_lost \ {k_network} ELSE k_lost
          /\ k_stop' = [k_stop EXCEPT ![s].at = "idle", ![s].err = @ \/ ~removed]
          /\ k_unstopped' = (k_unstopped \/ k_stop[s].err \/ ~removed)
    BY <1>2 DEF Cluster!RemoveNetwork
  <2>2. /\ k_stop[s].at = "terminating" /\ k_stop[s].todo = {} /\ k_started' = FALSE
        /\ UNCHANGED <<k_kraft, k_network, k_ref, k_up, k_at, k_overlapped>>
    BY <1>2 DEF Cluster!RemoveNetwork
  <2>3. /\ k_stop' \in [Stoppers -> StopCalls]
        /\ k_stop'[s].at = "idle" /\ k_stop'[s].todo = {}
        /\ \A t \in Stoppers \ {s} : k_stop'[t] = k_stop[t]
    <3>1. k_stop \in [Stoppers -> StopCalls]
      OBVIOUS
    <3> HIDE DEF ClusterInv, ClusterTypes, Referred
    <3>2. QED
      BY <2>1, <2>2, <3>1
  <2>4. ClusterTypes'
    BY <2>1, <2>2, <2>3
  <2>5. ASSUME ~k_overlapped PROVE Referred'
    BY <2>1, <2>2, <2>3, <2>5
  <2>6. QED
    BY <2>2, <2>4, <2>5
<1>3. CASE \E x \in Cluster!Containers : Cluster!Terminate(s, x)
  <2>1. PICK x \in Cluster!Containers : Cluster!Terminate(s, x)
    BY <1>3
  <2>2. /\ x \in k_stop[s].todo /\ k_stop[s].at = "terminating"
        /\ UNCHANGED <<k_kraft, k_started, k_network, k_nets, k_at, k_overlapped, k_unstopped>>
    BY <2>1 DEF Cluster!Terminate
  <2>3. CASE /\ k_stop' = [k_stop EXCEPT ![s].todo = @ \ {x}]
             /\ k_up' = (IF k_ref[x] = "live" THEN k_up \ {x} ELSE k_up)
             /\ k_lost' = (IF k_ref[x] = "live" THEN k_lost \ {x} ELSE k_lost)
             /\ k_ref' = [k_ref EXCEPT ![x] = IF @ = "live" THEN "stale" ELSE @]
    <3>1. /\ k_stop' \in [Stoppers -> StopCalls]
          /\ k_stop'[s].at = "terminating" /\ k_stop'[s].todo = k_stop[s].todo \ {x}
          /\ k_stop'[s].err = k_stop[s].err
          /\ \A t \in Stoppers \ {s} : k_stop'[t] = k_stop[t]
      <4>1. k_stop \in [Stoppers -> StopCalls]
        OBVIOUS
      <4> HIDE DEF ClusterInv, ClusterTypes, Referred
      <4>2. QED
        BY <2>2, <2>3, <4>1
    <3>2. /\ k_ref' \in [Cluster!Containers -> {"nil", "live", "stale"}]
          /\ k_ref'[x] # "live" /\ \A y \in Cluster!Containers \ {x} : k_ref'[y] = k_ref[y]
      BY <2>3
    <3>3. /\ k_up' \subseteq k_up /\ (k_ref[x] = "live" => x \notin k_up')
          /\ \A y : y # x => (y \in k_lost' <=> y \in k_lost)
          /\ k_ref[x] # "live" => k_up' = k_up /\ k_lost' = k_lost
      BY <2>3
    <3>4. ClusterTypes'
      BY <2>2, <3>1, <3>2, <3>3
    <3>5. ASSUME ~k_overlapped PROVE Referred'
      <4>1. \A n \in k_nets' \ k_lost' : n = k_network'
        BY <2>2, <3>3, <3>5
      <4>2. \A y \in k_up' \ k_lost' :
              k_ref'[y] = "live" \/ (k_at' \in {"jaas", "run"} /\ y = Cluster!KraftBroker)
        BY <2>2, <3>2, <3>3, <3>5
      <4>3. \A t \in Stoppers : k_stop'[t].at = "terminating" =>
              /\ k_at' = "idle"
              /\ ~k_stop'[t].err =>
                   \A y \in Cluster!Containers : k_ref'[y] = "live" => y \in k_stop'[t].todo
        BY ZenonT(30), <2>2, <3>1, <3>2, <3>5
      <4>4. QED
        BY <2>2, <3>2, <3>5, <4>1, <4>2, <4>3
    <3>6. QED
      BY <2>2, <3>4, <3>5
  <2>4. CASE /\ k_stop' = [k_stop EXCEPT ![s].todo = @ \ {x}, ![s].err = TRUE]
             /\ UNCHANGED <<k_up, k_lost, k_ref>>
    <3>1. /\ k_stop' \in [Stoppers -> StopCalls]
          /\ k_stop'[s].at = "terminating" /\ k_stop'[s].err
          /\ \A t \in Stoppers \ {s} : k_stop'[t] = k_stop[t]
      <4>1. k_stop \in [Stoppers -> StopCalls]
        OBVIOUS
      <4> HIDE DEF ClusterInv, ClusterTypes, Referred
      <4>2. QED
        BY <2>2, <2>4, <4>1
    <3>2. ClusterTypes'
      BY <2>2, <2>4, <3>1
    <3>3. ASSUME ~k_overlapped PROVE Referred'
      <4>1. \A t \in Stoppers : k_stop'[t].at = "terminating" =>
              /\ k_at' = "idle"
              /\ ~k_stop'[t].err =>
                   \A y \in Cluster!Containers : k_ref'[y] = "live" => y \in k_stop'[t].todo
        BY <2>2, <2>4, <3>1, <3>3
      <4>2. QED
        BY <2>2, <2>4, <3>3, <4>1
    <3>4. QED
      BY <2>2, <3>2, <3>3
  <2>5. QED
    BY <2>1, <2>3, <2>4 DEF Cluster!Terminate
<1>4. QED
  BY <1>1, <1>2, <1>3

LEMMA ClusterNext == ClusterInv /\ [Cluster!Next]_(Cluster!vars) => ClusterInv'
BY ClusterCalls, ClusterCreates, ClusterStops DEF Cluster!Next

(* As long as a container the Cluster refers to exists, Stop is not refused, *)
(* for any number of brokers and of goroutines that call Stop (the flag      *)
(* started, cluster.go:54, 83 and 121).                                      *)
THEOREM ClusterStoppable == Cluster!Spec => []StoppableWhileUp
<1>1. ClusterInv => StoppableWhileUp
  BY DEF ClusterInv, Referred, StoppableWhileUp, Cluster!StoppableWhileUp
<1>2. QED
  BY <1>1, ClusterInit, ClusterNext, PTL DEF Cluster!Spec

(* A Stop that returns nil leaves nothing behind but what was lost, however  *)
(* far the Start before it came and whichever of its calls failed (Stop,     *)
(* cluster.go:82).                                                           *)
THEOREM ClusterStopsClean == Cluster!Spec => CleanStop
<1> DEFINE A == \A s \in Stoppers :
                  (/\ k_stop[s].at = "terminating" /\ k_stop'[s].at = "idle"
                   /\ ~k_stop'[s].err /\ ~k_overlapped)
                  => k_up' \cup k_nets' \subseteq k_lost'
<1>1. ClusterInv /\ [Cluster!Next]_(Cluster!vars) => [A]_(Cluster!vars)
  <2> SUFFICES ASSUME ClusterInv, Cluster!Next, ~k_overlapped, NEW s \in Stoppers,
                      k_stop[s].at = "terminating", k_stop'[s].at = "idle", ~k_stop'[s].err
               PROVE  k_up' \cup k_nets' \subseteq k_lost'
    OBVIOUS
  <2>1. k_stop \in [Stoppers -> StopCalls]
    BY DEF ClusterInv, ClusterTypes
  <2>2. ~UNCHANGED k_stop
    OBVIOUS
  <2>3. PICK t \in Stoppers :
          \/ Cluster!StopCall(t) \/ Cluster!RemoveNetwork(t)
          \/ \E x \in Cluster!Containers : Cluster!Terminate(t, x)
    BY <2>2 DEF Cluster!Next, Cluster!StartCall, Cluster!NewNetwork, Cluster!StartZookeeper,
                Cluster!StartBrokers, Cluster!CreateKraft, Cluster!CopyJaas, Cluster!RunKraft,
                Cluster!Addresses, Cluster!ProbesDone, Cluster!ProbeBroker
  <2>4. Cluster!RemoveNetwork(s)
    <3>1. CASE Cluster!StopCall(t)
      BY <2>1, <3>1 DEF Cluster!StopCall, StopCalls
    <3>2. ASSUME NEW x, Cluster!Terminate(t, x) PROVE FALSE
      BY <2>1, <3>2 DEF Cluster!Terminate, StopCalls
    <3>3. CASE Cluster!RemoveNetwork(t)
      BY <2>1, <3>3 DEF Cluster!RemoveNetwork, StopCalls
    <3>4. QED
      BY <2>3, <3>1, <3>2, <3>3
  <2>5. /\ k_nets' = k_nets \ {k_network} /\ k_lost' = k_lost \ {k_network}
        /\ k_up' = k_up /\ ~k_stop[s].err /\ k_stop[s].todo = {}
    BY <2>1, <2>4 DEF Cluster!RemoveNetwork, StopCalls
  <2>6. \A x \in k_up : x \in k_lost /\ x # k_network
    BY <2>5, ContainerNames DEF ClusterInv, ClusterTypes, Referred
  <2>7. \A n \in k_nets : n \in k_lost \/ n = k_network
    BY DEF ClusterInv, Referred
  <2>8. QED
    BY <2>5, <2>6, <2>7
<1>2. QED
  BY <1>1, ClusterInit, ClusterNext, PTL DEF Cluster!Spec, CleanStop, Cluster!CleanStop

-----------------------------------------------------------------------------
(* gRPC server. *)
Phases == {"idle", "load", "store", "stop", "await", "done"}

GRPCTypes ==
  /\ g_gateway \in BOOLEAN
  /\ g_serve \in [GRPC!Servers -> {"idle", "serving", "returned", "failed"}]
  /\ g_closed \in [GRPC!Servers -> BOOLEAN] /\ g_stopping \in [GRPC!Servers -> BOOLEAN]
  /\ g_at \in [GRPC!Actors -> (GRPC!Servers \cup {"none"}) \X Phases]
  /\ g_call \in [GRPC!Calls -> {"none", "gateway", "rpc", "done", "refused"}]

(* No request waits in the gateway, and none can come any more. *)
Quiet ==
  /\ \A r \in GatewayRequests : g_call[r] # "gateway"
  /\ g_stopping["gw"] \/ (~g_gateway /\ g_serve["gw"] = "idle")

ClosingGateway(c) == g_at[c] = <<"gw", "stop">> \/ g_at[c] = <<"gw", "await">>

(* A Close that gets to the gRPC server has drained the gateway, or finds   *)
(* the server closed: if it skips the gateway because another goroutine has *)
(* closed it, then that was an earlier Close, which drained it, or the      *)
(* group, which closes the gRPC server before the gateway.                  *)
CloseOrder ==
  /\ ~g_gateway => Quiet
  /\ \A c \in Closers : g_at[c][1] # "none" => g_mu = c
  /\ g_at["group"][1] = "gw" \/ g_at["group"][2] \in {"stop", "await", "done"}
       => g_closed["grpc"]
  /\ g_closed["gw"] => g_closed["grpc"] \/ Quiet \/ \E c \in Closers : ClosingGateway(c)
  /\ \A c \in Closers :
       /\ g_at[c] = <<"grpc", "load">> => g_closed["grpc"] \/ Quiet
       /\ g_at[c] = <<"grpc", "store">> \/ g_at[c] = <<"grpc", "stop">> => Quiet
  /\ \A a \in GRPC!Actors : g_at[a] = <<"gw", "await">> => g_stopping["gw"]

(* Who fired the stop of the gRPC server, and what that did to requests. *)
Fired ==
  /\ g_firedBy \in GRPC!Actors \cup {NoOne}
  /\ g_stopping["grpc"] <=> g_firedBy # NoOne
  /\ g_firedBy \in Closers => Quiet
  /\ RefusedByGroupOnly

GRPCInv == GRPCTypes /\ CloseOrder /\ Fired

LEMMA GRPCNames ==
  /\ GRPC!Servers = {"grpc", "gw"} /\ GRPC!Group = "group"
  /\ GRPC!Actors = Closers \cup {"group"} /\ GatewayRequests \subseteq GRPC!Calls
  /\ "group" \notin Closers /\ NoOne \notin GRPC!Actors
BY NoOneAssumption DEF GRPC!Servers, GRPC!Group, GRPC!Actors, GRPC!Calls

LEMMA GRPCInit == GRPC!Init => GRPCInv
<1> SUFFICES ASSUME GRPC!Init PROVE GRPCInv
  OBVIOUS
<1> USE GRPCNames DEF GRPC!Init
<1>1. GRPCTypes
  BY DEF GRPCTypes, Phases
<1>2. Quiet \/ g_gateway
  BY DEF Quiet
<1>3. CloseOrder
  BY <1>2 DEF CloseOrder
<1>4. Fired
  BY DEF Fired, RefusedByGroupOnly, GRPC!RefusedByGroupOnly
<1>5. QED
  BY <1>1, <1>3, <1>4 DEF GRPCInv

(* The servers start and end; no goroutine that closes them moves, but for  *)
(* the group, which begins.                                                 *)
LEMMA ServersStep ==
  ASSUME GRPCInv,
         \/ GRPC!NewServer \/ GRPC!ListenAndServe \/ GRPC!GroupInterrupts \/ GRPC!GroupReturns
         \/ \E x \in GRPC!Servers : GRPC!Serve(x) \/ GRPC!ServeEnds(x) \/ GRPC!ServeFails(x)
         \/ UNCHANGED GRPC!vars
  PROVE  GRPCInv'
<1> USE GRPCNames DEF GRPCInv
<1>1. UNCHANGED <<g_gateway, g_mu, g_closed, g_stopping, g_firedBy, g_call>>
  BY DEF GRPC!NewServer, GRPC!newGRPCListener, GRPC!setGRPCTracing, GRPC!newGatewayServer,
         GRPC!NoGateway, GRPC!Creates, GRPC!ListenAndServe, GRPC!GroupInterrupts,
         GRPC!GroupReturns, GRPC!Serve, GRPC!ServeEnds, GRPC!ServeFails, GRPC!serverVars,
         GRPC!vars
<1> DEFINE Served ==
             /\ g_serve' \in [GRPC!Servers -> {"idle", "serving", "returned", "failed"}]
             /\ g_serve["grpc"] = "failed" => g_serve'["grpc"] = "failed"
             /\ ~g_gateway /\ g_serve["gw"] = "idle" => g_serve'["gw"] = "idle"
<1>2. Served
  <2>1. CASE UNCHANGED g_serve
    BY <2>1 DEF GRPCTypes
  <2>2. ASSUME NEW x \in GRPC!Servers, GRPC!Serve(x) \/ GRPC!ServeEnds(x) \/ GRPC!ServeFails(x)
        PROVE  Served
    BY <2>2 DEF GRPCTypes, GRPC!Serve, GRPC!ServeEnds, GRPC!ServeFails, GRPC!Actor
  <2>3. QED
    BY <2>1, <2>2
    DEF GRPC!NewServer, GRPC!newGRPCListener, GRPC!setGRPCTracing, GRPC!newGatewayServer,
        GRPC!NoGateway, GRPC!Creates, GRPC!ListenAndServe, GRPC!GroupInterrupts,
        GRPC!GroupReturns, GRPC!vars
<1>3. UNCHANGED g_at \/ g_at' = [g_at EXCEPT !["group"] = <<"grpc", "load">>]
  BY DEF GRPC!NewServer, GRPC!newGRPCListener, GRPC!setGRPCTracing, GRPC!newGatewayServer,
         GRPC!NoGateway, GRPC!Creates, GRPC!ListenAndServe, GRPC!GroupInterrupts,
         GRPC!GroupReturns, GRPC!Serve, GRPC!ServeEnds, GRPC!ServeFails, GRPC!vars
<1>4. Quiet => Quiet'
  BY <1>1, <1>2 DEF Quiet
<1>5. GRPCTypes'
  BY <1>1, <1>2, <1>3 DEF GRPCTypes, Phases
<1>6. CloseOrder'
  BY <1>1, <1>3, <1>4 DEF CloseOrder, ClosingGateway, GRPCTypes
<1>7. Fired'
  BY <1>1, <1>2, <1>4 DEF Fired, RefusedByGroupOnly, GRPC!RefusedByGroupOnly
<1>8. QED
  BY <1>5, <1>6, <1>7

(* Calls arrive, are forwarded and end: a call that is refused was waiting   *)
(* in the gateway when gRPC was stopped or had failed.                       *)
LEMMA CallsStep ==
  ASSUME GRPCInv, NEW r \in GRPC!Calls, GRPC!Arrive(r) \/ GRPC!Forward(r) \/ GRPC!CallEnds(r)
  PROVE  GRPCInv'
<1> USE GRPCNames DEF GRPCInv
<1>1. UNCHANGED <<g_gateway, g_mu, g_closed, g_stopping, g_firedBy, g_serve, g_at>>
  BY DEF GRPC!Arrive, GRPC!Forward, GRPC!CallEnds, GRPC!serverVars
<1>2. PICK x \in {"gateway", "rpc", "done", "refused"} :
        /\ g_call' = [g_call EXCEPT ![r] = x]
        /\ x = "gateway" => g_serve["gw"] = "serving" /\ ~g_stopping["gw"]
        /\ x = "refused" =>
             g_call[r] = "gateway" /\ (g_stopping["grpc"] \/ g_serve["grpc"] = "failed")
  BY DEF GRPC!Arrive, GRPC!Forward, GRPC!CallEnds
<1>3. Quiet => Quiet'
  BY <1>1, <1>2 DEF Quiet, GRPCTypes
<1>4. GRPCTypes'
  BY <1>1, <1>2 DEF GRPCTypes
<1>5. CloseOrder'
  BY <1>1, <1>3 DEF CloseOrder, ClosingGateway
<1>6. RefusedByGroupOnly'
  BY <1>1, <1>2 DEF Fired, RefusedByGroupOnly, GRPC!RefusedByGroupOnly, Quiet, GRPCTypes
<1>7. Fired'
  BY <1>1, <1>3, <1>6 DEF Fired
<1>8. QED
  BY <1>4, <1>5, <1>7

(* Close takes mu, so no other Close is on its way, and begins with the     *)
(* gateway if there is one.                                                  *)
LEMMA CloseBegins ==
  ASSUME GRPCInv, NEW c \in Closers, GRPC!Close(c)
  PROVE  GRPCInv'
<1> USE GRPCNames DEF GRPCInv, GRPC!Close
<1>1. /\ UNCHANGED <<g_gateway, g_closed, g_stopping, g_firedBy, g_serve, g_call>>
      /\ g_mu = NoOne /\ g_mu' = c
      /\ g_at' = [g_at EXCEPT ![c] = <<GRPC!First, "load">>]
  BY DEF GRPC!serverVars
<1>2. \A d \in Closers : g_at[d][1] = "none"
  BY DEF CloseOrder
<1>3. Quiet' <=> Quiet
  BY <1>1 DEF Quiet
<1>4. GRPCTypes'
  BY <1>1 DEF GRPCTypes, Phases, GRPC!First
<1>5. CloseOrder'
  BY <1>1, <1>2, <1>3 DEF CloseOrder, ClosingGateway, GRPCTypes, GRPC!First
<1>6. Fired'
  BY <1>1, <1>3 DEF Fired, RefusedByGroupOnly, GRPC!RefusedByGroupOnly
<1>7. QED
  BY <1>4, <1>5, <1>6

(* Closing finds the flag of x set and goes on, or will set it. *)
LEMMA CloseLoads ==
  ASSUME GRPCInv, NEW a \in GRPC!Actors, NEW x \in GRPC!Servers, GRPC!Load(a, x)
  PROVE  GRPCInv'
<1> USE GRPCNames DEF GRPCInv
<1>1. /\ UNCHANGED <<g_gateway, g_closed, g_stopping, g_firedBy, g_serve, g_call>>
      /\ g_at[a] = <<x, "load">>
  BY DEF GRPC!serverVars, GRPC!Load
<1>2. Quiet' <=> Quiet
  BY <1>1 DEF Quiet
<1>3. Fired'
  BY <1>1, <1>2 DEF Fired, RefusedByGroupOnly, GRPC!RefusedByGroupOnly
<1>4. CASE g_closed[x]
  <2>1. /\ g_at' = [g_at EXCEPT ![a] = GRPC!After(a, x)]
        /\ g_mu' = IF GRPC!After(a, x)[2] = "done" /\ g_mu = a THEN NoOne ELSE g_mu
    BY <1>4 DEF GRPC!Load, GRPC!Leave
  <2>2. GRPCTypes'
    BY <1>1, <2>1 DEF GRPCTypes, Phases, GRPC!After
  <2>3. CloseOrder'
    BY <1>1, <1>2, <1>4, <2>1 DEF CloseOrder, ClosingGateway, GRPCTypes, GRPC!After
  <2>4. QED
    BY <1>3, <2>2, <2>3
<1>5. CASE ~g_closed[x]
  <2>1. UNCHANGED g_mu /\ g_at' = [g_at EXCEPT ![a] = <<x, "store">>]
    BY <1>5 DEF GRPC!Load
  <2>2. GRPCTypes'
    BY <1>1, <2>1 DEF GRPCTypes, Phases
  <2>3. CloseOrder'
    BY <1>1, <1>2, <1>5, <2>1 DEF CloseOrder, ClosingGateway, GRPCTypes
  <2>4. QED
    BY <1>3, <2>2, <2>3
<1>6. QED
  BY <1>4, <1>5

LEMMA CloseStores ==
  ASSUME GRPCInv, NEW a \in GRPC!Actors, NEW x \in GRPC!Servers, GRPC!Store(a, x)
  PROVE  GRPCInv'
<1> USE GRPCNames DEF GRPCInv
<1>1. /\ UNCHANGED <<g_gateway, g_mu, g_stopping, g_firedBy, g_serve, g_call>>
      /\ g_at[a] = <<x, "store">> /\ g_at' = [g_at EXCEPT ![a] = <<x, "stop">>]
      /\ g_closed' = [g_closed EXCEPT ![x] = TRUE]
  BY DEF GRPC!serverVars, GRPC!Store
<1>2. Quiet' <=> Quiet
  BY <1>1 DEF Quiet
<1>3. Fired'
  BY <1>1, <1>2 DEF Fired, RefusedByGroupOnly, GRPC!RefusedByGroupOnly
<1>4. GRPCTypes'
  BY <1>1 DEF GRPCTypes, Phases
<1>5. CASE a = "group"
  <2>0. x = "gw" => g_closed["grpc"]
    BY <1>1, <1>5 DEF CloseOrder
  <2>1. g_closed'["grpc"] /\ \A c \in Closers : g_at'[c] = g_at[c]
    BY <1>1, <1>5, <2>0 DEF GRPCTypes
  <2>2. g_at'["group"] = <<x, "stop">>
    BY <1>1, <1>5 DEF GRPCTypes
  <2>3. CloseOrder'
    BY <1>1, <1>2, <1>5, <2>1, <2>2 DEF CloseOrder
  <2>4. QED
    BY <1>3, <1>4, <2>3
<1>6. CASE a \in Closers
  <2>1. \A c \in Closers : c # a => g_at[c][1] = "none" /\ g_at'[c] = g_at[c]
    BY <1>1, <1>6 DEF CloseOrder, GRPCTypes
  <2>2. x = "grpc" => Quiet
    BY <1>1, <1>6 DEF CloseOrder
  <2>3. x = "gw" => ClosingGateway(a)'
    BY <1>1 DEF ClosingGateway, GRPCTypes
  <2>4. CloseOrder'
    BY <1>1, <1>2, <1>6, <2>1, <2>2, <2>3 DEF CloseOrder, GRPCTypes
  <2>5. QED
    BY <1>3, <1>4, <2>4
<1>7. QED
  BY <1>5, <1>6

(* GracefulStop by a Close: the gateway is quiet. *)
LEMMA CloseStopsOne ==
  ASSUME GRPCInv, NEW a \in GRPC!Actors, NEW x \in GRPC!Servers, GRPC!Stop(a, x)
  PROVE  GRPCInv'
<1> USE GRPCNames DEF GRPCInv
<1>1. /\ UNCHANGED <<g_gateway, g_mu, g_closed, g_serve, g_call>>
      /\ g_at[a] = <<x, "stop">> /\ g_at' = [g_at EXCEPT ![a] = <<x, "await">>]
      /\ g_stopping' = [g_stopping EXCEPT ![x] = TRUE]
      /\ g_firedBy' = IF x = "grpc" /\ ~g_stopping[x] THEN a ELSE g_firedBy
  BY DEF GRPC!serverVars, GRPC!Stop, GRPC!Stops
<1>2. Quiet => Quiet'
  BY <1>1 DEF Quiet, GRPCTypes
<1>3. GRPCTypes'
  BY <1>1 DEF GRPCTypes, Phases
<1>4. CloseOrder'
  BY <1>1, <1>2 DEF CloseOrder, ClosingGateway, GRPCTypes
<1>5. RefusedByGroupOnly'
  BY <1>1 DEF Fired, CloseOrder, Quiet, RefusedByGroupOnly, GRPC!RefusedByGroupOnly, GRPCTypes
<1>6. Fired'
  BY <1>1, <1>2, <1>5 DEF Fired, CloseOrder, GRPCTypes
<1>7. QED
  BY <1>3, <1>4, <1>6

(* Shutdown of the gateway returns with no request left in it. *)
LEMMA CloseAwaits ==
  ASSUME GRPCInv, NEW a \in GRPC!Actors,
         (\E x \in GRPC!Servers : GRPC!Await(a, x)) \/ GRPC!AwaitFails(a)
  PROVE  GRPCInv'
<1> USE GRPCNames DEF GRPCInv
<1>1. PICK x \in GRPC!Servers, p \in (GRPC!Servers \cup {"none"}) \X Phases :
        /\ g_at[a] = <<x, "await">> /\ GRPC!Drained(x)
        /\ p = GRPC!After(a, x) \/ (x = "gw" /\ p = <<"none", "done">>)
        /\ g_at' = [g_at EXCEPT ![a] = p]
        /\ g_mu' = IF p[2] = "done" /\ g_mu = a THEN NoOne ELSE g_mu
  BY ZenonT(30) DEF GRPC!Await, GRPC!AwaitFails, GRPC!Leave, GRPC!After, Phases
<1>2. UNCHANGED <<g_gateway, g_closed, g_stopping, g_firedBy, g_serve, g_call>>
  BY DEF GRPC!Await, GRPC!AwaitFails, GRPC!serverVars
<1>3. Quiet' <=> Quiet
  BY <1>2 DEF Quiet
<1>4. x = "gw" => Quiet
  BY <1>1 DEF Quiet, GRPC!Drained, CloseOrder
<1>5. Fired'
  BY <1>2, <1>3 DEF Fired, RefusedByGroupOnly, GRPC!RefusedByGroupOnly
<1>6. GRPCTypes'
  BY <1>1, <1>2 DEF GRPCTypes, Phases, GRPC!After
<1>7. CloseOrder'
  BY <1>1, <1>2, <1>3, <1>4 DEF CloseOrder, ClosingGateway, GRPCTypes, GRPC!After
<1>8. QED
  BY <1>5, <1>6, <1>7

(* GRPCInv is inductive. *)
LEMMA GRPCNext == GRPCInv /\ [GRPC!Next]_(GRPC!vars) => GRPCInv'
BY ServersStep, CallsStep, CloseBegins, CloseLoads, CloseStores, CloseStopsOne, CloseAwaits
DEF GRPC!Next, GRPC!ClosingStep

(* Whatever the interleaving of Close calls with the run group's            *)
(* interrupts, a request the gateway has accepted is refused by the gRPC    *)
(* server only if the group stopped that server or its Serve had failed:    *)
(* Close never stops it under such a request.                               *)
THEOREM CloseRefusesNothing == GRPC!Spec => []RefusedByGroupOnly
<1>1. GRPCInv => RefusedByGroupOnly
  BY DEF GRPCInv, Fired
<1>2. QED
  BY <1>1, GRPCInit, GRPCNext, PTL DEF GRPC!Spec

=============================================================================
