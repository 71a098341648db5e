--------------------------- MODULE KafkaCluster ---------------------------
(***************************************************************************)
(* kafkadocker.Cluster: Start creates a network and the containers of a    *)
(* KRaft or a Zookeeper cluster one call after the other, any of which may *)
(* fail, and Stop terminates in parallel what the Cluster value still      *)
(* refers to.  Containers are asked for by name with Reuse, so a container *)
(* that an earlier Start left behind is taken over; a reference to a       *)
(* terminated one is stale.  Docker itself is external: every call to it   *)
(* may succeed or fail.                                                    *)
(***************************************************************************)
EXTENDS Integers, FiniteSets

CONSTANTS Brokers,    \* Cluster.Brokers (0: one broker)
          Networks,   \* the networks docker may create (a bound; no container's number)
          Stoppers    \* goroutines that may call Stop

VARIABLES
    kraft,        \* Cluster.Kraft
    probe,        \* Cluster.HealthProbe
    started,      \* Cluster.started
    network,      \* Cluster.network (0: nil)
    ref,          \* what the Cluster refers to, per container: nil, live, stale
    addrs,        \* the brokers whose hostAddress is set
    probed,       \* the brokers that answered the probe of this Start
    up,           \* docker: the containers that exist
    nets,         \* docker: the networks that exist
    at,           \* where Start stands
    ret,          \* what Start last returned
    stop,         \* per Stop caller: where it stands, what is left to terminate, errs
    lost,         \* history: what exists although a call of Start for it failed
    overlapped,   \* history: a Start and a Stop have run at the same time
    unstopped     \* history: a Stop returned an error since the last Start

vars == <<kraft, probe, started, network, ref, addrs, probed, up, nets, at, ret,
          stop, lost, overlapped, unstopped>>
config == <<kraft, probe>>
docker == <<up, nets>>

BrokerIDs == 1..(IF Brokers > 0 THEN Brokers ELSE 1)
Zookeeper == 0
Containers == BrokerIDs \cup {Zookeeper}
KraftBroker == 1
Idle == [at |-> "idle", todo |-> {}, err |-> FALSE]

Init ==
    /\ kraft \in BOOLEAN /\ probe \in BOOLEAN
    /\ started = FALSE /\ network = 0 /\ addrs = {} /\ probed = {}
    /\ ref = [x \in Containers |-> "nil"]
    /\ up = {} /\ nets = {} /\ at = "idle" /\ ret = "none"
    /\ stop = [s \in Stoppers |-> Idle]
    /\ lost = {} /\ overlapped = FALSE /\ unstopped = FALSE

-----------------------------------------------------------------------------
(* Start *)

\* Mutant of Fail: started is reset.
FailReset == at' = "idle" /\ ret' = "error" /\ started' = FALSE

\* Start returns an error, and leaves started as it is.
Fail == at' = "idle" /\ ret' = "error" /\ UNCHANGED started

\* started.Swap(true): a second Start is refused.
StartCall ==
    /\ at = "idle"
    /\ started' = TRUE
    /\ IF started
       THEN ret' = "already started" /\ UNCHANGED <<at, probed, overlapped, unstopped>>
       ELSE /\ at' = "network" /\ ret' = "running" /\ probed' = {} /\ unstopped' = FALSE
            /\ overlapped' = (overlapped \/ \E s \in Stoppers : stop[s].at # "idle")
    /\ UNCHANGED <<config, network, ref, addrs, docker, stop, lost>>

NewNetwork ==
    /\ at = "network"
    /\ \/ Fail /\ UNCHANGED <<network, nets, lost>>
       \/ \E n \in Networks \ nets :
             /\ network' = n /\ nets' = nets \cup {n}
             /\ lost' = lost \cup nets
             /\ at' = (IF kraft THEN "create" ELSE "zookeeper")
             /\ UNCHANGED <<ret, started>>
    /\ UNCHANGED <<config, ref, addrs, probed, up, stop, overlapped, unstopped>>

\* GenericContainer for the containers C, of which `good` are created and
\* started; one that is not may have been left behind by the failed call.
Created(C, good) ==
    \E left \in SUBSET (C \ good) :
        /\ up' = up \cup good \cup left
        /\ lost' = (lost \ good) \cup ((C \ good) \cap up')

StartZookeeper ==
    /\ at = "zookeeper"
    /\ \E good \in SUBSET {Zookeeper} :
          /\ Created({Zookeeper}, good)
          /\ IF good = {}
             THEN Fail /\ UNCHANGED ref
             ELSE /\ ref' = [ref EXCEPT ![Zookeeper] = "live"] /\ at' = "brokers"
                  /\ UNCHANGED <<ret, started>>
    /\ UNCHANGED <<config, network, addrs, probed, nets, stop, overlapped, unstopped>>

\* Mutant of Recorded: the error is looked at first.
RecordedAfterCheck(good) ==
    IF good = BrokerIDs
    THEN ref' = [x \in Containers |-> IF x = Zookeeper THEN ref[x] ELSE "live"]
    ELSE UNCHANGED ref

\* ParallelContainers returns the containers it created and started, each after
\* its PostStarts hook found the mapped port and installed the start script;
\* they are recorded before its error is looked at.
Recorded(good) ==
    ref' = [x \in Containers |-> IF x = Zookeeper THEN ref[x]
                                 ELSE IF x \in good THEN "live" ELSE "nil"]

StartBrokers ==
    /\ at = "brokers"
    /\ \E good \in SUBSET BrokerIDs :
          /\ Created(BrokerIDs, good)
          /\ Recorded(good)
          /\ addrs' = {}
          /\ IF good = BrokerIDs THEN at' = "addresses" /\ UNCHANGED <<ret, started>> ELSE Fail
    /\ UNCHANGED <<config, network, probed, nets, stop, overlapped, unstopped>>

\* The KRaft broker is created, given its JAAS file and started (with the same
\* hook) before it is recorded, so a failure in between leaves it behind.
CreateKraft ==
    /\ at = "create"
    /\ \E good \in SUBSET {KraftBroker} :
          /\ Created({KraftBroker}, good)
          /\ IF good = {} THEN Fail ELSE at' = "jaas" /\ UNCHANGED <<ret, started>>
    /\ UNCHANGED <<config, network, ref, addrs, probed, nets, stop, overlapped, unstopped>>

CopyJaas ==
    /\ at = "jaas"
    /\ \/ at' = "run" /\ UNCHANGED <<ret, started, lost>>
       \/ Fail /\ lost' = lost \cup {KraftBroker}
    /\ UNCHANGED <<config, network, ref, addrs, probed, docker, stop, overlapped, unstopped>>

RunKraft ==
    /\ at = "run"
    /\ \/ /\ at' = "addresses" /\ addrs' = {}
          /\ ref' = [x \in Containers |-> IF x = KraftBroker THEN "live"
                                          ELSE IF x = Zookeeper THEN ref[x] ELSE "nil"]
          /\ UNCHANGED <<ret, started, lost>>
       \/ Fail /\ lost' = lost \cup {KraftBroker} /\ UNCHANGED <<ref, addrs>>
    /\ UNCHANGED <<config, network, probed, docker, stop, overlapped, unstopped>>

\* Host, Name and MappedPort of each broker in turn; the addresses found before
\* a failure stay.
brokers == {x \in BrokerIDs : ref[x] # "nil"}
Addresses ==
    /\ at = "addresses"
    /\ \/ addrs' = brokers /\ IF probe /\ ~kraft
                              THEN at' = "probe" /\ UNCHANGED <<ret, started>>
                              ELSE at' = "idle" /\ ret' = "nil" /\ UNCHANGED started
       \/ Fail /\ addrs' \in {{x \in brokers : x < y} : y \in brokers}
    /\ UNCHANGED <<config, network, ref, probed, docker, stop, lost, overlapped, unstopped>>

\* probeBroker: opened, connected and answering a heartbeat, within its retries.
ProbeBroker(b) ==
    /\ at = "probe" /\ b \in brokers \ probed /\ b \in up
    /\ probed' = probed \cup {b}
    /\ UNCHANGED <<config, started, network, ref, addrs, docker, at, ret, stop, lost,
                   overlapped, unstopped>>

\* errgroup.Wait without an error.
AllProbed == brokers \subseteq probed
ProbesDone ==
    /\ at = "probe"
    /\ \/ AllProbed /\ at' = "idle" /\ ret' = "nil" /\ UNCHANGED started
       \/ brokers \ probed # {} /\ Fail
    /\ UNCHANGED <<config, network, ref, addrs, probed, docker, stop, lost, overlapped, unstopped>>

-----------------------------------------------------------------------------
(* Stop *)

StopCall(s) ==
    /\ stop[s].at = "idle" /\ started
    /\ stop' = [stop EXCEPT ![s] = [at |-> "terminating", err |-> FALSE,
                                    todo |-> {x \in Containers : ref[x] # "nil"}]]
    /\ overlapped' = (overlapped \/ at # "idle")
    /\ UNCHANGED <<config, started, network, ref, addrs, probed, docker, at, ret, lost, unstopped>>

\* One goroutine of the errgroup.  Terminating a stale reference may fail.
Terminate(s, x) ==
    /\ x \in stop[s].todo
    /\ \/ /\ stop' = [stop EXCEPT ![s].todo = @ \ {x}]
          /\ up' = (IF ref[x] = "live" THEN up \ {x} ELSE up)
          /\ lost' = (IF ref[x] = "live" THEN lost \ {x} ELSE lost)
          /\ ref' = [ref EXCEPT ![x] = IF @ = "live" THEN "stale" ELSE @]
       \/ /\ stop' = [stop EXCEPT ![s].todo = @ \ {x}, ![s].err = TRUE]
          /\ UNCHANGED <<up, lost, ref>>
    /\ UNCHANGED <<config, started, network, addrs, probed, nets, at, ret, overlapped, unstopped>>

RemoveNetwork(s) ==
    /\ stop[s].at = "terminating" /\ stop[s].todo = {}
    /\ \E removed \in IF network = 0 THEN {TRUE} ELSE BOOLEAN :
          /\ removed => network \in nets \cup {0}
          /\ nets' = (IF removed THEN nets \ {network} ELSE nets)
          /\ lost' = (IF removed THEN lost \ {network} ELSE lost)
          /\ stop' = [stop EXCEPT ![s].at = "idle", ![s].err = @ \/ ~removed]
          /\ unstopped' = (unstopped \/ stop[s].err \/ ~removed)
    /\ started' = FALSE
    /\ UNCHANGED <<config, network, ref, addrs, probed, up, at, ret, overlapped>>

-----------------------------------------------------------------------------
Next ==
    \/ StartCall \/ NewNetwork \/ StartZookeeper \/ StartBrokers
    \/ CreateKraft \/ CopyJaas \/ RunKraft \/ Addresses \/ ProbesDone
    \/ \E b \in BrokerIDs : ProbeBroker(b)
    \/ \E s \in Stoppers : \/ StopCall(s) \/ RemoveNetwork(s)
                           \/ \E x \in Containers : Terminate(s, x)

Spec == Init /\ [][Next]_vars

-----------------------------------------------------------------------------
\* A Stop that returns nil, and that no Start overlapped, leaves neither a
\* container nor a network behind, however far the Start before it came: only
\* what a failing docker call of a Start did not hand over, or what a Stop that
\* returned an error left to the next Start, can remain (Stop, cluster.go:82).
CleanStop ==
    [][\A s \in Stoppers :
         (/\ stop[s].at = "terminating" /\ stop'[s].at = "idle"
          /\ ~stop'[s].err /\ ~overlapped)
         => up' \cup nets' \subseteq lost']_vars

\* As long as a container the Cluster refers to exists, Stop is not refused:
\* a Start that failed half way still counts as started, and only a Stop that
\* reported an error has given the cluster up (started, cluster.go:54, 83, 121).
StoppableWhileUp ==
    (\E x \in Containers : ref[x] = "live") /\ ~overlapped
    => started \/ unstopped
=============================================================================
