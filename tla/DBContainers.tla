--------------------------- MODULE DBContainers ---------------------------
(***************************************************************************)
(* The database and broker containers for tests: psqldocker.Container,     *)
(* clickhousedocker.Container and rabbitmqdocker.NewContainer.  Start runs *)
(* a container, waits until the server in it is ready, runs the given      *)
(* statements, and removes the container again when a later step fails.    *)
(* Docker and the servers are external: calls may fail, a server boots in  *)
(* its own time, a container with an expiration may be gone at any moment. *)
(* Nothing stops an application from calling Start again.                  *)
(***************************************************************************)
EXTENDS Integers

CONSTANTS Kinds,        \* a subset of {"psql", "clickhouse", "rabbitmq"}
          NumSQLs,      \* len(sqls)
          MaxStarts     \* bound: calls of Start

VARIABLES
    kind,
    pools,      \* clickhouse: both WithPool and WithPoolEndpoint were given
    at,         \* where Start stands
    ret,        \* what the last call returned
    starts,     \* calls of Start so far; also the number of the newest container
    live,       \* docker: the containers that exist
    phase,      \* the server in the newest container: down, temporary, ready
    logged,     \* how often it has logged that it is ready
    expires,    \* the containers docker will remove by itself
    ref,        \* Container.container / Container.res (0: nil)
    done,       \* statements executed by this Start
    leaked      \* history: containers no cleanup of this code can be asked about

vars == <<kind, pools, at, ret, starts, live, phase, logged, expires, ref, done, leaked>>
server == <<phase, logged>>

Init ==
    /\ kind \in Kinds /\ pools \in (IF kind = "clickhouse" THEN BOOLEAN ELSE {FALSE})
    /\ at = "idle" /\ ret = "none" /\ starts = 0 /\ live = {} /\ phase = "down" /\ logged = 0
    /\ expires = {} /\ ref = 0 /\ done = 0 /\ leaked = {}

Returns(r) == at' = "idle" /\ ret' = r

\* Start of kind k is called, and begins at p.
StartCall(k, p) ==
    /\ kind = k /\ at = "idle" /\ starts < MaxStarts /\ ret # "panic"
    /\ starts' = starts + 1 /\ at' = p
    /\ ret' = "running" /\ done' = 0 /\ phase' = "down" /\ logged' = 0
    /\ UNCHANGED <<kind, pools, live, expires, ref, leaked>>

\* Mutant of Clean: the error path does not clean up.
CleanNothing == UNCHANGED <<live, leaked>>

\* Terminate / res.Close of the newest container, its error ignored.
Clean ==
    \/ live' = live \ {starts} /\ UNCHANGED leaked
    \/ UNCHANGED live /\ leaked' = leaked \cup {starts}

\* The newest container is stored where the application finds it.
Stored ==
    /\ ref' = starts
    /\ leaked' = (IF ref \in live THEN leaked \cup {ref} ELSE leaked)

\* Mutant of Ready: one ready line is enough.
ReadyAtFirstLine == IF kind = "psql" THEN logged >= 1 ELSE phase = "ready"

\* Ready: the second ready line and the port (postgres), an answer to a ping.
Ready == IF kind = "psql" THEN logged >= 2 /\ phase = "ready" ELSE phase = "ready"

\* for i := range sqls
MoreSQLs == done < NumSQLs

\* executeSQLs, one statement at a time.
ExecuteSQLs(k) ==
    /\ kind = k /\ at = "sql"
    /\ \/ /\ MoreSQLs /\ starts \in live /\ done' = done + 1
          /\ UNCHANGED <<at, ret, live, leaked>>
       \/ ~MoreSQLs /\ Returns("nil") /\ UNCHANGED <<done, live, leaked>>
       \/ MoreSQLs /\ Clean /\ Returns("error") /\ UNCHANGED done
    /\ UNCHANGED <<kind, pools, starts, server, expires, ref>>

Removed ==
    \/ live' = live \ {ref} /\ ret' = "closed"
    \/ UNCHANGED live /\ ret' = "close failed"

-----------------------------------------------------------------------------
(* psqldocker.  GenericContainer waits for the server and hands the        *)
(* container over when that is done; when it fails it hands nothing over.  *)

StartPsql == StartCall("psql", "run")

GenericContainer ==
    /\ kind = "psql" /\ at = "run"
    /\ \/ live' = live \cup {starts} /\ at' = "wait" /\ UNCHANGED ret
       \/ Returns("error") /\ UNCHANGED live
    /\ UNCHANGED <<kind, pools, starts, server, expires, ref, done, leaked>>

WaitingFor ==
    /\ kind = "psql" /\ at = "wait"
    /\ \/ starts \in live /\ Ready /\ Stored /\ at' = "host" /\ UNCHANGED ret
       \/ Returns("error") /\ leaked' = leaked \cup {starts} /\ UNCHANGED ref
    /\ UNCHANGED <<kind, pools, starts, live, server, expires, done>>

\* ctr.Host and ctr.MappedPort.
HostAndPort ==
    /\ at = "host"
    /\ \/ at' = "sql" /\ UNCHANGED <<ret, live, leaked>>
       \/ Clean /\ Returns("error")
    /\ UNCHANGED <<kind, pools, starts, server, expires, ref, done>>

ExecutePsql == ExecuteSQLs("psql")

ClosePsql ==
    /\ kind = "psql" /\ at = "idle"
    /\ IF ref = 0 THEN ret' = "closed" /\ UNCHANGED live ELSE Removed
    /\ UNCHANGED <<kind, pools, at, starts, server, expires, ref, done, leaked>>

-----------------------------------------------------------------------------
(* The dockertest pool of the other two. *)

NewPool(k) ==
    /\ kind = k /\ at = "pool"
    /\ \/ ~pools /\ at' = "run" /\ UNCHANGED ret
       \/ Returns("error")
    /\ UNCHANGED <<kind, pools, starts, live, server, expires, ref, done, leaked>>

RunWithOptions(k, p) ==
    /\ kind = k /\ at = "run"
    /\ \/ live' = live \cup {starts} /\ Stored /\ at' = p /\ UNCHANGED ret
       \/ Returns("error") /\ UNCHANGED <<live, ref, leaked>>
    /\ UNCHANGED <<kind, pools, starts, server, expires, done>>

\* pool.Retry of the ping, until pool.MaxWait; r is what is stored after that.
Retry(k, p, r) ==
    /\ kind = k /\ at = "wait"
    /\ \/ starts \in live /\ Ready /\ at' = p /\ UNCHANGED <<ret, live, leaked, ref>>
       \/ Clean /\ Returns("error") /\ ref' = r
    /\ UNCHANGED <<kind, pools, starts, server, expires, done>>

\* res.Expire; its error is ignored.
SetExpiration == expires' \in {expires, expires \cup {starts}}

-----------------------------------------------------------------------------
(* clickhousedocker.  The expiration is set before the first ping.         *)

StartClickhouse == StartCall("clickhouse", "pool")
newPool == NewPool("clickhouse")
startContainer == RunWithOptions("clickhouse", "expire")

ExpireClickhouse ==
    /\ kind = "clickhouse" /\ at = "expire"
    /\ SetExpiration /\ at' = "wait"
    /\ UNCHANGED <<kind, pools, ret, starts, live, server, ref, done, leaked>>

pingDB == Retry("clickhouse", "sql", ref)
ExecuteClickhouse == ExecuteSQLs("clickhouse")

\* res is not compared with nil.
CloseClickhouse ==
    /\ kind = "clickhouse" /\ at = "idle" /\ ret # "panic"
    /\ IF ref = 0 THEN ret' = "panic" /\ UNCHANGED live ELSE Removed
    /\ UNCHANGED <<kind, pools, at, starts, server, expires, ref, done, leaked>>

-----------------------------------------------------------------------------
(* rabbitmqdocker.  The expiration is set when the node is alive.          *)

NewContainer == StartCall("rabbitmq", "pool")
pool == NewPool("rabbitmq")
startRabbitMQ == RunWithOptions("rabbitmq", "wait")
ping == Retry("rabbitmq", "expire", 0)

ExpireRabbitMQ ==
    /\ kind = "rabbitmq" /\ at = "expire"
    /\ SetExpiration /\ Returns("nil")
    /\ UNCHANGED <<kind, pools, starts, live, server, ref, done, leaked>>

\* External: the application closes the resource it was given.
CloseResource ==
    /\ kind = "rabbitmq" /\ at = "idle" /\ ref # 0
    /\ Removed
    /\ UNCHANGED <<kind, pools, at, starts, server, expires, ref, done, leaked>>

-----------------------------------------------------------------------------
\* External: postgres boots twice, the first time without its port.
Boot ==
    /\ starts \in live
    /\ \/ phase = "down" /\ kind = "psql" /\ logged = 0 /\ phase' = "temporary" /\ logged' = 1
       \/ phase = "temporary" /\ phase' = "down" /\ UNCHANGED logged
       \/ phase = "down" /\ (kind = "psql" => logged = 1) /\ phase' = "ready" /\ logged' = logged + 1
    /\ UNCHANGED <<kind, pools, at, ret, starts, live, expires, ref, done, leaked>>

\* External: the expiration has passed.
Expired ==
    /\ \E c \in live \cap expires : live' = live \ {c}
    /\ UNCHANGED <<kind, pools, at, ret, starts, server, expires, ref, done, leaked>>

Psql == StartPsql \/ GenericContainer \/ WaitingFor \/ HostAndPort \/ ExecutePsql \/ ClosePsql
Clickhouse ==
    \/ StartClickhouse \/ newPool \/ startContainer \/ ExpireClickhouse \/ pingDB
    \/ ExecuteClickhouse \/ CloseClickhouse
RabbitMQ ==
    \/ NewContainer \/ pool \/ startRabbitMQ \/ ping \/ ExpireRabbitMQ \/ CloseResource

Next == Psql \/ Clickhouse \/ RabbitMQ \/ Boot \/ Expired

Spec == Init /\ [][Next]_vars

-----------------------------------------------------------------------------
\* Whenever no call is in progress, every container that exists is the one Close
\* would remove, except those whose removal failed, that a failed or a second
\* Start took out of reach; and after a Start that failed not even that one
\* exists (the Terminate and res.Close calls on the error paths).
NothingLeftBehind ==
    at = "idle" => /\ live \ leaked \subseteq {ref}
                   /\ ret = "error" => starts \notin live \ leaked

\* A Start that returned nil has run every statement against the server that
\* stays, not against the temporary one postgres boots first
\* (psql_container.go:48-57, executeSQLs).
ReadyOnReturn ==
    ret = "nil" => phase = "ready" /\ (kind # "rabbitmq" => done = NumSQLs)
=============================================================================
