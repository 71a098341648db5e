----------------------------- MODULE MCRequests -----------------------------
(***************************************************************************)
(* How one request or value is handled, one component in each behaviour:   *)
(* the chain of gRPC interceptors, the chain of HTTP middlewares, a        *)
(* listing page by page, value.Int and the signed cookie.                  *)
(***************************************************************************)
EXTENDS Integers, Sequences, FiniteSets

CONSTANTS
  Interceptors, MaxInterceptors, Calls, AuthRoles, HandlerErrors,     \* gRPC
  Middlewares, Errors,                                                \* HTTP
  Rows, Sizes, Backends, Shapes, ColonIDs, Now, MaxWrites,            \* pagination
  Ints, Bigs, Numbers, Cells, Texts,                                  \* value.Int
  CookieName, Payloads, Rings, Instances                              \* signed cookie

(* What httpError and the constructors of HTTPError make: a client or a    *)
(* server error.                                                           *)
ASSUME StatusAssumption ==
  \A e \in Errors : "http" \in e.kinds => e.code \in 400 .. 599

(* Every variable can have words of its own. *)
ASSUME CellsAssumption ==
  /\ IsFiniteSet(Ints) /\ IsFiniteSet(Bigs) /\ IsFiniteSet(Cells)
  /\ Cardinality(Ints) + Cardinality(Bigs) <= Cardinality(Cells)
  /\ Cells \subseteq Nat \ {0} /\ Numbers \subseteq Int
  /\ \A t \in Texts : t.dec \cup t.auto \cup t.json \subseteq Int
  /\ "none" \notin Ints /\ Ints \cap Bigs = {}

(* A stepwise rotation: each deployment has the signing keys of its        *)
(* neighbours among its keys.                                              *)
ASSUME RotationAssumption ==
  /\ Len(Rings) \in Nat \ {0}
  /\ \A v \in 1 .. Len(Rings) : Len(Rings[v]) \in Nat \ {0}
  /\ \A v, w \in 1 .. Len(Rings) : v - w \in {-1, 0, 1} =>
       \E k \in 1 .. Len(Rings[v]) : Rings[v][k] = Rings[w][1]

VARIABLES
  which,  \* the component that runs
  g_opts, g_chain, g_phase, g_pos, g_call, g_user, g_outgoing, g_result, g_out, g_reports,
  g_seen,
  h_chain, h_pos, h_phase, h_style, h_err, h_panic, h_panicked, h_wrote, h_ww, h_sent,
  h_logged, h_captured, h_reporting, h_reports,
  p_backend, p_shape, p_dir, p_size, p_table, p_stable, p_writes, p_stage, p_cursor,
  p_items, p_total, p_next, p_prev, p_visited,
  v_heap, v_int, v_big, v_assigned, v_shared,
  c_version, c_jar, c_setBy, c_damaged, c_verified

(* Calls to a restricted method by each role, and with 0 or 2 request ids. *)
GRPCCalls ==
  {[method |-> "restricted", role |-> r, ids |-> 1] : r \in {"none", "user", "admin"}}
    \cup {[method |-> "open", role |-> "user", ids |-> i] : i \in {0, 2}}

(* Handler errors: one leaf, wrapped or not, and two leaves joined. *)
GRPCErrors ==
  LET app(t) == [kind |-> "app", type |-> t]
      canceled == [kind |-> "canceled"]
      status == [kind |-> "status", code |-> "NotFound", msg |-> "invalid", details |-> TRUE]
      err(ls, w) == [kind |-> "error", leaves |-> ls, wrapped |-> w]
      leaves == {app("invalid"), app("conflict"), app("internal-error"), [kind |-> "plain"],
                 canceled, status}
  IN  {err(<<l>>, w) : l \in leaves, w \in BOOLEAN}
        \cup {err(<<k, l>>, FALSE) : k, l \in {app("invalid"), status, canceled}}

(* One HTTP error of each kind, and an application error that wraps a       *)
(* validation error.                                                        *)
HTTPErrors ==
  LET e(ks) == [kinds |-> ks, code |-> 0, type |-> "none", about |-> "none"]
  IN  {e({k}) : k \in {"plain", "time", "json", "validation"}}
        \cup {[e({"http"}) EXCEPT !.code = c] : c \in {404, 500}}
        \cup {[e({"app"}) EXCEPT !.type = t] : t \in {"invalid", "conflict", "panic", "text"}}
        \cup {[e({"request"}) EXCEPT !.about = a] : a \in {"parameter", "other"}}
        \cup {[e({"app", "validation"}) EXCEPT !.type = "text"]}

(* Rows: two with the same key, one with the zero time, one id with a colon. *)
PageRows ==
  {[key |-> 0, id |-> 1], [key |-> 1, id |-> 1], [key |-> 1, id |-> 2], [key |-> 2, id |-> 3]}

PageShapes ==
  {[id |-> "string", created |-> "time"], [id |-> "uuid", created |-> "nil"],
   [id |-> "int", created |-> "time"]}

(* Texts: base prefix, JSON null, and no number at all. *)
IntTexts ==
  {[dec |-> {1}, auto |-> {-2}, json |-> {-2}], [dec |-> {}, auto |-> {}, json |-> {0}],
   [dec |-> {}, auto |-> {}, json |-> {}]}

(* A rotation from k1 to k2 and on to k3. *)
Keys ==
  <<<<"k1">>, <<"k1", "k2">>, <<"k2", "k1">>, <<"k2">>, <<"k2", "k3">>, <<"k3", "k2">>>>

(* A method that only an admin may call. *)
MethodRoles == [m \in {"restricted"} |-> {"admin"}]

MCSizes == 0..2
MCNumbers == {-2, 0, 1}
MCCells == 1..3

GRPC == INSTANCE GRPCChain WITH
  opts <- g_opts, chain <- g_chain, phase <- g_phase, pos <- g_pos, call <- g_call,
  user <- g_user, outgoing <- g_outgoing, result <- g_result, out <- g_out,
  reports <- g_reports, seen <- g_seen

HTTP == INSTANCE HTTPChain WITH
  chain <- h_chain, pos <- h_pos, phase <- h_phase, style <- h_style, err <- h_err,
  panic <- h_panic, panicked <- h_panicked, wrote <- h_wrote, ww <- h_ww, sent <- h_sent,
  logged <- h_logged, captured <- h_captured, reporting <- h_reporting,
  reports <- h_reports

Pages == INSTANCE Pagination WITH
  backend <- p_backend, shape <- p_shape,
  dir <- p_dir, size <- p_size, table <- p_table, stable <- p_stable, writes <- p_writes,
  stage <- p_stage, cursor <- p_cursor, items <- p_items, total <- p_total,
  next <- p_next, prev <- p_prev, visited <- p_visited

Value == INSTANCE ValueInt WITH
  heap <- v_heap, int <- v_int, big <- v_big, assigned <- v_assigned,
  shared <- v_shared

Cookie == INSTANCE SignedCookie WITH
  version <- c_version, jar <- c_jar, setBy <- c_setBy,
  damaged <- c_damaged, verified <- c_verified

(* The handlers of the application return well-formed errors. *)
ASSUME HandlersAssumption == GRPC!Usage

(* Tables are finite. *)
ASSUME TablesAssumption == Pages!Usage

gVars == <<g_opts, g_chain, g_phase, g_pos, g_call, g_user, g_outgoing, g_result, g_out,
           g_reports, g_seen>>
hVars == <<h_chain, h_pos, h_phase, h_style, h_err, h_panic, h_panicked, h_wrote, h_ww,
           h_sent, h_logged, h_captured, h_reporting, h_reports>>
pVars == <<p_backend, p_shape, p_dir, p_size, p_table, p_stable, p_writes, p_stage,
           p_cursor, p_items, p_total, p_next, p_prev, p_visited>>
vVars == <<v_heap, v_int, v_big, v_assigned, v_shared>>
cVars == <<c_version, c_jar, c_setBy, c_damaged, c_verified>>
MCvars == <<which, gVars, hVars, pVars, vVars, cVars>>

(* The listing of an empty table, while another component runs. *)
PagesIdle ==
  /\ Pages!Init
  /\ p_backend = "psql" /\ p_shape.id = "int" /\ p_dir = "forward" /\ p_size = 0 /\ p_table = {}

MCInit ==
  /\ which \in {"grpc", "http", "pages", "value", "cookie"}
  /\ GRPC!Init /\ (which # "grpc" => g_call.role = "none")
  /\ HTTP!Init /\ (which # "http" => h_style = "router")
  /\ IF which = "pages" THEN Pages!Init ELSE PagesIdle
  /\ Value!Init
  /\ Cookie!Init

MCNext ==
  \/ /\ which = "grpc" /\ GRPC!Next
     /\ UNCHANGED <<which, hVars, pVars, vVars, cVars>>
  \/ /\ which = "http" /\ HTTP!Next
     /\ UNCHANGED <<which, gVars, pVars, vVars, cVars>>
  \/ /\ which = "pages" /\ Pages!Next
     /\ UNCHANGED <<which, gVars, hVars, vVars, cVars>>
  \/ /\ which = "value" /\ Value!Next
     /\ UNCHANGED <<which, gVars, hVars, pVars, cVars>>
  \/ /\ which = "cookie" /\ Cookie!Next
     /\ UNCHANGED <<which, gVars, hVars, pVars, vVars>>

MCSpec ==
  /\ MCInit /\ [][MCNext]_MCvars
  /\ Pages!Fairness

-----------------------------------------------------------------------------
(* gRPC: an application error keeps its type through all interceptors. *)
ErrorsKeepTheirType == GRPC!ErrorsKeepTheirType

(* gRPC: a failure of the handler is reported once. *)
FailuresReportedOnce == GRPC!FailuresReportedOnce

(* gRPC: no panic ends a process with a panic handler. *)
PanicsAreRecovered == GRPC!PanicsAreRecovered

(* gRPC: the caller sees success only for a handler that succeeded, or a    *)
(* cancelled call.                                                          *)
ErrorsSurface == GRPC!ErrorsSurface

(* gRPC: a restricted handler runs only for a role of the method. *)
AuthorizedHandler == GRPC!AuthorizedHandler

(* gRPC: the outgoing context carries one request id, or two inside the     *)
(* context propagation.                                                     *)
RequestIDPassedOn == GRPC!RequestIDPassedOn

(* HTTP: when the status that is logged was sent, and what was sent else. *)
LoggedStatus == HTTP!LoggedStatus

(* HTTP: a failure of the handler is told to the client. *)
FailuresAreTold == HTTP!FailuresAreTold

(* Pagination: a listing that ends has visited every stable row. *)
EveryRowVisited == Pages!EveryRowVisited

(* Pagination: the pages put together are in order, without repetition. *)
OrderedVisit == Pages!OrderedVisit

(* Pagination: a listing ends. *)
ListingEnds == Pages!ListingEnds

(* value.Int: an Int changes only by operations on it, or with the big.Int   *)
(* whose words NewIntFromBigInt took over.                                   *)
OwnWords == Value!OwnWords

(* Cookie: a stepwise key rotation keeps the cookies of its neighbours. *)
RotationKeepsCookies == Cookie!RotationKeepsCookies
=============================================================================
