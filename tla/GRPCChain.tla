----------------------------- MODULE GRPCChain ------------------------------
(***************************************************************************)
(* One unary call through the interceptors of grpc.NewServer and back      *)
(* through the client interceptor of errorsgrpc: which options put which   *)
(* interceptor where, what each does to the context on the way down and to *)
(* the outcome on the way up, and what the caller sees.                    *)
(*                                                                         *)
(* An error is the sequence of the errors it joins (one, if it joins none) *)
(* and whether fmt.Errorf wrapped it.  The ErrorHandler and PanicHandler   *)
(* are the repository's, errorsgrpc.PanicErrorHandler.  Logging and the    *)
(* gateway's own options do not change the outcome and are left out.       *)
(***************************************************************************)
EXTENDS Naturals, Sequences

CONSTANTS
  Interceptors,     \* those the application adds, a subset of Known
  MaxInterceptors,  \* how many it adds, each once
  Calls,            \* calls: [method, role, ids]: the role in the token, "none"
                    \*   without one; the number of x-request-id values
  AuthRoles,        \* AuthRoles[m]: the roles of the restricted method m
  HandlerErrors     \* what the handler may return

VARIABLES
  opts,     \* the options given so far
  chain,    \* the chain that newGRPCServer builds, outermost first
  phase,    \* "options", "down", "up", "sent", "crashed", "done"
  pos,      \* the position in chain
  call, user, outgoing,  \* the call; its context: the user's role, request ids
  result,   \* what the handler did: Pending, if it was not reached
  out,      \* the outcome on its way up
  reports,  \* the number of reports made
  seen      \* what the caller of the client interceptor sees

vars == <<opts, chain, phase, pos, call, user, outgoing, result, out, reports, seen>>
ctxVars == <<call, user, outgoing>>

Known == {"requestid", "propagation", "auth", "errors", "user"}
Flags == {"debug", "panic", "error", "monitor"}

Pending == [kind |-> "pending"]
OK == [kind |-> "ok"]
Nil == [kind |-> "nil"]      \* a nil response and a nil error
Panic == [kind |-> "panic"]
Err(leaves, wrapped) == [kind |-> "error", leaves |-> leaves, wrapped |-> wrapped]
Status(code, msg, details) ==
  [kind |-> "status", code |-> code, msg |-> msg, details |-> details]
App(type) == [kind |-> "app", type |-> type]

(* Errors as Go has them: what is wrapped or joined has at least one leaf. *)
StatusRec(s) ==
  s.kind = "status" /\ s = Status(s.code, s.msg, s.details) /\ s.details \in BOOLEAN

Leaf(l) == (l.kind = "app" => l = App(l.type)) /\ (l.kind = "status" => StatusRec(l))

IsErr(e) ==
  /\ e = Err(e.leaves, e.wrapped) /\ e.wrapped \in BOOLEAN
  /\ Len(e.leaves) \in Nat \ {0} /\ DOMAIN e.leaves = 1 .. Len(e.leaves)
  /\ \A i \in 1 .. Len(e.leaves) : Leaf(e.leaves[i])

(* How the application uses the server: with interceptors of this package  *)
(* or its own, and a handler that returns errors.                          *)
Usage == Interceptors \subseteq Known /\ \A e \in HandlerErrors : IsErr(e)

Init ==
  /\ opts = [flags |-> {}, interceptors |-> <<>>]
  /\ chain = <<>> /\ phase = "options" /\ pos = 0
  /\ call \in Calls /\ user = "none" /\ outgoing = 0
  /\ result = Pending /\ out = Pending /\ reports = 0 /\ seen = Pending

-----------------------------------------------------------------------------
(* The interceptors of NewSimpleServer, but for the logger. *)
Simple == <<"requestid", "errors", "recovery">>

(* WithDebug, WithPanicHandler, WithErrorHandler, WithMonitorOperationer. *)
WithFlag(f) ==
  /\ phase = "options" /\ f \notin opts.flags /\ opts.interceptors # Simple
  /\ opts' = [opts EXCEPT !.flags = @ \cup {f}]
  /\ UNCHANGED <<chain, phase, pos, ctxVars, result, out, reports, seen>>

WithUnaryServerInterceptor(i) ==
  /\ phase = "options" /\ Len(opts.interceptors) < MaxInterceptors
  /\ opts.interceptors # Simple /\ \A k \in DOMAIN opts.interceptors : opts.interceptors[k] # i
  /\ opts' = [opts EXCEPT !.interceptors = Append(@, i)]
  /\ UNCHANGED <<chain, phase, pos, ctxVars, result, out, reports, seen>>

NewSimpleServer ==
  /\ phase = "options" /\ opts.flags = {} /\ opts.interceptors = <<>>
  /\ opts' = [opts EXCEPT !.interceptors = Simple]
  /\ UNCHANGED <<chain, phase, pos, ctxVars, result, out, reports, seen>>

If(f) == IF f \in opts.flags THEN <<f>> ELSE <<>>

(* Mutant of Chained: the panic handler is appended. *)
PanicLast == If("debug") \o If("error") \o opts.interceptors \o If("panic") \o If("monitor")

(* newGRPCServer: the error handler is prepended, then the panic handler,  *)
(* then the debug interceptor; the monitor is appended.                    *)
Chained == If("debug") \o If("panic") \o If("error") \o opts.interceptors \o If("monitor")

NewServer ==
  /\ phase = "options"
  /\ chain' = Chained /\ pos' = 1 /\ phase' = "down"
  /\ UNCHANGED <<opts, ctxVars, result, out, reports, seen>>

-----------------------------------------------------------------------------
(* The way down.  An interceptor either answers, by returning, or calls    *)
(* the next one.                                                           *)
At(i) == phase = "down" /\ pos \in DOMAIN chain /\ chain[pos] = i

Answer(o) ==
  /\ phase' = "up" /\ out' = o /\ pos' = pos - 1
  /\ UNCHANGED <<opts, chain, ctxVars, result, reports, seen>>

NextHandler(u, ids) ==
  /\ pos' = pos + 1 /\ user' = u /\ outgoing' = ids
  /\ UNCHANGED <<opts, chain, phase, call, result, out, reports, seen>>

(* SetOutgoingRequestIDFromIncoming appends the id, if there is just one. *)
PassRequestID ==
  /\ At("requestid")
  /\ NextHandler(user, IF call.ids = 1 THEN outgoing + 1 ELSE outgoing)

(* Mutant of ContextPropagation: the metadata is added to what is there. *)
PropagationAdds == At("propagation") /\ NextHandler(user, outgoing + call.ids)

(* The incoming metadata becomes the outgoing metadata. *)
ContextPropagation == At("propagation") /\ NextHandler(user, call.ids)

(* Mutant of MayCall: the roles are not compared. *)
AnyRole(role, m) == role # "none"

(* Interceptor.authorize: a public route, or a verified token of a role    *)
(* that the route allows.                                                  *)
MayCall(role, m) == role \in AuthRoles[m]

Authorize ==
  /\ At("auth")
  /\ IF call.method \notin DOMAIN AuthRoles THEN NextHandler(user, outgoing)
     ELSE IF MayCall(call.role, call.method) THEN NextHandler(call.role, outgoing)
     ELSE Answer(Err(<<Status("Unauthenticated", "text", FALSE)>>, FALSE))

(* An interceptor of the application, which may panic. *)
UserInterceptor == At("user") /\ (NextHandler(user, outgoing) \/ Answer(Panic))

(* Those that only act on the way up. *)
PassThrough ==
  /\ \E i \in Flags \cup {"errors", "recovery"} : At(i)
  /\ NextHandler(user, outgoing)

Handle(r) ==
  /\ phase = "down" /\ pos = Len(chain) + 1
  /\ phase' = "up" /\ pos' = Len(chain) /\ result' = r /\ out' = r
  /\ UNCHANGED <<opts, chain, ctxVars, reports, seen>>

-----------------------------------------------------------------------------
(* errors.Is and errors.As for a kind of error; As finds the first one. *)
Is(e, kind) == \E i \in DOMAIN e.leaves : e.leaves[i].kind = kind
As(e, kind) ==
  e.leaves[CHOOSE i \in DOMAIN e.leaves :
             e.leaves[i].kind = kind /\ \A j \in 1 .. i - 1 : e.leaves[j].kind # kind]

(* Mutant of Dropped: the error itself is compared, and not what it joins. *)
DroppedAlone(e) == Len(e.leaves) = 1 /\ Is(e, "canceled")

(* Both converters answer a cancelled call with a nil error. *)
Dropped(e) == Is(e, "canceled")

(* status.FromError (external): the message of a status that is not the    *)
(* error itself is replaced by the error's text.                           *)
FromError(e) ==
  LET s == As(e, "status")
  IN IF e.wrapped \/ Len(e.leaves) > 1 THEN [s EXCEPT !.msg = "text"] ELSE s

(* Mutant of isGRPCStatus: the error is not unwrapped. *)
NotUnwrapped(e) == FromError(e)

(* isGRPCStatus unwraps fmt.Errorf, but not errors.Join. *)
isGRPCStatus(e) == FromError([e EXCEPT !.wrapped = FALSE])

Code(type) ==
  CASE type = "invalid" -> "InvalidArgument"
    [] type = "not-found" -> "NotFound"
    [] type = "unauthorzied" -> "PermissionDenied"
    [] type = "unauthenticated" -> "Unauthenticated"
    [] type \in {"unprocessable-content", "internal-error"} -> "Internal"
    [] OTHER -> "Unknown"

StatusErr(s) == Err(<<s>>, FALSE)
AppStatus(type, code) == StatusErr(Status(code, type, TRUE))
Internal == StatusErr(Status("Internal", "text", FALSE))

Return(o, n) ==
  /\ out' = o /\ reports' = reports + n /\ pos' = pos - 1
  /\ UNCHANGED <<opts, chain, phase, ctxVars, result, seen>>

Up(i) == phase = "up" /\ pos \in DOMAIN chain /\ chain[pos] = i

(* HandleError with PanicErrorHandler.ErrorToGRPCStatus: cancellation is   *)
(* no error; an application error is converted and not reported, unless a  *)
(* status is joined to it; a status is forwarded; the rest is Internal and *)
(* reported.                                                               *)
HandleError ==
  /\ Up("error") /\ out.kind = "error"
  /\ LET e == [out EXCEPT !.wrapped = TRUE]
     IN CASE Dropped(e) -> Return(Nil, 0)
          [] ~Dropped(e) /\ Is(e, "app") ->
               Return(IF Is(e, "status") THEN StatusErr(FromError(e))
                      ELSE AppStatus(As(e, "app").type, Code(As(e, "app").type)), 0)
          [] ~Dropped(e) /\ ~Is(e, "app") /\ Is(e, "status") ->
               Return(StatusErr(isGRPCStatus(e)), 0)
          [] OTHER -> Return(Internal, 1)

(* Mutant of Reportable: a recovered panic is not reported. *)
NotPanic(type) == type = "internal-error"

Reportable(type) == type \in {"panic", "internal-error"}

(* errorHandlerUnaryServerInterceptor. *)
ErrorInterceptor ==
  /\ Up("errors") /\ out.kind = "error"
  /\ CASE Dropped(out) -> Return(Nil, 0)
       [] ~Dropped(out) /\ Is(out, "status") -> Return(StatusErr(isGRPCStatus(out)), 0)
       [] ~Dropped(out) /\ ~Is(out, "status") /\ Is(out, "app") ->
            LET t == As(out, "app").type
            IN Return(AppStatus(t, IF t = "panic" THEN "Internal" ELSE Code(t)),
                      IF Reportable(t) THEN 1 ELSE 0)
       [] OTHER -> Return(Internal, 1)

(* newRecoveryFunc reports the panic and answers Internal. *)
RecoverPanic == Up("panic") /\ out.kind = "panic" /\ Return(Internal, 1)

(* The recovery of NewSimpleServer makes an application error of it. *)
RecoverSimple == Up("recovery") /\ out.kind = "panic" /\ Return(Err(<<App("panic")>>, FALSE), 0)

(* The debug interceptor logs, the monitor measures; both return what the  *)
(* next handler returned.                                                  *)
Debug == Up("debug") /\ Return(out, 0)
Monitor == Up("monitor") /\ Return(out, 0)

Recovers == {"panic", "recovery"}
Converts == {"error", "errors"}

PassBack ==
  /\ phase = "up" /\ pos \in DOMAIN chain
  /\ (chain[pos] \in Converts) => out.kind # "error"
  /\ (chain[pos] \in Recovers) => out.kind # "panic"
  /\ chain[pos] \notin {"debug", "monitor"}
  /\ Return(out, 0)

-----------------------------------------------------------------------------
(* grpc-go (external): a panic ends the process; a nil response is encoded *)
(* as an empty message, and a nil error is OK; an error that is no status  *)
(* becomes one.                                                            *)
Respond ==
  /\ phase = "up" /\ pos = 0
  /\ phase' = IF out.kind = "panic" THEN "crashed" ELSE "sent"
  /\ out' = CASE out.kind = "nil" -> OK
              [] out.kind = "error" /\ Is(out, "status") -> FromError(out)
              [] out.kind = "error" /\ ~Is(out, "status") ->
                   Status(IF Is(out, "canceled") THEN "Canceled" ELSE "Unknown", "text", FALSE)
              [] OTHER -> out
  /\ UNCHANGED <<opts, chain, pos, ctxVars, result, reports, seen>>

(* UnmarshalErrorUnaryClientInterceptor: a status with an ErrorResponse is *)
(* an application error, whose type is the status message.                 *)
Unmarshal ==
  /\ phase = "sent"
  /\ phase' = "done"
  /\ seen' = IF out.kind = "status" /\ out.details THEN App(out.msg) ELSE out
  /\ UNCHANGED <<opts, chain, pos, ctxVars, result, out, reports>>

Configure ==
  \/ \E f \in Flags : WithFlag(f)
  \/ \E i \in Interceptors : WithUnaryServerInterceptor(i)
  \/ NewSimpleServer \/ NewServer

Next ==
  \/ Configure
  \/ PassRequestID \/ ContextPropagation \/ Authorize \/ UserInterceptor \/ PassThrough
  \/ \E r \in HandlerErrors \cup {OK, Panic} : Handle(r)
  \/ HandleError \/ ErrorInterceptor \/ RecoverPanic \/ RecoverSimple
  \/ Debug \/ Monitor \/ PassBack \/ Respond \/ Unmarshal

Spec == Init /\ [][Next]_vars

-----------------------------------------------------------------------------
In(i) == \E p \in DOMAIN chain : chain[p] = i
Converting == In("error") \/ In("errors")
Canceled == result.kind = "error" /\ Is(result, "canceled")
Before(i, j) == \E p, q \in DOMAIN chain : p < q /\ chain[p] = i /\ chain[q] = j

(* An application error that the handler returns alone reaches the caller  *)
(* with its type, however many interceptors convert or forward it.         *)
ErrorsKeepTheirType ==
  phase = "done" /\ result.kind = "error" /\ Converting =>
    \A t \in {"invalid", "conflict", "internal-error"} :
      result.leaves = <<App(t)>> => seen = App(t)

(* A failure of the handler is reported once, by whichever interceptor     *)
(* sees it first: an unknown error, and a panic where one recovers it.     *)
FailuresReportedOnce ==
  phase = "done" /\ Converting =>
    /\ reports <= 1
    /\ result.kind = "error" /\ result.leaves = <<[kind |-> "plain"]>> => reports = 1
    /\ result = Panic => reports = 1

(* With the panic handler, or in the simple server, no panic ends the      *)
(* process, wherever in the chain it starts.                               *)
PanicsAreRecovered == In("panic") \/ opts.interceptors = Simple => phase # "crashed"

(* The caller sees a success exactly if the handler succeeded, or if it    *)
(* returned an error that is or joins context.Canceled and an interceptor  *)
(* converts errors: both converters return a nil error for it, wherever    *)
(* they are on the chain.  No other error is dropped.                      *)
ErrorsSurface ==
  phase = "done" => (seen = OK <=> result = OK \/ (Canceled /\ Converting))

(* Behind the auth interceptor the handler of a restricted method runs     *)
(* only for a user with a role of the method, who is in its context.       *)
AuthorizedHandler ==
  result # Pending /\ In("auth") /\ call.method \in DOMAIN AuthRoles =>
    user = call.role /\ user \in AuthRoles[call.method]

(* "takes the incoming request-id and sets it as the outgoing request id": *)
(* a service called with the outgoing context finds just one request id,   *)
(* but for an interceptor that runs inside WithContextPropagation, which   *)
(* appends a second one (GetRequestIDFromCtx refuses any number but one).  *)
RequestIDPassedOn ==
  result # Pending /\ In("requestid") /\ call.ids = 1 =>
    outgoing = IF Before("propagation", "requestid") THEN 2 ELSE 1
=============================================================================
