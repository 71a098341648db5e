----------------------------- MODULE HTTPChain ------------------------------
(***************************************************************************)
(* One HTTP request through the middlewares of http/router and sentry to a *)
(* handler that answers its errors with http.HandleError or with           *)
(* smartbear.ErrorHandler, and back: what the client, the request log and  *)
(* the error reporter are told.                                            *)
(*                                                                         *)
(* External: net/http (the first WriteHeader counts, a code outside        *)
(* 100..999 panics, a panic that nobody recovers aborts the connection) and*)
(* the wrapped writer of chi's request logger, which remembers the first   *)
(* code it is given, valid or not.  Status 0 is: nothing written.          *)
(***************************************************************************)
EXTENDS Integers, Sequences

CONSTANTS
  Middlewares,  \* a subset of {"requestid", "recoverer", "logger", "sentry"}
  Errors        \* what the handler may return: records of the kinds of errors
                \*   in the chain, code of an HTTPError, type of an application
                \*   error, and what a RequestError is about

VARIABLES
  chain,     \* the middlewares, outermost first
  pos,       \* where the request is
  phase,     \* "routes", "handler", "error", "up", "done"
  style,     \* "router": HandlerErrorFunc; "smartbear": WriteErrorResponse
  err,       \* the error to answer, or NoError
  panic,     \* a panic is unwinding the stack
  panicked,  \* the handler panicked
  wrote,     \* the handler had written a response
  ww,        \* the code that chi's wrapped writer has
  sent,      \* the status sent
  logged,    \* the status of "request complete", or -2
  captured,  \* Sentry has the panic
  reporting, reports  \* reports started with go; those made

vars == <<chain, pos, phase, style, err, panic, panicked, wrote, ww, sent, logged, captured,
          reporting, reports>>

NoError == [kinds |-> {}, code |-> 0, type |-> "none", about |-> "none"]
NotLogged == -2

Init ==
  /\ chain = <<>> /\ pos = 0 /\ phase = "routes" /\ style \in {"router", "smartbear"}
  /\ err = NoError /\ panic = FALSE /\ panicked = FALSE /\ wrote = FALSE
  /\ ww = 0 /\ sent = 0
  /\ logged = NotLogged /\ captured = FALSE /\ reporting = 0 /\ reports = 0

Has(m) == \E p \in DOMAIN chain : chain[p] = m

(* Router.Use, and the order of NewDefaultRouter. *)
Use(m) ==
  /\ phase = "routes" /\ ~Has(m)
  /\ chain' = Append(chain, m)
  /\ UNCHANGED <<pos, phase, style, err, panic, panicked, wrote, ww, sent, logged, captured,
                 reporting, reports>>

ServeHTTP ==
  /\ phase = "routes"
  /\ phase' = "handler" /\ pos' = Len(chain) + 1
  /\ UNCHANGED <<chain, style, err, panic, panicked, wrote, ww, sent, logged, captured,
                 reporting, reports>>

-----------------------------------------------------------------------------
Outside(m) == \E p \in DOMAIN chain : p < pos /\ chain[p] = m

First(old, code) == IF old = 0 THEN code ELSE old

Valid(code) == code \in 100 .. 999

(* WriteHeader(code) and a body, on the writer of the current position. *)
Write(code) ==
  LET wrapped == Outside("logger")
      through == ~wrapped \/ ww = 0
      bad == through /\ sent = 0 /\ ~Valid(code)
  IN /\ ww' = IF wrapped /\ ww = 0 THEN code ELSE ww
     /\ sent' = IF bad THEN sent
                ELSE First(sent, IF through THEN code ELSE 200)
     /\ panic' = bad

(* The handler writes a response, and may still fail after that. *)
HandlerWrites ==
  /\ phase = "handler" /\ ~wrote
  /\ Write(200) /\ wrote' = TRUE
  /\ UNCHANGED <<chain, pos, phase, style, err, panicked, logged, captured, reporting, reports>>

HandlerReturns(e) ==
  /\ phase = "handler"
  /\ err' = e
  /\ phase' = IF e = NoError THEN "up" ELSE "error"
  /\ pos' = IF e = NoError THEN pos - 1 ELSE pos
  /\ UNCHANGED <<chain, style, panic, panicked, wrote, ww, sent, logged, captured, reporting, reports>>

HandlerPanics ==
  /\ phase = "handler"
  /\ panic' = TRUE /\ panicked' = TRUE
  /\ phase' = "up" /\ pos' = pos - 1
  /\ UNCHANGED <<chain, style, err, wrote, ww, sent, logged, captured, reporting, reports>>

(* http.HandleError.  If the body cannot be written it is called again and  *)
(* sends a second header, which does not count.                             *)
HandleError ==
  /\ phase = "error" /\ style = "router"
  /\ \/ "http" \in err.kinds /\ Write(err.code)
     \/ "http" \notin err.kinds /\ Write(500)
  /\ phase' = "up" /\ pos' = pos - 1
  /\ UNCHANGED <<chain, style, err, panicked, wrote, logged, captured, reporting, reports>>

(* Mutant of HTTPStatus: the default is the success of the zero value. *)
DefaultOK(type) == IF type = "internal-error" THEN 500 ELSE 200

HTTPStatus(type) ==
  CASE type = "invalid" -> 400
    [] type = "not-found" -> 404
    [] type = "unprocessable-content" -> 422
    [] type \in {"unauthorzied", "unauthenticated"} -> 401
    [] type = "conflict" -> 409
    [] type \in {"internal-error", "panic"} -> 500
    [] OTHER -> -1

(* WriteErrorResponse: the first case that matches, and handleOpenAPI3Err. *)
ProblemStatus(e) ==
  CASE e.kinds \cap {"time", "json"} # {} -> 400
    [] e.kinds \cap {"time", "json"} = {} /\ "request" \in e.kinds ->
         IF e.about \in {"parameter", "multi"} THEN 400 ELSE 500
    [] e.kinds \cap {"time", "json", "request"} = {} /\ "validation" \in e.kinds -> 400
    [] e.kinds \cap {"time", "json", "request", "validation"} = {} /\ "app" \in e.kinds ->
         HTTPStatus(e.type)
    [] OTHER -> 500

ReportIf(status) == IF status = 500 THEN 1 ELSE 0

(* A body that cannot be encoded or written is reported as well. *)
WriteErrorResponse ==
  /\ phase = "error" /\ style = "smartbear"
  /\ Write(ProblemStatus(err))
  /\ \E lost \in IF panic' THEN {0} ELSE {0, 1} :
       reporting' = ReportIf(ProblemStatus(err)) + lost
  /\ phase' = "up" /\ pos' = pos - 1
  /\ UNCHANGED <<chain, style, err, panicked, wrote, logged, captured, reports>>

(* go ErrorReporter.ReportError. *)
ReportError ==
  /\ reporting > 0
  /\ reporting' = reporting - 1 /\ reports' = reports + 1
  /\ UNCHANGED <<chain, pos, phase, style, err, panic, panicked, wrote, ww, sent, logged, captured>>

-----------------------------------------------------------------------------
Up(m) == phase = "up" /\ pos \in DOMAIN chain /\ chain[pos] = m /\ pos' = pos - 1

RecovererCode == 500

(* Recoverer: a panic is answered with an HTTPError. *)
Recoverer ==
  /\ Up("recoverer")
  /\ IF panic THEN Write(RecovererCode) ELSE UNCHANGED <<panic, ww, sent>>
  /\ UNCHANGED <<chain, phase, style, err, panicked, wrote, logged, captured, reporting, reports>>

(* sentry.Middleware: a panic is captured and not raised again. *)
Sentry ==
  /\ Up("sentry")
  /\ captured' = (captured \/ panic) /\ panic' = FALSE
  /\ UNCHANGED <<chain, phase, style, err, panicked, wrote, ww, sent, logged, reporting, reports>>

(* Mutant of Logger: a panic is logged with status 500. *)
LoggerPanic500 ==
  /\ Up("logger")
  /\ logged' = IF panic THEN 500 ELSE ww
  /\ UNCHANGED <<chain, phase, style, err, panic, panicked, wrote, ww, sent, captured, reporting, reports>>

(* The request logger logs what its writer has, also while a panic unwinds.*)
Logger ==
  /\ Up("logger")
  /\ logged' = ww
  /\ UNCHANGED <<chain, phase, style, err, panic, panicked, wrote, ww, sent, captured, reporting, reports>>

PassBack ==
  /\ Up("requestid")
  /\ UNCHANGED <<chain, phase, style, err, panic, panicked, wrote, ww, sent, logged, captured,
                 reporting, reports>>

(* net/http: an empty response is 200. *)
Finish ==
  /\ phase = "up" /\ pos = 0
  /\ phase' = "done"
  /\ sent' = IF sent = 0 /\ ~panic THEN 200 ELSE sent
  /\ UNCHANGED <<chain, pos, style, err, panic, panicked, wrote, ww, logged, captured, reporting, reports>>

Next ==
  \/ \E m \in Middlewares : Use(m)
  \/ ServeHTTP \/ HandlerWrites \/ HandlerPanics
  \/ \E e \in Errors \cup {NoError} : HandlerReturns(e)
  \/ HandleError \/ WriteErrorResponse \/ ReportError
  \/ Recoverer \/ Sentry \/ Logger \/ PassBack \/ Finish

Spec == Init /\ [][Next]_vars

-----------------------------------------------------------------------------
KnownType(e) == "app" \notin e.kinds \/ HTTPStatus(e.type) # -1
Before(a, b) == \E p, q \in DOMAIN chain : p < q /\ chain[p] = a /\ chain[q] = b

Recovered == panicked /\ Has("recoverer") /\ ~Before("recoverer", "sentry")

(* The status in the request log against the one sent, for errors of a     *)
(* type with a status: they are the same if anything was written inside    *)
(* the logger, by the handler, for its error, or by a Recoverer.  Else 0   *)
(* is logged: for an empty response, which is sent as 200; and for a panic *)
(* that is answered outside the logger with 500 (the default router),      *)
(* captured (200), or left to net/http, which closes the connection.       *)
LoggedStatus ==
  phase = "done" /\ logged # NotLogged /\ KnownType(err) =>
    IF wrote \/ err # NoError \/ (Recovered /\ Before("logger", "recoverer"))
    THEN logged = sent
    ELSE /\ logged = 0
         /\ sent = IF Recovered THEN 500 ELSE IF panicked /\ ~captured THEN 0 ELSE 200

(* A failure before anything was written is told to the client: an error   *)
(* is no success, whatever it wraps, if its type has a status, and a panic *)
(* behind the Recoverer is a 500, unless a sentry middleware inside it     *)
(* swallows the panic first.                                               *)
FailuresAreTold ==
  phase = "done" /\ ~wrote =>
    /\ err # NoError /\ KnownType(err) => sent >= 400
    /\ Recovered => sent = 500 /\ ~panic

(* "pair with chi's middleware.Recoverer (or an equivalent) if you also    *)
(* need a 500 response": with both on the chain, a panic is captured and   *)
(* answered with 500.                                                      *)
PairedWithRecoverer ==
  phase = "done" /\ panicked /\ ~wrote /\ Has("recoverer") /\ Has("sentry")
    => captured /\ sent = 500
=============================================================================
