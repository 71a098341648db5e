---------------------------- MODULE GRPCChainProofs ----------------------------
(***************************************************************************)
(* Proofs about GRPCChain: what the chain of interceptors does to the      *)
(* context and to the outcome of a call, for every set of options, every   *)
(* order of the application's interceptors and every error of the handler. *)
(***************************************************************************)
EXTENDS GRPCChain, FiniteSetTheorems, SequenceTheorems, TLAPS

(* The provers that a step is tried with, and how long each may take. *)
USE ZenonT(5), SMTT(30)

-----------------------------------------------------------------------------
(* The chain: each interceptor is on it once, the panic handler before      *)
(* those of the application, and the recovery of the simple server only in  *)
(* the simple server.                                                       *)
Distinct(s) == \A p, q \in DOMAIN s : s[p] = s[q] => p = q

Options ==
  /\ opts = [flags |-> opts.flags, interceptors |-> opts.interceptors]
  /\ opts.flags \subseteq Flags
  /\ \/ opts.interceptors = Simple /\ opts.flags = {}
     \/ opts.interceptors \in Seq(Known) /\ Distinct(opts.interceptors)

Shape ==
  /\ chain \in Seq(Known \cup Flags \cup {"recovery"}) /\ Distinct(chain)
  /\ \A p, q \in DOMAIN chain : chain[p] = "panic" /\ chain[q] = "user" => p < q
  /\ In("recovery") => chain = Simple
  /\ opts.interceptors = Simple => chain = Simple

Positions ==
  /\ phase \in {"options", "down", "up", "sent", "crashed", "done"}
  /\ phase # "options" => Shape
  /\ phase = "down" => pos \in 1 .. Len(chain) + 1
  /\ phase = "up" => pos \in 0 .. Len(chain)

-----------------------------------------------------------------------------
(* The context on the way down. *)
Allowed == user = call.role /\ user \in AuthRoles[call.method]
Restricted == call.method \in DOMAIN AuthRoles
Passed(n) == \E q \in DOMAIN chain : q < n /\ chain[q] = "propagation"

(* One id came in.  The propagation sets it; the request id interceptor     *)
(* adds it, to what a propagation outside has set.                          *)
Counted ==
  \A p \in DOMAIN chain : chain[p] = "requestid" =>
    outgoing = IF p < pos THEN IF Passed(p) THEN 2 ELSE 1
                          ELSE IF Passed(pos) THEN 1 ELSE 0

Context ==
  /\ phase = "options" => outgoing = 0
  /\ phase = "down" =>
       /\ \A p \in DOMAIN chain : p < pos /\ chain[p] = "auth" /\ Restricted => Allowed
       /\ call.ids = 1 => Counted
  /\ phase \in {"options", "down"} => result = Pending
  /\ result # Pending => AuthorizedHandler /\ RequestIDPassedOn

-----------------------------------------------------------------------------
(* The outcome on the way up. *)
Types == {"invalid", "conflict", "internal-error"}
Plain == [kind |-> "plain"]
ResultIs(l) == result.kind = "error" /\ result.leaves = <<l>>

(* An error whose only leaf is a status. *)
Cold(e) == e.kind = "error" /\ Len(e.leaves) = 1 /\ e.leaves[1].kind = "status"
Typed(s, t) == s.msg = t /\ s.details = TRUE

(* The handler's error, below every converter. *)
Untouched(o, p) == o = result /\ \A q \in DOMAIN chain : chain[q] \in Converts => q <= p

(* A success stays one, and a cancelled call becomes one at a converter. *)
Success(o, p) ==
  /\ result = OK => o = OK
  /\ o = Nil => Converting
  /\ Canceled => o = Nil \/ Untouched(o, p)

(* The outcome o with r reports at position p: success is the handler's,    *)
(* only a cancellation is dropped, a panic is below every recovery, what    *)
(* was reported is a status, and what the handler failed with is there to   *)
(* be converted or reported, or has been.                                   *)
Going(o, r, p) ==
  /\ o \in {OK, Nil, Panic} \/ (o.kind = "error" /\ IsErr(o))
  /\ o = OK => result = OK
  /\ Success(o, p)
  /\ o = Nil \/ (o.kind = "error" /\ Is(o, "canceled")) => Canceled
  /\ o = Panic => r = 0 /\ \A q \in DOMAIN chain : chain[q] \in Recovers => q <= p
  /\ r = 0 \/ (r = 1 /\ Cold(o))
  /\ \A t \in Types : ResultIs(App(t)) =>
       Untouched(o, p) \/ (Cold(o) /\ o.wrapped = FALSE /\ Typed(o.leaves[1], t))
  /\ ResultIs(Plain) => Untouched(o, p) \/ r = 1
  /\ result = Panic =>
       \/ o = Panic \/ r = 1
       \/ o = Err(<<App("panic")>>, FALSE) /\ chain = Simple /\ p = 2

Upward == Going(out, reports, pos)

(* What the client gets. *)
Sent ==
  /\ out = OK \/ StatusRec(out)
  /\ out = OK <=> result = OK \/ (Canceled /\ Converting)
  /\ reports \in {0, 1}
  /\ Converting => \A t \in Types : ResultIs(App(t)) => out.kind = "status" /\ Typed(out, t)
  /\ Converting /\ ResultIs(Plain) => reports = 1
  /\ result = Panic => reports = 1

Outcome ==
  /\ result \in {Pending, OK, Panic} \/ (result.kind = "error" /\ IsErr(result))
  /\ phase \in {"options", "down"} => out = Pending /\ reports = 0
  /\ phase = "up" => Upward
  /\ phase = "crashed" =>
       out = Panic /\ \A p \in DOMAIN chain : chain[p] \notin Recovers
  /\ phase \in {"sent", "done"} => Sent
  /\ phase # "done" => seen = Pending
  /\ phase = "done" =>
       seen = IF out.kind = "status" /\ out.details THEN App(out.msg) ELSE out

Inv == Options /\ Positions /\ Context /\ Outcome

-----------------------------------------------------------------------------
(* A set of numbers has a least one: of the intervals 1 .. n that end in    *)
(* the set there is a smallest.                                             *)
LEMMA Least ==
  ASSUME NEW D \in SUBSET Nat, D # {}
  PROVE  \E m \in D : \A n \in D : m <= n
<1> DEFINE T == {1 .. n : n \in D}
<1>1. T \subseteq FiniteSubsetsOf(Nat)
  <2>1. ASSUME NEW n \in D PROVE IsFiniteSet(1 .. n) /\ 1 .. n \subseteq Nat
    BY FS_Interval
  <2>2. QED
    BY <2>1 DEF FiniteSubsetsOf
<1>2. PICK x \in T : \A y \in T : ~(<<y, x>> \in StrictSubsetOrdering(Nat))
  <2>1. T # {}
    OBVIOUS
  <2> HIDE DEF T
  <2>2. QED
    BY <1>1, <2>1, WFMin, FS_StrictSubsetOrderingWellFounded
<1>3. PICK m \in D : x = 1 .. m
  OBVIOUS
<1>4. ASSUME NEW n \in D, n < m PROVE FALSE
  <2>1. 1 .. n \subseteq 1 .. m /\ m \in 1 .. m /\ m \notin 1 .. n
    BY <1>4
  <2>2. 1 .. n \in SUBSET Nat /\ 1 .. m \in SUBSET Nat
    OBVIOUS
  <2>3. <<1 .. n, 1 .. m>> \in StrictSubsetOrdering(Nat)
    BY <2>1, <2>2 DEF StrictSubsetOrdering
  <2>4. QED
    BY <1>2, <1>3, <2>3
<1>5. QED
  BY <1>4

(* errors.As finds an error of the kind, if there is one. *)
LEMMA AsFacts ==
  ASSUME NEW e, IsErr(e), NEW kind, Is(e, kind)
  PROVE  \E i \in 1 .. Len(e.leaves) : As(e, kind) = e.leaves[i] /\ e.leaves[i].kind = kind
<1> DEFINE D == {i \in 1 .. Len(e.leaves) : e.leaves[i].kind = kind}
<1>1. D \in SUBSET Nat /\ D # {} /\ DOMAIN e.leaves = 1 .. Len(e.leaves)
  BY DEF IsErr, Is
<1>2. PICK m \in D : \A n \in D : m <= n
  <2> HIDE DEF D
  <2> QED
    BY <1>1, Least
<1>3. /\ m \in DOMAIN e.leaves /\ e.leaves[m].kind = kind
      /\ \A j \in 1 .. m - 1 : e.leaves[j].kind # kind
  BY <1>1, <1>2 DEF IsErr
<1>4. QED
  BY <1>1, <1>3 DEF As

(* An error with one leaf is of its kind and of no other. *)
LEMMA OneLeaf ==
  ASSUME NEW e, IsErr(e), Len(e.leaves) = 1
  PROVE  /\ \A kind : Is(e, kind) <=> e.leaves[1].kind = kind
         /\ \A kind : e.leaves[1].kind = kind => As(e, kind) = e.leaves[1]
<1>1. DOMAIN e.leaves = {1}
  BY DEF IsErr
<1>2. \A kind : Is(e, kind) <=> e.leaves[1].kind = kind
  BY <1>1 DEF Is
<1>3. ASSUME NEW kind, e.leaves[1].kind = kind PROVE As(e, kind) = e.leaves[1]
  BY <1>2, <1>3, AsFacts
<1>4. QED
  BY <1>2, <1>3

(* Wrapping changes no leaf. *)
LEMMA Wrapped ==
  ASSUME NEW e, IsErr(e), NEW w \in BOOLEAN
  PROVE  LET f == [e EXCEPT !.wrapped = w]
         IN /\ IsErr(f) /\ f.leaves = e.leaves /\ f.wrapped = w
            /\ \A kind : Is(f, kind) <=> Is(e, kind)
<1> DEFINE f == [e EXCEPT !.wrapped = w]
<1>1. f = Err(e.leaves, w)
  BY DEF IsErr, Err
<1>2. f.leaves = e.leaves /\ f.wrapped = w
  BY <1>1 DEF Err
<1> HIDE DEF f
<1>3. QED
  BY <1>1, <1>2 DEF IsErr, Is, f

LEMMA StatusErrFacts ==
  ASSUME NEW s, StatusRec(s)
  PROVE  /\ IsErr(StatusErr(s)) /\ Cold(StatusErr(s)) /\ ~Is(StatusErr(s), "canceled")
         /\ StatusErr(s).leaves[1] = s /\ StatusErr(s).wrapped = FALSE
<1> DEFINE e == StatusErr(s)
           ls == <<s>>
<1>1. e = Err(ls, FALSE) /\ e.leaves = ls /\ e.kind = "error" /\ e.wrapped = FALSE
  BY DEF StatusErr, Err
<1>2. Len(ls) = 1 /\ DOMAIN ls = 1 .. 1 /\ ls[1] = s
  OBVIOUS
<1>3. Leaf(s) /\ s.kind = "status"
  BY DEF Leaf, StatusRec
<1> HIDE DEF e, ls
<1>4. IsErr(e)
  <2>1. e = Err(e.leaves, e.wrapped) /\ e.wrapped \in BOOLEAN
    BY <1>1
  <2>2. /\ Len(e.leaves) \in Nat \ {0} /\ DOMAIN e.leaves = 1 .. Len(e.leaves)
        /\ \A i \in 1 .. Len(e.leaves) : e.leaves[i] = s
    <3>1. e.leaves = ls
      BY <1>1
    <3>2. Len(e.leaves) = 1 /\ DOMAIN e.leaves = 1 .. 1 /\ e.leaves[1] = s
      BY <1>2, <3>1
    <3>3. \A i \in 1 .. 1 : i = 1
      OBVIOUS
    <3>4. 1 \in Nat \ {0}
      OBVIOUS
    <3>5. QED
      BY <3>2, <3>3, <3>4
  <2>3. QED
    BY <1>3, <2>1, <2>2 DEF IsErr
<1>5. Cold(e) /\ e.leaves[1] = s /\ e.leaves[1].kind # "canceled" /\ Len(e.leaves) = 1
  BY <1>1, <1>2, <1>3 DEF Cold
<1>6. ~Is(e, "canceled")
  BY <1>4, <1>5, OneLeaf
<1>7. QED
  BY <1>1, <1>4, <1>5, <1>6 DEF e

(* What status.FromError makes of an error with a status is a status, and   *)
(* the error's own if it is nothing else.                                   *)
LEMMA FromErrorFacts ==
  ASSUME NEW e, IsErr(e), Is(e, "status")
  PROVE  /\ StatusRec(FromError(e))
         /\ Len(e.leaves) = 1 /\ e.wrapped = FALSE => FromError(e) = e.leaves[1]
<1>1. PICK i \in 1 .. Len(e.leaves) :
        As(e, "status") = e.leaves[i] /\ e.leaves[i].kind = "status"
  BY AsFacts
<1> DEFINE s == As(e, "status")
<1>2. StatusRec(s)
  BY <1>1 DEF IsErr, Leaf
<1>3. StatusRec([s EXCEPT !.msg = "text"])
  <2>1. s = Status(s.code, s.msg, s.details) /\ s.details \in BOOLEAN
    BY <1>2 DEF StatusRec
  <2> HIDE DEF s
  <2>2. [s EXCEPT !.msg = "text"] = Status(s.code, "text", s.details)
    BY <2>1 DEF Status
  <2>3. QED
    BY <2>1, <2>2 DEF StatusRec, Status
<1>4. ASSUME Len(e.leaves) = 1, e.wrapped = FALSE PROVE FromError(e) = e.leaves[1]
  BY <1>1, <1>4, OneLeaf DEF FromError
<1>5. QED
  BY <1>2, <1>3, <1>4 DEF FromError

LEMMA IsGRPCStatusFacts ==
  ASSUME NEW e, IsErr(e), Is(e, "status")
  PROVE  /\ StatusRec(isGRPCStatus(e))
         /\ Len(e.leaves) = 1 => isGRPCStatus(e) = e.leaves[1]
<1> DEFINE f == [e EXCEPT !.wrapped = FALSE]
<1>1. IsErr(f) /\ f.leaves = e.leaves /\ f.wrapped = FALSE /\ Is(f, "status")
  BY Wrapped
<1>2. isGRPCStatus(e) = FromError(f)
  BY DEF isGRPCStatus
<1> HIDE DEF f
<1>3. QED
  BY <1>1, <1>2, FromErrorFacts

LEMMA AppStatusFacts ==
  ASSUME NEW t, NEW c
  PROVE  StatusRec(Status(c, t, TRUE)) /\ Typed(Status(c, t, TRUE), t)
BY DEF StatusRec, Status, Typed

LEMMA InternalFacts == StatusRec(Status("Internal", "text", FALSE))
BY DEF StatusRec, Status

-----------------------------------------------------------------------------
(* What a converter makes of the error that comes up to it: nothing of a    *)
(* cancellation, and a status of all else.                                  *)
Converted(o, n) ==
  /\ n \in {0, 1}
  /\ \/ o = Nil /\ n = 0 /\ Is(out, "canceled")
     \/ /\ ~Is(out, "canceled")
        /\ o.kind = "error" /\ IsErr(o) /\ Cold(o) /\ ~Is(o, "canceled") /\ o.wrapped = FALSE
        /\ Cold(out) => n = 0 /\ o.leaves[1] = out.leaves[1]
        /\ \A t \in Types : out.leaves = <<App(t)>> => Typed(o.leaves[1], t)
        /\ out.leaves = <<Plain>> => n = 1

(* The errors that the properties are about have one leaf. *)
LEMMA KnownLeaves ==
  ASSUME NEW e, IsErr(e)
  PROVE  /\ Cold(e) => Is(e, "status") /\ ~Is(e, "app") /\ ~Is(e, "canceled")
         /\ \A t : e.leaves = <<App(t)>> =>
              /\ Is(e, "app") /\ ~Is(e, "status") /\ ~Is(e, "canceled") /\ ~Cold(e)
              /\ As(e, "app").type = t
         /\ e.leaves = <<Plain>> =>
              ~Is(e, "app") /\ ~Is(e, "status") /\ ~Is(e, "canceled") /\ ~Cold(e)
<1>1. ASSUME Cold(e) PROVE Is(e, "status") /\ ~Is(e, "app") /\ ~Is(e, "canceled")
  BY <1>1, OneLeaf DEF Cold
<1>2. ASSUME NEW t, e.leaves = <<App(t)>>
      PROVE  /\ Is(e, "app") /\ ~Is(e, "status") /\ ~Is(e, "canceled") /\ ~Cold(e)
             /\ As(e, "app").type = t
  <2>1. Len(e.leaves) = 1 /\ e.leaves[1] = App(t)
    BY <1>2
  <2>2. App(t).kind = "app" /\ App(t).type = t
    BY DEF App
  <2>3. QED
    BY <2>1, <2>2, OneLeaf DEF Cold
<1>3. ASSUME e.leaves = <<Plain>>
      PROVE  ~Is(e, "app") /\ ~Is(e, "status") /\ ~Is(e, "canceled") /\ ~Cold(e)
  <2>1. Len(e.leaves) = 1 /\ e.leaves[1] = Plain
    BY <1>3
  <2>2. Plain.kind = "plain"
    BY DEF Plain
  <2>3. QED
    BY <2>1, <2>2, OneLeaf DEF Cold
<1>4. QED
  BY <1>1, <1>2, <1>3

(* A conversion to the status s, with n reports. *)
LEMMA ToStatus ==
  ASSUME IsErr(out), NEW s, StatusRec(s), NEW n \in {0, 1}, ~Is(out, "canceled"),
         Cold(out) => n = 0 /\ s = out.leaves[1],
         \A t \in Types : out.leaves = <<App(t)>> => Typed(s, t),
         out.leaves = <<Plain>> => n = 1
  PROVE  Converted(StatusErr(s), n)
<1>1. StatusErr(s).kind = "error"
  BY DEF StatusErr, Err
<1>2. QED
  BY <1>1, StatusErrFacts DEF Converted

LEMMA HandleErrorFacts ==
  ASSUME IsErr(out), HandleError
  PROVE  \E o, n : Return(o, n) /\ Converted(o, n)
<1> DEFINE e == [out EXCEPT !.wrapped = TRUE]
           done == \E o, n : Return(o, n) /\ Converted(o, n)
<1>1. /\ IsErr(e) /\ e.leaves = out.leaves /\ e.wrapped = TRUE
      /\ \A kind : Is(e, kind) <=> Is(out, kind)
  BY Wrapped
<1>2. /\ Is(e, "canceled") => Return(Nil, 0)
      /\ ~Is(e, "canceled") /\ Is(e, "app") /\ Is(e, "status") =>
           Return(StatusErr(FromError(e)), 0)
      /\ ~Is(e, "canceled") /\ Is(e, "app") /\ ~Is(e, "status") =>
           Return(AppStatus(As(e, "app").type, Code(As(e, "app").type)), 0)
      /\ ~Is(e, "canceled") /\ ~Is(e, "app") /\ Is(e, "status") =>
           Return(StatusErr(isGRPCStatus(e)), 0)
      /\ ~Is(e, "canceled") /\ ~Is(e, "app") /\ ~Is(e, "status") => Return(Internal, 1)
  <2> HIDE DEF e
  <2> QED
    BY DEF HandleError, Dropped, e
<1>3. /\ Cold(e) <=> Cold(out)
      /\ \A t : As(e, "app").type = t \/ e.leaves # <<App(t)>>
  BY <1>1, KnownLeaves DEF Cold, IsErr, Err
<1> HIDE DEF e
<1> SUFFICES done
  OBVIOUS
<1>4. CASE Is(e, "canceled")
  <2>1. Converted(Nil, 0)
    BY <1>1, <1>4 DEF Converted
  <2>2. QED
    BY <1>2, <1>4, <2>1
<1>5. CASE ~Is(e, "canceled") /\ Is(e, "app") /\ Is(e, "status")
  <2>1. Converted(StatusErr(FromError(e)), 0)
    BY <1>1, <1>3, <1>5, FromErrorFacts, KnownLeaves, ToStatus
  <2>2. QED
    BY <1>2, <1>5, <2>1
<1>6. CASE ~Is(e, "canceled") /\ Is(e, "app") /\ ~Is(e, "status")
  <2> DEFINE t == As(e, "app").type
  <2>1. Converted(StatusErr(Status(Code(t), t, TRUE)), 0)
    BY <1>1, <1>3, <1>6, AppStatusFacts, KnownLeaves, ToStatus
  <2>2. QED
    BY <1>2, <1>6, <2>1 DEF AppStatus
<1>7. CASE ~Is(e, "canceled") /\ ~Is(e, "app") /\ Is(e, "status")
  <2>1. Converted(StatusErr(isGRPCStatus(e)), 0)
    BY <1>1, <1>3, <1>7, IsGRPCStatusFacts, KnownLeaves, ToStatus DEF Cold
  <2>2. QED
    BY <1>2, <1>7, <2>1
<1>8. CASE ~Is(e, "canceled") /\ ~Is(e, "app") /\ ~Is(e, "status")
  <2>1. Converted(StatusErr(Status("Internal", "text", FALSE)), 1)
    BY <1>1, <1>3, <1>8, InternalFacts, KnownLeaves, ToStatus
  <2>2. QED
    BY <1>2, <1>8, <2>1 DEF Internal
<1>9. QED
  BY <1>4, <1>5, <1>6, <1>7, <1>8

LEMMA ErrorInterceptorFacts ==
  ASSUME IsErr(out), ErrorInterceptor
  PROVE  \E o, n : /\ Return(o, n) /\ Converted(o, n)
                   /\ out.leaves = <<App("panic")>> => n = 1
<1> DEFINE done == \E o, n : /\ Return(o, n) /\ Converted(o, n)
                             /\ out.leaves = <<App("panic")>> => n = 1
           t == As(out, "app").type
           code == IF t = "panic" THEN "Internal" ELSE Code(t)
           n == IF Reportable(t) THEN 1 ELSE 0
<1>1. /\ Is(out, "canceled") => Return(Nil, 0)
      /\ ~Is(out, "canceled") /\ Is(out, "status") => Return(StatusErr(isGRPCStatus(out)), 0)
      /\ ~Is(out, "canceled") /\ ~Is(out, "status") /\ Is(out, "app") =>
           Return(AppStatus(t, code), n)
      /\ ~Is(out, "canceled") /\ ~Is(out, "app") /\ ~Is(out, "status") => Return(Internal, 1)
  BY DEF ErrorInterceptor, Dropped
<1> SUFFICES done
  OBVIOUS
<1>2. CASE Is(out, "canceled")
  <2>1. Converted(Nil, 0)
    BY <1>2 DEF Converted
  <2>2. QED
    BY <1>1, <1>2, <2>1, KnownLeaves
<1>3. CASE ~Is(out, "canceled") /\ Is(out, "status")
  <2>1. Converted(StatusErr(isGRPCStatus(out)), 0)
    BY <1>3, IsGRPCStatusFacts, KnownLeaves, ToStatus DEF Cold
  <2>2. QED
    BY <1>1, <1>3, <2>1, KnownLeaves
<1>4. CASE ~Is(out, "canceled") /\ ~Is(out, "status") /\ Is(out, "app")
  <2>1. n \in {0, 1} /\ (out.leaves = <<App("panic")>> => n = 1)
    BY KnownLeaves DEF Reportable
  <2>2. /\ \A x \in Types : out.leaves = <<App(x)>> => t = x
        /\ ~Cold(out) /\ out.leaves # <<Plain>>
    BY <1>4, KnownLeaves, OneLeaf DEF Cold, Plain
  <2> HIDE DEF n, code, t
  <2>3. Converted(StatusErr(Status(code, t, TRUE)), n)
    BY <1>4, <2>1, <2>2, AppStatusFacts, ToStatus
  <2>4. QED
    BY <1>1, <1>4, <2>1, <2>3 DEF AppStatus
<1>5. CASE ~Is(out, "canceled") /\ ~Is(out, "app") /\ ~Is(out, "status")
  <2>1. Converted(StatusErr(Status("Internal", "text", FALSE)), 1)
    BY <1>5, InternalFacts, KnownLeaves, ToStatus
  <2>2. QED
    BY <1>1, <1>5, <2>1 DEF Internal
<1>6. QED
  BY <1>2, <1>3, <1>4, <1>5

-----------------------------------------------------------------------------
(* Two sequences without a common element, one after the other. *)
LEMMA ConcatFacts ==
  ASSUME NEW S, NEW T, S \cap T = {}, NEW s \in Seq(S), NEW t \in Seq(T),
         Distinct(s), Distinct(t)
  PROVE  /\ s \o t \in Seq(S \cup T) /\ Distinct(s \o t)
         /\ \A p \in DOMAIN (s \o t) :
              (s \o t)[p] \in S => p \in DOMAIN s /\ s[p] = (s \o t)[p]
         /\ \A p, q \in DOMAIN (s \o t) : (s \o t)[p] \in S /\ (s \o t)[q] \in T => p < q
<1> DEFINE u == s \o t
<1>1. s \in Seq(S \cup T) /\ t \in Seq(S \cup T)
  BY SeqMonotonic
<1>2. /\ u \in Seq(S \cup T) /\ Len(u) = Len(s) + Len(t)
      /\ \A p \in 1 .. Len(s) + Len(t) : u[p] = IF p <= Len(s) THEN s[p] ELSE t[p - Len(s)]
  BY <1>1, ConcatProperties
<1>3. /\ Len(s) \in Nat /\ Len(t) \in Nat /\ DOMAIN s = 1 .. Len(s) /\ DOMAIN t = 1 .. Len(t)
      /\ DOMAIN u = 1 .. Len(s) + Len(t)
  BY <1>2, LenProperties
<1> HIDE DEF u
<1>4. \A p \in DOMAIN u : \/ p \in DOMAIN s /\ u[p] = s[p] /\ u[p] \in S /\ u[p] \notin T
                          \/ /\ p > Len(s) /\ p - Len(s) \in DOMAIN t
                             /\ u[p] = t[p - Len(s)] /\ u[p] \in T /\ u[p] \notin S
  <2> TAKE p \in DOMAIN u
  <2>1. CASE p <= Len(s)
    <3>1. p \in DOMAIN s /\ u[p] = s[p]
      BY <1>2, <1>3, <2>1
    <3>2. QED
      BY <1>3, <3>1, ElementOfSeq
  <2>2. CASE ~(p <= Len(s))
    <3>1. p > Len(s) /\ p - Len(s) \in DOMAIN t /\ u[p] = t[p - Len(s)]
      BY <1>2, <1>3, <2>2
    <3>2. QED
      BY <1>3, <3>1, ElementOfSeq
  <2>3. QED
    BY <2>1, <2>2
<1>5. ASSUME NEW p \in DOMAIN u, NEW q \in DOMAIN u, u[p] = u[q] PROVE p = q
  <2>1. CASE u[p] \in S
    BY <1>4, <1>5, <2>1 DEF Distinct
  <2>2. CASE u[p] \notin S
    <3>1. /\ p - Len(s) \in DOMAIN t /\ q - Len(s) \in DOMAIN t
          /\ t[p - Len(s)] = t[q - Len(s)]
      BY <1>4, <1>5, <2>2
    <3>2. p - Len(s) = q - Len(s)
      BY <3>1 DEF Distinct
    <3>3. QED
      BY <1>3, <3>2
  <2>3. QED
    BY <2>1, <2>2
<1>6. \A p, q \in DOMAIN u : u[p] \in S /\ u[q] \in T => p < q
  BY <1>3, <1>4
<1>7. QED
  BY <1>2, <1>4, <1>5, <1>6 DEF u, Distinct

LEMMA IfFacts ==
  ASSUME NEW f PROVE If(f) \in Seq({f}) /\ Distinct(If(f))
<1>1. CASE f \in opts.flags
  <2>1. If(f) = <<f>>
    BY <1>1 DEF If
  <2>2. <<f>> \in Seq({f}) /\ \A p \in DOMAIN <<f>> : p = 1
    OBVIOUS
  <2>3. QED
    BY <2>1, <2>2 DEF Distinct
<1>2. CASE f \notin opts.flags
  <2>1. If(f) = <<>>
    BY <1>2 DEF If
  <2>2. <<>> \in Seq({f}) /\ DOMAIN <<>> = {}
    OBVIOUS
  <2>3. QED
    BY <2>1, <2>2 DEF Distinct
<1>3. QED
  BY <1>1, <1>2

(* newGRPCServer builds a chain of the shape above from any options. *)
LEMMA ChainedFacts ==
  ASSUME Options, chain' = Chained, opts' = opts
  PROVE  Shape'
<1> DEFINE F == {"debug"} \cup {"panic"}
           G == F \cup {"error"}
           H == G \cup Known
           I == H \cup {"monitor"}
           f == If("debug") \o If("panic")
           g == f \o If("error")
           h == g \o opts.interceptors
           c == h \o If("monitor")
<1>1. c = Chained
  BY DEF Chained
<1>2. CASE opts.interceptors = Simple /\ opts.flags = {}
  <2>1. If("debug") = <<>> /\ If("panic") = <<>> /\ If("error") = <<>> /\ If("monitor") = <<>>
    BY <1>2 DEF If
  <2>2. Simple \in Seq(Known \cup Flags \cup {"recovery"})
    BY DEF Simple, Known
  <2>3. f = <<>> /\ g = <<>> /\ h = Simple /\ c = Simple
    <3>1. f = <<>> /\ g = <<>>
      BY <2>1, <2>2, ConcatEmptySeq, EmptySeq
    <3>2. h = Simple
      BY <1>2, <2>2, <3>1, ConcatEmptySeq
    <3>3. c = Simple
      BY <2>1, <2>2, <3>2, ConcatEmptySeq
    <3>4. QED
      BY <3>1, <3>2, <3>3
  <2>4. chain' = Simple
    BY <1>1, <2>3
  <2>5. /\ Distinct(Simple)
        /\ \A p \in DOMAIN Simple : Simple[p] # "panic"
    BY DEF Distinct, Simple
  <2>6. QED
    BY <2>2, <2>4, <2>5 DEF Shape, Simple, Known, Flags, Distinct, In
<1>3. CASE opts.interceptors \in Seq(Known) /\ Distinct(opts.interceptors)
  <2>1. f \in Seq(F) /\ Distinct(f)
    <3>1. {"debug"} \cap {"panic"} = {}
      OBVIOUS
    <3>2. /\ If("debug") \in Seq({"debug"}) /\ Distinct(If("debug"))
          /\ If("panic") \in Seq({"panic"}) /\ Distinct(If("panic"))
      BY IfFacts
    <3>3. QED
      BY <3>1, <3>2, ConcatFacts
  <2>2. g \in Seq(G) /\ Distinct(g)
    <3>1. F \cap {"error"} = {}
      OBVIOUS
    <3>2. If("error") \in Seq({"error"}) /\ Distinct(If("error"))
      BY IfFacts
    <3> HIDE DEF f, F
    <3>3. QED
      BY <2>1, <3>1, <3>2, ConcatFacts
  <2>3. /\ h \in Seq(H) /\ Distinct(h)
        /\ \A p, q \in DOMAIN h : h[p] \in G /\ h[q] \in Known => p < q
    <3>1. G \cap Known = {}
      BY DEF Known
    <3> HIDE DEF g, G
    <3>2. QED
      BY <1>3, <2>2, <3>1, ConcatFacts
  <2>4. /\ c \in Seq(I) /\ Distinct(c)
        /\ \A p \in DOMAIN c : c[p] \in H => p \in DOMAIN h /\ h[p] = c[p]
    <3>1. H \cap {"monitor"} = {}
      BY DEF Known
    <3>2. If("monitor") \in Seq({"monitor"}) /\ Distinct(If("monitor"))
      BY IfFacts
    <3> HIDE DEF h, H
    <3>3. QED
      BY <2>3, <3>1, <3>2, ConcatFacts
  <2>5. ASSUME NEW p \in DOMAIN c, NEW q \in DOMAIN c, c[p] = "panic", c[q] = "user" PROVE p < q
    <3>1. "panic" \in G /\ "user" \in Known /\ "panic" \in H /\ "user" \in H
      BY DEF Known
    <3> HIDE DEF c, h, G, H
    <3>2. QED
      BY <2>3, <2>4, <2>5, <3>1
  <2>6. I = Known \cup Flags
    BY DEF Flags
  <2>7. /\ c \in Seq(Known \cup Flags \cup {"recovery"})
        /\ \A p \in DOMAIN c : c[p] # "recovery"
    <3>1. "recovery" \notin Known \cup Flags
      BY DEF Known, Flags
    <3> HIDE DEF c, I
    <3>2. c \in Seq(Known \cup Flags)
      BY <2>4, <2>6
    <3>3. QED
      BY <3>1, <3>2, SeqMonotonic, ElementOfSeq, LenProperties
  <2>8. opts.interceptors # Simple
    <3>1. "recovery" \notin Known
      BY DEF Known
    <3>2. Len(Simple) = 3 /\ Simple[3] = "recovery"
      BY DEF Simple
    <3> HIDE DEF c
    <3>3. ASSUME opts.interceptors = Simple PROVE Simple[3] \in Known
      <4>1. Simple \in Seq(Known) /\ 3 \in 1..Len(Simple)
        BY <1>3, <3>2, <3>3
      <4>2. QED
        BY <4>1, ElementOfSeq
    <3>4. QED
      BY <3>1, <3>2, <3>3
  <2> HIDE DEF c
  <2>9. QED
    BY <1>1, <2>4, <2>5, <2>7, <2>8 DEF Shape, In, Distinct
<1>4. QED
  BY <1>2, <1>3 DEF Options

-----------------------------------------------------------------------------
LEMMA Kinds ==
  /\ OK.kind = "ok" /\ Nil.kind = "nil" /\ Panic.kind = "panic" /\ Pending.kind = "pending"
  /\ OK # Nil /\ OK # Panic /\ Nil # Panic
  /\ OK # Pending /\ Nil # Pending /\ Panic # Pending
BY DEF OK, Nil, Panic, Pending

LEMMA InitInv == Init => Inv
<1> SUFFICES ASSUME Init PROVE Inv
  OBVIOUS
<1>1. Options
  BY DEF Init, Options, Distinct
<1>2. Positions
  BY DEF Init, Positions
<1>3. Context
  BY DEF Init, Context
<1>4. Outcome
  BY DEF Init, Outcome
<1>5. QED
  BY <1>1, <1>2, <1>3, <1>4 DEF Inv

(* Options only change before the server is made. *)
LEMMA OptionSteps ==
  ASSUME Usage, Inv,
         \/ \E f \in Flags : WithFlag(f)
         \/ \E i \in Interceptors : WithUnaryServerInterceptor(i)
         \/ NewSimpleServer
  PROVE  Inv'
<1>1. /\ phase = "options"
      /\ UNCHANGED <<chain, phase, pos, ctxVars, result, out, reports, seen>>
  BY DEF WithFlag, WithUnaryServerInterceptor, NewSimpleServer
<1>2. Options'
  <2>1. CASE \E f \in Flags : WithFlag(f)
    BY <2>1 DEF WithFlag, Inv, Options, Distinct
  <2>2. CASE \E i \in Interceptors : WithUnaryServerInterceptor(i)
    <3>1. PICK i \in Interceptors : WithUnaryServerInterceptor(i)
      BY <2>2
    <3>2. /\ opts.interceptors \in Seq(Known) /\ Distinct(opts.interceptors) /\ i \in Known
          /\ opts = [flags |-> opts.flags, interceptors |-> opts.interceptors]
          /\ opts.flags \subseteq Flags
      BY <3>1 DEF WithUnaryServerInterceptor, Inv, Options, Usage
    <3>3. opts' = [flags |-> opts.flags, interceptors |-> Append(opts.interceptors, i)]
      BY <3>1, <3>2 DEF WithUnaryServerInterceptor
    <3>4. \A k \in DOMAIN opts.interceptors : opts.interceptors[k] # i
      BY <3>1 DEF WithUnaryServerInterceptor
    <3> DEFINE s == opts.interceptors
    <3>5. Append(s, i) \in Seq(Known) /\ Distinct(Append(s, i))
      <4> HIDE DEF s
      <4> QED
        BY <3>2, <3>4 DEF Distinct, s
    <3>6. QED
      BY <3>2, <3>3, <3>5 DEF Options
  <2>3. CASE NewSimpleServer
    BY <2>3 DEF NewSimpleServer, Inv, Options
  <2>4. QED
    BY <2>1, <2>2, <2>3
<1>3. Positions'
  BY <1>1 DEF Inv, Positions
<1>4. Context'
  BY <1>1 DEF Inv, Context, ctxVars, Pending
<1>5. Outcome'
  BY <1>1 DEF Inv, Outcome, OK, Panic, Pending
<1>6. QED
  BY <1>2, <1>3, <1>4, <1>5 DEF Inv

LEMMA NewServerStep ==
  ASSUME Inv, NewServer
  PROVE  Inv'
<1>1. /\ phase = "options" /\ chain' = Chained /\ pos' = 1 /\ phase' = "down"
      /\ UNCHANGED <<opts, ctxVars, result, out, reports, seen>>
  BY DEF NewServer
<1>2. Options'
  BY <1>1 DEF Inv, Options, Distinct
<1>3. Shape'
  BY <1>1, ChainedFacts DEF Inv
<1>4. DOMAIN chain' = 1 .. Len(chain') /\ Len(chain') \in Nat
  BY <1>3 DEF Shape
<1>5. Positions'
  BY <1>1, <1>3, <1>4 DEF Positions
<1>6. Context'
  <2>1. \A p \in DOMAIN chain' : ~(p < pos')
    BY <1>1, <1>4
  <2>2. outgoing' = 0 /\ result' = Pending
    BY <1>1 DEF Inv, Context, ctxVars
  <2>3. Counted'
    BY <2>1, <2>2 DEF Counted, Passed
  <2>4. QED
    BY <1>1, <2>1, <2>2, <2>3 DEF Context, Pending
<1>7. Outcome'
  BY <1>1 DEF Inv, Outcome, OK, Panic, Pending
<1>8. QED
  BY <1>2, <1>5, <1>6, <1>7 DEF Inv

(* What an interceptor may do to the context that it hands on. *)
HandsOn(u, ids) ==
  /\ chain[pos] = "auth" /\ Restricted => u = call.role /\ u \in AuthRoles[call.method]
  /\ chain[pos] # "auth" => u = user
  /\ chain[pos] = "requestid" /\ call.ids = 1 => ids = outgoing + 1
  /\ chain[pos] = "propagation" => ids = call.ids
  /\ chain[pos] \notin {"requestid", "propagation"} => ids = outgoing

LEMMA DownStep ==
  ASSUME Inv, phase = "down", pos \in DOMAIN chain, NEW u, NEW ids,
         NextHandler(u, ids), HandsOn(u, ids)
  PROVE  Inv'
<1>1. /\ pos' = pos + 1 /\ user' = u /\ outgoing' = ids
      /\ UNCHANGED <<opts, chain, phase, call, result, out, reports, seen>>
  BY DEF NextHandler
<1>2. Options'
  BY <1>1 DEF Inv, Options, Distinct
<1>3. Shape /\ DOMAIN chain = 1 .. Len(chain) /\ Len(chain) \in Nat /\ Distinct(chain)
  BY DEF Inv, Positions, Shape
<1>4. Shape'
  BY <1>1, <1>3 DEF Shape, Distinct, In
<1>5. Positions'
  BY <1>1, <1>3, <1>4 DEF Positions
<1>6. result = Pending
  BY DEF Inv, Context
<1>7. ASSUME NEW p \in DOMAIN chain, p < pos', chain[p] = "auth", Restricted PROVE Allowed'
  <2>1. CASE p < pos
    <3>1. chain[pos] # "auth"
      BY <1>3, <1>7, <2>1 DEF Distinct
    <3>2. QED
      BY <1>1, <1>7, <2>1, <3>1 DEF Inv, Context, Allowed, HandsOn
  <2>2. CASE ~(p < pos)
    <3>1. p = pos
      BY <1>1, <1>3, <1>7, <2>2
    <3>2. QED
      BY <1>1, <1>7, <3>1 DEF Allowed, HandsOn
  <2>3. QED
    BY <2>1, <2>2
<1>8. ASSUME call.ids = 1, NEW p \in DOMAIN chain, chain[p] = "requestid"
      PROVE  outgoing' = IF p < pos + 1 THEN IF Passed(p) THEN 2 ELSE 1
                                        ELSE IF Passed(pos + 1) THEN 1 ELSE 0
  <2>1. outgoing = IF p < pos THEN IF Passed(p) THEN 2 ELSE 1
                              ELSE IF Passed(pos) THEN 1 ELSE 0
    BY <1>8 DEF Inv, Context, Counted
  <2>2. CASE chain[pos] = "requestid"
    <3>1. p = pos
      BY <1>3, <1>8, <2>2 DEF Distinct
    <3>2. ids = outgoing + 1
      BY <1>8, <2>2 DEF HandsOn
    <3>3. QED
      BY <1>1, <1>3, <2>1, <3>1, <3>2
  <2>3. CASE chain[pos] = "propagation"
    <3>1. ids = 1 /\ p # pos /\ p \in Nat /\ pos \in Nat
      BY <1>3, <1>8, <2>3 DEF HandsOn
    <3>2. Passed(pos + 1)
      BY <1>3, <2>3 DEF Passed
    <3>3. p < pos => ~Passed(p)
      BY <1>3, <2>3 DEF Passed, Distinct
    <3>4. QED
      BY <1>1, <3>1, <3>2, <3>3
  <2>4. CASE chain[pos] \notin {"requestid", "propagation"}
    <3>1. ids = outgoing /\ p # pos /\ p \in Nat /\ pos \in Nat
      BY <1>3, <1>8, <2>4 DEF HandsOn
    <3>2. Passed(pos + 1) <=> Passed(pos)
      BY <1>3, <2>4 DEF Passed
    <3>3. QED
      BY <1>1, <2>1, <3>1, <3>2
  <2>5. QED
    BY <2>2, <2>3, <2>4
<1>9. Context'
  <2>1. Restricted' = Restricted
    BY <1>1 DEF Restricted
  <2>2. call.ids = 1 => Counted'
    BY <1>1, <1>8 DEF Counted, Passed
  <2>3. QED
    BY <1>1, <1>6, <1>7, <2>1, <2>2 DEF Context, Pending
<1>10. Outcome'
  BY <1>1 DEF Inv, Outcome, OK, Panic, Pending
<1>11. QED
  BY <1>2, <1>5, <1>9, <1>10 DEF Inv

(* The request turns round at an interceptor. *)
LEMMA AnswerStep ==
  ASSUME Inv, phase = "down", pos \in DOMAIN chain, NEW o, Answer(o), Going(o, 0, pos - 1)
  PROVE  Inv'
<1>1. /\ phase' = "up" /\ out' = o /\ pos' = pos - 1
      /\ UNCHANGED <<opts, chain, ctxVars, result, reports, seen>>
  BY DEF Answer
<1>2. Options'
  BY <1>1 DEF Inv, Options, Distinct
<1>3. Shape /\ DOMAIN chain = 1 .. Len(chain) /\ Len(chain) \in Nat
  BY DEF Inv, Positions, Shape
<1>4. Shape'
  BY <1>1, <1>3 DEF Shape, Distinct, In
<1>5. Positions'
  BY <1>1, <1>3, <1>4 DEF Positions
<1>6. result = Pending /\ reports = 0
  BY DEF Inv, Context, Outcome
<1>7. Context'
  BY <1>1, <1>6 DEF Context, Pending
<1>8. Upward'
  <2>1. Success(o, pos - 1)
    BY DEF Going
  <2>2. Success(out, pos)'
    BY <1>1, <2>1 DEF Success, OK, Nil, Canceled, Converting, In, Untouched
  <2>3. QED
    BY <1>1, <1>6, <2>2 DEF Upward, Going, OK, Nil, Panic, Canceled, ResultIs, Untouched,
                            Types, App, Plain
<1>9. Outcome'
  BY <1>1, <1>6, <1>8 DEF Inv, Outcome, OK, Panic, Pending
<1>10. QED
  BY <1>2, <1>5, <1>7, <1>9 DEF Inv

LEMMA DownSteps ==
  ASSUME Inv,
         PassRequestID \/ ContextPropagation \/ Authorize \/ UserInterceptor \/ PassThrough
  PROVE  Inv'
<1>1. phase = "down" /\ pos \in DOMAIN chain
  BY DEF PassRequestID, ContextPropagation, Authorize, UserInterceptor, PassThrough, At
<1>2. Shape /\ DOMAIN chain = 1 .. Len(chain) /\ Len(chain) \in Nat /\ result = Pending
  BY <1>1 DEF Inv, Positions, Shape, Context
<1>3. CASE PassRequestID
  <2> DEFINE ids == IF call.ids = 1 THEN outgoing + 1 ELSE outgoing
  <2>1. NextHandler(user, ids) /\ HandsOn(user, ids)
    BY <1>3 DEF PassRequestID, At, HandsOn
  <2>2. QED
    BY <1>1, <2>1, DownStep
<1>4. CASE ContextPropagation
  <2>1. NextHandler(user, call.ids) /\ HandsOn(user, call.ids)
    BY <1>4 DEF ContextPropagation, At, HandsOn
  <2>2. QED
    BY <1>1, <2>1, DownStep
<1>5. CASE Authorize /\ (Restricted => MayCall(call.role, call.method))
  <2>1. CASE Restricted
    <3>1. NextHandler(call.role, outgoing) /\ HandsOn(call.role, outgoing)
      BY <1>5, <2>1 DEF Authorize, At, HandsOn, Restricted, MayCall
    <3>2. QED
      BY <1>1, <3>1, DownStep
  <2>2. CASE ~Restricted
    <3>1. NextHandler(user, outgoing) /\ HandsOn(user, outgoing)
      BY <1>5, <2>2 DEF Authorize, At, HandsOn, Restricted
    <3>2. QED
      BY <1>1, <3>1, DownStep
  <2>3. QED
    BY <2>1, <2>2
<1>6. CASE Authorize /\ Restricted /\ ~MayCall(call.role, call.method)
  <2> DEFINE st == Status("Unauthenticated", "text", FALSE)
  <2>1. Answer(StatusErr(st))
    BY <1>6 DEF Authorize, Restricted, StatusErr
  <2>2. StatusRec(st)
    BY DEF StatusRec, Status
  <2>3. /\ IsErr(StatusErr(st)) /\ ~Is(StatusErr(st), "canceled")
        /\ StatusErr(st).kind = "error"
    BY <2>2, StatusErrFacts DEF Cold
  <2> HIDE DEF st
  <2>4. Going(StatusErr(st), 0, pos - 1)
    BY <1>2, <2>3, Kinds DEF Going, ResultIs, Success, Canceled
  <2>5. QED
    BY <1>1, <2>1, <2>4, AnswerStep
<1>7. CASE UserInterceptor /\ NextHandler(user, outgoing)
  <2>1. HandsOn(user, outgoing)
    BY <1>7 DEF UserInterceptor, At, HandsOn
  <2>2. QED
    BY <1>1, <1>7, <2>1, DownStep
<1>8. CASE UserInterceptor /\ Answer(Panic)
  <2>1. chain[pos] = "user"
    BY <1>8 DEF UserInterceptor, At
  <2>2. ASSUME NEW q \in DOMAIN chain, chain[q] \in Recovers PROVE q <= pos - 1
    <3>1. CASE chain[q] = "panic"
      BY <1>1, <1>2, <2>1, <3>1 DEF Shape
    <3>2. CASE chain[q] = "recovery"
      <4>1. chain = Simple
        BY <1>2, <3>2 DEF Shape, In
      <4>2. \A p \in DOMAIN Simple : Simple[p] # "user"
        BY DEF Simple
      <4>3. QED
        BY <1>1, <2>1, <4>1, <4>2
    <3>3. QED
      BY <2>2, <3>1, <3>2 DEF Recovers
  <2>3. Going(Panic, 0, pos - 1)
    BY <1>2, <2>2, Kinds DEF Going, ResultIs, Success, Canceled
  <2>4. QED
    BY <1>1, <1>8, <2>3, AnswerStep
<1>9. CASE PassThrough
  <2>1. NextHandler(user, outgoing) /\ HandsOn(user, outgoing)
    BY <1>9 DEF PassThrough, At, HandsOn, Flags
  <2>2. QED
    BY <1>1, <2>1, DownStep
<1>10. QED
  BY <1>3, <1>4, <1>5, <1>6, <1>7, <1>8, <1>9 DEF UserInterceptor

(* The handler: behind every interceptor. *)
LEMMA HandleStep ==
  ASSUME Usage, Inv, NEW r \in HandlerErrors \cup {OK, Panic}, Handle(r)
  PROVE  Inv'
<1>1. /\ phase = "down" /\ pos = Len(chain) + 1 /\ phase' = "up" /\ pos' = Len(chain)
      /\ result' = r /\ out' = r /\ UNCHANGED <<opts, chain, ctxVars, reports, seen>>
  BY DEF Handle
<1>2. Options'
  BY <1>1 DEF Inv, Options, Distinct
<1>3. Shape /\ DOMAIN chain = 1 .. Len(chain) /\ Len(chain) \in Nat
  BY <1>1 DEF Inv, Positions, Shape
<1>4. Shape'
  BY <1>1, <1>3 DEF Shape, Distinct, In
<1>5. Positions'
  BY <1>1, <1>3, <1>4 DEF Positions
<1>6. AuthorizedHandler' /\ RequestIDPassedOn'
  <2>1. In("auth") /\ Restricted => Allowed
    BY <1>1, <1>3 DEF Inv, Context, In
  <2>2. AuthorizedHandler'
    BY <1>1, <2>1 DEF AuthorizedHandler, In, Restricted, Allowed, ctxVars
  <2>3. ASSUME call.ids = 1, NEW p \in DOMAIN chain, chain[p] = "requestid"
        PROVE  outgoing = IF Before("propagation", "requestid") THEN 2 ELSE 1
    <3>1. p < pos
      BY <1>1, <1>3
    <3>2. outgoing = IF Passed(p) THEN 2 ELSE 1
      BY <1>1, <2>3, <3>1 DEF Inv, Context, Counted
    <3>3. Before("propagation", "requestid") <=> Passed(p)
      BY <1>3, <2>3 DEF Before, Passed, Shape, Distinct
    <3>4. QED
      BY <3>2, <3>3
  <2>4. RequestIDPassedOn'
    BY <1>1, <2>3 DEF RequestIDPassedOn, In, Before, ctxVars
  <2>5. QED
    BY <2>2, <2>4
<1>7. Context'
  BY <1>1, <1>6 DEF Context
<1>8. r \in {OK, Panic} \/ (r.kind = "error" /\ IsErr(r))
  BY DEF Usage, IsErr, Err
<1>9. reports = 0 /\ seen = Pending
  BY <1>1 DEF Inv, Outcome
<1>10. Upward'
  <2>1. \A q \in DOMAIN chain : q <= Len(chain)
    BY <1>3
  <2>2. Untouched(out, pos)'
    BY <1>1, <2>1 DEF Untouched
  <2>3. Success(out, pos)'
    BY <1>1, <1>8, <2>2, Kinds DEF Success, OK, Nil
  <2>4. QED
    BY <1>1, <1>8, <1>9, <2>1, <2>2, <2>3, Kinds DEF Upward, Going, Canceled, ResultIs
<1>11. Outcome'
  BY <1>1, <1>8, <1>9, <1>10 DEF Outcome, OK, Panic, Pending
<1>12. QED
  BY <1>2, <1>5, <1>7, <1>11 DEF Inv

-----------------------------------------------------------------------------
(* An interceptor returns. *)
LEMMA Ascend ==
  ASSUME Inv, phase = "up", pos \in DOMAIN chain, NEW o, NEW n, Return(o, n),
         Going(o, reports + n, pos - 1)
  PROVE  Inv'
<1>1. /\ out' = o /\ reports' = reports + n /\ pos' = pos - 1
      /\ UNCHANGED <<opts, chain, phase, ctxVars, result, seen>>
  BY DEF Return
<1>2. Options'
  BY <1>1 DEF Inv, Options, Distinct
<1>3. Shape /\ DOMAIN chain = 1 .. Len(chain) /\ Len(chain) \in Nat
  BY DEF Inv, Positions, Shape
<1>4. Shape'
  BY <1>1, <1>3 DEF Shape, Distinct, In
<1>5. Positions'
  BY <1>1, <1>3, <1>4 DEF Positions
<1>6. Context'
  BY <1>1 DEF Inv, Context, ctxVars, AuthorizedHandler, RequestIDPassedOn, In, Before, Pending
<1>7. Upward'
  <2>1. Success(o, pos - 1)
    BY DEF Going
  <2>2. Success(out, pos)'
    BY <1>1, <2>1 DEF Success, OK, Nil, Canceled, Converting, In, Untouched
  <2>3. QED
    BY <1>1, <2>2 DEF Upward, Going, OK, Nil, Panic, Canceled, ResultIs, Untouched, Types,
                      App, Plain
<1>8. Outcome'
  BY <1>1, <1>7 DEF Inv, Outcome, OK, Panic, Pending
<1>9. QED
  BY <1>2, <1>5, <1>6, <1>8 DEF Inv

LEMMA UpFacts ==
  ASSUME Inv, phase = "up"
  PROVE  /\ Going(out, reports, pos) /\ reports \in {0, 1}
         /\ DOMAIN chain = 1 .. Len(chain) /\ Len(chain) \in Nat /\ Shape
         /\ out.kind = "error" => IsErr(out)
         /\ out.kind = "panic" => out = Panic
<1>1. Going(out, reports, pos)
  BY DEF Inv, Outcome, Upward
<1>2. out \in {OK, Nil, Panic} \/ (out.kind = "error" /\ IsErr(out))
  BY <1>1 DEF Going
<1>3. (out.kind = "error" => IsErr(out)) /\ (out.kind = "panic" => out = Panic)
  BY <1>2, Kinds
<1>4. reports \in {0, 1}
  BY <1>1 DEF Going
<1>5. Shape
  BY DEF Inv, Positions
<1>6. DOMAIN chain = 1 .. Len(chain) /\ Len(chain) \in Nat
  BY <1>5 DEF Shape
<1>7. QED
  BY <1>1, <1>3, <1>4, <1>5, <1>6

(* A converter, whichever it is. *)
LEMMA ConvertStep ==
  ASSUME Inv, phase = "up", pos \in DOMAIN chain, chain[pos] \in Converts, out.kind = "error",
         NEW o, NEW n, Converted(o, n),
         chain = Simple /\ out.leaves = <<App("panic")>> => n = 1
  PROVE  Going(o, reports + n, pos - 1)
<1>1. Going(out, reports, pos) /\ reports \in {0, 1} /\ IsErr(out)
  BY UpFacts
<1>2. /\ reports = 1 => Cold(out)
      /\ Is(out, "canceled") <=> Canceled
      /\ result # OK
      /\ \A t \in Types : ResultIs(App(t)) =>
           out.leaves = <<App(t)>> \/ (Cold(out) /\ Typed(out.leaves[1], t))
      /\ ResultIs(Plain) => out.leaves = <<Plain>> \/ reports = 1
      /\ result = Panic =>
           reports = 1 \/ (out.leaves = <<App("panic")>> /\ chain = Simple)
  <2>1. (Is(out, "canceled") <=> Canceled) /\ result # OK
    BY <1>1, Kinds DEF Going, Success, Untouched, Canceled
  <2>2. QED
    BY <1>1, <2>1, Kinds DEF Going, Untouched, ResultIs, Err
<1>3. /\ Cold(out) => ~Is(out, "canceled")
      /\ \A t : out.leaves = <<App(t)>> => ~Is(out, "canceled") /\ ~Cold(out)
      /\ out.leaves = <<Plain>> => ~Is(out, "canceled") /\ ~Cold(out)
  BY <1>1, KnownLeaves
<1>4. n \in {0, 1}
  BY DEF Converted
<1>5. CASE o = Nil /\ n = 0 /\ Is(out, "canceled")
  <2>1. /\ reports + n = 0 /\ Canceled /\ ~Cold(out)
        /\ \A t \in Types : ~ResultIs(App(t))
        /\ ~ResultIs(Plain) /\ result # Panic
    BY <1>1, <1>2, <1>3, <1>5
  <2>2. Success(o, pos - 1)
    BY <1>2, <1>5 DEF Success, Converting, In, Converts
  <2>3. QED
    BY <1>5, <2>1, <2>2, Kinds DEF Going
<1>6. CASE ~(o = Nil /\ n = 0 /\ Is(out, "canceled"))
  <2>1. /\ ~Is(out, "canceled") /\ o.kind = "error" /\ IsErr(o) /\ Cold(o)
        /\ ~Is(o, "canceled") /\ o.wrapped = FALSE
        /\ Cold(out) => n = 0 /\ o.leaves[1] = out.leaves[1]
        /\ \A t \in Types : out.leaves = <<App(t)>> => Typed(o.leaves[1], t)
        /\ out.leaves = <<Plain>> => n = 1
    BY <1>6 DEF Converted
  <2>2. reports + n \in {0, 1}
    BY <1>1, <1>2, <1>4, <2>1
  <2>3. \A t \in Types : ResultIs(App(t)) => Typed(o.leaves[1], t)
    BY <1>2, <2>1
  <2>4. (ResultIs(Plain) => reports + n = 1) /\ (result = Panic => reports + n = 1)
    BY <1>1, <1>2, <1>3, <2>1
  <2>5. Success(o, pos - 1)
    BY <1>2, <2>1, Kinds DEF Success
  <2>6. QED
    BY <2>1, <2>2, <2>3, <2>4, <2>5, Kinds DEF Going
<1>7. QED
  BY <1>5, <1>6

LEMMA ConvertSteps ==
  ASSUME Inv, HandleError \/ ErrorInterceptor
  PROVE  Inv'
<1>1. /\ phase = "up" /\ pos \in DOMAIN chain /\ out.kind = "error"
      /\ chain[pos] \in Converts
  BY DEF HandleError, ErrorInterceptor, Up, Converts
<1>2. IsErr(out)
  BY <1>1, UpFacts
<1>3. CASE HandleError
  <2>1. PICK o, n : Return(o, n) /\ Converted(o, n)
    BY <1>2, <1>3, HandleErrorFacts
  <2>2. chain # Simple
    BY <1>3 DEF HandleError, Up, Simple
  <2>3. QED
    BY <1>1, <2>1, <2>2, ConvertStep, Ascend
<1>4. CASE ErrorInterceptor
  <2>1. PICK o, n : /\ Return(o, n) /\ Converted(o, n)
                    /\ out.leaves = <<App("panic")>> => n = 1
    BY <1>2, <1>4, ErrorInterceptorFacts
  <2>2. QED
    BY <1>1, <2>1, ConvertStep, Ascend
<1>5. QED
  BY <1>3, <1>4

LEMMA RecoverSteps ==
  ASSUME Inv, RecoverPanic \/ RecoverSimple
  PROVE  Inv'
<1>1. phase = "up" /\ pos \in DOMAIN chain /\ out.kind = "panic"
  BY DEF RecoverPanic, RecoverSimple, Up
<1>2. out = Panic /\ Going(out, reports, pos) /\ Shape
  BY <1>1, UpFacts
<1>3. /\ reports = 0 /\ ~ResultIs(Plain)
      /\ \A t \in Types : ~ResultIs(App(t))
  BY <1>2, Kinds DEF Going, Untouched, ResultIs, Cold
<1>4. \A o : o # Nil => Success(o, pos - 1)
  BY <1>2, Kinds DEF Going, Success, Untouched, Canceled
<1>5. CASE RecoverPanic
  <2>1. Return(Internal, 1)
    BY <1>5 DEF RecoverPanic
  <2>2. IsErr(Internal) /\ Cold(Internal) /\ ~Is(Internal, "canceled") /\ Internal.kind = "error"
    BY InternalFacts, StatusErrFacts DEF Internal, Cold
  <2>3. Going(Internal, reports + 1, pos - 1)
    <3>1. Success(Internal, pos - 1)
      BY <1>4, <2>2, Kinds
    <3>2. QED
      BY <1>3, <2>2, <3>1, Kinds DEF Going
  <2>4. QED
    BY <1>1, <2>1, <2>3, Ascend
<1>6. CASE RecoverSimple
  <2> DEFINE o == Err(<<App("panic")>>, FALSE)
             ls == <<App("panic")>>
  <2>1. Return(o, 0) /\ chain[pos] = "recovery"
    BY <1>6 DEF RecoverSimple, Up
  <2>2. chain = Simple
    BY <1>1, <1>2, <2>1 DEF Shape, In
  <2>3. pos = 3
    BY <1>1, <2>1, <2>2 DEF Simple
  <2>4. o.kind = "error" /\ o.leaves = ls /\ o.wrapped = FALSE /\ o = Err(ls, FALSE)
    BY DEF Err
  <2>5. Len(ls) = 1 /\ DOMAIN ls = 1 .. 1 /\ ls[1] = App("panic")
    OBVIOUS
  <2>6. Leaf(App("panic"))
    BY DEF Leaf, App
  <2>7. IsErr(o)
    <3> HIDE DEF o, ls
    <3>1. o = Err(o.leaves, o.wrapped) /\ o.wrapped \in BOOLEAN
      BY <2>4
    <3>2. o.leaves = ls
      BY <2>4
    <3>3. Len(o.leaves) = 1 /\ DOMAIN o.leaves = 1 .. 1 /\ o.leaves[1] = App("panic")
      BY <2>5, <3>2
    <3>4. (\A i \in 1 .. 1 : i = 1) /\ 1 \in Nat \ {0}
      OBVIOUS
    <3>5. QED
      BY <2>6, <3>1, <3>3, <3>4 DEF IsErr
  <2>8. ~Is(o, "canceled")
    <3>1. o.leaves = <<App("panic")>>
      BY <2>4
    <3> HIDE DEF o
    <3>2. QED
      BY <2>7, <3>1, KnownLeaves
  <2>9. Going(o, reports + 0, pos - 1)
    <3>1. reports + 0 = 0 /\ pos - 1 = 2
      BY <1>3, <2>3
    <3>2. o = Err(<<App("panic")>>, FALSE)
      OBVIOUS
    <3>3. o # OK /\ o # Nil /\ o # Panic /\ o.kind = "error"
      BY <2>4, Kinds
    <3> HIDE DEF o
    <3>4. Going(o, 0, 2)
      <4>1. Success(o, 2)
        BY <1>4, <3>1, <3>3
      <4>2. QED
        BY <1>3, <2>2, <2>7, <2>8, <3>2, <3>3, <4>1 DEF Going
    <3>5. QED
      BY <3>1, <3>4
  <2>10. QED
    BY <1>1, <2>1, <2>9, Ascend
<1>7. QED
  BY <1>5, <1>6

(* Interceptors that let the outcome pass. *)
LEMMA PassSteps ==
  ASSUME Inv, Debug \/ Monitor \/ PassBack
  PROVE  Inv'
<1>1. /\ phase = "up" /\ pos \in DOMAIN chain /\ Return(out, 0)
      /\ chain[pos] \in Converts => out.kind # "error"
      /\ chain[pos] \in Recovers => out.kind # "panic"
  BY DEF Debug, Monitor, PassBack, Up, Converts, Recovers
<1>2. /\ Going(out, reports, pos) /\ reports \in {0, 1} /\ Shape
      /\ DOMAIN chain = 1 .. Len(chain) /\ Len(chain) \in Nat
  BY <1>1, UpFacts
<1>3. reports + 0 = reports
  BY <1>2
<1>4. ASSUME out = Panic, NEW q \in DOMAIN chain, chain[q] \in Recovers PROVE q <= pos - 1
  <2>1. q <= pos
    BY <1>2, <1>4 DEF Going
  <2>2. q # pos
    BY <1>1, <1>4, Kinds
  <2>3. QED
    BY <1>1, <1>2, <2>1, <2>2
<1>5. ASSUME out.kind = "error", Untouched(out, pos) PROVE Untouched(out, pos - 1)
  <2>1. ASSUME NEW q \in DOMAIN chain, chain[q] \in Converts PROVE q <= pos - 1
    <3>1. q <= pos /\ q # pos
      BY <1>1, <1>5, <2>1 DEF Untouched
    <3>2. QED
      BY <1>1, <1>2, <3>1
  <2>2. QED
    BY <1>5, <2>1 DEF Untouched
<1>6. ASSUME out = Err(<<App("panic")>>, FALSE), chain = Simple, pos = 2 PROVE FALSE
  <2>1. chain[pos] = "errors"
    BY <1>6 DEF Simple
  <2>2. QED
    BY <1>1, <1>6, <2>1 DEF Err, Converts
<1>7. Going(out, reports, pos - 1)
  <2>1. \A t \in Types : ResultIs(App(t)) =>
          Untouched(out, pos - 1) \/ (Cold(out) /\ out.wrapped = FALSE /\ Typed(out.leaves[1], t))
    BY <1>2, <1>5 DEF Going, ResultIs, Untouched
  <2>2. ResultIs(Plain) => Untouched(out, pos - 1) \/ reports = 1
    BY <1>2, <1>5 DEF Going, ResultIs, Untouched
  <2>3. Success(out, pos - 1)
    BY <1>2, <1>5 DEF Going, Success, Untouched, Canceled
  <2>4. QED
    BY <1>2, <1>4, <1>6, <2>1, <2>2, <2>3 DEF Going
<1>8. QED
  BY <1>1, <1>3, <1>7, Ascend

(* The server answers the call, or the process ends. *)
LEMMA RespondStep ==
  ASSUME Inv, Respond
  PROVE  Inv'
<1>1. /\ phase = "up" /\ pos = 0
      /\ phase' = IF out.kind = "panic" THEN "crashed" ELSE "sent"
      /\ UNCHANGED <<opts, chain, pos, ctxVars, result, reports, seen>>
  BY DEF Respond
<1>2. /\ out.kind = "nil" => out' = OK
      /\ out.kind = "error" /\ Is(out, "status") => out' = FromError(out)
      /\ out.kind = "error" /\ ~Is(out, "status") =>
           out' = Status(IF Is(out, "canceled") THEN "Canceled" ELSE "Unknown", "text", FALSE)
      /\ out.kind \notin {"nil", "error"} => out' = out
  BY DEF Respond
<1>3. /\ Going(out, reports, pos) /\ reports \in {0, 1} /\ Shape
      /\ DOMAIN chain = 1 .. Len(chain) /\ Len(chain) \in Nat
      /\ out.kind = "error" => IsErr(out)
      /\ out.kind = "panic" => out = Panic
  BY <1>1, UpFacts
<1>4. Options'
  BY <1>1 DEF Inv, Options, Distinct
<1>5. Shape'
  BY <1>1, <1>3 DEF Shape, Distinct, In
<1>6. Positions'
  BY <1>1, <1>5 DEF Positions
<1>7. Context'
  BY <1>1 DEF Inv, Context, ctxVars, AuthorizedHandler, RequestIDPassedOn, In, Before, Pending
<1>8. \A q \in DOMAIN chain : ~(q <= pos)
  BY <1>1, <1>3
<1>9. CASE out.kind = "panic"
  <2>1. out = Panic /\ out' = Panic /\ phase' = "crashed"
    BY <1>1, <1>2, <1>3, <1>9, Kinds
  <2>2. \A q \in DOMAIN chain : chain[q] \notin Recovers
    BY <1>3, <1>8, <2>1 DEF Going
  <2>3. Outcome'
    BY <1>1, <2>1, <2>2 DEF Inv, Outcome, OK, Panic, Pending
  <2>4. QED
    BY <1>4, <1>6, <1>7, <2>3 DEF Inv
<1>10. CASE out.kind # "panic"
  <2>1. phase' = "sent" /\ seen' = Pending /\ result' = result /\ reports' = reports
    BY <1>1, <1>10 DEF Inv, Outcome
  <2>2. out \in {OK, Nil} \/ (out.kind = "error" /\ IsErr(out))
    BY <1>3, <1>10, Kinds DEF Going
  <2>3. /\ out' = OK \/ StatusRec(out')
        /\ out' = OK <=> out \in {OK, Nil}
    <3>1. \A c : StatusRec(Status(c, "text", FALSE))
      BY DEF StatusRec, Status
    <3>2. CASE out = OK
      BY <1>2, <3>2, Kinds
    <3>3. CASE out = Nil
      BY <1>2, <3>3, Kinds
    <3>4. CASE out.kind = "error" /\ IsErr(out)
      <4>1. StatusRec(out')
        BY <1>2, <3>1, <3>4, FromErrorFacts
      <4>2. QED
        BY <3>4, <4>1, Kinds DEF StatusRec
    <3>5. QED
      BY <2>2, <3>2, <3>3, <3>4
  <2>4. Converting => ~Untouched(out, pos)
    BY <1>8 DEF Converting, In, Untouched, Converts
  <2>5. out' = OK <=> result = OK \/ (Canceled /\ Converting)
    BY <1>3, <2>3, <2>4 DEF Going, Success
  <2>6. ASSUME Converting, NEW t \in Types, ResultIs(App(t))
        PROVE  out'.kind = "status" /\ Typed(out', t)
    <3>1. Cold(out) /\ out.wrapped = FALSE /\ Typed(out.leaves[1], t)
      BY <1>3, <2>4, <2>6 DEF Going
    <3>2. out' = out.leaves[1]
      BY <1>2, <1>3, <3>1, KnownLeaves, FromErrorFacts DEF Cold
    <3>3. QED
      BY <3>1, <3>2 DEF Cold
  <2>7. Converting /\ ResultIs(Plain) => reports = 1
    BY <1>3, <2>4 DEF Going
  <2>8. result = Panic => reports = 1
    BY <1>1, <1>3, <1>10, Kinds DEF Going
  <2>9. /\ Converting' = Converting /\ Canceled' = Canceled /\ Types' = Types
        /\ ResultIs(Plain)' = ResultIs(Plain)
        /\ \A t : ResultIs(App(t))' = ResultIs(App(t))
    BY <1>1 DEF Converting, Canceled, In, Types, ResultIs, Plain, App
  <2>10. Sent'
    BY <1>3, <2>1, <2>3, <2>5, <2>6, <2>7, <2>8, <2>9 DEF Sent, OK, Panic
  <2>11. Outcome'
    BY <1>1, <2>1, <2>10 DEF Inv, Outcome, OK, Panic, Pending
  <2>12. QED
    BY <1>4, <1>6, <1>7, <2>11 DEF Inv
<1>11. QED
  BY <1>9, <1>10

LEMMA UnmarshalStep ==
  ASSUME Inv, Unmarshal
  PROVE  Inv'
<1>1. /\ phase = "sent" /\ phase' = "done"
      /\ seen' = IF out.kind = "status" /\ out.details THEN App(out.msg) ELSE out
      /\ UNCHANGED <<opts, chain, pos, ctxVars, result, out, reports>>
  BY DEF Unmarshal
<1>2. Options'
  BY <1>1 DEF Inv, Options, Distinct
<1>3. Positions'
  BY <1>1 DEF Inv, Positions, Shape, Distinct, In
<1>4. Context'
  BY <1>1 DEF Inv, Context, ctxVars, AuthorizedHandler, RequestIDPassedOn, In, Before, Pending
<1>5. Sent /\ phase' = "done"
  BY <1>1 DEF Inv, Outcome
<1>6. Sent'
  BY <1>1, <1>5 DEF Sent, Canceled, Converting, In, Types, ResultIs, Plain, App, OK, Panic
<1>7. Outcome'
  BY <1>1, <1>6 DEF Inv, Outcome, OK, Panic, Pending, App
<1>8. QED
  BY <1>2, <1>3, <1>4, <1>7 DEF Inv

LEMMA Invariance == ASSUME Usage PROVE Spec => []Inv
<1>1. ASSUME Inv, [Next]_vars PROVE Inv'
  <2>1. CASE UNCHANGED vars
    <3>1. UNCHANGED <<opts, chain, phase, pos, call, user, outgoing, result, out, reports, seen>>
      BY <2>1 DEF vars, ctxVars
    <3>2. Options' /\ Positions'
      BY <1>1, <3>1 DEF Inv, Options, Positions, Shape, Distinct, In
    <3>3. Context'
      BY <1>1, <3>1 DEF Inv, Context, AuthorizedHandler, RequestIDPassedOn, In, Before,
           Pending, Restricted, Allowed, Counted, Passed
    <3>4. Outcome'
      <4>1. Sent => Sent'
        BY <3>1 DEF Sent, Converting, In, ResultIs, Typed, Canceled
      <4>2. Upward => Upward'
        BY <3>1 DEF Upward, Going, Success, Converting, In, Untouched, ResultIs, Canceled
      <4>3. QED
        BY <1>1, <3>1, <4>1, <4>2 DEF Inv, Outcome
    <3>5. QED
      BY <3>2, <3>3, <3>4 DEF Inv
  <2>2. CASE Configure
    BY <1>1, <2>2, OptionSteps, NewServerStep DEF Configure
  <2>3. CASE PassRequestID \/ ContextPropagation \/ Authorize \/ UserInterceptor \/ PassThrough
    BY <1>1, <2>3, DownSteps
  <2>4. CASE \E r \in HandlerErrors \cup {OK, Panic} : Handle(r)
    BY <1>1, <2>4, HandleStep
  <2>5. CASE HandleError \/ ErrorInterceptor \/ RecoverPanic \/ RecoverSimple
    BY <1>1, <2>5, ConvertSteps, RecoverSteps
  <2>6. CASE Debug \/ Monitor \/ PassBack \/ Respond \/ Unmarshal
    BY <1>1, <2>6, PassSteps, RespondStep, UnmarshalStep
  <2>7. QED
    BY <1>1, <2>1, <2>2, <2>3, <2>4, <2>5, <2>6 DEF Next
<1>2. QED
  BY <1>1, InitInv, PTL DEF Spec

(* What the invariant says of the properties. *)
LEMMA InvImplies ==
  ASSUME Inv
  PROVE  /\ ErrorsKeepTheirType /\ FailuresReportedOnce /\ PanicsAreRecovered
         /\ ErrorsSurface /\ AuthorizedHandler /\ RequestIDPassedOn
<1>1. AuthorizedHandler /\ RequestIDPassedOn
  <2>1. result # Pending => AuthorizedHandler /\ RequestIDPassedOn
    BY DEF Inv, Context
  <2>2. QED
    BY <2>1 DEF AuthorizedHandler, RequestIDPassedOn
<1>2. PanicsAreRecovered
  <2> SUFFICES ASSUME phase = "crashed", In("panic") \/ opts.interceptors = Simple PROVE FALSE
    BY DEF PanicsAreRecovered
  <2>1. (\A p \in DOMAIN chain : chain[p] \notin Recovers) /\ Shape
    BY DEF Inv, Outcome, Positions
  <2>2. opts.interceptors = Simple => 3 \in DOMAIN chain /\ chain[3] = "recovery"
    BY <2>1 DEF Shape, Simple
  <2>3. QED
    BY <2>1, <2>2 DEF In, Recovers
<1>3. ErrorsKeepTheirType
  <2> SUFFICES ASSUME phase = "done", result.kind = "error", Converting,
                      NEW t \in Types, result.leaves = <<App(t)>>
               PROVE  seen = App(t)
    BY DEF ErrorsKeepTheirType, Types
  <2>1. out.kind = "status" /\ Typed(out, t)
    BY DEF Inv, Outcome, Sent, ResultIs
  <2>2. QED
    BY <2>1 DEF Inv, Outcome, Typed
<1>4. FailuresReportedOnce
  <2> SUFFICES ASSUME phase = "done", Converting
               PROVE  /\ reports <= 1
                      /\ ResultIs(Plain) => reports = 1
                      /\ result = Panic => reports = 1
    BY DEF FailuresReportedOnce, ResultIs, Plain
  <2>1. reports \in {0, 1} /\ (ResultIs(Plain) => reports = 1) /\ (result = Panic => reports = 1)
    BY DEF Inv, Outcome, Sent
  <2>2. QED
    BY <2>1
<1>5. ErrorsSurface
  <2> SUFFICES ASSUME phase = "done"
               PROVE  seen = OK <=> result = OK \/ (Canceled /\ Converting)
    BY DEF ErrorsSurface
  <2>1. seen = OK <=> out = OK
    BY DEF Inv, Outcome, App, OK
  <2>2. QED
    BY <2>1 DEF Inv, Outcome, Sent
<1>6. QED
  BY <1>1, <1>2, <1>3, <1>4, <1>5

(* Whatever the options, the order of the interceptors and the handler's    *)
(* errors, the chain keeps the types of errors, reports failures once,      *)
(* recovers panics, tells a failure as a success exactly if the call was    *)
(* cancelled and a converter is on the chain, authorizes, and passes the    *)
(* request id on, twice exactly behind the context propagation.             *)
THEOREM ChainIsCorrect ==
  ASSUME Usage
  PROVE  Spec => [](/\ ErrorsKeepTheirType /\ FailuresReportedOnce /\ PanicsAreRecovered
                    /\ ErrorsSurface /\ AuthorizedHandler /\ RequestIDPassedOn)
BY Invariance, InvImplies, PTL
=============================================================================
