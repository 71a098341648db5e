--------------------------- MODULE SignedCookie ---------------------------
(***************************************************************************)
(* httpserver.HMACCookieSigner behind a rolling key rotation: instances of *)
(* a service, each with the key ring it was deployed with, set and verify  *)
(* one cookie that the browser keeps in between and that may come back     *)
(* damaged.  An HMAC is external: the triple it was computed from.         *)
(***************************************************************************)
EXTENDS Integers, Sequences

CONSTANTS CookieName,
          Payloads,
          Rings,        \* the key rings deployed one after the other
          Instances

VARIABLES
    version,    \* per instance: which of Rings it runs with
    jar,        \* the cookie in the browser
    setBy,      \* history: the deployment that set it, and what it was set to
    damaged,    \* history: the value is no longer the one that was set
    verified    \* what the last Verify returned

vars == <<version, jar, setBy, damaged, verified>>

\* base64, and a text that is not.
base64(value) == <<"base64", value>>
NotBase64 == <<"text", "">>

None == [form |-> "none", payload |-> NotBase64, mac |-> <<>>]
NotVerified == [result |-> "none", at |-> 0, raw |-> ""]

Init ==
    /\ version = [i \in Instances |-> 1]
    /\ jar = None /\ setBy = [version |-> 0, value |-> ""] /\ damaged = FALSE
    /\ verified = NotVerified

\* Mutant of keys: the fallback keys are not used.
keysPrimaryOnly(i) == SubSeq(Rings[version[i]], 1, 1)

\* NewHMACCookieSigner: the primary key, then the fallback keys.
keys(i) == Rings[version[i]]

signBytes(name, payload, key) == <<name, payload, key>>
signingKey(i) == keys(i)[1]

\* Set: signValue under the primary key; the browser replaces the cookie it had.
Set(i, value) ==
    /\ jar' = [form |-> "signed", payload |-> base64(value),
               mac |-> signBytes(CookieName, base64(value), signingKey(i))]
    /\ setBy' = [version |-> version[i], value |-> value]
    /\ damaged' = FALSE /\ verified' = NotVerified
    /\ UNCHANGED version

\* verifySignedValue: no cookie, no delimiter, an empty, non-hex or short
\* signature, a signature of none of the keys, and only then the payload.
Valid(i) == \E k \in 1..Len(keys(i)) : jar.mac = signBytes(CookieName, jar.payload, keys(i)[k])
verifySignedValue(i) ==
    IF jar.form # "signed" THEN [result |-> jar.form, at |-> version[i], raw |-> ""]
    ELSE IF ~Valid(i) THEN [result |-> "invalid signature", at |-> version[i], raw |-> ""]
    ELSE IF jar.payload = NotBase64 THEN [result |-> "invalid base64", at |-> version[i], raw |-> ""]
    ELSE [result |-> "ok", at |-> version[i], raw |-> jar.payload[2]]

Verify(i) ==
    /\ verified' = verifySignedValue(i)
    /\ UNCHANGED <<version, jar, setBy, damaged>>

\* External: a deployment reaches an instance once all run the one before it.
Deploy(i) ==
    /\ version[i] < Len(Rings) /\ \A j \in Instances : version[j] >= version[i]
    /\ version' = [version EXCEPT ![i] = @ + 1] /\ verified' = NotVerified
    /\ UNCHANGED <<jar, setBy, damaged>>

\* External: the value comes back cut, or with another payload.
Damage ==
    /\ jar.form = "signed" /\ damaged' = TRUE /\ verified' = NotVerified
    /\ \/ jar' = [jar EXCEPT !.form = "malformed"]
       \/ \E p \in ({base64(v) : v \in Payloads} \cup {NotBase64}) \ {jar.payload} :
             jar' = [jar EXCEPT !.payload = p]
    /\ UNCHANGED <<version, setBy>>

Next ==
    \/ \E i \in Instances : Verify(i) \/ Deploy(i) \/ \E p \in Payloads : Set(i, p)
    \/ Damage

Spec == Init /\ [][Next]_vars

-----------------------------------------------------------------------------
\* A rotation that announces a key as fallback before it signs, and keeps the
\* old one as fallback for one more deployment, logs nobody out: what one
\* deployment set, it and its neighbours verify, and they return the value that
\* was set (signed_cookie.go:64-66, 203-210).
RotationKeepsCookies ==
    /\ verified.result \in {"ok", "malformed", "invalid signature", "invalid base64"} /\ ~damaged
    /\ setBy.version - verified.at \in {-1, 0, 1}
    => verified.result = "ok" /\ verified.raw = setBy.value
=============================================================================
