----------------------------- MODULE MCHTTPChain -----------------------------
(* The sentry middleware and the recoverer in either order. *)
EXTENDS HTTPChain

MCErrors == {[kinds |-> {"http"}, code |-> 404, type |-> "none", about |-> "none"]}
=============================================================================
