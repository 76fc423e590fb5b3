--------------------------- MODULE MCModelFallback ---------------------------
(* Instances of ModelFallback for TLC. *)
EXTENDS ModelFallback

CONSTANTS p, q, f, g

\* The two wirings: a pool as bootstrap builds it, and a single provider with
\* fallback clients.
PoolOfTwo == <<p, q>>
PoolOfOne == <<p>>
OneFallback == <<f>>
TwoFallbacks == <<f, g>>
=============================================================================
