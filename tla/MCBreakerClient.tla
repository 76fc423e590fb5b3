--------------------------- MODULE MCBreakerClient ---------------------------
(* Instances of BreakerClient for TLC. *)
EXTENDS BreakerClient

\* Enough slots to reach the success threshold within one episode: with fewer,
\* which the settings allow, no breaker could ever close again.
ASSUME EnoughTrials == HalfOpenSuccessThreshold <= HalfOpenMaxRequests
=============================================================================
