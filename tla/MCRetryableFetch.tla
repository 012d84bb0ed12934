-------------------------- MODULE MCRetryableFetch --------------------------
(* Small instances of RetryableFetch for TLC: two retries, a backoff that     *)
(* reaches its cap, and waits below, at and above the cap.                    *)
EXTENDS RetryableFetch

MCWaits == {1, 3, 4}
=============================================================================
