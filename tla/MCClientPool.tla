---------------------------- MODULE MCClientPool -----------------------------
(* Small pools for the download client. *)
EXTENDS ClientPool

CONSTANTS w1, w2, MinRequests, MaxRequests

MCRequestCounts == MinRequests..MaxRequests

(* A negative count as well: atoi("-1") starts a pool without work. *)
MCAnyCounts == (-1)..MaxRequests
=============================================================================
