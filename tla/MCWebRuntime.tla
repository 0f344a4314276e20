---------------------------- MODULE MCWebRuntime ----------------------------
(***************************************************************************)
(* Two requests for WebRuntime: one with two tickers, one with one.        *)
(***************************************************************************)
EXTENDS WebRuntime

CONSTANTS t1, t2, t3

MCRequests == <<<<t1, t2>>, <<t3>>>>
=============================================================================
