----------------------------- MODULE MCRateLimit -----------------------------
(* RateLimit on a small instance.                                          *)
EXTENDS RateLimit
=============================================================================
