--------------------------- MODULE MCTestHandshake ---------------------------
(* The instance of TestHandshake that the tests are. *)
EXTENDS TestHandshake

CONSTANTS w1, w2, w3

MCWaiters == <<w1, w2, w3>>
=============================================================================
