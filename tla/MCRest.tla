-------------------------------- MODULE MCRest --------------------------------
(* A small instance of the REST API for TLC.                                 *)
EXTENDS Rest

CONSTANTS w1, w2, a1

OneAlert   == {a1}
TwoWorkers == {w1, w2}
=============================================================================
