---------------------------- MODULE MCMyPThread ----------------------------
(* MyPThread on a small instance, under every C program over its calls,    *)
(* with the refinement of ThreadApi.                                       *)
EXTENDS MyPThreadRefinement
=============================================================================
