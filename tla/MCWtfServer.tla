---------------------------- MODULE MCWtfServer ----------------------------
(* WtfServer with two handlers; a second project exists only by name, which *)
(* is enough for the list of mutexes.                                       *)
EXTENDS WtfServer, TLC

CONSTANTS h1, h2, p1, p2

\* The requests that write p1, and a rollback of p2, which never exists, for the list
\* of mutexes.
RequestsForOne ==
  ({"create", "destroy", "rollback", "commit", "push"} \X {p1}) \cup {<<"rollback", p2>>}

\* One project, every request.
RequestsThatLock == Operations \X {p1}

HandlerSymmetry == Permutations(Handlers)
=============================================================================
