------------------------- MODULE MyPThreadRefinement -------------------------
(* The library implements ThreadApi.                                       *)
EXTENDS MyPThread

\* A thread lives until mypthread_exit has marked it terminated.
Life(s) == CASE s = "ABSENT" -> "none"
             [] s \in {"TERMINATED", "FREED"} -> "done"
             [] OTHER -> "live"

\* A join is accepted once it is in the target's joinQueue, until it returns 0.
Joining(f) == IF f.at \in {"join_raise", "join_return"} THEN f.on ELSE NoThread

Api == INSTANCE ThreadApi WITH
         life    <- [t \in Threads |-> Life(status[t])],
         joining <- [t \in Threads |-> Joining(pc[t])],
         usable  <- initialized,
         owner   <- [m \in Mutexes |-> IF initialized[m] THEN threadId[m] ELSE NoThread]

\* Every step of the library is a step of ThreadApi or changes nothing a caller can
\* observe: the promise of mypthread.h, through every preemption and wake-up.
ImplementsThreadApi == Api!ApiSpec
=============================================================================
