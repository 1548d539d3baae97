------------------------- MODULE MCMyPThreadProgram -------------------------
(* Two programs: a lock convoy, and a destroy among waiting threads.       *)
EXTENDS MyPThreadProgram

CONSTANT m1

Do(op) == [op |-> op]
On(op, x) == [op |-> op, on |-> x]

\* Main and two workers pass one mutex around; main joins both workers.
ConvoyScript ==
  [t \in Threads |->
     IF t = Main
     THEN <<On("init", m1), Do("create"), Do("create"), On("lock", m1), Do("yield"),
            On("unlock", m1), On("join", 1), On("join", 2), On("destroy", m1)>>
     ELSE <<On("lock", m1), Do("yield"), On("unlock", m1), Do("exit")>>]

\* Main destroys the mutex while workers may wait for it, then joins them;
\* the second worker returns from its function instead of calling exit.
DestroyScript ==
  [t \in Threads |->
     IF t = Main
     THEN <<On("init", m1), On("lock", m1), Do("create"), Do("create"),
            On("unlock", m1), On("destroy", m1), On("join", 2), On("join", 1)>>
     ELSE <<On("lock", m1), On("unlock", m1)>> \o (IF t = 1 THEN <<Do("exit")>> ELSE <<>>)]

MCPrograms == {ConvoyScript, DestroyScript}
=============================================================================
