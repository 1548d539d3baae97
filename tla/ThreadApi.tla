------------------------------ MODULE ThreadApi ------------------------------
(***************************************************************************)
(* What mypthread.h promises its callers, without scheduler, queues or     *)
(* signals: threads start and end once, a join comes back only when its    *)
(* target has ended, and a mutex is taken only when it is usable and free, *)
(* and given back, reset or torn down by nobody but its owner.             *)
(***************************************************************************)
EXTENDS Integers

CONSTANTS Threads, Mutexes, NoThread

VARIABLES life,    \* per thread: none, live or done
          joining, \* per thread: the thread its accepted join waits for
          usable,  \* per mutex: initialised and not destroyed
          owner    \* per mutex: the thread that holds it

apiVars == <<life, joining, usable, owner>>

ApiInit ==
  /\ life = [t \in Threads |-> "none"]
  /\ joining = [t \in Threads |-> NoThread]
  /\ usable = [m \in Mutexes |-> FALSE]
  /\ owner = [m \in Mutexes |-> NoThread]

Start(t) ==
  /\ life[t] = "none"
  /\ life' = [life EXCEPT ![t] = "live"]
  /\ UNCHANGED <<joining, usable, owner>>

\* A thread in a join cannot end.
End(t) ==
  /\ life[t] = "live" /\ joining[t] = NoThread
  /\ life' = [life EXCEPT ![t] = "done"]
  /\ UNCHANGED <<joining, usable, owner>>

Join(t, u) ==
  /\ t # u /\ life[t] = "live" /\ life[u] = "live" /\ joining[t] = NoThread
  /\ joining' = [joining EXCEPT ![t] = u]
  /\ UNCHANGED <<life, usable, owner>>

Joined(t) ==
  /\ joining[t] # NoThread /\ life[joining[t]] = "done"
  /\ joining' = [joining EXCEPT ![t] = NoThread]
  /\ UNCHANGED <<life, usable, owner>>

SetUp(m) ==
  /\ ~usable[m]
  /\ usable' = [usable EXCEPT ![m] = TRUE]
  /\ UNCHANGED <<life, joining, owner>>

TearDown(m) ==
  /\ usable[m] /\ owner[m] = NoThread
  /\ usable' = [usable EXCEPT ![m] = FALSE]
  /\ UNCHANGED <<life, joining, owner>>

Acquire(t, m) ==
  /\ usable[m] /\ owner[m] = NoThread
  /\ life[t] = "live" /\ joining[t] = NoThread
  /\ owner' = [owner EXCEPT ![m] = t]
  /\ UNCHANGED <<life, joining, usable>>

Release(t, m) ==
  /\ usable[m] /\ owner[m] = t
  /\ life[t] = "live" /\ joining[t] = NoThread
  /\ owner' = [owner EXCEPT ![m] = NoThread]
  /\ UNCHANGED <<life, joining, usable>>

ApiNext ==
  \/ \E t \in Threads : Start(t) \/ End(t) \/ Joined(t)
  \/ \E t, u \in Threads : Join(t, u)
  \/ \E m \in Mutexes : SetUp(m) \/ TearDown(m)
  \/ \E t \in Threads, m \in Mutexes : Acquire(t, m) \/ Release(t, m)

ApiSpec == ApiInit /\ [][ApiNext]_apiVars
=============================================================================
