-------------------------- MODULE MyPThreadProgram --------------------------
(***************************************************************************)
(* The library under fixed programs, each thread with its own sequence of  *)
(* calls as in test.c and the benchmarks, for what must eventually happen. *)
(* MaxTicks bounds the preemptions of a behaviour, not the calls.          *)
(***************************************************************************)
EXTENDS MyPThread

CONSTANTS Programs, \* each one gives every thread the calls it makes, in order
          MaxTicks  \* timer signals that reach the scheduler or a block

VARIABLES program,  \* the one that runs
          ip,       \* per thread: calls made so far
          ticks

programVars == <<vars, program, ip, ticks>>

ProgramInit ==
  Init /\ program \in Programs /\ ip = [t \in Threads |-> 0] /\ ticks = 0

Ended(t) == ip[t] = Len(program[t])
Instr(t) == program[t][ip[t] + 1]
Is(t, op) == ~Ended(t) /\ Instr(t).op = op

\* The call a script names, with its operand, on the thread that makes it.
ScriptedCall(t) ==
  /\ \/ Is(t, "create") /\ CreateCall(t)
     \/ Is(t, "yield") /\ Yield(t)
     \/ Is(t, "exit") /\ ExitCall(t)
     \/ Is(t, "join") /\ Call(t, "join_search", Instr(t).on)
     \/ Is(t, "init") /\ Call(t, "init", Instr(t).on)
     \/ Is(t, "lock") /\ Call(t, "lock_check", Instr(t).on)
     \/ Is(t, "unlock") /\ Call(t, "unlock", Instr(t).on)
     \/ Is(t, "destroy") /\ Call(t, "destroy", Instr(t).on)
  /\ ip' = [ip EXCEPT ![t] = @ + 1]

\* The steps inside a call, which need no further decision of the program.
LibraryStep(t) ==
  \/ CreateBody(t) \/ ExitEnter(t) \/ ExitWake(t) \/ ExitDone(t)
  \/ JoinSearch(t) \/ JoinBlock(t) \/ JoinReturn(t) \/ InitBody(t)
  \/ LockCheck(t) \/ LockTry(t) \/ LockBlock(t) \/ LockRetry(t) \/ LockGot(t)
  \/ UnlockBody(t) \/ UnlockWake(t)
  \/ DestroyBody(t) \/ DestroyWake(t) \/ DestroyDone(t) \/ Raise(t)

\* A script that ends without exit returns from its function.
ThreadStep ==
  /\ \/ initMainContext /\ UNCHANGED ip
     \/ \E t \in Threads : ScriptedCall(t)
     \/ \E t \in Threads : LibraryStep(t) /\ UNCHANGED ip
     \/ \E t \in Threads : Ended(t) /\ FunctionReturns(t) /\ UNCHANGED ip
     \/ Ended(Main) /\ MainReturns /\ UNCHANGED ip
  /\ UNCHANGED <<program, ticks>>

Tick == ticks < MaxTicks /\ TimerFires /\ ticks' = ticks + 1 /\ UNCHANGED <<program, ip>>

Halted == proc # "running" /\ UNCHANGED programVars

ProgramNext == ThreadStep \/ Tick \/ Halted

\* The processor goes on executing the active thread: 5 ms pass between two ticks.
ProgramSpec == ProgramInit /\ [][ProgramNext]_programVars /\ WF_programVars(ThreadStep)

-----------------------------------------------------------------------------
\* A program whose waits are all answered ends: main comes back from its joins and
\* locks and returns, wherever the ticks fall. No wake-up of exit, unlock or destroy
\* is lost and the ready queue is never empty when the scheduler needs a thread.
ProgramTerminates == <>(proc = "exited")
=============================================================================
