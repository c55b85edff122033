------------------------------ MODULE RoundRobin ------------------------------
(***************************************************************************)
(* What the scheduler of thread.c promises, without contexts, interrupts,  *)
(* locks and program counters: the CPU goes round among the threads that   *)
(* compete for it, each slice goes to one of those with the most ticks     *)
(* left, and a thread for which nobody with ticks left takes over goes on. *)
(***************************************************************************)
EXTENDS Integers

CONSTANTS Threads, Nobody, Quantum, Least, Most

VARIABLES
  phase,   \* "boot", "up" or "lost"
  runner,  \* the thread that has the CPU, or Nobody
  ready,   \* the threads that compete for it
  left     \* ticks left to each competing thread, 0 for the others

absvars == <<phase, runner, ready, left>>

AbsInit == /\ phase = "boot" /\ runner = Nobody /\ ready = {}
           /\ left = [t \in Threads |-> 0]

\* The boot code adds a thread.
Admit(t) == /\ phase = "boot" /\ t \notin ready
            /\ ready' = ready \cup {t}
            /\ left' = [left EXCEPT ![t] = Quantum]
            /\ UNCHANGED <<phase, runner>>

\* A thread that waits for the CPU is killed.
Withdraw(t) == /\ t \in ready
               /\ ready' = ready \ {t}
               /\ left' = [left EXCEPT ![t] = 0]
               /\ UNCHANGED <<phase, runner>>

\* The running thread gives up the CPU for good.
Quit == /\ phase = "up" /\ runner # Nobody
        /\ left' = [left EXCEPT ![runner] = 0]
        /\ runner' = Nobody
        /\ UNCHANGED <<phase, ready>>

\* The CPU goes to a member of pool that is entitled to it.
HandOver(pool, l) ==
  \E t \in pool : /\ l[t] > 0 /\ \A u \in pool : l[u] <= l[t]
                  /\ runner' = t /\ ready' = pool \ {t}

Start == /\ phase # "lost" /\ runner = Nobody
         /\ HandOver(ready, left)
         /\ phase' = "up" /\ UNCHANGED left

Spent(n) == IF n = Least THEN Most ELSE n - 1

Slice == /\ phase = "up" /\ runner # Nobody
         /\ left' = [left EXCEPT ![runner] = Spent(left[runner])]
         /\ \/ HandOver(ready \cup {runner}, left')
            \/ /\ \A t \in ready \cup {runner} : left'[t] <= 0
               /\ UNCHANGED <<runner, ready>>
         /\ UNCHANGED phase

\* The machine stops running the threads.
Lose == /\ phase # "lost" /\ phase' = "lost"
        /\ runner' = Nobody /\ ready' = {} /\ left' = [t \in Threads |-> 0]

AbsNext == \/ \E t \in Threads : Admit(t) \/ Withdraw(t)
           \/ Quit \/ Start \/ Slice \/ Lose

AbsSpec == AbsInit /\ [][AbsNext]_absvars
==============================================================================
