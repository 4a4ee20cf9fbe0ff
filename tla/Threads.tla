------------------------------ MODULE Threads ------------------------------
(***************************************************************************)
(* The cooperative threads of cpu/thread.c: thread_create, thread_yield    *)
(* (which is scheduler) and switch_context.                                *)
(*                                                                         *)
(* The CPU executes one context at a time: the boot context, in which      *)
(* kmain and the shell run, or a thread.  Nothing preempts it; the timer   *)
(* interrupt does not schedule.  A context's stack pointer is the context  *)
(* it belongs to; a fresh thread's points at the entry address that        *)
(* thread_create pushed.  A context is free to create threads and to yield *)
(* in any order, and a thread function does not return: thread1_function   *)
(* and thread2_function loop for ever.                                     *)
(***************************************************************************)
EXTENDS Integers, FiniteSets

CONSTANTS
  MAX_THREADS,
  Creations,    \* bound on the calls of thread_create
  AllocFails    \* may kmalloc return NULL?

ASSUME ThreadsAssumption ==
  MAX_THREADS \in Nat \ {0} /\ Creations \in Nat /\ AllocFails \in BOOLEAN

Ids == 0 .. MAX_THREADS - 1
Boot == -1           \* the boot context, and "no thread" in current_thread_id
Contexts == Ids \cup {Boot}

VARIABLES
  state,               \* thread_list: "null", or the state of the thread
  rsp,                 \* the saved stack pointers: whose stack they point to
  current_thread_id,
  next_thread_id,
  cpu,                 \* the context whose stack the CPU is on
  calls                \* calls of thread_create so far

threadVars == <<state, rsp, current_thread_id, next_thread_id, cpu, calls>>

(* thread_init *)
ThreadsInit ==
  /\ state = [i \in Ids |-> "null"]
  /\ rsp = [i \in Ids |-> Boot]
  /\ current_thread_id = Boot
  /\ next_thread_id = 0
  /\ cpu = Boot
  /\ calls = 0

Ready == {i \in Ids : state[i] = "READY"}

(* thread_create, called by the running context.  The identifier is spent  *)
(* before the stack is allocated.                                          *)
thread_create ==
  /\ calls < Creations
  /\ calls' = calls + 1
  /\ LET id == next_thread_id IN
     \/ /\ id >= MAX_THREADS
        /\ UNCHANGED <<state, rsp, next_thread_id>>
     \/ /\ id < MAX_THREADS /\ AllocFails          \* no room for the thread_t
        /\ UNCHANGED <<state, rsp, next_thread_id>>
     \/ /\ id < MAX_THREADS /\ AllocFails          \* no room for the stack
        /\ next_thread_id' = id + 1
        /\ UNCHANGED <<state, rsp>>
     \/ /\ id < MAX_THREADS
        /\ next_thread_id' = id + 1
        /\ state' = [state EXCEPT ![id] = "READY"]
        /\ rsp' = [rsp EXCEPT ![id] = id]
  /\ UNCHANGED <<current_thread_id, cpu>>

(* Mutant: rsp is loaded before it is saved.                               *)
switch_context_swapped(old, next) ==
  /\ rsp' = IF old = Boot THEN rsp ELSE [rsp EXCEPT ![old] = rsp[next]]
  /\ cpu' = rsp[next]

(* switch_context(&old->rsp, new->rsp): the CPU's stack pointer goes into  *)
(* the old thread's slot, or into scheduler's dummy when there is none.    *)
switch_context(old, next) ==
  /\ rsp' = IF old = Boot THEN rsp ELSE [rsp EXCEPT ![old] = cpu]
  /\ cpu' = rsp[next]

(* Mutant: the thread that yields is not made READY.                       *)
scheduler_forgets(next) ==
  /\ next \in Ready
  /\ \A i \in Ready : next <= i
  /\ state' = [state EXCEPT ![next] = "RUNNING"]
  /\ current_thread_id' = next
  /\ switch_context(current_thread_id, next)
  /\ UNCHANGED <<next_thread_id, calls>>

(* Mutant: the loop goes on to the last READY thread.                      *)
scheduler_last(next) ==
  /\ next \in Ready
  /\ \A i \in Ready : next >= i
  /\ state' = IF current_thread_id = Boot THEN [state EXCEPT ![next] = "RUNNING"]
              ELSE [state EXCEPT ![next] = "RUNNING", ![current_thread_id] = "READY"]
  /\ current_thread_id' = next
  /\ switch_context(current_thread_id, next)
  /\ UNCHANGED <<next_thread_id, calls>>

(* scheduler takes the READY thread with the lowest identifier, wherever   *)
(* the running one stands.                                                 *)
scheduler(next) ==
  /\ next \in Ready
  /\ \A i \in Ready : next <= i
  /\ next # current_thread_id
  /\ LET old == current_thread_id IN
     /\ state' = IF old = Boot THEN [state EXCEPT ![next] = "RUNNING"]
                 ELSE [state EXCEPT ![next] = "RUNNING", ![old] = "READY"]
     /\ current_thread_id' = next
     /\ switch_context(old, next)
  /\ UNCHANGED <<next_thread_id, calls>>

(* thread_yield with nobody READY returns to its caller. *)
YieldAlone == Ready = {} /\ UNCHANGED threadVars

ThreadsNext == thread_create \/ YieldAlone \/ \E next \in Ids : scheduler(next)

ThreadsSpec == ThreadsInit /\ [][ThreadsNext]_threadVars

(* The contexts keep calling thread_yield. *)
ThreadsFairSpec == ThreadsSpec /\ WF_threadVars(\E next \in Ids : scheduler(next))

-----------------------------------------------------------------------------
ThreadsTypeOK ==
  /\ state \in [Ids -> {"null", "READY", "RUNNING"}]
  /\ rsp \in [Ids -> Contexts]
  /\ current_thread_id \in Contexts /\ cpu \in Contexts
  /\ next_thread_id \in 0 .. MAX_THREADS
  /\ calls \in 0 .. Creations

(* The books agree with the machine: the CPU is on the stack of the thread *)
(* that current_thread_id names, that thread is the only one RUNNING, and  *)
(* every identifier not spent yet has an empty slot.                       *)
OneRunning ==
  /\ cpu = current_thread_id
  /\ {i \in Ids : state[i] = "RUNNING"} = {current_thread_id} \ {Boot}
  /\ \A i \in Ids : i >= next_thread_id => state[i] = "null"

(* A READY thread can be resumed: its saved stack pointer is on its own    *)
(* stack, not on that of the thread that was switched to meanwhile.        *)
OwnStackSaved == \A i \in Ready : rsp[i] = i

(* Two threads take turns: a thread with at most one thread created before *)
(* it runs, and runs again after every yield, whoever else was created.    *)
Before(i) == {j \in Ids : j < i /\ state[j] # "null"}
FirstTwoRun ==
  \A i \in Ids : [](state[i] # "null" /\ Cardinality(Before(i)) <= 1 => <>(cpu = i))
=============================================================================
