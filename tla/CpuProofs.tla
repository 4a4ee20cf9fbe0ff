----------------------------- MODULE CpuProofs -----------------------------
(***************************************************************************)
(* Proofs about what the CPU executes: Threads, for any MAX_THREADS and    *)
(* any number of creations, and Clock, for every width of tick_count,      *)
(* every set of sleeps and whatever the interrupted code keeps in r15.     *)
(*                                                                         *)
(* Threads: the inductive invariant is the conjunction of the properties.  *)
(* That the CPU ends up on the stack of the thread current_thread_id names *)
(* needs OwnStackSaved of the thread switched to, and that the thread      *)
(* switched from leaves its own stack pointer behind needs OneRunning.     *)
(*                                                                         *)
(* Clock: neither property is inductive.  That interrupts come only once   *)
(* the handler is registered follows from the order in which               *)
(* init_interrupts works (Ordered).  That sleep is long enough follows     *)
(* from a balance: every tick that was counted since sleep began, every    *)
(* interrupt the stub is about to count and every request that still waits *)
(* in the PIC was a pulse of its own, but for the one that may have waited *)
(* at the start (Balance).                                                 *)
(***************************************************************************)
EXTENDS Threads, Clock, TLAPS

-----------------------------------------------------------------------------
(* Threads. *)

ThreadsInv == ThreadsTypeOK /\ OneRunning /\ OwnStackSaved

LEMMA IdsAreNumbers == Boot \notin Ids /\ Ids \subseteq Nat /\ Boot \in Contexts
BY ThreadsAssumption DEF Ids, Boot, Contexts

LEMMA InitThreads == ThreadsInit => ThreadsInv
<1> SUFFICES ASSUME ThreadsInit PROVE ThreadsInv
  OBVIOUS
<1>1. ThreadsTypeOK
  BY ThreadsAssumption DEF ThreadsInit, ThreadsTypeOK, Contexts, Ids, Boot
<1>2. OneRunning
  BY DEF ThreadsInit, OneRunning
<1>3. OwnStackSaved
  BY DEF ThreadsInit, OwnStackSaved, Ready
<1> QED
  BY <1>1, <1>2, <1>3 DEF ThreadsInv

LEMMA CreateThreads == ThreadsInv /\ thread_create => ThreadsInv'
<1> SUFFICES ASSUME ThreadsInv, thread_create PROVE ThreadsInv'
  OBVIOUS
<1> USE ThreadsAssumption, IdsAreNumbers DEF ThreadsInv
<1>1. CASE UNCHANGED <<state, rsp>>
  <2>1. next_thread_id' \in {next_thread_id, next_thread_id + 1}
        /\ (next_thread_id' = next_thread_id + 1 => next_thread_id < MAX_THREADS)
    BY <1>1 DEF thread_create, ThreadsTypeOK, Ids
  <2>2. ThreadsTypeOK'
    BY <1>1, <2>1 DEF thread_create, ThreadsTypeOK
  <2>3. OneRunning'
    BY <1>1, <2>1 DEF thread_create, ThreadsTypeOK, OneRunning, Ids
  <2>4. OwnStackSaved'
    BY <1>1 DEF OwnStackSaved, Ready
  <2> QED
    BY <2>2, <2>3, <2>4
<1>2. CASE /\ next_thread_id < MAX_THREADS
           /\ next_thread_id' = next_thread_id + 1
           /\ state' = [state EXCEPT ![next_thread_id] = "READY"]
           /\ rsp' = [rsp EXCEPT ![next_thread_id] = next_thread_id]
  <2>1. next_thread_id \in Ids /\ state[next_thread_id] = "null"
    BY <1>2 DEF ThreadsTypeOK, OneRunning, Ids
  <2>2. ThreadsTypeOK'
    BY <1>2, <2>1 DEF thread_create, ThreadsTypeOK, Contexts
  <2>3. next_thread_id # current_thread_id
    BY <2>1 DEF OneRunning, ThreadsTypeOK
  <2>4. {i \in Ids : state'[i] = "RUNNING"} = {i \in Ids : state[i] = "RUNNING"}
    BY <1>2, <2>1 DEF ThreadsTypeOK
  <2>5. \A i \in Ids : i >= next_thread_id' => state'[i] = "null"
    BY <1>2, <2>1 DEF ThreadsTypeOK, OneRunning, Ids
  <2>6. OneRunning'
    BY <2>4, <2>5 DEF thread_create, OneRunning
  <2>7. OwnStackSaved'
    BY <1>2, <2>1 DEF OwnStackSaved, Ready, ThreadsTypeOK
  <2> QED
    BY <2>2, <2>6, <2>7
<1> QED
  BY <1>1, <1>2 DEF thread_create

LEMMA SwitchThreads ==
  ASSUME NEW next \in Ids, ThreadsInv, scheduler(next)
  PROVE  ThreadsInv'
<1> USE ThreadsAssumption, IdsAreNumbers DEF ThreadsInv
<1> DEFINE old == current_thread_id
<1>1. /\ state[next] = "READY" /\ rsp[next] = next /\ next # old
      /\ cpu = old /\ cpu' = next /\ current_thread_id' = next
      /\ UNCHANGED <<next_thread_id, calls>>
  BY DEF scheduler, switch_context, OwnStackSaved, OneRunning, Ready
<1>2. {i \in Ids : state[i] = "RUNNING"} = {old} \ {Boot}
  BY DEF OneRunning
<1>3. CASE old = Boot
  <2>1. state' = [state EXCEPT ![next] = "RUNNING"] /\ rsp' = rsp
    BY <1>3 DEF scheduler, switch_context
  <2>2. ThreadsTypeOK'
    BY <1>1, <2>1 DEF ThreadsTypeOK, Contexts
  <2>3. {i \in Ids : state'[i] = "RUNNING"} = {next}
    BY <1>1, <1>2, <1>3, <2>1 DEF ThreadsTypeOK
  <2>4. \A i \in Ids : i >= next_thread_id' => state'[i] = "null"
    BY <1>1, <2>1 DEF OneRunning, ThreadsTypeOK
  <2>5. OneRunning' /\ OwnStackSaved'
    BY <1>1, <2>1, <2>3, <2>4 DEF OneRunning, OwnStackSaved, Ready, ThreadsTypeOK
  <2> QED
    BY <2>2, <2>5
<1>4. CASE old # Boot
  <2>1. old \in Ids /\ state[old] = "RUNNING"
    BY <1>2, <1>4 DEF ThreadsTypeOK, Contexts
  <2>2. /\ state' = [state EXCEPT ![next] = "RUNNING", ![old] = "READY"]
        /\ rsp' = [rsp EXCEPT ![old] = old]
    BY <1>1, <1>4 DEF scheduler, switch_context
  <2>3. ThreadsTypeOK'
    BY <1>1, <2>1, <2>2 DEF ThreadsTypeOK, Contexts
  <2>4. {i \in Ids : state'[i] = "RUNNING"} = {next}
    BY <1>1, <1>2, <2>1, <2>2 DEF ThreadsTypeOK
  <2>5. \A i \in Ids : i >= next_thread_id' => state'[i] = "null"
    BY <1>1, <2>1, <2>2 DEF OneRunning, ThreadsTypeOK
  <2>6. OneRunning'
    BY <1>1, <2>4, <2>5 DEF OneRunning
  <2>7. OwnStackSaved'
    BY <1>1, <2>1, <2>2 DEF OwnStackSaved, Ready, ThreadsTypeOK
  <2> QED
    BY <2>3, <2>6, <2>7
<1> QED
  BY <1>3, <1>4

LEMMA NextThreads == ThreadsInv /\ [ThreadsNext]_threadVars => ThreadsInv'
<1> SUFFICES ASSUME ThreadsInv, [ThreadsNext]_threadVars PROVE ThreadsInv'
  OBVIOUS
<1>1. CASE thread_create
  BY <1>1, CreateThreads
<1>2. CASE \E next \in Ids : scheduler(next)
  BY <1>2, SwitchThreads
<1>3. CASE UNCHANGED threadVars
  BY <1>3 DEF threadVars, ThreadsInv, ThreadsTypeOK, OneRunning, OwnStackSaved, Ready
<1> QED
  BY <1>1, <1>2, <1>3 DEF ThreadsNext, YieldAlone

(* However many threads there are and in whatever order they are created   *)
(* and yield, thread.c's books agree with the machine and every READY      *)
(* thread resumes on its own stack.                                        *)
THEOREM SwitchesAreSound == ThreadsSpec => [](ThreadsTypeOK /\ OneRunning /\ OwnStackSaved)
<1>1. ThreadsInv => ThreadsTypeOK /\ OneRunning /\ OwnStackSaved
  BY DEF ThreadsInv
<1> QED
  BY InitThreads, NextThreads, <1>1, PTL DEF ThreadsSpec

(* A thread that thread_yield can switch to finds the stack pointer that   *)
(* it left behind itself, and none of another thread's.                    *)
THEOREM ResumesOwnStack == ThreadsSpec => []OwnStackSaved
BY SwitchesAreSound, PTL

-----------------------------------------------------------------------------
(* Clock. *)

Booting == {"boot", "idt", "timer", "enable"}
Counter == 0 .. WIDTH - 1

Types ==
  /\ tick_count \in Counter /\ irqs \in Counter /\ start \in Counter
  /\ ticks \in Nat /\ pulses \in Nat
  /\ irr \in BOOLEAN
  /\ ipc \in {"none", "stub", "eoi", "iret"}

(* What is set up when, and how far the interrupt in progress has counted. *)
Ordered ==
  /\ pc \in {"timer", "enable"} => idt
  /\ pc = "enable" => handler
  /\ pc \notin Booting => idt /\ handler
  /\ IF_ \/ ipc # "none" => pc \notin Booting

Counted ==
  irqs = IF ipc = "stub" /\ r15 = 0 THEN (tick_count + 1) % WIDTH ELSE tick_count

Count(b) == IF b THEN 1 ELSE 0
Balance == Elapsed + Count(irr) + Count(ipc = "stub") <= pulses + 1

ClockInv == Types /\ Ordered /\ Counted /\ Balance

-----------------------------------------------------------------------------
LEMMA Width == WIDTH \in Nat /\ WIDTH > 0
BY ClockAssumption

(* Arithmetic modulo WIDTH. *)
LEMMA Modulo ==
  /\ \A a \in Int : a % WIDTH \in Counter
  /\ \A a \in Counter : a % WIDTH = a
  /\ \A a \in Int : a >= WIDTH /\ a < 2 * WIDTH => a % WIDTH = a - WIDTH
  /\ \A a \in Int : a < 0 /\ a >= -WIDTH => a % WIDTH = a + WIDTH
BY Width DEF Counter

(* One more tick makes the time that has passed at most one tick longer,   *)
(* also when tick_count wraps round.                                       *)
LEMMA OneTick ==
  ASSUME NEW t \in Counter, NEW s \in Counter
  PROVE  /\ (t + 1) % WIDTH \in Counter
         /\ (t - s) % WIDTH \in Counter
         /\ (((t + 1) % WIDTH) - s) % WIDTH <= ((t - s) % WIDTH) + 1
<1> USE Width DEF Counter
<1>1. (t + 1) % WIDTH = IF t + 1 = WIDTH THEN 0 ELSE t + 1
  BY Modulo
<1>2. \A u \in Counter : (u - s) % WIDTH = IF u >= s THEN u - s ELSE u - s + WIDTH
  <2> TAKE u \in Counter
  <2>1. CASE u >= s
    <3>1. u - s \in Counter
      BY <2>1
    <3> QED
      BY <2>1, <3>1, Modulo
  <2>2. CASE u < s
    <3>1. u - s \in Int /\ u - s < 0 /\ u - s >= -WIDTH
      BY <2>2
    <3> QED
      BY <2>2, <3>1, Modulo
  <2> QED
    BY <2>1, <2>2
<1> QED
  BY <1>1, <1>2

LEMMA InitClock == Init => ClockInv
<1> SUFFICES ASSUME Init PROVE ClockInv
  OBVIOUS
<1>0. irr \in BOOLEAN
  BY DEF Init
<1>1. Types /\ Counted
  BY <1>0, Width DEF Init, Types, Counter, Counted
<1>2. Ordered
  BY DEF Init, Ordered, Booting
<1>3. Balance
  BY Width, Modulo DEF Init, Balance, Elapsed, Count, Counter
<1> QED
  BY <1>1, <1>2, <1>3 DEF ClockInv

(* The steps of the foreground that neither enter sleep nor touch the PIC. *)
LEMMA QuietClock ==
  ASSUME ClockInv, ipc = "none",
         UNCHANGED <<ticks, start, irr, ipc, irqs, tick_count, pulses>>
  PROVE  Types' /\ Counted' /\ Balance'
<1>1. Types'
  BY DEF ClockInv, Types
<1>2. Counted'
  BY DEF ClockInv, Counted
<1>3. Balance'
  BY DEF ClockInv, Balance, Elapsed
<1> QED
  BY <1>1, <1>2, <1>3

LEMMA SleepClock ==
  ASSUME ClockInv, NEW from, NEW who, NEW n \in Nat, EnterSleep(from, who, n),
         from \in {"run", "again"}, IF_' \in {IF_, FALSE}
  PROVE  ClockInv'
<1> USE DEF EnterSleep, Foreground, irqVars, picVars
<1>1. Types'
  BY DEF ClockInv, Types
<1>2. Ordered'
  BY DEF ClockInv, Ordered, Booting
<1>3. Counted'
  BY DEF ClockInv, Counted
<1>4. Balance'
  <2>1. (tick_count' - start') % WIDTH = 0
    BY ClockAssumption, Modulo DEF ClockInv, Types, Counter
  <2> QED
    BY <2>1 DEF Balance, Elapsed, Count, ClockInv, Types
<1> QED
  BY <1>1, <1>2, <1>3, <1>4 DEF ClockInv

LEMMA ForegroundClock == ASSUME ClockInv, ForegroundStep PROVE ClockInv'
<1> USE DEF Foreground, irqVars, picVars
<1>1. CASE PicInit
  <2>1. Types' /\ Counted'
    BY <1>1 DEF PicInit, ClockInv, Types, Counted
  <2>2. Ordered'
    BY <1>1 DEF PicInit, ClockInv, Ordered, Booting
  <2>3. Balance'
    <3>1. Elapsed \in Counter /\ Elapsed' = Elapsed /\ ipc' = ipc /\ ~irr' /\ pulses' = pulses
      BY <1>1, OneTick DEF PicInit, ClockInv, Types, Elapsed
    <3> QED
      BY <3>1, Width DEF ClockInv, Types, Balance, Count, Counter
  <2> QED
    BY <2>1, <2>2, <2>3 DEF ClockInv
<1>2. CASE IdtInit
  <2>1. Ordered'
    BY <1>2 DEF IdtInit, ClockInv, Ordered, Booting
  <2> QED
    BY <1>2, <2>1, QuietClock DEF IdtInit, ClockInv
<1>3. CASE InitTimer
  <2>1. Ordered'
    BY <1>3 DEF InitTimer, ClockInv, Ordered, Booting
  <2> QED
    BY <1>3, <2>1, QuietClock DEF InitTimer, ClockInv
<1>4. CASE InterruptsEnable
  <2>1. Ordered'
    BY <1>4 DEF InterruptsEnable, ClockInv, Ordered, Booting
  <2> QED
    BY <1>4, <2>1, QuietClock DEF InterruptsEnable, ClockInv
<1>5. CASE Work
  <2>1. Ordered'
    BY <1>5 DEF Work, ClockInv, Ordered, Booting
  <2> QED
    BY <1>5, <2>1, QuietClock DEF Work, ClockInv
<1>6. CASE IdleHalt
  <2>1. Ordered'
    BY <1>6 DEF IdleHalt, ClockInv, Ordered, Booting
  <2> QED
    BY <1>6, <2>1, QuietClock DEF IdleHalt, ClockInv
<1>7. CASE \E n \in Sleeps : MainSleeps(n) \/ RebootCommand(n) \/ Fault(n)
  <2>1. PICK n \in Sleeps : MainSleeps(n) \/ RebootCommand(n) \/ Fault(n)
    BY <1>7
  <2>2. n \in Nat
    BY ClockAssumption
  <2> QED
    BY <2>1, <2>2, SleepClock DEF MainSleeps, RebootCommand, Fault
<1>8. CASE RebootAgain
  <2>1. ticks \in Nat
    BY DEF ClockInv, Types
  <2> QED
    BY <1>8, <2>1, SleepClock DEF RebootAgain
<1>9. CASE SleepTest
  <2>1. AfterSleep \in {"run", "again", "reboot"}
    BY DEF AfterSleep
  <2>2. Ordered'
    BY <1>9, <2>1 DEF SleepTest, ClockInv, Ordered, Booting
  <2> QED
    BY <1>9, <2>2, QuietClock DEF SleepTest, ClockInv
<1>10. CASE SleepHalt
  <2>1. Ordered'
    BY <1>10 DEF SleepHalt, ClockInv, Ordered, Booting
  <2> QED
    BY <1>10, <2>1, QuietClock DEF SleepHalt, ClockInv
<1>11. CASE PowerReboot
  <2>1. Ordered'
    BY <1>11 DEF PowerReboot, ClockInv, Ordered, Booting
  <2> QED
    BY <1>11, <2>1, QuietClock DEF PowerReboot, ClockInv
<1> QED
  BY <1>1, <1>2, <1>3, <1>4, <1>5, <1>6, <1>7, <1>8, <1>9, <1>10, <1>11 DEF ForegroundStep

LEMMA PulseClock == ASSUME ClockInv, Pulse PROVE ClockInv'
<1> USE DEF Pulse, fgVars, irqVars
<1>1. Types'
  BY ClockAssumption DEF ClockInv, Types
<1>2. Ordered' /\ Counted'
  BY DEF ClockInv, Ordered, Counted
<1>3. Balance'
  <2>1. Elapsed \in Counter /\ Elapsed' = Elapsed
    BY OneTick DEF ClockInv, Types, Elapsed
  <2> QED
    BY <2>1, ClockAssumption DEF ClockInv, Types, Balance, Count, Counter
<1> QED
  BY <1>1, <1>2, <1>3 DEF ClockInv

LEMMA InterruptClock == ASSUME ClockInv, TakeIrq \/ IrqStep PROVE ClockInv'
<1> USE DEF fgVars, picVars
<1>0. Elapsed \in Counter /\ (tick_count + 1) % WIDTH \in Counter
  BY OneTick DEF ClockInv, Types, Elapsed
<1>1. CASE TakeIrq
  <2>1. pc' \in {"run", "test", pc}
    BY <1>1 DEF TakeIrq
  <2>2. irqs' = IF r15 = 0 THEN (tick_count + 1) % WIDTH ELSE tick_count
    BY <1>1 DEF TakeIrq, ClockInv, Counted
  <2>3. Types' /\ Counted'
    BY <1>0, <1>1, <2>2 DEF TakeIrq, ClockInv, Types, Counted
  <2>4. Ordered'
    BY <1>1, <2>1 DEF TakeIrq, ClockInv, Ordered, Booting
  <2>5. Balance'
    BY <1>0, <1>1 DEF TakeIrq, ClockInv, Types, Balance, Elapsed, Count, Counter
  <2> QED
    BY <2>3, <2>4, <2>5 DEF ClockInv
<1>2. CASE IrqHandlerC
  <2>1. handler /\ ipc = "stub"
    BY <1>2 DEF IrqHandlerC, ClockInv, Ordered
  <2>2. tick_count' = irqs /\ irqs' = irqs
    BY <1>2, <2>1 DEF IrqHandlerC, ClockInv, Counted
  <2>3. Types' /\ Counted'
    BY <1>2, <2>2 DEF IrqHandlerC, ClockInv, Types, Counted
  <2>4. Ordered'
    BY <1>2 DEF IrqHandlerC, ClockInv, Ordered
  <2>5. Elapsed' \in Counter /\ Elapsed' <= Elapsed + 1
    <3>1. tick_count' \in {tick_count, (tick_count + 1) % WIDTH} /\ start' = start
      BY <1>2 DEF IrqHandlerC
    <3>2. tick_count \in Counter /\ start \in Counter
      BY DEF ClockInv, Types
    <3>3. CASE tick_count' = tick_count
      <4>1. Elapsed' = Elapsed /\ Elapsed <= Elapsed + 1
        BY <1>0, <3>1, <3>3, Width DEF Elapsed, Counter
      <4> QED
        BY <1>0, <4>1
    <3>4. CASE tick_count' = (tick_count + 1) % WIDTH
      <4>1. /\ (((tick_count + 1) % WIDTH) - start) % WIDTH <= ((tick_count - start) % WIDTH) + 1
            /\ (((tick_count + 1) % WIDTH) - start) % WIDTH \in Counter
        BY <1>0, <3>2, OneTick
      <4> QED
        BY <3>1, <3>4, <4>1 DEF Elapsed
    <3> QED
      BY <3>1, <3>3, <3>4
  <2>6. Balance'
    <3>1. Count(ipc = "stub") = 1 /\ Count(ipc' = "stub") = 0 /\ UNCHANGED <<irr, pulses>>
      BY <1>2 DEF IrqHandlerC, Count
    <3>2. Count(irr) \in {0, 1} /\ Count(irr') = Count(irr)
      BY <3>1 DEF Count
    <3>3. Elapsed + Count(irr) + 1 <= pulses + 1 /\ pulses \in Nat
      BY <3>1 DEF ClockInv, Types, Balance
    <3>4. Elapsed' + Count(irr') + 0 <= pulses' + 1
      BY <1>0, <2>5, <3>1, <3>2, <3>3, Width DEF Counter
    <3> QED
      BY <3>1, <3>4 DEF Balance
  <2> QED
    BY <2>3, <2>4, <2>6 DEF ClockInv
<1>3. CASE SendEoi \/ Iretq
  <2>1. Types' /\ Counted'
    BY <1>3 DEF SendEoi, Iretq, ClockInv, Types, Counted
  <2>2. Ordered'
    BY <1>3 DEF SendEoi, Iretq, ClockInv, Ordered
  <2>3. Balance'
    BY <1>0, <1>3 DEF SendEoi, Iretq, ClockInv, Types, Balance, Elapsed, Count, Counter
  <2> QED
    BY <2>1, <2>2, <2>3 DEF ClockInv
<1> QED
  BY <1>1, <1>2, <1>3 DEF IrqStep

LEMMA NextClock == ClockInv /\ [Next]_vars => ClockInv'
<1> SUFFICES ASSUME ClockInv, [Next]_vars PROVE ClockInv'
  OBVIOUS
<1>1. CASE UNCHANGED vars
  BY <1>1 DEF vars, fgVars, picVars, irqVars, ClockInv, Types, Ordered, Counted, Balance, Elapsed
<1> QED
  BY <1>1, ForegroundClock, PulseClock, InterruptClock DEF Next

-----------------------------------------------------------------------------
(* However wide tick_count is, timer_handler counts every timer interrupt  *)
(* that found r15 = 0 exactly once, and no interrupt is taken before       *)
(* init_interrupts has loaded the IDT and registered the handler.          *)
THEOREM TicksAreExact == Spec => []EveryIrqCounted
<1>1. ClockInv => EveryIrqCounted
  BY DEF ClockInv, Types, Ordered, Counted, EveryIrqCounted
<1> QED
  BY InitClock, NextClock, <1>1, PTL DEF Spec

(* Whatever the width, the argument and the moment it is called at, sleep  *)
(* does not return before ticks - 1 full periods have passed, also when    *)
(* tick_count wraps round during the sleep.                                *)
THEOREM SleepsLongEnough == Spec => SleepLongEnough
<1> DEFINE Enough == pc = "test" /\ pc' \in {"run", "again", "reboot"} => pulses >= ticks - 1
<1>1. ASSUME ClockInv, Next PROVE Enough
  <2> SUFFICES ASSUME pc = "test", pc' \in {"run", "again", "reboot"}
               PROVE  pulses >= ticks - 1
    OBVIOUS
  <2>1. SleepTest
    BY <1>1 DEF Next, ForegroundStep, PicInit, IdtInit, InitTimer, InterruptsEnable, Work,
                IdleHalt, MainSleeps, RebootCommand, Fault, RebootAgain, EnterSleep,
                SleepHalt, PowerReboot, Foreground, Pulse, TakeIrq, IrqStep, IrqHandlerC,
                SendEoi, Iretq, fgVars
  <2>2. ~(Elapsed < ticks)
    BY <2>1 DEF SleepTest, Foreground
  <2>3. Elapsed \in Counter
    BY <1>1, OneTick DEF ClockInv, Types, Elapsed
  <2> QED
    BY <1>1, <2>2, <2>3 DEF ClockInv, Types, Balance, Count, Counter
<1>2. ClockInv /\ [Next]_vars => [Enough]_vars
  BY <1>1
<1> QED
  BY InitClock, NextClock, <1>2, PTL DEF Spec, SleepLongEnough
=============================================================================
