------------------------------- MODULE Clock -------------------------------
(***************************************************************************)
(* The timer interrupt from the PIT to sleep: init_interrupts, the PIC,    *)
(* the IRQ stub and irq_handler_c, timer_handler, sleep, and the two users *)
(* of sleep that end in power_reboot, the reboot command and the blue      *)
(* screen.                                                                 *)
(*                                                                         *)
(* The foreground is kmain; an interrupt suspends it between any two       *)
(* steps.  Only IRQ 0 is unmasked.  The PIT, the 8259 and the keyboard     *)
(* controller are external and appear as their effect on a few bits.       *)
(***************************************************************************)
EXTENDS Integers

CONSTANTS
  WIDTH,     \* tick_count is a uint64_t: arithmetic is modulo WIDTH
  Sleeps,    \* the tick counts sleep is called with
  R15        \* what r15 may hold in the interrupted code

ASSUME ClockAssumption ==
  /\ WIDTH \in Nat \ {0}
  /\ Sleeps \subseteq 1 .. WIDTH - 5
  /\ R15 \subseteq Nat /\ R15 # {}

VARIABLES
  pc,        \* where the foreground is
  caller,    \* who called sleep: "main", "reboot" or "panic"
  again,     \* the reboot command: calls of sleep still to make
  start,     \* sleep's start_tick
  ticks,     \* sleep's argument
  IF_,       \* the interrupt flag of the CPU
  idt,       \* is the IDT loaded?
  handler,   \* is irq_handlers[0] set?
  masked,    \* is IRQ 0 masked in the PIC?
  irr, isr,  \* IRQ 0 requested, and in service, in the PIC
  r15,
  ipc,       \* where the interrupt stub is; "none" outside
  tick_count,
  irqs,      \* timer interrupts the CPU took with r15 = 0, modulo WIDTH
  pulses,    \* PIT periods since sleep was called, up to WIDTH
  ran        \* has the foreground moved since the last period?

fgVars == <<pc, caller, again, start, ticks>>
picVars == <<masked, irr, isr>>
irqVars == <<ipc, tick_count, irqs>>
vars == <<fgVars, IF_, idt, handler, picVars, r15, irqVars, pulses, ran>>

(* Limine enters kmain with interrupts disabled and the PIC masked. *)
Init ==
  /\ pc = "boot" /\ caller = "main" /\ again = 0 /\ start = 0 /\ ticks = 0
  /\ IF_ = FALSE /\ idt = FALSE /\ handler = FALSE
  /\ masked = TRUE /\ irr = FALSE /\ isr = FALSE
  /\ r15 \in R15
  /\ ipc = "none" /\ irqs = 0 /\ tick_count = 0
  /\ pulses = 0 /\ ran = TRUE

-----------------------------------------------------------------------------
(* The foreground moves only outside an interrupt. *)
Foreground(from, to) ==
  /\ ipc = "none" /\ pc = from /\ pc' = to
  /\ ran' = TRUE
  /\ UNCHANGED irqVars

(* init_interrupts, in its order: pic_init (which drops old requests), the *)
(* IDT, the handler, and interrupts_enable last.                           *)
PicInit ==
  /\ Foreground("boot", "idt")
  /\ masked' = FALSE /\ irr' = FALSE /\ isr' = FALSE
  /\ UNCHANGED <<caller, again, start, ticks, IF_, idt, handler, r15, pulses>>

(* Mutant: interrupts are enabled before the handler is registered.        *)
IdtInitEnables ==
  /\ Foreground("idt", "timer")
  /\ idt' = TRUE /\ IF_' = TRUE
  /\ UNCHANGED <<caller, again, start, ticks, handler, picVars, r15, pulses>>

IdtInit ==
  /\ Foreground("idt", "timer")
  /\ idt' = TRUE
  /\ UNCHANGED <<caller, again, start, ticks, IF_, handler, picVars, r15, pulses>>

InitTimer ==
  /\ Foreground("timer", "enable")
  /\ handler' = TRUE
  /\ UNCHANGED <<caller, again, start, ticks, IF_, idt, picVars, r15, pulses>>

InterruptsEnable ==
  /\ Foreground("enable", "run")
  /\ IF_' = TRUE
  /\ UNCHANGED <<caller, again, start, ticks, idt, handler, picVars, r15, pulses>>

(* Anything else kmain does; the compiler may leave anything in r15. *)
Work ==
  /\ Foreground("run", "run")
  /\ r15' \in R15
  /\ UNCHANGED <<caller, again, start, ticks, IF_, idt, handler, picVars, pulses>>

(* The hlt at the end of kmain's loop. *)
IdleHalt ==
  /\ Foreground("run", "idle")
  /\ UNCHANGED <<caller, again, start, ticks, IF_, idt, handler, picVars, r15, pulses>>

(* sleep, entered with n ticks. *)
EnterSleep(from, who, n) ==
  /\ Foreground(from, "test")
  /\ caller' = who
  /\ start' = tick_count
  /\ ticks' = n
  /\ pulses' = 0
  /\ UNCHANGED <<idt, handler, picVars, r15>>

MainSleeps(n) == EnterSleep("run", "main", n) /\ UNCHANGED <<again, IF_>>

(* The reboot command: sleep_s(1) three times, then power_reboot. *)
RebootCommand(n) ==
  EnterSleep("run", "reboot", n) /\ again' = 2 /\ UNCHANGED IF_

RebootAgain ==
  EnterSleep("again", "reboot", ticks) /\ again' = again - 1 /\ UNCHANGED IF_

(* A CPU exception: every gate is an interrupt gate, so isr_handler runs   *)
(* with interrupts off; trigger_blue_screen announces the reboot and       *)
(* sleeps.                                                                 *)
Fault(n) ==
  /\ idt
  /\ EnterSleep("run", "panic", n)
  /\ IF_' = FALSE
  /\ UNCHANGED again

(* Where sleep returns to. *)
AfterSleep ==
  CASE caller = "main" -> "run"
    [] caller = "reboot" /\ again > 0 -> "again"
    [] OTHER -> "reboot"

Elapsed == (tick_count - start) % WIDTH

(* Mutant: the deadline is computed first and wraps round on its own.      *)
SleepTestDeadline ==
  /\ Foreground("test", IF tick_count < (start + ticks) % WIDTH THEN "hlt" ELSE AfterSleep)
  /\ UNCHANGED <<caller, again, start, ticks, IF_, idt, handler, picVars, r15, pulses>>

(* sleep's while: the condition, and the hlt as a step of its own, because *)
(* the tick may come between the two.                                      *)
SleepTest ==
  /\ Foreground("test", IF Elapsed < ticks THEN "hlt" ELSE AfterSleep)
  /\ UNCHANGED <<caller, again, start, ticks, IF_, idt, handler, picVars, r15, pulses>>

SleepHalt ==
  /\ Foreground("hlt", "halted")
  /\ UNCHANGED <<caller, again, start, ticks, IF_, idt, handler, picVars, r15, pulses>>

(* power_reboot: the controller takes the reset, or it is busy for all the *)
(* polls and the function returns to its caller.                           *)
PowerReboot ==
  /\ Foreground("reboot", "reset") \/ Foreground("reboot", "run")
  /\ UNCHANGED <<caller, again, start, ticks, IF_, idt, handler, picVars, r15, pulses>>

-----------------------------------------------------------------------------
(* The PIT raises IRQ 0.  A request that is still pending swallows it.     *)
(* Its period is far longer than a step of the foreground: a CPU that is   *)
(* not halted gets one in between.                                         *)
Halted == pc \in {"idle", "halted"}

Pulse ==
  /\ pc # "reset"
  /\ ran
  /\ ran' = Halted
  /\ irr' = TRUE
  /\ pulses' = IF pulses < WIDTH THEN pulses + 1 ELSE pulses
  /\ UNCHANGED <<fgVars, IF_, idt, handler, masked, isr, r15, irqVars>>

(* The CPU takes the interrupt: the gate clears the interrupt flag, and a  *)
(* halted foreground will go on after its hlt.                             *)
TakeIrq ==
  /\ ipc = "none" /\ IF_ /\ irr /\ ~isr /\ ~masked
  /\ irr' = FALSE /\ isr' = TRUE
  /\ IF_' = FALSE
  /\ irqs' = IF r15 = 0 THEN (irqs + 1) % WIDTH ELSE irqs
  /\ ipc' = "stub"
  /\ pc' = CASE pc = "idle" -> "run" [] pc = "halted" -> "test" [] OTHER -> pc
  /\ UNCHANGED <<caller, again, start, ticks, idt, handler, masked, r15,
                 tick_count, pulses, ran>>

(* irq_handler_c: the number is taken from the last word the stub pushed,  *)
(* which is r15.  timer_handler counts the tick and sends an EOI of its    *)
(* own.                                                                    *)
IrqHandlerC ==
  /\ ipc = "stub" /\ ipc' = "eoi"
  /\ IF r15 = 0 /\ handler
     THEN tick_count' = (tick_count + 1) % WIDTH /\ isr' = FALSE
     ELSE UNCHANGED <<tick_count, isr>>
  /\ UNCHANGED <<fgVars, IF_, idt, handler, masked, irr, r15, irqs, pulses, ran>>

(* pic_send_eoi, whatever the number: the command always goes to the       *)
(* master.                                                                 *)
SendEoi ==
  /\ ipc = "eoi" /\ ipc' = "iret"
  /\ isr' = FALSE
  /\ UNCHANGED <<fgVars, IF_, idt, handler, masked, irr, r15, tick_count,
                 irqs, pulses, ran>>

(* Mutant: the stub returns with interrupts off.                           *)
IretqDisabled ==
  /\ ipc = "iret" /\ ipc' = "none"
  /\ UNCHANGED <<fgVars, IF_, idt, handler, picVars, r15, tick_count, irqs,
                 pulses, ran>>

(* sti and iretq *)
Iretq ==
  /\ ipc = "iret" /\ ipc' = "none"
  /\ IF_' = TRUE
  /\ UNCHANGED <<fgVars, idt, handler, picVars, r15, tick_count, irqs,
                 pulses, ran>>

ForegroundStep ==
  \/ PicInit \/ IdtInit \/ InitTimer \/ InterruptsEnable
  \/ Work \/ IdleHalt
  \/ \E n \in Sleeps : MainSleeps(n) \/ RebootCommand(n) \/ Fault(n)
  \/ RebootAgain \/ SleepTest \/ SleepHalt \/ PowerReboot

IrqStep == IrqHandlerC \/ SendEoi \/ Iretq

Next == ForegroundStep \/ Pulse \/ TakeIrq \/ IrqStep

Spec == Init /\ [][Next]_vars

(* The CPU executes, takes the interrupts it is offered, and the PIT keeps *)
(* running.  The foreground is interrupted again and again, hence SF.      *)
FairSpec ==
  Spec /\ WF_vars(Pulse) /\ WF_vars(TakeIrq) /\ WF_vars(IrqStep) /\ SF_vars(ForegroundStep)

-----------------------------------------------------------------------------
(* tick_count counts, once each, the timer interrupts that found r15 = 0  *)
(* in the code they interrupted, and no other; from the first one on the   *)
(* IDT is loaded and the handler registered.                               *)
EveryIrqCounted ==
  /\ ipc = "none" => tick_count = irqs
  /\ ipc # "none" => idt /\ handler

(* sleep(n) lasts at least n - 1 full periods, also when tick_count wraps  *)
(* round; the first tick may have been on its way when it was called.      *)
SleepLongEnough ==
  [][pc = "test" /\ pc' \in {"run", "again", "reboot"} => pulses >= ticks - 1]_vars

(* sleep returns, whatever ticks come between its test and its hlt, if its *)
(* caller keeps r15 at 0.  From the blue screen, which sleeps with         *)
(* interrupts off, it never does.                                          *)
SleepEnds ==
  pc = "test" /\ caller # "panic" /\ r15 = 0 ~> pc \in {"run", "again", "reboot"}
=============================================================================
