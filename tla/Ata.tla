--------------------------------- MODULE Ata ---------------------------------
(***************************************************************************)
(* The PIO driver of drivers/sata/ata.c and the drive it talks to.         *)
(*                                                                         *)
(* The driver runs alone, but the drive runs beside it: between any two    *)
(* accesses to its registers it may finish what it is doing, fail, or do   *)
(* nothing for as long as it likes.  The driver's steps are one write of a *)
(* command, one look at the status, or one transfer of a sector.           *)
(*                                                                         *)
(* The drive is external and behaves as the ones the kernel runs on: it    *)
(* takes a command only when neither BSY nor DRQ is set and drops any      *)
(* other, shows ERR and DRQ only with BSY clear, and ignores data that     *)
(* flow in the direction its command does not have.                        *)
(***************************************************************************)
EXTENDS Integers

CONSTANTS
  Sectors,      \* the sectors of the drive
  Values,       \* the contents of a sector
  LBA28,        \* the first sector beyond 28 bits, 0x10000000 in the code
  LOW,          \* the sectors the three LBA registers tell apart, 2^24
  ATA_TIMEOUT,  \* looks at the status, 2000000 in the code
  Kinds         \* what may be on the bus

None == "none"

ASSUME AtaAssumption ==
  /\ Sectors \subseteq Nat /\ LBA28 \in Nat /\ LOW \in Nat \ {0}
  /\ ATA_TIMEOUT \in Nat \ {0}
  /\ Kinds \subseteq {"disk", "atapi", "empty", "floating"}
  /\ None \notin Values

VARIABLES
  kind,      \* what is on the bus: constant
  dev,       \* the drive's state, command, address and data register
  err,       \* ERR or DF
  regs,      \* what the three LBA registers hold
  store,     \* the sectors
  present,   \* g_ata0.present
  pc,        \* what the driver does next
  polls,     \* the looks at the status in this ata_poll
  call,      \* the call in progress
  result,    \* the result of the last call
  confused   \* is a command dropped, misaddressed or failed unseen?

devVars == <<dev, err, regs, store>>
vars == <<kind, devVars, present, pc, polls, call, result, confused>>

NoCall == [op |-> None, lba |-> 0, data |-> None]
Idle == [st |-> "idle", cmd |-> None, addr |-> 0, data |-> None]
Busy(cmd, addr, data) == [st |-> "busy", cmd |-> cmd, addr |-> addr, data |-> data]

Init ==
  /\ kind \in Kinds
  /\ dev = Idle /\ err = FALSE /\ regs = 0
  /\ store \in [Sectors -> Values]
  /\ present = FALSE
  /\ pc = "boot" /\ polls = 0 /\ call = NoCall
  /\ result = [ok |-> TRUE, data |-> None]
  /\ confused = FALSE

-----------------------------------------------------------------------------
(* The status register.  An empty channel reads as 0 or as 0xff. *)
BSY == kind = "floating" \/ dev.st = "busy"
DRQ == kind = "floating" \/ dev.st = "drq"
ERR == kind = "floating" \/ err

(* The drive takes a command, or drops it. *)
Command(cmd, addr) ==
  IF kind \in {"disk", "atapi"} /\ dev.st = "idle"
  THEN dev' = Busy(cmd, addr, None) /\ err' = FALSE
  ELSE UNCHANGED <<dev, err>>

(* The drive gets ready to transfer a sector, or finishes. *)
DriveReady ==
  /\ dev.st = "busy"
  /\ \/ /\ dev.cmd \in {"read", "write", "identify"}
        /\ kind = "disk" /\ dev.addr \in Sectors
        /\ dev' = [dev EXCEPT !.st = "drq"]
        /\ UNCHANGED store
     \/ /\ dev.cmd \in {"reset", "flush"}
        /\ dev' = Idle
        /\ UNCHANGED store
     \/ /\ dev.cmd = "writing"
        /\ store' = [store EXCEPT ![dev.addr] = dev.data]
        /\ dev' = Idle
  /\ UNCHANGED <<kind, err, regs, present, pc, polls, call, result, confused>>

(* It may fail instead.  Once it has the data of a write, nothing in the   *)
(* driver looks at that any more.                                          *)
DriveFails ==
  /\ dev.st = "busy" /\ dev.cmd # "reset"
  /\ dev' = Idle /\ err' = TRUE
  /\ confused' = (confused \/ dev.cmd = "writing")
  /\ UNCHANGED <<kind, regs, store, present, pc, polls, call, result>>

-----------------------------------------------------------------------------
(* ata_poll: at most ATA_TIMEOUT looks until BSY is clear, then one more,  *)
(* of which the rest of the driver learns.                                 *)
Polling == {"reset_poll", "ident_poll", "ident_data", "data_poll", "flush_poll"}

PollTurn ==
  /\ pc \in Polling /\ polls < ATA_TIMEOUT
  /\ polls' = IF BSY THEN polls + 1 ELSE ATA_TIMEOUT
  /\ UNCHANGED <<kind, devVars, present, pc, call, result, confused>>

PollOk(check_error) == ~ERR /\ (check_error => DRQ)
Polled(l) == pc = l /\ polls = ATA_TIMEOUT /\ polls' = 0

(* A call returns. *)
Return(ok, data) ==
  /\ pc' = "idle" /\ call' = NoCall
  /\ result' = [ok |-> ok, data |-> data]

-----------------------------------------------------------------------------
(* ata_init at boot: ata_soft_reset, whose poll is not looked at, then     *)
(* IDENTIFY.                                                               *)
SoftReset ==
  /\ pc = "boot" /\ pc' = "reset_poll"
  /\ IF kind \in {"disk", "atapi"} THEN dev' = Busy("reset", 0, None) ELSE UNCHANGED dev
  /\ UNCHANGED <<kind, err, regs, store, present, polls, call, result, confused>>

IdentifyCommand ==
  /\ Polled("reset_poll")
  /\ Command("identify", 0)
  /\ regs' = IF dev.st = "idle" THEN 0 ELSE regs
  /\ pc' = "ident_status"
  /\ UNCHANGED <<kind, store, present, call, result, confused>>

(* A status of 0: nothing is there. *)
IdentifyStatus ==
  /\ pc = "ident_status"
  /\ pc' = IF kind = "empty" THEN "idle" ELSE "ident_poll"
  /\ UNCHANGED <<kind, devVars, present, polls, call, result, confused>>

(* The drive refuses IDENTIFY, or may show the signature of a packet       *)
(* device in LBA1 and LBA2.                                                *)
IdentifyPolled ==
  /\ Polled("ident_poll")
  /\ \/ PollOk(FALSE) /\ pc' = "ident_data"
     \/ (~PollOk(FALSE) \/ kind = "atapi") /\ pc' = "idle"
  /\ UNCHANGED <<kind, devVars, present, call, result, confused>>

IdentifyData ==
  /\ Polled("ident_data")
  /\ \/ /\ PollOk(TRUE)
        /\ dev' = Idle /\ present' = TRUE
     \/ /\ ~PollOk(TRUE)
        /\ UNCHANGED <<dev, present>>
  /\ pc' = "idle"
  /\ UNCHANGED <<kind, err, regs, store, call, result, confused>>

-----------------------------------------------------------------------------
(* ata_get_disk_ops hands out the two calls only if a disk was found. *)
Calls == [op : {"read"}, lba : Sectors, data : {None}] \cup [op : {"write"}, lba : Sectors, data : Values]

Begin(c) ==
  /\ pc = "idle" /\ present
  /\ call' = c /\ pc' = "issue"
  /\ confused' = (c.lba >= LBA28 \/ dev.st # "idle")
  /\ UNCHANGED <<kind, devVars, present, polls, result>>

(* The address the drive gets.  Beyond 28 bits the EXT commands are used,  *)
(* which take the upper half from what the LBA registers held before:      *)
(* SECCOUNT1 and LBA3-5 are written to ports that are not the drive's.     *)
Address(lba) == IF lba < LBA28 THEN lba ELSE regs * LOW + (lba % LOW)

(* The registers and the command of ata_pio_read and ata_pio_write. *)
Issue ==
  /\ pc = "issue" /\ pc' = "data_poll"
  /\ Command(call.op, Address(call.lba))
  /\ regs' = IF dev.st = "idle" THEN call.lba % LOW ELSE regs
  /\ UNCHANGED <<kind, store, present, polls, call, result, confused>>

DataPolled ==
  /\ Polled("data_poll")
  /\ \/ PollOk(TRUE) /\ pc' = "transfer" /\ UNCHANGED <<call, result>>
     \/ ~PollOk(TRUE) /\ Return(FALSE, None)
  /\ UNCHANGED <<kind, devVars, present, confused>>

(* insw: the sector of whatever command the drive has data for. *)
ReadData ==
  /\ pc = "transfer" /\ call.op = "read"
  /\ \/ /\ dev.cmd \in {"read", "identify"}
        /\ dev' = Idle
        /\ Return(TRUE, store[dev.addr])
     \/ /\ dev.cmd = "write"
        /\ \E v \in Values : Return(TRUE, v)
        /\ UNCHANGED dev
  /\ UNCHANGED <<kind, err, regs, store, present, polls, confused>>

(* outsw: the drive starts to write, if it waits for data. *)
WriteData ==
  /\ pc = "transfer" /\ call.op = "write" /\ pc' = "flush"
  /\ dev' = IF dev.cmd = "write" THEN Busy("writing", dev.addr, call.data) ELSE dev
  /\ UNCHANGED <<kind, err, regs, store, present, polls, call, result, confused>>

(* Cache flush, sent at once: a drive that is still writing drops it. *)
Flush ==
  /\ pc = "flush" /\ pc' = "flush_poll"
  /\ Command("flush", 0)
  /\ UNCHANGED <<kind, regs, store, present, polls, call, result, confused>>

(* Mutant: the write returns without the last poll.                        *)
FlushPolledAtOnce ==
  /\ pc = "flush_poll" /\ polls' = 0
  /\ Return(TRUE, None)
  /\ UNCHANGED <<kind, devVars, present, confused>>

(* Mutant: a busy drive is polled for ever.                                *)
FlushPolledBusy ==
  /\ Polled("flush_poll") /\ ~BSY
  /\ Return(TRUE, None)
  /\ confused' = (confused \/ dev.st # "idle")
  /\ UNCHANGED <<kind, devVars, present>>

(* The result of the last poll is dropped. *)
FlushPolled ==
  /\ Polled("flush_poll")
  /\ Return(TRUE, None)
  /\ confused' = (confused \/ dev.st # "idle")
  /\ UNCHANGED <<kind, devVars, present>>

-----------------------------------------------------------------------------
Driver ==
  \/ SoftReset \/ IdentifyCommand \/ IdentifyStatus \/ IdentifyPolled \/ IdentifyData
  \/ PollTurn \/ Issue \/ DataPolled \/ ReadData \/ WriteData \/ Flush \/ FlushPolled

Next == Driver \/ (\E c \in Calls : Begin(c)) \/ DriveReady \/ DriveFails

Spec == Init /\ [][Next]_vars

(* The CPU goes on; the drive need not. *)
FairSpec == Spec /\ WF_vars(Driver)

-----------------------------------------------------------------------------
(* Every call that finds the drive idle does what DiskOps promises, within *)
(* the first 28 bits of addresses: also after calls that timed out or      *)
(* failed.  A call that finds the drive with an answer to an earlier one,  *)
(* and a write that fails after its data were taken, are not covered.      *)
Device == INSTANCE BlockDevice WITH pending <- call
RefinesBlockDevice == Device!Spec

(* ata_init and every call return, even if the drive never answers: all    *)
(* waiting is bounded by ATA_TIMEOUT.                                      *)
EveryCallReturns == pc # "idle" ~> pc = "idle"
=============================================================================
