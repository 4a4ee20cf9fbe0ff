----------------------------- MODULE AtaProofs -----------------------------
(***************************************************************************)
(* Ata implements BlockDevice, for drives of any size, sectors of any      *)
(* contents and any ATA_TIMEOUT.                                           *)
(*                                                                         *)
(* The refinement needs to know what the drive is doing at each point of a *)
(* call.  As long as the drive is not confused it is idle or works on the  *)
(* command of the call in progress, at its address (Asked), and once it    *)
(* has the data of a write it is either writing them or has written them   *)
(* (Given).                                                                *)
(***************************************************************************)
EXTENDS Ata, TLAPS

Setup == {"boot", "reset_poll", "ident_status", "ident_poll", "ident_data"}
Asking == {"data_poll", "transfer"}
Writing == {"flush", "flush_poll"}
Commands == {None, "reset", "identify", "read", "write", "writing", "flush"}

Types ==
  /\ dev \in [st : {"idle", "busy", "drq"}, cmd : Commands, addr : Nat, data : Values \cup {None}]
  /\ dev.cmd = "writing" => dev.data \in Values
  /\ regs \in Nat
  /\ store \in [Sectors -> Values]
  /\ pc \in Setup \cup {"idle", "issue"} \cup Asking \cup Writing
  /\ call \in Calls \cup {NoCall}

(* A call is in progress exactly between Begin and Return, and only on a   *)
(* drive that was found.                                                   *)
InCall ==
  /\ (call = NoCall) <=> pc \in Setup \cup {"idle"}
  /\ pc \in Writing => call.op = "write"
  /\ present \/ call # NoCall => kind # "floating"
  /\ pc \in Setup => ~confused /\ dev.cmd # "writing"

Asked ==
  ~confused /\ call # NoCall =>
    /\ call.lba < LBA28
    /\ pc = "issue" => dev.st = "idle"
    /\ pc \in Asking => dev.st = "idle" \/ (dev.cmd = call.op /\ dev.addr = call.lba)
    /\ pc = "transfer" => dev.st = "drq"

BusyWriting == dev.st = "busy" /\ dev.cmd = "writing"

Given ==
  ~confused =>
    /\ BusyWriting => pc \in Writing /\ dev.addr = call.lba /\ dev.data = call.data
    /\ pc \in Writing => BusyWriting \/ store[call.lba] = call.data

IInv == Types /\ InCall /\ Asked /\ Given

-----------------------------------------------------------------------------
LEMMA CallFacts ==
  /\ NoCall \notin Calls
  /\ \A c \in Calls : c.op \in {"read", "write"} /\ c.lba \in Sectors /\ c.lba \in Nat
  /\ \A c \in Calls : c.op = "write" => c.data \in Values
BY AtaAssumption DEF Calls, NoCall, None

LEMMA InitIInv == Init => IInv
<1> SUFFICES ASSUME Init PROVE IInv
  OBVIOUS
<1>1. Types
  BY DEF Init, Types, Idle, Commands, None, Setup
<1>2. InCall
  BY DEF Init, InCall, Setup, Writing, Idle, None
<1>3. Asked /\ Given
  BY DEF Init, Asked, Given, BusyWriting, Idle, Writing
<1> QED
  BY <1>1, <1>2, <1>3 DEF IInv

(* The drive's own steps. *)
LEMMA DriveIInv == ASSUME IInv, DriveReady \/ DriveFails PROVE IInv'
<1> USE DEF IInv
<1>1. CASE DriveFails
  <2>1. /\ dev' = Idle /\ UNCHANGED <<kind, regs, store, present, pc, call>>
        /\ confused' = (confused \/ dev.cmd = "writing") /\ dev.st = "busy"
    BY <1>1 DEF DriveFails
  <2>2. Types'
    BY <2>1 DEF Types, Idle, Commands, None
  <2>3. InCall'
    BY <2>1 DEF InCall, Idle, None
  <2>4. Asked'
    BY <2>1 DEF Asked, Idle
  <2>5. Given'
    BY <2>1 DEF Given, BusyWriting, Idle
  <2> QED
    BY <2>2, <2>3, <2>4, <2>5
<1>2. CASE DriveReady /\ UNCHANGED store /\ dev' = [dev EXCEPT !.st = "drq"]
  <2>1. /\ dev.st = "busy" /\ UNCHANGED <<kind, regs, present, pc, call, confused>>
        /\ dev.cmd # "writing"
    <3>1. dev' # Idle
      BY <1>2 DEF Idle, Types
    <3> QED
      BY <1>2, <3>1 DEF DriveReady
  <2>2. dev'.st = "drq" /\ dev'.cmd = dev.cmd /\ dev'.addr = dev.addr
    BY <1>2 DEF Types
  <2>3. Types'
    BY <1>2, <2>1 DEF Types
  <2>4. InCall'
    BY <2>1, <2>2 DEF InCall
  <2>5. Asked'
    BY <2>1, <2>2 DEF Asked
  <2>6. Given'
    BY <1>2, <2>1, <2>2 DEF Given, BusyWriting
  <2> QED
    BY <2>3, <2>4, <2>5, <2>6
<1>3. CASE DriveReady /\ dev' = Idle
  <2>1. dev.st = "busy" /\ UNCHANGED <<kind, regs, present, pc, call, confused>>
    BY <1>3 DEF DriveReady
  <2>2. CASE UNCHANGED store /\ dev.cmd # "writing"
    <3>1. Types' /\ InCall'
      BY <1>3, <2>1, <2>2 DEF Types, InCall, Idle, Commands, None
    <3>2. Asked' /\ Given'
      BY <1>3, <2>1, <2>2 DEF Asked, Given, BusyWriting, Idle, Asking
    <3> QED
      BY <3>1, <3>2
  <2>3. CASE dev.cmd = "writing" /\ store' = [store EXCEPT ![dev.addr] = dev.data]
    <3>1. InCall' /\ Asked'
      BY <1>3, <2>1, <2>3 DEF InCall, Asked, Idle, None
    <3>2. Types'
      BY <1>3, <2>1, <2>3 DEF Types, Idle, Commands, None
    <3>3. Given'
      <4> SUFFICES ASSUME ~confused PROVE Given'
        BY <2>1 DEF Given
      <4>1. pc \in Writing /\ dev.addr = call.lba /\ dev.data = call.data
        BY <2>1, <2>3 DEF Given, BusyWriting
      <4>2. call \in Calls
        BY <4>1 DEF InCall, Types, Writing, Setup
      <4>3. store'[call.lba] = call.data
        BY <2>3, <4>1, <4>2, CallFacts DEF Types
      <4> QED
        BY <1>3, <2>1, <4>3 DEF Given, BusyWriting, Idle
    <3> QED
      BY <3>1, <3>2, <3>3
  <2> QED
    BY <1>3, <2>2, <2>3 DEF DriveReady
<1> QED
  BY <1>1, <1>2, <1>3 DEF DriveReady

(* A command that ata_init or the flush sends, or that is dropped. *)
LEMMA CommandFacts ==
  ASSUME NEW cmd, NEW addr, Command(cmd, addr)
  PROVE  dev' = dev \/ (dev.st = "idle" /\ dev' = Busy(cmd, addr, None))
BY DEF Command

LEMMA SetupIInv ==
  ASSUME IInv, SoftReset \/ IdentifyCommand \/ IdentifyStatus \/ IdentifyPolled \/ IdentifyData
  PROVE  IInv'
<1> USE DEF IInv
<1>1. pc \in Setup /\ pc' \in Setup \cup {"idle"}
  BY DEF SoftReset, IdentifyCommand, IdentifyStatus, IdentifyPolled, IdentifyData, Polled, Setup
<1>2. call = NoCall /\ ~confused /\ dev.cmd # "writing"
  BY <1>1 DEF InCall
<1>3. UNCHANGED <<kind, store, call, confused>>
  BY DEF SoftReset, IdentifyCommand, IdentifyStatus, IdentifyPolled, IdentifyData, devVars
<1>4. dev' \in {dev, Idle, Busy("reset", 0, None), Busy("identify", 0, None)}
  BY CommandFacts
  DEF SoftReset, IdentifyCommand, IdentifyStatus, IdentifyPolled, IdentifyData, devVars
<1>5. regs' \in {regs, 0}
  BY DEF SoftReset, IdentifyCommand, IdentifyStatus, IdentifyPolled, IdentifyData, devVars
<1>6. present' = present \/ kind # "floating"
  BY DEF SoftReset, IdentifyCommand, IdentifyStatus, IdentifyPolled, IdentifyData, PollOk, ERR
<1>7. Types'
  BY <1>1, <1>2, <1>3, <1>4, <1>5 DEF Types, Idle, Busy, Commands, None
<1>8. InCall'
  BY <1>1, <1>2, <1>3, <1>4, <1>6 DEF InCall, Idle, Busy, None, Setup, Writing
<1>9. Asked' /\ Given'
  BY <1>1, <1>2, <1>3, <1>4 DEF Asked, Given, BusyWriting, Idle, Busy, None, Setup, Writing
<1> QED
  BY <1>7, <1>8, <1>9

LEMMA BeginIInv == ASSUME IInv, NEW c \in Calls, Begin(c) PROVE IInv'
<1> USE DEF IInv
<1>1. /\ pc = "idle" /\ present /\ pc' = "issue" /\ call' = c
      /\ confused' = (c.lba >= LBA28 \/ dev.st # "idle")
      /\ UNCHANGED <<kind, dev, regs, store, present>>
  BY DEF Begin, devVars
<1>2. Types'
  BY <1>1 DEF Types
<1>3. InCall'
  BY <1>1, CallFacts DEF InCall, Setup, Writing
<1>4. ~confused' => c.lba < LBA28 /\ dev.st = "idle"
  <2>1. c.lba \in Nat /\ LBA28 \in Nat
    BY CallFacts, AtaAssumption
  <2>2. ~confused' => ~(c.lba >= LBA28) /\ dev.st = "idle"
    BY <1>1, Zenon
  <2> QED
    BY <2>1, <2>2
<1>5. Asked'
  BY <1>1, <1>4 DEF Asked, Asking
<1>6. Given'
  BY <1>1, <1>4 DEF Given, BusyWriting, Writing
<1> QED
  BY <1>2, <1>3, <1>5, <1>6

LEMMA IssueIInv == ASSUME IInv, Issue PROVE IInv'
<1> USE DEF IInv
<1>1. /\ pc = "issue" /\ pc' = "data_poll"
      /\ UNCHANGED <<kind, store, present, call, confused>>
  BY DEF Issue
<1>2. call \in Calls /\ call # NoCall
  BY <1>1 DEF InCall, Types, Setup
<1>3. call.lba % LOW \in Nat
  BY <1>2, CallFacts, AtaAssumption
<1>4. Address(call.lba) \in Nat /\ regs' \in Nat
  <2>1. regs * LOW \in Nat
    BY AtaAssumption DEF Types
  <2> QED
    BY <1>2, <1>3, <2>1, CallFacts DEF Issue, Address, Types
<1>5. dev' = dev \/ (dev.st = "idle" /\ dev' = Busy(call.op, Address(call.lba), None))
  BY CommandFacts DEF Issue
<1>6. Types'
  BY <1>1, <1>2, <1>4, <1>5, CallFacts DEF Types, Busy, Commands, Asking, None
<1>7. InCall'
  BY <1>1, <1>2 DEF InCall, Setup, Writing
<1>8. ~confused => Address(call.lba) = call.lba /\ dev.st = "idle"
  BY <1>1, <1>2 DEF Asked, Address
<1>9. Asked'
  BY <1>1, <1>2, <1>5, <1>8 DEF Asked, Busy
<1>10. Given'
  BY <1>1, <1>2, <1>5, <1>8, CallFacts DEF Given, BusyWriting, Busy, Writing
<1> QED
  BY <1>6, <1>7, <1>9, <1>10

(* A look at the status changes nothing; the call goes on or returns. *)
LEMMA PollIInv == ASSUME IInv, PollTurn \/ DataPolled PROVE IInv'
<1> USE DEF IInv
<1>1. CASE PollTurn
  BY <1>1 DEF PollTurn, devVars, Types, InCall, Asked, Given, BusyWriting
<1>2. CASE DataPolled
  <2>1. pc = "data_poll" /\ UNCHANGED <<kind, dev, regs, store, present, confused>>
    BY <1>2 DEF DataPolled, Polled, devVars
  <2>2. call # NoCall /\ kind # "floating"
    BY <2>1 DEF InCall, Setup
  <2>3. CASE PollOk(TRUE) /\ pc' = "transfer" /\ UNCHANGED call
    <3>1. dev.st = "drq"
      BY <2>2, <2>3 DEF PollOk, DRQ
    <3>2. Types' /\ InCall'
      BY <2>1, <2>2, <2>3 DEF Types, InCall, Asking, Setup, Writing
    <3>3. Asked' /\ Given'
      BY <2>1, <2>2, <2>3, <3>1 DEF Asked, Given, BusyWriting, Asking, Writing
    <3> QED
      BY <3>2, <3>3
  <2>4. CASE pc' = "idle" /\ call' = NoCall
    <3>1. Types' /\ InCall'
      BY <2>1, <2>2, <2>4 DEF Types, InCall, Setup, Writing
    <3>2. Asked' /\ Given'
      BY <2>1, <2>4 DEF Asked, Given, BusyWriting, Writing
    <3> QED
      BY <3>1, <3>2
  <2> QED
    BY <1>2, <2>3, <2>4 DEF DataPolled, Return
<1> QED
  BY <1>1, <1>2

LEMMA ReadIInv == ASSUME IInv, ReadData PROVE IInv'
<1> USE DEF IInv
<1>1. /\ pc = "transfer" /\ pc' = "idle" /\ call' = NoCall /\ dev' \in {dev, Idle}
      /\ UNCHANGED <<kind, regs, store, present, confused>>
  BY DEF ReadData, Return
<1>2. Types'
  BY <1>1 DEF Types, Idle, Commands, None
<1>3. InCall'
  BY <1>1 DEF InCall, Setup, Writing
<1>4. Asked' /\ Given'
  BY <1>1 DEF Asked, Given, BusyWriting, Idle, Writing
<1> QED
  BY <1>2, <1>3, <1>4

LEMMA WriteIInv == ASSUME IInv, WriteData \/ Flush \/ FlushPolled PROVE IInv'
<1> USE DEF IInv
<1>1. CASE WriteData
  <2>1. /\ pc = "transfer" /\ pc' = "flush" /\ call.op = "write"
        /\ dev' = IF dev.cmd = "write" THEN Busy("writing", dev.addr, call.data) ELSE dev
        /\ UNCHANGED <<kind, regs, store, present, call, confused>>
    BY <1>1 DEF WriteData
  <2>2. call \in Calls /\ call # NoCall /\ call.data \in Values
    BY <2>1, CallFacts DEF InCall, Types, Setup
  <2>3. Types' /\ InCall'
    BY <2>1, <2>2 DEF Types, InCall, Busy, Commands, Setup, Writing
  <2>4. Asked' /\ Given'
    BY <2>1, <2>2 DEF Asked, Given, BusyWriting, Busy, Asking, Writing
  <2> QED
    BY <2>3, <2>4
<1>2. CASE Flush
  <2>1. /\ pc = "flush" /\ pc' = "flush_poll"
        /\ UNCHANGED <<kind, regs, store, present, call, confused>>
    BY <1>2 DEF Flush
  <2>2. dev' = dev \/ (dev.st = "idle" /\ dev' = Busy("flush", 0, None))
    BY <1>2, CommandFacts DEF Flush
  <2>3. Types' /\ InCall'
    BY <2>1, <2>2 DEF Types, InCall, Busy, Commands, Setup, Writing, None
  <2>4. Asked' /\ Given'
    BY <2>1, <2>2 DEF Asked, Given, BusyWriting, Busy, Asking, Writing
  <2> QED
    BY <2>3, <2>4
<1>3. CASE FlushPolled
  <2>1. /\ pc = "flush_poll" /\ pc' = "idle" /\ call' = NoCall
        /\ confused' = (confused \/ dev.st # "idle")
        /\ UNCHANGED <<kind, dev, regs, store, present>>
    BY <1>3 DEF FlushPolled, Polled, Return, devVars
  <2>2. Types' /\ InCall'
    BY <2>1 DEF Types, InCall, Setup, Writing
  <2>3. Asked' /\ Given'
    BY <2>1 DEF Asked, Given, BusyWriting, Writing
  <2> QED
    BY <2>2, <2>3
<1> QED
  BY <1>1, <1>2, <1>3

LEMMA NextIInv == IInv /\ [Next]_vars => IInv'
<1> SUFFICES ASSUME IInv, [Next]_vars PROVE IInv'
  OBVIOUS
<1>1. CASE UNCHANGED vars
  BY <1>1 DEF vars, devVars, IInv, Types, InCall, Asked, Given, BusyWriting
<1> QED
  BY <1>1, DriveIInv, SetupIInv, BeginIInv, IssueIInv, PollIInv, ReadIInv, WriteIInv
  DEF Next, Driver

-----------------------------------------------------------------------------
(* Every step of the driver and of the drive is a step of BlockDevice, or  *)
(* leaves what its users see alone.                                        *)
LEMMA StepOfDevice ==
  ASSUME IInv, [Next]_vars
  PROVE  [Device!Next]_<<store, call, result>>
<1> SUFFICES ASSUME ~confused, ~confused', ~UNCHANGED <<store, call, result>>
             PROVE  Device!Begin \/ Device!Take \/ Device!Return
  BY DEF Device!Next
<1> USE DEF IInv
<1>1. CASE \E c \in Calls : Begin(c)
  <2>1. PICK c \in Calls : Begin(c)
    BY <1>1
  <2>2. call = NoCall /\ call' = c /\ UNCHANGED <<store, result>>
    BY <2>1 DEF Begin, devVars, InCall
  <2> QED
    BY <2>2, CallFacts DEF Device!Begin
<1>2. CASE DriveReady
  <2>1. /\ BusyWriting /\ UNCHANGED <<call, result>>
        /\ store' = [store EXCEPT ![dev.addr] = dev.data]
    BY <1>2 DEF DriveReady, BusyWriting
  <2>2. pc \in Writing /\ dev.addr = call.lba /\ dev.data = call.data
    BY <2>1 DEF Given
  <2>3. call # NoCall /\ call.op = "write"
    BY <2>2 DEF InCall, Writing, Setup
  <2> QED
    BY <2>1, <2>2, <2>3 DEF Device!Take
<1>3. CASE DataPolled
  <2>1. call # NoCall
    BY <1>3 DEF DataPolled, Polled, InCall, Setup
  <2>2. call' = NoCall /\ result' = [ok |-> FALSE, data |-> None] /\ UNCHANGED store
    BY <1>3 DEF DataPolled, Return, devVars
  <2>3. result'.ok = FALSE
    BY <2>2
  <2> QED
    BY <2>1, <2>2, <2>3 DEF Device!Return
<1>4. CASE ReadData
  <2>1. call # NoCall /\ call.op = "read" /\ dev.st = "drq" /\ dev.cmd = "read" /\ dev.addr = call.lba
    BY <1>4 DEF ReadData, InCall, Asked, Asking, Setup
  <2>2. call' = NoCall /\ result'.data = store[call.lba] /\ UNCHANGED store
    BY <1>4, <2>1 DEF ReadData, Return
  <2> QED
    BY <2>1, <2>2 DEF Device!Return
<1>5. CASE FlushPolled
  <2>1. call # NoCall /\ call.op = "write" /\ dev.st = "idle"
    BY <1>5 DEF FlushPolled, Polled, InCall, Setup, Writing
  <2>2. store[call.lba] = call.data
    BY <1>5, <2>1 DEF FlushPolled, Polled, Given, BusyWriting, Writing
  <2>3. call' = NoCall /\ UNCHANGED store
    BY <1>5 DEF FlushPolled, Return, devVars
  <2> QED
    BY <2>1, <2>2, <2>3 DEF Device!Return
<1> QED
  BY <1>1, <1>2, <1>3, <1>4, <1>5
  DEF Next, Driver, vars, devVars, SoftReset, IdentifyCommand, IdentifyStatus, IdentifyPolled,
      IdentifyData, PollTurn, Issue, WriteData, Flush, DriveFails

(* Whatever the drive does between two accesses to its registers, however  *)
(* often it fails, and whatever ATA_TIMEOUT is: a call of ata_pio_read or  *)
(* ata_pio_write that found the drive idle and stays below 28 bits of      *)
(* address returns the sector, has replaced it, or says that it failed,    *)
(* and touches no other.                                                   *)
THEOREM ImplementsBlockDevice == Spec => RefinesBlockDevice
<1>1. Init => Device!Init
  BY DEF Init, Device!Init
<1> QED
  BY <1>1, InitIInv, NextIInv, StepOfDevice, PTL DEF Spec, RefinesBlockDevice, Device!Spec
=============================================================================
