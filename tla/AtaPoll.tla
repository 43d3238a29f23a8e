------------------------------- MODULE AtaPoll -------------------------------
(***************************************************************************)
(* The blocking, polling ATA PIO driver of the loader                      *)
(* (src/kernelLoader/atadriver.c) as kmain (src/kernelLoader/main.c) runs  *)
(* it: ata_init() retried until it succeeds, then one transfer, then hlt   *)
(* on failure or return on success.                                        *)
(*                                                                         *)
(*  - pc is the point of kmain / the driver the CPU is at; every spin-wait *)
(*    iteration (one STATUS read) is one step, so the device can move      *)
(*    between two reads.  The uint32_t timeout of each wait loop is scaled *)
(*    down to Timeout iterations.                                          *)
(*  - The device is the environment: a command written while BSY is        *)
(*    ignored; an accepted command clears ERR and sets BSY; ERR stays set  *)
(*    until the next accepted command (a drive select does not clear it). *)
(*    A write shows DRQ, takes the 256 words, then commits the sector.     *)
(*    A read shows DRQ with the sector, which the insw drains.  Up to      *)
(*    MaxAborts commands end with ERR instead.  nIEN is set by ata_init,   *)
(*    so INTRQ plays no part.                                              *)
(*  - SlowDevice: the device may stay BSY for longer than a wait loop's    *)
(*    timeout.  When FALSE it always answers within it, and a wait loop    *)
(*    that finds BSY simply reads again.                                   *)
(***************************************************************************)
EXTENDS Naturals, Sequences, Bitwise, AtaTaskfile

CONSTANTS
  Xfers,       \* the transfer function kmain calls (main.c: write_48)
  Lba,         \* its lba argument (main.c: 2048)
  Count,       \* its sector_count argument (main.c: 256, scaled)
  Timeout,     \* iterations of a wait loop (10^7 / 10^8, scaled)
  MaxAborts,   \* commands the device may end with ERR
  SlowDevice

XferNames == {"read_28", "write_28", "read_48", "write_48"}
Writes    == {"write_28", "write_48"}
Xfers28   == {"read_28", "write_28"}

ASSUME Xfers \subseteq XferNames /\ Xfers # {}
ASSUME Lba \in Nat /\ Count \in Nat /\ Timeout \in Nat \ {0}
ASSUME MaxAborts \in Nat /\ SlowDevice \in BOOLEAN

ATA_SR_BSY  == \h80
ATA_SR_DRDY == \h40
ATA_SR_DF   == \h20
ATA_SR_DRQ  == \h08
ATA_SR_ERR  == \h01

VARIABLES
  pc,            \* where kmain / the driver is
  xfer,          \* the transfer function kmain calls
  timeout,       \* the running wait loop's counter
  lba, sector_count, ptr,  \* the transfer's locals
  dev_state,     \* "Idle" | "Busy" | "DataIn" | "DataOut" | "Writing"
  dev_cmd,       \* "None" | "SetMultiple" | "Read" | "Write"
  dev_err,       \* ERR in the status register
  dev_addr,      \* sector addressed by the accepted command
  aborts,        \* commands ended with ERR so far
  accessed,      \* history: <<address, buffer word offset, DRQ set>>
  committed      \* history: sectors the device wrote to the medium

vars == <<pc, xfer, timeout, lba, sector_count, ptr, dev_state, dev_cmd,
          dev_err, dev_addr, aborts, accessed, committed>>
drv  == <<xfer, lba, sector_count, ptr, accessed>>
dev  == <<dev_state, dev_cmd, dev_err, dev_addr, aborts, committed>>

-----------------------------------------------------------------------------
(* The status the device drives, and a command as it sees it.              *)

ata_status_get ==
  CASE dev_state \in {"Busy", "Writing"}   -> ATA_SR_BSY
    [] dev_state \in {"DataIn", "DataOut"} -> ATA_SR_DRDY + ATA_SR_DRQ + \h10
    [] dev_err                             -> ATA_SR_DRDY + ATA_SR_ERR + \h10
    [] OTHER                               -> ATA_SR_DRDY + \h10

Has(st, bits) == (st & bits) # 0

WriteCommand(c, addr) ==
  IF dev_state \in {"Busy", "Writing"}
  THEN UNCHANGED <<dev_state, dev_cmd, dev_err, dev_addr>>
  ELSE /\ dev_state' = "Busy" /\ dev_cmd' = c
       /\ dev_err' = FALSE /\ dev_addr' = addr

-----------------------------------------------------------------------------
(* One iteration of a spin-wait: "ok", "fail" or "again".  An iteration    *)
(* that would read again when timeout-- has reached 0 ends the loop.      *)

\* ata_wait_idle: BSY clear, no ERR/DF, DRDY set.
ata_wait_idle_body(st) ==
  CASE st = \hFF                           -> "fail"
    [] Has(st, ATA_SR_BSY)                 -> "again"
    [] Has(st, ATA_SR_ERR + ATA_SR_DF)     -> "fail"
    [] ~Has(st, ATA_SR_DRDY)               -> "again"
    [] OTHER                               -> "ok"

\* ata_wait_drq: BSY clear, no ERR/DF, DRQ set.
ata_wait_drq_body(st) ==
  CASE st = \hFF                           -> "fail"
    [] Has(st, ATA_SR_BSY)                 -> "again"
    [] Has(st, ATA_SR_ERR + ATA_SR_DF)     -> "fail"
    [] Has(st, ATA_SR_DRQ)                 -> "ok"
    [] OTHER                               -> "again"

\* The first loop of ata_init: "break" on DRDY; "again" on BSY / no DRDY;
\* running out of iterations falls through to SET MULTIPLE like a break.
ata_init_ready_body(st) ==
  CASE st = \hFF                           -> "fail"
    [] Has(st, ATA_SR_BSY)                 -> "again"
    [] Has(st, ATA_SR_DF + ATA_SR_ERR)     -> "fail"
    [] ~Has(st, ATA_SR_DRDY)               -> "again"
    [] OTHER                               -> "ok"

\* Mutant: the loop does not stop when timeout runs out.
SpinNoBound(body, onOk, onFail, onExpire) ==
  LET r == body[ata_status_get] IN
  /\ r = "again" => SlowDevice
  /\ timeout' = IF r = "again" THEN timeout - 1 ELSE timeout
  /\ pc' = CASE r = "ok"   -> onOk
             [] r = "fail" -> onFail
             [] OTHER      -> pc
  /\ UNCHANGED <<drv, dev>>

\* The outcome of one iteration of a loop with the given body and the pc to
\* go to on each outcome (onExpire: where running out of timeout leads).
SpinStep(body, onOk, onFail, onExpire) ==
  LET r == body[ata_status_get] IN
  /\ timeout > 0
  /\ r = "again" => SlowDevice
  /\ timeout' = IF r = "again" THEN timeout - 1 ELSE timeout
  /\ pc' = CASE r = "ok"                     -> onOk
             [] r = "fail"                   -> onFail
             [] r = "again" /\ timeout = 1   -> onExpire
             [] OTHER                        -> pc
  /\ UNCHANGED <<drv, dev>>

IdleBody  == [st \in 0..255 |-> ata_wait_idle_body(st)]
DrqBody   == [st \in 0..255 |-> ata_wait_drq_body(st)]
ReadyBody == [st \in 0..255 |-> ata_init_ready_body(st)]

-----------------------------------------------------------------------------
(* kmain and ata_init.                                                    *)

\* outb(CONTROL, nIEN); outb(DRIVE_SEL, 0xE0); 4 reads; timeout = ...
ata_init_select ==
  /\ pc = "init"
  /\ pc' = "init_ready"
  /\ timeout' = Timeout
  /\ UNCHANGED <<drv, dev>>

\* The ready loop: 0 on 0xFF/ERR/DF (kmain calls ata_init again).
ata_init_ready_wait ==
  /\ pc = "init_ready"
  /\ SpinStep(ReadyBody, "init_set_multiple", "init", "init_set_multiple")

\* outb(COMMAND, SET_MULTIPLE); 4 reads; ata_wait_idle() starts.
ata_init_set_multiple ==
  /\ pc = "init_set_multiple"
  /\ WriteCommand("SetMultiple", 0)
  /\ pc' = "init_idle"
  /\ timeout' = Timeout
  /\ UNCHANGED <<drv, aborts, committed>>

ata_init_wait_idle ==
  /\ pc = "init_idle"
  /\ SpinStep(IdleBody, "init_check", "init", "init")

\* Mutant: the final check rejects DRDY instead of DRQ.
InitCheckDrdy ==
  LET st == ata_status_get IN
  /\ pc = "init_check"
  /\ pc' = IF Has(st, ATA_SR_ERR + ATA_SR_DF) \/ Has(st, ATA_SR_DRDY)
           THEN "init" ELSE "xfer"
  /\ UNCHANGED <<timeout, drv, dev>>

\* The status after the wait: ERR/DF or DRQ fail ata_init; success moves
\* kmain on to its transfer.
ata_init_check ==
  LET st == ata_status_get IN
  /\ pc = "init_check"
  /\ pc' = IF Has(st, ATA_SR_ERR + ATA_SR_DF) \/ Has(st, ATA_SR_DRQ)
           THEN "init" ELSE "xfer"
  /\ UNCHANGED <<timeout, drv, dev>>

-----------------------------------------------------------------------------
(* The transfer loops: ata_disk_{read,write}_{28,48}_poll.                 *)

\* while (sector_count): each sector starts with ata_wait_idle().
xfer_loop_head ==
  /\ pc = "xfer"
  /\ pc' = IF sector_count # 0 THEN "x_idle" ELSE "x_final_idle"
  /\ timeout' = Timeout
  /\ UNCHANGED <<drv, dev>>

xfer_wait_idle ==
  /\ pc = "x_idle"
  /\ SpinStep(IdleBody, "x_issue", "halted", "halted")

\* The taskfile writes of one sector's command: ata_lba28_set(lba) and
\* outb(SECCOUNT, 1), or ata_lba48_set(lba, 1).
XferTaskfile ==
  IF xfer \in Xfers28
  THEN ata_lba28_set(lba) \o << <<"SECCOUNT", 1>> >>
  ELSE ata_lba48_set(lba, 1)

\* The sector the device addresses after those writes.
TaskfileAddress ==
  LET regs == Program(PowerOn, XferTaskfile)
  IN IF xfer \in Xfers28 THEN LbaOf28(regs) ELSE LbaOf48(regs)

\* ata_lba{28,48}_set(lba[, 1]); outb(COMMAND, ...); 4 reads; the DRQ wait.
xfer_issue ==
  /\ pc = "x_issue"
  /\ WriteCommand(IF xfer \in Writes THEN "Write" ELSE "Read", TaskfileAddress)
  /\ pc' = "x_drq"
  /\ timeout' = Timeout
  /\ UNCHANGED <<drv, aborts, committed>>

xfer_wait_drq ==
  /\ pc = "x_drq"
  /\ SpinStep(DrqBody, "x_data", "halted", "halted")

\* Mutant: lba is not advanced after a sector.
XferDataNoLbaStep ==
  /\ pc = "x_data"
  /\ dev_state' = CASE dev_state = "DataOut" -> "Writing"
                    [] dev_state = "DataIn"  -> "Idle"
                    [] OTHER                 -> dev_state
  /\ accessed' = Append(accessed, <<dev_addr, ptr,
                                    dev_state \in {"DataIn", "DataOut"}>>)
  /\ ptr' = ptr + 256 /\ sector_count' = sector_count - 1
  /\ pc' = "xfer"
  /\ UNCHANGED <<xfer, lba, timeout, dev_cmd, dev_err, dev_addr, aborts,
                 committed>>

\* outsw/insw of 256 words; ptr += 256; lba += 1; sector_count -= 1.
xfer_data ==
  /\ pc = "x_data"
  /\ dev_state' = CASE dev_state = "DataOut" -> "Writing"
                    [] dev_state = "DataIn"  -> "Idle"
                    [] OTHER                 -> dev_state
  /\ accessed' = Append(accessed, <<dev_addr, ptr,
                                    dev_state \in {"DataIn", "DataOut"}>>)
  /\ ptr' = ptr + 256 /\ lba' = lba + 1 /\ sector_count' = sector_count - 1
  /\ pc' = "xfer"
  /\ UNCHANGED <<xfer, timeout, dev_cmd, dev_err, dev_addr, aborts, committed>>

\* Mutant: return 1 without the final ata_wait_idle().
FinalNoWait ==
  /\ pc = "x_final_idle"
  /\ pc' = "done"
  /\ UNCHANGED <<timeout, drv, dev>>

\* After the loop: ata_wait_idle() or return 0; then return 1.  kmain
\* returns on success and halts in its while (!success) hlt loop on failure.
xfer_final_wait_idle ==
  /\ pc = "x_final_idle"
  /\ SpinStep(IdleBody, "done", "halted", "halted")

-----------------------------------------------------------------------------
(* The device (environment; not code of this repository).                 *)

\* A command without data (SET MULTIPLE, or the power-on reset) completes.
DevComplete ==
  /\ dev_state = "Busy" /\ dev_cmd \in {"None", "SetMultiple"}
  /\ dev_state' = "Idle"
  /\ UNCHANGED <<dev_cmd, dev_err, dev_addr, aborts, committed>>

DevDataReady ==
  /\ dev_state = "Busy" /\ dev_cmd \in {"Read", "Write"}
  /\ dev_state' = IF dev_cmd = "Read" THEN "DataIn" ELSE "DataOut"
  /\ UNCHANGED <<dev_cmd, dev_err, dev_addr, aborts, committed>>

DevCommit ==
  /\ dev_state = "Writing"
  /\ dev_state' = "Idle"
  /\ committed' = committed + 1
  /\ UNCHANGED <<dev_cmd, dev_err, dev_addr, aborts>>

DevAbort ==
  /\ aborts < MaxAborts
  /\ dev_state \in {"Busy", "Writing"}
  /\ dev_state' = "Idle" /\ dev_err' = TRUE
  /\ aborts' = aborts + 1
  /\ UNCHANGED <<dev_cmd, dev_addr, committed>>

Device ==
  /\ \/ DevComplete \/ DevDataReady \/ DevCommit \/ DevAbort
  /\ UNCHANGED <<pc, timeout, drv>>

-----------------------------------------------------------------------------

\* kmain's entry: .bss zeroed, the drive possibly still in its power-on
\* reset; the transfer is the one kmain is built to call.
Init ==
  /\ pc = "init" /\ timeout = 0
  /\ xfer \in Xfers /\ lba = Lba /\ sector_count = Count /\ ptr = 0
  /\ dev_state \in {"Idle", "Busy"} /\ dev_cmd = "None"
  /\ dev_err = FALSE /\ dev_addr = 0 /\ aborts = 0
  /\ accessed = <<>> /\ committed = 0

Cpu ==
  \/ ata_init_select \/ ata_init_ready_wait \/ ata_init_set_multiple
  \/ ata_init_wait_idle \/ ata_init_check
  \/ xfer_loop_head \/ xfer_wait_idle \/ xfer_issue \/ xfer_wait_drq
  \/ xfer_data \/ xfer_final_wait_idle

Next == Cpu \/ Device

\* kmain runs whenever it has a step; the device finishes every command it
\* was given (an abort is a fault, never something to wait for).
Fairness ==
  /\ WF_vars(Cpu)
  /\ WF_vars((DevComplete \/ DevDataReady \/ DevCommit)
               /\ UNCHANGED <<pc, timeout, drv>>)

Spec == Init /\ [][Next]_vars /\ Fairness

-----------------------------------------------------------------------------
(* Properties.                                                            *)

TypeOK ==
  /\ pc \in {"init", "init_ready", "init_set_multiple", "init_idle",
             "init_check", "xfer", "x_idle", "x_issue", "x_drq", "x_data",
             "x_final_idle", "done", "halted"}
  /\ xfer \in XferNames /\ timeout \in 0..Timeout
  /\ lba \in Nat /\ sector_count \in 0..Count /\ ptr \in Nat
  /\ dev_state \in {"Idle", "Busy", "DataIn", "DataOut", "Writing"}
  /\ dev_err \in BOOLEAN /\ aborts \in 0..MaxAborts
  /\ committed \in Nat

\* Every sector moved through the data port is the next one of the
\* request, [Lba, Lba+Count) in ascending order, at the next 256-word slot
\* of the buffer, while the device showed DRQ: ata_wait_drq and the
\* command/address writes of every iteration of the transfer loop agree
\* with the loop's lba/ptr bookkeeping, whatever the device does.
SectorsInOrder ==
  \A i \in 1..Len(accessed) :
    accessed[i] = <<Lba + i - 1, (i - 1) * 256, TRUE>>

\* A transfer that returns 1 moved all Count sectors, and for a write the
\* device has committed every one of them to the medium: the final
\* ata_wait_idle() is what waits out the last sector's BSY.
SuccessMeansDurable ==
  pc = "done" =>
    /\ Len(accessed) = Count
    /\ xfer \in Writes => committed = Count

\* ata_lba48_set against the drive's reading of the taskfile: for LBAs at
\* the byte boundaries and counts at the count-byte boundaries, 65536 (sent
\* as 0) included, the six address bytes the drive assembles from the two
\* passes are the bytes of lba, low first, and the count is sector_count.
\* TLC integers stop below 2^31, so bytes 4 and 5 are always 0 here.
Lba48Inputs   == {0, 255, 256, 2^24 - 1, 2^24, 2147483647}
Count48Inputs == {1, 255, 256, 65535, 65536}
Lba48RoundTrip ==
  \A l \in Lba48Inputs, c \in Count48Inputs :
    LET regs == Program(PowerOn, ata_lba48_set(l, c))
    IN /\ LbaBytes48(regs) = [k \in 1..6 |-> Byte(l, k - 1)]
       /\ Count48(regs) = c

\* kmain gets past ata_init and finishes its transfer (returning, or
\* halting on a failed transfer) rather than retrying ata_init for ever.
BootFinishes == <>(pc \in {"done", "halted"})

=============================================================================
