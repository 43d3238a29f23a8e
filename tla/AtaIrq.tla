------------------------------- MODULE AtaIrq -------------------------------
(***************************************************************************)
(* The interrupt-driven, non-blocking ATA PIO driver of the kernel         *)
(* (src/kernel/ata_driver_irq.c), composed with the IRQ14 handler that     *)
(* runs asynchronously to it and with an environment model of the primary  *)
(* ATA device.                                                             *)
(*                                                                         *)
(*  - The driver state is the static context g_ata_ctx; every call of      *)
(*    tick_ata() that changes it is one action, named after the handler    *)
(*    it runs.                                                             *)
(*  - irq14_ata() may preempt the tick loop at any instruction boundary.   *)
(*    The only window in which that changes the outcome is between the    *)
(*    write of the command register and ata_irq_flags_reset() in the       *)
(*    same handler, so those two handlers are split in two steps there     *)
(*    (cmd_written is TRUE in between).                                    *)
(*  - The device follows the ATA PIO protocol for single-sector commands:  *)
(*    data-in commands (IDENTIFY, READ) raise INTRQ when DRQ is set;       *)
(*    a data-out command (WRITE) sets DRQ without INTRQ (the commit of     *)
(*    the written block, which raises INTRQ, is never reached, see         *)
(*    README); any command may abort with ERR and INTRQ.  A command        *)
(*    written while BSY is ignored.                                        *)
(*    Reading STATUS (0x1F7) clears INTRQ; the alternate status (0x3F6)    *)
(*    does not.                                                            *)
(***************************************************************************)
EXTENDS Naturals, Sequences, Bitwise, AtaTaskfile

CONSTANTS
  Ops,          \* the operations a caller may begin (ata_op_t minus NONE)
  Lbas,         \* starting sector addresses a caller may pass
  Counts,       \* sector counts a caller may pass
  DeviceErrors  \* TRUE when the device may abort a command with ERR

InitOps  == {"INIT_28", "INIT_48"}
ReadOps  == {"READ_28", "READ_48"}
WriteOps == {"WRITE_28", "WRITE_48"}
IoOps    == ReadOps \cup WriteOps
Ops28    == {"READ_28", "WRITE_28"}

ASSUME Ops \subseteq InitOps \cup IoOps
\* TLC integers stop below 2^31, so the uint32_t casts of the _28 path
\* ((uint32_t)lba) are the identity on every address the model can take.
ASSUME Lbas \subseteq Nat
ASSUME Counts \subseteq Nat
ASSUME DeviceErrors \in BOOLEAN

InitSteps == {"INIT_SELECT", "INIT_IDENTIFY_CMD", "INIT_IDENTIFY_WAIT",
              "INIT_IDENTIFY_XFER"}
IoSteps   == {"IO_ISSUE_SELECT", "IO_ISSUE_TASKFILE", "IO_WAIT_IRQ",
              "IO_XFER_BLOCK"}
Terminal  == {"INIT_DONE", "INIT_FAIL", "IO_DONE", "IO_FAIL"}

\* Status register bits (ata_driver_irq.h) and the 400ns delay count.
ATA_SR_BSY == \h80
ATA_SR_DRDY == \h40
ATA_SR_DF  == \h20
ATA_SR_DRQ == \h08
ATA_SR_ERR == \h01
DELAY_400  == 4

VARIABLES
  \* g_ata_ctx
  irq_fired, last_status, op, step, delay_400, lba, sectors_left,
  batch_left, ptr,
  cmd_written,  \* inside a handler, after outb(COMMAND), before the reset
  \* the device
  dev_state,    \* "Idle" | "Busy" | "DataIn" | "DataOut" | "Writing"
  dev_cmd,      \* command accepted last
  dev_err,      \* ERR reported for that command
  dev_sel,      \* LBA bits 24-27 latched from DRIVE_SEL
  dev_addr,     \* sector address latched when the command was accepted
  intrq,        \* INTRQ asserted and not yet cleared by a STATUS read
  \* history
  req,          \* the request accepted by begin_*: [lba, count]
  accessed,     \* <<address, buffer word offset, DRQ was set>> per sector
  irq_lost      \* ata_irq_flags_reset() discarded a latched interrupt

ctx    == <<irq_fired, last_status, op, step, delay_400, lba, sectors_left,
            batch_left, ptr, cmd_written>>
device == <<dev_state, dev_cmd, dev_err, dev_sel, dev_addr, intrq>>
ghost  == <<req, accessed, irq_lost>>
vars   == <<ctx, device, ghost>>

-----------------------------------------------------------------------------
(* Status as the device drives it, and the driver's tests on a status.    *)

DevStatus ==
  CASE dev_state \in {"Busy", "Writing"}  -> ATA_SR_BSY
    [] dev_state \in {"DataIn", "DataOut"} -> ATA_SR_DRDY + ATA_SR_DRQ + \h10
    [] dev_err                             -> ATA_SR_DRDY + ATA_SR_ERR + \h10
    [] OTHER                               -> ATA_SR_DRDY + \h10

\* ata_alt_status_read_once(): the alternate status, INTRQ left alone.
ata_alt_status_read_once == DevStatus

ata_status_is_bad(st) == st = \hFF \/ (st & (ATA_SR_ERR + ATA_SR_DF)) # 0

HasDrq(st) == (st & ATA_SR_DRQ) # 0

\* The branch every wait handler takes on a status byte.
Judge(st, onDrq, onBad, otherwise) ==
  IF ata_status_is_bad(st) THEN onBad
  ELSE IF HasDrq(st) THEN onDrq
  ELSE otherwise

\* tick_ata(): the sequencer runs only in a call that finds no delay owed or
\* that pays the last tick of it; that call also clears delay_400.
Settled == delay_400 <= 1 /\ ~cmd_written

\* Mutant: ata_finish_io/ata_finish_init leave op set.
OpAfterKeepsOp(nextStep) == op

\* ata_finish_io / ata_finish_init: a terminal step also clears op.
OpAfter(nextStep) == IF nextStep \in Terminal THEN "NONE" ELSE op

\* outb(ATA_REG_COMMAND, c) as the device sees it.
WriteCommand(c, addr) ==
  IF dev_state \in {"Busy", "Writing"}
  THEN UNCHANGED <<dev_state, dev_cmd, dev_err, dev_addr>>
  ELSE /\ dev_state' = "Busy"
       /\ dev_cmd' = c
       /\ dev_err' = FALSE
       /\ dev_addr' = addr

-----------------------------------------------------------------------------
(* Admission: the begin_* functions.                                      *)

begin_init_ata_irq(o) ==
  /\ step = "IDLE"
  /\ op' = o
  /\ step' = "INIT_SELECT"
  /\ delay_400' = 0 /\ irq_fired' = 0 /\ last_status' = 0
  /\ UNCHANGED <<lba, sectors_left, batch_left, ptr, cmd_written, device,
                 ghost>>

\* Mutant: a transfer is admitted whatever the session's step.
BeginAnytime(o, l, n) ==
  /\ n # 0
  /\ op' = o
  /\ step' = "IO_ISSUE_SELECT"
  /\ lba' = l /\ sectors_left' = n /\ batch_left' = 0 /\ ptr' = 0
  /\ delay_400' = 0 /\ irq_fired' = 0 /\ last_status' = 0
  /\ req' = [lba |-> l, count |-> n]
  /\ accessed' = <<>>
  /\ UNCHANGED <<cmd_written, device, irq_lost>>

begin_disk_io_irq(o, l, n) ==
  /\ step = "IDLE"
  /\ n # 0
  /\ op' = o
  /\ step' = "IO_ISSUE_SELECT"
  /\ lba' = l /\ sectors_left' = n /\ batch_left' = 0 /\ ptr' = 0
  /\ delay_400' = 0 /\ irq_fired' = 0 /\ last_status' = 0
  /\ req' = [lba |-> l, count |-> n]
  /\ accessed' = <<>>
  /\ UNCHANGED <<cmd_written, device, irq_lost>>

-----------------------------------------------------------------------------
(* The interrupt handler.                                                 *)

irq14_ata ==
  /\ intrq
  /\ last_status' = DevStatus
  /\ irq_fired' = 1
  /\ intrq' = FALSE
  /\ UNCHANGED <<op, step, delay_400, lba, sectors_left, batch_left, ptr,
                 cmd_written, dev_state, dev_cmd, dev_err, dev_sel, dev_addr,
                 ghost>>

-----------------------------------------------------------------------------
(* tick_ata(): the 400ns delay, then one step of the active sequencer.    *)

ata_delay_400ns_tick ==
  /\ delay_400 > 1
  /\ delay_400' = delay_400 - 1
  /\ UNCHANGED <<irq_fired, last_status, op, step, lba, sectors_left,
                 batch_left, ptr, cmd_written, device, ghost>>

ata_init_select_handle ==
  /\ op \in InitOps /\ step = "INIT_SELECT" /\ Settled
  /\ delay_400' = DELAY_400
  /\ step' = "INIT_IDENTIFY_CMD"
  /\ dev_sel' = 0
  /\ UNCHANGED <<irq_fired, last_status, op, lba, sectors_left, batch_left,
                 ptr, cmd_written, dev_state, dev_cmd, dev_err, dev_addr,
                 intrq, ghost>>

\* Up to and including outb(ATA_REG_COMMAND, ATA_CMD_IDENTIFY).
ata_init_identify_cmd_handle ==
  /\ op \in InitOps /\ step = "INIT_IDENTIFY_CMD" /\ Settled
  /\ delay_400' = 0
  /\ WriteCommand("Identify", 0)
  /\ cmd_written' = TRUE
  /\ UNCHANGED <<irq_fired, last_status, op, step, lba, sectors_left,
                 batch_left, ptr, dev_sel, intrq, ghost>>

\* The rest of that handler: ata_irq_flags_reset() and the step change.
ata_init_identify_cmd_flags_reset ==
  /\ cmd_written /\ step = "INIT_IDENTIFY_CMD"
  /\ irq_fired' = 0 /\ last_status' = 0
  /\ irq_lost' = (irq_lost \/ irq_fired = 1)
  /\ step' = "INIT_IDENTIFY_WAIT"
  /\ cmd_written' = FALSE
  /\ UNCHANGED <<op, delay_400, lba, sectors_left, batch_left, ptr, device,
                 req, accessed>>

ata_init_identify_wait_handle ==
  /\ op \in InitOps /\ step = "INIT_IDENTIFY_WAIT" /\ Settled
  /\ irq_fired = 1
  /\ irq_fired' = 0
  /\ step' = Judge(last_status, "INIT_IDENTIFY_XFER", "INIT_FAIL",
                   Judge(ata_alt_status_read_once, "INIT_IDENTIFY_XFER",
                         "INIT_FAIL", step))
  /\ op' = OpAfter(step')
  /\ delay_400' = 0
  /\ UNCHANGED <<last_status, lba, sectors_left, batch_left, ptr,
                 cmd_written, device, ghost>>

\* insw(DATA, identify, 256): ends the device's data phase if it had one.
ata_init_identify_xfer_handle ==
  /\ op \in InitOps /\ step = "INIT_IDENTIFY_XFER" /\ Settled
  /\ dev_state' = IF dev_state = "DataIn" THEN "Idle" ELSE dev_state
  /\ step' = "INIT_DONE"
  /\ op' = "NONE"
  /\ delay_400' = 0
  /\ UNCHANGED <<irq_fired, last_status, lba, sectors_left, batch_left, ptr,
                 cmd_written, dev_cmd, dev_err, dev_sel, dev_addr, intrq,
                 ghost>>

\* Mutant: DRIVE_SEL written without the LBA bits 24-27 on the LBA28 path.
SelectWithoutTop4 ==
  /\ op \in IoOps /\ step = "IO_ISSUE_SELECT" /\ Settled
  /\ dev_sel' = 0
  /\ delay_400' = DELAY_400
  /\ step' = "IO_ISSUE_TASKFILE"
  /\ UNCHANGED <<irq_fired, last_status, op, lba, sectors_left, batch_left,
                 ptr, cmd_written, dev_state, dev_cmd, dev_err, dev_addr,
                 intrq, ghost>>

ata_io_issue_select_handle ==
  /\ op \in IoOps /\ step = "IO_ISSUE_SELECT" /\ Settled
  /\ dev_sel' = IF op \in Ops28 THEN (lba \div 2^24) % 16 ELSE 0
  /\ delay_400' = DELAY_400
  /\ step' = "IO_ISSUE_TASKFILE"
  /\ UNCHANGED <<irq_fired, last_status, op, lba, sectors_left, batch_left,
                 ptr, cmd_written, dev_state, dev_cmd, dev_err, dev_addr,
                 intrq, ghost>>

\* The taskfile writes of ata_io_issue_taskfile_handle before its command:
\* SECCOUNT 1 and the low three bytes of (uint32_t)lba, or the high pass
\* (count 0, bytes 3-5) and the low pass (count 1, bytes 0-2).
IssueTaskfile ==
  IF op \in Ops28
  THEN << <<"SECCOUNT", 1>>, <<"LBA_LOW", Byte(lba, 0)>>,
          <<"LBA_MID", Byte(lba, 1)>>, <<"LBA_HIGH", Byte(lba, 2)>> >>
  ELSE << <<"SECCOUNT", 0>>, <<"LBA_LOW", Byte(lba, 3)>>,
          <<"LBA_MID", Byte(lba, 4)>>, <<"LBA_HIGH", Byte(lba, 5)>>,
          <<"SECCOUNT", 1>>, <<"LBA_LOW", Byte(lba, 0)>>,
          <<"LBA_MID", Byte(lba, 1)>>, <<"LBA_HIGH", Byte(lba, 2)>> >>

\* The sector the device addresses: DRIVE_SEL as the select step left it
\* (its low nibble is dev_sel), then the taskfile writes.
TaskfileAddress ==
  LET regs == Program([PowerOn EXCEPT !["DRIVE_SEL"] =
                         <<0, ATA_DH_LBA_MASTER | dev_sel>>], IssueTaskfile)
  IN IF op \in Ops28 THEN LbaOf28(regs) ELSE LbaOf48(regs)

\* Up to and including outb(ATA_REG_COMMAND, READ/WRITE[_EXT]).
ata_io_issue_taskfile_handle ==
  /\ op \in IoOps /\ step = "IO_ISSUE_TASKFILE" /\ Settled
  /\ delay_400' = 0
  /\ IF sectors_left = 0
     THEN /\ step' = "IO_DONE" /\ op' = "NONE"
          /\ UNCHANGED <<batch_left, cmd_written, device>>
     ELSE /\ batch_left' = 1
          /\ WriteCommand(IF op \in ReadOps THEN "Read" ELSE "Write",
                          TaskfileAddress)
          /\ cmd_written' = TRUE
          /\ UNCHANGED <<op, step, dev_sel, intrq>>
  /\ UNCHANGED <<irq_fired, last_status, lba, sectors_left, ptr, ghost>>

ata_io_issue_taskfile_flags_reset ==
  /\ cmd_written /\ step = "IO_ISSUE_TASKFILE"
  /\ irq_fired' = 0 /\ last_status' = 0
  /\ irq_lost' = (irq_lost \/ irq_fired = 1)
  /\ step' = "IO_WAIT_IRQ"
  /\ cmd_written' = FALSE
  /\ UNCHANGED <<op, delay_400, lba, sectors_left, batch_left, ptr, device,
                 req, accessed>>

\* Mutant: the alternate-status fallback without "if (batch_left != 0)
\* return;": the status is polled while a block is still outstanding.
WaitIrqNoBatchGuard ==
  LET st == IF irq_fired = 1 THEN last_status ELSE ata_alt_status_read_once
  IN
  /\ op \in IoOps /\ step = "IO_WAIT_IRQ" /\ Settled
  /\ irq_fired' = 0
  /\ step' = Judge(st, "IO_XFER_BLOCK", "IO_FAIL",
               IF batch_left = 0
               THEN IF sectors_left = 0 THEN "IO_DONE" ELSE "IO_ISSUE_SELECT"
               ELSE Judge(ata_alt_status_read_once, "IO_XFER_BLOCK",
                          "IO_FAIL", step))
  /\ op' = OpAfter(step')
  /\ delay_400' = 0
  /\ UNCHANGED <<last_status, lba, sectors_left, batch_left, ptr,
                 cmd_written, device, ghost>>

\* Mutant: no alternate-status fallback; waits for an interrupt only.
WaitIrqOnly ==
  /\ irq_fired = 1
  /\ op \in IoOps /\ step = "IO_WAIT_IRQ" /\ Settled
  /\ irq_fired' = 0
  /\ step' = Judge(last_status, "IO_XFER_BLOCK", "IO_FAIL",
               IF batch_left = 0
               THEN IF sectors_left = 0 THEN "IO_DONE" ELSE "IO_ISSUE_SELECT"
               ELSE Judge(ata_alt_status_read_once, "IO_XFER_BLOCK",
                          "IO_FAIL", step))
  /\ op' = OpAfter(step')
  /\ delay_400' = 0
  /\ UNCHANGED <<last_status, lba, sectors_left, batch_left, ptr,
                 cmd_written, device, ghost>>

\* Consumes the latch if it fired; otherwise, when no batch is outstanding,
\* falls back to the alternate status; otherwise returns.
ata_io_wait_irq_handle ==
  LET st == IF irq_fired = 1 THEN last_status ELSE ata_alt_status_read_once
  IN
  /\ op \in IoOps /\ step = "IO_WAIT_IRQ" /\ Settled
  /\ irq_fired = 1 \/ batch_left = 0
  /\ irq_fired' = 0
  /\ step' = Judge(st, "IO_XFER_BLOCK", "IO_FAIL",
               IF batch_left = 0
               THEN IF sectors_left = 0 THEN "IO_DONE" ELSE "IO_ISSUE_SELECT"
               ELSE Judge(ata_alt_status_read_once, "IO_XFER_BLOCK",
                          "IO_FAIL", step))
  /\ op' = OpAfter(step')
  /\ delay_400' = 0
  /\ UNCHANGED <<last_status, lba, sectors_left, batch_left, ptr,
                 cmd_written, device, ghost>>

\* Mutant: sectors_left decremented twice per transferred sector.
XferDoubleDecrement ==
  /\ op \in IoOps /\ step = "IO_XFER_BLOCK" /\ Settled /\ batch_left = 1
  /\ delay_400' = 0
  /\ step' = "IO_WAIT_IRQ"
  /\ dev_state' = IF dev_state = "DataIn" THEN "Idle" ELSE dev_state
  /\ accessed' = Append(accessed, <<dev_addr, ptr, dev_state = "DataIn">>)
  /\ ptr' = ptr + 256 /\ lba' = lba + 1 /\ batch_left' = 0
  /\ sectors_left' = sectors_left - 2
  /\ UNCHANGED <<irq_fired, last_status, op, cmd_written, dev_cmd, dev_err,
                 dev_sel, dev_addr, intrq, req, irq_lost>>

\* insw/outsw of min(batch_left, 1) sectors, then the progress fields.
ata_io_xfer_block_handle ==
  LET n == IF batch_left < 1 THEN batch_left ELSE 1
  IN
  /\ op \in IoOps /\ step = "IO_XFER_BLOCK" /\ Settled
  /\ delay_400' = 0
  /\ step' = "IO_WAIT_IRQ"
  /\ IF n = 0
     THEN UNCHANGED <<ptr, lba, batch_left, sectors_left, dev_state, accessed>>
     ELSE /\ dev_state' = CASE dev_state = "DataIn"  -> "Idle"
                            [] dev_state = "DataOut" -> "Writing"
                            [] OTHER                 -> dev_state
          /\ accessed' = Append(accessed, <<dev_addr, ptr,
                                  dev_state \in {"DataIn", "DataOut"}>>)
          /\ ptr' = ptr + n * 256
          /\ lba' = lba + n
          /\ batch_left' = batch_left - n
          /\ sectors_left' = sectors_left - n
  /\ UNCHANGED <<irq_fired, last_status, op, cmd_written, dev_cmd, dev_err,
                 dev_sel, dev_addr, intrq, req, irq_lost>>

-----------------------------------------------------------------------------
(* The device (environment; not code of this repository).                 *)

DevDataInReady ==
  /\ dev_state = "Busy" /\ dev_cmd \in {"Identify", "Read"}
  /\ dev_state' = "DataIn" /\ intrq' = TRUE
  /\ UNCHANGED <<ctx, dev_cmd, dev_err, dev_sel, dev_addr, ghost>>

\* PIO data-out: DRQ without INTRQ for the first (here: only) block.
DevDataOutReady ==
  /\ dev_state = "Busy" /\ dev_cmd = "Write"
  /\ dev_state' = "DataOut"
  /\ UNCHANGED <<ctx, dev_cmd, dev_err, dev_sel, dev_addr, intrq, ghost>>

DevAbort ==
  /\ DeviceErrors
  /\ dev_state \in {"Busy", "Writing"}
  /\ dev_state' = "Idle" /\ dev_err' = TRUE /\ intrq' = TRUE
  /\ UNCHANGED <<ctx, dev_cmd, dev_sel, dev_addr, ghost>>

-----------------------------------------------------------------------------

Init ==
  /\ irq_fired = 0 /\ last_status = 0 /\ op = "NONE" /\ step = "IDLE"
  /\ delay_400 = 0 /\ lba = 0 /\ sectors_left = 0 /\ batch_left = 0
  /\ ptr = 0 /\ cmd_written = FALSE
  /\ dev_state = "Idle" /\ dev_cmd = "None" /\ dev_err = FALSE
  /\ dev_sel = 0 /\ dev_addr = 0 /\ intrq = FALSE
  /\ req = [lba |-> 0, count |-> 0] /\ accessed = <<>> /\ irq_lost = FALSE

Begin ==
  \/ \E o \in Ops \cap InitOps : begin_init_ata_irq(o)
  \/ \E o \in Ops \cap IoOps, l \in Lbas, n \in Counts :
       begin_disk_io_irq(o, l, n)

Tick ==
  \/ ata_delay_400ns_tick
  \/ ata_init_select_handle
  \/ ata_init_identify_cmd_handle
  \/ ata_init_identify_cmd_flags_reset
  \/ ata_init_identify_wait_handle
  \/ ata_init_identify_xfer_handle
  \/ ata_io_issue_select_handle
  \/ ata_io_issue_taskfile_handle
  \/ ata_io_issue_taskfile_flags_reset
  \/ ata_io_wait_irq_handle
  \/ ata_io_xfer_block_handle

Device ==
  \/ DevDataInReady \/ DevDataOutReady \/ DevAbort

Next == Begin \/ Tick \/ irq14_ata \/ Device

\* The kernel loop calls tick_ata() on every iteration, interrupts are
\* enabled (sti) so a raised IRQ14 is taken, the device finishes what it
\* was given, and the caller that wants the disk keeps calling begin_*.
Fairness ==
  /\ WF_vars(Tick)
  /\ WF_vars(irq14_ata)
  /\ WF_vars(Device)
  /\ WF_vars(Begin)

Spec     == Init /\ [][Next]_vars
FairSpec == Spec /\ Fairness

-----------------------------------------------------------------------------
(* Properties.                                                            *)

TypeOK ==
  /\ irq_fired \in {0, 1} /\ last_status \in 0..255
  /\ op \in {"NONE"} \cup InitOps \cup IoOps
  /\ step \in {"IDLE"} \cup InitSteps \cup IoSteps \cup Terminal
  /\ delay_400 \in 0..DELAY_400
  /\ lba \in Nat /\ sectors_left \in Nat /\ batch_left \in 0..1
  /\ ptr \in Nat /\ cmd_written \in BOOLEAN
  /\ dev_state \in {"Idle", "Busy", "DataIn", "DataOut", "Writing"}
  /\ dev_cmd \in {"None", "Identify", "Read", "Write"}
  /\ dev_err \in BOOLEAN /\ dev_sel \in 0..15 /\ dev_addr \in Nat
  /\ intrq \in BOOLEAN /\ irq_lost \in BOOLEAN

\* The phase always belongs to the operation in progress (the pairing the
\* begin_* functions, the two sequencers and ata_finish_io/ata_finish_init
\* maintain between them): identification phases only under an INIT op,
\* transfer phases only under a READ/WRITE op, and op is NONE exactly when
\* the session is idle or terminal.
OpStepConsistent ==
  /\ (step \in InitSteps <=> op \in InitOps)
  /\ (step \in IoSteps <=> op \in IoOps)
  /\ (step \in Terminal \cup {"IDLE"} <=> op = "NONE")

\* Every sector the driver moved through the data port was the next one of
\* the request, [L, L+N) in ascending order, at the next 256-word slot of
\* the caller's buffer, while the device had DRQ set; and IO_DONE means all
\* N were moved.  Relates the select / taskfile / transfer / wait handlers
\* over several commands to the arguments of begin_read/begin_write.
SectorsInOrder ==
  /\ \A i \in 1..Len(accessed) :
       accessed[i] = <<req.lba + i - 1, (i - 1) * 256, TRUE>>
  /\ (step = "IO_DONE" => Len(accessed) = req.count)

\* An identification or a read that has been admitted reaches INIT_DONE /
\* INIT_FAIL / IO_DONE / IO_FAIL, unless ata_irq_flags_reset() discarded the
\* interrupt of the command just written: with that race set aside, no
\* path through the wait handlers parks the session.
RequestCompletesOrIrqLost ==
  (op \in InitOps \cup ReadOps) ~> (step \in Terminal \/ irq_lost)

\* spec 4.4 / 5: an admitted identification terminates when the drive
\* raises its interrupt with DRQ (it is parked only if it never does).
IdentifyCompletes == (op \in InitOps) ~> (step \in Terminal)

\* spec 4.5 / 5: an admitted write reaches IO_DONE or IO_FAIL when the
\* drive reports DRQ for the data-out block.
WriteCompletes == (op \in WriteOps) ~> (step \in Terminal)

\* The usage in ata_driver_irq.h (begin_init, tick until done, then
\* begin_read/write) and spec 3/7 (the session stays usable for the next
\* request): after a successful identification a read or write is admitted.
InitThenIo == (step = "INIT_DONE") ~> (op \in IoOps)

-----------------------------------------------------------------------------
(* Refinement of the request facade's promise (AtaRequest).  The session  *)
(* phase is read off step, the kind of request off op and, once op has    *)
(* been cleared, off the terminal step; the sectors moved are the history *)
(* of data-port transfers without the DRQ flag.                           *)

AbsPhase ==
  CASE step = "IDLE"                      -> "Idle"
    [] step \in {"INIT_DONE", "IO_DONE"}  -> "Done"
    [] step \in {"INIT_FAIL", "IO_FAIL"}  -> "Fail"
    [] OTHER                              -> "Busy"

AbsKind ==
  CASE op \in InitOps \/ step \in {"INIT_DONE", "INIT_FAIL"} -> "init"
    [] op \in IoOps \/ step \in {"IO_DONE", "IO_FAIL"}       -> "io"
    [] OTHER                                                 -> "none"

AR == INSTANCE AtaRequest
        WITH phase <- AbsPhase, kind <- AbsKind, request <- req,
             moved <- [i \in 1..Len(accessed) |-> <<accessed[i][1], accessed[i][2]>>]

\* Every behaviour of the driver, its interrupt handler and the device is a
\* behaviour of the facade: requests are admitted only from IDLE, one at a
\* time; no step moves a sector that is not the next of the request or
\* moves one during an identification; IO_DONE comes only after the last
\* sector; a terminal phase is left only for IDLE.
RefinesAtaRequest == AR!Spec

=============================================================================
