------------------------------ MODULE AtaSystem ------------------------------
(***************************************************************************)
(* The interrupt-driven ATA driver (AtaIrq) and the 8259 pair it programs  *)
(* (Pic), composed as the usage comment of src/kernel/ata_driver_irq.h     *)
(* puts them together: setup_ata_irq(), the IDT slot, sti, then begin_*    *)
(* and tick_ata() from the kernel loop.                                    *)
(*                                                                         *)
(* The two meet at IRQ14.  A rising INTRQ of the device latches the        *)
(* request in the slave PIC (edge triggered); the PICs deliver it when     *)
(* IRQ14 and the cascade are unmasked and nothing of equal or higher       *)
(* priority is in service; the CPU then runs irq14_ata, which reads        *)
(* STATUS (clearing INTRQ), sets irq_fired and sends the EOIs.  While the  *)
(* CPU is in the handler the kernel loop does not run.                     *)
(***************************************************************************)
EXTENDS Naturals

CONSTANTS Ops, Lbas, Counts, DeviceErrors, MasterMasks, SlaveMasks

VARIABLES
  \* g_ata_ctx, the device and the history of AtaIrq
  irq_fired, last_status, op, step, delay_400, lba, sectors_left,
  batch_left, ptr, cmd_written, dev_state, dev_cmd, dev_err, dev_sel,
  dev_addr, intrq, req, accessed, irq_lost,
  \* the PIC pair and the boot sequence of Pic
  imr1, imr2, off1, off2, isr1, isr2, irr14, phase, in_handler,
  last_vector, boot_masks

A == INSTANCE AtaIrq
P == INSTANCE Pic

ata  == <<irq_fired, last_status, op, step, delay_400, lba, sectors_left,
         batch_left, ptr, cmd_written, dev_state, dev_cmd, dev_err, dev_sel,
         dev_addr, intrq, req, accessed, irq_lost>>
pic  == <<imr1, imr2, off1, off2, isr1, isr2, irr14, phase, in_handler,
         last_vector, boot_masks>>
vars == <<ata, pic>>

\* Steps 1-3 of the usage: setup_ata_irq() (remap, unmask) and sti.
Boot ==
  /\ P!SetupRemap \/ P!SetupUnmask \/ P!Sti
  /\ UNCHANGED ata

\* Steps 4 and 6: begin_* once interrupts are set up and enabled.
Begin ==
  /\ phase = "running"
  /\ A!Begin
  /\ UNCHANGED pic

\* Step 5: one tick_ata() of the kernel loop, which the handler preempts.
Tick ==
  /\ ~in_handler
  /\ A!Tick
  /\ UNCHANGED pic

\* The device; a rising INTRQ is latched in the slave PIC's request
\* register, whether or not the line is masked or in service.
Device ==
  /\ A!Device
  /\ irr14' = (irr14 \/ (~intrq /\ intrq'))
  /\ UNCHANGED <<imr1, imr2, off1, off2, isr1, isr2, phase, in_handler,
                 last_vector, boot_masks>>

Deliver ==
  /\ P!Deliver14
  /\ UNCHANGED ata

\* irq14_ata, run when the PICs deliver vector 46: the STATUS read (which
\* drops INTRQ, if it was up) and irq_fired = 1, then send_eoi(14).
Handler ==
  /\ P!Irq14Handler
  /\ last_status' = A!DevStatus
  /\ irq_fired' = 1
  /\ intrq' = FALSE
  /\ UNCHANGED <<op, step, delay_400, lba, sectors_left, batch_left, ptr,
                 cmd_written, dev_state, dev_cmd, dev_err, dev_sel, dev_addr,
                 req, accessed, irq_lost>>

Init == A!Init /\ P!Init

Next == Boot \/ Begin \/ Tick \/ Device \/ Deliver \/ Handler

\* The boot code runs to sti and the kernel loop ticks; the PICs deliver
\* a deliverable request and the CPU runs the handler to its iret; the
\* device finishes its command; the caller that wants the disk begins.
Fairness ==
  /\ WF_vars(Boot) /\ WF_vars(Begin) /\ WF_vars(Tick) /\ WF_vars(Device)
  /\ WF_vars(Deliver) /\ WF_vars(Handler)

Spec == Init /\ [][Next]_vars /\ Fairness

-----------------------------------------------------------------------------
(* Properties.                                                             *)

\* Once setup_ata_irq() has run, the masks differ from the firmware's only
\* in IRQ14 and the cascade line being open, whatever the driver does.
SetupPreservesMasks == P!SetupPreservesMasks

\* Every IRQ14 the device's INTRQ latches in the PIC is delivered at vector
\* 46, the first and every later one of a request: each irq14_ata leaves
\* both PICs free for the next through its EOIs.
Irq14Serviced == P!Irq14Serviced

\* An identification or a read the caller begins after setup reaches a
\* terminal step unless ata_irq_flags_reset() discarded its interrupt:
\* the wait handlers' progress now depends on the PICs delivering every
\* interrupt of the request, which remap_pic, unmask_irq and send_eoi
\* have to make possible.
RequestCompletesOrIrqLost == A!RequestCompletesOrIrqLost

\* An identification begun after setup terminates, with the PICs between
\* the drive and irq14_ata (the interrupt taken between outb(COMMAND) and
\* ata_irq_flags_reset() is still wiped: AtaSystem_lost_irq.cfg).
IdentifyCompletes == A!IdentifyCompletes

\* A write begun after setup terminates (the wait for an interrupt that
\* PIO data-out does not raise still hangs: AtaSystem_write_hang.cfg).
WriteCompletes == A!WriteCompletes

\* One interrupt in flight: while irq_fired holds an interrupt the driver
\* has not consumed, no further IRQ14 is latched in the PIC or in service.
\* irq14_ata is the only writer of irq_fired and last_status, so this is
\* what makes the wait handlers' two-step "if (irq_fired) irq_fired = 0;
\* st = last_status" (ata_driver_irq.c:237, 305) safe against preemption:
\* no handler can run between the test, the clear and the read.
OneIrqInFlight == irq_fired = 1 => ~irr14 /\ ~in_handler
=============================================================================
