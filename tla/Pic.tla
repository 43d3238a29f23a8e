-------------------------------- MODULE Pic ---------------------------------
(***************************************************************************)
(* The interrupt acknowledge unit of src/kernel/ata_driver_irq.c:          *)
(* setup_ata_irq() = remap_pic() + unmask_irq(14), and the send_eoi(14)    *)
(* that irq14_ata() issues, running against the two cascaded 8259 PICs.    *)
(*                                                                         *)
(* The PICs are the environment: a line that is requested, not masked and  *)
(* not blocked by an equal or higher priority line in service is delivered *)
(* to the CPU at offset + line; the slave is wired to master line 2, so a  *)
(* slave line is delivered only when master line 2 is also free.  ICW1     *)
(* clears the mask register (the code restores it afterwards).  A          *)
(* non-specific EOI clears the highest-priority in-service bit.            *)
(*                                                                         *)
(* The ATA device raises IRQ14 again only after its previous interrupt was *)
(* handled (the handler's STATUS read clears INTRQ).                      *)
(***************************************************************************)
EXTENDS Naturals, Sequences, Bitwise

CONSTANTS
  MasterMasks,  \* masks the firmware may leave in the master PIC
  SlaveMasks    \* masks the firmware may leave in the slave PIC

ASSUME MasterMasks \subseteq 0..255 /\ SlaveMasks \subseteq 0..255

PIC_IRQ_CASCADE     == 2
PIC_IRQ_ATA_PRIMARY == 14
PIC_REMAP_MASTER    == \h20
PIC_REMAP_SLAVE     == \h28
BIOS_MASTER_OFFSET  == \h08
BIOS_SLAVE_OFFSET   == \h70

VARIABLES
  imr1, imr2,   \* mask registers (bit set = line masked)
  off1, off2,   \* vector offsets (ICW2)
  isr1, isr2,   \* in-service lines of each PIC
  irr14,        \* IRQ14 requested and not yet delivered
  phase,        \* "boot" | "remapped" | "unmasked" | "running" (after sti)
  in_handler,   \* the CPU is inside irq14_ata
  last_vector,  \* vector of the latest interrupt taken (0: none yet)
  boot_masks    \* <<imr1, imr2>> as the firmware left them

vars == <<imr1, imr2, off1, off2, isr1, isr2, irr14, phase, in_handler,
          last_vector, boot_masks>>

\* (uint8_t)(mask & (uint8_t)~(1u << b)) for b < 8.
ClearBit(mask, b) == mask & (255 - 2^b)

Masked(mask, b) == (mask \div 2^b) % 2 = 1

\* Highest-priority (lowest-numbered) line in service, for a non-specific EOI.
Highest(s) == CHOOSE l \in s : \A m \in s : l <= m

-----------------------------------------------------------------------------
(* Code: remap_pic, unmask_irq, send_eoi (called from irq14_ata).          *)

\* Mutant: the saved masks are not written back after ICW4.
RemapNoRestore(master_offset, slave_offset) ==
  /\ off1' = master_offset /\ off2' = slave_offset
  /\ imr1' = 0 /\ imr2' = 0

\* ICW1..ICW4 to both PICs with the masks read before and written after:
\* ICW1 clears each mask register, the restore puts the saved one back.
remap_pic(master_offset, slave_offset) ==
  LET master_mask == imr1
      slave_mask  == imr2
  IN
  /\ off1' = master_offset /\ off2' = slave_offset
  /\ imr1' = master_mask /\ imr2' = slave_mask

\* Mutant: a slave line is unmasked but the cascade line left as it was.
UnmaskNoCascade(irq) ==
  IF irq < 8
  THEN /\ imr1' = ClearBit(imr1, irq) /\ UNCHANGED imr2
  ELSE /\ imr2' = ClearBit(imr2, irq - 8)
       /\ UNCHANGED imr1

unmask_irq(irq) ==
  IF irq < 8
  THEN /\ imr1' = ClearBit(imr1, irq) /\ UNCHANGED imr2
  ELSE /\ imr2' = ClearBit(imr2, irq - 8)
       /\ imr1' = ClearBit(imr1, PIC_IRQ_CASCADE)

\* Mutant: the slave EOI only for lines above 14.
EoiSlaveOffByOne(irq) ==
  /\ isr2' = IF irq > 14 /\ isr2 # {} THEN isr2 \ {Highest(isr2)} ELSE isr2
  /\ isr1' = IF isr1 # {} THEN isr1 \ {Highest(isr1)} ELSE isr1

send_eoi(irq) ==
  /\ isr2' = IF irq >= 8 /\ isr2 # {} THEN isr2 \ {Highest(isr2)} ELSE isr2
  /\ isr1' = IF isr1 # {} THEN isr1 \ {Highest(isr1)} ELSE isr1

-----------------------------------------------------------------------------
(* Steps.                                                                  *)

\* setup_ata_irq(), first call.
SetupRemap ==
  /\ phase = "boot"
  /\ remap_pic(PIC_REMAP_MASTER, PIC_REMAP_SLAVE)
  /\ phase' = "remapped"
  /\ UNCHANGED <<isr1, isr2, irr14, in_handler, last_vector, boot_masks>>

\* setup_ata_irq(), second call.
SetupUnmask ==
  /\ phase = "remapped"
  /\ unmask_irq(PIC_IRQ_ATA_PRIMARY)
  /\ phase' = "unmasked"
  /\ UNCHANGED <<off1, off2, isr1, isr2, irr14, in_handler,
                 last_vector, boot_masks>>

\* The caller's sti after setup_ata_irq (usage comment, ata_driver_irq.h).
Sti ==
  /\ phase = "unmasked"
  /\ phase' = "running"
  /\ UNCHANGED <<imr1, imr2, off1, off2, isr1, isr2, irr14, in_handler,
                 last_vector, boot_masks>>

\* The drive raises INTRQ (edge on IRQ14).
Raise14 ==
  /\ ~irr14 /\ ~in_handler
  /\ irr14' = TRUE
  /\ UNCHANGED <<imr1, imr2, off1, off2, isr1, isr2, phase, in_handler,
                 last_vector, boot_masks>>

\* The PIC pair delivers IRQ14 to the CPU through master line 2.
Deliver14 ==
  LET slaveLine == PIC_IRQ_ATA_PRIMARY - 8 IN
  /\ phase = "running" /\ irr14 /\ ~in_handler
  /\ ~Masked(imr2, slaveLine) /\ \A l \in isr2 : l > slaveLine
  /\ ~Masked(imr1, PIC_IRQ_CASCADE) /\ \A l \in isr1 : l > PIC_IRQ_CASCADE
  /\ irr14' = FALSE
  /\ isr2' = isr2 \cup {slaveLine}
  /\ isr1' = isr1 \cup {PIC_IRQ_CASCADE}
  /\ in_handler' = TRUE
  /\ last_vector' = off2 + slaveLine
  /\ UNCHANGED <<imr1, imr2, off1, off2, phase, boot_masks>>

\* irq14_ata: status capture (AtaIrq), then send_eoi(PIC_IRQ_ATA_PRIMARY).
Irq14Handler ==
  /\ in_handler
  /\ send_eoi(PIC_IRQ_ATA_PRIMARY)
  /\ in_handler' = FALSE
  /\ UNCHANGED <<imr1, imr2, off1, off2, irr14, phase, last_vector,
                 boot_masks>>

Init ==
  /\ imr1 \in MasterMasks /\ imr2 \in SlaveMasks
  /\ off1 = BIOS_MASTER_OFFSET /\ off2 = BIOS_SLAVE_OFFSET
  /\ isr1 = {} /\ isr2 = {} /\ irr14 = FALSE
  /\ phase = "boot" /\ in_handler = FALSE
  /\ last_vector = 0
  /\ boot_masks = <<imr1, imr2>>

Next ==
  \/ SetupRemap \/ SetupUnmask \/ Sti
  \/ Raise14 \/ Deliver14 \/ Irq14Handler

\* The boot code runs to sti; the PIC delivers a deliverable request and the
\* CPU, with interrupts enabled, runs the handler to completion.
Fairness ==
  /\ WF_vars(SetupRemap) /\ WF_vars(SetupUnmask) /\ WF_vars(Sti)
  /\ WF_vars(Deliver14) /\ WF_vars(Irq14Handler)

Spec == Init /\ [][Next]_vars /\ Fairness

-----------------------------------------------------------------------------
(* Properties.                                                             *)

\* Once setup_ata_irq() has run, the masks differ from the firmware's only
\* in IRQ14 (slave bit 6) and the cascade (master bit 2) being unmasked:
\* remap_pic preserves every other line's mask across the ICW sequence.
SetupPreservesMasks ==
  phase \in {"unmasked", "running"} =>
    /\ imr1 = ClearBit(boot_masks[1], PIC_IRQ_CASCADE)
    /\ imr2 = ClearBit(boot_masks[2], PIC_IRQ_ATA_PRIMARY - 8)

\* Every IRQ14 the drive raises is taken by the CPU at vector 46 (the IDT
\* slot the usage comment installs irq14_ata in), including the ones after
\* the first: each handler's send_eoi frees both PICs for the next.
Irq14Serviced ==
  /\ [](last_vector \in {0, PIC_REMAP_SLAVE + 6})
  /\ irr14 ~> ~irr14

=============================================================================
