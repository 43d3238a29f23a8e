----------------------------- MODULE MCAtaSystem -----------------------------
(* Model-checking instance of AtaSystem.                                   *)
EXTENDS AtaSystem

\* Every operation of ata_op_t (the driver waits for an interrupt in each),
\* one- and two-sector requests at sector 0 and across the DRIVE_SEL
\* boundary.
MCOps   == {"INIT_28", "INIT_48", "READ_28", "READ_48", "WRITE_28", "WRITE_48"}
MCInitOps  == {"INIT_28", "INIT_48"}
MCWriteOps == {"WRITE_28", "WRITE_48"}
MCLbas  == {0, 2^24 - 1}
MCCounts == {1, 2}

\* Firmware masks: everything masked, the usual ones, and everything but
\* the cascade (0xFB) or IRQ14 (0xBF) masked.
MCMasterMasks == {\hFF, \hB8, \hFB}
MCSlaveMasks  == {\hFF, \h8F, \hBF}
=============================================================================
