------------------------------ MODULE MCAtaIrq ------------------------------
(* Model-checking instances of AtaIrq.                                     *)
EXTENDS AtaIrq

\* Every operation of ata_op_t.
MCAllOps == InitOps \cup IoOps

\* Sector 0, and a start one sector below 2^24: the second sector changes
\* the LBA bits 24-27 that ata_io_issue_select_handle puts in DRIVE_SEL
\* and, for LBA48, the high-order pass of the taskfile.
MCLbas == {0, 2^24 - 1}

\* One, two and three sectors: a first, a middle and a last command.
MCCounts == {1, 2, 3}

\* The last LBA28 sector: a two-sector request crosses 2^28.
MCLbasAt28Limit == {2^28 - 1}

MCInitOps == InitOps
MCWriteOps == WriteOps
MCRead28 == {"READ_28"}
MCInitAndRead == InitOps \cup ReadOps
MCOne == {1}
=============================================================================
