------------------------------ MODULE MCAtaPoll ------------------------------
(* Instances of AtaPoll for TLC.                                           *)
EXTENDS AtaPoll

\* kmain as built: ata_disk_write_48_poll(2048, buf, ...).
MCKmainXfer == {"write_48"}

\* Every transfer function, so the read and LBA28 paths are explored too.
MCAllXfers == {"read_28", "write_28", "read_48", "write_48"}
=============================================================================
