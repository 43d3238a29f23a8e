----------------------------- MODULE AtaTaskfile -----------------------------
(***************************************************************************)
(* The ATA taskfile as both drivers program it, and as the drive decodes   *)
(* it.  A register write is <<register, byte>>; the drive keeps, for each  *)
(* register, the byte written last and the one before it (the "previous    *)
(* content" an LBA48 command reads as the high-order bytes).  An LBA28     *)
(* command takes the address from the last bytes of LBA_LOW/MID/HIGH and   *)
(* the low nibble of DRIVE_SEL; an LBA48 command takes bytes 0-2 from the  *)
(* last and bytes 3-5 from the previous bytes of LBA_LOW/MID/HIGH, and the *)
(* count from the previous and last SECCOUNT, 0 meaning 65536.             *)
(***************************************************************************)
EXTENDS Naturals, Sequences, Bitwise

LOCAL INSTANCE SequencesExt

Regs == {"SECCOUNT", "LBA_LOW", "LBA_MID", "LBA_HIGH", "DRIVE_SEL"}

ATA_DH_LBA_MASTER == \hE0

\* (uint8_t)(x >> 8k), by repeated division so that no power above the
\* value itself is formed.
RECURSIVE Byte(_, _)
Byte(x, k) == IF k = 0 THEN x % 256 ELSE Byte(x \div 256, k - 1)

\* ata_lba28_set(lba): the three address bytes, then DRIVE_SEL with bits
\* 24-27 ((lba >> 24) & 0x0F); the 4 status reads change no register.
ata_lba28_set(lba) ==
  << <<"LBA_LOW", Byte(lba, 0)>>, <<"LBA_MID", Byte(lba, 1)>>,
     <<"LBA_HIGH", Byte(lba, 2)>>,
     <<"DRIVE_SEL", ATA_DH_LBA_MASTER | (Byte(lba, 3) & \h0F)>> >>

\* Mutant: the low pass written before the high pass.
Lba48LowPassFirst(lba, sector_count) ==
  LET count_high == IF sector_count = 65536 THEN 0 ELSE Byte(sector_count, 1)
      count_low  == IF sector_count = 65536 THEN 0 ELSE Byte(sector_count, 0)
  IN << <<"DRIVE_SEL", ATA_DH_LBA_MASTER>>,
        <<"SECCOUNT", count_low>>,
        <<"LBA_LOW", Byte(lba, 0)>>, <<"LBA_MID", Byte(lba, 1)>>,
        <<"LBA_HIGH", Byte(lba, 2)>>,
        <<"SECCOUNT", count_high>>,
        <<"LBA_LOW", Byte(lba, 3)>>, <<"LBA_MID", Byte(lba, 4)>>,
        <<"LBA_HIGH", Byte(lba, 5)>> >>

\* ata_lba48_set(lba, sector_count): DRIVE_SEL, then the high pass (count
\* high byte, address bytes 3-5), then the low pass (count low byte,
\* address bytes 0-2).
ata_lba48_set(lba, sector_count) ==
  LET count_high == IF sector_count = 65536 THEN 0 ELSE Byte(sector_count, 1)
      count_low  == IF sector_count = 65536 THEN 0 ELSE Byte(sector_count, 0)
  IN << <<"DRIVE_SEL", ATA_DH_LBA_MASTER>>,
        <<"SECCOUNT", count_high>>,
        <<"LBA_LOW", Byte(lba, 3)>>, <<"LBA_MID", Byte(lba, 4)>>,
        <<"LBA_HIGH", Byte(lba, 5)>>,
        <<"SECCOUNT", count_low>>,
        <<"LBA_LOW", Byte(lba, 0)>>, <<"LBA_MID", Byte(lba, 1)>>,
        <<"LBA_HIGH", Byte(lba, 2)>> >>

-----------------------------------------------------------------------------
(* The drive (hardware; not code of this repository).                      *)

PowerOn == [r \in Regs |-> <<0, 0>>]

Latched(regs, w) == [regs EXCEPT ![w[1]] = <<@[2], w[2]>>]

\* The register file after a sequence of outb() to the taskfile.
Program(regs, writes) == FoldLeft(Latched, regs, writes)

Cur(regs, r) == regs[r][2]
Hob(regs, r) == regs[r][1]

RECURSIVE FromBytes(_)
FromBytes(bs) == IF bs = <<>> THEN 0 ELSE Head(bs) + 256 * FromBytes(Tail(bs))

LbaBytes28(regs) ==
  << Cur(regs, "LBA_LOW"), Cur(regs, "LBA_MID"), Cur(regs, "LBA_HIGH"),
     Cur(regs, "DRIVE_SEL") & \h0F >>

LbaBytes48(regs) ==
  << Cur(regs, "LBA_LOW"), Cur(regs, "LBA_MID"), Cur(regs, "LBA_HIGH"),
     Hob(regs, "LBA_LOW"), Hob(regs, "LBA_MID"), Hob(regs, "LBA_HIGH") >>

Count48(regs) ==
  LET c == Hob(regs, "SECCOUNT") * 256 + Cur(regs, "SECCOUNT")
  IN IF c = 0 THEN 65536 ELSE c

LbaOf28(regs) == FromBytes(LbaBytes28(regs))
LbaOf48(regs) == FromBytes(LbaBytes48(regs))
=============================================================================
