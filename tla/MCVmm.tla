-------------------------------- MODULE MCVmm --------------------------------
(* Model-checking instances of Vmm.  Pages are 4 bytes and tables have 4    *)
(* entries, so a 1 GiB block is 64 bytes and the HHDM lies at 512.        *)
(* MAX_FRAMES = 8 makes g_frame_bitmap one 64-bit word, 64 frames, all of  *)
(* them RAM.  The reserved low frames hold the kernel image and the stack, *)
(* as PMM_RESERVED_FRAMES (64 MiB) holds them on the real machine; the     *)
(* frames above them are left clear by the 0xFF fill (see Pmm).            *)
EXTENDS Vmm

\* RAM at [0, 256): frames 0..63, four 1 GiB blocks.
MCE820 == << [base |-> 0, length |-> 256, type |-> 1] >>

\* The kernel image is frames 2 and 3; rsp is in frame 6 and the stack top
\* at 32, so the live stack spans frames 6 and 7.
MCKernelStart == 8
MCKernelEnd   == 16

\* A page beside the kernel (its page table exists), two pages that share a
\* page directory and page table that vmm_init did not create.
MCVAddrs == {4, 64, 68}
=============================================================================
