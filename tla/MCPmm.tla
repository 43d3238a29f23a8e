------------------------------- MODULE MCPmm --------------------------------
(* Model-checking instances of Pmm.  Frames are 4 bytes; MAX_FRAMES is one *)
(* 64-bit word.                                                            *)
EXTENDS Pmm

\* Usable RAM at [2, 32) (frames 1..7 once aligned), a reserved hole over
\* frames 8..63, and usable RAM at frames 64..79, past MAX_FRAMES.
MCE820 == << [base |-> 2,   length |-> 30,  type |-> 1],
             [base |-> 32,  length |-> 224, type |-> 2],
             [base |-> 256, length |-> 64,  type |-> 1] >>

\* The kernel image occupies frames 5 and 6, inside the usable range.
MCKernelStart == 21
MCKernelEnd   == 27
=============================================================================
