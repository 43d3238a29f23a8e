-------------------------------- MODULE MCIdt --------------------------------
(* Model-checking instances of Idt.                                        *)
EXTENDS Idt

\* Every architectural exception vector, the reserved ones included.
MCRaised == (0..31) \ {NMI}
=============================================================================
