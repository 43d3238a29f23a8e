------------------------------- MODULE MCPic --------------------------------
(* Model-checking instance of Pic.                                         *)
EXTENDS Pic

\* Everything masked or open, the usual firmware masks (IRQ14 already open
\* on the slave, cascade open on the master), and masks that block the
\* cascade line or IRQ14 only.
MCMasterMasks == {\hFF, \hB8, \hFC, \hFB, \h00}
MCSlaveMasks  == {\hFF, \h8F, \hBF}
=============================================================================
