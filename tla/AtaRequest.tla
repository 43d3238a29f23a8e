----------------------------- MODULE AtaRequest -----------------------------
(***************************************************************************)
(* What the request facade of the interrupt-driven ATA driver promises     *)
(* (spec.md sections 4-7), without registers, interrupts or delays: one    *)
(* request at a time is admitted from Idle; an identification moves no     *)
(* sector; a transfer of N sectors from L moves sector L+i into the i-th   *)
(* 256-word slot of the caller's buffer, one at a time, in address order;  *)
(* Done after a transfer means all N were moved; Fail may end any request. *)
(* A finished session may be returned to Idle for the next request.        *)
(***************************************************************************)
EXTENDS Naturals, Sequences

CONSTANTS Lbas, Counts

VARIABLES
  phase,    \* "Idle" | "Busy" | "Done" | "Fail"
  kind,     \* "none" | "init" | "io": the request admitted last
  request,  \* [lba, count] of the transfer admitted last
  moved     \* <<sector address, buffer word offset>> per sector moved

vars == <<phase, kind, request, moved>>

Init ==
  /\ phase = "Idle" /\ kind = "none"
  /\ request = [lba |-> 0, count |-> 0] /\ moved = <<>>

BeginInit ==
  /\ phase = "Idle"
  /\ phase' = "Busy" /\ kind' = "init"
  /\ UNCHANGED <<request, moved>>

BeginIo(l, n) ==
  /\ phase = "Idle" /\ n > 0
  /\ phase' = "Busy" /\ kind' = "io"
  /\ request' = [lba |-> l, count |-> n] /\ moved' = <<>>

\* The next sector of the request goes to the next slot of the buffer.
MoveSector ==
  /\ phase = "Busy" /\ kind = "io" /\ Len(moved) < request.count
  /\ moved' = Append(moved, <<request.lba + Len(moved), Len(moved) * 256>>)
  /\ UNCHANGED <<phase, kind, request>>

Complete ==
  /\ phase = "Busy"
  /\ kind = "io" => Len(moved) = request.count
  /\ phase' = "Done"
  /\ UNCHANGED <<kind, request, moved>>

Abort ==
  /\ phase = "Busy"
  /\ phase' = "Fail"
  /\ UNCHANGED <<kind, request, moved>>

Release ==
  /\ phase \in {"Done", "Fail"}
  /\ phase' = "Idle" /\ kind' = "none"
  /\ UNCHANGED <<request, moved>>

Next ==
  \/ BeginInit
  \/ \E l \in Lbas, n \in Counts : BeginIo(l, n)
  \/ MoveSector \/ Complete \/ Abort \/ Release

Spec == Init /\ [][Next]_vars
=============================================================================
