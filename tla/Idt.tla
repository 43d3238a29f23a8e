--------------------------------- MODULE Idt ---------------------------------
(***************************************************************************)
(* The exception handling of the loader (src/kernelLoader/idt.c), as       *)
(* kmain runs it: idt_init() installs 19 interrupt gates and loads IDTR;   *)
(* from then on the CPU may raise any exception vector of Raised, and an   *)
(* NMI at any time, also inside a handler and in its "cli; hlt" loop       *)
(* (cli does not mask NMI; only the delivery of an NMI blocks further ones *)
(* until the next IRET, which no handler here executes).                   *)
(*                                                                         *)
(* The CPU's delivery (Intel SDM vol. 3, 6.12-6.15) is the environment: a  *)
(* vector beyond the IDT limit gives #GP, a gate without P gives #NP; a    *)
(* contributory fault while delivering a contributory one, or a page fault *)
(* or contributory fault while delivering a page fault, gives #DF; a fault *)
(* while delivering #DF shuts the CPU down.  The CPU pushes an error code  *)
(* for the vectors of PushesErrorCode.  A handler (an isr* stub and        *)
(* isr_general_exception_[no_]ec) clears the screen, prints its message,   *)
(* then one hex row per value it reads, then halts: one step each.  The    *)
(* text and the hex formatting are left out: a screen row holds the vector *)
(* whose handler wrote it and the name of the stack word it printed.       *)
(***************************************************************************)
EXTENDS Integers, Sequences, Bitwise, TLC

CONSTANTS
  Raised    \* exception vectors the CPU may raise while the loader runs

ASSUME Raised \subseteq 0..31

\* The CPU (environment).
PushesErrorCode == {8, 10, 11, 12, 13, 14, 17, 21, 29, 30}
Contributory    == {0, 10, 11, 12, 13}
NMI             == 2

KERNEL_CS        == \h18
IDT_ATTR_INTGATE == \h8E
IdtEntries       == 256
GateBytes        == 16
Rows             == 0..5
SHUTDOWN         == -1     \* no handler: the CPU enters shutdown

\* Mutant of Isr: the #AC stub declared without the error code argument.
IsrAcNoEc == [v \in {0, 1, 2, 5, 6, 7, 9, 16, 17, 18, 19, 20} |-> FALSE]
               @@ [v \in {8, 10, 11, 12, 13, 14, 21} |-> TRUE]

\* The stubs idt_init installs: vector -> the stub takes an error code.
Isr == [v \in {0, 1, 2, 5, 6, 7, 9, 16, 18, 19, 20} |-> FALSE]
         @@ [v \in {8, 10, 11, 12, 13, 14, 17, 21} |-> TRUE]

VARIABLES
  idt,          \* vector -> gate
  limit,        \* IDTR.limit
  mode,         \* "boot" | "running" | "handler" | "halted" | "shutdown"
  handler,      \* the vector whose handler runs or ran last
  row,          \* the handler's next write: 0 clears, i > 0 writes Program[i]
  screen,       \* row -> [by: vector, word: the stack word printed] or Blank
  nmi_blocked   \* an NMI was delivered and no IRET followed

vars == <<idt, limit, mode, handler, row, screen, nmi_blocked>>

NoGate == [present |-> FALSE, isr |-> 0, ec |-> FALSE, selector |-> 0,
           ist |-> 0, type |-> 0]
Blank  == [by |-> -1, word |-> "blank"]

\* idt_gate_set(vec, addr, selector, ist, type_attr): the handler address
\* is split over three fields that the CPU joins again; the model keeps
\* the stub it points to.  P is bit 7 of the type byte.
idt_gate_set(vec, selector, ist, type_attr) ==
  [present  |-> (type_attr & \h80) # 0,
   isr      |-> vec,
   ec       |-> Isr[vec],
   selector |-> selector,
   ist      |-> ist & \h7,
   type     |-> type_attr]

\* lidt(base, size_minus_1): IDTR.limit is a uint16_t.
lidt(size_minus_1) == size_minus_1 % 2^16

\* Mutant of idt_init: the gate type without the present bit.
IdtInitNoPresent ==
  /\ mode = "boot"
  /\ idt' = [v \in 0..(IdtEntries - 1) |->
               IF v \in DOMAIN Isr THEN idt_gate_set(v, KERNEL_CS, 0, \h0E)
               ELSE NoGate]
  /\ limit' = lidt(IdtEntries * GateBytes - 1)
  /\ mode' = "running"
  /\ UNCHANGED <<handler, row, screen, nmi_blocked>>

\* idt_init: the gates of Isr, each with KERNEL_CS, IST 0 and an interrupt
\* gate type; lidt(idt, sizeof(idt) - 1).
idt_init ==
  /\ mode = "boot"
  /\ idt' = [v \in 0..(IdtEntries - 1) |->
               IF v \in DOMAIN Isr
               THEN idt_gate_set(v, KERNEL_CS, 0, IDT_ATTR_INTGATE)
               ELSE NoGate]
  /\ limit' = lidt(IdtEntries * GateBytes - 1)
  /\ mode' = "running"
  /\ UNCHANGED <<handler, row, screen, nmi_blocked>>

-----------------------------------------------------------------------------
(* Delivery.                                                              *)

Deliverable(v) == v * GateBytes + GateBytes - 1 <= limit /\ idt[v].present

\* The fault raised when the gate of v cannot be used.
GateFault(v) == IF v * GateBytes + GateBytes - 1 > limit THEN 13 ELSE 11

Escalates(first, second) ==
  \/ first \in Contributory /\ second \in Contributory
  \/ first = 14 /\ second \in Contributory \cup {14}

\* The vector whose handler runs when v is raised, or SHUTDOWN.
RECURSIVE Resolve(_)
Resolve(v) ==
  CASE Deliverable(v) -> v
    [] v = 8          -> SHUTDOWN
    [] Escalates(v, GateFault(v)) -> Resolve(8)
    [] OTHER          -> Resolve(GateFault(v))

\* The words the CPU pushed for vector v, lowest address first, and the
\* one a handler reads at a word offset (past ss: the caller's stack).
Pushed(v) ==
  IF v \in PushesErrorCode THEN <<"ec", "rip", "cs", "rflags", "rsp", "ss">>
  ELSE <<"rip", "cs", "rflags", "rsp", "ss">>
StackWord(v, i) == IF i <= 5 THEN Pushed(v)[i + 1] ELSE "above"

\* What the handler of v prints, row by row: isr_general_exception_ec
\* takes the error code from the first word and the frame after it;
\* isr_general_exception_no_ec takes the frame from the first word.
Program(v) ==
  IF idt[v].ec
  THEN << <<0, "message">>, <<1, StackWord(v, 0)>>, <<2, "cr2">>,
          <<3, StackWord(v, 1)>>, <<4, "frame">>, <<5, "rsp_now">> >>
  ELSE << <<0, "message">>, <<2, StackWord(v, 0)>>, <<3, StackWord(v, 3)>>,
          <<4, StackWord(v, 2)>> >>

\* The CPU enters the handler v resolves to (or shuts down).
Deliver(v) ==
  LET r == Resolve(v) IN
  IF r = SHUTDOWN
  THEN mode' = "shutdown" /\ UNCHANGED <<handler, row>>
  ELSE mode' = "handler" /\ handler' = idt[r].isr /\ row' = 0

Exception(v) ==
  /\ mode = "running"
  /\ Deliver(v)
  /\ UNCHANGED <<idt, limit, screen, nmi_blocked>>

Nmi ==
  /\ mode \in {"running", "handler", "halted"} /\ ~nmi_blocked
  /\ nmi_blocked' = TRUE
  /\ Deliver(NMI)
  /\ UNCHANGED <<idt, limit, screen>>

\* The handler's body: clear the 80x25 screen, then the rows of Program.
isr_general_exception_clear ==
  /\ mode = "handler" /\ row = 0
  /\ screen' = [i \in Rows |-> Blank]
  /\ row' = 1
  /\ UNCHANGED <<idt, limit, mode, handler, nmi_blocked>>

isr_general_exception_print ==
  /\ mode = "handler" /\ 1 <= row /\ row <= Len(Program(handler))
  /\ LET w == Program(handler)[row] IN
     screen' = [screen EXCEPT ![w[1]] = [by |-> handler, word |-> w[2]]]
  /\ row' = row + 1
  /\ UNCHANGED <<idt, limit, mode, handler, nmi_blocked>>

\* for (;;) { cli; hlt; }
isr_general_exception_halt ==
  /\ mode = "handler" /\ row > Len(Program(handler))
  /\ mode' = "halted"
  /\ UNCHANGED <<idt, limit, handler, row, screen, nmi_blocked>>

Init ==
  /\ idt = [v \in 0..(IdtEntries - 1) |-> NoGate]   \* static idt[256] = {0}
  /\ limit = 0 /\ mode = "boot" /\ handler = 0 /\ row = 0
  /\ screen = [i \in Rows |-> Blank] /\ nmi_blocked = FALSE

Next ==
  \/ idt_init
  \/ \E v \in Raised : Exception(v)
  \/ Nmi
  \/ isr_general_exception_clear
  \/ isr_general_exception_print
  \/ isr_general_exception_halt

Spec == Init /\ [][Next]_vars

-----------------------------------------------------------------------------
(* Properties.                                                             *)

\* Every exception the CPU raises once idt_init has run, and every NMI,
\* reaches a handler: no vector's delivery, through the #NP, #GP and #DF
\* it may turn into, ends in a shutdown.
ExceptionsReported == mode # "shutdown"

\* A halted handler's report is true to the frame the CPU pushed: the row
\* it labels RIP shows the faulting RIP, the error code row the error
\* code, and RSP and RFLAGS rows the saved RSP and RFLAGS.  Depends on
\* every stub's signature matching whether its vector pushes an error code.
ReportMatchesFrame ==
  mode = "halted" =>
    LET shown == {screen[i].word : i \in Rows} IN
    /\ "rip" \in shown
    /\ shown \cap {"cs", "ss", "above"} = {}
    /\ ("ec" \in shown <=> handler \in PushesErrorCode)

\* Once a handler has halted, the CPU stays in its "cli; hlt" loop, so the
\* report it printed is the last thing written to the screen.
ReportKept == [][mode = "halted" => mode' = "halted"]_vars
=============================================================================
