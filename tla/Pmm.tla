-------------------------------- MODULE Pmm ---------------------------------
(***************************************************************************)
(* The physical frame allocator of src/kernel/pmm.c: a bitmap of uint64_t  *)
(* words, one bit per frame, built from the E820 map by pmm_init() and     *)
(* scanned lowest-first by pmm_frame_alloc().                              *)
(*                                                                         *)
(* Sizes are scaled down (PageSize bytes per frame, MaxFrames frames,      *)
(* ReservedFrames low frames) but the word width stays 64 bits, because    *)
(* what the code does with a word (0xFF stored into a uint64_t, ctz of its *)
(* complement) depends on it.  g_frame_bitmap is the set of frames whose   *)
(* bit is set.  The array has BITMAP_BYTES words, as declared in pmm.h.    *)
(*                                                                         *)
(* The client allocates frames and frees the ones it holds, as the VMM     *)
(* does: pmm_frame_alloc returns a physical address (frame << PAGE_SHIFT)  *)
(* and the client passes addr >> PAGE_SHIFT back to pmm_frame_free.  It    *)
(* holds at most MaxOwned frames at a time.                                *)
(***************************************************************************)
EXTENDS Integers, Sequences, FiniteSets

CONSTANTS
  PageSize,        \* PAGE_SIZE, scaled
  MaxFrames,       \* MAX_FRAMES, scaled
  ReservedFrames,  \* PMM_RESERVED_FRAMES, scaled
  E820,            \* the firmware map: a sequence of [base, length, type]
  KernelStart,     \* __kernel_start
  KernelEnd,       \* __kernel_end
  MaxOwned,        \* frames the client holds at most
  ClientFrees      \* TRUE when the client also frees frames

ASSUME PageSize \in Nat \ {0} /\ MaxFrames \in Nat \ {0}
ASSUME ReservedFrames \in Nat /\ MaxOwned \in Nat
ASSUME KernelStart \in Nat /\ KernelEnd \in Nat /\ KernelStart <= KernelEnd
ASSUME ClientFrees \in BOOLEAN

WordBits     == 64
BITMAP_BYTES == (MaxFrames + 7) \div 8        \* length of g_frame_bitmap
ArrayFrames  == BITMAP_BYTES * WordBits      \* frames the array can hold
PMM_INVALID_FRAME == -1                       \* UINT64_MAX, outside every range

VARIABLES
  g_frame_bitmap,  \* frames whose bit is set
  g_phys_ceiling,
  ready,           \* pmm_init() has run
  owned            \* addresses handed out to the client and not freed

vars == <<g_frame_bitmap, g_phys_ceiling, ready, owned>>

align_down(addr) == (addr \div PageSize) * PageSize
align_up(addr)   == ((addr + PageSize - 1) \div PageSize) * PageSize

Bit(f)  == f % WordBits

\* addr >> PAGE_SHIFT
Frame(addr) == addr \div PageSize

OwnedFrames == {Frame(a) : a \in owned}

\* Frames [start_idx, end_idx) that pmm_init_from_map clears for one entry.
UsableFrames(e) ==
  LET start_idx == align_up(e.base) \div PageSize
      end_idx   == align_down(e.base + e.length) \div PageSize
      bound_end == IF end_idx > MaxFrames THEN MaxFrames ELSE end_idx
  IN IF e.type # 1 \/ start_idx >= MaxFrames \/ start_idx >= bound_end
     THEN {}
     ELSE start_idx..(bound_end - 1)

KernelFrames ==
  (align_down(KernelStart) \div PageSize)..(align_up(KernelEnd) \div PageSize - 1)

\* g_frame_bitmap[i] = 0xFF for every word: the uint64_t word gets the
\* value 255, which sets its low 8 bits only.
PessimisticFill == {f \in 0..(ArrayFrames - 1) : Bit(f) < 8}

\* pmm_init_from_map: fill, clear the usable frames, set the reserved ones.
pmm_init_from_map ==
  (PessimisticFill \ UNION {UsableFrames(E820[i]) : i \in 1..Len(E820)})
    \cup 0..(ReservedFrames - 1)

Ceiling ==
  LET ends == {E820[i].base + E820[i].length : i \in 1..Len(E820)}
  IN IF ends = {} THEN 0 ELSE CHOOSE m \in ends : \A x \in ends : x <= m

\* Mutant: the kernel frames are marked before the map is processed.
InitKernelFirst ==
  /\ ~ready
  /\ g_frame_bitmap' =
       ((PessimisticFill \cup KernelFrames)
          \ UNION {UsableFrames(E820[i]) : i \in 1..Len(E820)})
       \cup 0..(ReservedFrames - 1)
  /\ g_phys_ceiling' = Ceiling
  /\ ready' = TRUE
  /\ UNCHANGED owned

\* pmm_init: the map, then the frames of the kernel image.
pmm_init ==
  /\ ~ready
  /\ g_frame_bitmap' = pmm_init_from_map \cup KernelFrames
  /\ g_phys_ceiling' = Ceiling
  /\ ready' = TRUE
  /\ UNCHANGED owned

\* The first word (in index order) that is not ~0 and its lowest clear bit:
\* the lowest clear frame of the array.  The scan runs to MAX_FRAMES words,
\* past the BITMAP_BYTES of the array: reading past it is undefined, and
\* the model lets the word after the array yield either its lowest bit not
\* yet set by frame_bitmap_set or nothing (PMM_INVALID_FRAME).
FreeInArray(bm) == (0..(ArrayFrames - 1)) \ bm
PastArray(bm)   == (ArrayFrames..(ArrayFrames + WordBits - 1)) \ bm

Lowest(S) == CHOOSE f \in S : \A g \in S : f <= g

AllocResultsIn(bm) ==
  CASE FreeInArray(bm) # {} -> {Lowest(FreeInArray(bm))}
    [] PastArray(bm) # {}   -> {Lowest(PastArray(bm)), PMM_INVALID_FRAME}
    [] OTHER                -> {PMM_INVALID_FRAME}

AllocResults == AllocResultsIn(g_frame_bitmap)

\* Mutant: the frame index is returned without the shift to an address.
AllocNoShift ==
  /\ ready /\ Cardinality(owned) < MaxOwned
  /\ \E f \in AllocResults :
       /\ g_frame_bitmap' = IF f = PMM_INVALID_FRAME THEN g_frame_bitmap
                            ELSE g_frame_bitmap \cup {f}
       /\ owned' = IF f = PMM_INVALID_FRAME THEN owned ELSE owned \cup {f}
  /\ UNCHANGED <<g_phys_ceiling, ready>>

\* Set the found bit and return (phys_addr_t)(frame_idx << PAGE_SHIFT); the
\* client keeps every address that is not PMM_INVALID_FRAME.
pmm_frame_alloc ==
  /\ ready /\ Cardinality(owned) < MaxOwned
  /\ \E f \in AllocResults :
       /\ g_frame_bitmap' = IF f = PMM_INVALID_FRAME THEN g_frame_bitmap
                            ELSE g_frame_bitmap \cup {f}
       /\ owned' = IF f = PMM_INVALID_FRAME THEN owned ELSE owned \cup {f * PageSize}
  /\ UNCHANGED <<g_phys_ceiling, ready>>

\* Mutant: the frame is cleared without the reserved-frame check.
PmmFreeNoReservedCheck(frame_idx) ==
  /\ g_frame_bitmap' = g_frame_bitmap \ {frame_idx}

\* pmm_frame_free: frames below PMM_RESERVED_FRAMES are ignored; any other
\* bit is cleared, allocated or not.
pmm_frame_free(frame_idx) ==
  /\ g_frame_bitmap' = IF frame_idx < ReservedFrames THEN g_frame_bitmap
                       ELSE g_frame_bitmap \ {frame_idx}

\* The client frees the frame of an address it holds.
ClientFree ==
  /\ ready /\ ClientFrees
  /\ \E a \in owned :
       /\ pmm_frame_free(Frame(a))
       /\ owned' = owned \ {a}
  /\ UNCHANGED <<g_phys_ceiling, ready>>

Init ==
  /\ g_frame_bitmap = {}      \* .bss, zeroed by kmain
  /\ g_phys_ceiling = 0
  /\ ready = FALSE
  /\ owned = {}

Next ==
  \/ pmm_init
  \/ pmm_frame_alloc
  \/ ClientFree

Spec == Init /\ [][Next]_vars

-----------------------------------------------------------------------------
(* Properties.                                                             *)

TypeOK ==
  /\ g_frame_bitmap \subseteq 0..ArrayFrames
  /\ g_phys_ceiling \in Nat
  /\ ready \in BOOLEAN
  /\ owned \subseteq {f * PageSize : f \in 0..ArrayFrames}

\* Neither the low reserved frames nor the frames of the kernel image are
\* ever handed out: pmm_init marks them after the map has freed the usable
\* RAM around them.
ProtectedNeverHandedOut ==
  OwnedFrames \cap (0..(ReservedFrames - 1) \cup KernelFrames) = {}

\* Every frame handed out lies in a usable (type 1) E820 range, as the
\* comment of pmm_init_from_map promises ("marks all frames as used ... then
\* clears bits for available RAM").
HandedOutFramesAreRam ==
  OwnedFrames \subseteq UNION {UsableFrames(E820[i]) : i \in 1..Len(E820)}

\* No frame at or above MAX_FRAMES is handed out: when the managed frames
\* are exhausted pmm_frame_alloc returns PMM_INVALID_FRAME.
HandedOutFramesBelowMax == \A f \in OwnedFrames : f < MaxFrames

=============================================================================
