--------------------------------- MODULE Vmm ---------------------------------
(***************************************************************************)
(* The virtual memory manager of src/kernel/vmm.c on top of the frame      *)
(* allocator of src/kernel/pmm.c, as kmain (src/kernel/main.c) runs them:  *)
(* pmm_init, then vmm_init (a PML4, the HHDM of 1 GiB pages, the identity  *)
(* map of the kernel image and of the stack window, mov cr3), then the hlt *)
(* loop.  After vmm_init a caller of the API may call vmm_page_alloc and   *)
(* vmm_page_free on the pages of VAddrs in any order.                      *)
(*                                                                         *)
(* The four-level x86-64 tree keeps its shape, scaled: Entries entries per *)
(* table instead of 512 and PageSize bytes per page, so levels_shift[i] is *)
(* PageSize * Entries^(3-i).  Physical memory holding page tables is the   *)
(* function tables from a table's physical address to its entries.  An     *)
(* entry keeps what the code reads back from it: PRESENT, the address     *)
(* (entry & PAGE_ADDR_MASK) and PS; the other flag bits are never read.    *)
(*                                                                         *)
(* The kernel runs on one CPU and nothing of the VMM runs in an interrupt  *)
(* handler, so each call is one step.  vmm_init is one step per call it    *)
(* makes that maps something.  The TLB is not modelled (every change of a  *)
(* present entry is followed by invlpg, or precedes the load of CR3).      *)
(***************************************************************************)
EXTENDS Integers, Sequences, FiniteSets, TLC

CONSTANTS
  PageSize, MaxFrames, ReservedFrames, E820,   \* of the PMM (see Pmm)
  KernelStart, KernelEnd,                      \* __kernel_start, __kernel_end
  Entries,       \* entries per table (512, scaled)
  Rsp,           \* rsp when vmm_kernel_map runs
  StackWindow,   \* the 256 KiB margin below rsp, scaled
  StackTop,      \* the top of the stack kmain runs on
  VAddrs,        \* page addresses a caller passes to the API
  AllocFreshOnly,\* TRUE: the caller only allocates pages it has not mapped
  MaxCalls       \* API calls explored after vmm_init

VARIABLES
  g_frame_bitmap, g_phys_ceiling, ready,   \* the PMM
  pc,        \* where kmain is
  tables,    \* physical address of a page table -> its entries
  pml4,      \* vmm_init's pml4_phys
  p,         \* vmm_hhdm_create's loop variable
  k,         \* the index of the next page vmm_kernel_map maps
  cr3,       \* the PML4 the CPU walks once vmm_pml4_load has run
  calls      \* API calls made so far

P == INSTANCE Pmm WITH owned <- {}, MaxOwned <- 0, ClientFrees <- FALSE

vars == <<g_frame_bitmap, g_phys_ceiling, ready, pc, tables, pml4, p, k, cr3, calls>>
pmm  == <<g_frame_bitmap, g_phys_ceiling, ready>>

INVALID     == P!PMM_INVALID_FRAME
Shift(i)    == PageSize * Entries ^ (3 - i)        \* 1 << levels_shift[i]
Idx(v, i)   == (v \div Shift(i)) % Entries          \* (v >> shift) & 0x1FF
HHDM_OFFSET == (Entries \div 2) * Shift(0)          \* PML4 slot 256 of 512
GIB_SIZE    == Shift(1)

ASSUME Entries \in Nat \ {0} /\ Entries % 2 = 0
ASSUME VAddrs \subseteq 0..(HHDM_OFFSET - 1) /\ \A v \in VAddrs : v % PageSize = 0
ASSUME AllocFreshOnly \in BOOLEAN /\ MaxCalls \in Nat

NoEntry   == [present |-> FALSE, addr |-> 0, ps |-> FALSE]
ZeroTable == [i \in 0..(Entries - 1) |-> NoEntry]
Entry(a, ps) == [present |-> TRUE, addr |-> a, ps |-> ps]

align_down(a) == P!align_down(a)
align_up(a)   == P!align_up(a)

\* pmm_frame_alloc's return values for a bitmap: frame_idx << PAGE_SHIFT.
AllocAddrs(bm) ==
  {IF f = INVALID THEN INVALID ELSE f * PageSize : f \in P!AllocResultsIn(bm)}
Take(bm, a) == IF a = INVALID THEN bm ELSE bm \cup {a \div PageSize}

\* The address the MMU translates v to under the tree at root, or INVALID.
\* A PS entry ends the walk with a page of the size that level maps.
RECURSIVE Translate(_, _, _, _)
Translate(tbl, root, v, i) ==
  LET e == tbl[root][Idx(v, i)] IN
  CASE ~e.present    -> INVALID
    [] e.ps \/ i = 3 -> e.addr + (v % Shift(i))
    [] OTHER         -> Translate(tbl, e.addr, v, i + 1)

Walked(bm, tbl, pte) == [bm |-> bm, tbl |-> tbl, pte |-> pte]

\* vmm_pte_get (online: tables are reached through the HHDM of the loaded
\* tree) and vmm_pte_get_offline (1:1, before CR3 is loaded), from level i
\* with the current table t.  The set of outcomes: the PTE as <<table, idx>>,
\* "NULL", or "FAULT" where the code touches memory that is not mapped.
\* A missing table comes from pmm_frame_alloc and is zeroed; online, an
\* INVALID frame returns NULL, offline it is zeroed and linked unchecked.
RECURSIVE Walk(_, _, _, _, _, _, _)
Walk(t, v, i, create, online, bm, tbl) ==
  LET j == Idx(v, i)
      e == tbl[t][j]
  IN
  CASE online /\ Translate(tbl, cr3, t + HHDM_OFFSET, 0) # t ->
         {Walked(bm, tbl, "FAULT")}
    [] i = 3      -> {Walked(bm, tbl, <<t, j>>)}
    [] e.present  -> Walk(e.addr, v, i + 1, create, online, bm, tbl)
    [] ~create    -> {Walked(bm, tbl, "NULL")}
    [] OTHER      ->
         UNION {IF a = INVALID
                THEN {Walked(bm, tbl, IF online THEN "NULL" ELSE "FAULT")}
                ELSE Walk(a, v, i + 1, create, online, Take(bm, a),
                          [((a :> ZeroTable) @@ tbl) EXCEPT ![t][j] = Entry(a, FALSE)])
                : a \in AllocAddrs(bm)}

\* vmm_pte_get_offline: the walk from the PML4 at pml4_virt, 1:1.
vmm_pte_get_offline(v, bm, tbl) == Walk(pml4, v, 0, TRUE, FALSE, bm, tbl)

\* vmm_pte_get(vmm_pml4_get(), v, create): the walk from CR3 through the HHDM.
vmm_pte_get(v, create, bm, tbl) == Walk(cr3, v, 0, create, TRUE, bm, tbl)

\* Mutant: the stack window ends at align_up(rsp), without the page above.
KernelMapNoPageAbove ==
  LET size  == KernelEnd - KernelStart
      start == align_down(Rsp - StackWindow)
      end   == align_up(Rsp)
  IN [n \in 1..((size + PageSize - 1) \div PageSize) |-> KernelStart + (n - 1) * PageSize]
       \o [n \in 1..((end - start) \div PageSize) |-> start + (n - 1) * PageSize]

\* The pages vmm_kernel_map maps 1:1: the kernel image from __kernel_start
\* in PAGE_SIZE steps, then [align_down(rsp - window), align_up(rsp + PAGE)).
KernelMap ==
  LET size  == KernelEnd - KernelStart
      start == align_down(Rsp - StackWindow)
      end   == align_up(Rsp + PageSize)
  IN [n \in 1..((size + PageSize - 1) \div PageSize) |-> KernelStart + (n - 1) * PageSize]
       \o [n \in 1..((end - start) \div PageSize) |-> start + (n - 1) * PageSize]

Pages(tbl, root) == {v \in VAddrs : Translate(tbl, root, v, 0) # INVALID}

-----------------------------------------------------------------------------
(* kmain: pmm_init, then vmm_init.                                        *)

kmain_pmm_init ==
  /\ pc = "pmm_init"
  /\ P!pmm_init
  /\ pc' = "vmm_init"
  /\ UNCHANGED <<tables, pml4, p, k, cr3, calls>>

\* vmm_init: a frame for the PML4, zeroed through the 1:1 map; none: return 0.
vmm_init ==
  /\ pc = "vmm_init"
  /\ \E a \in AllocAddrs(g_frame_bitmap) :
       IF a = INVALID
       THEN /\ pc' = "halted"
            /\ UNCHANGED <<g_frame_bitmap, tables, pml4, p>>
       ELSE /\ g_frame_bitmap' = Take(g_frame_bitmap, a)
            /\ tables' = (a :> ZeroTable) @@ tables
            /\ pml4' = a
            /\ p' = 0
            /\ pc' = "hhdm"
  /\ UNCHANGED <<g_phys_ceiling, ready, k, cr3, calls>>

\* Mutant: the HHDM loop runs while p <= max_pa.
HhdmLoopInclusive ==
  LET v == p + HHDM_OFFSET
      e == tables[pml4][Idx(v, 0)]
  IN
  /\ pc = "hhdm" /\ p <= g_phys_ceiling
  /\ \E a \in IF e.present THEN {e.addr} ELSE AllocAddrs(g_frame_bitmap) :
       IF a = INVALID
       THEN /\ pc' = "halted"
            /\ UNCHANGED <<g_frame_bitmap, tables, p>>
       ELSE LET linked == IF e.present THEN tables
                          ELSE [((a :> ZeroTable) @@ tables)
                                  EXCEPT ![pml4][Idx(v, 0)] = Entry(a, FALSE)]
            IN /\ tables' = [linked EXCEPT ![a][Idx(v, 1)] =
                               Entry((p \div GIB_SIZE) * GIB_SIZE, TRUE)]
               /\ g_frame_bitmap' = IF e.present THEN g_frame_bitmap
                                    ELSE Take(g_frame_bitmap, a)
               /\ p' = p + GIB_SIZE
               /\ UNCHANGED pc
  /\ UNCHANGED <<g_phys_ceiling, ready, pml4, k, cr3, calls>>

\* One iteration of vmm_hhdm_create: vmm_page_1gb_map_offline(pml4,
\* p + HHDM_OFFSET, p): a PDPT for the PML4 slot if there is none (none
\* free: return 0 up to kmain), then a PS entry for the 1 GiB block of p.
vmm_page_1gb_map_offline ==
  LET v == p + HHDM_OFFSET
      e == tables[pml4][Idx(v, 0)]
  IN
  /\ pc = "hhdm" /\ p < g_phys_ceiling
  /\ \E a \in IF e.present THEN {e.addr} ELSE AllocAddrs(g_frame_bitmap) :
       IF a = INVALID
       THEN /\ pc' = "halted"
            /\ UNCHANGED <<g_frame_bitmap, tables, p>>
       ELSE LET linked == IF e.present THEN tables
                          ELSE [((a :> ZeroTable) @@ tables)
                                  EXCEPT ![pml4][Idx(v, 0)] = Entry(a, FALSE)]
            IN /\ tables' = [linked EXCEPT ![a][Idx(v, 1)] =
                               Entry((p \div GIB_SIZE) * GIB_SIZE, TRUE)]
               /\ g_frame_bitmap' = IF e.present THEN g_frame_bitmap
                                    ELSE Take(g_frame_bitmap, a)
               /\ p' = p + GIB_SIZE
               /\ UNCHANGED pc
  /\ UNCHANGED <<g_phys_ceiling, ready, pml4, k, cr3, calls>>

vmm_hhdm_create_done ==
  /\ pc = "hhdm" /\ p >= g_phys_ceiling
  /\ pc' = "kmap" /\ k' = 1
  /\ UNCHANGED <<pmm, tables, pml4, p, cr3, calls>>

\* One call of vmm_page_map_internal from vmm_kernel_map: the offline walk
\* creates what is missing; the PTE gets (paddr & PAGE_ADDR_MASK) | PRESENT.
\* The walk zeroes and links a PMM_INVALID_FRAME unchecked: a wild write.
vmm_page_map_internal ==
  /\ pc = "kmap" /\ k <= Len(KernelMap)
  /\ LET va == KernelMap[k] IN
     \E r \in vmm_pte_get_offline(va, g_frame_bitmap, tables) :
       /\ g_frame_bitmap' = r.bm
       /\ IF r.pte = "FAULT"
          THEN /\ pc' = "wild_write" /\ tables' = r.tbl /\ UNCHANGED k
          ELSE /\ tables' = [r.tbl EXCEPT ![r.pte[1]][r.pte[2]] =
                               Entry(align_down(va), FALSE)]
               /\ k' = k + 1
               /\ UNCHANGED pc
  /\ UNCHANGED <<g_phys_ceiling, ready, pml4, p, cr3, calls>>

\* vmm_kernel_map returns; vmm_pml4_load(pml4_phys); vmm_init returns 1.
vmm_pml4_load ==
  /\ pc = "kmap" /\ k > Len(KernelMap)
  /\ cr3' = pml4 /\ pc' = "running"
  /\ UNCHANGED <<pmm, tables, pml4, p, k, calls>>

-----------------------------------------------------------------------------
(* The API, called on the loaded tree.                                     *)

\* vmm_page_map, given the walk's outcome r: a PTE gets paddr | PRESENT;
\* no PTE returns 0, with the tables the walk already linked.
vmm_page_map(r, paddr) ==
  CASE r.pte = "NULL"  -> tables' = r.tbl /\ UNCHANGED pc
    [] r.pte = "FAULT" -> tables' = r.tbl /\ pc' = "page_fault"
    [] OTHER -> /\ tables' = [r.tbl EXCEPT ![r.pte[1]][r.pte[2]] =
                                Entry(align_down(paddr), FALSE)]
                /\ UNCHANGED pc

\* vmm_page_alloc: a frame for the page, then vmm_page_map on the current
\* PML4; a walk that fails returns NULL and keeps the page's frame.
vmm_page_alloc(v) ==
  /\ pc = "running" /\ calls < MaxCalls
  /\ calls' = calls + 1
  /\ AllocFreshOnly => Translate(tables, cr3, v, 0) = INVALID
  /\ \E a \in AllocAddrs(g_frame_bitmap) :
       IF a = INVALID THEN UNCHANGED <<pmm, pc, tables>>
       ELSE \E r \in vmm_pte_get(v, TRUE, Take(g_frame_bitmap, a), tables) :
         /\ g_frame_bitmap' = r.bm
         /\ vmm_page_map(r, a)
  /\ UNCHANGED <<g_phys_ceiling, ready, pml4, p, k, cr3>>

\* Mutant: vmm_page_unmap reports the address but leaves the PTE set.
UnmapNoClear(v) ==
  /\ pc = "running" /\ calls < MaxCalls
  /\ calls' = calls + 1
  /\ \E r \in vmm_pte_get(v, FALSE, g_frame_bitmap, tables) :
       CASE r.pte = "NULL"  -> UNCHANGED <<pmm, pc, tables>>
         [] r.pte = "FAULT" -> pc' = "page_fault" /\ UNCHANGED <<pmm, tables>>
         [] OTHER ->
              /\ UNCHANGED tables
              /\ P!pmm_frame_free(tables[r.pte[1]][r.pte[2]].addr \div PageSize)
              /\ UNCHANGED <<g_phys_ceiling, ready, pc>>
  /\ UNCHANGED <<pml4, p, k, cr3>>

\* vmm_page_free: vmm_page_unmap walks without creating; if it finds the
\* PTE it reads its address, clears it and returns 1, and the frame goes
\* back to the PMM (a PTE that was not present gives address 0).
vmm_page_free(v) ==
  /\ pc = "running" /\ calls < MaxCalls
  /\ calls' = calls + 1
  /\ \E r \in vmm_pte_get(v, FALSE, g_frame_bitmap, tables) :
       CASE r.pte = "NULL"  -> UNCHANGED <<pmm, pc, tables>>
         [] r.pte = "FAULT" -> pc' = "page_fault" /\ UNCHANGED <<pmm, tables>>
         [] OTHER ->
              /\ tables' = [tables EXCEPT ![r.pte[1]][r.pte[2]] = NoEntry]
              /\ P!pmm_frame_free(tables[r.pte[1]][r.pte[2]].addr \div PageSize)
              /\ UNCHANGED <<g_phys_ceiling, ready, pc>>
  /\ UNCHANGED <<pml4, p, k, cr3>>

Init ==
  /\ g_frame_bitmap = {} /\ g_phys_ceiling = 0 /\ ready = FALSE
  /\ pc = "pmm_init"
  /\ tables = <<>>
  /\ pml4 = INVALID /\ p = 0 /\ k = 1 /\ cr3 = INVALID /\ calls = 0

Next ==
  \/ kmain_pmm_init
  \/ vmm_init
  \/ vmm_page_1gb_map_offline
  \/ vmm_hhdm_create_done
  \/ vmm_page_map_internal
  \/ vmm_pml4_load
  \/ \E v \in VAddrs : vmm_page_alloc(v) \/ vmm_page_free(v)

Spec == Init /\ [][Next]_vars

-----------------------------------------------------------------------------
(* Properties.                                                             *)

PhysAddrs == {f * PageSize : f \in 0..(P!ArrayFrames + P!WordBits - 1)}

TypeOK ==
  /\ pc \in {"pmm_init", "vmm_init", "hhdm", "kmap", "running",
             "halted", "wild_write", "page_fault"}
  /\ DOMAIN tables \subseteq PhysAddrs
  /\ \A t \in DOMAIN tables : tables[t] \in
       [0..(Entries - 1) -> [present : BOOLEAN, addr : Nat, ps : BOOLEAN]]
  /\ pml4 \in PhysAddrs \cup {INVALID} /\ cr3 \in {pml4, INVALID}
  /\ p \in {g * GIB_SIZE : g \in 0..((g_phys_ceiling + GIB_SIZE - 1) \div GIB_SIZE)}
  /\ k \in 1..(Len(KernelMap) + 1)
  /\ calls \in 0..MaxCalls

\* After mov cr3 every address the kernel goes on using still translates
\* to itself, and the HHDM covers physical memory: the kernel image, the
\* live stack [rsp, top), and every physical address below the E820
\* ceiling at HHDM_OFFSET.  This takes the loop bounds and alignments of
\* vmm_kernel_map, the 1 GiB masking of vmm_page_1gb_map_offline and the
\* tables the two share, all at once.
SwitchKeepsKernelMapped ==
  pc = "running" =>
    /\ \A a \in KernelStart..(KernelEnd - 1) \cup Rsp..(StackTop - 1) :
         Translate(tables, cr3, a, 0) = a
    /\ \A a \in 0..(g_phys_ceiling - 1) :
         Translate(tables, cr3, a + HHDM_OFFSET, 0) = a

\* Whatever order of vmm_page_alloc and vmm_page_free the callers use, two
\* pages never share a frame, no page is a page table, and the frame of
\* every page stays marked used, so the PMM cannot hand it out again.
NoAlias ==
  pc = "running" =>
    \A v \in Pages(tables, cr3) :
      LET a == Translate(tables, cr3, v, 0) IN
      /\ \A w \in Pages(tables, cr3) \ {v} : Translate(tables, cr3, w, 0) # a
      /\ a \notin DOMAIN tables
      /\ a \div PageSize \in g_frame_bitmap

\* Every frame the VMM took from the PMM is still in use: a page table or
\* the frame of a mapped page.  vmm_page_alloc returns NULL without giving
\* back the page's frame when vmm_page_map fails.
NoLeak ==
  pc = "running" =>
    g_frame_bitmap \ (P!pmm_init_from_map \cup P!KernelFrames)
      \subseteq {a \div PageSize : a \in DOMAIN tables}
                \cup {Translate(tables, cr3, v, 0) \div PageSize : v \in Pages(tables, cr3)}

\* The reserved low frames and the kernel image stay marked used, and no
\* page a caller maps lies on one of them, whatever the callers free.
\* vmm_page_free of a page whose PTE is not present (never mapped, or
\* freed already: a double or stale free) still finds the PTE, reads
\* address 0 from it and passes frame 0 to pmm_frame_free; only the
\* reserved-frame check there keeps frame 0 from being handed out next.
VmmFramesProtected ==
  pc = "running" =>
    LET protected == 0..(ReservedFrames - 1) \cup P!KernelFrames IN
    /\ protected \subseteq g_frame_bitmap
    /\ \A v \in Pages(tables, cr3) :
         Translate(tables, cr3, v, 0) \div PageSize \notin protected

\* vmm_init either returns 0 or loads a complete tree; it never writes
\* through a PMM_INVALID_FRAME it took for a page table.
InitNeverWritesWild == pc # "wild_write"
=============================================================================
