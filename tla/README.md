# TLA+ models of the bootloader / kernel

This directory holds TLA+ models of the C code under `src/`. TLC checks them.
Each model keeps the control flow of the code: every state change, guard, early return and error path, in the order they happen.
Data is abstracted to what the properties need to tell apart.
`PROJECT.json` records the details:

- **components**: the parts of the system, modelled or not.
- **runs**: each TLC run and what it shows.
- **mutants**: the mutant each run is tested against.
- **map**: which source lines each definition translates.
- **findings**: what the runs found.
- **hazards**: what in this code is hard to test.

## 1. The system and its parts

| Part | Source | What it does |
|---|---|---|
| Interrupt-driven ATA driver | `src/kernel/ata_driver_irq.c/.h` | A non-blocking PIO driver. `tick_ata()` is called once per kernel loop and runs one step of the identification or transfer sequencer, stored in `g_ata_ctx.step`. `irq14_ata()` runs asynchronously: it latches STATUS into `last_status`, sets `irq_fired` and sends EOI. The `begin_*` functions admit one request at a time. The 400 ns delay is paid as one register read per tick (`delay_400`). |
| Interrupt acknowledge unit | same file | `setup_ata_irq()` = `remap_pic()` + `unmask_irq(14)`; `send_eoi()` from the handler. |
| Physical frame allocator | `src/kernel/pmm.c/.h` | A bitmap of `uint64_t` words built from the E820 map by `pmm_init`. Allocation takes the lowest free frame. |
| Polling ATA driver | `src/kernelLoader/atadriver.c`, `main.c` | The loader's blocking driver. It spins on STATUS with timeouts. kmain retries `ata_init()` until it succeeds, writes 256 sectors at LBA 2048, then returns, or halts if the write failed. |
| Virtual memory manager | `src/kernel/vmm.c/.h`, kernel `main.c` | kmain calls `pmm_init` then `vmm_init`. `vmm_init` builds a 4-level tree 1:1 (offline): the PML4, the HHDM in 1 GiB PS entries up to the E820 ceiling, the kernel image and a stack window; then it loads CR3. After that `vmm_page_alloc` / `vmm_page_free` walk the loaded tree through the HHDM. Table frames come from the PMM. |
| IDT, exception handlers | `src/kernelLoader/idt.c`, `src/kernel/idt.h` | The loader's kmain calls `idt_init`, which installs 19 interrupt gates and loads IDTR. A handler clears the VGA screen, prints its message and the frame values, then loops on `cli; hlt`. |
| Legacy polling driver | `src/kernelLoader/ata_driver.c` | Dead copy of `atadriver.c` under old names. |

How the parts interact:

- **Interrupt driver and PIC:** they interact through IRQ14. The drive raises INTRQ, the PICs deliver vector 46, and the handler's STATUS read clears INTRQ. Its EOI frees the PICs for the next interrupt.
- **PMM and VMM:** the PMM serves the VMM. The VMM passes `addr >> PAGE_SHIFT` back to `pmm_frame_free`. Once CR3 is loaded, the VMM can reach a table only if the HHDM covers its frame.
- **IDT and the rest of the loader:** any fault of the loader's code after `idt_init`, and any NMI, ends in a handler.
- **Polling driver:** it shares only the register protocol with the interrupt driver, and runs in the loader before the kernel.

## 2. Modules

| Module | Models | State (VARIABLES) | Actions |
|---|---|---|---|
| `AtaIrq` | `ata_driver_irq.c` sequencers, latch, delay, facade, IRQ handler; an ATA device | `g_ata_ctx` fields; device state; history (`req`, `accessed`, `irq_lost`) | one per `begin_*` and per tick handler, `irq14_ata`, device steps |
| `Pic` | `remap_pic`, `unmask_irq`, `send_eoi`, `setup_ata_irq`; the 8259 pair | masks, offsets, in-service sets, IRQ14 request | setup steps, `sti`, raise, deliver, handler |
| `Pmm` | `pmm_init`, `pmm_init_from_map`, `pmm_frame_alloc`, `pmm_frame_free`; a client | `g_frame_bitmap` (set of set bits), `g_phys_ceiling`, the client's addresses | `pmm_init`, `pmm_frame_alloc`, `ClientFree` |
| `AtaPoll` | `atadriver.c` + loader `kmain`; an ATA device | `pc`, the loop's `timeout`, `lba`/`sector_count`/`ptr`, device state, history | one per statement group of `ata_init` and the transfer loop; each spin-wait iteration is a step |
| `AtaRequest` | the request facade of spec.md sections 4-7 (abstract; no code) | `phase`, `kind`, `request`, `moved` | `BeginInit`, `BeginIo`, `MoveSector`, `Complete`, `Abort`, `Release` |
| `Vmm` | kernel `kmain`, `vmm_init` and everything it calls, `vmm_page_alloc`, `vmm_page_free`; composed with `Pmm` | the PMM's bitmap and ceiling; `tables` (physical address -> entries), `pml4`, `cr3`, kmain's `pc`, the loop variables `p` and `k`, `calls` | `kmain_pmm_init`, `vmm_init`, one per `vmm_page_1gb_map_offline` and per `vmm_page_map_internal` call, `vmm_hhdm_create_done`, `vmm_pml4_load`, `vmm_page_alloc(v)`, `vmm_page_free(v)` |
| `AtaSystem` | `AtaIrq` and `Pic` composed by `INSTANCE`, in the order of the usage comment in `ata_driver_irq.h` | the variables of both | `Boot` (remap, unmask, `sti`), `Begin`, `Tick`, `Device`, `Deliver`, `Handler` |
| `AtaTaskfile` | `ata_lba28_set`, `ata_lba48_set`; the drive's taskfile registers (pure operators, used by `AtaIrq` and `AtaPoll`) | none | none: register-write sequences, `Program` (the drive's register file after the writes), and the decoding `LbaOf28`, `LbaOf48`, `Count48` |
| `Idt` | `idt_gate_set`, `idt_init`, `lidt`, the two general handlers; the CPU's exception delivery | `idt`, `limit`, CPU `mode`, the running `handler`, its next `row`, the `screen` rows, `nmi_blocked` | `idt_init`, `Exception(v)`, `Nmi`, and the handler's clear, print and halt steps |

`MCAtaIrq`, `MCPic`, `MCAtaSystem`, `MCPmm`, `MCAtaPoll`, `MCVmm` and `MCIdt` give TLC the constant values.

### AtaIrq: how it corresponds to the code

- **Handler actions.** Each action is one call of `tick_ata()` that reaches a handler. Its guard is the `switch` on `step`, the `op` dispatch, and `Settled`. `Settled` means no delay is owed, or the call pays the last delay tick. That tick runs the handler in the same call, as in `tick_ata`.
- **Split handlers.** `ata_init_identify_cmd_handle` and `ata_io_issue_taskfile_handle` are each split into two steps: up to `outb(COMMAND)`, then `ata_irq_flags_reset()` and the step change. This is the one window in which the interrupt handler's preemption changes the outcome. `cmd_written` marks it.
- **Device model.** The device follows the PIO protocol:
  - A data-in command (IDENTIFY, READ) sets DRQ and INTRQ.
  - A data-out command (WRITE) sets DRQ without INTRQ.
  - Any command may abort with ERR and INTRQ when `DeviceErrors` is TRUE.
  - A command written while BSY is ignored.
- **Status reads.** Reading STATUS in the handler clears INTRQ. The alternate status read does not.
- **History variables.** `accessed` records, for each sector moved through the data port, the device's address, the buffer offset, and whether DRQ was set. `req` is the accepted request. `irq_lost` is set when the flag reset wipes a latched interrupt.

### Pic

- **The environment.** The PIC pair delivers IRQ14 when all of these hold:
  - the slave line 6 and master line 2 are unmasked;
  - no line of equal or higher priority is in service on either chip;
  - interrupts are enabled (`sti`).

  Delivery puts slave line 6 and master line 2 in service. A non-specific EOI clears the highest-priority in-service line. ICW1 clears the mask register.
- **Firmware masks.** The masks the firmware leaves in the PICs are an input (`MasterMasks`, `SlaveMasks`).

### AtaSystem: the driver behind the PIC pair

No caller in `src/` runs this sequence yet: the kernel's `kmain` stops after `vmm_init`. The composition follows the usage comment in `ata_driver_irq.h` (lines 163-169). `AtaIrq` alone lets `irq14_ata` run whenever INTRQ is up. `AtaSystem` puts the PIC pair that `setup_ata_irq` programs between the two:

- **Boot and admission.** `Boot` is `setup_ata_irq` (remap, then unmask) and `sti`. `Begin` is admitted only after them, as steps 1-4 of the usage comment require.
- **Latching.** A rising INTRQ (`Device`) latches IRQ14 in the slave PIC's request register, masked or not.
- **Delivery.** `Deliver` is the PIC's delivery at vector 46.
- **The handler.** `Handler` is the whole `irq14_ata`: the STATUS read (which drops INTRQ), `irq_fired = 1`, and `send_eoi(14)`. It does not require INTRQ: the code reads STATUS whatever it finds.
- **Preemption.** While the CPU is in the handler, `Tick` (the kernel loop) does not run.

`Tick` stays one atomic step. The handler can preempt it only between two calls. Within a call, the handler writes only `irq_fired` and `last_status`, and a wait handler reads them before anything else. So a preemption inside a call has the same effect as one before or after it, with one exception: a second interrupt between the test of `irq_fired`, its clear, and the read of `last_status` (`ata_driver_irq.c:237`, `:305-307`).

`OneIrqInFlight` rules that exception out. While `irq_fired` holds an unconsumed interrupt, no IRQ14 is pending in the PIC or in service, so no handler can run inside that window. This relies on the driver not writing a new command before it has consumed the previous interrupt, and TLC finds it violated when the wait handler polls status without its `batch_left != 0` return.

With the PICs in the path, `IdentifyCompletes` and `WriteCompletes` are still violated. `AtaSystem_lost_irq.cfg` and `AtaSystem_write_hang.cfg` show this. Routing the interrupt through the PICs neither causes nor hides the lost interrupt or the write hang.

### AtaTaskfile: what the taskfile writes mean

Both drivers compute the sector the drive will address from the taskfile writes they make.

- **Writes.** A write is `<<register, byte>>`. `Byte(x, k)` is `(uint8_t)(x >> 8k)`.
- **The drive's registers.** The drive keeps the last and the previous byte of each register (`Program`, a `FoldLeft` over the writes).
- **LBA28.** An LBA28 command reads the last bytes and the DRIVE_SEL nibble.
- **LBA48.** An LBA48 command reads bytes 0-2 from the last bytes and bytes 3-5 and the count's high byte from the previous ones.

`AtaPoll`'s and `AtaIrq`'s `TaskfileAddress` are the decoding of their own write sequences: `XferTaskfile` and `IssueTaskfile`. They are not a formula on `lba`.

### Pmm

- **Scaling.** Frame size, MAX_FRAMES and the reserved frames are scaled down. The word width stays 64, because the `0xFF` fill and the scan depend on it.
- **The array.** `g_frame_bitmap` has `BITMAP_BYTES` words as declared.
- **The scan.** It runs to `MAX_FRAMES` words. A read past the array is undefined behaviour, so the model lets it yield either the next frame or nothing.
- **The client.** The client keeps the physical addresses `pmm_frame_alloc` returns and frees `addr >> PAGE_SHIFT`, as `vmm_page_free` does.

### AtaPoll

- **Wait loops.** Every STATUS read of a wait loop is one step, so the device can change between two reads.
- **Timeouts.** The loops' `uint32_t` timeouts are scaled to `Timeout` iterations. When `SlowDevice` is TRUE, the device may stay BSY past a timeout. Otherwise it always answers within the timeout.
- **Device model.** The device keeps ERR until the next accepted command. A write shows DRQ, takes the data, then commits the sector while BSY. `ata_init` sets nIEN, so interrupts play no part.

### AtaRequest and the refinement

`AtaRequest` states what a caller of the driver is promised, with no registers, interrupts or delays:
- one request at a time is admitted from Idle;
- an identification moves no sector;
- a transfer of N sectors from L moves sector L+i into the i-th 256-word slot, one at a time, in address order;
- Done after a transfer means all N sectors were moved, and Fail may end any request.

`AtaIrq` instantiates it with a refinement mapping:
- `AbsPhase` maps `step` to Idle, Busy, Done or Fail;
- `AbsKind` gives the operation;
- `req` becomes the request;
- `accessed`, without its DRQ flag, becomes `moved`.

`RefinesAtaRequest == AR!Spec` is a property of `ata_irq_safety`. The driver never takes the abstract `Release` step, because nothing returns it to IDLE (the `ata_reuse` finding). A refinement allows that, since it only checks safety.

### Vmm

- **Scaled tree.** Tables have `Entries = 4` entries instead of 512, and a page is `PageSize = 4` addresses.
  - Level i maps `Shift(i) = PageSize * Entries^(3-i)` addresses per entry: 256, 64, 16 and 4.
  - `HHDM_OFFSET` is PML4 slot `Entries/2`, which is 512, as 0xFFFF8000_00000000 is slot 256 of 512.
  - `GIB_SIZE` is `Shift(1)`.
  - The index and shift arithmetic is the code's, with these numbers.
- **Tables.** `tables` maps a table's physical address to its entries, each `[present, addr, ps]`. The other flag bits (RW, NX, user) play no part in any property.
- **The MMU.** `Translate` is the MMU: a PS entry ends the walk.
- **The walks.** `Walk` is the loop of `vmm_pte_get` and `vmm_pte_get_offline`. It returns the set of outcomes, because each missing table takes a `pmm_frame_alloc`, and a scan past the bitmap array is undefined behaviour with two outcomes.
  - **Online** (`vmm_pte_get`), the table is reached at `phys + HHDM_OFFSET` through the loaded tree. An address that does not translate there gives `FAULT`, a page fault in the kernel.
  - **Offline** (`vmm_pte_get_offline`), the walk does not check `PMM_INVALID_FRAME`. Zeroing and linking it is `FAULT` too.
- **The PMM.** It is `Pmm` by INSTANCE, with its own client removed. The VMM is the client.
- **Callers.** kmain calls no VMM API after `vmm_init`. The callers of `vmm_page_alloc` / `vmm_page_free` are an environment that may pick any page of `VAddrs` up to `MaxCalls` times. With `AllocFreshOnly` TRUE, it only allocates pages that are not mapped.

### Idt

- **The CPU.** The CPU's delivery is the environment, following Intel SDM vol. 3, 6.12-6.15:
  - a vector beyond the limit gives #GP, and a gate without P gives #NP;
  - contributory on contributory, or #PF on #PF or contributory, gives #DF;
  - a fault while delivering #DF shuts the CPU down;
  - the CPU pushes an error code for 8, 10-14, 17, 21, 29 and 30.
- **NMI.** An NMI arrives at any time, since `cli` does not mask it. Only the delivery of an NMI blocks further NMIs, until an IRET that no handler executes.
- **Handlers.** A handler runs as its statements: clear the screen, then one row per value printed, then halt. A screen row holds the vector that wrote it and the name of the stack word it printed:
  - the `ec` variant takes the error code from the first word and the frame after it;
  - the `no_ec` variant takes the frame from the first word.

  `vga_hex_draw`'s hex formatting is left out.
- **Gates.** `idt_gate_set` keeps the fields the CPU uses: P from `type_attr & 0x80`, the stub, the selector and the IST. The stub's address split into three fields is not modelled.

## 3. Runs

| Run | Expect | What it checks / shows |
|---|---|---|
| `ata_irq_safety` | pass | See below. |
| `ata_identify_lost_irq` | violation | `IdentifyCompletes`. An IRQ taken between `outb(COMMAND)` and `ata_irq_flags_reset()` is wiped, and the identification parks for ever (`ata_driver_irq.c:232`; same at 299). |
| `ata_write_hang` | violation | `WriteCompletes`. A write waits for an interrupt that PIO data-out never raises before the first block (`:309`). |
| `ata_reuse` | violation | `InitThenIo`. No terminal step ever returns to IDLE, so after INIT_DONE no `begin_*` is admitted (`:144`). |
| `ata_lba28_limit` | violation | `SectorsInOrder`. An LBA28 read crossing 2^28 reads sector 0 as its second sector (`:268`). |
| `ata_system` | pass | `AtaSystem`, every operation, firmware masks with IRQ14 and the cascade open or closed. `SetupPreservesMasks`: setup changes only the IRQ14 and cascade bits. `OneIrqInFlight`: no IRQ14 is pending or in service while the latch holds an unconsumed interrupt. This makes the wait handlers' non-atomic test, clear and read of the latch safe. `Irq14Serviced`: every IRQ14 the drive latches arrives at vector 46 and is eventually delivered, repeatedly. `RequestCompletesOrIrqLost`: with the PICs in the path, an identification or read still terminates unless the flag reset wiped its interrupt. An `unmask_irq` that leaves the cascade masked breaks it. |
| `pmm_safety` | pass | See below. |
| `pmm_ram_only` | violation | `HandedOutFramesAreRam`. The 0xFF fill marks 8 of every 64 frames, so a frame in an E820 hole is handed out (`pmm.c:36`). |
| `pmm_exhaustion` | violation | `HandedOutFramesBelowMax`. The scan hands out frame 72 with MAX_FRAMES = 64 (`pmm.c:78`). |
| `ata_poll_safety` | pass | `TypeOK`, `SectorsInOrder`, and `SuccessMeansDurable`: a write returns 1 only after every sector is committed. Checked for all four transfer functions, with a slow device that aborts once. `Lba48RoundTrip`: for LBAs and counts at byte boundaries (65536 included), the drive decodes `ata_lba48_set`'s two passes to exactly the address bytes and the count. This is a reference check of a pure operator. Writing the low pass first breaks it. |
| `vmm_safety` | pass | `TypeOK`. `SwitchKeepsKernelMapped`: after `mov cr3`, the kernel image and the live stack translate to themselves, and every physical address below the ceiling translates from `+HHDM_OFFSET`. `NoAlias`: over any calls of `vmm_page_alloc` / `vmm_page_free`, client pages have distinct frames that are neither tables nor free in the bitmap. `VmmFramesProtected`: the reserved frames and the kernel image stay marked and carry no client page, even when a caller frees a page that is not mapped or frees it twice; `vmm_page_free` then passes frame 0 to `pmm_frame_free`, and only the reserved-frame check at `pmm.c:95` stops it. |
| `idt_safety` | pass | `ExceptionsReported`: every vector 0-31 (vector 2 as an NMI) reaches a handler, through #NP or #DF where it has no gate, and the CPU never shuts down. `ReportMatchesFrame`: a halted handler's report shows the RIP the CPU pushed, the error code exactly when one was pushed, and never CS, SS or a word above the frame. |

`ata_irq_safety` runs every operation against a device that may abort. It checks these properties:

- `TypeOK`.
- `OpStepConsistent`: the phase belongs to the operation.
- `SectorsInOrder`: every sector moved is the next of `[L, L+N)`, at the next 256-word buffer slot, with DRQ set, and IO_DONE means N sectors were moved.
- `RequestCompletesOrIrqLost`: an identification or read terminates unless its interrupt was wiped by the flag reset.
- `RefinesAtaRequest`: the driver implements `AtaRequest`.

`pmm_safety` runs any interleaving of up to 8 held frames with frees. It checks these properties:

- `TypeOK`.
- `ProtectedNeverHandedOut`: reserved and kernel frames are never handed out.

Further configurations, each showing a disagreement met while modelling. These are not in the run list, and `PROJECT.json` records each as a hazard with a note:

| cfg | Property | What TLC shows |
|---|---|---|
| `Pic.cfg` (`MCPic`) | `SetupPreservesMasks`, `Irq14Serviced`, hold | `Pic` alone, with the drive raising IRQ14 at will rather than as the ATA protocol does, and five master masks. |
| `AtaSystem_lost_irq.cfg` | `IdentifyCompletes`, violated | The interrupt wiped by `ata_irq_flags_reset()` parks the identification with the PICs in the path too (`ata_driver_irq.c:232`). |
| `AtaSystem_write_hang.cfg` | `WriteCompletes`, violated | A write still waits for an interrupt PIO data-out does not raise (`:309`). |
| `Vmm_alloc_leak.cfg` | `NoLeak`, violated | `vmm_page_alloc` returns NULL when the walk finds no frame for a table, and keeps the page's frame (`vmm.c:120`). |
| `Vmm_init_wild.cfg` | `InitNeverWritesWild`, violated | With four free frames after `pmm_init`, `vmm_pte_get_offline` zeroes and links `PMM_INVALID_FRAME` as a table (`vmm.c:140`). |
| `Idt_nmi.cfg` | `ReportKept`, violated | After #DE has halted with its report, an NMI wakes the CPU from `cli; hlt`, and `isr2_nmi` clears the screen and prints its own report (`idt.c:69`). |
| `AtaPoll_boot.cfg` | `BootFinishes`, holds | With a device that answers and does not abort, kmain gets past `ata_init` and finishes. |
| `AtaPoll_sticky_err.cfg` | `BootFinishes`, violated | One aborted command leaves ERR set. Every `ata_init` retry then fails at its first status check, and kmain loops for ever (`atadriver.c:44`, `main.c:16`). |

Each property of a passing run has a mutant in `PROJECT.json`: a plausible bug in a mapped definition that makes TLC report the property violated. Examples: a missing mask restore, a missing slave EOI, the kernel marked before the map, a missing `lba += 1`, the final `ata_wait_idle` dropped, `begin_*` without the IDLE check (breaks the refinement), an unmap that leaves the PTE set, `pmm_frame_free` without its reserved-frame check, a stack window without the page above `rsp`, an HHDM loop running to `p <= max_pa`, a gate type without the P bit, and the #AC stub declared without its error code.

## 4. Bounds and why they are enough

- **AtaIrq.** Counts {1, 2, 3} give a multi-command request with a first, a middle and a last command. LBA 0 is one start. The other start, `2^24 - 1`, makes the second sector cross the DRIVE_SEL nibble boundary, and for LBA48 it moves a bit into the high-order pass. The 2^28 run uses `2^28 - 1`. The delay count is the code's 4. Device errors are on in the safety run.
- **AtaSystem.** Every operation, counts {1, 2}, LBAs 0 and `2^24 - 1`, and device errors on. Three master masks (everything, the usual `0xB8`, everything but IRQ2: `0xFB`) and three slave masks (everything, `0x8F`, everything but IRQ14: `0xBF`): each combination of IRQ14 and the cascade open or closed before setup. 4230 states.
- **AtaTaskfile.** `Lba48RoundTrip` uses LBAs 0, 255, 256, 2^24-1, 2^24 and 2^31-1, and counts 1, 255, 256, 65535 and 65536. This covers every byte carry below 2^31 and both ends of the count. TLC's integers stop at 2^31, so address bytes 4 and 5 are always 0 in these inputs.
- **Pic.** Five master and three slave firmware masks, with IRQ14 and the cascade masked and unmasked in each combination. The drive raises IRQ14 repeatedly.
- **Pmm.**
  - The model has 64 frames of 4 bytes and 4 reserved frames.
  - The E820 map has two usable ranges around a reserved hole, and the kernel occupies frames 5 and 6.
  - Eight held frames are enough for allocations to reach past the first usable range and for frees to reopen lower frames.
  - The exhaustion run allows 70 holds and no frees.
- **AtaPoll.** Two sectors, three for the boot run. Timeout 2 gives a loop that reads again and then expires. One abort.

- **Vmm.**
  - `MaxFrames = 8` gives a bitmap of one 64-frame word, so the scan reads past the array after frame 63. The E820 map is one 256-address range (64 frames), so the HHDM loop maps four 64-address blocks (`GIB_SIZE` = 64) under one PDPT.
  - `ReservedFrames = 55` leaves nine free frames. That is enough for `vmm_init`'s six tables, then for the callers to exhaust the array, reach the frames past it, and get `PMM_INVALID_FRAME` with a table missing. All of these happen in `vmm_safety`.
  - The kernel occupies addresses 8-15 and the stack window 16-31.
  - `VAddrs = {4, 64, 68}` gives two pages under one page table and one under another.
  - `MaxCalls = 6` allows allocate, free and re-allocate sequences on every page.
  - `Vmm_init_wild` uses 60 reserved frames.
- **Idt.** All vectors 0-31 and one NMI at any step: before, inside and after a handler.

TLC integers stop below 2^31. The 64-bit LBA and address arithmetic is exact below that, which covers every constant used.

## 5. Fairness

- **AtaIrq.** Weak fairness on the tick, on the interrupt handler, on the device and on admission. The kernel loop calls `tick_ata()` every iteration (usage comment, step 5), and interrupts are enabled after `sti`. The device finishes the command it was given. The caller keeps asking for the disk. An abort is part of the device's `Device` action; `DeviceErrors` is off in the violation runs.
- **AtaSystem.** The union of the two: weak fairness on boot, admission, the tick, the device, delivery and the handler. Delivery is fair because the CPU takes a pending unmasked interrupt at the next instruction boundary once `sti` has run.
- **Pic.** Weak fairness on setup, delivery and the handler, but not on raising IRQ14: that is up to the drive.
- **AtaPoll.** Weak fairness on kmain's steps and on the device's completion steps, but not on aborts.
- **Vmm, Idt.** No fairness. Their runs check safety only, and kmain, like a handler, ends in a `hlt` loop, so `CHECK_DEADLOCK FALSE`.

## 6. What is not modelled, and the plan

Not modelled, and why:

- **Legacy `ata_driver.c`.** It is dead code: `ata_driver.h` no longer declares it and kmain does not call it.
- **Direct VMM calls.** `vmm_page_map` and `vmm_page_unmap` are not modelled as direct calls with a caller-chosen physical address, because no such caller exists. They are modelled inside `vmm_page_alloc` and `vmm_page_free`.
- **The TLB and `invlpg`.** There is one CPU. Every PTE change is followed by `invlpg`, or comes before the CR3 load.
- **`idt_gate_t`.** `idt.c` uses this type, but `idt.h` declares the same layout as `idt_entry_t`. The model assumes that layout.
- **Gate address encoding.** The IDT gate's handler address split is an encoding that the CPU joins back together. It has no state to check.
- **Port I/O primitives.** They are assembly outside `src/`.
- **VGA formatting.**
- **The identify block contents.**

Plan for the next sittings:

2. **Model the faults of the VMM's callers.** A page fault handler is not part of the kernel yet. When one is, compose it with `Vmm`'s `page_fault` outcome.
