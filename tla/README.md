# A formal model of Nematod

Nematod is an emulator of the NES. Its difficulty is not in any one function but
in how two processors written as straight-line code are interleaved to the exact
clock: the CPU and the PPU are stackful coroutines that share one stack, every
call of `cycle()` is a switch, and much of the program's behaviour is decided by
*between which two dots* of the PPU an instruction of the CPU touches a register.
That is what these modules are about.

Contents

1. The system: components, state, interaction, what makes each correct
2. The modules, and how they correspond to the code
3. The runs: what each checks, its bounds, why they are enough
4. Fairness
5. What is proved, and how
6. Where the code and its comments disagree
7. Observations
8. What is only model-checked, what is not modelled
9. The plan
10. Running it

## 1. The system

| component | code | state | operations | interacts with |
|---|---|---|---|---|
| scheduler | `common/parallel_stepper.hpp`, `common/coroutine.hpp`, `external/libaco/aco.c`, `core/src/nes.cpp` | two coroutines (heap blocks), owner and contents of the shared stack, skip counts | `step_whole`, `run_co`, `aco_resume/create/destroy`, `reset` | resumes CPU and PPU; the DMA of `io_regs.cpp` writes a skip count through a raw pointer |
| CPU core | `cpu/src`, `cpu/include` | registers, cycle counter, pending NMI/IRQ, NMI line, interrupt delay | `run`, `switch_to_isr`, `pull_nmi_*`, instructions | bus of the CPU; PPU raises NMIs by call |
| PPU timing and NMI | `ppu/src/ppu.cpp`, `ppu_regs.cpp` | line, dot, frame parity, flag, suppression request | `render_frame`, `scanline<>`, `update_nmi_logic`, `$2000`-`$2002` | shares all its state with the register callbacks the CPU calls |
| PPU registers, scrolling | `ppu/src/ppu_regs.cpp`, `ppu.cpp` | v, t, x, w, read buffer, latch decay | `$2003`-`$2007`, scroll increments | the PPU changes v while the CPU does |
| sprites, rendering | `ppu/src/ppu.cpp` | OAM, secondary OAM, sprite flags as future dots | evaluation, prefetch, `render_tile` | `$2002` compares the dots with the clock |
| address spaces | `memory/`, `interface/memory.hpp` | sorted vectors of ports, last value on the bus | add, remove, clear, read, poke, write | both buses; mappers attach their windows |
| mappers | `mappers/` | bank registers, windows into the cartridge | `init`, `register_write`, battery RAM | called from a CPU store; move ports and mirroring |
| console | `core/src/nes.cpp`, `application/src/main.cpp` | mapper, cartridge, decay counter | `init`, `power_cycle`, `soft_reset`, `run_frame`, `load_cartridge`, battery | everything |
| IO registers, DMA | `cpu/src/io_regs.cpp` | the address of a coroutine | `oam_dma`, `$4016/7` | scheduler, PPU, input |
| input | `input/` | strobe, shift position, buttons | `set_output`, `read_data` | main loop, IO registers |
| loader | `nesloader/` | none | `load_nes_file` | console |
| interrupt buses, master clock, APU frame sequencer | `interrupts/`, `clock/`, `apu/` | edge detector; list of receivers; sequencer position | `is_asserted`, `tick`, `on_write` | their tests only |

There is one thread. The hard behaviours are those of cooperative concurrency:
interleaving at clock granularity, state of one coroutine read and written by
the other, resets that replace both coroutines but keep half of the state, and a
raw pointer to a block that resets free. The other family is protocols of stores
(the MMC1's five serial bits, `$2005/$2006`, the controller's strobe, saving and
loading the battery RAM) in which order and position count.

What makes each component correct:

* scheduler: a resumed coroutine finds its own frames; the stack's recorded owner
  exists; a DMA pauses the CPU only; CPU and PPU alternate one to three; nobody
  starves.
* NMI: the flag is up in vertical blank only; one rise of (flag and enable) makes
  one NMI; the suppression rules around the flag's rise; a pending NMI is
  answered; a reset anywhere does no lasting damage.
* address space: it is a map from addresses to cells, whatever was attached,
  mirrored, switched off and removed before.
* CPU: one bus access in each cycle, at the addresses and in the number of cycles the
  instruction has; arithmetic modulo 256; every return finds its frame.
* PPU registers and rendering: the picture starts where the program scrolled it to; the
  data port reads what memory holds; the two copies of the palette agree; the sprite
  flags appear at the dot at which the picture says so.
* console: what was saved comes back; banks are banks of the cartridge; the game sees
  the keys that are held.
* MMC1: registers only ever take whole values; windows stay inside the cartridge
  and in the layout their mode promises.

Every hazard that was found is in `PROJECT.json` under `hazards`, at its line,
with the properties that would catch it or the reason why none does.

## 2. The modules

| module | models |
|---|---|
| `FrameClock` | abstract: one CPU slot, three PPU slots, each processor's pause its own |
| `Stepper` | the scheduler: coroutines, shared stack, skip counts, resets, the DMA's pointer |
| `VBlankNmi` | vertical blank and NMI at single dots, CPU and PPU together |
| `AddressMap` | abstract: two maps from addresses to cells, a set of modules that answer, a bus |
| `AddressSpace` | the vectors of ports and `find_port` |
| `Mmc1` | the mapper: serial port, registers, bank windows, exchange of the cartridge |
| `Opcodes` | the instruction table: which opcode runs which handler in which addressing mode |
| `Cpu` | instructions one after the other: addressing, handlers, the stack, interrupts |
| `PpuRegs` | `$2000`-`$2007`, OAM and its DMA, the palette's copy, the latch |
| `PpuRender` | extends `PpuRegs` by the scanlines: fetches, scrolling of `m_v`, sprites and their flags |
| `Console` | sessions of the program: loader, small mappers, battery RAM, events, controller |
| `StepperProofs`, `VBlankNmiProofs`, `AddressSpaceProofs`, `Mmc1Proofs`, `CpuProofs`, `CpuStackProofs`, `PpuProofs`, `ConsoleProofs` | theorems and proofs |
| `MCStepper`, `MCVBlankNmi`, `MCAddressSpace`, `MCMmc1`, `MCCpu`, `MCPpu`, `MCConsole` | instances for TLC |

In every module, definitions that begin with the comment *A slip to be caught*
are not part of the model: each is a plausible bug of the definition after it,
kept to see that the properties notice it.

### Stepper

`cos`, `arg`, `skip`, `started`, `saved` are the fields of an `aco_t` (`m_coroutines[r].co.co`,
`arg`, `skip_count`, whether `reg` still points at the entry, `save_stack`),
indexed by the address of the block; `owner` and `shared` are the shared stack;
`m_cpu_co` is the pointer in `IORegs`. A step is one visit of `run_if_clock`,
inside which a coroutine runs to its next yield (`Resume` then `Segment`). What
CPU and PPU do in a segment is reduced to what the scheduler can see: the CPU may
write to `$4014`, the PPU may end in `cycle_fast`. Frames on the stack are reduced
to *whose* they are and *after which reset* they were begun. The allocator is a
constant: `Lifo` hands freed blocks out in reverse order, as the usual one does for
two blocks of equal size; otherwise it may return any two blocks.

The main program calls `init` once, `power_cycle` once, and `soft_reset` when an
event of the R key arrives: the case of a release falls through into that of a
press, so one stroke of the key is two resets. The programs in `tests/` call `init`
and `power_cycle` once for every game.

### VBlankNmi

One CPU slot and then three dots, which is the order `Stepper` implements. A CPU
slot is what `cpu6502::run` does between two `cycle()`s: nothing, a register access,
the end of an instruction with the poll of the interrupt and the fetch of the next.
A dot is what `PPU::render_frame` does between two yields. Program text is open: an
instruction is any sequence of 2 to `MaxLength` cycles, with an access to `$2000`,
`$2001` or `$2002` from the fourth on; CLI, SEI and PLP are kept apart since they
postpone the poll. `type` and `dot` say where in `scanline<Type>` the coroutine
stands; `m_current_line` and `m_clocks` are what the code believes, which after a
reset is something else, and the model keeps both.

`owed`, `raced`, `taken` and `elapsed` are history variables; no guard of the model
reads them.

### AddressSpace

A sorted vector of ports is modelled by the set of its ports. Every insertion sorts
and ports of one vector have different bases, so a vector and its set determine each
other, and *the element before the first with a greater base* is the port with the
greatest base that is not above the address (`LastUpTo`). `FindPort` yields a set of
at most one port instead of a pointer that may be null. A call of `add_port` that
would overlap fails an assertion, so it is not a step. Modules are reduced to size,
content and whether a write changes them.

### Mmc1

An action is one store to `$8000`-`$FFFF` (`Store`), the second store of a
read-modify-write instruction (`SecondStore`), or `load_cartridge`. Each store is the
whole of `register_write`, `apply_banking` included. Registers are numbers of five
bits; the bit operations of the code are written as arithmetic. `Byte` is the number
of values of a `uint8_t`, so that the wrap-around of `last_write_cycle` is in
the model at any scale.

### Opcodes and Cpu

`Opcodes` has the rows of `opcode_defs` that the NES's flavour of the table keeps, as sets
of `<<opcode, handler, mode>>`, and what `gen()` makes of them. Rows come in two parts,
since a later row replaces an earlier one and only the second part replaces any
(`RowsDistinct`).

An instruction of `Cpu` is three or four steps: `Fetch`, one of the addressing modes, one of
the handlers, and the poll (`TakeNmi`, `NoInterrupt`). `trace` is what it did on the bus, with
a mark for each `cycle()`, so that accesses and time are one sequence. Memory is open: a
read returns any byte of the case, except from the stack page, which is remembered.
`frames` is a history variable, the returns that are due; a store into the stack page, or
popping into a frame, makes them meaningless and empties it. A push that reaches round the
page to the oldest frames makes those meaningless, and the history forgets them (`Kept`).
`RaiseNmi` may happen between any two steps; where exactly within a cycle the PPU raises it
is `VBlankNmi`'s subject.

### PpuRegs and PpuRender

`PpuRegs` has an action for each handler of `PPUCtrlRegs`. `m_v` and `m_t` are 16 bits wide, as in
the code; fields are cut out by arithmetic. Cells of the PPU's memory start at zero and
`vram` keeps those written. `program` is a history variable: what a program that follows
the rules of the registers (read `$2002` first, write both halves, do not mix `$2005` and
`$2006`) counts on, or `Unknown`. `calm` says that no register was touched since the frame began.

`PpuRender` puts the handlers between the steps of `PPU::scanline`. A step is the code between
two yields that anything can tell apart: a tile's name is fetched in one and its attributes
two dots later in another, because the program may change `m_v` in between; the dots after
that are one step. A tile is abstracted to the addresses it was fetched from, so the
properties compare *where a pixel comes from* with where it should. `Dots` are the dots until
the next step, at any of which `$2002` may be read. The constants `Tiles`, `RenderLines`,
`IdleLines` and `Sprites` scale the frame; rows, columns, nametables and fine scroll have
their full ranges.

### Console

A session is one run of the program: `Start`, `Refuse` or `Abort`, then events and frames in
turn, then the save. It may be killed at any step, and only the `.sav` files survive. `Abort`
is a failing assertion: no build file defines `NDEBUG`. Of a RAM or a file the size and one
value for all bytes are kept. A header is a record of the fields the loader reads, and
`load_nes_file` computes sizes, mapper and battery from it as the code does. The window of
SFML is external: it queues key events in order, and repeats those of a held key.

## 3. The runs

| run | shows | bounds |
|---|---|---|
| `StepperBoot` | as long as the console is only initialised and power-cycled, `m_cpu_co` is the CPU's coroutine, a DMA stalls it, both processors run forever, and the scheduler implements `FrameClock` | two blocks, four resets (two rounds of init and power_cycle), pauses of 5, 4 and 6 slots |
| `StepperResets` | whatever the allocator does and however often R is hit, the owner of the stack is live and every coroutine resumes on its own frames | three blocks, three resets, at most two of them soft |
| `StepperDmaAfterR` | violation: after one `soft_reset` the DMA stalls the PPU | three resets |
| `VBlank` | the flag's window, races of `$2002` with the flag, the NMI line between frames, no NMI twice, NMIs lost only at the start of a line, lines inside the framebuffer, the length of frames, the answer to an NMI, with resets at any CPU cycle | frames of 8 lines (2 visible, 5 idle) of 10 dots, instructions of up to 6 cycles, two resets |
| `AddressSpace` | ports never overlap; the address space is a map | four addresses, a RAM of one cell and its mirrors, a ROM of two, two values |
| `Mmc1Loads` | the serial protocol, the windows and their layout, over loads, reset bits and an exchange of cartridges | 64 cycles in steps of 4, three values, three cartridges |
| `Mmc1Rmw` | violation: a read-modify-write instruction counts twice | 60 cycles, a byte of 16 values |
| `Mmc1Chr1` | violation: chr1 is not ignored in 8 KB mode | 60 cycles, a cartridge of 512 KB |
| `Cpu` | accesses and cycles of every instruction, arithmetic against integers, nesting of calls and interrupts | ten bytes around every boundary of the arithmetic, four for operands of addresses, four instructions and two NMIs around the stack |
| `Ppu` | the picture against the scroll position, reads of `$2007`, palette, sprite flags | 8 tiles, 12 lines, 21 idle lines, 10 sprites; up to six register uses |
| `PpuPreRender` | violation: sprites are evaluated on the pre-render line | eight to ten sprites on one line, nine of them at the lower edge among others, as in `Ppu` |
| `Console` | battery RAM over sessions, banks, keys and controller | up to four sessions, three keys, three waiting events, ten reads of `$4016` |

Why the bounds are enough:

* *Stepper.* Only the parity of the number of resets and whether a pause spans more
  than a CPU cycle matter; the values 5, 4 and 6 keep "odd one longer than even" and
  "longer than a CPU cycle". The theorems remove the bounds. `gen` counts resets and
  is capped by `MaxResets` in the guards.
* *VBlankNmi.* The window of the races is three dots of line 241. Ten dots by eight
  lines keeps that window apart from the sleeping part of the line, and 80 and 79 dots
  leave remainders 2 and 1 when divided by the three dots of a CPU cycle, as 89342 and
  89341 do, so that all three alignments occur. Two visible and five idle lines leave
  forty dots of vertical blank, in which an NMI can be taken and its handler can read
  and write the registers. `NmiAnswered` is true only where the
  time outside vertical blank is longer than the longest chain of delaying
  instructions: a chain as long as a frame would still be running when the NMI is
  next raised. `MaxDelays` is that chain; it is 1 in the run, with instructions of up to
  6 cycles, and with 7 a frame of this size is too short.
* *AddressSpace.* A defect needs a port, a second one that begins inside it or ends
  where it begins, and an address at an end: four addresses hold all of these. The
  values of cells may be exchanged, so they are a symmetry set. The theorems hold for
  every width, set of modules and size.
* *Mmc1.* 64 cycles hold sixteen stores, of which the first is ignored, since
  `last_write_cycle` starts as the greatest value of a byte: three loads, or two with
  reset bits anywhere. The three values put the control register into a 32 KB mode and both
  16 KB modes and into both CHR modes, and select banks beyond the end of the smaller
  cartridges. Deadlock is not checked: the program of the model stops at `MaxCycles`.
* *Cpu.* An instruction depends on its operand bytes through sums and comparisons, whose
  cases change at 0, 1, 16, 127, 128, 254 and 255; all pairs of ten such bytes are taken for
  accumulator and operand, with both carries. Addresses use the four bytes at the ends and
  the middle, with index values that cross a page, wrap in the zero page and wrap at
  `$FFFF`. The stack cases begin at both ends of the page and run sequences of JSR, RTS, RTI,
  BRK, PHP, PLP, PLA and CLI long enough for an NMI inside a BRK inside a call. The deep case
  is 90 BRKs in a row: 85 fill the page, and the rest push onto the oldest.
* *Ppu.* A line of 8 tiles has the first tile (which the mask can clip), inner ones, the
  last and the two fetched ahead. Start positions lie at the right and lower edges, so
  that columns wrap at 31 and rows at 29 and at 31 within 12 lines. Ten sprites are
  enough for a full eight, a ninth, and a tenth reached by the skewed search. Start addresses
  with bit 15 one increment away give whole frames with that bit set. The idle
  lines are as many as in the code, as a tall sprite must not reach the pre-render line from
  above. Deadlock is not checked: a case ends after its frames.
* *Console.* A save is lost or found by three sessions (save, fail, start again); four
  leave room for another game in between. Three keys are a pair of opposites and one
  without. The kinds of cartridge cover each mapper, both header formats, the exponent
  notation, sizes that are no whole banks, trainers and unknown mappers; with a battery, an
  MMC1 whose saved RAM is none, less, all and more than the other, one of 512 KB without any,
  and an NROM that is said to have some. Deadlock is not
  checked: the player stops after the last session.

## 4. Fairness

`Stepper!FairSpec` assumes weak fairness of `RunIfClock` (the main loop calls
`run_frame` as long as the window is open, and `step_whole` never blocks) and of
`PowerCycle` (it follows `init` in the same function). It does not assume that a
reset stops happening, nor that a coroutine is ever *resumed*: that is what
`NoStarvation` shows. `VBlankNmi!FairSpec` assumes weak fairness of the CPU's slot and of
the PPU's, for the same reason; no fairness of any particular instruction. The other
specifications state safety only.

## 5. What is proved

By TLAPS, for all values of the constants that satisfy the named assumptions.

**`StepperProofs`** (from `AddrAssumption`, `LengthAssumption`, `PolicyAssumption`).
`OwnFrames` alone is not inductive: handing the stack over saves the owner's frames
under the owner's address, and nothing in `OwnFrames` says that this is not the
address of the coroutine being resumed, or that the frames a fresh coroutine begins
are those of the right receiver. The inductive invariant is
`TypeOK /\ Placed /\ OwnerIsLive /\ OwnFrames`, where `Placed` says that the two
coroutines are different blocks and that each serves its receiver.

* `TypeCorrect`, `OwnerAlwaysLive`, `FramesNeverMix`: for every allocator, every
  number of resets.
* `CpuCoAlternates`: which coroutine `m_cpu_co` names after n resets. The invariant
  is its own induction hypothesis once `Placed` is known; a reset exchanges the blocks.
* `SchedulerRefinesFrameClock`: for a last-in first-out allocator and without soft
  resets, every step of the scheduler is a step or a stutter of `FrameClock`. Without
  soft resets exactly one reset lies between `init` and execution (`OneReset`), so by
  `CpuCoAlternates` the DMA's pointer is right; then each of the 24 places in
  `step_whole` is mapped to a phase. The two assumptions are needed: the run
  `StepperDmaAfterR` is the counterexample without the second.
* `DmaPausesCpu`: under the same two assumptions every DMA stalls the CPU's coroutine,
  for the same reason.

**`AddressSpaceProofs`** (from `SpaceAssumption`, `OpenAssumption`). The invariant is
`TypeOK /\ PortsDisjoint`.

* `PortsStayDisjoint`: the check of every address of a new port is enough to keep
  ports apart, and removals keep them apart.
* `AddressSpaceRefinesMap`: disjointness makes the port that covers an address unique
  (`OnePortCovers`) and the one `find_port` looks at (`FindPortFinds`: a port with a
  greater base not above the address would begin inside it). Each operation is then
  mapped to one of `AddressMap`, one lemma for each group.
* `TypeCorrect`.

**`VBlankNmiProofs`** (from `GeometryAssumption`, `BoundAssumption`: frames and
instructions of any size). Whether the flag should be up is a matter of where the PPU
is, so the invariant is first one about positions: which line belongs to which `type`
(`Placed`), that the short first cycle has been used up before the last dots of a
rendered line (`ShortCycleUsedUp`), how `m_clocks` (`Clocked`) and the time since the
frame began (`Elapsed`) follow from the dot. On top of it `VBlankWindow`,
`LineHighOutsideVBlank` and `NmiOnlyOnce` are inductive together with `RiseIsOwed`: a
rise that the NMI logic has not been told of, because `$2000` was written while
`m_clocks <= 1`, is still owed.

* With any number of resets at any CPU cycle: `Typed`, `FlagInVBlankOnly`,
  `LineHighBetweenBlanks`, `NoSpuriousNmi`, `DrawsInside`, `LostOnlyAtLineStart`.
* Until the first soft reset: `SuppressionUsedUp`, `RaceCostsTheFrame` (both are stated
  with `resets = 0`, as a reset keeps the suppression request and the flag), and
  `FramesOnTime`, whose property says so itself. These need `FreshInv`: the dot and `m_clocks`
  agree, an NMI is owed and a race happened in vertical blank only, and whether a dot of the
  frame has been left out is settled by `m_odd_frame`.

**`Mmc1Proofs`** (from `CartAssumption`). `ShiftHoldsSent` is inductive only with
`ShiftEmptied`: the shift register is empty whenever its count is zero, since
`register_write` shifts into what is there. `Typed`, `WindowsStayInside`,
`ModesArrangeWindows`, `ShiftRegisterIsHistory` and the action property
`OnlyWholeValues` follow for every set of cartridges, width of the cycle counter and set
of values; `WindowLayout` rests on a lemma on remainders (`SetBankKeepsPairs`: a pair of
banks that begins at an even one is not torn by `set_bank` if the memory has an even
number).

**`CpuProofs`** (from `CaseAssumption` and `RowsDistinct`: any registers with bit 5 of the
flags set, any subset of the 256 opcodes, any bytes in memory, any number of instructions and
NMIs). An instruction builds its `trace` out of pieces in which each access is followed by
a cycle (`Steady`), and such pieces may be joined; `BBS` takes its displacement out of the
trace, so that types and pace are one invariant with `DisplacementRead`, which holds
because every row of the table that runs `bbs` addresses by `bitrel` (`BbsMode`, from all
256 rows).

* `Typed`, `OnePerCycle`: in particular the 16-bit wrap of the program counter, the stack
  pointer, and what the undocumented stores write.
* `ArithmeticRight`: `AddBinary`, `SubtractBinary`, `Compared` and the shifts against the
  integers (`SumOfBytes`, `DifferenceOfBytes`, `ShiftsSay`), then each handler against what it has put
  on the bus. Where TLC takes ten bytes, this is all pairs, with both carries.
* `CyclesRight`, `AccessesRight`: `TimingTable` and `EffectiveAccesses` for every operand, index
  and address. They speak of `poll`, where the work is over, so `CycleInv` says what the steps
  before have left: after the fetch one read and one cycle (`Opened`); after the addressing mode
  a piece that writes nothing, takes the cycles of its mode (`CyclesOfMode`), and, in a mode
  that does not expect a write, reads the effective address only where that lies in the zero
  page or among the bytes of the instruction (`Formed`). This rests on two facts. A dummy read
  made only because the index crosses a page is in another page than the effective address
  (`CrossingTells`), which is why a load touches it once. And the table gives each handler only
  modes its class allows, the writing variants to what writes (`TableFits`, from the rows,
  whichever of two wins). The cycles of pieces add up (`CountJoins`, by a bijection: `Count` is
  a cardinality), and each shape of a handler adds its own (`ReadShows`, `StoreShows`,
  `ModifyShows`, `BranchShows`, `OtherCounts`).

**`CpuStackProofs`** (from the same assumptions, on the invariant of `CpuProofs`). That a return
finds its frame is a statement about a ring: sp is a byte, 256 cells are all there is, and a
program may let it go round. Neither `BreakBitTells` nor `ReturnsResume` is inductive, since
they do not say where the frames are. `StackInv` does:

* `Nested`: the distances of the frames above sp, taken modulo 256, increase from the innermost
  out; between two lies exactly what was pushed since (`over`), and the outermost ends within
  the 256 cells. The last part is what a push could break, and why the history forgets the
  frames a push reaches (`Kept`): without that the candidate is false, which TLC shows with a
  stack that is full (`DeepCases`).
* `Intact`: the cells of each frame hold what was pushed: the return address, which for a JSR is
  one less, and the flags with B as the kind of the interrupt has it.

A push of n bytes moves all distances by n and writes cells that are at distances no frame has
(`CellsApart`, `PushSpares`); which frames are kept is settled by the least one reached
(`KeptSpared`, by `LeastOf`, the well-foundedness of the order of the naturals). A pull either
stays within `over` or empties the history. All handlers other than the nine that use the stack
leave page, history and sp alone or empty the history (`Undisturbed`).

* `FramesIntact`: `StackInv`, for any depth of nesting, any placing of sp and any NMIs.
* `BreakBit`, `Returns`: the two properties of the run. They need that flags and addresses come
  back from the bytes they are pushed as (`FlagsComeBack`, `WordComesBack`, `ReturnAddress`).

**`PpuProofs`** (from `SizeAssumption`, `CasesAssumption`: every size of line, frame and OAM, any registers
and OAM to begin with, any uses of registers anywhere). Besides types and palettes, seven
invariants, on top of each other: `ReadInv`, `ScrollInv`, `PictureInv`, `SpriteInv`, `Cleared`,
`HitInv`, `OverflowInv`.

* `Typed`: the dot must be tied to the place in the line (`Placed`), or the sprite flags,
  which are dots, could not be shown to stay in the line.
* `PalettesAgree`: the copy that pixels are coloured from is written where, and as,
  `$2007` stores, mirrors included.
* `ReadsLag`: `ReadInv` ties what the program counts on to `m_w`, `m_t`, `m_v` and the read
  buffer, through every register and every step of rendering that moves `m_v`.
* `PictureDrawn`: `PictureScrolls`. What a pixel shows was fetched up to a line earlier, so the
  invariant (`PictureInv`) follows the fetches: at each place in the line, where `m_v` is
  (`Along` which row of the picture, `Across` which column), which tile waits in `shift` and which
  part of the next one is in `fetched`. `ScrollInv` ties `m_t` and `m_x`, which each line and
  frame start from, to what the program has set, through every register; `CalmAccess` is
  that nothing which keeps a frame calm moves any of it. The rest is arithmetic: an increment of
  `m_v` is one column further (`StepsRight`, with the change of nametables at column 31) or one
  line down (`StepsDown`, with the wraps at rows 29 and 31), and where `m_v` is, the tile of that
  place is fetched (`FetchesTile`). Bit 15 of `m_v`, which no scrolling changes, is carried
  along (`Aim`, `Raised`): in the frames in which it is set the pixels are the same but for
  nametable addresses that are higher by `$8000`.
* `FlagsShown`: `FlagsOnTime`. What a read of `$2002` shows has to be tied to what lies behind the
  program's back, in four parts.
  - `SpriteInv`: whenever the evaluation of a line is over, the eight slots are those of the
    OAM the frame began with, sprite 0 first and alone marked if the line has it
    (`Evaluates`), and so are the fetched ones that the next line draws (`Prefetches`).
  - `HitInv`: the flag is raised, due at the first hit of this line, or not due, according to the
    picture drawn so far (`HitsReported`). It needs `PictureInv`, because a hit is about the
    background that *is* drawn, and that a tile of eight dots gives the first of its
    hits (`FirstOpaque`, `HitsOfTile`), whether the flag goes up before or after it is drawn.
  - `OverflowInv`: a raised overflow flag stands for a line with eight sprites or more
    (`OverflowIsCrowd`), one that has been begun or, as the code evaluates that too, the
    pre-render line; and a ninth that directly follows the eighth raises it
    (`NinthIsReported`). The evaluation is a function of the number of sprites looked at, so
    that what it has found up to a sprite (`FoundIn`) is proved over the set of the numbers
    for which it holds (`UpTo`) rather than by an induction theorem.
  - `Cleared`: each frame begins without flags, which is what ties them to its own lines.

TLC checked these invariants on the run before they were proved.

**`ConsoleProofs`** (from `ConsoleAssumption`, `ScenarioAssumption`: a key has one button,
a title is one game, RAM sizes are halves of a byte).

* `ButtonsAsHeld`: the queue is what lies between the player and the game. The
  invariant says of each key that the *last* waiting event about it says what is held
  (`Reported`). A press against an opposite direction may be dropped, so for the converse it
  follows what the game will be told after each waiting event (`LeadsTo`): what it is told in the
  end agrees with the keys held (`Settled`), up to the keys that were last pressed while their
  opposite was held (the history variable `contested`). A new event lengthens that
  sequence at one end, the main loop shortens it at the other, and with the empty queue it
  is what the game is told now.
* `ReadsInOrder`: the shift position is the number of reads, up to eight (`PollInv`).
* `BatteryRemembers`: `SavedOnDisk`, that a completed save is in a file of the size its
  loader expects, over sessions of other games, kills and failing saves. A cartridge that
  saves all the RAM it has (`SavesAll`), whatever the size of the other, is therefore never stopped
  and finds what it saved. For a cartridge with more RAM than it saves, every iNES 1.0 one among
  them, nothing is claimed but that: the assertion of `mmc1.cpp:169` stops it as soon as there is a
  file to read.
* `BanksStayInside`: `TypeOK` with its windows, under `BanksThere`: the loader does not
  compare the size of a cartridge with its mapper, so the theorem names what it
  relies on (one or two banks for NROM and CNROM, at least one of each memory that is switched).
  All cartridges of the run satisfy it.

Out of the prover's reach, and left to TLC: `NoStarvation` and `NmiAnswered` (liveness, for
which one would reason about `ENABLED`).

## 6. Where the code and its comments disagree

Four runs are meant to find a violation.

* `StepperDmaAfterR`. "disable cpu for 513 or 514 cycles" (`io_regs.cpp:119`).
  `NES::init` remembers `m_coroutines[1]` (`nes.cpp:103`), which is the PPU's. It is
  right in a running console only because `power_cycle` then frees both blocks and
  the allocator hands them out in reverse order. Each `soft_reset` exchanges them
  again: while R is held down a DMA stalls the PPU.
* `Mmc1Rmw`. "ignore successive writes to prevent RMW instructions to alter the
  register twice" (`mmc1.cpp:120`). `last_write_cycle` is a `uint8_t` and `cpu.cycles`
  is not: after cycle 257 nothing is ever ignored; before it, since the member starts
  as `0xFF`, everything is. (`RmwAltersOnce` looks at a second store whose first one
  counted.)
* `Mmc1Chr1`. "chr1 ignored in 8KB mode" (`mmc1.cpp:240`). With a cartridge of 512 KB
  the load of chr1 drops the outer bank altogether: `set_bank` has already replaced the
  banks by values without bit 4.
* `PpuPreRender`. "only sprite tile fetches on pre-render line" (`ppu.cpp:330`). The function
  under that comment evaluates the sprites there too, overflow included: nine tall sprites
  hidden at y = 246 to 254 set the overflow flag again on the line that has just cleared it
  (y = 30 in the scaled frame). `FlagsOnTime` speaks of programs that keep all but
  seven sprites off that line.

## 7. Observations

Things the models show that no comment contradicts.

* An NMI is lost when `$2000` is written in the first two dots of *any* scanline
  during vertical blank, and only then (`NmiLostOnlyAtLineStart`); the code's comment
  says the test passes `nmi_on_timing.nes`, which looks at line 241.
* A soft reset keeps a pending NMI, the flag and the suppression request. The first
  instruction after it can be followed by an NMI of the frame before; the flag is
  cleared at the second dot of the pre-render line (`VBlankWindow`).
* A reset during a DMA ends its stall (`Restart` of `FrameClock`), and stalled slots are
  not counted in `cpu.cycles`, whose parity decides the length of the next DMA.
* `uses_chr_ram` and `last_written_chr_reg` of the MMC1 survive the exchange of the
  cartridge, and so do a half-finished load and `last_write_cycle`.
* CPU. The eight opcodes without a row (02, 22, 42, 62, 8B, 93, 9B, BB) take one cycle and
  read themselves a second time for the log; that is the exception in `OneAccessPerCycle`. The 65C02's
  `(zp)` modes and BBS1 (at 9F) are still in the NES's table, and `bbs` hands the low byte
  of the target to `branch_on` where it takes a displacement. SAY and XAS write to the zero page when the
  index crosses a page, and the dummy read of XAS looks at X although its index is Y. The
  interrupt sequence takes five cycles beside BRK's two; PLP lets B into the register,
  which no handler can notice (`BreakBitTells`). Nothing raises an IRQ.
* PPU. A DMA does not mask
  the attribute byte as `$2004` does, so that sprite 0 with attributes `$F7` becomes `$FF`,
  which `render_tile` takes for an empty slot. A read of palette memory adds to the latch's
  low bits instead of replacing them. With bit 15 of `m_v` set (by a use of `$2007` at
  `$7FFF`) nametable fetches go to `$8000` and above (`Raised` of `PictureScrolls`), until
  an address is written through `$2006`. `m_x` survives a reset.
  A write to `$2000` between the two of `$2006` changes the address.
* Console. The assertion of `mmc1.cpp:169`, that what is loaded is as large as the RAM, fails
  for every cartridge with more RAM than it saves once it has a file (`SaveComesBack` states when).
  So it does in the second session of any iNES 1.0 game with a battery: the header
  gives `nvram_size` 0 while the MMC1 has 8 KB of RAM, so the first session leaves an empty file, and
  the next reads 0 bytes of it. A NES 2.0 size with high bits is no whole number of banks and ends
  at the assertion of `set_rom_base`; the exponent notation (`nesloader.cpp:57`) is looked for in the low
  byte of a size that has been scaled to bytes, so such a ROM always has one byte. NES 2.0 drops bits 4 to 7 of the mapper. An MMC1 of 512 KB without
  RAM divides by zero when `apply_banking` selects its RAM bank (`DividesByZero`), which ends the
  program or, on a processor that does not trap, has no effect. On a mapper without RAM
  `save_battery_ram` returns an empty vector, and if the header gives it nvram, that many bytes are
  read at a null pointer: the write fails or the program crashes, and the file stays empty. A
  session killed while saving leaves an empty file. A direction dropped because the
  opposite was held is not taken up when that is released (`contested`). main does not look at
  whether the save could be loaded.
* `add_slave` of the interrupt buses constructs its exceptions without throwing them;
  `tests/memory.cpp` expects an exception where `add_port` has an assertion.

## 8. Only model-checked, and not modelled

Of the properties, only model-checked are the two of liveness (`NoStarvation`, `NmiAnswered`);
section 5 says why. Everything else that a passing run checks is a theorem as well.

Not modelled:

* colours, sprite priority and the rows of sprite patterns: they end in the framebuffer,
  and no later behaviour depends on them; the copy to the window and the text of messages;
* the bytes of a cartridge and of a save file, so that a file shorter than its header
  says (`nesloader.cpp:107` compares with vectors that are still empty) looks like any other;
* the assembly that switches stacks (`acosw.S`, taken to do what `aco.c` expects), and
  `ParallelStepper::step` (nothing calls its only caller);
* `pull_irq_low`, the 65C02's instructions and decimal arithmetic: nothing in the emulator
  calls the first, and the others are compiled out or replaced in the NES's table;
* a DMA from a page of registers; in `VBlankNmi` the pauses of a DMA, which only separate CPU
  slots further, and IRQ and BRK; in `Mmc1` bus conflicts, which only change the value that is
  stored, and the value is open;
* the interrupt buses and the master clock, which only their tests use, and the APU's frame
  sequencer, which nothing links;
* logging, file names, bit helpers.

## 9. The plan

In the order of importance to the running console.

1. `FrameClock`, `Stepper`, `StepperProofs`: done.
2. `VBlankNmi`, `VBlankNmiProofs`: done, except for `NmiAnswered`, which stays with TLC.
3. `AddressMap`, `AddressSpace`, `AddressSpaceProofs`: done.
4. `Mmc1`, `Mmc1Proofs`: done.
5. `PpuRegs`, `PpuRender`, `PpuProofs`: done.
6. `Opcodes`, `Cpu`, `CpuProofs`, `CpuStackProofs`: done.
7. `Console`, `ConsoleProofs`: done.
8. Not begun: interrupt buses, master clock, frame sequencer, should the emulator come to use them.

## 10. Running it

    tlc -workers 2 -config StepperBoot.cfg MCStepper
    tlc -workers 2 -config Cpu.cfg MCCpu
    tlc -workers 2 -config Ppu.cfg MCPpu
    tlc -workers 2 -config Console.cfg MCConsole
    tlapm StepperProofs.tla
    tlapm VBlankNmiProofs.tla
    tlapm AddressSpaceProofs.tla
    tlapm Mmc1Proofs.tla
    tlapm CpuProofs.tla
    tlapm CpuStackProofs.tla
    tlapm PpuProofs.tla
    tlapm ConsoleProofs.tla

`PROJECT.json` lists every run with its module and configuration, and every definition
with the lines of the source it models.
