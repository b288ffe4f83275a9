------------------------------ MODULE PpuProofs ------------------------------
(***************************************************************************)
(* Proofs about the registers of the PPU and its scanlines, for every size *)
(* of line, frame and OAM and every case: any registers to start with, any *)
(* OAM, any set of accesses, any number of them on any lines.              *)
(*                                                                         *)
(* The invariants: the variables stay in their types, for which the dot    *)
(* has to be tied to the place in the line; the two palettes agree; the    *)
(* program that keeps to the rules of $2006 and $2007 knows where it is    *)
(* and what it will read; what it has set is in m_t and m_x; and at every  *)
(* place in a line m_v and the tiles on their way are where the picture at *)
(* that scroll position wants them; the sprites evaluated and fetched are  *)
(* those of the OAM the frame began with; and the two sprite flags say     *)
(* what was found on the lines drawn so far.                               *)
(***************************************************************************)
EXTENDS PpuRender, FiniteSetTheorems, WellFoundedInduction, TLAPS

(* The addresses of the PPU's bus, of 14 bits. *)
Bus == 0..16383

(* What has been written to memory are bytes. *)
MemoryTyped == \A a \in DOMAIN vram : vram[a] \in Byte

(* The dot each place in the line is at, and the tiles it is about. *)
Fetching == (8 * tile) + (IF tile < Tiles THEN 0 ELSE 64)

Placed ==
    /\ place = "idle" => m_clocks = 0
    /\ place = "attribute" => m_clocks = Fetching + 1
    /\ place = "next" => m_clocks = Fetching + 3
    /\ place = "sprites" => m_clocks = (8 * Tiles) + 1 /\ tile = Tiles - 1
    /\ place = "unused" => m_clocks = (8 * Tiles) + 81

TypeInv == case \in Cases /\ TypeOK /\ MemoryTyped /\ Placed

(* What the program counts on. *)
ProgramFields == {"second", "high", "pointer", "source", "x", "y", "nt"}

ProgramTyped ==
    /\ DOMAIN program = ProgramFields
    /\ program.second \in {0, 1, Unknown}
    /\ program.high \in (0..63) \cup {Unknown}
    /\ program.pointer \in Bus \cup {Unknown}
    /\ program.source \in Bus \cup {Unknown}

(* It knows the toggle, and the first half of an address in between. *)
ToggleKnown ==
    /\ program.second # Unknown => (m_w <=> program.second = 1)
    /\ program.high # Unknown => program.second = 1 /\ m_t \div 256 = program.high

PointerKnown == program.pointer # Unknown => m_v % 16384 = program.pointer
BufferKnown == program.source # Unknown => m_read_buffer = CellAt(program.source)

ReadInv == ProgramTyped /\ ToggleKnown /\ PointerKnown /\ BufferKnown

-----------------------------------------------------------------------------
(***************************************************************************)
(* Arithmetic of the address.                                              *)
(***************************************************************************)
LEMMA WordBounds == \A v \in Int : v \in Word16 <=> 0 <= v /\ v <= 65535
BY SMTT(90) DEF Word16

LEMMA WordIsInt == \A v \in Word16 : v \in Int /\ 0 <= v /\ v <= 65535
BY SMTT(90) DEF Word16

(* The parts of m_v and m_t, and what is put together from such parts. *)
LEMMA PartsOfAddress ==
    ASSUME NEW v \in Word16
    PROVE  /\ CoarseX(v) \in 0..31 /\ CoarseY(v) \in 0..31 /\ NameTable(v) \in 0..3
           /\ FineY(v) \in 0..7 /\ Top(v) \in 0..1
BY WordIsInt DEF CoarseX, CoarseY, NameTable, FineY, Top, Fields

LEMMA FieldsInWord ==
    ASSUME NEW top \in 0..1, NEW fine \in 0..7, NEW nt \in 0..3, NEW cy \in 0..31,
           NEW cx \in 0..31
    PROVE  Fields(top, fine, nt, cy, cx) \in Word16
BY WordBounds DEF Fields

(* Whatever m_v is, scrolling keeps it within its 16 bits. *)
LEMMA CoarseXInWord ==
    ASSUME NEW v \in Word16
    PROVE  coarse_x_increment(v) \in Word16
<1>1. 2^10 = 1024
  OBVIOUS
<1> QED
  BY <1>1, WordBounds, WordIsInt DEF coarse_x_increment, CoarseX, BitOf

LEMMA YInWord ==
    ASSUME NEW v \in Word16
    PROVE  y_increment(v) \in Word16
<1>1. CASE FineY(v) # 7
  BY <1>1, WordBounds, WordIsInt DEF y_increment, FineY
<1>2. CASE FineY(v) = 7
  <2>1. PICK top \in 0..1, nt \in 0..3, cy \in 0..31, cx \in 0..31 :
            top = Top(v) /\ nt = NameTable(v) /\ cy = CoarseY(v) /\ cx = CoarseX(v)
    BY PartsOfAddress
  <2>2. PICK flipped \in 0..3, down \in 0..31 : flipped = (nt + 2) % 4 /\ down = (cy + 1) % 32
    OBVIOUS
  <2>3. Fields(top, 0, flipped, 0, cx) \in Word16 /\ Fields(top, 0, nt, down, cx) \in Word16
    <3>1. 0 \in 0..7 /\ 0 \in 0..31
      OBVIOUS
    <3>2. Fields(top, 0, flipped, 0, cx) \in Word16
      BY <3>1, FieldsInWord
    <3>3. Fields(top, 0, nt, down, cx) \in Word16
      BY <3>1, FieldsInWord
    <3> QED
      BY <3>2, <3>3
  <2> QED
    BY <1>2, <2>1, <2>2, <2>3 DEF y_increment
<1> QED
  BY <1>1, <1>2

LEMMA ResetsInWord ==
    ASSUME NEW v \in Word16, m_t \in Word16
    PROVE  reset_horizontal_scroll(v) \in Word16 /\ reset_vertical_scroll(v) \in Word16
<1>1. PICK top \in 0..1, fine \in 0..7, nt \in 0..3, cy \in 0..31, cx \in 0..31 :
          /\ top = Top(v) /\ fine = FineY(v) /\ nt = NameTable(v)
          /\ cy = CoarseY(v) /\ cx = CoarseX(v)
  BY PartsOfAddress
<1>2. PICK tfine \in 0..7, tnt \in 0..3, tcy \in 0..31, tcx \in 0..31 :
          /\ tfine = FineY(m_t) /\ tnt = NameTable(m_t)
          /\ tcy = CoarseY(m_t) /\ tcx = CoarseX(m_t)
  BY PartsOfAddress
<1>3. (2 * (nt \div 2)) + (tnt % 2) \in 0..3 /\ (2 * (tnt \div 2)) + (nt % 2) \in 0..3
  OBVIOUS
<1>4. /\ Fields(top, fine, (2 * (nt \div 2)) + (tnt % 2), cy, tcx) \in Word16
      /\ Fields(top, tfine, (2 * (tnt \div 2)) + (nt % 2), tcy, cx) \in Word16
  BY <1>3, FieldsInWord
<1> QED
  BY <1>1, <1>2, <1>4 DEF reset_horizontal_scroll, reset_vertical_scroll

LEMMA ScrollingInWord ==
    ASSUME m_v \in Word16, m_t \in Word16
    PROVE  /\ Scrolled(m_v) \in Word16
           /\ reset_horizontal_scroll(y_increment(coarse_x_increment(m_v))) \in Word16
           /\ reset_vertical_scroll(m_v) \in Word16
<1>1. PICK v \in Word16 : v = coarse_x_increment(m_v)
  BY CoarseXInWord
<1>2. PICK w \in Word16 : w = y_increment(v)
  BY YInWord
<1>3. reset_horizontal_scroll(w) \in Word16 /\ reset_vertical_scroll(m_v) \in Word16
  BY ResetsInWord
<1> QED
  BY <1>1, <1>2, <1>3 DEF Scrolled

(* $2007 adds 1 or 32, and the bus sees 14 bits of that. *)
LEMMA PointerAdvances ==
    ASSUME NEW v \in Word16
    PROVE  /\ Increment \in {1, 32}
           /\ (v + Increment) % 65536 \in Word16
           /\ ((v + Increment) % 65536) % 16384 = ((v % 16384) + Increment) % 16384
<1>1. Increment \in {1, 32}
  BY DEF Increment
<1>2. CASE Increment = 1
  BY <1>2, WordBounds, WordIsInt
<1>3. CASE Increment = 32
  BY <1>3, WordBounds, WordIsInt
<1> QED
  BY <1>1, <1>2, <1>3

LEMMA BusBounds == \A a \in Int : a \in Bus <=> 0 <= a /\ a <= 16383
BY DEF Bus

LEMMA BusIsInt == \A a \in Bus : a \in Int /\ 0 <= a /\ a <= 16383
BY DEF Bus

LEMMA BusAddress == \A v \in Word16 : v % 16384 \in Bus
BY WordIsInt, BusBounds

(* Where an address of the bus leads, and the index of the palette's copy. *)
LEMMA CellsOfAddress ==
    ASSUME NEW address \in Bus, NEW i \in {0} \cup {j \in 1..31 : j % 4 # 0}
    PROVE  /\ Unmirrored(16128 + i) = 16128 + i
           /\ IsPalette(address) =>
                 (Unmirrored(address) = 16128 + i <=> CopyIndex(address) = i)
           /\ IsPalette(address) => CopyIndex(address) \in 0..31
           /\ ~IsPalette(address) => Unmirrored(address) # 16128 + i
<1>1. /\ ((16128 + i) % 32) = i /\ (i % 4 = 0 => i = 0)
  OBVIOUS
<1>2. Unmirrored(16128 + i) = 16128 + i
  BY <1>1 DEF Unmirrored, IsPalette, PaletteIndex
<1>3. PaletteIndex(address) \in 0..31
  BY BusIsInt DEF PaletteIndex
<1> QED
  BY <1>2, <1>3, BusIsInt DEF Unmirrored, IsPalette, CopyIndex

-----------------------------------------------------------------------------
(***************************************************************************)
(* What the CPU does.                                                      *)
(***************************************************************************)
LEMMA CaseTyped ==
    ASSUME case \in Cases
    PROVE  /\ case.v \in Word16 /\ case.w \subseteq BOOLEAN
           /\ case.ctrl \in Byte /\ case.mask \in Byte
           /\ case.oam_addr \in 0..(OamSize - 1)
           /\ case.oam \in [0..(OamSize - 1) -> Byte] /\ case.page \in [0..(OamSize - 1) -> Byte]
BY CasesAssumption

LEMMA OamSizeTyped == OamSize \in Int /\ OamSize >= 36 /\ OamSize <= 256
BY SizeAssumption DEF OamSize

LEMMA WrittenTyped ==
    ASSUME case \in Cases, NEW reg, NEW val, <<reg, val>> \in case.accesses
    PROVE  val \in IF reg = "oam_addr" THEN 0..(OamSize - 1) ELSE Byte
<1> DEFINE a == <<reg, val>>
<1>1. Len(a) = 2 /\ a[1] = reg /\ a[2] = val
  OBVIOUS
<1>2. a \in case.accesses
  OBVIOUS
<1> HIDE DEF a
<1>3. a[2] \in IF a[1] = "oam_addr" THEN 0..(OamSize - 1) ELSE Byte
  BY <1>1, <1>2, CasesAssumption
<1> QED
  BY <1>1, <1>3

LEMMA WritesTyped ==
    ASSUME case \in Cases, NEW reg, NEW val, Writes(reg, val)
    PROVE  val \in IF reg = "oam_addr" THEN 0..(OamSize - 1) ELSE Byte
BY WrittenTyped DEF Writes, Disturbs, Uses

LEMMA ThirdByteTyped ==
    ASSUME NEW addr \in Nat, NEW val \in Byte
    PROVE  ThirdByte(addr, val) \in Byte
BY DEF ThirdByte, Byte

LEMMA CellTyped ==
    ASSUME MemoryTyped, NEW a
    PROVE  CellAt(a) \in Byte
BY DEF MemoryTyped, CellAt, Byte

LEMMA DataValueTyped ==
    ASSUME MemoryTyped, m_decay \in Byte, m_read_buffer \in Byte
    PROVE  DataValue \in Byte
<1>1. PICK cell \in Byte : cell = CellAt(Unmirrored(m_v % 16384))
  BY CellTyped
<1>2. (cell % 64) + (64 * (m_decay \div 64)) \in Byte
  BY DEF Byte
<1> QED
  BY <1>1, <1>2 DEF DataValue

LEMMA DecayTyped ==
    ASSUME MemoryTyped, m_decay \in Byte, m_read_buffer \in Byte
    PROVE  DecayAfterRead \in Byte
<1> DEFINE either(i) == IF BitOf(DataValue, i) = 1 \/ (i < 6 /\ BitOf(m_decay, i) = 1)
                        THEN 2^i ELSE 0
<1>1. DecayAfterRead = IF IsPalette(m_v % 16384)
                       THEN either(0) + either(1) + either(2) + either(3)
                            + either(4) + either(5) + either(6) + either(7)
                       ELSE DataValue
  BY DEF DecayAfterRead
<1>2. /\ 2^0 = 1 /\ 2^1 = 2 /\ 2^2 = 4 /\ 2^3 = 8
      /\ 2^4 = 16 /\ 2^5 = 32 /\ 2^6 = 64 /\ 2^7 = 128
  OBVIOUS
<1>3. /\ either(0) \in {0, 1} /\ either(1) \in {0, 2} /\ either(2) \in {0, 4}
      /\ either(3) \in {0, 8} /\ either(4) \in {0, 16} /\ either(5) \in {0, 32}
      /\ either(6) \in {0, 64} /\ either(7) \in {0, 128}
  BY <1>2
<1> HIDE DEF either
<1>4. either(0) + either(1) + either(2) + either(3)
        + either(4) + either(5) + either(6) + either(7) \in Byte
  BY <1>3 DEF Byte
<1> QED
  BY <1>1, <1>4, DataValueTyped

(* Which registers each use of one may leave changed, and in their types. *)
LEMMA ScrollRegsTyped ==
    ASSUME TypeInv, CpuAccess
    PROVE  m_v' \in Word16 /\ m_t' \in Word16 /\ m_x' \in 0..7 /\ m_w' \in BOOLEAN
<1>1. m_v \in Word16 /\ m_t \in Word16 /\ m_x \in 0..7 /\ m_w \in BOOLEAN /\ case \in Cases
  BY DEF TypeInv, TypeOK, RegsTypeOK
<1>2. (m_v + Increment) % 65536 \in Word16
  BY <1>1, PointerAdvances
<1>3. ASSUME NEW val \in Values, CtrlWrite(val)
      PROVE  m_v' \in Word16 /\ m_t' \in Word16 /\ m_x' \in 0..7 /\ m_w' \in BOOLEAN
  <2>1. PICK nt \in 0..3 : nt = val % 4
    BY <1>1, <1>3, WritesTyped DEF CtrlWrite, Byte
  <2>2. PICK top \in 0..1, fine \in 0..7, cy \in 0..31, cx \in 0..31 :
            top = Top(m_t) /\ fine = FineY(m_t) /\ cy = CoarseY(m_t) /\ cx = CoarseX(m_t)
    BY <1>1, PartsOfAddress
  <2>3. Fields(top, fine, nt, cy, cx) \in Word16
    BY FieldsInWord
  <2> QED
    BY <1>1, <1>3, <2>1, <2>2, <2>3 DEF CtrlWrite
<1>4. ASSUME NEW val \in Values, ScrollWrite(val)
      PROVE  m_v' \in Word16 /\ m_t' \in Word16 /\ m_x' \in 0..7 /\ m_w' \in BOOLEAN
  <2>1. PICK high \in 0..31, low \in 0..7 : high = val \div 8 /\ low = val % 8
    BY <1>1, <1>4, WritesTyped DEF ScrollWrite, Byte
  <2>2. PICK top \in 0..1, fine \in 0..7, nt \in 0..3, cy \in 0..31, cx \in 0..31 :
            /\ top = Top(m_t) /\ fine = FineY(m_t) /\ nt = NameTable(m_t)
            /\ cy = CoarseY(m_t) /\ cx = CoarseX(m_t)
    BY <1>1, PartsOfAddress
  <2>3. /\ Fields(top, fine, nt, cy, high) \in Word16
        /\ Fields(top, low, nt, high, cx) \in Word16
    BY FieldsInWord
  <2> QED
    BY <1>1, <1>4, <2>1, <2>2, <2>3 DEF ScrollWrite
<1>5. ASSUME NEW val \in Values, AddrWrite(val)
      PROVE  m_v' \in Word16 /\ m_t' \in Word16 /\ m_x' \in 0..7 /\ m_w' \in BOOLEAN
  <2>1. val \in Byte
    BY <1>1, <1>5, WritesTyped DEF AddrWrite
  <2>2. (m_t % 256) + (256 * (val % 64)) \in Word16 /\ (256 * (m_t \div 256)) + val \in Word16
    BY <1>1, <2>1, WordBounds, WordIsInt DEF Byte
  <2> QED
    BY <1>1, <1>5, <2>2 DEF AddrWrite
<1>6. ASSUME UNCHANGED scroll
      PROVE  m_v' \in Word16 /\ m_t' \in Word16 /\ m_x' \in 0..7 /\ m_w' \in BOOLEAN
  BY <1>1, <1>6 DEF scroll
<1>7. ASSUME m_v' = (m_v + Increment) % 65536, UNCHANGED <<m_t, m_x, m_w>>
      PROVE  m_v' \in Word16 /\ m_t' \in Word16 /\ m_x' \in 0..7 /\ m_w' \in BOOLEAN
  BY <1>1, <1>2, <1>7
<1>8. ASSUME StatusRead
      PROVE  m_v' \in Word16 /\ m_t' \in Word16 /\ m_x' \in 0..7 /\ m_w' \in BOOLEAN
  BY <1>1, <1>8 DEF StatusRead
<1>9. DataRead => m_v' = (m_v + Increment) % 65536 /\ UNCHANGED <<m_t, m_x, m_w>>
  BY DEF DataRead
<1>10. ASSUME NEW val \in Values
       PROVE  /\ DataWrite(val) => m_v' = (m_v + Increment) % 65536 /\ UNCHANGED <<m_t, m_x, m_w>>
              /\ MaskWrite(val) \/ InvalidWrite(val) \/ OamAddrWrite(val) \/ OamDataWrite(val)
                    => UNCHANGED scroll
  BY DEF DataWrite, MaskWrite, InvalidWrite, OamAddrWrite, OamDataWrite
<1>11. OamDataRead \/ OamDma \/ ClearDecay => UNCHANGED scroll
  BY DEF OamDataRead, OamDma, ClearDecay
<1> QED
  BY <1>3, <1>4, <1>5, <1>6, <1>7, <1>8, <1>9, <1>10, <1>11 DEF CpuAccess

(* The data port: what it stores are the program's bytes, what it loads memory's. *)
LEMMA DataPortTyped ==
    ASSUME TypeInv, CpuAccess
    PROVE  /\ m_read_buffer' \in Byte /\ MemoryTyped'
           /\ DOMAIN m_palette_copy' \subseteq 0..31
<1> DEFINE Goal == /\ m_read_buffer' \in Byte /\ MemoryTyped'
                   /\ DOMAIN m_palette_copy' \subseteq 0..31
<1>1. /\ m_read_buffer \in Byte /\ MemoryTyped /\ DOMAIN m_palette_copy \subseteq 0..31
      /\ case \in Cases /\ m_v \in Word16
  BY DEF TypeInv, TypeOK, RegsTypeOK
<1>2. ASSUME UNCHANGED memory PROVE Goal
  BY <1>1, <1>2 DEF memory, MemoryTyped
<1>3. ASSUME NEW val \in Values, DataWrite(val) PROVE Goal
  <2>1. val \in Byte /\ UNCHANGED m_read_buffer
    BY <1>1, <1>3, WritesTyped DEF DataWrite
  <2>2. PICK address \in Bus : address = m_v % 16384
    <3>1. m_v % 16384 \in Bus
      BY <1>1, BusAddress
    <3> QED
      BY <3>1
  <2>3. vram' = Put(vram, Unmirrored(address), val)
    BY <1>3, <2>2 DEF DataWrite
  <2>4. MemoryTyped'
    <3>1. /\ DOMAIN vram' = DOMAIN vram \cup {Unmirrored(address)}
          /\ \A b \in DOMAIN vram' :
                vram'[b] = IF b = Unmirrored(address) THEN val ELSE vram[b]
      BY <2>3 DEF Put
    <3> QED
      BY <1>1, <2>1, <3>1 DEF MemoryTyped
  <2>5. m_palette_copy' = IF IsPalette(address) THEN Put(m_palette_copy, CopyIndex(address), val)
                          ELSE m_palette_copy
    BY <1>3, <2>2 DEF DataWrite
  <2>6. CopyIndex(address) \in 0..31
    BY BusIsInt DEF CopyIndex, PaletteIndex
  <2>7. DOMAIN m_palette_copy' \subseteq 0..31
    BY <1>1, <2>5, <2>6 DEF Put
  <2> QED
    BY <1>1, <2>1, <2>4, <2>7
<1>4. ASSUME DataRead PROVE Goal
  <2>1. m_read_buffer' \in Byte
    BY <1>1, <1>4, CellTyped DEF DataRead
  <2>2. UNCHANGED <<vram, m_palette_copy>>
    BY <1>4 DEF DataRead
  <2> QED
    BY <1>1, <2>1, <2>2 DEF MemoryTyped
<1>5. ASSUME NEW val \in Values
      PROVE  CtrlWrite(val) \/ MaskWrite(val) \/ InvalidWrite(val) \/ OamAddrWrite(val)
             \/ OamDataWrite(val) \/ ScrollWrite(val) \/ AddrWrite(val) => UNCHANGED memory
  BY DEF CtrlWrite, MaskWrite, InvalidWrite, OamAddrWrite, OamDataWrite, ScrollWrite, AddrWrite
<1>6. StatusRead \/ OamDataRead \/ OamDma \/ ClearDecay => UNCHANGED memory
  BY DEF StatusRead, OamDataRead, OamDma, ClearDecay
<1> QED
  BY <1>2, <1>3, <1>4, <1>5, <1>6 DEF CpuAccess

(* The latch takes what was written, or what a read leaves there. *)
LEMMA LatchesTyped ==
    ASSUME TypeInv, CpuAccess
    PROVE  m_decay' \in Byte /\ m_ctrl' \in Byte /\ m_mask' \in Byte
<1> DEFINE Goal == m_decay' \in Byte /\ m_ctrl' \in Byte /\ m_mask' \in Byte
<1>1. /\ m_read_buffer \in Byte /\ MemoryTyped /\ case \in Cases
      /\ m_decay \in Byte /\ m_ctrl \in Byte /\ m_mask \in Byte
      /\ m_oam_addr \in 0..(OamSize - 1)
      /\ DOMAIN oam = 0..(OamSize - 1) /\ \A a \in DOMAIN oam : oam[a] \in Byte
  BY DEF TypeInv, TypeOK, RegsTypeOK
<1>2. ASSUME NEW val, NEW reg, Writes(reg, val),
             m_ctrl' \in {m_ctrl, val}, m_mask' \in {m_mask, val}
      PROVE  Goal
  <2>1. val \in IF reg = "oam_addr" THEN 0..(OamSize - 1) ELSE Byte
    BY <1>1, <1>2, WritesTyped
  <2>2. val \in Byte
    BY <2>1, OamSizeTyped DEF Byte
  <2> QED
    BY <1>1, <1>2, <2>2 DEF Writes
<1>3. ASSUME NEW val \in Values
      PROVE  /\ CtrlWrite(val) => Writes("ctrl", val) /\ m_ctrl' = val /\ UNCHANGED m_mask
             /\ MaskWrite(val) => Writes("mask", val) /\ m_mask' = val /\ UNCHANGED m_ctrl
             /\ InvalidWrite(val) => Writes("invalid", val) /\ UNCHANGED <<m_ctrl, m_mask>>
             /\ OamAddrWrite(val) => Writes("oam_addr", val) /\ UNCHANGED <<m_ctrl, m_mask>>
             /\ OamDataWrite(val) => Writes("oam_data", val) /\ UNCHANGED <<m_ctrl, m_mask>>
             /\ ScrollWrite(val) => Writes("scroll", val) /\ UNCHANGED <<m_ctrl, m_mask>>
             /\ AddrWrite(val) => Writes("addr", val) /\ UNCHANGED <<m_ctrl, m_mask>>
             /\ DataWrite(val) => Writes("data", val) /\ UNCHANGED <<m_ctrl, m_mask>>
  BY DEF CtrlWrite, MaskWrite, InvalidWrite, OamAddrWrite, OamDataWrite, ScrollWrite, AddrWrite,
         DataWrite
<1>4. ASSUME \E val \in Values : \/ CtrlWrite(val) \/ MaskWrite(val) \/ InvalidWrite(val)
                                 \/ OamAddrWrite(val) \/ OamDataWrite(val)
                                 \/ ScrollWrite(val) \/ AddrWrite(val) \/ DataWrite(val)
      PROVE  Goal
  BY <1>2, <1>3, <1>4
<1>5. ASSUME OamDataRead PROVE Goal
  <2>1. ThirdByte(m_oam_addr, oam[m_oam_addr]) \in Byte
    BY <1>1, OamSizeTyped, ThirdByteTyped
  <2> QED
    BY <1>1, <1>5, <2>1 DEF OamDataRead
<1>6. ASSUME DataRead PROVE Goal
  BY <1>1, <1>6, DecayTyped DEF DataRead
<1>7. ASSUME StatusRead \/ OamDma \/ ClearDecay PROVE Goal
  <2>1. m_decay' \in {m_decay, 0} /\ UNCHANGED <<m_ctrl, m_mask>>
    BY <1>7 DEF StatusRead, OamDma, ClearDecay
  <2>2. 0 \in Byte
    BY DEF Byte
  <2> QED
    BY <1>1, <2>1, <2>2
<1> QED
  BY <1>4, <1>5, <1>6, <1>7 DEF CpuAccess

(* Every way into OAM leaves it full of bytes, and its address inside. *)
LEMMA OamTyped ==
    ASSUME TypeInv, CpuAccess
    PROVE  /\ m_oam_addr' \in 0..(OamSize - 1)
           /\ DOMAIN oam' = 0..(OamSize - 1) /\ \A a \in DOMAIN oam' : oam'[a] \in Byte
<1> DEFINE Goal == /\ m_oam_addr' \in 0..(OamSize - 1)
                   /\ DOMAIN oam' = 0..(OamSize - 1) /\ \A a \in DOMAIN oam' : oam'[a] \in Byte
<1>1. /\ case \in Cases /\ m_oam_addr \in 0..(OamSize - 1)
      /\ DOMAIN oam = 0..(OamSize - 1) /\ \A a \in DOMAIN oam : oam[a] \in Byte
  BY DEF TypeInv, TypeOK, RegsTypeOK
<1>2. ASSUME UNCHANGED oams PROVE Goal
  BY <1>1, <1>2 DEF oams
<1>3. ASSUME NEW val \in Values, OamAddrWrite(val) PROVE Goal
  BY <1>1, <1>3, WritesTyped DEF OamAddrWrite
<1>4. ASSUME NEW val \in Values, OamDataWrite(val) PROVE Goal
  <2>1. val \in Byte
    BY <1>1, <1>4, WritesTyped DEF OamDataWrite
  <2>2. \A b \in Byte : ThirdByte(m_oam_addr, b) \in Byte
    BY <1>1, OamSizeTyped, ThirdByteTyped
  <2>3. PICK b \in Byte : oam' = [oam EXCEPT ![m_oam_addr] = ThirdByte(m_oam_addr, b)]
    <3>1. 255 \in Byte
      BY DEF Byte
    <3> QED
      BY <1>4, <2>1, <3>1 DEF OamDataWrite
  <2>4. m_oam_addr' \in 0..(OamSize - 1)
    BY <1>1, <1>4, OamSizeTyped DEF OamDataWrite, NextOamAddr
  <2> QED
    BY <1>1, <2>2, <2>3, <2>4
<1>5. ASSUME OamDma PROVE Goal
  <2>1. \A a \in 0..(OamSize - 1) : (a - m_oam_addr) % OamSize \in 0..(OamSize - 1)
    BY <1>1, OamSizeTyped
  <2>2. case.page \in [0..(OamSize - 1) -> Byte]
    BY <1>1, CaseTyped
  <2> QED
    BY <1>1, <1>5, <2>1, <2>2 DEF OamDma
<1>6. ASSUME NEW val \in Values
      PROVE  CtrlWrite(val) \/ MaskWrite(val) \/ InvalidWrite(val)
             \/ ScrollWrite(val) \/ AddrWrite(val) \/ DataWrite(val) => UNCHANGED oams
  BY DEF CtrlWrite, MaskWrite, InvalidWrite, ScrollWrite, AddrWrite, DataWrite
<1>7. StatusRead \/ OamDataRead \/ DataRead \/ ClearDecay => UNCHANGED oams
  BY DEF StatusRead, OamDataRead, DataRead, ClearDecay
<1> QED
  BY <1>2, <1>3, <1>4, <1>5, <1>6, <1>7 DEF CpuAccess

(* Each use of a register is one of the case's, and is counted. *)
LEMMA EveryAccessCounts ==
    ASSUME CpuAccess
    PROVE  case' = case /\ accesses' = accesses + 1
<1> DEFINE Goal == case' = case /\ accesses' = accesses + 1
<1>1. \A access : Looks(access) \/ Disturbs(access) => Goal
  BY DEF Looks, Disturbs, Uses
<1>2. \A reg, val : Writes(reg, val) => Goal
  BY <1>1 DEF Writes
<1> HIDE DEF Goal
<1>3. ASSUME NEW val
      PROVE  /\ CtrlWrite(val) => Goal
             /\ MaskWrite(val) => Goal
             /\ InvalidWrite(val) => Goal
             /\ OamAddrWrite(val) => Goal
             /\ OamDataWrite(val) => Goal
             /\ ScrollWrite(val) => Goal
             /\ AddrWrite(val) => Goal
             /\ DataWrite(val) => Goal
  BY <1>2 DEF CtrlWrite, MaskWrite, InvalidWrite, OamAddrWrite, OamDataWrite, ScrollWrite,
              AddrWrite, DataWrite
<1>4. /\ StatusRead => Goal
      /\ OamDataRead => Goal
      /\ DataRead => Goal
      /\ OamDma => Goal
      /\ ClearDecay => Goal
  BY <1>1 DEF StatusRead, OamDataRead, DataRead, OamDma, ClearDecay
<1>5. Goal
  BY <1>3, <1>4 DEF CpuAccess
<1> QED
  BY <1>5 DEF Goal

LEMMA CpuTyped ==
    ASSUME TypeInv, CpuAccess, UNCHANGED render
    PROVE  TypeInv'
<1>1. UNCHANGED <<place, tile, m_clocks, flags, m_current_line>>
  BY DEF render
<1>2. case' = case
  BY EveryAccessCounts
<1>3. RegsTypeOK'
  BY ScrollRegsTyped, DataPortTyped, LatchesTyped, OamTyped DEF RegsTypeOK
<1>4. MemoryTyped'
  BY DataPortTyped
<1>5. TypeOK'
  BY <1>1, <1>3 DEF TypeInv, TypeOK, flags
<1>6. Placed'
  BY <1>1 DEF TypeInv, Placed, Fetching
<1> QED
  BY <1>2, <1>4, <1>5, <1>6 DEF TypeInv

-----------------------------------------------------------------------------
(***************************************************************************)
(* What the PPU does.                                                      *)
(***************************************************************************)
(* A set of naturals has a least element. *)
LEMMA Smallest ==
    ASSUME NEW S, S \subseteq Nat, S # {}
    PROVE  /\ (CHOOSE x \in S : \A n \in S : x <= n) \in S
           /\ \A n \in S : (CHOOSE x \in S : \A m \in S : x <= m) <= n
<1> DEFINE R == OpToRel(<, Nat)
<1>1. \A x, y \in Nat : <<y, x>> \in R <=> y < x
  BY DEF OpToRel
<1>2. IsWellFoundedOn(R, Nat)
  BY NatLessThanWellFounded
<1> HIDE DEF R
<1>3. \E x \in S : \A n \in S : ~(<<n, x>> \in R)
  BY <1>2, WFMin
<1>4. PICK x \in S : \A n \in S : ~(<<n, x>> \in R)
  BY <1>3
<1>5. \A n \in S : x <= n
  <2>1. TAKE n \in S
  <2>2. n \in Nat /\ x \in Nat /\ ~(n < x)
    BY <1>1, <1>4
  <2> QED
    BY <2>2
<1>6. \E m \in S : \A n \in S : m <= n
  BY <1>5
<1> QED
  BY <1>6

LEMMA SizesTyped ==
    /\ Tiles \in 3..32 /\ Tiles \in Int /\ Sprites \in 9..64 /\ RenderLines \in 1..240
    /\ PreRenderLine \in Nat /\ PreRenderLine > RenderLines
BY SizeAssumption DEF PreRenderLine

(* A sprite 0 hit shows at a dot of the line, and not at its last one. *)
LEMMA HitCycleTyped ==
    ASSUME m_sprite0_hit_cycle \in 0..(8 * Tiles) \cup {Never},
           NEW k \in 0..(Tiles - 1), NEW pair
    PROVE  HitCycle(k, pair) \in 0..(8 * Tiles) \cup {Never}
<1> DEFINE hits == HitsIn(k, pair)
           first == CHOOSE x \in hits : \A n \in hits : x <= n
<1>1. hits \subseteq {x \in Pixel(k, 0)..Pixel(k, 7) : x # (8 * Tiles) - 1}
  BY DEF HitsIn
<1>2. \A x \in hits : x \in Nat /\ x + 1 \in 0..(8 * Tiles)
  BY <1>1, SizesTyped DEF Pixel
<1>3. HitCycle(k, pair) = IF m_sprite0_hit_cycle # Never \/ hits = {}
                          THEN m_sprite0_hit_cycle ELSE first + 1
  BY DEF HitCycle
<1> HIDE DEF hits
<1>4. hits # {} => first \in hits
  BY <1>2, Smallest
<1> HIDE DEF first
<1> QED
  BY <1>2, <1>3, <1>4

(* So does the overflow of sprites, at a dot of the evaluation. *)
LEMMA OverflowTyped ==
    do_buggy_overflow_evaluation \in 0..OverflowDot(Sprites) \cup {Never}
<1> DEFINE full == {i \in 8..(Sprites - 1) : Len(found[i]) = 8}
           start == CHOOSE i \in full : \A k \in full : i <= k
           hits == {n \in full : InRange(oam[(4 * n) + ((n - start) % 4)],
                                         m_current_line, sprite_height)}
           first == CHOOSE n \in hits : \A k \in hits : n <= k
<1>1. do_buggy_overflow_evaluation = IF hits = {} THEN Never ELSE OverflowDot(first)
  BY DEF do_buggy_overflow_evaluation
<1>2. hits \subseteq 8..(Sprites - 1)
  OBVIOUS
<1> HIDE DEF hits
<1>3. hits # {} => first \in hits
  <2>1. hits \subseteq Nat
    BY <1>2, SizesTyped
  <2> QED
    BY <2>1, Smallest
<1> HIDE DEF first
<1>4. \A n \in 8..(Sprites - 1) : OverflowDot(n) \in 0..OverflowDot(Sprites)
  BY SizesTyped DEF OverflowDot
<1> QED
  BY <1>1, <1>2, <1>3, <1>4

LEMMA RenderTyped ==
    ASSUME TypeOK, NEW k \in 0..(Tiles - 1), NEW pair, render_tile(k, pair)
    PROVE  m_sprite0_hit_cycle' \in 0..(8 * Tiles) \cup {Never}
BY HitCycleTyped DEF TypeOK, render_tile

(* A step of the PPU touches no register but m_v, which it keeps in its type. *)
LEMMA StepsLeaveRegisters ==
    ASSUME TypeInv, PpuStep
    PROVE  UNCHANGED untouched /\ m_v' \in Word16
<1>1. m_v \in Word16 /\ m_t \in Word16
  BY DEF TypeInv, TypeOK, RegsTypeOK
<1>2. UNCHANGED untouched
  BY DEF PpuStep, LineBegins, FetchAttribute, NextTile, LastTile, PrefetchSprites, NextLineTile,
         LastFetch, EndLine, IdleLine, Step
<1>3. m_v' \in {m_v, Scrolled(m_v), reset_vertical_scroll(m_v),
                reset_horizontal_scroll(y_increment(coarse_x_increment(m_v)))}
  BY DEF PpuStep, LineBegins, FetchAttribute, NextTile, LastTile, PrefetchSprites, NextLineTile,
         LastFetch, EndLine, IdleLine, LineEnds
<1> QED
  BY <1>1, <1>2, <1>3, ScrollingInWord

LEMMA RegistersStayTyped ==
    ASSUME TypeInv, PpuStep
    PROVE  RegsTypeOK' /\ MemoryTyped' /\ case' \in Cases
<1>1. UNCHANGED untouched /\ m_v' \in Word16
  BY StepsLeaveRegisters
<1>2. /\ UNCHANGED <<m_t, m_x, m_w, m_read_buffer, vram, m_palette_copy>>
      /\ UNCHANGED <<m_oam_addr, oam, m_decay, m_ctrl, m_mask, case>>
  BY <1>1 DEF untouched, memory, oams
<1> QED
  BY <1>1, <1>2 DEF TypeInv, TypeOK, RegsTypeOK, MemoryTyped

(* The place in the line, the tile and the dot move on together. *)
LineTyped ==
    /\ m_current_line \in 0..PreRenderLine
    /\ place \in {"idle", "attribute", "next", "sprites", "unused"}
    /\ tile \in 0..(Tiles + 1)
    /\ m_clocks \in 0..340

FlagsTyped ==
    /\ m_sprite0_hit_cycle \in 0..(8 * Tiles) \cup {Never}
    /\ m_sprite_overflow_cycle \in 0..OverflowDot(Sprites) \cup {Never}

LEMMA LineStaysTyped ==
    ASSUME TypeInv, PpuStep
    PROVE  LineTyped' /\ Placed'
<1>1. LineTyped /\ Placed
  BY DEF TypeInv, TypeOK, LineTyped
<1>2. m_current_line' \in 0..PreRenderLine
  <2>1. ASSUME LineEnds PROVE m_current_line' \in 0..PreRenderLine
    BY <1>1, <2>1, SizesTyped DEF LineEnds, IsPreRender, LineTyped
  <2>2. m_current_line' = m_current_line \/ LineEnds
    BY DEF PpuStep, LineBegins, FetchAttribute, NextTile, LastTile, PrefetchSprites,
           NextLineTile, LastFetch, EndLine, IdleLine
  <2> QED
    BY <1>1, <2>1, <2>2 DEF LineTyped
<1> USE <1>1, <1>2, SizesTyped DEF LineTyped, Placed, Fetching, Step
<1>3. ASSUME LineBegins PROVE LineTyped' /\ Placed'
  BY <1>3 DEF LineBegins
<1>4. ASSUME FetchAttribute PROVE LineTyped' /\ Placed'
  BY <1>4 DEF FetchAttribute
<1>5. ASSUME NextTile PROVE LineTyped' /\ Placed'
  BY <1>5 DEF NextTile
<1>6. ASSUME LastTile PROVE LineTyped' /\ Placed'
  BY <1>6 DEF LastTile
<1>7. ASSUME PrefetchSprites PROVE LineTyped' /\ Placed'
  BY <1>7 DEF PrefetchSprites
<1>8. ASSUME NextLineTile PROVE LineTyped' /\ Placed'
  BY <1>8 DEF NextLineTile
<1>9. ASSUME LastFetch PROVE LineTyped' /\ Placed'
  BY <1>9 DEF LastFetch
<1>10. ASSUME EndLine PROVE LineTyped' /\ Placed'
  BY <1>10 DEF EndLine
<1>11. ASSUME IdleLine PROVE LineTyped' /\ Placed'
  BY <1>11 DEF IdleLine
<1> QED
  BY <1>3, <1>4, <1>5, <1>6, <1>7, <1>8, <1>9, <1>10, <1>11 DEF PpuStep

LEMMA FlagsStayTyped ==
    ASSUME TypeInv, PpuStep
    PROVE  FlagsTyped'
<1>1. FlagsTyped /\ TypeOK /\ tile \in 0..(Tiles + 1)
  BY DEF TypeInv, TypeOK, FlagsTyped
<1>2. ASSUME LineBegins PROVE FlagsTyped'
  <2>1. m_sprite0_hit_cycle' \in 0..(8 * Tiles) \cup {Never}
    <3>1. 0 \in 0..(Tiles - 1)
      BY SizesTyped
    <3> QED
      BY <1>1, <1>2, <3>1, RenderTyped DEF LineBegins
  <2>2. m_sprite_overflow_cycle' \in {m_sprite_overflow_cycle, do_buggy_overflow_evaluation}
    BY <1>2 DEF LineBegins, Earlier
  <2> QED
    BY <1>1, <2>1, <2>2, OverflowTyped DEF FlagsTyped
<1>3. ASSUME NextTile PROVE FlagsTyped'
  <2>1. tile + 1 \in 0..(Tiles - 1)
    BY <1>1, <1>3, SizesTyped DEF NextTile
  <2>2. m_sprite0_hit_cycle' \in 0..(8 * Tiles) \cup {Never}
    BY <1>1, <1>3, <2>1, RenderTyped DEF NextTile
  <2> QED
    BY <1>1, <1>3, <2>2 DEF FlagsTyped, NextTile
<1>4. ASSUME LineEnds PROVE FlagsTyped'
  <2>1. 0 \in 0..(8 * Tiles) /\ 0 \in 0..OverflowDot(Sprites)
    BY SizesTyped DEF OverflowDot
  <2> QED
    BY <1>4, <2>1 DEF FlagsTyped, LineEnds, set_unread_flags
<1>5. ASSUME FetchAttribute \/ LastTile \/ PrefetchSprites \/ NextLineTile \/ LastFetch
      PROVE  FlagsTyped'
  <2>1. UNCHANGED flags
    BY <1>5 DEF FetchAttribute, LastTile, PrefetchSprites, NextLineTile, LastFetch
  <2> QED
    BY <1>1, <2>1 DEF FlagsTyped, flags
<1> QED
  BY <1>2, <1>3, <1>4, <1>5 DEF PpuStep, EndLine, IdleLine

LEMMA PpuTyped ==
    ASSUME TypeInv, PpuStep
    PROVE  TypeInv'
BY RegistersStayTyped, LineStaysTyped, FlagsStayTyped
DEF TypeInv, TypeOK, LineTyped, FlagsTyped

LEMMA TypeInvInit == Init => TypeInv
<1> SUFFICES ASSUME Init PROVE TypeInv
  OBVIOUS
<1>1. case \in Cases
  BY DEF Init, RegsInit
<1>2. RegsTypeOK
  <2>1. 0 \in Byte /\ 0 \in 0..7
    BY DEF Byte
  <2>2. DOMAIN m_palette_copy \subseteq 0..31
    BY DEF Init, RegsInit
  <2> QED
    BY <1>1, <2>1, <2>2, CaseTyped DEF Init, RegsInit, RegsTypeOK
<1>3. LineTyped /\ FlagsTyped
  BY SizesTyped DEF Init, LineTyped, FlagsTyped
<1>4. MemoryTyped /\ Placed
  BY DEF Init, RegsInit, MemoryTyped, Placed
<1> QED
  BY <1>1, <1>2, <1>3, <1>4 DEF TypeInv, TypeOK, LineTyped, FlagsTyped

LEMMA TypeInvStep == TypeInv /\ [Next]_vars => TypeInv'
<1> SUFFICES ASSUME TypeInv, [Next]_vars PROVE TypeInv'
  OBVIOUS
<1>1. CASE UNCHANGED vars
  <2>1. /\ UNCHANGED <<m_v, m_t, m_x, m_w, m_read_buffer, vram, m_palette_copy>>
        /\ UNCHANGED <<m_oam_addr, oam, m_decay, m_ctrl, m_mask, case>>
        /\ UNCHANGED <<place, tile, m_clocks, m_current_line>>
        /\ UNCHANGED <<m_sprite0_hit_cycle, m_sprite_overflow_cycle>>
    BY <1>1 DEF vars, regs, render, scroll, memory, oams, flags
  <2> QED
    BY <2>1 DEF TypeInv, TypeOK, RegsTypeOK, MemoryTyped, Placed, Fetching
<1>2. CASE PpuStep
  BY <1>2, PpuTyped
<1>3. CASE CpuAccess /\ UNCHANGED render
  BY <1>3, CpuTyped
<1> QED
  BY <1>1, <1>2, <1>3 DEF Next

(***************************************************************************)
(* The registers keep their widths, OAM its bytes and its address its      *)
(* range, the dot stays within the line of 341, and the dots of the two    *)
(* sprite flags are dots of the line or never: whatever the program writes *)
(* and wherever in the line it does.                                       *)
(***************************************************************************)
THEOREM Typed == Spec => []TypeOK
<1>1. TypeInv => TypeOK
  BY DEF TypeInv
<1> QED
  BY TypeInvInit, TypeInvStep, <1>1, PTL DEF Spec

-----------------------------------------------------------------------------
(***************************************************************************)
(* The palette and its copy.                                               *)
(***************************************************************************)
Colours == {0} \cup {j \in 1..31 : j % 4 # 0}

Copied(i) == IF i \in DOMAIN m_palette_copy THEN m_palette_copy[i] ELSE 0

(* Only a write of $2007 changes memory. *)
LEMMA OnlyDataWrites ==
    ASSUME [Next]_vars
    PROVE  (\E val \in Values : DataWrite(val)) \/ UNCHANGED <<vram, m_palette_copy>>
<1>1. CASE UNCHANGED vars
  BY <1>1 DEF vars, regs, memory
<1>2. CASE PpuStep
  <2>1. UNCHANGED untouched
    BY <1>2 DEF PpuStep, LineBegins, FetchAttribute, NextTile, LastTile, PrefetchSprites,
                NextLineTile, LastFetch, EndLine, IdleLine, Step
  <2> QED
    BY <2>1 DEF untouched, memory
<1>3. CASE CpuAccess
  <2>1. ASSUME NEW val
        PROVE  CtrlWrite(val) \/ MaskWrite(val) \/ InvalidWrite(val) \/ OamAddrWrite(val)
               \/ OamDataWrite(val) \/ ScrollWrite(val) \/ AddrWrite(val)
                  => UNCHANGED memory
    BY DEF CtrlWrite, MaskWrite, InvalidWrite, OamAddrWrite, OamDataWrite, ScrollWrite, AddrWrite
  <2>2. StatusRead \/ OamDataRead \/ OamDma \/ ClearDecay => UNCHANGED memory
    BY DEF StatusRead, OamDataRead, OamDma, ClearDecay
  <2>3. DataRead => UNCHANGED <<vram, m_palette_copy>>
    BY DEF DataRead
  <2> QED
    BY <1>3, <2>1, <2>2, <2>3 DEF CpuAccess, memory
<1> QED
  BY <1>1, <1>2, <1>3 DEF Next

(* A write reaches the memory and the copy at the same colours. *)
LEMMA WritesBothPalettes ==
    ASSUME m_v \in Word16, NEW val, DataWrite(val), NEW i \in Colours,
           Copied(i) = CellAt(16128 + i)
    PROVE  Copied(i)' = CellAt(16128 + i)'
<1>1. m_v % 16384 \in Bus
  BY BusAddress
<1>2. PICK address \in Bus : address = m_v % 16384
  BY <1>1
<1>3. /\ vram' = Put(vram, Unmirrored(address), val)
      /\ m_palette_copy' = IF IsPalette(address) THEN Put(m_palette_copy, CopyIndex(address), val)
                           ELSE m_palette_copy
  BY <1>2 DEF DataWrite
<1>4. CellAt(16128 + i)' = IF Unmirrored(address) = 16128 + i THEN val ELSE CellAt(16128 + i)
  BY <1>3 DEF CellAt, Put
<1>5. Copied(i)' = IF IsPalette(address) /\ CopyIndex(address) = i THEN val ELSE Copied(i)
  BY <1>3 DEF Copied, Put
<1>6. IsPalette(address) /\ CopyIndex(address) = i <=> Unmirrored(address) = 16128 + i
  BY CellsOfAddress DEF Colours
<1> QED
  BY <1>4, <1>5, <1>6

LEMMA ColoursAgree ==
    PaletteCopyCoherent <=> \A i \in Colours : Copied(i) = CellAt(16128 + i)
<1>1. 0 \in Bus
  BY BusBounds
<1>2. \A i \in Colours : Unmirrored(16128 + i) = 16128 + i
  BY <1>1, CellsOfAddress DEF Colours
<1> QED
  BY <1>2 DEF PaletteCopyCoherent, Colours, Copied

(***************************************************************************)
(* Through whichever mirror the program writes the palette, in whatever    *)
(* order and wherever the pointer of $2007 has wandered to, what a pixel   *)
(* is coloured with is what the program would read back.                   *)
(***************************************************************************)
THEOREM PalettesAgree == Spec => []PaletteCopyCoherent
<1> DEFINE PaletteInv == TypeInv /\ \A i \in Colours : Copied(i) = CellAt(16128 + i)
<1>1. Init => PaletteInv
  BY TypeInvInit DEF Init, RegsInit, Copied, CellAt
<1>2. PaletteInv /\ [Next]_vars => PaletteInv'
  <2> SUFFICES ASSUME PaletteInv, [Next]_vars
               PROVE  \A i \in Colours : Copied(i)' = CellAt(16128 + i)'
    BY TypeInvStep
  <2>1. CASE UNCHANGED <<vram, m_palette_copy>>
    BY <2>1 DEF Copied, CellAt
  <2>2. ASSUME NEW val \in Values, DataWrite(val)
        PROVE  \A i \in Colours : Copied(i)' = CellAt(16128 + i)'
    BY <2>2, WritesBothPalettes DEF TypeInv, TypeOK, RegsTypeOK
  <2> QED
    BY <2>1, <2>2, OnlyDataWrites
<1>3. PaletteInv => PaletteCopyCoherent
  BY ColoursAgree
<1> QED
  BY <1>1, <1>2, <1>3, PTL DEF Spec

-----------------------------------------------------------------------------
(***************************************************************************)
(* What the program counts on.                                             *)
(***************************************************************************)
(* What it does not learn or forget, it still counts on. *)
LEMMA KnowsIs ==
    ASSUME ProgramTyped, NEW changes, Knows(changes)
    PROVE  /\ DOMAIN program' = ProgramFields
           /\ \A f \in ProgramFields :
                 program'[f] = IF f \in DOMAIN changes THEN changes[f] ELSE program[f]
BY DEF ProgramTyped, Knows

(* Nothing the program knows is touched, or it has only forgotten the pointer. *)
LEMMA ReadsUndisturbed ==
    ASSUME ReadInv, DOMAIN program' = ProgramFields,
           program'.second = program.second, program'.high = program.high,
           program'.source = program.source,
           program'.pointer \in {program.pointer, Unknown},
           UNCHANGED <<m_t, m_w, m_read_buffer, vram>>,
           program'.pointer # Unknown => m_v' = m_v
    PROVE  ReadInv'
<1>1. ProgramTyped'
  BY DEF ReadInv, ProgramTyped
<1>2. ToggleKnown'
  BY DEF ReadInv, ToggleKnown
<1>3. PointerKnown'
  BY DEF ReadInv, PointerKnown
<1>4. BufferKnown'
  BY DEF ReadInv, BufferKnown, CellAt
<1> QED
  BY <1>1, <1>2, <1>3, <1>4 DEF ReadInv

LEMMA ReadsInit == Init => ReadInv
BY DEF Init, RegsInit, ReadInv, ProgramTyped, ToggleKnown, PointerKnown, BufferKnown,
       ProgramFields, Unknown

(* The PPU moves m_v under the program, which then forgets the pointer. *)
LEMMA ReadsDuringPpuStep ==
    ASSUME TypeInv, ReadInv, PpuStep
    PROVE  ReadInv'
<1>1. UNCHANGED <<m_t, m_w, m_read_buffer, vram>>
  BY StepsLeaveRegisters DEF untouched, memory
<1>2. CASE UNCHANGED <<m_v, program>>
  BY <1>1, <1>2, ReadsUndisturbed DEF ReadInv, ProgramTyped
<1>3. CASE Forgets
  <2>1. CASE m_v' = m_v
    <3>1. Knows(<<>>)
      BY <1>3, <2>1 DEF Forgets
    <3>2. \A f \in ProgramFields : f \notin DOMAIN <<>>
      OBVIOUS
    <3>3. DOMAIN program' = ProgramFields /\ \A f \in ProgramFields : program'[f] = program[f]
      BY <3>1, <3>2, KnowsIs DEF ReadInv
    <3> QED
      BY <1>1, <2>1, <3>3, ReadsUndisturbed DEF ProgramFields
  <2>2. CASE m_v' # m_v
    <3>1. Knows([pointer |-> Unknown])
      BY <1>3, <2>2 DEF Forgets
    <3>2. /\ DOMAIN program' = ProgramFields
          /\ program'.pointer = Unknown /\ program'.second = program.second
          /\ program'.high = program.high /\ program'.source = program.source
      BY <3>1, KnowsIs DEF ReadInv, ProgramFields
    <3> QED
      BY <1>1, <3>2, ReadsUndisturbed
  <2> QED
    BY <2>1, <2>2
<1> QED
  BY <1>2, <1>3
  DEF PpuStep, LineBegins, FetchAttribute, NextTile, LastTile, PrefetchSprites, NextLineTile,
      LastFetch, EndLine, IdleLine, LineEnds

LEMMA ReadsAfterStatus ==
    ASSUME ReadInv, StatusRead
    PROVE  ReadInv'
<1>1. /\ DOMAIN program' = ProgramFields
      /\ program'.second = 0 /\ program'.high = Unknown
      /\ program'.pointer = program.pointer /\ program'.source = program.source
  BY KnowsIs DEF ReadInv, StatusRead, ProgramFields
<1>2. m_w' = FALSE /\ UNCHANGED <<m_v, m_t, m_read_buffer, vram>>
  BY DEF StatusRead, memory
<1>3. ProgramTyped'
  BY <1>1 DEF ReadInv, ProgramTyped
<1>4. ToggleKnown'
  BY <1>1, <1>2 DEF ToggleKnown, Unknown
<1>5. PointerKnown' /\ BufferKnown'
  BY <1>1, <1>2 DEF ReadInv, PointerKnown, BufferKnown, CellAt
<1> QED
  BY <1>3, <1>4, <1>5 DEF ReadInv

LEMMA ReadsAfterCtrl ==
    ASSUME ReadInv, NEW val, CtrlWrite(val)
    PROVE  ReadInv'
<1>1. /\ DOMAIN program' = ProgramFields
      /\ program'.second = program.second /\ program'.high = Unknown
      /\ program'.pointer = program.pointer /\ program'.source = program.source
  BY KnowsIs DEF ReadInv, CtrlWrite, ProgramFields
<1>2. UNCHANGED <<m_v, m_w, m_read_buffer, vram>>
  BY DEF CtrlWrite, memory
<1>3. ProgramTyped'
  BY <1>1 DEF ReadInv, ProgramTyped
<1>4. ToggleKnown'
  BY <1>1, <1>2 DEF ReadInv, ToggleKnown
<1>5. PointerKnown' /\ BufferKnown'
  BY <1>1, <1>2 DEF ReadInv, PointerKnown, BufferKnown, CellAt
<1> QED
  BY <1>3, <1>4, <1>5 DEF ReadInv

(* A write of $2005 moves the toggle on, and whatever was half an address is lost. *)
LEMMA ReadsAfterScroll ==
    ASSUME ReadInv, m_w \in BOOLEAN, NEW val, ScrollWrite(val)
    PROVE  ReadInv'
<1>1. m_w' = ~m_w /\ UNCHANGED <<m_v, m_read_buffer, vram>>
  BY DEF ScrollWrite, memory
<1>2. program.second \in {0, 1, Unknown} /\ Unknown \notin {0, 1}
  BY DEF ReadInv, ProgramTyped, Unknown
<1>3. /\ DOMAIN program' = ProgramFields
      /\ program'.pointer = program.pointer /\ program'.source = program.source
      /\ program.second = 0 => program'.second = 1 /\ program'.high = Unknown
      /\ program.second = 1 => program'.second = 0 /\ program'.high = Unknown
      /\ program.second = Unknown => program'.second = Unknown /\ program'.high = program.high
  <2>1. CASE program.second = 0
    <3>1. Knows([second |-> 1, high |-> Unknown, x |-> val])
      BY <2>1 DEF ScrollWrite
    <3> QED
      BY <1>2, <2>1, <3>1, KnowsIs DEF ReadInv, ProgramFields
  <2>2. CASE program.second = 1
    <3>1. Knows([second |-> 0, high |-> Unknown, y |-> val])
      BY <2>2 DEF ScrollWrite
    <3> QED
      BY <1>2, <2>2, <3>1, KnowsIs DEF ReadInv, ProgramFields
  <2>3. CASE program.second = Unknown
    <3>1. Knows([x |-> Unknown, y |-> Unknown])
      BY <1>2, <2>3 DEF ScrollWrite
    <3> QED
      BY <1>2, <2>3, <3>1, KnowsIs DEF ReadInv, ProgramFields
  <2> QED
    BY <1>2, <2>1, <2>2, <2>3
<1>4. ProgramTyped'
  BY <1>2, <1>3 DEF ReadInv, ProgramTyped
<1>5. ToggleKnown'
  <2>1. CASE program.second = 0
    <3>1. ~m_w
      BY <1>2, <2>1 DEF ReadInv, ToggleKnown
    <3>2. m_w'
      BY <1>1, <3>1
    <3> QED
      BY <1>3, <2>1, <3>2 DEF ToggleKnown
  <2>2. CASE program.second = 1
    <3>1. m_w
      BY <1>2, <2>2 DEF ReadInv, ToggleKnown
    <3>2. ~m_w'
      BY <1>1, <3>1
    <3> QED
      BY <1>2, <1>3, <2>2, <3>2 DEF ToggleKnown
  <2>3. CASE program.second = Unknown
    <3>1. program'.second = Unknown /\ program'.high = Unknown
      BY <1>2, <1>3, <2>3 DEF ReadInv, ToggleKnown
    <3> QED
      BY <3>1 DEF ToggleKnown
  <2> QED
    BY <1>2, <2>1, <2>2, <2>3
<1>6. PointerKnown' /\ BufferKnown'
  BY <1>1, <1>3 DEF ReadInv, PointerKnown, BufferKnown, CellAt
<1> QED
  BY <1>4, <1>5, <1>6 DEF ReadInv

(* Two writes of $2006: the halves of the address, of 6 bits and of 8. *)
LEMMA AddressFromHalves ==
    ASSUME NEW t \in Word16, NEW val \in Byte
    PROVE  /\ val % 64 \in 0..63
           /\ ((t % 256) + (256 * (val % 64))) \div 256 = val % 64
<1>1. val % 64 \in 0..63
  BY DEF Byte
<1>2. ((t % 256) + (256 * (val % 64))) \div 256 = val % 64
  BY WordIsInt DEF Byte
<1> QED
  BY <1>1, <1>2

LEMMA AddressOfHalves ==
    ASSUME NEW high \in 0..63, NEW val \in Byte
    PROVE  /\ (256 * high) + val \in Bus
           /\ ((256 * high) + val) % 16384 = (256 * high) + val
<1>1. (256 * high) + val >= 0 /\ (256 * high) + val <= 16383 /\ (256 * high) + val \in Int
  BY DEF Byte
<1> QED
  BY <1>1, BusBounds

LEMMA ReadsAfterAddr ==
    ASSUME ReadInv, m_w \in BOOLEAN, m_t \in Word16, NEW val \in Byte, AddrWrite(val)
    PROVE  ReadInv'
<1>1. /\ m_w' = ~m_w /\ UNCHANGED <<m_read_buffer, vram>>
      /\ m_w => /\ m_t' = (256 * (m_t \div 256)) + val /\ m_v' = (256 * (m_t \div 256)) + val
      /\ ~m_w => m_t' = (m_t % 256) + (256 * (val % 64)) /\ UNCHANGED m_v
  BY DEF AddrWrite, memory
<1>2. /\ program.second \in {0, 1, Unknown} /\ Unknown \notin {0, 1}
      /\ program.high \in (0..63) \cup {Unknown} /\ Unknown \notin 0..63
  BY DEF ReadInv, ProgramTyped, Unknown
<1>3. /\ DOMAIN program' = ProgramFields
      /\ program'.source = program.source
      /\ program'.second = Toggled
      /\ program'.high = IF program.second = 0 THEN val % 64 ELSE Unknown
      /\ program'.pointer = IF program.second = 0 THEN program.pointer
                            ELSE IF program.second = 1 /\ program.high # Unknown
                            THEN (256 * program.high) + val ELSE Unknown
  BY KnowsIs DEF ReadInv, AddrWrite, ProgramFields
<1>4. BufferKnown'
  BY <1>1, <1>3 DEF ReadInv, BufferKnown, CellAt
<1>5. CASE program.second = 0
  <2>1. ~m_w
    BY <1>2, <1>5 DEF ReadInv, ToggleKnown
  <2>2. /\ program'.second = 1 /\ program'.high = val % 64 /\ val % 64 \in 0..63
        /\ program'.pointer = program.pointer
    BY <1>2, <1>3, <1>5, AddressFromHalves DEF Toggled
  <2>3. ProgramTyped'
    BY <1>3, <2>2 DEF ReadInv, ProgramTyped
  <2>4. m_t' \div 256 = val % 64
    BY <1>1, <2>1, AddressFromHalves
  <2>5. ToggleKnown'
    BY <1>1, <2>1, <2>2, <2>4 DEF ToggleKnown
  <2>6. PointerKnown'
    BY <1>1, <2>1, <2>2 DEF ReadInv, PointerKnown
  <2> QED
    BY <1>4, <2>3, <2>5, <2>6 DEF ReadInv
<1>6. CASE program.second = 1
  <2>1. m_w
    BY <1>2, <1>6 DEF ReadInv, ToggleKnown
  <2>2. program'.second = 0 /\ program'.high = Unknown
    BY <1>2, <1>3, <1>6 DEF Toggled
  <2>3. /\ program'.pointer \in Bus \cup {Unknown}
        /\ program'.pointer # Unknown => m_v' % 16384 = program'.pointer
    <3>1. CASE program.high = Unknown
      BY <1>2, <1>3, <1>6, <3>1
    <3>2. CASE program.high # Unknown
      <4>1. PICK high \in 0..63 : high = program.high
        BY <1>2, <3>2
      <4>2. m_t \div 256 = high
        BY <3>2, <4>1 DEF ReadInv, ToggleKnown
      <4>3. program'.pointer = (256 * high) + val
        BY <1>2, <1>3, <1>6, <3>2, <4>1
      <4>4. m_v' = (256 * high) + val
        BY <1>1, <2>1, <4>2
      <4> QED
        BY <4>3, <4>4, AddressOfHalves
    <3> QED
      BY <3>1, <3>2
  <2>4. ProgramTyped'
    BY <1>3, <2>2, <2>3 DEF ReadInv, ProgramTyped
  <2>5. ToggleKnown'
    <3>1. ~m_w'
      BY <1>1, <2>1
    <3> QED
      BY <2>2, <3>1 DEF ToggleKnown
  <2>6. PointerKnown'
    BY <2>3 DEF PointerKnown
  <2> QED
    BY <1>4, <2>4, <2>5, <2>6 DEF ReadInv
<1>7. CASE program.second = Unknown
  <2>1. program'.second = Unknown /\ program'.high = Unknown /\ program'.pointer = Unknown
    BY <1>2, <1>3, <1>7 DEF Toggled
  <2> QED
    BY <1>3, <1>4, <2>1 DEF ReadInv, ProgramTyped, ToggleKnown, PointerKnown
<1> QED
  BY <1>2, <1>5, <1>6, <1>7

(* $2007 moves m_v and what the program counts on by the same step. *)
LEMMA PointerKept ==
    ASSUME ReadInv, m_v \in Word16, m_v' = (m_v + Increment) % 65536,
           program'.pointer = PointerMoves
    PROVE  PointerKnown' /\ program'.pointer \in Bus \cup {Unknown}
<1>1. CASE program.pointer = Unknown
  <2>1. program'.pointer = Unknown
    BY <1>1 DEF PointerMoves
  <2> QED
    BY <2>1 DEF PointerKnown
<1>2. CASE program.pointer # Unknown
  <2>1. program.pointer = m_v % 16384
    BY <1>2 DEF ReadInv, PointerKnown
  <2>2. program'.pointer = (program.pointer + Increment) % 16384
    BY <1>2 DEF PointerMoves
  <2>3. program'.pointer = ((m_v % 16384) + Increment) % 16384
    BY <2>1, <2>2
  <2>4. program'.pointer = m_v' % 16384 /\ m_v' \in Word16
    BY <2>3, PointerAdvances
  <2>5. m_v' % 16384 \in Bus
    BY <2>4, BusAddress
  <2> QED
    BY <2>4, <2>5 DEF PointerKnown
<1> QED
  BY <1>1, <1>2

LEMMA ReadsAfterDataWrite ==
    ASSUME ReadInv, m_v \in Word16, NEW val, DataWrite(val)
    PROVE  ReadInv'
<1> DEFINE cell == Unmirrored(m_v % 16384)
<1>1. /\ vram' = Put(vram, cell, val) /\ UNCHANGED <<m_t, m_w, m_read_buffer>>
      /\ m_v' = (m_v + Increment) % 65536
  BY DEF DataWrite
<1>2. /\ DOMAIN program' = ProgramFields
      /\ program'.second = program.second /\ program'.high = program.high
      /\ program'.pointer = PointerMoves
      /\ program'.source = IF program.source = cell THEN Unknown ELSE program.source
  BY KnowsIs DEF ReadInv, DataWrite, ProgramFields
<1> HIDE DEF cell
<1>3. PointerKnown' /\ program'.pointer \in Bus \cup {Unknown}
  BY <1>1, <1>2, PointerKept
<1>4. ProgramTyped'
  BY <1>2, <1>3 DEF ReadInv, ProgramTyped
<1>5. ToggleKnown'
  BY <1>1, <1>2 DEF ReadInv, ToggleKnown
<1>6. BufferKnown'
  <2> SUFFICES ASSUME program'.source # Unknown
               PROVE  m_read_buffer' = CellAt(program.source)' /\ program'.source = program.source
    BY DEF BufferKnown, CellAt
  <2>1. program.source # cell /\ program.source # Unknown /\ program'.source = program.source
    BY <1>2
  <2>2. CellAt(program.source)' = CellAt(program.source)
    BY <1>1, <2>1 DEF CellAt, Put
  <2> QED
    BY <1>1, <2>1, <2>2 DEF ReadInv, BufferKnown
<1> QED
  BY <1>3, <1>4, <1>5, <1>6 DEF ReadInv

(* What fills the buffer is the memory under the address, never the palette. *)
LEMMA BufferedIsMemory ==
    ASSUME NEW address \in Bus
    PROVE  LET source == IF address >= 12288 THEN address - 4096 ELSE address
           IN Buffered(address) = source /\ source \in Bus
BY BusIsInt, BusBounds DEF Buffered, IsPalette, Unmirrored

LEMMA ReadsAfterDataRead ==
    ASSUME ReadInv, m_v \in Word16, DataRead
    PROVE  ReadInv'
<1>1. m_v % 16384 \in Bus
  BY BusAddress
<1>2. PICK address \in Bus : address = m_v % 16384
  BY <1>1
<1> DEFINE source == IF address >= 12288 THEN address - 4096 ELSE address
<1>3. source = Buffered(address) /\ source \in Bus
  BY BufferedIsMemory
<1>4. /\ m_read_buffer' = CellAt(Buffered(address)) /\ UNCHANGED <<m_t, m_w, vram>>
      /\ m_v' = (m_v + Increment) % 65536
  BY <1>2 DEF DataRead
<1>5. /\ DOMAIN program' = ProgramFields
      /\ program'.second = program.second /\ program'.high = program.high
      /\ program'.pointer = PointerMoves /\ program'.source = source
  BY <1>2, KnowsIs DEF ReadInv, DataRead, ProgramFields
<1> HIDE DEF source
<1>6. PointerKnown' /\ program'.pointer \in Bus \cup {Unknown}
  BY <1>4, <1>5, PointerKept
<1>7. ProgramTyped'
  BY <1>3, <1>5, <1>6 DEF ReadInv, ProgramTyped
<1>8. ToggleKnown'
  BY <1>4, <1>5 DEF ReadInv, ToggleKnown
<1>9. BufferKnown'
  BY <1>3, <1>4, <1>5 DEF BufferKnown, CellAt
<1> QED
  BY <1>6, <1>7, <1>8, <1>9 DEF ReadInv

LEMMA ReadsAfterAccess ==
    ASSUME TypeInv, ReadInv, CpuAccess
    PROVE  ReadInv'
<1>1. m_v \in Word16 /\ m_t \in Word16 /\ m_w \in BOOLEAN /\ case \in Cases
  BY DEF TypeInv, TypeOK, RegsTypeOK
<1>2. ASSUME UNCHANGED <<scroll, memory, program>> PROVE ReadInv'
  <2>1. DOMAIN program' = ProgramFields
    BY <1>2 DEF ReadInv, ProgramTyped
  <2> QED
    BY <1>2, <2>1, ReadsUndisturbed DEF scroll, memory
<1>3. ASSUME NEW val, AddrWrite(val) PROVE ReadInv'
  <2>1. val \in Byte
    BY <1>1, <1>3, WritesTyped DEF AddrWrite
  <2> QED
    BY <1>1, <1>3, <2>1, ReadsAfterAddr
<1>4. ASSUME NEW val
      PROVE  MaskWrite(val) \/ InvalidWrite(val) \/ OamAddrWrite(val) \/ OamDataWrite(val)
                => UNCHANGED <<scroll, memory, program>>
  BY DEF MaskWrite, InvalidWrite, OamAddrWrite, OamDataWrite
<1>5. OamDataRead \/ OamDma \/ ClearDecay => UNCHANGED <<scroll, memory, program>>
  BY DEF OamDataRead, OamDma, ClearDecay
<1> QED
  BY <1>1, <1>2, <1>3, <1>4, <1>5, ReadsAfterStatus, ReadsAfterCtrl, ReadsAfterScroll,
     ReadsAfterDataWrite, ReadsAfterDataRead DEF CpuAccess

LEMMA ReadsStep == TypeInv /\ ReadInv /\ [Next]_vars => ReadInv'
<1> SUFFICES ASSUME TypeInv, ReadInv, [Next]_vars PROVE ReadInv'
  OBVIOUS
<1>1. CASE UNCHANGED vars
  <2>1. UNCHANGED <<m_v, m_t, m_w, m_read_buffer, vram, program>>
    BY <1>1 DEF vars, regs, scroll, memory
  <2>2. DOMAIN program' = ProgramFields
    BY <2>1 DEF ReadInv, ProgramTyped
  <2> QED
    BY <2>1, <2>2, ReadsUndisturbed
<1> QED
  BY <1>1, ReadsDuringPpuStep, ReadsAfterAccess DEF Next

(***************************************************************************)
(* A program that sets the address with $2006 by the rules is where it     *)
(* thinks it is, and what $2007 answers is the memory under the address of *)
(* the read before: with any number of other uses of registers in between, *)
(* and however the PPU moves m_v while it renders.                         *)
(***************************************************************************)
THEOREM ReadsLag == Spec => []ReadsReturnMemory
<1>1. ReadInv => ReadsReturnMemory
  BY DEF ReadInv, PointerKnown, BufferKnown, ReadsReturnMemory, DataValue
<1> QED
  BY TypeInvInit, TypeInvStep, ReadsInit, ReadsStep, <1>1, PTL DEF Spec

-----------------------------------------------------------------------------
(***************************************************************************)
(* The picture.                                                            *)
(***************************************************************************)
(* The scrolling registers hold what a program p has set. *)
SetBy(p) ==
    /\ p.x # Unknown => p.x \in Byte /\ CoarseX(m_t) = p.x \div 8 /\ m_x = p.x % 8
    /\ p.y # Unknown => p.y \in Byte /\ CoarseY(m_t) = p.y \div 8 /\ FineY(m_t) = p.y % 8
    /\ p.nt # Unknown => p.nt \in 0..3 /\ NameTable(m_t) = p.nt

(* While a frame is drawn that the program leaves alone, they are what they were. *)
Drawing == IsRender \/ (IsPreRender /\ place # "idle")

ScrollInv == SetBy(program) /\ (calm /\ Drawing => rendering_enabled /\ SetBy(origin.program))

(* Where m_v is: at a row of the line, and at a column, counted from the left of
   the two nametables. *)
Along(p, v, line) ==
    /\ FineY(v) = (p.y + line) % 8
    /\ CoarseY(v) = RowAt(p.y, line)
    /\ NameTable(v) \div 2 = ((p.nt \div 2) + RowsFlipped(p.y, line)) % 2

Across(v, column) == CoarseX(v) = column % 32 /\ NameTable(v) % 2 = (column \div 32) % 2

At(p, v, line, column) == Along(p, v, line) /\ Across(v, column)

(* Where the picture of the frame is, and bit 15 of m_v, which no scrolling changes. *)
Aim == [x |-> origin.program.x, y |-> origin.program.y, nt |-> origin.program.nt,
        top |-> Top(m_v)]

(* The column of the k-th tile of a line, and that tile as it is fetched. *)
Column(p, k) == (32 * (p.nt % 2)) + (p.x \div 8) + k
TileOf(p, line, k) == Raised(TileAt(p, line, Column(p, k)), p.top)

(* The line whose first tiles are fetched at the end of this one. *)
NextLine == IF IsPreRender THEN 0 ELSE m_current_line + 1

(* What has been fetched of a tile: before its attributes, or all of it. *)
PartOf(t, at) == IF at = "attribute" THEN [t EXCEPT !.attr = 0] ELSE t

(* A calm frame of a program whose scroll position is known is being drawn. *)
Known == calm /\ ScrollKnown /\ Drawing

(* On the line: one tile is waiting, the next is fetched, m_v is at that one. *)
OnLine ==
    IsRender /\ place \in {"attribute", "next"} /\ tile < Tiles =>
        /\ At(Aim, m_v, m_current_line, Column(Aim, tile + 2))
        /\ shift[1] = TileOf(Aim, m_current_line, tile + 1)
        /\ fetched = PartOf(TileOf(Aim, m_current_line, tile + 2), place)

(* While the sprites are fetched m_v is back at the left, one line down. *)
AtSprites ==
    place = "sprites" =>
        /\ Across(m_v, Column(Aim, 0))
        /\ IsRender => Along(Aim, m_v, NextLine)

(* The first two tiles of the next line. *)
OnNextLine ==
    place \in {"attribute", "next"} /\ tile >= Tiles =>
        /\ At(Aim, m_v, NextLine, Column(Aim, tile - Tiles))
        /\ fetched = PartOf(TileOf(Aim, NextLine, tile - Tiles), place)
        /\ tile > Tiles => shift[1] = TileOf(Aim, NextLine, 0)

(* Between two lines both are there, and m_v is at the third. *)
Prefetched(line) ==
    /\ At(Aim, m_v, line, Column(Aim, 2))
    /\ shift = <<TileOf(Aim, line, 0), TileOf(Aim, line, 1)>>

BetweenLines ==
    /\ place = "unused" => Prefetched(NextLine)
    /\ place = "idle" => Prefetched(m_current_line)

(* What was drawn last are the two tiles the eight pixels lie on. *)
Drawn ==
    IsRender /\ place # "idle" =>
        LET k == Earlier(tile, Tiles - 1)
        IN drawn = [line |-> m_current_line, column |-> k, x |-> m_x,
                    pair |-> <<TileOf(Aim, m_current_line, k),
                               TileOf(Aim, m_current_line, k + 1)>>]

FollowsPicture == OnLine /\ AtSprites /\ OnNextLine /\ BetweenLines /\ Drawn
PictureInv == Known => FollowsPicture

(* What draws a frame of a known program p. *)
DrawsFrameOf(p) ==
    /\ p = Aim
    /\ p.x \in Byte /\ p.y \in Byte /\ p.nt \in 0..3
    /\ CoarseX(m_t) = p.x \div 8 /\ m_x = p.x % 8
    /\ CoarseY(m_t) = p.y \div 8 /\ FineY(m_t) = p.y % 8
    /\ NameTable(m_t) = p.nt
    /\ rendering_enabled /\ Drawing
    /\ m_v \in Word16 /\ m_t \in Word16 /\ Top(m_v) = p.top
    /\ tile \in Nat /\ m_current_line \in 0..PreRenderLine

-----------------------------------------------------------------------------
(***************************************************************************)
(* The parts of m_v and m_t, one by one, as scrolling moves them.          *)
(***************************************************************************)
(* The parts an address is put together from are those it has. *)
HasParts(v, top, fine, nt, cy, cx) ==
    /\ Top(v) = top /\ FineY(v) = fine /\ NameTable(v) = nt
    /\ CoarseY(v) = cy /\ CoarseX(v) = cx

(* What is put together from parts in their ranges has those parts. *)
LEMMA PartsOfFields ==
    ASSUME NEW top \in 0..1, NEW fine \in 0..7, NEW nt \in 0..3, NEW cy \in 0..31,
           NEW cx \in 0..31
    PROVE  HasParts(Fields(top, fine, nt, cy, cx), top, fine, nt, cy, cx)
<1> DEFINE v == Fields(top, fine, nt, cy, cx)
           row == (32 * cy) + cx
           page == (1024 * nt) + row
           low == (4096 * fine) + page
           q1 == (8 * top) + fine
           q2 == (4 * q1) + nt
           q3 == (32 * q2) + cy
<1>1. row \in 0..1023
  OBVIOUS
<1>2. page \in 0..4095
  <2> HIDE DEF row
  <2> QED
    BY <1>1
<1>3. low \in Int /\ 0 <= low /\ low <= 32767
  <2> HIDE DEF page
  <2> QED
    BY ONLY <1>2, fine \in 0..7
<1>4. q1 \in Nat /\ q1 % 8 = fine
  OBVIOUS
<1>5. q2 \in Nat /\ q2 % 4 = nt
  <2> HIDE DEF q1
  <2> QED
    BY <1>4
<1>6. q3 \in Nat /\ q3 % 32 = cy
  <2> HIDE DEF q2
  <2> QED
    BY <1>5
<1>7. top \in Nat /\ cx \in 0..31
  OBVIOUS
<1> HIDE DEF row
<1>8. v = (32768 * top) + low
  BY DEF Fields, row
<1>9. v = (4096 * q1) + page
  BY DEF Fields, row
<1>10. v = (1024 * q2) + row
  BY DEF Fields, row
<1>11. v = (32 * q3) + cx
  BY DEF Fields
<1> HIDE DEF v, page, low, q1, q2, q3
<1>12. v \div 32768 = top
  BY ONLY <1>3, <1>7, <1>8
<1>13. v \div 4096 = q1
  BY ONLY <1>2, <1>4, <1>9
<1>14. v \div 1024 = q2
  BY ONLY <1>1, <1>5, <1>10
<1>15. v \div 32 = q3 /\ v % 32 = cx
  BY ONLY <1>6, <1>7, <1>11
<1>16. /\ Top(v) = top /\ FineY(v) = fine /\ NameTable(v) = nt
       /\ CoarseY(v) = cy /\ CoarseX(v) = cx
  BY <1>4, <1>5, <1>6, <1>12, <1>13, <1>14, <1>15 DEF Top, FineY, NameTable, CoarseY, CoarseX
<1> QED
  BY <1>16 DEF v, HasParts

(* And an address is put together from its own. *)
LEMMA FieldsOfParts ==
    ASSUME NEW v \in Word16
    PROVE  v = Fields(Top(v), FineY(v), NameTable(v), CoarseY(v), CoarseX(v))
<1>1. v \in Int /\ 0 <= v /\ v <= 65535
  BY WordIsInt
<1> QED
  BY <1>1, SMTT(60) DEF Fields, Top, FineY, NameTable, CoarseY, CoarseX

(* The parts of an address before and after it moves one tile to the right. *)
LEMMA MovesRight ==
    ASSUME NEW v \in Word16, NEW w, w = coarse_x_increment(v)
    PROVE  /\ Top(w) = Top(v) /\ FineY(w) = FineY(v) /\ CoarseY(w) = CoarseY(v)
           /\ NameTable(w) \div 2 = NameTable(v) \div 2
           /\ CoarseX(v) # 31 => CoarseX(w) = CoarseX(v) + 1 /\ NameTable(w) = NameTable(v)
           /\ CoarseX(v) = 31 => CoarseX(w) = 0 /\ NameTable(w) % 2 = 1 - (NameTable(v) % 2)
<1>1. PICK top \in 0..1, fine \in 0..7, nt \in 0..3, cy \in 0..31, cx \in 0..31 :
          /\ top = Top(v) /\ fine = FineY(v) /\ nt = NameTable(v)
          /\ cy = CoarseY(v) /\ cx = CoarseX(v)
  BY PartsOfAddress
<1>2. v = Fields(top, fine, nt, cy, cx)
  BY <1>1, FieldsOfParts
<1>3. CASE cx # 31
  <2>1. w = v + 1
    BY <1>1, <1>3 DEF coarse_x_increment
  <2>2. PICK c \in 0..31 : c = cx + 1
    BY <1>3
  <2>3. w = Fields(top, fine, nt, cy, c)
    BY <1>2, <2>1, <2>2 DEF Fields
  <2>4. HasParts(w, top, fine, nt, cy, c)
    BY <2>3, PartsOfFields
  <2> QED
    BY <1>1, <1>3, <2>2, <2>4 DEF HasParts
<1>4. CASE cx = 31
  <2>1. BitOf(v, 10) = nt % 2
    <3>1. 2^10 = 1024
      OBVIOUS
    <3>2. nt = (v \div 1024) % 4 /\ v \in Int /\ 0 <= v
      BY <1>1, WordIsInt DEF NameTable
    <3> QED
      BY <3>1, <3>2 DEF BitOf
  <2> DEFINE m == IF nt % 2 = 0 THEN nt + 1 ELSE nt - 1
  <2>2. m \in 0..3 /\ m \div 2 = nt \div 2 /\ m % 2 = 1 - (nt % 2)
    OBVIOUS
  <2>3. w = IF nt % 2 = 0 THEN v - 31 + 1024 ELSE v - 31 - 1024
    BY <1>1, <1>4, <2>1 DEF coarse_x_increment
  <2>4. v \in Int /\ 1024 * (nt + 1) = (1024 * nt) + 1024 /\ 1024 * (nt - 1) = (1024 * nt) - 1024
    BY WordIsInt
  <2>5. w = Fields(top, fine, m, cy, 0)
    BY <1>2, <1>4, <2>3, <2>4 DEF Fields
  <2> HIDE DEF m
  <2>6. 0 \in 0..31
    OBVIOUS
  <2>7. HasParts(w, top, fine, m, cy, 0)
    BY <2>2, <2>5, <2>6, PartsOfFields
  <2> QED
    BY <1>1, <1>4, <2>2, <2>7 DEF HasParts
<1> QED
  BY <1>3, <1>4

(* And one line down. *)
LEMMA MovesDown ==
    ASSUME NEW v \in Word16, NEW w, w = y_increment(v)
    PROVE  /\ Top(w) = Top(v) /\ CoarseX(w) = CoarseX(v) /\ NameTable(w) % 2 = NameTable(v) % 2
           /\ FineY(v) # 7 => /\ FineY(w) = FineY(v) + 1 /\ CoarseY(w) = CoarseY(v)
                              /\ NameTable(w) = NameTable(v)
           /\ FineY(v) = 7 =>
                 /\ FineY(w) = 0
                 /\ CoarseY(v) = 29 => /\ CoarseY(w) = 0
                                       /\ NameTable(w) \div 2 = 1 - (NameTable(v) \div 2)
                 /\ CoarseY(v) # 29 => /\ CoarseY(w) = (CoarseY(v) + 1) % 32
                                       /\ NameTable(w) = NameTable(v)
<1>1. PICK top \in 0..1, fine \in 0..7, nt \in 0..3, cy \in 0..31, cx \in 0..31 :
          /\ top = Top(v) /\ fine = FineY(v) /\ nt = NameTable(v)
          /\ cy = CoarseY(v) /\ cx = CoarseX(v)
  BY PartsOfAddress
<1>2. v = Fields(top, fine, nt, cy, cx)
  BY <1>1, FieldsOfParts
<1>3. CASE fine # 7
  <2>1. w = v + 4096
    BY <1>1, <1>3 DEF y_increment
  <2>2. PICK f \in 0..7 : f = fine + 1
    BY <1>3
  <2>3. w = Fields(top, f, nt, cy, cx)
    BY <1>2, <2>1, <2>2 DEF Fields
  <2>4. HasParts(w, top, f, nt, cy, cx)
    BY <2>3, PartsOfFields
  <2> QED
    BY <1>1, <1>3, <2>2, <2>4 DEF HasParts
<1>4. 0 \in 0..7 /\ 0 \in 0..31
  OBVIOUS
<1>5. CASE fine = 7 /\ cy = 29
  <2> DEFINE m == (nt + 2) % 4
  <2>1. m \in 0..3 /\ m % 2 = nt % 2 /\ m \div 2 = 1 - (nt \div 2)
    OBVIOUS
  <2>2. w = Fields(top, 0, m, 0, cx)
    BY <1>1, <1>5 DEF y_increment
  <2> HIDE DEF m
  <2>3. HasParts(w, top, 0, m, 0, cx)
    BY <1>4, <2>1, <2>2, PartsOfFields
  <2> QED
    BY <1>1, <1>5, <2>1, <2>3 DEF HasParts
<1>6. CASE fine = 7 /\ cy # 29
  <2> DEFINE m == (cy + 1) % 32
  <2>1. m \in 0..31
    OBVIOUS
  <2>2. w = Fields(top, 0, nt, m, cx)
    BY <1>1, <1>6 DEF y_increment
  <2> HIDE DEF m
  <2>3. HasParts(w, top, 0, nt, m, cx)
    BY <1>4, <2>1, <2>2, PartsOfFields
  <2> QED
    BY <1>1, <1>6, <2>3 DEF m, HasParts
<1> QED
  BY <1>3, <1>5, <1>6

(* What the two copies from m_t take over, and what they leave. *)
LEMMA Copies ==
    ASSUME NEW v \in Word16, m_t \in Word16, NEW across, NEW down,
           across = reset_horizontal_scroll(v), down = reset_vertical_scroll(v)
    PROVE  /\ Top(across) = Top(v) /\ FineY(across) = FineY(v) /\ CoarseY(across) = CoarseY(v)
           /\ NameTable(across) \div 2 = NameTable(v) \div 2
           /\ NameTable(across) % 2 = NameTable(m_t) % 2 /\ CoarseX(across) = CoarseX(m_t)
           /\ Top(down) = Top(v) /\ FineY(down) = FineY(m_t) /\ CoarseY(down) = CoarseY(m_t)
           /\ NameTable(down) \div 2 = NameTable(m_t) \div 2
           /\ NameTable(down) % 2 = NameTable(v) % 2 /\ CoarseX(down) = CoarseX(v)
<1>1. PICK top \in 0..1, fine \in 0..7, nt \in 0..3, cy \in 0..31, cx \in 0..31 :
          /\ top = Top(v) /\ fine = FineY(v) /\ nt = NameTable(v)
          /\ cy = CoarseY(v) /\ cx = CoarseX(v)
  BY PartsOfAddress
<1>2. PICK tfine \in 0..7, tnt \in 0..3, tcy \in 0..31, tcx \in 0..31 :
          /\ tfine = FineY(m_t) /\ tnt = NameTable(m_t)
          /\ tcy = CoarseY(m_t) /\ tcx = CoarseX(m_t)
  BY PartsOfAddress
<1> DEFINE h == (2 * (nt \div 2)) + (tnt % 2)
           d == (2 * (tnt \div 2)) + (nt % 2)
<1>3. /\ h \in 0..3 /\ h \div 2 = nt \div 2 /\ h % 2 = tnt % 2
      /\ d \in 0..3 /\ d \div 2 = tnt \div 2 /\ d % 2 = nt % 2
  OBVIOUS
<1>4. across = Fields(top, fine, h, cy, tcx) /\ down = Fields(top, tfine, d, tcy, cx)
  BY <1>1, <1>2 DEF reset_horizontal_scroll, reset_vertical_scroll
<1> HIDE DEF h, d
<1>5. HasParts(across, top, fine, h, cy, tcx)
  BY <1>3, <1>4, PartsOfFields
<1>6. HasParts(down, top, tfine, d, tcy, cx)
  BY <1>3, <1>4, PartsOfFields
<1> QED
  BY <1>1, <1>2, <1>3, <1>5, <1>6 DEF HasParts

-----------------------------------------------------------------------------
(***************************************************************************)
(* The rows and columns of the picture.                                    *)
(***************************************************************************)
(* The rows that belong at the lines of a frame, from one line to the next. *)
LEMMA FirstRow ==
    ASSUME NEW y \in Byte
    PROVE  (y + 0) % 8 = y % 8 /\ RowAt(y, 0) = y \div 8 /\ RowsFlipped(y, 0) = 0
BY DEF RowAt, RowsFlipped, Byte

LEMMA NextRow ==
    ASSUME NEW y \in Byte, NEW line \in 0..239, NEW below, below = line + 1
    PROVE  /\ (y + line) % 8 \in 0..7
           /\ RowsFlipped(y, line) \in Nat
           /\ (y + line) % 8 # 7 =>
                 /\ (y + below) % 8 = ((y + line) % 8) + 1
                 /\ RowAt(y, below) = RowAt(y, line)
                 /\ RowsFlipped(y, below) = RowsFlipped(y, line)
           /\ (y + line) % 8 = 7 =>
                 /\ (y + below) % 8 = 0
                 /\ RowAt(y, line) = 29 => /\ RowAt(y, below) = 0
                                           /\ RowsFlipped(y, below) = RowsFlipped(y, line) + 1
                 /\ RowAt(y, line) # 29 => /\ RowAt(y, below) = (RowAt(y, line) + 1) % 32
                                           /\ RowsFlipped(y, below) = RowsFlipped(y, line)
<1> DEFINE s == y + line
           down == s \div 8
           next == (y + below) \div 8
<1>1. y \in 0..255 /\ s \in Nat /\ y + below = s + 1 /\ (y >= 240 => s >= 240)
  BY DEF Byte
<1> HIDE DEF s
<1>2. /\ s % 8 \in 0..7 /\ down \in Nat /\ (y >= 240 => down >= 30)
      /\ s % 8 # 7 => (s + 1) % 8 = (s % 8) + 1 /\ next = down
      /\ s % 8 = 7 => (s + 1) % 8 = 0 /\ next = down + 1
  BY <1>1
<1> HIDE DEF down, next
<1>3. /\ RowAt(y, line) =
            IF y < 240 THEN down % 30 ELSE IF down < 32 THEN down ELSE (down - 32) % 30
      /\ RowsFlipped(y, line) =
            IF y < 240 THEN down \div 30 ELSE IF down < 32 THEN 0 ELSE (down - 32) \div 30
  BY DEF RowAt, RowsFlipped, down, s
<1>4. /\ RowAt(y, below) =
            IF y < 240 THEN next % 30 ELSE IF next < 32 THEN next ELSE (next - 32) % 30
      /\ RowsFlipped(y, below) =
            IF y < 240 THEN next \div 30 ELSE IF next < 32 THEN 0 ELSE (next - 32) \div 30
  BY DEF RowAt, RowsFlipped, next
<1>5. ASSUME NEW n \in Nat
      PROVE  /\ n % 30 \in 0..29 /\ n \div 30 \in Nat
             /\ n % 30 = 29 => (n + 1) % 30 = 0 /\ (n + 1) \div 30 = (n \div 30) + 1
             /\ n % 30 # 29 => /\ (n + 1) % 30 = (n % 30) + 1 /\ (n + 1) \div 30 = n \div 30
                               /\ ((n % 30) + 1) % 32 = (n % 30) + 1
  OBVIOUS
<1>6. RowsFlipped(y, line) \in Nat
  BY <1>1, <1>2, <1>3
<1>7. CASE next = down
  BY <1>1, <1>2, <1>3, <1>4, <1>6, <1>7 DEF s
<1>8. CASE next = down + 1 /\ y < 240
  BY <1>1, <1>2, <1>3, <1>4, <1>5, <1>6, <1>8 DEF s
<1>9. CASE next = down + 1 /\ y >= 240 /\ down < 32
  <2>1. down \in {30, 31}
    BY <1>2, <1>9
  <2> QED
    BY <1>1, <1>2, <1>3, <1>4, <1>6, <1>9, <2>1 DEF s
<1>10. CASE next = down + 1 /\ y >= 240 /\ ~(down < 32)
  <2>1. PICK n \in Nat : n = down - 32 /\ next - 32 = n + 1
    BY <1>2, <1>10
  <2>2. ~(y < 240) /\ ~(down < 32) /\ ~(next < 32)
    BY <1>1, <1>2, <1>10
  <2>3. RowAt(y, line) = n % 30 /\ RowsFlipped(y, line) = n \div 30
    BY <1>3, <2>1, <2>2
  <2>4. RowAt(y, below) = (n + 1) % 30 /\ RowsFlipped(y, below) = (n + 1) \div 30
    BY <1>4, <2>1, <2>2
  <2>5. s % 8 = 7 /\ (s + 1) % 8 = 0
    BY <1>2, <1>10
  <2> QED
    BY <1>1, <1>5, <2>3, <2>4, <2>5 DEF s
<1>11. next = down \/ next = down + 1
  BY <1>2
<1> QED
  BY <1>1, <1>2, <1>7, <1>8, <1>9, <1>10, <1>11

(* How m_v stands on the lines and columns as it moves. *)
LEMMA StepsRight ==
    ASSUME NEW v \in Word16, NEW w, w = coarse_x_increment(v), NEW column \in Nat,
           NEW line, NEW p
    PROVE  /\ Top(w) = Top(v)
           /\ Across(v, column) => Across(w, column + 1)
           /\ Along(p, v, line) => Along(p, w, line)
<1>1. /\ Top(w) = Top(v) /\ FineY(w) = FineY(v) /\ CoarseY(w) = CoarseY(v)
      /\ NameTable(w) \div 2 = NameTable(v) \div 2
      /\ CoarseX(v) # 31 => CoarseX(w) = CoarseX(v) + 1 /\ NameTable(w) = NameTable(v)
      /\ CoarseX(v) = 31 => CoarseX(w) = 0 /\ NameTable(w) % 2 = 1 - (NameTable(v) % 2)
  BY MovesRight
<1>2. Along(p, v, line) => Along(p, w, line)
  BY <1>1 DEF Along
<1>3. /\ column % 32 # 31 => (column + 1) % 32 = (column % 32) + 1
                             /\ (column + 1) \div 32 = column \div 32
      /\ column % 32 = 31 => (column + 1) % 32 = 0 /\ (column + 1) \div 32 = (column \div 32) + 1
      /\ column \div 32 \in Nat
  OBVIOUS
<1>4. \A q \in Nat : (q + 1) % 2 = 1 - (q % 2)
  OBVIOUS
<1>5. Across(v, column) => Across(w, column + 1)
  BY <1>1, <1>3, <1>4 DEF Across
<1> QED
  BY <1>1, <1>2, <1>5

(* And down: to the next line, in the same column. *)
LEMMA StepsDown ==
    ASSUME NEW v \in Word16, NEW w, w = y_increment(v), NEW column, NEW line \in 0..239,
           NEW p, p.y \in Byte, p.nt \in 0..3
    PROVE  /\ Top(w) = Top(v)
           /\ Across(v, column) => Across(w, column)
           /\ Along(p, v, line) => Along(p, w, line + 1)
<1> DEFINE y == p.y
           half == p.nt \div 2
           below == line + 1
<1>1. /\ Top(w) = Top(v) /\ CoarseX(w) = CoarseX(v) /\ NameTable(w) % 2 = NameTable(v) % 2
      /\ FineY(v) # 7 => /\ FineY(w) = FineY(v) + 1 /\ CoarseY(w) = CoarseY(v)
                         /\ NameTable(w) = NameTable(v)
      /\ FineY(v) = 7 =>
            /\ FineY(w) = 0
            /\ CoarseY(v) = 29 => /\ CoarseY(w) = 0
                                  /\ NameTable(w) \div 2 = 1 - (NameTable(v) \div 2)
            /\ CoarseY(v) # 29 => /\ CoarseY(w) = (CoarseY(v) + 1) % 32
                                  /\ NameTable(w) = NameTable(v)
  BY MovesDown
<1>2. Across(v, column) => Across(w, column)
  BY <1>1 DEF Across
<1>3. half \in 0..1 /\ y \in Byte
  OBVIOUS
<1>4. ASSUME Along(p, v, line) PROVE Along(p, w, below)
  <2>1. /\ FineY(v) = (y + line) % 8 /\ CoarseY(v) = RowAt(y, line)
        /\ NameTable(v) \div 2 = (half + RowsFlipped(y, line)) % 2
    BY <1>4 DEF Along
  <2> SUFFICES /\ FineY(w) = (y + below) % 8 /\ CoarseY(w) = RowAt(y, below)
               /\ NameTable(w) \div 2 = (half + RowsFlipped(y, below)) % 2
    BY DEF Along
  <2> HIDE DEF y, half, below
  <2>2. /\ (y + line) % 8 \in 0..7
        /\ RowsFlipped(y, line) \in Nat
        /\ (y + line) % 8 # 7 =>
              /\ (y + below) % 8 = ((y + line) % 8) + 1
              /\ RowAt(y, below) = RowAt(y, line)
              /\ RowsFlipped(y, below) = RowsFlipped(y, line)
        /\ (y + line) % 8 = 7 =>
              /\ (y + below) % 8 = 0
              /\ RowAt(y, line) = 29 => /\ RowAt(y, below) = 0
                                        /\ RowsFlipped(y, below) = RowsFlipped(y, line) + 1
              /\ RowAt(y, line) # 29 => /\ RowAt(y, below) = (RowAt(y, line) + 1) % 32
                                        /\ RowsFlipped(y, below) = RowsFlipped(y, line)
    BY <1>3, NextRow DEF below
  <2>3. CASE (y + line) % 8 # 7
    BY <1>1, <2>1, <2>2, <2>3
  <2>4. CASE (y + line) % 8 = 7 /\ RowAt(y, line) # 29
    BY <1>1, <2>1, <2>2, <2>4
  <2>5. CASE (y + line) % 8 = 7 /\ RowAt(y, line) = 29
    <3>1. \A f \in Nat : (half + (f + 1)) % 2 = 1 - ((half + f) % 2)
      BY <1>3
    <3>2. (half + RowsFlipped(y, below)) % 2 = 1 - (NameTable(v) \div 2)
      BY <2>1, <2>2, <2>5, <3>1
    <3> QED
      BY <1>1, <2>1, <2>2, <2>5, <3>2
  <2> QED
    BY <2>3, <2>4, <2>5
<1> QED
  BY <1>1, <1>2, <1>4

(* The part of an address that tells one name from another. *)
LEMMA LowTwelveBits ==
    ASSUME NEW v \in Word16
    PROVE  v % 4096 = (1024 * NameTable(v)) + (32 * CoarseY(v)) + CoarseX(v)
<1>1. v \in Int /\ 0 <= v /\ v <= 65535
  BY WordIsInt
<1> QED
  BY <1>1, SMTT(60) DEF NameTable, CoarseY, CoarseX

(* What is fetched where m_v is, is the tile of that place. *)
LEMMA FetchesTile ==
    ASSUME NEW v \in Word16, NEW line, NEW column \in Nat, NEW p, At(p, v, line, column)
    PROVE  LET t == Raised(TileAt(p, line, column), Top(v))
           IN /\ NameFetched(v) = [t EXCEPT !.attr = 0]
              /\ fetched = [t EXCEPT !.attr = 0] => AttributeFetched(v) = t
<1> DEFINE cx == column % 32
           cy == RowAt(p.y, line)
           nt == ((column \div 32) % 2) + (2 * (((p.nt \div 2) + RowsFlipped(p.y, line)) % 2))
           t == Raised(TileAt(p, line, column), Top(v))
<1>1. /\ CoarseX(v) = cx /\ CoarseY(v) = cy /\ FineY(v) = (p.y + line) % 8
      /\ NameTable(v) % 2 = (column \div 32) % 2
      /\ NameTable(v) \div 2 = ((p.nt \div 2) + RowsFlipped(p.y, line)) % 2
  BY DEF At, Across, Along
<1>2. NameTable(v) = nt
  <2>1. \A n \in 0..3 : n = (n % 2) + (2 * (n \div 2))
    OBVIOUS
  <2>2. NameTable(v) \in 0..3
    BY PartsOfAddress
  <2> QED
    BY <1>1, <2>1, <2>2
<1>3. t = [nt |-> 8192 + (1024 * nt) + (32 * cy) + cx + (32768 * Top(v)),
           fine |-> (p.y + line) % 8,
           attr |-> 9152 + (1024 * nt) + (8 * (cy \div 4)) + (cx \div 4),
           quadrant |-> (2 * ((cy \div 2) % 2)) + ((cx \div 2) % 2)]
  <2> DEFINE n == 8192 + (1024 * nt) + (32 * cy) + cx
             f == (p.y + line) % 8
             a == 9152 + (1024 * nt) + (8 * (cy \div 4)) + (cx \div 4)
             q == (2 * ((cy \div 2) % 2)) + ((cx \div 2) % 2)
             up == 32768 * Top(v)
  <2>1. TileAt(p, line, column) = [nt |-> n, fine |-> f, attr |-> a, quadrant |-> q]
    BY DEF TileAt
  <2> HIDE DEF n, f, a, q, up
  <2>2. [TileAt(p, line, column) EXCEPT !.nt = @ + up]
            = [nt |-> n + up, fine |-> f, attr |-> a, quadrant |-> q]
    BY <2>1
  <2> QED
    BY <2>2 DEF Raised, n, f, a, q, up
<1> HIDE DEF t, nt, cx, cy
<1>4. CoarseX(v) \in 0..31 /\ CoarseY(v) \in 0..31 /\ NameTable(v) \in 0..3
  BY PartsOfAddress
<1>5. NameFetched(v) = [t EXCEPT !.attr = 0]
  <2>1. 8192 + (32768 * Top(v)) + (v % 4096)
            = 8192 + (1024 * nt) + (32 * cy) + cx + (32768 * Top(v))
    <3> DEFINE names == 1024 * nt
               rows == 32 * cy
               up == 32768 * Top(v)
    <3>1. v % 4096 = names + rows + cx
      BY <1>1, <1>2, LowTwelveBits
    <3>2. names \in Int /\ rows \in Int /\ cx \in Int /\ up \in Int
      BY <1>1, <1>2, <1>4, PartsOfAddress
    <3> HIDE DEF names, rows, up
    <3>3. 8192 + up + (names + rows + cx) = 8192 + names + rows + cx + up
      BY <3>2
    <3> QED
      BY <3>1, <3>3 DEF names, rows, up
  <2> QED
    BY <1>1, <1>3, <2>1 DEF NameFetched
<1>6. ASSUME fetched = [t EXCEPT !.attr = 0] PROVE AttributeFetched(v) = t
  <2> DEFINE a == 9152 + (1024 * nt) + (8 * (cy \div 4)) + (cx \div 4)
  <2>1. AttributeFetched(v) = [fetched EXCEPT !.attr = a]
    BY <1>1, <1>2 DEF AttributeFetched
  <2> DEFINE n == 8192 + (1024 * nt) + (32 * cy) + cx + (32768 * Top(v))
             f == (p.y + line) % 8
             q == (2 * ((cy \div 2) % 2)) + ((cx \div 2) % 2)
  <2>2. t = [nt |-> n, fine |-> f, attr |-> a, quadrant |-> q]
    BY <1>3
  <2> HIDE DEF a, n, f, q
  <2>3. fetched = [nt |-> n, fine |-> f, attr |-> 0, quadrant |-> q]
    BY <1>6, <2>2
  <2>4. [fetched EXCEPT !.attr = a] = [nt |-> n, fine |-> f, attr |-> a, quadrant |-> q]
    BY <2>3
  <2> QED
    BY <2>1, <2>2, <2>4
<1> HIDE DEF NameFetched
<1> QED
  BY ONLY <1>5, <1>6 DEF t

(* Bit 15 of m_v does not show in the column. *)
LEMMA ColumnNotRaised ==
    ASSUME NEW line \in Nat, NEW x \in Nat, NEW p, p = origin.program,
           p.x \in Byte, p.y \in Byte, p.nt \in 0..3, NEW top \in 0..1
    PROVE  Raised(Expected(line, x), top).nt % 32 = Expected(line, x).nt % 32
<1>1. PICK b \in 0..1 : b = p.nt % 2
  OBVIOUS
<1>2. PICK column \in Nat : column = (32 * b) + ((p.x + x) \div 8)
  BY DEF Byte
<1>3. RowAt(p.y, line) \in Int /\ RowsFlipped(p.y, line) \in Int
  BY DEF RowAt, RowsFlipped, Byte
<1>4. PICK h \in 0..1, g \in 0..1 :
          h = (column \div 32) % 2 /\ g = ((p.nt \div 2) + RowsFlipped(p.y, line)) % 2
  BY <1>2, <1>3
<1> DEFINE n == 8192 + (1024 * (h + (2 * g))) + (32 * RowAt(p.y, line)) + (column % 32)
<1>5. PICK f, a, q : Expected(line, x) = [nt |-> n, fine |-> f, attr |-> a, quadrant |-> q]
  <2>1. Expected(line, x) = TileAt(p, line, column)
    BY <1>1, <1>2 DEF Expected
  <2> DEFINE f == (p.y + line) % 8
             a == TileAt(p, line, column).attr
             q == TileAt(p, line, column).quadrant
  <2>2. TileAt(p, line, column) = [nt |-> n, fine |-> f, attr |-> a, quadrant |-> q]
    BY <1>4 DEF TileAt
  <2> HIDE DEF f, a, q, n
  <2> QED
    BY <2>1, <2>2
<1>6. n \in Int
  BY <1>3
<1> HIDE DEF n
<1>7. (n + (32768 * top)) % 32 = n % 32
  BY <1>6
<1>8. Raised(Expected(line, x), top)
          = [nt |-> n + (32768 * top), fine |-> f, attr |-> a, quadrant |-> q]
  BY <1>5 DEF Raised
<1> QED
  BY <1>5, <1>7, <1>8

(* Of a pair of tiles, a pixel shows the one that belongs there. *)
LEMMA ShowsTile ==
    ASSUME NEW k \in Nat, NEW i \in 0..7, NEW line, NEW p, p = Aim,
           p.x \in Byte, p.nt \in 0..3
    PROVE  ShownTile(<<TileOf(p, line, k), TileOf(p, line, k + 1)>>, p.x % 8, i)
               = Raised(Expected(line, Pixel(k, i)), p.top)
<1> DEFINE x == p.x
           left == 32 * (p.nt % 2)
<1>1. /\ i + (x % 8) < 8 => (x + ((8 * k) + i)) \div 8 = (x \div 8) + k
      /\ ~(i + (x % 8) < 8) => (x + ((8 * k) + i)) \div 8 = (x \div 8) + (k + 1)
  <2>1. x \in Nat
    BY DEF Byte
  <2> HIDE DEF x
  <2> DEFINE q == x \div 8
             r == x % 8
  <2>2. x = (8 * q) + r /\ q \in Nat /\ r \in 0..7
    BY <2>1
  <2> HIDE DEF q, r
  <2>3. i + r < 8 => (x + ((8 * k) + i)) \div 8 = q + k
    BY <2>2
  <2>4. ~(i + r < 8) => (x + ((8 * k) + i)) \div 8 = q + (k + 1)
    BY <2>2
  <2> QED
    BY <2>3, <2>4 DEF q, r
<1>2. Expected(line, Pixel(k, i)) = TileAt(p, line, left + ((x + ((8 * k) + i)) \div 8))
  <2>1. \A c : TileAt(p, line, c) = TileAt(origin.program, line, c)
    BY DEF TileAt, Aim
  <2>2. x = origin.program.x /\ left = 32 * (origin.program.nt % 2)
    BY DEF Aim
  <2> HIDE DEF x, left
  <2> QED
    BY <2>1, <2>2 DEF Expected, Pixel
<1>3. left + (x \div 8) + k = left + ((x \div 8) + k)
      /\ left + (x \div 8) + (k + 1) = left + ((x \div 8) + (k + 1))
  BY DEF Byte
<1>4. /\ TileOf(p, line, k) = Raised(TileAt(p, line, left + ((x \div 8) + k)), p.top)
      /\ TileOf(p, line, k + 1) = Raised(TileAt(p, line, left + ((x \div 8) + (k + 1))), p.top)
  BY <1>3 DEF TileOf, Column
<1>5. ShownTile(<<TileOf(p, line, k), TileOf(p, line, k + 1)>>, x % 8, i)
          = IF i + (x % 8) < 8 THEN TileOf(p, line, k) ELSE TileOf(p, line, k + 1)
  BY DEF ShownTile
<1> HIDE DEF x, left
<1>6. CASE i + (x % 8) < 8
  BY <1>1, <1>2, <1>4, <1>5, <1>6 DEF x
<1>7. CASE ~(i + (x % 8) < 8)
  BY <1>1, <1>2, <1>4, <1>5, <1>7 DEF x
<1> QED
  BY <1>6, <1>7

-----------------------------------------------------------------------------
(***************************************************************************)
(* What the program has set stays in the scrolling registers.              *)
(***************************************************************************)
(* What a program has set stays set while the registers stay as they are. *)
LEMMA StaysSet ==
    ASSUME NEW p, NEW q, SetBy(p), q.x = p.x, q.y = p.y, q.nt = p.nt,
           UNCHANGED <<m_t, m_x>>
    PROVE  SetBy(q)'
BY DEF SetBy, CoarseX, CoarseY, FineY, NameTable

(* A program that starts with the registers cleared knows it has set 0. *)
LEMMA ScrollInit == Init => ScrollInv
<1> SUFFICES ASSUME Init PROVE ScrollInv
  OBVIOUS
<1>1. calm = FALSE /\ m_x = 0 /\ m_t = case.v
  BY DEF Init, RegsInit
<1>2. CASE case.v = 0
  <2>1. program.x = 0 /\ program.y = 0 /\ program.nt = 0
    BY <1>2 DEF Init, RegsInit
  <2>2. 0 \in Byte
    BY DEF Byte
  <2>3. CoarseX(0) = 0 /\ CoarseY(0) = 0 /\ FineY(0) = 0 /\ NameTable(0) = 0
    BY DEF CoarseX, CoarseY, FineY, NameTable
  <2> QED
    BY <1>1, <1>2, <2>1, <2>2, <2>3 DEF ScrollInv, SetBy
<1>3. CASE case.v # 0
  <2>1. program.x = Unknown /\ program.y = Unknown /\ program.nt = Unknown
    BY <1>3 DEF Init, RegsInit
  <2> QED
    BY <1>1, <2>1 DEF ScrollInv, SetBy
<1> QED
  BY <1>2, <1>3

(* The writes of $2000, $2005 and $2006. *)
LEMMA SetByCtrl ==
    ASSUME TypeInv, ReadInv, SetBy(program), NEW val, CtrlWrite(val)
    PROVE  SetBy(program)'
<1>1. /\ m_t \in Word16 /\ case \in Cases
      /\ m_t' = Fields(Top(m_t), FineY(m_t), val % 4, CoarseY(m_t), CoarseX(m_t))
      /\ m_x' = m_x
  BY DEF TypeInv, TypeOK, RegsTypeOK, CtrlWrite
<1>2. program'.x = program.x /\ program'.y = program.y /\ program'.nt = val % 4
  BY KnowsIs DEF ReadInv, CtrlWrite, ProgramFields
<1>3. val % 4 \in 0..3
  BY <1>1, WritesTyped DEF CtrlWrite, Byte
<1>4. HasParts(m_t', Top(m_t), FineY(m_t), val % 4, CoarseY(m_t), CoarseX(m_t))
  <2> DEFINE nt == val % 4
  <2> HIDE DEF nt
  <2>1. nt \in 0..3 /\ m_t' = Fields(Top(m_t), FineY(m_t), nt, CoarseY(m_t), CoarseX(m_t))
    BY <1>1, <1>3 DEF nt
  <2>2. HasParts(m_t', Top(m_t), FineY(m_t), nt, CoarseY(m_t), CoarseX(m_t))
    BY <1>1, <2>1, PartsOfAddress, PartsOfFields
  <2> QED
    BY <2>2 DEF nt
<1>5. /\ CoarseX(m_t') = CoarseX(m_t) /\ CoarseY(m_t') = CoarseY(m_t)
      /\ FineY(m_t') = FineY(m_t) /\ NameTable(m_t') = val % 4
  BY <1>4 DEF HasParts
<1> QED
  BY <1>1, <1>2, <1>3, <1>5 DEF SetBy, CoarseX, CoarseY, FineY, NameTable

(* $2005 sets x or y by the toggle, which the program knows or gives both up. *)
LEMMA SetByScroll ==
    ASSUME TypeInv, ReadInv, SetBy(program), NEW val, ScrollWrite(val)
    PROVE  SetBy(program)'
<1>1. /\ m_t \in Word16 /\ case \in Cases /\ m_x \in 0..7
      /\ ~m_w => /\ m_t' = Fields(Top(m_t), FineY(m_t), NameTable(m_t), CoarseY(m_t), val \div 8)
                 /\ m_x' = val % 8
      /\ m_w => /\ m_t' = Fields(Top(m_t), val % 8, NameTable(m_t), val \div 8, CoarseX(m_t))
                /\ m_x' = m_x
  BY DEF TypeInv, TypeOK, RegsTypeOK, ScrollWrite
<1>2. val \in Byte
  BY <1>1, WritesTyped DEF ScrollWrite
<1>3. PICK high \in 0..31, low \in 0..7 : high = val \div 8 /\ low = val % 8
  BY <1>2 DEF Byte
<1>4. /\ Top(m_t) \in 0..1 /\ FineY(m_t) \in 0..7 /\ NameTable(m_t) \in 0..3
      /\ CoarseY(m_t) \in 0..31 /\ CoarseX(m_t) \in 0..31
  BY <1>1, PartsOfAddress
<1>5. ~m_w => /\ CoarseX(m_t') = high /\ CoarseY(m_t') = CoarseY(m_t)
              /\ FineY(m_t') = FineY(m_t) /\ NameTable(m_t') = NameTable(m_t)
  <2>1. ~m_w => HasParts(m_t', Top(m_t), FineY(m_t), NameTable(m_t), CoarseY(m_t), high)
    BY <1>1, <1>3, <1>4, PartsOfFields
  <2> QED
    BY <2>1 DEF HasParts
<1>6. m_w => /\ CoarseX(m_t') = CoarseX(m_t) /\ CoarseY(m_t') = high
             /\ FineY(m_t') = low /\ NameTable(m_t') = NameTable(m_t)
  <2>1. m_w => HasParts(m_t', Top(m_t), low, NameTable(m_t), high, CoarseX(m_t))
    BY <1>1, <1>3, <1>4, PartsOfFields
  <2> QED
    BY <2>1 DEF HasParts
<1>7. program.second \in {0, 1, Unknown} /\ Unknown \notin {0, 1}
  BY DEF ReadInv, ProgramTyped, Unknown
<1>8. CASE program.second = 0
  <2>1. ~m_w
    BY <1>7, <1>8 DEF ReadInv, ToggleKnown
  <2>2. Knows([second |-> 1, high |-> Unknown, x |-> val])
    BY <1>8 DEF ScrollWrite
  <2>3. program'.x = val /\ program'.y = program.y /\ program'.nt = program.nt
    BY <2>2, KnowsIs DEF ReadInv, ProgramFields
  <2> QED
    BY <1>1, <1>2, <1>3, <1>5, <2>1, <2>3 DEF SetBy, CoarseX, CoarseY, FineY, NameTable
<1>9. CASE program.second = 1
  <2>1. m_w
    BY <1>7, <1>9 DEF ReadInv, ToggleKnown
  <2>2. Knows([second |-> 0, high |-> Unknown, y |-> val])
    BY <1>9 DEF ScrollWrite
  <2>3. program'.x = program.x /\ program'.y = val /\ program'.nt = program.nt
    BY <2>2, KnowsIs DEF ReadInv, ProgramFields
  <2> QED
    BY <1>1, <1>2, <1>3, <1>6, <2>1, <2>3 DEF SetBy, CoarseX, CoarseY, FineY, NameTable
<1>10. CASE program.second = Unknown
  <2>1. Knows([x |-> Unknown, y |-> Unknown])
    BY <1>7, <1>10 DEF ScrollWrite
  <2>2. program'.x = Unknown /\ program'.y = Unknown /\ program'.nt = program.nt
    BY <2>1, KnowsIs DEF ReadInv, ProgramFields
  <2>3. NameTable(m_t') = NameTable(m_t)
    BY <1>5, <1>6
  <2> QED
    BY <2>2, <2>3 DEF SetBy, NameTable
<1> QED
  BY <1>7, <1>8, <1>9, <1>10

(* $2006 overwrites them. *)
LEMMA SetByAddr ==
    ASSUME ReadInv, NEW val, AddrWrite(val)
    PROVE  SetBy(program)'
<1>1. program'.x = Unknown /\ program'.y = Unknown /\ program'.nt = Unknown
  BY KnowsIs DEF ReadInv, AddrWrite, ProgramFields
<1> QED
  BY <1>1 DEF SetBy

(* No use of a register sets what the program does not know of. *)
LEMMA SetByAccess ==
    ASSUME TypeInv, ReadInv, SetBy(program), CpuAccess
    PROVE  SetBy(program)'
<1>1. ASSUME UNCHANGED <<m_t, m_x>>, program'.x = program.x, program'.y = program.y,
             program'.nt = program.nt
      PROVE  SetBy(program)'
  BY <1>1 DEF SetBy, CoarseX, CoarseY, FineY, NameTable
<1>2. ASSUME NEW val, MaskWrite(val) \/ InvalidWrite(val) \/ OamAddrWrite(val) \/ OamDataWrite(val)
      PROVE  SetBy(program)'
  BY <1>1, <1>2 DEF MaskWrite, InvalidWrite, OamAddrWrite, OamDataWrite, scroll
<1>3. ASSUME OamDataRead \/ OamDma \/ ClearDecay PROVE SetBy(program)'
  BY <1>1, <1>3 DEF OamDataRead, OamDma, ClearDecay, scroll
<1>4. ASSUME StatusRead PROVE SetBy(program)'
  <2>1. program'.x = program.x /\ program'.y = program.y /\ program'.nt = program.nt
    BY <1>4, KnowsIs DEF ReadInv, StatusRead, ProgramFields
  <2> QED
    BY <1>1, <1>4, <2>1 DEF StatusRead
<1>5. ASSUME NEW val, DataWrite(val) PROVE SetBy(program)'
  <2>1. program'.x = program.x /\ program'.y = program.y /\ program'.nt = program.nt
    BY <1>5, KnowsIs DEF ReadInv, DataWrite, ProgramFields
  <2> QED
    BY <1>1, <1>5, <2>1 DEF DataWrite
<1>6. ASSUME DataRead PROVE SetBy(program)'
  <2>1. program'.x = program.x /\ program'.y = program.y /\ program'.nt = program.nt
    BY <1>6, KnowsIs DEF ReadInv, DataRead, ProgramFields
  <2> QED
    BY <1>1, <1>6, <2>1 DEF DataRead
<1>7. ASSUME NEW val PROVE CtrlWrite(val) \/ ScrollWrite(val) \/ AddrWrite(val) => SetBy(program)'
  BY SetByCtrl, SetByScroll, SetByAddr
<1> QED
  BY <1>2, <1>3, <1>4, <1>5, <1>6, <1>7 DEF CpuAccess

(* Uses of registers that do not end the calm of a frame leave alone what draws it. *)
LEMMA CalmAccess ==
    ASSUME CpuAccess, calm'
    PROVE  (calm /\ Blank) \/ UNCHANGED <<calm, m_v, m_t, m_x, m_mask, m_ctrl, oam>>
<1> DEFINE Goal == (calm /\ Blank) \/ UNCHANGED <<calm, m_v, m_t, m_x, m_mask, m_ctrl, oam>>
<1>1. \A access : Disturbs(access) => Goal
  BY DEF Disturbs
<1>2. \A reg, val : Writes(reg, val) => Goal
  BY <1>1 DEF Writes
<1>3. ASSUME StatusRead \/ OamDataRead \/ ClearDecay PROVE Goal
  <2>1. UNCHANGED calm
    BY <1>3 DEF StatusRead, OamDataRead, ClearDecay, Looks
  <2>2. UNCHANGED <<m_v, m_t, m_x, m_mask, m_ctrl, oam>>
    BY <1>3 DEF StatusRead, OamDataRead, ClearDecay, scroll, oams
  <2> QED
    BY <2>1, <2>2
<1> HIDE DEF Goal
<1>4. ASSUME NEW val
      PROVE  /\ CtrlWrite(val) => Goal
             /\ MaskWrite(val) => Goal
             /\ InvalidWrite(val) => Goal
             /\ OamAddrWrite(val) => Goal
             /\ OamDataWrite(val) => Goal
             /\ ScrollWrite(val) => Goal
             /\ AddrWrite(val) => Goal
             /\ DataWrite(val) => Goal
  BY <1>2 DEF CtrlWrite, MaskWrite, InvalidWrite, OamAddrWrite, OamDataWrite, ScrollWrite,
              AddrWrite, DataWrite
<1>5. /\ DataRead => Goal
      /\ OamDma => Goal
  BY <1>1 DEF DataRead, OamDma
<1>6. Goal
  BY <1>3, <1>4, <1>5 DEF CpuAccess
<1> QED
  BY <1>6 DEF Goal

(* A line is drawn, pre-rendered or blank, and only one of them. *)
LEMMA BlankIsNotDrawn ==
    ASSUME m_current_line \in 0..PreRenderLine
    PROVE  /\ Blank => ~Drawing
           /\ ~Blank => IsRender \/ IsPreRender
           /\ ~(IsRender /\ IsPreRender)
BY SizesTyped DEF Blank, Drawing, IsRender, IsPreRender

(* A frame begins on the pre-render line; later steps only go on drawing it. *)
FrameBegins ==
    /\ LineBegins /\ IsPreRender
    /\ calm' = rendering_enabled /\ origin'.program = program /\ program' = program

(* A step on a line being drawn belongs to the frame that the pre-render line began. *)
LEMMA GoesOnDrawing ==
    ASSUME TypeInv, PpuStep, Drawing'
    PROVE  \/ FrameBegins
           \/ Drawing /\ ~(LineBegins /\ IsPreRender) /\ UNCHANGED <<calm, origin>>
<1> USE SizesTyped
<1>1. m_current_line \in 0..PreRenderLine
  BY DEF TypeInv, TypeOK
<1>2. ASSUME LineBegins, IsPreRender PROVE FrameBegins
  BY <1>2 DEF LineBegins, FrameBegins
<1>3. ASSUME LineBegins, ~IsPreRender PROVE Drawing /\ UNCHANGED <<calm, origin>>
  <2>1. IsRender
    BY <1>1, <1>3, BlankIsNotDrawn DEF LineBegins
  <2> QED
    BY <1>3, <2>1 DEF LineBegins, Drawing
<1>4. ASSUME place # "idle", UNCHANGED <<calm, origin, m_current_line>>
      PROVE  Drawing
  BY <1>4 DEF Drawing, IsRender, IsPreRender
<1>5. ASSUME FetchAttribute \/ NextTile \/ LastTile \/ PrefetchSprites \/ NextLineTile \/ LastFetch
      PROVE  place # "idle" /\ UNCHANGED <<calm, origin, m_current_line>> /\ ~LineBegins
  <2>1. place # "idle"
    BY <1>5 DEF FetchAttribute, NextTile, LastTile, PrefetchSprites, NextLineTile, LastFetch, Step
  <2>2. UNCHANGED <<calm, origin, m_current_line>>
    BY <1>5 DEF FetchAttribute, NextTile, LastTile, PrefetchSprites, NextLineTile, LastFetch
  <2> QED
    BY <2>1, <2>2 DEF LineBegins, Step
<1>6. ASSUME EndLine PROVE Drawing /\ UNCHANGED <<calm, origin>> /\ ~LineBegins
  <2>1. /\ place = "unused" /\ place' = "idle" /\ UNCHANGED <<calm, origin>>
        /\ m_current_line' = IF IsPreRender THEN 0 ELSE m_current_line + 1
    BY <1>6 DEF EndLine, Step, LineEnds
  <2>2. IsPreRender \/ IsRender
    BY <1>1, <2>1 DEF Drawing, IsRender, IsPreRender
  <2> QED
    BY <2>1, <2>2 DEF Drawing, LineBegins, Step
<1>7. ~IdleLine
  <2> SUFFICES ASSUME IdleLine PROVE FALSE
    OBVIOUS
  <2>1. /\ Blank /\ place' = "idle"
        /\ m_current_line' = IF IsPreRender THEN 0 ELSE m_current_line + 1
    BY DEF IdleLine, Step, LineEnds
  <2> QED
    BY <1>1, <2>1 DEF Drawing, Blank, IsRender, IsPreRender
<1> QED
  BY <1>2, <1>3, <1>4, <1>5, <1>6, <1>7 DEF PpuStep

(* The program knows as much of the scroll position after a step of the PPU. *)
LEMMA StepKeepsProgram ==
    ASSUME ReadInv, PpuStep
    PROVE  program'.x = program.x /\ program'.y = program.y /\ program'.nt = program.nt
<1>1. program' = program \/ Forgets
  BY DEF PpuStep, LineBegins, FetchAttribute, NextTile, LastTile, PrefetchSprites, NextLineTile,
         LastFetch, EndLine, IdleLine, LineEnds
<1>2. ASSUME Forgets
      PROVE  program'.x = program.x /\ program'.y = program.y /\ program'.nt = program.nt
  <2>1. CASE m_v' = m_v
    <3>1. Knows(<<>>)
      BY <1>2, <2>1 DEF Forgets
    <3>2. \A f \in ProgramFields : f \notin DOMAIN <<>>
      OBVIOUS
    <3> QED
      BY <3>1, <3>2, KnowsIs DEF ReadInv, ProgramFields
  <2>2. CASE m_v' # m_v
    <3>1. Knows([pointer |-> Unknown])
      BY <1>2, <2>2 DEF Forgets
    <3> QED
      BY <3>1, KnowsIs DEF ReadInv, ProgramFields
  <2> QED
    BY <2>1, <2>2
<1> QED
  BY <1>1, <1>2

(* The scrolling registers stay as set, and through a calm frame as its program set them. *)
LEMMA ScrollStep ==
    ASSUME TypeInv, ReadInv, ScrollInv, [Next]_vars
    PROVE  ScrollInv'
<1>1. SetBy(program) /\ (calm /\ Drawing => rendering_enabled /\ SetBy(origin.program))
  BY DEF ScrollInv
<1>2. m_current_line \in 0..PreRenderLine
  BY DEF TypeInv, TypeOK
<1>3. ASSUME PpuStep PROVE ScrollInv'
  <2>1. UNCHANGED <<m_t, m_x, m_mask>>
    BY <1>3, StepsLeaveRegisters DEF untouched
  <2>2. SetBy(program)'
    BY <1>1, <1>3, <2>1, StaysSet, StepKeepsProgram
  <2>3. rendering_enabled' = rendering_enabled
    BY <2>1 DEF rendering_enabled, BitOf
  <2>4. ASSUME calm', Drawing', FrameBegins PROVE rendering_enabled' /\ SetBy(origin.program)'
    <3>1. origin'.program = program /\ rendering_enabled
      BY <2>4 DEF FrameBegins
    <3> QED
      BY <1>1, <2>1, <2>3, <3>1 DEF SetBy, CoarseX, CoarseY, FineY, NameTable
  <2>5. ASSUME calm', Drawing', Drawing, UNCHANGED <<calm, origin>>
        PROVE  rendering_enabled' /\ SetBy(origin.program)'
    BY <1>1, <2>1, <2>3, <2>5 DEF SetBy, CoarseX, CoarseY, FineY, NameTable
  <2> QED
    BY <1>3, <2>2, <2>4, <2>5, GoesOnDrawing DEF ScrollInv
<1>4. ASSUME CpuAccess, UNCHANGED render PROVE ScrollInv'
  <2>1. SetBy(program)'
    BY <1>1, <1>4, SetByAccess
  <2>2. UNCHANGED <<place, m_current_line, origin>>
    BY <1>4 DEF render
  <2>3. ASSUME calm', Drawing' PROVE rendering_enabled' /\ SetBy(origin.program)'
    <3>1. Drawing /\ ~Blank
      BY <1>2, <2>2, <2>3, BlankIsNotDrawn DEF Drawing, IsRender, IsPreRender
    <3>2. UNCHANGED <<calm, m_t, m_x, m_mask>>
      BY <1>4, <2>3, <3>1, CalmAccess
    <3> QED
      BY <1>1, <2>2, <2>3, <3>1, <3>2
      DEF SetBy, CoarseX, CoarseY, FineY, NameTable, rendering_enabled, BitOf
  <2> QED
    BY <2>1, <2>3 DEF ScrollInv
<1>5. CASE UNCHANGED vars
  BY <1>1, <1>5 DEF vars, regs, scroll, render, ScrollInv, SetBy, CoarseX, CoarseY, FineY,
                    NameTable, Drawing, IsRender, IsPreRender, rendering_enabled, BitOf
<1> QED
  BY <1>3, <1>4, <1>5 DEF Next

-----------------------------------------------------------------------------
(***************************************************************************)
(* The fetches follow the picture, step by step.                           *)
(***************************************************************************)
(* The columns of a line's tiles, one after the other, from where m_t begins. *)
LEMMA Columns ==
    ASSUME NEW p, p.x \in Byte, p.nt \in 0..3, NEW k \in Nat
    PROVE  Column(p, k) \in Nat /\ Column(p, k + 1) = Column(p, k) + 1
<1>1. p.x \in Nat
  BY DEF Byte
<1> QED
  BY <1>1 DEF Column

(* An address that has its column from m_t is at the first tile. *)
LEMMA FirstColumn ==
    ASSUME NEW p, NEW v, p.x \in Byte, p.nt \in 0..3,
           CoarseX(v) = p.x \div 8, NameTable(v) % 2 = p.nt % 2
    PROVE  Across(v, Column(p, 0))
<1>1. PICK x \in 0..255, nt \in 0..3 : x = p.x /\ nt = p.nt
  BY DEF Byte
<1>2. Column(p, 0) = (32 * (nt % 2)) + (x \div 8)
  BY <1>1 DEF Column
<1>3. PICK c \in Nat : c = (32 * (nt % 2)) + (x \div 8)
  OBVIOUS
<1>4. c % 32 = x \div 8 /\ (c \div 32) % 2 = nt % 2
  BY <1>3
<1> QED
  BY <1>1, <1>2, <1>3, <1>4 DEF Across

(* m_v moves one tile to the right and fetches there. *)
LEMMA MovesOn ==
    ASSUME NEW p, DrawsFrameOf(p), NEW line, NEW k \in Nat, NEW w, w = Scrolled(m_v), w \in Word16,
           At(p, m_v, line, Column(p, k))
    PROVE  /\ At(p, w, line, Column(p, k + 1))
           /\ NameFetched(w) = [TileOf(p, line, k + 1) EXCEPT !.attr = 0]
<1>1. w = coarse_x_increment(m_v)
  BY DEF Scrolled, DrawsFrameOf
<1>2. Column(p, k) \in Nat /\ Column(p, k + 1) = Column(p, k) + 1 /\ Column(p, k + 1) \in Nat
  BY Columns DEF DrawsFrameOf
<1>3. Top(w) = Top(m_v) /\ Across(w, Column(p, k) + 1) /\ Along(p, w, line)
  BY <1>1, <1>2, StepsRight DEF DrawsFrameOf, At
<1>4. At(p, w, line, Column(p, k + 1)) /\ Top(w) = p.top
  BY <1>2, <1>3 DEF At, DrawsFrameOf
<1> QED
  BY <1>2, <1>4, FetchesTile DEF TileOf

(* What is fetched where m_v stands is the tile of its column. *)
LEMMA FetchesHere ==
    ASSUME NEW p, NEW v \in Word16, Top(v) = p.top, p.x \in Byte, p.nt \in 0..3, NEW line,
           NEW k \in Nat, At(p, v, line, Column(p, k))
    PROVE  /\ NameFetched(v) = [TileOf(p, line, k) EXCEPT !.attr = 0]
           /\ fetched = [TileOf(p, line, k) EXCEPT !.attr = 0] =>
                  AttributeFetched(v) = TileOf(p, line, k)
<1>1. Column(p, k) \in Nat
  BY Columns
<1> QED
  BY <1>1, FetchesTile DEF TileOf

(* The tile that was drawn last: the one at hand, or the last of the line. *)
LEMMA Nearest ==
    /\ Earlier(0, Tiles - 1) = 0
    /\ \A k \in Nat : k < Tiles => Earlier(k, Tiles - 1) = k
    /\ \A k \in Nat : k >= Tiles - 1 => Earlier(k, Tiles - 1) = Tiles - 1
BY SizesTyped DEF Earlier

-----------------------------------------------------------------------------
(* A line begins with its first two tiles fetched and m_v at the third. *)
LEMMA LineBeginsThere ==
    ASSUME NEW p, DrawsFrameOf(p), FollowsPicture, LineBegins, Aim' = Aim, ~IsPreRender
    PROVE  FollowsPicture'
<1> USE SizesTyped
<1> DEFINE line == m_current_line
           T(k) == TileOf(p, line, k)
<1>1. /\ place = "idle" /\ place' = "attribute" /\ tile' = 0
      /\ UNCHANGED <<m_v, m_x, m_current_line>> /\ fetched' = NameFetched(m_v)
      /\ render_tile(0, shift)
  BY DEF LineBegins, Step, untouched
<1>2. IsRender
  BY <1>1, BlankIsNotDrawn DEF DrawsFrameOf, Drawing
<1>3. At(p, m_v, line, Column(p, 2)) /\ shift = <<T(0), T(1)>>
  BY <1>1 DEF FollowsPicture, BetweenLines, Prefetched, DrawsFrameOf
<1>4. /\ drawn' = [line |-> line, column |-> 0, pair |-> <<T(0), T(1)>>, x |-> m_x]
      /\ shift' = <<T(1), NoTile>>
  BY <1>1, <1>2, <1>3 DEF render_tile
<1>5. fetched' = [T(2) EXCEPT !.attr = 0]
  BY <1>1, <1>3, FetchesHere DEF DrawsFrameOf
<1>6. p = Aim'
  BY DEF DrawsFrameOf
<1>7. OnLine'
  <2>1. fetched' = PartOf(T(2), place')
    BY <1>1, <1>5 DEF PartOf
  <2>2. shift'[1] = T(1)
    BY <1>4
  <2> QED
    BY <1>1, <1>3, <1>6, <2>1, <2>2 DEF OnLine
<1>8. Drawn'
  <2>1. Earlier(tile', Tiles - 1) = 0
    BY <1>1, Nearest
  <2> QED
    BY <1>1, <1>4, <1>6, <2>1 DEF Drawn
<1>9. AtSprites' /\ OnNextLine' /\ BetweenLines'
  BY <1>1 DEF AtSprites, OnNextLine, BetweenLines
<1> QED
  BY <1>7, <1>8, <1>9 DEF FollowsPicture

(* The second half of a tile is fetched where the first was. *)
LEMMA FetchesAttribute ==
    ASSUME NEW p, DrawsFrameOf(p), FollowsPicture, FetchAttribute, Aim' = Aim
    PROVE  FollowsPicture'
<1> USE SizesTyped
<1>1. /\ place = "attribute" /\ place' = "next" /\ fetched' = AttributeFetched(m_v)
      /\ UNCHANGED <<m_v, m_x, m_current_line, tile, shift, drawn, origin>>
  BY DEF FetchAttribute, Step, untouched
<1>2. p = Aim /\ p = Aim' /\ tile \in Nat
  BY <1>1 DEF DrawsFrameOf
<1>3. ASSUME NEW k \in Nat, NEW line, At(p, m_v, line, Column(p, k)),
             fetched = PartOf(TileOf(p, line, k), place)
      PROVE  fetched' = PartOf(TileOf(p, line, k), place')
  <2>1. fetched' = TileOf(p, line, k)
    BY <1>1, <1>3, FetchesHere DEF DrawsFrameOf, PartOf
  <2> QED
    BY <1>1, <2>1 DEF PartOf
<1>4. OnLine'
  <2> SUFFICES ASSUME IsRender', tile < Tiles PROVE OnLine'
    BY <1>1 DEF OnLine
  <2> DEFINE k == tile + 2
  <2>1. /\ At(p, m_v, m_current_line, Column(p, k))
        /\ shift[1] = TileOf(p, m_current_line, tile + 1)
        /\ fetched = PartOf(TileOf(p, m_current_line, k), place)
    BY <1>1, <1>2 DEF FollowsPicture, OnLine, IsRender
  <2>2. k \in Nat
    BY <1>2
  <2> HIDE DEF k
  <2>3. fetched' = PartOf(TileOf(p, m_current_line, k), place')
    BY <1>3, <2>1, <2>2
  <2> QED
    BY <1>1, <1>2, <2>1, <2>3 DEF OnLine, k
<1>5. OnNextLine'
  <2> SUFFICES ASSUME tile >= Tiles PROVE OnNextLine'
    BY <1>1 DEF OnNextLine
  <2> DEFINE k == tile - Tiles
  <2>1. /\ At(p, m_v, NextLine, Column(p, k))
        /\ fetched = PartOf(TileOf(p, NextLine, k), place)
        /\ tile > Tiles => shift[1] = TileOf(p, NextLine, 0)
    BY <1>1, <1>2 DEF FollowsPicture, OnNextLine
  <2>2. k \in Nat
    BY <1>2
  <2>3. NextLine' = NextLine
    BY <1>1 DEF NextLine, IsPreRender
  <2> HIDE DEF k
  <2>4. fetched' = PartOf(TileOf(p, NextLine, k), place')
    BY <1>3, <2>1, <2>2
  <2> QED
    BY <1>1, <1>2, <2>1, <2>3, <2>4 DEF OnNextLine, k
<1>6. Drawn'
  BY <1>1 DEF FollowsPicture, Drawn, IsRender
<1>7. AtSprites' /\ BetweenLines'
  BY <1>1 DEF AtSprites, BetweenLines
<1> QED
  BY <1>4, <1>5, <1>6, <1>7 DEF FollowsPicture

(* The next tile is drawn, and the one two further on is fetched. *)
LEMMA NextTileThere ==
    ASSUME NEW p, DrawsFrameOf(p), FollowsPicture, NextTile, Aim' = Aim, m_v' \in Word16
    PROVE  FollowsPicture'
<1> USE SizesTyped
<1>1. /\ place = "next" /\ place' = "attribute" /\ tile < Tiles - 1 /\ tile' = tile + 1
      /\ UNCHANGED <<m_x, m_current_line, origin>>
      /\ m_v' = Scrolled(m_v) /\ fetched' = NameFetched(m_v') /\ render_tile(tile + 1, Reloaded)
  BY DEF NextTile, Step, untouched
<1>2. p = Aim /\ p = Aim' /\ tile \in Nat
  BY <1>1 DEF DrawsFrameOf
<1>3. PICK line, next, after, ahead :
          /\ line = m_current_line /\ next = tile + 1 /\ after = tile + 2 /\ ahead = tile + 3
  OBVIOUS
<1>4. /\ next \in Nat /\ after \in Nat /\ ahead \in Nat
      /\ next + 1 = after /\ after + 1 = ahead /\ next + 2 = ahead /\ next < Tiles
  BY <1>1, <1>2, <1>3
<1>5. AtSprites' /\ OnNextLine' /\ BetweenLines'
  BY <1>1, <1>3, <1>4 DEF AtSprites, OnNextLine, BetweenLines
<1>6. CASE ~IsRender
  BY <1>1, <1>5, <1>6 DEF FollowsPicture, OnLine, Drawn, IsRender
<1>7. CASE IsRender
  <2> DEFINE T(k) == TileOf(p, line, k)
  <2>1. At(p, m_v, line, Column(p, after)) /\ shift[1] = T(next) /\ fetched = T(after)
    BY <1>1, <1>2, <1>3, <1>4, <1>7 DEF FollowsPicture, OnLine, PartOf
  <2>2. /\ drawn' = [line |-> line, column |-> next, x |-> m_x, pair |-> <<T(next), T(after)>>]
        /\ shift' = <<T(after), NoTile>>
    BY <1>1, <1>3, <1>7, <2>1 DEF render_tile, Reloaded
  <2>3. /\ At(p, m_v', line, Column(p, ahead)) /\ fetched' = [T(ahead) EXCEPT !.attr = 0]
    BY <1>1, <1>3, <1>4, <2>1, MovesOn
  <2>4. tile' = next
    BY <1>1, <1>3
  <2>5. fetched' = PartOf(T(ahead), place')
    BY <1>1, <2>3 DEF PartOf
  <2>6. shift'[1] = T(after)
    BY <2>2
  <2>7. OnLine'
    BY <1>1, <1>2, <1>3, <1>4, <2>3, <2>4, <2>5, <2>6 DEF OnLine
  <2>8. Earlier(next, Tiles - 1) = next
    BY <1>4, Nearest
  <2>9. Drawn'
    BY <1>1, <1>2, <1>3, <1>4, <2>2, <2>4, <2>8 DEF Drawn
  <2> QED
    BY <1>5, <2>7, <2>9 DEF FollowsPicture
<1> QED
  BY <1>6, <1>7

(* The last tile of a line leaves m_v at the left of the line below. *)
LEMMA LastTileThere ==
    ASSUME NEW p, DrawsFrameOf(p), FollowsPicture, LastTile, Aim' = Aim
    PROVE  FollowsPicture'
<1> USE SizesTyped
<1>1. /\ place = "next" /\ place' = "sprites" /\ tile = Tiles - 1 /\ tile' = tile
      /\ UNCHANGED <<m_x, m_current_line, drawn, origin>>
      /\ m_v' = reset_horizontal_scroll(y_increment(coarse_x_increment(m_v)))
  BY DEF LastTile, Step, untouched, DrawsFrameOf
<1>2. /\ p = Aim /\ p = Aim' /\ p.x \in Byte /\ p.nt \in 0..3
      /\ p.y \in Byte /\ m_v \in Word16 /\ m_t \in Word16
      /\ CoarseX(m_t) = p.x \div 8 /\ NameTable(m_t) = p.nt
  BY <1>1 DEF DrawsFrameOf
<1>3. PICK right \in Word16, down \in Word16 :
          right = coarse_x_increment(m_v) /\ down = y_increment(right)
  BY <1>2, CoarseXInWord, YInWord
<1>4. /\ FineY(m_v') = FineY(down) /\ CoarseY(m_v') = CoarseY(down)
      /\ NameTable(m_v') \div 2 = NameTable(down) \div 2
      /\ NameTable(m_v') % 2 = NameTable(m_t) % 2 /\ CoarseX(m_v') = CoarseX(m_t)
  BY <1>1, <1>2, <1>3, Copies
<1>5. Across(m_v', Column(p, 0))
  BY <1>2, <1>4, FirstColumn
<1>6. ASSUME IsRender PROVE Along(p, m_v', NextLine')
  <2>1. m_current_line \in 0..239 /\ NextLine' = m_current_line + 1
    BY <1>1, <1>6, BlankIsNotDrawn DEF NextLine, IsRender, IsPreRender, DrawsFrameOf
  <2>2. PICK k \in Nat : k = tile + 2
    BY <1>1
  <2>3. At(p, m_v, m_current_line, Column(p, k))
    BY <1>1, <1>2, <1>6, <2>2 DEF FollowsPicture, OnLine
  <2>4. Column(p, k) \in Nat
    BY <1>2, Columns
  <2>5. Along(p, right, m_current_line)
    BY <1>2, <1>3, <2>3, <2>4, StepsRight DEF At
  <2>6. Along(p, down, m_current_line + 1)
    BY <1>2, <1>3, <2>1, <2>5, StepsDown
  <2> QED
    BY <1>4, <2>1, <2>6 DEF Along
<1>7. AtSprites'
  BY <1>1, <1>2, <1>5, <1>6 DEF AtSprites, IsRender
<1>8. Drawn'
  BY <1>1 DEF FollowsPicture, Drawn, IsRender
<1>9. OnLine' /\ OnNextLine' /\ BetweenLines'
  BY <1>1 DEF OnLine, OnNextLine, BetweenLines
<1> QED
  BY <1>7, <1>8, <1>9 DEF FollowsPicture

(* On the pre-render line it is brought to the top. *)
LEMMA SpritesPrefetchedThere ==
    ASSUME NEW p, DrawsFrameOf(p), FollowsPicture, PrefetchSprites, Aim' = Aim, tile = Tiles - 1,
           m_v' \in Word16
    PROVE  FollowsPicture'
<1> USE SizesTyped
<1>1. /\ place = "sprites" /\ place' = "attribute" /\ tile' = Tiles
      /\ UNCHANGED <<m_x, m_current_line, shift, drawn, origin>>
      /\ m_v' = IF IsPreRender THEN reset_vertical_scroll(m_v) ELSE m_v
      /\ fetched' = NameFetched(m_v')
  BY DEF PrefetchSprites, Step, untouched, DrawsFrameOf
<1>2. /\ p = Aim /\ p = Aim' /\ p.x \in Byte /\ p.nt \in 0..3
      /\ p.y \in Byte /\ m_v \in Word16 /\ m_t \in Word16 /\ Top(m_v) = p.top
      /\ CoarseY(m_t) = p.y \div 8 /\ FineY(m_t) = p.y % 8 /\ NameTable(m_t) = p.nt
  BY <1>1 DEF DrawsFrameOf
<1>3. Across(m_v, Column(p, 0))
  BY <1>1, <1>2 DEF FollowsPicture, AtSprites
<1>4. PICK line : line = NextLine /\ line = NextLine'
  BY <1>1 DEF NextLine, IsPreRender
<1>5. Top(m_v') = p.top /\ At(p, m_v', line, Column(p, 0))
  <2>1. CASE IsPreRender
    <3>1. /\ Top(m_v') = p.top /\ FineY(m_v') = p.y % 8 /\ CoarseY(m_v') = p.y \div 8
          /\ NameTable(m_v') \div 2 = p.nt \div 2
          /\ NameTable(m_v') % 2 = NameTable(m_v) % 2 /\ CoarseX(m_v') = CoarseX(m_v)
      BY <1>1, <1>2, <2>1, Copies
    <3>2. Across(m_v', Column(p, 0))
      BY <1>3, <3>1 DEF Across
    <3>3. (p.y + 0) % 8 = p.y % 8 /\ RowAt(p.y, 0) = p.y \div 8 /\ RowsFlipped(p.y, 0) = 0
      BY <1>2, FirstRow
    <3>4. ((p.nt \div 2) + 0) % 2 = p.nt \div 2
      BY <1>2
    <3>5. Along(p, m_v', 0)
      BY <3>1, <3>3, <3>4 DEF Along
    <3> QED
      BY <1>4, <2>1, <3>1, <3>2, <3>5 DEF At, NextLine
  <2>2. CASE ~IsPreRender
    <3>1. IsRender
      BY <2>2 DEF DrawsFrameOf, Drawing
    <3> QED
      BY <1>1, <1>2, <1>3, <1>4, <2>2, <3>1 DEF At, FollowsPicture, AtSprites
  <2> QED
    BY <2>1, <2>2
<1>6. OnNextLine'
  <2>1. fetched' = [TileOf(p, line, 0) EXCEPT !.attr = 0]
    BY <1>1, <1>2, <1>5, FetchesHere
  <2>2. tile' - Tiles = 0 /\ ~(tile' > Tiles)
    BY <1>1
  <2> QED
    BY <1>1, <1>2, <1>4, <1>5, <2>1, <2>2 DEF OnNextLine, PartOf
<1>7. Drawn'
  <2>1. Earlier(tile, Tiles - 1) = Earlier(tile', Tiles - 1)
    BY <1>1, Nearest
  <2> QED
    BY <1>1, <2>1 DEF FollowsPicture, Drawn, IsRender
<1>8. OnLine' /\ AtSprites' /\ BetweenLines'
  BY <1>1 DEF OnLine, AtSprites, BetweenLines
<1> QED
  BY <1>6, <1>7, <1>8 DEF FollowsPicture

(* The first two tiles of the next line are fetched. *)
LEMMA NextLineTileThere ==
    ASSUME NEW p, DrawsFrameOf(p), FollowsPicture, NextLineTile, Aim' = Aim, m_v' \in Word16
    PROVE  FollowsPicture'
<1> USE SizesTyped
<1>1. /\ place = "next" /\ place' = "attribute" /\ tile = Tiles /\ tile' = Tiles + 1
      /\ UNCHANGED <<m_x, m_current_line, drawn, origin>> /\ shift' = <<fetched, NoTile>>
      /\ m_v' = Scrolled(m_v) /\ fetched' = NameFetched(m_v')
  BY DEF NextLineTile, Step, untouched
<1>2. p = Aim /\ p = Aim'
  BY <1>1 DEF DrawsFrameOf
<1>3. PICK line : line = NextLine /\ line = NextLine'
  BY <1>1 DEF NextLine, IsPreRender
<1>4. At(p, m_v, line, Column(p, 0)) /\ fetched = TileOf(p, line, 0)
  <2>1. tile - Tiles = 0
    BY <1>1
  <2> QED
    BY <1>1, <1>2, <1>3, <2>1 DEF FollowsPicture, OnNextLine, PartOf
<1>5. At(p, m_v', line, Column(p, 1)) /\ fetched' = [TileOf(p, line, 1) EXCEPT !.attr = 0]
  <2>1. 0 + 1 = 1 /\ 0 \in Nat
    OBVIOUS
  <2> QED
    BY <1>1, <1>4, <2>1, MovesOn
<1>6. OnNextLine'
  <2>1. tile' - Tiles = 1 /\ shift'[1] = TileOf(p, line, 0)
    BY <1>1, <1>4
  <2> QED
    BY <1>1, <1>2, <1>3, <1>5, <2>1 DEF OnNextLine, PartOf
<1>7. Drawn'
  <2>1. Earlier(tile, Tiles - 1) = Earlier(tile', Tiles - 1)
    BY <1>1, Nearest
  <2> QED
    BY <1>1, <2>1 DEF FollowsPicture, Drawn, IsRender
<1>8. OnLine' /\ AtSprites' /\ BetweenLines'
  BY <1>1 DEF OnLine, AtSprites, BetweenLines
<1> QED
  BY <1>6, <1>7, <1>8 DEF FollowsPicture

LEMMA LastFetchThere ==
    ASSUME NEW p, DrawsFrameOf(p), FollowsPicture, LastFetch, Aim' = Aim, m_v' \in Word16
    PROVE  FollowsPicture'
<1> USE SizesTyped
<1>1. /\ place = "next" /\ place' = "unused" /\ tile = Tiles + 1 /\ tile' = tile
      /\ UNCHANGED <<m_x, m_current_line, drawn, origin>> /\ shift' = <<shift[1], fetched>>
      /\ m_v' = Scrolled(m_v)
  BY DEF LastFetch, Step, untouched, Reloaded
<1>2. p = Aim /\ p = Aim'
  BY <1>1 DEF DrawsFrameOf
<1>3. PICK line : line = NextLine /\ line = NextLine'
  BY <1>1 DEF NextLine, IsPreRender
<1>4. /\ At(p, m_v, line, Column(p, 1)) /\ fetched = TileOf(p, line, 1)
      /\ shift[1] = TileOf(p, line, 0)
  <2>1. tile - Tiles = 1
    BY <1>1
  <2> QED
    BY <1>1, <1>2, <1>3, <2>1 DEF FollowsPicture, OnNextLine, PartOf
<1>5. At(p, m_v', line, Column(p, 2))
  <2>1. 1 + 1 = 2 /\ 1 \in Nat
    OBVIOUS
  <2> QED
    BY <1>1, <1>4, <2>1, MovesOn
<1>6. BetweenLines'
  BY <1>1, <1>2, <1>3, <1>4, <1>5 DEF BetweenLines, Prefetched
<1>7. Drawn'
  BY <1>1 DEF FollowsPicture, Drawn, IsRender
<1>8. OnLine' /\ AtSprites' /\ OnNextLine'
  BY <1>1 DEF OnLine, AtSprites, OnNextLine
<1> QED
  BY <1>6, <1>7, <1>8 DEF FollowsPicture

(* The line ends, and what was the next line is at hand. *)
LEMMA EndLineThere ==
    ASSUME NEW p, DrawsFrameOf(p), FollowsPicture, EndLine, Aim' = Aim
    PROVE  FollowsPicture'
<1>1. /\ place = "unused" /\ place' = "idle" /\ m_current_line' = NextLine
      /\ UNCHANGED <<m_v, shift, origin>>
  BY DEF EndLine, LineEnds, Step, NextLine, pipeline
<1>2. p = Aim /\ p = Aim'
  BY <1>1 DEF DrawsFrameOf
<1>3. BetweenLines'
  BY <1>1, <1>2 DEF FollowsPicture, BetweenLines, Prefetched
<1> QED
  BY <1>1, <1>3 DEF FollowsPicture, OnLine, AtSprites, OnNextLine, Drawn

(* A step of the PPU leaves bit 15 of m_v as it is. *)
LEMMA TopStays ==
    ASSUME TypeInv, PpuStep
    PROVE  Top(m_v') = Top(m_v)
<1>1. m_v \in Word16 /\ m_t \in Word16
  BY DEF TypeInv, TypeOK, RegsTypeOK
<1>2. PICK right \in Word16, down \in Word16 :
          right = coarse_x_increment(m_v) /\ down = y_increment(right)
  BY <1>1, CoarseXInWord, YInWord
<1>3. Top(right) = Top(m_v) /\ Top(down) = Top(right)
  BY <1>1, <1>2, MovesRight, MovesDown
<1>4. Top(reset_horizontal_scroll(down)) = Top(down) /\ Top(reset_vertical_scroll(m_v)) = Top(m_v)
  BY <1>1, Copies
<1>5. ASSUME m_v' = Scrolled(m_v) PROVE Top(m_v') = Top(m_v)
  BY <1>2, <1>3, <1>5 DEF Scrolled
<1>6. CASE NextTile \/ NextLineTile \/ LastFetch
  BY <1>5, <1>6 DEF NextTile, NextLineTile, LastFetch
<1>7. CASE LastTile
  <2>1. m_v' = reset_horizontal_scroll(down) \/ m_v' = m_v
    BY <1>2, <1>7 DEF LastTile
  <2> QED
    BY <1>3, <1>4, <2>1
<1>8. CASE PrefetchSprites
  <2>1. m_v' = reset_vertical_scroll(m_v) \/ m_v' = m_v
    BY <1>8 DEF PrefetchSprites
  <2> QED
    BY <1>4, <2>1
<1>9. CASE LineBegins \/ FetchAttribute \/ EndLine \/ IdleLine
  <2>1. m_v' = m_v
    BY <1>9 DEF LineBegins, FetchAttribute, EndLine, IdleLine, LineEnds
  <2> QED
    BY <2>1
<1> QED
  BY <1>6, <1>7, <1>8, <1>9 DEF PpuStep

(* In a calm frame of a known program the registers say what it has set. *)
LEMMA KnownFrame ==
    ASSUME TypeInv, ScrollInv, Known, NEW p, p = Aim
    PROVE  DrawsFrameOf(p)
<1>1. rendering_enabled /\ SetBy(p) /\ Drawing
  BY DEF ScrollInv, Known, SetBy, Aim
<1>2. p.x # Unknown /\ p.y # Unknown /\ p.nt # Unknown /\ Top(m_v) = p.top
  BY DEF Known, ScrollKnown, Aim
<1>3. m_v \in Word16 /\ m_t \in Word16 /\ m_current_line \in 0..PreRenderLine /\ tile \in Nat
  BY SizesTyped DEF TypeInv, TypeOK, RegsTypeOK
<1> QED
  BY <1>1, <1>2, <1>3 DEF DrawsFrameOf, SetBy

(* Every step of the PPU keeps the fetches with the picture. *)
LEMMA PictureDuringPpuStep ==
    ASSUME TypeInv, ScrollInv, PictureInv, PpuStep
    PROVE  PictureInv'
<1> SUFFICES ASSUME Known' PROVE FollowsPicture'
  BY DEF PictureInv
<1>1. calm' /\ Drawing' /\ ScrollKnown'
  BY DEF Known
<1>2. CASE FrameBegins
  <2>1. place' = "attribute" /\ tile' = 0 /\ IsPreRender /\ m_current_line' = m_current_line
    BY <1>2 DEF FrameBegins, LineBegins, Step
  <2>2. ~IsRender' /\ ~(tile' >= Tiles)
    BY <2>1, SizesTyped DEF IsRender, IsPreRender
  <2> QED
    BY <2>1, <2>2 DEF FollowsPicture, OnLine, AtSprites, OnNextLine, BetweenLines, Drawn
<1>3. CASE Drawing /\ ~(LineBegins /\ IsPreRender) /\ UNCHANGED <<calm, origin>>
  <2>1. Known
    BY <1>1, <1>3 DEF Known, ScrollKnown
  <2>2. FollowsPicture
    BY <2>1 DEF PictureInv
  <2>3. PICK p : p = Aim
    OBVIOUS
  <2>4. Aim' = Aim
    <3>1. Top(m_v)' = Top(m_v)
      BY TopStays DEF Top
    <3> QED
      BY <1>3, <3>1 DEF Aim
  <2>5. DrawsFrameOf(p)
    BY <2>1, <2>3, KnownFrame
  <2>6. m_v' \in Word16
    BY StepsLeaveRegisters
  <2>7. CASE LineBegins
    BY <1>3, <2>2, <2>5, <2>7, <2>4, LineBeginsThere
  <2>8. CASE PrefetchSprites
    <3>1. tile = Tiles - 1
      BY <2>8 DEF TypeInv, Placed, PrefetchSprites, Step
    <3> QED
      BY <2>2, <2>5, <2>6, <2>8, <2>4, <3>1, SpritesPrefetchedThere
  <2>9. ~IdleLine
    <3>1. m_current_line \in 0..PreRenderLine
      BY DEF TypeInv, TypeOK
    <3> QED
      BY <1>3, <3>1, BlankIsNotDrawn DEF IdleLine
  <2>10. FetchAttribute \/ NextTile \/ LastTile \/ NextLineTile \/ LastFetch \/ EndLine
            => FollowsPicture'
    BY <2>2, <2>5, <2>6, <2>4, FetchesAttribute, NextTileThere, LastTileThere, NextLineTileThere,
       LastFetchThere, EndLineThere
  <2> QED
    BY <2>7, <2>8, <2>9, <2>10 DEF PpuStep
<1> QED
  BY <1>1, <1>2, <1>3, GoesOnDrawing

(* A use of a register in a calm frame does not move them. *)
LEMMA PictureStep ==
    ASSUME TypeInv, ScrollInv, PictureInv, [Next]_vars
    PROVE  PictureInv'
<1>1. ASSUME UNCHANGED <<calm, m_v, m_x>>, UNCHANGED <<m_current_line, place, tile>>,
             UNCHANGED <<fetched, shift, drawn, origin>>
      PROVE  PictureInv'
  <2>1. Known' <=> Known
    BY <1>1 DEF Known, ScrollKnown, Drawing, IsRender, IsPreRender
  <2>2. NextLine' = NextLine /\ IsRender' = IsRender /\ Aim' = Aim
    BY <1>1 DEF NextLine, IsRender, IsPreRender, Aim, Top
  <2>3. OnLine => OnLine'
    BY <1>1, <2>2 DEF OnLine
  <2>4. AtSprites => AtSprites'
    BY <1>1, <2>2 DEF AtSprites
  <2>5. OnNextLine => OnNextLine'
    BY <1>1, <2>2 DEF OnNextLine
  <2>6. BetweenLines => BetweenLines'
    BY <1>1, <2>2 DEF BetweenLines, Prefetched
  <2>7. Drawn => Drawn'
    BY <1>1, <2>2 DEF Drawn
  <2> QED
    BY <2>1, <2>3, <2>4, <2>5, <2>6, <2>7 DEF PictureInv, FollowsPicture
<1>2. CASE UNCHANGED vars
  BY <1>1, <1>2 DEF vars, regs, scroll, render, pipeline
<1>3. CASE PpuStep
  BY <1>3, PictureDuringPpuStep
<1>4. CASE CpuAccess /\ UNCHANGED render
  <2> SUFFICES ASSUME Known' PROVE PictureInv'
    BY DEF PictureInv
  <2>1. UNCHANGED <<m_current_line, place, tile>> /\ UNCHANGED <<fetched, shift, drawn, origin>>
    BY <1>4 DEF render, pipeline
  <2>2. calm' /\ Drawing
    BY <2>1 DEF Known, Drawing, IsRender, IsPreRender
  <2>3. ~Blank
    BY <2>2, BlankIsNotDrawn DEF TypeInv, TypeOK
  <2>4. UNCHANGED <<calm, m_v, m_x>>
    BY <1>4, <2>2, <2>3, CalmAccess
  <2> QED
    BY <1>1, <2>1, <2>4
<1> QED
  BY <1>2, <1>3, <1>4 DEF Next

(* Where the fetches follow the picture, it is what is shown. *)
LEMMA FollowedIsShown ==
    ASSUME TypeInv, ScrollInv, PictureInv
    PROVE  PictureScrolls
<1> SUFFICES ASSUME calm, ScrollKnown, IsRender, place # "idle"
             PROVE  /\ drawn.line = m_current_line /\ drawn.column = Earlier(tile, Tiles - 1)
                    /\ \A i \in 0..7 :
                          ShownTile(drawn.pair, drawn.x, i) =
                              Raised(Expected(drawn.line, Pixel(drawn.column, i)), Top(m_v))
  BY DEF PictureScrolls
<1>1. PICK p, k : p = Aim /\ k = Earlier(tile, Tiles - 1)
  OBVIOUS
<1>2. Known
  BY DEF Known, Drawing
<1>3. /\ p.x \in Byte /\ p.y \in Byte /\ p.nt \in 0..3 /\ m_x = p.x % 8
      /\ p.top = Top(m_v) /\ m_current_line \in Nat
  BY <1>1, <1>2, KnownFrame, SizesTyped DEF DrawsFrameOf, Aim
<1>4. k \in Nat
  BY <1>1, SizesTyped DEF TypeInv, TypeOK, Earlier
<1>5. drawn = [line |-> m_current_line, column |-> k, x |-> p.x % 8,
               pair |-> <<TileOf(p, m_current_line, k), TileOf(p, m_current_line, k + 1)>>]
  BY <1>1, <1>2, <1>3 DEF PictureInv, FollowsPicture, Drawn
<1>6. ASSUME NEW i \in 0..7
      PROVE  ShownTile(<<TileOf(p, m_current_line, k), TileOf(p, m_current_line, k + 1)>>,
                       p.x % 8, i) = Raised(Expected(m_current_line, Pixel(k, i)), p.top)
  BY <1>1, <1>3, <1>4, ShowsTile
<1> QED
  BY <1>1, <1>3, <1>5, <1>6

(* No frame has begun yet. *)
LEMMA PictureInit == Init => PictureInv
BY DEF Init, RegsInit, PictureInv, Known

(***************************************************************************)
(* Whatever registers a program uses, in whatever order, when it has left  *)
(* them alone since the frame began, what is drawn on every line of it is, *)
(* tile by tile and pixel by pixel, the picture at the scroll position it  *)
(* has set: the tile, the row of its pattern and its attributes; also with *)
(* bit 15 of m_v set, which only moves the addresses of the names.         *)
(***************************************************************************)
THEOREM PictureDrawn == Spec => []PictureScrolls
<1>1. TypeInv /\ ReadInv /\ ScrollInv /\ [Next]_vars => ScrollInv'
  BY ScrollStep
<1>2. TypeInv /\ ScrollInv /\ PictureInv /\ [Next]_vars => PictureInv'
  BY PictureStep
<1>3. TypeInv /\ ScrollInv /\ PictureInv => PictureScrolls
  BY FollowedIsShown
<1> QED
  BY TypeInvInit, TypeInvStep, ReadsInit, ReadsStep, ScrollInit, PictureInit, <1>1, <1>2, <1>3,
     PTL DEF Spec

-----------------------------------------------------------------------------
(***************************************************************************)
(* The two sprite flags.                                                   *)
(***************************************************************************)
(* The first sprite of OAM o, and the lines it shows on. *)
Sprite0(o) == [y |-> o[0], tile |-> o[1], attributes |-> Marked(o[2]), x |-> o[3]]
ShowsOn(o, line, h) == o[0] < line /\ line <= o[0] + h /\ o[0] < RenderLines - 1

SpriteRecord == [y : Byte, tile : Byte, attributes : Byte, x : Byte]

(* What an evaluation of o at a line leaves in the eight slots, and what is fetched of them:
   the mark of sprite 0 is only on sprite 0, which is the first slot if it is found. *)
Evaluated(slots, o, line, h) ==
    /\ \A j \in 1..8 : BitOf(slots[j].attributes, 3) = 1 =>
                           slots[j].y = 255 \/ (j = 1 /\ InRange(o[0], line, h))
    /\ InRange(o[0], line, h) => slots[1] = Sprite0(o)

Shown(slots, o, line, h) ==
    /\ \A j \in 1..8 : slots[j].attributes # 255 /\ BitOf(slots[j].attributes, 3) = 1 =>
                           j = 1 /\ ShowsOn(o, line, h)
    /\ ShowsOn(o, line, h) => slots[1] = Sprite0(o)

(* The sprites found and fetched are sprites, and those a frame began with bytes. *)
SlotsTyped ==
    /\ m_secondary_oam \in [1..8 -> SpriteRecord]
    /\ m_prefetched_sprites \in [1..8 -> SpriteRecord]

OriginTyped ==
    /\ \A a \in 0..3 : origin.oam[a] \in Byte
    /\ origin.height \in {8, 16}

(* From the first fetch for the next line on, its sprites have been fetched. *)
Ahead == place = "unused" \/ (place \in {"attribute", "next"} /\ tile >= Tiles)

SpritesFollow ==
    /\ oam = origin.oam /\ m_mask = origin.mask /\ sprite_height = origin.height
    /\ place # "idle" => Evaluated(m_secondary_oam, origin.oam, m_current_line, origin.height)
    /\ Ahead => Shown(m_prefetched_sprites, origin.oam, NextLine, origin.height)
    /\ ~Ahead /\ IsRender =>
          Shown(m_prefetched_sprites, origin.oam, m_current_line, origin.height)

SpriteInv == OriginTyped /\ SlotsTyped /\ (calm /\ Drawing => SpritesFollow)

(* The pre-render line begins with the flags cleared, and shows no hit. *)
Cleared ==
    IsPreRender => /\ m_sprite0_hit_cycle = Never
                   /\ place = "idle" => m_sprite_overflow_cycle = Never

(* How far the line is drawn. *)
DrawnTo ==
    IF place = "idle" THEN 0
    ELSE IF place \in {"attribute", "next"} THEN 8 * (Earlier(tile, Tiles - 1) + 1) ELSE 8 * Tiles

(* Sprite 0 has hit on an earlier line, and the flag is up; or it has not before the dot it
   is drawn to, and the flag is not due; or it has, and the flag is due at the first hit. *)
HitsReported(hits, line, to, cycle) ==
    \/ (\E p \in hits : p[1] < line) /\ cycle = 0
    \/ /\ ~\E p \in hits : p[1] < line
       /\ cycle = Never /\ \A x \in 0..(to - 1) : <<line, x>> \notin hits
    \/ /\ ~\E p \in hits : p[1] < line
       /\ \E x \in 0..(to - 1) : /\ cycle = x + 1 /\ <<line, x>> \in hits
                                 /\ \A n \in 0..(x - 1) : <<line, n>> \notin hits

HitFound == HitsReported(Hits, m_current_line, DrawnTo, m_sprite0_hit_cycle)

(* A calm frame of a known position, whose sprite 0 is not taken for an empty slot. *)
Reported == calm /\ ScrollKnown /\ Marked(origin.oam[2]) # 255

HitInv == Reported /\ ~IsPreRender => HitFound

(* What the lines before this one, and this one once it has begun, say about overflow. *)
Crowded == \/ Cardinality(Crowd(PreRenderLine)) >= 8
           \/ \E line \in LinesBegun : Cardinality(Crowd(line)) >= 8

OverflowFound ==
    /\ m_sprite_overflow_cycle # Never => Crowded
    /\ ~IsPreRender /\ (\E line \in 0..(RenderLines - 1) :
                            line < m_current_line /\ NinthFollows(line))
          => m_sprite_overflow_cycle = 0
    /\ IsRender /\ place # "idle" /\ NinthFollows(m_current_line)
          => m_sprite_overflow_cycle # Never

OverflowInv == calm => OverflowFound

-----------------------------------------------------------------------------
(***************************************************************************)
(* What the evaluation of a line finds, and the fetches pass on.           *)
(***************************************************************************)
(* A flag that never shows is later than any dot. *)
LEMMA NeverIsLate == Never \in Nat /\ Never > 500
BY DEF Never

(* The mark of sprite 0 is in bit 3, and only sprite 0 gets it. *)
LEMMA MarkBits ==
    ASSUME NEW a \in Byte
    PROVE  /\ BitOf(Marked(a), 3) = 1 /\ Marked(a) \in Byte
           /\ BitOf(Unmarked(a), 3) = 0 /\ Unmarked(a) \in Byte
<1>1. \A v \in Int : BitOf(v, 3) = (v \div 8) % 2
  BY DEF BitOf
<1>2. a \in 0..255
  BY DEF Byte
<1>3. BitOf(Marked(a), 3) = 1 /\ Marked(a) \in 0..255
  BY <1>1, <1>2 DEF Marked
<1>4. BitOf(Unmarked(a), 3) = 0 /\ Unmarked(a) \in 0..255
  BY <1>1, <1>2 DEF Unmarked
<1> QED
  BY <1>3, <1>4 DEF Byte

(* What holds of 0, and of each number after one it holds of, holds up to N. *)
LEMMA UpTo ==
    ASSUME NEW N \in Nat, NEW S, 0 \in S, \A n \in 0..(N - 1) : n \in S => n + 1 \in S
    PROVE  \A n \in 0..N : n \in S
<1> DEFINE bad == {n \in 0..N : n \notin S}
<1> SUFFICES ASSUME bad # {} PROVE FALSE
  OBVIOUS
<1>1. PICK n \in bad : \A m \in bad : n <= m
  <2>1. bad \subseteq Nat
    OBVIOUS
  <2> HIDE DEF bad
  <2> QED
    BY <2>1, Smallest
<1>2. n - 1 \in 0..(N - 1) /\ (n - 1) + 1 = n
  BY <1>1
<1>3. n - 1 \in S
  BY <1>1, <1>2
<1> QED
  BY <1>1, <1>2, <1>3

(* found is the function its recursion describes. *)
LEMMA FoundUnfolds ==
    /\ found[0] = <<>>
    /\ \A i \in 1..Sprites :
          found[i] = IF Len(found[i - 1]) < 8
                        /\ InRange(oam[4 * (i - 1)], m_current_line, sprite_height)
                     THEN Append(found[i - 1], SpriteOf(i - 1)) ELSE found[i - 1]
<1> DEFINE After(before, i) ==
             IF Len(before) < 8 /\ InRange(oam[4 * (i - 1)], m_current_line, sprite_height)
             THEN Append(before, SpriteOf(i - 1)) ELSE before
           Is(f, n) == f = [i \in 0..n |-> IF i = 0 THEN <<>> ELSE After(f[i - 1], i)]
<1>1. found = CHOOSE f : Is(f, Sprites)
  BY DEF found
<1> HIDE DEF After
<1>2. Is([i \in 0..0 |-> <<>>], 0)
  OBVIOUS
<1>3. ASSUME NEW n \in Nat, NEW f, Is(f, n)
      PROVE  \E g : Is(g, n + 1)
  <2> DEFINE g == [i \in 0..(n + 1) |-> IF i = n + 1 THEN After(f[n], n + 1) ELSE f[i]]
  <2>1. f[0] = <<>> /\ \A i \in 1..n : f[i] = After(f[i - 1], i)
    <3>1. \A i \in 0..n : f[i] = IF i = 0 THEN <<>> ELSE After(f[i - 1], i)
      BY <1>3
    <3> QED
      BY <3>1
  <2>2. ASSUME NEW i \in 0..(n + 1)
        PROVE  g[i] = IF i = 0 THEN <<>> ELSE After(g[i - 1], i)
    <3>1. CASE i = 0
      BY <2>1, <3>1
    <3>2. CASE i \in 1..n
      BY <2>1, <3>2
    <3>3. CASE i = n + 1
      <4>1. g[i] = After(f[n], i) /\ i - 1 = n /\ n \in 0..(n + 1) /\ n # n + 1
        BY <3>3
      <4>2. g[n] = f[n]
        BY <4>1
      <4> QED
        BY <3>3, <4>1, <4>2
    <3> QED
      BY <3>1, <3>2, <3>3
  <2>3. g = [i \in 0..(n + 1) |-> g[i]]
    OBVIOUS
  <2> HIDE DEF g
  <2>4. g = [i \in 0..(n + 1) |-> IF i = 0 THEN <<>> ELSE After(g[i - 1], i)]
    BY <2>2, <2>3
  <2> QED
    BY <2>4
<1> HIDE DEF Is
<1>4. \E f : Is(f, Sprites)
  <2> DEFINE S == {n \in Nat : \E f : Is(f, n)}
  <2>1. Sprites \in Nat
    BY SizesTyped
  <2>2. 0 \in S
    BY <1>2
  <2>3. \A n \in 0..(Sprites - 1) : n \in S => n + 1 \in S
    BY <1>3
  <2>4. \A n \in 0..Sprites : n \in S
    <3> HIDE DEF S
    <3> QED
      BY <2>1, <2>2, <2>3, UpTo
  <2> QED
    BY <2>1, <2>4
<1>5. Is(found, Sprites)
  BY <1>1, <1>4
<1>6. \A i \in 0..Sprites : found[i] = IF i = 0 THEN <<>> ELSE After(found[i - 1], i)
  BY <1>5 DEF Is
<1>7. 0 \in 0..Sprites /\ \A i \in 1..Sprites : i \in 0..Sprites /\ i # 0
  BY SizesTyped
<1> QED
  BY <1>6, <1>7 DEF After

(* Those of the first i sprites that are in range of the line. *)
Near(i) == {j \in 0..(i - 1) : InRange(oam[4 * j], m_current_line, sprite_height)}

(* One sprite more is one more near, or none. *)
LEMMA NearGrows ==
    ASSUME NEW i \in Nat
    PROVE  /\ IsFiniteSet(Near(i)) /\ Cardinality(Near(i)) \in Nat
           /\ InRange(oam[4 * i], m_current_line, sprite_height) =>
                 /\ Near(i + 1) = Near(i) \cup {i}
                 /\ Cardinality(Near(i + 1)) = Cardinality(Near(i)) + 1
           /\ ~InRange(oam[4 * i], m_current_line, sprite_height) => Near(i + 1) = Near(i)
<1>1. IsFiniteSet(0..(i - 1))
  BY FS_Interval
<1>2. Near(i) \subseteq 0..(i - 1)
  BY DEF Near
<1>3. IsFiniteSet(Near(i)) /\ Cardinality(Near(i)) \in Nat
  BY <1>1, <1>2, FS_Subset, FS_CardinalityType
<1>4. i \notin Near(i) /\ 0..((i + 1) - 1) = 0..(i - 1) \cup {i}
  BY <1>2
<1>5. InRange(oam[4 * i], m_current_line, sprite_height) => Near(i + 1) = Near(i) \cup {i}
  BY <1>4 DEF Near
<1>6. ~InRange(oam[4 * i], m_current_line, sprite_height) => Near(i + 1) = Near(i)
  BY <1>4 DEF Near
<1>7. Cardinality(Near(i) \cup {i}) = Cardinality(Near(i)) + 1
  BY <1>3, <1>4, FS_AddElement
<1> QED
  BY <1>3, <1>5, <1>6, <1>7

(* What is found among the first i sprites: no more than eight, in the order of OAM, the
   first of all first. *)
FoundIn(i) ==
    /\ found[i] \in Seq({SpriteOf(n) : n \in 0..(Sprites - 1)})
    /\ Len(found[i]) = IF Cardinality(Near(i)) < 8 THEN Cardinality(Near(i)) ELSE 8
    /\ \A j \in 1..Len(found[i]) :
          \E n \in 0..(Sprites - 1) : found[i][j] = SpriteOf(n) /\ (n = 0 => j = 1 /\ 0 \in Near(i))
    /\ 0 \in Near(i) => Len(found[i]) >= 1 /\ found[i][1] = SpriteOf(0)

(* The next sprite is added if it is in range and there is room. *)
LEMMA FoundStep ==
    ASSUME NEW i \in 0..(Sprites - 1), FoundIn(i)
    PROVE  FoundIn(i + 1)
<1> DEFINE all == {SpriteOf(n) : n \in 0..(Sprites - 1)}
           before == found[i]
           after == found[i + 1]
<1>1. i \in Nat /\ i + 1 \in 1..Sprites /\ (i + 1) - 1 = i
  BY SizesTyped
<1>2. after = IF Len(before) < 8 /\ InRange(oam[4 * i], m_current_line, sprite_height)
              THEN Append(before, SpriteOf(i)) ELSE before
  BY <1>1, FoundUnfolds
<1>3. before \in Seq(all) /\ SpriteOf(i) \in all /\ Len(before) \in Nat
  BY DEF FoundIn
<1>4. /\ Cardinality(Near(i)) \in Nat
      /\ Len(before) = IF Cardinality(Near(i)) < 8 THEN Cardinality(Near(i)) ELSE 8
  BY <1>1, NearGrows DEF FoundIn
<1>5. 0 \in Near(i + 1)
          <=> 0 \in Near(i) \/ (i = 0 /\ InRange(oam[4 * i], m_current_line, sprite_height))
  BY <1>1, NearGrows
<1>6. CASE ~InRange(oam[4 * i], m_current_line, sprite_height)
  <2>1. after = before /\ Near(i + 1) = Near(i)
    BY <1>1, <1>2, <1>6, NearGrows
  <2> QED
    BY <2>1 DEF FoundIn
<1>7. ASSUME InRange(oam[4 * i], m_current_line, sprite_height), ~(Len(before) < 8)
      PROVE  FoundIn(i + 1)
  <2>1. after = before /\ Cardinality(Near(i + 1)) = Cardinality(Near(i)) + 1
    BY <1>1, <1>2, <1>7, NearGrows
  <2>2. ~(Cardinality(Near(i)) < 8) /\ ~(Cardinality(Near(i + 1)) < 8)
    BY <1>4, <1>7, <2>1
  <2>3. i # 0
    <3>1. Near(0) = {}
      BY DEF Near
    <3> QED
      BY <2>2, <3>1, FS_EmptySet
  <2>4. 0 \in Near(i + 1) <=> 0 \in Near(i)
    BY <1>5, <2>3
  <2> QED
    BY <2>1, <2>2, <2>4 DEF FoundIn
<1>8. ASSUME InRange(oam[4 * i], m_current_line, sprite_height), Len(before) < 8
      PROVE  FoundIn(i + 1)
  <2>1. after = Append(before, SpriteOf(i)) /\ Cardinality(Near(i + 1)) = Cardinality(Near(i)) + 1
    BY <1>1, <1>2, <1>8, NearGrows
  <2>2. /\ after \in Seq(all) /\ Len(after) = Len(before) + 1
        /\ after[Len(before) + 1] = SpriteOf(i)
        /\ \A j \in 1..Len(before) : after[j] = before[j]
    BY <1>3, <2>1
  <2>3. Len(after) = IF Cardinality(Near(i + 1)) < 8 THEN Cardinality(Near(i + 1)) ELSE 8
    BY <1>4, <1>8, <2>1, <2>2
  <2>4. i = 0 => Len(before) = 0
    <3>1. Near(0) = {} /\ Cardinality({}) = 0
      BY FS_EmptySet DEF Near
    <3>2. i = 0 => Cardinality(Near(i)) = 0
      BY <3>1
    <3> QED
      BY <1>4, <3>2
  <2>5. ASSUME NEW j \in 1..Len(after)
        PROVE  \E n \in 0..(Sprites - 1) :
                   after[j] = SpriteOf(n) /\ (n = 0 => j = 1 /\ 0 \in Near(i + 1))
    <3>1. CASE j = Len(before) + 1
      BY <1>5, <1>8, <2>2, <2>4, <3>1
    <3>2. CASE j \in 1..Len(before)
      <4>1. PICK n \in 0..(Sprites - 1) :
                before[j] = SpriteOf(n) /\ (n = 0 => j = 1 /\ 0 \in Near(i))
        BY <3>2 DEF FoundIn
      <4> QED
        BY <1>5, <2>2, <3>2, <4>1
    <3> QED
      BY <1>3, <2>2, <3>1, <3>2
  <2>6. 0 \in Near(i + 1) => Len(after) >= 1 /\ after[1] = SpriteOf(0)
    <3>1. CASE 0 \in Near(i)
      <4>1. Len(before) >= 1 /\ before[1] = SpriteOf(0)
        BY <3>1 DEF FoundIn
      <4>2. 1 \in 1..Len(before)
        BY <1>3, <4>1
      <4>3. after[1] = before[1]
        BY <2>2, <4>2
      <4>4. Len(after) >= 1
        BY <1>3, <2>2
      <4> QED
        BY <4>1, <4>3, <4>4
    <3>2. CASE i = 0
      BY <2>2, <2>4, <3>2
    <3> QED
      BY <1>5, <3>1, <3>2
  <2> QED
    BY <2>2, <2>3, <2>5, <2>6 DEF FoundIn
<1> QED
  BY <1>6, <1>7, <1>8

(* So it is after any number of sprites. *)
LEMMA FoundAll == \A i \in 0..Sprites : FoundIn(i)
<1> DEFINE S == {i \in Nat : FoundIn(i)}
<1>1. 0 \in S
  <2>1. found[0] = <<>> /\ Near(0) = {} /\ Cardinality({}) = 0
    BY FoundUnfolds, FS_EmptySet DEF Near
  <2> DEFINE all == {SpriteOf(n) : n \in 0..(Sprites - 1)}
  <2> HIDE DEF all
  <2>2. <<>> \in Seq(all) /\ Len(<<>>) = 0
    OBVIOUS
  <2>3. found[0] \in Seq(all) /\ Len(found[0]) = 0
    BY <2>1, <2>2
  <2>4. /\ found[0] \in Seq({SpriteOf(n) : n \in 0..(Sprites - 1)})
        /\ Len(found[0]) = 0 /\ 1..0 = {} /\ 0 \notin Near(0)
    BY <2>1, <2>3 DEF all
  <2>5. Len(found[0]) = IF Cardinality(Near(0)) < 8 THEN Cardinality(Near(0)) ELSE 8
    <3>1. Cardinality(Near(0)) = 0
      BY <2>1
    <3>2. Cardinality(Near(0)) < 8
      BY <3>1
    <3> QED
      BY <2>4, <3>1, <3>2
  <2>6. \A j \in 1..Len(found[0]) : FALSE
    BY <2>4
  <2>7. FoundIn(0)
    BY <2>4, <2>5, <2>6 DEF FoundIn
  <2> QED
    BY <2>7
<1>2. \A i \in 0..(Sprites - 1) : i \in S => i + 1 \in S
  BY FoundStep
<1>3. Sprites \in Nat
  BY SizesTyped
<1> HIDE DEF S
<1>4. \A i \in 0..Sprites : i \in S
  BY <1>1, <1>2, <1>3, UpTo
<1> QED
  BY <1>4 DEF S

(* A sprite of OAM is four bytes of it, and only the first carries the mark. *)
LEMMA OamIsBytes ==
    ASSUME RegsTypeOK, NEW n \in 0..(Sprites - 1)
    PROVE  /\ oam[4 * n] \in Byte /\ oam[(4 * n) + 1] \in Byte
           /\ oam[(4 * n) + 2] \in Byte /\ oam[(4 * n) + 3] \in Byte
           /\ SpriteOf(n) \in SpriteRecord
           /\ n # 0 => BitOf(SpriteOf(n).attributes, 3) = 0
           /\ n = 0 => SpriteOf(n) = Sprite0(oam)
<1>1. /\ 4 * n \in DOMAIN oam /\ (4 * n) + 1 \in DOMAIN oam
      /\ (4 * n) + 2 \in DOMAIN oam /\ (4 * n) + 3 \in DOMAIN oam
  BY SizesTyped DEF RegsTypeOK, OamSize
<1>2. /\ oam[4 * n] \in Byte /\ oam[(4 * n) + 1] \in Byte
      /\ oam[(4 * n) + 2] \in Byte /\ oam[(4 * n) + 3] \in Byte
  BY <1>1 DEF RegsTypeOK
<1>3. CASE n = 0
  <2>1. /\ oam[4 * n] = oam[0] /\ oam[(4 * n) + 1] = oam[1]
        /\ oam[(4 * n) + 2] = oam[2] /\ oam[(4 * n) + 3] = oam[3]
    BY <1>3
  <2>2. SpriteOf(n) = Sprite0(oam)
    BY <1>3, <2>1 DEF SpriteOf, Sprite0
  <2>3. Sprite0(oam) \in SpriteRecord
    BY <1>2, <2>1, MarkBits DEF Sprite0, SpriteRecord
  <2> QED
    BY <1>2, <1>3, <2>2, <2>3
<1>4. CASE n # 0
  <2>1. SpriteOf(n) = [y |-> oam[4 * n], tile |-> oam[(4 * n) + 1], x |-> oam[(4 * n) + 3],
                       attributes |-> Unmarked(oam[(4 * n) + 2])]
    BY <1>4 DEF SpriteOf
  <2>2. SpriteOf(n) \in SpriteRecord /\ BitOf(SpriteOf(n).attributes, 3) = 0
    BY <1>2, <2>1, MarkBits DEF SpriteRecord
  <2> QED
    BY <1>2, <1>4, <2>2
<1> QED
  BY <1>3, <1>4

(* An evaluation leaves in the slots what it should. *)
LEMMA Evaluates ==
    ASSUME RegsTypeOK
    PROVE  /\ sprite_evaluation \in [1..8 -> SpriteRecord]
           /\ Evaluated(sprite_evaluation, oam, m_current_line, sprite_height)
<1> DEFINE all == found[Sprites]
           slots == sprite_evaluation
           hit == InRange(oam[0], m_current_line, sprite_height)
<1>1. /\ Len(all) \in Nat
      /\ \A j \in 1..Len(all) :
            \E n \in 0..(Sprites - 1) :
                all[j] = SpriteOf(n) /\ (n = 0 => j = 1 /\ 0 \in Near(Sprites))
      /\ 0 \in Near(Sprites) => Len(all) >= 1 /\ all[1] = SpriteOf(0)
  <2>1. Sprites \in 0..Sprites /\ Sprites \in Nat
    BY SizesTyped
  <2>2. FoundIn(Sprites)
    BY <2>1, FoundAll
  <2>3. Len(all) \in Nat
    BY <2>2 DEF FoundIn
  <2> QED
    BY <2>2, <2>3 DEF FoundIn
<1>2. 0 \in Near(Sprites) <=> hit
  <2>1. 0 \in 0..(Sprites - 1) /\ 4 * 0 = 0
    BY SizesTyped
  <2> QED
    BY <2>1 DEF Near
<1>3. slots = [j \in 1..8 |-> IF j <= Len(all) THEN all[j] ELSE EmptySlot]
  BY DEF sprite_evaluation
<1>4. EmptySlot \in SpriteRecord /\ EmptySlot.y = 255
  BY DEF EmptySlot, SpriteRecord, Byte
<1> HIDE DEF all, slots, hit
<1>5. ASSUME NEW j \in 1..8
      PROVE  /\ slots[j] \in SpriteRecord
             /\ BitOf(slots[j].attributes, 3) = 1 => slots[j].y = 255 \/ (j = 1 /\ hit)
  <2>1. CASE j <= Len(all)
    <3>1. j \in 1..Len(all) /\ slots[j] = all[j]
      BY <1>1, <1>3, <2>1
    <3>2. PICK n \in 0..(Sprites - 1) :
              slots[j] = SpriteOf(n) /\ (n = 0 => j = 1 /\ 0 \in Near(Sprites))
      BY <1>1, <3>1
    <3>3. BitOf(slots[j].attributes, 3) = 1 => n = 0
      BY <3>2, OamIsBytes
    <3> QED
      BY <1>2, <3>2, <3>3, OamIsBytes
  <2>2. CASE ~(j <= Len(all))
    <3>1. slots[j] = EmptySlot
      BY <1>3, <2>2
    <3> QED
      BY <1>4, <3>1
  <2> QED
    BY <2>1, <2>2
<1>6. hit => slots[1] = Sprite0(oam)
  <2>1. 0 \in 0..(Sprites - 1) /\ 1 \in 1..8
    BY SizesTyped
  <2>2. hit => slots[1] = SpriteOf(0)
    BY <1>1, <1>2, <1>3, <2>1
  <2> QED
    BY <2>1, <2>2, OamIsBytes
<1>7. slots \in [1..8 -> SpriteRecord]
  BY <1>3, <1>5
<1> QED
  BY <1>5, <1>6, <1>7 DEF Evaluated, slots, hit

(* Each slot is fetched, or marked invalid if its sprite begins below the picture. *)
LEMMA PrefetchesEach ==
    ASSUME SlotsTyped, NEW j \in 1..8
    PROVE  /\ prefetch_sprites[j] \in SpriteRecord
           /\ m_secondary_oam[j].y >= RenderLines - 1 => prefetch_sprites[j].attributes = 255
           /\ m_secondary_oam[j].y < RenderLines - 1 => prefetch_sprites[j] = m_secondary_oam[j]
<1>1. PICK s \in SpriteRecord, t \in SpriteRecord :
          s = m_secondary_oam[j] /\ t = m_prefetched_sprites[j]
  BY DEF SlotsTyped
<1> DEFINE e == [t EXCEPT !.attributes = 255]
<1>2. prefetch_sprites[j] = IF s.y >= RenderLines - 1 THEN e ELSE s
  BY <1>1 DEF prefetch_sprites
<1>3. e \in SpriteRecord /\ e.attributes = 255
  <2>1. 255 \in Byte
    BY DEF Byte
  <2> QED
    BY <2>1 DEF SpriteRecord
<1> HIDE DEF e
<1>4. s.y < RenderLines - 1 <=> ~(s.y >= RenderLines - 1)
  <2>1. s.y \in 0..255
    BY DEF SpriteRecord, Byte
  <2> QED
    BY <2>1, SizesTyped
<1>5. CASE s.y >= RenderLines - 1
  BY <1>1, <1>2, <1>3, <1>4, <1>5
<1>6. CASE ~(s.y >= RenderLines - 1)
  BY <1>1, <1>2, <1>4, <1>6
<1> QED
  BY <1>5, <1>6

(* So what is fetched are sprites. *)
LEMMA PrefetchTyped ==
    ASSUME SlotsTyped
    PROVE  prefetch_sprites \in [1..8 -> SpriteRecord]
<1>1. prefetch_sprites = [j \in 1..8 |-> prefetch_sprites[j]]
  BY DEF prefetch_sprites
<1>2. \A j \in 1..8 : prefetch_sprites[j] \in SpriteRecord
  BY PrefetchesEach
<1> QED
  BY <1>1, <1>2

(* The sprites of the slots are fetched for the next line. *)
LEMMA Prefetches ==
    ASSUME SlotsTyped, NEW o, o[0] \in Byte, NEW h \in {8, 16},
           m_current_line \in 0..PreRenderLine, IsRender \/ IsPreRender,
           NEW line, line = m_current_line, Evaluated(m_secondary_oam, o, line, h)
    PROVE  Shown(prefetch_sprites, o, NextLine, h)
<1>1. RenderLines \in 1..240 /\ PreRenderLine \in Nat /\ PreRenderLine >= RenderLines + 16
  BY SizeAssumption DEF PreRenderLine
<1>2. o[0] \in 0..255 /\ line \in Nat
  BY <1>1 DEF Byte
<1>3. ShowsOn(o, NextLine, h) <=> InRange(o[0], line, h) /\ o[0] < RenderLines - 1
  <2>1. CASE IsPreRender
    <3>1. NextLine = 0 /\ line = PreRenderLine
      BY <2>1 DEF NextLine, IsPreRender
    <3> QED
      BY <1>1, <1>2, <3>1 DEF ShowsOn, InRange
  <2>2. CASE IsRender
    <3>1. NextLine = line + 1
      BY <1>1, <1>2, <2>2 DEF NextLine, IsPreRender, IsRender
    <3> QED
      BY <1>1, <1>2, <3>1 DEF ShowsOn, InRange
  <2> QED
    BY <2>1, <2>2
<1>4. PICK slots : slots = prefetch_sprites
  OBVIOUS
<1>5. ASSUME NEW j \in 1..8, slots[j].attributes # 255, BitOf(slots[j].attributes, 3) = 1
      PROVE  j = 1 /\ ShowsOn(o, NextLine, h)
  <2>1. PICK s \in SpriteRecord : s = m_secondary_oam[j]
    BY DEF SlotsTyped
  <2>2. s.y \in 0..255
    BY DEF SpriteRecord, Byte
  <2>3. ~(s.y >= RenderLines - 1)
    BY <1>4, <1>5, <2>1, PrefetchesEach
  <2>4. s.y < RenderLines - 1 /\ s.y # 255
    BY <1>1, <2>2, <2>3
  <2>5. slots[j] = s
    BY <1>4, <2>1, <2>4, PrefetchesEach
  <2>6. BitOf(s.attributes, 3) = 1 => s.y = 255 \/ (j = 1 /\ InRange(o[0], line, h))
    BY <2>1 DEF Evaluated
  <2>7. j = 1 /\ InRange(o[0], line, h)
    BY <1>5, <2>4, <2>5, <2>6
  <2>8. s = Sprite0(o)
    BY <2>1, <2>7 DEF Evaluated
  <2>9. s.y = o[0]
    BY <2>8 DEF Sprite0
  <2> QED
    BY <1>3, <2>4, <2>7, <2>9
<1>6. ASSUME ShowsOn(o, NextLine, h) PROVE slots[1] = Sprite0(o)
  <2>1. m_secondary_oam[1] = Sprite0(o)
    BY <1>3, <1>6 DEF Evaluated
  <2>2. m_secondary_oam[1].y < RenderLines - 1 /\ 1 \in 1..8
    BY <1>3, <1>6, <2>1 DEF Sprite0
  <2> QED
    BY <1>4, <2>1, <2>2, PrefetchesEach
<1> QED
  BY <1>4, <1>5, <1>6 DEF Shown

(* Of two numbers of OAM, the sprites near before the first are near before the second. *)
LEMMA NearWithin ==
    ASSUME NEW i \in Nat, NEW k \in 0..i
    PROVE  Cardinality(Near(k)) <= Cardinality(Near(i)) /\ Cardinality(Near(i)) <= i
<1>1. k \in Nat /\ i \in Int
  OBVIOUS
<1>2. Near(k) \subseteq Near(i)
  BY <1>1 DEF Near
<1>3. Cardinality(Near(k)) <= Cardinality(Near(i))
  BY <1>2, NearGrows, FS_Subset
<1>4. Near(i) \subseteq 0..(i - 1) /\ IsFiniteSet(0..(i - 1)) /\ Cardinality(0..(i - 1)) = i
  BY FS_Interval DEF Near
<1>5. Cardinality(Near(i)) <= i
  BY <1>4, FS_Subset
<1> QED
  BY <1>3, <1>5

(* Eight are found among the first n only if as many are in range. *)
LEMMA EightFound ==
    ASSUME NEW n \in 0..Sprites, Len(found[n]) = 8
    PROVE  Cardinality(Near(n)) >= 8
<1>1. n \in Nat
  OBVIOUS
<1>2. FoundIn(n)
  BY FoundAll
<1>3. PICK c : c = Cardinality(Near(n))
  OBVIOUS
<1>4. c \in Nat
  BY <1>1, <1>3, NearGrows
<1>5. 8 = IF c < 8 THEN c ELSE 8
  BY <1>2, <1>3 DEF FoundIn
<1> QED
  BY <1>3, <1>4, <1>5

(* Overflow is only reported where eight sprites are found. *)
LEMMA OverflowIsCrowd ==
    ASSUME do_buggy_overflow_evaluation # Never
    PROVE  Cardinality(Near(Sprites)) >= 8
<1>1. PICK n \in 8..(Sprites - 1) : Len(found[n]) = 8
  BY DEF do_buggy_overflow_evaluation
<1>2. n \in 0..Sprites /\ n \in Nat /\ Sprites \in Nat
  BY <1>1, SizesTyped
<1>4. Cardinality(Near(n)) >= 8
  BY <1>1, <1>2, EightFound
<1>5. Cardinality(Near(n)) <= Cardinality(Near(Sprites))
  BY <1>2, NearWithin
<1> QED
  BY <1>2, <1>4, <1>5, NearGrows

(* It is reported where the sprite right after the eighth is in range. *)
LEMMA NinthIsReported ==
    ASSUME NEW i \in Near(Sprites), Cardinality(Near(i)) = 8, i - 1 \in Near(Sprites)
    PROVE  do_buggy_overflow_evaluation # Never
<1> DEFINE full == {n \in 8..(Sprites - 1) : Len(found[n]) = 8}
           start == CHOOSE n \in full : \A k \in full : n <= k
           hits == {n \in full : InRange(oam[(4 * n) + ((n - start) % 4)],
                                         m_current_line, sprite_height)}
           first == CHOOSE n \in hits : \A k \in hits : n <= k
<1>1. do_buggy_overflow_evaluation = IF hits = {} THEN Never ELSE OverflowDot(first)
  BY DEF do_buggy_overflow_evaluation
<1>2. /\ i \in 0..(Sprites - 1) /\ i \in Nat /\ i - 1 \in Nat /\ (i - 1) + 1 = i
      /\ i - 1 \in 0..Sprites /\ i \in 0..Sprites
  BY SizesTyped DEF Near
<1>3. /\ InRange(oam[4 * i], m_current_line, sprite_height)
      /\ InRange(oam[4 * (i - 1)], m_current_line, sprite_height)
  BY DEF Near
<1>4. i >= 8
  BY <1>2, NearWithin
<1>5. Len(found[i]) = 8
  BY <1>2, FoundAll DEF FoundIn
<1>6. i \in full
  BY <1>2, <1>4, <1>5
<1>7. Cardinality(Near(i - 1)) = 7
  <2>1. Cardinality(Near(i)) = Cardinality(Near(i - 1)) + 1 /\ Cardinality(Near(i - 1)) \in Nat
    BY <1>2, <1>3, NearGrows
  <2> QED
    BY <2>1
<1>8. ASSUME NEW k \in full, k < i PROVE FALSE
  <2>1. k \in 0..(i - 1) /\ k \in 0..Sprites /\ k \in Nat /\ Len(found[k]) = 8
    BY <1>2, <1>8, SizesTyped
  <2>3. Cardinality(Near(k)) >= 8 /\ Cardinality(Near(k)) \in Nat
    BY <2>1, EightFound, NearGrows
  <2>4. Cardinality(Near(k)) <= 7
    BY <1>2, <1>7, <2>1, NearWithin
  <2> QED
    BY <2>3, <2>4
<1>9. full \subseteq Nat /\ hits \subseteq full
  BY SizesTyped
<1> HIDE DEF full
<1>10. start \in full /\ start <= i
  BY <1>6, <1>9, Smallest
<1> HIDE DEF start
<1>11. start = i
  BY <1>2, <1>8, <1>9, <1>10
<1>12. (4 * i) + ((i - start) % 4) = 4 * i
  BY <1>2, <1>11
<1>13. i \in hits
  BY <1>3, <1>6, <1>12
<1> HIDE DEF hits
<1>14. first \in hits
  BY <1>9, <1>13, Smallest
<1> HIDE DEF first
<1>15. first \in 8..(Sprites - 1)
  BY <1>9, <1>14 DEF full
<1>16. OverflowDot(first) \in Nat /\ OverflowDot(first) <= 400
  BY <1>15, SizesTyped DEF OverflowDot
<1> QED
  BY <1>1, <1>13, <1>16, NeverIsLate

-----------------------------------------------------------------------------
(***************************************************************************)
(* The sprites of a calm frame follow its OAM from line to line.           *)
(***************************************************************************)
(* The sprites of a frame begin with those of OAM. *)
LEMMA SpriteInit == Init => SpriteInv
<1> SUFFICES ASSUME Init PROVE SpriteInv
  OBVIOUS
<1>1. OriginTyped
  <2>1. RegsTypeOK /\ origin.oam = oam /\ origin.height = sprite_height
    BY TypeInvInit DEF Init, TypeInv, TypeOK
  <2>2. \A a \in 0..3 : a \in DOMAIN oam
    BY <2>1, SizesTyped DEF RegsTypeOK, OamSize
  <2> QED
    BY <2>1, <2>2 DEF OriginTyped, RegsTypeOK, sprite_height
<1>2. SlotsTyped
  <2>1. NoSprite \in SpriteRecord
    BY DEF NoSprite, SpriteRecord, Byte
  <2> QED
    BY <2>1 DEF Init, SlotsTyped
<1>3. ~calm
  BY DEF Init, RegsInit
<1> QED
  BY <1>1, <1>2, <1>3 DEF SpriteInv

(* What is evaluated and fetched are sprites, and a frame begins with the OAM there is. *)
LEMMA SpritesStayTyped ==
    ASSUME TypeInv, SpriteInv, PpuStep
    PROVE  OriginTyped' /\ SlotsTyped'
<1>1. RegsTypeOK /\ OriginTyped /\ SlotsTyped
  BY DEF TypeInv, TypeOK, SpriteInv
<1>2. ASSUME LineBegins PROVE OriginTyped' /\ SlotsTyped'
  <2>1. m_secondary_oam' \in {m_secondary_oam, sprite_evaluation} /\ UNCHANGED m_prefetched_sprites
    BY <1>2 DEF LineBegins
  <2>2. sprite_evaluation \in [1..8 -> SpriteRecord]
    BY <1>1, Evaluates
  <2>3. origin' = origin \/ (origin'.oam = oam /\ origin'.height = sprite_height)
    BY <1>2 DEF LineBegins
  <2>4. \A a \in 0..3 : a \in DOMAIN oam
    BY <1>1, SizesTyped DEF RegsTypeOK, OamSize
  <2>5. OriginTyped'
    BY <1>1, <2>3, <2>4 DEF OriginTyped, RegsTypeOK, sprite_height
  <2> QED
    BY <1>1, <2>1, <2>2, <2>5 DEF SlotsTyped
<1>3. ASSUME PrefetchSprites PROVE OriginTyped' /\ SlotsTyped'
  <2>1. m_prefetched_sprites' = prefetch_sprites /\ UNCHANGED <<m_secondary_oam, origin>>
    BY <1>3 DEF PrefetchSprites
  <2> QED
    BY <1>1, <2>1, PrefetchTyped DEF OriginTyped, SlotsTyped
<1>4. ASSUME UNCHANGED <<sprites, origin>> PROVE OriginTyped' /\ SlotsTyped'
  BY <1>1, <1>4 DEF OriginTyped, SlotsTyped, sprites
<1>5. FetchAttribute \/ NextTile \/ LastTile \/ NextLineTile \/ LastFetch \/ EndLine \/ IdleLine
         => UNCHANGED <<sprites, origin>>
  BY DEF FetchAttribute, NextTile, LastTile, NextLineTile, LastFetch, EndLine, IdleLine, LineEnds
<1> QED
  BY <1>2, <1>3, <1>4, <1>5 DEF PpuStep

(* A calm frame begins with the evaluation of its OAM. *)
LEMMA SpritesBegin ==
    ASSUME TypeInv, FrameBegins, calm'
    PROVE  SpritesFollow'
<1>1. /\ place' = "attribute" /\ tile' = 0 /\ UNCHANGED <<m_current_line, oam, m_mask, m_ctrl>>
      /\ rendering_enabled /\ IsPreRender
      /\ origin'.oam = oam /\ origin'.mask = m_mask /\ origin'.height = sprite_height
      /\ m_secondary_oam' = sprite_evaluation
  BY DEF FrameBegins, LineBegins, Step, untouched, oams
<1>2. Evaluated(sprite_evaluation, oam, m_current_line, sprite_height)
  BY Evaluates DEF TypeInv, TypeOK
<1>3. sprite_height' = sprite_height
  BY <1>1 DEF sprite_height, BitOf
<1>4. ~Ahead' /\ ~IsRender'
  BY <1>1, SizesTyped DEF Ahead, IsRender, IsPreRender
<1> QED
  BY <1>1, <1>2, <1>3, <1>4 DEF SpritesFollow

(* From line to line they follow it. *)
LEMMA SpritesGoOn ==
    ASSUME TypeInv, ScrollInv, SpriteInv, PpuStep, calm, Drawing, UNCHANGED origin,
           ~(LineBegins /\ IsPreRender)
    PROVE  SpritesFollow'
<1> USE SizesTyped
<1>1. /\ SpritesFollow /\ SlotsTyped /\ OriginTyped /\ rendering_enabled
      /\ m_current_line \in 0..PreRenderLine /\ tile \in 0..(Tiles + 1)
      /\ IsRender \/ IsPreRender
  BY DEF SpriteInv, ScrollInv, TypeInv, TypeOK, Drawing
<1>2. UNCHANGED <<oam, m_mask, m_ctrl>>
  BY StepsLeaveRegisters DEF untouched, oams
<1>3. oam' = origin'.oam /\ m_mask' = origin'.mask /\ sprite_height' = origin'.height
  BY <1>1, <1>2 DEF SpritesFollow, sprite_height, BitOf
<1>4. ASSUME LineBegins PROVE SpritesFollow'
  <2>1. /\ place = "idle" /\ place' = "attribute" /\ tile' = 0
        /\ m_secondary_oam' = sprite_evaluation
        /\ UNCHANGED <<m_current_line, m_prefetched_sprites>>
    BY <1>1, <1>4 DEF LineBegins, Step
  <2>2. Evaluated(sprite_evaluation, oam, m_current_line, sprite_height)
    BY Evaluates DEF TypeInv, TypeOK
  <2>3. ~Ahead /\ ~Ahead' /\ IsRender
    BY <1>1, <1>4, <2>1 DEF Ahead
  <2> QED
    BY <1>1, <1>3, <2>1, <2>2, <2>3 DEF SpritesFollow
<1>5. ASSUME UNCHANGED <<sprites, m_current_line>>, Ahead' <=> Ahead, place # "idle"
      PROVE  SpritesFollow'
  <2>1. UNCHANGED <<m_secondary_oam, m_prefetched_sprites>>
    BY <1>5 DEF sprites
  <2>2. NextLine' = NextLine /\ IsRender' = IsRender
    BY <1>5 DEF NextLine, IsRender, IsPreRender
  <2> QED
    BY <1>1, <1>3, <1>5, <2>1, <2>2 DEF SpritesFollow
<1>6. ASSUME FetchAttribute \/ NextTile \/ LastTile \/ NextLineTile \/ LastFetch
      PROVE  SpritesFollow'
  <2>1. UNCHANGED <<sprites, m_current_line>>
    BY <1>6 DEF FetchAttribute, NextTile, LastTile, NextLineTile, LastFetch
  <2>2. place # "idle" /\ (Ahead' <=> Ahead)
    <3>1. CASE FetchAttribute
      BY <3>1 DEF FetchAttribute, Step, Ahead
    <3>2. CASE NextTile
      BY <1>1, <3>2 DEF NextTile, Step, Ahead
    <3>3. CASE LastTile
      BY <1>1, <3>3 DEF LastTile, Step, Ahead
    <3>4. CASE NextLineTile
      BY <1>1, <3>4 DEF NextLineTile, Step, Ahead
    <3>5. CASE LastFetch
      BY <1>1, <3>5 DEF LastFetch, Step, Ahead
    <3> QED
      BY <1>6, <3>1, <3>2, <3>3, <3>4, <3>5
  <2> QED
    BY <1>5, <2>1, <2>2
<1>7. ASSUME PrefetchSprites PROVE SpritesFollow'
  <2>1. /\ place = "sprites" /\ place' = "attribute" /\ tile' = Tiles
        /\ m_prefetched_sprites' = prefetch_sprites /\ UNCHANGED <<m_secondary_oam, m_current_line>>
    BY <1>7 DEF PrefetchSprites, Step
  <2>2. Evaluated(m_secondary_oam, origin.oam, m_current_line, origin.height)
    BY <1>1, <2>1 DEF SpritesFollow
  <2>3. origin.oam[0] \in Byte /\ origin.height \in {8, 16}
    BY <1>1 DEF OriginTyped
  <2>4. PICK o, h, line : o = origin.oam /\ h = origin.height /\ line = m_current_line
    OBVIOUS
  <2>5. Shown(prefetch_sprites, o, NextLine, h)
    BY <1>1, <2>2, <2>3, <2>4, Prefetches
  <2>6. Ahead' /\ NextLine' = NextLine
    BY <2>1 DEF Ahead, NextLine, IsPreRender
  <2> QED
    BY <1>3, <2>1, <2>2, <2>4, <2>5, <2>6 DEF SpritesFollow
<1>8. ASSUME EndLine PROVE SpritesFollow'
  <2>1. /\ place = "unused" /\ place' = "idle" /\ m_current_line' = NextLine
        /\ UNCHANGED m_prefetched_sprites
    BY <1>8 DEF EndLine, Step, LineEnds, NextLine, sprites
  <2>2. Ahead /\ ~Ahead'
    BY <2>1 DEF Ahead
  <2> QED
    BY <1>1, <1>3, <2>1, <2>2 DEF SpritesFollow
<1>9. ~IdleLine
  BY <1>1, BlankIsNotDrawn DEF IdleLine
<1> QED
  BY <1>4, <1>6, <1>7, <1>8, <1>9 DEF PpuStep

(* No step, of the PPU or of the program, parts the sprites from the frame they belong to. *)
LEMMA SpriteStep ==
    ASSUME TypeInv, ScrollInv, SpriteInv, [Next]_vars
    PROVE  SpriteInv'
<1>1. CASE PpuStep
  <2>1. ASSUME calm', Drawing' PROVE SpritesFollow'
    BY <1>1, <2>1, GoesOnDrawing, SpritesBegin, SpritesGoOn
  <2> QED
    BY <1>1, <2>1, SpritesStayTyped DEF SpriteInv
<1>2. ASSUME UNCHANGED <<origin, sprites, m_current_line, place, tile>>,
             calm' /\ Drawing => UNCHANGED <<calm, m_mask, m_ctrl, oam>>
      PROVE  SpriteInv'
  <2>1. OriginTyped' /\ SlotsTyped' /\ UNCHANGED <<m_secondary_oam, m_prefetched_sprites>>
    BY <1>2 DEF SpriteInv, OriginTyped, SlotsTyped, sprites
  <2>2. /\ Drawing' = Drawing /\ NextLine' = NextLine /\ IsRender' = IsRender
        /\ Ahead' = Ahead
    BY <1>2 DEF Drawing, NextLine, IsRender, IsPreRender, Ahead
  <2>3. ASSUME calm', Drawing' PROVE SpritesFollow'
    <3>1. UNCHANGED <<calm, m_mask, m_ctrl, oam>> /\ SpritesFollow
      BY <1>2, <2>2, <2>3 DEF SpriteInv
    <3>2. sprite_height' = sprite_height
      BY <3>1 DEF sprite_height, BitOf
    <3> QED
      BY <1>2, <2>1, <2>2, <3>1, <3>2 DEF SpritesFollow
  <2> QED
    BY <2>1, <2>3 DEF SpriteInv
<1>3. CASE UNCHANGED vars
  BY <1>2, <1>3 DEF vars, regs, render, oams
<1>4. CASE CpuAccess /\ UNCHANGED render
  <2>1. UNCHANGED <<origin, sprites, m_current_line, place, tile>>
    BY <1>4 DEF render
  <2>2. Drawing => ~Blank
    BY BlankIsNotDrawn DEF TypeInv, TypeOK
  <2>3. calm' /\ Drawing => UNCHANGED <<calm, m_mask, m_ctrl, oam>>
    BY <1>4, <2>2, CalmAccess
  <2> QED
    BY <1>2, <2>1, <2>3
<1> QED
  BY <1>1, <1>3, <1>4 DEF Next

-----------------------------------------------------------------------------
(***************************************************************************)
(* Where sprite 0 hits.                                                    *)
(***************************************************************************)
(* The mark leaves the bit that flips a sprite alone. *)
LEMMA FlipKept ==
    ASSUME NEW a \in Byte
    PROVE  BitOf(Marked(a), 6) = BitOf(a, 6)
<1>1. \A v \in Int : BitOf(v, 3) = (v \div 8) % 2 /\ BitOf(v, 6) = (v \div 64) % 2
  BY DEF BitOf
<1>2. a \in 0..255
  BY DEF Byte
<1>3. CASE (a \div 8) % 2 = 1
  BY <1>1, <1>2, <1>3 DEF Marked
<1>4. CASE (a \div 8) % 2 # 1
  <2>1. Marked(a) = a + 8
    BY <1>1, <1>2, <1>4 DEF Marked
  <2>2. a + 8 \in Int /\ a \in Int /\ (a + 8) \div 64 = a \div 64
    BY <1>2, <1>4
  <2>3. BitOf(a + 8, 6) = ((a + 8) \div 64) % 2 /\ BitOf(a, 6) = (a \div 64) % 2
    BY <1>1, <2>2
  <2> QED
    BY <2>1, <2>2, <2>3
<1> QED
  BY <1>3, <1>4

(* A pixel hits where sprite 0 shows on the line, opaque, over an opaque background. *)
LEMMA HitIs ==
    ASSUME OriginTyped, NEW line \in Nat, NEW x \in Nat, NEW o, o = origin.oam, Marked(o[2]) # 255
    PROVE  <<line, x>> \in Hits <=>
               /\ ShowsOn(o, line, origin.height) /\ line < RenderLines /\ x < (8 * Tiles) - 1
               /\ MaskBit(3) /\ MaskBit(4) /\ (x < 8 => MaskBit(1) /\ MaskBit(2))
               /\ SpriteOpaque(Sprite0(o), x)
               /\ Expected(line, x).nt % 32 \in case.solid
<1>1. PICK y, t, a, at, h : y = o[0] /\ t = o[1] /\ a = o[2] /\ at = o[3] /\ h = origin.height
  OBVIOUS
<1>2. y \in Byte /\ t \in Byte /\ a \in Byte /\ at \in Byte /\ h \in {8, 16}
  BY <1>1 DEF OriginTyped
<1>3. y \in 0..255 /\ at \in 0..255
  BY <1>2 DEF Byte
<1> DEFINE flip == BitOf(a, 6) = 1
           Lit == OpaqueAt(t, IF flip THEN 7 - (x - at) ELSE x - at)
           Masked == MaskBit(3) /\ MaskBit(4) /\ (x < 8 => MaskBit(1) /\ MaskBit(2))
           Over == Expected(line, x).nt % 32 \in case.solid
<1>4. <<line, x>> \in Hits <=>
          /\ line \in (y + 1)..(y + h) /\ x \in at..(at + 7)
          /\ line < RenderLines /\ x < (8 * Tiles) - 1 /\ y < RenderLines - 1
          /\ Masked /\ Lit /\ Over
  BY <1>1 DEF Hits
<1>5. SpriteOpaque(Sprite0(o), x) <=> x >= at /\ x < at + 8 /\ Lit
  <2>1. Sprite0(o) = [y |-> y, tile |-> t, attributes |-> Marked(a), x |-> at] /\ Marked(a) # 255
    BY <1>1 DEF Sprite0
  <2>2. BitOf(Marked(a), 6) = BitOf(a, 6)
    BY <1>2, FlipKept
  <2> QED
    BY <2>1, <2>2 DEF SpriteOpaque
<1>6. ShowsOn(o, line, origin.height) <=> y < line /\ line <= y + h /\ y < RenderLines - 1
  BY <1>1 DEF ShowsOn
<1> HIDE DEF Lit, Masked, Over
<1>7. line \in (y + 1)..(y + h) <=> y < line /\ line <= y + h
  BY <1>2, <1>3
<1>8. x \in at..(at + 7) <=> x >= at /\ x < at + 8
  BY <1>3
<1> QED
  BY <1>4, <1>5, <1>6, <1>7, <1>8 DEF Masked, Over

(* The first opaque sprite at a pixel is sprite 0 if that is opaque there, and no other
   carries its mark. *)
LEMMA FirstOpaque ==
    ASSUME NEW slots, NEW o, NEW line, NEW h, Shown(slots, o, line, h), o[2] \in Byte,
           Marked(o[2]) # 255, NEW x, NEW over, over = {j \in 1..8 : SpriteOpaque(slots[j], x)},
           NEW first, first = CHOOSE j \in over : \A n \in over : j <= n
    PROVE  over # {} /\ BitOf(slots[first].attributes, 3) = 1
               <=> ShowsOn(o, line, h) /\ SpriteOpaque(Sprite0(o), x)
<1>1. over \subseteq Nat /\ \A j \in over : j \in 1..8 /\ SpriteOpaque(slots[j], x)
  OBVIOUS
<1>2. over # {} => first \in over /\ \A n \in over : first <= n
  BY <1>1, Smallest
<1>3. ASSUME over # {}, BitOf(slots[first].attributes, 3) = 1
      PROVE  ShowsOn(o, line, h) /\ SpriteOpaque(Sprite0(o), x)
  <2>1. first \in 1..8 /\ SpriteOpaque(slots[first], x)
    BY <1>1, <1>2, <1>3
  <2>2. slots[first].attributes # 255
    BY <2>1 DEF SpriteOpaque
  <2>3. first = 1 /\ ShowsOn(o, line, h)
    BY <1>3, <2>1, <2>2 DEF Shown
  <2> QED
    BY <2>1, <2>3 DEF Shown
<1>4. ASSUME ShowsOn(o, line, h), SpriteOpaque(Sprite0(o), x)
      PROVE  over # {} /\ BitOf(slots[first].attributes, 3) = 1
  <2>1. slots[1] = Sprite0(o)
    BY <1>4 DEF Shown
  <2>2. 1 \in over
    BY <1>4, <2>1
  <2>3. first = 1
    BY <1>1, <1>2, <2>2
  <2>4. Sprite0(o).attributes = Marked(o[2])
    BY DEF Sprite0
  <2> QED
    BY <2>1, <2>2, <2>3, <2>4, MarkBits
<1> QED
  BY <1>3, <1>4

(* In a calm frame a tile is drawn with the hits that belong to it. *)
LEMMA HitsOfTile ==
    ASSUME OriginTyped, Marked(origin.oam[2]) # 255, m_mask = origin.mask,
           NEW line \in Nat, line = m_current_line, line < RenderLines,
           Shown(m_prefetched_sprites, origin.oam, line, origin.height),
           NEW p, p = Aim, p.x \in Byte, p.y \in Byte, p.nt \in 0..3, p.top \in 0..1,
           m_x = p.x % 8, NEW k \in 0..(Tiles - 1), NEW pair,
           pair = <<TileOf(p, line, k), TileOf(p, line, k + 1)>>
    PROVE  \A x \in Nat : x \in HitsIn(k, pair) <=>
               x \in Pixel(k, 0)..Pixel(k, 7) /\ <<line, x>> \in Hits
<1>1. k \in Nat /\ \A x \in Nat : x \in HitsIn(k, pair) => x \in Pixel(k, 0)..Pixel(k, 7)
  BY SizesTyped DEF HitsIn
<1> SUFFICES ASSUME NEW x \in Nat, x \in Pixel(k, 0)..Pixel(k, 7)
             PROVE  x \in HitsIn(k, pair) <=> <<line, x>> \in Hits
  BY <1>1
<1>2. PICK i \in 0..7 : i = x % 8 /\ x = Pixel(k, i) /\ (x < 8 <=> k = 0) /\ x < 8 * Tiles
  BY <1>1, SizesTyped DEF Pixel
<1>3. PICK q : q = origin.program /\ q.x = p.x /\ q.y = p.y /\ q.nt = p.nt
  BY DEF Aim
<1>4. ShownTile(pair, m_x, x % 8) = Raised(Expected(line, x), p.top)
  BY <1>1, <1>2, ShowsTile
<1>5. ShownTile(pair, m_x, x % 8).nt % 32 = Expected(line, x).nt % 32
  BY <1>3, <1>4, ColumnNotRaised
<1>6. PICK o : o = origin.oam
  OBVIOUS
<1> DEFINE over == {j \in 1..8 : SpriteOpaque(m_prefetched_sprites[j], x)}
           first == CHOOSE j \in over : \A n \in over : j <= n
           Masks == Shows(4, 2, k) /\ Shows(3, 1, k)
           Solid == Expected(line, x).nt % 32 \in case.solid
<1>7. x \in HitsIn(k, pair) <=>
          Masks /\ (over # {} /\ BitOf(m_prefetched_sprites[first].attributes, 3) = 1)
          /\ Solid /\ x # (8 * Tiles) - 1
  BY <1>5 DEF HitsIn
<1>8. over # {} /\ BitOf(m_prefetched_sprites[first].attributes, 3) = 1
          <=> ShowsOn(o, line, origin.height) /\ SpriteOpaque(Sprite0(o), x)
  <2>1. o[2] \in Byte
    BY <1>6 DEF OriginTyped
  <2>2. PICK those, one : those = over /\ one = first
    OBVIOUS
  <2>3. /\ those = {j \in 1..8 : SpriteOpaque(m_prefetched_sprites[j], x)}
        /\ one = CHOOSE j \in those : \A n \in those : j <= n
    BY <2>2
  <2>4. PICK slots, h : slots = m_prefetched_sprites /\ h = origin.height
    OBVIOUS
  <2>5. Shown(slots, o, line, h) /\ Marked(o[2]) # 255
    BY <1>6, <2>4
  <2> HIDE DEF over, first
  <2>6. those # {} /\ BitOf(slots[one].attributes, 3) = 1
            <=> ShowsOn(o, line, h) /\ SpriteOpaque(Sprite0(o), x)
    BY <2>1, <2>3, <2>4, <2>5, FirstOpaque
  <2> QED
    BY <2>2, <2>4, <2>6
<1>9. Masks <=> MaskBit(3) /\ MaskBit(4) /\ (x < 8 => MaskBit(1) /\ MaskBit(2))
  BY <1>2 DEF Shows, MaskBit
<1>10. x # (8 * Tiles) - 1 <=> x < (8 * Tiles) - 1
  BY <1>2, SizesTyped
<1> HIDE DEF over, first, Masks, Solid
<1> QED
  BY <1>6, <1>7, <1>8, <1>9, <1>10, HitIs DEF Solid

(* Hits are places of the picture. *)
LEMMA HitsTyped ==
    ASSUME OriginTyped, NEW p \in Hits
    PROVE  p[1] \in 1..(RenderLines - 1) /\ p[2] \in 0..((8 * Tiles) - 2) /\ p = <<p[1], p[2]>>
<1>1. PICK y, at, h : y = origin.oam[0] /\ at = origin.oam[3] /\ h = origin.height
  OBVIOUS
<1>2. y \in 0..255 /\ at \in 0..255 /\ h \in {8, 16}
  BY <1>1 DEF OriginTyped, Byte
<1>3. p \in ((y + 1)..(y + h)) \X (at..(at + 7)) /\ p[1] < RenderLines /\ p[2] < (8 * Tiles) - 1
  BY <1>1 DEF Hits
<1>4. p[1] \in (y + 1)..(y + h) /\ p[2] \in at..(at + 7) /\ p = <<p[1], p[2]>>
  BY <1>3
<1>5. PICK l, x : l = p[1] /\ x = p[2]
  OBVIOUS
<1>6. l \in (y + 1)..(y + h) /\ x \in at..(at + 7) /\ l < RenderLines /\ x < (8 * Tiles) - 1
  BY <1>3, <1>4, <1>5
<1>7. l \in 1..(RenderLines - 1) /\ x \in 0..((8 * Tiles) - 2)
  BY <1>2, <1>6, SizesTyped
<1> QED
  BY <1>4, <1>5, <1>7

(* Where the next eight pixels are drawn, the first hit sets the flag if none has. *)
LEMMA HitsDrawn ==
    ASSUME NEW hits, NEW line, NEW k \in 0..(Tiles - 1), NEW c, HitsReported(hits, line, 8 * k, c),
           NEW new, new \subseteq (8 * k)..((8 * k) + 7),
           \A x \in (8 * k)..((8 * k) + 7) : x \in new <=> <<line, x>> \in hits
    PROVE  HitsReported(hits, line, 8 * (k + 1),
                        IF c # Never \/ new = {} THEN c
                        ELSE (CHOOSE x \in new : \A n \in new : x <= n) + 1)
<1>1. PICK a \in Nat, b \in Nat : a = 8 * k /\ b = 8 * (k + 1) /\ b = a + 8 /\ b <= 256
  BY SizesTyped
<1>2. PICK first : first = CHOOSE x \in new : \A n \in new : x <= n
  OBVIOUS
<1>3. PICK d : d = IF c # Never \/ new = {} THEN c ELSE first + 1
  OBVIOUS
<1> DEFINE Sooner == \E p \in hits : p[1] < line
<1> SUFFICES HitsReported(hits, line, b, d)
  BY <1>1, <1>2, <1>3
<1>4. new \subseteq a..(a + 7) /\ \A x \in a..(a + 7) : x \in new <=> <<line, x>> \in hits
  BY <1>1
<1>5. CASE Sooner /\ c = 0
  <2>1. d = 0
    BY <1>3, <1>5, NeverIsLate
  <2> QED
    BY <1>5, <2>1 DEF HitsReported
<1>6. ASSUME ~Sooner, NEW x \in 0..(a - 1), c = x + 1, <<line, x>> \in hits,
             \A n \in 0..(x - 1) : <<line, n>> \notin hits
      PROVE  HitsReported(hits, line, b, d)
  <2>1. x \in 0..(b - 1) /\ x + 1 # Never
    BY <1>1, NeverIsLate
  <2>2. d = x + 1
    BY <1>3, <1>6, <2>1
  <2> QED
    BY <1>6, <2>1, <2>2 DEF HitsReported
<1>7. ASSUME ~Sooner, c = Never, \A x \in 0..(a - 1) : <<line, x>> \notin hits
      PROVE  HitsReported(hits, line, b, d)
  <2>1. \A x \in 0..(b - 1) : x \in 0..(a - 1) \/ x \in a..(a + 7)
    BY <1>1
  <2>2. CASE new = {}
    <3>1. d = Never
      BY <1>3, <1>7, <2>2
    <3>2. \A x \in 0..(b - 1) : <<line, x>> \notin hits
      BY <1>4, <1>7, <2>1, <2>2
    <3> QED
      BY <1>7, <3>1, <3>2 DEF HitsReported
  <2>3. CASE new # {}
    <3>1. new \subseteq Nat
      BY <1>4
    <3>2. first \in new /\ \A n \in new : first <= n
      BY <1>2, <2>3, <3>1, Smallest
    <3>3. first \in a..(a + 7) /\ first \in 0..(b - 1) /\ <<line, first>> \in hits
      BY <1>1, <1>4, <3>2
    <3>4. ASSUME NEW n \in 0..(first - 1) PROVE <<line, n>> \notin hits
      <4>1. n \in 0..(a - 1) \/ n \in a..(a + 7)
        BY <1>1, <3>3
      <4>2. n \notin new
        BY <3>2, <3>3
      <4> QED
        BY <1>4, <1>7, <4>1, <4>2
    <3>5. d = first + 1
      BY <1>3, <1>7, <2>3
    <3> QED
      BY <1>7, <3>3, <3>4, <3>5 DEF HitsReported
  <2> QED
    BY <2>2, <2>3
<1> QED
  BY <1>1, <1>5, <1>6, <1>7 DEF HitsReported

(* At the end of a line that is drawn, or not drawn at all, a flag that is due is up. *)
LEMMA HitsOnNextLine ==
    ASSUME NEW hits, NEW line \in Nat, NEW to \in 0..256, NEW c, HitsReported(hits, line, to, c),
           \A p \in hits : p[1] \in Nat /\ p = <<p[1], p[2]>>,
           \A x : <<line, x>> \in hits => x \in 0..(to - 1)
    PROVE  HitsReported(hits, line + 1, 0, set_unread_flags(c))
<1> DEFINE Sooner == \E p \in hits : p[1] < line
           ByThen == \E p \in hits : p[1] < line + 1
<1>1. PICK d : d = set_unread_flags(c)
  OBVIOUS
<1>2. \A p \in hits : p[1] < line => p[1] < line + 1
  OBVIOUS
<1>3. \A p \in hits : p[1] < line + 1 => p[1] < line \/ p[1] = line
  OBVIOUS
<1>4. \A x \in 0..(0 - 1) : FALSE
  OBVIOUS
<1>5. CASE Sooner /\ c = 0
  <2>1. d = 0 /\ ByThen
    BY <1>1, <1>2, <1>5, NeverIsLate DEF set_unread_flags
  <2> QED
    BY <1>1, <2>1 DEF HitsReported
<1>6. ASSUME ~Sooner, NEW x \in 0..(to - 1), c = x + 1, <<line, x>> \in hits
      PROVE  HitsReported(hits, line + 1, 0, set_unread_flags(c))
  <2>1. c # Never
    BY <1>6, NeverIsLate
  <2>2. d = 0
    BY <1>1, <2>1 DEF set_unread_flags
  <2>3. <<line, x>>[1] = line /\ line < line + 1
    OBVIOUS
  <2>4. ByThen
    BY <1>6, <2>3
  <2> QED
    BY <1>1, <2>2, <2>4 DEF HitsReported
<1>7. ASSUME ~Sooner, c = Never, \A x \in 0..(to - 1) : <<line, x>> \notin hits
      PROVE  HitsReported(hits, line + 1, 0, set_unread_flags(c))
  <2>1. d = Never
    BY <1>1, <1>7 DEF set_unread_flags
  <2>2. ASSUME NEW p \in hits, p[1] = line PROVE FALSE
    <3>1. <<line, p[2]>> \in hits
      BY <2>2
    <3> QED
      BY <1>7, <3>1
  <2>3. ~ByThen
    BY <1>3, <1>7, <2>2
  <2> QED
    BY <1>1, <1>4, <2>1, <2>3 DEF HitsReported
<1> QED
  BY <1>5, <1>6, <1>7 DEF HitsReported

(* The pre-render line clears the flags as it begins, and draws nothing. *)
LEMMA ClearedStep == TypeInv /\ Cleared /\ [Next]_vars => Cleared'
<1> SUFFICES ASSUME TypeInv, Cleared, [Next]_vars, IsPreRender'
             PROVE  /\ m_sprite0_hit_cycle' = Never
                    /\ place' = "idle" => m_sprite_overflow_cycle' = Never
  BY DEF Cleared
<1> DEFINE Goal == /\ m_sprite0_hit_cycle' = Never
                   /\ place' = "idle" => m_sprite_overflow_cycle' = Never
<1>1. ASSUME UNCHANGED <<flags, m_current_line>>, place' = "idle" => place = "idle"
      PROVE  Goal
  BY <1>1 DEF Cleared, IsPreRender, flags
<1>2. ASSUME UNCHANGED m_current_line, UNCHANGED m_sprite0_hit_cycle, place' # "idle"
      PROVE  Goal
  BY <1>2 DEF Cleared, IsPreRender
<1>3. ASSUME LineEnds PROVE Goal
  BY <1>3 DEF LineEnds, IsPreRender
<1>4. ASSUME LineBegins \/ NextTile PROVE Goal
  <2>1. UNCHANGED m_current_line /\ place' # "idle" /\ \E k, pair : render_tile(k, pair)
    BY <1>4 DEF LineBegins, NextTile, Step
  <2>2. ~IsRender
    BY <2>1, SizesTyped DEF IsRender, IsPreRender
  <2> QED
    BY <1>2, <2>1, <2>2 DEF render_tile
<1>5. ASSUME FetchAttribute \/ LastTile \/ PrefetchSprites \/ NextLineTile \/ LastFetch
      PROVE  Goal
  <2>1. UNCHANGED <<flags, m_current_line>>
    BY <1>5 DEF FetchAttribute, LastTile, PrefetchSprites, NextLineTile, LastFetch
  <2>2. place' # "idle"
    BY <1>5 DEF FetchAttribute, LastTile, PrefetchSprites, NextLineTile, LastFetch, Step
  <2> QED
    BY <1>1, <2>1, <2>2
<1>6. UNCHANGED vars \/ (CpuAccess /\ UNCHANGED render) => Goal
  BY <1>1 DEF vars, render
<1>7. PpuStep => Goal
  BY <1>3, <1>4, <1>5 DEF PpuStep, EndLine, IdleLine
<1> QED
  BY <1>6, <1>7 DEF Next

(* Steps that draw, and how far the line is drawn before and after. *)
LEMMA DrawnSoFar ==
    /\ place = "idle" => DrawnTo = 8 * 0
    /\ place = "unused" => DrawnTo = 8 * Tiles
    /\ place \in {"attribute", "next"} /\ tile \in 0..(Tiles - 1) => DrawnTo = 8 * (tile + 1)
    /\ DrawnTo \in 0..256 \/ ~(tile \in 0..(Tiles + 1))
<1>1. ASSUME tile \in 0..(Tiles - 1) PROVE Earlier(tile, Tiles - 1) = tile
  BY <1>1, SizesTyped, Nearest DEF Earlier
<1>2. ASSUME tile \in 0..(Tiles + 1) PROVE 8 * (Earlier(tile, Tiles - 1) + 1) \in 0..256
  BY <1>2, SizesTyped DEF Earlier
<1>3. 8 * Tiles \in 0..256 /\ 0 \in 0..256 /\ 8 * 0 = 0
  BY SizesTyped
<1> QED
  BY <1>1, <1>2, <1>3 DEF DrawnTo

(* The eight pixels of a tile are drawn with the hits that belong there. *)
LEMMA TileHits ==
    ASSUME TypeInv, ScrollInv, SpriteInv, TypeInv', ScrollInv', PictureInv', PpuStep,
           Reported, IsRender, ~Ahead, UNCHANGED <<calm, origin, m_current_line>>, place' # "idle",
           NEW k \in 0..(Tiles - 1), NEW pair, render_tile(k, pair), Earlier(tile', Tiles - 1) = k,
           HitsReported(Hits, m_current_line, 8 * k, m_sprite0_hit_cycle)
    PROVE  HitsReported(Hits, m_current_line, 8 * (k + 1), m_sprite0_hit_cycle')
<1>1. PICK p, line : p = Aim /\ line = m_current_line
  OBVIOUS
<1>2. Known /\ Drawing /\ calm /\ ScrollKnown
  BY DEF Known, Reported, Drawing
<1>3. /\ p.x \in Byte /\ p.y \in Byte /\ p.nt \in 0..3 /\ m_x = p.x % 8
      /\ Top(m_v) = p.top /\ m_v \in Word16
  BY <1>1, <1>2, KnownFrame DEF DrawsFrameOf
<1>4. line \in Nat /\ line < RenderLines
  BY <1>1, SizesTyped DEF TypeInv, TypeOK, IsRender
<1>5. p.top \in 0..1
  BY <1>3, PartsOfAddress
<1>6. Aim' = p
  <2>1. Top(m_v)' = Top(m_v)
    BY TopStays DEF Top
  <2> QED
    BY <1>1, <2>1 DEF Aim
<1>7. Known' /\ IsRender'
  BY <1>2 DEF Known, Drawing, IsRender, IsPreRender, ScrollKnown
<1>8. drawn' = [line |-> line, column |-> k, pair |-> pair, x |-> m_x]
  BY <1>1 DEF render_tile
<1>9. pair = <<TileOf(p, line, k), TileOf(p, line, k + 1)>>
  <2>1. drawn' = [line |-> line, column |-> k, x |-> m_x',
                  pair |-> <<TileOf(p, line, k), TileOf(p, line, k + 1)>>]
    BY <1>1, <1>6, <1>7 DEF PictureInv, FollowsPicture, Drawn
  <2>2. drawn'.pair = pair
    BY <1>8
  <2>3. drawn'.pair = <<TileOf(p, line, k), TileOf(p, line, k + 1)>>
    BY <2>1
  <2> QED
    BY <2>2, <2>3
<1>10. OriginTyped /\ m_mask = origin.mask /\ Marked(origin.oam[2]) # 255
       /\ Shown(m_prefetched_sprites, origin.oam, line, origin.height)
  BY <1>1, <1>2 DEF SpriteInv, SpritesFollow, Reported
<1>11. \A x \in Nat : x \in HitsIn(k, pair) <=>
           x \in Pixel(k, 0)..Pixel(k, 7) /\ <<line, x>> \in Hits
  BY <1>1, <1>3, <1>4, <1>5, <1>9, <1>10, HitsOfTile
<1>12. PICK new, c, hits : new = HitsIn(k, pair) /\ c = m_sprite0_hit_cycle /\ hits = Hits
  OBVIOUS
<1>13. new \subseteq (8 * k)..((8 * k) + 7) /\ Pixel(k, 0) = 8 * k /\ Pixel(k, 7) = (8 * k) + 7
  BY <1>12, SizesTyped DEF HitsIn, Pixel
<1>14. \A x \in (8 * k)..((8 * k) + 7) : x \in Nat
  BY SizesTyped
<1>15. \A x \in (8 * k)..((8 * k) + 7) : x \in new <=> <<line, x>> \in hits
  BY <1>11, <1>12, <1>13, <1>14
<1>16. HitsReported(hits, line, 8 * k, c)
  BY <1>1, <1>12
<1>17. HitsReported(hits, line, 8 * (k + 1),
                    IF c # Never \/ new = {} THEN c
                    ELSE (CHOOSE x \in new : \A n \in new : x <= n) + 1)
  BY <1>13, <1>15, <1>16, HitsDrawn
<1>18. m_sprite0_hit_cycle' = IF c # Never \/ new = {} THEN c
                              ELSE (CHOOSE x \in new : \A n \in new : x <= n) + 1
  BY <1>12 DEF render_tile, HitCycle
<1> QED
  BY <1>1, <1>12, <1>17, <1>18

(* What a frame should show stays what it is while the frame lasts. *)
LEMMA FrameStays ==
    ASSUME UNCHANGED <<origin, case>>
    PROVE  /\ Hits' = Hits /\ ScrollKnown' = ScrollKnown
           /\ \A line : Crowd(line)' = Crowd(line) /\ NinthFollows(line)' = NinthFollows(line)
<1>1. Hits' = Hits
  BY DEF Hits, MaskBit, Expected
<1>2. ScrollKnown' = ScrollKnown
  BY DEF ScrollKnown
<1>3. \A line : Crowd(line)' = Crowd(line)
  BY DEF Crowd
<1>4. \A line : NinthFollows(line)' = NinthFollows(line)
  BY <1>3 DEF NinthFollows
<1> QED
  BY <1>1, <1>2, <1>3, <1>4

(* A line begins with its first tile drawn. *)
LEMMA HitsBegin ==
    ASSUME TypeInv, ScrollInv, SpriteInv, TypeInv', ScrollInv', PictureInv', PpuStep, Reported,
           HitFound, LineBegins \/ NextTile, ~IsPreRender, UNCHANGED <<calm, origin>>
    PROVE  HitFound'
<1>1. case' = case /\ m_current_line' = m_current_line /\ Hits' = Hits
  BY StepsLeaveRegisters, FrameStays DEF untouched, LineBegins, NextTile
<1>2. PICK k, pair : /\ render_tile(k, pair) /\ tile' = k /\ k \in 0..(Tiles - 1)
                     /\ place' = "attribute" /\ DrawnTo = 8 * k /\ ~Ahead
  <2>1. CASE LineBegins
    <3>1. render_tile(0, shift) /\ tile' = 0 /\ place' = "attribute" /\ place = "idle"
      BY <2>1 DEF LineBegins, Step
    <3> QED
      BY <3>1, DrawnSoFar, SizesTyped DEF Ahead
  <2>2. CASE NextTile
    <3>1. /\ render_tile(tile + 1, Reloaded) /\ tile' = tile + 1 /\ tile < Tiles - 1
          /\ place = "next" /\ place' = "attribute" /\ tile \in 0..(Tiles + 1)
      BY <2>2 DEF NextTile, Step, TypeInv, TypeOK
    <3>2. tile \in 0..(Tiles - 1) /\ tile + 1 \in 0..(Tiles - 1) /\ ~(tile >= Tiles)
      BY <3>1, SizesTyped
    <3> QED
      BY <3>1, <3>2, DrawnSoFar DEF Ahead
  <2> QED
    BY <2>1, <2>2
<1>3. Earlier(tile', Tiles - 1) = k /\ DrawnTo' = 8 * (k + 1)
  <2>1. k \in Nat /\ k < Tiles
    BY <1>2, SizesTyped
  <2>2. Earlier(k, Tiles - 1) = k
    BY <2>1, Nearest
  <2> QED
    BY <1>2, <2>2 DEF DrawnTo
<1>4. HitsReported(Hits, m_current_line, 8 * k, m_sprite0_hit_cycle)
  BY <1>2 DEF HitFound
<1>5. CASE IsRender
  <2>1. HitsReported(Hits, m_current_line, 8 * (k + 1), m_sprite0_hit_cycle')
    BY <1>1, <1>2, <1>3, <1>4, <1>5, TileHits
  <2> QED
    BY <1>1, <1>3, <2>1 DEF HitFound
<1>6. CASE ~IsRender
  <2>1. PICK line, c, hits : line = m_current_line /\ c = m_sprite0_hit_cycle /\ hits = Hits
    OBVIOUS
  <2>2. m_sprite0_hit_cycle' = c
    BY <1>2, <1>6, <2>1 DEF render_tile
  <2>3. \A x : <<line, x>> \notin hits
    <3>1. ASSUME NEW x, <<line, x>> \in hits PROVE FALSE
      <4>1. <<line, x>>[1] \in 1..(RenderLines - 1)
        BY <2>1, <3>1, HitsTyped DEF SpriteInv
      <4> QED
        BY <1>6, <2>1, <4>1, SizesTyped DEF IsRender
    <3> QED
      BY <3>1
  <2>4. HitsReported(hits, line, 8 * (k + 1), c)
    BY <1>4, <2>1, <2>3 DEF HitsReported
  <2> QED
    BY <1>1, <1>3, <2>1, <2>2, <2>4 DEF HitFound
<1> QED
  BY <1>5, <1>6

(* The fetches of the rest of a line draw nothing. *)
LEMMA HitsKept ==
    ASSUME TypeInv, PpuStep, HitFound, UNCHANGED origin,
           FetchAttribute \/ LastTile \/ PrefetchSprites \/ NextLineTile \/ LastFetch
    PROVE  HitFound'
<1> USE SizesTyped
<1>1. Hits' = Hits
  BY StepsLeaveRegisters, FrameStays DEF untouched
<1>2. UNCHANGED <<m_current_line, m_sprite0_hit_cycle>>
  BY DEF FetchAttribute, LastTile, PrefetchSprites, NextLineTile, LastFetch, flags
<1>3. tile \in 0..(Tiles + 1) /\ tile \in Nat
  BY DEF TypeInv, TypeOK
<1>4. DrawnTo' = DrawnTo
  <2>1. CASE FetchAttribute
    BY <2>1 DEF FetchAttribute, Step, DrawnTo
  <2>2. CASE LastTile
    <3>1. place = "next" /\ place' = "sprites" /\ tile = Tiles - 1
      BY <2>2 DEF LastTile, Step
    <3>2. DrawnTo = 8 * (Earlier(tile, Tiles - 1) + 1) /\ DrawnTo' = 8 * Tiles
      BY <3>1 DEF DrawnTo
    <3>3. Earlier(tile, Tiles - 1) = Tiles - 1
      BY <1>3, <3>1, Nearest
    <3> QED
      BY <3>2, <3>3
  <2>3. CASE PrefetchSprites
    <3>1. place = "sprites" /\ place' = "attribute" /\ tile' = Tiles
      BY <2>3 DEF PrefetchSprites, Step
    <3>2. DrawnTo = 8 * Tiles /\ DrawnTo' = 8 * (Earlier(Tiles, Tiles - 1) + 1)
      BY <3>1 DEF DrawnTo
    <3>3. Earlier(Tiles, Tiles - 1) = Tiles - 1
      BY Nearest
    <3> QED
      BY <3>2, <3>3
  <2>4. CASE NextLineTile
    <3>1. place = "next" /\ place' = "attribute" /\ tile = Tiles /\ tile' = tile + 1
      BY <2>4 DEF NextLineTile, Step
    <3>2. /\ DrawnTo = 8 * (Earlier(tile, Tiles - 1) + 1)
          /\ DrawnTo' = 8 * (Earlier(tile + 1, Tiles - 1) + 1)
      BY <3>1 DEF DrawnTo
    <3>3. Earlier(tile, Tiles - 1) = Tiles - 1 /\ Earlier(tile + 1, Tiles - 1) = Tiles - 1
      BY <1>3, <3>1, Nearest
    <3> QED
      BY <3>2, <3>3
  <2>5. CASE LastFetch
    <3>1. place = "next" /\ place' = "unused" /\ tile = Tiles + 1
      BY <2>5 DEF LastFetch, Step
    <3>2. DrawnTo = 8 * (Earlier(tile, Tiles - 1) + 1) /\ DrawnTo' = 8 * Tiles
      BY <3>1 DEF DrawnTo
    <3>3. Earlier(tile, Tiles - 1) = Tiles - 1
      BY <1>3, <3>1, Nearest
    <3> QED
      BY <3>2, <3>3
  <2> QED
    BY <2>1, <2>2, <2>3, <2>4, <2>5
<1> QED
  BY <1>1, <1>2, <1>4 DEF HitFound

(* At the end of a line. *)
LEMMA HitsAtLineEnd ==
    ASSUME TypeInv, SpriteInv, Cleared, PpuStep, EndLine \/ IdleLine, UNCHANGED origin,
           ~IsPreRender => HitFound, ~IsPreRender'
    PROVE  HitFound'
<1> USE SizesTyped
<1>1. LineEnds /\ place' = "idle" /\ m_current_line \in 0..PreRenderLine /\ tile \in 0..(Tiles + 1)
  BY DEF EndLine, IdleLine, Step, TypeInv, TypeOK
<1>2. Hits' = Hits
  BY StepsLeaveRegisters, FrameStays DEF untouched
<1>3. PICK line, c, hits, to :
          line = m_current_line /\ c = m_sprite0_hit_cycle /\ hits = Hits /\ to = DrawnTo
  OBVIOUS
<1>4. \A p \in hits : /\ p[1] \in 1..(RenderLines - 1) /\ p[2] \in 0..((8 * Tiles) - 2)
                      /\ p = <<p[1], p[2]>>
  BY <1>3, HitsTyped DEF SpriteInv
<1>5. DrawnTo' = 0
  BY <1>1 DEF DrawnTo
<1>6. CASE IsPreRender
  <2>1. m_current_line' = 0 /\ m_sprite0_hit_cycle' = Never
    <3>1. m_sprite0_hit_cycle = Never
      BY <1>6 DEF Cleared
    <3> QED
      BY <1>1, <1>6, <3>1 DEF LineEnds, set_unread_flags
  <2>2. ~\E p \in hits : p[1] < 0
    BY <1>4
  <2>3. \A x \in 0..(0 - 1) : FALSE
    OBVIOUS
  <2>4. HitsReported(hits, 0, 0, Never)
    BY <2>2, <2>3 DEF HitsReported
  <2> QED
    BY <1>2, <1>3, <1>5, <2>1, <2>4 DEF HitFound
<1>7. CASE ~IsPreRender
  <2>1. m_current_line' = line + 1 /\ m_sprite0_hit_cycle' = set_unread_flags(c) /\ line \in Nat
    BY <1>1, <1>3, <1>7 DEF LineEnds, IsPreRender
  <2>2. HitsReported(hits, line, to, c) /\ to \in 0..256
    BY <1>1, <1>3, <1>7, DrawnSoFar DEF HitFound
  <2>3. \A p \in hits : p[1] \in Nat /\ p = <<p[1], p[2]>>
    BY <1>4
  <2>4. ASSUME NEW x, <<line, x>> \in hits PROVE x \in 0..(to - 1)
    <3>1. <<line, x>>[1] \in 1..(RenderLines - 1) /\ <<line, x>>[2] \in 0..((8 * Tiles) - 2)
      BY <1>4, <2>4
    <3>2. line < RenderLines /\ x \in 0..((8 * Tiles) - 2)
      BY <3>1
    <3>3. EndLine
      BY <1>3, <2>1, <3>2 DEF IdleLine, Blank
    <3>4. to = 8 * Tiles
      BY <1>3, <3>3, DrawnSoFar DEF EndLine, Step
    <3> QED
      BY <3>2, <3>4
  <2>5. HitsReported(hits, line + 1, 0, set_unread_flags(c))
    BY <2>1, <2>2, <2>3, <2>4, HitsOnNextLine
  <2> QED
    BY <1>2, <1>3, <1>5, <2>1, <2>5 DEF HitFound
<1> QED
  BY <1>6, <1>7

(* Nor the hit flag from the hits of the picture. *)
LEMMA HitStep ==
    ASSUME TypeInv, ScrollInv, SpriteInv, Cleared, HitInv, TypeInv', ScrollInv', PictureInv',
           [Next]_vars
    PROVE  HitInv'
<1>1. ASSUME calm' => calm, UNCHANGED <<case, origin, m_current_line, place, tile, flags>>
      PROVE  HitInv'
  <2>1. Hits' = Hits /\ ScrollKnown' = ScrollKnown
    BY <1>1, FrameStays
  <2>2. Reported' /\ ~IsPreRender' => Reported /\ ~IsPreRender
    BY <1>1, <2>1 DEF Reported, IsPreRender
  <2>3. HitFound' <=> HitFound
    BY <1>1, <2>1 DEF HitFound, DrawnTo, flags
  <2> QED
    BY <2>2, <2>3 DEF HitInv
<1>2. CASE UNCHANGED vars
  BY <1>1, <1>2 DEF vars, regs, render
<1>3. CASE CpuAccess /\ UNCHANGED render
  BY <1>1, <1>3, CalmAccess, EveryAccessCounts DEF render
<1>4. CASE PpuStep
  <2> SUFFICES ASSUME Reported', ~IsPreRender' PROVE HitFound'
    BY DEF HitInv
  <2>1. ~(LineBegins /\ IsPreRender)
    BY DEF LineBegins, IsPreRender
  <2>2. UNCHANGED <<calm, origin>>
    BY <1>4, <2>1 DEF PpuStep, LineBegins, FetchAttribute, NextTile, LastTile, PrefetchSprites,
                      NextLineTile, LastFetch, EndLine, IdleLine, LineEnds
  <2>3. Reported
    BY <2>2 DEF Reported, ScrollKnown
  <2>4. CASE EndLine \/ IdleLine
    BY <1>4, <2>2, <2>3, <2>4, HitsAtLineEnd DEF HitInv
  <2>5. CASE ~(EndLine \/ IdleLine)
    <3>1. UNCHANGED m_current_line
      BY <1>4, <2>5 DEF PpuStep, LineBegins, FetchAttribute, NextTile, LastTile, PrefetchSprites,
                        NextLineTile, LastFetch
    <3>2. ~IsPreRender /\ HitFound
      BY <2>3, <3>1 DEF IsPreRender, HitInv
    <3> QED
      BY <1>4, <2>2, <2>3, <2>5, <3>2, HitsBegin, HitsKept DEF PpuStep
  <2> QED
    BY <2>4, <2>5
<1> QED
  BY <1>2, <1>3, <1>4 DEF Next

-----------------------------------------------------------------------------
(***************************************************************************)
(* What is reported as overflow.                                           *)
(***************************************************************************)
(* On a line of a calm frame, the sprites of OAM near the line are those of the frame. *)
LEMMA CrowdIsNear ==
    ASSUME oam = origin.oam, sprite_height = origin.height
    PROVE  Crowd(m_current_line) = Near(Sprites)
BY DEF Crowd, Near

(* The evaluation of a line reports overflow when it has to, and only then. *)
LEMMA OverflowIsRight ==
    ASSUME oam = origin.oam, sprite_height = origin.height
    PROVE  /\ do_buggy_overflow_evaluation # Never => Cardinality(Crowd(m_current_line)) >= 8
           /\ NinthFollows(m_current_line) => do_buggy_overflow_evaluation # Never
<1>1. Crowd(m_current_line) = Near(Sprites)
  BY CrowdIsNear
<1>2. ASSUME NinthFollows(m_current_line) PROVE do_buggy_overflow_evaluation # Never
  <2>1. PICK i \in Near(Sprites) :
            Cardinality({k \in Near(Sprites) : k < i}) = 8 /\ i - 1 \in Near(Sprites)
    BY <1>1, <1>2 DEF NinthFollows
  <2>2. {k \in Near(Sprites) : k < i} = Near(i)
    BY SizesTyped DEF Near
  <2> QED
    BY <2>1, <2>2, NinthIsReported
<1> QED
  BY <1>1, <1>2, OverflowIsCrowd

(* The earlier of two dots is one of them; it is never only if both are. *)
LEMMA EarlierDot ==
    ASSUME NEW a \in 0..OverflowDot(Sprites) \cup {Never},
           NEW b \in 0..OverflowDot(Sprites) \cup {Never}
    PROVE  /\ Earlier(a, b) = Never <=> a = Never /\ b = Never
           /\ a = 0 => Earlier(a, b) = 0
<1>1. OverflowDot(Sprites) \in Nat /\ OverflowDot(Sprites) <= 400
  BY SizesTyped DEF OverflowDot
<1> QED
  BY <1>1, NeverIsLate DEF Earlier

(* The pre-render line may find too many sprites below the picture. *)
LEMMA OverflowBegins ==
    ASSUME TypeInv, Cleared, LineBegins, IsPreRender, calm'
    PROVE  OverflowFound'
<1>1. /\ place = "idle" /\ UNCHANGED m_current_line
      /\ origin'.oam = oam /\ origin'.height = sprite_height
      /\ m_sprite_overflow_cycle' =
             Earlier(m_sprite_overflow_cycle, do_buggy_overflow_evaluation)
  <2>1. calm' = rendering_enabled
    BY DEF LineBegins
  <2>2. rendering_enabled
    BY <2>1
  <2> QED
    BY <2>2 DEF LineBegins, Step
<1>2. m_sprite_overflow_cycle = Never
  BY <1>1 DEF Cleared
<1>3. m_sprite_overflow_cycle' # Never => do_buggy_overflow_evaluation # Never
  BY <1>1, <1>2, OverflowTyped, EarlierDot
<1>4. Crowd(PreRenderLine)' = Near(Sprites)
  BY <1>1 DEF Crowd, Near, IsPreRender
<1>5. m_sprite_overflow_cycle' # Never => Cardinality(Crowd(PreRenderLine)') >= 8
  BY <1>3, <1>4, OverflowIsCrowd
<1>6. IsPreRender' /\ ~IsRender'
  BY <1>1, SizesTyped DEF IsPreRender, IsRender
<1> QED
  BY <1>5, <1>6 DEF OverflowFound, Crowded

(* A line of the picture adds what it finds to what the earlier ones have. *)
LEMMA OverflowOnLine ==
    ASSUME TypeInv, ScrollInv, SpriteInv, calm, OverflowFound, LineBegins, ~IsPreRender, PpuStep,
           UNCHANGED origin
    PROVE  OverflowFound'
<1>1. IsRender /\ m_current_line \in 0..PreRenderLine
  BY BlankIsNotDrawn DEF LineBegins, TypeInv, TypeOK
<1>2. SpritesFollow /\ rendering_enabled
  BY <1>1 DEF SpriteInv, ScrollInv, Drawing
<1>3. PICK line, d, over :
          /\ line = m_current_line /\ d = do_buggy_overflow_evaluation
          /\ over = m_sprite_overflow_cycle
  OBVIOUS
<1>4. m_sprite_overflow_cycle' = Earlier(over, d) /\ UNCHANGED m_current_line
  BY <1>2, <1>3 DEF LineBegins
<1>5. /\ \A l : Crowd(l)' = Crowd(l) /\ NinthFollows(l)' = NinthFollows(l)
      /\ IsPreRender' = IsPreRender
  BY <1>4, StepsLeaveRegisters, FrameStays DEF untouched, IsPreRender
<1>6. /\ d # Never => Cardinality(Crowd(line)) >= 8
      /\ NinthFollows(line) => d # Never
  BY <1>2, <1>3, OverflowIsRight DEF SpritesFollow
<1>7. /\ Earlier(over, d) = Never <=> over = Never /\ d = Never
      /\ over = 0 => Earlier(over, d) = 0
  BY <1>3, OverflowTyped, EarlierDot DEF TypeInv, TypeOK
<1>8. ASSUME Earlier(over, d) # Never PROVE Crowded'
  <2>1. LinesBegun' = LinesBegun /\ line \in LinesBegun
    BY <1>1, <1>3, <1>4, <1>5, SizesTyped DEF LinesBegun, IsRender
  <2>2. CASE over # Never
    <3>1. Crowded
      BY <1>3, <2>2 DEF OverflowFound
    <3> QED
      BY <1>5, <2>1, <3>1 DEF Crowded
  <2>3. CASE d # Never
    <3>1. Cardinality(Crowd(line)) >= 8
      BY <1>6, <2>3
    <3> QED
      BY <1>5, <2>1, <3>1 DEF Crowded
  <2> QED
    BY <1>7, <1>8, <2>2, <2>3
<1>9. ASSUME NEW l \in 0..(RenderLines - 1), l < line, NinthFollows(l)
      PROVE  Earlier(over, d) = 0
  BY <1>3, <1>7, <1>9 DEF OverflowFound
<1>10. NinthFollows(line) => Earlier(over, d) # Never
  BY <1>6, <1>7
<1> QED
  BY <1>3, <1>4, <1>5, <1>8, <1>9, <1>10 DEF OverflowFound

(* The next line takes over what was found, and the pre-render line nothing. *)
LEMMA OverflowAtLineEnd ==
    ASSUME TypeInv, OverflowFound, EndLine \/ IdleLine, PpuStep, UNCHANGED origin
    PROVE  OverflowFound'
<1> USE SizesTyped
<1>1. LineEnds /\ place' = "idle" /\ m_current_line \in 0..PreRenderLine
  BY DEF EndLine, IdleLine, Step, TypeInv, TypeOK
<1>2. PICK line, over : line = m_current_line /\ over = m_sprite_overflow_cycle
  OBVIOUS
<1>3. \A l : Crowd(l)' = Crowd(l) /\ NinthFollows(l)' = NinthFollows(l)
  BY StepsLeaveRegisters, FrameStays DEF untouched
<1>4. CASE IsPreRender'
  <2>1. m_sprite_overflow_cycle' = Never
    BY <1>1, <1>4 DEF LineEnds, IsPreRender
  <2> QED
    BY <1>1, <1>4, <2>1 DEF OverflowFound
<1>5. CASE ~IsPreRender'
  <2>1. m_sprite_overflow_cycle' = set_unread_flags(over)
    BY <1>1, <1>2, <1>5 DEF LineEnds, IsPreRender
  <2>2. /\ over = Never => m_sprite_overflow_cycle' = Never
        /\ over # Never => m_sprite_overflow_cycle' = 0
    BY <2>1 DEF set_unread_flags
  <2>3. CASE IsPreRender
    <3>1. m_current_line' = 0
      BY <1>1, <2>3 DEF LineEnds
    <3>2. over # Never => Cardinality(Crowd(PreRenderLine)) >= 8
      BY <1>2, <2>3 DEF OverflowFound, Crowded, LinesBegun
    <3>3. over # Never => Crowded'
      BY <1>3, <3>2 DEF Crowded
    <3>4. ~\E l \in 0..(RenderLines - 1) : l < 0
      OBVIOUS
    <3> QED
      BY <1>1, <2>2, <3>1, <3>3, <3>4 DEF OverflowFound
  <2>4. CASE ~IsPreRender
    <3>1. m_current_line' = line + 1 /\ line \in Nat
      BY <1>1, <1>2, <2>4 DEF LineEnds, IsPreRender
    <3>2. ASSUME over # Never PROVE Crowded'
      <4>1. Crowded
        BY <1>2, <3>2 DEF OverflowFound
      <4>2. LinesBegun \subseteq LinesBegun'
        BY <1>2, <1>5, <3>1 DEF LinesBegun
      <4> QED
        BY <1>3, <4>1, <4>2 DEF Crowded
    <3>3. ASSUME NEW l \in 0..(RenderLines - 1), l < line + 1, NinthFollows(l)
          PROVE  m_sprite_overflow_cycle' = 0
      <4>1. CASE l < line
        <5>1. over = 0
          BY <1>2, <2>4, <3>3, <4>1 DEF OverflowFound
        <5> QED
          BY <2>2, <5>1, NeverIsLate
      <4>2. CASE ~(l < line)
        <5>1. l = line /\ line < RenderLines
          BY <3>1, <3>3, <4>2
        <5>2. IsRender /\ ~Blank
          BY <1>2, <3>1, <5>1 DEF IsRender, Blank
        <5>3. place # "idle"
          BY <5>2 DEF EndLine, IdleLine, Step
        <5>4. over # Never
          BY <1>2, <3>3, <5>1, <5>2, <5>3 DEF OverflowFound
        <5> QED
          BY <2>2, <5>4
      <4> QED
        BY <4>1, <4>2
    <3> QED
      BY <1>1, <1>3, <2>2, <3>1, <3>2, <3>3 DEF OverflowFound
  <2> QED
    BY <2>3, <2>4
<1> QED
  BY <1>4, <1>5

(* Nor the overflow flag from the crowds of the frame. *)
LEMMA OverflowStep ==
    ASSUME TypeInv, ScrollInv, SpriteInv, Cleared, OverflowInv, [Next]_vars
    PROVE  OverflowInv'
<1>1. ASSUME calm' => calm, UNCHANGED <<case, origin, m_current_line, m_sprite_overflow_cycle>>,
             place' # "idle" => place # "idle"
      PROVE  OverflowInv'
  <2>1. \A l : Crowd(l)' = Crowd(l) /\ NinthFollows(l)' = NinthFollows(l)
    BY <1>1, FrameStays
  <2>2. IsPreRender' = IsPreRender /\ IsRender' = IsRender
    BY <1>1 DEF IsPreRender, IsRender
  <2>3. Crowded' <=> Crowded
    BY <1>1, <2>1, <2>2 DEF Crowded, LinesBegun
  <2>4. OverflowFound => OverflowFound'
    BY <1>1, <2>1, <2>2, <2>3 DEF OverflowFound
  <2> QED
    BY <1>1, <2>4 DEF OverflowInv
<1>2. CASE UNCHANGED vars
  BY <1>1, <1>2 DEF vars, regs, render, flags
<1>3. CASE CpuAccess /\ UNCHANGED render
  BY <1>1, <1>3, CalmAccess, EveryAccessCounts DEF render, flags
<1>4. CASE PpuStep
  <2> SUFFICES ASSUME calm' PROVE OverflowInv'
    BY DEF OverflowInv
  <2>1. CASE LineBegins /\ IsPreRender
    BY <2>1, OverflowBegins DEF OverflowInv
  <2>2. CASE ~(LineBegins /\ IsPreRender)
    <3>1. UNCHANGED <<calm, origin>>
      BY <1>4, <2>2 DEF PpuStep, LineBegins, FetchAttribute, NextTile, LastTile, PrefetchSprites,
                        NextLineTile, LastFetch, EndLine, IdleLine, LineEnds
    <3>2. calm /\ OverflowFound
      BY <3>1 DEF OverflowInv
    <3>3. CASE LineBegins
      BY <1>4, <2>2, <3>1, <3>2, <3>3, OverflowOnLine DEF OverflowInv
    <3>4. CASE EndLine \/ IdleLine
      BY <1>4, <3>1, <3>2, <3>4, OverflowAtLineEnd DEF OverflowInv
    <3>5. CASE FetchAttribute \/ NextTile \/ LastTile \/ PrefetchSprites \/ NextLineTile \/ LastFetch
      <4>1. UNCHANGED <<m_current_line, m_sprite_overflow_cycle>>
        BY <3>5 DEF FetchAttribute, NextTile, LastTile, PrefetchSprites, NextLineTile, LastFetch,
                    flags
      <4>2. place # "idle"
        BY <3>5 DEF FetchAttribute, NextTile, LastTile, PrefetchSprites, NextLineTile, LastFetch,
                    Step
      <4>3. UNCHANGED case
        BY <1>4, StepsLeaveRegisters DEF untouched
      <4> QED
        BY <1>1, <3>1, <4>1, <4>2, <4>3
    <3> QED
      BY <1>4, <3>3, <3>4, <3>5 DEF PpuStep
  <2> QED
    BY <2>1, <2>2
<1> QED
  BY <1>2, <1>3, <1>4 DEF Next

-----------------------------------------------------------------------------
(***************************************************************************)
(* What a read of $2002 shows.                                             *)
(***************************************************************************)
(* A read at a dot sees what is drawn up to there, if anything of the picture is. *)
LEMMA DotsSeeDrawn ==
    ASSUME TypeInv, OriginTyped, NEW dot \in Dots
    PROVE  /\ dot \in Nat /\ dot < Never
           /\ \A x : <<m_current_line, x>> \in Hits /\ x < dot => x \in 0..(DrawnTo - 1)
<1> USE SizesTyped
<1>1. m_clocks \in 0..340 /\ tile \in 0..(Tiles + 1) /\ m_current_line \in 0..PreRenderLine
      /\ place \in {"idle", "attribute", "next", "sprites", "unused"}
  BY DEF TypeInv, TypeOK
<1>2. PICK n \in 0..63 :
          /\ dot \in m_clocks..(m_clocks + n)
          /\ place = "idle" /\ ~Blank => n = 0
          /\ place = "attribute" => n = 1
          /\ place = "next" => n = 5
  <2>1. CASE place = "idle"
    BY <2>1 DEF Dots
  <2>2. CASE place = "attribute"
    BY <2>2 DEF Dots
  <2>3. CASE place = "next"
    BY <2>3 DEF Dots
  <2>4. CASE place = "sprites"
    BY <2>4 DEF Dots
  <2>5. CASE place = "unused"
    BY <2>5 DEF Dots
  <2> QED
    BY <1>1, <2>1, <2>2, <2>3, <2>4, <2>5
<1>3. dot \in Nat /\ dot < Never
  BY <1>1, <1>2, NeverIsLate
<1>4. ASSUME NEW x, <<m_current_line, x>> \in Hits, x < dot PROVE x \in 0..(DrawnTo - 1)
  <2>1. m_current_line < RenderLines /\ x \in 0..((8 * Tiles) - 2)
    <3>1. PICK p : p = <<m_current_line, x>>
      OBVIOUS
    <3>2. p[1] \in 1..(RenderLines - 1) /\ p[2] \in 0..((8 * Tiles) - 2)
      BY <1>4, <3>1, HitsTyped
    <3> QED
      BY <1>1, <3>1, <3>2
  <2>2. place # "idle"
    <3> SUFFICES ASSUME place = "idle" PROVE FALSE
      OBVIOUS
    <3>1. m_clocks = 0 /\ ~Blank
      BY <1>1, <2>1 DEF TypeInv, Placed, Blank
    <3> QED
      BY <1>2, <1>4, <2>1, <3>1
  <2>3. CASE place \in {"sprites", "unused"}
    <3>1. DrawnTo = 8 * Tiles
      BY <2>3 DEF DrawnTo
    <3> QED
      BY <2>1, <3>1
  <2>4. CASE place \in {"attribute", "next"} /\ tile >= Tiles
    <3>1. Earlier(tile, Tiles - 1) = Tiles - 1
      BY <1>1, <2>4, Nearest
    <3>2. DrawnTo = 8 * ((Tiles - 1) + 1)
      BY <2>4, <3>1 DEF DrawnTo
    <3> QED
      BY <2>1, <3>2
  <2>5. CASE place \in {"attribute", "next"} /\ ~(tile >= Tiles)
    <3>1. tile \in 0..(Tiles - 1)
      BY <1>1, <2>5
    <3>2. DrawnTo = 8 * (tile + 1)
      BY <2>5, <3>1, DrawnSoFar
    <3>3. m_clocks = (8 * tile) + (IF place = "attribute" THEN 1 ELSE 3)
      BY <2>5, <3>1 DEF TypeInv, Placed, Fetching
    <3>4. dot <= 8 * (tile + 1)
      BY <1>2, <2>5, <3>1, <3>3
    <3> QED
      BY <1>3, <1>4, <2>1, <3>1, <3>2, <3>4
  <2> QED
    BY <1>1, <2>2, <2>3, <2>4, <2>5
<1> QED
  BY <1>3, <1>4

(* A flag due at the first hit of the line, or up since an earlier line, shows at a dot if
   and only if a hit lies before it. *)
LEMMA DueShows ==
    ASSUME NEW hits, NEW line \in Nat, NEW to \in Nat, NEW c, HitsReported(hits, line, to, c),
           \A p \in hits : p[1] \in Nat /\ p = <<p[1], p[2]>>,
           NEW dot \in Nat, dot < Never,
           \A x : <<line, x>> \in hits /\ x < dot => x \in 0..(to - 1)
    PROVE  dot >= c <=> \E p \in hits : p[1] < line \/ (p[1] = line /\ p[2] < dot)
<1> DEFINE Sooner == \E p \in hits : p[1] < line
           Here == \E x : <<line, x>> \in hits /\ x < dot
<1>1. (\E p \in hits : p[1] < line \/ (p[1] = line /\ p[2] < dot)) <=> Sooner \/ Here
  <2>1. ASSUME NEW p \in hits, p[1] = line, p[2] < dot PROVE Here
    <3>1. p = <<line, p[2]>>
      BY <2>1
    <3> QED
      BY <2>1, <3>1
  <2>2. ASSUME NEW x, <<line, x>> \in hits, x < dot
        PROVE  \E p \in hits : p[1] = line /\ p[2] < dot
    <3>1. <<line, x>>[1] = line /\ <<line, x>>[2] = x
      OBVIOUS
    <3> QED
      BY <2>2, <3>1
  <2> QED
    BY <2>1, <2>2
<1>2. CASE Sooner /\ c = 0
  BY <1>1, <1>2
<1>3. ASSUME ~Sooner, c = Never, \A x \in 0..(to - 1) : <<line, x>> \notin hits
      PROVE  dot >= c <=> Sooner \/ Here
  <2>1. ~(dot >= c)
    BY <1>3, NeverIsLate
  <2>2. ~Here
    BY <1>3
  <2> QED
    BY <1>3, <2>1, <2>2
<1>4. ASSUME ~Sooner, NEW x \in 0..(to - 1), c = x + 1, <<line, x>> \in hits,
             \A n \in 0..(x - 1) : <<line, n>> \notin hits
      PROVE  dot >= c <=> Sooner \/ Here
  <2>1. ASSUME Here PROVE x < dot
    <3>1. PICK n : <<line, n>> \in hits /\ n < dot
      BY <2>1
    <3>2. n \in 0..(to - 1) /\ n \notin 0..(x - 1)
      BY <1>4, <3>1
    <3> QED
      BY <3>1, <3>2
  <2>2. x < dot => Here
    BY <1>4
  <2>3. x < dot <=> dot >= c
    BY <1>4
  <2> QED
    BY <1>4, <2>1, <2>2, <2>3
<1> QED
  BY <1>1, <1>2, <1>3, <1>4 DEF HitsReported

(* Where the flags follow the frame, they show what they should at every dot of a step. *)
LEMMA FoundIsShown ==
    ASSUME TypeInv, SpriteInv, Cleared, HitInv, OverflowInv
    PROVE  FlagsOnTime
<1> SUFFICES ASSUME calm, ScrollKnown, Marked(origin.oam[2]) # 255, NEW dot \in Dots
             PROVE  /\ dot >= m_sprite0_hit_cycle
                           <=> ~IsPreRender /\ (\E p \in Hits : Before(p, dot))
                    /\ dot >= m_sprite_overflow_cycle /\ Cardinality(Crowd(PreRenderLine)) < 8
                           => \E line \in LinesBegun : Cardinality(Crowd(line)) >= 8
                    /\ ~IsPreRender /\ (\E line \in 0..(RenderLines - 1) :
                                            line < m_current_line /\ NinthFollows(line))
                           => dot >= m_sprite_overflow_cycle
  BY DEF FlagsOnTime
<1>1. OriginTyped /\ Reported /\ OverflowFound /\ m_current_line \in Nat
  BY SizesTyped DEF SpriteInv, Reported, OverflowInv, TypeInv, TypeOK
<1>2. /\ dot \in Nat /\ dot < Never
      /\ \A x : <<m_current_line, x>> \in Hits /\ x < dot => x \in 0..(DrawnTo - 1)
  BY <1>1, DotsSeeDrawn
<1>5. ASSUME dot >= m_sprite_overflow_cycle, Cardinality(Crowd(PreRenderLine)) < 8
      PROVE  \E line \in LinesBegun : Cardinality(Crowd(line)) >= 8
  <2>1. m_sprite_overflow_cycle # Never
    BY <1>2, <1>5, NeverIsLate
  <2>2. Crowded
    BY <1>1, <2>1 DEF OverflowFound
  <2>3. ~(Cardinality(Crowd(PreRenderLine)) >= 8)
    <3>1. IsFiniteSet(Crowd(PreRenderLine))
      <4>1. IsFiniteSet(0..(Sprites - 1))
        BY SizesTyped, FS_Interval
      <4>2. Crowd(PreRenderLine) \subseteq 0..(Sprites - 1)
        BY DEF Crowd
      <4>. QED
        BY <4>1, <4>2, FS_Subset
    <3>2. Cardinality(Crowd(PreRenderLine)) \in Nat
      BY <3>1, FS_CardinalityType
    <3> QED
      BY <1>5, <3>2
  <2> QED
    BY <2>2, <2>3 DEF Crowded
<1>3. CASE IsPreRender
  <2>1. m_sprite0_hit_cycle = Never /\ ~(dot >= m_sprite0_hit_cycle)
    BY <1>2, <1>3, NeverIsLate DEF Cleared
  <2> QED
    BY <1>3, <1>5, <2>1
<1>4. CASE ~IsPreRender
  <2>1. dot >= m_sprite0_hit_cycle <=> \E p \in Hits : Before(p, dot)
    <3>1. PICK line, c, hits, to :
              line = m_current_line /\ c = m_sprite0_hit_cycle /\ hits = Hits /\ to = DrawnTo
      OBVIOUS
    <3>2. HitsReported(hits, line, to, c)
      BY <1>1, <1>4, <3>1 DEF HitInv, HitFound
    <3>3. \A p \in hits : p[1] \in Nat /\ p = <<p[1], p[2]>>
      BY <1>1, <3>1, HitsTyped
    <3>4. to \in Nat
      BY <3>1, DrawnSoFar DEF TypeInv, TypeOK
    <3>5. \A x : <<line, x>> \in hits /\ x < dot => x \in 0..(to - 1)
      BY <1>2, <3>1
    <3>6. dot >= c <=> \E p \in hits : p[1] < line \/ (p[1] = line /\ p[2] < dot)
      BY <1>1, <1>2, <3>1, <3>2, <3>3, <3>4, <3>5, DueShows
    <3> QED
      BY <3>1, <3>6 DEF Before
  <2>2. (\E line \in 0..(RenderLines - 1) : line < m_current_line /\ NinthFollows(line))
            => m_sprite_overflow_cycle = 0
    BY <1>1, <1>4 DEF OverflowFound
  <2>3. m_sprite_overflow_cycle = 0 => dot >= m_sprite_overflow_cycle
    BY <1>2
  <2> QED
    BY <1>4, <1>5, <2>1, <2>2, <2>3
<1> QED
  BY <1>3, <1>4

(* No flag is due before the first frame. *)
LEMMA FlagsInit == Init => Cleared /\ HitInv /\ OverflowInv
<1> SUFFICES ASSUME Init PROVE Cleared /\ HitInv /\ OverflowInv
  OBVIOUS
<1>1. ~calm /\ ~IsPreRender
  BY SizesTyped DEF Init, RegsInit, IsPreRender
<1> QED
  BY <1>1 DEF Cleared, HitInv, OverflowInv, Reported

(***************************************************************************)
(* Whatever sprites OAM holds and whatever the background is, a read of    *)
(* $2002 at any dot of a frame the program leaves alone says that sprite 0 *)
(* has hit if and only if it has by then, and overflow is not kept back    *)
(* after a line where the ninth sprite directly follows the eighth; nor is *)
(* it reported without a crowded line of the picture, if no more than      *)
(* seven sprites reach the pre-render line, which the code evaluates too.  *)
(***************************************************************************)
THEOREM FlagsShown == Spec => []FlagsOnTime
<1>1. TypeInv /\ ReadInv /\ ScrollInv /\ [Next]_vars => ScrollInv'
  BY ScrollStep
<1>2. TypeInv /\ ScrollInv /\ PictureInv /\ [Next]_vars => PictureInv'
  BY PictureStep
<1>3. TypeInv /\ ScrollInv /\ SpriteInv /\ [Next]_vars => SpriteInv'
  BY SpriteStep
<1>4. TypeInv /\ ScrollInv /\ SpriteInv /\ Cleared /\ HitInv /\ TypeInv' /\ ScrollInv'
      /\ PictureInv' /\ [Next]_vars => HitInv'
  BY HitStep
<1>5. TypeInv /\ ScrollInv /\ SpriteInv /\ Cleared /\ OverflowInv /\ [Next]_vars => OverflowInv'
  BY OverflowStep
<1>6. TypeInv /\ SpriteInv /\ Cleared /\ HitInv /\ OverflowInv => FlagsOnTime
  BY FoundIsShown
<1> QED
  BY TypeInvInit, TypeInvStep, ReadsInit, ReadsStep, ScrollInit, PictureInit, SpriteInit,
     FlagsInit, ClearedStep, <1>1, <1>2, <1>3, <1>4, <1>5, <1>6, PTL DEF Spec
=============================================================================
