------------------------------- MODULE PpuRegs -------------------------------
(***************************************************************************)
(* The eight registers through which the CPU sees the PPU, PPUCtrlRegs:    *)
(* scrolling, the data port and its read buffer, palette memory and its    *)
(* copy, OAM, and the decaying latch.  The vertical blank flag of $2002,   *)
(* its suppression and what $2000 and $2002 do to the NMI are part of the  *)
(* same handlers; they are modelled, dot by dot, in VBlankNmi.             *)
(*                                                                         *)
(* m_v and m_t are 16 bits wide: bits 0-4 are coarse x, 5-9 coarse y,      *)
(* 10-11 the nametable, 12-14 fine y; bit 15 has no meaning.               *)
(***************************************************************************)
EXTENDS Integers, Sequences, FiniteSets

CONSTANTS
    Tiles,           (* tiles drawn on a line                            (32) *)
    RenderLines,     (* lines drawn                                     (240) *)
    IdleLines,       (* lines of the vertical blank                      (21) *)
    Sprites,         (* sprites in OAM                                   (64) *)
    Cases            (* starting points and what the program does with them  *)

Byte == 0..255
Word16 == 0..65535
Unknown == -1

(* The pre-render line is more than a tall sprite below the picture. *)
ASSUME SizeAssumption ==
    /\ Tiles \in 3..32 /\ RenderLines \in 1..240 /\ IdleLines \in 16..21
    /\ Sprites \in 9..64

VARIABLES
    m_v, m_t, m_x, m_w, m_read_buffer, m_decay,
    m_ctrl, m_mask,
    m_oam_addr, oam, (* m_oam_memory, byte by byte                           *)
    vram,            (* the cells of the PPU's address space written so far  *)
    m_palette_copy,  (* the entries written so far                           *)
    m_current_line,
    case, accesses,  (* the case at hand; how often the CPU used a register  *)
    program,         (* history: what the program counts on, or Unknown      *)
    calm             (* history: no register was set since the frame began   *)

scroll == <<m_v, m_t, m_x, m_w>>
memory == <<m_read_buffer, vram, m_palette_copy>>
oams == <<m_oam_addr, oam>>
regs == <<scroll, memory, oams, m_decay, m_ctrl, m_mask, accesses, program, calm>>

-----------------------------------------------------------------------------
CoarseX(v) == v % 32
CoarseY(v) == (v \div 32) % 32
NameTable(v) == (v \div 1024) % 4
FineY(v) == (v \div 4096) % 8
Top(v) == v \div 32768
Fields(top, fine, nt, cy, cx) == (32768 * top) + (4096 * fine) + (1024 * nt) + (32 * cy) + cx

BitOf(v, i) == (v \div 2^i) % 2

rendering_enabled == BitOf(m_mask, 3) = 1 \/ BitOf(m_mask, 4) = 1
sprite_height == IF BitOf(m_ctrl, 5) = 1 THEN 16 ELSE 8

OamSize == 4 * Sprites
PreRenderLine == RenderLines + IdleLines
Blank == m_current_line >= RenderLines /\ m_current_line # PreRenderLine

(* The third byte of a sprite lacks bits 2 to 4. *)
ThirdByte(addr, val) == IF addr % 4 = 2 THEN (32 * (val \div 32)) + (val % 4) ELSE val

(* The registers, OAM and what is written are bytes. *)
ASSUME CasesAssumption ==
    \A c \in Cases :
        /\ c.v \in Word16 /\ c.w \subseteq BOOLEAN /\ c.ctrl \in Byte /\ c.mask \in Byte
        /\ c.oam_addr \in 0..(OamSize - 1)
        /\ c.oam \in [0..(OamSize - 1) -> Byte] /\ c.page \in [0..(OamSize - 1) -> Byte]
        /\ \A a \in c.accesses :
              Len(a) = 2 => a[2] \in IF a[1] = "oam_addr" THEN 0..(OamSize - 1) ELSE Byte

CellAt(a) == IF a \in DOMAIN vram THEN vram[a] ELSE 0
Put(f, a, val) == [b \in DOMAIN f \cup {a} |-> IF b = a THEN val ELSE f[b]]

RegsInit ==
    /\ case \in Cases
    /\ m_v = case.v /\ m_t = case.v /\ m_x = 0 /\ m_w \in case.w
    /\ m_read_buffer = 0 /\ m_decay = 0
    /\ m_ctrl = case.ctrl /\ m_mask = case.mask
    /\ m_oam_addr = case.oam_addr /\ oam = case.oam
    /\ vram = <<>> /\ m_palette_copy = <<>>
    /\ accesses = 0
    /\ LET scrolled == IF case.v = 0 THEN 0 ELSE Unknown
       IN program = [second |-> Unknown, high |-> Unknown, pointer |-> Unknown,
                     source |-> Unknown, x |-> scrolled, y |-> scrolled, nt |-> scrolled]
    /\ calm = FALSE

(***************************************************************************)
(* The program uses a register: one of those of the case, when it may.     *)
(***************************************************************************)
Uses(access) ==
    /\ access \in case.accesses
    /\ accesses < case.limit
    /\ m_current_line \in case.lines
    /\ accesses' = accesses + 1
    /\ UNCHANGED case

Looks(access) == Uses(access) /\ UNCHANGED calm
Disturbs(access) == Uses(access) /\ calm' = (calm /\ Blank)

(* PPUCtrlRegs::write fills the latch before it calls the handler. *)
Writes(reg, val) == Disturbs(<<reg, val>>) /\ m_decay' = val

Knows(changes) == program' = [f \in DOMAIN program |->
                                  IF f \in DOMAIN changes THEN changes[f] ELSE program[f]]
Toggled == IF program.second = Unknown THEN Unknown ELSE 1 - program.second

-----------------------------------------------------------------------------
(***************************************************************************)
(* $2000, $2001, $2002.                                                    *)
(***************************************************************************)
CtrlWrite(val) ==
    /\ Writes("ctrl", val)
    /\ m_ctrl' = val
    /\ m_t' = Fields(Top(m_t), FineY(m_t), val % 4, CoarseY(m_t), CoarseX(m_t))
    /\ Knows([nt |-> val % 4, high |-> Unknown])
    /\ UNCHANGED <<m_v, m_x, m_w, memory, oams, m_mask>>

MaskWrite(val) ==
    /\ Writes("mask", val)
    /\ m_mask' = val
    /\ UNCHANGED <<scroll, memory, oams, m_ctrl, program>>

(* A slip to be caught: reading the status leaves the write toggle alone. *)
StatusReadKeepsToggle ==
    /\ Looks(<<"status">>)
    /\ Knows([second |-> 0, high |-> Unknown])
    /\ UNCHANGED <<scroll, memory, oams, m_decay, m_ctrl, m_mask>>

StatusRead ==
    /\ Looks(<<"status">>)
    /\ m_w' = FALSE
    /\ Knows([second |-> 0, high |-> Unknown])
    /\ UNCHANGED <<m_v, m_t, m_x, memory, oams, m_decay, m_ctrl, m_mask>>

-----------------------------------------------------------------------------
(***************************************************************************)
(* $2003 and $2004, and the copy a DMA makes.                              *)
(***************************************************************************)
OamAddrWrite(val) ==
    /\ Writes("oam_addr", val)
    /\ m_oam_addr' = val
    /\ UNCHANGED <<scroll, memory, oam, m_ctrl, m_mask, program>>

OamDataRead ==
    /\ Looks(<<"oam_data">>)
    /\ m_decay' = IF m_oam_addr % 4 = 2 THEN ThirdByte(m_oam_addr, oam[m_oam_addr])
                  ELSE m_decay
    /\ UNCHANGED <<scroll, memory, oams, m_ctrl, m_mask, program>>

(* A slip to be caught: the address does not wrap. *)
NextOamAddrWide == m_oam_addr + 1

NextOamAddr == (m_oam_addr + 1) % OamSize

(* While the PPU renders, $FF is written instead. *)
OamDataWrite(val) ==
    /\ Writes("oam_data", val)
    /\ oam' = [oam EXCEPT ![m_oam_addr] =
                   ThirdByte(m_oam_addr, IF rendering_enabled /\ ~Blank THEN 255 ELSE val)]
    /\ m_oam_addr' = NextOamAddr
    /\ UNCHANGED <<scroll, memory, m_ctrl, m_mask, program>>

(***************************************************************************)
(* A DMA fills all of OAM, beginning at the OAM address, and masks nothing.*)
(***************************************************************************)
OamDma ==
    /\ Disturbs(<<"dma">>)
    /\ oam' = [a \in 0..(OamSize - 1) |-> case.page[(a - m_oam_addr) % OamSize]]
    /\ UNCHANGED <<scroll, memory, m_oam_addr, m_decay, m_ctrl, m_mask, program>>

-----------------------------------------------------------------------------
(***************************************************************************)
(* $2005 and $2006: two writes each, sharing the toggle and m_t.           *)
(***************************************************************************)
ScrollWrite(val) ==
    /\ Writes("scroll", val)
    /\ m_w' = ~m_w
    /\ IF ~m_w
       THEN /\ m_t' = Fields(Top(m_t), FineY(m_t), NameTable(m_t), CoarseY(m_t), val \div 8)
            /\ m_x' = val % 8
       ELSE /\ m_t' = Fields(Top(m_t), val % 8, NameTable(m_t), val \div 8, CoarseX(m_t))
            /\ UNCHANGED m_x
    /\ CASE program.second = 0 -> Knows([second |-> 1, high |-> Unknown, x |-> val])
         [] program.second = 1 -> Knows([second |-> 0, high |-> Unknown, y |-> val])
         [] OTHER -> Knows([x |-> Unknown, y |-> Unknown])
    /\ UNCHANGED <<m_v, memory, oams, m_ctrl, m_mask>>

AddrWrite(val) ==
    /\ Writes("addr", val)
    /\ m_w' = ~m_w
    /\ IF ~m_w
       THEN m_t' = (m_t % 256) + (256 * (val % 64)) /\ UNCHANGED m_v
       ELSE m_t' = (256 * (m_t \div 256)) + val /\ m_v' = m_t'
    /\ Knows([second |-> Toggled, x |-> Unknown, y |-> Unknown, nt |-> Unknown,
              high |-> IF program.second = 0 THEN val % 64 ELSE Unknown,
              pointer |-> IF program.second = 0 THEN program.pointer
                          ELSE IF program.second = 1 /\ program.high # Unknown
                          THEN (256 * program.high) + val ELSE Unknown])
    /\ UNCHANGED <<m_x, memory, oams, m_ctrl, m_mask>>

-----------------------------------------------------------------------------
(***************************************************************************)
(* $2007.  $3F20 and up mirror the palette, and of that the entries whose  *)
(* number is divisible by four are shared by background and sprites;       *)
(* $3000-$3EFF mirror the nametables.                                      *)
(***************************************************************************)
PaletteIndex(address) ==
    LET entry == address % 32 IN IF entry % 4 = 0 THEN entry % 16 ELSE entry

IsPalette(address) == address >= 16128

Unmirrored(address) ==
    IF IsPalette(address) THEN 16128 + PaletteIndex(address)
    ELSE IF address >= 12288 THEN address - 4096 ELSE address

(* A slip to be caught: the buffer is filled with the palette entry itself. *)
BufferedPalette(address) == Unmirrored(address)

Buffered(address) ==
    IF IsPalette(address) THEN address - 4096 ELSE Unmirrored(address)

Increment == IF BitOf(m_ctrl, 2) = 1 THEN 32 ELSE 1
PointerMoves == IF program.pointer = Unknown THEN Unknown
                ELSE (program.pointer + Increment) % 16384

(* A slip to be caught: the copy of the palette is indexed before mirroring. *)
CopyIndexUnmirrored(address) == address % 32

CopyIndex(address) == PaletteIndex(address)

DataWrite(val) ==
    LET address == m_v % 16384
        cell == Unmirrored(address)
    IN /\ Writes("data", val)
       /\ vram' = Put(vram, cell, val)
       /\ m_palette_copy' = IF IsPalette(address)
                            THEN Put(m_palette_copy, CopyIndex(address), val)
                            ELSE m_palette_copy
       /\ m_v' = (m_v + Increment) % 65536
       /\ Knows([pointer |-> PointerMoves,
                 source |-> IF program.source = cell THEN Unknown ELSE program.source])
       /\ UNCHANGED <<m_t, m_x, m_w, m_read_buffer, oams, m_ctrl, m_mask>>

(***************************************************************************)
(* The value of a read of $2007, and what it leaves in the latch: of a     *)
(* palette entry only six bits are memory, the others are the latch's; and *)
(* the latch's own six bits are not replaced but added to.                 *)
(***************************************************************************)
DataValue ==
    LET address == m_v % 16384
    IN IF IsPalette(address)
       THEN (CellAt(Unmirrored(address)) % 64) + (64 * (m_decay \div 64))
       ELSE m_read_buffer

DecayAfterRead ==
    LET either(i) == IF BitOf(DataValue, i) = 1 \/ (i < 6 /\ BitOf(m_decay, i) = 1)
                     THEN 2^i ELSE 0
    IN IF IsPalette(m_v % 16384)
       THEN either(0) + either(1) + either(2) + either(3)
            + either(4) + either(5) + either(6) + either(7)
       ELSE DataValue

DataRead ==
    LET address == m_v % 16384
    IN /\ Disturbs(<<"data">>)
       /\ m_read_buffer' = CellAt(Buffered(address))
       /\ m_decay' = DecayAfterRead
       /\ m_v' = (m_v + Increment) % 65536
       /\ Knows([pointer |-> PointerMoves,
                 source |-> IF address >= 12288 THEN address - 4096 ELSE address])
       /\ UNCHANGED <<m_t, m_x, m_w, vram, m_palette_copy, oams, m_ctrl, m_mask>>

-----------------------------------------------------------------------------
(* The five other registers answer with the latch, and $2002 swallows writes. *)
InvalidWrite(val) ==
    /\ Writes("invalid", val)
    /\ UNCHANGED <<scroll, memory, oams, m_ctrl, m_mask, program>>

(* run_cpu_cycle empties the latch every 600 ms, whatever was in it. *)
ClearDecay ==
    /\ Looks(<<"decay">>)
    /\ m_decay' = 0
    /\ UNCHANGED <<scroll, memory, oams, m_ctrl, m_mask, program>>

Values == {access[2] : access \in {a \in case.accesses : Len(a) = 2}}

CpuAccess ==
    \/ \E val \in Values :
          \/ CtrlWrite(val) \/ MaskWrite(val) \/ InvalidWrite(val)
          \/ OamAddrWrite(val) \/ OamDataWrite(val)
          \/ ScrollWrite(val) \/ AddrWrite(val) \/ DataWrite(val)
    \/ StatusRead \/ OamDataRead \/ DataRead \/ OamDma \/ ClearDecay

-----------------------------------------------------------------------------
RegsTypeOK ==
    /\ m_v \in Word16 /\ m_t \in Word16 /\ m_x \in 0..7 /\ m_w \in BOOLEAN
    /\ m_read_buffer \in Byte /\ m_decay \in Byte /\ m_ctrl \in Byte /\ m_mask \in Byte
    /\ m_oam_addr \in 0..(OamSize - 1)
    /\ DOMAIN oam = 0..(OamSize - 1) /\ \A a \in DOMAIN oam : oam[a] \in Byte
    /\ DOMAIN m_palette_copy \subseteq 0..31

(***************************************************************************)
(* The palette is kept twice: render_tile takes its colours from the copy, *)
(* the program reads the memory.  Through whichever mirror an entry was    *)
(* written, both have the same colour at every index a pixel can have      *)
(* (0, or one not divisible by four).                                      *)
(***************************************************************************)
PaletteCopyCoherent ==
    \A i \in {0} \cup {j \in 1..31 : j % 4 # 0} :
        (IF i \in DOMAIN m_palette_copy THEN m_palette_copy[i] ELSE 0)
            = CellAt(Unmirrored(16128 + i))

(***************************************************************************)
(* The program that sets an address with $2006, having read $2002 some     *)
(* time before and without $2000 or $2005 in between, and then only uses   *)
(* $2007, is at the address it counts on, although m_v is wider than the   *)
(* bus; and what its next read returns, unless from the palette, is the    *)
(* memory under the address of the last one, if it has not written there   *)
(* since.                                                                  *)
(***************************************************************************)
ReadsReturnMemory ==
    /\ program.pointer # Unknown => m_v % 16384 = program.pointer
    /\ ~IsPalette(m_v % 16384) /\ program.source # Unknown
          => DataValue = CellAt(program.source)
=============================================================================
