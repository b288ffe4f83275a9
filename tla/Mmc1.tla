-------------------------------- MODULE Mmc1 --------------------------------
(***************************************************************************)
(* The MMC1 mapper: a chip on the cartridge that the program loads bit by  *)
(* bit, and that decides which banks of the cartridge's memories appear in *)
(* the windows of the two buses.                                           *)
(*                                                                         *)
(* A store to $8000-$FFFF is one call of register_write, at the CPU cycle  *)
(* in which it happens.  A store that carries bit 7 empties the shift      *)
(* register; any other shifts one bit in, and the fifth loads the register *)
(* named by bits 13 and 14 of its address.  A read-modify-write            *)
(* instruction stores twice, in two successive cycles.  The value is the   *)
(* one left after a bus conflict with the ROM, so the conflict itself is   *)
(* not seen here.                                                          *)
(*                                                                         *)
(* The mapper object outlives the cartridge: init, called for every        *)
(* cartridge that is loaded, does not set all of its members.              *)
(***************************************************************************)
EXTENDS Naturals, Sequences

CONSTANTS
    Cart,          (* cartridges: records of the number of prg banks       *)
                   (* (16 KB), chr banks (4 KB, 0: CHR RAM) and ram (8 KB) *)
    Values,        (* bound: the values the program loads                  *)
    Gaps,          (* bound: cycles between stores of two instructions     *)
    Byte,          (* number of values of a uint8_t                  (256) *)
    MaxCycles,     (* bound: CPU cycles                                    *)
    MaxCarts       (* bound: cartridges loaded after the first             *)

ASSUME CartAssumption ==
    /\ Cart \subseteq [prg : 1..256, chr : 0..64, ram : 1..4]
    /\ Values \subseteq 0..31
    /\ \A gap \in Gaps : gap \in Nat /\ gap >= 4
    /\ Byte \in Nat /\ Byte >= 4
    /\ MaxCycles \in Nat /\ MaxCarts \in Nat

VARIABLES
    cart, carts,             (* the cartridge, how many before it          *)
    cycles,                  (* cpu6502::cycles at the last store          *)
    modifying,               (* between the two stores of one instruction  *)
    last_write_cycle,
    write_count, shift_register,
    regs,                    (* ctrl_reg, chr0_reg, chr1_reg, prg_reg      *)
    last_written_chr_reg,
    uses_chr_ram,
    prg_bank_low, prg_bank_hi, chr_bank_low, chr_bank_hi, crt_ram_bank,
    crt_ram_valid,
    mirroring,
    sent                     (* history: the bits of the current load      *)

program == <<cycles, modifying>>
serial == <<write_count, shift_register>>
windows == <<prg_bank_low, prg_bank_hi, chr_bank_low, chr_bank_hi, crt_ram_bank,
             crt_ram_valid, mirroring>>
inserted == <<cart, carts, uses_chr_ram>>
vars == <<inserted, program, last_write_cycle, serial, regs, last_written_chr_reg,
          windows, sent>>

Ctrl == 0
Chr0 == 1
Chr1 == 2
Prg == 3
Registers == {Ctrl, Chr0, Chr1, Prg}

PrgMode(r) == (r[Ctrl] \div 4) % 4
ChrMode(r) == r[Ctrl] \div 16

(* Bits 2 and 3 set: the last PRG bank is locked at $C000. *)
LockPrg(ctrl) == ctrl - 4 * ((ctrl \div 4) % 4) + 12

(* A cartridge without CHR ROM is given 8 KB of CHR RAM. *)
ChrBanks(c) == IF c.chr = 0 THEN 2 ELSE c.chr

Mirrorings == <<"onescreen_nt1", "onescreen_nt2", "vertical", "horizontal">>

-----------------------------------------------------------------------------
(***************************************************************************)
(* apply_banking, for the cartridge c and the registers r; every set_bank  *)
(* takes its argument modulo the number of banks.  A cartridge of 512 KB   *)
(* finds bit 4 of its PRG bank and its RAM bank in the CHR register last   *)
(* written, unless that is chr1 in 8 KB mode.                              *)
(***************************************************************************)
Even(n) == n - (n % 2)

PrgPair(c, r) ==
    LET bank == r[Prg] % 16 IN
    CASE PrgMode(r) \in {0, 1} -> <<Even(bank), Even(bank) + 1>>
      [] PrgMode(r) = 2 -> <<0, bank>>
      [] PrgMode(r) = 3 -> <<bank, c.prg - 1>>

(* A slip to be caught: in 8 KB mode the low bit is not ignored. *)
ChrPairUnaligned(r) ==
    IF ChrMode(r) = 1 THEN <<r[Chr0], r[Chr1]>> ELSE <<r[Chr0], r[Chr0] + 1>>

ChrPair(r) ==
    IF ChrMode(r) = 1 THEN <<r[Chr0], r[Chr1]>>
    ELSE <<Even(r[Chr0]), Even(r[Chr0]) + 1>>

SetBank(bank, count) == bank % count

IsLarge(c) == c.prg = 32

OuterReg(r, last) == IF last = 0 THEN r[Chr0] ELSE r[Chr1]

HasOuter(c, r, last) == IsLarge(c) /\ (last = 0 \/ ChrMode(r) = 1)

Outer(bank, reg) == (bank % 16) + 16 * (reg \div 16)

ApplyBanking(c, r, last, ram) ==
    LET low == SetBank(PrgPair(c, r)[1], c.prg)
        hi == SetBank(PrgPair(c, r)[2], c.prg)
        reg == OuterReg(r, last) IN
    /\ mirroring' = Mirrorings[(r[Ctrl] % 4) + 1]
    /\ chr_bank_low' = SetBank(ChrPair(r)[1], ChrBanks(c))
    /\ chr_bank_hi' = SetBank(ChrPair(r)[2], ChrBanks(c))
    /\ crt_ram_valid' = (r[Prg] \div 16 = 0)
    /\ IF HasOuter(c, r, last)
       THEN /\ prg_bank_low' = SetBank(Outer(low, reg), c.prg)
            /\ prg_bank_hi' = SetBank(Outer(hi, reg), c.prg)
            /\ crt_ram_bank' = SetBank((reg \div 4) % 4, c.ram)
       ELSE /\ prg_bank_low' = low
            /\ prg_bank_hi' = hi
            /\ crt_ram_bank' = ram

-----------------------------------------------------------------------------
(***************************************************************************)
(* register_write.  The guard is meant for the second store of a           *)
(* read-modify-write instruction; last_write_cycle has eight bits and      *)
(* cycles has not.                                                         *)
(***************************************************************************)
IgnoredAt(now) == now <= last_write_cycle + 2

ClearShift ==
    /\ write_count' = 0
    /\ shift_register' = 0

(* A slip to be caught: the shift register is emptied, but not its count. *)
ResetBitKeepsCount ==
    /\ shift_register' = 0
    /\ regs' = [regs EXCEPT ![Ctrl] = LockPrg(@)]
    /\ UNCHANGED <<write_count, last_written_chr_reg>>
    /\ sent' = <<>>

ResetBit ==
    /\ ClearShift
    /\ regs' = [regs EXCEPT ![Ctrl] = LockPrg(@)]
    /\ UNCHANGED last_written_chr_reg
    /\ sent' = <<>>

(* A slip to be caught: the first bit shifted in ends up as the highest. *)
ShiftedLeft(bit) == ((2 * shift_register) % 32) + bit

Shifted(bit) == shift_register \div 2 + 16 * bit

Shift(bit) ==
    /\ write_count < 4
    /\ write_count' = write_count + 1
    /\ shift_register' = Shifted(bit)
    /\ UNCHANGED <<regs, last_written_chr_reg>>

(* A slip to be caught: the count survives the load. *)
LoadCounting(bit, r) ==
    /\ write_count >= 4
    /\ regs' = [regs EXCEPT ![r] = Shifted(bit)]
    /\ last_written_chr_reg' = IF r = Chr0 THEN 0 ELSE IF r = Chr1 THEN 1
                               ELSE last_written_chr_reg
    /\ write_count' = write_count + 1
    /\ shift_register' = 0

Load(bit, r) ==
    /\ write_count = 4
    /\ regs' = [regs EXCEPT ![r] = Shifted(bit)]
    /\ last_written_chr_reg' = IF r = Chr0 THEN 0 ELSE IF r = Chr1 THEN 1
                               ELSE last_written_chr_reg
    /\ ClearShift

Remember(bit) == sent' = Append(IF Len(sent) = 5 THEN <<>> ELSE sent, bit)

(* Only values of Values are loaded. *)
BelongsToValue(bit) ==
    \E v \in Values : v % 2^(write_count + 1) = Shifted(bit) \div 2^(4 - write_count)

RegisterWrite(now) ==
    IF IgnoredAt(now)
    THEN UNCHANGED <<last_write_cycle, serial, regs, last_written_chr_reg, windows, sent>>
    ELSE /\ last_write_cycle' = now % Byte
         /\ \/ /\ ResetBit
               /\ ApplyBanking(cart, regs', last_written_chr_reg', crt_ram_bank)
            \/ \E bit \in {0, 1} :
                  /\ BelongsToValue(bit)
                  /\ Remember(bit)
                  /\ \/ Shift(bit) /\ UNCHANGED windows
                     \/ \E r \in Registers :
                           /\ Load(bit, r)
                           /\ ApplyBanking(cart, regs', last_written_chr_reg', crt_ram_bank)

(***************************************************************************)
(* The program: a store, or the two stores of a read-modify-write          *)
(* instruction.                                                            *)
(***************************************************************************)
Store(modifies) ==
    /\ ~modifying
    /\ \E gap \in Gaps :
          /\ cycles' = cycles + gap
          /\ cycles' <= MaxCycles
          /\ RegisterWrite(cycles')
    /\ modifying' = modifies
    /\ UNCHANGED inserted

SecondStore ==
    /\ modifying
    /\ modifying' = FALSE
    /\ cycles' = cycles + 1
    /\ RegisterWrite(cycles')
    /\ UNCHANGED inserted

-----------------------------------------------------------------------------
(***************************************************************************)
(* load_cartridge: init of the mapper, which the programs of tests/        *)
(* call once for every game.  The write count, the shift register, the     *)
(* cycle of the last write, the CHR register last written and the flag     *)
(* for CHR RAM are those of before.                                        *)
(***************************************************************************)
PowerUpRegs == [r \in Registers |-> IF r = Ctrl THEN 12 ELSE 0]

(* A slip to be caught: the RAM window keeps its bank. *)
RamWindowKept == crt_ram_bank

RamWindowAfterInit == 0

Insert(c) ==
    /\ cart' = c
    /\ uses_chr_ram' = (uses_chr_ram \/ c.chr = 0)
    /\ regs' = PowerUpRegs
    /\ ApplyBanking(c, regs', last_written_chr_reg, RamWindowAfterInit)
    /\ UNCHANGED <<last_write_cycle, serial, last_written_chr_reg, sent>>

LoadCartridge ==
    /\ carts < MaxCarts
    /\ carts' = carts + 1
    /\ modifying' = FALSE
    /\ UNCHANGED cycles
    /\ \E c \in Cart : Insert(c)

Init ==
    /\ carts = 0 /\ cycles = 0 /\ modifying = FALSE
    /\ last_write_cycle = Byte - 1
    /\ write_count = 0 /\ shift_register = 0
    /\ last_written_chr_reg = 0
    /\ cart \in Cart
    /\ uses_chr_ram = (cart.chr = 0)
    /\ regs = PowerUpRegs
    /\ mirroring = "onescreen_nt1"
    /\ prg_bank_low = 0
    /\ prg_bank_hi = IF IsLarge(cart) THEN 15 ELSE cart.prg - 1
    /\ chr_bank_low = 0
    /\ chr_bank_hi = 1 % ChrBanks(cart)
    /\ crt_ram_bank = 0 /\ crt_ram_valid = TRUE
    /\ sent = <<>>

Next ==
    \/ \E modifies \in BOOLEAN : Store(modifies)
    \/ SecondStore
    \/ LoadCartridge

Spec == Init /\ [][Next]_vars

-----------------------------------------------------------------------------
(* The variables hold values of their C++ types. *)
TypeOK ==
    /\ cart \in Cart /\ carts \in 0..MaxCarts
    /\ cycles \in Nat /\ modifying \in BOOLEAN
    /\ last_write_cycle \in 0..(Byte - 1)
    /\ write_count \in 0..4
    /\ shift_register \in 0..31
    /\ regs \in [Registers -> 0..31]
    /\ last_written_chr_reg \in {0, 1}
    /\ uses_chr_ram \in BOOLEAN
    /\ prg_bank_low \in Nat /\ prg_bank_hi \in Nat
    /\ chr_bank_low \in Nat /\ chr_bank_hi \in Nat /\ crt_ram_bank \in Nat
    /\ crt_ram_valid \in BOOLEAN
    /\ mirroring \in {Mirrorings[i] : i \in 1..4}
    /\ sent \in Seq({0, 1}) /\ Len(sent) <= 5

(***************************************************************************)
(* Every window points into the memory of the cartridge that is inserted,  *)
(* also right after a smaller one has replaced a larger.                   *)
(***************************************************************************)
WindowsInRange ==
    /\ prg_bank_low < cart.prg /\ prg_bank_hi < cart.prg
    /\ chr_bank_low < ChrBanks(cart) /\ chr_bank_hi < ChrBanks(cart)
    /\ crt_ram_bank < cart.ram

(***************************************************************************)
(* What a pair of windows shows together, for a cartridge of an even       *)
(* number of banks: in the modes that switch both at once an even bank and *)
(* its successor; with the last bank locked, the last one of a 256 KB      *)
(* half; with the first locked, the first one of a half.  It must survive  *)
(* the modulo of set_bank and the outer bank of large cartridges.          *)
(***************************************************************************)
Consecutive(low, hi) == low % 2 = 0 /\ hi = low + 1

WindowLayout ==
    /\ ChrMode(regs) = 0 /\ ChrBanks(cart) % 2 = 0 => Consecutive(chr_bank_low, chr_bank_hi)
    /\ cart.prg % 2 = 0 =>
          /\ PrgMode(regs) \in {0, 1} => Consecutive(prg_bank_low, prg_bank_hi)
          /\ PrgMode(regs) = 2 => prg_bank_low % 16 = 0
          /\ PrgMode(regs) = 3 => (prg_bank_hi + 1) % 16 = cart.prg % 16

(***************************************************************************)
(* The shift register holds the bits stored since the last load or reset   *)
(* bit, the first one lowest, at its upper end, and counts them, also when *)
(* a cartridge is replaced or stores are ignored in between.               *)
(***************************************************************************)
Bits(s) == CASE Len(s) = 0 -> 0
             [] Len(s) = 1 -> s[1]
             [] Len(s) = 2 -> s[1] + 2 * s[2]
             [] Len(s) = 3 -> s[1] + 2 * s[2] + 4 * s[3]
             [] Len(s) = 4 -> s[1] + 2 * s[2] + 4 * s[3] + 8 * s[4]
             [] Len(s) = 5 -> s[1] + 2 * s[2] + 4 * s[3] + 8 * s[4] + 16 * s[5]

ShiftHoldsSent ==
    /\ write_count = Len(sent) % 5
    /\ write_count > 0 => shift_register = Bits(sent) * 2^(5 - write_count)

(***************************************************************************)
(* A register changes in three ways only: with a new cartridge, by a reset *)
(* bit, or to exactly the value of five bits stored one after the other;   *)
(* and never two registers at once, and no window without a register.      *)
(***************************************************************************)
LoadsWholeValues ==
    [][carts' = carts =>
        /\ regs' # regs =>
              \/ sent' = <<>> /\ regs' = [regs EXCEPT ![Ctrl] = LockPrg(@)]
              \/ Len(sent') = 5 /\ \E r \in Registers : regs' = [regs EXCEPT ![r] = Bits(sent')]
        /\ windows' # windows => Len(sent') \in {0, 5}]_vars

(***************************************************************************)
(* "ignore successive writes to prevent RMW instructions to alter the      *)
(* register twice due to dummy accesses" (mmc1.cpp, register_write).       *)
(***************************************************************************)
RmwAltersOnce ==
    [][SecondStore /\ last_write_cycle = cycles % Byte      \* the first one counted
        => UNCHANGED <<serial, regs>>]_vars

(***************************************************************************)
(* "chr1 ignored in 8KB mode" (mmc1.cpp, apply_banking): a load of chr1    *)
(* then leaves every window where it is.                                   *)
(***************************************************************************)
Chr1IgnoredIn8KB ==
    [][carts' = carts /\ regs'[Chr1] # regs[Chr1] /\ ChrMode(regs) = 0
        => UNCHANGED windows]_vars
=============================================================================
