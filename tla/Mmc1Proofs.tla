----------------------------- MODULE Mmc1Proofs -----------------------------
(***************************************************************************)
(* Proofs about the MMC1, for every set of cartridges with up to 256 PRG,  *)
(* 64 CHR and 4 RAM banks, every value loaded, every width of the counter  *)
(* last_write_cycle and every number of cartridges loaded one after the    *)
(* other into the same mapper.                                             *)
(*                                                                         *)
(* That the shift register holds what was stored is inductive only with    *)
(* the fact that it is empty whenever its count is zero: register_write    *)
(* shifts into what is there, and only a load or a reset bit empties it.   *)
(***************************************************************************)
EXTENDS Mmc1, TLAPS

ShiftEmptied == write_count = 0 => shift_register = 0

Inv == TypeOK /\ WindowsInRange /\ WindowLayout /\ ShiftHoldsSent /\ ShiftEmptied

-----------------------------------------------------------------------------
LEMMA CartFields ==
    ASSUME NEW c \in Cart
    PROVE  /\ c.prg \in 1..256 /\ c.chr \in 0..64 /\ c.ram \in 1..4
           /\ ChrBanks(c) \in 1..64
  BY CartAssumption DEF ChrBanks

(* set_bank never leaves the memory, and keeps pairs of banks together. *)
LEMMA SetBankInside ==
    ASSUME NEW bank \in Nat, NEW count \in Nat \ {0}
    PROVE  /\ SetBank(bank, count) \in Nat /\ SetBank(bank, count) < count
           /\ bank < count => SetBank(bank, count) = bank
  BY DEF SetBank

(* The remainder is the only one there is. *)
LEMMA Remainder ==
    ASSUME NEW n \in Nat, NEW count \in Nat \ {0}, NEW q \in Nat, NEW r \in Nat,
           r < count, n = count * q + r
    PROVE  n % count = r
  <1>. DEFINE q2 == n \div count
              r2 == n % count
  <1>1. q2 \in Nat /\ r2 \in Nat /\ r2 < count /\ n = count * q2 + r2
    OBVIOUS
  <1>. HIDE DEF q2, r2
  <1>2. ASSUME NEW d \in Nat PROVE count * (d + 1) = count * d + count /\ count * d \in Nat
    OBVIOUS
  <1>3. CASE q2 < q
    <2>. DEFINE d == q - q2 - 1
    <2>1. d \in Nat /\ q = q2 + (d + 1)
      BY <1>1, <1>3
    <2>2. count * q = count * q2 + count * (d + 1)
      BY <1>1, <2>1
    <2>. QED
      BY <1>1, <1>2, <2>1, <2>2
  <1>4. CASE q < q2
    <2>. DEFINE d == q2 - q - 1
    <2>1. d \in Nat /\ q2 = q + (d + 1)
      BY <1>1, <1>4
    <2>2. count * q2 = count * q + count * (d + 1)
      BY <1>1, <2>1
    <2>. QED
      BY <1>1, <1>2, <2>1, <2>2
  <1>5. CASE q = q2
    BY <1>1, <1>5 DEF r2
  <1>. QED
    BY <1>1, <1>3, <1>4, <1>5

LEMMA SetBankKeepsPairs ==
    ASSUME NEW bank \in Nat, bank % 2 = 0, NEW count \in Nat \ {0}, count % 2 = 0
    PROVE  Consecutive(SetBank(bank, count), SetBank(bank + 1, count))
  <1>1. PICK k \in Nat : count = 2 * k
    <2>1. count = 2 * (count \div 2) /\ count \div 2 \in Nat
      OBVIOUS
    <2>. QED
      BY <2>1
  <1>. DEFINE q == bank \div count
              low == bank % count
  <1>2. q \in Nat /\ low \in Nat /\ low < count /\ bank = count * q + low
    OBVIOUS
  <1>3. low % 2 = 0
    <2>1. bank = 2 * (k * q) + low /\ k * q \in Nat
      BY <1>1, <1>2
    <2>. QED
      BY <1>2, <2>1
  <1>4. low + 1 < count
    BY <1>1, <1>2, <1>3
  <1>5. (bank + 1) % count = low + 1
    <2>1. bank + 1 = count * q + (low + 1) /\ low + 1 \in Nat /\ bank + 1 \in Nat
      BY <1>2
    <2>. HIDE DEF q, low
    <2>. QED
      BY <1>2, <1>4, <2>1, Remainder
  <1>. QED
    BY <1>3, <1>5 DEF SetBank, Consecutive

(* What the registers may hold. *)
LEMMA RegisterValues ==
    ASSUME NEW r \in [Registers -> 0..31]
    PROVE  /\ \A n \in Registers : r[n] \in 0..31
           /\ r[Ctrl] \in 0..31 /\ r[Chr0] \in 0..31 /\ r[Chr1] \in 0..31 /\ r[Prg] \in 0..31
           /\ PrgMode(r) \in 0..3 /\ ChrMode(r) \in {0, 1}
           /\ LockPrg(r[Ctrl]) \in 0..31
  <1>1. Registers = {0, 1, 2, 3} /\ Ctrl = 0 /\ Chr0 = 1 /\ Chr1 = 2 /\ Prg = 3
    BY DEF Registers, Ctrl, Chr0, Chr1, Prg
  <1>2. \A n \in Registers : r[n] \in 0..31
    OBVIOUS
  <1>3. r[Ctrl] \in 0..31 /\ r[Chr0] \in 0..31 /\ r[Chr1] \in 0..31 /\ r[Prg] \in 0..31
    BY <1>1, <1>2
  <1>4. PrgMode(r) \in 0..3 /\ ChrMode(r) \in {0, 1}
    BY <1>3 DEF PrgMode, ChrMode
  <1>5. LockPrg(r[Ctrl]) \in 0..31
    BY <1>3 DEF LockPrg
  <1>. QED
    BY <1>2, <1>3, <1>4, <1>5

(* The two PRG banks a mode asks for. *)
LEMMA PrgPairValues ==
    ASSUME NEW c \in Cart, NEW r \in [Registers -> 0..31]
    PROVE  /\ PrgPair(c, r)[1] \in 0..15
           /\ PrgPair(c, r)[2] \in 0..255
           /\ PrgMode(r) # 3 => PrgPair(c, r)[2] \in 0..15
           /\ PrgMode(r) \in {0, 1} =>
                PrgPair(c, r)[1] % 2 = 0 /\ PrgPair(c, r)[2] = PrgPair(c, r)[1] + 1
           /\ PrgMode(r) = 2 => PrgPair(c, r)[1] = 0
           /\ PrgMode(r) = 3 => PrgPair(c, r)[2] = c.prg - 1
  <1>. DEFINE bank == r[Prg] % 16
  <1>1. /\ bank \in 0..15 /\ PrgMode(r) \in 0..3 /\ c.prg \in 1..256
    BY RegisterValues, CartFields
  <1>2. Even(bank) \in 0..14 /\ Even(bank) % 2 = 0 /\ Even(bank) + 1 \in 0..15
    BY <1>1 DEF Even
  <1>. HIDE DEF bank
  <1>3. CASE PrgMode(r) \in {0, 1}
    <2>1. PrgPair(c, r) = <<Even(bank), Even(bank) + 1>>
      BY <1>3 DEF PrgPair, bank
    <2>. QED
      BY <1>2, <1>3, <2>1
  <1>4. CASE PrgMode(r) = 2
    <2>1. PrgPair(c, r) = <<0, bank>>
      BY <1>4 DEF PrgPair, bank
    <2>. QED
      BY <1>1, <1>4, <2>1
  <1>5. CASE PrgMode(r) = 3
    <2>1. PrgPair(c, r) = <<bank, c.prg - 1>>
      BY <1>5 DEF PrgPair, bank
    <2>. QED
      BY <1>1, <1>5, <2>1
  <1>. QED
    BY <1>1, <1>3, <1>4, <1>5

LEMMA ChrPairValues ==
    ASSUME NEW r \in [Registers -> 0..31]
    PROVE  /\ ChrPair(r)[1] \in 0..31 /\ ChrPair(r)[2] \in 0..31
           /\ ChrMode(r) = 0 => ChrPair(r)[1] % 2 = 0 /\ ChrPair(r)[2] = ChrPair(r)[1] + 1
  <1>1. /\ r[Chr0] \in 0..31 /\ r[Chr1] \in 0..31 /\ ChrMode(r) \in {0, 1}
    BY RegisterValues
  <1>2. Even(r[Chr0]) \in 0..30 /\ Even(r[Chr0]) % 2 = 0 /\ Even(r[Chr0]) + 1 \in 0..31
    BY <1>1 DEF Even
  <1>3. CASE ChrMode(r) = 1
    BY <1>1, <1>3 DEF ChrPair
  <1>4. CASE ChrMode(r) = 0
    BY <1>2, <1>4 DEF ChrPair
  <1>. QED
    BY <1>1, <1>3, <1>4

(* The outer bank of a large cartridge: 16 banks more, or none. *)
LEMMA OuterValues ==
    ASSUME NEW bank \in 0..31, NEW reg \in 0..31
    PROVE  /\ Outer(bank, reg) \in 0..31
           /\ Outer(bank, reg) = (bank % 16) \/ Outer(bank, reg) = (bank % 16) + 16
  BY DEF Outer

(***************************************************************************)
(* The windows apply_banking opens, for the modes of the registers it is   *)
(* given.                                                                  *)
(***************************************************************************)
LEMMA PrgWindows ==
    ASSUME NEW c \in Cart, NEW r \in [Registers -> 0..31], NEW last \in {0, 1}, NEW ram,
           ApplyBanking(c, r, last, ram)
    PROVE  /\ prg_bank_low' \in 0..(c.prg - 1) /\ prg_bank_hi' \in 0..(c.prg - 1)
           /\ c.prg % 2 = 0 =>
                /\ PrgMode(r) \in {0, 1} => Consecutive(prg_bank_low', prg_bank_hi')
                /\ PrgMode(r) = 2 => prg_bank_low' % 16 = 0
                /\ PrgMode(r) = 3 => (prg_bank_hi' + 1) % 16 = c.prg % 16
  <1>. DEFINE low == SetBank(PrgPair(c, r)[1], c.prg)
              hi == SetBank(PrgPair(c, r)[2], c.prg)
              reg == OuterReg(r, last)
  <1>1. /\ c.prg \in Nat \ {0} /\ c.prg \in 1..256
        /\ PrgPair(c, r)[1] \in 0..15 /\ PrgPair(c, r)[1] \in Nat
        /\ PrgPair(c, r)[2] \in 0..255 /\ PrgPair(c, r)[2] \in Nat
        /\ PrgMode(r) \in 0..3
    BY CartFields, PrgPairValues, RegisterValues
  <1>2. /\ low \in Nat /\ low < c.prg /\ hi \in Nat /\ hi < c.prg
    BY <1>1, SetBankInside
  <1>3. c.prg % 2 = 0 =>
          /\ PrgMode(r) \in {0, 1} => Consecutive(low, hi)
          /\ PrgMode(r) = 2 => low = 0
          /\ PrgMode(r) = 3 => hi = c.prg - 1
    <2>1. ASSUME c.prg % 2 = 0, PrgMode(r) \in {0, 1} PROVE Consecutive(low, hi)
      BY <1>1, <2>1, PrgPairValues, SetBankKeepsPairs
    <2>2. ASSUME PrgMode(r) = 2 PROVE low = 0
      BY <1>1, <2>2, PrgPairValues, SetBankInside
    <2>3. ASSUME PrgMode(r) = 3 PROVE hi = c.prg - 1
      BY <1>1, <2>3, PrgPairValues, SetBankInside
    <2>. QED
      BY <2>1, <2>2, <2>3
  <1>4. \/ prg_bank_low' = low /\ prg_bank_hi' = hi
        \/ /\ IsLarge(c)
           /\ prg_bank_low' = SetBank(Outer(low, reg), c.prg)
           /\ prg_bank_hi' = SetBank(Outer(hi, reg), c.prg)
    BY DEF ApplyBanking, HasOuter
  <1>. HIDE DEF low, hi
  <1>5. CASE prg_bank_low' = low /\ prg_bank_hi' = hi
    BY <1>1, <1>2, <1>3, <1>5
  <1>6. CASE /\ IsLarge(c)
             /\ prg_bank_low' = SetBank(Outer(low, reg), c.prg)
             /\ prg_bank_hi' = SetBank(Outer(hi, reg), c.prg)
    <2>1. c.prg = 32 /\ reg \in 0..31
      BY <1>6, RegisterValues DEF IsLarge, OuterReg
    <2>. HIDE DEF reg
    <2>2. low \in 0..31 /\ hi \in 0..31
      BY <1>2, <2>1
    <2>3. Outer(low, reg) \in 0..31 /\ Outer(hi, reg) \in 0..31
      BY <2>1, <2>2, OuterValues
    <2>4. prg_bank_low' = Outer(low, reg) /\ prg_bank_hi' = Outer(hi, reg)
      <3>1. \A bank \in 0..31 : SetBank(bank, 32) = bank
        BY DEF SetBank
      <3>. QED
        BY <1>6, <2>1, <2>3, <3>1
    <2>5. CASE PrgMode(r) \in {0, 1}
      <3>1. low \in 0..15 /\ hi \in 0..15
        <4>1. PrgPair(c, r)[1] \in 0..15 /\ PrgPair(c, r)[2] \in 0..15
          BY <1>1, <2>5, PrgPairValues
        <4>2. \A bank \in 0..15 : SetBank(bank, 32) = bank
          BY DEF SetBank
        <4>. QED
          BY <2>1, <4>1, <4>2 DEF low, hi
      <3>2. low % 2 = 0 /\ hi = low + 1
        BY <1>3, <2>1, <2>5 DEF Consecutive
      <3>. QED
        BY <2>1, <2>3, <2>4, <2>5, <3>1, <3>2 DEF Outer, Consecutive
    <2>6. CASE PrgMode(r) = 2
      <3>1. low = 0
        BY <1>3, <2>1, <2>6
      <3>. QED
        BY <2>1, <2>3, <2>4, <2>6, <3>1 DEF Outer
    <2>7. CASE PrgMode(r) = 3
      <3>1. hi = 31
        BY <1>3, <2>1, <2>7
      <3>. QED
        BY <2>1, <2>3, <2>4, <2>7, <3>1 DEF Outer
    <2>. QED
      BY <1>1, <2>5, <2>6, <2>7
  <1>. QED
    BY <1>4, <1>5, <1>6

LEMMA ChrWindows ==
    ASSUME NEW c \in Cart, NEW r \in [Registers -> 0..31], NEW last, NEW ram,
           ApplyBanking(c, r, last, ram)
    PROVE  /\ chr_bank_low' \in 0..(ChrBanks(c) - 1) /\ chr_bank_hi' \in 0..(ChrBanks(c) - 1)
           /\ ChrMode(r) = 0 /\ ChrBanks(c) % 2 = 0 => Consecutive(chr_bank_low', chr_bank_hi')
  <1>1. /\ ChrBanks(c) \in Nat \ {0}
        /\ ChrPair(r)[1] \in Nat /\ ChrPair(r)[2] \in Nat
    BY CartFields, ChrPairValues
  <1>2. /\ chr_bank_low' = SetBank(ChrPair(r)[1], ChrBanks(c))
        /\ chr_bank_hi' = SetBank(ChrPair(r)[2], ChrBanks(c))
    BY DEF ApplyBanking
  <1>3. /\ chr_bank_low' \in Nat /\ chr_bank_low' < ChrBanks(c)
        /\ chr_bank_hi' \in Nat /\ chr_bank_hi' < ChrBanks(c)
    BY <1>1, <1>2, SetBankInside
  <1>4. ASSUME ChrMode(r) = 0, ChrBanks(c) % 2 = 0
        PROVE  Consecutive(chr_bank_low', chr_bank_hi')
    BY <1>1, <1>2, <1>4, ChrPairValues, SetBankKeepsPairs
  <1>. QED
    BY <1>1, <1>3, <1>4

LEMMA RamWindow ==
    ASSUME NEW c \in Cart, NEW r \in [Registers -> 0..31], NEW last \in {0, 1},
           NEW ram \in 0..(c.ram - 1),
           ApplyBanking(c, r, last, ram)
    PROVE  crt_ram_bank' \in 0..(c.ram - 1)
  <1>. DEFINE reg == OuterReg(r, last)
  <1>1. reg \in 0..31 /\ c.ram \in 1..4 /\ c.ram \in Nat \ {0}
    BY RegisterValues, CartFields DEF OuterReg
  <1>2. crt_ram_bank' = ram \/ crt_ram_bank' = SetBank((reg \div 4) % 4, c.ram)
    BY DEF ApplyBanking
  <1>. HIDE DEF reg
  <1>3. (reg \div 4) % 4 \in Nat
    BY <1>1
  <1>4. SetBank((reg \div 4) % 4, c.ram) \in 0..(c.ram - 1)
    BY <1>1, <1>3, SetBankInside
  <1>. QED
    BY <1>2, <1>4

LEMMA MirroringOf ==
    ASSUME NEW c, NEW r \in [Registers -> 0..31], NEW last, NEW ram,
           ApplyBanking(c, r, last, ram)
    PROVE  /\ mirroring' \in {Mirrorings[i] : i \in 1..4}
           /\ crt_ram_valid' \in BOOLEAN
  <1>1. (r[Ctrl] % 4) + 1 \in 1..4
    BY RegisterValues
  <1>. QED
    BY <1>1 DEF ApplyBanking

(* All that apply_banking promises, for the registers it leaves behind. *)
LEMMA BankingInvariant ==
    ASSUME cart' \in Cart, regs' \in [Registers -> 0..31], last_written_chr_reg' \in {0, 1},
           NEW ram \in 0..(cart'.ram - 1),
           ApplyBanking(cart', regs', last_written_chr_reg', ram)
    PROVE  /\ WindowsInRange' /\ WindowLayout'
           /\ prg_bank_low' \in Nat /\ prg_bank_hi' \in Nat
           /\ chr_bank_low' \in Nat /\ chr_bank_hi' \in Nat /\ crt_ram_bank' \in Nat
           /\ crt_ram_valid' \in BOOLEAN
           /\ mirroring' \in {Mirrorings[i] : i \in 1..4}
  <1>1. /\ cart'.prg \in 1..256 /\ cart'.ram \in 1..4 /\ ChrBanks(cart') \in 1..64
    BY CartFields
  <1>2. /\ prg_bank_low' \in 0..(cart'.prg - 1) /\ prg_bank_hi' \in 0..(cart'.prg - 1)
        /\ cart'.prg % 2 = 0 =>
             /\ PrgMode(regs') \in {0, 1} => Consecutive(prg_bank_low', prg_bank_hi')
             /\ PrgMode(regs') = 2 => prg_bank_low' % 16 = 0
             /\ PrgMode(regs') = 3 => (prg_bank_hi' + 1) % 16 = cart'.prg % 16
    BY PrgWindows
  <1>3. /\ chr_bank_low' \in 0..(ChrBanks(cart') - 1)
        /\ chr_bank_hi' \in 0..(ChrBanks(cart') - 1)
        /\ ChrMode(regs') = 0 /\ ChrBanks(cart') % 2 = 0
             => Consecutive(chr_bank_low', chr_bank_hi')
    BY ChrWindows
  <1>4. crt_ram_bank' \in 0..(cart'.ram - 1)
    BY RamWindow
  <1>5. /\ mirroring' \in {Mirrorings[i] : i \in 1..4}
        /\ crt_ram_valid' \in BOOLEAN
    BY MirroringOf
  <1>6. WindowsInRange'
    BY <1>1, <1>2, <1>3, <1>4 DEF WindowsInRange
  <1>7. WindowLayout'
    BY <1>2, <1>3 DEF WindowLayout
  <1>. QED
    BY <1>1, <1>2, <1>3, <1>4, <1>5, <1>6, <1>7

-----------------------------------------------------------------------------
(* Halving a value that ends above the lowest bit, and setting the highest. *)
LEMMA HalveAndSet ==
    ASSUME NEW v \in Nat, NEW b \in {0, 1}
    PROVE  /\ v < 2 => (v * 16) \div 2 + 16 * b = (v + 2 * b) * 8 /\ (v + 2 * b) * 8 \in 0..31
           /\ v < 4 => (v * 8) \div 2 + 16 * b = (v + 4 * b) * 4 /\ (v + 4 * b) * 4 \in 0..31
           /\ v < 8 => (v * 4) \div 2 + 16 * b = (v + 8 * b) * 2 /\ (v + 8 * b) * 2 \in 0..31
           /\ v < 16 => (v * 2) \div 2 + 16 * b = v + 16 * b /\ v + 16 * b \in 0..31
  <1>1. CASE b = 0
    BY <1>1
  <1>2. CASE b = 1
    BY <1>2
  <1>. QED
    BY <1>1, <1>2

(* Shifting one bit in, below the load. *)
LEMMA ShiftedHoldsBits ==
    ASSUME NEW s \in Seq({0, 1}), Len(s) \in 0..4, NEW bit \in {0, 1},
           NEW register \in 0..31,
           Len(s) > 0 => register = Bits(s) * 2^(5 - Len(s)),
           Len(s) = 0 => register = 0
    PROVE  /\ register \div 2 + 16 * bit \in 0..31
           /\ register \div 2 + 16 * bit = Bits(Append(s, bit)) * 2^(4 - Len(s))
           /\ Len(s) = 4 => register \div 2 + 16 * bit = Bits(Append(s, bit))
  <1>. DEFINE t == Append(s, bit)
  <1>1. /\ Len(t) = Len(s) + 1 /\ t[Len(s) + 1] = bit
        /\ \A i \in 1..Len(s) : t[i] = s[i] /\ s[i] \in {0, 1}
    OBVIOUS
  <1>. HIDE DEF t
  <1>2. CASE Len(s) = 0
    <2>1. Bits(t) = bit
      BY <1>1, <1>2 DEF Bits
    <2>. QED
      BY <1>2, <2>1 DEF t
  <1>3. CASE Len(s) = 1
    <2>1. s[1] \in {0, 1}
      BY <1>1, <1>3
    <2>2. Bits(t) = Bits(s) + 2 * bit /\ Bits(s) \in 0..1
      BY <1>1, <1>3, <2>1 DEF Bits
    <2>3. 5 - Len(s) = 4 /\ 4 - Len(s) = 3 /\ 2^4 = 16 /\ 2^3 = 8
      BY <1>3
    <2>4. register = Bits(s) * 16
      BY <1>3, <2>3
    <2>5. register \div 2 + 16 * bit = Bits(t) * 8 /\ Bits(t) * 8 \in 0..31
      <3>1. PICK v \in Nat : v = Bits(s) /\ v < 2
        BY <2>2
      <3>2. register = v * 16 /\ Bits(t) = v + 2 * bit
        BY <2>2, <2>4, <3>1
      <3>. QED
        BY <3>1, <3>2, HalveAndSet
    <2>. QED
      BY <1>3, <2>2, <2>3, <2>5 DEF t
  <1>4. CASE Len(s) = 2
    <2>1. s[1] \in {0, 1} /\ s[2] \in {0, 1}
      BY <1>1, <1>4
    <2>2. Bits(t) = Bits(s) + 4 * bit /\ Bits(s) \in 0..3
      BY <1>1, <1>4, <2>1 DEF Bits
    <2>3. 5 - Len(s) = 3 /\ 4 - Len(s) = 2 /\ 2^3 = 8 /\ 2^2 = 4
      BY <1>4
    <2>4. register = Bits(s) * 8
      BY <1>4, <2>3
    <2>5. register \div 2 + 16 * bit = Bits(t) * 4 /\ Bits(t) * 4 \in 0..31
      <3>1. PICK v \in Nat : v = Bits(s) /\ v < 4
        BY <2>2
      <3>2. register = v * 8 /\ Bits(t) = v + 4 * bit
        BY <2>2, <2>4, <3>1
      <3>. QED
        BY <3>1, <3>2, HalveAndSet
    <2>. QED
      BY <1>4, <2>2, <2>3, <2>5 DEF t
  <1>5. CASE Len(s) = 3
    <2>1. s[1] \in {0, 1} /\ s[2] \in {0, 1} /\ s[3] \in {0, 1}
      BY <1>1, <1>5
    <2>2. Bits(t) = Bits(s) + 8 * bit /\ Bits(s) \in 0..7
      BY <1>1, <1>5, <2>1 DEF Bits
    <2>3. 5 - Len(s) = 2 /\ 4 - Len(s) = 1 /\ 2^2 = 4 /\ 2^1 = 2
      BY <1>5
    <2>4. register = Bits(s) * 4
      BY <1>5, <2>3
    <2>5. register \div 2 + 16 * bit = Bits(t) * 2 /\ Bits(t) * 2 \in 0..31
      <3>1. PICK v \in Nat : v = Bits(s) /\ v < 8
        BY <2>2
      <3>2. register = v * 4 /\ Bits(t) = v + 8 * bit
        BY <2>2, <2>4, <3>1
      <3>. QED
        BY <3>1, <3>2, HalveAndSet
    <2>. QED
      BY <1>5, <2>2, <2>3, <2>5 DEF t
  <1>6. CASE Len(s) = 4
    <2>1. s[1] \in {0, 1} /\ s[2] \in {0, 1} /\ s[3] \in {0, 1} /\ s[4] \in {0, 1}
      BY <1>1, <1>6
    <2>2. Bits(t) = Bits(s) + 16 * bit /\ Bits(s) \in 0..15
      BY <1>1, <1>6, <2>1 DEF Bits
    <2>3. 5 - Len(s) = 1 /\ 4 - Len(s) = 0 /\ 2^1 = 2 /\ 2^0 = 1
      BY <1>6
    <2>4. register = Bits(s) * 2
      BY <1>6, <2>3
    <2>5. register \div 2 + 16 * bit = Bits(t) /\ Bits(t) \in 0..31
      <3>1. PICK v \in Nat : v = Bits(s) /\ v < 16
        BY <2>2
      <3>2. register = v * 2 /\ Bits(t) = v + 16 * bit
        BY <2>2, <2>4, <3>1
      <3>. QED
        BY <3>1, <3>2, HalveAndSet
    <2>6. Bits(t) * 1 = Bits(t)
      BY <2>5
    <2>. QED
      BY <1>6, <2>2, <2>3, <2>5, <2>6 DEF t
  <1>. QED
    BY <1>2, <1>3, <1>4, <1>5, <1>6

-----------------------------------------------------------------------------
(* A store that register_write does not ignore, as the shift register sees it. *)
ResetStored ==
    /\ ResetBit
    /\ ApplyBanking(cart, regs', last_written_chr_reg', crt_ram_bank)

BitShifted(bit) == Remember(bit) /\ Shift(bit) /\ UNCHANGED windows

ValueLoaded(bit, r) ==
    /\ Remember(bit) /\ Load(bit, r)
    /\ ApplyBanking(cart, regs', last_written_chr_reg', crt_ram_bank)

LEMMA StoreCases ==
    ASSUME TypeOK, NEW now \in Nat, RegisterWrite(now)
    PROVE  \/ UNCHANGED <<last_write_cycle, serial, regs, last_written_chr_reg, windows, sent>>
           \/ /\ last_write_cycle' \in 0..(Byte - 1)
              /\ \/ ResetStored
                 \/ \E bit \in {0, 1} : BitShifted(bit)
                 \/ \E bit \in {0, 1}, r \in Registers : ValueLoaded(bit, r)
  <1>1. Byte \in Nat \ {0}
    BY CartAssumption
  <1>2. now % Byte \in 0..(Byte - 1)
    BY <1>1
  <1>3. CASE IgnoredAt(now)
    BY <1>3 DEF RegisterWrite
  <1>4. CASE ~IgnoredAt(now)
    BY <1>2, <1>4 DEF RegisterWrite, ResetStored, BitShifted, ValueLoaded
  <1>. QED
    BY <1>3, <1>4

LEMMA LengthUpTo ==
    ASSUME NEW s \in Seq({0, 1}), NEW bound \in Nat, Len(s) <= bound
    PROVE  Len(s) \in 0..bound
  <1>. DEFINE n == Len(s)
  <1>1. n \in Nat /\ n <= bound
    OBVIOUS
  <1>. HIDE DEF n
  <1>2. n \in 0..bound
    BY <1>1
  <1>. QED
    BY <1>2 DEF n

(* The state between two stores, and what one bit more makes of it. *)
LEMMA BitRemembered ==
    ASSUME Inv, NEW bit \in {0, 1}, Remember(bit)
    PROVE  /\ sent' \in Seq({0, 1}) /\ Len(sent') = write_count + 1
           /\ Shifted(bit) \in 0..31
           /\ Shifted(bit) = Bits(sent') * 2^(4 - write_count)
           /\ write_count = 4 => Shifted(bit) = Bits(sent')
  <1>. DEFINE s == IF Len(sent) = 5 THEN <<>> ELSE sent
  <1>1. /\ sent \in Seq({0, 1}) /\ Len(sent) \in 0..5 /\ write_count \in 0..4
        /\ shift_register \in 0..31
        /\ write_count = Len(sent) % 5
        /\ write_count > 0 => shift_register = Bits(sent) * 2^(5 - write_count)
        /\ write_count = 0 => shift_register = 0
    <2>1. sent \in Seq({0, 1}) /\ Len(sent) <= 5 /\ write_count \in 0..4 /\ shift_register \in 0..31
      BY DEF Inv, TypeOK
    <2>2. Len(sent) \in 0..5
      BY <2>1, LengthUpTo
    <2>. QED
      BY <2>1, <2>2 DEF Inv, ShiftHoldsSent, ShiftEmptied
  <1>2. /\ s \in Seq({0, 1}) /\ Len(s) \in 0..4 /\ Len(s) = write_count
        /\ write_count > 0 => s = sent
    <2>1. \/ Len(sent) = 5 /\ write_count = 0
          \/ Len(sent) # 5 /\ Len(sent) \in 0..4 /\ Len(sent) = write_count
      <3>. DEFINE n == Len(sent)
      <3>1. n \in 0..5 /\ write_count = n % 5
        BY <1>1
      <3>. HIDE DEF n
      <3>2. (n = 5 /\ write_count = 0) \/ (n # 5 /\ n \in 0..4 /\ n = write_count)
        BY <3>1
      <3>. QED
        BY <3>2 DEF n
    <2>2. CASE Len(sent) = 5 /\ write_count = 0
      <3>1. s = <<>> /\ Len(s) = 0 /\ s \in Seq({0, 1})
        BY <2>2
      <3>. QED
        BY <2>2, <3>1
    <2>3. CASE Len(sent) # 5 /\ Len(sent) \in 0..4 /\ Len(sent) = write_count
      <3>1. s = sent
        BY <2>3
      <3>. HIDE DEF s
      <3>. QED
        BY <1>1, <2>3, <3>1, Zenon
    <2>. QED
      BY <2>1, <2>2, <2>3
  <1>3. sent' = Append(s, bit)
    BY DEF Remember
  <1>. HIDE DEF s
  <1>4. /\ shift_register \div 2 + 16 * bit \in 0..31
        /\ shift_register \div 2 + 16 * bit = Bits(Append(s, bit)) * 2^(4 - Len(s))
        /\ Len(s) = 4 => shift_register \div 2 + 16 * bit = Bits(Append(s, bit))
    BY ZenonT(40), <1>1, <1>2, ShiftedHoldsBits
  <1>. QED
    BY <1>2, <1>3, <1>4 DEF Shifted

(***************************************************************************)
(* What a store preserves, whichever of the four things it does.           *)
(***************************************************************************)
RegistersTyped ==
    /\ last_write_cycle \in 0..(Byte - 1)
    /\ write_count \in 0..4
    /\ shift_register \in 0..31
    /\ regs \in [Registers -> 0..31]
    /\ last_written_chr_reg \in {0, 1}
    /\ sent \in Seq({0, 1}) /\ Len(sent) <= 5

WindowsTyped ==
    /\ prg_bank_low \in Nat /\ prg_bank_hi \in Nat
    /\ chr_bank_low \in Nat /\ chr_bank_hi \in Nat /\ crt_ram_bank \in Nat
    /\ crt_ram_valid \in BOOLEAN
    /\ mirroring \in {Mirrorings[i] : i \in 1..4}

LEMMA WriteKeepsRegisters ==
    ASSUME Inv, NEW now \in Nat, RegisterWrite(now)
    PROVE  /\ RegistersTyped' /\ ShiftHoldsSent' /\ ShiftEmptied'
           /\ \/ UNCHANGED <<regs, windows>>
              \/ ApplyBanking(cart, regs', last_written_chr_reg', crt_ram_bank)
  <1>1. TypeOK /\ RegistersTyped /\ ShiftHoldsSent /\ ShiftEmptied
    BY DEF Inv, TypeOK, RegistersTyped
  <1>2. CASE UNCHANGED <<last_write_cycle, serial, regs, last_written_chr_reg, windows, sent>>
    BY <1>1, <1>2 DEF serial, RegistersTyped, ShiftHoldsSent, ShiftEmptied
  <1>3. ASSUME last_write_cycle' \in 0..(Byte - 1), ResetStored
        PROVE  /\ RegistersTyped' /\ ShiftHoldsSent' /\ ShiftEmptied'
               /\ ApplyBanking(cart, regs', last_written_chr_reg', crt_ram_bank)
    <2>1. /\ write_count' = 0 /\ shift_register' = 0 /\ sent' = <<>>
          /\ regs' = [regs EXCEPT ![Ctrl] = LockPrg(@)]
          /\ last_written_chr_reg' = last_written_chr_reg
      BY <1>3 DEF ResetStored, ResetBit, ClearShift
    <2>2. regs' \in [Registers -> 0..31]
      BY <1>1, <2>1, RegisterValues DEF RegistersTyped
    <2>. QED
      BY <1>1, <1>3, <2>1, <2>2
         DEF RegistersTyped, ShiftHoldsSent, ShiftEmptied, ResetStored
  <1>4. ASSUME last_write_cycle' \in 0..(Byte - 1), NEW bit \in {0, 1}, BitShifted(bit)
        PROVE  /\ RegistersTyped' /\ ShiftHoldsSent' /\ ShiftEmptied'
               /\ UNCHANGED <<regs, windows>>
    <2>1. /\ sent' \in Seq({0, 1}) /\ Len(sent') = write_count + 1
          /\ Shifted(bit) \in 0..31
          /\ Shifted(bit) = Bits(sent') * 2^(4 - write_count)
      BY <1>4, BitRemembered DEF BitShifted
    <2>2. /\ write_count \in 0..3 /\ write_count' = write_count + 1
          /\ shift_register' = Shifted(bit)
          /\ UNCHANGED <<regs, last_written_chr_reg, windows>>
      BY <1>1, <1>4 DEF BitShifted, Shift, TypeOK
    <2>3. RegistersTyped'
      BY <1>1, <1>4, <2>1, <2>2 DEF RegistersTyped
    <2>4. ShiftHoldsSent'
      <3>1. Len(sent') \in 1..4 /\ Len(sent') % 5 = Len(sent') /\ write_count' = Len(sent')
            /\ 5 - write_count' = 4 - write_count
        BY <2>1, <2>2
      <3>. QED
        BY <2>1, <2>2, <3>1 DEF ShiftHoldsSent
    <2>5. ShiftEmptied'
      BY <2>2 DEF ShiftEmptied
    <2>. QED
      BY <2>2, <2>3, <2>4, <2>5
  <1>5. ASSUME last_write_cycle' \in 0..(Byte - 1),
               NEW bit \in {0, 1}, NEW r \in Registers, ValueLoaded(bit, r)
        PROVE  /\ RegistersTyped' /\ ShiftHoldsSent' /\ ShiftEmptied'
               /\ ApplyBanking(cart, regs', last_written_chr_reg', crt_ram_bank)
    <2>1. /\ sent' \in Seq({0, 1}) /\ Len(sent') = write_count + 1
          /\ Shifted(bit) \in 0..31
      BY <1>5, BitRemembered DEF ValueLoaded
    <2>2. /\ write_count = 4 /\ write_count' = 0 /\ shift_register' = 0
          /\ regs' = [regs EXCEPT ![r] = Shifted(bit)]
          /\ last_written_chr_reg' \in {0, 1, last_written_chr_reg}
      BY <1>5 DEF ValueLoaded, Load, ClearShift
    <2>3. RegistersTyped'
      BY <1>1, <1>5, <2>1, <2>2 DEF RegistersTyped
    <2>4. ShiftHoldsSent' /\ ShiftEmptied'
      BY <2>1, <2>2 DEF ShiftHoldsSent, ShiftEmptied
    <2>. QED
      BY <1>5, <2>3, <2>4 DEF ValueLoaded
  <1>. QED
    BY <1>1, <1>2, <1>3, <1>4, <1>5, StoreCases

LEMMA WriteKeepsInv ==
    ASSUME Inv, NEW now \in Nat, RegisterWrite(now), UNCHANGED inserted,
           cycles' \in Nat, modifying' \in BOOLEAN
    PROVE  Inv'
  <1>1. TypeOK /\ WindowsInRange /\ WindowLayout /\ WindowsTyped
    BY DEF Inv, TypeOK, WindowsTyped
  <1>2. RegistersTyped' /\ ShiftHoldsSent' /\ ShiftEmptied'
    BY WriteKeepsRegisters
  <1>3. cart' = cart /\ cart' \in Cart /\ carts' \in 0..MaxCarts /\ uses_chr_ram' \in BOOLEAN
    BY <1>1 DEF TypeOK, inserted
  <1>4. WindowsInRange' /\ WindowLayout' /\ WindowsTyped'
    <2>1. CASE UNCHANGED <<regs, windows>>
      BY <1>1, <1>3, <2>1 DEF windows, WindowsInRange, WindowLayout, WindowsTyped
    <2>2. CASE ApplyBanking(cart, regs', last_written_chr_reg', crt_ram_bank)
      <3>1. cart.ram \in 1..4 /\ crt_ram_bank \in 0..(cart.ram - 1)
        BY <1>1, CartFields DEF TypeOK, WindowsInRange
      <3>2. crt_ram_bank \in 0..(cart'.ram - 1)
            /\ ApplyBanking(cart', regs', last_written_chr_reg', crt_ram_bank)
        BY <1>3, <2>2, <3>1
      <3>3. regs' \in [Registers -> 0..31] /\ last_written_chr_reg' \in {0, 1}
        BY <1>2 DEF RegistersTyped
      <3>. QED
        BY <1>3, <3>2, <3>3, BankingInvariant DEF WindowsTyped
    <2>. QED
      BY <2>1, <2>2, WriteKeepsRegisters
  <1>5. TypeOK'
    BY <1>2, <1>3, <1>4 DEF TypeOK, RegistersTyped, WindowsTyped
  <1>. QED
    BY <1>2, <1>4, <1>5 DEF Inv

(* Another cartridge in the same mapper. *)
LEMMA InsertKeepsInv ==
    ASSUME Inv, LoadCartridge
    PROVE  Inv'
  <1>1. PICK c \in Cart : Insert(c)
    BY DEF LoadCartridge
  <1>2. TypeOK /\ ShiftHoldsSent /\ ShiftEmptied
    BY DEF Inv
  <1>3. /\ cart' \in Cart /\ regs' \in [Registers -> 0..31]
        /\ last_written_chr_reg' \in {0, 1} /\ uses_chr_ram' \in BOOLEAN
    BY <1>1, <1>2 DEF Insert, PowerUpRegs, TypeOK
  <1>4. 0 \in 0..(cart'.ram - 1) /\ ApplyBanking(cart', regs', last_written_chr_reg', 0)
    <2>1. cart' = c /\ last_written_chr_reg' = last_written_chr_reg
          /\ ApplyBanking(c, regs', last_written_chr_reg, 0)
      BY <1>1 DEF Insert, RamWindowAfterInit
    <2>2. c.ram \in 1..4
      BY CartFields
    <2>. QED
      BY <2>1, <2>2
  <1>5. WindowsInRange' /\ WindowLayout' /\ WindowsTyped'
    BY <1>3, <1>4, BankingInvariant DEF WindowsTyped
  <1>6. UNCHANGED <<last_write_cycle, serial, sent, cycles>> /\ modifying' = FALSE
    BY <1>1 DEF LoadCartridge, Insert
  <1>7. carts' \in 0..MaxCarts
    BY <1>2, CartAssumption DEF LoadCartridge, TypeOK
  <1>8. TypeOK'
    BY <1>2, <1>3, <1>5, <1>6, <1>7 DEF TypeOK, WindowsTyped, serial
  <1>9. ShiftHoldsSent' /\ ShiftEmptied'
    BY <1>2, <1>6 DEF ShiftHoldsSent, ShiftEmptied, serial
  <1>. QED
    BY <1>5, <1>8, <1>9 DEF Inv

LEMMA InitInv == Init => Inv
  <1>. SUFFICES ASSUME Init PROVE Inv
    OBVIOUS
  <1>1. /\ cart \in Cart /\ cart.prg \in 1..256 /\ cart.ram \in 1..4
        /\ ChrBanks(cart) \in 1..64
    BY CartFields DEF Init
  <1>2. /\ regs \in [Registers -> 0..31] /\ ChrMode(regs) = 0 /\ PrgMode(regs) = 3
    <2>1. regs \in [Registers -> 0..31] /\ regs[Ctrl] = 12
      BY DEF Init, PowerUpRegs, Registers
    <2>. QED
      BY <2>1 DEF ChrMode, PrgMode
  <1>3. /\ prg_bank_low = 0 /\ chr_bank_low = 0 /\ crt_ram_bank = 0
        /\ prg_bank_hi = IF cart.prg = 32 THEN 15 ELSE cart.prg - 1
        /\ chr_bank_hi = 1 % ChrBanks(cart)
    BY DEF Init, IsLarge
  <1>4. /\ chr_bank_hi \in 0..(ChrBanks(cart) - 1)
        /\ ChrBanks(cart) % 2 = 0 => chr_bank_hi = 1
    BY <1>1, <1>3
  <1>5. WindowsInRange
    BY <1>1, <1>3, <1>4 DEF WindowsInRange
  <1>6. WindowLayout
    BY <1>1, <1>2, <1>3, <1>4 DEF WindowLayout, Consecutive
  <1>7. TypeOK
    <2>1. mirroring \in {Mirrorings[i] : i \in 1..4}
      <3>1. mirroring = Mirrorings[1] /\ 1 \in 1..4
        BY DEF Init, Mirrorings
      <3>. QED
        BY <3>1
    <2>2. sent = <<>> /\ sent \in Seq({0, 1}) /\ Len(sent) = 0
      BY DEF Init
    <2>3. Byte - 1 \in 0..(Byte - 1) /\ 0 \in 0..MaxCarts
      BY CartAssumption
    <2>4. /\ prg_bank_low \in Nat /\ prg_bank_hi \in Nat
          /\ chr_bank_low \in Nat /\ chr_bank_hi \in Nat /\ crt_ram_bank \in Nat
      BY <1>1, <1>3, <1>4
    <2>5. uses_chr_ram \in BOOLEAN
      BY DEF Init
    <2>6. Len(sent) <= 5
      BY <2>2
    <2>7. /\ carts \in 0..MaxCarts /\ cycles \in Nat /\ modifying \in BOOLEAN
      BY <2>3 DEF Init
    <2>8. /\ last_write_cycle \in 0..(Byte - 1) /\ write_count \in 0..4
      BY <2>3 DEF Init
    <2>9. shift_register \in 0..31 /\ last_written_chr_reg \in {0, 1} /\ crt_ram_valid \in BOOLEAN
      BY DEF Init
    <2>. QED
      BY <1>1, <1>2, <2>1, <2>2, <2>4, <2>5, <2>6, <2>7, <2>8, <2>9, Zenon DEF TypeOK
  <1>8. ShiftHoldsSent /\ ShiftEmptied
    BY DEF Init, ShiftHoldsSent, ShiftEmptied
  <1>. QED
    BY <1>5, <1>6, <1>7, <1>8 DEF Inv

LEMMA NextInv == Inv /\ [Next]_vars => Inv'
  <1>. SUFFICES ASSUME Inv, [Next]_vars PROVE Inv'
    OBVIOUS
  <1>1. ASSUME NEW modifies \in BOOLEAN, Store(modifies) PROVE Inv'
    <2>1. PICK gap \in Gaps : cycles' = cycles + gap /\ RegisterWrite(cycles')
      BY <1>1 DEF Store
    <2>2. cycles' \in Nat
      BY <2>1, CartAssumption DEF Inv, TypeOK
    <2>. QED
      BY <1>1, <2>1, <2>2, WriteKeepsInv DEF Store
  <1>2. CASE SecondStore
    <2>1. cycles' \in Nat /\ RegisterWrite(cycles')
      BY <1>2 DEF SecondStore, Inv, TypeOK
    <2>. QED
      BY <1>2, <2>1, WriteKeepsInv DEF SecondStore
  <1>3. CASE LoadCartridge
    BY <1>3, InsertKeepsInv
  <1>4. CASE UNCHANGED vars
    BY <1>4
       DEF vars, inserted, program, serial, windows, Inv, TypeOK, WindowsInRange,
           WindowLayout, ShiftHoldsSent, ShiftEmptied
  <1>. QED
    BY <1>1, <1>2, <1>3, <1>4 DEF Next

LEMMA AlwaysInv == Spec => []Inv
  BY InitInv, NextInv, PTL DEF Spec

(***************************************************************************)
(* The registers keep five bits and the counters their range, whatever is  *)
(* stored, in whatever rhythm, and however many cartridges follow.         *)
(***************************************************************************)
THEOREM Typed == Spec => []TypeOK
  <1>1. Inv => TypeOK
    BY DEF Inv
  <1>. QED
    BY <1>1, AlwaysInv, PTL

(***************************************************************************)
(* Whatever the program loads into the registers, apply_banking and init   *)
(* leave every window inside the memory of the cartridge that is inserted. *)
(***************************************************************************)
THEOREM WindowsStayInside == Spec => []WindowsInRange
  <1>1. Inv => WindowsInRange
    BY DEF Inv
  <1>. QED
    BY <1>1, AlwaysInv, PTL

(***************************************************************************)
(* The modes of the control register mean what they should on every        *)
(* cartridge with an even number of banks: neither the modulo of set_bank  *)
(* nor the outer bank of a large cartridge tears a pair of banks apart or  *)
(* moves the locked one.                                                   *)
(***************************************************************************)
THEOREM ModesArrangeWindows == Spec => []WindowLayout
  <1>1. Inv => WindowLayout
    BY DEF Inv
  <1>. QED
    BY <1>1, AlwaysInv, PTL

(***************************************************************************)
(* The shift register and its count always stand for the bits stored since *)
(* the last load or reset bit; init, which sets neither back, does not     *)
(* lose them.                                                              *)
(***************************************************************************)
THEOREM ShiftRegisterIsHistory == Spec => []ShiftHoldsSent
  <1>1. Inv => ShiftHoldsSent
    BY DEF Inv
  <1>. QED
    BY <1>1, AlwaysInv, PTL

(***************************************************************************)
(* register_write changes a register only by a reset bit or to the value   *)
(* of five bits stored one after the other, and no window without that.    *)
(***************************************************************************)
THEOREM OnlyWholeValues == Spec => LoadsWholeValues
  <1>1. ASSUME Inv, NEW now \in Nat, RegisterWrite(now)
        PROVE  /\ regs' # regs =>
                    \/ sent' = <<>> /\ regs' = [regs EXCEPT ![Ctrl] = LockPrg(@)]
                    \/ /\ Len(sent') = 5
                       /\ \E r \in Registers : regs' = [regs EXCEPT ![r] = Bits(sent')]
               /\ windows' # windows => Len(sent') \in {0, 5}
    <2>1. CASE UNCHANGED <<last_write_cycle, serial, regs, last_written_chr_reg, windows, sent>>
      BY <2>1
    <2>2. CASE ResetStored
      <3>1. sent' = <<>> /\ regs' = [regs EXCEPT ![Ctrl] = LockPrg(@)] /\ Len(sent') = 0
        BY <2>2 DEF ResetStored, ResetBit
      <3>. QED
        BY <3>1
    <2>3. ASSUME NEW bit \in {0, 1}, BitShifted(bit)
          PROVE  UNCHANGED <<regs, windows>>
      BY <2>3 DEF BitShifted, Shift
    <2>4. ASSUME NEW bit \in {0, 1}, NEW r \in Registers, ValueLoaded(bit, r)
          PROVE  Len(sent') = 5 /\ regs' = [regs EXCEPT ![r] = Bits(sent')]
      <3>1. write_count = 4 /\ regs' = [regs EXCEPT ![r] = Shifted(bit)] /\ Remember(bit)
        BY <2>4 DEF ValueLoaded, Load
      <3>2. Len(sent') = write_count + 1 /\ Shifted(bit) = Bits(sent')
        BY <1>1, <3>1, BitRemembered
      <3>3. write_count + 1 = 5
        BY <3>1
      <3>. QED
        BY <3>1, <3>2, <3>3, Zenon
    <2>. QED
      BY <1>1, <2>1, <2>2, <2>3, <2>4, StoreCases DEF Inv
  <1>2. ASSUME Inv, [Next]_vars
        PROVE  [carts' = carts =>
                  /\ regs' # regs =>
                       \/ sent' = <<>> /\ regs' = [regs EXCEPT ![Ctrl] = LockPrg(@)]
                       \/ /\ Len(sent') = 5
                          /\ \E r \in Registers : regs' = [regs EXCEPT ![r] = Bits(sent')]
                  /\ windows' # windows => Len(sent') \in {0, 5}]_vars
    <2>1. ASSUME NEW modifies \in BOOLEAN, Store(modifies)
          PROVE  \E now \in Nat : RegisterWrite(now)
      <3>1. PICK gap \in Gaps : cycles' = cycles + gap /\ RegisterWrite(cycles')
        BY <2>1 DEF Store
      <3>2. cycles' \in Nat
        BY <1>2, <3>1, CartAssumption DEF Inv, TypeOK
      <3>. QED
        BY <3>1, <3>2
    <2>2. CASE SecondStore
      <3>1. cycles' \in Nat /\ RegisterWrite(cycles')
        BY <1>2, <2>2 DEF SecondStore, Inv, TypeOK
      <3>. QED
        BY <1>1, <1>2, <3>1
    <2>3. CASE LoadCartridge
      <3>1. carts' = carts + 1 /\ carts \in Nat
        BY <1>2, <2>3, CartAssumption DEF LoadCartridge, Inv, TypeOK
      <3>2. carts' # carts
        BY <3>1
      <3>. QED
        BY <3>2
    <2>. QED
      BY <1>1, <1>2, <2>1, <2>2, <2>3 DEF Next
  <1>. QED
    BY <1>2, AlwaysInv, PTL DEF Spec, LoadsWholeValues

=============================================================================
