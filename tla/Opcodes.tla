------------------------------- MODULE Opcodes -------------------------------
(***************************************************************************)
(* The instruction table of the CPU, cpu/src/opcode_table.cpp.  A row of   *)
(* opcode_defs names a handler and, for every addressing mode, the opcode  *)
(* that selects it; gen() walks the rows in order, so that an opcode named *)
(* twice belongs to the later row.  That is how one table serves three     *)
(* processors: the rows of the 65C02 come first, those of the undocumented *)
(* NMOS instructions last, and what the two share is NMOS.                 *)
(*                                                                         *)
(* Handlers have the names of the C++ functions.  The addressing modes are *)
(* impl, imm, zp, zpx, zpy, abs, abx, aby, izx, izy, izp, ind; abxW, abyW, *)
(* izyW are the variants for handlers that write; bus is the one for SAY   *)
(* and XAS, bitrel that of BBR and BBS.                                    *)
(***************************************************************************)
EXTENDS Integers

(***************************************************************************)
(* A row: a function from addressing modes to opcodes, as a set of         *)
(* <<opcode, handler, mode>>.                                              *)
(***************************************************************************)
Row(handler, columns) == {<<columns[m], handler, m>> : m \in DOMAIN columns}

(* Rows of instructions without an operand, and of branches. *)
ImpliedRows ==
    LET code ==
        [nop |-> \hEA, asla |-> \h0A, lsra |-> \h4A, rola |-> \h2A, rora |-> \h6A,
         clc |-> \h18, cld |-> \hD8, cli |-> \h58, clv |-> \hB8,
         sec |-> \h38, sed |-> \hF8, sei |-> \h78,
         dex |-> \hCA, dey |-> \h88, inx |-> \hE8, iny |-> \hC8,
         pha |-> \h48, php |-> \h08, pla |-> \h68, plp |-> \h28,
         rti |-> \h40, rts |-> \h60, tax |-> \hAA, tay |-> \hA8,
         tsx |-> \hBA, txa |-> \h8A, txs |-> \h9A, tya |-> \h98]
    IN {<<code[h], h, "impl">> : h \in DOMAIN code}

BranchRows ==
    LET code == [bpl |-> \h10, bmi |-> \h30, bvc |-> \h50, bvs |-> \h70,
                   bcc |-> \h90, bcs |-> \hB0, bne |-> \hD0, beq |-> \hF0]
    IN {<<code[h], h, "imm">> : h \in DOMAIN code}

(***************************************************************************)
(* The instructions with the accumulator, and those that read, modify and  *)
(* write memory, have their opcodes at the same distance from a base.  STA *)
(* has no immediate form.                                                  *)
(***************************************************************************)
AccumulatorRow(handler, base) ==
    Row(handler, [zp |-> base + \h05, zpx |-> base + \h15, abs |-> base + \h0D,
                  abx |-> base + \h1D, aby |-> base + \h19,
                  izx |-> base + \h01, izy |-> base + \h11, izp |-> base + \h12])
    \cup (IF handler = "sta" THEN {} ELSE Row(handler, [imm |-> base + \h09]))

ModifyRow(handler, base) ==
    Row(handler, [zp |-> base + \h06, zpx |-> base + \h16,
                  abs |-> base + \h0E, abx |-> base + \h1E])

UndocumentedModifyRow(handler, base) ==
    Row(handler, [zp |-> base + \h07, zpx |-> base + \h17, abs |-> base + \h0F,
                  abx |-> base + \h1F, aby |-> base + \h1B,
                  izx |-> base + \h03, izy |-> base + \h13])

(***************************************************************************)
(* The rows of the first part of the table: the documented instructions of *)
(* the 6502.  Of the rows for the 65C02 only what no later row replaces is *)
(* left: the indirect mode without an index of AccumulatorRow, and BBS1.   *)
(***************************************************************************)
DocumentedRows ==
    ImpliedRows \cup BranchRows
    \cup AccumulatorRow("ora", \h00) \cup AccumulatorRow("and_", \h20)
    \cup AccumulatorRow("eor", \h40) \cup AccumulatorRow("adc", \h60)
    \cup AccumulatorRow("sta", \h80) \cup AccumulatorRow("lda", \hA0)
    \cup AccumulatorRow("cmp", \hC0) \cup AccumulatorRow("sbc", \hE0)
    \cup ModifyRow("asl", \h00) \cup ModifyRow("rol", \h20) \cup ModifyRow("lsr", \h40)
    \cup ModifyRow("ror", \h60) \cup ModifyRow("dec", \hC0) \cup ModifyRow("inc", \hE0)
    \cup Row("bit", [imm |-> \h89, zp |-> \h24, zpx |-> \h34, abs |-> \h2C, abx |-> \h3C])
    \cup Row("cpx", [imm |-> \hE0, zp |-> \hE4, abs |-> \hEC])
    \cup Row("cpy", [imm |-> \hC0, zp |-> \hC4, abs |-> \hCC])
    \cup Row("jmp", [abs |-> \h4C])
    \cup Row("ind_jmp", [ind |-> \h6C])
    \cup Row("jsr", [abs |-> \h20])
    \cup Row("ldx", [imm |-> \hA2, zp |-> \hA6, zpy |-> \hB6, abs |-> \hAE, aby |-> \hBE])
    \cup Row("ldy", [imm |-> \hA0, zp |-> \hA4, zpx |-> \hB4, abs |-> \hAC, abx |-> \hBC])
    \cup Row("stx", [zp |-> \h86, zpy |-> \h96, abs |-> \h8E])
    \cup Row("sty", [zp |-> \h84, zpx |-> \h94, abs |-> \h8C])
    \cup Row("bbs", [bitrel |-> \h9F])

(* The last part: nops, and the undocumented instructions. *)
UndocumentedRows ==
    {<<op, "nop", "impl">> : op \in {\h1A, \h3A, \h5A, \h7A, \hDA, \hFA}}
    \cup {<<op, "nop2", "imm">> : op \in {\h80, \h82, \h89, \hC2, \hE2}}
    \cup {<<op, "nop2", "abx">> : op \in {\h1C, \h3C, \h5C, \h7C, \hDC, \hFC}}
    \cup {<<op, "nop2", "zp">> : op \in {\h04, \h44, \h64}}
    \cup {<<op, "nop2", "zpx">> : op \in {\h14, \h34, \h54, \h74, \hD4, \hF4}}
    \cup Row("nop2", [abs |-> \h0C])
    \cup {<<op, "sbc", "imm">> : op \in {\hE9, \hEB}}
    \cup {<<op, "anc", "imm">> : op \in {\h0B, \h2B}}
    \cup Row("alr", [imm |-> \h4B]) \cup Row("arr", [imm |-> \h6B])
    \cup Row("axs", [imm |-> \hCB]) \cup Row("atx", [imm |-> \hAB])
    \cup Row("lax", [zp |-> \hA7, zpy |-> \hB7, abs |-> \hAF, aby |-> \hBF,
                     izx |-> \hA3, izy |-> \hB3])
    \cup Row("sax", [zp |-> \h87, zpy |-> \h97, abs |-> \h8F, izx |-> \h83])
    \cup UndocumentedModifyRow("slo", \h00) \cup UndocumentedModifyRow("rla", \h20)
    \cup UndocumentedModifyRow("sre", \h40) \cup UndocumentedModifyRow("rra", \h60)
    \cup UndocumentedModifyRow("dcp", \hC0) \cup UndocumentedModifyRow("isc", \hE0)
    \cup Row("say", [abx |-> \h9C]) \cup Row("xas", [aby |-> \h9E])

(* Within a part no opcode has two different rows, so only the part counts. *)
ASSUME RowsDistinct ==
    \A part \in {DocumentedRows, UndocumentedRows} :
        \A r, s \in part : r[1] = s[1] => r = s

-----------------------------------------------------------------------------
Stores == {"sta", "stx", "sty", "sax"}
Modifies == {"asl", "lsr", "rol", "ror", "inc", "dec",
             "slo", "sre", "rla", "rra", "dcp", "isc"}

(* A slip to be caught: handlers that store take the modes of those that load. *)
ReadingVariant(handler, mode) ==
    IF handler \in {"say", "xas"} THEN "bus" ELSE mode

(***************************************************************************)
(* generate_opcode_callbacks: a row that is not marked no_mem_write takes  *)
(* the writing variant of an indexed mode; SAY and XAS, marked as bus      *)
(* conflicts, resolve the index themselves.                                *)
(***************************************************************************)
Variant(handler, mode) ==
    IF handler \in {"say", "xas"} THEN "bus"
    ELSE IF handler \in Stores \cup Modifies
    THEN CASE mode = "abx" -> "abxW" [] mode = "aby" -> "abyW"
           [] mode = "izy" -> "izyW" [] OTHER -> mode
    ELSE mode

Invalid == [handler |-> "invalid_opcode", mode |-> "none"]
BrkCallback == [handler |-> "brk", mode |-> "impl"]

(***************************************************************************)
(* gen(): the callback of every opcode.  0x00 marks an empty column, so    *)
(* that BRK is set last, by hand.                                          *)
(***************************************************************************)
Callback(row) == [handler |-> row[2], mode |-> Variant(row[2], row[3])]

Table(rows) ==
    [op \in {r[1] : r \in rows} |-> Callback(CHOOSE r \in rows : r[1] = op)]

opcodes ==
    LET documented == Table(DocumentedRows)
        undocumented == Table(UndocumentedRows)
    IN [op \in 0..255 |->
           IF op = 0 THEN BrkCallback
           ELSE IF op \in DOMAIN undocumented THEN undocumented[op]
           ELSE IF op \in DOMAIN documented THEN documented[op]
           ELSE Invalid]
=============================================================================
