------------------------------ MODULE MCConsole ------------------------------
(***************************************************************************)
(* Model checking of the program around the machine.  Two kinds of player: *)
(* one who uses the controller in a single session, one who starts, plays, *)
(* closes and kills games several times.                                   *)
(***************************************************************************)
EXTENDS Console

Nrom == [title |-> "nrom", format |-> "ines1", prg |-> 1, chr |-> 1, prg_msb |-> 0, chr_msb |-> 0,
         mapper |-> 0, mapper_high |-> 0, mapper_top |-> 0, submapper |-> 0,
         mirroring |-> "vertical", battery |-> FALSE, trainer |-> FALSE,
         shift_prg_ram |-> 0, shift_nvram |-> 0]

Uxrom == [Nrom EXCEPT !.title = "uxrom", !.mapper = 2, !.prg = 0, !.chr = 0]
UxromConflicts == [Uxrom EXCEPT !.title = "conflicts", !.format = "nes2", !.submapper = 2, !.prg = 7]
Cnrom == [Nrom EXCEPT !.title = "cnrom", !.mapper = 3, !.prg = 2, !.chr = 3]
Battery1 == [Nrom EXCEPT !.title = "ines1", !.mapper = 1, !.battery = TRUE]
Battery2 == [Battery1 EXCEPT !.title = "nes2", !.format = "nes2", !.shift_nvram = 7]
BatteryBoth == [Battery2 EXCEPT !.title = "both", !.shift_prg_ram = 8]
BatteryMost == [Battery2 EXCEPT !.title = "most", !.shift_prg_ram = 5]
BatteryLess == [Battery2 EXCEPT !.title = "less", !.shift_prg_ram = 7, !.shift_nvram = 5]
BatteryNrom == [Battery2 EXCEPT !.title = "nrom battery", !.mapper = 0]
Large == [Uxrom EXCEPT !.title = "large", !.format = "nes2", !.prg_msb = 1]
Exponent == [Battery2 EXCEPT !.title = "exponent", !.prg = 61, !.prg_msb = 15]
SuromNoRam == [Battery2 EXCEPT !.title = "surom", !.prg = 32, !.shift_nvram = 0]
Unknown5 == [Nrom EXCEPT !.title = "mmc5", !.mapper = 5]
Trainer == [Battery1 EXCEPT !.title = "trainer", !.trainer = TRUE]

AllGames == {Nrom, Uxrom, UxromConflicts, Cnrom, Battery1, Battery2, BatteryBoth, BatteryMost,
             BatteryLess, BatteryNrom, Large, Exponent, SuromNoRam, Unknown5, Trainer}

MCScenarios ==
    {[games |-> {Nrom}, keys |-> {"a", "left", "right"}, sessions |-> 1]}
    \cup {[games |-> {g}, keys |-> {}, sessions |-> 2] : g \in AllGames}
    \cup {[games |-> {Battery2, g}, keys |-> {}, sessions |-> 4] :
              g \in {Battery1, BatteryBoth, BatteryMost, Nrom}}
=============================================================================
