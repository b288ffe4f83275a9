------------------------------- MODULE Console -------------------------------
(***************************************************************************)
(* The program around the emulated machine: main with its event loop, the  *)
(* iNES loader, load_cartridge with the small mappers, the battery RAM     *)
(* from one session to the next, and the controller.                       *)
(*                                                                         *)
(* A session is one run of the program.  It may be killed at any step; all *)
(* that survives is the .sav file of each title.  Assertions are compiled  *)
(* in, as no build file defines NDEBUG: a failing one ends the session.    *)
(* Of a RAM or a file only its size and one value for all of its bytes are *)
(* kept.  The banks and registers of the MMC1 are in Mmc1, the reset that  *)
(* the R key asks for is in Stepper.                                       *)
(***************************************************************************)
EXTENDS Integers, Sequences, FiniteSets

CONSTANTS
    Scenarios,       (* [games: headers of the files that may be started,     *)
                     (*  keys: keys the player uses, sessions: how many]      *)
    Stores,          (* bytes stored to mapper registers or found under them  *)
    RamValues,       (* what a game writes to its RAM                         *)
    MaxQueue,        (* events waiting at once                                *)
    MaxReads         (* reads of $4016 in a row                               *)

ASSUME ConsoleAssumption ==
    /\ Stores \subseteq 0..255 /\ 0 \notin RamValues
    /\ MaxQueue \in Nat \ {0} /\ MaxReads \in Nat \ {0}

VARIABLES
    scenario, sessions,
    phase,                              (* off, events, frame, closing, saving *)
    last,                               (* how the last session ended          *)
    cart_data, window, nametables,
    crt_ram,
    sav,                                (* the .sav files: title -> contents   *)
    isOpen, keys, queue,                (* of the window; keys held            *)
    contested,                          (* history: held keys that were last   *)
                                        (* pressed while their opposite was    *)
    state, m_strobe_on, m_button_to_output,
    polled,                             (* history: last answer of the $4016   *)
    saved, untouched                    (* history: what the player counts on  *)

files == <<sav, saved>>
cartridge == <<cart_data, window, nametables>>
player == <<isOpen, keys, queue, contested>>
controller == <<state, m_strobe_on, m_button_to_output, polled>>
vars == <<scenario, sessions, phase, last, cartridge, crt_ram, files, player,
          controller, untouched>>

Running == phase \in {"events", "frame"}

-----------------------------------------------------------------------------
(***************************************************************************)
(* load_nes_file.  The sizes of NES 2.0 are completed after they have been *)
(* scaled to bytes, where their low bits are zero.                         *)
(***************************************************************************)
RomSize(h, units, unit, msb) ==
    LET size == (units * unit) + (256 * msb)
    IN IF h.format # "nes2" THEN units * unit
       ELSE IF msb # 15 THEN size
       ELSE 2^((size % 256) \div 4) * ((2 * (size % 4)) + 1)

RamSize(shift) == IF shift = 0 THEN 0 ELSE 64 * 2^shift

load_nes_file(h) ==
    [title |-> h.title,
     mapper |-> h.mapper + (CASE h.format = "ines1" -> 16 * h.mapper_high
                              [] h.format = "nes2" -> 256 * h.mapper_top [] OTHER -> 0),
     submapper |-> IF h.format = "nes2" THEN h.submapper ELSE 0,
     mirroring |-> h.mirroring,
     battery_saved_ram |-> h.battery,
     prg_rom_size |-> RomSize(h, IF h.prg = 0 THEN 256 ELSE h.prg, 16384, h.prg_msb),
     chr_rom_size |-> RomSize(h, h.chr, 8192, h.chr_msb),
     prg_ram_size |-> IF h.format = "nes2" THEN RamSize(h.shift_prg_ram) ELSE 8192,
     nvram_size |-> IF h.format = "nes2" THEN RamSize(h.shift_nvram) ELSE 0]

-----------------------------------------------------------------------------
(***************************************************************************)
(* The mappers: NROM 0, MMC1 1, UxROM 2, CNROM 3.                          *)
(***************************************************************************)
(* A slip to be caught: the bank is not reduced to those there are. *)
set_bank_unreduced(bank, count) == bank

set_bank(bank, count) == bank % count

(* Only the MMC1 has RAM to save, as much as the larger of the two sizes says. *)
CrtRamSize(cart) ==
    IF cart.mapper # 1 THEN 0
    ELSE IF cart.prg_ram_size > cart.nvram_size THEN cart.prg_ram_size ELSE cart.nvram_size

(* What set_rom_base asserts: whole banks only. *)
WholeBanks(cart) ==
    CASE cart.mapper = 1 -> /\ cart.prg_rom_size % 16384 = 0 /\ cart.chr_rom_size % 4096 = 0
                            /\ CrtRamSize(cart) % 8192 = 0
      [] cart.mapper = 2 -> cart.prg_rom_size % 16384 = 0
      [] cart.mapper = 3 -> cart.chr_rom_size % 8192 = 0
      [] OTHER -> TRUE

(***************************************************************************)
(* An MMC1 of 512 KB switches its RAM too, and reduces the bank by the     *)
(* number of banks there are, none included.  Where a division by zero     *)
(* does not trap the bank is of no consequence, as no port leads to it.    *)
(***************************************************************************)
DividesByZero(cart) ==
    cart.mapper = 1 /\ cart.prg_rom_size = 32 * 16384 /\ CrtRamSize(cart) = 0

PrgBanks(cart) == cart.prg_rom_size \div 16384
ChrBanks(cart) == cart.chr_rom_size \div 8192

(***************************************************************************)
(* The 16 KB of program at $8000 and at $C000: two windows of UxROM, else  *)
(* an array of 32 KB into which 16 KB are copied twice.                    *)
(***************************************************************************)
NromInit(cart) == [lo |-> 0, hi |-> set_bank(1, PrgBanks(cart)), chr |-> 0, conflicts |-> FALSE]

UxromInit(cart) ==
    [lo |-> 0, hi |-> set_bank(PrgBanks(cart) - 1, PrgBanks(cart)), chr |-> 0,
     conflicts |-> cart.submapper = 2]

CnromInit(cart) == [NromInit(cart) EXCEPT !.conflicts = cart.submapper # 1]

NoWindow == [lo |-> 0, hi |-> 0, chr |-> 0, conflicts |-> FALSE]

MapperInit(cart) ==
    /\ window' = CASE cart.mapper = 0 -> NromInit(cart) [] cart.mapper = 2 -> UxromInit(cart)
                   [] cart.mapper = 3 -> CnromInit(cart) [] OTHER -> NoWindow
    /\ nametables' = IF cart.mapper = 1 THEN "onescreen" ELSE cart.mirroring

(* With a bus conflict only the bits count that ROM has there too. *)
Seen(val, under) ==
    LET both(i) == IF (val \div 2^i) % 2 = 1 /\ (under \div 2^i) % 2 = 1 THEN 2^i ELSE 0
    IN IF window.conflicts THEN both(0) + both(1) + both(2) + both(3) ELSE val

UxromWrite(val) ==
    /\ cart_data.mapper = 2
    /\ window' = [window EXCEPT !.lo = set_bank(val % 16, PrgBanks(cart_data))]

CnromWrite(val) ==
    /\ cart_data.mapper = 3
    /\ window' = [window EXCEPT !.chr = set_bank(val % 4, ChrBanks(cart_data))]

register_write ==
    /\ phase = "frame"
    /\ \E val, under \in Stores : UxromWrite(Seen(val, under)) \/ CnromWrite(Seen(val, under))
    /\ UNCHANGED <<scenario, sessions, phase, last, cart_data, nametables, crt_ram, files,
                   player, controller, untouched>>

-----------------------------------------------------------------------------
(***************************************************************************)
(* The battery.  A file shorter than the RAM is refused, and nobody asks;  *)
(* one of another size than the RAM fails an assertion.                    *)
(***************************************************************************)
Unknown == -1
Absent == [size |-> -1, value |-> 0]

(* A slip to be caught: a file of just the right size counts as too short. *)
ReadableIfLonger(cart) == cart.battery_saved_ram /\ sav[cart.title].size > cart.nvram_size

Readable(cart) == cart.battery_saved_ram /\ sav[cart.title].size >= cart.nvram_size

Mismatch(cart) ==
    cart.mapper = 1 /\ Readable(cart) /\ cart.nvram_size # CrtRamSize(cart)

load_battery(cart) ==
    IF Readable(cart) /\ cart.mapper = 1 THEN sav[cart.title].value ELSE 0

WriteAll ==
    sav' = [sav EXCEPT ![cart_data.title] =
               [size |-> cart_data.nvram_size, value |-> crt_ram]]

(* Opening the file for writing empties it. *)
OpenSave ==
    /\ phase = "closing" /\ cart_data.battery_saved_ram
    /\ phase' = "saving"
    /\ sav' = [sav EXCEPT ![cart_data.title] = [size |-> 0, value |-> 0]]
    /\ saved' = [saved EXCEPT ![cart_data.title] = Unknown]
    /\ UNCHANGED <<scenario, sessions, last, cartridge, crt_ram, player, controller, untouched>>

Ends(how) ==
    /\ phase' = "off" /\ last' = how
    /\ UNCHANGED <<scenario, sessions, cartridge, crt_ram, player, controller, untouched>>

(* As many bytes are written as the header says, of those the mapper has. *)
Covered(cart) == cart.nvram_size <= CrtRamSize(cart)

(***************************************************************************)
(* The write may fail, and nobody asks either.  A mapper without RAM gives *)
(* an empty vector: bytes read at its null pointer fail the write or end   *)
(* the program.                                                            *)
(***************************************************************************)
WriteSave ==
    /\ phase = "saving"
    /\ \/ /\ Covered(cart_data) /\ WriteAll
          /\ saved' = [saved EXCEPT ![cart_data.title] = crt_ram]
          /\ Ends("closed")
       \/ UNCHANGED files /\ Ends("closed")
       \/ ~Covered(cart_data) /\ UNCHANGED files /\ Ends("killed")

NothingToSave ==
    /\ phase = "closing" /\ ~cart_data.battery_saved_ram
    /\ Ends("closed") /\ UNCHANGED files

Killed == phase # "off" /\ Ends("killed") /\ UNCHANGED files

-----------------------------------------------------------------------------
(***************************************************************************)
(* main up to its loop.  A file the loader refuses or a mapper that does   *)
(* not exist end the program, a failing assertion aborts it.               *)
(***************************************************************************)
StartsAs(h, cart) ==
    /\ phase = "off"
    /\ h \in scenario.games /\ cart = load_nes_file(h)
    /\ sessions < scenario.sessions
    /\ sessions' = sessions + 1
    /\ UNCHANGED <<scenario, files>>

Dies(how) ==
    /\ phase' = "off" /\ last' = how
    /\ UNCHANGED <<window, nametables, crt_ram, player, controller, untouched>>

Refuse(h, cart) ==
    /\ StartsAs(h, cart)
    /\ h.trainer \/ cart.mapper > 3
    /\ Dies("refused") /\ UNCHANGED cart_data

Abort(h, cart) ==
    /\ StartsAs(h, cart)
    /\ ~h.trainer /\ cart.mapper \in 0..3
    /\ cart_data' = cart
    /\ \/ ~WholeBanks(cart) /\ Dies("rom")
       \/ DividesByZero(cart) /\ Dies("zero")
       \/ WholeBanks(cart) /\ Mismatch(cart) /\ Dies("ram")

Start(h, cart) ==
    /\ StartsAs(h, cart)
    /\ ~h.trainer /\ cart.mapper \in 0..3 /\ WholeBanks(cart) /\ ~Mismatch(cart)
    /\ cart_data' = cart
    /\ MapperInit(cart)
    /\ crt_ram' = load_battery(cart) /\ untouched' = TRUE
    /\ phase' = "events" /\ last' = "running"
    /\ isOpen' = TRUE /\ keys' = {} /\ queue' = <<>> /\ contested' = {}
    /\ state' = {} /\ m_strobe_on' = TRUE /\ m_button_to_output' = 0
    /\ polled' = [nth |-> 0, bit |-> 0, state |-> {}]

(* The game writes to its RAM. *)
GameWrites(val) ==
    /\ phase = "frame" /\ CrtRamSize(cart_data) > 0
    /\ crt_ram' = val /\ untouched' = FALSE
    /\ UNCHANGED <<scenario, sessions, phase, last, cartridge, files, player, controller>>

-----------------------------------------------------------------------------
(***************************************************************************)
(* The window reports keys in order, and a key that is held again and      *)
(* again; the main loop empties the queue between two frames, and runs one *)
(* more after the window was closed.                                       *)
(***************************************************************************)
Buttons == <<"a", "b", "select", "start", "up", "down", "left", "right">>

(***************************************************************************)
(* The keys are those that main knows a button for; a .sav file belongs to *)
(* one game; the sizes of the two RAMs are the halves of a byte.           *)
(***************************************************************************)
ASSUME ScenarioAssumption ==
    \A s \in Scenarios :
        /\ s.keys \subseteq {Buttons[i] : i \in 1..8}
        /\ \A g, h \in s.games : g.title = h.title => g = h
        /\ \A h \in s.games : h.shift_prg_ram \in 0..15 /\ h.shift_nvram \in 0..15

Opposite(key) ==
    CASE key = "left" -> {"right"} [] key = "right" -> {"left"}
      [] key = "up" -> {"down"} [] key = "down" -> {"up"} [] OTHER -> {}

Happens(event) ==
    /\ Running /\ isOpen /\ Len(queue) < MaxQueue
    /\ queue' = Append(queue, event)
    /\ UNCHANGED <<scenario, sessions, phase, last, cartridge, crt_ram, files, isOpen,
                   controller, untouched>>

KeyPressed(key) ==
    /\ key \in scenario.keys
    /\ Happens([type |-> "pressed", key |-> key]) /\ keys' = keys \cup {key}
    /\ contested' = IF Opposite(key) \cap keys = {} THEN contested \ {key}
                    ELSE contested \cup ({key} \ keys)

KeyReleased(key) ==
    /\ key \in keys
    /\ Happens([type |-> "released", key |-> key])
    /\ keys' = keys \ {key} /\ contested' = contested \ {key}

Closed == Happens([type |-> "closed", key |-> ""]) /\ UNCHANGED <<keys, contested>>

(* A slip to be caught: a release is taken for a press. *)
ReleaseFallsThrough(event) == event.type # "closed"

IsPress(event) == event.type = "pressed"

AfterKey(told, event) ==
    IF ~IsPress(event) THEN told \ {event.key}
    ELSE IF Opposite(event.key) \cap told # {} THEN told
    ELSE told \cup {event.key}

PollEvent ==
    /\ phase = "events" /\ isOpen /\ queue # <<>>
    /\ queue' = Tail(queue)
    /\ IF Head(queue).type = "closed"
       THEN isOpen' = FALSE /\ UNCHANGED state
       ELSE state' = AfterKey(state, Head(queue)) /\ UNCHANGED isOpen
    /\ UNCHANGED <<scenario, sessions, phase, last, cartridge, crt_ram, files, keys, contested,
                   m_strobe_on, m_button_to_output, polled, untouched>>

RunFrame ==
    /\ \/ phase = "events" /\ (queue = <<>> \/ ~isOpen) /\ phase' = "frame"
       \/ phase = "frame" /\ phase' = IF isOpen THEN "events" ELSE "closing"
    /\ UNCHANGED <<scenario, sessions, last, cartridge, crt_ram, files, player, controller,
                   untouched>>

-----------------------------------------------------------------------------
(***************************************************************************)
(* $4016: writing sets the strobe, reading asks for one button.            *)
(***************************************************************************)
Emulated ==
    /\ phase = "frame"
    /\ UNCHANGED <<scenario, sessions, phase, last, cartridge, crt_ram, files, player,
                   untouched, state>>

(* A slip to be caught: a strobe does not go back to the first button. *)
PositionKept(strobe) == m_button_to_output

PositionAfter(strobe) == IF strobe THEN 0 ELSE m_button_to_output

set_output(byte) ==
    /\ Emulated
    /\ m_strobe_on' = (byte % 2 = 1)
    /\ m_button_to_output' = PositionAfter(m_strobe_on')
    /\ polled' = IF byte % 2 = 1 THEN [nth |-> 0, bit |-> 0, state |-> {}] ELSE polled

BitOf(button) == IF button \in state THEN 1 ELSE 0

read_data ==
    /\ Emulated /\ polled.nth < MaxReads
    /\ IF m_strobe_on THEN UNCHANGED <<m_button_to_output, polled>>
       ELSE /\ polled' = [nth |-> polled.nth + 1, state |-> state,
                          bit |-> IF m_button_to_output > 7 THEN 1
                                  ELSE BitOf(Buttons[m_button_to_output + 1])]
            /\ m_button_to_output' = IF m_button_to_output > 7 THEN m_button_to_output
                                     ELSE m_button_to_output + 1
    /\ UNCHANGED m_strobe_on

-----------------------------------------------------------------------------
Init ==
    /\ scenario \in Scenarios /\ sessions = 0
    /\ phase = "off" /\ last = "none"
    /\ cart_data = [mapper |-> -1] /\ window = NoWindow /\ nametables = "none"
    /\ crt_ram = 0
    /\ sav = [t \in {h.title : h \in scenario.games} |-> Absent]
    /\ saved = [t \in {h.title : h \in scenario.games} |-> Unknown] /\ untouched = TRUE
    /\ isOpen = FALSE /\ keys = {} /\ queue = <<>> /\ contested = {}
    /\ state = {} /\ m_strobe_on = TRUE /\ m_button_to_output = 0
    /\ polled = [nth |-> 0, bit |-> 0, state |-> {}]

Main ==
    \/ \E h \in scenario.games : \E cart \in {load_nes_file(h)} :
          Refuse(h, cart) \/ Abort(h, cart) \/ Start(h, cart)
    \/ PollEvent \/ RunFrame \/ OpenSave \/ WriteSave \/ NothingToSave

Game ==
    \/ register_write \/ read_data
    \/ \E byte \in {0, 1, 2} : set_output(byte)
    \/ \E val \in RamValues : GameWrites(val)

Player ==
    \/ \E key \in scenario.keys : KeyPressed(key) \/ KeyReleased(key)
    \/ Closed \/ Killed

Next == Main \/ Game \/ Player

Spec == Init /\ [][Next]_vars

-----------------------------------------------------------------------------
(* The banks are banks of the cartridge, and the vectors come from its last. *)
WindowsInside ==
    Running /\ cart_data.mapper # 1 =>
        /\ window.lo \in 0..(PrgBanks(cart_data) - 1)
        /\ window.hi = PrgBanks(cart_data) - 1
        /\ cart_data.mapper = 3 => window.chr \in 0..(ChrBanks(cart_data) - 1)

(***************************************************************************)
(* The variables hold values of their C++ types, the shift position of the *)
(* controller one that its array of buttons has, or one past it; and the   *)
(* windows show banks that the cartridge has, whatever the game stored.    *)
(***************************************************************************)
TypeOK ==
    /\ phase \in {"off", "events", "frame", "closing", "saving"}
    /\ last \in {"none", "running", "closed", "killed", "refused", "rom", "zero", "ram"}
    /\ crt_ram \in RamValues \cup {0}
    /\ state \subseteq {Buttons[i] : i \in 1..8} /\ m_button_to_output \in 0..8
    /\ WindowsInside

(* The save holds all the RAM that the cartridge has. *)
SavesAll(cart) == cart.nvram_size >= cart.prg_ram_size

(***************************************************************************)
(* The game whose last save ran to its end starts again with the RAM it    *)
(* had then, whatever other games were played, killed or refused since;    *)
(* and a game that saves all the RAM it has is never aborted over its      *)
(* file, whatever became of that.  (One that has more than it saves, as    *)
(* every MMC1 with an iNES 1.0 header, ends at load_battery_ram's          *)
(* assertion once there is a file.)                                        *)
(***************************************************************************)
SaveComesBack ==
    /\ Running /\ untouched /\ cart_data.battery_saved_ram /\ CrtRamSize(cart_data) > 0
       /\ saved[cart_data.title] # Unknown
          => crt_ram = saved[cart_data.title]
    /\ last = "ram" => ~SavesAll(cart_data)

(***************************************************************************)
(* What the game is told against what the player holds: never two          *)
(* opposite directions; no button of a key that is up, unless its release  *)
(* is still waiting; and once nothing is waiting, every key that was last  *)
(* pressed while its opposite was up, and of two opposites that are both   *)
(* held, one.  (A direction pressed against its opposite may be dropped,   *)
(* and stays dropped when the opposite is released first.)                 *)
(***************************************************************************)
ButtonsFollowKeys ==
    Running =>
        /\ \A b \in state : Opposite(b) \cap state = {}
        /\ \A b \in state \ keys :
              \E i \in 1..Len(queue) : queue[i] = [type |-> "released", key |-> b]
        /\ queue = <<>> =>
              \A b \in keys :
                 /\ b \notin contested => b \in state
                 /\ Opposite(b) \cap keys # {} => ({b} \cup Opposite(b)) \cap state # {}

(***************************************************************************)
(* The nth read of $4016 after the strobe went off answers for the nth     *)
(* button, as it is at the time of the read and however the reads are      *)
(* spread over frames; the ninth and later ones answer 1.                  *)
(***************************************************************************)
PollsReadButtons ==
    polled.nth > 0 =>
        polled.bit = IF polled.nth > 8 \/ Buttons[polled.nth] \in polled.state THEN 1 ELSE 0
=============================================================================
