----------------------------- MODULE VBlankNmi ------------------------------
(***************************************************************************)
(* The vertical blanking interrupt, where the two processors of the        *)
(* console meet.  The PPU raises a flag at the start of scanline 241 and   *)
(* lowers it on the pre-render line; while the flag and the enable bit of  *)
(* $2000 are both set the NMI line is pulled low, and its falling edge     *)
(* makes an NMI pending in the CPU, which looks at it between two          *)
(* instructions.  The program reads the flag ($2002), which clears it, and *)
(* writes the enable bit ($2000), at any dot.                              *)
(*                                                                         *)
(* The scheduler gives one CPU slot and then three dots (module Stepper    *)
(* implements that order).  A CPU slot is one cycle of cpu6502::run: what  *)
(* the coroutine does between two yields.  A dot is one cycle of           *)
(* PPU::render_frame.  Which instructions the program consists of is left  *)
(* open.  The pauses of OAM DMA only separate CPU slots further and are    *)
(* left out.                                                               *)
(***************************************************************************)
EXTENDS Naturals

CONSTANTS
    RenderLines,   (* visible scanlines                              (240) *)
    IdleLines,     (* scanlines after them, before pre-render         (21) *)
    Dots,          (* dots of a scanline                             (341) *)
    MaxLength,     (* cycles of the longest instruction                (8) *)
    MaxDelays,     (* bound: CLI, SEI or PLP executed in a row             *)
    AnyCycle,      (* TRUE: a reset may come between any two CPU cycles    *)
    MaxResets      (* bound: calls of soft_reset                           *)

ASSUME GeometryAssumption ==
    /\ RenderLines \in Nat \ {0}
    /\ IdleLines \in Nat /\ IdleLines >= 2
    /\ Dots \in Nat /\ Dots >= 6

ASSUME BoundAssumption ==
    /\ MaxLength \in Nat /\ MaxLength >= 4
    /\ MaxDelays \in Nat
    /\ AnyCycle \in BOOLEAN
    /\ MaxResets \in Nat

VBlankLine == RenderLines + 1
PreRenderLine == RenderLines + IdleLines
Lines == PreRenderLine + 1
IsrCycles == 5
DotsPerCycle == 3

VARIABLES
    turn,            (* 0: the CPU's slot, then one of three dots            *)
    \* cpu6502
    activity,        (* what the CPU coroutine is in: see Activities         *)
    done,            (* cycles of it executed                                *)
    delays,          (* CLI, SEI or PLP executed in a row                    *)
    m_int_delay, m_nmi_pending, m_nmi_line_state,
    \* PPU
    type, dot,       (* the scanline<Type> being run, its current cycle      *)
    m_current_line, m_clocks, m_odd_frame, m_skip_cycle, m_suppress_vbl,
    vblank,          (* m_status & VerticalBlank                             *)
    nmi_enabled,     (* m_ctrl & VBlankNMI                                   *)
    rendering,       (* rendering_enabled()                                  *)
    resets,
    \* history: no code depends on these
    owed,            (* a rise of the interrupt condition not answered yet   *)
    raced,           (* $2002 was read as the flag was about to be set       *)
    taken,           (* an NMI of this frame has been taken                  *)
    elapsed          (* dots since the pre-render line began                 *)

program == <<activity, done, delays>>
interrupt == <<m_int_delay, m_nmi_pending, m_nmi_line_state>>
position == <<type, dot, m_current_line, m_clocks, m_odd_frame, m_skip_cycle>>
registers == <<vblank, nmi_enabled, rendering, m_suppress_vbl>>
history == <<owed, raced, taken, elapsed>>
vars == <<turn, program, interrupt, position, registers, resets, history>>

(***************************************************************************)
(* "boot": the coroutine has not run yet.  "delay": CLI, SEI or PLP, which *)
(* postpone the next poll.  "op": any other instruction.  "isr": the two   *)
(* vector reads and three pushes of switch_to_isr.                         *)
(***************************************************************************)
Activities == {"boot", "op", "delay", "isr"}
NotStarted == Dots

Init ==
    /\ turn = 0
    /\ activity = "boot" /\ done = 0 /\ delays = 0
    /\ m_int_delay = FALSE /\ m_nmi_pending = FALSE /\ m_nmi_line_state = 1
    /\ type = "PreRender" /\ dot = NotStarted
    /\ m_current_line = 0 /\ m_clocks = 0
    /\ m_odd_frame = FALSE /\ m_skip_cycle = FALSE
    /\ vblank = FALSE /\ nmi_enabled = FALSE /\ rendering = FALSE
    /\ m_suppress_vbl = FALSE
    /\ resets = 0
    /\ owed = "no" /\ raced = FALSE /\ taken = FALSE /\ elapsed = 0

-----------------------------------------------------------------------------
(* A slip to be caught: every update while the level is low raises an NMI. *)
LevelTriggered(flag, enable, pending) ==
    LET level == flag /\ enable IN
    /\ m_int_delay' = (m_int_delay \/ level)
    /\ m_nmi_pending' = (pending \/ level)
    /\ m_nmi_line_state' = IF level THEN 0 ELSE 1

(***************************************************************************)
(* PPU::update_nmi_logic, for a given flag and enable bit, with            *)
(* pull_nmi_low and pull_nmi_high: the level decides the line, only a      *)
(* falling edge makes an NMI pending, and a low level always postpones the *)
(* poll by one instruction.  pending is the value the caller left.         *)
(***************************************************************************)
UpdateNmiLogic(flag, enable, pending) ==
    LET level == flag /\ enable IN
    /\ m_int_delay' = (m_int_delay \/ level)
    /\ m_nmi_pending' = (pending \/ (level /\ m_nmi_line_state # 0))
    /\ m_nmi_line_state' = IF level THEN 0 ELSE 1

(* A slip to be caught: the race window is one dot too short. *)
StatusReadShortRace ==
    LET at241 == m_current_line = VBlankLine IN
    /\ m_suppress_vbl' = (m_suppress_vbl \/ (at241 /\ m_clocks = 0))
    /\ vblank' = FALSE
    /\ UpdateNmiLogic(FALSE, nmi_enabled,
                      m_nmi_pending /\ ~(at241 /\ m_clocks = 1))
    /\ UNCHANGED <<nmi_enabled, rendering>>

(***************************************************************************)
(* PPUCtrlRegs::status_read.                                               *)
(***************************************************************************)
StatusRead ==
    LET at241 == m_current_line = VBlankLine IN
    /\ m_suppress_vbl' = (m_suppress_vbl \/ (at241 /\ m_clocks = 0))
    /\ vblank' = FALSE
    /\ UpdateNmiLogic(FALSE, nmi_enabled,
                      m_nmi_pending /\ ~(at241 /\ m_clocks \in {1, 2}))
    /\ UNCHANGED <<nmi_enabled, rendering>>

(* A slip to be caught: the NMI logic left alone for one dot more. *)
CtrlWriteLate(enable) ==
    /\ nmi_enabled' = enable
    /\ IF m_clocks > 2
       THEN UpdateNmiLogic(vblank, enable, m_nmi_pending)
       ELSE UNCHANGED interrupt
    /\ UNCHANGED <<vblank, rendering, m_suppress_vbl>>

(***************************************************************************)
(* PPUCtrlRegs::ctrl_write.  The NMI logic is left alone during the first  *)
(* two dots of any scanline.                                               *)
(***************************************************************************)
CtrlWrite(enable) ==
    /\ nmi_enabled' = enable
    /\ IF m_clocks > 1
       THEN UpdateNmiLogic(vblank, enable, m_nmi_pending)
       ELSE UNCHANGED interrupt
    /\ UNCHANGED <<vblank, rendering, m_suppress_vbl>>

MaskWrite(enable) ==
    /\ rendering' = enable
    /\ UNCHANGED <<interrupt, vblank, nmi_enabled, m_suppress_vbl>>

NoAccess == UNCHANGED <<interrupt, registers>>

Access ==
    \/ NoAccess
    \/ StatusRead
    \/ \E enable \in BOOLEAN : CtrlWrite(enable) \/ MaskWrite(enable)

-----------------------------------------------------------------------------
(***************************************************************************)
(* A further cycle of an instruction.  A PPU register is named by a 16-bit *)
(* operand, so it is accessed in the fourth cycle at the earliest.         *)
(***************************************************************************)
Execute ==
    /\ activity = "op"
    /\ done < MaxLength
    /\ IF done >= 3 THEN Access ELSE NoAccess
    /\ done' = done + 1
    /\ UNCHANGED <<activity, delays>>

(***************************************************************************)
(* CLI and SEI take two cycles, PLP four; none accesses the PPU.  An       *)
(* interrupt sequence accesses the stack and the vector.                   *)
(***************************************************************************)
ExecuteInternal ==
    /\ \/ activity = "delay" /\ done < 4
       \/ activity = "isr" /\ done < IsrCycles
    /\ NoAccess
    /\ done' = done + 1
    /\ UNCHANGED <<activity, delays>>

(***************************************************************************)
(* The end of an instruction: cpu6502::run polls the pending interrupt     *)
(* unless m_int_delay is set, which CLI, SEI and PLP do last of all.       *)
(***************************************************************************)
Complete ==
    \/ activity = "boot"
    \/ activity = "op" /\ done >= 2
    \/ activity = "delay" /\ done \in {2, 4}
    \/ activity = "isr" /\ done = IsrCycles

Polls == activity = "op" /\ ~m_int_delay

TakeNmi ==
    /\ Complete
    /\ Polls /\ m_nmi_pending
    /\ m_nmi_pending' = FALSE
    /\ activity' = "isr" /\ done' = 1 /\ delays' = 0
    /\ UNCHANGED <<m_int_delay, m_nmi_line_state, registers>>

(* A slip to be caught: the delay of one instruction is never lifted. *)
FetchDelayKept ==
    /\ Complete
    /\ ~(Polls /\ m_nmi_pending)
    /\ UNCHANGED m_int_delay
    /\ \/ activity' = "op" /\ delays' = 0
       \/ activity' = "delay" /\ delays < MaxDelays /\ delays' = delays + 1
    /\ done' = 1
    /\ UNCHANGED <<m_nmi_pending, m_nmi_line_state, registers>>

Fetch ==
    /\ Complete
    /\ ~(Polls /\ m_nmi_pending)
    /\ m_int_delay' = FALSE
    /\ \/ activity' = "op" /\ delays' = 0
       \/ activity' = "delay" /\ delays < MaxDelays /\ delays' = delays + 1
    /\ done' = 1
    /\ UNCHANGED <<m_nmi_pending, m_nmi_line_state, registers>>

CpuCycle ==
    /\ turn = 0
    /\ turn' = 1
    /\ Execute \/ ExecuteInternal \/ TakeNmi \/ Fetch
    /\ UNCHANGED <<position, resets>>

-----------------------------------------------------------------------------
(***************************************************************************)
(* What scanline<Type> does once its idle cycle has passed, or has been    *)
(* skipped: the pre-render line clears the flag, line 241 sets it unless a *)
(* read in the dot before asked for suppression.                           *)
(***************************************************************************)
SetVBlank ==
    /\ vblank' = TRUE
    /\ UpdateNmiLogic(TRUE, nmi_enabled, m_nmi_pending)
    /\ UNCHANGED m_suppress_vbl

(* A slip to be caught: the flag is cleared behind the NMI logic's back. *)
ClearVBlankOnly ==
    /\ vblank' = FALSE
    /\ UNCHANGED <<interrupt, m_suppress_vbl>>

ClearVBlank ==
    /\ vblank' = FALSE
    /\ UpdateNmiLogic(FALSE, nmi_enabled, m_nmi_pending)
    /\ UNCHANGED m_suppress_vbl

(* A slip to be caught: the request to suppress is not used up. *)
SuppressVBlankKept == UNCHANGED <<interrupt, vblank, m_suppress_vbl>>

SuppressVBlank ==
    /\ m_suppress_vbl' = FALSE
    /\ UNCHANGED <<interrupt, vblank>>

(* A slip to be caught: the flag is set on every idle line. *)
LeaveIdleCycleEarly(t, line) ==
    IF t = "PreRender" THEN ClearVBlank
    ELSE IF t = "Idle"
    THEN IF m_suppress_vbl THEN SuppressVBlank ELSE SetVBlank
    ELSE UNCHANGED <<interrupt, vblank, m_suppress_vbl>>

LeaveIdleCycle(t, line) ==
    IF t = "PreRender" THEN ClearVBlank
    ELSE IF t = "Idle" /\ line = VBlankLine
    THEN IF m_suppress_vbl THEN SuppressVBlank ELSE SetVBlank
    ELSE UNCHANGED <<interrupt, vblank, m_suppress_vbl>>

(***************************************************************************)
(* The start of a scanline, up to its first yield.                         *)
(***************************************************************************)
EnterLine(t, line) ==
    /\ type' = t
    /\ m_current_line' = line
    /\ IF m_skip_cycle
       THEN dot' = 1 /\ LeaveIdleCycle(t, line)
       ELSE dot' = 0 /\ UNCHANGED <<interrupt, vblank, m_suppress_vbl>>

(***************************************************************************)
(* render_frame is called again by the trampoline as soon as it returns.   *)
(* On a coroutine that has just been created the pre-render line starts    *)
(* with the line and clock numbers of before.                              *)
(***************************************************************************)
FirstLine ==
    /\ dot = NotStarted
    /\ EnterLine("PreRender", m_current_line)
    /\ UNCHANGED <<m_clocks, m_odd_frame, m_skip_cycle>>

(* Slips to be caught: m_current_line or m_clocks is not set back. *)
LineNotZeroed == m_current_line + 1

LineAfterPreRender == 0

ClocksNotZeroed == m_clocks

ClocksAfterLine == 0

NextLine ==
    /\ dot = Dots - 1
    /\ m_clocks' = ClocksAfterLine
    /\ LET line == m_current_line + 1 IN
       \/ /\ type = "PreRender"
          /\ EnterLine("Render", LineAfterPreRender)
          /\ UNCHANGED m_odd_frame
       \/ /\ type = "Render"
          /\ EnterLine(IF line < RenderLines THEN "Render" ELSE "Idle", line)
          /\ UNCHANGED m_odd_frame
       \/ /\ type = "Idle" /\ line < PreRenderLine
          /\ EnterLine("Idle", line)
          /\ UNCHANGED m_odd_frame
       \/ /\ type = "Idle" /\ line = PreRenderLine
          /\ EnterLine("PreRender", line)
          /\ m_odd_frame' = ~m_odd_frame
    /\ UNCHANGED m_skip_cycle

(* A slip to be caught: the parity of the frame is not looked at. *)
SkipEveryFrame == m_current_line = PreRenderLine /\ rendering

SkipNextIdle == m_current_line = PreRenderLine /\ m_odd_frame /\ rendering

(***************************************************************************)
(* A cycle inside a scanline.  After three cycles an idle line sleeps with *)
(* m_clocks left at 3 (cycle_fast).  On the other lines the last fetches   *)
(* decide whether the next line leaves its idle cycle out.                 *)
(***************************************************************************)
NextDot ==
    /\ dot < Dots - 1
    /\ dot' = dot + 1
    /\ m_clocks' = IF type = "Idle" /\ dot >= 3 THEN m_clocks ELSE m_clocks + 1
    /\ IF dot = 0 THEN LeaveIdleCycle(type, m_current_line)
       ELSE UNCHANGED <<interrupt, vblank, m_suppress_vbl>>
    /\ m_skip_cycle' = IF type # "Idle" /\ dot = Dots - 4
                       THEN SkipNextIdle ELSE m_skip_cycle
    /\ UNCHANGED <<type, m_current_line, m_odd_frame>>

PpuCycle ==
    /\ turn > 0
    /\ turn' = (turn + 1) % (DotsPerCycle + 1)
    /\ FirstLine \/ NextLine \/ NextDot
    /\ UNCHANGED <<program, nmi_enabled, rendering, resets>>

-----------------------------------------------------------------------------
(***************************************************************************)
(* soft_reset: cpu.reset, ppu.reset and new coroutines.  What the resets   *)
(* do not mention survives: a pending NMI, the NMI line, the flag, a       *)
(* suppression asked for, and the PPU's line and clock numbers.            *)
(* In the emulator R is handled when run_frame has returned, which is at   *)
(* the first CPU cycle that finds line 241; programs that drive            *)
(* run_cpu_cycle themselves may reset anywhere.                            *)
(***************************************************************************)
FrameDone == type = "Idle" /\ m_current_line = VBlankLine /\ dot <= 2

SoftReset ==
    /\ turn = 0
    /\ resets < MaxResets
    /\ AnyCycle \/ FrameDone
    /\ activity' = "boot" /\ done' = 0 /\ delays' = 0
    /\ m_int_delay' = FALSE
    /\ nmi_enabled' = FALSE /\ rendering' = FALSE
    /\ m_odd_frame' = FALSE
    /\ type' = "PreRender" /\ dot' = NotStarted
    /\ resets' = resets + 1
    /\ UNCHANGED <<turn, m_nmi_pending, m_nmi_line_state, vblank, m_suppress_vbl,
                   m_current_line, m_clocks, m_skip_cycle>>

-----------------------------------------------------------------------------
(***************************************************************************)
(* History.  owed becomes "now" when the interrupt condition rises, "old"  *)
(* when the vertical blank in which it rose is over, and "no" when the NMI *)
(* is taken or withdrawn.  A rise that the NMI logic has not been told of  *)
(* (a write to $2000 in the first two dots of a line) stays owed.          *)
(***************************************************************************)
Condition == vblank /\ nmi_enabled

Unseen == Condition /\ m_nmi_line_state = 1

FrameBegins == type' = "PreRender" /\ (type # "PreRender" \/ dot = NotStarted)

VBlankEnds == type' = "PreRender" /\ dot' = 1

RaceRead ==
    /\ activity = "op" /\ done >= 3
    /\ type = "Idle"
    /\ m_current_line = VBlankLine /\ dot <= 2
    /\ StatusRead

Record ==
    /\ owed' = IF m_nmi_pending /\ ~m_nmi_pending'
               THEN IF Unseen' THEN owed ELSE "no"
               ELSE IF ~Condition /\ Condition' THEN "now"
               ELSE IF VBlankEnds /\ owed = "now" THEN "old"
               ELSE owed
    /\ taken' = IF VBlankEnds THEN FALSE
                ELSE taken \/ (activity # "isr" /\ activity' = "isr" /\ owed = "now")
    /\ elapsed' = IF FrameBegins THEN 0
                  ELSE IF turn > 0 THEN elapsed + 1
                  ELSE elapsed

RecordCpu == Record /\ raced' = (raced \/ (turn = 0 /\ RaceRead))
RecordPpu == Record /\ raced' = (raced /\ ~VBlankEnds)

Next ==
    \/ CpuCycle /\ RecordCpu
    \/ PpuCycle /\ RecordPpu
    \/ SoftReset /\ RecordPpu

Spec == Init /\ [][Next]_vars

(* The emulator keeps calling run_frame, which never blocks. *)
FairSpec == Spec /\ WF_vars(CpuCycle /\ RecordCpu) /\ WF_vars(PpuCycle /\ RecordPpu)

-----------------------------------------------------------------------------
(* The variables hold values of their C++ types. *)
TypeOK ==
    /\ turn \in 0..DotsPerCycle
    /\ activity \in Activities
    /\ done \in 0..(MaxLength + IsrCycles)
    /\ delays \in 0..MaxDelays
    /\ m_int_delay \in BOOLEAN /\ m_nmi_pending \in BOOLEAN
    /\ m_nmi_line_state \in {0, 1}
    /\ type \in {"PreRender", "Render", "Idle"}
    /\ dot \in 0..NotStarted
    /\ m_current_line \in 0..PreRenderLine
    /\ m_clocks \in 0..((resets + 1) * Dots)
    /\ m_odd_frame \in BOOLEAN /\ m_skip_cycle \in BOOLEAN
    /\ m_suppress_vbl \in BOOLEAN
    /\ vblank \in BOOLEAN /\ nmi_enabled \in BOOLEAN /\ rendering \in BOOLEAN
    /\ resets \in 0..MaxResets
    /\ owed \in {"no", "now", "old"}
    /\ raced \in BOOLEAN /\ taken \in BOOLEAN
    /\ elapsed \in 0..(Dots * (Lines + 1))

(***************************************************************************)
(* The flag is up only from the second dot of line 241 to the first dot of *)
(* the pre-render line, on every path: reads, suppression, short frames    *)
(* and resets in between.                                                  *)
(***************************************************************************)
InVBlank ==
    \/ type = "Idle" /\ m_current_line = VBlankLine /\ dot >= 1
    \/ type = "Idle" /\ m_current_line > VBlankLine
    \/ type = "PreRender" /\ dot \in {0, NotStarted}

VBlankWindow == vblank => InVBlank

(***************************************************************************)
(* ctrl_write leaves the NMI line alone in the first two dots of a line,   *)
(* and a reset clears the enable bit without touching it, so the line can  *)
(* disagree with flag and enable bit; but never past the vertical blank:   *)
(* every frame starts with the line high, ready for its falling edge.      *)
(***************************************************************************)
LineHighOutsideVBlank ==
    ~InVBlank => m_nmi_line_state = 1 /\ ~Condition

(***************************************************************************)
(* No spurious NMI: one is pending only if the interrupt condition rose    *)
(* after the last NMI was taken or withdrawn, so one rise of the condition *)
(* never interrupts the program twice, however it writes $2000 and reads   *)
(* $2002 in between.                                                       *)
(***************************************************************************)
NmiOnlyOnce == m_nmi_pending => owed # "no"

(***************************************************************************)
(* The suppression rules of "ppu_regs.cpp: handle suppression behavior":   *)
(* after a read of $2002 in the dot before the flag is set, or in one of   *)
(* the two dots after, the flag stays down for the rest of the frame and   *)
(* the program sees no NMI of that frame, neither before nor after.        *)
(***************************************************************************)
RaceMeansNoNmi == raced => ~vblank /\ ~taken /\ owed # "now"

(***************************************************************************)
(* A request to suppress the flag is consumed within one dot: it never     *)
(* lingers to swallow the vertical blank of a later frame.                 *)
(***************************************************************************)
SuppressionIsLocal ==
    m_suppress_vbl => type = "Idle" /\ m_current_line = VBlankLine /\ dot = 0

(***************************************************************************)
(* Whatever the line number was when the console was reset, the PPU draws  *)
(* only lines the framebuffer has, and idles on the others.                *)
(***************************************************************************)
DrawsInsideFramebuffer ==
    /\ type = "Render" => m_current_line < RenderLines
    /\ type = "Idle" => m_current_line >= RenderLines

(***************************************************************************)
(* When the interrupt condition rises an NMI becomes pending in the same   *)
(* step, with two exceptions, both due to ctrl_write's `m_clocks > 1':     *)
(* the rise is itself a write to $2000 in the first two dots of a line, or *)
(* the line was left low by such a write to disable the NMI.               *)
(***************************************************************************)
NmiLostOnlyAtLineStart ==
    [][~Condition /\ Condition'
        => \/ m_nmi_pending'
           \/ turn = 0 /\ m_clocks <= 1
           \/ m_nmi_line_state = 0]_vars

(***************************************************************************)
(* Until the console is reset, a frame takes Dots * Lines dots, or one     *)
(* less; and one less on odd frames only, so that no two frames in a row   *)
(* are short whenever the program switches rendering on and off.  (A reset *)
(* begins a frame with the line, the clock and the skip that it finds.)    *)
(***************************************************************************)
FrameLength ==
    [][FrameBegins /\ dot # NotStarted /\ turn > 0 /\ resets = 0
        => \/ elapsed + 1 = Dots * Lines
           \/ elapsed + 1 = Dots * Lines - 1 /\ m_odd_frame]_vars

(***************************************************************************)
(* A pending NMI does not stay pending: provided the program does not      *)
(* execute CLI, SEI or PLP without end, it is taken or withdrawn.          *)
(***************************************************************************)
NmiAnswered == m_nmi_pending ~> ~m_nmi_pending
=============================================================================
