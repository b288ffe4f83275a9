-------------------------- MODULE VBlankNmiProofs ---------------------------
(***************************************************************************)
(* Proofs about the vertical blanking interrupt, for frames of any size,   *)
(* programs of any instructions and, unless a theorem says otherwise, any  *)
(* number of resets at any CPU cycle.                                      *)
(*                                                                         *)
(* The properties are not inductive by themselves: whether the flag is up  *)
(* depends on where the PPU is, so the invariant first says which          *)
(* positions exist, that the short first cycle of a line has been used up  *)
(* before the vertical blank begins, and how m_clocks and the time since   *)
(* the frame began follow from the position.                               *)
(***************************************************************************)
EXTENDS VBlankNmi, TLAPS

Started == dot # NotStarted

(* Lines and types belong together; a new coroutine has no odd frame. *)
Placed ==
    /\ ~Started => type = "PreRender" /\ ~m_odd_frame
    /\ type = "Render" => m_current_line < RenderLines
    /\ type = "Idle" => m_current_line \in RenderLines..(PreRenderLine - 1)

(* The first cycle that SkipNextIdle leaves out is that of a rendered line. *)
ShortCycleUsedUp ==
    /\ type = "Idle" => ~m_skip_cycle
    /\ type = "Render" /\ dot > Dots - 4 => ~m_skip_cycle
    /\ type = "PreRender" /\ Started /\ dot > Dots - 4 /\ m_skip_cycle => m_odd_frame

(* Only a reset lets m_clocks run ahead of the dots of the line. *)
Clocked ==
    /\ m_clocks <= resets * Dots + (IF Started THEN dot ELSE 0)
    /\ type = "Idle" => m_clocks = IF dot <= 3 THEN dot ELSE 3

(* Dots since the pre-render line began, if none was left out. *)
PositionAt(t, line, d) == IF t = "PreRender" THEN d ELSE Dots * (line + 1) + d
Position == PositionAt(type, m_current_line, dot)

Elapsed ==
    Started => \/ elapsed = Position
               \/ elapsed = Position - 1 /\ (type = "PreRender" => ~m_odd_frame)

(* A rise the NMI logic was not told of may still raise an NMI. *)
RiseIsOwed == Unseen => owed # "no"

PositionInv == TypeOK /\ Placed /\ ShortCycleUsedUp /\ Clocked /\ Elapsed

NmiInv == VBlankWindow /\ LineHighOutsideVBlank /\ NmiOnlyOnce /\ RiseIsOwed

Inv == PositionInv /\ NmiInv

-----------------------------------------------------------------------------
(* The constants as numbers, and the lines in their order. *)
LEMMA Geometry ==
    /\ RenderLines \in Nat /\ RenderLines >= 1
    /\ Dots \in Nat /\ Dots >= 6
    /\ PreRenderLine \in Nat /\ VBlankLine \in Nat
    /\ RenderLines < VBlankLine /\ VBlankLine < PreRenderLine
    /\ Lines = PreRenderLine + 1
    /\ NotStarted = Dots /\ DotsPerCycle = 3 /\ IsrCycles = 5
  BY GeometryAssumption
     DEF PreRenderLine, VBlankLine, Lines, NotStarted, DotsPerCycle, IsrCycles

(* One line more, or one reset more, is Dots more. *)
LEMMA OneMore ==
    ASSUME NEW n \in Nat
    PROVE  /\ Dots * n \in Nat /\ n * Dots \in Nat
           /\ Dots * (n + 1) = Dots * n + Dots
           /\ (n + 1) * Dots = n * Dots + Dots
  BY Geometry

(* No position is later than the end of the pre-render line of the frame. *)
LEMMA PositionBounded ==
    ASSUME NEW t, NEW line \in Nat, NEW d \in 0..(Dots - 1),
           t = "PreRender" \/ line < PreRenderLine
    PROVE  PositionAt(t, line, d) \in 0..(Dots * Lines - 1)
  <1>1. Dots * Lines = Dots * PreRenderLine + Dots /\ Dots * PreRenderLine \in Nat
    BY Geometry, OneMore
  <1>2. CASE t = "PreRender"
    BY <1>1, <1>2, Geometry DEF PositionAt
  <1>3. CASE t # "PreRender"
    <2>. DEFINE k == PreRenderLine - (line + 1)
    <2>1. k \in Nat /\ Lines = (line + 1) + (k + 1)
      BY <1>3, Geometry
    <2>2. Dots * Lines = Dots * (line + 1) + Dots * (k + 1)
      BY <2>1, Geometry
    <2>3. Dots * (k + 1) = Dots * k + Dots /\ Dots * k \in Nat /\ Dots * (line + 1) \in Nat
      BY <2>1, OneMore
    <2>. QED
      BY <1>3, <2>2, <2>3, Geometry DEF PositionAt
  <1>. QED
    BY <1>2, <1>3

-----------------------------------------------------------------------------
(* What a cycle of the CPU may change, and to what. *)
LEMMA CpuCycleTyped ==
    ASSUME TypeOK, CpuCycle
    PROVE  /\ turn = 0 /\ turn' = 1
           /\ UNCHANGED <<position, resets>>
           /\ activity' \in Activities /\ done' \in 0..(MaxLength + IsrCycles)
           /\ delays' \in 0..MaxDelays
           /\ m_int_delay' \in BOOLEAN /\ m_nmi_pending' \in BOOLEAN
           /\ m_nmi_line_state' \in {0, 1}
           /\ m_suppress_vbl' \in BOOLEAN /\ vblank' \in BOOLEAN
           /\ nmi_enabled' \in BOOLEAN /\ rendering' \in BOOLEAN
           /\ vblank' => vblank
  <1>1. turn = 0 /\ turn' = 1 /\ UNCHANGED <<position, resets>>
    BY DEF CpuCycle
  <1>2. CASE Execute
    <2>1. /\ activity' = activity /\ delays' = delays /\ done' = done + 1
          /\ done < MaxLength
          /\ NoAccess \/ Access
      BY <1>2 DEF Execute
    <2>2. activity' \in Activities /\ done' \in 0..(MaxLength + IsrCycles)
          /\ delays' \in 0..MaxDelays
      BY <2>1, BoundAssumption, Geometry DEF TypeOK
    <2>3. CASE NoAccess
      BY <1>1, <2>2, <2>3 DEF NoAccess, interrupt, registers, TypeOK
    <2>4. CASE StatusRead
      BY <1>1, <2>2, <2>4 DEF StatusRead, UpdateNmiLogic, TypeOK
    <2>5. ASSUME NEW enable \in BOOLEAN, CtrlWrite(enable)
          PROVE  /\ m_int_delay' \in BOOLEAN /\ m_nmi_pending' \in BOOLEAN
                 /\ m_nmi_line_state' \in {0, 1}
                 /\ m_suppress_vbl' \in BOOLEAN /\ vblank' \in BOOLEAN
                 /\ nmi_enabled' \in BOOLEAN /\ rendering' \in BOOLEAN
                 /\ vblank' => vblank
      BY <2>5 DEF CtrlWrite, UpdateNmiLogic, interrupt, TypeOK
    <2>6. ASSUME NEW enable \in BOOLEAN, MaskWrite(enable)
          PROVE  /\ m_int_delay' \in BOOLEAN /\ m_nmi_pending' \in BOOLEAN
                 /\ m_nmi_line_state' \in {0, 1}
                 /\ m_suppress_vbl' \in BOOLEAN /\ vblank' \in BOOLEAN
                 /\ nmi_enabled' \in BOOLEAN /\ rendering' \in BOOLEAN
                 /\ vblank' => vblank
      BY <2>6 DEF MaskWrite, interrupt, TypeOK
    <2>. QED
      BY <1>1, <2>1, <2>2, <2>3, <2>4, <2>5, <2>6 DEF Access
  <1>3. CASE ExecuteInternal
    BY <1>1, <1>3, BoundAssumption, Geometry
       DEF ExecuteInternal, NoAccess, interrupt, registers, TypeOK
  <1>4. CASE TakeNmi
    <2>1. activity' = "isr" /\ done' = 1 /\ delays' = 0
      BY <1>4 DEF TakeNmi
    <2>2. /\ activity' \in Activities /\ done' \in 0..(MaxLength + IsrCycles)
          /\ delays' \in 0..MaxDelays
      BY <2>1, BoundAssumption, Geometry DEF Activities
    <2>3. /\ m_nmi_pending' = FALSE
          /\ UNCHANGED <<m_int_delay, m_nmi_line_state, registers>>
      BY <1>4 DEF TakeNmi
    <2>. QED
      BY <1>1, <2>2, <2>3 DEF registers, TypeOK
  <1>5. CASE Fetch
    <2>1. /\ activity' \in {"op", "delay"} /\ done' = 1
          /\ \/ delays' = 0
             \/ delays < MaxDelays /\ delays' = delays + 1
      BY <1>5 DEF Fetch
    <2>2. delays \in 0..MaxDelays
      BY DEF TypeOK
    <2>3. /\ activity' \in Activities /\ done' \in 0..(MaxLength + IsrCycles)
          /\ delays' \in 0..MaxDelays
      BY <2>1, <2>2, BoundAssumption, Geometry DEF Activities
    <2>4. /\ m_int_delay' = FALSE
          /\ UNCHANGED <<m_nmi_pending, m_nmi_line_state, registers>>
      BY <1>5 DEF Fetch
    <2>. QED
      BY <1>1, <2>3, <2>4 DEF registers, TypeOK
  <1>. QED
    BY <1>2, <1>3, <1>4, <1>5 DEF CpuCycle

(* The end of the idle cycle changes nothing but the flag and the NMI. *)
LEMMA IdleCycleTyped ==
    ASSUME TypeOK, NEW t, NEW line, LeaveIdleCycle(t, line)
    PROVE  /\ m_int_delay' \in BOOLEAN /\ m_nmi_pending' \in BOOLEAN
           /\ m_nmi_line_state' \in {0, 1}
           /\ m_suppress_vbl' \in BOOLEAN /\ vblank' \in BOOLEAN
  BY DEF LeaveIdleCycle, ClearVBlank, SetVBlank, SuppressVBlank, UpdateNmiLogic,
         interrupt, TypeOK

(* The start of a line, whichever it is. *)
LEMMA EnterLineTyped ==
    ASSUME TypeOK, NEW t, NEW line, EnterLine(t, line)
    PROVE  /\ type' = t /\ m_current_line' = line
           /\ dot' = IF m_skip_cycle THEN 1 ELSE 0
           /\ m_int_delay' \in BOOLEAN /\ m_nmi_pending' \in BOOLEAN
           /\ m_nmi_line_state' \in {0, 1}
           /\ m_suppress_vbl' \in BOOLEAN /\ vblank' \in BOOLEAN
  BY IdleCycleTyped DEF EnterLine, interrupt, TypeOK

(* The four ways from one line to the next. *)
LEMMA NextLineMoves ==
    ASSUME TypeOK, Placed, NextLine
    PROVE  /\ dot = Dots - 1 /\ m_clocks' = 0 /\ m_skip_cycle' = m_skip_cycle
           /\ EnterLine(type', m_current_line')
           /\ \/ /\ type = "PreRender"
                 /\ type' = "Render" /\ m_current_line' = 0 /\ m_odd_frame' = m_odd_frame
              \/ /\ type = "Render" /\ m_current_line + 1 < RenderLines
                 /\ type' = "Render" /\ m_current_line' = m_current_line + 1
                 /\ m_odd_frame' = m_odd_frame
              \/ /\ type = "Render" /\ m_current_line + 1 = RenderLines
                 /\ type' = "Idle" /\ m_current_line' = m_current_line + 1
                 /\ m_odd_frame' = m_odd_frame
              \/ /\ type = "Idle" /\ m_current_line + 1 < PreRenderLine
                 /\ type' = "Idle" /\ m_current_line' = m_current_line + 1
                 /\ m_odd_frame' = m_odd_frame
              \/ /\ type = "Idle" /\ m_current_line + 1 = PreRenderLine
                 /\ type' = "PreRender" /\ m_current_line' = m_current_line + 1
                 /\ m_odd_frame' = ~m_odd_frame
  <1>. DEFINE line == m_current_line + 1
  <1>1. dot = Dots - 1 /\ m_clocks' = 0 /\ m_skip_cycle' = m_skip_cycle
    BY DEF NextLine, ClocksAfterLine
  <1>2. m_current_line \in Nat /\ type \in {"PreRender", "Render", "Idle"}
    BY Geometry DEF TypeOK
  <1>3. CASE type = "PreRender"
    <2>1. EnterLine("Render", 0) /\ m_odd_frame' = m_odd_frame
      BY <1>3 DEF NextLine, LineAfterPreRender
    <2>2. type' = "Render" /\ m_current_line' = 0
      BY <2>1 DEF EnterLine
    <2>. QED
      BY <1>1, <1>3, <2>1, <2>2
  <1>4. CASE type = "Render"
    <2>1. /\ EnterLine(IF line < RenderLines THEN "Render" ELSE "Idle", line)
          /\ m_odd_frame' = m_odd_frame
      BY <1>4 DEF NextLine
    <2>2. /\ type' = (IF line < RenderLines THEN "Render" ELSE "Idle")
          /\ m_current_line' = line
      BY <2>1 DEF EnterLine
    <2>3. line < RenderLines \/ line = RenderLines
      BY <1>2, <1>4, Geometry DEF Placed
    <2>. QED
      BY <1>1, <1>2, <1>4, <2>1, <2>2, <2>3, Geometry
  <1>5. CASE type = "Idle"
    <2>1. line < PreRenderLine \/ line = PreRenderLine
      BY <1>2, <1>5, Geometry DEF Placed
    <2>2. CASE line < PreRenderLine
      <3>1. EnterLine("Idle", line) /\ m_odd_frame' = m_odd_frame
        BY <1>2, <1>5, <2>2, Geometry DEF NextLine
      <3>2. type' = "Idle" /\ m_current_line' = line
        BY <3>1 DEF EnterLine
      <3>. QED
        BY <1>1, <1>5, <2>2, <3>1, <3>2
    <2>3. CASE line = PreRenderLine
      <3>1. EnterLine("PreRender", line) /\ m_odd_frame' = ~m_odd_frame
        BY <1>2, <1>5, <2>3, Geometry DEF NextLine
      <3>2. type' = "PreRender" /\ m_current_line' = line
        BY <3>1 DEF EnterLine
      <3>. QED
        BY <1>1, <1>5, <2>3, <3>1, <3>2
    <2>. QED
      BY <2>1, <2>2, <2>3
  <1>. QED
    BY <1>2, <1>3, <1>4, <1>5

-----------------------------------------------------------------------------
(* The history keeps its type, and counts dots. *)
LEMMA RecordTyped ==
    ASSUME TypeOK, Record
    PROVE  /\ owed' \in {"no", "now", "old"} /\ taken' \in BOOLEAN
           /\ elapsed' = IF FrameBegins THEN 0
                         ELSE IF turn > 0 THEN elapsed + 1 ELSE elapsed
  <1>1. owed \in {"no", "now", "old"} /\ taken \in BOOLEAN
    BY DEF TypeOK
  <1>. QED
    BY <1>1 DEF Record

(* The CPU leaves the position alone. *)
LEMMA CpuKeepsPosition ==
    ASSUME PositionInv, CpuCycle, RecordCpu
    PROVE  PositionInv'
  <1>1. /\ turn = 0 /\ turn' = 1
        /\ UNCHANGED <<position, resets>>
        /\ activity' \in Activities /\ done' \in 0..(MaxLength + IsrCycles)
        /\ delays' \in 0..MaxDelays
        /\ m_int_delay' \in BOOLEAN /\ m_nmi_pending' \in BOOLEAN
        /\ m_nmi_line_state' \in {0, 1}
        /\ m_suppress_vbl' \in BOOLEAN /\ vblank' \in BOOLEAN
        /\ nmi_enabled' \in BOOLEAN /\ rendering' \in BOOLEAN
    BY CpuCycleTyped DEF PositionInv
  <1>2. UNCHANGED <<type, dot, m_current_line, m_clocks, m_odd_frame, m_skip_cycle, resets>>
    BY <1>1 DEF position
  <1>3. /\ owed' \in {"no", "now", "old"} /\ taken' \in BOOLEAN /\ raced' \in BOOLEAN
        /\ elapsed' = IF FrameBegins THEN 0 ELSE elapsed
    <2>1. TypeOK /\ Record /\ raced' \in BOOLEAN
      BY DEF PositionInv, RecordCpu, TypeOK
    <2>. QED
      BY <1>1, <2>1, RecordTyped
  <1>4. FrameBegins => ~Started
    BY <1>2 DEF FrameBegins, Started
  <1>5. elapsed' \in {0, elapsed} /\ (Started => elapsed' = elapsed)
    BY <1>3, <1>4
  <1>6. elapsed' \in 0..(Dots * (Lines + 1))
    <2>1. Dots * (Lines + 1) \in Nat
      BY Geometry, OneMore
    <2>. QED
      BY <1>5, <2>1 DEF PositionInv, TypeOK
  <1>7. TypeOK'
    BY <1>1, <1>2, <1>3, <1>6, Geometry DEF PositionInv, TypeOK
  <1>8. Placed' /\ ShortCycleUsedUp' /\ Clocked'
    BY <1>2 DEF PositionInv, Placed, ShortCycleUsedUp, Clocked, Started
  <1>9. Elapsed'
    BY <1>2, <1>5 DEF PositionInv, Elapsed, Position, Started
  <1>. QED
    BY <1>7, <1>8, <1>9 DEF PositionInv

(* A dot of the PPU: the part of the type invariant it has in every case. *)
LEMMA PpuCycleTyped ==
    ASSUME TypeOK, PpuCycle, RecordPpu
    PROVE  /\ turn > 0 /\ turn' \in 0..DotsPerCycle
           /\ activity' \in Activities /\ done' \in 0..(MaxLength + IsrCycles)
           /\ delays' \in 0..MaxDelays
           /\ m_int_delay' \in BOOLEAN /\ m_nmi_pending' \in BOOLEAN
           /\ m_nmi_line_state' \in {0, 1}
           /\ m_suppress_vbl' \in BOOLEAN /\ vblank' \in BOOLEAN
           /\ nmi_enabled' = nmi_enabled /\ nmi_enabled' \in BOOLEAN
           /\ rendering' \in BOOLEAN
           /\ resets' = resets /\ resets' \in 0..MaxResets
           /\ owed' \in {"no", "now", "old"} /\ taken' \in BOOLEAN /\ raced' \in BOOLEAN
           /\ elapsed' = IF FrameBegins THEN 0 ELSE elapsed + 1
  <1>1. turn > 0 /\ turn' \in 0..DotsPerCycle
    BY Geometry DEF PpuCycle, TypeOK
  <1>2. /\ activity' \in Activities /\ done' \in 0..(MaxLength + IsrCycles)
        /\ delays' \in 0..MaxDelays
        /\ nmi_enabled' = nmi_enabled /\ nmi_enabled' \in BOOLEAN
        /\ rendering' \in BOOLEAN
        /\ resets' = resets /\ resets' \in 0..MaxResets
    BY DEF PpuCycle, program, TypeOK
  <1>3. /\ m_int_delay' \in BOOLEAN /\ m_nmi_pending' \in BOOLEAN
        /\ m_nmi_line_state' \in {0, 1}
        /\ m_suppress_vbl' \in BOOLEAN /\ vblank' \in BOOLEAN
    <2>1. CASE FirstLine
      BY <2>1, EnterLineTyped DEF FirstLine
    <2>2. CASE NextLine
      <3>1. PICK t, line : EnterLine(t, line)
        BY <2>2 DEF NextLine
      <3>. QED
        BY <3>1, EnterLineTyped
    <2>3. CASE NextDot
      BY <2>3, IdleCycleTyped DEF NextDot, interrupt, TypeOK
    <2>. QED
      BY <2>1, <2>2, <2>3 DEF PpuCycle
  <1>4. /\ owed' \in {"no", "now", "old"} /\ taken' \in BOOLEAN /\ raced' \in BOOLEAN
        /\ elapsed' = IF FrameBegins THEN 0 ELSE elapsed + 1
    <2>1. Record /\ raced' \in BOOLEAN
      BY DEF RecordPpu, TypeOK
    <2>. QED
      BY <1>1, <2>1, RecordTyped
  <1>. QED
    BY <1>1, <1>2, <1>3, <1>4

(* Every dot leads to the next position, and the clocks follow. *)
LEMMA PpuMovesOn ==
    ASSUME PositionInv, PpuCycle, RecordPpu
    PROVE  /\ type' \in {"PreRender", "Render", "Idle"}
           /\ dot' \in 0..(Dots - 1)
           /\ m_current_line' \in 0..PreRenderLine
           /\ m_clocks' \in Nat
           /\ m_odd_frame' \in BOOLEAN /\ m_skip_cycle' \in BOOLEAN
           /\ Placed' /\ ShortCycleUsedUp' /\ Clocked' /\ Elapsed'
  <1>1. /\ type \in {"PreRender", "Render", "Idle"} /\ dot \in 0..Dots
        /\ m_current_line \in 0..PreRenderLine /\ m_clocks \in Nat
        /\ m_odd_frame \in BOOLEAN /\ m_skip_cycle \in BOOLEAN
        /\ resets \in Nat /\ elapsed \in Nat
    <2>1. Dots * (Lines + 1) \in Nat
      BY Geometry, OneMore
    <2>2. resets \in Nat
      BY BoundAssumption DEF PositionInv, TypeOK
    <2>3. (resets + 1) * Dots \in Nat
      BY <2>2, OneMore
    <2>. QED
      BY <2>1, <2>2, <2>3, Geometry DEF PositionInv, TypeOK
  <1>2. resets' = resets /\ elapsed' = IF FrameBegins THEN 0 ELSE elapsed + 1
    BY PpuCycleTyped DEF PositionInv
  <1>3. resets * Dots \in Nat
    BY <1>1, OneMore
  <1>4. CASE FirstLine
    <2>1. /\ ~Started /\ type = "PreRender" /\ ~m_odd_frame
          /\ type' = "PreRender" /\ m_current_line' = m_current_line
          /\ dot' = IF m_skip_cycle THEN 1 ELSE 0
          /\ UNCHANGED <<m_clocks, m_odd_frame, m_skip_cycle>>
      BY <1>4 DEF FirstLine, EnterLine, Started, PositionInv, Placed
    <2>2. elapsed' = 0
      BY <1>2, <2>1 DEF FrameBegins, Started
    <2>3. Placed'
      BY <1>1, <2>1, Geometry DEF Placed, Started
    <2>4. ShortCycleUsedUp'
      BY <1>1, <2>1, Geometry DEF ShortCycleUsedUp
    <2>5. Clocked'
      BY <1>1, <1>2, <1>3, <2>1, Geometry DEF Clocked, Started, PositionInv
    <2>6. Elapsed'
      BY <1>1, <2>1, <2>2, Geometry DEF Elapsed, Position, PositionAt, Started
    <2>. QED
      BY <1>1, <2>1, <2>3, <2>4, <2>5, <2>6, Geometry
  <1>5. CASE NextLine
    <2>. DEFINE short == IF m_skip_cycle THEN 1 ELSE 0
    <2>1. TypeOK /\ Placed
      BY DEF PositionInv
    <2>2. /\ dot = Dots - 1 /\ m_clocks' = 0 /\ m_skip_cycle' = m_skip_cycle
          /\ dot' = short
      BY <1>5, <2>1, NextLineMoves, EnterLineTyped
    <2>3. Started /\ Started'
      BY <2>2, Geometry DEF Started
    <2>4. \/ elapsed = Position
          \/ elapsed = Position - 1 /\ (type = "PreRender" => ~m_odd_frame)
      BY <2>3 DEF PositionInv, Elapsed
    <2>5. CASE type = "PreRender" /\ type' = "Render" /\ m_current_line' = 0
               /\ m_odd_frame' = m_odd_frame
      <3>1. elapsed' = elapsed + 1
        BY <1>2, <2>5 DEF FrameBegins
      <3>2. m_skip_cycle => m_odd_frame
        BY <2>2, <2>3, <2>5, Geometry DEF PositionInv, ShortCycleUsedUp
      <3>3. Position = Dots - 1 /\ Position' = Dots + short
        BY <2>2, <2>5, Geometry DEF Position, PositionAt
      <3>4. Elapsed'
        BY <2>4, <2>5, <3>1, <3>2, <3>3, Geometry DEF Elapsed
      <3>5. Placed' /\ ShortCycleUsedUp'
        BY <1>1, <2>2, <2>5, Geometry DEF Placed, ShortCycleUsedUp, Started
      <3>6. Clocked'
        BY <1>1, <1>2, <1>3, <2>2, <2>5, Geometry DEF Clocked, Started
      <3>. QED
        BY <1>1, <2>2, <2>5, <3>4, <3>5, <3>6, Geometry
    <2>6. CASE type # "PreRender" /\ type' # "PreRender"
               /\ m_current_line' = m_current_line + 1 /\ m_odd_frame' = m_odd_frame
               /\ type' \in {"Render", "Idle"}
               /\ (type' = "Render" => m_current_line' < RenderLines)
               /\ (type' = "Idle" => m_current_line' \in RenderLines..(PreRenderLine - 1))
      <3>1. elapsed' = elapsed + 1
        BY <1>2, <2>6 DEF FrameBegins
      <3>2. ~m_skip_cycle
        BY <1>1, <2>2, <2>6, Geometry DEF PositionInv, ShortCycleUsedUp
      <3>3. Dots * (m_current_line' + 1) = Dots * (m_current_line + 1) + Dots
            /\ Dots * (m_current_line + 1) \in Nat
        BY <1>1, <2>6, OneMore, Geometry
      <3>4. Position' = Position + 1 /\ Position \in Nat
        BY <2>2, <2>6, <3>2, <3>3, Geometry DEF Position, PositionAt
      <3>5. Elapsed'
        BY <1>1, <2>4, <2>6, <3>1, <3>4 DEF Elapsed
      <3>6. Placed' /\ ShortCycleUsedUp'
        BY <1>1, <2>2, <2>6, <3>2, Geometry DEF Placed, ShortCycleUsedUp, Started
      <3>7. Clocked'
        BY <1>1, <1>2, <1>3, <2>2, <2>6, <3>2, Geometry DEF Clocked, Started
      <3>. QED
        BY <1>1, <2>2, <2>6, <3>5, <3>6, <3>7, Geometry
    <2>7. CASE type = "Idle" /\ type' = "PreRender" /\ m_current_line' = m_current_line + 1
               /\ m_current_line' = PreRenderLine /\ m_odd_frame' = ~m_odd_frame
      <3>1. elapsed' = 0
        BY <1>2, <2>7 DEF FrameBegins
      <3>2. ~m_skip_cycle /\ dot' = 0
        BY <2>2, <2>7 DEF PositionInv, ShortCycleUsedUp
      <3>3. Elapsed'
        BY <2>7, <3>1, <3>2 DEF Elapsed, Position, PositionAt
      <3>4. Placed' /\ ShortCycleUsedUp'
        BY <1>1, <2>2, <2>7, <3>2, Geometry DEF Placed, ShortCycleUsedUp, Started
      <3>5. Clocked'
        BY <1>1, <1>2, <1>3, <2>2, <2>7, <3>2, Geometry DEF Clocked, Started
      <3>. QED
        BY <1>1, <2>2, <2>7, <3>2, <3>3, <3>4, <3>5, Geometry
    <2>8. \/ /\ type = "PreRender" /\ type' = "Render" /\ m_current_line' = 0
             /\ m_odd_frame' = m_odd_frame
          \/ /\ type = "Render" /\ m_current_line + 1 < RenderLines
             /\ type' = "Render" /\ m_current_line' = m_current_line + 1
             /\ m_odd_frame' = m_odd_frame
          \/ /\ type = "Render" /\ m_current_line + 1 = RenderLines
             /\ type' = "Idle" /\ m_current_line' = m_current_line + 1
             /\ m_odd_frame' = m_odd_frame
          \/ /\ type = "Idle" /\ m_current_line + 1 < PreRenderLine
             /\ type' = "Idle" /\ m_current_line' = m_current_line + 1
             /\ m_odd_frame' = m_odd_frame
          \/ /\ type = "Idle" /\ m_current_line + 1 = PreRenderLine
             /\ type' = "PreRender" /\ m_current_line' = m_current_line + 1
             /\ m_odd_frame' = ~m_odd_frame
      BY <1>5, <2>1, NextLineMoves
    <2>9. type = "Idle" => m_current_line >= RenderLines
      BY <1>1, <2>1, Geometry DEF Placed
    <2>. QED
      BY <1>1, <2>5, <2>6, <2>7, <2>8, <2>9, Geometry
  <1>6. CASE NextDot
    <2>1. /\ dot < Dots - 1 /\ dot' = dot + 1
          /\ type' = type /\ m_current_line' = m_current_line /\ m_odd_frame' = m_odd_frame
          /\ m_clocks' = (IF type = "Idle" /\ dot >= 3 THEN m_clocks ELSE m_clocks + 1)
          /\ m_skip_cycle' = (IF type # "Idle" /\ dot = Dots - 4
                              THEN SkipNextIdle ELSE m_skip_cycle)
      BY <1>6 DEF NextDot
    <2>2. Started /\ Started'
      BY <1>1, <2>1, Geometry DEF Started
    <2>3. elapsed' = elapsed + 1
      BY <1>2, <2>1, <2>2 DEF FrameBegins, Started
    <2>4. SkipNextIdle => m_current_line = PreRenderLine /\ m_odd_frame
      BY DEF SkipNextIdle
    <2>5. m_skip_cycle' \in BOOLEAN
      BY <1>1, <2>1, <2>4 DEF SkipNextIdle, PositionInv, TypeOK
    <2>6. Placed'
      BY <2>1, <2>2 DEF Placed, PositionInv
    <2>7. ShortCycleUsedUp'
      BY <1>1, <2>1, <2>2, <2>4, Geometry DEF ShortCycleUsedUp, PositionInv, Placed
    <2>8. Clocked'
      BY <1>1, <1>2, <1>3, <2>1, <2>2, Geometry DEF Clocked, PositionInv
    <2>9. Elapsed'
      <3>1. Dots * (m_current_line + 1) \in Nat
        BY <1>1, OneMore, Geometry
      <3>2. Position \in Nat /\ Position' = Position + 1
        BY <1>1, <2>1, <3>1, Geometry DEF Position, PositionAt
      <3>. QED
        BY <1>1, <2>1, <2>2, <2>3, <3>2 DEF Elapsed, PositionInv
    <2>. QED
      BY <1>1, <2>1, <2>5, <2>6, <2>7, <2>8, <2>9, Geometry
  <1>. QED
    BY <1>4, <1>5, <1>6 DEF PpuCycle

LEMMA PpuKeepsPosition ==
    ASSUME PositionInv, PpuCycle, RecordPpu
    PROVE  PositionInv'
  <1>1. /\ type' \in {"PreRender", "Render", "Idle"}
        /\ dot' \in 0..(Dots - 1)
        /\ m_current_line' \in 0..PreRenderLine
        /\ m_clocks' \in Nat
        /\ m_odd_frame' \in BOOLEAN /\ m_skip_cycle' \in BOOLEAN
        /\ Placed' /\ ShortCycleUsedUp' /\ Clocked' /\ Elapsed'
    BY PpuMovesOn
  <1>2. /\ turn' \in 0..DotsPerCycle
        /\ activity' \in Activities /\ done' \in 0..(MaxLength + IsrCycles)
        /\ delays' \in 0..MaxDelays
        /\ m_int_delay' \in BOOLEAN /\ m_nmi_pending' \in BOOLEAN
        /\ m_nmi_line_state' \in {0, 1}
        /\ m_suppress_vbl' \in BOOLEAN /\ vblank' \in BOOLEAN
        /\ nmi_enabled' \in BOOLEAN /\ rendering' \in BOOLEAN
        /\ resets' \in 0..MaxResets
        /\ owed' \in {"no", "now", "old"} /\ taken' \in BOOLEAN /\ raced' \in BOOLEAN
        /\ elapsed' = IF FrameBegins THEN 0 ELSE elapsed + 1
    BY PpuCycleTyped DEF PositionInv
  <1>3. m_clocks' \in 0..((resets' + 1) * Dots)
    <2>1. resets' \in Nat
      BY <1>2, BoundAssumption
    <2>2. (resets' + 1) * Dots = resets' * Dots + Dots /\ resets' * Dots \in Nat
      BY <2>1, OneMore
    <2>. QED
      BY <1>1, <2>2, Geometry DEF Clocked
  <1>4. elapsed' \in 0..(Dots * (Lines + 1))
    <2>1. Dots * (Lines + 1) = Dots * Lines + Dots /\ Dots * Lines \in Nat
      BY Geometry, OneMore
    <2>2. elapsed' \in Nat
      <3>1. elapsed \in Nat
        BY <2>1, Geometry DEF PositionInv, TypeOK
      <3>. QED
        BY <1>2, <3>1
    <2>3. type' = "PreRender" \/ m_current_line' < PreRenderLine
      BY <1>1, Geometry DEF Placed
    <2>. DEFINE place == PositionAt(type', m_current_line', dot')
    <2>4. place \in 0..(Dots * Lines - 1)
      BY <1>1, <2>3, PositionBounded, Geometry
    <2>5. elapsed' = place \/ elapsed' = place - 1
      BY <1>1, Geometry DEF Elapsed, Started, Position
    <2>. HIDE DEF place
    <2>. QED
      BY <2>1, <2>2, <2>4, <2>5, Geometry
  <1>5. TypeOK'
    <2>1. dot' \in 0..NotStarted
      BY <1>1, Geometry
    <2>. QED
      BY <1>1, <1>2, <1>3, <1>4, <2>1 DEF TypeOK
  <1>. QED
    BY <1>1, <1>5 DEF PositionInv

(* A reset keeps the line number and the clock, but not the line. *)
LEMMA ResetKeepsPosition ==
    ASSUME PositionInv, SoftReset, RecordPpu
    PROVE  PositionInv'
  <1>1. /\ turn = 0 /\ turn' = 0 /\ resets < MaxResets /\ resets' = resets + 1
        /\ activity' = "boot" /\ done' = 0 /\ delays' = 0 /\ m_int_delay' = FALSE
        /\ nmi_enabled' = FALSE /\ rendering' = FALSE
        /\ m_odd_frame' = FALSE /\ type' = "PreRender" /\ dot' = NotStarted
        /\ UNCHANGED <<m_nmi_pending, m_nmi_line_state, vblank, m_suppress_vbl,
                       m_current_line, m_clocks, m_skip_cycle>>
    BY DEF SoftReset
  <1>2. /\ resets \in 0..MaxResets /\ resets' \in 0..MaxResets /\ resets \in Nat
        /\ dot \in 0..Dots
    BY <1>1, BoundAssumption, Geometry DEF PositionInv, TypeOK
  <1>3. /\ resets' * Dots = resets * Dots + Dots /\ resets * Dots \in Nat
        /\ (resets' + 1) * Dots = resets' * Dots + Dots
    BY <1>1, <1>2, OneMore
  <1>4. m_clocks \in Nat
    <2>1. (resets + 1) * Dots \in Nat
      BY <1>2, OneMore
    <2>. QED
      BY <2>1 DEF PositionInv, TypeOK
  <1>5. Clocked'
    BY <1>1, <1>2, <1>3, <1>4, Geometry DEF Clocked, Started, PositionInv
  <1>6. m_clocks' \in 0..((resets' + 1) * Dots)
    BY <1>1, <1>3, <1>4, <1>5, Geometry DEF Clocked, Started
  <1>7. /\ owed' \in {"no", "now", "old"} /\ taken' \in BOOLEAN /\ raced' \in BOOLEAN
        /\ elapsed' \in {0, elapsed}
    <2>1. TypeOK /\ Record /\ raced' \in BOOLEAN
      BY DEF PositionInv, RecordPpu, TypeOK
    <2>. QED
      BY <1>1, <2>1, RecordTyped
  <1>8. elapsed' \in 0..(Dots * (Lines + 1))
    <2>1. Dots * (Lines + 1) \in Nat
      BY Geometry, OneMore
    <2>. QED
      BY <1>7, <2>1 DEF PositionInv, TypeOK
  <1>9. TypeOK'
    <2>1. /\ m_nmi_pending' \in BOOLEAN /\ m_nmi_line_state' \in {0, 1}
          /\ m_current_line' \in 0..PreRenderLine /\ m_skip_cycle' \in BOOLEAN
          /\ m_suppress_vbl' \in BOOLEAN /\ vblank' \in BOOLEAN
      BY <1>1 DEF PositionInv, TypeOK
    <2>2. /\ turn' \in 0..DotsPerCycle /\ activity' \in Activities
          /\ done' \in 0..(MaxLength + IsrCycles) /\ delays' \in 0..MaxDelays
          /\ dot' \in 0..NotStarted
      BY <1>1, BoundAssumption, Geometry DEF Activities
    <2>. QED
      BY <1>1, <1>2, <1>6, <1>7, <1>8, <2>1, <2>2 DEF TypeOK
  <1>10. Placed' /\ ShortCycleUsedUp' /\ Elapsed'
    BY <1>1 DEF Placed, ShortCycleUsedUp, Elapsed, Started
  <1>. QED
    BY <1>5, <1>9, <1>10 DEF PositionInv

LEMMA InitPosition == Init => PositionInv
  <1>. SUFFICES ASSUME Init PROVE PositionInv
    OBVIOUS
  <1>1. (0 + 1) * Dots = 0 * Dots + Dots /\ 0 * Dots = 0 /\ Dots * (Lines + 1) \in Nat
    BY Geometry, OneMore
  <1>2. TypeOK
    <2>1. /\ turn \in 0..DotsPerCycle /\ activity \in Activities
          /\ done \in 0..(MaxLength + IsrCycles) /\ delays \in 0..MaxDelays
          /\ dot \in 0..NotStarted /\ m_current_line \in 0..PreRenderLine
          /\ resets \in 0..MaxResets
      BY BoundAssumption, Geometry DEF Init, Activities
    <2>2. m_clocks \in 0..((resets + 1) * Dots) /\ elapsed \in 0..(Dots * (Lines + 1))
      BY <1>1, Geometry DEF Init
    <2>. QED
      BY <2>1, <2>2 DEF Init, TypeOK
  <1>3. Placed /\ ShortCycleUsedUp /\ Clocked /\ Elapsed
    BY <1>1, Geometry DEF Init, Placed, ShortCycleUsedUp, Clocked, Elapsed, Started
  <1>. QED
    BY <1>2, <1>3 DEF PositionInv

-----------------------------------------------------------------------------
(***************************************************************************)
(* update_nmi_logic as every step uses it: the line is left alone and no   *)
(* NMI is raised, or the line is set from flag and enable bit as they are  *)
(* after the step and an NMI is raised only by a fall of the line.         *)
(***************************************************************************)
LineLeft == m_nmi_line_state' = m_nmi_line_state /\ (m_nmi_pending' => m_nmi_pending)

LineSet ==
    /\ m_nmi_line_state' = (IF Condition' THEN 0 ELSE 1)
    /\ m_nmi_pending' /\ ~m_nmi_pending => Condition' /\ m_nmi_line_state # 0

LEMMA UpdateSetsLine ==
    ASSUME TypeOK, NEW flag \in BOOLEAN, NEW enable \in BOOLEAN, NEW pending \in BOOLEAN,
           UpdateNmiLogic(flag, enable, pending), pending => m_nmi_pending,
           vblank' = flag, nmi_enabled' = enable
    PROVE  LineSet
  <1>1. Condition' <=> flag /\ enable
    BY DEF Condition
  <1>. QED
    BY <1>1 DEF UpdateNmiLogic, LineSet

LEMMA CpuLineStep ==
    ASSUME TypeOK, CpuCycle
    PROVE  LineLeft \/ LineSet
  <1>1. CASE Execute
    <2>1. CASE NoAccess
      BY <2>1 DEF NoAccess, interrupt, LineLeft
    <2>2. CASE StatusRead
      <3>. DEFINE pending == m_nmi_pending /\ ~(m_current_line = VBlankLine /\ m_clocks \in {1, 2})
      <3>1. /\ UpdateNmiLogic(FALSE, nmi_enabled, pending)
            /\ vblank' = FALSE /\ nmi_enabled' = nmi_enabled
        BY <2>2 DEF StatusRead
      <3>2. nmi_enabled \in BOOLEAN /\ pending \in BOOLEAN /\ (pending => m_nmi_pending)
        BY DEF TypeOK
      <3>. QED
        BY <3>1, <3>2, UpdateSetsLine
    <2>3. ASSUME NEW enable \in BOOLEAN, CtrlWrite(enable)
          PROVE  LineLeft \/ LineSet
      <3>1. CASE m_clocks > 1
        <4>1. UpdateNmiLogic(vblank, enable, m_nmi_pending) /\ vblank' = vblank
              /\ nmi_enabled' = enable
          BY <2>3, <3>1 DEF CtrlWrite
        <4>2. vblank \in BOOLEAN /\ m_nmi_pending \in BOOLEAN
          BY DEF TypeOK
        <4>. QED
          BY <4>1, <4>2, UpdateSetsLine
      <3>2. CASE ~(m_clocks > 1)
        BY <2>3, <3>2 DEF CtrlWrite, interrupt, LineLeft
      <3>. QED
        BY <3>1, <3>2
    <2>4. ASSUME NEW enable \in BOOLEAN, MaskWrite(enable)
          PROVE  LineLeft
      BY <2>4 DEF MaskWrite, interrupt, LineLeft
    <2>. QED
      BY <1>1, <2>1, <2>2, <2>3, <2>4 DEF Execute, Access
  <1>2. CASE ExecuteInternal
    BY <1>2 DEF ExecuteInternal, NoAccess, interrupt, LineLeft
  <1>3. CASE TakeNmi
    BY <1>3 DEF TakeNmi, LineLeft
  <1>4. CASE Fetch
    BY <1>4 DEF Fetch, LineLeft
  <1>. QED
    BY <1>1, <1>2, <1>3, <1>4 DEF CpuCycle

(* What leaving the idle cycle does, line by line. *)
LEMMA IdleCycleEffect ==
    ASSUME TypeOK, NEW t, NEW line, LeaveIdleCycle(t, line), nmi_enabled' = nmi_enabled
    PROVE  /\ t = "PreRender" => /\ ~vblank' /\ m_nmi_line_state' = 1
                                 /\ m_nmi_pending' = m_nmi_pending
                                 /\ m_suppress_vbl' = m_suppress_vbl
           /\ t = "Render" \/ (t = "Idle" /\ line # VBlankLine)
                => UNCHANGED <<interrupt, vblank, m_suppress_vbl>>
           /\ t = "Idle" /\ line = VBlankLine =>
                \/ /\ m_suppress_vbl /\ ~m_suppress_vbl'
                   /\ UNCHANGED <<interrupt, vblank>>
                \/ /\ ~m_suppress_vbl /\ ~m_suppress_vbl' /\ vblank'
                   /\ nmi_enabled /\ m_nmi_line_state = 1 => m_nmi_pending'
           /\ LineLeft \/ LineSet
  <1>1. CASE t = "PreRender"
    <2>1. UpdateNmiLogic(FALSE, nmi_enabled, m_nmi_pending) /\ vblank' = FALSE
          /\ m_suppress_vbl' = m_suppress_vbl
      BY <1>1 DEF LeaveIdleCycle, ClearVBlank
    <2>2. LineSet
      BY <2>1, UpdateSetsLine DEF TypeOK
    <2>3. m_nmi_line_state' = 1 /\ m_nmi_pending' = m_nmi_pending
      BY <2>1 DEF UpdateNmiLogic, TypeOK
    <2>. QED
      BY <1>1, <2>1, <2>2, <2>3
  <1>2. CASE t = "Idle" /\ line = VBlankLine /\ m_suppress_vbl
    BY <1>2 DEF LeaveIdleCycle, SuppressVBlank, interrupt, LineLeft
  <1>3. CASE t = "Idle" /\ line = VBlankLine /\ ~m_suppress_vbl
    <2>1. UpdateNmiLogic(TRUE, nmi_enabled, m_nmi_pending) /\ vblank' = TRUE
          /\ m_suppress_vbl' = m_suppress_vbl
      BY <1>3 DEF LeaveIdleCycle, SetVBlank
    <2>2. LineSet
      BY <2>1, UpdateSetsLine DEF TypeOK
    <2>3. nmi_enabled /\ m_nmi_line_state = 1 => m_nmi_pending'
      <3>1. m_nmi_pending' = (m_nmi_pending \/ ((TRUE /\ nmi_enabled) /\ m_nmi_line_state # 0))
        BY <2>1 DEF UpdateNmiLogic
      <3>2. m_nmi_line_state = 1 => m_nmi_line_state # 0
        OBVIOUS
      <3>. QED
        BY <3>1, <3>2, Zenon
    <2>. QED
      BY <1>3, <2>1, <2>2, <2>3
  <1>4. CASE t # "PreRender" /\ ~(t = "Idle" /\ line = VBlankLine)
    BY <1>4 DEF LeaveIdleCycle, interrupt, LineLeft
  <1>. QED
    BY <1>1, <1>2, <1>3, <1>4

(* What a dot does to flag and line, seen from the vertical blank. *)
LEMMA PpuFlagStep ==
    ASSUME PositionInv, PpuCycle
    PROVE  /\ \/ InVBlank'
              \/ ~InVBlank /\ UNCHANGED <<vblank, m_nmi_line_state>>
              \/ ~vblank' /\ m_nmi_line_state' = 1
           /\ LineLeft \/ LineSet
  <1>1. /\ TypeOK /\ Placed /\ nmi_enabled' = nmi_enabled
        /\ dot \in 0..Dots /\ m_current_line \in Nat
        /\ type \in {"PreRender", "Render", "Idle"}
        /\ type = "Idle" => ~m_skip_cycle
    BY Geometry DEF PositionInv, ShortCycleUsedUp, TypeOK, PpuCycle
  <1>2. CASE FirstLine
    <2>1. EnterLine("PreRender", m_current_line)
      BY <1>2 DEF FirstLine
    <2>2. CASE m_skip_cycle
      <3>1. LeaveIdleCycle("PreRender", m_current_line)
        BY <2>1, <2>2 DEF EnterLine
      <3>. QED
        BY <1>1, <3>1, IdleCycleEffect
    <2>3. CASE ~m_skip_cycle
      BY <2>1, <2>3 DEF EnterLine, interrupt, InVBlank, LineLeft
    <2>. QED
      BY <2>2, <2>3
  <1>3. CASE NextLine
    <2>1. /\ dot = Dots - 1 /\ EnterLine(type', m_current_line')
          /\ \/ type' = "Render" /\ type # "Idle"
             \/ type = "Render" /\ type' = "Idle" /\ m_current_line' = RenderLines
             \/ type = "Idle" /\ type' = "Idle" /\ m_current_line' = m_current_line + 1
             \/ type = "Idle" /\ type' = "PreRender"
      BY <1>1, <1>3, NextLineMoves
    <2>2. type # "Idle" => ~InVBlank
      BY <2>1, Geometry DEF InVBlank
    <2>3. CASE ~m_skip_cycle
      <3>1. dot' = 0 /\ UNCHANGED <<interrupt, vblank>>
        BY <2>1, <2>3 DEF EnterLine
      <3>2. LineLeft /\ UNCHANGED <<vblank, m_nmi_line_state>>
        BY <3>1 DEF interrupt, LineLeft
      <3>3. CASE type = "Idle"
        <4>1. InVBlank' \/ (type' = "Idle" /\ m_current_line < VBlankLine)
          BY <1>1, <2>1, <3>1, <3>3, Geometry DEF InVBlank
        <4>2. type = "Idle" /\ m_current_line < VBlankLine => ~InVBlank
          BY <1>1, Geometry DEF InVBlank
        <4>. QED
          BY <3>2, <3>3, <4>1, <4>2
      <3>. QED
        BY <2>2, <3>2, <3>3
    <2>4. CASE m_skip_cycle
      <3>1. /\ LeaveIdleCycle(type', m_current_line') /\ type # "Idle"
            /\ type' = "Render" \/ (type' = "Idle" /\ m_current_line' # VBlankLine)
        BY <1>1, <2>1, <2>4, Geometry DEF EnterLine
      <3>2. UNCHANGED <<interrupt, vblank>>
        BY <1>1, <3>1, IdleCycleEffect
      <3>. QED
        BY <2>2, <3>1, <3>2 DEF interrupt, LineLeft
    <2>. QED
      BY <2>3, <2>4
  <1>4. CASE NextDot
    <2>1. /\ dot < Dots - 1 /\ dot' = dot + 1 /\ type' = type
          /\ m_current_line' = m_current_line
          /\ IF dot = 0 THEN LeaveIdleCycle(type, m_current_line)
             ELSE UNCHANGED <<interrupt, vblank, m_suppress_vbl>>
      BY <1>4 DEF NextDot
    <2>2. CASE dot = 0
      <3>1. LeaveIdleCycle(type, m_current_line)
        BY <2>1, <2>2
      <3>2. CASE type = "PreRender"
        BY <1>1, <3>1, <3>2, IdleCycleEffect
      <3>3. CASE type = "Idle" /\ m_current_line >= VBlankLine
        <4>1. InVBlank'
          BY <1>1, <2>1, <2>2, <3>3, Geometry DEF InVBlank
        <4>. QED
          BY <1>1, <3>1, <4>1, IdleCycleEffect
      <3>4. CASE type = "Render" \/ (type = "Idle" /\ m_current_line < VBlankLine)
        <4>1. ~InVBlank
          BY <1>1, <3>4, Geometry DEF InVBlank
        <4>2. UNCHANGED <<interrupt, vblank>>
          BY <1>1, <3>1, <3>4, IdleCycleEffect, Geometry
        <4>. QED
          BY <4>1, <4>2 DEF interrupt, LineLeft
      <3>. QED
        BY <1>1, <3>2, <3>3, <3>4, Geometry
    <2>3. CASE dot # 0
      <3>1. InVBlank => InVBlank'
        BY <1>1, <2>1, <2>3, Geometry DEF InVBlank
      <3>. QED
        BY <2>1, <2>3, <3>1 DEF interrupt, LineLeft
    <2>. QED
      BY <2>2, <2>3
  <1>. QED
    BY <1>2, <1>3, <1>4 DEF PpuCycle

(* A rise of the condition is owed until the NMI is taken or withdrawn. *)
LEMMA OwedStep ==
    ASSUME TypeOK, NmiOnlyOnce, RiseIsOwed, LineLeft \/ LineSet, Record
    PROVE  NmiOnlyOnce' /\ RiseIsOwed'
  <1>1. /\ m_nmi_pending /\ ~m_nmi_pending' /\ Unseen' => owed' = owed
        /\ ~(m_nmi_pending /\ ~m_nmi_pending') =>
              /\ ~Condition /\ Condition' => owed' = "now"
              /\ Condition \/ ~Condition' => owed' \in {owed} \cup (IF owed = "now" THEN {"old"} ELSE {})
    BY DEF Record
  <1>2. Unseen' <=> Condition' /\ m_nmi_line_state' = 1
    BY DEF Unseen
  <1>3. Unseen <=> Condition /\ m_nmi_line_state = 1
    BY DEF Unseen
  <1>4. m_nmi_line_state \in {0, 1}
    BY DEF TypeOK
  <1>5. ASSUME Unseen' PROVE owed' # "no"
    <2>1. LineLeft
      BY <1>2, <1>5 DEF LineSet
    <2>2. CASE m_nmi_pending /\ ~m_nmi_pending'
      BY <1>1, <1>5, <2>2 DEF NmiOnlyOnce
    <2>3. CASE ~(m_nmi_pending /\ ~m_nmi_pending') /\ Condition
      <3>1. Unseen
        BY <1>2, <1>3, <1>5, <2>1, <2>3 DEF LineLeft
      <3>. QED
        BY <1>1, <2>3, <3>1 DEF RiseIsOwed
    <2>4. CASE ~(m_nmi_pending /\ ~m_nmi_pending') /\ ~Condition
      BY <1>1, <1>2, <1>5, <2>4
    <2>. QED
      BY <2>2, <2>3, <2>4
  <1>6. ASSUME m_nmi_pending' PROVE owed' # "no"
    <2>1. CASE m_nmi_pending
      BY <1>1, <1>6, <2>1 DEF NmiOnlyOnce
    <2>2. CASE ~m_nmi_pending
      <3>1. Condition' /\ m_nmi_line_state = 1
        BY <1>4, <1>6, <2>2 DEF LineLeft, LineSet
      <3>2. Condition => owed # "no"
        BY <1>3, <3>1 DEF RiseIsOwed
      <3>. QED
        BY <1>1, <2>2, <3>1, <3>2
    <2>. QED
      BY <2>1, <2>2
  <1>. QED
    BY <1>5, <1>6 DEF NmiOnlyOnce, RiseIsOwed

LEMMA CpuKeepsNmi ==
    ASSUME Inv, CpuCycle, RecordCpu
    PROVE  NmiInv'
  <1>1. TypeOK /\ VBlankWindow /\ LineHighOutsideVBlank /\ NmiOnlyOnce /\ RiseIsOwed /\ Record
    BY DEF Inv, PositionInv, NmiInv, RecordCpu
  <1>2. UNCHANGED <<type, dot, m_current_line>> /\ (vblank' => vblank)
    BY <1>1, CpuCycleTyped DEF position
  <1>3. InVBlank' <=> InVBlank
    BY <1>2 DEF InVBlank
  <1>4. LineLeft \/ LineSet
    BY <1>1, CpuLineStep
  <1>5. ASSUME ~InVBlank PROVE m_nmi_line_state' = 1 /\ ~Condition'
    <2>1. ~vblank /\ m_nmi_line_state = 1
      BY <1>1, <1>5 DEF VBlankWindow, LineHighOutsideVBlank
    <2>2. ~Condition'
      BY <1>2, <2>1 DEF Condition
    <2>. QED
      BY <1>4, <2>1, <2>2 DEF LineLeft, LineSet
  <1>6. VBlankWindow' /\ LineHighOutsideVBlank'
    BY <1>1, <1>2, <1>3, <1>5 DEF VBlankWindow, LineHighOutsideVBlank
  <1>7. NmiOnlyOnce' /\ RiseIsOwed'
    BY <1>1, <1>4, OwedStep
  <1>. QED
    BY <1>6, <1>7 DEF NmiInv

LEMMA PpuKeepsNmi ==
    ASSUME Inv, PpuCycle, RecordPpu
    PROVE  NmiInv'
  <1>1. /\ PositionInv /\ TypeOK /\ Record
        /\ VBlankWindow /\ LineHighOutsideVBlank /\ NmiOnlyOnce /\ RiseIsOwed
    BY DEF Inv, PositionInv, NmiInv, RecordPpu
  <1>2. /\ \/ InVBlank'
           \/ ~InVBlank /\ UNCHANGED <<vblank, m_nmi_line_state>>
           \/ ~vblank' /\ m_nmi_line_state' = 1
        /\ LineLeft \/ LineSet
    BY <1>1, PpuFlagStep
  <1>3. VBlankWindow' /\ LineHighOutsideVBlank'
    BY <1>1, <1>2 DEF VBlankWindow, LineHighOutsideVBlank, Condition
  <1>4. NmiOnlyOnce' /\ RiseIsOwed'
    BY <1>1, <1>2, OwedStep
  <1>. QED
    BY <1>3, <1>4 DEF NmiInv

LEMMA ResetKeepsNmi ==
    ASSUME Inv, SoftReset, RecordPpu
    PROVE  NmiInv'
  <1>1. TypeOK /\ NmiOnlyOnce /\ RiseIsOwed /\ Record
    BY DEF Inv, PositionInv, NmiInv, RecordPpu
  <1>2. LineLeft /\ type' = "PreRender" /\ dot' = NotStarted
    BY DEF SoftReset, LineLeft
  <1>3. InVBlank'
    BY <1>2 DEF InVBlank
  <1>. QED
    BY <1>1, <1>2, <1>3, OwedStep DEF NmiInv, VBlankWindow, LineHighOutsideVBlank

-----------------------------------------------------------------------------
LEMMA InitInv == Init => Inv
  <1>. SUFFICES ASSUME Init PROVE Inv
    OBVIOUS
  <1>1. NmiInv
    BY Geometry DEF Init, NmiInv, VBlankWindow, LineHighOutsideVBlank, NmiOnlyOnce,
                    RiseIsOwed, Unseen, Condition
  <1>. QED
    BY <1>1, InitPosition DEF Inv

LEMMA NextInv == Inv /\ [Next]_vars => Inv'
  <1>. SUFFICES ASSUME Inv, [Next]_vars PROVE Inv'
    OBVIOUS
  <1>1. CASE CpuCycle /\ RecordCpu
    BY <1>1, CpuKeepsPosition, CpuKeepsNmi DEF Inv
  <1>2. CASE PpuCycle /\ RecordPpu
    BY <1>2, PpuKeepsPosition, PpuKeepsNmi DEF Inv
  <1>3. CASE SoftReset /\ RecordPpu
    BY <1>3, ResetKeepsPosition, ResetKeepsNmi DEF Inv
  <1>4. CASE UNCHANGED vars
    BY <1>4 DEF vars, program, interrupt, position, registers, history,
         Inv, PositionInv, NmiInv, TypeOK, Placed, ShortCycleUsedUp, Clocked, Elapsed,
         Position, Started, VBlankWindow, InVBlank, LineHighOutsideVBlank, NmiOnlyOnce,
         RiseIsOwed, Unseen, Condition
  <1>. QED
    BY <1>1, <1>2, <1>3, <1>4 DEF Next

LEMMA AlwaysInv == Spec => []Inv
  BY InitInv, NextInv, PTL DEF Spec

(***************************************************************************)
(* The variables stay within their C++ types, whatever the frame's size    *)
(* and however often the console is reset: in particular m_clocks and the  *)
(* line number that a reset leaves behind stay bounded.                    *)
(***************************************************************************)
THEOREM Typed == Spec => []TypeOK
  <1>1. Inv => TypeOK
    BY DEF Inv, PositionInv
  <1>. QED
    BY <1>1, AlwaysInv, PTL

(***************************************************************************)
(* The vertical blank flag of $2002 is up only in the vertical blank: set  *)
(* on line 241 and cleared on the pre-render line by scanline<Type>, on    *)
(* every path through reads, suppression, short frames and resets.         *)
(***************************************************************************)
THEOREM FlagInVBlankOnly == Spec => []VBlankWindow
  <1>1. Inv => VBlankWindow
    BY DEF Inv, NmiInv
  <1>. QED
    BY <1>1, AlwaysInv, PTL

(***************************************************************************)
(* Although ctrl_write and a reset may leave the NMI line out of step with *)
(* the flag and the enable bit, every frame begins with the line high and  *)
(* the condition down, so that its vertical blank can pull it low again.   *)
(***************************************************************************)
THEOREM LineHighBetweenBlanks == Spec => []LineHighOutsideVBlank
  <1>1. Inv => LineHighOutsideVBlank
    BY DEF Inv, NmiInv
  <1>. QED
    BY <1>1, AlwaysInv, PTL

(***************************************************************************)
(* No NMI is pending that no rise of flag and enable bit has caused since  *)
(* the last one was taken by cpu6502::run or withdrawn by a read of $2002. *)
(***************************************************************************)
THEOREM NoSpuriousNmi == Spec => []NmiOnlyOnce
  <1>1. Inv => NmiOnlyOnce
    BY DEF Inv, NmiInv
  <1>. QED
    BY <1>1, AlwaysInv, PTL

(***************************************************************************)
(* render_frame draws lines of the framebuffer only, also in the frame it  *)
(* begins with the line number a reset has left.                           *)
(***************************************************************************)
THEOREM DrawsInside == Spec => []DrawsInsideFramebuffer
  <1>1. Inv => DrawsInsideFramebuffer
    BY Geometry DEF Inv, PositionInv, Placed, DrawsInsideFramebuffer
  <1>. QED
    BY <1>1, AlwaysInv, PTL

(***************************************************************************)
(* A rise of the interrupt condition is lost only through the test         *)
(* `m_clocks > 1` of ctrl_write: in the first two dots of a line, or later *)
(* because such a write had left the line low.                             *)
(***************************************************************************)
THEOREM LostOnlyAtLineStart == Spec => NmiLostOnlyAtLineStart
  <1>1. ASSUME Inv, Next, ~Condition, Condition', m_nmi_line_state # 0
        PROVE  m_nmi_pending' \/ (turn = 0 /\ m_clocks <= 1)
    <2>1. TypeOK
      BY <1>1 DEF Inv, PositionInv
    <2>2. CASE CpuCycle
      <3>1. turn = 0
        BY <2>2 DEF CpuCycle
      <3>2. CASE Execute
        <4>1. CASE NoAccess
          BY <1>1, <4>1 DEF NoAccess, registers, Condition
        <4>2. CASE StatusRead
          BY <1>1, <4>2 DEF StatusRead, Condition
        <4>3. ASSUME NEW enable \in BOOLEAN, CtrlWrite(enable), m_clocks > 1
              PROVE  m_nmi_pending'
          <5>1. /\ UpdateNmiLogic(vblank, enable, m_nmi_pending)
                /\ vblank /\ enable
            BY <1>1, <4>3 DEF CtrlWrite, Condition
          <5>2. m_nmi_pending' = (m_nmi_pending \/ ((vblank /\ enable) /\ m_nmi_line_state # 0))
            BY <5>1 DEF UpdateNmiLogic
          <5>. QED
            BY <1>1, <5>1, <5>2, Zenon
        <4>4. ASSUME NEW enable \in BOOLEAN, MaskWrite(enable)
              PROVE  FALSE
          BY <1>1, <4>4 DEF MaskWrite, Condition
        <4>5. m_clocks \in Nat
          <5>1. PositionInv /\ resets \in Nat
            BY <1>1, BoundAssumption DEF Inv, PositionInv, TypeOK
          <5>2. (resets + 1) * Dots \in Nat
            BY <5>1, OneMore
          <5>. QED
            BY <2>1, <5>2 DEF TypeOK
        <4>. QED
          BY <3>1, <3>2, <4>1, <4>2, <4>3, <4>4, <4>5 DEF Execute, Access
      <3>3. CASE ExecuteInternal
        BY <1>1, <3>3 DEF ExecuteInternal, NoAccess, registers, Condition
      <3>4. CASE TakeNmi
        BY <1>1, <3>4 DEF TakeNmi, registers, Condition
      <3>5. CASE Fetch
        BY <1>1, <3>5 DEF Fetch, registers, Condition
      <3>. QED
        BY <2>2, <3>2, <3>3, <3>4, <3>5 DEF CpuCycle
    <2>3. CASE PpuCycle
      <3>1. nmi_enabled' = nmi_enabled /\ nmi_enabled /\ vblank' /\ ~vblank
        BY <1>1, <2>3 DEF PpuCycle, Condition
      <3>2. PICK t, line : LeaveIdleCycle(t, line) \/ vblank' = vblank
        BY <2>3 DEF PpuCycle, FirstLine, NextLine, NextDot, EnterLine
      <3>3. LeaveIdleCycle(t, line) /\ t \in {"PreRender", "Render", "Idle"} => m_nmi_pending'
        BY <1>1, <2>1, <3>1, IdleCycleEffect DEF TypeOK
      <3>4. CASE t \notin {"PreRender", "Render", "Idle"}
        BY <3>1, <3>2, <3>4 DEF LeaveIdleCycle
      <3>. QED
        BY <3>1, <3>2, <3>3, <3>4
    <2>4. CASE SoftReset
      BY <1>1, <2>4 DEF SoftReset, Condition
    <2>. QED
      BY <1>1, <2>2, <2>3, <2>4 DEF Next
  <1>2. ASSUME Inv, [Next]_vars
        PROVE  [~Condition /\ Condition' => \/ m_nmi_pending'
                                            \/ turn = 0 /\ m_clocks <= 1
                                            \/ m_nmi_line_state = 0]_vars
    BY <1>1, <1>2
  <1>. QED
    BY <1>2, AlwaysInv, PTL DEF Spec, NmiLostOnlyAtLineStart

-----------------------------------------------------------------------------
(***************************************************************************)
(* The console before its first reset.  The line number then tells the     *)
(* type of a line, and m_skip_cycle is up only where a frame ends: the two *)
(* facts a reset breaks, and with them the length of the frames and the    *)
(* suppression of the flag.                                                *)
(***************************************************************************)
FreshStart ==
    /\ type = "PreRender" => m_current_line \in {0, PreRenderLine}
    /\ type = "PreRender" /\ dot <= Dots - 4 => ~m_skip_cycle
    /\ ~Started => ~m_skip_cycle /\ ~raced

FrameTime ==
    Started => \/ elapsed = Position
               \/ elapsed = Position - 1 /\ type # "PreRender" /\ m_odd_frame

AtFlag == type = "Idle" /\ m_current_line = VBlankLine

(* In the first dots of the vertical blank, with no slot of the CPU yet. *)
NoSlotSinceFlag ==
    AtFlag /\ \/ dot = 1 /\ turn # 1
              \/ dot = 2 /\ turn \notin {1, 2}

OwedInVBlank ==
    /\ ~InVBlank => owed # "now" /\ ~taken
    /\ NoSlotSinceFlag => ~taken /\ (owed = "now" => m_nmi_pending /\ vblank)

RacedInVBlank ==
    raced => \/ AtFlag /\ (dot = 0 => m_suppress_vbl)
             \/ type = "Idle" /\ m_current_line > VBlankLine
             \/ type = "PreRender" /\ dot = 0

FreshInv ==
    /\ FreshStart /\ FrameTime
    /\ OwedInVBlank /\ RacedInVBlank /\ SuppressionIsLocal /\ RaceMeansNoNmi

(* On line 241 the clock shows the dot as far as ctrl_write and status_read look. *)
LEMMA FlagLineIsIdle ==
    ASSUME PositionInv, FreshStart, m_current_line = VBlankLine
    PROVE  /\ type = "Idle"
           /\ m_clocks = 0 <=> dot = 0
           /\ m_clocks \in {1, 2} <=> dot \in {1, 2}
  <1>1. type = "Idle"
    BY Geometry DEF PositionInv, TypeOK, Placed, FreshStart
  <1>2. dot \in Nat
    BY Geometry DEF PositionInv, TypeOK
  <1>. QED
    BY <1>1, <1>2 DEF PositionInv, Clocked

(* Only status_read asks for suppression, in the dot before the flag is set. *)
LEMMA CpuSuppresses ==
    ASSUME TypeOK, CpuCycle
    PROVE  /\ m_suppress_vbl => m_suppress_vbl'
           /\ m_suppress_vbl' => m_suppress_vbl \/ (m_current_line = VBlankLine /\ m_clocks = 0)
           /\ activity # "isr" /\ activity' = "isr" => vblank' = vblank
  <1>1. m_suppress_vbl \in BOOLEAN
    BY DEF TypeOK
  <1>2. CASE Execute
    <2>1. activity' = activity
      BY <1>2 DEF Execute
    <2>2. CASE NoAccess
      BY <1>1, <2>1, <2>2 DEF NoAccess, registers
    <2>3. CASE StatusRead
      BY <1>1, <2>1, <2>3 DEF StatusRead
    <2>4. ASSUME NEW enable \in BOOLEAN, CtrlWrite(enable) \/ MaskWrite(enable)
          PROVE  m_suppress_vbl' = m_suppress_vbl
      BY <2>4 DEF CtrlWrite, MaskWrite
    <2>. QED
      BY <1>2, <2>1, <2>2, <2>3, <2>4 DEF Execute, Access
  <1>3. CASE ExecuteInternal
    BY <1>3 DEF ExecuteInternal, NoAccess, registers
  <1>4. CASE TakeNmi
    BY <1>4 DEF TakeNmi, registers
  <1>5. CASE Fetch
    BY <1>5 DEF Fetch, registers
  <1>. QED
    BY <1>2, <1>3, <1>4, <1>5 DEF CpuCycle

(* Without a rise of the condition nothing new is owed. *)
LEMMA NothingNewOwed ==
    ASSUME TypeOK, Record, Condition' => Condition
    PROVE  /\ owed # "now" => owed' # "now"
           /\ m_nmi_pending /\ ~m_nmi_pending' /\ ~Condition' => owed' # "now"
           /\ taken' => taken \/ (activity # "isr" /\ activity' = "isr" /\ owed = "now")
  <1>1. m_nmi_pending /\ ~m_nmi_pending' /\ ~Condition' => owed' = "no"
    BY DEF Record, Unseen
  <1>2. owed' \in {owed, "no", "old"}
    BY DEF Record
  <1>3. taken' => taken \/ (activity # "isr" /\ activity' = "isr" /\ owed = "now")
    BY DEF Record, TypeOK
  <1>. QED
    BY <1>1, <1>2, <1>3

LEMMA CpuKeepsFresh ==
    ASSUME Inv, FreshInv, CpuCycle, RecordCpu
    PROVE  FreshInv'
  <1>1. /\ PositionInv /\ TypeOK /\ Record /\ VBlankWindow
        /\ FreshStart /\ FrameTime /\ OwedInVBlank /\ RacedInVBlank /\ SuppressionIsLocal
        /\ RaceMeansNoNmi
    BY DEF Inv, PositionInv, NmiInv, FreshInv, RecordCpu
  <1>2. /\ turn = 0 /\ turn' = 1 /\ (vblank' => vblank)
        /\ UNCHANGED <<type, dot, m_current_line, m_clocks, m_odd_frame, m_skip_cycle>>
    BY <1>1, CpuCycleTyped DEF position
  <1>3. raced' => raced \/ RaceRead
    BY DEF RecordCpu
  <1>4. RaceRead => /\ AtFlag /\ dot <= 2 /\ dot \in {0, 1, 2}
                    /\ ~vblank'
                    /\ dot = 0 => m_suppress_vbl'
                    /\ dot # 0 => ~m_nmi_pending'
    <2>. SUFFICES ASSUME RaceRead
                  PROVE  /\ AtFlag /\ dot <= 2 /\ dot \in {0, 1, 2}
                         /\ ~vblank'
                         /\ dot = 0 => m_suppress_vbl'
                         /\ dot # 0 => ~m_nmi_pending'
      OBVIOUS
    <2>1. AtFlag /\ m_current_line = VBlankLine /\ dot <= 2 /\ StatusRead
      BY DEF RaceRead, AtFlag
    <2>2. dot \in {0, 1, 2}
      BY <1>1, <2>1, Geometry DEF TypeOK
    <2>3. /\ m_clocks = 0 <=> dot = 0
          /\ m_clocks \in {1, 2} <=> dot \in {1, 2}
      BY <1>1, <2>1, FlagLineIsIdle
    <2>4. ~vblank' /\ (m_clocks = 0 => m_suppress_vbl')
      BY <2>1 DEF StatusRead
    <2>5. m_clocks \in {1, 2} => ~m_nmi_pending'
      <3>1. m_nmi_pending' = ((m_nmi_pending /\ ~(m_current_line = VBlankLine /\ m_clocks \in {1, 2}))
                              \/ ((FALSE /\ nmi_enabled) /\ m_nmi_line_state # 0))
        BY <2>1 DEF StatusRead, UpdateNmiLogic
      <3>. QED
        BY <2>1, <3>1
    <2>. QED
      BY <2>1, <2>2, <2>3, <2>4, <2>5
  <1>5. FreshStart' /\ FrameTime'
    <2>1. ~Started => ~raced'
      BY <1>1, <1>3, <1>4 DEF FreshStart, Started, AtFlag, Placed, PositionInv
    <2>2. Started => elapsed' = elapsed
      BY <1>1, <1>2, RecordTyped DEF FrameBegins, Started
    <2>. QED
      BY <1>1, <1>2, <2>1, <2>2 DEF FreshStart, FrameTime, Started, Position
  <1>6. OwedInVBlank'
    <2>1. ASSUME ~InVBlank PROVE owed' # "now" /\ ~taken'
      <3>1. ~vblank /\ owed # "now" /\ ~taken
        BY <1>1, <2>1 DEF VBlankWindow, OwedInVBlank
      <3>. QED
        BY <1>1, <1>2, <3>1, NothingNewOwed DEF Condition
    <2>2. ~NoSlotSinceFlag'
      BY <1>2 DEF NoSlotSinceFlag
    <2>3. InVBlank' <=> InVBlank
      BY <1>2 DEF InVBlank
    <2>. QED
      BY <2>1, <2>2, <2>3 DEF OwedInVBlank
  <1>7. RacedInVBlank'
    BY <1>1, <1>2, <1>3, <1>4, CpuSuppresses DEF RacedInVBlank, AtFlag
  <1>8. SuppressionIsLocal'
    BY <1>1, <1>2, CpuSuppresses, FlagLineIsIdle DEF SuppressionIsLocal
  <1>9. RaceMeansNoNmi'
    <2>1. CASE raced
      BY <1>1, <1>2, <2>1, NothingNewOwed DEF RaceMeansNoNmi, Condition
    <2>2. CASE RaceRead
      <3>1. ~Condition'
        BY <1>4, <2>2 DEF Condition
      <3>2. ~taken /\ (owed = "now" => m_nmi_pending /\ vblank /\ dot # 0)
        <4>1. CASE dot = 0
          <5>1. ~InVBlank
            BY <1>4, <2>2, <4>1, Geometry DEF AtFlag, InVBlank
          <5>. QED
            BY <1>1, <5>1 DEF OwedInVBlank
        <4>2. CASE dot \in {1, 2}
          <5>1. NoSlotSinceFlag
            BY <1>2, <1>4, <2>2, <4>2 DEF NoSlotSinceFlag
          <5>. QED
            BY <1>1, <4>2, <5>1 DEF OwedInVBlank
        <4>. QED
          BY <1>4, <2>2, <4>1, <4>2
      <3>3. owed' # "now"
        BY <1>1, <1>4, <2>2, <3>1, <3>2, NothingNewOwed
      <3>4. ~taken'
        BY <1>1, <1>4, <2>2, <3>1, <3>2, NothingNewOwed, CpuSuppresses DEF TypeOK
      <3>. QED
        BY <1>4, <2>2, <3>3, <3>4 DEF RaceMeansNoNmi
    <2>. QED
      BY <1>3, <2>1, <2>2 DEF RaceMeansNoNmi
  <1>. QED
    BY <1>5, <1>6, <1>7, <1>8, <1>9 DEF FreshInv

(***************************************************************************)
(* A dot, as far as the flag, the NMI and the history depend on it: the    *)
(* pre-render line ends the vertical blank, line 241 begins it, and every  *)
(* other dot leaves them alone.                                            *)
(***************************************************************************)
LeftAlone == UNCHANGED <<vblank, m_nmi_line_state, m_nmi_pending, m_suppress_vbl>>

EndsVBlank ==
    /\ VBlankEnds /\ ~vblank' /\ m_nmi_pending' = m_nmi_pending
    /\ m_suppress_vbl' = m_suppress_vbl
    /\ type = "PreRender" /\ dot \in {0, NotStarted}

BeginsVBlank ==
    /\ AtFlag /\ dot = 0 /\ type' = type /\ m_current_line' = m_current_line /\ dot' = 1
    /\ ~m_suppress_vbl'
    /\ IF m_suppress_vbl THEN UNCHANGED <<vblank, m_nmi_line_state, m_nmi_pending>>
       ELSE vblank' /\ (nmi_enabled /\ m_nmi_line_state = 1 => m_nmi_pending')

LEMMA PpuHistoryStep ==
    ASSUME PositionInv, PpuCycle
    PROVE  \/ EndsVBlank
           \/ BeginsVBlank
           \/ LeftAlone /\ ~(AtFlag /\ dot = 0) /\ ~(type = "PreRender" /\ dot = 0)
  <1>1. /\ TypeOK /\ Placed /\ nmi_enabled' = nmi_enabled
        /\ dot \in 0..Dots /\ m_current_line \in Nat
        /\ type \in {"PreRender", "Render", "Idle"}
        /\ type = "Idle" => ~m_skip_cycle
    BY Geometry DEF PositionInv, ShortCycleUsedUp, TypeOK, PpuCycle
  <1>2. CASE FirstLine
    <2>1. /\ EnterLine("PreRender", m_current_line) /\ dot = NotStarted
          /\ type = "PreRender" /\ type' = "PreRender"
      BY <1>1, <1>2 DEF FirstLine, EnterLine, Placed, Started
    <2>2. CASE m_skip_cycle
      <3>1. LeaveIdleCycle("PreRender", m_current_line) /\ dot' = 1
        BY <2>1, <2>2 DEF EnterLine
      <3>2. EndsVBlank
        BY <1>1, <2>1, <3>1, IdleCycleEffect DEF EndsVBlank, VBlankEnds
      <3>. QED
        BY <3>2
    <2>3. CASE ~m_skip_cycle
      BY <2>1, <2>3, Geometry DEF EnterLine, interrupt, LeftAlone, AtFlag
    <2>. QED
      BY <2>2, <2>3
  <1>3. CASE NextLine
    <2>1. /\ dot = Dots - 1 /\ EnterLine(type', m_current_line')
          /\ \/ type' = "Render" /\ type # "Idle"
             \/ type = "Render" /\ type' = "Idle" /\ m_current_line' = RenderLines
             \/ type = "Idle"
      BY <1>1, <1>3, NextLineMoves
    <2>2. dot # 0
      BY <2>1, Geometry
    <2>3. CASE ~m_skip_cycle
      BY <2>1, <2>2, <2>3 DEF EnterLine, interrupt, LeftAlone
    <2>4. CASE m_skip_cycle
      <3>1. /\ LeaveIdleCycle(type', m_current_line')
            /\ type' = "Render" \/ (type' = "Idle" /\ m_current_line' # VBlankLine)
        BY <1>1, <2>1, <2>4, Geometry DEF EnterLine
      <3>2. UNCHANGED <<interrupt, vblank, m_suppress_vbl>>
        BY <1>1, <3>1, IdleCycleEffect
      <3>. QED
        BY <2>2, <3>2 DEF interrupt, LeftAlone
    <2>. QED
      BY <2>3, <2>4
  <1>4. CASE NextDot
    <2>1. /\ dot < Dots - 1 /\ dot' = dot + 1 /\ type' = type
          /\ m_current_line' = m_current_line
          /\ IF dot = 0 THEN LeaveIdleCycle(type, m_current_line)
             ELSE UNCHANGED <<interrupt, vblank, m_suppress_vbl>>
      BY <1>4 DEF NextDot
    <2>2. CASE dot = 0
      <3>1. LeaveIdleCycle(type, m_current_line) /\ dot' = 1
        BY <2>1, <2>2
      <3>2. CASE type = "PreRender"
        <4>1. EndsVBlank
          BY <1>1, <2>1, <2>2, <3>1, <3>2, IdleCycleEffect DEF EndsVBlank, VBlankEnds
        <4>. QED
          BY <4>1
      <3>3. CASE AtFlag
        <4>1. type = "Idle" /\ m_current_line = VBlankLine
          BY <3>3 DEF AtFlag
        <4>2. \/ /\ m_suppress_vbl /\ ~m_suppress_vbl'
                 /\ UNCHANGED <<interrupt, vblank>>
              \/ /\ ~m_suppress_vbl /\ ~m_suppress_vbl' /\ vblank'
                 /\ nmi_enabled /\ m_nmi_line_state = 1 => m_nmi_pending'
          BY <1>1, <3>1, <4>1, IdleCycleEffect
        <4>3. BeginsVBlank
          BY <2>1, <2>2, <3>1, <3>3, <4>2 DEF BeginsVBlank, interrupt
        <4>. QED
          BY <4>3
      <3>4. CASE type # "PreRender" /\ ~AtFlag
        <4>1. UNCHANGED <<interrupt, vblank, m_suppress_vbl>>
          BY <1>1, <3>1, <3>4, IdleCycleEffect DEF AtFlag
        <4>. QED
          BY <3>4, <4>1 DEF interrupt, LeftAlone
      <3>. QED
        BY <3>2, <3>3, <3>4
    <2>3. CASE dot # 0
      BY <2>1, <2>3 DEF interrupt, LeftAlone
    <2>. QED
      BY <2>2, <2>3
  <1>. QED
    BY <1>2, <1>3, <1>4 DEF PpuCycle

LEMMA PpuKeepsFreshStart ==
    ASSUME Inv, FreshInv, PpuCycle, RecordPpu
    PROVE  FreshStart' /\ FrameTime'
  <1>1. /\ PositionInv /\ TypeOK /\ Placed /\ ShortCycleUsedUp /\ FreshStart /\ FrameTime
    BY DEF Inv, PositionInv, FreshInv
  <1>2. /\ dot \in 0..Dots /\ m_current_line \in Nat /\ m_skip_cycle \in BOOLEAN
        /\ type \in {"PreRender", "Render", "Idle"}
        /\ elapsed' = IF FrameBegins THEN 0 ELSE elapsed + 1
        /\ dot' \in 0..(Dots - 1)
    BY <1>1, PpuCycleTyped, PpuMovesOn, Geometry DEF TypeOK
  <1>3. Started'
    BY <1>2, Geometry DEF Started
  <1>4. elapsed \in Nat
    <2>1. Dots * (Lines + 1) \in Nat
      BY Geometry, OneMore
    <2>. QED
      BY <1>1, <2>1 DEF TypeOK
  <1>5. CASE FirstLine
    <2>1. ~Started /\ type' = "PreRender" /\ dot' = 0 /\ elapsed' = 0
          /\ UNCHANGED <<m_current_line, m_skip_cycle>> /\ type = "PreRender" /\ ~m_skip_cycle
      BY <1>1, <1>2, <1>5
         DEF FirstLine, EnterLine, Started, Placed, FrameBegins, FreshStart
    <2>. QED
      BY <1>1, <1>3, <2>1 DEF FreshStart, FrameTime, Position, PositionAt
  <1>6. CASE NextLine
    <2>1. /\ dot = Dots - 1 /\ m_skip_cycle' = m_skip_cycle
          /\ dot' = (IF m_skip_cycle THEN 1 ELSE 0)
      BY <1>1, <1>6, NextLineMoves, EnterLineTyped
    <2>2. /\ Started
          /\ \/ elapsed = Position
             \/ elapsed = Position - 1 /\ type # "PreRender" /\ m_odd_frame
      BY <1>1, <2>1, Geometry DEF Started, FrameTime
    <2>3. CASE type = "PreRender" /\ type' = "Render" /\ m_current_line' = 0
               /\ m_odd_frame' = m_odd_frame
      <3>1. elapsed' = elapsed + 1 /\ (m_skip_cycle => m_odd_frame)
        BY <1>1, <1>2, <2>1, <2>2, <2>3, Geometry DEF FrameBegins, ShortCycleUsedUp
      <3>2. Position = Dots - 1 /\ Position' = Dots + dot'
        BY <1>2, <2>1, <2>3, Geometry DEF Position, PositionAt
      <3>. QED
        BY <1>3, <2>1, <2>2, <2>3, <3>1, <3>2, Geometry DEF FreshStart, FrameTime
    <2>4. CASE type # "PreRender" /\ type' # "PreRender"
               /\ m_current_line' = m_current_line + 1 /\ m_odd_frame' = m_odd_frame
      <3>1. elapsed' = elapsed + 1 /\ ~m_skip_cycle
        BY <1>1, <1>2, <2>1, <2>4, Geometry DEF FrameBegins, ShortCycleUsedUp
      <3>2. Dots * (m_current_line' + 1) = Dots * (m_current_line + 1) + Dots
            /\ Dots * (m_current_line + 1) \in Nat
        BY <1>2, <2>4, OneMore, Geometry
      <3>3. Position' = Position + 1 /\ Position \in Nat
        BY <2>1, <2>4, <3>1, <3>2, Geometry DEF Position, PositionAt
      <3>. QED
        BY <1>3, <1>4, <2>2, <2>4, <3>1, <3>3 DEF FreshStart, FrameTime
    <2>5. CASE type = "Idle" /\ type' = "PreRender" /\ m_current_line' = PreRenderLine
      <3>1. elapsed' = 0 /\ ~m_skip_cycle /\ dot' = 0
        BY <1>1, <1>2, <2>1, <2>5 DEF FrameBegins, ShortCycleUsedUp
      <3>. QED
        BY <1>3, <2>1, <2>5, <3>1 DEF FreshStart, FrameTime, Position, PositionAt
    <2>. QED
      BY <1>1, <1>6, <2>3, <2>4, <2>5, NextLineMoves
  <1>7. CASE NextDot
    <2>1. /\ dot < Dots - 1 /\ dot' = dot + 1
          /\ type' = type /\ m_current_line' = m_current_line /\ m_odd_frame' = m_odd_frame
          /\ dot # Dots - 4 => m_skip_cycle' = m_skip_cycle
      BY <1>7 DEF NextDot
    <2>2. Started /\ elapsed' = elapsed + 1
      BY <1>2, <2>1, Geometry DEF Started, FrameBegins
    <2>3. Dots * (m_current_line + 1) \in Nat
      BY <1>2, OneMore, Geometry
    <2>4. Position \in Nat /\ Position' = Position + 1
      BY <1>2, <2>1, <2>3, Geometry DEF Position, PositionAt
    <2>5. FrameTime'
      BY <1>1, <1>4, <2>1, <2>2, <2>4 DEF FrameTime
    <2>6. FreshStart'
      BY <1>1, <1>2, <1>3, <2>1, Geometry DEF FreshStart
    <2>. QED
      BY <2>5, <2>6
  <1>. QED
    BY <1>5, <1>6, <1>7 DEF PpuCycle

(* After the flag's dot the PPU stays on line 241, or goes on to later lines. *)
LEMMA PpuKeepsRaced ==
    ASSUME Inv, FreshInv, PpuCycle, RecordPpu, raced'
    PROVE  /\ raced
           /\ \/ AtFlag' /\ dot' # 0
              \/ type' = "Idle" /\ m_current_line' > VBlankLine
              \/ type' = "PreRender" /\ dot' = 0
  <1>1. /\ PositionInv /\ TypeOK /\ Placed /\ FreshStart /\ RacedInVBlank
        /\ raced /\ ~VBlankEnds
        /\ dot \in 0..Dots /\ m_current_line \in Nat
    <2>1. PositionInv /\ TypeOK /\ Placed /\ FreshStart /\ RacedInVBlank
      BY DEF Inv, PositionInv, FreshInv
    <2>2. raced /\ ~VBlankEnds
      BY DEF RecordPpu
    <2>3. dot \in 0..Dots /\ m_current_line \in Nat
      BY <2>1, Geometry DEF TypeOK
    <2>. QED
      BY <2>1, <2>2, <2>3
  <1>2. Started
    BY <1>1 DEF FreshStart
  <1>3. \/ type = "Idle" /\ m_current_line >= VBlankLine
        \/ type = "PreRender" /\ dot = 0
    BY <1>1, Geometry DEF RacedInVBlank, AtFlag
  <1>4. CASE NextLine
    <2>1. type = "Idle" /\ m_current_line >= VBlankLine
      BY <1>1, <1>3, <1>4, NextLineMoves, Geometry
    <2>2. ~m_skip_cycle
      BY <1>1, <2>1 DEF PositionInv, ShortCycleUsedUp
    <2>3. dot' = 0
      BY <1>1, <1>4, <2>2, NextLineMoves, EnterLineTyped
    <2>4. type' = "PreRender" \/ (type' = "Idle" /\ m_current_line' = m_current_line + 1)
      BY <1>1, <1>4, <2>1, NextLineMoves
    <2>. QED
      BY <1>1, <2>1, <2>3, <2>4, Geometry
  <1>5. CASE NextDot
    <2>1. dot' = dot + 1 /\ type' = type /\ m_current_line' = m_current_line
      BY <1>5 DEF NextDot
    <2>2. type # "PreRender"
      BY <1>1, <1>3, <2>1 DEF VBlankEnds
    <2>. QED
      BY <1>1, <1>3, <2>1, <2>2, Geometry DEF AtFlag
  <1>. QED
    BY <1>2, <1>4, <1>5 DEF PpuCycle, FirstLine, Started

LEMMA PpuKeepsFresh ==
    ASSUME Inv, FreshInv, PpuCycle, RecordPpu
    PROVE  FreshInv'
  <1>1. /\ PositionInv /\ TypeOK /\ Placed /\ Record /\ VBlankWindow /\ LineHighOutsideVBlank
        /\ FreshStart /\ OwedInVBlank /\ RacedInVBlank /\ SuppressionIsLocal /\ RaceMeansNoNmi
        /\ dot \in 0..Dots /\ turn \in 0..3
    BY Geometry DEF Inv, PositionInv, NmiInv, FreshInv, TypeOK, RecordPpu
  <1>2. /\ nmi_enabled' = nmi_enabled /\ activity' = activity
        /\ turn > 0 /\ turn' = (turn + 1) % 4
    BY Geometry DEF PpuCycle, program
  <1>3. FreshStart' /\ FrameTime'
    BY PpuKeepsFreshStart
  <1>4. \/ EndsVBlank
        \/ BeginsVBlank
        \/ LeftAlone /\ ~(AtFlag /\ dot = 0) /\ ~(type = "PreRender" /\ dot = 0)
    BY <1>1, PpuHistoryStep
  <1>5. SuppressionIsLocal'
    <2>1. CASE EndsVBlank
      BY <1>1, <2>1 DEF EndsVBlank, SuppressionIsLocal
    <2>2. CASE BeginsVBlank
      BY <2>2 DEF BeginsVBlank, SuppressionIsLocal
    <2>3. CASE LeftAlone /\ ~(AtFlag /\ dot = 0)
      BY <1>1, <2>3 DEF LeftAlone, AtFlag, SuppressionIsLocal
    <2>. QED
      BY <1>4, <2>1, <2>2, <2>3
  <1>6. ASSUME ~BeginsVBlank
        PROVE  (Condition' => Condition)
    BY <1>2, <1>4, <1>6 DEF EndsVBlank, LeftAlone, Condition
  <1>7. ASSUME ~InVBlank' PROVE owed' # "now" /\ ~taken'
    <2>1. CASE EndsVBlank
      <3>1. VBlankEnds /\ ~Condition' /\ m_nmi_pending' = m_nmi_pending
        BY <2>1 DEF EndsVBlank, Condition
      <3>. QED
        BY <1>1, <3>1 DEF Record, TypeOK
    <2>2. CASE BeginsVBlank
      BY <1>7, <2>2 DEF BeginsVBlank, AtFlag, InVBlank
    <2>3. CASE /\ LeftAlone /\ ~(AtFlag /\ dot = 0) /\ ~(type = "PreRender" /\ dot = 0)
               /\ ~BeginsVBlank
      <3>2. ~InVBlank
        <4>1. ASSUME InVBlank PROVE InVBlank'
          <5>1. CASE FirstLine
            <6>1. type' = "PreRender" /\ (dot' = 0 \/ (m_skip_cycle /\ ~Started))
              BY <5>1 DEF FirstLine, EnterLine, Started
            <6>. QED
              BY <1>1, <6>1 DEF FreshStart, InVBlank
          <5>2. CASE NextLine
            <6>1. type = "Idle" /\ m_current_line \in Nat /\ m_current_line >= VBlankLine
                  /\ ~m_skip_cycle
              BY <1>1, <4>1, <5>2, NextLineMoves, Geometry
                 DEF InVBlank, TypeOK, PositionInv, ShortCycleUsedUp
            <6>2. dot' = 0
              BY <1>1, <5>2, <6>1, NextLineMoves, EnterLineTyped
            <6>3. type' = "PreRender" \/ (type' = "Idle" /\ m_current_line' = m_current_line + 1)
              BY <1>1, <5>2, <6>1, NextLineMoves
            <6>. QED
              BY <6>1, <6>2, <6>3, Geometry DEF InVBlank
          <5>3. CASE NextDot
            <6>1. dot' = dot + 1 /\ type' = type /\ m_current_line' = m_current_line
                  /\ dot < Dots - 1
              BY <5>3 DEF NextDot
            <6>2. ~(type = "PreRender" /\ dot = 0)
              BY <2>3
            <6>. QED
              BY <1>1, <4>1, <6>1, <6>2, Geometry DEF InVBlank
          <5>. QED
            BY <5>1, <5>2, <5>3 DEF PpuCycle
        <4>. QED
          BY <1>7, <4>1
      <3>3. owed # "now" /\ ~taken
        BY <1>1, <3>2 DEF OwedInVBlank
      <3>. QED
        BY <1>1, <1>2, <1>6, <2>3, <3>3, NothingNewOwed
    <2>. QED
      BY <1>4, <2>1, <2>2, <2>3
  <1>8. ASSUME NoSlotSinceFlag' PROVE ~taken' /\ (owed' = "now" => m_nmi_pending' /\ vblank')
    <2>1. CASE BeginsVBlank
      <3>1. ~InVBlank
        BY <2>1, Geometry DEF BeginsVBlank, AtFlag, InVBlank
      <3>2. owed # "now" /\ ~taken /\ ~Condition /\ m_nmi_line_state = 1
        BY <1>1, <3>1 DEF OwedInVBlank, LineHighOutsideVBlank
      <3>3. ~taken'
        BY <1>1, <1>2, <3>2 DEF Record, TypeOK
      <3>4. owed' = "now" => Condition'
        BY <1>1, <3>2 DEF Record
      <3>. QED
        BY <1>1, <1>2, <2>1, <3>2, <3>3, <3>4 DEF BeginsVBlank, Condition
    <2>2. CASE EndsVBlank
      BY <1>8, <2>2 DEF EndsVBlank, VBlankEnds, NoSlotSinceFlag, AtFlag
    <2>3. CASE LeftAlone /\ ~(AtFlag /\ dot = 0) /\ ~BeginsVBlank
      <3>1. NoSlotSinceFlag
        <4>1. AtFlag' /\ dot' # 0
          BY <1>8 DEF NoSlotSinceFlag
        <4>2. CASE NextLine
          <5>1. type = "Idle" \/ type = "Render"
            BY <1>1, <4>1, <4>2, NextLineMoves DEF AtFlag
          <5>2. CASE m_skip_cycle
            <6>1. type = "Render" /\ m_current_line' = RenderLines
              BY <1>1, <4>1, <4>2, <5>1, <5>2, NextLineMoves, Geometry
                 DEF AtFlag, PositionInv, ShortCycleUsedUp, TypeOK
            <6>. QED
              BY <4>1, <6>1, Geometry DEF AtFlag
          <5>3. CASE ~m_skip_cycle
            BY <1>1, <4>1, <4>2, <5>3, NextLineMoves, EnterLineTyped
          <5>. QED
            BY <5>2, <5>3
        <4>3. CASE NextDot
          <5>1. dot' = dot + 1 /\ type' = type /\ m_current_line' = m_current_line
            BY <4>3 DEF NextDot
          <5>. QED
            BY <1>1, <1>2, <1>8, <2>3, <4>1, <5>1 DEF NoSlotSinceFlag, AtFlag
        <4>4. CASE FirstLine
          BY <4>1, <4>4 DEF FirstLine, EnterLine, AtFlag
        <4>. QED
          BY <4>2, <4>3, <4>4 DEF PpuCycle
      <3>2. ~taken /\ (owed = "now" => m_nmi_pending /\ vblank)
        BY <1>1, <3>1 DEF OwedInVBlank
      <3>3. ~taken' /\ (owed' = "now" => owed = "now")
        BY <1>1, <1>2, <1>6, <2>3, <3>2, NothingNewOwed
      <3>. QED
        BY <2>3, <3>2, <3>3 DEF LeftAlone
    <2>. QED
      BY <1>4, <2>1, <2>2, <2>3
  <1>9. OwedInVBlank'
    BY <1>7, <1>8 DEF OwedInVBlank
  <1>10. RacedInVBlank'
    BY PpuKeepsRaced DEF RacedInVBlank
  <1>11. RaceMeansNoNmi'
    <2>. SUFFICES ASSUME raced' PROVE ~vblank' /\ ~taken' /\ owed' # "now"
      BY DEF RaceMeansNoNmi
    <2>1. raced /\ ~vblank /\ ~taken /\ owed # "now"
      BY <1>1, PpuKeepsRaced DEF RaceMeansNoNmi
    <2>2. ~vblank'
      <3>1. CASE BeginsVBlank
        <4>1. m_suppress_vbl
          BY <1>1, <2>1, <3>1, Geometry DEF BeginsVBlank, RacedInVBlank, AtFlag
        <4>. QED
          BY <2>1, <3>1, <4>1 DEF BeginsVBlank
      <3>2. CASE ~BeginsVBlank
        BY <1>4, <2>1, <3>2 DEF EndsVBlank, LeftAlone
      <3>. QED
        BY <3>1, <3>2
    <2>3. ~Condition'
      BY <2>2 DEF Condition
    <2>. QED
      BY <1>1, <1>2, <2>1, <2>2, <2>3, NothingNewOwed
  <1>. QED
    BY <1>3, <1>5, <1>9, <1>10, <1>11 DEF FreshInv

LEMMA InitFresh == Init => FreshInv
  <1>. SUFFICES ASSUME Init PROVE FreshInv
    OBVIOUS
  <1>1. /\ type = "PreRender" /\ dot = Dots /\ m_current_line = 0 /\ turn = 0
        /\ ~m_skip_cycle /\ ~m_suppress_vbl /\ ~vblank /\ ~raced /\ ~taken /\ owed = "no"
    BY DEF Init, NotStarted
  <1>2. FreshStart /\ FrameTime
    BY <1>1 DEF FreshStart, FrameTime, Started, NotStarted
  <1>3. OwedInVBlank /\ RacedInVBlank /\ SuppressionIsLocal /\ RaceMeansNoNmi
    BY <1>1
       DEF OwedInVBlank, RacedInVBlank, SuppressionIsLocal, RaceMeansNoNmi, NoSlotSinceFlag,
           AtFlag
  <1>. QED
    BY <1>2, <1>3 DEF FreshInv

(* A reset is counted, so what holds before the first need not outlast it. *)
LEMMA NextFresh ==
    ASSUME Inv, resets = 0 => FreshInv, [Next]_vars
    PROVE  resets' = 0 => FreshInv'
  <1>1. resets \in Nat
    BY BoundAssumption DEF Inv, PositionInv, TypeOK
  <1>2. CASE CpuCycle /\ RecordCpu
    BY <1>2, CpuKeepsFresh DEF CpuCycle
  <1>3. CASE PpuCycle /\ RecordPpu
    BY <1>3, PpuKeepsFresh DEF PpuCycle
  <1>4. CASE SoftReset /\ RecordPpu
    BY <1>1, <1>4 DEF SoftReset
  <1>5. CASE UNCHANGED vars
    BY <1>5
       DEF vars, program, interrupt, position, registers, history, FreshInv, FreshStart,
           FrameTime, Started, Position, OwedInVBlank, InVBlank, NoSlotSinceFlag, AtFlag,
           RacedInVBlank, SuppressionIsLocal, RaceMeansNoNmi
  <1>. QED
    BY <1>2, <1>3, <1>4, <1>5 DEF Next

LEMMA AlwaysFresh == Spec => [](resets = 0 => FreshInv)
  <1>1. Init => (resets = 0 => FreshInv)
    BY InitFresh
  <1>2. Inv /\ (resets = 0 => FreshInv) /\ [Next]_vars => (resets = 0 => FreshInv)'
    BY NextFresh
  <1>. QED
    BY <1>1, <1>2, AlwaysInv, PTL DEF Spec

(***************************************************************************)
(* Until the console is reset, a request of status_read to suppress the    *)
(* flag is used up by scanline<Idle> in the very next dot, in a frame of   *)
(* any size: none lingers to swallow a later vertical blank.               *)
(***************************************************************************)
THEOREM SuppressionUsedUp == Spec => [](resets = 0 => SuppressionIsLocal)
  <1>1. (resets = 0 => FreshInv) => (resets = 0 => SuppressionIsLocal)
    BY DEF FreshInv
  <1>. QED
    BY <1>1, AlwaysFresh, PTL

(***************************************************************************)
(* Until the console is reset, a read of $2002 in the dot before the flag  *)
(* is set or in one of the two dots after costs the program the flag and   *)
(* the NMI of that frame, whichever instructions it executes and whatever  *)
(* it writes to $2000 around that read.                                    *)
(***************************************************************************)
THEOREM RaceCostsTheFrame == Spec => [](resets = 0 => RaceMeansNoNmi)
  <1>1. (resets = 0 => FreshInv) => (resets = 0 => RaceMeansNoNmi)
    BY DEF FreshInv
  <1>. QED
    BY <1>1, AlwaysFresh, PTL

(***************************************************************************)
(* A console that was not reset emits frames of Dots * Lines dots, or of    *)
(* one dot less where m_odd_frame is set, for every size of the frame and  *)
(* however the program switches rendering: the skipped cycle of            *)
(* scanline<Type> is never lost and never taken twice.                     *)
(***************************************************************************)
THEOREM FramesOnTime == Spec => FrameLength
  <1>1. ASSUME Inv, FreshInv, Next, FrameBegins, dot # NotStarted, turn > 0
        PROVE  \/ elapsed + 1 = Dots * Lines
               \/ elapsed + 1 = Dots * Lines - 1 /\ m_odd_frame
    <2>1. TypeOK /\ Placed /\ FrameTime /\ Started /\ PpuCycle
      BY <1>1
         DEF Inv, PositionInv, FreshInv, Started, Next, CpuCycle, SoftReset
    <2>2. type # "PreRender" /\ type' = "PreRender"
      BY <1>1 DEF FrameBegins
    <2>3. /\ NextLine /\ dot = Dots - 1
      BY <2>1, <2>2 DEF PpuCycle, NextDot, FirstLine, NextLine, Started
    <2>4. type = "Idle" /\ m_current_line' = PreRenderLine /\ m_current_line + 1 = PreRenderLine
      BY <2>1, <2>2, <2>3, Geometry DEF NextLine, EnterLine
    <2>5. Dots * Lines = Dots * (m_current_line + 1) + Dots
          /\ Dots * (m_current_line + 1) \in Nat
      BY <2>4, OneMore, Geometry DEF Lines
    <2>6. Position + 1 = Dots * Lines /\ Position \in Nat
      BY <2>2, <2>3, <2>5, Geometry DEF Position, PositionAt
    <2>. QED
      BY <2>1, <2>6 DEF FrameTime
  <1>2. ASSUME Inv, resets = 0 => FreshInv, [Next]_vars
        PROVE  [FrameBegins /\ dot # NotStarted /\ turn > 0 /\ resets = 0
                 => \/ elapsed + 1 = Dots * Lines
                    \/ elapsed + 1 = Dots * Lines - 1 /\ m_odd_frame]_vars
    BY <1>1, <1>2
  <1>. QED
    BY <1>2, AlwaysInv, AlwaysFresh, PTL DEF Spec, FrameLength

=============================================================================
