-------------------------------- MODULE MCPpu --------------------------------
(***************************************************************************)
(* Model checking of the PPU's registers and scanlines.  The line is 8     *)
(* tiles wide and the frame 12 lines high; positions are chosen so that    *)
(* within them rows and columns wrap.  Families of cases:                  *)
(*   scroll: what the program may do to the scrolling registers during the *)
(*         vertical blank, then a frame;                                   *)
(*   high: the same after a use of $2007 at $7FFF;                         *)
(*   split: two uses of registers on some lines, and the frames after;     *)
(*   port: sequences around $2006 and $2007, the PPU standing still;       *)
(*   sprites: contents of OAM and masks, with a frame and its blank;       *)
(*   oam: the ways into OAM, during rendering and outside of it.           *)
(***************************************************************************)
EXTENDS PpuRender

NoSprites == [a \in 0..(OamSize - 1) |-> 255]

(* Sprites at the heights ys, the others at 255. *)
OamOf(ys, t, attributes, x) ==
    [a \in 0..(OamSize - 1) |->
        CASE a % 4 = 0 -> (IF a \div 4 < Len(ys) THEN ys[(a \div 4) + 1] ELSE 255)
          [] a % 4 = 1 -> t [] a % 4 = 2 -> attributes [] OTHER -> x]

Base == [v |-> 0, w |-> {FALSE}, ctrl |-> 0, mask |-> 30, oam_addr |-> 0, oam |-> NoSprites,
         page |-> NoSprites, solid |-> {}, accesses |-> {}, limit |-> 0,
         lines |-> {PreRenderLine - 1}, frames |-> 2]

Screen == 0..31

ScrollCases ==
    {[Base EXCEPT !.v = start, !.w = BOOLEAN, !.limit = 4,
        !.accesses = {<<"status">>, <<"scroll", 221>>, <<"scroll", 245>>, <<"ctrl", 2>>,
                      <<"addr", 35>>}] : start \in {0, 30719}}

HighCases ==
    {[Base EXCEPT !.v = 32767, !.limit = 5,
        !.accesses = {<<"status">>, <<"scroll", 221>>, <<"ctrl", 2>>, <<"data">>}]}

SplitCases ==
    {[Base EXCEPT !.limit = 2, !.frames = 3, !.lines = {7, PreRenderLine - 1, PreRenderLine},
        !.accesses = {<<"status">>, <<"ctrl", 1>>, <<"scroll", 4>>, <<"data">>}]}

PortCases ==
    {[Base EXCEPT !.v = start, !.w = BOOLEAN, !.limit = 6, !.frames = 0, !.mask = 0,
        !.accesses = {<<"status">>, <<"ctrl", 4>>, <<"data">>, <<"data", 21>>,
                      <<"addr", 63>>} \cup more] :
            start \in {0, 32767, 12031},
            more \in {{<<"addr", 16>>}, {<<"addr", 47>>, <<"addr", 255>>}}}

OneSprite ==
    {[Base EXCEPT !.oam = OamOf(<<y>>, t, a, x), !.mask = mask, !.solid = solid] :
        y \in {2, 10, 11}, t \in {1, 2}, a \in {0, 64}, x \in {5, 57},
        mask \in {24, 30}, solid \in {Screen, {7}}}
    \cup {[Base EXCEPT !.oam = OamOf(<<y>>, t, 0, x), !.mask = mask, !.solid = Screen,
             !.ctrl = 32] : y \in {0, 5}, t \in {0, 1}, x \in {0, 63}, mask \in {8, 22, 26, 30}}

Crowds ==
    {[Base EXCEPT !.oam = OamOf(ys, t, a, 30), !.solid = {4}] :
        t \in {1, 2}, a \in {0, 247},
        ys \in {<<3, 3, 3, 3, 3, 3, 3, 3>>, <<3, 3, 3, 3, 3, 3, 3, 3, 3>>,
                <<3, 3, 3, 3, 3, 3, 3, 3, 99, 3>>, <<3, 3, 99, 3, 3, 3, 3, 3, 3, 3>>,
                <<30, 30, 30, 30, 30, 30, 30, 30, 30>>,
                <<0, 1, 2, 3, 4, 5, 6, 7, 8, 9>>}}

OamCases ==
    {[Base EXCEPT !.oam_addr = addr, !.limit = 3, !.frames = 1, !.mask = mask, !.lines = lines,
        !.page = OamOf(<<1>>, 2, 255, 3),
        !.accesses = {<<"oam_addr", 2>>, <<"oam_data">>, <<"oam_data", 31>>, <<"dma">>,
                      <<"mask", 8>>, <<"invalid", 9>>, <<"decay">>}] :
            addr \in {0, 2, OamSize - 1}, mask \in {0, 30},
            lines \in {{0}, {PreRenderLine - 1}, {PreRenderLine}}}

MCCases ==
    ScrollCases \cup HighCases \cup SplitCases \cup PortCases \cup OneSprite \cup Crowds \cup OamCases
=============================================================================
