------------------------------ MODULE PpuRender ------------------------------
(***************************************************************************)
(* The scanlines of the PPU, with the CPU using its registers in between:  *)
(* PPU::scanline with the fetches of the background, the scrolling of m_v, *)
(* the evaluation and prefetch of sprites, and the two sprite flags.  An   *)
(* action is the code between two yields that anything can tell apart;     *)
(* m_clocks is the dot of the first of them, and Dots are all those until  *)
(* the next action.                                                        *)
(*                                                                         *)
(* Tile data is abstracted: a tile stands for the addresses its parts were *)
(* fetched from, and its pixels are opaque or not.  The vertical blank     *)
(* flag and the dot left out of odd frames are in VBlankNmi.               *)
(***************************************************************************)
EXTENDS PpuRegs

VARIABLES
    place, tile,     (* place in scanline, and the tile it is at             *)
    m_clocks,
    fetched,         (* m_prefetched_bg_*, m_prefetched_at_*                 *)
    shift,           (* m_tile_bmp_* and m_attr_*: tile shifted out, tile in *)
    m_secondary_oam, m_prefetched_sprites,
    m_sprite0_hit_cycle, m_sprite_overflow_cycle,
    frames,
    drawn,           (* history: the last eight pixels                       *)
    origin           (* history: what the program had set as the frame began *)

pipeline == <<fetched, shift, drawn>>
sprites == <<m_secondary_oam, m_prefetched_sprites>>
flags == <<m_sprite0_hit_cycle, m_sprite_overflow_cycle>>
render == <<place, tile, m_clocks, pipeline, sprites, flags, frames, m_current_line, origin>>
untouched == <<m_t, m_x, m_w, memory, oams, m_decay, m_ctrl, m_mask, case, accesses>>
vars == <<regs, case, render>>

Never == 1000000                      \* UINT_MAX
NoTile == [nt |-> 0, fine |-> 0, attr |-> 0, quadrant |-> 0]
NoSprite == [y |-> 0, tile |-> 0, attributes |-> 0, x |-> 0]

IsRender == m_current_line < RenderLines
IsPreRender == m_current_line = PreRenderLine

-----------------------------------------------------------------------------
(***************************************************************************)
(* Scrolling.                                                              *)
(***************************************************************************)
coarse_x_increment(v) ==
    IF CoarseX(v) # 31 THEN v + 1
    ELSE IF BitOf(v, 10) = 0 THEN v - 31 + 1024 ELSE v - 31 - 1024

y_increment(v) ==
    IF FineY(v) # 7 THEN v + 4096
    ELSE LET flipped == (NameTable(v) + 2) % 4
         IN IF CoarseY(v) = 29 THEN Fields(Top(v), 0, flipped, 0, CoarseX(v))
            ELSE Fields(Top(v), 0, NameTable(v), (CoarseY(v) + 1) % 32, CoarseX(v))

reset_horizontal_scroll(v) ==
    Fields(Top(v), FineY(v), (2 * (NameTable(v) \div 2)) + (NameTable(m_t) % 2),
           CoarseY(v), CoarseX(m_t))

reset_vertical_scroll(v) ==
    Fields(Top(v), FineY(m_t), (2 * (NameTable(m_t) \div 2)) + (NameTable(v) % 2),
           CoarseY(m_t), CoarseX(v))

Scrolled(v) == IF rendering_enabled THEN coarse_x_increment(v) ELSE v

(***************************************************************************)
(* fetch_next_tile in two parts: the name and the row of its pattern from  *)
(* m_v, two dots later the attributes from what m_v is then, of which the  *)
(* coarse position of the first read selects a quadrant.                   *)
(***************************************************************************)
NameFetched(v) ==
    [nt |-> 8192 + (32768 * Top(v)) + (v % 4096), fine |-> FineY(v), attr |-> 0,
     quadrant |-> (2 * ((CoarseY(v) \div 2) % 2)) + ((CoarseX(v) \div 2) % 2)]

AttributeFetched(v) ==
    [fetched EXCEPT !.attr = 9152 + (1024 * NameTable(v)) + (8 * (CoarseY(v) \div 4))
                             + (CoarseX(v) \div 4)]

-----------------------------------------------------------------------------
(***************************************************************************)
(* sprite_evaluation: found[i] are the sprites among the first i.  Once    *)
(* eight are found, do_buggy_overflow_evaluation goes on at the next one,  *)
(* with its index into the sprite moving along.                            *)
(***************************************************************************)
InRange(y, line, height) == y <= line /\ line < y + height /\ y # 255

Marked(a) == IF BitOf(a, 3) = 1 THEN a ELSE a + 8
Unmarked(a) == IF BitOf(a, 3) = 1 THEN a - 8 ELSE a

SpriteOf(i) ==
    [y |-> oam[4 * i], tile |-> oam[(4 * i) + 1], x |-> oam[(4 * i) + 3],
     attributes |-> IF i = 0 THEN Marked(oam[2]) ELSE Unmarked(oam[(4 * i) + 2])]

found[i \in 0..Sprites] ==
    IF i = 0 THEN <<>>
    ELSE LET before == found[i - 1]
         IN IF Len(before) < 8 /\ InRange(oam[4 * (i - 1)], m_current_line, sprite_height)
            THEN Append(before, SpriteOf(i - 1)) ELSE before

EmptySlot == [y |-> 255, tile |-> 255, attributes |-> 255, x |-> 255]
sprite_evaluation ==
    LET all == found[Sprites]
    IN [j \in 1..8 |-> IF j <= Len(all) THEN all[j] ELSE EmptySlot]

OverflowDot(n) == 65 + 48 + (2 * n) + 1

do_buggy_overflow_evaluation ==
    LET full == {i \in 8..(Sprites - 1) : Len(found[i]) = 8}
        start == CHOOSE i \in full : \A k \in full : i <= k
        hits == {n \in full : InRange(oam[(4 * n) + ((n - start) % 4)],
                                      m_current_line, sprite_height)}
    IN IF hits = {} THEN Never
       ELSE OverflowDot(CHOOSE n \in hits : \A k \in hits : n <= k)

Earlier(a, b) == IF a < b THEN a ELSE b

(***************************************************************************)
(* prefetch_sprites: slots whose sprite would begin below the picture are  *)
(* marked invalid and keep the rest of what they held.                     *)
(***************************************************************************)
prefetch_sprites ==
    [j \in 1..8 |-> IF m_secondary_oam[j].y >= RenderLines - 1
                    THEN [m_prefetched_sprites[j] EXCEPT !.attributes = 255]
                    ELSE m_secondary_oam[j]]

-----------------------------------------------------------------------------
(***************************************************************************)
(* render_tile: which of the eight pixels of tile k are opaque in the      *)
(* background and in a sprite, and where sprite 0 hits.  Tile 1 is opaque, *)
(* tile 2 in its left half, tile 0 nowhere; a nametable is opaque in the   *)
(* columns case.solid.  A sprite is passed over where it is transparent;   *)
(* the first that is not decides, hit or no hit.                           *)
(***************************************************************************)
Pixel(k, i) == (8 * k) + i
ShownTile(pair, fine_x, i) == IF i + fine_x < 8 THEN pair[1] ELSE pair[2]

Shows(layer, left, k) == BitOf(m_mask, layer) = 1 /\ (k # 0 \/ BitOf(m_mask, left) = 1)

OpaqueAt(t, column) == t = 1 \/ (t = 2 /\ column < 4)

SpriteOpaque(s, x) ==
    /\ s.attributes # 255
    /\ x >= s.x /\ x < s.x + 8
    /\ OpaqueAt(s.tile, IF BitOf(s.attributes, 6) = 1 THEN 7 - (x - s.x) ELSE x - s.x)

HitsIn(k, pair) ==
    {x \in Pixel(k, 0)..Pixel(k, 7) :
        LET over == {j \in 1..8 : SpriteOpaque(m_prefetched_sprites[j], x)}
        IN /\ Shows(4, 2, k) /\ Shows(3, 1, k)
           /\ over # {}
           /\ LET first == CHOOSE j \in over : \A n \in over : j <= n
              IN BitOf(m_prefetched_sprites[first].attributes, 3) = 1
           /\ (ShownTile(pair, m_x, x % 8).nt % 32) \in case.solid
           /\ x # (8 * Tiles) - 1}

HitCycle(k, pair) ==
    LET hits == HitsIn(k, pair)
    IN IF m_sprite0_hit_cycle # Never \/ hits = {} THEN m_sprite0_hit_cycle
       ELSE (CHOOSE x \in hits : \A n \in hits : x <= n) + 1

render_tile(k, pair) ==
    IF IsRender
    THEN /\ drawn' = [line |-> m_current_line, column |-> k, pair |-> pair, x |-> m_x]
         /\ shift' = <<pair[2], NoTile>>
         /\ m_sprite0_hit_cycle' = HitCycle(k, pair)
    ELSE /\ shift' = pair
         /\ UNCHANGED <<drawn, m_sprite0_hit_cycle>>

Reloaded == <<shift[1], fetched>>

-----------------------------------------------------------------------------
(***************************************************************************)
(* A step of the PPU.  While it renders it moves m_v, so the program no    *)
(* longer knows where $2007 points.                                        *)
(***************************************************************************)
Step(from, to, k, dots) ==
    /\ frames < case.frames
    /\ place = from /\ place' = to
    /\ tile' = k
    /\ m_clocks' = m_clocks + dots
    /\ UNCHANGED untouched

Forgets == Knows(IF m_v' = m_v THEN <<>> ELSE [pointer |-> Unknown])

(***************************************************************************)
(* The first dot after the idle one: evaluation, the first tile, and the   *)
(* first name.                                                             *)
(***************************************************************************)
LineBegins ==
    /\ ~Blank
    /\ Step("idle", "attribute", 0, 1)
    /\ IF rendering_enabled
       THEN /\ m_secondary_oam' = sprite_evaluation
            /\ m_sprite_overflow_cycle' =
                   Earlier(m_sprite_overflow_cycle, do_buggy_overflow_evaluation)
       ELSE UNCHANGED <<m_secondary_oam, m_sprite_overflow_cycle>>
    /\ render_tile(0, shift)
    /\ fetched' = NameFetched(m_v)
    /\ IF IsPreRender
       THEN /\ calm' = rendering_enabled
            /\ origin' = [program |-> program, oam |-> oam, mask |-> m_mask,
                          height |-> sprite_height]
       ELSE UNCHANGED <<calm, origin>>
    /\ UNCHANGED <<m_v, m_prefetched_sprites, frames, m_current_line, program>>

FetchAttribute ==
    /\ Step("attribute", "next", tile, 2)
    /\ fetched' = AttributeFetched(m_v)
    /\ UNCHANGED <<m_v, shift, drawn, sprites, flags, frames, m_current_line, program,
                   calm, origin>>

(* The end of a fetch, the next tile and the next name. *)
NextTile ==
    /\ tile < Tiles - 1
    /\ Step("next", "attribute", tile + 1, 6)
    /\ m_v' = Scrolled(m_v)
    /\ render_tile(tile + 1, Reloaded)
    /\ fetched' = NameFetched(m_v')
    /\ Forgets
    /\ UNCHANGED <<sprites, m_sprite_overflow_cycle, frames, m_current_line, calm, origin>>

(* After the last tile of the line: m_v moves down and back to the left. *)
LastTile ==
    /\ tile = Tiles - 1
    /\ Step("next", "sprites", tile, 6)
    /\ m_v' = IF rendering_enabled
              THEN reset_horizontal_scroll(y_increment(coarse_x_increment(m_v)))
              ELSE m_v
    /\ shift' = Reloaded
    /\ Forgets
    /\ UNCHANGED <<fetched, drawn, sprites, flags, frames, m_current_line, calm, origin>>

(***************************************************************************)
(* Eight sprites are fetched; on the pre-render line m_v goes to the top;  *)
(* the first two tiles of the next line are fetched.                       *)
(***************************************************************************)
PrefetchSprites ==
    /\ Step("sprites", "attribute", Tiles, 64)
    /\ m_prefetched_sprites' = prefetch_sprites
    /\ m_v' = IF IsPreRender /\ rendering_enabled THEN reset_vertical_scroll(m_v) ELSE m_v
    /\ fetched' = NameFetched(m_v')
    /\ Forgets
    /\ UNCHANGED <<shift, drawn, m_secondary_oam, flags, frames, m_current_line, calm, origin>>

NextLineTile ==
    /\ tile = Tiles
    /\ Step("next", "attribute", tile + 1, 6)
    /\ m_v' = Scrolled(m_v)
    /\ shift' = <<fetched, NoTile>>
    /\ fetched' = NameFetched(m_v')
    /\ Forgets
    /\ UNCHANGED <<drawn, sprites, flags, frames, m_current_line, calm, origin>>

LastFetch ==
    /\ tile = Tiles + 1
    /\ Step("next", "unused", tile, 6)
    /\ m_v' = Scrolled(m_v)
    /\ shift' = Reloaded
    /\ Forgets
    /\ UNCHANGED <<fetched, drawn, sprites, flags, frames, m_current_line, calm, origin>>

(***************************************************************************)
(* The end of a line: the next one begins, and flags not read yet are made *)
(* to show from its first dot.  The pre-render line clears them.           *)
(***************************************************************************)
(* A slip to be caught: the dots of the flags are left as they are. *)
FlagsLeft(cycle) == cycle

set_unread_flags(cycle) == IF cycle = Never THEN Never ELSE 0

LineEnds ==
    LET line == IF IsPreRender THEN 0 ELSE m_current_line + 1
    IN /\ m_current_line' = line
       /\ m_sprite0_hit_cycle' =
              IF line = PreRenderLine THEN Never ELSE set_unread_flags(m_sprite0_hit_cycle)
       /\ m_sprite_overflow_cycle' =
              IF line = PreRenderLine THEN Never ELSE set_unread_flags(m_sprite_overflow_cycle)
       /\ frames' = IF line = PreRenderLine THEN frames + 1 ELSE frames
       /\ UNCHANGED <<m_v, pipeline, sprites, program, calm, origin>>

EndLine == Step("unused", "idle", 0, -m_clocks) /\ LineEnds
IdleLine == Blank /\ Step("idle", "idle", 0, 0) /\ LineEnds

PpuStep ==
    \/ LineBegins \/ FetchAttribute \/ NextTile \/ LastTile \/ PrefetchSprites
    \/ NextLineTile \/ LastFetch \/ EndLine \/ IdleLine

Init ==
    /\ RegsInit
    /\ m_current_line = PreRenderLine - 1
    /\ place = "idle" /\ tile = 0 /\ m_clocks = 0
    /\ fetched = NoTile /\ shift = <<NoTile, NoTile>>
    /\ m_secondary_oam = [j \in 1..8 |-> NoSprite]
    /\ m_prefetched_sprites = [j \in 1..8 |-> NoSprite]
    /\ m_sprite0_hit_cycle = Never /\ m_sprite_overflow_cycle = Never
    /\ frames = 0
    /\ drawn = [line |-> PreRenderLine, column |-> 0, pair |-> shift, x |-> 0]
    /\ origin = [program |-> program, oam |-> oam, mask |-> m_mask, height |-> sprite_height]

Next == PpuStep \/ (CpuAccess /\ UNCHANGED render)

Spec == Init /\ [][Next]_vars

-----------------------------------------------------------------------------
(* The variables hold values of their C++ types, m_v and m_t 16 bits. *)
TypeOK ==
    /\ RegsTypeOK
    /\ m_current_line \in 0..PreRenderLine
    /\ place \in {"idle", "attribute", "next", "sprites", "unused"}
    /\ tile \in 0..(Tiles + 1)
    /\ m_clocks \in 0..340
    /\ m_sprite0_hit_cycle \in 0..(8 * Tiles) \cup {Never}
    /\ m_sprite_overflow_cycle \in 0..OverflowDot(Sprites) \cup {Never}

(***************************************************************************)
(* The row of tiles that belongs at a line, if the program has set the     *)
(* scroll position to y, and how many nametables lie above it: they have   *)
(* 30 rows; a position set below row 30 goes down to row 31 and wraps      *)
(* without leaving its nametable.                                          *)
(***************************************************************************)
RowAt(y, line) ==
    LET down == (y + line) \div 8
    IN IF y < 240 THEN down % 30 ELSE IF down < 32 THEN down ELSE (down - 32) % 30

RowsFlipped(y, line) ==
    LET down == (y + line) \div 8
    IN IF y < 240 THEN down \div 30 ELSE IF down < 32 THEN 0 ELSE (down - 32) \div 30

(* The tile at a line and a column, of the 64 that two nametables side by side have. *)
TileAt(at, line, column) ==
    LET cx == column % 32
        cy == RowAt(at.y, line)
        nt == ((column \div 32) % 2) + (2 * (((at.nt \div 2) + RowsFlipped(at.y, line)) % 2))
    IN [nt |-> 8192 + (1024 * nt) + (32 * cy) + cx,
        fine |-> (at.y + line) % 8,
        attr |-> 9152 + (1024 * nt) + (8 * (cy \div 4)) + (cx \div 4),
        quadrant |-> (2 * ((cy \div 2) % 2)) + ((cx \div 2) % 2)]

(* The tile that belongs at pixel x of a line. *)
Expected(line, x) ==
    LET at == origin.program
    IN TileAt(at, line, (32 * (at.nt % 2)) + ((at.x + x) \div 8))

ScrollKnown ==
    /\ origin.program.x # Unknown /\ origin.program.y # Unknown
    /\ origin.program.nt # Unknown

(***************************************************************************)
(* A use of $2007 at $7FFF takes m_v to bit 15, which no scrolling clears  *)
(* and no fetch but that of the name masks.                                *)
(***************************************************************************)
Raised(t, top) == [t EXCEPT !.nt = @ + (32768 * top)]

(***************************************************************************)
(* A program that has set the scroll position with $2005 and $2000, in     *)
(* whatever order and with other registers in between, and leaves the      *)
(* registers alone while the frame is drawn, sees the picture there: the   *)
(* tiles of every line are drawn one by one, and every pixel comes from    *)
(* the tile, the row of its pattern and the attributes of its place.  If   *)
(* it has used $2007 up to $7FFF and beyond, the names are fetched 32 KB   *)
(* higher, above the bus; rows, columns, nametables and attributes are     *)
(* still those of the place, as the increments do not see bit 15.          *)
(***************************************************************************)
PictureScrolls ==
    calm /\ ScrollKnown /\ IsRender /\ place # "idle" =>
        /\ drawn.line = m_current_line /\ drawn.column = Earlier(tile, Tiles - 1)
        /\ \A i \in 0..7 :
              ShownTile(drawn.pair, drawn.x, i) =
                  Raised(Expected(drawn.line, Pixel(drawn.column, i)), Top(m_v))

(***************************************************************************)
(* The dots at which $2002 may be read before the next step, and what the  *)
(* picture of the frame says about sprite 0 and about overflow.            *)
(***************************************************************************)
Dots ==
    m_clocks..(m_clocks + CASE place = "idle" -> (IF Blank THEN 3 ELSE 0)
                            [] place = "attribute" -> 1 [] place = "next" -> 5
                            [] place = "sprites" -> 63 [] OTHER -> 3)

MaskBit(i) == BitOf(origin.mask, i) = 1

Hits ==
    LET y == origin.oam[0]
        at == origin.oam[3]
        flip == BitOf(origin.oam[2], 6) = 1
    IN {p \in ((y + 1)..(y + origin.height)) \X (at..(at + 7)) :
           /\ p[1] < RenderLines /\ p[2] < (8 * Tiles) - 1 /\ y < RenderLines - 1
           /\ MaskBit(3) /\ MaskBit(4) /\ (p[2] < 8 => MaskBit(1) /\ MaskBit(2))
           /\ OpaqueAt(origin.oam[1], IF flip THEN 7 - (p[2] - at) ELSE p[2] - at)
           /\ Expected(p[1], p[2]).nt % 32 \in case.solid}

Crowd(line) ==
    {i \in 0..(Sprites - 1) : InRange(origin.oam[4 * i], line, origin.height)}

NinthFollows(line) ==
    \E i \in Crowd(line) :
        Cardinality({k \in Crowd(line) : k < i}) = 8 /\ i - 1 \in Crowd(line)

Before(p, dot) == p[1] < m_current_line \/ (p[1] = m_current_line /\ p[2] < dot)

(* The lines of the picture whose sprites have been evaluated, or are about to be. *)
LinesBegun == {line \in 0..(RenderLines - 1) : ~IsPreRender /\ line <= m_current_line}

(***************************************************************************)
(* The sprite flags a read of $2002 shows at any dot, against the picture: *)
(* sprite 0 has hit if an opaque pixel of it lies on an opaque pixel of    *)
(* the background at a place already drawn; overflow is reported at the    *)
(* latest when a line had eight sprites and the next one in OAM was in     *)
(* range too, and, for a program that keeps all but seven sprites off the  *)
(* pre-render line, not unless some line of the picture had eight.  Both   *)
(* stay until the next pre-render line.                                    *)
(***************************************************************************)
FlagsOnTime ==
    calm /\ ScrollKnown /\ Marked(origin.oam[2]) # 255 =>
        \A dot \in Dots :
            /\ dot >= m_sprite0_hit_cycle
                  <=> ~IsPreRender /\ (\E p \in Hits : Before(p, dot))
            /\ dot >= m_sprite_overflow_cycle /\ Cardinality(Crowd(PreRenderLine)) < 8
                  => \E line \in LinesBegun : Cardinality(Crowd(line)) >= 8
            /\ ~IsPreRender /\ (\E line \in 0..(RenderLines - 1) :
                                   line < m_current_line /\ NinthFollows(line))
                  => dot >= m_sprite_overflow_cycle

(***************************************************************************)
(* What the comment in sprite_evaluation says of the pre-render line, that *)
(* only the tiles of sprites are fetched there: no read of $2002 on that   *)
(* line shows an overflow.  The code evaluates sprites there as well.      *)
(***************************************************************************)
PreRenderOnlyFetches ==
    IsPreRender => \A dot \in Dots : dot < m_sprite_overflow_cycle
=============================================================================
