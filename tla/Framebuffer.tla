----------------------------- MODULE Framebuffer -----------------------------
(***************************************************************************)
(* The framebuffer and what the two daemons draw on it.  A byte holds two  *)
(* pixels: it is the pair <<left, right>> of 4-bit values, 0 for white and *)
(* 15 for black.  A pixmap is a record of width, height and surf, the      *)
(* bytes row by row.  The e-ink panel shows what the last update of an     *)
(* area found in the framebuffer.                                          *)
(***************************************************************************)
EXTENDS Integers, Sequences, FiniteSets, FiniteSetsExt

CONSTANTS
  XRES, YRES,                \* the screen (600 x 800 or 824 x 1200)
  STATUSBAR_HEIGHT,          \* rows of the C daemon's bar (30)
  STATUS_BAR_HEIGHT,         \* rows of the C++ daemon's bar (24)
  TEXT_X,                    \* column where the text begins (30)
  FNTWIDTH, FNTHEIGHT,       \* a glyph (12 x 22)
  default_font               \* per character its bytes, row by row

\* Screens of the devices have an even number of columns, so that a row ends
\* with a byte; the bar is lower than the screen and a glyph than the bar.
ASSUME FramebufferAssumption ==
  /\ {XRES, YRES, FNTWIDTH, FNTHEIGHT} \subseteq Nat \ {0}
  /\ TEXT_X \in Nat
  /\ XRES % 2 = 0 /\ FNTWIDTH % 2 = 0 /\ FNTWIDTH > 2
  /\ STATUSBAR_HEIGHT \in 1..YRES /\ STATUS_BAR_HEIGHT \in 1..YRES
  /\ FNTHEIGHT <= STATUSBAR_HEIGHT /\ FNTHEIGHT < STATUS_BAR_HEIGHT

Byte == (0..15) \X (0..15)

stride(width) == (width + 1) \div 2

\* The font has a first character, and every glyph all its bytes.
ASSUME FontAssumption ==
  /\ 0 \in DOMAIN default_font
  /\ \A c \in DOMAIN default_font :
       default_font[c] \in [0..(stride(FNTWIDTH) * FNTHEIGHT - 1) -> Byte]

Pixmap(width, height, surf) == [width |-> width, height |-> height, surf |-> surf]

\* The row and the byte column of the byte at index i.
RowOf(p, i) == i \div stride(p.width)
ColumnOf(p, i) == i % stride(p.width)

-----------------------------------------------------------------------------
(* pixop.c.                                                                *)

\* malloc() failed.
NULL == Pixmap(0, 0, <<>>)

pixbuf_alloc(w, h) == Pixmap(w, h, [i \in 0..(stride(w) * h - 1) |-> <<0, 0>>])

\* Columns and rows are clipped to the pixmap, the column made even.
pix_fill(dst, bx, by, wd, ht, color) ==
  LET left   == Max({bx - (bx % 2), 0})
      top    == Max({by, 0})
      right  == Min({bx - (bx % 2) + wd, dst.width})
      bottom == Min({by + ht, dst.height})
      columns == left \div 2 .. left \div 2 + stride(right - left) - 1
  IN  IF dst = NULL \/ right <= left \/ bottom <= top THEN dst
      ELSE [dst EXCEPT !.surf = [i \in DOMAIN @ |->
              IF RowOf(dst, i) \in top..(bottom - 1) /\ ColumnOf(dst, i) \in columns
                THEN <<color % 16, color % 16>> ELSE @[i]]]

\* memcpy of n_lines times n_bytes from byte column sx, row sy of src to byte
\* column dx, row dy of dst.
Copy(dst, dx, dy, src, sx, sy, n_bytes, n_lines) ==
  [dst EXCEPT !.surf = [i \in DOMAIN @ |->
     LET r == RowOf(dst, i)
         c == ColumnOf(dst, i)
     IN  IF r \in dy..(dy + n_lines - 1) /\ c \in dx..(dx + n_bytes - 1)
           THEN src.surf[(r - dy + sy) * stride(src.width) + (c - dx + sx)]
           ELSE @[i]]]

pix_blt(dst, bx, by, src) ==
  LET x       == (bx - (bx % 2)) \div 2
      dx      == Max({x, 0})
      dy      == Max({by, 0})
      n_bytes == Min({stride(src.width) + Min({x, 0}), stride(dst.width) - dx})
      n_lines == Min({src.height + Min({by, 0}), dst.height - dy})
  IN  IF dst = NULL \/ src = NULL \/ n_bytes <= 0 \/ n_lines <= 0 THEN dst
      ELSE Copy(dst, dx, dy, src, dx - x, dy - by, n_bytes, n_lines)

pixmap_xtract(dst, bx, by, src) ==
  LET x       == (bx - (bx % 2)) \div 2
      n_bytes == Min({stride(dst.width), stride(src.width) - x})
      n_lines == Min({dst.height, src.height - by})
  IN  IF dst = NULL \/ src = NULL \/ bx < 0 \/ by < 0 \/ n_bytes <= 0 \/ n_lines <= 0
        THEN dst
      ELSE Copy(dst, 0, 0, src, x, by, n_bytes, n_lines)

-----------------------------------------------------------------------------
(* screen.c, font.c and statusbar.c.                                       *)

\* A character that the font lacks is shown as the first one.
get_char_pixmap(code) ==
  Pixmap(FNTWIDTH, FNTHEIGHT,
         default_font[IF code \in DOMAIN default_font THEN code ELSE 0])

\* As many characters as are counted to fit, one at least; the count takes a
\* glyph to be two pixels narrower than it is, and pix_blt() clips the rest.
screen_string_at(fb, x0, y0, text) ==
  LET n == Min({(fb.width - x0) \div (FNTWIDTH - 2), Len(text)})
      drawn[i \in 0..Max({n, 1})] ==
        IF i = 0 THEN fb
        ELSE pix_blt(drawn[i - 1], x0 + (i - 1) * FNTWIDTH, y0,
                     get_char_pixmap(IF i <= Len(text) THEN text[i] ELSE 0))
  IN  IF y0 + FNTHEIGHT <= fb.height /\ x0 + FNTWIDTH <= fb.width
        THEN drawn[Max({n, 1})] ELSE fb

screen_rect_at(fb, x0, y0, w, h, color) == pix_fill(fb, x0, y0, w, h, color)
screen_get_pixmap(fb, x0, y0, dst) == pixmap_xtract(dst, x0, y0, fb)
screen_put_pixmap(fb, x0, y0, src) == pix_blt(fb, x0, y0, src)

BarTop == YRES - STATUSBAR_HEIGHT

statusbar_save(fb) == screen_get_pixmap(fb, 0, BarTop, pixbuf_alloc(XRES, STATUSBAR_HEIGHT))

statusbar_clear(fb) == screen_rect_at(fb, 0, BarTop, XRES, STATUSBAR_HEIGHT, 0)

statusbar_text(fb, text) == screen_string_at(statusbar_clear(fb), TEXT_X, BarTop, text)

\* MUTANT: the background is put back one row too high.
statusbar_restore_row_up(fb, psav) == screen_put_pixmap(fb, 0, BarTop - 1, psav)

statusbar_restore(fb, psav) == screen_put_pixmap(fb, 0, BarTop, psav)

-----------------------------------------------------------------------------
(* The panel: external.                                                    *)

\* FBIO_EINK_UPDATE_DISPLAY_AREA for the rows top..bottom - 1.
screen_update_area(panel, fb, top, bottom) ==
  [panel EXCEPT !.surf = [i \in DOMAIN @ |->
     IF RowOf(fb, i) \in top..(bottom - 1) THEN fb.surf[i] ELSE @[i]]]

BarRows == BarTop..(YRES - 1)

\* fx_invert of the bar: in the framebuffer or on the panel alone.
Inverted(p) ==
  [p EXCEPT !.surf = [i \in DOMAIN @ |->
     IF RowOf(p, i) \in BarRows THEN <<15 - @[i][1], 15 - @[i][2]>> ELSE @[i]]]

-----------------------------------------------------------------------------
(* KindleDisplay, FontRenderer and StatusBar.                              *)

\* Gray levels are 0 for black to 255 for white.
set_pixel(fb, x, y, gray_level) ==
  LET nibble == (255 - gray_level) \div 17
  IN  IF x >= fb.width \/ y >= fb.height THEN fb
      ELSE [fb EXCEPT !.surf[y * stride(fb.width) + x \div 2][1 + (x % 2)] = nibble]

get_pixel(fb, x, y) ==
  IF x >= fb.width \/ y >= fb.height THEN 255
  ELSE 255 - 17 * fb.surf[y * stride(fb.width) + x \div 2][1 + (x % 2)]

get_bar_region ==
  LET y == IF YRES > STATUS_BAR_HEIGHT THEN YRES - STATUS_BAR_HEIGHT ELSE 0
  IN  [y |-> y, rows |-> y..(y + STATUS_BAR_HEIGHT - 1)]

\* The gray levels of the region, by row and column.
capture_pixels(fb) ==
  [y \in get_bar_region.rows |-> [x \in 0..(XRES - 1) |-> get_pixel(fb, x, y)]]

\* set_pixel() for every pixel of `level`, a function of row and column.
SetPixels(fb, level) ==
  [fb EXCEPT !.surf = [i \in DOMAIN @ |->
     LET y == RowOf(fb, i)
         x == 2 * ColumnOf(fb, i)
     IN  IF y \in DOMAIN level
           THEN <<(255 - level[y][x]) \div 17, (255 - level[y][x + 1]) \div 17>>
           ELSE @[i]]]

\* MUTANT: gray levels are stored as they are.
restore_pixels_unpacked(fb, saved) ==
  [fb EXCEPT !.surf = [i \in DOMAIN @ |->
     LET y == RowOf(fb, i)
         x == 2 * ColumnOf(fb, i)
     IN  IF y \in DOMAIN saved THEN <<saved[y][x], saved[y][x + 1]>> ELSE @[i]]]

restore_pixels(fb, saved) == SetPixels(fb, saved)

\* A pixel of the glyph that is not white is drawn black.
Lit(text, x, y) ==
  LET n == (x - TEXT_X) \div FNTWIDTH + 1
      column == (x - TEXT_X) % FNTWIDTH
  IN  /\ x >= TEXT_X /\ n <= Len(text) /\ y \in 0..(FNTHEIGHT - 1)
      /\ default_font[text[n]][y * stride(FNTWIDTH) + column \div 2][1 + (column % 2)] > 0

\* The region is made white, then draw_string() begins a row below its top.
draw_bar_text(fb, text) ==
  SetPixels(fb, [y \in get_bar_region.rows |-> [x \in 0..(XRES - 1) |->
                   IF Lit(text, x, y - get_bar_region.y - 1) THEN 0 ELSE 255]])

-----------------------------------------------------------------------------
(* Screenshots: the rows of a bitmap file, which begins at the bottom.     *)

FramebufferRow(fb, y) ==
  [c \in 0..(stride(fb.width) - 1) |-> fb.surf[y * stride(fb.width) + c]]

\* do_screenshot() reads row i of the file at imgsize - bperrow * (i - 1): the
\* first two reads are at the end of the framebuffer and read nothing, and
\* rowbuf keeps what it had.
screenshot_row(fb, i, rowbuf) ==
  IF i < 2 THEN rowbuf ELSE FramebufferRow(fb, fb.height + 1 - i)

write_pixel_row(fb, i) ==
  LET y == fb.height - 1 - i
  IN  [c \in 0..(stride(fb.width) - 1) |->
         <<(255 - get_pixel(fb, 2 * c, y)) \div 17,
           (255 - get_pixel(fb, 2 * c + 1, y)) \div 17>>]
=============================================================================
