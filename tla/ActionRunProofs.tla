-------------------------- MODULE ActionRunProofs --------------------------
(***************************************************************************)
(* What an action leaves on the screen and in a screenshot, for every size *)
(* of screen, bar and font, every text and every set of bindings; and that *)
(* every key of a device finds its binding.                                *)
(***************************************************************************)
EXTENDS ActionRun, WellFoundedInduction, TLAPS

-----------------------------------------------------------------------------
(* Numbers.                                                                *)

\* Max and Min of two numbers.
LEMMA MaxOfTwo ==
  ASSUME NEW a \in Int, NEW b \in Int
  PROVE  Max({a, b}) = IF a >= b THEN a ELSE b
<1>1. \E x \in {a, b} : \A y \in {a, b} : x >= y
  OBVIOUS
<1> QED
  BY <1>1 DEF Max

LEMMA MinOfTwo ==
  ASSUME NEW a \in Int, NEW b \in Int
  PROVE  Min({a, b}) = IF a <= b THEN a ELSE b
<1>1. \E x \in {a, b} : \A y \in {a, b} : x =< y
  OBVIOUS
<1> QED
  BY <1>1 DEF Min

\* The row and the column of a byte.
LEMMA RowAndColumn ==
  ASSUME NEW s \in Nat \ {0}, NEW i \in Nat
  PROVE  /\ i \div s \in Nat /\ i % s \in 0..(s - 1)
         /\ i = (i \div s) * s + (i % s)
  OBVIOUS

\* A row and a column are those of one byte only.
LEMMA RowIsUnique ==
  ASSUME NEW s \in Nat \ {0}, NEW r \in Nat, NEW c \in 0..(s - 1)
  PROVE  /\ (r * s + c) \div s = r
         /\ (r * s + c) % s = c
  OBVIOUS

\* Bytes below s * h are the bytes of the rows below h.
LEMMA RowBound ==
  ASSUME NEW s \in Nat \ {0}, NEW h \in Nat, NEW i \in Nat
  PROVE  i \div s < h <=> i < s * h
  OBVIOUS

\* A byte of a row and a column inside the pixmap is a byte of the pixmap.
LEMMA ByteInside ==
  ASSUME NEW s \in Nat \ {0}, NEW h \in Nat, NEW r \in 0..(h - 1), NEW c \in 0..(s - 1)
  PROVE  r * s + c \in 0..(s * h - 1)
<1>1. r * s + c \in Nat /\ (r * s + c) \div s = r
  BY RowIsUnique
<1>2. r * s + c < s * h
  BY <1>1, RowBound
<1> QED
  BY <1>1, <1>2

-----------------------------------------------------------------------------
(* Pixmaps.                                                                *)

Indices(w, h) == 0..(stride(w) * h - 1)

PixmapOf(w, h) == [width: {w}, height: {h}, surf: [Indices(w, h) -> Byte]]

Screen == PixmapOf(XRES, YRES)

LEMMA Sizes ==
  /\ XRES \in Nat \ {0} /\ YRES \in Nat \ {0}
  /\ FNTWIDTH \in Nat \ {0} /\ FNTHEIGHT \in Nat \ {0}
  /\ STATUSBAR_HEIGHT \in 1..YRES /\ STATUS_BAR_HEIGHT \in 1..YRES
  /\ TEXT_X \in Nat /\ FNTWIDTH - 2 \in Nat \ {0}
  /\ XRES = 2 * stride(XRES)
  /\ BarTop \in 0..(YRES - 1)
  BY FramebufferAssumption DEF stride, BarTop

LEMMA StrideTyped ==
  ASSUME NEW w \in Nat \ {0}
  PROVE  stride(w) \in Nat \ {0}
  BY DEF stride

LEMMA ByteTyped ==
  ASSUME NEW a \in 0..15, NEW b \in 0..15
  PROVE  <<a, b>> \in Byte
  BY DEF Byte

LEMMA IndexTyped ==
  ASSUME NEW w \in Nat \ {0}, NEW h \in Nat \ {0}, NEW i \in Indices(w, h)
  PROVE  /\ i \in Nat
         /\ i \div stride(w) \in 0..(h - 1) /\ i % stride(w) \in 0..(stride(w) - 1)
         /\ i = (i \div stride(w)) * stride(w) + (i % stride(w))
<1>1. stride(w) \in Nat \ {0}
  BY StrideTyped
<1>2. i \in Nat /\ i < stride(w) * h
  BY <1>1 DEF Indices
<1>3. i \div stride(w) < h
  BY <1>1, <1>2, RowBound
<1>4. /\ i \div stride(w) \in Nat /\ i % stride(w) \in 0..(stride(w) - 1)
      /\ i = (i \div stride(w)) * stride(w) + (i % stride(w))
  BY <1>1, <1>2, RowAndColumn
<1> QED
  BY <1>2, <1>3, <1>4

\* The byte i of a pixmap of width w when bytes of another, of width sw, have
\* been copied into it.
CopiedByte(w, dst, dx, dy, sw, src, sx, sy, n_bytes, n_lines, i) ==
  LET r == i \div stride(w)
      c == i % stride(w)
  IN  IF r \in dy..(dy + n_lines - 1) /\ c \in dx..(dx + n_bytes - 1)
        THEN src.surf[(r - dy + sy) * stride(sw) + (c - dx + sx)]
        ELSE dst.surf[i]

\* What a copy changes.
LEMMA CopyBytes ==
  ASSUME NEW w, NEW h, NEW dst \in PixmapOf(w, h), NEW src, NEW dx, NEW dy, NEW sx, NEW sy,
         NEW n_bytes, NEW n_lines
  PROVE  Copy(dst, dx, dy, src, sx, sy, n_bytes, n_lines) =
           [dst EXCEPT !.surf = [i \in Indices(w, h) |->
              CopiedByte(w, dst, dx, dy, src.width, src, sx, sy, n_bytes, n_lines, i)]]
<1>1. dst.width = w /\ dst.surf \in [Indices(w, h) -> Byte]
  BY DEF PixmapOf
<1> QED
  BY <1>1 DEF Copy, RowOf, ColumnOf, CopiedByte

LEMMA SurfReplaced ==
  ASSUME NEW w, NEW h, NEW dst \in PixmapOf(w, h), NEW new \in [Indices(w, h) -> Byte]
  PROVE  /\ [dst EXCEPT !.surf = new] \in PixmapOf(w, h)
         /\ [dst EXCEPT !.surf = new].surf = new
  BY DEF PixmapOf

\* p is dst with the bytes that have been copied.
IsCopy(p, w, h, dst, dx, dy, sw, src, sx, sy, n_bytes, n_lines) ==
  /\ p \in PixmapOf(w, h)
  /\ \A i \in Indices(w, h) :
       p.surf[i] = CopiedByte(w, dst, dx, dy, sw, src, sx, sy, n_bytes, n_lines, i)

\* A copy of bytes that lie in the source.
LEMMA CopyTyped ==
  ASSUME NEW w \in Nat \ {0}, NEW h \in Nat \ {0}, NEW sw \in Nat \ {0}, NEW sh \in Nat \ {0},
         NEW dst \in PixmapOf(w, h), NEW src \in PixmapOf(sw, sh),
         NEW dx \in Nat, NEW dy \in Nat, NEW sx \in Nat, NEW sy \in Nat,
         NEW n_bytes \in Nat, NEW n_lines \in Nat,
         sx + n_bytes <= stride(sw), sy + n_lines <= sh
  PROVE  IsCopy(Copy(dst, dx, dy, src, sx, sy, n_bytes, n_lines),
                w, h, dst, dx, dy, sw, src, sx, sy, n_bytes, n_lines)
<1> DEFINE new == [i \in Indices(w, h) |->
                     CopiedByte(w, dst, dx, dy, sw, src, sx, sy, n_bytes, n_lines, i)]
<1>1. dst.surf \in [Indices(w, h) -> Byte] /\ src.surf \in [Indices(sw, sh) -> Byte]
  BY DEF PixmapOf
<1>2. Copy(dst, dx, dy, src, sx, sy, n_bytes, n_lines) = [dst EXCEPT !.surf = new]
  <2>1. src.width = sw
    BY DEF PixmapOf
  <2> QED
    BY <2>1, CopyBytes
<1>3. \A i \in Indices(w, h) : new[i] \in Byte
  <2> TAKE i \in Indices(w, h)
  <2> DEFINE r == i \div stride(w)
             c == i % stride(w)
  <2>1. r \in Nat /\ c \in Nat
    BY IndexTyped
  <2> HIDE DEF r, c
  <2>2. CASE r \in dy..(dy + n_lines - 1) /\ c \in dx..(dx + n_bytes - 1)
    <3>1. r - dy + sy \in 0..(sh - 1) /\ c - dx + sx \in 0..(stride(sw) - 1)
      BY <2>1, <2>2, StrideTyped
    <3>2. (r - dy + sy) * stride(sw) + (c - dx + sx) \in Indices(sw, sh)
      BY <3>1, StrideTyped, ByteInside DEF Indices
    <3>3. new[i] = src.surf[(r - dy + sy) * stride(sw) + (c - dx + sx)]
      BY <2>2 DEF r, c, CopiedByte
    <3> QED
      BY <1>1, <3>2, <3>3
  <2>3. CASE ~(r \in dy..(dy + n_lines - 1) /\ c \in dx..(dx + n_bytes - 1))
    <3>1. new[i] = dst.surf[i]
      BY <2>3 DEF r, c, CopiedByte
    <3> QED
      BY <1>1, <3>1
  <2> QED
    BY <2>2, <2>3
<1>4. new \in [Indices(w, h) -> Byte]
  BY <1>3
<1>5. [dst EXCEPT !.surf = new] \in PixmapOf(w, h) /\ [dst EXCEPT !.surf = new].surf = new
  <2> HIDE DEF new
  <2> QED
    BY <1>4, SurfReplaced
<1> QED
  BY <1>2, <1>5 DEF IsCopy

\* p is a pixmap of that size with the rows of f above top.
SameAbove(p, f, w, h, top) ==
  /\ p \in PixmapOf(w, h)
  /\ \A i \in Indices(w, h) : i \div stride(w) < top => p.surf[i] = f.surf[i]

\* pix_blt() at a place on the screen leaves the rows above it.
LEMMA BltTyped ==
  ASSUME NEW w \in Nat \ {0}, NEW h \in Nat \ {0}, NEW sw \in Nat \ {0}, NEW sh \in Nat \ {0},
         NEW dst \in PixmapOf(w, h), NEW src \in PixmapOf(sw, sh),
         NEW bx \in Nat, NEW by \in Nat
  PROVE  SameAbove(pix_blt(dst, bx, by, src), dst, w, h, by)
<1> DEFINE x == (bx - (bx % 2)) \div 2
           n_bytes == Min({stride(sw) + Min({x, 0}), stride(w) - Max({x, 0})})
           n_lines == Min({sh + Min({by, 0}), h - Max({by, 0})})
<1>1. /\ dst.width = w /\ dst.height = h /\ src.width = sw /\ src.height = sh
      /\ dst # NULL /\ src # NULL
  BY DEF PixmapOf, NULL, Pixmap
<1>2. x \in Nat
  OBVIOUS
<1>3. /\ Max({x, 0}) = x /\ Max({by, 0}) = by /\ Min({x, 0}) = 0 /\ Min({by, 0}) = 0
  <2> HIDE DEF x
  <2> QED BY <1>2, MaxOfTwo, MinOfTwo
<1>4. /\ n_bytes \in Int /\ n_lines \in Int
      /\ n_bytes <= stride(sw) /\ n_lines <= sh
  <2>1. stride(sw) \in Nat /\ stride(w) \in Nat
    BY StrideTyped
  <2>2. n_bytes = Min({stride(sw), stride(w) - x}) /\ n_lines = Min({sh, h - by})
    <3>1. stride(sw) + 0 = stride(sw) /\ sh + 0 = sh
      BY <2>1
    <3> QED
      BY <1>3, <3>1
  <2> HIDE DEF x, n_bytes, n_lines
  <2> QED
    BY <1>2, <2>1, <2>2, MinOfTwo
<1>5. pix_blt(dst, bx, by, src) =
        IF n_bytes <= 0 \/ n_lines <= 0 THEN dst
        ELSE Copy(dst, x, by, src, 0, 0, n_bytes, n_lines)
  <2>1. pix_blt(dst, bx, by, src) =
          IF n_bytes <= 0 \/ n_lines <= 0 THEN dst
          ELSE Copy(dst, Max({x, 0}), Max({by, 0}), src, Max({x, 0}) - x, Max({by, 0}) - by,
                    n_bytes, n_lines)
    BY <1>1 DEF pix_blt
  <2>2. x - x = 0 /\ by - by = 0
    BY <1>2
  <2> QED
    BY <1>3, <2>1, <2>2
<1>6. CASE n_bytes <= 0 \/ n_lines <= 0
  BY <1>5, <1>6 DEF SameAbove
<1>7. CASE n_bytes > 0 /\ n_lines > 0
  <2> HIDE DEF x, n_bytes, n_lines
  <2>1. n_bytes \in Nat /\ n_lines \in Nat /\ 0 + n_bytes <= stride(sw) /\ 0 + n_lines <= sh
    BY <1>4, <1>7
  <2>2. pix_blt(dst, bx, by, src) = Copy(dst, x, by, src, 0, 0, n_bytes, n_lines)
    BY <1>4, <1>5, <1>7
  <2>3. \A i \in Indices(w, h) : i \div stride(w) \in Nat
    BY IndexTyped
  <2>c. IsCopy(Copy(dst, x, by, src, 0, 0, n_bytes, n_lines),
               w, h, dst, x, by, sw, src, 0, 0, n_bytes, n_lines)
    <3>1. 0 \in Nat /\ x \in Nat
      BY <1>2
    <3> QED
      BY <3>1, <2>1, CopyTyped
  <2>4. pix_blt(dst, bx, by, src) \in PixmapOf(w, h)
    BY <2>2, <2>c DEF IsCopy
  <2>5. ASSUME NEW i \in Indices(w, h), i \div stride(w) < by
        PROVE  pix_blt(dst, bx, by, src).surf[i] = dst.surf[i]
    <3>1. ~(i \div stride(w) \in by..(by + n_lines - 1))
      BY <2>1, <2>3, <2>5
    <3> QED
      BY <2>2, <2>c, <3>1 DEF IsCopy, CopiedByte
  <2> QED
    BY <2>4, <2>5 DEF SameAbove
<1> QED
  BY <1>4, <1>6, <1>7

-----------------------------------------------------------------------------
(* The status bar of the C daemon.                                         *)

\* The copy of the bar's background.
BarCopy == PixmapOf(XRES, STATUSBAR_HEIGHT)

\* statusbar_save() copies the rows of the bar.
LEMMA SaveCopiesBar ==
  ASSUME NEW p \in Screen
  PROVE  /\ statusbar_save(p) \in BarCopy
         /\ \A j \in Indices(XRES, STATUSBAR_HEIGHT) :
              statusbar_save(p).surf[j] = p.surf[j + BarTop * stride(XRES)]
<1> DEFINE s == stride(XRES)
           H == STATUSBAR_HEIGHT
           new == pixbuf_alloc(XRES, H)
<1>1. s \in Nat \ {0} /\ H \in Nat \ {0} /\ BarTop \in Nat /\ BarTop + H = YRES
  BY Sizes, StrideTyped DEF BarTop
<1>2. new \in BarCopy /\ new # NULL /\ new.width = XRES /\ new.height = H
  <2>1. <<0, 0>> \in Byte
    BY ByteTyped
  <2>2. /\ new = [width |-> XRES, height |-> H,
                  surf |-> [i \in Indices(XRES, H) |-> <<0, 0>>]]
        /\ new.width = XRES /\ new.height = H
    BY DEF pixbuf_alloc, Pixmap, Indices
  <2>3. [i \in Indices(XRES, H) |-> <<0, 0>>] \in [Indices(XRES, H) -> Byte]
    BY <2>1
  <2> HIDE DEF new, H
  <2>4. new \in PixmapOf(XRES, H)
    BY <2>2, <2>3 DEF PixmapOf
  <2>5. new # NULL
    <3>1. NULL.width = 0
      BY DEF NULL, Pixmap
    <3> QED
      BY <2>2, <3>1, Sizes
  <2> QED
    BY <2>2, <2>4, <2>5 DEF BarCopy, H
<1>3. p # NULL /\ p.width = XRES /\ p.height = YRES
  BY Sizes DEF Screen, PixmapOf, Pixmap, NULL
<1>4. statusbar_save(p) = Copy(new, 0, 0, p, 0, BarTop, s, H)
  <2>1. (0 - (0 % 2)) \div 2 = 0
    OBVIOUS
  <2>2. Min({s, s - 0}) = s /\ Min({H, YRES - BarTop}) = H
    BY <1>1, MinOfTwo
  <2>3. ~(s <= 0) /\ ~(H <= 0) /\ ~(0 < 0) /\ ~(BarTop < 0)
    BY <1>1
  <2> HIDE DEF new, s, H
  <2>4. statusbar_save(p) = pixmap_xtract(new, 0, BarTop, p)
    BY DEF statusbar_save, screen_get_pixmap, new, H
  <2> QED
    BY <1>2, <1>3, <2>1, <2>2, <2>3, <2>4 DEF pixmap_xtract, s
<1>5. IsCopy(Copy(new, 0, 0, p, 0, BarTop, s, H), XRES, H, new, 0, 0, XRES, p, 0, BarTop, s, H)
  <2> HIDE DEF new
  <2>1. 0 \in Nat /\ H \in Nat /\ s \in Nat /\ 0 + s <= stride(XRES) /\ BarTop + H <= YRES
    BY <1>1, Sizes
  <2> QED
    BY <1>1, <1>2, <2>1, Sizes, CopyTyped DEF BarCopy, Screen
<1>6. ASSUME NEW j \in Indices(XRES, H)
      PROVE  statusbar_save(p).surf[j] = p.surf[j + BarTop * s]
  <2>1. /\ j \in Nat /\ j \div s \in 0..(0 + H - 1) /\ j % s \in 0..(0 + s - 1)
        /\ j = (j \div s) * s + (j % s)
    BY <1>1, <1>6, IndexTyped, Sizes
  <2>2. statusbar_save(p).surf[j] =
          p.surf[((j \div s) - 0 + BarTop) * s + ((j % s) - 0 + 0)]
    BY <1>4, <1>5, <2>1 DEF IsCopy, CopiedByte
  <2>3. ((j \div s) - 0 + BarTop) * s + ((j % s) - 0 + 0) = j + BarTop * s
    BY <1>1, <2>1
  <2> QED
    BY <2>2, <2>3
<1> QED
  BY <1>4, <1>5, <1>6 DEF IsCopy, BarCopy

\* statusbar_restore() puts a copy back on the rows of the bar, and changes no
\* other row.
LEMMA RestorePutsBack ==
  ASSUME NEW f \in Screen, NEW q \in BarCopy
  PROVE  /\ statusbar_restore(f, q) \in Screen
         /\ \A i \in Indices(XRES, YRES) :
              statusbar_restore(f, q).surf[i] =
                IF i \div stride(XRES) >= BarTop THEN q.surf[i - BarTop * stride(XRES)]
                                                 ELSE f.surf[i]
<1> DEFINE s == stride(XRES)
           H == STATUSBAR_HEIGHT
<1>1. s \in Nat \ {0} /\ H \in Nat \ {0} /\ BarTop \in Nat /\ BarTop + H = YRES
  BY Sizes, StrideTyped DEF BarTop
<1>2. q # NULL /\ q.width = XRES /\ q.height = H
  BY Sizes DEF BarCopy, PixmapOf, Pixmap, NULL
<1>3. f # NULL /\ f.width = XRES /\ f.height = YRES
  BY Sizes DEF Screen, PixmapOf, Pixmap, NULL
<1>4. statusbar_restore(f, q) = Copy(f, 0, BarTop, q, 0, 0, s, H)
  <2>1. (0 - (0 % 2)) \div 2 = 0 /\ BarTop - BarTop = 0 /\ 0 - 0 = 0
    BY <1>1
  <2>2. Max({0, 0}) = 0 /\ Min({0, 0}) = 0 /\ Max({BarTop, 0}) = BarTop /\ Min({BarTop, 0}) = 0
    BY <1>1, MaxOfTwo, MinOfTwo
  <2>3. Min({s + 0, s - 0}) = s /\ Min({H + 0, YRES - BarTop}) = H
    BY <1>1, MinOfTwo
  <2>4. ~(s <= 0) /\ ~(H <= 0)
    BY <1>1
  <2> HIDE DEF s, H
  <2> QED
    BY <1>2, <1>3, <2>1, <2>2, <2>3, <2>4 DEF statusbar_restore, screen_put_pixmap, pix_blt, s
<1>5. IsCopy(Copy(f, 0, BarTop, q, 0, 0, s, H), XRES, YRES, f, 0, BarTop, XRES, q, 0, 0, s, H)
  <2>1. 0 \in Nat /\ H \in Nat /\ s \in Nat /\ 0 + s <= stride(XRES) /\ 0 + H <= H
    BY <1>1, Sizes
  <2> QED
    BY <1>1, <2>1, Sizes, CopyTyped DEF BarCopy, Screen
<1>6. ASSUME NEW i \in Indices(XRES, YRES)
      PROVE  statusbar_restore(f, q).surf[i] =
               IF i \div s >= BarTop THEN q.surf[i - BarTop * s] ELSE f.surf[i]
  <2>1. /\ i \in Nat /\ i \div s \in 0..(YRES - 1) /\ i % s \in 0..(0 + s - 1)
        /\ i = (i \div s) * s + (i % s)
    BY <1>1, <1>6, IndexTyped, Sizes
  <2>2. i \div s \in BarTop..(BarTop + H - 1) <=> i \div s >= BarTop
    BY <1>1, <2>1
  <2>3. statusbar_restore(f, q).surf[i] =
          IF i \div s >= BarTop
            THEN q.surf[((i \div s) - BarTop + 0) * s + ((i % s) - 0 + 0)] ELSE f.surf[i]
    BY <1>4, <1>5, <2>1, <2>2 DEF IsCopy, CopiedByte
  <2>4. ((i \div s) - BarTop + 0) * s + ((i % s) - 0 + 0) = i - BarTop * s
    BY <1>1, <2>1
  <2> QED
    BY <2>3, <2>4
<1> QED
  BY <1>4, <1>5, <1>6 DEF IsCopy, Screen

\* The bytes of the bar and those of its copy.
LEMMA BarIndex ==
  ASSUME NEW i \in Indices(XRES, YRES), i \div stride(XRES) >= BarTop
  PROVE  i - BarTop * stride(XRES) \in Indices(XRES, STATUSBAR_HEIGHT)
<1> DEFINE s == stride(XRES)
<1>1. s \in Nat \ {0} /\ BarTop \in Nat /\ BarTop + STATUSBAR_HEIGHT = YRES
  BY Sizes, StrideTyped DEF BarTop
<1>2. /\ i \in Nat /\ i \div s \in 0..(YRES - 1) /\ i % s \in 0..(s - 1)
      /\ i = (i \div s) * s + (i % s)
  BY IndexTyped, Sizes
<1>3. (i \div s) - BarTop \in 0..(STATUSBAR_HEIGHT - 1) /\ STATUSBAR_HEIGHT \in Nat
  BY <1>1, <1>2, Sizes
<1>4. ((i \div s) - BarTop) * s + (i % s) \in 0..(s * STATUSBAR_HEIGHT - 1)
  BY <1>1, <1>2, <1>3, ByteInside
<1>5. ((i \div s) - BarTop) * s + (i % s) = i - BarTop * s
  BY <1>1, <1>2
<1> QED
  BY <1>4, <1>5 DEF Indices

\* Without a copy nothing is put back.
LEMMA NothingToRestore ==
  ASSUME NEW f
  PROVE  statusbar_restore(f, NULL) = f
  BY DEF statusbar_restore, screen_put_pixmap, pix_blt

\* p is f but for the rows of the C daemon's bar.
OnBarOnly(p, f) == SameAbove(p, f, XRES, YRES, BarTop)

\* The C daemon's bar is cleared, written on and inverted without a change to
\* the rest of the page.
LEMMA ClearOnBar ==
  ASSUME NEW f \in Screen
  PROVE  OnBarOnly(statusbar_clear(f), f)
<1>1. /\ f.width = XRES /\ f.height = YRES /\ f # NULL
      /\ f.surf \in [Indices(XRES, YRES) -> Byte]
  BY Sizes DEF Screen, PixmapOf, NULL, Pixmap
<1>2. /\ Max({0 - (0 % 2), 0}) = 0 /\ Max({BarTop, 0}) = BarTop
      /\ Min({0 - (0 % 2) + XRES, XRES}) = XRES
      /\ Min({BarTop + STATUSBAR_HEIGHT, YRES}) = YRES
  <2>1. 0 - (0 % 2) = 0 /\ 0 - (0 % 2) + XRES = XRES /\ BarTop + STATUSBAR_HEIGHT = YRES
    BY Sizes DEF BarTop
  <2> QED
    BY <2>1, Sizes, MaxOfTwo, MinOfTwo
<1> DEFINE columns == 0 \div 2 .. 0 \div 2 + stride(XRES - 0) - 1
           new == [i \in Indices(XRES, YRES) |->
                     IF RowOf(f, i) \in BarTop..(YRES - 1) /\ ColumnOf(f, i) \in columns
                       THEN <<0 % 16, 0 % 16>> ELSE f.surf[i]]
<1>3. statusbar_clear(f) = IF XRES <= 0 \/ YRES <= BarTop THEN f ELSE [f EXCEPT !.surf = new]
  BY <1>1, <1>2 DEF statusbar_clear, screen_rect_at, pix_fill
<1>4. ~(XRES <= 0 \/ YRES <= BarTop)
  BY Sizes
<1>5. new \in [Indices(XRES, YRES) -> Byte]
  <2>1. <<0 % 16, 0 % 16>> \in Byte
    BY ByteTyped
  <2> QED
    BY <1>1, <2>1
<1>6. \A i \in Indices(XRES, YRES) : i \div stride(XRES) < BarTop => new[i] = f.surf[i]
  <2> TAKE i \in Indices(XRES, YRES)
  <2>1. i \div stride(XRES) \in Int
    BY IndexTyped, Sizes
  <2> QED
    BY <1>1, <2>1, Sizes DEF RowOf
<1> HIDE DEF new
<1> QED
  BY <1>3, <1>4, <1>5, <1>6, SurfReplaced DEF OnBarOnly, SameAbove, Screen

LEMMA InvertOnBar ==
  ASSUME NEW f \in Screen
  PROVE  OnBarOnly(Inverted(f), f)
<1>1. f.width = XRES /\ f.surf \in [Indices(XRES, YRES) -> Byte]
  BY DEF Screen, PixmapOf
<1> DEFINE new == [i \in Indices(XRES, YRES) |->
                     IF RowOf(f, i) \in BarRows
                       THEN <<15 - f.surf[i][1], 15 - f.surf[i][2]>> ELSE f.surf[i]]
<1>2. Inverted(f) = [f EXCEPT !.surf = new]
  BY <1>1 DEF Inverted
<1>3. new \in [Indices(XRES, YRES) -> Byte]
  <2>1. ASSUME NEW b \in Byte PROVE <<15 - b[1], 15 - b[2]>> \in Byte
    BY DEF Byte
  <2> QED
    BY <1>1, <2>1
<1>4. \A i \in Indices(XRES, YRES) : i \div stride(XRES) < BarTop => new[i] = f.surf[i]
  <2> TAKE i \in Indices(XRES, YRES)
  <2>1. i \div stride(XRES) \in Int
    BY IndexTyped, Sizes
  <2> QED
    BY <1>1, <2>1, Sizes DEF RowOf, BarRows
<1> HIDE DEF new
<1> QED
  BY <1>2, <1>3, <1>4, SurfReplaced DEF OnBarOnly, SameAbove, Screen

\* Induction over the natural numbers.
LEMMA LeastOfNats ==
  ASSUME NEW S, S \subseteq Nat, S # {}
  PROVE  \E x \in S : \A y \in S : x <= y
<1> DEFINE R == OpToRel(<, Nat)
<1>1. IsWellFoundedOn(R, Nat)
  BY NatLessThanWellFounded
<1>2. \A x, y \in Nat : x < y => <<x, y>> \in R
  BY DEF OpToRel
<1> HIDE DEF R
<1>3. PICK x \in S : \A y \in S : ~(<<y, x>> \in R)
  BY <1>1, WFMin
<1>4. ASSUME NEW y \in S PROVE x <= y
  <2>1. x \in Nat /\ y \in Nat /\ ~(y < x)
    BY <1>2, <1>3
  <2> QED
    BY <2>1
<1> QED
  BY <1>4

LEMMA InductionOverNat ==
  ASSUME NEW S, 0 \in S, \A n \in Nat : n \in S => n + 1 \in S
  PROVE  Nat \subseteq S
<1> SUFFICES ASSUME Nat \ S # {} PROVE FALSE
  OBVIOUS
<1>1. PICK x \in Nat \ S : \A y \in Nat \ S : x <= y
  BY LeastOfNats
<1>2. x - 1 \in Nat /\ x - 1 \in S
  BY <1>1
<1> QED
  BY <1>2

\* The screen after i characters, given the screens f after fewer.
Strip(fb0, x0, y0, text, f, i) ==
  IF i = 0 THEN fb0
  ELSE pix_blt(f[i - 1], x0 + (i - 1) * FNTWIDTH, y0,
               get_char_pixmap(IF i <= Len(text) THEN text[i] ELSE 0))

\* f lists the screens after 0, 1, ..., n characters.
Strips(fb0, x0, y0, text, f, n) == f = [i \in 0..n |-> Strip(fb0, x0, y0, text, f, i)]

LEMMA StripExtended ==
  ASSUME NEW fb0, NEW x0, NEW y0, NEW text, NEW n \in Nat,
         NEW f, Strips(fb0, x0, y0, text, f, n)
  PROVE  \E g : Strips(fb0, x0, y0, text, g, n + 1)
<1> DEFINE g == [i \in 0..(n + 1) |-> Strip(fb0, x0, y0, text, f, i)]
<1>1. \A i \in 0..n : g[i] = f[i]
  BY DEF Strips
<1>2. ASSUME NEW i \in 0..(n + 1)
      PROVE  Strip(fb0, x0, y0, text, f, i) = Strip(fb0, x0, y0, text, g, i)
  <2>1. i # 0 => f[i - 1] = g[i - 1]
    <3>1. i # 0 => i - 1 \in 0..n
      OBVIOUS
    <3> HIDE DEF g
    <3> QED
      BY <1>1, <3>1
  <2> HIDE DEF g
  <2> QED
    BY <2>1 DEF Strip
<1>3. g = [i \in 0..(n + 1) |-> Strip(fb0, x0, y0, text, g, i)]
  BY <1>2
<1> QED
  BY <1>3 DEF Strips

LEMMA StripExists ==
  ASSUME NEW fb0, NEW x0, NEW y0, NEW text, NEW n \in Nat
  PROVE  \E f : Strips(fb0, x0, y0, text, f, n)
<1> DEFINE S == {m \in Nat : \E f : Strips(fb0, x0, y0, text, f, m)}
<1>1. 0 \in S
  <2> DEFINE f == [i \in 0..0 |-> fb0]
  <2>1. Strips(fb0, x0, y0, text, f, 0)
    BY DEF Strips, Strip
  <2> QED
    BY <2>1
<1>2. ASSUME NEW m \in Nat, m \in S PROVE m + 1 \in S
  BY <1>2, StripExtended
<1> HIDE DEF S
<1>3. n \in S
  BY <1>1, <1>2, InductionOverNat
<1> QED
  BY <1>3 DEF S

LEMMA GlyphTyped ==
  ASSUME NEW c
  PROVE  get_char_pixmap(c) \in PixmapOf(FNTWIDTH, FNTHEIGHT)
  BY FontAssumption DEF get_char_pixmap, PixmapOf, Pixmap, Indices

LEMMA TextOnBar ==
  ASSUME NEW f \in Screen, NEW text, Len(text) \in Nat
  PROVE  OnBarOnly(statusbar_text(f, text), f)
<1> DEFINE c == statusbar_clear(f)
           N == Max({Min({(XRES - TEXT_X) \div (FNTWIDTH - 2), Len(text)}), 1})
<1>1. OnBarOnly(c, f) /\ c \in Screen /\ c.width = XRES
  BY ClearOnBar DEF OnBarOnly, SameAbove, Screen, PixmapOf
<1> HIDE DEF c
<1>2. N \in Nat
  <2>1. (XRES - TEXT_X) \div (FNTWIDTH - 2) \in Int
    BY Sizes
  <2>2. Min({(XRES - TEXT_X) \div (FNTWIDTH - 2), Len(text)}) \in Int
    BY <2>1, MinOfTwo
  <2>3. \A m \in Int : Max({m, 1}) \in Nat
    BY MaxOfTwo
  <2> QED
    BY <2>2, <2>3
<1> HIDE DEF N
<1>3. \E g : g = [i \in 0..N |-> Strip(c, TEXT_X, BarTop, text, g, i)]
  BY <1>2, StripExists DEF Strips
<1>4. \E g : /\ g = [i \in 0..N |-> Strip(c, TEXT_X, BarTop, text, g, i)]
             /\ statusbar_text(f, text) = IF /\ BarTop + FNTHEIGHT <= c.height
                                             /\ TEXT_X + FNTWIDTH <= XRES
                                            THEN g[N] ELSE c
  BY <1>1, <1>3, Zenon DEF statusbar_text, screen_string_at, Strip, N, c
<1>5. PICK g : /\ g = [i \in 0..N |-> Strip(c, TEXT_X, BarTop, text, g, i)]
               /\ statusbar_text(f, text) \in {g[N], c}
  <2>1. PICK g : /\ g = [i \in 0..N |-> Strip(c, TEXT_X, BarTop, text, g, i)]
                 /\ statusbar_text(f, text) = IF /\ BarTop + FNTHEIGHT <= c.height
                                                 /\ TEXT_X + FNTWIDTH <= XRES
                                                THEN g[N] ELSE c
    BY <1>4
  <2>2. statusbar_text(f, text) \in {g[N], c}
    BY <2>1
  <2> QED
    BY <2>1, <2>2
<1> DEFINE S == {n \in Nat : n <= N => OnBarOnly(g[n], f)}
<1>6. 0 \in S
  <2>1. g[0] = c
    BY <1>2, <1>5 DEF Strip
  <2> QED
    BY <1>1, <2>1
<1>7. ASSUME NEW n \in Nat, n \in S PROVE n + 1 \in S
  <2> SUFFICES ASSUME n + 1 <= N PROVE OnBarOnly(g[n + 1], f)
    OBVIOUS
  <2>1. OnBarOnly(g[n], f)
    BY <1>2, <1>7
  <2>2. PICK k : g[n + 1] = pix_blt(g[n], TEXT_X + n * FNTWIDTH, BarTop, get_char_pixmap(k))
    <3>1. n + 1 \in 0..N /\ n + 1 # 0 /\ (n + 1) - 1 = n
      BY <1>2
    <3>2. g[n + 1] = Strip(c, TEXT_X, BarTop, text, g, n + 1)
      BY <1>5, <3>1
    <3> QED
      BY <3>1, <3>2 DEF Strip
  <2>3. TEXT_X + n * FNTWIDTH \in Nat /\ BarTop \in Nat
    BY Sizes
  <2>4. OnBarOnly(g[n + 1], g[n])
    <3>1. g[n] \in PixmapOf(XRES, YRES) /\ get_char_pixmap(k) \in PixmapOf(FNTWIDTH, FNTHEIGHT)
      BY <2>1, GlyphTyped DEF OnBarOnly, SameAbove
    <3> QED
      BY <2>2, <2>3, <3>1, BltTyped, Sizes DEF OnBarOnly
  <2> QED
    BY <2>1, <2>4 DEF OnBarOnly, SameAbove
<1> HIDE DEF S
<1>8. N \in S
  BY <1>2, <1>6, <1>7, InductionOverNat
<1>9. OnBarOnly(g[N], f)
  BY <1>2, <1>8 DEF S
<1> QED
  BY <1>1, <1>5, <1>9

-----------------------------------------------------------------------------
(* The panel, the bar of the C++ daemon and the rows of a screenshot.      *)

LEMMA UpdateTyped ==
  ASSUME NEW q \in Screen, NEW p \in Screen, NEW top, NEW bottom
  PROVE  /\ screen_update_area(q, p, top, bottom) \in Screen
         /\ \A i \in Indices(XRES, YRES) :
              screen_update_area(q, p, top, bottom).surf[i] =
                IF i \div stride(XRES) \in top..(bottom - 1) THEN p.surf[i] ELSE q.surf[i]
<1>1. /\ p.width = XRES /\ p.surf \in [Indices(XRES, YRES) -> Byte]
      /\ q.surf \in [Indices(XRES, YRES) -> Byte]
  BY DEF Screen, PixmapOf
<1> DEFINE new == [i \in Indices(XRES, YRES) |->
                     IF i \div stride(XRES) \in top..(bottom - 1) THEN p.surf[i] ELSE q.surf[i]]
<1>2. screen_update_area(q, p, top, bottom) = [q EXCEPT !.surf = new]
  BY <1>1 DEF screen_update_area, RowOf
<1>3. new \in [Indices(XRES, YRES) -> Byte]
  BY <1>1
<1>4. \A i \in Indices(XRES, YRES) :
        new[i] = IF i \div stride(XRES) \in top..(bottom - 1) THEN p.surf[i] ELSE q.surf[i]
  OBVIOUS
<1> HIDE DEF new
<1> QED
  BY <1>2, <1>3, <1>4, SurfReplaced DEF Screen

LEMMA RegionIsBar ==
  /\ get_bar_region.y = YRES - STATUS_BAR_HEIGHT
  /\ get_bar_region.rows = (YRES - STATUS_BAR_HEIGHT)..(YRES - 1)
<1>1. (IF YRES > STATUS_BAR_HEIGHT THEN YRES - STATUS_BAR_HEIGHT ELSE 0)
        = YRES - STATUS_BAR_HEIGHT
  BY Sizes
<1>2. YRES - STATUS_BAR_HEIGHT + STATUS_BAR_HEIGHT - 1 = YRES - 1
  BY Sizes
<1> QED
  BY <1>1, <1>2 DEF get_bar_region

\* The byte that the gray levels of row and column make.
PackedByte(level, i) ==
  LET y == i \div stride(XRES)
      x == 2 * (i % stride(XRES))
  IN  <<(255 - level[y][x]) \div 17, (255 - level[y][x + 1]) \div 17>>

\* Setting the pixels of the region changes its rows only.
LEMMA SetPixelsTyped ==
  ASSUME NEW f \in Screen, NEW level, DOMAIN level = get_bar_region.rows,
         \A i \in Indices(XRES, YRES) :
           i \div stride(XRES) \in get_bar_region.rows => PackedByte(level, i) \in Byte
  PROVE  /\ SetPixels(f, level) \in Screen
         /\ \A i \in Indices(XRES, YRES) :
              SetPixels(f, level).surf[i] =
                IF i \div stride(XRES) \in get_bar_region.rows THEN PackedByte(level, i)
                                                               ELSE f.surf[i]
<1>1. f.width = XRES /\ f.surf \in [Indices(XRES, YRES) -> Byte]
  BY DEF Screen, PixmapOf
<1> DEFINE new == [i \in Indices(XRES, YRES) |->
                     IF i \div stride(XRES) \in get_bar_region.rows THEN PackedByte(level, i)
                                                                    ELSE f.surf[i]]
<1>2. SetPixels(f, level) = [f EXCEPT !.surf = new]
  BY <1>1 DEF SetPixels, RowOf, ColumnOf, PackedByte
<1>3. new \in [Indices(XRES, YRES) -> Byte]
  BY <1>1
<1>4. \A i \in Indices(XRES, YRES) :
        new[i] = IF i \div stride(XRES) \in get_bar_region.rows THEN PackedByte(level, i)
                                                                ELSE f.surf[i]
  OBVIOUS
<1> HIDE DEF new
<1> QED
  BY <1>2, <1>3, <1>4, SurfReplaced DEF Screen

\* A nibble read as a gray level and written again is the same nibble.
LEMMA NibbleKept ==
  ASSUME NEW n \in 0..15
  PROVE  (255 - (255 - 17 * n)) \div 17 = n
  OBVIOUS

\* The two pixels of a byte.
LEMMA PixelsOfByte ==
  ASSUME NEW p \in Screen, NEW y \in 0..(YRES - 1), NEW c \in 0..(stride(XRES) - 1)
  PROVE  /\ 2 * c \in 0..(XRES - 1) /\ 2 * c + 1 \in 0..(XRES - 1)
         /\ get_pixel(p, 2 * c, y) = 255 - 17 * p.surf[y * stride(XRES) + c][1]
         /\ get_pixel(p, 2 * c + 1, y) = 255 - 17 * p.surf[y * stride(XRES) + c][2]
         /\ p.surf[y * stride(XRES) + c][1] \in 0..15
         /\ p.surf[y * stride(XRES) + c][2] \in 0..15
         /\ p.surf[y * stride(XRES) + c] =
              <<p.surf[y * stride(XRES) + c][1], p.surf[y * stride(XRES) + c][2]>>
<1>1. /\ p.width = XRES /\ p.height = YRES
      /\ p.surf \in [Indices(XRES, YRES) -> Byte]
  BY DEF Screen, PixmapOf
<1>2. stride(XRES) \in Nat \ {0} /\ XRES = 2 * stride(XRES) /\ YRES \in Nat \ {0}
  BY Sizes, StrideTyped
<1>3. y * stride(XRES) + c \in Indices(XRES, YRES)
  BY <1>2, ByteInside DEF Indices
<1>4. p.surf[y * stride(XRES) + c] \in Byte
  BY <1>1, <1>3
<1>5. /\ 2 * c \in 0..(XRES - 1) /\ 2 * c + 1 \in 0..(XRES - 1)
      /\ (2 * c) \div 2 = c /\ (2 * c + 1) \div 2 = c
      /\ 1 + ((2 * c) % 2) = 1 /\ 1 + ((2 * c + 1) % 2) = 2
      /\ ~(2 * c >= XRES) /\ ~(2 * c + 1 >= XRES) /\ ~(y >= YRES)
  BY <1>2
<1>6. /\ get_pixel(p, 2 * c, y) = 255 - 17 * p.surf[y * stride(XRES) + c][1]
      /\ get_pixel(p, 2 * c + 1, y) = 255 - 17 * p.surf[y * stride(XRES) + c][2]
  BY <1>1, <1>5 DEF get_pixel
<1> QED
  BY <1>4, <1>5, <1>6 DEF Byte

\* What capture_pixels() saved is packed into the byte it was.
LEMMA CapturedIsPacked ==
  ASSUME NEW p \in Screen, NEW i \in Indices(XRES, YRES),
         i \div stride(XRES) \in get_bar_region.rows
  PROVE  PackedByte(capture_pixels(p), i) = p.surf[i]
<1> DEFINE y == i \div stride(XRES)
           c == i % stride(XRES)
           b == p.surf[y * stride(XRES) + c]
<1>1. y \in 0..(YRES - 1) /\ c \in 0..(stride(XRES) - 1) /\ i = y * stride(XRES) + c
  BY IndexTyped, Sizes
<1>2. y \in get_bar_region.rows
  OBVIOUS
<1> HIDE DEF y, c
<1>3. /\ 2 * c \in 0..(XRES - 1) /\ 2 * c + 1 \in 0..(XRES - 1)
      /\ get_pixel(p, 2 * c, y) = 255 - 17 * b[1]
      /\ get_pixel(p, 2 * c + 1, y) = 255 - 17 * b[2]
      /\ b[1] \in 0..15 /\ b[2] \in 0..15 /\ b = <<b[1], b[2]>>
  BY <1>1, PixelsOfByte
<1>4. /\ capture_pixels(p)[y][2 * c] = 255 - 17 * b[1]
      /\ capture_pixels(p)[y][2 * c + 1] = 255 - 17 * b[2]
  BY <1>2, <1>3 DEF capture_pixels
<1>5. PackedByte(capture_pixels(p), i) = <<b[1], b[2]>>
  <2> HIDE DEF b
  <2> QED BY <1>3, <1>4, NibbleKept DEF PackedByte, y, c
<1> QED
  BY <1>1, <1>3, <1>5

\* Drawing a message changes the region only.
LEMMA DrawOnRegion ==
  ASSUME NEW f \in Screen, NEW text
  PROVE  /\ draw_bar_text(f, text) \in Screen
         /\ \A i \in Indices(XRES, YRES) :
              ~(i \div stride(XRES) \in get_bar_region.rows) =>
                draw_bar_text(f, text).surf[i] = f.surf[i]
<1> DEFINE level == [y \in get_bar_region.rows |-> [x \in 0..(XRES - 1) |->
                       IF Lit(text, x, y - get_bar_region.y - 1) THEN 0 ELSE 255]]
<1>1. DOMAIN level = get_bar_region.rows
  OBVIOUS
<1>2. ASSUME NEW i \in Indices(XRES, YRES), i \div stride(XRES) \in get_bar_region.rows
      PROVE  PackedByte(level, i) \in Byte
  <2> DEFINE y == i \div stride(XRES)
             c == i % stride(XRES)
  <2>1. c \in 0..(stride(XRES) - 1)
    BY IndexTyped, Sizes
  <2>2. y \in get_bar_region.rows
    BY <1>2
  <2> HIDE DEF y, c
  <2>3. 2 * c \in 0..(XRES - 1) /\ 2 * c + 1 \in 0..(XRES - 1)
    BY <2>1, Sizes, StrideTyped
  <2>4. level[y][2 * c] \in {0, 255} /\ level[y][2 * c + 1] \in {0, 255}
    BY <2>2, <2>3
  <2>5. \A v \in {0, 255} : (255 - v) \div 17 \in 0..15
    OBVIOUS
  <2> HIDE DEF level
  <2>6. (255 - level[y][2 * c]) \div 17 \in 0..15 /\ (255 - level[y][2 * c + 1]) \div 17 \in 0..15
    BY <2>4, <2>5
  <2> QED
    BY <2>6, ByteTyped DEF PackedByte, y, c
<1>3. draw_bar_text(f, text) = SetPixels(f, level)
  BY DEF draw_bar_text
<1> HIDE DEF level
<1> QED
  BY <1>1, <1>2, <1>3, SetPixelsTyped

\* write_bmp() writes the bytes of the framebuffer.
LEMMA WrittenRow ==
  ASSUME NEW p \in Screen, NEW i \in 0..(YRES - 1)
  PROVE  write_pixel_row(p, i) = FramebufferRow(p, YRES - 1 - i)
<1> DEFINE y == YRES - 1 - i
<1>1. y \in 0..(YRES - 1) /\ p.width = XRES /\ p.height = YRES
  BY Sizes DEF Screen, PixmapOf
<1> HIDE DEF y
<1>2. ASSUME NEW c \in 0..(stride(XRES) - 1)
      PROVE  <<(255 - get_pixel(p, 2 * c, y)) \div 17, (255 - get_pixel(p, 2 * c + 1, y)) \div 17>>
               = p.surf[y * stride(XRES) + c]
  <2>1. PICK b : b = p.surf[y * stride(XRES) + c]
    OBVIOUS
  <2>2. /\ get_pixel(p, 2 * c, y) = 255 - 17 * b[1]
        /\ get_pixel(p, 2 * c + 1, y) = 255 - 17 * b[2]
        /\ b[1] \in 0..15 /\ b[2] \in 0..15 /\ b = <<b[1], b[2]>>
    BY <1>1, <2>1, PixelsOfByte
  <2> QED
    BY <2>1, <2>2, NibbleKept
<1> QED
  BY <1>1, <1>2 DEF write_pixel_row, FramebufferRow, y

\* What statusbar_save() or capture_pixels() saved is put back byte for byte:
\* statusbar_restore() and restore_pixels() give the screen as it was, whatever
\* has been drawn on the bar since, for every size of screen and bar.
THEOREM SavedIsPutBack ==
  ASSUME NEW p \in Screen, NEW f \in Screen
  PROVE  /\ (\A i \in Indices(XRES, YRES) :
               i \div stride(XRES) < BarTop => f.surf[i] = p.surf[i])
              => statusbar_restore(f, statusbar_save(p)) = p
         /\ (\A i \in Indices(XRES, YRES) :
               ~(i \div stride(XRES) \in get_bar_region.rows) => f.surf[i] = p.surf[i])
              => restore_pixels(f, capture_pixels(p)) = p
<1>0. ASSUME NEW q \in Screen, \A i \in Indices(XRES, YRES) : q.surf[i] = p.surf[i]
      PROVE  q = p
  <2>1. q.surf = p.surf
    BY <1>0 DEF Screen, PixmapOf
  <2> QED
    BY <2>1 DEF Screen, PixmapOf
<1>1. ASSUME \A i \in Indices(XRES, YRES) : i \div stride(XRES) < BarTop => f.surf[i] = p.surf[i]
      PROVE  statusbar_restore(f, statusbar_save(p)) = p
  <2> DEFINE s == stride(XRES)
  <2>1. statusbar_save(p) \in BarCopy
    BY SaveCopiesBar
  <2>2. ASSUME NEW i \in Indices(XRES, YRES)
        PROVE  statusbar_restore(f, statusbar_save(p)).surf[i] = p.surf[i]
    <3>1. i \in Nat /\ i \div s \in 0..(YRES - 1)
      BY IndexTyped, Sizes
    <3>2. CASE i \div s >= BarTop
      <4>1. i - BarTop * s \in Indices(XRES, STATUSBAR_HEIGHT)
        BY <3>2, BarIndex
      <4>2. (i - BarTop * s) + BarTop * s = i
        BY <3>1, Sizes, StrideTyped
      <4>3. statusbar_save(p).surf[i - BarTop * s] = p.surf[i]
        BY <4>1, <4>2, SaveCopiesBar
      <4> QED
        BY <2>1, <3>2, <4>3, RestorePutsBack
    <3>3. CASE i \div s < BarTop
      BY <1>1, <2>1, <3>1, <3>3, RestorePutsBack, Sizes
    <3> QED
      BY <3>1, <3>2, <3>3, Sizes
  <2> QED
    BY <1>0, <2>1, <2>2, RestorePutsBack
<1>2. ASSUME \A i \in Indices(XRES, YRES) :
               ~(i \div stride(XRES) \in get_bar_region.rows) => f.surf[i] = p.surf[i]
      PROVE  restore_pixels(f, capture_pixels(p)) = p
  <2>1. DOMAIN capture_pixels(p) = get_bar_region.rows
    BY DEF capture_pixels
  <2>2. \A i \in Indices(XRES, YRES) :
          i \div stride(XRES) \in get_bar_region.rows =>
            PackedByte(capture_pixels(p), i) = p.surf[i] /\ p.surf[i] \in Byte
    BY CapturedIsPacked DEF Screen, PixmapOf
  <2>3. \A i \in Indices(XRES, YRES) : SetPixels(f, capture_pixels(p)).surf[i] = p.surf[i]
    BY <1>2, <2>1, <2>2, SetPixelsTyped
  <2>4. SetPixels(f, capture_pixels(p)) \in Screen
    BY <2>1, <2>2, SetPixelsTyped
  <2> QED
    BY <1>0, <2>3, <2>4 DEF restore_pixels
<1> QED
  BY <1>1, <1>2

-----------------------------------------------------------------------------
(* Sequences.                                                              *)

IsSeq(s) == \E S : s \in Seq(S)

LEMMA SeqFacts ==
  ASSUME NEW s, IsSeq(s)
  PROVE  /\ Len(s) \in Nat /\ DOMAIN s = 1..Len(s)
         /\ s = [i \in 1..Len(s) |-> s[i]]
         /\ Len(s) = 0 <=> s = <<>>
         /\ Len(s) > 0 =>
              /\ Head(s) = s[1]
              /\ IsSeq(Tail(s)) /\ Len(Tail(s)) = Len(s) - 1
              /\ \A j \in 1..(Len(s) - 1) : Tail(s)[j] = s[j + 1]
<1>1. PICK S : s \in Seq(S)
  BY DEF IsSeq
<1>2. /\ Len(s) \in Nat /\ DOMAIN s = 1..Len(s)
      /\ s = [i \in 1..Len(s) |-> s[i]]
      /\ Len(s) = 0 <=> s = <<>>
  BY <1>1
<1>3. ASSUME Len(s) > 0
      PROVE  /\ Head(s) = s[1]
             /\ IsSeq(Tail(s)) /\ Len(Tail(s)) = Len(s) - 1
             /\ \A j \in 1..(Len(s) - 1) : Tail(s)[j] = s[j + 1]
  <2>1. s # <<>>
    BY <1>2, <1>3
  <2>2. Tail(s) \in Seq(S)
    BY <1>1, <2>1
  <2>3. Head(s) = s[1]
    BY <1>1, <2>1
  <2>4. Len(Tail(s)) = Len(s) - 1
    BY <1>1, <2>1
  <2>5. \A j \in 1..(Len(s) - 1) : Tail(s)[j] = s[j + 1]
    BY <1>1, <2>1
  <2> QED
    BY <2>2, <2>3, <2>4, <2>5 DEF IsSeq
<1> QED
  BY <1>2, <1>3

LEMMA ConcatFacts ==
  ASSUME NEW s, NEW t, IsSeq(s), IsSeq(t)
  PROVE  /\ IsSeq(s \o t) /\ Len(s \o t) = Len(s) + Len(t)
         /\ \A j \in 1..(Len(s) + Len(t)) :
              (s \o t)[j] = IF j <= Len(s) THEN s[j] ELSE t[j - Len(s)]
<1>1. PICK S : s \in Seq(S)
  BY DEF IsSeq
<1>2. PICK T : t \in Seq(T)
  BY DEF IsSeq
<1>3. s \in Seq(S \cup T) /\ t \in Seq(S \cup T)
  BY <1>1, <1>2
<1>4. s \o t \in Seq(S \cup T)
  BY <1>3
<1>5. Len(s \o t) = Len(s) + Len(t)
  BY <1>3
<1>6. \A j \in 1..(Len(s) + Len(t)) :
        (s \o t)[j] = IF j <= Len(s) THEN s[j] ELSE t[j - Len(s)]
  BY <1>3
<1> QED
  BY <1>4, <1>5, <1>6 DEF IsSeq

LEMMA SubSeqFacts ==
  ASSUME NEW s, IsSeq(s), NEW n \in 1..(Len(s) + 1)
  PROVE  /\ IsSeq(SubSeq(s, n, Len(s))) /\ Len(SubSeq(s, n, Len(s))) = Len(s) - n + 1
         /\ \A j \in 1..(Len(s) - n + 1) : SubSeq(s, n, Len(s))[j] = s[n + j - 1]
<1>1. PICK S : s \in Seq(S)
  BY DEF IsSeq
<1>2. SubSeq(s, n, Len(s)) \in Seq(S)
  BY <1>1
<1>3. Len(SubSeq(s, n, Len(s))) = Len(s) - n + 1
  BY <1>1
<1>4. \A j \in 1..(Len(s) - n + 1) : SubSeq(s, n, Len(s))[j] = s[n + j - 1]
  BY <1>1
<1> QED
  BY <1>2, <1>3, <1>4 DEF IsSeq

LEMMA ShortSeqs ==
  ASSUME NEW x
  PROVE  /\ IsSeq(<<>>) /\ Len(<<>>) = 0
         /\ IsSeq(<<x>>) /\ Len(<<x>>) = 1 /\ <<x>>[1] = x
<1>1. <<>> \in Seq({}) /\ <<x>> \in Seq({x})
  OBVIOUS
<1> QED
  BY <1>1 DEF IsSeq

\* Sequences of the same length with the same elements.
LEMMA SameElements ==
  ASSUME NEW s, IsSeq(s), NEW r, IsSeq(r), Len(s) = Len(r),
         \A j \in 1..Len(s) : s[j] = r[j]
  PROVE  s = r
<1>1. PICK A : s \in Seq(A)
  BY DEF IsSeq
<1>2. PICK B : r \in Seq(B)
  BY DEF IsSeq
<1> QED
  BY <1>1, <1>2

\* The first i of the sequences joined, given f for fewer.
Joined(seqs, f, i) == IF i = 1 THEN seqs[i] ELSE f[i-1] \o seqs[i]

Joins(seqs, f, n) == f = [i \in 1..n |-> Joined(seqs, f, i)]

LEMMA JoinExtended ==
  ASSUME NEW seqs, NEW n \in Nat, NEW f, Joins(seqs, f, n)
  PROVE  \E g : Joins(seqs, g, n + 1)
<1> DEFINE g == [i \in 1..(n + 1) |-> Joined(seqs, f, i)]
<1>1. \A i \in 1..n : g[i] = f[i]
  BY DEF Joins
<1>2. ASSUME NEW i \in 1..(n + 1)
      PROVE  Joined(seqs, f, i) = Joined(seqs, g, i)
  <2>1. i # 1 => f[i-1] = g[i-1]
    <3>1. i # 1 => i - 1 \in 1..n
      OBVIOUS
    <3> HIDE DEF g
    <3> QED
      BY <1>1, <3>1
  <2> HIDE DEF g
  <2> QED
    BY <2>1 DEF Joined
<1>3. g = [i \in 1..(n + 1) |-> Joined(seqs, g, i)]
  BY <1>2
<1> QED
  BY <1>3 DEF Joins

LEMMA JoinExists ==
  ASSUME NEW seqs, NEW n \in Nat
  PROVE  \E f : Joins(seqs, f, n)
<1> DEFINE S == {m \in Nat : \E f : Joins(seqs, f, m)}
<1>1. 0 \in S
  <2> DEFINE f == [i \in 1..0 |-> seqs]
  <2>1. Joins(seqs, f, 0)
    BY DEF Joins
  <2> QED
    BY <2>1
<1>2. ASSUME NEW m \in Nat, m \in S PROVE m + 1 \in S
  BY <1>2, JoinExtended
<1> HIDE DEF S
<1>3. n \in S
  BY <1>1, <1>2, InductionOverNat
<1> QED
  BY <1>3 DEF S

\* Joining sequences over a set gives a sequence over the set.
LEMMA FlattenTyped ==
  ASSUME NEW S, NEW n \in Nat, NEW seqs \in [1..n -> Seq(S)]
  PROVE  FlattenSeq(seqs) \in Seq(S)
<1>1. Len(seqs) = n
  <2>1. seqs \in Seq(Seq(S))
    OBVIOUS
  <2> QED
    BY <2>1
<1>2. CASE n = 0
  <2>1. seqs = <<>>
    BY <1>2
  <2>2. <<>> \in Seq(S)
    OBVIOUS
  <2> QED
    BY <1>1, <1>2, <2>1, <2>2 DEF FlattenSeq
<1>3. CASE n # 0
  <2>1. \E f : f = [i \in 1..Len(seqs) |-> Joined(seqs, f, i)]
    BY <1>1, JoinExists DEF Joins
  <2>2. Len(seqs) # 0
    BY <1>1, <1>3
  <2>3. \E f : /\ f = [i \in 1..Len(seqs) |-> Joined(seqs, f, i)]
               /\ FlattenSeq(seqs) = f[Len(seqs)]
    BY <2>1, <2>2, Zenon DEF FlattenSeq, Joined
  <2>4. PICK f : /\ f = [i \in 1..n |-> Joined(seqs, f, i)]
                 /\ FlattenSeq(seqs) = f[n]
    BY <1>1, <2>3
  <2> DEFINE Q == {m \in Nat : m \in 1..n => f[m] \in Seq(S)}
  <2>5. 0 \in Q
    OBVIOUS
  <2>6. ASSUME NEW m \in Nat, m \in Q PROVE m + 1 \in Q
    <3> SUFFICES ASSUME m + 1 \in 1..n PROVE f[m + 1] \in Seq(S)
      OBVIOUS
    <3>1. f[m + 1] = Joined(seqs, f, m + 1) /\ seqs[m + 1] \in Seq(S)
      BY <2>4
    <3>2. CASE m = 0
      BY <3>1, <3>2 DEF Joined
    <3>3. CASE m # 0
      <4>1. m \in 1..n /\ (m + 1) - 1 = m /\ m + 1 # 1
        BY <3>3
      <4>2. f[m] \in Seq(S)
        BY <2>6, <4>1
      <4>3. f[m + 1] = f[m] \o seqs[m + 1]
        BY <3>1, <4>1 DEF Joined
      <4>4. \A a, b \in Seq(S) : a \o b \in Seq(S)
        OBVIOUS
      <4> QED
        BY <3>1, <4>2, <4>3, <4>4
    <3> QED
      BY <3>2, <3>3
  <2> HIDE DEF Q
  <2>7. n \in Q
    BY <2>5, <2>6, InductionOverNat
  <2> QED
    BY <1>3, <2>4, <2>7 DEF Q
<1> QED
  BY <1>2, <1>3

-----------------------------------------------------------------------------
(* Key sequences.                                                          *)

KeySeq(s) == IsSeq(s) /\ \A j \in 1..Len(s) : s[j].op = "key"

LEMMA KeysJoined ==
  ASSUME NEW n \in Nat, NEW seqs, seqs = [i \in 1..n |-> seqs[i]],
         \A i \in 1..n : KeySeq(seqs[i])
  PROVE  KeySeq(FlattenSeq(seqs))
<1> DEFINE R == {seqs[q[1]][q[2]] : q \in (1..n) \X Nat}
           S == {x \in R : x.op = "key"}
<1>1. ASSUME NEW i \in 1..n PROVE seqs[i] \in Seq(S)
  <2>1. KeySeq(seqs[i])
    OBVIOUS
  <2>2. PICK s : s = seqs[i]
    OBVIOUS
  <2>3. ASSUME NEW j \in 1..Len(s) PROVE s[j] \in S
    <3>1. j \in Nat /\ s[j].op = "key"
      BY <2>1, <2>2, SeqFacts DEF KeySeq
    <3>2. <<i, j>> \in (1..n) \X Nat
      BY <3>1
    <3>3. s[j] \in R
      BY <2>2, <3>2
    <3> QED
      BY <3>1, <3>3
  <2>4. Len(s) \in Nat /\ s = [j \in 1..Len(s) |-> s[j]]
    BY <2>1, <2>2, SeqFacts DEF KeySeq
  <2> HIDE DEF S
  <2>5. s \in Seq(S)
    BY <2>3, <2>4
  <2> QED
    BY <2>2, <2>5
<1>2. seqs \in [1..n -> Seq(S)]
  <2> HIDE DEF S
  <2> QED BY <1>1
<1>3. FlattenSeq(seqs) \in Seq(S)
  <2> HIDE DEF S
  <2> QED BY <1>2, FlattenTyped
<1>4. \A x \in S : x.op = "key"
  OBVIOUS
<1> HIDE DEF S
<1>5. \A j \in 1..Len(FlattenSeq(seqs)) : FlattenSeq(seqs)[j] \in S
  BY <1>3
<1> QED
  BY <1>3, <1>4, <1>5 DEF KeySeq, IsSeq

LEMMA KeysThenKeys ==
  ASSUME NEW s, NEW r, KeySeq(s), KeySeq(r)
  PROVE  KeySeq(s \o r)
<1>1. /\ IsSeq(s \o r) /\ Len(s \o r) = Len(s) + Len(r)
      /\ \A j \in 1..(Len(s) + Len(r)) :
           (s \o r)[j] = IF j <= Len(s) THEN s[j] ELSE r[j - Len(s)]
  BY ConcatFacts DEF KeySeq
<1>2. Len(s) \in Nat /\ Len(r) \in Nat
  BY SeqFacts DEF KeySeq
<1>3. ASSUME NEW j \in 1..Len(s \o r) PROVE (s \o r)[j].op = "key"
  <2>1. CASE j <= Len(s)
    BY <1>1, <1>2, <2>1 DEF KeySeq
  <2>2. CASE ~(j <= Len(s))
    <3>1. j - Len(s) \in 1..Len(r)
      BY <1>1, <1>2, <2>2
    <3> QED
      BY <1>1, <2>2, <3>1 DEF KeySeq
  <2> QED
    BY <2>1, <2>2
<1> QED
  BY <1>1, <1>3 DEF KeySeq

LEMMA NoKeys == KeySeq(<<>>)
<1>1. IsSeq(<<>>) /\ Len(<<>>) = 0
  BY ShortSeqs
<1> QED
  BY <1>1 DEF KeySeq

LEMMA OneKey ==
  ASSUME NEW to, NEW mode, NEW code
  PROVE  KeySeq(<<Write(to, mode, code)>>)
<1>1. PICK w : w = Write(to, mode, code)
  OBVIOUS
<1>2. w.op = "key"
  BY <1>1 DEF Write
<1> QED
  BY <1>1, <1>2, ShortSeqs DEF KeySeq

LEMMA SendKeyIsKeys ==
  ASSUME NEW code, NEW mode
  PROVE  KeySeq(send_key(code, mode)) /\ KeySeq(inject_key(code, mode))
<1>1. KeySeq(send_key(code, mode))
  BY OneKey DEF send_key
<1>2. KeySeq(inject_key(code, mode))
  BY OneKey DEF inject_key
<1> QED
  BY <1>1, <1>2

LEMMA UpToTyped ==
  ASSUME NEW n \in Nat
  PROVE  Len(UpTo(n)) = n /\ \A i \in 1..n : UpTo(n)[i] = i
<1>1. UpTo(n) \in Seq(Nat)
  BY DEF UpTo
<1> QED
  BY <1>1 DEF UpTo

LEMMA StepsAreKeys ==
  ASSUME NEW n \in Int, NEW back, NEW ahead
  PROVE  KeySeq(Steps(n, back, ahead))
<1>1. PICK m : m = IF n < 0 THEN -n ELSE n
  OBVIOUS
<1>2. m \in Nat /\ Len(UpTo(m)) = m
  BY <1>1, UpToTyped
<1>3. PICK c : c = IF n < 0 THEN back ELSE ahead
  OBVIOUS
<1> DEFINE seqs == [i \in 1..m |-> send_key(c, SENDMODE_NORMAL)]
<1>4. Steps(n, back, ahead) = FlattenSeq(seqs)
  BY <1>1, <1>2, <1>3 DEF Steps, Concat
<1>5. seqs = [i \in 1..m |-> seqs[i]] /\ \A i \in 1..m : KeySeq(seqs[i])
  BY SendKeyIsKeys
<1> HIDE DEF seqs
<1> QED
  BY <1>2, <1>4, <1>5, KeysJoined

\* The tables: every symbol has its steps.
LEMMA StepsTyped ==
  ASSUME NEW d \in {kdxg_s, k3_s}, NEW i \in DOMAIN d
  PROVE  d[i][1] \in Int /\ d[i][2] \in Int
<1>1. CASE d = kdxg_s
  BY <1>1 DEF kdxg_s
<1>2. CASE d = k3_s
  BY <1>2 DEF k3_s
<1> QED
  BY <1>1, <1>2

LEMMA EntryTyped ==
  ASSUME NEW c, NEW index, NEW d \in {kdxg_s, k3_s}, \A k \in index : k[2] \in DOMAIN d,
         Entry(c, index, d).sym # <<>>
  PROVE  Entry(c, index, d).sym[1] \in Int /\ Entry(c, index, d).sym[2] \in Int
<1>1. Entry(c, index, d).sym = IF \E k \in index : k[1] = c
                                 THEN d[(CHOOSE k \in index : k[1] = c)[2]] ELSE <<>>
  BY DEF Entry
<1>2. PICK k \in index : Entry(c, index, d).sym = d[k[2]]
  BY <1>1
<1> QED
  BY <1>2, StepsTyped

LEMMA KdxgIndexTyped == \A k \in kdxg_index : k[2] \in 0..31
  BY SMTT(60) DEF kdxg_index

LEMMA K3IndexTyped == \A k \in k3_index : k[2] \in 0..47
  BY SMTT(60) DEF k3_index

LEMMA SymbolTyped ==
  ASSUME NEW k3, NEW c \in Nat, char_kindle_fw_sequence(k3, c) # <<>>
  PROVE  /\ char_kindle_fw_sequence(k3, c)[1] \in Int
         /\ char_kindle_fw_sequence(k3, c)[2] \in Int
<1>1. c % 128 \in 0..127
  OBVIOUS
<1>2. DOMAIN kdxg_s = 0..31 /\ DOMAIN k3_s = 0..47
  BY DEF kdxg_s, k3_s
<1>3. /\ kdxg_asciitab[c % 128] = Entry(c % 128, kdxg_index, kdxg_s)
      /\ k3_asciitab[c % 128] = Entry(c % 128, k3_index, k3_s)
  BY <1>1 DEF kdxg_asciitab, k3_asciitab
<1>4. /\ \A k \in kdxg_index : k[2] \in 0..31
      /\ \A k \in k3_index : k[2] \in 0..47
  BY KdxgIndexTyped, K3IndexTyped
<1>5. CASE k3
  BY <1>2, <1>3, <1>4, <1>5, EntryTyped DEF char_kindle_fw_sequence, ascii_char
<1>6. CASE ~k3
  BY <1>2, <1>3, <1>4, <1>6, EntryTyped DEF char_kindle_fw_sequence, ascii_char
<1> QED
  BY <1>5, <1>6

LEMMA InputKeyIsKeys ==
  ASSUME NEW k3, NEW c \in Nat
  PROVE  KeySeq(send_kindle_input_key(k3, c))
<1>1. PICK sym : sym = char_kindle_fw_sequence(k3, c)
  OBVIOUS
<1>2. PICK key : key = IF k3 THEN K3KEY ELSE KPKEY
  OBVIOUS
<1>3. CASE sym = <<>>
  BY <1>1, <1>3, SendKeyIsKeys DEF send_kindle_input_key
<1>4. CASE sym # <<>>
  <2>1. sym[1] \in Int /\ sym[2] \in Int
    BY <1>1, <1>4, SymbolTyped
  <2>2. PICK last : last = IF k3 THEN send_key(key.SYM, SENDMODE_NORMAL) ELSE <<>>
    OBVIOUS
  <2>3. KeySeq(last)
    BY <2>2, SendKeyIsKeys, NoKeys
  <2>4. /\ KeySeq(Steps(sym[1], key.FW_LEFT, key.FW_RIGHT))
        /\ KeySeq(Steps(sym[2], key.FW_UP, key.FW_DOWN))
    BY <2>1, StepsAreKeys
  <2>5. /\ KeySeq(send_key(key.SYM, SENDMODE_NORMAL))
        /\ KeySeq(send_key(key.FW_PRESS, SENDMODE_NORMAL))
    BY SendKeyIsKeys
  <2>6. send_kindle_input_key(k3, c) =
          send_key(key.SYM, SENDMODE_NORMAL)
          \o Steps(sym[1], key.FW_LEFT, key.FW_RIGHT)
          \o Steps(sym[2], key.FW_UP, key.FW_DOWN)
          \o send_key(key.FW_PRESS, SENDMODE_NORMAL)
          \o last
    BY <1>1, <1>2, <1>4, <2>2, Zenon DEF send_kindle_input_key
  <2> QED
    BY <2>3, <2>4, <2>5, <2>6, KeysThenKeys
<1> QED
  BY <1>3, <1>4

LEMMA KindleStringIsKeys ==
  ASSUME NEW k3, NEW s \in Seq(Nat)
  PROVE  KeySeq(send_kindle_ascii_string(k3, s))
<1> DEFINE seqs == [i \in 1..Len(s) |-> send_kindle_input_key(k3, s[i])]
<1>1. send_kindle_ascii_string(k3, s) = FlattenSeq(seqs)
  BY DEF send_kindle_ascii_string, Concat
<1>2. seqs = [i \in 1..Len(s) |-> seqs[i]] /\ \A i \in 1..Len(s) : KeySeq(seqs[i])
  BY InputKeyIsKeys
<1>3. Len(s) \in Nat
  OBVIOUS
<1> HIDE DEF seqs
<1> QED
  BY <1>1, <1>2, <1>3, KeysJoined

LEMMA UnescapedTyped ==
  ASSUME NEW s \in Seq(Nat)
  PROVE  Unescaped(s) \in Seq(Nat)
<1> DEFINE screens == CHOOSE f : f = [i \in 0..Len(s) |->
                                   i > 0 /\ ~f[i - 1] /\ s[i] = 92 /\ i < Len(s)]
<1>1. Unescaped(s) = Concat(LAMBDA i : IF screens[i] THEN <<>> ELSE <<s[i]>>, UpTo(Len(s)))
  BY Zenon DEF Unescaped
<1> HIDE DEF screens
<1>2. Len(s) \in Nat
  OBVIOUS
<1> DEFINE seqs == [i \in 1..Len(s) |-> IF screens[i] THEN <<>> ELSE <<s[i]>>]
<1>3. Len(UpTo(Len(s))) = Len(s) /\ \A i \in 1..Len(s) : UpTo(Len(s))[i] = i
  BY <1>2, UpToTyped
<1>4. Unescaped(s) = FlattenSeq(seqs)
  BY <1>1, <1>3 DEF Concat
<1>5. seqs \in [1..Len(s) -> Seq(Nat)]
  <2>1. <<>> \in Seq(Nat) /\ \A i \in 1..Len(s) : <<s[i]>> \in Seq(Nat)
    OBVIOUS
  <2> QED
    BY <2>1
<1> HIDE DEF seqs
<1> QED
  BY <1>2, <1>4, <1>5, FlattenTyped

LEMMA StringIsKeys ==
  ASSUME NEW k3, NEW s \in Seq(Nat)
  PROVE  KeySeq(send_ascii_string(k3, s))
<1>1. PICK u : u = Unescaped(s)
  OBVIOUS
<1>2. Len(u) \in Nat
  BY <1>1, UnescapedTyped
<1> DEFINE seqs == [i \in 1..Len(u) |-> send_key(char_keypad_code(k3, u[i]), char_send_mode(k3, u[i]))]
<1>3. send_ascii_string(k3, s) = FlattenSeq(seqs)
  BY <1>1 DEF send_ascii_string, Concat
<1>4. seqs = [i \in 1..Len(u) |-> seqs[i]] /\ \A i \in 1..Len(u) : KeySeq(seqs[i])
  BY SendKeyIsKeys
<1> HIDE DEF seqs
<1> QED
  BY <1>2, <1>3, <1>4, KeysJoined

LEMMA QuotedStringIsKeys ==
  ASSUME NEW k3, NEW s \in Seq(Nat)
  PROVE  KeySeq(send_quoted_string(k3, s))
<1> DEFINE seqs == [i \in 1..Len(s) |-> inject_ascii_char(k3, s[i])]
<1>1. send_quoted_string(k3, s) = FlattenSeq(seqs)
  BY DEF send_quoted_string, Concat
<1>2. \A c : KeySeq(inject_ascii_char(k3, c))
  BY SendKeyIsKeys, NoKeys DEF inject_ascii_char
<1>3. seqs = [i \in 1..Len(s) |-> seqs[i]] /\ \A i \in 1..Len(s) : KeySeq(seqs[i])
  BY <1>2
<1>4. Len(s) \in Nat
  OBVIOUS
<1> HIDE DEF seqs
<1> QED
  BY <1>1, <1>3, <1>4, KeysJoined

-----------------------------------------------------------------------------
(* Words.                                                                  *)

LEMMA TextTyped ==
  ASSUME NEW w \in CommandWord
  PROVE  Text(w) \in Seq(Nat)
<1>1. w.open \in Nat /\ w.close \in Nat /\ w.chars \in Seq(Nat)
  BY DEF CommandWord
<1>2. PICK a : a = IF w.open = 0 THEN <<>> ELSE <<w.open>>
  OBVIOUS
<1>3. PICK b : b = IF w.close = 0 THEN <<>> ELSE <<w.close>>
  OBVIOUS
<1>4. <<>> \in Seq(Nat) /\ <<w.open>> \in Seq(Nat) /\ <<w.close>> \in Seq(Nat)
  BY <1>1
<1>5. a \in Seq(Nat) /\ b \in Seq(Nat)
  BY <1>2, <1>3, <1>4
<1>6. Text(w) = a \o w.chars \o b
  BY <1>2, <1>3 DEF Text
<1> QED
  BY <1>1, <1>5, <1>6

LEMMA InsideTyped ==
  ASSUME NEW w \in CommandWord
  PROVE  Inside(w) \in Seq(Nat)
<1>1. w.chars \in Seq(Nat)
  BY DEF CommandWord
<1>2. CASE w.close # 0 \/ w.chars = <<>>
  BY <1>1, <1>2 DEF Inside
<1>3. CASE ~(w.close # 0 \/ w.chars = <<>>)
  <2>1. Len(w.chars) - 1 \in Nat
    BY <1>1, <1>3
  <2>2. SubSeq(w.chars, 1, Len(w.chars) - 1) \in Seq(Nat)
    BY <1>1, <2>1
  <2> QED
    BY <1>3, <2>2 DEF Inside, Front
<1> QED
  BY <1>2, <1>3

LEMMA TokenIsKeys ==
  ASSUME NEW k3, NEW w \in CommandWord
  PROVE  KeySeq(script_token(k3, w)) /\ KeySeq(send_token(k3, w))
<1>1. w.chars \in Seq(Nat) /\ Inside(w) \in Seq(Nat) /\ Text(w) \in Seq(Nat)
  BY InsideTyped, TextTyped DEF CommandWord
<1>2. (IF Inside(w) = <<>> THEN 0 ELSE Inside(w)[1]) \in Nat
  BY <1>1
<1>3. PICK c \in Nat : c = IF Inside(w) = <<>> THEN 0 ELSE Inside(w)[1]
  BY <1>2
<1>4. KeySeq(script_token(k3, w))
  <2>1. KeySeq(send_kindle_input_key(k3, c))
    BY InputKeyIsKeys
  <2>2. /\ KeySeq(send_kindle_ascii_string(k3, Inside(w)))
        /\ KeySeq(send_kindle_ascii_string(k3, Text(w)))
    BY <1>1, KindleStringIsKeys
  <2>3. PICK m, code : KeySeq(send_key(code, m)) /\ script_token(k3, w) =
          IF w.open = 39
            THEN IF code # NoCode THEN send_key(code, m) ELSE send_kindle_input_key(k3, c)
          ELSE send_kindle_ascii_string(k3, IF w.open = 34 THEN Inside(w) ELSE Text(w))
    BY <1>3, SendKeyIsKeys DEF script_token
  <2> QED
    BY <2>1, <2>2, <2>3
<1>5. KeySeq(send_token(k3, w))
  BY <1>1, QuotedStringIsKeys, SendKeyIsKeys DEF send_token
<1> QED
  BY <1>4, <1>5

LEMMA SplitTyped ==
  ASSUME NEW w \in CommandWord
  PROVE  SplitAtBlanks(w) \in Seq(CommandWord)
<1> DEFINE n == Len(w.chars)
           blank(i) == i \in {0, n + 1} \/ w.chars[i] = 32
           end(i) == Min({j \in i..(n + 1) : blank(j)})
           piece(i) == [w EXCEPT !.chars = SubSeq(@, i, end(i) - 1),
                                 !.open = IF i = 1 THEN @ ELSE 0,
                                 !.close = IF end(i) = n + 1 THEN @ ELSE 0]
           op(i) == IF blank(i - 1) /\ Text(piece(i)) # <<>> THEN <<piece(i)>> ELSE <<>>
           seqs == [i \in 1..(n + 1) |-> op(i)]
<1>1. /\ w.open \in Nat /\ w.close \in Nat /\ w.chars \in Seq(Nat) /\ w.name \in KeyName
      /\ n \in Nat
  BY DEF CommandWord
<1>2. ASSUME NEW i \in 1..(n + 1) PROVE piece(i) \in CommandWord
  <2>1. PICK A : A = {j \in i..(n + 1) : blank(j)}
    OBVIOUS
  <2>2. A \subseteq Nat /\ n + 1 \in A
    BY <1>1, <2>1
  <2>3. \E x \in A : \A y \in A : x <= y
    BY <2>2, LeastOfNats
  <2>4. Min(A) \in A
    BY <2>3 DEF Min
  <2>5. end(i) \in i..(n + 1)
    BY <2>1, <2>4
  <2> HIDE DEF end
  <2>6. SubSeq(w.chars, i, end(i) - 1) \in Seq(Nat)
    BY <1>1, <2>5
  <2> QED
    BY <1>1, <2>6 DEF CommandWord
<1>3. SplitAtBlanks(w) = IF \A i \in 1..n : w.chars[i] # 32 THEN <<w>> ELSE FlattenSeq(seqs)
  <2>1. Len(UpTo(n + 1)) = n + 1 /\ \A i \in 1..(n + 1) : UpTo(n + 1)[i] = i
    BY <1>1, UpToTyped
  <2>2. SplitAtBlanks(w) = IF \A i \in 1..n : w.chars[i] # 32 THEN <<w>>
                           ELSE FlattenSeq([i \in 1..Len(UpTo(n + 1)) |-> op(UpTo(n + 1)[i])])
    BY DEF SplitAtBlanks, Concat
  <2>3. [i \in 1..Len(UpTo(n + 1)) |-> op(UpTo(n + 1)[i])] = seqs
    <3> HIDE DEF op, n
    <3> QED
      BY <2>1
  <2> QED
    BY <2>2, <2>3, Zenon
<1>4. seqs \in [1..(n + 1) -> Seq(CommandWord)]
  <2>1. <<>> \in Seq(CommandWord) /\ \A i \in 1..(n + 1) : <<piece(i)>> \in Seq(CommandWord)
    <3> HIDE DEF piece
    <3> QED BY <1>2
  <2>2. ASSUME NEW i \in 1..(n + 1) PROVE op(i) \in Seq(CommandWord)
    <3> HIDE DEF piece, blank
    <3> QED BY <2>1
  <2> HIDE DEF op
  <2> QED
    BY <2>2
<1>5. <<w>> \in Seq(CommandWord) /\ n + 1 \in Nat
  BY <1>1
<1> HIDE DEF seqs, n
<1>6. FlattenSeq(seqs) \in Seq(CommandWord)
  BY <1>4, <1>5, FlattenTyped
<1> QED
  BY <1>3, <1>5, <1>6

LEMMA WordsSplit ==
  ASSUME NEW words \in Seq(CommandWord)
  PROVE  Concat(SplitAtBlanks, words) \in Seq(CommandWord)
<1> DEFINE seqs == [i \in 1..Len(words) |-> SplitAtBlanks(words[i])]
<1>1. Concat(SplitAtBlanks, words) = FlattenSeq(seqs)
  BY DEF Concat
<1>2. seqs \in [1..Len(words) -> Seq(CommandWord)] /\ Len(words) \in Nat
  BY SplitTyped
<1> HIDE DEF seqs
<1> QED
  BY <1>1, <1>2, FlattenTyped

\* A script, a list of keys and the command of either daemon send keys and do
\* nothing else.
LEMMA ScriptIsKeys ==
  ASSUME NEW k3, NEW tokens \in Seq(CommandWord)
  PROVE  KeySeq(process_kindle_script(k3, tokens))
<1>1. PICK kept : kept = SubSeq(tokens, 2, Min({Len(tokens), 65}))
  OBVIOUS
<1>2. Len(tokens) \in Nat /\ Min({Len(tokens), 65}) \in Nat /\ Min({Len(tokens), 65}) <= Len(tokens)
  BY MinOfTwo
<1>3. kept \in Seq(CommandWord)
  <2>1. PICK m \in Nat : m = Min({Len(tokens), 65}) /\ m <= Len(tokens)
    BY <1>2
  <2>a. kept = SubSeq(tokens, 2, m)
    BY <1>1, <2>1
  <2>2. CASE m >= 1
    <3>1. ASSUME NEW S, NEW s \in Seq(S), m <= Len(s) PROVE SubSeq(s, 2, m) \in Seq(S)
      BY <2>2, <3>1
    <3> QED
      BY <2>a, <2>1, <3>1
  <2>3. CASE m = 0
    <3>1. Len(tokens) = 0
      <4>1. m = IF Len(tokens) <= 65 THEN Len(tokens) ELSE 65
        BY <1>2, <2>1, MinOfTwo
      <4> QED
        BY <1>2, <2>3, <4>1
    <3>2. ASSUME NEW S, NEW s \in Seq(S), Len(s) = 0 PROVE SubSeq(s, 2, 0) \in Seq(S)
      BY <3>2
    <3> QED
      BY <2>a, <2>3, <3>1, <3>2
  <2> QED
    BY <2>2, <2>3
<1>4. PICK s : s = IF kept = <<>> THEN kept ELSE Front(kept)
  OBVIOUS
<1>5. s \in Seq(CommandWord)
  <2>1. CASE kept = <<>>
    BY <1>3, <1>4, <2>1
  <2>2. CASE kept # <<>>
    <3>1. Len(kept) - 1 \in Nat
      BY <1>3, <2>2
    <3>2. SubSeq(kept, 1, Len(kept) - 1) \in Seq(CommandWord)
      BY <1>3, <3>1
    <3> QED
      BY <1>4, <2>2, <3>2 DEF Front
  <2> QED
    BY <2>1, <2>2
<1> DEFINE seqs == [i \in 1..Len(s) |-> script_token(k3, s[i])]
<1>6. process_kindle_script(k3, tokens) = FlattenSeq(seqs)
  BY <1>1, <1>4 DEF process_kindle_script, Concat
<1>7. /\ seqs = [i \in 1..Len(s) |-> seqs[i]] /\ \A i \in 1..Len(s) : KeySeq(seqs[i])
      /\ Len(s) \in Nat
  BY <1>5, TokenIsKeys
<1> HIDE DEF seqs
<1> QED
  BY <1>6, <1>7, KeysJoined

LEMMA CommandIsKeys ==
  ASSUME NEW k3, NEW words \in Seq(CommandWord)
  PROVE  KeySeq(process_sendkeys_command(k3, words))
<1> DEFINE op(w) == LET code == CodeOf(w.name, w.chars) IN
                      IF w.open = 34 THEN send_ascii_string(k3, w.chars)
                      ELSE IF w.open = 0 /\ code # NoCode THEN send_key(code, SENDMODE_NORMAL)
                      ELSE send_ascii_string(k3, Text(w))
           seqs == [i \in 1..Len(words) |-> op(words[i])]
<1>1. process_sendkeys_command(k3, words) = FlattenSeq(seqs)
  BY DEF process_sendkeys_command, Concat
<1>2. ASSUME NEW w \in CommandWord PROVE KeySeq(op(w))
  <2>1. KeySeq(send_ascii_string(k3, w.chars)) /\ KeySeq(send_ascii_string(k3, Text(w)))
    BY TextTyped, StringIsKeys DEF CommandWord
  <2> QED
    BY <2>1, SendKeyIsKeys
<1> HIDE DEF op
<1>3. /\ seqs = [i \in 1..Len(words) |-> seqs[i]] /\ \A i \in 1..Len(words) : KeySeq(seqs[i])
      /\ Len(words) \in Nat
  BY <1>2
<1> HIDE DEF seqs
<1> QED
  BY <1>1, <1>3, KeysJoined

LEMMA SendKeysIsKeys ==
  ASSUME NEW k3, NEW words \in Seq(CommandWord)
  PROVE  KeySeq(execute_send_keys(k3, words))
<1>1. PICK s : s = Concat(SplitAtBlanks, words)
  OBVIOUS
<1>2. s \in Seq(CommandWord)
  BY <1>1, WordsSplit
<1> DEFINE seqs == [i \in 1..Len(s) |-> send_token(k3, s[i])]
<1>3. execute_send_keys(k3, words) = FlattenSeq(seqs)
  <2>1. execute_send_keys(k3, words) = Concat(LAMBDA w : send_token(k3, w), s)
    BY <1>1 DEF execute_send_keys
  <2> QED
    BY <2>1 DEF Concat
<1>4. /\ seqs = [i \in 1..Len(s) |-> seqs[i]] /\ \A i \in 1..Len(s) : KeySeq(seqs[i])
      /\ Len(s) \in Nat
  BY <1>2, TokenIsKeys
<1> HIDE DEF seqs
<1> QED
  BY <1>3, <1>4, KeysJoined

-----------------------------------------------------------------------------
(* The programs of the daemons; c tells whether it is the C++ daemon.      *)

FirstOp(c) == IF c THEN "show_status" ELSE "show"
LastOp(c) == IF c THEN "hide_status" ELSE "hide"
RowOp(c) == IF c THEN "write_row" ELSE "row"

\* Instructions while the bar is shown.
InsideOps(c) ==
  IF c THEN {"run_command", "show_result", "draw"}
  ELSE {"text", "invert", "unflash", "result", "script", "key", "system"}

\* The rest of a program when the bar is shown: it ends with the instruction
\* that takes the bar away, and a flash has both of its halves.
BarProgram(c, t) ==
  /\ IsSeq(t) /\ Len(t) > 0 /\ t[Len(t)].op = LastOp(c)
  /\ \A j \in 1..(Len(t) - 1) :
       /\ t[j].op \in InsideOps(c)
       /\ t[j].op = "text" => IsSeq(t[j].text)
       /\ t[j].op = "invert" => t[j + 1].op = "unflash"

ShowProgram(c, t) ==
  IsSeq(t) /\ Len(t) > 0 /\ t[1].op = FirstOp(c) /\ BarProgram(c, Tail(t))

\* What follows the rows of a screenshot.
RowsThen(c, rest) == IF c THEN rest = <<>> ELSE ShowProgram(FALSE, rest)

\* The rest of a screenshot when n rows have been written.
RowProgram(c, t, n) ==
  /\ IsSeq(t)
  /\ \A j \in 1..(YRES - n) : t[j].op = RowOp(c) /\ t[j].row = n + j - 1
  /\ \E rest : /\ RowsThen(c, rest) /\ Len(t) = YRES - n + Len(rest)
               /\ \A j \in 1..Len(rest) : t[YRES - n + j] = rest[j]

OpenProgram(c, t) ==
  IsSeq(t) /\ Len(t) > 0 /\ t[1].op = "open" /\ RowProgram(c, Tail(t), 0)

\* Keys that the C++ daemon sends without showing the bar.
KeyProgram(t) ==
  /\ IsSeq(t) /\ Len(t) > 0 /\ t[Len(t)].op = "hide_status"
  /\ \A j \in 1..(Len(t) - 1) : t[j].op = "key"

LEMMA Prepended ==
  ASSUME NEW x, NEW t, IsSeq(t)
  PROVE  /\ IsSeq(<<x>> \o t) /\ Len(<<x>> \o t) = Len(t) + 1
         /\ (<<x>> \o t)[1] = x /\ Tail(<<x>> \o t) = t
         /\ \A j \in 1..Len(t) : (<<x>> \o t)[j + 1] = t[j]
<1>1. PICK s : s = <<x>>
  OBVIOUS
<1>2. IsSeq(s) /\ Len(s) = 1 /\ s[1] = x /\ Len(t) \in Nat
  BY <1>1, ShortSeqs, SeqFacts
<1>3. /\ IsSeq(s \o t) /\ Len(s \o t) = 1 + Len(t)
      /\ \A j \in 1..(1 + Len(t)) : (s \o t)[j] = IF j <= 1 THEN s[j] ELSE t[j - 1]
  BY <1>2, ConcatFacts
<1>4. PICK r : r = s \o t
  OBVIOUS
<1>5. Len(r) = Len(t) + 1 /\ r[1] = x /\ \A j \in 1..Len(t) : r[j + 1] = t[j]
  BY <1>2, <1>3, <1>4
<1>6. /\ IsSeq(Tail(r)) /\ Len(Tail(r)) = Len(t)
      /\ \A j \in 1..Len(t) : Tail(r)[j] = r[j + 1]
  <2>1. PICK n \in Nat : n = Len(t)
    BY <1>2
  <2>2. IsSeq(r) /\ Len(r) = n + 1 /\ Len(r) > 0
    BY <1>3, <1>4, <1>5, <2>1
  <2>3. /\ IsSeq(Tail(r)) /\ Len(Tail(r)) = Len(r) - 1
        /\ \A j \in 1..(Len(r) - 1) : Tail(r)[j] = r[j + 1]
    BY <2>2, SeqFacts
  <2>4. Len(r) - 1 = n
    BY <2>2
  <2> QED
    BY <2>1, <2>3, <2>4
<1>7. Tail(r) = t
  BY <1>5, <1>6, SameElements
<1> QED
  BY <1>1, <1>3, <1>4, <1>5, <1>7

LEMMA Associative ==
  ASSUME NEW s, NEW t, NEW u, IsSeq(s), IsSeq(t), IsSeq(u)
  PROVE  (s \o t) \o u = s \o (t \o u)
<1>1. PICK A : s \in Seq(A)
  BY DEF IsSeq
<1>2. PICK B : t \in Seq(B)
  BY DEF IsSeq
<1>3. PICK C : u \in Seq(C)
  BY DEF IsSeq
<1>4. PICK D : D = A \cup B \cup C
  OBVIOUS
<1>5. s \in Seq(D) /\ t \in Seq(D) /\ u \in Seq(D)
  BY <1>1, <1>2, <1>3, <1>4
<1> QED
  BY <1>5

LEMMA LastIsNotInside ==
  ASSUME NEW c \in BOOLEAN
  PROVE  LastOp(c) \notin InsideOps(c) /\ FirstOp(c) \notin InsideOps(c) \cup {LastOp(c)}
<1>1. CASE c = TRUE
  BY <1>1 DEF LastOp, FirstOp, InsideOps
<1>2. CASE c = FALSE
  BY <1>2 DEF LastOp, FirstOp, InsideOps
<1> QED
  BY <1>1, <1>2

\* The next instruction of such a program, and what is left after it.
LEMMA BarStep ==
  ASSUME NEW c \in BOOLEAN, NEW t, BarProgram(c, t)
  PROVE  /\ t # <<>> /\ Head(t) = t[1] /\ IsSeq(t)
         /\ t[1].op \in InsideOps(c) \cup {LastOp(c)}
         /\ t[1].op = "text" => IsSeq(t[1].text)
         /\ t[1].op = LastOp(c) => Tail(t) = <<>>
         /\ t[1].op # LastOp(c) => BarProgram(c, Tail(t))
         /\ t[1].op = "invert" => Tail(t)[1].op = "unflash"
<1>1. IsSeq(t) /\ Len(t) \in Nat /\ Len(t) > 0
  BY SeqFacts DEF BarProgram
<1>2. /\ t # <<>> /\ Head(t) = t[1]
      /\ IsSeq(Tail(t)) /\ Len(Tail(t)) = Len(t) - 1
      /\ \A j \in 1..(Len(t) - 1) : Tail(t)[j] = t[j + 1]
  BY <1>1, SeqFacts
<1>n. PICK n \in Nat : n = Len(t) /\ n > 0
  BY <1>1
<1>m. Len(Tail(t)) = n - 1
  BY <1>2, <1>n
<1>3. CASE n = 1
  <2>1. t[1].op = LastOp(c)
    BY <1>n, <1>3 DEF BarProgram
  <2>2. Tail(t) = <<>>
    <3>1. Len(Tail(t)) = 0
      BY <1>3, <1>m
    <3> QED
      BY <1>2, <3>1, SeqFacts
  <2>3. LastOp(c) # "text" /\ LastOp(c) # "invert"
    BY DEF LastOp
  <2> QED
    BY <1>1, <1>2, <2>1, <2>2, <2>3
<1>4. CASE n # 1
  <2>n. n - 1 \in Nat /\ n - 1 >= 1
    BY <1>n, <1>4
  <2>1. 1 \in 1..(Len(t) - 1)
    BY <1>n, <2>n
  <2>2. /\ t[1].op \in InsideOps(c) /\ t[1].op # LastOp(c)
        /\ t[1].op = "text" => IsSeq(t[1].text)
        /\ t[1].op = "invert" => t[1 + 1].op = "unflash"
    BY <2>1, LastIsNotInside DEF BarProgram
  <2>3. Tail(t)[1] = t[1 + 1]
    BY <1>2, <2>1
  <2>4. Len(Tail(t)) > 0 /\ Tail(t)[Len(Tail(t))].op = LastOp(c)
    <3>1. Len(t) - 1 \in 1..(Len(t) - 1) /\ (Len(t) - 1) + 1 = Len(t)
      BY <1>n, <2>n
    <3>2. Tail(t)[Len(t) - 1] = t[Len(t)]
      BY <1>2, <3>1
    <3> QED
      BY <1>2, <3>1, <3>2 DEF BarProgram
  <2>5. ASSUME NEW j \in 1..(Len(Tail(t)) - 1)
        PROVE  /\ Tail(t)[j].op \in InsideOps(c)
               /\ Tail(t)[j].op = "text" => IsSeq(Tail(t)[j].text)
               /\ Tail(t)[j].op = "invert" => Tail(t)[j + 1].op = "unflash"
    <3>1. /\ j \in 1..(Len(t) - 1) /\ j + 1 \in 1..(Len(t) - 1)
      BY <1>1, <1>2
    <3>2. Tail(t)[j] = t[j + 1] /\ Tail(t)[j + 1] = t[(j + 1) + 1]
      BY <1>2, <3>1
    <3> QED
      BY <3>1, <3>2 DEF BarProgram
  <2>6. BarProgram(c, Tail(t))
    BY <1>2, <2>4, <2>5 DEF BarProgram
  <2> QED
    BY <1>1, <1>2, <2>2, <2>3, <2>6
<1> QED
  BY <1>3, <1>4

\* Instructions that may be put before such a program.
InsideSeq(c, s) ==
  /\ IsSeq(s)
  /\ \A j \in 1..Len(s) :
       /\ s[j].op \in InsideOps(c)
       /\ s[j].op = "text" => IsSeq(s[j].text)
       /\ s[j].op = "invert" => j < Len(s) /\ s[j + 1].op = "unflash"

LEMMA BarBuilt ==
  ASSUME NEW c \in BOOLEAN, NEW s, NEW t, InsideSeq(c, s), BarProgram(c, t)
  PROVE  BarProgram(c, s \o t)
<1>1. PICK m \in Nat : m = Len(s)
  BY SeqFacts DEF InsideSeq
<1>2. PICK n \in Nat : n = Len(t) /\ n > 0
  BY SeqFacts DEF BarProgram
<1>3. PICK r : r = s \o t
  OBVIOUS
<1>4. IsSeq(r) /\ Len(r) = m + n
  BY <1>1, <1>2, <1>3, ConcatFacts DEF InsideSeq, BarProgram
<1>5. \A j \in 1..(m + n) : r[j] = IF j <= m THEN s[j] ELSE t[j - m]
  BY <1>1, <1>2, <1>3, ConcatFacts DEF InsideSeq, BarProgram
<1>6. r[Len(r)].op = LastOp(c)
  <2>1. m + n \in 1..(m + n) /\ ~(m + n <= m) /\ (m + n) - m = n
    BY <1>2
  <2>2. r[m + n] = t[n]
    BY <1>5, <2>1
  <2> QED
    BY <1>2, <1>4, <2>2 DEF BarProgram
<1>7. ASSUME NEW j \in 1..(Len(r) - 1)
      PROVE  /\ r[j].op \in InsideOps(c)
             /\ r[j].op = "text" => IsSeq(r[j].text)
             /\ r[j].op = "invert" => r[j + 1].op = "unflash"
  <2>0. j \in 1..(m + n) /\ j + 1 \in 1..(m + n) /\ j <= m + n - 1
    BY <1>4
  <2>1. CASE j <= m
    <3>1. j \in 1..Len(s) /\ r[j] = s[j]
      BY <1>1, <1>5, <2>0, <2>1
    <3>2. r[j].op = "invert" => r[j + 1] = s[j + 1]
      <4>1. r[j].op = "invert" => j + 1 <= m
        BY <1>1, <2>0, <3>1 DEF InsideSeq
      <4> QED
        BY <1>5, <2>0, <4>1
    <3> QED
      BY <3>1, <3>2 DEF InsideSeq
  <2>2. CASE ~(j <= m)
    <3>1. /\ j - m \in 1..(Len(t) - 1) /\ ~(j + 1 <= m) /\ (j + 1) - m = (j - m) + 1
      BY <1>2, <2>0, <2>2
    <3>2. r[j] = t[j - m] /\ r[j + 1] = t[(j - m) + 1]
      BY <1>5, <2>0, <2>2, <3>1
    <3> QED
      BY <3>1, <3>2 DEF BarProgram
  <2> QED
    BY <2>1, <2>2
<1>8. Len(r) > 0
  BY <1>2, <1>4
<1> QED
  BY <1>3, <1>4, <1>6, <1>7, <1>8 DEF BarProgram

LEMMA BarEnd ==
  ASSUME NEW c \in BOOLEAN
  PROVE  BarProgram(c, <<Do(LastOp(c))>>)
<1>1. PICK x : x = Do(LastOp(c))
  OBVIOUS
<1>2. x.op = LastOp(c)
  BY <1>1 DEF Do
<1>3. IsSeq(<<x>>) /\ Len(<<x>>) = 1 /\ <<x>>[1] = x
  BY ShortSeqs
<1> QED
  BY <1>1, <1>2, <1>3 DEF BarProgram

LEMMA OneInside ==
  ASSUME NEW c \in BOOLEAN, NEW op \in InsideOps(c), op # "text", op # "invert"
  PROVE  InsideSeq(c, <<Do(op)>>)
<1>1. PICK x : x = Do(op)
  OBVIOUS
<1>2. x.op = op
  BY <1>1 DEF Do
<1>3. IsSeq(<<x>>) /\ Len(<<x>>) = 1 /\ <<x>>[1] = x
  BY ShortSeqs
<1> QED
  BY <1>1, <1>2, <1>3 DEF InsideSeq

LEMMA KeysInside ==
  ASSUME NEW s, KeySeq(s)
  PROVE  InsideSeq(FALSE, s)
<1>1. "key" \in InsideOps(FALSE)
  BY DEF InsideOps
<1> QED
  BY <1>1 DEF InsideSeq, KeySeq

LEMMA MessageInside ==
  ASSUME NEW text, IsSeq(text)
  PROVE  InsideSeq(FALSE, Message(text))
<1>1. PICK x : x = Say("text", text)
  OBVIOUS
<1>2. PICK y : y = Do("invert")
  OBVIOUS
<1>3. PICK z : z = Do("unflash")
  OBVIOUS
<1>4. /\ x.op = "text" /\ x.text = text /\ y.op = "invert" /\ z.op = "unflash"
  BY <1>1, <1>2, <1>3 DEF Say, Do
<1>5. PICK m : m = <<x, y, z>>
  OBVIOUS
<1>6. Message(text) = m
  BY <1>1, <1>2, <1>3, <1>5 DEF Message
<1>7. m \in Seq({x, y, z}) /\ Len(m) = 3 /\ m[1] = x /\ m[2] = y /\ m[3] = z
  BY <1>5
<1>8. "text" \in InsideOps(FALSE) /\ "invert" \in InsideOps(FALSE) /\ "unflash" \in InsideOps(FALSE)
  BY DEF InsideOps
<1>9. IsSeq(m)
  BY <1>7 DEF IsSeq
<1>10. ASSUME NEW j \in 1..3
       PROVE  /\ m[j].op \in InsideOps(FALSE)
              /\ m[j].op = "text" => IsSeq(m[j].text)
              /\ m[j].op = "invert" => j < 3 /\ m[j + 1].op = "unflash"
  <2>1. j = 1 \/ j = 2 \/ j = 3
    OBVIOUS
  <2>2. CASE j = 1
    <3>1. m[j] = x /\ x.op # "invert"
      BY <1>4, <1>7, <2>2
    <3> QED
      BY <1>4, <1>8, <3>1
  <2>3. CASE j = 2
    <3>1. m[j] = y /\ j < 3 /\ y.op # "text"
      BY <1>4, <1>7, <2>3
    <3>2. m[j + 1] = z
      BY <1>7, <2>3
    <3> QED
      BY <1>4, <1>8, <3>1, <3>2
  <2>4. CASE j = 3
    <3>1. m[j] = z /\ z.op # "text" /\ z.op # "invert"
      BY <1>4, <1>7, <2>4
    <3> QED
      BY <1>4, <1>8, <3>1
  <2> QED
    BY <2>1, <2>2, <2>3, <2>4
<1> QED
  BY <1>6, <1>7, <1>9, <1>10 DEF InsideSeq

\* A program of the C daemon: the bar is shown, and what follows keeps it.
LEMMA ShowBuilt ==
  ASSUME NEW text, IsSeq(text), NEW t, BarProgram(FALSE, t)
  PROVE  ShowProgram(FALSE, Announce(text) \o t)
<1>1. PICK x : x = Do("show")
  OBVIOUS
<1>2. x.op = FirstOp(FALSE)
  BY <1>1 DEF Do, FirstOp
<1>3. IsSeq(<<x>>) /\ IsSeq(Message(text)) /\ IsSeq(t)
  BY ShortSeqs, MessageInside DEF InsideSeq, BarProgram
<1>4. Announce(text) \o t = <<x>> \o (Message(text) \o t)
  BY <1>1, <1>3, Associative DEF Announce
<1>5. PICK r : r = Message(text) \o t
  OBVIOUS
<1>6. BarProgram(FALSE, r)
  BY <1>5, MessageInside, BarBuilt
<1>7. IsSeq(r) /\ Len(r) \in Nat
  BY <1>6, SeqFacts DEF BarProgram
<1>8. /\ IsSeq(<<x>> \o r) /\ Len(<<x>> \o r) = Len(r) + 1
      /\ (<<x>> \o r)[1] = x /\ Tail(<<x>> \o r) = r
  BY <1>7, Prepended
<1>9. Len(<<x>> \o r) > 0
  BY <1>7, <1>8
<1> QED
  BY <1>2, <1>4, <1>5, <1>6, <1>8, <1>9 DEF ShowProgram

LEMMA TwoJoined ==
  ASSUME NEW x, NEW y
  PROVE  <<x>> \o <<y>> = <<x, y>>
<1>1. PICK r : r = <<x>> \o <<y>>
  OBVIOUS
<1>2. PICK t : t = <<x, y>>
  OBVIOUS
<1>3. t \in Seq({x, y}) /\ Len(t) = 2 /\ t[1] = x /\ t[2] = y
  BY <1>2
<1>4. IsSeq(r) /\ Len(r) = 2
  BY <1>1, ShortSeqs, ConcatFacts
<1>5. r[1] = x /\ r[1 + 1] = y
  <2>1. 1 \in 1..Len(<<y>>)
    BY ShortSeqs
  <2> QED
    BY <1>1, <2>1, ShortSeqs, Prepended
<1>6. \A j \in 1..Len(t) : t[j] = r[j]
  <2>1. \A j \in 1..2 : j = 1 \/ j = 2
    OBVIOUS
  <2>2. r[2] = y
    BY <1>5
  <2> QED
    BY <1>3, <1>5, <2>1, <2>2
<1>7. IsSeq(t)
  BY <1>3 DEF IsSeq
<1>8. Len(t) = Len(r)
  BY <1>3, <1>4
<1>9. t = r
  BY <1>4, <1>6, <1>7, <1>8, SameElements
<1> QED
  BY <1>1, <1>2, <1>9

LEMMA ThreeJoined ==
  ASSUME NEW x, NEW y, NEW z
  PROVE  <<x>> \o <<y, z>> = <<x, y, z>>
<1>1. PICK s : s = <<y, z>>
  OBVIOUS
<1>2. PICK t : t = <<x, y, z>>
  OBVIOUS
<1>3. s \in Seq({y, z}) /\ Len(s) = 2 /\ s[1] = y /\ s[2] = z
  BY <1>1
<1>4. t \in Seq({x, y, z}) /\ Len(t) = 3 /\ t[1] = x /\ t[2] = y /\ t[3] = z
  BY <1>2
<1>5. IsSeq(s) /\ IsSeq(t)
  BY <1>3, <1>4 DEF IsSeq
<1>6. PICK r : r = <<x>> \o s
  OBVIOUS
<1>7. /\ IsSeq(r) /\ Len(r) = 3 /\ r[1] = x
      /\ \A j \in 1..2 : r[j + 1] = s[j]
  BY <1>3, <1>5, <1>6, Prepended
<1>8. r[1 + 1] = y /\ r[2 + 1] = z
  BY <1>3, <1>7
<1>9. r[2] = y /\ r[3] = z
  BY <1>8
<1>10. \A j \in 1..Len(t) : t[j] = r[j]
  <2>1. \A j \in 1..3 : j = 1 \/ j = 2 \/ j = 3
    OBVIOUS
  <2> QED
    BY <1>4, <1>7, <1>9, <2>1
<1>11. Len(t) = Len(r)
  BY <1>4, <1>7
<1>12. t = r
  BY <1>5, <1>7, <1>10, <1>11, SameElements
<1> QED
  BY <1>1, <1>2, <1>6, <1>12

LEMMA TwoInstructions ==
  ASSUME NEW c \in BOOLEAN, NEW op \in InsideOps(c), op # "text", op # "invert"
  PROVE  BarProgram(c, <<Do(op), Do(LastOp(c))>>)
<1>1. BarProgram(c, <<Do(op)>> \o <<Do(LastOp(c))>>)
  BY OneInside, BarEnd, BarBuilt
<1>2. PICK x : x = Do(op)
  OBVIOUS
<1>3. PICK y : y = Do(LastOp(c))
  OBVIOUS
<1>4. <<x>> \o <<y>> = <<x, y>>
  BY TwoJoined
<1> QED
  BY <1>1, <1>2, <1>3, <1>4

\* The rows of a screenshot.
RowSeq(c) == [i \in 1..YRES |-> [op |-> RowOp(c), row |-> i - 1]]

LEMMA RowSeqTyped ==
  ASSUME NEW c
  PROVE  /\ IsSeq(RowSeq(c)) /\ Len(RowSeq(c)) = YRES
         /\ \A j \in 1..YRES : RowSeq(c)[j].op = RowOp(c) /\ RowSeq(c)[j].row = j - 1
<1>1. YRES \in Nat
  BY Sizes
<1>2. PICK S : S = {[op |-> RowOp(c), row |-> i - 1] : i \in 1..YRES}
  OBVIOUS
<1>3. PICK s : s = RowSeq(c)
  OBVIOUS
<1>4. s \in [1..YRES -> S]
  BY <1>2, <1>3 DEF RowSeq
<1>5. s \in Seq(S) /\ Len(s) = YRES
  BY <1>1, <1>4
<1>6. \A j \in 1..YRES : s[j].op = RowOp(c) /\ s[j].row = j - 1
  BY <1>3 DEF RowSeq
<1> QED
  BY <1>3, <1>5, <1>6 DEF IsSeq

LEMMA RowsBuilt ==
  ASSUME NEW c \in BOOLEAN, NEW rest, IsSeq(rest), RowsThen(c, rest)
  PROVE  RowProgram(c, RowSeq(c) \o rest, 0)
<1>1. PICK n \in Nat : n = YRES
  BY Sizes
<1>2. PICK m \in Nat : m = Len(rest)
  BY SeqFacts
<1>3. PICK s : s = RowSeq(c)
  OBVIOUS
<1>4. PICK t : t = s \o rest
  OBVIOUS
<1>5. /\ IsSeq(s) /\ Len(s) = n
      /\ \A j \in 1..n : s[j].op = RowOp(c) /\ s[j].row = j - 1
  BY <1>1, <1>3, RowSeqTyped
<1>6. /\ IsSeq(t) /\ Len(t) = n + m
      /\ \A j \in 1..(n + m) : t[j] = IF j <= n THEN s[j] ELSE rest[j - n]
  BY <1>2, <1>4, <1>5, ConcatFacts
<1>7. ASSUME NEW j \in 1..(n - 0)
      PROVE  t[j].op = RowOp(c) /\ t[j].row = 0 + j - 1
  <2>1. j \in 1..n /\ j \in 1..(n + m) /\ j <= n /\ 0 + j - 1 = j - 1
    OBVIOUS
  <2> QED
    BY <1>5, <1>6, <2>1
<1>8. Len(t) = n - 0 + m
  BY <1>6
<1>9. ASSUME NEW j \in 1..m
      PROVE  t[n - 0 + j] = rest[j]
  <2>1. n - 0 + j \in 1..(n + m) /\ ~(n - 0 + j <= n) /\ (n - 0 + j) - n = j
    OBVIOUS
  <2> QED
    BY <1>6, <2>1
<1> QED
  BY <1>1, <1>2, <1>3, <1>4, <1>6, <1>7, <1>8, <1>9 DEF RowProgram

LEMMA OpenBuilt ==
  ASSUME NEW c \in BOOLEAN, NEW t, RowProgram(c, t, 0)
  PROVE  OpenProgram(c, <<Do("open")>> \o t)
<1>1. PICK x : x = Do("open")
  OBVIOUS
<1>2. x.op = "open"
  BY <1>1 DEF Do
<1>3. IsSeq(t) /\ Len(t) \in Nat
  BY SeqFacts DEF RowProgram
<1>4. /\ IsSeq(<<x>> \o t) /\ Len(<<x>> \o t) = Len(t) + 1
      /\ (<<x>> \o t)[1] = x /\ Tail(<<x>> \o t) = t
  BY <1>3, Prepended
<1>5. Len(<<x>> \o t) > 0
  BY <1>3, <1>4
<1> QED
  BY <1>1, <1>2, <1>4, <1>5 DEF OpenProgram

\* Every action of the C daemon shows the bar, keeps it and takes it away; a
\* screenshot takes the picture first.
LEMMA ActionBuilt ==
  ASSUME NEW b \in Binding
  PROVE  ShowProgram(FALSE, execute_action(b)) \/ OpenProgram(FALSE, execute_action(b))
<1>1. /\ b.words \in Seq(CommandWord)
      /\ b.kind \in {"Shell", "SendKeys", "KindleKeys", "KindleScript", "Screenshot"}
  BY BindingAssumption
<1>2. IsSeq(Name)
  BY BindingAssumption DEF IsSeq
<1>3. BarProgram(FALSE, <<Do("hide")>>)
  BY BarEnd DEF LastOp
<1>4. /\ BarProgram(FALSE, <<Do("script"), Do("hide")>>)
      /\ BarProgram(FALSE, <<Do("result"), Do("hide")>>)
  <2>1. LastOp(FALSE) = "hide" /\ "script" \in InsideOps(FALSE) /\ "result" \in InsideOps(FALSE)
    BY DEF LastOp, InsideOps
  <2> QED
    BY <2>1, TwoInstructions
<1>5. IsSeq(<<Do("hide")>>) /\ IsSeq(Announce(Name))
  <2>1. IsSeq(<<Do("hide")>>) /\ IsSeq(<<Do("show")>>)
    BY ShortSeqs
  <2>2. IsSeq(Message(Name))
    BY <1>2, MessageInside DEF InsideSeq
  <2> QED
    BY <2>1, <2>2, ConcatFacts DEF Announce
<1>6. ASSUME NEW s, KeySeq(s)
      PROVE  ShowProgram(FALSE, Announce(Name) \o s \o <<Do("hide")>>)
  <2>1. BarProgram(FALSE, s \o <<Do("hide")>>)
    BY <1>3, <1>6, KeysInside, BarBuilt
  <2>2. Announce(Name) \o s \o <<Do("hide")>> = Announce(Name) \o (s \o <<Do("hide")>>)
    BY <1>5, <1>6, Associative DEF KeySeq
  <2> QED
    BY <1>2, <2>1, <2>2, ShowBuilt
<1>7. CASE b.kind = "Screenshot"
  <2>1. PICK r : r = Announce(Name) \o <<Do("result"), Do("hide")>>
    OBVIOUS
  <2>2. ShowProgram(FALSE, r)
    BY <1>2, <1>4, <2>1, ShowBuilt
  <2>3. IsSeq(r) /\ RowsThen(FALSE, r)
    BY <2>2 DEF ShowProgram, RowsThen
  <2>4. Rows = RowSeq(FALSE)
    BY DEF Rows, RowSeq, RowOp
  <2>5. OpenProgram(FALSE, <<Do("open")>> \o (Rows \o r))
    BY <2>3, <2>4, RowsBuilt, OpenBuilt
  <2>6. IsSeq(<<Do("open")>>) /\ IsSeq(Rows) /\ IsSeq(<<Do("result"), Do("hide")>>)
    BY <1>4, <2>4, ShortSeqs, RowSeqTyped DEF BarProgram
  <2>7. IsSeq(<<Do("open")>> \o Rows)
    BY <2>6, ConcatFacts
  <2>8. execute_action(b) =
          ((<<Do("open")>> \o Rows) \o Announce(Name)) \o <<Do("result"), Do("hide")>>
    BY <1>7 DEF execute_action
  <2>9. execute_action(b) = (<<Do("open")>> \o Rows) \o r
    <3>1. PICK x : x = <<Do("open")>> \o Rows
      OBVIOUS
    <3>2. PICK e : e = <<Do("result"), Do("hide")>>
      OBVIOUS
    <3>3. IsSeq(x) /\ IsSeq(e)
      BY <2>6, <2>7, <3>1, <3>2
    <3>4. (x \o Announce(Name)) \o e = x \o (Announce(Name) \o e)
      BY <1>5, <3>3, Associative
    <3> QED
      BY <2>1, <2>8, <3>1, <3>2, <3>4
  <2>10. execute_action(b) = <<Do("open")>> \o (Rows \o r)
    <3>1. PICK x : x = <<Do("open")>>
      OBVIOUS
    <3>2. IsSeq(x)
      BY <2>6, <3>1
    <3>3. (x \o Rows) \o r = x \o (Rows \o r)
      BY <2>3, <2>6, <3>2, Associative
    <3> QED
      BY <2>9, <3>1, <3>3
  <2> QED
    BY <2>5, <2>10
<1>8. CASE b.kind = "KindleScript"
  <2>1. execute_action(b) = Announce(Name) \o <<Do("script"), Do("hide")>>
    BY <1>8 DEF execute_action
  <2> QED
    BY <1>2, <1>4, <2>1, ShowBuilt
<1>9. CASE b.kind = "KindleKeys"
  <2>1. PICK d : d = Concat(SplitAtBlanks, b.words)
    OBVIOUS
  <2>2. d \in Seq(CommandWord)
    BY <1>1, <2>1, WordsSplit
  <2>3. Dummy \in CommandWord
    <3>0. <<>> \in Seq(Nat) /\ 0 \in Nat
      OBVIOUS
    <3>1. "" \in KeyName
      BY DEF KeyName
    <3>2. \A n, s, m : n \in Nat /\ s \in Seq(Nat) /\ m \in KeyName =>
            [open |-> n, close |-> n, chars |-> s, name |-> m] \in CommandWord
      BY DEF CommandWord
    <3> QED
      BY <3>0, <3>1, <3>2 DEF Dummy
  <2>4. <<Dummy>> \o d \o <<Dummy>> \in Seq(CommandWord)
    BY <2>2, <2>3
  <2>5. KeySeq(process_kindle_script(kindle3, <<Dummy>> \o d \o <<Dummy>>))
    BY <2>4, ScriptIsKeys
  <2>6. execute_action(b) =
          Announce(Name) \o process_kindle_script(kindle3, <<Dummy>> \o d \o <<Dummy>>)
          \o <<Do("hide")>>
    BY <1>9, <2>1 DEF execute_action
  <2> QED
    BY <1>6, <2>5, <2>6
<1>10. CASE b.kind = "Shell"
  <2>1. BarProgram(FALSE, <<Do("system")>> \o <<Do("result"), Do("hide")>>)
    <3>1. "system" \in InsideOps(FALSE)
      BY DEF InsideOps
    <3> QED
      BY <1>4, <3>1, OneInside, BarBuilt
  <2>2. PICK x, y, z : x = Do("system") /\ y = Do("result") /\ z = Do("hide")
    OBVIOUS
  <2>3. <<x>> \o <<y, z>> = <<x, y, z>>
    BY ThreeJoined
  <2>4. BarProgram(FALSE, <<Do("system"), Do("result"), Do("hide")>>)
    BY <2>1, <2>2, <2>3
  <2>5. execute_action(b) = Announce(Name) \o <<Do("system"), Do("result"), Do("hide")>>
    BY <1>10 DEF execute_action
  <2> QED
    BY <1>2, <2>4, <2>5, ShowBuilt
<1>11. CASE b.kind = "SendKeys"
  <2>1. KeySeq(process_sendkeys_command(kindle3, b.words))
    BY <1>1, CommandIsKeys
  <2>2. execute_action(b) =
          Announce(Name) \o process_sendkeys_command(kindle3, b.words) \o <<Do("hide")>>
    BY <1>11 DEF execute_action
  <2> QED
    BY <1>6, <2>1, <2>2
<1> QED
  BY <1>1, <1>7, <1>8, <1>9, <1>10, <1>11

LEMMA FourJoined ==
  ASSUME NEW x, NEW y, NEW z, NEW u
  PROVE  <<x>> \o <<y, z, u>> = <<x, y, z, u>>
<1>1. PICK s : s = <<y, z, u>>
  OBVIOUS
<1>2. PICK t : t = <<x, y, z, u>>
  OBVIOUS
<1>3. s \in Seq({y, z, u}) /\ Len(s) = 3 /\ s[1] = y /\ s[2] = z /\ s[3] = u
  BY <1>1
<1>4. /\ t \in Seq({x, y, z, u}) /\ Len(t) = 4
      /\ t[1] = x /\ t[2] = y /\ t[3] = z /\ t[4] = u
  BY <1>2
<1>5. IsSeq(s) /\ IsSeq(t)
  BY <1>3, <1>4 DEF IsSeq
<1>6. PICK r : r = <<x>> \o s
  OBVIOUS
<1>7. /\ IsSeq(r) /\ Len(r) = 4 /\ r[1] = x
      /\ \A j \in 1..3 : r[j + 1] = s[j]
  BY <1>3, <1>5, <1>6, Prepended
<1>8. r[1 + 1] = y /\ r[2 + 1] = z /\ r[3 + 1] = u
  BY <1>3, <1>7
<1>9. r[2] = y /\ r[3] = z /\ r[4] = u
  BY <1>8
<1>10. \A j \in 1..Len(t) : t[j] = r[j]
  <2>1. \A j \in 1..4 : j = 1 \/ j = 2 \/ j = 3 \/ j = 4
    OBVIOUS
  <2> QED
    BY <1>4, <1>7, <1>9, <2>1
<1>11. Len(t) = Len(r)
  BY <1>4, <1>7
<1>12. t = r
  BY <1>5, <1>7, <1>10, <1>11, SameElements
<1> QED
  BY <1>1, <1>2, <1>6, <1>12

LEMMA SaidInside ==
  ASSUME NEW c \in BOOLEAN, NEW x, x.op \in InsideOps(c), x.op # "text", x.op # "invert"
  PROVE  InsideSeq(c, <<x>>)
<1>1. IsSeq(<<x>>) /\ Len(<<x>>) = 1 /\ <<x>>[1] = x
  BY ShortSeqs
<1> QED
  BY <1>1 DEF InsideSeq

LEMMA ShowPrepended ==
  ASSUME NEW c \in BOOLEAN, NEW x, x.op = FirstOp(c), NEW t, BarProgram(c, t)
  PROVE  ShowProgram(c, <<x>> \o t)
<1>1. IsSeq(t) /\ Len(t) \in Nat
  BY SeqFacts DEF BarProgram
<1>2. /\ IsSeq(<<x>> \o t) /\ Len(<<x>> \o t) = Len(t) + 1
      /\ (<<x>> \o t)[1] = x /\ Tail(<<x>> \o t) = t
  BY <1>1, Prepended
<1>3. Len(<<x>> \o t) > 0
  BY <1>1, <1>2
<1> QED
  BY <1>2, <1>3 DEF ShowProgram

\* The same for the C++ daemon, where keys are sent without the bar.
LEMMA ExecuteBuilt ==
  ASSUME NEW b \in Binding
  PROVE  execute(b) = <<>> \/ ShowProgram(TRUE, execute(b)) \/ KeyProgram(execute(b))
<1>1. /\ b.words \in Seq(CommandWord)
      /\ b.kind \in {"Shell", "SendKeys", "KindleKeys", "KindleScript", "Screenshot"}
  BY BindingAssumption
<1>2. /\ FirstOp(TRUE) = "show_status" /\ LastOp(TRUE) = "hide_status"
      /\ "run_command" \in InsideOps(TRUE) /\ "show_result" \in InsideOps(TRUE)
      /\ "draw" \in InsideOps(TRUE)
  BY DEF FirstOp, LastOp, InsideOps
<1>3. PICK x, y, z, u, v : /\ x = Say("show_status", Name) /\ y = Do("run_command")
                           /\ z = Do("show_result") /\ u = Do("hide_status")
                           /\ v = Say("draw", Success)
  OBVIOUS
<1>4. x.op = "show_status" /\ v.op = "draw" /\ u.op = "hide_status"
  BY <1>3 DEF Say, Do
<1>5. ShowProgram(TRUE, execute_shell)
  <2>1. BarProgram(TRUE, <<z, u>>)
    BY <1>2, <1>3, TwoInstructions
  <2>2. BarProgram(TRUE, <<y>> \o <<z, u>>)
    BY <1>2, <1>3, <2>1, OneInside, BarBuilt
  <2>3. BarProgram(TRUE, <<y, z, u>>)
    BY <2>2, ThreeJoined
  <2>4. ShowProgram(TRUE, <<x>> \o <<y, z, u>>)
    BY <1>2, <1>4, <2>3, ShowPrepended
  <2>5. ShowProgram(TRUE, <<x, y, z, u>>)
    BY <2>4, FourJoined
  <2> QED
    BY <1>3, <2>5 DEF execute_shell
<1>6. ShowProgram(TRUE, execute_screenshot)
  <2>1. BarProgram(TRUE, <<u>>)
    BY <1>2, <1>3, BarEnd
  <2>2. BarProgram(TRUE, <<v>> \o <<u>>)
    BY <1>2, <1>4, <2>1, SaidInside, BarBuilt
  <2>3. BarProgram(TRUE, <<v, u>>)
    BY <2>2, TwoJoined
  <2>4. ShowProgram(TRUE, <<x>> \o <<v, u>>)
    BY <1>2, <1>4, <2>3, ShowPrepended
  <2>5. ShowProgram(TRUE, <<x, v, u>>)
    BY <2>4, ThreeJoined
  <2> QED
    BY <1>3, <2>5 DEF execute_screenshot
<1>7. CASE b.kind = "SendKeys"
  <2>1. PICK s : s = execute_send_keys(kindle3, b.words)
    OBVIOUS
  <2>2. KeySeq(s)
    BY <1>1, <2>1, SendKeysIsKeys
  <2>3. execute(b) = s \o <<u>>
    BY <1>3, <1>7, <2>1 DEF execute
  <2>4. PICK n \in Nat : n = Len(s)
    BY <2>2, SeqFacts DEF KeySeq
  <2>5. PICK t : t = s \o <<u>>
    OBVIOUS
  <2>6. /\ IsSeq(t) /\ Len(t) = n + 1
        /\ \A j \in 1..(n + 1) : t[j] = IF j <= n THEN s[j] ELSE <<u>>[j - n]
    BY <2>2, <2>4, <2>5, ShortSeqs, ConcatFacts DEF KeySeq
  <2>7. t[Len(t)] = u
    <3>1. n + 1 \in 1..(n + 1) /\ ~(n + 1 <= n) /\ (n + 1) - n = 1
      OBVIOUS
    <3>2. t[n + 1] = <<u>>[1]
      BY <2>6, <3>1
    <3> QED
      BY <2>6, <3>2, ShortSeqs
  <2>8. \A j \in 1..(Len(t) - 1) : t[j].op = "key"
    <3>1. \A j \in 1..(Len(t) - 1) : j \in 1..n /\ j \in 1..(n + 1) /\ j <= n
      BY <2>6
    <3> QED
      BY <2>2, <2>4, <2>6, <3>1 DEF KeySeq
  <2>9. Len(t) > 0
    BY <2>6
  <2> QED
    BY <1>4, <2>3, <2>5, <2>6, <2>7, <2>8, <2>9 DEF KeyProgram
<1>8. CASE b.kind # "SendKeys"
  BY <1>1, <1>5, <1>6, <1>8 DEF execute
<1> QED
  BY <1>7, <1>8

LEMMA WriteBmpBuilt == OpenProgram(TRUE, write_bmp)
<1>1. PICK s : s = RowSeq(TRUE)
  OBVIOUS
<1>2. IsSeq(s) /\ IsSeq(<<>>) /\ Len(<<>>) = 0 /\ RowsThen(TRUE, <<>>)
  BY <1>1, RowSeqTyped, ShortSeqs DEF RowsThen
<1>3. RowProgram(TRUE, s \o <<>>, 0)
  BY <1>1, <1>2, RowsBuilt
<1>4. s \o <<>> = s
  BY <1>2 DEF IsSeq
<1>5. OpenProgram(TRUE, <<Do("open")>> \o s)
  BY <1>3, <1>4, OpenBuilt
<1>6. s = [i \in 1..YRES |-> [op |-> "write_row", row |-> i - 1]]
  BY <1>1 DEF RowSeq, RowOp
<1> QED
  BY <1>5, <1>6 DEF write_bmp, write_headers

LEMMA RowsRest ==
  ASSUME NEW c \in BOOLEAN, NEW rest, RowsThen(c, rest)
  PROVE  IsSeq(rest) /\ Len(rest) \in Nat
<1>1. IsSeq(rest)
  <2>1. CASE c = TRUE
    BY <2>1, ShortSeqs DEF RowsThen
  <2>2. CASE c = FALSE
    BY <2>2 DEF RowsThen, ShowProgram
  <2> QED
    BY <2>1, <2>2
<1> QED
  BY <1>1, SeqFacts

\* A row is written and the others are left.
LEMMA RowStep ==
  ASSUME NEW c \in BOOLEAN, NEW n \in 0..(YRES - 1), NEW t, RowProgram(c, t, n)
  PROVE  /\ t # <<>> /\ t[1].op = RowOp(c) /\ t[1].row = n
         /\ RowProgram(c, Tail(t), n + 1)
<1>1. PICK h \in Nat : h = YRES
  BY Sizes
<1>2. n \in 0..(h - 1) /\ 1 \in 1..(h - n)
  BY <1>1
<1>3. /\ IsSeq(t)
      /\ \A j \in 1..(h - n) : t[j].op = RowOp(c) /\ t[j].row = n + j - 1
  BY <1>1 DEF RowProgram
<1>4. PICK rest : /\ RowsThen(c, rest) /\ Len(t) = h - n + Len(rest)
                  /\ \A j \in 1..Len(rest) : t[h - n + j] = rest[j]
  BY <1>1 DEF RowProgram
<1>5. PICK m \in Nat : m = Len(rest)
  BY <1>4, RowsRest
<1>6. Len(t) = h - n + m /\ h - n + m > 0
  BY <1>2, <1>4, <1>5
<1>7. /\ t # <<>> /\ IsSeq(Tail(t)) /\ Len(Tail(t)) = Len(t) - 1
      /\ \A j \in 1..(Len(t) - 1) : Tail(t)[j] = t[j + 1]
  BY <1>3, <1>6, SeqFacts
<1>8. t[1].op = RowOp(c) /\ t[1].row = n
  <2>1. t[1].op = RowOp(c) /\ t[1].row = n + 1 - 1 /\ n + 1 - 1 = n
    BY <1>2, <1>3
  <2> QED
    BY <2>1
<1>9. ASSUME NEW j \in 1..(h - (n + 1))
      PROVE  Tail(t)[j].op = RowOp(c) /\ Tail(t)[j].row = (n + 1) + j - 1
  <2>1. j + 1 \in 1..(h - n) /\ j \in 1..(Len(t) - 1) /\ n + (j + 1) - 1 = (n + 1) + j - 1
    BY <1>2, <1>5, <1>6
  <2>2. Tail(t)[j] = t[j + 1]
    BY <1>7, <2>1
  <2> QED
    BY <1>3, <2>1, <2>2
<1>10. Len(Tail(t)) = h - (n + 1) + Len(rest)
  BY <1>2, <1>5, <1>6, <1>7
<1>11. ASSUME NEW j \in 1..Len(rest)
       PROVE  Tail(t)[h - (n + 1) + j] = rest[j]
  <2>1. /\ h - (n + 1) + j \in 1..(Len(t) - 1)
        /\ (h - (n + 1) + j) + 1 = h - n + j
    BY <1>2, <1>5, <1>6
  <2> QED
    BY <1>4, <1>7, <2>1
<1> QED
  BY <1>1, <1>4, <1>7, <1>8, <1>9, <1>10, <1>11 DEF RowProgram

LEMMA RowsEnd ==
  ASSUME NEW c \in BOOLEAN, NEW t, RowProgram(c, t, YRES)
  PROVE  t = <<>> \/ ShowProgram(c, t)
<1>1. PICK h \in Nat : h = YRES
  BY Sizes
<1>2. PICK rest : /\ RowsThen(c, rest) /\ Len(t) = h - h + Len(rest)
                  /\ \A j \in 1..Len(rest) : t[h - h + j] = rest[j]
  BY <1>1 DEF RowProgram
<1>3. IsSeq(t)
  BY DEF RowProgram
<1>4. IsSeq(rest) /\ Len(rest) \in Nat
  BY <1>2, RowsRest
<1>5. Len(t) = Len(rest)
  BY <1>2, <1>4
<1>6. \A j \in 1..Len(t) : t[j] = rest[j]
  <2>1. \A j \in 1..Len(rest) : h - h + j = j
    BY <1>4
  <2> QED
    BY <1>2, <1>5, <2>1
<1>7. t = rest
  BY <1>3, <1>4, <1>5, <1>6, SameElements
<1> QED
  BY <1>2, <1>7 DEF RowsThen

\* Without the file what follows the rows is done.
LEMMA RowsSkipped ==
  ASSUME NEW c \in BOOLEAN, NEW t, OpenProgram(c, t)
  PROVE  RowsThen(c, SubSeq(t, YRES + 2, Len(t)))
<1>1. PICK h \in Nat : h = YRES
  BY Sizes
<1>2. PICK rest : /\ RowsThen(c, rest) /\ Len(Tail(t)) = h - 0 + Len(rest)
                  /\ \A j \in 1..Len(rest) : Tail(t)[h - 0 + j] = rest[j]
  BY <1>1 DEF OpenProgram, RowProgram
<1>3. IsSeq(rest)
  BY <1>2, RowsRest
<1>4. PICK m \in Nat : m = Len(rest)
  BY <1>2, RowsRest
<1>5. PICK n \in Nat : n = Len(t) /\ n > 0
  BY SeqFacts DEF OpenProgram
<1>6. /\ IsSeq(t) /\ Len(Tail(t)) = n - 1
      /\ \A j \in 1..(n - 1) : Tail(t)[j] = t[j + 1]
  BY <1>5, SeqFacts DEF OpenProgram
<1>7. n - 1 = h + m
  BY <1>2, <1>4, <1>6
<1>8. PICK k \in Nat : k = h + 2
  OBVIOUS
<1>9. k \in 1..(n + 1) /\ n - k + 1 = m
  BY <1>5, <1>7, <1>8
<1>10. PICK s : s = SubSeq(t, k, n)
  OBVIOUS
<1>11. /\ IsSeq(s) /\ Len(s) = m /\ \A j \in 1..m : s[j] = t[k + j - 1]
  BY <1>5, <1>6, <1>9, <1>10, SubSeqFacts
<1>12. ASSUME NEW j \in 1..m
       PROVE  s[j] = rest[j]
  <2>1. h - 0 + j \in 1..(n - 1) /\ (h - 0 + j) + 1 = k + j - 1
    BY <1>7, <1>8
  <2> QED
    BY <1>2, <1>4, <1>6, <1>11, <2>1
<1>13. s = rest
  BY <1>3, <1>4, <1>11, <1>12, SameElements
<1> QED
  BY <1>1, <1>2, <1>5, <1>8, <1>10, <1>13

LEMMA KeyStep ==
  ASSUME NEW t, KeyProgram(t)
  PROVE  /\ t # <<>> /\ t[1].op \in {"key", "hide_status"}
         /\ t[1].op = "key" => KeyProgram(Tail(t))
         /\ t[1].op = "hide_status" => Tail(t) = <<>>
<1>1. PICK n \in Nat : n = Len(t) /\ n > 0
  BY SeqFacts DEF KeyProgram
<1>2. /\ t # <<>> /\ IsSeq(Tail(t)) /\ Len(Tail(t)) = n - 1
      /\ \A j \in 1..(n - 1) : Tail(t)[j] = t[j + 1]
  BY <1>1, SeqFacts DEF KeyProgram
<1>3. t[n].op = "hide_status" /\ \A j \in 1..(n - 1) : t[j].op = "key"
  BY <1>1 DEF KeyProgram
<1>4. CASE n = 1
  <2>1. Tail(t) = <<>>
    <3>1. Len(Tail(t)) = 0
      BY <1>2, <1>4
    <3> QED
      BY <1>2, <3>1, SeqFacts
  <2> QED
    BY <1>2, <1>3, <1>4, <2>1
<1>5. CASE n # 1
  <2>1. 1 \in 1..(n - 1) /\ n - 1 \in 1..(n - 1) /\ (n - 1) + 1 = n /\ n - 1 > 0
    BY <1>1, <1>5
  <2>2. t[1].op = "key"
    BY <1>3, <2>1
  <2>3. Tail(t)[n - 1] = t[n]
    BY <1>2, <2>1
  <2>4. ASSUME NEW j \in 1..((n - 1) - 1)
        PROVE  Tail(t)[j].op = "key"
    <3>1. j \in 1..(n - 1) /\ j + 1 \in 1..(n - 1)
      OBVIOUS
    <3> QED
      BY <1>2, <1>3, <3>1
  <2> QED
    BY <1>2, <1>3, <2>1, <2>2, <2>3, <2>4 DEF KeyProgram
<1> QED
  BY <1>4, <1>5

\* A program while the bar is not shown; the file has n rows.
AwayProgram(c, t, n) ==
  \/ t = <<>>
  \/ ShowProgram(c, t)
  \/ OpenProgram(c, t) /\ n = 0
  \/ RowProgram(c, t, n)
  \/ c /\ KeyProgram(t)

LEMMA AwayStep ==
  ASSUME NEW c \in BOOLEAN, NEW n \in 0..YRES, NEW t, AwayProgram(c, t, n), t # <<>>
  PROVE  /\ IsSeq(t) /\ Head(t) = t[1]
         /\ t[1].op \in {FirstOp(c), "open", RowOp(c), "key", "hide_status"}
         /\ t[1].op = FirstOp(c) => BarProgram(c, Tail(t))
         /\ t[1].op = "open" =>
              /\ n = 0 /\ RowProgram(c, Tail(t), 0)
              /\ RowsThen(c, SubSeq(t, YRES + 2, Len(t)))
         /\ t[1].op = RowOp(c) =>
              n \in 0..(YRES - 1) /\ t[1].row = n /\ RowProgram(c, Tail(t), n + 1)
         /\ t[1].op = "key" => c /\ KeyProgram(Tail(t))
         /\ t[1].op = "hide_status" => c /\ Tail(t) = <<>>
<1>1. /\ FirstOp(c) \notin {"open", RowOp(c), "key", "hide_status"}
      /\ RowOp(c) \notin {"open", "key", "hide_status"}
  BY DEF FirstOp, RowOp
<1>2. IsSeq(t) /\ Head(t) = t[1]
  <2>1. IsSeq(t)
    BY DEF AwayProgram, ShowProgram, OpenProgram, RowProgram, KeyProgram
  <2>2. Len(t) > 0
    BY <2>1, SeqFacts
  <2> QED
    BY <2>1, <2>2, SeqFacts
<1>3. CASE ShowProgram(c, t)
  BY <1>1, <1>2, <1>3 DEF ShowProgram
<1>4. CASE OpenProgram(c, t) /\ n = 0
  BY <1>1, <1>2, <1>4, RowsSkipped DEF OpenProgram
<1>5. CASE RowProgram(c, t, n)
  <2>1. CASE n = YRES
    BY <1>3, <1>5, <2>1, RowsEnd
  <2>2. CASE n # YRES
    <3>1. n \in 0..(YRES - 1)
      BY <2>2, Sizes
    <3> QED
      BY <1>1, <1>2, <1>5, <3>1, RowStep
  <2> QED
    BY <2>1, <2>2
<1>6. CASE c /\ KeyProgram(t)
  BY <1>1, <1>2, <1>6, KeyStep
<1> QED
  BY <1>3, <1>4, <1>5, <1>6 DEF AwayProgram

LEMMA BarOps ==
  ASSUME NEW c \in BOOLEAN, NEW t, BarProgram(c, t)
  PROVE  /\ t[1].op \notin {"show", "show_status", "open", "row", "write_row"}
         /\ t[1].op \in {"text", "invert", "unflash", "hide", "result", "script", "system",
                          "key"} => c = FALSE
         /\ t[1].op \in {"run_command", "draw", "show_result", "hide_status"} => c = TRUE
<1>1. t[1].op \in InsideOps(c) \cup {LastOp(c)}
  BY BarStep
<1>2. CASE c = TRUE
  BY <1>1, <1>2 DEF InsideOps, LastOp
<1>3. CASE c = FALSE
  BY <1>1, <1>3 DEF InsideOps, LastOp
<1> QED
  BY <1>2, <1>3

LEMMA AwayOps ==
  ASSUME NEW c \in BOOLEAN, NEW n \in 0..YRES, NEW t, AwayProgram(c, t, n), t # <<>>
  PROVE  /\ t[1].op \notin {"text", "invert", "unflash", "hide", "result", "script", "system",
                            "run_command", "draw", "show_result"}
         /\ t[1].op \in {"show", "row"} => c = FALSE
         /\ t[1].op \in {"show_status", "write_row", "key", "hide_status"} => c = TRUE
<1>1. /\ t[1].op \in {FirstOp(c), "open", RowOp(c), "key", "hide_status"}
      /\ t[1].op = "key" => c
      /\ t[1].op = "hide_status" => c
  BY AwayStep
<1>2. CASE c = TRUE
  BY <1>1, <1>2 DEF FirstOp, RowOp
<1>3. CASE c = FALSE
  BY <1>1, <1>3 DEF FirstOp, RowOp
<1> QED
  BY <1>2, <1>3

-----------------------------------------------------------------------------
(* The page on the screen.                                                 *)

BarFirst(c) == IF c THEN YRES - STATUS_BAR_HEIGHT ELSE YRES - STATUSBAR_HEIGHT

PageByte(n, i) == <<n, i % 16>>

\* p is a screen that shows page n above the bar.
PageAbove(c, p, n) ==
  /\ p \in Screen
  /\ \A i \in Indices(XRES, YRES) :
       i \div stride(XRES) < BarFirst(c) => p.surf[i] = PageByte(n, i)

\* Every byte of p is one of page n or of page m.
FromPages(p, n, m) ==
  \A i \in Indices(XRES, YRES) : p.surf[i] \in {PageByte(n, i), PageByte(m, i)}

\* The panel shows p, but for the last row of the C daemon's bar.
PanelShows(c, q, p) ==
  \A i \in Indices(XRES, YRES) :
    (c \/ i \div stride(XRES) < YRES - 1) => q.surf[i] = p.surf[i]

\* s holds the background of the bar, from page n or page m.
SavedBar(c, s, n, m) ==
  IF c
    THEN /\ DOMAIN s = {"saved_pixels"} /\ DOMAIN s.saved_pixels = get_bar_region.rows
         /\ \A i \in Indices(XRES, YRES) : i \div stride(XRES) \in get_bar_region.rows =>
              PackedByte(s.saved_pixels, i) \in {PageByte(n, i), PageByte(m, i)}
    ELSE /\ s \in BarCopy
         /\ \A i \in Indices(XRES, YRES) : i \div stride(XRES) >= BarTop =>
              s.surf[i - BarTop * stride(XRES)] \in {PageByte(n, i), PageByte(m, i)}

LEMMA BarFirstTyped ==
  ASSUME NEW c \in BOOLEAN
  PROVE  /\ BarFirst(c) \in 0..(YRES - 1)
         /\ ~c => BarFirst(c) = BarTop
         /\ c => BarFirst(c) = get_bar_region.y
         /\ c => get_bar_region.rows = BarFirst(c)..(YRES - 1)
<1>1. /\ YRES \in Nat \ {0} /\ STATUSBAR_HEIGHT \in 1..YRES
      /\ STATUS_BAR_HEIGHT \in 1..YRES
  BY Sizes
<1>2. CASE c = TRUE
  BY <1>1, <1>2, RegionIsBar DEF BarFirst
<1>3. CASE c = FALSE
  BY <1>1, <1>3 DEF BarFirst, BarTop
<1> QED
  BY <1>2, <1>3

LEMMA PageByteTyped ==
  ASSUME NEW n \in Page, NEW i \in Nat
  PROVE  PageByte(n, i) \in Byte
<1>1. n \in 0..15 /\ i % 16 \in 0..15
  BY DEF Page
<1> QED
  BY <1>1, ByteTyped DEF PageByte

LEMMA PaintedTyped ==
  ASSUME NEW n \in Page
  PROVE  /\ Painted(n) \in Screen
         /\ \A i \in Indices(XRES, YRES) : Painted(n).surf[i] = PageByte(n, i)
<1>1. PICK s : s = [i \in Indices(XRES, YRES) |-> PageByte(n, i)]
  OBVIOUS
<1>2. \A i \in Indices(XRES, YRES) : i \in Nat
  BY Sizes, IndexTyped
<1>3. s \in [Indices(XRES, YRES) -> Byte]
  BY <1>1, <1>2, PageByteTyped
<1>4. Painted(n) = [width |-> XRES, height |-> YRES, surf |-> s]
  BY <1>1 DEF Painted, Pixmap, PageByte, Indices
<1>5. Painted(n) \in Screen
  BY <1>3, <1>4 DEF Screen, PixmapOf
<1>6. Painted(n).surf = s
  BY <1>4
<1> QED
  BY <1>1, <1>5, <1>6

LEMMA PaintedShows ==
  ASSUME NEW c \in BOOLEAN, NEW n \in Page, NEW m
  PROVE  /\ PageAbove(c, Painted(n), n) /\ FromPages(Painted(n), n, m)
         /\ PanelShows(c, Painted(n), Painted(n))
  BY PaintedTyped DEF PageAbove, FromPages, PanelShows

\* A screen with the bytes of one page is that page.
LEMMA PageIsPainted ==
  ASSUME NEW n \in Page, NEW p \in Screen, FromPages(p, n, n)
  PROVE  p = Painted(n)
<1>1. PICK q : q = Painted(n)
  OBVIOUS
<1>2. q \in Screen /\ \A i \in Indices(XRES, YRES) : q.surf[i] = p.surf[i]
  BY <1>1, PaintedTyped DEF FromPages
<1>3. p.surf = q.surf
  <2>1. p.surf \in [Indices(XRES, YRES) -> Byte] /\ q.surf \in [Indices(XRES, YRES) -> Byte]
    BY <1>2 DEF Screen, PixmapOf
  <2> QED
    BY <1>2, <2>1
<1>4. p = q
  BY <1>2, <1>3 DEF Screen, PixmapOf
<1> QED
  BY <1>1, <1>4

\* Drawing on the bar leaves the page above.
LEMMA AboveKept ==
  ASSUME NEW p, NEW f, NEW n, OnBarOnly(p, f), PageAbove(FALSE, f, n)
  PROVE  PageAbove(FALSE, p, n)
<1>1. BarFirst(FALSE) = BarTop
  BY BarFirstTyped
<1> QED
  BY <1>1 DEF OnBarOnly, SameAbove, PageAbove, Screen

LEMMA AboveDrawn ==
  ASSUME NEW f, NEW n, NEW text, PageAbove(TRUE, f, n)
  PROVE  PageAbove(TRUE, draw_bar_text(f, text), n)
<1>1. f \in Screen
  BY DEF PageAbove
<1>2. BarFirst(TRUE) \in 0..(YRES - 1) /\ get_bar_region.rows = BarFirst(TRUE)..(YRES - 1)
  BY BarFirstTyped
<1>3. ASSUME NEW i \in Indices(XRES, YRES), i \div stride(XRES) < BarFirst(TRUE)
      PROVE  ~(i \div stride(XRES) \in get_bar_region.rows)
  <2>1. PICK y \in 0..(YRES - 1) : y = i \div stride(XRES)
    BY Sizes, IndexTyped
  <2>2. PICK b \in 0..(YRES - 1) : b = BarFirst(TRUE)
    BY <1>2
  <2>3. y < b /\ get_bar_region.rows = b..(YRES - 1)
    BY <1>2, <1>3, <2>1, <2>2
  <2> QED
    BY <2>1, <2>3
<1>4. PICK p : p = draw_bar_text(f, text)
  OBVIOUS
<1>5. p \in Screen
  BY <1>1, <1>4, DrawOnRegion
<1>6. \A i \in Indices(XRES, YRES) :
        i \div stride(XRES) < BarFirst(TRUE) => p.surf[i] = f.surf[i]
  BY <1>1, <1>3, <1>4, DrawOnRegion
<1> QED
  BY <1>4, <1>5, <1>6 DEF PageAbove

\* The bar is updated on the panel.
LEMMA BarUpdated ==
  ASSUME NEW c \in BOOLEAN, NEW q, NEW p, NEW n, PageAbove(c, q, n), PageAbove(c, p, n),
         NEW top \in Int, NEW bottom \in Int, top <= BarFirst(c), bottom <= YRES,
         IF c THEN bottom = YRES ELSE bottom >= YRES - 1
  PROVE  /\ PageAbove(c, screen_update_area(q, p, top, bottom), n)
         /\ PanelShows(c, screen_update_area(q, p, top, bottom), p)
<1>1. q \in Screen /\ p \in Screen
  BY DEF PageAbove
<1>2. PICK r : r = screen_update_area(q, p, top, bottom)
  OBVIOUS
<1>3. /\ r \in Screen
      /\ \A i \in Indices(XRES, YRES) :
           r.surf[i] = IF i \div stride(XRES) \in top..(bottom - 1) THEN p.surf[i] ELSE q.surf[i]
  BY <1>1, <1>2, UpdateTyped
<1>4. PageAbove(c, r, n)
  BY <1>3 DEF PageAbove
<1>5. ASSUME NEW i \in Indices(XRES, YRES), c \/ i \div stride(XRES) < YRES - 1
      PROVE  r.surf[i] = p.surf[i]
  <2>1. PICK y \in 0..(YRES - 1) : y = i \div stride(XRES)
    BY Sizes, IndexTyped
  <2>2. BarFirst(c) \in 0..(YRES - 1) /\ YRES \in Nat
    BY BarFirstTyped, Sizes
  <2>3. CASE y < BarFirst(c)
    BY <1>3, <2>1, <2>3 DEF PageAbove
  <2>4. CASE ~(y < BarFirst(c))
    <3>1. y \in top..(bottom - 1)
      <4>1. CASE c = TRUE
        <5>1. bottom = YRES
          BY <4>1
        <5> QED
          BY <2>1, <2>2, <2>4, <5>1
      <4>2. CASE c = FALSE
        BY <1>5, <2>1, <2>2, <2>4, <4>2
      <4> QED
        BY <4>1, <4>2
    <3> QED
      BY <1>3, <2>1, <3>1
  <2> QED
    BY <2>3, <2>4
<1> QED
  BY <1>2, <1>4, <1>5 DEF PanelShows

\* What is saved is of the pages, and so is what is put back.
LEMMA SaveKeepsPages ==
  ASSUME NEW p \in Screen, NEW n, NEW m, FromPages(p, n, m)
  PROVE  SavedBar(FALSE, statusbar_save(p), n, m)
<1>1. PICK s : s = statusbar_save(p)
  OBVIOUS
<1>2. /\ s \in BarCopy
      /\ \A j \in Indices(XRES, STATUSBAR_HEIGHT) : s.surf[j] = p.surf[j + BarTop * stride(XRES)]
  BY <1>1, SaveCopiesBar
<1>3. ASSUME NEW i \in Indices(XRES, YRES), i \div stride(XRES) >= BarTop
      PROVE  s.surf[i - BarTop * stride(XRES)] = p.surf[i]
  <2>1. i \in Int /\ BarTop * stride(XRES) \in Int
    <3>1. i \in Int
      BY Sizes, IndexTyped
    <3>2. BarTop \in Int /\ stride(XRES) \in Int
      BY Sizes, StrideTyped
    <3> QED
      BY <3>1, <3>2
  <2>2. PICK k \in Int : k = BarTop * stride(XRES)
    BY <2>1
  <2>3. i - k \in Indices(XRES, STATUSBAR_HEIGHT) /\ (i - k) + k = i
    BY <1>3, <2>1, <2>2, BarIndex
  <2> QED
    BY <1>2, <2>2, <2>3
<1> QED
  BY <1>1, <1>2, <1>3 DEF SavedBar, FromPages

LEMMA CaptureKeepsPages ==
  ASSUME NEW p \in Screen, NEW n, NEW m, FromPages(p, n, m)
  PROVE  SavedBar(TRUE, [saved_pixels |-> capture_pixels(p)], n, m)
<1>1. PICK s : s = [saved_pixels |-> capture_pixels(p)]
  OBVIOUS
<1>2. DOMAIN s = {"saved_pixels"} /\ s.saved_pixels = capture_pixels(p)
  BY <1>1
<1>3. DOMAIN capture_pixels(p) = get_bar_region.rows
  BY DEF capture_pixels
<1>4. \A i \in Indices(XRES, YRES) : i \div stride(XRES) \in get_bar_region.rows =>
        PackedByte(s.saved_pixels, i) = p.surf[i]
  BY <1>2, CapturedIsPacked
<1> QED
  BY <1>1, <1>2, <1>3, <1>4 DEF SavedBar, FromPages

LEMMA SavedIsSomething ==
  ASSUME NEW s, NEW n, NEW m, SavedBar(TRUE, s, n, m)
  PROVE  s # NULL
<1>1. DOMAIN s = {"saved_pixels"}
  BY DEF SavedBar
<1>2. "width" \in DOMAIN NULL
  BY DEF NULL, Pixmap
<1> QED
  BY <1>1, <1>2

\* When the page is turned the background is of the old page.
LEMMA SavedIsOld ==
  ASSUME NEW c \in BOOLEAN, NEW s, NEW n, NEW m, SavedBar(c, s, n, n)
  PROVE  SavedBar(c, s, m, n)
<1>1. CASE c = TRUE
  BY <1>1 DEF SavedBar
<1>2. CASE c = FALSE
  BY <1>2 DEF SavedBar
<1> QED
  BY <1>1, <1>2

LEMMA RestoreAbove ==
  ASSUME NEW f, NEW n, PageAbove(FALSE, f, n), NEW s, s = NULL \/ s \in BarCopy
  PROVE  PageAbove(FALSE, statusbar_restore(f, s), n)
<1>1. CASE s = NULL
  BY <1>1, NothingToRestore
<1>2. CASE s \in BarCopy
  <2>1. PICK p : p = statusbar_restore(f, s)
    OBVIOUS
  <2>2. /\ p \in Screen
        /\ \A i \in Indices(XRES, YRES) :
             p.surf[i] = IF i \div stride(XRES) >= BarTop
                           THEN s.surf[i - BarTop * stride(XRES)] ELSE f.surf[i]
    BY <1>2, <2>1, RestorePutsBack DEF PageAbove
  <2>3. BarFirst(FALSE) = BarTop
    BY BarFirstTyped
  <2>4. \A i \in Indices(XRES, YRES) :
          i \div stride(XRES) < BarTop => ~(i \div stride(XRES) >= BarTop)
    BY Sizes, IndexTyped
  <2> QED
    BY <2>1, <2>2, <2>3, <2>4 DEF PageAbove
<1> QED
  BY <1>1, <1>2

LEMMA RestoreKeepsPages ==
  ASSUME NEW f, NEW n, PageAbove(FALSE, f, n), NEW s, NEW m, SavedBar(FALSE, s, n, m)
  PROVE  FromPages(statusbar_restore(f, s), n, m)
<1>1. PICK p : p = statusbar_restore(f, s)
  OBVIOUS
<1>2. s \in BarCopy /\ f \in Screen
  BY DEF SavedBar, PageAbove
<1>3. \A i \in Indices(XRES, YRES) :
        p.surf[i] = IF i \div stride(XRES) >= BarTop
                      THEN s.surf[i - BarTop * stride(XRES)] ELSE f.surf[i]
  BY <1>1, <1>2, RestorePutsBack
<1>4. ASSUME NEW i \in Indices(XRES, YRES)
      PROVE  p.surf[i] \in {PageByte(n, i), PageByte(m, i)}
  <2>1. CASE i \div stride(XRES) >= BarTop
    BY <1>3, <2>1 DEF SavedBar
  <2>2. CASE ~(i \div stride(XRES) >= BarTop)
    <3>0. PICK y \in 0..(YRES - 1) : y = i \div stride(XRES)
      BY Sizes, IndexTyped
    <3>1. i \div stride(XRES) < BarFirst(FALSE)
      <4>1. BarFirst(FALSE) = BarTop /\ BarTop \in 0..(YRES - 1)
        BY BarFirstTyped, Sizes
      <4>2. y < BarTop
        BY <2>2, <3>0, <4>1
      <4> QED
        BY <3>0, <4>1, <4>2
    <3> QED
      BY <1>3, <2>2, <3>1 DEF PageAbove
  <2> QED
    BY <2>1, <2>2
<1> QED
  BY <1>1, <1>4 DEF FromPages

LEMMA RestorePixelsKeepsPages ==
  ASSUME NEW f, NEW n \in Page, PageAbove(TRUE, f, n), NEW s, NEW m \in Page,
         SavedBar(TRUE, s, n, m)
  PROVE  /\ PageAbove(TRUE, restore_pixels(f, s.saved_pixels), n)
         /\ FromPages(restore_pixels(f, s.saved_pixels), n, m)
<1>1. PICK level : level = s.saved_pixels
  OBVIOUS
<1>2. PICK p : p = SetPixels(f, level)
  OBVIOUS
<1>3. f \in Screen /\ DOMAIN level = get_bar_region.rows
  BY <1>1 DEF PageAbove, SavedBar
<1>4. \A i \in Indices(XRES, YRES) : i \div stride(XRES) \in get_bar_region.rows =>
        PackedByte(level, i) \in {PageByte(n, i), PageByte(m, i)}
  BY <1>1 DEF SavedBar
<1>5. \A i \in Indices(XRES, YRES) : i \in Nat
  BY Sizes, IndexTyped
<1>6. \A i \in Indices(XRES, YRES) :
        i \div stride(XRES) \in get_bar_region.rows => PackedByte(level, i) \in Byte
  BY <1>4, <1>5, PageByteTyped
<1>7. p \in Screen
  BY <1>2, <1>3, <1>6, SetPixelsTyped
<1>8. \A i \in Indices(XRES, YRES) :
        p.surf[i] = IF i \div stride(XRES) \in get_bar_region.rows THEN PackedByte(level, i)
                                                                   ELSE f.surf[i]
  BY <1>2, <1>3, <1>6, SetPixelsTyped
<1>9. ASSUME NEW i \in Indices(XRES, YRES)
      PROVE  i \div stride(XRES) < BarFirst(TRUE) <=>
               ~(i \div stride(XRES) \in get_bar_region.rows)
  <2>1. PICK y \in 0..(YRES - 1) : y = i \div stride(XRES)
    BY Sizes, IndexTyped
  <2>2. PICK b \in 0..(YRES - 1) : b = BarFirst(TRUE) /\ get_bar_region.rows = b..(YRES - 1)
    BY BarFirstTyped
  <2>0. YRES \in Nat
    BY Sizes
  <2>3. y < b => ~(y \in b..(YRES - 1))
    BY <2>0
  <2>4. ~(y < b) => y \in b..(YRES - 1)
    BY <2>0
  <2> QED
    BY <2>1, <2>2, <2>3, <2>4
<1>10. PageAbove(TRUE, p, n)
  BY <1>7, <1>8, <1>9 DEF PageAbove
<1>11. FromPages(p, n, m)
  BY <1>4, <1>8, <1>9 DEF PageAbove, FromPages
<1> QED
  BY <1>1, <1>2, <1>10, <1>11 DEF restore_pixels

-----------------------------------------------------------------------------
(* The inductive invariant.                                                *)

WellTyped ==
  /\ cpp \in BOOLEAN /\ kindle3 \in BOOLEAN
  /\ proc_open \subseteq {"keypad", "fiveway"}
  /\ binding \in Binding \cup {NoBinding, [NoBinding EXCEPT !.kind = "Picture"]}
  /\ found \in BOOLEAN
  /\ page \in Page /\ old_page \in Page
  /\ psave = NULL \/ psave \in BarCopy
  /\ ~cpp => psav = NULL \/ psav \in BarCopy
  /\ IsSeq(file) /\ Len(file) \in 0..YRES
  /\ touched \in BOOLEAN /\ failed \in BOOLEAN /\ starved \in BOOLEAN
  /\ cpp => ~starved

\* The bar is shown: the background has been saved, unless there was no
\* memory, and the program ends with taking the bar away.
BarShown ==
  /\ BarProgram(cpp, todo)
  /\ starved \/ SavedBar(cpp, psav, page, old_page)

\* The bar is not shown: the framebuffer and the panel show the page, with
\* bytes of the page before in the bar when the action is over.
BarAway ==
  /\ AwayProgram(cpp, todo, Len(file))
  /\ cpp => psav = NULL
  /\ PanelShows(cpp, panel, fb)
  /\ starved \/ FromPages(fb, page, old_page)
  /\ todo # <<>> \/ binding = NoBinding => fb = Painted(page)

Between ==
  binding = NoBinding => todo = <<>> /\ old_page = page /\ file = <<>> /\ ~starved

\* x is row i of a picture of page n or page m, in the place where the daemon
\* puts it.
RowShows(c, x, i, n, m) ==
  LET low == IF c THEN 0 ELSE 2
  IN  i > low => \E k \in {n, m} : x = FramebufferRow(Painted(k), YRES + low - i)

FileShowsPage == \A i \in DOMAIN file : RowShows(cpp, file[i], i, page, old_page)

IInv ==
  /\ WellTyped
  /\ PageAbove(cpp, fb, page) /\ PageAbove(cpp, panel, page)
  /\ BarShown \/ BarAway
  /\ Between
  /\ FileShowsPage

\* What the next instruction tells about the state.
LEMMA Current ==
  ASSUME IInv, NEW op, Next_is(op)
  PROVE  /\ todo # <<>> /\ IsSeq(todo) /\ Head(todo) = todo[1] /\ todo[1].op = op
         /\ binding # NoBinding
         /\ op \in {"text", "invert", "unflash", "hide", "result", "script", "system"}
              => BarShown /\ cpp = FALSE
         /\ op \in {"run_command", "draw", "show_result"} => BarShown /\ cpp = TRUE
         /\ op \in {"show", "row"} => BarAway /\ cpp = FALSE
         /\ op \in {"show_status", "write_row"} => BarAway /\ cpp = TRUE
         /\ op = "open" => BarAway
         /\ op = "key" => (BarAway /\ cpp = TRUE) \/ (BarShown /\ cpp = FALSE)
         /\ op = "hide_status" => cpp = TRUE
<1>1. todo # <<>> /\ Head(todo).op = op
  BY DEF Next_is, idle
<1>2. cpp \in BOOLEAN /\ Len(file) \in 0..YRES
  BY DEF IInv, WellTyped
<1>3. binding # NoBinding
  BY <1>1 DEF IInv, Between
<1>4. CASE BarShown
  <2>1. BarProgram(cpp, todo)
    BY <1>4 DEF BarShown
  <2>2. IsSeq(todo) /\ Head(todo) = todo[1]
    BY <1>2, <2>1, BarStep
  <2>3. todo[1].op = op
    BY <1>1, <2>2
  <2>4. /\ todo[1].op \notin {"show", "show_status", "open", "row", "write_row"}
        /\ todo[1].op \in {"text", "invert", "unflash", "hide", "result", "script", "system",
                           "key"} => cpp = FALSE
        /\ todo[1].op \in {"run_command", "draw", "show_result", "hide_status"} => cpp = TRUE
    BY <1>2, <2>1, BarOps
  <2> QED
    BY <1>1, <1>3, <1>4, <2>2, <2>3, <2>4
<1>5. CASE BarAway
  <2>1. AwayProgram(cpp, todo, Len(file))
    BY <1>5 DEF BarAway
  <2>2. IsSeq(todo) /\ Head(todo) = todo[1]
    BY <1>1, <1>2, <2>1, AwayStep
  <2>3. todo[1].op = op
    BY <1>1, <2>2
  <2>4. /\ todo[1].op \notin {"text", "invert", "unflash", "hide", "result", "script", "system",
                              "run_command", "draw", "show_result"}
        /\ todo[1].op \in {"show", "row"} => cpp = FALSE
        /\ todo[1].op \in {"show_status", "write_row", "key", "hide_status"} => cpp = TRUE
    BY <1>1, <1>2, <2>1, AwayOps
  <2> QED
    BY <1>1, <1>3, <1>5, <2>2, <2>3, <2>4
<1> QED
  BY <1>4, <1>5 DEF IInv

\* What an instruction keeps that writes no row.
LEMMA Kept ==
  ASSUME IInv, Same, UNCHANGED file, binding # NoBinding,
         psave' = NULL \/ psave' \in BarCopy,
         ~cpp => psav' = NULL \/ psav' \in BarCopy,
         failed' \in BOOLEAN, starved' \in BOOLEAN, cpp => ~starved'
  PROVE  WellTyped' /\ Between' /\ FileShowsPage'
<1>1. /\ cpp' = cpp /\ kindle3' = kindle3 /\ proc_open' = proc_open /\ binding' = binding
      /\ found' = found /\ page' = page /\ old_page' = old_page /\ touched' = touched
      /\ file' = file
  BY DEF Same
<1>2. WellTyped'
  BY <1>1 DEF IInv, WellTyped
<1>3. Between'
  BY <1>1 DEF Between
<1>4. FileShowsPage'
  BY <1>1 DEF IInv, FileShowsPage
<1> QED
  BY <1>2, <1>3, <1>4

\* The areas that the daemons update.
LEMMA AreaUpdated ==
  ASSUME NEW q, NEW p, NEW n, PageAbove(FALSE, q, n), PageAbove(FALSE, p, n), NEW r,
         \/ r = screen_update_area(q, p, YRES - STATUSBAR_HEIGHT, YRES)
         \/ r = screen_update_area(q, p, YRES - STATUSBAR_HEIGHT - 1, YRES - 1)
  PROVE  PageAbove(FALSE, r, n) /\ PanelShows(FALSE, r, p)
<1>1. YRES \in Int /\ STATUSBAR_HEIGHT \in Int
  BY Sizes
<1>2. PICK h \in Int : h = YRES
  BY <1>1
<1>3. PICK y \in Int : y = YRES - STATUSBAR_HEIGHT
  BY <1>1
<1>4. BarFirst(FALSE) = y
  BY <1>3 DEF BarFirst
<1>5. y <= y /\ y - 1 <= y /\ h <= h /\ h - 1 <= h /\ h >= h - 1 /\ h - 1 >= h - 1
  BY <1>2, <1>3
<1>6. CASE r = screen_update_area(q, p, y, h)
  <2>1. y <= BarFirst(FALSE) /\ h <= YRES /\ h >= YRES - 1
    BY <1>2, <1>4, <1>5
  <2> QED
    BY <1>6, <2>1, BarUpdated
<1>7. CASE r = screen_update_area(q, p, y - 1, h - 1)
  <2>1. y - 1 <= BarFirst(FALSE) /\ h - 1 <= YRES /\ h - 1 >= YRES - 1
    BY <1>2, <1>4, <1>5
  <2>2. y - 1 \in Int /\ h - 1 \in Int
    OBVIOUS
  <2> QED
    BY <1>7, <2>1, <2>2, BarUpdated
<1> QED
  BY <1>2, <1>3, <1>6, <1>7

LEMMA RegionUpdated ==
  ASSUME NEW q, NEW p, NEW n, PageAbove(TRUE, q, n), PageAbove(TRUE, p, n),
         NEW r, r = screen_update_area(q, p, get_bar_region.y,
                                       get_bar_region.y + STATUS_BAR_HEIGHT)
  PROVE  PageAbove(TRUE, r, n) /\ PanelShows(TRUE, r, p)
<1>1. PICK y \in Int : /\ y = get_bar_region.y /\ y + STATUS_BAR_HEIGHT = YRES
                       /\ y = BarFirst(TRUE)
  BY Sizes, RegionIsBar DEF BarFirst
<1>2. PICK h \in Int : h = YRES
  BY Sizes
<1>3. y <= y /\ h <= h
  OBVIOUS
<1>4. r = screen_update_area(q, p, y, h)
  BY <1>1, <1>2
<1>5. y <= BarFirst(TRUE) /\ h <= YRES /\ h = YRES
  BY <1>1, <1>2, <1>3
<1> QED
  BY <1>4, <1>5, BarUpdated

LEMMA ShowKeeps ==
  ASSUME IInv, Show
  PROVE  IInv'
<1>1. /\ Next_is("show") /\ Same /\ todo' = Tail(todo) /\ file' = file /\ failed' = failed
      /\ psave' = psave /\ fb' = statusbar_clear(fb)
      /\ panel' = screen_update_area(panel, fb', YRES - STATUSBAR_HEIGHT, YRES)
      /\ \/ psav' = statusbar_save(fb) /\ starved' = starved
         \/ psav' = NULL /\ starved' = TRUE
  BY DEF Show, OnBar, Done, UpdateBar
<1>2. /\ todo # <<>> /\ todo[1].op = "show" /\ binding # NoBinding
      /\ BarAway /\ cpp = FALSE
  BY <1>1, Current
<1>3. /\ cpp \in BOOLEAN /\ Len(file) \in 0..YRES /\ page \in Page /\ old_page \in Page
      /\ psave = NULL \/ psave \in BarCopy
      /\ failed \in BOOLEAN /\ starved \in BOOLEAN
      /\ PageAbove(FALSE, fb, page) /\ PageAbove(FALSE, panel, page)
  BY <1>2 DEF IInv, WellTyped
<1>4. cpp' = FALSE /\ page' = page /\ old_page' = old_page
  BY <1>1, <1>2 DEF Same
<1>5. fb \in Screen /\ fb = Painted(page) /\ FromPages(fb, page, old_page)
  BY <1>2, <1>3, PaintedShows DEF BarAway, PageAbove
<1>6. PageAbove(FALSE, fb', page)
  BY <1>1, <1>3, <1>5, ClearOnBar, AboveKept
<1>7. PageAbove(FALSE, panel', page)
  BY <1>1, <1>3, <1>6, AreaUpdated
<1>8. BarShown'
  <2>1. BarProgram(FALSE, Tail(todo))
    <3>1. AwayProgram(cpp, todo, Len(file))
      BY <1>2 DEF BarAway
    <3>2. todo[1].op = FirstOp(cpp)
      BY <1>2 DEF FirstOp
    <3> QED
      BY <1>2, <1>3, <3>1, <3>2, AwayStep
  <2>2. starved' \/ SavedBar(FALSE, psav', page, old_page)
    BY <1>1, <1>5, SaveKeepsPages
  <2> QED
    BY <1>1, <1>4, <2>1, <2>2 DEF BarShown
<1>9. psav' = NULL \/ psav' \in BarCopy
  BY <1>1, <1>5, SaveCopiesBar
<1>10. WellTyped' /\ Between' /\ FileShowsPage'
  BY <1>1, <1>2, <1>3, <1>9, Kept
<1> QED
  BY <1>4, <1>6, <1>7, <1>8, <1>10 DEF IInv

LEMMA Write_textKeeps ==
  ASSUME IInv, Write_text
  PROVE  IInv'
<1>1. /\ Next_is("text") /\ Same /\ todo' = Tail(todo) /\ file' = file /\ failed' = failed
      /\ psave' = psave /\ psav' = psav /\ starved' = starved /\ panel' = panel
      /\ fb' = statusbar_text(fb, Head(todo).text)
  BY DEF Write_text, OnBar, Done
<1>2. /\ Head(todo) = todo[1] /\ todo[1].op = "text" /\ binding # NoBinding
      /\ BarShown /\ cpp = FALSE
  BY <1>1, Current
<1>3. BarProgram(FALSE, todo) /\ (starved \/ SavedBar(FALSE, psav, page, old_page))
  BY <1>2 DEF BarShown
<1>4. /\ psave = NULL \/ psave \in BarCopy
      /\ psav = NULL \/ psav \in BarCopy
      /\ failed \in BOOLEAN /\ starved \in BOOLEAN
      /\ PageAbove(FALSE, fb, page) /\ PageAbove(FALSE, panel, page)
  BY <1>2 DEF IInv, WellTyped
<1>5. cpp' = FALSE /\ page' = page /\ old_page' = old_page
  BY <1>1, <1>2 DEF Same
<1>6. PageAbove(FALSE, fb', page)
  <2>1. IsSeq(todo[1].text)
    BY <1>2, <1>3, BarStep
  <2>2. Len(todo[1].text) \in Nat
    BY <2>1, SeqFacts
  <2>3. fb \in Screen
    BY <1>4 DEF PageAbove
  <2>4. OnBarOnly(fb', fb)
    BY <1>1, <1>2, <2>2, <2>3, TextOnBar
  <2> QED
    BY <1>4, <2>4, AboveKept
<1>7. BarShown'
  <2>1. todo[1].op # LastOp(FALSE)
    BY <1>2 DEF LastOp
  <2>2. BarProgram(FALSE, Tail(todo))
    BY <1>3, <2>1, BarStep
  <2> QED
    BY <1>1, <1>3, <1>5, <2>2 DEF BarShown
<1>8. WellTyped' /\ Between' /\ FileShowsPage'
  BY <1>1, <1>2, <1>4, Kept
<1> QED
  BY <1>1, <1>4, <1>5, <1>6, <1>7, <1>8 DEF IInv

LEMMA Flash_invertKeeps ==
  ASSUME IInv, Flash_invert
  PROVE  IInv'
<1>1. /\ Next_is("invert") /\ Same /\ file' = file /\ failed' = failed
      /\ psav' = psav /\ starved' = starved
      /\ \/ /\ psave' = statusbar_save(fb) /\ (fb' = fb \/ fb' = Inverted(fb))
            /\ panel' = screen_update_area(panel, Inverted(fb), YRES - STATUSBAR_HEIGHT, YRES)
            /\ todo' = Tail(todo)
         \/ /\ psave' = NULL /\ fb' = fb /\ panel' = panel
            /\ todo' = Tail(Tail(todo))
  BY DEF Flash_invert
<1>2. /\ Head(todo) = todo[1] /\ todo[1].op = "invert" /\ binding # NoBinding
      /\ BarShown /\ cpp = FALSE
  BY <1>1, Current
<1>3. BarProgram(FALSE, todo) /\ (starved \/ SavedBar(FALSE, psav, page, old_page))
  BY <1>2 DEF BarShown
<1>4. /\ psav = NULL \/ psav \in BarCopy
      /\ failed \in BOOLEAN /\ starved \in BOOLEAN
      /\ PageAbove(FALSE, fb, page) /\ PageAbove(FALSE, panel, page)
  BY <1>2 DEF IInv, WellTyped
<1>5. cpp' = FALSE /\ page' = page /\ old_page' = old_page
  BY <1>1, <1>2 DEF Same
<1>6. fb \in Screen
  BY <1>4 DEF PageAbove
<1>7. PageAbove(FALSE, Inverted(fb), page)
  BY <1>4, <1>6, InvertOnBar, AboveKept
<1>8. PageAbove(FALSE, fb', page)
  BY <1>1, <1>4, <1>7
<1>9. PageAbove(FALSE, panel', page)
  BY <1>1, <1>4, <1>7, AreaUpdated
<1>10. psave' = NULL \/ psave' \in BarCopy
  BY <1>1, <1>6, SaveCopiesBar
<1>11. BarShown'
  <2>1. LastOp(FALSE) = "hide"
    BY DEF LastOp
  <2>2. BarProgram(FALSE, Tail(todo)) /\ Tail(todo)[1].op = "unflash"
    BY <1>2, <1>3, <2>1, BarStep
  <2>3. BarProgram(FALSE, Tail(Tail(todo)))
    BY <2>1, <2>2, BarStep
  <2>4. BarProgram(FALSE, todo')
    BY <1>1, <2>2, <2>3
  <2> QED
    BY <1>1, <1>3, <1>5, <2>4 DEF BarShown
<1>12. WellTyped' /\ Between' /\ FileShowsPage'
  BY <1>1, <1>2, <1>4, <1>10, Kept
<1> QED
  BY <1>5, <1>8, <1>9, <1>11, <1>12 DEF IInv

LEMMA Flash_restoreKeeps ==
  ASSUME IInv, Flash_restore
  PROVE  IInv'
<1>1. /\ Next_is("unflash") /\ Same /\ todo' = Tail(todo) /\ file' = file /\ failed' = failed
      /\ psave' = NULL /\ psav' = psav /\ starved' = starved
      /\ fb' = statusbar_restore(fb, psave)
      /\ panel' = screen_update_area(panel, fb', YRES - STATUSBAR_HEIGHT, YRES)
  BY DEF Flash_restore, OnBar, Done, UpdateBar
<1>2. /\ Head(todo) = todo[1] /\ todo[1].op = "unflash" /\ binding # NoBinding
      /\ BarShown /\ cpp = FALSE
  BY <1>1, Current
<1>3. BarProgram(FALSE, todo) /\ (starved \/ SavedBar(FALSE, psav, page, old_page))
  BY <1>2 DEF BarShown
<1>4. /\ psave = NULL \/ psave \in BarCopy
      /\ psav = NULL \/ psav \in BarCopy
      /\ failed \in BOOLEAN /\ starved \in BOOLEAN
      /\ PageAbove(FALSE, fb, page) /\ PageAbove(FALSE, panel, page)
  BY <1>2 DEF IInv, WellTyped
<1>5. cpp' = FALSE /\ page' = page /\ old_page' = old_page
  BY <1>1, <1>2 DEF Same
<1>6. PageAbove(FALSE, fb', page)
  BY <1>1, <1>4, RestoreAbove
<1>7. PageAbove(FALSE, panel', page)
  BY <1>1, <1>4, <1>6, AreaUpdated
<1>8. BarShown'
  <2>1. todo[1].op # LastOp(FALSE)
    BY <1>2 DEF LastOp
  <2>2. BarProgram(FALSE, Tail(todo))
    BY <1>3, <2>1, BarStep
  <2> QED
    BY <1>1, <1>3, <1>5, <2>2 DEF BarShown
<1>9. WellTyped' /\ Between' /\ FileShowsPage'
  BY <1>1, <1>2, <1>4, Kept
<1> QED
  BY <1>5, <1>6, <1>7, <1>8, <1>9 DEF IInv

LEMMA HideKeeps ==
  ASSUME IInv, Hide
  PROVE  IInv'
<1>1. /\ Next_is("hide") /\ Same /\ todo' = Tail(todo) /\ file' = file /\ failed' = failed
      /\ psave' = psave /\ psav' = NULL /\ starved' = starved
      /\ fb' = statusbar_restore(fb, psav)
      /\ panel' = screen_update_area(panel, fb', YRES - STATUSBAR_HEIGHT - 1, YRES - 1)
  BY DEF Hide, OnBar, Done
<1>2. /\ Head(todo) = todo[1] /\ todo[1].op = "hide" /\ binding # NoBinding
      /\ BarShown /\ cpp = FALSE
  BY <1>1, Current
<1>3. BarProgram(FALSE, todo) /\ (starved \/ SavedBar(FALSE, psav, page, old_page))
  BY <1>2 DEF BarShown
<1>4. /\ psave = NULL \/ psave \in BarCopy
      /\ psav = NULL \/ psav \in BarCopy
      /\ failed \in BOOLEAN /\ starved \in BOOLEAN
      /\ PageAbove(FALSE, fb, page) /\ PageAbove(FALSE, panel, page)
  BY <1>2 DEF IInv, WellTyped
<1>5. cpp' = FALSE /\ page' = page /\ old_page' = old_page /\ binding' # NoBinding
  BY <1>1, <1>2 DEF Same
<1>6. PageAbove(FALSE, fb', page)
  BY <1>1, <1>4, RestoreAbove
<1>7. PageAbove(FALSE, panel', page) /\ PanelShows(FALSE, panel', fb')
  BY <1>1, <1>4, <1>6, AreaUpdated
<1>8. BarAway'
  <2>1. todo' = <<>>
    <3>1. todo[1].op = LastOp(FALSE)
      BY <1>2 DEF LastOp
    <3> QED
      BY <1>1, <1>3, <3>1, BarStep
  <2>2. starved' \/ FromPages(fb', page, old_page)
    BY <1>1, <1>3, <1>4, RestoreKeepsPages
  <2>3. AwayProgram(FALSE, todo', Len(file'))
    BY <2>1 DEF AwayProgram
  <2> QED
    BY <1>5, <1>7, <2>1, <2>2, <2>3 DEF BarAway
<1>9. WellTyped' /\ Between' /\ FileShowsPage'
  BY <1>1, <1>2, <1>4, Kept
<1> QED
  BY <1>5, <1>6, <1>7, <1>8, <1>9 DEF IInv

\* An instruction that does not draw.
LEMMA QuietKeeps ==
  ASSUME IInv, Same, UNCHANGED <<display, file, starved>>, failed' \in BOOLEAN,
         todo # <<>>, binding # NoBinding,
         \/ BarShown /\ BarProgram(cpp, todo')
         \/ BarAway /\ AwayProgram(cpp, todo', Len(file))
  PROVE  IInv'
<1>1. /\ fb' = fb /\ panel' = panel /\ psav' = psav /\ psave' = psave
      /\ file' = file /\ starved' = starved
      /\ cpp' = cpp /\ page' = page /\ old_page' = old_page /\ binding' = binding
  BY DEF Same, display
<1>2. /\ psave' = NULL \/ psave' \in BarCopy
      /\ ~cpp => psav' = NULL \/ psav' \in BarCopy
      /\ starved' \in BOOLEAN /\ (cpp => ~starved')
  BY <1>1 DEF IInv, WellTyped
<1>3. WellTyped' /\ Between' /\ FileShowsPage'
  BY <1>1, <1>2, Kept
<1>4. PageAbove(cpp', fb', page') /\ PageAbove(cpp', panel', page')
  BY <1>1 DEF IInv
<1>5. CASE BarShown /\ BarProgram(cpp, todo')
  <2>1. BarShown'
    BY <1>1, <1>5 DEF BarShown
  <2> QED
    BY <1>3, <1>4, <2>1 DEF IInv
<1>6. CASE BarAway /\ AwayProgram(cpp, todo', Len(file))
  <2>1. BarAway'
    BY <1>1, <1>6 DEF BarAway
  <2> QED
    BY <1>3, <1>4, <2>1 DEF IInv
<1> QED
  BY <1>5, <1>6

LEMMA SendKeeps ==
  ASSUME IInv, Send
  PROVE  IInv'
<1>1. /\ Next_is("key") /\ Same /\ todo' = Tail(todo)
      /\ UNCHANGED <<display, file, starved>> /\ failed' = failed
  BY DEF Send, Done
<1>2. /\ todo # <<>> /\ todo[1].op = "key" /\ binding # NoBinding
      /\ (BarAway /\ cpp = TRUE) \/ (BarShown /\ cpp = FALSE)
  BY <1>1, Current
<1>3. failed \in BOOLEAN /\ Len(file) \in 0..YRES
  BY DEF IInv, WellTyped
<1>4. CASE BarAway /\ cpp = TRUE
  <2>1. AwayProgram(TRUE, todo, Len(file))
    BY <1>4 DEF BarAway
  <2>2. KeyProgram(Tail(todo))
    BY <1>2, <1>3, <2>1, AwayStep
  <2>3. AwayProgram(cpp, todo', Len(file))
    BY <1>1, <1>4, <2>2 DEF AwayProgram
  <2> QED
    BY <1>1, <1>2, <1>3, <1>4, <2>3, QuietKeeps
<1>5. CASE BarShown /\ cpp = FALSE
  <2>1. BarProgram(FALSE, todo) /\ todo[1].op # LastOp(FALSE)
    BY <1>2, <1>5 DEF BarShown, LastOp
  <2>2. BarProgram(cpp, todo')
    BY <1>1, <1>5, <2>1, BarStep
  <2> QED
    BY <1>1, <1>2, <1>3, <1>5, <2>2, QuietKeeps
<1> QED
  BY <1>2, <1>4, <1>5

LEMMA SystemKeeps ==
  ASSUME IInv, System
  PROVE  IInv'
<1>1. /\ Next_is("system") \/ Next_is("run_command")
      /\ Same /\ todo' = Tail(todo)
      /\ UNCHANGED <<display, file, starved>> /\ failed' \in BOOLEAN
  BY DEF System, Done
<1>2. /\ todo # <<>> /\ todo[1].op \in {"system", "run_command"} /\ binding # NoBinding
      /\ BarShown
  BY <1>1, Current
<1>3. cpp \in BOOLEAN
  BY DEF IInv, WellTyped
<1>4. BarProgram(cpp, todo) /\ todo[1].op # LastOp(cpp)
  BY <1>2 DEF BarShown, LastOp
<1>5. BarProgram(cpp, todo')
  BY <1>1, <1>3, <1>4, BarStep
<1> QED
  BY <1>1, <1>2, <1>5, QuietKeeps

LEMMA ResultKeeps ==
  ASSUME IInv, Result
  PROVE  IInv'
<1>1. /\ Next_is("result") /\ Same
      /\ todo' = Message(IF failed THEN Failure ELSE Success) \o Tail(todo)
      /\ UNCHANGED <<display, file, starved>> /\ failed' = failed
  BY DEF Result
<1>2. /\ todo # <<>> /\ todo[1].op = "result" /\ binding # NoBinding
      /\ BarShown /\ cpp = FALSE
  BY <1>1, Current
<1>3. failed \in BOOLEAN
  BY DEF IInv, WellTyped
<1>4. BarProgram(FALSE, todo) /\ todo[1].op # LastOp(FALSE)
  BY <1>2 DEF BarShown, LastOp
<1>5. BarProgram(FALSE, Tail(todo))
  BY <1>4, BarStep
<1>6. PICK text : text = IF failed THEN Failure ELSE Success
  OBVIOUS
<1>7. IsSeq(text)
  BY <1>6, BindingAssumption DEF IsSeq
<1>8. BarProgram(cpp, todo')
  BY <1>1, <1>2, <1>5, <1>6, <1>7, MessageInside, BarBuilt
<1> QED
  BY <1>1, <1>2, <1>3, <1>8, QuietKeeps

LEMMA ScriptKeeps ==
  ASSUME IInv, Script
  PROVE  IInv'
<1>1. /\ Next_is("script") /\ Same
      /\ UNCHANGED <<display, file, starved>>
      /\ \/ /\ todo' = process_kindle_script(kindle3, Concat(SplitAtBlanks, binding.words))
                       \o Tail(todo)
            /\ failed' = failed
         \/ todo' = Tail(todo) /\ failed' = TRUE
  BY DEF Script, Done
<1>2. /\ todo # <<>> /\ todo[1].op = "script" /\ binding # NoBinding
      /\ BarShown /\ cpp = FALSE
  BY <1>1, Current
<1>3. /\ failed \in BOOLEAN
      /\ binding \in Binding \cup {NoBinding, [NoBinding EXCEPT !.kind = "Picture"]}
  BY DEF IInv, WellTyped
<1>4. BarProgram(FALSE, todo) /\ todo[1].op # LastOp(FALSE)
  BY <1>2 DEF BarShown, LastOp
<1>5. BarProgram(FALSE, Tail(todo))
  BY <1>4, BarStep
<1>6. binding.words \in Seq(CommandWord)
  <2>1. CASE binding \in Binding
    BY <2>1, BindingAssumption
  <2>2. CASE binding = [NoBinding EXCEPT !.kind = "Picture"]
    <3>1. binding.words = <<>>
      BY <2>2 DEF NoBinding
    <3> QED
      BY <3>1
  <2> QED
    BY <1>2, <1>3, <2>1, <2>2
<1>7. PICK s : s = process_kindle_script(kindle3, Concat(SplitAtBlanks, binding.words))
  OBVIOUS
<1>8. KeySeq(s)
  <2>1. PICK d : d = Concat(SplitAtBlanks, binding.words)
    OBVIOUS
  <2>2. d \in Seq(CommandWord)
    BY <1>6, <2>1, WordsSplit
  <2> QED
    BY <1>7, <2>1, <2>2, ScriptIsKeys
<1>9. BarProgram(FALSE, s \o Tail(todo))
  BY <1>5, <1>8, KeysInside, BarBuilt
<1>10. BarProgram(cpp, todo') /\ failed' \in BOOLEAN
  BY <1>1, <1>2, <1>3, <1>5, <1>7, <1>9
<1> QED
  BY <1>1, <1>2, <1>10, QuietKeeps

LEMMA Screenshot_openKeeps ==
  ASSUME IInv, Screenshot_open
  PROVE  IInv'
<1>1. /\ Next_is("open") /\ Same
      /\ UNCHANGED <<display, file, starved>>
      /\ \/ todo' = Tail(todo) /\ failed' = failed
         \/ todo' = SubSeq(todo, YRES + 2, Len(todo)) /\ failed' = TRUE
  BY DEF Screenshot_open, Done, AfterRows
<1>2. todo # <<>> /\ todo[1].op = "open" /\ binding # NoBinding /\ BarAway
  BY <1>1, Current
<1>3. failed \in BOOLEAN /\ Len(file) \in 0..YRES /\ cpp \in BOOLEAN
  BY DEF IInv, WellTyped
<1>4. AwayProgram(cpp, todo, Len(file))
  BY <1>2 DEF BarAway
<1>5. /\ Len(file) = 0 /\ RowProgram(cpp, Tail(todo), 0)
      /\ RowsThen(cpp, SubSeq(todo, YRES + 2, Len(todo)))
  BY <1>2, <1>3, <1>4, AwayStep
<1>6. AwayProgram(cpp, Tail(todo), Len(file))
  BY <1>5 DEF AwayProgram
<1>7. AwayProgram(cpp, SubSeq(todo, YRES + 2, Len(todo)), Len(file))
  <2>1. CASE cpp = TRUE
    BY <1>5, <2>1 DEF AwayProgram, RowsThen
  <2>2. CASE cpp = FALSE
    BY <1>5, <2>2 DEF AwayProgram, RowsThen
  <2> QED
    BY <1>3, <2>1, <2>2
<1>8. AwayProgram(cpp, todo', Len(file)) /\ failed' \in BOOLEAN
  BY <1>1, <1>3, <1>6, <1>7
<1> QED
  BY <1>1, <1>2, <1>8, QuietKeeps

LEMMA AppendFacts ==
  ASSUME NEW s, IsSeq(s), NEW x
  PROVE  /\ IsSeq(Append(s, x)) /\ Len(Append(s, x)) = Len(s) + 1
         /\ \A j \in 1..(Len(s) + 1) : Append(s, x)[j] = IF j <= Len(s) THEN s[j] ELSE x
<1>1. PICK S : s \in Seq(S)
  BY DEF IsSeq
<1>2. PICK D : D = S \cup {x}
  OBVIOUS
<1>3. s \in Seq(D) /\ x \in D
  BY <1>1, <1>2
<1>4. Append(s, x) \in Seq(D) /\ Len(Append(s, x)) = Len(s) + 1
  BY <1>3
<1>5. \A j \in 1..(Len(s) + 1) : Append(s, x)[j] = IF j <= Len(s) THEN s[j] ELSE x
  BY <1>3
<1> QED
  BY <1>4, <1>5 DEF IsSeq

LEMMA Screenshot_rowKeeps ==
  ASSUME IInv, Screenshot_row
  PROVE  IInv'
<1>1. /\ Next_is("row") \/ Next_is("write_row")
      /\ file' = Append(file, IF Next_is("row") THEN screenshot_row(fb, Head(todo).row, <<>>)
                              ELSE write_pixel_row(fb, Head(todo).row))
      /\ Same /\ todo' = Tail(todo)
      /\ UNCHANGED display /\ failed' = failed /\ starved' = starved
  BY DEF Screenshot_row, Done
<1>2. /\ todo # <<>> /\ Head(todo) = todo[1] /\ binding # NoBinding /\ BarAway
      /\ \/ todo[1].op = "row" /\ cpp = FALSE
         \/ todo[1].op = "write_row" /\ cpp = TRUE
  <2>1. CASE Next_is("row")
    BY <2>1, Current
  <2>2. CASE Next_is("write_row")
    BY <2>2, Current
  <2> QED
    BY <1>1, <2>1, <2>2
<1>3. /\ cpp \in BOOLEAN /\ IsSeq(file) /\ Len(file) \in 0..YRES /\ page \in Page
      /\ PageAbove(cpp, fb, page) /\ PageAbove(cpp, panel, page)
  BY DEF IInv, WellTyped
<1>4. AwayProgram(cpp, todo, Len(file)) /\ fb = Painted(page)
  BY <1>2 DEF BarAway
<1>5. todo[1].op = RowOp(cpp)
  BY <1>2 DEF RowOp
<1>6. /\ Len(file) \in 0..(YRES - 1) /\ todo[1].row = Len(file)
      /\ RowProgram(cpp, Tail(todo), Len(file) + 1)
  BY <1>2, <1>3, <1>4, <1>5, AwayStep
<1>7. PICK n \in 0..(YRES - 1) : n = Len(file)
  BY <1>6
<1>8. PICK x : x = IF Next_is("row") THEN screenshot_row(fb, n, <<>>)
                                    ELSE write_pixel_row(fb, n)
  OBVIOUS
<1>9. file' = Append(file, x)
  BY <1>1, <1>2, <1>6, <1>7, <1>8
<1>10. /\ IsSeq(file') /\ Len(file') = n + 1
       /\ \A j \in 1..(n + 1) : file'[j] = IF j <= n THEN file[j] ELSE x
  BY <1>3, <1>7, <1>9, AppendFacts
<1>11. /\ fb' = fb /\ panel' = panel /\ psav' = psav /\ psave' = psave
       /\ cpp' = cpp /\ kindle3' = kindle3 /\ proc_open' = proc_open /\ binding' = binding
       /\ found' = found /\ page' = page /\ old_page' = old_page /\ touched' = touched
  BY <1>1 DEF Same, display
<1>12. n + 1 \in 0..YRES
  BY <1>7, Sizes
<1>13. WellTyped'
  BY <1>1, <1>10, <1>11, <1>12 DEF IInv, WellTyped
<1>14. Between'
  BY <1>2, <1>11 DEF Between
<1>15. fb \in Screen /\ fb.height = YRES
  BY <1>3 DEF PageAbove, Screen, PixmapOf
<1>16. RowShows(cpp, x, n + 1, page, old_page)
  <2>1. CASE cpp = TRUE
    <3>1. ~Next_is("row")
      BY <1>2, <2>1 DEF Next_is
    <3>2. x = FramebufferRow(fb, YRES - 1 - n)
      BY <1>7, <1>8, <1>15, <3>1, WrittenRow
    <3>3. YRES - 1 - n = YRES + 0 - (n + 1)
      BY <1>7, Sizes
    <3> QED
      BY <1>4, <2>1, <3>2, <3>3 DEF RowShows
  <2>2. CASE cpp = FALSE
    <3>1. Next_is("row")
      BY <1>2, <2>2 DEF Next_is, idle
    <3>2. n + 1 > 2 => x = FramebufferRow(fb, YRES + 1 - n)
      BY <1>7, <1>8, <1>15, <3>1 DEF screenshot_row
    <3>3. YRES + 1 - n = YRES + 2 - (n + 1)
      BY <1>7, Sizes
    <3> QED
      BY <1>4, <2>2, <3>2, <3>3 DEF RowShows
  <2> QED
    BY <1>3, <2>1, <2>2
<1>17. FileShowsPage'
  <2>1. \A i \in DOMAIN file : RowShows(cpp, file[i], i, page, old_page)
    BY DEF IInv, FileShowsPage, RowShows
  <2>2. DOMAIN file = 1..n /\ DOMAIN file' = 1..(n + 1)
    BY <1>3, <1>7, <1>10, SeqFacts
  <2>3. ASSUME NEW i \in 1..(n + 1)
        PROVE  RowShows(cpp, file'[i], i, page, old_page)
    <3>1. CASE i <= n
      <4>1. i \in 1..n /\ file'[i] = file[i]
        BY <1>10, <3>1
      <4> QED
        BY <2>1, <2>2, <4>1
    <3>2. CASE ~(i <= n)
      <4>1. i = n + 1 /\ file'[i] = x
        BY <1>7, <1>10, <3>2
      <4> QED
        BY <1>16, <4>1
    <3> QED
      BY <3>1, <3>2
  <2>4. \A i \in DOMAIN file' : RowShows(cpp', file'[i], i, page', old_page')
    BY <1>11, <2>2, <2>3
  <2> QED
    BY <2>4 DEF FileShowsPage, RowShows
<1>18. BarAway'
  <2>1. AwayProgram(cpp, todo', Len(file'))
    BY <1>1, <1>6, <1>7, <1>10 DEF AwayProgram
  <2> QED
    BY <1>1, <1>2, <1>4, <1>11, <2>1 DEF BarAway
<1> QED
  BY <1>3, <1>11, <1>13, <1>14, <1>17, <1>18 DEF IInv

LEMMA Show_statusKeeps ==
  ASSUME IInv, Show_status
  PROVE  IInv'
<1>1. /\ Next_is("show_status") /\ Same /\ todo' = Tail(todo) /\ file' = file
      /\ failed' = failed /\ starved' = starved /\ psave' = psave
      /\ psav' = IF psav = NULL THEN [saved_pixels |-> capture_pixels(fb)] ELSE psav
      /\ fb' = draw_bar_text(fb, Head(todo).text)
      /\ panel' = screen_update_area(panel, fb', get_bar_region.y,
                                     get_bar_region.y + STATUS_BAR_HEIGHT)
  BY DEF Show_status, OnBar, Done, UpdateRegion
<1>2. /\ todo # <<>> /\ todo[1].op = "show_status" /\ binding # NoBinding
      /\ BarAway /\ cpp = TRUE
  BY <1>1, Current
<1>3. /\ Len(file) \in 0..YRES /\ page \in Page
      /\ psave = NULL \/ psave \in BarCopy
      /\ failed \in BOOLEAN /\ starved = FALSE
      /\ PageAbove(TRUE, fb, page) /\ PageAbove(TRUE, panel, page)
  BY <1>2 DEF IInv, WellTyped
<1>4. cpp' = TRUE /\ page' = page /\ old_page' = old_page
  BY <1>1, <1>2 DEF Same
<1>5. /\ fb \in Screen /\ FromPages(fb, page, old_page) /\ psav = NULL
      /\ AwayProgram(TRUE, todo, Len(file))
  BY <1>2, <1>3 DEF BarAway, PageAbove
<1>6. PageAbove(TRUE, fb', page)
  BY <1>1, <1>3, AboveDrawn
<1>7. PageAbove(TRUE, panel', page)
  BY <1>1, <1>3, <1>6, RegionUpdated
<1>8. BarShown'
  <2>1. todo[1].op = FirstOp(TRUE)
    BY <1>2 DEF FirstOp
  <2>2. BarProgram(TRUE, Tail(todo))
    BY <1>2, <1>3, <1>5, <2>1, AwayStep
  <2>3. SavedBar(TRUE, psav', page, old_page)
    BY <1>1, <1>5, CaptureKeepsPages
  <2> QED
    BY <1>1, <1>4, <2>2, <2>3 DEF BarShown
<1>9. WellTyped' /\ Between' /\ FileShowsPage'
  BY <1>1, <1>2, <1>3, Kept
<1> QED
  BY <1>4, <1>6, <1>7, <1>8, <1>9 DEF IInv

LEMMA Draw_resultKeeps ==
  ASSUME IInv, Draw_result
  PROVE  IInv'
<1>1. /\ Next_is("draw") \/ Next_is("show_result")
      /\ Same /\ todo' = Tail(todo) /\ file' = file
      /\ failed' = failed /\ starved' = starved /\ psave' = psave /\ psav' = psav
      /\ \E text : fb' = draw_bar_text(fb, text)
      /\ panel' = screen_update_area(panel, fb', get_bar_region.y,
                                     get_bar_region.y + STATUS_BAR_HEIGHT)
  BY DEF Draw_result, OnBar, Done, UpdateRegion
<1>2. /\ todo # <<>> /\ todo[1].op \in {"draw", "show_result"} /\ binding # NoBinding
      /\ BarShown /\ cpp = TRUE
  BY <1>1, Current
<1>3. /\ psave = NULL \/ psave \in BarCopy
      /\ failed \in BOOLEAN /\ starved = FALSE
      /\ PageAbove(TRUE, fb, page) /\ PageAbove(TRUE, panel, page)
  BY <1>2 DEF IInv, WellTyped
<1>4. cpp' = TRUE /\ page' = page /\ old_page' = old_page
  BY <1>1, <1>2 DEF Same
<1>5. BarProgram(TRUE, todo) /\ SavedBar(TRUE, psav, page, old_page)
  BY <1>2, <1>3 DEF BarShown
<1>6. PageAbove(TRUE, fb', page)
  BY <1>1, <1>3, AboveDrawn
<1>7. PageAbove(TRUE, panel', page)
  BY <1>1, <1>3, <1>6, RegionUpdated
<1>8. BarShown'
  <2>1. todo[1].op # LastOp(TRUE)
    BY <1>2 DEF LastOp
  <2>2. BarProgram(TRUE, Tail(todo))
    BY <1>5, <2>1, BarStep
  <2> QED
    BY <1>1, <1>4, <1>5, <2>2 DEF BarShown
<1>9. WellTyped' /\ Between' /\ FileShowsPage'
  BY <1>1, <1>2, <1>3, Kept
<1> QED
  BY <1>4, <1>6, <1>7, <1>8, <1>9 DEF IInv

LEMMA Hide_statusKeeps ==
  ASSUME IInv, Hide_status
  PROVE  IInv'
<1>1. /\ Next_is("hide_status") /\ Same /\ todo' = Tail(todo) /\ file' = file
      /\ failed' = failed /\ starved' = starved /\ psave' = psave /\ psav' = NULL
      /\ psav = NULL => fb' = fb /\ panel' = panel
      /\ psav # NULL =>
           /\ fb' = restore_pixels(fb, psav.saved_pixels)
           /\ panel' = screen_update_area(panel, fb', get_bar_region.y,
                                          get_bar_region.y + STATUS_BAR_HEIGHT)
  BY DEF Hide_status, OnBar, Done, UpdateRegion
<1>2. todo # <<>> /\ todo[1].op = "hide_status" /\ binding # NoBinding /\ cpp = TRUE
  BY <1>1, Current
<1>3. /\ Len(file) \in 0..YRES /\ page \in Page /\ old_page \in Page
      /\ psave = NULL \/ psave \in BarCopy
      /\ failed \in BOOLEAN /\ starved = FALSE
      /\ PageAbove(TRUE, fb, page) /\ PageAbove(TRUE, panel, page)
      /\ BarShown \/ BarAway
  BY <1>2 DEF IInv, WellTyped
<1>4. cpp' = TRUE /\ page' = page /\ old_page' = old_page /\ binding' # NoBinding
  BY <1>1, <1>2 DEF Same
<1>5. WellTyped' /\ Between' /\ FileShowsPage'
  BY <1>1, <1>2, <1>3, Kept
<1>6. CASE BarShown
  <2>1. BarProgram(TRUE, todo) /\ SavedBar(TRUE, psav, page, old_page)
    BY <1>2, <1>3, <1>6 DEF BarShown
  <2>2. fb' = restore_pixels(fb, psav.saved_pixels)
    BY <1>1, <2>1, SavedIsSomething
  <2>3. PageAbove(TRUE, fb', page) /\ FromPages(fb', page, old_page)
    BY <1>3, <2>1, <2>2, RestorePixelsKeepsPages
  <2>4. PageAbove(TRUE, panel', page) /\ PanelShows(TRUE, panel', fb')
    BY <1>1, <1>3, <2>1, <2>3, SavedIsSomething, RegionUpdated
  <2>5. todo' = <<>>
    <3>1. todo[1].op = LastOp(TRUE)
      BY <1>2 DEF LastOp
    <3> QED
      BY <1>1, <2>1, <3>1, BarStep
  <2>6. BarAway'
    BY <1>1, <1>4, <2>3, <2>4, <2>5 DEF BarAway, AwayProgram
  <2> QED
    BY <1>4, <1>5, <2>3, <2>4, <2>6 DEF IInv
<1>7. CASE BarAway
  <2>1. /\ AwayProgram(TRUE, todo, Len(file)) /\ psav = NULL
        /\ PanelShows(TRUE, panel, fb) /\ FromPages(fb, page, old_page)
    BY <1>2, <1>3, <1>7 DEF BarAway
  <2>2. todo' = <<>>
    BY <1>1, <1>2, <1>3, <2>1, AwayStep
  <2>3. BarAway'
    BY <1>1, <1>4, <2>1, <2>2 DEF BarAway, AwayProgram
  <2> QED
    BY <1>1, <1>3, <1>4, <1>5, <2>1, <2>3 DEF IInv
<1> QED
  BY <1>3, <1>6, <1>7

LEMMA NotNone ==
  /\ \A b \in Binding : b # NoBinding
  /\ [NoBinding EXCEPT !.kind = "Picture"] # NoBinding
<1>1. ASSUME NEW b \in Binding
      PROVE  b # NoBinding
  <2>1. b.kind # "None"
    BY BindingAssumption
  <2> QED
    BY <2>1 DEF NoBinding
<1>2. [NoBinding EXCEPT !.kind = "Picture"].kind = "Picture" /\ NoBinding.kind = "None"
  BY DEF NoBinding
<1> QED
  BY <1>1, <1>2

\* While the daemon waits the bar is not shown.
LEMMA WaitingIsAway ==
  ASSUME IInv, idle
  PROVE  BarAway
<1>1. cpp \in BOOLEAN
  BY DEF IInv, WellTyped
<1>2. ~BarShown
  BY <1>1, BarStep DEF BarShown, idle
<1> QED
  BY <1>2 DEF IInv

\* An action begins.
LEMMA BeginKeeps ==
  ASSUME IInv, idle, binding = NoBinding,
         binding' \in Binding \cup {[NoBinding EXCEPT !.kind = "Picture"]},
         found' \in BOOLEAN, AwayProgram(cpp, todo', 0),
         UNCHANGED <<cpp, kindle3, proc_open, display, page, old_page, file, touched, failed,
                     starved>>
  PROVE  IInv'
<1>1. /\ cpp' = cpp /\ kindle3' = kindle3 /\ proc_open' = proc_open /\ fb' = fb
      /\ panel' = panel /\ psav' = psav /\ psave' = psave /\ page' = page
      /\ old_page' = old_page /\ file' = file /\ touched' = touched /\ failed' = failed
      /\ starved' = starved
  BY DEF display
<1>2. BarAway
  BY WaitingIsAway
<1>3. file = <<>> /\ Len(file) = 0
  BY ShortSeqs DEF IInv, Between
<1>4. binding' # NoBinding
  BY NotNone
<1>5. WellTyped'
  BY <1>1 DEF IInv, WellTyped
<1>6. PageAbove(cpp', fb', page') /\ PageAbove(cpp', panel', page')
  BY <1>1 DEF IInv
<1>7. BarAway'
  BY <1>1, <1>2, <1>3 DEF BarAway
<1>8. Between'
  BY <1>4 DEF Between
<1>9. FileShowsPage'
  BY <1>1 DEF IInv, FileShowsPage
<1> QED
  BY <1>5, <1>6, <1>7, <1>8, <1>9 DEF IInv

LEMMA PressedKeeps ==
  ASSUME IInv, NEW b \in Binding, Pressed(b)
  PROVE  IInv'
<1>1. /\ idle /\ binding = NoBinding /\ binding' = b
      /\ UNCHANGED <<cpp, kindle3, proc_open, display, page, old_page, file, touched, failed,
                     starved>>
  BY DEF Pressed
<1>2. found' \in BOOLEAN
  BY DEF Pressed
<1>3. todo' = <<>> \/ (cpp /\ todo' = execute(b)) \/ (~cpp /\ todo' = execute_action(b))
  BY DEF Pressed
<1>4. cpp \in BOOLEAN
  BY DEF IInv, WellTyped
<1>5. AwayProgram(cpp, todo', 0)
  <2>1. CASE todo' = <<>>
    BY <2>1 DEF AwayProgram
  <2>2. CASE cpp = TRUE /\ todo' = execute(b)
    BY <2>2, ExecuteBuilt DEF AwayProgram
  <2>3. CASE cpp = FALSE /\ todo' = execute_action(b)
    BY <2>3, ActionBuilt DEF AwayProgram
  <2> QED
    BY <1>3, <1>4, <2>1, <2>2, <2>3
<1> QED
  BY <1>1, <1>2, <1>5, BeginKeeps

LEMMA PictureKeeps ==
  ASSUME IInv, Picture
  PROVE  IInv'
<1>1. /\ idle /\ cpp /\ binding = NoBinding /\ todo' = write_bmp
      /\ binding' = [NoBinding EXCEPT !.kind = "Picture"] /\ found' = found
      /\ UNCHANGED <<cpp, kindle3, proc_open, display, page, old_page, file, touched, failed,
                     starved>>
  BY DEF Picture
<1>2. found \in BOOLEAN /\ cpp \in BOOLEAN
  BY DEF IInv, WellTyped
<1>3. AwayProgram(cpp, todo', 0)
  <2>1. cpp = TRUE
    BY <1>1, <1>2
  <2> QED
    BY <1>1, <2>1, WriteBmpBuilt DEF AwayProgram
<1> QED
  BY <1>1, <1>2, <1>3, BeginKeeps

\* Whatever the daemon does, the page may be turned.
LEMMA RepaintKeeps ==
  ASSUME IInv, Repaint
  PROVE  IInv'
<1>1. /\ old_page = page /\ page' = 3 - page
      /\ old_page' = IF binding = NoBinding THEN page' ELSE page
      /\ fb' = Painted(page') /\ panel' = Painted(page')
      /\ cpp' = cpp /\ kindle3' = kindle3 /\ proc_open' = proc_open /\ todo' = todo
      /\ binding' = binding /\ found' = found /\ psav' = psav /\ psave' = psave
      /\ file' = file /\ touched' = touched /\ failed' = failed /\ starved' = starved
  BY DEF Repaint
<1>2. cpp \in BOOLEAN /\ page \in Page
  BY DEF IInv, WellTyped
<1>3. page' \in Page /\ old_page' \in Page
  <2>1. 3 - page \in Page
    BY <1>2 DEF Page
  <2> QED
    BY <1>1, <1>2, <2>1
<1>4. WellTyped'
  BY <1>1, <1>3 DEF IInv, WellTyped
<1>5. /\ PageAbove(cpp, fb', page') /\ PageAbove(cpp, panel', page')
      /\ PanelShows(cpp, panel', fb') /\ FromPages(fb', page', old_page')
  BY <1>1, <1>2, <1>3, PaintedShows
<1>6. Between'
  BY <1>1 DEF IInv, Between
<1>7. BarShown => BarShown'
  <2>1. SUFFICES ASSUME BarShown
                 PROVE  BarShown'
    OBVIOUS
  <2>2. BarProgram(cpp, todo) /\ todo # <<>>
    BY <1>2, <2>1, BarStep DEF BarShown
  <2>3. old_page' = page
    BY <1>1, <2>2 DEF IInv, Between
  <2>4. starved \/ SavedBar(cpp, psav, page', page)
    BY <1>1, <1>2, <2>1, SavedIsOld DEF BarShown
  <2> QED
    BY <1>1, <2>2, <2>3, <2>4 DEF BarShown
<1>8. BarAway => BarAway'
  BY <1>1, <1>5 DEF BarAway
<1>9. FileShowsPage'
  <2>1. \A i \in DOMAIN file : RowShows(cpp, file[i], i, page, page)
    BY <1>1 DEF IInv, FileShowsPage, RowShows
  <2>2. \A i \in DOMAIN file : RowShows(cpp, file[i], i, page', old_page')
    <3>1. CASE binding = NoBinding
      <4>1. file = <<>>
        BY <3>1 DEF IInv, Between
      <4> QED
        BY <4>1
    <3>2. CASE binding # NoBinding
      BY <1>1, <2>1, <3>2 DEF RowShows
    <3> QED
      BY <3>1, <3>2
  <2> QED
    BY <1>1, <2>2 DEF FileShowsPage, RowShows
<1> QED
  BY <1>1, <1>4, <1>5, <1>6, <1>7, <1>8, <1>9 DEF IInv

LEMMA UserKeyKeeps ==
  ASSUME IInv, UserKey
  PROVE  IInv'
<1>1. /\ touched' = TRUE
      /\ cpp' = cpp /\ kindle3' = kindle3 /\ proc_open' = proc_open /\ todo' = todo
      /\ binding' = binding /\ found' = found /\ psav' = psav /\ psave' = psave
      /\ file' = file /\ failed' = failed /\ starved' = starved
      /\ page' = page /\ old_page' = old_page /\ fb' = fb /\ panel' = panel
  BY DEF UserKey, display
<1>2. WellTyped'
  BY <1>1 DEF IInv, WellTyped
<1>3. (BarShown \/ BarAway)'
  BY <1>1 DEF IInv, BarShown, BarAway
<1>4. Between'
  BY <1>1 DEF IInv, Between
<1>5. FileShowsPage'
  BY <1>1 DEF IInv, FileShowsPage
<1> QED
  BY <1>1, <1>2, <1>3, <1>4, <1>5 DEF IInv

LEMMA SettleKeeps ==
  ASSUME IInv, Settle
  PROVE  IInv'
<1>1. /\ idle /\ binding' = NoBinding /\ found' = TRUE
      /\ touched' = FALSE /\ failed' = FALSE /\ starved' = FALSE /\ file' = <<>>
      /\ cpp' = cpp /\ kindle3' = kindle3 /\ proc_open' = proc_open /\ todo' = todo
      /\ psav' = psav /\ psave' = psave /\ page' = page
      /\ \/ old_page' = page /\ fb' = Painted(page) /\ panel' = Painted(page)
         \/ /\ ~starved /\ old_page = page
            /\ old_page' = old_page /\ fb' = fb /\ panel' = panel
  BY DEF Settle
<1>2. BarAway
  BY <1>1, WaitingIsAway
<1>3. /\ cpp \in BOOLEAN /\ page \in Page
      /\ PageAbove(cpp, fb, page) /\ PageAbove(cpp, panel, page)
  BY DEF IInv, WellTyped
<1>4. old_page' = page /\ todo' = <<>>
  BY <1>1 DEF idle
<1>5. /\ fb' = Painted(page) /\ PageAbove(cpp, fb', page) /\ PageAbove(cpp, panel', page)
      /\ PanelShows(cpp, panel', fb')
  <2>1. CASE fb' = Painted(page) /\ panel' = Painted(page)
    BY <1>3, <2>1, PaintedShows
  <2>2. CASE ~starved /\ old_page = page /\ fb' = fb /\ panel' = panel
    <3>1. fb \in Screen /\ FromPages(fb, page, page) /\ PanelShows(cpp, panel, fb)
      BY <1>2, <1>3, <2>2 DEF BarAway, PageAbove
    <3>2. fb = Painted(page)
      BY <1>3, <3>1, PageIsPainted
    <3> QED
      BY <1>3, <2>2, <3>1, <3>2
  <2> QED
    BY <1>1, <2>1, <2>2
<1>6. IsSeq(file') /\ Len(file') = 0 /\ 0 \in 0..YRES
  <2>1. 0 \in 0..YRES
    BY Sizes
  <2> QED
    BY <1>1, <2>1, ShortSeqs
<1>7. WellTyped'
  BY <1>1, <1>4, <1>6 DEF IInv, WellTyped
<1>8. Between'
  BY <1>1, <1>4 DEF Between
<1>9. FileShowsPage'
  <2>1. DOMAIN file' = {}
    BY <1>1
  <2> QED
    BY <2>1 DEF FileShowsPage
<1>10. BarAway'
  <2>1. FromPages(fb', page, page)
    BY <1>3, <1>5, PaintedShows
  <2> QED
    BY <1>1, <1>2, <1>4, <1>5, <2>1 DEF BarAway, AwayProgram
<1> QED
  BY <1>1, <1>5, <1>7, <1>8, <1>9, <1>10 DEF IInv

LEMMA InitIsTyped ==
  ASSUME Init
  PROVE  IInv
<1>1. /\ todo = <<>> /\ binding = NoBinding /\ page = 1 /\ old_page = 1
      /\ fb = Painted(1) /\ panel = Painted(1) /\ psav = NULL /\ psave = NULL
      /\ file = <<>> /\ starved = FALSE /\ cpp \in BOOLEAN
  BY DEF Init
<1>2. 1 \in Page
  BY DEF Page
<1>3. /\ PageAbove(cpp, Painted(1), 1) /\ FromPages(Painted(1), 1, 1)
      /\ PanelShows(cpp, Painted(1), Painted(1))
  BY <1>1, <1>2, PaintedShows
<1>4. IsSeq(file) /\ Len(file) = 0 /\ 0 \in 0..YRES
  <2>1. 0 \in 0..YRES
    BY Sizes
  <2> QED
    BY <1>1, <2>1, ShortSeqs
<1>5. WellTyped
  BY <1>1, <1>2, <1>4 DEF Init, WellTyped
<1>6. BarAway
  BY <1>1, <1>3 DEF BarAway, AwayProgram
<1>7. Between
  BY <1>1 DEF Between
<1>8. FileShowsPage
  <2>1. DOMAIN file = {}
    BY <1>1
  <2> QED
    BY <2>1 DEF FileShowsPage
<1> QED
  BY <1>1, <1>3, <1>5, <1>6, <1>7, <1>8 DEF IInv

LEMMA NextKeeps ==
  ASSUME IInv, [Next]_vars
  PROVE  IInv'
<1>1. CASE Next
  <2>1. CASE \E b \in Binding : Pressed(b)
    BY <2>1, PressedKeeps
  <2>2. CASE Picture
    BY <2>2, PictureKeeps
  <2>3. CASE Show
    BY <2>3, ShowKeeps
  <2>4. CASE Write_text
    BY <2>4, Write_textKeeps
  <2>5. CASE Flash_invert
    BY <2>5, Flash_invertKeeps
  <2>6. CASE Flash_restore
    BY <2>6, Flash_restoreKeeps
  <2>7. CASE Hide
    BY <2>7, HideKeeps
  <2>8. CASE Send
    BY <2>8, SendKeeps
  <2>9. CASE System
    BY <2>9, SystemKeeps
  <2>10. CASE Result
    BY <2>10, ResultKeeps
  <2>11. CASE Script
    BY <2>11, ScriptKeeps
  <2>12. CASE Screenshot_open
    BY <2>12, Screenshot_openKeeps
  <2>13. CASE Screenshot_row
    BY <2>13, Screenshot_rowKeeps
  <2>14. CASE Show_status
    BY <2>14, Show_statusKeeps
  <2>15. CASE Draw_result
    BY <2>15, Draw_resultKeeps
  <2>16. CASE Hide_status
    BY <2>16, Hide_statusKeeps
  <2>17. CASE Repaint
    BY <2>17, RepaintKeeps
  <2>18. CASE UserKey
    BY <2>18, UserKeyKeeps
  <2>19. CASE Settle
    BY <2>19, SettleKeeps
  <2> QED
    BY <1>1, <2>1, <2>2, <2>3, <2>4, <2>5, <2>6, <2>7, <2>8, <2>9, <2>10, <2>11, <2>12,
       <2>13, <2>14, <2>15, <2>16, <2>17, <2>18, <2>19 DEF Next
<1>2. CASE UNCHANGED vars
  <2>1. /\ cpp' = cpp /\ kindle3' = kindle3 /\ proc_open' = proc_open /\ todo' = todo
        /\ binding' = binding /\ found' = found /\ psav' = psav /\ psave' = psave
        /\ file' = file /\ failed' = failed /\ starved' = starved /\ touched' = touched
        /\ page' = page /\ old_page' = old_page /\ fb' = fb /\ panel' = panel
    BY <1>2 DEF vars, display
  <2>2. WellTyped'
    BY <2>1 DEF IInv, WellTyped
  <2>3. (BarShown \/ BarAway)'
    BY <2>1 DEF IInv, BarShown, BarAway
  <2>4. Between' /\ FileShowsPage'
    BY <2>1 DEF IInv, Between, FileShowsPage
  <2> QED
    BY <2>1, <2>2, <2>3, <2>4 DEF IInv
<1> QED
  BY <1>1, <1>2

-----------------------------------------------------------------------------
(* The theorems.                                                           *)

\* The inductive invariant: at every step of every action of either daemon the
\* rest of the program takes the bar away again, what was saved of the bar is
\* of the page or of the one it replaced, and the page above the bar is shown.
THEOREM ActionRunInvariant == Spec => []IInv
<1>1. Init => IInv
  BY InitIsTyped
<1>2. IInv /\ [Next]_vars => IInv'
  BY NextKeeps
<1> QED
  BY <1>1, <1>2, PTL DEF Spec

LEMMA ScreenFacts ==
  ASSUME NEW p \in Screen
  PROVE  /\ p.width = XRES /\ p.height = YRES /\ DOMAIN p.surf = Indices(XRES, YRES)
         /\ \A i \in Indices(XRES, YRES) : p.surf[i] \in Byte
         /\ \A i : RowOf(p, i) = i \div stride(XRES)
<1>1. p.width = XRES /\ p.height = YRES /\ p.surf \in [Indices(XRES, YRES) -> Byte]
  BY DEF Screen, PixmapOf
<1> QED
  BY <1>1 DEF RowOf

\* The variables keep their types: the framebuffer and the panel keep their
\* size and hold bytes, and a screenshot has no more rows than the screen,
\* whatever is drawn, saved and restored.
THEOREM ActionRunTyped == Spec => []TypeOK
<1>1. ASSUME IInv
      PROVE  TypeOK
  <2>1. WellTyped /\ fb \in Screen /\ panel \in Screen
    BY <1>1 DEF IInv, PageAbove
  <2>2. binding.kind \in {"None", "Picture", "Shell", "SendKeys", "KindleKeys",
                         "KindleScript", "Screenshot"}
    <3>1. CASE binding \in Binding
      BY <3>1, BindingAssumption
    <3>2. CASE binding = NoBinding
      BY <3>2 DEF NoBinding
    <3>3. CASE binding = [NoBinding EXCEPT !.kind = "Picture"]
      BY <3>3 DEF NoBinding
    <3> QED
      BY <2>1, <3>1, <3>2, <3>3 DEF WellTyped
  <2>3. \A p \in {fb, panel} : p.width = XRES /\ p.height = YRES
                              /\ \A i \in DOMAIN p.surf : p.surf[i] \in Byte
    BY <2>1, ScreenFacts
  <2>4. Len(file) <= YRES
    BY <2>1, Sizes DEF WellTyped
  <2>5. page \in Page /\ old_page \in Page
    BY <2>1 DEF WellTyped
  <2>6. touched \in BOOLEAN /\ failed \in BOOLEAN /\ starved \in BOOLEAN
    BY <2>1 DEF WellTyped
  <2>7. {touched, failed, starved} \subseteq BOOLEAN
    BY <2>6, Zenon
  <2>8. cpp \in BOOLEAN /\ kindle3 \in BOOLEAN /\ found \in BOOLEAN
    BY <2>1 DEF WellTyped
  <2>9. proc_open \subseteq {"keypad", "fiveway"}
    BY <2>1 DEF WellTyped
  <2>10. {page, old_page} \subseteq Page
    BY <2>5
  <2> QED
    BY <2>2, <2>3, <2>4, <2>7, <2>8, <2>9, <2>10 DEF TypeOK
<1> QED
  BY <1>1, ActionRunInvariant, PTL

\* Both daemons draw on the bar only and put the page back when the action is
\* over: statusbar_show(), flash_thread() and statusbar_hide(), show_status()
\* and hide_status(), for every screen, bar and font, every text and every
\* action, wherever the page is turned.
THEOREM PageIsRestored == Spec => []PageRestored
<1>1. ASSUME IInv
      PROVE  PageRestored
  <2>1. /\ cpp \in BOOLEAN /\ page \in Page /\ old_page \in Page
        /\ fb \in Screen /\ PageAbove(cpp, fb, page)
    BY <1>1 DEF IInv, WellTyped, PageAbove
  <2>2. PICK bar : bar = (IF cpp THEN get_bar_region.y ELSE YRES - STATUSBAR_HEIGHT)..(YRES - 1)
    OBVIOUS
  <2>3. bar = BarFirst(cpp)..(YRES - 1)
    <3>1. CASE cpp = TRUE
      BY <2>2, <3>1, RegionIsBar DEF BarFirst
    <3>2. CASE cpp = FALSE
      BY <2>2, <3>2 DEF BarFirst
    <3> QED
      BY <2>1, <3>1, <3>2
  <2>4. ASSUME NEW i \in DOMAIN fb.surf
        PROVE  \/ fb.surf[i] = Painted(page).surf[i]
               \/ /\ RowOf(fb, i) \in bar
                  /\ idle => starved \/ fb.surf[i] = Painted(old_page).surf[i]
    <3>1. i \in Indices(XRES, YRES) /\ RowOf(fb, i) = i \div stride(XRES)
      BY <2>1, ScreenFacts
    <3>2. Painted(page).surf[i] = PageByte(page, i) /\ Painted(old_page).surf[i] = PageByte(old_page, i)
      BY <2>1, <3>1, PaintedTyped
    <3>3. PICK y \in 0..(YRES - 1) : y = i \div stride(XRES)
      BY <3>1, Sizes, IndexTyped
    <3>4. PICK b \in 0..(YRES - 1) : b = BarFirst(cpp)
      BY <2>1, BarFirstTyped
    <3>5. CASE y < b
      BY <2>1, <3>1, <3>2, <3>3, <3>4, <3>5 DEF PageAbove
    <3>6. CASE ~(y < b)
      <4>1. y \in b..(YRES - 1)
        <5>1. YRES \in Nat
          BY Sizes
        <5> QED
          BY <3>6, <5>1
      <4>2. RowOf(fb, i) \in bar
        BY <2>3, <3>1, <3>3, <3>4, <4>1
      <4>3. idle => starved \/ fb.surf[i] = PageByte(page, i) \/ fb.surf[i] = PageByte(old_page, i)
        BY <1>1, <3>1, WaitingIsAway DEF BarAway, FromPages
      <4> QED
        BY <3>2, <4>2, <4>3
    <3> QED
      BY <3>5, <3>6
  <2> QED
    BY <2>2, <2>4 DEF PageRestored
<1> QED
  BY <1>1, ActionRunInvariant, PTL

\* The panel shows the framebuffer when the action is over, but for the last
\* row of the C daemon's bar: the areas that statusbar_hide() and
\* hide_status() update cover all that the action drew.
THEOREM PanelIsUpdated == Spec => []PanelShowsPage
<1>1. ASSUME IInv
      PROVE  PanelShowsPage
  <2>1. fb \in Screen
    BY <1>1 DEF IInv, PageAbove
  <2>2. idle => PanelShows(cpp, panel, fb)
    BY <1>1, WaitingIsAway DEF BarAway
  <2>3. DOMAIN fb.surf = Indices(XRES, YRES) /\ \A i : RowOf(fb, i) = i \div stride(XRES)
    BY <2>1, ScreenFacts
  <2> QED
    BY <2>2, <2>3 DEF PanelShowsPage, PanelShows
<1> QED
  BY <1>1, ActionRunInvariant, PTL

\* A screenshot shows the page, or rows of it and of the page before when it
\* is turned meanwhile, and never the bar: do_screenshot() is done before the
\* bar is shown, write_bmp() while it is not.
THEOREM PictureShowsPage == Spec => []ScreenshotShowsPage
<1>1. IInv => ScreenshotShowsPage
  <2> SUFFICES ASSUME IInv
               PROVE  ScreenshotShowsPage
    OBVIOUS
  <2>1. PICK low : low = IF cpp THEN 0 ELSE 2
    OBVIOUS
  <2>2. \A i \in DOMAIN file :
          i > low => \E n \in {page, old_page} :
                       file[i] = FramebufferRow(Painted(n), YRES + low - i)
    BY <2>1 DEF IInv, FileShowsPage, RowShows
  <2>3. low \in (IF cpp THEN {0} ELSE {0, 2})
    BY <2>1
  <2> QED
    BY <2>2, <2>3 DEF ScreenshotShowsPage
<1> QED
  BY <1>1, ActionRunInvariant, PTL

-----------------------------------------------------------------------------
(* Keys and their codes.                                                   *)

\* A row of the keypad gives its characters consecutive codes.
LEMMA RowCodes ==
  ASSUME NEW first \in Nat, NEW last \in Nat, NEW chars \in Seq(Nat),
         last = first + Len(chars) - 1, NEW c \in DOMAIN Row(first, chars)
  PROVE  Row(first, chars)[c] \in first..last
<1>1. c \in Range(chars) /\ DOMAIN chars = 1..Len(chars) /\ Len(chars) \in Nat
  BY DEF Row
<1>2. \E i \in 1..Len(chars) : chars[i] = c
  BY <1>1 DEF Range
<1>3. PICK i \in 1..Len(chars) : i = CHOOSE j \in 1..Len(chars) : chars[j] = c
  BY <1>2
<1>4. Row(first, chars)[c] = first - 1 + i
  BY <1>1, <1>3 DEF Row
<1> QED
  BY <1>1, <1>4

\* The characters of the rows.
LEMMA RowDomains ==
  /\ {49, 50, 51, 52, 53, 54, 55, 56, 57, 48} \subseteq DOMAIN Row1
  /\ {81, 87, 69, 82, 84, 89, 85, 73, 79, 80} \subseteq DOMAIN RowQ
  /\ {65, 83, 68, 70, 71, 72, 74, 75, 76} \subseteq DOMAIN RowA
  /\ {90, 88, 67, 86, 66, 78, 77} \subseteq DOMAIN RowZ
<1>1. ASSUME NEW n \in Nat, NEW s, s \in Seq(Nat), Len(s) = n, NEW f
      PROVE  \A i \in 1..n : s[i] \in DOMAIN Row(f, s)
  <2>1. DOMAIN s = 1..n
    BY <1>1
  <2> QED
    BY <2>1 DEF Row, Range
<1> DEFINE s1 == <<49, 50, 51, 52, 53, 54, 55, 56, 57, 48>>
           sq == <<81, 87, 69, 82, 84, 89, 85, 73, 79, 80>>
           sa == <<65, 83, 68, 70, 71, 72, 74, 75, 76>>
           sz == <<90, 88, 67, 86, 66, 78, 77>>
<1>2. s1 \in Seq(Nat) /\ Len(s1) = 10 /\ sq \in Seq(Nat) /\ Len(sq) = 10
  OBVIOUS
<1>3. sa \in Seq(Nat) /\ Len(sa) = 9 /\ sz \in Seq(Nat) /\ Len(sz) = 7
  OBVIOUS
<1>4. \A i \in 1..10 : s1[i] \in DOMAIN Row1
  BY <1>1, <1>2 DEF Row1
<1>5. \A i \in 1..10 : sq[i] \in DOMAIN RowQ
  BY <1>1, <1>2 DEF RowQ
<1>6. \A i \in 1..9 : sa[i] \in DOMAIN RowA
  BY <1>1, <1>3 DEF RowA
<1>7. \A i \in 1..7 : sz[i] \in DOMAIN RowZ
  BY <1>1, <1>3 DEF RowZ
<1> HIDE DEF s1, sq, sa, sz
<1>8. {49, 50, 51, 52, 53, 54, 55, 56, 57, 48} \subseteq DOMAIN Row1
  BY <1>4 DEF s1
<1>9. {81, 87, 69, 82, 84, 89, 85, 73, 79, 80} \subseteq DOMAIN RowQ
  BY <1>5 DEF sq
<1>10. {65, 83, 68, 70, 71, 72, 74, 75, 76} \subseteq DOMAIN RowA
  BY <1>6 DEF sa
<1>11. {90, 88, 67, 86, 66, 78, 77} \subseteq DOMAIN RowZ
  BY <1>7 DEF sz
<1> QED
  BY <1>8, <1>9, <1>10, <1>11

LEMMA CharacterCodes ==
  ASSUME NEW c \in Digit \cup Upper
  PROVE  KPKEY.chars[c] \in 2..50
<1>1. c \in DOMAIN Row1 => Row1[c] \in 2..50
  <2>1. PICK s : s = <<49, 50, 51, 52, 53, 54, 55, 56, 57, 48>>
    OBVIOUS
  <2>2. s \in Seq(Nat) /\ Len(s) = 10 /\ Row1 = Row(2, s)
    BY <2>1 DEF Row1
  <2>3. ASSUME c \in DOMAIN Row(2, s) PROVE Row(2, s)[c] \in 2..11
    <3>1. 11 = 2 + Len(s) - 1
      BY <2>2
    <3> QED
      BY <2>2, <2>3, <3>1, RowCodes
  <2> QED
    BY <2>2, <2>3
<1>2. c \in DOMAIN RowQ => RowQ[c] \in 2..50
  <2>1. PICK s : s = <<81, 87, 69, 82, 84, 89, 85, 73, 79, 80>>
    OBVIOUS
  <2>2. s \in Seq(Nat) /\ Len(s) = 10 /\ RowQ = Row(16, s)
    BY <2>1 DEF RowQ
  <2>3. ASSUME c \in DOMAIN Row(16, s) PROVE Row(16, s)[c] \in 16..25
    <3>1. 25 = 16 + Len(s) - 1
      BY <2>2
    <3> QED
      BY <2>2, <2>3, <3>1, RowCodes
  <2> QED
    BY <2>2, <2>3
<1>3. c \in DOMAIN RowA => RowA[c] \in 2..50
  <2>1. PICK s : s = <<65, 83, 68, 70, 71, 72, 74, 75, 76>>
    OBVIOUS
  <2>2. s \in Seq(Nat) /\ Len(s) = 9 /\ RowA = Row(30, s)
    BY <2>1 DEF RowA
  <2>3. ASSUME c \in DOMAIN Row(30, s) PROVE Row(30, s)[c] \in 30..38
    <3>1. 38 = 30 + Len(s) - 1
      BY <2>2
    <3> QED
      BY <2>2, <2>3, <3>1, RowCodes
  <2> QED
    BY <2>2, <2>3
<1>4. c \in DOMAIN RowZ => RowZ[c] \in 2..50
  <2>1. PICK s : s = <<90, 88, 67, 86, 66, 78, 77>>
    OBVIOUS
  <2>2. s \in Seq(Nat) /\ Len(s) = 7 /\ RowZ = Row(44, s)
    BY <2>1 DEF RowZ
  <2>3. ASSUME c \in DOMAIN Row(44, s) PROVE Row(44, s)[c] \in 44..50
    <3>1. 50 = 44 + Len(s) - 1
      BY <2>2
    <3> QED
      BY <2>2, <2>3, <3>1, RowCodes
  <2> QED
    BY <2>2, <2>3
<1>5. \/ c \in DOMAIN Row1 \/ c \in DOMAIN RowQ \/ c \in DOMAIN RowA \/ c \in DOMAIN RowZ
  <2>1. \/ c \in {49, 50, 51, 52, 53, 54, 55, 56, 57, 48}
        \/ c \in {81, 87, 69, 82, 84, 89, 85, 73, 79, 80}
        \/ c \in {65, 83, 68, 70, 71, 72, 74, 75, 76}
        \/ c \in {90, 88, 67, 86, 66, 78, 77}
    BY DEF Digit, Upper
  <2> QED
    BY <2>1, RowDomains
<1>6. KPKEY.chars[c] = IF c \in DOMAIN Row1 THEN Row1[c]
                       ELSE IF c \in DOMAIN RowQ THEN RowQ[c]
                       ELSE IF c \in DOMAIN RowA THEN RowA[c] ELSE RowZ[c]
  BY DEF KPKEY
<1> QED
  BY <1>1, <1>2, <1>3, <1>4, <1>5, <1>6

\* What get_key_substitute_code() finds in its table.
LEMMA SubstituteOfCode ==
  ASSUME NEW code \in Nat
  PROVE  get_key_substitute_code(code) =
           CASE code = 190 -> 90 [] code = 126 -> 94 [] code = 102 -> 98
             [] code = 158 -> 91 [] code = 191 -> 124 [] code = 193 -> 109
             [] code = 104 -> 124 [] code = 103 -> 122 [] code = 108 -> 123
             [] code = 194 -> 92 [] OTHER -> code
<1>1. default_key_alias =
        {<<190, 90>>, <<126, 94>>, <<102, 98>>, <<158, 91>>, <<191, 124>>, <<193, 109>>,
         <<104, 124>>, <<115, 115>>, <<114, 114>>, <<103, 122>>, <<108, 123>>, <<194, 92>>}
  BY DEF default_key_alias, K3KEY, KPKEY
<1>2. CASE \E r \in default_key_alias : r[1] = code
  <2>1. PICK r \in default_key_alias : r = CHOOSE x \in default_key_alias : x[1] = code
    BY <1>2
  <2>2. r[1] = code
    BY <1>2, <2>1
  <2>3. get_key_substitute_code(code) = r[2]
    BY <1>2, <2>1 DEF get_key_substitute_code, Substituted
  <2> QED
    BY <1>1, <2>2, <2>3
<1>3. CASE ~\E r \in default_key_alias : r[1] = code
  <2>1. get_key_substitute_code(code) = code
    BY <1>3 DEF get_key_substitute_code, Substituted
  <2>2. code \notin {190, 126, 102, 158, 191, 193, 104, 115, 114, 103, 108, 194}
    BY <1>1, <1>3
  <2> QED
    BY <2>1, <2>2
<1> QED
  BY <1>2, <1>3

\* Both daemons substitute alike.
LEMMA SubstitutesAgree ==
  ASSUME NEW code \in Nat
  PROVE  get_substitute_code(code) = get_key_substitute_code(code)
  BY SubstituteOfCode DEF get_substitute_code, key_codes, K3KEY, KPKEY

LEMMA CharacterFound ==
  ASSUME NEW c \in Digit \cup Upper
  PROVE  /\ find_char_code(c) = KPKEY.chars[c] /\ find_code_of_char(c) = KPKEY.chars[c]
         /\ get_key_substitute_code(KPKEY.chars[c]) = KPKEY.chars[c]
<1>1. default_input_keys.chars = [d \in Digit \cup Upper \cup {60, 62} |->
         IF d = 60 THEN KPKEY.PGBCK ELSE IF d = 62 THEN KPKEY.PGFWD ELSE KPKEY.chars[d]]
  BY DEF default_input_keys
<1>2. ToUpper(c) = c /\ c # 60 /\ c # 62
  BY DEF ToUpper, Digit, Upper, Lower
<1>3. find_char_code(c) = KPKEY.chars[c]
  BY <1>1, <1>2 DEF find_char_code
<1>4. populate_defaults.chars = default_input_keys.chars
  BY DEF populate_defaults
<1>5. find_code_of_char(c) = KPKEY.chars[c]
  BY <1>1, <1>2, <1>4 DEF find_code_of_char
<1>6. PICK k \in 2..50 : k = KPKEY.chars[c]
  BY CharacterCodes
<1>7. get_key_substitute_code(k) = k
  BY SubstituteOfCode
<1> QED
  BY <1>3, <1>5, <1>6, <1>7

\* The page buttons.
LEMMA PageButtonFound ==
  /\ find_char_code(60) = 109 /\ find_code_of_char(60) = 109
  /\ find_char_code(62) = 124 /\ find_code_of_char(62) = 124
<1>1. default_input_keys.chars = [d \in Digit \cup Upper \cup {60, 62} |->
         IF d = 60 THEN KPKEY.PGBCK ELSE IF d = 62 THEN KPKEY.PGFWD ELSE KPKEY.chars[d]]
  BY DEF default_input_keys
<1>2. ToUpper(60) = 60 /\ ToUpper(62) = 62
  BY DEF ToUpper, Lower
<1>3. KPKEY.PGBCK = 109 /\ KPKEY.PGFWD = 124
  BY DEF KPKEY
<1>4. populate_defaults.chars = default_input_keys.chars
  BY DEF populate_defaults
<1>5. find_char_code(60) = 109 /\ find_char_code(62) = 124
  BY <1>1, <1>2, <1>3 DEF find_char_code
<1>6. find_code_of_char(60) = 109 /\ find_code_of_char(62) = 124
  BY <1>1, <1>2, <1>3, <1>4 DEF find_code_of_char
<1> QED
  BY <1>5, <1>6

\* The keys that have a word for a name.
WordKey == DeviceKey \ CharacterKey

LEMMA WordsAgree ==
  ASSUME NEW n \in WordKey
  PROVE  /\ n \in DOMAIN default_input_keys.names
         /\ find_input_key_code(n) = default_input_keys.names[n]
         /\ find_code(n) = default_input_keys.names[n]
<1>1. n \in DOMAIN default_input_keys.names
  BY DEF default_input_keys, WordKey, DeviceKey, CharacterKey
<1>2. n \notin DOMAIN populate_aliases
  BY DEF populate_aliases, WordKey, DeviceKey, CharacterKey
<1>3. populate_defaults.names = [m \in DOMAIN default_input_keys.names \cup DOMAIN populate_aliases |->
                IF m \in DOMAIN populate_aliases THEN populate_aliases[m]
                                                 ELSE default_input_keys.names[m]]
  BY DEF populate_defaults
<1> QED
  BY <1>1, <1>2, <1>3 DEF find_input_key_code, find_code

\* Codes of a Kindle 3 and of a DX for one key are replaced by the code that
\* the configuration has for it.
LEMMA WordSubstituted ==
  ASSUME NEW n \in WordKey
  PROVE  /\ hardware_code(n) \in Nat
         /\ get_key_substitute_code(hardware_code(n)) = default_input_keys.names[n]
<1>1. PICK names : names = default_input_keys.names
  OBVIOUS
<1>2. /\ names.del = 14 /\ names.dot = 52 /\ names.slash = 53 /\ names.enter = 28
      /\ names.shift = 42 /\ names.alt = 56 /\ names.space = 57 /\ names.aa = 90
      /\ names.sym = 94 /\ names.vplus = 115 /\ names.vminus = 114 /\ names.home = 98
      /\ names.menu = 139 /\ names.back = 91 /\ names.fw_left = 105
      /\ names.fw_right = 106 /\ names.fw_up = 122 /\ names.fw_down = 123
      /\ names.fw_press = 92
  BY <1>1 DEF default_input_keys, KPKEY
<1>3. /\ K3KEY.AA = 190 /\ K3KEY.SYM = 126 /\ K3KEY.HOME = 102 /\ K3KEY.BACK = 158
      /\ K3KEY.VPLUS = 115 /\ K3KEY.VMINUS = 114 /\ K3KEY.FW_LEFT = 105
      /\ K3KEY.FW_RIGHT = 106 /\ K3KEY.FW_UP = 103 /\ K3KEY.FW_DOWN = 108
      /\ K3KEY.FW_PRESS = 194
  BY DEF K3KEY, KPKEY
<1>4. hardware_code(n) \in
        {names[n]} \cup
        (CASE n = "aa" -> {190} [] n = "sym" -> {126} [] n = "home" -> {102}
           [] n = "back" -> {158} [] n = "fw_up" -> {103} [] n = "fw_down" -> {108}
           [] n = "fw_press" -> {194} [] OTHER -> {})
  BY <1>1, <1>2, <1>3 DEF hardware_code, WordKey, DeviceKey, CharacterKey
<1>5. names[n] \in Nat /\ names[n] \notin {190, 126, 102, 158, 191, 193, 104, 103, 108, 194}
  BY <1>2 DEF WordKey, DeviceKey, CharacterKey
<1>6. CASE hardware_code(n) = names[n]
  BY <1>1, <1>5, <1>6, SubstituteOfCode
<1>7. CASE hardware_code(n) # names[n]
  BY <1>1, <1>2, <1>4, <1>7, SubstituteOfCode
<1> QED
  BY <1>6, <1>7

\* What a daemon looks up when a key is typed is what it has stored for it.
LEMMA TypedIsConfigured ==
  ASSUME NEW key \in DeviceKey
  PROVE  typed_code(key) = configured_code(key)
<1>1. ASSUME hardware_code(key) \in Nat,
             get_key_substitute_code(hardware_code(key)) = configured_code(key)
      PROVE  typed_code(key) = configured_code(key)
  BY <1>1, SubstitutesAgree DEF typed_code
<1>2. CASE key \in WordKey
  <2>1. key \notin CharacterKey
    BY <1>2 DEF WordKey
  <2>2. configured_code(key) = default_input_keys.names[key]
    BY <1>2, <2>1, WordsAgree DEF configured_code
  <2> QED
    BY <1>1, <1>2, <2>2, WordSubstituted
<1>3. CASE key = "a"
  <2>1. 65 \in Digit \cup Upper
    BY DEF Upper
  <2>2. configured_code(key) = KPKEY.chars[65]
    BY <1>3, <2>1, CharacterFound DEF configured_code, CharacterKey
  <2>3. hardware_code(key) = KPKEY.chars[65]
    BY <1>3 DEF hardware_code
  <2>4. KPKEY.chars[65] \in Nat
    BY <2>1, CharacterCodes
  <2> QED
    BY <1>1, <2>1, <2>2, <2>3, <2>4, CharacterFound
<1>4. CASE key \in {"pgbck", "left_pgbck"}
  <2>1. configured_code(key) = 109
    BY <1>4, PageButtonFound DEF configured_code, CharacterKey
  <2>2. hardware_code(key) \in {109, 193}
    BY <1>4 DEF hardware_code, KPKEY, K3KEY
  <2> QED
    BY <1>1, <2>1, <2>2, SubstituteOfCode
<1>5. CASE key \in {"pgfwd", "left_pgfwd"}
  <2>1. configured_code(key) = 124
    BY <1>5, PageButtonFound DEF configured_code, CharacterKey
  <2>2. hardware_code(key) \in {124, 191, 104}
    BY <1>5 DEF hardware_code, KPKEY, K3KEY
  <2> QED
    BY <1>1, <2>1, <2>2, SubstituteOfCode
<1> QED
  BY <1>2, <1>3, <1>4, <1>5 DEF WordKey, CharacterKey

\* Every key of a device, pressed on a DX or a Kindle 3, triggers the action
\* that either daemon has configured under its name: the codes a Kindle 3
\* reports are substituted before the look-up.
THEOREM KeyIsRecognised == Spec => []HotkeyFound
<1>1. Init => HotkeyFound
  BY DEF Init, HotkeyFound
<1>2. HotkeyFound /\ [Next]_vars => HotkeyFound'
  <2>1. ASSUME HotkeyFound, NEW b \in Binding, Pressed(b)
        PROVE  HotkeyFound'
    <3>1. b.key \in DeviceKey
      BY BindingAssumption
    <3>2. typed_code(b.key) = configured_code(b.key)
      BY <3>1, TypedIsConfigured
    <3> QED
      BY <2>1, <3>2 DEF Pressed, HotkeyFound
  <2>2. ASSUME HotkeyFound, Next, ~\E b \in Binding : Pressed(b)
        PROVE  HotkeyFound'
    <3>1. found' = found \/ found' = TRUE
      <4>1. CASE Picture
        BY <4>1 DEF Picture
      <4>2. CASE Show
        BY <4>2 DEF Show, Same, OnBar
      <4>3. CASE Write_text
        BY <4>3 DEF Write_text, Same, OnBar
      <4>4. CASE Flash_invert
        BY <4>4 DEF Flash_invert, Same
      <4>5. CASE Flash_restore
        BY <4>5 DEF Flash_restore, Same, OnBar
      <4>6. CASE Hide
        BY <4>6 DEF Hide, Same, OnBar
      <4>7. CASE Send
        BY <4>7 DEF Send, Same
      <4>8. CASE System
        BY <4>8 DEF System, Same
      <4>9. CASE Result
        BY <4>9 DEF Result, Same
      <4>10. CASE Script
        BY <4>10 DEF Script, Same
      <4>11. CASE Screenshot_open
        BY <4>11 DEF Screenshot_open, Same
      <4>12. CASE Screenshot_row
        BY <4>12 DEF Screenshot_row, Same
      <4>13. CASE Show_status
        BY <4>13 DEF Show_status, Same, OnBar
      <4>14. CASE Draw_result
        BY <4>14 DEF Draw_result, Same, OnBar
      <4>15. CASE Hide_status
        BY <4>15 DEF Hide_status, Same, OnBar
      <4>16. CASE Repaint
        BY <4>16 DEF Repaint
      <4>17. CASE UserKey
        BY <4>17 DEF UserKey
      <4>18. CASE Settle
        BY <4>18 DEF Settle
      <4> QED
        BY <2>2, <4>1, <4>2, <4>3, <4>4, <4>5, <4>6, <4>7, <4>8, <4>9,
           <4>10, <4>11, <4>12, <4>13, <4>14, <4>15, <4>16, <4>17, <4>18 DEF Next
    <3> QED
      BY <2>2, <3>1 DEF HotkeyFound
  <2>3. ASSUME HotkeyFound, UNCHANGED vars
        PROVE  HotkeyFound'
    BY <2>3 DEF vars, HotkeyFound
  <2> QED
    BY <2>1, <2>2, <2>3
<1> QED
  BY <1>1, <1>2, PTL DEF Spec
=============================================================================
