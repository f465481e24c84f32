------------------------------ MODULE StatusBar ------------------------------
(***************************************************************************)
(* The status bar (class StatusBar) as operators on a record: `active` and *)
(* `saved` (saved_pixels) are its state, `screen` is what the framebuffer  *)
(* shows in the bar's region.  The region is one cell: it holds BarText or *)
(* the number of the page that the reading application last drew there.    *)
(***************************************************************************)
EXTENDS Naturals, Sequences

BarText == 0

Bar == [active: BOOLEAN, saved: Seq(Nat), screen: Nat]

NewBar(page) == [active |-> FALSE, saved |-> <<>>, screen |-> page]

capture_background(bar) ==
  [bar EXCEPT !.saved = <<bar.screen>>, !.active = TRUE]

\* MUTANT: the pixels are put back but the bar stays active.
restore_background_stays_active(bar) ==
  IF ~bar.active \/ bar.saved = <<>>
    THEN bar
    ELSE [active |-> TRUE, saved |-> <<>>, screen |-> bar.saved[1]]

restore_background(bar) ==
  IF ~bar.active \/ bar.saved = <<>>
    THEN bar
    ELSE NewBar(bar.saved[1])

draw_bar_text(bar) == [bar EXCEPT !.screen = BarText]

\* MUTANT: every call saves what is on the screen.
show_status_always_captures(bar) == draw_bar_text(capture_background(bar))

\* Only the first message of a series saves the background.
show_status(bar) ==
  draw_bar_text(IF bar.active THEN bar ELSE capture_background(bar))

show_result(bar) == draw_bar_text(bar)

hide_status(bar) == restore_background(bar)

\* The reading application repaints the region: it knows nothing of the bar.
Repaint(bar, page) == [bar EXCEPT !.screen = page]
=============================================================================
