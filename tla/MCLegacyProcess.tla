--------------------------- MODULE MCLegacyProcess ---------------------------
(* Three rounds of main() with a descriptor table that leaks can fill.      *)
EXTENDS LegacyProcess

MCConfig ==
  LET Group == [autoenable |-> FALSE, enable_string |-> "", group |-> "239.1.2.3"]
  IN  {Group, [Group EXCEPT !.autoenable = TRUE], [Group EXCEPT !.enable_string = "on"],
       [Group EXCEPT !.enable_string = "on", !.group = "wlan0"]}
=============================================================================
