------------------------------ MODULE MCScreen ------------------------------
(* Terminals and hosts for Screen: one without a band and one with a tall one, *)
(* with the least columns and with all of them; a host of every badge.          *)
EXTENDS Screen

MCTerminals ==
  {[w |-> 50, h |-> 7], [w |-> 108, h |-> 24]}

MCNameLength == [h \in Hosts |-> 7 * h * h]

=============================================================================
