-------------------------- MODULE MCExtractorParams --------------------------
(* Thousandths of a bit.  The entropies leave, with a loss of 6: less than *)
(* nothing, 2.5 bits (no row), 8 bits (2 rows) and 11.5 bits (4 rows); a   *)
(* length of 3 fits the largest, 9 needs blocks or is refused.  With the   *)
(* loss of -10 of an eps above 1 they leave 15 to 27.5 bits (5 to 10       *)
(* rows), and a length of 3 asks for less than -1 bit.  Some commands hold *)
(* only some of their parameters, and two end the server.                  *)
EXTENDS ExtractorParams

MCSiTsts == {0, -1}
MCLosses == {-10000, 6000}
MCHolds == {Full, {"a", "m"}, {"a", "e"}, {"m", "e", "b"}, {"a", "x"}}
=============================================================================
