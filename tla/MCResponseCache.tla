--------------------------- MODULE MCResponseCache ---------------------------
(* Three keys, one resizer, a channel of one write; the large response never *)
(* fits.                                                                     *)
EXTENDS ResponseCache

CONSTANTS a, b, c, r1

MCLifetimes == {-1, 1}
=============================================================================
