------------------------------- MODULE MCFlash -------------------------------
(* A flash of two pages of two words; images that fill it, with equal and     *)
(* different pages and with a gap, that are a word short, and that are too    *)
(* long.                                                                      *)
EXTENDS Flash

CONSTANTS A, B

MCImages == {<<A, B, A, B>>, <<A, B, B, Erased>>, <<A, B, B>>, <<A, B, A, B, A>>}
=============================================================================
