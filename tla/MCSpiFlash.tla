----------------------------- MODULE MCSpiFlash -----------------------------
(* Two sectors of two two-byte pages; a byte is two bits, of which the values *)
(* 3 (erased), 1 and 0 are used: programming keeps the smaller one.           *)
EXTENDS SpiFlash

MCAnd(b, c) == IF b <= c THEN b ELSE c

MCText == {<<>>, <<1>>, <<0, 1>>, <<0, 1, 1, 0, 1>>}
=============================================================================
