---------------------------- MODULE MC_Rectangles ----------------------------
(* Rectangles around tight's limit of twelve bytes: three and twelve bytes of
   colours, eleven of indices, and rows of nine bits that fill twelve bytes. *)
EXTENDS Rectangles
MCSizes == {<<0, 0>>, <<1, 1>>, <<2, 2>>, <<11, 1>>, <<9, 6>>}
=============================================================================
