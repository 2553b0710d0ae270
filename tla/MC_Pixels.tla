------------------------------ MODULE MC_Pixels ------------------------------
(* Instances of Pixels: rectangles of one or more tiles and bytes, patterns of
   one, two, three and up to twenty-seven colours. *)
EXTENDS Pixels

MCFrames == {<<9, 3>>, <<4, 4>>}
MCRects == {At(0, 0, 9, 3), At(1, 1, 3, 2), At(0, 0, 3, 2), At(1, 0, 8, 2)}
MCPatterns == {<<1, 1>>, <<2, 2>>, <<5, 3>>, <<1, 99>>}
MCShapes == {<<9, 2>>, <<8, 1>>, <<3, 2>>}
=============================================================================
