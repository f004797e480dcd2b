------------------------------ MODULE MCBuffer ------------------------------
(* Blocks of four bytes and more, so that some requests fit in what is left *)
(* of a block, some take a new one and some need a bigger one.              *)
EXTENDS Buffer

MCCapas == {4, 8}
MCSizes == {0, 2, 4, 6}
MCByteSizes == {0, 1, 3, 5}
=============================================================================
