--------------------------- MODULE MCMasterSlave ---------------------------
(* Two slaves.  The pictures: one chunk; fewer chunks than slaves times     *)
(* three; more of them, the last a full one and a part of one.              *)
EXTENDS MasterSlave

SmallShapes == {<<1, 1>>, <<2, 3>>, <<4, 4>>, <<5, 3>>}

\* 3 * width * height is, and is not, a multiple of four.
ByteShapes == {<<2, 2>>, <<2, 3>>}
=============================================================================
