----------------------------- MODULE MCTaskPool -----------------------------
(* Three workers beside main and chunks of ten pixels: pictures around the  *)
(* borders of a chunk, with an odd and an even number of pixels.            *)
EXTENDS TaskPool

\* less than a chunk, a whole one, one and a pixel, two whole ones, two and a pixel
BorderAreas == {3, 10, 11, 20, 21}

\* one CPU, chunks of two pixels: the last chunk has one pixel or two
OddAreas == {3, 4, 5}
=============================================================================
