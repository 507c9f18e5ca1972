------------------------------- MODULE Sobel -------------------------------
(***************************************************************************)
(* lab4 and lab5: the edges of a picture by two 5 x 5 masks, on a GPU.     *)
(* The blocks of a grid go over the picture in tiles, a thread to a pixel. *)
(* lab4.cu reads the neighbours of a pixel in the source picture; lab5.cu  *)
(* and lab5_cor.cu first gather those of the tile in the shared memory of  *)
(* the block, and meet at a barrier.                                       *)
(*                                                                         *)
(* The threads of a warp run in lockstep (the Makefiles build for sm_61).  *)
(* A cell of shared memory holds a pixel's place instead of its colours,   *)
(* and a pixel of the result is right when all that weighs in it was read  *)
(* at its place.                                                           *)
(***************************************************************************)
EXTENDS Integers, FiniteSets

CONSTANTS Pictures,     \* the sizes <<height, width>>
          SobelGrid,    \* blocks of a grid, where there are several
          TileSide      \* TH_DIM of lab5.cu, and the threads of a block of lab4.cu

ASSUME SobelAssumption ==
  /\ \A p \in Pictures : p[1] \in Nat \ {0} /\ p[2] \in Nat \ {0}
  /\ SobelGrid \in Nat \ {0} /\ TileSide \in Nat \ {0, 1}

\* dy x dx threads in a block; warps: which of them run in lockstep; shared:
\* through shared memory, the threads loading every gap-th neighbour of theirs,
\* once for each of so many passes.
\* lab4.cu starts 3000 blocks of 1024 threads; a warp is a single thread here.
lab4 == [dy |-> 1, dx |-> TileSide, grid |-> SobelGrid, shared |-> FALSE, passes |-> 1,
         gap |-> 1, warps |-> {{<<0, x>>} : x \in 0..(TileSide - 1)}]
\* lab4/sample/lab4.cu: no GPU.
lab4_sample == [dy |-> 1, dx |-> 1, grid |-> 1, shared |-> FALSE, passes |-> 1,
                gap |-> 1, warps |-> {{<<0, 0>>}}]
\* 32 x 32 threads, so a warp is a row of the block; both masks after one barrier.
lab5 == [dy |-> TileSide, dx |-> TileSide, grid |-> SobelGrid, shared |-> TRUE, passes |-> 1,
         gap |-> 2,
         warps |-> {{<<y, x>> : x \in 0..(TileSide - 1)} : y \in 0..(TileSide - 1)}]
\* 4 x 4 threads, half a warp; the tile is loaded again for each mask.
lab5_cor == [dy |-> 2, dx |-> 2, grid |-> SobelGrid, shared |-> TRUE, passes |-> 2,
             gap |-> 1, warps |-> {(0..1) \X (0..1)}]

Kernels == {lab4, lab4_sample, lab5, lab5_cor}

VARIABLES
  kernel,
  picture,  \* <<height, width>>
  tile,     \* for each warp of each block, the tile <<down, across>> it is at
  step,     \* ... and what it does next there: "load", "sync", "mask" or "exit"
  mask,     \* ... and which pass it is in
  exact,    \* ... and its threads that have read no cell amiss so far
  sm_s,     \* for each block, the shared memory: the place each cell was loaded from
  t         \* the result

sobelVars == <<kernel, picture, tile, step, mask, exact, sm_s, t>>

height == picture[1]
width == picture[2]
Blocks == 0..(kernel.grid - 1)
Warps == Blocks \X kernel.warps
Pixels == (0..(height - 1)) \X (0..(width - 1))
Bound == (-2)..2
Unset == "unset"
Nowhere == <<-1, -1>>   \* what is in a cell nobody has loaded

\* Where thread th of block b is in tile ti.
Place(b, th, ti) == <<b * kernel.dy + th[1] + ti[1] * kernel.grid * kernel.dy,
                      th[2] + ti[2] * kernel.dx>>

\* The threads of warp w whose loops go on at its tile, with their pixels.
Active(w) == {th \in w[2] : Place(w[1], th, tile[w]) \in Pixels}

Near(p, d) == <<p[1] + d[1], p[2] + d[2]>>
InPicture(p) == {d \in Bound \X Bound : Near(p, d) \in Pixels}

\* The cell a thread has for its neighbour at distance d.
Cell(th, d) == <<d[1] + 2 + th[1], d[2] + 2 + th[2]>>
TileCells == (0..(kernel.dy + 3)) \X (0..(kernel.dx + 3))

\* v and u go from -2 to 2 by gap.
Loaded(p) == {d \in InPicture(p) : \A i \in 1..2 : (d[i] + 2) % kernel.gap = 0}

\* The pixel itself weighs nothing in either mask.
Weighs(p) == InPicture(p) \ {<<0, 0>>}
-----------------------------------------------------------------------------
\* The loops over y and x, for the warp as a whole: its threads that are past
\* the edge wait for the others.
FirstStep(w, ti) ==
  LET at == {Place(w[1], th, ti) : th \in w[2]}
  IN IF at \cap Pixels # {} THEN IF kernel.shared THEN "load" ELSE "mask" ELSE "exit"

NextTile(w, ti) ==
  IF FirstStep(w, <<ti[1], ti[2] + 1>>) # "exit" THEN <<ti[1], ti[2] + 1>>
  ELSE <<ti[1] + 1, 0>>

SobelInit ==
  /\ kernel \in Kernels
  /\ picture \in Pictures
  /\ tile = [w \in Warps |-> <<0, 0>>]
  /\ step = [w \in Warps |-> FirstStep(w, <<0, 0>>)]
  /\ mask = [w \in Warps |-> 1]
  /\ exact = [w \in Warps |-> w[2]]
  /\ sm_s = [b \in Blocks |-> [c \in TileCells |-> Nowhere]]
  /\ t = [p \in Pixels |-> Unset]

\* The threads of a warp copy neighbours of theirs to shared memory.
Load(w) ==
  /\ step[w] = "load"
  /\ LET from == [c \in TileCells |->
           {Near(Place(w[1], td[1], tile[w]), td[2]) : td \in
             {td \in Active(w) \X (Bound \X Bound) :
                /\ td[2] \in Loaded(Place(w[1], td[1], tile[w]))
                /\ Cell(td[1], td[2]) = c}}]
     IN sm_s' = [sm_s EXCEPT ![w[1]] =
                   [c \in TileCells |-> IF from[c] = {} THEN @[c] ELSE CHOOSE p \in from[c] : TRUE]]
  /\ step' = [step EXCEPT ![w] = "sync"]
  /\ UNCHANGED <<kernel, picture, tile, mask, exact, t>>

\* A plausible slip: the barrier is left out.
MutantSync(b) ==
  \E w \in Warps :
    /\ w[1] = b /\ step[w] = "sync"
    /\ step' = [step EXCEPT ![w] = "mask"]
    /\ UNCHANGED <<kernel, picture, tile, mask, exact, sm_s, t>>

\* A plausible slip: a barrier that waits for all the warps the block began with.
MutantBarrier(b) ==
  LET mine == {w \in Warps : w[1] = b}
  IN /\ \A w \in mine : step[w] = "sync"
     /\ step' = [w \in Warps |-> IF w \in mine THEN "mask" ELSE step[w]]
     /\ UNCHANGED <<kernel, picture, tile, mask, exact, sm_s, t>>

\* __syncthreads: once every warp of the block that has not exited has come.
Sync(b) ==
  LET mine == {w \in Warps : w[1] = b /\ step[w] # "exit"}
  IN /\ mine # {}
     /\ \A w \in mine : step[w] = "sync"
     /\ step' = [w \in Warps |-> IF w \in mine THEN "mask" ELSE step[w]]
     /\ UNCHANGED <<kernel, picture, tile, mask, exact, sm_s, t>>

\* The threads of warp w that read each neighbour that weighs at its place.
Reads(w) ==
  {th \in Active(w) :
     LET p == Place(w[1], th, tile[w])
     IN kernel.shared => \A d \in Weighs(p) : sm_s[w[1]][Cell(th, d)] = Near(p, d)}

\* A mask (or both) goes over the pixels; after the last the warp stores them
\* and goes to its next tile.
Mask(w) ==
  /\ step[w] = "mask"
  /\ LET good == exact[w] \cap Reads(w)
     IN IF mask[w] < kernel.passes
        THEN /\ mask' = [mask EXCEPT ![w] = @ + 1]
             /\ exact' = [exact EXCEPT ![w] = good]
             /\ step' = [step EXCEPT ![w] = "load"]
             /\ UNCHANGED <<tile, t>>
        ELSE /\ t' = [p \in Pixels |->
                  IF \E th \in Active(w) : Place(w[1], th, tile[w]) = p
                  THEN IF \E th \in good : Place(w[1], th, tile[w]) = p THEN "right" ELSE "wrong"
                  ELSE t[p]]
             /\ tile' = [tile EXCEPT ![w] = NextTile(w, @)]
             /\ step' = [step EXCEPT ![w] = FirstStep(w, NextTile(w, tile[w]))]
             /\ mask' = [mask EXCEPT ![w] = 1]
             /\ exact' = [exact EXCEPT ![w] = w[2]]
  /\ UNCHANGED <<kernel, picture, sm_s>>

SobelNext ==
  \/ \E w \in Warps : Load(w) \/ Mask(w)
  \/ \E b \in Blocks : Sync(b)

SobelSpec == SobelInit /\ [][SobelNext]_sobelVars

SobelDone == \A w \in Warps : step[w] = "exit"
-----------------------------------------------------------------------------
(* Properties.                                                             *)

\* In lab5.cu a warp may load the next tile of its block while another still
\* reads the one before, so only what is read of a block's last tile is sure.
Overtaken(p) ==
  \/ (p[2] \div kernel.dx + 1) * kernel.dx < width
  \/ (p[1] \div kernel.dy + kernel.grid) * kernel.dy < height

\* lab5.cu loads every other neighbour, and leaves those between to the threads
\* beside: there are none where the picture ends with the first row or column of
\* a tile, and the row or column before, which nobody loads, weighs in its pixels.
Lone(p) ==
  \/ p[1] = height - 1 /\ p[1] % kernel.dy = 0 /\ p[1] > 0
  \/ p[2] = width - 1 /\ p[2] % kernel.dx = 0 /\ p[2] > 0

\* The result has every pixel, and each is right; in lab5.cu, those of a block's
\* last tile that are not alone in a row or column of theirs.
PictureIsRight ==
  SobelDone =>
    \A p \in Pixels :
      /\ t[p] # Unset
      /\ t[p] = "right" \/ (kernel = lab5 /\ (Overtaken(p) \/ Lone(p)))
=============================================================================
