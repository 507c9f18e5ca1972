----------------------------- MODULE Mandelbrot -----------------------------
(***************************************************************************)
(* The pixels of hw2.  hw2/hw2a.cc and hw2/hw2b.cc compute two pixels at a *)
(* time in the two halves of SSE registers, and write the colours of a     *)
(* pixel to raw_img as soon as its chunk is computed; hw2/sample/hw2seq.cc *)
(* computes one pixel after the other and writes rows that it has cleared. *)
(* Here one chunk is the whole picture: who computes which chunk is what   *)
(* TaskPool, ThreadPool and MasterSlave are about.                         *)
(*                                                                         *)
(* Coordinates are doubles: nothing is assumed of their arithmetic but     *)
(* that every program computes the same sum, product and so on of the same *)
(* two numbers.                                                            *)
(***************************************************************************)
EXTENDS Integers

CONSTANTS Views,   \* left, right, lower, upper, width, height and iters
          Shade,   \* 16 in the code: the number of shades of a colour
          Junk,    \* what x0s and y0s may hold where nothing was stored
          Num(_),  \* the double of an integer
          Plus(_, _), Minus(_, _), Times(_, _), Over(_, _), Less(_, _)

ASSUME ViewAssumption == \A v \in Views :
  v.width \in Nat \ {0} /\ v.height \in Nat \ {0} /\ v.iters \in Nat

\* What the versions differ in: when the coordinates are stored, with each pair
\* of pixels or before, and whether the colours go straight to raw_img or, at
\* the end, to rows that were cleared.
hw2a == [stored |-> "pair", png |-> "raw_img"]
hw2b == hw2a
hw2a_t == hw2a
hw2b_t == hw2b
pass_all == [stored |-> "before", png |-> "raw_img"]
one_ver == [stored |-> "before", png |-> "row"]
Drawings == {hw2a, hw2b, hw2a_t, hw2b_t, pass_all, one_ver}

VARIABLES
  drawing, view,
  coordinates,   \* x0s and y0s, where something was stored
  pairs,         \* the pairs of pixels that nobody has begun
  lanes,         \* the pairs whose loop runs, with both halves of the registers
  image,         \* where something was stored
  png            \* three bytes of each pixel, once they are written

mandelbrotVars == <<drawing, view, coordinates, pairs, lanes, image, png>>

area == view.width * view.height
Places == 0..(area - 1)
Odd == area % 2 = 1
Cleared == 0
Malloced == -1             \* a byte that nobody stored
Nothing == [p \in {} |-> 0]

\* An array when g is stored in it, where f was before
Store(f, g) == [p \in DOMAIN f \cup DOMAIN g |-> IF p \in DOMAIN g THEN g[p] ELSE f[p]]

-----------------------------------------------------------------------------
(* Points.                                                                 *)

\* assign_iters_vec and assign_x0s_y0s_sig: the point of a pixel
Point(p) ==
  LET x_pix_ratio == Over(Minus(view.right, view.left), Num(view.width))
      y_pix_ratio == Over(Minus(view.upper, view.lower), Num(view.height))
  IN [x |-> Plus(Times(Num(p % view.width), x_pix_ratio), view.left),
      y |-> Plus(Times(Num(p \div view.width), y_pix_ratio), view.lower)]

\* A plausible slip: the row is that of the pair's first pixel.
MutantPair(ps) == [q \in {ps, ps + 1} |-> [x |-> Point(q).x, y |-> Point(ps).y]]

\* What assign_x0s_y0s_sig stores: a pair may begin in one row and end in the next.
Pair(ps) == [q \in {ps, ps + 1} |-> Point(q)]

Start == [x |-> Num(0), y |-> Num(0), length_squared |-> Num(0), repeats |-> 0]

Inside(z) == Less(z.length_squared, Num(4))

\* The condition of core_cal's loop, compv in core_cal_sse2_sig
Goes(z) == z.repeats < view.iters /\ Inside(z)

\* One pass of a loop, to the point with y for its second coordinate; counts is
\* 0 or 1.
Moved(z, c, y, counts) ==
  LET x == Plus(Minus(Times(z.x, z.x), Times(z.y, z.y)), c.x)
  IN [x |-> x, y |-> y, length_squared |-> Plus(Times(x, x), Times(y, y)),
      repeats |-> z.repeats + counts]

\* A plausible slip: the mask is left out, and a half that is done counts on.
MutantTurn(z, c, counts) == Moved(z, c, Plus(Times(Num(2), Times(z.x, z.y)), c.y), 1)

\* core_cal doubles x, core_cal_sse2_sig the product.
Turn(z, c) == Moved(z, c, Plus(Times(Times(Num(2), z.x), z.y), c.y), 1)
Turn_sse2(z, c, counts) == Moved(z, c, Plus(Times(Num(2), Times(z.x, z.y)), c.y), counts)

core_cal(c) ==
  LET Loop[k \in 0..view.iters] ==
        IF k = 0 THEN Start
        ELSE IF Goes(Loop[k - 1]) THEN Turn(Loop[k - 1], c) ELSE Loop[k - 1]
  IN Loop[view.iters].repeats

-----------------------------------------------------------------------------
(* Colours.                                                                *)

\* What png_write_sig stores for a pixel that was repeated p times: bytes it
\* leaves alone are not in the domain.  240 is the brightest shade.
Colours(p) ==
  IF p = view.iters THEN [b \in {} |-> 0]
  ELSE IF (p \div Shade) % 2 = 1
       THEN [b \in 0..2 |-> IF b = 0 THEN 240 ELSE (p % Shade) * Shade]
       ELSE [b \in {0} |-> (p % Shade) * Shade]

Position(p) == (view.height - 1 - p \div view.width) * view.width + (p % view.width)

PixelAt(place) == CHOOSE p \in Places : Position(p) = place

\* The bytes of the picture, at their places, when the others are what they were
Painted(was, img) ==
  [at \in Places \X (0..2) |->
     LET colours == Colours(img[PixelAt(at[1])])
     IN IF at[2] \in DOMAIN colours THEN colours[at[2]] ELSE was]

-----------------------------------------------------------------------------
MandelbrotInit ==
  /\ drawing \in Drawings /\ view \in Views
  /\ coordinates = IF drawing.stored = "before" THEN [p \in Places |-> Point(p)] ELSE Nothing
  /\ pairs = {p \in Places : p % 2 = 0 /\ p + 1 < area}
  /\ lanes = Nothing /\ image = Nothing /\ png = Nothing

\* The next pair of a thread; hw2b's OpenMP loop has several at work.
LoadPair(ps) ==
  /\ ps \in pairs
  /\ pairs' = pairs \ {ps}
  /\ coordinates' = IF drawing.stored = "before" THEN coordinates
                    ELSE Store(coordinates, Pair(ps))
  /\ lanes' = Store(lanes, [q \in {ps} |-> <<Start, Start>>])
  /\ UNCHANGED <<drawing, view, image, png>>

\* core_cal_sse2_sig: while one half goes on both are computed, and the mask,
\* made to the double 1.0, is added to the repeats of those that go on.
Iterate(ps) ==
  /\ ps \in DOMAIN lanes
  /\ \E h \in 1..2 : Goes(lanes[ps][h])
  /\ lanes' = [lanes EXCEPT ![ps] =
                 [h \in 1..2 |->
                    Turn_sse2(@[h], coordinates[ps + h - 1], IF Goes(@[h]) THEN 1 ELSE 0)]]
  /\ UNCHANGED <<drawing, view, coordinates, pairs, image, png>>

StorePair(ps) ==
  /\ ps \in DOMAIN lanes
  /\ \A h \in 1..2 : ~Goes(lanes[ps][h])
  /\ image' = Store(image, [q \in {ps, ps + 1} |-> lanes[ps][q - ps + 1].repeats])
  /\ lanes' = [q \in DOMAIN lanes \ {ps} |-> lanes[q]]
  /\ UNCHANGED <<drawing, view, coordinates, pairs, png>>

\* The pixel behind the last pair: nobody stores its coordinates in the versions
\* that store them with each pair.
Single ==
  /\ Odd
  /\ pairs = {} /\ DOMAIN lanes = {}
  /\ area - 1 \notin DOMAIN image
  /\ \E c \in (IF area - 1 \in DOMAIN coordinates THEN {coordinates[area - 1]} ELSE Junk) :
       image' = Store(image, [p \in {area - 1} |-> core_cal(c)])
  /\ UNCHANGED <<drawing, view, coordinates, pairs, lanes, png>>

\* image_to_png for the chunk, or write_png
Paint ==
  /\ DOMAIN image = Places
  /\ png = Nothing
  /\ png' = Painted(IF drawing.png = "row" THEN Cleared ELSE Malloced, image)
  /\ UNCHANGED <<drawing, view, coordinates, pairs, lanes, image>>

MandelbrotNext ==
  \/ \E ps \in Places : LoadPair(ps) \/ Iterate(ps) \/ StorePair(ps)
  \/ Single \/ Paint

MandelbrotSpec == MandelbrotInit /\ [][MandelbrotNext]_mandelbrotVars

-----------------------------------------------------------------------------
(* hw2/sample/hw2seq.cc                                                    *)

SequentialPicture == Painted(Cleared, [p \in Places |-> core_cal(Point(p))])

\* As long as c stays inside, the two loops go through the same points, and once
\* it is outside it does not come back, for as many turns as the two halves of a
\* register can take.
Steady(c) ==
  LET orbit[k \in 0..(2 * view.iters)] ==
        IF k = 0 THEN Start ELSE Turn_sse2(orbit[k - 1], c, 0)
  IN \A k \in 1..(2 * view.iters) :
       IF Inside(orbit[k - 1]) THEN Turn(orbit[k - 1], c).y = orbit[k].y
       ELSE ~Inside(orbit[k])

\* The pixel behind the last pair
Alone(p) == Odd /\ p = area - 1

\* hw2/verify.sh compares the picture with that of the sequential program.  Two
\* pixels that are computed side by side, and go on until both are done, do not
\* disturb each other: a byte that is written is the byte of the sequential
\* program, and one that is not, which stays what malloc returned for raw_img,
\* is 0 there.  Left aside: the pixel behind the last pair where its
\* coordinates are not stored, and those of pairs whose point rounding brings
\* back inside.
AsSequential ==
  \A at \in DOMAIN png :
    LET p == PixelAt(at[1])
    IN \/ Alone(p) /\ drawing.stored = "pair"
       \/ ~Alone(p) /\ ~Steady(Point(p))
       \/ png[at] = SequentialPicture[at]
       \/ png[at] = Malloced /\ SequentialPicture[at] = Cleared
=============================================================================
