------------------------------ MODULE MCPixels ------------------------------
(***************************************************************************)
(* The programs that compute pixels, one at a time: no program of lab1 or  *)
(* lab3 runs beside one of lab4 or lab5, or beside one of hw2.             *)
(***************************************************************************)
EXTENDS CirclePixels, Sobel, Mandelbrot

VARIABLE program

vars == <<program, circleVars, sobelVars, mandelbrotVars>>

\* With Root2 as 7/5 and a precision of 72 the radii up to 6 are precise; the
\* half of 17 may be 12 or 13, which is right, and that of 24 18 or 17, which is.
MCCircles == [r : {1, 4, 5}, k : {7}] \cup [r : {6, 17, 24}, k : {500}]
MCPictures == {<<1, 1>>, <<3, 2>>, <<3, 3>>, <<4, 3>>, <<2, 4>>, <<3, 5>>, <<5, 4>>}

\* Numbers are quarters, between -50 and 50, and results are rounded down.
Round == [a \in -10000..10000 |-> IF a > 200 THEN 200 ELSE IF a < -200 THEN -200 ELSE a]
MCNum(n) == Round[4 * n]
MCPlus(a, b) == Round[a + b]
MCMinus(a, b) == Round[a - b]
MCTimes(a, b) == Round[(a * b) \div 4]
MCOver(a, b) == Round[(4 * a) \div b]
MCLess(a, b) == a < b

View(l, r, w, d, u, h, n) ==
  [left |-> l, right |-> r, width |-> w, lower |-> d, upper |-> u, height |-> h, iters |-> n]

\* Pairs that begin in one row and end in the next, a last pixel without a
\* partner, points that leave the circle in 1, 2 and 3 turns and points that
\* stay, pictures of one pixel and of none that is repeated; points at whole
\* numbers and, in the last two views, at halves and quarters, five of which are
\* not steady.
MCViews == {View(-8, 8, 4, -4, 4, 2, 3), View(-4, 8, 3, -4, 4, 2, 4), View(-4, 8, 3, -4, 8, 3, 2),
            View(-8, 8, 2, -8, 4, 3, 1), View(-4, 8, 3, -4, 4, 2, 0), View(0, 4, 1, 0, 4, 1, 4),
            View(-6, 5, 3, -2, 4, 2, 3), View(-7, 1, 5, 1, 3, 1, 3)}
NoView == View(0, 4, 1, 0, 4, 1, 4)
MCJunk == [x : {0, 4}, y : {0}]

\* The other programs are some that never take a step.
Init ==
  /\ program \in {"circle", "sobel", "mandelbrot"}
  /\ CircleInit /\ (program # "circle" => prog = lab1_sample /\ circle = [r |-> 1, k |-> 7])
  /\ SobelInit /\ (program # "sobel" => kernel = lab4_sample /\ picture = <<1, 1>>)
  /\ MandelbrotInit /\ (program # "mandelbrot" => drawing = hw2a /\ view = NoView)

Next ==
  \/ program = "circle" /\ CircleNext /\ UNCHANGED <<program, sobelVars, mandelbrotVars>>
  \/ program = "sobel" /\ SobelNext /\ UNCHANGED <<program, circleVars, mandelbrotVars>>
  \/ program = "mandelbrot" /\ MandelbrotNext /\ UNCHANGED <<program, circleVars, sobelVars>>

Spec == Init /\ [][Next]_vars /\ WF_vars(Next)

\* Whatever the order of the members, blocks, warps and pairs, the program ends:
\* no member goes over the same row for ever, no warp waits at a barrier for
\* ever, no half of a register keeps the other from ending.
PixelsEnd ==
  <>(CASE program = "circle" -> printed # Pending
       [] program = "sobel" -> SobelDone
       [] program = "mandelbrot" -> png # Nothing)
=============================================================================
