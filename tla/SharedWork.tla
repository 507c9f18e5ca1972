----------------------------- MODULE SharedWork -----------------------------
(***************************************************************************)
(* What hw2a and hw2b promise: the members of a team share the pixels of a *)
(* picture.  A member takes pixels that are free, computes those it holds  *)
(* or hands them to another, and leaves when it holds none and none are    *)
(* free; the picture is written when all have left.  So every pixel is     *)
(* computed, once, before the picture is written.                          *)
(***************************************************************************)
CONSTANT Members

VARIABLES free, held, computed, left, written

vars == <<free, held, computed, left, written>>

Init ==
  /\ held = [m \in Members |-> {}]
  /\ computed = {}
  /\ left = {}
  /\ written = FALSE

Take(m) ==
  /\ m \notin left
  /\ free' \subseteq free
  /\ held' = [held EXCEPT ![m] = @ \cup (free \ free')]
  /\ UNCHANGED <<computed, left, written>>

Hand(m, to) ==
  /\ to \notin left
  /\ held' = [held EXCEPT ![m] = {}, ![to] = @ \cup held[m]]
  /\ UNCHANGED <<free, computed, left, written>>

Compute(m) ==
  /\ held'[m] \subseteq held[m]
  /\ held' = [held EXCEPT ![m] = held'[m]]
  /\ computed' = computed \cup (held[m] \ held'[m])
  /\ UNCHANGED <<free, left, written>>

Leave(m) ==
  /\ free = {} /\ held[m] = {}
  /\ left' = left \cup {m}
  /\ UNCHANGED <<free, held, computed, written>>

Write ==
  /\ left = Members
  /\ written' = TRUE
  /\ UNCHANGED <<free, held, computed, left>>

Next ==
  \/ \E m \in Members : Take(m) \/ Compute(m) \/ Leave(m)
  \/ \E m, to \in Members : Hand(m, to)
  \/ Write

Spec == Init /\ [][Next]_vars
=============================================================================
