---------------------------- MODULE MCTransition ----------------------------
(* Two ramps, so that one may supersede the other, one other user command  *)
(* and one guardian task.                                                  *)
EXTENDS Transition, Integers

CONSTANTS r1, r2, c, g

MCRamps == {r1, r2}
MCCommands == {c}
MCBackground == {g}

(* One channel: round(start + (target - start) * step / steps), halves to  *)
(* the even side.                                                          *)
MCInterpolated(a, b, k) ==
  LET n == a * Steps + (b - a) * k
      q == n \div Steps
      rest == 2 * (n % Steps)
  IN IF rest < Steps \/ (rest = Steps /\ q % 2 = 0) THEN q ELSE q + 1
=============================================================================
