-------------------------------- MODULE Parts --------------------------------
(***************************************************************************)
(* Components that share no state take turns in one run: a behaviour is    *)
(* that of one part, whose variables are s1, s2, ... in the order in which *)
(* its module declares them; the rest are 0.                               *)
(***************************************************************************)
EXTENDS Naturals

VARIABLES part,
          s1, s2, s3, s4, s5, s6, s7, s8, s9, s10, s11, s12, s13, s14, s15, s16, s17, s18, s19, s20, s21, s22

slots == <<s1, s2, s3, s4, s5, s6, s7, s8, s9, s10, s11, s12, s13, s14, s15, s16, s17, s18, s19, s20, s21, s22>>

\* A part with n variables leaves the others alone.
Spare(n) ==
  /\ n < 1 => s1 = 0
  /\ n < 2 => s2 = 0
  /\ n < 3 => s3 = 0
  /\ n < 4 => s4 = 0
  /\ n < 5 => s5 = 0
  /\ n < 6 => s6 = 0
  /\ n < 7 => s7 = 0
  /\ n < 8 => s8 = 0
  /\ n < 9 => s9 = 0
  /\ n < 10 => s10 = 0
  /\ n < 11 => s11 = 0
  /\ n < 12 => s12 = 0
  /\ n < 13 => s13 = 0
  /\ n < 14 => s14 = 0
  /\ n < 15 => s15 = 0
  /\ n < 16 => s16 = 0
  /\ n < 17 => s17 = 0
  /\ n < 18 => s18 = 0
  /\ n < 19 => s19 = 0
  /\ n < 20 => s20 = 0
  /\ n < 21 => s21 = 0
  /\ n < 22 => s22 = 0

\* A step of part p, whose n variables A changes.
Takes(p, n, A) ==
  /\ part = p
  /\ A
  /\ part' = p
  /\ n < 1 => s1' = 0
  /\ n < 2 => s2' = 0
  /\ n < 3 => s3' = 0
  /\ n < 4 => s4' = 0
  /\ n < 5 => s5' = 0
  /\ n < 6 => s6' = 0
  /\ n < 7 => s7' = 0
  /\ n < 8 => s8' = 0
  /\ n < 9 => s9' = 0
  /\ n < 10 => s10' = 0
  /\ n < 11 => s11' = 0
  /\ n < 12 => s12' = 0
  /\ n < 13 => s13' = 0
  /\ n < 14 => s14' = 0
  /\ n < 15 => s15' = 0
  /\ n < 16 => s16' = 0
  /\ n < 17 => s17' = 0
  /\ n < 18 => s18' = 0
  /\ n < 19 => s19' = 0
  /\ n < 20 => s20' = 0
  /\ n < 21 => s21' = 0
  /\ n < 22 => s22' = 0

\* P holds in part p.
In(p, P) == part = p /\ P
=============================================================================
