---------------------------- MODULE HomingProofs ------------------------------
(***************************************************************************)
(* Two theorems of homing. First, homing and probing leave nothing begun,  *)
(* for any number of retries and samples and for both kinds of probe.      *)
(* Second, of a homing move over any number of micro-controllers: they     *)
(* stop together, and hits and misses are reported truly, however long     *)
(* messages take. For each the inductive invariant IInv of its module      *)
(* (Homing, and TriggerDispatch as TD) is preserved by every action.       *)
(***************************************************************************)
EXTENDS Homing, TLAPS, WellFoundedInduction

CONSTANTS Secondary, Main, ExpireTicks, MinExtend, MoveTime, Horizon, MaxReports
VARIABLES now, mcu, toMcu, toHost, td, tdm, waiting, host, result

\* The dispatch of triggers has constants and variables of its own.
TD == INSTANCE TriggerDispatch

LEMMA AxisOfOrder ==
  ASSUME axes \in Orders
  PROVE  Axis \in {"x", "y", "z"}
BY DEF Orders, Axis

LEMMA OrderIsOfAxes ==
  ASSUME NEW o \in Orders
  PROVE  o # <<>> /\ {o[i] : i \in DOMAIN o} \subseteq {"x", "y", "z"}
BY DEF Orders

-----------------------------------------------------------------------------
(* What the loops count.                                                   *)

\* An action that counts nothing and begins neither a loop nor a sample.
LEMMA NothingCounted ==
  ASSUME CountTypeOK, CountIsRight,
         UNCHANGED <<tries, zTries, probing, commands>>,
         at' \in {"xy try", "sample"} => at' = at
  PROVE  CountTypeOK' /\ CountIsRight'
BY DEF CountTypeOK, CountIsRight, probing

LEMMA CountStep ==
  ASSUME HomingAssumption, CountTypeOK, CountIsRight, [Next]_vars
  PROVE  CountTypeOK' /\ CountIsRight'

<1>a. /\ HomingRetries \in Nat /\ TriggerRetries \in Nat /\ MaxCommands \in Nat
      /\ SampleCount \in Nat /\ SampleCount > 0
  BY DEF HomingAssumption
<1>1. ASSUME RailsBegin PROVE CountTypeOK' /\ CountIsRight'
  <2>1. tries' = 0 /\ UNCHANGED <<zTries, samples, retries, rejected, commands>>
    BY <1>1 DEF RailsBegin, probing
  <2>2. CountTypeOK' BY <2>1, <1>a DEF CountTypeOK
  <2>3. CountIsRight'
    <3>1. tries' <= HomingRetries BY <2>1, <1>a
    <3>2. at' # "sample" BY <1>1 DEF RailsBegin
    <3> QED BY <3>1, <3>2 DEF CountIsRight
  <2> QED BY <2>2, <2>3
<1>2. ASSUME XYTry PROVE CountTypeOK' /\ CountIsRight'
  <2>1. tries' = tries + 1 /\ UNCHANGED <<zTries, samples, retries, rejected, commands>>
    BY <1>2 DEF XYTry, CountTry, probing
  <2>a. at = "xy try" /\ at' = "xy first" BY <1>2 DEF XYTry
  <2>b. tries <= HomingRetries BY <2>a DEF CountIsRight
  <2>2. CountTypeOK' BY <2>1, <2>b, <1>a DEF CountTypeOK
  <2>3. CountIsRight' BY <2>a DEF CountIsRight
  <2> QED BY <2>2, <2>3
<1>3. ASSUME XYFirstDone PROVE CountTypeOK' /\ CountIsRight'
  BY <1>3, NothingCounted DEF XYFirstDone
<1>4. ASSUME ZRetries PROVE CountTypeOK' /\ CountIsRight'
  <2>1. /\ zTries < TriggerRetries /\ zTries' = zTries + 1
        /\ UNCHANGED <<tries, samples, retries, rejected, commands>>
    BY <1>4 DEF ZRetries, ZMayRetry, probing
  <2>2. CountTypeOK' BY <2>1, <1>a DEF CountTypeOK
  <2>a. at' = "rails" BY <1>4 DEF ZRetries
  <2>3. CountIsRight' BY <2>a DEF CountIsRight
  <2> QED BY <2>2, <2>3
<1>5. ASSUME M18 PROVE CountTypeOK' /\ CountIsRight'
  <2>1. CommandStarts /\ UNCHANGED <<tries, zTries, samples, retries, rejected>>
    BY <1>5 DEF M18, probing
  <2>2. CountTypeOK' BY <2>1, <1>a DEF CommandStarts, CountTypeOK
  <2>a. at' = "idle" BY <1>5 DEF M18, CommandStarts
  <2>3. CountIsRight' BY <2>a DEF CountIsRight
  <2> QED BY <2>2, <2>3
<1>6. ASSUME PROBE PROVE CountTypeOK' /\ CountIsRight'
  <2>1. CommandStarts /\ samples' = 0 /\ retries' = 0 /\ rejected' = 0 /\ UNCHANGED <<tries, zTries>>
    BY <1>6 DEF PROBE, probing
  <2>2. CountTypeOK' BY <2>1, <1>a DEF CommandStarts, CountTypeOK
  <2>a. at' = "sample" BY <1>6 DEF PROBE
  <2>b. samples' < SampleCount BY <2>1, <1>a
  <2>3. CountIsRight' BY <2>a, <2>b DEF CountIsRight
  <2> QED BY <2>2, <2>3
<1>7. ASSUME TESTING_PEI PROVE CountTypeOK' /\ CountIsRight'
  <2>1. CommandStarts /\ UNCHANGED <<tries, zTries, samples, retries, rejected>>
    BY <1>7 DEF TESTING_PEI, probing
  <2>2. CountTypeOK' BY <2>1, <1>a DEF CommandStarts, CountTypeOK
  <2>a. at' = "pei" BY <1>7 DEF TESTING_PEI
  <2>3. CountIsRight' BY <2>a DEF CountIsRight
  <2> QED BY <2>2, <2>3
<1>8. ASSUME PeiDone PROVE CountTypeOK' /\ CountIsRight'
  BY <1>8, NothingCounted DEF PeiDone
<1>9. ASSUME NEW b \in BOOLEAN, MoveBegins(b) PROVE CountTypeOK' /\ CountIsRight'
  BY <1>9, NothingCounted DEF MoveBegins
<1>10. ASSUME NEW b \in BOOLEAN, XYSecondDone(b) PROVE CountTypeOK' /\ CountIsRight'
  <2>1. UNCHANGED <<tries, zTries, samples, retries, rejected, commands>>
    BY <1>10 DEF XYSecondDone, probing
  <2>a. at' # "sample" /\ (at' = "xy try" => ~ (tries >= HomingRetries)) BY <1>10 DEF XYSecondDone
  <2>b. tries >= HomingRetries \/ tries <= HomingRetries BY <1>a DEF CountTypeOK
  <2>c. at' = "xy try" => tries' <= HomingRetries BY <2>1, <2>a, <2>b
  <2>2. CountTypeOK' BY <2>1 DEF CountTypeOK
  <2>3. CountIsRight' BY <2>a, <2>c DEF CountIsRight
  <2> QED BY <2>2, <2>3
<1>11. ASSUME NEW b \in BOOLEAN, ZDone(b) PROVE CountTypeOK' /\ CountIsRight'
  BY <1>11, NothingCounted DEF ZDone, ZNext
<1>12. ASSUME NEW b \in BOOLEAN, RailsEnd(b) PROVE CountTypeOK' /\ CountIsRight'
  BY <1>12, NothingCounted DEF RailsEnd
<1>13. ASSUME NEW b \in BOOLEAN, SampleDone(b) PROVE CountTypeOK' /\ CountIsRight'
  <2>1. /\ samples' = IF b THEN samples + 1 ELSE 0
        /\ retries' \in {retries, 0, retries + 1} /\ rejected' \in {rejected, rejected + 1}
        /\ UNCHANGED <<tries, zTries, commands>>
    BY <1>13 DEF SampleDone, AfterRejected
  <2>a. at = "sample" /\ at' \in {"sample", "session end"} /\ (at' = "sample" => samples' = 0 \/ samples' < SampleCount)
    BY <1>13 DEF SampleDone, MoreSamples
  <2>b. samples < SampleCount BY <2>a DEF CountIsRight
  <2>2. CountTypeOK' BY <2>1, <2>b, <1>a DEF CountTypeOK
  <2>c. samples' = 0 => samples' < SampleCount BY <1>a
  <2>3. CountIsRight' BY <2>a, <2>c DEF CountIsRight
  <2> QED BY <2>2, <2>3
<1>14. ASSUME NEW b \in BOOLEAN, SessionEnds(b) PROVE CountTypeOK' /\ CountIsRight'
  BY <1>14, NothingCounted DEF SessionEnds
<1>15. ASSUME NEW b \in BOOLEAN, CommandFails(b) PROVE CountTypeOK' /\ CountIsRight'
  BY <1>15, NothingCounted DEF CommandFails
<1>16. ASSUME NEW o \in {"hit", "none", "error"}, NEW b \in BOOLEAN, MoveEnds(o, b) PROVE CountTypeOK' /\ CountIsRight'
  BY <1>16, NothingCounted DEF MoveEnds
<1>17. ASSUME NEW o \in Orders, G28(o) PROVE CountTypeOK' /\ CountIsRight'
  <2>1. CommandStarts /\ zTries' = 0 /\ UNCHANGED <<tries, samples, retries, rejected>>
    BY <1>17 DEF G28, probing
  <2>2. CountTypeOK' BY <2>1, <1>a DEF CommandStarts, CountTypeOK
  <2>a. at' = "rails" BY <1>17 DEF G28
  <2>3. CountIsRight' BY <2>a DEF CountIsRight
  <2> QED BY <2>2, <2>3
<1>18. CASE UNCHANGED vars
  BY <1>18, NothingCounted DEF vars, probing
<1> QED
  BY <1>1, <1>2, <1>3, <1>4, <1>5, <1>6, <1>7, <1>8, <1>9, <1>10, <1>11, <1>12, <1>13, <1>14, <1>15, <1>16, <1>17,
     <1>18 DEF Next
-----------------------------------------------------------------------------
(* The shape of the state, without the numbers.                            *)

LEMMA PlaceTypeOKStep ==
  ASSUME IInv, [Next]_vars
  PROVE  PlaceTypeOK'
<1> USE DEF IInv, TypeOK
<1>1. ASSUME RailsBegin PROVE PlaceTypeOK'
  BY <1>1, AxisOfOrder DEF RailsBegin, MultiBegin, PlaceTypeOK, Callers, PlaceIsRight, OneIsMarked
<1>2. ASSUME XYTry PROVE PlaceTypeOK'
  BY <1>2, AxisOfOrder DEF XYTry, CountTry, EnterHomingMode, PlaceTypeOK, Callers, PlaceIsRight, OneIsMarked
<1>3. ASSUME XYFirstDone PROVE PlaceTypeOK'
  BY <1>3, AxisOfOrder DEF XYFirstDone, WorkingMode, PlaceTypeOK, Callers, PlaceIsRight, OneIsMarked
<1>4. ASSUME ZRetries PROVE PlaceTypeOK'
  BY <1>4, AxisOfOrder DEF ZRetries, ZMayRetry, PlaceTypeOK, Callers, PlaceIsRight, OneIsMarked
<1>5. ASSUME M18 PROVE PlaceTypeOK'
  BY <1>5, AxisOfOrder DEF M18, CommandStarts, PlaceTypeOK, Callers, PlaceIsRight, OneIsMarked
<1>6. ASSUME PROBE PROVE PlaceTypeOK'
  BY <1>6, AxisOfOrder DEF PROBE, CommandStarts, MultiBegin, PlaceTypeOK, Callers, PlaceIsRight, OneIsMarked
<1>7. ASSUME TESTING_PEI PROVE PlaceTypeOK'
  BY <1>7, AxisOfOrder DEF TESTING_PEI, CommandStarts, PlaceTypeOK, Callers, PlaceIsRight, OneIsMarked
<1>8. ASSUME PeiDone PROVE PlaceTypeOK'
  BY <1>8, AxisOfOrder DEF PeiDone, PlaceTypeOK, Callers, PlaceIsRight, OneIsMarked
<1>9. ASSUME NEW b \in BOOLEAN, MoveBegins(b) PROVE PlaceTypeOK'
  BY <1>9, AxisOfOrder DEF MoveBegins, Callers, WithProbe, PlaceTypeOK, PlaceIsRight, OneIsMarked
<1>10. ASSUME NEW b \in BOOLEAN, XYSecondDone(b) PROVE PlaceTypeOK'
  BY <1>10, AxisOfOrder DEF XYSecondDone, WorkingMode, PlaceTypeOK, Callers, PlaceIsRight, OneIsMarked
<1>11. ASSUME NEW b \in BOOLEAN, ZDone(b) PROVE PlaceTypeOK'
  BY <1>11, AxisOfOrder DEF ZDone, ZNext, PlaceTypeOK, Callers, PlaceIsRight, OneIsMarked
<1>12. ASSUME NEW b \in BOOLEAN, RailsEnd(b) PROVE PlaceTypeOK'
  BY <1>12, AxisOfOrder DEF RailsEnd, MultiEnd, Stowing, PlaceTypeOK, Callers, PlaceIsRight, OneIsMarked
<1>13. ASSUME NEW b \in BOOLEAN, SampleDone(b) PROVE PlaceTypeOK'
  BY <1>13, AxisOfOrder DEF SampleDone, MoreSamples, AfterRejected, PlaceTypeOK, Callers, PlaceIsRight, OneIsMarked
<1>14. ASSUME NEW b \in BOOLEAN, SessionEnds(b) PROVE PlaceTypeOK'
  BY <1>14, AxisOfOrder DEF SessionEnds, MultiEnd, Stowing, PlaceTypeOK, Callers, PlaceIsRight, OneIsMarked
<1>15. ASSUME NEW b \in BOOLEAN, CommandFails(b) PROVE PlaceTypeOK'
  BY <1>15, AxisOfOrder DEF CommandFails, AfterFailure, Begun, MultiEnd, Stowing, ZMayRetry, PlaceTypeOK, Callers,
     PlaceIsRight, OneIsMarked
<1>16. ASSUME NEW o \in {"hit", "none", "error"}, NEW b \in BOOLEAN, MoveEnds(o, b) PROVE PlaceTypeOK'
  BY <1>16, AxisOfOrder DEF MoveEnds, HeaterAfter, WithProbe, Callers, PlaceTypeOK, PlaceIsRight, OneIsMarked
<1>17. ASSUME NEW o \in Orders, G28(o) PROVE PlaceTypeOK'
  BY <1>17, OrderIsOfAxes DEF G28, CommandStarts, Orders, PlaceTypeOK, Callers, PlaceIsRight, OneIsMarked
<1>18. CASE UNCHANGED vars
  BY <1>18 DEF vars, PlaceTypeOK, Callers, PlaceIsRight, OneIsMarked
<1> QED
  BY <1>1, <1>2, <1>3, <1>4, <1>5, <1>6, <1>7, <1>8, <1>9, <1>10, <1>11, <1>12, <1>13, <1>14, <1>15, <1>16, <1>17,
     <1>18 DEF Next

LEMMA DeviceTypeOKStep ==
  ASSUME IInv, [Next]_vars
  PROVE  DeviceTypeOK'
<1> USE DEF IInv, TypeOK
<1>1. ASSUME RailsBegin PROVE DeviceTypeOK'
  BY <1>1 DEF RailsBegin, MultiBegin, DeviceTypeOK
<1>2. ASSUME XYTry PROVE DeviceTypeOK'
  BY <1>2 DEF XYTry, CountTry, EnterHomingMode, DeviceTypeOK
<1>3. ASSUME XYFirstDone PROVE DeviceTypeOK'
  BY <1>3 DEF XYFirstDone, WorkingMode, DeviceTypeOK
<1>4. ASSUME ZRetries PROVE DeviceTypeOK'
  BY <1>4 DEF ZRetries, ZMayRetry, DeviceTypeOK
<1>5. ASSUME M18 PROVE DeviceTypeOK'
  BY <1>5 DEF M18, CommandStarts, DeviceTypeOK
<1>6. ASSUME PROBE PROVE DeviceTypeOK'
  BY <1>6 DEF PROBE, CommandStarts, MultiBegin, DeviceTypeOK
<1>7. ASSUME TESTING_PEI PROVE DeviceTypeOK'
  BY <1>7 DEF TESTING_PEI, CommandStarts, DeviceTypeOK
<1>8. ASSUME PeiDone PROVE DeviceTypeOK'
  BY <1>8 DEF PeiDone, DeviceTypeOK
<1>9. ASSUME NEW b \in BOOLEAN, MoveBegins(b) PROVE DeviceTypeOK'
  BY <1>9 DEF MoveBegins, Callers, WithProbe, DeviceTypeOK
<1>10. ASSUME NEW b \in BOOLEAN, XYSecondDone(b) PROVE DeviceTypeOK'
  BY <1>10 DEF XYSecondDone, WorkingMode, DeviceTypeOK
<1>11. ASSUME NEW b \in BOOLEAN, ZDone(b) PROVE DeviceTypeOK'
  BY <1>11 DEF ZDone, ZNext, DeviceTypeOK
<1>12. ASSUME NEW b \in BOOLEAN, RailsEnd(b) PROVE DeviceTypeOK'
  BY <1>12 DEF RailsEnd, MultiEnd, Stowing, DeviceTypeOK
<1>13. ASSUME NEW b \in BOOLEAN, SampleDone(b) PROVE DeviceTypeOK'
  BY <1>13 DEF SampleDone, MoreSamples, AfterRejected, DeviceTypeOK
<1>14. ASSUME NEW b \in BOOLEAN, SessionEnds(b) PROVE DeviceTypeOK'
  BY <1>14 DEF SessionEnds, MultiEnd, Stowing, DeviceTypeOK
<1>15. ASSUME NEW b \in BOOLEAN, CommandFails(b) PROVE DeviceTypeOK'
  BY <1>15 DEF CommandFails, AfterFailure, Begun, MultiEnd, Stowing, ZMayRetry, DeviceTypeOK
<1>16. ASSUME NEW o \in {"hit", "none", "error"}, NEW b \in BOOLEAN, MoveEnds(o, b) PROVE DeviceTypeOK'
  BY <1>16 DEF MoveEnds, HeaterAfter, WithProbe, Callers, DeviceTypeOK
<1>17. ASSUME NEW o \in Orders, G28(o) PROVE DeviceTypeOK'
  BY <1>17, OrderIsOfAxes DEF G28, CommandStarts, Orders, DeviceTypeOK
<1>18. CASE UNCHANGED vars
  BY <1>18 DEF vars, DeviceTypeOK
<1> QED
  BY <1>1, <1>2, <1>3, <1>4, <1>5, <1>6, <1>7, <1>8, <1>9, <1>10, <1>11, <1>12, <1>13, <1>14, <1>15, <1>16, <1>17,
     <1>18 DEF Next
-----------------------------------------------------------------------------
(* Where homing is.                                                        *)

LEMMA PlaceIsRightStep ==
  ASSUME IInv, [Next]_vars
  PROVE  PlaceIsRight'
<1> USE DEF IInv, TypeOK
<1>1. ASSUME RailsBegin PROVE PlaceIsRight'
  BY <1>1, AxisOfOrder DEF RailsBegin, MultiBegin, PlaceIsRight, PlaceTypeOK, HomingXY, HomingZ, Axis
<1>2. ASSUME XYTry PROVE PlaceIsRight'
  BY <1>2, AxisOfOrder DEF XYTry, CountTry, EnterHomingMode, PlaceIsRight, PlaceTypeOK, HomingXY, HomingZ, Axis
<1>3. ASSUME XYFirstDone PROVE PlaceIsRight'
  BY <1>3, AxisOfOrder DEF XYFirstDone, WorkingMode, PlaceIsRight, PlaceTypeOK, HomingXY, HomingZ, Axis
<1>4. ASSUME ZRetries PROVE PlaceIsRight'
  BY <1>4, AxisOfOrder DEF ZRetries, ZMayRetry, PlaceIsRight, PlaceTypeOK, HomingXY, HomingZ, Axis
<1>5. ASSUME M18 PROVE PlaceIsRight'
  BY <1>5, AxisOfOrder DEF M18, CommandStarts, PlaceIsRight, PlaceTypeOK, HomingXY, HomingZ, Axis
<1>6. ASSUME PROBE PROVE PlaceIsRight'
  BY <1>6, AxisOfOrder DEF PROBE, CommandStarts, MultiBegin, PlaceIsRight, PlaceTypeOK, HomingXY, HomingZ, Axis
<1>7. ASSUME TESTING_PEI PROVE PlaceIsRight'
  BY <1>7, AxisOfOrder DEF TESTING_PEI, CommandStarts, PlaceIsRight, PlaceTypeOK, HomingXY, HomingZ, Axis
<1>8. ASSUME PeiDone PROVE PlaceIsRight'
  BY <1>8, AxisOfOrder DEF PeiDone, PlaceIsRight, PlaceTypeOK, HomingXY, HomingZ, Axis
<1>9. ASSUME NEW b \in BOOLEAN, MoveBegins(b) PROVE PlaceIsRight'
  BY <1>9, AxisOfOrder DEF MoveBegins, Callers, WithProbe, PlaceIsRight, PlaceTypeOK, HomingXY, HomingZ, Axis
<1>10. ASSUME NEW b \in BOOLEAN, XYSecondDone(b) PROVE PlaceIsRight'
  BY <1>10, AxisOfOrder DEF XYSecondDone, WorkingMode, PlaceIsRight, PlaceTypeOK, HomingXY, HomingZ, Axis
<1>11. ASSUME NEW b \in BOOLEAN, ZDone(b) PROVE PlaceIsRight'
  BY <1>11, AxisOfOrder DEF ZDone, ZNext, PlaceIsRight, PlaceTypeOK, HomingXY, HomingZ, Axis
<1>12. ASSUME NEW b \in BOOLEAN, RailsEnd(b) PROVE PlaceIsRight'
  BY <1>12, AxisOfOrder DEF RailsEnd, MultiEnd, Stowing, PlaceIsRight, PlaceTypeOK, HomingXY, HomingZ, Axis
<1>13. ASSUME NEW b \in BOOLEAN, SampleDone(b) PROVE PlaceIsRight'
  BY <1>13, AxisOfOrder DEF SampleDone, MoreSamples, AfterRejected, PlaceIsRight, PlaceTypeOK, HomingXY, HomingZ, Axis
<1>14. ASSUME NEW b \in BOOLEAN, SessionEnds(b) PROVE PlaceIsRight'
  BY <1>14, AxisOfOrder DEF SessionEnds, MultiEnd, Stowing, PlaceIsRight, PlaceTypeOK, HomingXY, HomingZ, Axis
<1>15. ASSUME NEW b \in BOOLEAN, CommandFails(b) PROVE PlaceIsRight'
  BY <1>15, AxisOfOrder DEF CommandFails, AfterFailure, Begun, MultiEnd, Stowing, ZMayRetry, PlaceIsRight,
     PlaceTypeOK, HomingXY, HomingZ, Axis
<1>16. ASSUME NEW o \in {"hit", "none", "error"}, NEW b \in BOOLEAN, MoveEnds(o, b) PROVE PlaceIsRight'
  BY <1>16, AxisOfOrder DEF MoveEnds, HeaterAfter, WithProbe, Callers, PlaceIsRight, PlaceTypeOK, HomingXY,
     HomingZ, Axis
<1>17. ASSUME NEW o \in Orders, G28(o) PROVE PlaceIsRight'
  BY <1>17, OrderIsOfAxes DEF G28, CommandStarts, Orders, PlaceIsRight, PlaceTypeOK, HomingXY, HomingZ, Axis
<1>18. CASE UNCHANGED vars
  BY <1>18 DEF vars, PlaceIsRight, PlaceTypeOK, HomingXY, HomingZ, Axis
<1> QED
  BY <1>1, <1>2, <1>3, <1>4, <1>5, <1>6, <1>7, <1>8, <1>9, <1>10, <1>11, <1>12, <1>13, <1>14, <1>15, <1>16, <1>17,
     <1>18 DEF Next
-----------------------------------------------------------------------------
(* Which sessions are open.                                                *)

LEMMA BegunIsRightStep ==
  ASSUME IInv, [Next]_vars
  PROVE  BegunIsRight'
<1> USE DEF IInv, TypeOK
<1>1. ASSUME RailsBegin PROVE BegunIsRight'
  BY <1>1, AxisOfOrder DEF RailsBegin, MultiBegin, BegunIsRight, DeviceTypeOK, PlaceTypeOK, PlaceIsRight, HomingZ,
     HomingXY, Axis
<1>2. ASSUME XYTry PROVE BegunIsRight'
  BY <1>2, AxisOfOrder DEF XYTry, CountTry, EnterHomingMode, BegunIsRight, DeviceTypeOK, PlaceTypeOK, PlaceIsRight,
     HomingZ, HomingXY, Axis
<1>3. ASSUME XYFirstDone PROVE BegunIsRight'
  BY <1>3, AxisOfOrder DEF XYFirstDone, WorkingMode, BegunIsRight, DeviceTypeOK, PlaceTypeOK, PlaceIsRight,
     HomingZ, HomingXY, Axis
<1>4. ASSUME ZRetries PROVE BegunIsRight'
  BY <1>4, AxisOfOrder DEF ZRetries, ZMayRetry, BegunIsRight, DeviceTypeOK, PlaceTypeOK, PlaceIsRight, HomingZ,
     HomingXY, Axis
<1>5. ASSUME M18 PROVE BegunIsRight'
  BY <1>5, AxisOfOrder DEF M18, CommandStarts, BegunIsRight, DeviceTypeOK, PlaceTypeOK, PlaceIsRight, HomingZ,
     HomingXY, Axis
<1>6. ASSUME PROBE PROVE BegunIsRight'
  BY <1>6, AxisOfOrder DEF PROBE, CommandStarts, MultiBegin, BegunIsRight, DeviceTypeOK, PlaceTypeOK, PlaceIsRight,
     HomingZ, HomingXY, Axis
<1>7. ASSUME TESTING_PEI PROVE BegunIsRight'
  BY <1>7, AxisOfOrder DEF TESTING_PEI, CommandStarts, BegunIsRight, DeviceTypeOK, PlaceTypeOK, PlaceIsRight,
     HomingZ, HomingXY, Axis
<1>8. ASSUME PeiDone PROVE BegunIsRight'
  BY <1>8, AxisOfOrder DEF PeiDone, BegunIsRight, DeviceTypeOK, PlaceTypeOK, PlaceIsRight, HomingZ, HomingXY, Axis
<1>9. ASSUME NEW b \in BOOLEAN, MoveBegins(b) PROVE BegunIsRight'
  BY <1>9, AxisOfOrder DEF MoveBegins, Callers, WithProbe, BegunIsRight, DeviceTypeOK, PlaceTypeOK, PlaceIsRight,
     HomingZ, HomingXY, Axis
<1>10. ASSUME NEW b \in BOOLEAN, XYSecondDone(b) PROVE BegunIsRight'
  BY <1>10, AxisOfOrder DEF XYSecondDone, WorkingMode, BegunIsRight, DeviceTypeOK, PlaceTypeOK, PlaceIsRight,
     HomingZ, HomingXY, Axis
<1>11. ASSUME NEW b \in BOOLEAN, ZDone(b) PROVE BegunIsRight'
  BY <1>11, AxisOfOrder DEF ZDone, ZNext, BegunIsRight, DeviceTypeOK, PlaceTypeOK, PlaceIsRight, HomingZ, HomingXY,
     Axis
<1>12. ASSUME NEW b \in BOOLEAN, RailsEnd(b) PROVE BegunIsRight'
  BY <1>12, AxisOfOrder DEF RailsEnd, MultiEnd, Stowing, BegunIsRight, DeviceTypeOK, PlaceTypeOK, PlaceIsRight,
     HomingZ, HomingXY, Axis
<1>13. ASSUME NEW b \in BOOLEAN, SampleDone(b) PROVE BegunIsRight'
  BY <1>13, AxisOfOrder DEF SampleDone, MoreSamples, AfterRejected, BegunIsRight, DeviceTypeOK, PlaceTypeOK,
     PlaceIsRight, HomingZ, HomingXY, Axis
<1>14. ASSUME NEW b \in BOOLEAN, SessionEnds(b) PROVE BegunIsRight'
  BY <1>14, AxisOfOrder DEF SessionEnds, MultiEnd, Stowing, BegunIsRight, DeviceTypeOK, PlaceTypeOK, PlaceIsRight,
     HomingZ, HomingXY, Axis
<1>15. ASSUME NEW b \in BOOLEAN, CommandFails(b) PROVE BegunIsRight'
  BY <1>15, AxisOfOrder DEF CommandFails, AfterFailure, Begun, MultiEnd, Stowing, ZMayRetry, BegunIsRight,
     DeviceTypeOK, PlaceTypeOK, PlaceIsRight, HomingZ, HomingXY, Axis
<1>16. ASSUME NEW o \in {"hit", "none", "error"}, NEW b \in BOOLEAN, MoveEnds(o, b) PROVE BegunIsRight'
  BY <1>16, AxisOfOrder DEF MoveEnds, HeaterAfter, WithProbe, Callers, BegunIsRight, DeviceTypeOK, PlaceTypeOK,
     PlaceIsRight, HomingZ, HomingXY, Axis
<1>17. ASSUME NEW o \in Orders, G28(o) PROVE BegunIsRight'
  BY <1>17, OrderIsOfAxes DEF G28, CommandStarts, Orders, BegunIsRight, DeviceTypeOK, PlaceTypeOK, PlaceIsRight,
     HomingZ, HomingXY, Axis
<1>18. CASE UNCHANGED vars
  BY <1>18 DEF vars, BegunIsRight, DeviceTypeOK, PlaceTypeOK, PlaceIsRight, HomingZ, HomingXY, Axis
<1> QED
  BY <1>1, <1>2, <1>3, <1>4, <1>5, <1>6, <1>7, <1>8, <1>9, <1>10, <1>11, <1>12, <1>13, <1>14, <1>15, <1>16, <1>17,
     <1>18 DEF Next
-----------------------------------------------------------------------------
(* The pin of the probe.                                                   *)

LEMMA PinIsRightStep ==
  ASSUME IInv, [Next]_vars
  PROVE  PinIsRight'
<1> USE DEF IInv, TypeOK
<1>1. ASSUME RailsBegin PROVE PinIsRight'
  BY <1>1, AxisOfOrder DEF RailsBegin, MultiBegin, PinIsRight, DeviceTypeOK, PlaceIsRight, BegunIsRight, HomingZ,
     HomingXY, WithProbe, Callers, Begun, Axis
<1>2. ASSUME XYTry PROVE PinIsRight'
  BY <1>2, AxisOfOrder DEF XYTry, CountTry, EnterHomingMode, PinIsRight, DeviceTypeOK, PlaceIsRight, BegunIsRight,
     HomingZ, HomingXY, WithProbe, Callers, Begun, Axis
<1>3. ASSUME XYFirstDone PROVE PinIsRight'
  BY <1>3, AxisOfOrder DEF XYFirstDone, WorkingMode, PinIsRight, DeviceTypeOK, PlaceIsRight, BegunIsRight, HomingZ,
     HomingXY, WithProbe, Callers, Begun, Axis
<1>4. ASSUME ZRetries PROVE PinIsRight'
  BY <1>4, AxisOfOrder DEF ZRetries, ZMayRetry, PinIsRight, DeviceTypeOK, PlaceIsRight, BegunIsRight, HomingZ,
     HomingXY, WithProbe, Callers, Begun, Axis
<1>5. ASSUME M18 PROVE PinIsRight'
  BY <1>5, AxisOfOrder DEF M18, CommandStarts, PinIsRight, DeviceTypeOK, PlaceIsRight, BegunIsRight, HomingZ,
     HomingXY, WithProbe, Callers, Begun, Axis
<1>6. ASSUME PROBE PROVE PinIsRight'
  BY <1>6, AxisOfOrder DEF PROBE, CommandStarts, MultiBegin, PinIsRight, DeviceTypeOK, PlaceIsRight, BegunIsRight,
     HomingZ, HomingXY, WithProbe, Callers, Begun, Axis
<1>7. ASSUME TESTING_PEI PROVE PinIsRight'
  BY <1>7, AxisOfOrder DEF TESTING_PEI, CommandStarts, PinIsRight, DeviceTypeOK, PlaceIsRight, BegunIsRight,
     HomingZ, HomingXY, WithProbe, Callers, Begun, Axis
<1>8. ASSUME PeiDone PROVE PinIsRight'
  BY <1>8, AxisOfOrder DEF PeiDone, PinIsRight, DeviceTypeOK, PlaceIsRight, BegunIsRight, HomingZ, HomingXY,
     WithProbe, Callers, Begun, Axis
<1>9. ASSUME NEW b \in BOOLEAN, MoveBegins(b) PROVE PinIsRight'
  BY <1>9, AxisOfOrder DEF MoveBegins, Callers, WithProbe, PinIsRight, DeviceTypeOK, PlaceIsRight, BegunIsRight,
     HomingZ, HomingXY, Begun, Axis
<1>10. ASSUME NEW b \in BOOLEAN, XYSecondDone(b) PROVE PinIsRight'
  BY <1>10, AxisOfOrder DEF XYSecondDone, WorkingMode, PinIsRight, DeviceTypeOK, PlaceIsRight, BegunIsRight,
     HomingZ, HomingXY, WithProbe, Callers, Begun, Axis
<1>11. ASSUME NEW b \in BOOLEAN, ZDone(b) PROVE PinIsRight'
  BY <1>11, AxisOfOrder DEF ZDone, ZNext, PinIsRight, DeviceTypeOK, PlaceIsRight, BegunIsRight, HomingZ, HomingXY,
     WithProbe, Callers, Begun, Axis
<1>12. ASSUME NEW b \in BOOLEAN, RailsEnd(b) PROVE PinIsRight'
  BY <1>12, AxisOfOrder DEF RailsEnd, MultiEnd, Stowing, PinIsRight, DeviceTypeOK, PlaceIsRight, BegunIsRight,
     HomingZ, HomingXY, WithProbe, Callers, Begun, Axis
<1>13. ASSUME NEW b \in BOOLEAN, SampleDone(b) PROVE PinIsRight'
  BY <1>13, AxisOfOrder DEF SampleDone, MoreSamples, AfterRejected, PinIsRight, DeviceTypeOK, PlaceIsRight,
     BegunIsRight, HomingZ, HomingXY, WithProbe, Callers, Begun, Axis
<1>14. ASSUME NEW b \in BOOLEAN, SessionEnds(b) PROVE PinIsRight'
  BY <1>14, AxisOfOrder DEF SessionEnds, MultiEnd, Stowing, PinIsRight, DeviceTypeOK, PlaceIsRight, BegunIsRight,
     HomingZ, HomingXY, WithProbe, Callers, Begun, Axis
<1>15. ASSUME NEW b \in BOOLEAN, CommandFails(b) PROVE PinIsRight'
  BY <1>15, AxisOfOrder DEF CommandFails, AfterFailure, Begun, MultiEnd, Stowing, ZMayRetry, PinIsRight,
     DeviceTypeOK, PlaceIsRight, BegunIsRight, HomingZ, HomingXY, WithProbe, Callers, Axis
<1>16. ASSUME NEW o \in {"hit", "none", "error"}, NEW b \in BOOLEAN, MoveEnds(o, b) PROVE PinIsRight'
  BY <1>16, AxisOfOrder DEF MoveEnds, HeaterAfter, WithProbe, Callers, PinIsRight, DeviceTypeOK, PlaceIsRight,
     BegunIsRight, HomingZ, HomingXY, Begun, Axis
<1>17. ASSUME NEW o \in Orders, G28(o) PROVE PinIsRight'
  BY <1>17, OrderIsOfAxes DEF G28, CommandStarts, Orders, PinIsRight, DeviceTypeOK, PlaceIsRight, BegunIsRight,
     HomingZ, HomingXY, WithProbe, Callers, Begun, Axis
<1>18. CASE UNCHANGED vars
  BY <1>18 DEF vars, PinIsRight, DeviceTypeOK, PlaceIsRight, BegunIsRight, HomingZ, HomingXY, WithProbe, Callers,
     Begun, Axis
<1> QED
  BY <1>1, <1>2, <1>3, <1>4, <1>5, <1>6, <1>7, <1>8, <1>9, <1>10, <1>11, <1>12, <1>13, <1>14, <1>15, <1>16, <1>17,
     <1>18 DEF Next
-----------------------------------------------------------------------------
(* The target of the heater.                                               *)

LEMMA TargetIsKeptStep ==
  ASSUME IInv, [Next]_vars
  PROVE  TargetIsKept'
<1> USE DEF IInv, TypeOK
<1>1. ASSUME RailsBegin PROVE TargetIsKept'
  BY <1>1 DEF RailsBegin, MultiBegin, TargetIsKept, PlaceIsRight, DeviceTypeOK
<1>2. ASSUME XYTry PROVE TargetIsKept'
  BY <1>2 DEF XYTry, CountTry, EnterHomingMode, TargetIsKept, PlaceIsRight, DeviceTypeOK
<1>3. ASSUME XYFirstDone PROVE TargetIsKept'
  BY <1>3 DEF XYFirstDone, WorkingMode, TargetIsKept, PlaceIsRight, DeviceTypeOK
<1>4. ASSUME ZRetries PROVE TargetIsKept'
  BY <1>4 DEF ZRetries, ZMayRetry, TargetIsKept, PlaceIsRight, DeviceTypeOK
<1>5. ASSUME M18 PROVE TargetIsKept'
  BY <1>5 DEF M18, CommandStarts, TargetIsKept, PlaceIsRight, DeviceTypeOK
<1>6. ASSUME PROBE PROVE TargetIsKept'
  BY <1>6 DEF PROBE, CommandStarts, MultiBegin, TargetIsKept, PlaceIsRight, DeviceTypeOK
<1>7. ASSUME TESTING_PEI PROVE TargetIsKept'
  BY <1>7 DEF TESTING_PEI, CommandStarts, TargetIsKept, PlaceIsRight, DeviceTypeOK
<1>8. ASSUME PeiDone PROVE TargetIsKept'
  BY <1>8 DEF PeiDone, TargetIsKept, PlaceIsRight, DeviceTypeOK
<1>9. ASSUME NEW b \in BOOLEAN, MoveBegins(b) PROVE TargetIsKept'
  BY <1>9 DEF MoveBegins, Callers, WithProbe, TargetIsKept, PlaceIsRight, DeviceTypeOK
<1>10. ASSUME NEW b \in BOOLEAN, XYSecondDone(b) PROVE TargetIsKept'
  BY <1>10 DEF XYSecondDone, WorkingMode, TargetIsKept, PlaceIsRight, DeviceTypeOK
<1>11. ASSUME NEW b \in BOOLEAN, ZDone(b) PROVE TargetIsKept'
  BY <1>11 DEF ZDone, ZNext, TargetIsKept, PlaceIsRight, DeviceTypeOK
<1>12. ASSUME NEW b \in BOOLEAN, RailsEnd(b) PROVE TargetIsKept'
  BY <1>12 DEF RailsEnd, MultiEnd, Stowing, TargetIsKept, PlaceIsRight, DeviceTypeOK
<1>13. ASSUME NEW b \in BOOLEAN, SampleDone(b) PROVE TargetIsKept'
  BY <1>13 DEF SampleDone, MoreSamples, AfterRejected, TargetIsKept, PlaceIsRight, DeviceTypeOK
<1>14. ASSUME NEW b \in BOOLEAN, SessionEnds(b) PROVE TargetIsKept'
  BY <1>14 DEF SessionEnds, MultiEnd, Stowing, TargetIsKept, PlaceIsRight, DeviceTypeOK
<1>15. ASSUME NEW b \in BOOLEAN, CommandFails(b) PROVE TargetIsKept'
  BY <1>15 DEF CommandFails, AfterFailure, Begun, MultiEnd, Stowing, ZMayRetry, TargetIsKept, PlaceIsRight,
     DeviceTypeOK
<1>16. ASSUME NEW o \in {"hit", "none", "error"}, NEW b \in BOOLEAN, MoveEnds(o, b) PROVE TargetIsKept'
  BY <1>16 DEF MoveEnds, HeaterAfter, WithProbe, Callers, TargetIsKept, PlaceIsRight, DeviceTypeOK
<1>17. ASSUME NEW o \in Orders, G28(o) PROVE TargetIsKept'
  BY <1>17, OrderIsOfAxes DEF G28, CommandStarts, Orders, TargetIsKept, PlaceIsRight, DeviceTypeOK
<1>18. CASE UNCHANGED vars
  BY <1>18 DEF vars, TargetIsKept, PlaceIsRight, DeviceTypeOK
<1> QED
  BY <1>1, <1>2, <1>3, <1>4, <1>5, <1>6, <1>7, <1>8, <1>9, <1>10, <1>11, <1>12, <1>13, <1>14, <1>15, <1>16, <1>17,
     <1>18 DEF Next
-----------------------------------------------------------------------------
(* The axes that count as homed.                                           *)

LEMMA OneIsMarkedStep ==
  ASSUME IInv, [Next]_vars
  PROVE  OneIsMarked'
<1> USE DEF IInv, TypeOK
<1>1. ASSUME RailsBegin PROVE OneIsMarked'
  BY <1>1, AxisOfOrder DEF RailsBegin, MultiBegin, OneIsMarked, PlaceIsRight, PlaceTypeOK, Axis, HomingXY, HomingZ
<1>2. ASSUME XYTry PROVE OneIsMarked'
  BY <1>2, AxisOfOrder DEF XYTry, CountTry, EnterHomingMode, OneIsMarked, PlaceIsRight, PlaceTypeOK, Axis,
     HomingXY, HomingZ
<1>3. ASSUME XYFirstDone PROVE OneIsMarked'
  BY <1>3, AxisOfOrder DEF XYFirstDone, WorkingMode, OneIsMarked, PlaceIsRight, PlaceTypeOK, Axis, HomingXY, HomingZ
<1>4. ASSUME ZRetries PROVE OneIsMarked'
  BY <1>4, AxisOfOrder DEF ZRetries, ZMayRetry, OneIsMarked, PlaceIsRight, PlaceTypeOK, Axis, HomingXY, HomingZ
<1>5. ASSUME M18 PROVE OneIsMarked'
  BY <1>5, AxisOfOrder DEF M18, CommandStarts, OneIsMarked, PlaceIsRight, PlaceTypeOK, Axis, HomingXY, HomingZ
<1>6. ASSUME PROBE PROVE OneIsMarked'
  BY <1>6, AxisOfOrder DEF PROBE, CommandStarts, MultiBegin, OneIsMarked, PlaceIsRight, PlaceTypeOK, Axis,
     HomingXY, HomingZ
<1>7. ASSUME TESTING_PEI PROVE OneIsMarked'
  BY <1>7, AxisOfOrder DEF TESTING_PEI, CommandStarts, OneIsMarked, PlaceIsRight, PlaceTypeOK, Axis, HomingXY, HomingZ
<1>8. ASSUME PeiDone PROVE OneIsMarked'
  BY <1>8, AxisOfOrder DEF PeiDone, OneIsMarked, PlaceIsRight, PlaceTypeOK, Axis, HomingXY, HomingZ
<1>9. ASSUME NEW b \in BOOLEAN, MoveBegins(b) PROVE OneIsMarked'
  BY <1>9, AxisOfOrder DEF MoveBegins, Callers, WithProbe, OneIsMarked, PlaceIsRight, PlaceTypeOK, Axis, HomingXY,
     HomingZ
<1>10. ASSUME NEW b \in BOOLEAN, XYSecondDone(b) PROVE OneIsMarked'
  BY <1>10, AxisOfOrder DEF XYSecondDone, WorkingMode, OneIsMarked, PlaceIsRight, PlaceTypeOK, Axis, HomingXY, HomingZ
<1>11. ASSUME NEW b \in BOOLEAN, ZDone(b) PROVE OneIsMarked'
  BY <1>11, AxisOfOrder DEF ZDone, ZNext, OneIsMarked, PlaceIsRight, PlaceTypeOK, Axis, HomingXY, HomingZ
<1>12. ASSUME NEW b \in BOOLEAN, RailsEnd(b) PROVE OneIsMarked'
  BY <1>12, AxisOfOrder DEF RailsEnd, MultiEnd, Stowing, OneIsMarked, PlaceIsRight, PlaceTypeOK, Axis, HomingXY,
     HomingZ
<1>13. ASSUME NEW b \in BOOLEAN, SampleDone(b) PROVE OneIsMarked'
  BY <1>13, AxisOfOrder DEF SampleDone, MoreSamples, AfterRejected, OneIsMarked, PlaceIsRight, PlaceTypeOK, Axis,
     HomingXY, HomingZ
<1>14. ASSUME NEW b \in BOOLEAN, SessionEnds(b) PROVE OneIsMarked'
  BY <1>14, AxisOfOrder DEF SessionEnds, MultiEnd, Stowing, OneIsMarked, PlaceIsRight, PlaceTypeOK, Axis, HomingXY,
     HomingZ
<1>15. ASSUME NEW b \in BOOLEAN, CommandFails(b) PROVE OneIsMarked'
  BY <1>15, AxisOfOrder DEF CommandFails, AfterFailure, Begun, MultiEnd, Stowing, ZMayRetry, OneIsMarked,
     PlaceIsRight, PlaceTypeOK, Axis, HomingXY, HomingZ
<1>16. ASSUME NEW o \in {"hit", "none", "error"}, NEW b \in BOOLEAN, MoveEnds(o, b) PROVE OneIsMarked'
  BY <1>16, AxisOfOrder DEF MoveEnds, HeaterAfter, WithProbe, Callers, OneIsMarked, PlaceIsRight, PlaceTypeOK,
     Axis, HomingXY, HomingZ
<1>17. ASSUME NEW o \in Orders, G28(o) PROVE OneIsMarked'
  BY <1>17, OrderIsOfAxes DEF G28, CommandStarts, Orders, OneIsMarked, PlaceIsRight, PlaceTypeOK, Axis, HomingXY,
     HomingZ
<1>18. CASE UNCHANGED vars
  BY <1>18 DEF vars, OneIsMarked, PlaceIsRight, PlaceTypeOK, Axis, HomingXY, HomingZ
<1> QED
  BY <1>1, <1>2, <1>3, <1>4, <1>5, <1>6, <1>7, <1>8, <1>9, <1>10, <1>11, <1>12, <1>13, <1>14, <1>15, <1>16, <1>17,
     <1>18 DEF Next
-----------------------------------------------------------------------------
(* The mode of the drives.                                                 *)

LEMMA ModeIsRightStep ==
  ASSUME IInv, [Next]_vars
  PROVE  ModeIsRight'
<1> USE DEF IInv, TypeOK
<1>1. ASSUME RailsBegin PROVE ModeIsRight'
  BY <1>1, AxisOfOrder DEF RailsBegin, MultiBegin, ModeIsRight, PlaceIsRight, DeviceTypeOK, OneIsMarked, HomingXY,
     HomingZ, Axis
<1>2. ASSUME XYTry PROVE ModeIsRight'
  BY <1>2, AxisOfOrder DEF XYTry, CountTry, EnterHomingMode, ModeIsRight, PlaceIsRight, DeviceTypeOK, OneIsMarked,
     HomingXY, HomingZ, Axis
<1>3. ASSUME XYFirstDone PROVE ModeIsRight'
  BY <1>3, AxisOfOrder DEF XYFirstDone, WorkingMode, ModeIsRight, PlaceIsRight, DeviceTypeOK, OneIsMarked,
     HomingXY, HomingZ, Axis
<1>4. ASSUME ZRetries PROVE ModeIsRight'
  BY <1>4, AxisOfOrder DEF ZRetries, ZMayRetry, ModeIsRight, PlaceIsRight, DeviceTypeOK, OneIsMarked, HomingXY,
     HomingZ, Axis
<1>5. ASSUME M18 PROVE ModeIsRight'
  BY <1>5, AxisOfOrder DEF M18, CommandStarts, ModeIsRight, PlaceIsRight, DeviceTypeOK, OneIsMarked, HomingXY,
     HomingZ, Axis
<1>6. ASSUME PROBE PROVE ModeIsRight'
  BY <1>6, AxisOfOrder DEF PROBE, CommandStarts, MultiBegin, ModeIsRight, PlaceIsRight, DeviceTypeOK, OneIsMarked,
     HomingXY, HomingZ, Axis
<1>7. ASSUME TESTING_PEI PROVE ModeIsRight'
  BY <1>7, AxisOfOrder DEF TESTING_PEI, CommandStarts, ModeIsRight, PlaceIsRight, DeviceTypeOK, OneIsMarked,
     HomingXY, HomingZ, Axis
<1>8. ASSUME PeiDone PROVE ModeIsRight'
  BY <1>8, AxisOfOrder DEF PeiDone, ModeIsRight, PlaceIsRight, DeviceTypeOK, OneIsMarked, HomingXY, HomingZ, Axis
<1>9. ASSUME NEW b \in BOOLEAN, MoveBegins(b) PROVE ModeIsRight'
  BY <1>9, AxisOfOrder DEF MoveBegins, Callers, WithProbe, ModeIsRight, PlaceIsRight, DeviceTypeOK, OneIsMarked,
     HomingXY, HomingZ, Axis
<1>10. ASSUME NEW b \in BOOLEAN, XYSecondDone(b) PROVE ModeIsRight'
  BY <1>10, AxisOfOrder DEF XYSecondDone, WorkingMode, ModeIsRight, PlaceIsRight, DeviceTypeOK, OneIsMarked,
     HomingXY, HomingZ, Axis
<1>11. ASSUME NEW b \in BOOLEAN, ZDone(b) PROVE ModeIsRight'
  BY <1>11, AxisOfOrder DEF ZDone, ZNext, ModeIsRight, PlaceIsRight, DeviceTypeOK, OneIsMarked, HomingXY, HomingZ,
     Axis
<1>12. ASSUME NEW b \in BOOLEAN, RailsEnd(b) PROVE ModeIsRight'
  BY <1>12, AxisOfOrder DEF RailsEnd, MultiEnd, Stowing, ModeIsRight, PlaceIsRight, DeviceTypeOK, OneIsMarked,
     HomingXY, HomingZ, Axis
<1>13. ASSUME NEW b \in BOOLEAN, SampleDone(b) PROVE ModeIsRight'
  BY <1>13, AxisOfOrder DEF SampleDone, MoreSamples, AfterRejected, ModeIsRight, PlaceIsRight, DeviceTypeOK,
     OneIsMarked, HomingXY, HomingZ, Axis
<1>14. ASSUME NEW b \in BOOLEAN, SessionEnds(b) PROVE ModeIsRight'
  BY <1>14, AxisOfOrder DEF SessionEnds, MultiEnd, Stowing, ModeIsRight, PlaceIsRight, DeviceTypeOK, OneIsMarked,
     HomingXY, HomingZ, Axis
<1>15. ASSUME NEW b \in BOOLEAN, CommandFails(b) PROVE ModeIsRight'
  BY <1>15, AxisOfOrder DEF CommandFails, AfterFailure, Begun, MultiEnd, Stowing, ZMayRetry, ModeIsRight,
     PlaceIsRight, DeviceTypeOK, OneIsMarked, HomingXY, HomingZ, Axis
<1>16. ASSUME NEW o \in {"hit", "none", "error"}, NEW b \in BOOLEAN, MoveEnds(o, b) PROVE ModeIsRight'
  BY <1>16, AxisOfOrder DEF MoveEnds, HeaterAfter, WithProbe, Callers, ModeIsRight, PlaceIsRight, DeviceTypeOK,
     OneIsMarked, HomingXY, HomingZ, Axis
<1>17. ASSUME NEW o \in Orders, G28(o) PROVE ModeIsRight'
  BY <1>17, OrderIsOfAxes DEF G28, CommandStarts, Orders, ModeIsRight, PlaceIsRight, DeviceTypeOK, OneIsMarked,
     HomingXY, HomingZ, Axis
<1>18. CASE UNCHANGED vars
  BY <1>18 DEF vars, ModeIsRight, PlaceIsRight, DeviceTypeOK, OneIsMarked, HomingXY, HomingZ, Axis
<1> QED
  BY <1>1, <1>2, <1>3, <1>4, <1>5, <1>6, <1>7, <1>8, <1>9, <1>10, <1>11, <1>12, <1>13, <1>14, <1>15, <1>16, <1>17,
     <1>18 DEF Next
-----------------------------------------------------------------------------
(* The invariant.                                                          *)

LEMMA InitIsIInv ==
  ASSUME HomingAssumption, Init
  PROVE  IInv
<1>1. TypeOK
  <2>1. HomingRetries \in Nat /\ TriggerRetries \in Nat /\ SampleCount \in Nat /\ MaxCommands \in Nat
    BY DEF HomingAssumption
  <2>2. CountTypeOK BY <2>1 DEF Init, CountTypeOK
  <2>3. PlaceTypeOK BY DEF Init, PlaceTypeOK
  <2>4. DeviceTypeOK BY DEF Init, DeviceTypeOK
  <2> QED BY <2>2, <2>3, <2>4 DEF TypeOK
<1>2. PlaceIsRight BY DEF Init, PlaceIsRight, HomingXY, HomingZ
<1>3. CountIsRight BY DEF Init, CountIsRight
<1>4. BegunIsRight BY DEF Init, BegunIsRight, HomingZ
<1>5. PinIsRight BY DEF Init, PinIsRight, Begun
<1>6. TargetIsKept /\ OneIsMarked BY DEF Init, TargetIsKept, OneIsMarked
<1>7. ModeIsRight BY DEF Init, ModeIsRight
<1> QED BY <1>1, <1>2, <1>3, <1>4, <1>5, <1>6, <1>7 DEF IInv

LEMMA NextKeepsIInv ==
  ASSUME HomingAssumption, IInv, [Next]_vars
  PROVE  IInv'
BY CountStep, PlaceTypeOKStep, DeviceTypeOKStep, PlaceIsRightStep, BegunIsRightStep, PinIsRightStep,
   TargetIsKeptStep, OneIsMarkedStep, ModeIsRightStep DEF IInv, TypeOK

\* Whatever homing and probing do, and however they fail, the invariant of
\* homing.py, corexy.py and probe.py holds, for any limits on the retries.
THEOREM HomingInvariant ==
  ASSUME HomingAssumption
  PROVE  Spec => []IInv
<1>1. Init => IInv BY InitIsIInv
<1>2. IInv /\ [Next]_vars => IInv' BY NextKeepsIInv
<1> QED BY <1>1, <1>2, PTL DEF Spec

LEMMA IInvSuffices ==
  ASSUME IInv
  PROVE  LoweredForEveryProbe /\ NothingLeftBegun /\ HeatersRestored /\ HomedIsLocated /\ DrivesWork
<1> USE DEF IInv, TypeOK
<1>1. LoweredForEveryProbe
  BY DEF LoweredForEveryProbe, PinIsRight, DeviceTypeOK, WithProbe
<1>2. NothingLeftBegun
  BY DEF NothingLeftBegun, PinIsRight, BegunIsRight, PlaceIsRight, DeviceTypeOK, Begun, WithProbe, Callers
<1>3. HeatersRestored
  BY DEF HeatersRestored, TargetIsKept, PlaceIsRight
<1>4. HomedIsLocated
  BY DEF HomedIsLocated, OneIsMarked, PlaceIsRight
<1>5. DrivesWork
  BY DEF DrivesWork, ModeIsRight, HomingXY
<1> QED BY <1>1, <1>2, <1>3, <1>4, <1>5

\* No command leaves anything begun, in error or not: no probe session, no
\* lowered probe, no heater without its target, no axis that counts as homed
\* and is not, no drive in homing mode under an axis that counts as homed.
THEOREM NothingIsLeft ==
  ASSUME HomingAssumption
  PROVE  Spec => [](/\ LoweredForEveryProbe /\ NothingLeftBegun /\ HeatersRestored
                    /\ HomedIsLocated /\ DrivesWork)
BY HomingInvariant, IInvSuffices, PTL
-----------------------------------------------------------------------------
(* The dispatch of triggers. An instance keeps the names of its module     *)
(* apart: TD!Init and TD!Next are those of TriggerDispatch.                *)

LEMMA MinIsLeast ==
  ASSUME NEW S \in SUBSET Nat, S # {}
  PROVE  TD!Min(S) \in S /\ \A y \in S : TD!Min(S) <= y
<1> DEFINE Less == OpToRel(<, Nat)
<1>1. Less = {ss \in Nat \X Nat : ss[1] < ss[2]}
  BY Zenon DEF OpToRel
<1>2. IsWellFoundedOn(Less, Nat)
  BY NatLessThanWellFounded, Zenon
<1> HIDE DEF Less
<1>3. PICK x \in S : \A y \in S : <<y, x>> \notin Less
  BY <1>2, WFMin
<1>4. \A y \in S : x <= y
  <2> SUFFICES ASSUME NEW y \in S, ~(x <= y)
               PROVE  FALSE
    OBVIOUS
  <2>1. y \in Nat /\ x \in Nat /\ y < x
    OBVIOUS
  <2>2. <<y, x>> \in Nat \X Nat /\ <<y, x>>[1] = y /\ <<y, x>>[2] = x
    BY <2>1
  <2>3. <<y, x>> \in {ss \in Nat \X Nat : ss[1] < ss[2]}
    BY <2>1, <2>2
  <2> QED
    BY <1>1, <1>3, <2>3
<1> QED
  BY <1>4 DEF TD!Min

LEMMA MaxIsGreatest ==
  ASSUME NEW a \in Nat, NEW b \in Nat
  PROVE  TD!Max({a, b}) \in {a, b} /\ a <= TD!Max({a, b}) /\ b <= TD!Max({a, b})
<1>1. \E x \in {a, b} : \A y \in {a, b} : x >= y
  OBVIOUS
<1> QED
  BY <1>1 DEF TD!Max

\* A message is added at the end of a queue.
LEMMA QueueGrows ==
  ASSUME NEW S, NEW s \in Seq(S), NEW e \in S
  PROVE  LET t == Append(s, e)
         IN  /\ t \in Seq(S) /\ t # <<>> /\ s \o <<e>> = t
             /\ s # <<>> => Head(t) = Head(s)
             /\ s = <<>> => Head(t) = e
             /\ \A i \in DOMAIN t : \/ i \in DOMAIN s /\ t[i] = s[i]
                                    \/ i = Len(s) + 1 /\ t[i] = e
             /\ \A i \in DOMAIN s : i \in DOMAIN t /\ t[i] = s[i]
             /\ Len(s) + 1 \in DOMAIN t /\ t[Len(s) + 1] = e
OBVIOUS

\* The first message is taken from a queue.
LEMMA QueueShrinks ==
  ASSUME NEW S, NEW s \in Seq(S), s # <<>>
  PROVE  LET t == Tail(s)
         IN  /\ t \in Seq(S) /\ Head(s) \in S
             /\ 1 \in DOMAIN s /\ Head(s) = s[1]
             /\ \A i \in DOMAIN t : i + 1 \in DOMAIN s /\ i + 1 # 1 /\ t[i] = s[i + 1]
             /\ \A i \in DOMAIN s : i = 1 \/ (i - 1 \in DOMAIN t /\ t[i - 1] = s[i])
OBVIOUS

LEMMA ElementsAre ==
  ASSUME NEW S, NEW s \in Seq(S)
  PROVE  \A i \in DOMAIN s : s[i] \in S
OBVIOUS

-----------------------------------------------------------------------------
LEMMA DispatchConstants ==
  ASSUME TD!DispatchAssumption
  PROVE  /\ Main \in TD!MCUs /\ {ExpireTicks, MinExtend, MoveTime, Horizon, MaxReports, TD!Never} \subseteq Nat
         /\ Horizon + ExpireTicks < TD!Never /\ Horizon < TD!Never /\ 0 < ExpireTicks
         /\ TD!Never \in TD!Instants /\ 0 .. Horizon \subseteq TD!Instants
              /\ 0 .. Horizon + ExpireTicks \subseteq TD!Instants
         /\ \A t \in TD!Instants : t \in Nat /\ t <= TD!Never
BY DEF TD!DispatchAssumption, TD!MCUs, TD!Never, TD!Instants


LEMMA NowType ==
  ASSUME TD!DispatchAssumption, TD!TypeOK
  PROVE  now \in Nat /\ now <= Horizon /\ now < TD!Never
BY DispatchConstants DEF TD!TypeOK, TD!FirmwareTypeOK

\* What is known of each MCU.
LEMMA McuTypes ==
  ASSUME TD!DispatchAssumption, TD!TypeOK, NEW m \in TD!MCUs
  PROVE  /\ mcu[m] \in [begin : TD!Instants, can : BOOLEAN, reason : TD!None .. TD!CommsTimeout,
                        expire : TD!Instants, stopped : TD!Instants, endstop : BOOLEAN]
         /\ mcu[m].begin \in Nat /\ mcu[m].expire \in Nat /\ mcu[m].stopped \in Nat /\ TD!Last(m) \in Nat
         /\ mcu[m].reason \in 0 .. 4 /\ mcu[m].stopped <= TD!Never /\ mcu[m].begin <= TD!Never
<1>1. mcu[m] \in [begin : TD!Instants, can : BOOLEAN, reason : TD!None .. TD!CommsTimeout,
                  expire : TD!Instants, stopped : TD!Instants, endstop : BOOLEAN]
  BY DEF TD!TypeOK, TD!FirmwareTypeOK
<1>2. /\ mcu[m].begin \in Nat /\ mcu[m].expire \in Nat /\ mcu[m].stopped \in Nat
      /\ mcu[m].reason \in 0 .. 4 /\ mcu[m].stopped <= TD!Never /\ mcu[m].begin <= TD!Never
  BY <1>1, DispatchConstants DEF TD!None, TD!CommsTimeout
<1>3. TD!Last(m) \in Nat
  BY <1>2, NowType DEF TD!Last
<1> QED
  BY <1>1, <1>2, <1>3

LEMMA QueueTypes ==
  ASSUME TD!DispatchAssumption, TD!TypeOK, NEW m \in TD!MCUs
  PROVE  /\ toMcu[m] \in Seq(TD!Commands) /\ toHost[m] \in Seq(TD!Reports) /\ waiting[m] \in Seq(TD!Reports)
         /\ \A i \in DOMAIN toMcu[m] : toMcu[m][i] \in TD!Commands /\ toMcu[m][i].arg \in Nat
         /\ \A i \in DOMAIN toHost[m] : toHost[m][i] \in TD!Reports /\ toHost[m][i].clock \in Nat
         /\ \A i \in DOMAIN waiting[m] : waiting[m][i] \in TD!Reports /\ waiting[m][i].clock \in Nat
         /\ tdm[m].status \in Nat /\ tdm[m].expire \in Nat
<1>1. toMcu[m] \in Seq(TD!Commands) /\ toHost[m] \in Seq(TD!Reports) /\ waiting[m] \in Seq(TD!Reports)
  BY DEF TD!TypeOK, TD!MessagesTypeOK
<1>2. (\A c \in TD!Commands : c.arg \in Nat) /\ (\A r \in TD!Reports : r.clock \in Nat)
  BY DispatchConstants DEF TD!Commands, TD!Reports
<1>3. tdm[m].status \in Nat /\ tdm[m].expire \in Nat
  BY DispatchConstants DEF TD!TypeOK, TD!HostTypeOK
<1> QED
  BY <1>1, <1>2, <1>3, ElementsAre

-----------------------------------------------------------------------------
(* Steps in which time stands still and no trsync changes: of the homing   *)
(* greenlet and of the dispatcher.                                         *)

\* A command that such a step may send.
MaySend(m, c) ==
  /\ c.op = "set_timeout" => /\ c.arg <= Horizon + ExpireTicks
                             /\ \A a \in TD!MCUs \ {m} : c.arg <= TD!Last(a) + ExpireTicks
  /\ c.op = "trigger" => \/ c.arg = TD!HostRequest /\ (TD!MainStopped \/ TD!TimedOut)
                         \/ c.arg = TD!PastEndTime /\ m = Main /\ MoveTime <= now
  /\ c.op = "start" => host.pc = "setup"
  /\ c.op = "endstop_home" => host.pc # "setup" \/ host.started = TD!MCUs

LEMMA HostStep ==
  ASSUME TD!DispatchAssumption, TD!IInv, UNCHANGED <<now, mcu>>,
         host.pc # "setup" => host'.pc # "setup",
         \A m \in TD!MCUs : \A i \in DOMAIN toMcu'[m] :
           \/ i \in DOMAIN toMcu[m] /\ toMcu'[m][i] = toMcu[m][i]
           \/ MaySend(m, toMcu'[m][i]) /\ (toMcu'[m][i].op = "endstop_home" => host'.pc # "setup")
  PROVE  /\ TD!StopsOnce' /\ TD!CommandsAreRight' /\ TD!MainStopsFirst' /\ TD!TimesAreBacked'
              /\ TD!HitsAreArmed' /\ TD!MissesAreLate'
<1>1. /\ \A m \in TD!MCUs : TD!Last(m)' = TD!Last(m)
      /\ TD!TimedOut' = TD!TimedOut /\ TD!MainStopped' = TD!MainStopped
  BY DEF TD!Last, TD!TimedOut, TD!MainStopped
<1>2. TD!StopsOnce' /\ TD!MissesAreLate'
  BY <1>1 DEF TD!IInv, TD!StopsOnce, TD!MissesAreLate
<1>3. TD!MainStopsFirst'
  BY <1>1 DEF TD!IInv, TD!MainStopsFirst
<1>4. TD!TimesAreBacked'
  BY <1>1 DEF TD!IInv, TD!TimesAreBacked, TD!Backed
<1>5. TD!CommandsAreRight'
  BY <1>1 DEF TD!IInv, TD!CommandsAreRight, MaySend
<1>6. TD!HitsAreArmed'
  BY <1>1 DEF TD!IInv, TD!HitsAreArmed, MaySend
<1> QED
  BY <1>2, <1>3, <1>4, <1>5, <1>6

LEMMA StartTrsyncKeeps ==
  ASSUME TD!DispatchAssumption, TD!IInv, NEW m \in TD!MCUs, TD!StartTrsync(m)
  PROVE  TD!IInv'
<1> DEFINE c == TD!Command("start", now)
<1>1. /\ host.pc = "setup" /\ m \notin host.started
      /\ host' = [host EXCEPT !.started = @ \cup {m}]
      /\ tdm' = [tdm EXCEPT ![m] = [status |-> now, expire |-> now + ExpireTicks]]
      /\ toMcu' = [toMcu EXCEPT ![m] = Append(@, c)]
      /\ UNCHANGED <<now, mcu, toHost, td, waiting, result>>
  BY DEF TD!StartTrsync
<1>2. mcu[m] = TD!Idle /\ toMcu[m] = <<>> /\ toHost[m] = <<>> /\ waiting[m] = <<>>
  BY <1>1 DEF TD!IInv, TD!StartsFirst
<1>3. now \in Nat /\ now <= Horizon /\ c \in TD!Commands /\ c.op = "start" /\ c.arg = now
  BY NowType DEF TD!IInv, TD!Command, TD!Commands
<1>4. toMcu[m] \in Seq(TD!Commands)
  BY QueueTypes DEF TD!IInv
<1>5. /\ toMcu'[m] \in Seq(TD!Commands) /\ toMcu'[m] # <<>> /\ Head(toMcu'[m]) = c
      /\ \A i \in DOMAIN toMcu'[m] : i = 1 /\ toMcu'[m][i] = c
      /\ \A o \in TD!MCUs \ {m} : toMcu'[o] = toMcu[o]
  BY <1>1, <1>2, <1>3, <1>4, QueueGrows DEF TD!IInv, TD!TypeOK, TD!MessagesTypeOK
<1>6. /\ host'.pc = "setup" /\ host'.started = host.started \cup {m} /\ host'.completion = host.completion
      /\ host' \in [pc : {"setup", "moving", "wait", "stop", "done"}, started : SUBSET TD!MCUs,
                    completion : {"none", "ok", "failure"}, homeEnd : BOOLEAN]
  BY <1>1 DEF TD!IInv, TD!TypeOK, TD!HostTypeOK
<1>7. TD!TypeOK'
  <2>1. TD!MessagesTypeOK'
    BY <1>1, <1>5 DEF TD!IInv, TD!TypeOK, TD!MessagesTypeOK
  <2>2. tdm' \in [TD!MCUs -> [status : 0 .. Horizon, expire : 0 .. Horizon + ExpireTicks]]
    BY <1>1, <1>3, DispatchConstants DEF TD!IInv, TD!TypeOK, TD!HostTypeOK
  <2>3. TD!FirmwareTypeOK'
    BY <1>1 DEF TD!IInv, TD!TypeOK, TD!FirmwareTypeOK
  <2> QED
    BY <1>1, <1>6, <2>1, <2>2, <2>3 DEF TD!IInv, TD!TypeOK, TD!HostTypeOK
<1>8. TD!StopsOnce' /\ TD!CommandsAreRight' /\ TD!MainStopsFirst' /\ TD!TimesAreBacked' /\ TD!HitsAreArmed'
        /\ TD!MissesAreLate'
  <2>1. MaySend(m, c)
    BY <1>1, <1>3 DEF MaySend
  <2> QED
    BY <1>1, <1>3, <1>5, <1>6, <2>1, HostStep
<1>9. TD!StartsFirst'
  <2>1. host'.pc # "setup" \/ td'.active => host'.started = TD!MCUs
    BY <1>1, <1>6 DEF TD!IInv, TD!StartsFirst
  <2>2. \A o \in TD!MCUs \ host'.started : mcu'[o] = TD!Idle /\ toMcu'[o] = <<>> /\ toHost'[o] = <<>>
                                             /\ waiting'[o] = <<>>
    BY <1>1, <1>5, <1>6 DEF TD!IInv, TD!StartsFirst
  <2>3. \A o \in host'.started :
          \/ mcu'[o].can \/ mcu'[o].reason # TD!None
          \/ toMcu'[o] # <<>> /\ Head(toMcu'[o]).op = "start"
    BY <1>1, <1>3, <1>5, <1>6 DEF TD!IInv, TD!StartsFirst, TD!TypeOK, TD!HostTypeOK
  <2>4. \A o \in TD!MCUs : \A i \in DOMAIN toMcu'[o] :
          toMcu'[o][i].op = "start" => i = 1 /\ mcu'[o] = TD!Idle /\ toMcu'[o][i].arg <= now'
    BY <1>1, <1>2, <1>3, <1>5 DEF TD!IInv, TD!StartsFirst
  <2> QED
    BY <2>1, <2>2, <2>3, <2>4 DEF TD!StartsFirst
<1>10. TD!ReportsAreRight'
  <2>1. \A o \in TD!MCUs : TD!Last(o)' = TD!Last(o)
    BY <1>1 DEF TD!Last
  <2>2. TD!Last(m) = now
    BY <1>2 DEF TD!Last, TD!Idle
  <2>3. \A o \in TD!MCUs : tdm'[o].status <= TD!Last(o)
    BY <1>1, <1>3, <2>2 DEF TD!IInv, TD!ReportsAreRight, TD!TypeOK, TD!HostTypeOK
  <2> QED
    BY <1>1, <1>6, <2>1, <2>3 DEF TD!IInv, TD!ReportsAreRight, TD!ReportIsRight, TD!TimedOut, TD!MainStopped
<1>11. TD!ResultsAreTrue'
  BY <1>1, <1>6 DEF TD!IInv, TD!ResultsAreTrue
<1> QED
  BY <1>7, <1>8, <1>9, <1>10, <1>11 DEF TD!IInv

\* What does not depend on what the host sends.
LEMMA SendingKeeps ==
  ASSUME TD!DispatchAssumption, TD!IInv, UNCHANGED <<now, mcu, toHost>>,
         host'.started = host.started /\ (host.pc # "setup" => host'.pc # "setup"),
         host'.pc # "setup" \/ td'.active => host.started = TD!MCUs,
         toMcu' \in [TD!MCUs -> Seq(TD!Commands)],
         \A m \in TD!MCUs :
           /\ m \notin host.started => toMcu'[m] = toMcu[m] /\ waiting'[m] = waiting[m]
           /\ toMcu[m] # <<>> => toMcu'[m] # <<>> /\ Head(toMcu'[m]) = Head(toMcu[m])
           /\ \A i \in DOMAIN toMcu'[m] :
                \/ i \in DOMAIN toMcu[m] /\ toMcu'[m][i] = toMcu[m][i]
                \/ toMcu'[m][i].op # "start"
  PROVE  TD!StartsFirst'
<1>1. \A m \in TD!MCUs \ host'.started : mcu'[m] = TD!Idle /\ toMcu'[m] = <<>> /\ toHost'[m] = <<>>
                                           /\ waiting'[m] = <<>>
  BY DEF TD!IInv, TD!StartsFirst
<1>2. \A m \in host'.started :
         \/ mcu'[m].can \/ mcu'[m].reason # TD!None
         \/ toMcu'[m] # <<>> /\ Head(toMcu'[m]).op = "start"
  BY DEF TD!IInv, TD!StartsFirst, TD!TypeOK, TD!HostTypeOK
<1>3. \A m \in TD!MCUs : \A i \in DOMAIN toMcu'[m] :
         toMcu'[m][i].op = "start" => i = 1 /\ mcu'[m] = TD!Idle /\ toMcu'[m][i].arg <= now'
  BY DEF TD!IInv, TD!StartsFirst
<1> QED
  BY <1>1, <1>2, <1>3 DEF TD!StartsFirst

LEMMA StartDispatchKeeps ==
  ASSUME TD!DispatchAssumption, TD!IInv, TD!StartDispatch
  PROVE  TD!IInv'
<1> DEFINE c == TD!Command("endstop_home", 1)
<1>1. /\ host.pc = "setup" /\ host.started = TD!MCUs
      /\ td' = [active |-> TRUE, can |-> TRUE]
      /\ host' = [host EXCEPT !.pc = "moving"]
      /\ toMcu' = [toMcu EXCEPT ![Main] = Append(@, c)]
      /\ UNCHANGED <<now, mcu, toHost, tdm, waiting, result>>
  BY DEF TD!StartDispatch
<1>2. c \in TD!Commands /\ c.op = "endstop_home" /\ Main \in TD!MCUs
  BY DispatchConstants DEF TD!Command, TD!Commands
<1>3. /\ host'.pc = "moving" /\ host'.started = TD!MCUs /\ host'.completion = host.completion
      /\ host' \in [pc : {"setup", "moving", "wait", "stop", "done"}, started : SUBSET TD!MCUs,
                    completion : {"none", "ok", "failure"}, homeEnd : BOOLEAN]
  BY <1>1 DEF TD!IInv, TD!TypeOK, TD!HostTypeOK
<1>4. \A m \in TD!MCUs :
        /\ toMcu'[m] \in Seq(TD!Commands)
        /\ toMcu[m] # <<>> => toMcu'[m] # <<>> /\ Head(toMcu'[m]) = Head(toMcu[m])
        /\ \A i \in DOMAIN toMcu'[m] : \/ i \in DOMAIN toMcu[m] /\ toMcu'[m][i] = toMcu[m][i]
                                       \/ toMcu'[m][i] = c
  <2>1. toMcu[Main] \in Seq(TD!Commands)
    BY <1>2, QueueTypes DEF TD!IInv
  <2> QED
    BY <1>1, <1>2, <2>1, QueueGrows, QueueTypes DEF TD!IInv, TD!TypeOK, TD!MessagesTypeOK
<1>5. TD!TypeOK'
  <2>1. TD!MessagesTypeOK' /\ TD!FirmwareTypeOK'
    BY <1>1, <1>4 DEF TD!IInv, TD!TypeOK, TD!MessagesTypeOK, TD!FirmwareTypeOK
  <2> QED
    BY <1>1, <1>3, <2>1 DEF TD!IInv, TD!TypeOK, TD!HostTypeOK
<1>6. TD!StopsOnce' /\ TD!CommandsAreRight' /\ TD!MainStopsFirst' /\ TD!TimesAreBacked' /\ TD!HitsAreArmed'
        /\ TD!MissesAreLate'
  <2>1. \A m \in TD!MCUs : MaySend(m, c)
    BY <1>1, <1>2 DEF MaySend
  <2> QED
    BY <1>1, <1>2, <1>3, <1>4, <2>1, HostStep
<1>7. TD!StartsFirst'
  BY <1>1, <1>2, <1>3, <1>4, <1>5, SendingKeeps DEF TD!TypeOK, TD!MessagesTypeOK
<1>8. TD!ReportsAreRight'
  BY <1>1, <1>3 DEF TD!IInv, TD!ReportsAreRight, TD!ReportIsRight, TD!Last, TD!TimedOut, TD!MainStopped
<1>9. TD!ResultsAreTrue'
  BY <1>1, <1>3 DEF TD!IInv, TD!ResultsAreTrue
<1> QED
  BY <1>5, <1>6, <1>7, <1>8, <1>9 DEF TD!IInv

LEMMA EndOfMoveKeeps ==
  ASSUME TD!DispatchAssumption, TD!IInv, TD!EndOfMove
  PROVE  TD!IInv'
<1>1. /\ host.pc = "moving" /\ host' = [host EXCEPT !.pc = "wait", !.homeEnd = TRUE]
      /\ UNCHANGED <<now, mcu, toMcu, toHost, td, tdm, waiting, result>>
  BY DEF TD!EndOfMove
<1>2. /\ host'.pc = "wait" /\ host'.started = host.started /\ host'.completion = host.completion
      /\ host' \in [pc : {"setup", "moving", "wait", "stop", "done"}, started : SUBSET TD!MCUs,
                    completion : {"none", "ok", "failure"}, homeEnd : BOOLEAN]
  BY <1>1 DEF TD!IInv, TD!TypeOK, TD!HostTypeOK
<1>3. TD!TypeOK'
  BY <1>1, <1>2 DEF TD!IInv, TD!TypeOK, TD!HostTypeOK, TD!MessagesTypeOK, TD!FirmwareTypeOK
<1>4. TD!StopsOnce' /\ TD!CommandsAreRight' /\ TD!MainStopsFirst' /\ TD!TimesAreBacked' /\ TD!HitsAreArmed'
        /\ TD!MissesAreLate'
  BY <1>1, <1>2, HostStep
<1>5. TD!StartsFirst'
  BY <1>1, <1>2 DEF TD!IInv, TD!StartsFirst
<1>6. TD!ReportsAreRight'
  BY <1>1, <1>2 DEF TD!IInv, TD!ReportsAreRight, TD!ReportIsRight, TD!Last, TD!TimedOut, TD!MainStopped
<1>7. TD!ResultsAreTrue'
  BY <1>1, <1>2 DEF TD!IInv, TD!ResultsAreTrue
<1> QED
  BY <1>3, <1>4, <1>5, <1>6, <1>7 DEF TD!IInv

LEMMA StopDispatchKeeps ==
  ASSUME TD!DispatchAssumption, TD!IInv, TD!StopDispatch
  PROVE  TD!IInv'
<1> DEFINE disarm == TD!Command("endstop_home", 0)
           stop == TD!Command("trigger", TD!HostRequest)
           before(m) == IF m = Main THEN Append(toMcu[m], disarm) ELSE toMcu[m]
<1>1. /\ host.pc = "wait" /\ host.completion # "none"
      /\ td' = [td EXCEPT !.active = FALSE]
      /\ host' = [host EXCEPT !.pc = "stop", !.homeEnd = FALSE]
      /\ toMcu' = [m \in TD!MCUs |-> before(m) \o <<stop>>]
      /\ UNCHANGED <<now, mcu, toHost, tdm, waiting, result>>
  BY DEF TD!StopDispatch
<1>2. /\ disarm \in TD!Commands /\ disarm.op = "endstop_home"
      /\ stop \in TD!Commands /\ stop.op = "trigger" /\ stop.arg = TD!HostRequest
  BY DEF TD!Command, TD!Commands, TD!HostRequest
<1>3. /\ host'.pc = "stop" /\ host'.started = host.started /\ host.started = TD!MCUs
      /\ host'.completion = host.completion
      /\ host' \in [pc : {"setup", "moving", "wait", "stop", "done"}, started : SUBSET TD!MCUs,
                    completion : {"none", "ok", "failure"}, homeEnd : BOOLEAN]
  BY <1>1 DEF TD!IInv, TD!TypeOK, TD!HostTypeOK, TD!StartsFirst
<1>4. ASSUME NEW m \in TD!MCUs
      PROVE  /\ toMcu'[m] \in Seq(TD!Commands)
             /\ toMcu[m] # <<>> => toMcu'[m] # <<>> /\ Head(toMcu'[m]) = Head(toMcu[m])
             /\ \A i \in DOMAIN toMcu'[m] : \/ i \in DOMAIN toMcu[m] /\ toMcu'[m][i] = toMcu[m][i]
                                            \/ toMcu'[m][i] \in {disarm, stop}
             /\ \E i \in DOMAIN toMcu'[m] : toMcu'[m][i].op = "trigger"
  <2>1. toMcu[m] \in Seq(TD!Commands)
    BY QueueTypes DEF TD!IInv
  <2>2. /\ before(m) \in Seq(TD!Commands)
        /\ toMcu[m] # <<>> => before(m) # <<>> /\ Head(before(m)) = Head(toMcu[m])
        /\ \A i \in DOMAIN before(m) : \/ i \in DOMAIN toMcu[m] /\ before(m)[i] = toMcu[m][i]
                                       \/ before(m)[i] = disarm
    BY <1>2, <2>1, QueueGrows
  <2>3. toMcu'[m] = Append(before(m), stop)
    BY <1>1, <1>2, <2>2, QueueGrows
  <2> HIDE DEF before, stop, disarm
  <2>4. LET t == Append(before(m), stop)
        IN  /\ t \in Seq(TD!Commands) /\ t # <<>>
            /\ before(m) # <<>> => Head(t) = Head(before(m))
            /\ \A i \in DOMAIN t : \/ i \in DOMAIN before(m) /\ t[i] = before(m)[i]
                                   \/ i = Len(before(m)) + 1 /\ t[i] = stop
            /\ Len(before(m)) + 1 \in DOMAIN t /\ t[Len(before(m)) + 1] = stop
    BY <1>2, <2>2, QueueGrows
  <2> QED
    BY <1>2, <2>2, <2>3, <2>4
<1> HIDE DEF before, stop, disarm
<1>5. TD!TypeOK'
  <2>1. toMcu' \in [TD!MCUs -> Seq(TD!Commands)]
    BY <1>1, <1>4
  <2>2. TD!MessagesTypeOK' /\ TD!FirmwareTypeOK'
    BY <1>1, <2>1 DEF TD!IInv, TD!TypeOK, TD!MessagesTypeOK, TD!FirmwareTypeOK
  <2> QED
    BY <1>1, <1>3, <2>2 DEF TD!IInv, TD!TypeOK, TD!HostTypeOK
<1>6. TD!StopsOnce' /\ TD!CommandsAreRight' /\ TD!MainStopsFirst' /\ TD!TimesAreBacked' /\ TD!HitsAreArmed'
        /\ TD!MissesAreLate'
  <2>1. TD!MainStopped \/ TD!TimedOut
    BY <1>1 DEF TD!IInv, TD!ReportsAreRight
  <2>2. \A m \in TD!MCUs : MaySend(m, stop) /\ MaySend(m, disarm)
    BY <1>2, <1>3, <2>1 DEF MaySend
  <2>3. \A m \in TD!MCUs : \A i \in DOMAIN toMcu'[m] :
          \/ i \in DOMAIN toMcu[m] /\ toMcu'[m][i] = toMcu[m][i]
          \/ MaySend(m, toMcu'[m][i]) /\ (toMcu'[m][i].op = "endstop_home" => host'.pc # "setup")
    BY <1>3, <1>4, <2>2
  <2> QED
    BY <1>1, <1>3, <2>3, HostStep
<1>7. TD!StartsFirst'
  <2>1. \A m \in TD!MCUs : \A i \in DOMAIN toMcu'[m] :
          \/ i \in DOMAIN toMcu[m] /\ toMcu'[m][i] = toMcu[m][i]
          \/ toMcu'[m][i].op # "start"
    BY <1>2, <1>4
  <2>2. toMcu' \in [TD!MCUs -> Seq(TD!Commands)]
    BY <1>1, <1>4
  <2> QED
    BY <1>1, <1>3, <1>4, <2>1, <2>2, SendingKeeps
<1>8. TD!ReportsAreRight'
  BY <1>1, <1>3 DEF TD!IInv, TD!ReportsAreRight, TD!ReportIsRight, TD!Last, TD!TimedOut, TD!MainStopped
<1>9. TD!ResultsAreTrue'
  BY <1>1, <1>3, <1>4 DEF TD!IInv, TD!ResultsAreTrue
<1> QED
  BY <1>5, <1>6, <1>7, <1>8, <1>9 DEF TD!IInv

LEMMA StopTrsyncKeeps ==
  ASSUME TD!DispatchAssumption, TD!IInv, NEW m \in TD!MCUs, TD!StopTrsync(m)
  PROVE  TD!IInv'
<1>1. /\ host.pc = "stop" /\ result[m] = TD!None /\ toMcu[m] = <<>>
      /\ result' = [result EXCEPT ![m] = mcu[m].reason]
      /\ host' = IF \A o \in TD!MCUs : result'[o] # TD!None THEN [host EXCEPT !.pc = "done"] ELSE host
      /\ UNCHANGED <<now, mcu, toMcu, toHost, td, tdm, waiting>>
  BY DEF TD!StopTrsync
<1>2. /\ host'.pc \in {"stop", "done"} /\ host'.started = host.started /\ host'.completion = host.completion
      /\ host' \in [pc : {"setup", "moving", "wait", "stop", "done"}, started : SUBSET TD!MCUs,
                    completion : {"none", "ok", "failure"}, homeEnd : BOOLEAN]
      /\ host'.pc = "done" => \A o \in TD!MCUs : result'[o] # TD!None
  BY <1>1 DEF TD!IInv, TD!TypeOK, TD!HostTypeOK
<1>3. mcu[m].reason \in TD!None .. TD!CommsTimeout
  BY McuTypes DEF TD!IInv, TD!None, TD!CommsTimeout
<1>4. TD!TypeOK'
  BY <1>1, <1>2, <1>3 DEF TD!IInv, TD!TypeOK, TD!HostTypeOK, TD!MessagesTypeOK, TD!FirmwareTypeOK
<1>5. TD!StopsOnce' /\ TD!CommandsAreRight' /\ TD!MainStopsFirst' /\ TD!TimesAreBacked' /\ TD!HitsAreArmed'
        /\ TD!MissesAreLate'
  BY <1>1, <1>2, HostStep
<1>6. TD!StartsFirst'
  BY <1>1, <1>2 DEF TD!IInv, TD!StartsFirst
<1>7. TD!ReportsAreRight'
  BY <1>1, <1>2 DEF TD!IInv, TD!ReportsAreRight, TD!ReportIsRight, TD!Last, TD!TimedOut, TD!MainStopped
<1>8. TD!ResultsAreTrue'
  BY <1>1, <1>2 DEF TD!IInv, TD!ResultsAreTrue, TD!TypeOK, TD!HostTypeOK
<1> QED
  BY <1>4, <1>5, <1>6, <1>7, <1>8 DEF TD!IInv

\* What a report says of its MCU.
LEMMA ReportTells ==
  ASSUME TD!DispatchAssumption, TD!IInv, NEW m \in TD!MCUs, NEW msg, TD!ReportIsRight(m, msg)
  PROVE  /\ msg.can \/ TD!MainStopped \/ TD!TimedOut
         /\ TD!Last(m) <= now
<1>1. TD!Last(m) <= now
  BY NowType, McuTypes DEF TD!IInv, TD!StopsOnce, TD!Last
<1>2. ASSUME mcu[m].stopped # TD!Never
      PROVE  TD!MainStopped \/ TD!TimedOut
  <2>1. mcu[m].stopped < TD!Never
    BY <1>2, NowType, McuTypes, DispatchConstants DEF TD!IInv, TD!StopsOnce
  <2>2. TD!TimedOut \/ mcu[Main].stopped <= mcu[m].stopped
    BY DEF TD!IInv, TD!MainStopsFirst
  <2> QED
    BY <2>1, <2>2, McuTypes, DispatchConstants DEF TD!IInv, TD!MainStopped
<1> QED
  BY <1>1, <1>2 DEF TD!ReportIsRight

LEMMA HandleTrsyncStateKeeps ==
  ASSUME TD!DispatchAssumption, TD!IInv, NEW m \in TD!MCUs, TD!HandleTrsyncState(m)
  PROVE  TD!IInv'
<1> DEFINE msg == Head(waiting[m])
           late == TD!IsLate(m, msg)
           c == TD!Command("trigger", TD!PastEndTime)
<1>1. /\ waiting[m] # <<>>
      /\ waiting' = [waiting EXCEPT ![m] = Tail(@)]
      /\ host' = [host EXCEPT !.homeEnd = @ /\ ~late,
              !.completion = IF msg.can \/ @ # "none" THEN @
                             ELSE IF msg.reason >= TD!CommsTimeout THEN "failure" ELSE "ok"]
      /\ toMcu' = IF late THEN [toMcu EXCEPT ![m] = Append(@, c)] ELSE toMcu
      /\ UNCHANGED <<now, mcu, toHost, td, tdm, result>>
  BY DEF TD!HandleTrsyncState
<1>2. /\ waiting[m] \in Seq(TD!Reports) /\ waiting'[m] \in Seq(TD!Reports)
      /\ msg \in TD!Reports /\ msg.clock \in Nat /\ TD!ReportIsRight(m, msg)
      /\ \A i \in DOMAIN waiting'[m] : TD!ReportIsRight(m, waiting'[m][i])
      /\ \A o \in TD!MCUs \ {m} : waiting'[o] = waiting[o]
  <2>1. waiting[m] \in Seq(TD!Reports) /\ \A i \in DOMAIN waiting[m] : waiting[m][i].clock \in Nat
    BY QueueTypes DEF TD!IInv
  <2>2. waiting'[m] = Tail(waiting[m]) /\ \A o \in TD!MCUs \ {m} : waiting'[o] = waiting[o]
    BY <1>1 DEF TD!IInv, TD!TypeOK, TD!MessagesTypeOK
  <2> QED
    BY <1>1, <2>1, <2>2, QueueShrinks DEF TD!IInv, TD!ReportsAreRight
<1>3. c \in TD!Commands /\ c.op = "trigger" /\ c.arg = TD!PastEndTime
  BY DEF TD!Command, TD!Commands, TD!PastEndTime
<1>4. /\ host'.pc = host.pc /\ host'.started = host.started
      /\ host'.completion # "none" => host.completion # "none" \/ ~msg.can
      /\ host' \in [pc : {"setup", "moving", "wait", "stop", "done"}, started : SUBSET TD!MCUs,
                    completion : {"none", "ok", "failure"}, homeEnd : BOOLEAN]
  <2> HIDE DEF msg, late
  <2> QED
    BY <1>1 DEF TD!IInv, TD!TypeOK, TD!HostTypeOK
<1>5. \A o \in TD!MCUs :
        /\ toMcu'[o] \in Seq(TD!Commands)
        /\ o # m => toMcu'[o] = toMcu[o]
        /\ toMcu[o] # <<>> => toMcu'[o] # <<>> /\ Head(toMcu'[o]) = Head(toMcu[o])
        /\ \A i \in DOMAIN toMcu[o] : i \in DOMAIN toMcu'[o] /\ toMcu'[o][i] = toMcu[o][i]
        /\ \A i \in DOMAIN toMcu'[o] : \/ i \in DOMAIN toMcu[o] /\ toMcu'[o][i] = toMcu[o][i]
                                       \/ late /\ o = m /\ toMcu'[o][i] = c
  <2> HIDE DEF late, c
  <2>1. \A o \in TD!MCUs : toMcu[o] \in Seq(TD!Commands)
    BY QueueTypes DEF TD!IInv
  <2>2. CASE ~late
    BY <1>1, <2>1, <2>2
  <2>3. CASE late
    <3>1. toMcu'[m] = Append(toMcu[m], c) /\ \A o \in TD!MCUs \ {m} : toMcu'[o] = toMcu[o]
      BY <1>1, <2>3 DEF TD!IInv, TD!TypeOK, TD!MessagesTypeOK
    <3>2. /\ toMcu'[m] \in Seq(TD!Commands)
          /\ toMcu[m] # <<>> => toMcu'[m] # <<>> /\ Head(toMcu'[m]) = Head(toMcu[m])
          /\ \A i \in DOMAIN toMcu[m] : i \in DOMAIN toMcu'[m] /\ toMcu'[m][i] = toMcu[m][i]
          /\ \A i \in DOMAIN toMcu'[m] : \/ i \in DOMAIN toMcu[m] /\ toMcu'[m][i] = toMcu[m][i]
                                         \/ toMcu'[m][i] = c
      BY <1>3, <2>1, <3>1, QueueGrows
    <3> QED
      BY <2>1, <2>3, <3>1, <3>2
  <2> QED
    BY <2>2, <2>3
<1>6. m \in host.started
  BY <1>1 DEF TD!IInv, TD!StartsFirst
<1>7. TD!TypeOK'
  <2>1. toMcu' \in [TD!MCUs -> Seq(TD!Commands)]
    BY <1>1, <1>5 DEF TD!IInv, TD!TypeOK, TD!MessagesTypeOK
  <2>2. waiting' \in [TD!MCUs -> Seq(TD!Reports)]
    BY <1>1, <1>2 DEF TD!IInv, TD!TypeOK, TD!MessagesTypeOK
  <2>3. TD!MessagesTypeOK' /\ TD!FirmwareTypeOK'
    BY <1>1, <2>1, <2>2 DEF TD!IInv, TD!TypeOK, TD!MessagesTypeOK, TD!FirmwareTypeOK
  <2> QED
    BY <1>1, <1>4, <2>3 DEF TD!IInv, TD!TypeOK, TD!HostTypeOK
<1>8. TD!StopsOnce' /\ TD!CommandsAreRight' /\ TD!MainStopsFirst' /\ TD!TimesAreBacked' /\ TD!HitsAreArmed'
        /\ TD!MissesAreLate'
  <2>1. late => m = Main /\ MoveTime <= now
    <3>1. msg.clock <= TD!Last(m) /\ TD!Last(m) <= now
      BY <1>2, ReportTells DEF TD!ReportIsRight
    <3>2. late => m = Main /\ msg.clock >= MoveTime
      BY DEF TD!IsLate
    <3> QED
      BY <1>2, <3>1, <3>2, NowType, McuTypes, DispatchConstants DEF TD!IInv
  <2>2. late => MaySend(m, c)
    BY <1>3, <2>1 DEF MaySend
  <2> HIDE DEF late, c
  <2> QED
    BY <1>1, <1>3, <1>4, <1>5, <2>2, HostStep
<1>9. TD!StartsFirst'
  <2> HIDE DEF late, c
  <2>1. \A o \in TD!MCUs : \A i \in DOMAIN toMcu'[o] :
          \/ i \in DOMAIN toMcu[o] /\ toMcu'[o][i] = toMcu[o][i]
          \/ toMcu'[o][i].op # "start"
    BY <1>3, <1>5
  <2>2. \A o \in TD!MCUs : o \notin host.started => toMcu'[o] = toMcu[o] /\ waiting'[o] = waiting[o]
    BY <1>2, <1>5, <1>6
  <2>3. toMcu' \in [TD!MCUs -> Seq(TD!Commands)]
    BY <1>7 DEF TD!TypeOK, TD!MessagesTypeOK
  <2>4. host'.pc # "setup" \/ td'.active => host.started = TD!MCUs
    BY <1>1, <1>4 DEF TD!IInv, TD!StartsFirst
  <2> QED
    BY <1>1, <1>4, <1>5, <2>1, <2>2, <2>3, <2>4, SendingKeeps
<1>10. TD!ReportsAreRight'
  <2>1. msg.can \/ TD!MainStopped \/ TD!TimedOut
    BY <1>2, ReportTells
  <2>2. \A o \in TD!MCUs : TD!Last(o)' = TD!Last(o) /\ TD!MainStopped' = TD!MainStopped /\ TD!TimedOut' = TD!TimedOut
    BY <1>1 DEF TD!Last, TD!TimedOut, TD!MainStopped
  <2> HIDE DEF msg
  <2> QED
    BY <1>1, <1>2, <1>4, <2>1, <2>2 DEF TD!IInv, TD!ReportsAreRight, TD!ReportIsRight
<1>11. TD!ResultsAreTrue'
  BY <1>1, <1>4, <1>5 DEF TD!IInv, TD!ResultsAreTrue
<1> QED
  BY <1>7, <1>8, <1>9, <1>10, <1>11 DEF TD!IInv

\* The extension of one MCU goes as far as any other has reported.
LEMMA OthersTimeIsBacked ==
  ASSUME TD!DispatchAssumption, NEW status \in [TD!MCUs -> Nat], NEW m \in TD!MCUs
  PROVE  /\ TD!OthersTime(m, status) \in Nat
         /\ \A a \in TD!MCUs \ {m} : TD!OthersTime(m, status) <= status[a]
         /\ \E a \in TD!MCUs : TD!OthersTime(m, status) = status[a]
<1>1. CASE Secondary = {}
  BY <1>1 DEF TD!OthersTime, TD!MCUs
<1>2. CASE Secondary # {}
  <2> DEFINE S == {status[o] : o \in TD!MCUs \ {m}}
  <2>1. S \in SUBSET Nat
    OBVIOUS
  <2>2. \E o \in TD!MCUs : o # m
    BY <1>2 DEF TD!MCUs, TD!DispatchAssumption
  <2>3. S # {}
    BY <2>2
  <2>4. TD!Min(S) \in S /\ \A y \in S : TD!Min(S) <= y
    BY <2>1, <2>3, MinIsLeast
  <2>5. TD!OthersTime(m, status) = TD!Min(S)
    BY <1>2 DEF TD!OthersTime
  <2> QED
    BY <2>1, <2>4, <2>5
<1> QED
  BY <1>1, <1>2

LEMMA FastReadStateKeeps ==
  ASSUME TD!DispatchAssumption, TD!IInv, NEW m \in TD!MCUs, TD!FastReadState(m)
  PROVE  TD!IInv'
<1> DEFINE msg == Head(toHost[m])
           status == [o \in TD!MCUs |-> IF o = m THEN msg.clock ELSE tdm[o].status]
           expire == [o \in TD!MCUs |-> TD!OthersTime(o, status) + ExpireTicks]
           extended == {o \in TD!MCUs : expire[o] >= tdm[o].expire + MinExtend}
           stop == TD!Command("trigger", TD!HostRequest)
           extend(o) == TD!Command("set_timeout", expire[o])
           known == [o \in TD!MCUs |-> [status |-> status[o],
                                        expire |-> IF o \in extended THEN expire[o] ELSE tdm[o].expire]]
<1>1. /\ toHost[m] # <<>>
      /\ toHost' = [toHost EXCEPT ![m] = Tail(@)]
      /\ waiting' = [waiting EXCEPT ![m] =
           IF host.pc \in {"stop", "done"} \/ (msg.can /\ m # Main) THEN @ ELSE Append(@, msg)]
      /\ UNCHANGED <<now, mcu, host, result>>
  BY DEF TD!FastReadState
<1>2. \/ UNCHANGED <<td, tdm, toMcu>>
      \/ /\ td.active /\ ~ msg.can /\ td' = [td EXCEPT !.can = FALSE]
         /\ toMcu' = [o \in TD!MCUs |-> Append(toMcu[o], stop)]
         /\ UNCHANGED tdm
      \/ /\ td.active /\ msg.can /\ tdm' = known
         /\ toMcu' = [o \in TD!MCUs |-> IF o \in extended THEN Append(toMcu[o], extend(o)) ELSE toMcu[o]]
         /\ UNCHANGED td
  BY DEF TD!FastReadState
<1>3. /\ msg \in TD!Reports /\ msg.clock \in 0 .. Horizon /\ TD!ReportIsRight(m, msg)
      /\ toHost'[m] \in Seq(TD!Reports) /\ \A i \in DOMAIN toHost'[m] : TD!ReportIsRight(m, toHost'[m][i])
      /\ \A o \in TD!MCUs \ {m} : toHost'[o] = toHost[o]
  <2>1. toHost[m] \in Seq(TD!Reports)
    BY QueueTypes DEF TD!IInv
  <2>2. toHost'[m] = Tail(toHost[m]) /\ \A o \in TD!MCUs \ {m} : toHost'[o] = toHost[o]
    BY <1>1 DEF TD!IInv, TD!TypeOK, TD!MessagesTypeOK
  <2>3. msg \in TD!Reports /\ TD!ReportIsRight(m, msg)
    BY <1>1, <2>1, QueueShrinks DEF TD!IInv, TD!ReportsAreRight
  <2>4. \A r \in TD!Reports : r.clock \in 0 .. Horizon
    BY DEF TD!Reports
  <2> QED
    BY <1>1, <2>1, <2>2, <2>3, <2>4, QueueShrinks DEF TD!IInv, TD!ReportsAreRight
<1>4. /\ waiting'[m] \in Seq(TD!Reports) /\ \A i \in DOMAIN waiting'[m] : TD!ReportIsRight(m, waiting'[m][i])
      /\ \A o \in TD!MCUs \ {m} : waiting'[o] = waiting[o]
  <2> HIDE DEF msg
  <2>1. waiting[m] \in Seq(TD!Reports) /\ \A i \in DOMAIN waiting[m] : TD!ReportIsRight(m, waiting[m][i])
    BY QueueTypes DEF TD!IInv, TD!ReportsAreRight
  <2>2. waiting'[m] = waiting[m] \/ waiting'[m] = Append(waiting[m], msg)
    BY <1>1 DEF TD!IInv, TD!TypeOK, TD!MessagesTypeOK
  <2>3. \A o \in TD!MCUs \ {m} : waiting'[o] = waiting[o]
    BY <1>1 DEF TD!IInv, TD!TypeOK, TD!MessagesTypeOK
  <2>4. LET t == Append(waiting[m], msg)
        IN  t \in Seq(TD!Reports) /\ \A i \in DOMAIN t : TD!ReportIsRight(m, t[i])
    <3>1. \A i \in DOMAIN Append(waiting[m], msg) :
            \/ i \in DOMAIN waiting[m] /\ Append(waiting[m], msg)[i] = waiting[m][i]
            \/ Append(waiting[m], msg)[i] = msg
      BY <1>3, <2>1, QueueGrows
    <3> QED
      BY <1>3, <2>1, <3>1
  <2> QED
    BY <2>1, <2>2, <2>3, <2>4
<1>5. m \in host.started /\ (td.active => host.started = TD!MCUs)
  BY <1>1 DEF TD!IInv, TD!StartsFirst
<1>6. status \in [TD!MCUs -> 0 .. Horizon] /\ \A o \in TD!MCUs : status[o] <= TD!Last(o)
  <2> HIDE DEF msg
  <2>1. \A o \in TD!MCUs : tdm[o].status \in 0 .. Horizon
    BY DEF TD!IInv, TD!TypeOK, TD!HostTypeOK
  <2> QED
    BY <1>3, <2>1 DEF TD!IInv, TD!ReportsAreRight, TD!ReportIsRight
<1>7. ASSUME NEW o \in TD!MCUs
      PROVE  /\ expire[o] \in Nat /\ expire[o] <= Horizon + ExpireTicks
             /\ \A a \in TD!MCUs \ {o} : expire[o] <= TD!Last(a) + ExpireTicks
  <2> HIDE DEF status
  <2>1. status \in [TD!MCUs -> Nat] /\ \A a \in TD!MCUs : status[a] <= Horizon /\ status[a] \in Nat
    BY <1>6, DispatchConstants
  <2>2. expire[o] = TD!OthersTime(o, status) + ExpireTicks
    OBVIOUS
  <2>3. \A a \in TD!MCUs : TD!Last(a) \in Nat
    BY McuTypes DEF TD!IInv
  <2> QED
    BY <1>6, <2>1, <2>2, <2>3, OthersTimeIsBacked, DispatchConstants
<1>8. ASSUME NEW o \in TD!MCUs
      PROVE  /\ MaySend(o, extend(o)) /\ extend(o) \in TD!Commands /\ extend(o).op = "set_timeout"
             /\ ~ msg.can => MaySend(o, stop)
             /\ stop \in TD!Commands /\ stop.op = "trigger"
  <2> HIDE DEF msg, expire
  <2>1. msg.can \/ TD!MainStopped \/ TD!TimedOut
    BY <1>3, ReportTells
  <2> QED
    BY <1>7, <2>1 DEF TD!Command, TD!Commands, MaySend, TD!HostRequest
<1> HIDE DEF msg, status, expire, extended, stop, extend
<1>9. ASSUME NEW o \in TD!MCUs
      PROVE  /\ toMcu'[o] \in Seq(TD!Commands)
             /\ o \notin host.started => toMcu'[o] = toMcu[o]
             /\ toMcu[o] # <<>> => toMcu'[o] # <<>> /\ Head(toMcu'[o]) = Head(toMcu[o])
             /\ \A i \in DOMAIN toMcu[o] : i \in DOMAIN toMcu'[o] /\ toMcu'[o][i] = toMcu[o][i]
             /\ \A i \in DOMAIN toMcu'[o] :
                  \/ i \in DOMAIN toMcu[o] /\ toMcu'[o][i] = toMcu[o][i]
                  \/ toMcu'[o][i].op \in {"set_timeout", "trigger"} /\ MaySend(o, toMcu'[o][i])
  <2>1. toMcu[o] \in Seq(TD!Commands)
    BY QueueTypes DEF TD!IInv
  <2>2. \/ toMcu'[o] = toMcu[o]
        \/ td.active /\ ~ msg.can /\ toMcu'[o] = Append(toMcu[o], stop)
        \/ td.active /\ toMcu'[o] = Append(toMcu[o], extend(o))
    BY <1>2
  <2>3. CASE toMcu'[o] = toMcu[o]
    BY <2>1, <2>3
  <2>4. CASE td.active /\ ~ msg.can /\ toMcu'[o] = Append(toMcu[o], stop)
    BY <1>5, <1>8, <2>1, <2>4, QueueGrows
  <2>5. CASE td.active /\ toMcu'[o] = Append(toMcu[o], extend(o))
    BY <1>5, <1>8, <2>1, <2>5, QueueGrows
  <2> QED
    BY <2>2, <2>3, <2>4, <2>5
<1>10. TD!TypeOK'
  <2>1. toMcu' \in [TD!MCUs -> Seq(TD!Commands)]
    <3>1. toMcu' = toMcu \/ toMcu' = [o \in TD!MCUs |-> toMcu'[o]]
      BY <1>2
    <3> QED
      BY <1>9, <3>1 DEF TD!IInv, TD!TypeOK, TD!MessagesTypeOK
  <2>2. TD!MessagesTypeOK' /\ TD!FirmwareTypeOK'
    BY <1>1, <1>3, <1>4, <2>1 DEF TD!IInv, TD!TypeOK, TD!MessagesTypeOK, TD!FirmwareTypeOK
  <2>3. tdm' \in [TD!MCUs -> [status : 0 .. Horizon, expire : 0 .. Horizon + ExpireTicks]]
    <3>1. \A o \in TD!MCUs : expire[o] \in 0 .. Horizon + ExpireTicks
      BY <1>7, DispatchConstants
    <3>2. tdm \in [TD!MCUs -> [status : 0 .. Horizon, expire : 0 .. Horizon + ExpireTicks]]
      BY DEF TD!IInv, TD!TypeOK, TD!HostTypeOK
    <3>3. known \in [TD!MCUs -> [status : 0 .. Horizon, expire : 0 .. Horizon + ExpireTicks]]
      BY <1>6, <3>1, <3>2
    <3> QED
      BY <1>2, <3>2, <3>3
  <2>4. td' \in [active : BOOLEAN, can : BOOLEAN]
    BY <1>2 DEF TD!IInv, TD!TypeOK, TD!HostTypeOK
  <2> QED
    BY <1>1, <2>2, <2>3, <2>4 DEF TD!IInv, TD!TypeOK, TD!HostTypeOK
<1>11. TD!StopsOnce' /\ TD!CommandsAreRight' /\ TD!MainStopsFirst' /\ TD!TimesAreBacked' /\ TD!HitsAreArmed'
         /\ TD!MissesAreLate'
  <2>1. \A o \in TD!MCUs : \A i \in DOMAIN toMcu'[o] :
          \/ i \in DOMAIN toMcu[o] /\ toMcu'[o][i] = toMcu[o][i]
          \/ MaySend(o, toMcu'[o][i]) /\ (toMcu'[o][i].op = "endstop_home" => host'.pc # "setup")
    BY <1>9
  <2> QED
    BY <1>1, <2>1, HostStep
<1>12. TD!StartsFirst'
  <2>1. td'.active => td.active
    BY <1>2 DEF TD!IInv, TD!TypeOK, TD!HostTypeOK
  <2>2. \A o \in TD!MCUs \ host'.started : mcu'[o] = TD!Idle /\ toMcu'[o] = <<>> /\ toHost'[o] = <<>>
                                             /\ waiting'[o] = <<>>
    BY <1>1, <1>3, <1>4, <1>5, <1>9 DEF TD!IInv, TD!StartsFirst
  <2>3. \A o \in host'.started :
          \/ mcu'[o].can \/ mcu'[o].reason # TD!None
          \/ toMcu'[o] # <<>> /\ Head(toMcu'[o]).op = "start"
    <3>1. host.started \subseteq TD!MCUs
      BY DEF TD!IInv, TD!TypeOK, TD!HostTypeOK
    <3>2. \A o \in host.started :
            \/ mcu[o].can \/ mcu[o].reason # TD!None
            \/ toMcu[o] # <<>> /\ Head(toMcu[o]).op = "start"
      BY DEF TD!IInv, TD!StartsFirst
    <3>3. \A o \in TD!MCUs : toMcu[o] # <<>> => toMcu'[o] # <<>> /\ Head(toMcu'[o]) = Head(toMcu[o])
      BY <1>9
    <3> QED
      BY <1>1, <3>1, <3>2, <3>3
  <2>4. \A o \in TD!MCUs : \A i \in DOMAIN toMcu'[o] :
          toMcu'[o][i].op = "start" => i = 1 /\ mcu'[o] = TD!Idle /\ toMcu'[o][i].arg <= now'
    BY <1>1, <1>9 DEF TD!IInv, TD!StartsFirst
  <2> QED
    BY <1>1, <2>1, <2>2, <2>3, <2>4 DEF TD!IInv, TD!StartsFirst
<1>13. TD!ReportsAreRight'
  <2>1. \A o \in TD!MCUs : TD!Last(o)' = TD!Last(o) /\ TD!MainStopped' = TD!MainStopped /\ TD!TimedOut' = TD!TimedOut
    BY <1>1 DEF TD!Last, TD!TimedOut, TD!MainStopped
  <2>2. \A o \in TD!MCUs : tdm'[o].status <= TD!Last(o)
    BY <1>2, <1>6 DEF TD!IInv, TD!ReportsAreRight
  <2> QED
    BY <1>1, <1>3, <1>4, <2>1, <2>2 DEF TD!IInv, TD!ReportsAreRight, TD!ReportIsRight
<1>14. TD!ResultsAreTrue'
  BY <1>1, <1>9 DEF TD!IInv, TD!ResultsAreTrue
<1> QED
  BY <1>10, <1>11, <1>12, <1>13, <1>14 DEF TD!IInv

-----------------------------------------------------------------------------
(* Steps of the firmware of one MCU.                                       *)

\* What the trsync of m may become: it runs or has stopped, now if not before.
MayBecome(m, ts) ==
  /\ ts \in [begin : TD!Instants, can : BOOLEAN, reason : TD!None .. TD!CommsTimeout,
             expire : TD!Instants, stopped : TD!Instants, endstop : BOOLEAN]
  /\ ts.can \/ ts.reason # TD!None
  /\ ts.begin # TD!Never /\ (ts.can => ts.stopped = TD!Never)
  /\ ts.stopped = TD!Never <=> ts.reason = TD!None
  /\ ts.stopped = mcu[m].stopped \/ (mcu[m].stopped = TD!Never /\ ts.stopped = now)
  /\ ts.begin = mcu[m].begin \/ ts.begin <= now
  /\ mcu[m].reason # TD!None => ts.reason = mcu[m].reason

\* The queue of commands as it is, or without the first one.
MayTake(m, ts) ==
  \/ toMcu' = toMcu /\ mcu[m] # TD!Idle
  \/ /\ toMcu[m] # <<>> /\ toMcu' = [toMcu EXCEPT ![m] = Tail(@)]
     /\ Head(toMcu[m]).op = "trigger" => ts.reason # TD!None

\* No report, or one of this moment.
MayReport(m, ts) ==
  \/ toHost' = toHost
  \/ ts.stopped \in {TD!Never, now} /\ TD!Report(m, ts)

LEMMA CommandTaken ==
  ASSUME TD!DispatchAssumption, TD!IInv, NEW m \in TD!MCUs, NEW ts, MayTake(m, ts)
  PROVE  /\ toMcu' \in [TD!MCUs -> Seq(TD!Commands)]
         /\ \A o \in TD!MCUs \ {m} : toMcu'[o] = toMcu[o]
         /\ m \notin host.started => toMcu[m] = <<>>
         /\ \A i \in DOMAIN toMcu'[m] : toMcu'[m][i].op # "start"
              /\ \E j \in DOMAIN toMcu[m] : toMcu'[m][i] = toMcu[m][j]
         /\ \A i \in DOMAIN toMcu[m] :
              \/ i = 1 /\ (toMcu[m][i].op = "trigger" => ts.reason # TD!None)
              \/ \E j \in DOMAIN toMcu'[m] : toMcu'[m][j] = toMcu[m][i]
<1>1. toMcu \in [TD!MCUs -> Seq(TD!Commands)] /\ toMcu[m] \in Seq(TD!Commands)
  BY QueueTypes DEF TD!IInv, TD!TypeOK, TD!MessagesTypeOK
<1>2. \A i \in DOMAIN toMcu[m] : toMcu[m][i].op = "start" => i = 1 /\ mcu[m] = TD!Idle
  BY DEF TD!IInv, TD!StartsFirst
<1>3. m \notin host.started => toMcu[m] = <<>>
  BY DEF TD!IInv, TD!StartsFirst
<1>4. CASE toMcu' = toMcu /\ mcu[m] # TD!Idle
  BY <1>1, <1>2, <1>3, <1>4
<1>5. CASE /\ toMcu[m] # <<>> /\ toMcu' = [toMcu EXCEPT ![m] = Tail(@)]
           /\ Head(toMcu[m]).op = "trigger" => ts.reason # TD!None
  <2>1. toMcu'[m] = Tail(toMcu[m]) /\ \A o \in TD!MCUs \ {m} : toMcu'[o] = toMcu[o]
    BY <1>1, <1>5
  <2>2. /\ toMcu'[m] \in Seq(TD!Commands)
        /\ Head(toMcu[m]) = toMcu[m][1]
        /\ \A i \in DOMAIN toMcu'[m] : i + 1 \in DOMAIN toMcu[m] /\ i + 1 # 1 /\ toMcu'[m][i] = toMcu[m][i + 1]
        /\ \A i \in DOMAIN toMcu[m] : i = 1 \/ (i - 1 \in DOMAIN toMcu'[m] /\ toMcu'[m][i - 1] = toMcu[m][i])
    BY <1>1, <1>5, <2>1, QueueShrinks
  <2>3. toMcu' \in [TD!MCUs -> Seq(TD!Commands)]
    BY <1>1, <1>5, <2>1, <2>2
  <2>4. ASSUME NEW i \in DOMAIN toMcu'[m]
        PROVE  toMcu'[m][i].op # "start" /\ \E j \in DOMAIN toMcu[m] : toMcu'[m][i] = toMcu[m][j]
    BY <1>2, <2>2
  <2>5. ASSUME NEW i \in DOMAIN toMcu[m]
        PROVE  \/ i = 1 /\ (toMcu[m][i].op = "trigger" => ts.reason # TD!None)
               \/ \E j \in DOMAIN toMcu'[m] : toMcu'[m][j] = toMcu[m][i]
    BY <1>5, <2>2
  <2> QED
    BY <1>3, <2>1, <2>3, <2>4, <2>5
<1> QED
  BY <1>4, <1>5 DEF MayTake

LEMMA ReportMade ==
  ASSUME TD!DispatchAssumption, TD!IInv, NEW m \in TD!MCUs, NEW ts, MayBecome(m, ts), MayReport(m, ts)
  PROVE  /\ toHost' \in [TD!MCUs -> Seq(TD!Reports)]
         /\ \A o \in TD!MCUs \ {m} : toHost'[o] = toHost[o]
         /\ \A i \in DOMAIN toHost'[m] :
              \/ i \in DOMAIN toHost[m] /\ toHost'[m][i] = toHost[m][i]
              \/ /\ ts.stopped \in {TD!Never, now}
                 /\ toHost'[m][i].clock = now /\ toHost'[m][i].can = ts.can
<1> DEFINE r == [can |-> ts.can, reason |-> ts.reason, clock |-> now]
<1>1. toHost \in [TD!MCUs -> Seq(TD!Reports)] /\ toHost[m] \in Seq(TD!Reports)
  BY QueueTypes DEF TD!IInv, TD!TypeOK, TD!MessagesTypeOK
<1>2. r \in TD!Reports /\ r.can = ts.can /\ r.clock = now
  BY DispatchConstants DEF MayBecome, TD!Reports, TD!IInv, TD!TypeOK, TD!FirmwareTypeOK
<1>3. CASE toHost' = toHost
  BY <1>1, <1>3
<1>4. CASE ts.stopped \in {TD!Never, now} /\ TD!Report(m, ts)
  <2>1. toHost' = [toHost EXCEPT ![m] = Append(@, r)]
    BY <1>4 DEF TD!Report
  <2> HIDE DEF r
  <2>2. toHost'[m] = Append(toHost[m], r) /\ \A o \in TD!MCUs \ {m} : toHost'[o] = toHost[o]
    BY <1>1, <2>1
  <2>3. /\ toHost'[m] \in Seq(TD!Reports)
        /\ \A i \in DOMAIN toHost'[m] : \/ i \in DOMAIN toHost[m] /\ toHost'[m][i] = toHost[m][i]
                                        \/ toHost'[m][i] = r
    BY <1>1, <1>2, <2>2, QueueGrows
  <2>4. toHost' \in [TD!MCUs -> Seq(TD!Reports)]
    BY <1>1, <2>1, <2>3
  <2> QED
    BY <1>2, <1>4, <2>2, <2>3, <2>4
<1> QED
  BY <1>3, <1>4 DEF MayReport

LEMMA FirmwareStep ==
  ASSUME TD!DispatchAssumption, TD!IInv, NEW m \in TD!MCUs, NEW ts,
         UNCHANGED <<now, td, tdm, waiting, host, result>>, mcu' = [mcu EXCEPT ![m] = ts],
         MayBecome(m, ts), MayTake(m, ts), MayReport(m, ts)
  PROVE  /\ mcu'[m] = ts /\ \A o \in TD!MCUs \ {m} : mcu'[o] = mcu[o]
         /\ \A o \in TD!MCUs : TD!Last(o)' = TD!Last(o)
         /\ TD!TimedOut => TD!TimedOut'
         /\ TD!MainStopped => TD!MainStopped'
         /\ TD!TypeOK' /\ TD!StopsOnce' /\ TD!StartsFirst' /\ TD!CommandsAreRight' /\ TD!ReportsAreRight'
              /\ TD!ResultsAreTrue'
<1>1. mcu'[m] = ts /\ \A o \in TD!MCUs \ {m} : mcu'[o] = mcu[o]
  BY DEF TD!IInv, TD!TypeOK, TD!FirmwareTypeOK
<1>2. /\ now \in Nat /\ now < TD!Never /\ Main \in TD!MCUs
      /\ ts.stopped \in Nat /\ ts.begin \in Nat /\ mcu[m].stopped \in Nat /\ mcu[m].begin \in Nat
  BY NowType, McuTypes, DispatchConstants DEF TD!IInv, MayBecome
<1>3. \A o \in TD!MCUs : TD!Last(o)' = TD!Last(o)
  BY <1>1, <1>2 DEF TD!Last, MayBecome
<1>4. /\ TD!TimedOut => TD!TimedOut'
      /\ TD!MainStopped => TD!MainStopped'
  <2>1. mcu[m].reason # TD!None => ts.reason = mcu[m].reason
    BY DEF MayBecome
  <2>2. \A o \in TD!MCUs : mcu[o].reason = TD!CommsTimeout => mcu'[o].reason = TD!CommsTimeout
    BY <1>1, <2>1 DEF TD!None, TD!CommsTimeout
  <2>3. mcu[Main].stopped # TD!Never => mcu'[Main].stopped # TD!Never
    BY <1>1, <1>2 DEF MayBecome
  <2> QED
    BY <2>2, <2>3 DEF TD!TimedOut, TD!MainStopped
<1>5. /\ toMcu' \in [TD!MCUs -> Seq(TD!Commands)]
      /\ \A o \in TD!MCUs \ {m} : toMcu'[o] = toMcu[o]
      /\ m \notin host.started => toMcu[m] = <<>>
      /\ \A i \in DOMAIN toMcu'[m] : toMcu'[m][i].op # "start" /\ \E j \in DOMAIN toMcu[m] : toMcu'[m][i] = toMcu[m][j]
      /\ \A i \in DOMAIN toMcu[m] :
           \/ i = 1 /\ (toMcu[m][i].op = "trigger" => ts.reason # TD!None)
           \/ \E j \in DOMAIN toMcu'[m] : toMcu'[m][j] = toMcu[m][i]
  BY CommandTaken
<1>6. /\ toHost' \in [TD!MCUs -> Seq(TD!Reports)]
      /\ \A o \in TD!MCUs \ {m} : toHost'[o] = toHost[o]
      /\ \A i \in DOMAIN toHost'[m] :
           \/ i \in DOMAIN toHost[m] /\ toHost'[m][i] = toHost[m][i]
           \/ /\ ts.stopped \in {TD!Never, now}
              /\ toHost'[m][i].clock = now /\ toHost'[m][i].can = ts.can
  BY ReportMade
<1>7. m \in host.started
  <2>1. m \notin host.started => mcu[m] = TD!Idle /\ toMcu[m] = <<>>
    BY DEF TD!IInv, TD!StartsFirst
  <2> QED
    BY <2>1 DEF MayTake
<1>8. TD!TypeOK'
  <2>1. TD!FirmwareTypeOK'
    BY DEF TD!IInv, TD!TypeOK, TD!FirmwareTypeOK, MayBecome
  <2>2. TD!MessagesTypeOK' /\ TD!HostTypeOK'
    BY <1>5, <1>6 DEF TD!IInv, TD!TypeOK, TD!MessagesTypeOK, TD!HostTypeOK
  <2> QED
    BY <2>1, <2>2 DEF TD!TypeOK
<1>9. TD!StopsOnce'
  <2>1. ASSUME NEW o \in TD!MCUs
        PROVE  /\ mcu'[o].can => mcu'[o].stopped = TD!Never
               /\ mcu'[o].can \/ mcu'[o].reason # TD!None => mcu'[o].begin # TD!Never
               /\ mcu'[o].stopped = TD!Never <=> mcu'[o].reason = TD!None
               /\ mcu'[o].stopped = TD!Never \/ mcu'[o].stopped <= now
               /\ mcu'[o].begin = TD!Never \/ mcu'[o].begin <= now
    <3>1. CASE o # m
      BY <1>1, <3>1 DEF TD!IInv, TD!StopsOnce
    <3>2. CASE o = m
      BY <1>1, <1>2, <3>2 DEF TD!IInv, TD!StopsOnce, MayBecome
    <3> QED
      BY <3>1, <3>2
  <2> QED
    BY <2>1 DEF TD!StopsOnce
<1>10. TD!StartsFirst'
  <2>1. ASSUME NEW o \in TD!MCUs \ host.started
        PROVE  mcu'[o] = TD!Idle /\ toMcu'[o] = <<>> /\ toHost'[o] = <<>> /\ waiting'[o] = <<>>
    BY <1>1, <1>5, <1>6, <1>7 DEF TD!IInv, TD!StartsFirst
  <2>2. ASSUME NEW o \in host.started
        PROVE  \/ mcu'[o].can \/ mcu'[o].reason # TD!None
               \/ toMcu'[o] # <<>> /\ Head(toMcu'[o]).op = "start"
    <3>1. o \in TD!MCUs
      BY DEF TD!IInv, TD!TypeOK, TD!HostTypeOK
    <3>2. CASE o # m
      BY <1>1, <1>5, <3>1, <3>2 DEF TD!IInv, TD!StartsFirst
    <3>3. CASE o = m
      BY <1>1, <3>3 DEF MayBecome
    <3> QED
      BY <3>2, <3>3
  <2>3. ASSUME NEW o \in TD!MCUs, NEW i \in DOMAIN toMcu'[o], toMcu'[o][i].op = "start"
        PROVE  i = 1 /\ mcu'[o] = TD!Idle /\ toMcu'[o][i].arg <= now
    <3>1. o # m
      BY <1>5, <2>3
    <3> QED
      BY <1>1, <1>5, <2>3, <3>1 DEF TD!IInv, TD!StartsFirst
  <2>4. host'.pc # "setup" \/ td'.active => host'.started = TD!MCUs
    BY DEF TD!IInv, TD!StartsFirst
  <2> QED
    BY <2>1, <2>2, <2>3, <2>4 DEF TD!StartsFirst
<1>11. TD!CommandsAreRight'
  <2>1. ASSUME NEW o \in TD!MCUs, NEW i \in DOMAIN toMcu'[o]
        PROVE  \E j \in DOMAIN toMcu[o] : toMcu'[o][i] = toMcu[o][j]
    BY <1>5
  <2> QED
    BY <1>3, <1>4, <2>1 DEF TD!IInv, TD!CommandsAreRight
<1>12. TD!ReportsAreRight'
  <2> DEFINE StillRight(o, msg) == msg.clock <= TD!Last(o)' /\ (msg.can \/ mcu'[o].stopped # TD!Never)
  <2>1. ASSUME NEW o \in TD!MCUs, NEW msg, TD!ReportIsRight(o, msg)
        PROVE  StillRight(o, msg)
    <3>1. mcu[o].stopped # TD!Never => mcu'[o].stopped # TD!Never
      BY <1>1, <1>2 DEF MayBecome
    <3> QED
      BY <1>3, <2>1, <3>1 DEF TD!ReportIsRight
  <2>2. ASSUME NEW i \in DOMAIN toHost'[m], ts.stopped \in {TD!Never, now},
               toHost'[m][i].clock = now, toHost'[m][i].can = ts.can
        PROVE  StillRight(m, toHost'[m][i])
    <3>1. TD!Last(m)' = now
      BY <1>1, <2>2 DEF TD!Last
    <3>2. ts.can \/ ts.stopped # TD!Never
      BY DEF MayBecome
    <3> QED
      BY <1>1, <1>2, <2>2, <3>1, <3>2
  <2> HIDE DEF StillRight
  <2>3. \A o \in TD!MCUs : /\ \A i \in DOMAIN toHost[o] : TD!ReportIsRight(o, toHost[o][i])
                           /\ \A i \in DOMAIN waiting[o] : TD!ReportIsRight(o, waiting[o][i])
    BY DEF TD!IInv, TD!ReportsAreRight
  <2>4. \A i \in DOMAIN toHost'[m] : StillRight(m, toHost'[m][i])
    BY <1>6, <2>1, <2>2, <2>3
  <2>5. \A o \in TD!MCUs \ {m} : \A i \in DOMAIN toHost'[o] : StillRight(o, toHost'[o][i])
    BY <1>6, <2>1, <2>3
  <2>6. \A o \in TD!MCUs : \A i \in DOMAIN waiting'[o] : StillRight(o, waiting'[o][i])
    BY <2>1, <2>3
  <2>7. \A o \in TD!MCUs : \A i \in DOMAIN toHost'[o] : StillRight(o, toHost'[o][i])
    BY <2>4, <2>5
  <2>8. /\ \A o \in TD!MCUs : tdm'[o].status <= TD!Last(o)'
        /\ host'.completion # "none" => TD!MainStopped' \/ TD!TimedOut'
    BY <1>3, <1>4 DEF TD!IInv, TD!ReportsAreRight
  <2> QED
    BY <2>6, <2>7, <2>8 DEF TD!ReportsAreRight, TD!ReportIsRight, StillRight
<1>13. TD!ResultsAreTrue'
  <2>1. ASSUME NEW o \in TD!MCUs, result'[o] # TD!None
        PROVE  result'[o] = mcu'[o].reason
    BY <1>1, <2>1 DEF TD!IInv, TD!ResultsAreTrue, MayBecome
  <2>2. host'.pc = "done" => \A o \in TD!MCUs : result'[o] # TD!None
    BY DEF TD!IInv, TD!ResultsAreTrue
  <2>3. ASSUME host'.pc = "stop", NEW o \in TD!MCUs
        PROVE  mcu'[o].reason # TD!None \/ \E i \in DOMAIN toMcu'[o] : toMcu'[o][i].op = "trigger"
    <3>1. mcu[o].reason # TD!None \/ \E i \in DOMAIN toMcu[o] : toMcu[o][i].op = "trigger"
      BY <2>3 DEF TD!IInv, TD!ResultsAreTrue
    <3>2. CASE o # m
      BY <1>1, <1>5, <3>1, <3>2
    <3>3. CASE o = m
      BY <1>1, <1>5, <3>1, <3>3 DEF MayBecome
    <3> QED
      BY <3>2, <3>3
  <2> QED
    BY <2>1, <2>2, <2>3 DEF TD!ResultsAreTrue
<1> QED
  BY <1>1, <1>3, <1>4, <1>8, <1>9, <1>10, <1>11, <1>12, <1>13

\* The trsync has not changed its mind, or stops now for one of the four reasons.
StopsFor(m, ts) ==
  \/ ts.reason = mcu[m].reason /\ ts.stopped = mcu[m].stopped
  \/ /\ mcu[m].stopped = TD!Never /\ ts.stopped = now
     /\ \/ ts.reason = TD!CommsTimeout
        \/ ts.reason = TD!EndstopHit /\ m = Main /\ mcu[m].endstop
        \/ ts.reason = TD!HostRequest /\ (TD!MainStopped \/ TD!TimedOut)
        \/ ts.reason = TD!PastEndTime /\ m = Main /\ MoveTime <= now

\* Its times are backed by the others or its start.
HasBacked(m, ts) ==
  \A a \in TD!MCUs \ {m} :
    /\ ts.can => /\ ts.expire <= TD!Last(a) + ExpireTicks \/ ts.expire <= ts.begin + ExpireTicks
                 /\ now <= TD!Last(a) + ExpireTicks \/ now <= ts.begin + ExpireTicks
    /\ ts.reason \notin {TD!None, TD!CommsTimeout} =>
         ts.stopped <= TD!Last(a) + ExpireTicks \/ ts.stopped <= ts.begin + ExpireTicks

\* The endstop is armed after the start of all.
HasArmed(m, ts) ==
  /\ m = Main /\ ts.endstop => host.pc # "setup"
  /\ mcu[Main].reason = TD!EndstopHit => ts.begin = TD!Never \/ ts.begin <= mcu[Main].stopped

LEMMA FirmwareKeeps ==
  ASSUME TD!DispatchAssumption, TD!IInv, NEW m \in TD!MCUs, NEW ts,
         UNCHANGED <<now, td, tdm, waiting, host, result>>, mcu' = [mcu EXCEPT ![m] = ts],
         MayBecome(m, ts), MayTake(m, ts), MayReport(m, ts), StopsFor(m, ts), HasBacked(m, ts), HasArmed(m, ts)
  PROVE  TD!IInv'
<1>1. /\ mcu'[m] = ts /\ \A o \in TD!MCUs \ {m} : mcu'[o] = mcu[o]
      /\ \A o \in TD!MCUs : TD!Last(o)' = TD!Last(o)
      /\ TD!TimedOut => TD!TimedOut'
      /\ TD!MainStopped => TD!MainStopped'
      /\ TD!TypeOK' /\ TD!StopsOnce' /\ TD!StartsFirst' /\ TD!CommandsAreRight' /\ TD!ReportsAreRight'
           /\ TD!ResultsAreTrue'
  BY FirmwareStep
<1>2. /\ now \in Nat /\ now < TD!Never /\ TD!Never \in Nat /\ Main \in TD!MCUs
      /\ ts.stopped \in Nat /\ ts.begin \in Nat
      /\ \A o \in TD!MCUs : mcu[o].stopped \in Nat /\ mcu[o].begin \in Nat
  BY NowType, McuTypes, DispatchConstants DEF TD!IInv, MayBecome
<1>3. \A o \in TD!MCUs : mcu[o].stopped = TD!Never <=> mcu[o].reason = TD!None
  BY DEF TD!IInv, TD!StopsOnce
<1>4. ts.reason = TD!CommsTimeout => TD!TimedOut'
  BY <1>1 DEF TD!TimedOut
<1>5. TD!None = 0 /\ TD!EndstopHit = 1 /\ TD!HostRequest = 2 /\ TD!PastEndTime = 3 /\ TD!CommsTimeout = 4
  BY DEF TD!None, TD!EndstopHit, TD!HostRequest, TD!PastEndTime, TD!CommsTimeout
<1>6. ASSUME ~ TD!TimedOut', NEW o \in TD!MCUs
      PROVE  mcu'[Main].stopped <= mcu'[o].stopped
  <2>1. ~ TD!TimedOut /\ mcu[Main].stopped <= mcu[o].stopped
    BY <1>1, <1>6 DEF TD!IInv, TD!MainStopsFirst
  <2>2. ASSUME NEW p \in TD!MCUs, mcu[p].stopped # TD!Never
        PROVE  mcu[p].stopped <= now
    BY <2>2 DEF TD!IInv, TD!StopsOnce
  <2>3. CASE ts.stopped = mcu[m].stopped
    BY <1>1, <1>2, <2>1, <2>3
  <2>4. CASE mcu[m].stopped = TD!Never /\ ts.stopped = now /\ m = Main
    <3>1. mcu[o].stopped = TD!Never \/ o = m
      <4>1. TD!Never <= mcu[o].stopped
        BY <2>1, <2>4
      <4> QED
        BY <1>2, <2>2, <4>1
    <3> QED
      BY <1>1, <1>2, <2>4, <3>1
  <2>5. CASE mcu[m].stopped = TD!Never /\ ts.stopped = now /\ TD!MainStopped /\ m # Main
    BY <1>1, <1>2, <2>1, <2>2, <2>5 DEF TD!MainStopped
  <2> QED
    BY <1>4, <1>6, <2>1, <2>3, <2>4, <2>5 DEF StopsFor, TD!MainStopped
<1>7. TD!MainStopsFirst'
  BY <1>6 DEF TD!MainStopsFirst, TD!TimedOut
<1>8. TD!TimesAreBacked'
  <2> DEFINE StillBacked(t, a, o) == t <= TD!Last(a)' + ExpireTicks \/ t <= mcu'[o].begin + ExpireTicks
  <2>1. ASSUME NEW o \in TD!MCUs, NEW a \in TD!MCUs \ {o}
        PROVE  /\ mcu'[o].can => StillBacked(mcu'[o].expire, a, o) /\ StillBacked(now', a, o)
               /\ mcu'[o].reason \notin {TD!None, TD!CommsTimeout} => StillBacked(mcu'[o].stopped, a, o)
    <3>1. CASE o # m
      BY <1>1, <3>1 DEF TD!IInv, TD!TimesAreBacked, TD!Backed
    <3>2. CASE o = m
      BY <1>1, <3>2 DEF HasBacked
    <3> QED
      BY <3>1, <3>2
  <2> QED
    BY <2>1 DEF TD!TimesAreBacked, TD!Backed
<1>9. TD!HitsAreArmed'
  <2>1. mcu'[Main].endstop => host'.pc # "setup"
    BY <1>1, <1>2 DEF HasArmed, TD!IInv, TD!HitsAreArmed
  <2>2. ASSUME mcu'[Main].reason = TD!EndstopHit
        PROVE  /\ host'.pc # "setup"
               /\ \A o \in TD!MCUs :
                    /\ mcu'[o].begin = TD!Never \/ mcu'[o].begin <= mcu'[Main].stopped
                    /\ \A i \in DOMAIN toMcu'[o] :
                         toMcu'[o][i].op = "start" => toMcu'[o][i].arg <= mcu'[Main].stopped
    <3>1. CASE mcu[Main].reason = TD!EndstopHit
      <4>1. mcu'[Main].stopped = mcu[Main].stopped
        BY <1>1, <1>2, <1>3, <1>5, <3>1 DEF StopsFor
      <4>2. \A o \in TD!MCUs : mcu'[o].begin = TD!Never \/ mcu'[o].begin <= mcu[Main].stopped
        BY <1>1, <3>1 DEF HasArmed, TD!IInv, TD!HitsAreArmed
      <4>3. ASSUME NEW o \in TD!MCUs, NEW i \in DOMAIN toMcu'[o], toMcu'[o][i].op = "start"
            PROVE  toMcu'[o][i].arg <= mcu[Main].stopped
        <5>1. \E j \in DOMAIN toMcu[o] : toMcu'[o][i] = toMcu[o][j]
          BY CommandTaken
        <5> QED
          BY <3>1, <4>3, <5>1 DEF TD!IInv, TD!HitsAreArmed
      <4> QED
        BY <3>1, <4>1, <4>2, <4>3 DEF TD!IInv, TD!HitsAreArmed
    <3>2. CASE mcu[Main].reason # TD!EndstopHit
      <4>1. m = Main /\ mcu[Main].endstop /\ mcu'[Main].stopped = now
        BY <1>1, <1>2, <1>5, <2>2, <3>2 DEF StopsFor
      <4>2. /\ \A o \in TD!MCUs : mcu'[o].begin = TD!Never \/ mcu'[o].begin <= now
            /\ \A o \in TD!MCUs : \A i \in DOMAIN toMcu'[o] : toMcu'[o][i].op = "start" => toMcu'[o][i].arg <= now
        BY <1>1 DEF TD!StopsOnce, TD!StartsFirst
      <4> QED
        BY <4>1, <4>2 DEF TD!IInv, TD!HitsAreArmed
    <3> QED
      BY <3>1, <3>2
  <2> QED
    BY <2>1, <2>2 DEF TD!HitsAreArmed
<1>10. TD!MissesAreLate'
  <2>1. ASSUME mcu'[Main].reason = TD!HostRequest
        PROVE  TD!TimedOut'
    <3>1. CASE mcu[Main].reason = TD!HostRequest
      BY <1>1, <3>1 DEF TD!IInv, TD!MissesAreLate
    <3>2. CASE mcu[Main].reason # TD!HostRequest
      <4>1. m = Main /\ mcu[Main].stopped = TD!Never /\ (TD!MainStopped \/ TD!TimedOut)
        BY <1>1, <1>2, <1>5, <2>1, <3>2 DEF StopsFor
      <4> QED
        BY <1>1, <4>1 DEF TD!MainStopped
    <3> QED
      BY <3>1, <3>2
  <2>2. ASSUME mcu'[Main].reason = TD!PastEndTime
        PROVE  MoveTime <= mcu'[Main].stopped
    <3>1. CASE mcu[Main].reason = TD!PastEndTime
      <4>1. mcu'[Main].stopped = mcu[Main].stopped
        BY <1>1, <1>2, <1>3, <1>5, <3>1 DEF StopsFor
      <4> QED
        BY <3>1, <4>1 DEF TD!IInv, TD!MissesAreLate
    <3>2. CASE mcu[Main].reason # TD!PastEndTime
      BY <1>1, <1>2, <1>5, <2>2, <3>2 DEF StopsFor
    <3> QED
      BY <3>1, <3>2
  <2> QED
    BY <2>1, <2>2 DEF TD!MissesAreLate, TD!TimedOut
<1> QED
  BY <1>1, <1>7, <1>8, <1>9, <1>10 DEF TD!IInv

LEMMA PeriodicReportKeeps ==
  ASSUME TD!DispatchAssumption, TD!IInv, NEW m \in TD!MCUs, TD!PeriodicReport(m)
  PROVE  TD!IInv'
<1>1. mcu[m].can /\ TD!Report(m, mcu[m]) /\ UNCHANGED <<now, mcu, toMcu, td, tdm, waiting, host, result>>
  BY DEF TD!PeriodicReport
<1>2. mcu' = [mcu EXCEPT ![m] = mcu[m]]
  BY <1>1 DEF TD!IInv, TD!TypeOK, TD!FirmwareTypeOK
<1>3. mcu[m].stopped = TD!Never /\ mcu[m].begin # TD!Never /\ mcu[m] # TD!Idle
  BY <1>1 DEF TD!IInv, TD!StopsOnce, TD!Idle
<1>4. MayBecome(m, mcu[m])
  BY <1>1, <1>3, McuTypes DEF MayBecome, TD!IInv, TD!StopsOnce
<1>5. MayTake(m, mcu[m]) /\ MayReport(m, mcu[m])
  BY <1>1, <1>3 DEF MayTake, MayReport
<1>6. StopsFor(m, mcu[m]) /\ HasBacked(m, mcu[m])
  BY DEF StopsFor, HasBacked, TD!IInv, TD!TimesAreBacked, TD!Backed
<1>7. HasArmed(m, mcu[m])
  BY DEF HasArmed, TD!IInv, TD!HitsAreArmed
<1> QED
  BY <1>1, <1>2, <1>4, <1>5, <1>6, <1>7, FirmwareKeeps

\* A running trsync is triggered.
LEMMA TriggeredKeeps ==
  ASSUME TD!DispatchAssumption, TD!IInv, NEW m \in TD!MCUs,
         NEW reason \in {TD!EndstopHit, TD!HostRequest, TD!PastEndTime, TD!CommsTimeout},
         mcu[m].can,
         UNCHANGED <<now, td, tdm, waiting, host, result>>,
         mcu' = [mcu EXCEPT ![m] = TD!Triggered(mcu[m], reason)],
         toMcu' = toMcu \/ (toMcu[m] # <<>> /\ toMcu' = [toMcu EXCEPT ![m] = Tail(@)]),
         TD!Report(m, TD!Triggered(mcu[m], reason)),
         reason = TD!EndstopHit => m = Main /\ mcu[m].endstop,
         reason = TD!HostRequest => TD!MainStopped \/ TD!TimedOut,
         reason = TD!PastEndTime => m = Main /\ MoveTime <= now
  PROVE  TD!IInv'
<1> DEFINE ts == TD!Triggered(mcu[m], reason)
<1>1. /\ ts = [mcu[m] EXCEPT !.can = FALSE, !.reason = reason, !.stopped = now]
      /\ mcu[m] \in [begin : TD!Instants, can : BOOLEAN, reason : TD!None .. TD!CommsTimeout,
                     expire : TD!Instants, stopped : TD!Instants, endstop : BOOLEAN]
  BY McuTypes DEF TD!Triggered, TD!IInv
<1>2. now \in TD!Instants /\ now \in Nat /\ now < TD!Never
  BY NowType, DispatchConstants DEF TD!IInv, TD!TypeOK, TD!FirmwareTypeOK
<1>3. reason \in TD!None .. TD!CommsTimeout /\ reason # TD!None
  BY DEF TD!None, TD!EndstopHit, TD!HostRequest, TD!PastEndTime, TD!CommsTimeout
<1>4. /\ ts.can = FALSE /\ ts.reason = reason /\ ts.stopped = now
      /\ ts.begin = mcu[m].begin /\ ts.endstop = mcu[m].endstop
      /\ ts \in [begin : TD!Instants, can : BOOLEAN, reason : TD!None .. TD!CommsTimeout,
                 expire : TD!Instants, stopped : TD!Instants, endstop : BOOLEAN]
  BY <1>1, <1>2, <1>3
<1>5. mcu[m].stopped = TD!Never /\ mcu[m].reason = TD!None /\ mcu[m].begin # TD!Never /\ mcu[m] # TD!Idle
  BY DEF TD!IInv, TD!StopsOnce, TD!Idle
<1> HIDE DEF ts
<1>6. MayBecome(m, ts)
  BY <1>2, <1>3, <1>4, <1>5 DEF MayBecome
<1>7. MayTake(m, ts) /\ MayReport(m, ts)
  BY <1>3, <1>4, <1>5 DEF MayTake, MayReport, ts
<1>8. StopsFor(m, ts)
  BY <1>4, <1>5 DEF StopsFor
<1>9. HasBacked(m, ts)
  BY <1>4 DEF HasBacked, TD!IInv, TD!TimesAreBacked, TD!Backed
<1>10. HasArmed(m, ts)
  BY <1>4 DEF HasArmed, TD!IInv, TD!HitsAreArmed
<1> QED
  BY <1>6, <1>7, <1>8, <1>9, <1>10, FirmwareKeeps DEF ts

LEMMA EndstopHitsKeeps ==
  ASSUME TD!DispatchAssumption, TD!IInv, TD!EndstopHits
  PROVE  TD!IInv'
<1>1. /\ mcu[Main].endstop /\ mcu[Main].can /\ Main \in TD!MCUs
      /\ mcu' = [mcu EXCEPT ![Main] = TD!Triggered(mcu[Main], TD!EndstopHit)]
      /\ TD!Report(Main, mcu'[Main])
      /\ UNCHANGED <<now, toMcu, td, tdm, waiting, host, result>>
  BY DispatchConstants DEF TD!EndstopHits, TD!StopBy
<1>2. TD!Report(Main, TD!Triggered(mcu[Main], TD!EndstopHit))
  <2>1. mcu'[Main] = TD!Triggered(mcu[Main], TD!EndstopHit)
    BY <1>1 DEF TD!IInv, TD!TypeOK, TD!FirmwareTypeOK
  <2> QED
    BY <1>1, <2>1
<1>3. TD!EndstopHit # TD!HostRequest /\ TD!EndstopHit # TD!PastEndTime
  BY DEF TD!EndstopHit, TD!HostRequest, TD!PastEndTime
<1> QED
  BY <1>1, <1>2, <1>3, TriggeredKeeps

LEMMA ExpiresKeeps ==
  ASSUME TD!DispatchAssumption, TD!IInv, NEW m \in TD!MCUs, TD!Expires(m)
  PROVE  TD!IInv'
<1>1. /\ mcu[m].can
      /\ mcu' = [mcu EXCEPT ![m] = TD!Triggered(mcu[m], TD!CommsTimeout)]
      /\ TD!Report(m, mcu'[m])
      /\ UNCHANGED <<now, toMcu, td, tdm, waiting, host, result>>
  BY DEF TD!Expires, TD!StopBy
<1>2. TD!Report(m, TD!Triggered(mcu[m], TD!CommsTimeout))
  <2>1. mcu'[m] = TD!Triggered(mcu[m], TD!CommsTimeout)
    BY <1>1 DEF TD!IInv, TD!TypeOK, TD!FirmwareTypeOK
  <2> QED
    BY <1>1, <2>1
<1>3. TD!CommsTimeout # TD!EndstopHit /\ TD!CommsTimeout # TD!HostRequest /\ TD!CommsTimeout # TD!PastEndTime
  BY DEF TD!EndstopHit, TD!HostRequest, TD!PastEndTime, TD!CommsTimeout
<1> QED
  BY <1>1, <1>2, <1>3, TriggeredKeeps

LEMMA ExecuteKeeps ==
  ASSUME TD!DispatchAssumption, TD!IInv, NEW m \in TD!MCUs, TD!Execute(m)
  PROVE  TD!IInv'
<1> DEFINE c == Head(toMcu[m])
           ts == CASE c.op = "start"        -> TD!Started(mcu[m], c.arg)
                   [] c.op = "set_timeout"  -> [mcu[m] EXCEPT !.expire = c.arg]
                   [] c.op = "endstop_home" -> [mcu[m] EXCEPT !.endstop = c.arg = 1]
                   [] c.op = "trigger"      -> TD!Triggered(mcu[m], c.arg)
<1>1. /\ toMcu[m] # <<>> /\ toMcu' = [toMcu EXCEPT ![m] = Tail(@)]
      /\ mcu' = [mcu EXCEPT ![m] = ts]
      /\ IF mcu[m].stopped # ts.stopped THEN TD!Report(m, ts) ELSE UNCHANGED toHost
      /\ UNCHANGED <<now, td, tdm, waiting, host, result>>
  BY DEF TD!Execute
<1>2. 1 \in DOMAIN toMcu[m] /\ c = toMcu[m][1] /\ c \in TD!Commands
  BY <1>1, QueueTypes, QueueShrinks DEF TD!IInv
<1>3. /\ c.arg \in Nat /\ c.op \in {"start", "set_timeout", "endstop_home", "trigger"}
      /\ c.op = "set_timeout" => /\ c.arg <= Horizon + ExpireTicks
                                 /\ \A a \in TD!MCUs \ {m} : c.arg <= TD!Last(a) + ExpireTicks
      /\ c.op = "endstop_home" => host.pc # "setup"
      /\ c.op = "trigger" => \/ c.arg = TD!HostRequest /\ (TD!MainStopped \/ TD!TimedOut)
                             \/ c.arg = TD!PastEndTime /\ m = Main /\ MoveTime <= now
      /\ c.op = "start" => mcu[m] = TD!Idle /\ c.arg <= now
      /\ c.op = "start" /\ mcu[Main].reason = TD!EndstopHit => c.arg <= mcu[Main].stopped
  BY <1>2 DEF TD!Commands, TD!IInv, TD!CommandsAreRight, TD!StartsFirst, TD!HitsAreArmed
<1>4. c.op # "start" => mcu[m].can \/ mcu[m].reason # TD!None
  <2>1. m \in host.started
    BY <1>1 DEF TD!IInv, TD!StartsFirst
  <2> QED
    BY <1>1, <2>1 DEF TD!IInv, TD!StartsFirst
<1>5. /\ now \in Nat /\ now < TD!Never /\ now \in TD!Instants /\ now <= Horizon
      /\ mcu[m] \in [begin : TD!Instants, can : BOOLEAN, reason : TD!None .. TD!CommsTimeout,
                     expire : TD!Instants, stopped : TD!Instants, endstop : BOOLEAN]
      /\ mcu[m].stopped \in Nat /\ mcu[m].begin \in Nat
  BY NowType, McuTypes, DispatchConstants DEF TD!IInv, TD!TypeOK, TD!FirmwareTypeOK
<1>6. /\ mcu[m].can => mcu[m].stopped = TD!Never
      /\ mcu[m].can \/ mcu[m].reason # TD!None => mcu[m].begin # TD!Never
      /\ mcu[m].stopped = TD!Never <=> mcu[m].reason = TD!None
      /\ mcu[m].begin = TD!Never \/ mcu[m].begin <= now
  BY DEF TD!IInv, TD!StopsOnce
<1> HIDE DEF c, ts
<1>7. CASE c.op = "trigger" /\ mcu[m].can
  <2>1. ts = TD!Triggered(mcu[m], c.arg)
    BY <1>7 DEF ts
  <2>2. ts.stopped # mcu[m].stopped
    BY <1>5, <1>6, <1>7, <2>1 DEF TD!Triggered
  <2>3. mcu' = [mcu EXCEPT ![m] = TD!Triggered(mcu[m], c.arg)] /\ TD!Report(m, TD!Triggered(mcu[m], c.arg))
    BY <1>1, <2>1, <2>2
  <2>4. c.arg \in {TD!EndstopHit, TD!HostRequest, TD!PastEndTime, TD!CommsTimeout} /\ c.arg # TD!EndstopHit
    BY <1>3, <1>7 DEF TD!EndstopHit, TD!HostRequest, TD!PastEndTime
  <2>5. /\ c.arg = TD!HostRequest => TD!MainStopped \/ TD!TimedOut
        /\ c.arg = TD!PastEndTime => m = Main /\ MoveTime <= now
    BY <1>3, <1>7 DEF TD!HostRequest, TD!PastEndTime
  <2> QED
    BY <1>1, <1>7, <2>3, <2>4, <2>5, TriggeredKeeps
<1>8. CASE c.op = "start"
  <2> DEFINE armed == [mcu[m] EXCEPT !.begin = c.arg, !.can = TRUE, !.expire = c.arg + ExpireTicks]
  <2>1. ts = IF now < armed.expire THEN armed ELSE TD!Triggered(armed, TD!CommsTimeout)
    BY <1>8 DEF ts, TD!Started
  <2>2. /\ mcu[m].stopped = TD!Never /\ mcu[m].reason = TD!None /\ mcu[m].endstop = FALSE
    BY <1>3, <1>8 DEF TD!Idle
  <2>3. c.arg \in TD!Instants /\ c.arg + ExpireTicks \in TD!Instants /\ c.arg # TD!Never
    BY <1>3, <1>5, <1>8, DispatchConstants DEF TD!Instants
  <2>4. /\ armed.begin = c.arg /\ armed.expire = c.arg + ExpireTicks /\ armed.can
        /\ armed.stopped = TD!Never /\ armed.reason = TD!None /\ armed.endstop = FALSE
        /\ armed \in [begin : TD!Instants, can : BOOLEAN, reason : TD!None .. TD!CommsTimeout,
                      expire : TD!Instants, stopped : TD!Instants, endstop : BOOLEAN]
    BY <1>5, <2>2, <2>3
  <2> HIDE DEF armed
  <2>5. /\ ts.begin = c.arg /\ ts.endstop = FALSE
        /\ ts \in [begin : TD!Instants, can : BOOLEAN, reason : TD!None .. TD!CommsTimeout,
                   expire : TD!Instants, stopped : TD!Instants, endstop : BOOLEAN]
        /\ \/ /\ ts.can /\ ts.reason = TD!None /\ ts.stopped = TD!Never
              /\ ts.expire = c.arg + ExpireTicks /\ now < c.arg + ExpireTicks
           \/ ts.can = FALSE /\ ts.reason = TD!CommsTimeout /\ ts.stopped = now
    <3>1. CASE now < armed.expire
      BY <2>1, <2>4, <3>1
    <3>2. CASE ~(now < armed.expire)
      <4>1. ts = [armed EXCEPT !.can = FALSE, !.reason = TD!CommsTimeout, !.stopped = now]
        BY <2>1, <2>4, <3>2 DEF TD!Triggered
      <4>2. TD!CommsTimeout \in TD!None .. TD!CommsTimeout
        BY DEF TD!None, TD!CommsTimeout
      <4>3. /\ ts.can = FALSE /\ ts.reason = TD!CommsTimeout /\ ts.stopped = now
            /\ ts.begin = armed.begin /\ ts.endstop = armed.endstop
        BY <2>4, <4>1
      <4>4. ts \in [begin : TD!Instants, can : BOOLEAN, reason : TD!None .. TD!CommsTimeout,
                   expire : TD!Instants, stopped : TD!Instants, endstop : BOOLEAN]
        BY <1>5, <2>4, <4>1, <4>2
      <4> QED
        BY <2>4, <4>3, <4>4
    <3> QED
      BY <3>1, <3>2
  <2>6. MayBecome(m, ts)
    BY <1>3, <1>5, <1>8, <2>2, <2>3, <2>5 DEF MayBecome, TD!None, TD!CommsTimeout
  <2>7. MayTake(m, ts) /\ MayReport(m, ts)
    BY <1>1, <1>8, <2>2, <2>5 DEF MayTake, MayReport, c
  <2>8. StopsFor(m, ts) /\ HasArmed(m, ts)
    BY <1>3, <1>8, <2>2, <2>5 DEF StopsFor, HasArmed
  <2>9. HasBacked(m, ts)
    BY <1>3, <1>5, <2>5, DispatchConstants DEF HasBacked, TD!None, TD!CommsTimeout
  <2> QED
    BY <1>1, <2>6, <2>7, <2>8, <2>9, FirmwareKeeps
<1>9. CASE c.op \in {"set_timeout", "endstop_home"} \/ (c.op = "trigger" /\ ~ mcu[m].can)
  <2>1. /\ ts.can = mcu[m].can /\ ts.reason = mcu[m].reason /\ ts.stopped = mcu[m].stopped /\ ts.begin = mcu[m].begin
        /\ ts.expire = mcu[m].expire \/ (c.op = "set_timeout" /\ ts.expire = c.arg)
        /\ ts.endstop = mcu[m].endstop \/ c.op = "endstop_home"
        /\ ts \in [begin : TD!Instants, can : BOOLEAN, reason : TD!None .. TD!CommsTimeout,
                   expire : TD!Instants, stopped : TD!Instants, endstop : BOOLEAN]
    <3>1. CASE c.op = "set_timeout"
      <4>1. c.arg \in TD!Instants
        BY <1>3, <3>1, DispatchConstants
      <4>2. ts = [mcu[m] EXCEPT !.expire = c.arg]
        BY <3>1 DEF ts
      <4> QED
        BY <1>5, <3>1, <4>1, <4>2
    <3>2. CASE c.op = "endstop_home"
      <4>1. ts = [mcu[m] EXCEPT !.endstop = (c.arg = 1)]
        BY <3>2 DEF ts
      <4> QED
        BY <1>5, <3>2, <4>1
    <3>3. CASE c.op = "trigger" /\ ~ mcu[m].can
      <4>1. ts = mcu[m]
        BY <3>3 DEF ts, TD!Triggered
      <4> QED
        BY <1>5, <4>1
    <3> QED
      BY <1>9, <3>1, <3>2, <3>3
  <2>2. c.op # "start"
    BY <1>9
  <2>3. MayBecome(m, ts)
    BY <1>4, <1>6, <2>1, <2>2 DEF MayBecome
  <2>4. MayTake(m, ts) /\ MayReport(m, ts)
    BY <1>1, <1>4, <1>9, <2>1 DEF MayTake, MayReport, c
  <2>5. StopsFor(m, ts) /\ HasArmed(m, ts)
    BY <1>3, <2>1 DEF StopsFor, HasArmed, TD!IInv, TD!HitsAreArmed
  <2>6. HasBacked(m, ts)
    BY <1>3, <2>1 DEF HasBacked, TD!IInv, TD!TimesAreBacked, TD!Backed
  <2> QED
    BY <1>1, <2>3, <2>4, <2>5, <2>6, FirmwareKeeps
<1> QED
  BY <1>3, <1>7, <1>8, <1>9

LEMMA TickKeeps ==
  ASSUME TD!DispatchAssumption, TD!IInv, TD!Tick
  PROVE  TD!IInv'
<1>1. /\ now < Horizon /\ now' = now + 1
      /\ \A m \in TD!MCUs : mcu[m].can => now < mcu[m].expire
      /\ UNCHANGED <<mcu, toMcu, toHost, td, tdm, waiting, host, result>>
  BY DEF TD!Tick
<1>2. /\ now \in Nat /\ now' \in Nat /\ now' \in 0 .. Horizon /\ {Horizon, ExpireTicks, MoveTime} \subseteq Nat
      /\ \A m \in TD!MCUs : /\ mcu[m].stopped \in Nat /\ mcu[m].begin \in Nat /\ mcu[m].expire \in Nat
                            /\ TD!Last(m) \in Nat
  BY <1>1, NowType, McuTypes, DispatchConstants DEF TD!IInv
<1>3. /\ \A m \in TD!MCUs : TD!Last(m)' \in Nat /\ TD!Last(m) <= TD!Last(m)'
      /\ TD!TimedOut' = TD!TimedOut /\ TD!MainStopped' = TD!MainStopped
  BY <1>1, <1>2 DEF TD!Last, TD!TimedOut, TD!MainStopped
<1>4. TD!TypeOK'
  BY <1>1, <1>2 DEF TD!IInv, TD!TypeOK, TD!FirmwareTypeOK, TD!MessagesTypeOK, TD!HostTypeOK
<1>5. TD!StopsOnce'
  BY <1>1, <1>2 DEF TD!IInv, TD!StopsOnce
<1>6. TD!StartsFirst'
  <2>1. \A m \in TD!MCUs : \A i \in DOMAIN toMcu[m] : toMcu[m][i].arg \in Nat
    BY QueueTypes DEF TD!IInv
  <2> QED
    BY <1>1, <1>2, <2>1 DEF TD!IInv, TD!StartsFirst
<1>7. TD!CommandsAreRight'
  <2>1. ASSUME NEW m \in TD!MCUs, NEW i \in DOMAIN toMcu[m]
        PROVE  LET c == toMcu[m][i]
               IN  /\ c.op = "set_timeout" => /\ c.arg <= Horizon + ExpireTicks
                                              /\ \A a \in TD!MCUs \ {m} : c.arg <= TD!Last(a)' + ExpireTicks
                   /\ c.op = "endstop_home" => host.pc # "setup"
                   /\ c.op = "trigger" => \/ c.arg = TD!HostRequest /\ (TD!MainStopped \/ TD!TimedOut)
                                          \/ c.arg = TD!PastEndTime /\ m = Main /\ MoveTime <= now'
    <3>1. toMcu[m][i].arg \in Nat
      BY QueueTypes DEF TD!IInv
    <3> QED
      BY <1>1, <1>2, <1>3, <3>1 DEF TD!IInv, TD!CommandsAreRight
  <2> QED
    BY <1>1, <1>3, <2>1 DEF TD!CommandsAreRight
<1>8. TD!ReportsAreRight'
  <2>1. /\ \A m \in TD!MCUs : /\ \A i \in DOMAIN toHost[m] : toHost[m][i].clock \in Nat
                              /\ \A i \in DOMAIN waiting[m] : waiting[m][i].clock \in Nat
                              /\ tdm[m].status \in Nat
    BY QueueTypes DEF TD!IInv
  <2>2. \A m \in TD!MCUs :
          /\ \A i \in DOMAIN toHost[m] : TD!ReportIsRight(m, toHost[m][i])
          /\ \A i \in DOMAIN waiting[m] : TD!ReportIsRight(m, waiting[m][i])
          /\ tdm[m].status <= TD!Last(m)
    BY DEF TD!IInv, TD!ReportsAreRight
  <2>3. ASSUME NEW m \in TD!MCUs
        PROVE  /\ \A i \in DOMAIN toHost[m] :
                    toHost[m][i].clock <= TD!Last(m)' /\ (toHost[m][i].can \/ mcu[m].stopped # TD!Never)
               /\ \A i \in DOMAIN waiting[m] :
                    waiting[m][i].clock <= TD!Last(m)' /\ (waiting[m][i].can \/ mcu[m].stopped # TD!Never)
               /\ tdm[m].status <= TD!Last(m)'
    <3>1. TD!Last(m) \in Nat /\ TD!Last(m)' \in Nat /\ TD!Last(m) <= TD!Last(m)'
      BY <1>2, <1>3
    <3> QED
      BY <2>1, <2>2, <3>1 DEF TD!ReportIsRight
  <2>4. host'.completion # "none" => TD!MainStopped' \/ TD!TimedOut'
    BY <1>1, <1>3 DEF TD!IInv, TD!ReportsAreRight
  <2> QED
    BY <1>1, <2>3, <2>4 DEF TD!ReportsAreRight, TD!ReportIsRight
<1>9. TD!MainStopsFirst' /\ TD!HitsAreArmed' /\ TD!MissesAreLate'
  BY <1>1, <1>3 DEF TD!IInv, TD!MainStopsFirst, TD!HitsAreArmed, TD!MissesAreLate
<1>10. TD!TimesAreBacked'
  <2>1. ASSUME NEW m \in TD!MCUs, NEW a \in TD!MCUs \ {m}
        PROVE  /\ mcu[m].can => /\ \/ mcu[m].expire <= TD!Last(a)' + ExpireTicks
                                   \/ mcu[m].expire <= mcu[m].begin + ExpireTicks
                                /\ \/ now' <= TD!Last(a)' + ExpireTicks
                                   \/ now' <= mcu[m].begin + ExpireTicks
               /\ mcu[m].reason \notin {TD!None, TD!CommsTimeout} =>
                    \/ mcu[m].stopped <= TD!Last(a)' + ExpireTicks
                    \/ mcu[m].stopped <= mcu[m].begin + ExpireTicks
    BY <1>1, <1>2, <1>3 DEF TD!IInv, TD!TimesAreBacked, TD!Backed
  <2> QED
    BY <1>1, <2>1 DEF TD!TimesAreBacked, TD!Backed
<1>11. TD!ResultsAreTrue'
  BY <1>1 DEF TD!IInv, TD!ResultsAreTrue
<1> QED
  BY <1>4, <1>5, <1>6, <1>7, <1>8, <1>9, <1>10, <1>11 DEF TD!IInv

-----------------------------------------------------------------------------
LEMMA DispatchStartsRight ==
  ASSUME TD!DispatchAssumption, TD!Init
  PROVE  TD!IInv
<1>1. /\ now = 0
      /\ \A m \in TD!MCUs : mcu[m] = TD!Idle /\ toMcu[m] = <<>> /\ toHost[m] = <<>> /\ waiting[m] = <<>>
      /\ \A m \in TD!MCUs : tdm[m].status = 0 /\ result[m] = TD!None
      /\ host = [pc |-> "setup", started |-> {}, completion |-> "none", homeEnd |-> FALSE]
      /\ td = [active |-> FALSE, can |-> FALSE]
  BY DEF TD!Init
<1>2. /\ TD!Idle.begin = TD!Never /\ TD!Idle.can = FALSE /\ TD!Idle.reason = TD!None
           /\ TD!Idle.stopped = TD!Never /\ TD!Idle.endstop = FALSE
      /\ TD!Idle \in [begin : TD!Instants, can : BOOLEAN, reason : TD!None .. TD!CommsTimeout,
                      expire : TD!Instants, stopped : TD!Instants, endstop : BOOLEAN]
  BY DispatchConstants DEF TD!Idle, TD!None, TD!CommsTimeout
<1>3. Main \in TD!MCUs /\ 0 \in 0 .. Horizon /\ 0 \in 0 .. Horizon + ExpireTicks
  BY DispatchConstants
<1>4. TD!TypeOK
  <2>1. TD!FirmwareTypeOK
    BY <1>2, <1>3 DEF TD!Init, TD!FirmwareTypeOK
  <2>2. TD!MessagesTypeOK
    BY DEF TD!Init, TD!MessagesTypeOK
  <2>3. TD!HostTypeOK
    BY <1>3 DEF TD!Init, TD!HostTypeOK, TD!None, TD!CommsTimeout
  <2> QED
    BY <2>1, <2>2, <2>3 DEF TD!TypeOK
<1>5. TD!StopsOnce /\ TD!StartsFirst /\ TD!CommandsAreRight
  BY <1>1, <1>2 DEF TD!StopsOnce, TD!StartsFirst, TD!CommandsAreRight
<1>6. TD!ReportsAreRight
  BY <1>1, <1>2 DEF TD!ReportsAreRight, TD!Last
<1>7. TD!MainStopsFirst
  BY <1>1, <1>2, <1>3, DispatchConstants DEF TD!MainStopsFirst
<1>8. TD!TimesAreBacked /\ TD!HitsAreArmed /\ TD!MissesAreLate
  BY <1>1, <1>2, <1>3 DEF TD!TimesAreBacked, TD!HitsAreArmed, TD!MissesAreLate, TD!None, TD!EndstopHit,
     TD!HostRequest, TD!PastEndTime
<1>9. TD!ResultsAreTrue
  BY <1>1 DEF TD!ResultsAreTrue
<1> QED
  BY <1>4, <1>5, <1>6, <1>7, <1>8, <1>9 DEF TD!IInv

LEMMA DispatchStepKeeps ==
  ASSUME TD!DispatchAssumption, TD!IInv, [TD!Next]_(TD!vars)
  PROVE  TD!IInv'
<1>1. CASE UNCHANGED TD!vars
  <2>1. TD!TypeOK' /\ TD!StopsOnce' /\ TD!StartsFirst' /\ TD!CommandsAreRight'
    BY <1>1 DEF TD!vars, TD!IInv, TD!TypeOK, TD!FirmwareTypeOK, TD!MessagesTypeOK, TD!HostTypeOK, TD!StopsOnce,
       TD!StartsFirst,
                TD!CommandsAreRight, TD!Last, TD!MainStopped, TD!TimedOut
  <2>2. TD!ReportsAreRight' /\ TD!MainStopsFirst' /\ TD!TimesAreBacked'
    BY <1>1 DEF TD!vars, TD!IInv, TD!ReportsAreRight, TD!ReportIsRight, TD!MainStopsFirst, TD!TimesAreBacked,
       TD!Backed,
                TD!Last, TD!MainStopped, TD!TimedOut
  <2>3. TD!HitsAreArmed' /\ TD!MissesAreLate' /\ TD!ResultsAreTrue'
    BY <1>1 DEF TD!vars, TD!IInv, TD!HitsAreArmed, TD!MissesAreLate, TD!ResultsAreTrue, TD!TimedOut
  <2> QED
    BY <2>1, <2>2, <2>3 DEF TD!IInv
<1>2. CASE TD!StartDispatch \/ TD!EndOfMove \/ TD!StopDispatch
  BY <1>2, StartDispatchKeeps, EndOfMoveKeeps, StopDispatchKeeps
<1>3. CASE TD!EndstopHits \/ TD!Tick
  BY <1>3, EndstopHitsKeeps, TickKeeps
<1>4. ASSUME NEW m \in TD!MCUs, TD!StartTrsync(m) \/ TD!StopTrsync(m) \/ TD!HandleTrsyncState(m) \/ TD!FastReadState(m)
      PROVE  TD!IInv'
  BY <1>4, StartTrsyncKeeps, StopTrsyncKeeps, HandleTrsyncStateKeeps, FastReadStateKeeps
<1>5. ASSUME NEW m \in TD!MCUs, TD!Execute(m) \/ TD!PeriodicReport(m) \/ TD!Expires(m)
      PROVE  TD!IInv'
  BY <1>5, ExecuteKeeps, PeriodicReportKeeps, ExpiresKeeps
<1> QED
  BY <1>1, <1>2, <1>3, <1>4, <1>5 DEF TD!Next

\* The invariant says that the endstops stop together.
LEMMA ExtensionsAreBacked ==
  ASSUME TD!DispatchAssumption, TD!IInv
  PROVE  TD!StopTogether
<1> SUFFICES ASSUME NEW a \in TD!MCUs, NEW b \in TD!MCUs, mcu[a].stopped # TD!Never, mcu[b].can
             PROVE  mcu[b].expire <= TD!Max({mcu[a].stopped, mcu[b].begin}) + ExpireTicks
  BY DEF TD!StopTogether
<1>1. a # b
  BY DEF TD!IInv, TD!StopsOnce
<1>2. TD!Backed(mcu[b].expire, a, b)
  BY <1>1 DEF TD!IInv, TD!TimesAreBacked
<1>3. /\ mcu[a].stopped \in Nat /\ mcu[b].begin \in Nat /\ mcu[b].expire \in Nat /\ ExpireTicks \in Nat
  BY McuTypes, DispatchConstants DEF TD!IInv
<1>4. LET latest == TD!Max({mcu[a].stopped, mcu[b].begin})
      IN  latest \in Nat /\ mcu[a].stopped <= latest /\ mcu[b].begin <= latest
  BY <1>3, MaxIsGreatest
<1> QED
  BY <1>2, <1>3, <1>4 DEF TD!Backed, TD!Last

\* When all have answered without a timeout, nobody ran into one, and the endstop's MCU stopped first.
LEMMA NobodyTimedOut ==
  ASSUME TD!DispatchAssumption, TD!IInv, host.pc = "done", TD!StopReason # TD!CommsTimeout
  PROVE  /\ TD!StopReason = mcu[Main].reason /\ TD!StopReason # TD!None
         /\ ~ TD!TimedOut
         /\ \A m \in TD!MCUs : /\ mcu[m].reason \notin {TD!None, TD!CommsTimeout} /\ mcu[Main].stopped <= mcu[m].stopped
                               /\ mcu[m].stopped # TD!Never /\ mcu[m].begin # TD!Never
<1>1. \A m \in TD!MCUs : result[m] # TD!None /\ result[m] = mcu[m].reason
  BY DEF TD!IInv, TD!ResultsAreTrue
<1>2. \A m \in TD!MCUs : ~(result[m] >= TD!CommsTimeout)
  BY DEF TD!StopReason
<1>3. \A m \in TD!MCUs : result[m] # TD!CommsTimeout
  BY <1>2 DEF TD!CommsTimeout
<1>4. TD!StopReason = result[Main] /\ Main \in TD!MCUs
  BY <1>2, DispatchConstants DEF TD!StopReason
<1>5. ~ TD!TimedOut
  BY <1>1, <1>3 DEF TD!TimedOut
<1>6. \A m \in TD!MCUs : mcu[m].stopped # TD!Never /\ mcu[m].begin # TD!Never
  BY <1>1 DEF TD!IInv, TD!StopsOnce
<1> QED
  BY <1>1, <1>3, <1>4, <1>5, <1>6 DEF TD!IInv, TD!MainStopsFirst

LEMMA OutcomeIsTrue ==
  ASSUME TD!DispatchAssumption, TD!IInv
  PROVE  TD!HitIsTrue /\ TD!MissIsFullMove
<1>1. TD!EndstopHit # TD!CommsTimeout
  BY DEF TD!EndstopHit, TD!CommsTimeout
<1>2. \A m \in TD!MCUs : /\ mcu[m].stopped \in Nat /\ mcu[m].begin \in Nat /\ mcu[m].reason \in 0 .. 4
                         /\ ExpireTicks \in Nat /\ MoveTime \in Nat /\ Main \in TD!MCUs
  BY McuTypes, DispatchConstants DEF TD!IInv
<1>3. ASSUME host.pc = "done", TD!StopReason = TD!EndstopHit, NEW m \in TD!MCUs
      PROVE  /\ mcu[m].reason \notin {TD!None, TD!CommsTimeout}
             /\ mcu[m].stopped >= mcu[Main].stopped
             /\ mcu[m].stopped <= mcu[Main].stopped + ExpireTicks
  <2>1. /\ mcu[Main].reason = TD!EndstopHit /\ mcu[Main].stopped # TD!Never
        /\ mcu[m].reason \notin {TD!None, TD!CommsTimeout} /\ mcu[Main].stopped <= mcu[m].stopped
        /\ mcu[m].begin # TD!Never
    BY <1>1, <1>2, <1>3, NobodyTimedOut
  <2>2. mcu[m].begin <= mcu[Main].stopped
    BY <2>1 DEF TD!IInv, TD!HitsAreArmed
  <2>3. m # Main => TD!Backed(mcu[m].stopped, Main, m)
    BY <1>2, <2>1 DEF TD!IInv, TD!TimesAreBacked
  <2> QED
    BY <1>2, <2>1, <2>2, <2>3 DEF TD!Backed, TD!Last
<1>4. ASSUME host.pc = "done", TD!StopReason \notin {TD!EndstopHit, TD!CommsTimeout}
      PROVE  TD!StopReason = TD!PastEndTime /\ \A m \in TD!MCUs : mcu[m].stopped >= MoveTime
  <2>1. /\ TD!StopReason = mcu[Main].reason /\ TD!StopReason # TD!None /\ ~ TD!TimedOut
        /\ \A m \in TD!MCUs : mcu[Main].stopped <= mcu[m].stopped
    BY <1>4, NobodyTimedOut
  <2>2. mcu[Main].reason # TD!HostRequest
    BY <2>1 DEF TD!IInv, TD!MissesAreLate
  <2>3. mcu[Main].reason = TD!PastEndTime
    <3>1. mcu[Main].reason \in 0 .. 4
            /\ mcu[Main].reason \notin {TD!None, TD!EndstopHit, TD!HostRequest, TD!CommsTimeout}
      <4>1. mcu[Main].reason \in 0 .. 4
        BY McuTypes, DispatchConstants DEF TD!IInv
      <4>2. mcu[Main].reason # TD!None /\ mcu[Main].reason # TD!EndstopHit /\ mcu[Main].reason # TD!CommsTimeout
        BY <1>4, <2>1
      <4> QED
        BY <2>2, <4>1, <4>2
    <3> QED
      BY <3>1 DEF TD!None, TD!EndstopHit, TD!HostRequest, TD!PastEndTime, TD!CommsTimeout
  <2>4. MoveTime <= mcu[Main].stopped
    BY <2>3 DEF TD!IInv, TD!MissesAreLate
  <2> QED
    BY <1>2, <2>1, <2>3, <2>4
<1> QED
  BY <1>3, <1>4 DEF TD!HitIsTrue, TD!MissIsFullMove

\* The inductive invariant holds throughout every homing move.
THEOREM DispatchIsInvariant ==
  ASSUME TD!DispatchAssumption
  PROVE  TD!Spec => []TD!IInv
<1>1. TD!Init => TD!IInv
  BY DispatchStartsRight
<1>2. TD!IInv /\ [TD!Next]_(TD!vars) => TD!IInv'
  BY DispatchStepKeeps
<1> QED
  BY <1>1, <1>2, PTL DEF TD!Spec

\* Of any number of micro-controllers, and however long messages take: all stop
\* together, a hit is one that all have obeyed in time, and a miss is the whole move.
THEOREM EndstopsStop ==
  ASSUME TD!DispatchAssumption
  PROVE  TD!Spec => [](TD!StopTogether /\ TD!HitIsTrue /\ TD!MissIsFullMove)
<1>1. TD!IInv => TD!StopTogether /\ TD!HitIsTrue /\ TD!MissIsFullMove
  BY ExtensionsAreBacked, OutcomeIsTrue
<1> QED
  BY <1>1, DispatchIsInvariant, PTL
==============================================================================
