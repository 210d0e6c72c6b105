--------------------------- MODULE McuConnectProofs ---------------------------
(***************************************************************************)
(* A shutdown shows and reaches every micro-controller, for any number of  *)
(* micro-controllers, restart methods, faults and restarts.  The inductive *)
(* invariant IInv of McuConnect is preserved part by part; one step per    *)
(* action. Then SerialConn: whoever asks a connected micro-controller is   *)
(* given the answer to his own question, whatever is lost.                 *)
(***************************************************************************)
EXTENDS McuConnect, TLAPS

LEMMA OrderIsSeq ==
  ASSUME McuConnectAssumption
  PROVE  Len(Order) \in Nat /\ Len(Order) # 0 /\ DOMAIN Order = 1 .. Len(Order)
<1>1. Order \in Seq(Mcu) /\ Order # <<>> BY DEF McuConnectAssumption
<1> QED BY <1>1

\* The micro-controller in turn is one of the configuration.
LEMMA ThisIsMcu ==
  ASSUME McuConnectAssumption, next \in 1 .. Len(Order)
  PROVE  This \in Mcu
BY OrderIsSeq DEF This, Mcu

LEMMA InTurn ==
  ASSUME McuConnectAssumption, NextTypeOK, phase # "exit"
  PROVE  next \in 1 .. Len(Order) /\ This \in Mcu
<1>1. next \in 1 .. Len(Order) BY OrderIsSeq DEF NextTypeOK
<1> QED BY <1>1, ThisIsMcu

LEMMA InTurnAtExit ==
  ASSUME McuConnectAssumption, NextTypeOK, next <= Len(Order)
  PROVE  next \in 1 .. Len(Order) /\ This \in Mcu
<1>1. next \in 1 .. Len(Order) BY OrderIsSeq DEF NextTypeOK
<1> QED BY <1>1, ThisIsMcu

-----------------------------------------------------------------------------
(* The shape of the state.                                                  *)
LEMMA NextTypeOKStep ==
  ASSUME McuConnectAssumption, NextTypeOK, [Next]_vars
  PROVE  NextTypeOK'
<1>0. Len(Order) \in Nat /\ Len(Order) # 0 BY OrderIsSeq
<1>1. ASSUME Identify PROVE NextTypeOK'
  <2>1. phase = "identify" BY <1>1 DEF Identify
  <2>2. next \in 1 .. Len(Order) BY <2>1, InTurn
  <2>3. \/ next < Len(Order) /\ next' = next + 1
        \/ next' = 1
        \/ UNCHANGED next
    BY <1>1 DEF Identify, CheckRestart, ConnectFails, RequestExit
  <2>4. next' \in 1 .. Len(Order) BY <2>2, <2>3, <1>0
  <2> QED BY <2>4, <1>0 DEF NextTypeOK
<1>2. ASSUME Abandoned PROVE NextTypeOK'
  <2>1. phase # "exit" /\ UNCHANGED next BY <1>2 DEF Abandoned
  <2> QED BY <2>1, InTurn DEF NextTypeOK
<1>3. ASSUME Connect PROVE NextTypeOK'
  <2>1. phase # "exit" BY <1>3 DEF Connect
  <2>2. next \in 1 .. Len(Order) BY <2>1, InTurn
  <2>3. \/ next # Len(Order) /\ next' = next + 1
        \/ next' = 1
        \/ UNCHANGED next
    BY <1>3 DEF Connect, Connected, IsLast, CheckRestart, ConnectFails, RequestExit
  <2>4. next' \in 1 .. Len(Order) BY <2>2, <2>3, <1>0
  <2> QED BY <2>4, <1>0 DEF NextTypeOK
<1>4. ASSUME Configured PROVE NextTypeOK'
  <2>1. phase # "exit" BY <1>4 DEF Configured
  <2>2. next \in 1 .. Len(Order) BY <2>1, InTurn
  <2>3. \/ next # Len(Order) /\ next' = next + 1
        \/ next' = 1
        \/ UNCHANGED next
    BY <1>4 DEF Configured, Connected, IsLast, ConnectFails
  <2>4. next' \in 1 .. Len(Order) BY <2>2, <2>3, <1>0
  <2> QED BY <2>4, <1>0 DEF NextTypeOK
<1>5. ASSUME ExitResets PROVE NextTypeOK'
  <2>1. /\ next <= Len(Order) /\ phase = "exit"
        /\ next' = 1 \/ (next' = next + 1 /\ phase' = phase)
    BY <1>5 DEF ExitResets, NewSession
  <2>2. CASE next' = 1 BY <2>2, <1>0 DEF NextTypeOK
  <2>3. CASE next' = next + 1 /\ phase' = "exit"
    <3>1. next' \in 1 .. Len(Order) + 1 BY <2>1, <2>3, <1>0 DEF NextTypeOK
    <3> QED BY <3>1, <2>3 DEF NextTypeOK
  <2> QED BY <2>1, <2>2, <2>3
<1>6. ASSUME ExitEnds PROVE NextTypeOK'
  <2>1. next' = 1 BY <1>6 DEF ExitEnds, NewSession
  <2> QED BY <2>1, <1>0 DEF NextTypeOK
<1>7. ASSUME AsyncShutdown PROVE NextTypeOK'
  BY <1>7 DEF AsyncShutdown, Shutdown, Stopped, SetState, NextTypeOK, fwVars, mcuVars, hostVars, bounds, vars
<1>8. ASSUME FIRMWARE_RESTART PROVE NextTypeOK'
  <2>1. next' = 1 BY <1>8 DEF FIRMWARE_RESTART, RequestExit
  <2> QED BY <2>1, <1>0 DEF NextTypeOK
<1>9. ASSUME RESTART PROVE NextTypeOK'
  <2>1. next' = 1 BY <1>9 DEF RESTART, RequestExit
  <2> QED BY <2>1, <1>0 DEF NextTypeOK
<1>10. ASSUME NEW m \in Mcu, HandleShutdown(m) PROVE NextTypeOK'
  BY <1>10 DEF HandleShutdown, NextTypeOK, fwVars, mcuVars, hostVars, bounds, vars
<1>11. ASSUME NEW m \in Mcu, CheckActive(m) PROVE NextTypeOK'
  BY <1>11 DEF CheckActive, Shutdown, Stopped, SetState, NextTypeOK, fwVars, mcuVars, hostVars, bounds, vars
<1>12. ASSUME NEW m \in Mcu, ClockTimerRaises(m) PROVE NextTypeOK'
  BY <1>12 DEF ClockTimerRaises, Shutdown, Stopped, SetState, NextTypeOK, fwVars, mcuVars, hostVars, bounds, vars
<1>13. ASSUME NEW m \in Mcu, EmergencyStop(m) PROVE NextTypeOK'
  BY <1>13 DEF EmergencyStop, NextTypeOK, fwVars, mcuVars, hostVars, bounds, vars
<1>14. ASSUME NEW m \in Mcu, MissesObject(m) PROVE NextTypeOK'
  BY <1>14 DEF MissesObject, NextTypeOK, fwVars, mcuVars, hostVars, bounds, vars
<1>15. ASSUME NEW m \in Mcu, Fault(m) PROVE NextTypeOK'
  BY <1>15 DEF Fault, NextTypeOK, fwVars, mcuVars, hostVars, bounds, vars
<1>16. ASSUME NEW m \in Mcu, LinkReturns(m) PROVE NextTypeOK'
  BY <1>16 DEF LinkReturns, NextTypeOK, fwVars, mcuVars, hostVars, bounds, vars
<1>17. CASE UNCHANGED vars
  BY <1>17 DEF NextTypeOK, fwVars, mcuVars, hostVars, bounds, vars
<1> QED
  BY <1>1, <1>2, <1>3, <1>4, <1>5, <1>6, <1>7, <1>8, <1>9, <1>10, <1>11, <1>12, <1>13, <1>14, <1>15, <1>16,
     <1>17 DEF Next, Host, Answers

LEMMA BoundsTypeOKStep ==
  ASSUME McuConnectAssumption, BoundsTypeOK, [Next]_vars
  PROVE  BoundsTypeOK'
<1>1. ASSUME Identify PROVE BoundsTypeOK'
  BY <1>1 DEF Identify, This, ConnectFails, CheckRestart, MayRestart, RequestExit, SetState, BoundsTypeOK, fwVars,
     mcuVars, hostVars, bounds, vars
<1>2. ASSUME Abandoned PROVE BoundsTypeOK'
  BY <1>2 DEF Abandoned, BoundsTypeOK, fwVars, mcuVars, hostVars, bounds, vars
<1>3. ASSUME Connect PROVE BoundsTypeOK'
  BY <1>3 DEF Connect, Refuses, ConnectFails, CheckRestart, MayRestart, RequestExit, SetState, Connected, IsLast,
     BoundsTypeOK, fwVars, mcuVars, hostVars, bounds, vars
<1>4. ASSUME Configured PROVE BoundsTypeOK'
  BY <1>4 DEF Configured, Refuses, ConnectFails, SetState, Connected, IsLast, BoundsTypeOK, fwVars, mcuVars,
     hostVars, bounds, vars
<1>5. ASSUME ExitResets PROVE BoundsTypeOK'
  BY <1>5 DEF ExitResets, NewSession, IsOpen, MayReset, All, BoundsTypeOK, fwVars, mcuVars, hostVars, bounds, vars
<1>6. ASSUME ExitEnds PROVE BoundsTypeOK'
  BY <1>6 DEF ExitEnds, NewSession, IsOpen, All, BoundsTypeOK, fwVars, mcuVars, hostVars, bounds, vars
<1>7. ASSUME AsyncShutdown PROVE BoundsTypeOK'
  BY <1>7 DEF AsyncShutdown, Shutdown, Stopped, SetState, BoundsTypeOK, fwVars, mcuVars, hostVars, bounds, vars
<1>8. ASSUME FIRMWARE_RESTART PROVE BoundsTypeOK'
  BY <1>8 DEF FIRMWARE_RESTART, RequestExit, BoundsTypeOK, fwVars, mcuVars, hostVars, bounds, vars
<1>9. ASSUME RESTART PROVE BoundsTypeOK'
  <2>1. restarts < MaxRestarts /\ restarts' = restarts + 1 /\ UNCHANGED faults BY <1>9 DEF RESTART
  <2>2. MaxRestarts \in Nat BY DEF McuConnectAssumption
  <2> QED BY <2>1, <2>2 DEF BoundsTypeOK
<1>10. ASSUME NEW m \in Mcu, HandleShutdown(m) PROVE BoundsTypeOK'
  BY <1>10 DEF HandleShutdown, BoundsTypeOK, fwVars, mcuVars, hostVars, bounds, vars
<1>11. ASSUME NEW m \in Mcu, CheckActive(m) PROVE BoundsTypeOK'
  BY <1>11 DEF CheckActive, Shutdown, Stopped, SetState, BoundsTypeOK, fwVars, mcuVars, hostVars, bounds, vars
<1>12. ASSUME NEW m \in Mcu, ClockTimerRaises(m) PROVE BoundsTypeOK'
  BY <1>12 DEF ClockTimerRaises, Shutdown, Stopped, SetState, BoundsTypeOK, fwVars, mcuVars, hostVars, bounds, vars
<1>13. ASSUME NEW m \in Mcu, EmergencyStop(m) PROVE BoundsTypeOK'
  BY <1>13 DEF EmergencyStop, BoundsTypeOK, fwVars, mcuVars, hostVars, bounds, vars
<1>14. ASSUME NEW m \in Mcu, MissesObject(m) PROVE BoundsTypeOK'
  BY <1>14 DEF MissesObject, BoundsTypeOK, fwVars, mcuVars, hostVars, bounds, vars
<1>15. ASSUME NEW m \in Mcu, Fault(m) PROVE BoundsTypeOK'
  <2>1. faults < MaxFaults /\ faults' = faults + 1 /\ UNCHANGED restarts BY <1>15 DEF Fault
  <2>2. MaxFaults \in Nat BY DEF McuConnectAssumption
  <2> QED BY <2>1, <2>2 DEF BoundsTypeOK
<1>16. ASSUME NEW m \in Mcu, LinkReturns(m) PROVE BoundsTypeOK'
  BY <1>16 DEF LinkReturns, BoundsTypeOK, fwVars, mcuVars, hostVars, bounds, vars
<1>17. CASE UNCHANGED vars
  BY <1>17 DEF BoundsTypeOK, fwVars, mcuVars, hostVars, bounds, vars
<1> QED
  BY <1>1, <1>2, <1>3, <1>4, <1>5, <1>6, <1>7, <1>8, <1>9, <1>10, <1>11, <1>12, <1>13, <1>14, <1>15, <1>16,
     <1>17 DEF Next, Host, Answers

LEMMA FirmwareTypeOKStep ==
  ASSUME McuConnectAssumption, TypeOK, [Next]_vars
  PROVE  FirmwareTypeOK'
<1>1. ASSUME Identify PROVE FirmwareTypeOK'
  BY <1>1, InTurn DEF Identify, This, ConnectFails, CheckRestart, MayRestart, RequestExit, SetState,
     FirmwareTypeOK, TypeOK, fwVars, mcuVars, hostVars, bounds, vars
<1>2. ASSUME Abandoned PROVE FirmwareTypeOK'
  BY <1>2 DEF Abandoned, FirmwareTypeOK, TypeOK, fwVars, mcuVars, hostVars, bounds, vars
<1>3. ASSUME Connect PROVE FirmwareTypeOK'
  BY <1>3, InTurn DEF Connect, Refuses, ConnectFails, CheckRestart, MayRestart, RequestExit, SetState, Connected,
     IsLast, FirmwareTypeOK, TypeOK, fwVars, mcuVars, hostVars, bounds, vars
<1>4. ASSUME Configured PROVE FirmwareTypeOK'
  BY <1>4, InTurn DEF Configured, Refuses, ConnectFails, SetState, Connected, IsLast, FirmwareTypeOK, TypeOK,
     fwVars, mcuVars, hostVars, bounds, vars
<1>5. ASSUME ExitResets PROVE FirmwareTypeOK'
  BY <1>5, InTurnAtExit DEF ExitResets, NewSession, IsOpen, MayReset, All, FirmwareTypeOK, TypeOK, fwVars, mcuVars,
     hostVars, bounds, vars
<1>6. ASSUME ExitEnds PROVE FirmwareTypeOK'
  BY <1>6 DEF ExitEnds, NewSession, IsOpen, All, FirmwareTypeOK, TypeOK, fwVars, mcuVars, hostVars, bounds, vars
<1>7. ASSUME AsyncShutdown PROVE FirmwareTypeOK'
  BY <1>7 DEF AsyncShutdown, Shutdown, Stopped, SetState, FirmwareTypeOK, TypeOK, fwVars, mcuVars, hostVars,
     bounds, vars
<1>8. ASSUME FIRMWARE_RESTART PROVE FirmwareTypeOK'
  BY <1>8 DEF FIRMWARE_RESTART, RequestExit, FirmwareTypeOK, TypeOK, fwVars, mcuVars, hostVars, bounds, vars
<1>9. ASSUME RESTART PROVE FirmwareTypeOK'
  BY <1>9 DEF RESTART, RequestExit, FirmwareTypeOK, TypeOK, fwVars, mcuVars, hostVars, bounds, vars
<1>10. ASSUME NEW m \in Mcu, HandleShutdown(m) PROVE FirmwareTypeOK'
  BY <1>10 DEF HandleShutdown, FirmwareTypeOK, TypeOK, fwVars, mcuVars, hostVars, bounds, vars
<1>11. ASSUME NEW m \in Mcu, CheckActive(m) PROVE FirmwareTypeOK'
  BY <1>11 DEF CheckActive, Shutdown, Stopped, SetState, FirmwareTypeOK, TypeOK, fwVars, mcuVars, hostVars, bounds,
     vars
<1>12. ASSUME NEW m \in Mcu, ClockTimerRaises(m) PROVE FirmwareTypeOK'
  BY <1>12 DEF ClockTimerRaises, Shutdown, Stopped, SetState, FirmwareTypeOK, TypeOK, fwVars, mcuVars, hostVars,
     bounds, vars
<1>13. ASSUME NEW m \in Mcu, EmergencyStop(m) PROVE FirmwareTypeOK'
  BY <1>13 DEF EmergencyStop, FirmwareTypeOK, TypeOK, fwVars, mcuVars, hostVars, bounds, vars
<1>14. ASSUME NEW m \in Mcu, MissesObject(m) PROVE FirmwareTypeOK'
  BY <1>14 DEF MissesObject, FirmwareTypeOK, TypeOK, fwVars, mcuVars, hostVars, bounds, vars
<1>15. ASSUME NEW m \in Mcu, Fault(m) PROVE FirmwareTypeOK'
  BY <1>15 DEF Fault, FirmwareTypeOK, TypeOK, fwVars, mcuVars, hostVars, bounds, vars
<1>16. ASSUME NEW m \in Mcu, LinkReturns(m) PROVE FirmwareTypeOK'
  BY <1>16 DEF LinkReturns, FirmwareTypeOK, TypeOK, fwVars, mcuVars, hostVars, bounds, vars
<1>17. CASE UNCHANGED vars
  BY <1>17 DEF FirmwareTypeOK, TypeOK, fwVars, mcuVars, hostVars, bounds, vars
<1> QED
  BY <1>1, <1>2, <1>3, <1>4, <1>5, <1>6, <1>7, <1>8, <1>9, <1>10, <1>11, <1>12, <1>13, <1>14, <1>15, <1>16,
     <1>17 DEF Next, Host, Answers

LEMMA HostTypeOKStep ==
  ASSUME McuConnectAssumption, TypeOK, [Next]_vars
  PROVE  HostTypeOK'
<1>1. ASSUME Identify PROVE HostTypeOK'
  BY <1>1 DEF Identify, This, ConnectFails, CheckRestart, MayRestart, RequestExit, SetState, HostTypeOK, TypeOK,
     fwVars, mcuVars, hostVars, bounds, vars
<1>2. ASSUME Abandoned PROVE HostTypeOK'
  BY <1>2 DEF Abandoned, HostTypeOK, TypeOK, fwVars, mcuVars, hostVars, bounds, vars
<1>3. ASSUME Connect PROVE HostTypeOK'
  BY <1>3 DEF Connect, Refuses, ConnectFails, CheckRestart, MayRestart, RequestExit, SetState, Connected, IsLast,
     HostTypeOK, TypeOK, fwVars, mcuVars, hostVars, bounds, vars
<1>4. ASSUME Configured PROVE HostTypeOK'
  BY <1>4 DEF Configured, Refuses, ConnectFails, SetState, Connected, IsLast, HostTypeOK, TypeOK, fwVars, mcuVars,
     hostVars, bounds, vars
<1>5. ASSUME ExitResets PROVE HostTypeOK'
  BY <1>5 DEF ExitResets, NewSession, IsOpen, MayReset, All, HostTypeOK, TypeOK, fwVars, mcuVars, hostVars, bounds,
     vars
<1>6. ASSUME ExitEnds PROVE HostTypeOK'
  BY <1>6 DEF ExitEnds, NewSession, IsOpen, All, HostTypeOK, TypeOK, fwVars, mcuVars, hostVars, bounds, vars
<1>7. ASSUME AsyncShutdown PROVE HostTypeOK'
  BY <1>7 DEF AsyncShutdown, Shutdown, Stopped, SetState, HostTypeOK, TypeOK, fwVars, mcuVars, hostVars, bounds, vars
<1>8. ASSUME FIRMWARE_RESTART PROVE HostTypeOK'
  BY <1>8 DEF FIRMWARE_RESTART, RequestExit, HostTypeOK, TypeOK, fwVars, mcuVars, hostVars, bounds, vars
<1>9. ASSUME RESTART PROVE HostTypeOK'
  BY <1>9 DEF RESTART, RequestExit, HostTypeOK, TypeOK, fwVars, mcuVars, hostVars, bounds, vars
<1>10. ASSUME NEW m \in Mcu, HandleShutdown(m) PROVE HostTypeOK'
  BY <1>10 DEF HandleShutdown, HostTypeOK, TypeOK, fwVars, mcuVars, hostVars, bounds, vars
<1>11. ASSUME NEW m \in Mcu, CheckActive(m) PROVE HostTypeOK'
  BY <1>11 DEF CheckActive, Shutdown, Stopped, SetState, HostTypeOK, TypeOK, fwVars, mcuVars, hostVars, bounds, vars
<1>12. ASSUME NEW m \in Mcu, ClockTimerRaises(m) PROVE HostTypeOK'
  BY <1>12 DEF ClockTimerRaises, Shutdown, Stopped, SetState, HostTypeOK, TypeOK, fwVars, mcuVars, hostVars,
     bounds, vars
<1>13. ASSUME NEW m \in Mcu, EmergencyStop(m) PROVE HostTypeOK'
  BY <1>13 DEF EmergencyStop, HostTypeOK, TypeOK, fwVars, mcuVars, hostVars, bounds, vars
<1>14. ASSUME NEW m \in Mcu, MissesObject(m) PROVE HostTypeOK'
  BY <1>14 DEF MissesObject, HostTypeOK, TypeOK, fwVars, mcuVars, hostVars, bounds, vars
<1>15. ASSUME NEW m \in Mcu, Fault(m) PROVE HostTypeOK'
  BY <1>15 DEF Fault, HostTypeOK, TypeOK, fwVars, mcuVars, hostVars, bounds, vars
<1>16. ASSUME NEW m \in Mcu, LinkReturns(m) PROVE HostTypeOK'
  BY <1>16 DEF LinkReturns, HostTypeOK, TypeOK, fwVars, mcuVars, hostVars, bounds, vars
<1>17. CASE UNCHANGED vars
  BY <1>17 DEF HostTypeOK, TypeOK, fwVars, mcuVars, hostVars, bounds, vars
<1> QED
  BY <1>1, <1>2, <1>3, <1>4, <1>5, <1>6, <1>7, <1>8, <1>9, <1>10, <1>11, <1>12, <1>13, <1>14, <1>15, <1>16,
     <1>17 DEF Next, Host, Answers

LEMMA SessionTypeOKStep ==
  ASSUME McuConnectAssumption, TypeOK, [Next]_vars
  PROVE  SessionTypeOK'
<1>1. ASSUME Identify PROVE SessionTypeOK'
  BY <1>1, InTurn DEF Identify, This, ConnectFails, CheckRestart, MayRestart, RequestExit, SetState, SessionTypeOK,
     TypeOK, fwVars, mcuVars, hostVars, bounds, vars
<1>2. ASSUME Abandoned PROVE SessionTypeOK'
  BY <1>2 DEF Abandoned, SessionTypeOK, TypeOK, fwVars, mcuVars, hostVars, bounds, vars
<1>3. ASSUME Connect PROVE SessionTypeOK'
  BY <1>3, InTurn DEF Connect, Refuses, ConnectFails, CheckRestart, MayRestart, RequestExit, SetState, Connected,
     IsLast, SessionTypeOK, TypeOK, fwVars, mcuVars, hostVars, bounds, vars
<1>4. ASSUME Configured PROVE SessionTypeOK'
  BY <1>4, InTurn DEF Configured, Refuses, ConnectFails, SetState, Connected, IsLast, SessionTypeOK, TypeOK,
     fwVars, mcuVars, hostVars, bounds, vars
<1>5. ASSUME ExitResets PROVE SessionTypeOK'
  BY <1>5, InTurnAtExit DEF ExitResets, NewSession, IsOpen, MayReset, All, SessionTypeOK, TypeOK, fwVars, mcuVars,
     hostVars, bounds, vars
<1>6. ASSUME ExitEnds PROVE SessionTypeOK'
  BY <1>6 DEF ExitEnds, NewSession, IsOpen, All, SessionTypeOK, TypeOK, fwVars, mcuVars, hostVars, bounds, vars
<1>7. ASSUME AsyncShutdown PROVE SessionTypeOK'
  BY <1>7 DEF AsyncShutdown, Shutdown, Stopped, SetState, SessionTypeOK, TypeOK, fwVars, mcuVars, hostVars, bounds,
     vars
<1>8. ASSUME FIRMWARE_RESTART PROVE SessionTypeOK'
  BY <1>8 DEF FIRMWARE_RESTART, RequestExit, SessionTypeOK, TypeOK, fwVars, mcuVars, hostVars, bounds, vars
<1>9. ASSUME RESTART PROVE SessionTypeOK'
  BY <1>9 DEF RESTART, RequestExit, SessionTypeOK, TypeOK, fwVars, mcuVars, hostVars, bounds, vars
<1>10. ASSUME NEW m \in Mcu, HandleShutdown(m) PROVE SessionTypeOK'
  BY <1>10 DEF HandleShutdown, SessionTypeOK, TypeOK, fwVars, mcuVars, hostVars, bounds, vars
<1>11. ASSUME NEW m \in Mcu, CheckActive(m) PROVE SessionTypeOK'
  BY <1>11 DEF CheckActive, Shutdown, Stopped, SetState, SessionTypeOK, TypeOK, fwVars, mcuVars, hostVars, bounds,
     vars
<1>12. ASSUME NEW m \in Mcu, ClockTimerRaises(m) PROVE SessionTypeOK'
  BY <1>12 DEF ClockTimerRaises, Shutdown, Stopped, SetState, SessionTypeOK, TypeOK, fwVars, mcuVars, hostVars,
     bounds, vars
<1>13. ASSUME NEW m \in Mcu, EmergencyStop(m) PROVE SessionTypeOK'
  BY <1>13 DEF EmergencyStop, SessionTypeOK, TypeOK, fwVars, mcuVars, hostVars, bounds, vars
<1>14. ASSUME NEW m \in Mcu, MissesObject(m) PROVE SessionTypeOK'
  BY <1>14 DEF MissesObject, SessionTypeOK, TypeOK, fwVars, mcuVars, hostVars, bounds, vars
<1>15. ASSUME NEW m \in Mcu, Fault(m) PROVE SessionTypeOK'
  BY <1>15 DEF Fault, SessionTypeOK, TypeOK, fwVars, mcuVars, hostVars, bounds, vars
<1>16. ASSUME NEW m \in Mcu, LinkReturns(m) PROVE SessionTypeOK'
  BY <1>16 DEF LinkReturns, SessionTypeOK, TypeOK, fwVars, mcuVars, hostVars, bounds, vars
<1>17. CASE UNCHANGED vars
  BY <1>17 DEF SessionTypeOK, TypeOK, fwVars, mcuVars, hostVars, bounds, vars
<1> QED
  BY <1>1, <1>2, <1>3, <1>4, <1>5, <1>6, <1>7, <1>8, <1>9, <1>10, <1>11, <1>12, <1>13, <1>14, <1>15, <1>16,
     <1>17 DEF Next, Host, Answers

-----------------------------------------------------------------------------
(* The shutdown.                                                            *)
LEMMA ShutdownShowsStep ==
  ASSUME McuConnectAssumption, IInv, [Next]_vars
  PROVE  ShutdownShows'
<1>1. ASSUME Identify PROVE ShutdownShows'
  BY <1>1 DEF Identify, This, ConnectFails, CheckRestart, MayRestart, RequestExit, SetState, ShutdownShows, IInv,
     TypeOK, HostTypeOK, fwVars, mcuVars, hostVars, bounds, vars
<1>2. ASSUME Abandoned PROVE ShutdownShows'
  BY <1>2 DEF Abandoned, ShutdownShows, IInv, TypeOK, HostTypeOK, fwVars, mcuVars, hostVars, bounds, vars
<1>3. ASSUME Connect PROVE ShutdownShows'
  BY <1>3 DEF Connect, Refuses, ConnectFails, CheckRestart, MayRestart, RequestExit, SetState, Connected, IsLast,
     ShutdownShows, IInv, TypeOK, HostTypeOK, fwVars, mcuVars, hostVars, bounds, vars
<1>4. ASSUME Configured PROVE ShutdownShows'
  BY <1>4 DEF Configured, Refuses, ConnectFails, SetState, Connected, IsLast, ShutdownShows, IInv, TypeOK,
     HostTypeOK, fwVars, mcuVars, hostVars, bounds, vars
<1>5. ASSUME ExitResets PROVE ShutdownShows'
  BY <1>5 DEF ExitResets, NewSession, IsOpen, MayReset, All, ShutdownShows, IInv, TypeOK, HostTypeOK, fwVars,
     mcuVars, hostVars, bounds, vars
<1>6. ASSUME ExitEnds PROVE ShutdownShows'
  BY <1>6 DEF ExitEnds, NewSession, IsOpen, All, ShutdownShows, IInv, TypeOK, HostTypeOK, fwVars, mcuVars,
     hostVars, bounds, vars
<1>7. ASSUME AsyncShutdown PROVE ShutdownShows'
  BY <1>7 DEF AsyncShutdown, Shutdown, Stopped, SetState, ShutdownShows, IInv, TypeOK, HostTypeOK, fwVars, mcuVars,
     hostVars, bounds, vars
<1>8. ASSUME FIRMWARE_RESTART PROVE ShutdownShows'
  BY <1>8 DEF FIRMWARE_RESTART, RequestExit, ShutdownShows, IInv, TypeOK, HostTypeOK, fwVars, mcuVars, hostVars,
     bounds, vars
<1>9. ASSUME RESTART PROVE ShutdownShows'
  BY <1>9 DEF RESTART, RequestExit, ShutdownShows, IInv, TypeOK, HostTypeOK, fwVars, mcuVars, hostVars, bounds, vars
<1>10. ASSUME NEW m \in Mcu, HandleShutdown(m) PROVE ShutdownShows'
  BY <1>10 DEF HandleShutdown, ShutdownShows, IInv, TypeOK, HostTypeOK, fwVars, mcuVars, hostVars, bounds, vars
<1>11. ASSUME NEW m \in Mcu, CheckActive(m) PROVE ShutdownShows'
  BY <1>11 DEF CheckActive, Shutdown, Stopped, SetState, ShutdownShows, IInv, TypeOK, HostTypeOK, fwVars, mcuVars,
     hostVars, bounds, vars
<1>12. ASSUME NEW m \in Mcu, ClockTimerRaises(m) PROVE ShutdownShows'
  BY <1>12 DEF ClockTimerRaises, Shutdown, Stopped, SetState, ShutdownShows, IInv, TypeOK, HostTypeOK, fwVars,
     mcuVars, hostVars, bounds, vars
<1>13. ASSUME NEW m \in Mcu, EmergencyStop(m) PROVE ShutdownShows'
  BY <1>13 DEF EmergencyStop, ShutdownShows, IInv, TypeOK, HostTypeOK, fwVars, mcuVars, hostVars, bounds, vars
<1>14. ASSUME NEW m \in Mcu, MissesObject(m) PROVE ShutdownShows'
  BY <1>14 DEF MissesObject, ShutdownShows, IInv, TypeOK, HostTypeOK, fwVars, mcuVars, hostVars, bounds, vars
<1>15. ASSUME NEW m \in Mcu, Fault(m) PROVE ShutdownShows'
  BY <1>15 DEF Fault, ShutdownShows, IInv, TypeOK, HostTypeOK, fwVars, mcuVars, hostVars, bounds, vars
<1>16. ASSUME NEW m \in Mcu, LinkReturns(m) PROVE ShutdownShows'
  BY <1>16 DEF LinkReturns, ShutdownShows, IInv, TypeOK, HostTypeOK, fwVars, mcuVars, hostVars, bounds, vars
<1>17. CASE UNCHANGED vars
  BY <1>17 DEF ShutdownShows, IInv, TypeOK, HostTypeOK, fwVars, mcuVars, hostVars, bounds, vars
<1> QED
  BY <1>1, <1>2, <1>3, <1>4, <1>5, <1>6, <1>7, <1>8, <1>9, <1>10, <1>11, <1>12, <1>13, <1>14, <1>15, <1>16,
     <1>17 DEF Next, Host, Answers

LEMMA KnownIsDownStep ==
  ASSUME McuConnectAssumption, IInv, [Next]_vars
  PROVE  KnownIsDown'
<1>1. ASSUME Identify PROVE KnownIsDown'
  BY <1>1, InTurn DEF Identify, This, ConnectFails, CheckRestart, MayRestart, RequestExit, SetState, KnownIsDown,
     IdentifyIsFresh, IInv, TypeOK, FirmwareTypeOK, SessionTypeOK, fwVars, mcuVars, hostVars, bounds, vars
<1>2. ASSUME Abandoned PROVE KnownIsDown'
  BY <1>2 DEF Abandoned, KnownIsDown, IdentifyIsFresh, IInv, TypeOK, FirmwareTypeOK, SessionTypeOK, fwVars,
     mcuVars, hostVars, bounds, vars
<1>3. ASSUME Connect PROVE KnownIsDown'
  BY <1>3, InTurn DEF Connect, Refuses, ConnectFails, CheckRestart, MayRestart, RequestExit, SetState, Connected,
     IsLast, KnownIsDown, IdentifyIsFresh, IInv, TypeOK, FirmwareTypeOK, SessionTypeOK, fwVars, mcuVars, hostVars,
     bounds, vars
<1>4. ASSUME Configured PROVE KnownIsDown'
  BY <1>4, InTurn DEF Configured, Refuses, ConnectFails, SetState, Connected, IsLast, KnownIsDown, IdentifyIsFresh,
     IInv, TypeOK, FirmwareTypeOK, SessionTypeOK, fwVars, mcuVars, hostVars, bounds, vars
<1>5. ASSUME ExitResets PROVE KnownIsDown'
  BY <1>5, InTurnAtExit DEF ExitResets, NewSession, IsOpen, MayReset, All, KnownIsDown, IdentifyIsFresh, IInv,
     TypeOK, FirmwareTypeOK, SessionTypeOK, fwVars, mcuVars, hostVars, bounds, vars
<1>6. ASSUME ExitEnds PROVE KnownIsDown'
  BY <1>6 DEF ExitEnds, NewSession, IsOpen, All, KnownIsDown, IdentifyIsFresh, IInv, TypeOK, FirmwareTypeOK,
     SessionTypeOK, fwVars, mcuVars, hostVars, bounds, vars
<1>7. ASSUME AsyncShutdown PROVE KnownIsDown'
  BY <1>7 DEF AsyncShutdown, Shutdown, Stopped, SetState, KnownIsDown, IdentifyIsFresh, IInv, TypeOK,
     FirmwareTypeOK, SessionTypeOK, fwVars, mcuVars, hostVars, bounds, vars
<1>8. ASSUME FIRMWARE_RESTART PROVE KnownIsDown'
  BY <1>8 DEF FIRMWARE_RESTART, RequestExit, KnownIsDown, IdentifyIsFresh, IInv, TypeOK, FirmwareTypeOK,
     SessionTypeOK, fwVars, mcuVars, hostVars, bounds, vars
<1>9. ASSUME RESTART PROVE KnownIsDown'
  BY <1>9 DEF RESTART, RequestExit, KnownIsDown, IdentifyIsFresh, IInv, TypeOK, FirmwareTypeOK, SessionTypeOK,
     fwVars, mcuVars, hostVars, bounds, vars
<1>10. ASSUME NEW m \in Mcu, HandleShutdown(m) PROVE KnownIsDown'
  BY <1>10 DEF HandleShutdown, KnownIsDown, IdentifyIsFresh, IInv, TypeOK, FirmwareTypeOK, SessionTypeOK, fwVars,
     mcuVars, hostVars, bounds, vars
<1>11. ASSUME NEW m \in Mcu, CheckActive(m) PROVE KnownIsDown'
  BY <1>11 DEF CheckActive, Shutdown, Stopped, SetState, KnownIsDown, IdentifyIsFresh, IInv, TypeOK,
     FirmwareTypeOK, SessionTypeOK, fwVars, mcuVars, hostVars, bounds, vars
<1>12. ASSUME NEW m \in Mcu, ClockTimerRaises(m) PROVE KnownIsDown'
  BY <1>12 DEF ClockTimerRaises, Shutdown, Stopped, SetState, KnownIsDown, IdentifyIsFresh, IInv, TypeOK,
     FirmwareTypeOK, SessionTypeOK, fwVars, mcuVars, hostVars, bounds, vars
<1>13. ASSUME NEW m \in Mcu, EmergencyStop(m) PROVE KnownIsDown'
  BY <1>13 DEF EmergencyStop, KnownIsDown, IdentifyIsFresh, IInv, TypeOK, FirmwareTypeOK, SessionTypeOK, fwVars,
     mcuVars, hostVars, bounds, vars
<1>14. ASSUME NEW m \in Mcu, MissesObject(m) PROVE KnownIsDown'
  BY <1>14 DEF MissesObject, KnownIsDown, IdentifyIsFresh, IInv, TypeOK, FirmwareTypeOK, SessionTypeOK, fwVars,
     mcuVars, hostVars, bounds, vars
<1>15. ASSUME NEW m \in Mcu, Fault(m) PROVE KnownIsDown'
  BY <1>15 DEF Fault, KnownIsDown, IdentifyIsFresh, IInv, TypeOK, FirmwareTypeOK, SessionTypeOK, fwVars,
     mcuVars, hostVars, bounds, vars
<1>16. ASSUME NEW m \in Mcu, LinkReturns(m) PROVE KnownIsDown'
  BY <1>16 DEF LinkReturns, KnownIsDown, IdentifyIsFresh, IInv, TypeOK, FirmwareTypeOK, SessionTypeOK, fwVars,
     mcuVars, hostVars, bounds, vars
<1>17. CASE UNCHANGED vars
  BY <1>17 DEF KnownIsDown, IdentifyIsFresh, IInv, TypeOK, FirmwareTypeOK, SessionTypeOK, fwVars, mcuVars,
     hostVars, bounds, vars
<1> QED
  BY <1>1, <1>2, <1>3, <1>4, <1>5, <1>6, <1>7, <1>8, <1>9, <1>10, <1>11, <1>12, <1>13, <1>14, <1>15, <1>16,
     <1>17 DEF Next, Host, Answers

LEMMA StopReachesStep ==
  ASSUME McuConnectAssumption, IInv, [Next]_vars
  PROVE  StopReaches'
<1>1. ASSUME Identify PROVE StopReaches'
  <2>1. phase = "identify" /\ phase' # "configured" /\ sync' = sync
    BY <1>1 DEF Identify, ConnectFails, CheckRestart, RequestExit
  <2>2. \A m \in Mcu : ~sync[m] BY <2>1 DEF IInv, IdentifyIsFresh
  <2>3. \A m \in Mcu : ~sync'[m] BY <2>1, <2>2
  <2>4. \A m \in Mcu : ~InUse(m)' BY <2>1, <2>3 DEF InUse
  <2> QED BY <2>4 DEF StopReaches
<1>2. ASSUME Abandoned PROVE StopReaches'
  BY <1>2 DEF Abandoned, StopReaches, InUse, KnownIsDown, IdentifyIsFresh, ShutdownShows, IInv, TypeOK,
     FirmwareTypeOK, HostTypeOK, SessionTypeOK, This, fwVars, mcuVars, hostVars, bounds, vars
<1>3. ASSUME Connect PROVE StopReaches'
  BY <1>3, InTurn DEF Connect, Refuses, ConnectFails, CheckRestart, MayRestart, RequestExit, SetState, Connected,
     IsLast, StopReaches, InUse, KnownIsDown, IdentifyIsFresh, ShutdownShows, IInv, TypeOK, FirmwareTypeOK,
     HostTypeOK, SessionTypeOK, This, fwVars, mcuVars, hostVars, bounds, vars
<1>4. ASSUME Configured PROVE StopReaches'
  <2>1. phase = "configured" /\ phase' # "configured" /\ This \in Mcu
    BY <1>4, InTurn DEF Configured, ConnectFails, Connected, IInv, TypeOK
  <2>2. UNCHANGED <<down, inShutdown, conf>> BY <1>4 DEF Configured, ConnectFails, Connected
  <2>3. \/ UNCHANGED <<sync, serial, stop>>
        \/ sync' = [sync EXCEPT ![This] = TRUE] /\ UNCHANGED <<serial, stop>>
        \/ /\ serial' = [serial EXCEPT ![This] = "closed"] /\ stop' = [stop EXCEPT ![This] = FALSE]
           /\ UNCHANGED sync
    BY <1>4 DEF Configured, Connected
  <2>4. ASSUME NEW m \in Mcu, InUse(m)' PROVE InUse(m) /\ stop'[m] = stop[m]
    BY <2>1, <2>3, <2>4 DEF InUse, IInv, TypeOK, SessionTypeOK
  <2> QED BY <2>2, <2>4 DEF StopReaches, IInv
<1>5. ASSUME ExitResets PROVE StopReaches'
  <2>1. CASE NewSession(IsOpen)
    BY <2>1 DEF NewSession, All, StopReaches
  <2>2. CASE /\ phase' = phase /\ UNCHANGED <<inShutdown, sync>>
             /\ \/ /\ conf' = [conf EXCEPT ![This] = "none"] /\ down' = [down EXCEPT ![This] = FALSE]
                   /\ serial' = [serial EXCEPT ![This] = "closed"] /\ stop' = [stop EXCEPT ![This] = FALSE]
                \/ UNCHANGED <<conf, down, serial, stop>>
    <3>1. phase # "configured" BY <1>5 DEF ExitResets
    <3>2. ASSUME NEW m \in Mcu, InUse(m)'
          PROVE  InUse(m) /\ down'[m] = down[m] /\ stop'[m] = stop[m] /\ conf'[m] = conf[m]
      BY <2>2, <3>1, <3>2 DEF InUse, IInv, TypeOK, FirmwareTypeOK, SessionTypeOK
    <3> QED BY <2>2, <3>2 DEF StopReaches, IInv
  <2> QED BY <1>5, <2>1, <2>2 DEF ExitResets, fwVars
<1>6. ASSUME ExitEnds PROVE StopReaches'
  BY <1>6 DEF ExitEnds, NewSession, IsOpen, All, StopReaches, InUse, KnownIsDown, IdentifyIsFresh, ShutdownShows,
     IInv, TypeOK, FirmwareTypeOK, HostTypeOK, SessionTypeOK, This, fwVars, mcuVars, hostVars, bounds, vars
<1>7. ASSUME AsyncShutdown PROVE StopReaches'
  BY <1>7 DEF AsyncShutdown, Shutdown, Stopped, SetState, StopReaches, InUse, KnownIsDown, IdentifyIsFresh,
     ShutdownShows, IInv, TypeOK, FirmwareTypeOK, HostTypeOK, SessionTypeOK, This, fwVars, mcuVars, hostVars,
     bounds, vars
<1>8. ASSUME FIRMWARE_RESTART PROVE StopReaches'
  BY <1>8 DEF FIRMWARE_RESTART, RequestExit, StopReaches, InUse, KnownIsDown, IdentifyIsFresh, ShutdownShows, IInv,
     TypeOK, FirmwareTypeOK, HostTypeOK, SessionTypeOK, This, fwVars, mcuVars, hostVars, bounds, vars
<1>9. ASSUME RESTART PROVE StopReaches'
  BY <1>9 DEF RESTART, RequestExit, StopReaches, InUse, KnownIsDown, IdentifyIsFresh, ShutdownShows, IInv, TypeOK,
     FirmwareTypeOK, HostTypeOK, SessionTypeOK, This, fwVars, mcuVars, hostVars, bounds, vars
<1>10. ASSUME NEW m \in Mcu, HandleShutdown(m) PROVE StopReaches'
  BY <1>10 DEF HandleShutdown, StopReaches, InUse, KnownIsDown, IdentifyIsFresh, ShutdownShows, IInv, TypeOK,
     FirmwareTypeOK, HostTypeOK, SessionTypeOK, This, fwVars, mcuVars, hostVars, bounds, vars
<1>11. ASSUME NEW m \in Mcu, CheckActive(m) PROVE StopReaches'
  BY <1>11 DEF CheckActive, Shutdown, Stopped, SetState, StopReaches, InUse, KnownIsDown, IdentifyIsFresh,
     ShutdownShows, IInv, TypeOK, FirmwareTypeOK, HostTypeOK, SessionTypeOK, This, fwVars, mcuVars, hostVars,
     bounds, vars
<1>12. ASSUME NEW m \in Mcu, ClockTimerRaises(m) PROVE StopReaches'
  BY <1>12 DEF ClockTimerRaises, Shutdown, Stopped, SetState, StopReaches, InUse, KnownIsDown, IdentifyIsFresh,
     ShutdownShows, IInv, TypeOK, FirmwareTypeOK, HostTypeOK, SessionTypeOK, This, fwVars, mcuVars, hostVars,
     bounds, vars
<1>13. ASSUME NEW m \in Mcu, EmergencyStop(m) PROVE StopReaches'
  BY <1>13 DEF EmergencyStop, StopReaches, InUse, KnownIsDown, IdentifyIsFresh, ShutdownShows, IInv, TypeOK,
     FirmwareTypeOK, HostTypeOK, SessionTypeOK, This, fwVars, mcuVars, hostVars, bounds, vars
<1>14. ASSUME NEW m \in Mcu, MissesObject(m) PROVE StopReaches'
  BY <1>14 DEF MissesObject, StopReaches, InUse, KnownIsDown, IdentifyIsFresh, ShutdownShows, IInv, TypeOK,
     FirmwareTypeOK, HostTypeOK, SessionTypeOK, This, fwVars, mcuVars, hostVars, bounds, vars
<1>15. ASSUME NEW m \in Mcu, Fault(m) PROVE StopReaches'
  BY <1>15 DEF Fault, StopReaches, InUse, KnownIsDown, IdentifyIsFresh, ShutdownShows, IInv, TypeOK,
     FirmwareTypeOK, HostTypeOK, SessionTypeOK, This, fwVars, mcuVars, hostVars, bounds, vars
<1>16. ASSUME NEW m \in Mcu, LinkReturns(m) PROVE StopReaches'
  BY <1>16 DEF LinkReturns, StopReaches, InUse, KnownIsDown, IdentifyIsFresh, ShutdownShows, IInv, TypeOK,
     FirmwareTypeOK, HostTypeOK, SessionTypeOK, This, fwVars, mcuVars, hostVars, bounds, vars
<1>17. CASE UNCHANGED vars
  BY <1>17 DEF StopReaches, InUse, KnownIsDown, IdentifyIsFresh, ShutdownShows, IInv, TypeOK, FirmwareTypeOK,
     HostTypeOK, SessionTypeOK, This, fwVars, mcuVars, hostVars, bounds, vars
<1> QED
  BY <1>1, <1>2, <1>3, <1>4, <1>5, <1>6, <1>7, <1>8, <1>9, <1>10, <1>11, <1>12, <1>13, <1>14, <1>15, <1>16,
     <1>17 DEF Next, Host, Answers

LEMMA IdentifyIsFreshStep ==
  ASSUME McuConnectAssumption, IInv, [Next]_vars
  PROVE  IdentifyIsFresh'
<1>1. ASSUME Identify PROVE IdentifyIsFresh'
  BY <1>1, InTurn DEF Identify, This, ConnectFails, CheckRestart, MayRestart, RequestExit, SetState,
     IdentifyIsFresh, IInv, TypeOK, SessionTypeOK, fwVars, mcuVars, hostVars, bounds, vars
<1>2. ASSUME Abandoned PROVE IdentifyIsFresh'
  BY <1>2 DEF Abandoned, IdentifyIsFresh, IInv, TypeOK, SessionTypeOK, fwVars, mcuVars, hostVars, bounds, vars
<1>3. ASSUME Connect PROVE IdentifyIsFresh'
  BY <1>3, InTurn DEF Connect, Refuses, ConnectFails, CheckRestart, MayRestart, RequestExit, SetState, Connected,
     IsLast, IdentifyIsFresh, IInv, TypeOK, SessionTypeOK, fwVars, mcuVars, hostVars, bounds, vars
<1>4. ASSUME Configured PROVE IdentifyIsFresh'
  BY <1>4, InTurn DEF Configured, Refuses, ConnectFails, SetState, Connected, IsLast, IdentifyIsFresh, IInv,
     TypeOK, SessionTypeOK, fwVars, mcuVars, hostVars, bounds, vars
<1>5. ASSUME ExitResets PROVE IdentifyIsFresh'
  BY <1>5, InTurnAtExit DEF ExitResets, NewSession, IsOpen, MayReset, All, IdentifyIsFresh, IInv, TypeOK,
     SessionTypeOK, fwVars, mcuVars, hostVars, bounds, vars
<1>6. ASSUME ExitEnds PROVE IdentifyIsFresh'
  BY <1>6 DEF ExitEnds, NewSession, IsOpen, All, IdentifyIsFresh, IInv, TypeOK, SessionTypeOK, fwVars, mcuVars,
     hostVars, bounds, vars
<1>7. ASSUME AsyncShutdown PROVE IdentifyIsFresh'
  BY <1>7 DEF AsyncShutdown, Shutdown, Stopped, SetState, IdentifyIsFresh, IInv, TypeOK, SessionTypeOK, fwVars,
     mcuVars, hostVars, bounds, vars
<1>8. ASSUME FIRMWARE_RESTART PROVE IdentifyIsFresh'
  BY <1>8 DEF FIRMWARE_RESTART, RequestExit, IdentifyIsFresh, IInv, TypeOK, SessionTypeOK, fwVars, mcuVars,
     hostVars, bounds, vars
<1>9. ASSUME RESTART PROVE IdentifyIsFresh'
  BY <1>9 DEF RESTART, RequestExit, IdentifyIsFresh, IInv, TypeOK, SessionTypeOK, fwVars, mcuVars, hostVars,
     bounds, vars
<1>10. ASSUME NEW m \in Mcu, HandleShutdown(m) PROVE IdentifyIsFresh'
  BY <1>10 DEF HandleShutdown, IdentifyIsFresh, IInv, TypeOK, SessionTypeOK, fwVars, mcuVars, hostVars, bounds, vars
<1>11. ASSUME NEW m \in Mcu, CheckActive(m) PROVE IdentifyIsFresh'
  BY <1>11 DEF CheckActive, Shutdown, Stopped, SetState, IdentifyIsFresh, IInv, TypeOK, SessionTypeOK, fwVars,
     mcuVars, hostVars, bounds, vars
<1>12. ASSUME NEW m \in Mcu, ClockTimerRaises(m) PROVE IdentifyIsFresh'
  BY <1>12 DEF ClockTimerRaises, Shutdown, Stopped, SetState, IdentifyIsFresh, IInv, TypeOK, SessionTypeOK, fwVars,
     mcuVars, hostVars, bounds, vars
<1>13. ASSUME NEW m \in Mcu, EmergencyStop(m) PROVE IdentifyIsFresh'
  BY <1>13 DEF EmergencyStop, IdentifyIsFresh, IInv, TypeOK, SessionTypeOK, fwVars, mcuVars, hostVars, bounds, vars
<1>14. ASSUME NEW m \in Mcu, MissesObject(m) PROVE IdentifyIsFresh'
  BY <1>14 DEF MissesObject, IdentifyIsFresh, IInv, TypeOK, SessionTypeOK, fwVars, mcuVars, hostVars, bounds, vars
<1>15. ASSUME NEW m \in Mcu, Fault(m) PROVE IdentifyIsFresh'
  BY <1>15 DEF Fault, IdentifyIsFresh, IInv, TypeOK, SessionTypeOK, fwVars, mcuVars, hostVars, bounds, vars
<1>16. ASSUME NEW m \in Mcu, LinkReturns(m) PROVE IdentifyIsFresh'
  BY <1>16 DEF LinkReturns, IdentifyIsFresh, IInv, TypeOK, SessionTypeOK, fwVars, mcuVars, hostVars, bounds, vars
<1>17. CASE UNCHANGED vars
  BY <1>17 DEF IdentifyIsFresh, IInv, TypeOK, SessionTypeOK, fwVars, mcuVars, hostVars, bounds, vars
<1> QED
  BY <1>1, <1>2, <1>3, <1>4, <1>5, <1>6, <1>7, <1>8, <1>9, <1>10, <1>11, <1>12, <1>13, <1>14, <1>15, <1>16,
     <1>17 DEF Next, Host, Answers

-----------------------------------------------------------------------------
(* The invariant.                                                            *)

LEMMA InitIsIInv ==
  ASSUME McuConnectAssumption, Init
  PROVE  IInv
<1>1. NextTypeOK BY OrderIsSeq DEF Init, NextTypeOK
<1>2. BoundsTypeOK
  <2>1. MaxFaults \in Nat /\ MaxRestarts \in Nat BY DEF McuConnectAssumption
  <2>2. faults = 0 /\ restarts = 0 BY DEF Init
  <2> QED BY <2>1, <2>2 DEF BoundsTypeOK
<1>3. FirmwareTypeOK BY DEF Init, FirmwareTypeOK, All
<1>4. HostTypeOK BY DEF Init, HostTypeOK
<1>5. SessionTypeOK BY DEF Init, SessionTypeOK, All
<1>6. ShutdownShows /\ StopReaches BY DEF Init, ShutdownShows, StopReaches
<1>7. KnownIsDown /\ IdentifyIsFresh BY DEF Init, KnownIsDown, IdentifyIsFresh, All
<1> QED BY <1>1, <1>2, <1>3, <1>4, <1>5, <1>6, <1>7 DEF IInv, TypeOK

LEMMA NextKeepsIInv ==
  ASSUME McuConnectAssumption, IInv, [Next]_vars
  PROVE  IInv'
BY NextTypeOKStep, BoundsTypeOKStep, FirmwareTypeOKStep, HostTypeOKStep, SessionTypeOKStep,
   ShutdownShowsStep, KnownIsDownStep, StopReachesStep, IdentifyIsFreshStep DEF IInv, TypeOK

\* What klippy.py and mcu.py know of a shutdown holds in every session, however
\* the micro-controllers, the links and the user interrupt it.
THEOREM ConnectInvariant ==
  ASSUME McuConnectAssumption
  PROVE  Spec => []IInv
<1>1. Init => IInv BY InitIsIInv
<1>2. IInv /\ [Next]_vars => IInv' BY NextKeepsIInv
<1> QED BY <1>1, <1>2, PTL DEF Spec

LEMMA IInvSuffices ==
  ASSUME IInv
  PROVE  TypeOK /\ ShutdownShows /\ ShutdownReaches
BY DEF IInv, StopReaches, InUse, ShutdownReaches

\* A printer that was shut down never tells its clients that it is ready or
\* starting, and the emergency stop has reached every micro-controller that the
\* session configured or waits in its queue (invoke_shutdown, MCU._shutdown).
THEOREM ShutdownIsSeen ==
  ASSUME McuConnectAssumption
  PROVE  Spec => [](ShutdownShows /\ ShutdownReaches)
BY ConnectInvariant, IInvSuffices, PTL

-----------------------------------------------------------------------------
(* The connection of one micro-controller: SerialConn, with constants and  *)
(* variables of its own. Its list pending is called awaited here.          *)

CONSTANTS Clients, Key, Chunks, Retries, MaxSessions, MaxLost, MaxQueries, MaxTicks, Wrap, TIMEOUT_ACTIVE
VARIABLES g, handlers, awaited, wire, back, session, open, connected, lost, clock, last_clock, queries_pending,
          sampled

SN == INSTANCE SerialConn WITH pending <- awaited

LEMMA LineConstants ==
  ASSUME SN!SerialConnAssumption
  PROVE  /\ Chunks \in Nat /\ Retries \in Nat /\ MaxSessions \in Nat /\ MaxLost \in Nat /\ MaxQueries \in Nat
         /\ MaxTicks \in Nat /\ Wrap \in Nat /\ TIMEOUT_ACTIVE \in Nat /\ Wrap > 0
         /\ \A c \in Clients : c \in Nat /\ c > MaxSessions /\ Key[c] \in Nat /\ Key[c] > 0
BY DEF SN!SerialConnAssumption

LEMMA GreenletsAreNumbers ==
  ASSUME SN!SerialConnAssumption
  PROVE  /\ SN!Greenlets = 1..MaxSessions \cup Clients
         /\ \A c \in SN!Greenlets : /\ c \in Nat /\ c > 0
                                    /\ SN!KeyOf(c) = IF c \in Clients THEN Key[c] ELSE 0
                                    /\ SN!KeyOf(c) \in Nat
                                    /\ c \in Clients \/ c \in 1..MaxSessions
         /\ \A s \in 1..MaxSessions : s \notin Clients
BY LineConstants DEF SN!Greenlets, SN!KeyOf

LEMMA ArgIsNat ==
  ASSUME SN!SerialConnAssumption, NEW c \in SN!Greenlets, NEW x, x.data \in Nat
  PROVE  SN!Arg(c, x) \in Nat
BY GreenletsAreNumbers DEF SN!Arg

-----------------------------------------------------------------------------
(* The clock.                                                              *)

\* What a remainder says of a number that is near, and may lie before.
LEMMA NearIsFound ==
  ASSUME NEW W \in Nat, NEW a \in Int, NEW b \in Int, NEW d \in Nat, d = 0 \/ d = W,
         0 <= a - b + d, a - b + d < W
  PROVE  ((a % W) - b) % W = a - b + d
<1>1. W > 0 OBVIOUS
<1> DEFINE q == a \div W
           r == a % W
           p == (r - b) \div W
           t == (r - b) % W
           e == IF d = 0 THEN 0 ELSE 1
           k == p + q + e
<1>2. a = W * q + r /\ q \in Int /\ r \in Int BY <1>1, Z3
<1>3. r - b = W * p + t /\ p \in Int /\ t \in 0 .. W - 1 BY <1>1, <1>2, Z3
<1>4. d = W * e /\ e \in Int BY <1>1
<1> HIDE DEF q, r, p, t, e
<1>5. k \in Int /\ a - b + d - t = W * k BY <1>1, <1>2, <1>3, <1>4, Z3
<1>6. t \in Int /\ - W < a - b + d - t /\ a - b + d - t < W BY <1>3, <1>1
<1> HIDE DEF k
<1>7. k >= 1 => W * k >= W BY <1>1, <1>5, Z3
<1>8. k <= -1 => W * k <= - W BY <1>1, <1>5, Z3
<1>9. k = 0 BY <1>1, <1>5, <1>6, <1>7, <1>8
<1>10. W * k = 0 BY <1>1, <1>9
<1>11. a - b + d = t BY <1>5, <1>6, <1>10
<1> QED BY <1>11 DEF t, r

\* An answer extends the clock rightly while no more queries than allowed were missed.
LEMMA AnswerExtends ==
  ASSUME SN!SerialConnAssumption, SN!ClockTurnsLate, NEW c \in Nat, last_clock \in Nat,
         0 <= c - last_clock, c - last_clock <= TIMEOUT_ACTIVE + 1
  PROVE  SN!Extended(c % Wrap) = c
<1> DEFINE last == last_clock
<1>1. Wrap \in Nat /\ TIMEOUT_ACTIVE \in Nat /\ 2 * (TIMEOUT_ACTIVE + 1) <= Wrap
  BY LineConstants DEF SN!ClockTurnsLate
<1>2. /\ Wrap \in Nat /\ c \in Int /\ last \in Int /\ 0 \in Nat
      /\ 0 <= c - last + 0 /\ c - last + 0 < Wrap
  BY <1>1
<1> HIDE DEF last
<1>3. ((c % Wrap) - last) % Wrap = c - last + 0
  BY <1>2, NearIsFound, Zenon
<1> QED BY <1>2, <1>3 DEF SN!Extended, last

\* An event of this tick or the last one is given its full time.
LEMMA EventExtends ==
  ASSUME SN!SerialConnAssumption, SN!ClockTurnsLate, NEW c \in Nat, last_clock \in Nat,
         -1 <= c - last_clock, c - last_clock <= TIMEOUT_ACTIVE
  PROVE  SN!clock32_to_clock64(c % Wrap) = c
<1> DEFINE last == last_clock
           diff == ((c % Wrap) - last) % Wrap
           d == IF c - last = -1 THEN Wrap ELSE 0
<1>1. Wrap \in Nat /\ TIMEOUT_ACTIVE \in Nat /\ 2 * (TIMEOUT_ACTIVE + 1) <= Wrap
  BY LineConstants DEF SN!ClockTurnsLate
<1>2. Wrap \div 2 \in Nat /\ TIMEOUT_ACTIVE < Wrap \div 2 /\ Wrap \div 2 <= Wrap - 1 BY <1>1
<1>3. /\ d \in Nat /\ (d = 0 \/ d = Wrap) /\ last \in Int /\ c \in Int /\ Wrap \in Nat
      /\ 0 <= c - last + d /\ c - last + d < Wrap
  BY <1>1
<1> HIDE DEF d, last
<1>4. diff = c - last + d BY <1>3, NearIsFound, Zenon
<1>5. IF diff >= Wrap \div 2 THEN diff - Wrap = c - last ELSE diff = c - last
  <2> HIDE DEF diff
  <2> QED BY <1>1, <1>2, <1>3, <1>4 DEF d, last
<1> HIDE DEF diff
<1>6. SN!clock32_to_clock64(c % Wrap) = last + (IF diff >= Wrap \div 2 THEN diff - Wrap ELSE diff)
  BY DEF SN!clock32_to_clock64, diff, last
<1>7. diff \in Int BY <1>1, <1>3, <1>4
<1> QED BY <1>1, <1>3, <1>5, <1>6, <1>7

-----------------------------------------------------------------------------
(* The steps of a query.                                                   *)

\* The state of a greenlet.
GreenletStates == [pc : SN!Places, tries : 0..Retries, got : Nat \cup {-1}, data : Nat]
HandlerMaps == [{SN!KeyOf(c) : c \in SN!Greenlets} -> SN!Greenlets \cup {0}]

LEMMA GreenletTypes ==
  ASSUME SN!TypeOK
  PROVE  g \in [SN!Greenlets -> GreenletStates] /\ handlers \in HandlerMaps
BY DEF SN!TypeOK, SN!GreenletsTypeOK, SN!None, GreenletStates, HandlerMaps

LEMMA CommandTypes ==
  ASSUME SN!TypeOK
  PROVE  /\ Len(wire) \in Nat /\ DOMAIN wire = 1..Len(wire)
         /\ \A i \in DOMAIN wire : wire[i] \in [from : SN!Greenlets, arg : Nat]
<1> DEFINE Command == [from : SN!Greenlets, arg : Nat]
<1>1. wire \in Seq(Command) BY DEF SN!TypeOK, SN!LineTypeOK
<1> HIDE DEF Command
<1>2. /\ Len(wire) \in Nat /\ DOMAIN wire = 1..Len(wire)
      /\ \A i \in DOMAIN wire : wire[i] \in Command
  BY <1>1
<1> QED BY <1>2 DEF Command

LEMMA MessageTypes ==
  ASSUME SN!TypeOK
  PROVE  /\ Len(back) \in Nat /\ DOMAIN back = 1..Len(back)
         /\ \A i \in DOMAIN back : back[i] \in [ack : BOOLEAN, from : Nat, arg : Nat]
<1> DEFINE Message == [ack : BOOLEAN, from : Nat, arg : Nat]
<1>1. back \in Seq(Message) BY DEF SN!TypeOK, SN!LineTypeOK
<1> HIDE DEF Message
<1>2. /\ Len(back) \in Nat /\ DOMAIN back = 1..Len(back)
      /\ \A i \in DOMAIN back : back[i] \in Message
  BY <1>1
<1> QED BY <1>2 DEF Message

LEMMA AcksAreOfWaiters ==
  ASSUME SN!SerialConnAssumption, SN!IInv, NEW i \in DOMAIN back, back[i].ack
  PROVE  back[i].from \in SN!Greenlets /\ g[back[i].from].pc = "wait"
<1>1. back[i].from \in SN!Greenlets BY DEF SN!IInv, SN!TypeOK, SN!LineTypeOK
<1>2. g[back[i].from].pc = "wait" BY DEF SN!IInv, SN!LineIsOfWaiters
<1> QED BY <1>1, <1>2

\* What is set in the state of a greenlet.
LEMMA ChangesOfState ==
  ASSUME SN!SerialConnAssumption, NEW x \in GreenletStates
  PROVE  /\ \A p \in SN!Places : /\ [x EXCEPT !.pc = p] \in GreenletStates /\ [x EXCEPT !.pc = p].pc = p
                                 /\ [x EXCEPT !.pc = p].data = x.data /\ [x EXCEPT !.pc = p].got = x.got
         /\ \A n \in Nat \cup {-1} : /\ [x EXCEPT !.got = n] \in GreenletStates /\ [x EXCEPT !.got = n].got = n
                                     /\ [x EXCEPT !.got = n].pc = x.pc /\ [x EXCEPT !.got = n].data = x.data
         /\ SN!Begun(x) \in GreenletStates /\ SN!Begun(x).pc = "send" /\ SN!Begun(x).data = x.data
         /\ SN!Begun(x).got = -1
         /\ \A n \in Nat : [x EXCEPT !.data = n] \in GreenletStates /\ [x EXCEPT !.data = n].data = n
<1>1. Retries \in Nat BY LineConstants
<1>2. /\ SN!Begun(x) \in GreenletStates /\ SN!Begun(x).pc = "send" /\ SN!Begun(x).data = x.data
      /\ SN!Begun(x).got = -1
  <2>1. x.pc \in SN!Places /\ x.tries \in 0..Retries /\ Retries \in 0..Retries /\ "send" \in SN!Places
    BY <1>1 DEF GreenletStates, SN!Places
  <2>2. [x EXCEPT !.pc = "send", !.tries = Retries, !.got = -1] \in GreenletStates
    BY <2>1 DEF GreenletStates
  <2>3. SN!Begun(x) = [x EXCEPT !.pc = "send", !.tries = Retries, !.got = -1]
    BY DEF SN!Begun, SN!None
  <2>4. /\ SN!Begun(x).pc = "send" /\ SN!Begun(x).data = x.data /\ SN!Begun(x).got = -1
    BY <2>3 DEF GreenletStates
  <2> QED BY <2>2, <2>3, <2>4
<1>3. \A p \in SN!Places : /\ [x EXCEPT !.pc = p] \in GreenletStates /\ [x EXCEPT !.pc = p].pc = p
                           /\ [x EXCEPT !.pc = p].data = x.data /\ [x EXCEPT !.pc = p].got = x.got
  BY DEF GreenletStates
<1>4. \A n \in Nat \cup {-1} : /\ [x EXCEPT !.got = n] \in GreenletStates /\ [x EXCEPT !.got = n].got = n
                              /\ [x EXCEPT !.got = n].pc = x.pc /\ [x EXCEPT !.got = n].data = x.data
  BY DEF GreenletStates
<1>5. \A n \in Nat : [x EXCEPT !.data = n] \in GreenletStates /\ [x EXCEPT !.data = n].data = n
  BY DEF GreenletStates
<1> QED BY <1>2, <1>3, <1>4, <1>5

\* A greenlet that does not wait goes on without beginning to.
LEMMA GoesOnKeeps ==
  ASSUME SN!SerialConnAssumption, SN!IInv, NEW c \in SN!Greenlets, g[c].pc # "wait",
         NEW x \in GreenletStates, x.pc # "wait", g' = [g EXCEPT ![c] = x], handlers' \in HandlerMaps,
         UNCHANGED <<awaited, wire, back, lost>>
  PROVE  /\ SN!GreenletsTypeOK' /\ SN!LineTypeOK' /\ SN!NobodyWaitsInVain' /\ SN!LineIsOfWaiters'
         /\ g'[c] = x /\ \A d \in SN!Greenlets : d # c => g'[d] = g[d]
<1>0. SN!TypeOK /\ SN!LineTypeOK /\ SN!NobodyWaitsInVain /\ SN!LineIsOfWaiters BY DEF SN!IInv, SN!TypeOK
<1>1. g \in [SN!Greenlets -> GreenletStates] /\ handlers \in HandlerMaps BY <1>0, GreenletTypes
<1>2. g'[c] = x /\ \A d \in SN!Greenlets : d # c => g'[d] = g[d] BY <1>1
<1>3. SN!GreenletsTypeOK' BY <1>1 DEF SN!GreenletsTypeOK, SN!None, GreenletStates, HandlerMaps
<1>4. SN!LineTypeOK' BY <1>0, <1>1 DEF HandlerMaps, SN!LineTypeOK
<1>5. SN!NobodyWaitsInVain' BY <1>0, <1>2 DEF SN!NobodyWaitsInVain
<1>6. SN!LineIsOfWaiters'
  <2>1. \A i \in DOMAIN wire : wire[i].from # c /\ wire[i].from \in SN!Greenlets
    <3>1. \A i \in DOMAIN wire : wire[i].from \in SN!Greenlets BY <1>0, CommandTypes
    <3> QED BY <1>0, <3>1 DEF SN!LineIsOfWaiters
  <2>2. \A i \in DOMAIN back : back[i].ack => back[i].from # c /\ back[i].from \in SN!Greenlets
    BY AcksAreOfWaiters
  <2> QED BY <1>0, <1>2, <2>1, <2>2 DEF SN!LineIsOfWaiters, SN!Arg
<1> QED BY <1>2, <1>3, <1>4, <1>5, <1>6

\* What a step of a query leaves alone.
Quiet == UNCHANGED <<session, open, connected, clock, last_clock, queries_pending, sampled>>

LEMMA QuietKeeps ==
  ASSUME SN!IInv, Quiet
  PROVE  SN!SessionTypeOK'
BY DEF Quiet, SN!IInv, SN!TypeOK, SN!SessionTypeOK

\* A greenlet of a session ends with the whole dictionary, a client begins when there is a connection.
LEMMA SessionsGoOn ==
  ASSUME SN!SerialConnAssumption, SN!IInv, NEW c \in SN!Greenlets, Quiet, g[c].pc \notin {"off", "done"},
         g'[c].pc # "off", c \in Clients \/ g'[c].pc # "done" \/ g'[c].data = Chunks,
         \A d \in SN!Greenlets : d # c => g'[d] = g[d]
  PROVE  SN!SessionsAreRight'
<1>1. SN!SessionsAreRight /\ session \in 0..MaxSessions BY DEF SN!IInv, SN!TypeOK, SN!SessionTypeOK
<1>2. UNCHANGED <<session, open, connected>> BY DEF Quiet
<1> QED BY <1>1, <1>2, GreenletsAreNumbers DEF SN!SessionsAreRight

LEMMA SendKeeps ==
  ASSUME SN!SerialConnAssumption, SN!IInv, NEW c \in SN!Greenlets, SN!raw_send_wait_ack(c)
  PROVE  SN!IInv'
<1>0. SN!TypeOK /\ SN!LineTypeOK /\ SN!NobodyWaitsInVain /\ SN!LineIsOfWaiters BY DEF SN!IInv, SN!TypeOK
<1>1. g[c].pc \in {"send", "pause"} /\ UNCHANGED <<handlers, back, lost>> /\ Quiet
  BY DEF SN!raw_send_wait_ack, SN!clocks, Quiet
<1>2. /\ g \in [SN!Greenlets -> GreenletStates] /\ g[c] \in GreenletStates /\ handlers \in HandlerMaps
  BY <1>0, GreenletTypes
<1>3. SN!SessionTypeOK' BY <1>1, QuietKeeps
<1>4. CASE open
  <2> DEFINE command == [from |-> c, arg |-> SN!Arg(c, g[c])]
             x == [g[c] EXCEPT !.pc = "wait"]
             Command == [from : SN!Greenlets, arg : Nat]
  <2>1. wire' = Append(wire, command) /\ awaited' = awaited \cup {c} /\ g' = [g EXCEPT ![c] = x]
    BY <1>4 DEF SN!raw_send_wait_ack
  <2>2. command \in Command /\ command.from = c /\ command.arg = SN!Arg(c, g[c])
    <3>1. SN!Arg(c, g[c]) \in Nat BY <1>2, ArgIsNat DEF GreenletStates
    <3> QED BY <3>1
  <2>3. x \in GreenletStates /\ x.pc = "wait" /\ x.data = g[c].data
    BY <1>2, ChangesOfState DEF SN!Places
  <2> HIDE DEF command, x
  <2>4. /\ \A d \in SN!Greenlets : d # c => g'[d] = g[d]
        /\ g'[c].pc = "wait" /\ g'[c].data = g[c].data
    BY <1>2, <2>1, <2>3
  <2>5. /\ \A i \in DOMAIN wire : wire'[i] = wire[i] /\ wire[i].from # c /\ wire[i].from \in SN!Greenlets
        /\ wire'[Len(wire) + 1] = command /\ DOMAIN wire' = 1..Len(wire) + 1
        /\ Len(wire) \in Nat /\ DOMAIN wire = 1..Len(wire) /\ wire' \in Seq(Command)
    <3>1. wire \in Seq(Command) BY <1>0 DEF SN!LineTypeOK
    <3>2. \A i \in DOMAIN wire : wire[i].from # c BY <1>0, <1>1 DEF SN!LineIsOfWaiters
    <3>3. \A i \in DOMAIN wire : wire[i].from \in SN!Greenlets BY <1>0, CommandTypes
    <3> HIDE DEF Command
    <3> QED BY <2>1, <2>2, <3>1, <3>2, <3>3
  <2>6. \A i \in DOMAIN back : back[i].ack => back[i].from # c /\ back[i].from \in SN!Greenlets
    BY <1>1, AcksAreOfWaiters
  <2>7. SN!GreenletsTypeOK' BY <1>1, <1>2, <2>1, <2>3
    DEF SN!GreenletsTypeOK, GreenletStates, HandlerMaps, SN!None
  <2>8. SN!LineTypeOK' BY <1>0, <1>1, <2>1, <2>5 DEF SN!LineTypeOK
  <2>9. SN!NobodyWaitsInVain' BY <1>0, <1>1, <2>1, <2>2, <2>4, <2>5 DEF SN!NobodyWaitsInVain
  <2>10. SN!LineIsOfWaiters'
    <3>1. \A d \in SN!Greenlets : d \in awaited' <=> g'[d].pc = "wait"
      BY <1>0, <2>1, <2>4 DEF SN!LineIsOfWaiters
    <3>2. \A i \in DOMAIN wire' : /\ g'[wire'[i].from].pc = "wait"
                                  /\ wire'[i].arg = SN!Arg(wire'[i].from, g'[wire'[i].from])
                                  /\ \A j \in DOMAIN wire' : wire'[i].from = wire'[j].from => i = j
      <4>1. \A i \in DOMAIN wire' : i = Len(wire) + 1 \/ i \in DOMAIN wire BY <2>5
      <4>2. /\ SN!Arg(c, g'[c]) = SN!Arg(c, g[c])
            /\ \A i \in DOMAIN wire : SN!Arg(wire[i].from, g'[wire[i].from]) = SN!Arg(wire[i].from, g[wire[i].from])
        BY <2>4, <2>5 DEF SN!Arg
      <4>3. \A i \in DOMAIN wire : /\ g'[wire'[i].from].pc = "wait"
                                   /\ wire'[i].arg = SN!Arg(wire'[i].from, g'[wire'[i].from])
        BY <1>0, <2>4, <2>5, <4>2 DEF SN!LineIsOfWaiters
      <4>4. \A i, j \in DOMAIN wire' : wire'[i].from = wire'[j].from => i = j
        BY <1>0, <2>2, <2>5, <4>1 DEF SN!LineIsOfWaiters
      <4> QED BY <2>2, <2>4, <2>5, <4>1, <4>2, <4>3, <4>4
    <3>3. \A i \in DOMAIN back : back[i].ack =>
            /\ g'[back[i].from].pc = "wait"
            /\ \A j \in DOMAIN back : back[j].ack /\ back[i].from = back[j].from => i = j
            /\ \A j \in DOMAIN wire' : wire'[j].from # back[i].from
      BY <1>0, <2>2, <2>4, <2>5, <2>6 DEF SN!LineIsOfWaiters
    <3> QED BY <1>1, <3>1, <3>2, <3>3 DEF SN!LineIsOfWaiters
  <2>11. SN!SessionsAreRight' BY <1>1, <2>4, SessionsGoOn
  <2> QED BY <1>3, <2>7, <2>8, <2>9, <2>10, <2>11 DEF SN!IInv, SN!TypeOK
<1>5. CASE ~open
  <2> DEFINE x == [g[c] EXCEPT !.pc = "stray"]
  <2>1. g' = [g EXCEPT ![c] = x] /\ UNCHANGED <<wire, awaited>>
    BY <1>5 DEF SN!raw_send_wait_ack
  <2>2. x \in GreenletStates /\ x.pc = "stray" BY <1>2, ChangesOfState DEF SN!Places
  <2> HIDE DEF x
  <2>3. /\ SN!GreenletsTypeOK' /\ SN!LineTypeOK' /\ SN!NobodyWaitsInVain' /\ SN!LineIsOfWaiters'
        /\ g'[c] = x /\ \A d \in SN!Greenlets : d # c => g'[d] = g[d]
    BY <1>1, <1>2, <2>1, <2>2, GoesOnKeeps
  <2>4. SN!SessionsAreRight' BY <1>1, <2>2, <2>3, SessionsGoOn
  <2> QED BY <1>3, <2>3, <2>4 DEF SN!IInv, SN!TypeOK
<1> QED BY <1>0, <1>4, <1>5 DEF SN!TypeOK, SN!SessionTypeOK

LEMMA ResponseKeeps ==
  ASSUME SN!SerialConnAssumption, SN!IInv, NEW c \in SN!Greenlets, SN!get_response(c)
  PROVE  SN!IInv'
<1>0. SN!TypeOK BY DEF SN!IInv
<1>1. g[c].pc = "acked" /\ UNCHANGED <<awaited, wire, back, lost>> /\ Quiet
  BY DEF SN!get_response, SN!clocks, Quiet
<1>2. /\ g \in [SN!Greenlets -> GreenletStates] /\ g[c] \in GreenletStates /\ handlers \in HandlerMaps
  BY <1>0, GreenletTypes
<1>3. PICK x \in GreenletStates :
        /\ g' = [g EXCEPT ![c] = x] /\ x.pc \in {"send", "done", "pause", "failed", "stray"}
        /\ c \notin Clients /\ x.pc = "done" => x.data = Chunks
  <2>1. CASE g' = [g EXCEPT ![c] = SN!Answered(c, @)]
    <3> DEFINE y == SN!Answered(c, g[c])
    <3>1. y \in GreenletStates /\ y.pc \in {"send", "done"} /\ (c \notin Clients /\ y.pc = "done" => y.data = Chunks)
      <4>1. CASE c \in Clients \/ (g[c].got = g[c].data /\ g[c].data = Chunks)
        <5>1. y = [g[c] EXCEPT !.pc = "done"] BY <4>1 DEF SN!Answered
        <5>2. "done" \in SN!Places BY DEF SN!Places
        <5>3. y \in GreenletStates /\ y.pc = "done" /\ y.data = g[c].data
          <6> HIDE DEF y
          <6> QED BY <1>2, <5>1, <5>2, ChangesOfState
        <5> QED BY <4>1, <5>3
      <4>2. CASE c \notin Clients /\ ~(g[c].got = g[c].data /\ g[c].data = Chunks)
        <5> DEFINE n == IF g[c].got = g[c].data THEN g[c].data + 1 ELSE g[c].data
        <5>1. y = SN!Begun([g[c] EXCEPT !.data = n]) BY <4>2 DEF SN!Answered
        <5>2. n \in Nat BY <1>2 DEF GreenletStates
        <5>3. [g[c] EXCEPT !.data = n] \in GreenletStates
          <6> HIDE DEF n
          <6> QED BY <1>2, <5>2, ChangesOfState
        <5> QED BY <5>1, <5>3, ChangesOfState
      <4> QED BY <4>1, <4>2
    <3> HIDE DEF y
    <3>2. g' = [g EXCEPT ![c] = y] BY <2>1 DEF y
    <3> QED BY <3>1, <3>2
  <2>2. CASE g' = [g EXCEPT ![c].pc = "pause", ![c].tries = @ - 1] /\ g[c].tries > 0
    <3> DEFINE y == [g[c] EXCEPT !.pc = "pause", !.tries = @ - 1]
    <3>1. y \in GreenletStates /\ y.pc = "pause" BY <1>2, <2>2, LineConstants DEF GreenletStates, SN!Places
    <3>2. g' = [g EXCEPT ![c] = y] BY <1>2, <2>2
    <3> HIDE DEF y
    <3> QED BY <3>1, <3>2
  <2>3. ASSUME NEW p \in {"failed", "stray"}, g' = [g EXCEPT ![c].pc = p]
        PROVE  \E y \in GreenletStates : g' = [g EXCEPT ![c] = y] /\ y.pc = p
    <3> DEFINE y == [g[c] EXCEPT !.pc = p]
    <3>0. p \in SN!Places BY DEF SN!Places
    <3>1. y \in GreenletStates /\ y.pc = p BY <1>2, <3>0, ChangesOfState
    <3>2. g' = [g EXCEPT ![c] = y] BY <1>2, <2>3
    <3> HIDE DEF y
    <3> QED BY <3>1, <3>2
  <2>4. \/ g' = [g EXCEPT ![c] = SN!Answered(c, @)]
        \/ g' = [g EXCEPT ![c].pc = "pause", ![c].tries = @ - 1] /\ g[c].tries > 0
        \/ \E p \in {"failed", "stray"} : g' = [g EXCEPT ![c].pc = p]
    BY DEF SN!get_response
  <2>5. CASE \E p \in {"failed", "stray"} : g' = [g EXCEPT ![c].pc = p]
    <3>1. PICK p \in {"failed", "stray"} : g' = [g EXCEPT ![c].pc = p] BY <2>5
    <3>2. PICK y \in GreenletStates : g' = [g EXCEPT ![c] = y] /\ y.pc = p BY <2>3, <3>1
    <3> QED BY <3>1, <3>2
  <2> QED BY <2>1, <2>2, <2>4, <2>5
<1>4. handlers' \in HandlerMaps
  <2>1. UNCHANGED handlers \/ handlers' = SN!Unregistered(c) \/ handlers' = [handlers EXCEPT ![SN!KeyOf(c)] = c]
    BY DEF SN!get_response
  <2> QED BY <1>2, <2>1 DEF SN!Unregistered, HandlerMaps
<1>5. /\ SN!GreenletsTypeOK' /\ SN!LineTypeOK' /\ SN!NobodyWaitsInVain' /\ SN!LineIsOfWaiters'
      /\ g'[c] = x /\ \A d \in SN!Greenlets : d # c => g'[d] = g[d]
  BY <1>1, <1>3, <1>4, GoesOnKeeps
<1>6. SN!SessionsAreRight' BY <1>1, <1>3, <1>5, SessionsGoOn
<1> QED BY <1>1, <1>5, <1>6, QuietKeeps DEF SN!IInv, SN!TypeOK

LEMMA QueryKeeps ==
  ASSUME SN!SerialConnAssumption, SN!IInv, NEW c \in Clients, SN!query(c)
  PROVE  SN!IInv'
<1> DEFINE asks == [g[c] EXCEPT !.data = @ + 1]
           x == SN!Begun(asks)
<1>0. SN!TypeOK BY DEF SN!IInv
<1>1. connected /\ g[c].pc \in {"off", "done", "failed"} /\ UNCHANGED <<awaited, wire, back, lost>> /\ Quiet
  BY DEF SN!query, SN!clocks, Quiet
<1>2. g' = [g EXCEPT ![c] = x] /\ handlers' = [handlers EXCEPT ![SN!KeyOf(c)] = c]
  BY DEF SN!query, SN!Register
<1>3. c \in SN!Greenlets /\ c \notin 1..MaxSessions BY GreenletsAreNumbers
<1>4. g \in [SN!Greenlets -> GreenletStates] /\ handlers \in HandlerMaps BY <1>0, GreenletTypes
<1>5. g[c] \in GreenletStates BY <1>3, <1>4
<1>6. x \in GreenletStates /\ x.pc = "send"
  <2>1. asks \in GreenletStates BY <1>5 DEF GreenletStates
  <2> HIDE DEF asks
  <2> QED BY <2>1, ChangesOfState
<1>7. handlers' \in HandlerMaps BY <1>2, <1>3, <1>4 DEF HandlerMaps
<1> HIDE DEF x
<1>8. /\ SN!GreenletsTypeOK' /\ SN!LineTypeOK' /\ SN!NobodyWaitsInVain' /\ SN!LineIsOfWaiters'
      /\ g'[c] = x /\ \A d \in SN!Greenlets : d # c => g'[d] = g[d]
  BY <1>1, <1>2, <1>3, <1>6, <1>7, GoesOnKeeps
<1>9. SN!SessionsAreRight'
  <2>1. SN!SessionsAreRight /\ session \in 0..MaxSessions BY <1>0 DEF SN!IInv, SN!TypeOK, SN!SessionTypeOK
  <2>2. \A s \in 1..MaxSessions : s \in SN!Greenlets /\ g'[s] = g[s] BY <1>3, <1>8, GreenletsAreNumbers
  <2>3. UNCHANGED <<session, open, connected>> BY <1>1 DEF Quiet
  <2> QED BY <1>1, <2>1, <2>2, <2>3 DEF SN!SessionsAreRight
<1> QED BY <1>1, <1>8, <1>9, QuietKeeps DEF SN!IInv, SN!TypeOK


LEMMA StartKeeps ==
  ASSUME SN!SerialConnAssumption, SN!IInv, SN!_start_session
  PROVE  SN!IInv'
<1> DEFINE c == session + 1
           x == SN!Begun(g[c])
<1>0. SN!TypeOK /\ SN!SessionsAreRight BY DEF SN!IInv
<1>1. /\ ~open /\ ~connected /\ session < MaxSessions /\ session' = c /\ open' = TRUE /\ connected' = connected
      /\ UNCHANGED <<awaited, wire, back, lost, clock, last_clock, queries_pending, sampled>>
  BY DEF SN!_start_session, SN!clocks
<1>2. g' = [g EXCEPT ![c] = x] /\ handlers' = [handlers EXCEPT ![SN!KeyOf(c)] = c]
  BY <1>1 DEF SN!_start_session, SN!Register
<1>3. session \in Nat /\ MaxSessions \in Nat /\ c \in 1..MaxSessions /\ session' \in 0..MaxSessions /\ c > session
  BY <1>0, <1>1, LineConstants DEF SN!TypeOK, SN!SessionTypeOK
<1>4. c \in SN!Greenlets /\ c \notin Clients /\ c \in 1..MaxSessions BY <1>3, GreenletsAreNumbers
<1>5. g \in [SN!Greenlets -> GreenletStates] /\ handlers \in HandlerMaps BY <1>0, GreenletTypes
<1> HIDE DEF c
<1>6. g[c].pc = "off" BY <1>0, <1>3 DEF SN!SessionsAreRight
<1>7. x \in GreenletStates /\ x.pc = "send" BY <1>4, <1>5, ChangesOfState
<1>8. handlers' \in HandlerMaps BY <1>2, <1>4, <1>5 DEF HandlerMaps
<1> HIDE DEF x
<1>9. /\ SN!GreenletsTypeOK' /\ SN!LineTypeOK' /\ SN!NobodyWaitsInVain' /\ SN!LineIsOfWaiters'
      /\ g'[c] = x /\ \A d \in SN!Greenlets : d # c => g'[d] = g[d]
  BY <1>1, <1>2, <1>4, <1>6, <1>7, <1>8, GoesOnKeeps
<1>10. SN!SessionsAreRight'
  <2>1. \A s \in 1..MaxSessions : s # c => g'[s] = g[s] BY <1>9, GreenletsAreNumbers
  <2>2. \A d \in Clients : g'[d] = g[d] BY <1>4, <1>9, GreenletsAreNumbers
  <2> QED BY <1>0, <1>1, <1>3, <1>7, <1>9, <2>1, <2>2 DEF SN!SessionsAreRight
<1>11. SN!SessionTypeOK' BY <1>0, <1>1, <1>3 DEF SN!TypeOK, SN!SessionTypeOK
<1> QED BY <1>1, <1>9, <1>10, <1>11 DEF SN!IInv, SN!TypeOK

LEMMA IdentifiedKeeps ==
  ASSUME SN!SerialConnAssumption, SN!IInv, SN!identified
  PROVE  SN!IInv'
<1>0. SN!TypeOK /\ SN!SessionsAreRight BY DEF SN!IInv
<1>1. /\ open /\ g[session].pc = "done" /\ connected' = TRUE
      /\ UNCHANGED <<g, handlers, awaited, wire, back, session, open, lost>>
      /\ UNCHANGED <<clock, last_clock, queries_pending, sampled>>
  BY DEF SN!identified, SN!clocks
<1>2. SN!TypeOK'
  BY <1>0, <1>1 DEF SN!TypeOK, SN!GreenletsTypeOK, SN!LineTypeOK, SN!SessionTypeOK
<1>3. SN!SessionsAreRight' BY <1>0, <1>1 DEF SN!SessionsAreRight
<1> QED BY <1>1, <1>2, <1>3 DEF SN!IInv, SN!NobodyWaitsInVain, SN!LineIsOfWaiters, SN!Arg

LEMMA DisconnectKeeps ==
  ASSUME SN!SerialConnAssumption, SN!IInv, SN!disconnect
  PROVE  SN!IInv'
<1>0. SN!TypeOK /\ SN!SessionsAreRight /\ SN!LineIsOfWaiters BY DEF SN!IInv
<1>1. /\ ~connected /\ awaited' = {} /\ wire' = <<>> /\ back' = <<>> /\ open' = FALSE
      /\ g' = [c \in SN!Greenlets |-> IF c \in awaited THEN SN!Closed(g[c]) ELSE g[c]]
      /\ UNCHANGED <<handlers, session, connected, lost>>
      /\ UNCHANGED <<clock, last_clock, queries_pending, sampled>>
  BY DEF SN!disconnect, SN!clocks
<1>2. g \in [SN!Greenlets -> GreenletStates] /\ handlers \in HandlerMaps BY <1>0, GreenletTypes
<1>3. \A c \in SN!Greenlets : /\ g'[c] \in GreenletStates
                              /\ g'[c].pc # "wait" /\ (g'[c] = g[c] \/ g'[c].pc = "failed")
  <2> SUFFICES ASSUME NEW c \in SN!Greenlets
      PROVE  /\ g'[c] \in GreenletStates
             /\ g'[c].pc # "wait" /\ (g'[c] = g[c] \/ g'[c].pc = "failed")
    OBVIOUS
  <2>1. g[c] \in GreenletStates /\ (c \in awaited <=> g[c].pc = "wait") BY <1>0, <1>2 DEF SN!LineIsOfWaiters
  <2>2. "failed" \in SN!Places BY DEF SN!Places
  <2>3. [g[c] EXCEPT !.pc = "failed"] \in GreenletStates /\ [g[c] EXCEPT !.pc = "failed"].pc = "failed"
    BY <2>1, <2>2, ChangesOfState
  <2>4. g'[c] = IF c \in awaited THEN [g[c] EXCEPT !.pc = "failed"] ELSE g[c]
    BY <1>1 DEF SN!Closed
  <2> QED BY <2>1, <2>3, <2>4
<1>4. SN!GreenletsTypeOK'
  <2>1. g' \in [SN!Greenlets -> GreenletStates] BY <1>1, <1>3
  <2> QED BY <1>1, <1>2, <2>1 DEF SN!GreenletsTypeOK, GreenletStates, HandlerMaps, SN!None
<1>5. SN!LineTypeOK'
  <2> DEFINE Command == [from : SN!Greenlets, arg : Nat]
             Message == [ack : BOOLEAN, from : Nat, arg : Nat]
  <2>1. wire' \in Seq(Command) /\ back' \in Seq(Message) /\ DOMAIN back' = {}
    <3> HIDE DEF Command, Message
    <3> QED BY <1>1
  <2> QED BY <1>0, <1>1, <2>1 DEF SN!TypeOK, SN!LineTypeOK
<1>6. SN!SessionTypeOK' BY <1>0, <1>1 DEF SN!TypeOK, SN!SessionTypeOK
<1>7. SN!LineIsOfWaiters' /\ SN!NobodyWaitsInVain'
  <2>1. DOMAIN wire' = {} /\ DOMAIN back' = {} BY <1>1
  <2>2. \A c \in SN!Greenlets : g'[c].pc # "wait" BY <1>3
  <2> QED BY <1>1, <2>1, <2>2 DEF SN!LineIsOfWaiters, SN!NobodyWaitsInVain
<1>8. SN!SessionsAreRight'
  <2>1. \A c \in 1..MaxSessions \cup Clients : g'[c] = g[c] \/ g'[c].pc = "failed"
    BY <1>3, GreenletsAreNumbers
  <2>2. \A c \in SN!Greenlets : g[c].pc = "off" => g'[c] = g[c]
    BY <1>0, <1>1 DEF SN!LineIsOfWaiters
  <2>3. /\ \A c \in Clients : g[c].pc = "off" => g'[c].pc = "off"
        /\ \A s \in 1..MaxSessions : g[s].pc = "off" => g'[s].pc = "off"
    BY <2>2, GreenletsAreNumbers
  <2> QED BY <1>0, <1>1, <2>1, <2>3 DEF SN!SessionsAreRight
<1> QED BY <1>1, <1>4, <1>5, <1>6, <1>7, <1>8 DEF SN!IInv, SN!TypeOK

LEMMA ClockKeeps ==
  ASSUME SN!SerialConnAssumption, SN!IInv, NEW answered \in BOOLEAN, SN!_get_clock_event(answered)
  PROVE  SN!IInv'
<1>0. SN!TypeOK /\ SN!SessionTypeOK BY DEF SN!IInv, SN!TypeOK
<1>1. /\ UNCHANGED <<g, handlers, awaited, wire, back, session, open, connected, lost>>
      /\ clock < MaxTicks /\ clock' = clock + 1
  BY DEF SN!_get_clock_event
<1>2. /\ clock \in Nat /\ last_clock \in Nat /\ queries_pending \in Nat /\ sampled \in Nat
      /\ MaxTicks \in Nat /\ Wrap \in Nat /\ Wrap > 0
  BY <1>0, LineConstants DEF SN!SessionTypeOK
<1>3. SN!SessionTypeOK'
  <2>1. SN!Extended(clock' % Wrap) \in Nat
    <3> DEFINE n == (clock' % Wrap) - last_clock
    <3>1. clock' % Wrap \in Int BY <1>1, <1>2, Z3
    <3>2. n \in Int BY <1>2, <3>1
    <3> HIDE DEF n
    <3>3. n % Wrap \in Nat BY <1>2, <3>2, Z3
    <3>4. SN!Extended(clock' % Wrap) = last_clock + (n % Wrap) BY DEF SN!Extended, n
    <3> QED BY <1>2, <3>3, <3>4
  <2>2. /\ queries_pending' \in {0, queries_pending + 1} /\ sampled' \in {clock', sampled}
        /\ last_clock' \in {SN!Extended(clock' % Wrap), last_clock}
    BY DEF SN!_get_clock_event
  <2> HIDE DEF SN!Extended
  <2>3. clock' \in 0..MaxTicks /\ {last_clock', queries_pending', sampled'} \subseteq Nat
    BY <1>1, <1>2, <2>1, <2>2
  <2> QED BY <1>0, <1>1, <2>3 DEF SN!SessionTypeOK
<1>4. SN!GreenletsTypeOK' /\ SN!LineTypeOK'
  BY <1>0, <1>1 DEF SN!TypeOK, SN!GreenletsTypeOK, SN!LineTypeOK
<1>5. SN!NobodyWaitsInVain' BY <1>1 DEF SN!IInv, SN!NobodyWaitsInVain
<1>6. SN!LineIsOfWaiters' BY <1>1 DEF SN!IInv, SN!LineIsOfWaiters, SN!Arg
<1>7. SN!SessionsAreRight' BY <1>1 DEF SN!IInv, SN!SessionsAreRight
<1> QED BY <1>3, <1>4, <1>5, <1>6, <1>7 DEF SN!IInv, SN!TypeOK

-----------------------------------------------------------------------------
(* The line.                                                               *)

\* What an answered or unanswered command leaves on the line.
LEMMA AnswerIsSent ==
  ASSUME SN!SerialConnAssumption, SN!IInv, NEW answered \in BOOLEAN, SN!McuAnswers(answered)
  PROVE  \E n \in {1, 2} :
           /\ n = IF answered THEN 2 ELSE 1
           /\ Len(wire) \in Nat /\ Len(wire) > 0 /\ wire[1].from \in SN!Greenlets
           /\ DOMAIN wire = 1..Len(wire) /\ DOMAIN wire' = 1..Len(wire) - 1
           /\ \A i \in 1..Len(wire) - 1 : wire'[i] = wire[i + 1]
           /\ Len(back) \in Nat /\ DOMAIN back = 1..Len(back) /\ DOMAIN back' = 1..Len(back) + n
           /\ \A i \in DOMAIN back : back'[i] = back[i]
           /\ back'[Len(back) + n] = [ack |-> TRUE, from |-> wire[1].from, arg |-> 0]
           /\ answered => back'[Len(back) + 1] = [ack |-> FALSE, from |-> SN!KeyOf(wire[1].from), arg |-> wire[1].arg]
           /\ wire' \in Seq([from : SN!Greenlets, arg : Nat])
           /\ back' \in Seq([ack : BOOLEAN, from : Nat, arg : Nat])
<1> DEFINE ack == [ack |-> TRUE, from |-> wire[1].from, arg |-> 0]
           answer == [ack |-> FALSE, from |-> SN!KeyOf(wire[1].from), arg |-> wire[1].arg]
           Command == [from : SN!Greenlets, arg : Nat]
           Message == [ack : BOOLEAN, from : Nat, arg : Nat]
<1>0. SN!TypeOK BY DEF SN!IInv
<1>1. /\ wire # <<>> /\ wire' = Tail(wire)
      /\ back' = back \o IF answered THEN <<answer, ack>> ELSE <<ack>>
  BY DEF SN!McuAnswers
<1>2. wire \in Seq(Command) /\ back \in Seq(Message) BY <1>0 DEF SN!TypeOK, SN!LineTypeOK
<1>3. wire[1] \in Command
  <2> HIDE DEF Command
  <2> QED BY <1>1, <1>2
<1>4. ack \in Message /\ answer \in Message
  <2>1. wire[1].from \in SN!Greenlets /\ wire[1].arg \in Nat BY <1>3
  <2>2. wire[1].from \in Nat /\ SN!KeyOf(wire[1].from) \in Nat BY <2>1, GreenletsAreNumbers
  <2> QED BY <2>1, <2>2
<1>5. wire[1].from \in SN!Greenlets BY <1>3
<1> HIDE DEF ack, answer, Command, Message
<1>6. /\ Len(wire) \in Nat /\ Len(wire) > 0 /\ DOMAIN wire = 1..Len(wire) /\ DOMAIN wire' = 1..Len(wire) - 1
      /\ \A i \in 1..Len(wire) - 1 : wire'[i] = wire[i + 1]
      /\ wire' \in Seq(Command)
  BY <1>1, <1>2
<1>7. CASE answered
  <2>1. back' = back \o <<answer, ack>> BY <1>1, <1>7
  <2>2. /\ Len(back) \in Nat /\ DOMAIN back = 1..Len(back) /\ DOMAIN back' = 1..Len(back) + 2
        /\ \A i \in DOMAIN back : back'[i] = back[i]
        /\ back'[Len(back) + 2] = ack /\ back'[Len(back) + 1] = answer /\ back' \in Seq(Message)
    BY <1>2, <1>4, <2>1
  <2> QED BY <1>5, <1>6, <1>7, <2>2 DEF ack, answer, Command, Message
<1>8. CASE ~answered
  <2>1. back' = back \o <<ack>> BY <1>1, <1>8
  <2>2. /\ Len(back) \in Nat /\ DOMAIN back = 1..Len(back) /\ DOMAIN back' = 1..Len(back) + 1
        /\ \A i \in DOMAIN back : back'[i] = back[i]
        /\ back'[Len(back) + 1] = ack /\ back' \in Seq(Message)
    BY <1>2, <1>4, <2>1
  <2> QED BY <1>5, <1>6, <1>8, <2>2 DEF ack, answer, Command, Message
<1> QED BY <1>7, <1>8

LEMMA AnswerKeeps ==
  ASSUME SN!SerialConnAssumption, SN!IInv, NEW answered \in BOOLEAN, SN!McuAnswers(answered)
  PROVE  SN!IInv'
<1> DEFINE c == wire[1].from
           last == Len(back)
<1>0. SN!TypeOK /\ SN!LineTypeOK /\ SN!NobodyWaitsInVain /\ SN!LineIsOfWaiters BY DEF SN!IInv, SN!TypeOK
<1>1. UNCHANGED <<g, handlers, awaited>> /\ Quiet /\ lost' = lost + (IF answered THEN 0 ELSE 1)
      /\ (~answered => lost < MaxLost)
  BY DEF SN!McuAnswers, SN!clocks, Quiet
<1>2. PICK n \in {1, 2} :
           /\ n = IF answered THEN 2 ELSE 1
           /\ Len(wire) \in Nat /\ Len(wire) > 0 /\ c \in SN!Greenlets
           /\ DOMAIN wire = 1..Len(wire) /\ DOMAIN wire' = 1..Len(wire) - 1
           /\ \A i \in 1..Len(wire) - 1 : wire'[i] = wire[i + 1]
           /\ last \in Nat /\ DOMAIN back = 1..last /\ DOMAIN back' = 1..last + n
           /\ \A i \in DOMAIN back : back'[i] = back[i]
           /\ back'[last + n] = [ack |-> TRUE, from |-> c, arg |-> 0]
           /\ answered => back'[last + 1] = [ack |-> FALSE, from |-> SN!KeyOf(c), arg |-> wire[1].arg]
           /\ wire' \in Seq([from : SN!Greenlets, arg : Nat])
           /\ back' \in Seq([ack : BOOLEAN, from : Nat, arg : Nat])
  BY AnswerIsSent
<1> HIDE DEF c, last
<1>3. \A i \in DOMAIN back' : \/ i \in DOMAIN back /\ back'[i] = back[i]
                              \/ i = last + n /\ back'[i].ack /\ back'[i].from = c
                              \/ ~back'[i].ack /\ back'[i].from = SN!KeyOf(c)
  <2>1. \A i \in DOMAIN back' : i \in DOMAIN back \/ i = last + n \/ (answered /\ i = last + 1)
    <3>1. last \in Nat /\ DOMAIN back = 1..last /\ DOMAIN back' = 1..last + n /\ (n = 1 \/ (n = 2 /\ answered))
      BY <1>2
    <3> QED BY <3>1
  <2> QED BY <1>2, <2>1
<1>4. back'[last + n].ack /\ back'[last + n].from = c /\ last + n \in DOMAIN back' BY <1>2
<1>5. /\ c = wire[1].from /\ 1 \in DOMAIN wire
      /\ \A i \in DOMAIN wire : i = 1 \/ (i - 1 \in DOMAIN wire' /\ wire'[i - 1] = wire[i])
      /\ \A i \in DOMAIN wire' : i + 1 \in DOMAIN wire /\ wire'[i] = wire[i + 1] /\ i + 1 # 1
  <2>1. c = wire[1].from BY DEF c
  <2>2. \A i \in DOMAIN wire : i = 1 \/ (i - 1 \in 1..Len(wire) - 1 /\ i = (i - 1) + 1) BY <1>2
  <2>3. \A i \in 1..Len(wire) - 1 : i + 1 \in DOMAIN wire /\ i + 1 # 1 BY <1>2
  <2> QED BY <1>2, <2>1, <2>2, <2>3
<1>6. SN!LineTypeOK'
  <2>1. \A i \in DOMAIN back' : back'[i].from \in IF back'[i].ack THEN SN!Greenlets ELSE DOMAIN handlers
    <3>1. SN!KeyOf(c) \in DOMAIN handlers BY <1>0, <1>2, GreenletTypes DEF HandlerMaps
    <3>2. \A i \in DOMAIN back : back[i].from \in IF back[i].ack THEN SN!Greenlets ELSE DOMAIN handlers
      BY <1>0 DEF SN!LineTypeOK
    <3>3. \A i \in DOMAIN back' : back'[i].from \in IF back'[i].ack THEN SN!Greenlets ELSE DOMAIN handlers
      BY <1>2, <1>3, <3>1, <3>2
    <3> QED BY <3>3
  <2>2. lost' \in 0..MaxLost BY <1>0, <1>1, LineConstants DEF SN!LineTypeOK
  <2> QED BY <1>0, <1>1, <1>2, <2>1, <2>2 DEF SN!LineTypeOK
<1>7. SN!NobodyWaitsInVain'
  <2> SUFFICES ASSUME NEW d \in SN!Greenlets, g[d].pc = "wait"
      PROVE  \/ \E i \in DOMAIN wire' : wire'[i].from = d
             \/ \E i \in DOMAIN back' : back'[i].ack /\ back'[i].from = d
    BY <1>0, <1>1 DEF SN!NobodyWaitsInVain
  <2>1. CASE \E i \in DOMAIN wire : wire[i].from = d BY <1>4, <1>5, <2>1
  <2>2. CASE \E i \in DOMAIN back : back[i].ack /\ back[i].from = d
    <3>1. DOMAIN back \subseteq DOMAIN back' BY <1>2
    <3> QED BY <1>2, <2>2, <3>1
  <2> QED BY <1>0, <2>1, <2>2 DEF SN!NobodyWaitsInVain
<1>8. SN!LineIsOfWaiters'
  <2>1. g[c].pc = "wait" /\ \A i \in DOMAIN wire' : wire'[i].from # c
    BY <1>0, <1>5 DEF SN!LineIsOfWaiters
  <2>2. \A i \in DOMAIN back : back[i].ack => back[i].from # c
    BY <1>0, <1>5 DEF SN!LineIsOfWaiters
  <2>3. \A d \in SN!Greenlets : d \in awaited' <=> g'[d].pc = "wait" BY <1>0, <1>1 DEF SN!LineIsOfWaiters
  <2>4. \A i \in DOMAIN wire' : /\ g'[wire'[i].from].pc = "wait"
                                /\ wire'[i].arg = SN!Arg(wire'[i].from, g'[wire'[i].from])
    BY <1>0, <1>1, <1>5 DEF SN!LineIsOfWaiters, SN!Arg
  <2>5. \A i, j \in DOMAIN wire' : wire'[i].from = wire'[j].from => i = j
    <3> SUFFICES ASSUME NEW i \in DOMAIN wire', NEW j \in DOMAIN wire', wire'[i].from = wire'[j].from
        PROVE  i = j
      OBVIOUS
    <3>1. i + 1 = j + 1 BY <1>0, <1>5 DEF SN!LineIsOfWaiters
    <3>2. i \in Int /\ j \in Int BY <1>2
    <3> QED BY <3>1, <3>2
  <2>6. \A i \in DOMAIN back' : back'[i].ack =>
          /\ g'[back'[i].from].pc = "wait"
          /\ \A j \in DOMAIN back' : back'[j].ack /\ back'[i].from = back'[j].from => i = j
          /\ \A j \in DOMAIN wire' : wire'[j].from # back'[i].from
    <3> SUFFICES ASSUME NEW i \in DOMAIN back', back'[i].ack
        PROVE  /\ g'[back'[i].from].pc = "wait"
               /\ \A j \in DOMAIN back' : back'[j].ack /\ back'[i].from = back'[j].from => i = j
               /\ \A j \in DOMAIN wire' : wire'[j].from # back'[i].from
      OBVIOUS
    <3>1. CASE i \in DOMAIN back /\ back'[i] = back[i]
      <4>1. \A j \in DOMAIN wire : wire[j].from # back[i].from BY <1>0, <3>1 DEF SN!LineIsOfWaiters
      <4>2. g[back[i].from].pc = "wait" BY <1>0, <3>1 DEF SN!LineIsOfWaiters
      <4>3. \A j \in DOMAIN back : back[j].ack /\ back[i].from = back[j].from => i = j
        BY <1>0, <3>1 DEF SN!LineIsOfWaiters
      <4>4. \A j \in DOMAIN back' : back'[j].ack => (j \in DOMAIN back /\ back'[j] = back[j]) \/ back'[j].from = c
        BY <1>3
      <4> QED BY <1>1, <1>5, <2>2, <3>1, <4>1, <4>2, <4>3, <4>4
    <3>2. CASE i = last + n /\ back'[i].from = c
      <4>1. \A j \in DOMAIN back' : back'[j].ack /\ back'[j].from = c => j = i BY <1>3, <2>2, <3>2
      <4> QED BY <1>1, <2>1, <3>2, <4>1
    <3> QED BY <1>3, <3>1, <3>2
  <2> QED BY <2>3, <2>4, <2>5, <2>6 DEF SN!LineIsOfWaiters
<1>9. SN!GreenletsTypeOK' /\ SN!SessionsAreRight'
  BY <1>0, <1>1 DEF Quiet, SN!IInv, SN!TypeOK, SN!GreenletsTypeOK, SN!SessionsAreRight
<1> QED BY <1>1, <1>6, <1>7, <1>8, <1>9, QuietKeeps DEF SN!IInv, SN!TypeOK


\* The first message has been taken from the line.
LEMMA MessageIsTaken ==
  ASSUME SN!IInv, SN!_bg_thread
  PROVE  /\ Len(back) \in Nat /\ 1 \in DOMAIN back /\ DOMAIN back = 1..Len(back)
         /\ \A i \in DOMAIN back : i = 1 \/ (i - 1 \in DOMAIN back' /\ back'[i - 1] = back[i])
         /\ \A i \in DOMAIN back' : i \in Nat /\ i + 1 \in DOMAIN back /\ back'[i] = back[i + 1] /\ i + 1 # 1
         /\ back' \in Seq([ack : BOOLEAN, from : Nat, arg : Nat])
<1> DEFINE Message == [ack : BOOLEAN, from : Nat, arg : Nat]
<1>1. back \in Seq(Message) BY DEF SN!IInv, SN!TypeOK, SN!LineTypeOK
<1>2. back # <<>> /\ back' = Tail(back) BY DEF SN!_bg_thread
<1> HIDE DEF Message
<1>3. /\ Len(back) \in Nat /\ Len(back) > 0 /\ DOMAIN back = 1..Len(back) /\ DOMAIN back' = 1..Len(back) - 1
      /\ \A i \in 1..Len(back) - 1 : back'[i] = back[i + 1]
      /\ back' \in Seq(Message)
  BY <1>1, <1>2
<1>4. \A i \in DOMAIN back : i = 1 \/ (i - 1 \in 1..Len(back) - 1 /\ i = (i - 1) + 1) BY <1>3
<1>5. \A i \in 1..Len(back) - 1 : i \in Nat /\ i + 1 \in DOMAIN back /\ i + 1 # 1 BY <1>3
<1>6. \A i \in DOMAIN back : i = 1 \/ (i - 1 \in DOMAIN back' /\ back'[i - 1] = back[i]) BY <1>3, <1>4
<1> QED BY <1>3, <1>5, <1>6 DEF Message

LEMMA ReceiveKeeps ==
  ASSUME SN!SerialConnAssumption, SN!IInv, SN!_bg_thread
  PROVE  SN!IInv'
<1> DEFINE r == back[1]
<1>0. SN!TypeOK /\ SN!LineTypeOK /\ SN!NobodyWaitsInVain /\ SN!LineIsOfWaiters /\ SN!SessionsAreRight
  BY DEF SN!IInv, SN!TypeOK
<1>1. UNCHANGED <<handlers, wire, lost>> /\ Quiet BY DEF SN!_bg_thread, SN!clocks, Quiet
<1>2. /\ Len(back) \in Nat /\ 1 \in DOMAIN back /\ DOMAIN back = 1..Len(back)
      /\ \A i \in DOMAIN back : i = 1 \/ (i - 1 \in DOMAIN back' /\ back'[i - 1] = back[i])
      /\ \A i \in DOMAIN back' : i \in Nat /\ i + 1 \in DOMAIN back /\ back'[i] = back[i + 1] /\ i + 1 # 1
      /\ back' \in Seq([ack : BOOLEAN, from : Nat, arg : Nat])
  BY MessageIsTaken
<1>3. g \in [SN!Greenlets -> GreenletStates] /\ handlers \in HandlerMaps BY <1>0, GreenletTypes
<1>4. r \in [ack : BOOLEAN, from : Nat, arg : Nat] BY <1>0, <1>2, MessageTypes
<1>5. \A i \in DOMAIN back' : back'[i].from \in IF back'[i].ack THEN SN!Greenlets ELSE DOMAIN handlers
  BY <1>0, <1>2 DEF SN!LineTypeOK
<1>6. \A i, j \in DOMAIN back' : i + 1 = j + 1 => i = j BY <1>2
<1>7. \A i \in DOMAIN back' : back'[i].ack =>
        /\ g[back'[i].from].pc = "wait"
        /\ \A j \in DOMAIN back' : back'[j].ack /\ back'[i].from = back'[j].from => i = j
        /\ \A j \in DOMAIN wire : wire[j].from # back'[i].from
        /\ r.ack => back'[i].from # r.from
  <2> SUFFICES ASSUME NEW i \in DOMAIN back', back'[i].ack
      PROVE  /\ g[back'[i].from].pc = "wait"
             /\ \A j \in DOMAIN back' : back'[j].ack /\ back'[i].from = back'[j].from => i = j
             /\ \A j \in DOMAIN wire : wire[j].from # back'[i].from
             /\ r.ack => back'[i].from # r.from
    OBVIOUS
  <2>1. i + 1 \in DOMAIN back /\ back'[i] = back[i + 1] /\ i + 1 # 1 /\ back[i + 1].ack BY <1>2
  <2>2. /\ g[back[i + 1].from].pc = "wait"
        /\ \A j \in DOMAIN back : back[j].ack /\ back[i + 1].from = back[j].from => i + 1 = j
        /\ \A j \in DOMAIN wire : wire[j].from # back[i + 1].from
    BY <1>0, <2>1 DEF SN!LineIsOfWaiters
  <2>3. \A j \in DOMAIN back' : back'[j].ack /\ back'[i].from = back'[j].from => i + 1 = j + 1
    BY <1>2, <2>1, <2>2
  <2>4. r.ack => back[i + 1].from # r.from BY <1>2, <2>1, <2>2
  <2> QED BY <1>6, <2>1, <2>2, <2>3, <2>4
<1> HIDE DEF r
<1>8. CASE r.ack
  <2> DEFINE c == r.from
             x == [g[c] EXCEPT !.pc = "acked"]
  <2>1. g' = [g EXCEPT ![c] = x] /\ awaited' = awaited \ {c}
    BY <1>8 DEF SN!_bg_thread, r
  <2>2. /\ c \in SN!Greenlets /\ g[c].pc = "wait" /\ \A j \in DOMAIN wire : wire[j].from # c
    BY <1>0, <1>2, <1>8 DEF r, SN!LineTypeOK, SN!LineIsOfWaiters
  <2>3. x \in GreenletStates /\ x.pc = "acked"
    <3>1. g[c] \in GreenletStates /\ "acked" \in SN!Places BY <1>3, <2>2 DEF SN!Places
    <3> QED BY <3>1, ChangesOfState
  <2> HIDE DEF c, x
  <2>4. g'[c] = x /\ \A d \in SN!Greenlets : d # c => g'[d] = g[d] BY <1>3, <2>1, <2>2
  <2>5. \A i \in DOMAIN back' : back'[i].ack => back'[i].from # c /\ back'[i].from \in SN!Greenlets
    BY <1>5, <1>7, <1>8 DEF c
  <2>6. \A j \in DOMAIN wire : wire[j].from \in SN!Greenlets BY <1>0, CommandTypes
  <2>7. SN!GreenletsTypeOK' BY <1>1, <1>3, <2>1, <2>3
    DEF SN!GreenletsTypeOK, GreenletStates, HandlerMaps, SN!None
  <2>8. SN!LineTypeOK' BY <1>0, <1>1, <1>2, <1>5, <2>1 DEF SN!LineTypeOK
  <2>9. SN!NobodyWaitsInVain'
    <3> SUFFICES ASSUME NEW d \in SN!Greenlets, g'[d].pc = "wait"
        PROVE  /\ d \in awaited'
               /\ \/ \E i \in DOMAIN wire : wire[i].from = d
                  \/ \E i \in DOMAIN back' : back'[i].ack /\ back'[i].from = d
      BY <1>1 DEF SN!NobodyWaitsInVain
    <3>1. d # c /\ g[d].pc = "wait" BY <2>3, <2>4
    <3>2. CASE \E i \in DOMAIN back : back[i].ack /\ back[i].from = d
      <4>1. PICK i \in DOMAIN back : back[i].ack /\ back[i].from = d BY <3>2
      <4>2. i # 1 BY <3>1, <4>1 DEF c, r
      <4> QED BY <1>0, <1>2, <2>1, <3>1, <4>1, <4>2 DEF SN!NobodyWaitsInVain
    <3> QED BY <1>0, <2>1, <3>1, <3>2 DEF SN!NobodyWaitsInVain
  <2>10. SN!LineIsOfWaiters'
    <3>1. \A d \in SN!Greenlets : d \in awaited' <=> g'[d].pc = "wait"
      BY <1>0, <2>1, <2>3, <2>4 DEF SN!LineIsOfWaiters
    <3>2. \A i \in DOMAIN wire : /\ g'[wire[i].from].pc = "wait"
                                 /\ wire[i].arg = SN!Arg(wire[i].from, g'[wire[i].from])
                                 /\ \A j \in DOMAIN wire : wire[i].from = wire[j].from => i = j
      BY <1>0, <2>2, <2>4, <2>6 DEF SN!LineIsOfWaiters, SN!Arg
    <3>3. \A i \in DOMAIN back' : back'[i].ack => g'[back'[i].from].pc = "wait"
      BY <1>7, <2>4, <2>5
    <3> QED BY <1>1, <1>7, <3>1, <3>2, <3>3 DEF SN!LineIsOfWaiters
  <2>11. SN!SessionsAreRight' BY <1>1, <2>2, <2>3, <2>4, SessionsGoOn
  <2> QED BY <1>1, <2>7, <2>8, <2>9, <2>10, <2>11, QuietKeeps DEF SN!IInv, SN!TypeOK
<1>9. CASE ~r.ack
  <2> DEFINE h == handlers[r.from]
  <2>1. g' = (IF h = 0 THEN g ELSE [g EXCEPT ![h].got = r.arg]) /\ awaited' = awaited
    BY <1>9 DEF SN!_bg_thread, r
  <2>2. h \in SN!Greenlets \cup {0} /\ r.arg \in Nat
    <3>1. r.from \in DOMAIN handlers BY <1>0, <1>2, <1>9 DEF r, SN!LineTypeOK
    <3> QED BY <1>3, <1>4, <3>1 DEF HandlerMaps
  <2> HIDE DEF h
  <2>3. /\ g' \in [SN!Greenlets -> GreenletStates]
        /\ \A d \in SN!Greenlets : g'[d].pc = g[d].pc /\ g'[d].data = g[d].data
    <3>1. CASE h = 0 BY <1>3, <2>1, <3>1
    <3>2. CASE h # 0
      <4> DEFINE x == [g[h] EXCEPT !.got = r.arg]
      <4>1. h \in SN!Greenlets /\ g[h] \in GreenletStates BY <1>3, <2>2, <3>2
      <4>2. x \in GreenletStates /\ x.pc = g[h].pc /\ x.data = g[h].data BY <2>2, <4>1, ChangesOfState
      <4>3. g' = [g EXCEPT ![h] = x] BY <2>1, <3>2
      <4> HIDE DEF x
      <4> QED BY <1>3, <4>1, <4>2, <4>3
    <3> QED BY <3>1, <3>2
  <2>4. \A i \in DOMAIN wire : wire[i].from \in SN!Greenlets BY <1>0, CommandTypes
  <2>5. SN!GreenletsTypeOK' BY <1>1, <1>3, <2>3
    DEF SN!GreenletsTypeOK, GreenletStates, HandlerMaps, SN!None
  <2>6. SN!LineTypeOK' BY <1>0, <1>1, <1>2, <1>5, <2>1 DEF SN!LineTypeOK
  <2>7. SN!NobodyWaitsInVain'
    <3> SUFFICES ASSUME NEW d \in SN!Greenlets, g'[d].pc = "wait"
        PROVE  /\ d \in awaited
               /\ \/ \E i \in DOMAIN wire : wire[i].from = d
                  \/ \E i \in DOMAIN back' : back'[i].ack /\ back'[i].from = d
      BY <1>1, <2>1 DEF SN!NobodyWaitsInVain
    <3>1. g[d].pc = "wait" BY <2>3
    <3>2. CASE \E i \in DOMAIN back : back[i].ack /\ back[i].from = d
      <4>1. PICK i \in DOMAIN back : back[i].ack /\ back[i].from = d BY <3>2
      <4>2. i # 1 BY <1>9, <4>1 DEF r
      <4> QED BY <1>0, <1>2, <3>1, <4>1, <4>2 DEF SN!NobodyWaitsInVain
    <3> QED BY <1>0, <3>1, <3>2 DEF SN!NobodyWaitsInVain
  <2>8. SN!LineIsOfWaiters'
    <3>1. \A d \in SN!Greenlets : d \in awaited' <=> g'[d].pc = "wait"
      BY <1>0, <2>1, <2>3 DEF SN!LineIsOfWaiters
    <3>2. \A i \in DOMAIN wire : /\ g'[wire[i].from].pc = "wait"
                                 /\ wire[i].arg = SN!Arg(wire[i].from, g'[wire[i].from])
                                 /\ \A j \in DOMAIN wire : wire[i].from = wire[j].from => i = j
      BY <1>0, <2>3, <2>4 DEF SN!LineIsOfWaiters, SN!Arg
    <3>3. \A i \in DOMAIN back' : back'[i].ack => g'[back'[i].from].pc = "wait"
      BY <1>5, <1>7, <2>3
    <3> QED BY <1>1, <1>7, <3>1, <3>2, <3>3 DEF SN!LineIsOfWaiters
  <2>9. SN!SessionsAreRight'
    <3>1. /\ \A s \in 1..MaxSessions : g'[s].pc = g[s].pc /\ g'[s].data = g[s].data
          /\ \A d \in Clients : g'[d].pc = g[d].pc
      BY <2>3, GreenletsAreNumbers
    <3>2. open => session \in 1..MaxSessions
      BY <1>0, LineConstants DEF SN!TypeOK, SN!SessionTypeOK, SN!SessionsAreRight
    <3> QED BY <1>0, <1>1, <3>1, <3>2 DEF Quiet, SN!SessionsAreRight
  <2> QED BY <1>1, <2>5, <2>6, <2>7, <2>8, <2>9, QuietKeeps DEF SN!IInv, SN!TypeOK
<1> QED BY <1>8, <1>9

LEMMA ConnectionStartsRight ==
  ASSUME SN!SerialConnAssumption, SN!Init
  PROVE  SN!IInv
<1> DEFINE off == [pc |-> "off", tries |-> 0, got |-> -1, data |-> 0]
           Command == [from : SN!Greenlets, arg : Nat]
           Message == [ack : BOOLEAN, from : Nat, arg : Nat]
<1>1. /\ g = [c \in SN!Greenlets |-> off] /\ handlers = [k \in {SN!KeyOf(c) : c \in SN!Greenlets} |-> 0]
      /\ awaited = {} /\ wire = <<>> /\ back = <<>> /\ session = 0 /\ open = FALSE /\ connected = FALSE /\ lost = 0
      /\ clock = 0 /\ last_clock = 0 /\ queries_pending = 0 /\ sampled = 0
  BY DEF SN!Init, SN!None
<1>2. /\ Retries \in Nat /\ MaxSessions \in Nat /\ MaxLost \in Nat /\ MaxTicks \in Nat /\ TIMEOUT_ACTIVE \in Nat
      /\ 0 \in 0..Retries /\ 0 \in 0..MaxSessions /\ 0 \in 0..MaxLost /\ 0 \in 0..MaxTicks
  BY LineConstants
<1>3. off \in GreenletStates /\ off.pc = "off" BY <1>2 DEF GreenletStates, SN!Places
<1> HIDE DEF off, Command, Message
<1>4. SN!GreenletsTypeOK
  <2>1. g \in [SN!Greenlets -> GreenletStates] /\ handlers \in HandlerMaps BY <1>1, <1>3 DEF HandlerMaps
  <2> QED BY <2>1 DEF SN!GreenletsTypeOK, GreenletStates, HandlerMaps, SN!None
<1>5. SN!LineTypeOK
  <2>1. wire \in Seq(Command) /\ back \in Seq(Message) /\ DOMAIN back = {} BY <1>1
  <2> QED BY <1>1, <1>2, <2>1 DEF SN!LineTypeOK, Command, Message
<1>6. SN!SessionTypeOK
  <2>1. session \in 0..MaxSessions /\ open \in BOOLEAN /\ connected \in BOOLEAN BY <1>1, <1>2
  <2>2. clock \in 0..MaxTicks /\ {last_clock, queries_pending, sampled} \subseteq Nat BY <1>1, <1>2
  <2> QED BY <2>1, <2>2 DEF SN!SessionTypeOK
<1>7. SN!NobodyWaitsInVain /\ SN!LineIsOfWaiters
  <2>1. DOMAIN wire = {} /\ DOMAIN back = {} BY <1>1
  <2> QED BY <1>1, <1>3, <2>1 DEF SN!NobodyWaitsInVain, SN!LineIsOfWaiters
<1>8. SN!SessionsAreRight BY <1>1, <1>3, GreenletsAreNumbers DEF SN!SessionsAreRight
<1> QED BY <1>4, <1>5, <1>6, <1>7, <1>8 DEF SN!IInv, SN!TypeOK

LEMMA ConnectionStepKeeps ==
  ASSUME SN!SerialConnAssumption, SN!IInv, [SN!Next]_(SN!vars)
  PROVE  SN!IInv'
<1>1. CASE UNCHANGED SN!vars
  BY <1>1 DEF SN!vars, SN!IInv, SN!TypeOK, SN!GreenletsTypeOK, SN!LineTypeOK, SN!SessionTypeOK,
     SN!NobodyWaitsInVain, SN!LineIsOfWaiters, SN!SessionsAreRight, SN!Arg
<1>2. ASSUME NEW c \in SN!Greenlets, SN!raw_send_wait_ack(c) \/ SN!get_response(c) PROVE SN!IInv'
  BY <1>2, SendKeeps, ResponseKeeps
<1>3. ASSUME NEW answered \in BOOLEAN, SN!McuAnswers(answered) \/ SN!_get_clock_event(answered) PROVE SN!IInv'
  BY <1>3, AnswerKeeps, ClockKeeps
<1>4. CASE SN!_bg_thread \/ SN!_start_session \/ SN!identified \/ SN!disconnect
  BY <1>4, ReceiveKeeps, StartKeeps, IdentifiedKeeps, DisconnectKeeps
<1>5. ASSUME NEW c \in Clients, SN!query(c) PROVE SN!IInv'
  BY <1>5, QueryKeeps
<1> QED BY <1>1, <1>2, <1>3, <1>4, <1>5 DEF SN!Next

\* What the invariant says: nobody waits in vain, and the dictionary of a connection is whole.
LEMMA ConnectionIsRight ==
  ASSUME SN!SerialConnAssumption, SN!IInv
  PROVE  SN!TypeOK /\ SN!NobodyWaitsInVain /\ SN!DictionaryIsWhole
<1>1. connected => session \in 1..MaxSessions
  BY LineConstants DEF SN!IInv, SN!TypeOK, SN!SessionTypeOK, SN!SessionsAreRight
<1>2. SN!DictionaryIsWhole BY <1>1 DEF SN!IInv, SN!SessionsAreRight, SN!DictionaryIsWhole
<1> QED BY <1>2 DEF SN!IInv

-----------------------------------------------------------------------------
(* A clock that turns late.                                                *)

LEMMA ClockStartsRight ==
  ASSUME SN!SerialConnAssumption, SN!Init
  PROVE  SN!ClockIsCounted
BY LineConstants DEF SN!Init, SN!ClockIsCounted

LEMMA ClockStepKeeps ==
  ASSUME SN!SerialConnAssumption, SN!ClockTurnsLate, SN!IInv, SN!ClockIsCounted, [SN!Next]_(SN!vars)
  PROVE  SN!ClockIsCounted'
<1>1. ASSUME UNCHANGED <<clock, last_clock, queries_pending, sampled>> PROVE SN!ClockIsCounted'
  BY <1>1 DEF SN!ClockIsCounted
<1>2. CASE \A answered \in BOOLEAN : ~SN!_get_clock_event(answered)
  <2>1. UNCHANGED <<clock, last_clock, queries_pending, sampled>>
    BY <1>2 DEF SN!Next, SN!vars, SN!clocks, SN!raw_send_wait_ack, SN!get_response, SN!McuAnswers, SN!_bg_thread,
       SN!_start_session, SN!identified, SN!disconnect, SN!query
  <2> QED BY <1>1, <2>1
<1>3. ASSUME NEW answered \in BOOLEAN, SN!_get_clock_event(answered) PROVE SN!ClockIsCounted'
  <2> DEFINE c == clock + 1
  <2>1. queries_pending <= TIMEOUT_ACTIVE /\ clock' = c BY <1>3 DEF SN!_get_clock_event, SN!is_active
  <2>2. /\ clock \in Nat /\ last_clock \in Nat /\ queries_pending \in Nat /\ TIMEOUT_ACTIVE \in Nat
        /\ last_clock = sampled /\ queries_pending = clock - last_clock
    BY LineConstants DEF SN!IInv, SN!TypeOK, SN!SessionTypeOK, SN!ClockIsCounted
  <2>3. CASE answered
    <3>1. c \in Nat /\ 0 <= c - last_clock /\ c - last_clock <= TIMEOUT_ACTIVE + 1 BY <2>1, <2>2
    <3> HIDE DEF c
    <3>2. SN!Extended(c % Wrap) = c BY <2>2, <3>1, AnswerExtends
    <3>3. queries_pending' = 0 /\ sampled' = c /\ last_clock' = c
      BY <1>3, <2>1, <2>3, <3>2 DEF SN!_get_clock_event
    <3> QED BY <2>1, <2>2, <3>1, <3>3 DEF SN!ClockIsCounted
  <2>4. CASE ~answered
    <3>1. queries_pending' = queries_pending + 1 /\ UNCHANGED <<sampled, last_clock>>
      BY <1>3, <2>4 DEF SN!_get_clock_event
    <3> QED BY <2>1, <2>2, <3>1 DEF SN!ClockIsCounted
  <2> QED BY <2>3, <2>4
<1> QED BY <1>2, <1>3

LEMMA CountedIsExtended ==
  ASSUME SN!SerialConnAssumption, SN!ClockTurnsLate, SN!IInv, SN!ClockIsCounted
  PROVE  SN!ClockIsExtended
<1>1. /\ clock \in Nat /\ last_clock \in Nat /\ queries_pending \in Nat /\ TIMEOUT_ACTIVE \in Nat
      /\ last_clock = sampled /\ queries_pending = clock - last_clock
  BY LineConstants DEF SN!IInv, SN!TypeOK, SN!SessionTypeOK, SN!ClockIsCounted
<1>2. ASSUME SN!is_active, NEW c \in {clock, clock - 1}, c >= 0 PROVE SN!clock32_to_clock64(c % Wrap) = c
  <2>1. c \in Nat /\ -1 <= c - last_clock /\ c - last_clock <= TIMEOUT_ACTIVE
    BY <1>1, <1>2 DEF SN!is_active
  <2> QED BY <1>1, <2>1, EventExtends
<1> QED BY <1>1, <1>2 DEF SN!ClockIsExtended

-----------------------------------------------------------------------------
(* Whose answer it is.                                                     *)

LEMMA KeysOfGreenlets ==
  ASSUME SN!SerialConnAssumption, SN!KeysDiffer
  PROVE  /\ \A c \in Clients, d \in SN!Greenlets : SN!KeyOf(d) = Key[c] => d = c
         /\ \A c \in Clients : c \in SN!Greenlets /\ SN!KeyOf(c) = Key[c] /\ Key[c] # 0 /\ c # 0
         /\ \A s \in 1..MaxSessions : s \in SN!Greenlets /\ s \notin Clients /\ SN!KeyOf(s) = 0
BY LineConstants, GreenletsAreNumbers DEF SN!KeysDiffer

\* A client to whom answers are on the way waits.
LEMMA AnsweredIsWaiting ==
  ASSUME SN!SerialConnAssumption, SN!IInv, SN!OwnInv, NEW c \in Clients,
         NEW i \in DOMAIN back, ~back[i].ack, back[i].from = Key[c]
  PROVE  g[c].pc = "wait"
<1>1. PICK j \in DOMAIN back : back[j].ack /\ back[j].from = c BY DEF SN!OwnInv, SN!AnswersAreFresh
<1> QED BY <1>1 DEF SN!IInv, SN!LineIsOfWaiters

\* A greenlet goes on, and answers that are on the way stay its own.
LEMMA GoesOnWithOwn ==
  ASSUME SN!SerialConnAssumption, SN!KeysDiffer, SN!IInv, SN!OwnInv, NEW c \in SN!Greenlets,
         \A d \in SN!Greenlets : d # c => g'[d] = g[d], back' = back,
         \/ handlers' = handlers
         \/ handlers' = [handlers EXCEPT ![SN!KeyOf(c)] = c]
         \/ handlers' = [handlers EXCEPT ![SN!KeyOf(c)] = 0],
         c \in Clients => g'[c].pc # "stray",
         c \in Clients => g'[c].got \in {-1, SN!Arg(c, g'[c])},
         c \in Clients => (g'[c].pc = "done" => g'[c].got # -1),
         c \in Clients => (g'[c].pc \in {"send", "wait", "acked", "pause"} => handlers'[Key[c]] = c),
         g[c].pc # "wait" \/ g'[c].data = g[c].data
  PROVE  SN!OwnInv'
<1>1. handlers \in HandlerMaps BY GreenletTypes DEF SN!IInv
<1>2. SN!HandlersAreOwn /\ SN!AnswersAreFresh BY DEF SN!OwnInv
<1>3. /\ SN!KeyOf(c) \in DOMAIN handlers /\ handlers'[SN!KeyOf(c)] \in {handlers[SN!KeyOf(c)], c, 0}
      /\ \A k \in DOMAIN handlers : k # SN!KeyOf(c) => handlers'[k] = handlers[k]
  <2> DEFINE K == SN!KeyOf(c)
  <2>1. K \in DOMAIN handlers /\ handlers = [k \in DOMAIN handlers |-> handlers[k]] BY <1>1 DEF HandlerMaps
  <2>2. \/ handlers' = handlers
        \/ handlers' = [handlers EXCEPT ![K] = c]
        \/ handlers' = [handlers EXCEPT ![K] = 0]
    OBVIOUS
  <2> HIDE DEF K
  <2>3. handlers'[K] \in {handlers[K], c, 0} /\ \A k \in DOMAIN handlers : k # K => handlers'[k] = handlers[k]
    BY <2>1, <2>2
  <2> QED BY <2>1, <2>3 DEF K
<1>10. \A d \in Clients : d # c => handlers'[Key[d]] = handlers[Key[d]]
  <2> SUFFICES ASSUME NEW d \in Clients, d # c PROVE handlers'[Key[d]] = handlers[Key[d]]
    OBVIOUS
  <2>1. SN!KeyOf(c) # Key[d] BY KeysOfGreenlets
  <2>2. Key[d] = SN!KeyOf(d) /\ d \in SN!Greenlets BY KeysOfGreenlets
  <2>3. Key[d] \in DOMAIN handlers BY <1>1, <2>2 DEF HandlerMaps
  <2> QED BY <1>3, <2>1, <2>3
<1>4. /\ \A d \in Clients : d # c => g'[d] = g[d] /\ d \in SN!Greenlets
      /\ \A d \in SN!Greenlets : d # c => g'[d] = g[d]
  BY KeysOfGreenlets
<1>5. SN!HandlersAreOwn'
  <2>1. c \in Clients => handlers'[Key[c]] \in {0, c}
    <3>1. c \in Clients => SN!KeyOf(c) = Key[c] BY KeysOfGreenlets
    <3> QED BY <1>2, <1>3, <3>1 DEF SN!HandlersAreOwn
  <2>2. \A s \in 1..MaxSessions : handlers'[0] \notin Clients
    <3> SUFFICES ASSUME NEW s \in 1..MaxSessions PROVE handlers'[0] \notin Clients
      OBVIOUS
    <3>1. handlers[0] \notin Clients BY <1>2 DEF SN!HandlersAreOwn
    <3>2. 0 \notin Clients /\ (c \in Clients => SN!KeyOf(c) # 0) BY KeysOfGreenlets
    <3>3. SN!KeyOf(s) = 0 /\ s \in SN!Greenlets BY KeysOfGreenlets
    <3>4. 0 \in DOMAIN handlers BY <1>1, <3>3 DEF HandlerMaps
    <3>5. CASE c \in Clients BY <1>3, <3>1, <3>2, <3>4, <3>5
    <3>6. CASE c \notin Clients
      <4>1. handlers'[0] \in {handlers[0], c, 0} BY <1>3, <3>4
      <4> QED BY <3>1, <3>2, <3>6, <4>1
    <3> QED BY <3>5, <3>6
  <2> QED BY <1>2, <1>10, <1>4, <2>1, <2>2 DEF SN!HandlersAreOwn
<1>6. SN!AnswersAreFresh'
  <2> SUFFICES ASSUME NEW d \in Clients
      PROVE  /\ g'[d].got \in {-1, SN!Arg(d, g'[d])} /\ (g'[d].pc = "done" => g'[d].got # -1)
             /\ \A i \in DOMAIN back : ~back[i].ack /\ back[i].from = Key[d] =>
                  /\ back[i].arg = SN!Arg(d, g'[d])
                  /\ \E j \in DOMAIN back : i < j /\ back[j].ack /\ back[j].from = d
    BY DEF SN!AnswersAreFresh, SN!None
  <2>1. /\ g[d].got \in {-1, SN!Arg(d, g[d])} /\ (g[d].pc = "done" => g[d].got # -1)
        /\ \A i \in DOMAIN back : ~back[i].ack /\ back[i].from = Key[d] =>
             /\ back[i].arg = SN!Arg(d, g[d])
             /\ \E j \in DOMAIN back : i < j /\ back[j].ack /\ back[j].from = d
    BY <1>2 DEF SN!AnswersAreFresh, SN!None
  <2>2. CASE d # c BY <1>4, <2>1, <2>2 DEF SN!Arg
  <2>3. CASE d = c
    <3>1. \A i \in DOMAIN back : ~back[i].ack /\ back[i].from = Key[d] => back[i].arg = SN!Arg(d, g'[d])
      <4> SUFFICES ASSUME NEW i \in DOMAIN back, ~back[i].ack, back[i].from = Key[d]
          PROVE  back[i].arg = SN!Arg(d, g'[d])
        OBVIOUS
      <4>1. g'[d].data = g[d].data BY <2>3, AnsweredIsWaiting
      <4> QED BY <2>1, <4>1 DEF SN!Arg
    <3> QED BY <2>1, <2>3, <3>1
  <2> QED BY <2>2, <2>3
<1> QED BY <1>5, <1>6 DEF SN!OwnInv

LEMMA SendIsOwn ==
  ASSUME SN!SerialConnAssumption, SN!KeysDiffer, SN!IInv, SN!OwnInv, NEW c \in SN!Greenlets, SN!raw_send_wait_ack(c)
  PROVE  SN!OwnInv'
<1>1. g[c].pc \in {"send", "pause"} /\ back' = back /\ handlers' = handlers
  BY DEF SN!raw_send_wait_ack
<1>2. PICK p \in {"wait", "stray"} : g' = [g EXCEPT ![c].pc = p] /\ (p = "stray" => ~open)
  BY DEF SN!raw_send_wait_ack
<1>3. c \in Clients => open
  BY <1>1 DEF SN!IInv, SN!SessionsAreRight
<1>4. /\ g'[c].pc = p /\ g'[c].got = g[c].got /\ g'[c].data = g[c].data
      /\ \A d \in SN!Greenlets : d # c => g'[d] = g[d]
  <2>1. g \in [SN!Greenlets -> GreenletStates] BY GreenletTypes DEF SN!IInv
  <2> QED BY <1>2, <2>1 DEF GreenletStates
<1>5. c \in Clients => /\ g[c].got \in {-1, SN!Arg(c, g[c])} /\ handlers[Key[c]] = c
  BY <1>1 DEF SN!OwnInv, SN!HandlersAreOwn, SN!AnswersAreFresh, SN!None
<1>6. SN!Arg(c, g'[c]) = SN!Arg(c, g[c]) BY <1>4 DEF SN!Arg
<1>7. c \in Clients => p = "wait" BY <1>2, <1>3
<1> QED BY <1>1, <1>4, <1>5, <1>6, <1>7, GoesOnWithOwn

LEMMA ResponseIsOwn ==
  ASSUME SN!SerialConnAssumption, SN!KeysDiffer, SN!IInv, SN!OwnInv, NEW c \in SN!Greenlets, SN!get_response(c)
  PROVE  SN!OwnInv'
<1>1. g[c].pc = "acked" /\ back' = back BY DEF SN!get_response
<1>2. g \in [SN!Greenlets -> GreenletStates] BY GreenletTypes DEF SN!IInv
<1>3. \A d \in SN!Greenlets : d # c => g'[d] = g[d] BY <1>2 DEF SN!get_response
<1>4. \/ handlers' = handlers
      \/ handlers' = [handlers EXCEPT ![SN!KeyOf(c)] = c]
      \/ handlers' = [handlers EXCEPT ![SN!KeyOf(c)] = 0]
  BY DEF SN!get_response, SN!Unregistered
<1>5. ASSUME c \in Clients
      PROVE  /\ g'[c].pc \in {"done", "pause", "failed"} /\ g'[c].got = g[c].got /\ g'[c].data = g[c].data
             /\ g'[c].pc = "done" => g'[c].got # -1
             /\ g'[c].pc = "pause" => handlers' = handlers
  <2>1. SN!Registered(c)
    <3>1. handlers[Key[c]] = c BY <1>1, <1>5 DEF SN!OwnInv, SN!HandlersAreOwn
    <3> QED BY <1>5, <3>1, KeysOfGreenlets DEF SN!Registered
  <2>2. SN!Answered(c, g[c]) = [g[c] EXCEPT !.pc = "done"] BY <1>5 DEF SN!Answered
  <2>3. \/ g' = [g EXCEPT ![c] = SN!Answered(c, @)] /\ g[c].got # -1
        \/ g' = [g EXCEPT ![c].pc = "pause", ![c].tries = @ - 1] /\ UNCHANGED handlers
        \/ g' = [g EXCEPT ![c].pc = "failed"]
    BY <2>1 DEF SN!get_response, SN!None
  <2> QED BY <1>2, <2>2, <2>3 DEF GreenletStates
<1>6. c \in Clients => /\ g[c].got \in {-1, SN!Arg(c, g[c])} /\ handlers[Key[c]] = c
  BY <1>1 DEF SN!OwnInv, SN!HandlersAreOwn, SN!AnswersAreFresh, SN!None
<1>7. c \in Clients => SN!Arg(c, g'[c]) = SN!Arg(c, g[c]) BY <1>5 DEF SN!Arg
<1> QED BY <1>1, <1>3, <1>4, <1>5, <1>6, <1>7, GoesOnWithOwn

LEMMA QueryIsOwn ==
  ASSUME SN!SerialConnAssumption, SN!KeysDiffer, SN!IInv, SN!OwnInv, NEW c \in Clients, SN!query(c)
  PROVE  SN!OwnInv'
<1> DEFINE asks == [g[c] EXCEPT !.data = @ + 1]
           x == SN!Begun(asks)
<1>0. SN!TypeOK BY DEF SN!IInv
<1>1. /\ g[c].pc \in {"off", "done", "failed"} /\ back' = back
      /\ g' = [g EXCEPT ![c] = x] /\ handlers' = [handlers EXCEPT ![SN!KeyOf(c)] = c]
  BY DEF SN!query, SN!Register
<1>2. c \in SN!Greenlets /\ SN!KeyOf(c) = Key[c] BY KeysOfGreenlets
<1>3. g \in [SN!Greenlets -> GreenletStates] /\ handlers \in HandlerMaps BY <1>0, GreenletTypes
<1>4. x \in GreenletStates /\ x.pc = "send" /\ x.got = -1
  <2>1. asks \in GreenletStates BY <1>2, <1>3 DEF GreenletStates
  <2> HIDE DEF asks
  <2> QED BY <2>1, ChangesOfState
<1> HIDE DEF x
<1>5. g'[c] = x /\ \A d \in SN!Greenlets : d # c => g'[d] = g[d] BY <1>1, <1>2, <1>3
<1>6. handlers'[Key[c]] = c BY <1>1, <1>2, <1>3 DEF HandlerMaps
<1> QED BY <1>1, <1>2, <1>4, <1>5, <1>6, GoesOnWithOwn

LEMMA StartIsOwn ==
  ASSUME SN!SerialConnAssumption, SN!KeysDiffer, SN!IInv, SN!OwnInv, SN!_start_session
  PROVE  SN!OwnInv'
<1> DEFINE c == session + 1
           x == SN!Begun(g[c])
<1>0. SN!TypeOK /\ SN!SessionsAreRight BY DEF SN!IInv
<1>1. session < MaxSessions /\ session' = c /\ back' = back BY DEF SN!_start_session
<1>2. g' = [g EXCEPT ![c] = x] /\ handlers' = [handlers EXCEPT ![SN!KeyOf(c)] = c]
  BY <1>1 DEF SN!_start_session, SN!Register
<1>3. c \in 1..MaxSessions /\ c > session
  BY <1>0, <1>1, LineConstants DEF SN!TypeOK, SN!SessionTypeOK
<1>4. c \in SN!Greenlets /\ c \notin Clients BY <1>3, GreenletsAreNumbers
<1>5. g \in [SN!Greenlets -> GreenletStates] BY <1>0, GreenletTypes
<1> HIDE DEF c, x
<1>6. g[c].pc = "off" BY <1>0, <1>3 DEF SN!SessionsAreRight
<1>7. \A d \in SN!Greenlets : d # c => g'[d] = g[d] BY <1>2, <1>5
<1> QED BY <1>1, <1>2, <1>4, <1>6, <1>7, GoesOnWithOwn

LEMMA DisconnectIsOwn ==
  ASSUME SN!SerialConnAssumption, SN!KeysDiffer, SN!IInv, SN!OwnInv, SN!disconnect
  PROVE  SN!OwnInv'
<1>1. /\ ~connected /\ back' = <<>> /\ UNCHANGED handlers
      /\ g' = [c \in SN!Greenlets |-> IF c \in awaited THEN SN!Closed(g[c]) ELSE g[c]]
  BY DEF SN!disconnect
<1>2. \A c \in Clients : c \in SN!Greenlets /\ c \notin awaited
  BY <1>1, KeysOfGreenlets DEF SN!IInv, SN!SessionsAreRight, SN!LineIsOfWaiters
<1>3. \A c \in Clients : g'[c] = g[c] BY <1>1, <1>2
<1>4. DOMAIN back' = {} BY <1>1
<1>5. SN!HandlersAreOwn' BY <1>1, <1>3 DEF SN!OwnInv, SN!HandlersAreOwn
<1>6. SN!AnswersAreFresh' BY <1>3, <1>4 DEF SN!OwnInv, SN!AnswersAreFresh, SN!Arg
<1> QED BY <1>5, <1>6 DEF SN!OwnInv

LEMMA AnswerIsOwn ==
  ASSUME SN!SerialConnAssumption, SN!KeysDiffer, SN!IInv, SN!OwnInv, NEW answered \in BOOLEAN, SN!McuAnswers(answered)
  PROVE  SN!OwnInv'
<1> DEFINE c == wire[1].from
           last == Len(back)
<1>1. UNCHANGED <<g, handlers>> BY DEF SN!McuAnswers
<1>2. PICK n \in {1, 2} :
           /\ n = IF answered THEN 2 ELSE 1
           /\ Len(wire) \in Nat /\ Len(wire) > 0 /\ DOMAIN wire = 1..Len(wire) /\ c \in SN!Greenlets
           /\ last \in Nat /\ DOMAIN back = 1..last /\ DOMAIN back' = 1..last + n
           /\ \A i \in DOMAIN back : back'[i] = back[i]
           /\ back'[last + n] = [ack |-> TRUE, from |-> c, arg |-> 0]
           /\ answered => back'[last + 1] = [ack |-> FALSE, from |-> SN!KeyOf(c), arg |-> wire[1].arg]
  BY AnswerIsSent, Zenon
<1>3. wire[1].arg = SN!Arg(c, g[c])
  <2>1. 1 \in DOMAIN wire BY <1>2
  <2> QED BY <2>1 DEF SN!IInv, SN!LineIsOfWaiters
<1> HIDE DEF c, last
<1>4. SN!HandlersAreOwn' BY <1>1 DEF SN!OwnInv, SN!HandlersAreOwn
<1>5. SN!AnswersAreFresh'
  <2> SUFFICES ASSUME NEW d \in Clients, NEW i \in DOMAIN back', ~back'[i].ack, back'[i].from = Key[d]
      PROVE  /\ back'[i].arg = SN!Arg(d, g[d])
             /\ \E j \in DOMAIN back' : i < j /\ back'[j].ack /\ back'[j].from = d
    BY <1>1 DEF SN!OwnInv, SN!AnswersAreFresh, SN!Arg
  <2>1. i \in DOMAIN back \/ (answered /\ i = last + 1 /\ n = 2)
    <3>1. last \in Nat /\ DOMAIN back = 1..last /\ DOMAIN back' = 1..last + n /\ back'[last + n].ack
          /\ (n = 1 \/ (n = 2 /\ answered))
      BY <1>2
    <3> QED BY <3>1
  <2>2. CASE i \in DOMAIN back
    <3>1. DOMAIN back \subseteq DOMAIN back' /\ back'[i] = back[i] BY <1>2, <2>2
    <3> QED BY <1>2, <2>2, <3>1 DEF SN!OwnInv, SN!AnswersAreFresh
  <2>3. CASE answered /\ i = last + 1 /\ n = 2
    <3>1. back'[i].from = SN!KeyOf(c) /\ back'[i].arg = SN!Arg(c, g[c]) BY <1>2, <1>3, <2>3
    <3>2. c = d
      <4>1. SN!KeyOf(c) = Key[d] /\ c \in SN!Greenlets BY <1>2, <3>1
      <4> QED BY <4>1, KeysOfGreenlets
    <3>3. last + n \in DOMAIN back' /\ i < last + n /\ back'[last + n].ack /\ back'[last + n].from = c
      BY <1>2, <2>3
    <3> QED BY <3>1, <3>2, <3>3
  <2> QED BY <2>1, <2>2, <2>3
<1> QED BY <1>4, <1>5 DEF SN!OwnInv

LEMMA ReceiveIsOwn ==
  ASSUME SN!SerialConnAssumption, SN!KeysDiffer, SN!IInv, SN!OwnInv, SN!_bg_thread
  PROVE  SN!OwnInv'
<1> DEFINE r == back[1]
<1>0. SN!TypeOK /\ SN!LineIsOfWaiters /\ SN!HandlersAreOwn /\ SN!AnswersAreFresh BY DEF SN!IInv, SN!OwnInv
<1>1. UNCHANGED handlers BY DEF SN!_bg_thread
<1>2. /\ 1 \in DOMAIN back /\ DOMAIN back = 1..Len(back)
      /\ \A i \in DOMAIN back : i = 1 \/ (i - 1 \in DOMAIN back' /\ back'[i - 1] = back[i])
      /\ \A i \in DOMAIN back' : i \in Nat /\ i + 1 \in DOMAIN back /\ back'[i] = back[i + 1] /\ i + 1 # 1
  BY MessageIsTaken
<1>3. g \in [SN!Greenlets -> GreenletStates] /\ handlers \in HandlerMaps BY <1>0, GreenletTypes
<1>4. r.arg \in Nat /\ r.ack \in BOOLEAN BY <1>0, <1>2, MessageTypes
<1>5. \A d \in Clients : d \in SN!Greenlets BY KeysOfGreenlets
<1>6. \A d \in Clients : /\ g'[d].data = g[d].data
                         /\ \/ g'[d].pc = g[d].pc
                            \/ g'[d].pc = "acked" /\ g[d].pc = "wait"
                         /\ g'[d].got \in {g[d].got, SN!Arg(d, g[d])}
                         /\ g'[d].got = -1 => g[d].got = -1
  <2>1. CASE r.ack
    <3>1. g' = [g EXCEPT ![r.from].pc = "acked"] BY <2>1 DEF SN!_bg_thread
    <3>2. r.from \in SN!Greenlets /\ g[r.from].pc = "wait" BY <1>2, <2>1, AcksAreOfWaiters
    <3> HIDE DEF r
    <3>3. \A d \in SN!Greenlets : /\ d # r.from => g'[d] = g[d]
                                  /\ g'[d].data = g[d].data /\ g'[d].got = g[d].got
                                  /\ d = r.from => g'[d].pc = "acked"
      BY <1>3, <3>1, <3>2 DEF GreenletStates
    <3> QED BY <1>5, <3>2, <3>3
  <2>2. CASE ~r.ack
    <3> DEFINE h == handlers[r.from]
    <3>1. g' = (IF h = 0 THEN g ELSE [g EXCEPT ![h].got = r.arg]) BY <2>2 DEF SN!_bg_thread
    <3>2. PICK e \in SN!Greenlets : r.from = SN!KeyOf(e)
      <4>1. r.from \in DOMAIN handlers BY <1>0, <1>2, <2>2 DEF SN!TypeOK, SN!LineTypeOK
      <4> QED BY <1>3, <4>1 DEF HandlerMaps
    <3>3. h \in SN!Greenlets \cup {0} /\ (h \in Clients => r.arg = SN!Arg(h, g[h]))
      <4>1. h \in SN!Greenlets \cup {0} BY <1>3, <3>2 DEF HandlerMaps
      <4>2. CASE e \in Clients
        <5>1. r.from = Key[e] BY <3>2, <4>2, KeysOfGreenlets
        <5>2. h \in {0, e} BY <1>0, <4>2, <5>1 DEF SN!HandlersAreOwn
        <5>3. r.arg = SN!Arg(e, g[e]) BY <1>0, <1>2, <2>2, <4>2, <5>1 DEF SN!AnswersAreFresh
        <5>4. 0 \notin Clients BY KeysOfGreenlets
        <5> QED BY <4>1, <5>2, <5>3, <5>4
      <4>3. CASE e \notin Clients
        <5>1. e \in 1..MaxSessions BY <4>3, GreenletsAreNumbers
        <5>2. r.from = 0 BY <3>2, <5>1, KeysOfGreenlets
        <5>3. h \notin Clients BY <1>0, <5>1, <5>2 DEF SN!HandlersAreOwn
        <5> QED BY <4>1, <5>3
      <4> QED BY <4>2, <4>3
    <3> HIDE DEF r, h
    <3>4. \A d \in SN!Greenlets : /\ g'[d].data = g[d].data /\ g'[d].pc = g[d].pc
                                  /\ g'[d].got = IF d = h THEN r.arg ELSE g[d].got
      <4>1. 0 \notin SN!Greenlets BY GreenletsAreNumbers
      <4> QED BY <1>3, <3>1, <3>3, <4>1 DEF GreenletStates
    <3> QED BY <1>4, <1>5, <3>3, <3>4
  <2> QED BY <1>4, <2>1, <2>2
<1>7. SN!HandlersAreOwn' BY <1>0, <1>1, <1>6 DEF SN!HandlersAreOwn
<1>8. SN!AnswersAreFresh'
  <2> SUFFICES ASSUME NEW d \in Clients
      PROVE  /\ g'[d].got \in {-1, SN!Arg(d, g'[d])} /\ (g'[d].pc = "done" => g'[d].got # -1)
             /\ \A i \in DOMAIN back' : ~back'[i].ack /\ back'[i].from = Key[d] =>
                  /\ back'[i].arg = SN!Arg(d, g'[d])
                  /\ \E j \in DOMAIN back' : i < j /\ back'[j].ack /\ back'[j].from = d
    BY DEF SN!AnswersAreFresh, SN!None
  <2>1. SN!Arg(d, g'[d]) = SN!Arg(d, g[d]) BY <1>6 DEF SN!Arg
  <2>2. g'[d].got \in {-1, SN!Arg(d, g'[d])} /\ (g'[d].pc = "done" => g'[d].got # -1)
    BY <1>0, <1>6, <2>1 DEF SN!AnswersAreFresh, SN!None
  <2>3. ASSUME NEW i \in DOMAIN back', ~back'[i].ack, back'[i].from = Key[d]
        PROVE  /\ back'[i].arg = SN!Arg(d, g'[d])
               /\ \E j \in DOMAIN back' : i < j /\ back'[j].ack /\ back'[j].from = d
    <3>1. i \in Nat /\ i + 1 \in DOMAIN back /\ back'[i] = back[i + 1] BY <1>2
    <3>2. /\ back[i + 1].arg = SN!Arg(d, g[d])
          /\ \E j \in DOMAIN back : i + 1 < j /\ back[j].ack /\ back[j].from = d
      BY <1>0, <2>3, <3>1 DEF SN!AnswersAreFresh
    <3>3. PICK j \in DOMAIN back : i + 1 < j /\ back[j].ack /\ back[j].from = d BY <3>2
    <3>4. j \in Nat /\ j # 1 /\ i < j - 1 BY <1>2, <3>1, <3>3
    <3> QED BY <1>2, <2>1, <3>1, <3>2, <3>3, <3>4
  <2> QED BY <2>2, <2>3
<1> QED BY <1>7, <1>8 DEF SN!OwnInv

\* No greenlet has begun, no handler is registered.
LEMMA OwnStartsRight ==
  ASSUME SN!SerialConnAssumption, SN!Init
  PROVE  SN!OwnInv
<1>1. /\ g = [c \in SN!Greenlets |-> [pc |-> "off", tries |-> 0, got |-> -1, data |-> 0]]
      /\ handlers = [k \in {SN!KeyOf(c) : c \in SN!Greenlets} |-> 0] /\ back = <<>>
  BY DEF SN!Init, SN!None
<1>2. \A c \in Clients : c \in SN!Greenlets /\ SN!KeyOf(c) = Key[c] /\ c # 0
  <2>1. Clients \subseteq SN!Greenlets BY DEF SN!Greenlets
  <2>2. \A c \in Clients : SN!KeyOf(c) = Key[c] BY DEF SN!KeyOf
  <2>3. \A c \in Clients : c # 0 BY LineConstants
  <2> QED BY <2>1, <2>2, <2>3
<1>3. \A s \in 1..MaxSessions : s \in SN!Greenlets /\ SN!KeyOf(s) = 0
  BY GreenletsAreNumbers DEF SN!Greenlets
<1>4. \A c \in SN!Greenlets : g[c].pc = "off" /\ g[c].got = -1 /\ handlers[SN!KeyOf(c)] = 0
  BY <1>1
<1>5. SN!HandlersAreOwn
  <2>1. \A c \in Clients : g[c].pc = "off" /\ handlers[Key[c]] = 0 BY <1>2, <1>4
  <2>2. \A s \in 1..MaxSessions : handlers[0] = 0 BY <1>3, <1>4
  <2>3. 0 \notin Clients BY <1>2
  <2> QED BY <2>1, <2>2, <2>3 DEF SN!HandlersAreOwn
<1>6. SN!AnswersAreFresh
  <2>1. DOMAIN back = {} BY <1>1
  <2>2. \A c \in Clients : g[c].pc = "off" /\ g[c].got = -1 BY <1>2, <1>4
  <2> QED BY <2>1, <2>2 DEF SN!AnswersAreFresh, SN!None
<1> QED BY <1>5, <1>6 DEF SN!OwnInv

LEMMA OwnStepKeeps ==
  ASSUME SN!SerialConnAssumption, SN!KeysDiffer, SN!IInv, SN!OwnInv, [SN!Next]_(SN!vars)
  PROVE  SN!OwnInv'
<1>1. ASSUME UNCHANGED <<g, handlers, back>> PROVE SN!OwnInv'
  BY <1>1 DEF SN!OwnInv, SN!HandlersAreOwn, SN!AnswersAreFresh, SN!Arg
<1>2. CASE UNCHANGED SN!vars BY <1>1, <1>2 DEF SN!vars
<1>3. ASSUME NEW c \in SN!Greenlets, SN!raw_send_wait_ack(c) \/ SN!get_response(c) PROVE SN!OwnInv'
  BY <1>3, SendIsOwn, ResponseIsOwn
<1>4. ASSUME NEW answered \in BOOLEAN, SN!McuAnswers(answered) PROVE SN!OwnInv'
  BY <1>4, AnswerIsOwn
<1>5. ASSUME NEW answered \in BOOLEAN, SN!_get_clock_event(answered) PROVE SN!OwnInv'
  BY <1>1, <1>5 DEF SN!_get_clock_event
<1>6. CASE SN!_bg_thread \/ SN!_start_session \/ SN!disconnect
  BY <1>6, ReceiveIsOwn, StartIsOwn, DisconnectIsOwn
<1>7. CASE SN!identified BY <1>1, <1>7 DEF SN!identified
<1>8. ASSUME NEW c \in Clients, SN!query(c) PROVE SN!OwnInv'
  BY <1>8, QueryIsOwn
<1> QED BY <1>2, <1>3, <1>4, <1>5, <1>6, <1>7, <1>8 DEF SN!Next

\* What a query returns is the answer to it, and no query ends in a stray error.
LEMMA OwnIsRight ==
  ASSUME SN!OwnInv
  PROVE  SN!AnswersAreOwn /\ SN!NoStrayError
BY DEF SN!OwnInv, SN!HandlersAreOwn, SN!AnswersAreFresh, SN!AnswersAreOwn, SN!NoStrayError, SN!None

\* The invariant of the queries: who waits for a notification has a command
\* or its acknowledgement on the line, and sessions are read one after the other.
THEOREM ConnectionInvariant ==
  ASSUME SN!SerialConnAssumption
  PROVE  SN!Spec => []SN!IInv
<1>1. SN!Init => SN!IInv BY ConnectionStartsRight
<1>2. SN!IInv /\ [SN!Next]_(SN!vars) => SN!IInv' BY ConnectionStepKeeps
<1> QED BY <1>1, <1>2, PTL DEF SN!Spec

\* No greenlet waits for a notification that never comes, and the dictionary of a
\* connected micro-controller is whole, whatever answers are lost and sessions
\* given up.
THEOREM ConnectionHolds ==
  ASSUME SN!SerialConnAssumption
  PROVE  SN!Spec => [](SN!NobodyWaitsInVain /\ SN!DictionaryIsWhole)
<1>1. SN!IInv => SN!NobodyWaitsInVain /\ SN!DictionaryIsWhole BY ConnectionIsRight
<1> QED BY <1>1, ConnectionInvariant, PTL

\* A clock that turns late enough is extended to the one of the micro-controller
\* (_handle_clock, clock32_to_clock64), for events of the last tick too.
THEOREM ClockIsKnown ==
  ASSUME SN!SerialConnAssumption, SN!ClockTurnsLate
  PROVE  SN!Spec => []SN!ClockIsExtended
<1>1. SN!Init => SN!ClockIsCounted BY ClockStartsRight
<1>2. SN!IInv /\ SN!ClockIsCounted /\ [SN!Next]_(SN!vars) => SN!ClockIsCounted' BY ClockStepKeeps
<1>3. SN!IInv /\ SN!ClockIsCounted => SN!ClockIsExtended BY CountedIsExtended
<1> QED BY <1>1, <1>2, <1>3, ConnectionInvariant, PTL DEF SN!Spec

\* Where clients wait for answers of different name or oid, each gets the
\* answer to the very command he sent, or none, and never another's error.
THEOREM QueriesGetTheirAnswers ==
  ASSUME SN!SerialConnAssumption, SN!KeysDiffer
  PROVE  SN!Spec => [](SN!AnswersAreOwn /\ SN!NoStrayError)
<1>1. SN!Init => SN!OwnInv BY OwnStartsRight
<1>2. SN!IInv /\ SN!OwnInv /\ [SN!Next]_(SN!vars) => SN!OwnInv' BY OwnStepKeeps
<1>3. SN!OwnInv => SN!AnswersAreOwn /\ SN!NoStrayError BY OwnIsRight
<1> QED BY <1>1, <1>2, <1>3, ConnectionInvariant, PTL DEF SN!Spec
==============================================================================
