----------------------------- MODULE TempSensors -----------------------------
(***************************************************************************)
(* Temperature sensors that the host polls (extras/bme280, htu21d, sht3x,  *)
(* aht10, lm75, temperature_host), those the micro-controller polls        *)
(* (ds18b20), the sensor that combines others (temperature_combined), and  *)
(* what a user of them reads (temperature_sensor, Heater.get_temp).        *)
(*                                                                         *)
(* Each sensor is a timer: it starts a measurement, waits, reads and, if   *)
(* all went well, hands the temperature with the present time to its user  *)
(* and sleeps.  A read may find the chip busy, fail its checksum, or raise *)
(* an error; each driver has its own idea of what then happens.  Zero is   *)
(* what the drivers write into the temperature when they give up.          *)
(***************************************************************************)
EXTENDS Integers, Sequences, FiniteSets, FiniteSetsExt

CONSTANTS Sensors, KindsOf, \* the drivers that each sensor may have
          Combined,     \* the sensors that temperature_combined reads
          Temps, MinTemp, MaxTemp, MaxDeviation,
          ReportTime,   \* ticks from a report to the next sample
          StaleTime,    \* QUELL_STALE_TIME
          MaxBusyCycles,\* AHT10_MAX_BUSY_CYCLES
          MaxFaults     \* bound: reads that go wrong

VARIABLES sensor, chip, user, combined, ready, shutdown, faults

vars == <<sensor, chip, user, combined, ready, shutdown, faults>>
Polled(k) == sensor[k].kind # "ds18b20"
Outcomes == {"ok", "busy", "checksum", "error"}

Off(kind) == [kind |-> kind, at |-> "off", wake |-> 0, temp |-> 0, cycles |-> 0]
Init ==
    /\ \E kind \in [Sensors -> UNION {KindsOf[k] : k \in Sensors}] :
         /\ \A k \in Sensors : kind[k] \in KindsOf[k]
         /\ sensor = [k \in Sensors |-> Off(kind[k])]
    /\ chip \in [Sensors -> Temps]
    /\ user = [k \in Sensors |-> [temp |-> 0, age |-> StaleTime + 1, measured |-> StaleTime + 1]]
    /\ combined = [temp |-> 0, wake |-> 0, handed |-> 0]
    /\ ready = FALSE /\ shutdown = FALSE /\ faults = 0

(* handle_connect: the chip is set up and its timer started.  An HTU21D of *)
(* unknown identity ends the start of the host.                            *)
handle_connect(k) ==
    /\ Polled(k) /\ ~ready /\ ~shutdown /\ sensor[k].at = "off"
    /\ \/ sensor' = [sensor EXCEPT ![k].at = "asleep"] /\ UNCHANGED <<shutdown, faults>>
       \/ /\ sensor[k].kind = "htu21d" /\ faults < MaxFaults
          /\ faults' = faults + 1 /\ shutdown' = TRUE /\ UNCHANGED sensor
    /\ UNCHANGED <<chip, user, combined, ready>>

handle_ready ==
    /\ ~ready /\ ~shutdown /\ \A k \in Sensors : Polled(k) => sensor[k].at # "off"
    /\ ready' = TRUE
    /\ UNCHANGED <<sensor, chip, user, combined, shutdown, faults>>

(* The timer fires: the commands that start a measurement.                 *)
Fire(k) ==
    /\ sensor[k].at = "asleep" /\ sensor[k].wake = 0 /\ ~shutdown
    /\ sensor' = [sensor EXCEPT ![k].at = "sampling", ![k].cycles = 0]
    /\ UNCHANGED <<chip, user, combined, ready, shutdown, faults>>

(* What the handler does next: read again, hand the temperature t over and *)
(* sleep, never run again, or end the host with an exception.              *)
Again     == [next |-> "again", temp |-> 0]
Report(t) == [next |-> "report", temp |-> t]
Dead      == [next |-> "dead", temp |-> 0]
Crash     == [next |-> "crash", temp |-> 0]

_sample_lm75(s, t, o) == IF o = "error" THEN Dead ELSE Report(t)
_sample_pi_temperature(s, t, o) == IF o = "error" THEN Dead ELSE Report(t)
_sample_bme280(s, t, o) ==
    CASE o = "busy" -> Again [] o = "error" -> Dead [] OTHER -> Report(t)
_sample_bme680(s, t, o) ==
    CASE o = "busy" -> Again [] o = "error" -> Dead
      [] o = "checksum" -> Report(s.temp)     \* the raw value of a skipped sample
      [] OTHER -> Report(t)
_sample_bmp180(s, t, o) == IF o = "error" THEN Dead ELSE Report(t)
_sample_bmp388(s, t, o) ==
    CASE o = "error" -> Crash [] o = "busy" -> Report(s.temp) [] OTHER -> Report(t)
_sample_sht3x(s, t, o) ==
    CASE o = "error" -> Dead [] o = "checksum" -> Report(s.temp) [] OTHER -> Report(t)
_sample_htu21d(s, t, o) ==
    CASE o = "error" -> Dead [] o = "checksum" -> Report(s.temp) [] OTHER -> Report(t)
\* Mutant: a chip that stays busy is waited for.
_make_measurement_busy(s, t, o) ==
    CASE o = "error" -> Dead [] o = "busy" -> Again [] OTHER -> Report(t)

_make_measurement(s, t, o) ==
    CASE o = "error" \/ (o = "busy" /\ s.cycles >= MaxBusyCycles) -> Dead
      [] o = "busy" -> Again
      [] OTHER -> Report(t)
_sample_aht10(s, t, o) == _make_measurement(s, t, o)

Sampled(s, t, o) ==
    LET k == s.kind IN
    CASE k = "lm75"    -> _sample_lm75(s, t, o)
      [] k = "host"    -> _sample_pi_temperature(s, t, o)
      [] k = "bme280"  -> _sample_bme280(s, t, o)
      [] k = "bme680"  -> _sample_bme680(s, t, o)
      [] k = "bmp180"  -> _sample_bmp180(s, t, o)
      [] k = "bmp388"  -> _sample_bmp388(s, t, o)
      [] k = "sht3x"   -> _sample_sht3x(s, t, o)
      [] k = "htu21d"  -> _sample_htu21d(s, t, o)
      [] k = "aht10"   -> _sample_aht10(s, t, o)

Outside(t) == t < MinTemp \/ t > MaxTemp

(* A value is handed over: read_time is now, whenever it was measured.     *)
temperature_callback(k, t, measured) ==
    user' = [user EXCEPT ![k] = [temp |-> t, age |-> 0, measured |-> measured]]

(* The answer to the read.  Invoking the shutdown does not keep the value  *)
(* from being handed over.                                                 *)
Read(k, o) ==
    /\ sensor[k].at = "sampling" /\ ~shutdown
    /\ o # "ok" => faults < MaxFaults
    /\ faults' = IF o = "ok" THEN faults ELSE faults + 1
    /\ \E r \in {Sampled(sensor[k], chip[k], o)} :
         CASE r.next = "again" ->
                /\ sensor' = [sensor EXCEPT ![k].cycles = @ + 1]
                /\ UNCHANGED <<user, shutdown>>
           [] r.next = "report" ->
                /\ sensor' = [sensor EXCEPT ![k].at = "asleep", ![k].wake = ReportTime,
                                          ![k].temp = r.temp, ![k].cycles = 0]
                /\ shutdown' = Outside(r.temp)
                /\ temperature_callback(k, r.temp,
                       IF o \in {"checksum", "busy"} THEN user[k].measured ELSE 0)
           [] r.next = "dead" ->
                /\ sensor' = [sensor EXCEPT ![k].at = "dead", ![k].temp = 0, ![k].cycles = 0]
                /\ UNCHANGED <<user, shutdown>>
           [] r.next = "crash" ->
                /\ sensor' = [sensor EXCEPT ![k].at = "dead"]
                /\ shutdown' = TRUE /\ UNCHANGED user
    /\ UNCHANGED <<chip, combined, ready>>

(* ds18b20: the micro-controller samples, checks the range and reports;    *)
(* the host passes on what has no fault flag.                              *)
_handle_ds18b20_response(k, fault) ==
    /\ ~Polled(k) /\ ready /\ ~shutdown /\ sensor[k].wake = 0
    /\ fault => faults < MaxFaults
    /\ faults' = IF fault THEN faults + 1 ELSE faults
    /\ shutdown' = (~fault /\ Outside(chip[k]))
    /\ IF fault \/ shutdown' THEN UNCHANGED user ELSE temperature_callback(k, chip[k], 0)
    /\ sensor' = [sensor EXCEPT ![k].wake = ReportTime]
    /\ UNCHANGED <<chip, combined, ready>>

(* Heater.get_temp: an old reading counts as zero.                         *)
get_temp(k) == IF user[k].age > StaleTime THEN 0 ELSE user[k].temp
\* PrinterSensorGeneric.get_status: the last one, however old.
generic_get_status(k) == user[k].temp

(* temperature_combined over temperature_sensor objects.  The method is    *)
(* the maximum; a result of zero is not taken over.                        *)
Values == {generic_get_status(k) : k \in Combined}
update_temp == IF Max(Values) # 0 THEN Max(Values) ELSE combined.temp

_temperature_update_event ==
    /\ Combined # {} /\ ready /\ ~shutdown /\ combined.wake = 0
    /\ combined' = [temp |-> update_temp, wake |-> 1, handed |-> update_temp]
    /\ shutdown' = (Max(Values) - Min(Values) > MaxDeviation \/ Outside(update_temp))
    /\ UNCHANGED <<sensor, chip, user, ready, faults>>

Older(a) == IF a > StaleTime THEN a ELSE a + 1
Tick ==
    /\ ~shutdown
    /\ \A k \in Sensors : IF Polled(k) THEN sensor[k].at # "asleep" \/ sensor[k].wake # 0
                          ELSE ~ready \/ sensor[k].wake # 0
    /\ combined.wake # 0 \/ Combined = {} \/ ~ready
    /\ sensor' = [k \in Sensors |-> [sensor[k] EXCEPT !.wake = IF @ = 0 THEN 0 ELSE @ - 1]]
    /\ combined' = [combined EXCEPT !.wake = IF @ = 0 THEN 0 ELSE @ - 1]
    /\ user' = [k \in Sensors |-> [user[k] EXCEPT !.age = Older(@), !.measured = Older(@)]]
    /\ UNCHANGED <<chip, ready, shutdown, faults>>

\* The temperature at the chip changes.
Warm(k) == /\ ~shutdown
           /\ \E t \in Temps \ {chip[k]} : chip' = [chip EXCEPT ![k] = t]
           /\ UNCHANGED <<sensor, user, combined, ready, shutdown, faults>>

Next ==
    \/ \E k \in Sensors : \/ handle_connect(k) \/ Fire(k) \/ Warm(k)
                          \/ \E o \in Outcomes : Read(k, o)
                          \/ \E fault \in BOOLEAN : _handle_ds18b20_response(k, fault)
    \/ handle_ready \/ _temperature_update_event \/ Tick

Spec == Init /\ [][Next]_vars

-----------------------------------------------------------------------------
TypeOK ==
    /\ \A k \in Sensors : /\ sensor[k].at \in {"off", "asleep", "sampling", "dead"}
                        /\ sensor[k].wake \in 0 .. ReportTime
                        /\ sensor[k].temp \in Temps \union {0}
                        /\ user[k].age \in 0 .. StaleTime + 1
    /\ combined.temp \in Temps \union {0}

(* Whatever a user was handed is within the limits, or the printer has     *)
(* been shut down: also for a combination, and for a sensor that repeats   *)
(* its last value.                                                         *)
HandedIsInRange ==
    \/ shutdown
    \/ /\ \A k \in Sensors : user[k].age <= StaleTime => ~Outside(user[k].temp)
       /\ combined.handed # 0 => ~Outside(combined.handed)

(* A chip that stays busy is given up after a number of cycles.            *)
BusyIsBounded ==
    \A k \in Sensors : sensor[k].kind = "aht10" => sensor[k].cycles <= MaxBusyCycles

(* What a heater reads was measured not long ago: fails, a checksum that   *)
(* keeps failing makes sht3x and htu21d repeat an old value as a new one.  *)
ReadingIsRecent ==
    \A k \in Sensors : get_temp(k) # 0 => user[k].measured <= StaleTime

(* The combination is not taken for alive when all its sensors are dead:   *)
(* fails, each temperature_sensor keeps its last value for ever.            *)
CombinedIsAlive ==
    ready /\ ~shutdown /\ combined.handed # 0 /\ combined.wake = 1
        => \E k \in Combined : sensor[k].at # "dead"
=============================================================================
