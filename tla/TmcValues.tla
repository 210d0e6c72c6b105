------------------------------- MODULE TmcValues -------------------------------
(* What the stepper drivers' values are made of: fields of registers, messages   *)
(* on the wires, the bits of a current, the values of autotune_tmc.py. `input`   *)
(* is one call; the definitions compute what the code returns for it. Currents   *)
(* are whole numbers of a unit in which the reference voltages are whole too.    *)
EXTENDS Integers, Sequences, FiniteSets

CONSTANTS Layout,      \* fields of a register: <<shift, size, signed>>
          Bytes,       \* byte values of a register read over the UART
          ChainLen, Currents, Holds, Scale, Clocks, Tunings

VARIABLES what, input
vars == <<what, input>>

Least(a, b) == IF a < b THEN a ELSE b
Most(a, b) == IF a > b THEN a ELSE b
Abs(a) == IF a < 0 THEN -a ELSE a
Ceil(a, b) == -((-a) \div b)
\* F(v) with v computed once.
With(v, F(_)) == CHOOSE y \in {F(x) : x \in {v}} : TRUE
Rounded(a, b) == (2 * a + b) \div (2 * b)      \* int(a / b + .5)

(* ---- FieldHelper ---- *)
get_field(f, reg) == LET raw == (reg \div f[1]) % f[2]
                     IN IF f[3] /\ 2 * raw > f[2] - 1 THEN raw - f[2] ELSE raw
\* Mutant: the new value is not cut to the field's mask.
set_field_uncut(f, v, reg) == reg - ((reg \div f[1]) % f[2]) * f[1] + v * f[1]
set_field(f, v, reg) == reg - ((reg \div f[1]) % f[2]) * f[1] + (v % f[2]) * f[1]
\* The values set_config_field accepts.
FieldRange(f) == LET maxval == f[2] - 1 IN
                 IF f[3] THEN -(maxval \div 2 + 1)..(maxval \div 2) ELSE 0..maxval

(* ---- messages on the UART: sequences of bits, the lowest first ---- *)
Bits(b) == [i \in 1..8 |-> (b \div 2 ^ (i - 1)) % 2]
FromBits(s, p) == LET Bit(i) == s[p + i - 1] * 2 ^ (i - 1) IN
                  Bit(1) + Bit(2) + Bit(3) + Bit(4) + Bit(5) + Bit(6) + Bit(7) + Bit(8)
Poly(crc) == crc + 7 - 2 * (crc % 8)
\* Mutant: the polynomial is never applied.
_calc_crc8_sum(data) == 0
_calc_crc8(data) ==
  LET crc[i \in 0..(8 * Len(data))] ==
        IF i = 0 THEN 0
        ELSE LET b == Bits(data[(i - 1) \div 8 + 1])[((i - 1) % 8) + 1] IN
             With(crc[i - 1], LAMBDA c : IF c \div 128 # b THEN Poly((c * 2) % 256) ELSE (c * 2) % 256)
  IN crc[8 * Len(data)]
\* A start bit before and a stop bit after every byte.
_add_serial_bits(data) ==
  [i \in 1..(10 * Len(data)) |-> LET k == (i - 1) % 10
                                 IN IF k = 0 THEN 0 ELSE IF k = 9 THEN 1
                                    ELSE Bits(data[(i - 1) \div 10 + 1])[k]]
_encode_write(sync, addr, reg, val) ==
  With(<<sync, addr, reg>> \o val, LAMBDA msg : With(Append(msg, _calc_crc8(msg)), _add_serial_bits))
None == <<>>
_decode_read(reg, data) ==
  With([i \in 1..4 |-> FromBits(data, 32 + 10 * (i - 1))], LAMBDA val :
    IF Len(data) # 80 \/ data # _encode_write(5, 255, reg, val) THEN None ELSE val)

(* ---- a chain of drivers on one SPI bus ---- *)
Zeros(k) == [i \in 1..k |-> 0]
_build_cmd(data, chain_pos) ==
  Zeros((ChainLen - chain_pos) * 5) \o data \o Zeros((chain_pos - 1) * 5)
Response(pr, chain_pos) == SubSeq(pr, (ChainLen - chain_pos) * 5 + 1, (ChainLen - chain_pos + 1) * 5)
\* The chain is a shift register: the bytes sent first go to the last driver.
Shifted(cmd, pos) == SubSeq(cmd, (ChainLen - pos) * 5 + 1, (ChainLen - pos + 1) * 5)

(* ---- the bits of a current ---- *)
InBits(cs) == Most(0, Least(31, cs))
vref2130(vsense) == IF vsense THEN 18 ELSE 32
vref2660(vsense) == IF vsense THEN 33 ELSE 62
_calc_current_bits2130(c, vsense) == InBits(Rounded(c, vref2130(vsense)) - 1)
_calc_current_bits2660(c, vsense) == InBits(Rounded(c, vref2660(vsense)) - 1)
FromBits2130(cs, vsense) == (cs + 1) * vref2130(vsense)
FromBits2660(cs, vsense) == (cs + 1) * vref2660(vsense)
_calc_current2130(run, hold) ==
  LET irun == _calc_current_bits2130(run, TRUE)
      irun2 == _calc_current_bits2130(run, FALSE)
      cur == FromBits2130(irun, TRUE)
      vsense == ~(irun = 31 /\ cur < run /\ Abs(run - FromBits2130(irun2, FALSE)) < Abs(run - cur))
  IN [vsense |-> vsense, irun |-> IF vsense THEN irun ELSE irun2,
      ihold |-> _calc_current_bits2130(Least(hold, run), vsense)]
_calc_current2660(run) ==
  LET irun == _calc_current_bits2660(run, TRUE)
      irun2 == _calc_current_bits2660(run, FALSE)
      cur == FromBits2660(irun, TRUE)
      vsense == ~(irun = 31 /\ cur < run /\ Abs(run - FromBits2660(irun2, FALSE)) < Abs(run - cur))
  IN [vsense |-> vsense, irun |-> IF vsense THEN irun ELSE irun2]
\* Drivers with a global scaler: the full current is Scale, 0 stands for 256.
_calc_globalscaler2240(c) == LET g == Most(32, Rounded(c * 256, Scale)) IN IF g >= 256 THEN 0 ELSE g
_calc_globalscaler5160(c) == LET g == Most(32, Rounded(c * 256, Scale)) IN IF g >= 256 THEN 0 ELSE g
Scaler(g) == IF g = 0 THEN 256 ELSE g
_calc_current_bits2240(c, g) == InBits((c * 256 * 64 - Scaler(g) * Scale) \div (2 * Scaler(g) * Scale))
_calc_current_bits5160(c, g) == InBits((c * 256 * 64 - Scaler(g) * Scale) \div (2 * Scaler(g) * Scale))
_calc_current2240(run, hold) ==
  LET g == _calc_globalscaler2240(run)
  IN [g |-> g, irun |-> _calc_current_bits2240(run, g), ihold |-> _calc_current_bits2240(Least(hold, run), g)]
_calc_current5160(run, hold) ==
  LET g == _calc_globalscaler5160(run)
  IN [g |-> g, irun |-> _calc_current_bits5160(run, g), ihold |-> _calc_current_bits5160(Least(hold, run), g)]
\* In units of Scale / (256 * 32).
_calc_current_from_field2240(g, bits) == Scaler(g) * (bits + 1)
_calc_current_from_field5160(g, bits) == Scaler(g) * (bits + 1)
\* The smallest range that holds the current; the last one if none does.
KIFS == <<11750, 24000, 36000, 36000>>
_calc_current_range(c, rref) == LET fits == {i \in 1..4 : c * rref <= KIFS[i]}
                                IN IF fits = {} THEN 3 ELSE (CHOOSE i \in fits : \A j \in fits : i <= j) - 1

(* ---- velocities and autotune ---- *)
TMCtstepHelper(freq, dist, velocity) ==
  IF velocity <= 0 THEN 1048575 ELSE Most(0, Least(1048575, Rounded(freq * dist, velocity)))
\* The lowest divider whose chopping stays below the target.
PwmDividers == <<<<3, 2, 410>>, <<2, 2, 512>>, <<1, 2, 683>>, <<0, 2, 1024>>, <<0, 0, 1>>>>
_set_pwmfreq(fclk, target) ==
  LET good == {i \in 1..5 : fclk * PwmDividers[i][2] < target * PwmDividers[i][3]}
  IN PwmDividers[CHOOSE i \in good : \A j \in good : i <= j][1]
\* The check `tbl >= 0 or tbl <= 3` accepts every number.
Accepted(v, low, high) == v >= low \/ v <= high
cmd_AUTOTUNE_TMC(old, t) == [p \in DOMAIN old |->
  IF p \in DOMAIN t /\ Accepted(t[p][1], t[p][2], t[p][3]) THEN t[p][1] ELSE old[p]]
BlankTime == <<16, 34, 36, 54>>
_setup_spreadcycle(c, target, t) ==
  LET ncycles == Ceil(c, target)
      toff == IF t.toff = 0 THEN Most(Least(Ceil(Most(ncycles - 96, 0), 128), 15), 1) ELSE t.toff
      tbl == IF toff = 1 /\ t.tbl = 0 THEN 1 ELSE t.tbl
      pfdcycles == ncycles - (24 + 32 * toff) * 2 - BlankTime[tbl + 1]
  IN [toff |-> toff, tbl |-> tbl,
      tpfd |-> IF t.tpfd = -1 THEN Most(0, Least(15, Ceil(pfdcycles, 128))) ELSE t.tpfd]

Questions == {"field", "uart", "chain", "sense", "scaler", "tune"}
Regs == {0, 5, 90, 255}
Inputs(k) ==
  CASE k = "field" -> {<<f, v, r>> : f \in Layout, v \in UNION {FieldRange(g) : g \in Layout}, r \in Regs}
    [] k = "uart" -> {<<<<a, b, b, a>>, i, j>> : a \in Bytes, b \in Bytes, i \in 0..80, j \in {0, 33, 45, 52, 79}}
    [] k = "chain" -> (1..ChainLen) \X {<<1, 2, 3, 4, 5>>}
    [] k = "sense" -> Currents \X Holds
    [] k = "scaler" -> {c \in Currents : c <= Scale} \X Holds
    [] k = "tune" -> Clocks \X Tunings
Init == what \in Questions /\ input = <<>>
Call == what \in Questions /\ input = <<>> /\ input' \in Inputs(what) /\ UNCHANGED what
Next == Call
Spec == Init /\ [][Next]_vars

On(k) == what = k /\ input # <<>>

\* A field set to a value the configuration accepts reads back as that value, and
\* no other field of the register changes (FieldHelper.get_field, set_field).
FieldsAreApart == On("field") =>
  LET f == input[1]   v == input[2]   reg == set_field(f, v, input[3]) IN
  /\ v \in FieldRange(f) => get_field(f, reg) = v
  /\ \A g \in Layout \ {f} : get_field(g, reg) = get_field(g, input[3])

\* A message with one or two flipped bits is never taken for an answer, and one
\* without is read as the value sent (_calc_crc8, _encode_write, _decode_read).
FlippedIsRefused == On("uart") =>
  LET Flipped(s) == [k \in 1..80 |-> IF (k = input[2]) # (k = input[3]) THEN 1 - s[k] ELSE s[k]]
  IN With(With(_encode_write(5, 255, 6, input[1]), Flipped), LAMBDA got : _decode_read(6, got))
       = IF input[2] = input[3] THEN input[1] ELSE None

\* A command on a chain reaches the driver at its position and no other, and the
\* answer is taken from there (_build_cmd, reg_read).
ChainReaches == On("chain") =>
  \A p \in 1..ChainLen :
    Shifted(_build_cmd(input[2], input[1]), p) = IF p = input[1] THEN input[2] ELSE Zeros(5)

\* The current set is within half a step of the one asked for, unless that is out
\* of the range of the bits; the hold current is never above the run current
\* (_calc_current of the drivers with a sense voltage).
SenseIsClose == On("sense") =>
  LET run == input[1]   hold == input[2]
      a == _calc_current2130(run, hold)   b == _calc_current2660(run)
  IN /\ a.irun \in 0..31 /\ a.ihold <= a.irun /\ b.irun \in 0..31
     /\ run \in 18..(32 * 32) =>
          2 * Abs(FromBits2130(a.irun, a.vsense) - run) <= vref2130(run <= vref2130(TRUE) * 32)
     /\ run \in 33..(62 * 32) =>
          2 * Abs(FromBits2660(b.irun, b.vsense) - run) <= vref2660(run <= vref2660(TRUE) * 32)

\* The same for the drivers with a global scaler; the range holds the current.
ScalerIsClose == On("scaler") =>
  LET run == input[1]   hold == input[2]
      a == _calc_current2240(run, hold)   b == _calc_current5160(run, hold)
  IN /\ a = b /\ a.g \in {0} \union 32..255 /\ a.irun \in 0..31 /\ a.ihold <= a.irun
     /\ 8 * run >= Scale => Abs(_calc_current_from_field2240(a.g, a.irun) * Scale - run * 8192)
                              <= Most((Scaler(a.g) * Scale) \div 2, 16 * Scale)
     /\ _calc_current_from_field5160(b.g, b.ihold) <= _calc_current_from_field5160(b.g, b.irun)
     /\ \A rref \in {12000, 24000} : \A c \in 1..3 :
          c * rref <= 36000 => c * rref <= KIFS[_calc_current_range(c, rref) + 1]

\* Tuned values fit into their fields, and chopping stays below the target
\* frequency (_setup_spreadcycle, _set_pwmfreq, TMCtstepHelper).
TunedFits == On("tune") =>
  LET c == input[1]
      t == cmd_AUTOTUNE_TMC([toff |-> 0, tbl |-> 1, tpfd |-> -1], input[2])
      s == _setup_spreadcycle(c, 55, t)
  IN /\ t.tbl \in 0..3
     /\ s.toff \in 1..15 /\ s.tbl \in 0..3 /\ s.tpfd \in 0..15 /\ (s.toff = 1 => s.tbl # 0)
     /\ _set_pwmfreq(c, 55) > 0 => c * 2 < 55 * 683
     /\ \A v \in 0..3 : TMCtstepHelper(c, 100, v) >= TMCtstepHelper(c, 100, v + 1)
================================================================================
