--------------------------------- MODULE Buttons ---------------------------------
(* Buttons and the rotary encoder (extras/buttons.py) and the keys they give to    *)
(* the menu (extras/display/menu_keys.py). The micro-controller reports changes    *)
(* until they are acknowledged; reports may be lost on the way; the callbacks run  *)
(* later in the main thread. The firmware is modelled from what the host expects.  *)
EXTENDS Integers, Sequences

CONSTANTS Room,         \* reports the firmware keeps (8)
          Wrap,         \* 2^8: the acknowledged reports are counted in one byte
          MaxFlight,    \* messages on their way
          MaxChanges, MaxTime, MaxReads,
          LongPress,    \* LONG_PRESS_DURATION
          Debounce,     \* ADC_DEBOUNCE_TIME in reports of the converter
          AdcButtons    \* buttons on the analog pin

VARIABLES what,     \* what is turned or pressed: "full", "half" (encoders), "click", "adc"
          input,    \* the position of the encoder, or whether the button is pressed
          fw,       \* MCU: reports not acknowledged, number acknowledged; all reports ever made
          msgs,     \* buttons_state messages on their way
          acks,     \* buttons_ack commands on their way
          host,     \* MCU_buttons: reports taken, last one; encoder_state; turns
          async,    \* callbacks the background thread has registered
          ready,    \* callbacks the reactor has read from its pipe
          keys,     \* MenuKeys: click timer, what it sent
          adc,      \* MCU_ADC_buttons
          now
vars == <<what, input, fw, msgs, acks, host, async, ready, keys, adc, now>>

Never == MaxTime + MaxReads + LongPress + 1
Encoder == what \in {"full", "half"}
\* The two pins at a quarter step of the encoder.
Pins(pos) == CASE pos % 4 = 0 -> 3 [] pos % 4 = 1 -> 1 [] pos % 4 = 2 -> 0 [] pos % 4 = 3 -> 2
Level(i) == IF Encoder THEN Pins(i) ELSE i

Init == /\ what \in {"full", "half", "click", "adc"}
        /\ input = 0
        /\ fw = [reports |-> <<>>, acked |-> 0, made |-> <<>>]
        /\ msgs = <<>> /\ acks = <<>> /\ async = <<>> /\ ready = <<>>
        /\ host = [taken |-> <<>>, last |-> Level(0), state |-> 0, turns |-> 0]
        /\ keys = [timer |-> Never, short |-> FALSE, pressed |-> 0, clicks |-> 0, longs |-> 0]
        /\ adc = [last |-> 0, pressed |-> 0, since |-> 0, run |-> 0, calls |-> <<>>]
        /\ now = 0

(* ---- the firmware ---- *)
Change(i) == /\ what # "adc" /\ Len(fw.made) < MaxChanges /\ Len(fw.reports) < Room
             /\ input' = i
             /\ fw' = [fw EXCEPT !.reports = Append(@, Level(i)), !.made = Append(@, Level(i))]
             /\ UNCHANGED <<what, msgs, acks, host, async, ready, keys, adc, now>>
Report == /\ fw.reports # <<>> /\ Len(msgs) < MaxFlight
          /\ msgs' = Append(msgs, [ack |-> fw.acked % Wrap, state |-> fw.reports])
          /\ UNCHANGED <<what, input, fw, acks, host, async, ready, keys, adc, now>>
Lose == /\ msgs # <<>> /\ msgs' = Tail(msgs)
        /\ UNCHANGED <<what, input, fw, acks, host, async, ready, keys, adc, now>>
Acknowledged == /\ acks # <<>> /\ acks' = Tail(acks)
                /\ fw' = [fw EXCEPT !.acked = @ + Head(acks),
                                    !.reports = SubSeq(@, Head(acks) + 1, Len(@))]
                /\ UNCHANGED <<what, input, msgs, host, async, ready, keys, adc, now>>

(* ---- the background thread ---- *)
\* The byte of the message, expanded to the host's count.
AckDiff(count) == LET d == (count - Len(host.taken)) % Wrap IN IF d >= Wrap \div 2 THEN d - Wrap ELSE d
\* Mutant: the byte is not taken as a signed difference.
NewCount_unsigned(m) == ((m.ack - Len(host.taken)) % Wrap) + Len(m.state)
NewCount(m) == AckDiff(m.ack) + Len(m.state)
\* A report calls back only if a pin of the callback changed.
Changed(last, states) ==
  LET prev(i) == IF i = 1 THEN last ELSE states[i - 1]
  IN SelectSeq([i \in DOMAIN states |-> <<prev(i), states[i], now>>], LAMBDA c : c[1] # c[2])
handle_buttons_state ==
  /\ msgs # <<>> /\ msgs' = Tail(msgs)
  /\ LET m == Head(msgs)   k == NewCount(m)
         new == IF k >= Len(m.state) THEN m.state ELSE SubSeq(m.state, Len(m.state) - k + 1, Len(m.state))
     IN IF k <= 0 THEN UNCHANGED <<acks, host, async>>
        ELSE /\ acks' = Append(acks, k)
             /\ host' = [host EXCEPT !.taken = @ \o new, !.last = new[Len(new)]]
             /\ async' = async \o Changed(host.last, new)
  /\ UNCHANGED <<what, input, fw, ready, keys, adc, now>>

(* ---- the main thread ---- *)
\* encoder_state after the pins read s: the state and the direction it gives.
FullStep == << <<0, 2, 4, 0>>, <<3, 0, 1, 16>>, <<3, 2, 0, 0>>, <<3, 2, 1, 0>>,
               <<6, 0, 4, 0>>, <<6, 5, 0, 32>>, <<6, 5, 4, 0>> >>
\* Mutant: a step that is taken back leaves the encoder in its middle.
HalfStep_stays == << <<3, 2, 1, 0>>, <<35, 0, 1, 0>>, <<19, 2, 0, 2>>,
                     <<3, 5, 4, 0>>, <<3, 3, 4, 16>>, <<3, 5, 3, 32>> >>
HalfStep == << <<3, 2, 1, 0>>, <<35, 0, 1, 0>>, <<19, 2, 0, 0>>,
               <<3, 5, 4, 0>>, <<3, 3, 4, 16>>, <<3, 5, 3, 32>> >>
encoder_callback(s) ==
  LET es == (IF what = "full" THEN FullStep ELSE HalfStep)[(host.state % 16) + 1][s + 1]
      turn == CASE es \div 16 = 1 -> 1 [] es \div 16 = 2 -> 0 - 1 [] OTHER -> 0
  IN host' = [host EXCEPT !.state = es, !.turns = @ + turn] /\ UNCHANGED keys
\* Mutant: the release does not stop the timer of the long press.
Released_running(k) == IF k.short THEN [k EXCEPT !.clicks = @ + 1] ELSE k
Released(k) == IF k.short THEN [k EXCEPT !.timer = Never, !.clicks = @ + 1] ELSE k
click_callback(s, t) ==
  /\ UNCHANGED host
  /\ keys' = IF s = 1 THEN [keys EXCEPT !.short = TRUE, !.timer = t + LongPress, !.pressed = @ + 1]
             ELSE Released(keys)
\* The reactor reads its pipe, then runs what it read, then looks at its timers.
ReadPipe == /\ ready = <<>> /\ async # <<>> /\ ready' = async /\ async' = <<>>
            /\ UNCHANGED <<what, input, fw, msgs, acks, host, keys, adc, now>>
Callback == /\ ready # <<>> /\ ready' = Tail(ready)
            /\ IF Encoder THEN encoder_callback(Head(ready)[2])
               ELSE click_callback(Head(ready)[2], Head(ready)[3])
            /\ UNCHANGED <<what, input, fw, msgs, acks, async, adc, now>>
long_click_event == /\ ready = <<>> /\ keys.timer <= now
                    /\ keys' = [keys EXCEPT !.short = FALSE, !.longs = @ + 1, !.timer = Never]
                    /\ UNCHANGED <<what, input, fw, msgs, acks, host, async, ready, adc, now>>
Tick == /\ now < MaxTime /\ what = "click" /\ now' = now + 1
        /\ UNCHANGED <<what, input, fw, msgs, acks, host, async, ready, keys, adc>>

(* ---- analog buttons: one pin, a range of resistances per button ---- *)
\* Mutant: the time of the last change is not taken at a change.
Since_first(btn) == adc.since
Since(btn) == IF btn # adc.last THEN now ELSE adc.since
Settled(btn) == /\ now - Since(btn) >= Debounce /\ adc.last = btn /\ adc.pressed # btn
Calls(btn) == (IF adc.pressed # 0 THEN <<<<adc.pressed, FALSE>>>> ELSE <<>>)
                \o (IF btn # 0 THEN <<<<btn, TRUE>>>> ELSE <<>>)
adc_callback(btn) ==
  /\ what = "adc" /\ now < MaxReads /\ now' = now + 1
  /\ adc' = [last |-> btn, since |-> Since(btn),
             run |-> IF btn = adc.last THEN adc.run + 1 ELSE 0,
             pressed |-> IF Settled(btn) THEN btn ELSE adc.pressed,
             calls |-> IF Settled(btn) THEN adc.calls \o Calls(btn) ELSE adc.calls]
  /\ UNCHANGED <<what, input, fw, msgs, acks, host, async, ready, keys>>

Next == \/ Encoder /\ \E i \in {input - 1, input + 1} : Change(i)
        \/ what = "click" /\ Change(1 - input)
        \/ Report \/ Lose \/ Acknowledged \/ handle_buttons_state
        \/ ReadPipe \/ Callback \/ long_click_event \/ Tick
        \/ \E b \in 0..AdcButtons : adc_callback(b)
Spec == Init /\ [][Next]_vars

\* Every report is taken once and in order, whatever messages are lost or repeated
\* (handle_buttons_state).
ReportsAreTaken == /\ Len(host.taken) <= Len(fw.made)
                   /\ \A i \in DOMAIN host.taken : host.taken[i] = fw.made[i]
                   /\ fw.acked <= Len(host.taken)

\* At rest the turns counted are those of the encoder, however it bounced between
\* the detents (ENCODER_STATES, encoder_callback).
Quiet == async = <<>> /\ ready = <<>> /\ Len(host.taken) = Len(fw.made)
TurnsAreTrue == /\ what = "full" /\ Quiet /\ input % 4 = 0 => 4 * host.turns = input
                /\ what = "half" /\ Quiet /\ input % 2 = 0 => 2 * host.turns = input

\* A press of the button gives one key: a click or a long click (click_callback,
\* long_click_event).
OneKeyPerPress ==
  what = "click" => /\ keys.clicks + keys.longs <= keys.pressed
                    /\ Quiet /\ input = 0 => keys.clicks + keys.longs = keys.pressed

\* An analog button is called pressed after it was read for the time of the debounce,
\* and at most one is pressed (adc_callback).
AdcIsSettled ==
  /\ adc.calls # <<>> => adc.calls[Len(adc.calls)] = <<adc.pressed, TRUE>> \/ adc.pressed = 0
  /\ \A i \in DOMAIN adc.calls : i > 1 /\ adc.calls[i][2] => ~adc.calls[i - 1][2]
AdcHeld == [][adc'.pressed # adc.pressed => adc'.run >= Debounce]_vars
================================================================================
