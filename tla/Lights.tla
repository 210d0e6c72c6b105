--------------------------------- MODULE Lights ---------------------------------
(* The lights and fans of the machine that follow the print and the screen: the    *)
(* status of a print (extras/print_stats_manager.py), the strip of LEDs (led.py,   *)
(* neopixel.py), the case light and the cooler (smart_output_pin.py).              *)
EXTENDS Integers, SequencesExt

CONSTANTS N,            \* LEDs of the strip
          Colors,       \* <<red, green, blue>>
          Mains, Subs,  \* statuses SET_PRINT_MAIN_STATUS, SET_PRINT_SUB_STATUS give
          MaxInputs, MaxFailed

VARIABLES status,   \* PrintStatusManager: main, sub, the stacks
          print,    \* print_stats.state and the progress
          neo,      \* PrinterNeoPixel, what the strip runs (mode and LEDs lit), was NEOPIXEL_MODE used
          pins,     \* the smart pins
          later,    \* lookahead callbacks of the tool head
          led,      \* LEDHelper, old_color_data and the firmware's buffer
          jobs,     \* callbacks of update_leds that wait for the mutex
          tpl,      \* PrinterLED: the templates and their timer
          ui,       \* the last ui:sleep event
          n
vars == <<status, print, neo, pins, later, led, jobs, tpl, ui, n>>

Leds == 1..N
Black == [l \in Leds |-> <<0, 0, 0>>]
Order == <<2, 1, 3>>    \* GRB
\* Byte b of the strip is a component of LED (b - 1) \div 3 + 1.
update_color_data(state) ==
  [b \in 1..(3 * N) |-> state[(b - 1) \div 3 + 1][Order[((b - 1) % 3) + 1]]]
PrintStates == {"standby", "printing", "paused", "complete", "error", "cancelled"}

\* The status that print_stats_manager starts with.
Ready == [main |-> "ready", sub |-> "", stack |-> <<>>]

PinsAtStart == [caselight |-> [enabled |-> TRUE, active |-> FALSE, value |-> 0],
                polar_cooler |-> [enabled |-> FALSE, active |-> FALSE, value |-> 0]]
NoTemplates == [active |-> {}, timer |-> FALSE, leaked |-> 0]

Init == /\ status = Ready
        /\ print = [state |-> "standby", progress |-> 0]
        /\ neo = [auto |-> TRUE, mode |-> 2, stats |-> "ready", leds |-> 0,
                  shown |-> <<2, N>>, byHand |-> FALSE]
        /\ pins = PinsAtStart
        /\ later = <<>>
        /\ led = [state |-> Black, need |-> FALSE, old |-> update_color_data(Black),
                  buf |-> update_color_data(Black), strip |-> update_color_data(Black),
                  failed |-> FALSE]
        /\ jobs = <<>>
        /\ tpl = NoTemplates
        /\ ui = [mode |-> 1, screen |-> 1]
        /\ n = [inputs |-> 0, failed |-> 0]

Input == n.inputs < MaxInputs /\ n' = [n EXCEPT !.inputs = @ + 1]

(* ---- the strip's animation ---- *)
_get_progress_count == IF print.progress = 0 THEN 1 ELSE print.progress
\* Mode and number of LEDs of a status.
StatusMode(main) == CASE main = "print_start" -> <<3, N>>
                      [] main = "printing" -> <<1, _get_progress_count>>
                      [] main = "pausing" -> <<2, _get_progress_count>>
                      [] OTHER -> <<2, N>>
_send_led_cmd(ne, mode, count) == [ne EXCEPT !.shown = <<mode, count>>]
\* Mutant: a status that comes while the automatic is off is not kept.
_handle_main_stats_changed_off(ne, new) ==
  IF ~ne.auto THEN ne
  ELSE LET known == [ne EXCEPT !.stats = new]   m == StatusMode(new)[1]   cnt == StatusMode(new)[2]
       IN IF m = ne.mode /\ cnt = ne.leds THEN known
          ELSE _send_led_cmd([known EXCEPT !.mode = m, !.leds = cnt], m, cnt)
_handle_main_stats_changed(ne, new) ==
  LET known == [ne EXCEPT !.stats = new]   m == StatusMode(new)[1]   cnt == StatusMode(new)[2]
  IN IF ~ne.auto \/ (m = ne.mode /\ cnt = ne.leds) THEN known
     ELSE _send_led_cmd([known EXCEPT !.mode = m, !.leds = cnt], m, cnt)
StatsChanged(ne, new) == _handle_main_stats_changed(ne, new)
cmd_breath_enable(on) ==
  /\ Input
  /\ neo' = IF on THEN IF neo.auto THEN neo
                       ELSE StatsChanged([neo EXCEPT !.auto = TRUE], neo.stats)
            ELSE _send_led_cmd([neo EXCEPT !.auto = FALSE, !.mode = 0], 0, 0)
  /\ UNCHANGED <<status, print, pins, later, led, jobs, tpl, ui>>
cmd_breath_mode(m) == /\ Input
                      /\ neo' = _send_led_cmd([neo EXCEPT !.mode = m, !.byHand = TRUE], m, N)
                      /\ UNCHANGED <<status, print, pins, later, led, jobs, tpl, ui>>
\* A client asks for the status: the number of LEDs lit follows the progress.
get_status == /\ Input
              /\ neo' = IF neo.auto /\ neo.stats = "printing" /\ neo.leds # _get_progress_count
                        THEN _send_led_cmd([neo EXCEPT !.leds = _get_progress_count], 1, _get_progress_count)
                        ELSE neo
              /\ UNCHANGED <<status, print, pins, later, led, jobs, tpl, ui>>
NeoUi(mode, screen) ==
  IF ~neo.auto \/ print.state = "printing" \/ mode = 0 THEN neo
  ELSE IF screen = 0 THEN _send_led_cmd([neo EXCEPT !.mode = 0], 0, 0)
       ELSE StatsChanged(neo, neo.stats)

(* ---- the status of a print ---- *)
set_main_status(main, sub, keep_sub) ==
  /\ status' = [status EXCEPT !.main = main, !.sub = IF keep_sub THEN @ ELSE sub]
  /\ neo' = IF main # status.main THEN StatsChanged(neo, main) ELSE neo
Manager == UNCHANGED <<print, pins, later, led, jobs, tpl, ui>>
cmd_SET_PRINT_MAIN_STATUS == /\ Input /\ Manager
                             /\ \E m \in Mains : set_main_status(m, "", FALSE)
set_sub_status == /\ Input /\ Manager /\ UNCHANGED neo
                  /\ \E s \in Subs : status' = [status EXCEPT !.sub = s]
push_status == /\ Input /\ Manager /\ UNCHANGED neo
               /\ status' = [status EXCEPT !.stack = Append(@, <<status.main, status.sub>>)]
pop_status == /\ Input /\ Manager /\ status.stack # <<>>
              /\ LET top == Last(status.stack) IN
                 /\ status' = [main |-> top[1], sub |-> status.sub, stack |-> Front(status.stack)]
                 /\ neo' = IF top[1] # status.main THEN StatsChanged(neo, top[1]) ELSE neo
\* A command fails.
_handle_reset_stats == Input /\ Manager /\ set_main_status("ready", "", FALSE)

(* ---- smart pins: a change waits for its place in the moves ---- *)
Set(p, on) == <<"pin", p, IF on THEN 1 ELSE 0>>
\* Mutant: the cooler runs on when the print is paused.
PolarStats_paused(new) ==
  IF new = "printing" THEN IF pins.polar_cooler.enabled THEN <<Set("polar_cooler", TRUE)>> ELSE <<>>
  ELSE IF new = "paused" THEN <<>> ELSE <<Set("polar_cooler", FALSE)>>
PolarStats(new) ==
  IF new = "printing" THEN IF pins.polar_cooler.enabled THEN <<Set("polar_cooler", TRUE)>> ELSE <<>>
  ELSE <<Set("polar_cooler", FALSE)>>
\* Timelapse or the watching of the print need the light.
CaseStats(new, watched) ==
  IF pins.caselight.enabled /\ new = "printing" /\ watched THEN <<Set("caselight", TRUE)>> ELSE <<>>
CaseUi(mode, screen, watched) ==
  IF mode = 0 THEN <<>>
  ELSE <<Set("caselight", pins.caselight.enabled /\ (screen = 1 \/ (print.state = "printing" /\ watched)))>>
Active(ps, calls) ==
  [p \in DOMAIN ps |-> [ps[p] EXCEPT !.active =
     LET mine == SelectSeq(calls, LAMBDA c : c[2] = p) IN IF mine = <<>> THEN @ ELSE Last(mine)[3] = 1]]
printer_stats_changed(new, watched) ==
  /\ Input /\ new # print.state
  /\ print' = [print EXCEPT !.state = new]
  /\ LET calls == PolarStats(new) \o CaseStats(new, watched)
     IN later' = later \o calls /\ pins' = Active(pins, calls)
  /\ UNCHANGED <<status, neo, led, jobs, tpl, ui>>
Progress == /\ print.state = "printing" /\ print.progress < N
            /\ print' = [print EXCEPT !.progress = @ + 1]
            /\ UNCHANGED <<status, neo, pins, later, led, jobs, tpl, ui, n>>
_handle_ui_event(mode, screen, watched) ==
  /\ Input /\ ui' = [mode |-> mode, screen |-> screen]
  /\ neo' = NeoUi(mode, screen)
  /\ LET calls == CaseUi(mode, screen, watched)
     IN later' = later \o calls /\ pins' = Active(pins, calls)
  /\ UNCHANGED <<status, print, led, jobs, tpl>>
\* Switching a smart pin off leaves is_active as it is.
cmd_ENABLE_SMART_PIN(p, on) ==
  /\ Input /\ pins' = [pins EXCEPT ![p].enabled = on]
  /\ later' = IF on THEN later ELSE Append(later, Set(p, FALSE))
  /\ UNCHANGED <<status, print, neo, led, jobs, tpl, ui>>

(* ---- the colors of the LEDs ---- *)
set_color(le, S, color) ==
  LET new == [l \in Leds |-> IF l \in S THEN color ELSE le.state[l]]
  IN IF new = le.state THEN le ELSE [le EXCEPT !.state = new, !.need = TRUE]
check_transmit(le) == /\ led' = [le EXCEPT !.need = FALSE]
                      /\ jobs' = IF le.need THEN Append(jobs, le.state) ELSE jobs
Recolor(S, color, transmit) ==
  IF transmit THEN check_transmit(set_color(led, S, color))
  ELSE led' = set_color(led, S, color) /\ UNCHANGED jobs
cmd_SET_LED(S, color, transmit, sync) ==
  /\ Input
  /\ IF sync THEN later' = Append(later, <<"led", S, color, transmit>>) /\ UNCHANGED <<led, jobs>>
     ELSE Recolor(S, color, transmit) /\ UNCHANGED later
  /\ UNCHANGED <<status, print, neo, pins, tpl, ui>>
\* The tool head reaches the place of the first callback.
Lookahead ==
  /\ later # <<>> /\ later' = Tail(later)
  /\ LET c == Head(later) IN
     IF c[1] = "pin" THEN pins' = [pins EXCEPT ![c[2]].value = c[3]] /\ UNCHANGED <<led, jobs>>
     ELSE Recolor(c[2], c[3], c[4]) /\ UNCHANGED pins
  /\ UNCHANGED <<status, print, neo, tpl, ui, n>>

\* Changed bytes that are close to each other are sent in one message.
Close(pos, next) == pos + 5 >= next[1] /\ next[2] < 16
\* Mutant: a joined message is as long as the number of changed bytes.
Joined_short(pos, next) == <<pos, next[2] + 1>>
Joined(pos, next) == <<pos, next[2] + (next[1] - pos)>>
Batch(ds) == FoldRight(LAMBDA d, rest :
               IF rest # <<>> /\ Close(d, Head(rest)) THEN <<Joined(d, Head(rest))>> \o Tail(rest)
               ELSE <<<<d, 1>>>> \o rest, ds, <<>>)
Batches(old, new) ==
  Batch(SelectSeq([b \in DOMAIN new |-> b], LAMBDA b : new[b] # old[b]))
Updated(buf, ms, new) ==
  [b \in DOMAIN buf |-> IF \E i \in DOMAIN ms : b \in ms[i][1]..(ms[i][1] + ms[i][2] - 1)
                        THEN new[b] ELSE buf[b]]
\* old_color_data takes the new values before the firmware says that it showed them.
send_data(shown) ==
  /\ jobs # <<>> /\ jobs' = Tail(jobs)
  /\ LET new == update_color_data(Head(jobs))   buf == Updated(led.buf, Batches(led.old, new), new)
     IN led' = IF new = led.old THEN led
               ELSE [led EXCEPT !.old = new, !.buf = buf, !.failed = ~shown,
                                !.strip = IF shown THEN buf ELSE @]
  /\ IF shown THEN UNCHANGED n ELSE n.failed < MaxFailed /\ n' = [n EXCEPT !.failed = @ + 1]
  /\ UNCHANGED <<status, print, neo, pins, later, tpl, ui>>

(* ---- templates ---- *)
cmd_SET_LED_TEMPLATE(l, on) ==
  /\ Input
  /\ LET active == IF on THEN tpl.active \union {l} ELSE tpl.active \ {l}
     IN tpl' = [tpl EXCEPT !.active = active, !.timer = @ \/ active # {}]
  /\ UNCHANGED <<status, print, neo, pins, later, led, jobs, ui>>
\* Without templates the timer's object is registered again, as a new timer.
_render == /\ tpl.timer
           /\ IF tpl.active = {}
              THEN tpl' = [tpl EXCEPT !.timer = FALSE, !.leaked = @ + 1] /\ UNCHANGED <<led, jobs, n>>
              ELSE /\ Input /\ UNCHANGED tpl
                   /\ \E c \in Colors : check_transmit(set_color(led, tpl.active, c))
           /\ UNCHANGED <<status, print, neo, pins, later, ui>>

Next == \/ \E on \in BOOLEAN : cmd_breath_enable(on)
        \/ \E m \in {1, 5} : cmd_breath_mode(m)
        \/ get_status \/ cmd_SET_PRINT_MAIN_STATUS \/ set_sub_status \/ push_status
        \/ pop_status \/ _handle_reset_stats \/ Progress \/ Lookahead \/ _render
        \/ \E s \in PrintStates, w \in BOOLEAN : printer_stats_changed(s, w)
        \/ \E m, s \in 0..1, w \in BOOLEAN : _handle_ui_event(m, s, w)
        \/ \E p \in DOMAIN pins, on \in BOOLEAN : cmd_ENABLE_SMART_PIN(p, on)
        \/ \E S \in {Leds, {1}, 1..(N - 1)}, c \in Colors, t, y \in BOOLEAN : cmd_SET_LED(S, c, t, y)
        \/ \E shown \in BOOLEAN : send_data(shown)
        \/ \E l \in {1}, on \in BOOLEAN : cmd_SET_LED_TEMPLATE(l, on)
Spec == Init /\ [][Next]_vars

\* When every update is sent, the strip shows the colors of the last one, unless
\* the firmware refused it eight times (check_transmit, update_leds, send_data).
StripShowsLast == jobs = <<>> /\ ~led.need /\ ~led.failed => led.strip = update_color_data(led.state)

\* The cooler runs only in a print that asks for it (_handle_printer_stats_changed).
CoolerFollowsPrint == later = <<>> /\ pins.polar_cooler.value = 1 =>
                        print.state = "printing" /\ pins.polar_cooler.enabled

\* A smart pin that is switched off is off (cmd_ENABLE_SMART_PIN, _handle_ui_event).
DisabledIsOff == \A p \in DOMAIN pins : later = <<>> /\ ~pins[p].enabled => pins[p].value = 0

\* The strip runs the mode of the print's status, or is dark because the screen
\* sleeps or because the user switched it off (_handle_main_stats_changed), until a
\* mode is chosen by hand.
LampFollowsStatus == ~neo.byHand => neo.stats = status.main /\
                       neo.shown[1] = IF neo.mode = 0 THEN 0 ELSE StatusMode(status.main)[1]

\* The case light goes out with the screen when nothing is printed: "follows the
\* screen when idle" (_handle_ui_event).
IdleIsDark == later = <<>> /\ ui = [mode |-> 1, screen |-> 0] /\ print.state # "printing"
                => pins.caselight.value = 0

\* The recorded mode is the one the strip runs (_get_preset, get_status).
ShownIsRecorded == neo.shown[1] = neo.mode

\* is_active says whether the pin is on (get_status of a smart pin).
ActiveIsTrue == later = <<>> => \A p \in DOMAIN pins : pins[p].active = (pins[p].value = 1)

\* The timer of the templates is given back (_render).
TimerIsGivenBack == tpl.leaked = 0

\* Pop restores what push saved (push_status, pop_status).
PopRestores == [][status.stack # <<>> /\ status'.stack = Front(status.stack)
                    => status'.main = Last(status.stack)[1] /\ status'.sub = Last(status.stack)[2]]_vars
================================================================================
