-------------------------------- MODULE Menu --------------------------------
(***************************************************************************)
(* The menu of a printer's own display (extras/display/menu.py, drawn by   *)
(* display.py): lists of commands, inputs and further lists.  Keys move a  *)
(* selection, open and leave lists and edit the value of an input; a timer *)
(* closes an idle menu; the screen timer draws the list and tells the      *)
(* selected input that time passes, so that an input with "realtime" sends *)
(* its value a while after the last change.  Scripts are queued and run by *)
(* one callback of the reactor, one after the other, while keys go on.     *)
(* The menu here has the lists "main" and "sub", and one input, "speed".   *)
(* m is the menu, q the queue of its scripts; time is in quarter seconds.  *)
(***************************************************************************)
EXTENDS Integers, SequencesExt

CONSTANTS
  Children,   \* the items of each list, after ".."
  Calls,      \* what the script of an item calls: "none", "exit", "exit_force", "back", "back_force"
  Rows,       \* the rows of the display
  Timeout,    \* menu_timeout in seconds, 0 for none
  MaxValue,   \* the input takes 1..MaxValue
  MaxKeys, MaxTime

VARIABLES m, q, off, now, keys   \* off: the item whose "enable" is false just now

vars == <<m, q, off, now, keys>>

Lists == DOMAIN Children
None == 0
Top(mm) == Last(mm.stack)
Editing(mm, c) == mm.value # None /\ "speed" \in Range(mm.items[c])
Selected(mm) == mm.items[Top(mm)][mm.sel[Top(mm)]]
\* The keys ask this of the item they would change.
Edits(mm) == Selected(mm) = "speed" /\ mm.value # None

\* Mutant: a callback is registered for every script.
queue_gcode_always(qq, script) ==
  [qq EXCEPT !.callbacks = @ + 1, !.queue = Append(@, script), !.asked = Append(@, script)]

\* A script goes to the queue; the callback that runs it is registered for the first one.
queue_gcode(qq, script) ==
  [qq EXCEPT !.callbacks = IF qq.queue = <<>> THEN @ + 1 ELSE @,
             !.queue = Append(@, script), !.asked = Append(@, script)]

\* Mutant: an input keeps its editing state.
MenuInputInit_keeps(mm) == [mm EXCEPT !.dirty = FALSE, !.changed = None]
\* An input is reset when its list is filled.
MenuInputInit(mm) == [mm EXCEPT !.value = None, !.dirty = FALSE, !.changed = None]
MenuListFilled(mm, c) == [mm EXCEPT !.view[c] = 0]
populate(mm, c) ==
  LET filled == MenuListFilled(mm, c) IN
  IF "speed" \in Range(Children[c]) THEN MenuInputInit(filled) ELSE filled

update_items(mm, c) == [mm EXCEPT !.items[c] = SelectSeq(<<"back">> \o Children[c], LAMBDA x : x # off)]
init_selection(mm, c) == [mm EXCEPT !.sel[c] = 1]
Enter(mm, c) == [mm EXCEPT !.open = @ \cup {c}]
Leave(mm, c) == [mm EXCEPT !.open = @ \ {c}]
Renewed(mm, c) == IF Editing(mm, c) THEN mm ELSE init_selection(update_items(mm, c), c)

stack_push(mm, c) ==
  LET filled == populate(mm, c)
      left == IF mm.stack = <<>> THEN filled ELSE Leave(filled, Top(mm))
      entered == Renewed(Enter(left, c), c) IN
  [entered EXCEPT !.stack = Append(@, c)]

stack_pop(mm) ==
  LET popped == [mm EXCEPT !.stack = Front(@)]
      left == Leave(popped, Top(mm)) IN
  IF popped.stack = <<>> THEN left ELSE Enter(Renewed(left, Top(popped)), Top(popped))

begin(mm) ==
  [stack_push([init_selection(mm, "main") EXCEPT !.stack = <<>>, !.timer = 0], "main") EXCEPT !.running = TRUE]

_value_changed(mm) == [mm EXCEPT !.changed = mm.beat, !.dirty = TRUE]
_init_value(mm) == _value_changed([mm EXCEPT !.value = 1])
stop_editing(mm) == [mm EXCEPT !.value = None]
handle_script_click(mm) == IF mm.value = None THEN _init_value(mm) ELSE stop_editing(mm)

Moved(mm, value) == IF value = mm.value THEN mm ELSE _value_changed([mm EXCEPT !.value = value])
\* Mutant: a value of the other direction is not noted as changed.
dec_value_unseen(mm) == [mm EXCEPT !.value = IF @ > 1 THEN @ - 1 ELSE 1]
inc_value(mm) == Moved(mm, IF mm.value < MaxValue THEN mm.value + 1 ELSE MaxValue)
dec_value(mm) == Moved(mm, IF mm.value > 1 THEN mm.value - 1 ELSE 1)

select_next(mm, c) == [mm EXCEPT !.sel[c] = IF @ < Len(mm.items[c]) THEN @ + 1 ELSE @]
select_prev(mm, c) == [mm EXCEPT !.sel[c] = IF @ > 1 THEN @ - 1 ELSE @]
index_of(mm, c, x) == IF x \in Range(mm.items[c]) THEN CHOOSE k \in DOMAIN mm.items[c] : mm.items[c][k] = x ELSE None

\* The key of the menu is ignored while an input is edited, unless it is forced.
back(mm, force) ==
  IF ~mm.running THEN mm
  ELSE LET awake == [mm EXCEPT !.timer = 0] IN
       IF Edits(mm) /\ ~force THEN awake
       ELSE LET ended == IF Edits(mm) THEN stop_editing(awake) ELSE awake
                popped == stack_pop(ended) IN
            IF Len(mm.stack) = 1 THEN [popped EXCEPT !.running = FALSE]
            ELSE LET k == index_of(popped, Top(popped), Top(mm)) IN
                 IF k = None THEN popped ELSE [popped EXCEPT !.sel[Top(popped)] = k]

\* Mutant: the list that is open when the menu closes is not left.
exit_open(mm, force) ==
  IF ~mm.running THEN mm
  ELSE IF Edits(mm) /\ ~force THEN [mm EXCEPT !.timer = 0] ELSE [mm EXCEPT !.timer = 0, !.running = FALSE]
exit(mm, force) ==
  IF ~mm.running THEN mm
  ELSE IF Edits(mm) /\ ~force THEN [mm EXCEPT !.timer = 0]
  ELSE [Leave(mm, Top(mm)) EXCEPT !.timer = 0, !.running = FALSE]

\* Rendering the script of an item makes the calls in it; its text is queued afterwards.
Rendered(mm, x) ==
  CASE x = "back" -> back(mm, FALSE)
    [] x # "back" /\ Calls[x] = "exit" -> exit(mm, FALSE)
    [] x # "back" /\ Calls[x] = "exit_force" -> exit(mm, TRUE)
    [] x # "back" /\ Calls[x] = "back" -> back(mm, FALSE)
    [] x # "back" /\ Calls[x] = "back_force" -> back(mm, TRUE)
    [] OTHER -> mm

Press(event) ==
  LET x == Selected(m)
      awake == [m EXCEPT !.timer = 0]
      done == IF x = "speed" /\ m.value = None THEN awake ELSE Rendered(awake, x) IN
  IF x \in Lists THEN m' = stack_push(awake, x) /\ UNCHANGED q
  ELSE /\ m' = IF x = "speed" /\ event = "click" THEN handle_script_click(done) ELSE done
       /\ q' = IF x = "back" \/ (x = "speed" /\ m.value = None) THEN q ELSE queue_gcode(q, <<x, m.value>>)

Step(down) ==
  /\ m.running
  /\ m' = LET awake == [m EXCEPT !.timer = 0] IN
          IF Edits(m) THEN IF down THEN inc_value(awake) ELSE dec_value(awake)
          ELSE IF down THEN select_next(awake, Top(m)) ELSE select_prev(awake, Top(m))
  /\ UNCHANGED q

key_event ==
  /\ keys < MaxKeys
  /\ keys' = keys + 1
  /\ \/ \E event \in {"click", "long_click"} :
          IF m.running THEN Press(event) ELSE m' = begin(m) /\ UNCHANGED q
     \/ Step(TRUE)
     \/ Step(FALSE)
     \/ m' = back(m, FALSE) /\ UNCHANGED q
  /\ UNCHANGED <<off, now>>

\* The list is drawn: the rows are moved over the selection, and only the selected item hears of the time.
Viewport(mm, c) ==
  LET row == mm.sel[c] - 1
      down == IF row >= mm.view[c] + Rows THEN row - Rows + 1 ELSE mm.view[c]
      up == IF row < down THEN row ELSE down
      last == Len(mm.items[c]) - Rows IN
  IF last < 0 THEN 0 ELSE IF up > last THEN last ELSE up

IsDue(mm) == mm.dirty /\ mm.changed # None /\ mm.value # None /\ now - mm.changed > 1

screen_update_event ==
  /\ m.running
  /\ LET drawn == [m EXCEPT !.view[Top(m)] = Viewport(m, Top(m))] IN
     IF Selected(m) # "speed" THEN m' = drawn /\ UNCHANGED q
     ELSE /\ m' = [drawn EXCEPT !.beat = now, !.dirty = @ /\ ~IsDue(m)]
          /\ q' = IF IsDue(m) THEN queue_gcode(q, <<"speed", m.value>>) ELSE q
  /\ UNCHANGED <<off, now, keys>>

timeout_check(mm) ==
  IF ~mm.running \/ Timeout = 0 THEN [mm EXCEPT !.timer = 0]
  ELSE IF mm.timer >= Timeout THEN exit(mm, FALSE) ELSE [mm EXCEPT !.timer = @ + 1]

\* The timer of the menu runs every second.
timer_event ==
  /\ now < MaxTime
  /\ now' = now + 1
  /\ m' = IF now' % 4 = 0 THEN timeout_check(m) ELSE m
  /\ UNCHANGED <<q, off, keys>>

\* The callback takes the first script, which stays in the queue until it has ended, well or not.
dispatch_gcode ==
  /\ q.callbacks > 0
  /\ q' = [q EXCEPT !.callbacks = @ - 1, !.runs = IF q.queue = <<>> THEN @ ELSE Append(@, Head(q.queue))]
  /\ UNCHANGED <<m, off, now, keys>>

ScriptEnds ==
  /\ q.queue # <<>>
  /\ \E k \in DOMAIN q.runs :
       LET rest == Tail(q.queue)
           others == RemoveAt(q.runs, k) IN
       q' = [q EXCEPT !.queue = rest, !.done = Append(@, q.runs[k]),
                      !.runs = IF rest = <<>> THEN others ELSE Append(others, Head(rest))]
  /\ UNCHANGED <<m, off, now, keys>>

\* What an item's "enable" says changes with the printer, whatever the menu shows.
EnableChanges == \E x \in {"none", "sub", "speed"} \ {off} : off' = x /\ UNCHANGED <<m, q, now, keys>>

Init ==
  /\ m = [running |-> FALSE, stack |-> <<>>, items |-> [c \in Lists |-> <<>>], sel |-> [c \in Lists |-> None],
          view |-> [c \in Lists |-> 0], open |-> {}, value |-> None, dirty |-> FALSE, beat |-> None,
          changed |-> None, timer |-> 0]
  /\ q = [queue |-> <<>>, callbacks |-> 0, runs |-> <<>>, asked |-> <<>>, done |-> <<>>]
  /\ off = "none"
  /\ now = 1
  /\ keys = 0

Next == key_event \/ screen_update_event \/ timer_event \/ dispatch_gcode \/ ScriptEnds \/ EnableChanges

Spec == Init /\ [][Next]_vars

(***************************************************************************)
(* Properties                                                              *)
(***************************************************************************)

\* The scripts of the menu run once each, in the order the keys asked for them, whatever keys are pressed while
\* one runs (queue_gcode, dispatch_gcode).
ScriptsRunOnce == Len(q.runs) <= 1 /\ q.done \o q.queue = q.asked

\* While the menu is shown something is selected, and an input that takes the keys is the selected one: an input
\* left in editing mode elsewhere could be neither changed nor ended (stack_push, back, handle_script_click).
EditedIsSelected ==
  m.running => /\ m.sel[Top(m)] \in DOMAIN m.items[Top(m)]
               /\ Editing(m, Top(m)) => Selected(m) = "speed"

\* Exactly the list that is shown has run its "enter" script without its "leave" script (stack_push, stack_pop, exit).
EnteredIsShown == m.open = IF m.running THEN {Top(m)} ELSE {}

\* An edited input with "realtime" whose change is not waiting to be sent has sent the value it shows
\* (_value_changed, heartbeat).
SentIsShown ==
  m.running /\ m.value # None /\ ~m.dirty =>
    LET sent == SelectSeq(q.asked, LAMBDA x : x[1] = "speed") IN sent # <<>> /\ Last(sent)[2] = m.value

\* A drawn list shows its selection.
SelectionIsDrawn ==
  [][screen_update_event => m'.sel[Top(m)] - 1 \in m'.view[Top(m)]..m'.view[Top(m)] + Rows - 1]_vars

\* Leaving a list for the one above selects it there, unless it was disabled in the meantime.
BackSelects ==
  [][m'.running /\ Len(m'.stack) < Len(m.stack) /\ m.running =>
       Selected(m') \in {Top(m), "back"} /\ (off # Top(m) => Selected(m') = Top(m))]_vars
=============================================================================
