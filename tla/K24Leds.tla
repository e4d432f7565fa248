------------------------------ MODULE K24Leds ------------------------------
(***************************************************************************)
(* The two RGB LEDs and PL push buttons of the K24 I/O carrier card        *)
(* (its platform_gpio.c).  As on the ZUBoard (RgbLeds) the polling task    *)
(* and main_thread both call control_rgb_leds without a lock, but here     *)
(* each button has an LED of its own, and LED 1 hangs on three MIO pins    *)
(* that are written one after the other.                                   *)
(***************************************************************************)
EXTENDS Naturals

CONSTANTS
  LastColor,        \* the largest color_t
  Commanded         \* the LEDs that the commands of the page are for

ASSUME ColorAssumption == LastColor \in Nat \ {0}
ASSUME CommandedAssumption == Commanded \subseteq {0, 1}

Color      == 0 .. LastColor
COLOR_NONE == 0
COLOR_RED  == 1
Pin        == 1 .. LastColor     \* the pin of each colour but COLOR_NONE
Led        == {0, 1}             \* also the buttons
Thread     == {"poll", "http"}
Pressed    == 0
Released   == 1

Other(t) == IF t = "poll" THEN "http" ELSE "poll"

\* The pins that are on when an LED shows colour c.
Spelling(c) == {c} \ {COLOR_NONE}

VARIABLES
  button,            \* button[l]: the level of the input of LED l's button
  lit,               \* lit[l]: the pins of LED l that are on
  rgbled_status,     \* rgbled<l>_status: the colour the program remembers
  last_status,       \* last_rgbled<l>_status: the colour saved at a press
  pl_pb_status,      \* the levels the polling task handled last
  pb_sample,         \* current_pb_status, a local of the polling task
  pc,                \* pc[t]: the access thread t makes next
  led,               \* led[t]: the LED thread t works on
  pin,               \* pin[t]: the next pin of LED 1 that t writes
  color,             \* the colour of main_thread's call
  \* History variables, read by no guard:
  overlap,           \* overlap[l]: the calls that set LED l last overlapped
  shown,             \* shown[l]: what LED l showed when its press was seen
  touched            \* touched[l]: a command set LED l since then

code    == <<rgbled_status, last_status, pl_pb_status, pb_sample>>
history == <<overlap, shown, touched>>
vars    == <<button, lit, code, pc, led, pin, color, history>>

PollPc == {"delay", "read", "save", "write", "store", "done"}
HttpPc == {"idle", "write", "store"}

TypeOK ==
  /\ button \in [Led -> {Pressed, Released}]
  /\ lit \in [Led -> SUBSET Pin]
  /\ rgbled_status \in [Led -> Color]
  /\ last_status \in [Led -> Color]
  /\ pl_pb_status \in [Led -> {Pressed, Released}]
  /\ pb_sample \in [Led -> {Pressed, Released}]
  /\ pc \in [Thread -> PollPc \union HttpPc]
  /\ pc["poll"] \in PollPc
  /\ pc["http"] \in HttpPc
  /\ led \in [Thread -> Led]
  /\ pin \in [Thread -> 1 .. LastColor + 1]
  /\ \A t \in Thread : pc[t] = "write" => pin[t] \in Pin
  /\ color \in Color
  /\ overlap \in [Led -> BOOLEAN]
  /\ shown \in [Led -> SUBSET Pin]
  /\ touched \in [Led -> BOOLEAN]

Init ==
  /\ button \in [Led -> {Pressed, Released}]
  /\ lit = [l \in Led |-> {}]
  /\ rgbled_status = [l \in Led |-> COLOR_NONE]
  /\ last_status = [l \in Led |-> COLOR_NONE]
  /\ pl_pb_status = [l \in Led |-> Released]
  /\ pb_sample = [l \in Led |-> Released]
  /\ pc = [t \in Thread |-> IF t = "poll" THEN "read" ELSE "idle"]
  /\ led = [t \in Thread |-> 0]
  /\ pin = [t \in Thread |-> 1]
  /\ color = COLOR_NONE
  /\ overlap = [l \in Led |-> FALSE]
  /\ shown = [l \in Led |-> {}]
  /\ touched = [l \in Led |-> FALSE]

-----------------------------------------------------------------------------
(* control_rgb_leds, called by thread t.  A call with an unknown LED or    *)
(* colour changes nothing.                                                 *)

\* The colour the polling task sets LED l to.
PollColor(l) == IF pb_sample[l] = Pressed THEN COLOR_RED ELSE last_status[l]

Argument(t) == IF t = "http" THEN color ELSE PollColor(led[t])

\* Thread t has written a pin of LED l, and not yet the remembered colour.
Inside(t, l) ==
  /\ led[t] = l
  /\ pc[t] = "store" \/ (pc[t] = "write" /\ pin[t] > 1)

\* Pin p gets the level it has in colour c.
WritePin(pins, p, c) == IF p = c THEN pins \union {p} ELSE pins \ {p}

\* Fault: leaves the last pin of LED 1 as it was.
LastPinWritten(t) == led[t] = 0 \/ pin[t] + 1 >= LastColor

\* All pins of the LED are written: those of LED 0 are in one register.
AllPinsWritten(t) == led[t] = 0 \/ pin[t] = LastColor

\* One write to the GPIO of the LED.
Write(t) ==
  LET l == led[t]
      c == Argument(t)
  IN
  /\ pc[t] = "write"
  /\ lit' = [lit EXCEPT ![l] = IF l = 0 THEN Spelling(c)
                                        ELSE WritePin(lit[1], pin[t], c)]
  /\ pin' = [pin EXCEPT ![t] = pin[t] + 1]
  /\ pc' = [pc EXCEPT ![t] = IF AllPinsWritten(t) THEN "store" ELSE "write"]
  /\ overlap' = IF Inside(t, l) THEN overlap
                ELSE [overlap EXCEPT ![l] = Inside(Other(t), l)]
  /\ touched' = IF t = "http" THEN [touched EXCEPT ![l] = TRUE] ELSE touched
  /\ UNCHANGED <<button, code, led, color, shown>>

\* rgbled<l>_status = color
Store(t) ==
  /\ pc[t] = "store"
  /\ rgbled_status' = [rgbled_status EXCEPT ![led[t]] = Argument(t)]
  /\ pin' = [pin EXCEPT ![t] = 1]
  /\ UNCHANGED <<button, lit, last_status, pl_pb_status, pb_sample, color,
                 history>>

-----------------------------------------------------------------------------
(* pl_pb_polling_task                                                      *)

\* The 100 ms delay between two samples has passed.
PollWake ==
  /\ pc["poll"] = "delay"
  /\ pc' = [pc EXCEPT !["poll"] = "read"]
  /\ UNCHANGED <<button, lit, code, led, pin, color, history>>

\* Fault: the two buttons are not told apart.
AnyChange(sample, l) == sample # pl_pb_status

\* Fault: only a press counts as a change.
PressedNow(sample, l) == sample[l] = Pressed /\ pl_pb_status[l] = Released

\* The sample of button l differs from the level handled last.
Changed(sample, l) == sample[l] # pl_pb_status[l]

\* The task turns to button l, if it has changed.
Turn(sample, l) ==
  /\ led' = [led EXCEPT !["poll"] = l]
  /\ pc' = [pc EXCEPT !["poll"] = IF sample[l] = Pressed THEN "save" ELSE "write"]

PollRead ==
  /\ pc["poll"] = "read"
  /\ pb_sample' = button
  /\ IF Changed(button, 0) THEN Turn(button, 0)
     ELSE IF Changed(button, 1) THEN Turn(button, 1)
     ELSE pc' = [pc EXCEPT !["poll"] = "delay"] /\ UNCHANGED led
  /\ UNCHANGED <<button, lit, rgbled_status, last_status, pl_pb_status, pin,
                 color, history>>

PollSave ==
  LET l == led["poll"] IN
  /\ pc["poll"] = "save"
  /\ last_status' = [last_status EXCEPT ![l] = rgbled_status[l]]
  /\ shown' = IF pl_pb_status[l] = Released THEN [shown EXCEPT ![l] = lit[l]]
              ELSE shown
  /\ touched' = [touched EXCEPT ![l] = overlap[l] \/ Inside("http", l)]
  /\ pc' = [pc EXCEPT !["poll"] = "write"]
  /\ UNCHANGED <<button, lit, rgbled_status, pl_pb_status, pb_sample, led, pin,
                 color, overlap>>

PollWrite == Write("poll")

\* The call is over, and button 1 is next.
PollStore ==
  /\ Store("poll")
  /\ IF led["poll"] = 0 /\ Changed(pb_sample, 1) THEN Turn(pb_sample, 1)
     ELSE pc' = [pc EXCEPT !["poll"] = "done"] /\ UNCHANGED led

\* The levels remembered for the next comparison are those that were handled.
PollDone ==
  /\ pc["poll"] = "done"
  /\ pl_pb_status' = pb_sample
  /\ pc' = [pc EXCEPT !["poll"] = "delay"]
  /\ UNCHANGED <<button, lit, rgbled_status, last_status, pb_sample, led, pin,
                 color, history>>

Poll == PollWake \/ PollRead \/ PollSave \/ PollWrite \/ PollStore \/ PollDone

-----------------------------------------------------------------------------
(* main_thread, serving a LED command.                                     *)

HttpCommand(l, c) ==
  /\ pc["http"] = "idle"
  /\ pc' = [pc EXCEPT !["http"] = "write"]
  /\ led' = [led EXCEPT !["http"] = l]
  /\ color' = c
  /\ UNCHANGED <<button, lit, code, pin, history>>

HttpWrite == Write("http")

HttpStore ==
  /\ Store("http")
  /\ pc' = [pc EXCEPT !["http"] = "idle"]
  /\ UNCHANGED led

Http == HttpWrite \/ HttpStore

\* The user presses or releases a button.
PushButton(l) ==
  /\ button' = [button EXCEPT ![l] = 1 - button[l]]
  /\ UNCHANGED <<lit, code, pc, led, pin, color, history>>

Next ==
  \/ Poll
  \/ Http
  \/ \E l \in Led : PushButton(l)
  \/ \E l \in Commanded, c \in Color : HttpCommand(l, c)

\* The scheduler runs both threads; the user and the browser owe nothing.
Spec == Init /\ [][Next]_vars /\ WF_vars(Poll) /\ WF_vars(Http)

-----------------------------------------------------------------------------
(* Properties                                                              *)

\* The pins of an LED spell the remembered colour whenever no thread is inside
\* control_rgb_leds for it, provided the calls that set it last did not
\* overlap.  (The pins of LED 1 may spell no colour at all if they did.)
PinsSpellStatus ==
  \A l \in Led :
    ~overlap[l] /\ (\A t \in Thread : ~Inside(t, l))
      => lit[l] = Spelling(rgbled_status[l])

\* Between two rounds of the polling task, an LED that no command has touched
\* since its button's press was seen is red while the task holds that button
\* for pressed, and shows what it did before once it is released, whatever
\* happened to the other button in between.
PressAndRestore ==
  pc["poll"] \in {"delay", "read"} =>
    \A l \in Led :
      ~touched[l] =>
        lit[l] = IF pl_pb_status[l] = Pressed THEN {COLOR_RED} ELSE shown[l]

\* Buttons that stay in a position are eventually handled in that position.
ButtonsHandled ==
  \A l \in Led, v \in {Pressed, Released} :
    <>[](button[l] = v) => <>[](pl_pb_status[l] = v)
=============================================================================
