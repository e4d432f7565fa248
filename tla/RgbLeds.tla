------------------------------- MODULE RgbLeds -------------------------------
(***************************************************************************)
(* The two RGB LEDs of the ZUBoard 1CG (platform_gpio.c).                  *)
(*                                                                         *)
(* Two FreeRTOS threads of the same priority drive them, without a lock:   *)
(*   "poll"  pl_pb_polling_task, which samples the PL push button, turns   *)
(*           both LEDs red while it is held and restores them afterwards;  *)
(*   "http"  main_thread, which serves the LED commands of the web page.   *)
(* Both go through control_rgb_leds, which writes the GPIO register of the *)
(* LED and then the variable that remembers its colour.  The scheduler may *)
(* switch threads between any two accesses to shared state, so each access *)
(* is an action of its own.                                                *)
(***************************************************************************)
EXTENDS Naturals

CONSTANTS
  Color,        \* the values of color_t
  COLOR_NONE,   \* the LED is off
  COLOR_RED     \* the colour shown while the button is held

ASSUME ColorAssumption == {COLOR_NONE, COLOR_RED} \subseteq Color

Led      == {0, 1}
Thread   == {"poll", "http"}
Pressed  == 0                 \* the button pulls its input low
Released == 1

Other(t) == IF t = "poll" THEN "http" ELSE "poll"

VARIABLES
  button,            \* the level of the push button's input
  gpio,              \* gpio[l]: the colour in the output register of LED l
  rgbled_status,     \* rgbled<l>_status: the colour the program remembers
  last_status,       \* last_rgbled<l>_status: the colour saved at a press
  pl_pb_status,      \* the button level the polling task handled last
  pb_sample,         \* current_pb_status, a local of the polling task
  pc,                \* pc[t]: the access thread t makes next
  led,               \* led[t]: the LED thread t works on
  color,             \* color[t]: the colour argument of control_rgb_leds
  \* History variables, read by no guard:
  overlap,           \* overlap[l]: the calls that set LED l last overlapped
  shown,             \* shown[l]: the colour of LED l when the press was seen
  touched            \* touched[l]: a command set LED l since it was saved

code    == <<gpio, rgbled_status, last_status, pl_pb_status, pb_sample>>
history == <<overlap, shown, touched>>
vars    == <<button, code, pc, led, color, history>>

PollPc == {"delay", "read", "save", "write", "store", "done"}
HttpPc == {"idle", "write", "store"}

TypeOK ==
  /\ button \in {Pressed, Released}
  /\ gpio \in [Led -> Color]
  /\ rgbled_status \in [Led -> Color]
  /\ last_status \in [Led -> Color]
  /\ pl_pb_status \in {Pressed, Released}
  /\ pb_sample \in {Pressed, Released}
  /\ pc \in [Thread -> PollPc \union HttpPc]
  /\ pc["poll"] \in PollPc
  /\ pc["http"] \in HttpPc
  /\ led \in [Thread -> Led]
  /\ color \in [Thread -> Color]
  /\ overlap \in [Led -> BOOLEAN]
  /\ shown \in [Led -> Color]
  /\ touched \in [Led -> BOOLEAN]

\* The LEDs are off until the first command, and the button starts either way.
Init ==
  /\ button \in {Pressed, Released}
  /\ gpio = [l \in Led |-> COLOR_NONE]
  /\ rgbled_status = [l \in Led |-> COLOR_NONE]
  /\ last_status = [l \in Led |-> COLOR_NONE]
  /\ pl_pb_status = Released
  /\ pb_sample = Pressed
  /\ pc = [t \in Thread |-> IF t = "poll" THEN "read" ELSE "idle"]
  /\ led = [t \in Thread |-> 0]
  /\ color = [t \in Thread |-> COLOR_NONE]
  /\ overlap = [l \in Led |-> FALSE]
  /\ shown = [l \in Led |-> COLOR_NONE]
  /\ touched = [l \in Led |-> FALSE]

-----------------------------------------------------------------------------
(* control_rgb_leds                                                        *)

\* Thread t is between the two writes of control_rgb_leds for LED l.
Inside(t, l) == pc[t] = "store" /\ led[t] = l

\* XGpio_DiscreteWrite(gpio, 1, ...)
WriteRegister(t, l, c) ==
  /\ gpio' = [gpio EXCEPT ![l] = c]
  /\ overlap' = [overlap EXCEPT ![l] = Inside(Other(t), l)]

\* Fault: the remembered colour of LED 0 is written whichever LED is set.
StoreStatusOfLed0(t) ==
  rgbled_status' = [rgbled_status EXCEPT ![0] = color[t]]

\* *pCurStatus = color
StoreStatus(t) ==
  rgbled_status' = [rgbled_status EXCEPT ![led[t]] = color[t]]

-----------------------------------------------------------------------------
(* pl_pb_polling_task                                                      *)

\* The 100 ms delay between two samples has passed.
PollWake ==
  /\ pc["poll"] = "delay"
  /\ pc' = [pc EXCEPT !["poll"] = "read"]
  /\ UNCHANGED <<button, code, led, color, history>>

\* Fault: acts on the level of the button, not on its change.
ButtonLevel(sample) == sample \in {Pressed, Released}

\* Fault: only a press counts as a change.
ButtonPressed(sample) == sample = Pressed /\ pl_pb_status = Released

\* The sample differs from the level handled last.
ButtonChanged(sample) == sample # pl_pb_status

PollRead ==
  /\ pc["poll"] = "read"
  /\ pb_sample' = button
  /\ pc' = [pc EXCEPT !["poll"] = IF ~ButtonChanged(button) THEN "delay"
                                  ELSE IF button = Pressed  THEN "save"
                                                            ELSE "write"]
  /\ led' = [led EXCEPT !["poll"] = 0]
  /\ UNCHANGED <<button, gpio, rgbled_status, last_status, pl_pb_status,
                 color, history>>

\* The polling task handles LED 0, then LED 1.
NextLed(l) == 1 - l

\* Saves the remembered colour of one LED, LED 0 first.
PollSave ==
  LET l == led["poll"] IN
  /\ pc["poll"] = "save"
  /\ last_status' = [last_status EXCEPT ![l] = rgbled_status[l]]
  /\ shown' = IF pl_pb_status = Released THEN [shown EXCEPT ![l] = gpio[l]]
              ELSE shown
  /\ touched' = [touched EXCEPT ![l] = overlap[l] \/ Inside("http", l)]
  /\ led' = [led EXCEPT !["poll"] = NextLed(l)]
  /\ pc' = [pc EXCEPT !["poll"] = IF l = 1 THEN "write" ELSE "save"]
  /\ UNCHANGED <<button, gpio, rgbled_status, pl_pb_status, pb_sample, color,
                 overlap>>

\* The colour the polling task sets LED l to.
PollColor(l) == IF pb_sample = Pressed THEN COLOR_RED ELSE last_status[l]

PollWrite ==
  LET l == led["poll"] IN
  /\ pc["poll"] = "write"
  /\ WriteRegister("poll", l, PollColor(l))
  /\ color' = [color EXCEPT !["poll"] = PollColor(l)]
  /\ pc' = [pc EXCEPT !["poll"] = "store"]
  /\ UNCHANGED <<button, rgbled_status, last_status, pl_pb_status, pb_sample,
                 led, shown, touched>>

\* Remembers the colour of one LED and goes on to the next.
PollStore ==
  /\ pc["poll"] = "store"
  /\ StoreStatus("poll")
  /\ led' = [led EXCEPT !["poll"] = NextLed(led["poll"])]
  /\ pc' = [pc EXCEPT !["poll"] = IF led["poll"] = 1 THEN "done" ELSE "write"]
  /\ UNCHANGED <<button, gpio, last_status, pl_pb_status, pb_sample, color,
                 history>>

\* The level remembered for the next comparison is the one that was handled.
LevelHandled == pb_sample

PollDone ==
  /\ pc["poll"] = "done"
  /\ pl_pb_status' = LevelHandled
  /\ pc' = [pc EXCEPT !["poll"] = "delay"]
  /\ UNCHANGED <<button, gpio, rgbled_status, last_status, pb_sample, led,
                 color, history>>

Poll == PollWake \/ PollRead \/ PollSave \/ PollWrite \/ PollStore \/ PollDone

-----------------------------------------------------------------------------
(* main_thread, serving a LED command with a valid LED and colour: any     *)
(* other command leaves control_rgb_leds before it changes anything.       *)

HttpCommand(l, c) ==
  /\ pc["http"] = "idle"
  /\ pc' = [pc EXCEPT !["http"] = "write"]
  /\ led' = [led EXCEPT !["http"] = l]
  /\ color' = [color EXCEPT !["http"] = c]
  /\ UNCHANGED <<button, code, history>>

HttpWrite ==
  LET l == led["http"] IN
  /\ pc["http"] = "write"
  /\ WriteRegister("http", l, color["http"])
  /\ touched' = [touched EXCEPT ![l] = TRUE]
  /\ pc' = [pc EXCEPT !["http"] = "store"]
  /\ UNCHANGED <<button, rgbled_status, last_status, pl_pb_status, pb_sample,
                 led, color, shown>>

HttpStore ==
  /\ pc["http"] = "store"
  /\ StoreStatus("http")
  /\ pc' = [pc EXCEPT !["http"] = "idle"]
  /\ UNCHANGED <<button, gpio, last_status, pl_pb_status, pb_sample, led,
                 color, history>>

Http == HttpWrite \/ HttpStore

-----------------------------------------------------------------------------
\* The user presses or releases the button.
PushButton ==
  /\ button' = 1 - button
  /\ UNCHANGED <<code, pc, led, color, history>>

Next ==
  \/ Poll
  \/ Http
  \/ \E l \in Led, c \in Color : HttpCommand(l, c)
  \/ PushButton

\* The scheduler runs both threads; the user and the browser owe nothing.
Fairness == WF_vars(Poll) /\ WF_vars(Http)

Spec == Init /\ [][Next]_vars /\ Fairness

-----------------------------------------------------------------------------
(* Properties                                                              *)

\* An LED and the variable that remembers its colour agree whenever no thread
\* is inside control_rgb_leds for it, provided the calls that set it last did
\* not overlap: a call that runs alone repairs what an overlap left behind.
StatusMatchesLed ==
  \A l \in Led :
    (~overlap[l] /\ \A t \in Thread : ~Inside(t, l))
      => rgbled_status[l] = gpio[l]

\* Between two rounds of the polling task, an LED that no command has touched
\* since the last press was saved is red while the task holds the button for
\* pressed, and has its colour from before the press once it is released.
PressAndRestore ==
  pc["poll"] \in {"delay", "read"} =>
    \A l \in Led :
      ~touched[l] =>
        gpio[l] = IF pl_pb_status = Pressed THEN COLOR_RED ELSE shown[l]

\* The saved colours are replaced only in the round that first sees a press:
\* holding the button never saves the red the task itself has set.
SavedOncePerPress ==
  [][last_status' # last_status
       => pl_pb_status = Released /\ pb_sample = Pressed]_vars

\* A button that stays in a position is eventually handled in that position.
ButtonHandled ==
  \A v \in {Pressed, Released} :
    <>[](button = v) => <>[](pl_pb_status = v)
=============================================================================
