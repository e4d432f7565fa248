------------------------------ MODULE MioLeds ------------------------------
(***************************************************************************)
(* The MIO LEDs, slide switches and push button of the ZUBoard 1CG         *)
(* (platform_gpio.c).  LED i mirrors switch i; the button turns every LED  *)
(* on.  platform_init_gpios copies the switches to the LEDs once and then  *)
(* leaves them to mio_interrupt_handler, which the GPIO driver calls with  *)
(* the set of pins whose edges it found.  Pins change at any moment, also  *)
(* between two accesses of the handler, so each access is an action.       *)
(***************************************************************************)
EXTENDS Integers, FiniteSets

CONSTANT N                  \* the number of switches, and of LEDs

ASSUME NAssumption == N \in Nat \ {0}

Switch == 0 .. N - 1
PB     == N                 \* the push button's pin
Pin    == 0 .. N
Level  == {0, 1}

Pressed  == 0               \* the button pulls its pin low
Released == 1

VARIABLES
  level,     \* level[p]: the level of input pin p
  ledPin,    \* ledPin[i]: the output written for LED i
  detect,    \* the edges of all pins are being latched
  latched,   \* the pins whose interrupt status bit is set
  status,    \* Status: the pins of the interrupt being handled
  pc,        \* what the CPU does next with these pins
  job,       \* the LEDs being written: one, all from the switches, all on
  k,         \* the LED at hand
  value,     \* the level to be written to LED k
  booting,   \* platform_init_gpios has not finished
  \* History variables, read by no guard:
  unseen,    \* pins that moved before edges were detected, not read since
  dropped,   \* pins of an interrupt taken for unknown, not read since
  lit        \* LEDs that are on because of the button

hardware == <<level, ledPin, detect, latched>>
program  == <<status, pc, job, k, value, booting>>
history  == <<unseen, dropped, lit>>
vars     == <<hardware, program, history>>

TypeOK ==
  /\ level \in [Pin -> Level]
  /\ ledPin \in [Switch -> Level]
  /\ detect \in BOOLEAN
  /\ latched \subseteq Pin
  /\ status \subseteq Pin
  /\ pc \in {"sample", "write", "setup", "enable", "failed",
             "idle", "clear", "dispatch"}
  /\ job \in {"one", "mirror", "on"}
  /\ k \in Switch
  /\ value \in Level
  /\ booting \in BOOLEAN
  /\ unseen \subseteq Pin
  /\ dropped \subseteq Pin
  /\ lit \subseteq Switch

\* platform_init_gpios is about to copy the switches to the LEDs.
Init ==
  /\ level \in [Pin -> Level]
  /\ ledPin = [i \in Switch |-> 0]
  /\ detect = FALSE
  /\ latched = {}
  /\ status = {}
  /\ pc = "sample"
  /\ job = "mirror"
  /\ k = 0
  /\ value = 0
  /\ booting = TRUE
  /\ unseen = {}
  /\ dropped = {}
  /\ lit = {}

-----------------------------------------------------------------------------
(* Writing the LEDs: one of them, or all in turn.                          *)

\* Pin p has been read: what changed before no longer matters.
Seen(p) ==
  /\ unseen' = unseen \ {p}
  /\ dropped' = dropped \ {p}

\* XGpioPs_ReadPin of the switch.
Sample ==
  /\ pc = "sample"
  /\ value' = level[k]
  /\ Seen(k)
  /\ pc' = "write"
  /\ UNCHANGED <<hardware, status, job, k, booting, lit>>

\* No LED is left to write after LED k.
Last == job = "one" \/ k = N - 1

\* XGpioPs_WritePin of LED k, and on to the next.
Write ==
  /\ pc = "write"
  /\ ledPin' = [ledPin EXCEPT ![k] = value]
  /\ lit' = IF job = "on" THEN lit \union {k} ELSE lit \ {k}
  /\ k' = IF Last THEN 0 ELSE k + 1
  /\ pc' = IF ~Last THEN (IF job = "on" THEN "write" ELSE "sample")
           ELSE IF booting THEN "setup" ELSE "idle"
  /\ UNCHANGED <<level, detect, latched, status, job, value, booting, unseen,
                 dropped>>

-----------------------------------------------------------------------------
(* setup_mio_interrupt: edges of all pins are detected from SetIntrType    *)
(* on, and handled from IntrEnable on.  It fails when the interrupt        *)
(* controller is not ready, and main_thread goes on without noticing.      *)

SetIntrType ==
  /\ pc = "setup"
  /\ detect' = TRUE
  /\ pc' = "enable"
  /\ UNCHANGED <<level, ledPin, latched, status, job, k, value, booting,
                 history>>

IntrEnable ==
  /\ pc = "enable"
  /\ booting' = FALSE
  /\ pc' = "idle"
  /\ UNCHANGED <<hardware, status, job, k, value, history>>

SetupFails ==
  /\ pc = "setup"
  /\ pc' = "failed"
  /\ UNCHANGED <<hardware, status, job, k, value, booting, history>>

-----------------------------------------------------------------------------
(* XGpioPs_IntrHandler, the driver: it reads the status bits, clears the   *)
(* ones it read, and then calls mio_interrupt_handler with them.           *)

IntrRead ==
  /\ pc = "idle"
  /\ latched # {}
  /\ status' = latched
  /\ pc' = "clear"
  /\ UNCHANGED <<hardware, job, k, value, booting, history>>

\* Fault: clears every bit, those set since they were read included.
ClearAll == {}

\* Fault: leaves the bits it read set.
ClearNone == latched

\* The bits left after the ones that were read are cleared.
LatchedAfterClear == latched \ status

IntrClear ==
  /\ pc = "clear"
  /\ latched' = LatchedAfterClear
  /\ pc' = "dispatch"
  /\ UNCHANGED <<level, ledPin, detect, status, job, k, value, booting,
                 history>>

\* The switch statement of mio_interrupt_handler: exactly one switch,
HandleSwitch(i) ==
  /\ pc = "dispatch"
  /\ status = {i}
  /\ job' = "one"
  /\ k' = i
  /\ pc' = "sample"
  /\ status' = {}
  /\ UNCHANGED <<hardware, value, booting, history>>

\* A pressed button turns all LEDs on, a released one mirrors the switches.
ButtonJob == IF level[PB] = Pressed THEN "on" ELSE "mirror"

\* the button alone,
HandleButton ==
  /\ pc = "dispatch"
  /\ status = {PB}
  /\ job' = ButtonJob
  /\ k' = 0
  /\ value' = 1
  /\ pc' = IF ButtonJob = "on" THEN "write" ELSE "sample"
  /\ Seen(PB)
  /\ status' = {}
  /\ UNCHANGED <<hardware, booting, lit>>

\* or "unknown interrupt": several pins at once match no case.
HandleUnknown ==
  /\ pc = "dispatch"
  /\ \A p \in Pin : status # {p}
  /\ pc' = "idle"
  /\ dropped' = dropped \union status
  /\ status' = {}
  /\ UNCHANGED <<hardware, job, k, value, booting, unseen, lit>>

Cpu ==
  \/ Sample \/ Write
  \/ IntrRead \/ IntrClear
  \/ \E i \in Switch : HandleSwitch(i)
  \/ HandleButton \/ HandleUnknown
  \/ SetIntrType \/ IntrEnable

-----------------------------------------------------------------------------
\* A switch is moved, or the button pressed or released.  Before SetIntrType
\* the edge is latched or not, depending on the type the pin has from reset.
Toggle(p) ==
  /\ level' = [level EXCEPT ![p] = 1 - level[p]]
  /\ \/ /\ latched' = latched \union {p}
        /\ UNCHANGED unseen
     \/ /\ ~detect
        /\ unseen' = unseen \union {p}
        /\ UNCHANGED latched
  /\ UNCHANGED <<ledPin, detect, program, dropped, lit>>

Next == Cpu \/ SetupFails \/ \E p \in Pin : Toggle(p)

\* An interrupt that is enabled and pending is taken, and the code runs on.
Spec == Init /\ [][Next]_vars /\ WF_vars(Cpu)

-----------------------------------------------------------------------------
(* Properties                                                              *)

\* The interrupts are set up and every edge has been served.
AtRest == pc = "idle" /\ latched = {}

\* Pins whose last change went by the handler.
Missed == unseen \union dropped

\* LED i shows its switch, or is on because of the button.
Right(i) == ledPin[i] = IF i \in lit THEN 1 ELSE level[i]

\* At rest every LED is right but those whose switch moved in an interrupt
\* the handler took for unknown, or before edges were detected; and unless
\* that happened to the button, no LED stays on after it is released.
LedsRightAtRest ==
  AtRest =>
    /\ \A i \in Switch \ Missed : Right(i)
    /\ PB \notin Missed /\ level[PB] = Released => lit = {}

\* When the pins stop moving, the system comes to rest (unless the setup
\* failed), with the LEDs as LedsRightAtRest says.
Settles ==
  \A f \in [Pin -> Level] :
    <>[](level = f) => <>[](AtRest \/ pc = "failed")
=============================================================================
