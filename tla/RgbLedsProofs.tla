---------------------------- MODULE RgbLedsProofs ----------------------------
(***************************************************************************)
(* Proofs about RgbLeds, for every set of colours.  The invariants are     *)
(* strengthened to IndInv: what overlap says of the calls in progress, and *)
(* which LEDs the polling task has already set in the current round.       *)
(***************************************************************************)
EXTENDS RgbLeds, TLAPS

\* Without an overlap at most one thread is inside control_rgb_leds for an
\* LED, and the register holds the colour that thread is about to remember.
OverlapInv ==
  \A l \in Led :
    ~overlap[l] =>
      /\ \A t \in Thread : Inside(t, l) => /\ gpio[l] = color[t]
                                           /\ ~Inside(Other(t), l)
      /\ (\A t \in Thread : ~Inside(t, l)) => rgbled_status[l] = gpio[l]

\* A round of the polling task: the level it handles differs from the one
\* handled last, and only a press saves.
RoundInv ==
  /\ pc["poll"] \in {"save", "write", "store", "done"}
       => pb_sample # pl_pb_status
  /\ pc["poll"] = "save" => pb_sample = Pressed

\* The polling task has set LED l in the current round.
SetThisRound(l) ==
  \/ pc["poll"] = "done"
  \/ pc["poll"] = "write" /\ l < led["poll"]
  \/ pc["poll"] = "store" /\ l <= led["poll"]

\* What is known of an LED no command has touched since it was saved.
UntouchedInv ==
  \A l \in Led :
    ~touched[l] =>
      /\ last_status[l] = shown[l]
      /\ SetThisRound(l) =>
           gpio[l] = IF pb_sample = Pressed THEN COLOR_RED ELSE shown[l]
      /\ pc["poll"] \in {"delay", "read"} =>
           gpio[l] = IF pl_pb_status = Pressed THEN COLOR_RED ELSE shown[l]

IndInv == TypeOK /\ OverlapInv /\ RoundInv /\ UntouchedInv

USE DEF Led, Thread, Pressed, Released, Other, PollPc, HttpPc, NextLed,
        LevelHandled, code, history

LEMMA InitIndInv == Init => IndInv
  BY ColorAssumption
  DEF Init, IndInv, TypeOK, OverlapInv, RoundInv, UntouchedInv, Inside,
      SetThisRound

LEMMA PollColorType ==
  ASSUME TypeOK, NEW l \in Led
  PROVE  PollColor(l) \in Color
  BY ColorAssumption DEF TypeOK, PollColor

LEMMA TypePreserved == TypeOK /\ [Next]_vars => TypeOK'
<1> SUFFICES ASSUME TypeOK, [Next]_vars PROVE TypeOK'
  OBVIOUS
<1> USE DEF TypeOK
<1>1. CASE PollWake   BY <1>1 DEF PollWake
<1>2. CASE PollRead   BY <1>2 DEF PollRead
<1>3. CASE PollSave   BY <1>3 DEF PollSave
<1>4. CASE PollWrite
  BY <1>4, PollColorType DEF PollWrite, WriteRegister, Inside
<1>5. CASE PollStore  BY <1>5 DEF PollStore, StoreStatus
<1>6. CASE PollDone   BY <1>6 DEF PollDone
<1>7. ASSUME NEW l \in Led, NEW c \in Color, HttpCommand(l, c)
      PROVE  TypeOK'
  BY <1>7 DEF HttpCommand
<1>8. CASE HttpWrite  BY <1>8 DEF HttpWrite, WriteRegister, Inside
<1>9. CASE HttpStore  BY <1>9 DEF HttpStore, StoreStatus
<1>10. CASE PushButton BY <1>10 DEF PushButton
<1>11. CASE UNCHANGED vars BY <1>11 DEF vars
<1> QED
  BY <1>1, <1>2, <1>3, <1>4, <1>5, <1>6, <1>7, <1>8, <1>9, <1>10, <1>11
  DEF Next, Poll, Http

-----------------------------------------------------------------------------
(* The two writes of a call, whichever thread makes it.                    *)

LEMMA OverlapPreserved == IndInv /\ [Next]_vars => OverlapInv'
<1> SUFFICES ASSUME IndInv, [Next]_vars PROVE OverlapInv'
  OBVIOUS
<1> USE DEF IndInv, TypeOK, OverlapInv, Inside
<1>1. CASE PollWake   BY <1>1 DEF PollWake
<1>2. CASE PollRead   BY <1>2 DEF PollRead
<1>3. CASE PollSave   BY <1>3 DEF PollSave
<1>4. CASE PollWrite  BY <1>4, PollColorType DEF PollWrite, WriteRegister
<1>5. CASE PollStore  BY <1>5 DEF PollStore, StoreStatus
<1>6. CASE PollDone   BY <1>6 DEF PollDone
<1>7. ASSUME NEW l \in Led, NEW c \in Color, HttpCommand(l, c)
      PROVE  OverlapInv'
  BY <1>7 DEF HttpCommand
<1>8. CASE HttpWrite  BY <1>8 DEF HttpWrite, WriteRegister
<1>9. CASE HttpStore  BY <1>9 DEF HttpStore, StoreStatus
<1>10. CASE PushButton BY <1>10 DEF PushButton
<1>11. CASE UNCHANGED vars BY <1>11 DEF vars
<1> QED
  BY <1>1, <1>2, <1>3, <1>4, <1>5, <1>6, <1>7, <1>8, <1>9, <1>10, <1>11
  DEF Next, Poll, Http

-----------------------------------------------------------------------------
(* The rounds of the polling task.                                         *)

LEMMA RoundPreserved == IndInv /\ [Next]_vars => RoundInv'
<1> SUFFICES ASSUME IndInv, [Next]_vars PROVE RoundInv'
  OBVIOUS
<1> USE DEF IndInv, TypeOK, RoundInv
<1>1. CASE PollWake   BY <1>1 DEF PollWake
<1>2. CASE PollRead   BY <1>2 DEF PollRead, ButtonChanged
<1>3. CASE PollSave   BY <1>3 DEF PollSave
<1>4. CASE PollWrite  BY <1>4 DEF PollWrite
<1>5. CASE PollStore  BY <1>5 DEF PollStore
<1>6. CASE PollDone   BY <1>6 DEF PollDone
<1>7. ASSUME NEW l \in Led, NEW c \in Color, HttpCommand(l, c)
      PROVE  RoundInv'
  BY <1>7 DEF HttpCommand
<1>8. CASE HttpWrite  BY <1>8 DEF HttpWrite
<1>9. CASE HttpStore  BY <1>9 DEF HttpStore
<1>10. CASE PushButton BY <1>10 DEF PushButton
<1>11. CASE UNCHANGED vars BY <1>11 DEF vars
<1> QED
  BY <1>1, <1>2, <1>3, <1>4, <1>5, <1>6, <1>7, <1>8, <1>9, <1>10, <1>11
  DEF Next, Poll, Http

\* A save that finds the LED neither overlapped nor in the middle of a command
\* saves the colour it shows: this is where UntouchedInv needs OverlapInv.
LEMMA UntouchedPreserved == IndInv /\ [Next]_vars => UntouchedInv'
<1> SUFFICES ASSUME IndInv, [Next]_vars PROVE UntouchedInv'
  OBVIOUS
<1> USE DEF IndInv, TypeOK, UntouchedInv, RoundInv, SetThisRound
<1>1. CASE PollWake   BY <1>1 DEF PollWake
<1>2. CASE PollRead   BY <1>2 DEF PollRead, ButtonChanged
<1>3. CASE PollSave
  <2> DEFINE l == led["poll"]
  <2>1. ~touched'[l] => last_status'[l] = shown'[l]
    BY <1>3 DEF PollSave, OverlapInv, Inside
  <2>2. \A k \in Led \ {l} : /\ touched'[k] = touched[k]
                              /\ last_status'[k] = last_status[k]
                              /\ shown'[k] = shown[k]
    BY <1>3 DEF PollSave
  <2>3. \A k \in Led : ~SetThisRound(k)'
    BY <1>3 DEF PollSave
  <2> QED
    BY <2>1, <2>2, <2>3, <1>3 DEF PollSave
<1>4. CASE PollWrite
  BY <1>4, PollColorType DEF PollWrite, WriteRegister, PollColor
<1>5. CASE PollStore  BY <1>5 DEF PollStore
<1>6. CASE PollDone   BY <1>6 DEF PollDone
<1>7. ASSUME NEW l \in Led, NEW c \in Color, HttpCommand(l, c)
      PROVE  UntouchedInv'
  BY <1>7 DEF HttpCommand
<1>8. CASE HttpWrite  BY <1>8 DEF HttpWrite, WriteRegister
<1>9. CASE HttpStore  BY <1>9 DEF HttpStore
<1>10. CASE PushButton BY <1>10 DEF PushButton
<1>11. CASE UNCHANGED vars BY <1>11 DEF vars
<1> QED
  BY <1>1, <1>2, <1>3, <1>4, <1>5, <1>6, <1>7, <1>8, <1>9, <1>10, <1>11
  DEF Next, Poll, Http

-----------------------------------------------------------------------------
\* The strengthened invariant holds in every reachable state.
THEOREM Inductive == Spec => []IndInv
<1>1. IndInv /\ [Next]_vars => IndInv'
  BY TypePreserved, OverlapPreserved, RoundPreserved, UntouchedPreserved
  DEF IndInv
<1> QED
  BY <1>1, InitIndInv, PTL DEF Spec

\* The variables keep their types: in particular every colour written to a
\* register is one of color_t, restored colours included.
THEOREM TypeCorrect == Spec => []TypeOK
<1>1. IndInv => TypeOK
  BY DEF IndInv
<1> QED
  BY <1>1, Inductive, PTL

\* Calls of control_rgb_leds that did not overlap leave the LED and the
\* remembered colour in agreement, for every set of colours.
THEOREM StatusAgrees == Spec => []StatusMatchesLed
<1>1. IndInv => StatusMatchesLed
  BY DEF IndInv, OverlapInv, StatusMatchesLed
<1> QED
  BY <1>1, Inductive, PTL

\* The button turns an LED red and gives it back its colour, unless a command
\* set the LED in between.
THEOREM ButtonRestores == Spec => []PressAndRestore
<1>1. IndInv => PressAndRestore
  BY DEF IndInv, UntouchedInv, PressAndRestore
<1> QED
  BY <1>1, Inductive, PTL

\* Only the round that first sees a press replaces the saved colours.
THEOREM SavesOnce == Spec => SavedOncePerPress
<1>1. ASSUME IndInv, [Next]_vars
      PROVE  [last_status' # last_status
                => pl_pb_status = Released /\ pb_sample = Pressed]_vars
  <2>1. SUFFICES ASSUME last_status' # last_status
                 PROVE  PollSave
    BY <1>1 DEF PollSave, IndInv, TypeOK, RoundInv
  <2> QED
    BY <2>1, <1>1
    DEF Next, Poll, Http, PollWake, PollRead, PollWrite, PollStore, PollDone,
        HttpCommand, HttpWrite, HttpStore, PushButton, vars
<1> QED
  BY <1>1, Inductive, PTL DEF Spec, SavedOncePerPress
=============================================================================
