--------------------------- MODULE K24LedsProofs ---------------------------
(***************************************************************************)
(* Proofs about K24Leds, for any number of colours and whichever LEDs the  *)
(* page sets.  The invariants are strengthened to IndInv: what the pins    *)
(* say in the middle of a call, where the polling task is in its round,    *)
(* and what an LED shows that no command has touched.                      *)
(***************************************************************************)
EXTENDS K24Leds, TLAPS

\* A call starts with pin 1, and LED 0 has only one register to write.
PinInv ==
  \A t \in Thread :
    pc[t] \notin {"write", "store"} \/ (pc[t] = "write" /\ led[t] = 0)
      => pin[t] = 1

\* What thread t has written of LED l.
Written(t, l) ==
  IF pc[t] = "store" THEN lit[l] = Spelling(Argument(t))
  ELSE \A p \in Pin : p < pin[t] => (p \in lit[l] <=> p = Argument(t))

\* Without an overlap at most one thread is inside control_rgb_leds for an
\* LED, and the pins are as that thread has written them.
OverlapInv ==
  \A l \in Led :
    ~overlap[l] =>
      /\ \A t \in Thread : Inside(t, l) => Written(t, l) /\ ~Inside(Other(t), l)
      /\ (\A t \in Thread : ~Inside(t, l)) => lit[l] = Spelling(rgbled_status[l])

\* In a round the polling task works on a button that has changed, and saves
\* the LED of one that was pressed.
RoundInv ==
  /\ pc["poll"] \in {"save", "write", "store"} =>
       pb_sample[led["poll"]] # pl_pb_status[led["poll"]]
  /\ pc["poll"] = "save" => pb_sample[led["poll"]] = Pressed

\* The level of button l that the polling task has acted on.
Handled(l) ==
  IF \/ pc["poll"] = "done"
     \/ pc["poll"] \in {"save", "write", "store"} /\ l < led["poll"]
  THEN pb_sample[l] ELSE pl_pb_status[l]

\* What is known of an LED that no command has touched.
UntouchedInv ==
  \A l \in Led :
    ~touched[l] =>
      /\ ~overlap[l]
      /\ ~Inside("http", l)
      /\ shown[l] = Spelling(last_status[l])
      /\ ~Inside("poll", l) =>
           lit[l] = IF Handled(l) = Pressed THEN {COLOR_RED} ELSE shown[l]

IndInv == TypeOK /\ PinInv /\ OverlapInv /\ RoundInv /\ UntouchedInv

-----------------------------------------------------------------------------
(* Colours and pins.                                                       *)

LEMMA Colours ==
  /\ COLOR_NONE \in Color
  /\ COLOR_RED \in Color
  /\ Spelling(COLOR_NONE) = {}
  /\ Spelling(COLOR_RED) = {COLOR_RED}
  /\ \A c \in Color : Spelling(c) \subseteq Pin
BY ColorAssumption DEF Color, COLOR_NONE, COLOR_RED, Spelling, Pin

\* Pins that were all written for colour c spell it.
LEMMA AllWritten ==
  ASSUME NEW c \in Color, NEW S \in SUBSET Pin,
         \A p \in Pin : p \in S <=> p = c
  PROVE  S = Spelling(c)
<1>1. Spelling(c) \in SUBSET Pin
  BY Colours
<1>2. \A p \in Pin : p # 0
  BY ColorAssumption DEF Pin
<1>3. \A p \in Pin : p \in S <=> p \in Spelling(c)
  BY <1>2 DEF Spelling, COLOR_NONE
<1> QED BY <1>1, <1>3

\* One more pin is as it has to be, and none of the pins before it changes.
LEMMA OneMorePin ==
  ASSUME NEW c \in Color, NEW S \in SUBSET Pin, NEW q \in Pin,
         \A p \in Pin : p < q => (p \in S <=> p = c)
  PROVE  /\ WritePin(S, q, c) \in SUBSET Pin
         /\ \A p \in Pin : p < q + 1 => (p \in WritePin(S, q, c) <=> p = c)
BY ColorAssumption DEF Color, Pin, WritePin

LEMMA ArgumentType ==
  ASSUME TypeOK, NEW t \in Thread
  PROVE  Argument(t) \in Color
BY Colours DEF TypeOK, Argument, PollColor, Thread

LEMMA InitIndInv == Init => IndInv
<1> SUFFICES ASSUME Init PROVE IndInv
  OBVIOUS
<1>1. TypeOK
  BY Colours, ColorAssumption DEF Init, TypeOK, PollPc, HttpPc, Pin, Thread, Led
<1>2. PinInv /\ RoundInv
  BY DEF Init, PinInv, RoundInv, Thread, Led
<1>3. \A t \in Thread, l \in Led : ~Inside(t, l)
  BY DEF Init, Inside, Thread
<1>4. OverlapInv /\ UntouchedInv
  BY <1>3, Colours DEF Init, OverlapInv, UntouchedInv, Handled, Thread, Led, Pressed, Released
<1> QED BY <1>1, <1>2, <1>4 DEF IndInv

USE DEF Led, Thread, Pressed, Released, Other, code, history

-----------------------------------------------------------------------------
(* Types and pins.                                                         *)

\* A write keeps the pins that are on among the pins, and counts to the last.
LEMMA WriteType ==
  ASSUME TypeOK, PinInv, NEW t \in Thread, Write(t)
  PROVE  TypeOK' /\ PinInv'
<1> DEFINE l == led[t]
           c == Argument(t)
<1>1. l \in Led /\ c \in Color /\ pin[t] \in Pin /\ pc[t] = "write"
  BY ArgumentType DEF TypeOK, Write
<1>2. (IF l = 0 THEN Spelling(c) ELSE WritePin(lit[1], pin[t], c)) \in SUBSET Pin
  BY <1>1, Colours DEF TypeOK, WritePin
<1>3. lit' \in [Led -> SUBSET Pin]
  BY <1>2 DEF TypeOK, Write
<1>4. pin' \in [Thread -> 1 .. LastColor + 1]
  BY <1>1, ColorAssumption DEF TypeOK, Write, Pin
<1>5. pc' \in [Thread -> PollPc \union HttpPc] /\ pc'["poll"] \in PollPc /\ pc'["http"] \in HttpPc
  BY <1>1 DEF TypeOK, Write, PollPc, HttpPc
<1>6. \A u \in Thread : pc'[u] = "write" => pin'[u] \in Pin
  BY <1>1, ColorAssumption DEF TypeOK, Write, Pin, AllPinsWritten
<1>7. overlap' \in [Led -> BOOLEAN] /\ touched' \in [Led -> BOOLEAN]
  BY DEF TypeOK, Write, Inside
<1>8. TypeOK'
  BY <1>3, <1>4, <1>5, <1>6, <1>7 DEF TypeOK, Write
<1>9. PinInv'
  BY <1>1 DEF PinInv, Write, AllPinsWritten, TypeOK
<1> QED BY <1>8, <1>9

LEMMA TypePreserved == TypeOK /\ PinInv /\ [Next]_vars => TypeOK' /\ PinInv'
<1> SUFFICES ASSUME TypeOK, PinInv, [Next]_vars PROVE TypeOK' /\ PinInv'
  OBVIOUS
<1> USE ColorAssumption DEF PollPc, HttpPc, Pin
<1>1. CASE PollWake
  BY <1>1 DEF PollWake, TypeOK, PinInv
<1>2. CASE PollRead
  BY <1>2 DEF PollRead, Turn, TypeOK, PinInv
<1>3. CASE PollSave
  <2>1. TypeOK'
    <3>1. touched' \in [Led -> BOOLEAN]
      BY <1>3 DEF PollSave, TypeOK, Inside
    <3>2. led["poll"] \in Led /\ pin["poll"] = 1
      BY <1>3 DEF PollSave, TypeOK, PinInv
    <3>3. last_status' \in [Led -> Color] /\ shown' \in [Led -> SUBSET (1 .. LastColor)]
      BY <1>3, <3>2 DEF PollSave, TypeOK
    <3>4. \A t \in Thread : pc'[t] = "write" => pin'[t] \in 1 .. LastColor
      BY <1>3, <3>2 DEF PollSave, TypeOK
    <3> QED BY <1>3, <3>1, <3>3, <3>4 DEF PollSave, TypeOK
  <2>2. PinInv'
    BY <1>3 DEF PollSave, TypeOK, PinInv
  <2> QED BY <2>1, <2>2
<1>4. CASE PollWrite
  BY <1>4, WriteType DEF PollWrite
<1>5. CASE PollStore
  BY <1>5, ArgumentType DEF PollStore, Store, Turn, TypeOK, PinInv
<1>6. CASE PollDone
  BY <1>6 DEF PollDone, TypeOK, PinInv
<1>7. ASSUME NEW l \in Commanded, NEW c \in Color, HttpCommand(l, c)
      PROVE  TypeOK' /\ PinInv'
  BY <1>7, CommandedAssumption DEF HttpCommand, TypeOK, PinInv
<1>8. CASE HttpWrite
  BY <1>8, WriteType DEF HttpWrite
<1>9. CASE HttpStore
  BY <1>9, ArgumentType DEF HttpStore, Store, TypeOK, PinInv
<1>10. ASSUME NEW l \in Led, PushButton(l)
       PROVE  TypeOK' /\ PinInv'
  BY <1>10 DEF PushButton, TypeOK, PinInv
<1>11. CASE UNCHANGED vars
  BY <1>11 DEF vars, TypeOK, PinInv
<1> QED
  BY <1>1, <1>2, <1>3, <1>4, <1>5, <1>6, <1>7, <1>8, <1>9, <1>10, <1>11
  DEF Next, Poll, Http

-----------------------------------------------------------------------------
(* The writes of a call, whichever thread makes it.                        *)

\* The colour a thread is writing is settled before the first pin.
LEMMA ArgumentStable ==
  ASSUME TypeOK, NEW t \in Thread, led'[t] = led[t], color' = color,
         last_status'[led[t]] = last_status[led[t]], pb_sample' = pb_sample
  PROVE  Argument(t)' = Argument(t)
BY DEF Argument, PollColor

LEMMA WriteOverlap ==
  ASSUME IndInv, NEW t \in Thread, Write(t),
         NEW l \in Led, l = led[t], NEW c \in Color, c = Argument(t)
  PROVE  OverlapInv'
<1> USE DEF IndInv
<1> DEFINE u == Other(t)
<1>1. l \in Led /\ c \in Color /\ pin[t] \in Pin /\ pc[t] = "write" /\ u \in Thread /\ u # t
  BY ArgumentType DEF TypeOK, Write
<1>2. \A v \in Thread : Argument(v)' = Argument(v)
  BY DEF Write, Argument, PollColor
<1>3. SUFFICES ASSUME NEW k \in Led, ~overlap'[k]
               PROVE  /\ \A v \in Thread : Inside(v, k)' => Written(v, k)' /\ ~Inside(Other(v), k)'
                      /\ (\A v \in Thread : ~Inside(v, k)') => lit'[k] = Spelling(rgbled_status'[k])
  BY DEF OverlapInv
<1>4. Inside(u, k)' = Inside(u, k)
  BY <1>1 DEF Write, Inside, TypeOK
<1>5. CASE k # l
  <2>1. ~overlap[k] /\ lit'[k] = lit[k] /\ rgbled_status' = rgbled_status
    BY <1>1, <1>3, <1>5 DEF Write, TypeOK
  <2>2. ~Inside(t, k) /\ ~Inside(t, k)'
    BY <1>1, <1>5 DEF Write, Inside, TypeOK
  <2>3. Written(u, k)' = Written(u, k)
    BY <1>1, <1>2, <2>1 DEF Write, Written, TypeOK
  <2>4. \A v \in Thread : v = t \/ v = u
    BY <1>1
  <2> QED BY <1>1, <1>4, <2>1, <2>2, <2>3, <2>4 DEF OverlapInv
<1>6. CASE k = l
  <2>1. ~Inside(u, l)
    BY <1>1, <1>3, <1>6 DEF Write, TypeOK, OverlapInv
  <2>2. l = 0 => pin[t] = 1
    BY <1>1 DEF PinInv
  <2>3. \A p \in Pin : p < pin[t] => (p \in lit[l] <=> p = c)
    <3>1. CASE pin[t] = 1
      BY <3>1, ColorAssumption DEF Pin
    <3>2. CASE pin[t] # 1
      <4>1. Inside(t, l)
        BY <1>1, <3>2, ColorAssumption DEF Inside, Pin
      <4>2. ~overlap[l]
        BY <1>3, <1>6, <4>1 DEF Write
      <4> QED BY <1>1, <4>1, <4>2 DEF OverlapInv, Written
    <3> QED BY <3>1, <3>2
  <2>4. Written(t, l)'
    <3>1. CASE l = 0
      BY <1>1, <1>2, <3>1 DEF Write, Written, AllPinsWritten, TypeOK
    <3>2. CASE l = 1
      <4>1. lit'[l] = WritePin(lit[l], pin[t], c) /\ pin'[t] = pin[t] + 1
        BY <1>1, <3>2 DEF Write, TypeOK
      <4>2. /\ lit'[l] \in SUBSET Pin
            /\ \A p \in Pin : p < pin[t] + 1 => (p \in lit'[l] <=> p = c)
        BY <1>1, <2>3, <4>1, OneMorePin DEF TypeOK
      <4>3. CASE pin[t] = LastColor
        <5>1. \A p \in Pin : p \in lit'[l] <=> p = c
          BY <4>2, <4>3, ColorAssumption DEF Pin
        <5>2. pc'[t] = "store"
          BY <1>1, <4>3 DEF Write, AllPinsWritten, TypeOK
        <5>3. lit'[l] = Spelling(c)
          BY <1>1, <4>2, <5>1, AllWritten
        <5>4. Argument(t)' = c
          BY <1>1, <1>2
        <5> QED BY <5>2, <5>3, <5>4 DEF Written, Spelling
      <4>4. CASE pin[t] # LastColor
        <5>1. pc'[t] = "write"
          BY <1>1, <3>2, <4>4 DEF Write, AllPinsWritten, TypeOK
        <5>2. Argument(t)' = c
          BY <1>1, <1>2
        <5>3. Pin' = Pin
          BY DEF Pin
        <5> QED BY <4>1, <4>2, <5>1, <5>2, <5>3 DEF Written, Pin
      <4> QED BY <4>3, <4>4
    <3> QED BY <1>1, <3>1, <3>2
  <2>5. Inside(t, l)'
    BY <1>1, ColorAssumption DEF Write, Inside, TypeOK, Pin
  <2>6. \A v \in Thread : v = t \/ v = u
    BY <1>1
  <2>7. Other(u) = t
    BY <1>1
  <2>8. ~Inside(u, k)'
    BY <1>4, <1>6, <2>1
  <2>9. ASSUME NEW v \in Thread, Inside(v, k)'
        PROVE  Written(v, k)' /\ ~Inside(Other(v), k)'
    <3>1. v = t
      BY <2>6, <2>8, <2>9
    <3> QED BY <1>6, <2>4, <2>8, <3>1
  <2>10. ~(\A v \in Thread : ~Inside(v, k)')
    BY <1>6, <2>5
  <2> QED BY <2>9, <2>10
<1> QED BY <1>5, <1>6

LEMMA StoreOverlap ==
  ASSUME IndInv, NEW t \in Thread, Store(t),
         NEW u \in Thread, u = Other(t), led'[u] = led[u], pc'[u] = pc[u],
         pc'[t] \notin {"store"}, pc' \in [Thread -> PollPc \union HttpPc]
  PROVE  OverlapInv'
<1> USE DEF IndInv
<1> DEFINE l == led[t]
<1>1. l \in Led /\ u \in Thread /\ u # t /\ pc[t] = "store" /\ Other(u) = t
  BY DEF TypeOK, Store
<1>2. \A v \in Thread : v = t \/ v = u
  BY <1>1
<1>3. pin'[u] = pin[u] /\ pin'[t] = 1 /\ lit' = lit /\ overlap' = overlap
  BY <1>1 DEF Store, TypeOK
<1>4. \A k \in Led : ~Inside(t, k)' /\ Inside(u, k)' = Inside(u, k)
  BY <1>1, <1>3 DEF Inside
<1>5. Argument(u)' = Argument(u)
  BY <1>1 DEF Argument, PollColor, Store
<1>6. \A k \in Led : Written(u, k)' = Written(u, k)
  <2>1. pc'[u] = pc[u] /\ pin'[u] = pin[u] /\ lit' = lit
    BY <1>3
  <2> QED BY <1>5, <2>1 DEF Written, Spelling, Pin
<1>7. SUFFICES ASSUME NEW k \in Led, ~overlap[k]
               PROVE  /\ Inside(u, k) => Written(u, k)
                      /\ ~Inside(u, k) => lit[k] = Spelling(rgbled_status'[k])
  BY <1>1, <1>2, <1>3, <1>4, <1>6 DEF OverlapInv
<1>8. Inside(u, k) => Written(u, k)
  BY <1>1, <1>7 DEF OverlapInv
<1>9. ASSUME ~Inside(u, k)
      PROVE  lit[k] = Spelling(rgbled_status'[k])
  <2>1. CASE k = l
    <3>1. Inside(t, k)
      BY <1>1, <2>1 DEF Inside
    <3>2. lit[k] = Spelling(Argument(t))
      BY <1>1, <1>7, <3>1 DEF OverlapInv, Written
    <3> QED BY <1>1, <2>1, <3>2 DEF Store, TypeOK
  <2>2. CASE k # l
    <3>1. ~Inside(t, k)
      BY <2>2 DEF Inside
    <3> QED BY <1>1, <1>2, <1>7, <1>9, <2>2, <3>1 DEF OverlapInv, Store, TypeOK
  <2> QED BY <2>1, <2>2
<1> QED BY <1>8, <1>9

LEMMA OverlapPreserved == IndInv /\ TypeOK' /\ [Next]_vars => OverlapInv'
<1> SUFFICES ASSUME IndInv, TypeOK', [Next]_vars PROVE OverlapInv'
  OBVIOUS
<1> USE DEF IndInv
\* An action that moves no thread inside a call, or out of one, and no pin.
<1>1. ASSUME lit' = lit, rgbled_status' = rgbled_status, overlap' = overlap,
             \A t \in Thread, l \in Led : Inside(t, l)' = Inside(t, l),
             \A t \in Thread, l \in Led :
               Inside(t, l) => /\ pc'[t] = pc[t] /\ pin'[t] = pin[t]
                               /\ Argument(t)' = Argument(t)
      PROVE  OverlapInv'
  <2>1. \A t \in Thread, l \in Led : Inside(t, l) => Written(t, l)' = Written(t, l)
    BY <1>1 DEF Written, Spelling, Pin
  <2> QED BY <1>1, <2>1 DEF OverlapInv, Spelling
<1>2. CASE PollWake
  BY <1>1, <1>2 DEF PollWake, TypeOK, PinInv, Inside, Argument, PollColor
<1>3. CASE PollRead
  BY <1>1, <1>3 DEF PollRead, Turn, TypeOK, PinInv, Inside, Argument, PollColor
<1>4. CASE PollSave
  BY <1>1, <1>4 DEF PollSave, TypeOK, PinInv, Inside, Argument, PollColor
<1>5. CASE PollDone
  BY <1>1, <1>5 DEF PollDone, TypeOK, PinInv, Inside, Argument, PollColor
<1>6. ASSUME NEW l \in Commanded, NEW c \in Color, HttpCommand(l, c)
      PROVE  OverlapInv'
  BY <1>1, <1>6 DEF HttpCommand, TypeOK, PinInv, Inside, Argument, PollColor
<1>7. ASSUME NEW l \in Led, PushButton(l)
      PROVE  OverlapInv'
  BY <1>1, <1>7 DEF PushButton, TypeOK, PinInv, Inside, Argument, PollColor
<1>8. CASE UNCHANGED vars
  BY <1>1, <1>8 DEF vars, TypeOK, PinInv, Inside, Argument, PollColor
<1>9. CASE PollWrite \/ HttpWrite
  <2>1. \A t \in Thread : led[t] \in Led /\ Argument(t) \in Color
    BY ArgumentType DEF TypeOK
  <2>2. PICK t \in Thread : Write(t)
    BY <1>9 DEF PollWrite, HttpWrite
  <2> QED BY <2>1, <2>2, WriteOverlap
<1>10. CASE PollStore
  <2>1. /\ led'["http"] = led["http"]
        /\ pc'["http"] = pc["http"]
        /\ pc'["poll"] # "store"
    BY <1>10 DEF PollStore, Turn, TypeOK
  <2>2. pc' \in [Thread -> PollPc \union HttpPc]
    BY DEF TypeOK
  <2> QED BY <1>10, <2>1, <2>2, StoreOverlap DEF PollStore
<1>11. CASE HttpStore
  <2>1. /\ led'["poll"] = led["poll"]
        /\ pc'["poll"] = pc["poll"]
        /\ pc'["http"] # "store"
    BY <1>11 DEF HttpStore, TypeOK
  <2>2. pc' \in [Thread -> PollPc \union HttpPc]
    BY DEF TypeOK
  <2> QED BY <1>11, <2>1, <2>2, StoreOverlap DEF HttpStore
<1> QED
  BY <1>2, <1>3, <1>4, <1>5, <1>6, <1>7, <1>8, <1>9, <1>10, <1>11
  DEF Next, Poll, Http

-----------------------------------------------------------------------------
(* The rounds of the polling task.                                         *)

LEMMA RoundPreserved == IndInv /\ [Next]_vars => RoundInv'
<1> SUFFICES ASSUME IndInv, [Next]_vars PROVE RoundInv'
  OBVIOUS
<1> USE DEF IndInv, TypeOK, RoundInv
<1>1. CASE PollWake
  BY <1>1 DEF PollWake
<1>2. CASE PollRead
  BY <1>2 DEF PollRead, Turn, Changed
<1>3. CASE PollSave
  BY <1>3 DEF PollSave
<1>4. CASE PollWrite
  BY <1>4 DEF PollWrite, Write
<1>5. CASE PollStore
  BY <1>5 DEF PollStore, Store, Turn, Changed
<1>6. CASE PollDone
  BY <1>6 DEF PollDone
<1>7. ASSUME NEW l \in Commanded, NEW c \in Color, HttpCommand(l, c)
      PROVE  RoundInv'
  BY <1>7 DEF HttpCommand
<1>8. CASE HttpWrite
  BY <1>8 DEF HttpWrite, Write
<1>9. CASE HttpStore
  BY <1>9 DEF HttpStore, Store
<1>10. ASSUME NEW l \in Led, PushButton(l)
       PROVE  RoundInv'
  BY <1>10 DEF PushButton
<1>11. CASE UNCHANGED vars
  BY <1>11 DEF vars
<1> QED
  BY <1>1, <1>2, <1>3, <1>4, <1>5, <1>6, <1>7, <1>8, <1>9, <1>10, <1>11
  DEF Next, Poll, Http

-----------------------------------------------------------------------------
(* LEDs that no command has touched.                                       *)

\* What UntouchedInv says of one LED.
Kept(l) ==
  /\ ~overlap[l]
  /\ ~Inside("http", l)
  /\ shown[l] = Spelling(last_status[l])
  /\ ~Inside("poll", l) =>
       lit[l] = IF Handled(l) = Pressed THEN {COLOR_RED} ELSE shown[l]

LEMMA UntouchedPreserved == IndInv /\ [Next]_vars => UntouchedInv'
<1> SUFFICES ASSUME IndInv, [Next]_vars,
                    NEW k \in Led, ~touched'[k]
             PROVE  Kept(k)'
  BY DEF UntouchedInv, Kept
<1> USE DEF IndInv
<1>0. ~touched[k] => Kept(k)
  BY DEF UntouchedInv, Kept
<1>1. CASE PollWake
  BY <1>0, <1>1 DEF PollWake, Kept, Inside, Handled, TypeOK, PinInv, Spelling
<1>2. CASE PollRead
  BY <1>0, <1>2
  DEF PollRead, Turn, Changed, Kept, Inside, Handled, TypeOK, PinInv, Spelling
<1>3. CASE PollSave
  <2>1. led["poll"] \in Led /\ pl_pb_status[led["poll"]] = Released
    BY <1>3 DEF PollSave, RoundInv, TypeOK
  <2>2. ~Inside("poll", k) /\ ~Inside("poll", k)' /\ Inside("http", k)' = Inside("http", k)
    BY <1>3 DEF PollSave, Inside, TypeOK, PinInv
  <2>3. CASE k = led["poll"]
    <3>1. ~overlap[k] /\ ~Inside("http", k)
      BY <1>3, <2>3 DEF PollSave, TypeOK, Inside
    <3>2. lit[k] = Spelling(rgbled_status[k])
      BY <2>2, <3>1 DEF OverlapInv
    <3>3. last_status'[k] = rgbled_status[k] /\ shown'[k] = lit[k]
      BY <1>3, <2>1, <2>3 DEF PollSave, TypeOK
    <3>4. Handled(k)' = Released
      BY <1>3, <2>1, <2>3 DEF PollSave, Handled, TypeOK
    <3> QED
      BY <1>3, <2>2, <3>1, <3>2, <3>3, <3>4 DEF PollSave, Kept, Spelling
  <2>4. CASE k # led["poll"]
    <3>1. touched'[k] = touched[k] /\ last_status'[k] = last_status[k] /\ shown'[k] = shown[k]
      BY <1>3, <2>1, <2>4 DEF PollSave, TypeOK
    <3>2. Handled(k)' = Handled(k)
      BY <1>3 DEF PollSave, Handled, TypeOK
    <3> QED
      BY <1>0, <1>3, <2>2, <3>1, <3>2 DEF PollSave, Kept, Spelling
  <2> QED BY <2>3, <2>4
<1>4. CASE PollWrite
  <2>1. led["poll"] \in Led /\ pc["poll"] = "write" /\ pin["poll"] \in Pin
    BY <1>4 DEF PollWrite, Write, TypeOK
  <2>2. ~touched[k]
    BY <1>4 DEF PollWrite, Write
  <2>3. Inside("http", k)' = Inside("http", k)
    BY <1>4, <2>1 DEF PollWrite, Write, Inside, TypeOK
  <2>4. ~overlap'[k]
    BY <1>0, <1>4, <2>1, <2>2 DEF PollWrite, Write, Kept, TypeOK
  <2>5. shown'[k] = Spelling(last_status[k])
    BY <1>0, <1>4, <2>2 DEF PollWrite, Write, Kept
  <2>6. CASE k = led["poll"]
    <3>1. Inside("poll", k)'
      BY <1>4, <2>1, <2>6, ColorAssumption DEF PollWrite, Write, Inside, TypeOK, Pin
    <3> QED BY <1>0, <1>4, <2>2, <2>3, <2>4, <2>5, <3>1 DEF PollWrite, Write, Kept, Spelling
  <2>7. CASE k # led["poll"]
    <3>1. lit'[k] = lit[k]
      BY <1>4, <2>1, <2>7 DEF PollWrite, Write, TypeOK
    <3>2. Handled(k)' = Handled(k) /\ Inside("poll", k)' = Inside("poll", k)
      BY <1>4, <2>1, <2>7 DEF PollWrite, Write, Handled, Inside, TypeOK
    <3> QED BY <1>0, <1>4, <2>2, <2>3, <2>4, <2>5, <3>1, <3>2 DEF PollWrite, Write, Kept, Spelling
  <2> QED BY <2>6, <2>7
<1>5. CASE PollStore
  <2>1. led["poll"] \in Led /\ pc["poll"] = "store"
    BY <1>5 DEF PollStore, Store, TypeOK
  <2>2. /\ ~touched[k] /\ overlap' = overlap /\ shown' = shown /\ lit' = lit
        /\ last_status' = last_status
    BY <1>5 DEF PollStore, Store
  <2>3. Inside("http", k)' = Inside("http", k) /\ ~Inside("poll", k)'
    BY <1>5, <2>1 DEF PollStore, Store, Turn, Inside, TypeOK
  <2>4. Kept(k)
    BY <1>0, <2>2
  <2>5. lit[k] = IF Handled(k)' = Pressed THEN {COLOR_RED} ELSE shown[k]
    <3>1. CASE k = led["poll"]
      <4>1. Inside("poll", k)
        BY <2>1, <3>1 DEF Inside
      <4>2. lit[k] = Spelling(Argument("poll"))
        BY <2>1, <2>4, <4>1 DEF OverlapInv, Kept, Written
      <4>3. Handled(k)' = pb_sample[k]
        BY <1>5, <2>1, <3>1 DEF PollStore, Store, Turn, Changed, Handled, TypeOK
      <4>4. Argument("poll") = IF pb_sample[k] = Pressed THEN COLOR_RED ELSE last_status[k]
        BY <3>1 DEF Argument, PollColor
      <4> QED BY <2>4, <4>2, <4>3, <4>4, Colours DEF Kept
    <3>2. CASE k # led["poll"]
      <4>1. Handled(k)' = Handled(k)
        BY <1>5, <2>1, <3>2 DEF PollStore, Store, Turn, Changed, Handled, TypeOK
      <4>2. ~Inside("poll", k)
        BY <3>2 DEF Inside
      <4> QED BY <2>4, <4>1, <4>2 DEF Kept
    <3> QED BY <3>1, <3>2
  <2> QED BY <2>2, <2>3, <2>4, <2>5 DEF Kept, Spelling
<1>6. CASE PollDone
  BY <1>0, <1>6 DEF PollDone, Kept, Inside, Handled, TypeOK, PinInv, Spelling
<1>7. ASSUME NEW l \in Commanded, NEW c \in Color, HttpCommand(l, c)
      PROVE  Kept(k)'
  BY <1>0, <1>7 DEF HttpCommand, Kept, Inside, Handled, TypeOK, PinInv, Spelling
<1>8. CASE HttpWrite
  <2>1. led["http"] \in Led /\ pc["http"] = "write"
    BY <1>8 DEF HttpWrite, Write, TypeOK
  <2>2. k # led["http"] /\ ~touched[k]
    BY <1>8, <2>1 DEF HttpWrite, Write, TypeOK
  <2>3. lit'[k] = lit[k] /\ overlap'[k] = overlap[k]
    BY <1>8, <2>1, <2>2 DEF HttpWrite, Write, TypeOK
  <2>4. /\ Handled(k)' = Handled(k) /\ Inside("poll", k)' = Inside("poll", k)
        /\ ~Inside("http", k)'
    BY <1>8, <2>1, <2>2 DEF HttpWrite, Write, Handled, Inside, TypeOK
  <2> QED BY <1>0, <1>8, <2>2, <2>3, <2>4 DEF HttpWrite, Write, Kept, Spelling
<1>9. CASE HttpStore
  <2>1. /\ Handled(k)' = Handled(k) /\ Inside("poll", k)' = Inside("poll", k)
        /\ ~Inside("http", k)'
    BY <1>9 DEF HttpStore, Store, Handled, Inside, TypeOK
  <2> QED BY <1>0, <1>9, <2>1 DEF HttpStore, Store, Kept, Spelling
<1>10. ASSUME NEW l \in Led, PushButton(l)
       PROVE  Kept(k)'
  BY <1>0, <1>10 DEF PushButton, Kept, Inside, Handled, Spelling
<1>11. CASE UNCHANGED vars
  BY <1>0, <1>11 DEF vars, Kept, Inside, Handled, Spelling
<1> QED
  BY <1>1, <1>2, <1>3, <1>4, <1>5, <1>6, <1>7, <1>8, <1>9, <1>10, <1>11
  DEF Next, Poll, Http

-----------------------------------------------------------------------------
\* The strengthened invariant holds in every reachable state.
THEOREM Inductive == Spec => []IndInv
<1>1. IndInv /\ [Next]_vars => IndInv'
  BY TypePreserved, OverlapPreserved, RoundPreserved, UntouchedPreserved DEF IndInv
<1> QED BY <1>1, InitIndInv, PTL DEF Spec

\* The variables keep their types: the colours and pins that the polling task
\* restores and the pin counted to are always among those that exist.
THEOREM TypeCorrect == Spec => []TypeOK
<1>1. IndInv => TypeOK
  BY DEF IndInv
<1> QED BY <1>1, Inductive, PTL

\* Calls of control_rgb_leds that did not overlap leave the pins and the
\* remembered colour in agreement, for every number of colours.
THEOREM PinsAgree == Spec => []PinsSpellStatus
<1>1. IndInv => PinsSpellStatus
  BY DEF IndInv, OverlapInv, PinsSpellStatus
<1> QED BY <1>1, Inductive, PTL

\* Each button turns its LED red and gives back what it showed, whatever the
\* other does, unless a command set the LED in between.
THEOREM ButtonsRestore == Spec => []PressAndRestore
<1>1. IndInv => PressAndRestore
  <2> SUFFICES ASSUME IndInv, pc["poll"] \in {"delay", "read"},
                      NEW l \in Led, ~touched[l]
               PROVE  lit[l] = IF pl_pb_status[l] = Pressed THEN {COLOR_RED} ELSE shown[l]
    BY DEF PressAndRestore
  <2>1. ~Inside("poll", l) /\ Handled(l) = pl_pb_status[l]
    BY DEF Inside, Handled
  <2> QED BY <2>1 DEF IndInv, UntouchedInv
<1> QED BY <1>1, Inductive, PTL
=============================================================================
