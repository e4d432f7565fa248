---------------------------- MODULE MioLedsProofs ----------------------------
(***************************************************************************)
(* Proofs about MioLeds, for every number of switches.  LedsRightAtRest is *)
(* strengthened to say, of a pin whose LED is not right, where in the      *)
(* system the change that will put it right is waiting.                    *)
(***************************************************************************)
EXTENDS MioLeds, TLAPS

\* An interrupt for pin p is latched, or read and not yet dispatched.
Waiting(p) == p \in latched \/ (pc \in {"clear", "dispatch"} /\ p \in status)

\* The LEDs are being written from the switches and LED i is still to come.
ToBeSampled(i) ==
  /\ job \in {"one", "mirror"}
  /\ \/ pc = "sample" /\ k = i
     \/ pc \in {"sample", "write"} /\ job = "mirror" /\ k < i

\* LED i is about to be written with the level sampled from its switch.
ToBeWritten(i) == pc = "write" /\ job \in {"one", "mirror"} /\ k = i

\* A sample about to be written is current, unless a later change is waiting:
\* that the LED happens to be right before the write is not enough.
SwitchInv ==
  \A i \in Switch :
    \/ i \in Missed
    \/ Waiting(i)
    \/ IF ToBeWritten(i) THEN value = level[i] ELSE ToBeSampled(i) \/ Right(i)

\* After a release, LEDs the button lit are those the handler still has to
\* write from the switches.
ButtonInv ==
  \/ PB \in Missed
  \/ Waiting(PB)
  \/ level[PB] = Released =>
       /\ ~(pc = "write" /\ job = "on")
       /\ \A i \in lit : pc \in {"sample", "write"} /\ job = "mirror" /\ k <= i

\* The program's own bookkeeping.
ProgramInv ==
  /\ job = "on" => (pc = "write" => value = 1) /\ pc # "sample"
  /\ pc \in {"sample", "write"} /\ booting => job = "mirror"
  /\ pc \in {"clear", "dispatch", "idle"} => ~booting
  /\ status # {} => pc \in {"clear", "dispatch"}

IndInv == TypeOK /\ ProgramInv /\ SwitchInv /\ ButtonInv

USE NAssumption DEF Switch, PB, Pin, Level, Pressed, Released, hardware,
                    program, history

\* Initially all LEDs are still to be written from the switches.
LEMMA InitIndInv == Init => IndInv
<1> SUFFICES ASSUME Init PROVE IndInv
  OBVIOUS
<1> USE DEF Init
<1>1. TypeOK
  <2>1. 0 \in Switch /\ ledPin \in [Switch -> Level]
    OBVIOUS
  <2> QED
    BY <2>1 DEF TypeOK
<1>2. ProgramInv  BY DEF ProgramInv
<1>3. SwitchInv
  <2>1. \A i \in Switch : i = 0 \/ 0 < i
    OBVIOUS
  <2> QED
    BY <2>1 DEF SwitchInv, ToBeSampled, ToBeWritten
<1>4. ButtonInv   BY DEF ButtonInv
<1> QED
  BY <1>1, <1>2, <1>3, <1>4 DEF IndInv

LEMMA TypePreserved == TypeOK /\ [Next]_vars => TypeOK'
<1> SUFFICES ASSUME TypeOK, [Next]_vars PROVE TypeOK'
  OBVIOUS
<1> USE DEF TypeOK
<1>1. CASE Sample
  BY <1>1 DEF Sample, Seen
<1>2. CASE Write
  BY <1>2 DEF Write, Last
<1>3. CASE IntrRead
  BY <1>3 DEF IntrRead
<1>4. CASE IntrClear
  BY <1>4 DEF IntrClear, LatchedAfterClear
<1>5. ASSUME NEW i \in Switch, HandleSwitch(i)
      PROVE  TypeOK'
  BY <1>5 DEF HandleSwitch
<1>6. CASE HandleButton
  BY <1>6 DEF HandleButton, ButtonJob, Seen
<1>7. CASE HandleUnknown
  BY <1>7 DEF HandleUnknown
<1>8. CASE SetIntrType
  BY <1>8 DEF SetIntrType
<1>9. CASE IntrEnable
  BY <1>9 DEF IntrEnable
<1>10. CASE SetupFails
  BY <1>10 DEF SetupFails
<1>11. ASSUME NEW p \in Pin, Toggle(p)
      PROVE  TypeOK'
  <2>1. 1 - level[p] \in Level
    OBVIOUS
  <2> QED
    BY <2>1, <1>11 DEF Toggle
<1>12. CASE UNCHANGED vars
  BY <1>12 DEF vars
<1> QED
  BY <1>1, <1>2, <1>3, <1>4, <1>5, <1>6, <1>7, <1>8, <1>9, <1>10, <1>11, <1>12
  DEF Next, Cpu

LEMMA ProgramPreserved == IndInv /\ [Next]_vars => ProgramInv'
<1> SUFFICES ASSUME IndInv, [Next]_vars PROVE ProgramInv'
  OBVIOUS
<1> USE DEF IndInv, TypeOK, ProgramInv
<1>1. CASE Sample
  BY <1>1 DEF Sample, Seen
<1>2. CASE Write
  BY <1>2 DEF Write, Last
<1>3. CASE IntrRead
  BY <1>3 DEF IntrRead
<1>4. CASE IntrClear
  BY <1>4 DEF IntrClear, LatchedAfterClear
<1>5. ASSUME NEW i \in Switch, HandleSwitch(i)
      PROVE  ProgramInv'
  BY <1>5 DEF HandleSwitch
<1>6. CASE HandleButton
  BY <1>6 DEF HandleButton, ButtonJob, Seen
<1>7. CASE HandleUnknown
  BY <1>7 DEF HandleUnknown
<1>8. CASE SetIntrType
  BY <1>8 DEF SetIntrType
<1>9. CASE IntrEnable
  BY <1>9 DEF IntrEnable
<1>10. CASE SetupFails
  BY <1>10 DEF SetupFails
<1>11. ASSUME NEW p \in Pin, Toggle(p)
      PROVE  ProgramInv'
  BY <1>11 DEF Toggle
<1>12. CASE UNCHANGED vars
  BY <1>12 DEF vars
<1> QED
  BY <1>1, <1>2, <1>3, <1>4, <1>5, <1>6, <1>7, <1>8, <1>9, <1>10, <1>11, <1>12
  DEF Next, Cpu

LEMMA SwitchPreserved == IndInv /\ [Next]_vars => SwitchInv'
<1> SUFFICES ASSUME IndInv, [Next]_vars PROVE SwitchInv'
  OBVIOUS
<1> USE DEF IndInv, TypeOK, ProgramInv, SwitchInv, Missed, Waiting, ToBeSampled,
           ToBeWritten, Right
<1>1. CASE Sample
  BY <1>1 DEF Sample, Seen
<1>2. CASE Write
  <2> SUFFICES ASSUME NEW i \in Switch
               PROVE  (\/ i \in Missed
                       \/ Waiting(i)
                       \/ IF ToBeWritten(i) THEN value = level[i]
                          ELSE ToBeSampled(i) \/ Right(i))'
    BY DEF SwitchInv
  <2>1. /\ k \in 0 .. N - 1 /\ i \in 0 .. N - 1
        /\ ledPin'[i] = IF i = k THEN value ELSE ledPin[i]
    BY <1>2 DEF Write
  <2>2. CASE i = k
    BY <2>1, <2>2, <1>2 DEF Write
  <2>3. CASE i # k /\ ToBeSampled(i)
    <3>1. job = "mirror" /\ k < i /\ ~Last
      BY <2>1, <2>3, <1>2 DEF Write, Last
    <3>2. pc' = "sample" /\ job' = "mirror" /\ k' = k + 1
      BY <3>1, <1>2 DEF Write
    <3> QED
      BY <2>1, <3>1, <3>2
  <2>4. CASE i # k /\ ~ToBeSampled(i)
    BY <2>1, <2>4, <1>2 DEF Write
  <2> QED
    BY <2>2, <2>3, <2>4
<1>3. CASE IntrRead
  BY <1>3 DEF IntrRead
<1>4. CASE IntrClear
  BY <1>4 DEF IntrClear, LatchedAfterClear
<1>5. ASSUME NEW i \in Switch, HandleSwitch(i)
      PROVE  SwitchInv'
  BY <1>5 DEF HandleSwitch
<1>6. CASE HandleButton
  BY <1>6 DEF HandleButton, ButtonJob, Seen
<1>7. CASE HandleUnknown
  BY <1>7 DEF HandleUnknown
<1>8. CASE SetIntrType
  BY <1>8 DEF SetIntrType
<1>9. CASE IntrEnable
  BY <1>9 DEF IntrEnable
<1>10. CASE SetupFails
  BY <1>10 DEF SetupFails
<1>11. ASSUME NEW p \in Pin, Toggle(p)
      PROVE  SwitchInv'
  BY <1>11 DEF Toggle
<1>12. CASE UNCHANGED vars
  BY <1>12 DEF vars
<1> QED
  BY <1>1, <1>2, <1>3, <1>4, <1>5, <1>6, <1>7, <1>8, <1>9, <1>10, <1>11, <1>12
  DEF Next, Cpu

LEMMA ButtonPreserved == IndInv /\ [Next]_vars => ButtonInv'
<1> SUFFICES ASSUME IndInv, [Next]_vars PROVE ButtonInv'
  OBVIOUS
<1> USE DEF IndInv, TypeOK, ProgramInv, ButtonInv, Missed, Waiting
<1>1. CASE Sample
  BY <1>1 DEF Sample, Seen
<1>2. CASE Write
  BY <1>2 DEF Write, Last
<1>3. CASE IntrRead
  BY <1>3 DEF IntrRead
<1>4. CASE IntrClear
  BY <1>4 DEF IntrClear, LatchedAfterClear
<1>5. ASSUME NEW i \in Switch, HandleSwitch(i)
      PROVE  ButtonInv'
  BY <1>5 DEF HandleSwitch
<1>6. CASE HandleButton
  BY <1>6 DEF HandleButton, ButtonJob, Seen
<1>7. CASE HandleUnknown
  BY <1>7 DEF HandleUnknown
<1>8. CASE SetIntrType
  BY <1>8 DEF SetIntrType
<1>9. CASE IntrEnable
  BY <1>9 DEF IntrEnable
<1>10. CASE SetupFails
  BY <1>10 DEF SetupFails
<1>11. ASSUME NEW p \in Pin, Toggle(p)
      PROVE  ButtonInv'
  BY <1>11 DEF Toggle
<1>12. CASE UNCHANGED vars
  BY <1>12 DEF vars
<1> QED
  BY <1>1, <1>2, <1>3, <1>4, <1>5, <1>6, <1>7, <1>8, <1>9, <1>10, <1>11, <1>12
  DEF Next, Cpu

-----------------------------------------------------------------------------
\* The strengthened invariant holds in every reachable state.
THEOREM Inductive == Spec => []IndInv
<1>1. IndInv /\ [Next]_vars => IndInv'
  BY TypePreserved, ProgramPreserved, SwitchPreserved, ButtonPreserved
  DEF IndInv
<1> QED
  BY <1>1, InitIndInv, PTL DEF Spec

\* Types, for any number of switches; the LED at hand is always one of them.
THEOREM TypeCorrect == Spec => []TypeOK
<1>1. IndInv => TypeOK
  BY DEF IndInv
<1>2. QED
  BY <1>1, Inductive, PTL

\* Whatever the number of switches, an interrupt that is served leaves no LED
\* wrong: only pins dropped by the handler or unseen during the boot can be.
THEOREM RightAtRest == Spec => []LedsRightAtRest
<1>1. IndInv => LedsRightAtRest
  BY DEF IndInv, TypeOK, SwitchInv, ButtonInv, LedsRightAtRest, AtRest,
         Waiting, ToBeSampled, ToBeWritten
<1> QED
  BY <1>1, Inductive, PTL
=============================================================================
