-------------------------- MODULE FlashStartProofs --------------------------
(***************************************************************************)
(* Proofs about FactoryLog and FlashStart, for every set of logs and every *)
(* limit of size.  FactoryLog's inductive invariant follows the log on its *)
(* way from the flash through the buffer and the file system's cache to    *)
(* the file.  FlashStart adds, for each make of chip, what qspi_setup has  *)
(* achieved when it has come to a transfer.                                *)
(***************************************************************************)
EXTENDS FlashStart, TLAPS

-----------------------------------------------------------------------------
(* The page.                                                               *)

\* Where the log, or the sentence, has got to.
OnItsWay ==
  /\ pc \in {"setup", "mount", "create", "size", "log", "sentence"} => ~retrieved
  /\ FileOpen => file = Nothing
  /\ pc = "sentence" /\ ~misread => failed \/ size \notin 1 .. MAX_LOGFILE_SIZE
  /\ pc = "write" /\ ~misread => LogfileBuffer \in Found
  /\ pc = "close" /\ ~misread => cached \in Found \union {Part}
  /\ pc \in {"list", "serve"} /\ ~misread =>
       file \in Found \union {Part, Nothing}

Inv == TypeOK /\ OnItsWay

\* At the first start nothing is under way.
LEMMA InvInit == Init => Inv
BY SizeAssumption DEF Init, Inv, TypeOK, OnItsWay, Content, FileOpen

\* Every step of main_thread, and every loss of power, keeps the invariant.
LEMMA InvNext == Inv /\ [Next]_vars => Inv'
<1> SUFFICES ASSUME Inv, [Next]_vars PROVE Inv'
  OBVIOUS
<1> USE DEF Inv, Goto
<1>0. CASE SetUp
  <2>1. TypeOK'
    BY <1>0 DEF TypeOK, SetUp, flash, history
  <2>2. OnItsWay'
    BY <1>0 DEF OnItsWay, SetUp, FileOpen, history
  <2> QED BY <2>1, <2>2
<1>1. CASE Mount
  <2>1. TypeOK'
    BY <1>1 DEF TypeOK, Mount, flash, history
  <2>2. OnItsWay'
    BY <1>1 DEF OnItsWay, Mount, FileOpen, history
  <2> QED BY <2>1, <2>2
<1>2. CASE Create
  <2>1. TypeOK'
    BY <1>2 DEF TypeOK, Create, Created, Content, flash, history
  <2>2. OnItsWay'
    BY <1>2 DEF OnItsWay, Create, Created, FileOpen, history
  <2> QED BY <2>1, <2>2
<1>3. CASE ReadSize
  <2>1. pc' = "log" => logfile_size' \in 1 .. MAX_LOGFILE_SIZE
    BY <1>3, SizeAssumption DEF TypeOK, ReadSize, ValidSize
  <2>2. TypeOK'
    BY <1>3, <2>1 DEF TypeOK, ReadSize, Gives, flash, history
  <2>3. pc' = "sentence" /\ ~misread' =>
          failed' \/ size' \notin 1 .. MAX_LOGFILE_SIZE
    BY <1>3, SizeAssumption DEF TypeOK, ReadSize, ValidSize, Gives, flash
  <2>4. OnItsWay'
    BY <1>3, <2>3 DEF OnItsWay, ReadSize, FileOpen, history
  <2> QED BY <2>2, <2>4
<1>4. CASE ReadLog
  <2>1. TypeOK'
    BY <1>4 DEF TypeOK, ReadLog, Gives, Content, flash, history
  <2>2. OnItsWay'
    BY <1>4 DEF OnItsWay, ReadLog, Gives, Found, FileOpen, flash, history
  <2> QED BY <2>1, <2>2
<1>5. CASE PutSentence
  <2>1. TypeOK'
    BY <1>5 DEF TypeOK, PutSentence, Content, flash, history
  <2>2. OnItsWay'
    BY <1>5 DEF OnItsWay, PutSentence, Found, FileOpen, flash, history
  <2> QED BY <2>1, <2>2
<1>6. CASE Write
  <2>1. TypeOK'
    BY <1>6 DEF TypeOK, Write, Content, flash, history
  <2>2. OnItsWay'
    BY <1>6 DEF OnItsWay, Write, Found, FileOpen, flash, history
  <2> QED BY <2>1, <2>2
<1>7. CASE Close
  <2>1. TypeOK'
    BY <1>7 DEF TypeOK, Close, flash, history
  <2>2. OnItsWay'
    BY <1>7 DEF OnItsWay, Close, Found, FileOpen, flash, history
  <2> QED BY <2>1, <2>2
<1>8. CASE List
  <2>1. TypeOK'
    BY <1>8 DEF TypeOK, List, flash, history
  <2>2. OnItsWay'
    BY <1>8 DEF OnItsWay, List, Found, FileOpen, flash, history
  <2> QED BY <2>1, <2>2
<1>9. CASE PowerCycle
  <2>1. TypeOK'
    BY <1>9 DEF TypeOK, PowerCycle, Content, flash
  <2>2. OnItsWay'
    BY <1>9 DEF OnItsWay, PowerCycle, FileOpen, history
  <2> QED BY <2>1, <2>2
<1>10. CASE Programmed
  <2>1. TypeOK'
    BY <1>10 DEF TypeOK, Programmed, history
  <2>2. OnItsWay'
    BY <1>10 DEF OnItsWay, Programmed, FileOpen, history
  <2> QED BY <2>1, <2>2
<1>11. CASE UNCHANGED vars
  BY <1>11 DEF TypeOK, OnItsWay, Found, FileOpen, vars, flash, history
<1> QED
  BY <1>0, <1>1, <1>2, <1>3, <1>4, <1>5, <1>6, <1>7, <1>8, <1>9, <1>10,
     <1>11
  DEF Next, InitFs

\* The invariant holds in every reachable state.
THEOREM Inductive == Spec => []Inv
BY InvInit, InvNext, PTL DEF Spec

\* Types; a log that qspi_retrieve_logfile reads fits into its buffer.
THEOREM TypeCorrect == Spec => []TypeOK
<1>1. Inv => TypeOK
  BY DEF Inv
<1> QED BY <1>1, Inductive, PTL

\* The page that is served is never that of an earlier start, and denies the
\* log only when there is none or a read failed.
THEOREM NeverStale == Spec => []FreshLog
<1>1. Inv => FreshLog
  BY DEF Inv, OnItsWay, FreshLog
<1> QED BY <1>1, Inductive, PTL

-----------------------------------------------------------------------------
(* The chip.                                                               *)

\* The transfer that comes next, counted on beyond the last one.
pos == IF setup = "ok" THEN at + 1 ELSE at

\* What holds of all chips: one that is busy had been enabled, the other makes
\* take no time to write a register, and some are never enabled.
Common ==
  /\ busy => wel
  /\ busy => S!Is({"ISSI", "WINBOND"})
  /\ S!Is({"SPANSION"}) /\ ~part.low => ~wel
  /\ S!Is({"MICRON"}) /\ ~part.big => ~wel
  /\ S!Is({"MACRONIX"}) => ~wel

\* What holds of the chips of one make as the set-up goes on.
Spansion ==
  /\ part.low /\ pos = 4 => wel
  /\ part.low /\ pos > 4 => ~wel /\ quad
  /\ part.big /\ setup = "ok" => addr4

Micron ==
  /\ pos = 3 => wel
  /\ part.big /\ pos > 3 => addr4
  /\ pos = 6 => ~wel

Macronix == pos > 2 => addr4

Winbond ==
  /\ pos = 4 => busy \/ wel \/ quad
  /\ pos = 5 => (wel => busy) /\ (busy \/ quad)
  /\ pos > 5 => ~busy /\ ~wel /\ quad
  /\ pos > 7 => addr4

Issi ==
  /\ pos = 4 => busy \/ wel \/ quad
  /\ pos > 4 => busy \/ quad
  /\ pos \in {5, 6} => (wel => busy)
  /\ pos = 7 => missed \/ (wel /\ ~busy)
  /\ pos > 7 => missed \/ addr4
  /\ pos > 8 => ~busy
  /\ pos = 10 => ~wel

Achieved ==
  setup # "failed" =>
    /\ S!Is({"SPANSION"}) => Spansion
    /\ S!Is({"MICRON"})   => Micron
    /\ S!Is({"MACRONIX"}) => Macronix
    /\ S!Is({"WINBOND"})  => Winbond
    /\ S!Is({"ISSI"})     => Issi

\* A set-up has succeeded when all was sent.
Complete == setup = "ok" => at = Len(S!program)

ChipInv == S!TypeOK /\ Common /\ Achieved /\ Complete

\* main_thread waits for qspi_setup, and the flash gives anything else than it
\* holds only after a set-up that failed, or to an ISSI chip.
Waits == pc # "setup" => setup # "running"
Trusted ==
  /\ pc = "setup" => ~misread
  /\ setup = "ok" /\ misread => S!Is({"ISSI"})

StartInv == Inv /\ ChipInv /\ Waits /\ Trusted

\* The makes.
LEMMA Makes ==
  ASSUME part \in S!Parts
  PROVE  /\ part.make \in {"SPANSION", "MICRON", "MACRONIX", "WINBOND", "ISSI"}
         /\ part.big \in BOOLEAN /\ part.low \in BOOLEAN
         /\ part.make = "SPANSION" => part.low \/ part.big
         /\ part.make = "MACRONIX" => part.big
         /\ part.low => part.make = "SPANSION"
<1>1. CASE part \in { [make |-> "SPANSION", big |-> FALSE, low |-> TRUE],
                     [make |-> "SPANSION", big |-> TRUE,  low |-> TRUE],
                     [make |-> "SPANSION", big |-> TRUE,  low |-> FALSE] }
  <2>1. CASE part = [make |-> "SPANSION", big |-> FALSE, low |-> TRUE]
    BY <2>1
  <2>2. CASE part = [make |-> "SPANSION", big |-> TRUE, low |-> TRUE]
    BY <2>2
  <2>3. CASE part = [make |-> "SPANSION", big |-> TRUE, low |-> FALSE]
    BY <2>3
  <2> QED BY <1>1, <2>1, <2>2, <2>3
<1>2. CASE part \in [make : {"MICRON", "WINBOND", "ISSI"}, big : BOOLEAN, low : {FALSE}]
  <2>1. part.make \in {"MICRON", "WINBOND", "ISSI"}
    BY <1>2
  <2>2. part.big \in BOOLEAN /\ part.low \in {FALSE}
    BY <1>2
  <2> QED BY <2>1, <2>2
<1>3. CASE part \in [make : {"MACRONIX"}, big : {TRUE}, low : {FALSE}]
  BY <1>3
<1> QED BY <1>1, <1>2, <1>3 DEF S!Parts

\* What is sent to the chips of each make, transfer by transfer.
LEMMA SpansionProgram ==
  ASSUME part \in S!Parts, S!Is({"SPANSION"})
  PROVE  /\ S!program[1] = "id"
         /\ part.low =>
              /\ Len(S!program) = IF part.big THEN 6 ELSE 5
              /\ S!program[2] = "read" /\ S!program[3] = "enable"
              /\ S!program[4] = "write" /\ S!program[5] = "readback"
              /\ part.big => S!program[6] = "bank"
         /\ ~part.low =>
              /\ Len(S!program) = 3
              /\ S!program[2] = "unset" /\ S!program[3] = "bank"
<1>1. part.make = "SPANSION"
  BY DEF S!Is
<1>2. S!FourByteSteps = <<"bank">>
  BY <1>1 DEF S!FourByteSteps, S!Is
<1>3. CASE part.low
  <2>1. S!QuadSteps = <<"read", "enable", "write", "readback">>
    BY <1>1, <1>3 DEF S!QuadSteps, S!Is
  <2> QED BY <1>2, <1>3, <2>1, Makes DEF S!program
<1>4. CASE ~part.low
  <2>1. S!QuadSteps = <<"unset">>
    BY <1>1, <1>4 DEF S!QuadSteps, S!Is
  <2> QED BY <1>1, <1>2, <1>4, <2>1, Makes DEF S!program
<1> QED BY <1>3, <1>4

LEMMA MicronProgram ==
  ASSUME part \in S!Parts, S!Is({"MICRON"})
  PROVE  /\ Len(S!program) = IF part.big THEN 5 ELSE 1
         /\ S!program[1] = "id"
         /\ part.big =>
              /\ S!program[2] = "enable" /\ S!program[3] = "enter"
              /\ S!program[4] = "poll" /\ S!program[5] = "disable"
<1>1. part.make = "MICRON"
  BY DEF S!Is
<1>2. S!FourByteSteps = <<"enable", "enter", "poll", "disable">>
  BY <1>1 DEF S!FourByteSteps, S!Is
<1>3. S!QuadSteps = << >>
  BY <1>1 DEF S!QuadSteps, S!Is
<1> QED BY <1>2, <1>3, Makes DEF S!program

LEMMA MacronixProgram ==
  ASSUME part \in S!Parts, S!Is({"MACRONIX"})
  PROVE  /\ Len(S!program) = 3
         /\ S!program[1] = "id" /\ S!program[2] = "enter" /\ S!program[3] = "poll"
<1>1. part.make = "MACRONIX"
  BY DEF S!Is
<1>2. S!FourByteSteps = <<"enter", "poll">>
  BY <1>1 DEF S!FourByteSteps, S!Is
<1>3. S!QuadSteps = << >>
  BY <1>1 DEF S!QuadSteps, S!Is
<1> QED BY <1>1, <1>2, <1>3, Makes DEF S!program

LEMMA WinbondProgram ==
  ASSUME part \in S!Parts, S!Is({"WINBOND"})
  PROVE  /\ Len(S!program) = IF part.big THEN 8 ELSE 6
         /\ S!program[1] = "id" /\ S!program[2] = "read"
         /\ S!program[3] = "enable" /\ S!program[4] = "write"
         /\ S!program[5] = "poll" /\ S!program[6] = "disable+"
         /\ part.big => S!program[7] = "enter" /\ S!program[8] = "poll"
<1>1. part.make = "WINBOND"
  BY DEF S!Is
<1>2. S!FourByteSteps = <<"enter", "poll">>
  BY <1>1 DEF S!FourByteSteps, S!Is
<1>3. S!QuadSteps = <<"read", "enable", "write", "poll", "disable+">>
  BY <1>1 DEF S!QuadSteps, S!Is
<1> QED BY <1>2, <1>3, Makes DEF S!program

LEMMA IssiProgram ==
  ASSUME part \in S!Parts, S!Is({"ISSI"})
  PROVE  /\ Len(S!program) = IF part.big THEN 9 ELSE 5
         /\ Len(S!QuadSteps) = 4
         /\ S!program[1] = "id" /\ S!program[2] = "read"
         /\ S!program[3] = "enable" /\ S!program[4] = "write"
         /\ S!program[5] = "disable+"
         /\ part.big =>
              /\ S!program[6] = "enable" /\ S!program[7] = "enter"
              /\ S!program[8] = "poll" /\ S!program[9] = "disable"
<1>1. part.make = "ISSI"
  BY DEF S!Is
<1>2. S!FourByteSteps = <<"enable", "enter", "poll", "disable">>
  BY <1>1 DEF S!FourByteSteps, S!Is
<1>3. S!QuadSteps = <<"read", "enable", "write", "disable+">>
  BY <1>1 DEF S!QuadSteps, S!Is
<1> QED BY <1>2, <1>3, Makes DEF S!program

\* The program has transfers.
LEMMA Lengths == ASSUME part \in S!Parts PROVE Len(S!program) \in 1 .. 9
<1>1. CASE S!Is({"SPANSION"})
  BY <1>1, SpansionProgram, Makes
<1>2. CASE S!Is({"MICRON"})
  BY <1>2, MicronProgram, Makes
<1>3. CASE S!Is({"MACRONIX"})
  BY <1>3, MacronixProgram
<1>4. CASE S!Is({"WINBOND"})
  BY <1>4, WinbondProgram, Makes
<1>5. CASE S!Is({"ISSI"})
  BY <1>5, IssiProgram, Makes
<1> QED BY <1>1, <1>2, <1>3, <1>4, <1>5, Makes DEF S!Is

\* Which transfer it is tells where the set-up is.
LEMMA SpansionAt ==
  ASSUME part \in S!Parts, S!Is({"SPANSION"}), at \in 1 .. Len(S!program)
  PROVE  /\ S!program[at] = "id" => at = 1
         /\ S!program[at] = "read" => at = 2
         /\ S!program[at] = "unset" => at = 2
         /\ S!program[at] = "enable" => at = 3
         /\ S!program[at] = "write" => at = 4
         /\ S!program[at] = "readback" => at = 5
         /\ S!program[at] = "bank" => at \in {3, 6}
         /\ S!program[at] \notin {"disable+", "disable", "enter", "poll"}
         /\ S!program[at] \in {"read", "enable", "write", "readback"} => part.low
         /\ S!program[at] = "unset" => ~part.low
         /\ S!program[at] = "bank" => part.big
<1>1. part.big \in BOOLEAN /\ part.low \in BOOLEAN /\ (part.low \/ part.big)
  BY Makes DEF S!Is
<1>2. CASE part.low /\ part.big
  <2>1. at \in 1 .. 6
    BY <1>2, SpansionProgram
  <2>2. at = 1 \/ at = 2 \/ at = 3 \/ at = 4 \/ at = 5 \/ at = 6
    BY <2>1
  <2> QED BY <1>2, <2>2, SpansionProgram
<1>3. CASE part.low /\ ~part.big
  <2>1. at \in 1 .. 5
    BY <1>3, SpansionProgram
  <2>2. at = 1 \/ at = 2 \/ at = 3 \/ at = 4 \/ at = 5
    BY <2>1
  <2> QED BY <1>3, <2>2, SpansionProgram
<1>4. CASE ~part.low
  <2>1. at \in 1 .. 3
    BY <1>1, <1>4, SpansionProgram
  <2>2. at = 1 \/ at = 2 \/ at = 3
    BY <2>1
  <2> QED BY <1>1, <1>4, <2>2, SpansionProgram
<1> QED BY <1>1, <1>2, <1>3, <1>4

LEMMA MicronAt ==
  ASSUME part \in S!Parts, S!Is({"MICRON"}), at \in 1 .. Len(S!program)
  PROVE  /\ S!program[at] = "id" => at = 1
         /\ S!program[at] = "enable" => at = 2
         /\ S!program[at] = "enter" => at = 3
         /\ S!program[at] = "poll" => at = 4
         /\ S!program[at] = "disable" => at = 5
         /\ S!program[at] \notin {"read", "unset", "write", "readback", "disable+", "bank"}
         /\ at > 1 => part.big
<1>1. part.big \in BOOLEAN
  BY Makes
<1>2. CASE part.big
  <2>1. at \in 1 .. 5
    BY <1>2, MicronProgram
  <2>2. at = 1 \/ at = 2 \/ at = 3 \/ at = 4 \/ at = 5
    BY <2>1
  <2> QED BY <1>2, <2>2, MicronProgram
<1>3. CASE ~part.big
  <2>1. at \in 1 .. 1
    BY <1>3, MicronProgram
  <2>2. at = 1
    BY <2>1
  <2> QED BY <1>3, <2>2, MicronProgram
<1> QED BY <1>1, <1>2, <1>3

LEMMA MacronixAt ==
  ASSUME part \in S!Parts, S!Is({"MACRONIX"}), at \in 1 .. Len(S!program)
  PROVE  /\ S!program[at] = "id" => at = 1
         /\ S!program[at] = "enter" => at = 2
         /\ S!program[at] = "poll" => at = 3
         /\ S!program[at] \notin {"read", "unset", "enable", "write", "readback", "disable+", "disable", "bank"}
<1>1. at = 1 \/ at = 2 \/ at = 3
  BY MacronixProgram, Makes
<1> QED BY <1>1, MacronixProgram, Makes

LEMMA WinbondAt ==
  ASSUME part \in S!Parts, S!Is({"WINBOND"}), at \in 1 .. Len(S!program)
  PROVE  /\ S!program[at] = "id" => at = 1
         /\ S!program[at] = "read" => at = 2
         /\ S!program[at] = "enable" => at = 3
         /\ S!program[at] = "write" => at = 4
         /\ S!program[at] = "disable+" => at = 6
         /\ S!program[at] = "enter" => at = 7
         /\ S!program[at] = "poll" => at \in {5, 8}
         /\ S!program[at] \notin {"unset", "readback", "disable", "bank"}
         /\ at > 6 => part.big
<1>1. part.big \in BOOLEAN
  BY Makes
<1>2. CASE part.big
  <2>1. at \in 1 .. 8
    BY <1>2, WinbondProgram
  <2>2. at = 1 \/ at = 2 \/ at = 3 \/ at = 4 \/ at = 5
        \/ at = 6 \/ at = 7 \/ at = 8
    BY <2>1
  <2> QED BY <1>2, <2>2, WinbondProgram
<1>3. CASE ~part.big
  <2>1. at \in 1 .. 6
    BY <1>3, WinbondProgram
  <2>2. at = 1 \/ at = 2 \/ at = 3 \/ at = 4 \/ at = 5 \/ at = 6
    BY <2>1
  <2> QED BY <1>3, <2>2, WinbondProgram
<1> QED BY <1>1, <1>2, <1>3

LEMMA IssiAt ==
  ASSUME part \in S!Parts, S!Is({"ISSI"}), at \in 1 .. Len(S!program)
  PROVE  /\ S!program[at] = "id" => at = 1
         /\ S!program[at] = "read" => at = 2
         /\ S!program[at] = "write" => at = 4
         /\ S!program[at] = "disable+" => at = 5
         /\ S!program[at] = "enter" => at = 7
         /\ S!program[at] = "poll" => at = 8
         /\ S!program[at] = "disable" => at = 9
         /\ S!program[at] = "enable" => at \in {3, 6}
         /\ S!program[at] \notin {"unset", "readback", "bank"}
         /\ at > 5 => part.big
<1>1. part.big \in BOOLEAN
  BY Makes
<1>2. CASE part.big
  <2>1. at \in 1 .. 9
    BY <1>2, IssiProgram
  <2>2. at = 1 \/ at = 2 \/ at = 3 \/ at = 4 \/ at = 5
        \/ at = 6 \/ at = 7 \/ at = 8 \/ at = 9
    BY <2>1
  <2> QED BY <1>2, <2>2, IssiProgram
<1>3. CASE ~part.big
  <2>1. at \in 1 .. 5
    BY <1>3, IssiProgram
  <2>2. at = 1 \/ at = 2 \/ at = 3 \/ at = 4 \/ at = 5
    BY <2>1
  <2> QED BY <1>3, <2>2, IssiProgram
<1> QED BY <1>1, <1>2, <1>3

\* The address mode is changed for a big chip only.
LEMMA OnlyBig ==
  ASSUME part \in S!Parts, at \in 1 .. Len(S!program),
         S!program[at] \in {"enter", "bank"}
  PROVE  part.big
<1>1. CASE S!Is({"SPANSION"})
  BY <1>1, SpansionAt
<1>2. CASE S!Is({"MICRON"})
  BY <1>2, MicronAt
<1>3. CASE S!Is({"MACRONIX"})
  BY <1>3, Makes DEF S!Is
<1>4. CASE S!Is({"WINBOND"})
  BY <1>4, WinbondAt
<1>5. CASE S!Is({"ISSI"})
  BY <1>5, IssiAt
<1> QED BY <1>1, <1>2, <1>3, <1>4, <1>5, Makes DEF S!Is

\* The program is that of the chip, which nobody exchanges.
LEMMA SameProgram ==
  ASSUME part' = part
  PROVE  S!program' = S!program /\ S!QuadSteps' = S!QuadSteps
BY DEF S!program, S!QuadSteps, S!FourByteSteps, S!Is

\* A transfer that is done leads to the next one, or ends the set-up.
LEMMA Sends ==
  ASSUME S!TypeOK, NEW steps, S!Sent(steps)
  PROVE  /\ part' = part /\ at \in 1 .. Len(S!program)
         /\ S!program[at] \in steps
         /\ pos = at /\ pos' = at + 1
         /\ setup = "running" /\ setup' \in {"running", "ok"}
         /\ setup' = "ok" => at = Len(S!program)
         /\ at' \in 1 .. Len(S!program')
<1>1. part' = part /\ S!program' = S!program
  BY SameProgram DEF S!Sent
<1>2. Len(S!program) \in Nat /\ at \in 1 .. Len(S!program)
  BY Lengths DEF S!TypeOK
<1> QED BY <1>1, <1>2 DEF S!Sent, S!Last, pos

\* Types are kept by every transfer.
LEMMA SetupTypes == ASSUME S!TypeOK, Common, S!Setup PROVE S!TypeOK'
<1> USE DEF S!TypeOK
<1>1. CASE S!ReadRegister
  BY <1>1, Sends DEF S!ReadRegister, S!chip
<1>2. CASE S!WriteEnable
  <2>1. missed' \in BOOLEAN
    BY <1>2, Zenon DEF S!WriteEnable
  <2> QED BY <1>2, <2>1, Sends DEF S!WriteEnable
<1>3. CASE S!WriteRegister
  BY <1>3, Sends DEF S!WriteRegister
<1>4. CASE S!ReadBack
  <2>1. CASE S!Sent({"readback"})
    BY <1>4, <2>1, Sends DEF S!ReadBack, S!chip
  <2>2. CASE S!Failed
    BY <1>4, <2>2, SameProgram DEF S!ReadBack, S!Failed, S!chip
  <2> QED BY <1>4, <2>1, <2>2 DEF S!ReadBack
<1>5. CASE S!WriteDisable
  <2>1. S!Sent({"disable", "disable+"}) \/ S!Sent({"disable+"})
    BY <1>5 DEF S!WriteDisable
  <2> QED BY <1>5, <2>1, Sends DEF S!WriteDisable
<1>6. CASE S!Enter4B
  <2>1. part.big = TRUE /\ part' = part
    BY <1>6, Sends, OnlyBig, Makes DEF S!Enter4B
  <2>2. addr4' \in BOOLEAN /\ missed' \in BOOLEAN
    BY <1>6, Zenon DEF S!Enter4B
  <2> QED BY <1>6, <2>1, <2>2, Sends DEF S!Enter4B
<1>7. CASE S!WriteBank
  <2>1. part.big = TRUE /\ part' = part
    BY <1>7, Sends, OnlyBig, Makes DEF S!WriteBank
  <2> QED BY <1>7, <2>1, Sends DEF S!WriteBank
<1>8. CASE S!PollReady
  BY <1>8, Sends DEF S!PollReady, S!chip
<1> QED BY <1>1, <1>2, <1>3, <1>4, <1>5, <1>6, <1>7, <1>8 DEF S!Setup

\* A transfer belongs to a set-up under way.
LEMMA Running == ASSUME S!Setup PROVE part' = part /\ setup = "running"
<1>1. (\E steps : S!Sent(steps)) \/ S!Failed
  BY DEF S!Setup, S!ReadRegister, S!WriteEnable, S!WriteRegister, S!ReadBack,
         S!WriteDisable, S!Enter4B, S!WriteBank, S!PollReady
<1> QED BY <1>1 DEF S!Sent, S!Failed

\* Each make's share of the invariant is kept by every transfer.
LEMMA SpansionKeeps ==
  ASSUME ChipInv, S!Setup, S!Is({"SPANSION"})
  PROVE  Common' /\ Achieved'
<1>1. /\ part \in S!Parts /\ part.make = "SPANSION" /\ S!TypeOK
      /\ wel \in BOOLEAN /\ busy \in BOOLEAN /\ quad \in BOOLEAN
      /\ addr4 \in BOOLEAN /\ missed \in BOOLEAN
  BY Makes DEF ChipInv, S!TypeOK, S!Is
<1>2. part' = part /\ setup = "running"
  BY Running
<1>3. Spansion /\ Common
  BY <1>1, <1>2 DEF ChipInv, Achieved, S!Is
<1>4. SUFFICES Common' /\ (setup' # "failed" => Spansion')
  BY <1>1, <1>2 DEF Achieved, S!Is
<1> USE <1>1, <1>2, <1>3, SpansionAt, Sends, SpansionProgram, Makes DEF Common, Spansion, S!Is
<1>11. CASE S!ReadRegister
  BY <1>11 DEF S!ReadRegister, S!chip
<1>12. CASE S!WriteEnable
  BY <1>12 DEF S!WriteEnable
<1>13. CASE S!WriteRegister
  BY <1>13 DEF S!WriteRegister
<1>14. CASE S!ReadBack
  <2>1. CASE S!Sent({"readback"})
    BY <1>14, <2>1 DEF S!ReadBack, S!chip
  <2>2. CASE S!Failed
    BY <1>14, <2>2 DEF S!ReadBack, S!Failed, S!chip
  <2> QED BY <1>14, <2>1, <2>2 DEF S!ReadBack
<1>15. CASE S!WriteDisable
  <2>1. CASE S!Sent({"disable", "disable+"}) /\ wel' = (wel /\ busy)
    BY <1>15, <2>1 DEF S!WriteDisable
  <2>2. CASE S!Sent({"disable+"}) /\ UNCHANGED wel
    BY <1>15, <2>2 DEF S!WriteDisable
  <2> QED BY <1>15, <2>1, <2>2 DEF S!WriteDisable
<1>16. CASE S!Enter4B
  BY <1>16 DEF S!Enter4B
<1>17. CASE S!WriteBank
  BY <1>17 DEF S!WriteBank
<1>18. CASE S!PollReady
  BY <1>18 DEF S!PollReady, S!chip, S!StatusReady
<1> QED BY <1>11, <1>12, <1>13, <1>14, <1>15, <1>16, <1>17, <1>18 DEF S!Setup

LEMMA MicronKeeps ==
  ASSUME ChipInv, S!Setup, S!Is({"MICRON"})
  PROVE  Common' /\ Achieved'
<1>1. /\ part \in S!Parts /\ part.make = "MICRON" /\ S!TypeOK
      /\ wel \in BOOLEAN /\ busy \in BOOLEAN /\ quad \in BOOLEAN
      /\ addr4 \in BOOLEAN /\ missed \in BOOLEAN
  BY Makes DEF ChipInv, S!TypeOK, S!Is
<1>2. part' = part /\ setup = "running"
  BY Running
<1>3. Micron /\ Common
  BY <1>1, <1>2 DEF ChipInv, Achieved, S!Is
<1>4. SUFFICES Common' /\ (setup' # "failed" => Micron')
  BY <1>1, <1>2 DEF Achieved, S!Is
<1> USE <1>1, <1>2, <1>3, MicronAt, Sends, Makes DEF Common, Micron, S!Is
<1>11. CASE S!ReadRegister
  BY <1>11 DEF S!ReadRegister, S!chip
<1>12. CASE S!WriteEnable
  BY <1>12 DEF S!WriteEnable
<1>13. CASE S!WriteRegister
  BY <1>13 DEF S!WriteRegister
<1>14. CASE S!ReadBack
  <2>1. CASE S!Sent({"readback"})
    BY <1>14, <2>1 DEF S!ReadBack, S!chip
  <2>2. CASE S!Failed
    BY <1>14, <2>2 DEF S!ReadBack, S!Failed, S!chip
  <2> QED BY <1>14, <2>1, <2>2 DEF S!ReadBack
<1>15. CASE S!WriteDisable
  <2>1. CASE S!Sent({"disable", "disable+"}) /\ wel' = (wel /\ busy)
    BY <1>15, <2>1 DEF S!WriteDisable
  <2>2. CASE S!Sent({"disable+"}) /\ UNCHANGED wel
    BY <1>15, <2>2 DEF S!WriteDisable
  <2> QED BY <1>15, <2>1, <2>2 DEF S!WriteDisable
<1>16. CASE S!Enter4B
  BY <1>16 DEF S!Enter4B
<1>17. CASE S!WriteBank
  BY <1>17 DEF S!WriteBank
<1>18. CASE S!PollReady
  BY <1>18 DEF S!PollReady, S!chip, S!StatusReady
<1> QED BY <1>11, <1>12, <1>13, <1>14, <1>15, <1>16, <1>17, <1>18 DEF S!Setup

LEMMA MacronixKeeps ==
  ASSUME ChipInv, S!Setup, S!Is({"MACRONIX"})
  PROVE  Common' /\ Achieved'
<1>1. /\ part \in S!Parts /\ part.make = "MACRONIX" /\ S!TypeOK
      /\ wel \in BOOLEAN /\ busy \in BOOLEAN /\ quad \in BOOLEAN
      /\ addr4 \in BOOLEAN /\ missed \in BOOLEAN
  BY Makes DEF ChipInv, S!TypeOK, S!Is
<1>2. part' = part /\ setup = "running"
  BY Running
<1>3. Macronix /\ Common
  BY <1>1, <1>2 DEF ChipInv, Achieved, S!Is
<1>4. SUFFICES Common' /\ (setup' # "failed" => Macronix')
  BY <1>1, <1>2 DEF Achieved, S!Is
<1> USE <1>1, <1>2, <1>3, MacronixAt, Sends, Makes DEF Common, Macronix, S!Is
<1>11. CASE S!ReadRegister
  BY <1>11 DEF S!ReadRegister, S!chip
<1>12. CASE S!WriteEnable
  BY <1>12 DEF S!WriteEnable
<1>13. CASE S!WriteRegister
  BY <1>13 DEF S!WriteRegister
<1>14. CASE S!ReadBack
  <2>1. CASE S!Sent({"readback"})
    BY <1>14, <2>1 DEF S!ReadBack, S!chip
  <2>2. CASE S!Failed
    BY <1>14, <2>2 DEF S!ReadBack, S!Failed, S!chip
  <2> QED BY <1>14, <2>1, <2>2 DEF S!ReadBack
<1>15. CASE S!WriteDisable
  <2>1. CASE S!Sent({"disable", "disable+"}) /\ wel' = (wel /\ busy)
    BY <1>15, <2>1 DEF S!WriteDisable
  <2>2. CASE S!Sent({"disable+"}) /\ UNCHANGED wel
    BY <1>15, <2>2 DEF S!WriteDisable
  <2> QED BY <1>15, <2>1, <2>2 DEF S!WriteDisable
<1>16. CASE S!Enter4B
  BY <1>16 DEF S!Enter4B
<1>17. CASE S!WriteBank
  BY <1>17 DEF S!WriteBank
<1>18. CASE S!PollReady
  BY <1>18 DEF S!PollReady, S!chip, S!StatusReady
<1> QED BY <1>11, <1>12, <1>13, <1>14, <1>15, <1>16, <1>17, <1>18 DEF S!Setup

LEMMA WinbondKeeps ==
  ASSUME ChipInv, S!Setup, S!Is({"WINBOND"})
  PROVE  Common' /\ Achieved'
<1>1. /\ part \in S!Parts /\ part.make = "WINBOND" /\ S!TypeOK
      /\ wel \in BOOLEAN /\ busy \in BOOLEAN /\ quad \in BOOLEAN
      /\ addr4 \in BOOLEAN /\ missed \in BOOLEAN
  BY Makes DEF ChipInv, S!TypeOK, S!Is
<1>2. part' = part /\ setup = "running"
  BY Running
<1>3. Winbond /\ Common
  BY <1>1, <1>2 DEF ChipInv, Achieved, S!Is
<1>4. SUFFICES Common' /\ (setup' # "failed" => Winbond')
  BY <1>1, <1>2 DEF Achieved, S!Is
<1> USE <1>1, <1>2, <1>3, WinbondAt, Sends, Makes DEF Common, Winbond, S!Is
<1>11. CASE S!ReadRegister
  BY <1>11 DEF S!ReadRegister, S!chip
<1>12. CASE S!WriteEnable
  <2>1. S!Sent({"enable"}) /\ UNCHANGED <<busy, quad, addr4>>
    BY <1>12 DEF S!WriteEnable
  <2>2. pos = 3 /\ pos' = 4
    BY <2>1
  <2>3. (busy \/ wel') /\ (busy' => wel')
    BY <1>12, <1>3, Zenon DEF S!WriteEnable
  <2> QED BY <2>1, <2>2, <2>3
<1>13. CASE S!WriteRegister
  BY <1>13 DEF S!WriteRegister
<1>14. CASE S!ReadBack
  <2>1. CASE S!Sent({"readback"})
    BY <1>14, <2>1 DEF S!ReadBack, S!chip
  <2>2. CASE S!Failed
    BY <1>14, <2>2 DEF S!ReadBack, S!Failed, S!chip
  <2> QED BY <1>14, <2>1, <2>2 DEF S!ReadBack
<1>15. CASE S!WriteDisable
  <2>1. CASE S!Sent({"disable", "disable+"}) /\ wel' = (wel /\ busy)
    BY <1>15, <2>1 DEF S!WriteDisable
  <2>2. CASE S!Sent({"disable+"}) /\ UNCHANGED wel
    BY <1>15, <2>2 DEF S!WriteDisable
  <2> QED BY <1>15, <2>1, <2>2 DEF S!WriteDisable
<1>16. CASE S!Enter4B
  BY <1>16 DEF S!Enter4B
<1>17. CASE S!WriteBank
  BY <1>17 DEF S!WriteBank
<1>18. CASE S!PollReady
  BY <1>18 DEF S!PollReady, S!chip, S!StatusReady
<1> QED BY <1>11, <1>12, <1>13, <1>14, <1>15, <1>16, <1>17, <1>18 DEF S!Setup

LEMMA IssiKeeps ==
  ASSUME ChipInv, S!Setup, S!Is({"ISSI"})
  PROVE  Common' /\ Achieved'
<1>1. /\ part \in S!Parts /\ part.make = "ISSI" /\ S!TypeOK
      /\ wel \in BOOLEAN /\ busy \in BOOLEAN /\ quad \in BOOLEAN
      /\ addr4 \in BOOLEAN /\ missed \in BOOLEAN
  BY Makes DEF ChipInv, S!TypeOK, S!Is
<1>2. part' = part /\ setup = "running"
  BY Running
<1>3. Issi /\ Common
  BY <1>1, <1>2 DEF ChipInv, Achieved, S!Is
<1>4. SUFFICES Common' /\ (setup' # "failed" => Issi')
  BY <1>1, <1>2 DEF Achieved, S!Is
<1> USE <1>1, <1>2, <1>3, IssiAt, Sends, Makes DEF Common, Issi, S!Is
<1>11. CASE S!ReadRegister
  BY <1>11 DEF S!ReadRegister, S!chip
<1>12. CASE S!WriteEnable
  <2>1. S!Sent({"enable"}) /\ UNCHANGED <<busy, quad, addr4>>
    BY <1>12 DEF S!WriteEnable
  <2>2. (busy \/ wel') /\ (busy' => wel') /\ (~busy => ~busy')
    BY <1>12, <1>3, Zenon DEF S!WriteEnable
  <2>3. at \in {3, 6} /\ pos = at /\ pos' = at + 1
    BY <2>1
  <2>4. at = 6 /\ busy => missed'
    <3>1. Len(S!QuadSteps) = 4
      BY IssiProgram
    <3>2. at = 6 => at > 1 + Len(S!QuadSteps)
      BY <3>1
    <3> QED BY <1>12, <3>2, Zenon DEF S!WriteEnable
  <2>5. CASE at = 3
    BY <2>1, <2>2, <2>3, <2>5
  <2>6. CASE at = 6
    BY <2>1, <2>2, <2>3, <2>4, <2>6
  <2> QED BY <2>3, <2>5, <2>6
<1>13. CASE S!WriteRegister
  BY <1>13 DEF S!WriteRegister
<1>14. CASE S!ReadBack
  <2>1. CASE S!Sent({"readback"})
    BY <1>14, <2>1 DEF S!ReadBack, S!chip
  <2>2. CASE S!Failed
    BY <1>14, <2>2 DEF S!ReadBack, S!Failed, S!chip
  <2> QED BY <1>14, <2>1, <2>2 DEF S!ReadBack
<1>15. CASE S!WriteDisable
  <2>1. CASE S!Sent({"disable", "disable+"}) /\ wel' = (wel /\ busy)
    BY <1>15, <2>1 DEF S!WriteDisable
  <2>2. CASE S!Sent({"disable+"}) /\ UNCHANGED wel
    BY <1>15, <2>2 DEF S!WriteDisable
  <2> QED BY <1>15, <2>1, <2>2 DEF S!WriteDisable
<1>16. CASE S!Enter4B
  BY <1>16 DEF S!Enter4B
<1>17. CASE S!WriteBank
  BY <1>17 DEF S!WriteBank
<1>18. CASE S!PollReady
  BY <1>18 DEF S!PollReady, S!chip, S!StatusReady
<1> QED BY <1>11, <1>12, <1>13, <1>14, <1>15, <1>16, <1>17, <1>18 DEF S!Setup

\* The invariant of the chip is kept by every transfer of the set-up, by one
\* that fails, by the chip when it has written its register, and by resets.
LEMMA SetupKeeps == ChipInv /\ S!Setup => ChipInv'
<1> SUFFICES ASSUME ChipInv, S!Setup PROVE ChipInv'
  OBVIOUS
<1>1. S!TypeOK'
  BY SetupTypes DEF ChipInv
<1>2. Common' /\ Achieved'
  BY SpansionKeeps, MicronKeeps, MacronixKeeps, WinbondKeeps, IssiKeeps, Makes
  DEF ChipInv, S!TypeOK, S!Is
<1>3. Complete'
  <2>1. (\E steps : S!Sent(steps)) \/ S!Failed
    BY DEF S!Setup, S!ReadRegister, S!WriteEnable, S!WriteRegister, S!ReadBack,
           S!WriteDisable, S!Enter4B, S!WriteBank, S!PollReady
  <2>2. CASE \E steps : S!Sent(steps)
    BY <2>2, SameProgram DEF Complete, S!Sent, S!Last
  <2>3. CASE S!Failed
    BY <2>3 DEF Complete, S!Failed
  <2> QED BY <2>1, <2>2, <2>3
<1> QED BY <1>1, <1>2, <1>3 DEF ChipInv

LEMMA FailsKeeps == ChipInv /\ S!Fails => ChipInv'
<1> SUFFICES ASSUME ChipInv, S!Fails PROVE ChipInv'
  OBVIOUS
<1>1. part' = part /\ setup' = "failed" /\ UNCHANGED <<at, wel, busy, quad, addr4, missed>>
  BY DEF S!Fails, S!Failed, S!chip
<1> QED BY <1>1, SameProgram DEF ChipInv, S!TypeOK, Common, Achieved, Complete, S!Is

LEMMA WrittenKeeps == ChipInv /\ S!Written => ChipInv'
<1> SUFFICES ASSUME ChipInv, S!Written PROVE ChipInv'
  OBVIOUS
<1>1. /\ UNCHANGED <<part, setup, at, addr4, missed>>
      /\ busy /\ ~busy' /\ ~wel' /\ quad'
  BY DEF S!Written
<1>2. S!TypeOK'
  BY SameProgram DEF S!Written, ChipInv, S!TypeOK
<1>3. Common'
  BY <1>1 DEF Common
<1>4. part.make \in {"ISSI", "WINBOND"}
  BY <1>1 DEF ChipInv, Common, S!Is
<1>5. pos' = pos /\ pos \in Nat
  BY <1>1, Lengths DEF pos, ChipInv, S!TypeOK
<1>6. Achieved'
  BY <1>1, <1>4, <1>5 DEF ChipInv, Achieved, Winbond, Issi, S!Is
<1>7. Complete'
  BY <1>1, SameProgram DEF ChipInv, Complete
<1> QED BY <1>2, <1>3, <1>6, <1>7 DEF ChipInv

LEMMA RestartKeeps == ChipInv /\ (S!Reset \/ S!PowerCycle) => ChipInv'
<1> SUFFICES ASSUME ChipInv, S!Reset \/ S!PowerCycle PROVE ChipInv'
  OBVIOUS
<1>1. /\ part' = part /\ setup' = "running" /\ at' = 1
      /\ addr4' \in {FALSE, part.big} /\ missed' = FALSE
      /\ UNCHANGED <<wel, busy>> \/ (wel' = FALSE /\ busy' = FALSE)
  BY DEF S!Reset, S!PowerCycle, S!Restart
<1>2. quad' \in BOOLEAN
  BY DEF S!Reset, S!PowerCycle, ChipInv, S!TypeOK
<1>3. S!TypeOK'
  <2>1. at' \in 1 .. Len(S!program')
    BY <1>1, SameProgram, Lengths DEF ChipInv, S!TypeOK
  <2> QED BY <1>1, <1>2, <2>1 DEF ChipInv, S!TypeOK
<1>4. Common'
  BY <1>1 DEF ChipInv, Common, S!Is
<1>5. pos' = 1
  BY <1>1 DEF pos
<1>6. Achieved'
  BY <1>1, <1>5 DEF Achieved, Spansion, Micron, Macronix, Winbond, Issi
<1>7. Complete'
  BY <1>1 DEF Complete
<1> QED BY <1>3, <1>4, <1>6, <1>7 DEF ChipInv

LEMMA ChipUnchanged == ChipInv /\ UNCHANGED setupVars => ChipInv'
<1> SUFFICES ASSUME ChipInv, UNCHANGED setupVars PROVE ChipInv'
  OBVIOUS
<1>1. UNCHANGED <<setup, part, at, wel, busy, quad, addr4, missed>>
  BY DEF setupVars
<1>2. S!program' = S!program
  BY <1>1, SameProgram
<1>3. S!TypeOK' /\ Common' /\ Complete'
  BY <1>1, <1>2 DEF ChipInv, S!TypeOK, Common, Complete, S!Is
<1>4. pos' = pos
  BY <1>1 DEF pos
<1>5. Achieved'
  BY <1>1, <1>4
  DEF ChipInv, Achieved, Spansion, Micron, Macronix, Winbond, Issi, S!Is
<1> QED BY <1>3, <1>5 DEF ChipInv

\* What a set-up that succeeded has achieved: the chip is not enabled, but for
\* the write that it is busy with, and it understands the reads.
LEMMA Ready ==
  ASSUME ChipInv, setup = "ok"
  PROVE  /\ wel => busy
         /\ S!Is({"ISSI"}) => busy \/ quad
         /\ S!Is({"ISSI"}) => missed \/ addr4 = part.big
         /\ ~S!Is({"ISSI"}) => Legible
<1> USE DEF S!Is
<1>1. /\ part \in S!Parts /\ pos = Len(S!program) + 1
      /\ wel \in BOOLEAN /\ busy \in BOOLEAN /\ quad \in BOOLEAN
      /\ addr4 \in {FALSE, part.big} /\ part.big \in BOOLEAN
  BY Makes DEF ChipInv, S!TypeOK, Complete, pos
<1>2. Common /\ Achieved
  BY DEF ChipInv
<1>0. Len(S!program) \in Nat /\ pos \in Nat
  BY <1>1, Lengths
<1>a. addr4 => addr4 = TRUE /\ part.big = TRUE
  BY <1>1
<1>b. ~part.big => addr4 = part.big
  BY <1>1
<1>3. CASE part.make = "SPANSION"
  <2>1. Spansion /\ ~busy /\ (~part.low => ~wel)
    BY <1>2, <1>3 DEF Common, Achieved
  <2>2. part.low => pos > 4
    BY <1>0, <1>1, <1>3, SpansionProgram
  <2>3. part.big => addr4
    BY <2>1, Zenon DEF Spansion
  <2> QED BY <1>0, <1>1, <1>a, <1>b, <1>2, <1>3, <2>1, <2>2, <2>3, Makes
      DEF Common, Spansion, Legible, NeedsQuad
<1>4. CASE part.make = "MICRON"
  <2>1. Micron /\ ~busy /\ (~part.big => ~wel) /\ ~part.low
    BY <1>1, <1>2, <1>4, Makes DEF Common, Achieved
  <2>2. part.big => pos = 6
    <3>1. SUFFICES ASSUME part.big PROVE pos = 6
      OBVIOUS
    <3>2. Len(S!program) = 5
      BY <1>1, <1>4, <3>1, MicronProgram
    <3> QED BY <1>1, <3>2
  <2>3. part.big => addr4 /\ ~wel
    BY <2>1, <2>2 DEF Micron
  <2> QED BY <1>1, <1>a, <1>b, <1>4, <2>1, <2>3 DEF Legible, NeedsQuad
<1>5. CASE part.make = "MACRONIX"
  <2>1. Macronix /\ ~busy /\ ~wel /\ ~part.low
    BY <1>1, <1>2, <1>5, Makes DEF Common, Achieved
  <2>2. pos = 4
    <3>1. Len(S!program) = 3
      BY <1>1, <1>5, MacronixProgram
    <3> QED BY <1>1, <3>1
  <2>3. addr4
    BY <2>1, <2>2 DEF Macronix
  <2> QED BY <1>1, <1>a, <1>5, <2>1, <2>3 DEF Legible, NeedsQuad
<1>6. CASE part.make = "WINBOND"
  <2>1. Winbond
    BY <1>2, <1>6 DEF Achieved
  <2>2. pos > 5 /\ (part.big => pos > 7)
    BY <1>0, <1>1, <1>6, WinbondProgram
  <2> QED BY <1>1, <1>a, <1>b, <1>6, <2>1, <2>2 DEF Winbond, Legible, NeedsQuad
<1>7. CASE part.make = "ISSI"
  <2>1. Issi
    BY <1>2, <1>7 DEF Achieved
  <2>2. Len(S!program) = IF part.big THEN 9 ELSE 5
    BY <1>1, <1>7, IssiProgram
  <2>3. CASE part.big
    <3>1. pos = 10
      BY <1>1, <2>2, <2>3
    <3>2. ~wel /\ ~busy /\ (missed \/ addr4) /\ (busy \/ quad)
      BY <2>1, <3>1 DEF Issi
    <3> QED BY <1>1, <1>a, <1>7, <3>2
  <2>4. CASE ~part.big
    <3>1. pos = 6
      BY <1>1, <2>2, <2>4
    <3>2. (wel => busy) /\ (busy \/ quad)
      BY <2>1, <3>1 DEF Issi
    <3> QED BY <1>1, <1>b, <1>7, <2>4, <3>2
  <2> QED BY <2>3, <2>4, <1>1
<1> QED BY <1>1, <1>3, <1>4, <1>5, <1>6, <1>7, Makes

-----------------------------------------------------------------------------
(* The start.                                                              *)

LEMMA StartInvInit == StartInit => StartInv
<1> SUFFICES ASSUME StartInit PROVE StartInv
  OBVIOUS
<1>1. Inv /\ pc = "setup" /\ misread = FALSE
  BY InvInit DEF StartInit, Init
<1>2. /\ part \in S!Parts /\ setup = "running" /\ at = 1
      /\ wel = FALSE /\ busy = FALSE /\ missed = FALSE
      /\ quad \in BOOLEAN /\ addr4 \in {FALSE, part.big}
  BY DEF StartInit, S!Init
<1>3. S!TypeOK
  <2>1. at \in 1 .. Len(S!program)
    <3>1. Len(S!program) \in 1 .. 9
      BY <1>2, Lengths
    <3>2. at = 1
      BY <1>2
    <3> QED BY <3>1, <3>2
  <2> QED BY <1>2, <2>1 DEF S!TypeOK
<1>4. Common /\ Complete
  BY <1>2 DEF Common, Complete
<1>5. Achieved
  <2>1. pos = 1
    BY <1>2 DEF pos
  <2> QED BY <2>1, <1>2 DEF Achieved, Spansion, Micron, Macronix, Winbond, Issi
<1>6. Waits /\ Trusted
  BY <1>1, <1>2 DEF Waits, Trusted
<1> QED BY <1>1, <1>3, <1>4, <1>5, <1>6 DEF StartInv, ChipInv

\* Every step of the start is one of FactoryLog's, or none of its variables
\* changes.
LEMMA StartRefines == [StartNext]_all => [Next]_vars
BY DEF StartNext, Main, SetupStep, SetupFails, ChipStep, Continue, Load, Other,
       Restarted, OtherLog, Next, InitFs, all

\* A step of the start keeps the chip's invariant.
LEMMA StartChip == ChipInv /\ [StartNext]_all => ChipInv'
<1> SUFFICES ASSUME ChipInv, [StartNext]_all PROVE ChipInv'
  OBVIOUS
<1>1. CASE UNCHANGED setupVars
  BY <1>1, ChipUnchanged
<1>2. CASE S!Setup \/ S!Fails \/ S!Written \/ S!Reset \/ S!PowerCycle
  BY <1>2, SetupKeeps, FailsKeeps, WrittenKeeps, RestartKeeps
<1> QED
  BY <1>1, <1>2
  DEF StartNext, Main, SetupStep, SetupFails, ChipStep, Continue, Load, Other,
      Restarted, OtherLog, all

\* A set-up under way goes on, or ends.
LEMMA StaysSetUp ==
  S!Setup \/ S!Fails => setup = "running" /\ part' = part
BY Running DEF S!Fails, S!Failed

\* main_thread waits for the set-up, and what it reads after one that
\* succeeded is what the flash holds.
LEMMA StartMain ==
  ASSUME StartInv, [StartNext]_all PROVE Waits' /\ Trusted'
<1> USE DEF StartInv, Waits, Trusted
<1>1. CASE SetupStep \/ SetupFails
  <2>1. pc = "setup" /\ setup = "running" /\ UNCHANGED <<pc, misread>>
    BY <1>1, StaysSetUp DEF SetupStep, SetupFails, vars, history
  <2>2. ~misread
    BY <2>1
  <2> QED BY <2>1, <2>2
<1>2. CASE Continue
  BY <1>2 DEF Continue, SetUp, Goto, setupVars, history, S!Is
<1>3. CASE Load
  <2>1. UNCHANGED setupVars /\ pc # "setup"
    BY <1>3 DEF Load, ReadSize, ReadLog, Goto
  <2>2. Waits'
    BY <2>1 DEF setupVars
  <2>3. ASSUME setup = "ok", ~S!Is({"ISSI"}) PROVE misread' = misread
    BY <1>3, <2>3, Ready DEF Load
  <2>4. pc' # "setup"
    BY <1>3 DEF Load, ReadSize, ReadLog, Goto
  <2>5. setup' = setup /\ part' = part
    BY <2>1 DEF setupVars
  <2> QED BY <2>2, <2>3, <2>4, <2>5 DEF S!Is
<1>4. CASE Other
  BY <1>4
  DEF Other, Mount, Create, PutSentence, Write, Close, List, Goto, setupVars,
      history, S!Is
<1>5. CASE ChipStep
  BY <1>5 DEF ChipStep, S!Written, vars, history, S!Is
<1>6. CASE Restarted
  BY <1>6 DEF Restarted, PowerCycle
<1>7. CASE OtherLog
  BY <1>7 DEF OtherLog, Programmed, setupVars, history, S!Is
<1>8. CASE UNCHANGED all
  BY <1>8 DEF all, vars, setupVars, history, S!Is
<1> QED
  BY <1>1, <1>2, <1>3, <1>4, <1>5, <1>6, <1>7, <1>8 DEF StartNext, Main

\* The invariant of the start holds in every reachable state.
THEOREM StartInductive == StartSpec => []StartInv
<1>1. StartInv /\ [StartNext]_all => StartInv'
  BY StartChip, StartMain, StartRefines, InvNext DEF StartInv
<1> QED BY StartInvInit, <1>1, PTL DEF StartSpec

\* The start, with the chip and its set-up, is one of FactoryLog: what is
\* proved of the page above holds with any state of the chip.
THEOREM StartImplements == StartSpec => Spec
<1>1. StartInit => Init
  BY DEF StartInit
<1> QED BY <1>1, StartRefines, PTL DEF StartSpec, Spec

\* Types: the set-up never runs beyond what it has to send (qspi_setup).
THEOREM StartTypes == StartSpec => []StartTypeOK
<1>1. StartInv => StartTypeOK
  BY DEF StartInv, Inv, ChipInv, StartTypeOK
<1> QED BY <1>1, StartInductive, PTL

\* After a set-up that succeeded the retrieval of the log cannot change the
\* flash: for every chip of the table, in whatever state it was found.
THEOREM Protected == StartSpec => []WriteProtected
<1>1. StartInv => WriteProtected
  BY Ready DEF StartInv, WriteProtected
<1> QED BY <1>1, StartInductive, PTL

\* After a set-up that succeeded the chip understands FlashRead, but for an
\* ISSI chip that is busy or has missed a command (qspi.c:906).
THEOREM Understood == StartSpec => []ChipReady
<1>1. ASSUME StartInv, setup = "ok" PROVE Legible \/ (S!Is({"ISSI"}) /\ (busy \/ missed))
  <2>1. CASE ~S!Is({"ISSI"})
    BY <1>1, <2>1, Ready DEF StartInv
  <2>2. CASE S!Is({"ISSI"}) /\ ~busy /\ ~missed
    BY <1>1, <2>2, Ready DEF StartInv, Legible
  <2> QED BY <2>1, <2>2
<1>2. StartInv => ChipReady
  BY <1>1 DEF ChipReady
<1> QED BY <1>2, StartInductive, PTL

\* With a chip of any make but ISSI a set-up that succeeded leaves no room for
\* the page to show anything but this start's log, or, when there is none or a
\* read failed, the sentence.
PageTrue ==
  setup = "ok" /\ ~S!Is({"ISSI"}) /\ pc = "serve" =>
    file \in Found \union {Part, Nothing}

\* So it is, in every reachable state.
THEOREM PageTrusted == StartSpec => []PageTrue
<1>1. StartInv => PageTrue
  BY DEF StartInv, Inv, OnItsWay, Trusted, PageTrue
<1> QED BY <1>1, StartInductive, PTL

=============================================================================
