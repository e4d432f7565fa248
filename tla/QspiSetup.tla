------------------------------ MODULE QspiSetup ------------------------------
(***************************************************************************)
(* Setting up the QSPI flash (qspi_setup in qspi.c), with one chip, as on  *)
(* both boards: it is identified, told to use four data lines where its    *)
(* make requires that, and put into the four-byte address mode when it is  *)
(* larger than 16 MB.  What is sent depends on the chip alone, so that the *)
(* set-up is a sequence of transfers.  Any of them may fail.  The chip     *)
(* keeps its state when only the processor is reset, and pays attention to *)
(* nothing but requests for its status while it writes a register.         *)
(* FlashStart composes this module with what main_thread does afterwards.  *)
(***************************************************************************)
EXTENDS Naturals, Sequences

\* The entries of Flash_Config_Table, as far as the set-up tells them apart:
\* the make, a size beyond 16 MB, and an index of at most 2.
Parts ==
  { [make |-> "SPANSION", big |-> FALSE, low |-> TRUE],
    [make |-> "SPANSION", big |-> TRUE,  low |-> TRUE],
    [make |-> "SPANSION", big |-> TRUE,  low |-> FALSE] } \union
  [make : {"MICRON", "WINBOND", "ISSI"}, big : BOOLEAN, low : {FALSE}] \union
  [make : {"MACRONIX"}, big : {TRUE}, low : {FALSE}]

VARIABLES
  part,         \* the chip on the board
  pc,           \* qspi_setup is "running", or has returned "ok" or "failed"
  at,           \* the transfer that comes next
  \* The chip:
  wel,          \* it is enabled for a write to a register
  busy,         \* it is writing its status register
  quad,         \* it uses four data lines
  addr4,        \* it expects four bytes of address
  \* History variable, read by no guard:
  missed        \* a command of FlashEnterExit4BAddMode came while it was busy

chip == <<wel, busy, quad, addr4>>
vars == <<part, pc, at, chip, missed>>

Is(makes) == part.make \in makes

-----------------------------------------------------------------------------
(* What qspi_setup sends.                                                  *)

\* FlashEnableQuadMode.  It returns an uninitialised Status for a Spansion
\* chip with a higher index ("unset").
QuadSteps ==
  CASE Is({"SPANSION"}) /\ part.low ->
         <<"read", "enable", "write", "readback">>
    [] Is({"SPANSION"}) /\ ~part.low -> <<"unset">>
    [] Is({"ISSI"})    -> <<"read", "enable", "write", "disable+">>
    [] Is({"WINBOND"}) -> <<"read", "enable", "write", "poll", "disable+">>
    [] OTHER           -> << >>

\* Faults: the write enable stays on; only Micron's chips are enabled first.
FourByteStepsArmed ==
  CASE Is({"ISSI", "MICRON"}) -> <<"enable", "enter", "poll">>
    [] Is({"SPANSION"})       -> <<"bank">>
    [] OTHER                  -> <<"enter", "poll">>
FourByteStepsMicron ==
  CASE Is({"MICRON"})   -> <<"enable", "enter", "poll", "disable">>
    [] Is({"SPANSION"}) -> <<"bank">>
    [] OTHER            -> <<"enter", "poll">>

\* FlashEnterExit4BAddMode(ENTER_4B).
FourByteSteps ==
  CASE Is({"ISSI", "MICRON"}) -> <<"enable", "enter", "poll", "disable">>
    [] Is({"SPANSION"})       -> <<"bank">>
    [] OTHER                  -> <<"enter", "poll">>

program ==
  <<"id">> \o QuadSteps \o (IF part.big THEN FourByteSteps ELSE << >>)

TypeOK ==
  /\ part \in Parts
  /\ pc \in {"running", "ok", "failed"}
  /\ at \in 1 .. Len(program)
  /\ wel \in BOOLEAN /\ busy \in BOOLEAN
  /\ quad \in BOOLEAN
  /\ addr4 \in {FALSE, part.big}
  /\ missed \in BOOLEAN

\* The boot loader has left the chip in one address mode or the other.
Init ==
  /\ part \in Parts
  /\ pc = "running"
  /\ at = 1
  /\ wel = FALSE /\ busy = FALSE
  /\ quad \in BOOLEAN
  /\ addr4 \in {FALSE, part.big}
  /\ missed = FALSE

-----------------------------------------------------------------------------
(* The transfers.                                                          *)

Last == at = Len(program)

\* A transfer from the set, done: on to the next one.
Sent(steps) ==
  /\ pc = "running"
  /\ program[at] \in steps
  /\ IF Last
     THEN pc' = "ok" /\ UNCHANGED at
     ELSE at' = at + 1 /\ UNCHANGED pc
  /\ UNCHANGED part

Failed ==
  /\ pc = "running"
  /\ pc' = "failed"
  /\ UNCHANGED <<part, at>>

\* Identification, and registers that are read before they are written.
ReadRegister ==
  /\ Sent({"id", "read", "unset"})
  /\ UNCHANGED <<chip, missed>>

WriteEnable ==
  /\ Sent({"enable"})
  /\ wel' = (wel \/ ~busy)
  /\ missed' = (busy /\ at > 1 + Len(QuadSteps))
  /\ UNCHANGED <<busy, quad, addr4>>

\* Spansion's chips are enabled for a volatile write, which takes no time.
WriteRegister ==
  /\ Sent({"write"})
  /\ IF ~wel \/ busy
     THEN UNCHANGED <<wel, busy, quad>>
     ELSE IF Is({"SPANSION"})
          THEN wel' = FALSE /\ quad' = TRUE /\ UNCHANGED busy
          ELSE busy' = TRUE /\ UNCHANGED <<wel, quad>>
  /\ UNCHANGED <<addr4, missed>>

\* The quad bit is read back, and must be set.
ReadBack ==
  /\ IF quad THEN Sent({"readback"}) ELSE Failed /\ program[at] = "readback"
  /\ UNCHANGED <<chip, missed>>

\* In FlashEnableQuadMode the command is sent with what the messages hold of
\* the transfer before ("disable+"): a chip may then take no notice of it.
WriteDisable ==
  /\ \/ Sent({"disable", "disable+"}) /\ wel' = (wel /\ busy)
     \/ Sent({"disable+"}) /\ UNCHANGED wel
  /\ UNCHANGED <<busy, quad, addr4, missed>>

\* Micron's and ISSI's chips must have been enabled.
Enter4B ==
  /\ Sent({"enter"})
  /\ addr4' = (addr4 \/ (~busy /\ (Is({"ISSI", "MICRON"}) => wel)))
  /\ missed' = (missed \/ busy)
  /\ UNCHANGED <<wel, busy, quad>>

\* Spansion's chips have the mode in their bank register.
WriteBank ==
  /\ Sent({"bank"})
  /\ addr4' = TRUE
  /\ UNCHANGED <<wel, busy, quad, missed>>

\* Fault: the bit of the one register is taken for that of the other.
StatusBusy == busy

\* Bit 0 of the status register is clear, or bit 7 of the flag status
\* register is set.
StatusReady == ~busy

\* The last round of the loop that waits for the chip.
PollReady ==
  /\ Sent({"poll"})
  /\ StatusReady
  /\ UNCHANGED <<chip, missed>>

\* A transfer that does not succeed, a chip that is not in the table, a Status
\* that happens to say so.  Nobody looks at what qspi_setup returns.
Fails == Failed /\ UNCHANGED <<chip, missed>>

Setup ==
  \/ ReadRegister \/ WriteEnable \/ WriteRegister \/ ReadBack \/ WriteDisable
  \/ Enter4B \/ WriteBank \/ PollReady

-----------------------------------------------------------------------------
(* The chip and the board.                                                 *)

\* The register has been written, which ends the enabling too.
Written ==
  /\ busy
  /\ busy' = FALSE /\ wel' = FALSE /\ quad' = TRUE
  /\ UNCHANGED <<part, pc, at, addr4, missed>>

Restart ==
  /\ pc' = "running" /\ at' = 1
  /\ addr4' \in {FALSE, part.big}
  /\ missed' = FALSE
  /\ UNCHANGED part

\* The processor is reset, and the chip goes on with what it does.
Reset ==
  /\ Restart
  /\ UNCHANGED <<wel, busy, quad>>

\* Only a register that was being written, or is volatile, may have changed.
PowerCycle ==
  /\ Restart
  /\ wel' = FALSE /\ busy' = FALSE
  /\ quad' \in {quad} \union (IF busy THEN {TRUE} ELSE {})
                      \union (IF Is({"SPANSION"}) THEN {FALSE} ELSE {})
=============================================================================
