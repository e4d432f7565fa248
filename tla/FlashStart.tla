----------------------------- MODULE FlashStart -----------------------------
(***************************************************************************)
(* A start of the board as far as the flash is concerned: main_thread      *)
(* calls qspi_setup (QspiSetup), does not look at what it returns, and     *)
(* reads the factory test's log out of the chip (FactoryLog), which does   *)
(* not give the log unless it has been set up.                             *)
(***************************************************************************)
EXTENDS FactoryLog, Sequences

VARIABLES
  setup,                                \* qspi_setup: pc of QspiSetup
  part, at, wel, busy, quad, addr4, missed

S == INSTANCE QspiSetup WITH pc <- setup

setupVars == <<setup, part, at, wel, busy, quad, addr4, missed>>
all == <<vars, setupVars>>

StartTypeOK == TypeOK /\ S!TypeOK

StartInit == Init /\ S!Init

-----------------------------------------------------------------------------
(* main_thread, the chip, and restarts: the processor is reset with the    *)
(* power on, or the power goes.                                            *)

SetupStep  == pc = "setup" /\ S!Setup /\ UNCHANGED vars
SetupFails == pc = "setup" /\ S!Fails /\ UNCHANGED vars

Continue == setup # "running" /\ SetUp /\ UNCHANGED setupVars

\* The quad bit that the chip's make has to have set for a QUAD_READ_CMD.
NeedsQuad == S!Is({"ISSI", "WINBOND"}) \/ part.low

\* The chip understands FlashRead.
Legible ==
  /\ setup = "ok" /\ ~busy
  /\ addr4 = part.big
  /\ NeedsQuad => quad

Load ==
  /\ ReadSize \/ ReadLog
  /\ Legible => misread' = misread
  /\ UNCHANGED setupVars

Other ==
  /\ Mount \/ Create \/ PutSentence \/ Write \/ Close \/ List
  /\ UNCHANGED setupVars

Main == SetupStep \/ Continue \/ Load \/ Other

ChipStep == S!Written /\ UNCHANGED vars

Restarted == PowerCycle /\ (S!Reset \/ S!PowerCycle)

OtherLog == Programmed /\ UNCHANGED setupVars

StartNext == Main \/ SetupFails \/ ChipStep \/ Restarted \/ OtherLog

\* main_thread goes on, and the chip finishes what it writes.
StartSpec ==
  StartInit /\ [][StartNext]_all /\ WF_all(Main) /\ WF_all(ChipStep)

-----------------------------------------------------------------------------
(* Properties                                                              *)

\* After a set-up that succeeded the chip is not enabled for writing, but for
\* the write it is busy with: the retrieval of the log cannot change it.
WriteProtected == setup = "ok" => (wel => busy)

\* When the log is read after a set-up that succeeded, the chip understands
\* the reads: its data lines and the bytes of its address are those that
\* FlashRead uses, whatever state an earlier start, a reset or a failed
\* set-up left it in.  An ISSI chip may still be busy with its status
\* register (qspi.c:906), or have missed the command for four bytes of address
\* while it was.
ChipReady ==
  pc \in {"size", "log"} /\ setup = "ok" =>
    Legible \/ (S!Is({"ISSI"}) /\ (busy \/ missed))

\* Unless the board is restarted again and again, it comes to serving pages or
\* platform_init_fs has returned an error: no wait for the chip is for ever.
StartEnds ==
  <>[][~Restarted]_all => <>[](pc \in {"serve", "return"})
=============================================================================
