-------------------------------- MODULE Qspi --------------------------------
(***************************************************************************)
(* Reading the QSPI flash (qspi.c): FlashRead and, for chips of several    *)
(* dies, MultiDieRead, which splits a read so that none crosses a bank,    *)
(* because a chip that comes to the end of a die goes on at the die's      *)
(* beginning.  One chip, or two that are stacked or parallel (striped).    *)
(* A unit stands for 4 KB or whatever divides a bank; a unit of flash is   *)
(* known by the address it has for the caller.                             *)
(***************************************************************************)
EXTENDS Integers, Sequences

CONSTANTS
  Mode,           \* the connection modes to consider
  SIXTEENMB,      \* units in a bank of one chip
  DieBanks,       \* banks in a die
  NumDie          \* dies in a chip

ASSUME ModeAssumption == Mode \subseteq {"single", "stacked", "parallel"}
ASSUME GeometryAssumption == /\ SIXTEENMB \in Nat \ {0}
                             /\ DieBanks \in Nat \ {0}
                             /\ NumDie \in Nat \ {0}

DieSize  == SIXTEENMB * DieBanks
ChipSize == DieSize * NumDie           \* FlashDeviceSize

VARIABLES
  mode,           \* Config.ConnectionMode
  pc,             \* "idle", "read" (the loop), "done" or "failed"
  first,          \* the arguments of the call
  count,
  bank_size,
  Address,        \* where the next transfer begins
  remain_len,
  buffer          \* what has been read

call  == <<mode, first, count>>
vars  == <<call, pc, bank_size, Address, remain_len, buffer>>

\* What a read may ask for: units of the flash; in parallel mode the first
\* byte of a stripe.
MayRead(m, a, n) ==
  /\ a + n <= (IF m = "single" THEN ChipSize ELSE 2 * ChipSize)
  /\ m = "parallel" => a % 2 = 0

Units == 0 .. 2 * ChipSize

TypeOK ==
  /\ mode \in Mode
  /\ pc \in {"idle", "read", "done", "failed"}
  /\ first \in Units /\ count \in Units
  /\ MayRead(mode, first, count)
  /\ bank_size \in Units
  /\ Address \in Units /\ remain_len \in Units
  /\ buffer \in Seq(Units)

-----------------------------------------------------------------------------
(* The chips.                                                              *)

Die(r) == (r \div SIXTEENMB) \div DieBanks

\* Where a chip is after i units when it began to read at r.
Wrapped(r, i) == r + i - DieSize * (Die(r + i) - Die(r))

\* Two parallel chips give units in turn.
Received(r, n) ==
  IF mode = "parallel"
  THEN [i \in 1 .. n |-> 2 * Wrapped(r, (i - 1) \div 2) + ((i - 1) % 2)]
  ELSE [i \in 1 .. n |-> (IF mode = "stacked" /\ Address >= ChipSize
                          THEN ChipSize ELSE 0) + Wrapped(r, i - 1)]

-----------------------------------------------------------------------------
(* FlashRead and MultiDieRead.                                             *)

Init ==
  /\ mode \in Mode
  /\ pc = "idle"
  /\ first = 0 /\ count = 0
  /\ bank_size = 0
  /\ Address = 0 /\ remain_len = 0
  /\ buffer = << >>

\* In stacked mode nothing assigns bank_size: it has any value.
BankSize ==
  CASE mode = "parallel" -> {2 * SIXTEENMB}
    [] mode = "single"   -> {SIXTEENMB}
    [] OTHER             -> Units

Call(a, n) ==
  /\ pc # "read"
  /\ MayRead(mode, a, n)
  /\ first' = a /\ count' = n
  /\ bank_size' \in (IF NumDie > 1 THEN BankSize ELSE {0})
  /\ Address' = a /\ remain_len' = n
  /\ buffer' = << >>
  /\ pc' = "read"
  /\ UNCHANGED mode

\* The processor divides by 0 to 0.
Bank(a) == IF bank_size = 0 THEN 0 ELSE a \div bank_size

cur_bank == Bank(Address)
nxt_bank == Bank(Address + remain_len)

\* Fault: the bank ends a unit later.
TransferLenLong == bank_size * (cur_bank + 1) - Address + 1

\* What is left of the bank.
transfer_len == bank_size * (cur_bank + 1) - Address

data_len ==
  IF NumDie > 1 /\ cur_bank # nxt_bank /\ transfer_len < remain_len
  THEN transfer_len
  ELSE remain_len

\* Fault: the chip is given the address the call began with.
RealAddrOfCall == first

\* GetRealAddr.
RealAddr ==
  CASE mode = "parallel" -> Address \div 2
    [] mode = "stacked" /\ Address >= ChipSize -> Address - ChipSize
    [] OTHER -> Address

RemainNow == remain_len - data_len

Transfer ==
  /\ pc = "read"
  /\ remain_len > 0
  /\ buffer' = buffer \o Received(RealAddr, data_len)
  /\ Address' = Address + data_len
  /\ remain_len' = RemainNow
  /\ UNCHANGED <<call, pc, bank_size>>

TransferFails ==
  /\ pc = "read"
  /\ remain_len > 0
  /\ pc' = "failed"
  /\ UNCHANGED <<call, bank_size, Address, remain_len, buffer>>

Finish ==
  /\ pc = "read"
  /\ remain_len = 0
  /\ pc' = "done"
  /\ UNCHANGED <<call, bank_size, Address, remain_len, buffer>>

Read == Transfer \/ TransferFails \/ Finish

Next == Read \/ \E a \in Units, n \in Units \ {0} : Call(a, n)

\* The thread that reads goes on.
Spec == Init /\ [][Next]_vars /\ WF_vars(Read)

-----------------------------------------------------------------------------
(* Properties                                                              *)

\* A read that succeeds has given the units asked for, in their order.
ReadRight ==
  pc = "done" => buffer = [i \in 1 .. count |-> first + i - 1]

\* However it is split, a read ends, and is seen as one read of the flash.
Reader ==
  INSTANCE FlashReader WITH
    Calls   <- [address : Units, count : Units],
    call    <- [address |-> first, count |-> count],
    outcome <- CASE pc = "idle" -> "none"
                 [] pc = "read" -> "busy"
                 [] pc = "done" -> "ok"
                 [] pc = "failed" -> "failed",
    data    <- IF pc = "done" THEN buffer ELSE << >>

ReadsAsOne == Reader!Spec
=============================================================================
