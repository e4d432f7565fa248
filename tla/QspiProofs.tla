----------------------------- MODULE QspiProofs -----------------------------
(***************************************************************************)
(* A read of the flash gives what was asked for, for every size of bank,   *)
(* die and chip, if the chip is single or the chips are parallel.  The     *)
(* heart is arithmetic: no transfer leaves the bank it begins in, so no    *)
(* chip comes to the end of a die, and banks of two parallel chips are as  *)
(* long again for the caller.                                              *)
(***************************************************************************)
EXTENDS Qspi, SequenceTheorems, TLAPS

-----------------------------------------------------------------------------
(* Division.                                                               *)

\* A quotient is a natural number, and its multiple is the last below a.
LEMMA DivNat ==
  ASSUME NEW a \in Nat, NEW b \in Nat \ {0}
  PROVE  /\ a \div b \in Nat
         /\ b * (a \div b) <= a
         /\ a < b * (a \div b + 1)
OBVIOUS

\* Nothing but the quotient lies between these multiples.
LEMMA DivUnique ==
  ASSUME NEW a \in Nat, NEW b \in Nat \ {0}, NEW q \in Nat,
         b * q <= a, a < b * (q + 1)
  PROVE  a \div b = q
OBVIOUS

\* Numbers between two of the same quotient have that quotient.
LEMMA DivBetween ==
  ASSUME NEW a \in Nat, NEW b \in Nat \ {0}, NEW x \in Nat, NEW c \in Nat,
         a <= x, x <= c, a \div b = c \div b
  PROVE  x \div b = a \div b
<1>1. /\ a \div b \in Nat
      /\ b * (a \div b) <= x
      /\ x < b * (a \div b + 1)
  BY DivNat
<1> QED BY <1>1, DivUnique

\* Half a number has, for half the divisor, the same quotient.
LEMMA DivHalf ==
  ASSUME NEW a \in Nat, NEW b \in Nat \ {0}
  PROVE  (a \div 2) \div b = a \div (2 * b)
<1> DEFINE k == a \div 2
           q == k \div b
<1>1. k \in Nat /\ (a = 2 * k \/ a = 2 * k + 1)
  OBVIOUS
<1>2. q \in Nat /\ b * q <= k /\ k < b * (q + 1)
  BY <1>1, DivNat
<1>3. b * q \in Nat /\ b * (q + 1) \in Nat
  BY <1>2
<1>4. k + 1 <= b * (q + 1)
  BY <1>1, <1>2, <1>3
<1>5. (2 * b) * q = 2 * (b * q) /\ (2 * b) * (q + 1) = 2 * (b * (q + 1))
  BY <1>2
<1>6. (2 * b) * q <= a /\ a < (2 * b) * (q + 1)
  BY <1>1, <1>2, <1>3, <1>4, <1>5
<1>7. 2 * b \in Nat \ {0}
  OBVIOUS
<1> HIDE DEF q, k
<1>8. a \div (2 * b) = q
  BY <1>2, <1>6, <1>7, DivUnique
<1> QED BY <1>8 DEF q, k

\* There is at least one unit in a die, in a chip and in two banks.
LEMMA Sizes ==
  /\ DieSize \in Nat \ {0}
  /\ ChipSize \in Nat \ {0}
  /\ 2 * SIXTEENMB \in Nat \ {0}
BY GeometryAssumption DEF DieSize, ChipSize

\* A chip of one die has no die but the first.
LEMMA OneDie ==
  ASSUME NumDie = 1, NEW r \in Nat, r < ChipSize
  PROVE  Die(r) = 0
<1> DEFINE q == r \div SIXTEENMB
<1>1. q \in Nat /\ SIXTEENMB * q <= r
  BY GeometryAssumption, DivNat
<1>2. r < SIXTEENMB * DieBanks
  BY GeometryAssumption DEF ChipSize, DieSize
<1> HIDE DEF q
<1>3. q < DieBanks
  <2>1. SUFFICES ASSUME DieBanks <= q PROVE FALSE
    BY <1>1, GeometryAssumption
  <2>2. SIXTEENMB * DieBanks <= SIXTEENMB * q
    BY <1>1, <2>1, GeometryAssumption
  <2>3. SIXTEENMB * DieBanks \in Nat /\ SIXTEENMB * q \in Nat
    BY <1>1, GeometryAssumption
  <2> QED BY <1>1, <1>2, <2>2, <2>3
<1>4. q \div DieBanks = 0
  BY <1>1, <1>3, GeometryAssumption, DivUnique
<1> QED BY <1>4 DEF q, Die

-----------------------------------------------------------------------------
(* The invariant.                                                          *)

\* How far the loop is: what it has read is what lies between the address
\* of the call and the next one.
Progress ==
  /\ first <= Address
  /\ Address + remain_len = first + count
  /\ buffer = [i \in 1 .. Address - first |-> first + i - 1]
  /\ pc = "done" => remain_len = 0

\* What MultiDieRead knows of the chips.
Banks ==
  pc = "read" =>
    /\ NumDie > 1 => bank_size = IF mode = "parallel" THEN 2 * SIXTEENMB
                                                      ELSE SIXTEENMB
    /\ mode = "parallel" /\ remain_len > 0 => Address % 2 = 0

Inv == TypeOK /\ Progress /\ Banks

\* A transfer is not empty and not longer than what is left.
LEMMA DataLenFits ==
  ASSUME Inv, pc = "read", remain_len > 0
  PROVE  data_len \in 1 .. remain_len
<1>1. Address \in Nat /\ remain_len \in Nat \ {0}
  BY Sizes DEF Inv, TypeOK, Units
<1>2. CASE NumDie > 1 /\ cur_bank # nxt_bank /\ transfer_len < remain_len
  <2>1. bank_size \in Nat \ {0}
    BY <1>2, GeometryAssumption, Sizes DEF Inv, Banks
  <2>2. cur_bank = Address \div bank_size
    BY <2>1 DEF cur_bank, Bank
  <2>3. cur_bank \in Nat /\ Address < bank_size * (cur_bank + 1)
    BY <1>1, <2>1, <2>2, DivNat
  <2>4. bank_size * (cur_bank + 1) \in Nat
    BY <2>1, <2>3
  <2>5. transfer_len \in Nat \ {0}
    BY <1>1, <2>3, <2>4 DEF transfer_len
  <2> QED BY <1>1, <1>2, <2>5 DEF data_len
<1>3. CASE ~(NumDie > 1 /\ cur_bank # nxt_bank /\ transfer_len < remain_len)
  BY <1>1, <1>3 DEF data_len
<1> QED BY <1>2, <1>3

\* A transfer stays in its bank.
LEMMA SameBank ==
  ASSUME Inv, pc = "read", remain_len > 0, NumDie > 1,
         NEW j \in 0 .. data_len - 1
  PROVE  (Address + j) \div bank_size = Address \div bank_size
<1>1. Address \in Nat /\ remain_len \in Nat \ {0}
  BY Sizes DEF Inv, TypeOK, Units
<1>2. data_len \in 1 .. remain_len
  BY DataLenFits
<1>3. j \in Nat /\ Address + j \in Nat /\ Address + j < Address + data_len
  BY <1>1, <1>2
<1>4. bank_size \in Nat \ {0}
  BY GeometryAssumption, Sizes DEF Inv, Banks
<1>5. /\ cur_bank = Address \div bank_size
      /\ nxt_bank = (Address + remain_len) \div bank_size
  BY <1>4 DEF cur_bank, nxt_bank, Bank
<1>6. CASE cur_bank = nxt_bank
  <2>1. Address <= Address + j /\ Address + j <= Address + remain_len
    BY <1>1, <1>2, <1>3
  <2>2. Address + remain_len \in Nat
    BY <1>1
  <2>3. Address \div bank_size = (Address + remain_len) \div bank_size
    BY <1>5, <1>6
  <2> QED BY ONLY <1>1, <1>3, <1>4, <2>1, <2>2, <2>3, DivBetween
<1>7. CASE cur_bank # nxt_bank
  <2>1. /\ cur_bank \in Nat
        /\ bank_size * cur_bank <= Address
        /\ Address < bank_size * (cur_bank + 1)
    BY <1>1, <1>4, <1>5, DivNat
  <2>2. bank_size * (cur_bank + 1) \in Nat /\ bank_size * cur_bank \in Nat
    BY <1>4, <2>1
  <2>3. transfer_len = bank_size * (cur_bank + 1) - Address
    BY DEF transfer_len
  <2>4. data_len <= transfer_len
    BY <1>1, <1>7, <2>2, <2>3 DEF data_len
  <2>5. bank_size * cur_bank <= Address + j /\ Address + j < bank_size * (cur_bank + 1)
    BY <1>1, <1>2, <1>3, <2>1, <2>2, <2>3, <2>4
  <2>6. (Address + j) \div bank_size = cur_bank
    BY <1>3, <1>4, <2>1, <2>5, DivUnique
  <2> QED BY <1>5, <2>6
<1> QED BY <1>6, <1>7

\* A chip that reads what a transfer asks for stays in its die.
LEMMA SameDie ==
  ASSUME Inv, mode # "stacked", pc = "read", remain_len > 0,
         NEW i \in Nat,
         IF mode = "parallel" THEN 2 * i <= data_len - 1 ELSE i <= data_len - 1
  PROVE  /\ RealAddr \in Nat
         /\ Die(RealAddr + i) = Die(RealAddr)
<1>1. Address \in Nat /\ remain_len \in Nat \ {0} /\ data_len \in 1 .. remain_len
  BY Sizes, DataLenFits DEF Inv, TypeOK, Units
<1>2. /\ Address + remain_len = first + count
      /\ first + count <= IF mode = "single" THEN ChipSize ELSE 2 * ChipSize
  BY DEF Inv, TypeOK, Progress, MayRead
<1>3. mode = "single" \/ mode = "parallel"
  BY ModeAssumption DEF Inv, TypeOK
<1>4. CASE mode = "single"
  <2>1. RealAddr = Address
    BY <1>4 DEF RealAddr
  <2>2. i \in 0 .. data_len - 1
    BY <1>1, <1>4
  <2>3. CASE NumDie > 1
    <3>1. bank_size = SIXTEENMB
      BY <1>4, <2>3 DEF Inv, Banks
    <3>2. (Address + i) \div SIXTEENMB = Address \div SIXTEENMB
      BY <2>2, <2>3, <3>1, SameBank
    <3> QED BY <1>1, <2>1, <3>2 DEF Die
  <2>4. CASE NumDie = 1
    <3>1. Address + i \in Nat /\ Address + i < ChipSize /\ Address < ChipSize
      BY <1>1, <1>2, <1>4, <2>2, Sizes
    <3>2. Die(Address + i) = 0 /\ Die(Address) = 0
      BY <1>1, <2>4, <3>1, OneDie
    <3> QED BY <1>1, <2>1, <3>2
  <2> QED BY <2>3, <2>4, GeometryAssumption
<1>5. CASE mode = "parallel"
  <2>1. Address % 2 = 0
    BY <1>5 DEF Inv, Banks
  <2>2. RealAddr = Address \div 2
    BY <1>5 DEF RealAddr
  <2>3. /\ RealAddr \in Nat
        /\ RealAddr + i \in Nat
        /\ Address + 2 * i \in Nat
        /\ RealAddr + i = (Address + 2 * i) \div 2
        /\ 2 * i \in 0 .. data_len - 1
    BY <1>1, <1>5, <2>1, <2>2
  <2>4. CASE NumDie > 1
    <3>1. bank_size = 2 * SIXTEENMB
      BY <1>5, <2>4 DEF Inv, Banks
    <3>2. (Address + 2 * i) \div (2 * SIXTEENMB) = Address \div (2 * SIXTEENMB)
      BY <2>3, <2>4, <3>1, SameBank
    <3>3. /\ (RealAddr + i) \div SIXTEENMB = (Address + 2 * i) \div (2 * SIXTEENMB)
          /\ RealAddr \div SIXTEENMB = Address \div (2 * SIXTEENMB)
      BY <1>1, <2>2, <2>3, GeometryAssumption, DivHalf
    <3> QED BY <2>3, <3>2, <3>3 DEF Die
  <2>5. CASE NumDie = 1
    <3>1. RealAddr + i < ChipSize /\ RealAddr < ChipSize
      BY <1>1, <1>2, <1>5, <2>1, <2>2, <2>3, Sizes
    <3>2. Die(RealAddr + i) = 0 /\ Die(RealAddr) = 0
      BY <2>3, <2>5, <3>1, OneDie
    <3> QED BY <2>3, <3>2
  <2> QED BY <2>4, <2>5, GeometryAssumption
<1> QED BY <1>3, <1>4, <1>5

\* So a transfer gives the units of the flash from the next address on.
LEMMA ReceivedRight ==
  ASSUME Inv, mode # "stacked", pc = "read", remain_len > 0
  PROVE  Received(RealAddr, data_len) = [i \in 1 .. data_len |-> Address + i - 1]
<1>1. Address \in Nat /\ remain_len \in Nat \ {0} /\ data_len \in 1 .. remain_len
  BY Sizes, DataLenFits DEF Inv, TypeOK, Units
<1>2. ASSUME NEW i \in Nat,
             IF mode = "parallel" THEN 2 * i <= data_len - 1 ELSE i <= data_len - 1
      PROVE  Wrapped(RealAddr, i) = RealAddr + i
  <2>1. /\ RealAddr \in Nat
        /\ Die(RealAddr + i) = Die(RealAddr)
    BY <1>2, SameDie
  <2>2. Die(RealAddr) \in Nat
    <3>1. RealAddr \div SIXTEENMB \in Nat
      BY <2>1, GeometryAssumption, DivNat
    <3> QED BY <3>1, GeometryAssumption, DivNat DEF Die
  <2> QED BY <2>1, <2>2, Sizes DEF Wrapped
<1>3. mode = "single" \/ mode = "parallel"
  BY ModeAssumption DEF Inv, TypeOK
<1>4. CASE mode = "single"
  <2>1. ASSUME NEW i \in 1 .. data_len
        PROVE  Wrapped(RealAddr, i - 1) = Address + i - 1
    <3>1. i - 1 \in Nat /\ i - 1 <= data_len - 1
      BY <1>1
    <3>2. Wrapped(RealAddr, i - 1) = RealAddr + (i - 1)
      BY <1>2, <1>4, <3>1
    <3>3. RealAddr = Address
      BY <1>4 DEF RealAddr
    <3> QED BY <1>1, <3>2, <3>3
  <2>2. Received(RealAddr, data_len) = [i \in 1 .. data_len |-> 0 + Wrapped(RealAddr, i - 1)]
    BY <1>4, Zenon DEF Received
  <2>3. ASSUME NEW i \in 1 .. data_len
        PROVE  0 + Wrapped(RealAddr, i - 1) = Address + i - 1
    BY <1>1, <2>1
  <2> QED BY <2>2, <2>3, Zenon
<1>5. CASE mode = "parallel"
  <2>1. Address % 2 = 0 /\ RealAddr = Address \div 2
    BY <1>5 DEF Inv, Banks, RealAddr
  <2>2. ASSUME NEW i \in 1 .. data_len
        PROVE  2 * Wrapped(RealAddr, (i - 1) \div 2) + ((i - 1) % 2)
                 = Address + i - 1
    <3> DEFINE h == (i - 1) \div 2
    <3>1. h \in Nat /\ 2 * h <= data_len - 1
      BY <1>1
    <3>2. Wrapped(RealAddr, h) = RealAddr + h
      <4> HIDE DEF h
      <4> QED BY <1>2, <1>5, <3>1
    <3>3. 2 * h + ((i - 1) % 2) = i - 1 /\ 2 * RealAddr = Address /\ RealAddr \in Nat
      BY <1>1, <2>1
    <3> QED BY <1>1, <3>1, <3>2, <3>3
  <2>3. Received(RealAddr, data_len)
          = [i \in 1 .. data_len |->
              2 * Wrapped(RealAddr, (i - 1) \div 2) + ((i - 1) % 2)]
    BY <1>5 DEF Received
  <2> QED BY <2>2, <2>3, Zenon
<1> QED BY <1>3, <1>4, <1>5

\* Reading on makes what has been read longer.
LEMMA Longer ==
  ASSUME NEW a \in Nat, NEW k \in Nat, NEW m \in Nat
  PROVE  [i \in 1 .. k |-> a + i - 1] \o [i \in 1 .. m |-> a + k + i - 1]
           = [i \in 1 .. k + m |-> a + i - 1]
<1> DEFINE s == [i \in 1 .. k |-> a + i - 1]
           t == [i \in 1 .. m |-> a + k + i - 1]
           u == [i \in 1 .. k + m |-> a + i - 1]
<1>1. s \in Seq(Int) /\ t \in Seq(Int) /\ u \in Seq(Int)
  OBVIOUS
<1>2. Len(s) = k /\ Len(t) = m /\ Len(u) = k + m
  OBVIOUS
<1>3. Len(s \o t) = Len(u) /\ s \o t \in Seq(Int)
  BY <1>1, <1>2
<1>4. ASSUME NEW i \in 1 .. k + m PROVE (s \o t)[i] = u[i]
  <2>1. CASE i <= k
    BY <1>1, <1>2, <2>1
  <2>2. CASE i > k
    BY <1>1, <1>2, <2>2
  <2> QED BY <2>1, <2>2
<1> HIDE DEF s, t, u
<1>5. s \o t = u
  BY <1>1, <1>2, <1>3, <1>4, SeqEqual
<1> QED BY <1>5 DEF s, t, u

-----------------------------------------------------------------------------
(* The loop.                                                               *)

\* The modes that MultiDieRead handles.
NotStacked == "stacked" \notin Mode

\* Before the first call nothing has been read.
LEMMA InvInit == Init => Inv
<1> SUFFICES ASSUME Init PROVE Inv
  OBVIOUS
<1>1. 0 \in Units
  BY Sizes DEF Units
<1>2. mode \in {"single", "stacked", "parallel"}
  BY ModeAssumption DEF Init
<1>3. TypeOK
  <2>1. MayRead(mode, first, count)
    BY <1>2, Sizes DEF Init, MayRead
  <2>2. buffer \in Seq(Units)
    BY DEF Init
  <2> QED BY <1>1, <2>1, <2>2 DEF Init, TypeOK
<1>4. Progress
  BY DEF Init, Progress
<1>5. Banks
  BY DEF Init, Banks
<1> QED BY <1>3, <1>4, <1>5 DEF Inv

\* Calls, transfers, failures and ends keep the invariant.
LEMMA InvNext ==
  ASSUME NotStacked
  PROVE  Inv /\ [Next]_vars => Inv'
<1> SUFFICES ASSUME Inv, [Next]_vars PROVE Inv'
  OBVIOUS
<1>1. mode = "single" \/ mode = "parallel"
  BY ModeAssumption DEF NotStacked, Inv, TypeOK
<1>2. first \in Nat /\ count \in Nat /\ Address \in Nat /\ remain_len \in Nat
  BY Sizes DEF Inv, TypeOK, Units
<1>3. ASSUME NEW a \in Units, NEW n \in Units \ {0}, Call(a, n)
      PROVE  Inv'
  <2>1. a \in Nat /\ n \in Nat /\ 0 \in Units
    BY Sizes DEF Units
  <2>2. bank_size' = IF NumDie > 1 THEN IF mode = "parallel" THEN 2 * SIXTEENMB
                                                              ELSE SIXTEENMB
                                   ELSE 0
    BY <1>1, <1>3 DEF Call, BankSize
  <2>3. bank_size' \in Units
    <3>1. CASE NumDie > 1
      <4>1. SIXTEENMB <= DieSize
        BY GeometryAssumption DEF DieSize
      <4>2. DieSize <= ChipSize
        BY GeometryAssumption, Sizes DEF ChipSize
      <4> QED BY <1>1, <2>2, <3>1, <4>1, <4>2, Sizes, GeometryAssumption DEF Units
    <3>2. CASE ~(NumDie > 1)
      BY <2>1, <2>2, <3>2
    <3> QED BY <3>1, <3>2
  <2>4. TypeOK'
    BY <1>3, <2>3 DEF Inv, TypeOK, Call, MayRead
  <2>5. Progress'
    BY <1>3, <2>1 DEF Progress, Call
  <2>6. Banks'
    BY <1>1, <1>3, <2>2 DEF Banks, Call, MayRead
  <2> QED BY <2>4, <2>5, <2>6 DEF Inv
<1>4. CASE Transfer
  <2>1. data_len \in 1 .. remain_len
    BY <1>4, DataLenFits DEF Transfer
  <2>2. Received(RealAddr, data_len) = [i \in 1 .. data_len |-> Address + i - 1]
    BY <1>1, <1>4, ReceivedRight DEF Transfer
  <2>3. /\ Address' = Address + data_len
        /\ remain_len' = remain_len - data_len
        /\ UNCHANGED <<mode, first, count, pc, bank_size>>
    BY <1>4 DEF Transfer, RemainNow, call
  <2>4. /\ Address \in Units /\ remain_len \in Units
        /\ Address + remain_len \in Units
        /\ first <= Address
    <3>1. first + count <= 2 * ChipSize
      BY <1>1, <1>2, Sizes DEF Inv, TypeOK, MayRead
    <3> QED BY <1>2, <3>1, Sizes DEF Inv, TypeOK, Progress, Units
  <2>5. Address' \in Units /\ remain_len' \in Units
    BY <1>2, <2>1, <2>3, <2>4, Sizes DEF Units
  <2>6. Progress'
    <3> DEFINE k == Address - first
    <3>1. k \in Nat /\ data_len \in Nat /\ Address = first + k
      BY <1>2, <2>1, <2>4
    <3>2. buffer = [i \in 1 .. k |-> first + i - 1]
      BY DEF Inv, Progress
    <3> HIDE DEF k
    <3>3. buffer' = [i \in 1 .. k + data_len |-> first + i - 1]
      BY <1>2, <1>4, <2>2, <3>1, <3>2, Longer DEF Transfer
    <3>4. k + data_len = Address' - first'
      BY <1>2, <2>3, <3>1
    <3>5. buffer' = [i \in 1 .. Address' - first' |-> first' + i - 1]
      BY <2>3, <3>3, <3>4
    <3>6. /\ first' <= Address'
          /\ Address' + remain_len' = first' + count'
      BY <1>2, <2>1, <2>3, <2>4 DEF Inv, Progress
    <3>7. pc' # "done"
      BY <1>4 DEF Transfer
    <3> QED BY <3>5, <3>6, <3>7 DEF Progress
  <2>7. TypeOK'
    <3>1. Received(RealAddr, data_len) \in Seq(Units)
      <4>1. ASSUME NEW i \in 1 .. data_len PROVE Address + i - 1 \in Units
        BY <1>2, <2>1, <2>4, Sizes DEF Units
      <4> QED BY <2>1, <2>2, <4>1
    <3>2. buffer' \in Seq(Units)
      BY <1>4, <3>1 DEF Inv, TypeOK, Transfer
    <3> QED BY <2>3, <2>5, <3>2 DEF Inv, TypeOK, MayRead
  <2>8. Banks'
    <3>1. ASSUME mode = "parallel", remain_len' > 0
          PROVE  Address' % 2 = 0
      <4>1. NumDie > 1 /\ data_len = transfer_len
        BY <1>2, <2>1, <2>3, <3>1 DEF data_len
      <4>2. bank_size = 2 * SIXTEENMB
        BY <1>4, <3>1, <4>1 DEF Transfer, Inv, Banks
      <4>3. cur_bank \in Nat
        BY <1>2, <4>2, Sizes, DivNat DEF cur_bank, Bank
      <4>4. Address' = bank_size * (cur_bank + 1)
        <5>1. bank_size * (cur_bank + 1) \in Nat
          BY <4>2, <4>3, Sizes
        <5> QED BY <1>2, <2>3, <4>1, <5>1 DEF transfer_len
      <4>5. PICK z \in Nat : z = SIXTEENMB * (cur_bank + 1)
        BY <4>3, GeometryAssumption
      <4>6. Address' = 2 * z
        BY <4>2, <4>3, <4>4, <4>5, GeometryAssumption
      <4> QED BY <4>6
    <3>2. NumDie > 1 => bank_size = IF mode = "parallel" THEN 2 * SIXTEENMB
                                                        ELSE SIXTEENMB
      BY <1>4 DEF Transfer, Inv, Banks
    <3> QED BY <2>3, <3>1, <3>2 DEF Banks
  <2> QED BY <2>6, <2>7, <2>8 DEF Inv
<1>5. CASE TransferFails \/ Finish
  <2>1. UNCHANGED <<mode, first, count, bank_size, Address, remain_len, buffer>>
    BY <1>5 DEF TransferFails, Finish, call
  <2>2. pc' = "failed" \/ (pc' = "done" /\ remain_len = 0)
    BY <1>5 DEF TransferFails, Finish
  <2>3. TypeOK'
    BY <2>1, <2>2 DEF Inv, TypeOK, MayRead
  <2>4. Progress' /\ Banks'
    BY <2>1, <2>2 DEF Inv, Progress, Banks
  <2> QED BY <2>3, <2>4 DEF Inv
<1>6. CASE UNCHANGED vars
  <2>1. TypeOK'
    BY <1>6 DEF Inv, TypeOK, MayRead, vars, call
  <2>2. Progress' /\ Banks'
    BY <1>6 DEF Inv, Progress, Banks, vars, call
  <2> QED BY <2>1, <2>2 DEF Inv
<1> QED BY <1>3, <1>4, <1>5, <1>6 DEF Next, Read

\* The invariant holds unless chips are stacked.
THEOREM Inductive ==
  ASSUME NotStacked
  PROVE  Spec => []Inv
<1>1. Init => Inv
  BY InvInit
<1>2. Inv /\ [Next]_vars => Inv'
  BY InvNext
<1> QED BY <1>1, <1>2, PTL DEF Spec

\* Types, for every geometry of single or parallel chips.
THEOREM TypeCorrect ==
  ASSUME NotStacked
  PROVE  Spec => []TypeOK
<1>1. Inv => TypeOK
  BY DEF Inv
<1>2. Spec => []Inv
  BY Inductive
<1> QED BY <1>1, <1>2, PTL

\* FlashRead and MultiDieRead give the units asked for, whatever the sizes
\* of banks, dies and chips.
THEOREM ReadsRight ==
  ASSUME NotStacked
  PROVE  Spec => []ReadRight
<1>1. Inv => ReadRight
  <2> SUFFICES ASSUME Inv, pc = "done"
               PROVE  buffer = [i \in 1 .. count |-> first + i - 1]
    BY DEF ReadRight
  <2>1. first \in Nat /\ count \in Nat /\ Address \in Nat
    BY Sizes DEF Inv, TypeOK, Units
  <2>2. Address - first = count
    BY <2>1 DEF Inv, Progress
  <2> QED BY <2>2 DEF Inv, Progress
<1>2. Spec => []Inv
  BY Inductive
<1> QED BY <1>1, <1>2, PTL

-----------------------------------------------------------------------------
(* The loop as one read.                                                   *)

\* Nothing has been called, and nothing was read.
LEMMA ReaderInit ==
  ASSUME Init
  PROVE  Reader!Init
<1>1. 0 \in Units
  BY Sizes DEF Units
<1> QED BY <1>1 DEF Init, Reader!Init

\* A call begins a read, the transfers are not seen, and the end of the loop
\* returns what the flash holds, or a failure.
LEMMA ReaderNext ==
  ASSUME NotStacked, Inv, [Next]_vars
  PROVE  [Reader!Next]_Reader!vars
<1> USE DEF Reader!vars, Reader!Next
<1>1. ASSUME NEW a \in Units, NEW n \in Units \ {0}, Call(a, n)
      PROVE  Reader!Call
  BY <1>1 DEF Call, Reader!Call, Inv, TypeOK
<1>2. CASE Transfer
  BY <1>2 DEF Transfer, call
<1>3. CASE TransferFails
  BY <1>3 DEF TransferFails, call, Reader!Return
<1>4. CASE Finish
  <2>1. buffer = [i \in 1 .. count |-> first + i - 1]
    <3>1. first \in Nat /\ count \in Nat /\ Address \in Nat
      BY Sizes DEF Inv, TypeOK, Units
    <3>2. Address - first = count
      BY <1>4, <3>1 DEF Inv, Progress, Finish
    <3> QED BY <3>2 DEF Inv, Progress
  <2> QED BY <1>4, <2>1 DEF Finish, call, Reader!Return, Reader!Held
<1>5. CASE UNCHANGED vars
  BY <1>5 DEF vars, call
<1> QED BY <1>1, <1>2, <1>3, <1>4, <1>5 DEF Next, Read

\* MultiDieRead implements one read of the flash, as far as safety goes:
\* however it splits a read, what it returns is what FlashReader promises.
THEOREM ImplementsReader ==
  ASSUME NotStacked
  PROVE  Spec => Reader!Safety
<1>1. Init => Reader!Init
  BY ReaderInit
<1>2. Inv /\ [Next]_vars => [Reader!Next]_Reader!vars
  BY ReaderNext
<1>3. Spec => []Inv
  BY Inductive
<1> QED BY <1>1, <1>2, <1>3, PTL DEF Spec, Reader!Safety
=============================================================================
