-------------------------------- MODULE EmacTx --------------------------------
(***************************************************************************)
(* Sending a frame (xemacpsif.c, xemacpsif_dma.c, and the parts of pbuf.c, *)
(* tcp_out.c and etharp.c that share its buffers).  A frame is a chain of  *)
(* buffers.  low_level_output puts each buffer into a descriptor of a ring *)
(* and refers to it until the MAC has sent the frame; TCP refers to a      *)
(* segment until it is acknowledged, and writes to it to send it again;    *)
(* ARP refers to what waits for the address of its receiver.               *)
(*                                                                         *)
(* low_level_output is a critical section: neither a thread nor the        *)
(* interrupt handler runs meanwhile, and no thread runs during the         *)
(* handler.  The MAC goes on all the time, so that both are several steps. *)
(*                                                                         *)
(* Names that receiving has as well (EmacRx) begin with "tx" here.         *)
(***************************************************************************)
EXTENDS Integers, Sequences, FiniteSets, SequencesExt

CONSTANTS
  Frames,    \* names for what is sent, used again once the buffers are free
  MaxParts,  \* buffers of a frame, at most
  NTxDesc,     \* XLWIP_CONFIG_N_TX_DESC: descriptors in the ring
  Few,       \* with so few free descriptors low_level_output frees some (5)
  None

ASSUME TxAssumption ==
  /\ MaxParts \in Nat \ {0} /\ NTxDesc \in Nat /\ MaxParts <= NTxDesc
  /\ Few \in Nat /\ None \notin Frames

TxDescs == 0..(NTxDesc - 1)
Pbufs == Frames \X (1..MaxParts)
NoPbuf == <<None, 0>>

VARIABLES
  own,    \* how lwIP refers to a frame: it does not ("none"), to send it
          \* "once", or as a segment that is "unsent" or "unacked"
  arpq,   \* frames in arp_table, which wait for an address
  parts,  \* buffers in the frame's chain
  ref,    \* p->ref
  txslot, \* tx_pbufs_storage
  used,   \* a descriptor's USED bit: it is not for the MAC to send
  last,   \* a descriptor's LAST bit: the frame ends with it
  \* From descriptor "txfirst" on come "txdone" descriptors taken back from
  \* the MAC, then "txhw" descriptors that belong to it.  The rest is free.
  txfirst, txdone, txhw,
  freed,  \* descriptors whose buffer process_sent_bds, or the handler of an
          \* error, has freed
  mac,    \* the MAC's next descriptor
  rd,     \* descriptors of the frame that the MAC is sending
  go,     \* the MAC looks for frames (STARTTX)
  txirq,  \* the interrupt for a frame sent is raised
  txisr,  \* the handler at work: emacps_send_handler ("send"), or that of an
          \* "error"
  out,    \* the frame in low_level_output
  at      \* and where that is

bufs == <<own, arpq, parts, ref>>
txring == <<txslot, used, last, txfirst, txdone, txhw, freed>>
device == <<mac, rd, go>>
txvars == <<bufs, txring, device, txirq, txisr, out, at>>

TxDesc(k) == (txfirst + k) % NTxDesc

TxInit ==
  /\ own = [f \in Frames |-> "none"] /\ arpq = {}
  /\ parts = [f \in Frames |-> 1]
  /\ ref = [p \in Pbufs |-> 0]
  /\ txslot = [i \in TxDescs |-> NoPbuf]
  /\ used = [i \in TxDescs |-> TRUE]
  /\ last = [i \in TxDescs |-> FALSE]
  /\ txfirst = 0 /\ txdone = 0 /\ txhw = 0 /\ freed = 0 /\ mac = 0 /\ rd = 0 /\ go = FALSE
  /\ txirq = FALSE /\ txisr = "no" /\ out = None /\ at = "off"

-----------------------------------------------------------------------------
(* References to buffers.                                                  *)

Chain(f) == {<<f, k>> : k \in 1..parts[f]}

\* pbuf_free: p loses a reference, and so does the next of the chain if p is
\* not referred to any more.
Deref(r, p) ==
  [q \in Pbufs |->
     IF /\ q \in Chain(p[1]) /\ q[2] >= p[2]
        /\ \A k \in p[2]..(q[2] - 1) : r[<<p[1], k>>] = 1
     THEN r[q] - 1 ELSE r[q]]

\* Fault: a segment is not looked at.
NeverBusy(f) == FALSE

\* tcp_output_segment_busy.
Busy(f) == ref[<<f, 1>>] # 1

\* No thread runs in an interrupt or in another's critical section.
Thread == txisr = "no" /\ out = None

-----------------------------------------------------------------------------
(* The MAC.                                                                *)

\* Descriptors from the MAC's on to the end of the frame.
FrameLength ==
  CHOOSE n \in 1..NTxDesc :
    /\ last[(mac + n - 1) % NTxDesc] \/ n = NTxDesc
    /\ \A k \in 1..(n - 1) : ~last[(mac + k - 1) % NTxDesc]

MacRead ==
  /\ go /\ rd = 0 /\ ~used[mac]
  /\ rd' = FrameLength
  /\ UNCHANGED <<bufs, txring, mac, go, txirq, txisr, out, at>>

\* The frame's first descriptor alone is marked.
MacSent ==
  /\ rd > 0
  /\ used' = [used EXCEPT ![mac] = TRUE]
  /\ mac' = (mac + rd) % NTxDesc
  /\ rd' = 0
  /\ txirq' = TRUE
  /\ UNCHANGED <<bufs, txslot, last, txfirst, txdone, txhw, freed, go, txisr, out, at>>

MacHalt ==
  /\ go /\ rd = 0 /\ used[mac]
  /\ go' = FALSE
  /\ UNCHANGED <<bufs, txring, mac, rd, txirq, txisr, out, at>>

Mac == MacRead \/ MacSent \/ MacHalt

-----------------------------------------------------------------------------
(* Taking descriptors back (process_sent_bds).                             *)

\* The descriptors, counted from txfirst, at which a frame begins that has
\* not been taken back.
Starts == {k \in txdone..(txdone + txhw - 1) :
             k = txdone \/ last[TxDesc(k - 1)]}

\* XEmacPs_BdRingFromHwTx: descriptors of the frames sent.
Sent == CHOOSE n \in 0..txhw :
          /\ n = txhw \/ (n \in Starts /\ ~used[TxDesc(n)])
          /\ \A k \in Starts : k < n => used[TxDesc(k)]

\* Who is in process_sent_bds: emacps_send_handler or low_level_output.
TakingBack == txisr = "send" \/ at = "take back"

\* A round of its outer loop begins.
FromHw ==
  /\ TakingBack /\ txdone = 0 /\ Sent > 0
  /\ txdone' = Sent /\ txhw' = txhw - Sent
  /\ UNCHANGED <<bufs, txslot, used, last, txfirst, freed, device, txirq, txisr,
                 out, at>>

\* The next descriptor of the round; after the last all are free.
FreeSent ==
  /\ TakingBack /\ txdone > 0
  /\ LET i == TxDesc(freed) IN
       /\ used' = [used EXCEPT ![i] = TRUE]
       /\ last' = [last EXCEPT ![i] = FALSE]
       /\ ref' = Deref(ref, txslot[i])
       /\ txslot' = [txslot EXCEPT ![i] = NoPbuf]
  /\ IF freed + 1 < txdone
     THEN freed' = freed + 1 /\ UNCHANGED <<txfirst, txdone>>
     ELSE txfirst' = TxDesc(txdone) /\ txdone' = 0 /\ freed' = 0
  /\ UNCHANGED <<own, arpq, parts, txhw, device, txirq, txisr, out, at>>

\* emacps_send_handler.
SendIntr ==
  /\ txirq /\ Thread
  /\ txirq' = FALSE
  /\ txisr' = "send"
  /\ UNCHANGED <<bufs, txring, device, out, at>>

IntrReturn ==
  /\ txisr = "send" /\ txdone = 0 /\ Sent = 0
  /\ txisr' = "no"
  /\ UNCHANGED <<bufs, txring, device, txirq, out, at>>

\* All frames are given up.  HandleTxErrors stops the MAC before it frees
\* their buffers, HandleEmacPsError does not.
TxError ==
  /\ Thread
  /\ txisr' = "error"
  /\ (go' = FALSE /\ rd' = 0) \/ UNCHANGED <<go, rd>>
  /\ UNCHANGED <<bufs, txring, mac, txirq, out, at>>

\* free_onlytx_pbufs, free_txrx_pbufs: one descriptor after another; after
\* the last the ring is set up anew.
GiveUp ==
  /\ txisr = "error"
  /\ ref' = IF txslot[freed] = NoPbuf THEN ref ELSE Deref(ref, txslot[freed])
  /\ txslot' = [txslot EXCEPT ![freed] = NoPbuf]
  /\ IF freed + 1 < NTxDesc
     THEN /\ freed' = freed + 1
          /\ UNCHANGED <<used, last, txfirst, txhw, device, txisr>>
     ELSE /\ freed' = 0
          /\ used' = [i \in TxDescs |-> TRUE]
          /\ last' = [i \in TxDescs |-> FALSE]
          /\ txfirst' = 0 /\ txhw' = 0 /\ mac' = 0 /\ rd' = 0 /\ go' = FALSE
          /\ txisr' = "no"
  /\ UNCHANGED <<own, arpq, parts, txdone, txirq, out, at>>

TxInterrupt ==
  \/ SendIntr \/ IntrReturn \/ GiveUp
  \/ txisr = "send" /\ (FromHw \/ FreeSent)

-----------------------------------------------------------------------------
(* low_level_output.                                                       *)

\* Fault: descriptors that the MAC has are counted as well.
AllDescs == NTxDesc

\* XEmacPs_BdRingGetFreeCnt.
FreeCnt == NTxDesc - txdone - txhw

\* What may be sent: by whoever made it, or by ARP when the address is known
\* (etharp_update_arp_entry).
Ready == {f \in Frames : own[f] \in {"once", "unsent"}} \union arpq

Enter(f) ==
  /\ Thread /\ f \in Ready
  /\ out' = f
  /\ at' = IF FreeCnt <= Few THEN "take back" ELSE "fill"
  /\ UNCHANGED <<bufs, txring, device, txirq, txisr>>

OutTakeBack == at = "take back" /\ (FromHw \/ FreeSent)

OutTakenBack ==
  /\ at = "take back" /\ txdone = 0 /\ Sent = 0
  /\ at' = "fill"
  /\ UNCHANGED <<bufs, txring, device, txirq, txisr, out>>

\* The caller after low_level_output: ARP frees the frame, and so does who has
\* sent it once; a segment stays where it is unless the driver has taken it.
Leave(r, taken) ==
  /\ out' = None /\ at' = "off"
  /\ arpq' = arpq \ {out}
  /\ IF out \in arpq \/ own[out] = "once"
     THEN /\ own' = IF out \in arpq THEN own ELSE [own EXCEPT ![out] = "none"]
          /\ ref' = Deref(r, <<out, 1>>)
     ELSE /\ own' = IF taken THEN [own EXCEPT ![out] = "unacked"] ELSE own
          /\ ref' = r

\* There are too few descriptors (XEmacPs_BdRingAlloc).
NoSpace ==
  /\ at = "fill" /\ FreeCnt < parts[out]
  /\ Leave(ref, FALSE)
  /\ UNCHANGED <<parts, txring, device, txirq, txisr>>

\* Fault: the first buffer alone is referred to.
RefHead(f) == {<<f, 1>>}

\* The buffers that emacps_sgsend refers to.
Referred(f) == Chain(f)

\* The descriptor of the frame's buffer k.
DescOf(k) == TxDesc(txdone + txhw + k - 1)

\* emacps_sgsend, up to the loop that clears the USED bits.  Its check that
\* the slots are empty (FreeSlotsEmpty) is left out.
SgSend ==
  /\ at = "fill" /\ FreeCnt >= parts[out]
  /\ LET n == parts[out]
         part(i) == CHOOSE k \in 1..n : DescOf(k) = i
         mine == {DescOf(k) : k \in 1..n} IN
       /\ txslot' = [i \in TxDescs |->
                     IF i \in mine THEN <<out, part(i)>> ELSE txslot[i]]
       /\ last' = [i \in TxDescs |-> IF i \in mine THEN part(i) = n ELSE last[i]]
       /\ ref' = [p \in Pbufs |-> IF p \in Referred(out)
                                  THEN ref[p] + 1 ELSE ref[p]]
  /\ at' = "rest"
  /\ UNCHANGED <<own, arpq, parts, used, txfirst, txdone, txhw, freed, device, txirq,
                 txisr, out>>

\* Fault: the first descriptor is not left for the end.
HeadFirst == {1}

\* The buffers whose descriptors' USED bits are cleared before the others.
ClearedFirst == 2..parts[out]

Clear(ks) ==
  used' = [i \in TxDescs |-> used[i] /\ i \notin {DescOf(k) : k \in ks}]

ClearRest ==
  /\ at = "rest"
  /\ Clear(ClearedFirst)
  /\ at' = "head"
  /\ UNCHANGED <<bufs, txslot, last, txfirst, txdone, txhw, freed, device, txirq,
                 txisr, out>>

\* The last USED bit, and XEmacPs_BdRingToHw.
ClearHead ==
  /\ at = "head"
  /\ Clear(1..parts[out] \ ClearedFirst)
  /\ txhw' = txhw + parts[out]
  /\ at' = "start"
  /\ UNCHANGED <<bufs, txslot, last, txfirst, txdone, freed, device, txirq, txisr,
                 out>>

\* Fault: a MAC that has halted is not started again.
StartedBefore == go

\* XEMACPS_NWCTRL_STARTTX_MASK.
Started == TRUE

StartTx ==
  /\ at = "start"
  /\ go' = Started
  /\ Leave(ref, TRUE)
  /\ UNCHANGED <<parts, txring, mac, rd, txirq, txisr>>

Output == \/ OutTakeBack \/ OutTakenBack \/ NoSpace \/ SgSend
          \/ ClearRest \/ ClearHead \/ StartTx

-----------------------------------------------------------------------------
(* lwIP.                                                                   *)

\* A chain is allocated, for a message or as a segment (tcp_pbuf_prealloc,
\* tcp_create_segment).
Allocate(f) ==
  /\ Thread /\ own[f] = "none" /\ \A p \in Pbufs : p[1] = f => ref[p] = 0
  /\ \E n \in 1..MaxParts, how \in {"once", "unsent"} :
       /\ parts' = [parts EXCEPT ![f] = n]
       /\ own' = [own EXCEPT ![f] = how]
       /\ ref' = [p \in Pbufs |->
                    IF p[1] = f /\ p[2] <= n THEN 1 ELSE ref[p]]
  /\ UNCHANGED <<arpq, txring, device, txirq, txisr, out, at>>

\* tcp_rexmit_rto_prepare for all segments, tcp_rexmit for one; neither goes
\* on when it meets one that is busy.
Retransmit ==
  /\ Thread
  /\ LET unacked == {f \in Frames : own[f] = "unacked"} IN
       \E S \in {unacked} \union {{f} : f \in unacked} :
         /\ S # { } /\ \A f \in S : ~Busy(f)
         /\ own' = [f \in Frames |-> IF f \in S THEN "unsent" ELSE own[f]]
  /\ UNCHANGED <<arpq, parts, ref, txring, device, txirq, txisr, out, at>>

\* A segment is acknowledged, or its connection ends (tcp_seg_free); a message
\* gets no further than etharp_query.
FreeSegment(f) ==
  /\ Thread /\ own[f] # "none"
  /\ own' = [own EXCEPT ![f] = "none"]
  /\ ref' = Deref(ref, <<f, 1>>)
  /\ UNCHANGED <<arpq, parts, txring, device, txirq, txisr, out, at>>

\* etharp_query when the address is not known: ARP refers to the frame, which
\* then is sent as far as its caller can tell (Leave).
Queue(f) ==
  /\ Thread /\ own[f] \in {"once", "unsent"}
  /\ arpq' = arpq \union {f}
  /\ IF own[f] = "once"
     THEN own' = [own EXCEPT ![f] = "none"] /\ UNCHANGED ref
     ELSE /\ own' = [own EXCEPT ![f] = "unacked"]
          /\ ref' = [ref EXCEPT ![<<f, 1>>] = @ + 1]
  /\ UNCHANGED <<parts, txring, device, txirq, txisr, out, at>>

\* ARP gives the frame up: nobody has answered, its place in the table is
\* needed, or the queue is full.
Dequeue(f) ==
  /\ Thread /\ f \in arpq
  /\ arpq' = arpq \ {f}
  /\ ref' = Deref(ref, <<f, 1>>)
  /\ UNCHANGED <<own, parts, txring, device, txirq, txisr, out, at>>

TxNext ==
  \/ Mac \/ TxInterrupt \/ Output \/ TxError \/ Retransmit
  \/ \E f \in Frames :
       Allocate(f) \/ Enter(f) \/ FreeSegment(f) \/ Queue(f) \/ Dequeue(f)

TxSpec == TxInit /\ [][TxNext]_txvars

\* The MAC sends, its interrupt is served, and a critical section is gone
\* through.
TxFairSpec == TxSpec /\ WF_txvars(Mac) /\ WF_txvars(TxInterrupt) /\ WF_txvars(Output)

-----------------------------------------------------------------------------
(* Properties.                                                             *)

TxTypeOK ==
  /\ own \in [Frames -> {"none", "once", "unsent", "unacked"}]
  /\ arpq \subseteq Frames
  /\ parts \in [Frames -> 1..MaxParts]
  /\ ref \in [Pbufs -> 0..3]
  /\ txslot \in [TxDescs -> Pbufs \union {NoPbuf}]
  /\ used \in [TxDescs -> BOOLEAN] /\ last \in [TxDescs -> BOOLEAN]
  /\ txfirst \in TxDescs /\ txdone \in 0..NTxDesc /\ txhw \in 0..NTxDesc
  /\ txdone + txhw <= NTxDesc /\ freed \in TxDescs
  /\ mac \in TxDescs /\ rd \in 0..NTxDesc /\ go \in BOOLEAN
  /\ txirq \in BOOLEAN /\ txisr \in {"no", "send", "error"}
  /\ out \in Frames \union {None}
  /\ at \in {"off", "take back", "fill", "rest", "head", "start"}
  /\ (at = "off") = (out = None)

\* Descriptors that the driver has filled: those handed over, and those of
\* the frame it is working on.
Filled ==
  txdone + txhw + (IF at \in {"rest", "head"} THEN parts[out] ELSE 0)

\* A descriptor that is free refers to no buffer, so that emacps_sgsend never
\* returns half-way with descriptors that nobody would take back; and one that
\* is in use refers to one until process_sent_bds has freed it.
FreeSlotsEmpty ==
  \A k \in 0..(NTxDesc - 1) :
    /\ k >= Filled => txslot[TxDesc(k)] = NoPbuf
    /\ txisr # "error" =>
         (txslot[TxDesc(k)] = NoPbuf) = (k < freed \/ k >= Filled)

\* The references of lwIP and ARP to a frame.
Held(f) == (IF own[f] # "none" THEN 1 ELSE 0) + (IF f \in arpq THEN 1 ELSE 0)

\* A buffer has as many references as there are places that refer to it: it
\* is neither freed while the MAC, TCP or ARP needs it nor kept for ever.
RefCounts ==
  \A f \in Frames : \A k \in 1..parts[f] :
    ref[<<f, k>>] =
      (IF k = 1 THEN Held(f)
                ELSE (IF ref[<<f, k - 1>>] > 0 THEN 1 ELSE 0))
      + Cardinality({i \in TxDescs : txslot[i] = <<f, k>>})

\* What the MAC may send, or is sending, is a whole frame: all buffers of one
\* chain in their order, all for it to send.  While the frames are given up
\* after an error on the bus this need not hold (free_txrx_pbufs).
FrameWhole ==
  txisr # "error" /\ go /\ ~used[mac] =>
    \E f \in Frames :
      /\ FrameLength = parts[f]
      /\ \A k \in 1..parts[f] : LET i == (mac + k - 1) % NTxDesc IN
           txslot[i] = <<f, k>> /\ ~used[i]

\* A segment about to be written to and sent is not on its way already
\* (tcp_output_segment: "This should not happen").
UnsentNotInDriver ==
  \A f \in Frames : own[f] = "unsent" /\ out # f =>
    ~Busy(f) /\ \A i \in TxDescs : txslot[i][1] # f

\* Frames leave in the order in which the threads have sent them, each once
\* at most.
OnTheirWay ==
  LET begins == {k \in Starts : ~used[TxDesc(k)] /\ txisr # "error"}
      starts == SetToSortSeq(begins, <) IN
    [j \in 1..Len(starts) |-> txslot[TxDesc(starts[j])][1]]
TxChannel == INSTANCE FrameChannel WITH chan <- OnTheirWay
TxInOrder == TxChannel!Spec

\* The driver lets go of every buffer again.
InDriver(f) == \E i \in TxDescs : txslot[i][1] = f
Released == \A f \in Frames : InDriver(f) ~> ~InDriver(f)
=============================================================================
