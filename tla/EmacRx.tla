-------------------------------- MODULE EmacRx --------------------------------
(***************************************************************************)
(* Receiving a frame (xemacpsif_dma.c, xemacpsif.c, xadapter.c, xpqueue.c  *)
(* and the input side of tcpip.c and pbuf.c).  The MAC stores frames in    *)
(* pool buffers that it finds in a ring of descriptors, its interrupt      *)
(* moves them to a queue and puts other buffers in their place, the input  *)
(* thread takes them from the queue and posts them to tcpip_thread, which  *)
(* keeps some of them.  All buffers come from one pool.                    *)
(*                                                                         *)
(* The interrupt handler runs to its end before a thread goes on, but the  *)
(* MAC receives all the time: the handler is a step per descriptor.        *)
(***************************************************************************)
EXTENDS Integers, Sequences, FiniteSets

CONSTANTS
  NBuf,        \* PBUF_POOL_SIZE: buffers in the pool
  NDesc,       \* XLWIP_CONFIG_N_RX_DESC: descriptors in the ring
  QSize,       \* PQ_QUEUE_SIZE
  MboxSize,    \* messages that tcpip_mbox takes (TCPIP_MBOX_SIZE)
  MaxHeld      \* buffers of data that the receive windows let through

Bufs == 1..NBuf
Descs == 0..(NDesc - 1)
NoBuf == 0

\* init_dma fills the ring; the application side cannot hold all the rest.
ASSUME RxAssumption ==
  /\ NBuf \in Nat /\ NDesc \in Nat \ {0} /\ QSize \in Nat \ {0}
  /\ MboxSize \in Nat \ {0} /\ MaxHeld \in Nat
  /\ NDesc <= NBuf /\ MaxHeld < NBuf

\* The message pbuf_free_ooseq_callback, among messages that are buffers.
Callback == 0

VARIABLES
  free,     \* the buffers in the pool
  \* The ring: storage is rx_pbufs_storage; from descriptor "first" on come
  \* "done" descriptors taken back from the MAC, then "hw" descriptors that
  \* belong to it, the first "got" of which hold frames.  The rest is free.
  storage, first, done, hw, got,
  \* recv_q:
  head, tail, len, slot,
  \* Interrupts that are raised: a frame received ("recv"), no buffer found
  \* for a frame ("nobuf").
  irq,
  isr,      \* where the handler is
  moved,    \* descriptors of the batch whose frame is in the queue
  left,     \* freebds: descriptors that setup_rx_bds has yet to fill
  again,    \* emacps_error_handler calls setup_rx_bds once more
  sem,      \* sem_rx_data_available
  inp,      \* where xemacif_input_thread is
  seen,     \* the length of the queue it has read
  cur,      \* the buffer it has taken
  mbox,     \* tcpip_mbox
  pending,  \* pbuf_free_ooseq_pending
  ooseq,    \* buffers of segments that came too early
  held,     \* buffers of data that the application has not read
  corrupt   \* history: a buffer was given back by somebody who did not own it

ring == <<storage, first, done, hw, got>>
queue == <<head, tail, len, slot>>
handler == <<isr, moved, left, again>>
thread == <<inp, seen, cur>>
stack == <<mbox, pending, ooseq, held>>
vars == <<free, ring, queue, irq, handler, sem, thread, stack, corrupt>>

Desc(k) == (first + k) % NDesc

\* Fault: descriptors that the MAC has are counted as well.
FreeDescsAll == NDesc - done

\* XEmacPs_BdRingGetFreeCnt.
FreeDescs == NDesc - done - hw

Init ==
  /\ free = Bufs \ 1..NDesc
  /\ storage = [i \in Descs |-> i + 1]
  /\ first = 0 /\ done = 0 /\ hw = NDesc /\ got = 0
  /\ head = 0 /\ tail = 0 /\ len = 0
  /\ slot = [i \in 0..(QSize - 1) |-> NoBuf]
  /\ irq = { }
  /\ isr = "idle" /\ moved = 0 /\ left = 0 /\ again = FALSE
  /\ sem = FALSE
  /\ inp = "wait" /\ seen = 0 /\ cur = NoBuf
  /\ mbox = << >> /\ pending = FALSE /\ ooseq = { } /\ held = { }
  /\ corrupt = FALSE

\* pbuf_free of buffers that nobody else refers to.
Freed(S) == free' = free \union S

-----------------------------------------------------------------------------
(* The MAC.                                                                *)

\* A frame is stored in the next descriptor that belongs to the MAC.
Receive ==
  /\ got < hw /\ isr # "init"
  /\ got' = got + 1
  /\ irq' = irq \union {"recv"}
  /\ UNCHANGED <<free, storage, first, done, hw, queue, handler, sem, thread,
                 stack, corrupt>>

\* There is no such descriptor; the frame is lost.
Miss ==
  /\ got = hw /\ isr # "init"
  /\ irq' = irq \union {"nobuf"}
  /\ UNCHANGED <<free, ring, queue, handler, sem, thread, stack, corrupt>>

-----------------------------------------------------------------------------
(* The interrupt handler.  The input thread masks interrupts while it      *)
(* takes a buffer from the queue.                                          *)

\* Fault: SYS_ARCH_PROTECT is forgotten.
MaskedNever == FALSE

Masked == inp = "take"

Interrupt == isr = "idle" /\ ~Masked

\* emacps_recv_handler, called for a frame, or by emacps_error_handler for
\* a frame that found no buffer.
EnterRecv ==
  /\ Interrupt /\ irq # { }
  /\ again' = ("recv" \notin irq)
  /\ irq' = irq \ (IF "recv" \in irq THEN {"recv"} ELSE {"nobuf"})
  /\ isr' = "scan"
  /\ UNCHANGED <<free, ring, queue, moved, left, sem, thread, stack, corrupt>>

\* HandleEmacPsError, after an error on the bus: free_txrx_pbufs frees what
\* every slot of rx_pbufs_storage refers to, and the device and the ring are
\* set up anew.
EnterReset ==
  /\ Interrupt
  /\ Freed({storage[i] : i \in Descs})
  /\ corrupt' = (FreeDescs > 0)
  /\ first' = 0 /\ done' = 0 /\ hw' = 0 /\ got' = 0
  /\ isr' = "init"
  /\ left' = NDesc
  /\ again' = ("nobuf" \in irq)
  /\ irq' = { }
  /\ UNCHANGED <<storage, queue, moved, sem, thread, stack>>

\* XEmacPs_BdRingFromHwRx: the frames that there are now make up a batch.
\* Without any the input thread is woken, and the handler is at its end.
Batch ==
  /\ isr = "scan" /\ got > 0
  /\ done' = got /\ hw' = hw - got /\ got' = 0
  /\ moved' = 0
  /\ isr' = "move"
  /\ UNCHANGED <<free, storage, first, queue, irq, left, again, sem, thread,
                 stack, corrupt>>

Signal ==
  /\ isr = "scan" /\ got = 0
  /\ sem' = TRUE
  /\ isr' = IF again /\ FreeDescs > 0 THEN "refill" ELSE "idle"
  /\ left' = IF again THEN FreeDescs ELSE 0
  /\ again' = FALSE
  /\ UNCHANGED <<free, ring, queue, irq, moved, thread, stack, corrupt>>

\* The next frame of the batch goes to recv_q (pq_enqueue), or back to the
\* pool when recv_q is full.  After the last the descriptors are freed.
Move ==
  /\ isr = "move"
  /\ LET b == storage[Desc(moved)] IN
       IF len = QSize
       THEN Freed({b}) /\ UNCHANGED queue
       ELSE /\ slot' = [slot EXCEPT ![head] = b]
            /\ head' = (head + 1) % QSize
            /\ len' = len + 1
            /\ UNCHANGED <<tail, free>>
  /\ IF moved + 1 < done
     THEN moved' = moved + 1 /\ UNCHANGED <<isr, left, first, done>>
     ELSE /\ first' = (first + done) % NDesc
          /\ done' = 0 /\ moved' = 0
          /\ left' = NDesc - hw
          /\ isr' = "fill"
  /\ UNCHANGED <<storage, hw, got, irq, again, sem, thread, stack, corrupt>>

\* The loops of setup_rx_bds and init_dma, which allocate a buffer for each
\* free descriptor and give up when the pool is empty.
Filling == isr \in {"fill", "refill", "init"}

\* Where the handler goes on after such a loop.
AfterFill == IF isr = "fill" \/ (isr = "init" /\ again) THEN "scan" ELSE "idle"

Fill ==
  /\ Filling /\ free # { }
  /\ LET b == CHOOSE c \in free : TRUE IN
       /\ free' = free \ {b}
       /\ storage' = [storage EXCEPT ![Desc(done + hw)] = b]
  /\ hw' = hw + 1
  /\ left' = left - 1
  /\ isr' = IF left = 1 THEN AfterFill ELSE isr
  /\ UNCHANGED <<first, done, got, queue, irq, moved, again, sem, thread,
                 stack, corrupt>>

\* Fault: pbuf_free_ooseq_pending is not taken back.
AskedAlways == TRUE

\* pbuf_pool_is_empty: a request to free early segments is posted unless one
\* is under way; when it cannot be posted, none is.  Only the mailbox may be
\* full: of the eight messages in MEMP_TCPIP_MSG_API's pool (opt.h:554) nothing
\* else in this program takes one, and a request takes one only when the last
\* is being served.
Asked == Len(mbox) < MboxSize

PoolEmpty ==
  /\ Filling /\ free = { }
  /\ pending' = (pending \/ Asked)
  /\ mbox' = IF ~pending /\ Len(mbox) < MboxSize
             THEN Append(mbox, Callback) ELSE mbox
  /\ isr' = AfterFill
  /\ left' = 0
  /\ UNCHANGED <<free, ring, queue, irq, moved, again, sem, thread, ooseq,
                 held, corrupt>>

Handler == EnterRecv \/ Batch \/ Signal \/ Move \/ Fill \/ PoolEmpty

-----------------------------------------------------------------------------
(* xemacif_input_thread.                                                   *)

Wake ==
  /\ isr = "idle" /\ inp = "wait" /\ sem
  /\ sem' = FALSE
  /\ inp' = "look"
  /\ UNCHANGED <<free, ring, queue, irq, handler, seen, cur, stack, corrupt>>

\* low_level_input: nothing, or the first half of pq_dequeue.
Look ==
  /\ isr = "idle" /\ inp = "look"
  /\ seen' = len
  /\ inp' = IF len = 0 THEN "wait" ELSE "take"
  /\ UNCHANGED <<free, ring, queue, irq, handler, sem, cur, stack, corrupt>>

\* Fault: the slot is read after the tail has moved.
TakenAfter == (tail + 1) % QSize

Taken == tail

\* The second half of pq_dequeue; the slot is read no more before it is
\* written again.
Take ==
  /\ isr = "idle" /\ inp = "take"
  /\ cur' = slot[Taken]
  /\ slot' = [slot EXCEPT ![tail] = NoBuf]
  /\ tail' = (tail + 1) % QSize
  /\ len' = seen - 1
  /\ inp' = "pass"
  /\ UNCHANGED <<free, ring, head, irq, handler, sem, seen, stack, corrupt>>

\* Fault: one frame is read for each wake-up.
NextInputWaits == "wait"

\* Where the thread goes on after a frame.
NextInput == "look"

\* xemacpsif_input: a frame of a type that lwIP knows is posted to
\* tcpip_thread (tcpip_input); if the mailbox is full, or the type is
\* another, the buffer is freed.
Pass ==
  /\ isr = "idle" /\ inp = "pass"
  /\ \/ /\ Len(mbox) < MboxSize
        /\ mbox' = Append(mbox, cur)
        /\ UNCHANGED free
     \/ Freed({cur}) /\ UNCHANGED mbox
  /\ inp' = NextInput
  /\ cur' = NoBuf /\ seen' = 0
  /\ UNCHANGED <<ring, queue, irq, handler, sem, pending, ooseq, held, corrupt>>

InputThread == Wake \/ Look \/ Take \/ Pass

-----------------------------------------------------------------------------
(* tcpip_thread and the application.                                       *)

\* A frame is consumed, or kept as a segment that came too early, or as data
\* for the application, together with early segments that follow on it.
TcpipInput ==
  /\ isr = "idle" /\ mbox # << >> /\ Head(mbox) # Callback
  /\ mbox' = Tail(mbox)
  /\ \/ Freed({Head(mbox)}) /\ UNCHANGED <<ooseq, held>>
     \/ ooseq' = ooseq \union {Head(mbox)} /\ UNCHANGED <<free, held>>
     \/ \E S \in SUBSET ooseq :
          /\ held' = held \union {Head(mbox)} \union S
          /\ Cardinality(held') <= MaxHeld
          /\ ooseq' = ooseq \ S
          /\ UNCHANGED free
  /\ UNCHANGED <<ring, queue, irq, handler, sem, thread, pending, corrupt>>

\* pbuf_free_ooseq: the early segments of one connection are freed.
TcpipCallback ==
  /\ isr = "idle" /\ mbox # << >> /\ Head(mbox) = Callback
  /\ mbox' = Tail(mbox)
  /\ pending' = FALSE
  /\ \E S \in SUBSET ooseq :
       /\ S = { } => ooseq = { }
       /\ Freed(S)
       /\ ooseq' = ooseq \ S
  /\ UNCHANGED <<ring, queue, irq, handler, sem, thread, held, corrupt>>

\* The application has read the data of a buffer (lwip_recv_tcp), or its
\* connection ends (tcp_pcb_purge).
Release ==
  /\ isr = "idle"
  /\ \E b \in ooseq \union held :
       /\ Freed({b})
       /\ ooseq' = ooseq \ {b} /\ held' = held \ {b}
  /\ UNCHANGED <<ring, queue, irq, handler, sem, thread, mbox, pending, corrupt>>

Tcpip == TcpipInput \/ TcpipCallback

\* Nothing is said of what follows once the pool is corrupt.
Corrupted == corrupt /\ UNCHANGED vars

Next ==
  \/ /\ ~corrupt
     /\ Receive \/ Miss \/ EnterReset \/ Handler \/ InputThread \/ Tcpip
          \/ Release
  \/ Corrupted

Spec == Init /\ [][Next]_vars

\* The handler runs when an interrupt is raised and goes on to its end; the
\* threads get the processor again and again.
FairSpec ==
  /\ Spec
  /\ WF_vars(~corrupt /\ Handler)
  /\ SF_vars(~corrupt /\ InputThread)
  /\ SF_vars(~corrupt /\ Tcpip)

-----------------------------------------------------------------------------
(* Properties.                                                             *)

\* The buffers that are in the ring with a claim to it, in the queue and in
\* the mailbox, oldest first.
RingBufs == [k \in 1..(done + hw - moved) |-> storage[Desc(moved + k - 1)]]
QueueBufs == [k \in 1..len |-> slot[(tail + k - 1) % QSize]]
MboxBufs == SelectSeq(mbox, LAMBDA m : m # Callback)
CurBufs == IF inp = "pass" THEN <<cur>> ELSE << >>

\* Where buffer b is; a descriptor or a slot counts while it has a claim to
\* the buffer that it names.
RingSlots  == {Desc(k) : k \in moved..((done + hw) - 1)}
QueueSlots == {(tail + k) % QSize : k \in 0..(len - 1)}

Places(b) ==
  {<<"ring", i>>  : i \in {d \in RingSlots : storage[d] = b}} \union
  {<<"queue", i>> : i \in {d \in QueueSlots : slot[d] = b}} \union
  {<<"mbox", i>>  : i \in {k \in DOMAIN mbox : mbox[k] = b}} \union
  {<<"cur", i>>   : i \in {n \in {0} : inp = "pass" /\ cur = b}} \union
  {<<"free", i>>  : i \in {n \in {0} : b \in free}} \union
  {<<"ooseq", i>> : i \in {n \in {0} : b \in ooseq}} \union
  {<<"held", i>>  : i \in {n \in {0} : b \in held}}

TypeOK ==
  /\ free \subseteq Bufs
  /\ storage \in [Descs -> Bufs]
  /\ first \in Descs /\ done \in 0..NDesc /\ hw \in 0..NDesc
  /\ done + hw <= NDesc /\ got \in 0..hw
  /\ head \in 0..(QSize - 1) /\ tail \in 0..(QSize - 1) /\ len \in 0..QSize
  /\ slot \in [0..(QSize - 1) -> Bufs \union {NoBuf}]
  /\ irq \subseteq {"recv", "nobuf"}
  /\ isr \in {"idle", "scan", "move", "fill", "refill", "init"}
  /\ moved \in 0..done /\ left \in 0..NDesc /\ again \in BOOLEAN
  /\ sem \in BOOLEAN
  /\ inp \in {"wait", "look", "take", "pass"}
  /\ seen \in 0..QSize /\ cur \in Bufs \union {NoBuf}
  /\ mbox \in Seq(Bufs \union {Callback}) /\ Len(mbox) <= MboxSize
  /\ pending \in BOOLEAN /\ ooseq \subseteq Bufs /\ held \subseteq Bufs
  /\ corrupt \in BOOLEAN

\* A buffer is in one place, and none is lost: nothing is freed twice, freed
\* while somebody uses it, or never freed, as long as no DMA error met a ring
\* with free descriptors.
OwnedOnce ==
  ~corrupt => \A b \in Bufs : \E p \in Places(b) : Places(b) = {p}

\* Frames come to tcpip_thread in the order in which the MAC received them,
\* each at most once.
RingFrames == SubSeq(RingBufs, 1, done - moved + got)
InFlight == MboxBufs \o CurBufs \o QueueBufs \o RingFrames
Channel == INSTANCE FrameChannel WITH chan <- InFlight, Frames <- Bufs
InOrder == Channel!Spec

\* A frame in the queue does not wait for another one: the input thread goes
\* on to take it.
QueueServed == len > 0 ~> (inp = "pass" \/ corrupt)

\* When all buffers are used up, frames are received again after a while, as
\* long as there are any.
KeepArriving == []<><<Receive \/ Miss>>_vars
Recovers == KeepArriving => (hw = 0 ~> (hw > 0 \/ corrupt))
=============================================================================
