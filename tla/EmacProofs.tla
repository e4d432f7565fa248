------------------------------ MODULE EmacProofs ------------------------------
(***************************************************************************)
(* Proofs about EmacRx, for every size of pool, ring, queue and mailbox,   *)
(* and about EmacTx, for every number of frames, buffers and descriptors.  *)
(* Both rest on the same facts about the places of a ring.                 *)
(***************************************************************************)
EXTENDS EmacRx, EmacTx, FiniteSetTheorems, WellFoundedInduction, TLAPS

\* Where the handler is in its loops, and what it and the input thread may
\* rely on while they hold one another up.
HandlerInv ==
  /\ isr # "move" => done = 0 /\ moved = 0
  /\ isr = "move" => moved < done
  /\ Filling => left > 0 /\ left = NDesc - hw

ThreadInv ==
  /\ inp = "take" => isr = "idle" /\ seen = len /\ len > 0
  /\ inp = "pass" => cur \in Bufs

QueueInv ==
  /\ head = (tail + len) % QSize
  /\ \A i \in QueueSlots : slot[i] \in Bufs

\* Buffer b is at place n of what w names.
At(w, n, b) ==
  \/ w = "ring"  /\ n \in RingSlots /\ storage[n] = b
  \/ w = "queue" /\ n \in QueueSlots /\ slot[n] = b
  \/ w = "mbox"  /\ n \in 1..Len(mbox) /\ mbox[n] = b
  \/ w = "cur"   /\ n = 0 /\ inp = "pass" /\ cur = b
  \/ w = "free"  /\ n = 0 /\ b \in free
  \/ w = "ooseq" /\ n = 0 /\ b \in ooseq
  \/ w = "held"  /\ n = 0 /\ b \in held

-----------------------------------------------------------------------------
(* Positions in a ring: sums of an index and a count wrap around once.     *)

\* A number below 2*N is reduced by at most one N.
LEMMA ModOnce ==
  ASSUME NEW N \in Nat \ {0}, NEW x \in 0..(2 * N - 1)
  PROVE  x % N = IF x < N THEN x ELSE x - N
<1>1. CASE x < N
  BY <1>1, SMT
<1>2. CASE x >= N
  <2>1. x - N \in 0..(N - 1)
    BY <1>2, SMT
  <2>2. x % N = (x - N) % N
    BY <1>2, SMT
  <2>. QED
    BY <2>1, <2>2, <1>2, SMT
<1>. QED
  BY <1>1, <1>2, SMT

\* Places f, f + 1, ... of a ring of N are all different and are all there
\* are, and a ring may be counted from any of them.
LEMMA RingPlaces ==
  ASSUME NEW N \in Nat \ {0}, NEW f \in 0..(N - 1)
  PROVE  /\ \A k \in 0..N : /\ (f + k) % N \in 0..(N - 1)
                            /\ (f + k) % N = IF f + k < N THEN f + k ELSE f + k - N
         /\ \A j, k \in 0..(N - 1) : (f + j) % N = (f + k) % N => j = k
         /\ \A i \in 0..(N - 1) : \E k \in 0..(N - 1) : (f + k) % N = i
         /\ \A d \in 0..N : \A k \in 0..(N - d) :
              (((f + d) % N) + k) % N = (f + (d + k)) % N
<1>1. ASSUME NEW k \in 0..N
      PROVE  /\ (f + k) % N \in 0..(N - 1)
             /\ (f + k) % N = IF f + k < N THEN f + k ELSE f + k - N
  <2>1. \A x \in 0..(2 * N - 1) : x % N = IF x < N THEN x ELSE x - N
    BY ModOnce
  <2>2. f + k \in 0..(2 * N - 1)
    BY SMT
  <2>. QED
    BY <2>1, <2>2, SMT
<1>2. ASSUME NEW j \in 0..(N - 1), NEW k \in 0..(N - 1), (f + j) % N = (f + k) % N
      PROVE  j = k
  BY <1>1, <1>2, SMT
<1>3. ASSUME NEW i \in 0..(N - 1)
      PROVE  \E k \in 0..(N - 1) : (f + k) % N = i
  <2>1. CASE i >= f
    <3>1. i - f \in 0..(N - 1) /\ f + (i - f) = i
      BY <2>1, SMT
    <3>2. (f + (i - f)) % N = i % N
      BY <3>1
    <3>3. i % N = i
      BY SMT
    <3>. QED
      BY <3>1, <3>2, <3>3
  <2>2. CASE i < f
    <3>1. i - f + N \in 0..(N - 1) /\ f + (i - f + N) = i + N
      BY <2>2, SMT
    <3>2. (f + (i - f + N)) % N = (i + N) % N
      BY <3>1
    <3>. QED
      BY <3>1, <3>2, SMT
  <2>. QED
    BY <2>1, <2>2, SMT
<1>4. ASSUME NEW d \in 0..N, NEW k \in 0..(N - d)
      PROVE  (((f + d) % N) + k) % N = (f + (d + k)) % N
  <2>1. /\ (f + d) % N \in 0..(N - 1)
        /\ (f + d) % N = IF f + d < N THEN f + d ELSE f + d - N
    BY <1>1
  <2>2. d + k \in 0..N
    BY SMT
  <2>3. (f + (d + k)) % N = IF f + (d + k) < N THEN f + (d + k) ELSE f + (d + k) - N
    BY <2>2, <1>1
  <2>. DEFINE y == ((f + d) % N) + k
  <2>4. y \in 0..(2 * N - 1)
    BY <2>1, SMT
  <2>. HIDE DEF y
  <2>5. y % N = IF y < N THEN y ELSE y - N
    BY <2>4, ModOnce
  <2>. QED
    BY <2>1, <2>3, <2>5, SMT DEF y
<1>. QED
  BY <1>1, <1>2, <1>3, <1>4

\* The places lo, ..., hi - 1 after place f of a ring of N.
Arc(N, f, lo, hi) == {(f + k) % N : k \in lo..(hi - 1)}

LEMMA ArcRange ==
  ASSUME NEW N \in Nat \ {0}, NEW f \in 0..(N - 1), NEW lo \in 0..N, NEW hi \in 0..N
  PROVE  Arc(N, f, lo, hi) \subseteq 0..(N - 1)
<1>1. \A k \in lo..(hi - 1) : k \in 0..N
  BY SMT
<1>2. \A k \in 0..N : (f + k) % N \in 0..(N - 1)
  BY RingPlaces
<1>. QED
  BY <1>1, <1>2, Zenon DEF Arc

\* An arc that is taken from at its beginning.
LEMMA ArcDrop ==
  ASSUME NEW N \in Nat \ {0}, NEW f \in 0..(N - 1), NEW lo \in 0..N, NEW hi \in 0..N,
         lo < hi
  PROVE  /\ (f + lo) % N \in Arc(N, f, lo, hi)
         /\ Arc(N, f, lo + 1, hi) = Arc(N, f, lo, hi) \ {(f + lo) % N}
<1>1. lo \in 0..(N - 1) /\ lo \in lo..(hi - 1)
  BY SMT
<1>2. \A k \in (lo + 1)..(hi - 1) : k \in 0..(N - 1) /\ k # lo /\ k \in lo..(hi - 1)
  BY SMT
<1>3. \A k \in lo..(hi - 1) : k = lo \/ k \in (lo + 1)..(hi - 1)
  BY SMT
<1>4. \A k \in (lo + 1)..(hi - 1) : (f + k) % N # (f + lo) % N
  BY <1>1, <1>2, RingPlaces
<1>. QED
  BY <1>1, <1>2, <1>3, <1>4, Zenon DEF Arc

\* An arc that is added to at its end.
LEMMA ArcGrow ==
  ASSUME NEW N \in Nat \ {0}, NEW f \in 0..(N - 1), NEW lo \in 0..N, NEW hi \in 0..N,
         lo <= hi, hi < N
  PROVE  /\ (f + hi) % N \notin Arc(N, f, lo, hi)
         /\ Arc(N, f, lo, hi + 1) = Arc(N, f, lo, hi) \union {(f + hi) % N}
<1>. DEFINE up == hi + 1
<1>1. /\ hi \in 0..(N - 1) /\ hi \in lo..(up - 1)
      /\ \A k \in lo..(hi - 1) : k \in 0..(N - 1) /\ k # hi /\ k \in lo..(up - 1)
      /\ \A k \in lo..(up - 1) : k = hi \/ k \in lo..(hi - 1)
  BY SMT
<1>. HIDE DEF up
<1>2. \A k \in lo..(hi - 1) : (f + k) % N # (f + hi) % N
  BY <1>1, RingPlaces
<1>3. /\ (f + hi) % N \notin Arc(N, f, lo, hi)
      /\ Arc(N, f, lo, up) = Arc(N, f, lo, hi) \union {(f + hi) % N}
  BY <1>1, <1>2, Zenon DEF Arc
<1>. QED
  BY <1>3 DEF up

\* An arc that is counted from a later place.
LEMMA ArcShift ==
  ASSUME NEW N \in Nat \ {0}, NEW f \in 0..(N - 1), NEW d \in 0..N, NEW n \in 0..(N - d)
  PROVE  Arc(N, (f + d) % N, 0, n) = Arc(N, f, d, d + n)
<1>. DEFINE g == (f + d) % N
            e == d + n
<1>1. \A k \in 0..(n - 1) : k \in 0..(N - d) /\ d + k \in d..(e - 1)
  BY SMT
<1>2. \A k \in d..(e - 1) : k - d \in 0..(n - 1) /\ k - d \in 0..(N - d) /\ d + (k - d) = k
  BY SMT
<1>3. \A k \in 0..(N - d) : (g + k) % N = (f + (d + k)) % N
  BY RingPlaces
<1>. HIDE DEF e, g
<1>4. ASSUME NEW x \in Arc(N, g, 0, n)
      PROVE  x \in Arc(N, f, d, e)
  <2>1. PICK k \in 0..(n - 1) : x = (g + k) % N
    BY Zenon DEF Arc
  <2>. QED
    BY <1>1, <1>3, <2>1, Zenon DEF Arc
<1>5. ASSUME NEW x \in Arc(N, f, d, e)
      PROVE  x \in Arc(N, g, 0, n)
  <2>1. PICK k \in d..(e - 1) : x = (f + k) % N
    BY Zenon DEF Arc
  <2>2. x = (g + (k - d)) % N
    BY <1>2, <1>3, <2>1
  <2>. QED
    BY <1>2, <2>2, Zenon DEF Arc
<1>6. Arc(N, g, 0, n) = Arc(N, f, d, e)
  BY <1>4, <1>5, Zenon
<1>. QED
  BY <1>6 DEF e, g

\* An arc all around, and none at all.
LEMMA ArcAll ==
  ASSUME NEW N \in Nat \ {0}, NEW f \in 0..(N - 1)
  PROVE  /\ Arc(N, f, 0, N) = 0..(N - 1)
         /\ \A n \in 0..N : Arc(N, f, n, n) = { }
<1>1. Arc(N, f, 0, N) \subseteq 0..(N - 1)
  BY ArcRange, SMT
<1>2. \A i \in 0..(N - 1) : i \in Arc(N, f, 0, N)
  <2>1. \A i \in 0..(N - 1) : \E k \in 0..(N - 1) : (f + k) % N = i
    BY RingPlaces
  <2>. QED
    BY <2>1, Zenon DEF Arc
<1>3. \A n \in 0..N : n..(n - 1) = { }
  BY SMT
<1>. QED
  BY <1>1, <1>2, <1>3, Zenon DEF Arc

-----------------------------------------------------------------------------
(* Buffers and their places: which buffer is where as one set.             *)

Kinds == {"ring", "queue", "mbox", "cur", "free", "ooseq", "held"}

Where == {x \in Kinds \X Nat \X Bufs : At(x[1], x[2], x[3])}

\* Every buffer has exactly one place in P.
OneEach(P) ==
  \A b \in Bufs : \E w \in Kinds, n \in Nat :
    \A v \in Kinds, m \in Nat : <<v, m, b>> \in P <=> v = w /\ m = n

Once == ~corrupt => OneEach(Where)

Sound == TypeOK /\ HandlerInv /\ ThreadInv /\ QueueInv

RxInv == Sound /\ Once

\* Q is P after buffers S have gone from places w0 to place n1 of w1.
Transfer(P, Q, S, w0, w1, n1) ==
  /\ \A b \in S : \E n \in Nat : <<w0, n, b>> \in P
  /\ \A b \in Bufs, w \in Kinds, n \in Nat :
       <<w, n, b>> \in Q <=> \/ <<w, n, b>> \in P /\ ~(b \in S /\ w = w0)
                             \/ b \in S /\ w = w1 /\ n = n1

LEMMA MoveAll ==
  ASSUME NEW P, NEW Q, OneEach(P), NEW S \in SUBSET Bufs,
         NEW w0 \in Kinds, NEW w1 \in Kinds, NEW n1 \in Nat,
         Transfer(P, Q, S, w0, w1, n1)
  PROVE  OneEach(Q)
<1>. USE DEF Transfer
<1>. SUFFICES ASSUME NEW b \in Bufs
              PROVE  \E w \in Kinds, n \in Nat : \A v \in Kinds, m \in Nat :
                       <<v, m, b>> \in Q <=> v = w /\ m = n
  BY DEF OneEach
<1>1. PICK w \in Kinds, n \in Nat : \A v \in Kinds, m \in Nat :
        <<v, m, b>> \in P <=> v = w /\ m = n
  BY DEF OneEach
<1>2. CASE b \in S
  <2>1. w = w0
    BY <1>1, <1>2
  <2>. QED
    BY <1>1, <1>2, <2>1
<1>3. CASE b \notin S
  BY <1>1, <1>3
<1>. QED
  BY <1>2, <1>3

\* The first message leaves the mailbox: the others move up.
LEMMA MoveUp ==
  ASSUME NEW P, NEW Q, OneEach(P),
         \A b \in Bufs : <<"mbox", 1, b>> \notin P /\ <<"mbox", 0, b>> \notin P,
         \A b \in Bufs, w \in Kinds, n \in Nat :
           <<w, n, b>> \in Q <=> IF w = "mbox" THEN n # 0 /\ <<w, n + 1, b>> \in P
                                                ELSE <<w, n, b>> \in P
  PROVE  OneEach(Q)
<1>. SUFFICES ASSUME NEW b \in Bufs
              PROVE  \E w \in Kinds, n \in Nat : \A v \in Kinds, m \in Nat :
                       <<v, m, b>> \in Q <=> v = w /\ m = n
  BY DEF OneEach
<1>1. PICK w \in Kinds, n \in Nat : \A v \in Kinds, m \in Nat :
        <<v, m, b>> \in P <=> v = w /\ m = n
  BY DEF OneEach
<1>2. CASE w = "mbox"
  <2>1. n - 1 \in Nat /\ n - 1 # 0 /\ (n - 1) + 1 = n
    <3>1. n # 0 /\ n # 1
      BY <1>1, <1>2
    <3>. QED
      BY <3>1, SMT
  <2>2. \A m \in Nat : m + 1 \in Nat /\ (m + 1 = n <=> m = n - 1)
    BY <2>1, SMT
  <2>3. \A v \in Kinds, m \in Nat : <<v, m, b>> \in Q <=> v = w /\ m = n - 1
    BY <1>1, <1>2, <2>1, <2>2
  <2>. QED
    BY <2>1, <2>3
<1>3. CASE w # "mbox"
  <2>1. \A v \in Kinds, m \in Nat : <<v, m, b>> \in Q <=> v = w /\ m = n
    <3>. TAKE v \in Kinds, m \in Nat
    <3>1. m + 1 \in Nat
      OBVIOUS
    <3>. QED
      BY <1>1, <1>3, <3>1
  <2>. QED
    BY <2>1
<1>. QED
  BY <1>2, <1>3

-----------------------------------------------------------------------------
(* What the steps do to the claimed places of the ring and of the queue.   *)

LEMMA Claimed ==
  ASSUME TypeOK
  PROVE  /\ NDesc \in Nat \ {0} /\ QSize \in Nat \ {0}
         /\ RingSlots = Arc(NDesc, first, moved, done + hw)
         /\ QueueSlots = Arc(QSize, tail, 0, len)
         /\ RingSlots \subseteq Descs /\ QueueSlots \subseteq 0..(QSize - 1)
<1>1. NDesc \in Nat \ {0} /\ QSize \in Nat \ {0}
  BY RxAssumption
<1>2. /\ RingSlots = Arc(NDesc, first, moved, done + hw)
      /\ QueueSlots = Arc(QSize, tail, 0, len)
  BY DEF RingSlots, QueueSlots, Desc, Arc
<1>3. /\ first \in 0..(NDesc - 1) /\ moved \in 0..NDesc /\ done + hw \in 0..NDesc
      /\ tail \in 0..(QSize - 1) /\ 0 \in 0..QSize /\ len \in 0..QSize
  BY <1>1, SMT DEF TypeOK, Descs
<1>4. Arc(NDesc, first, moved, done + hw) \subseteq 0..(NDesc - 1)
  BY <1>1, <1>3, ArcRange
<1>5. Arc(QSize, tail, 0, len) \subseteq 0..(QSize - 1)
  BY <1>1, <1>3, ArcRange
<1>. QED
  BY <1>1, <1>2, <1>4, <1>5 DEF Descs

\* The descriptor whose frame goes to the queue gives up its claim, in the
\* middle of a batch as well as at its end, where the ring is renumbered.
LEMMA MoveClaims ==
  ASSUME TypeOK, HandlerInv, Move
  PROVE  /\ Desc(moved) \in RingSlots
         /\ RingSlots' = RingSlots \ {Desc(moved)}
         /\ first' \in Descs
<1>1. /\ NDesc \in Nat \ {0}
      /\ first \in 0..(NDesc - 1) /\ moved \in 0..NDesc /\ moved < done
      /\ done \in 0..NDesc /\ hw \in 0..NDesc /\ done + hw \in 0..NDesc
  BY RxAssumption, SMT DEF TypeOK, HandlerInv, Move, Descs
<1>2. moved < done + hw
  BY <1>1, SMT
<1>. DEFINE to == done + hw
            a  == Arc(NDesc, first, moved, to)
<1>3. (first + moved) % NDesc \in a /\ Arc(NDesc, first, moved + 1, to) = a \ {(first + moved) % NDesc}
  BY <1>1, <1>2, ArcDrop
<1>4. RingSlots = a
  BY Claimed
<1>5. RingSlots' = Arc(NDesc, first', moved', done' + hw')
  BY DEF RingSlots, Desc, Arc
<1>6. CASE moved + 1 < done
  <2>1. moved' = moved + 1 /\ first' = first /\ done' = done /\ hw' = hw
    BY <1>6 DEF Move
  <2>. QED
    BY <1>1, <1>3, <1>4, <1>5, <2>1 DEF Desc, Descs
<1>7. CASE ~(moved + 1 < done)
  <2>1. /\ first' = (first + done) % NDesc /\ done' = 0 /\ moved' = 0 /\ hw' = hw
        /\ moved + 1 = done
    BY <1>1, <1>7, SMT DEF Move
  <2>2. hw \in 0..(NDesc - done)
    BY <1>1, SMT
  <2>3. Arc(NDesc, (first + done) % NDesc, 0, hw) = Arc(NDesc, first, done, to)
    BY <1>1, <2>2, ArcShift
  <2>4. done' + hw' = hw
    BY <1>1, <2>1, SMT
  <2>5. first' \in 0..(NDesc - 1)
    BY <1>1, <2>1, RingPlaces
  <2>. QED
    BY <1>3, <1>4, <1>5, <2>1, <2>3, <2>4, <2>5 DEF Desc, Descs
<1>. QED
  BY <1>6, <1>7

\* A descriptor that is given a buffer had no claim.
LEMMA FillClaims ==
  ASSUME TypeOK, HandlerInv, Fill
  PROVE  /\ Desc(done + hw) \in Descs
         /\ Desc(done + hw) \notin RingSlots
         /\ RingSlots' = RingSlots \union {Desc(done + hw)}
         /\ done = 0 /\ moved = 0 /\ hw < NDesc
<1>1. /\ NDesc \in Nat \ {0} /\ first \in 0..(NDesc - 1)
      /\ done = 0 /\ moved = 0 /\ hw \in 0..NDesc /\ hw < NDesc
  BY RxAssumption, SMT DEF TypeOK, HandlerInv, Fill, Filling, Descs
<1>2. /\ (first + hw) % NDesc \notin Arc(NDesc, first, 0, hw)
      /\ Arc(NDesc, first, 0, hw + 1) = Arc(NDesc, first, 0, hw) \union {(first + hw) % NDesc}
  BY <1>1, ArcGrow, SMT
<1>3. RingSlots = Arc(NDesc, first, 0, hw) /\ Desc(done + hw) = (first + hw) % NDesc
  <2>1. done + hw = hw
    BY <1>1, SMT
  <2>. QED
    BY <1>1, <2>1, Claimed DEF Desc
<1>4. RingSlots' = Arc(NDesc, first, 0, hw + 1)
  <2>1. RingSlots' = Arc(NDesc, first', moved', done' + hw')
    BY DEF RingSlots, Desc, Arc
  <2>2. first' = first /\ moved' = 0 /\ done' + hw' = hw + 1
    BY <1>1, SMT DEF Fill
  <2>. QED
    BY <2>1, <2>2
<1>5. (first + hw) % NDesc \in 0..(NDesc - 1)
  BY <1>1, RingPlaces
<1>. QED
  BY <1>1, <1>2, <1>3, <1>4, <1>5 DEF Descs

\* A full ring has a claim to all its buffers, and a ring set up anew to none.
LEMMA ResetClaims ==
  ASSUME TypeOK, HandlerInv, EnterReset
  PROVE  /\ FreeDescs = 0 => RingSlots = Descs
         /\ RingSlots' = { }
<1>1. /\ NDesc \in Nat \ {0} /\ first \in 0..(NDesc - 1)
      /\ done = 0 /\ moved = 0 /\ hw \in 0..NDesc
      /\ first' = 0 /\ moved' = 0 /\ done' = 0 /\ hw' = 0
  BY RxAssumption, SMT DEF TypeOK, HandlerInv, EnterReset, Interrupt, Descs
<1>2. ASSUME FreeDescs = 0 PROVE RingSlots = Descs
  <2>1. done + hw = NDesc
    BY <1>1, <1>2, SMT DEF FreeDescs
  <2>. QED
    BY <1>1, <2>1, ArcAll, Claimed DEF Descs
<1>3. RingSlots' = { }
  <2>1. RingSlots' = Arc(NDesc, 0, 0, 0)
    <3>1. RingSlots' = Arc(NDesc, first', moved', done' + hw')
      BY DEF RingSlots, Desc, Arc
    <3>2. done' + hw' = 0
      BY <1>1, SMT
    <3>. QED
      BY <1>1, <3>1, <3>2
  <2>2. 0 \in 0..(NDesc - 1) /\ 0 \in 0..NDesc
    BY <1>1, SMT
  <2>. QED
    BY <1>1, <2>1, <2>2, ArcAll
<1>. QED
  BY <1>2, <1>3

\* pq_enqueue on a queue that is not full.
LEMMA EnqueueClaims ==
  ASSUME TypeOK, QueueInv, len < QSize,
         head' = (head + 1) % QSize, tail' = tail, len' = len + 1
  PROVE  /\ head \notin QueueSlots
         /\ QueueSlots' = QueueSlots \union {head}
         /\ head' \in 0..(QSize - 1)
         /\ head' = (tail' + len') % QSize
<1>1. /\ QSize \in Nat \ {0} /\ tail \in 0..(QSize - 1) /\ len \in 0..QSize
      /\ head = (tail + len) % QSize /\ head \in 0..(QSize - 1)
  BY RxAssumption DEF TypeOK, QueueInv
<1>2. /\ head \notin Arc(QSize, tail, 0, len)
      /\ Arc(QSize, tail, 0, len + 1) = Arc(QSize, tail, 0, len) \union {head}
  BY <1>1, ArcGrow, SMT
<1>3. QueueSlots = Arc(QSize, tail, 0, len) /\ QueueSlots' = Arc(QSize, tail', 0, len')
  BY Zenon DEF QueueSlots, Arc
<1>4. head' \in 0..(QSize - 1)
  <2>1. 1 \in 0..QSize
    BY <1>1, SMT
  <2>2. (head + 1) % QSize \in 0..(QSize - 1)
    BY <1>1, <2>1, RingPlaces
  <2>. QED
    BY <2>2
<1>5. (((tail + len) % QSize) + 1) % QSize = (tail + (len + 1)) % QSize
  <2>1. 1 \in 0..(QSize - len)
    BY <1>1, SMT
  <2>2. \A d \in 0..QSize : \A k \in 0..(QSize - d) :
          (((tail + d) % QSize) + k) % QSize = (tail + (d + k)) % QSize
    BY <1>1, RingPlaces
  <2>. QED
    BY <1>1, <2>1, <2>2
<1>. QED
  BY <1>1, <1>2, <1>3, <1>4, <1>5

\* pq_dequeue on a queue that is not empty.
LEMMA DequeueClaims ==
  ASSUME TypeOK, QueueInv, len > 0,
         head' = head, tail' = (tail + 1) % QSize, len' = len - 1
  PROVE  /\ tail \in QueueSlots
         /\ QueueSlots' = QueueSlots \ {tail}
         /\ tail' \in 0..(QSize - 1)
         /\ head' = (tail' + len') % QSize
<1>1. /\ QSize \in Nat \ {0} /\ tail \in 0..(QSize - 1) /\ len \in 0..QSize
      /\ head = (tail + len) % QSize /\ 1 \in 0..QSize /\ 0 \in 0..QSize
      /\ len - 1 \in 0..(QSize - 1)
  BY RxAssumption, SMT DEF TypeOK, QueueInv
<1>2. (tail + 0) % QSize = tail
  BY <1>1, SMT
<1>3. /\ tail \in Arc(QSize, tail, 0, len)
      /\ Arc(QSize, tail, 1, len) = Arc(QSize, tail, 0, len) \ {tail}
  BY <1>1, <1>2, ArcDrop, SMT
<1>4. QueueSlots = Arc(QSize, tail, 0, len) /\ QueueSlots' = Arc(QSize, tail', 0, len')
  BY Zenon DEF QueueSlots, Arc
<1>5. Arc(QSize, tail', 0, len - 1) = Arc(QSize, tail, 1, len)
  <2>1. 1 + (len - 1) = len
    BY <1>1, SMT
  <2>. QED
    BY <1>1, <2>1, ArcShift
<1>6. tail' \in 0..(QSize - 1)
  BY <1>1, RingPlaces
<1>7. (((tail + 1) % QSize) + (len - 1)) % QSize = (tail + (1 + (len - 1))) % QSize
  BY <1>1, RingPlaces
<1>8. 1 + (len - 1) = len
  BY <1>1, SMT
<1>. QED
  BY <1>1, <1>3, <1>4, <1>5, <1>6, <1>7, <1>8

-----------------------------------------------------------------------------
(* The steps keep types, positions and what the handler and the threads    *)
(* rely on, one lemma for each step.                                       *)

USE RxAssumption DEF Sound, Bufs, NoBuf, Callback

\* TypeOK in two parts.
Flags ==
  again \in BOOLEAN /\ sem \in BOOLEAN /\ pending \in BOOLEAN /\ corrupt \in BOOLEAN

Ranges ==
  /\ free \subseteq Bufs
  /\ storage \in [Descs -> Bufs]
  /\ first \in Descs /\ done \in 0..NDesc /\ hw \in 0..NDesc
  /\ done + hw <= NDesc /\ got \in 0..hw
  /\ head \in 0..(QSize - 1) /\ tail \in 0..(QSize - 1) /\ len \in 0..QSize
  /\ slot \in [0..(QSize - 1) -> Bufs \union {NoBuf}]
  /\ irq \subseteq {"recv", "nobuf"}
  /\ isr \in {"idle", "scan", "move", "fill", "refill", "init"}
  /\ moved \in 0..done /\ left \in 0..NDesc
  /\ inp \in {"wait", "look", "take", "pass"}
  /\ seen \in 0..QSize /\ cur \in Bufs \union {NoBuf}
  /\ ooseq \subseteq Bufs /\ held \subseteq Bufs

Boxed == mbox \in Seq(Bufs \union {Callback}) /\ Len(mbox) <= MboxSize

LEMMA TypeParts ==
  /\ TypeOK <=> Flags /\ Ranges /\ Boxed
  /\ TypeOK' <=> Flags' /\ Ranges' /\ Boxed'
BY Zenon DEF TypeOK, Flags, Ranges, Boxed

\* Messages that are taken from a mailbox and put into one.
LEMMA BoxSteps ==
  ASSUME NEW S, NEW q \in Seq(S)
  PROVE  /\ q # << >> => /\ Len(q) >= 1 /\ Head(q) = q[1] /\ Head(q) \in S
                         /\ Tail(q) \in Seq(S) /\ Len(Tail(q)) = Len(q) - 1
                         /\ \A i \in 1..(Len(q) - 1) : Tail(q)[i] = q[i + 1]
         /\ \A m \in S : /\ Append(q, m) \in Seq(S) /\ Len(Append(q, m)) = Len(q) + 1
                         /\ \A i \in 1..Len(q) : Append(q, m)[i] = q[i]
                         /\ Append(q, m)[Len(q) + 1] = m
OBVIOUS

\* A step that leaves the queue alone.
LEMMA QueueKept ==
  ASSUME QueueInv, UNCHANGED queue
  PROVE  QueueInv'
BY DEF QueueInv, QueueSlots, queue

LEMMA BoxKept ==
  ASSUME Boxed, mbox' = mbox
  PROVE  Boxed'
BY DEF Boxed

LEMMA ReceiveSound ==
  ASSUME Sound, Receive
  PROVE  Sound'
<1>0. Flags /\ Ranges /\ Boxed
  BY TypeParts
<1>1. Flags'
  BY <1>0, Zenon DEF Flags, Receive, handler, stack
<1>2. Boxed'
  BY BoxKept, <1>0 DEF Receive, stack
<1>3. Ranges'
  BY <1>0, SMT DEF Ranges, HandlerInv, ThreadInv, Receive, Freed, Descs, Filling, ring, queue, handler, thread, stack
<1>4. HandlerInv'
  BY DEF TypeOK, HandlerInv, ThreadInv, Receive, Freed, Descs, Filling, ring, queue, handler, thread, stack
<1>5. ThreadInv'
  BY DEF TypeOK, HandlerInv, ThreadInv, Receive, Freed, Descs, ring, queue, handler, thread, stack
<1>6. QueueInv'
  BY QueueKept DEF Receive
<1>. QED
  BY <1>1, <1>2, <1>3, <1>4, <1>5, <1>6, TypeParts

LEMMA MissSound ==
  ASSUME Sound, Miss
  PROVE  Sound'
<1>0. Flags /\ Ranges /\ Boxed
  BY TypeParts
<1>1. Flags'
  BY <1>0, Zenon DEF Flags, Miss, handler, stack
<1>2. Boxed'
  BY BoxKept, <1>0 DEF Miss, stack
<1>3. Ranges'
  BY <1>0, SMT DEF Ranges, HandlerInv, ThreadInv, Miss, Freed, Descs, Filling, ring, queue, handler, thread, stack
<1>4. HandlerInv'
  BY DEF TypeOK, HandlerInv, ThreadInv, Miss, Freed, Descs, Filling, ring, queue, handler, thread, stack
<1>5. ThreadInv'
  BY DEF TypeOK, HandlerInv, ThreadInv, Miss, Freed, Descs, ring, queue, handler, thread, stack
<1>6. QueueInv'
  BY QueueKept DEF Miss
<1>. QED
  BY <1>1, <1>2, <1>3, <1>4, <1>5, <1>6, TypeParts

LEMMA EnterRecvSound ==
  ASSUME Sound, EnterRecv
  PROVE  Sound'
<1>0. Flags /\ Ranges /\ Boxed
  BY TypeParts
<1>1. Flags'
  BY <1>0, Zenon DEF Flags, EnterRecv, handler, stack
<1>2. Boxed'
  BY BoxKept, <1>0 DEF EnterRecv, stack
<1>3. Ranges'
  BY <1>0, SMT DEF Ranges, HandlerInv, ThreadInv, EnterRecv, Interrupt, Masked, Freed, Descs, Filling, ring, queue, handler, thread, stack
<1>4. HandlerInv'
  BY DEF TypeOK, HandlerInv, ThreadInv, EnterRecv, Interrupt, Masked, Freed, Descs, Filling, ring, queue, handler, thread, stack
<1>5. ThreadInv'
  BY DEF TypeOK, HandlerInv, ThreadInv, EnterRecv, Interrupt, Masked, Freed, Descs, ring, queue, handler, thread, stack
<1>6. QueueInv'
  BY QueueKept DEF EnterRecv
<1>. QED
  BY <1>1, <1>2, <1>3, <1>4, <1>5, <1>6, TypeParts

LEMMA EnterResetSound ==
  ASSUME Sound, EnterReset
  PROVE  Sound'
<1>0. Flags /\ Ranges /\ Boxed
  BY TypeParts
<1>1. Flags'
  <2>1. corrupt' \in BOOLEAN
    BY <1>0, SMT DEF Flags, EnterReset
  <2>2. sem' \in BOOLEAN /\ pending' \in BOOLEAN
    BY <1>0, Zenon DEF Flags, EnterReset, stack
  <2>3. again' \in BOOLEAN
    BY SMT DEF EnterReset
  <2>. QED
    BY <2>1, <2>2, <2>3 DEF Flags
<1>2. Boxed'
  BY BoxKept, <1>0 DEF EnterReset, stack
<1>8. free' \subseteq Bufs
  <2>1. \A i \in Descs : storage[i] \in Bufs
    BY <1>0, SMT DEF Ranges
  <2>2. free' = free \union {storage[i] : i \in Descs} /\ free \subseteq Bufs
    BY <1>0, Zenon DEF Ranges, EnterReset, Freed
  <2>. QED
    BY <2>1, <2>2, Zenon
<1>3. Ranges'
  BY <1>0, <1>8, SMT DEF Ranges, HandlerInv, ThreadInv, EnterReset, Interrupt, Masked, FreeDescs, Freed, Descs, Filling, ring, queue, handler, thread, stack
<1>4. HandlerInv'
  BY DEF TypeOK, HandlerInv, ThreadInv, EnterReset, Interrupt, Masked, FreeDescs, Freed, Descs, Filling, ring, queue, handler, thread, stack
<1>5. ThreadInv'
  BY DEF TypeOK, HandlerInv, ThreadInv, EnterReset, Interrupt, Masked, FreeDescs, Freed, Descs, ring, queue, handler, thread, stack
<1>6. QueueInv'
  BY QueueKept DEF EnterReset
<1>. QED
  BY <1>1, <1>2, <1>3, <1>4, <1>5, <1>6, TypeParts

LEMMA BatchSound ==
  ASSUME Sound, Batch
  PROVE  Sound'
<1>0. Flags /\ Ranges /\ Boxed
  BY TypeParts
<1>1. Flags'
  BY <1>0, Zenon DEF Flags, Batch, handler, stack
<1>2. Boxed'
  BY BoxKept, <1>0 DEF Batch, stack
<1>3. Ranges'
  BY <1>0, SMT DEF Ranges, HandlerInv, ThreadInv, Batch, Freed, Descs, Filling, ring, queue, handler, thread, stack
<1>4. HandlerInv'
  BY DEF TypeOK, HandlerInv, ThreadInv, Batch, Freed, Descs, Filling, ring, queue, handler, thread, stack
<1>5. ThreadInv'
  BY DEF TypeOK, HandlerInv, ThreadInv, Batch, Freed, Descs, ring, queue, handler, thread, stack
<1>6. QueueInv'
  BY QueueKept DEF Batch
<1>. QED
  BY <1>1, <1>2, <1>3, <1>4, <1>5, <1>6, TypeParts

LEMMA SignalSound ==
  ASSUME Sound, Signal
  PROVE  Sound'
<1>0. Flags /\ Ranges /\ Boxed
  BY TypeParts
<1>1. Flags'
  BY <1>0, Zenon DEF Flags, Signal, handler, stack
<1>2. Boxed'
  BY BoxKept, <1>0 DEF Signal, stack
<1>3. Ranges'
  BY <1>0, SMT DEF Ranges, HandlerInv, ThreadInv, Signal, FreeDescs, Freed, Descs, Filling, ring, queue, handler, thread, stack
<1>4. HandlerInv'
  BY DEF TypeOK, HandlerInv, ThreadInv, Signal, FreeDescs, Freed, Descs, Filling, ring, queue, handler, thread, stack
<1>5. ThreadInv'
  BY DEF TypeOK, HandlerInv, ThreadInv, Signal, FreeDescs, Freed, Descs, ring, queue, handler, thread, stack
<1>6. QueueInv'
  BY QueueKept DEF Signal
<1>. QED
  BY <1>1, <1>2, <1>3, <1>4, <1>5, <1>6, TypeParts

LEMMA PoolEmptySound ==
  ASSUME Sound, PoolEmpty
  PROVE  Sound'
<1>0. Flags /\ Ranges /\ Boxed
  BY TypeParts
<1>1. Flags'
  BY <1>0, Zenon DEF Flags, PoolEmpty, handler, stack
<1>2. Boxed'
  <2>1. CASE mbox' = mbox
    BY <2>1, BoxKept, <1>0
  <2>2. CASE mbox' # mbox
    BY <2>2, <1>0, BoxSteps, SMT DEF PoolEmpty, Boxed
  <2>. QED
    BY <2>1, <2>2
<1>3. Ranges'
  BY <1>0, SMT DEF Ranges, HandlerInv, ThreadInv, PoolEmpty, Filling, AfterFill, Asked, Freed, Descs, Filling, ring, queue, handler, thread, stack
<1>4. HandlerInv'
  BY DEF TypeOK, HandlerInv, ThreadInv, PoolEmpty, Filling, AfterFill, Asked, Freed, Descs, Filling, ring, queue, handler, thread, stack
<1>5. ThreadInv'
  BY DEF TypeOK, HandlerInv, ThreadInv, PoolEmpty, Filling, AfterFill, Asked, Freed, Descs, ring, queue, handler, thread, stack
<1>6. QueueInv'
  BY QueueKept DEF PoolEmpty
<1>. QED
  BY <1>1, <1>2, <1>3, <1>4, <1>5, <1>6, TypeParts

LEMMA WakeSound ==
  ASSUME Sound, Wake
  PROVE  Sound'
<1>0. Flags /\ Ranges /\ Boxed
  BY TypeParts
<1>1. Flags'
  BY <1>0, Zenon DEF Flags, Wake, handler, stack
<1>2. Boxed'
  BY BoxKept, <1>0 DEF Wake, stack
<1>3. Ranges'
  BY <1>0, SMT DEF Ranges, HandlerInv, ThreadInv, Wake, Freed, Descs, Filling, ring, queue, handler, thread, stack
<1>4. HandlerInv'
  BY DEF TypeOK, HandlerInv, ThreadInv, Wake, Freed, Descs, Filling, ring, queue, handler, thread, stack
<1>5. ThreadInv'
  BY DEF TypeOK, HandlerInv, ThreadInv, Wake, Freed, Descs, ring, queue, handler, thread, stack
<1>6. QueueInv'
  BY QueueKept DEF Wake
<1>. QED
  BY <1>1, <1>2, <1>3, <1>4, <1>5, <1>6, TypeParts

LEMMA LookSound ==
  ASSUME Sound, Look
  PROVE  Sound'
<1>0. Flags /\ Ranges /\ Boxed
  BY TypeParts
<1>1. Flags'
  BY <1>0, Zenon DEF Flags, Look, handler, stack
<1>2. Boxed'
  BY BoxKept, <1>0 DEF Look, stack
<1>3. Ranges'
  BY <1>0, SMT DEF Ranges, HandlerInv, ThreadInv, Look, Freed, Descs, Filling, ring, queue, handler, thread, stack
<1>4. HandlerInv'
  BY DEF TypeOK, HandlerInv, ThreadInv, Look, Freed, Descs, Filling, ring, queue, handler, thread, stack
<1>5. ThreadInv'
  BY DEF TypeOK, HandlerInv, ThreadInv, Look, Freed, Descs, ring, queue, handler, thread, stack
<1>6. QueueInv'
  BY QueueKept DEF Look
<1>. QED
  BY <1>1, <1>2, <1>3, <1>4, <1>5, <1>6, TypeParts

LEMMA PassSound ==
  ASSUME Sound, Pass
  PROVE  Sound'
<1>0. Flags /\ Ranges /\ Boxed
  BY TypeParts
<1>1. Flags'
  BY <1>0, Zenon DEF Flags, Pass, handler, stack
<1>2. Boxed'
  <2>1. CASE mbox' = mbox
    BY <2>1, BoxKept, <1>0
  <2>2. CASE mbox' # mbox
    <3>1. cur \in Bufs
      BY DEF Pass, ThreadInv
    <3>. QED
      BY <2>2, <3>1, <1>0, BoxSteps, SMT DEF Pass, Boxed
  <2>. QED
    BY <2>1, <2>2
<1>8. free' \subseteq Bufs
  <2>1. cur \in Bufs
    BY DEF Pass, ThreadInv
  <2>. QED
    BY <1>0, <2>1, Zenon DEF Pass, Ranges, Freed
<1>3. Ranges'
  BY <1>0, <1>8, SMT DEF Ranges, HandlerInv, ThreadInv, Pass, NextInput, Descs, Filling, ring, queue, handler, thread, stack
<1>4. HandlerInv'
  BY DEF TypeOK, HandlerInv, ThreadInv, Pass, NextInput, Freed, Descs, Filling, ring, queue, handler, thread, stack
<1>5. ThreadInv'
  BY DEF TypeOK, HandlerInv, ThreadInv, Pass, NextInput, Freed, Descs, ring, queue, handler, thread, stack
<1>6. QueueInv'
  BY QueueKept DEF Pass
<1>. QED
  BY <1>1, <1>2, <1>3, <1>4, <1>5, <1>6, TypeParts

LEMMA TcpipInputSound ==
  ASSUME Sound, TcpipInput
  PROVE  Sound'
<1>0. Flags /\ Ranges /\ Boxed
  BY TypeParts
<1>1. Flags'
  BY <1>0, Zenon DEF Flags, TcpipInput, handler, stack
<1>2. Boxed'
  BY <1>0, BoxSteps, SMT DEF TcpipInput, Boxed
<1>8. free' \subseteq Bufs /\ ooseq' \subseteq Bufs /\ held' \subseteq Bufs
  <2>1. Head(mbox) \in Bufs
    BY <1>0, BoxSteps, SMT DEF TcpipInput, Boxed
  <2>. QED
    BY <1>0, <2>1, Zenon DEF TcpipInput, Ranges, Freed
<1>3. Ranges'
  BY <1>0, <1>8, SMT DEF Ranges, HandlerInv, ThreadInv, TcpipInput, Descs, Filling, ring, queue, handler, thread, stack
<1>4. HandlerInv'
  BY DEF TypeOK, HandlerInv, ThreadInv, TcpipInput, Freed, Descs, Filling, ring, queue, handler, thread, stack
<1>5. ThreadInv'
  BY DEF TypeOK, HandlerInv, ThreadInv, TcpipInput, Freed, Descs, ring, queue, handler, thread, stack
<1>6. QueueInv'
  BY QueueKept DEF TcpipInput
<1>. QED
  BY <1>1, <1>2, <1>3, <1>4, <1>5, <1>6, TypeParts

LEMMA TcpipCallbackSound ==
  ASSUME Sound, TcpipCallback
  PROVE  Sound'
<1>0. Flags /\ Ranges /\ Boxed
  BY TypeParts
<1>1. Flags'
  BY <1>0, Zenon DEF Flags, TcpipCallback, handler, stack
<1>2. Boxed'
  BY <1>0, BoxSteps, SMT DEF TcpipCallback, Boxed
<1>3. Ranges'
  BY <1>0, SMT DEF Ranges, HandlerInv, ThreadInv, TcpipCallback, Freed, Descs, Filling, ring, queue, handler, thread, stack
<1>4. HandlerInv'
  BY DEF TypeOK, HandlerInv, ThreadInv, TcpipCallback, Freed, Descs, Filling, ring, queue, handler, thread, stack
<1>5. ThreadInv'
  BY DEF TypeOK, HandlerInv, ThreadInv, TcpipCallback, Freed, Descs, ring, queue, handler, thread, stack
<1>6. QueueInv'
  BY QueueKept DEF TcpipCallback
<1>. QED
  BY <1>1, <1>2, <1>3, <1>4, <1>5, <1>6, TypeParts

LEMMA ReleaseSound ==
  ASSUME Sound, Release
  PROVE  Sound'
<1>0. Flags /\ Ranges /\ Boxed
  BY TypeParts
<1>1. Flags'
  BY <1>0, Zenon DEF Flags, Release, handler, stack
<1>2. Boxed'
  BY BoxKept, <1>0 DEF Release, stack
<1>3. Ranges'
  BY <1>0, SMT DEF Ranges, HandlerInv, ThreadInv, Release, Freed, Descs, Filling, ring, queue, handler, thread, stack
<1>4. HandlerInv'
  BY DEF TypeOK, HandlerInv, ThreadInv, Release, Freed, Descs, Filling, ring, queue, handler, thread, stack
<1>5. ThreadInv'
  BY DEF TypeOK, HandlerInv, ThreadInv, Release, Freed, Descs, ring, queue, handler, thread, stack
<1>6. QueueInv'
  BY QueueKept DEF Release
<1>. QED
  BY <1>1, <1>2, <1>3, <1>4, <1>5, <1>6, TypeParts

\* The three steps that change what has a claim in the queue or the ring.
LEMMA MoveSound ==
  ASSUME Sound, Move
  PROVE  Sound'
<1>0. Flags /\ Ranges /\ Boxed
  BY TypeParts
<1>. DEFINE b == storage[Desc(moved)]
<1>1. /\ Desc(moved) \in Descs /\ b \in Bufs /\ first' \in Descs
      /\ isr = "move" /\ done \in 0..NDesc /\ hw \in 0..NDesc /\ moved < done
  BY <1>0, Claimed, MoveClaims, SMT DEF Ranges, HandlerInv, Move
<1>2. Flags'
  BY <1>0, Zenon DEF Flags, Move, stack
<1>3. Boxed'
  BY <1>0, BoxKept DEF Move, stack
<1>4. /\ free' \subseteq Bufs
      /\ head' \in 0..(QSize - 1) /\ tail' \in 0..(QSize - 1) /\ len' \in 0..QSize
      /\ slot' \in [0..(QSize - 1) -> Bufs \union {NoBuf}]
      /\ QueueInv'
  <2>1. CASE len = QSize
    <3>1. UNCHANGED queue /\ free' = free \union {b}
      BY <2>1, Zenon DEF Move, Freed
    <3>2. QueueInv'
      BY <3>1, QueueKept
    <3>. QED
      BY <3>1, <3>2, <1>0, <1>1, Zenon DEF Ranges, queue
  <2>2. CASE len # QSize
    <3>1. /\ slot' = [slot EXCEPT ![head] = b]
          /\ head' = (head + 1) % QSize /\ len' = len + 1 /\ tail' = tail /\ free' = free
      BY <2>2, Zenon DEF Move
    <3>2. /\ len < QSize /\ len' \in 0..QSize /\ head \in 0..(QSize - 1)
      BY <1>0, <2>2, <3>1, SMT DEF Ranges
    <3>3. /\ head \notin QueueSlots /\ QueueSlots' = QueueSlots \union {head}
          /\ head' \in 0..(QSize - 1) /\ head' = (tail' + len') % QSize
      BY <3>1, <3>2, EnqueueClaims
    <3>4. slot' \in [0..(QSize - 1) -> Bufs \union {NoBuf}]
      BY <1>0, <1>1, <3>1, <3>2, Zenon DEF Ranges
    <3>5. \A i \in QueueSlots' : slot'[i] \in Bufs
      <4>1. \A i \in QueueSlots : i \in 0..(QSize - 1) /\ slot[i] \in Bufs /\ i # head
        BY <3>3, Claimed DEF QueueInv
      <4>2. slot'[head] = b /\ \A i \in 0..(QSize - 1) : i # head => slot'[i] = slot[i]
        BY <1>0, <3>1, <3>2, Zenon DEF Ranges
      <4>. QED
        BY <1>1, <3>3, <4>1, <4>2, Zenon
    <3>. QED
      BY <1>0, <3>1, <3>2, <3>3, <3>4, <3>5, Zenon DEF QueueInv, Ranges
  <2>. QED
    BY <2>1, <2>2
<1>5. /\ done' \in 0..NDesc /\ hw' \in 0..NDesc /\ done' + hw' <= NDesc /\ got' \in 0..hw'
      /\ isr' \in {"move", "fill"} /\ moved' \in 0..done' /\ left' \in 0..NDesc
      /\ storage' = storage /\ irq' = irq /\ inp' = inp /\ seen' = seen /\ cur' = cur
      /\ ooseq' = ooseq /\ held' = held
  BY <1>0, <1>1, SMT DEF Ranges, Move, thread, stack
<1>6. Ranges'
  BY <1>0, <1>1, <1>4, <1>5, Zenon DEF Ranges, Descs
<1>7. HandlerInv'
  BY <1>0, <1>1, SMT DEF Ranges, HandlerInv, Filling, Move
<1>8. ThreadInv'
  BY <1>1, <1>5, SMT DEF ThreadInv
<1>. QED
  BY <1>2, <1>3, <1>4, <1>6, <1>7, <1>8, TypeParts

LEMMA FillSound ==
  ASSUME Sound, Fill
  PROVE  Sound'
<1>0. Flags /\ Ranges /\ Boxed
  BY TypeParts
<1>1. PICK b \in free : /\ free' = free \ {b}
                        /\ storage' = [storage EXCEPT ![Desc(done + hw)] = b]
  BY Zenon DEF Fill
<1>2. /\ Desc(done + hw) \in Descs /\ done = 0 /\ moved = 0 /\ hw < NDesc
      /\ left > 0 /\ left = NDesc - hw
  BY FillClaims DEF Fill, HandlerInv
<1>3. Flags'
  BY <1>0, Zenon DEF Flags, Fill, stack
<1>4. Boxed'
  BY <1>0, BoxKept DEF Fill, stack
<1>5. free' \subseteq Bufs /\ storage' \in [Descs -> Bufs]
  BY <1>0, <1>1, <1>2, Zenon DEF Ranges
<1>6. /\ hw' \in 0..NDesc /\ done' + hw' <= NDesc /\ got' \in 0..hw' /\ left' \in 0..NDesc
      /\ isr' \in {"fill", "refill", "init", "scan", "idle"} /\ moved' = moved
      /\ done' = done
  BY <1>0, <1>2, SMT DEF Ranges, Fill, Filling, AfterFill
<1>7. Ranges'
  BY <1>0, <1>5, <1>6, SMT DEF Ranges, Fill, queue, thread, stack
<1>8. HandlerInv'
  BY <1>0, <1>2, SMT DEF Ranges, HandlerInv, Filling, AfterFill, Fill
<1>9. ThreadInv'
  BY <1>0, SMT DEF Ranges, ThreadInv, Fill, Filling, thread, queue
<1>10. QueueInv'
  BY QueueKept DEF Fill
<1>. QED
  BY <1>3, <1>4, <1>7, <1>8, <1>9, <1>10, TypeParts

LEMMA TakeSound ==
  ASSUME Sound, Take
  PROVE  Sound'
<1>0. Flags /\ Ranges /\ Boxed
  BY TypeParts
<1>1. /\ len > 0 /\ seen = len /\ tail \in 0..(QSize - 1) /\ slot' = [slot EXCEPT ![tail] = NoBuf]
      /\ head' = head /\ tail' = (tail + 1) % QSize /\ len' = len - 1
      /\ cur' = slot[tail]
  BY <1>0 DEF Take, Taken, ThreadInv, Ranges
<1>2. /\ tail \in QueueSlots /\ QueueSlots' = QueueSlots \ {tail}
      /\ tail' \in 0..(QSize - 1) /\ head' = (tail' + len') % QSize
  BY <1>1, DequeueClaims
<1>3. cur' \in Bufs
  BY <1>1, <1>2 DEF QueueInv
<1>4. slot' \in [0..(QSize - 1) -> Bufs \union {NoBuf}]
  BY <1>0, <1>1, Zenon DEF Ranges
<1>5. QueueInv'
  <2>1. \A i \in QueueSlots : i \in 0..(QSize - 1) /\ slot[i] \in Bufs
    BY Claimed DEF QueueInv
  <2>2. \A i \in 0..(QSize - 1) : i # tail => slot'[i] = slot[i]
    BY <1>0, <1>1, Zenon DEF Ranges
  <2>. QED
    BY <1>2, <2>1, <2>2, Zenon DEF QueueInv
<1>6. Flags'
  BY <1>0, Zenon DEF Flags, Take, handler, stack
<1>7. Boxed'
  BY <1>0, BoxKept DEF Take, stack
<1>8. len' \in 0..QSize
  BY <1>0, <1>1, SMT DEF Ranges
<1>9. Ranges'
  BY <1>0, <1>1, <1>2, <1>3, <1>4, <1>8, Zenon DEF Ranges, Take, ring, handler, stack, Descs
<1>10. HandlerInv'
  BY SMT DEF HandlerInv, Filling, Take, ring, handler
<1>11. ThreadInv'
  BY <1>3, SMT DEF ThreadInv, Take
<1>. QED
  BY <1>5, <1>6, <1>7, <1>9, <1>10, <1>11, TypeParts

-----------------------------------------------------------------------------
(* The steps keep every buffer in one place, one lemma for each step.      *)

LEMMA InWhere ==
  ASSUME NEW w \in Kinds, NEW n \in Nat, NEW b \in Bufs
  PROVE  /\ <<w, n, b>> \in Where  <=> At(w, n, b)
         /\ <<w, n, b>> \in Where' <=> At(w, n, b)'
BY DEF Where

\* A buffer is not in two places.
LEMMA Alone ==
  ASSUME OneEach(Where), NEW b \in Bufs, NEW w \in Kinds, NEW n \in Nat, At(w, n, b)
  PROVE  \A v \in Kinds, m \in Nat : At(v, m, b) => v = w /\ m = n
<1>1. PICK u \in Kinds, k \in Nat : \A v \in Kinds, m \in Nat :
        <<v, m, b>> \in Where <=> v = u /\ m = k
  BY DEF OneEach
<1>2. w = u /\ n = k
  BY <1>1, InWhere
<1>. QED
  BY <1>1, <1>2, InWhere

\* The same of a step, for places that At describes.
Transferred(S, w0, w1, n1) ==
  /\ \A b \in S : \E n \in Nat : At(w0, n, b)
  /\ \A b \in Bufs, w \in Kinds, n \in Nat :
       At(w, n, b)' <=> \/ At(w, n, b) /\ ~(b \in S /\ w = w0)
                        \/ b \in S /\ w = w1 /\ n = n1

LEMMA Moved ==
  ASSUME OneEach(Where), NEW S \in SUBSET Bufs,
         NEW w0 \in Kinds, NEW w1 \in Kinds, NEW n1 \in Nat,
         Transferred(S, w0, w1, n1)
  PROVE  OneEach(Where')
<1>1. \A b \in S : \E n \in Nat : <<w0, n, b>> \in Where
  BY InWhere DEF Transferred
<1>2. ASSUME NEW b \in Bufs, NEW w \in Kinds, NEW n \in Nat
      PROVE  <<w, n, b>> \in Where' <=>
               \/ <<w, n, b>> \in Where /\ ~(b \in S /\ w = w0)
               \/ b \in S /\ w = w1 /\ n = n1
  BY InWhere DEF Transferred
<1>3. Transfer(Where, Where', S, w0, w1, n1)
  BY <1>1, <1>2 DEF Transfer
<1>. QED
  BY <1>3, MoveAll

\* Steps that move no buffer.
LEMMA KeptPlaces ==
  ASSUME OneEach(Where), RingSlots' = RingSlots, storage' = storage, UNCHANGED queue,
         \A b \in Bufs, n \in Nat :
           (n \in 1..Len(mbox') /\ mbox'[n] = b) <=> (n \in 1..Len(mbox) /\ mbox[n] = b),
         inp' = "pass" <=> inp = "pass", cur' = cur,
         free' = free, ooseq' = ooseq, held' = held
  PROVE  OneEach(Where')
<1>1. QueueSlots' = QueueSlots /\ slot' = slot
  BY DEF QueueSlots, queue
<1>2. ASSUME NEW b \in Bufs, NEW w \in Kinds, NEW n \in Nat
      PROVE  At(w, n, b)' <=> At(w, n, b)
  BY <1>1 DEF At
<1>3. Transferred({ }, "ring", "free", 0)
  BY <1>2 DEF Transferred
<1>. QED
  BY <1>3, Moved DEF Kinds

LEMMA MovePlaces ==
  ASSUME Sound, OneEach(Where), Move
  PROVE  OneEach(Where')
<1>. DEFINE b0 == storage[Desc(moved)]
<1>0. /\ Desc(moved) \in RingSlots /\ RingSlots' = RingSlots \ {Desc(moved)}
      /\ Desc(moved) \in Nat /\ storage' = storage /\ b0 \in Bufs
      /\ mbox' = mbox /\ inp' = inp /\ cur' = cur /\ ooseq' = ooseq /\ held' = held
  <2>1. Desc(moved) \in Descs /\ Descs \subseteq Nat
    BY MoveClaims, Claimed DEF Descs
  <2>2. storage \in [Descs -> Bufs]
    BY DEF TypeOK
  <2>. QED
    BY <2>1, <2>2, MoveClaims, Zenon DEF Move, thread, stack
<1>1. At("ring", Desc(moved), b0)
  BY <1>0, Zenon DEF At
<1>2. \A n \in Nat : At("ring", n, b0) => n = Desc(moved)
  BY <1>0, <1>1, Alone DEF Kinds
<1>. HIDE DEF b0
<1>3. CASE len = QSize
  <2>1. QueueSlots' = QueueSlots /\ slot' = slot /\ free' = free \union {b0}
    BY <1>3, Zenon DEF Move, Freed, QueueSlots, queue, b0
  <2>2. ASSUME NEW b \in Bufs, NEW w \in Kinds, NEW n \in Nat
        PROVE  At(w, n, b)' <=> \/ At(w, n, b) /\ ~(b \in {b0} /\ w = "ring")
                                \/ b \in {b0} /\ w = "free" /\ n = 0
    <3>1. CASE w = "ring"
      BY <1>0, <1>1, <1>2, <3>1 DEF At, b0
    <3>2. CASE w = "free"
      BY <2>1, <3>2 DEF At
    <3>3. CASE w # "ring" /\ w # "free"
      BY <1>0, <2>1, <3>3, Zenon DEF At, Kinds
    <3>. QED
      BY <3>1, <3>2, <3>3
  <2>3. Transferred({b0}, "ring", "free", 0)
    BY <1>0, <1>1, <2>2 DEF Transferred
  <2>. QED
    BY <1>0, <2>3, Moved DEF Kinds
<1>4. CASE len # QSize
  <2>1. /\ head \notin QueueSlots /\ QueueSlots' = QueueSlots \union {head} /\ free' = free
        /\ slot'[head] = b0 /\ \A i \in QueueSlots : slot'[i] = slot[i]
        /\ head \in Nat
    <3>1. /\ slot' = [slot EXCEPT ![head] = b0]
          /\ head' = (head + 1) % QSize /\ len' = len + 1 /\ tail' = tail /\ free' = free
      BY <1>4, Zenon DEF Move, b0
    <3>2. /\ len < QSize /\ head \in 0..(QSize - 1) /\ head \in Nat
          /\ slot \in [0..(QSize - 1) -> Bufs \union {NoBuf}]
      BY <1>4, SMT DEF TypeOK
    <3>3. head \notin QueueSlots /\ QueueSlots' = QueueSlots \union {head}
      BY <3>1, <3>2, EnqueueClaims
    <3>. QED
      BY <3>1, <3>2, <3>3, Claimed, Zenon
  <2>2. ASSUME NEW b \in Bufs, NEW w \in Kinds, NEW n \in Nat
        PROVE  At(w, n, b)' <=> \/ At(w, n, b) /\ ~(b \in {b0} /\ w = "ring")
                                \/ b \in {b0} /\ w = "queue" /\ n = head
    <3>1. CASE w = "ring"
      BY <1>0, <1>1, <1>2, <3>1 DEF At, b0
    <3>2. CASE w = "queue"
      BY <2>1, <3>2 DEF At
    <3>3. CASE w # "ring" /\ w # "queue"
      BY <1>0, <2>1, <3>3, Zenon DEF At, Kinds
    <3>. QED
      BY <3>1, <3>2, <3>3
  <2>3. Transferred({b0}, "ring", "queue", head)
    BY <1>0, <1>1, <2>2 DEF Transferred
  <2>. QED
    BY <1>0, <2>1, <2>3, Moved DEF Kinds
<1>. QED
  BY <1>3, <1>4

LEMMA QuietPlaces ==
  ASSUME Sound, OneEach(Where),
         Receive \/ Miss \/ EnterRecv \/ Batch \/ Signal \/ PoolEmpty \/ Wake \/ Look
  PROVE  OneEach(Where')
<1>1. /\ storage' = storage /\ UNCHANGED queue /\ cur' = cur /\ free' = free
      /\ ooseq' = ooseq /\ held' = held /\ first' = first
  BY Zenon DEF Receive, Miss, EnterRecv, Batch, Signal, PoolEmpty, Wake, Look, ring, thread, stack
<1>2. inp' = "pass" <=> inp = "pass"
  BY SMT DEF Receive, Miss, EnterRecv, Batch, Signal, PoolEmpty, Wake, Look, thread
<1>3. RingSlots' = RingSlots
  <2>1. moved' = moved /\ (done' + hw') - 1 = (done + hw) - 1
    <3>1. CASE Batch
      <4>1. moved = 0 /\ moved' = 0 /\ done = 0 /\ done' = got /\ hw' = hw - got
        BY <3>1, SMT DEF HandlerInv, Batch
      <4>2. hw \in Nat /\ got \in Nat
        BY SMT DEF TypeOK
      <4>. QED
        BY <4>1, <4>2, SMT
    <3>2. CASE Receive \/ Miss \/ EnterRecv \/ Signal \/ PoolEmpty \/ Wake \/ Look
      <4>1. moved' = moved /\ done' = done /\ hw' = hw
        BY <3>2, Zenon DEF Receive, Miss, EnterRecv, Signal, PoolEmpty, Wake, Look, ring, handler
      <4>. QED
        BY <4>1
    <3>. QED
      BY <3>1, <3>2
  <2>. QED
    BY <1>1, <2>1 DEF RingSlots, Desc
<1>4. ASSUME NEW b \in Bufs, NEW n \in Nat
      PROVE  (n \in 1..Len(mbox') /\ mbox'[n] = b) <=> (n \in 1..Len(mbox) /\ mbox[n] = b)
  <2>1. CASE mbox' = mbox
    BY <2>1
  <2>2. CASE mbox' = Append(mbox, 0)
    <3>1. mbox \in Seq(0..NBuf) /\ b # 0 /\ 0 \in 0..NBuf
      <4>1. Bufs \union {Callback} = 0..NBuf
        BY SMT
      <4>. QED
        BY <4>1, SMT DEF TypeOK
    <3>. QED
      BY <2>2, <3>1, BoxSteps, SMT
  <2>. QED
    BY <2>1, <2>2, Zenon
       DEF Receive, Miss, EnterRecv, Batch, Signal, PoolEmpty, Wake, Look, stack, Callback
<1>. QED
  BY <1>1, <1>2, <1>3, <1>4, KeptPlaces

LEMMA FillPlaces ==
  ASSUME Sound, OneEach(Where), Fill
  PROVE  OneEach(Where')
<1>. DEFINE d == Desc(done + hw)
<1>1. PICK b0 \in free : /\ free' = free \ {b0}
                         /\ storage' = [storage EXCEPT ![d] = b0]
  BY Zenon DEF Fill
<1>2. /\ d \in Nat /\ d \notin RingSlots /\ RingSlots' = RingSlots \union {d} /\ d \in Descs
      /\ b0 \in Bufs /\ storage \in [Descs -> Bufs]
      /\ QueueSlots' = QueueSlots /\ slot' = slot /\ mbox' = mbox /\ inp' = inp /\ cur' = cur
      /\ ooseq' = ooseq /\ held' = held
  <2>1. d \in Descs /\ d \notin RingSlots /\ RingSlots' = RingSlots \union {d}
    BY FillClaims
  <2>2. d \in Nat
    BY <2>1, SMT DEF Descs
  <2>3. b0 \in Bufs /\ storage \in [Descs -> Bufs]
    BY Zenon DEF TypeOK
  <2>. QED
    BY <2>1, <2>2, <2>3, Zenon DEF Fill, QueueSlots, queue, thread, stack
<1>. HIDE DEF d
<1>3. storage'[d] = b0 /\ \A i \in RingSlots : storage'[i] = storage[i]
  <2>1. \A i \in RingSlots : i \in Descs /\ i # d
    BY <1>2, Claimed
  <2>. QED
    BY <1>1, <1>2, <2>1, Zenon
<1>4. ASSUME NEW b \in Bufs, NEW w \in Kinds, NEW n \in Nat
      PROVE  At(w, n, b)' <=> \/ At(w, n, b) /\ ~(b \in {b0} /\ w = "free")
                              \/ b \in {b0} /\ w = "ring" /\ n = d
  <2>1. CASE w = "ring"
    BY <1>2, <1>3, <2>1 DEF At
  <2>2. CASE w = "free"
    BY <1>1, <2>2 DEF At
  <2>3. CASE w # "ring" /\ w # "free"
    BY <1>2, <2>3, Zenon DEF At, Kinds
  <2>. QED
    BY <2>1, <2>2, <2>3
<1>5. At("free", 0, b0)
  BY <1>1, Zenon DEF At
<1>6. Transferred({b0}, "free", "ring", d)
  BY <1>4, <1>5 DEF Transferred
<1>. QED
  BY <1>2, <1>6, Moved DEF Kinds

LEMMA TakePlaces ==
  ASSUME Sound, OneEach(Where), Take
  PROVE  OneEach(Where')
<1>. DEFINE b0 == slot[tail]
<1>1. /\ slot' = [slot EXCEPT ![tail] = NoBuf] /\ head' = head
      /\ tail' = (tail + 1) % QSize /\ len' = len - 1 /\ len > 0
      /\ inp = "take" /\ inp' = "pass" /\ cur' = b0
      /\ RingSlots' = RingSlots /\ storage' = storage /\ mbox' = mbox
      /\ free' = free /\ ooseq' = ooseq /\ held' = held
  BY DEF Take, Taken, ThreadInv, ring, handler, stack, RingSlots, Desc
<1>2. tail \in QueueSlots /\ QueueSlots' = QueueSlots \ {tail}
  BY <1>1, DequeueClaims
<1>3. b0 \in Bufs /\ tail \in Nat /\ \A i \in QueueSlots \ {tail} : slot'[i] = slot[i]
  <2>1. b0 \in Bufs /\ tail \in Nat
    BY <1>2, SMT DEF QueueInv, TypeOK
  <2>2. \A i \in QueueSlots : i \in 0..(QSize - 1)
    BY Claimed
  <2>3. slot \in [0..(QSize - 1) -> Bufs \union {NoBuf}]
    BY Zenon DEF TypeOK
  <2>. QED
    BY <1>1, <2>1, <2>2, <2>3, Zenon
<1>. HIDE DEF b0
<1>4. At("queue", tail, b0)
  BY <1>2, Zenon DEF At, b0
<1>5. \A n \in Nat : At("queue", n, b0) => n = tail
  BY <1>3, <1>4, Alone DEF Kinds
<1>6. ASSUME NEW b \in Bufs, NEW w \in Kinds, NEW n \in Nat
      PROVE  At(w, n, b)' <=> \/ At(w, n, b) /\ ~(b \in {b0} /\ w = "queue")
                              \/ b \in {b0} /\ w = "cur" /\ n = 0
  <2>1. CASE w = "queue"
    <3>1. At("queue", n, b)' <=> n \in QueueSlots /\ n # tail /\ slot[n] = b
      BY <1>2, <1>3, Zenon DEF At
    <3>2. At("queue", n, b) <=> n \in QueueSlots /\ slot[n] = b
      BY Zenon DEF At
    <3>. QED
      BY <1>4, <1>5, <2>1, <3>1, <3>2, Zenon DEF b0
  <2>2. CASE w = "cur"
    BY <1>1, <2>2 DEF At
  <2>3. CASE w # "queue" /\ w # "cur"
    BY <1>1, <2>3, Zenon DEF At, Kinds
  <2>. QED
    BY <2>1, <2>2, <2>3
<1>7. Transferred({b0}, "queue", "cur", 0)
  BY <1>3, <1>4, <1>6 DEF Transferred
<1>. QED
  BY <1>3, <1>7, Moved DEF Kinds

LEMMA PassPlaces ==
  ASSUME Sound, OneEach(Where), Pass
  PROVE  OneEach(Where')
<1>1. /\ RingSlots' = RingSlots /\ storage' = storage
      /\ QueueSlots' = QueueSlots /\ slot' = slot
      /\ inp = "pass" /\ inp' = "look" /\ cur \in Bufs
      /\ ooseq' = ooseq /\ held' = held
  BY DEF Pass, NextInput, ThreadInv, ring, queue, handler, RingSlots, QueueSlots, Desc
<1>2. At("cur", 0, cur)
  BY <1>1, Zenon DEF At
<1>3. CASE mbox' = Append(mbox, cur) /\ free' = free
  <2>. DEFINE e == Len(mbox) + 1
  <2>1. /\ e \in Nat /\ mbox'[e] = cur /\ e \notin 1..Len(mbox)
        /\ 1..Len(mbox') = (1..Len(mbox)) \union {e}
        /\ \A i \in 1..Len(mbox) : mbox'[i] = mbox[i]
    <3>1. mbox \in Seq(Bufs \union {Callback}) /\ cur \in Bufs \union {Callback}
      BY <1>1, Zenon DEF TypeOK
    <3>. QED
      BY <1>3, <3>1, BoxSteps, SMT
  <2>. HIDE DEF e
  <2>2. ASSUME NEW b \in Bufs, NEW w \in Kinds, NEW n \in Nat
        PROVE  At(w, n, b)' <=> \/ At(w, n, b) /\ ~(b \in {cur} /\ w = "cur")
                                \/ b \in {cur} /\ w = "mbox" /\ n = e
    <3>1. CASE w = "mbox"
      <4>1. At("mbox", n, b)' <=> n \in 1..Len(mbox') /\ mbox'[n] = b
        BY Zenon DEF At
      <4>2. At("mbox", n, b) <=> n \in 1..Len(mbox) /\ mbox[n] = b
        BY Zenon DEF At
      <4>. QED
        BY <2>1, <3>1, <4>1, <4>2, Zenon
    <3>2. CASE w = "cur"
      BY <1>1, <3>2, SMT DEF At
    <3>3. CASE w # "mbox" /\ w # "cur"
      BY <1>1, <1>3, <3>3, Zenon DEF At, Kinds
    <3>. QED
      BY <3>1, <3>2, <3>3
  <2>3. Transferred({cur}, "cur", "mbox", e)
    BY <1>1, <1>2, <2>2 DEF Transferred
  <2>. QED
    BY <1>1, <2>1, <2>3, Moved DEF Kinds
<1>4. CASE mbox' = mbox /\ free' = free \union {cur}
  <2>2. ASSUME NEW b \in Bufs, NEW w \in Kinds, NEW n \in Nat
        PROVE  At(w, n, b)' <=> \/ At(w, n, b) /\ ~(b \in {cur} /\ w = "cur")
                                \/ b \in {cur} /\ w = "free" /\ n = 0
    <3>1. CASE w = "free"
      BY <1>4, <3>1, SMT DEF At
    <3>2. CASE w = "cur"
      BY <1>1, <3>2, SMT DEF At
    <3>3. CASE w # "free" /\ w # "cur"
      BY <1>1, <1>4, <3>3, Zenon DEF At, Kinds
    <3>. QED
      BY <3>1, <3>2, <3>3
  <2>3. Transferred({cur}, "cur", "free", 0)
    BY <1>1, <1>2, <2>2 DEF Transferred
  <2>. QED
    BY <1>1, <2>3, Moved DEF Kinds
<1>. QED
  BY <1>3, <1>4, Zenon DEF Pass, Freed

\* Places P after buffers S have gone from places w0 to place n1 of w1.
Relocated(P, S, w0, w1, n1) ==
  {x \in Kinds \X Nat \X Bufs : \/ x \in P /\ ~(x[3] \in S /\ x[1] = w0)
                                \/ x[3] \in S /\ x[1] = w1 /\ x[2] = n1}

LEMMA Relocate ==
  ASSUME NEW P, OneEach(P), NEW S \in SUBSET Bufs,
         NEW w0 \in Kinds, NEW w1 \in Kinds, NEW n1 \in Nat,
         \A b \in S : \E n \in Nat : <<w0, n, b>> \in P
  PROVE  /\ OneEach(Relocated(P, S, w0, w1, n1))
         /\ \A w \in Kinds, n \in Nat, b \in Bufs :
              <<w, n, b>> \in Relocated(P, S, w0, w1, n1) <=>
                \/ <<w, n, b>> \in P /\ ~(b \in S /\ w = w0)
                \/ b \in S /\ w = w1 /\ n = n1
<1>1. ASSUME NEW w \in Kinds, NEW n \in Nat, NEW b \in Bufs
      PROVE  <<w, n, b>> \in Relocated(P, S, w0, w1, n1) <=>
               \/ <<w, n, b>> \in P /\ ~(b \in S /\ w = w0)
               \/ b \in S /\ w = w1 /\ n = n1
  BY DEF Relocated
<1>2. Transfer(P, Relocated(P, S, w0, w1, n1), S, w0, w1, n1)
  BY <1>1 DEF Transfer
<1>. QED
  BY <1>1, <1>2, MoveAll

\* tcpip_thread takes a message: P is where the buffers are when the message
\* itself has been dealt with, and the rest has not moved up yet.
LEMMA Fetched ==
  ASSUME Sound, NEW P, OneEach(P), mbox # << >>, mbox' = Tail(mbox),
         \A n \in Nat, b \in Bufs :
           <<"mbox", n, b>> \in P <=> n # 1 /\ At("mbox", n, b),
         \A w \in Kinds \ {"mbox"}, n \in Nat, b \in Bufs :
           <<w, n, b>> \in P <=> At(w, n, b)'
  PROVE  OneEach(Where')
<1>1. mbox \in Seq(Bufs \union {Callback})
  BY Zenon DEF TypeOK
<1>2. /\ Len(mbox) \in Nat /\ Len(mbox) >= 1 /\ Len(mbox') = Len(mbox) - 1
      /\ \A i \in 1..(Len(mbox) - 1) : mbox'[i] = mbox[i + 1]
  BY <1>1, BoxSteps, SMT
<1>3. \A n \in Nat, b \in Bufs : At("mbox", n, b) <=> n \in 1..Len(mbox) /\ mbox[n] = b
  BY Zenon DEF At
<1>4. \A n \in Nat, b \in Bufs : At("mbox", n, b)' <=> n \in 1..Len(mbox') /\ mbox'[n] = b
  BY Zenon DEF At
<1>5. ASSUME NEW n \in Nat, NEW b \in Bufs
      PROVE  At("mbox", n, b)' <=> n # 0 /\ At("mbox", n + 1, b)
  <2>1. n \in 1..(Len(mbox) - 1) <=> n # 0 /\ n + 1 \in 1..Len(mbox)
    BY <1>2, SMT
  <2>2. n + 1 \in Nat
    OBVIOUS
  <2>. QED
    BY <1>2, <1>3, <1>4, <2>1, <2>2, Zenon
<1>6. \A b \in Bufs : <<"mbox", 1, b>> \notin P /\ <<"mbox", 0, b>> \notin P
  <2>1. \A b \in Bufs : ~At("mbox", 0, b)
    BY SMT DEF At
  <2>. QED
    BY <2>1, SMT
<1>7. ASSUME NEW b \in Bufs, NEW w \in Kinds, NEW n \in Nat
      PROVE  <<w, n, b>> \in Where' <=> IF w = "mbox" THEN n # 0 /\ <<w, n + 1, b>> \in P
                                                       ELSE <<w, n, b>> \in P
  <2>1. CASE w = "mbox"
    <3>1. n # 0 => n + 1 # 1 /\ n + 1 \in Nat
      BY SMT
    <3>. QED
      BY <1>5, <2>1, <3>1, InWhere
  <2>2. CASE w # "mbox"
    BY <2>2, InWhere
  <2>. QED
    BY <2>1, <2>2
<1>. QED
  BY <1>6, <1>7, MoveUp

LEMMA TcpipInputPlaces ==
  ASSUME Sound, OneEach(Where), TcpipInput
  PROVE  OneEach(Where')
<1>. DEFINE b0 == Head(mbox)
<1>1. /\ mbox # << >> /\ mbox' = Tail(mbox) /\ b0 \in Bufs /\ b0 = mbox[1] /\ 1 \in 1..Len(mbox)
  <2>1. mbox \in Seq(Bufs \union {Callback}) /\ mbox # << >> /\ mbox' = Tail(mbox)
        /\ Head(mbox) # Callback
    BY Zenon DEF TypeOK, TcpipInput
  <2>. QED
    BY <2>1, BoxSteps, SMT
<1>. HIDE DEF b0
<1>2. /\ RingSlots' = RingSlots /\ storage' = storage
      /\ QueueSlots' = QueueSlots /\ slot' = slot /\ inp' = inp /\ cur' = cur
  BY DEF TcpipInput, ring, queue, handler, thread, RingSlots, QueueSlots, Desc
<1>3. At("mbox", 1, b0)
  BY <1>1, Zenon DEF At
<1>4. \A v \in Kinds, m \in Nat : At(v, m, b0) => v = "mbox" /\ m = 1
  <2>1. "mbox" \in Kinds /\ 1 \in Nat
    BY DEF Kinds
  <2>. QED
    BY <1>1, <1>3, <2>1, Alone
\* The message goes to the first place of w1.
<1>. DEFINE P(w1) == Relocated(Where, {b0}, "mbox", w1, 0)
<1>5. ASSUME NEW w1 \in {"free", "ooseq", "held"}
      PROVE  /\ OneEach(P(w1))
             /\ \A w \in Kinds, n \in Nat, b \in Bufs :
                  <<w, n, b>> \in P(w1) <=> \/ At(w, n, b) /\ ~(b = b0 /\ w = "mbox")
                                            \/ b = b0 /\ w = w1 /\ n = 0
  <2>1. w1 \in Kinds /\ "mbox" \in Kinds /\ {b0} \in SUBSET Bufs
    BY <1>1 DEF Kinds
  <2>2. \A b \in {b0} : \E n \in Nat : <<"mbox", n, b>> \in Where
    BY <1>1, <1>3, <2>1, InWhere
  <2>3. /\ OneEach(P(w1))
        /\ \A w \in Kinds, n \in Nat, b \in Bufs :
             <<w, n, b>> \in P(w1) <=> \/ <<w, n, b>> \in Where /\ ~(b \in {b0} /\ w = "mbox")
                                       \/ b \in {b0} /\ w = w1 /\ n = 0
    BY <2>1, <2>2, Relocate
  <2>. HIDE DEF P
  <2>. QED
    BY <2>3, InWhere
<1>. HIDE DEF P
<1>6. \A n \in Nat, b \in Bufs : (At("mbox", n, b) /\ ~(b = b0)) <=> (n # 1 /\ At("mbox", n, b))
  <2>1. \A n \in Nat : At("mbox", n, b0) => n = 1
    BY <1>4 DEF Kinds
  <2>2. \A b \in Bufs : At("mbox", 1, b) => b = b0
    BY <1>1, SMT DEF At
  <2>. QED
    BY <2>1, <2>2
<1>7. CASE free' = free \union {b0} /\ ooseq' = ooseq /\ held' = held
  <2>1. ASSUME NEW w \in Kinds \ {"mbox"}, NEW n \in Nat, NEW b \in Bufs
        PROVE  At(w, n, b)' <=> At(w, n, b) \/ (b = b0 /\ w = "free" /\ n = 0)
    BY <1>2, <1>7, Zenon DEF At, Kinds
  <2>2. /\ \A n \in Nat, b \in Bufs : <<"mbox", n, b>> \in P("free") <=> n # 1 /\ At("mbox", n, b)
        /\ \A w \in Kinds \ {"mbox"}, n \in Nat, b \in Bufs : <<w, n, b>> \in P("free") <=> At(w, n, b)'
    BY <1>5, <1>6, <2>1 DEF Kinds
  <2>. QED
    BY <1>1, <1>5, <2>2, Fetched
<1>8. CASE free' = free /\ ooseq' = ooseq \union {b0} /\ held' = held
  <2>1. ASSUME NEW w \in Kinds \ {"mbox"}, NEW n \in Nat, NEW b \in Bufs
        PROVE  At(w, n, b)' <=> At(w, n, b) \/ (b = b0 /\ w = "ooseq" /\ n = 0)
    BY <1>2, <1>8, Zenon DEF At, Kinds
  <2>2. /\ \A n \in Nat, b \in Bufs : <<"mbox", n, b>> \in P("ooseq") <=> n # 1 /\ At("mbox", n, b)
        /\ \A w \in Kinds \ {"mbox"}, n \in Nat, b \in Bufs : <<w, n, b>> \in P("ooseq") <=> At(w, n, b)'
    BY <1>5, <1>6, <2>1 DEF Kinds
  <2>. QED
    BY <1>1, <1>5, <2>2, Fetched
<1>9. ASSUME NEW S \in SUBSET ooseq, free' = free, ooseq' = ooseq \ S,
             held' = held \union {b0} \union S
      PROVE  OneEach(Where')
  <2>. DEFINE R == Relocated(P("held"), S, "ooseq", "held", 0)
  <2>1. S \in SUBSET Bufs /\ \A b \in S : b \in Bufs /\ At("ooseq", 0, b) /\ b # b0
    <3>1. S \in SUBSET Bufs
      BY DEF TypeOK
    <3>2. \A b \in S : b \in Bufs /\ At("ooseq", 0, b)
      BY <3>1, SMT DEF At
    <3>. QED
      BY <1>4, <3>1, <3>2 DEF Kinds
  <2>2. \A b \in S : \E n \in Nat : <<"ooseq", n, b>> \in P("held")
    BY <1>5, <2>1 DEF Kinds
  <2>3. "ooseq" \in Kinds /\ "held" \in Kinds
    BY DEF Kinds
  <2>4. OneEach(P("held"))
    BY <1>5
  <2>5. /\ OneEach(R)
        /\ \A w \in Kinds, n \in Nat, b \in Bufs :
             <<w, n, b>> \in R <=> \/ <<w, n, b>> \in P("held") /\ ~(b \in S /\ w = "ooseq")
                                   \/ b \in S /\ w = "held" /\ n = 0
    BY <2>1, <2>2, <2>3, <2>4, Relocate
  <2>. HIDE DEF R
  <2>6. ASSUME NEW w \in Kinds \ {"mbox"}, NEW n \in Nat, NEW b \in Bufs
        PROVE  At(w, n, b)' <=> \/ (At(w, n, b) \/ (b = b0 /\ w = "held" /\ n = 0))
                                     /\ ~(b \in S /\ w = "ooseq")
                                \/ b \in S /\ w = "held" /\ n = 0
    <3>1. CASE w = "held"
      BY <1>9, <3>1, SMT DEF At
    <3>2. CASE w = "ooseq"
      BY <1>9, <3>2, SMT DEF At
    <3>3. CASE w # "held" /\ w # "ooseq"
      BY <1>2, <1>9, <3>3, Zenon DEF At, Kinds
    <3>. QED
      BY <3>1, <3>2, <3>3
  <2>7. ASSUME NEW n \in Nat, NEW b \in Bufs
        PROVE  <<"mbox", n, b>> \in R <=> n # 1 /\ At("mbox", n, b)
    BY <1>5, <1>6, <2>5 DEF Kinds
  <2>8. ASSUME NEW w \in Kinds \ {"mbox"}, NEW n \in Nat, NEW b \in Bufs
        PROVE  <<w, n, b>> \in R <=> At(w, n, b)'
    BY <1>5, <2>5, <2>6
  <2>. QED
    BY <1>1, <2>5, <2>7, <2>8, Fetched
<1>. QED
  BY <1>7, <1>8, <1>9, Zenon DEF TcpipInput, Freed, b0

LEMMA TcpipCallbackPlaces ==
  ASSUME Sound, OneEach(Where), TcpipCallback
  PROVE  OneEach(Where')
<1>1. PICK S \in SUBSET ooseq : free' = free \union S /\ ooseq' = ooseq \ S
  BY Zenon DEF TcpipCallback, Freed
<1>2. /\ RingSlots' = RingSlots /\ storage' = storage /\ held' = held
      /\ QueueSlots' = QueueSlots /\ slot' = slot /\ inp' = inp /\ cur' = cur
      /\ mbox # << >> /\ mbox' = Tail(mbox)
  BY DEF TcpipCallback, ring, queue, handler, thread, RingSlots, QueueSlots, Desc
<1>3. \A b \in Bufs : ~At("mbox", 1, b)
  <2>1. mbox \in Seq(Bufs \union {Callback}) /\ mbox # << >> /\ Head(mbox) = Callback
    BY Zenon DEF TypeOK, TcpipCallback
  <2>2. mbox[1] = 0
    BY <2>1, BoxSteps, SMT
  <2>. QED
    BY <2>2, SMT DEF At
<1>. DEFINE P == Relocated(Where, S, "ooseq", "free", 0)
<1>4. /\ S \in SUBSET Bufs /\ "ooseq" \in Kinds /\ "free" \in Kinds
      /\ \A b \in S : b \in Bufs /\ At("ooseq", 0, b)
  BY SMT DEF TypeOK, Kinds, At
<1>5. \A b \in S : \E n \in Nat : <<"ooseq", n, b>> \in Where
  BY <1>4, InWhere
<1>6. /\ OneEach(P)
      /\ \A w \in Kinds, n \in Nat, b \in Bufs :
           <<w, n, b>> \in P <=> \/ <<w, n, b>> \in Where /\ ~(b \in S /\ w = "ooseq")
                                 \/ b \in S /\ w = "free" /\ n = 0
  BY <1>4, <1>5, Relocate
<1>. HIDE DEF P
<1>7. ASSUME NEW n \in Nat, NEW b \in Bufs
      PROVE  <<"mbox", n, b>> \in P <=> n # 1 /\ At("mbox", n, b)
  BY <1>3, <1>6, InWhere DEF Kinds
<1>8. ASSUME NEW w \in Kinds \ {"mbox"}, NEW n \in Nat, NEW b \in Bufs
      PROVE  <<w, n, b>> \in P <=> At(w, n, b)'
  <2>1. At(w, n, b)' <=> \/ At(w, n, b) /\ ~(b \in S /\ w = "ooseq")
                         \/ b \in S /\ w = "free" /\ n = 0
    <3>1. CASE w = "free"
      BY <1>1, <3>1, SMT DEF At
    <3>2. CASE w = "ooseq"
      BY <1>1, <3>2, SMT DEF At
    <3>3. CASE w # "free" /\ w # "ooseq"
      BY <1>2, <3>3, Zenon DEF At, Kinds
    <3>. QED
      BY <3>1, <3>2, <3>3
  <2>. QED
    BY <1>6, <2>1, InWhere
<1>. QED
  BY <1>2, <1>6, <1>7, <1>8, Fetched

LEMMA ReleasePlaces ==
  ASSUME Sound, OneEach(Where), Release
  PROVE  OneEach(Where')
<1>1. PICK b0 \in ooseq \union held :
        free' = free \union {b0} /\ ooseq' = ooseq \ {b0} /\ held' = held \ {b0}
  BY Zenon DEF Release, Freed
<1>2. /\ RingSlots' = RingSlots /\ storage' = storage /\ mbox' = mbox
      /\ QueueSlots' = QueueSlots /\ slot' = slot /\ inp' = inp /\ cur' = cur
  BY DEF Release, ring, queue, handler, thread, RingSlots, QueueSlots, Desc
<1>3. b0 \in Bufs /\ "ooseq" \in Kinds /\ "held" \in Kinds /\ "free" \in Kinds
  BY SMT DEF TypeOK, Kinds
<1>4. PICK w0 \in {"ooseq", "held"} : At(w0, 0, b0)
  BY Zenon DEF At
<1>5. \A v \in Kinds, m \in Nat : At(v, m, b0) => v = w0 /\ m = 0
  BY <1>3, <1>4, Alone
<1>6. ASSUME NEW b \in Bufs, NEW w \in Kinds, NEW n \in Nat
      PROVE  At(w, n, b)' <=> \/ At(w, n, b) /\ ~(b \in {b0} /\ w = w0)
                              \/ b \in {b0} /\ w = "free" /\ n = 0
  <2>1. CASE w = "free"
    BY <1>1, <2>1, SMT DEF At
  <2>2. CASE w = "ooseq"
    <3>1. At("ooseq", n, b)' <=> At("ooseq", n, b) /\ b # b0
      BY <1>1, Zenon DEF At
    <3>. QED
      BY <1>5, <2>2, <3>1
  <2>3. CASE w = "held"
    <3>1. At("held", n, b)' <=> At("held", n, b) /\ b # b0
      BY <1>1, Zenon DEF At
    <3>. QED
      BY <1>5, <2>3, <3>1
  <2>4. CASE w \notin {"free", "ooseq", "held"}
    <3>1. At(w, n, b)' <=> At(w, n, b)
      BY <1>2, <2>4, Zenon DEF At, Kinds
    <3>. QED
      BY <2>4, <3>1
  <2>. QED
    BY <2>1, <2>2, <2>3, <2>4
<1>7. Transferred({b0}, w0, "free", 0)
  BY <1>4, <1>6 DEF Transferred
<1>. QED
  BY <1>3, <1>7, Moved

\* Only a full ring gives each of its buffers back to the pool once.
LEMMA ResetPlaces ==
  ASSUME Sound, OneEach(Where), EnterReset, ~corrupt'
  PROVE  OneEach(Where')
<1>. DEFINE S == {storage[i] : i \in Descs}
<1>1. FreeDescs = 0
  <2>1. ~(FreeDescs > 0)
    BY Zenon DEF EnterReset
  <2>. QED
    BY <2>1, SMT DEF FreeDescs, TypeOK
<1>2. RingSlots = Descs /\ RingSlots' = { }
  BY <1>1, ResetClaims
<1>3. /\ free' = free \union S /\ storage' = storage /\ mbox' = mbox
      /\ QueueSlots' = QueueSlots /\ slot' = slot /\ inp' = inp /\ cur' = cur
      /\ ooseq' = ooseq /\ held' = held
  BY Zenon DEF EnterReset, Freed, QueueSlots, queue, thread, stack
<1>4. S \in SUBSET Bufs /\ "ring" \in Kinds /\ "free" \in Kinds
  <2>1. \A i \in Descs : storage[i] \in Bufs
    BY SMT DEF TypeOK
  <2>. QED
    BY <2>1, Zenon DEF Kinds
<1>5. \A b \in S : \E n \in Nat : At("ring", n, b)
  <2>1. Descs \subseteq Nat
    BY SMT DEF Descs
  <2>. QED
    BY <1>2, <2>1, Zenon DEF At
<1>6. \A n \in Nat, b \in Bufs : At("ring", n, b) => b \in S
  BY <1>2, Zenon DEF At
<1>. HIDE DEF S
<1>7. ASSUME NEW b \in Bufs, NEW w \in Kinds, NEW n \in Nat
      PROVE  At(w, n, b)' <=> \/ At(w, n, b) /\ ~(b \in S /\ w = "ring")
                              \/ b \in S /\ w = "free" /\ n = 0
  <2>1. CASE w = "ring"
    <3>1. ~At("ring", n, b)'
      BY <1>2, SMT DEF At
    <3>. QED
      BY <1>6, <2>1, <3>1
  <2>2. CASE w = "free"
    BY <1>3, <2>2, SMT DEF At
  <2>3. CASE w # "ring" /\ w # "free"
    BY <1>3, <2>3, Zenon DEF At, Kinds
  <2>. QED
    BY <2>1, <2>2, <2>3
<1>8. Transferred(S, "ring", "free", 0)
  BY <1>5, <1>7 DEF Transferred
<1>. QED
  BY <1>4, <1>8, Moved

-----------------------------------------------------------------------------
(* The theorems.                                                           *)

\* After init_dma the ring holds the first NDesc buffers, the pool the rest.
LEMMA InitInv ==
  ASSUME Init
  PROVE  RxInv
<1>1. NDesc \in Nat \ {0} /\ QSize \in Nat \ {0} /\ MboxSize \in Nat \ {0} /\ NBuf \in Nat
  OBVIOUS
<1>2. Flags
  BY Zenon DEF Init, Flags
<1>3. Boxed
  BY SMT DEF Init, Boxed
<1>4. Ranges
  <2>1. storage \in [Descs -> Bufs]
    BY SMT DEF Init, Descs
  <2>2. slot \in [0..(QSize - 1) -> Bufs \union {NoBuf}]
    BY SMT DEF Init
  <2>3. free \subseteq Bufs
    BY SMT DEF Init
  <2>. QED
    BY <2>1, <2>2, <2>3, SMT DEF Init, Ranges, Descs
<1>5. HandlerInv /\ ThreadInv
  BY SMT DEF Init, HandlerInv, ThreadInv, Filling
<1>6. TypeOK
  BY <1>2, <1>3, <1>4, TypeParts
<1>7. RingSlots = Descs /\ QueueSlots = { }
  <2>1. first = 0 /\ moved = 0 /\ done + hw = NDesc /\ tail = 0 /\ len = 0
    BY SMT DEF Init
  <2>2. 0 \in 0..(NDesc - 1) /\ 0 \in 0..(QSize - 1) /\ 0 \in 0..QSize
    BY SMT
  <2>3. Arc(NDesc, 0, 0, NDesc) = Descs /\ Arc(QSize, 0, 0, 0) = { }
    BY <2>2, ArcAll DEF Descs
  <2>. QED
    BY <1>6, <2>1, <2>3, Claimed
<1>8. QueueInv
  BY <1>7, SMT DEF Init, QueueInv
<1>9. OneEach(Where)
  <2>. SUFFICES ASSUME NEW b \in Bufs
                PROVE  \E w \in Kinds, n \in Nat : \A v \in Kinds, m \in Nat :
                         <<v, m, b>> \in Where <=> v = w /\ m = n
    BY DEF OneEach
  <2>1. CASE b \in 1..NDesc
    <3>1. b - 1 \in Nat /\ b - 1 \in Descs
      BY <2>1, SMT DEF Descs
    <3>2. ASSUME NEW v \in Kinds, NEW m \in Nat
          PROVE  At(v, m, b) <=> v = "ring" /\ m = b - 1
      <4>1. m \in Descs => (storage[m] = b <=> m = b - 1)
        BY <2>1, SMT DEF Init, Descs
      <4>2. CASE v = "ring"
        BY <1>7, <3>1, <4>1, <4>2 DEF At
      <4>3. CASE v # "ring"
        BY <1>7, <2>1, <4>3, SMT DEF At, Init
      <4>. QED
        BY <4>2, <4>3
    <3>3. \A v \in Kinds, m \in Nat : <<v, m, b>> \in Where <=> v = "ring" /\ m = b - 1
      BY <3>2, InWhere
    <3>4. "ring" \in Kinds
      BY DEF Kinds
    <3>. QED
      BY <3>1, <3>3, <3>4, Zenon
  <2>2. CASE b \notin 1..NDesc
    <3>2. ASSUME NEW v \in Kinds, NEW m \in Nat
          PROVE  At(v, m, b) <=> v = "free" /\ m = 0
      <4>1. m \in Descs => storage[m] # b
        BY <2>2, SMT DEF Init, Descs
      <4>2. CASE v = "free"
        BY <2>2, <4>2, SMT DEF At, Init
      <4>3. CASE v # "free"
        BY <1>7, <4>1, <4>3, SMT DEF At, Init
      <4>. QED
        BY <4>2, <4>3
    <3>. QED
      BY <3>2, InWhere DEF Kinds
  <2>. QED
    BY <2>1, <2>2
<1>. QED
  BY <1>5, <1>6, <1>8, <1>9 DEF RxInv, Once

LEMMA NextInv ==
  ASSUME RxInv, [Next]_vars
  PROVE  RxInv'
<1>1. CASE UNCHANGED vars
  <2>1. TypeOK' /\ HandlerInv' /\ ThreadInv'
    <3>1. TypeOK'
      BY <1>1, SMT DEF RxInv, TypeOK, vars, ring, queue, handler, thread, stack
    <3>2. HandlerInv'
      BY <1>1, SMT DEF RxInv, HandlerInv, Filling, vars, ring, handler
    <3>3. ThreadInv'
      BY <1>1, SMT DEF RxInv, ThreadInv, vars, queue, handler, thread
    <3>. QED
      BY <3>1, <3>2, <3>3
  <2>2. QueueInv'
    BY <1>1, QueueKept DEF RxInv, vars
  <2>3. Once'
    <3>1. Where' = Where /\ corrupt' = corrupt
      BY <1>1 DEF Where, At, RingSlots, QueueSlots, Desc, vars, ring, queue, handler, thread, stack
    <3>. QED
      BY <3>1 DEF RxInv, Once
  <2>. QED
    BY <2>1, <2>2, <2>3 DEF RxInv
<1>2. ASSUME ~corrupt, Sound', ~corrupt' => OneEach(Where')
      PROVE  RxInv'
  BY <1>2, Zenon DEF RxInv, Once, OneEach
<1>3. CASE ~corrupt
  <2>. USE <1>3
  <2>0. Sound /\ OneEach(Where)
    BY DEF RxInv, Once
  <2>1. CASE Receive
    BY <2>0, <2>1, <1>2, ReceiveSound, QuietPlaces
  <2>2. CASE Miss
    BY <2>0, <2>2, <1>2, MissSound, QuietPlaces
  <2>3. CASE EnterReset
    BY <2>0, <2>3, <1>2, EnterResetSound, ResetPlaces
  <2>4. CASE EnterRecv
    BY <2>0, <2>4, <1>2, EnterRecvSound, QuietPlaces
  <2>5. CASE Batch
    BY <2>0, <2>5, <1>2, BatchSound, QuietPlaces
  <2>6. CASE Signal
    BY <2>0, <2>6, <1>2, SignalSound, QuietPlaces
  <2>7. CASE Move
    BY <2>0, <2>7, <1>2, MoveSound, MovePlaces
  <2>8. CASE Fill
    BY <2>0, <2>8, <1>2, FillSound, FillPlaces
  <2>9. CASE PoolEmpty
    BY <2>0, <2>9, <1>2, PoolEmptySound, QuietPlaces
  <2>10. CASE Wake
    BY <2>0, <2>10, <1>2, WakeSound, QuietPlaces
  <2>11. CASE Look
    BY <2>0, <2>11, <1>2, LookSound, QuietPlaces
  <2>12. CASE Take
    BY <2>0, <2>12, <1>2, TakeSound, TakePlaces
  <2>13. CASE Pass
    BY <2>0, <2>13, <1>2, PassSound, PassPlaces
  <2>14. CASE TcpipInput
    BY <2>0, <2>14, <1>2, TcpipInputSound, TcpipInputPlaces
  <2>15. CASE TcpipCallback
    BY <2>0, <2>15, <1>2, TcpipCallbackSound, TcpipCallbackPlaces
  <2>16. CASE Release
    BY <2>0, <2>16, <1>2, ReleaseSound, ReleasePlaces
  <2>. QED
    BY <1>1, <2>1, <2>2, <2>3, <2>4, <2>5, <2>6, <2>7, <2>8, <2>9, <2>10, <2>11, <2>12, <2>13,
       <2>14, <2>15, <2>16, Zenon DEF Next, Corrupted, Handler, InputThread, Tcpip
<1>4. CASE corrupt
  BY <1>1, <1>4, Zenon DEF Next, Corrupted
<1>. QED
  BY <1>3, <1>4

\* The invariant on which the other theorems about receiving rest.
THEOREM RxInductive == Spec => []RxInv
BY InitInv, NextInv, PTL DEF Spec

\* Indices stay in the ring and the queue, counts in their bounds, and no
\* more is taken back from the MAC than it was given (setup_rx_bds,
\* emacps_recv_handler, pq_enqueue, pq_dequeue, pbuf_free_ooseq_callback).
THEOREM TypeCorrect == Spec => []TypeOK
<1>1. RxInv => TypeOK
  BY DEF RxInv
<1>. QED
  BY <1>1, RxInductive, PTL

\* Every buffer of the pool is in exactly one place, whatever the numbers of
\* buffers, descriptors, slots and messages, until a DMA error meets a ring
\* with free descriptors (free_txrx_pbufs).
THEOREM EveryBufferOnce == Spec => []OwnedOnce
<1>1. RxInv => OwnedOnce
  <2>. SUFFICES ASSUME RxInv, ~corrupt, NEW b \in Bufs
                PROVE  \E p \in Places(b) : Places(b) = {p}
    BY DEF OwnedOnce
  <2>1. PICK w \in Kinds, n \in Nat : \A v \in Kinds, m \in Nat :
          <<v, m, b>> \in Where <=> v = w /\ m = n
    BY DEF RxInv, Once, OneEach
  <2>2. \A v \in Kinds, m \in Nat : At(v, m, b) <=> v = w /\ m = n
    BY <2>1, InWhere
  <2>3. \A i \in RingSlots \union QueueSlots \union DOMAIN mbox : i \in Nat
    <3>1. Descs \subseteq Nat /\ 0..(QSize - 1) \subseteq Nat
      BY SMT DEF Descs
    <3>2. RingSlots \subseteq Descs /\ QueueSlots \subseteq 0..(QSize - 1)
      BY Claimed DEF RxInv
    <3>3. DOMAIN mbox = 1..Len(mbox) /\ 1..Len(mbox) \subseteq Nat
      BY SMT DEF RxInv, TypeOK
    <3>. QED
      BY <3>1, <3>2, <3>3
  <2>4. DOMAIN mbox = 1..Len(mbox)
    BY SMT DEF RxInv, TypeOK
  <2>5. ASSUME NEW p \in Places(b)
        PROVE  p = <<w, n>>
    <3>1. PICK v \in Kinds, m \in Nat : p = <<v, m>> /\ At(v, m, b)
      BY <2>3, <2>4, Zenon DEF Places, Kinds, At
    <3>. QED
      BY <2>2, <3>1
  <2>6. <<w, n>> \in Places(b)
    <3>1. At(w, n, b)
      BY <2>2
    <3>. QED
      BY <2>4, <3>1, Zenon DEF Places, At
  <2>. QED
    BY <2>5, <2>6, Zenon
<1>. QED
  BY <1>1, RxInductive, PTL

-----------------------------------------------------------------------------
(* Sending.  The inductive invariant first speaks of references: what each *)
(* buffer is claimed by, and that its count is the number of its claims.   *)

USE TxAssumption

\* p is in the ring.
InSlot(p) == \E i \in TxDescs : txslot[i] = p

\* The claims to a buffer, but that of the buffer before it in its chain.
Claims ==
  [p \in Pbufs |-> (IF p[2] = 1 THEN Held(p[1]) ELSE 0)
                   + (IF InSlot(p) THEN 1 ELSE 0)]

\* r counts claims e, and for the other buffers of a chain the one before.
Balanced(r, e) ==
  \A f \in Frames : \A k \in 1..parts[f] :
    r[<<f, k>>] = e[<<f, k>>] + (IF k > 1 /\ r[<<f, k - 1>>] > 0 THEN 1 ELSE 0)

BufTypes ==
  /\ own \in [Frames -> {"none", "once", "unsent", "unacked"}]
  /\ arpq \subseteq Frames
  /\ parts \in [Frames -> 1..MaxParts]
  /\ ref \in [Pbufs -> Int]
  /\ txslot \in [TxDescs -> Pbufs \union {NoPbuf}]

\* A slot refers to a buffer of a chain, and no two to the same.
SlotsValid ==
  \A i \in TxDescs : txslot[i] # NoPbuf =>
    txslot[i] \in Pbufs /\ txslot[i][2] <= parts[txslot[i][1]]

SlotsOnce ==
  \A i, j \in TxDescs : txslot[i] = txslot[j] /\ txslot[i] # NoPbuf => i = j

\* Buffers beyond the end of a chain have no references.
NoSpare ==
  \A f \in Frames : \A k \in 1..MaxParts : k > parts[f] => ref[<<f, k>>] = 0

\* A chain that lwIP or ARP refers to is referred to up to its end.
Linked ==
  \A f \in Frames : Held(f) > 0 => \A k \in 1..parts[f] : ref[<<f, k>>] > 0

RefInv ==
  /\ BufTypes /\ Balanced(ref, Claims)
  /\ SlotsValid /\ SlotsOnce /\ NoSpare /\ Linked

\* One claim to p less.
Less(e, p) == [e EXCEPT ![p] = e[p] - 1]

\* What lies beyond the ends of the chains is as in r.
SpareKept(r, r2) ==
  \A g \in Frames, k \in 1..MaxParts : k > parts[g] => r2[<<g, k>>] = r[<<g, k>>]

\* pbuf_free of a buffer takes one of its claims, and keeps the balance of
\* the whole chain.
LEMMA DerefKeeps ==
  ASSUME parts \in [Frames -> 1..MaxParts],
         NEW r \in [Pbufs -> Int], NEW e \in [Pbufs -> Nat], Balanced(r, e),
         NEW f \in Frames, NEW j \in 1..parts[f], e[<<f, j>>] > 0
  PROVE  /\ Deref(r, <<f, j>>) \in [Pbufs -> Int]
         /\ Balanced(Deref(r, <<f, j>>), Less(e, <<f, j>>))
         /\ SpareKept(r, Deref(r, <<f, j>>))
<1>. DEFINE r2 == Deref(r, <<f, j>>)
            e2 == Less(e, <<f, j>>)
            gone(k) == \A l \in j..(k - 1) : r[<<f, l>>] = 1
<1>1. \A g \in Frames : 1..parts[g] \subseteq 1..MaxParts /\ parts[g] \in Nat
  BY SMT
<1>2. \A g \in Frames, k \in 1..MaxParts : <<g, k>> \in Pbufs
  BY DEF Pbufs
<1>3. \A g \in Frames, k \in 1..MaxParts :
        <<g, k>> \in Chain(f) <=> g = f /\ k \in 1..parts[f]
  BY <1>1, Zenon DEF Chain
<1>4. \A g \in Frames, k \in 1..MaxParts :
        r2[<<g, k>>] = IF g = f /\ k \in 1..parts[f] /\ k >= j /\ gone(k)
                       THEN r[<<g, k>>] - 1 ELSE r[<<g, k>>]
  BY <1>2, <1>3 DEF Deref
<1>5. r2 \in [Pbufs -> Int]
  BY SMT DEF Deref
<1>6. \A g \in Frames, k \in 1..MaxParts :
        e2[<<g, k>>] = IF g = f /\ k = j THEN e[<<g, k>>] - 1 ELSE e[<<g, k>>]
  BY <1>1, <1>2 DEF Less
<1>. HIDE DEF r2, e2
<1>7. ASSUME NEW g \in Frames, NEW k \in 1..parts[g]
      PROVE  r2[<<g, k>>] = e2[<<g, k>>] + (IF k > 1 /\ r2[<<g, k - 1>>] > 0 THEN 1 ELSE 0)
  <2>0. /\ k \in 1..MaxParts /\ (k > 1 => k - 1 \in 1..MaxParts /\ k - 1 \in 1..parts[g])
        /\ r[<<g, k>>] = e[<<g, k>>] + (IF k > 1 /\ r[<<g, k - 1>>] > 0 THEN 1 ELSE 0)
        /\ r[<<g, k>>] \in Int /\ e[<<g, k>>] \in Nat
        /\ (k > 1 => r[<<g, k - 1>>] \in Int /\ e[<<g, k - 1>>] \in Nat)
        /\ j \in 1..MaxParts /\ k \in Int /\ j \in Int
    BY <1>1, <1>2, SMT DEF Balanced
  <2>1. CASE g # f \/ k < j
    <3>1. /\ r2[<<g, k>>] = r[<<g, k>>] /\ e2[<<g, k>>] = e[<<g, k>>]
          /\ k > 1 => r2[<<g, k - 1>>] = r[<<g, k - 1>>]
      BY <1>4, <1>6, <2>0, <2>1
    <3>. QED
      BY <2>0, <3>1
  <2>2. CASE g = f /\ k = j
    <3>1. gone(k)
      BY <2>0, <2>2, SMT
    <3>2. r2[<<g, k>>] = r[<<g, k>>] - 1 /\ e2[<<g, k>>] = e[<<g, k>>] - 1
      BY <1>4, <1>6, <2>0, <2>2, <3>1
    <3>3. k > 1 => r2[<<g, k - 1>>] = r[<<g, k - 1>>]
      BY <1>4, <2>0, <2>2
    <3>. QED
      BY <2>0, <3>2, <3>3
  <2>3. CASE g = f /\ k > j
    <3>1. gone(k) <=> gone(k - 1) /\ r[<<f, k - 1>>] = 1
      <4>1. \A l \in j..(k - 1) : l \in j..(k - 1 - 1) \/ l = k - 1
        BY <2>0, SMT
      <4>2. k - 1 \in j..(k - 1) /\ \A l \in j..(k - 1 - 1) : l \in j..(k - 1)
        BY <2>0, <2>3, SMT
      <4>. QED
        BY <4>1, <4>2
    <3>2. /\ k - 1 >= j /\ k > 1 /\ k >= j /\ k - 1 \in 1..parts[f] /\ k \in 1..parts[f]
          /\ k - 1 \in 1..MaxParts /\ k # j
      BY <2>0, <2>3, SMT
    <3>3. gone(k - 1) => r[<<f, k - 1>>] >= 1
      <4>0. /\ r[<<f, k - 1>>] = e[<<f, k - 1>>]
                 + (IF k - 1 > 1 /\ r[<<f, k - 1 - 1>>] > 0 THEN 1 ELSE 0)
            /\ r[<<f, k - 1>>] \in Int /\ e[<<f, k - 1>>] \in Nat
        BY <2>0, <2>3, <3>2 DEF Balanced
      <4>1. CASE k - 1 = j
        BY <4>0, <4>1, <2>0
      <4>2. CASE k - 1 # j
        <5>1. k - 1 - 1 \in j..(k - 1 - 1) /\ k - 1 > 1
          BY <2>0, <3>2, <4>2, SMT
        <5>. QED
          BY <4>0, <5>1, SMT
      <4>. QED
        BY <4>1, <4>2
    <3>4. /\ r2[<<g, k>>] = IF gone(k) THEN r[<<g, k>>] - 1 ELSE r[<<g, k>>]
          /\ r2[<<g, k - 1>>] = IF gone(k - 1) THEN r[<<g, k - 1>>] - 1 ELSE r[<<g, k - 1>>]
          /\ e2[<<g, k>>] = e[<<g, k>>]
      BY <1>4, <1>6, <2>0, <2>3, <3>2
    <3>. HIDE DEF gone
    <3>5. CASE gone(k - 1)
      BY <2>0, <2>3, <3>1, <3>2, <3>3, <3>4, <3>5
    <3>6. CASE ~gone(k - 1)
      BY <2>0, <2>3, <3>1, <3>2, <3>4, <3>6
    <3>. QED
      BY <3>5, <3>6
  <2>. QED
    BY <2>0, <2>1, <2>2, <2>3, SMT
<1>8. \A g \in Frames, k \in 1..MaxParts : k > parts[g] => r2[<<g, k>>] = r[<<g, k>>]
  BY <1>1, <1>4, SMT
<1>. QED
  BY <1>5, <1>7, <1>8 DEF Balanced, SpareKept, r2, e2

\* The claims at a glance, and what they say of the buffers of a chain.
LEMMA ClaimFacts ==
  ASSUME RefInv
  PROVE  /\ \A f \in Frames : parts[f] \in Nat /\ 1 \in 1..parts[f]
                              /\ 1..parts[f] \subseteq 1..MaxParts
         /\ \A f \in Frames, k \in 1..MaxParts : <<f, k>> \in Pbufs
         /\ \A p \in Pbufs : /\ p[1] \in Frames /\ p[2] \in 1..MaxParts /\ p = <<p[1], p[2]>>
                             /\ p # NoPbuf
         /\ \A f \in Frames : Held(f) \in 0..2
         /\ Claims \in [Pbufs -> Nat]
         /\ \A p \in Pbufs : InSlot(p) => p[2] \in 1..parts[p[1]] /\ Claims[p] > 0
         /\ \A f \in Frames : \A k \in 1..parts[f] :
              /\ ref[<<f, k>>] = Claims[<<f, k>>]
                   + (IF k > 1 /\ ref[<<f, k - 1>>] > 0 THEN 1 ELSE 0)
              /\ ref[<<f, k>>] >= Claims[<<f, k>>]
<1>1. \A f \in Frames : parts[f] \in Nat /\ 1 \in 1..parts[f] /\ 1..parts[f] \subseteq 1..MaxParts
  BY SMT DEF RefInv, BufTypes
<1>2. \A f \in Frames, k \in 1..MaxParts : <<f, k>> \in Pbufs
  BY DEF Pbufs
<1>3. \A p \in Pbufs : /\ p[1] \in Frames /\ p[2] \in 1..MaxParts /\ p = <<p[1], p[2]>>
                       /\ p # NoPbuf
  BY DEF Pbufs, NoPbuf
<1>0. \A f \in Frames : Held(f) \in 0..2
  BY SMT DEF Held
<1>4. Claims \in [Pbufs -> Nat]
  <2>1. \A p \in Pbufs : /\ (IF p[2] = 1 THEN Held(p[1]) ELSE 0) \in Nat
                          /\ (IF InSlot(p) THEN 1 ELSE 0) \in Nat
    BY <1>0, <1>3, SMT
  <2>2. \A p \in Pbufs : (IF p[2] = 1 THEN Held(p[1]) ELSE 0)
                          + (IF InSlot(p) THEN 1 ELSE 0) \in Nat
    BY <2>1, SMT
  <2>. QED
    BY <2>2 DEF Claims
<1>5. ASSUME NEW p \in Pbufs, InSlot(p)
      PROVE  p[2] \in 1..parts[p[1]] /\ Claims[p] > 0
  <2>1. p[2] <= parts[p[1]]
    BY <1>3, <1>5 DEF InSlot, RefInv, SlotsValid
  <2>2. Claims[p] > 0
    <3>1. (IF p[2] = 1 THEN Held(p[1]) ELSE 0) \in Nat
      BY <1>0, <1>3, SMT
    <3>2. Claims[p] = (IF p[2] = 1 THEN Held(p[1]) ELSE 0) + 1
      BY <1>5 DEF Claims
    <3>. QED
      BY <3>1, <3>2, SMT
  <2>. QED
    BY <1>1, <1>3, <2>1, <2>2, SMT
<1>6. ASSUME NEW f \in Frames, NEW k \in 1..parts[f]
      PROVE  /\ ref[<<f, k>>] = Claims[<<f, k>>]
                   + (IF k > 1 /\ ref[<<f, k - 1>>] > 0 THEN 1 ELSE 0)
             /\ ref[<<f, k>>] >= Claims[<<f, k>>]
  <2>1. ref[<<f, k>>] = Claims[<<f, k>>]
          + (IF k > 1 /\ ref[<<f, k - 1>>] > 0 THEN 1 ELSE 0)
    BY DEF RefInv, Balanced
  <2>2. Claims[<<f, k>>] \in Nat
    BY <1>1, <1>2, <1>4
  <2>. QED
    BY <2>1, <2>2, SMT
<1>. QED
  BY <1>0, <1>1, <1>2, <1>3, <1>4, <1>5, <1>6

\* A descriptor's buffer is freed (process_sent_bds, free_txrx_pbufs).
LEMMA FreeSlot ==
  ASSUME RefInv, NEW i \in TxDescs, txslot[i] # NoPbuf,
         ref' = Deref(ref, txslot[i]), txslot' = [txslot EXCEPT ![i] = NoPbuf],
         own' = own, arpq' = arpq, parts' = parts
  PROVE  RefInv'
<1>. DEFINE p == txslot[i]
<1>0. \A f : Held(f)' = Held(f)
  BY DEF Held
<1>1. /\ p \in Pbufs /\ InSlot(p) /\ p[2] \in 1..parts[p[1]] /\ Claims[p] > 0
      /\ p = <<p[1], p[2]>> /\ p[1] \in Frames
  BY ClaimFacts DEF RefInv, SlotsValid, InSlot
<1>2. txslot'[i] = NoPbuf /\ \A j \in TxDescs : j # i => txslot'[j] = txslot[j]
  BY DEF RefInv, BufTypes
<1>3. \A q \in Pbufs : InSlot(q)' <=> InSlot(q) /\ q # p
  <2>1. \A q \in Pbufs : InSlot(q)' <=> \E j \in TxDescs : txslot'[j] = q
    BY DEF InSlot
  <2>. QED
    BY <1>2, <2>1, ClaimFacts DEF InSlot, RefInv, SlotsOnce
<1>. DEFINE e2 == Less(Claims, p)
<1>4. \A q \in Pbufs : Claims'[q] = e2[q]
  <2>1. \A q \in Pbufs : Claims'[q] = (IF q[2] = 1 THEN Held(q[1]) ELSE 0)
                                      + (IF InSlot(q)' THEN 1 ELSE 0)
    BY <1>0 DEF Claims
  <2>2. \A q \in Pbufs : Claims[q] = (IF q[2] = 1 THEN Held(q[1]) ELSE 0)
                                      + (IF InSlot(q) THEN 1 ELSE 0)
    BY DEF Claims
  <2>4. \A q \in Pbufs : (IF q[2] = 1 THEN Held(q[1]) ELSE 0) \in Int
    BY ClaimFacts, SMT
  <2>3. \A q \in Pbufs : e2[q] = IF q = p THEN Claims[q] - 1 ELSE Claims[q]
    BY <1>1, ClaimFacts DEF Less
  <2>. HIDE DEF e2
  <2>. QED
    BY <1>1, <1>3, <2>1, <2>2, <2>3, <2>4, SMT
<1>. HIDE DEF p
<1>5. /\ Deref(ref, p) \in [Pbufs -> Int]
      /\ Balanced(Deref(ref, p), e2)
      /\ SpareKept(ref, Deref(ref, p))
  <2>1. PICK f \in Frames : f = p[1]
    BY <1>1
  <2>2. PICK j \in 1..parts[f] : j = p[2]
    BY <1>1, <2>1
  <2>3. p = <<f, j>> /\ Claims[<<f, j>>] > 0
    BY <1>1, <2>1, <2>2
  <2>4. /\ parts \in [Frames -> 1..MaxParts] /\ ref \in [Pbufs -> Int]
        /\ Claims \in [Pbufs -> Nat] /\ Balanced(ref, Claims)
    BY ClaimFacts DEF RefInv, BufTypes
  <2>. QED
    BY <2>3, <2>4, DerefKeeps
<1>6. ref' = Deref(ref, p)
  BY DEF p
<1>7. Balanced(ref, Claims)'
  <2>1. Balanced(ref', e2)
    BY <1>5, <1>6
  <2>. HIDE DEF e2
  <2>2. \A f \in Frames : \A k \in 1..parts[f] : Claims'[<<f, k>>] = e2[<<f, k>>]
    BY <1>4, ClaimFacts
  <2>3. \A f \in Frames : \A k \in 1..parts[f] :
          ref'[<<f, k>>] = e2[<<f, k>>] + (IF k > 1 /\ ref'[<<f, k - 1>>] > 0 THEN 1 ELSE 0)
    BY <2>1 DEF Balanced
  <2>. QED
    BY <2>2, <2>3 DEF Balanced
<1>8. BufTypes'
  BY <1>5, <1>6 DEF RefInv, BufTypes
<1>9. SlotsValid' /\ SlotsOnce'
  BY <1>2 DEF RefInv, SlotsValid, SlotsOnce
<1>10. NoSpare'
  BY <1>5, <1>6 DEF RefInv, NoSpare, SpareKept
<1>11. Linked'
  <2>. SUFFICES ASSUME NEW f \in Frames, Held(f) > 0, NEW k \in 1..parts[f]
                PROVE  ref'[<<f, k>>] > 0
    BY <1>0 DEF Linked
  <2>0. Held(f) \in Nat
    BY ClaimFacts, SMT
  <2>1. ref[<<f, k>>] > 0 /\ ref[<<f, k>>] \in Int /\ k \in 1..MaxParts /\ k \in Int
    BY ClaimFacts DEF RefInv, Linked, BufTypes
  <2>2. ref'[<<f, k>>] = IF /\ <<f, k>> \in Chain(p[1]) /\ k >= p[2]
                            /\ \A l \in p[2]..(k - 1) : ref[<<p[1], l>>] = 1
                         THEN ref[<<f, k>>] - 1 ELSE ref[<<f, k>>]
    BY <1>6, <2>1, ClaimFacts DEF Deref
  <2>3. CASE p[1] = f /\ p[2] = k
    <3>1. k > 1 => ref[<<f, k - 1>>] > 0
      <4>1. k > 1 => k - 1 \in 1..parts[f]
        BY <2>1, ClaimFacts, SMT
      <4>. QED
        BY <4>1 DEF RefInv, Linked
    <3>2. p = <<f, k>>
      BY <1>1, <2>3
    <3>3. /\ ref[<<f, k>>] = Claims[p] + (IF k > 1 /\ ref[<<f, k - 1>>] > 0 THEN 1 ELSE 0)
          /\ Claims[p] \in Nat
      BY <1>1, <3>2, ClaimFacts
    <3>4. k = 1 => Claims[p] >= 2
      <4>1. k = 1 => Claims[p] = Held(f) + 1
        BY <1>1, <2>3 DEF Claims
      <4>. QED
        BY <2>0, <4>1, SMT
    <3>5. ref[<<f, k>>] >= 2
      BY <1>1, <2>1, <3>1, <3>3, <3>4, SMT
    <3>. QED
      BY <2>1, <2>2, <3>5, SMT
  <2>4. CASE ~(p[1] = f /\ p[2] = k)
    <3>1. CASE p[1] # f
      <4>1. <<f, k>> \notin Chain(p[1])
        BY <3>1 DEF Chain
      <4>. QED
        BY <2>1, <2>2, <4>1
    <3>2. CASE p[1] = f /\ k < p[2]
      BY <1>1, <2>1, <2>2, <3>2, ClaimFacts, SMT
    <3>3. CASE p[1] = f /\ k > p[2]
      <4>. DEFINE j == p[2]
      <4>1. j \in 1..parts[f] /\ j \in Int /\ j \in j..(k - 1) /\ p = <<f, j>>
        BY <1>1, <2>1, <3>3, ClaimFacts, SMT
      <4>2. j > 1 => ref[<<f, j - 1>>] > 0
        <5>1. j > 1 => j - 1 \in 1..parts[f]
          BY <4>1, ClaimFacts, SMT
        <5>. QED
          BY <5>1 DEF RefInv, Linked
      <4>3. /\ ref[<<f, j>>] = Claims[p] + (IF j > 1 /\ ref[<<f, j - 1>>] > 0 THEN 1 ELSE 0)
            /\ Claims[p] \in Nat
        BY <1>1, <4>1, ClaimFacts
      <4>4. j = 1 => Claims[p] >= 2
        <5>1. j = 1 => Claims[p] = Held(f) + 1
          BY <1>1, <3>3 DEF Claims
        <5>. QED
          BY <2>0, <5>1, SMT
      <4>5. ref[<<f, j>>] # 1
        BY <1>1, <4>1, <4>2, <4>3, <4>4, SMT
      <4>. QED
        BY <2>1, <2>2, <3>3, <4>1, <4>5
    <3>. QED
      BY <1>1, <2>1, <2>4, <3>1, <3>2, <3>3, ClaimFacts, SMT
  <2>. QED
    BY <2>3, <2>4
<1>. QED
  BY <1>7, <1>8, <1>9, <1>10, <1>11 DEF RefInv

\* lwIP or ARP gives up a reference to a chain.
LEMMA FreeHead ==
  ASSUME RefInv, NEW f \in Frames, Held(f) > 0, (Held(f))' = Held(f) - 1,
         \A g \in Frames : g # f => Held(g)' = Held(g),
         own' \in [Frames -> {"none", "once", "unsent", "unacked"}], arpq' \subseteq Frames,
         ref' = Deref(ref, <<f, 1>>), txslot' = txslot, parts' = parts
  PROVE  RefInv'
<1>. DEFINE p == <<f, 1>>
            e2 == Less(Claims, p)
<1>1. p \in Pbufs /\ 1 \in 1..parts[f] /\ p[1] = f /\ p[2] = 1
  BY ClaimFacts
<1>2. \A g \in Frames : Held(g) \in Nat
  BY ClaimFacts, SMT
<1>3. \A q \in Pbufs : Claims[q] = (IF q[2] = 1 THEN Held(q[1]) ELSE 0)
                                    + (IF InSlot(q) THEN 1 ELSE 0)
  BY DEF Claims
<1>4. \A q \in Pbufs : Claims'[q] = (IF q[2] = 1 THEN Held(q[1])' ELSE 0)
                                     + (IF InSlot(q) THEN 1 ELSE 0)
  BY DEF Claims, InSlot
<1>5. Claims[p] >= Held(f) /\ Claims[p] > 0
  BY <1>1, <1>2, <1>3, SMT
<1>6. \A q \in Pbufs : e2[q] = IF q = p THEN Claims[q] - 1 ELSE Claims[q]
  BY <1>1, ClaimFacts DEF Less
<1>. HIDE DEF e2
<1>7. \A q \in Pbufs : Claims'[q] = e2[q]
  <2>. SUFFICES ASSUME NEW q \in Pbufs
                PROVE  Claims'[q] = e2[q]
    OBVIOUS
  <2>1. q[1] \in Frames /\ (q # p => q[1] # f \/ q[2] # 1)
    BY ClaimFacts
  <2>2. CASE q = p
    BY <1>1, <1>2, <1>3, <1>4, <1>6, <2>2, SMT
  <2>3. CASE q # p
    BY <1>3, <1>4, <1>6, <2>1, <2>3
  <2>. QED
    BY <2>2, <2>3
<1>8. /\ Deref(ref, p) \in [Pbufs -> Int]
      /\ Balanced(Deref(ref, p), Less(Claims, p))
      /\ SpareKept(ref, Deref(ref, p))
  <2>1. /\ parts \in [Frames -> 1..MaxParts] /\ ref \in [Pbufs -> Int]
        /\ Claims \in [Pbufs -> Nat] /\ Balanced(ref, Claims)
    BY ClaimFacts DEF RefInv, BufTypes
  <2>. QED
    BY <1>1, <1>5, <2>1, DerefKeeps
<1>9. Balanced(ref, Claims)'
  <2>1. \A g \in Frames : \A k \in 1..parts[g] : Claims'[<<g, k>>] = e2[<<g, k>>]
    BY <1>7, ClaimFacts
  <2>2. Balanced(ref', e2)
    BY <1>8 DEF e2
  <2>3. \A g \in Frames : \A k \in 1..parts[g] :
          ref'[<<g, k>>] = e2[<<g, k>>] + (IF k > 1 /\ ref'[<<g, k - 1>>] > 0 THEN 1 ELSE 0)
    BY <2>2 DEF Balanced
  <2>. QED
    BY <2>1, <2>3 DEF Balanced
<1>10. BufTypes'
  BY <1>8 DEF RefInv, BufTypes
<1>11. SlotsValid' /\ SlotsOnce'
  BY DEF RefInv, SlotsValid, SlotsOnce
<1>12. NoSpare'
  BY <1>8 DEF RefInv, NoSpare, SpareKept
<1>13. Linked'
  <2>. SUFFICES ASSUME NEW g \in Frames, Held(g)' > 0, NEW k \in 1..parts[g]
                PROVE  ref'[<<g, k>>] > 0
    BY DEF Linked
  <2>1. Held(g) > 0
    BY <1>2
  <2>2. /\ ref[<<g, k>>] > 0 /\ <<g, k>> \in Pbufs /\ ref[<<g, k>>] \in Int
        /\ k \in 1..MaxParts /\ k \in Int /\ k >= 1
    BY <2>1, ClaimFacts, SMT DEF RefInv, Linked, BufTypes
  <2>3. CASE g # f
    <3>1. <<g, k>> \notin Chain(f)
      BY <2>3 DEF Chain
    <3>2. ref'[<<g, k>>] = ref[<<g, k>>]
      BY <2>2, <3>1 DEF Deref
    <3>. QED
      BY <2>2, <3>2
  <2>4. CASE g = f
    <3>1. ref[p] >= 2 /\ ref[p] \in Int
      <4>1. ref[p] >= Claims[p] /\ ref[p] \in Int /\ Claims[p] \in Nat
        BY <1>1, ClaimFacts DEF RefInv, BufTypes
      <4>. QED
        BY <1>2, <1>5, <2>4, <4>1, SMT
    <3>2. ref'[<<g, k>>] = IF /\ <<g, k>> \in Chain(f) /\ k >= 1
                              /\ \A l \in 1..(k - 1) : ref[<<f, l>>] = 1
                           THEN ref[<<g, k>>] - 1 ELSE ref[<<g, k>>]
      BY <1>1, <2>2 DEF Deref
    <3>3. CASE k = 1
      BY <2>4, <3>1, <3>2, <3>3
    <3>4. CASE k # 1
      <4>1. 1 \in 1..(k - 1)
        BY <2>2, <3>4, SMT
      <4>2. ref'[<<g, k>>] = ref[<<g, k>>]
        BY <3>1, <3>2, <4>1
      <4>. QED
        BY <2>2, <4>2
    <3>. QED
      BY <3>3, <3>4
  <2>. QED
    BY <2>3, <2>4
<1>. QED
  BY <1>9, <1>10, <1>11, <1>12, <1>13 DEF RefInv

\* ARP refers to a chain that lwIP refers to.
LEMMA KeepHead ==
  ASSUME RefInv, NEW f \in Frames, Held(f) > 0, (Held(f))' = Held(f) + 1,
         \A g \in Frames : g # f => Held(g)' = Held(g),
         own' \in [Frames -> {"none", "once", "unsent", "unacked"}], arpq' \subseteq Frames,
         ref' = [ref EXCEPT ![<<f, 1>>] = @ + 1], txslot' = txslot, parts' = parts
  PROVE  RefInv'
<1>. DEFINE p == <<f, 1>>
<1>1. p \in Pbufs /\ 1 \in 1..parts[f] /\ \A g \in Frames : Held(g) \in Nat
  BY ClaimFacts, SMT
<1>2. \A g \in Frames, k \in 1..MaxParts :
        /\ <<g, k>> \in Pbufs /\ ref[<<g, k>>] \in Int
        /\ ref'[<<g, k>>] = IF g = f /\ k = 1 THEN ref[<<g, k>>] + 1 ELSE ref[<<g, k>>]
  BY <1>1, ClaimFacts DEF RefInv, BufTypes
<1>3. BufTypes'
  BY <1>1, SMT DEF RefInv, BufTypes
<1>4. SlotsValid' /\ SlotsOnce'
  BY DEF RefInv, SlotsValid, SlotsOnce
<1>5. NoSpare'
  <2>. SUFFICES ASSUME NEW g \in Frames, NEW k \in 1..MaxParts, k > parts[g]
                PROVE  ref'[<<g, k>>] = 0
    BY DEF NoSpare
  <2>1. ~(g = f /\ k = 1)
    BY <1>1, ClaimFacts, SMT
  <2>. QED
    BY <1>2, <2>1 DEF RefInv, NoSpare
<1>6. Linked'
  <2>. SUFFICES ASSUME NEW g \in Frames, Held(g)' > 0, NEW k \in 1..parts[g]
                PROVE  ref'[<<g, k>>] > 0
    BY DEF Linked
  <2>1. Held(g) > 0 /\ k \in 1..MaxParts
    BY ClaimFacts, SMT
  <2>2. ref[<<g, k>>] > 0 /\ ref[<<g, k>>] \in Int
    BY <1>2, <2>1 DEF RefInv, Linked
  <2>. QED
    BY <1>2, <2>1, <2>2, SMT
<1>7. Balanced(ref, Claims)'
  <2>. SUFFICES ASSUME NEW g \in Frames, NEW k \in 1..parts[g]
                PROVE  ref'[<<g, k>>] = Claims'[<<g, k>>]
                         + (IF k > 1 /\ ref'[<<g, k - 1>>] > 0 THEN 1 ELSE 0)
    BY DEF Balanced
  <2>1. /\ k \in 1..MaxParts /\ k \in Int
        /\ k > 1 => k - 1 \in 1..MaxParts /\ k - 1 \in 1..parts[g]
    BY ClaimFacts, SMT
  <2>2. /\ Claims[<<g, k>>] = (IF k = 1 THEN Held(g) ELSE 0)
                              + (IF InSlot(<<g, k>>) THEN 1 ELSE 0)
        /\ Claims'[<<g, k>>] = (IF k = 1 THEN Held(g)' ELSE 0)
                               + (IF InSlot(<<g, k>>) THEN 1 ELSE 0)
    BY <1>2, <2>1 DEF Claims, InSlot
  <2>3. ref[<<g, k>>] = Claims[<<g, k>>]
                        + (IF k > 1 /\ ref[<<g, k - 1>>] > 0 THEN 1 ELSE 0)
    BY ClaimFacts
  <2>4. CASE g = f /\ k = 1
    <3>1. ref'[<<g, k>>] = ref[<<g, k>>] + 1 /\ ~(k > 1)
      BY <1>2, <2>1, <2>4, SMT
    <3>. QED
      BY <1>1, <2>2, <2>3, <2>4, <3>1, SMT
  <2>5. CASE g = f /\ k # 1
    <3>1. k > 1 /\ ref'[<<g, k>>] = ref[<<g, k>>] /\ Claims'[<<g, k>>] = Claims[<<g, k>>]
      BY <1>2, <2>1, <2>2, <2>5, SMT
    <3>2. ref[<<g, k - 1>>] > 0 /\ ref[<<g, k - 1>>] \in Int
      BY <1>2, <2>1, <2>5, <3>1 DEF RefInv, Linked
    <3>3. ref'[<<g, k - 1>>] > 0
      BY <1>2, <2>1, <3>1, <3>2, SMT
    <3>. QED
      BY <2>3, <3>1, <3>2, <3>3
  <2>6. CASE g # f
    <3>1. ref'[<<g, k>>] = ref[<<g, k>>] /\ (k > 1 => ref'[<<g, k - 1>>] = ref[<<g, k - 1>>])
      BY <1>2, <2>1, <2>6
    <3>2. Claims'[<<g, k>>] = Claims[<<g, k>>]
      BY <2>2, <2>6
    <3>. QED
      BY <2>3, <3>1, <3>2
  <2>. QED
    BY <2>4, <2>5, <2>6
<1>. QED
  BY <1>3, <1>4, <1>5, <1>6, <1>7 DEF RefInv

\* Another kind of reference by lwIP changes no count.
LEMMA KeptRefs ==
  ASSUME RefInv, ref' = ref, txslot' = txslot, parts' = parts,
         own' \in [Frames -> {"none", "once", "unsent", "unacked"}], arpq' \subseteq Frames,
         \A f \in Frames : Held(f)' = Held(f)
  PROVE  RefInv'
<1>1. \A q \in Pbufs : Claims'[q] = Claims[q]
  <2>1. \A q \in Pbufs : Claims[q] = (IF q[2] = 1 THEN Held(q[1]) ELSE 0)
                                      + (IF InSlot(q) THEN 1 ELSE 0)
    BY DEF Claims
  <2>2. \A q \in Pbufs : Claims'[q] = (IF q[2] = 1 THEN Held(q[1])' ELSE 0)
                                       + (IF InSlot(q) THEN 1 ELSE 0)
    BY DEF Claims, InSlot
  <2>. QED
    BY <2>1, <2>2, ClaimFacts
<1>2. Balanced(ref, Claims)'
  <2>1. \A f \in Frames : \A k \in 1..parts[f] :
          ref[<<f, k>>] = Claims[<<f, k>>] + (IF k > 1 /\ ref[<<f, k - 1>>] > 0 THEN 1 ELSE 0)
    BY DEF RefInv, Balanced
  <2>2. \A f \in Frames : \A k \in 1..parts[f] : Claims'[<<f, k>>] = Claims[<<f, k>>]
    BY <1>1, ClaimFacts
  <2>. QED
    BY <2>1, <2>2 DEF Balanced
<1>. QED
  BY <1>2 DEF RefInv, BufTypes, SlotsValid, SlotsOnce, NoSpare, Linked

LEMMA SameRefs ==
  ASSUME RefInv, UNCHANGED <<own, arpq, ref, txslot, parts>>
  PROVE  RefInv'
<1>1. \A f \in Frames : Held(f)' = Held(f)
  BY DEF Held
<1>2. own' \in [Frames -> {"none", "once", "unsent", "unacked"}] /\ arpq' \subseteq Frames
  BY DEF RefInv, BufTypes
<1>. QED
  BY <1>1, <1>2, KeptRefs

\* No more than three references to a buffer: lwIP's, ARP's and the ring's.
LEMMA RefRange ==
  ASSUME RefInv
  PROVE  ref \in [Pbufs -> 0..3]
<1>. SUFFICES ASSUME NEW p \in Pbufs
              PROVE  ref[p] \in 0..3
  BY DEF RefInv, BufTypes
<1>1. PICK f \in Frames, k \in 1..MaxParts : p = <<f, k>>
  BY DEF Pbufs
<1>2. parts[f] \in Nat
  BY ClaimFacts
<1>3. CASE k > parts[f]
  BY <1>1, <1>3 DEF RefInv, NoSpare
<1>4. CASE k <= parts[f]
  <2>1. k \in 1..parts[f]
    BY <1>2, <1>4, SMT
  <2>2. ref[p] = Claims[p] + (IF k > 1 /\ ref[<<f, k - 1>>] > 0 THEN 1 ELSE 0)
    BY <1>1, <2>1, ClaimFacts
  <2>3. Claims[p] = (IF k = 1 THEN Held(f) ELSE 0) + (IF InSlot(p) THEN 1 ELSE 0)
    BY <1>1 DEF Claims
  <2>4. Held(f) \in 0..2 /\ k \in Int /\ k >= 1
    BY ClaimFacts, SMT
  <2>. QED
    BY <2>2, <2>3, <2>4, SMT
<1>. QED
  BY <1>2, <1>3, <1>4, SMT

\* A chain is allocated: nothing referred to its buffers.
LEMMA AllocateRefs ==
  ASSUME RefInv, NEW f \in Frames, own[f] = "none",
         \A p \in Pbufs : p[1] = f => ref[p] = 0,
         NEW n \in 1..MaxParts, NEW how \in {"once", "unsent"},
         parts' = [parts EXCEPT ![f] = n], own' = [own EXCEPT ![f] = how],
         ref' = [p \in Pbufs |-> IF p[1] = f /\ p[2] <= n THEN 1 ELSE ref[p]],
         txslot' = txslot, arpq' = arpq
  PROVE  /\ RefInv' /\ f \notin arpq
         /\ \A i \in TxDescs : txslot[i][1] # f
<1>1. \A p \in Pbufs : p[1] = f => ~InSlot(p)
  <2>. SUFFICES ASSUME NEW p \in Pbufs, p[1] = f, InSlot(p)
                PROVE  FALSE
    OBVIOUS
  <2>1. /\ p[2] \in 1..parts[f] /\ Claims[p] > 0 /\ p = <<f, p[2]>> /\ ref[p] = 0
        /\ Claims[p] \in Nat
    BY ClaimFacts
  <2>2. ref[<<f, p[2]>>] >= Claims[<<f, p[2]>>]
    BY <2>1, ClaimFacts
  <2>. QED
    BY <2>1, <2>2
<1>2. \A i \in TxDescs : txslot[i][1] # f
  <2>. SUFFICES ASSUME NEW i \in TxDescs, txslot[i][1] = f
                PROVE  FALSE
    OBVIOUS
  <2>1. txslot[i] # NoPbuf
    BY DEF NoPbuf
  <2>. QED
    BY <1>1, <2>1 DEF RefInv, SlotsValid, InSlot
<1>10. f \notin arpq
  <2>1. /\ <<f, 1>> \in Pbufs /\ 1 \in 1..parts[f] /\ <<f, 1>>[1] = f /\ <<f, 1>>[2] = 1
        /\ ~InSlot(<<f, 1>>)
    BY <1>1, ClaimFacts
  <2>2. Claims[<<f, 1>>] = Held(f) + 0 /\ ref[<<f, 1>>] = 0
    BY <2>1 DEF Claims
  <2>3. ref[<<f, 1>>] >= Claims[<<f, 1>>]
    BY <2>1, ClaimFacts
  <2>4. Held(f) = 0
    BY <2>2, <2>3, ClaimFacts, SMT
  <2>. QED
    BY <2>4, SMT DEF Held
<1>11. \A g \in Frames : Held(g)' = IF g = f THEN 1 ELSE Held(g)
  BY <1>10, SMT DEF Held, RefInv, BufTypes
<1>3. /\ \A g \in Frames : /\ parts'[g] = IF g = f THEN n ELSE parts[g]
                           /\ own'[g] = IF g = f THEN how ELSE own[g]
      /\ \A g \in Frames : \A k \in 1..MaxParts :
           ref'[<<g, k>>] = IF g = f /\ k <= n THEN 1 ELSE ref[<<g, k>>]
  BY ClaimFacts DEF RefInv, BufTypes
<1>4. BufTypes'
  BY SMT DEF RefInv, BufTypes
<1>5. SlotsValid' /\ SlotsOnce'
  <2>1. SlotsOnce'
    BY DEF RefInv, SlotsOnce
  <2>2. ASSUME NEW i \in TxDescs, txslot[i] # NoPbuf
        PROVE  txslot[i] \in Pbufs /\ txslot[i][2] <= parts'[txslot[i][1]]
    <3>1. txslot[i] \in Pbufs /\ txslot[i][2] <= parts[txslot[i][1]] /\ txslot[i][1] # f
      BY <1>2, <2>2 DEF RefInv, SlotsValid
    <3>. QED
      BY <1>3, <3>1, ClaimFacts
  <2>. QED
    BY <2>1, <2>2 DEF SlotsValid
<1>6. ASSUME NEW g \in Frames, NEW k \in 1..parts'[g]
      PROVE  ref'[<<g, k>>] = Claims'[<<g, k>>]
                              + (IF k > 1 /\ ref'[<<g, k - 1>>] > 0 THEN 1 ELSE 0)
  <2>1. /\ k \in 1..MaxParts /\ <<g, k>> \in Pbufs
        /\ k > 1 => k - 1 \in 1..MaxParts /\ k - 1 \in 1..parts'[g]
    BY <1>3, ClaimFacts, SMT
  <2>2. Claims'[<<g, k>>] = (IF k = 1 THEN Held(g)' ELSE 0)
                             + (IF InSlot(<<g, k>>) THEN 1 ELSE 0)
    BY <2>1 DEF Claims, InSlot
  <2>3. CASE g = f
    <3>1. ~InSlot(<<g, k>>)
      BY <1>1, <2>1, <2>3
    <3>2. ref'[<<g, k>>] = 1 /\ (k > 1 => ref'[<<g, k - 1>>] = 1)
      BY <1>3, <2>1, <2>3
    <3>3. Held(g)' = 1
      BY <1>11, <2>3
    <3>. QED
      BY <1>3, <2>1, <2>2, <2>3, <3>1, <3>2, <3>3, SMT
  <2>4. CASE g # f
    <3>1. /\ ref'[<<g, k>>] = ref[<<g, k>>] /\ (k > 1 => ref'[<<g, k - 1>>] = ref[<<g, k - 1>>])
          /\ k \in 1..parts[g] /\ Held(g)' = Held(g)
      BY <1>3, <1>11, <2>1, <2>4
    <3>2. Claims[<<g, k>>] = (IF k = 1 THEN Held(g) ELSE 0)
                              + (IF InSlot(<<g, k>>) THEN 1 ELSE 0)
      BY <2>1 DEF Claims
    <3>3. ref[<<g, k>>] = Claims[<<g, k>>]
                          + (IF k > 1 /\ ref[<<g, k - 1>>] > 0 THEN 1 ELSE 0)
      BY <3>1, ClaimFacts
    <3>. QED
      BY <2>2, <3>1, <3>2, <3>3, SMT
  <2>. QED
    BY <2>3, <2>4
<1>7. NoSpare'
  <2>. SUFFICES ASSUME NEW g \in Frames, NEW k \in 1..MaxParts, k > parts'[g]
                PROVE  ref'[<<g, k>>] = 0
    BY DEF NoSpare
  <2>1. <<g, k>> \in Pbufs /\ <<g, k>>[1] = g
    BY ClaimFacts
  <2>2. CASE g = f
    BY <1>3, <2>1, <2>2, SMT
  <2>3. CASE g # f
    BY <1>3, <2>3 DEF RefInv, NoSpare
  <2>. QED
    BY <2>2, <2>3
<1>8. Linked'
  <2>. SUFFICES ASSUME NEW g \in Frames, Held(g)' > 0, NEW k \in 1..parts'[g]
                PROVE  ref'[<<g, k>>] > 0
    BY DEF Linked
  <2>1. k \in 1..MaxParts
    BY <1>3, ClaimFacts, SMT
  <2>2. CASE g = f
    BY <1>3, <2>1, <2>2, SMT
  <2>3. CASE g # f
    BY <1>3, <1>11, <2>1, <2>3 DEF RefInv, Linked
  <2>. QED
    BY <2>2, <2>3
<1>9. Balanced(ref, Claims)'
  BY <1>6 DEF Balanced
<1>. QED
  BY <1>2, <1>4, <1>5, <1>7, <1>8, <1>9, <1>10 DEF RefInv

\* The driver refers to a chain that lwIP refers to: place pos[k] of the ring
\* is for its buffer k.
LEMMA SendRefs ==
  ASSUME RefInv, NEW f \in Frames, Held(f) > 0,
         NEW pos \in [1..parts[f] -> TxDescs],
         \A j, k \in 1..parts[f] : pos[j] = pos[k] => j = k,
         \A k \in 1..parts[f] : txslot[pos[k]] = NoPbuf,
         \A i \in TxDescs : txslot[i][1] # f,
         txslot' \in [TxDescs -> Pbufs \union {NoPbuf}],
         \A k \in 1..parts[f] : txslot'[pos[k]] = <<f, k>>,
         \A i \in TxDescs : (\A k \in 1..parts[f] : pos[k] # i) => txslot'[i] = txslot[i],
         ref' = [p \in Pbufs |-> IF p \in Chain(f) THEN ref[p] + 1 ELSE ref[p]],
         own' = own, arpq' = arpq, parts' = parts
  PROVE  RefInv'
<1>0. \A g : Held(g)' = Held(g)
  BY DEF Held
<1>1. \A i \in TxDescs : \/ \E k \in 1..parts[f] : pos[k] = i /\ txslot'[i] = <<f, k>>
                         \/ txslot'[i] = txslot[i] /\ txslot'[i][1] # f
  OBVIOUS
<1>2. \A g \in Frames, k \in 1..MaxParts :
        <<g, k>> \in Chain(f) <=> g = f /\ k \in 1..parts[f]
  BY ClaimFacts DEF Chain
<1>3. \A g \in Frames, k \in 1..MaxParts :
        /\ <<g, k>> \in Pbufs
        /\ ref'[<<g, k>>] = IF g = f /\ k \in 1..parts[f] THEN ref[<<g, k>>] + 1
                                                           ELSE ref[<<g, k>>]
  BY <1>2, ClaimFacts
<1>4. \A g \in Frames : \A k \in 1..parts[g] :
        InSlot(<<g, k>>)' <=> InSlot(<<g, k>>) \/ g = f
  <2>. SUFFICES ASSUME NEW g \in Frames, NEW k \in 1..parts[g]
                PROVE  InSlot(<<g, k>>)' <=> InSlot(<<g, k>>) \/ g = f
    OBVIOUS
  <2>1. InSlot(<<g, k>>)' <=> \E i \in TxDescs : txslot'[i] = <<g, k>>
    BY DEF InSlot
  <2>2. g = f => txslot'[pos[k]] = <<g, k>> /\ pos[k] \in TxDescs
    OBVIOUS
  <2>3. <<g, k>> # NoPbuf /\ <<g, k>>[1] = g
    BY ClaimFacts
  <2>4. ASSUME NEW i \in TxDescs, txslot[i] = <<g, k>>
        PROVE  txslot'[i] = <<g, k>>
    <3>1. \A l \in 1..parts[f] : pos[l] # i
      BY <2>3, <2>4
    <3>2. txslot'[i] = txslot[i]
      BY <3>1, Zenon
    <3>. QED
      BY <2>4, <3>2
  <2>5. ASSUME NEW i \in TxDescs, txslot'[i] = <<g, k>>, g # f
        PROVE  txslot[i] = <<g, k>>
    BY <1>1, <2>3, <2>5
  <2>. QED
    BY <2>1, <2>2, <2>4, <2>5 DEF InSlot
<1>5. ASSUME NEW g \in Frames, NEW k \in 1..parts[g]
      PROVE  ref'[<<g, k>>] = Claims'[<<g, k>>]
                              + (IF k > 1 /\ ref'[<<g, k - 1>>] > 0 THEN 1 ELSE 0)
  <2>1. /\ k \in 1..MaxParts /\ <<g, k>> \in Pbufs /\ ref[<<g, k>>] \in Int
        /\ k > 1 => k - 1 \in 1..MaxParts /\ k - 1 \in 1..parts[g]
        /\ <<g, k>>[1] = g /\ <<g, k>>[2] = k
    BY ClaimFacts, SMT DEF RefInv, BufTypes
  <2>2. Claims'[<<g, k>>] = (IF k = 1 THEN Held(g) ELSE 0)
                             + (IF InSlot(<<g, k>>)' THEN 1 ELSE 0)
    <3>1. Claims' = [p \in Pbufs |-> (IF p[2] = 1 THEN Held(p[1]) ELSE 0)
                                     + (IF InSlot(p)' THEN 1 ELSE 0)]
      BY <1>0 DEF Claims
    <3>. QED
      BY <2>1, <3>1
  <2>3. Claims[<<g, k>>] = (IF k = 1 THEN Held(g) ELSE 0)
                            + (IF InSlot(<<g, k>>) THEN 1 ELSE 0)
    BY <2>1 DEF Claims
  <2>7. Held(g) \in Int
    BY ClaimFacts, SMT
  <2>4. ref[<<g, k>>] = Claims[<<g, k>>]
                        + (IF k > 1 /\ ref[<<g, k - 1>>] > 0 THEN 1 ELSE 0)
    BY ClaimFacts
  <2>5. CASE g = f
    <3>1. ~InSlot(<<g, k>>)
      BY <2>1, <2>5 DEF InSlot
    <3>2. InSlot(<<g, k>>)'
      BY <1>4, <2>5
    <3>3. ref'[<<g, k>>] = ref[<<g, k>>] + 1
      BY <1>3, <2>1, <2>5
    <3>4. k > 1 => ref'[<<g, k - 1>>] > 0 /\ ref[<<g, k - 1>>] > 0
      <4>1. k > 1 => ref[<<g, k - 1>>] > 0 /\ ref[<<g, k - 1>>] \in Int
        BY <2>1, <2>5, ClaimFacts DEF RefInv, Linked, BufTypes
      <4>2. k > 1 => ref'[<<g, k - 1>>] = ref[<<g, k - 1>>] + 1
        BY <1>3, <2>1, <2>5
      <4>. QED
        BY <4>1, <4>2, SMT
    <3>. QED
      BY <2>1, <2>2, <2>3, <2>4, <2>7, <3>1, <3>2, <3>3, <3>4, SMT
  <2>6. CASE g # f
    <3>1. ref'[<<g, k>>] = ref[<<g, k>>] /\ (k > 1 => ref'[<<g, k - 1>>] = ref[<<g, k - 1>>])
      BY <1>3, <2>1, <2>6
    <3>2. InSlot(<<g, k>>)' <=> InSlot(<<g, k>>)
      BY <1>4, <2>6
    <3>. QED
      BY <2>2, <2>3, <2>4, <3>1, <3>2
  <2>. QED
    BY <2>5, <2>6
<1>6. BufTypes'
  BY SMT DEF RefInv, BufTypes
<1>7. SlotsValid'
  <2>. SUFFICES ASSUME NEW i \in TxDescs, txslot'[i] # NoPbuf
                PROVE  txslot'[i] \in Pbufs /\ txslot'[i][2] <= parts[txslot'[i][1]]
    BY DEF SlotsValid
  <2>1. CASE \E k \in 1..parts[f] : pos[k] = i /\ txslot'[i] = <<f, k>>
    <3>1. PICK k \in 1..parts[f] : txslot'[i] = <<f, k>>
      BY <2>1
    <3>2. <<f, k>> \in Pbufs /\ <<f, k>>[2] = k /\ <<f, k>>[1] = f /\ k <= parts[f]
      BY ClaimFacts
    <3>. QED
      BY <3>1, <3>2
  <2>2. CASE txslot'[i] = txslot[i]
    BY <2>2 DEF RefInv, SlotsValid
  <2>. QED
    BY <1>1, <2>1, <2>2
<1>8. SlotsOnce'
  <2>. SUFFICES ASSUME NEW i \in TxDescs, NEW j \in TxDescs,
                       txslot'[i] = txslot'[j], txslot'[i] # NoPbuf
                PROVE  i = j
    BY DEF SlotsOnce
  <2>1. CASE txslot'[i][1] = f
    <3>1. PICK k \in 1..parts[f] : pos[k] = i /\ txslot'[i] = <<f, k>>
      BY <1>1, <2>1
    <3>2. PICK l \in 1..parts[f] : pos[l] = j /\ txslot'[j] = <<f, l>>
      BY <1>1, <2>1
    <3>3. k = l
      <4>1. <<f, k>> = <<f, l>>
        BY <3>1, <3>2
      <4>. QED
        BY <4>1, Zenon
    <3>. QED
      BY <3>1, <3>2, <3>3
  <2>2. CASE txslot'[i][1] # f
    <3>1. txslot'[i] = txslot[i] /\ txslot'[j] = txslot[j]
      BY <1>1, <2>2
    <3>2. txslot[i] = txslot[j] /\ txslot[i] # NoPbuf
      BY <3>1
    <3>3. SlotsOnce
      BY DEF RefInv
    <3>. QED
      BY <3>2, <3>3, Zenon DEF SlotsOnce
  <2>. QED
    BY <2>1, <2>2
<1>9. NoSpare'
  <2>. SUFFICES ASSUME NEW g \in Frames, NEW k \in 1..MaxParts, k > parts[g]
                PROVE  ref'[<<g, k>>] = 0
    BY DEF NoSpare
  <2>1. ~(g = f /\ k \in 1..parts[f])
    BY ClaimFacts, SMT
  <2>. QED
    BY <1>3, <2>1 DEF RefInv, NoSpare
<1>10. Linked'
  <2>. SUFFICES ASSUME NEW g \in Frames, Held(g) > 0, NEW k \in 1..parts[g]
                PROVE  ref'[<<g, k>>] > 0
    BY <1>0 DEF Linked
  <2>1. k \in 1..MaxParts /\ ref[<<g, k>>] > 0 /\ ref[<<g, k>>] \in Int
    BY ClaimFacts DEF RefInv, Linked, BufTypes
  <2>2. ref'[<<g, k>>] = ref[<<g, k>>] + 1 \/ ref'[<<g, k>>] = ref[<<g, k>>]
    BY <1>3, <2>1
  <2>. QED
    BY <2>1, <2>2, SMT
<1>11. Balanced(ref, Claims)'
  BY <1>5 DEF Balanced
<1>. QED
  BY <1>6, <1>7, <1>8, <1>9, <1>10, <1>11 DEF RefInv

\* Each buffer is in at most one slot, so that its count is what RefCounts says.
LEMMA CountOnce ==
  ASSUME RefInv
  PROVE  RefCounts
<1>. SUFFICES ASSUME NEW f \in Frames, NEW k \in 1..parts[f]
              PROVE  ref[<<f, k>>] =
                       (IF k = 1 THEN Held(f)
                                 ELSE (IF ref[<<f, k - 1>>] > 0 THEN 1 ELSE 0))
                       + Cardinality({i \in TxDescs : txslot[i] = <<f, k>>})
  BY DEF RefCounts
<1>. DEFINE places == {i \in TxDescs : txslot[i] = <<f, k>>}
<1>1. /\ <<f, k>> \in Pbufs /\ <<f, k>> # NoPbuf /\ <<f, k>>[1] = f /\ <<f, k>>[2] = k
      /\ k \in 1..MaxParts
  BY ClaimFacts
<1>2. Cardinality(places) = IF InSlot(<<f, k>>) THEN 1 ELSE 0
  <2>1. CASE InSlot(<<f, k>>)
    <3>1. PICK i \in TxDescs : txslot[i] = <<f, k>>
      BY <2>1 DEF InSlot
    <3>2. \A j \in TxDescs : txslot[j] = <<f, k>> => j = i
      BY <1>1, <3>1 DEF RefInv, SlotsOnce
    <3>3. places = {i}
      BY <3>1, <3>2
    <3>4. Cardinality({i}) = 1
      BY FS_Singleton
    <3>. QED
      BY <2>1, <3>3, <3>4
  <2>2. CASE ~InSlot(<<f, k>>)
    <3>1. places = { }
      BY <2>2 DEF InSlot
    <3>2. Cardinality({ }) = 0
      BY FS_EmptySet
    <3>. QED
      BY <2>2, <3>1, <3>2
  <2>. QED
    BY <2>1, <2>2
<1>3. ref[<<f, k>>] = Claims[<<f, k>>] + (IF k > 1 /\ ref[<<f, k - 1>>] > 0 THEN 1 ELSE 0)
  BY ClaimFacts
<1>4. Claims[<<f, k>>] = (IF k = 1 THEN Held(f) ELSE 0) + (IF InSlot(<<f, k>>) THEN 1 ELSE 0)
  BY <1>1 DEF Claims
<1>. HIDE DEF places
<1>5. ref[<<f, k>>] =
        (IF k = 1 THEN Held(f)
                  ELSE (IF ref[<<f, k - 1>>] > 0 THEN 1 ELSE 0)) + Cardinality(places)
  <2>1. Held(f) \in Int
    BY ClaimFacts, SMT
  <2>. QED
    BY <1>1, <1>2, <1>3, <1>4, <2>1, SMT
<1>. QED
  BY <1>5 DEF places

-----------------------------------------------------------------------------
(* The ring.  From txfirst on its descriptors are counted 0, 1, ...; the   *)
(* invariant says which hold a buffer, that the buffers of a frame are in  *)
(* a row, and how far the MAC is.                                          *)

Top == txdone + txhw
Slot(k) == txslot[TxDesc(k)]

\* The frame of which descriptor k holds a part: how many it has, and where
\* it begins.
Size(k) == parts[Slot(k)[1]]
Begin(k) == k - Slot(k)[2] + 1

RingTypes ==
  /\ used \in [TxDescs -> BOOLEAN] /\ last \in [TxDescs -> BOOLEAN]
  /\ txfirst \in TxDescs /\ txdone \in 0..NTxDesc /\ txhw \in 0..NTxDesc
  /\ txdone + txhw <= NTxDesc /\ freed \in TxDescs
  /\ mac \in TxDescs /\ rd \in 0..NTxDesc

ControlTypes ==
  /\ go \in BOOLEAN /\ txirq \in BOOLEAN /\ txisr \in {"no", "send", "error"}
  /\ out \in Frames \union {None}
  /\ at \in {"off", "take back", "fill", "rest", "head", "start"}
  /\ at = "off" <=> out = None

\* Who may be at work, and what has been freed by then.
Control ==
  /\ IF txisr = "error" THEN txdone = 0 /\ out = None
     ELSE IF txdone = 0 THEN freed = 0 ELSE freed < txdone /\ TakingBack
  /\ out # None => txisr = "no" /\ out \in Ready
  /\ Filled <= NTxDesc

\* Descriptors that hold a buffer, and that those that do not are USED.  The
\* handler of an error frees them in the order of their addresses.
Emptied ==
  IF txisr = "error"
  THEN /\ \A i \in TxDescs : i < freed => txslot[i] = NoPbuf
       /\ \A k \in txhw..(NTxDesc - 1) : Slot(k) = NoPbuf
  ELSE /\ \A k \in 0..(NTxDesc - 1) :
            IF k < freed \/ k >= Filled THEN Slot(k) = NoPbuf /\ used[TxDesc(k)]
                                        ELSE Slot(k) # NoPbuf
       /\ txdone > 0 => used[TxDesc(0)]

\* Descriptor k belongs to a frame that is there as a whole, handed over or
\* not yet.
WholeAt(k) ==
  /\ Begin(k) >= txdone
  /\ IF k < Top THEN Begin(k) + Size(k) <= Top ELSE Slot(k)[1] = out /\ Begin(k) = Top
  /\ \A l \in 1..Size(k) : Slot(Begin(k) + l - 1) = <<Slot(k)[1], l>>
  /\ last[TxDesc(k)] <=> Slot(k)[2] = Size(k)

Whole == txisr # "error" => \A k \in txdone..(Filled - 1) : WholeAt(k)

\* The MAC is at descriptor m: the frames before are sent, the others not.
MacAt(m) ==
  /\ mac = TxDesc(m)
  /\ m < Top => Slot(m)[2] = 1
  /\ \A k \in txdone..(Top - 1) :
       /\ k < m /\ Slot(k)[2] = 1 => used[TxDesc(k)]
       /\ k >= m => ~used[TxDesc(k)]
  /\ rd > 0 => m < Top /\ rd = Size(m)

MacInv == txisr # "error" => \E m \in txdone..Top : MacAt(m)

\* The frame that is being filled in is not for the MAC before its first
\* descriptor is.
UsedNew ==
  /\ at = "rest" => \A k \in Top..(Filled - 1) : used[TxDesc(k)]
  /\ at = "head" => \A k \in Top..(Filled - 1) : used[TxDesc(k)] <=> k = Top

\* What is about to be sent is not in the ring, and either ARP or who made it
\* is to send it.
Mine ==
  /\ \A f \in arpq : own[f] \notin {"once", "unsent"}
  /\ \A f \in Ready : out # f \/ at \in {"take back", "fill"} =>
       \A i \in TxDescs : txslot[i][1] # f

RingInv == Emptied /\ Whole /\ MacInv

TxInv == /\ RefInv /\ RingTypes /\ ControlTypes /\ Control /\ RingInv
         /\ UsedNew /\ Mine

\* Descriptors by their count.
LEMMA DescFacts ==
  ASSUME txfirst \in TxDescs
  PROVE  /\ NTxDesc \in Nat \ {0} /\ TxDescs = 0..(NTxDesc - 1)
         /\ \A k \in 0..NTxDesc : TxDesc(k) \in TxDescs
         /\ \A j, k \in 0..(NTxDesc - 1) : TxDesc(j) = TxDesc(k) => j = k
         /\ \A i \in TxDescs : \E k \in 0..(NTxDesc - 1) : TxDesc(k) = i
         /\ TxDesc(NTxDesc) = TxDesc(0)
         /\ \A m \in 0..NTxDesc : \A k \in 0..(NTxDesc - m) :
              (TxDesc(m) + k) % NTxDesc = TxDesc(m + k)
<1>1. NTxDesc \in Nat \ {0} /\ TxDescs = 0..(NTxDesc - 1)
  BY SMT DEF TxDescs
<1>2. txfirst \in 0..(NTxDesc - 1)
  BY <1>1
<1>3. \A k \in 0..NTxDesc :
        /\ TxDesc(k) \in TxDescs
        /\ TxDesc(k) = IF txfirst + k < NTxDesc THEN txfirst + k ELSE txfirst + k - NTxDesc
  <2>1. \A k \in 0..NTxDesc :
          /\ (txfirst + k) % NTxDesc \in 0..(NTxDesc - 1)
          /\ (txfirst + k) % NTxDesc
               = IF txfirst + k < NTxDesc THEN txfirst + k ELSE txfirst + k - NTxDesc
    BY <1>1, <1>2, RingPlaces, Zenon
  <2>. QED
    BY <1>1, <2>1, Zenon DEF TxDesc
<1>5. \A j, k \in 0..(NTxDesc - 1) : TxDesc(j) = TxDesc(k) => j = k
  BY <1>1, <1>2, RingPlaces DEF TxDesc
<1>6. \A i \in TxDescs : \E k \in 0..(NTxDesc - 1) : TxDesc(k) = i
  BY <1>1, <1>2, RingPlaces DEF TxDesc
<1>7. \A m \in 0..NTxDesc : \A k \in 0..(NTxDesc - m) :
        (TxDesc(m) + k) % NTxDesc = TxDesc(m + k)
  BY <1>1, <1>2, RingPlaces DEF TxDesc
<1>4. TxDesc(NTxDesc) = TxDesc(0)
  BY <1>1, <1>2, <1>3, SMT
<1>. QED
  BY <1>1, <1>3, <1>4, <1>5, <1>6, <1>7

\* A descriptor that holds a part of a whole frame, and the others of it.
LEMMA WholeFacts ==
  ASSUME TxInv, txisr # "error", NEW k \in txdone..(Filled - 1)
  PROVE  /\ k \in 0..(NTxDesc - 1)
         /\ Slot(k)[1] \in Frames /\ Size(k) \in 1..MaxParts
         /\ Slot(k)[2] \in 1..Size(k) /\ Slot(k) = <<Slot(k)[1], Slot(k)[2]>>
         /\ Begin(k) \in txdone..k /\ k < Begin(k) + Size(k)
         /\ k < Top => Begin(k) + Size(k) <= Top
         /\ k >= Top => Slot(k)[1] = out /\ Begin(k) = Top
         /\ \A l \in 1..Size(k) : Slot(Begin(k) + l - 1) = <<Slot(k)[1], l>>
         /\ last[TxDesc(k)] <=> Slot(k)[2] = Size(k)
<1>1. /\ WholeAt(k)
      /\ txdone \in Nat /\ Filled <= NTxDesc /\ NTxDesc \in Nat
      /\ txdone > 0 => freed < txdone
      /\ txdone = 0 => freed = 0
    BY SMT DEF TxInv, RingInv, Whole, RingTypes, Control
<1>2. Filled \in Int
  <2>1. out # None => parts[out] \in Nat
    BY ClaimFacts DEF TxInv, ControlTypes
  <2>2. at \in {"rest", "head"} => out # None
    BY DEF TxInv, ControlTypes
  <2>. QED
    BY <2>1, <2>2, SMT DEF Filled, TxInv, RingTypes
<1>3. k \in 0..(NTxDesc - 1) /\ k >= freed /\ k < Filled
  BY <1>1, <1>2, SMT DEF TxInv, RingTypes, TxDescs
<1>4. TxDesc(k) \in TxDescs
  BY <1>3, DescFacts, SMT DEF TxInv, RingTypes
<1>5. Slot(k) # NoPbuf
  <2>1. ~(k < freed \/ k >= Filled)
    BY <1>2, <1>3, SMT DEF TxInv, RingTypes, TxDescs
  <2>2. \A i \in 0..(NTxDesc - 1) :
          IF i < freed \/ i >= Filled THEN Slot(i) = NoPbuf /\ used[TxDesc(i)]
                                      ELSE Slot(i) # NoPbuf
    BY Zenon DEF TxInv, RingInv, Emptied
  <2>. QED
    BY <1>3, <2>1, <2>2, Zenon
<1>6. Slot(k) \in Pbufs /\ Slot(k)[2] <= Size(k)
  BY <1>4, <1>5 DEF TxInv, RefInv, SlotsValid, Slot, Size
<1>7. /\ Slot(k)[1] \in Frames /\ Slot(k)[2] \in 1..MaxParts
      /\ Slot(k) = <<Slot(k)[1], Slot(k)[2]>> /\ Size(k) \in 1..MaxParts
  BY <1>6, ClaimFacts DEF TxInv, Size, RefInv, BufTypes
<1>8. Slot(k)[2] \in 1..Size(k) /\ Begin(k) \in txdone..k /\ k < Begin(k) + Size(k)
  BY <1>1, <1>3, <1>6, <1>7, SMT DEF WholeAt, Begin
<1>9. Top \in Int
  BY SMT DEF Top, TxInv, RingTypes
<1>. QED
  BY <1>1, <1>3, <1>7, <1>8, <1>9 DEF WholeAt

\* Numbers of descriptors.
LEMMA Counts ==
  ASSUME TxInv
  PROVE  /\ txdone \in 0..NTxDesc /\ txhw \in 0..NTxDesc /\ Top \in txdone..NTxDesc
         /\ Top = txdone + txhw
         /\ Filled \in Top..NTxDesc /\ freed \in 0..(NTxDesc - 1)
         /\ NTxDesc \in Nat \ {0} /\ TxDescs = 0..(NTxDesc - 1) /\ 0 \in TxDescs
         /\ at \notin {"rest", "head"} => Filled = Top
         /\ at \in {"rest", "head"} => out \in Frames /\ Filled = Top + parts[out]
                                       /\ txisr = "no" /\ txdone = 0 /\ freed = 0
<1>1. /\ txdone \in 0..NTxDesc /\ txhw \in 0..NTxDesc /\ Top \in txdone..NTxDesc
      /\ Top = txdone + txhw /\ NTxDesc \in Nat \ {0} /\ TxDescs = 0..(NTxDesc - 1)
      /\ 0 \in TxDescs /\ freed \in 0..(NTxDesc - 1) /\ Filled <= NTxDesc
  BY SMT DEF TxInv, RingTypes, Top, TxDescs, Control
<1>2. at \notin {"rest", "head"} => Filled = Top
  BY <1>1, SMT DEF Filled, Top
<1>3. at \in {"rest", "head"} => out \in Frames /\ Filled = Top + parts[out]
                                 /\ txisr = "no" /\ txdone = 0 /\ freed = 0
  <2>. SUFFICES ASSUME at \in {"rest", "head"}
                PROVE  out \in Frames /\ Filled = Top + parts[out]
                       /\ txisr = "no" /\ txdone = 0 /\ freed = 0
    OBVIOUS
  <2>1. out \in Frames /\ out # None
    BY DEF TxInv, ControlTypes
  <2>2. Filled = Top + parts[out]
    BY DEF Filled, Top
  <2>3. txisr = "no" /\ ~TakingBack
    BY <2>1 DEF TxInv, Control, TakingBack
  <2>4. txdone = 0 /\ freed = 0
    BY <2>3 DEF TxInv, Control
  <2>. QED
    BY <2>1, <2>2, <2>3, <2>4
<1>4. \A f \in Frames : parts[f] \in Nat
  BY ClaimFacts DEF TxInv
<1>5. Filled \in Top..NTxDesc
  BY <1>1, <1>2, <1>3, <1>4, SMT
<1>. QED
  BY <1>1, <1>2, <1>3, <1>5

\* Two descriptors in a row: the second begins a frame if the first ends one.
LEMMA Neighbours ==
  ASSUME TxInv, txisr # "error", NEW k \in (txdone + 1)..(Filled - 1)
  PROVE  Slot(k)[2] = 1 <=> Slot(k - 1)[2] = Size(k - 1)
<1>. DEFINE i == k - 1
<1>1. i \in txdone..(Filled - 1) /\ k \in txdone..(Filled - 1) /\ k = i + 1
      /\ k \in Int /\ i \in Int
  BY Counts, SMT
<1>. HIDE DEF i
<1>2. /\ Size(i) \in 1..MaxParts /\ Slot(i)[2] \in 1..Size(i)
      /\ Begin(i) = i - Slot(i)[2] + 1
      /\ \A l \in 1..Size(i) : Slot(Begin(i) + l - 1) = <<Slot(i)[1], l>>
  BY <1>1, WholeFacts, Zenon DEF Begin
<1>3. /\ Size(k) \in 1..MaxParts /\ Slot(k)[2] \in 1..Size(k)
      /\ Begin(k) = k - Slot(k)[2] + 1
      /\ \A l \in 1..Size(k) : Slot(Begin(k) + l - 1) = <<Slot(k)[1], l>>
  BY <1>1, WholeFacts, Zenon DEF Begin
<1>4. Slot(i)[2] # Size(i) => Slot(k)[2] = Slot(i)[2] + 1
  <2>1. Slot(i)[2] # Size(i) => Slot(i)[2] + 1 \in 1..Size(i)
    BY <1>2, SMT
  <2>2. Begin(i) + (Slot(i)[2] + 1) - 1 = k
    BY <1>1, <1>2, SMT
  <2>3. Slot(i)[2] # Size(i) =>
          Slot(Begin(i) + (Slot(i)[2] + 1) - 1) = <<Slot(i)[1], Slot(i)[2] + 1>>
    BY <1>2, <2>1, Zenon
  <2>. QED
    BY <2>2, <2>3
<1>5. Slot(k)[2] # 1 => Slot(i) = <<Slot(k)[1], Slot(k)[2] - 1>>
  <2>1. Slot(k)[2] # 1 => Slot(k)[2] - 1 \in 1..Size(k)
    BY <1>3, SMT
  <2>2. Begin(k) + (Slot(k)[2] - 1) - 1 = i
    BY <1>1, <1>3, SMT
  <2>3. Slot(k)[2] # 1 =>
          Slot(Begin(k) + (Slot(k)[2] - 1) - 1) = <<Slot(k)[1], Slot(k)[2] - 1>>
    BY <1>3, <2>1, Zenon
  <2>. QED
    BY <2>2, <2>3
<1>6. Slot(k)[2] # 1 => Size(i) = Size(k) /\ Slot(i)[2] = Slot(k)[2] - 1
  BY <1>5 DEF Size
<1>. QED
  BY <1>2, <1>3, <1>4, <1>6, SMT DEF i

\* At the begin of a frame.
LEMMA AtBegin ==
  ASSUME TxInv, txisr # "error", NEW m \in txdone..(Filled - 1), Slot(m)[2] = 1
  PROVE  /\ m \in 0..(NTxDesc - 1)
         /\ Slot(m)[1] \in Frames /\ Size(m) \in 1..MaxParts
         /\ m + Size(m) <= Filled
         /\ m < Top => m + Size(m) <= Top
         /\ \A l \in 1..Size(m) :
              /\ m + l - 1 \in m..(m + Size(m) - 1) /\ m + l - 1 \in txdone..(Filled - 1)
              /\ Slot(m + l - 1) = <<Slot(m)[1], l>>
              /\ last[TxDesc(m + l - 1)] <=> l = Size(m)
<1>1. m \in Int /\ Begin(m) = m
  BY Counts, SMT DEF Begin
<1>2. /\ m \in 0..(NTxDesc - 1) /\ Slot(m)[1] \in Frames /\ Size(m) \in 1..MaxParts
      /\ m < Top => m + Size(m) <= Top
      /\ m >= Top => Slot(m)[1] = out /\ m = Top
      /\ \A l \in 1..Size(m) : Slot(m + l - 1) = <<Slot(m)[1], l>>
  BY <1>1, WholeFacts
<1>3. m + Size(m) <= Filled
  <2>1. CASE m < Top
    <3>1. Top \in Int /\ Filled \in Int /\ Top <= Filled
      BY Counts, SMT
    <3>. QED
      BY <1>1, <1>2, <2>1, <3>1, SMT
  <2>2. CASE m >= Top
    <3>1. Filled # Top
      BY <2>2, Counts, SMT
    <3>2. Filled = Top + parts[out] /\ Size(m) = parts[out] /\ m = Top
      BY <1>2, <2>2, <3>1, Counts DEF Size
    <3>. QED
      BY <1>1, <1>2, <3>2, SMT
  <2>. QED
    BY <1>1, <2>1, <2>2, Counts, SMT
<1>4. ASSUME NEW l \in 1..Size(m)
      PROVE  /\ m + l - 1 \in m..(m + Size(m) - 1) /\ m + l - 1 \in txdone..(Filled - 1)
             /\ last[TxDesc(m + l - 1)] <=> l = Size(m)
  <2>. DEFINE k == m + l - 1
  <2>1. k \in m..(m + Size(m) - 1) /\ k \in txdone..(Filled - 1)
    <3>1. Size(m) \in Int /\ Filled \in Int /\ txdone \in Int
      BY <1>2, Counts, SMT
    <3>. QED
      BY <1>1, <1>3, <3>1, SMT
  <2>2. Slot(k) = <<Slot(m)[1], l>>
    BY <1>2
  <2>. HIDE DEF k
  <2>3. last[TxDesc(k)] <=> Slot(k)[2] = Size(k)
    BY <2>1, WholeFacts
  <2>4. Size(k) = Size(m) /\ Slot(k)[2] = l
    BY <2>2 DEF Size
  <2>. QED
    BY <2>1, <2>3, <2>4 DEF k
<1>. QED
  BY <1>2, <1>3, <1>4

\* What the MAC finds when it looks: the first of a frame not sent.
LEMMA MacFinds ==
  ASSUME TxInv, txisr # "error", ~used[mac],
         NEW m \in txdone..Top, MacAt(m)
  PROVE  m < Top
<1>. SUFFICES ASSUME m = Top
              PROVE  FALSE
  BY Counts, SMT
<1>1. mac = TxDesc(Top)
  BY DEF MacAt
<1>2. CASE Top < NTxDesc
  <2>1. CASE Top < Filled
    <3>1. at \in {"rest", "head"} /\ Top \in Top..(Filled - 1)
      BY <1>2, <2>1, Counts, SMT
    <3>. QED
      BY <1>1, <3>1 DEF TxInv, UsedNew
  <2>2. CASE Top >= Filled
    <3>1. Top \in 0..(NTxDesc - 1)
      BY <1>2, Counts, SMT
    <3>2. \A k \in 0..(NTxDesc - 1) : k >= Filled => used[TxDesc(k)]
      BY Zenon DEF TxInv, RingInv, Emptied
    <3>. QED
      BY <1>1, <2>2, <3>1, <3>2
  <2>. QED
    BY <2>1, <2>2, Counts, SMT
<1>3. CASE Top = NTxDesc
  <2>1. mac = TxDesc(0)
    BY <1>1, <1>3, DescFacts DEF TxInv, RingTypes
  <2>2. CASE txdone > 0
    BY <2>1, <2>2 DEF TxInv, RingInv, Emptied
  <2>3. CASE txdone = 0
    <3>1. 0 \in txdone..(Filled - 1) /\ 0 \in txdone..(Top - 1) /\ 0 < m
      BY <1>3, <2>3, Counts, SMT
    <3>2. Slot(0)[2] = 1
      <4>1. Begin(0) \in txdone..0 /\ Slot(0)[2] \in 1..Size(0) /\ Size(0) \in 1..MaxParts
        BY <3>1, WholeFacts
      <4>. QED
        BY <2>3, <4>1, SMT DEF Begin
    <3>3. used[TxDesc(0)]
      BY <3>1, <3>2 DEF MacAt
    <3>. QED
      BY <2>1, <3>3
  <2>. QED
    BY <2>2, <2>3, Counts, SMT
<1>. QED
  BY <1>2, <1>3, Counts, SMT

\* The MAC reads a frame up to its end.
LEMMA MacReads ==
  ASSUME TxInv, txisr # "error", ~used[mac],
         NEW m \in txdone..Top, MacAt(m)
  PROVE  /\ m < Top /\ m \in txdone..(Filled - 1) /\ Slot(m)[2] = 1
         /\ FrameLength = Size(m)
         /\ \A l \in 1..Size(m) : (mac + l - 1) % NTxDesc = TxDesc(m + l - 1)
<1>1. m < Top /\ m \in txdone..(Filled - 1) /\ Slot(m)[2] = 1 /\ mac = TxDesc(m)
  BY MacFinds, Counts, SMT DEF MacAt
<1>2. /\ m \in 0..(NTxDesc - 1) /\ Size(m) \in 1..MaxParts /\ m + Size(m) <= Filled
      /\ \A l \in 1..Size(m) : last[TxDesc(m + l - 1)] <=> l = Size(m)
  BY <1>1, AtBegin
<1>3. /\ \A l \in 1..Size(m) : l \in 1..NTxDesc
      /\ Size(m) \in 1..Size(m) /\ Size(m) \in 1..NTxDesc
      /\ Size(m) \in Nat /\ m \in Nat /\ NTxDesc \in Nat
  BY <1>2, Counts, SMT
<1>4. \A l \in 1..Size(m) : (mac + l - 1) % NTxDesc = TxDesc(m + l - 1)
  <2>. SUFFICES ASSUME NEW l \in 1..Size(m)
                PROVE  (mac + l - 1) % NTxDesc = TxDesc(m + l - 1)
    OBVIOUS
  <2>1. m \in 0..NTxDesc /\ l - 1 \in 0..(NTxDesc - m) /\ m + (l - 1) = m + l - 1
    BY <1>2, <1>3, Counts, SMT
  <2>2. mac + (l - 1) = mac + l - 1
    BY SMT DEF TxInv, RingTypes, TxDescs
  <2>3. (TxDesc(m) + (l - 1)) % NTxDesc = TxDesc(m + (l - 1))
    BY <2>1, DescFacts DEF TxInv, RingTypes
  <2>. QED
    BY <1>1, <2>1, <2>2, <2>3
<1>. DEFINE ends(n) == /\ last[(mac + n - 1) % NTxDesc] \/ n = NTxDesc
                       /\ \A k \in 1..(n - 1) : ~last[(mac + k - 1) % NTxDesc]
<1>5. ends(Size(m))
  <2>1. last[(mac + Size(m) - 1) % NTxDesc]
    BY <1>2, <1>3, <1>4
  <2>2. \A k \in 1..(Size(m) - 1) : k \in 1..Size(m) /\ k # Size(m)
    BY <1>3, SMT
  <2>. QED
    BY <1>2, <1>4, <2>1, <2>2
<1>6. \A n \in 1..NTxDesc : ends(n) => n = Size(m)
  <2>. SUFFICES ASSUME NEW n \in 1..NTxDesc, ends(n)
                PROVE  n = Size(m)
    OBVIOUS
  <2>1. ~(n > Size(m))
    <3>. SUFFICES ASSUME n > Size(m)
                  PROVE  FALSE
      OBVIOUS
    <3>1. Size(m) \in 1..(n - 1)
      BY <1>3, SMT
    <3>. QED
      BY <1>2, <1>3, <1>4, <3>1
  <2>2. ~(n < Size(m))
    <3>. SUFFICES ASSUME n < Size(m)
                  PROVE  FALSE
      OBVIOUS
    <3>1. n \in 1..Size(m) /\ n # Size(m) /\ n # NTxDesc
      BY <1>3, SMT
    <3>2. ~last[(mac + n - 1) % NTxDesc]
      BY <1>2, <1>4, <3>1
    <3>. QED
      BY <3>1, <3>2
  <2>. QED
    BY <1>3, <2>1, <2>2, SMT
<1>. HIDE DEF ends
<1>7. FrameLength = CHOOSE n \in 1..NTxDesc : ends(n)
  BY DEF FrameLength, ends
<1>8. FrameLength = Size(m)
  BY <1>3, <1>5, <1>6, <1>7
<1>. QED
  BY <1>1, <1>4, <1>8

\* process_sent_bds gets all frames up to the MAC's.
LEMMA SentAll ==
  ASSUME TxInv, txisr # "error", txdone = 0, NEW m \in txdone..Top, MacAt(m),
         Filled = Top
  PROVE  Sent = m
<1>1. /\ m \in 0..txhw /\ Top = txhw /\ txhw \in Nat /\ txdone = 0 /\ m \in Nat
      /\ txdone..(txdone + txhw - 1) = 0..(txhw - 1) /\ Filled = txhw
  BY Counts, SMT
<1>2. ASSUME NEW k \in 0..(txhw - 1)
      PROVE  k \in Starts <=> Slot(k)[2] = 1
  <2>1. k \in txdone..(Filled - 1) /\ k \in Int
    BY <1>1
  <2>2. k \in Starts <=> k = 0 \/ last[TxDesc(k - 1)]
    BY <1>1 DEF Starts
  <2>3. CASE k = 0
    <3>1. Begin(k) \in txdone..k /\ Slot(k)[2] \in 1..Size(k) /\ Size(k) \in 1..MaxParts
      BY <2>1, WholeFacts
    <3>2. Slot(k)[2] = 1
      BY <1>1, <2>3, <3>1, SMT DEF Begin
    <3>. QED
      BY <2>2, <2>3, <3>2
  <2>4. CASE k # 0
    <3>1. k \in (txdone + 1)..(Filled - 1) /\ k - 1 \in txdone..(Filled - 1)
      BY <1>1, <2>1, <2>4, SMT
    <3>2. Slot(k)[2] = 1 <=> Slot(k - 1)[2] = Size(k - 1)
      BY <3>1, Neighbours
    <3>3. last[TxDesc(k - 1)] <=> Slot(k - 1)[2] = Size(k - 1)
      BY <3>1, WholeFacts
    <3>. QED
      BY <2>2, <2>4, <3>2, <3>3
  <2>. QED
    BY <2>3, <2>4
<1>3. Starts \subseteq 0..(txhw - 1)
  BY <1>1 DEF Starts
<1>4. /\ m < txhw => Slot(m)[2] = 1 /\ ~used[TxDesc(m)]
      /\ \A k \in 0..(txhw - 1) : k < m /\ Slot(k)[2] = 1 => used[TxDesc(k)]
  <2>1. /\ m < Top => Slot(m)[2] = 1
        /\ \A k \in txdone..(Top - 1) :
             /\ k < m /\ Slot(k)[2] = 1 => used[TxDesc(k)]
             /\ k >= m => ~used[TxDesc(k)]
    BY DEF MacAt
  <2>2. m < txhw => m \in txdone..(Top - 1)
    BY <1>1, SMT
  <2>. QED
    BY <1>1, <2>1, <2>2
<1>. DEFINE is(n) == /\ n = txhw \/ (n \in Starts /\ ~used[TxDesc(n)])
                     /\ \A k \in Starts : k < n => used[TxDesc(k)]
<1>5. is(m)
  <2>1. m < txhw => m \in 0..(txhw - 1)
    BY <1>1, SMT
  <2>2. m = txhw \/ m < txhw
    BY <1>1, SMT
  <2>. QED
    BY <1>2, <1>3, <1>4, <2>1, <2>2
<1>6. ASSUME NEW n \in 0..txhw, is(n)
      PROVE  n = m
  <2>1. ~(n < m)
    <3>. SUFFICES ASSUME n < m
                  PROVE  FALSE
      OBVIOUS
    <3>1. n \in 0..(txhw - 1) /\ n # txhw
      BY <1>1, SMT
    <3>. QED
      BY <1>2, <1>4, <1>6, <3>1
  <2>2. ~(m < n)
    <3>. SUFFICES ASSUME m < n
                  PROVE  FALSE
      OBVIOUS
    <3>1. m \in 0..(txhw - 1) /\ m < txhw
      BY <1>1, SMT
    <3>. QED
      BY <1>2, <1>4, <1>6, <3>1
  <2>. QED
    BY <1>1, <2>1, <2>2, SMT
<1>. HIDE DEF is
<1>7. Sent = CHOOSE n \in 0..txhw : is(n)
  BY DEF Sent, is
<1>. QED
  BY <1>1, <1>5, <1>6, <1>7

-----------------------------------------------------------------------------
(* The actions of sending keep the invariant.                              *)

\* The ring stays as it is, whoever comes and goes.
LEMMA RingKept ==
  ASSUME TxInv, UNCHANGED <<txring, mac, rd>>,
         \A i \in TxDescs : txslot[i] # NoPbuf =>
           parts'[txslot[i][1]] = parts[txslot[i][1]],
         Filled' = Filled, Filled = Top \/ out' = out,
         txisr' = "error" <=> txisr = "error"
  PROVE  RingInv'
<1>1. /\ txslot' = txslot /\ used' = used /\ last' = last /\ txfirst' = txfirst
      /\ txdone' = txdone /\ txhw' = txhw /\ freed' = freed /\ mac' = mac /\ rd' = rd
  BY DEF txring
<1>2. \A k : TxDesc(k)' = TxDesc(k) /\ Slot(k)' = Slot(k)
  BY <1>1 DEF TxDesc, Slot
<1>3. Top' = Top
  BY <1>1 DEF Top
<1>4. Emptied'
  BY <1>1, <1>2 DEF TxInv, RingInv, Emptied
<1>5. ASSUME txisr # "error", NEW k \in txdone..(Filled - 1)
      PROVE  Size(k)' = Size(k) /\ Begin(k)' = Begin(k) /\ WholeAt(k) /\ WholeAt(k)'
  <2>1. k \in 0..(NTxDesc - 1) /\ Slot(k)[1] \in Frames /\ Slot(k) = <<Slot(k)[1], Slot(k)[2]>>
    BY <1>5, WholeFacts
  <2>2. TxDesc(k) \in TxDescs
    <3>1. k \in 0..NTxDesc
      BY <2>1, Counts, SMT
    <3>. QED
      BY <3>1, DescFacts DEF TxInv, RingTypes
  <2>3. Slot(k) # NoPbuf
    BY <2>1 DEF NoPbuf
  <2>4. parts'[Slot(k)[1]] = parts[Slot(k)[1]]
    BY <2>2, <2>3 DEF Slot
  <2>5. Size(k)' = Size(k) /\ Begin(k)' = Begin(k)
    BY <1>2, <2>4 DEF Size, Begin
  <2>6. WholeAt(k)
    BY <1>5 DEF TxInv, RingInv, Whole
  <2>7. k < Top \/ out' = out
    <3>1. k < Filled
      BY Counts, SMT
    <3>. QED
      BY <3>1
  <2>. QED
    BY <1>1, <1>2, <1>3, <2>5, <2>6, <2>7 DEF WholeAt
<1>6. Whole'
  BY <1>1, <1>5 DEF Whole
<1>7. MacInv'
  <2>. SUFFICES ASSUME txisr # "error"
                PROVE  \E m \in txdone..Top : MacAt(m)'
    BY <1>1, <1>3 DEF MacInv
  <2>1. PICK m \in txdone..Top : MacAt(m)
    BY DEF TxInv, RingInv, MacInv
  <2>2. m < Top => m \in txdone..(Filled - 1)
    BY Counts, SMT
  <2>3. MacAt(m)'
    BY <1>1, <1>2, <1>3, <1>5, <2>1, <2>2 DEF MacAt
  <2>. QED
    BY <2>3
<1>. QED
  BY <1>4, <1>6, <1>7 DEF RingInv

LEMMA HaltKeeps ==
  ASSUME TxInv, MacHalt
  PROVE  TxInv'
<1>1. /\ UNCHANGED <<own, arpq, parts, ref, txslot, used, last, txfirst, txdone, txhw, freed,
                     mac, rd, txirq, txisr, out, at>>
      /\ go' \in BOOLEAN
  BY DEF MacHalt, bufs, txring
<1>2. Filled' = Filled
  BY <1>1 DEF Filled
<1>3. RingInv'
  <2>1. UNCHANGED <<txring, mac, rd>> /\ txisr' = txisr /\ out' = out /\ parts' = parts
    BY <1>1 DEF txring
  <2>. QED
    BY <1>2, <2>1, RingKept
<1>4. RefInv'
  BY <1>1, SameRefs DEF TxInv
<1>5. RingTypes' /\ ControlTypes'
  BY <1>1 DEF TxInv, RingTypes, ControlTypes
<1>6. Control' /\ UsedNew' /\ Mine'
  BY <1>1, <1>2 DEF TxInv, Control, UsedNew, Mine, TakingBack, Top, TxDesc, Ready
<1>. QED
  BY <1>3, <1>4, <1>5, <1>6 DEF TxInv

\* A thread or a handler begins or ends, and nothing else.
LEMMA StageKeeps ==
  ASSUME TxInv, UNCHANGED <<bufs, txring, device>>,
         txirq' \in BOOLEAN, txisr' \in {"no", "send"}, txisr \in {"no", "send"},
         out' \in Frames \union {None},
         at' \in {"off", "take back", "fill", "start"}, at \in {"off", "take back", "fill", "start"},
         at' = "off" <=> out' = None, txdone = 0,
         out' # None => txisr' = "no" /\ out' \in Ready,
         \A f \in Ready : out' # f \/ at' \in {"take back", "fill"} =>
           out # f \/ at \in {"take back", "fill"}
  PROVE  TxInv'
<1>1. UNCHANGED <<own, arpq, parts, ref, txslot, used, last, txfirst, txdone, txhw, freed,
                  mac, rd, go>>
  BY DEF bufs, txring, device
<1>2. Filled' = Filled /\ Filled = Top
  <2>1. at \notin {"rest", "head"} /\ at' \notin {"rest", "head"}
    OBVIOUS
  <2>2. Filled = txdone + txhw + 0 /\ Filled' = txdone' + txhw' + 0
    BY <2>1, Zenon DEF Filled
  <2>. QED
    BY <1>1, <2>1, <2>2, Counts
<1>3. RingInv'
  <2>1. UNCHANGED <<txring, mac, rd>> /\ parts' = parts
    BY <1>1
  <2>2. txisr' = "error" <=> txisr = "error"
    OBVIOUS
  <2>. QED
    BY <1>2, <2>1, <2>2, RingKept
<1>4. RefInv'
  BY <1>1, SameRefs DEF TxInv
<1>5. RingTypes' /\ ControlTypes'
  BY <1>1 DEF TxInv, RingTypes, ControlTypes
<1>6. Control'
  <2>1. freed = 0
    BY DEF TxInv, Control
  <2>2. Ready' = Ready
    BY <1>1 DEF Ready
  <2>. QED
    BY <1>1, <1>2, <2>1, <2>2 DEF TxInv, Control, Ready
<1>7. UsedNew'
  BY DEF UsedNew
<1>8. Mine'
  <2>1. Ready' = Ready
    BY <1>1 DEF Ready
  <2>2. ASSUME NEW f \in Ready, out' # f \/ at' \in {"take back", "fill"}
        PROVE  \A i \in TxDescs : txslot[i][1] # f
    BY <2>2 DEF TxInv, Mine
  <2>. QED
    BY <1>1, <2>1, <2>2 DEF TxInv, Mine
<1>. QED
  BY <1>3, <1>4, <1>5, <1>6, <1>7, <1>8 DEF TxInv

\* Nobody is in process_sent_bds while a thread runs.
LEMMA ThreadRuns ==
  ASSUME TxInv, Thread
  PROVE  txisr = "no" /\ out = None /\ at = "off" /\ txdone = 0 /\ freed = 0 /\ Filled = Top
<1>1. txisr = "no" /\ out = None /\ at = "off"
  BY DEF Thread, TxInv, ControlTypes
<1>2. txdone = 0 /\ freed = 0
  BY <1>1 DEF TxInv, Control, TakingBack
<1>. QED
  BY <1>1, <1>2, Counts

LEMMA SendIntrKeeps ==
  ASSUME TxInv, SendIntr
  PROVE  TxInv'
<1>1. /\ Thread /\ txirq' = FALSE /\ txisr' = "send"
      /\ UNCHANGED <<bufs, txring, device>> /\ out' = out /\ at' = at
  BY DEF SendIntr
<1>. QED
  BY <1>1, ThreadRuns, StageKeeps

LEMMA IntrReturnKeeps ==
  ASSUME TxInv, IntrReturn
  PROVE  TxInv'
<1>1. /\ txisr = "send" /\ txisr' = "no" /\ txdone = 0
      /\ UNCHANGED <<bufs, txring, device>> /\ txirq' = txirq /\ out' = out /\ at' = at
  BY DEF IntrReturn
<1>2. out = None /\ at = "off" /\ txirq \in BOOLEAN
  BY <1>1 DEF TxInv, Control, ControlTypes
<1>. QED
  BY <1>1, <1>2, StageKeeps

LEMMA EnterKeeps ==
  ASSUME TxInv, NEW f \in Frames, Enter(f)
  PROVE  TxInv'
<1>1. /\ Thread /\ f \in Ready /\ out' = f
      /\ at' \in {"take back", "fill"}
      /\ UNCHANGED <<bufs, txring, device>> /\ txirq' = txirq /\ txisr' = txisr
  BY DEF Enter
<1>2. txirq \in BOOLEAN /\ f # None /\ \A g \in Ready : g # None
  BY TxAssumption DEF TxInv, ControlTypes, Ready, RefInv, BufTypes
<1>3. /\ txisr = "no" /\ out = None /\ at = "off" /\ txdone = 0
  BY <1>1, ThreadRuns
<1>. QED
  BY <1>1, <1>2, <1>3, StageKeeps

LEMMA OutTakenBackKeeps ==
  ASSUME TxInv, OutTakenBack
  PROVE  TxInv'
<1>1. /\ at = "take back" /\ at' = "fill" /\ txdone = 0
      /\ UNCHANGED <<bufs, txring, device>> /\ txirq' = txirq /\ txisr' = txisr /\ out' = out
  BY DEF OutTakenBack
<1>2. /\ out # None /\ txisr = "no" /\ out \in Ready
      /\ txirq \in BOOLEAN /\ out \in Frames \union {None}
  BY <1>1 DEF TxInv, ControlTypes, Control
<1>. QED
  BY <1>1, <1>2, StageKeeps

\* The caller's part after low_level_output.
LEMMA LeaveRefs ==
  ASSUME TxInv, out # None, NEW taken \in BOOLEAN, Leave(ref, taken),
         txslot' = txslot, parts' = parts
  PROVE  /\ RefInv' /\ out' = None /\ at' = "off"
         /\ \A f \in arpq' : f \in arpq /\ own'[f] = own[f] /\ f # out
         /\ \A f \in Frames : own'[f] \in {"once", "unsent"} =>
              own[f] \in {"once", "unsent"} /\ (f = out => ~taken)
<1>1. out \in Frames /\ out \in Ready /\ arpq \subseteq Frames
      /\ own \in [Frames -> {"none", "once", "unsent", "unacked"}]
      /\ \A f \in arpq : own[f] \notin {"once", "unsent"}
  BY DEF TxInv, ControlTypes, Control, RefInv, BufTypes, Mine
<1>2. out' = None /\ at' = "off" /\ arpq' = arpq \ {out}
  BY DEF Leave
<1>3. CASE out \in arpq
  <2>1. own' = own /\ ref' = Deref(ref, <<out, 1>>)
    BY <1>3 DEF Leave
  <2>2. PICK f \in Frames : f = out
    BY <1>1
  <2>4. /\ Held(f) > 0 /\ (Held(f))' = Held(f) - 1
        /\ \A g \in Frames : g # f => Held(g)' = Held(g)
    BY <1>1, <1>2, <1>3, <2>1, <2>2, SMT DEF Held
  <2>5. /\ own' \in [Frames -> {"none", "once", "unsent", "unacked"}] /\ arpq' \subseteq Frames
        /\ ref' = Deref(ref, <<f, 1>>)
    BY <1>1, <1>2, <2>1, <2>2
  <2>3. RefInv'
    BY <2>4, <2>5, FreeHead DEF TxInv
  <2>. QED
    BY <1>1, <1>2, <1>3, <2>1, <2>3
<1>4. CASE out \notin arpq /\ own[out] = "once"
  <2>1. own' = [own EXCEPT ![out] = "none"] /\ ref' = Deref(ref, <<out, 1>>)
    BY <1>4 DEF Leave
  <2>2. /\ own' \in [Frames -> {"none", "once", "unsent", "unacked"}] /\ own'[out] = "none"
        /\ \A f \in Frames : f # out => own'[f] = own[f]
    BY <1>1, <2>1
  <2>3. arpq' = arpq
    BY <1>2, <1>4
  <2>4. PICK f \in Frames : f = out
    BY <1>1
  <2>6. /\ Held(f) > 0 /\ (Held(f))' = Held(f) - 1
        /\ \A g \in Frames : g # f => Held(g)' = Held(g)
    BY <1>1, <1>4, <2>2, <2>3, <2>4, SMT DEF Held
  <2>7. arpq' \subseteq Frames /\ ref' = Deref(ref, <<f, 1>>)
    BY <1>1, <2>1, <2>3, <2>4
  <2>5. RefInv'
    BY <2>2, <2>6, <2>7, FreeHead DEF TxInv
  <2>. QED
    BY <1>1, <1>2, <1>4, <2>2, <2>3, <2>5
<1>5. CASE out \notin arpq /\ own[out] # "once"
  <2>1. own' = (IF taken THEN [own EXCEPT ![out] = "unacked"] ELSE own) /\ ref' = ref
    BY <1>5 DEF Leave
  <2>2. /\ own' \in [Frames -> {"none", "once", "unsent", "unacked"}]
        /\ own'[out] # "none" /\ own[out] # "none"
        /\ \A f \in Frames : f # out => own'[f] = own[f]
        /\ taken => own'[out] = "unacked"
        /\ ~taken => own'[out] = own[out]
    BY <1>1, <1>5, <2>1 DEF Ready
  <2>3. arpq' = arpq
    BY <1>2, <1>5
  <2>4. \A f \in Frames : Held(f)' = Held(f)
    BY <2>2, <2>3 DEF Held
  <2>5. RefInv'
    BY <1>1, <2>1, <2>2, <2>3, <2>4, KeptRefs DEF TxInv
  <2>. QED
    BY <1>1, <1>2, <1>5, <2>2, <2>3, <2>5
<1>. QED
  BY <1>3, <1>4, <1>5

\* low_level_output is over, and the ring as it was.
LEMMA LeaveKeeps ==
  ASSUME TxInv, at \in {"fill", "start"}, NEW taken \in BOOLEAN, Leave(ref, taken),
         taken \/ at = "fill", UNCHANGED <<parts, txring, mac, rd, txirq, txisr>>,
         go' \in BOOLEAN
  PROVE  TxInv'
<1>1. /\ out # None /\ out \in Frames /\ txisr = "no" /\ txdone = 0 /\ freed = 0
      /\ Filled = Top
  BY Counts DEF TxInv, ControlTypes, Control, TakingBack
<1>2. UNCHANGED <<parts, txslot, used, last, txfirst, txdone, txhw, freed, mac, rd,
                  txirq, txisr>>
  BY DEF txring
<1>3. /\ RefInv' /\ out' = None /\ at' = "off"
      /\ \A f \in arpq' : f \in arpq /\ own'[f] = own[f] /\ f # out
      /\ \A f \in Frames : own'[f] \in {"once", "unsent"} =>
           own[f] \in {"once", "unsent"} /\ (f = out => ~taken)
  BY <1>1, <1>2, LeaveRefs
<1>4. Filled' = Filled
  <2>1. Filled' = txdone' + txhw' + 0
    BY <1>3, Zenon DEF Filled
  <2>. QED
    BY <1>1, <1>2, <2>1, Counts
<1>5. RingInv'
  <2>1. UNCHANGED <<txring, mac, rd>> /\ parts' = parts
    BY <1>2
  <2>2. txisr' = "error" <=> txisr = "error"
    BY <1>2
  <2>. QED
    BY <1>1, <1>4, <2>1, <2>2, RingKept
<1>6. RingTypes' /\ ControlTypes'
  BY <1>2, <1>3 DEF TxInv, RingTypes, ControlTypes
<1>7. Control' /\ UsedNew'
  BY <1>1, <1>2, <1>3, <1>4 DEF TxInv, Control, UsedNew, Ready
<1>8. Mine'
  <2>1. \A f \in Ready' : f \in Ready /\ (f = out => at = "fill")
    BY <1>3 DEF Ready
  <2>2. \A f \in Ready' : \A i \in TxDescs : txslot[i][1] # f
    BY <2>1 DEF TxInv, Mine
  <2>3. \A f \in arpq' : own'[f] \notin {"once", "unsent"}
    BY <1>3 DEF TxInv, Mine
  <2>. QED
    BY <1>2, <2>2, <2>3 DEF Mine
<1>. QED
  BY <1>3, <1>5, <1>6, <1>7, <1>8 DEF TxInv

LEMMA NoSpaceKeeps ==
  ASSUME TxInv, NoSpace
  PROVE  TxInv'
<1>1. /\ at = "fill" /\ Leave(ref, FALSE)
      /\ UNCHANGED <<parts, txring, mac, rd, txirq, txisr>> /\ go' = go
  BY DEF NoSpace, device
<1>2. go \in BOOLEAN
  BY DEF TxInv, ControlTypes
<1>. QED
  BY <1>1, <1>2, LeaveKeeps

LEMMA StartTxKeeps ==
  ASSUME TxInv, StartTx
  PROVE  TxInv'
<1>1. /\ at = "start" /\ Leave(ref, TRUE)
      /\ UNCHANGED <<parts, txring, mac, rd, txirq, txisr>> /\ go' = TRUE
  BY DEF StartTx, Started
<1>. QED
  BY <1>1, LeaveKeeps

\* What threads do with buffers that are not in the ring.
LEMMA ThreadKeeps ==
  ASSUME TxInv, Thread, UNCHANGED <<txring, device, txirq, txisr, out, at>>, RefInv',
         \A i \in TxDescs : txslot[i] # NoPbuf =>
           parts'[txslot[i][1]] = parts[txslot[i][1]],
         \A f \in Ready' : f \in Ready \/ \A i \in TxDescs : txslot[i][1] # f,
         \A f \in arpq' : own'[f] \notin {"once", "unsent"}
  PROVE  TxInv'
<1>1. UNCHANGED <<txslot, used, last, txfirst, txdone, txhw, freed, mac, rd, go, txirq,
                  txisr, out, at>>
  BY DEF txring, device
<1>2. /\ txisr = "no" /\ out = None /\ at = "off" /\ txdone = 0 /\ freed = 0
      /\ Filled = Top
  BY ThreadRuns
<1>3. Filled' = Filled
  <2>1. Filled' = txdone' + txhw' + 0
    BY <1>1, <1>2, Zenon DEF Filled
  <2>. QED
    BY <1>1, <1>2, <2>1, Counts
<1>4. RingInv'
  <2>1. UNCHANGED <<txring, mac, rd>>
    BY <1>1 DEF txring
  <2>2. txisr' = "error" <=> txisr = "error"
    BY <1>1
  <2>. QED
    BY <1>2, <1>3, <2>1, <2>2, RingKept
<1>5. RingTypes' /\ ControlTypes'
  BY <1>1 DEF TxInv, RingTypes, ControlTypes
<1>6. Control' /\ UsedNew'
  BY <1>1, <1>2, <1>3 DEF TxInv, Control, UsedNew, Ready
<1>7. Mine'
  <2>1. ASSUME NEW f \in Ready'
        PROVE  \A i \in TxDescs : txslot[i][1] # f
    <3>1. CASE f \in Ready
      <4>1. f # None
        BY <3>1, TxAssumption DEF Ready, TxInv, RefInv, BufTypes
      <4>. QED
        BY <1>2, <3>1, <4>1 DEF TxInv, Mine
    <3>. QED
      BY <2>1, <3>1
  <2>. QED
    BY <1>1, <2>1 DEF Mine
<1>. QED
  BY <1>4, <1>5, <1>6, <1>7 DEF TxInv

LEMMA AllocateKeeps ==
  ASSUME TxInv, NEW f \in Frames, Allocate(f)
  PROVE  TxInv'
<1>1. /\ Thread /\ own[f] = "none" /\ \A p \in Pbufs : p[1] = f => ref[p] = 0
      /\ UNCHANGED <<txring, device, txirq, txisr, out, at>> /\ txslot' = txslot
      /\ arpq' = arpq
  BY DEF Allocate, txring
<1>2. PICK n \in 1..MaxParts, how \in {"once", "unsent"} :
        /\ parts' = [parts EXCEPT ![f] = n]
        /\ own' = [own EXCEPT ![f] = how]
        /\ ref' = [p \in Pbufs |-> IF p[1] = f /\ p[2] <= n THEN 1 ELSE ref[p]]
  BY Zenon DEF Allocate
<1>3. RefInv' /\ f \notin arpq /\ \A i \in TxDescs : txslot[i][1] # f
  BY <1>1, <1>2, AllocateRefs DEF TxInv
<1>4. \A g \in Frames : g # f => parts'[g] = parts[g] /\ own'[g] = own[g]
  BY <1>2 DEF TxInv, RefInv, BufTypes
<1>5. \A i \in TxDescs : txslot[i] # NoPbuf => txslot[i][1] \in Frames
  BY ClaimFacts DEF TxInv, RefInv, SlotsValid
<1>6. /\ \A i \in TxDescs : txslot[i] # NoPbuf =>
           parts'[txslot[i][1]] = parts[txslot[i][1]]
  BY <1>3, <1>4, <1>5
<1>7. \A g \in Ready' : g \in Ready \/ \A i \in TxDescs : txslot[i][1] # g
  BY <1>1, <1>3, <1>4 DEF Ready
<1>8. \A g \in arpq' : own'[g] \notin {"once", "unsent"}
  BY <1>1, <1>3, <1>4 DEF TxInv, Mine, RefInv, BufTypes
<1>. QED
  BY <1>1, <1>3, <1>6, <1>7, <1>8, ThreadKeeps

LEMMA FreeSegmentKeeps ==
  ASSUME TxInv, NEW f \in Frames, FreeSegment(f)
  PROVE  TxInv'
<1>1. /\ Thread /\ own[f] # "none"
      /\ own' = [own EXCEPT ![f] = "none"] /\ ref' = Deref(ref, <<f, 1>>)
      /\ UNCHANGED <<txring, device, txirq, txisr, out, at>>
      /\ arpq' = arpq /\ parts' = parts /\ txslot' = txslot
  BY DEF FreeSegment, txring
<1>2. /\ own' \in [Frames -> {"none", "once", "unsent", "unacked"}] /\ own'[f] = "none"
      /\ \A g \in Frames : g # f => own'[g] = own[g]
      /\ arpq \subseteq Frames
  BY <1>1 DEF TxInv, RefInv, BufTypes
<1>3. /\ Held(f) > 0 /\ (Held(f))' = Held(f) - 1
      /\ \A g \in Frames : g # f => Held(g)' = Held(g)
  BY <1>1, <1>2, SMT DEF Held
<1>4. RefInv'
  BY <1>1, <1>2, <1>3, FreeHead DEF TxInv
<1>5. /\ \A g \in Ready' : g \in Ready
      /\ \A g \in arpq' : own'[g] \notin {"once", "unsent"}
  BY <1>1, <1>2 DEF Ready, TxInv, Mine
<1>. QED
  BY <1>1, <1>4, <1>5, ThreadKeeps

\* A frame waits for an address.
LEMMA QueueKeeps ==
  ASSUME TxInv, NEW f \in Frames, Queue(f)
  PROVE  TxInv'
<1>1. /\ Thread /\ own[f] \in {"once", "unsent"}
      /\ arpq' = arpq \union {f}
      /\ UNCHANGED <<txring, device, txirq, txisr, out, at>>
      /\ parts' = parts /\ txslot' = txslot
  BY DEF Queue, txring
<1>2. /\ f \notin arpq /\ arpq' \subseteq Frames
      /\ own \in [Frames -> {"none", "once", "unsent", "unacked"}]
  BY <1>1 DEF TxInv, Mine, RefInv, BufTypes
<1>3. /\ own' \in [Frames -> {"none", "once", "unsent", "unacked"}]
      /\ own'[f] \in {"none", "unacked"} /\ \A g \in Frames : g # f => own'[g] = own[g]
  BY <1>1, <1>2 DEF Queue
<1>4. ASSUME own[f] = "once"
      PROVE  RefInv'
  <2>1. own'[f] = "none" /\ ref' = ref
    BY <1>2, <1>4 DEF Queue
  <2>2. \A g \in Frames : Held(g)' = Held(g)
    BY <1>1, <1>2, <1>3, <1>4, <2>1, SMT DEF Held
  <2>3. /\ own' \in [Frames -> {"none", "once", "unsent", "unacked"}] /\ arpq' \subseteq Frames
        /\ txslot' = txslot /\ parts' = parts
    BY <1>1, <1>2, <1>3
  <2>. QED
    BY <2>1, <2>2, <2>3, KeptRefs DEF TxInv
<1>5. ASSUME own[f] # "once"
      PROVE  RefInv'
  <2>1. own'[f] = "unacked" /\ ref' = [ref EXCEPT ![<<f, 1>>] = @ + 1]
    BY <1>2, <1>5 DEF Queue
  <2>2. /\ Held(f) > 0 /\ (Held(f))' = Held(f) + 1
        /\ \A g \in Frames : g # f => Held(g)' = Held(g)
    BY <1>1, <1>2, <1>3, <2>1, SMT DEF Held
  <2>3. /\ own' \in [Frames -> {"none", "once", "unsent", "unacked"}] /\ arpq' \subseteq Frames
        /\ txslot' = txslot /\ parts' = parts
    BY <1>1, <1>2, <1>3
  <2>. QED
    BY <2>1, <2>2, <2>3, KeepHead DEF TxInv
<1>6. RefInv'
  BY <1>4, <1>5
<1>7. /\ \A g \in Ready' : g \in Ready
      /\ \A g \in arpq' : own'[g] \notin {"once", "unsent"}
  BY <1>1, <1>2, <1>3 DEF Ready, TxInv, Mine
<1>. QED
  BY <1>1, <1>6, <1>7, ThreadKeeps

\* It is given up.
LEMMA DequeueKeeps ==
  ASSUME TxInv, NEW f \in Frames, Dequeue(f)
  PROVE  TxInv'
<1>1. /\ Thread /\ f \in arpq /\ arpq' = arpq \ {f} /\ own' = own
      /\ ref' = Deref(ref, <<f, 1>>)
      /\ UNCHANGED <<txring, device, txirq, txisr, out, at>>
      /\ parts' = parts /\ txslot' = txslot
  BY DEF Dequeue, txring
<1>2. arpq' \subseteq Frames /\ own \in [Frames -> {"none", "once", "unsent", "unacked"}]
  BY <1>1 DEF TxInv, RefInv, BufTypes
<1>3. /\ Held(f) > 0 /\ (Held(f))' = Held(f) - 1
      /\ \A g \in Frames : g # f => Held(g)' = Held(g)
  BY <1>1, <1>2, SMT DEF Held
<1>4. RefInv'
  BY <1>1, <1>2, <1>3, FreeHead DEF TxInv
<1>5. /\ \A g \in Ready' : g \in Ready
      /\ \A g \in arpq' : own'[g] \notin {"once", "unsent"}
  BY <1>1 DEF Ready, TxInv, Mine
<1>. QED
  BY <1>1, <1>4, <1>5, ThreadKeeps

\* A segment that is not busy is not in the ring (tcp_output_segment_busy).
LEMMA NotBusy ==
  ASSUME TxInv, Thread, NEW f \in Frames, own[f] # "none", ~Busy(f)
  PROVE  f \notin arpq /\ \A i \in TxDescs : txslot[i][1] # f
<1>1. ~InSlot(<<f, 1>>) /\ f \notin arpq
  <2>1. /\ <<f, 1>> \in Pbufs /\ <<f, 1>>[1] = f /\ <<f, 1>>[2] = 1
        /\ ref[<<f, 1>>] = Claims[<<f, 1>>] + (IF 1 > 1 /\ ref[<<f, 1 - 1>>] > 0 THEN 1 ELSE 0)
    BY ClaimFacts DEF TxInv
  <2>2. Claims[<<f, 1>>] = Held(f) + (IF InSlot(<<f, 1>>) THEN 1 ELSE 0)
    BY <2>1 DEF Claims
  <2>3. Held(f) >= 1 /\ (f \in arpq => Held(f) = 2) /\ Held(f) \in Int
    BY SMT DEF Held
  <2>. QED
    BY <2>1, <2>2, <2>3, SMT DEF Busy
<1>. SUFFICES ASSUME NEW i \in TxDescs, txslot[i][1] = f
              PROVE  FALSE
  BY <1>1
<1>2. txslot[i] # NoPbuf
  BY DEF NoPbuf
<1>3. PICK k \in 0..(NTxDesc - 1) : TxDesc(k) = i
  BY DescFacts DEF TxInv, RingTypes
<1>4. k \in txdone..(Filled - 1)
  <2>1. \A j \in 0..(NTxDesc - 1) : j >= Filled => Slot(j) = NoPbuf
    BY ThreadRuns, Zenon DEF TxInv, RingInv, Emptied
  <2>2. k < Filled
    BY <1>2, <1>3, <2>1, Counts, SMT DEF Slot
  <2>. QED
    BY <2>2, ThreadRuns, Counts, SMT
<1>5. /\ Size(k) \in 1..MaxParts /\ Begin(k) \in txdone..k /\ k \in 0..(NTxDesc - 1)
      /\ \A l \in 1..Size(k) : Slot(Begin(k) + l - 1) = <<Slot(k)[1], l>>
  BY <1>4, ThreadRuns, WholeFacts
<1>6. 1 \in 1..Size(k) /\ Begin(k) + 1 - 1 = Begin(k) /\ Begin(k) \in 0..NTxDesc
  <2>1. txdone \in Nat /\ NTxDesc \in Nat /\ MaxParts \in Nat
    BY Counts, SMT
  <2>2. Begin(k) \in Int /\ Begin(k) >= 0 /\ Begin(k) <= k /\ k \in Nat /\ k < NTxDesc
        /\ Size(k) \in Nat /\ Size(k) >= 1
    BY <1>5, <2>1, SMT
  <2>. QED
    BY <2>1, <2>2, SMT
<1>7. Slot(Begin(k)) = <<f, 1>> /\ TxDesc(Begin(k)) \in TxDescs
  <2>1. Slot(Begin(k) + 1 - 1) = <<Slot(k)[1], 1>>
    BY <1>5, <1>6, Zenon
  <2>2. Slot(k)[1] = f
    BY <1>3 DEF Slot
  <2>3. TxDesc(Begin(k)) \in TxDescs
    BY <1>6, DescFacts DEF TxInv, RingTypes
  <2>. QED
    BY <1>6, <2>1, <2>2, <2>3
<1>. QED
  BY <1>1, <1>7 DEF InSlot, Slot

LEMMA RetransmitKeeps ==
  ASSUME TxInv, Retransmit
  PROVE  TxInv'
<1>1. /\ Thread /\ UNCHANGED <<arpq, parts, ref, txring, device, txirq, txisr, out, at>>
      /\ txslot' = txslot
  BY DEF Retransmit, txring
<1>2. PICK S \in {{f \in Frames : own[f] = "unacked"}}
                 \union {{f} : f \in {g \in Frames : own[g] = "unacked"}} :
        /\ \A f \in S : ~Busy(f)
        /\ own' = [f \in Frames |-> IF f \in S THEN "unsent" ELSE own[f]]
  BY Zenon DEF Retransmit
<1>3. \A f \in S : f \in Frames /\ own[f] = "unacked"
  OBVIOUS
<1>4. RefInv'
  <2>1. own' \in [Frames -> {"none", "once", "unsent", "unacked"}]
    BY <1>2 DEF TxInv, RefInv, BufTypes
  <2>2. \A f \in Frames : own'[f] = "none" <=> own[f] = "none"
    BY <1>2, <1>3
  <2>3. \A f \in Frames : Held(f)' = Held(f)
    BY <1>1, <2>2 DEF Held
  <2>4. arpq' \subseteq Frames
    BY <1>1 DEF TxInv, RefInv, BufTypes
  <2>. QED
    BY <1>1, <2>1, <2>3, <2>4, KeptRefs DEF TxInv
<1>5. /\ \A f \in Ready' : f \in Ready \/ \A i \in TxDescs : txslot[i][1] # f
      /\ \A f \in arpq' : own'[f] \notin {"once", "unsent"}
  <2>1. ASSUME NEW f \in S
        PROVE  f \notin arpq /\ \A i \in TxDescs : txslot[i][1] # f
    BY <1>1, <1>2, <1>3, NotBusy
  <2>2. arpq \subseteq Frames /\ \A f \in Frames : f \notin S => own'[f] = own[f]
    BY <1>2 DEF TxInv, RefInv, BufTypes
  <2>. QED
    BY <1>1, <1>2, <2>1, <2>2 DEF Ready, TxInv, Mine
<1>6. UNCHANGED <<txring, device, txirq, txisr, out, at>> /\ parts' = parts
  BY <1>1
<1>. QED
  BY <1>1, <1>4, <1>5, <1>6, ThreadKeeps

\* Some descriptor ends what the MAC reads, if only the whole ring does.
LEMMA FrameLengthType ==
  ASSUME NTxDesc \in Nat \ {0}
  PROVE  FrameLength \in 1..NTxDesc
<1>. DEFINE ends(n) == last[(mac + n - 1) % NTxDesc] \/ n = NTxDesc
            T == {n \in 1..NTxDesc : ends(n)}
            below == {x \in Nat \X Nat : x[1] < x[2]}
<1>1. T \subseteq Nat /\ T # { }
  <2>1. NTxDesc \in T
    BY SMT
  <2>. QED
    BY <2>1, SMT
<1>2. IsWellFoundedOn(below, Nat)
  BY NatLessThanWellFounded DEF OpToRel
<1>. HIDE DEF T, below
<1>3. \E n \in T : \A k \in T : ~(<<k, n>> \in below)
  BY <1>1, <1>2, WFMin
<1>4. PICK n \in T : \A k \in T : ~(<<k, n>> \in below)
  BY <1>3
<1>5. n \in 1..NTxDesc /\ ends(n) /\ \A k \in T : ~(k < n)
  <2>1. \A k \in T : k \in Nat /\ n \in Nat
    BY <1>1
  <2>. QED
    BY <1>4, <2>1 DEF T, below
<1>6. \A k \in 1..(n - 1) : ~last[(mac + k - 1) % NTxDesc]
  <2>1. \A k \in 1..(n - 1) : k \in 1..NTxDesc /\ k < n
    BY <1>5, SMT
  <2>. QED
    BY <1>5, <2>1 DEF T
<1>. DEFINE is(m) == /\ last[(mac + m - 1) % NTxDesc] \/ m = NTxDesc
                     /\ \A k \in 1..(m - 1) : ~last[(mac + k - 1) % NTxDesc]
<1>7. is(n)
  BY <1>5, <1>6
<1>. HIDE DEF is
<1>8. FrameLength = CHOOSE m \in 1..NTxDesc : is(m)
  BY DEF FrameLength, is
<1>. QED
  BY <1>5, <1>7, <1>8

LEMMA MacReadKeeps ==
  ASSUME TxInv, MacRead
  PROVE  TxInv'
<1>1. /\ UNCHANGED <<own, arpq, parts, ref, txslot, used, last, txfirst, txdone, txhw, freed,
                     mac, go, txirq, txisr, out, at>>
      /\ ~used[mac] /\ rd' = FrameLength
  BY DEF MacRead, bufs, txring
<1>2. Filled' = Filled /\ Top' = Top /\ \A k : Slot(k)' = Slot(k) /\ TxDesc(k)' = TxDesc(k)
  BY <1>1 DEF Filled, Top, Slot, TxDesc
<1>3. RefInv'
  BY <1>1, SameRefs DEF TxInv
<1>4. RingTypes'
  <2>1. FrameLength \in 1..NTxDesc /\ 1..NTxDesc \subseteq 0..NTxDesc
    BY FrameLengthType, Counts, SMT
  <2>. QED
    BY <1>1, <2>1 DEF TxInv, RingTypes
<1>5. ControlTypes' /\ Control' /\ UsedNew' /\ Mine' /\ Emptied'
  BY <1>1, <1>2 DEF TxInv, ControlTypes, Control, UsedNew, Mine, TakingBack, RingInv, Emptied, Ready
<1>6. \A k : WholeAt(k)' <=> WholeAt(k)
  BY <1>1, <1>2 DEF WholeAt, Size, Begin
<1>7. Whole'
  BY <1>1, <1>2, <1>6 DEF TxInv, RingInv, Whole
<1>8. MacInv'
  <2>. SUFFICES ASSUME txisr # "error"
                PROVE  \E m \in txdone..Top : MacAt(m)'
    BY <1>1, <1>2 DEF MacInv
  <2>1. PICK m \in txdone..Top : MacAt(m)
    BY DEF TxInv, RingInv, MacInv
  <2>2. m < Top /\ FrameLength = Size(m) /\ Size(m)' = Size(m)
    BY <1>1, <1>2, <2>1, MacReads DEF Size
  <2>3. MacAt(m)'
    BY <1>1, <1>2, <2>1, <2>2 DEF MacAt
  <2>. QED
    BY <2>3
<1>. QED
  BY <1>3, <1>4, <1>5, <1>7, <1>8 DEF TxInv, RingInv

LEMMA MacSentKeeps ==
  ASSUME TxInv, MacSent
  PROVE  TxInv'
<1>1. /\ UNCHANGED <<own, arpq, parts, ref, txslot, last, txfirst, txdone, txhw, freed,
                     go, txisr, out, at>>
      /\ rd > 0 /\ rd' = 0 /\ txirq' = TRUE
      /\ used' = [used EXCEPT ![mac] = TRUE] /\ mac' = (mac + rd) % NTxDesc
  BY DEF MacSent, bufs
<1>2. Filled' = Filled /\ Top' = Top /\ \A k : Slot(k)' = Slot(k) /\ TxDesc(k)' = TxDesc(k)
  BY <1>1 DEF Filled, Top, Slot, TxDesc
<1>3. RefInv'
  BY <1>1, SameRefs DEF TxInv
<1>4. /\ mac \in TxDescs /\ used' \in [TxDescs -> BOOLEAN]
      /\ used'[mac] /\ \A i \in TxDescs : i # mac => (used'[i] <=> used[i])
  BY <1>1 DEF TxInv, RingTypes
<1>5. RingTypes' /\ ControlTypes'
  <2>1. mac' \in TxDescs /\ 0 \in 0..NTxDesc
    BY <1>1, Counts, SMT DEF TxInv, RingTypes
  <2>. QED
    BY <1>1, <1>4, <2>1 DEF TxInv, RingTypes, ControlTypes
<1>6. Control' /\ Mine'
  BY <1>1, <1>2 DEF TxInv, Control, Mine, TakingBack, Ready
<1>7. \A k \in 0..NTxDesc : TxDesc(k) \in TxDescs /\ (used[TxDesc(k)] => used'[TxDesc(k)])
  BY <1>4, DescFacts DEF TxInv, RingTypes
<1>8. Emptied'
  <2>1. CASE txisr = "error"
    BY <1>1, <1>2, <2>1 DEF TxInv, RingInv, Emptied
  <2>2. CASE txisr # "error"
    <3>1. /\ \A k \in 0..(NTxDesc - 1) :
               IF k < freed \/ k >= Filled THEN Slot(k) = NoPbuf /\ used[TxDesc(k)]
                                           ELSE Slot(k) # NoPbuf
          /\ txdone > 0 => used[TxDesc(0)]
      BY <2>2, Zenon DEF TxInv, RingInv, Emptied
    <3>2. 0 \in 0..NTxDesc /\ \A k \in 0..(NTxDesc - 1) : k \in 0..NTxDesc
      BY Counts, SMT
    <3>3. \A k \in 0..(NTxDesc - 1) :
            IF k < freed \/ k >= Filled THEN Slot(k) = NoPbuf /\ used'[TxDesc(k)]
                                        ELSE Slot(k) # NoPbuf
      BY <1>7, <3>1, <3>2
    <3>4. txdone > 0 => used'[TxDesc(0)]
      BY <1>7, <3>1, <3>2
    <3>. QED
      BY <1>1, <1>2, <2>2, <3>3, <3>4 DEF Emptied
  <2>. QED
    BY <2>1, <2>2
<1>9. Whole'
  <2>1. \A k : WholeAt(k)' <=> WholeAt(k)
    BY <1>1, <1>2 DEF WholeAt, Size, Begin
  <2>. QED
    BY <1>1, <1>2, <2>1 DEF TxInv, RingInv, Whole
<1>10. ASSUME txisr # "error", NEW m \in txdone..Top, MacAt(m)
       PROVE  MacInv' /\ UsedNew'
  <2>1. /\ m < Top /\ rd = Size(m) /\ mac = TxDesc(m) /\ Slot(m)[2] = 1
        /\ \A k \in txdone..(Top - 1) :
             /\ k < m /\ Slot(k)[2] = 1 => used[TxDesc(k)]
             /\ k >= m => ~used[TxDesc(k)]
    BY <1>1, <1>10 DEF MacAt
  <2>2. m \in txdone..(Filled - 1) /\ m \in 0..(NTxDesc - 1) /\ m \in 0..NTxDesc /\ m \in Int
    BY <2>1, Counts, SMT
  <2>3. /\ Size(m) \in 1..MaxParts /\ m + Size(m) <= Top
        /\ \A l \in 1..Size(m) :
             /\ m + l - 1 \in m..(m + Size(m) - 1) /\ m + l - 1 \in txdone..(Filled - 1)
             /\ Slot(m + l - 1) = <<Slot(m)[1], l>>
             /\ last[TxDesc(m + l - 1)] <=> l = Size(m)
    BY <1>10, <2>1, <2>2, AtBegin
  <2>12. /\ Top \in Nat /\ Top <= NTxDesc /\ NTxDesc \in Nat /\ txdone \in Nat /\ Filled \in Nat
         /\ Top <= Filled /\ txdone <= m /\ MaxParts \in Nat
    BY Counts, SMT
  <2>13. rd \in 1..MaxParts
    BY <2>1, <2>3
  <2>14. PICK n \in Int : n = m + rd
    BY <2>2, <2>13, SMT
  <2>4. n \in txdone..Top /\ n > m /\ rd \in 0..(NTxDesc - m) /\ n \in Int
        /\ rd \in 1..MaxParts
    BY <2>1, <2>2, <2>3, <2>12, <2>13, <2>14, SMT
  <2>5. mac' = TxDesc(n)
    BY <1>1, <2>1, <2>2, <2>4, <2>14, DescFacts DEF TxInv, RingTypes
  <2>6. \A k \in 0..(NTxDesc - 1) : k # m => (used'[TxDesc(k)] <=> used[TxDesc(k)])
    <3>1. \A k \in 0..(NTxDesc - 1) : k \in 0..NTxDesc
      BY Counts, SMT
    <3>. QED
      BY <1>4, <2>1, <2>2, <3>1, DescFacts DEF TxInv, RingTypes
  <2>7. n < Top => Slot(n)[2] = 1
    <3>. SUFFICES ASSUME n < Top
                  PROVE  Slot(n)[2] = 1
      OBVIOUS
    <3>1. n \in (txdone + 1)..(Filled - 1) /\ n - 1 = m + rd - 1 /\ rd \in 1..Size(m)
      BY <2>1, <2>2, <2>4, <2>12, <2>14, SMT
    <3>2. Slot(n - 1) = <<Slot(m)[1], rd>>
      BY <2>3, <3>1
    <3>3. Size(n - 1) = Size(m) /\ Slot(n - 1)[2] = Size(m)
      BY <2>1, <3>2 DEF Size
    <3>. QED
      BY <1>10, <3>1, <3>3, Neighbours
  <2>8. ASSUME NEW k \in txdone..(Top - 1)
        PROVE  /\ k < n /\ Slot(k)[2] = 1 => used'[TxDesc(k)]
               /\ k >= n => ~used'[TxDesc(k)]
    <3>1. k \in 0..(NTxDesc - 1) /\ k \in Int
      BY Counts, SMT
    <3>2. CASE k < m
      BY <2>1, <2>4, <2>6, <3>1, <3>2, SMT
    <3>3. CASE k = m
      BY <1>4, <2>1, <2>4, <3>3, SMT
    <3>4. CASE k > m /\ k < n
      <4>1. k - m + 1 \in 1..Size(m) /\ m + (k - m + 1) - 1 = k /\ k - m + 1 # 1
        BY <2>1, <2>2, <2>3, <2>4, <2>14, <3>1, <3>4, SMT
      <4>2. Slot(m + (k - m + 1) - 1) = <<Slot(m)[1], k - m + 1>>
        BY <2>3, <4>1, Zenon
      <4>3. Slot(k)[2] # 1
        BY <4>1, <4>2
      <4>. QED
        BY <3>4, <4>3, <3>1, <2>4, SMT
    <3>5. CASE k >= n
      <4>1. k # m /\ k >= m /\ ~(k < n)
        BY <2>2, <2>4, <3>1, <3>5, SMT
      <4>. QED
        BY <2>1, <2>6, <3>1, <4>1
    <3>. QED
      BY <2>2, <2>4, <3>1, <3>2, <3>3, <3>4, <3>5, SMT
  <2>9. MacAt(n)'
    <3>. QED
      BY <1>1, <1>2, <2>5, <2>7, <2>8 DEF MacAt
  <2>10. MacInv'
    <3>. QED
      BY <1>1, <1>2, <2>4, <2>9 DEF MacInv
  <2>11. UsedNew'
    <3>1. \A k \in Top..(Filled - 1) : k \in 0..(NTxDesc - 1) /\ k # m
      BY <2>1, <2>2, Counts, SMT
    <3>2. \A k \in Top..(Filled - 1) : used'[TxDesc(k)] <=> used[TxDesc(k)]
      BY <2>6, <3>1
    <3>. QED
      BY <1>1, <1>2, <3>2 DEF TxInv, UsedNew
  <2>. QED
    BY <2>10, <2>11
<1>11. MacInv' /\ UsedNew'
  <2>1. CASE txisr = "error"
    <3>1. at \notin {"rest", "head"}
      BY <2>1, Counts
    <3>. QED
      BY <1>1, <2>1, <3>1 DEF MacInv, UsedNew
  <2>2. CASE txisr # "error"
    <3>1. PICK m \in txdone..Top : MacAt(m)
      BY <2>2 DEF TxInv, RingInv, MacInv
    <3>. QED
      BY <1>10, <2>2, <3>1
  <2>. QED
    BY <2>1, <2>2
<1>. QED
  BY <1>3, <1>5, <1>6, <1>8, <1>9, <1>11 DEF TxInv, RingInv

\* process_sent_bds: no error is handled, and no frame is being filled in.
LEMMA TakingBackState ==
  ASSUME TxInv, TakingBack
  PROVE  txisr \in {"no", "send"} /\ at \in {"off", "take back"} /\ Filled = Top
<1>1. txisr \in {"no", "send"} /\ at \in {"off", "take back"}
  BY DEF TakingBack, TxInv, ControlTypes, Control
<1>. QED
  BY <1>1, Counts

LEMMA FromHwKeeps ==
  ASSUME TxInv, FromHw
  PROVE  TxInv'
<1>1. /\ UNCHANGED <<own, arpq, parts, ref, txslot, used, last, txfirst, freed, mac, rd, go, txirq,
                     txisr, out, at>>
      /\ TakingBack /\ txdone = 0 /\ Sent > 0
      /\ txdone' = Sent /\ txhw' = txhw - Sent
  BY DEF FromHw, bufs, device
<1>2. txisr \in {"no", "send"} /\ at \in {"off", "take back"} /\ Filled = Top
  BY <1>1, TakingBackState
<1>3. PICK m \in txdone..Top : MacAt(m)
  BY <1>2 DEF TxInv, RingInv, MacInv
<1>4. Sent = m
  BY <1>1, <1>2, <1>3, SentAll
<1>5. /\ m \in 1..NTxDesc /\ m <= Top /\ Top = txhw /\ freed = 0 /\ txdone' = m
      /\ txhw' = txhw - m /\ txhw' \in 0..NTxDesc /\ txdone' + txhw' = txhw
      /\ txdone = 0 /\ txhw \in 0..NTxDesc /\ m \in Int
  <2>1. /\ Top = txhw /\ txhw \in 0..NTxDesc /\ m \in 0..txhw /\ m > 0
    BY <1>1, <1>4, Counts, SMT
  <2>2. freed = 0
    BY <1>1, <1>2 DEF TxInv, Control
  <2>. QED
    BY <1>1, <1>4, <2>1, <2>2, Counts, SMT
<1>16. Filled = Top /\ txdone = 0 /\ Top \in Nat /\ 0 < m /\ m <= Top /\ m \in Nat
  <2>1. Filled = Top
    BY <1>2
  <2>2. txdone = 0 /\ m <= Top
    BY <1>5
  <2>3. Top \in Nat
    BY Counts, SMT
  <2>4. 0 < m /\ m \in Nat
    BY <1>5, SMT
  <2>. QED
    BY <2>1, <2>2, <2>3, <2>4
<1>6. \A k : TxDesc(k)' = TxDesc(k) /\ Slot(k)' = Slot(k) /\ Size(k)' = Size(k)
             /\ Begin(k)' = Begin(k)
  BY <1>1 DEF TxDesc, Slot, Size, Begin
<1>7. Top' = Top /\ Filled' = Top
  <2>1. Top' = txdone' + txhw'
    BY DEF Top
  <2>2. Filled' = txdone' + txhw' + 0
    BY <1>1, <1>2, Zenon DEF Filled
  <2>. QED
    BY <1>5, <2>1, <2>2, SMT
<1>8. RefInv'
  BY <1>1, SameRefs DEF TxInv
<1>9. RingTypes'
  <2>1. txdone' \in 0..NTxDesc /\ txhw' \in 0..NTxDesc /\ txdone' + txhw' <= NTxDesc
    BY <1>5, SMT
  <2>. QED
    BY <1>1, <2>1 DEF TxInv, RingTypes
<1>10. ControlTypes' /\ UsedNew' /\ Mine'
  BY <1>1, <1>2 DEF TxInv, ControlTypes, UsedNew, Mine, Ready
<1>11. Control'
  <2>1. TakingBack'
    BY <1>1 DEF TakingBack
  <2>2. freed' < txdone' /\ txdone' # 0 /\ Filled' <= NTxDesc
    BY <1>1, <1>5, <1>7, SMT
  <2>. QED
    BY <1>1, <1>2, <2>1, <2>2 DEF TxInv, Control, Ready
<1>12. \A k \in txdone..(Top - 1) :
         /\ k < m /\ Slot(k)[2] = 1 => used[TxDesc(k)]
         /\ k >= m => ~used[TxDesc(k)]
  BY <1>3 DEF MacAt
<1>13. Emptied'
  <2>1. used[TxDesc(0)]
    <3>1. 0 \in txdone..(Filled - 1) /\ 0 \in txdone..(Top - 1) /\ 0 < m
      BY <1>16, SMT
    <3>2. Begin(0) \in txdone..0 /\ Slot(0)[2] \in 1..Size(0) /\ Size(0) \in 1..MaxParts
      BY <1>2, <3>1, WholeFacts
    <3>3. Slot(0)[2] = 1
      BY <1>5, <3>2, SMT DEF Begin
    <3>. QED
      BY <1>12, <3>1, <3>3
  <2>. QED
    BY <1>1, <1>2, <1>6, <1>7, <2>1 DEF TxInv, RingInv, Emptied
<1>14. Whole'
  <2>. SUFFICES ASSUME NEW k \in m..(Top - 1)
                PROVE  WholeAt(k)'
    BY <1>5, <1>7 DEF Whole
  <2>1. k \in txdone..(Filled - 1) /\ k < Top /\ k \in Int /\ k >= m
    BY <1>16, SMT
  <2>2. WholeAt(k)
    BY <1>2, <2>1 DEF TxInv, RingInv, Whole
  <2>3. /\ Slot(k)[2] \in 1..Size(k) /\ Size(k) \in 1..MaxParts /\ k < Begin(k) + Size(k)
        /\ \A l \in 1..Size(k) : Slot(Begin(k) + l - 1) = <<Slot(k)[1], l>>
    BY <1>2, <2>1, WholeFacts
  <2>4. Begin(k) >= m
    <3>. SUFFICES ASSUME Begin(k) < m
                  PROVE  FALSE
      BY <1>5, <2>1, <2>3, SMT DEF Begin
    <3>1. m - Begin(k) + 1 \in 1..Size(k) /\ Begin(k) + (m - Begin(k) + 1) - 1 = m
          /\ m - Begin(k) + 1 # 1 /\ m < Top
      BY <1>5, <2>1, <2>3, SMT DEF Begin
    <3>2. Slot(Begin(k) + (m - Begin(k) + 1) - 1) = <<Slot(k)[1], m - Begin(k) + 1>>
      BY <2>3, <3>1, Zenon
    <3>3. Slot(m)[2] # 1
      BY <3>1, <3>2
    <3>. QED
      BY <1>3, <3>1, <3>3 DEF MacAt
  <2>. QED
    BY <1>1, <1>5, <1>6, <1>7, <2>1, <2>2, <2>4 DEF WholeAt
<1>15. MacInv'
  <2>1. \A k \in m..(Top - 1) : k \in txdone..(Top - 1)
    BY <1>5, SMT
  <2>2. MacAt(m)'
    BY <1>1, <1>3, <1>5, <1>6, <1>7, <2>1 DEF MacAt
  <2>3. m \in txdone'..Top'
    BY <1>5, <1>7, SMT
  <2>. QED
    BY <2>2, <2>3 DEF MacInv
<1>. QED
  BY <1>8, <1>9, <1>10, <1>11, <1>13, <1>14, <1>15 DEF TxInv, RingInv

\* What FreeSent does to the descriptors, as they were counted before.
LEMMA FreedFacts ==
  ASSUME TxInv, FreeSent
  PROVE  /\ RefInv'
         /\ used' \in [TxDescs -> BOOLEAN] /\ last' \in [TxDescs -> BOOLEAN]
         /\ txslot'[TxDesc(freed)] = NoPbuf /\ used'[TxDesc(freed)]
         /\ \A k \in 0..(NTxDesc - 1) : k # freed =>
              /\ txslot'[TxDesc(k)] = Slot(k)
              /\ used'[TxDesc(k)] <=> used[TxDesc(k)]
              /\ last'[TxDesc(k)] <=> last[TxDesc(k)]
         /\ \A i \in TxDescs : txslot'[i] \in {txslot[i], NoPbuf}
<1>1. /\ TakingBack /\ txdone > 0 /\ own' = own /\ arpq' = arpq /\ parts' = parts
      /\ used' = [used EXCEPT ![TxDesc(freed)] = TRUE]
      /\ last' = [last EXCEPT ![TxDesc(freed)] = FALSE]
      /\ ref' = Deref(ref, txslot[TxDesc(freed)])
      /\ txslot' = [txslot EXCEPT ![TxDesc(freed)] = NoPbuf]
  BY DEF FreeSent
<1>2. \A k \in 0..(NTxDesc - 1) : k \in 0..NTxDesc
  BY Counts, SMT
<1>3. TxDesc(freed) \in TxDescs
  BY <1>2, Counts, DescFacts DEF TxInv, RingTypes
<1>4. txslot[TxDesc(freed)] # NoPbuf
  <2>1. freed < txdone /\ txisr # "error"
    BY <1>1, TakingBackState DEF TxInv, Control
  <2>2. freed \in 0..(NTxDesc - 1) /\ ~(freed < freed \/ freed >= Filled)
    BY <2>1, Counts, SMT
  <2>3. \A k \in 0..(NTxDesc - 1) : ~(k < freed \/ k >= Filled) => Slot(k) # NoPbuf
    BY <2>1, Zenon DEF TxInv, RingInv, Emptied
  <2>. QED
    BY <2>2, <2>3 DEF Slot
<1>5. RefInv'
  <2>. DEFINE i == TxDesc(freed)
  <2>. HIDE DEF i
  <2>1. i \in TxDescs /\ txslot[i] # NoPbuf /\ ref' = Deref(ref, txslot[i])
        /\ txslot' = [txslot EXCEPT ![i] = NoPbuf]
    BY <1>1, <1>3, <1>4 DEF i
  <2>. QED
    BY <1>1, <2>1, FreeSlot DEF TxInv
<1>6. \A k \in 0..(NTxDesc - 1) : k # freed =>
        TxDesc(k) # TxDesc(freed) /\ TxDesc(k) \in TxDescs
  BY <1>2, Counts, DescFacts DEF TxInv, RingTypes
<1>7. txslot \in [TxDescs -> Pbufs \union {NoPbuf}]
  BY DEF TxInv, RefInv, BufTypes
<1>8. used \in [TxDescs -> BOOLEAN] /\ last \in [TxDescs -> BOOLEAN]
  BY DEF TxInv, RingTypes
<1>9. used' \in [TxDescs -> BOOLEAN] /\ last' \in [TxDescs -> BOOLEAN]
  BY <1>1, <1>8
<1>10. /\ txslot'[TxDesc(freed)] = NoPbuf /\ used'[TxDesc(freed)]
       /\ \A i \in TxDescs : txslot'[i] \in {txslot[i], NoPbuf}
  BY <1>1, <1>3, <1>7, <1>8
<1>11. ASSUME NEW k \in 0..(NTxDesc - 1), k # freed
       PROVE  /\ txslot'[TxDesc(k)] = Slot(k)
              /\ used'[TxDesc(k)] <=> used[TxDesc(k)]
              /\ last'[TxDesc(k)] <=> last[TxDesc(k)]
  BY <1>1, <1>6, <1>7, <1>8, <1>11 DEF Slot
<1>. QED
  BY <1>5, <1>9, <1>10, <1>11

LEMMA FreeSentKeeps ==
  ASSUME TxInv, FreeSent, freed + 1 < txdone
  PROVE  TxInv'
<1>1. /\ UNCHANGED <<own, arpq, parts, txfirst, txdone, txhw, mac, rd, go, txirq, txisr, out, at>>
      /\ TakingBack /\ txdone > 0 /\ freed' = freed + 1
  BY DEF FreeSent, device
<1>2. txisr \in {"no", "send"} /\ at \in {"off", "take back"} /\ Filled = Top
  BY <1>1, TakingBackState
<1>3. /\ freed \in 0..(NTxDesc - 1) /\ freed + 1 < txdone /\ txdone \in 0..NTxDesc
      /\ Top \in txdone..NTxDesc /\ NTxDesc \in Nat
  BY Counts
<1>4. /\ RefInv'
      /\ used' \in [TxDescs -> BOOLEAN] /\ last' \in [TxDescs -> BOOLEAN]
      /\ txslot'[TxDesc(freed)] = NoPbuf /\ used'[TxDesc(freed)]
      /\ \A k \in 0..(NTxDesc - 1) : k # freed =>
           /\ txslot'[TxDesc(k)] = Slot(k)
           /\ used'[TxDesc(k)] <=> used[TxDesc(k)]
           /\ last'[TxDesc(k)] <=> last[TxDesc(k)]
      /\ \A i \in TxDescs : txslot'[i] \in {txslot[i], NoPbuf}
  BY FreedFacts
<1>5. Top' = Top /\ Filled' = Filled /\ \A k : TxDesc(k)' = TxDesc(k)
  BY <1>1 DEF Top, Filled, TxDesc
<1>6. \A k \in 0..(NTxDesc - 1) : Slot(k)' = IF k = freed THEN NoPbuf ELSE Slot(k)
  <2>1. \A k : Slot(k)' = txslot'[TxDesc(k)]
    BY <1>5 DEF Slot
  <2>. QED
    BY <1>4, <2>1
<1>7. \A k \in txdone..(Top - 1) : k \in 0..(NTxDesc - 1) /\ k # freed
  BY <1>3, SMT
<1>8. RingTypes' /\ ControlTypes'
  <2>1. freed + 1 \in TxDescs
    BY <1>3, SMT DEF TxDescs
  <2>. QED
    BY <1>1, <1>4, <2>1 DEF TxInv, RingTypes, ControlTypes
<1>9. Control'
  <2>1. TakingBack'
    BY <1>1 DEF TakingBack
  <2>2. Filled' <= NTxDesc
    <3>1. Filled' = Top
      BY <1>2, <1>5
    <3>2. Top <= NTxDesc
      BY <1>3, SMT
    <3>. QED
      BY <3>1, <3>2
  <2>3. freed' < txdone' /\ txdone' # 0
    BY <1>1, <1>3, SMT
  <2>. QED
    BY <1>1, <1>2, <2>1, <2>2, <2>3 DEF TxInv, Control, Ready
<1>10. UsedNew' /\ Mine'
  <2>1. UsedNew'
    BY <1>1, <1>2 DEF UsedNew
  <2>2. Ready \subseteq Frames /\ Ready' = Ready
    BY <1>1 DEF Ready, TxInv, RefInv, BufTypes
  <2>3. \A f \in Frames : \A i \in TxDescs : txslot[i][1] # f => txslot'[i][1] # f
    BY <1>4 DEF NoPbuf
  <2>4. Mine'
    BY <1>1, <2>2, <2>3 DEF TxInv, Mine
  <2>. QED
    BY <2>1, <2>4
<1>11. Emptied'
  <2>1. /\ \A k \in 0..(NTxDesc - 1) :
             IF k < freed \/ k >= Filled THEN Slot(k) = NoPbuf /\ used[TxDesc(k)]
                                         ELSE Slot(k) # NoPbuf
        /\ txdone > 0 => used[TxDesc(0)]
    BY <1>2, Zenon DEF TxInv, RingInv, Emptied
  <2>2. used'[TxDesc(0)]
    <3>1. 0 \in 0..(NTxDesc - 1)
      BY <1>3, SMT
    <3>. QED
      BY <1>1, <1>4, <2>1, <3>1
  <2>3. ASSUME NEW k \in 0..(NTxDesc - 1)
        PROVE  IF k < freed' \/ k >= Filled THEN Slot(k)' = NoPbuf /\ used'[TxDesc(k)]
                                            ELSE Slot(k)' # NoPbuf
    <3>1. CASE k = freed
      <4>1. k < freed'
        BY <1>1, <1>3, <3>1, SMT
      <4>. QED
        BY <1>4, <1>6, <3>1, <4>1
    <3>2. CASE k # freed
      <4>1. (k < freed' \/ k >= Filled) <=> (k < freed \/ k >= Filled)
        BY <1>1, <1>3, <3>2, SMT
      <4>. QED
        BY <1>4, <1>6, <2>1, <3>2, <4>1
    <3>. QED
      BY <3>1, <3>2
  <2>. QED
    BY <1>1, <1>2, <1>5, <2>2, <2>3 DEF Emptied
<1>12. \A k \in txdone..(Top - 1) : Slot(k)' = Slot(k) /\ Size(k)' = Size(k) /\ Begin(k)' = Begin(k)
  BY <1>1, <1>6, <1>7 DEF Size, Begin
<1>13. Whole'
  <2>. SUFFICES ASSUME NEW k \in txdone..(Top - 1)
                PROVE  WholeAt(k)'
    BY <1>1, <1>2, <1>5 DEF Whole
  <2>1. WholeAt(k)
    BY <1>2 DEF TxInv, RingInv, Whole
  <2>2. /\ Begin(k) \in txdone..k /\ Begin(k) + Size(k) <= Top /\ k < Top
        /\ Size(k) \in 1..MaxParts
    <3>1. k \in txdone..(Filled - 1) /\ txisr # "error"
      BY <1>2
    <3>2. k < Top
      BY <1>3, SMT
    <3>. QED
      BY <3>1, <3>2, WholeFacts
  <2>3. \A l \in 1..Size(k) : Begin(k) + l - 1 \in txdone..(Top - 1)
    BY <1>3, <2>2, SMT
  <2>4. k \in 0..(NTxDesc - 1) /\ k # freed
    BY <1>7
  <2>. QED
    BY <1>1, <1>4, <1>5, <1>12, <2>1, <2>2, <2>3, <2>4 DEF WholeAt
<1>14. MacInv'
  <2>1. PICK m \in txdone..Top : MacAt(m)
    BY <1>2 DEF TxInv, RingInv, MacInv
  <2>2. m < Top => m \in txdone..(Top - 1)
    BY <1>3, SMT
  <2>3. MacAt(m)'
    BY <1>1, <1>4, <1>5, <1>7, <1>12, <2>1, <2>2 DEF MacAt
  <2>. QED
    BY <1>1, <1>5, <2>3 DEF MacInv
<1>. QED
  BY <1>4, <1>8, <1>9, <1>10, <1>11, <1>13, <1>14 DEF TxInv, RingInv

\* The ring is counted from a later descriptor.
LEMMA Recount ==
  ASSUME txfirst \in TxDescs, NEW d \in 0..NTxDesc, txfirst' = TxDesc(d)
  PROVE  /\ txfirst' \in TxDescs
         /\ \A k \in 0..(NTxDesc - d) : TxDesc(k)' = TxDesc(d + k)
         /\ \A k \in 0..(NTxDesc - 1) : \E j \in 0..(NTxDesc - 1) :
              TxDesc(k)' = TxDesc(j) /\ (j < d \/ j = d + k)
<1>1. NTxDesc \in Nat \ {0} /\ TxDescs = 0..(NTxDesc - 1) /\ txfirst' \in TxDescs
  BY DescFacts
<1>2. \A k : TxDesc(k)' = (txfirst' + k) % NTxDesc
  BY DEF TxDesc
<1>3. \A k \in 0..(NTxDesc - d) : TxDesc(k)' = TxDesc(d + k)
  BY <1>2, DescFacts
<1>4. /\ \A k \in 0..NTxDesc : TxDesc(k)' \in TxDescs
      /\ \A j, k \in 0..(NTxDesc - 1) : TxDesc(j)' = TxDesc(k)' => j = k
  <2>1. PICK f \in 0..(NTxDesc - 1) : f = txfirst'
    BY <1>1
  <2>2. \A k \in 0..NTxDesc : (f + k) % NTxDesc \in 0..(NTxDesc - 1)
    BY <1>1, RingPlaces
  <2>3. \A j, k \in 0..(NTxDesc - 1) :
          (f + j) % NTxDesc = (f + k) % NTxDesc => j = k
    BY <1>1, RingPlaces
  <2>. QED
    BY <1>1, <1>2, <2>1, <2>2, <2>3
<1>5. ASSUME NEW k \in 0..(NTxDesc - 1)
      PROVE  \E j \in 0..(NTxDesc - 1) : TxDesc(k)' = TxDesc(j) /\ (j < d \/ j = d + k)
  <2>1. TxDesc(k)' \in TxDescs
    <3>1. k \in 0..NTxDesc
      BY <1>1, SMT
    <3>. QED
      BY <1>4, <3>1
  <2>2. PICK j \in 0..(NTxDesc - 1) : TxDesc(j) = TxDesc(k)'
    BY <2>1, DescFacts
  <2>3. CASE j >= d
    <3>1. j - d \in 0..(NTxDesc - d) /\ j - d \in 0..(NTxDesc - 1) /\ d + (j - d) = j
      BY <1>1, <2>3, SMT
    <3>2. TxDesc(j - d)' = TxDesc(j)
      BY <1>3, <3>1
    <3>3. j - d = k
      BY <1>4, <2>2, <3>1, <3>2
    <3>. QED
      BY <2>2, <3>1, <3>3
  <2>. QED
    BY <1>1, <2>2, <2>3, SMT
<1>. QED
  BY <1>1, <1>3, <1>5

LEMMA FreeLastKeeps ==
  ASSUME TxInv, FreeSent, ~(freed + 1 < txdone)
  PROVE  TxInv'
<1>1. /\ UNCHANGED <<own, arpq, parts, txhw, mac, rd, go, txirq, txisr, out, at>>
      /\ TakingBack /\ txdone > 0
      /\ txfirst' = TxDesc(txdone) /\ txdone' = 0 /\ freed' = 0
  BY DEF FreeSent, device
<1>2. txisr \in {"no", "send"} /\ at \in {"off", "take back"} /\ Filled = Top
  BY <1>1, TakingBackState
<1>3. /\ freed \in 0..(NTxDesc - 1) /\ txdone \in 0..NTxDesc /\ txhw \in 0..NTxDesc
      /\ Top = txdone + txhw /\ Top <= NTxDesc /\ NTxDesc \in Nat /\ 0 \in TxDescs
      /\ freed + 1 = txdone
  <2>1. freed < txdone
    BY <1>1, <1>2 DEF TxInv, Control
  <2>. QED
    BY <2>1, Counts, SMT
<1>. DEFINE d == txdone
<1>4. /\ RefInv'
      /\ used' \in [TxDescs -> BOOLEAN] /\ last' \in [TxDescs -> BOOLEAN]
      /\ txslot'[TxDesc(freed)] = NoPbuf /\ used'[TxDesc(freed)]
      /\ \A k \in 0..(NTxDesc - 1) : k # freed =>
           /\ txslot'[TxDesc(k)] = Slot(k)
           /\ used'[TxDesc(k)] <=> used[TxDesc(k)]
           /\ last'[TxDesc(k)] <=> last[TxDesc(k)]
      /\ \A i \in TxDescs : txslot'[i] \in {txslot[i], NoPbuf}
  BY FreedFacts
<1>5. Top' = txhw /\ Filled' = txhw
  <2>1. Top' = txdone' + txhw'
    BY DEF Top
  <2>2. Filled' = txdone' + txhw' + 0
    BY <1>1, <1>2, Zenon DEF Filled
  <2>. QED
    BY <1>1, <1>3, <2>1, <2>2, SMT
<1>6. /\ txfirst' \in TxDescs
      /\ \A k \in 0..(NTxDesc - d) : TxDesc(k)' = TxDesc(d + k)
      /\ \A k \in 0..(NTxDesc - 1) : \E j \in 0..(NTxDesc - 1) :
           TxDesc(k)' = TxDesc(j) /\ (j < d \/ j = d + k)
  BY <1>1, <1>3, Recount DEF TxInv, RingTypes
<1>7. \A k \in 0..(NTxDesc - 1) :
        IF k < d \/ k >= Top THEN txslot'[TxDesc(k)] = NoPbuf /\ used'[TxDesc(k)]
                             ELSE txslot'[TxDesc(k)] # NoPbuf
  <2>1. \A k \in 0..(NTxDesc - 1) :
          IF k < freed \/ k >= Filled THEN Slot(k) = NoPbuf /\ used[TxDesc(k)]
                                      ELSE Slot(k) # NoPbuf
    BY <1>2, Zenon DEF TxInv, RingInv, Emptied
  <2>. SUFFICES ASSUME NEW k \in 0..(NTxDesc - 1)
                PROVE  IF k < d \/ k >= Top THEN txslot'[TxDesc(k)] = NoPbuf /\ used'[TxDesc(k)]
                                            ELSE txslot'[TxDesc(k)] # NoPbuf
    OBVIOUS
  <2>2. CASE k = freed
    <3>1. k < d
      BY <1>3, <2>2, SMT
    <3>. QED
      BY <1>4, <2>2, <3>1
  <2>3. CASE k # freed
    <3>1. k < d <=> k < freed
      BY <1>3, <2>3, SMT
    <3>. QED
      BY <1>2, <1>4, <2>1, <2>3, <3>1
  <2>. QED
    BY <2>2, <2>3
\* A descriptor in use, as it is counted before and after.
<1>8. ASSUME NEW k \in 0..(txhw - 1)
      PROVE  /\ d + k \in d..(Top - 1) /\ d + k \in 0..(NTxDesc - 1) /\ k \in 0..(NTxDesc - d)
             /\ TxDesc(k)' = TxDesc(d + k) /\ Slot(k)' = Slot(d + k)
             /\ used'[TxDesc(d + k)] <=> used[TxDesc(d + k)]
             /\ last'[TxDesc(d + k)] <=> last[TxDesc(d + k)]
             /\ Size(k)' = Size(d + k) /\ Begin(k)' = k - Slot(d + k)[2] + 1
  <2>1. d + k \in d..(Top - 1) /\ d + k \in 0..(NTxDesc - 1) /\ k \in 0..(NTxDesc - d)
        /\ d + k # freed
    BY <1>3, SMT
  <2>2. TxDesc(k)' = TxDesc(d + k)
    BY <1>6, <2>1
  <2>3. Slot(k)' = Slot(d + k)
    <3>1. Slot(k)' = txslot'[TxDesc(k)']
      BY DEF Slot
    <3>. QED
      BY <1>4, <2>1, <2>2, <3>1
  <2>. QED
    BY <1>1, <1>4, <2>1, <2>2, <2>3 DEF Size, Begin
<1>9. RingTypes' /\ ControlTypes'
  <2>1. txdone' \in 0..NTxDesc /\ txhw' \in 0..NTxDesc /\ txdone' + txhw' <= NTxDesc
    BY <1>1, <1>3, SMT
  <2>. QED
    BY <1>1, <1>3, <1>4, <1>6, <2>1 DEF TxInv, RingTypes, ControlTypes
<1>10. Control'
  <2>1. Filled' <= NTxDesc
    BY <1>3, <1>5, SMT
  <2>. QED
    BY <1>1, <1>2, <2>1 DEF TxInv, Control, Ready
<1>11. UsedNew' /\ Mine'
  <2>1. UsedNew'
    BY <1>1, <1>2 DEF UsedNew
  <2>2. Ready \subseteq Frames /\ Ready' = Ready
    BY <1>1 DEF Ready, TxInv, RefInv, BufTypes
  <2>3. \A f \in Frames : \A i \in TxDescs : txslot[i][1] # f => txslot'[i][1] # f
    BY <1>4 DEF NoPbuf
  <2>4. Mine'
    BY <1>1, <2>2, <2>3 DEF TxInv, Mine
  <2>. QED
    BY <2>1, <2>4
<1>12. Emptied'
  <2>. SUFFICES ASSUME NEW k \in 0..(NTxDesc - 1)
                PROVE  IF k >= txhw THEN Slot(k)' = NoPbuf /\ used'[TxDesc(k)']
                                    ELSE Slot(k)' # NoPbuf
    <3>1. \A k \in 0..(NTxDesc - 1) : ~(k < 0)
      BY <1>3, SMT
    <3>2. ~(0 > 0)
      BY SMT
    <3>. QED
      BY <1>1, <1>2, <1>5, <3>1, <3>2 DEF Emptied
  <2>1. CASE k >= txhw
    <3>1. PICK j \in 0..(NTxDesc - 1) : TxDesc(k)' = TxDesc(j) /\ (j < d \/ j = d + k)
      BY <1>6
    <3>2. j < d \/ j >= Top
      BY <1>3, <2>1, <3>1, SMT
    <3>3. txslot'[TxDesc(j)] = NoPbuf /\ used'[TxDesc(j)]
      BY <1>7, <3>2
    <3>4. Slot(k)' = txslot'[TxDesc(k)']
      BY DEF Slot
    <3>. QED
      BY <2>1, <3>1, <3>3, <3>4
  <2>2. CASE ~(k >= txhw)
    <3>1. k \in 0..(txhw - 1)
      BY <1>3, <2>2, SMT
    <3>2. d + k \in 0..(NTxDesc - 1) /\ ~(d + k < d \/ d + k >= Top)
      BY <1>3, <2>2, SMT
    <3>3. txslot'[TxDesc(d + k)] # NoPbuf
      BY <1>7, <3>2
    <3>4. Slot(k)' = txslot'[TxDesc(k)'] /\ TxDesc(k)' = TxDesc(d + k)
      BY <1>8, <3>1 DEF Slot
    <3>. QED
      BY <2>2, <3>3, <3>4
  <2>. QED
    BY <2>1, <2>2
<1>13. Whole'
  <2>. SUFFICES ASSUME NEW k \in 0..(txhw - 1)
                PROVE  WholeAt(k)'
    BY <1>1, <1>5 DEF Whole
  <2>. DEFINE n == d + k
  <2>1. /\ n \in txdone..(Filled - 1) /\ txisr # "error" /\ n < Top /\ n \in Int /\ k \in Int
        /\ txdone \in Int /\ n - txdone = k
    <3>1. Filled = Top /\ txisr # "error"
      BY <1>2
    <3>2. n \in txdone..(Top - 1) /\ n < Top /\ n \in Int /\ k \in Int
          /\ txdone \in Int /\ n - txdone = k
      BY <1>3, SMT
    <3>. QED
      BY <3>1, <3>2
  <2>2. /\ TxDesc(k)' = TxDesc(n) /\ Slot(k)' = Slot(n)
        /\ last'[TxDesc(n)] <=> last[TxDesc(n)]
        /\ Size(k)' = Size(n) /\ Begin(k)' = k - Slot(n)[2] + 1
    BY <1>8
  <2>. HIDE DEF n
  <2>3. /\ Size(n) \in 1..MaxParts /\ Slot(n)[2] \in 1..Size(n)
        /\ Begin(n) \in txdone..n /\ Begin(n) + Size(n) <= Top
        /\ \A l \in 1..Size(n) : Slot(Begin(n) + l - 1) = <<Slot(n)[1], l>>
        /\ last[TxDesc(n)] <=> Slot(n)[2] = Size(n)
    BY <2>1, WholeFacts
  <2>4. Begin(k)' \in Int /\ Begin(n) = txdone + Begin(k)' /\ Begin(k)' >= 0
        /\ Begin(k)' + Size(n) <= txhw /\ k < txhw
    BY <1>3, <2>1, <2>2, <2>3, SMT DEF Begin
  <2>5. ASSUME NEW l \in 1..Size(n)
        PROVE  Slot(Begin(k) + l - 1)' = <<Slot(n)[1], l>>
    <3>1. PICK c \in Int : c = Begin(k)' + l - 1
      BY <2>3, <2>4, SMT
    <3>2. c \in 0..(txhw - 1) /\ txdone + c = Begin(n) + l - 1
      BY <1>3, <2>3, <2>4, <3>1, SMT
    <3>3. Slot(c)' = Slot(txdone + c)
      BY <1>8, <3>2
    <3>4. Slot(Begin(k) + l - 1)' = Slot(c)'
      BY <3>1 DEF Slot, TxDesc
    <3>. QED
      BY <2>3, <3>2, <3>3, <3>4
  <2>. QED
    BY <1>1, <1>5, <2>2, <2>3, <2>4, <2>5 DEF WholeAt
<1>14. MacInv'
  <2>1. PICK m \in txdone..Top : MacAt(m)
    BY <1>2 DEF TxInv, RingInv, MacInv
  <2>2. /\ mac = TxDesc(m)
        /\ m < Top => Slot(m)[2] = 1
        /\ \A k \in txdone..(Top - 1) :
             /\ k < m /\ Slot(k)[2] = 1 => used[TxDesc(k)]
             /\ k >= m => ~used[TxDesc(k)]
        /\ rd > 0 => m < Top /\ rd = Size(m)
    BY <2>1 DEF MacAt
  <2>3. PICK n \in Int : n = m - txdone
    BY <1>3, SMT
  <2>4. /\ n \in 0..txhw /\ n \in 0..(NTxDesc - d) /\ d + n = m /\ (n < txhw <=> m < Top)
        /\ n < txhw => n \in 0..(txhw - 1)
    BY <1>3, <2>3, SMT
  <2>5. mac' = TxDesc(n)'
    BY <1>1, <1>6, <2>2, <2>4
  <2>6. n < txhw => Slot(n)' = Slot(m) /\ Size(n)' = Size(m)
    BY <1>8, <2>4
  <2>7. ASSUME NEW k \in 0..(txhw - 1)
        PROVE  /\ k < n /\ (Slot(k)')[2] = 1 => used'[TxDesc(k)']
               /\ k >= n => ~used'[TxDesc(k)']
    <3>1. (k < n <=> d + k < m) /\ (k >= n <=> d + k >= m)
      BY <1>3, <2>4, SMT
    <3>. QED
      BY <1>8, <2>2, <3>1
  <2>8. MacAt(n)'
    BY <1>1, <1>5, <2>2, <2>4, <2>5, <2>6, <2>7 DEF MacAt
  <2>. QED
    BY <1>1, <1>5, <2>4, <2>8 DEF MacInv
<1>. QED
  BY <1>4, <1>9, <1>10, <1>11, <1>12, <1>13, <1>14 DEF TxInv, RingInv

LEMMA TxErrorKeeps ==
  ASSUME TxInv, TxError
  PROVE  TxInv'
<1>1. /\ UNCHANGED <<own, arpq, parts, ref, txslot, used, last, txfirst, txdone, txhw, freed, mac,
                     txirq, out, at>>
      /\ Thread /\ txisr' = "error"
      /\ (go' = FALSE /\ rd' = 0) \/ (go' = go /\ rd' = rd)
  BY DEF TxError, bufs, txring
<1>2. txisr = "no" /\ out = None /\ at = "off" /\ txdone = 0 /\ freed = 0 /\ Filled = Top
  BY <1>1, ThreadRuns
<1>3. RefInv'
  BY <1>1, SameRefs DEF TxInv
<1>4. RingTypes' /\ ControlTypes'
  <2>1. 0 \in 0..NTxDesc
    BY Counts, SMT
  <2>. QED
    BY <1>1, <2>1 DEF TxInv, RingTypes, ControlTypes
<1>5. Filled' = Filled /\ \A k : Slot(k)' = Slot(k)
  BY <1>1 DEF Filled, Slot, TxDesc
<1>6. Control' /\ UsedNew' /\ Mine'
  BY <1>1, <1>2, <1>5 DEF TxInv, Control, UsedNew, Mine, Ready
<1>7. Emptied'
  <2>1. \A k \in 0..(NTxDesc - 1) : k >= Filled => Slot(k) = NoPbuf
    BY <1>2, Zenon DEF TxInv, RingInv, Emptied
  <2>2. \A k \in txhw..(NTxDesc - 1) : k \in 0..(NTxDesc - 1) /\ k >= Filled
    <3>1. Filled = txhw /\ txhw \in Nat
      BY <1>2, Counts, SMT
    <3>. QED
      BY <3>1, SMT
  <2>3. \A i \in TxDescs : ~(i < 0)
    BY SMT DEF TxDescs
  <2>. QED
    BY <1>1, <1>2, <1>5, <2>1, <2>2, <2>3 DEF Emptied
<1>8. Whole' /\ MacInv'
  BY <1>1 DEF Whole, MacInv
<1>. QED
  BY <1>3, <1>4, <1>6, <1>7, <1>8 DEF TxInv, RingInv

LEMMA GiveUpKeeps ==
  ASSUME TxInv, GiveUp
  PROVE  TxInv'
<1>1. /\ UNCHANGED <<own, arpq, parts, txdone, txirq, out, at>> /\ txisr = "error"
      /\ ref' = IF txslot[freed] = NoPbuf THEN ref ELSE Deref(ref, txslot[freed])
      /\ txslot' = [txslot EXCEPT ![freed] = NoPbuf]
  BY DEF GiveUp
<1>2. /\ txdone = 0 /\ out = None /\ at = "off" /\ freed \in TxDescs
      /\ txslot \in [TxDescs -> Pbufs \union {NoPbuf}]
  BY <1>1 DEF TxInv, Control, ControlTypes, RingTypes, RefInv, BufTypes
<1>3. RefInv'
  <2>1. CASE txslot[freed] = NoPbuf
    <3>1. txslot' = txslot /\ ref' = ref
      BY <1>1, <1>2, <2>1
    <3>. QED
      BY <1>1, <3>1, SameRefs DEF TxInv
  <2>2. CASE txslot[freed] # NoPbuf
    <3>1. ref' = Deref(ref, txslot[freed])
      BY <1>1, <2>2
    <3>. QED
      BY <1>1, <1>2, <2>2, <3>1, FreeSlot DEF TxInv
  <2>. QED
    BY <2>1, <2>2
<1>4. \A i \in TxDescs : txslot'[i] = IF i = freed THEN NoPbuf ELSE txslot[i]
  BY <1>1, <1>2
<1>5. /\ \A i \in TxDescs : i < freed => txslot[i] = NoPbuf
      /\ \A k \in txhw..(NTxDesc - 1) : Slot(k) = NoPbuf
  BY <1>1 DEF TxInv, RingInv, Emptied
<1>6. Mine'
  <2>1. \A f \in Frames : \A i \in TxDescs : txslot[i][1] # f => txslot'[i][1] # f
    BY <1>4 DEF NoPbuf
  <2>2. Ready \subseteq Frames /\ Ready' = Ready
    BY <1>1 DEF Ready, TxInv, RefInv, BufTypes
  <2>. QED
    BY <1>1, <2>1, <2>2 DEF TxInv, Mine
<1>7. UsedNew'
  BY <1>1, <1>2 DEF UsedNew
<1>8. Filled' = txdone' + txhw'
  <2>1. Filled' = txdone' + txhw' + 0
    BY <1>1, <1>2, Zenon DEF Filled
  <2>2. txhw' \in Nat /\ txdone' \in Nat
    BY <1>1, Counts, SMT DEF GiveUp
  <2>. QED
    BY <2>1, <2>2, SMT
<1>9. CASE freed + 1 < NTxDesc
  <2>1. /\ UNCHANGED <<used, last, txfirst, txhw, mac, rd, go, txisr>> /\ freed' = freed + 1
    BY <1>9 DEF GiveUp, device
  <2>2. RingTypes' /\ ControlTypes'
    <3>1. freed + 1 \in TxDescs
      BY <1>2, <1>9, SMT DEF TxDescs
    <3>. QED
      BY <1>1, <2>1, <3>1 DEF TxInv, RingTypes, ControlTypes
  <2>3. Control'
    <3>1. Filled' <= NTxDesc
      BY <1>1, <1>8, <2>1, Counts, SMT
    <3>. QED
      BY <1>1, <1>2, <2>1, <3>1 DEF Control
  <2>4. Emptied'
    <3>1. ASSUME NEW i \in TxDescs, i < freed'
          PROVE  txslot'[i] = NoPbuf
      <4>1. i = freed \/ i < freed
        BY <1>2, <2>1, <3>1, SMT DEF TxDescs
      <4>. QED
        BY <1>4, <1>5, <4>1
    <3>2. ASSUME NEW k \in txhw..(NTxDesc - 1)
          PROVE  Slot(k)' = NoPbuf
      <4>1. k \in 0..NTxDesc
        BY Counts, SMT
      <4>2. TxDesc(k) \in TxDescs
        BY <4>1, DescFacts DEF TxInv, RingTypes
      <4>3. Slot(k)' = txslot'[TxDesc(k)]
        BY <2>1 DEF Slot, TxDesc
      <4>. QED
        BY <1>4, <1>5, <4>2, <4>3 DEF Slot
    <3>. QED
      BY <1>1, <2>1, <3>1, <3>2 DEF Emptied
  <2>5. Whole' /\ MacInv'
    BY <1>1, <2>1 DEF Whole, MacInv
  <2>. QED
    BY <1>3, <1>6, <1>7, <2>2, <2>3, <2>4, <2>5 DEF TxInv, RingInv
<1>10. CASE ~(freed + 1 < NTxDesc)
  <2>1. /\ used' = [i \in TxDescs |-> TRUE] /\ last' = [i \in TxDescs |-> FALSE]
        /\ txfirst' = 0 /\ txhw' = 0 /\ mac' = 0 /\ rd' = 0 /\ go' = FALSE
        /\ txisr' = "no" /\ freed' = 0 /\ txdone' = 0
    BY <1>1, <1>2, <1>10 DEF GiveUp
  <2>2. \A i \in TxDescs : txslot'[i] = NoPbuf
    <3>1. \A i \in TxDescs : i = freed \/ i < freed
      BY <1>2, <1>10, SMT DEF TxDescs
    <3>. QED
      BY <1>4, <1>5, <3>1
  <2>3. /\ 0 \in TxDescs /\ 0 \in 0..NTxDesc /\ 0 + 0 <= NTxDesc /\ 0 + 0 = 0
        /\ TxDescs = 0..(NTxDesc - 1) /\ NTxDesc \in Nat \ {0}
    BY Counts, SMT
  <2>4. RingTypes' /\ ControlTypes'
    BY <1>1, <1>2, <2>1, <2>3 DEF TxInv, RingTypes, ControlTypes
  <2>5. Filled' = 0 /\ Top' = 0
    BY <1>8, <2>1, <2>3 DEF Top
  <2>6. Control'
    BY <1>1, <1>2, <2>1, <2>3, <2>5 DEF Control
  <2>7. \A k \in 0..(NTxDesc - 1) : TxDesc(k)' \in TxDescs /\ TxDesc(k)' = k
    <3>1. \A k \in 0..(NTxDesc - 1) : TxDesc(k)' = (0 + k) % NTxDesc
      BY <2>1 DEF TxDesc
    <3>2. \A k \in 0..(NTxDesc - 1) : (0 + k) % NTxDesc = k
      BY <2>3, SMT
    <3>. QED
      BY <2>3, <3>1, <3>2
  <2>8. Emptied'
    <3>1. \A k \in 0..(NTxDesc - 1) : ~(k < 0) /\ k >= 0
      BY SMT
    <3>2. \A k \in 0..(NTxDesc - 1) : Slot(k)' = NoPbuf /\ used'[TxDesc(k)']
      BY <2>1, <2>2, <2>7 DEF Slot
    <3>3. ~(0 > 0)
      BY SMT
    <3>. QED
      BY <2>1, <2>5, <3>1, <3>2, <3>3 DEF Emptied
  <2>9. Whole'
    <3>1. 0..(0 - 1) = { }
      BY SMT
    <3>. QED
      BY <2>1, <2>5, <3>1 DEF Whole
  <2>10. MacInv'
    <3>1. 0..(0 - 1) = { } /\ ~(0 < 0) /\ ~(0 > 0) /\ 0 \in 0..0
      BY SMT
    <3>2. MacAt(0)'
      BY <2>1, <2>3, <2>5, <2>7, <3>1 DEF MacAt
    <3>. QED
      BY <2>1, <2>5, <3>1, <3>2 DEF MacInv
  <2>. QED
    BY <1>3, <1>6, <1>7, <2>4, <2>6, <2>8, <2>9, <2>10 DEF TxInv, RingInv
<1>. QED
  BY <1>9, <1>10

\* low_level_output is beyond process_sent_bds.
LEMMA OutState ==
  ASSUME TxInv, at \in {"fill", "rest", "head", "start"}
  PROVE  /\ out \in Frames /\ out # None /\ out \in Ready
         /\ txisr = "no" /\ txdone = 0 /\ freed = 0 /\ Top = txhw
         /\ parts[out] \in 1..MaxParts
<1>1. out \in Frames /\ out # None
  BY DEF TxInv, ControlTypes
<1>2. out \in Ready /\ txisr = "no"
  BY <1>1 DEF TxInv, Control
<1>3. txdone = 0 /\ freed = 0
  BY <1>2 DEF TxInv, Control, TakingBack
<1>4. parts[out] \in 1..MaxParts
  BY <1>1 DEF TxInv, RefInv, BufTypes
<1>5. Top = txhw
  BY <1>3, SMT DEF Top, TxInv, RingTypes
<1>. QED
  BY <1>1, <1>2, <1>3, <1>4, <1>5

\* The descriptors for the frame in low_level_output.
LEMMA DescOfFacts ==
  ASSUME TxInv, at \in {"fill", "rest", "head"}, Top + parts[out] <= NTxDesc
  PROVE  /\ \A k \in 1..parts[out] :
              /\ DescOf(k) = TxDesc(Top + k - 1) /\ DescOf(k) \in TxDescs
              /\ Top + k - 1 \in Top..(Top + parts[out] - 1)
              /\ Top + k - 1 \in 0..(NTxDesc - 1)
         /\ \A j, k \in 1..parts[out] : DescOf(j) = DescOf(k) => j = k
         /\ \A c \in Top..(Top + parts[out] - 1) :
              c - Top + 1 \in 1..parts[out] /\ DescOf(c - Top + 1) = TxDesc(c)
         /\ \A c \in 0..(Top - 1) : \A k \in 1..parts[out] : DescOf(k) # TxDesc(c)
         /\ \A c \in (Top + parts[out])..(NTxDesc - 1) : \A k \in 1..parts[out] :
              DescOf(k) # TxDesc(c)
<1>1. /\ Top \in Nat /\ NTxDesc \in Nat /\ parts[out] \in Nat /\ parts[out] >= 1
      /\ Top = txdone + txhw
  BY OutState, Counts, SMT
<1>2. /\ \A k \in 0..NTxDesc : TxDesc(k) \in TxDescs
      /\ \A j, k \in 0..(NTxDesc - 1) : TxDesc(j) = TxDesc(k) => j = k
  BY DescFacts DEF TxInv, RingTypes
<1>3. ASSUME NEW k \in 1..parts[out]
      PROVE  /\ DescOf(k) = TxDesc(Top + k - 1) /\ DescOf(k) \in TxDescs
             /\ Top + k - 1 \in Top..(Top + parts[out] - 1)
             /\ Top + k - 1 \in 0..(NTxDesc - 1)
  <2>1. DescOf(k) = TxDesc(Top + k - 1)
    BY <1>1 DEF DescOf
  <2>2. /\ Top + k - 1 \in Top..(Top + parts[out] - 1)
        /\ Top + k - 1 \in 0..(NTxDesc - 1) /\ Top + k - 1 \in 0..NTxDesc
    BY <1>1, SMT
  <2>. QED
    BY <1>2, <2>1, <2>2
<1>4. \A j, k \in 1..parts[out] : DescOf(j) = DescOf(k) => j = k
  <2>1. \A j, k \in 1..parts[out] : Top + j - 1 = Top + k - 1 => j = k
    BY <1>1, SMT
  <2>. QED
    BY <1>2, <1>3, <2>1
<1>5. ASSUME NEW c \in Top..(Top + parts[out] - 1)
      PROVE  c - Top + 1 \in 1..parts[out] /\ DescOf(c - Top + 1) = TxDesc(c)
  <2>1. c - Top + 1 \in 1..parts[out] /\ Top + (c - Top + 1) - 1 = c
    BY <1>1, SMT
  <2>. QED
    BY <1>3, <2>1
<1>6. ASSUME NEW c \in 0..(Top - 1), NEW k \in 1..parts[out]
      PROVE  DescOf(k) # TxDesc(c)
  <2>1. c \in 0..(NTxDesc - 1) /\ c # Top + k - 1
    BY <1>1, SMT
  <2>. QED
    BY <1>2, <1>3, <2>1
<1>7. ASSUME NEW c \in (Top + parts[out])..(NTxDesc - 1), NEW k \in 1..parts[out]
      PROVE  DescOf(k) # TxDesc(c)
  <2>1. c \in 0..(NTxDesc - 1) /\ c # Top + k - 1
    BY <1>1, SMT
  <2>. QED
    BY <1>2, <1>3, <2>1
<1>. QED
  BY <1>3, <1>4, <1>5, <1>6, <1>7

LEMMA SgSendKeeps ==
  ASSUME TxInv, SgSend
  PROVE  TxInv'
<1>. DEFINE n == parts[out]
            part(i) == CHOOSE k \in 1..n : DescOf(k) = i
            mine == {DescOf(k) : k \in 1..n}
<1>1. /\ UNCHANGED <<own, arpq, parts, used, txfirst, txdone, txhw, freed, mac, rd, go, txirq,
                     txisr, out>>
      /\ at = "fill" /\ FreeCnt >= n /\ at' = "rest"
      /\ txslot' = [i \in TxDescs |-> IF i \in mine THEN <<out, part(i)>> ELSE txslot[i]]
      /\ last' = [i \in TxDescs |-> IF i \in mine THEN part(i) = n ELSE last[i]]
      /\ ref' = [p \in Pbufs |-> IF p \in Chain(out) THEN ref[p] + 1 ELSE ref[p]]
  BY DEF SgSend, device, Referred
<1>2. /\ out \in Frames /\ out # None /\ out \in Ready
      /\ txisr = "no" /\ txdone = 0 /\ freed = 0 /\ Top = txhw /\ Filled = Top
      /\ n \in 1..MaxParts
  BY <1>1, OutState, Counts
<1>3. /\ Top + n <= NTxDesc /\ Top \in Nat /\ NTxDesc \in Nat /\ n \in Nat /\ n >= 1
      /\ MaxParts \in Nat
  <2>1. Top \in Nat /\ NTxDesc \in Nat /\ MaxParts \in Nat
    BY Counts, SMT
  <2>2. n \in Nat /\ n >= 1
    BY <1>2, <2>1, SMT
  <2>3. NTxDesc - 0 - Top >= n
    BY <1>1, <1>2 DEF FreeCnt
  <2>. QED
    BY <2>1, <2>2, <2>3, SMT
<1>4. /\ \A k \in 1..n :
           /\ DescOf(k) = TxDesc(Top + k - 1) /\ DescOf(k) \in TxDescs
           /\ Top + k - 1 \in Top..(Top + n - 1)
           /\ Top + k - 1 \in 0..(NTxDesc - 1)
      /\ \A j, k \in 1..n : DescOf(j) = DescOf(k) => j = k
      /\ \A c \in Top..(Top + n - 1) : c - Top + 1 \in 1..n /\ DescOf(c - Top + 1) = TxDesc(c)
      /\ \A c \in 0..(Top - 1) : \A k \in 1..n : DescOf(k) # TxDesc(c)
      /\ \A c \in (Top + n)..(NTxDesc - 1) : \A k \in 1..n : DescOf(k) # TxDesc(c)
  BY <1>1, <1>3, DescOfFacts
<1>. HIDE DEF n
<1>5. \A k \in 1..n : DescOf(k) \in mine /\ part(DescOf(k)) = k
  <2>. SUFFICES ASSUME NEW k \in 1..n
                PROVE  DescOf(k) \in mine /\ part(DescOf(k)) = k
    OBVIOUS
  <2>1. \A j \in 1..n : DescOf(j) = DescOf(k) => j = k
    BY <1>4
  <2>. QED
    BY <2>1
<1>6. /\ \A c \in 0..(Top - 1) : TxDesc(c) \notin mine
      /\ \A c \in (Top + n)..(NTxDesc - 1) : TxDesc(c) \notin mine
  BY <1>4
<1>. HIDE DEF part
<1>7. \A k \in 1..n : txslot'[DescOf(k)] = <<out, k>> /\ (last'[DescOf(k)] <=> k = n)
  BY <1>1, <1>4, <1>5
<1>8. \A i \in TxDescs : i \notin mine => txslot'[i] = txslot[i] /\ (last'[i] <=> last[i])
  BY <1>1
<1>24. /\ txdone' = 0 /\ txhw' = txhw /\ at' = "rest" /\ used' = used /\ out' = out
       /\ txisr' = "no" /\ own' = own /\ arpq' = arpq
  BY <1>1, <1>2
<1>9. \A k \in 0..(NTxDesc - 1) : TxDesc(k) \in TxDescs
  <2>1. \A k \in 0..(NTxDesc - 1) : k \in 0..NTxDesc
    BY <1>3, SMT
  <2>. QED
    BY <2>1, DescFacts DEF TxInv, RingTypes
<1>10. Top' = Top /\ Filled' = Top + n /\ \A k : TxDesc(k)' = TxDesc(k)
  <2>1. Filled' = txdone' + txhw' + parts'[out']
    BY <1>1, Zenon DEF Filled
  <2>. QED
    BY <1>1, <2>1 DEF Top, TxDesc, n
<1>25. PICK h \in Int : h = Top + n /\ Filled' = h
  BY <1>3, <1>10
<1>26. Filled' - 1 = h - 1 /\ h - 1 = Top + n - 1
  <2>1. Filled' - 1 = h - 1
    BY <1>25, SMT
  <2>2. h - 1 = Top + n - 1
    BY <1>3, <1>25, SMT
  <2>. QED
    BY <2>1, <2>2
<1>11. \A k : Slot(k)' = txslot'[TxDesc(k)]
  BY <1>10 DEF Slot
<1>12. /\ \A c \in 0..(Top - 1) : Slot(c)' = Slot(c) /\ (last'[TxDesc(c)] <=> last[TxDesc(c)])
       /\ \A c \in (Top + n)..(NTxDesc - 1) : Slot(c)' = Slot(c)
       /\ \A c \in Top..(Top + n - 1) :
            /\ Slot(c)' = <<out, c - Top + 1>>
            /\ last'[TxDesc(c)] <=> c - Top + 1 = n
  <2>1. /\ \A c \in 0..(Top - 1) : c \in 0..(NTxDesc - 1)
        /\ \A c \in (Top + n)..(NTxDesc - 1) : c \in 0..(NTxDesc - 1)
    BY <1>3, SMT
  <2>2. ASSUME NEW c \in 0..(NTxDesc - 1), TxDesc(c) \notin mine
        PROVE  Slot(c)' = Slot(c) /\ (last'[TxDesc(c)] <=> last[TxDesc(c)])
    BY <1>8, <1>9, <1>11, <2>2 DEF Slot
  <2>3. ASSUME NEW c \in Top..(Top + n - 1)
        PROVE  /\ Slot(c)' = <<out, c - Top + 1>>
               /\ last'[TxDesc(c)] <=> c - Top + 1 = n
    <3>1. c - Top + 1 \in 1..n /\ DescOf(c - Top + 1) = TxDesc(c)
      BY <1>4
    <3>2. txslot'[DescOf(c - Top + 1)] = <<out, c - Top + 1>>
          /\ (last'[DescOf(c - Top + 1)] <=> c - Top + 1 = n)
      BY <1>7, <3>1
    <3>. QED
      BY <1>11, <3>1, <3>2
  <2>. QED
    BY <1>6, <2>1, <2>2, <2>3
<1>13. \A i \in TxDescs : txslot[i][1] # out
  BY <1>1, <1>2 DEF TxInv, Mine
<1>14. /\ \A k \in 0..(NTxDesc - 1) :
            IF k < freed \/ k >= Filled THEN Slot(k) = NoPbuf /\ used[TxDesc(k)]
                                        ELSE Slot(k) # NoPbuf
       /\ txdone > 0 => used[TxDesc(0)]
  BY <1>2, Zenon DEF TxInv, RingInv, Emptied
<1>15. /\ txslot' \in [TxDescs -> Pbufs \union {NoPbuf}]
       /\ last' \in [TxDescs -> BOOLEAN]
  <2>1. \A i \in TxDescs : txslot'[i] \in Pbufs \union {NoPbuf}
    <3>1. ASSUME NEW k \in 1..n
          PROVE  txslot'[DescOf(k)] \in Pbufs
      <4>1. \A f \in Frames : 1..parts[f] \subseteq 1..MaxParts
        BY ClaimFacts DEF TxInv
      <4>2. k \in 1..MaxParts
        BY <1>2, <4>1 DEF n
      <4>. QED
        BY <1>2, <1>7, <4>2 DEF Pbufs
    <3>2. \A i \in TxDescs : txslot[i] \in Pbufs \union {NoPbuf}
      BY DEF TxInv, RefInv, BufTypes
    <3>. QED
      BY <1>8, <3>1, <3>2
  <2>2. \A i \in TxDescs : last'[i] \in BOOLEAN
    BY <1>1 DEF TxInv, RingTypes
  <2>. QED
    BY <1>1, <2>1, <2>2
<1>16. RefInv'
  <2>1. PICK pos : pos = [k \in 1..n |-> DescOf(k)]
    OBVIOUS
  <2>2. /\ pos \in [1..n -> TxDescs] /\ \A k \in 1..n : pos[k] = DescOf(k)
    BY <1>4, <2>1
  <2>3. \A j, k \in 1..n : pos[j] = pos[k] => j = k
    BY <1>4, <2>2
  <2>4. \A k \in 1..n : txslot[pos[k]] = NoPbuf
    <3>. SUFFICES ASSUME NEW k \in 1..n
                  PROVE  txslot[pos[k]] = NoPbuf
      OBVIOUS
    <3>1. Top + k - 1 \in 0..(NTxDesc - 1) /\ Top + k - 1 >= Filled
      BY <1>2, <1>3, SMT
    <3>2. Slot(Top + k - 1) = NoPbuf
      BY <1>14, <3>1
    <3>. QED
      BY <1>4, <2>2, <3>2 DEF Slot
  <2>5. \A k \in 1..n : txslot'[pos[k]] = <<out, k>>
    BY <1>7, <2>2
  <2>6. \A i \in TxDescs : (\A k \in 1..n : pos[k] # i) => txslot'[i] = txslot[i]
    BY <1>8, <2>2
  <2>7. Held(out) > 0
    BY <1>2, SMT DEF Held, Ready
  <2>8. /\ RefInv /\ out \in Frames /\ own' = own /\ arpq' = arpq /\ parts' = parts
        /\ txslot' \in [TxDescs -> Pbufs \union {NoPbuf}]
        /\ \A i \in TxDescs : txslot[i][1] # out
        /\ ref' = [p \in Pbufs |-> IF p \in Chain(out) THEN ref[p] + 1 ELSE ref[p]]
    BY <1>1, <1>2, <1>13, <1>15 DEF TxInv
  <2>. QED
    BY <2>2, <2>3, <2>4, <2>5, <2>6, <2>7, <2>8, SendRefs DEF n
<1>17. RingTypes' /\ ControlTypes'
  BY <1>1, <1>2, <1>15 DEF TxInv, RingTypes, ControlTypes
<1>18. Control'
  <2>1. Filled' <= NTxDesc
    BY <1>3, <1>10
  <2>. QED
    BY <1>1, <1>2, <1>24, <2>1 DEF Control, Ready
<1>19. UsedNew'
  <2>1. \A k \in Top..(Top + n - 1) : k \in 0..(NTxDesc - 1) /\ k >= Filled
    BY <1>2, <1>3, SMT
  <2>2. \A k \in Top..(Top + n - 1) : used[TxDesc(k)]
    BY <1>14, <2>1
  <2>3. Top' = Top /\ Filled' - 1 = Top + n - 1
    BY <1>10, <1>26
  <2>4. \A k \in Top'..(Filled' - 1) : used'[TxDesc(k)']
    BY <1>10, <1>24, <2>2, <2>3, Zenon
  <2>. QED
    BY <1>24, <2>4 DEF UsedNew
<1>20. Mine'
  <2>. SUFFICES ASSUME NEW f \in Ready, f # out
                PROVE  \A i \in TxDescs : txslot'[i][1] # f
    <3>1. Ready' = Ready /\ \A g \in arpq' : own'[g] \notin {"once", "unsent"}
      BY <1>1 DEF Ready, TxInv, Mine
    <3>. QED
      BY <1>1, <3>1 DEF Mine
  <2>1. \A i \in TxDescs : txslot[i][1] # f
    BY DEF TxInv, Mine
  <2>2. \A k \in 1..n : txslot'[DescOf(k)][1] # f
    BY <1>7
  <2>. QED
    BY <1>8, <2>1, <2>2
<1>21. Emptied'
  <2>1. ASSUME NEW k \in 0..(NTxDesc - 1)
        PROVE  IF k < freed \/ k >= Top + n THEN Slot(k)' = NoPbuf /\ used[TxDesc(k)]
                                            ELSE Slot(k)' # NoPbuf
    <3>1. CASE k < Top
      <4>1. k \in 0..(Top - 1) /\ ~(k < freed \/ k >= Filled) /\ ~(k < freed \/ k >= Top + n)
        BY <1>2, <1>3, <3>1, SMT
      <4>. QED
        BY <1>12, <1>14, <4>1
    <3>2. CASE k >= Top /\ k < Top + n
      <4>1. k \in Top..(Top + n - 1) /\ ~(k < freed \/ k >= Top + n)
        BY <1>2, <1>3, <3>2, SMT
      <4>2. Slot(k)' # NoPbuf
        BY <1>2, <1>12, <4>1 DEF NoPbuf
      <4>. QED
        BY <4>1, <4>2
    <3>3. CASE k >= Top + n
      <4>1. k \in (Top + n)..(NTxDesc - 1) /\ k >= Filled
        BY <1>2, <1>3, <3>3, SMT
      <4>. QED
        BY <1>12, <1>14, <3>3, <4>1
    <3>. QED
      BY <1>3, <3>1, <3>2, <3>3, SMT
  <2>. QED
    BY <1>1, <1>2, <1>10, <1>14, <2>1 DEF Emptied
<1>22. Whole'
  <2>. SUFFICES ASSUME NEW k \in 0..(Top + n - 1)
                PROVE  WholeAt(k)'
    <3>1. txdone' = 0 /\ Filled' - 1 = Top + n - 1
      BY <1>24, <1>26
    <3>. QED
      BY <3>1, Zenon DEF Whole
  <2>1. CASE k < Top
    <3>1. k \in txdone..(Filled - 1) /\ k \in 0..(Top - 1) /\ txisr # "error"
      BY <1>2, <1>3, <2>1, SMT
    <3>2. /\ WholeAt(k) /\ Size(k) \in 1..MaxParts /\ Begin(k) \in txdone..k
          /\ Begin(k) + Size(k) <= Top
      BY <2>1, <3>1, WholeFacts DEF TxInv, RingInv, Whole
    <3>3. \A l \in 1..Size(k) : Begin(k) + l - 1 \in 0..(Top - 1)
      <4>1. Begin(k) \in Nat /\ Size(k) \in Nat
        BY <1>2, <1>3, <3>2, SMT
      <4>. QED
        BY <1>3, <3>2, <4>1, SMT
    <3>4. Slot(k)' = Slot(k) /\ Size(k)' = Size(k) /\ Begin(k)' = Begin(k)
      BY <1>1, <1>12, <3>1 DEF Size, Begin
    <3>. QED
      BY <1>1, <1>10, <1>12, <2>1, <3>1, <3>2, <3>3, <3>4 DEF WholeAt
  <2>2. CASE k >= Top
    <3>1. k \in Top..(Top + n - 1) /\ ~(k < Top) /\ k \in Int
      BY <1>3, <2>2, SMT
    <3>2. /\ Slot(k)' = <<out, k - Top + 1>>
          /\ last'[TxDesc(k)] <=> k - Top + 1 = n
      BY <1>12, <3>1
    <3>3. Size(k)' = n /\ Begin(k)' = Top
      <4>1. Begin(k)' = k - (k - Top + 1) + 1
        BY <3>2 DEF Begin
      <4>. QED
        BY <1>1, <1>3, <3>1, <3>2, <4>1, SMT DEF Size, n
    <3>4. ASSUME NEW l \in 1..n
          PROVE  Slot(Top + l - 1)' = <<out, l>>
      <4>1. txslot'[DescOf(l)] = <<out, l>> /\ DescOf(l) = TxDesc(Top + l - 1)
        BY <1>4, <1>7
      <4>2. Slot(Top + l - 1)' = txslot'[TxDesc(Top + l - 1)]
        BY <1>1, <1>10 DEF Slot, TxDesc
      <4>. QED
        BY <4>1, <4>2
    <3>5. ASSUME NEW l \in 1..n
          PROVE  Slot(Begin(k) + l - 1)' = <<out, l>>
      <4>1. Slot(Begin(k) + l - 1)' = Slot(Top + l - 1)'
        BY <1>10, <3>3 DEF Slot, TxDesc
      <4>. QED
        BY <3>4, <4>1
    <3>6. Top >= txdone
      BY <1>2, <1>3, SMT
    <3>. QED
      BY <1>1, <1>10, <3>1, <3>2, <3>3, <3>5, <3>6 DEF WholeAt
  <2>. QED
    BY <1>3, <2>1, <2>2, SMT
<1>23. MacInv'
  <2>1. PICK m \in txdone..Top : MacAt(m)
    BY <1>2 DEF TxInv, RingInv, MacInv
  <2>2. m < Top => m \in 0..(Top - 1)
    BY <1>2, <1>3, SMT
  <2>3. \A k \in 0..(Top - 1) : Slot(k)' = Slot(k) /\ Size(k)' = Size(k)
    BY <1>1, <1>12 DEF Size
  <2>4. MacAt(m)'
    BY <1>1, <1>2, <1>10, <2>1, <2>2, <2>3 DEF MacAt
  <2>. QED
    BY <1>1, <1>10, <2>4 DEF MacInv
<1>. QED
  BY <1>16, <1>17, <1>18, <1>19, <1>20, <1>21, <1>22, <1>23 DEF TxInv, RingInv

\* The descriptors that the two loops at the end of emacps_sgsend clear.
LEMMA ClearedFacts ==
  ASSUME TxInv, at \in {"rest", "head"}, NEW ks \in SUBSET (1..parts[out]), Clear(ks)
  PROVE  /\ used' \in [TxDescs -> BOOLEAN]
         /\ \A c \in 0..(Top - 1) : used'[TxDesc(c)] <=> used[TxDesc(c)]
         /\ \A c \in Filled..(NTxDesc - 1) : used'[TxDesc(c)] <=> used[TxDesc(c)]
         /\ \A c \in Top..(Filled - 1) :
              used'[TxDesc(c)] <=> used[TxDesc(c)] /\ c - Top + 1 \notin ks
<1>. DEFINE n == parts[out]
            mine == {DescOf(k) : k \in ks}
<1>1. Filled = Top + n /\ Filled <= NTxDesc /\ Top \in Nat /\ NTxDesc \in Nat /\ n \in Nat
  <2>1. n \in 1..MaxParts /\ MaxParts \in Nat
    BY OutState, TxAssumption
  <2>. QED
    BY <2>1, Counts, SMT
<1>2. /\ \A k \in 1..n : DescOf(k) \in TxDescs
      /\ \A j, k \in 1..n : DescOf(j) = DescOf(k) => j = k
      /\ \A c \in Top..(Top + n - 1) : c - Top + 1 \in 1..n /\ DescOf(c - Top + 1) = TxDesc(c)
      /\ \A c \in 0..(Top - 1) : \A k \in 1..n : DescOf(k) # TxDesc(c)
      /\ \A c \in (Top + n)..(NTxDesc - 1) : \A k \in 1..n : DescOf(k) # TxDesc(c)
  <2>1. Top + n <= NTxDesc /\ at \in {"fill", "rest", "head"}
    BY <1>1
  <2>. QED
    BY <2>1, DescOfFacts
<1>3. used' = [i \in TxDescs |-> used[i] /\ i \notin mine]
  BY DEF Clear
<1>. HIDE DEF n
<1>4. ks \subseteq 1..n
  BY DEF n
<1>5. \A c \in 0..(NTxDesc - 1) : TxDesc(c) \in TxDescs
  <2>1. \A c \in 0..(NTxDesc - 1) : c \in 0..NTxDesc
    BY <1>1, SMT
  <2>. QED
    BY <2>1, DescFacts DEF TxInv, RingTypes
<1>6. \A c \in 0..(NTxDesc - 1) :
        used'[TxDesc(c)] <=> used[TxDesc(c)] /\ TxDesc(c) \notin mine
  BY <1>3, <1>5, Zenon
<1>7. /\ \A c \in 0..(Top - 1) : TxDesc(c) \notin mine /\ c \in 0..(NTxDesc - 1)
      /\ \A c \in (Top + n)..(NTxDesc - 1) : TxDesc(c) \notin mine /\ c \in 0..(NTxDesc - 1)
  <2>1. /\ \A c \in 0..(Top - 1) : c \in 0..(NTxDesc - 1)
        /\ \A c \in (Top + n)..(NTxDesc - 1) : c \in 0..(NTxDesc - 1)
    BY <1>1, SMT
  <2>. QED
    BY <1>2, <1>4, <2>1
<1>8. ASSUME NEW c \in Top..(Top + n - 1)
      PROVE  c \in 0..(NTxDesc - 1) /\ (TxDesc(c) \in mine <=> c - Top + 1 \in ks)
  <2>1. c \in 0..(NTxDesc - 1)
    BY <1>1, SMT
  <2>2. c - Top + 1 \in 1..n /\ DescOf(c - Top + 1) = TxDesc(c)
    BY <1>2
  <2>3. \A k \in ks : DescOf(k) = TxDesc(c) => k = c - Top + 1
    BY <1>2, <1>4, <2>2
  <2>. QED
    BY <2>1, <2>2, <2>3
<1>9. used' \in [TxDescs -> BOOLEAN]
  <2>1. \A i \in TxDescs : (used[i] /\ i \notin mine) \in BOOLEAN
    OBVIOUS
  <2>. QED
    BY <1>3, <2>1
<1>. HIDE DEF mine
<1>10. \A c \in 0..(Top - 1) : used'[TxDesc(c)] <=> used[TxDesc(c)]
  BY <1>6, <1>7, Zenon
<1>11. \A c \in (Top + n)..(NTxDesc - 1) : used'[TxDesc(c)] <=> used[TxDesc(c)]
  BY <1>6, <1>7, Zenon
<1>12. \A c \in Top..(Top + n - 1) :
         used'[TxDesc(c)] <=> used[TxDesc(c)] /\ c - Top + 1 \notin ks
  BY <1>6, <1>8, Zenon
<1>. QED
  BY <1>1, <1>9, <1>10, <1>11, <1>12

LEMMA ClearRestKeeps ==
  ASSUME TxInv, ClearRest
  PROVE  TxInv'
<1>1. /\ UNCHANGED <<own, arpq, parts, ref, txslot, last, txfirst, txdone, txhw, freed, mac, rd,
                     go, txirq, txisr, out>>
      /\ at = "rest" /\ at' = "head" /\ Clear(2..parts[out])
  BY DEF ClearRest, ClearedFirst, bufs, device
<1>2. /\ out \in Frames /\ out # None /\ out \in Ready
      /\ txisr = "no" /\ txdone = 0 /\ freed = 0
      /\ Filled = Top + parts[out] /\ Filled <= NTxDesc /\ Top \in Nat /\ Filled \in Nat
      /\ NTxDesc \in Nat /\ parts[out] \in Nat
  <2>1. parts[out] \in 1..MaxParts /\ MaxParts \in Nat
    BY <1>1, OutState, TxAssumption
  <2>. QED
    BY <1>1, <2>1, OutState, Counts, SMT
<1>3. /\ used' \in [TxDescs -> BOOLEAN]
      /\ \A c \in 0..(Top - 1) : used'[TxDesc(c)] <=> used[TxDesc(c)]
      /\ \A c \in Filled..(NTxDesc - 1) : used'[TxDesc(c)] <=> used[TxDesc(c)]
      /\ \A c \in Top..(Filled - 1) :
           used'[TxDesc(c)] <=> used[TxDesc(c)] /\ c - Top + 1 \notin 2..parts[out]
  <2>1. 2..parts[out] \in SUBSET (1..parts[out])
    BY <1>2, SMT
  <2>. QED
    BY <1>1, <2>1, ClearedFacts
<1>4. Top' = Top /\ \A k : TxDesc(k)' = TxDesc(k) /\ Slot(k)' = Slot(k)
  BY <1>1 DEF Top, TxDesc, Slot
<1>5. Filled' = Filled
  BY <1>1, Zenon DEF Filled
<1>6. RefInv'
  BY <1>1, SameRefs DEF TxInv
<1>7. RingTypes' /\ ControlTypes'
  BY <1>1, <1>3 DEF TxInv, RingTypes, ControlTypes
<1>8. Control' /\ Mine'
  BY <1>1, <1>2, <1>5 DEF TxInv, Control, Mine, Ready
<1>9. Emptied'
  <2>1. \A k \in 0..(NTxDesc - 1) :
          IF k < freed \/ k >= Filled THEN Slot(k) = NoPbuf /\ used[TxDesc(k)]
                                      ELSE Slot(k) # NoPbuf
    BY <1>2, Zenon DEF TxInv, RingInv, Emptied
  <2>2. ASSUME NEW k \in 0..(NTxDesc - 1), k >= Filled, used[TxDesc(k)]
        PROVE  used'[TxDesc(k)]
    <3>1. k \in Filled..(NTxDesc - 1)
      BY <1>2, <2>2, SMT
    <3>. QED
      BY <1>3, <2>2, <3>1
  <2>3. \A k \in 0..(NTxDesc - 1) : ~(k < freed)
    BY <1>2, SMT
  <2>. QED
    BY <1>1, <1>2, <1>4, <1>5, <2>1, <2>2, <2>3 DEF Emptied
<1>10. Whole'
  <2>. SUFFICES ASSUME NEW k \in txdone..(Filled - 1)
                PROVE  WholeAt(k)'
    BY <1>1, <1>5, Zenon DEF Whole
  <2>1. WholeAt(k)
    BY <1>2 DEF TxInv, RingInv, Whole
  <2>2. Size(k)' = Size(k) /\ Begin(k)' = Begin(k)
    BY <1>1, <1>4 DEF Size, Begin
  <2>. QED
    BY <1>1, <1>4, <2>1, <2>2 DEF WholeAt
<1>11. MacInv'
  <2>1. PICK m \in txdone..Top : MacAt(m)
    BY <1>2 DEF TxInv, RingInv, MacInv
  <2>2. Size(m)' = Size(m)
    BY <1>1, <1>4 DEF Size
  <2>3. \A k \in txdone..(Top - 1) : used'[TxDesc(k)] <=> used[TxDesc(k)]
    BY <1>2, <1>3
  <2>4. MacAt(m)'
    BY <1>1, <1>4, <2>1, <2>2, <2>3 DEF MacAt
  <2>. QED
    BY <1>1, <1>4, <2>4 DEF MacInv
<1>12. UsedNew'
  <2>1. ASSUME NEW k \in Top..(Filled - 1)
        PROVE  used'[TxDesc(k)] <=> k = Top
    <3>1. used[TxDesc(k)]
      BY <1>1 DEF TxInv, UsedNew
    <3>2. k - Top + 1 \notin 2..parts[out] <=> k = Top
      BY <1>2, SMT
    <3>. QED
      BY <1>3, <3>1, <3>2
  <2>. QED
    BY <1>1, <1>4, <1>5, <2>1, Zenon DEF UsedNew
<1>. QED
  BY <1>6, <1>7, <1>8, <1>9, <1>10, <1>11, <1>12 DEF TxInv, RingInv

LEMMA ClearHeadKeeps ==
  ASSUME TxInv, ClearHead
  PROVE  TxInv'
<1>1. /\ UNCHANGED <<own, arpq, parts, ref, txslot, last, txfirst, txdone, freed, mac, rd,
                     go, txirq, txisr, out>>
      /\ at = "head" /\ at' = "start" /\ Clear(1..parts[out] \ 2..parts[out])
      /\ txhw' = txhw + parts[out]
  BY DEF ClearHead, ClearedFirst, bufs, device
<1>2. /\ out \in Frames /\ out # None /\ out \in Ready
      /\ txisr = "no" /\ txdone = 0 /\ freed = 0
      /\ Filled = Top + parts[out] /\ Filled <= NTxDesc /\ Top \in Nat /\ Filled \in Nat
      /\ NTxDesc \in Nat /\ parts[out] \in Nat /\ parts[out] >= 1 /\ Top = txhw
  <2>1. parts[out] \in 1..MaxParts /\ MaxParts \in Nat
    BY <1>1, OutState, TxAssumption
  <2>. QED
    BY <1>1, <2>1, OutState, Counts, SMT
<1>3. /\ used' \in [TxDescs -> BOOLEAN]
      /\ \A c \in 0..(Top - 1) : used'[TxDesc(c)] <=> used[TxDesc(c)]
      /\ \A c \in Filled..(NTxDesc - 1) : used'[TxDesc(c)] <=> used[TxDesc(c)]
      /\ \A c \in Top..(Filled - 1) : ~used'[TxDesc(c)]
  <2>1. /\ used' \in [TxDescs -> BOOLEAN]
        /\ \A c \in 0..(Top - 1) : used'[TxDesc(c)] <=> used[TxDesc(c)]
        /\ \A c \in Filled..(NTxDesc - 1) : used'[TxDesc(c)] <=> used[TxDesc(c)]
        /\ \A c \in Top..(Filled - 1) :
             used'[TxDesc(c)] <=> /\ used[TxDesc(c)]
                                  /\ c - Top + 1 \notin 1..parts[out] \ 2..parts[out]
    <3>1. 1..parts[out] \ 2..parts[out] \in SUBSET (1..parts[out])
      OBVIOUS
    <3>. QED
      BY <1>1, <3>1, ClearedFacts
  <2>2. ASSUME NEW c \in Top..(Filled - 1)
        PROVE  ~used'[TxDesc(c)]
    <3>1. used[TxDesc(c)] <=> c = Top
      BY <1>1 DEF TxInv, UsedNew
    <3>2. c = Top => c - Top + 1 \in 1..parts[out] \ 2..parts[out]
      BY <1>2, SMT
    <3>. QED
      BY <2>1, <3>1, <3>2
  <2>. QED
    BY <2>1, <2>2
<1>4. \A k : TxDesc(k)' = TxDesc(k) /\ Slot(k)' = Slot(k)
  BY <1>1 DEF TxDesc, Slot
<1>5. Filled' = Filled /\ Top' = Filled
  <2>1. Filled' = txdone' + txhw' + 0
    BY <1>1, Zenon DEF Filled
  <2>2. txdone + txhw + parts[out] = Filled
    BY <1>2, SMT
  <2>3. Top' = txdone' + txhw' /\ txdone' = 0 /\ txhw' = Filled
    BY <1>1, <1>2 DEF Top
  <2>. QED
    BY <1>2, <2>1, <2>3
<1>6. RefInv'
  BY <1>1, SameRefs DEF TxInv
<1>7. RingTypes' /\ ControlTypes'
  <2>1. txhw' \in 0..NTxDesc /\ 0 + txhw' <= NTxDesc
    BY <1>1, <1>2, SMT
  <2>2. RingTypes'
    BY <1>1, <1>2, <1>3, <2>1 DEF TxInv, RingTypes
  <2>3. ControlTypes'
    BY <1>1 DEF TxInv, ControlTypes
  <2>. QED
    BY <2>2, <2>3
<1>8. Control' /\ Mine' /\ UsedNew'
  BY <1>1, <1>2, <1>5 DEF TxInv, Control, Mine, UsedNew, Ready
<1>9. Emptied'
  <2>1. \A k \in 0..(NTxDesc - 1) :
          IF k < freed \/ k >= Filled THEN Slot(k) = NoPbuf /\ used[TxDesc(k)]
                                      ELSE Slot(k) # NoPbuf
    BY <1>2, Zenon DEF TxInv, RingInv, Emptied
  <2>2. ASSUME NEW k \in 0..(NTxDesc - 1), k >= Filled, used[TxDesc(k)]
        PROVE  used'[TxDesc(k)]
    <3>1. k \in Filled..(NTxDesc - 1)
      BY <1>2, <2>2, SMT
    <3>. QED
      BY <1>3, <2>2, <3>1
  <2>3. \A k \in 0..(NTxDesc - 1) : ~(k < freed)
    BY <1>2, SMT
  <2>. QED
    BY <1>1, <1>2, <1>4, <1>5, <2>1, <2>2, <2>3 DEF Emptied
<1>10. \A k \in txdone..(Filled - 1) : Size(k)' = Size(k) /\ Begin(k)' = Begin(k)
  BY <1>1, <1>4 DEF Size, Begin
<1>11. Whole'
  <2>. SUFFICES ASSUME NEW k \in txdone..(Filled - 1)
                PROVE  WholeAt(k)'
    BY <1>1, <1>5, Zenon DEF Whole
  <2>1. WholeAt(k)
    BY <1>2 DEF TxInv, RingInv, Whole
  <2>2. Begin(k) + Size(k) <= Filled
    <3>1. CASE k < Top
      <4>1. Begin(k) + Size(k) <= Top /\ Begin(k) \in Int /\ Size(k) \in Int
        BY <1>2, <3>1, WholeFacts, TxAssumption, SMT
      <4>. QED
        BY <1>2, <4>1, SMT
    <3>2. CASE k >= Top
      <4>1. Slot(k)[1] = out /\ Begin(k) = Top
        BY <1>2, <3>2, WholeFacts
      <4>. QED
        BY <1>2, <4>1, SMT DEF Size
    <3>. QED
      BY <1>2, <3>1, <3>2, SMT
  <2>3. k < Filled
    BY <1>2, SMT
  <2>. QED
    BY <1>1, <1>4, <1>5, <1>10, <2>1, <2>2, <2>3 DEF WholeAt
<1>12. MacInv'
  <2>1. PICK m \in txdone..Top : MacAt(m)
    BY <1>2 DEF TxInv, RingInv, MacInv
  <2>2. m \in txdone..Filled /\ m \in Int
    BY <1>2, SMT
  <2>3. m < Filled => Slot(m)[2] = 1
    <3>1. CASE m < Top
      BY <2>1, <3>1 DEF MacAt
    <3>2. CASE m = Top
      <4>1. Top \in txdone..(Filled - 1) /\ Top >= Top
        BY <1>2, SMT
      <4>2. Begin(Top) = Top /\ Slot(Top)[2] \in 1..Size(Top) /\ Size(Top) \in 1..MaxParts
        BY <1>2, <4>1, WholeFacts
      <4>3. Top - Slot(Top)[2] + 1 = Top
        BY <4>2 DEF Begin
      <4>. QED
        BY <1>2, <3>2, <4>2, <4>3, TxAssumption, SMT
    <3>. QED
      BY <1>2, <3>1, <3>2, SMT
  <2>4. ASSUME NEW k \in txdone..(Filled - 1)
        PROVE  /\ k < m /\ Slot(k)[2] = 1 => used'[TxDesc(k)]
               /\ k >= m => ~used'[TxDesc(k)]
    <3>1. CASE k < Top
      <4>1. k \in txdone..(Top - 1) /\ k \in 0..(Top - 1)
        BY <1>2, <3>1, SMT
      <4>2. /\ k < m /\ Slot(k)[2] = 1 => used[TxDesc(k)]
            /\ k >= m => ~used[TxDesc(k)]
        BY <2>1, <4>1 DEF MacAt
      <4>. QED
        BY <1>3, <4>1, <4>2
    <3>2. CASE k >= Top
      <4>1. k \in Top..(Filled - 1) /\ ~(k < m)
        BY <1>2, <3>2, SMT
      <4>. QED
        BY <1>3, <4>1
    <3>. QED
      BY <1>2, <3>1, <3>2, SMT
  <2>5. rd > 0 => m < Filled /\ rd = Size(m)
    <3>1. rd > 0 => m < Top /\ rd = Size(m)
      BY <2>1 DEF MacAt
    <3>2. m < Top => m < Filled
      BY <1>2, SMT
    <3>. QED
      BY <3>1, <3>2
  <2>6. Size(m)' = Size(m)
    BY <1>1, <1>4 DEF Size
  <2>7. mac = TxDesc(m)
    BY <2>1 DEF MacAt
  <2>8. MacAt(m)'
    <3>1. \A k \in txdone'..(Top' - 1) :
            /\ k < m /\ Slot(k)'[2] = 1 => used'[TxDesc(k)']
            /\ k >= m => ~used'[TxDesc(k)']
      BY <1>1, <1>4, <1>5, <2>4, Zenon
    <3>2. m < Top' => Slot(m)'[2] = 1
      BY <1>4, <1>5, <2>3, Zenon
    <3>3. rd' > 0 => m < Top' /\ rd' = Size(m)'
      BY <1>1, <1>5, <2>5, <2>6, Zenon
    <3>4. mac' = TxDesc(m)'
      BY <1>1, <1>4, <2>7, Zenon
    <3>. QED
      BY <3>1, <3>2, <3>3, <3>4, Zenon DEF MacAt
  <2>. QED
    BY <1>1, <1>5, <2>2, <2>8, Zenon DEF MacInv
<1>. QED
  BY <1>6, <1>7, <1>8, <1>9, <1>11, <1>12 DEF TxInv, RingInv

-----------------------------------------------------------------------------
(* The theorems about sending.                                             *)

\* After init_dma nothing is in the ring and nothing is referred to.
LEMMA TxInitInv ==
  ASSUME TxInit
  PROVE  TxInv
<1>1. /\ own = [f \in Frames |-> "none"] /\ arpq = { } /\ parts = [f \in Frames |-> 1]
      /\ ref = [p \in Pbufs |-> 0] /\ txslot = [i \in TxDescs |-> NoPbuf]
      /\ used = [i \in TxDescs |-> TRUE] /\ last = [i \in TxDescs |-> FALSE]
      /\ txfirst = 0 /\ txdone = 0 /\ txhw = 0 /\ freed = 0 /\ mac = 0 /\ rd = 0
      /\ go = FALSE /\ txirq = FALSE /\ txisr = "no" /\ out = None /\ at = "off"
  BY DEF TxInit
<1>2. NTxDesc \in Nat \ {0} /\ MaxParts \in Nat \ {0} /\ 0 \in TxDescs /\ None \notin Frames
  BY TxAssumption, SMT DEF TxDescs
<1>3. Filled = 0 /\ Top = 0
  <2>1. Filled = txdone + txhw + 0
    BY <1>1, Zenon DEF Filled
  <2>. QED
    BY <1>1, <2>1 DEF Top
<1>4. RefInv
  <2>1. BufTypes
    BY <1>1, <1>2 DEF BufTypes
  <2>2. \A p \in Pbufs : ~InSlot(p)
    <3>1. NoPbuf \notin Pbufs
      BY <1>2 DEF NoPbuf, Pbufs
    <3>. QED
      BY <1>1, <3>1 DEF InSlot
  <2>3. \A f \in Frames : \A k \in 1..parts[f] : <<f, k>> \in Pbufs /\ k = 1
    BY <1>1, <1>2, SMT DEF Pbufs
  <2>4. \A f \in Frames : \A k \in 1..parts[f] : Claims[<<f, k>>] = 0 /\ ref[<<f, k>>] = 0
    <3>. SUFFICES ASSUME NEW f \in Frames, NEW k \in 1..parts[f]
                  PROVE  Claims[<<f, k>>] = 0 /\ ref[<<f, k>>] = 0
      OBVIOUS
    <3>1. <<f, k>> \in Pbufs /\ ~InSlot(<<f, k>>) /\ Held(<<f, k>>[1]) = 0
      BY <1>1, <2>2, <2>3, SMT DEF Held
    <3>. QED
      BY <1>1, <3>1 DEF Claims
  <2>5. Balanced(ref, Claims)
    <3>. SUFFICES ASSUME NEW f \in Frames, NEW k \in 1..parts[f]
                  PROVE  ref[<<f, k>>] = Claims[<<f, k>>]
                           + (IF k > 1 /\ ref[<<f, k - 1>>] > 0 THEN 1 ELSE 0)
      BY DEF Balanced
    <3>1. k = 1
      BY <2>3
    <3>2. ~(k > 1)
      BY <3>1, SMT
    <3>3. Claims[<<f, k>>] = 0 /\ ref[<<f, k>>] = 0
      BY <2>4
    <3>. QED
      BY <3>2, <3>3, SMT
  <2>6. SlotsValid /\ SlotsOnce /\ Linked
    <3>1. \A f \in Frames : Held(f) = 0
      BY <1>1, SMT DEF Held
    <3>2. Linked
      BY <3>1, SMT DEF Linked
    <3>. QED
      BY <1>1, <3>2 DEF SlotsValid, SlotsOnce
  <2>7. NoSpare
    BY <1>1 DEF NoSpare, Pbufs
  <2>. QED
    BY <2>1, <2>5, <2>6, <2>7 DEF RefInv
<1>5. RingTypes /\ ControlTypes /\ Control
  <2>1. RingTypes
    BY <1>1, <1>2 DEF RingTypes
  <2>2. ControlTypes
    BY <1>1 DEF ControlTypes
  <2>3. Control
    BY <1>1, <1>2, <1>3 DEF Control
  <2>. QED
    BY <2>1, <2>2, <2>3
<1>6. Emptied
  <2>1. ASSUME NEW k \in 0..(NTxDesc - 1)
        PROVE  k >= Filled /\ Slot(k) = NoPbuf /\ used[TxDesc(k)]
    <3>1. k \in 0..NTxDesc /\ k >= 0
      BY <1>2, SMT
    <3>2. TxDesc(k) \in TxDescs
      BY <1>1, <1>2, <3>1, DescFacts
    <3>. QED
      BY <1>1, <1>3, <3>1, <3>2 DEF Slot
  <2>2. txisr # "error" /\ ~(txdone > 0)
    BY <1>1, SMT
  <2>. QED
    BY <2>1, <2>2, Zenon DEF Emptied
<1>7. Whole
  <2>1. \A k \in txdone..(Filled - 1) : FALSE
    BY <1>1, <1>3, SMT
  <2>. QED
    BY <2>1 DEF Whole
<1>8. MacInv
  <2>1. TxDesc(0) = 0
    BY <1>1, <1>2, SMT DEF TxDesc
  <2>2. \A k \in txdone..(Top - 1) : FALSE
    BY <1>1, <1>3, SMT
  <2>3. MacAt(0)
    BY <1>1, <1>3, <2>1, <2>2 DEF MacAt
  <2>. QED
    BY <1>1, <1>3, <2>3 DEF MacInv
<1>9. UsedNew /\ Mine
  BY <1>1 DEF UsedNew, Mine, Ready
<1>. QED
  BY <1>4, <1>5, <1>6, <1>7, <1>8, <1>9 DEF TxInv, RingInv

LEMMA TxStutterKeeps ==
  ASSUME TxInv, UNCHANGED txvars
  PROVE  TxInv'
<1>1. UNCHANGED <<own, arpq, parts, ref, txslot, used, last, txfirst, txdone, txhw, freed,
                  mac, rd, go, txirq, txisr, out, at>>
  BY DEF txvars, bufs, txring, device
<1>2. Filled' = Filled
  BY <1>1 DEF Filled
<1>3. RingInv'
  <2>1. UNCHANGED <<txring, mac, rd>> /\ txisr' = txisr /\ out' = out /\ parts' = parts
    BY <1>1 DEF txring
  <2>. QED
    BY <1>2, <2>1, RingKept
<1>4. RefInv'
  BY <1>1, SameRefs DEF TxInv
<1>5. RingTypes' /\ ControlTypes'
  BY <1>1 DEF TxInv, RingTypes, ControlTypes
<1>6. Control' /\ UsedNew' /\ Mine'
  BY <1>1, <1>2 DEF TxInv, Control, UsedNew, Mine, TakingBack, Top, TxDesc, Ready
<1>. QED
  BY <1>3, <1>4, <1>5, <1>6 DEF TxInv

LEMMA TxNextInv ==
  ASSUME TxInv, [TxNext]_txvars
  PROVE  TxInv'
<1>1. CASE Mac
  BY <1>1, MacReadKeeps, MacSentKeeps, HaltKeeps DEF Mac
<1>2. CASE FromHw
  BY <1>2, FromHwKeeps
<1>3. CASE FreeSent
  BY <1>3, FreeSentKeeps, FreeLastKeeps
<1>4. CASE TxInterrupt
  BY <1>2, <1>3, <1>4, SendIntrKeeps, IntrReturnKeeps, GiveUpKeeps DEF TxInterrupt
<1>5. CASE Output
  BY <1>2, <1>3, <1>5, OutTakenBackKeeps, NoSpaceKeeps, SgSendKeeps, ClearRestKeeps,
     ClearHeadKeeps, StartTxKeeps DEF Output, OutTakeBack
<1>6. CASE TxError
  BY <1>6, TxErrorKeeps
<1>7. CASE Retransmit
  BY <1>7, RetransmitKeeps
<1>8. ASSUME NEW f \in Frames,
             Allocate(f) \/ Enter(f) \/ FreeSegment(f) \/ Queue(f) \/ Dequeue(f)
      PROVE  TxInv'
  BY <1>8, AllocateKeeps, EnterKeeps, FreeSegmentKeeps, QueueKeeps, DequeueKeeps
<1>9. CASE UNCHANGED txvars
  BY <1>9, TxStutterKeeps
<1>. QED
  BY <1>1, <1>4, <1>5, <1>6, <1>7, <1>8, <1>9 DEF TxNext

\* The invariant on which the other theorems about sending rest.
THEOREM TxInductive == TxSpec => []TxInv
BY TxInitInv, TxNextInv, PTL DEF TxSpec

\* Indices and counts stay in the ring, no buffer is referred to more than
\* three times, and a frame is in low_level_output just while that runs.
THEOREM TxTypeCorrect == TxSpec => []TxTypeOK
<1>1. TxInv => TxTypeOK
  <2>. SUFFICES ASSUME TxInv
                PROVE  TxTypeOK
    OBVIOUS
  <2>1. ref \in [Pbufs -> 0..3]
    BY RefRange DEF TxInv
  <2>2. (at = "off") = (out = None)
    BY Zenon DEF TxInv, ControlTypes
  <2>. QED
    BY <2>1, <2>2 DEF TxInv, RefInv, BufTypes, RingTypes, ControlTypes, TxTypeOK
<1>. QED
  BY <1>1, TxInductive, PTL

\* A free descriptor refers to no buffer, so that emacps_sgsend never stops
\* half-way, and one in use does until process_sent_bds has freed it.
THEOREM FreeSlots == TxSpec => []FreeSlotsEmpty
<1>1. TxInv => FreeSlotsEmpty
  <2>. SUFFICES ASSUME TxInv, NEW k \in 0..(NTxDesc - 1)
                PROVE  /\ k >= Filled => Slot(k) = NoPbuf
                       /\ txisr # "error" => ((Slot(k) = NoPbuf) = (k < freed \/ k >= Filled))
    BY DEF FreeSlotsEmpty, Slot
  <2>1. CASE txisr = "error"
    <3>1. Filled = txhw /\ txhw \in Nat /\ NTxDesc \in Nat
      <4>1. out = None /\ at = "off" /\ txdone = 0
        BY <2>1 DEF TxInv, Control, ControlTypes
      <4>. QED
        BY <4>1, Counts, SMT
    <3>2. k >= Filled => k \in txhw..(NTxDesc - 1)
      BY <3>1, SMT
    <3>. QED
      BY <2>1, <3>2, Zenon DEF TxInv, RingInv, Emptied
  <2>2. CASE txisr # "error"
    <3>1. IF k < freed \/ k >= Filled THEN Slot(k) = NoPbuf /\ used[TxDesc(k)]
                                      ELSE Slot(k) # NoPbuf
      BY <2>2, Zenon DEF TxInv, RingInv, Emptied
    <3>2. (Slot(k) = NoPbuf) <=> (k < freed \/ k >= Filled)
      BY <3>1, Zenon
    <3>. QED
      BY <3>1, <3>2, Zenon
  <2>. QED
    BY <2>1, <2>2
<1>. QED
  BY <1>1, TxInductive, PTL

\* A buffer has as many references as there are places that refer to it
\* (pbuf_ref in emacps_sgsend, pbuf_free in process_sent_bds, in the handlers
\* of errors and by its owner), whatever the interleaving.
THEOREM ReferencesCounted == TxSpec => []RefCounts
<1>1. TxInv => RefCounts
  BY CountOnce DEF TxInv
<1>. QED
  BY <1>1, TxInductive, PTL

\* What the MAC finds to send is a whole frame, with all USED bits cleared
\* (the order of the loops in emacps_sgsend).
THEOREM FramesWhole == TxSpec => []FrameWhole
<1>1. TxInv => FrameWhole
  <2>. SUFFICES ASSUME TxInv, txisr # "error", ~used[mac]
                PROVE  \E f \in Frames :
                         /\ FrameLength = parts[f]
                         /\ \A k \in 1..parts[f] :
                              /\ txslot[(mac + k - 1) % NTxDesc] = <<f, k>>
                              /\ ~used[(mac + k - 1) % NTxDesc]
    BY DEF FrameWhole
  <2>1. PICK m \in txdone..Top : MacAt(m)
    BY DEF TxInv, RingInv, MacInv
  <2>2. /\ m < Top /\ m \in txdone..(Filled - 1) /\ Slot(m)[2] = 1
        /\ FrameLength = Size(m)
        /\ \A l \in 1..Size(m) : (mac + l - 1) % NTxDesc = TxDesc(m + l - 1)
    BY <2>1, MacReads
  <2>3. /\ Slot(m)[1] \in Frames /\ Size(m) \in 1..MaxParts
        /\ m + Size(m) <= Top
        /\ \A l \in 1..Size(m) :
             /\ m + l - 1 \in m..(m + Size(m) - 1)
             /\ Slot(m + l - 1) = <<Slot(m)[1], l>>
    BY <2>2, AtBegin
  <2>4. ASSUME NEW l \in 1..Size(m)
        PROVE  ~used[TxDesc(m + l - 1)]
    <3>1. /\ m \in Int /\ Top \in Int /\ Size(m) \in Int /\ txdone \in Int /\ txdone <= m
          /\ m + l - 1 \in m..(m + Size(m) - 1)
      BY <2>3, Counts, TxAssumption, SMT
    <3>2. m + l - 1 \in txdone..(Top - 1) /\ m + l - 1 >= m
      BY <2>3, <3>1, SMT
    <3>. QED
      BY <2>1, <3>2 DEF MacAt
  <2>. QED
    BY <2>2, <2>3, <2>4 DEF Slot, Size
<1>. QED
  BY <1>1, TxInductive, PTL

\* A segment that waits to be sent is not in the ring, so that nobody writes
\* to what the MAC reads (tcp_output_segment_busy in tcp_rexmit and
\* tcp_rexmit_rto_prepare).
THEOREM UnsentKept == TxSpec => []UnsentNotInDriver
<1>1. TxInv => UnsentNotInDriver
  <2>. SUFFICES ASSUME TxInv, NEW f \in Frames, own[f] = "unsent", out # f
                PROVE  ~Busy(f) /\ \A i \in TxDescs : txslot[i][1] # f
    BY DEF UnsentNotInDriver
  <2>1. f \notin arpq /\ \A i \in TxDescs : txslot[i][1] # f
    BY DEF TxInv, Mine, Ready
  <2>2. ~InSlot(<<f, 1>>)
    BY <2>1 DEF InSlot
  <2>3. /\ <<f, 1>> \in Pbufs /\ <<f, 1>>[1] = f /\ <<f, 1>>[2] = 1
        /\ ref[<<f, 1>>] = Claims[<<f, 1>>] + (IF 1 > 1 /\ ref[<<f, 1 - 1>>] > 0 THEN 1 ELSE 0)
    BY ClaimFacts DEF TxInv
  <2>4. Claims[<<f, 1>>] = 1
    <3>1. Held(f) = 1
      BY <2>1, SMT DEF Held
    <3>. QED
      BY <2>2, <2>3, <3>1 DEF Claims
  <2>5. ref[<<f, 1>>] = 1
    BY <2>3, <2>4, SMT
  <2>. QED
    BY <2>1, <2>5 DEF Busy
<1>. QED
  BY <1>1, TxInductive, PTL

=============================================================================
