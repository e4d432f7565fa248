----------------------------- MODULE BootProofs -----------------------------
(***************************************************************************)
(* Proofs about the DHCP client and the threads that run it: about module  *)
(* Boot, for every set of leases and number of polls, and, in the second   *)
(* half, about module DhcpTimers, for every set of leases and width of the *)
(* counters.                                                               *)
(*                                                                         *)
(* Boot: both safety properties speak of moments at which nobody writes,   *)
(* so the inductive invariant says what holds in the middle of a write:    *)
(* who may be writing, and what the settings written so far are.           *)
(*                                                                         *)
(* DhcpTimers: what the threads have yet to do is a sequence of steps of   *)
(* any length, so the invariants speak of the steps that a thread has, has *)
(* only, or has in a certain order.                                        *)
(***************************************************************************)
EXTENDS Boot, DhcpTimers, SequenceTheorems, TLAPS

\* Unless writes were mixed, there is one writer at most, and the settings it
\* is done with have its value.  A lease that it writes still has its address.
OneWriter ==
  ~overlap =>
    \A t \in Thread : at[t] # 0 =>
      /\ \A u \in Thread : at[u] # 0 => u = t
      /\ \A j \in 1 .. 3 : j < at[t] => netif[Order(t)[j]] = val[t]
      /\ Binds(t) => ~remove /\ offered = val[t]

\* The calls that lead to a release.
Releases == {"release", "releasing"}

\* While main_thread polls, only tcpip_thread writes settings, and no
\* thread is about to release the address.
OnlyTcpipWrites ==
  ~Late =>
    /\ \A t \in Thread \ {"tcpip"} : at[t] = 0
    /\ \A t \in Client : call[t] \notin Releases

\* What each thread writes, and what dhcp_bind has in hand: the mask and the
\* gateway that go with the address, unless one of them was cleared.
OfferInHand ==
  /\ \A t \in Thread : val[t] = "default" => t = "main"
  /\ \A t \in Thread : Binds(t) =>
       t = "tcpip" /\ (at["tcpip"] # 0 \/ call["tcpip"] = "set address")
  /\ call["tcpip"] = "bind" /\ "none" \notin {offered, options} =>
       options = offered
  /\ call["tcpip"] = "set address" =>
       /\ at["tcpip"] = 0 /\ Binds("tcpip")
       /\ offered # "none" /\ val["tcpip"] # "made up" => val["tcpip"] = offered
  /\ at["tcpip"] # 0 /\ Binds("tcpip") /\ remove => offered = "none"

\* tcpip_thread in the middle of a lease has written the mask, then the
\* gateway; in the middle of a removal it has removed the address.
TcpipInOrder ==
  ~Late /\ at["tcpip"] # 0 =>
    LET last == Binds("tcpip") /\ ~remove IN
    /\ last /\ at["tcpip"] >= 2 => netif["mask"] # "none"
    /\ last /\ at["tcpip"] = 3 => netif["gw"] # "none"
    /\ ~last /\ at["tcpip"] >= 2 => netif["ip"] = "none"

IInv ==
  /\ TypeOK
  /\ OneWriter
  /\ SettingsAgree
  /\ OnlyTcpipWrites
  /\ OfferInHand
  /\ TcpipInOrder
  /\ CompleteOnSuccess

\* No source of a lease's settings is one of the others.
LEMMA Sources ==
  /\ "none" \notin Lease /\ "default" \notin Lease /\ "made up" \notin Lease
  /\ "none" \in Source /\ "default" \in Source /\ "made up" \in Source
  /\ Source = {"none", "default", "made up"} \union Lease
BY LeaseAssumption DEF Source

\* The threads.
LEMMA Names ==
  /\ Client \subseteq Thread /\ "main" \in Thread /\ "main" \notin Client
  /\ "net" \in Client /\ "tcpip" \in Client /\ "link" \in Client
BY DEF Client, Thread

\* The functions.
LEMMA CallNames ==
  /\ "idle" \in Call /\ "discover" \in Call /\ "discovering" \in Call
  /\ "select" \in Call /\ "renew" \in Call /\ "rebind" \in Call
  /\ "reboot" \in Call /\ "release" \in Call /\ "releasing" \in Call
  /\ "off" \in Call /\ "start" \in Call /\ "starting" \in Call
  /\ "offer" \in Call /\ "ack" \in Call /\ "bind" \in Call
  /\ "set address" \in Call /\ "nak" \in Call
BY DEF Call

\* A step that goes on with a function keeps the types.
LEMMA TypeKept ==
  ASSUME TypeOK, NEW t \in Client, NEW f \in Call,
         call' = [call EXCEPT ![t] = f],
         dhcp' \in DhcpState, link' \in BOOLEAN,
         UNCHANGED <<netif, threads, leaseTimer, offer, writers>>
  PROVE  TypeOK'
<1>1. call' \in [Client -> Call]
  BY DEF TypeOK
<1>2. UNCHANGED <<netif, done, main, polls, net, fallback, leaseTimer, offered,
                  options, at, val, remove, overlap>>
  BY Zenon DEF threads, offer, writers
<1>3. QED
  BY <1>1, <1>2 DEF TypeOK

\* The lease that dhcp_bind has in hand stays what it is, or is cleared.
LEMMA HandKept ==
  ASSUME OfferInHand, UNCHANGED <<at, val, remove>>,
         offered' \in {offered, "none"}, options' \in {options, "none"},
         \/ call'["tcpip"] = call["tcpip"]
         \/ /\ call["tcpip"] # "set address"
            /\ call'["tcpip"] \notin {"bind", "set address"}
  PROVE  OfferInHand'
BY DEF OfferInHand, Binds

\* What a step that writes no setting, and begins no write, needs to show.
LEMMA NoWrite ==
  ASSUME IInv, TypeOK', OfferInHand', UNCHANGED <<netif, at, val, remove>>,
         \/ UNCHANGED overlap /\ (at["tcpip"] = 0 \/ UNCHANGED offered)
         \/ ClearOffered,
         ~Late' => ~Late,
         \A t \in Client : ~Late' /\ call'[t] \in Releases =>
                             call[t] \in Releases
  PROVE  IInv'
<1>1. OneWriter'
  <2> SUFFICES ASSUME ~overlap', NEW t \in Thread, at[t] # 0
               PROVE  /\ \A u \in Thread : at[u] # 0 => u = t
                      /\ \A j \in 1 .. 3 : j < at[t] => netif[Order(t)[j]] = val[t]
                      /\ Binds(t) => ~remove /\ offered' = val[t]
    BY DEF OneWriter, Order, Binds
  <2>1. ~overlap
    BY DEF ClearOffered
  <2>2. Binds(t) => t = "tcpip"
    BY DEF IInv, OfferInHand
  <2>3. Binds(t) => offered' = offered
    BY <2>2 DEF ClearOffered
  <2>4. QED
    BY <2>1, <2>3 DEF IInv, OneWriter
<1>2. SettingsAgree'
  BY DEF IInv, SettingsAgree, Quiet, ClearOffered
<1>3. OnlyTcpipWrites' /\ TcpipInOrder' /\ CompleteOnSuccess'
  BY DEF IInv, OnlyTcpipWrites, TcpipInOrder, CompleteOnSuccess, Binds
<1>4. QED
  BY <1>1, <1>2, <1>3 DEF IInv

\* The variables a write begins with keep their types.
LEMMA BeginType ==
  ASSUME TypeOK, NEW t \in Thread, NEW v \in Source, Begin(t, v)
  PROVE  /\ at' \in [Thread -> 0 .. 3]
         /\ val' \in [Thread -> Source]
         /\ overlap' \in BOOLEAN
         /\ remove' \in BOOLEAN
<1>1. /\ at' \in [Thread -> 0 .. 3] /\ val' \in [Thread -> Source]
      /\ remove' \in BOOLEAN
  BY DEF TypeOK, Begin
<1>2. overlap' \in BOOLEAN
  BY Zenon DEF Begin
<1>3. QED
  BY <1>1, <1>2

\* What a step that begins to write something else than a lease needs to show.
LEMMA BeginWrite ==
  ASSUME IInv, TypeOK', UNCHANGED <<netif, offered>>,
         options' \in {options, "none"},
         NEW t \in Thread, NEW v \in {"none", "default"}, Begin(t, v),
         at[t] = 0, v = "default" => t = "main",
         IF t = "tcpip" THEN {call["tcpip"], call'["tcpip"]}
                               \intersect {"bind", "set address"} = {}
                        ELSE call'["tcpip"] = call["tcpip"],
         ~Late' => ~Late /\ t = "tcpip",
         \A u \in Client : ~Late' /\ call'[u] \in Releases =>
                             call[u] \in Releases
  PROVE  IInv'
<1>1. /\ at' = [at EXCEPT ![t] = 1] /\ at \in [Thread -> 0 .. 3]
      /\ val' = [val EXCEPT ![t] = v] /\ val \in [Thread -> Source]
      /\ UNCHANGED remove
  BY DEF Begin, IInv, TypeOK
<1>2. /\ \A u \in Thread : Binds(u)' => u # t /\ Binds(u)
      /\ \A u \in Thread : u # t => at'[u] = at[u] /\ val'[u] = val[u]
      /\ at'[t] = 1 /\ val'[t] = v
  BY <1>1, Sources DEF Binds
<1>3. OneWriter'
  <2> SUFFICES ASSUME ~overlap', NEW u \in Thread, at'[u] # 0
               PROVE  /\ \A w \in Thread : at'[w] # 0 => w = u
                      /\ \A j \in 1 .. 3 : ~(j < at'[u])
                      /\ ~Binds(u)'
    BY DEF OneWriter
  <2>1. \A w \in Thread : at[w] = 0
    BY DEF Begin
  <2>2. u = t
    BY <1>2, <2>1
  <2>3. QED
    BY <1>2, <2>1, <2>2
<1>4. SettingsAgree'
  BY <1>2 DEF SettingsAgree, Quiet
<1>5. OnlyTcpipWrites'
  BY <1>2 DEF IInv, OnlyTcpipWrites
<1>6. OfferInHand'
  <2>1. \A u \in Thread : val'[u] = "default" => u = "main"
    BY <1>2 DEF IInv, OfferInHand
  <2>2. \A u \in Thread : Binds(u)' =>
           u = "tcpip" /\ (at'["tcpip"] # 0 \/ call'["tcpip"] = "set address")
    BY <1>2 DEF IInv, OfferInHand
  <2>3. call'["tcpip"] = "bind" /\ "none" \notin {offered', options'} =>
          options' = offered'
    BY DEF IInv, OfferInHand
  <2>4. CASE t = "tcpip"
    <3>1. call'["tcpip"] # "set address" /\ ~Binds("tcpip")'
      BY <1>2, <2>4
    <3>2. QED
      BY <2>1, <2>2, <2>3, <3>1 DEF OfferInHand
  <2>5. CASE t # "tcpip"
    <3>1. /\ at'["tcpip"] = at["tcpip"] /\ val'["tcpip"] = val["tcpip"]
          /\ call'["tcpip"] = call["tcpip"]
      BY <1>2, <2>5, Names
    <3>2. Binds("tcpip")' = Binds("tcpip")
      BY <3>1 DEF Binds
    <3>3. QED
      BY <1>1, <2>1, <2>2, <2>3, <3>1, <3>2 DEF IInv, OfferInHand
  <2>6. QED
    BY <2>4, <2>5
<1>7. TcpipInOrder'
  BY <1>2 DEF TcpipInOrder
<1>8. CompleteOnSuccess'
  BY DEF IInv, CompleteOnSuccess
<1>9. QED
  BY <1>3, <1>4, <1>5, <1>6, <1>7, <1>8 DEF IInv

\* The order of the settings, case by case.
LEMMA OrderValue ==
  ASSUME NEW t \in Thread
  PROVE  /\ Binds(t) /\ ~remove => Order(t) = <<"mask", "gw", "ip">>
         /\ ~(Binds(t) /\ ~remove) => Order(t) = <<"ip", "mask", "gw">>
         /\ \A j \in 1 .. 3 : Order(t)[j] \in Setting
BY DEF Order, AddressFirst, AddressLast, Setting

\* A setting is written.
LEMMA WritePreserves ==
  ASSUME IInv, NEW t \in Thread, WriteSetting(t)
  PROVE  IInv'
<1> DEFINE s == Order(t)[at[t]]
<1>1. at[t] \in 1 .. 3 /\ at[t] # 0 /\ val[t] \in Source /\ s \in Setting
  BY OrderValue DEF IInv, TypeOK, WriteSetting
<1>2. /\ netif' = [netif EXCEPT ![s] = From(t, s)]
      /\ netif \in [Setting -> Source] /\ From(t, s) \in Source
  BY <1>1, Sources DEF WriteSetting, IInv, TypeOK, From
<1>3. /\ at' = [at EXCEPT ![t] = IF at[t] = 3 THEN 0 ELSE at[t] + 1]
      /\ val' = [val EXCEPT ![t] = IF at[t] = 3 THEN "none" ELSE val[t]]
      /\ at \in [Thread -> 0 .. 3] /\ val \in [Thread -> Source]
      /\ remove' = IF at[t] = 3 THEN remove /\ ~Binds(t) ELSE remove
      /\ remove \in BOOLEAN
      /\ UNCHANGED <<overlap, main, call, offered, options>>
  BY DEF WriteSetting, Steps, IInv, TypeOK, threads, client, offer
<1>4. TypeOK'
  <2>1. remove' \in BOOLEAN
    BY <1>3 DEF IInv, TypeOK
  <2>2. at' \in [Thread -> 0 .. 3] /\ val' \in [Thread -> Source]
    <3>1. at' \in [Thread -> 0 .. 3]
      BY <1>1, <1>3
    <3>2. "none" \in Source /\ val[t] \in Source
      BY <1>1, Sources
    <3>3. val' \in [Thread -> Source]
      BY <1>3, <3>2
    <3>4. QED
      BY <3>1, <3>3
  <2>3. netif' \in [Setting -> Source]
    BY <1>1, <1>2
  <2>4. QED
    BY <2>1, <2>2, <2>3 DEF WriteSetting, IInv, TypeOK, threads, client, offer
<1>5. /\ \A u \in Thread : u # t => at'[u] = at[u] /\ val'[u] = val[u]
      /\ at[t] # 3 => at'[t] = at[t] + 1 /\ val'[t] = val[t]
      /\ at[t] = 3 => at'[t] = 0 /\ val'[t] = "none"
  BY <1>1, <1>3
<1>6. OneWriter'
  <2> SUFFICES ASSUME ~overlap, NEW u \in Thread, at'[u] # 0
               PROVE  /\ \A w \in Thread : at'[w] # 0 => w = u
                      /\ \A j \in 1 .. 3 : j < at'[u] =>
                           netif'[Order(u)'[j]] = val'[u]
                      /\ Binds(u)' => ~remove' /\ offered' = val'[u]
    BY <1>3 DEF OneWriter
  <2>1. u = t /\ at[t] # 3 /\ \A w \in Thread : at[w] # 0 => w = t
    BY <1>1, <1>3 DEF IInv, OneWriter
  <2>2. \A w \in Thread : at'[w] # 0 => w = u
    BY <1>3, <2>1
  <2>3. Binds(t) => ~remove /\ offered = val[t]
    BY <1>1, <2>1 DEF IInv, OneWriter
  <2>4. Binds(t)' = Binds(t) /\ Order(t)' = Order(t) /\ remove' = remove
    <3>1. val'[t] = val[t]
      BY <1>5, <2>1
    <3>2. Binds(t)' = Binds(t) /\ remove' = remove
      BY <1>3, <2>1, <3>1 DEF Binds
    <3>3. QED
      BY <3>2 DEF Order, AddressFirst, AddressLast
  <2>5. ASSUME NEW j \in 1 .. 3, j < at'[t]
        PROVE  netif'[Order(t)[j]] = val[t]
    <3>1. From(t, s) = val[t]
      BY <2>3 DEF From
    <3>2. CASE j = at[t]
      BY <1>1, <1>2, <3>1, <3>2
    <3>3. CASE j # at[t]
      <4>1. j < at[t]
        BY <1>1, <1>3, <2>1, <2>5, <3>3
      <4>2. netif[Order(t)[j]] = val[t]
        BY <1>1, <4>1 DEF IInv, OneWriter
      <4>3. QED
        BY <1>1, <1>2, <3>1, <4>2, OrderValue
    <3>4. QED
      BY <3>2, <3>3
  <2>6. QED
    BY <1>3, <1>5, <2>1, <2>2, <2>3, <2>4, <2>5
<1>7. SettingsAgree'
  <2> SUFFICES ASSUME ~overlap, \A u \in Thread : at'[u] = 0
               PROVE  netif'["mask"] = netif'["ip"] /\ netif'["gw"] = netif'["ip"]
    BY <1>3 DEF SettingsAgree, Quiet
  <2>1. at[t] = 3
    BY <1>1, <1>3
  <2>2. /\ netif[Order(t)[1]] = val[t]
        /\ netif[Order(t)[2]] = val[t]
        /\ Binds(t) => ~remove /\ offered = val[t]
    BY <1>1, <2>1 DEF IInv, OneWriter
  <2>3. From(t, s) = val[t]
    BY <2>2 DEF From
  <2>4. CASE Binds(t)
    BY <1>1, <1>2, <2>1, <2>2, <2>3, <2>4, OrderValue DEF Setting
  <2>5. CASE ~Binds(t)
    BY <1>1, <1>2, <2>1, <2>2, <2>3, <2>5, OrderValue DEF Setting
  <2>6. QED
    BY <2>4, <2>5
<1>8. OnlyTcpipWrites'
  BY <1>1, <1>3 DEF IInv, OnlyTcpipWrites, Late
<1>9. OfferInHand'
  <2>1. CASE t # "tcpip"
    <3>1. /\ at'["tcpip"] = at["tcpip"] /\ val'["tcpip"] = val["tcpip"]
          /\ Binds("tcpip")' = Binds("tcpip")
      BY <1>5, <2>1, Names DEF Binds
    <3>2. ~Binds(t)
      BY <2>1 DEF IInv, OfferInHand
    <3>3. UNCHANGED remove
      BY <1>3, <3>2
    <3>4. \A u \in Thread : Binds(u)' => Binds(u)
      BY <1>1, <1>5, Sources DEF Binds
    <3>5. \A u \in Thread : val'[u] = "default" => val[u] = "default"
      BY <1>5
    <3>6. UNCHANGED <<offered, options, call>>
      BY <1>3
    <3>7. /\ \A u \in Thread : val'[u] = "default" => u = "main"
          /\ \A u \in Thread : Binds(u)' =>
               u = "tcpip" /\ (at'["tcpip"] # 0 \/ call'["tcpip"] = "set address")
      BY <3>1, <3>4, <3>5, <3>6 DEF IInv, OfferInHand
    <3>8. QED
      BY <3>1, <3>3, <3>6, <3>7 DEF IInv, OfferInHand
  <2>2. CASE t = "tcpip"
    <3>1. \A u \in Thread : val'[u] = "default" => val[u] = "default"
      BY <1>5
    <3>2. \A u \in Thread : Binds(u)' => Binds(u) /\ at'["tcpip"] # 0
      <4> SUFFICES ASSUME NEW u \in Thread, Binds(u)'
                   PROVE  Binds(u) /\ at'["tcpip"] # 0
        OBVIOUS
      <4>1. CASE u = t
        <5>1. at[t] # 3
          BY <1>5, <4>1, Sources DEF Binds
        <5>2. val'[t] = val[t] /\ at'[t] = at[t] + 1
          BY <1>5, <5>1
        <5>3. at'["tcpip"] # 0
          BY <1>1, <2>2, <5>2
        <5>4. QED
          BY <4>1, <5>2, <5>3 DEF Binds
      <4>2. CASE u # t
        BY <1>5, <2>2, <4>2 DEF Binds, IInv, OfferInHand
      <4>3. QED
        BY <4>1, <4>2
    <3>3. call["tcpip"] # "set address"
      <4>1. at["tcpip"] # 0
        BY <1>1, <2>2
      <4>2. QED
        BY <4>1 DEF IInv, OfferInHand
    <3>4. at'["tcpip"] # 0 /\ Binds("tcpip")' /\ remove' => offered' = "none"
      BY <1>1, <1>3, <1>5, <2>2, <3>2, Sources DEF Binds, IInv, OfferInHand
    <3>5. QED
      BY <1>3, <3>1, <3>2, <3>3, <3>4 DEF IInv, OfferInHand
  <2>3. QED
    BY <2>1, <2>2
<1>10. TcpipInOrder' /\ CompleteOnSuccess'
  <2> SUFFICES ASSUME ~Late
               PROVE  TcpipInOrder' /\ CompleteOnSuccess'
    BY <1>3 DEF TcpipInOrder, CompleteOnSuccess, Late
  <2>1. t = "tcpip" /\ val[t] # "default"
    BY <1>1, Names DEF IInv, OnlyTcpipWrites, OfferInHand
  <2>2. at[t] # 3 => /\ Binds("tcpip")' = Binds("tcpip") /\ remove' = remove
                     /\ at'["tcpip"] = at["tcpip"] + 1
    BY <1>3, <1>5, <2>1 DEF Binds
  <2>3. CASE Binds(t) /\ ~remove
    <3>1. s = <<"mask", "gw", "ip">>[at[t]]
      BY <1>1, <2>3, OrderValue
    <3>2. s # "ip" => From(t, s) # "none"
      BY <2>3, Sources DEF From, Binds
    <3>3. CASE at[t] = 1
      BY <1>1, <1>2, <1>3, <2>1, <2>2, <2>3, <3>1, <3>2, <3>3
         DEF IInv, TcpipInOrder, CompleteOnSuccess, Setting, Late
    <3>4. CASE at[t] = 2
      BY <1>1, <1>2, <1>3, <2>1, <2>2, <2>3, <3>1, <3>2, <3>4
         DEF IInv, TcpipInOrder, CompleteOnSuccess, Setting, Late
    <3>5. CASE at[t] = 3
      BY <1>1, <1>2, <1>3, <1>5, <2>1, <2>3, <3>1, <3>5
         DEF IInv, TcpipInOrder, CompleteOnSuccess, Setting, Late
    <3>6. QED
      BY <1>1, <3>3, <3>4, <3>5
  <2>4. CASE ~(Binds(t) /\ ~remove)
    <3>1. s = <<"ip", "mask", "gw">>[at[t]]
      BY <1>1, <2>4, OrderValue
    <3>2. s = "ip" => From(t, s) = "none"
      BY <1>1, <2>1, <2>4, Sources DEF From, Binds, IInv, OfferInHand
    <3>3. CASE at[t] = 1
      BY <1>1, <1>2, <1>3, <2>1, <2>2, <2>4, <3>1, <3>2, <3>3
         DEF IInv, TcpipInOrder, CompleteOnSuccess, Setting, Late
    <3>4. CASE at[t] # 1
      BY <1>1, <1>2, <1>3, <1>5, <2>1, <2>2, <2>4, <3>1, <3>4
         DEF IInv, TcpipInOrder, CompleteOnSuccess, Setting, Late
    <3>5. QED
      BY <3>3, <3>4
  <2>5. QED
    BY <2>3, <2>4
<1>11. QED
  BY <1>4, <1>6, <1>7, <1>8, <1>9, <1>10 DEF IInv

-----------------------------------------------------------------------------
\* A function of the DHCP client is executed.
LEMMA CallPreserves ==
  ASSUME IInv, NEW t \in Client, DhcpCall(t)
  PROVE  IInv'
<1> USE DEF threads, client, writers, offer
<1>1. /\ OfferInHand /\ OnlyTcpipWrites
      /\ call \in [Client -> Call] /\ overlap \in BOOLEAN
      /\ t \in Thread /\ "tcpip" \in Client
  BY Names DEF IInv, TypeOK
<1>2. ASSUME NEW f, NEW state \in DhcpState, Request(t, f, state),
             f \notin {"bind", "set address"}
      PROVE  IInv'
  <2>1. TypeOK'
    <3>1. /\ call' = [call EXCEPT ![t] = "idle"] /\ dhcp' \in DhcpState
          /\ UNCHANGED <<netif, threads, leaseTimer, offer, writers>>
      BY <1>2 DEF Request
    <3>2. TypeOK /\ link' \in BOOLEAN /\ "idle" \in Call
      BY <1>2, CallNames DEF Request, IInv, TypeOK
    <3>3. QED
      BY <3>1, <3>2, TypeKept
  <2>2. OfferInHand'
    BY <1>1, <1>2, HandKept DEF Request, Executes
  <2>3. QED
    BY <1>1, <1>2, <2>1, <2>2, NoWrite DEF Request, Late, Releases
<1>3. ASSUME NEW f \in Call, NEW g \in Call,
             Executes(t, f), f \notin {"bind", "set address"},
             call' = [call EXCEPT ![t] = g], g \notin {"bind", "set address"},
             UNCHANGED <<at, val, remove>>,
             offered' \in {offered, "none"}, options' \in {options, "none"}
      PROVE  OfferInHand'
  BY <1>1, <1>3, HandKept DEF Executes
<1>4. ASSUME ClearOffered
      PROVE  overlap' \in BOOLEAN
  BY <1>1, <1>4, Zenon DEF ClearOffered
<1>5. CASE Discover(t)
  <2>1. TypeOK'
    BY <1>4, <1>5, CallNames DEF Discover, ClearOffered, IInv, TypeOK
  <2>2. OfferInHand'
    BY <1>3, <1>5 DEF Discover, ClearOffered, Call
  <2>3. QED
    BY <1>1, <1>5, <2>1, <2>2, NoWrite DEF Discover, ClearOffered, Late, Releases
<1>6. CASE Release(t)
  <2>1. Late
    BY <1>1, <1>6 DEF Release, Executes, OnlyTcpipWrites, Releases
  <2>2. TypeOK'
    <3>1. CASE dhcp = "OFF"
      BY <1>6, <3>1, CallNames, TypeKept DEF Release, IInv, TypeOK
    <3>2. CASE dhcp # "OFF"
      BY <1>4, <1>6, <3>2, CallNames DEF Release, ClearOffered, IInv, TypeOK
    <3>3. QED
      BY <3>1, <3>2
  <2>3. OfferInHand'
    <3>1. PICK g \in {"start", "releasing"} : call' = [call EXCEPT ![t] = g]
      BY <1>6 DEF Release
    <3>2. QED
      BY <1>3, <1>6, <3>1 DEF Release, ClearOffered, Call
  <2>4. QED
    BY <1>6, <2>1, <2>2, <2>3, NoWrite DEF Release, ClearOffered, Late
<1>7. CASE Releasing(t)
  <2>1. Late
    BY <1>1, <1>7 DEF Releasing, Executes, OnlyTcpipWrites, Releases
  <2>2. TypeOK'
    BY <1>1, <1>7, Sources, BeginType, CallNames DEF Releasing, IInv, TypeOK
  <2>3. /\ IF t = "tcpip" THEN {call["tcpip"], call'["tcpip"]}
                                 \intersect {"bind", "set address"} = {}
                          ELSE call'["tcpip"] = call["tcpip"]
        /\ at[t] = 0
    BY <1>1, <1>7 DEF Releasing, Executes
  <2>4. QED
    BY <1>1, <1>7, <2>1, <2>2, <2>3, BeginWrite DEF Releasing, Late
<1>8. CASE Off(t)
  <2>1. TypeOK'
    <3>1. /\ call' = [call EXCEPT ![t] = "start"] /\ dhcp' \in DhcpState
          /\ UNCHANGED <<netif, threads, leaseTimer, offer, writers>>
      BY <1>8 DEF Off, DhcpState
    <3>2. TypeOK /\ link' \in BOOLEAN /\ "start" \in Call
      BY <1>8, CallNames DEF Off, IInv, TypeOK
    <3>3. QED
      BY <3>1, <3>2, TypeKept
  <2>2. OfferInHand'
    BY <1>3, <1>8 DEF Off, Call
  <2>3. QED
    BY <1>1, <1>8, <2>1, <2>2, NoWrite DEF Off, Late, Releases
<1>9. CASE Start(t)
  <2>1. TypeOK'
    BY <1>4, <1>9, CallNames DEF Start, ClearOffered, IInv, TypeOK, DhcpState
  <2>2. OfferInHand'
    BY <1>3, <1>9 DEF Start, ClearOffered, Call
  <2>3. QED
    BY <1>1, <1>9, <2>1, <2>2, NoWrite DEF Start, ClearOffered, Late, Releases
<1>10. CASE Starting(t)
  <2>1. TypeOK'
    BY <1>10, CallNames DEF Starting, IInv, TypeOK, DhcpState
  <2>2. OfferInHand'
    <3>1. PICK g \in {"discover", "idle"} : call' = [call EXCEPT ![t] = g]
      BY <1>10 DEF Starting
    <3>2. QED
      BY <1>3, <1>10, <3>1 DEF Starting, Call
  <2>3. QED
    BY <1>1, <1>10, <2>1, <2>2, NoWrite DEF Starting, Late, Releases
<1>11. QED
  BY <1>2, <1>5, <1>6, <1>7, <1>8, <1>9, <1>10
     DEF DhcpCall, Discovering, Select, Renew, Rebind, Reboot, DhcpState

\* A timer of the DHCP client runs.
LEMMA TimerPreserves ==
  ASSUME IInv, NEW t \in {"net", "tcpip"}, Timers(t)
  PROVE  IInv'
<1> USE DEF threads, client, writers, offer
<1>1. PICK f \in {"discover", "select", "release", "reboot", "rebind", "renew"} :
         Calls(t, f) /\ (f = "release" => Late)
  BY DEF Timers, RequestTimeout, LeaseTimeout
<1>2. TypeOK'
  BY <1>1, CallNames, Names, TypeKept DEF Calls, IInv, TypeOK
<1>3. OfferInHand'
  <2>1. /\ call \in [Client -> Call] /\ OfferInHand
        /\ t \in Client /\ "tcpip" \in Client
    BY Names DEF IInv, TypeOK
  <2>2. QED
    BY <1>1, <2>1, HandKept DEF Calls
<1>4. QED
  BY <1>1, <1>2, <1>3, NoWrite DEF Calls, IInv, TypeOK, Late, Releases

\* The cable is pulled or plugged in.
LEMMA LinkPreserves ==
  ASSUME IInv, LinkDown \/ LinkUp
  PROVE  IInv'
<1> USE DEF threads, client, writers, offer
<1>1. CASE LinkDown
  <2>1. TypeOK'
    BY <1>1 DEF LinkDown, IInv, TypeOK
  <2>2. OfferInHand'
    BY <1>1, HandKept DEF LinkDown, IInv
  <2>3. QED
    BY <1>1, <2>1, <2>2, NoWrite DEF LinkDown, Late
<1>2. CASE LinkUp
  <2>1. TypeOK'
    <3>1. PICK f \in Call : call' = [call EXCEPT !["link"] = f]
      BY <1>2, CallNames DEF LinkUp
    <3>2. QED
      BY <1>2, <3>1, Names, TypeKept DEF LinkUp, IInv, TypeOK
  <2>2. OfferInHand'
    BY <1>2, HandKept, Names DEF LinkUp, IInv, TypeOK
  <2>3. QED
    BY <1>2, <2>1, <2>2, NoWrite DEF LinkUp, IInv, TypeOK, Late, Client, Thread, Releases
<1>3. QED
  BY <1>1, <1>2

\* A message of the server is looked at, and an offer or an ACK is taken.
LEMMA MessagePreserves ==
  ASSUME IInv, Offer \/ Ack \/ Nak \/ \E l \in Lease : TakeOffer(l) \/ TakeAck(l)
  PROVE  IInv'
<1> USE DEF threads, client, writers, offer
<1>1. /\ OfferInHand /\ call \in [Client -> Call] /\ "tcpip" \in Client
  BY Names DEF IInv, TypeOK
<1>2. ASSUME NEW f \in {"offer", "ack", "nak"}, NEW states, Receives(f, states)
      PROVE  IInv'
  <2>1. TypeOK'
    BY <1>1, <1>2, CallNames, TypeKept DEF Receives, IInv, TypeOK
  <2>2. OfferInHand'
    BY <1>1, <1>2, HandKept DEF Receives, Executes
  <2>3. QED
    BY <1>1, <1>2, <2>1, <2>2, NoWrite DEF Receives, Late, Releases
<1>3. ASSUME NEW l \in Lease, TakeOffer(l)
      PROVE  IInv'
  <2>1. TypeOK'
    BY <1>3, CallNames DEF TakeOffer, IInv, TypeOK
  <2>2. call'["tcpip"] = "select" /\ call["tcpip"] = "offer"
    BY <1>1, <1>3 DEF TakeOffer, Executes
  <2>3. OfferInHand'
    BY <1>1, <1>3, <2>2 DEF TakeOffer, Executes, OfferInHand, Binds
  <2>4. QED
    BY <1>1, <1>3, <2>1, <2>3, NoWrite DEF TakeOffer, Executes, Late, Releases
<1>4. ASSUME NEW l \in Lease, TakeAck(l)
      PROVE  IInv'
  <2>1. TypeOK'
    BY <1>4, CallNames DEF TakeAck, IInv, TypeOK
  <2>2. call'["tcpip"] = "bind" /\ call["tcpip"] = "ack"
    BY <1>1, <1>4 DEF TakeAck, Executes
  <2>3. OfferInHand'
    BY <1>1, <1>4, <2>2 DEF TakeAck, Executes, OfferInHand, Binds
  <2>4. QED
    BY <1>1, <1>4, <2>1, <2>3, NoWrite DEF TakeAck, Executes, Late, Releases
<1>5. QED
  BY <1>2, <1>3, <1>4 DEF Offer, Ack, Nak

\* dhcp_handle_nak begins to remove the address.
LEMMA NakPreserves ==
  ASSUME IInv, TakeNak
  PROVE  IInv'
<1> USE DEF threads, client, writers, offer
<1>1. "tcpip" \in Thread /\ "tcpip" \in Client /\ call \in [Client -> Call]
  BY Names DEF IInv, TypeOK
<1>2. TypeOK'
  BY <1>1, Sources, BeginType, CallNames DEF TakeNak, IInv, TypeOK, DhcpState
<1>3. {call["tcpip"], call'["tcpip"]} \intersect {"bind", "set address"} = {}
  BY <1>1 DEF TakeNak, Executes
<1>4. QED
  BY <1>1, <1>2, <1>3, BeginWrite DEF TakeNak, Executes, Late, Releases

\* dhcp_bind has the mask and the gateway in hand.
LEMMA BindPreserves ==
  ASSUME IInv, BindLease
  PROVE  IInv'
<1> USE DEF threads, client, writers, offer
<1> DEFINE v == IF options = "none" THEN "made up" ELSE options
<1>1. /\ call \in [Client -> Call] /\ val \in [Thread -> Source]
      /\ "tcpip" \in Client /\ "tcpip" \in Thread /\ at["tcpip"] = 0
      /\ OfferInHand
  BY Names DEF BindLease, Executes, IInv, TypeOK
<1>2. v \in Lease \union {"made up"} /\ v \in Source
  BY Sources DEF IInv, TypeOK
<1>3. /\ val' = [val EXCEPT !["tcpip"] = v] /\ options' = "none"
      /\ call["tcpip"] = "bind" /\ call'["tcpip"] = "set address"
      /\ UNCHANGED <<netif, main, offered, at, remove, overlap>>
  BY <1>1 DEF BindLease, Executes
<1>4. TypeOK'
  BY <1>2, CallNames DEF BindLease, IInv, TypeOK, DhcpState
<1>5. /\ val'["tcpip"] = v
      /\ \A u \in Thread : u # "tcpip" => val'[u] = val[u]
  BY <1>1, <1>3
<1>6. \A u \in Thread : at[u] # 0 => u # "tcpip" /\ val'[u] = val[u]
  BY <1>1, <1>5
<1>7. OneWriter'
  BY <1>3, <1>6 DEF IInv, OneWriter, Order, Binds
<1>8. OfferInHand'
  <2>1. \A u \in Thread : val'[u] = "default" => u = "main"
    <3>1. v # "default"
      BY Sources DEF IInv, TypeOK
    <3>2. QED
      BY <1>1, <1>5, <3>1 DEF OfferInHand
  <2>2. \A u \in Thread : Binds(u)' => u = "tcpip"
    BY <1>1, <1>5 DEF OfferInHand, Binds
  <2>3. offered' # "none" /\ val'["tcpip"] # "made up" => val'["tcpip"] = offered'
    BY <1>1, <1>3, <1>5 DEF OfferInHand
  <2>4. Binds("tcpip")'
    BY <1>2, <1>5 DEF Binds
  <2>5. QED
    BY <1>1, <1>3, <2>1, <2>2, <2>3, <2>4 DEF OfferInHand
<1>9. SettingsAgree' /\ CompleteOnSuccess'
  BY <1>3 DEF IInv, SettingsAgree, Quiet, CompleteOnSuccess, Late
<1>10. OnlyTcpipWrites'
  BY <1>1, <1>3 DEF BindLease, IInv, OnlyTcpipWrites, Late, Releases
<1>11. TcpipInOrder'
  BY <1>1, <1>3 DEF TcpipInOrder
<1>12. QED
  BY <1>4, <1>7, <1>8, <1>9, <1>10, <1>11 DEF IInv

\* netif_set_addr begins to write the lease.
LEMMA SetAddressPreserves ==
  ASSUME IInv, SetAddress
  PROVE  IInv'
<1> USE DEF threads, client, writers, offer
<1>1. /\ call \in [Client -> Call] /\ val \in [Thread -> Source]
      /\ at \in [Thread -> 0 .. 3]
      /\ "tcpip" \in Client /\ "tcpip" \in Thread
      /\ OfferInHand
  BY Names DEF IInv, TypeOK
<1>2. /\ at' = [at EXCEPT !["tcpip"] = 1] /\ at["tcpip"] = 0
      /\ call["tcpip"] = "set address" /\ call'["tcpip"] = "idle"
      /\ UNCHANGED netif /\ UNCHANGED main /\ UNCHANGED val
      /\ UNCHANGED offered /\ UNCHANGED options
      /\ remove' = (offered = "none")
      /\ overlap' = \/ remove' \/ val["tcpip"] = "made up"
                    \/ \E u \in Thread : at[u] # 0
  BY <1>1, Zenon DEF SetAddress, Executes
<1>3. /\ at'["tcpip"] = 1
      /\ \A u \in Thread : u # "tcpip" => at'[u] = at[u]
      /\ \A u \in Thread : Binds(u)' = Binds(u)
  BY <1>1, <1>2 DEF Binds
<1>4. TypeOK'
  <2>1. remove' \in BOOLEAN /\ overlap' \in BOOLEAN
    BY <1>2, Zenon
  <2>2. at' \in [Thread -> 0 .. 3]
    <3>1. 1 \in 0 .. 3
      OBVIOUS
    <3>2. QED
      BY <1>1, <1>2, <3>1
  <2>3. QED
    BY <2>1, <2>2, CallNames DEF SetAddress, IInv, TypeOK
<1>5. OneWriter'
  <2> SUFFICES ASSUME ~overlap', NEW u \in Thread, at'[u] # 0
               PROVE  /\ \A w \in Thread : at'[w] # 0 => w = u
                      /\ \A j \in 1 .. 3 : ~(j < at'[u])
                      /\ ~remove' /\ offered' = val'[u]
    BY DEF OneWriter
  <2>1. \A w \in Thread : at[w] = 0
    BY <1>2
  <2>2. u = "tcpip"
    BY <1>3, <2>1
  <2>3. ~remove' /\ offered # "none" /\ val["tcpip"] # "made up"
    BY <1>2
  <2>4. val["tcpip"] = offered
    BY <1>1, <1>2, <2>3 DEF OfferInHand
  <2>5. \A w \in Thread : at'[w] # 0 => w = u
    BY <1>3, <2>1, <2>2
  <2>6. offered' = val'[u]
    BY <1>2, <2>2, <2>4
  <2>7. ~remove'
    BY <2>3, <1>2
  <2>8. QED
    BY <1>3, <2>2, <2>5, <2>6, <2>7
<1>6. OfferInHand'
  <2>1. Binds("tcpip")
    BY <1>1, <1>2 DEF OfferInHand
  <2>2. remove' => offered' = "none"
    BY <1>2
  <2>3. /\ \A u \in Thread : val'[u] = "default" => u = "main"
        /\ \A u \in Thread : Binds(u)' => u = "tcpip"
    BY <1>1, <1>2, <1>3 DEF OfferInHand
  <2>4. at'["tcpip"] # 0
    BY <1>3
  <2>5. call'["tcpip"] = "idle"
    BY <1>2
  <2>6. QED
    BY <2>2, <2>3, <2>4, <2>5 DEF OfferInHand
<1>7. SettingsAgree'
  BY <1>1, <1>3 DEF SettingsAgree, Quiet
<1>8. OnlyTcpipWrites'
  BY <1>1, <1>2, <1>3 DEF SetAddress, IInv, OnlyTcpipWrites, Late, Releases
<1>9. TcpipInOrder' /\ CompleteOnSuccess'
  <2>1. TcpipInOrder'
    BY <1>3 DEF TcpipInOrder
  <2>2. CompleteOnSuccess'
    BY <1>2 DEF IInv, CompleteOnSuccess, Late
  <2>3. QED
    BY <2>1, <2>2
<1>10. QED
  BY <1>4, <1>5, <1>6, <1>7, <1>8, <1>9 DEF IInv

\* network_thread starts the client.
LEMMA NetworkPreserves ==
  ASSUME IInv, XemacAdd \/ StartDhcp \/ SetDone
  PROVE  IInv'
<1> USE DEF threads, client, writers, offer
<1>1. CASE XemacAdd
  <2>1. TypeOK'
    BY <1>1 DEF XemacAdd, IInv, TypeOK
  <2>2. OfferInHand'
    BY <1>1, HandKept DEF XemacAdd, IInv
  <2>3. QED
    BY <1>1, <2>1, <2>2, NoWrite DEF XemacAdd, Late
<1>2. CASE StartDhcp
  <2>1. TypeOK'
    BY <1>2 DEF StartDhcp, IInv, TypeOK, Call
  <2>2. OfferInHand'
    BY <1>2, HandKept, Names DEF StartDhcp, IInv, TypeOK
  <2>3. QED
    BY <1>2, <2>1, <2>2, NoWrite DEF StartDhcp, IInv, TypeOK, Late, Releases
<1>3. CASE SetDone
  <2>1. TypeOK'
    BY <1>3 DEF SetDone, IInv, TypeOK
  <2>2. OfferInHand'
    BY <1>3, HandKept DEF SetDone, IInv
  <2>3. QED
    BY <1>3, <2>1, <2>2, NoWrite DEF SetDone, Late
<1>4. QED
  BY <1>1, <1>2, <1>3

\* main_thread moves on.
LEMMA MainPreserves ==
  ASSUME IInv,
         WaitNetwork \/ PollSuccess \/ PollAgain \/ PollTimeout \/ Assigned
  PROVE  IInv'
<1> USE DEF threads, client, writers, offer
<1>1. ASSUME UNCHANGED <<client, writers>>
      PROVE  OfferInHand'
  BY <1>1, HandKept DEF IInv
<1>2. CASE WaitNetwork
  <2>1. TypeOK'
    BY <1>2 DEF WaitNetwork, IInv, TypeOK
  <2>2. QED
    BY <1>1, <1>2, <2>1, NoWrite DEF WaitNetwork, Late
<1>3. CASE PollSuccess
  <2>1. TypeOK'
    BY <1>3 DEF PollSuccess, IInv, TypeOK
  <2>2. QED
    BY <1>1, <1>3, <2>1, NoWrite DEF PollSuccess, Late
<1>4. CASE PollAgain
  <2>1. TypeOK'
    BY <1>4, PollsAssumption
       DEF PollAgain, PollsNow, TimedOut, IInv, TypeOK
  <2>2. QED
    BY <1>1, <1>4, <2>1, NoWrite DEF PollAgain, Late
<1>5. CASE PollTimeout
  <2>1. TypeOK'
    BY <1>5, Names, Sources, BeginType DEF PollTimeout, IInv, TypeOK
  <2>2. Late'
    BY <1>5 DEF PollTimeout, Late
  <2>3. at["main"] = 0
    BY <1>5, Names DEF PollTimeout, IInv, OnlyTcpipWrites, Late
  <2>4. QED
    BY <1>5, <2>1, <2>2, <2>3, Names, BeginWrite DEF PollTimeout
<1>6. CASE Assigned
  <2>1. TypeOK'
    BY <1>6 DEF Assigned, IInv, TypeOK
  <2>2. QED
    BY <1>1, <1>6, <2>1, NoWrite DEF Assigned, Late
<1>7. QED
  BY <1>2, <1>3, <1>4, <1>5, <1>6

-----------------------------------------------------------------------------
\* The invariant holds at the start and every step preserves it.
THEOREM Inductive == Spec => []IInv
<1>1. ASSUME Init PROVE IInv
  <2>1. TypeOK
    <3>1. "none" \in Source /\ polls \in 0 .. Polls - 1
      BY <1>1, PollsAssumption DEF Init, Source
    <3>2. /\ netif \in [Setting -> Source]
          /\ call \in [Client -> Call]
          /\ at \in [Thread -> 0 .. 3]
          /\ val \in [Thread -> Source]
      BY <1>1, <3>1 DEF Init, Call
    <3>3. QED
      BY <1>1, <3>1, <3>2 DEF Init, TypeOK, DhcpState
  <2>2. OneWriter /\ OnlyTcpipWrites /\ TcpipInOrder
    BY <1>1, Names DEF Init, OneWriter, OnlyTcpipWrites, TcpipInOrder, Releases
  <2>3. OfferInHand
    BY <1>1, Names, Sources DEF Init, OfferInHand, Binds
  <2>4. SettingsAgree /\ CompleteOnSuccess
    BY <1>1 DEF Init, SettingsAgree, CompleteOnSuccess, Setting
  <2>5. QED
    BY <2>1, <2>2, <2>3, <2>4 DEF IInv
<1>2. ASSUME IInv, [Next]_vars PROVE IInv'
  <2>1. CASE MainThread
    BY <1>2, <2>1, MainPreserves, WritePreserves DEF MainThread, Thread
  <2>2. CASE NetworkThread
    BY <1>2, <2>2, NetworkPreserves, CallPreserves, WritePreserves
       DEF NetworkThread, Thread, Client
  <2>3. CASE TcpipThread
    BY <1>2, <2>3, MessagePreserves, NakPreserves, BindPreserves,
       SetAddressPreserves, CallPreserves, WritePreserves
       DEF TcpipThread, Thread, Client
  <2>4. CASE LinkThread
    BY <1>2, <2>4, LinkPreserves, CallPreserves DEF LinkThread, Thread, Client
  <2>5. CASE \E t \in {"net", "tcpip"} : Timers(t)
    BY <1>2, <2>5, TimerPreserves
  <2>6. CASE UNCHANGED vars
    <3>1. TypeOK'
      BY <1>2, <2>6 DEF IInv, TypeOK, vars, threads, client, writers, offer
    <3>2. OfferInHand'
      BY <1>2, <2>6, HandKept DEF IInv, vars, client, writers, offer
    <3>3. QED
      BY <1>2, <2>6, <3>1, <3>2, NoWrite
         DEF vars, threads, client, writers, offer, Late
  <2>7. QED
    BY <1>2, <2>1, <2>2, <2>3, <2>4, <2>5, <2>6 DEF Next
<1>3. QED
  BY <1>1, <1>2, PTL DEF Spec

\* The variables keep their types, the poll counter its bound.
THEOREM TypeCorrect == Spec => []TypeOK
<1>1. IInv => TypeOK
  BY DEF IInv
<1>2. QED
  BY <1>1, Inductive, PTL

\* What main_thread's poll takes for a successful DHCP request is complete:
\* the mask and the gateway are there before the address.
THEOREM SuccessIsComplete == Spec => []CompleteOnSuccess
<1>1. IInv => CompleteOnSuccess
  BY DEF IInv
<1>2. QED
  BY <1>1, Inductive, PTL

\* Address, mask and gateway come from one source, for any number of leases
\* and polls, unless two threads wrote them at the same time or the lease that
\* they are was cleared by another thread while dhcp_bind took them from it.
THEOREM OneSource == Spec => []SettingsAgree
<1>1. IInv => SettingsAgree
  BY DEF IInv
<1>2. QED
  BY <1>1, Inductive, PTL

-----------------------------------------------------------------------------
(* DhcpTimers: what a thread may still have to do.                         *)

States == Waiting \union Holding \union {"OFF"}
Number == 0 .. Width - 1

\* Steps of one word.
Words == {"release", "start", "timeout", "t2", "t1", "rebind", "renew", "next t2",
          "next t1", "bind"}

Counts  == {Set(f, v) : f \in Counter, v \in Number}
Changes == {Set("state", s) : s \in States}
Addrs   == {Set("addr", b) : b \in BOOLEAN}
Looks   == {<<"set state", s>> : s \in States}
Sends   == {<<"send", s>> : s \in States}
Bare   == {<<w>> : w \in Words}
Todos   == Counts \union Changes \union Addrs \union Looks \union Sends \union Bare

\* q has a step of A; it has no others; each of its steps of A comes after one
\* of B, before one of B.
Has(q, A) == \E i \in 1..Len(q) : q[i] \in A
Only(q, A) == \A i \in 1..Len(q) : q[i] \in A
Led(q, A, B) == \A i \in 1..Len(q) : q[i] \in A => \E j \in 1..(i - 1) : q[j] \in B
Followed(q, A, B) == \A i \in 1..Len(q) : q[i] \in A => \E j \in (i + 1)..Len(q) : q[j] \in B

\* What a step is made of.
LEMMA Parts ==
  /\ \A f, v : Set(f, v)[1] = "set" /\ Set(f, v)[2] = f /\ Set(f, v)[3] = v
  /\ \A s : <<"set state", s>>[1] = "set state" /\ <<"set state", s>>[2] = s
  /\ \A s : <<"send", s>>[1] = "send" /\ <<"send", s>>[2] = s
  /\ \A w : <<w>>[1] = w
BY SMT DEF Set

\* What threads have to do is made of these steps.
LEMMA StepsIn ==
  /\ \A f \in Counter, v \in Number : Set(f, v) \in Todos
  /\ \A s \in States : Set("state", s) \in Todos /\ <<"set state", s>> \in Todos
                       /\ <<"send", s>> \in Todos
  /\ Set("addr", TRUE) \in Todos /\ Set("addr", FALSE) \in Todos
  /\ \A w \in Words : <<w>> \in Todos
<1>1. \A f \in Counter, v \in Number : Set(f, v) \in Counts
  BY SMT DEF Counts
<1>2. \A s \in States : Set("state", s) \in Changes /\ <<"set state", s>> \in Looks
                        /\ <<"send", s>> \in Sends
  BY SMT DEF Changes, Looks, Sends
<1>3. Set("addr", TRUE) \in Addrs /\ Set("addr", FALSE) \in Addrs
  BY Zenon DEF Addrs
<1>4. \A w \in Words : <<w>> \in Bare
  BY Zenon DEF Bare
<1>. QED
  BY <1>1, <1>2, <1>3, <1>4, Zenon DEF Todos

\* What can be stored.
LEMMA Storable ==
  ASSUME NEW x \in Todos
  PROVE  /\ x[1] = "set" => \/ x[2] \in Counter /\ x[3] \in Number
                            \/ x[2] = "state" /\ x[3] \in States
                            \/ x[2] = "addr" /\ x[3] \in BOOLEAN
         /\ x[1] = "set" => x = Set(x[2], x[3])
         /\ x[1] \in {"set state", "send"} => x[2] \in States /\ x = <<x[1], x[2]>>
         /\ x[1] \notin {"set", "set state", "send"} => x[1] \in Words /\ x = <<x[1]>>
<1>1. CASE x \in Counts
  <2>1. PICK f \in Counter, v \in Number : x = Set(f, v)
    BY <1>1, SMT DEF Counts
  <2>2. x[1] = "set" /\ x[2] = f /\ x[3] = v
    BY <2>1, Parts, Zenon
  <2>. QED BY <2>1, <2>2, Zenon
<1>2. CASE x \in Changes
  <2>1. PICK s \in States : x = Set("state", s)
    BY <1>2, Zenon DEF Changes
  <2>2. x[1] = "set" /\ x[2] = "state" /\ x[3] = s
    BY <2>1, Parts, Zenon
  <2>. QED BY <2>1, <2>2, Zenon
<1>3. CASE x \in Addrs
  <2>1. PICK b \in BOOLEAN : x = Set("addr", b)
    BY <1>3, Zenon DEF Addrs
  <2>2. x[1] = "set" /\ x[2] = "addr" /\ x[3] = b
    BY <2>1, Parts, Zenon
  <2>3. x = Set(x[2], x[3]) /\ x[3] \in BOOLEAN
    BY <2>1, <2>2, Zenon
  <2>. QED BY <2>2, <2>3, Zenon
<1>4. CASE x \in Looks
  <2>1. PICK s \in States : x = <<"set state", s>>
    BY <1>4, Zenon DEF Looks
  <2>2. x[1] = "set state" /\ x[2] = s
    BY <2>1, Parts, Zenon
  <2>. QED BY <2>1, <2>2, Zenon
<1>5. CASE x \in Sends
  <2>1. PICK s \in States : x = <<"send", s>>
    BY <1>5, Zenon DEF Sends
  <2>2. x[1] = "send" /\ x[2] = s
    BY <2>1, Parts, Zenon
  <2>. QED BY <2>1, <2>2, Zenon
<1>6. CASE x \in Bare
  <2>1. PICK w \in Words : x = <<w>>
    BY <1>6, Zenon DEF Bare
  <2>2. x[1] = w /\ x = <<x[1]>>
    BY <2>1, Parts, Zenon
  <2>3. w # "set" /\ w # "set state" /\ w # "send"
    BY Zenon DEF Words
  <2>. QED BY <2>2, <2>3, Zenon
<1>. QED
  BY <1>1, <1>2, <1>3, <1>4, <1>5, <1>6, Zenon DEF Todos

-----------------------------------------------------------------------------
\* Places of a sequence that goes on with another.
LEMMA Places ==
  ASSUME NEW q \in Seq(Todos), NEW r \in Seq(Todos)
  PROVE  /\ q \o r \in Seq(Todos) /\ Len(q \o r) = Len(q) + Len(r)
         /\ Len(q) \in Nat /\ Len(r) \in Nat
         /\ \A i \in 1..Len(q) : i \in 1..Len(q \o r) /\ (q \o r)[i] = q[i]
         /\ \A i \in 1..Len(r) : Len(q) + i \in 1..Len(q \o r) /\ (q \o r)[Len(q) + i] = r[i]
         /\ \A i \in 1..Len(q \o r) :
              i \in 1..Len(q) \/ \E k \in 1..Len(r) : i = Len(q) + k /\ (q \o r)[i] = r[k]
<1>1. q \o r \in Seq(Todos) /\ Len(q \o r) = Len(q) + Len(r) /\ Len(q) \in Nat /\ Len(r) \in Nat
  BY SMT
<1>2. \A i \in 1..Len(q) : i \in 1..Len(q \o r) /\ (q \o r)[i] = q[i]
  BY SMT
<1>3. \A i \in 1..Len(r) : Len(q) + i \in 1..Len(q \o r) /\ (q \o r)[Len(q) + i] = r[i]
  BY SMT
<1>4. ASSUME NEW i \in 1..Len(q \o r), i \notin 1..Len(q)
      PROVE  \E k \in 1..Len(r) : i = Len(q) + k /\ (q \o r)[i] = r[k]
  <2>1. i - Len(q) \in 1..Len(r) /\ i = Len(q) + (i - Len(q))
    BY <1>1, <1>4, SMT
  <2>. QED BY <2>1, <1>3
<1>. QED BY <1>1, <1>2, <1>3, <1>4, Zenon

\* The steps of a sequence that goes on with another are those of both.
LEMMA HasCat ==
  ASSUME NEW q \in Seq(Todos), NEW r \in Seq(Todos), NEW A
  PROVE  /\ Has(q \o r, A) <=> Has(q, A) \/ Has(r, A)
         /\ Only(q \o r, A) <=> Only(q, A) /\ Only(r, A)
<1>1. \A i \in 1..Len(q) : i \in 1..Len(q \o r) /\ (q \o r)[i] = q[i]
  BY Places
<1>2. \A i \in 1..Len(r) : Len(q) + i \in 1..Len(q \o r) /\ (q \o r)[Len(q) + i] = r[i]
  BY Places
<1>3. \A i \in 1..Len(q \o r) :
        i \in 1..Len(q) \/ \E k \in 1..Len(r) : i = Len(q) + k /\ (q \o r)[i] = r[k]
  BY Places
<1>4. Has(q \o r, A) <=> Has(q, A) \/ Has(r, A)
  BY <1>1, <1>2, <1>3, Zenon DEF Has
<1>5. Only(q \o r, A) <=> Only(q, A) /\ Only(r, A)
  BY <1>1, <1>2, <1>3, Zenon DEF Only
<1>. QED BY <1>4, <1>5

\* Only the direction that is needed.
LEMMA LedCat ==
  ASSUME NEW q \in Seq(Todos), NEW r \in Seq(Todos), NEW A, NEW B,
         Led(q, A, B), Led(r, A, B) \/ Has(q, B)
  PROVE  Led(q \o r, A, B)
<1>0. /\ q \o r \in Seq(Todos) /\ Len(q \o r) = Len(q) + Len(r)
      /\ Len(q) \in Nat /\ Len(r) \in Nat
  BY Places
<1>1. \A i \in 1..Len(q) : i \in 1..Len(q \o r) /\ (q \o r)[i] = q[i]
  BY Places
<1>2. \A i \in 1..Len(r) : Len(q) + i \in 1..Len(q \o r) /\ (q \o r)[Len(q) + i] = r[i]
  BY Places
<1>3. \A i \in 1..Len(q \o r) :
        i \in 1..Len(q) \/ \E k \in 1..Len(r) : i = Len(q) + k /\ (q \o r)[i] = r[k]
  BY Places
<1> SUFFICES ASSUME NEW i \in 1..Len(q \o r), (q \o r)[i] \in A
             PROVE  \E j \in 1..(i - 1) : (q \o r)[j] \in B
  BY Zenon DEF Led
<1>4. CASE i \in 1..Len(q)
  <2>1. q[i] \in A
    BY <1>4, <1>1, <1>2, <1>3
  <2>2. PICK j \in 1..(i - 1) : q[j] \in B
    BY <1>4, <2>1 DEF Led
  <2>3. j \in 1..Len(q)
    BY <1>4, <1>0, SMT
  <2>. QED BY <2>2, <2>3, <1>1, <1>2, <1>3
<1>5. CASE i \notin 1..Len(q)
  <2>1. PICK k \in 1..Len(r) : i = Len(q) + k /\ (q \o r)[i] = r[k]
    BY <1>5, <1>1, <1>2, <1>3
  <2>2. CASE Has(q, B)
    <3>1. PICK j \in 1..Len(q) : q[j] \in B
      BY <2>2 DEF Has
    <3>2. j \in 1..(i - 1)
      BY <2>1, <3>1, <1>0, SMT
    <3>. QED BY <3>1, <3>2, <1>1, <1>2, <1>3
  <2>3. CASE Led(r, A, B)
    <3>1. r[k] \in A
      BY <2>1, <1>1, <1>2, <1>3
    <3>2. PICK j \in 1..(k - 1) : r[j] \in B
      BY <2>3, <3>1 DEF Led
    <3>3. j \in 1..Len(r) /\ Len(q) + j \in 1..(i - 1)
      BY <2>1, <1>0, SMT
    <3>. QED BY <3>2, <3>3, <1>1, <1>2, <1>3, Zenon
  <2>. QED BY <2>2, <2>3
<1>. QED BY <1>4, <1>5

\* The same for steps that come before others.
LEMMA FollowedCat ==
  ASSUME NEW q \in Seq(Todos), NEW r \in Seq(Todos), NEW A, NEW B,
         Followed(r, A, B), Followed(q, A, B) \/ Has(r, B)
  PROVE  Followed(q \o r, A, B)
<1>0. /\ q \o r \in Seq(Todos) /\ Len(q \o r) = Len(q) + Len(r)
      /\ Len(q) \in Nat /\ Len(r) \in Nat
  BY Places
<1>1. \A i \in 1..Len(q) : i \in 1..Len(q \o r) /\ (q \o r)[i] = q[i]
  BY Places
<1>2. \A i \in 1..Len(r) : Len(q) + i \in 1..Len(q \o r) /\ (q \o r)[Len(q) + i] = r[i]
  BY Places
<1>3. \A i \in 1..Len(q \o r) :
        i \in 1..Len(q) \/ \E k \in 1..Len(r) : i = Len(q) + k /\ (q \o r)[i] = r[k]
  BY Places
<1> SUFFICES ASSUME NEW i \in 1..Len(q \o r), (q \o r)[i] \in A
             PROVE  \E j \in (i + 1)..Len(q \o r) : (q \o r)[j] \in B
  BY Zenon DEF Followed
<1>4. CASE i \in 1..Len(q)
  <2>1. q[i] \in A
    BY <1>4, <1>1, <1>2, <1>3
  <2>2. CASE Has(r, B)
    <3>1. PICK j \in 1..Len(r) : r[j] \in B
      BY <2>2 DEF Has
    <3>2. Len(q) + j \in (i + 1)..Len(q \o r)
      BY <1>4, <3>1, <1>0, SMT
    <3>. QED BY <3>1, <3>2, <1>1, <1>2, <1>3, Zenon
  <2>3. CASE Followed(q, A, B)
    <3>1. PICK j \in (i + 1)..Len(q) : q[j] \in B
      BY <1>4, <2>1, <2>3 DEF Followed
    <3>2. j \in 1..Len(q) /\ j \in (i + 1)..Len(q \o r)
      BY <1>4, <1>0, SMT
    <3>. QED BY <3>1, <3>2, <1>1, <1>2, <1>3
  <2>. QED BY <2>2, <2>3
<1>5. CASE i \notin 1..Len(q)
  <2>1. PICK k \in 1..Len(r) : i = Len(q) + k /\ (q \o r)[i] = r[k]
    BY <1>5, <1>1, <1>2, <1>3
  <2>2. r[k] \in A
    BY <2>1, <1>1, <1>2, <1>3
  <2>3. PICK j \in (k + 1)..Len(r) : r[j] \in B
    BY <2>2 DEF Followed
  <2>4. j \in 1..Len(r) /\ Len(q) + j \in (i + 1)..Len(q \o r)
    BY <2>1, <1>0, SMT
  <2>. QED BY <2>3, <2>4, <1>1, <1>2, <1>3, Zenon
<1>. QED BY <1>4, <1>5

\* The first step and the others.
LEMMA FirstStep ==
  ASSUME NEW q \in Seq(Todos), q # << >>
  PROVE  /\ Head(q) \in Todos /\ Tail(q) \in Seq(Todos)
         /\ \A A : Has(q, A) <=> Head(q) \in A \/ Has(Tail(q), A)
         /\ \A A : Only(q, A) <=> Head(q) \in A /\ Only(Tail(q), A)
         /\ \A A, B : Led(q, A, B) => Head(q) \notin A /\ (Head(q) \in B \/ Led(Tail(q), A, B))
         /\ \A A, B : Followed(q, A, B) => /\ Head(q) \in A => Has(Tail(q), B)
                                           /\ Followed(Tail(q), A, B)
<1>1. /\ Head(q) \in Todos /\ Tail(q) \in Seq(Todos) /\ Len(q) \in Nat \ {0}
      /\ Len(Tail(q)) = Len(q) - 1 /\ Head(q) = q[1]
  BY SMT
<1>2. \A i \in 1..Len(Tail(q)) : Tail(q)[i] = q[i + 1] /\ i + 1 \in 1..Len(q)
  BY <1>1, SMT
<1>3. ASSUME NEW i \in 1..Len(q), i # 1
      PROVE  \E k \in 1..Len(Tail(q)) : i = k + 1
  <2>1. i - 1 \in 1..Len(Tail(q)) /\ i = (i - 1) + 1
    BY <1>1, <1>3, SMT
  <2>. QED BY <2>1
<1>4. 1 \in 1..Len(q)
  BY <1>1, SMT
<1>5. ASSUME NEW A PROVE Has(q, A) <=> Head(q) \in A \/ Has(Tail(q), A)
  BY <1>1, <1>2, <1>3, <1>4, Zenon DEF Has
<1>6. ASSUME NEW A PROVE Only(q, A) <=> Head(q) \in A /\ Only(Tail(q), A)
  BY <1>1, <1>2, <1>3, <1>4, Zenon DEF Only
<1>7. ASSUME NEW A, NEW B, Led(q, A, B)
      PROVE  Head(q) \notin A /\ (Head(q) \in B \/ Led(Tail(q), A, B))
  <2>1. Head(q) \notin A
    BY <1>1, <1>4, <1>7, SMT DEF Led
  <2>2. ASSUME Head(q) \notin B, NEW i \in 1..Len(Tail(q)), Tail(q)[i] \in A
        PROVE  \E j \in 1..(i - 1) : Tail(q)[j] \in B
    <3>1. q[i + 1] \in A /\ i + 1 \in 1..Len(q)
      BY <1>2, <2>2
    <3>2. PICK j \in 1..((i + 1) - 1) : q[j] \in B
      BY <3>1, <1>7 DEF Led
    <3>3. j # 1
      BY <3>2, <2>2, <1>1
    <3>4. j - 1 \in 1..(i - 1) /\ j - 1 \in 1..Len(Tail(q)) /\ (j - 1) + 1 = j
      BY <3>3, <1>1, SMT
    <3>. QED BY <3>2, <3>4, <1>2
  <2>. QED BY <2>1, <2>2, Zenon DEF Led
<1>8. ASSUME NEW A, NEW B, Followed(q, A, B)
      PROVE  (Head(q) \in A => Has(Tail(q), B)) /\ Followed(Tail(q), A, B)
  <2>1. ASSUME Head(q) \in A PROVE Has(Tail(q), B)
    <3>1. PICK j \in (1 + 1)..Len(q) : q[j] \in B
      BY <2>1, <1>1, <1>4, <1>8 DEF Followed
    <3>2. j \in 1..Len(q) /\ j # 1
      BY <1>1, SMT
    <3>. QED BY <3>1, <3>2, <1>2, <1>3, Zenon DEF Has
  <2>2. ASSUME NEW i \in 1..Len(Tail(q)), Tail(q)[i] \in A
        PROVE  \E j \in (i + 1)..Len(Tail(q)) : Tail(q)[j] \in B
    <3>1. q[i + 1] \in A /\ i + 1 \in 1..Len(q)
      BY <1>2, <2>2
    <3>2. PICK j \in ((i + 1) + 1)..Len(q) : q[j] \in B
      BY <3>1, <1>8 DEF Followed
    <3>4. j - 1 \in (i + 1)..Len(Tail(q)) /\ j - 1 \in 1..Len(Tail(q)) /\ (j - 1) + 1 = j
      BY <1>1, SMT
    <3>. QED BY <3>2, <3>4, <1>2
  <2>. QED BY <2>1, <2>2, Zenon DEF Followed
<1>. QED BY <1>1, <1>5, <1>6, <1>7, <1>8

\* Sequences written out.
LEMMA Short ==
  /\ << >> \in Seq(Todos)
  /\ \A A : ~Has(<< >>, A) /\ Only(<< >>, A)
  /\ \A A, B : Led(<< >>, A, B) /\ Followed(<< >>, A, B)
  /\ \A a \in Todos : <<a>> \in Seq(Todos)
  /\ \A a, A : (Has(<<a>>, A) <=> a \in A) /\ (Only(<<a>>, A) <=> a \in A)
  /\ \A a, A, B : (Led(<<a>>, A, B) <=> a \notin A) /\ (Followed(<<a>>, A, B) <=> a \notin A)
  /\ \A a, b \in Todos : <<a, b>> \in Seq(Todos)
  /\ \A a, b, A : (Has(<<a, b>>, A) <=> a \in A \/ b \in A) /\ (Only(<<a, b>>, A) <=> a \in A /\ b \in A)
  /\ \A a, b, A, B : (Led(<<a, b>>, A, B) <=> a \notin A /\ (b \notin A \/ a \in B))
                     /\ (Followed(<<a, b>>, A, B) <=> (a \notin A \/ b \in B) /\ b \notin A)
BY SMT DEF Has, Only, Led, Followed

-----------------------------------------------------------------------------
TypeInv ==
  /\ mem = [f \in Fields |-> mem[f]]
  /\ \A f \in Counter : mem[f] \in Number
  /\ mem.state \in States /\ mem.addr \in BOOLEAN
  /\ todo \in [Driver -> Seq(Todos)]
  /\ ticked \in [Driver -> BOOLEAN]
  /\ age \in 0..MaxAge /\ granted \in Number
  /\ asked \in BOOLEAN /\ overlaps \subseteq {"tick", "bind"}

\* The counters' bounds.
LEMMA Bounds ==
  /\ 0 \in Number /\ 1 \in Number /\ Ticks \in Number \ {0} /\ Leases \subseteq Number \ {0}
  /\ \A v \in Number : v \in Int /\ v >= 0 /\ v < Width
  /\ \A v \in Number \ {0} : v - 1 \in Number /\ v >= 1
  /\ \A v \in Number : v # 0 /\ v # 1 => v - 1 \in Number \ {0}
  /\ 1 - 1 = 0
  /\ \A v \in Number : (v + 1) % Width \in Number
  /\ \A v, w \in Number : ((v - w) \div 2) >= 1 => ((v - w) \div 2) \in Number \ {0}
BY TimersAssumption, SMT DEF Number

\* What dhcp_bind makes of a lease in minutes.
LEMMA Halves ==
  ASSUME NEW l \in Number
  PROVE  /\ Periods(60 * l) = IF l = 0 THEN 1 ELSE l
         /\ Periods(T1(60 * l)) = IF l = 0 THEN 1 ELSE (l + 1) \div 2
         /\ Periods((7 * (60 * l)) \div 8) \in Number \ {0}
         /\ l # 0 => (l + 1) \div 2 >= 1 /\ (l + 1) \div 2 <= l
         /\ l >= 2 => (l + 1) \div 2 < l
         /\ Periods(T1(60 * l)) \in Number \ {0}
<1>1. l \in Nat /\ l < Width /\ Width > 1 /\ Width \in Nat
  BY TimersAssumption, SMT DEF Number
<1>2. (60 * l + 30) \div 60 = l
  BY <1>1, SMT
<1>3. Periods(60 * l) = IF l = 0 THEN 1 ELSE l
  BY <1>1, <1>2, SMT DEF Periods
<1>4. (60 * l) \div 2 = 30 * l
  BY <1>1, SMT
<1>5. (30 * l + 30) \div 60 = (l + 1) \div 2
  BY <1>1, SMT
<1>6. l # 0 => (l + 1) \div 2 >= 1 /\ (l + 1) \div 2 <= l
  BY <1>1, SMT
<1>7. l >= 2 => (l + 1) \div 2 < l
  BY <1>1, SMT
<1>8. Periods(T1(60 * l)) = IF l = 0 THEN 1 ELSE (l + 1) \div 2
  <2>1. T1(60 * l) = 30 * l
    BY <1>4 DEF T1
  <2>2. l = 0 => (l + 1) \div 2 = 0
    BY SMT
  <2>3. Periods(T1(60 * l)) = IF (l + 1) \div 2 = 0 THEN 1 ELSE (l + 1) \div 2
    BY <2>1, <1>5, Zenon DEF Periods
  <2>. QED BY <2>2, <2>3, <1>1, <1>6, SMT
<1>9. Periods((7 * (60 * l)) \div 8) \in Number \ {0}
  <2>. DEFINE e == (7 * (60 * l)) \div 8
  <2>1. e \in Nat /\ 8 * e <= 420 * l
    BY <1>1, SMT
  <2>. HIDE DEF e
  <2>2. ((e + 30) \div 60) \in Nat /\ 60 * ((e + 30) \div 60) <= e + 30
    BY <2>1, SMT
  <2>3. ((e + 30) \div 60) < Width
    BY <2>1, <2>2, <1>1, SMT
  <2>. QED BY <2>2, <2>3, <1>1, SMT DEF Periods, Number, e
<1>. QED
  BY <1>1, <1>3, <1>6, <1>7, <1>8, <1>9, SMT DEF Number

\* A store changes one field.
LEMMA Stores ==
  ASSUME TypeInv, NEW x \in Todos, x[1] = "set"
  PROVE  LET m == [mem EXCEPT ![x[2]] = x[3]] IN
         /\ m = [f \in Fields |-> m[f]]
         /\ \A f \in Counter : m[f] \in Number
         /\ m.state \in States /\ m.addr \in BOOLEAN
         /\ \A f \in Fields : m[f] = IF f = x[2] THEN x[3] ELSE mem[f]
<1>. DEFINE m == [mem EXCEPT ![x[2]] = x[3]]
<1>0. x[1] = "set" => \/ x[2] \in Counter /\ x[3] \in Number
                      \/ x[2] = "state" /\ x[3] \in States
                      \/ x[2] = "addr" /\ x[3] \in BOOLEAN
  BY Storable, Zenon
<1>1. \/ x[2] \in Counter /\ x[3] \in Number
      \/ x[2] = "state" /\ x[3] \in States
      \/ x[2] = "addr" /\ x[3] \in BOOLEAN
  BY <1>0, Zenon
<1>2. "state" \in Fields /\ "addr" \in Fields /\ Counter \subseteq Fields
      /\ "state" \notin Counter /\ "addr" \notin Counter
  BY SMT DEF Fields, Counter
<1>3. m = [f \in Fields |-> IF f = x[2] THEN x[3] ELSE mem[f]]
  BY SMT DEF TypeInv
<1>. HIDE DEF m
<1>4. \A f \in Fields : m[f] = IF f = x[2] THEN x[3] ELSE mem[f]
  BY <1>3, Zenon
<1>5. m = [f \in Fields |-> m[f]]
  BY <1>3, SMT
<1>6. ASSUME NEW f \in Counter PROVE m[f] \in Number
  <2>1. f \in Fields /\ f # "state" /\ f # "addr" /\ mem[f] \in Number
    BY <1>2 DEF TypeInv
  <2>2. f = x[2] => x[3] \in Number
    BY <1>1, <2>1
  <2>. QED BY <1>4, <2>1, <2>2
<1>7. m["state"] \in States /\ m["addr"] \in BOOLEAN
  BY <1>1, <1>2, <1>4, Zenon DEF TypeInv
<1>. QED BY <1>4, <1>5, <1>6, <1>7, Zenon DEF m

\* Thread t takes its first step, and the others are as they were.
LEMMA Turn ==
  ASSUME TypeInv, NEW t \in Driver, todo[t] # << >>, NEW s \in Seq(Todos), Instead(t, s)
  PROVE  /\ todo' \in [Driver -> Seq(Todos)]
         /\ todo'[t] = s \o Tail(todo[t])
         /\ Tail(todo[t]) \in Seq(Todos) /\ todo[t] \in Seq(Todos)
         /\ \A o \in Driver \ {t} : todo'[o] = todo[o]
<1>1. todo[t] \in Seq(Todos) /\ Tail(todo[t]) \in Seq(Todos)
  BY FirstStep DEF TypeInv
<1>2. s \o Tail(todo[t]) \in Seq(Todos)
  BY <1>1, Places
<1>. QED
  BY <1>1, <1>2, SMT DEF Instead, TypeInv

\* Idle thread t begins something.
LEMMA Beginning ==
  ASSUME TypeInv, NEW t \in Driver, Idle(t), NEW s \in Seq(Todos), Push(t, s)
  PROVE  /\ todo' \in [Driver -> Seq(Todos)]
         /\ todo'[t] = s
         /\ \A o \in Driver \ {t} : todo'[o] = todo[o]
<1>1. s \o << >> = s
  BY SMT
<1>. QED
  BY <1>1, SMT DEF Push, TypeInv, Idle

-----------------------------------------------------------------------------
(* What the handlers leave to do.                                          *)

\* The steps that send a request.
LEMMA AskSpelled ==
  ASSUME NEW s \in States
  PROVE  LET a == <<"set state", s>>
             b == <<"send", s>>
             c == Set("request_timeout", Ticks)
         IN  /\ Ask(s) \in Seq(Todos)
             /\ \A A : Has(Ask(s), A) <=> a \in A \/ b \in A \/ c \in A
             /\ \A A : Only(Ask(s), A) <=> a \in A /\ b \in A /\ c \in A
             /\ \A A, B : a \notin A /\ b \notin A /\ c \notin A => Led(Ask(s), A, B) /\ Followed(Ask(s), A, B)
             /\ \A A, B : c \notin A /\ c \in B => Followed(Ask(s), A, B)
<1>. DEFINE a == <<"set state", s>>
            b == <<"send", s>>
            c == Set("request_timeout", Ticks)
<1>1. a \in Todos /\ b \in Todos /\ c \in Todos
  <2>1. "request_timeout" \in Counter /\ Ticks \in Number
    BY Bounds DEF Counter
  <2>. QED BY <2>1, StepsIn
<1>2. Ask(s) = <<a>> \o <<b, c>>
  BY DEF Ask, SetState
<1>. HIDE DEF a, b, c
<1>3. <<a>> \in Seq(Todos) /\ <<b, c>> \in Seq(Todos)
  BY <1>1, Short
<1>4. Ask(s) \in Seq(Todos)
  BY <1>2, <1>3, Places
<1>5. ASSUME NEW A
      PROVE  /\ Has(Ask(s), A) <=> a \in A \/ b \in A \/ c \in A
             /\ Only(Ask(s), A) <=> a \in A /\ b \in A /\ c \in A
  <2>1. /\ Has(<<a>> \o <<b, c>>, A) <=> Has(<<a>>, A) \/ Has(<<b, c>>, A)
        /\ Only(<<a>> \o <<b, c>>, A) <=> Only(<<a>>, A) /\ Only(<<b, c>>, A)
    BY <1>3, HasCat
  <2>2. (Has(<<a>>, A) <=> a \in A) /\ (Only(<<a>>, A) <=> a \in A)
    BY Short
  <2>3. (Has(<<b, c>>, A) <=> b \in A \/ c \in A) /\ (Only(<<b, c>>, A) <=> b \in A /\ c \in A)
    BY Short
  <2>. QED BY <1>2, <2>1, <2>2, <2>3
<1>6. ASSUME NEW A, NEW B, a \notin A, b \notin A, c \notin A
      PROVE  Led(Ask(s), A, B) /\ Followed(Ask(s), A, B)
  <2>1. Led(<<a>>, A, B) /\ Followed(<<a>>, A, B) /\ Led(<<b, c>>, A, B) /\ Followed(<<b, c>>, A, B)
    BY <1>6, Short, Zenon
  <2>. QED BY <2>1, <1>2, <1>3, LedCat, FollowedCat
<1>7. ASSUME NEW A, NEW B, c \notin A, c \in B
      PROVE  Followed(Ask(s), A, B)
  <2>1. Followed(<<b, c>>, A, B) /\ Has(<<b, c>>, B)
    BY <1>7, Short
  <2>. QED BY <2>1, <1>2, <1>3, FollowedCat
<1>. QED BY <1>4, <1>5, <1>6, <1>7, Zenon DEF a, b, c

\* dhcp_handle_nak.
NakSteps == SetState("BACKING_OFF") \o <<Set("addr", FALSE)>> \o Ask("SELECTING")

\* The steps that follow a NAK.
LEMMA NakSpelled ==
  LET a == <<"set state", "BACKING_OFF">>
      b == Set("addr", FALSE)
  IN  /\ NakSteps \in Seq(Todos)
      /\ \A A : Has(NakSteps, A) <=> a \in A \/ b \in A \/ Has(Ask("SELECTING"), A)
      /\ \A A : Only(NakSteps, A) <=> a \in A /\ b \in A /\ Only(Ask("SELECTING"), A)
      /\ \A A, B : a \notin A /\ b \notin A /\ Led(Ask("SELECTING"), A, B) => Led(NakSteps, A, B)
      /\ \A A, B : ((a \notin A /\ b \notin A) \/ Has(Ask("SELECTING"), B)) /\ Followed(Ask("SELECTING"), A, B)
                     => Followed(NakSteps, A, B)
<1>. DEFINE a == <<"set state", "BACKING_OFF">>
            b == Set("addr", FALSE)
            k == Ask("SELECTING")
            h == <<a>> \o <<b>>
<1>1. a \in Todos /\ b \in Todos /\ k \in Seq(Todos)
  <2>1. "BACKING_OFF" \in States /\ "SELECTING" \in States
    BY DEF States, Waiting
  <2>. QED BY <2>1, StepsIn, AskSpelled
<1>2. NakSteps = h \o k
  BY DEF NakSteps, SetState
<1>. HIDE DEF a, b, k
<1>3. <<a>> \in Seq(Todos) /\ <<b>> \in Seq(Todos)
  BY <1>1, Short
<1>4. h \in Seq(Todos)
  BY <1>3, Places
<1>5. ASSUME NEW A
      PROVE  /\ Has(h, A) <=> a \in A \/ b \in A
             /\ Only(h, A) <=> a \in A /\ b \in A
  <2>1. (Has(h, A) <=> Has(<<a>>, A) \/ Has(<<b>>, A)) /\ (Only(h, A) <=> Only(<<a>>, A) /\ Only(<<b>>, A))
    BY <1>3, HasCat
  <2>2. (Has(<<a>>, A) <=> a \in A) /\ (Only(<<a>>, A) <=> a \in A)
    BY Short
  <2>3. (Has(<<b>>, A) <=> b \in A) /\ (Only(<<b>>, A) <=> b \in A)
    BY Short
  <2>. QED BY <2>1, <2>2, <2>3
<1>6. ASSUME NEW A, NEW B, a \notin A, b \notin A
      PROVE  Led(h, A, B) /\ Followed(h, A, B)
  <2>1. Led(<<a>>, A, B) /\ Followed(<<a>>, A, B) /\ Led(<<b>>, A, B) /\ Followed(<<b>>, A, B)
    BY <1>6, Short, Zenon
  <2>. QED BY <2>1, <1>3, LedCat, FollowedCat
<1>. HIDE DEF h
<1>7. NakSteps \in Seq(Todos)
  BY <1>1, <1>2, <1>4, Places
<1>8. ASSUME NEW A
      PROVE  /\ Has(NakSteps, A) <=> a \in A \/ b \in A \/ Has(k, A)
             /\ Only(NakSteps, A) <=> a \in A /\ b \in A /\ Only(k, A)
  BY <1>1, <1>2, <1>4, <1>5, HasCat, Zenon
<1>9. ASSUME NEW A, NEW B, a \notin A, b \notin A, Led(k, A, B)
      PROVE  Led(NakSteps, A, B)
  BY <1>1, <1>2, <1>4, <1>6, <1>9, LedCat
<1>10. ASSUME NEW A, NEW B, (a \notin A /\ b \notin A) \/ Has(k, B), Followed(k, A, B)
       PROVE  Followed(NakSteps, A, B)
  BY <1>1, <1>2, <1>4, <1>6, <1>10, FollowedCat
<1>. QED BY <1>7, <1>8, <1>9, <1>10, Zenon DEF a, b, k

\* dhcp_handle_offer.
OfferSteps == <<Set("request_timeout", 0)>> \o Ask("REQUESTING")

\* The steps that follow an offer.
LEMMA OfferSpelled ==
  LET a == Set("request_timeout", 0)
      k == Ask("REQUESTING")
  IN  /\ OfferSteps \in Seq(Todos)
      /\ \A A : Has(OfferSteps, A) <=> a \in A \/ Has(k, A)
      /\ \A A : Only(OfferSteps, A) <=> a \in A /\ Only(k, A)
      /\ \A A, B : (a \notin A \/ Has(k, B)) /\ Followed(k, A, B) => Followed(OfferSteps, A, B)
<1>. DEFINE a == Set("request_timeout", 0)
            k == Ask("REQUESTING")
<1>1. a \in Todos /\ k \in Seq(Todos)
  <2>1. "REQUESTING" \in States /\ "request_timeout" \in Counter /\ 0 \in Number
    BY Bounds DEF States, Waiting, Counter
  <2>. QED BY <2>1, StepsIn, AskSpelled
<1>2. OfferSteps = <<a>> \o k
  BY DEF OfferSteps
<1>. HIDE DEF a, k
<1>3. <<a>> \in Seq(Todos)
  BY <1>1, Short
<1>4. OfferSteps \in Seq(Todos)
  BY <1>1, <1>2, <1>3, Places
<1>5. ASSUME NEW A
      PROVE  /\ Has(OfferSteps, A) <=> a \in A \/ Has(k, A)
             /\ Only(OfferSteps, A) <=> a \in A /\ Only(k, A)
  <2>1. (Has(<<a>>, A) <=> a \in A) /\ (Only(<<a>>, A) <=> a \in A)
    BY Short
  <2>. QED BY <2>1, <1>1, <1>2, <1>3, HasCat, Zenon
<1>6. ASSUME NEW A, NEW B, a \notin A \/ Has(k, B), Followed(k, A, B)
      PROVE  Followed(OfferSteps, A, B)
  <2>1. a \notin A => Followed(<<a>>, A, B)
    BY Short, Zenon
  <2>. QED BY <2>1, <1>1, <1>2, <1>3, <1>6, FollowedCat
<1>. QED BY <1>4, <1>5, <1>6, Zenon DEF a, k

\* dhcp_release_and_stop, and dhcp_bind when what was stored is a lease of l
\* minutes.
ReleaseSteps ==
  <<Set("offered_t0_lease", 0), Set("t0_timeout", 0), Set("lease_used", 0),
    Set("t2_rebind_time", 0), Set("t1_renew_time", 0), Set("addr", FALSE)>> \o SetState("OFF")

BindTail(l) ==
  LET t2 == Periods((7 * (60 * l)) \div 8) IN
  UsedReset \o <<Set("t0_timeout", Periods(60 * l)), Set("t1_renew_time", Periods(T1(60 * l))),
                 Set("t2_timeout", t2), Set("t2_rebind_time", t2)>> \o SetState("BOUND")

\* Six steps and one more, as dhcp_release_and_stop takes them.
LEMMA SixSpelled ==
  ASSUME NEW a \in Todos, NEW b \in Todos, NEW c \in Todos, NEW d \in Todos,
         NEW e \in Todos, NEW f \in Todos, NEW g \in Todos, NEW A
  PROVE  /\ <<a, b, c, d, e, f>> \o <<g>> \in Seq(Todos)
         /\ f \in A => Has(<<a, b, c, d, e, f>> \o <<g>>, A)
         /\ Only(<<a, b, c, d, e, f>> \o <<g>>, A)
              <=> a \in A /\ b \in A /\ c \in A /\ d \in A /\ e \in A /\ f \in A /\ g \in A
         /\ \A B : a \notin A /\ b \notin A /\ c \notin A /\ d \notin A /\ e \notin A /\ f \notin A /\ f \in B
                     => Led(<<a, b, c, d, e, f>> \o <<g>>, A, B)
<1>. DEFINE p == <<a, b, c, d, e, f>>
            q == p \o <<g>>
<1>1. p \in Seq(Todos) /\ <<g>> \in Seq(Todos) /\ Len(p) = 6
  BY SMT
<1>2. p[1] = a /\ p[2] = b /\ p[3] = c /\ p[4] = d /\ p[5] = e /\ p[6] = f
  BY SMT
<1>. HIDE DEF p
<1>3. \A i \in 1..Len(p) : i = 1 \/ i = 2 \/ i = 3 \/ i = 4 \/ i = 5 \/ i = 6
  BY <1>1, SMT
<1>4. 1 \in 1..Len(p) /\ 2 \in 1..Len(p) /\ 3 \in 1..Len(p) /\ 4 \in 1..Len(p) /\ 5 \in 1..Len(p) /\ 6 \in 1..Len(p)
  BY <1>1, SMT
<1>5. /\ Has(p, A) <=> a \in A \/ b \in A \/ c \in A \/ d \in A \/ e \in A \/ f \in A
      /\ Only(p, A) <=> a \in A /\ b \in A /\ c \in A /\ d \in A /\ e \in A /\ f \in A
  BY <1>2, <1>3, <1>4, SMT DEF Has, Only
<1>6. /\ Has(q, A) <=> Has(p, A) \/ g \in A
      /\ Only(q, A) <=> Only(p, A) /\ g \in A
  <2>1. (Has(q, A) <=> Has(p, A) \/ Has(<<g>>, A)) /\ (Only(q, A) <=> Only(p, A) /\ Only(<<g>>, A))
    BY <1>1, HasCat
  <2>2. (Has(<<g>>, A) <=> g \in A) /\ (Only(<<g>>, A) <=> g \in A)
    BY Short
  <2>. QED BY <2>1, <2>2
<1>7. ASSUME NEW B, a \notin A, b \notin A, c \notin A, d \notin A, e \notin A, f \notin A, f \in B
      PROVE  Led(q, A, B)
  <2>1. Led(p, A, B)
    BY <1>2, <1>3, <1>7, SMT DEF Led
  <2>2. Has(p, B)
    BY <1>2, <1>4, <1>7 DEF Has
  <2>. QED BY <2>1, <2>2, <1>1, LedCat
<1>8. q \in Seq(Todos)
  BY <1>1, Places
<1>. QED BY <1>5, <1>6, <1>7, <1>8, Zenon DEF p

\* Sequences of one and of two steps.
LEMMA Pairs ==
  ASSUME NEW a \in Todos, NEW b \in Todos
  PROVE  <<a>> \o <<b>> = <<a, b>> /\ <<a>> \o << >> = <<a>> /\ << >> \o <<a>> = <<a>>
         /\ Head(<<a>>) = a /\ Tail(<<a>>) = << >> /\ <<a>> # << >>
         /\ Head(<<a, b>>) = a /\ Tail(<<a, b>>) = <<b>> /\ <<a, b>> # << >>
<1>. DEFINE p == <<a>> \o <<b>>
            r == <<a, b>>
<1>1. p \in Seq(Todos) /\ r \in Seq(Todos) /\ Len(p) = 2 /\ Len(r) = 2
      /\ p[1] = a /\ r[1] = a /\ p[2] = b /\ r[2] = b
  BY SMT
<1>2. p = r
  <2>. HIDE DEF p, r
  <2>1. \A i \in 1..Len(p) : p[i] = r[i]
    BY <1>1, SMT
  <2>. QED BY <1>1, <2>1, SeqEqual, Zenon
<1>3. <<a>> \in Seq(Todos)
  BY Short
<1>. QED BY <1>2, <1>3, ConcatEmptySeq, SMT

\* The steps of dhcp_bind.
LEMMA BindSpelled ==
  ASSUME NEW l \in Number
  PROVE  LET t2 == Periods((7 * (60 * l)) \div 8)
             a == Set("lease_used", 0)
             b == Set("t0_timeout", Periods(60 * l))
             c == Set("t1_renew_time", Periods(T1(60 * l)))
             d == Set("t2_timeout", t2)
             e == Set("t2_rebind_time", t2)
             f == <<"set state", "BOUND">>
         IN /\ BindTail(l) \in Seq(Todos) /\ BindTail(l) # << >>
            /\ \A A : Has(BindTail(l), A) <=> a \in A \/ b \in A \/ c \in A \/ d \in A \/ e \in A \/ f \in A
            /\ \A A : Only(BindTail(l), A) <=> a \in A /\ b \in A /\ c \in A /\ d \in A /\ e \in A /\ f \in A
<1>. DEFINE t2 == Periods((7 * (60 * l)) \div 8)
            a == Set("lease_used", 0)
            b == Set("t0_timeout", Periods(60 * l))
            c == Set("t1_renew_time", Periods(T1(60 * l)))
            d == Set("t2_timeout", t2)
            e == Set("t2_rebind_time", t2)
            f == <<"set state", "BOUND">>
            p == <<a>> \o <<b, c, d, e>>
            q == p \o <<f>>
<1>1. a \in Todos /\ b \in Todos /\ c \in Todos /\ d \in Todos /\ e \in Todos /\ f \in Todos
  <2>1. 0 \in Number /\ Periods(60 * l) \in Number /\ Periods(T1(60 * l)) \in Number /\ t2 \in Number
    BY Halves, Bounds
  <2>2. {"lease_used", "t0_timeout", "t1_renew_time", "t2_timeout", "t2_rebind_time"} \subseteq Counter
        /\ "BOUND" \in States
    BY DEF Counter, States, Holding
  <2>. HIDE DEF t2
  <2>. QED BY <2>1, <2>2, StepsIn
<1>2. BindTail(l) = q
  BY DEF BindTail, UsedReset, SetState
<1>. HIDE DEF a, b, c, d, e, f
<1>3. <<a>> \in Seq(Todos) /\ <<b, c, d, e>> \in Seq(Todos) /\ <<f>> \in Seq(Todos)
  BY <1>1, SMT
<1>4. p \in Seq(Todos)
  BY <1>3, Places
<1>5. ASSUME NEW A
      PROVE  /\ Has(q, A) <=> a \in A \/ b \in A \/ c \in A \/ d \in A \/ e \in A \/ f \in A
             /\ Only(q, A) <=> a \in A /\ b \in A /\ c \in A /\ d \in A /\ e \in A /\ f \in A
  <2>1. (Has(p, A) <=> Has(<<a>>, A) \/ Has(<<b, c, d, e>>, A))
        /\ (Only(p, A) <=> Only(<<a>>, A) /\ Only(<<b, c, d, e>>, A))
    BY <1>3, HasCat
  <2>2. (Has(q, A) <=> Has(p, A) \/ Has(<<f>>, A)) /\ (Only(q, A) <=> Only(p, A) /\ Only(<<f>>, A))
    BY <1>3, <1>4, HasCat
  <2>3. (Has(<<a>>, A) <=> a \in A) /\ (Only(<<a>>, A) <=> a \in A)
    BY Short
  <2>4. (Has(<<f>>, A) <=> f \in A) /\ (Only(<<f>>, A) <=> f \in A)
    BY Short
  <2>5. (Has(<<b, c, d, e>>, A) <=> b \in A \/ c \in A \/ d \in A \/ e \in A)
        /\ (Only(<<b, c, d, e>>, A) <=> b \in A /\ c \in A /\ d \in A /\ e \in A)
    BY SMT DEF Has, Only
  <2>. HIDE DEF p, q
  <2>. QED BY <2>1, <2>2, <2>3, <2>4, <2>5
<1>6. q \in Seq(Todos)
  BY <1>3, <1>4, Places
<1>7. q # << >>
  <2>1. Has(q, {a})
    BY <1>5
  <2>. HIDE DEF q
  <2>. QED BY <2>1, Short
<1>. HIDE DEF p, q
<1>8. /\ BindTail(l) \in Seq(Todos) /\ BindTail(l) # << >>
      /\ \A A : Has(BindTail(l), A) <=> a \in A \/ b \in A \/ c \in A \/ d \in A \/ e \in A \/ f \in A
      /\ \A A : Only(BindTail(l), A) <=> a \in A /\ b \in A /\ c \in A /\ d \in A /\ e \in A /\ f \in A
  BY <1>2, <1>5, <1>6, <1>7, Zenon
<1>. HIDE DEF t2
<1>. QED BY <1>8, Zenon DEF a, b, c, d, e, f, t2

-----------------------------------------------------------------------------
(* What the actions leave to do, written out.                              *)

\* Steps of one word.
LEMMA CallsIn ==
  /\ <<"release">> \in Todos /\ <<"start">> \in Todos /\ <<"timeout">> \in Todos
  /\ <<"t2">> \in Todos /\ <<"t1">> \in Todos /\ <<"rebind">> \in Todos /\ <<"renew">> \in Todos
  /\ <<"next t2">> \in Todos /\ <<"next t1">> \in Todos /\ <<"bind">> \in Todos
<1>1. {"release", "start", "timeout", "t2", "t1", "rebind", "renew", "next t2",
       "next t1", "bind"} = Words
  BY DEF Words
<1>. QED BY <1>1, StepsIn, Zenon

\* The fields of struct dhcp.
LEMMA CountersIn ==
  /\ "request_timeout" \in Counter /\ "lease_used" \in Counter /\ "t0_timeout" \in Counter
  /\ "t1_renew_time" \in Counter /\ "t2_rebind_time" \in Counter /\ "t2_timeout" \in Counter
  /\ "offered_t0_lease" \in Counter
  /\ "state" \notin Counter /\ "addr" \notin Counter /\ Counter \subseteq Fields
  /\ "state" \in Fields /\ "addr" \in Fields
BY Zenon DEF Counter, Fields

\* The states of the client.
LEMMA StatesIn ==
  /\ "OFF" \in States /\ "SELECTING" \in States /\ "REQUESTING" \in States /\ "BACKING_OFF" \in States
  /\ "BOUND" \in States /\ "RENEWING" \in States /\ "REBINDING" \in States
  /\ "OFF" \notin Waiting /\ "OFF" \notin Holding
  /\ Waiting \subseteq States /\ Holding \subseteq States
BY Zenon DEF States, Waiting, Holding

\* The counters are numbers below Width.
LEMMA Numbers ==
  ASSUME TypeInv
  PROVE  /\ mem.request_timeout \in Number /\ mem.lease_used \in Number
         /\ mem.t0_timeout \in Number /\ mem.t1_renew_time \in Number
         /\ mem.t2_rebind_time \in Number /\ mem.t2_timeout \in Number
         /\ mem.offered_t0_lease \in Number
         /\ mem.state \in States
BY CountersIn, Zenon DEF TypeInv

\* Two steps one after the other, of which the first stores a counter.
LEMMA StoreThen ==
  ASSUME NEW f \in Counter, NEW v \in Number, NEW w \in Words
  PROVE  /\ <<Set(f, v)>> \o <<<<w>>>> = <<Set(f, v), <<w>>>>
         /\ <<Set(f, v)>> \o << >> = <<Set(f, v)>>
<1>1. Set(f, v) \in Todos /\ <<w>> \in Todos
  BY StepsIn
<1>. QED BY <1>1, Pairs

\* The words.
LEMMA WordsIn ==
  "release" \in Words /\ "start" \in Words /\ "timeout" \in Words /\ "t2" \in Words
  /\ "t1" \in Words /\ "rebind" \in Words /\ "renew" \in Words
BY DEF Words

\* What dhcp_coarse_tmr makes of timer T2.
LEMMA TickT2Moves ==
  ASSUME TypeInv, NEW t \in Driver, TickT2(t)
  PROVE  \/ mem.t2_rebind_time = 0 /\ Instead(t, <<<<"t1">>>>)
         \/ mem.t2_rebind_time = 1 /\ Instead(t, <<Set("t2_rebind_time", 0), <<"rebind">>>>)
         \/ /\ mem.t2_rebind_time - 1 \in Number \ {0}
            /\ Instead(t, <<Set("t2_rebind_time", mem.t2_rebind_time - 1), <<"t1">>>>)
<1>. DEFINE v == mem.t2_rebind_time
<1>1. v \in Number /\ v - 1 \in Int
  BY Numbers, Bounds
<1>2. CASE v = 0
  BY <1>2 DEF TickT2, CountDown
<1>3. CASE v = 1
  <2>1. <<Set("t2_rebind_time", 0)>> \o <<<<"rebind">>>> = <<Set("t2_rebind_time", 0), <<"rebind">>>>
    BY StoreThen, WordsIn, CountersIn, Bounds, Zenon
  <2>2. Instead(t, <<Set("t2_rebind_time", 1 - 1)>> \o <<<<"rebind">>>>)
    BY <1>3 DEF TickT2, CountDown
  <2>. QED BY <1>3, <2>1, <2>2, Bounds
<1>4. CASE v # 0 /\ v # 1
  <2>0. v - 1 \in Number \ {0}
    <3>. HIDE DEF v
    <3>. QED BY <1>1, <1>4, Bounds
  <2>1. <<Set("t2_rebind_time", v - 1)>> \o <<<<"t1">>>> = <<Set("t2_rebind_time", v - 1), <<"t1">>>>
    BY <2>0, StoreThen, WordsIn, CountersIn, Zenon
  <2>2. Instead(t, <<Set("t2_rebind_time", v - 1)>> \o <<<<"t1">>>>)
    BY <1>4 DEF TickT2, CountDown
  <2>. QED BY <2>0, <2>1, <2>2
<1>. QED BY <1>2, <1>3, <1>4

\* What dhcp_coarse_tmr makes of timer T1.
LEMMA TickT1Moves ==
  ASSUME TypeInv, NEW t \in Driver, TickT1(t)
  PROVE  \/ mem.t1_renew_time = 0 /\ Instead(t, << >>)
         \/ mem.t1_renew_time = 1 /\ Instead(t, <<Set("t1_renew_time", 0), <<"renew">>>>)
         \/ /\ mem.t1_renew_time - 1 \in Number \ {0}
            /\ Instead(t, <<Set("t1_renew_time", mem.t1_renew_time - 1)>>)
<1>. DEFINE v == mem.t1_renew_time
<1>1. v \in Number /\ v - 1 \in Int
  BY Numbers, Bounds
<1>2. CASE v = 0
  BY <1>2 DEF TickT1, CountDown
<1>3. CASE v = 1
  <2>1. <<Set("t1_renew_time", 0)>> \o <<<<"renew">>>> = <<Set("t1_renew_time", 0), <<"renew">>>>
    BY StoreThen, WordsIn, CountersIn, Bounds, Zenon
  <2>2. Instead(t, <<Set("t1_renew_time", 1 - 1)>> \o <<<<"renew">>>>)
    BY <1>3 DEF TickT1, CountDown
  <2>. QED BY <1>3, <2>1, <2>2, Bounds
<1>4. CASE v # 0 /\ v # 1
  <2>0. v - 1 \in Number \ {0}
    <3>. HIDE DEF v
    <3>. QED BY <1>1, <1>4, Bounds
  <2>1. <<Set("t1_renew_time", v - 1)>> \o << >> = <<Set("t1_renew_time", v - 1)>>
    BY <2>0, StoreThen, WordsIn, CountersIn, Zenon
  <2>2. Instead(t, <<Set("t1_renew_time", v - 1)>> \o << >>)
    BY <1>4 DEF TickT1, CountDown
  <2>. QED BY <2>0, <2>1, <2>2
<1>. QED BY <1>2, <1>3, <1>4

\* What dhcp_fine_tmr begins.
LEMMA FineMoves ==
  ASSUME TypeInv, NEW t \in Driver, FineTick(t)
  PROVE  \/ Push(t, <<Set("request_timeout", 0), <<"timeout">>>>)
         \/ \E v \in Number \ {0} : Push(t, <<Set("request_timeout", v)>>)
<1>. DEFINE v == mem.request_timeout
<1>1. v \in Number /\ v > 0
  BY Numbers DEF FineTick
<1>2. CASE v = 1
  <2>1. <<Set("request_timeout", 0)>> \o <<<<"timeout">>>> = <<Set("request_timeout", 0), <<"timeout">>>>
    <3>1. 0 \in Number
      BY Bounds
    <3>. QED BY <3>1, StoreThen, WordsIn, CountersIn, Zenon
  <2>2. v - 1 = 0
    BY <1>2, SMT
  <2>3. Push(t, <<Set("request_timeout", v - 1)>> \o (IF v - 1 = 0 THEN <<<<"timeout">>>> ELSE << >>))
    BY DEF FineTick
  <2>. HIDE DEF v
  <2>. QED BY <2>1, <2>2, <2>3
<1>3. CASE v # 1
  <2>0. v - 1 \in Number \ {0}
    <3>. HIDE DEF v
    <3>. QED BY <1>1, <1>3, Bounds, SMT
  <2>1. <<Set("request_timeout", v - 1)>> \o << >> = <<Set("request_timeout", v - 1)>>
    BY <2>0, StoreThen, WordsIn, CountersIn, Zenon
  <2>2. Push(t, <<Set("request_timeout", v - 1)>> \o (IF v - 1 = 0 THEN <<<<"timeout">>>> ELSE << >>))
    BY DEF FineTick
  <2>3. Push(t, <<Set("request_timeout", v - 1)>>)
    BY <2>0, <2>1, <2>2
  <2>. HIDE DEF v
  <2>. QED BY <2>0, <2>3
<1>. QED BY <1>2, <1>3

\* What dhcp_coarse_tmr begins.
LEMMA CoarseMoves ==
  ASSUME TypeInv, NEW t \in Driver, CoarseTick(t)
  PROVE  LET used == (mem.lease_used + 1) % Width IN
         \/ mem.state = "OFF" /\ Push(t, << >>)
         \/ mem.state # "OFF" /\ mem.t0_timeout = 0 /\ Push(t, <<<<"t2">>>>)
         \/ /\ mem.state # "OFF" /\ mem.t0_timeout # 0 /\ used = mem.t0_timeout
            /\ Push(t, <<Set("lease_used", used)>> \o Restart)
         \/ /\ mem.state # "OFF" /\ mem.t0_timeout # 0 /\ used # mem.t0_timeout
            /\ Push(t, <<Set("lease_used", used), <<"t2">>>>)
<1>. DEFINE used == (mem.lease_used + 1) % Width
<1>1. used \in Number
  BY Numbers, Bounds
<1>2. <<Set("lease_used", used)>> \o <<<<"t2">>>> = <<Set("lease_used", used), <<"t2">>>>
  <2>. HIDE DEF used
  <2>. QED BY <1>1, StoreThen, WordsIn, CountersIn, Zenon
<1>. DEFINE b == IF used = mem.t0_timeout THEN Restart ELSE <<<<"t2">>>>
            a == <<Set("lease_used", used)>> \o b
<1>3. Push(t, IF mem.state = "OFF" THEN << >>
              ELSE IF mem.t0_timeout = 0 THEN <<<<"t2">>>> ELSE a)
  BY DEF CoarseTick, Expired
<1>. HIDE DEF used, a
<1>4. CASE mem.state = "OFF"
  BY <1>3, <1>4
<1>5. CASE mem.state # "OFF" /\ mem.t0_timeout = 0
  BY <1>3, <1>5
<1>6. CASE mem.state # "OFF" /\ mem.t0_timeout # 0 /\ used = mem.t0_timeout
  <2>1. b = Restart
    BY <1>6
  <2>. HIDE DEF b
  <2>2. a = <<Set("lease_used", used)>> \o Restart
    BY <2>1 DEF a
  <2>. QED BY <1>3, <1>6, <2>2, Zenon DEF used
<1>7. CASE mem.state # "OFF" /\ mem.t0_timeout # 0 /\ used # mem.t0_timeout
  <2>1. b = <<<<"t2">>>>
    BY <1>7
  <2>. HIDE DEF b
  <2>2. a = <<Set("lease_used", used), <<"t2">>>>
    BY <1>2, <2>1 DEF a
  <2>. QED BY <1>3, <1>7, <2>2, Zenon DEF used
<1>. QED BY <1>4, <1>5, <1>6, <1>7, Zenon DEF used

-----------------------------------------------------------------------------
(* Types.                                                                  *)

\* What the actions have in common that look at fields only.
LEMMA LookTypes ==
  ASSUME TypeInv, NEW t \in Driver, todo[t] # << >>, NEW s \in Seq(Todos), Instead(t, s),
         mem' = mem, ticked' = ticked, age' = age, granted' = granted, asked' \in BOOLEAN,
         overlaps' = overlaps
  PROVE  TypeInv'
<1>1. todo' \in [Driver -> Seq(Todos)]
  BY Turn
<1>. QED BY <1>1, Zenon DEF TypeInv

\* What the actions have in common that an idle thread begins with.
LEMMA BeginTypes ==
  ASSUME TypeInv, NEW t \in Driver, Idle(t), NEW s \in Seq(Todos), Push(t, s),
         mem' = mem, ticked' \in [Driver -> BOOLEAN], age' \in 0..MaxAge, granted' \in Number,
         asked' \in BOOLEAN, overlaps' \subseteq {"tick", "bind"}
  PROVE  TypeInv'
<1>1. todo' \in [Driver -> Seq(Todos)]
  BY Beginning
<1>. QED BY <1>1, Zenon DEF TypeInv

\* Threads at a step have one.
LEMMA AtStep ==
  ASSUME TypeInv, NEW t \in Driver, NEW w, At(t, w)
  PROVE  /\ todo[t] # << >> /\ todo[t] \in Seq(Todos) /\ Head(todo[t]) \in Todos
         /\ Head(todo[t])[1] = w
<1>1. todo[t] # << >> /\ todo[t] \in Seq(Todos) /\ Head(todo[t])[1] = w
  BY DEF At, Idle, TypeInv
<1>. QED BY <1>1, FirstStep

\* Threads go on with sequences of such steps.
LEMMA PushedTypes ==
  /\ \A s \in States : Ask(s) \in Seq(Todos)
  /\ \A s \in States : SetState(s) \in Seq(Todos)
  /\ Restart \in Seq(Todos) /\ ReleaseSteps \in Seq(Todos) /\ NakSteps \in Seq(Todos)
  /\ OfferSteps \in Seq(Todos)
  /\ \A w \in Words : <<<<w>>>> \in Seq(Todos)
  /\ \A f \in Counter, v \in Number, w \in Words : <<Set(f, v), <<w>>>> \in Seq(Todos)
  /\ \A f \in Counter, v \in Number : /\ <<Set(f, v)>> \in Seq(Todos)
                                      /\ <<Set(f, v)>> \o Restart \in Seq(Todos)
  /\ \A s \in States : <<Set("state", s), Set("request_timeout", 0)>> \in Seq(Todos)
  /\ \A s \in States, w \in Words : Ask(s) \o <<<<w>>>> \in Seq(Todos)
<1>1. \A s \in States : Ask(s) \in Seq(Todos)
  BY AskSpelled
<1>2. \A s \in States : SetState(s) \in Seq(Todos)
  BY Short, StepsIn DEF SetState
<1>3. Restart \in Seq(Todos)
  BY Short, CallsIn DEF Restart
<1>4. \A w \in Words : <<<<w>>>> \in Seq(Todos)
  BY Short, StepsIn
<1>5. ASSUME NEW f \in Counter, NEW v \in Number, NEW w \in Words
      PROVE  <<Set(f, v), <<w>>>> \in Seq(Todos)
  <2>1. Set(f, v) \in Todos /\ <<w>> \in Todos
    BY StepsIn
  <2>. QED BY <2>1, Short
<1>6. \A f \in Counter, v \in Number : <<Set(f, v)>> \in Seq(Todos)
  BY Short, StepsIn
<1>7. \A f \in Counter, v \in Number : <<Set(f, v)>> \o Restart \in Seq(Todos)
  BY <1>3, <1>6, Places
<1>8. ASSUME NEW s \in States PROVE <<Set("state", s), Set("request_timeout", 0)>> \in Seq(Todos)
  <2>1. Set("state", s) \in Todos /\ Set("request_timeout", 0) \in Todos
    BY StepsIn, CountersIn, Bounds
  <2>. QED BY <2>1, Short
<1>9. \A s \in States, w \in Words : Ask(s) \o <<<<w>>>> \in Seq(Todos)
  BY <1>1, <1>4, Places
<1>10. ReleaseSteps \in Seq(Todos)
  <2>1. 0 \in Number
    BY Bounds
  <2>. DEFINE a == Set("offered_t0_lease", 0)
              b == Set("t0_timeout", 0)
              c == Set("lease_used", 0)
              d == Set("t2_rebind_time", 0)
              e == Set("t1_renew_time", 0)
              f == Set("addr", FALSE)
              g == <<"set state", "OFF">>
  <2>2. a \in Todos /\ b \in Todos /\ c \in Todos /\ d \in Todos /\ e \in Todos /\ f \in Todos /\ g \in Todos
    BY <2>1, StepsIn, CountersIn, StatesIn, Zenon
  <2>3. ReleaseSteps = <<a, b, c, d, e, f>> \o <<g>>
    BY DEF ReleaseSteps, SetState
  <2>. HIDE DEF a, b, c, d, e, f, g
  <2>4. <<a, b, c, d, e, f>> \o <<g>> \in Seq(Todos)
    BY <2>2, SixSpelled, Zenon
  <2>. QED BY <2>3, <2>4
<1>11. NakSteps \in Seq(Todos) /\ OfferSteps \in Seq(Todos)
  BY NakSpelled, OfferSpelled
<1>. QED BY <1>1, <1>2, <1>3, <1>4, <1>5, <1>6, <1>7, <1>8, <1>9, <1>10, <1>11, Zenon

\* An overlap is one of the two kinds.
LEMMA OverlapTypes == \A t \in Driver : Overlap(t) \subseteq {"tick", "bind"}
BY DEF Overlap

\* The first state has the types.
LEMMA TimersInitTypes == TimersInit => TypeInv
<1> SUFFICES ASSUME TimersInit PROVE TypeInv
  OBVIOUS
<1>1. <<<<"start">>>> \in Seq(Todos) /\ << >> \in Seq(Todos)
  BY PushedTypes, WordsIn, Short
<1>2. todo \in [Driver -> Seq(Todos)]
  BY <1>1, SMT DEF TimersInit
<1>3. mem = [f \in Fields |-> IF f = "state" THEN "OFF" ELSE IF f = "addr" THEN FALSE ELSE 0]
  BY DEF TimersInit, Cleared
<1>4. \A f \in Fields : mem[f] = IF f = "state" THEN "OFF" ELSE IF f = "addr" THEN FALSE ELSE 0
  BY <1>3, Zenon
<1>5. mem.state = "OFF" /\ mem.addr = FALSE /\ \A f \in Counter : mem[f] = 0
  BY <1>4, CountersIn, Zenon
<1>6. mem = [f \in Fields |-> mem[f]]
  BY <1>3, SMT
<1>7. ticked \in [Driver -> BOOLEAN]
  BY SMT DEF TimersInit
<1>8. age \in 0..MaxAge /\ granted \in Number /\ asked \in BOOLEAN /\ overlaps = {}
  <2>1. 0 \in 0..MaxAge
    BY TimersAssumption, SMT
  <2>. QED BY <2>1, Bounds, Zenon DEF TimersInit
<1>. QED
  BY <1>2, <1>5, <1>6, <1>7, <1>8, StatesIn, Bounds, Zenon DEF TypeInv

\* The steps of a thread keep the types.
LEMMA StepTypes ==
  ASSUME TypeInv, NEW t \in Driver, Step(t)
  PROVE  TypeInv'
<1>1. CASE Store(t)
  <2>1. At(t, "set")
    BY <1>1 DEF Store
  <2>. DEFINE x == Head(todo[t])
  <2>2. x \in Todos /\ x[1] = "set" /\ todo[t] # << >>
    BY <2>1, AtStep
  <2>3. mem' = [mem EXCEPT ![x[2]] = x[3]] /\ Instead(t, << >>)
        /\ ticked' = ticked /\ age' = age /\ granted' = granted /\ asked' = asked /\ overlaps' = overlaps
    BY <1>1 DEF Store, history
  <2>4. todo' \in [Driver -> Seq(Todos)]
    BY <2>2, <2>3, Turn, Short
  <2>. HIDE DEF x
  <2>5. /\ mem' = [f \in Fields |-> mem'[f]]
        /\ \A f \in Counter : mem'[f] \in Number
        /\ mem'.state \in States /\ mem'.addr \in BOOLEAN
    BY <2>2, <2>3, Stores
  <2>. QED BY <2>3, <2>4, <2>5, Zenon DEF TypeInv
<1>2. CASE Compare(t)
  <2>1. At(t, "set state")
    BY <1>2 DEF Compare
  <2>. DEFINE s == Head(todo[t])[2]
  <2>2. todo[t] # << >> /\ s \in States
    BY <2>1, AtStep, Storable
  <2>3. Instead(t, IF mem.state = s THEN << >> ELSE <<Set("state", s), Set("request_timeout", 0)>>)
        /\ mem' = mem /\ ticked' = ticked /\ age' = age /\ granted' = granted /\ asked' = asked
        /\ overlaps' = overlaps
    BY <1>2 DEF Compare, history
  <2>. HIDE DEF s
  <2>4. (IF mem.state = s THEN << >> ELSE <<Set("state", s), Set("request_timeout", 0)>>) \in Seq(Todos)
    BY <2>2, PushedTypes, Short
  <2>5. asked' \in BOOLEAN
    BY <2>3 DEF TypeInv
  <2>. QED BY <2>2, <2>3, <2>4, <2>5, LookTypes
<1>3. CASE Send(t)
  <2>1. At(t, "send")
    BY <1>3 DEF Send
  <2>2. todo[t] # << >>
    BY <2>1, AtStep
  <2>3. Instead(t, << >>) /\ mem' = mem /\ ticked' = ticked /\ age' = age /\ granted' = granted
        /\ overlaps' = overlaps
    BY <1>3 DEF Send
  <2>4. asked' \in BOOLEAN
    BY <1>3, Zenon DEF Send, TypeInv
  <2>. QED BY <2>2, <2>3, <2>4, LookTypes, Short
<1>4. CASE ReleaseAndStop(t)
  <2>1. At(t, "release")
    BY <1>4 DEF ReleaseAndStop
  <2>2. todo[t] # << >>
    BY <2>1, AtStep
  <2>3. Instead(t, IF mem.state = "OFF" THEN << >> ELSE ReleaseSteps)
        /\ mem' = mem /\ ticked' = ticked /\ age' = age /\ granted' = granted /\ asked' = asked
        /\ overlaps' = overlaps
    BY <1>4 DEF ReleaseAndStop, history, ReleaseSteps
  <2>4. (IF mem.state = "OFF" THEN << >> ELSE ReleaseSteps) \in Seq(Todos)
    BY PushedTypes, Short
  <2>5. asked' \in BOOLEAN
    BY <2>3 DEF TypeInv
  <2>. QED BY <2>2, <2>3, <2>4, <2>5, LookTypes
<1>5. CASE StartAgain(t)
  <2>1. At(t, "start")
    BY <1>5 DEF StartAgain
  <2>2. todo[t] # << >>
    BY <2>1, AtStep
  <2>3. Instead(t, Ask("SELECTING")) /\ mem' = Cleared(mem.addr)
        /\ ticked' = ticked /\ age' = age /\ granted' = granted /\ asked' = asked /\ overlaps' = overlaps
    BY <1>5 DEF StartAgain, history
  <2>4. todo' \in [Driver -> Seq(Todos)]
    BY <2>2, <2>3, Turn, PushedTypes, StatesIn
  <2>5. mem' = [f \in Fields |-> IF f = "state" THEN "OFF" ELSE IF f = "addr" THEN mem.addr ELSE 0]
    BY <2>3 DEF Cleared
  <2>6. \A f \in Fields : mem'[f] = IF f = "state" THEN "OFF" ELSE IF f = "addr" THEN mem.addr ELSE 0
    BY <2>5, Zenon
  <2>7. mem'.state = "OFF" /\ mem'.addr = mem.addr /\ \A f \in Counter : mem'[f] = 0
    BY <2>6, CountersIn, Zenon
  <2>8. mem' = [f \in Fields |-> mem'[f]]
    BY <2>5, SMT
  <2>. QED BY <2>3, <2>4, <2>7, <2>8, StatesIn, Bounds, Zenon DEF TypeInv
<1>6. CASE \/ Timeout(t) \/ TickT2(t) \/ TickT1(t) \/ T2Timeout(t) \/ T1Timeout(t)
           \/ NextT2(t) \/ NextT1(t)
  <2>1. todo[t] # << >>
    BY <1>6, AtStep DEF Timeout, TickT2, TickT1, T2Timeout, T1Timeout, NextT2, NextT1, NextTry
  <2>2. mem' = mem /\ ticked' = ticked /\ age' = age /\ granted' = granted /\ asked' = asked
        /\ overlaps' = overlaps
    BY <1>6 DEF Timeout, TickT2, TickT1, T2Timeout, T1Timeout, NextT2, NextT1, NextTry, history
  <2>3. asked' \in BOOLEAN
    BY <2>2 DEF TypeInv
  <2>4. \E s \in Seq(Todos) : Instead(t, s)
    <3>1. CASE Timeout(t)
      <4>1. Instead(t, Ask("SELECTING")) \/ Instead(t, Ask("REQUESTING")) \/ Instead(t, Restart)
            \/ Instead(t, << >>)
        BY <3>1 DEF Timeout
      <4>. QED BY <4>1, PushedTypes, Short, StatesIn
    <3>2. CASE TickT2(t)
      <4>. DEFINE v == mem.t2_rebind_time - 1
      <4>1. \/ Instead(t, <<<<"t1">>>>) \/ Instead(t, <<Set("t2_rebind_time", 0), <<"rebind">>>>)
            \/ v \in Number /\ Instead(t, <<Set("t2_rebind_time", v), <<"t1">>>>)
        BY <3>2, TickT2Moves
      <4>. HIDE DEF v
      <4>2. 0 \in Number
        BY Bounds
      <4>. QED BY <4>1, <4>2, PushedTypes, WordsIn, CountersIn, Zenon
    <3>3. CASE TickT1(t)
      <4>. DEFINE v == mem.t1_renew_time - 1
      <4>1. \/ Instead(t, << >>) \/ Instead(t, <<Set("t1_renew_time", 0), <<"renew">>>>)
            \/ v \in Number /\ Instead(t, <<Set("t1_renew_time", v)>>)
        BY <3>3, TickT1Moves
      <4>. HIDE DEF v
      <4>2. 0 \in Number /\ << >> \in Seq(Todos)
        BY Bounds, Short
      <4>. QED BY <4>1, <4>2, PushedTypes, WordsIn, CountersIn, Zenon
    <3>4. CASE T2Timeout(t)
      <4>1. Instead(t, Ask("REBINDING") \o <<<<"next t2">>>>) \/ Instead(t, << >>)
        BY <3>4, Zenon DEF T2Timeout
      <4>. QED BY <4>1, PushedTypes, Short, StatesIn DEF Words
    <3>5. CASE T1Timeout(t)
      <4>1. Instead(t, Ask("RENEWING") \o <<<<"next t1">>>>) \/ Instead(t, << >>)
        BY <3>5, Zenon DEF T1Timeout
      <4>. QED BY <4>1, PushedTypes, Short, StatesIn DEF Words
    <3>6. CASE NextT2(t)
      <4>. DEFINE half == (mem["t0_timeout"] - mem.lease_used) \div 2
      <4>1. Instead(t, IF half >= 1 THEN <<Set("t2_rebind_time", half)>> ELSE << >>)
        BY <3>6 DEF NextT2, NextTry
      <4>2. half >= 1 => half \in Number
        BY Numbers, Bounds
      <4>. HIDE DEF half
      <4>. QED BY <4>1, <4>2, PushedTypes, Short, CountersIn
    <3>7. CASE NextT1(t)
      <4>. DEFINE half == (mem["t2_timeout"] - mem.lease_used) \div 2
      <4>1. Instead(t, IF half >= 1 THEN <<Set("t1_renew_time", half)>> ELSE << >>)
        BY <3>7 DEF NextT1, NextTry
      <4>2. half >= 1 => half \in Number
        BY Numbers, Bounds
      <4>. HIDE DEF half
      <4>. QED BY <4>1, <4>2, PushedTypes, Short, CountersIn
    <3>. QED BY <1>6, <3>1, <3>2, <3>3, <3>4, <3>5, <3>6, <3>7
  <2>. QED BY <2>1, <2>2, <2>3, <2>4, LookTypes
<1>. QED BY <1>1, <1>2, <1>3, <1>4, <1>5, <1>6 DEF Step

\* Every step of the system keeps the types.
LEMMA TypeStep == TypeInv /\ [TimersNext]_timersvars => TypeInv'
<1> SUFFICES ASSUME TypeInv, [TimersNext]_timersvars PROVE TypeInv'
  OBVIOUS
<1>0. "tcpip" \in Driver
  BY DEF Driver
<1>1. ASSUME NEW t \in Driver, Step(t) PROVE TypeInv'
  BY <1>1, StepTypes
<1>2. ASSUME NEW t \in Driver, FineTick(t) PROVE TypeInv'
  <2>1. Idle(t) /\ mem' = mem /\ ticked' = ticked /\ age' = age /\ granted' = granted /\ asked' = asked
        /\ overlaps' = overlaps \union Overlap(t)
    BY <1>2 DEF FineTick
  <2>2. \E s \in Seq(Todos) : Push(t, s)
    BY <1>2, FineMoves, PushedTypes, WordsIn, CountersIn, Bounds, Zenon
  <2>3. /\ ticked' \in [Driver -> BOOLEAN] /\ age' \in 0..MaxAge /\ granted' \in Number
        /\ asked' \in BOOLEAN /\ overlaps' \subseteq {"tick", "bind"}
    BY <2>1, OverlapTypes, Zenon DEF TypeInv
  <2>. QED BY <2>1, <2>2, <2>3, BeginTypes
<1>3. ASSUME NEW t \in Driver, CoarseTick(t) PROVE TypeInv'
  <2>1. Idle(t) /\ mem' = mem /\ age' = age /\ granted' = granted /\ asked' = asked
        /\ overlaps' = overlaps \union Overlap(t)
        /\ ticked' = [ticked EXCEPT ![t] = TRUE]
    BY <1>3 DEF CoarseTick
  <2>2. \E s \in Seq(Todos) : Push(t, s)
    <3>. DEFINE used == (mem.lease_used + 1) % Width
    <3>1. \/ Push(t, << >>) \/ Push(t, <<<<"t2">>>>) \/ Push(t, <<Set("lease_used", used)>> \o Restart)
          \/ Push(t, <<Set("lease_used", used), <<"t2">>>>)
      BY <1>3, CoarseMoves, Zenon
    <3>2. used \in Number /\ << >> \in Seq(Todos)
      BY Numbers, Bounds, Short
    <3>. HIDE DEF used
    <3>. QED BY <3>1, <3>2, PushedTypes, WordsIn, CountersIn, Zenon
  <2>3. /\ ticked' \in [Driver -> BOOLEAN] /\ age' \in 0..MaxAge /\ granted' \in Number
        /\ asked' \in BOOLEAN /\ overlaps' \subseteq {"tick", "bind"}
    BY <2>1, OverlapTypes DEF TypeInv
  <2>. QED BY <2>1, <2>2, <2>3, BeginTypes
<1>4. CASE HandleOffer \/ HandleNak
  <2>1. Idle("tcpip") /\ mem' = mem /\ ticked' = ticked /\ age' = age /\ granted' = granted
        /\ asked' = asked /\ overlaps' = overlaps
    BY <1>4 DEF HandleOffer, HandleNak, history
  <2>2. Push("tcpip", OfferSteps) \/ Push("tcpip", NakSteps)
    BY <1>4 DEF HandleOffer, HandleNak, OfferSteps, NakSteps
  <2>3. \E s \in Seq(Todos) : Push("tcpip", s)
    BY <2>2, PushedTypes, StatesIn
  <2>4. /\ ticked' \in [Driver -> BOOLEAN] /\ age' \in 0..MaxAge /\ granted' \in Number
        /\ asked' \in BOOLEAN /\ overlaps' \subseteq {"tick", "bind"}
    BY <2>1, Zenon DEF TypeInv
  <2>. QED BY <1>0, <2>1, <2>3, <2>4, BeginTypes
<1>5. ASSUME NEW l \in Leases, HandleAck(l) PROVE TypeInv'
  <2>1. Idle("tcpip") /\ mem' = mem /\ ticked' = ticked /\ age' = 0 /\ granted' = l
        /\ asked' = FALSE /\ overlaps' = {k \in {"bind"} : ~Idle("net")}
        /\ Push("tcpip", <<Set("offered_t0_lease", l), <<"bind">>, Set("addr", TRUE)>>)
    BY <1>5 DEF HandleAck
  <2>2. l \in Number
    BY Bounds
  <2>3. <<Set("offered_t0_lease", l), <<"bind">>, Set("addr", TRUE)>> \in Seq(Todos)
    <3>1. Set("offered_t0_lease", l) \in Todos /\ <<"bind">> \in Todos /\ Set("addr", TRUE) \in Todos
      BY <2>2, StepsIn, CountersIn, CallsIn, Zenon
    <3>2. ASSUME NEW a \in Todos, NEW b \in Todos, NEW c \in Todos PROVE <<a, b, c>> \in Seq(Todos)
      BY SMT
    <3>. QED BY <3>1, <3>2, Zenon
  <2>4. /\ ticked' \in [Driver -> BOOLEAN] /\ age' \in 0..MaxAge /\ granted' \in Number
        /\ asked' \in BOOLEAN /\ overlaps' \subseteq {"tick", "bind"}
    <3>1. 0 \in 0..MaxAge
      BY TimersAssumption, SMT
    <3>. QED BY <2>1, <2>2, <3>1, Zenon DEF TypeInv
  <2>. QED BY <1>0, <2>1, <2>3, <2>4, BeginTypes
<1>6. CASE Bind
  <2>1. At("tcpip", "bind") /\ mem' = mem /\ ticked' = ticked /\ age' = age /\ granted' = granted
        /\ asked' = asked /\ overlaps' = overlaps
    BY <1>6 DEF Bind, history
  <2>2. Instead("tcpip", BindTail(mem.offered_t0_lease))
    BY <1>6 DEF Bind, BindTail
  <2>3. BindTail(mem.offered_t0_lease) \in Seq(Todos)
    BY BindSpelled, Numbers
  <2>4. asked' \in BOOLEAN
    BY <2>1 DEF TypeInv
  <2>. QED BY <1>0, <2>1, <2>2, <2>3, <2>4, AtStep, LookTypes
<1>7. CASE Minute
  <2>1. mem' = mem /\ todo' = todo /\ granted' = granted /\ asked' = asked /\ overlaps' = overlaps
        /\ ticked' = [t \in Driver |-> FALSE] /\ age' = IF age < MaxAge THEN age + 1 ELSE age
    BY <1>7 DEF Minute
  <2>2. ticked' \in [Driver -> BOOLEAN]
    BY <2>1, SMT
  <2>3. age' \in 0..MaxAge
    BY <2>1, TimersAssumption, SMT DEF TypeInv
  <2>. QED BY <2>1, <2>2, <2>3, Zenon DEF TypeInv
<1>8. CASE UNCHANGED timersvars
  BY <1>8, Zenon DEF timersvars, TypeInv
<1>. QED BY <1>1, <1>2, <1>3, <1>4, <1>5, <1>6, <1>7, <1>8 DEF TimersNext

-----------------------------------------------------------------------------
(* The address is used only while it is leased.                            *)

\* Steps that end the use of an address, that turn the client off, that store
\* how much of the lease is used, and how long it is.
Addr    == Set("addr", TRUE)
NoAddr  == Set("addr", FALSE)
TurnOff == Set("state", "OFF")
LookOff == <<"set state", "OFF">>
Binders == {x \in Todos : x[1] = "bind" \/ x = Addr}
Kills   == {x \in Todos : x[1] = "release" \/ x = NoAddr}
Offs    == {x \in Todos : x[1] = "start" \/ x = LookOff \/ x = TurnOff}
Uses    == {x \in Todos : x[1] = "set" /\ x[2] = "lease_used"}
Lengths == {x \in Todos : x[1] = "set" /\ x[2] = "t0_timeout"}
Plain    == Todos \ Binders
Harmless == Plain \ (Kills \union Offs \union Uses \union Lengths)

\* Stores of at least what the lease has lasted, and less than its length.
InTime == {Set("lease_used", v) : v \in age..(granted - 1)}

\* The lease is counted, by one minute less than it has lasted at most, and
\* that minute is one that no thread has counted yet.
Alive ==
  /\ \A t \in Driver : Only(todo[t], Harmless \union InTime)
  /\ mem.t0_timeout = granted
  /\ mem.lease_used < granted
  /\ age <= mem.lease_used + 1
  /\ \A t \in Driver : ticked[t] => age <= mem.lease_used \/ Has(todo[t], Uses)

\* No ACK is being handled.  An address is leased, or about to be removed, and
\* the client is not turned off before that.
Serving ==
  /\ \A t \in Driver : Only(todo[t], Plain)
  /\ mem.addr => /\ mem.state # "OFF"
                 /\ \A t \in Driver : Led(todo[t], Offs, Kills)
                 /\ Alive \/ \E t \in Driver : Has(todo[t], Kills)

-----------------------------------------------------------------------------
\* The steps that the sets below name.
LEMMA Special ==
  /\ Addr \in Todos /\ Addr[1] = "set" /\ Addr[2] = "addr" /\ Addr # NoAddr
  /\ NoAddr \in Todos /\ NoAddr[1] = "set" /\ NoAddr[2] = "addr"
  /\ TurnOff \in Todos /\ TurnOff[1] = "set" /\ TurnOff[2] = "state" /\ TurnOff[3] = "OFF"
  /\ LookOff \in Todos /\ LookOff[1] = "set state" /\ LookOff[2] = "OFF"
<1>1. /\ Addr \in Todos /\ Addr[1] = "set" /\ Addr[2] = "addr" /\ Addr[3] = TRUE
      /\ NoAddr \in Todos /\ NoAddr[1] = "set" /\ NoAddr[2] = "addr" /\ NoAddr[3] = FALSE
  BY StepsIn, Parts, Zenon DEF Addr, NoAddr
<1>2. Addr # NoAddr
  BY <1>1, Zenon
<1>3. /\ TurnOff \in Todos /\ TurnOff[1] = "set" /\ TurnOff[2] = "state" /\ TurnOff[3] = "OFF"
      /\ LookOff \in Todos /\ LookOff[1] = "set state" /\ LookOff[2] = "OFF"
  <2>1. "OFF" \in States
    BY StatesIn
  <2>2. TurnOff \in Todos /\ LookOff \in Todos
    BY <2>1, StepsIn DEF TurnOff, LookOff
  <2>3. TurnOff[1] = "set" /\ TurnOff[2] = "state" /\ TurnOff[3] = "OFF"
    BY Parts DEF TurnOff
  <2>4. LookOff[1] = "set state" /\ LookOff[2] = "OFF"
    BY Parts DEF LookOff
  <2>. QED BY <2>2, <2>3, <2>4
<1>. QED BY <1>1, <1>2, <1>3

\* Which of the sets the steps belong to.
LEMMA Kinds ==
  /\ \A f \in Counter, v \in Number :
       /\ Set(f, v) \in Plain /\ Set(f, v) \notin Kills /\ Set(f, v) \notin Offs
       /\ f # "lease_used" /\ f # "t0_timeout" => Set(f, v) \in Harmless
  /\ \A s \in States :
       /\ Set("state", s) \in Plain /\ <<"set state", s>> \in Plain /\ <<"send", s>> \in Harmless
       /\ s # "OFF" => Set("state", s) \in Harmless /\ <<"set state", s>> \in Harmless
  /\ \A w \in Words \ {"bind"} :
       /\ <<w>> \in Plain
       /\ w # "release" /\ w # "start" => <<w>> \in Harmless
  /\ <<"release">> \in Kills /\ <<"release">> \notin Offs
  /\ NoAddr \in Plain /\ NoAddr \in Kills /\ NoAddr \notin Offs
  /\ Harmless \subseteq Plain
<1>1. ASSUME NEW f \in Counter, NEW v \in Number
      PROVE  /\ Set(f, v) \in Plain /\ Set(f, v) \notin Kills /\ Set(f, v) \notin Offs
             /\ f # "lease_used" /\ f # "t0_timeout" => Set(f, v) \in Harmless
  <2>. DEFINE x == Set(f, v)
  <2>1. x \in Todos /\ x[1] = "set" /\ x[2] = f
    BY StepsIn, Parts
  <2>2. f # "addr" /\ f # "state"
    BY CountersIn
  <2>. HIDE DEF x
  <2>3. x # Addr /\ x # NoAddr /\ x # TurnOff /\ x # LookOff
    BY <2>1, <2>2, Special
  <2>4. /\ x \in Plain /\ x \notin Kills /\ x \notin Offs
        /\ f # "lease_used" /\ f # "t0_timeout" => x \in Harmless
    BY <2>1, <2>3 DEF Plain, Harmless, Binders, Kills, Offs, Uses, Lengths
  <2>. QED BY <2>4 DEF x
<1>2. ASSUME NEW s \in States
      PROVE  /\ Set("state", s) \in Plain /\ <<"set state", s>> \in Plain /\ <<"send", s>> \in Harmless
             /\ s # "OFF" => Set("state", s) \in Harmless /\ <<"set state", s>> \in Harmless
  <2>. DEFINE x == Set("state", s)
              y == <<"set state", s>>
              z == <<"send", s>>
  <2>1. /\ x \in Todos /\ x[1] = "set" /\ x[2] = "state" /\ x[3] = s
        /\ y \in Todos /\ y[1] = "set state" /\ y[2] = s
        /\ z \in Todos /\ z[1] = "send"
    BY StepsIn, Parts
  <2>. HIDE DEF x, y, z
  <2>2. x # Addr /\ x # NoAddr /\ x # LookOff /\ (s # "OFF" => x # TurnOff)
    BY <2>1, Special
  <2>3. y # Addr /\ y # NoAddr /\ y # TurnOff /\ (s # "OFF" => y # LookOff)
    BY <2>1, Special
  <2>4. z # Addr /\ z # NoAddr /\ z # TurnOff /\ z # LookOff
    BY <2>1, Special
  <2>5. x \in Plain /\ (s # "OFF" => x \in Harmless)
    BY <2>1, <2>2 DEF Plain, Harmless, Binders, Kills, Offs, Uses, Lengths
  <2>6. y \in Plain /\ (s # "OFF" => y \in Harmless)
    BY <2>1, <2>3 DEF Plain, Harmless, Binders, Kills, Offs, Uses, Lengths
  <2>7. z \in Harmless
    BY <2>1, <2>4 DEF Plain, Harmless, Binders, Kills, Offs, Uses, Lengths
  <2>. QED BY <2>5, <2>6, <2>7 DEF x, y, z
<1>3. ASSUME NEW w \in Words \ {"bind"}
      PROVE  /\ <<w>> \in Plain
             /\ w # "release" /\ w # "start" => <<w>> \in Harmless
  <2>. DEFINE x == <<w>>
  <2>1. x \in Todos /\ x[1] = w /\ w # "set" /\ w # "set state" /\ w # "bind"
    BY StepsIn, Parts, Zenon DEF Words
  <2>. HIDE DEF x
  <2>2. x # Addr /\ x # NoAddr /\ x # TurnOff /\ x # LookOff
    BY <2>1, Special
  <2>3. /\ x \in Plain
        /\ w # "release" /\ w # "start" => x \in Harmless
    BY <2>1, <2>2 DEF Plain, Harmless, Binders, Kills, Offs, Uses, Lengths
  <2>. QED BY <2>3 DEF x
<1>4. <<"release">> \in Kills /\ <<"release">> \notin Offs
  <2>1. <<"release">> \in Todos /\ <<"release">>[1] = "release"
    BY CallsIn, Parts
  <2>2. <<"release">> # TurnOff /\ <<"release">> # LookOff
    BY <2>1, Special
  <2>. QED BY <2>1, <2>2 DEF Kills, Offs
<1>5. NoAddr \in Plain /\ NoAddr \in Kills /\ NoAddr \notin Offs
  <2>1. NoAddr # TurnOff /\ NoAddr # LookOff /\ NoAddr # Addr
    BY Special
  <2>2. NoAddr \in Plain /\ NoAddr \notin Offs
    BY <2>1, Special DEF Plain, Binders, Offs
  <2>3. NoAddr \in Kills
    BY Special, Zenon DEF Kills
  <2>. QED BY <2>2, <2>3
<1>. QED BY <1>1, <1>2, <1>3, <1>4, <1>5 DEF Harmless

\* From no step in A to no harm.
LEMMA OnlyIn ==
  ASSUME NEW q, NEW A, NEW B
  PROVE  /\ Only(q, A) /\ A \subseteq B => Only(q, B)
         /\ Only(q, A) /\ A \intersect B = {} => ~Has(q, B)
         /\ ~Has(q, A) => \A C : Led(q, A, C) /\ Followed(q, A, C)
         /\ Has(q, A) /\ A \subseteq B => Has(q, B)
BY Zenon DEF Only, Has, Led, Followed

\* What is left to do grows by harmless steps.
Quietly(q, r) ==
  /\ \A A : Harmless \subseteq A /\ Only(q, A) => Only(r, A)
  /\ Has(q, Kills) => Has(r, Kills)
  /\ Led(q, Offs, Kills) => Led(r, Offs, Kills)
  /\ Has(q, Uses) => Has(r, Uses)

\* A harmless step leaves harmless steps, if any.
LEMMA QuietTurn ==
  ASSUME NEW q \in Seq(Todos), q # << >>, Head(q) \in Harmless,
         NEW s \in Seq(Todos), Only(s, Harmless)
  PROVE  Quietly(q, s \o Tail(q))
<1>. DEFINE u == Tail(q)
<1>1. /\ u \in Seq(Todos)
      /\ \A A : Has(q, A) <=> Head(q) \in A \/ Has(u, A)
      /\ \A A : Only(q, A) <=> Head(q) \in A /\ Only(u, A)
      /\ Led(q, Offs, Kills) => Head(q) \in Kills \/ Led(u, Offs, Kills)
  BY FirstStep
<1>2. Head(q) \notin Kills /\ Head(q) \notin Uses
  BY DEF Harmless
<1>3. Led(s, Offs, Kills)
  BY OnlyIn DEF Harmless
<1>. HIDE DEF u
<1>4. \A A : /\ Has(s \o u, A) <=> Has(s, A) \/ Has(u, A)
             /\ Only(s \o u, A) <=> Only(s, A) /\ Only(u, A)
  BY <1>1, HasCat
<1>5. ASSUME NEW A, Harmless \subseteq A, Only(q, A) PROVE Only(s \o u, A)
  <2>1. Only(s, A)
    BY <1>5, OnlyIn
  <2>. QED BY <2>1, <1>1, <1>4, <1>5
<1>6. Led(q, Offs, Kills) => Led(s \o u, Offs, Kills)
  BY <1>1, <1>2, <1>3, LedCat
<1>. QED BY <1>1, <1>2, <1>4, <1>5, <1>6, Zenon DEF Quietly, u

\* An idle thread begins harmless steps.
LEMMA QuietBegin ==
  ASSUME NEW s \in Seq(Todos), Only(s, Harmless)
  PROVE  Quietly(<< >>, s)
<1>1. Led(s, Offs, Kills)
  BY OnlyIn DEF Harmless
<1>2. ASSUME NEW A, Harmless \subseteq A PROVE Only(s, A)
  BY <1>2, OnlyIn
<1>. QED BY <1>1, <1>2, Short, Zenon DEF Quietly

\* Harmless steps do not end a lease.
LEMMA QuietServing ==
  ASSUME TypeInv, Serving, NEW t \in Driver, Quietly(todo[t], todo'[t]),
         \A o \in Driver \ {t} : todo'[o] = todo[o],
         mem' = mem, ticked' = ticked, age' = age, granted' = granted
  PROVE  Serving'
<1>1. \A A : Harmless \subseteq A /\ (\A o \in Driver : Only(todo[o], A)) => \A o \in Driver : Only(todo'[o], A)
  BY Zenon DEF Quietly
<1>2. \A o \in Driver : Has(todo[o], Kills) => Has(todo'[o], Kills)
  BY Zenon DEF Quietly
<1>3. (\A o \in Driver : Led(todo[o], Offs, Kills)) => \A o \in Driver : Led(todo'[o], Offs, Kills)
  BY Zenon DEF Quietly
<1>4. \A o \in Driver : Has(todo[o], Uses) => Has(todo'[o], Uses)
  BY Zenon DEF Quietly
<1>5. Harmless \subseteq Plain /\ Harmless \subseteq Harmless \union InTime /\ InTime' = InTime
  BY Zenon DEF Harmless, InTime
<1>6. \A o \in Driver : Only(todo'[o], Plain)
  BY <1>1, <1>5, Zenon DEF Serving
<1>7. Alive => Alive'
  BY <1>1, <1>4, <1>5, Zenon DEF Alive
<1>. QED BY <1>2, <1>3, <1>6, <1>7, Zenon DEF Serving

\* The address is about to be removed.
LEMMA KillServing ==
  ASSUME TypeInv, Serving, NEW t \in Driver, NEW s \in Seq(Todos),
         Only(s, Plain), Led(s, Offs, Kills), Has(s, Kills),
         \/ todo'[t] = s
         \/ todo[t] # << >> /\ todo'[t] = s \o Tail(todo[t]),
         \A o \in Driver \ {t} : todo'[o] = todo[o],
         mem' = mem
  PROVE  Serving'
<1>1. Only(todo'[t], Plain) /\ Led(todo'[t], Offs, Kills) /\ Has(todo'[t], Kills)
  <2>1. CASE todo[t] # << >> /\ todo'[t] = s \o Tail(todo[t])
    <3>. DEFINE u == Tail(todo[t])
    <3>1. todo[t] \in Seq(Todos)
      BY DEF TypeInv
    <3>2. u \in Seq(Todos) /\ (Only(todo[t], Plain) => Only(u, Plain))
      BY <2>1, <3>1, FirstStep
    <3>3. Only(u, Plain)
      BY <3>2 DEF Serving
    <3>. HIDE DEF u
    <3>4. Only(s \o u, Plain) /\ Has(s \o u, Kills)
      BY <3>2, <3>3, HasCat
    <3>5. Led(s \o u, Offs, Kills)
      BY <3>2, LedCat
    <3>. QED BY <2>1, <3>4, <3>5 DEF u
  <2>. QED BY <2>1
<1>. QED BY <1>1, Zenon DEF Serving

\* Which of the sets the steps of the handlers belong to.
LEMMA PushedKinds ==
  /\ \A s \in States \ {"OFF"} :
       /\ Only(Ask(s), Harmless) /\ Only(SetState(s), Harmless)
       /\ Only(<<Set("state", s), Set("request_timeout", 0)>>, Harmless)
       /\ \A w \in Words \ {"bind", "release", "start"} : Only(Ask(s) \o <<<<w>>>>, Harmless)
  /\ \A w \in Words \ {"bind", "release", "start"} :
       /\ Only(<<<<w>>>>, Harmless)
       /\ \A f \in Counter \ {"lease_used", "t0_timeout"}, v \in Number : Only(<<Set(f, v), <<w>>>>, Harmless)
  /\ \A f \in Counter \ {"lease_used", "t0_timeout"}, v \in Number : Only(<<Set(f, v)>>, Harmless)
  /\ Only(Restart, Plain) /\ Led(Restart, Offs, Kills) /\ Has(Restart, Kills)
  /\ Only(ReleaseSteps, Plain) /\ Led(ReleaseSteps, Offs, Kills) /\ Has(ReleaseSteps, Kills)
  /\ Only(NakSteps, Plain) /\ Led(NakSteps, Offs, Kills) /\ Has(NakSteps, Kills)
  /\ \A v \in Number : /\ Only(<<Set("lease_used", v)>> \o Restart, Plain)
                       /\ Led(<<Set("lease_used", v)>> \o Restart, Offs, Kills)
                       /\ Has(<<Set("lease_used", v)>> \o Restart, Kills)
  /\ \A s \in States : Only(<<Set("state", s), Set("request_timeout", 0)>>, Plain)
<1>1. \A f \in Counter \ {"lease_used", "t0_timeout"}, v \in Number : Set(f, v) \in Harmless
  BY Kinds
<1>2. \A w \in Words \ {"bind", "release", "start"} : <<w>> \in Harmless
  BY Kinds
<1>3. Set("request_timeout", 0) \in Harmless /\ Set("request_timeout", Ticks) \in Harmless
  <2>1. "request_timeout" \in Counter \ {"lease_used", "t0_timeout"} /\ 0 \in Number /\ Ticks \in Number
    BY CountersIn, Bounds
  <2>. QED BY <1>1, <2>1
<1>4. ASSUME NEW s \in States \ {"OFF"}
      PROVE  /\ Only(Ask(s), Harmless) /\ Only(SetState(s), Harmless)
             /\ Only(<<Set("state", s), Set("request_timeout", 0)>>, Harmless)
             /\ \A w \in Words \ {"bind", "release", "start"} : Only(Ask(s) \o <<<<w>>>>, Harmless)
  <2>1. <<"set state", s>> \in Harmless /\ <<"send", s>> \in Harmless /\ Set("state", s) \in Harmless
    BY Kinds
  <2>2. Only(Ask(s), Harmless)
    BY <1>3, <2>1, AskSpelled
  <2>3. Only(SetState(s), Harmless)
    BY <2>1, Short DEF SetState
  <2>4. Only(<<Set("state", s), Set("request_timeout", 0)>>, Harmless)
    BY <1>3, <2>1, Short
  <2>5. ASSUME NEW w \in Words \ {"bind", "release", "start"} PROVE Only(Ask(s) \o <<<<w>>>>, Harmless)
    <3>1. Ask(s) \in Seq(Todos) /\ <<<<w>>>> \in Seq(Todos)
      BY PushedTypes
    <3>2. Only(<<<<w>>>>, Harmless)
      BY <1>2, Short
    <3>. QED BY <2>2, <3>1, <3>2, HasCat
  <2>. QED BY <2>2, <2>3, <2>4, <2>5
<1>5. ASSUME NEW w \in Words \ {"bind", "release", "start"}
      PROVE  /\ Only(<<<<w>>>>, Harmless)
             /\ \A f \in Counter \ {"lease_used", "t0_timeout"}, v \in Number : Only(<<Set(f, v), <<w>>>>, Harmless)
  <2>1. Only(<<<<w>>>>, Harmless)
    BY <1>2, Short
  <2>2. ASSUME NEW f \in Counter \ {"lease_used", "t0_timeout"}, NEW v \in Number
        PROVE  Only(<<Set(f, v), <<w>>>>, Harmless)
    <3>1. Set(f, v) \in Harmless /\ <<w>> \in Harmless
      BY <1>1, <1>2
    <3>. QED BY <3>1, Short
  <2>. QED BY <2>1, <2>2
<1>6. \A f \in Counter \ {"lease_used", "t0_timeout"}, v \in Number : Only(<<Set(f, v)>>, Harmless)
  BY <1>1, Short
<1>7. Only(Restart, Plain) /\ Led(Restart, Offs, Kills) /\ Has(Restart, Kills)
  <2>1. <<"release">> \in Plain /\ <<"start">> \in Plain
    <3>1. "release" \in Words \ {"bind"} /\ "start" \in Words \ {"bind"}
      BY WordsIn
    <3>. QED BY <3>1, Kinds
  <2>2. <<"release">> \in Kills /\ <<"release">> \notin Offs
    BY Kinds
  <2>3. Only(Restart, Plain)
    BY <2>1, Short DEF Restart
  <2>4. Has(Restart, Kills)
    BY <2>2, Short DEF Restart
  <2>5. Led(Restart, Offs, Kills)
    BY <2>2, Short DEF Restart
  <2>. QED BY <2>3, <2>4, <2>5
<1>8. Only(ReleaseSteps, Plain) /\ Led(ReleaseSteps, Offs, Kills) /\ Has(ReleaseSteps, Kills)
  <2>. DEFINE a == Set("offered_t0_lease", 0)
              b == Set("t0_timeout", 0)
              c == Set("lease_used", 0)
              d == Set("t2_rebind_time", 0)
              e == Set("t1_renew_time", 0)
  <2>1. a \in Plain /\ b \in Plain /\ c \in Plain /\ d \in Plain /\ e \in Plain
        /\ a \notin Offs /\ b \notin Offs /\ c \notin Offs /\ d \notin Offs /\ e \notin Offs
    <3>1. 0 \in Number
      BY Bounds
    <3>. QED BY <3>1, Kinds, CountersIn, Zenon
  <2>2. LookOff \in Plain
    BY Kinds, StatesIn, Zenon DEF LookOff
  <2>3. ReleaseSteps = <<a, b, c, d, e, NoAddr>> \o <<LookOff>>
    BY DEF ReleaseSteps, SetState, LookOff, NoAddr
  <2>. HIDE DEF a, b, c, d, e
  <2>4. a \in Todos /\ b \in Todos /\ c \in Todos /\ d \in Todos /\ e \in Todos
        /\ NoAddr \in Todos /\ LookOff \in Todos
    BY <2>1, Special DEF Plain
  <2>5. Only(<<a, b, c, d, e, NoAddr>> \o <<LookOff>>, Plain)
    BY <2>1, <2>2, <2>4, SixSpelled, Kinds, Zenon
  <2>6. Has(<<a, b, c, d, e, NoAddr>> \o <<LookOff>>, Kills)
    <3>1. NoAddr \in Kills
      BY Kinds
    <3>. QED BY <2>4, <3>1, SixSpelled, Zenon
  <2>7. Led(<<a, b, c, d, e, NoAddr>> \o <<LookOff>>, Offs, Kills)
    BY <2>1, <2>4, SixSpelled, Kinds, Zenon
  <2>. QED BY <2>3, <2>5, <2>6, <2>7
<1>9. Only(NakSteps, Plain) /\ Led(NakSteps, Offs, Kills) /\ Has(NakSteps, Kills)
  <2>1. "SELECTING" \in States \ {"OFF"} /\ "BACKING_OFF" \in States \ {"OFF"}
    BY StatesIn
  <2>2. <<"set state", "BACKING_OFF">> \in Harmless
    BY <2>1, Kinds
  <2>3. Only(Ask("SELECTING"), Harmless)
    BY <1>4, <2>1
  <2>4. Only(Ask("SELECTING"), Plain) /\ Led(Ask("SELECTING"), Offs, Kills)
    <3>1. Only(Ask("SELECTING"), Plain)
      BY <2>3, OnlyIn, Kinds
    <3>2. ~Has(Ask("SELECTING"), Offs)
      BY <2>3, OnlyIn DEF Harmless
    <3>. QED BY <3>1, <3>2, OnlyIn
  <2>5. <<"set state", "BACKING_OFF">> \in Plain /\ <<"set state", "BACKING_OFF">> \notin Offs
    BY <2>2 DEF Harmless
  <2>. QED BY <2>4, <2>5, Kinds, NakSpelled, Zenon DEF NoAddr
<1>10. ASSUME NEW v \in Number
       PROVE  /\ Only(<<Set("lease_used", v)>> \o Restart, Plain)
              /\ Led(<<Set("lease_used", v)>> \o Restart, Offs, Kills)
              /\ Has(<<Set("lease_used", v)>> \o Restart, Kills)
  <2>. DEFINE p == <<Set("lease_used", v)>>
  <2>1. Set("lease_used", v) \in Plain /\ Set("lease_used", v) \notin Offs
    BY Kinds, CountersIn
  <2>2. p \in Seq(Todos) /\ Restart \in Seq(Todos)
    BY PushedTypes, CountersIn
  <2>3. Only(p, Plain) /\ Led(p, Offs, Kills)
    BY <2>1, Short
  <2>. HIDE DEF p
  <2>4. Only(p \o Restart, Plain) /\ Led(p \o Restart, Offs, Kills) /\ Has(p \o Restart, Kills)
    BY <1>7, <2>2, <2>3, HasCat, LedCat
  <2>. QED BY <2>4 DEF p
<1>11. ASSUME NEW s \in States PROVE Only(<<Set("state", s), Set("request_timeout", 0)>>, Plain)
  <2>1. Set("state", s) \in Plain /\ Set("request_timeout", 0) \in Plain
    BY <1>3, Kinds
  <2>. QED BY <2>1, Short
<1>. QED BY <1>4, <1>5, <1>6, <1>7, <1>8, <1>9, <1>10, <1>11, Zenon

-----------------------------------------------------------------------------
\* A store keeps the invariant.
LEMMA ServingStore ==
  ASSUME TypeInv, Serving, NEW t \in Driver, Store(t)
  PROVE  Serving'
<1>1. At(t, "set")
  BY DEF Store
<1>. DEFINE x == Head(todo[t])
            u == Tail(todo[t])
<1>2. todo[t] # << >> /\ todo[t] \in Seq(Todos) /\ x \in Todos /\ x[1] = "set"
  BY <1>1, AtStep
<1>3. mem' = [mem EXCEPT ![x[2]] = x[3]] /\ Instead(t, << >>)
      /\ ticked' = ticked /\ age' = age /\ granted' = granted
  BY DEF Store, history
<1>4. /\ u \in Seq(Todos)
      /\ \A A : Has(todo[t], A) <=> x \in A \/ Has(u, A)
      /\ \A A : Only(todo[t], A) <=> x \in A /\ Only(u, A)
      /\ Led(todo[t], Offs, Kills) => x \notin Offs /\ (x \in Kills \/ Led(u, Offs, Kills))
  BY <1>2, FirstStep
<1>5. todo'[t] = u /\ \A o \in Driver \ {t} : todo'[o] = todo[o]
  <2>1. << >> \in Seq(Todos) /\ << >> \o u = u
    BY <1>4, Short, ConcatEmptySeq
  <2>. QED BY <1>2, <1>3, <2>1, Turn
<1>. HIDE DEF x, u
<1>6. /\ mem'.state \in States /\ mem'.addr \in BOOLEAN
      /\ \A f \in Fields : mem'[f] = IF f = x[2] THEN x[3] ELSE mem[f]
  BY <1>2, <1>3, Stores
<1>7. x \in Plain /\ \A o \in Driver : Only(todo'[o], Plain)
  BY <1>4, <1>5, Zenon DEF Serving
<1>8. x = Set(x[2], x[3])
  BY <1>2, Storable
<1>9. ASSUME mem'.addr
      PROVE  /\ mem'.state # "OFF"
             /\ \A o \in Driver : Led(todo'[o], Offs, Kills)
             /\ Alive' \/ \E o \in Driver : Has(todo'[o], Kills)
  <2>1. x[2] # "addr"
    <3> SUFFICES ASSUME x[2] = "addr" PROVE FALSE
      OBVIOUS
    <3>1. x[3] = mem'.addr
      BY <1>6, CountersIn, Zenon
    <3>2. x[3] = TRUE
      BY <1>6, <1>9, <3>1, Zenon
    <3>3. x = Addr
      BY <1>8, <3>2, Zenon DEF Addr
    <3>. QED BY <1>2, <1>7, <3>3 DEF Plain, Binders
  <2>2. mem.addr
    BY <1>6, <1>9, <2>1, CountersIn, Zenon
  <2>3. mem.state # "OFF" /\ (\A o \in Driver : Led(todo[o], Offs, Kills))
        /\ (Alive \/ \E o \in Driver : Has(todo[o], Kills))
    BY <2>2, Zenon DEF Serving
  <2>4. x \notin Offs /\ x \notin Kills
    <3>1. x \notin Offs
      BY <1>4, <2>3
    <3>2. x # NoAddr
      BY <2>1, Special
    <3>. QED BY <1>2, <3>1, <3>2 DEF Kills
  <2>5. mem'.state # "OFF"
    <3>1. x[2] = "state" => x[3] # "OFF"
      <4> SUFFICES ASSUME x[2] = "state", x[3] = "OFF" PROVE FALSE
        OBVIOUS
      <4>1. x = TurnOff
        BY <1>8 DEF TurnOff
      <4>. QED BY <1>2, <2>4, <4>1 DEF Offs
    <3>. QED BY <1>6, <2>3, <3>1, CountersIn, Zenon
  <2>6. \A o \in Driver : Led(todo'[o], Offs, Kills)
    BY <1>4, <1>5, <2>3, <2>4, Zenon
  <2>7. (\E o \in Driver : Has(todo[o], Kills)) => \E o \in Driver : Has(todo'[o], Kills)
    BY <1>4, <1>5, <2>4, Zenon
  <2>8. ASSUME Alive PROVE Alive'
    <3>1. /\ \A o \in Driver : Only(todo'[o], Harmless \union InTime)
          /\ x \in Harmless \union InTime
      BY <1>4, <1>5, <2>8, Zenon DEF Alive
    <3>2. InTime' = InTime
      BY <1>3 DEF InTime
    <3>3. CASE x \in InTime
      <4>1. PICK v \in age..(granted - 1) : x = Set("lease_used", v)
        BY <3>3, Zenon DEF InTime
      <4>2. x[2] = "lease_used" /\ x[3] = v
        BY <4>1, Parts
      <4>3. mem'.lease_used = v /\ mem'.t0_timeout = mem.t0_timeout
        BY <1>6, <4>2, CountersIn
      <4>4. v < granted /\ age <= v /\ age <= v + 1
        BY Bounds, SMT DEF TypeInv
      <4>. QED BY <1>3, <2>8, <3>1, <3>2, <4>3, <4>4 DEF Alive
    <3>4. CASE x \in Harmless
      <4>1. x[2] # "lease_used" /\ x[2] # "t0_timeout" /\ x \notin Uses
        BY <1>2, <3>4 DEF Harmless, Uses, Lengths
      <4>2. mem'.lease_used = mem.lease_used /\ mem'.t0_timeout = mem.t0_timeout
        BY <1>6, <4>1, CountersIn
      <4>3. \A o \in Driver : Has(todo[o], Uses) => Has(todo'[o], Uses)
        BY <1>4, <1>5, <4>1, Zenon
      <4>. QED BY <1>3, <2>8, <3>1, <3>2, <4>2, <4>3, Zenon DEF Alive
    <3>. QED BY <3>1, <3>3, <3>4
  <2>. QED BY <2>3, <2>5, <2>6, <2>7, <2>8
<1>. QED BY <1>7, <1>9, Zenon DEF Serving

\* A harmless step that stores nothing keeps the invariant.
LEMMA QuietInstead ==
  ASSUME TypeInv, Serving, NEW t \in Driver, todo[t] # << >>, Head(todo[t]) \in Harmless,
         NEW s \in Seq(Todos), Only(s, Harmless), Instead(t, s),
         mem' = mem, ticked' = ticked, age' = age, granted' = granted
  PROVE  Serving'
<1>1. /\ todo'[t] = s \o Tail(todo[t]) /\ todo[t] \in Seq(Todos)
      /\ \A o \in Driver \ {t} : todo'[o] = todo[o]
  BY Turn
<1>2. Quietly(todo[t], todo'[t])
  BY <1>1, QuietTurn
<1>. QED BY <1>1, <1>2, QuietServing

\* Without an address it is enough that nothing is bound.
LEMMA NoAddrServing ==
  ASSUME TypeInv, Serving, ~mem'.addr, NEW t \in Driver, NEW s \in Seq(Todos), Only(s, Plain),
         \/ todo'[t] = s
         \/ todo[t] # << >> /\ todo'[t] = s \o Tail(todo[t]),
         \A o \in Driver \ {t} : todo'[o] = todo[o]
  PROVE  Serving'
<1>1. Only(todo'[t], Plain)
  <2>1. CASE todo[t] # << >> /\ todo'[t] = s \o Tail(todo[t])
    <3>. DEFINE u == Tail(todo[t])
    <3>1. todo[t] \in Seq(Todos)
      BY DEF TypeInv
    <3>2. u \in Seq(Todos) /\ (Only(todo[t], Plain) => Only(u, Plain))
      BY <2>1, <3>1, FirstStep
    <3>3. Only(u, Plain)
      BY <3>2 DEF Serving
    <3>. HIDE DEF u
    <3>4. Only(s \o u, Plain)
      BY <3>2, <3>3, HasCat
    <3>. QED BY <2>1, <3>4 DEF u
  <2>. QED BY <2>1
<1>. QED BY <1>1, Zenon DEF Serving

\* The client is not turned off while there is an address.
LEMMA OffsLast ==
  ASSUME TypeInv, Serving, NEW t \in Driver, todo[t] # << >>, Head(todo[t]) \in Offs
  PROVE  ~mem.addr
<1>1. todo[t] \in Seq(Todos)
  BY DEF TypeInv
<1>2. Led(todo[t], Offs, Kills) => Head(todo[t]) \notin Offs
  BY <1>1, FirstStep
<1>. QED BY <1>2, Zenon DEF Serving

\* Harmless first steps.
LEMMA HarmlessHead ==
  ASSUME TypeInv, NEW t \in Driver, NEW w \in {"send", "timeout", "t2", "t1", "rebind", "renew", "next t2", "next t1"},
         At(t, w)
  PROVE  Head(todo[t]) \in Harmless /\ todo[t] # << >>
<1>. DEFINE x == Head(todo[t])
<1>1. todo[t] # << >> /\ x \in Todos /\ x[1] = w
  BY AtStep
<1>. HIDE DEF x
<1>2. CASE w = "send"
  <2>1. x[2] \in States /\ x = <<"send", x[2]>>
    BY <1>1, <1>2, Storable
  <2>. QED BY <1>1, <2>1, Kinds DEF x
<1>3. CASE w # "send"
  <2>1. w \in Words \ {"bind"} /\ w # "release" /\ w # "start" /\ w \notin {"set", "set state", "send"}
    BY <1>3, Zenon DEF Words
  <2>2. x = <<w>>
    BY <1>1, <2>1, Storable
  <2>. QED BY <1>1, <2>1, <2>2, Kinds DEF x
<1>. QED BY <1>2, <1>3

\* What the lemmas below use of the words, the counters and the states.
LEMMA Calm ==
  /\ \A w \in {"timeout", "t2", "t1", "rebind", "renew", "next t2", "next t1"} : w \in Words \ {"bind", "release", "start"}
  /\ \A f \in {"request_timeout", "t1_renew_time", "t2_rebind_time"} : f \in Counter \ {"lease_used", "t0_timeout"}
  /\ \A s \in {"SELECTING", "REQUESTING", "RENEWING", "REBINDING", "BOUND"} : s \in States \ {"OFF"}
  /\ 0 \in Number /\ << >> \in Seq(Todos) /\ \A A : Only(<< >>, A)
<1>1. \A w \in {"timeout", "t2", "t1", "rebind", "renew", "next t2", "next t1"} : w \in Words \ {"bind", "release", "start"}
  BY Zenon DEF Words
<1>2. \A f \in {"request_timeout", "t1_renew_time", "t2_rebind_time"} : f \in Counter \ {"lease_used", "t0_timeout"}
  BY CountersIn, Zenon
<1>3. \A s \in {"SELECTING", "REQUESTING", "RENEWING", "REBINDING", "BOUND"} : s \in States \ {"OFF"}
  BY StatesIn, Zenon
<1>. QED BY <1>1, <1>2, <1>3, Bounds, Short

\* Every step that a thread takes keeps the invariant.
LEMMA ServingStep ==
  ASSUME TypeInv, Serving, NEW t \in Driver, Step(t)
  PROVE  Serving'
<1>1. CASE Store(t)
  BY <1>1, ServingStore
<1>2. CASE Compare(t)
  <2>. DEFINE x == Head(todo[t])
              s == Head(todo[t])[2]
              r == IF mem.state = s THEN << >> ELSE <<Set("state", s), Set("request_timeout", 0)>>
  <2>1. At(t, "set state") /\ Instead(t, r)
        /\ mem' = mem /\ ticked' = ticked /\ age' = age /\ granted' = granted
    BY <1>2 DEF Compare, history
  <2>2. todo[t] # << >> /\ x \in Todos /\ s \in States /\ x = <<"set state", s>>
    BY <2>1, AtStep, Storable
  <2>3. r \in Seq(Todos) /\ Only(r, Plain) /\ (s # "OFF" => Only(r, Harmless))
    <3>. HIDE DEF s
    <3>1. << >> \in Seq(Todos) /\ Only(<< >>, Plain) /\ Only(<< >>, Harmless)
      BY Short
    <3>2. LET c == <<Set("state", s), Set("request_timeout", 0)>> IN
          c \in Seq(Todos) /\ Only(c, Plain) /\ (s # "OFF" => Only(c, Harmless))
      BY <2>2, PushedTypes, PushedKinds
    <3>. QED BY <3>1, <3>2
  <2>. HIDE DEF x, s, r
  <2>4. CASE s = "OFF"
    <3>1. Head(todo[t]) \in Offs
      BY <2>2, <2>4 DEF Offs, LookOff, x
    <3>2. ~mem'.addr
      BY <2>1, <2>2, <3>1, OffsLast
    <3>3. todo'[t] = r \o Tail(todo[t]) /\ \A o \in Driver \ {t} : todo'[o] = todo[o]
      BY <2>1, <2>2, <2>3, Turn
    <3>. QED BY <2>2, <2>3, <3>2, <3>3, NoAddrServing
  <2>5. CASE s # "OFF"
    <3>1. x \in Harmless
      BY <2>2, <2>5, Kinds
    <3>. QED BY <2>1, <2>2, <2>3, <2>5, <3>1, QuietInstead DEF x
  <2>. QED BY <2>4, <2>5
<1>3. CASE Send(t)
  <2>1. At(t, "send") /\ Instead(t, << >>)
        /\ mem' = mem /\ ticked' = ticked /\ age' = age /\ granted' = granted
    BY <1>3 DEF Send
  <2>. QED BY <2>1, HarmlessHead, QuietInstead, Calm
<1>4. CASE ReleaseAndStop(t)
  <2>1. At(t, "release") /\ Instead(t, IF mem.state = "OFF" THEN << >> ELSE ReleaseSteps)
        /\ mem' = mem
    BY <1>4 DEF ReleaseAndStop, history, ReleaseSteps
  <2>2. todo[t] # << >>
    BY <2>1, AtStep
  <2>3. << >> \in Seq(Todos) /\ ReleaseSteps \in Seq(Todos)
    BY PushedTypes, Short
  <2>4. CASE mem.state = "OFF"
    <3>1. ~mem'.addr
      BY <2>1, <2>4, Zenon DEF Serving
    <3>2. todo'[t] = << >> \o Tail(todo[t]) /\ \A o \in Driver \ {t} : todo'[o] = todo[o]
      BY <2>1, <2>2, <2>3, <2>4, Turn
    <3>. QED BY <2>2, <2>3, <3>1, <3>2, NoAddrServing, Short
  <2>5. CASE mem.state # "OFF"
    <3>1. todo'[t] = ReleaseSteps \o Tail(todo[t]) /\ \A o \in Driver \ {t} : todo'[o] = todo[o]
      BY <2>1, <2>2, <2>3, <2>5, Turn
    <3>2. Only(ReleaseSteps, Plain) /\ Led(ReleaseSteps, Offs, Kills) /\ Has(ReleaseSteps, Kills)
      BY PushedKinds
    <3>. QED BY <2>1, <2>2, <2>3, <3>1, <3>2, KillServing
  <2>. QED BY <2>4, <2>5
<1>5. CASE StartAgain(t)
  <2>1. At(t, "start") /\ Instead(t, Ask("SELECTING")) /\ mem' = Cleared(mem.addr)
    BY <1>5 DEF StartAgain
  <2>2. todo[t] # << >> /\ Head(todo[t]) \in Offs
    <3>1. todo[t] # << >> /\ Head(todo[t]) \in Todos /\ Head(todo[t])[1] = "start"
      BY <2>1, AtStep
    <3>. QED BY <3>1, Zenon DEF Offs
  <2>3. ~mem.addr
    BY <2>2, OffsLast
  <2>4. mem'.addr = mem.addr
    BY <2>1, CountersIn, Zenon DEF Cleared
  <2>5. Ask("SELECTING") \in Seq(Todos) /\ Only(Ask("SELECTING"), Plain)
    <3>1. "SELECTING" \in States \ {"OFF"}
      BY Calm
    <3>2. Ask("SELECTING") \in Seq(Todos) /\ Only(Ask("SELECTING"), Harmless)
      BY <3>1, PushedTypes, PushedKinds
    <3>3. Harmless \subseteq Plain
      BY Kinds
    <3>. QED BY <3>2, <3>3, OnlyIn, Zenon
  <2>6. todo'[t] = Ask("SELECTING") \o Tail(todo[t]) /\ \A o \in Driver \ {t} : todo'[o] = todo[o]
    BY <2>1, <2>2, <2>5, Turn
  <2>. QED BY <2>2, <2>3, <2>4, <2>5, <2>6, NoAddrServing
<1>6. CASE Timeout(t)
  <2>1. At(t, "timeout") /\ mem' = mem /\ ticked' = ticked /\ age' = age /\ granted' = granted
        /\ (Instead(t, Ask("SELECTING")) \/ Instead(t, Ask("REQUESTING")) \/ Instead(t, Restart) \/ Instead(t, << >>))
    BY <1>6 DEF Timeout, history
  <2>2. Head(todo[t]) \in Harmless /\ todo[t] # << >>
    BY <2>1, HarmlessHead
  <2>3. ASSUME NEW s \in {Ask("SELECTING"), Ask("REQUESTING"), << >>}, Instead(t, s)
        PROVE  Serving'
    <3>1. s \in Seq(Todos) /\ Only(s, Harmless)
      BY Calm, PushedTypes, PushedKinds
    <3>. QED BY <2>1, <2>2, <2>3, <3>1, QuietInstead
  <2>4. CASE Instead(t, Restart)
    <3>1. Restart \in Seq(Todos) /\ Only(Restart, Plain) /\ Led(Restart, Offs, Kills) /\ Has(Restart, Kills)
      BY PushedTypes, PushedKinds
    <3>2. todo'[t] = Restart \o Tail(todo[t]) /\ \A o \in Driver \ {t} : todo'[o] = todo[o]
      BY <2>2, <2>4, <3>1, Turn
    <3>. QED BY <2>1, <2>2, <3>1, <3>2, KillServing
  <2>. QED BY <2>1, <2>3, <2>4
<1>7. CASE \/ TickT2(t) \/ TickT1(t) \/ T2Timeout(t) \/ T1Timeout(t) \/ NextT2(t) \/ NextT1(t)
  <2>1. mem' = mem /\ ticked' = ticked /\ age' = age /\ granted' = granted
    BY <1>7 DEF TickT2, TickT1, T2Timeout, T1Timeout, NextT2, NextT1, NextTry, history
  <2>2. Head(todo[t]) \in Harmless /\ todo[t] # << >>
    BY <1>7, HarmlessHead DEF TickT2, TickT1, T2Timeout, T1Timeout, NextT2, NextT1, NextTry
  <2>3. \E s \in Seq(Todos) : Instead(t, s) /\ Only(s, Harmless)
    <3>2. CASE TickT2(t)
      <4>. DEFINE v == mem.t2_rebind_time - 1
      <4>1. \/ Instead(t, <<<<"t1">>>>) \/ Instead(t, <<Set("t2_rebind_time", 0), <<"rebind">>>>)
            \/ v \in Number /\ Instead(t, <<Set("t2_rebind_time", v), <<"t1">>>>)
        BY <3>2, TickT2Moves
      <4>. HIDE DEF v
      <4>2. /\ <<<<"t1">>>> \in Seq(Todos) /\ Only(<<<<"t1">>>>, Harmless)
            /\ \A n \in Number : /\ <<Set("t2_rebind_time", n), <<"rebind">>>> \in Seq(Todos)
                                 /\ Only(<<Set("t2_rebind_time", n), <<"rebind">>>>, Harmless)
                                 /\ <<Set("t2_rebind_time", n), <<"t1">>>> \in Seq(Todos)
                                 /\ Only(<<Set("t2_rebind_time", n), <<"t1">>>>, Harmless)
        BY Calm, PushedTypes, PushedKinds, WordsIn, CountersIn, Zenon
      <4>. QED BY <4>1, <4>2, Calm, Zenon
    <3>3. CASE TickT1(t)
      <4>. DEFINE v == mem.t1_renew_time - 1
      <4>1. \/ Instead(t, << >>) \/ Instead(t, <<Set("t1_renew_time", 0), <<"renew">>>>)
            \/ v \in Number /\ Instead(t, <<Set("t1_renew_time", v)>>)
        BY <3>3, TickT1Moves
      <4>. HIDE DEF v
      <4>2. \A n \in Number : /\ <<Set("t1_renew_time", n), <<"renew">>>> \in Seq(Todos)
                              /\ Only(<<Set("t1_renew_time", n), <<"renew">>>>, Harmless)
                              /\ <<Set("t1_renew_time", n)>> \in Seq(Todos)
                              /\ Only(<<Set("t1_renew_time", n)>>, Harmless)
        BY Calm, PushedTypes, PushedKinds, WordsIn, CountersIn, Zenon
      <4>. QED BY <4>1, <4>2, Calm, Zenon
    <3>4. CASE T2Timeout(t)
      <4>1. Instead(t, Ask("REBINDING") \o <<<<"next t2">>>>) \/ Instead(t, << >>)
        BY <3>4, Zenon DEF T2Timeout
      <4>2. Ask("REBINDING") \o <<<<"next t2">>>> \in Seq(Todos) /\ Only(Ask("REBINDING") \o <<<<"next t2">>>>, Harmless)
        BY Calm, PushedTypes, PushedKinds, StatesIn, Zenon
      <4>. QED BY <4>1, <4>2, Calm, Zenon
    <3>5. CASE T1Timeout(t)
      <4>1. Instead(t, Ask("RENEWING") \o <<<<"next t1">>>>) \/ Instead(t, << >>)
        BY <3>5, Zenon DEF T1Timeout
      <4>2. Ask("RENEWING") \o <<<<"next t1">>>> \in Seq(Todos) /\ Only(Ask("RENEWING") \o <<<<"next t1">>>>, Harmless)
        BY Calm, PushedTypes, PushedKinds, StatesIn, Zenon
      <4>. QED BY <4>1, <4>2, Calm, Zenon
    <3>6. CASE NextT2(t)
      <4>. DEFINE half == (mem["t0_timeout"] - mem.lease_used) \div 2
      <4>1. Instead(t, IF half >= 1 THEN <<Set("t2_rebind_time", half)>> ELSE << >>)
        BY <3>6 DEF NextT2, NextTry
      <4>2. half >= 1 => half \in Number
        BY Numbers, Bounds
      <4>. HIDE DEF half
      <4>. QED BY <4>1, <4>2, PushedTypes, PushedKinds, CountersIn, Calm, Zenon
    <3>7. CASE NextT1(t)
      <4>. DEFINE half == (mem["t2_timeout"] - mem.lease_used) \div 2
      <4>1. Instead(t, IF half >= 1 THEN <<Set("t1_renew_time", half)>> ELSE << >>)
        BY <3>7 DEF NextT1, NextTry
      <4>2. half >= 1 => half \in Number
        BY Numbers, Bounds
      <4>. HIDE DEF half
      <4>. QED BY <4>1, <4>2, PushedTypes, PushedKinds, CountersIn, Calm, Zenon
    <3>. QED BY <1>7, <3>2, <3>3, <3>4, <3>5, <3>6, <3>7
  <2>. QED BY <2>1, <2>2, <2>3, QuietInstead
<1>. QED BY <1>1, <1>2, <1>3, <1>4, <1>5, <1>6, <1>7 DEF Step

\* So does an idle thread that begins something, if the lease stays alive.
LEMMA BeginServing ==
  ASSUME TypeInv, Serving, NEW t \in Driver, Idle(t), NEW s \in Seq(Todos), Push(t, s),
         Only(s, Plain), Led(s, Offs, Kills), mem' = mem,
         mem.addr /\ Alive => Alive' \/ Has(s, Kills)
  PROVE  Serving'
<1>1. todo'[t] = s /\ \A o \in Driver \ {t} : todo'[o] = todo[o]
  BY Beginning
<1>2. ~Has(todo[t], Kills)
  BY Short DEF Idle
<1>3. \A o \in Driver : Has(todo[o], Kills) => Has(todo'[o], Kills)
  BY <1>1, <1>2, Zenon
<1>. QED BY <1>1, <1>3, Zenon DEF Serving

\* dhcp_fine_tmr begins nothing that ends a lease.
LEMMA ServingFine ==
  ASSUME TypeInv, Serving, NEW t \in Driver, FineTick(t)
  PROVE  Serving'
<1>1. Idle(t) /\ mem' = mem /\ ticked' = ticked /\ age' = age /\ granted' = granted
  BY DEF FineTick
<1>2. /\ <<Set("request_timeout", 0), <<"timeout">>>> \in Seq(Todos)
      /\ Only(<<Set("request_timeout", 0), <<"timeout">>>>, Harmless)
      /\ \A v \in Number : /\ <<Set("request_timeout", v)>> \in Seq(Todos)
                           /\ Only(<<Set("request_timeout", v)>>, Harmless)
  BY Calm, PushedTypes, PushedKinds, WordsIn, CountersIn, Zenon
<1>3. \E s \in Seq(Todos) : Push(t, s) /\ Only(s, Harmless)
  BY <1>2, FineMoves, Zenon
<1>4. PICK s \in Seq(Todos) : Push(t, s) /\ Only(s, Harmless)
  BY <1>3
<1>5. todo'[t] = s /\ \A o \in Driver \ {t} : todo'[o] = todo[o]
  BY <1>1, <1>4, Beginning
<1>6. Quietly(todo[t], todo'[t])
  BY <1>1, <1>4, <1>5, QuietBegin DEF Idle
<1>. QED BY <1>1, <1>5, <1>6, QuietServing

\* dhcp_coarse_tmr counts a minute of the lease, or begins to give it up:
\* as lease_used is less than the lease, it does not pass t0_timeout.
LEMMA ServingCoarse ==
  ASSUME TypeInv, Serving, NEW t \in Driver, CoarseTick(t)
  PROVE  Serving'
<1>. DEFINE used == (mem.lease_used + 1) % Width
            r == <<Set("lease_used", used), <<"t2">>>>
            k == <<Set("lease_used", used)>> \o Restart
<1>1. /\ Idle(t) /\ mem' = mem /\ age' = age /\ granted' = granted
      /\ ticked' = [ticked EXCEPT ![t] = TRUE]
  BY DEF CoarseTick
<1>2. \/ mem.state = "OFF" /\ Push(t, << >>)
      \/ mem.t0_timeout = 0 /\ Push(t, <<<<"t2">>>>)
      \/ Push(t, k)
      \/ mem.t0_timeout # 0 /\ used # mem.t0_timeout /\ Push(t, r)
  BY CoarseMoves, Zenon
<1>3. used \in Number /\ mem.lease_used \in Number /\ mem.t0_timeout \in Number
  BY Numbers, Bounds
<1>4. mem.lease_used + 1 < Width => used = mem.lease_used + 1
  <2>. DEFINE n == mem.lease_used + 1
  <2>1. n \in Nat
    BY <1>3, SMT DEF Number
  <2>. HIDE DEF n
  <2>2. n < Width => n % Width = n
    BY <2>1, TimersAssumption, SMT
  <2>. QED BY <2>2 DEF n
<1>5. Set("lease_used", used) \in Plain /\ Set("lease_used", used) \in Uses /\ Set("lease_used", used) \notin Offs
      /\ <<"t2">> \in Harmless /\ <<"t2">> \in Plain /\ <<"t2">> \notin Offs
  <2>. HIDE DEF used
  <2>1. Set("lease_used", used) \in Plain /\ Set("lease_used", used) \notin Offs
    BY <1>3, Kinds, CountersIn, Zenon
  <2>2. Set("lease_used", used) \in Uses
    BY <1>3, StepsIn, CountersIn, Parts, Zenon DEF Uses
  <2>3. <<"t2">> \in Harmless
    BY Kinds, Calm, Zenon
  <2>. QED BY <2>1, <2>2, <2>3 DEF Harmless
<1>6. /\ k \in Seq(Todos) /\ Only(k, Plain) /\ Led(k, Offs, Kills) /\ Has(k, Kills)
      /\ r \in Seq(Todos) /\ <<<<"t2">>>> \in Seq(Todos)
  <2>. HIDE DEF used
  <2>. QED BY <1>3, PushedTypes, PushedKinds, WordsIn, CountersIn, Zenon
<1>7. Only(r, Plain) /\ Led(r, Offs, Kills) /\ Has(r, Uses)
      /\ Only(<<<<"t2">>>>, Plain) /\ Led(<<<<"t2">>>>, Offs, Kills)
  <2>. HIDE DEF used
  <2>. QED BY <1>5, Short
<1>. HIDE DEF k, r, used
<1>8. CASE ~mem.addr \/ (mem.state = "OFF" /\ Push(t, << >>))
  <2>1. \E s \in Seq(Todos) : Push(t, s) /\ Only(s, Plain)
    BY <1>2, <1>6, <1>7, Calm, Zenon
  <2>2. PICK s \in Seq(Todos) : Push(t, s) /\ Only(s, Plain)
    BY <2>1
  <2>3. todo'[t] = s /\ \A o \in Driver \ {t} : todo'[o] = todo[o]
    BY <1>1, <2>2, Beginning
  <2>4. ~mem'.addr
    BY <1>1, <1>8, Zenon DEF Serving
  <2>. QED BY <2>2, <2>3, <2>4, NoAddrServing
<1>9. CASE mem.t0_timeout = 0 /\ Push(t, <<<<"t2">>>>)
  <2>1. ~Alive
    <3>1. mem.lease_used >= 0
      BY <1>3, Bounds
    <3>. QED BY <1>3, <1>9, <3>1, SMT DEF Alive, Number
  <2>. QED BY <1>1, <1>6, <1>7, <1>9, <2>1, BeginServing
<1>10. CASE Push(t, k)
  BY <1>1, <1>6, <1>10, BeginServing
<1>11. CASE mem.t0_timeout # 0 /\ used # mem.t0_timeout /\ Push(t, r)
  <2>1. ASSUME Alive PROVE Alive'
    <3>1. todo'[t] = r /\ \A o \in Driver \ {t} : todo'[o] = todo[o]
      BY <1>1, <1>6, <1>11, Beginning
    <3>2. used \in age..(granted - 1) /\ age \in Int
      <4>1. /\ mem.lease_used < granted /\ age <= mem.lease_used + 1 /\ mem.t0_timeout = granted
            /\ granted \in Number /\ age \in Int
        BY <2>1, SMT DEF Alive, TypeInv
      <4>2. used = mem.lease_used + 1
        BY <1>3, <1>4, <4>1, TimersAssumption, SMT DEF Number
      <4>. QED BY <1>3, <1>11, <4>1, <4>2, SMT DEF Number
    <3>3. Set("lease_used", used) \in InTime /\ InTime' = InTime
      BY <1>1, <3>2, Zenon DEF InTime
    <3>4. Only(r, Harmless \union InTime)
      <4>1. Set("lease_used", used) \in Harmless \union InTime /\ <<"t2">> \in Harmless \union InTime
        BY <1>5, <3>3, Zenon
      <4>. QED BY <4>1, Short DEF r
    <3>5. \A o \in Driver : Only(todo'[o], Harmless \union InTime)
      BY <2>1, <3>1, <3>4, Zenon DEF Alive
    <3>6. \A o \in Driver \ {t} : ticked'[o] = ticked[o]
      BY <1>1, Zenon DEF TypeInv
    <3>7. \A o \in Driver : ticked'[o] => age <= mem.lease_used \/ Has(todo'[o], Uses)
      BY <1>7, <2>1, <3>1, <3>6, Zenon DEF Alive
    <3>. QED BY <1>1, <2>1, <3>3, <3>5, <3>7, Zenon DEF Alive
  <2>. QED BY <1>1, <1>6, <1>7, <1>11, <2>1, BeginServing
<1>. QED BY <1>2, <1>8, <1>9, <1>10, <1>11

\* An offer changes nothing about a lease, and a NAK ends it.
LEMMA ServingAnswers ==
  ASSUME TypeInv, Serving, HandleOffer \/ HandleNak
  PROVE  Serving'
<1>0. "tcpip" \in Driver
  BY DEF Driver
<1>1. Idle("tcpip") /\ mem' = mem /\ ticked' = ticked /\ age' = age /\ granted' = granted
  BY DEF HandleOffer, HandleNak, history
<1>2. CASE HandleOffer
  <2>1. OfferSteps \in Seq(Todos) /\ Only(OfferSteps, Harmless)
    <3>1. Only(Ask("REQUESTING"), Harmless) /\ Set("request_timeout", 0) \in Harmless
      BY Calm, PushedKinds, Kinds
    <3>. QED BY <3>1, OfferSpelled, Zenon
  <2>2. /\ todo'["tcpip"] = OfferSteps
        /\ \A o \in Driver \ {"tcpip"} : todo'[o] = todo[o]
    BY <1>0, <1>1, <1>2, <2>1, Beginning DEF HandleOffer, OfferSteps
  <2>3. Quietly(todo["tcpip"], todo'["tcpip"])
    BY <1>1, <2>1, <2>2, QuietBegin DEF Idle
  <2>. QED BY <1>0, <1>1, <2>2, <2>3, QuietServing
<1>3. CASE HandleNak
  <2>1. NakSteps \in Seq(Todos) /\ Only(NakSteps, Plain) /\ Led(NakSteps, Offs, Kills) /\ Has(NakSteps, Kills)
    BY PushedTypes, PushedKinds
  <2>2. Push("tcpip", NakSteps)
    BY <1>3 DEF HandleNak, NakSteps
  <2>. QED BY <1>0, <1>1, <2>1, <2>2, BeginServing
<1>. QED BY <1>2, <1>3

\* When a minute has passed, it was counted by a thread at least.
LEMMA ServingMinute ==
  ASSUME TypeInv, Serving, Minute
  PROVE  Serving'
<1>1. mem' = mem /\ todo' = todo /\ granted' = granted
      /\ ticked' = [t \in Driver |-> FALSE] /\ age' = IF age < MaxAge THEN age + 1 ELSE age
  BY DEF Minute
<1>2. "tcpip" \in Driver
  BY DEF Driver
<1>3. \A t \in Driver : todo[t] = << >> /\ ticked[t]
  BY Zenon DEF Minute, Idle
<1>4. /\ \A A : ~Has(<< >>, A)
      /\ \A A : Only(<< >>, A)
  BY Short
<1>5. ASSUME Alive PROVE Alive'
  <2>1. age <= mem.lease_used
    <3>1. ticked["tcpip"] /\ ~Has(todo["tcpip"], Uses)
      BY <1>2, <1>3, <1>4, Zenon
    <3>. QED BY <1>2, <1>5, <3>1, Zenon DEF Alive
  <2>2. age' <= mem.lease_used + 1
    <3>1. mem.lease_used \in Number
      BY Numbers
    <3>2. mem.lease_used \in Int
      BY <3>1, Bounds
    <3>3. age \in Int
      BY SMT DEF TypeInv
    <3>. QED BY <1>1, <2>1, <3>2, <3>3, SMT
  <2>3. \A t \in Driver : ~ticked'[t]
    BY <1>1
  <2>4. \A t \in Driver : Only(todo'[t], (Harmless \union InTime)')
    BY <1>1, <1>3, <1>4, Zenon
  <2>. QED BY <1>1, <1>5, <2>2, <2>3, <2>4, Zenon DEF Alive
<1>. QED BY <1>1, <1>3, <1>4, <1>5, Zenon DEF Serving

-----------------------------------------------------------------------------
(* An ACK is being handled while network_thread rests.                     *)

\* T1 of the lease.
First == (granted + 1) \div 2

LookBound == <<"set state", "BOUND">>
TurnBound == Set("state", "BOUND")

\* The steps after dhcp_bind.
BindSteps ==
  {x \in Todos : \/ x = Set("lease_used", 0) \/ x = Set("t0_timeout", granted)
                 \/ x = Set("t1_renew_time", First) \/ x = Addr
                 \/ x = LookBound \/ x = TurnBound
                 \/ x[1] = "set" /\ x[2] \in {"request_timeout", "t2_timeout", "t2_rebind_time"}}

\* Field f is v, or is to become v.
Stored(q, f, v) == mem[f] = v \/ Has(q, {Set(f, v)})

Bound(q) ==
  /\ Stored(q, "lease_used", 0) /\ Stored(q, "t0_timeout", granted)
  /\ Stored(q, "t1_renew_time", First)
  /\ mem.state = "BOUND" \/ Has(q, {LookBound, TurnBound})

Binding ==
  /\ todo["net"] = << >> /\ age = 0 /\ granted # 0
  /\ todo["tcpip"] # << >> /\ Last(todo["tcpip"]) = Addr
  /\ \/ todo["tcpip"] = <<Set("offered_t0_lease", granted), <<"bind">>, Addr>>
     \/ todo["tcpip"] = <<<<"bind">>, Addr>> /\ mem.offered_t0_lease = granted
     \/ Only(todo["tcpip"], BindSteps) /\ Bound(todo["tcpip"])

\* It has been handled.
Leased ==
  /\ \A t \in Driver : todo[t] = << >>
  /\ mem.lease_used = 0 /\ mem.t0_timeout = granted /\ mem.t1_renew_time = First
  /\ mem.state = "BOUND" /\ age = 0 /\ granted # 0

\* What LeaseRespected rests on.
LeaseInv == "bind" \notin overlaps => Serving \/ Binding

-----------------------------------------------------------------------------
\* The two threads that drive the client.
LEMMA Threads ==
  /\ "net" \in Driver /\ "tcpip" \in Driver /\ "net" # "tcpip"
  /\ \A t \in Driver : t = "net" \/ t = "tcpip"
BY DEF Driver

\* The last step.
LEMMA Lasts ==
  ASSUME NEW q \in Seq(Todos), NEW a \in Todos
  PROVE  /\ Last(q \o <<a>>) = a /\ q \o <<a>> # << >>
         /\ q # << >> /\ Tail(q) # << >> => Last(Tail(q)) = Last(q)
         /\ q # << >> /\ Tail(q) = << >> => q = <<Head(q)>> /\ Last(q) = Head(q)
<1>1. Last(q \o <<a>>) = a /\ q \o <<a>> # << >>
  <2>1. /\ q \o <<a>> \in Seq(Todos) /\ Len(q \o <<a>>) = Len(q) + 1 /\ Len(q) \in Nat
        /\ (q \o <<a>>)[Len(q) + 1] = a
    BY SMT
  <2>. DEFINE p == q \o <<a>>
  <2>. HIDE DEF p
  <2>2. p # << >>
    BY <2>1, SMT DEF p
  <2>. QED BY <2>1, <2>2, Zenon DEF Last, p
<1>2. ASSUME q # << >>, Tail(q) # << >> PROVE Last(Tail(q)) = Last(q)
  <2>0. Tail(q) \in Seq(Todos)
    BY <1>2, FirstStep
  <2>1. /\ Len(q) \in Nat /\ Len(Tail(q)) \in Nat /\ Len(Tail(q)) = Len(q) - 1 /\ Len(Tail(q)) # 0
    <3>1. Len(Tail(q)) # 0
      BY <1>2, <2>0, EmptySeq
    <3>2. Len(q) \in Nat /\ Len(Tail(q)) \in Nat /\ Len(Tail(q)) = Len(q) - 1
      BY <1>2, SMT
    <3>. QED BY <3>1, <3>2
  <2>2. Tail(q)[Len(Tail(q))] = q[Len(Tail(q)) + 1] /\ Len(Tail(q)) + 1 = Len(q)
    BY <1>2, <2>1, SMT
  <2>. QED BY <2>2, Zenon DEF Last
<1>3. ASSUME q # << >>, Tail(q) = << >> PROVE q = <<Head(q)>> /\ Last(q) = Head(q)
  <2>1. Len(q) = 1 /\ Head(q) = q[1]
    <3>1. Len(Tail(q)) = 0
      BY <1>3, EmptySeq, Zenon
    <3>2. Len(q) \in Nat /\ Len(Tail(q)) = Len(q) - 1 /\ Head(q) = q[1]
      BY <1>3, SMT
    <3>. QED BY <3>1, <3>2, SMT
  <2>2. q = <<Head(q)>>
    <3>. DEFINE p == <<Head(q)>>
    <3>1. p \in Seq(Todos) /\ Len(p) = 1 /\ p[1] = q[1]
      BY <1>3, SMT
    <3>. HIDE DEF p
    <3>2. \A i \in 1..Len(p) : p[i] = q[i]
      BY <3>1, SMT
    <3>3. p = q
      BY <2>1, <3>1, <3>2, SeqEqual, Zenon
    <3>. QED BY <3>3 DEF p
  <2>3. Last(q) = Head(q)
    BY <2>1, Zenon DEF Last
  <2>. QED BY <2>2, <2>3
<1>. QED BY <1>1, <1>2, <1>3

\* Three steps, as dhcp_handle_ack takes them.
LEMMA Three ==
  ASSUME NEW a \in Todos, NEW b \in Todos, NEW c \in Todos
  PROVE  /\ <<a, b, c>> \in Seq(Todos) /\ <<a, b, c>> # << >>
         /\ Head(<<a, b, c>>) = a /\ Tail(<<a, b, c>>) = <<b, c>>
         /\ Last(<<a, b, c>>) = c /\ Last(<<b, c>>) = c
<1>1. <<a, b, c>> \in Seq(Todos) /\ <<a, b, c>> # << >> /\ Head(<<a, b, c>>) = a
      /\ Last(<<a, b, c>>) = c /\ Last(<<b, c>>) = c
  BY SMT DEF Last
<1>2. Tail(<<a, b, c>>) = <<b, c>>
  <2>. DEFINE p == Tail(<<a, b, c>>)
              r == <<b, c>>
  <2>1. p \in Seq(Todos) /\ r \in Seq(Todos) /\ Len(p) = 2 /\ Len(r) = 2
        /\ p[1] = b /\ p[2] = c /\ r[1] = b /\ r[2] = c
    BY SMT
  <2>. HIDE DEF p, r
  <2>2. \A i \in 1..Len(p) : p[i] = r[i]
    BY <2>1, SMT
  <2>3. p = r
    BY <2>1, <2>2, SeqEqual, Zenon
  <2>. QED BY <2>3 DEF p, r
<1>. QED BY <1>1, <1>2

\* The steps of handling an ACK.
LEMMA BindKinds ==
  ASSUME TypeInv
  PROVE  /\ Set("offered_t0_lease", granted) \in Todos /\ <<"bind">> \in Todos /\ Addr \in Todos
         /\ LookBound \in Todos /\ TurnBound \in Todos
         /\ LookBound[1] = "set state" /\ LookBound[2] = "BOUND"
         /\ TurnBound[1] = "set" /\ TurnBound[2] = "state" /\ TurnBound[3] = "BOUND"
         /\ Addr \in BindSteps /\ LookBound \in BindSteps /\ TurnBound \in BindSteps
         /\ Set("request_timeout", 0) \in BindSteps
         /\ <<"bind">> \notin BindSteps
         /\ \A x \in BindSteps : x[1] = "set" \/ x = LookBound
<1>1. Set("offered_t0_lease", granted) \in Todos /\ <<"bind">> \in Todos /\ Addr \in Todos
  <2>1. granted \in Number
    BY DEF TypeInv
  <2>. QED BY <2>1, StepsIn, CountersIn, CallsIn, Special, Zenon
<1>2. LookBound \in Todos /\ TurnBound \in Todos
  BY StepsIn, StatesIn, Zenon DEF LookBound, TurnBound
<1>3. /\ LookBound[1] = "set state" /\ LookBound[2] = "BOUND"
      /\ TurnBound[1] = "set" /\ TurnBound[2] = "state" /\ TurnBound[3] = "BOUND"
  BY Parts DEF LookBound, TurnBound
<1>4. Addr \in BindSteps /\ LookBound \in BindSteps /\ TurnBound \in BindSteps
  BY <1>1, <1>2, Zenon DEF BindSteps
<1>5. Set("request_timeout", 0) \in BindSteps
  <2>. DEFINE x == Set("request_timeout", 0)
  <2>1. 0 \in Number
    BY Bounds
  <2>2. x \in Todos /\ x[1] = "set" /\ x[2] = "request_timeout"
    BY <2>1, StepsIn, CountersIn, Parts, Zenon
  <2>. HIDE DEF x
  <2>3. x \in BindSteps
    BY <2>2, Zenon DEF BindSteps
  <2>. QED BY <2>3 DEF x
<1>6. \A f, v : Set(f, v)[1] = "set"
  BY Parts
<1>7. \A x \in BindSteps : x[1] = "set" \/ x = LookBound
  BY <1>3, <1>6, Special, Zenon DEF BindSteps
<1>8. <<"bind">> \notin BindSteps
  <2>1. <<"bind">>[1] = "bind"
    BY Parts
  <2>2. <<"bind">>[1] # "set" /\ <<"bind">>[1] # "set state"
    BY <2>1, Zenon
  <2>. QED BY <1>3, <1>7, <2>2, Zenon
<1>. QED BY <1>1, <1>2, <1>3, <1>4, <1>5, <1>7, <1>8

\* A store of dhcp_bind; after the last one the address is leased.
LEMMA BindingStore ==
  ASSUME TypeInv, Binding, Store("tcpip")
  PROVE  Leased' \/ Binding'
<1>. DEFINE q == todo["tcpip"]
            x == Head(q)
            u == Tail(q)
<1>0. "tcpip" \in Driver /\ "net" \in Driver /\ "net" # "tcpip"
  BY Threads
<1>1. At("tcpip", "set") /\ mem' = [mem EXCEPT ![x[2]] = x[3]] /\ Instead("tcpip", << >>)
      /\ ticked' = ticked /\ age' = age /\ granted' = granted
  BY DEF Store, history
<1>2. q # << >> /\ q \in Seq(Todos) /\ x \in Todos /\ x[1] = "set"
  BY <1>0, <1>1, AtStep
<1>3. /\ u \in Seq(Todos)
      /\ \A A : Has(q, A) <=> x \in A \/ Has(u, A)
      /\ \A A : Only(q, A) <=> x \in A /\ Only(u, A)
  BY <1>2, FirstStep
<1>4. todo'["tcpip"] = u /\ todo'["net"] = << >>
  <2>1. << >> \in Seq(Todos) /\ << >> \o u = u
    BY <1>3, Short, ConcatEmptySeq
  <2>2. todo["net"] = << >>
    BY DEF Binding
  <2>. QED BY <1>0, <1>1, <1>2, <2>1, <2>2, Turn
<1>. HIDE DEF x, u
<1>5. \A f \in Fields : mem'[f] = IF f = x[2] THEN x[3] ELSE mem[f]
  BY <1>1, <1>2, Stores
<1>6. /\ Set("offered_t0_lease", granted) \in Todos /\ <<"bind">> \in Todos /\ Addr \in Todos
      /\ granted \in Number
  BY BindKinds DEF TypeInv
<1>7. CASE q = <<Set("offered_t0_lease", granted), <<"bind">>, Addr>>
  <2>. DEFINE a == Set("offered_t0_lease", granted)
              b == <<"bind">>
  <2>1. a[2] = "offered_t0_lease" /\ a[3] = granted
    BY Parts
  <2>. HIDE DEF a, b
  <2>2. x = a /\ u = <<b, Addr>> /\ Last(<<b, Addr>>) = Addr
    BY <1>6, <1>7, Three DEF x, u, a, b
  <2>3. mem'.offered_t0_lease = granted
    BY <1>5, <2>1, <2>2, CountersIn, Zenon
  <2>4. <<b, Addr>> # << >>
    BY <1>6, Pairs DEF b
  <2>5. Binding'
    BY <1>1, <1>4, <2>2, <2>3, <2>4, Zenon DEF Binding, b
  <2>. QED BY <2>5
<1>8. CASE q = <<<<"bind">>, Addr>>
  <2>1. x = <<"bind">>
    BY <1>6, <1>8, Pairs DEF x
  <2>2. <<"bind">>[1] = "bind"
    BY Parts
  <2>. QED BY <1>2, <2>1, <2>2
<1>9. CASE Only(q, BindSteps) /\ Bound(q)
  <2>0. x \in BindSteps /\ Only(u, BindSteps)
    BY <1>3, <1>9, Zenon
  <2>1. ASSUME NEW f \in {"lease_used", "t0_timeout", "t1_renew_time"}, NEW v, Stored(q, f, v),
               x[2] = f => x = Set(f, v)
        PROVE  mem'[f] = v \/ Has(u, {Set(f, v)})
    <3>0. f \in Fields
      BY CountersIn, Zenon
    <3>1. CASE x = Set(f, v)
      <4>1. x[2] = f /\ x[3] = v
        BY <3>1, Parts
      <4>. QED BY <1>5, <3>0, <4>1
    <3>2. CASE x # Set(f, v)
      <4>1. mem'[f] = mem[f]
        BY <1>5, <2>1, <3>0, <3>2
      <4>2. Has(q, {Set(f, v)}) => Has(u, {Set(f, v)})
        BY <1>3, <3>2, Zenon
      <4>. QED BY <2>1, <4>1, <4>2 DEF Stored
    <3>. QED BY <3>1, <3>2
  <2>2. \/ x = Set("lease_used", 0) \/ x = Set("t0_timeout", granted)
        \/ x = Set("t1_renew_time", First) \/ x = Addr
        \/ x = LookBound \/ x = TurnBound
        \/ x[2] \in {"request_timeout", "t2_timeout", "t2_rebind_time"}
    BY <2>0, Zenon DEF BindSteps
  <2>3. /\ x[2] = "lease_used" => x = Set("lease_used", 0)
        /\ x[2] = "t0_timeout" => x = Set("t0_timeout", granted)
        /\ x[2] = "t1_renew_time" => x = Set("t1_renew_time", First)
        /\ x[2] = "state" => x = TurnBound
        /\ x[2] = "addr" => x = Addr
    <3>1. /\ Set("lease_used", 0)[2] = "lease_used" /\ Set("t0_timeout", granted)[2] = "t0_timeout"
          /\ Set("t1_renew_time", First)[2] = "t1_renew_time" /\ Addr[2] = "addr"
          /\ LookBound[2] = "BOUND" /\ TurnBound[2] = "state"
      <4>1. \A f, v : Set(f, v)[2] = f
        BY Parts
      <4>2. LookBound[2] = "BOUND" /\ TurnBound[2] = "state"
        BY BindKinds
      <4>3. Addr[2] = "addr"
        BY Special
      <4>. QED BY <4>1, <4>2, <4>3, Zenon
    <3>2. "lease_used" \notin {"request_timeout", "t2_timeout", "t2_rebind_time"}
          /\ "t0_timeout" \notin {"request_timeout", "t2_timeout", "t2_rebind_time"}
          /\ "t1_renew_time" \notin {"request_timeout", "t2_timeout", "t2_rebind_time"}
          /\ "state" \notin {"request_timeout", "t2_timeout", "t2_rebind_time"}
          /\ "addr" \notin {"request_timeout", "t2_timeout", "t2_rebind_time"}
      OBVIOUS
    <3>3. x # LookBound
      BY <1>2, BindKinds
    <3>. QED BY <2>2, <3>1, <3>2, <3>3, Zenon
  <2>4. /\ mem'["lease_used"] = 0 \/ Has(u, {Set("lease_used", 0)})
        /\ mem'["t0_timeout"] = granted \/ Has(u, {Set("t0_timeout", granted)})
        /\ mem'["t1_renew_time"] = First \/ Has(u, {Set("t1_renew_time", First)})
    BY <1>9, <2>1, <2>3 DEF Bound
  <2>5. mem'.state = "BOUND" \/ Has(u, {LookBound, TurnBound})
    <3>1. CASE x[2] = "state"
      <4>1. mem'.state = x[3] /\ x[3] = "BOUND"
        BY <1>5, <2>3, <3>1, CountersIn, BindKinds
      <4>. QED BY <4>1
    <3>2. CASE x[2] # "state"
      <4>1. mem'.state = mem.state
        BY <1>5, <3>2, CountersIn
      <4>2. x # LookBound /\ x # TurnBound
        BY <1>2, <3>2, BindKinds
      <4>3. Has(q, {LookBound, TurnBound}) => Has(u, {LookBound, TurnBound})
        BY <1>3, <4>2, Zenon
      <4>. QED BY <1>9, <4>1, <4>3, Zenon DEF Bound
    <3>. QED BY <3>1, <3>2
  <2>6. First' = First /\ BindSteps' = BindSteps
    <3>1. First' = First
      BY <1>1 DEF First
    <3>. QED BY <1>1, <3>1, Zenon DEF BindSteps
  <2>7. CASE u # << >>
    <3>1. Last(u) = Addr
      <4>1. Last(q) = Addr
        BY DEF Binding
      <4>2. Last(Tail(q)) = Last(q)
        BY <1>2, <1>6, <2>7, Lasts DEF u
      <4>. QED BY <4>1, <4>2 DEF u
    <3>2. Bound(todo["tcpip"])'
      BY <1>1, <1>4, <2>4, <2>5, <2>6, Zenon DEF Bound, Stored
    <3>3. Binding'
      <4>1. age' = 0 /\ granted' # 0
        BY <1>1 DEF Binding
      <4>2. Only(todo'["tcpip"], BindSteps') /\ todo'["tcpip"] # << >> /\ Last(todo'["tcpip"]) = Addr
        BY <1>4, <2>0, <2>6, <2>7, <3>1
      <4>. QED BY <1>4, <3>2, <4>1, <4>2, Zenon DEF Binding
    <3>. QED BY <3>3
  <2>8. CASE u = << >>
    <3>1. ~Has(u, {Set("lease_used", 0)}) /\ ~Has(u, {Set("t0_timeout", granted)})
          /\ ~Has(u, {Set("t1_renew_time", First)}) /\ ~Has(u, {LookBound, TurnBound})
      BY <2>8, Short, Zenon
    <3>2. /\ mem'.lease_used = 0 /\ mem'.t0_timeout = granted /\ mem'.t1_renew_time = First
          /\ mem'.state = "BOUND"
      BY <2>4, <2>5, <3>1, Zenon
    <3>3. \A t \in Driver : todo'[t] = << >>
      BY <1>4, <2>8, Threads, Zenon
    <3>4. age' = 0 /\ granted' # 0
      BY <1>1 DEF Binding
    <3>. QED BY <1>1, <2>6, <3>2, <3>3, <3>4, Zenon DEF Leased
  <2>. QED BY <2>7, <2>8
<1>. QED BY <1>7, <1>8, <1>9 DEF Binding

\* While an address is leased and nothing is being bound, the threads
\* serve it.
LEMMA LeasedServing ==
  ASSUME TypeInv, Leased
  PROVE  Serving
<1>1. \A A, B : Only(<< >>, A) /\ Led(<< >>, A, B)
  BY Short
<1>2. Alive
  <2>1. 0 < granted /\ 0 <= 0 /\ 0 <= 0 + 1
    <3>1. granted \in Number \ {0}
      BY DEF Leased, TypeInv
    <3>. QED BY <3>1, Bounds, SMT DEF Number
  <2>2. \A t \in Driver : Only(todo[t], Harmless \union InTime)
    BY <1>1, Zenon DEF Leased
  <2>. QED BY <2>1, <2>2, Zenon DEF Alive, Leased
<1>3. "BOUND" # "OFF"
  OBVIOUS
<1>. QED BY <1>1, <1>2, <1>3, Zenon DEF Serving, Leased

\* dhcp_set_state in dhcp_bind.
LEMMA BindingCompare ==
  ASSUME TypeInv, Binding, Compare("tcpip")
  PROVE  Binding'
<1>. DEFINE q == todo["tcpip"]
            x == Head(q)
            u == Tail(q)
            r == IF mem.state = x[2] THEN << >> ELSE <<Set("state", x[2]), Set("request_timeout", 0)>>
<1>0. "tcpip" \in Driver /\ "net" \in Driver /\ "net" # "tcpip"
  BY Threads
<1>1. At("tcpip", "set state") /\ Instead("tcpip", r)
      /\ mem' = mem /\ ticked' = ticked /\ age' = age /\ granted' = granted
  BY DEF Compare, history
<1>2. q # << >> /\ q \in Seq(Todos) /\ x \in Todos /\ x[1] = "set state"
  BY <1>0, <1>1, AtStep
<1>3. /\ u \in Seq(Todos)
      /\ \A A : Has(q, A) <=> x \in A \/ Has(u, A)
      /\ \A A : Only(q, A) <=> x \in A /\ Only(u, A)
  BY <1>2, FirstStep
<1>4. /\ Set("offered_t0_lease", granted) \in Todos /\ <<"bind">> \in Todos /\ Addr \in Todos
      /\ Set("offered_t0_lease", granted)[1] = "set" /\ <<"bind">>[1] = "bind"
      /\ Addr[1] = "set"
  <2>1. Set("offered_t0_lease", granted)[1] = "set" /\ <<"bind">>[1] = "bind"
    BY Parts
  <2>. QED BY <2>1, BindKinds, Special
<1>. HIDE DEF x, u, r
<1>5. Only(q, BindSteps) /\ Bound(q)
  <2>1. q # <<Set("offered_t0_lease", granted), <<"bind">>, Addr>>
    <3>. DEFINE a == Set("offered_t0_lease", granted)
                b == <<"bind">>
    <3>1. a \in Todos /\ b \in Todos /\ a[1] = "set"
      BY <1>4
    <3>. HIDE DEF a, b
    <3>2. Head(<<a, b, Addr>>) = a
      BY <1>4, <3>1, Three
    <3>. QED BY <1>2, <3>1, <3>2 DEF x, a, b
  <2>2. q # <<<<"bind">>, Addr>>
    <3>1. Head(<<<<"bind">>, Addr>>) = <<"bind">>
      BY <1>4, Pairs
    <3>. QED BY <1>2, <1>4, <3>1 DEF x
  <2>. QED BY <2>1, <2>2 DEF Binding
<1>6. x = LookBound /\ x[2] = "BOUND" /\ Only(u, BindSteps)
  <2>1. x \in BindSteps /\ Only(u, BindSteps)
    BY <1>3, <1>5, Zenon
  <2>2. x = LookBound
    BY <1>2, <2>1, BindKinds
  <2>. QED BY <2>1, <2>2, BindKinds
<1>7. /\ r \in Seq(Todos) /\ Only(r, BindSteps)
      /\ mem.state = "BOUND" \/ Has(r, {LookBound, TurnBound})
  <2>1. CASE mem.state = "BOUND"
    BY <1>6, <2>1, Short DEF r
  <2>2. CASE mem.state # "BOUND"
    <3>. DEFINE b == Set("request_timeout", 0)
    <3>1. TurnBound \in BindSteps /\ b \in BindSteps /\ TurnBound \in Todos /\ b \in Todos
      BY BindKinds DEF BindSteps
    <3>2. r = <<TurnBound, b>>
      BY <1>6, <2>2 DEF r, TurnBound
    <3>. HIDE DEF b
    <3>. QED BY <3>1, <3>2, Short
  <2>. QED BY <2>1, <2>2
<1>8. todo'["tcpip"] = r \o u /\ todo'["net"] = << >>
  <2>1. todo["net"] = << >>
    BY DEF Binding
  <2>. QED BY <1>0, <1>1, <1>2, <1>7, <2>1, Turn DEF u
<1>9. u # << >> /\ Last(u) = Addr
  <2>1. Last(q) = Addr
    BY DEF Binding
  <2>2. x # Addr
    BY <1>2, <1>4
  <2>3. u # << >>
    BY <1>2, <1>4, <2>1, <2>2, Lasts DEF u, x
  <2>. QED BY <1>2, <1>4, <2>1, <2>3, Lasts DEF u
<1>10. r \o u # << >> /\ Last(r \o u) = Addr
  <2>1. /\ Len(r \o u) = Len(r) + Len(u) /\ Len(r) \in Nat /\ r \o u \in Seq(Todos)
        /\ \A i \in 1..Len(u) : Len(r) + i \in 1..Len(r \o u) /\ (r \o u)[Len(r) + i] = u[i]
    BY <1>3, <1>7, Places
  <2>2. Len(u) \in Nat \ {0}
    BY <1>3, <1>9, EmptySeq
  <2>3. Len(u) \in 1..Len(u)
    BY <2>2, SMT
  <2>4. (r \o u)[Len(r \o u)] = u[Len(u)]
    BY <2>1, <2>3, Zenon
  <2>5. Len(r \o u) # 0
    BY <2>1, <2>2, SMT
  <2>6. r \o u # << >>
    BY <2>5, EmptySeq, Zenon
  <2>. QED BY <1>9, <2>4, <2>6, Zenon DEF Last
<1>11. Only(r \o u, BindSteps)
  BY <1>3, <1>6, <1>7, HasCat
<1>12. /\ \A f, v : Stored(q, f, v) => Stored(r \o u, f, v)
       /\ mem.state = "BOUND" \/ Has(r \o u, {LookBound, TurnBound})
  <2>1. \A A : Has(r \o u, A) <=> Has(r, A) \/ Has(u, A)
    BY <1>3, <1>7, HasCat
  <2>2. ASSUME NEW f, NEW v, Stored(q, f, v) PROVE Stored(r \o u, f, v)
    <3>1. x # Set(f, v)
      <4>1. Set(f, v)[1] = "set"
        BY Parts
      <4>. QED BY <1>2, <4>1
    <3>2. Has(q, {Set(f, v)}) => Has(u, {Set(f, v)})
      BY <1>3, <3>1, Zenon
    <3>. QED BY <2>1, <2>2, <3>2, Zenon DEF Stored
  <2>. QED BY <1>7, <2>1, <2>2
<1>13. Bound(r \o u)
  BY <1>5, <1>12, Zenon DEF Bound
<1>14. First' = First /\ BindSteps' = BindSteps
  <2>1. First' = First
    BY <1>1 DEF First
  <2>. QED BY <1>1, <2>1, Zenon DEF BindSteps
<1>15. Bound(todo["tcpip"])'
  BY <1>1, <1>8, <1>13, <1>14, Zenon DEF Bound, Stored
<1>16. age' = 0 /\ granted' # 0
  BY <1>1 DEF Binding
<1>17. Only(todo'["tcpip"], BindSteps') /\ todo'["tcpip"] # << >> /\ Last(todo'["tcpip"]) = Addr
  BY <1>8, <1>10, <1>11, <1>14
<1>. QED BY <1>8, <1>15, <1>16, <1>17, Zenon DEF Binding

\* dhcp_bind stores the lease in minutes, and its half.
LEMMA BindingBind ==
  ASSUME TypeInv, Binding, Bind
  PROVE  Binding'
<1>. DEFINE q == todo["tcpip"]
            r == BindTail(granted)
<1>0. "tcpip" \in Driver /\ "net" \in Driver /\ "net" # "tcpip"
  BY Threads
<1>1. /\ At("tcpip", "bind") /\ Instead("tcpip", BindTail(mem.offered_t0_lease))
      /\ mem' = mem /\ age' = age /\ granted' = granted
  BY DEF Bind, history, BindTail
<1>2. q # << >> /\ q \in Seq(Todos) /\ Head(q)[1] = "bind" /\ Head(q) \in Todos
  BY <1>0, <1>1, AtStep
<1>3. /\ Set("offered_t0_lease", granted) \in Todos /\ <<"bind">> \in Todos /\ Addr \in Todos
      /\ granted \in Number \ {0} /\ age = 0 /\ todo["net"] = << >>
  BY BindKinds DEF TypeInv, Binding
<1>4. q = <<<<"bind">>, Addr>> /\ mem.offered_t0_lease = granted
  <2>1. q # <<Set("offered_t0_lease", granted), <<"bind">>, Addr>>
    <3>. DEFINE a == Set("offered_t0_lease", granted)
                b == <<"bind">>
    <3>1. a \in Todos /\ b \in Todos /\ a[1] = "set"
      BY <1>3, Parts
    <3>. HIDE DEF a, b
    <3>2. Head(<<a, b, Addr>>) = a
      BY <1>3, <3>1, Three
    <3>3. q # <<a, b, Addr>>
      BY <1>2, <3>1, <3>2
    <3>. QED BY <3>3 DEF a, b
  <2>2. ~Only(q, BindSteps)
    <3>1. Head(q) \notin BindSteps
      <4>1. LookBound[1] = "set state"
        BY BindKinds
      <4>. QED BY <1>2, <4>1, BindKinds
    <3>2. Only(q, BindSteps) => Head(q) \in BindSteps
      BY <1>2, FirstStep
    <3>. QED BY <3>1, <3>2
  <2>. QED BY <2>1, <2>2 DEF Binding
<1>5. Tail(q) = <<Addr>> /\ <<Addr>> \in Seq(Todos)
  BY <1>3, <1>4, Pairs, Short
<1>6. granted >= 1
  BY <1>3, Bounds
<1>7. /\ Periods(60 * granted) = granted
      /\ Periods(T1(60 * granted)) = First
      /\ Periods((7 * (60 * granted)) \div 8) \in Number
  <2>1. granted # 0
    BY <1>3
  <2>. QED BY <1>3, <2>1, Halves DEF First
<1>. DEFINE t2 == Periods((7 * (60 * granted)) \div 8)
            a == Set("lease_used", 0)
            b == Set("t0_timeout", granted)
            c == Set("t1_renew_time", First)
            d == Set("t2_timeout", t2)
            e == Set("t2_rebind_time", t2)
<1>8. /\ r \in Seq(Todos) /\ r # << >>
      /\ \A A : Has(r, A) <=> a \in A \/ b \in A \/ c \in A \/ d \in A \/ e \in A \/ LookBound \in A
      /\ \A A : Only(r, A) <=> a \in A /\ b \in A /\ c \in A /\ d \in A /\ e \in A /\ LookBound \in A
  BY <1>3, <1>7, BindSpelled, Zenon DEF LookBound
<1>. HIDE DEF r
<1>9. Only(r, BindSteps)
  <2>1. t2 \in Number /\ First \in Number /\ 0 \in Number /\ granted \in Number
    <3>1. Periods(T1(60 * granted)) \in Number
      BY <1>3, Halves
    <3>. QED BY <1>3, <1>7, <3>1, Bounds
  <2>. HIDE DEF t2
  <2>2. a \in Todos /\ b \in Todos /\ c \in Todos /\ d \in Todos /\ e \in Todos
    BY <2>1, StepsIn, CountersIn, Zenon
  <2>3. /\ d[1] = "set" /\ d[2] = "t2_timeout" /\ e[1] = "set" /\ e[2] = "t2_rebind_time"
    BY Parts
  <2>4. LookBound \in BindSteps
    BY BindKinds
  <2>5. a \in BindSteps /\ b \in BindSteps /\ c \in BindSteps
    BY <2>2, Zenon DEF BindSteps
  <2>. HIDE DEF d, e
  <2>6. d \in BindSteps /\ e \in BindSteps
    BY <2>2, <2>3, Zenon DEF BindSteps
  <2>7. \A A : Only(r, A) <=> a \in A /\ b \in A /\ c \in A /\ d \in A /\ e \in A /\ LookBound \in A
    BY <1>8
  <2>. QED BY <2>4, <2>5, <2>6, <2>7, Zenon
<1>10. Has(r, {a}) /\ Has(r, {b}) /\ Has(r, {c}) /\ Has(r, {LookBound, TurnBound})
  BY <1>8, Zenon
<1>11. todo'["tcpip"] = r \o <<Addr>> /\ todo'["net"] = << >>
  BY <1>0, <1>1, <1>2, <1>3, <1>4, <1>5, <1>8, Turn DEF r
<1>12. r \o <<Addr>> # << >> /\ Last(r \o <<Addr>>) = Addr
  BY <1>3, <1>8, Lasts
<1>13. Only(r \o <<Addr>>, BindSteps)
  <2>1. Only(<<Addr>>, BindSteps)
    BY BindKinds, Short
  <2>. QED BY <1>5, <1>8, <1>9, <2>1, HasCat
<1>14. Has(r \o <<Addr>>, {a}) /\ Has(r \o <<Addr>>, {b}) /\ Has(r \o <<Addr>>, {c})
       /\ Has(r \o <<Addr>>, {LookBound, TurnBound})
  BY <1>5, <1>8, <1>10, HasCat, Zenon
<1>15. First' = First /\ BindSteps' = BindSteps /\ age' = 0 /\ granted' = granted /\ granted # 0
  <2>1. First' = First
    BY <1>1 DEF First
  <2>2. BindSteps' = BindSteps
    BY <1>1, <2>1, Zenon DEF BindSteps
  <2>. QED BY <1>1, <1>3, <2>1, <2>2
<1>16. Bound(todo["tcpip"])'
  BY <1>11, <1>14, <1>15, Zenon DEF Bound, Stored
<1>17. Only(todo'["tcpip"], BindSteps') /\ todo'["tcpip"] # << >> /\ Last(todo'["tcpip"]) = Addr
  BY <1>11, <1>12, <1>13, <1>15
<1>. QED BY <1>11, <1>15, <1>16, <1>17, Zenon DEF Binding

\* While an ACK is being handled, tcpip_thread is at one of its steps.
LEMMA BindingAt ==
  ASSUME TypeInv, Binding, NEW t \in Driver, NEW w, At(t, w)
  PROVE  t = "tcpip" /\ w \in {"set", "bind", "set state"}
<1>. DEFINE q == todo["tcpip"]
<1>1. t = "tcpip"
  BY Threads DEF At, Idle, Binding
<1>2. q # << >> /\ q \in Seq(Todos) /\ Head(q)[1] = w
  BY <1>1, AtStep
<1>3. /\ Set("offered_t0_lease", granted) \in Todos /\ <<"bind">> \in Todos /\ Addr \in Todos
  BY BindKinds
<1>4. CASE q = <<Set("offered_t0_lease", granted), <<"bind">>, Addr>>
  <2>. DEFINE a == Set("offered_t0_lease", granted)
              b == <<"bind">>
  <2>1. a[1] = "set"
    BY Parts
  <2>. HIDE DEF a, b
  <2>2. Head(q) = a
    BY <1>3, <1>4, Three DEF a, b
  <2>. QED BY <1>1, <1>2, <2>1, <2>2
<1>5. CASE q = <<<<"bind">>, Addr>>
  <2>1. Head(q) = <<"bind">> /\ <<"bind">>[1] = "bind"
    BY <1>3, <1>5, Pairs, Parts
  <2>. QED BY <1>1, <1>2, <2>1
<1>6. CASE Only(q, BindSteps)
  <2>1. Head(q) \in BindSteps
    BY <1>2, <1>6, FirstStep
  <2>2. Head(q)[1] = "set" \/ Head(q) = LookBound
    BY <2>1, BindKinds
  <2>3. LookBound[1] = "set state"
    BY BindKinds
  <2>. QED BY <1>1, <1>2, <2>2, <2>3
<1>. QED BY <1>4, <1>5, <1>6 DEF Binding

\* The other thread does not begin a tick meanwhile.
LEMMA BindingTick ==
  ASSUME TypeInv, Binding, NEW t \in Driver, FineTick(t) \/ CoarseTick(t)
  PROVE  "bind" \in overlaps'
<1>1. overlaps' = overlaps \union Overlap(t)
  BY DEF FineTick, CoarseTick
<1>2. ~Idle("tcpip") /\ Last(todo["tcpip"]) = Set("addr", TRUE)
  BY DEF Binding, Idle, Addr
<1>3. "bind" \in Overlap(t)
  BY <1>2, Zenon DEF Overlap
<1>. QED BY <1>1, <1>3

\* dhcp_handle_ack, while network_thread rests.
LEMMA BindingAck ==
  ASSUME TypeInv, NEW l \in Leases, HandleAck(l), "bind" \notin overlaps'
  PROVE  Binding'
<1>1. /\ Idle("tcpip") /\ mem' = mem /\ age' = 0 /\ granted' = l
      /\ overlaps' = {k \in {"bind"} : ~Idle("net")}
      /\ Push("tcpip", <<Set("offered_t0_lease", l), <<"bind">>, Addr>>)
  BY DEF HandleAck, Addr
<1>2. Idle("net")
  BY <1>1, Zenon
<1>3. l \in Number \ {0}
  BY Bounds
<1>. DEFINE a == Set("offered_t0_lease", l)
            b == <<"bind">>
            s == <<a, b, Addr>>
<1>4. a \in Todos /\ b \in Todos /\ Addr \in Todos
  BY <1>3, StepsIn, CountersIn, BindKinds, Zenon
<1>. HIDE DEF a, b
<1>5. s \in Seq(Todos) /\ s # << >> /\ Last(s) = Addr
  BY <1>4, Three
<1>. HIDE DEF s
<1>6. todo'["tcpip"] = s /\ todo'["net"] = << >>
  <2>1. Push("tcpip", s)
    BY <1>1 DEF s, a, b
  <2>. QED BY <1>1, <1>2, <1>5, <2>1, Beginning, Threads DEF Idle
<1>7. todo'["tcpip"] = <<Set("offered_t0_lease", granted'), <<"bind">>, Addr>>
  BY <1>1, <1>6 DEF s, a, b
<1>8. todo'["tcpip"] # << >> /\ Last(todo'["tcpip"]) = Addr /\ granted' # 0
  BY <1>1, <1>3, <1>5, <1>6
<1>. QED BY <1>1, <1>6, <1>7, <1>8, Zenon DEF Binding

\* Overlaps are remembered until the next ACK.
LEMMA OverlapsGrow ==
  ASSUME [TimersNext]_timersvars, \A l \in Leases : ~HandleAck(l)
  PROVE  overlaps \subseteq overlaps'
<1>1. ASSUME NEW t \in Driver, Step(t) \/ FineTick(t) \/ CoarseTick(t) PROVE overlaps \subseteq overlaps'
  BY <1>1 DEF Step, Store, Compare, Send, ReleaseAndStop, StartAgain, Timeout, TickT2, TickT1, T2Timeout,
              T1Timeout, NextT2, NextT1, NextTry, FineTick, CoarseTick, history
<1>2. CASE HandleOffer \/ HandleNak \/ Bind \/ Minute
  BY <1>2 DEF HandleOffer, HandleNak, Bind, Minute, history
<1>3. CASE UNCHANGED timersvars
  BY <1>3 DEF timersvars
<1>. QED BY <1>1, <1>2, <1>3 DEF TimersNext

\* While an ACK is handled, nothing else happens, and then the lease begins.
LEMMA BindingMoves ==
  ASSUME TypeInv, Binding, [TimersNext]_timersvars, \A l \in Leases : ~HandleAck(l),
         "bind" \notin overlaps'
  PROVE  Leased' \/ Binding'
<1>1. ASSUME NEW t \in Driver, Step(t) PROVE Leased' \/ Binding'
  <2>1. Store(t) \/ Compare(t)
    <3> SUFFICES ASSUME ~Store(t), ~Compare(t) PROVE FALSE
      OBVIOUS
    <3>1. \E w \in {"send", "release", "start", "timeout", "t2", "t1", "rebind", "renew", "next t2", "next t1"} : At(t, w)
      BY <1>1 DEF Step, Send, ReleaseAndStop, StartAgain, Timeout, TickT2, TickT1, T2Timeout, T1Timeout,
                  NextT2, NextT1, NextTry
    <3>2. PICK w \in {"send", "release", "start", "timeout", "t2", "t1", "rebind", "renew", "next t2", "next t1"} : At(t, w)
      BY <3>1
    <3>3. w \in {"set", "bind", "set state"}
      BY <3>2, BindingAt
    <3>. QED BY <3>3, Zenon
  <2>2. t = "tcpip"
    <3>1. \E w : At(t, w)
      BY <2>1 DEF Store, Compare
    <3>. QED BY <3>1, BindingAt
  <2>. QED BY <2>1, <2>2, BindingStore, BindingCompare
<1>2. ASSUME NEW t \in Driver, FineTick(t) \/ CoarseTick(t) PROVE FALSE
  BY <1>2, BindingTick
<1>3. ~HandleOffer /\ ~HandleNak /\ ~Minute
  BY Threads, Zenon DEF HandleOffer, HandleNak, Minute, Idle, Binding
<1>4. CASE Bind
  BY <1>4, BindingBind
<1>5. CASE UNCHANGED timersvars
  BY <1>5, Zenon DEF timersvars, Binding, Bound, Stored, BindSteps, First
<1>. QED BY <1>1, <1>2, <1>3, <1>4, <1>5 DEF TimersNext

\* Every step of the system keeps the invariant.
LEMMA LeaseStep == TypeInv /\ LeaseInv /\ [TimersNext]_timersvars => LeaseInv'
<1> SUFFICES ASSUME TypeInv, LeaseInv, [TimersNext]_timersvars, "bind" \notin overlaps'
             PROVE  Serving' \/ Binding'
  BY DEF LeaseInv
<1>1. ASSUME NEW l \in Leases, HandleAck(l) PROVE Binding'
  BY <1>1, BindingAck
<1>2. ASSUME \A l \in Leases : ~HandleAck(l) PROVE "bind" \notin overlaps
  BY <1>2, OverlapsGrow
<1>3. CASE (\A l \in Leases : ~HandleAck(l)) /\ Serving
  <2>1. ASSUME NEW t \in Driver, Step(t) \/ FineTick(t) \/ CoarseTick(t) PROVE Serving'
    BY <1>3, <2>1, ServingStep, ServingFine, ServingCoarse
  <2>2. CASE HandleOffer \/ HandleNak \/ Minute
    BY <1>3, <2>2, ServingAnswers, ServingMinute
  <2>3. ~Bind
    <3> SUFFICES ASSUME Bind PROVE FALSE
      OBVIOUS
    <3>0. "tcpip" \in Driver
      BY Threads
    <3>1. At("tcpip", "bind")
      BY DEF Bind
    <3>2. /\ todo["tcpip"] # << >> /\ todo["tcpip"] \in Seq(Todos)
          /\ Head(todo["tcpip"]) \in Todos /\ Head(todo["tcpip"])[1] = "bind"
      BY <3>0, <3>1, AtStep
    <3>3. Only(todo["tcpip"], Plain)
      BY <1>3, <3>0 DEF Serving
    <3>4. Head(todo["tcpip"]) \in Plain
      BY <3>2, <3>3, FirstStep
    <3>. QED BY <3>2, <3>4, Zenon DEF Plain, Binders
  <2>4. CASE UNCHANGED timersvars
    BY <1>3, <2>4, Zenon DEF timersvars, Serving, Alive, InTime
  <2>. QED BY <1>3, <2>1, <2>2, <2>3, <2>4 DEF TimersNext
<1>4. CASE (\A l \in Leases : ~HandleAck(l)) /\ Binding
  <2>1. TypeInv'
    BY TypeStep
  <2>2. Leased' => Serving'
    BY <2>1, LeasedServing, PTL
  <2>. QED BY <1>4, <2>2, BindingMoves
<1>. QED BY <1>1, <1>2, <1>3, <1>4 DEF LeaseInv

\* The invariant holds at first: there is no address.
LEMMA TimersInitLease == TimersInit => LeaseInv
<1> SUFFICES ASSUME TimersInit PROVE Serving
  BY DEF LeaseInv
<1>1. mem = Cleared(FALSE) /\ todo["net"] = <<<<"start">>>> /\ todo["tcpip"] = << >>
  BY Threads DEF TimersInit
<1>2. ~mem.addr
  BY <1>1, CountersIn, Zenon DEF Cleared
<1>3. Only(<<<<"start">>>>, Plain) /\ Only(<< >>, Plain)
  <2>1. "start" \in Words \ {"bind"}
    BY WordsIn
  <2>2. <<"start">> \in Plain
    BY <2>1, Kinds
  <2>. QED BY <2>2, Short
<1>4. \A t \in Driver : Only(todo[t], Plain)
  BY <1>1, <1>3, Threads, Zenon
<1>. QED BY <1>2, <1>4, Zenon DEF Serving

\* The types and the lease's invariant hold in every reachable state.
THEOREM LeaseInductive == TimersSpec => [](TypeInv /\ LeaseInv)
<1>1. TimersInit => TypeInv /\ LeaseInv
  BY TimersInitTypes, TimersInitLease
<1>2. TypeInv /\ LeaseInv /\ [TimersNext]_timersvars => (TypeInv /\ LeaseInv)'
  BY TypeStep, LeaseStep
<1>. QED BY <1>1, <1>2, PTL DEF TimersSpec

\* Type correctness of the counters, whatever the leases and the width.
THEOREM TimersTypeCorrect == TimersSpec => []TimersTypeOK
<1>1. TypeInv => TimersTypeOK
  <2> SUFFICES ASSUME TypeInv PROVE TimersTypeOK
    OBVIOUS
  <2>1. DOMAIN mem = Fields
    BY DEF TypeInv
  <2>2. mem.state \in Waiting \union Holding \union {"OFF"} /\ mem.addr \in BOOLEAN
    BY DEF TypeInv, States
  <2>3. \A f \in Counter : mem[f] \in 0..(Width - 1)
    BY DEF TypeInv, Number
  <2>4. ASSUME NEW t \in Driver, NEW k \in DOMAIN todo[t], todo[t][k][1] = "set"
        PROVE  todo[t][k][2] \in Fields
    <3>1. todo[t][k] \in Todos
      BY SMT DEF TypeInv
    <3>2. \/ todo[t][k][2] \in Counter \/ todo[t][k][2] = "state" \/ todo[t][k][2] = "addr"
      BY <2>4, <3>1, Storable
    <3>. QED BY <3>2, CountersIn
  <2>. QED BY <2>1, <2>2, <2>3, <2>4 DEF TimersTypeOK
<1>. QED BY <1>1, LeaseInductive, PTL

\* An address is not used for longer than it was leased, whatever the leases
\* and the width of the counters: unless a thread began a tick while the other
\* was handling the ACK, the comparison for equality in dhcp_coarse_tmr
\* (dhcp.c:440) is not passed.
THEOREM LeaseKept == TimersSpec => []LeaseRespected
<1>1. TypeInv /\ LeaseInv => LeaseRespected
  <2> SUFFICES ASSUME TypeInv, LeaseInv, AtRest, mem.addr, "bind" \notin overlaps
               PROVE  age <= granted
    BY DEF LeaseRespected
  <2>1. \A t \in Driver : todo[t] = << >>
    BY DEF AtRest, Idle
  <2>2. ~Binding
    BY <2>1, Threads, Zenon DEF Binding
  <2>3. Serving
    BY <2>2 DEF LeaseInv
  <2>4. \A A : ~Has(<< >>, A)
    BY Short
  <2>5. Alive
    BY <2>1, <2>3, <2>4, Zenon DEF Serving
  <2>6. mem.lease_used \in Int
    <3>1. mem.lease_used \in Number
      BY Numbers
    <3>. QED BY <3>1, Bounds
  <2>7. age \in Int /\ granted \in Int
    <3>1. granted \in Number
      BY DEF TypeInv
    <3>2. age \in Int
      BY SMT DEF TypeInv
    <3>. QED BY <3>1, <3>2, Bounds
  <2>. QED BY <2>5, <2>6, <2>7, SMT DEF Alive
<1>. QED BY <1>1, LeaseInductive, PTL

-----------------------------------------------------------------------------
(* Without overlaps the client is never stuck, and asks before it gives a  *)
(* lease up.                                                               *)

\* What tcpip_thread has to do after an offer or a NAK.
Reply ==
  {x \in Todos : \/ x[1] = "set" /\ x[2] = "request_timeout"
                 \/ x[1] = "set" /\ x[2] = "state" /\ x[3] \in Waiting
                 \/ (x[1] = "set state" \/ x[1] = "send") /\ x[2] \in Waiting
                 \/ x = NoAddr}

\* After these request_timeout may be 0, until one of those.
Unfix ==
  {x \in Todos : \/ x[1] = "set state"
                 \/ x[1] = "set" /\ x[2] = "state"
                 \/ x[1] = "set" /\ x[2] = "request_timeout" /\ x[3] = 0}
Fix ==
  {x \in Todos : \/ x[1] = "set" /\ x[2] = "request_timeout" /\ x[3] # 0
                 \/ x[1] = "timeout" \/ x[1] = "start"}

\* Steps that give a lease up, and the one that they are followed by.
Leaving ==
  {x \in Todos : \/ x[1] = "release"
                 \/ x[1] = "set" /\ x[2] = "t0_timeout"
                 \/ x[1] = "set state" /\ x[2] = "OFF"
                 \/ x[1] = "set" /\ x[2] = "state" /\ x[3] = "OFF"}
Starts == {x \in Todos : x[1] = "start"}
Frees  == {x \in Todos : x[1] = "release"}

\* Steps that turn the client on.
Wake ==
  {x \in Todos : \/ x[1] = "start"
                 \/ x[1] = "set state" /\ x[2] = "SELECTING"
                 \/ x[1] = "set" /\ x[2] = "state" /\ x[3] = "SELECTING"}

\* Steps into a state with a lease, the requests to extend it, the steps that
\* lead there, and the later ones.
ToHold ==
  {x \in Todos : \/ x[1] = "set state" /\ x[2] \in Holding
                 \/ x[1] = "set" /\ x[2] = "state" /\ x[3] \in Holding}
Pleas  == {x \in Todos : x[1] = "send" /\ x[2] \in {"RENEWING", "REBINDING"}}
Extend == {x \in Todos : x[1] = "rebind" \/ x[1] = "renew"}
Again  == {x \in Todos : x[1] = "next t2" \/ x[1] = "next t1"}
Rearm  ==
  {x \in Todos : /\ x[1] = "set"
                 /\ x[2] = "t1_renew_time" \/ x[2] = "t2_rebind_time"
                 /\ x[3] # 0}
Holdy  == ToHold \union Pleas \union Extend \union Again \union Rearm
Tock   == {x \in Todos : x[1] = "t2" \/ x[1] = "t1"}
Busy   == Holdy \union Tock

\* Steps after which there may be no lease.
Ends == {x \in Todos : x[1] = "timeout" \/ x[1] = "start"}

Tame(q) == Only(q, Plain) /\ Followed(q, Unfix, Fix) /\ Followed(q, Leaving, Starts)

\* Somebody sets request_timeout, and turns the client on, if need be.
Awake ==
  /\ \A t \in Driver : Tame(todo[t])
  /\ mem.state \in Waiting /\ mem.request_timeout = 0 => \E t \in Driver : Has(todo[t], Fix)
  /\ mem.state = "OFF" => \E t \in Driver : Has(todo[t], Wake)

\* Thread w is the only one that handles a tick, and it does nothing about a
\* lease when there is none.
Worker(w) ==
  /\ \A o \in Driver \ {w} : Only(todo[o], Reply)
  /\ Has(todo[w], Ends) => ~Has(todo[w], Busy)
  /\ mem.t0_timeout = 0 =>
       /\ ~Has(todo[w], Holdy)
       /\ \/ Has(todo[w], Starts)
          \/ mem.t1_renew_time = 0 /\ mem.t2_rebind_time = 0 /\ mem.state \notin Holding

-----------------------------------------------------------------------------
\* While a thread has steps q to do with fields m, T1 of a lease of g minutes
\* is counted along with lease_used, up to T1, or a request to extend the lease
\* is next.
Met(m, g)   == m.lease_used + m.t1_renew_time = (g + 1) \div 2 /\ m.t1_renew_time > 0
Ahead(m, g) == m.lease_used + m.t1_renew_time = (g + 1) \div 2 + 1 /\ m.t1_renew_time > 0
LookOn == {x \in Todos : x[1] = "timeout"}

Counting(q, m, g) ==
  \/ Only(q, Reply \union LookOn) /\ Met(m, g)
  \/ q = <<Set("lease_used", m.lease_used + 1), <<"t2">>>> /\ Met(m, g)
  \/ q = <<<<"t2">>>> /\ Ahead(m, g)
  \/ (\E v \in Number : q = <<Set("t2_rebind_time", v), <<"t1">>>>) /\ Ahead(m, g)
  \/ q = <<<<"t1">>>> /\ Ahead(m, g)
  \/ q = <<Set("t1_renew_time", m.t1_renew_time - 1)>> /\ Ahead(m, g) /\ m.t1_renew_time > 1

Counted(q, m, g) ==
  /\ m.t0_timeout = g /\ g >= 2 /\ m.state = "BOUND"
  /\ Counting(q, m, g) \/ (Has(q, Extend) /\ ~Has(q, Frees))

\* The server has been asked, or w is about to ask it, or it counts up to T1.
Asking(w) ==
  ~asked /\ granted # 1 =>
    \/ Has(todo[w], Pleas) /\ ~Has(todo[w], Frees)
    \/ ~Has(todo[w], ToHold) /\ (mem.state \in Holding => Counted(todo[w], mem, granted))

\* What NotStuck and AskedFirst rest on.
SteadyInv ==
  overlaps = {} => Binding \/ (Awake /\ \E w \in Driver : Worker(w) /\ Asking(w))

\* The sets, field by field.
LEMMA Means ==
  ASSUME NEW x \in Todos
  PROVE  /\ x \in Reply <=> (x[1] = "set" /\ x[2] = "request_timeout") \/ (x[1] = "set" /\ x[2] = "state" /\ x[3] \in Waiting) \/ ((x[1] = "set state" \/ x[1] = "send") /\ x[2] \in Waiting) \/ x = NoAddr
         /\ x \in Unfix <=> x[1] = "set state" \/ (x[1] = "set" /\ x[2] = "state") \/ (x[1] = "set" /\ x[2] = "request_timeout" /\ x[3] = 0)
         /\ x \in Fix <=> (x[1] = "set" /\ x[2] = "request_timeout" /\ x[3] # 0) \/ x[1] = "timeout" \/ x[1] = "start"
         /\ x \in Leaving <=> x[1] = "release" \/ (x[1] = "set" /\ x[2] = "t0_timeout") \/ (x[1] = "set state" /\ x[2] = "OFF") \/ (x[1] = "set" /\ x[2] = "state" /\ x[3] = "OFF")
         /\ x \in Starts <=> x[1] = "start"
         /\ x \in Frees <=> x[1] = "release"
         /\ x \in Wake <=> x[1] = "start" \/ (x[1] = "set state" /\ x[2] = "SELECTING") \/ (x[1] = "set" /\ x[2] = "state" /\ x[3] = "SELECTING")
         /\ x \in ToHold <=> (x[1] = "set state" /\ x[2] \in Holding) \/ (x[1] = "set" /\ x[2] = "state" /\ x[3] \in Holding)
         /\ x \in Pleas <=> x[1] = "send" /\ x[2] \in {"RENEWING", "REBINDING"}
         /\ x \in Extend <=> x[1] = "rebind" \/ x[1] = "renew"
         /\ x \in Again <=> x[1] = "next t2" \/ x[1] = "next t1"
         /\ x \in Rearm <=> x[1] = "set" /\ x[3] # 0 /\ (x[2] = "t1_renew_time" \/ x[2] = "t2_rebind_time")
         /\ x \in Tock <=> x[1] = "t2" \/ x[1] = "t1"
         /\ x \in Ends <=> x[1] = "timeout" \/ x[1] = "start"
         /\ x \in LookOn <=> x[1] = "timeout"
<1>1. x \in Reply <=> (x[1] = "set" /\ x[2] = "request_timeout") \/ (x[1] = "set" /\ x[2] = "state" /\ x[3] \in Waiting) \/ ((x[1] = "set state" \/ x[1] = "send") /\ x[2] \in Waiting) \/ x = NoAddr
  BY Zenon DEF Reply
<1>2. x \in Unfix <=> x[1] = "set state" \/ (x[1] = "set" /\ x[2] = "state") \/ (x[1] = "set" /\ x[2] = "request_timeout" /\ x[3] = 0)
  BY Zenon DEF Unfix
<1>3. x \in Fix <=> (x[1] = "set" /\ x[2] = "request_timeout" /\ x[3] # 0) \/ x[1] = "timeout" \/ x[1] = "start"
  BY Zenon DEF Fix
<1>4. x \in Leaving <=> x[1] = "release" \/ (x[1] = "set" /\ x[2] = "t0_timeout") \/ (x[1] = "set state" /\ x[2] = "OFF") \/ (x[1] = "set" /\ x[2] = "state" /\ x[3] = "OFF")
  BY Zenon DEF Leaving
<1>5. x \in Starts <=> x[1] = "start"
  BY Zenon DEF Starts
<1>6. x \in Frees <=> x[1] = "release"
  BY Zenon DEF Frees
<1>7. x \in Wake <=> x[1] = "start" \/ (x[1] = "set state" /\ x[2] = "SELECTING") \/ (x[1] = "set" /\ x[2] = "state" /\ x[3] = "SELECTING")
  BY Zenon DEF Wake
<1>8. x \in ToHold <=> (x[1] = "set state" /\ x[2] \in Holding) \/ (x[1] = "set" /\ x[2] = "state" /\ x[3] \in Holding)
  BY Zenon DEF ToHold
<1>9. x \in Pleas <=> x[1] = "send" /\ x[2] \in {"RENEWING", "REBINDING"}
  BY Zenon DEF Pleas
<1>10. x \in Extend <=> x[1] = "rebind" \/ x[1] = "renew"
  BY Zenon DEF Extend
<1>11. x \in Again <=> x[1] = "next t2" \/ x[1] = "next t1"
  BY Zenon DEF Again
<1>12. x \in Rearm <=> x[1] = "set" /\ x[3] # 0 /\ (x[2] = "t1_renew_time" \/ x[2] = "t2_rebind_time")
  BY Zenon DEF Rearm
<1>13. x \in Tock <=> x[1] = "t2" \/ x[1] = "t1"
  BY Zenon DEF Tock
<1>14. x \in Ends <=> x[1] = "timeout" \/ x[1] = "start"
  BY Zenon DEF Ends
<1>15. x \in LookOn <=> x[1] = "timeout"
  BY Zenon DEF LookOn
<1>. QED BY <1>1, <1>2, <1>3, <1>4, <1>5, <1>6, <1>7, <1>8, <1>9, <1>10, <1>11, <1>12, <1>13, <1>14, <1>15, Zenon

\* Which of the sets below a store of a counter belongs to.
LEMMA MarksSet ==
  ASSUME NEW f \in Counter, NEW v \in Number, NEW x, x = Set(f, v)
  PROVE  /\ x \in Todos /\ x \in Plain /\ x[1] = "set" /\ x[2] = f /\ x[3] = v
         /\ x \notin Starts /\ x \notin Frees /\ x \notin Wake /\ x \notin ToHold /\ x \notin Pleas
         /\ x \notin Extend /\ x \notin Again /\ x \notin Ends /\ x \notin LookOn
         /\ x \in Unfix <=> f = "request_timeout" /\ v = 0
         /\ x \in Fix <=> f = "request_timeout" /\ v # 0
         /\ x \in Leaving <=> f = "t0_timeout"
         /\ x \in Rearm <=> f \in {"t1_renew_time", "t2_rebind_time"} /\ v # 0
         /\ (x \in Holdy <=> x \in Rearm) /\ (x \in Busy <=> x \in Rearm)
         /\ x \in Reply <=> f = "request_timeout"
<1>1. x \in Todos /\ x \in Plain
  BY StepsIn, Kinds
<1>2. x[1] = "set" /\ x[2] = f /\ x[3] = v /\ f # "state" /\ f # "addr"
  BY Parts, CountersIn
<1>3. x \notin Starts /\ x \notin Frees /\ x \notin Wake /\ x \notin ToHold /\ x \notin Pleas
      /\ x \notin Extend /\ x \notin Again /\ x \notin Ends /\ x \notin LookOn
  BY <1>1, <1>2, Means, Zenon
<1>4. /\ x \in Unfix <=> f = "request_timeout" /\ v = 0
      /\ x \in Fix <=> f = "request_timeout" /\ v # 0
      /\ x \in Leaving <=> f = "t0_timeout"
      /\ x \in Rearm <=> f \in {"t1_renew_time", "t2_rebind_time"} /\ v # 0
  BY <1>1, <1>2, Means, Zenon
<1>5. (x \in Holdy <=> x \in Rearm) /\ (x \in Busy <=> x \in Rearm)
  <2>1. x \notin Tock
    BY <1>1, <1>2, Means, Zenon
  <2>. QED BY <1>3, <2>1, Zenon DEF Holdy, Busy
<1>6. x \in Reply <=> f = "request_timeout"
  <2>1. x # NoAddr
    BY <1>2, Special
  <2>. QED BY <1>1, <1>2, <2>1, Means, Zenon
<1>. QED BY <1>1, <1>2, <1>3, <1>4, <1>5, <1>6

\* The same for the two steps of a change of state.
LEMMA MarksState ==
  ASSUME NEW s \in States, NEW x, x = Set("state", s) \/ x = <<"set state", s>>
  PROVE  /\ x \in Todos /\ x \in Plain
         /\ x \notin Starts /\ x \notin Frees /\ x \notin Pleas /\ x \notin Fix
         /\ x \notin Extend /\ x \notin Again /\ x \notin Ends /\ x \notin LookOn /\ x \notin Rearm
         /\ x \in Unfix
         /\ x \in Leaving <=> s = "OFF"
         /\ x \in Wake <=> s = "SELECTING"
         /\ x \in ToHold <=> s \in Holding
         /\ (x \in Holdy <=> s \in Holding) /\ (x \in Busy <=> s \in Holding)
         /\ x \in Reply <=> s \in Waiting
<1>1. x \in Todos /\ x \in Plain
  BY StepsIn, Kinds
<1>2. (x[1] = "set" /\ x[2] = "state" /\ x[3] = s) \/ (x[1] = "set state" /\ x[2] = s)
  <2>1. CASE x = Set("state", s)
    BY <2>1, Parts
  <2>2. CASE x = <<"set state", s>>
    BY <2>2, Parts
  <2>. QED BY <2>1, <2>2
<1>3. /\ x \notin Starts /\ x \notin Frees /\ x \notin Pleas /\ x \notin Fix
      /\ x \notin Extend /\ x \notin Again /\ x \notin Ends /\ x \notin LookOn /\ x \notin Rearm
  BY <1>1, <1>2, Means, Zenon
<1>4. /\ x \in Unfix
      /\ x \in Leaving <=> s = "OFF"
      /\ x \in Wake <=> s = "SELECTING"
      /\ x \in ToHold <=> s \in Holding
  BY <1>1, <1>2, Means, Zenon
<1>5. (x \in Holdy <=> s \in Holding) /\ (x \in Busy <=> s \in Holding)
  <2>1. x \notin Tock
    BY <1>1, <1>2, Means, Zenon
  <2>. QED BY <1>3, <1>4, <2>1, Zenon DEF Holdy, Busy
<1>6. x \in Reply <=> s \in Waiting
  <2>1. x # NoAddr
    BY <1>2, Special
  <2>. QED BY <1>1, <1>2, <2>1, Means, Zenon
<1>. QED BY <1>1, <1>3, <1>4, <1>5, <1>6

\* The same for a request.
LEMMA MarksSend ==
  ASSUME NEW s \in States, NEW x, x = <<"send", s>>
  PROVE  /\ x \in Todos /\ x \in Plain
         /\ x \notin Starts /\ x \notin Frees /\ x \notin Fix /\ x \notin Unfix /\ x \notin Leaving
         /\ x \notin Wake /\ x \notin ToHold
         /\ x \notin Extend /\ x \notin Again /\ x \notin Ends /\ x \notin LookOn /\ x \notin Rearm
         /\ x \in Pleas <=> s \in {"RENEWING", "REBINDING"}
         /\ (x \in Holdy => s \in Holding) /\ (x \in Busy => s \in Holding)
         /\ x \in Reply <=> s \in Waiting
<1>1. x \in Todos /\ x \in Plain
  BY StepsIn, Kinds DEF Harmless
<1>2. x[1] = "send" /\ x[2] = s
  BY Parts
<1>3. /\ x \notin Starts /\ x \notin Frees /\ x \notin Fix /\ x \notin Unfix /\ x \notin Leaving
      /\ x \notin Wake /\ x \notin ToHold
      /\ x \notin Extend /\ x \notin Again /\ x \notin Ends /\ x \notin LookOn /\ x \notin Rearm
  BY <1>1, <1>2, Means, Zenon
<1>4. x \in Pleas <=> s \in {"RENEWING", "REBINDING"}
  BY <1>1, <1>2, Means, Zenon
<1>5. (x \in Holdy => s \in Holding) /\ (x \in Busy => s \in Holding)
  <2>1. x \notin Tock
    BY <1>1, <1>2, Means, Zenon
  <2>2. x \in Holdy => x \in Pleas
    BY <1>3, Zenon DEF Holdy
  <2>3. x \in Busy => x \in Holdy
    BY <2>1, Zenon DEF Busy
  <2>4. s \in {"RENEWING", "REBINDING"} => s \in Holding
    BY DEF Holding
  <2>. QED BY <1>4, <2>2, <2>3, <2>4
<1>6. x \in Reply <=> s \in Waiting
  <2>1. x # NoAddr
    BY <1>2, Special
  <2>. QED BY <1>1, <1>2, <2>1, Means, Zenon
<1>. QED BY <1>1, <1>3, <1>4, <1>5, <1>6

\* The same for a step of one word.
LEMMA MarksWord ==
  ASSUME NEW w \in Words \ {"bind"}, NEW x, x = <<w>>
  PROVE  /\ x \in Todos /\ x \in Plain /\ x[1] = w
         /\ x \notin Unfix /\ x \notin ToHold /\ x \notin Pleas /\ x \notin Rearm /\ x \notin Reply
         /\ x \in Fix <=> w \in {"timeout", "start"}
         /\ x \in Ends <=> w \in {"timeout", "start"}
         /\ x \in LookOn <=> w = "timeout"
         /\ (x \in Starts <=> w = "start") /\ (x \in Wake <=> w = "start")
         /\ (x \in Frees <=> w = "release") /\ (x \in Leaving <=> w = "release")
         /\ x \in Extend <=> w \in {"rebind", "renew"}
         /\ x \in Again <=> w \in {"next t2", "next t1"}
         /\ x \in Holdy <=> w \in {"rebind", "renew", "next t2", "next t1"}
         /\ x \in Busy <=> w \in {"t2", "t1", "rebind", "renew", "next t2", "next t1"}
<1>1. x \in Todos /\ x \in Plain
  BY StepsIn, Kinds
<1>2. x[1] = w /\ w # "set" /\ w # "set state" /\ w # "send"
  BY Parts, Zenon DEF Words
<1>3. /\ x \notin Unfix /\ x \notin ToHold /\ x \notin Pleas /\ x \notin Rearm
      /\ x \in Fix <=> w \in {"timeout", "start"}
      /\ x \in Ends <=> w \in {"timeout", "start"}
      /\ x \in LookOn <=> w = "timeout"
      /\ (x \in Starts <=> w = "start") /\ (x \in Wake <=> w = "start")
      /\ (x \in Frees <=> w = "release") /\ (x \in Leaving <=> w = "release")
      /\ x \in Extend <=> w \in {"rebind", "renew"}
      /\ x \in Again <=> w \in {"next t2", "next t1"}
  BY <1>1, <1>2, Means, Zenon
<1>4. x \in Holdy <=> w \in {"rebind", "renew", "next t2", "next t1"}
  <2>1. x \in Holdy <=> x \in Extend \/ x \in Again
    BY <1>3, Zenon DEF Holdy
  <2>. QED BY <1>3, <2>1
<1>5. x \in Busy <=> w \in {"t2", "t1", "rebind", "renew", "next t2", "next t1"}
  <2>1. x \in Tock <=> w \in {"t2", "t1"}
    BY <1>1, <1>2, Means, Zenon
  <2>2. x \in Busy <=> x \in Holdy \/ x \in Tock
    BY Zenon DEF Busy
  <2>. QED BY <1>4, <2>1, <2>2
<1>6. x \notin Reply
  <2>1. x # NoAddr
    BY <1>2, Special
  <2>. QED BY <1>1, <1>2, <2>1, Means, Zenon
<1>. QED BY <1>1, <1>2, <1>3, <1>4, <1>5, <1>6

\* The same for the step that takes the address away.
LEMMA MarksAddr ==
  /\ NoAddr \in Todos /\ NoAddr \in Plain /\ NoAddr \in Reply
  /\ NoAddr \notin Unfix /\ NoAddr \notin Fix /\ NoAddr \notin Leaving /\ NoAddr \notin Starts
  /\ NoAddr \notin Frees /\ NoAddr \notin Wake /\ NoAddr \notin Ends /\ NoAddr \notin LookOn
  /\ NoAddr \notin ToHold /\ NoAddr \notin Pleas /\ NoAddr \notin Extend /\ NoAddr \notin Again
  /\ NoAddr \notin Rearm /\ NoAddr \notin Holdy /\ NoAddr \notin Busy
<1>. DEFINE x == NoAddr
<1>1. x \in Todos /\ x[1] = "set" /\ x[2] = "addr" /\ x \in Plain
  BY Special, Kinds
<1>. HIDE DEF x
<1>2. /\ x \notin Unfix /\ x \notin Fix /\ x \notin Leaving /\ x \notin Starts
      /\ x \notin Frees /\ x \notin Wake /\ x \notin Ends /\ x \notin LookOn
      /\ x \notin ToHold /\ x \notin Pleas /\ x \notin Extend /\ x \notin Again
      /\ x \notin Rearm
  BY <1>1, Means, Zenon
<1>3. x \notin Tock
  BY <1>1, Means, Zenon
<1>4. x \notin Holdy /\ x \notin Busy
  BY <1>2, <1>3, Zenon DEF Holdy, Busy
<1>5. x \in Reply
  BY <1>1, Zenon DEF Reply, x
<1>. QED BY <1>1, <1>2, <1>4, <1>5 DEF x

\* What a thread goes on with is followed by what it has to be.
LEMMA TameTurn ==
  ASSUME NEW q \in Seq(Todos), q # << >>, Tame(q), NEW r \in Seq(Todos),
         Only(r, Plain),
         Followed(r, Unfix, Fix) \/ Has(Tail(q), Fix),
         Followed(r, Leaving, Starts) \/ Has(Tail(q), Starts)
  PROVE  Tame(r \o Tail(q))
<1>. DEFINE u == Tail(q)
<1>1. u \in Seq(Todos) /\ Only(u, Plain) /\ Followed(u, Unfix, Fix) /\ Followed(u, Leaving, Starts)
  BY FirstStep DEF Tame
<1>. HIDE DEF u
<1>2. Only(r \o u, Plain)
  BY <1>1, HasCat
<1>3. Followed(r \o u, Unfix, Fix)
  BY <1>1, FollowedCat DEF u
<1>4. Followed(r \o u, Leaving, Starts)
  BY <1>1, FollowedCat DEF u
<1>. QED BY <1>2, <1>3, <1>4 DEF Tame, u

\* The steps of handlers, alone.
LEMMA TamePushed ==
  /\ Tame(<< >>) /\ Tame(Restart)
  /\ \A s \in States \ {"OFF"} :
       /\ Tame(Ask(s))
       /\ \A w \in {"next t2", "next t1"} : Tame(Ask(s) \o <<<<w>>>>)
  /\ Tame(NakSteps)
  /\ \A w \in Words \ {"bind", "release"} : Tame(<<<<w>>>>)
  /\ \A f \in Counter \ {"request_timeout", "t0_timeout"}, v \in Number :
       /\ Tame(<<Set(f, v)>>) /\ Tame(<<Set(f, v)>> \o Restart)
       /\ \A w \in Words \ {"bind", "release"} : Tame(<<Set(f, v), <<w>>>>)
  /\ \A v \in Number \ {0} : Tame(<<Set("request_timeout", v)>>)
  /\ Tame(<<Set("request_timeout", 0), <<"timeout">>>>)
<1>1. Tame(<< >>)
  BY Short DEF Tame
<1>2. Tame(Restart)
  <2>. DEFINE a == <<"release">>
              b == <<"start">>
  <2>1. "release" \in Words \ {"bind"} /\ "start" \in Words \ {"bind"}
    BY WordsIn
  <2>2. /\ a \in Plain /\ a \notin Unfix /\ b \in Plain /\ b \notin Unfix /\ b \in Starts /\ b \notin Leaving
    BY <2>1, MarksWord
  <2>3. Restart = <<a, b>>
    BY DEF Restart
  <2>. HIDE DEF a, b
  <2>. QED BY <2>2, <2>3, Short DEF Tame
<1>3. ASSUME NEW s \in States \ {"OFF"}
      PROVE  /\ Tame(Ask(s))
             /\ \A w \in {"next t2", "next t1"} : Tame(Ask(s) \o <<<<w>>>>)
  <2>. DEFINE a == <<"set state", s>>
              b == <<"send", s>>
              c == Set("request_timeout", Ticks)
  <2>1. a \in Plain /\ a \notin Leaving
    BY MarksState
  <2>2. b \in Plain /\ b \notin Leaving
    BY MarksSend
  <2>3. c \in Plain /\ c \notin Leaving /\ c \in Fix /\ c \notin Unfix
    <3>1. Ticks \in Number \ {0}
      BY Bounds
    <3>. QED BY <3>1, MarksSet, CountersIn
  <2>4. /\ Ask(s) \in Seq(Todos)
        /\ Only(Ask(s), Plain) /\ Followed(Ask(s), Unfix, Fix) /\ Followed(Ask(s), Leaving, Starts)
    <3>. HIDE DEF a, b, c
    <3>1. /\ Ask(s) \in Seq(Todos)
          /\ \A A : Only(Ask(s), A) <=> a \in A /\ b \in A /\ c \in A
          /\ \A A, B : a \notin A /\ b \notin A /\ c \notin A => Followed(Ask(s), A, B)
          /\ \A A, B : c \notin A /\ c \in B => Followed(Ask(s), A, B)
      BY AskSpelled, Zenon DEF a, b, c
    <3>. QED BY <2>1, <2>2, <2>3, <3>1, Zenon
  <2>5. ASSUME NEW w \in {"next t2", "next t1"} PROVE Tame(Ask(s) \o <<<<w>>>>)
    <3>. DEFINE e == <<w>>
    <3>0. w \in Words \ {"bind"} /\ w # "release"
      BY Calm
    <3>1. e \in Plain /\ e \notin Unfix /\ e \notin Leaving /\ e \in Todos
      BY <3>0, MarksWord
    <3>. HIDE DEF e
    <3>2. <<e>> \in Seq(Todos) /\ Only(<<e>>, Plain) /\ Followed(<<e>>, Unfix, Fix) /\ Followed(<<e>>, Leaving, Starts)
      BY <3>1, Short
    <3>3. Tame(Ask(s) \o <<e>>)
      BY <2>4, <3>2, HasCat, FollowedCat DEF Tame
    <3>. QED BY <3>3 DEF e
  <2>. QED BY <2>4, <2>5 DEF Tame
<1>4. Tame(NakSteps)
  <2>. DEFINE a == <<"set state", "BACKING_OFF">>
              k == Ask("SELECTING")
  <2>1. a \in Plain /\ a \notin Leaving
    BY MarksState, StatesIn
  <2>2. Tame(k) /\ Has(k, Fix)
    <3>1. "SELECTING" \in States \ {"OFF"}
      BY StatesIn
    <3>2. Set("request_timeout", Ticks) \in Fix
      <4>1. Ticks \in Number \ {0}
        BY Bounds
      <4>. QED BY <4>1, MarksSet, CountersIn
    <3>3. Has(k, Fix)
      BY <3>1, <3>2, AskSpelled
    <3>. QED BY <1>3, <3>1, <3>3
  <2>3. NoAddr \in Plain /\ NoAddr \notin Leaving
    BY MarksAddr
  <2>. HIDE DEF a, k
  <2>4. /\ \A A : Only(NakSteps, A) <=> a \in A /\ NoAddr \in A /\ Only(k, A)
        /\ \A A, B : ((a \notin A /\ NoAddr \notin A) \/ Has(k, B)) /\ Followed(k, A, B)
                     => Followed(NakSteps, A, B)
    BY NakSpelled, Zenon DEF a, k, NoAddr
  <2>. QED BY <2>1, <2>2, <2>3, <2>4, Zenon DEF Tame
<1>5. ASSUME NEW w \in Words \ {"bind", "release"} PROVE Tame(<<<<w>>>>)
  <2>. DEFINE e == <<w>>
  <2>1. e \in Plain /\ e \notin Unfix /\ e \notin Leaving
    BY MarksWord
  <2>. HIDE DEF e
  <2>2. Tame(<<e>>)
    BY <2>1, Short DEF Tame
  <2>. QED BY <2>2 DEF e
<1>6. ASSUME NEW f \in Counter \ {"request_timeout", "t0_timeout"}, NEW v \in Number
      PROVE  /\ Tame(<<Set(f, v)>>) /\ Tame(<<Set(f, v)>> \o Restart)
             /\ \A w \in Words \ {"bind", "release"} : Tame(<<Set(f, v), <<w>>>>)
  <2>. DEFINE x == Set(f, v)
  <2>1. x \in Todos /\ x \in Plain /\ x \notin Unfix /\ x \notin Leaving
    BY MarksSet
  <2>. HIDE DEF x
  <2>2. Tame(<<x>>) /\ <<x>> \in Seq(Todos)
    BY <2>1, Short DEF Tame
  <2>3. Tame(<<x>> \o Restart)
    <3>1. Restart \in Seq(Todos)
      BY PushedTypes
    <3>. QED BY <1>2, <2>2, <3>1, HasCat, FollowedCat DEF Tame
  <2>4. ASSUME NEW w \in Words \ {"bind", "release"} PROVE Tame(<<x, <<w>>>>)
    <3>. DEFINE e == <<w>>
    <3>1. e \in Plain /\ e \notin Unfix /\ e \notin Leaving
      BY MarksWord
    <3>. HIDE DEF e
    <3>2. Tame(<<x, e>>)
      BY <2>1, <3>1, Short DEF Tame
    <3>. QED BY <3>2 DEF e
  <2>. QED BY <2>2, <2>3, <2>4 DEF x
<1>7. ASSUME NEW v \in Number \ {0} PROVE Tame(<<Set("request_timeout", v)>>)
  <2>. DEFINE x == Set("request_timeout", v)
  <2>1. x \in Plain /\ x \notin Unfix /\ x \notin Leaving
    BY MarksSet, CountersIn
  <2>. HIDE DEF x
  <2>2. Tame(<<x>>)
    BY <2>1, Short DEF Tame
  <2>. QED BY <2>2 DEF x
<1>8. Tame(<<Set("request_timeout", 0), <<"timeout">>>>)
  <2>. DEFINE x == Set("request_timeout", 0)
              e == <<"timeout">>
  <2>0. 0 \in Number /\ "timeout" \in Words \ {"bind"}
    BY Bounds, WordsIn
  <2>1. x \in Plain /\ x \notin Leaving
    BY <2>0, MarksSet, CountersIn
  <2>2. e \in Plain /\ e \notin Unfix /\ e \notin Leaving /\ e \in Fix
    BY <2>0, MarksWord
  <2>. HIDE DEF x, e
  <2>3. Tame(<<x, e>>)
    BY <2>1, <2>2, Short DEF Tame
  <2>. QED BY <2>3 DEF x, e
<1>. QED BY <1>1, <1>2, <1>3, <1>4, <1>5, <1>6, <1>7, <1>8

-----------------------------------------------------------------------------
(* Somebody stays awake, and a single thread handles ticks.                *)

\* Thread t looks at fields, and goes on with r.
LEMMA LookSteady ==
  ASSUME TypeInv, Awake, NEW w \in Driver, Worker(w),
         NEW t \in Driver, todo[t] # << >>, NEW x, x = Head(todo[t]), NEW u, u = Tail(todo[t]),
         NEW r \in Seq(Todos), Instead(t, r), mem' = mem,
         Only(r, Plain),
         Followed(r, Unfix, Fix) \/ Has(u, Fix),
         Followed(r, Leaving, Starts) \/ Has(u, Starts),
         x \in Fix => Has(r, Fix) \/ mem.state \notin Waiting,
         x \in Wake => Has(r, Wake) \/ mem.state # "OFF",
         t # w => Only(r, Reply),
         t = w => /\ x \notin Starts
                  /\ Has(r, Ends) => x \in Ends
                  /\ Has(r, Busy) => x \in Busy
                  /\ mem.t0_timeout = 0 /\ Has(r, Holdy) => x \in Holdy
  PROVE  Awake' /\ Worker(w)'
<1>. DEFINE q == todo[t]
            p == r \o u
<1>1. /\ q \in Seq(Todos) /\ u \in Seq(Todos) /\ todo'[t] = p
      /\ \A o \in Driver \ {t} : todo'[o] = todo[o]
  BY Turn
<1>2. /\ \A A : Has(q, A) <=> x \in A \/ Has(u, A)
      /\ \A A : Only(q, A) <=> x \in A /\ Only(u, A)
  BY <1>1, FirstStep
<1>3. /\ \A A : Has(p, A) <=> Has(r, A) \/ Has(u, A)
      /\ \A A : Only(p, A) <=> Only(r, A) /\ Only(u, A)
  BY <1>1, HasCat
<1>4. Tame(p)
  <2>1. Tame(q)
    BY DEF Awake
  <2>. QED BY <1>1, <2>1, TameTurn
<1>. HIDE DEF p, q
<1>5. Awake'
  <2>1. \A o \in Driver : Tame(todo'[o])
    BY <1>1, <1>4, Zenon DEF Awake
  <2>2. ASSUME mem.state \in Waiting, mem.request_timeout = 0 PROVE \E o \in Driver : Has(todo'[o], Fix)
    <3>1. PICK o \in Driver : Has(todo[o], Fix)
      BY <2>2 DEF Awake
    <3>2. CASE o = t
      <4>1. Has(p, Fix)
        BY <1>2, <1>3, <2>2, <3>1, <3>2, Zenon DEF q
      <4>. QED BY <1>1, <4>1
    <3>. QED BY <1>1, <3>1, <3>2, Zenon
  <2>3. ASSUME mem.state = "OFF" PROVE \E o \in Driver : Has(todo'[o], Wake)
    <3>1. PICK o \in Driver : Has(todo[o], Wake)
      BY <2>3 DEF Awake
    <3>2. CASE o = t
      <4>1. Has(p, Wake)
        BY <1>2, <1>3, <2>3, <3>1, <3>2, Zenon DEF q
      <4>. QED BY <1>1, <4>1
    <3>. QED BY <1>1, <3>1, <3>2, Zenon
  <2>. QED BY <2>1, <2>2, <2>3, Zenon DEF Awake
<1>6. \A o \in Driver \ {w} : Only(todo'[o], Reply)
  <2>1. t # w => Only(p, Reply)
    <3>1. t # w => Only(q, Reply)
      BY Zenon DEF Worker, q
    <3>. QED BY <1>2, <1>3, <3>1, Zenon
  <2>. QED BY <1>1, <2>1, Zenon DEF Worker
<1>7. Has(todo'[w], Ends) => ~Has(todo'[w], Busy)
  <2>1. CASE t = w
    <3>1. Has(q, Ends) => ~Has(q, Busy)
      BY <2>1, Zenon DEF Worker, q
    <3>2. Has(p, Ends) => ~Has(p, Busy)
      BY <1>2, <1>3, <2>1, <3>1, Zenon
    <3>. QED BY <1>1, <2>1, <3>2
  <2>2. CASE t # w
    BY <1>1, <2>2, Zenon DEF Worker
  <2>. QED BY <2>1, <2>2
<1>8. ASSUME mem.t0_timeout = 0
      PROVE  /\ ~Has(todo'[w], Holdy)
             /\ \/ Has(todo'[w], Starts)
                \/ mem.t1_renew_time = 0 /\ mem.t2_rebind_time = 0 /\ mem.state \notin Holding
  <2>1. CASE t = w
    <3>1. /\ ~Has(q, Holdy)
          /\ \/ Has(q, Starts)
             \/ mem.t1_renew_time = 0 /\ mem.t2_rebind_time = 0 /\ mem.state \notin Holding
      BY <1>8, <2>1, Zenon DEF Worker, q
    <3>2. ~Has(p, Holdy)
      BY <1>2, <1>3, <1>8, <2>1, <3>1, Zenon
    <3>3. Has(q, Starts) => Has(p, Starts)
      BY <1>2, <1>3, <2>1, Zenon
    <3>. QED BY <1>1, <2>1, <3>1, <3>2, <3>3, Zenon
  <2>2. CASE t # w
    BY <1>1, <1>8, <2>2, Zenon DEF Worker
  <2>. QED BY <2>1, <2>2
<1>. QED BY <1>5, <1>6, <1>7, <1>8, Zenon DEF Worker

\* What is followed in r is not followed by the steps after it.
LEMMA TameOf ==
  ASSUME NEW r, Tame(r)
  PROVE  Only(r, Plain) /\ Followed(r, Unfix, Fix) /\ Followed(r, Leaving, Starts)
BY DEF Tame

\* The thread that handles no tick has replies to give only.
LEMMA ReplyHead ==
  ASSUME TypeInv, NEW w \in Driver, Worker(w), NEW t \in Driver, todo[t] # << >>
  PROVE  /\ t # w => Head(todo[t]) \in Reply
         /\ Head(todo[t]) \notin Reply => t = w
<1>1. todo[t] \in Seq(Todos)
  BY DEF TypeInv
<1>2. Only(todo[t], Reply) => Head(todo[t]) \in Reply
  BY <1>1, FirstStep
<1>. QED BY <1>2, Zenon DEF Worker

\* A step of one word, at the head.
LEMMA WordHead ==
  ASSUME TypeInv, Awake, NEW w \in Driver, Worker(w), NEW t \in Driver,
         NEW c \in Words \ {"bind"}, At(t, c)
  PROVE  t = w /\ todo[t] # << >> /\ todo[t] \in Seq(Todos) /\ Head(todo[t]) = <<c>>
<1>1. todo[t] # << >> /\ todo[t] \in Seq(Todos) /\ Head(todo[t]) \in Todos /\ Head(todo[t])[1] = c
  BY AtStep
<1>2. c \notin {"set", "set state", "send"}
  BY Zenon DEF Words
<1>3. Head(todo[t]) = <<c>>
  BY <1>1, <1>2, Storable
<1>4. <<c>> \notin Reply
  BY MarksWord
<1>5. Head(todo[t]) \notin Reply
  BY <1>3, <1>4
<1>. QED BY <1>1, <1>3, <1>5, ReplyHead

-----------------------------------------------------------------------------
\* A request is sent.
LEMMA SteadySend ==
  ASSUME TypeInv, Awake, NEW w \in Driver, Worker(w), NEW t \in Driver, Send(t)
  PROVE  Awake' /\ Worker(w)'
<1>. DEFINE x == Head(todo[t])
            u == Tail(todo[t])
            r == << >>
<1>1. At(t, "send") /\ Instead(t, << >>) /\ mem' = mem
  BY DEF Send
<1>2. todo[t] # << >> /\ x \in Todos /\ x[1] = "send"
  BY <1>1, AtStep
<1>3. x[2] \in States /\ x = <<"send", x[2]>>
  BY <1>2, Storable
<1>. HIDE DEF x, u
<1>4. x \notin Fix /\ x \notin Wake /\ x \notin Starts
  <2>. DEFINE s == x[2]
  <2>1. s \in States /\ x = <<"send", s>>
    BY <1>3
  <2>. HIDE DEF s
  <2>. QED BY <2>1, MarksSend
<1>5. r \in Seq(Todos) /\ Tame(r) /\ Only(r, Reply) /\ \A A : ~Has(r, A)
  BY Short, TamePushed
<1>6. Only(r, Plain) /\ Followed(r, Unfix, Fix) /\ Followed(r, Leaving, Starts)
  BY <1>5, TameOf
<1>7. Instead(t, r)
  BY <1>1
<1>. HIDE DEF r
<1>. QED BY <1>1, <1>2, <1>4, <1>5, <1>6, <1>7, LookSteady DEF x, u

\* dhcp_set_state clears request_timeout, which the thread then sets.
LEMMA SteadyCompare ==
  ASSUME TypeInv, Awake, NEW w \in Driver, Worker(w), NEW t \in Driver, Compare(t)
  PROVE  Awake' /\ Worker(w)'
<1>. DEFINE x == Head(todo[t])
            u == Tail(todo[t])
            s == Head(todo[t])[2]
            a == Set("state", s)
            b == Set("request_timeout", 0)
<1>1. /\ At(t, "set state") /\ mem' = mem
      /\ Instead(t, IF mem.state = s THEN << >> ELSE <<a, b>>)
  BY DEF Compare
<1>2. todo[t] # << >> /\ todo[t] \in Seq(Todos) /\ x \in Todos /\ x[1] = "set state"
  BY <1>1, AtStep
<1>3. s \in States /\ x = <<"set state", s>>
  BY <1>2, Storable
<1>4. t # w => x \in Reply
  BY <1>2, ReplyHead
<1>5. Tame(todo[t])
  BY DEF Awake
<1>6. /\ x \in Unfix => Has(u, Fix)
      /\ x \in Leaving => Has(u, Starts)
  BY <1>2, <1>5, FirstStep DEF Tame
<1>. HIDE DEF x, u, s
<1>7. /\ x \notin Fix /\ x \notin Starts /\ x \in Unfix
      /\ x \in Leaving <=> s = "OFF"
      /\ x \in Wake <=> s = "SELECTING"
      /\ (x \in Holdy <=> s \in Holding) /\ (x \in Busy <=> s \in Holding)
      /\ x \in Reply <=> s \in Waiting
  BY <1>3, MarksState
<1>8. CASE mem.state = s
  <2>. DEFINE r == << >>
  <2>1. r \in Seq(Todos) /\ Tame(r) /\ Only(r, Reply) /\ \A A : ~Has(r, A)
    BY Short, TamePushed
  <2>2. Only(r, Plain) /\ Followed(r, Unfix, Fix) /\ Followed(r, Leaving, Starts)
    BY <2>1, TameOf
  <2>3. Instead(t, r)
    BY <1>1, <1>8
  <2>. HIDE DEF r
  <2>4. x \in Wake => mem.state # "OFF"
    BY <1>7, <1>8
  <2>. QED BY <1>1, <1>2, <1>7, <2>1, <2>2, <2>3, <2>4, LookSteady DEF x, u
<1>9. CASE mem.state # s
  <2>. DEFINE r == <<a, b>>
  <2>0. Instead(t, r)
    BY <1>1, <1>9
  <2>1. /\ a \in Todos /\ a \in Plain /\ a \notin Ends
        /\ a \in Leaving <=> s = "OFF"
        /\ a \in Wake <=> s = "SELECTING"
        /\ (a \in Holdy <=> s \in Holding) /\ (a \in Busy <=> s \in Holding)
        /\ a \in Reply <=> s \in Waiting
    BY <1>3, MarksState
  <2>2. /\ b \in Todos /\ b \in Plain /\ b \notin Leaving /\ b \notin Ends
        /\ b \notin Holdy /\ b \notin Busy /\ b \in Reply
    <3>1. 0 \in Number /\ "request_timeout" \in Counter
      BY Bounds, CountersIn
    <3>. QED BY <3>1, MarksSet
  <2>. HIDE DEF a, b
  <2>3. /\ r \in Seq(Todos)
        /\ \A A : (Has(r, A) <=> a \in A \/ b \in A) /\ (Only(r, A) <=> a \in A /\ b \in A)
        /\ \A A, B : Followed(r, A, B) <=> (a \notin A \/ b \in B) /\ b \notin A
    BY <2>1, <2>2, Short
  <2>. HIDE DEF r
  <2>4. Only(r, Plain) /\ (t # w => Only(r, Reply))
    BY <1>4, <1>7, <2>1, <2>2, <2>3, Zenon
  <2>5. Followed(r, Unfix, Fix) \/ Has(u, Fix)
    BY <1>6, <1>7
  <2>6. Followed(r, Leaving, Starts) \/ Has(u, Starts)
    BY <1>6, <1>7, <2>1, <2>2, <2>3, Zenon
  <2>7. x \in Wake => Has(r, Wake)
    BY <1>7, <2>1, <2>3, Zenon
  <2>8. ~Has(r, Ends) /\ (Has(r, Busy) => x \in Busy) /\ (Has(r, Holdy) => x \in Holdy)
    BY <1>7, <2>1, <2>2, <2>3, Zenon
  <2>. QED BY <1>1, <1>2, <1>7, <2>0, <2>3, <2>4, <2>5, <2>6, <2>7, <2>8, LookSteady DEF x, u
<1>. QED BY <1>8, <1>9

\* A request to the server, with and without a later step.
LEMMA AskMarks ==
  ASSUME NEW s \in States
  PROVE  /\ Has(Ask(s), Fix) /\ ~Has(Ask(s), Ends) /\ ~Has(Ask(s), Frees)
         /\ (Has(Ask(s), Busy) => s \in Holding) /\ (Has(Ask(s), Holdy) => s \in Holding)
         /\ s \in Waiting => Only(Ask(s), Reply)
         /\ s = "SELECTING" => Has(Ask(s), Wake)
         /\ s \in {"RENEWING", "REBINDING"} => Has(Ask(s), Pleas)
         /\ s \notin Holding => ~Has(Ask(s), ToHold)
         /\ \A c \in {"next t2", "next t1"} : /\ ~Has(Ask(s) \o <<<<c>>>>, Ends) /\ ~Has(Ask(s) \o <<<<c>>>>, Frees)
                                              /\ s \in {"RENEWING", "REBINDING"} => Has(Ask(s) \o <<<<c>>>>, Pleas)
<1>. DEFINE a == <<"set state", s>>
            b == <<"send", s>>
            d == Set("request_timeout", Ticks)
<1>1. /\ a \notin Ends /\ a \notin Frees /\ (a \in Busy <=> s \in Holding) /\ (a \in Holdy <=> s \in Holding)
      /\ (a \in Reply <=> s \in Waiting) /\ (a \in Wake <=> s = "SELECTING") /\ (a \in ToHold <=> s \in Holding)
  BY MarksState
<1>2. /\ b \notin Ends /\ b \notin Frees /\ (b \in Busy => s \in Holding) /\ (b \in Holdy => s \in Holding)
      /\ (b \in Reply <=> s \in Waiting) /\ (b \in Pleas <=> s \in {"RENEWING", "REBINDING"}) /\ b \notin ToHold
  BY MarksSend
<1>3. d \in Fix /\ d \notin Ends /\ d \notin Frees /\ d \notin Busy /\ d \notin Holdy /\ d \in Reply /\ d \notin ToHold
  <2>1. Ticks \in Number \ {0} /\ "request_timeout" \in Counter
    BY Bounds, CountersIn
  <2>. QED BY <2>1, MarksSet
<1>4. /\ Ask(s) \in Seq(Todos)
      /\ \A A : Has(Ask(s), A) <=> a \in A \/ b \in A \/ d \in A
      /\ \A A : Only(Ask(s), A) <=> a \in A /\ b \in A /\ d \in A
  BY AskSpelled, Zenon
<1>. HIDE DEF a, b, d
<1>5. /\ Has(Ask(s), Fix) /\ ~Has(Ask(s), Ends) /\ ~Has(Ask(s), Frees)
      /\ (Has(Ask(s), Busy) => s \in Holding) /\ (Has(Ask(s), Holdy) => s \in Holding)
      /\ s \in Waiting => Only(Ask(s), Reply)
      /\ s = "SELECTING" => Has(Ask(s), Wake)
      /\ s \in {"RENEWING", "REBINDING"} => Has(Ask(s), Pleas)
      /\ s \notin Holding => ~Has(Ask(s), ToHold)
  BY <1>1, <1>2, <1>3, <1>4, Zenon
<1>6. ASSUME NEW c \in {"next t2", "next t1"}
      PROVE  /\ ~Has(Ask(s) \o <<<<c>>>>, Ends) /\ ~Has(Ask(s) \o <<<<c>>>>, Frees)
             /\ s \in {"RENEWING", "REBINDING"} => Has(Ask(s) \o <<<<c>>>>, Pleas)
  <2>. DEFINE e == <<c>>
  <2>1. c \in Words \ {"bind"} /\ c \notin {"timeout", "start", "release"}
    BY Calm
  <2>2. e \in Todos /\ e \notin Ends /\ e \notin Frees
    BY <2>1, MarksWord
  <2>. HIDE DEF e
  <2>3. <<e>> \in Seq(Todos) /\ ~Has(<<e>>, Ends) /\ ~Has(<<e>>, Frees)
    BY <2>2, Short
  <2>4. /\ ~Has(Ask(s) \o <<e>>, Ends) /\ ~Has(Ask(s) \o <<e>>, Frees)
        /\ s \in {"RENEWING", "REBINDING"} => Has(Ask(s) \o <<e>>, Pleas)
    BY <1>4, <1>5, <2>3, HasCat
  <2>. QED BY <2>4 DEF e
<1>. QED BY <1>5, <1>6

\* What the steps that follow an offer do not do.
LEMMA OfferMarks ==
  /\ OfferSteps \in Seq(Todos) /\ Tame(OfferSteps) /\ Only(OfferSteps, Reply)
  /\ ~Has(OfferSteps, Ends) /\ ~Has(OfferSteps, Holdy)
<1>. DEFINE a == Set("request_timeout", 0)
            k == Ask("REQUESTING")
<1>1. "REQUESTING" \in States \ {"OFF"} /\ "REQUESTING" \in Waiting /\ "REQUESTING" \notin Holding
  BY StatesIn, Zenon DEF Waiting, Holding
<1>2. /\ a \in Plain /\ a \notin Leaving /\ a \in Reply /\ a \notin Ends /\ a \notin Holdy
  <2>1. 0 \in Number /\ "request_timeout" \in Counter
    BY Bounds, CountersIn
  <2>. QED BY <2>1, MarksSet
<1>3. Tame(k) /\ Has(k, Fix) /\ Only(k, Reply) /\ ~Has(k, Ends) /\ ~Has(k, Holdy)
  BY <1>1, AskMarks, TamePushed
<1>4. /\ OfferSteps \in Seq(Todos)
      /\ \A A : Has(OfferSteps, A) <=> a \in A \/ Has(k, A)
      /\ \A A : Only(OfferSteps, A) <=> a \in A /\ Only(k, A)
      /\ \A A, B : (a \notin A \/ Has(k, B)) /\ Followed(k, A, B) => Followed(OfferSteps, A, B)
  BY OfferSpelled, Zenon
<1>. HIDE DEF a, k
<1>. QED BY <1>2, <1>3, <1>4, Zenon DEF Tame

\* The steps of a restart.
LEMMA RestartMarks ==
  /\ Restart \in Seq(Todos) /\ Has(Restart, Fix) /\ ~Has(Restart, Busy) /\ ~Has(Restart, Holdy)
  /\ ~Has(Restart, ToHold) /\ Has(Restart, Ends)
<1>. DEFINE a == <<"release">>
            b == <<"start">>
<1>1. "release" \in Words \ {"bind"} /\ "start" \in Words \ {"bind"}
  BY WordsIn
<1>2. a \notin Busy /\ a \notin Holdy /\ a \notin ToHold
  <2>1. "release" \in Words \ {"bind"}
    BY <1>1
  <2>. QED BY <2>1, MarksWord, Zenon
<1>3. b \notin Busy /\ b \notin Holdy /\ b \notin ToHold /\ b \in Fix /\ b \in Ends
  <2>1. "start" \in Words \ {"bind"}
    BY <1>1
  <2>. QED BY <2>1, MarksWord, Zenon
<1>4. Restart = <<a, b>>
  BY DEF Restart
<1>. HIDE DEF a, b
<1>5. \A A : Has(Restart, A) <=> a \in A \/ b \in A
  BY <1>4, Short
<1>. QED BY <1>2, <1>3, <1>5, PushedTypes, Zenon

\* The steps of dhcp_release_and_stop.
LEMMA ReleaseMarks ==
  /\ ReleaseSteps \in Seq(Todos) /\ Only(ReleaseSteps, Plain)
  /\ ~Has(ReleaseSteps, Ends) /\ ~Has(ReleaseSteps, Busy) /\ ~Has(ReleaseSteps, Holdy)
  /\ ~Has(ReleaseSteps, ToHold) /\ ~Has(ReleaseSteps, Frees)
<1>. DEFINE a == Set("offered_t0_lease", 0)
            b == Set("t0_timeout", 0)
            c == Set("lease_used", 0)
            d == Set("t2_rebind_time", 0)
            e == Set("t1_renew_time", 0)
            Silent == {x \in Todos : x \notin Ends /\ x \notin Busy /\ x \notin Holdy /\ x \notin ToHold /\ x \notin Frees}
<1>1. ASSUME NEW f \in Counter PROVE Set(f, 0) \in Silent
  <2>1. 0 \in Number
    BY Bounds
  <2>. DEFINE x == Set(f, 0)
  <2>2. /\ x \in Todos /\ x \notin Ends /\ x \notin ToHold /\ x \notin Frees
        /\ x \notin Holdy /\ x \notin Busy
    BY <2>1, MarksSet
  <2>. QED BY <2>2
<1>2. a \in Silent /\ b \in Silent /\ c \in Silent /\ d \in Silent /\ e \in Silent
  BY <1>1, CountersIn
<1>3. NoAddr \in Silent
  BY MarksAddr
<1>4. LookOff \in Silent
  <2>1. "OFF" \in States /\ "OFF" \notin Holding
    BY StatesIn
  <2>. DEFINE x == <<"set state", "OFF">>
  <2>2. x \in Todos /\ x \notin Ends /\ x \notin Frees /\ x \notin ToHold /\ x \notin Holdy /\ x \notin Busy
    BY <2>1, MarksState
  <2>. QED BY <2>2 DEF LookOff
<1>5. ReleaseSteps = <<a, b, c, d, e, NoAddr>> \o <<LookOff>>
  BY DEF ReleaseSteps, SetState, LookOff, NoAddr
<1>. HIDE DEF a, b, c, d, e
<1>6. a \in Todos /\ b \in Todos /\ c \in Todos /\ d \in Todos /\ e \in Todos /\ NoAddr \in Todos /\ LookOff \in Todos
  BY <1>2, <1>3, <1>4
<1>. HIDE DEF Silent
<1>7. Only(ReleaseSteps, Silent)
  BY <1>2, <1>3, <1>4, <1>5, <1>6, SixSpelled, Zenon
<1>8. \A A : Silent \intersect A = {} => ~Has(ReleaseSteps, A)
  BY <1>7, OnlyIn
<1>9. /\ Silent \intersect Ends = {} /\ Silent \intersect Busy = {} /\ Silent \intersect Holdy = {}
      /\ Silent \intersect ToHold = {} /\ Silent \intersect Frees = {}
  BY DEF Silent
<1>. QED BY <1>8, <1>9, PushedTypes, PushedKinds

\* A step of one word.
LEMMA WordSteady ==
  ASSUME TypeInv, Awake, NEW w \in Driver, Worker(w), NEW t \in Driver,
         NEW c \in Words \ {"bind", "start", "release"}, At(t, c),
         NEW r \in Seq(Todos), Tame(r), Instead(t, r), mem' = mem,
         c = "timeout" => Has(r, Fix) \/ mem.state \notin Waiting,
         Has(r, Ends) => c = "timeout",
         Has(r, Busy) => c \in {"t2", "t1", "rebind", "renew", "next t2", "next t1"},
         mem.t0_timeout = 0 /\ Has(r, Holdy) => c \in {"rebind", "renew", "next t2", "next t1"}
  PROVE  Awake' /\ Worker(w)'
<1>. DEFINE x == Head(todo[t])
            u == Tail(todo[t])
<1>0. c \in Words \ {"bind"}
  OBVIOUS
<1>1. t = w /\ todo[t] # << >> /\ x = <<c>>
  BY <1>0, WordHead
<1>. HIDE DEF x, u
<1>2. /\ x \in Fix <=> c \in {"timeout", "start"}
      /\ x \in Ends <=> c \in {"timeout", "start"}
      /\ (x \in Starts <=> c = "start") /\ (x \in Wake <=> c = "start")
      /\ x \in Holdy <=> c \in {"rebind", "renew", "next t2", "next t1"}
      /\ x \in Busy <=> c \in {"t2", "t1", "rebind", "renew", "next t2", "next t1"}
  BY <1>0, <1>1, MarksWord
<1>3. Only(r, Plain) /\ Followed(r, Unfix, Fix) /\ Followed(r, Leaving, Starts)
  BY TameOf
<1>4. x \notin Wake /\ x \notin Starts /\ (x \in Fix => c = "timeout") /\ (c = "timeout" => x \in Ends)
  BY <1>2
<1>. QED BY <1>1, <1>2, <1>3, <1>4, LookSteady DEF x, u

\* dhcp_release_and_stop, after which the client is started.
LEMMA SteadyRelease ==
  ASSUME TypeInv, Awake, NEW w \in Driver, Worker(w), NEW t \in Driver, ReleaseAndStop(t)
  PROVE  Awake' /\ Worker(w)'
<1>. DEFINE x == Head(todo[t])
            u == Tail(todo[t])
<1>1. /\ At(t, "release") /\ mem' = mem
      /\ Instead(t, IF mem.state = "OFF" THEN << >> ELSE ReleaseSteps)
  BY DEF ReleaseAndStop, ReleaseSteps
<1>2. PICK r \in {<< >>, ReleaseSteps} : Instead(t, r)
  BY <1>1
<1>3. "release" \in Words \ {"bind"}
  BY WordsIn
<1>4. t = w /\ todo[t] # << >> /\ todo[t] \in Seq(Todos) /\ x = <<"release">>
  BY <1>1, <1>3, WordHead
<1>5. Tame(todo[t])
  BY DEF Awake
<1>6. x \in Leaving => Has(u, Starts)
  BY <1>4, <1>5, FirstStep DEF Tame
<1>. HIDE DEF x, u
<1>7. x \notin Fix /\ x \notin Wake /\ x \notin Starts /\ x \in Leaving
  BY <1>3, <1>4, MarksWord
<1>8. Has(u, Starts) /\ Has(u, Fix)
  <2>1. Starts \subseteq Fix
    BY Zenon DEF Starts, Fix
  <2>. QED BY <1>6, <1>7, <2>1, OnlyIn
<1>9. r \in Seq(Todos) /\ Only(r, Plain) /\ ~Has(r, Ends) /\ ~Has(r, Busy) /\ ~Has(r, Holdy)
  <2>1. CASE r = << >>
    BY <2>1, Short, Zenon
  <2>2. CASE r = ReleaseSteps
    BY <2>2, ReleaseMarks
  <2>. QED BY <2>1, <2>2
<1>. QED BY <1>1, <1>2, <1>4, <1>7, <1>8, <1>9, LookSteady DEF x, u

\* dhcp_timeout asks again, or restarts the client.
LEMMA SteadyTimeout ==
  ASSUME TypeInv, Awake, NEW w \in Driver, Worker(w), NEW t \in Driver, Timeout(t)
  PROVE  Awake' /\ Worker(w)'
<1>1. At(t, "timeout") /\ mem' = mem
  BY DEF Timeout
<1>2. "timeout" \in Words \ {"bind", "start", "release"}
  BY Calm
<1>3. \/ Instead(t, Ask("SELECTING")) \/ Instead(t, Ask("REQUESTING")) \/ Instead(t, Restart)
      \/ mem.state \notin Waiting /\ Instead(t, << >>)
  BY DEF Timeout
<1>4. ASSUME NEW r \in {Ask("SELECTING"), Ask("REQUESTING"), Restart}
      PROVE  r \in Seq(Todos) /\ Tame(r) /\ Has(r, Fix) /\ ~Has(r, Busy) /\ ~Has(r, Holdy)
  <2>1. CASE r = Restart
    BY <2>1, RestartMarks, TamePushed
  <2>2. CASE r # Restart
    <3>1. PICK s \in {"SELECTING", "REQUESTING"} : r = Ask(s)
      BY <2>2
    <3>2. s \in States \ {"OFF"} /\ s \notin Holding
      BY Calm, Zenon DEF Holding
    <3>. QED BY <3>1, <3>2, AskMarks, TamePushed, PushedTypes
  <2>. QED BY <2>1, <2>2
<1>5. CASE mem.state \notin Waiting /\ Instead(t, << >>)
  <2>. DEFINE r == << >>
  <2>1. r \in Seq(Todos) /\ Tame(r) /\ \A A : ~Has(r, A)
    BY Short, TamePushed
  <2>2. Instead(t, r)
    BY <1>5
  <2>. HIDE DEF r
  <2>. QED BY <1>1, <1>2, <1>5, <2>1, <2>2, WordSteady
<1>6. CASE \E r \in {Ask("SELECTING"), Ask("REQUESTING"), Restart} : Instead(t, r)
  <2>1. PICK r \in {Ask("SELECTING"), Ask("REQUESTING"), Restart} : Instead(t, r)
    BY <1>6
  <2>2. r \in Seq(Todos) /\ Tame(r) /\ Has(r, Fix) /\ ~Has(r, Busy) /\ ~Has(r, Holdy)
    BY <1>4
  <2>. QED BY <1>1, <1>2, <2>1, <2>2, WordSteady
<1>. QED BY <1>3, <1>5, <1>6, Zenon

\* What is stored, and one step of one word.
LEMMA StoreMarks ==
  ASSUME NEW f \in Counter \ {"request_timeout", "t0_timeout"}, NEW v \in Number
  PROVE  /\ <<Set(f, v)>> \in Seq(Todos) /\ Tame(<<Set(f, v)>>)
         /\ ~Has(<<Set(f, v)>>, Ends) /\ ~Has(<<Set(f, v)>>, ToHold) /\ ~Has(<<Set(f, v)>>, Frees)
         /\ v = 0 \/ f = "lease_used" => ~Has(<<Set(f, v)>>, Holdy) /\ ~Has(<<Set(f, v)>>, Busy)
         /\ \A c \in Words \ {"bind", "release"} :
              /\ <<Set(f, v), <<c>>>> \in Seq(Todos) /\ Tame(<<Set(f, v), <<c>>>>)
              /\ c # "timeout" /\ c # "start" => ~Has(<<Set(f, v), <<c>>>>, Ends)
              /\ ~Has(<<Set(f, v), <<c>>>>, Frees) /\ ~Has(<<Set(f, v), <<c>>>>, ToHold)
              /\ Has(<<Set(f, v), <<c>>>>, Extend) <=> c \in {"rebind", "renew"}
<1>. DEFINE x == Set(f, v)
<1>1. /\ x \in Todos /\ x \notin Ends /\ x \notin Frees /\ x \notin ToHold /\ x \notin Extend
      /\ v = 0 \/ f = "lease_used" => x \notin Holdy /\ x \notin Busy
  <2>1. /\ x \in Todos /\ x \notin Ends /\ x \notin Frees /\ x \notin ToHold /\ x \notin Extend
        /\ x \in Rearm <=> f \in {"t1_renew_time", "t2_rebind_time"} /\ v # 0
        /\ (x \in Holdy <=> x \in Rearm) /\ (x \in Busy <=> x \in Rearm)
    BY MarksSet
  <2>. QED BY <2>1, Zenon
<1>2. /\ Tame(<<x>>)
      /\ \A c \in Words \ {"bind", "release"} : Tame(<<x, <<c>>>>)
  BY TamePushed
<1>. HIDE DEF x
<1>3. /\ <<x>> \in Seq(Todos)
      /\ ~Has(<<x>>, Ends) /\ ~Has(<<x>>, ToHold) /\ ~Has(<<x>>, Frees)
      /\ v = 0 \/ f = "lease_used" => ~Has(<<x>>, Holdy) /\ ~Has(<<x>>, Busy)
  BY <1>1, Short
<1>4. ASSUME NEW c \in Words \ {"bind", "release"}
      PROVE  /\ <<x, <<c>>>> \in Seq(Todos)
             /\ c # "timeout" /\ c # "start" => ~Has(<<x, <<c>>>>, Ends)
             /\ ~Has(<<x, <<c>>>>, Frees) /\ ~Has(<<x, <<c>>>>, ToHold)
             /\ Has(<<x, <<c>>>>, Extend) <=> c \in {"rebind", "renew"}
  <2>. DEFINE e == <<c>>
  <2>1. /\ e \in Todos /\ (e \in Ends <=> c \in {"timeout", "start"}) /\ e \notin ToHold
        /\ (e \in Frees <=> c = "release") /\ (e \in Extend <=> c \in {"rebind", "renew"})
    BY MarksWord
  <2>2. e \notin Frees /\ (c # "timeout" /\ c # "start" => e \notin Ends)
    BY <2>1
  <2>. HIDE DEF e
  <2>3. /\ <<x, e>> \in Seq(Todos)
        /\ \A A : Has(<<x, e>>, A) <=> x \in A \/ e \in A
    BY <1>1, <2>1, Short
  <2>4. /\ c # "timeout" /\ c # "start" => ~Has(<<x, e>>, Ends)
        /\ ~Has(<<x, e>>, Frees) /\ ~Has(<<x, e>>, ToHold)
        /\ Has(<<x, e>>, Extend) <=> c \in {"rebind", "renew"}
    BY <1>1, <2>1, <2>2, <2>3, Zenon
  <2>. QED BY <2>3, <2>4 DEF e
<1>. QED BY <1>2, <1>3, <1>4 DEF x

\* A single step of one word.
LEMMA OneMarks ==
  ASSUME NEW c \in Words \ {"bind", "release", "start", "timeout"}
  PROVE  /\ <<<<c>>>> \in Seq(Todos) /\ Tame(<<<<c>>>>) /\ ~Has(<<<<c>>>>, Ends) /\ ~Has(<<<<c>>>>, Frees)
         /\ ~Has(<<<<c>>>>, ToHold)
         /\ c \in {"t2", "t1"} => ~Has(<<<<c>>>>, Holdy)
<1>. DEFINE e == <<c>>
<1>1. /\ e \in Todos /\ e \notin Ends /\ e \notin ToHold /\ e \notin Frees
      /\ e \in Holdy <=> c \in {"rebind", "renew", "next t2", "next t1"}
  <2>1. /\ e \in Todos /\ (e \in Ends <=> c \in {"timeout", "start"}) /\ e \notin ToHold
        /\ (e \in Frees <=> c = "release")
        /\ e \in Holdy <=> c \in {"rebind", "renew", "next t2", "next t1"}
    BY MarksWord
  <2>. QED BY <2>1
<1>2. c \in {"t2", "t1"} => e \notin Holdy
  BY <1>1
<1>3. Tame(<<e>>)
  BY TamePushed
<1>. HIDE DEF e
<1>4. /\ <<e>> \in Seq(Todos)
      /\ \A A : Has(<<e>>, A) <=> e \in A
  BY <1>1, Short
<1>5. /\ ~Has(<<e>>, Ends) /\ ~Has(<<e>>, ToHold) /\ ~Has(<<e>>, Frees)
      /\ c \in {"t2", "t1"} => ~Has(<<e>>, Holdy)
  BY <1>1, <1>2, <1>4
<1>. QED BY <1>3, <1>4, <1>5 DEF e

\* Without a lease the counters that end in a request do not run while a
\* thread looks at them.
LEMMA NoLease ==
  ASSUME TypeInv, Awake, NEW w \in Driver, Worker(w), NEW t \in Driver,
         NEW c \in {"t2", "t1", "rebind", "renew", "next t2", "next t1"}, At(t, c),
         mem.t0_timeout = 0
  PROVE  c \in {"t2", "t1"} /\ mem.t1_renew_time = 0 /\ mem.t2_rebind_time = 0 /\ mem.state \notin Holding
<1>. DEFINE x == Head(todo[t])
<1>1. c \in Words \ {"bind"}
  BY Calm
<1>2. t = w /\ todo[t] # << >> /\ todo[t] \in Seq(Todos) /\ x = <<c>>
  BY <1>1, WordHead
<1>. HIDE DEF x
<1>3. /\ x \in Busy
      /\ x \in Holdy <=> c \in {"rebind", "renew", "next t2", "next t1"}
  <2>1. /\ x \in Busy <=> c \in {"t2", "t1", "rebind", "renew", "next t2", "next t1"}
        /\ x \in Holdy <=> c \in {"rebind", "renew", "next t2", "next t1"}
    BY <1>1, <1>2, MarksWord
  <2>. QED BY <2>1
<1>4. Has(todo[w], Busy) /\ (x \in Holdy => Has(todo[w], Holdy))
  BY <1>2, <1>3, FirstStep DEF x
<1>5. ~Has(todo[w], Ends)
  BY <1>4 DEF Worker
<1>6. ~Has(todo[w], Starts)
  <2>1. Starts \subseteq Ends
    BY Zenon DEF Starts, Ends
  <2>. QED BY <1>5, <2>1, OnlyIn
<1>7. /\ ~Has(todo[w], Holdy)
      /\ mem.t1_renew_time = 0 /\ mem.t2_rebind_time = 0 /\ mem.state \notin Holding
  BY <1>6 DEF Worker
<1>. QED BY <1>3, <1>4, <1>7

\* dhcp_coarse_tmr counts T2 and T1 down.
LEMMA SteadyTicks ==
  ASSUME TypeInv, Awake, NEW w \in Driver, Worker(w), NEW t \in Driver, TickT2(t) \/ TickT1(t)
  PROVE  Awake' /\ Worker(w)'
<1>0. /\ "t2_rebind_time" \in Counter \ {"request_timeout", "t0_timeout"}
      /\ "t1_renew_time" \in Counter \ {"request_timeout", "t0_timeout"}
      /\ 0 \in Number /\ "t2" \in Words \ {"bind", "start", "release"} /\ "t1" \in Words \ {"bind", "start", "release"}
      /\ "t1" \in Words \ {"bind", "release", "start", "timeout"}
      /\ \A c \in {"t1", "rebind", "renew"} : c \in Words \ {"bind", "release"} /\ c # "timeout" /\ c # "start"
  BY CountersIn, Bounds, Calm, Zenon
<1>1. mem' = mem
  BY DEF TickT2, TickT1
<1>2. CASE TickT2(t)
  <2>. DEFINE n == mem.t2_rebind_time - 1
  <2>1. At(t, "t2")
    BY <1>2 DEF TickT2
  <2>2. mem.t0_timeout = 0 => mem.t2_rebind_time = 0
    BY <2>1, NoLease
  <2>3. \/ mem.t2_rebind_time = 0 /\ Instead(t, <<<<"t1">>>>)
        \/ mem.t2_rebind_time = 1 /\ Instead(t, <<Set("t2_rebind_time", 0), <<"rebind">>>>)
        \/ n \in Number \ {0} /\ Instead(t, <<Set("t2_rebind_time", n), <<"t1">>>>)
    BY <1>2, TickT2Moves
  <2>4. mem.t2_rebind_time = 0 => n \notin Number \ {0}
    <3>1. 0 - 1 \notin Number
      BY SMT DEF Number
    <3>. QED BY <3>1
  <2>. HIDE DEF n
  <2>5. PICK r \in Seq(Todos) : /\ Tame(r) /\ Instead(t, r) /\ ~Has(r, Ends)
                                /\ mem.t0_timeout = 0 => ~Has(r, Holdy)
    <3>1. CASE mem.t2_rebind_time = 0 /\ Instead(t, <<<<"t1">>>>)
      BY <1>0, <3>1, OneMarks, Zenon
    <3>2. CASE mem.t2_rebind_time = 1 /\ Instead(t, <<Set("t2_rebind_time", 0), <<"rebind">>>>)
      <4>1. mem.t0_timeout # 0
        BY <2>2, <3>2
      <4>. QED BY <1>0, <3>2, <4>1, StoreMarks, Zenon
    <3>3. CASE n \in Number \ {0} /\ Instead(t, <<Set("t2_rebind_time", n), <<"t1">>>>)
      <4>1. mem.t0_timeout # 0
        BY <2>2, <2>4, <3>3
      <4>. QED BY <1>0, <3>3, <4>1, StoreMarks, Zenon
    <3>. QED BY <2>3, <3>1, <3>2, <3>3
  <2>. QED BY <1>0, <1>1, <2>1, <2>5, WordSteady
<1>3. CASE TickT1(t)
  <2>. DEFINE n == mem.t1_renew_time - 1
  <2>1. At(t, "t1")
    BY <1>3 DEF TickT1
  <2>2. mem.t0_timeout = 0 => mem.t1_renew_time = 0
    BY <2>1, NoLease
  <2>3. \/ mem.t1_renew_time = 0 /\ Instead(t, << >>)
        \/ mem.t1_renew_time = 1 /\ Instead(t, <<Set("t1_renew_time", 0), <<"renew">>>>)
        \/ n \in Number \ {0} /\ Instead(t, <<Set("t1_renew_time", n)>>)
    BY <1>3, TickT1Moves
  <2>4. mem.t1_renew_time = 0 => n \notin Number \ {0}
    <3>1. 0 - 1 \notin Number
      BY SMT DEF Number
    <3>. QED BY <3>1
  <2>. HIDE DEF n
  <2>5. PICK r \in Seq(Todos) : /\ Tame(r) /\ Instead(t, r) /\ ~Has(r, Ends)
                                /\ mem.t0_timeout = 0 => ~Has(r, Holdy)
    <3>1. CASE mem.t1_renew_time = 0 /\ Instead(t, << >>)
      BY <3>1, Short, TamePushed
    <3>2. CASE mem.t1_renew_time = 1 /\ Instead(t, <<Set("t1_renew_time", 0), <<"renew">>>>)
      <4>1. mem.t0_timeout # 0
        BY <2>2, <3>2
      <4>. QED BY <1>0, <3>2, <4>1, StoreMarks, Zenon
    <3>3. CASE n \in Number \ {0} /\ Instead(t, <<Set("t1_renew_time", n)>>)
      <4>1. mem.t0_timeout # 0
        BY <2>2, <2>4, <3>3
      <4>. QED BY <1>0, <3>3, <4>1, StoreMarks, Zenon
    <3>. QED BY <2>3, <3>1, <3>2, <3>3
  <2>. QED BY <1>0, <1>1, <2>1, <2>5, WordSteady
<1>. QED BY <1>2, <1>3

\* The lease is to be extended.
LEMMA SteadyExtend ==
  ASSUME TypeInv, Awake, NEW w \in Driver, Worker(w), NEW t \in Driver,
         T2Timeout(t) \/ T1Timeout(t) \/ NextT2(t) \/ NextT1(t)
  PROVE  Awake' /\ Worker(w)'
<1>1. mem' = mem
  BY DEF T2Timeout, T1Timeout, NextT2, NextT1, NextTry
<1>2. PICK c \in {"rebind", "renew", "next t2", "next t1"} : At(t, c)
  BY DEF T2Timeout, T1Timeout, NextT2, NextT1, NextTry
<1>3. c \in Words \ {"bind", "start", "release"} /\ c # "timeout"
  BY Calm
<1>4. PICK r \in Seq(Todos) : Tame(r) /\ Instead(t, r) /\ ~Has(r, Ends)
  <2>1. << >> \in Seq(Todos) /\ Tame(<< >>) /\ ~Has(<< >>, Ends)
    BY Short, TamePushed
  <2>2. ASSUME NEW s \in States \ {"OFF"}, NEW e \in {"next t2", "next t1"}
        PROVE  LET r == Ask(s) \o <<<<e>>>> IN r \in Seq(Todos) /\ Tame(r) /\ ~Has(r, Ends)
    <3>1. e \in Words
      BY Calm
    <3>2. Ask(s) \o <<<<e>>>> \in Seq(Todos)
      BY <3>1, PushedTypes
    <3>. QED BY <3>2, TamePushed, AskMarks
  <2>3. CASE T2Timeout(t)
    <3>1. Instead(t, Ask("REBINDING") \o <<<<"next t2">>>>) \/ Instead(t, << >>)
      BY <2>3, Zenon DEF T2Timeout
    <3>2. "REBINDING" \in States \ {"OFF"}
      BY Calm
    <3>. QED BY <2>1, <2>2, <3>1, <3>2
  <2>4. CASE T1Timeout(t)
    <3>1. Instead(t, Ask("RENEWING") \o <<<<"next t1">>>>) \/ Instead(t, << >>)
      BY <2>4, Zenon DEF T1Timeout
    <3>2. "RENEWING" \in States \ {"OFF"}
      BY Calm
    <3>. QED BY <2>1, <2>2, <3>1, <3>2
  <2>5. ASSUME NEW f \in {"t2_rebind_time", "t1_renew_time"}, NEW v \in Number
        PROVE  <<Set(f, v)>> \in Seq(Todos) /\ Tame(<<Set(f, v)>>) /\ ~Has(<<Set(f, v)>>, Ends)
    <3>1. f \in Counter \ {"request_timeout", "t0_timeout"}
      BY CountersIn, Zenon
    <3>. QED BY <3>1, StoreMarks
  <2>6. CASE NextT2(t)
    <3>. DEFINE half == (mem["t0_timeout"] - mem.lease_used) \div 2
    <3>1. Instead(t, IF half >= 1 THEN <<Set("t2_rebind_time", half)>> ELSE << >>)
      BY <2>6 DEF NextT2, NextTry
    <3>2. half >= 1 => half \in Number
      BY Numbers, Bounds
    <3>. HIDE DEF half
    <3>. QED BY <2>1, <2>5, <3>1, <3>2
  <2>7. CASE NextT1(t)
    <3>. DEFINE half == (mem["t2_timeout"] - mem.lease_used) \div 2
    <3>1. Instead(t, IF half >= 1 THEN <<Set("t1_renew_time", half)>> ELSE << >>)
      BY <2>7 DEF NextT1, NextTry
    <3>2. half >= 1 => half \in Number
      BY Numbers, Bounds
    <3>. HIDE DEF half
    <3>. QED BY <2>1, <2>5, <3>1, <3>2
  <2>. QED BY <2>3, <2>4, <2>6, <2>7
<1>. QED BY <1>1, <1>2, <1>3, <1>4, WordSteady

\* dhcp_start clears the fields, and turns the client on.
LEMMA SteadyStart ==
  ASSUME TypeInv, Awake, NEW w \in Driver, Worker(w), NEW t \in Driver, StartAgain(t)
  PROVE  Awake' /\ Worker(w)'
<1>. DEFINE x == Head(todo[t])
            u == Tail(todo[t])
            r == Ask("SELECTING")
            p == r \o u
<1>1. At(t, "start") /\ mem' = Cleared(mem.addr) /\ Instead(t, r)
  BY DEF StartAgain
<1>2. "start" \in Words \ {"bind"} /\ "SELECTING" \in States \ {"OFF"} /\ "SELECTING" \notin Holding
  BY WordsIn, Calm, Zenon DEF Holding
<1>3. t = w /\ todo[t] # << >> /\ todo[t] \in Seq(Todos) /\ x = <<"start">>
  BY <1>1, <1>2, WordHead
<1>4. r \in Seq(Todos) /\ Tame(r) /\ Has(r, Wake) /\ ~Has(r, Busy)
  BY <1>2, PushedTypes, TamePushed, AskMarks
<1>5. /\ u \in Seq(Todos) /\ todo'[t] = p
      /\ \A o \in Driver \ {t} : todo'[o] = todo[o]
  BY <1>1, <1>3, <1>4, Turn
<1>6. \A A : Has(todo[t], A) <=> x \in A \/ Has(u, A)
  BY <1>3, FirstStep
<1>7. Tame(p)
  <2>1. Tame(todo[t])
    BY DEF Awake
  <2>. QED BY <1>3, <1>4, <2>1, TameTurn, TameOf
<1>. HIDE DEF x, u, r
<1>8. \A A : Has(p, A) <=> Has(r, A) \/ Has(u, A)
  BY <1>4, <1>5, HasCat
<1>. HIDE DEF p
<1>9. mem' = [f \in Fields |-> IF f = "state" THEN "OFF" ELSE IF f = "addr" THEN mem.addr ELSE 0]
  BY <1>1 DEF Cleared
<1>10. mem'.state = "OFF" /\ mem'.t1_renew_time = 0 /\ mem'.t2_rebind_time = 0
  <2>1. \A f \in Fields : mem'[f] = IF f = "state" THEN "OFF" ELSE IF f = "addr" THEN mem.addr ELSE 0
    BY <1>9, Zenon
  <2>. QED BY <2>1, CountersIn, Zenon
<1>11. "OFF" \notin Waiting /\ "OFF" \notin Holding
  BY StatesIn
<1>12. Awake'
  <2>1. \A o \in Driver : Tame(todo'[o])
    BY <1>5, <1>7, Zenon DEF Awake
  <2>2. Has(todo'[t], Wake)
    BY <1>4, <1>5, <1>8
  <2>. QED BY <1>10, <1>11, <2>1, <2>2, Zenon DEF Awake
<1>13. ~Has(todo'[w], Busy)
  <2>1. x \in Ends
    BY <1>2, <1>3, MarksWord
  <2>2. ~Has(todo[w], Busy)
    BY <1>3, <1>6, <2>1 DEF Worker
  <2>. QED BY <1>3, <1>4, <1>5, <1>6, <1>8, <2>2
<1>14. ~Has(todo'[w], Holdy)
  <2>1. Holdy \subseteq Busy
    BY DEF Busy
  <2>. QED BY <1>13, <2>1, OnlyIn
<1>15. \A o \in Driver \ {w} : Only(todo'[o], Reply)
  BY <1>3, <1>5, Zenon DEF Worker
<1>. QED BY <1>10, <1>11, <1>12, <1>13, <1>14, <1>15, Zenon DEF Worker

-----------------------------------------------------------------------------
\* A store: of request_timeout, of the state, or of another field.
LEMMA SteadyStore ==
  ASSUME TypeInv, Awake, NEW w \in Driver, Worker(w), NEW t \in Driver, Store(t)
  PROVE  Awake' /\ Worker(w)'
<1>. DEFINE x == Head(todo[t])
            u == Tail(todo[t])
            q == todo[t]
            f == x[2]
            v == x[3]
<1>1. At(t, "set") /\ mem' = [mem EXCEPT ![x[2]] = x[3]] /\ Instead(t, << >>)
  BY DEF Store
<1>2. q # << >> /\ q \in Seq(Todos) /\ x \in Todos /\ x[1] = "set"
  BY <1>1, AtStep
<1>3. /\ u \in Seq(Todos)
      /\ \A A : Has(q, A) <=> x \in A \/ Has(u, A)
      /\ \A A : Only(q, A) <=> x \in A /\ Only(u, A)
      /\ \A A, B : Followed(q, A, B) => (x \in A => Has(u, B)) /\ Followed(u, A, B)
  BY <1>2, FirstStep
<1>4. todo'[t] = u /\ \A o \in Driver \ {t} : todo'[o] = todo[o]
  <2>1. << >> \in Seq(Todos) /\ << >> \o u = u
    BY <1>3, Short, ConcatEmptySeq
  <2>. QED BY <1>1, <1>2, <2>1, Turn
<1>5. t # w => x \in Reply
  BY <1>2, ReplyHead
<1>. HIDE DEF x, u
<1>6. /\ \A g \in Fields : mem'[g] = IF g = f THEN v ELSE mem[g]
      /\ x = Set(f, v)
      /\ \/ f \in Counter /\ v \in Number
         \/ f = "state" /\ v \in States
         \/ f = "addr" /\ v \in BOOLEAN
  BY <1>1, <1>2, Stores, Storable
<1>7. Tame(q)
  BY DEF Awake
<1>8. (x \in Unfix => Has(u, Fix)) /\ (x \in Leaving => Has(u, Starts)) /\ x \in Plain /\ Tame(u)
  BY <1>3, <1>7 DEF Tame
<1>9. Starts \subseteq Ends /\ Starts \subseteq Fix /\ Starts \subseteq Wake /\ Holdy \subseteq Busy
  BY Zenon DEF Starts, Ends, Fix, Wake, Busy
<1>10. Has(u, Starts) => Has(u, Ends) /\ Has(u, Fix) /\ Has(u, Wake)
  BY <1>9, OnlyIn
<1>11. \A o \in Driver : Tame(todo'[o])
  BY <1>4, <1>8, Zenon DEF Awake
<1>12. \A o \in Driver \ {w} : Only(todo'[o], Reply)
  BY <1>3, <1>4, Zenon DEF Worker
<1>13. Has(todo'[w], Ends) => ~Has(todo'[w], Busy)
  BY <1>3, <1>4, Zenon DEF Worker
<1>14. \A g : (\E o \in Driver : Has(todo[o], g)) /\ x \notin g => \E o \in Driver : Has(todo'[o], g)
  BY <1>3, <1>4, Zenon
<1>15. ~Has(todo[w], Holdy) => ~Has(todo'[w], Holdy)
  BY <1>3, <1>4, Zenon
<1>16. x \notin Starts /\ Has(todo[w], Starts) => Has(todo'[w], Starts)
  BY <1>3, <1>4, Zenon
<1>17. CASE f = "addr"
  <2>1. x = NoAddr
    <3>1. v = FALSE
      <4> SUFFICES ASSUME v # FALSE PROVE FALSE
        OBVIOUS
      <4>0. v \in BOOLEAN
        BY <1>6, <1>17, CountersIn, Zenon
      <4>1. x = Addr
        BY <1>6, <1>17, <4>0, Zenon DEF Addr
      <4>. QED BY <1>2, <1>8, <4>1, Zenon DEF Plain, Binders
    <3>. QED BY <1>6, <1>17, <3>1 DEF NoAddr
  <2>2. \A g \in Fields \ {"addr"} : mem'[g] = mem[g]
    BY <1>6, <1>17, Zenon
  <2>3. /\ mem'.state = mem.state /\ mem'.request_timeout = mem.request_timeout
        /\ mem'.t0_timeout = mem.t0_timeout /\ mem'.t1_renew_time = mem.t1_renew_time
        /\ mem'.t2_rebind_time = mem.t2_rebind_time
    BY <2>2, CountersIn, Zenon
  <2>4. x \notin Fix /\ x \notin Wake /\ x \notin Starts
    BY <2>1, MarksAddr
  <2>5. Awake'
    BY <1>11, <1>14, <2>3, <2>4, Zenon DEF Awake
  <2>. QED BY <1>12, <1>13, <1>15, <1>16, <2>3, <2>4, <2>5, Zenon DEF Worker
<1>18. CASE f = "state"
  <2>0. v \in States
    BY <1>6, <1>18, CountersIn, Zenon
  <2>1. /\ x \notin Fix /\ x \notin Starts /\ x \in Unfix
        /\ x \in Leaving <=> v = "OFF"
        /\ (x \in Holdy <=> v \in Holding)
        /\ x \in Reply <=> v \in Waiting
    BY <1>6, <1>18, <2>0, MarksState
  <2>2. \A g \in Fields \ {"state"} : mem'[g] = mem[g]
    BY <1>6, <1>18, Zenon
  <2>3. /\ mem'.state = v /\ mem'.request_timeout = mem.request_timeout
        /\ mem'.t0_timeout = mem.t0_timeout /\ mem'.t1_renew_time = mem.t1_renew_time
        /\ mem'.t2_rebind_time = mem.t2_rebind_time
    <3>1. mem'.state = v
      BY <1>6, <1>18, CountersIn, Zenon
    <3>. QED BY <2>2, <3>1, CountersIn, Zenon
  <2>4. Has(todo'[t], Fix) /\ (v = "OFF" => Has(todo'[t], Wake))
    BY <1>4, <1>8, <1>10, <2>1
  <2>5. Awake'
    BY <1>11, <2>3, <2>4, Zenon DEF Awake
  <2>6. ASSUME mem.t0_timeout = 0, mem.t1_renew_time = 0, mem.t2_rebind_time = 0,
               ~Has(todo[w], Holdy)
        PROVE  v \notin Holding
    <3>1. CASE t = w
      <4>1. x \notin Holdy
        BY <1>3, <2>6, <3>1
      <4>. QED BY <2>1, <4>1
    <3>2. CASE t # w
      <4>1. v \in Waiting
        BY <1>5, <2>1, <3>2
      <4>. QED BY <4>1 DEF Waiting, Holding
    <3>. QED BY <3>1, <3>2
  <2>. QED BY <1>12, <1>13, <1>15, <1>16, <2>1, <2>3, <2>5, <2>6, Zenon DEF Worker
<1>19. CASE f \in Counter
  <2>0. v \in Number /\ f # "state"
    BY <1>6, <1>19, CountersIn, Zenon
  <2>1. /\ x \notin Starts /\ x \notin Wake
        /\ x \in Unfix <=> f = "request_timeout" /\ v = 0
        /\ x \in Fix <=> f = "request_timeout" /\ v # 0
        /\ x \in Leaving <=> f = "t0_timeout"
        /\ x \in Rearm <=> f \in {"t1_renew_time", "t2_rebind_time"} /\ v # 0
        /\ (x \in Holdy <=> x \in Rearm)
        /\ x \in Reply <=> f = "request_timeout"
    BY <1>6, <1>19, <2>0, MarksSet
  <2>2. mem'.state = mem.state
    BY <1>6, <2>0, CountersIn, Zenon
  <2>3. mem'.request_timeout = IF f = "request_timeout" THEN v ELSE mem.request_timeout
    BY <1>6, CountersIn, Zenon
  <2>4. Awake'
    <3>1. ASSUME mem'.state \in Waiting, mem'.request_timeout = 0
          PROVE  \E o \in Driver : Has(todo'[o], Fix)
      <4>1. CASE f = "request_timeout"
        <5>1. v = 0
          BY <2>3, <3>1, <4>1
        <5>. QED BY <1>4, <1>8, <2>1, <4>1, <5>1
      <4>2. CASE f # "request_timeout"
        <5>1. \E o \in Driver : Has(todo[o], Fix)
          BY <2>2, <2>3, <3>1, <4>2, Zenon DEF Awake
        <5>. QED BY <1>14, <2>1, <4>2, <5>1
      <4>. QED BY <4>1, <4>2
    <3>2. ASSUME mem'.state = "OFF" PROVE \E o \in Driver : Has(todo'[o], Wake)
      <4>1. \E o \in Driver : Has(todo[o], Wake)
        BY <2>2, <3>2 DEF Awake
      <4>. QED BY <1>14, <2>1, <4>1
    <3>. QED BY <1>11, <3>1, <3>2, Zenon DEF Awake
  <2>5. ASSUME mem'.t0_timeout = 0
        PROVE  /\ ~Has(todo'[w], Holdy)
               /\ \/ Has(todo'[w], Starts)
                  \/ mem'.t1_renew_time = 0 /\ mem'.t2_rebind_time = 0 /\ mem'.state \notin Holding
    <3>1. CASE f = "t0_timeout"
      <4>1. t = w /\ Has(u, Starts)
        BY <1>5, <1>8, <2>1, <3>1
      <4>2. Has(todo'[w], Starts) /\ Has(todo'[w], Ends)
        BY <1>4, <1>10, <4>1
      <4>3. ~Has(todo'[w], Busy)
        BY <1>13, <4>2
      <4>. QED BY <1>9, <4>2, <4>3, OnlyIn
    <3>2. CASE f # "t0_timeout"
      <4>1. mem.t0_timeout = 0
        BY <1>6, <2>5, <3>2, CountersIn, Zenon
      <4>2. /\ ~Has(todo[w], Holdy)
            /\ \/ Has(todo[w], Starts)
               \/ mem.t1_renew_time = 0 /\ mem.t2_rebind_time = 0 /\ mem.state \notin Holding
        BY <4>1 DEF Worker
      <4>3. ~Has(todo'[w], Holdy) /\ (Has(todo[w], Starts) => Has(todo'[w], Starts))
        BY <1>15, <1>16, <2>1, <4>2
      <4>4. f \in {"t1_renew_time", "t2_rebind_time"} => v = 0
        <5>1. f \in {"t1_renew_time", "t2_rebind_time"} => t = w
          BY <1>5, <2>1
        <5>2. t = w => x \notin Holdy
          BY <1>3, <4>2
        <5>. QED BY <2>1, <5>1, <5>2
      <4>5. ASSUME mem.t1_renew_time = 0, mem.t2_rebind_time = 0
            PROVE  mem'.t1_renew_time = 0 /\ mem'.t2_rebind_time = 0
        <5>1. mem'.t1_renew_time = IF f = "t1_renew_time" THEN v ELSE mem.t1_renew_time
          BY <1>6, CountersIn, Zenon
        <5>2. mem'.t2_rebind_time = IF f = "t2_rebind_time" THEN v ELSE mem.t2_rebind_time
          BY <1>6, CountersIn, Zenon
        <5>. QED BY <4>4, <4>5, <5>1, <5>2
      <4>. QED BY <2>2, <4>2, <4>3, <4>5, Zenon
    <3>. QED BY <3>1, <3>2
  <2>. QED BY <1>12, <1>13, <2>4, <2>5, Zenon DEF Worker
<1>. QED BY <1>6, <1>17, <1>18, <1>19

\* Without an overlap, a thread that begins a tick finds the other idle.
LEMMA AloneTick ==
  ASSUME TypeInv, Awake, NEW w \in Driver, Worker(w), NEW t \in Driver,
         FineTick(t) \/ CoarseTick(t), overlaps' = {}
  PROVE  /\ \A o \in Driver : todo[o] = << >>
         /\ mem.state # "OFF"
         /\ mem.state \in Waiting => mem.request_timeout # 0
         /\ mem.t0_timeout = 0 => mem.t1_renew_time = 0 /\ mem.t2_rebind_time = 0 /\ mem.state \notin Holding
<1>1. overlaps' = overlaps \union Overlap(t) /\ Idle(t)
  BY DEF FineTick, CoarseTick
<1>2. Overlap(t) = {}
  BY <1>1
<1>3. \A o \in Driver \ {t} : Idle(o)
  <2>1. "tick" \notin Overlap(t)
    BY <1>2
  <2>. QED BY <2>1, Zenon DEF Overlap
<1>4. \A o \in Driver : todo[o] = << >>
  BY <1>1, <1>3, Zenon DEF Idle
<1>5. \A o \in Driver : \A A : ~Has(todo[o], A)
  BY <1>4, Short
<1>. QED BY <1>4, <1>5, Zenon DEF Awake, Worker

\* An idle thread begins r, while the other is idle.
LEMMA BeginSteady ==
  ASSUME TypeInv, NEW t \in Driver, NEW r \in Seq(Todos), Push(t, r), mem' = mem,
         \A o \in Driver : todo[o] = << >>,
         mem.state # "OFF", mem.state \in Waiting => mem.request_timeout # 0,
         mem.t0_timeout = 0 => mem.t1_renew_time = 0 /\ mem.t2_rebind_time = 0 /\ mem.state \notin Holding,
         Tame(r), ~Has(r, Ends) \/ ~Has(r, Busy), mem.t0_timeout = 0 => ~Has(r, Holdy)
  PROVE  Awake' /\ Worker(t)'
<1>1. todo'[t] = r /\ \A o \in Driver \ {t} : todo'[o] = << >>
  BY Beginning DEF Idle
<1>2. Tame(<< >>) /\ Only(<< >>, Reply)
  BY TamePushed, Short
<1>3. \A o \in Driver : Tame(todo'[o])
  BY <1>1, <1>2
<1>4. Awake'
  BY <1>3, Zenon DEF Awake
<1>5. Worker(t)'
  BY <1>1, <1>2, Zenon DEF Worker
<1>. QED BY <1>4, <1>5

\* dhcp_fine_tmr begins, with the thread that called it as worker.
LEMMA SteadyFine ==
  ASSUME TypeInv, Awake, NEW w \in Driver, Worker(w), NEW t \in Driver, FineTick(t), overlaps' = {}
  PROVE  Awake' /\ Worker(t)'
<1>1. mem' = mem
  BY DEF FineTick
<1>2. PICK r \in Seq(Todos) : Push(t, r) /\ Tame(r) /\ ~Has(r, Busy)
  <2>1. CASE Push(t, <<Set("request_timeout", 0), <<"timeout">>>>)
    <3>. DEFINE a == Set("request_timeout", 0)
                b == <<"timeout">>
    <3>1. 0 \in Number /\ "request_timeout" \in Counter /\ "timeout" \in Words \ {"bind"}
      BY Bounds, CountersIn, WordsIn
    <3>2. a \in Todos /\ a \notin Busy
      BY <3>1, MarksSet
    <3>3. b \in Todos /\ b \notin Busy
      BY <3>1, MarksWord
    <3>4. Push(t, <<a, b>>) /\ Tame(<<a, b>>)
      BY <2>1, TamePushed
    <3>. HIDE DEF a, b
    <3>5. <<a, b>> \in Seq(Todos) /\ ~Has(<<a, b>>, Busy)
      BY <3>2, <3>3, Short
    <3>. QED BY <3>4, <3>5, Zenon
  <2>2. CASE \E v \in Number \ {0} : Push(t, <<Set("request_timeout", v)>>)
    <3>1. PICK v \in Number \ {0} : Push(t, <<Set("request_timeout", v)>>)
      BY <2>2
    <3>. DEFINE a == Set("request_timeout", v)
    <3>2. a \in Todos /\ a \notin Busy
      BY MarksSet, CountersIn
    <3>3. Push(t, <<a>>) /\ Tame(<<a>>)
      BY <3>1, TamePushed
    <3>. HIDE DEF a
    <3>4. <<a>> \in Seq(Todos) /\ ~Has(<<a>>, Busy)
      BY <3>2, Short
    <3>. QED BY <3>3, <3>4, Zenon
  <2>. QED BY <2>1, <2>2, FineMoves
<1>3. ~Has(r, Holdy)
  <2>1. Holdy \subseteq Busy
    BY DEF Busy
  <2>. QED BY <1>2, <2>1, OnlyIn
<1>. QED BY <1>1, <1>2, <1>3, AloneTick, BeginSteady

\* dhcp_coarse_tmr begins, with the thread that called it as worker.
LEMMA SteadyCoarse ==
  ASSUME TypeInv, Awake, NEW w \in Driver, Worker(w), NEW t \in Driver, CoarseTick(t), overlaps' = {}
  PROVE  Awake' /\ Worker(t)'
<1>. DEFINE used == (mem.lease_used + 1) % Width
            s == <<Set("lease_used", used)>>
<1>1. mem' = mem
  BY DEF CoarseTick
<1>2. used \in Number
  BY Numbers, Bounds
<1>3. \/ Push(t, << >>) \/ Push(t, <<<<"t2">>>>)
      \/ mem.t0_timeout # 0 /\ Push(t, s \o Restart)
      \/ mem.t0_timeout # 0 /\ Push(t, <<Set("lease_used", used), <<"t2">>>>)
  BY CoarseMoves, Zenon
<1>. HIDE DEF used
<1>4. /\ "lease_used" \in Counter \ {"request_timeout", "t0_timeout"}
      /\ "t2" \in Words \ {"bind", "release", "start", "timeout"}
      /\ "t2" \in Words \ {"bind", "release"}
  BY CountersIn, Calm, Zenon
<1>5. PICK r \in Seq(Todos) : /\ Push(t, r) /\ Tame(r) /\ (~Has(r, Ends) \/ ~Has(r, Busy))
                              /\ mem.t0_timeout = 0 => ~Has(r, Holdy)
  <2>1. << >> \in Seq(Todos) /\ Tame(<< >>) /\ ~Has(<< >>, Ends) /\ ~Has(<< >>, Holdy)
    BY Short, TamePushed
  <2>2. <<<<"t2">>>> \in Seq(Todos) /\ Tame(<<<<"t2">>>>) /\ ~Has(<<<<"t2">>>>, Ends) /\ ~Has(<<<<"t2">>>>, Holdy)
    BY <1>4, OneMarks
  <2>3. /\ <<Set("lease_used", used), <<"t2">>>> \in Seq(Todos) /\ Tame(<<Set("lease_used", used), <<"t2">>>>)
        /\ ~Has(<<Set("lease_used", used), <<"t2">>>>, Ends)
    BY <1>2, <1>4, StoreMarks
  <2>4. s \o Restart \in Seq(Todos) /\ Tame(s \o Restart) /\ ~Has(s \o Restart, Busy)
    <3>1. s \in Seq(Todos) /\ ~Has(s, Busy)
      BY <1>2, <1>4, StoreMarks
    <3>2. Tame(s \o Restart)
      BY <1>2, <1>4, TamePushed
    <3>. HIDE DEF s
    <3>3. ~Has(s \o Restart, Busy) /\ s \o Restart \in Seq(Todos)
      BY <3>1, RestartMarks, HasCat, Places
    <3>. QED BY <3>2, <3>3
  <2>. HIDE DEF s
  <2>5. CASE Push(t, << >>)
    BY <2>1, <2>5, Zenon
  <2>6. CASE Push(t, <<<<"t2">>>>)
    BY <2>2, <2>6, Zenon
  <2>7. CASE mem.t0_timeout # 0 /\ Push(t, s \o Restart)
    BY <2>4, <2>7, Zenon
  <2>8. CASE mem.t0_timeout # 0 /\ Push(t, <<Set("lease_used", used), <<"t2">>>>)
    BY <2>3, <2>8, Zenon
  <2>. QED BY <1>3, <2>5, <2>6, <2>7, <2>8, Zenon
<1>. QED BY <1>1, <1>5, AloneTick, BeginSteady

\* tcpip_thread begins a reply.
LEMMA SteadyAnswers ==
  ASSUME TypeInv, Awake, NEW w \in Driver, Worker(w), HandleOffer \/ HandleNak
  PROVE  Awake' /\ Worker(w)'
<1>0. "tcpip" \in Driver
  BY Threads
<1>1. mem' = mem /\ Idle("tcpip")
  BY DEF HandleOffer, HandleNak
<1>2. PICK r \in Seq(Todos) : Push("tcpip", r) /\ Tame(r) /\ Only(r, Reply) /\ ~Has(r, Ends) /\ ~Has(r, Holdy)
  <2>0. ASSUME NEW s \in Waiting
        PROVE  Ask(s) \in Seq(Todos) /\ Tame(Ask(s)) /\ Only(Ask(s), Reply) /\ ~Has(Ask(s), Ends) /\ ~Has(Ask(s), Holdy)
    <3>1. s \in States \ {"OFF"} /\ s \notin Holding
      BY StatesIn, Zenon DEF Waiting, Holding
    <3>. QED BY <3>1, PushedTypes, TamePushed, AskMarks
  <2>1. CASE HandleOffer
    <3>1. Push("tcpip", OfferSteps)
      BY <2>1 DEF HandleOffer, OfferSteps
    <3>. QED BY <3>1, OfferMarks
  <2>2. CASE HandleNak
    <3>1. Push("tcpip", NakSteps) /\ "SELECTING" \in Waiting
      BY <2>2 DEF HandleNak, NakSteps, Waiting
    <3>. DEFINE a == <<"set state", "BACKING_OFF">>
    <3>2. a \in Reply /\ a \notin Ends /\ a \notin Holdy
      <4>1. "BACKING_OFF" \in States /\ "BACKING_OFF" \in Waiting /\ "BACKING_OFF" \notin Holding
        BY StatesIn, Zenon DEF Waiting, Holding
      <4>. QED BY <4>1, MarksState
    <3>. HIDE DEF a
    <3>3. /\ NakSteps \in Seq(Todos)
          /\ \A A : Has(NakSteps, A) <=> a \in A \/ NoAddr \in A \/ Has(Ask("SELECTING"), A)
          /\ \A A : Only(NakSteps, A) <=> a \in A /\ NoAddr \in A /\ Only(Ask("SELECTING"), A)
      BY NakSpelled, Zenon DEF a, NoAddr
    <3>4. NoAddr \in Reply /\ NoAddr \notin Ends /\ NoAddr \notin Holdy
      BY MarksAddr
    <3>5. Only(Ask("SELECTING"), Reply) /\ ~Has(Ask("SELECTING"), Ends) /\ ~Has(Ask("SELECTING"), Holdy)
      BY <2>0, <3>1
    <3>6. Only(NakSteps, Reply) /\ ~Has(NakSteps, Ends) /\ ~Has(NakSteps, Holdy)
      BY <3>2, <3>3, <3>4, <3>5, Zenon
    <3>. QED BY <3>1, <3>3, <3>6, TamePushed
  <2>. QED BY <2>1, <2>2
<1>3. todo'["tcpip"] = r /\ \A o \in Driver \ {"tcpip"} : todo'[o] = todo[o]
  BY <1>0, <1>1, <1>2, Beginning
<1>4. \A A : ~Has(todo["tcpip"], A)
  BY <1>1, Short DEF Idle
<1>5. \A o \in Driver : \A A : Has(todo[o], A) => Has(todo'[o], A)
  BY <1>3, <1>4, Zenon
<1>6. Awake'
  <2>1. \A o \in Driver : Tame(todo'[o])
    BY <1>2, <1>3, Zenon DEF Awake
  <2>. QED BY <1>1, <1>5, <2>1, Zenon DEF Awake
<1>7. Worker(w)'
  <2>1. \A o \in Driver \ {w} : Only(todo'[o], Reply)
    BY <1>2, <1>3, Zenon DEF Worker
  <2>2. Has(todo'[w], Ends) => ~Has(todo'[w], Busy)
    BY <1>2, <1>3, Zenon DEF Worker
  <2>3. ~Has(todo[w], Holdy) => ~Has(todo'[w], Holdy)
    BY <1>2, <1>3, Zenon
  <2>. QED BY <1>1, <1>5, <2>1, <2>2, <2>3, Zenon DEF Worker
<1>. QED BY <1>6, <1>7

-----------------------------------------------------------------------------
(* A lease is not given up before the server was asked.                    *)

\* What is followed by a step is there with it.
LEMMA FollowedHas ==
  ASSUME NEW q \in Seq(Todos), NEW A, NEW B, Followed(q, A, B), Has(q, A)
  PROVE  Has(q, B)
<1>1. PICK i \in 1..Len(q) : q[i] \in A
  BY DEF Has
<1>2. PICK j \in (i + 1)..Len(q) : q[j] \in B
  BY <1>1 DEF Followed
<1>3. j \in 1..Len(q)
  BY SMT
<1>. QED BY <1>2, <1>3 DEF Has

\* While w looks at the timers it does not restart the client.
LEMMA BusyAlone ==
  ASSUME TypeInv, Awake, NEW w \in Driver, Worker(w), Has(todo[w], Busy)
  PROVE  ~Has(todo[w], Ends) /\ ~Has(todo[w], Starts) /\ ~Has(todo[w], Frees) /\ ~Has(todo[w], Leaving)
<1>. DEFINE q == todo[w]
<1>1. q \in Seq(Todos) /\ Followed(q, Leaving, Starts)
  BY DEF TypeInv, Awake, Tame
<1>2. ~Has(q, Ends)
  BY DEF Worker
<1>. HIDE DEF q
<1>3. Starts \subseteq Ends /\ Frees \subseteq Leaving
  BY Zenon DEF Starts, Ends, Frees, Leaving
<1>4. ~Has(q, Starts)
  BY <1>2, <1>3, OnlyIn
<1>5. ~Has(q, Leaving)
  BY <1>1, <1>4, FollowedHas
<1>6. ~Has(q, Frees)
  BY <1>3, <1>5, OnlyIn
<1>. QED BY <1>2, <1>4, <1>5, <1>6 DEF q

\* What Busy is made of.
LEMMA BusyIn == Pleas \subseteq Busy /\ Extend \subseteq Busy /\ ToHold \subseteq Busy
BY Zenon DEF Busy, Holdy

\* w looks at fields, and goes on with r.
LEMMA LookAsking ==
  ASSUME TypeInv, Awake, NEW w \in Driver, Worker(w), Asking(w),
         todo[w] # << >>, NEW x, x = Head(todo[w]), NEW u, u = Tail(todo[w]),
         NEW r \in Seq(Todos), Instead(w, r), mem' = mem, granted' = granted,
         asked => asked', x \in Pleas => asked',
         Has(r, Frees) => x \in Ends,
         Has(r, ToHold) => x \in ToHold \/ (Has(r, Pleas) /\ x \in Busy),
         Counted(todo[w], mem, granted) /\ (x \in Extend \/ ~Has(todo[w], Extend))
           => Counted(r \o u, mem, granted) \/ (Has(r, Pleas) /\ x \in Busy)
  PROVE  Asking(w)'
<1>. DEFINE q == todo[w]
            p == r \o u
<1>1. q \in Seq(Todos) /\ u \in Seq(Todos) /\ todo'[w] = p
  BY Turn
<1>2. \A A : Has(q, A) <=> x \in A \/ Has(u, A)
  BY <1>1, FirstStep
<1>3. \A A : Has(p, A) <=> Has(r, A) \/ Has(u, A)
  BY <1>1, HasCat
<1>4. ASSUME Has(q, Busy) PROVE ~Has(q, Frees) /\ ~Has(p, Frees)
  <2>1. ~Has(q, Ends) /\ ~Has(q, Frees)
    BY <1>4, BusyAlone
  <2>2. x \notin Ends /\ ~Has(u, Frees)
    BY <1>2, <2>1
  <2>. QED BY <1>3, <2>1, <2>2
<1>5. /\ \A A : A \subseteq Busy /\ Has(q, A) => Has(q, Busy)
      /\ Pleas \subseteq Busy /\ Extend \subseteq Busy
  BY OnlyIn, BusyIn
<1>. HIDE DEF q, p
<1>6. ASSUME Has(r, Pleas), x \in Busy
      PROVE  Has(p, Pleas) /\ ~Has(p, Frees)
  BY <1>2, <1>3, <1>4, <1>6
<1> SUFFICES ASSUME ~asked', granted # 1
             PROVE  \/ Has(p, Pleas) /\ ~Has(p, Frees)
                    \/ ~Has(p, ToHold) /\ (mem.state \in Holding => Counted(p, mem, granted))
  BY <1>1, Zenon DEF Asking
<1>7. ~asked /\ x \notin Pleas
  OBVIOUS
<1>8. CASE Has(q, Pleas) /\ ~Has(q, Frees)
  <2>1. Has(p, Pleas)
    BY <1>2, <1>3, <1>7, <1>8
  <2>2. ~Has(p, Frees)
    BY <1>4, <1>5, <1>8
  <2>. QED BY <2>1, <2>2
<1>9. CASE ~Has(q, ToHold) /\ (mem.state \in Holding => Counted(q, mem, granted))
  <2>1. x \notin ToHold /\ ~Has(u, ToHold)
    BY <1>2, <1>9
  <2>2. Has(r, ToHold) => Has(r, Pleas) /\ x \in Busy
    BY <2>1
  <2>3. ASSUME ~(Has(r, Pleas) /\ x \in Busy)
        PROVE  ~Has(p, ToHold) /\ (mem.state \in Holding => Counted(p, mem, granted))
    <3>1. ~Has(p, ToHold)
      BY <1>3, <2>1, <2>2, <2>3
    <3>2. ASSUME mem.state \in Holding, Has(q, Extend), x \notin Extend
          PROVE  Counted(p, mem, granted)
      <4>1. Has(p, Extend) /\ ~Has(p, Frees)
        BY <1>2, <1>3, <1>4, <1>5, <3>2
      <4>2. mem.t0_timeout = granted /\ granted >= 2 /\ mem.state = "BOUND"
        BY <1>9, <3>2 DEF Counted
      <4>. QED BY <4>1, <4>2 DEF Counted
    <3>3. ASSUME mem.state \in Holding, x \in Extend \/ ~Has(q, Extend)
          PROVE  Counted(p, mem, granted)
      BY <1>9, <2>3, <3>3 DEF q, p
    <3>. QED BY <3>1, <3>2, <3>3
  <2>. QED BY <1>6, <2>3
<1>10. \/ Has(q, Pleas) /\ ~Has(q, Frees)
       \/ ~Has(q, ToHold) /\ (mem.state \in Holding => Counted(q, mem, granted))
  BY <1>7, Zenon DEF Asking, q
<1>. QED BY <1>8, <1>9, <1>10

\* The other thread only looks at fields.
LEMMA OtherAsking ==
  ASSUME NEW w \in Driver, Asking(w), todo'[w] = todo[w], mem' = mem, granted' = granted,
         asked => asked'
  PROVE  Asking(w)'
BY Zenon DEF Asking

\* One step, and two.
LEMMA Heads ==
  ASSUME NEW q \in Seq(Todos)
  PROVE  /\ \A a : q = <<a>> => Head(q) = a /\ Tail(q) = << >>
         /\ \A a, b : q = <<a, b>> => Head(q) = a /\ Tail(q) = <<b>>
<1>1. ASSUME NEW a, q = <<a>> PROVE Head(q) = a /\ Tail(q) = << >>
  BY <1>1, SMT
<1>2. ASSUME NEW a, NEW b, q = <<a, b>> PROVE Head(q) = a /\ Tail(q) = <<b>>
  <2>1. Len(q) = 2 /\ q[1] = a /\ q[2] = b
    BY <1>2, SMT
  <2>2. q[1] \in Todos /\ q[2] \in Todos
    <3>1. \A i \in 1..Len(q) : q[i] \in Todos
      BY ElementOfSeq
    <3>2. 1 \in 1..Len(q) /\ 2 \in 1..Len(q)
      BY <2>1, SMT
    <3>. QED BY <3>1, <3>2
  <2>. QED BY <1>2, <2>1, <2>2, Pairs
<1>. QED BY <1>1, <1>2

\* Steps of different kinds differ.
LEMMA Shapes ==
  ASSUME NEW x
  PROVE  /\ x[1] # "set" => \A f, v : x # Set(f, v)
         /\ \A v : x[1] # v => x # <<v>>
<1>1. ASSUME NEW f, NEW v, x = Set(f, v) PROVE x[1] = "set"
  BY <1>1, Parts
<1>2. ASSUME NEW v, x = <<v>> PROVE x[1] = v
  BY <1>2, SMT
<1>. QED BY <1>1, <1>2, Zenon

\* Without a store to do, counting goes on with these.
LEMMA CountingLook ==
  ASSUME NEW q \in Seq(Todos), q # << >>, NEW x, x = Head(q), NEW u, u = Tail(q),
         NEW m, NEW g, Counting(q, m, g), x[1] # "set"
  PROVE  \/ x \in Reply \union LookOn /\ Only(u, Reply \union LookOn) /\ Met(m, g)
         \/ x = <<"t2">> /\ u = << >> /\ Ahead(m, g)
         \/ x = <<"t1">> /\ u = << >> /\ Ahead(m, g)
<1>1. \A f, v : x # Set(f, v)
  BY Shapes
<1>2. /\ \A a : q = <<a>> => x = a /\ u = << >>
      /\ \A a, b : q = <<a, b>> => x = a /\ u = <<b>>
  BY Heads, Zenon
<1>3. Only(q, Reply \union LookOn) => x \in Reply \union LookOn /\ Only(u, Reply \union LookOn)
  BY FirstStep
<1>. QED BY <1>1, <1>2, <1>3, Zenon DEF Counting

\* w takes a step of one word.
LEMMA WordAsking ==
  ASSUME TypeInv, Awake, NEW w \in Driver, Worker(w), Asking(w), NEW t \in Driver,
         NEW c \in Words \ {"bind"}, c # "start", At(t, c),
         NEW r \in Seq(Todos), Instead(t, r), mem' = mem, granted' = granted, asked' = asked,
         Has(r, Frees) => c = "timeout",
         Has(r, ToHold) => c \in {"rebind", "renew"} /\ Has(r, Pleas),
         c = "timeout" /\ mem.state \notin Waiting => r = << >>,
         c \in {"t2", "t1"} /\ Ahead(mem, granted) =>
           \/ c = "t2" /\ r = <<<<"t1">>>>
           \/ Counting(r, mem, granted) \/ Has(r, Extend),
         c \in {"rebind", "renew"} /\ mem.state = "BOUND" => Has(r, Pleas)
  PROVE  Asking(w)'
<1>. DEFINE q == todo[w]
            x == Head(todo[w])
            u == Tail(todo[w])
<1>1. t = w /\ q # << >> /\ q \in Seq(Todos) /\ x = <<c>>
  BY WordHead
<1>2. u \in Seq(Todos)
  BY <1>1, FirstStep
<1>. HIDE DEF q, x, u
<1>3. /\ x[1] = c /\ x \notin Pleas /\ x \notin Reply
      /\ x \in Ends <=> c \in {"timeout", "start"}
      /\ x \in LookOn <=> c = "timeout"
      /\ x \in Extend <=> c \in {"rebind", "renew"}
      /\ x \in Busy <=> c \in {"t2", "t1", "rebind", "renew", "next t2", "next t1"}
  BY <1>1, MarksWord
<1>4. ASSUME Counted(q, mem, granted), x \in Extend \/ ~Has(q, Extend), ~(Has(r, Pleas) /\ x \in Busy)
      PROVE  Counted(r \o u, mem, granted)
  <2>1. /\ mem.t0_timeout = granted /\ granted >= 2 /\ mem.state = "BOUND"
        /\ Counting(q, mem, granted) \/ (Has(q, Extend) /\ ~Has(q, Frees))
    BY <1>4 DEF Counted
  <2>2. ~(x \in Extend)
    BY <1>3, <1>4, <2>1
  <2>3. Counting(q, mem, granted)
    BY <1>4, <2>1, <2>2
  <2>4. x[1] # "set"
    <3>1. c # "set"
      BY Zenon DEF Words
    <3>. QED BY <1>3, <3>1
  <2>5. \/ x \in Reply \union LookOn /\ Only(u, Reply \union LookOn) /\ Met(mem, granted)
        \/ x = <<"t2">> /\ u = << >> /\ Ahead(mem, granted)
        \/ x = <<"t1">> /\ u = << >> /\ Ahead(mem, granted)
    BY <1>1, <2>3, <2>4, CountingLook DEF q, x, u
  <2>6. CASE x \in Reply \union LookOn /\ Only(u, Reply \union LookOn) /\ Met(mem, granted)
    <3>1. c = "timeout"
      BY <1>3, <2>6
    <3>2. "BOUND" \notin Waiting
      BY DEF Waiting
    <3>3. r = << >>
      BY <2>1, <3>1, <3>2
    <3>4. r \o u = u
      BY <1>2, <3>3, ConcatEmptySeq
    <3>. QED BY <2>1, <2>6, <3>4, Zenon DEF Counted, Counting
  <2>7. CASE (x = <<"t2">> \/ x = <<"t1">>) /\ u = << >> /\ Ahead(mem, granted)
    <3>1. c \in {"t2", "t1"}
      <4>1. <<"t2">>[1] = "t2" /\ <<"t1">>[1] = "t1"
        BY Parts
      <4>. QED BY <1>3, <2>7, <4>1
    <3>2. r \o u = r
      BY <2>7, ConcatEmptySeq
    <3>3. c # "timeout"
      BY <3>1
    <3>4. \/ r = <<<<"t1">>>>
          \/ Counting(r, mem, granted) \/ Has(r, Extend)
      BY <2>7, <3>1
    <3>5. r = <<<<"t1">>>> => Counting(r, mem, granted)
      BY <2>7, Zenon DEF Counting
    <3>6. Counting(r, mem, granted) \/ (Has(r, Extend) /\ ~Has(r, Frees))
      BY <3>3, <3>4, <3>5
    <3>. QED BY <2>1, <3>2, <3>6 DEF Counted
  <2>. QED BY <2>5, <2>6, <2>7
<1>5. Has(r, Frees) => x \in Ends
  BY <1>3
<1>6. Has(r, ToHold) => Has(r, Pleas) /\ x \in Busy
  BY <1>3
<1>. QED BY <1>1, <1>3, <1>4, <1>5, <1>6, LookAsking DEF q, x, u

\* When the request to extend the lease is sent, the server is asked.
LEMMA AskingSend ==
  ASSUME TypeInv, Awake, NEW w \in Driver, Worker(w), Asking(w), NEW t \in Driver, Send(t)
  PROVE  Asking(w)'
<1>1. At(t, "send") /\ Instead(t, << >>) /\ mem' = mem /\ granted' = granted
  BY DEF Send
<1>2. CASE t # w
  <2>1. << >> \in Seq(Todos)
    BY Short
  <2>2. todo[t] # << >>
    BY <1>1, AtStep
  <2>3. todo'[w] = todo[w]
    BY <1>1, <1>2, <2>1, <2>2, Turn
  <2>4. asked => asked'
    BY DEF Send
  <2>. QED BY <1>1, <2>3, <2>4, OtherAsking
<1>3. CASE t = w
  <2>. DEFINE q == todo[w]
              x == Head(todo[w])
              u == Tail(todo[w])
              s == x[2]
              r == << >>
  <2>1. q # << >> /\ q \in Seq(Todos) /\ x \in Todos /\ x[1] = "send"
    BY <1>1, <1>3, AtStep
  <2>2. s \in States /\ x = <<"send", s>>
    BY <2>1, Storable
  <2>3. asked' = (asked \/ s \in {"RENEWING", "REBINDING"})
    BY <1>3 DEF Send
  <2>4. u \in Seq(Todos)
    BY <2>1, FirstStep
  <2>5. r \in Seq(Todos) /\ (\A A : ~Has(r, A)) /\ r \o u = u
    BY <2>4, Short, ConcatEmptySeq
  <2>6. Instead(w, r)
    BY <1>1, <1>3
  <2>. HIDE DEF q, x, u, r, s
  <2>7. (x \in Pleas <=> s \in {"RENEWING", "REBINDING"}) /\ x \notin Extend
    BY <2>2, MarksSend
  <2>8. (asked => asked') /\ (x \in Pleas => asked')
    BY <2>3, <2>7
  <2>9. ASSUME Counted(q, mem, granted), ~Has(q, Extend)
        PROVE  Counted(u, mem, granted)
    <3>1. Counting(q, mem, granted)
      BY <2>9 DEF Counted
    <3>2. x # <<"t2">> /\ x # <<"t1">> /\ x[1] # "set" /\ x \notin LookOn
      <4>1. x \notin LookOn
        BY <2>2, MarksSend
      <4>. QED BY <2>1, <4>1, Shapes
    <3>3. Only(u, Reply \union LookOn) /\ Met(mem, granted)
      BY <2>1, <3>1, <3>2, CountingLook DEF q, x, u
    <3>. QED BY <2>9, <3>3, Zenon DEF Counted, Counting
  <2>. QED BY <1>1, <2>1, <2>5, <2>6, <2>7, <2>8, <2>9, LookAsking DEF q, x, u
<1>. QED BY <1>2, <1>3

\* dhcp_set_state leads into no state with a lease but on the way to a
\* request.
LEMMA AskingCompare ==
  ASSUME TypeInv, Awake, NEW w \in Driver, Worker(w), Asking(w), NEW t \in Driver, Compare(t)
  PROVE  Asking(w)'
<1>. DEFINE s == Head(todo[t])[2]
            a == Set("state", s)
            b == Set("request_timeout", 0)
<1>1. /\ At(t, "set state") /\ mem' = mem /\ granted' = granted /\ asked' = asked
      /\ Instead(t, IF mem.state = s THEN << >> ELSE <<a, b>>)
  BY DEF Compare, history
<1>2. todo[t] # << >> /\ todo[t] \in Seq(Todos) /\ Head(todo[t]) \in Todos /\ Head(todo[t])[1] = "set state"
  BY <1>1, AtStep
<1>3. s \in States /\ Head(todo[t]) = <<"set state", s>>
  BY <1>2, Storable
<1>. HIDE DEF s
<1>4. /\ a \in Todos /\ a \notin Frees /\ (a \in ToHold <=> s \in Holding) /\ (a \in Reply <=> s \in Waiting)
      /\ b \in Todos /\ b \notin Frees /\ b \notin ToHold /\ b \in Reply
  <2>1. /\ a \in Todos /\ a \notin Frees /\ (a \in ToHold <=> s \in Holding) /\ (a \in Reply <=> s \in Waiting)
    BY <1>3, MarksState
  <2>2. 0 \in Number /\ "request_timeout" \in Counter
    BY Bounds, CountersIn
  <2>3. b \in Todos /\ b \notin Frees /\ b \notin ToHold /\ b \in Reply
    BY <2>2, MarksSet
  <2>. QED BY <2>1, <2>3
<1>. HIDE DEF a, b
<1>5. PICK r \in Seq(Todos) : /\ Instead(t, r) /\ ~Has(r, Frees) /\ (Has(r, ToHold) => s \in Holding)
                              /\ s \in Waiting => Only(r, Reply)
  <2>1. CASE mem.state = s
    <3>1. Instead(t, << >>)
      BY <1>1, <2>1
    <3>. QED BY <3>1, Short, Zenon
  <2>2. CASE mem.state # s
    <3>1. Instead(t, <<a, b>>)
      BY <1>1, <2>2
    <3>2. /\ <<a, b>> \in Seq(Todos) /\ ~Has(<<a, b>>, Frees) /\ (Has(<<a, b>>, ToHold) => s \in Holding)
          /\ s \in Waiting => Only(<<a, b>>, Reply)
      BY <1>4, Short
    <3>. QED BY <3>1, <3>2, Zenon
  <2>. QED BY <2>1, <2>2
<1>6. CASE t # w
  <2>1. todo'[w] = todo[w]
    BY <1>2, <1>5, <1>6, Turn
  <2>. QED BY <1>1, <2>1, OtherAsking
<1>7. CASE t = w
  <2>. DEFINE q == todo[w]
              x == Head(todo[w])
              u == Tail(todo[w])
  <2>1. q # << >> /\ q \in Seq(Todos) /\ x \in Todos /\ x[1] = "set state" /\ x = <<"set state", s>> /\ Instead(w, r)
    BY <1>2, <1>3, <1>5, <1>7
  <2>4. u \in Seq(Todos)
    BY <2>1, FirstStep
  <2>. HIDE DEF q, x, u
  <2>7. /\ x \notin Pleas /\ x \notin Extend /\ (x \in ToHold <=> s \in Holding)
        /\ (x \in Reply <=> s \in Waiting) /\ x \notin LookOn
    BY <1>3, <2>1, MarksState
  <2>9. ASSUME Counted(q, mem, granted), ~Has(q, Extend)
        PROVE  Counted(r \o u, mem, granted)
    <3>1. Counting(q, mem, granted)
      BY <2>9 DEF Counted
    <3>2. x # <<"t2">> /\ x # <<"t1">> /\ x[1] # "set"
      BY <2>1, Shapes
    <3>3. x \in Reply \union LookOn /\ Only(u, Reply \union LookOn) /\ Met(mem, granted)
      BY <2>1, <3>1, <3>2, CountingLook DEF q, x, u
    <3>4. Only(r, Reply \union LookOn)
      <4>1. Only(r, Reply)
        BY <1>5, <2>7, <3>3
      <4>. QED BY <4>1, OnlyIn
    <3>5. Only(r \o u, Reply \union LookOn)
      BY <2>4, <3>3, <3>4, HasCat
    <3>. QED BY <2>9, <3>3, <3>5, Zenon DEF Counted, Counting
  <2>10. Has(r, ToHold) => x \in ToHold
    BY <1>5, <2>7
  <2>. QED BY <1>1, <1>5, <2>1, <2>7, <2>9, <2>10, LookAsking DEF q, x, u
<1>. QED BY <1>6, <1>7

\* dhcp_release_and_stop is not about to be followed by a request.
LEMMA AskingRelease ==
  ASSUME TypeInv, Awake, NEW w \in Driver, Worker(w), Asking(w), NEW t \in Driver, ReleaseAndStop(t)
  PROVE  Asking(w)'
<1>1. /\ At(t, "release") /\ mem' = mem /\ granted' = granted /\ asked' = asked
      /\ Instead(t, IF mem.state = "OFF" THEN << >> ELSE ReleaseSteps)
  BY DEF ReleaseAndStop, ReleaseSteps, history
<1>2. PICK r \in {<< >>, ReleaseSteps} : Instead(t, r)
  BY <1>1
<1>3. "release" \in Words \ {"bind"}
  BY WordsIn
<1>4. r \in Seq(Todos) /\ ~Has(r, Frees) /\ ~Has(r, ToHold)
  <2>1. CASE r = << >>
    BY <2>1, Short, Zenon
  <2>2. CASE r = ReleaseSteps
    BY <2>2, ReleaseMarks
  <2>. QED BY <2>1, <2>2
<1>. QED BY <1>1, <1>2, <1>3, <1>4, WordAsking

\* dhcp_timeout does nothing to a lease.
LEMMA AskingTimeout ==
  ASSUME TypeInv, Awake, NEW w \in Driver, Worker(w), Asking(w), NEW t \in Driver, Timeout(t)
  PROVE  Asking(w)'
<1>1. At(t, "timeout") /\ mem' = mem /\ granted' = granted /\ asked' = asked
  BY DEF Timeout, history
<1>2. "timeout" \in Words \ {"bind"}
  BY WordsIn
<1>3. ASSUME NEW r \in {Ask("SELECTING"), Ask("REQUESTING"), Restart}
      PROVE  r \in Seq(Todos) /\ ~Has(r, ToHold)
  <2>1. CASE r = Restart
    BY <2>1, RestartMarks
  <2>2. CASE r # Restart
    <3>1. PICK s \in {"SELECTING", "REQUESTING"} : r = Ask(s)
      BY <2>2
    <3>2. s \in States /\ s \notin Holding
      BY Calm, Zenon DEF Holding
    <3>. QED BY <3>1, <3>2, AskMarks, PushedTypes
  <2>. QED BY <2>1, <2>2
<1>4. \/ \E r \in {Ask("SELECTING"), Ask("REQUESTING"), Restart} : mem.state \in Waiting /\ Instead(t, r)
      \/ Instead(t, << >>)
  BY DEF Timeout, Waiting
<1>5. PICK r \in Seq(Todos) : /\ Instead(t, r) /\ ~Has(r, ToHold)
                              /\ mem.state \notin Waiting => r = << >>
  <2>1. << >> \in Seq(Todos) /\ ~Has(<< >>, ToHold)
    BY Short
  <2>. QED BY <1>3, <1>4, <2>1
<1>. QED BY <1>1, <1>2, <1>5, WordAsking

\* As T1 is no more than what is left of the lease, it ends first.
LEMMA AskingTicks ==
  ASSUME TypeInv, Awake, NEW w \in Driver, Worker(w), Asking(w), NEW t \in Driver, TickT2(t) \/ TickT1(t)
  PROVE  Asking(w)'
<1>0. /\ "t2_rebind_time" \in Counter \ {"request_timeout", "t0_timeout"}
      /\ "t1_renew_time" \in Counter \ {"request_timeout", "t0_timeout"}
      /\ 0 \in Number /\ "t2" \in Words \ {"bind"} /\ "t1" \in Words \ {"bind"}
      /\ "t1" \in Words \ {"bind", "release", "start", "timeout"}
      /\ \A c \in {"t1", "rebind", "renew"} : c \in Words \ {"bind", "release"} /\ c # "timeout" /\ c # "start"
  BY CountersIn, Bounds, Calm, Zenon
<1>1. mem' = mem /\ granted' = granted /\ asked' = asked
  BY DEF TickT2, TickT1, history
<1>2. CASE TickT2(t)
  <2>. DEFINE n == mem.t2_rebind_time - 1
  <2>1. At(t, "t2")
    BY <1>2 DEF TickT2
  <2>2. \/ Instead(t, <<<<"t1">>>>)
        \/ Instead(t, <<Set("t2_rebind_time", 0), <<"rebind">>>>)
        \/ n \in Number /\ Instead(t, <<Set("t2_rebind_time", n), <<"t1">>>>)
    BY <1>2, TickT2Moves
  <2>. HIDE DEF n
  <2>3. PICK r \in Seq(Todos) : /\ Instead(t, r) /\ ~Has(r, Frees) /\ ~Has(r, ToHold)
                                /\ \/ r = <<<<"t1">>>> \/ Has(r, Extend)
                                   \/ \E v \in Number : r = <<Set("t2_rebind_time", v), <<"t1">>>>
    <3>1. CASE Instead(t, <<<<"t1">>>>)
      BY <1>0, <3>1, OneMarks, Zenon
    <3>2. CASE Instead(t, <<Set("t2_rebind_time", 0), <<"rebind">>>>)
      BY <1>0, <3>2, StoreMarks, Zenon
    <3>3. CASE n \in Number /\ Instead(t, <<Set("t2_rebind_time", n), <<"t1">>>>)
      BY <1>0, <3>3, StoreMarks, Zenon
    <3>. QED BY <2>2, <3>1, <3>2, <3>3
  <2>4. Ahead(mem, granted) => \/ r = <<<<"t1">>>>
                               \/ Counting(r, mem, granted) \/ Has(r, Extend)
    BY <2>3, Zenon DEF Counting
  <2>. QED BY <1>0, <1>1, <2>1, <2>3, <2>4, WordAsking
<1>3. CASE TickT1(t)
  <2>. DEFINE n == mem.t1_renew_time - 1
  <2>1. At(t, "t1")
    BY <1>3 DEF TickT1
  <2>2. \/ mem.t1_renew_time = 0 /\ Instead(t, << >>)
        \/ mem.t1_renew_time = 1 /\ Instead(t, <<Set("t1_renew_time", 0), <<"renew">>>>)
        \/ n \in Number \ {0} /\ Instead(t, <<Set("t1_renew_time", n)>>)
    BY <1>3, TickT1Moves
  <2>3. n \in Number \ {0} => mem.t1_renew_time > 1
    <3>1. mem.t1_renew_time \in Number
      BY Numbers
    <3>. QED BY <3>1, Bounds, SMT DEF Number
  <2>4. mem.t1_renew_time = 0 => ~Ahead(mem, granted)
    BY SMT DEF Ahead
  <2>5. PICK r \in Seq(Todos) : /\ Instead(t, r) /\ ~Has(r, Frees) /\ ~Has(r, ToHold)
                                /\ \/ mem.t1_renew_time = 0 \/ Has(r, Extend)
                                   \/ r = <<Set("t1_renew_time", n)>> /\ mem.t1_renew_time > 1
    <3>. HIDE DEF n
    <3>1. CASE mem.t1_renew_time = 0 /\ Instead(t, << >>)
      BY <3>1, Short, Zenon
    <3>2. CASE mem.t1_renew_time = 1 /\ Instead(t, <<Set("t1_renew_time", 0), <<"renew">>>>)
      BY <1>0, <3>2, StoreMarks, Zenon
    <3>3. CASE n \in Number \ {0} /\ Instead(t, <<Set("t1_renew_time", n)>>)
      BY <1>0, <2>3, <3>3, StoreMarks, Zenon
    <3>. QED BY <2>2, <3>1, <3>2, <3>3
  <2>6. Ahead(mem, granted) => Counting(r, mem, granted) \/ Has(r, Extend)
    BY <2>4, <2>5, Zenon DEF Counting
  <2>. QED BY <1>0, <1>1, <2>1, <2>5, <2>6, WordAsking
<1>. QED BY <1>2, <1>3

\* dhcp_t1_timeout and dhcp_t2_timeout ask.
LEMMA AskingExtend ==
  ASSUME TypeInv, Awake, NEW w \in Driver, Worker(w), Asking(w), NEW t \in Driver,
         T2Timeout(t) \/ T1Timeout(t) \/ NextT2(t) \/ NextT1(t)
  PROVE  Asking(w)'
<1>1. mem' = mem /\ granted' = granted /\ asked' = asked
  BY DEF T2Timeout, T1Timeout, NextT2, NextT1, NextTry, history
<1>2. << >> \in Seq(Todos) /\ ~Has(<< >>, Frees) /\ ~Has(<< >>, ToHold)
  BY Short
<1>3. ASSUME NEW s \in {"RENEWING", "REBINDING"}, NEW e \in {"next t2", "next t1"}
      PROVE  LET r == Ask(s) \o <<<<e>>>> IN r \in Seq(Todos) /\ ~Has(r, Frees) /\ Has(r, Pleas)
  <2>1. s \in States /\ e \in Words
    BY Calm
  <2>2. Ask(s) \o <<<<e>>>> \in Seq(Todos)
    BY <2>1, PushedTypes
  <2>. QED BY <2>1, <2>2, AskMarks
<1>4. ASSUME NEW f \in {"t2_rebind_time", "t1_renew_time"}, NEW v \in Number
      PROVE  <<Set(f, v)>> \in Seq(Todos) /\ ~Has(<<Set(f, v)>>, Frees) /\ ~Has(<<Set(f, v)>>, ToHold)
  <2>1. f \in Counter \ {"request_timeout", "t0_timeout"}
    BY CountersIn, Zenon
  <2>. QED BY <2>1, StoreMarks
<1>5. CASE T2Timeout(t)
  <2>1. /\ At(t, "rebind") /\ "rebind" \in Words \ {"bind"}
        /\ Instead(t, IF mem.state \in Holding \union {"REQUESTING"}
                      THEN Ask("REBINDING") \o <<<<"next t2">>>> ELSE << >>)
    BY <1>5, Calm DEF T2Timeout
  <2>2. PICK r \in Seq(Todos) : /\ Instead(t, r) /\ ~Has(r, Frees) /\ (Has(r, ToHold) => Has(r, Pleas))
                                /\ mem.state = "BOUND" => Has(r, Pleas)
    <3>1. CASE mem.state \in Holding \union {"REQUESTING"}
      BY <1>3, <2>1, <3>1
    <3>2. CASE mem.state \notin Holding \union {"REQUESTING"}
      <4>1. mem.state # "BOUND"
        BY <3>2 DEF Holding
      <4>. QED BY <1>2, <2>1, <3>2, <4>1
    <3>. QED BY <3>1, <3>2
  <2>. QED BY <1>1, <2>1, <2>2, WordAsking
<1>6. CASE T1Timeout(t)
  <2>1. /\ At(t, "renew") /\ "renew" \in Words \ {"bind"}
        /\ Instead(t, IF mem.state \in {"REQUESTING", "BOUND", "RENEWING"}
                      THEN Ask("RENEWING") \o <<<<"next t1">>>> ELSE << >>)
    BY <1>6, Calm DEF T1Timeout
  <2>2. PICK r \in Seq(Todos) : /\ Instead(t, r) /\ ~Has(r, Frees) /\ (Has(r, ToHold) => Has(r, Pleas))
                                /\ mem.state = "BOUND" => Has(r, Pleas)
    <3>1. CASE mem.state \in {"REQUESTING", "BOUND", "RENEWING"}
      BY <1>3, <2>1, <3>1
    <3>2. CASE mem.state \notin {"REQUESTING", "BOUND", "RENEWING"}
      BY <1>2, <2>1, <3>2
    <3>. QED BY <3>1, <3>2
  <2>. QED BY <1>1, <2>1, <2>2, WordAsking
<1>7. CASE NextT2(t)
  <2>. DEFINE half == (mem["t0_timeout"] - mem.lease_used) \div 2
  <2>1. /\ At(t, "next t2") /\ "next t2" \in Words \ {"bind"}
        /\ Instead(t, IF half >= 1 THEN <<Set("t2_rebind_time", half)>> ELSE << >>)
    BY <1>7, Calm DEF NextT2, NextTry
  <2>2. half >= 1 => half \in Number
    BY Numbers, Bounds
  <2>. HIDE DEF half
  <2>3. PICK r \in Seq(Todos) : Instead(t, r) /\ ~Has(r, Frees) /\ ~Has(r, ToHold)
    BY <1>2, <1>4, <2>1, <2>2
  <2>. QED BY <1>1, <2>1, <2>3, WordAsking
<1>8. CASE NextT1(t)
  <2>. DEFINE half == (mem["t2_timeout"] - mem.lease_used) \div 2
  <2>1. /\ At(t, "next t1") /\ "next t1" \in Words \ {"bind"}
        /\ Instead(t, IF half >= 1 THEN <<Set("t1_renew_time", half)>> ELSE << >>)
    BY <1>8, Calm DEF NextT1, NextTry
  <2>2. half >= 1 => half \in Number
    BY Numbers, Bounds
  <2>. HIDE DEF half
  <2>3. PICK r \in Seq(Todos) : Instead(t, r) /\ ~Has(r, Frees) /\ ~Has(r, ToHold)
    BY <1>2, <1>4, <2>1, <2>2
  <2>. QED BY <1>1, <2>1, <2>3, WordAsking
<1>. QED BY <1>5, <1>6, <1>7, <1>8

\* dhcp_start leaves no lease.
LEMMA AskingStart ==
  ASSUME TypeInv, Awake, NEW w \in Driver, Worker(w), Asking(w), NEW t \in Driver, StartAgain(t)
  PROVE  Asking(w)'
<1>. DEFINE x == Head(todo[t])
            u == Tail(todo[t])
            r == Ask("SELECTING")
            p == r \o u
<1>1. At(t, "start") /\ mem' = Cleared(mem.addr) /\ Instead(t, r) /\ granted' = granted /\ asked' = asked
  BY DEF StartAgain, history
<1>2. "start" \in Words \ {"bind"} /\ "SELECTING" \in States /\ "SELECTING" \notin Holding
  BY WordsIn, Calm, Zenon DEF Holding
<1>3. t = w /\ todo[t] # << >> /\ todo[t] \in Seq(Todos) /\ x = <<"start">>
  BY <1>1, <1>2, WordHead
<1>4. r \in Seq(Todos) /\ ~Has(r, ToHold)
  BY <1>2, PushedTypes, AskMarks
<1>5. u \in Seq(Todos) /\ todo'[w] = p
  BY <1>1, <1>3, <1>4, Turn
<1>6. \A A : Has(todo[w], A) <=> x \in A \/ Has(u, A)
  BY <1>3, FirstStep
<1>7. mem'.state = "OFF"
  <2>1. mem' = [f \in Fields |-> IF f = "state" THEN "OFF" ELSE IF f = "addr" THEN mem.addr ELSE 0]
    BY <1>1 DEF Cleared
  <2>. QED BY <2>1, CountersIn, Zenon
<1>8. "OFF" \notin Holding
  BY StatesIn
<1>. HIDE DEF x, u, r
<1>9. \A A : Has(p, A) <=> Has(r, A) \/ Has(u, A)
  BY <1>4, <1>5, HasCat
<1>. HIDE DEF p
<1>10. ~Has(todo[w], Busy)
  <2>1. x \in Ends
    BY <1>2, <1>3, MarksWord
  <2>. QED BY <1>6, <2>1 DEF Worker
<1>11. ~Has(todo[w], ToHold)
  BY <1>10, BusyIn, OnlyIn
<1>12. ~Has(todo'[w], ToHold)
  BY <1>4, <1>5, <1>6, <1>9, <1>11
<1>. QED BY <1>7, <1>8, <1>12 DEF Asking

\* Counting with other fields that are what they were.
LEMMA CountedStill ==
  ASSUME NEW q, NEW m, NEW n, NEW g, Counted(q, m, g),
         n.t0_timeout = m.t0_timeout, n.lease_used = m.lease_used,
         n.t1_renew_time = m.t1_renew_time, n.state = m.state
  PROVE  Counted(q, n, g)
BY Zenon DEF Counted, Counting, Met, Ahead

\* A store that counting goes on with.
LEMMA CountingStore ==
  ASSUME NEW q \in Seq(Todos), q # << >>, NEW x \in Todos, x = Head(q), NEW u, u = Tail(q),
         x[1] = "set", NEW m, NEW g, Counting(q, m, g)
  PROVE  \/ x \in Reply /\ Only(u, Reply \union LookOn) /\ Met(m, g)
         \/ x = Set("lease_used", m.lease_used + 1) /\ u = <<<<"t2">>>> /\ Met(m, g)
         \/ x[2] = "t2_rebind_time" /\ u = <<<<"t1">>>> /\ Ahead(m, g)
         \/ x = Set("t1_renew_time", m.t1_renew_time - 1) /\ u = << >> /\ Ahead(m, g) /\ m.t1_renew_time > 1
<1>1. /\ \A a : q = <<a>> => x = a /\ u = << >>
      /\ \A a, b : q = <<a, b>> => x = a /\ u = <<b>>
  BY Heads, Zenon
<1>2. Only(q, Reply \union LookOn) => x \in Reply \union LookOn /\ Only(u, Reply \union LookOn)
  BY FirstStep
<1>3. x # <<"t2">> /\ x # <<"t1">>
  BY Shapes
<1>4. x \notin LookOn
  BY Means, Zenon
<1>5. \A v : x = Set("t2_rebind_time", v) => x[2] = "t2_rebind_time"
  BY Parts
<1>. QED BY <1>1, <1>2, <1>3, <1>4, <1>5, Zenon DEF Counting

\* w stores a field while it counts.
LEMMA CountedStore ==
  ASSUME TypeInv, Awake, NEW w \in Driver, Worker(w), Store(w), Head(todo[w])[2] # "state",
         Counted(todo[w], mem, granted)
  PROVE  Counted(Tail(todo[w]), mem', granted)
<1>. DEFINE q == todo[w]
            x == Head(todo[w])
            u == Tail(todo[w])
            f == x[2]
            v == x[3]
            g == granted
<1>1. At(w, "set") /\ mem' = [mem EXCEPT ![x[2]] = x[3]]
  BY DEF Store
<1>2. q # << >> /\ q \in Seq(Todos) /\ x \in Todos /\ x[1] = "set"
  BY <1>1, AtStep
<1>3. /\ u \in Seq(Todos)
      /\ \A A : Has(q, A) <=> x \in A \/ Has(u, A)
  BY <1>2, FirstStep
<1>4. mem.t0_timeout = g /\ g >= 2 /\ mem.state = "BOUND"
  BY DEF Counted
<1>5. Counting(q, mem, g) \/ (Has(q, Extend) /\ ~Has(q, Frees))
  BY DEF Counted
<1>. HIDE DEF x, u, q
<1>6. /\ \A k \in Fields : mem'[k] = IF k = f THEN v ELSE mem[k]
      /\ x = Set(f, v)
      /\ \/ f \in Counter /\ v \in Number
         \/ f = "state" /\ v \in States
         \/ f = "addr" /\ v \in BOOLEAN
  BY <1>1, <1>2, Stores, Storable
<1>7. \/ f \in Counter /\ v \in Number
      \/ f = "addr"
  BY <1>6 DEF x, f
<1>8. mem'.state = "BOUND"
  <2>1. f # "state"
    BY DEF x
  <2>. QED BY <1>4, <1>6, <2>1, CountersIn, Zenon
<1>9. \A k \in {"t0_timeout", "lease_used", "t1_renew_time"} : mem'[k] = IF k = f THEN v ELSE mem[k]
  BY <1>6, CountersIn, Zenon
<1>10. x \in Reply => f # "t0_timeout" /\ f # "lease_used" /\ f # "t1_renew_time"
  <2>1. ASSUME f \in Counter PROVE x \in Reply <=> f = "request_timeout"
    <3>1. v \in Number
      BY <1>7, <2>1, CountersIn, Zenon
    <3>. QED BY <1>6, <2>1, <3>1, MarksSet
  <2>. QED BY <1>7, <2>1
<1>. HIDE DEF f, v
<1>11. CASE Has(q, Extend) /\ ~Has(q, Frees)
  <2>1. f # "t0_timeout"
    <3> SUFFICES ASSUME f = "t0_timeout" PROVE FALSE
      OBVIOUS
    <3>1. x \in Leaving
      <4>1. x[2] = "t0_timeout"
        BY DEF f
      <4>. QED BY <1>2, <4>1, Means, Zenon
    <3>2. Has(q, Leaving)
      BY <1>3, <3>1
    <3>3. Has(todo[w], Busy)
      BY <1>11, BusyIn, OnlyIn DEF q
    <3>. QED BY <3>2, <3>3, BusyAlone DEF q
  <2>2. x \notin Extend
    BY <1>2, Means, Zenon
  <2>3. Has(u, Extend) /\ ~Has(u, Frees)
    BY <1>3, <1>11, <2>2
  <2>4. mem'.t0_timeout = g
    BY <1>4, <1>9, <2>1
  <2>5. Counted(u, mem', g)
    BY <1>4, <1>8, <2>3, <2>4 DEF Counted
  <2>. QED BY <2>5 DEF u
<1>12. CASE Counting(q, mem, g)
  <2>1. \/ x \in Reply /\ Only(u, Reply \union LookOn) /\ Met(mem, g)
        \/ x = Set("lease_used", mem.lease_used + 1) /\ u = <<<<"t2">>>> /\ Met(mem, g)
        \/ x[2] = "t2_rebind_time" /\ u = <<<<"t1">>>> /\ Ahead(mem, g)
        \/ x = Set("t1_renew_time", mem.t1_renew_time - 1) /\ u = << >> /\ Ahead(mem, g) /\ mem.t1_renew_time > 1
    BY <1>2, <1>12, CountingStore DEF q, x, u
  <2>2. mem.lease_used \in Int /\ mem.t1_renew_time \in Int /\ g \in Int
    <3>1. mem.lease_used \in Number /\ mem.t1_renew_time \in Number /\ granted \in Number
      BY Numbers DEF TypeInv
    <3>. QED BY <3>1, Bounds
  <2>3. CASE x \in Reply /\ Only(u, Reply \union LookOn) /\ Met(mem, g)
    <3>1. /\ mem'.t0_timeout = mem.t0_timeout /\ mem'.lease_used = mem.lease_used
          /\ mem'.t1_renew_time = mem.t1_renew_time
      BY <1>9, <1>10, <2>3
    <3>2. Counted(u, mem, g)
      BY <1>4, <2>3, Zenon DEF Counted, Counting
    <3>3. Counted(u, mem', g)
      BY <1>4, <1>8, <3>1, <3>2, CountedStill
    <3>. QED BY <3>3 DEF u
  <2>4. CASE x = Set("lease_used", mem.lease_used + 1) /\ u = <<<<"t2">>>> /\ Met(mem, g)
    <3>1. f = "lease_used" /\ v = mem.lease_used + 1
      BY <2>4, Parts DEF f, v
    <3>2. mem'.t0_timeout = g /\ mem'.lease_used = mem.lease_used + 1 /\ mem'.t1_renew_time = mem.t1_renew_time
      BY <1>4, <1>9, <3>1
    <3>3. Ahead(mem', g)
      BY <2>2, <2>4, <3>2, SMT DEF Ahead, Met
    <3>4. Counted(u, mem', g)
      BY <1>4, <1>8, <2>4, <3>2, <3>3, Zenon DEF Counted, Counting
    <3>. QED BY <3>4 DEF u
  <2>5. CASE x[2] = "t2_rebind_time" /\ u = <<<<"t1">>>> /\ Ahead(mem, g)
    <3>1. f = "t2_rebind_time"
      BY <2>5 DEF f
    <3>2. /\ mem'.t0_timeout = mem.t0_timeout /\ mem'.lease_used = mem.lease_used
          /\ mem'.t1_renew_time = mem.t1_renew_time
      BY <1>9, <3>1
    <3>3. Counted(u, mem, g)
      BY <1>4, <2>5, Zenon DEF Counted, Counting
    <3>4. Counted(u, mem', g)
      BY <1>4, <1>8, <3>2, <3>3, CountedStill
    <3>. QED BY <3>4 DEF u
  <2>6. CASE x = Set("t1_renew_time", mem.t1_renew_time - 1) /\ u = << >> /\ Ahead(mem, g) /\ mem.t1_renew_time > 1
    <3>1. f = "t1_renew_time" /\ v = mem.t1_renew_time - 1
      BY <2>6, Parts DEF f, v
    <3>2. mem'.t0_timeout = g /\ mem'.lease_used = mem.lease_used /\ mem'.t1_renew_time = mem.t1_renew_time - 1
      BY <1>4, <1>9, <3>1
    <3>3. Met(mem', g)
      BY <2>2, <2>6, <3>2, SMT DEF Ahead, Met
    <3>4. Only(u, Reply \union LookOn)
      BY <2>6, Short, Zenon
    <3>5. Counted(u, mem', g)
      BY <1>4, <1>8, <3>2, <3>3, <3>4, Zenon DEF Counted, Counting
    <3>. QED BY <3>5 DEF u
  <2>. QED BY <2>1, <2>3, <2>4, <2>5, <2>6
<1>. QED BY <1>5, <1>11, <1>12

\* A store keeps the count, or ends it with the lease.
LEMMA AskingStore ==
  ASSUME TypeInv, Awake, NEW w \in Driver, Worker(w), Asking(w), NEW t \in Driver, Store(t)
  PROVE  Asking(w)'
<1>. DEFINE x == Head(todo[t])
            u == Tail(todo[t])
            f == x[2]
            v == x[3]
<1>1. /\ At(t, "set") /\ mem' = [mem EXCEPT ![x[2]] = x[3]] /\ Instead(t, << >>)
      /\ granted' = granted /\ asked' = asked
  BY DEF Store, history
<1>2. todo[t] # << >> /\ todo[t] \in Seq(Todos) /\ x \in Todos /\ x[1] = "set"
  BY <1>1, AtStep
<1>3. /\ u \in Seq(Todos)
      /\ \A A : Has(todo[t], A) <=> x \in A \/ Has(u, A)
  BY <1>2, FirstStep
<1>4. todo'[t] = u /\ \A o \in Driver \ {t} : todo'[o] = todo[o]
  <2>1. << >> \in Seq(Todos) /\ << >> \o u = u
    BY <1>3, Short, ConcatEmptySeq
  <2>. QED BY <1>1, <1>2, <2>1, Turn
<1>5. t # w => x \in Reply
  BY <1>2, ReplyHead
<1>. HIDE DEF x, u
<1>6. /\ \A k \in Fields : mem'[k] = IF k = f THEN v ELSE mem[k]
      /\ x = Set(f, v)
      /\ \/ f \in Counter /\ v \in Number
         \/ f = "state" /\ v \in States
         \/ f = "addr" /\ v \in BOOLEAN
  BY <1>1, <1>2, Stores, Storable
<1>7. x \notin Pleas
  BY <1>2, Means, Zenon
<1>8. \A A : /\ Has(todo'[w], A) => Has(todo[w], A)
             /\ Has(todo[w], A) /\ x \notin A => Has(todo'[w], A)
  BY <1>3, <1>4, Zenon
<1>9. f # "state" => mem'.state = mem.state
  BY <1>6, CountersIn, Zenon
<1>10. ASSUME ~Has(todo[w], ToHold), mem.state \in Holding => Counted(todo[w], mem, granted),
              mem'.state \in Holding
       PROVE  Counted(todo'[w], mem', granted)
  <2>1. f # "state"
    <3> SUFFICES ASSUME f = "state" PROVE FALSE
      OBVIOUS
    <3>1. v \in States /\ mem'.state = v
      BY <1>6, CountersIn, Zenon
    <3>2. (x \in ToHold <=> v \in Holding) /\ (x \in Reply <=> v \in Waiting)
      BY <1>6, <3>1, MarksState
    <3>3. v \notin Waiting
      BY <1>10, <3>1 DEF Waiting, Holding
    <3>4. t = w /\ x \in ToHold
      BY <1>5, <1>10, <3>1, <3>2, <3>3
    <3>. QED BY <1>3, <1>10, <3>4
  <2>2. Counted(todo[w], mem, granted)
    BY <1>9, <1>10, <2>1
  <2>3. CASE t = w
    BY <1>4, <2>1, <2>2, <2>3, CountedStore DEF x, u
  <2>4. CASE t # w
    <3>1. f # "t0_timeout" /\ f # "lease_used" /\ f # "t1_renew_time"
      <4>1. ASSUME f \in Counter PROVE f = "request_timeout"
        <5>1. v \in Number
          BY <1>6, <4>1, CountersIn, Zenon
        <5>2. x \in Reply <=> f = "request_timeout"
          BY <1>6, <4>1, <5>1, MarksSet
        <5>. QED BY <1>5, <2>4, <5>2
      <4>. QED BY <4>1, CountersIn, Zenon
    <3>2. /\ mem'.t0_timeout = mem.t0_timeout /\ mem'.lease_used = mem.lease_used
          /\ mem'.t1_renew_time = mem.t1_renew_time /\ mem'.state = mem.state
      BY <1>6, <1>9, <2>1, <3>1, CountersIn, Zenon
    <3>3. Counted(todo[w], mem', granted)
      BY <2>2, <3>2, CountedStill
    <3>4. todo'[w] = todo[w]
      BY <1>4, <2>4
    <3>. QED BY <3>3, <3>4
  <2>. QED BY <2>3, <2>4
<1> SUFFICES ASSUME ~asked, granted # 1
             PROVE  \/ Has(todo'[w], Pleas) /\ ~Has(todo'[w], Frees)
                    \/ ~Has(todo'[w], ToHold) /\ (mem'.state \in Holding => Counted(todo'[w], mem', granted))
  BY <1>1, Zenon DEF Asking
<1>11. \/ Has(todo[w], Pleas) /\ ~Has(todo[w], Frees)
       \/ ~Has(todo[w], ToHold) /\ (mem.state \in Holding => Counted(todo[w], mem, granted))
  BY Zenon DEF Asking
<1>12. CASE Has(todo[w], Pleas) /\ ~Has(todo[w], Frees)
  BY <1>7, <1>8, <1>12
<1>13. CASE ~Has(todo[w], ToHold) /\ (mem.state \in Holding => Counted(todo[w], mem, granted))
  BY <1>8, <1>10, <1>13
<1>. QED BY <1>11, <1>12, <1>13

\* With w idle, t begins r.
LEMMA BeginAsking ==
  ASSUME NEW w \in Driver, Asking(w), todo[w] = << >>, NEW t \in Driver, NEW r, todo'[t] = r,
         mem' = mem, granted' = granted, asked' = asked,
         ~Has(r, ToHold),
         mem.t0_timeout = granted /\ granted >= 2 /\ mem.state = "BOUND" /\ Met(mem, granted)
           => Counting(r, mem, granted)
  PROVE  Asking(t)'
<1> SUFFICES ASSUME ~asked, granted # 1, mem.state \in Holding
             PROVE  Counted(r, mem, granted)
  BY Zenon DEF Asking
<1>1. \A A : ~Has(todo[w], A)
  BY Short
<1>2. Counted(todo[w], mem, granted)
  BY <1>1, Zenon DEF Asking
<1>3. mem.t0_timeout = granted /\ granted >= 2 /\ mem.state = "BOUND" /\ Counting(todo[w], mem, granted)
  BY <1>1, <1>2 DEF Counted
<1>4. \A a, b : << >> # <<a>> /\ << >> # <<a, b>>
  BY SMT
<1>5. Met(mem, granted)
  BY <1>3, <1>4, Zenon DEF Counting
<1>. QED BY <1>3, <1>5 DEF Counted

\* dhcp_fine_tmr does not count.
LEMMA AskingFine ==
  ASSUME TypeInv, Awake, NEW w \in Driver, Worker(w), Asking(w), NEW t \in Driver, FineTick(t), overlaps' = {}
  PROVE  Asking(t)'
<1>1. mem' = mem /\ granted' = granted /\ asked' = asked /\ Idle(t)
  BY DEF FineTick
<1>2. todo[w] = << >>
  BY AloneTick
<1>0. 0 \in Number /\ "request_timeout" \in Counter /\ "timeout" \in Words \ {"bind"}
  BY Bounds, CountersIn, WordsIn
<1>3. ASSUME NEW v \in Number
      PROVE  Set("request_timeout", v) \in Reply /\ Set("request_timeout", v) \in Todos /\ Set("request_timeout", v) \notin ToHold
  BY <1>0, MarksSet
<1>4. PICK r \in Seq(Todos) : Push(t, r) /\ ~Has(r, ToHold) /\ Only(r, Reply \union LookOn)
  <2>1. CASE Push(t, <<Set("request_timeout", 0), <<"timeout">>>>)
    <3>. DEFINE a == Set("request_timeout", 0)
                b == <<"timeout">>
    <3>1. a \in Todos /\ a \in Reply /\ a \notin ToHold
      BY <1>0, <1>3
    <3>2. b \in Todos /\ b \in LookOn /\ b \notin ToHold
      BY <1>0, MarksWord
    <3>3. Push(t, <<a, b>>)
      BY <2>1
    <3>. HIDE DEF a, b
    <3>4. <<a, b>> \in Seq(Todos) /\ ~Has(<<a, b>>, ToHold) /\ Only(<<a, b>>, Reply \union LookOn)
      BY <3>1, <3>2, Short
    <3>. QED BY <3>3, <3>4, Zenon
  <2>2. CASE \E v \in Number \ {0} : Push(t, <<Set("request_timeout", v)>>)
    <3>1. PICK v \in Number \ {0} : Push(t, <<Set("request_timeout", v)>>)
      BY <2>2
    <3>. DEFINE a == Set("request_timeout", v)
    <3>2. a \in Todos /\ a \in Reply /\ a \notin ToHold
      BY <1>3
    <3>3. Push(t, <<a>>)
      BY <3>1
    <3>. HIDE DEF a
    <3>4. <<a>> \in Seq(Todos) /\ ~Has(<<a>>, ToHold) /\ Only(<<a>>, Reply \union LookOn)
      BY <3>2, Short
    <3>. QED BY <3>3, <3>4, Zenon
  <2>. QED BY <2>1, <2>2, FineMoves
<1>5. todo'[t] = r
  BY <1>1, <1>4, Beginning
<1>6. Met(mem, granted) => Counting(r, mem, granted)
  BY <1>4, Zenon DEF Counting
<1>. QED BY <1>1, <1>2, <1>4, <1>5, <1>6, BeginAsking

\* When dhcp_coarse_tmr counts a minute, lease_used comes to T1 at most, and
\* T1 is less than a lease of two minutes or more: the lease is not over.
LEMMA AskingCoarse ==
  ASSUME TypeInv, Awake, NEW w \in Driver, Worker(w), Asking(w), NEW t \in Driver, CoarseTick(t), overlaps' = {}
  PROVE  Asking(t)'
<1>. DEFINE used == (mem.lease_used + 1) % Width
            s == <<Set("lease_used", used)>>
            Near == mem.t0_timeout = granted /\ granted >= 2 /\ mem.state = "BOUND" /\ Met(mem, granted)
<1>1. mem' = mem /\ granted' = granted /\ asked' = asked /\ Idle(t)
  BY DEF CoarseTick
<1>2. todo[w] = << >>
  BY AloneTick
<1>3. used \in Number
  BY Numbers, Bounds
<1>4. \/ mem.state = "OFF" /\ Push(t, << >>)
      \/ mem.t0_timeout = 0 /\ Push(t, <<<<"t2">>>>)
      \/ used = mem.t0_timeout /\ Push(t, s \o Restart)
      \/ Push(t, <<Set("lease_used", used), <<"t2">>>>)
  BY CoarseMoves, Zenon
<1>5. Near => used = mem.lease_used + 1 /\ used # mem.t0_timeout /\ mem.t0_timeout # 0
  <2> SUFFICES ASSUME Near PROVE used = mem.lease_used + 1 /\ used # mem.t0_timeout /\ mem.t0_timeout # 0
    OBVIOUS
  <2>1. mem.lease_used \in Number /\ mem.t1_renew_time \in Number /\ granted \in Number
    BY Numbers DEF TypeInv
  <2>2. (granted + 1) \div 2 < granted
    BY <2>1, Halves
  <2>3. /\ mem.lease_used \in Int /\ mem.lease_used >= 0 /\ mem.t1_renew_time \in Int
        /\ granted \in Int /\ granted < Width
    BY <2>1, Bounds
  <2>4. mem.lease_used + mem.t1_renew_time = (granted + 1) \div 2 /\ mem.t1_renew_time > 0
    BY DEF Met
  <2>5. mem.lease_used + 1 < granted
    <3>. DEFINE h == (granted + 1) \div 2
    <3>1. h \in Int
      BY <2>3, SMT
    <3>2. h < granted /\ mem.lease_used + mem.t1_renew_time = h
      BY <2>2, <2>4
    <3>. HIDE DEF h
    <3>. QED BY <2>3, <2>4, <3>1, <3>2, SMT
  <2>6. Width \in Int /\ Width > 0
    BY TimersAssumption, SMT
  <2>7. used = mem.lease_used + 1
    BY <2>3, <2>5, <2>6, SMT
  <2>. QED BY <2>3, <2>5, <2>7, SMT
<1>. HIDE DEF used
<1>6. /\ "lease_used" \in Counter \ {"request_timeout", "t0_timeout"}
      /\ "t2" \in Words \ {"bind", "release", "start", "timeout"}
      /\ "t2" \in Words \ {"bind", "release"}
  BY CountersIn, Calm, Zenon
<1>7. PICK r \in Seq(Todos) : /\ Push(t, r) /\ ~Has(r, ToHold)
                              /\ Near => r = <<Set("lease_used", used), <<"t2">>>>
  <2>1. CASE mem.state = "OFF" /\ Push(t, << >>)
    BY <2>1, Short, Zenon
  <2>2. CASE mem.t0_timeout = 0 /\ Push(t, <<<<"t2">>>>)
    <3>1. <<<<"t2">>>> \in Seq(Todos) /\ ~Has(<<<<"t2">>>>, ToHold)
      BY <1>6, OneMarks
    <3>2. ~Near
      BY <1>5, <2>2
    <3>. HIDE DEF Near
    <3>. QED BY <2>2, <3>1, <3>2, Zenon
  <2>3. CASE used = mem.t0_timeout /\ Push(t, s \o Restart)
    <3>1. s \in Seq(Todos) /\ ~Has(s, ToHold)
      BY <1>3, <1>6, StoreMarks
    <3>2. ~Near
      BY <1>5, <2>3
    <3>. HIDE DEF s, Near
    <3>3. ~Has(s \o Restart, ToHold) /\ s \o Restart \in Seq(Todos)
      BY <3>1, RestartMarks, HasCat, Places
    <3>. QED BY <2>3, <3>2, <3>3, Zenon
  <2>4. CASE Push(t, <<Set("lease_used", used), <<"t2">>>>)
    <3>1. /\ <<Set("lease_used", used), <<"t2">>>> \in Seq(Todos)
          /\ ~Has(<<Set("lease_used", used), <<"t2">>>>, ToHold)
      BY <1>3, <1>6, StoreMarks
    <3>. QED BY <2>4, <3>1, Zenon
  <2>. QED BY <1>4, <2>1, <2>2, <2>3, <2>4
<1>8. todo'[t] = r
  BY <1>1, <1>7, Beginning
<1>9. Near => Counting(r, mem, granted)
  BY <1>5, <1>7, Zenon DEF Counting
<1>. QED BY <1>1, <1>2, <1>7, <1>8, <1>9, BeginAsking

\* An offer or a NAK has no steps into a state with a lease.
LEMMA AskingAnswers ==
  ASSUME TypeInv, Awake, NEW w \in Driver, Worker(w), Asking(w), HandleOffer \/ HandleNak
  PROVE  Asking(w)'
<1>0. "tcpip" \in Driver
  BY Threads
<1>1. mem' = mem /\ Idle("tcpip") /\ granted' = granted /\ asked' = asked
  BY DEF HandleOffer, HandleNak, history
<1>2. PICK r \in Seq(Todos) : Push("tcpip", r) /\ Only(r, Reply)
  <2>0. ASSUME NEW s \in Waiting
        PROVE  Ask(s) \in Seq(Todos) /\ Only(Ask(s), Reply)
    <3>1. s \in States
      BY StatesIn, Zenon DEF Waiting
    <3>. QED BY <3>1, PushedTypes, AskMarks
  <2>1. CASE HandleOffer
    <3>1. Push("tcpip", OfferSteps)
      BY <2>1 DEF HandleOffer, OfferSteps
    <3>. QED BY <3>1, OfferMarks
  <2>2. CASE HandleNak
    <3>1. Push("tcpip", NakSteps) /\ "SELECTING" \in Waiting
      BY <2>2 DEF HandleNak, NakSteps, Waiting
    <3>. DEFINE a == <<"set state", "BACKING_OFF">>
    <3>2. a \in Reply
      <4>1. "BACKING_OFF" \in States /\ "BACKING_OFF" \in Waiting
        BY StatesIn, Zenon DEF Waiting
      <4>. QED BY <4>1, MarksState
    <3>. HIDE DEF a
    <3>3. /\ NakSteps \in Seq(Todos)
          /\ \A A : Only(NakSteps, A) <=> a \in A /\ NoAddr \in A /\ Only(Ask("SELECTING"), A)
      BY NakSpelled, Zenon DEF a, NoAddr
    <3>4. Only(NakSteps, Reply)
      BY <2>0, <3>1, <3>2, <3>3, MarksAddr, Zenon
    <3>. QED BY <3>1, <3>3, <3>4
  <2>. QED BY <2>1, <2>2
<1>3. todo'["tcpip"] = r /\ \A o \in Driver \ {"tcpip"} : todo'[o] = todo[o]
  BY <1>0, <1>1, <1>2, Beginning
<1>4. CASE w = "tcpip"
  <2>1. Reply \intersect ToHold = {}
    <3> SUFFICES ASSUME NEW x \in Todos, x \in Reply, x \in ToHold PROVE FALSE
      BY DEF Reply
    <3>1. Waiting \intersect Holding = {}
      BY DEF Waiting, Holding
    <3>2. "state" # "request_timeout"
      OBVIOUS
    <3>3. x # NoAddr
      BY MarksAddr
    <3>. QED BY <3>1, <3>2, <3>3, Means, Zenon
  <2>2. ~Has(r, ToHold)
    BY <1>2, <2>1, OnlyIn
  <2>3. Only(r, Reply \union LookOn)
    BY <1>2, OnlyIn
  <2>4. Met(mem, granted) => Counting(r, mem, granted)
    BY <2>3, Zenon DEF Counting
  <2>5. todo[w] = << >> /\ todo'[w] = r
    BY <1>1, <1>3, <1>4 DEF Idle
  <2>. QED BY <1>1, <2>2, <2>4, <2>5, BeginAsking
<1>5. CASE w # "tcpip"
  <2>1. todo'[w] = todo[w]
    BY <1>3, <1>5
  <2>. QED BY <1>1, <2>1, OtherAsking
<1>. QED BY <1>4, <1>5

\* Every step that a thread takes keeps the invariant.
LEMMA SteadyStep ==
  ASSUME TypeInv, Awake, NEW w \in Driver, Worker(w), Asking(w), NEW t \in Driver, Step(t)
  PROVE  Awake' /\ Worker(w)' /\ Asking(w)'
<1>1. CASE Store(t)
  BY <1>1, SteadyStore, AskingStore
<1>2. CASE Compare(t)
  BY <1>2, SteadyCompare, AskingCompare
<1>3. CASE Send(t)
  BY <1>3, SteadySend, AskingSend
<1>4. CASE ReleaseAndStop(t)
  BY <1>4, SteadyRelease, AskingRelease
<1>5. CASE StartAgain(t)
  BY <1>5, SteadyStart, AskingStart
<1>6. CASE Timeout(t)
  BY <1>6, SteadyTimeout, AskingTimeout
<1>7. CASE TickT2(t) \/ TickT1(t)
  BY <1>7, SteadyTicks, AskingTicks
<1>8. CASE T2Timeout(t) \/ T1Timeout(t) \/ NextT2(t) \/ NextT1(t)
  BY <1>8, SteadyExtend, AskingExtend
<1>. QED BY <1>1, <1>2, <1>3, <1>4, <1>5, <1>6, <1>7, <1>8 DEF Step

\* When an ACK has been handled, all timers are set.
LEMMA LeasedSteady ==
  ASSUME TypeInv, Leased
  PROVE  Awake /\ Worker("net") /\ Asking("net")
<1>1. (\A t \in Driver : todo[t] = << >>) /\ todo["net"] = << >>
  BY Threads DEF Leased
<1>2. Tame(<< >>) /\ \A A : Only(<< >>, A) /\ ~Has(<< >>, A)
  BY TamePushed, Short
<1>3. mem.state = "BOUND" /\ mem.t0_timeout = granted /\ granted # 0
      /\ mem.lease_used = 0 /\ mem.t1_renew_time = (granted + 1) \div 2
  BY DEF Leased, First
<1>4. "BOUND" \notin Waiting /\ "BOUND" # "OFF"
  BY DEF Waiting
<1>5. Awake
  BY <1>1, <1>2, <1>3, <1>4, Zenon DEF Awake
<1>6. Worker("net")
  <2>1. (\A o \in Driver \ {"net"} : Only(todo[o], Reply)) /\ \A A : ~Has(todo["net"], A)
    BY <1>1, <1>2, Zenon
  <2>2. mem.t0_timeout # 0
    BY <1>3
  <2>. QED BY <2>1, <2>2, Zenon DEF Worker
<1>7. granted \in Number
  BY DEF TypeInv
<1>8. ASSUME granted # 1 PROVE Counted(<< >>, mem, granted)
  <2>1. granted \in Int /\ granted >= 2
    BY <1>3, <1>7, <1>8, Bounds, SMT DEF Number
  <2>2. (granted + 1) \div 2 >= 1
    BY <1>3, <1>7, Halves
  <2>3. Met(mem, granted)
    <3>. DEFINE h == (granted + 1) \div 2
    <3>1. h \in Int /\ h >= 1
      BY <2>1, <2>2, SMT
    <3>2. mem.t1_renew_time = h
      BY <1>3
    <3>3. Met(mem, granted) <=> mem.lease_used + mem.t1_renew_time = h /\ mem.t1_renew_time > 0
      BY Zenon DEF Met
    <3>. HIDE DEF h
    <3>. QED BY <1>3, <3>1, <3>2, <3>3, SMT
  <2>. QED BY <1>2, <1>3, <2>1, <2>3, Zenon DEF Counted, Counting
<1>9. Asking("net")
  <2>1. ~Has(todo["net"], ToHold)
    BY <1>1, <1>2, Zenon
  <2>2. granted # 1 => Counted(todo["net"], mem, granted)
    BY <1>1, <1>8
  <2>. QED BY <2>1, <2>2, Zenon DEF Asking
<1>. QED BY <1>5, <1>6, <1>9

\* Every step of the system keeps the invariant.
LEMMA SteadyNext == TypeInv /\ SteadyInv /\ [TimersNext]_timersvars => SteadyInv'
<1> SUFFICES ASSUME TypeInv, SteadyInv, [TimersNext]_timersvars, overlaps' = {}
             PROVE  Binding' \/ (Awake' /\ \E w \in Driver : Worker(w)' /\ Asking(w)')
  BY DEF SteadyInv
<1>1. ASSUME NEW l \in Leases, HandleAck(l) PROVE Binding'
  BY <1>1, BindingAck
<1>2. ASSUME \A l \in Leases : ~HandleAck(l) PROVE overlaps = {}
  BY <1>2, OverlapsGrow
<1>3. CASE (\A l \in Leases : ~HandleAck(l)) /\ Binding
  <2>1. TypeInv'
    BY TypeStep
  <2>2. Leased' => (Awake /\ Worker("net") /\ Asking("net"))'
    BY <2>1, LeasedSteady, PTL
  <2>3. Leased' \/ Binding'
    BY <1>3, BindingMoves
  <2>. QED BY <2>2, <2>3, Threads
<1>4. CASE /\ \A l \in Leases : ~HandleAck(l)
           /\ Awake /\ \E w \in Driver : Worker(w) /\ Asking(w)
  <2>0. PICK w \in Driver : Worker(w) /\ Asking(w)
    BY <1>4
  <2>1. ASSUME NEW t \in Driver, Step(t) PROVE Awake' /\ Worker(w)' /\ Asking(w)'
    BY <1>4, <2>0, <2>1, SteadyStep
  <2>2. ASSUME NEW t \in Driver, FineTick(t) PROVE Awake' /\ Worker(t)' /\ Asking(t)'
    BY <1>4, <2>0, <2>2, SteadyFine, AskingFine
  <2>3. ASSUME NEW t \in Driver, CoarseTick(t) PROVE Awake' /\ Worker(t)' /\ Asking(t)'
    BY <1>4, <2>0, <2>3, SteadyCoarse, AskingCoarse
  <2>4. CASE HandleOffer \/ HandleNak
    <3>1. Awake' /\ Worker(w)' /\ Asking(w)'
      BY <1>4, <2>0, <2>4, SteadyAnswers, AskingAnswers
    <3>. QED BY <3>1
  <2>5. ~Bind
    <3> SUFFICES ASSUME Bind PROVE FALSE
      OBVIOUS
    <3>0. "tcpip" \in Driver
      BY Threads
    <3>1. At("tcpip", "bind")
      BY DEF Bind
    <3>2. /\ todo["tcpip"] # << >> /\ todo["tcpip"] \in Seq(Todos)
          /\ Head(todo["tcpip"]) \in Todos /\ Head(todo["tcpip"])[1] = "bind"
      BY <3>0, <3>1, AtStep
    <3>3. Only(todo["tcpip"], Plain)
      BY <1>4, <3>0 DEF Awake, Tame
    <3>4. Head(todo["tcpip"]) \in Plain
      BY <3>2, <3>3, FirstStep
    <3>. QED BY <3>2, <3>4, Zenon DEF Plain, Binders
  <2>6. CASE Minute \/ UNCHANGED timersvars
    <3>1. mem' = mem /\ todo' = todo /\ granted' = granted /\ asked' = asked
      BY <2>6 DEF Minute, timersvars
    <3>2. Awake'
      BY <1>4, <3>1, Zenon DEF Awake
    <3>3. Worker(w)'
      BY <2>0, <3>1, Zenon DEF Worker
    <3>4. Asking(w)'
      BY <2>0, <3>1, Zenon DEF Asking
    <3>. QED BY <3>2, <3>3, <3>4
  <2>. QED BY <1>4, <2>1, <2>2, <2>3, <2>4, <2>5, <2>6 DEF TimersNext
<1>. QED BY <1>1, <1>2, <1>3, <1>4 DEF SteadyInv

\* The invariant holds at first: network_thread is about to start the client.
LEMMA TimersInitSteady == TimersInit => SteadyInv
<1> SUFFICES ASSUME TimersInit PROVE Awake /\ Worker("net") /\ Asking("net")
  BY Threads DEF SteadyInv
<1>. DEFINE e == <<"start">>
<1>1. mem = Cleared(FALSE) /\ todo["net"] = <<e>> /\ todo["tcpip"] = << >>
  BY Threads DEF TimersInit
<1>2. mem.state = "OFF" /\ mem.t1_renew_time = 0 /\ mem.t2_rebind_time = 0
  <2>1. mem = [f \in Fields |-> IF f = "state" THEN "OFF" ELSE IF f = "addr" THEN FALSE ELSE 0]
    BY <1>1 DEF Cleared
  <2>. QED BY <2>1, CountersIn, Zenon
<1>3. "start" \in Words \ {"bind"} /\ "start" \in Words \ {"bind", "release"}
  BY WordsIn
<1>4. e \in Todos /\ e \in Wake /\ e \in Starts /\ e \notin Busy /\ e \notin Holdy /\ e \notin ToHold
  BY <1>3, MarksWord
<1>5. Tame(<<e>>) /\ Tame(<< >>)
  BY <1>3, TamePushed
<1>. HIDE DEF e
<1>6. /\ Has(<<e>>, Wake) /\ Has(<<e>>, Starts) /\ ~Has(<<e>>, Busy) /\ ~Has(<<e>>, Holdy) /\ ~Has(<<e>>, ToHold)
      /\ Only(<< >>, Reply)
  BY <1>4, Short, Zenon
<1>7. "OFF" \notin Waiting /\ "OFF" \notin Holding
  BY StatesIn
<1>8. \A t \in Driver : Tame(todo[t])
  BY <1>1, <1>5, Threads, Zenon
<1>9. Awake
  BY <1>1, <1>2, <1>6, <1>7, <1>8, Threads, Zenon DEF Awake
<1>10. Worker("net")
  <2>1. \A o \in Driver \ {"net"} : Only(todo[o], Reply)
    BY <1>1, <1>6, Threads, Zenon
  <2>. QED BY <1>1, <1>6, <2>1, Zenon DEF Worker
<1>11. Asking("net")
  BY <1>1, <1>2, <1>6, <1>7, Zenon DEF Asking
<1>. QED BY <1>9, <1>10, <1>11

\* The types and the invariant of clients without overlaps hold in every
\* reachable state.
THEOREM SteadyInductive == TimersSpec => [](TypeInv /\ SteadyInv)
<1>1. TimersInit => TypeInv /\ SteadyInv
  BY TimersInitTypes, TimersInitSteady
<1>2. TypeInv /\ SteadyInv /\ [TimersNext]_timersvars => (TypeInv /\ SteadyInv)'
  BY TypeStep, SteadyNext
<1>. QED BY <1>1, <1>2, PTL DEF TimersSpec

\* Without an overlap of ticks since the last ACK, a client at rest waits with
\* request_timeout running, or has a lease that is counted, whatever the
\* leases and the width of the counters.
THEOREM NeverStuck == TimersSpec => []NotStuck
<1>1. TypeInv /\ SteadyInv => NotStuck
  <2> SUFFICES ASSUME TypeInv, SteadyInv, AtRest, overlaps = {}
               PROVE  \/ mem.state \in Waiting /\ mem.request_timeout > 0
                      \/ mem.state \in Holding /\ mem.t0_timeout > 0
    BY DEF NotStuck
  <2>1. \A t \in Driver : todo[t] = << >>
    BY DEF AtRest, Idle
  <2>2. ~Binding
    BY <2>1, Threads, Zenon DEF Binding
  <2>3. PICK w \in Driver : Awake /\ Worker(w)
    BY <2>2 DEF SteadyInv
  <2>4. \A t \in Driver : \A A : ~Has(todo[t], A)
    BY <2>1, Short
  <2>5. /\ mem.state \in Waiting => mem.request_timeout # 0
        /\ mem.state # "OFF"
    BY <2>3, <2>4, Zenon DEF Awake
  <2>6. mem.state \in Holding => mem.t0_timeout # 0
    BY <2>3, <2>4, Zenon DEF Worker
  <2>7. mem.request_timeout \in Number /\ mem.t0_timeout \in Number
    BY Numbers
  <2>8. \A v \in Number : v # 0 => v > 0
    BY Bounds, SMT DEF Number
  <2>9. mem.state \in Waiting \union Holding
    BY <2>5, Numbers DEF States
  <2>. QED BY <2>5, <2>6, <2>7, <2>8, <2>9
<1>. QED BY <1>1, SteadyInductive, PTL

\* Without an overlap since the ACK, a lease of two minutes or more is not
\* given up before the server was asked to extend it: T1 and lease_used are
\* counted together, and T1 is less than the lease (dhcp.c:440, 473).
THEOREM AskedBefore == TimersSpec => []AskedFirst
<1>1. TypeInv /\ SteadyInv => AskedFirst
  <2> SUFFICES ASSUME TypeInv, SteadyInv, NEW t \in Driver, At(t, "release"),
                      mem.state \in Holding, overlaps = {}, ~asked, granted # 1
               PROVE  FALSE
    BY DEF AskedFirst
  <2>1. ~Binding
    <3>1. "release" \notin {"set", "bind", "set state"}
      OBVIOUS
    <3>. QED BY <3>1, BindingAt, Zenon
  <2>2. PICK w \in Driver : Awake /\ Worker(w) /\ Asking(w)
    BY <2>1 DEF SteadyInv
  <2>. DEFINE x == Head(todo[w])
  <2>3. "release" \in Words \ {"bind"}
    BY WordsIn
  <2>4. todo[w] # << >> /\ todo[w] \in Seq(Todos) /\ x = <<"release">>
    BY <2>2, <2>3, WordHead
  <2>. HIDE DEF x
  <2>5. x \in Frees /\ x[1] = "release" /\ x \notin Reply /\ x \notin LookOn
    BY <2>3, <2>4, MarksWord
  <2>6. Has(todo[w], Frees)
    BY <2>4, <2>5, FirstStep DEF x
  <2>7. Counted(todo[w], mem, granted)
    BY <2>2, <2>6, Zenon DEF Asking
  <2>8. Counting(todo[w], mem, granted)
    BY <2>6, <2>7 DEF Counted
  <2>9. x # <<"t2">> /\ x # <<"t1">> /\ x[1] # "set"
    BY <2>5, Shapes
  <2>. QED BY <2>4, <2>5, <2>8, <2>9, CountingLook DEF x
<1>. QED BY <1>1, SteadyInductive, PTL
=============================================================================
