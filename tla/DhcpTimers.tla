------------------------------ MODULE DhcpTimers ------------------------------
(***************************************************************************)
(* The counters of lwIP's DHCP client (dhcp.c).  dhcp_fine_tmr and         *)
(* dhcp_coarse_tmr are driven twice, by network_thread, which does not     *)
(* take lwIP's core lock, and by tcpip_thread (timeouts.c), which also     *)
(* handles the server's messages.  Boot has the same client with timeouts  *)
(* at any moment; here they come from the counters, which both threads     *)
(* load, change and store.                                                 *)
(*                                                                         *)
(* What a thread still has to do is a sequence of steps.  A step stores    *)
(* one field, or looks at fields and decides on further steps; loads that  *)
(* directly follow each other are one step.  The link is up.               *)
(***************************************************************************)
EXTENDS Integers, Sequences, SequencesExt

CONSTANTS
  Leases,   \* what the server grants, in periods of dhcp_coarse_tmr (minutes)
  Width,    \* lease_used and the other counters are numbers below Width
  Ticks,    \* a request is waited for that many calls of dhcp_fine_tmr
  MaxAge    \* bound: minutes since an ACK that are told apart

ASSUME TimersAssumption ==
  /\ Width \in Nat \ {0, 1} /\ Leases \subseteq 1..(Width - 1)
  /\ Ticks \in 1..(Width - 1) /\ MaxAge \in Nat
  /\ \A l \in Leases : l < MaxAge

Driver == {"net", "tcpip"}
Waiting == {"SELECTING", "REQUESTING", "BACKING_OFF"}
Holding == {"BOUND", "RENEWING", "REBINDING"}

VARIABLES
  mem,      \* the fields of struct dhcp, and the interface's address
  todo,     \* todo[t]: the steps that thread t has yet to take
  ticked,   \* ticked[t]: t has called dhcp_coarse_tmr in this minute
  \* History variables, read by no guard:
  age,      \* minutes since the last ACK
  granted,  \* the lease that it granted
  asked,    \* since then the server was asked to extend the lease
  overlaps   \* since then one thread began a tick while the other was at work
            \* ("tick"), was handling that ACK ("bind")

timersvars == <<mem, todo, ticked, age, granted, asked, overlaps>>

Counter == {"request_timeout", "lease_used", "t0_timeout", "t1_renew_time",
            "t2_rebind_time", "t2_timeout", "offered_t0_lease"}
Fields == Counter \union {"state", "addr"}

\* memset in dhcp_start; the address is not part of it.
Cleared(addr) == [f \in Fields |-> IF f = "state" THEN "OFF"
                                   ELSE IF f = "addr" THEN addr ELSE 0]

\* dhcp_start is called by network_thread.
TimersInit ==
  /\ mem = Cleared(FALSE)
  /\ todo = [t \in Driver |-> IF t = "net" THEN <<<<"start">>>> ELSE << >>]
  /\ ticked = [t \in Driver |-> FALSE]
  /\ age = 0 /\ granted = 0 /\ asked = FALSE /\ overlaps = {}

-----------------------------------------------------------------------------
(* Steps.                                                                  *)

Set(f, v) == <<"set", f, v>>
Idle(t) == todo[t] = << >>
At(t, what) == ~Idle(t) /\ Head(todo[t])[1] = what

\* Thread t goes on with steps s, and then with what it had to do.
Push(t, s) == todo' = [todo EXCEPT ![t] = s \o @]
Instead(t, s) == todo' = [todo EXCEPT ![t] = s \o Tail(@)]

history == <<age, granted, asked, overlaps>>

Store(t) ==
  /\ At(t, "set")
  /\ mem' = [mem EXCEPT ![Head(todo[t])[2]] = Head(todo[t])[3]]
  /\ Instead(t, << >>)
  /\ UNCHANGED <<ticked, history>>

\* dhcp_set_state compares, and resets request_timeout after a change.
SetState(s) == <<<<"set state", s>>>>

Compare(t) ==
  /\ At(t, "set state")
  /\ LET s == Head(todo[t])[2] IN
       Instead(t, IF mem.state = s THEN << >>
                  ELSE <<Set("state", s), Set("request_timeout", 0)>>)
  /\ UNCHANGED <<mem, ticked, history>>

\* Fault: the timeout of a request is not started.
AskUntimed(s) == SetState(s) \o <<<<"send", s>>>>

\* dhcp_discover, dhcp_select, dhcp_renew, dhcp_rebind, by the state they
\* lead to.
Ask(s) == SetState(s) \o <<<<"send", s>>, Set("request_timeout", Ticks)>>

Send(t) ==
  /\ At(t, "send")
  /\ asked' = (asked \/ Head(todo[t])[2] \in {"RENEWING", "REBINDING"})
  /\ Instead(t, << >>)
  /\ UNCHANGED <<mem, ticked, age, granted, overlaps>>

\* dhcp_release_and_stop, followed by dhcp_start.
Restart == <<<<"release">>, <<"start">>>>

ReleaseAndStop(t) ==
  /\ At(t, "release")
  /\ Instead(t, IF mem.state = "OFF" THEN << >>
                ELSE <<Set("offered_t0_lease", 0), Set("t0_timeout", 0),
                       Set("lease_used", 0), Set("t2_rebind_time", 0),
                       Set("t1_renew_time", 0), Set("addr", FALSE)>>
                     \o SetState("OFF"))
  /\ UNCHANGED <<mem, ticked, history>>

StartAgain(t) ==
  /\ At(t, "start")
  /\ mem' = Cleared(mem.addr)
  /\ Instead(t, Ask("SELECTING"))
  /\ UNCHANGED <<ticked, history>>

-----------------------------------------------------------------------------
(* dhcp_fine_tmr and dhcp_timeout.                                         *)

\* What there is an overlap with when thread t begins a tick.
Overlap(t) ==
  {k \in {"tick"} : \E o \in Driver \ {t} : ~Idle(o)} \union
  {k \in {"bind"} : ~Idle("tcpip") /\ Last(todo["tcpip"]) = Set("addr", TRUE)}

FineTick(t) ==
  /\ Idle(t) /\ mem.request_timeout > 0
  /\ LET v == mem.request_timeout - 1 IN
       Push(t, <<Set("request_timeout", v)>>
               \o (IF v = 0 THEN <<<<"timeout">>>> ELSE << >>))
  /\ overlaps' = overlaps \union Overlap(t)
  /\ UNCHANGED <<mem, ticked, age, granted, asked>>

\* The number of tries is left out: after some of them the client restarts.
Timeout(t) ==
  /\ At(t, "timeout")
  /\ \/ /\ mem.state \in {"BACKING_OFF", "SELECTING"}
        /\ Instead(t, Ask("SELECTING"))
     \/ /\ mem.state = "REQUESTING"
        /\ \/ Instead(t, Ask("REQUESTING"))
           \/ Instead(t, Restart)
     \/ mem.state \notin Waiting /\ Instead(t, << >>)
  /\ UNCHANGED <<mem, ticked, history>>

-----------------------------------------------------------------------------
(* dhcp_coarse_tmr.                                                        *)

\* Fault: the counters are compared before this tick is counted.
ExpiredLate(used, t0) == used = (t0 + 1) % Width

\* The lease has run out.
Expired(used, t0) == used = t0

CoarseTick(t) ==
  /\ Idle(t) /\ ~ticked[t]
  /\ ticked' = [ticked EXCEPT ![t] = TRUE]
  /\ LET used == (mem.lease_used + 1) % Width IN
       Push(t, IF mem.state = "OFF" THEN << >>
               ELSE IF mem.t0_timeout = 0 THEN <<<<"t2">>>>
               ELSE <<Set("lease_used", used)>>
                    \o (IF Expired(used, mem.t0_timeout) THEN Restart
                        ELSE <<<<"t2">>>>))
  /\ overlaps' = overlaps \union Overlap(t)
  /\ UNCHANGED <<mem, age, granted, asked>>

\* Fault: a timer that does not run is decremented too.
CountDownAll(t, f, s, e) ==
  Instead(t, <<Set(f, mem[f] - 1)>> \o (IF mem[f] = 1 THEN s ELSE e))

\* A timer f that runs is decremented; it triggers steps s when it has been
\* one, otherwise steps e follow.
CountDown(t, f, s, e) ==
  Instead(t, IF mem[f] = 0 THEN e
             ELSE <<Set(f, mem[f] - 1)>> \o (IF mem[f] = 1 THEN s ELSE e))

TickT2(t) ==
  /\ At(t, "t2")
  /\ CountDown(t, "t2_rebind_time", <<<<"rebind">>>>, <<<<"t1">>>>)
  /\ UNCHANGED <<mem, ticked, history>>

TickT1(t) ==
  /\ At(t, "t1")
  /\ CountDown(t, "t1_renew_time", <<<<"renew">>>>, << >>)
  /\ UNCHANGED <<mem, ticked, history>>

\* dhcp_t2_timeout and dhcp_t1_timeout.
T2Timeout(t) ==
  /\ At(t, "rebind")
  /\ Instead(t, IF mem.state \in Holding \union {"REQUESTING"}
                THEN Ask("REBINDING") \o <<<<"next t2">>>> ELSE << >>)
  /\ UNCHANGED <<mem, ticked, history>>

T1Timeout(t) ==
  /\ At(t, "renew")
  /\ Instead(t, IF mem.state \in {"REQUESTING", "BOUND", "RENEWING"}
                THEN Ask("RENEWING") \o <<<<"next t1">>>> ELSE << >>)
  /\ UNCHANGED <<mem, ticked, history>>

\* The next try comes after half of the time up to that of counter "end".
NextTry(t, what, f, end) ==
  /\ At(t, what)
  /\ LET half == (mem[end] - mem.lease_used) \div 2 IN
       Instead(t, IF half >= 1 THEN <<Set(f, half)>> ELSE << >>)
  /\ UNCHANGED <<mem, ticked, history>>

NextT2(t) == NextTry(t, "next t2", "t2_rebind_time", "t0_timeout")
NextT1(t) == NextTry(t, "next t1", "t1_renew_time", "t2_timeout")

-----------------------------------------------------------------------------
(* tcpip_thread: dhcp_recv.                                                *)

\* dhcp_handle_offer.
HandleOffer ==
  /\ Idle("tcpip") /\ mem.state = "SELECTING"
  /\ Push("tcpip", <<Set("request_timeout", 0)>> \o Ask("REQUESTING"))
  /\ UNCHANGED <<mem, ticked, history>>

Answered == {"REQUESTING", "RENEWING", "REBINDING"}

HandleNak ==
  /\ Idle("tcpip") /\ mem.state \in Answered
  /\ Push("tcpip", SetState("BACKING_OFF") \o <<Set("addr", FALSE)>>
                   \o Ask("SELECTING"))
  /\ UNCHANGED <<mem, ticked, history>>

\* dhcp_handle_ack, then dhcp_bind.
HandleAck(l) ==
  /\ Idle("tcpip") /\ mem.state \in Answered
  /\ Push("tcpip", <<Set("offered_t0_lease", l), <<"bind">>, Set("addr", TRUE)>>)
  /\ age' = 0 /\ granted' = l /\ asked' = FALSE /\ overlaps' = {k \in {"bind"} : ~Idle("net")}
  /\ UNCHANGED <<mem, ticked>>

\* Seconds as periods of dhcp_coarse_tmr, at least one.
Periods(secs) == IF (secs + 30) \div 60 = 0 THEN 1 ELSE (secs + 30) \div 60

\* Fault: T1 is the whole lease.
T1Whole(secs) == secs

\* The server gives neither T1 nor T2: they are 1/2 and 7/8 of the lease.
T1(secs) == secs \div 2

\* Fault: lease_used goes on from where it was.
UsedKept == << >>

UsedReset == <<Set("lease_used", 0)>>

Bind ==
  /\ At("tcpip", "bind")
  /\ LET secs == 60 * mem.offered_t0_lease
         t2 == Periods((7 * secs) \div 8) IN
       Instead("tcpip", UsedReset \o
         <<Set("t0_timeout", Periods(secs)),
           Set("t1_renew_time", Periods(T1(secs))),
           Set("t2_timeout", t2), Set("t2_rebind_time", t2)>>
         \o SetState("BOUND"))
  /\ UNCHANGED <<mem, ticked, history>>

-----------------------------------------------------------------------------
\* A minute has passed; what the threads do takes no time to speak of.
Minute ==
  /\ \A t \in Driver : Idle(t) /\ ticked[t]
  /\ ticked' = [t \in Driver |-> FALSE]
  /\ age' = IF age < MaxAge THEN age + 1 ELSE age
  /\ UNCHANGED <<mem, todo, granted, asked, overlaps>>

Step(t) ==
  \/ Store(t) \/ Compare(t) \/ Send(t) \/ ReleaseAndStop(t) \/ StartAgain(t) \/ Timeout(t)
  \/ TickT2(t) \/ TickT1(t) \/ T2Timeout(t) \/ T1Timeout(t) \/ NextT2(t) \/ NextT1(t)

TimersNext ==
  \/ \E t \in Driver : Step(t) \/ FineTick(t) \/ CoarseTick(t)
  \/ HandleOffer \/ HandleNak \/ Bind \/ Minute
  \/ \E l \in Leases : HandleAck(l)

TimersSpec == TimersInit /\ [][TimersNext]_timersvars

-----------------------------------------------------------------------------
(* Properties.                                                             *)

AtRest == \A t \in Driver : Idle(t)

TimersTypeOK ==
  /\ DOMAIN mem = Fields
  /\ mem.state \in Waiting \union Holding \union {"OFF"}
  /\ \A f \in Counter : mem[f] \in 0..(Width - 1)
  /\ mem.addr \in BOOLEAN
  /\ \A t \in Driver : \A k \in DOMAIN todo[t] :
       todo[t][k][1] = "set" => todo[t][k][2] \in Fields

\* An address is not used for longer than it was leased, although both threads
\* count, may lose counts, and compare for equality (dhcp.c:440).
LeaseRespected == AtRest /\ mem.addr /\ "bind" \notin overlaps => age <= granted

\* A client that waits for an answer asks again some time, or comes to the
\* end of a lease.
NotStuck ==
  AtRest /\ overlaps = {} =>
    \/ mem.state \in Waiting /\ mem.request_timeout > 0
    \/ mem.state \in Holding /\ mem.t0_timeout > 0

\* A lease is not given up without having asked for its extension, unless T1
\* comes to as many minutes as the lease (dhcp.c:440).
AskedFirst ==
  \A t \in Driver :
    At(t, "release") /\ mem.state \in Holding /\ overlaps = {} => asked \/ granted = 1
=============================================================================
