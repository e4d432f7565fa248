-------------------------------- MODULE Boot --------------------------------
(***************************************************************************)
(* How the board gets its IP settings (freertos_lwip_example_ws_main.c).   *)
(* network_thread adds the interface, starts lwIP's DHCP client and then   *)
(* drives its timers; main_thread polls server_netif for an address and,   *)
(* after ten seconds, writes the default settings itself.  The client goes *)
(* on meanwhile: tcpip_thread handles the server's messages and drives the *)
(* same timers, and link_detect_thread restarts it when the cable is back. *)
(* Only tcpip_thread holds lwIP's core lock, so the threads interleave     *)
(* between the three settings, between a look at the client's state and    *)
(* what is done about it, and between the server's answer and the use of   *)
(* the address in it, which dhcp_bind hands on by reference.               *)
(***************************************************************************)
EXTENDS Integers

CONSTANTS
  Lease,        \* what DHCP servers offer: an address with its mask and gateway
  Polls         \* polls of main_thread before it gives up (20 in the code)

ASSUME LeaseAssumption == Lease \intersect {"none", "default", "made up"} = {}
ASSUME PollsAssumption == Polls \in Nat \ {0}

Setting == {"ip", "mask", "gw"}
Source  == Lease \union {"none", "default", "made up"}  \* where a setting comes
                                              \* from
Thread  == {"main", "net", "tcpip", "link"}
Client  == Thread \ {"main"}                  \* threads that run DHCP code

DhcpState == {"OFF", "INIT", "SELECTING", "REQUESTING", "BOUND", "RENEWING",
              "REBINDING", "REBOOTING", "BACKING_OFF"}
Call == {"idle", "discover", "discovering", "select", "renew", "rebind",
         "reboot", "release", "releasing", "off", "start", "starting",
         "offer", "ack", "bind", "set address", "nak"}

VARIABLES
  netif,        \* netif[s]: where setting s of server_netif comes from
  link,         \* NETIF_FLAG_LINK_UP
  done,         \* nw_thread_done
  main,         \* where main_thread is: it has started, or is about to start,
                \* the devices and the application (WebServer) at "started"
  polls,        \* mscnt of main_thread, in polls
  net,          \* where network_thread is
  dhcp,         \* dhcp->state
  leaseTimer,   \* dhcp->t0_timeout # 0: a lease may expire or be renewed
  offered,      \* dhcp->offered_ip_addr
  options,      \* dhcp->offered_sn_mask and offered_gw_addr, none when one of
                \* them is cleared, until dhcp_bind has copied them
  call,         \* call[t]: the DHCP function thread t is about to execute
  at,           \* at[t]: the setting thread t writes next, 0: it writes none
  val,          \* val[t]: the source of the settings thread t writes; of mask
                \* and gateway when it binds a lease
  remove,       \* of netif_set_addr, while dhcp_bind is in it
  \* History variables, read by no guard:
  overlap,      \* the settings last written were written by two at a time, or
                \* are a lease that was cleared when they were taken from it
  fallback      \* main_thread has taken the default settings

offer   == <<offered, options>>
client  == <<dhcp, leaseTimer, offer, call>>
writers == <<at, val, remove, overlap>>
threads == <<done, main, polls, net, fallback>>
vars    == <<netif, link, threads, client, writers>>

TypeOK ==
  /\ netif \in [Setting -> Source]
  /\ link \in BOOLEAN
  /\ done \in BOOLEAN
  /\ main \in {"wait", "poll", "assign", "started"}
  /\ polls \in 0 .. Polls - 1
  /\ net \in {"add", "failed", "start", "starting", "timers"}
  /\ dhcp \in DhcpState
  /\ leaseTimer \in BOOLEAN
  /\ offered \in Lease \union {"none"} /\ options \in Lease \union {"none"}
  /\ call \in [Client -> Call]
  /\ at \in [Thread -> 0 .. 3]
  /\ val \in [Thread -> Source]
  /\ remove \in BOOLEAN
  /\ overlap \in BOOLEAN
  /\ fallback \in BOOLEAN

\* lwip_init has run and network_thread has been created.
Init ==
  /\ netif = [s \in Setting |-> "none"]
  /\ link = TRUE
  /\ done = FALSE
  /\ main = "wait"
  /\ polls = 0
  /\ net = "add"
  /\ dhcp = "OFF"
  /\ leaseTimer = FALSE
  /\ offered = "none" /\ options = "none"
  /\ call = [t \in Client |-> "idle"]
  /\ at = [t \in Thread |-> 0]
  /\ val = [t \in Thread |-> "none"]
  /\ remove = FALSE
  /\ overlap = FALSE
  /\ fallback = FALSE

-----------------------------------------------------------------------------
(* Writing the three settings.                                             *)

AddressFirst == <<"ip", "mask", "gw">>
AddressLast  == <<"mask", "gw", "ip">>

\* Thread t is in dhcp_bind.
Binds(t) == val[t] \in Lease \union {"made up"}

\* Fault: the address comes first in a lease too.
OrderAddressFirst(t) == AddressFirst

\* assign_default_ip writes the address first, and so does netif_set_addr
\* when it removes an address; it writes a lease's address last.
Order(t) == IF Binds(t) /\ ~remove THEN AddressLast ELSE AddressFirst

\* dhcp_bind gives netif_set_addr copies of the mask and of the gateway, but
\* the address where it is offered, which is read when it is written.
From(t, s) == IF Binds(t) /\ s = "ip" THEN offered ELSE val[t]

\* Thread t starts to write settings from source v.
Begin(t, v) ==
  /\ at' = [at EXCEPT ![t] = 1]
  /\ val' = [val EXCEPT ![t] = v]
  /\ overlap' = \E u \in Thread : at[u] # 0
  /\ UNCHANGED remove

\* Fault: the last setting is forgotten.
StepsButOne == 2

\* The settings there are to write.
Steps == 3

\* link_detect_thread has the idle priority: it runs when no other is busy.
Runs(t) ==
  t = "link" => /\ main # "assign"
                /\ \A u \in {"net", "tcpip"} : call[u] = "idle" /\ at[u] = 0

WriteSetting(t) ==
  /\ at[t] # 0
  /\ Runs(t)
  /\ LET s == Order(t)[at[t]] IN netif' = [netif EXCEPT ![s] = From(t, s)]
  /\ IF at[t] = Steps
     THEN /\ at' = [at EXCEPT ![t] = 0]
          /\ val' = [val EXCEPT ![t] = "none"]
          /\ remove' = (remove /\ ~Binds(t))
     ELSE /\ at' = [at EXCEPT ![t] = @ + 1]
          /\ UNCHANGED <<val, remove>>
  /\ UNCHANGED <<link, threads, client, overlap>>

-----------------------------------------------------------------------------
(* The DHCP client's functions, as any of the threads executes them.       *)

\* Thread t goes on to the function it has called.
Executes(t, f) ==
  /\ call[t] = f
  /\ at[t] = 0
  /\ Runs(t)

\* A message is sent, and the client is in the state that goes with it.
Request(t, f, state) ==
  /\ Executes(t, f)
  /\ dhcp' = state
  /\ call' = [call EXCEPT ![t] = "idle"]
  /\ UNCHANGED <<netif, link, threads, leaseTimer, offer, writers>>

Select(t)   == Request(t, "select", "REQUESTING")
Renew(t)    == Request(t, "renew", "RENEWING")
Rebind(t)   == Request(t, "rebind", "REBINDING")
Reboot(t)   == Request(t, "reboot", "REBOOTING")

\* The address that was offered is cleared, which tcpip_thread may be about
\* to write.
ClearOffered ==
  /\ offered' = "none"
  /\ overlap' = (overlap \/ (at["tcpip"] # 0 /\ Binds("tcpip")))
  /\ UNCHANGED <<at, val, remove>>

\* dhcp_discover clears the address and then changes the state.
Discover(t) ==
  /\ Executes(t, "discover")
  /\ ClearOffered
  /\ call' = [call EXCEPT ![t] = "discovering"]
  /\ UNCHANGED <<netif, link, threads, dhcp, leaseTimer, options>>

Discovering(t) == Request(t, "discovering", "SELECTING")

\* dhcp_release_and_stop clears what was offered,
Release(t) ==
  /\ Executes(t, "release")
  /\ IF dhcp = "OFF"
     THEN /\ call' = [call EXCEPT ![t] = "start"]
          /\ UNCHANGED <<offered, writers>>
     ELSE /\ ClearOffered
          /\ call' = [call EXCEPT ![t] = "releasing"]
  /\ UNCHANGED <<netif, link, threads, dhcp, leaseTimer, options>>

\* removes the address, whoever set it,
Releasing(t) ==
  /\ Executes(t, "releasing")
  /\ options' = "none"
  /\ leaseTimer' = FALSE
  /\ Begin(t, "none")
  /\ call' = [call EXCEPT ![t] = "off"]
  /\ UNCHANGED <<netif, link, threads, dhcp, offered>>

\* and then stops the client; the timers start it again.
Off(t) ==
  /\ Executes(t, "off")
  /\ dhcp' = "OFF"
  /\ call' = [call EXCEPT ![t] = "start"]
  /\ UNCHANGED <<netif, link, threads, leaseTimer, offer, writers>>

\* dhcp_start clears the client
Start(t) ==
  /\ Executes(t, "start")
  /\ leaseTimer' = FALSE
  /\ dhcp' = "OFF"
  /\ ClearOffered
  /\ call' = [call EXCEPT ![t] = "starting"]
  /\ UNCHANGED <<netif, link, threads, options>>

\* and discovers, or waits for the link.
Starting(t) ==
  /\ Executes(t, "starting")
  /\ options' = "none"
  /\ dhcp' = IF link THEN dhcp ELSE "INIT"
  /\ call' = [call EXCEPT ![t] = IF link THEN "discover" ELSE "idle"]
  /\ UNCHANGED <<netif, link, threads, leaseTimer, offered, writers>>

DhcpCall(t) ==
  \/ Discover(t) \/ Discovering(t) \/ Select(t) \/ Renew(t) \/ Rebind(t) \/ Reboot(t)
  \/ Release(t) \/ Releasing(t) \/ Off(t) \/ Start(t) \/ Starting(t)

-----------------------------------------------------------------------------
(* What makes a thread call them.                                          *)

\* main_thread no longer polls.  What takes the client more than ten seconds,
\* or more than the 500 ms in which main_thread notices an address, happens
\* only then: six unanswered requests take 61 s with the timers driven
\* twice, the coarse timer first runs after 60 s, two reboots take 1.5 s.
Late == main \notin {"wait", "poll"}

Calls(t, f) ==
  /\ t = "net" => net = "timers"
  /\ call[t] = "idle" /\ at[t] = 0
  /\ call' = [call EXCEPT ![t] = f]
  /\ UNCHANGED <<netif, link, threads, dhcp, leaseTimer, offer, writers>>

\* dhcp_fine_tmr finds that a request has timed out: dhcp_timeout.
RequestTimeout(t) ==
  \/ dhcp \in {"BACKING_OFF", "SELECTING"} /\ Calls(t, "discover")
  \/ dhcp = "REQUESTING" /\ Calls(t, "select")
  \/ dhcp = "REQUESTING" /\ Late /\ Calls(t, "release")
  \/ dhcp = "REBOOTING" /\ Calls(t, "reboot")
  \/ dhcp = "REBOOTING" /\ Late /\ Calls(t, "discover")

\* dhcp_coarse_tmr: the lease ends, or is to be rebound or renewed.
LeaseTimeout(t) ==
  /\ Late /\ leaseTimer
  /\ \/ dhcp # "OFF" /\ Calls(t, "release")
     \/ /\ dhcp \in {"REQUESTING", "BOUND", "RENEWING", "REBINDING"}
        /\ Calls(t, "rebind")
     \/ dhcp \in {"REQUESTING", "BOUND", "RENEWING"} /\ Calls(t, "renew")

\* The link goes, which the client is not told of, and comes back.
LinkDown ==
  /\ net = "timers"
  /\ Executes("link", "idle")
  /\ link /\ link' = FALSE
  /\ UNCHANGED <<netif, threads, client, writers>>

Extending == {"BOUND", "RENEWING", "REBINDING", "REBOOTING"}

\* netif_set_link_up and dhcp_network_changed.
LinkUp ==
  /\ Executes("link", "idle")
  /\ ~link /\ link' = TRUE
  /\ call' = [call EXCEPT !["link"] = IF dhcp = "OFF" THEN "idle"
                                      ELSE IF dhcp \in Extending THEN "reboot"
                                      ELSE "discover"]
  /\ UNCHANGED <<netif, threads, dhcp, leaseTimer, offer, writers>>

-----------------------------------------------------------------------------
(* tcpip_thread: dhcp_recv.  The server answers when and as it likes.      *)

Requested == {"REQUESTING", "REBOOTING", "REBINDING", "RENEWING"}

\* dhcp_recv looks at the state, and then handles the message.
Receives(f, states) ==
  /\ Executes("tcpip", "idle")
  /\ dhcp \in states
  /\ call' = [call EXCEPT !["tcpip"] = f]
  /\ UNCHANGED <<netif, link, threads, dhcp, leaseTimer, offer, writers>>

Offer == Receives("offer", {"SELECTING"})
Ack   == Receives("ack", Requested)
Nak   == Receives("nak", Requested)

TakeOffer(l) ==
  /\ Executes("tcpip", "offer")
  /\ offered' = l
  /\ call' = [call EXCEPT !["tcpip"] = "select"]
  /\ UNCHANGED <<netif, link, threads, dhcp, leaseTimer, options, writers>>

TakeAck(l) ==
  /\ Executes("tcpip", "ack")
  /\ offered' = l /\ options' = l
  /\ call' = [call EXCEPT !["tcpip"] = "bind"]
  /\ UNCHANGED <<netif, link, threads, dhcp, leaseTimer, writers>>

\* dhcp_bind copies the mask and the gateway, and makes them up when they
\* have been cleared,
BindLease ==
  /\ Executes("tcpip", "bind")
  /\ val' = [val EXCEPT !["tcpip"] = IF options = "none" THEN "made up" ELSE options]
  /\ options' = "none"
  /\ leaseTimer' = TRUE
  /\ dhcp' = "BOUND"
  /\ call' = [call EXCEPT !["tcpip"] = "set address"]
  /\ UNCHANGED <<netif, link, threads, offered, at, remove, overlap>>

\* and calls netif_set_addr, which looks whether there is an address.
SetAddress ==
  /\ Executes("tcpip", "set address")
  /\ remove' = (offered = "none")
  /\ at' = [at EXCEPT !["tcpip"] = 1]
  /\ overlap' = \/ remove' \/ val["tcpip"] = "made up"
                \/ \E u \in Thread : at[u] # 0
  /\ call' = [call EXCEPT !["tcpip"] = "idle"]
  /\ UNCHANGED <<netif, link, threads, dhcp, leaseTimer, offer, val>>

TakeNak ==
  /\ Executes("tcpip", "nak")
  /\ dhcp' = "BACKING_OFF"
  /\ Begin("tcpip", "none")
  /\ call' = [call EXCEPT !["tcpip"] = "discover"]
  /\ UNCHANGED <<netif, link, threads, leaseTimer, offer>>

-----------------------------------------------------------------------------
(* network_thread.                                                         *)

XemacAdd ==
  /\ net = "add"
  /\ net' \in {"start", "failed"}
  /\ UNCHANGED <<netif, link, done, main, polls, fallback, client, writers>>

StartDhcp ==
  /\ net = "start"
  /\ net' = "starting"
  /\ call' = [call EXCEPT !["net"] = "start"]
  /\ UNCHANGED <<netif, link, done, main, polls, fallback, dhcp, leaseTimer, offer,
                 writers>>

SetDone ==
  /\ net = "starting"
  /\ call["net"] = "idle"
  /\ net' = "timers"
  /\ done' = TRUE
  /\ UNCHANGED <<netif, link, main, polls, fallback, client, writers>>

-----------------------------------------------------------------------------
(* main_thread.                                                            *)

WaitNetwork ==
  /\ main = "wait"
  /\ done
  /\ main' = "poll"
  /\ UNCHANGED <<netif, link, done, polls, net, fallback, client, writers>>

PollSuccess ==
  /\ main = "poll"
  /\ netif["ip"] # "none"
  /\ main' = "started"
  /\ UNCHANGED <<netif, link, done, polls, net, fallback, client, writers>>

\* Fault: mscnt does not advance.
PollsStuck == polls

\* mscnt after this poll.
PollsNow == polls + 1

\* Ten seconds have passed.
TimedOut == PollsNow >= Polls

PollAgain ==
  /\ main = "poll"
  /\ netif["ip"] = "none"
  /\ ~TimedOut
  /\ polls' = PollsNow
  /\ UNCHANGED <<netif, link, done, main, net, fallback, client, writers>>

\* "ERROR: DHCP request timed out": assign_default_ip.
PollTimeout ==
  /\ main = "poll"
  /\ netif["ip"] = "none"
  /\ TimedOut
  /\ main' = "assign"
  /\ fallback' = TRUE
  /\ Begin("main", "default")
  /\ UNCHANGED <<netif, link, done, polls, net, client>>

Assigned ==
  /\ main = "assign"
  /\ at["main"] = 0
  /\ main' = "started"
  /\ UNCHANGED <<netif, link, done, polls, net, fallback, client, writers>>

-----------------------------------------------------------------------------
MainThread == \/ WaitNetwork \/ PollSuccess \/ PollAgain \/ PollTimeout
              \/ Assigned \/ WriteSetting("main")

NetworkThread == \/ XemacAdd \/ StartDhcp \/ SetDone
                 \/ DhcpCall("net") \/ WriteSetting("net")

Timers(t) == RequestTimeout(t) \/ LeaseTimeout(t)

TcpipThread == \/ Offer \/ Ack \/ Nak \/ BindLease \/ SetAddress \/ TakeNak
               \/ \E l \in Lease : TakeOffer(l) \/ TakeAck(l)
               \/ DhcpCall("tcpip") \/ WriteSetting("tcpip")

LinkThread == LinkDown \/ LinkUp \/ DhcpCall("link")

Next == \/ MainThread \/ NetworkThread \/ TcpipThread \/ LinkThread
        \/ \E t \in {"net", "tcpip"} : Timers(t)

\* The two threads of equal priority are time-sliced.
Spec == Init /\ [][Next]_vars /\ WF_vars(MainThread) /\ WF_vars(NetworkThread)

-----------------------------------------------------------------------------
(* Properties                                                              *)

\* Nobody is writing settings.
Quiet == \A t \in Thread : at[t] = 0

\* While main_thread polls, whatever DHCP does: an address in server_netif
\* comes with a mask and a gateway, so what a poll takes for success is
\* complete.
CompleteOnSuccess ==
  ~Late /\ netif["ip"] # "none" =>
    netif["mask"] # "none" /\ netif["gw"] # "none"

\* The three settings come from one source, unless the writes that brought
\* them were mixed with another thread's (a default between a lease's, or a
\* lease that network_thread releases while tcpip_thread binds it) or the
\* address was taken back while tcpip_thread bound it (dhcp.c:992, 1139).
\* Whatever else the threads do between each other's steps is harmless.
SettingsAgree ==
  Quiet /\ ~overlap =>
    /\ netif["mask"] = netif["ip"]
    /\ netif["gw"] = netif["ip"]

\* main_thread comes to set up the devices and start the application, whatever
\* the DHCP server does, unless the interface could not be added.
BootEnds == <>(main = "started" \/ net = "failed")

\* "If DHCP failed, '192.168.2.10' will be used as a static IP address"
\* (README.md:71): once it is assigned, the board has an address.
StaticStays == fallback /\ main # "assign" => netif["ip"] # "none"
=============================================================================
