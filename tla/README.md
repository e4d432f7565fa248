# A verification project for the Avnet "FreeRTOS out of the box" images

The repository builds two FreeRTOS images, one for the ZUBoard 1CG
(`src/ZUBoard-1CG`) and one for the K24 I/O carrier card (`src/k24-iocc`). Each
runs a small web server on lwIP: a browser page sets two RGB LEDs, reads four
slide switches, a temperature and a pressure sensor (ZUBoard only), and
downloads the factory test log that the board keeps in its QSPI flash.

This directory holds TLA+ models of that program, TLC configurations that check
them on small instances, and TLAPS proofs of what matters most for every value
of the constants. `PROJECT.json` is the index: which line each definition
stands for, what each run checks, which hazards of the code each property is
about. In this text *ZUB* stands for `src/ZUBoard-1CG/sources/apps/oob/src`,
*K24* for `src/k24-iocc/sources/apps/oob/src`, and file names are shortened:
`ws_main.c` is `freertos_lwip_example_ws_main.c`, and so on.

    tlc -workers 2 -config Boot.cfg Boot.tla        # model-check one run
    tlapm BootProofs.tla                            # check one module's proofs

There are no separate MC modules: the constants are numbers and small sets of
model values that a `.cfg` can give directly. The state counts and times below
are TLC's with two workers.

## 1. Inventory of the system

### Threads and how they interact

Everything runs on one Cortex-A53 core under FreeRTOS with preemption and time
slices. `main_thread`, `network_thread`, `xemacif_input_thread`, lwIP's
`tcpip_thread` and `pl_pb_polling_task` have the same priority (2), so the
scheduler may switch between them at any instruction; `link_detect_thread` has
the idle priority and runs only when no other thread is busy. The GPIO interrupt
preempts all of them. The threads share `server_netif`, `nw_thread_done`, the
`rgbledN_status` variables, lwIP's DHCP client and the device registers, and the
application takes no lock, not even lwIP's core lock.

```
   button, switches                     browser            DHCP server
        |                                  |                    |
  pl_pb_polling_task   mio_interrupt   main_thread         tcpip_thread --+
        |               _handler           |                    |         |
        |                  |        webserver, HTTP       dhcp_recv    timers
   control_rgb_leds     MIO LEDs    responses, FAT file         |         |
        ^                              |        |          server_netif <-+-- network_thread
        +------------------------------+   SD card, QSPI        ^             (same timers)
              LED commands                      flash           |
                                                      main_thread, after 10 s;
                                                      link_detect_thread
```

### Components

| Component | State | Operations | What makes it correct | Module |
|---|---|---|---|---|
| RGB LEDs and PL button, ZUBoard (`platform_gpio.c`) | LED registers, `rgbledN_status`, `last_rgbledN_status`, `pl_pb_status` | `control_rgb_leds` (two threads), `pl_pb_polling_task` | LED and remembered colour agree; a press shows red and the release restores; a lasting press is handled | `RgbLeds` |
| RGB LEDs and PL buttons, K24 (its `platform_gpio.c`) | the same, with a button per LED and LED 1 on three MIO pins | the same | the same, for each LED whatever the other button does | `K24Leds` |
| MIO LEDs, switches, button, ZUBoard (`platform_gpio.c`) | LED pins, interrupt status of the GPIO bank | `platform_init_gpios`, `setup_mio_interrupt`, `mio_interrupt_handler`, `get_switch_state` | LEDs mirror the switches once the interrupts are served; no edge is lost | `MioLeds` |
| MIO LEDs and switches, K24 | the same | the same | the same | not modelled (section 6) |
| Boot and IP settings (`ws_main.c`) | `server_netif` (address, mask, gateway), `nw_thread_done`, `mscnt` | `main_thread`, `network_thread`, `assign_default_ip` | the three settings come from one source; the server is reached after at most 10 s of DHCP | `Boot` |
| DHCP client (lwIP's `dhcp.c`) | `struct dhcp`: state, tries, timeouts, lease counters | `dhcp_start`, `dhcp_recv`, two timers, `dhcp_network_changed` | an address is used only while leased; leases are renewed before they end; the client is never without a running timer | `Boot` (states), `DhcpTimers` (counters) |
| Web server (`webserver.c`) | the listening socket, one connection | `start_application`, `process_http_request` | the server keeps accepting; every accepted socket is closed | `WebServer`, `WebPage` |
| HTTP responses (`ws_http_response.c`, `web_utils.c`) | the connection's output, the file being sent | `generate_response`, `do_http_get`, `do_http_post`, `do_404` | header length equals body length; every loop ends | `WebServer`, `WebPage` |
| Browser page (`webpages/js/main.js`) | the forms' disabled flags, pending requests | submit handlers and callbacks | every form is enabled again; the page shows what the board confirmed | `WebPage` |
| File system and factory log (`ws_platform_fs.c`) | the FAT volume, the log file | `platform_init_fs`, `create_factest_logfile`, `fat_ls` | the page is this start's log, or the sentence that there is none when none could be read | `FactoryLog`, `FlashStart` |
| QSPI flash (`qspi.c`) | controller, address mode, quad enable, bank | `FlashRead`, `MultiDieRead`, `GetRealAddr`, `qspi_retrieve_logfile`; `qspi_setup` and what it calls | a read returns the bytes asked for, and no transfer crosses a die; the chip is left as the reads need it | `Qspi`, `FlashReader`, `QspiSetup`, `FlashStart` |
| Xilinx lwIP port (`contrib/ports/xilinx`) | DMA rings, packet queue, buffer pool and references | EMAC drivers, `xemacif_input_thread`, `low_level_output` | no packet buffer is lost or in two hands; frames keep their order; nobody waits for ever | `EmacRx`, `EmacTx`, `FrameChannel` |
| Link detection (Xilinx's `xadapter.c`) | `eth_link_status`, `netif->state` | `xemac_add`, `link_detect_thread`, `eth_link_detect` | link up and down are followed | `Boot` (its effect on DHCP) |
| Sensors, ZUBoard (`stts22htr.c`, `lps22hhtr.c`) | I2C and SPI controllers, receive buffers | setup, `stts22htr_get_temp`, `lps22hhtr_get_pressure` | a value comes from one sample; bus errors are reported | not modelled (section 6) |
| lwIP core and sockets, FreeRTOS, drivers | - | - | taken as services | external |

### Behaviours that are hard

* Two threads set LEDs with two writes each, register then variable; on the K24
  an LED takes three writes and the variable a fourth.
* Pins move between any two accesses of the interrupt handler; one interrupt
  may report several pins.
* Four threads write the IP settings, one setting at a time, and three threads
  execute the DHCP client's functions on the same unlocked state; two of them
  drive its timers, so every counter is decremented twice as fast as meant.
* Time-outs race late answers: main_thread gives up on DHCP while the client
  goes on, the page gives up a request that the server still serves.
* One thread serves all browsers and blocks in `read` and `write`; errors of
  sockets, of the SD card and of the flash are partly ignored.
* Reads of the flash cross banks and dies; power may fail while the log page is
  written; the chip keeps its modes when the processor is reset, and
  `qspi_setup`'s result is ignored.
* The Ethernet controller reads and writes the DMA rings while the interrupt
  handler and the threads work on them; ring, pool, queue and mailbox run full
  and empty in any combination; buffers are shared with TCP's retransmission.

`PROJECT.json` lists these as `hazards`, each at its line with the properties
that cover it. Three have a note instead, which says why no property covers
them.

## 2. Plan

The order was that of importance for the running board; what several threads
share came first. All of these steps are done.

| Step | Modules | Composes / implements | Runs (bounds) | Theorems |
|---|---|---|---|---|
| 1 | `RgbLeds`, `MioLeds` | two threads with one driver; interrupt with pins | 2 LEDs, 2 colours; 2 switches | types, agreement, restore, saved once; LEDs right at rest |
| 2 | `Boot` | main, network, tcpip, link threads with the DHCP client | 1 lease, 2 polls | types, complete success, one source |
| 3 | `WebServer` | server with browsers and a failing card | 2 browsers, files of 0..3 units | types, length, sockets |
| 4 | `Qspi`, `FlashReader` | detailed read implements one read | 2 dies of 2 banks of 2 units | types, bytes read, implements one read, for every geometry |
| 5 | `QspiSetup`, `FactoryLog` | set-up with a chip that keeps its state; uses one read of the flash per step | see step 9 | types, never stale |
| 6 | `K24Leds` | as `RgbLeds`, LED 1 pin by pin | 2 colours beside off, both buttons | types, agreement, restore |
| 7 | `DhcpTimers` | both timer drivers on one client | a lease of 4 minutes | types, no address beyond its lease, never stuck, asked before the end |
| 8 | `WebPage` | page with two connections and `WebServer` | 2 connections, 2 colours | types, the page agrees with the LED |
| 9 | `FlashStart` | `QspiSetup` with `FactoryLog`, restarts anywhere | every chip of the table, 2 logs | types, protected, ready; implements `FactoryLog` |
| 10 | `FrameChannel`, `EmacRx`, `EmacTx` | MAC, interrupt handler and threads; both sides implement the channel | 3 buffers, 2 descriptors; 2 frames of 2 buffers, 3 descriptors | types, buffers owned once; free slots, references, whole frames, retransmission |

What would come next: the parsing of requests (`extract_file_name`, the search
for commands) as operators
against a reference definition; the states of link detection.

Modules are written so that they can be proved about: parameters are CONSTANTS
with named assumptions, there is one action per operation, and no module uses a
RECURSIVE operator.

## 3. The modules

Conventions. Each access to shared state is an action; local computation is
part of the action whose access it precedes. `pc`-like variables (`pc`,
`server`, `main`, `net`) say where a thread is. History variables exist only
for the properties and no guard reads them. A definition whose comment begins
with *Fault* is not used by any specification: it is what a plausible bug would
put in place of the definition after it, and serves to show that the properties
notice that bug.

### RgbLeds: the RGB LEDs and the PL push button

| Model | Code |
|---|---|
| `gpio`, `rgbled_status` | channel 1 of the two LED GPIOs, `rgbledN_status` |
| `last_status`, `pl_pb_status`, `pb_sample` | `last_rgbledN_status`, `pl_pb_status`, `current_pb_status` |
| `WriteRegister`, `StoreStatus` | the two writes at the end of `control_rgb_leds` |
| `PollWake` ... `PollDone` | one round of `pl_pb_polling_task` |
| `HttpCommand`, `HttpWrite`, `HttpStore` | a LED command that `main_thread` serves |
| `PushButton` | the user, at any moment |

Left out: a command with an unknown LED or colour (it leaves `control_rgb_leds`
before it changes anything), and the first write of all LEDs in the set-up. The
registers and variables are 32 bits and are accessed in one instruction.

* `rgb_leds` (2 LEDs, 2 colours, 147 thousand states):
  `StatusMatchesLed`, LED and variable agree whenever nobody is between the two
  writes, unless the calls that set the LED last overlapped (the code can then
  really disagree, until the next call); `PressAndRestore`, an LED that no
  command touched is red during a press and gets its own colour back;
  `ButtonHandled`, a button position that lasts is handled. Two colours are
  enough, since the code copies colours and compares none: off is told from the
  red of a press, and the two LEDs may have different ones. Fairness is
  `WF(Poll)` and `WF(Http)`: both threads have the same priority and are
  time-sliced, and neither waits for the other. The user and the browser owe
  nothing.

What `touched` excepts is real: a press sampled between the register write and
the variable write of a command saves the colour from before the command
(`platform_gpio.c:78`), and the release brings that colour back.

Proved (`RgbLedsProofs`) for every set of colours: `TypeOK`,
`StatusMatchesLed`, `PressAndRestore`, and `SavedOncePerPress`, holding the
button never saves the red. None is inductive: the invariant adds what a thread
between its two writes is about to remember (`OverlapInv`), that a round which
saves or writes has seen a change (`RoundInv`), and for each LED whether the
present round has set it already (`UntouchedInv`).

### K24Leds: the RGB LEDs and PL push buttons of the K24

The same two threads on the other board. Each button has an LED of its own, so
that one round of `pl_pb_polling_task` may handle none, one or both (`Turn`,
`Changed`). LED 0 is one register; LED 1 is three MIO pins, and
`control_rgb_leds` writes one after the other (`Write`, `WritePin`,
`AllPinsWritten`), so that its pins may spell no colour at all between two
writes. `Spelling` gives the pins of a colour. Left out is what `RgbLeds`
leaves out.

* `k24_leds` (off and two colours, 327 thousand states, 37 s):
  `PinsSpellStatus`, the pins of an LED spell the remembered colour whenever
  nobody is inside `control_rgb_leds` for it and the last calls did not overlap;
  `PressAndRestore`, as on the ZUBoard, for each LED whatever the other button
  does meanwhile; `ButtonsHandled`. Two pins are the least that can be written
  in part. The commands are for LED 1 (`Commanded = {1}`): a command for LED 0
  is a single write, as in `RgbLeds`. Fairness as there.

Proved (`K24LedsProofs`) for every number of colours and commands for any LED:
`TypeOK`, `PinsSpellStatus`, `PressAndRestore`. The invariant adds that a
thread in the middle of LED 1 has set the pins below `pin[t]` to its colour and
left the others (`PinInv`), and the three parts known from `RgbLedsProofs`.

### MioLeds: LEDs, slide switches and button on the MIO pins

| Model | Code |
|---|---|
| `level`, `ledPin` | input and output pins |
| `latched`, `detect` | the bank's interrupt status; edge detection switched on |
| `Sample`, `Write` | `XGpioPs_ReadPin` and `XGpioPs_WritePin` in `platform_init_gpios` and `mio_interrupt_handler` |
| `SetIntrType`, `IntrEnable`, `SetupFails` | `setup_mio_interrupt` |
| `IntrRead`, `IntrClear` | `XGpioPs_IntrHandler`, the driver (external) |
| `HandleSwitch`, `HandleButton`, `HandleUnknown` | the `switch (Status)` of the handler |
| `Toggle` | a switch or the button moves, at any moment |

Bouncing contacts need no action of their own: `Toggle` may follow `Toggle` at
any moment and without bound.

* `mio_leds` (2 switches and the button, 351 thousand states):
  `LedsRightAtRest`, when all edges are served each LED shows its switch (or is
  on because of the button), except for pins the handler missed, and no LED
  stays on after the release; `Settles`, when the pins stop moving the system
  comes to that rest. Two switches are the smallest number with two different
  switches in one interrupt, and with a first and a last LED in the loops.
  Fairness is `WF(Cpu)`: an enabled pending interrupt is taken, and the code
  runs on.

The pins missed (`Missed`) are a flaw of the code: two switches in one interrupt
match no `case` (`platform_gpio.c:275`), both bits are cleared, and the LEDs stay
wrong until the switches are moved again.

Proved (`MioLedsProofs`) for every number of switches: `TypeOK`,
`LedsRightAtRest`. The
invariant says of each switch that it is missed, or waits in `latched` or
`status`, or is about to be sampled or written, or its LED is right
(`SwitchInv`); the same for the button and the LEDs it lit (`ButtonInv`); and
the bookkeeping of the loops (`ProgramInv`).

### Boot: from reset to the web server

A setting (address, mask, gateway) is known by its source: a lease, the
default, or none. `WriteSetting` writes one setting; `Order` gives the order in
which `netif_set_addr` and `assign_default_ip` write. `call[t]` is the function
of the DHCP client that thread `t` has decided to call: the time-out handlers
and `dhcp_recv` look at the state first and act later, and another thread may
have changed it in between. `offered` is the address in `struct dhcp`, `options`
the mask and the gateway there. `dhcp_bind` copies those two, but hands the
address on by reference (`dhcp.c:1139`): `From` reads it when it is written, and
`remove` is what `netif_set_addr` decided on from an earlier look at it. Any
thread that discovers, releases or starts anew clears them in between.

| Model | Code |
|---|---|
| `WaitNetwork`, `PollSuccess`, `PollAgain`, `PollTimeout`, `Assigned` | `main_thread` |
| `XemacAdd`, `StartDhcp`, `SetDone` | `network_thread` before its loop |
| `RequestTimeout`, `LeaseTimeout` | `dhcp_fine_tmr` and `dhcp_coarse_tmr`, in `network_thread`'s loop and in `tcpip_thread` |
| `Offer`, `Ack`, `Nak` | the tests in `dhcp_recv`, in `tcpip_thread` |
| `TakeOffer`, `TakeAck`, `TakeNak` | `dhcp_handle_offer`, `dhcp_handle_ack`, `dhcp_handle_nak` |
| `BindLease`, `SetAddress` | `dhcp_bind` up to its call of `netif_set_addr`, and the begin of that |
| `Discover` ... `Starting` | `dhcp_discover`, `dhcp_select`, `dhcp_renew`, `dhcp_rebind`, `dhcp_reboot`, `dhcp_release_and_stop`, `dhcp_start` |
| `LinkDown`, `LinkUp` | `eth_link_detect`, `netif_set_link_up`, `dhcp_network_changed` |

Abstractions: the counters `tries`, `request_timeout`, `t0/t1/t2` and the
transaction id are left out, so a request may time out and a lease expire at
any moment that their values allow in some run; messages have no contents but
the lease. The stores of `dhcp_handle_ack` are one step, and so are the reads of
`dhcp_bind`: a thread that clears the lease clears the address in one step, mask
and gateway in the next, so that what is lost of a lease is any part of it that
could be lost between two of those stores. Where mask or gateway are lost
`dhcp_bind` makes up a pair ("made up"). `options` is forgotten once it is copied:
nothing reads it before the next ACK has stored it. `DHCP_DOES_ARP_CHECK` is 0
(`lwip211.mld:134`, which the build scripts leave as it is). What `main_thread`
does once it has settings, printing, setting up devices and starting the
application, belongs to other modules.
`Late` is the only appeal to time: what takes the client longer than the ten
seconds of polling (six unanswered requests, the first coarse timer after 60 s),
or longer than the 500 ms in which main_thread notices an address (two
reboots), happens only after the polling; the comment at `Late` has the
numbers. `link_detect_thread` runs only when the others are not busy (`Runs`).

* `boot` (1 lease, 2 polls, 1.4 million states, 110 s): `CompleteOnSuccess`,
  while main_thread polls, an address comes with mask and gateway, in whatever
  order threads run; `SettingsAgree`, the three settings have one source, unless
  two threads wrote at once, or another thread cleared the lease while
  `dhcp_bind` took the settings from it (then the board has the mask and the
  gateway of a lease without its address, or an address with a made-up mask; the
  history variable `overlap` tells both); `BootEnds`, main_thread comes to set up
  the devices and start the application, whatever the DHCP server does, unless
  the interface could not be added. Two polls show a poll that is neither the
  first nor the last. One lease can be mixed with the default, the made-up and
  the removed settings; without `BootEnds` the two invariants hold for two leases
  too (3.0 million states), and they are proved for any number. Fairness is
  `WF(MainThread)` and `WF(NetworkThread)` (equal priority, time slices);
  `tcpip_thread` and the server owe nothing. When `xemac_add` fails main_thread
  waits for ever, which is why deadlock is not checked and `BootEnds` has that
  exception.
* `boot_static` (finding): after the time-out the DHCP client still runs, and a
  NAK or giving up removes the static address.

Proved (`BootProofs`) for every set of leases and every number of polls:
`TypeOK`, `CompleteOnSuccess`, `SettingsAgree`. The invariant says that without
an overlap there is one writer, whose finished settings have its value and whose
lease still has its address (`OneWriter`); that until main_thread gives up only
`tcpip_thread` writes and nobody is about to release the address
(`OnlyTcpipWrites`); what `dhcp_bind` has in hand of the lease it was given
(`OfferInHand`); and how far `tcpip_thread` has got (`TcpipInOrder`), also when
its lease lost the address before or after `netif_set_addr` looked at it.

### DhcpTimers: the counters of the DHCP client

`Boot` lets requests time out and leases expire at any moment. Here they come
from the counters. `mem` is `struct dhcp`; what a thread has still to do is the
sequence `todo[t]`, of stores and of steps that look at fields and decide on
further ones, because `network_thread` runs the timers without lwIP's core lock
and `tcpip_thread` runs them too (`timeouts.c`). At `-O2` each function loads a
field once, so that every load is part of the step that uses it.

| Model | Code |
|---|---|
| `FineTick`, `Timeout` | `dhcp_fine_tmr`, `dhcp_timeout` |
| `CoarseTick`, `TickT2`, `TickT1` | `dhcp_coarse_tmr` |
| `T2Timeout`, `T1Timeout`, `NextT2`, `NextT1` | `dhcp_t2_timeout`, `dhcp_t1_timeout` |
| `Compare`, `Ask`, `Send` | `dhcp_set_state`, `dhcp_discover`, `dhcp_select`, `dhcp_renew`, `dhcp_rebind` |
| `ReleaseAndStop`, `StartAgain` | `dhcp_release_and_stop`, `dhcp_start` |
| `HandleOffer`, `HandleNak`, `HandleAck`, `Bind` | `dhcp_recv`, `dhcp_handle_offer`, `dhcp_handle_nak`, `dhcp_handle_ack`, `dhcp_bind` |

A minute passes (`Minute`) once both threads have called `dhcp_coarse_tmr`; the
fine timers may tick at any moment, which includes what the code does, and what
the threads do takes no time to speak of. Left out: the number of tries, the
transaction id, options, infinite leases and the link, which stays up.

* `dhcp_timers` (a lease of 4 minutes, counters below 6, 4.9 million states,
  2 min): types; `LeaseRespected`, no address is kept beyond its lease, in any
  interleaving, unless a tick was under way while the ACK was handled;
  `NotStuck`, a client at rest has a timer running, and `AskedFirst`, no lease
  is given up without an attempt to extend it, both as long as no tick began
  while the other thread was at work. A lease of one minute is given up unasked
  all the same: T1 is rounded to the same minute, and `t0_timeout` is compared
  first (`dhcp.c:440`). With a lease of 4, T1 and T2 are
  different, counted twice in a minute, and tried again once. There is no
  fairness.

The exceptions (`overlaps`) are real too. A restart by one thread in the middle of
a renewal by the other leaves RENEWING or BOUND with `t0_timeout` 0: no timer
runs any more and the client is stuck. A decrement that is lost, or decided on
before the other thread's store, lets a lease end unasked. That the timers run
twice as fast ("Must be called once a minute", `dhcp.c:427`; "every 500ms", `:461`)
makes leases end early, never late.

Proved (the second half of `BootProofs`) for every set of leases, width of the
counters and number of ticks, where what a thread has yet to do is a sequence of
any length:

* `LeaseRespected`, from `LeaseInv`. Unless a tick was under way while the ACK was
  handled, either `tcpip_thread` is in the middle of `dhcp_bind` and nobody counts
  (`Binding`), or the client serves the lease (`Serving`): it is without an
  address, or about to give it up, or the lease is counted (`Alive`): every value
  that a thread has yet to store in `lease_used` is at least the minutes that
  have passed and less than the lease, `lease_used` itself is behind by one
  minute at most, and only until a thread has counted that minute.
* `NotStuck` and `AskedFirst`, from `SteadyInv`, which speaks of clients without
  overlaps. There one thread is the `Worker`, which may handle a tick, and the
  other has at most the steps of a reply. `Awake`: what turns `request_timeout`
  off is followed, in the same thread, by a step that sets it, and what ends a
  lease is followed by `dhcp_start`. `Asking`: while the state is BOUND,
  `lease_used` and T1 together stay at half the lease, rounded up (`Counting` has
  where the worker may be between the two stores); with two minutes or more that
  is less than the lease, so T1 ends first, and the request is then on its way or
  sent. A lease of one minute has no such room, as the property says.

Neither invariant is a consequence of the properties: both say what a step that
was decided on long before may still store. TLC checked both on
leases of two and three minutes before they were proved.

### WebServer and WebPage: sockets, requests, responses, and the page

| Model | Code |
|---|---|
| `Accept`, `AcceptFails`, `Read`, `ReadFails`, `Close`, `Hangup` | `start_application`, `process_http_request` |
| `Get`, `NotFound`, `Post`, `PostRejected` | `generate_response`, `do_http_get`, `do_404`, `do_http_post` |
| `WriteHeader`, `WriteBody`, `BodyDone`, `WritePost` | the `lwip_write` calls and the loop over `f_read` |
| `Connect`, `Ask`, `Stall`, `Leave`, `CardFails` | browsers and SD card |
| `LedSubmit`, `Success`, `Failed`, `Timeout` | `led_submit`, `led_callback` of the page |
| `PageLoaded`, `SwitchSubmit`, `FadedIn` | `init`, `switch_submit`, `switch_callback`, `result_fade_in` |
| `Obey`, `ReadSwitches`, `Reject`, `GetFile` | the server's handling of what the page asks |

`WebServer` is the server with any browsers. Bodies are counted in units; the
wording of requests, headers and file names is abstracted; a failing card fails
from then on. Of sockets and TCP there is what `lwip_write` shows the server
(`Writable`, `Unreachable`): it takes everything, fails, or blocks while the
browser neither reads nor leaves.

`WebPage` extends it with the page that the server delivers: each client is a
connection of one browser. The form of an LED stays enabled, so that commands
for it may be under way together (`crossed`). The form for the switches is
disabled when the user submits it and enabled when an answer, or the want of
one, was faded in; the page's own request, when it has been loaded, leaves the
form enabled, so that the user's may be under way with it, and either of them
enables the form. A command is given up after three seconds, of which the server
knows nothing. A POST is rejected when only its header was in the one segment
that is read, or a sensor fails: it gets no answer, and the connection is
closed. There is one LED, which nobody else sets (buttons are in `RgbLeds`); the
sensors' forms work as the switches' does.

* `web_server` (2 connections, 2 colours, files of 0..3 units, buffer of 2, 416
  thousand states, 90 s): types; `LengthMatches`, a complete response is as long
  as its header says; `SocketsClosed`, no way out leaves a socket open;
  `PageAgrees`, after a command that was answered and not crossed the page shows
  the LED as it is, so that no command that the page gave up is obeyed later
  than one it knows the end of; `EveryoneServed`, who has asked is answered
  unless the server has stopped in one of the ways `Stopped` lists: a browser
  that left (or a failed accept) deleted the thread, a browser sends or reads
  nothing, a failing card makes `do_http_get` loop for ever; `FormReturns`, the
  switches' form is enabled again even then. Two connections show one waiting
  for the other, and two commands crossing; sizes 0..3 with a buffer of 2 have
  the empty file, a part, a whole buffer, and a whole buffer and a part.
  Fairness: main_thread runs whenever it can, the browser's timers fire and its
  callbacks and animations run. Browsers and users owe nothing.
* `web_server_runs` (finding, on `WebServer` alone): `process_http_request` runs
  in main_thread and calls `vTaskDelete(NULL)` when a browser leaves without a
  request.

Proved (`WebPageProofs`) for every set of clients and colours and all sizes: of
`WebServer`, `TypeOK`, `LengthMatches` and `SocketsClosed`, with the invariant
`Accounted`: while a body is being sent, what was sent and what is left make up
what was announced. Every step of `WebPage` is a step of `WebServer` or leaves
its variables alone (`PageRefines`), so that both modules share these
(`PageKeepsServer`). Of `WebPage`, `PageTypeOK` and `PageAgrees`. The latter says
something only of moments when nothing is under way, and is far from inductive:
the invariant (`PageInv`) follows each command through the page, the queue of
accepted connections and the server (`Queue`, `Answering`). If two commands are
under way, both are known to have crossed (`CrossedKnown`); a command that is
alone is the last one, and what it asked for is what the LED shows once it was
answered (`AloneIsLast`); and the page is sure of what it shows only when no
command is left that the server could still obey (`SureOfIt`).

### Qspi and FlashReader: reading the flash

`FlashReader` is what `FlashRead` promises: a read ends, with the units the
flash holds at the address, or with a failure. `Qspi` is the code: `Call`
enters `FlashRead`, `Transfer` is one round of `MultiDieRead`'s loop with
`GetRealAddr` and the transfer itself, `TransferFails` its error path. The flash
is described by what a chip does at the end of a die: it goes on at the die's
beginning (`Wrapped`). A unit is any size that divides a bank.

* `qspi` (single and parallel chips of two dies with two banks of two units):
  `ReadRight`, a read that succeeded gave the units asked for;
  `ReadsAsOne`, `Qspi` implements `FlashReader` under the mapping in `Qspi`.
  Every address and length that fits is read, so reads begin and end at, before
  and after every kind of boundary, and span up to four banks. Fairness is
  `WF(Read)`: the thread that reads goes on.

In stacked mode `MultiDieRead` uses `bank_size` without having set it, and a
read that begins in the lower chip is not split at the upper one. `Qspi` models
both, but neither board has stacked chips, so the run and the theorems exclude
the mode.

Proved (`QspiProofs`) for every size of banks, dies and chips, under
`NotStacked`: `TypeOK` and `ReadRight`. The invariant has the bytes that are in
the buffer (`Progress`) and the bank size and alignment (`Banks`); its step rests
on lemmas about division (`DivUnique`, `DivBetween`, `DivHalf`) that show that a
transfer within a bank is within a die (`SameBank`, `SameDie`, `OneDie`).
`ImplementsReader` is the safety part of `ReadsAsOne`: every step of the loop is
a step of `FlashReader` or a stutter, for every geometry; that a read ends stays
with TLC.

### QspiSetup, FactoryLog and FlashStart: a start of the board, seen from the flash

`QspiSetup` is `qspi_setup`. What it sends depends on the chip alone, so the
set-up is a sequence of transfers: identification, `FlashEnableQuadMode`
(`QuadSteps`), and for chips beyond 16 MB `FlashEnterExit4BAddMode`
(`FourByteSteps`). `Parts` are the entries of `Flash_Config_Table` as far as the
code tells them apart. Each kind of transfer is an action, with its effect on the
chip: `wel`, `busy`, `quad`, `addr4`. Any transfer may fail (`Fails`). `Written`
is the chip finishing a register. While busy it answers nothing but requests for
its status, which is why the code polls. `Reset` leaves the chip as it is,
`PowerCycle` clears what is volatile; in both the boot loader leaves either
address mode. There is one chip, as on both boards; leaving the four-byte mode is
never called. `FlashEnableQuadMode` returns an uninitialised `Status` for one
Spansion chip, so that its set-up goes on or fails. The command to disable
writing is sent there with what the messages held before, and a chip may take no
notice of it (`"disable+"`).

`FactoryLog` is the page with the factory test's results. `Mount`, `Create`,
`Write`, `Close`, `List` are `platform_init_fs`, `create_factest_logfile` and
`fat_ls`; `ReadSize`, `ReadLog`, `PutSentence` are `qspi_retrieve_logfile`, with
one step per read of the flash, which `ReadsAsOne` justifies. `PowerCycle` may
come at any moment and leaves anything in a file that was open; `Programmed`
puts another log into the flash before a start. A read of a chip that was not
set up gives anything (`misread`).

`FlashStart` composes the two: main_thread calls `qspi_setup`, ignores what it
returns (`Continue`), and reads. A chip in the state that `FlashRead` expects
(`Legible`: set up, not busy, address mode and data lines right) gives what it
holds. Failures, resets and power cycles may come anywhere.

* `flash_start` (every chip of the table in any state, 2 logs, size words 0, the
  limit and above, 289 thousand states, 50 s): types of both modules;
  `FreshLog`, the page is this start's log, or cut off or empty (`f_write` is not
  asked how much it took, `f_close`'s result is ignored), or the sentence that
  there is none when there is none or a read at this start returned an error
  (`failed`: the code does not tell the two apart), never an earlier start's,
  unless a read was not legible;
  `WriteProtected`, after a successful set-up the chip is not enabled for
  writing; `ChipReady`, after a successful set-up the reads are legible;
  `StartEnds`, unless the board is restarted for ever it comes to serving pages
  or `platform_init_fs` returns an error. Fairness: main_thread goes on and the
  chip finishes what it writes; a chip that never did would hold the loops for
  ever. Deadlock is not checked, because main_thread may return.

`ChipReady` excepts ISSI chips, for a flaw of the code: nobody waits for their
status register (`qspi.c:546`, `:556`), so that the reads may find the chip
busy, or the command for four-byte addresses (`qspi.c:906`) was lost. It does no
harm when the boot loader has left the chip in that mode.

Proved (`FlashStartProofs`) for all logs and sizes: of `FactoryLog`'s own
specification, where any read may go wrong, `TypeOK` and `FreshLog`; the
invariant follows the log on its way from buffer to cache to file (`OnItsWay`).
Of `FlashStart`, whose chips are those of the table: it implements `FactoryLog`
(`StartImplements`, so that `FreshLog` holds there too), `StartTypeOK`,
`WriteProtected`, `ChipReady`, and `PageTrusted`: with any make but ISSI, a set-up
that succeeded leaves no room for a page that is not the log's. The invariant
(`StartInv`) says for each make what the set-up has achieved at each transfer: that
a write was enabled, that it was waited for, which modes the chip is in
(`ChipInv`), and that a read which could not be trusted came after a set-up that
failed, or of an ISSI chip (`Trusted`).

### FrameChannel, EmacRx and EmacTx: Ethernet frames

`FrameChannel` is what the interface promises lwIP on either side: frames may be
lost at any point, but none passes another and none becomes two. `EmacRx` and
`EmacTx` implement it (`InOrder`), under mappings that read the frames on their
way off the ring, the queue and the mailbox.

Reception (`EmacRx`): the MAC stores frames in pool buffers that it finds in the
ring (`Receive`, `Miss`); the interrupt handler moves them to a queue, puts new
buffers into the ring as long as the pool has any, and after a bus error frees
everything and sets the ring up anew; the input thread takes them from the queue
and posts them to `tcpip_thread`, which keeps some of them (`held`, `ooseq`).

| Model | Code |
|---|---|
| `storage`, `first`, `done`, `hw`, `got` | `rx_pbufs_storage` and the driver's ring |
| `EnterRecv` and the handler's steps | `emacps_recv_handler`, `emacps_error_handler`, `setup_rx_bds`, `HandleEmacPsError` |
| `head`, `tail`, `len`, `slot` | `recv_q` (`xpqueue.c`) |
| `inp`, `seen`, `cur`, `sem` | `xemacif_input_thread`, `xemacpsif_input`, `low_level_input` |
| `mbox`, `pending`, `ooseq`, `held` | `tcpip_input`, `pbuf_free_ooseq`, what TCP keeps |

* `emac_rx` (3 buffers, 2 descriptors, queue of 3, mailbox of 1, at most one
  buffer held, 453 thousand states, 2.5 min): types; `OwnedOnce`, every buffer is
  in exactly one place; `InOrder`; `QueueServed`, a frame in the queue does not
  wait for another one, although the semaphore is binary and the length is read
  before the masked region; `Recovers`, after the pool has run empty and left the
  MAC without a descriptor, reception goes on as long as frames arrive. With
  these sizes pool, ring and mailbox run full and empty in every combination;
  the queue is not smaller than the pool, as configured (4096 to 256). Fairness:
  a raised interrupt is served, and the threads get the processor again and
  again (strong, because the handler may always come between). The bus error of
  a ring with free descriptors frees buffers that others own (`corrupt`); the
  model stops there.

Sending (`EmacTx`; what receiving has as well is called `tx...` here):
`low_level_output` puts each buffer of a chain into a descriptor, the USED bit of
the first one last, and refers to the buffers until the MAC has sent them; TCP
refers to a segment until it is acknowledged, and writes to it to send it again.
A frame whose receiver's address is not known waits in ARP's table, which refers
to it too (`arpq`, a set: the order in which ARP sends is any, and which frames
share a queue of three does not matter); it may be acknowledged or given up there.
From `txfirst` on the ring has `txdone` descriptors that were taken back from the
MAC and of which `freed` are freed already, then `txhw` that belong to the MAC.

| Model | Code |
|---|---|
| `Enter`, `OutTakeBack` ... `StartTx` | `low_level_output`, `emacps_sgsend`; the loop over the USED bits in two steps |
| `FromHw`, `FreeSent` | `process_sent_bds`: a round of its outer loop, a descriptor of its inner one |
| `SendIntr`, `IntrReturn` | `emacps_send_handler` |
| `TxError`, `GiveUp` | `HandleTxErrors` (stops the MAC), `HandleEmacPsError` (does not); `free_onlytx_pbufs` and `free_txrx_pbufs`, one descriptor per step |
| `Mac` | the controller reading descriptors (external) |
| `ref`, `Deref` | `pbuf_ref`, `pbuf_free` |
| `Retransmit`, `FreeSegment`, `Busy` | `tcp_rexmit_rto_prepare`, `tcp_rexmit`, `tcp_output_segment_busy` |
| `Queue`, `Ready`, `Dequeue` | `etharp_query`, `etharp_update_arp_entry`, `etharp_free_entry` |

* `emac_tx` (2 frames of up to 2 buffers, 3 descriptors, 42.2 thousand states):
  types; `FreeSlotsEmpty`, a free descriptor refers to nothing; `RefCounts`, a
  buffer has as many references as there are places that refer to it;
  `FrameWhole`, what the MAC may send is a whole frame, but for the time when
  the handler of an error frees buffers of a MAC that goes on;
  `UnsentNotInDriver`, a segment that TCP may write to is not with the driver;
  `TxInOrder`; `Released`, the driver lets go of every buffer. Two frames of two
  in three descriptors wrap around, and fill the ring so that the second finds
  no space; with three frames of up to three buffers in four descriptors (4.7
  million states) the invariants and `TxInOrder` hold as well. Fairness: the MAC sends, its interrupt is
  served, a critical section is gone through.

Proved (`EmacProofs`) for every number of buffers, descriptors, slots, messages,
frames and parts of a frame. Of reception: `TypeOK` and `OwnedOnce`. The
invariant (`RxInv`) has what a thread knows that was preempted between looking
at the queue and taking from it (`ThreadInv`), where the handler is in its loops
(`HandlerInv`), that the filled slots of the queue are a row of `len` from `tail`
on (`QueueInv`), and that each buffer is in exactly one place (`Once`); every
action moves at most one place's buffer to another, which `MovePlaces`,
`FillPlaces`, `TakePlaces`, `PassPlaces` and so on show.

Of sending: `TxTypeOK`, `FreeSlotsEmpty`, `RefCounts`, `FrameWhole` and
`UnsentNotInDriver`. The invariant (`TxInv`) has two halves. The first
(`RefInv`) is about references: each buffer's count is the claims to it (a
descriptor, and its owner and ARP if it is the chain's head) plus one if the buffer
before it in the chain is alive. `DerefKeeps` shows that `pbuf_free`, which walks
down a chain for as long as it frees, takes exactly one claim and keeps that
balance. The second half is about the ring, counted from `txfirst`: which
descriptors hold a buffer (`Emptied`), that each belongs to a frame whose buffers
are all there in a row with the LAST bit at its end (`Whole`), and that the MAC is
at the begin of a frame, with those before it sent and those after it not
(`MacInv`). The frame that is being filled in is behind all of them with its USED
bits set (`UsedNew`), and what is about to be sent is not in the ring, and has
either its owner or ARP to send it (`Mine`).
Taking back (`SentAll`) then frees whole frames, and what the MAC reads
(`MacReads`) is one whole frame.

Left out: the PHY, caches, the set-up of the controller, and the
index `bd_space_index` that grows with every bus error. Buffers are freed in the
interrupt handler, which `LWIP_ALLOW_MEM_FREE_FROM_OTHER_CONTEXT` allows.

## 4. What is proved, and what is only checked

Proved by TLAPS for every value of the constants, from the named assumptions on
them (and `NotStacked` for the flash) and nothing else:

| Module | Theorems |
|---|---|
| `RgbLedsProofs` | `TypeCorrect`, `StatusAgrees`, `ButtonRestores`, `SavesOnce` |
| `K24LedsProofs` | `TypeCorrect`, `PinsAgree`, `ButtonsRestore` |
| `MioLedsProofs` | `TypeCorrect`, `RightAtRest` |
| `BootProofs` | `TypeCorrect`, `SuccessIsComplete`, `OneSource`; `LeaseInductive`, `TimersTypeCorrect`, `LeaseKept`, `SteadyInductive`, `NeverStuck`, `AskedBefore` |
| `WebPageProofs` | `TypeCorrect`, `BodyAsAnnounced`, `NoSocketLeaks`, `PageTypes`, `PageTrue`, `PageKeepsServer` |
| `QspiProofs` | `TypeCorrect`, `ReadsRight`, `ImplementsReader` |
| `FlashStartProofs` | `TypeCorrect`, `NeverStale`, `StartTypes`, `StartImplements`, `Protected`, `Understood`, `PageTrusted` |
| `EmacProofs` | `RxInductive`, `TypeCorrect`, `EveryBufferOnce`; `TxInductive`, `TxTypeCorrect`, `FreeSlots`, `ReferencesCounted`, `FramesWhole`, `UnsentKept` |

All follow the same argument: an invariant holds initially, every action keeps
it (one lemma or step per action), and it implies the property. A run does not
always check again the types that are proved.

Only model-checked:

* liveness under fairness, which is out of this prover's reach: `ButtonHandled`,
  `ButtonsHandled`, `Settles`, `BootEnds`, `EveryoneServed`, `FormReturns`,
  `StartEnds`, `QueueServed`, `Recovers`, `Released`;
* that `EmacRx` and `EmacTx` implement `FrameChannel` (`InOrder`, `TxInOrder`):
  the mappings select and sort, by recursion over the data, and what a recursive
  definition computes is beyond the provers. What a proof needs of single
  elements can be had without: `EmacProofs` finds the first descriptor with a
  LAST bit as the least element of a set (`FrameLengthType`).

## 5. Where the code disagrees with what is said of it

| Where | What happens |
|---|---|
| run `boot_static` | DHCP removes the static address after the fallback (`ws_main.c:188`). |
| run `web_server_runs` | A browser that connects and leaves ends the server (`webserver.c:51`). |
| `touched` in `PressAndRestore` | A press in the middle of a LED command restores an old colour (`platform_gpio.c:78`). |
| `Missed` in `LedsRightAtRest` | Two switches moved at once are ignored (`platform_gpio.c:275`). |
| the ISSI chips in `ChipReady` | The set-up of a large ISSI chip succeeds in the three-byte mode (`qspi.c:906`). |
| `overlaps` in `NotStuck`, `AskedFirst` | Two unlocked timer drivers stop the DHCP client or lose a renewal (`dhcp.c:427`, `:461`). |
| `overlap` in `SettingsAgree` | Threads write the settings without a lock, and clear a lease that is being bound (`ws_main.c:132`, `:188`, `dhcp.c:992`, `:1139`). |
| `granted = 1` in `AskedFirst` | A lease of one minute is given up without a request to extend it (`dhcp.c:440`). |
| `corrupt` in `OwnedOnce` | A bus error while the ring has free descriptors frees buffers that others own (`xemacpsif_dma.c`, `free_txrx_pbufs`). |
| `txisr` in `FrameWhole` | The handler of a bus error frees the buffers of frames that the MAC is sending (`xemacpsif.c`, `HandleEmacPsError`). |

For the two runs `PROJECT.json` quotes the sentence that the code contradicts.
The others are exceptions that a property names, so that what is left holds.

## 6. What is not modelled, and why

* The share of the repository that the models cover is small by construction:
  nearly all of it is vendored (lwIP, twice, and with protocols and applications
  that the images do not use, such as PPP, IPv6 and its own HTTP server) or
  data. The models cover the application's own code, and of the vendored code
  the parts where the application's threads meet it: the DHCP client, the
  Ethernet driver with its queues, `netif_set_addr`, the buffers.
* The K24 image: `qspi.c`, `webserver.c` and `ws_platform_fs.c` are the same
  code, `ws_main.c` differs in its banner and the sensors' set-up and
  `ws_http_response.c` in the sensors' commands, so that the modules about these
  stand for both.
* The K24's MIO LEDs: its handler works like the ZUBoard's in `MioLeds`, in
  reverse order and with two buttons that each switch an LED of the PL. It
  shares with `K24Leds` only the register that masks the pins of others.
* The sensors: two sequences of bus transfers without a thread or state of their
  own. Whether the three registers of a pressure belong to one sample depends on
  the sensor's settings and timing, which the source does not show. That a
  reading fails is `Reject` in `WebPage`.
* The states of link detection: `Boot` has what a link change does to the DHCP
  client; the rest is a sequence of PHY accesses in one thread.
* The parsing of requests, headers and file names, and the texts of pages.
* TCP, IP, lwIP's sockets, FatFs, FreeRTOS and the drivers: third-party code,
  partly outside the repository, taken as services. Where the models need what
  lwIP's part of it does (a write that blocks or fails, a segment allocated or
  freed, a buffer read), `PROJECT.json` names its lines. Each module says what it
  takes from them.
* Hardware designs and build scripts: nothing of them runs on the board.
