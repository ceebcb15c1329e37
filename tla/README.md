# LoRa IPv6: specifications, model checks and proofs

The repository carries IPv6 to battery driven LoRa nodes: an end device (the
*ping* sketch on a modified LMIC library) and a gateway (a Linux program between
a LoRa concentrator and an Ethernet link) that compress IPv6/ICMPv6 headers into
a rule byte and a few fields. This directory holds TLA+ modules for the logic of
both programs, the TLC runs that check them on small instances, and TLAPS proofs of
what the runs check for every value of the constants.

Run inside this directory: `tlc -config MCOsLmic.cfg MCOsLmic` (one `.cfg` per
run, see below), and `tlapm M.tla` for `M` one of `OsLmicProofs`, `PingNodeProofs`,
`GatewayProofs`, `SchcLinkProofs`, `ConcentratorProofs`, `BoardProofs`, `LmicMacProofs`
and `LmicChannelsProofs`.

## 1. The system

    host --- router === Ethernet === gateway ~~~ LoRa ~~~ end device (ping.ino)
                        send_package  --> lgw_send      radio.c -> oslmic.c -> listening_mode
                        recive_package <-- lgw_receive   tx, rx  <- txjob

### Components, their state and operations

| Component (source) | State | Operations | What makes it correct |
|---|---|---|---|
| **oslmic**, `end-device/src/lmic/oslmic.c` | two linked lists of `osjob_t` (runnable, timed), each job's deadline and function, the clock | `os_setCallback`, `os_setTimedCallback`, `os_clearCallback`, `os_runloop_once` | a job is linked once; timed jobs are in order; one arming is one execution, never early, the last arming decides; no runnable job starves |
| **hal**, `hal/hal.cpp` | interrupt level, last level of the DIO lines, overflow byte of the clock | `hal_enableIRQs` (polls the radio), `hal_ticks`, `hal_checkTimer`, `hal_failed` | the handler runs only at level 0; time does not go back |
| **radio driver**, `lmic/radio.c` | RegOpMode, RegIrqFlags, RegFifo, `LMIC.frame`, `LMIC.osjob` | `os_radio`, `starttx`, `startrx`, `radio_irq_handler` | the radio is asleep when started; the interrupt reaches the callback of the operation under way |
| **ping sketch**, `examples/ping/ping.ino` | `txjob`, `solicitation`, `src_NS`, `target_ND` | `tx`, `rx`, `tx_done`, `listening_mode`, `Echo_replay`, `Router_Solicitation`, `Neighbor_Solicitation` | the node listens whenever it does nothing else; solicits until answered; answers echo requests with what was asked |
| **gateway program**, `project_ipv6/src/project_ipv6.c` | one mutex, `list`, `S_addr`, `ETH_mac`, two threads | `send_package` (Ethernet to LoRa), `recive_package` (LoRa to Ethernet), menu | the list keeps each station once; pointers used outside the mutex stay valid; traffic is not given to another device or host; no thread keeps the mutex |
| **station list and table**, `libstack_ipv6/src/IPv6/IPv6.c` | `NodeList`, `Saved_addr` | `add_EUI_node`, `add_MAC_node`, `add_IPv6_node`, `get_info_by_*`, `input_addr`, `output_addr` | lookups find what was added; a pair saved for a device is that of one of its requests |
| **header compression**, `SCHC.c` at each end | none; each end passes what it remembers | `schc_compression`, `schc_decompression`, `icmp_decompression` | what one end compresses the other understands |
| **packets**, `IPv6.c` at each end, `tun_tap.c` | the buffer a packet is built, received and read in | `router_*`, `neighbor_*`, `redirect`, `icmp_reply`, `checksum`, `get_IPv6_data_*`, `get_ICMP6_data_*`, `send_raw_package`, `recive_raw_package_*` | every packet has a checksum a receiver verifies and is read as it was meant, whatever the buffer held before |
| **libloragw, traffic** (`loragw_hal.c`, `loragw_reg.c`) | register page, TX data buffer, FIFO | `lgw_send`, `lgw_receive`, `lgw_reg_*` | a transfer reaches the register it names; the packet asked for is emitted, whole; every received frame is returned once and in order; a full FIFO is emptied |
| **libloragw, start** (`loragw_hal.c`, `loragw_lbt.c`, FPGA, radios) | the static configuration, `lgw_is_started`, the chip, the FPGA, the AGC firmware | the `*_setconf`, `lgw_start`, `lbt_setup`, `lgw_stop`; `main`, the signal handler and the menu of `project_ipv6.c` | a start that succeeds leaves hardware that does what was configured, also after a start that failed or another configuration |
| **LMIC MAC**, `lmic/lmic.c`, with `ttn-otaa.ino` and `ttn-abp.ino` | the struct `LMIC`: `opmode`, frame counters, `txCnt`, data rate, link check, channels, bands, times, `osjob` | `LMIC_setTxData2` and the rest of `lmic.h`, `engineUpdate`, the callbacks of the two windows, `decodeFrame`, `processJoinAccept`, `nextTx` | a number is used for one payload; payloads are not dropped; downlinks are acknowledged; the node goes on sending; duty cycle and delays are kept on a channel that is enabled |
| AES, SDI-12, other sketches, JSON parser, GPS, `util_*` | - | - | third-party or unused by the programs |

### How they interact, and where it is hard

* **One thread, one hidden interrupt (device).** The Arduino HAL has no real
  interrupt: `hal_enableIRQs` polls DIO0 each time the interrupt level comes back
  to 0. Every `os_` function ends with it, so `radio_irq_handler`, which queues
  `LMIC.osjob`, can run in the middle of `os_runloop_once`, of `tx`, of `rx` and
  of `os_setTimedCallback`.
* **A preset callback.** The handler runs whatever `LMIC.osjob.func` holds; the
  sketch writes it *after* a poll (`os_radio(RADIO_RST)`) and *before* starting
  the radio.
* **One timer for three purposes.** `txjob` is the next router solicitation, the
  next neighbor solicitation or the delayed echo reply; arming it for one drops
  the other. The reply is built in place from `LMIC.frame`, an interval later.
* **A clock that wraps.** `ostime_t` is a signed 32 bit number; deadlines on both
  sides of the wrap share a list.
* **Two threads, a mutex around writes only (gateway).** Walks and table reads
  are done without it, pointers to elements are kept across its release, and a
  second walk repeats the first with a different test.
* **State that the frame leaves out.** The reply to an echo holds no address: the
  gateway must have kept the pair. The device reads addresses at fixed offsets and
  never checks the length.
* **One chip, two threads, no lock.** `lgw_send` and `lgw_receive` are sequences of SPI
  transfers. Registers are paged through a global variable, the TX data buffer of the
  chip has one address and one content, and a new packet aborts the one on air.

* **One job, two windows, a struct of flags (LMIC).** Every step of the MAC runs in the
  one `LMIC.osjob`, and `engineUpdate` is called from it, from the API and from inside
  event handlers. `OP_TXRXPEND`, `txCnt`, `dnConf`, `adrAckReq` are shared by joins,
  retries, polls and data frames, and each path has to leave them right for the others.
* **Two programs without a handshake (start).** The host writes a value to a register,
  waits a millisecond and reads a status; the AGC firmware polls the register. Nothing
  says that the value was seen.

`PROJECT.json` lists each such hazard at its line, with the property that covers
it or the reason why none does yet.

## 2. Modules

| Module | Models | How state and actions correspond |
|---|---|---|
| `OsLmic` | `oslmic.c`, clock and timer test of `hal.cpp` | The two lists are sequences. Interrupts are off inside an `os_` function, so each is one step. `os_runloop_once` is two steps, `Pick` (to the unlinking) and `Call` (`if(j) j->func(j)`); between them (`pc = "picked"`) the polled handler may arm and clear jobs. Callbacks arm and clear any job any number of times (`pc = "called"`) until `Return`. Times are signed and `Wrap` reduces them; `CmpWraps` says how the build compiles the signed comparison of two deadlines. |
| `JobService` | what `oslmic.h` promises, without lists | `armed[j]` is idle, ready or timed; `Take` gives any ready job, or the earliest timed one that is due when none is ready. |
| `OsLmicProofs` | the theorems about `OsLmic` | |
| `PingNode` | `ping.ino` on the run loop, `radio.c`, the poll of `hal.cpp` | Uses the lists and operators of `OsLmic` by INSTANCE. `at` is the position of the processor, `poll` is true where the next thing it does is a poll: `hal_io_check` is then the only step of the processor, whether or not the line is high. `BeginTx` / `Send` / `Rearm` are `tx` cut at its polls, `listening_mode` / `Relisten` the reception callback cut at its poll. `Receive`, `TxDone` and `Tick` are the air and the clock, at any point. |
| `PingNodeProofs` | the theorems about `PingNode` | |
| `NodeList` | the functions of `IPv6.c` on the list | An element pointer is an index, `NULL` is 0; lookups stop at the first match, as the walks do. |
| `Gateway` | the two threads | `tx` and `rx` hold each thread's position and live locals. A step is the code between two accesses another thread can see apart: walk and link are two steps, `input_addr` is `BeginSave` / `EndSave` (a concurrent `output_addr` reads old, new or mixed addresses), a lookup without the mutex is a step. `WalkPastEnd` is the read of the uninitialised next pointer of an element that is being linked; after it, or a dereference of NULL, `crashed` holds and nothing moves. |
| `GatewayProofs` | the theorems about `Gateway` and the lemmas about the walks and searches of `NodeList` | |
| `SchcCodec` | both `SCHC.c`, the bytes `listening_mode` reads | Functions on frames. A byte is the pair (field it comes from, place in it), so a wrong offset, a swapped field or a byte left by an earlier frame shows. |
| `SchcLink` | one link with what both ends remember | compress, transmit, read or decompress, with the saved pair and `src_NS` as state. |
| `SchcLinkProofs` | the theorems about `SchcLink`, the lemmas about slices of frames and about the codec | |
| `Concentrator` | `lgw_send`, `lgw_receive` (`loragw_hal.c`), `lgw_reg_w`, `lgw_reg_wb`, `lgw_reg_rb`, `page_switch` (`loragw_reg.c`) | `call[t]` is the call of each thread, the access it is at (an index into the accesses of that call) and the stage of that access: the test of the page, the assignment of `lgw_regpage`, the switch in the chip, the transfer, and the second transfer of a register of less than a byte; a register without a page begins at its transfer. Each is a step. `rewound`, `loaded`, `onAir`, `fifo` and `valid` (whether the chip reports an IF chain of the first packet) are the chip. `rivals[t]` is a history: the packets of the other thread's calls that overlap with this `lgw_send`. `EmissionDone` and `Receive` are external. |
| `ConcentratorProofs` | the theorems about `Concentrator` | |
| `Board` | `*_setconf`, `lgw_start`, `lgw_stop` (`loragw_hal.c`), `lbt_setconf`, `lbt_setup` (`loragw_lbt.c`), `lgw_connect`, the AGC firmware, `main` of `project_ipv6.c` and utilities | A setter is an operator from the static variables (`conf`) to what they are after; it returns them unchanged when it refuses. `lgw_start` is a sequence of phases with `Fails` for its early returns; each transaction with the AGC is three steps of the host (`StartsTransaction`, `GivesValue`, `ChecksStatus`), and `FirmwareWaits` / `FirmwareTakes` come between them or not. Frequencies of radios and channels are in units of 100 kHz, those of IF chains in Hz; of registers only what a configuration changes is kept. |
| `BoardProofs` | the theorems about `Board` | |
| `Icmp6` | `IPv6.c` of both ends, the copies of `tun_tap.c` | Bytes, as in the code, with a smaller byte: an address is two bytes, a buffer is a sequence, a builder writes a prefix of what was there. `checksum` is the code's algorithm; the property `Verifies` is RFC 1071's. |
| `LmicMac` | `lmic.c` without time, `ttn-otaa.ino` | `LMIC` is the struct with the state of its job and of the radio. A handler is an operator from a struct to the set of structs it may leave, more than one where `engineUpdate` may or may not be able to send now. `RunOsjob` runs the callback in `LMIC.func`; `TxEnds` and `WindowEnds` are the interrupt; `do_send` and `OtherCall` the application. `sent`, `silent`, `ackDue` are histories. |
| `LmicMacProofs` | the theorems about `LmicMac`, one lemma for each operator on the struct | |
| `LmicChannels` | `lmic.c` and time: `nextTx`, `updateTx`, `txDelay`, the channel functions and commands, `ttn-abp.ino` | Times of the code are modulo `W` and compared by the sign of their difference; the histories (`quiet`, `nodeQuiet`, `spaced`, `rxend`) are true times. A transaction is its airtime and `Window` ticks. `nextTx` is four of the rounds of its loop (`Round`): one that does not return takes one of four bands out of `bmap`, and one that clears a bit already clear is `stuck`. |
| `LmicChannelsProofs` | the theorems about `LmicChannels`, one lemma for each action | |
| `MC*` | constants for TLC | |

`LmicMac` and `LmicChannels` model the same functions from two sides: what a frame
holds and which job is next, and when and on which channel it goes out. Where
`engineUpdate` in `LmicMac` either sends or waits, `LmicChannels` says which.

Operators under a comment beginning "Mutant" are altered forms of the definition
after them (a dropped guard, a missing reset, a swapped order). They belong to no
specification; `PROJECT.json` pairs each with the property that fails when it
replaces the original, which shows the property depends on that line of code.

## 3. Runs

| Run | Checks | Bounds, and why they are enough |
|---|---|---|
| `MCOsLmic.cfg` | `TypeOK`, `QueuedOnce`, `SortedSchedule`; the refinement `ServiceSpec`; `RunnableServed` under fairness | 2 jobs, 2 callbacks, 6 ticks. With two jobs each list is empty, holds one, or both, a job is in the other list when armed again, and the deadlines lie on both sides of the wrap from every start of the clock. The safety properties are also proved for every size. |
| `MCPingNode.cfg` | `ReplyUntouched`; `ListensAgain`, `SolicitsAgain`, `EchoAnswered` under fairness | One frame of each kind that `listening_mode` tells apart, in any order, at any point, over an unread one; 4 ticks, an interval of one tick: the timer fires before, between and after any two frames. |
| `MCPingAssert.cfg` | `NoAssertFailure`: **violated** | the three kinds of frame that change what the timer is used for |
| `MCGateway.cfg` | `OneEntryPerMac`, `HeardIsListed`, `LookupsAgree`, `DevicesNotConfused`, `ReplyHasRequest`, `EntriesKept` | 2 devices, 2 hosts, the router, bursts of up to 2: two stations can be added at the same time by the two threads, two devices can be confused, a saved pair can be overwritten while it is read. Devices and hosts are symmetric: the code does nothing with them but compare. |
| `MCGatewayLive.cfg` | `LockReleased`, `FrameFinished` | 2 devices, 1 host, the remaining kinds of packet; no symmetry |
| `MCSchcLink.cfg` | `EchoRoundTrip`, `SolicitationRoundTrip`, `DownlinkUnderstood` | every packet of the link: echo requests from three sources with 0, 1, 8 and 51 bytes of data (the last is the most a 64 byte buffer takes), advertisements and solicitations with every combination of local and global source and target, any number one after the other |
| `MCConcentrator.cfg` | `TypeOK`, `RightRegister`, `OwnPacket`, `FetchedInOrder`; the action property `SendStarts`; `FullFifoServed` under fairness | Both threads send (`project_ipv6.c:526`, `:764`), one also receives, at every interleaving of SPI transfers. Two packets, so that one can be taken for the other; a FIFO and an array of 2: the FIFO is found empty and full, fills up during a call, and the array is full before the FIFO is empty. All but `FullFifoServed` are also proved for every size. The numbers of frames are reused only when no frame with the number is left. |
| `MCLmicMac.cfg` | `NoAssertFailure`, `LinkVerdict`, `NumbersNotReused`, `PayloadSent`; `AckSent`, `KeepsSending` under fairness | Two data rates, three tries, link dead after one unanswered request, counters that roll over at 2 and numbers sent modulo 4: a session runs through every retry, a dead link, a rejoin that is answered, refused or lost, and a reset before the roll over. Downlinks: none, a wrong MIC, a join accept; with an expected number and an acknowledgement, confirmed and not; with a number too high, confirmed and not; one that asks for a poll; one each of the MAC commands that change the state. A poll behind a confirmed frame comes from the downlink that asks for it, from a confirmed one and from `LMIC_sendAlive`. One call of the API at any point. |
| `MCLmicChannels.cfg` | `NextTxReturns`; `DutyKept`, `RetrySpaced`, `GoodChannel` | A clock of 256 ticks with 8 h as 107, started just before its sign change and just before its wrap, so that both fall into the run; airtimes 1 and 2, bands that stay silent 5, 3 and 1 airtimes; four channels of which the fourth may be in a busier or a freer band; 9 ticks are two to three frames; four calls of the application, so that a frame can be given, withdrawn and given again with a call about channels in between. |
| `MCLmicSleeps.cfg` | `NextTxReturns` with bands left unused for longer than half the clock less 8 h: **violated** | 30 ticks, two calls |
| `MCIcmp6.cfg` | `ChecksumVerifies`, `Understood` | Three packets, one after the other in the same buffers, of any kind and from either end; a byte of 5 bits, addresses whose words carry when added, data of odd and even length, buffers of ones and zeros at first. |
| `MCBoard.cfg` | `RunsAsConfigured`, `LbtAsConfigured` | Multi-SF chains 0 and 4, the standard one and that of FSK, a gain table of up to 5, three LBT channels; a complete file; one whose chain 4 alone is on radio B, so that the mask given to the AGC is 16, its command `AGC_CMD_WAIT`, and the start fails at its last check; one with a chain that does not fit its radio and without radio 0; two setters and two starts: a second start after one that succeeded, failed at any phase or was stopped. |

Runs of `PingNode` and `Gateway` do not check deadlock: `hal_failed` loops for
ever, and a gateway that dereferenced a wild pointer is dead. `OsLmic`,
`SchcLink` and the passing run of `Concentrator` are checked for deadlock. The other runs
stop at their bounds (clock, calls, packets, starts) or because the node is switched off.

### What the violated runs say

1. **The ASSERTs of `startrx` and `starttx`** (`MCPingAssert.cfg`; `radio.c:523`, `:660`). A
   reception that ends between the taking of `txjob` and the end of `os_radio(RADIO_RST)`
   is polled inside `tx`. `LMIC.osjob` is queued, `tx` renames its callback to `tx_done`
   and transmits; the loop then runs `tx_done`, which starts the receiver while the
   radio transmits. `hal_failed` never returns.
2. **`nextTx` after a long silence** (`MCLmicSleeps.cfg`; `lmic.c:647`). `mintime` starts 8 h
   from now; against a band that has been free for more than 1.54 h (half of the clock is
   9.54 h, a tick 16 us) the signed difference is negative. When that is so for all bands
   and band 0 has no usable channel, each round clears the same bit of `bmap` and the
   loop never ends. A node that sends rarely hangs at its next `LMIC_setTxData2`.

### Configurations TLC refutes

These are not part of the regular runs; `tlc -config X.cfg M` shows the counterexample
of each. They mark the border of what the passing runs state.

| Configuration | Property | What it shows |
|---|---|---|
| `MCOsLmicWrap.cfg` (`MCOsLmic`) | `SortedSchedule` | `oslmic.c:75` says "cmp diff, not abs!", but the difference of two `s4_t` overflows at the wrap of the clock; C leaves that undefined and a compiler may compare the values (`CmpWraps = FALSE`). A job is then queued behind a later one. With the wrapping difference the order is *proved*. |
| `MCGatewayReply.cfg` (`MCGateway`) | `RepliesReachTheirHost` | One saved pair per device (`IPv6.c:510`): two hosts ping one device and both replies get the addresses of the second request. |
| `MCSchcDevice.cfg` (`MCSchcLink`) | `DeviceRoundTrip` | The device's `schc_decompression` reads other bits of the rule byte than its `schc_compression` writes. The sketch does not call it. |
| `MCConcentratorRace.cfg` (`Concentrator`) | `StartsOwnPacket` | `loragw_hal.h:358`: "Schedule a packet to be send immediately". With `lgw_send` in both threads (`project_ipv6.c:526`, `:764`) one loads its packet between the other's load and trigger: one packet is emitted twice and the other never. `OwnPacket` is what remains true, and `SendStarts` when calls do not overlap. |
| `MCConcentratorBusy.cfg` (`Concentrator`) | `EmittedWhole` | `lgw_send` while a packet is on air. `libloragw/readme.md` asks the application to wait or to call `lgw_status`; the program does neither and `lgw_send` begins with `lgw_abort_tx`. |
| `MCLmicPoll.cfg` (`MCLmicMac`) | `VerdictOnConfirmed` | A confirmed frame whose downlink asks for a poll: `txCnt` is still 1 when the poll completes, and `EV_TXCOMPLETE` reports `TXRX_NACK` for a frame that asked for no acknowledgement (`lmic.c:1303`, `:1889`; `lmic.h:131-132`). |
| `MCLmicNumbers.cfg` (`MCLmicMac`) | `NumbersRaised` | The same poll: with `txCnt` left at 1 (`lmic.c:1897-1903` does not reset it) `buildDataFrame` takes it for a repetition and leaves out `seqnoUp += 1` (`lmic.c:1684-1685`), so it goes out under the number of the confirmed payload. `NumbersNotReused` is what remains true: under that number nothing but that payload and polls behind it is sent. |

### Fairness

* `OsLmic`: weak fairness of `Pick`, `Call`, `Return`: `loop()` calls
  `os_runloop_once` for ever and callbacks return. None of the clock.
* `PingNode`: weak fairness of the processor, of `TxDone` (a transmission ends) and
  of `Tick`. None of `Receive`: nothing makes other stations transmit. The
  properties are conditional on frames not arriving for ever, because a runnable
  job always goes before a timed one (`oslmic.c:96`).
* `Gateway`: weak fairness of each thread. The mutex is a plain pthread mutex and not
  fair, so `FrameFinished` excludes packets that never stop coming.

* `Concentrator`: weak fairness of the thread of `recive_package`: its calls go on, and its loop
  calls `lgw_receive` again. None of the other thread, of `CallSend` (nothing makes packets
  come), of `EmissionDone` or of `Receive`. `FullFifoServed` is of a FIFO whose first packet
  has an IF chain there is: `lgw_receive` breaks off at another (`loragw_hal.c:1169-1172`)
  without removing it, and such a packet blocks the FIFO for ever.
* `LmicMac`: weak fairness of `RunOsjob`, `TxEnds`, `do_send` and of the end of a window: the
  loop of the sketch runs for ever, and the radio ends a transmission and, with its
  symbol timeout, a window. Strong fairness of sending (the duty cycle lets a node send
  again and again) and of a join request being answered: that is the environment of
  `KeepsSending`, without which no node sends anything. The property has one more way out,
  `PollLost`: when a poll behind a confirmed payload with tries left is not answered,
  `processDnData` takes the silence for a try of the payload (`lmic.c:1878-1887`), but nothing is
  set that would send again, and `EV_TXCOMPLETE`, for which the sketch waits, never comes. TLC
  finds this state if the disjunct is left out.
* `Board`, `Icmp6`, `LmicChannels`: no liveness is stated, and no fairness.

### Assumptions about what is outside the code

* The radio keeps its interrupt flag when it goes to sleep; its FIFO does not keep
  the frame, which then reads as noise that is not for this node.
* A transmission is shorter than `TX_INTERVAL`, so `txjob` does not expire during it;
  `tx` would then be entered while the radio transmits.
* The data of an echo fits the buffers of 64 bytes at both ends.
* One router. In `Gateway`, `lgw_send` and `lgw_receive` are one step each; what they do
  to the chip is `Concentrator`.
* No SPI transfer fails. The chip keeps the TX data buffer until it is written, ends an
  emission when `TX_TRIG_ALL` is cleared, and drops frames when its FIFO is full.
* A device answers only echo requests that were sent to it.
* `LmicMac`: the application arms its job at `EV_TXCOMPLETE`, `EV_JOINED` and
  `EV_REJOIN_FAILED` (`Arms`; the sketches arm it at the first, and `ttn-otaa` is silent
  after a rejoin that fails between two frames). `engineUpdate`
  does not find the timer it armed overdue (`Prompt`). The payload leaves room for MAC answers
  (`LongPayload`). Link check is on (`KeepsCheck`; `ttn-otaa` switches it off at
  `EV_JOINED`, and then no verdict is expected).
* `LmicChannels`: a due job waits at most `Late` ticks. The bands in use are used more often
  than every 1.54 h (`Sleeps = FALSE`). The application changes channels only while no
  frame waits and no choice of `nextTx` is pending (`Withdrawn = FALSE`). `ttn-abp.ino`, the
  only sketch that changes them, does so before the first frame. The assumption is needed:
  `LMIC_setupChannel`, `LMIC_disableChannel` and `LMIC_clrTxData` do not set `OP_NEXTCHNL`, so
  that a frame that waited, was withdrawn and is given again goes out on the channel and at
  the time chosen before the change, although a channel that is free earlier was added. With
  `Withdrawn = TRUE`, TLC finds `GoodChannel` violated by four calls (data, withdrawn,
  a channel added, data), and no violation of `DutyKept` and `RetrySpaced` within the
  bounds of the run. The network and the application leave the three default channels as
  they are, and a mask keeps one of them (`ChannelsAssumption`): nothing in the code sees to
  it, and a node whose last usable channel is gone sends on the channel it used before. No
  wait is as long as 8 h (`HorizonAssumption`, see the proofs).
* `Board`: gain tables are not loaded while the concentrator runs (`GainWhileStarted`;
  `lgw_txgain_setconf` would accept them). The AGC takes values in the order of the host's
  transactions and acknowledges them as `lgw_start` expects; how long it takes for each
  is open.
* `Icmp6`: a reader takes packets that a builder of the other end or a station made.

## 4. Proofs

### `OsLmicProofs`

For every set of jobs and callbacks and every width of the clock:

| Theorem | Says |
|---|---|
| `TypeCorrect` | `Spec => []TypeOK` |
| `EachJobQueuedOnce` | `Spec => []QueuedOnce` |
| `QueueInvariant` | `Spec => []QueueInv` |
| `ScheduleStaysSorted` | `CmpWraps` implies `Spec => []SortedSchedule` |
| `ImplementsJobService` | `CmpWraps` implies `Spec => ServiceSpec` |

**Argument.** `QueueInv` is `TypeOK`, `QueuedOnce` and `LoopState` (which values of
`job` and `running` go with which `pc`). `QueuedOnce` is inductive only together
with the types: unlinking removes *the* occurrence because there is one
(`UnlinkProps`), so both `os_set` functions insert a job that is in neither list
(`InsertDistinct`, `AppendProps`).

The order needs more. "Not later" modulo 2^32 is not transitive, so
`SortedSchedule` is not inductive. `ScheduleInv` adds `DeadlinesInWindow`: every timed
deadline lies between `now - MaxLate` and `now + MaxAhead`. With `WindowAssumption`
(`MaxAhead + MaxLate < HalfRange`) the wrapped differences inside the window are
plain ones (`WrapDifference`) and the insertion point splits the list
(`InsertKeepsSchedule`). `Tick` moves the window and keeps it (`TickKeepsSchedule`).
The assumption is what the code relies on: no job is armed half a clock period ahead
or left half a period late.

The refinement maps `armed[j]` to the list `j` is in. `Pick` is `Take` (the head of a
sorted list is the earliest) or a stutter, `Call` and `Return` are `Run` and
`Finish` or a stutter, `Tick` is `Tick`, and the callers' steps are `Arm`, `ArmAt`
and `Disarm`.

### `PingNodeProofs`

For any frames that other stations transmit, any width of the clock and any interval:

| Theorem | Says |
|---|---|
| `TimerInvariant` | `Spec => []TimerInv` |
| `JobsQueuedOnce` | `Spec => []OS!QueuedOnce`: the sketch keeps the run loop's invariant |
| `RequestStaysInFrame` | `Spec => ReplyUntouched`, an action property |
| `NodeTypes` | `Spec => []TypeOK` |

**Argument.** `LMIC.frame` is written by `tx`, by `Echo_replay` and by the interrupt
handler. The first two run as `txjob`, so it is enough that `txjob` is not armed while its
own callback runs. That needs both lists: `Lists` says that the timed one holds at most
`txjob` and the runnable one at most one job, `AfterSetup` that `txjob` is runnable only
before anything else has happened (setup() alone arms it so, and a handler that ran then
would queue `osjob` behind it), `CallbacksApart` which job runs which callbacks, and
`JobTaken` that `txjob`, once taken, is on no list, also after the poll between taking and
calling it. The proof uses the operators of `OsLmic` by their definitions; with lists this
short no order is needed, and so no assumption on the clock.

### `GatewayProofs`

For any numbers of devices, hosts and stations, any bursts and any traffic in `Packets`
and `Frames`:

| Theorem | Says |
|---|---|
| `GatewayInvariant` | `Spec => []IInv` |
| `StationsListedOnce` | `Spec => []OneEntryPerMac` |
| `EntriesStay` | `Spec => EntriesKept`, an action property: an element stays where it is and stays that of its station |
| `HeardDeviceIsListed` | `Spec => []HeardIsListed` |
| `LookupsAlwaysAgree` | `Spec => []LookupsAgree` |
| `DevicesKeptApart` | `Spec => []DevicesNotConfused` |
| `RepliesAreAsked` | `Spec => []ReplyHasRequest` |

**Argument.** Both threads search the list without the mutex, take it, search again for
the tail and link. `OneEntryPerMac` is therefore not inductive: a thread at `linkMac` or
`linkEui` is about to add a station, and nothing in the list says that it is still
missing. `LockInv` ties those places to the holder of the mutex, and `TailInv` says what
the holder knows: the tail of its walk is the end of the list and its station is not in
it. `ListOK` adds whose addresses an element may hold, which is what a walk over
addresses needs to find the right device (`LookupResult`); from it follows
that the two lookups of `send_package`, by different tests, agree.

For the traffic, `TxInv` and `RxInv` follow the locals of the threads (the element whose
pointer is kept over the release of the mutex is still that of the station), and
`SavedInv` says of each half of a saved pair that it is of this device and that the host
has asked it, also while `input_addr` has written only one half. `ReplyHasRequest`
needs the request that is saved but not yet sent: `Asked` counts it.

### `SchcLinkProofs`

For any three interface identifiers and any lengths of data up to the 51 bytes that a
buffer takes (`DataLengthsAssumption`):

| Theorem | Says |
|---|---|
| `LinkInvariant` | `Spec => []LinkInv` |
| `EchoComesBack` | `Spec => []EchoRoundTrip` |
| `SolicitationComesThrough` | `Spec => []SolicitationRoundTrip` |
| `DownlinkIsUnderstood` | `Spec => []DownlinkUnderstood` |

**Argument.** `LinkInv` says that the frame on the air is what was made of the packet under
way, and that the saved pair is the packet's if it is a request. What the receiver then
makes of it is a fact about the codec: the three fields of the rule byte do not overlap
(`Fields`, `RuleBits`); what is read at the offset where a field was put is that field and
nothing behind it (`ReadAlone`, `ReadPair`); an address whose first half is the link-local
net is that net and its own second half (`LocalRejoined`), which is all that a frame
carries of it (`SolicitationReceived`, `Understands`); the length of an echo is counted in
a byte that does not overflow (`BodySent`). A solicitation carries what the sketch heard
last, so `LinkInv` also keeps `src_NS` a whole address (`RemembersAddress`): it need not be
link-local, before the first advertisement it is zero.

### `ConcentratorProofs`

For all packets, all sizes of array and FIFO, and whichever threads send:

| Theorem | Says |
|---|---|
| `ConcentratorInvariant` | `Spec => []Inv` |
| `ConcentratorTypes` | `Spec => []TypeOK` |
| `TransfersReachTheirRegister` | `Spec => []RightRegister` |
| `SenderEmitsItsPacket` | `Spec => []OwnPacket` |
| `LoneCallsSend` | `Spec => SendStarts`, an action property |
| `FramesFetchedInOrder` | `Spec => []FetchedInOrder` |

**Argument.** `CallInv` says which stages an access has. `RightRegister` is not inductive: a
transfer follows a test of the *variable*. `PageInv` adds that the variable and the chip
differ only while some thread is between the two steps of `page_switch`, and that an access
past its test has the variable on its page. With two senders the second test may pass while
the first thread is still at the switch, so the exception in `RightRegister` is needed: a
transfer then goes to the page selected before.

`BufferInv` follows the TX data buffer over the last accesses of each call. The other thread may
rewind and load at any point, so what the buffer starts with is the packet of the call or of one
of its `rivals` (`Fresh`), from its own load on and, if the address has moved, before. `RivalInv`
says that two calls under way know of each other. A call without rivals therefore finds its own
packet at the trigger, and no other thread in `page_switch`; so its trigger reaches the chip
(`LoneCallsSend`).

The order of the frames is shown over one sequence, what was fetched in this call
followed by what is in the FIFO: it is numbered consecutively up to the next number, and
a step appends to it, drops from its front between calls, or moves the border
(`Numbered`). A number is reused only when no frame with it is left, which is the bound
of the model and not of the code.

### `BoardProofs`

For any configurations, gain tables, channels, boards and orders of calls:

| Theorem | Says |
|---|---|
| `BoardTypes` | `Spec => []TypeOK` |
| `LbtScansAsSet` | `Spec => []LbtAsConfigured` |
| `StartsAsConfigured` | `~GainWhileStarted` implies `Spec => []RunsAsConfigured` |

**Argument.** `SetupInv` says what has been set up when a phase of `lgw_start` is reached,
and that it stays so while the start goes on and while the concentrator runs: the setters
refuse once `lgw_is_started` holds, all but `lgw_txgain_setconf`, which is why
`RunsAsConfigured` needs `~GainWhileStarted` and `LbtAsConfigured` does not. `lbt_setup`
writes the slow scan only one way; that it can, because `lgw_connect` has reset the
register, is the third conjunct. It also changes the configuration it reads (it fills the
channels that are not active), which it may do twice (`FilledTwice`).

The exchange with the AGC is the hard part. A status that fits does *not* say that the
firmware has taken the value: after the table, the acknowledgement of a value can equal
the one before it (`Ack` for the only entry of a table and for its end, `Ack + 3` for
the fourth entry and for the MSB), so a value that the firmware missed may pass
`ChecksStatus`. `ExchangeInv` therefore has three cases for each place of the host: the
firmware has taken everything so far (`Took`), may still take the last value, or is
`Late`: it needs more values than the host has left. An entry of the table is never
missed unseen (`MissedEntry`), and one that is late never shows 0x40 (`StatusInv`),
because the table is no longer than 16 and no value but the last, the mask of radios, can be
the command; when it is (chain 4 alone on radio B, 16), the start fails. So a last
acknowledgement of 0x40 is shown by a firmware that has everything. TLC checked these
invariants for tables of 4, 5 and 6 before they were proved.

While the types were proved, an earlier form of `TypeOK` turned out to be false: an
enabled chain need not `Fits` its radio. `lgw_rxif_setconf` tests a bandwidth that is
left undefined as 125 kHz (`loragw_hal.c:541`) and then gives chains 8 and 9 a default of
250 kHz, so a chain at 390 kHz from the centre is accepted that would be refused if it
asked for those 250 kHz.

### `LmicMacProofs`

For any numbers of tries, data rates, counters, `LINK_CHECK` values, any downlinks and any
calls of the application, under `Prompt` (`engineUpdate` does not find the timer that it
armed for a window overdue):

| Theorem | Says |
|---|---|
| `EngineInvariant` | `Spec => [](IInv /\ VerdictInv)` |
| `StructTypes` | `Spec => []TypeOK` |
| `NoAssertFails` | `Spec => []NoAssertFailure` |
| `LinkVerdictRight` | `Spec => []LinkVerdict` |
| `NumbersNeverReused` | `Spec => NumbersNotReused` |
| `PayloadCarried` | with `~LongPayload`: `Spec => PayloadSent` |
| `AcknowledgedNext` | the safety half of `AckSent`: the next data frame of the session carries the acknowledgement that is owed |

**Argument.** There is one job and one word of flags, so the invariant is a case
distinction over what `LMIC.func` holds. `Asleep`: no transaction, the radio sleeps, the
job is idle or that of the engine. `Busy`: `OP_TXRXPEND`, and then `Stage` says which
callback goes with which state of radio and timer, and `Purpose` which go with the
flags of a join. Every handler is an operator from a struct to a set of structs, so there
is a lemma for each one that says which of the shapes it leaves (`Plain`: the MAC
state kept; `Fresh`: a new session; `Completed`, `Heard`, `Missed`), and the step of an
action is those lemmas put together. No ASSERT fails because every callback that starts
the radio is found in a stage where it sleeps.

`VerdictInv` relates `adrAckReq` to the history `silent`: they go up together, and stop
together at the dead link.

The properties of frames speak of two frames and what lies between them. `NumberInv`
relates the struct to the last frame sent: `Numbered` says that its number is below
`seqnoUp`, and just below it, with the payload unchanged, while the tries of a confirmed
payload are counted; `Owes` that an acknowledgement that is due is in `dnConf`, except in
the frame under way. A step then either goes on (`GoesOn`), begins a session (`Begins`) or
waits (`Waits`), and the action properties are read off these three (`StepMoves`).
`txCnt` may be left from a confirmed payload when the next frame is built, and a poll then
keeps the number (`MCLmicNumbers.cfg`). `Tied` says that a count that is left belongs to the number sent
last, and that this number was a confirmed payload's. `LMIC_setTxData2` clears the count, so a
payload never goes out under it; `Repeats` adds, while data waits, that it is the payload
sent last.

One branch was found dead on the way: `NoReplay` shows that the number which `decodeFrame`
completes from its 16 bits is never below the one expected, so what it has for the
repetition of a confirmed downlink (`lmic.c:1078`) is not reached before the 32 bit
counter overflows; a repeated frame counts as one far ahead, and its MIC decides.

### `LmicChannelsProofs`

For a clock of any width `W`, any channels, airtimes, caps, rates and delays that the
assumptions admit, and any boot time; under `~Sleeps` and `~Withdrawn`, that is for nodes
that leave no band with an enabled channel unused for longer than `MaxIdle` and change
channels only before a choice:

| Theorem | Says |
|---|---|
| `ChannelsInvariant` | `Spec => []ChannelsInv` |
| `NextTxAlwaysReturns` | `Spec => []NextTxReturns` |
| `DutyCycleKept` | `Spec => DutyKept` |
| `RetriesSpaced` | `Spec => RetrySpaced` |
| `ChannelsGood` | `Spec => GoodChannel` |

**Argument.** The code sees time modulo `W` only; the properties are about true time, over
any number of wraps. `Shows(t, x)` ties the two: `t` is what the clock reads at the true
time `x`. `Comparison` is the one fact about wrapping: when two true times lie less than half
the range apart, the sign of the difference decides as they do. Everything else is showing
that what the code compares lies that close together.

`ChannelsInv` says so for each time that the struct keeps. `BandsShow`: the availability of a
band is what the clock shows at the end of its silence. `Session`: a choice that is pending is
the channel of the band free first, at that band's time (`Chosen`), and when the node is
held back there is a true time, not before its duty cycle and the random delay, that
`globalDutyAvail` shows (`Held`). The true time is under an existential because `txDelay`
moves it only when it is later; which of two causes it stands for, nothing in the
struct says. `JoinPhase` does the same for `txend` while joining, where the three default
channels are in one band, and `Underway` for a frame and its windows. None of the three
action properties is inductive without them: a frame goes out long after its
channel and its time were chosen, and data may be given, withdrawn and given again
in between. TLC checked `ChannelsInv` on a small instance before it was proved.

`nextTx` looks for the earliest band from 8 h ahead. Bands in use lie between
`clock - MaxIdle` and `clock + Hours8`, less than half the range apart (`Horizon`); a band that
nobody uses may show any time, also one that seems earlier. Such a band is
taken out of `bmap` without harm, because it has no channel, and because a time that is taken
for an earlier one lies in the horizon as the clock shows it (`TakenInHorizon`), so that a band
in use is still found (`FirstBandIsFirst`). So after at most four rounds a band with a usable
channel is reached (`RoundSearches`, `NextTxFinds`); there is one because a default
channel stays enabled. That is where a node that sleeps for longer hangs.

The step of an action comes from what the engine starts from: `EngineStep` for those that
end in `engineUpdate`, `SilentStep` for those that send nothing, `TickStep` for the clock,
each with the invariant and the three properties (`StepKept`) at once.

**Assumptions.** `HorizonAssumption` is that no band, retry or duty cycle makes a node wait
8 h. With frames of up to 2.8 s (SF12) it holds for the rates 0 to 13 of `DutyCycleReq`;
`decodeFrame` takes 14 and 15 as well (`lmic.c:1189`), for which `airtime<<globalDutyRate` of
such a frame passes half the range of the clock (9.54 h), and with 15 the whole of it: the
node would send too early. Neither the runs nor the proofs cover these two.
`ChannelsAssumption` is in section 3.

### What stays with TLC

* All liveness properties, `KeepsSending` and the response half of `AckSent` included:
  fairness and ENABLED are out of the prover's reach.
* `ChecksumVerifies` and `Understood` of `Icmp6`: the prover cannot use Bitwise, and a sum
  over the words of a buffer of any length needs induction over data.
* What the runs show under weaker assumptions than the theorems, and the violations.

## 5. Not modelled

* Pins, SPI, sockets, most register writes: I/O without control of its own.
* LMIC: class B (scan, beacon, ping slots), which no sketch starts; US915; FSK; the bytes,
  ciphering and MIC of frames (a frame is right or wrong); airtime and power tables.
* AES, SDI-12, the JSON parser, GPS, `loragw_aux.c`, the `util_*` programs: third-party or
  unused by the programs. `util_*` appear in `Board` as programs that call the HAL in another
  order.
* `lbt_is_channel_free` and the timestamps of the FPGA; the overflow byte of `hal_ticks`;
  `add_node` of the device's library, which no program calls.
* `parse_gateway_configuration`, command line options and the list the menu prints. The
  threads that still run while `main` stops the concentrator.
* `lgw_status`, `lgw_get_trigcnt`, `lgw_time_on_air`: not called by the gateway program.
* SPI transfers that fail inside `lgw_send` and `lgw_receive`.
* The neighbor advertisement of the gateway to the device uses a type whose addresses
  are never saved; its content is not followed further.
* The values a wild pointer yields: the program is `crashed`.

## 6. Plan

Done: `JobService` and `OsLmic` with proofs and refinement; `NodeList` and `Gateway`,
`Concentrator`, `Board`, `LmicMac` and `LmicChannels`, `PingNode` over `OsLmic`, `SchcCodec`
and `SchcLink` with proofs; `Icmp6` with TLC. What could follow:

1. **Clock and device list.** `HalTicks`: the overflow byte against an ideal counter,
   under the bound on how often `hal_ticks` is called. `DeviceNodes`: `add_node` of the
   device's library against an abstract map. `Lbt`: the 16 and 24 bit timestamps.
2. **Composition.** `LoRaNet`: several devices in `PingNode`'s protocol state and the gateway's
   two threads over a lossy channel, with neighbor discovery from the first solicitation
   to the first echo reply; an abstract specification "a reply that arrives answers a
   request that was sent".
