# A specification of the TDMA sensor network for the CC3200

The repository is the firmware of a small wireless sensor network: one *sink*
and a number of sensing *nodes*, all TI CC3200 boards, that talk over raw
802.11 frames with a MAC layer, an address layer and TDMA slots of their own.
This directory holds TLA+ modules that model it, the TLC configurations that
check them on small instances, and proofs of their main theorems for TLAPS.

## The system

Two source trees, `src/node` and `src/sink`, hold the firmware of the two kinds
of board.  `mac.c`, `translation_utility.c`, `my_util.c`, `timer_if.c` and
`main.c` (but for its last call, `APP_node` or `APP_sink`) are the same file in
both; `ip.c` differs in `IP_CLEAN_UP`, which only the sink calls, and in
constants of `ip.h`.  Each board runs one thread, from `main` to an endless loop
in `application.c`, and under it the 1 ms timer interrupt that increments
`systime`.  The event handlers of the SimpleLink radio run inside the driver's
calls, because the build has no operating system.

| Component | State | Operations | Module |
|---|---|---|---|
| Translation table (`translation_utility.c`) | `macTable`: last byte of an address to a MAC | `init_trans_table`, `add_ip_mac_entry`, `remove_ip_mac_entry`, `find_free_ip`, `resolve_*` | `TranslationTable` |
| MAC layer (`mac.c`) | `MAC_sd`, send and receive buffers | `MAC_send_data`, `MAC_recv_data`, `MAC_recv_ack`, `MAC_send_ack` | `Link`; frame by frame again in `Network` |
| IP layer and loop of the sink (`sink/ip.c`, `sink/application.c`) | `macTable`, `IP_last_talked_to`, `lastClean`, `systime` | `IP_issue_ip`, `IP_recv_data`, `IP_CLEAN_UP`, `APP_sink` | `Sink`, abstract `Lease`; untimed in `Network` |
| IP layer and loop of a node (`node/ip.c`, `node/application.c`) | `my_ip`, `gateway`, one table entry, `systime` | `IP_request_ip`, `IP_recv_data`, `IP_send_data`, `APP_node` | `Network` |
| TDMA slots (`node/application.c` 235-300) | `slotNumber`, `offset`, `systime` | correction of the time, period loop of `APP_node` | `Slots` |
| Start-up (`main.c`) | `g_ulStatus`, gateway, timer, role and policy of the radio | `init_board`, `ConfigureSimpleLinkToDefaultState`, event handlers, timer set-up | `Boot`; with the clock in `Board` |
| Clock and conversions (`my_util.c`, `main.c` 270-280) | `systime` in two words | timer interrupt, reads and stores, `UTIL_delay`, `UTIL_convert_*` | `SysTime` |
| Frame formats (`mac.c`, `ip.c`, `offsets.h`) | `sendPayload`, `IP_sendPayload`, `recvPayload` | composing, acks, requests, parsing, `strcmp` of the kind | `Frames` |
| Board tests (`application.c` 10-170) | counters in the payload | sender and receiver of the MAC and the IP test | `BoardTests` on `Link`; `APP_test_systime` in `SysTime` |
| Legacy packet code (`main.c` 656-980) | a buffer on the stack, its own socket | `sd_setup`, `send1pac_with_sd`, `recv1pac_with_sd`, `sd_listen`, `parse` | `Legacy` |
| TI wrappers (`timer_if.c`, `gpio_if.c`, `pinmux.c`) | | | not modelled, but for the three timer calls in `Boot` |

### How the parts interact

A node broadcasts `is_sink` (`IP_request_ip`).  The sink acknowledges it, picks
the lowest free address, sends it in the header of an empty message until an ack
comes or the retries run out, and enters the node in its table.  The node takes
its address and the sink's from that header.  It then sends `S`, reads one frame
and takes period and time from it, and from then on sends `D` once a period in
the slot its address gives it.  The sink stamps every application message, and
once an epoch (20 s) it discards the nodes whose stamp is older than the
clean-up before.

All of this goes through `MAC_send_data`, which repeats a frame until *an* ack
comes, and `MAC_recv_data`, which acknowledges *any* frame for this board.  The
MAC layer has no sequence numbers, acks name nothing, and a board that waits for
an ack drops everything else.  The table and the times of contact are two global
arrays; the timer interrupt shares `systime` with the thread.

### What is hard about it

* **Late frames.**  Frames wait in the radio processor across calls.  An ack can
  be taken for the ack of a later message, a copy of a request acknowledged
  twice, a copy of an issued address taken for the answer to `S`.
* **Success and failure at different layers.**  The MAC layer acknowledges
  before the IP layer has looked; a send that "failed" may have arrived.
* **Two boards that send at once** drop each other's frames.
* **Crashes.**  Nothing is persistent; a restarted sink forgets its nodes, a
  restarted node asks for another address.
* **Time.**  The timer runs between any two reads of `systime`; the clean-up
  measures against the previous one; passes of the sink's loop take from a
  millisecond to several seconds.  `systime` is 64 bits wide on a 32-bit
  processor: a read or a store is two accesses, with the interrupt between them.
* **Clocks.**  A node sets its clock once, by an answer of unknown age, and the
  clocks drift from then on.
* **Shared buffers.**  One buffer serves all frames; the kind of a frame is told
  by what string stands behind the header, so what an earlier frame left counts.
* **Start-up.**  Loops without a timeout wait for bits that event handlers set
  and clear; the radio keeps its configuration over a reset and may connect on
  its own in the middle of it.

### What makes each component correct

* Translation table: `find_free_ip` returns a free address, and only -1 if
  there is none.
* MAC layer: what a success is good for, how often and in which order one
  payload can be handed up, and that a call returns.
* Sink: table and stamps agree, nobody is discarded who was heard within an
  epoch, the silent are discarded in bounded time, the sink listens again.
* Node and network: two nodes never hold one address except through a discard or
  a restart, the time is only taken from an answer to `S`, joining ends.
* Slots: nodes with different slots do not send at the same time while their
  clocks agree, and each sends once a period.
* Start-up: it ends, from any state of the radio, and hands over a station that
  has no connection and cannot get one.
* Clock: no millisecond is lost, waits last what they are asked to and the
  clean-up comes in time, across wraps and but for named torn reads.
* Frames: every frame is read as the kind, addresses and data that were meant,
  whatever was in the buffers; silence is not read as a frame.
* Board tests: the numbers that receivers print, and the answers that come up,
  never go back; the loops go on.
* Legacy code: a frame is for this board exactly when it says so; listening ends.

## Modules and the code

`TranslationTable` has the functions of `translation_utility.c` as operators on a
table, with `TABLE_SIZE` (256) a constant.  The addresses that are given out are
`Pool`, 2 to `TABLE_SIZE - 2`.

`Sink` has one action for each stretch of `APP_sink` between two places where
the interrupt matters: `IP_CLEAN_UP` and `StampClean` are separate because
`systime` is read again between them; `RecvRequest` chooses an address, and
`IssueSent`, `IssueNotSent`, `IssueGivenUp` are the `MAC_send_data` calls of
`IP_issue_ip` and the entry after them; `TimerBaseIntHandler` ticks at any point.
The MAC layer appears as its results.  Two things in it are not obvious:

* `IP_last_talked_to` has 254 elements and index 254 is used.  By the linker's
  map (`sink/Release/transceiver_mode.map:382-383`) what follows is `macTable`, so
  the stamp of address 254 is the memory of `macTable[0]`; `MirrorStamp` writes it
  through, with `StampMac` for "six bytes that are not a MAC".
* `MaxPass` bounds the time of one pass of the loop.  In the program it comes
  from the limits of the MAC layer's loops (100 ms of listening, and at most ten
  sends of nine 50 ms waits), about 5 s.  Without such a bound no promise about
  discarding can hold, since a discard happens only at the head of the loop.

`Lease` is the abstract promise: an address belongs to one node, contact renews
it, it ends only after more than `TTL` of silence and before `Limit`.  `Sink`
implements it with `TTL` an epoch and `Limit` two epochs and four passes.

`Link` has any number of stations, each in no call, in `MAC_send_data` or in
`MAC_recv_data`.  The air delivers a frame to any subset of its addressees; what
is received waits in order in a buffer of `INBOX` frames.  Calls are numbered so
that properties can tell payloads apart; no guard looks at the number.  A failed
`sl_Recv` closes the socket for good (`mac.c:236`).

`Network` puts nodes and sink together.  `pc` says which loop a node is in:
`request` and `response` are the two halves of `IP_request_ip`, `sync` and
`answer` those of the loop that asks for the time, `data` the slot loop,
`stopped` an assertion that failed.  `sent` counts the transmissions of the
`MAC_send_data` in progress.  The sink is in `recv`, or in the `MAC_send_data` of
an `issue` or an `answer`; `job` says for whom.  It abstracts the components in
these ways:

* Time is left out: a wait ends at any moment.  A clean-up discards the entries
  not in `heard`, the set of addresses stamped since the clean-up before, which is
  what comparing stamps with the previous clean-up amounts to; an entry stamped
  in the millisecond of the clean-up may count for the next one too.
* A request is a broadcast, but a node reads and ignores those of others, so
  only the sink's copy is kept.  An ack that the radio could not send at all is a
  lost ack.
* `evicted` is a history variable: the pairs of node and address that the sink
  has discarded, or forgotten in a restart, since the node started.  No guard
  looks at it.
* A test of IP addresses compares the last byte here; the other three are the
  same on all boards.  `Unset` stands for the zero bytes of a frame without an
  IP header and of an address that was never set.
* `EndUnsentIssue` is the end of an issue none of whose sends succeeded.  It
  makes the entry all the same, because `ip.c:71` compares with 50 and the loop
  stops at 10.

`Registry` is what all of this promises about addresses, with losses and restarts
in place of `Lease`'s times: an address has one owner; contact keeps it; a node
holds only what was sent to it while the address was its own, and what is still
coming to it when it starts anew was its own to the last; the register takes an
address back only from a node it has not heard since its last clean-up, or by
forgetting everything.  `Network` implements it: `Owner` is the table, with the
address of an issue in progress given from the moment it is chosen, and `Coming`
is what the sink is sending and what is unread.  Nobody tells a node that its
address was taken back, and the registry says so: `held` stays as it is.

`Slots` has the last part of `APP_node` for several nodes, each with a clock of
its own that is up to `MaxDrift` ahead of or behind the sink's from the moment it
was set.  An answer to `S` is the stamp in it, up to `MaxAge` old, since the MAC
layer sends one payload again and again; `Corrected` is the node's arithmetic:
100 ms for every failed request and 75 for the last.  `pc` is the wait for a
period start (`align`), the log line (`print`), the wait for the slot (`offset`)
and `IP_send_data` (`send`).  A busy-wait looks at the clock every few
microseconds, so the clock does not tick past its condition.  The assumption
`Margin + Width < TimeSlot` says that a send fits its slot: the program's sends
take at most nine waits of 50 ms.

`Boot` has the calls of `init_board` and `ConfigureSimpleLinkToDefaultState` one
by one; `CallFails` is one that fails and halts the board.  The radio,
modelled from its use, keeps `stored` over a reset, connects while policy and
profiles let it, and queues events; `HandlesEvent` is a handler, and runs only
while the host is in a call or in a wait that calls the driver's task.  The
lines `map` names are those of `node/main.c`, which is the same file as the
sink's.

`SysTime` has `systime` as the processor does: `LoadsLow` reads one word and the
action after it the other; `StoresLow` and `StoresHigh` write them; `Tick` is the
interrupt, at most one between two steps of the thread, which are the single
accesses to `systime` and the few instructions around them.  What takes longer is
`Spends`: inside a call of the layers below (`IP_init`, `IP_CLEAN_UP`,
`IP_recv_data` with its 100 ms and a possible issue, `IP_send_data` with its
retries, a node's request and its slot) any number of ticks may pass, up to
`MaxPass` between two waits; `Sink` says where the program's 5 s come from.  In the image that comes
with the code (`node/Release`) the two words are read and written
by one LDM or STM, low word first, which an interrupt may split.  `clock` is the
time `systime` stands for and `torn` names the values that were read across a
carry, which happens once in 2^32 ms = 49.7 days.  A byte is `BYTE` values wide,
so that words wrap in the model.  The thread is `APP_test_systime`, then the
clean-up test, the receive, the stamp in an answer, its sends and `UTIL_delay` of
the sink, or the time a node takes from an answer and the waits of its slots.

`Board` composes them: the interrupt ticks once `Boot` has set up the timer, the
thread runs once `main` has called it, and a reset stops both.

`Frames` has the buffers byte by byte: what `MAC_send_data`, `MAC_send_ack`,
`IP_request_ip`, `IP_issue_ip` and `IP_send_data` write into them, and `strcmp`
and the offsets by which the receiver reads.  The other modules take its result
for granted when their frames are records with a kind.

`BoardTests` extends `Link` and adds what the loops of the tests do between calls;
every call is the action of `Link`, so its theorems hold here.  The loops of the
tests never end in the program; here they stop after `MaxSent` calls of
`MAC_send_data`.  The numbers are bytes that wrap at 256, which `MaxSent` stays
below.  The sender of the IP test tests the result of `IP_recv_data` for 0, which it
never is, and goes on with `srcFromRecentlySentData` (`source`) and `recvData` as an
earlier call left them: `PrintsAnswer`, `ParsesAck` and `PrintsNothing` are what
comes of an answer, of an ack and of silence.  `answered` is the last answer that
came up, `printed` what was printed.  Before the first message `recvData` is
uninitialised; printing it then may print anything or read where there is no
memory (`fault`).

`Legacy` has the packet code from before `mac.c`, with its check bytes and the
uninitialised `acBuffer` of `recv1pac_with_sd` (`Stack` is what may lie there).
The sender adds the bytes in a `short` (`SHORT` is where it wraps).
Data are of any bytes and any length that fits the assertion of
`main.c:671`; it allows 12 bytes more than there is room for behind the offset at
which the sender puts them, 32, and those go over what the stack holds behind
`s_data` and not into the frame.  What that overrun does to the sender is left out, since no caller
exists.  `sd_listen` and `ReadsLast` are its two reads
of `systime`, with the interrupt possible between them, and `ToInt` is what an `int`
keeps of 64 bits (`INT` is where it wraps, after 24.8 days).  A difference that an
`int` does not hold is undefined: `Elapsed` is the set of what compilers make of it,
the number itself or what is left of it in 32 bits.

## What TLC checks

| Run | Instance | What it shows |
|---|---|---|
| `sink` | 2 nodes, 2 addresses, epoch 3, passes up to 2, clock to 20 | Table and stamps agree (`LeaseRecorded`, in `IInv`); nobody heard in the last epoch is discarded (`EvictOnlySilent`); the silent are, in bounded time (`SilentEvicted`); an answer goes to the board that asked (`ReplyReachesSender`); the sink implements `Lease`; it listens again (`ListensAgain`) |
| `link` | 2 stations, 2 calls each, 2 transmissions, buffers of 2 | A success of a call that started with none of its frames around means delivery (`QuietSuccessIsDelivery`); copies are bounded (`BoundedDuplicates`) and never overtake newer payloads (`InOrder`), with the invariant that proves them (`LinkInv`) |
| `network` | 2 nodes, 1 address, 2 transmissions, 1 reset | Two nodes share an address only after the sink discarded one of them (`UniqueUntilEvicted`); nodes, frames and sink implement `Registry` (`RegistrySpec`) |
| `network_join` | 1 node, 2 addresses, 2 of every retry, 1 reset | The time comes only from an answer to `S` (`SyncFromAnswer`); joining ends (`JoinEnds`) |
| `slots` | 2 nodes, 3 addresses, period 21, slot 10, drift 1, answers up to 2 old, clocks to 44 | While clocks agree up to the margin, nodes in different slots do not send at once (`NoCollision`), and after as many failed requests no two nodes with neighbouring addresses do (`DisjointIfSetAlike`); a node sends once in every period (`NextPeriod`) |
| `board` | 1 reset, queue of 3 events, bytes of 1 bit, epoch 2, calls of up to 2 a pass | The application gets a radio that is ready (`RadioReady`) and a clock that moves (`ClockMoves`); the start ends (`BootEnds`); no millisecond is lost (`KeepsTime`), the stamp arrives (`StampArrives`), waits last (`DelayLasts`), the sink cleans up in time (`CleansInTime`) and again and again (`CleansAgain`), across every wrap |
| `frames` | 2 boards, 2 IP addresses, 5 payloads, buffers of 36, 57 and 70 bytes | Frames are read as meant (`ReadsAsMeant`), silence as nothing (`SilenceIsNoFrame`) |
| `board_tests` | 2 boards, 3 sends, 2 transmissions, buffers of 2 | Numbers that a receiver prints never go back (`NumbersInOrder`); each answer that comes up is of a greeting reported as sent and no older than the last (`AnswersFollow`); every send returns (`SendReturns`) and the loops go on (`TestGoesOn`) although both boards may wait for acks at once |
| `legacy` | 2 boards, buffers of 48 bytes, 3 data, shorts below 400, ints below 3, timeout 2, clock to 5 | A frame is taken for this board exactly when it is with its sender's address and check bytes (`MeIsMine`), whatever lay in the buffer, with the invariant that proves it (`LegacyInv`); listening ends (`ListenEnds`) |
| `address_unique`, `address_assigned`, `slots_disjoint` | as small as the case allows | Violations, see below |

Every passing run but `network_join`, whose module `network` checks, also checks
the types of the variables, as a conjunct of the module's inductive invariant
(`IInv`, `LinkInv`, `BoardInv`, `TestInv`, `LegacyInv`).

### Bounds and why they are enough

* Two nodes are the fewest that compete for an address or can be confused with
  each other, two stations the fewest that cross; the properties speak of at most
  two boards at a time.  `network` has a single address so that every discard is
  followed by its reissue to the other node; `network_join` has two so that a
  node can be entered twice.
* Two transmissions are one that is waited for and the last one that is not.
  Buffers of two hold an ack behind a copy, the pattern of all the confusions.
* In `sink` the clock reaches six epochs, enough for an address to be issued,
  kept alive, discarded and issued again; a pass may take most of an epoch.
* Two calls in `link` are what a stale ack needs.
* `slots`: two periods and the start of a third, so that a send, the wait behind
  it and the next send happen.  A failed request adds 8 of the 10 ms of a slot, and
  a reset lets a node set its clock again.  The margin of 4 ms is what answers up
  to 2 old and a drift of 1 either way can make between nodes that had as many
  failed requests; one more of them breaks it.  Address 4 has the slot of
  address 2, and both are neighbours of 3.
* `board`: bits for bytes leave every word boundary, carry and wrap of `systime`
  in reach, with a word of 16 ms: an epoch, a pass and a delay of 2 ms each are
  the most that fits into it (the assumption of `SysTime`), and a pass may take
  as long as the epoch.  Three events are a connection, its address and its loss; one reset
  finds the radio in each state a start can leave it in, besides the arbitrary
  one it starts from.
* `frames`: the program's header lengths and offsets, with buffers just long
  enough for the longest message, which one of the payloads fills.  One of the
  MACs begins with the letters of `ack`, and `ack` and `is_sink` are among the data.
* `board_tests`: three sends, so that a late copy can come after two newer ones;
  `MaxCall` leaves the receiver an answer to each copy of a greeting.
* `legacy`: two bytes whose sum does not fit a byte; the longest data that the
  assertion allows, whose sum does not fit a short and whose end is cut off; and
  one byte more, which it refuses.  The clock passes the largest `int`.
* Resets are bounded per behaviour.  One covers a restart of either board at
  every point of a join.

Deadlock is checked in every run but `board`: a board whose start failed stays
halted.

### Fairness

* `Sink`: weak fairness of the thread.  It never blocks: `IP_recv_data` is
  bounded by 100 ms of `systime`.
* `Network`: weak fairness of the steps that end a wait by time
  (`NodeTransmits`, which is the retransmission after a wait, `NodeHearsNothing`
  and `SinkTransmits`).  Nothing makes a frame arrive, so joining may end with a
  halted board, which is what the assertions in `APP_node` do.
* `BoardTests`: weak fairness of the timeouts of `Link`, of sending an ack, and
  of the loops between the calls: the loops of a call end when `systime` has
  advanced, sending does not wait, and nothing between two calls does.  None of
  receiving or of the air: frames may be lost for ever.
* `Board`: weak fairness of the host's next call, of the handlers while events
  wait, of the timer interrupt and of the thread.  None of the radio: that it
  connects, or loses a connection, is never relied on.
* `Legacy`: weak fairness of the timer, of the second read, of the receive call,
  which has a timeout of its own, and of the loop.
* `Link` and `Slots` claim no liveness of their own.

### Why some properties are conditional

`UniqueUntilEvicted` and `SyncFromAnswer` speak of a node whose address the sink
has not discarded.  Without the condition the first is false (next section).  The
second rests on an order: the radio delivers in order and the sink, which runs
one thread, has sent all copies of an issue before it acknowledges an `S`.  A node
that was discarded while the sink issues it another address loses that order.

`QuietSuccessIsDelivery` speaks of calls that start with no frame of theirs
around, since acks name no message.  `NoCollision` speaks of nodes whose clocks
agree up to the margin.  `DisjointIfSetAlike` says when they do: when the failed
requests of the two differ by so little that what they add fits into the margin
next to the age of an answer and the drift.  With the program's slots of 1000 ms,
sends of at most 450 and answers that are up to as old, the margin has room for
hardly one failed request of difference; nineteen are possible.  Its other condition, addresses closer than the number of slots, is
what `application.c:257` makes of an address: the eleventh shares a slot with the
first.  `DelayLasts` and half of `CleansInTime` except a read
torn by a carry; nothing in the code prevents those.

`ListenEnds` speaks of a listening whose time does not pass the largest `int`: when
`now` has become negative and `last` has not, their difference stays below any
timeout until the `int` is back at `last`, unless the compiler lets it wrap.  `TestGoesOn` and the numbers of
`board_tests` speak of the boards as long as no uninitialised pointer was read.

## Where code and documents disagree

Each of these is a run that ends in a violation; `PROJECT.json` has the quotes.

* `address_unique` - a discarded node is not told, keeps its address and gets
  `IP_SEND_SUCCESS` for messages that the sink discards, while the address is
  issued again.
* `address_assigned` - with the table full, or before the issue arrives, a node
  takes the ack of a second copy of its request for the answer, and goes on with
  0.0.0.0 as its address and its gateway.
* `slots_disjoint` - `application.c:242` adds 100 ms for every failed request to
  the time of an answer that may be fresh, so a node whose first requests were
  lost is up to 1900 ms ahead and sends in another node's slot.  The instance has
  answers that take no time (`MaxAge` 0) and a period of 17 with slots of 8, where
  drift alone (at most 2 apart, the margin) cannot do it: without a failed
  request, `APP_MAX_SYS_REQ_RETRIES` 1, the property holds there.

Also seen, with no run of its own:

* `ip.c:71` compares the retries with a timeout constant, so an issue whose sends
  all failed still makes an entry.  This is what keeps addresses unique when only
  the ack was lost: replacing it by the evident intention violates
  `UniqueUntilEvicted` (the mutant `NoEntryIfNotSent`).
* The sink serves 253 nodes, not 254 (`README.md:26-27`, `ip.h:18`).
* An ack of an abandoned call makes the next call succeed (`mac.c:153`): the
  reason for the condition of `QuietSuccessIsDelivery`.
* The last transmission is not waited for (`mac.c:288`): with ten retries nine
  acks are.
* `mac.h:114` says that a broadcast is ignored when `ignoreBroadCast` is 1, and
  `mac.c:307` accepts it then (`MAC_ACCEPT_BROADCAST` is 1).
* `README.md:17` describes a CRC; the frames of `mac.c` have none.
* The sender of the IP test prints `MESSAGE RECIEVED FROM SINK` with the number 0
  when nothing came: `application.c:105` tests for 0, `IP_MSG_NO_MSG` is 4, and the
  source it then compares is that of an earlier message.  An answer and
  a silence after it do it in `BoardTests` (`PrintsNothing`).
* The legacy receiver takes a frame by its address alone, while `README.md:18` has
  it validated by its check bytes first.  Nothing calls `verify_data`, and with what
  `parse` hands up, the bytes from 20 on while the data are at 40, it would refuse
  frames that came whole.
* It looks for IP addresses and data 20 bytes before where the
  sender puts them, because the offset of `main.c:122` is commented out; so it
  does not recognise a broadcast.  After a silence it may hand up an old frame.
* The assertion of `main.c:671` counts the data from offset 20 and `main.c:719`
  copies them to offset 32.  The sum of `main.c:673` is a `short` and that of
  `main.c:657` an `int`: data whose sum reaches 32768 would not verify.

## What is proved

The proofs hold for every number of nodes or stations, every table of at least
four entries, every retry limit, buffer size and bound.  They assume only the
named `ASSUME`s of the modules: constants are numbers, the limits of loops that
run at least once are positive, the special MACs are no board's, a send fits its
slot, an epoch and a pass of the sink's loop (20 s and 5 s) fit into a word of
`systime` (49.7 days), and the buffers are long enough for the headers and data
put into them.

* `TranslationTableProofs` - `FindFreeIpIsFree`, `FindFreeIpFinds`: the minimum
  over a set of numbers exists, so the search result is free, and -1 means full.
* `SinkProofs` - `LeaseRecorded`, `ReplyReachesSender`, `SilentEvicted`,
  `EvictOnlySilent` and `LeaseSpec`.  The last three are not inductive: a discard
  looks at the stamps and at the previous clean-up, not at the silence.  `IInv`
  adds how late a pass can be (`Schedule`), what the last clean-up has left
  (`RecentContact`), that stamps are not in the future (`Clock`), that a chosen
  address stays free until entered (`IssueReserved`) and that entries 0 and 1 are
  no node's (`ReservedEntries`), without which an ack frame might pass for a
  message once address 254 was stamped.  `SinkImplementsLease` maps each step to a
  grant, a renewal, an expiry, a tick or a stutter.
* `LinkProofs` - `QuietSuccessIsDelivery`: `IInv` adds that while such a call goes
  on every frame of its station is of this call (`OnlyThisCall`) and every ack
  waiting for it comes from a board that has handed the payload up
  (`AcksOfThisCall`).  `BoundedDuplicates` and `InOrder` follow from `CopiesInv`:
  what a station has handed up, has in hand and has unread of a payload is no more
  than the times it was sent, and the payloads of one sender come in the order
  handed up, in hand, unread.  The count is a cardinality over the places in the
  buffer; the lemmas say what appending and removing a frame does to it.
* `NetworkProofs` - `UniqueUntilEvicted` and `SyncFromAnswer`.  The first is not
  inductive because an address travels: in `IInv`, `RecordInv` says that every address a node holds *or has
  unread* is in the table for it, about to be entered, or was discarded
  (`HeldOnRecord`); that an issue in progress has an address that is still free
  (`JobOnRecord`); and that the entries below the pool are nobody's
  (`NoHolderBelowPool`).  A table has one entry an address, hence uniqueness.
  `SyncFromAnswer` is about an order of unread frames: `CopiesBeforeAcks` says
  that, unless the node was discarded, no ack lies between two copies of the frame
  that issued an address or between one and the issue still going on.  So a node
  that has its address and has read an ack since has seen the last copy, and what
  it reads next from the sink is an answer.
  `NetworkImplementsRegistry` maps every step to one of `Registry`: choosing an
  address is the grant, so that a send can tell the node of it before there is an
  entry; an answer, a clean-up, a read by a node and the restarts are what they
  say; everything else loses messages or changes nothing.  The step uses
  `RecordInv`: the address of an issue stays free until it is entered, and who is
  being answered is still in the table, so that what can still come to a node
  that restarts in the middle is its own.
* `SlotsProofs` - `NoCollision`, `NextPeriod` and `DisjointIfSetAlike`.  `InStep` bounds where in its
  period each step of the loop began and `InRhythm` ties the last send, and the
  wait behind it, to one period.  Two sends in different slots are then a slot
  apart up to `Width`, also across a period boundary, by arithmetic of remainders
  that is proved in lemmas.  `InTime` follows a clock from the stamp it was set by:
  it is ahead of the sink's by what the node added less the age of the answer, and
  has drifted since.  So the condition of `NoCollision` is not an assumption about
  clocks in `DisjointIfSetAlike` but a consequence of how they were set.
* `BoardProofs` - first the start: `BootInv` says what each part of it has
  achieved (the role, that no profiles are left, that there is no link, that no
  event is waiting), from which `RadioReady` follows, of the start alone and of
  the whole board.  `TimerInv` does the same for the timer, and with
  `FirstTicks`, what the test of the clock can see of its first milliseconds,
  gives `ClockMoves`.  Then the clock: neither `KeepsTime` nor `DelayLasts` is
  inductive, since the thread holds half a time between its two loads and half
  of one is stored between its two stores.  `ClockInv` says what such a half
  stands for (`Loaded`, `Time64`): a read counts from the load of its low word
  (`ReadTime`), and one that a carry tears is a whole word too late, never
  anything else (`Untorn`).  `Waiting` and `Cleaning` then tie what has passed to
  the difference of two reads, place by place, with what the calls of the pass
  have taken so far (`pass`).  The difference of a torn read is
  at least a word less what a pass of the loop takes, so it ends a wait or
  an epoch too early, never too late; this is where the assumption about the pass
  is used.  `StampArrives` rests on lemmas about the digits of a number: dividing
  by the weights of the bytes one after the other and putting the remainders
  together again gives the number, to any base.
* `FramesProofs` - `ReadsAsMeant` and `SilenceIsNoFrame`.  `SendsAsMeant` says that
  the buffer that is sent encodes the frame it stands for, byte by byte; receiving
  shifts it by the bytes of the radio.  That an IP frame is no ack rests on the
  zero bytes in front of its addresses, which the clearing of the buffer leaves.
* `LinkProofs`, on `BoardTests` - every step of the tests is a step of `Link` or leaves it
  alone, so success and order mean in the tests what they mean there.
  `NumbersInOrder` and `AnswersFollow` then need more than order: `TestInv` says
  that what is in a frame was said by the peer in that call (`FromPeer`), that
  the numbers of a station's calls do not go back and stay below its counter
  (`Numbering`), and that what was printed last, or came up as an answer last, was
  handed up before what is in hand (`Printed`).  `Sources` says what the sender of
  the IP test prints: the last answer or, after a silence, an empty message.  So
  `AnswersFollow` is about the answers that come up and not about the log.
* `LegacyProofs` - `MeIsMine`.  `DeliveredIntact` says that what is
  judged is the whole of the frame that came and nothing of what lay in `acBuffer`
  before; lemmas say at which place of a buffer each part of a frame is after all
  the copies.  That the check bytes are bytes needs that the sum of the data
  exists: an induction over the bytes, done as the least counterexample in a set
  of lengths (`InductiveSet`), since the induction theorems of the library take an
  operator.

Model-checked only: the liveness properties (`SendReturns`, `TestGoesOn`,
`ListensAgain`, `JoinEnds`, `BootEnds`, `CleansAgain`, `ListenEnds`), which are out
of the prover's reach.

## What is not modelled

* Provisioning by SmartConfig, the event handlers that only print and the radio
  settings nothing depends on (scan, power, mDNS).
* The test loop that only issues addresses (`APP_ip_layer_test_reciever_dhcp`): it
  is the receive path of `Sink` without its clean-up.
* Code that is in a tree and not run there: `APP_sink` in `src/node`, `APP_node` in
  `src/sink`, the node role of `sink/ip.c`.
* Radio channel and the radio's own retries: frames that fail are lost frames.
* `verify_data`, which nothing calls, `num2bytes`, the string helpers and printing.
* `depth` bytes and forwarding through other nodes, which `README.md:30` describes
  and the code does not have.
* The TI wrappers around timer, LEDs and pins: vendor code; the calls that `main`
  makes are actions of `Boot`.

## What is left

`Slots` and `Network` together: the age of an answer from the retries of the MAC
layer instead of a bound of its own.
