# memif in TLA+

A verification project for the Go implementation of memif in `src/memif-new/memif`:
shared-memory packet interfaces whose two peers find each other over a UNIX domain
socket. Line numbers refer to that directory unless another path is given.

## The system

| part | state | operations |
| --- | --- | --- |
| **packet rings** `packet_writer.go`, `packet_reader.go`, `memif_unsafe.go` | two 16-bit indices, descriptors and packet buffers in shared memory; `lastHead`/`lastTail` of the reading queue | `WritePacket`, `ReadPacket` with its refill loop |
| **queue pair, region layout** `interface.go` 347-470, `memif.go` 229-321 | the region's bytes: ring headers, descriptors, buffers | `addRegion`, `newRing`, `initializeQueues`, `putRing`, `putDescBuf` |
| **control channel** `control_channel.go`, `control_channel_unsafe.go` | per connection and side: `i`, `msgQueue`, `isConnected`, membership in `ccList` and in the epoll set; the socket's buffers | the handlers of the nine message types, `sendMsg`, `close`, the listener |
| **interface** `interface.go` | `cc`, `run`, `regions`, `txQueues`, `rxQueues`, list membership | `RequestConnection`, `connect`, `Disconnect`, `disconnect`, `Delete`, `NewInterface` |
| **socket polling** `control_channel.go` 75-129 | `stopPollChan`, `wakeEvent`, `wg`, the user's `errChan` | `StartPolling`, `StopPolling` |
| **socket registry** `control_channel.go` 149-216, `interface.go` 300-345 | `interfaceList`, `ccList`, `listener` | `NewSocket`, `Delete`, `addListener`, `NewInterface` |
| **examples** `_examples/bridge`, `_examples/responder` | a goroutine per interface, `quitChan`, `errChan`, `wg` | `Connected`, `Disconnected` |
| **memif-attach** | none: a client of the VPP API | a sequence of requests |

The parts meet as follows. A slave's `RequestConnection` connects to the listener of
the master's application. Each application has a polling goroutine per socket that
handles one event at a time and calls the control channel's handlers; user
goroutines call `Disconnect` and `Delete` on the same objects without a lock. When
the handshake is through, both sides call the user's `ConnectedFunc`; from then on
user goroutines of the two processes call `ReadPacket` and `WritePacket` on the two
rings of each queue pair, which only shared memory connects, until `disconnect`
calls `DisconnectedFunc` and unmaps the memory.

What is hard here: two processes on a ring without locks, with indices that wrap;
chains of descriptors that must appear at once; a handshake in lock step that either
side may leave by an error, an exit or a call of its user; cleaning up after each of
these at every point; and calls of users' goroutines during event handling.
`PROJECT.json` lists every hazard found with its line and the properties aimed at it.

What makes each part correct:

- *ring*: never more slots written than released; a published packet stays as it is
  until it is released; packets come out whole, once and in order; room comes back.
- *layout*: headers, descriptors and buffers do not overlap, and each slot of each
  ring of both directions has a buffer of its own (which the code does not achieve, see
  `pair_buffers` and `layout_two_pairs`).
- *control channel*: one channel per interface; the two sides end up with the same
  rings, crosswise; a handshake ends; a lost peer is noticed; nothing stays behind;
  `ConnectedFunc` is not called twice without `DisconnectedFunc`; an error of one
  channel stays with that channel.
- *socket*: every event finds its channel (as long as `ccList` is intact, see below); an
  interface is taken down by one goroutine at a time, which holds it until its memory is
  unmapped; no event waits forever.
- *polling, examples*: stopping ends, and nothing is handled afterwards; no packet is
  moved on unmapped memory; a disconnection ends; what can end a program is known.

## The modules

### `PacketFifo` and `MemifRing`

`PacketFifo` is what a ring promises: a bounded FIFO of packets with a reader that
keeps reading. `MemifRing` is the code. `WriterIsMaster` chooses the direction, since
the code does: a slave writes and moves `head` (S2M); a master fills buffers that the
slave offers by moving `head`, and moves `tail` (M2S).

| TLA+ | code |
| --- | --- |
| `head`, `tail`, `desc`, `buf` | shared memory: indices, length and NEXT flag of descriptors, the buffers behind them |
| `wpc`, `wpkt`, `wslot`, `wfree`, `wdesc`, `wn` | locals of `WritePacket`: `pkt`, `slot`, `nFree`, `desc`, `n` |
| `last` | `q.lastHead` of the master, `q.lastTail` of the slave |
| `rpc`, `rslot`, `ravail`, `rpkt`, `roff`, `fhead`, `fill` | locals of `ReadPacket`: `slot`, `nSlots`, `pkt`, `pktOffset`, and `head`, `nSlots` of the refill loop |
| `WriteBegin` ... `WritePublish` | packet_writer.go 28-39, 41-55 and 66-79, 56-64, 82-84, 86-94 |
| `ReadBegin`, `ReadCopy`, `ReadRelease*`, `Refill`, `RefillPublish` | packet_reader.go 34-45, 47-72, 74-81, 83-86, 87-90 |

Each step makes at most one access to memory the other side may be using, so every
interleaving of the two processes at that grain is checked. Memory is sequentially
consistent: the code uses plain loads and stores where its comments name atomic ones.
`interrupt` is left out: initializeQueues sets the ring flags to 1, which turns
interrupts off between two of these programs.

### `QueuePair`

Two instances of `MemifRing`, one per direction, over **one** `buf`, because that is what
`initializeQueues` builds (interface.go 439-443 and 462-466). Everything proved about
one `MemifRing` takes its buffers to be its own; this module shows the price.

### `RegionLayout`

The slave's region before anybody else sees it: `data` holds what each 16-byte cell of
the ring area contains, `done` how many rings `initializeQueues` has been through.
Descriptor addresses, the buffer given to a slot and the 16-bit arithmetic of
`packetBufferOffset` are those of the code.

### `ControlChannel`

A master's application with the listener, and slave applications, one interface each,
all with the same id. `end[c][side]` is the `controlChannel` of one side of connection
`c` with the socket's receive buffer, `iface[p]` the `Interface`, `backlog` the
listener's queue, `pending` a `RequestConnection` that has registered its channel and
not stored it yet.

A handler is one step, since the polling goroutine runs it to its end: it is computed by
operators on a record of the interface and channel (`SendMsg`, `Disconnect`, `Close`,
`Connect`), which keep the order of the code's steps and stop where an error makes the
code stop. `Finish` is the tail of `parseMsg` and `handleEvent`: send one message, or
close with a Disconnect message.

From outside (marked external in the map): the kernel closes an application's
descriptors when it exits, messages are delivered in order and a hang up is reported
when the peer's process is gone. The code never closes a channel's descriptor, so closing
alone is not visible to the peer; that is why the Disconnect message matters.

`told`, `twice` and `panics` are history, used by properties only. Callbacks and the
system calls of region creation, mapping and unmapping may fail wherever the code looks
at their result: `RecvHello` has one failure point per call of `initializeRegions`,
`Connect` one for the mapping and one for `ConnectedFunc`.

Simplifications: one region per interface, versions always match, epoll registration
does not fail, `Interface.Disconnect` of the user is atomic against the poller (`Socket`
has the steps), and a master is not restarted (its socket's file would be in the way of
`Bind`).

### `Socket`

The same objects seen from one application, in single steps: `interfaceList`, `ccList`,
the epoll instance, `Interface.cc` and `controlChannel.i`, shared without a lock by the
polling goroutine and the user's. `ControlChannel` has whole handlers and the messages'
content; `Socket` has what happens between two accesses.

`PushBack` and `Remove` of a `container/list` are several pointer writes and one of the
length, and nothing keeps the two goroutines from being inside of them at the same time
(control_channel.go 417, 448). Each is therefore two steps, its begin and its end. When a
goroutine begins one while the other is inside of one, the list is *torn* and stays so:
an element may be lost from it or may be met although it was removed, and a pointer may be
nil. From then on the model says nothing of the list's contents: a walk meets any channel
that ever was in it, or misses the one it looks for, and an operation may panic. A walk
that overlaps with a single operation finds the list as it was or as it will be, and a
walk that overlaps with a `Remove` may end early, since `Remove` clears the links of the
element. `interfaceList` is written by the user's goroutine alone.

| TLA+ | code |
| --- | --- |
| `pc[g]`, `call[g]` | where goroutine `g` is, and the channel, interface and return label of its `close` or `addControlChannel` |
| `CloseEvent` | `close`: the Disconnect message and `delEvent` |
| `RemoveBegins`, `CloseRemove` | `ccList.Remove(cc.listRef)`, its first and last write; then the test of `i.cc` |
| `DisconnectCallback`, `DisconnectClear` | `disconnect`: from `DisconnectedFunc` to `Munmap`; `i.cc = nil` |
| `AddEvent`, `PushBegins`, `PushBack` | `addControlChannel`: `addEvent`; `ccList.PushBack`, its first and last write, and `listRef` |
| `RequestStore` | `RequestConnection` storing `i.cc` |
| `LookAtChannel`, `LoadChannel` | `Disconnect` (also from `Delete`): the test of `i.cc` (line 190) and its second load (192) |
| `Wait*`, `Lookup`, `Receive`, `Accept` | `EpollWait`, `handleEvent` of the socket, of a channel, of the listener |
| `BindInterface`, `BindChannel` | `parseInit`: `i.cc = cc`, then `cc.i = i` (563, 564) |
| `torn`, `Met`, `Missed`, `Fronts`, `Panic` | what the two operations may make of `ccList`, what its walks and `Front` see of it |
| `dead` | a nil pointer was followed: `GetName` of no interface (296), `close` of a channel that the poller has cleared since line 190, `Remove` of a `listRef` not assigned yet, a link of a torn list |
| `Delete*` | `Socket.Delete` |

`EpollWait` returns one event, as `maxEpollEvents` is 1 (control_channel.go 30). A message
is handled with any outcome that `parseMsg` may have for the lists; `parseDisconnect` and
errors close the channel. `Socket.Delete` closes only the first channel and deletes only
the first interface, because `List.Remove` clears the element's links before `Next` reads
them (control_channel.go 151, 160). A descriptor is never closed by `close`, so a
number is not used again. What a peer has sent before it hangs up is not looked at, as
`handleEvent` tests for the hang up first (289). Where the compiler may load a variable
again or go by what it has loaded (192), the model has both. Simplifications: the steps
of `disconnect` before `i.cc = nil` are one, appending to `msgQueue` is part of `close`,
and a walk over a torn list that never ends is left out.

### `Polling`, `PollLoop` and `Bridge`

`Polling` is what `StartPolling` and `StopPolling` promise: events are handled only
between the two, and when `StopPolling` has returned none is under way or will be.
`PollLoop` is the code: `stopPollChan`, the wake event that nobody reads, the goroutine
with its two kinds of errors on an unbuffered channel, and `StopPolling`. It has no
specification of its own: `Bridge` extends it and says what an event is.

`Bridge` is both example programs, chosen by `bri` (an interface's other one, or itself
in the responder) and `isMaster`: `main`, the command goroutine, the polling goroutine,
and the goroutine of each connected interface.

| TLA+ | code (`_examples/bridge/bridge.go`) |
| --- | --- |
| `data[i]` | where the goroutine of `Connected` (58-97) is |
| `DataBridge`, `DataAgain`; `Show`, `ShowAgain` | the two loads of `i.cc` in `IsConnected` (interface.go 182), called at line 70 and by the `show` command (157, 163) |
| `DataGet`, `DataIndex` | `GetTxQueue` (interface.go 150-154): the comparison of the length, then the index |
| `EventUnbound` | a hang up on an accepted channel that Init has not bound (control_channel.go 290-296) |
| `quitChan`, `errChan` | the two channels of `interfaceData`: nil, open, closed |
| `closing`, `step` | `Disconnected` and the rest of `Interface.disconnect`, whoever runs it |
| `mapped` | interfaces whose queues `GetRxQueue` and `GetTxQueue` find |
| `main`, `over` | main after the exit command; how the program has ended |

A goroutine that has got a queue keeps it, but reaches the memory through the regions of
the queue's interface (packet_writer.go 54, memif_unsafe.go): a write is a fault as long
as that interface is disconnected, and works again once it has reconnected. Peers and
commands come at any time in any order. As the examples do, polling is stopped once and
started only while no polling goroutine runs: a second `StopPolling` would close a
closed channel, and a `StartPolling` after it would spin on the wake event.

## The runs

| run | shows | bounds |
| --- | --- | --- |
| `ring_s2m` | S2M ring: types, no overrun, slot ownership, whole chains, published packets untouched, refinement of `PacketFifo` with its fairness, room comes back | 2 slots, indices modulo 8 (four turns of the ring per wrap), three packets: half a buffer, a buffer, a chain of two that fills the ring |
| `ring_m2s` | the same for M2S, and that offered buffers have their full length | 4 slots, modulo 8, a short packet and a chain |
| `ring_chain_contents` | *finding*: what a chain holds | 2 slots, one packet of four different cells |
| `pair_buffers` | *finding*: both directions share buffers | 2 slots, one packet each way |
| `layout` | headers survive initialisation; both rings of queue pair 0 keep their descriptors, and their buffers lie behind the rings, inside the region, disjoint for slots with different numbers (with the same number they are shared, see `pair_buffers`) | 1-5 pairs, 2-16 slots, buffers of 64 and 2048 bytes |
| `layout_two_pairs` | *finding*: descriptors of queue 1 | 2 pairs, 2 slots |
| `link_faults` | one channel per interface, no nil interface in a message handler, lock step, paired queues, no leak, `ConnectedFunc` not twice | 2 slaves (one wants more rings than the master), 2 connections, any crash, disconnection, deletion or callback failure, polling during `RequestConnection` |
| `link_liveness` | a handshake settles; the loss of a peer is noticed; an interface with a closed channel is one that is half unmapped | 2 slaves, 2 connections, crashes of the master and one slave, the master's user disconnects; callbacks and system calls succeed |
| `socket` | epoll and `ccList` agree until two operations on the list overlap; one goroutine takes an interface down and holds it meanwhile; events are handled unless the list was torn | a master and a slave with the same id, 2 channels in all |
| `bridge` | queues are used while mapped (but for the bridge's write to its other interface), crashes are the known ones, disconnections and exit end, polling refines `Polling` | responder and bridge, both roles |

Why the bounds suffice: ring positions matter only modulo the ring and the index width,
so a few turns and a wrap of a small ring meet every relative position of the two
programs; the theorems below take the same invariants to all sizes. Two connections are
enough for two slaves in competition and for a slave that comes back; chains of two and
rings that a chain fills meet the chaining and abort paths. Chained packets in the ring
runs repeat one cell, because the code repeats the first buffer of a packet
(`ring_chain_contents`); with that set aside, the ring's ordering is what is checked.
Two channels and two interfaces let the user and the poller close the same channel, or
different ones, while a third step adds one; two interfaces are what the bridge has.
`MaxUnread` bounds messages left on a channel nobody reads any more. It is no guard of the
code: a user's `Disconnect` or `Delete` that would send one more message than that to a
peer that is not reading (`MayRepeat`) is left out of a run; with the 1 of `link_faults`, a
user disconnects when the peer has read what was sent before. The theorems hold for every
value. `MaxConns` bounds the connections of a behaviour, `MaxRings` stands for the 255 of Hello.

Fairness. `MemifRing!FairSpec`: a started `WritePacket` has no wait in it and runs to its
end, and the reader polls, as the loops of both examples do; no packet has to be written.
`ControlChannel!FairSpec`: the polling goroutine runs and epoll serves ready descriptors
in turn, so the listener and each channel get weak fairness, and `RequestConnection`
returns; users and crashes get none. In `link_liveness` callbacks and system calls succeed
(`Results = {TRUE}`); `link_faults` has them fail. `link_liveness` takes polling to wait for
`RequestConnection` (`ConcurrentRequests = FALSE`): when it does not, the store of
`i.cc` (interface.go 292) can follow the peer's disconnection and leave a stale channel,
and `PeerLossNoticed` fails.

`Socket!FairSpec`: the two goroutines go on with what they have begun, and ready
descriptors are reported in turn: a descriptor that is ready again and again is reported
(strong fairness, since between two events the poller is busy). `Bridge!FairSpec`: each
goroutine has weak fairness; peers, commands and signals have none.

Every property of a passing run has a mutant, a definition named "Mutant of ..." placed
before the one it replaces, that breaks it.

## What the violated runs found

1. A packet longer than a buffer is written wrongly (packet_writer.go 77).
2. Slot j of the tx and of the rx ring have the same buffer (interface.go 463).
3. With more than one queue pair, descriptors of queues above 0 are written outside
   their ring (interface.go 442, 465).
4. A slave lost between AddRegion and Connect leaves the master interface unusable
   (interface.go 219-230: `Munmap` of a region that was never mapped).
5. A hang up on a channel without interface panics (control_channel.go 296, 305).

Seen while modelling, with no run of their own:

- `Disconnected` of the bridge waits for a goroutine that waits for the other interface
  and does not look at `quitChan` (bridge.go 42 and 70). If the polling goroutine is the
  one that waits, no event is handled any more. `DisconnectReturns` and `ExitEnds` hold
  with this exception, `Stuck`; without it TLC finds the deadlock.
- Secrets are never sent (control_channel.go 518): equal secrets are refused, different
  ones accepted when the master has none.
- `DisconnectedFunc` is called for an interface that was never connected (interface.go
  203); `Disconnected` of the examples then closes a nil channel and panics.
- `IsConnected` and `Disconnect` load `i.cc` twice (interface.go 182, 190-192): when the
  poller clears it in between, the second is a nil pointer. `GetTxQueue` compares with
  the length of a slice that may be emptied before it is indexed (interface.go 151-154).
- `CrashesKnown` names every way in which an example program ends otherwise than by its exit:
  the nil channel above; an error sent to a closed `errChan` (bridge.go 41 and 92); the
  bridge's write to an unmapped queue (bridge.go 88); the races of `IsConnected` and
  `GetTxQueue`; and, for a master, the hang up on a channel without interface (5).
- `PushBack` and `Remove` of `ccList` race (control_channel.go 417, 448): a channel may be lost
  from the list while it is registered, and its events then find no channel, again and
  again. `listRef` is assigned after the channel is in the list, so a `close` in between
  removes nil. `ListsAgree` and `EventsHandled` are stated up to the first overlap.
- `Socket.Delete` closes the first channel and deletes the first interface only
  (control_channel.go 151, 160).
- An interface whose listener cannot be created stays in the list and keeps its id
  (interface.go 333-339).
- A channel that closes while `RequestConnection` runs stays with its interface
  (interface.go 292), whose `Disconnect` fails from then on.
- `packetBufferOffset` overflows its 16 bits for two queue pairs of the default ring size
  (interface.go 361), which `FirstPairUsable` excludes by its premise `OffsetFits`.
- `ReadPacket` with a `pkt` shorter than the packet panics or reports more than it copied
  (packet_reader.go 52, 67).

The others are hazards with a note in `PROJECT.json`.

## The proofs

`MemifRingProofs` proves, for every ring size, every index width that is a multiple of
it, every buffer size and packet set and both directions:

- `TypeCorrect`, `NeverOverrun`: `TypeOK` and `RingNeverOverrun`,
- `SlotsOwned`: `SlotOwnership`,
- `UnreadUntouched`: the action property `UnreadStays`,
- `ChainsComplete`: `NoIncompleteChain`,
- `OffersFull`: `OfferedBuffersAreFull`.

The assumptions are `RingAssumption`: sizes are positive, the index width is a
multiple of the ring size and larger. `RingNeverOverrun` is not inductive: a step that
publishes or releases moves an index to a position computed earlier. `IInv` adds
`WriterInv` (what `WritePacket` holds still lies within the free slots, which the reader
can only increase) and `ReaderInv` (what `ReadPacket` has passed lies within the unread
slots, which the writer can only increase; the slave's refill stays within the rest).
The proof turns every index into a distance modulo the width (`Advance`, `Retreat`,
`Distances`), proves one lemma per action, and gets slot properties from distances
(`SlotsDiffer`: positions less than `Size` apart are different slots). `ChainsComplete`
uses one more invariant, `ChainInv`: the last published slot, and the last one a reader
took into account, end a chain. `OffersFull` uses `FullInv`: offered and refilled slots are
full but for the last one of a packet about to be published, and a writer that goes on to
another slot has used all the room of the one it leaves.

`FifoProofs` says what a ring delivers, under the same assumptions. `WritePacket` stores the
start of a long packet in every buffer of its chain (`ring_chain_contents` shows it):
`Stored(p)` is what the chain of `p` holds, `Chunks(p)` times `Chunk(p)`. Two hypotheses on
the packets occur: `StoredFits` (what is stored fits the `pkt` the reader passes) and
`StoredWhole` (what is stored is the packet).

- `DeliversWhatIsStored`, from `StoredFits`: `MemifRing` implements the queue of stored
  packets, `FifoStored`, with the mapping of `FifoSpec`,
- `DeliversInOrder`, from both: it implements `PacketFifo` without its fairness,
- `WritesWholePackets`, from `StoredWhole`: `WritesOnePacket`,
- `NeverPanics`, from `StoredFits`: `ReadPacket` never slices past the end of `pkt`,
- `ShortPacketsInOrder`: packets that fit one buffer and the reader's satisfy both, by
  `OneChunk`. Those of the example programs do: their `pkt` has the 2048 bytes of a buffer.

The invariant `RingInv` adds three parts to those above. `UnreadInv`: behind a slot without
NEXT flag, and at the first unread slot, begins the chain of some packet, all of it
published. `WritingInv`: the slots the writer has left hold the chain of its packet so far
(on an M2S ring `FullInv` gives each slot room for a whole chunk). `ReadingInv`: the
reader has copied the beginning of the first chain; with `ChainInv` it never ends early.
`WritingInv` is inductive with `FullInv` alone, so `WritesWholePackets` says nothing of the
reader. `QueueContents` is a recursive function over the slots. A `Decoding` is a function
that satisfies its recursion: there is one (`DecodingExists`), and each gives what `Decode`
returns (`DecodeIs`), both by the least position where it would fail (`LeastNatural`). A
chain more at the end, or at the front, of the slots is a packet more there (`AppendChain`,
`RemoveChain`). So publishing appends (`PublishAppends`), releasing takes the first
(`ReleaseRemoves`), and every other step leaves the queue alone (`QueueStays`, from
`UnreadStep`). TLC has checked `RingInv` and `FifoStored` for both directions, 1 to 3 slots
and packets of up to five cells in buffers of two.

`ControlChannelProofs` proves `ControlTypeCorrect`, `OneChannelAlways`,
`MessagesFindInterface` and `NothingEverLeaks` (`TypeOK`, `OneChannelPerInterface`,
`NoMessagePanic`, `NothingLeaks`) for any number of slaves, connections and rings, from the
module's assumption on its constants. A handler turns a record of its interface and channel
into another one with `SendMsg` or `Close`, and commits it. `Outcome` says what every one of
them may do: keep the interface as it is, or close the channel and take the interface down
in whole or up to a failing call; send the next message, none, or a Disconnect instead of
the queue. `CommitState` and `CommitMessages` derive the invariant from `Outcome` once;
each handler's lemma says what it hands over. `OneChannelPerInterface` is inductive with
the facts that tie channels to interfaces (`OwnerInv`, `GoneInv`, `BacklogInv`, `SlaveInv`,
`MasterInv`). `NoMessagePanic` is about the order of messages: until a master's channel is
bound, whatever needs its interface is on the way behind an Init, in the socket or in the
slave's queue (`InitFirst`). TLC has checked `IInv` on the instance of `link_faults`.

`HandshakeProofs` proves `LockStepAlways`, `QueuesAlwaysPaired` and `NeverTwiceUp`
(`LockStep`, `QueuesPaired`, `NeverUpTwice`) from the same assumption. None is inductive,
and counting messages is not enough: what the next step does to a queue or to the rings
depends on which message is on its way. The invariant `Link` therefore follows the script
of the handshake, which for n queue pairs has the lines Init, AddRegion, n rings of each
direction and Connect (`Line`). A connection whose two channels are open is in one of
three phases: Hello is on its way (`Greeting`); line k + 1 is on its way or the Ack for
line k comes back (`UnderWay`), the slave's queue holds exactly the lines after it
(`Rest`) and the master has exactly the rings of the first k lines (`Served`); or the
master is connected with the slave's rings (`Settled`). Once one channel is closed only
Disconnect may follow the next message (`Parting`). `Link` is about two interfaces, two
ends and two flags, so that what a step does to a connection is a lemma about data
(`NextLine`, `RingAdded`, `SlaveCloses`, `MasterCloses`, ...); `ChannelStep` lifts these to
the state: a step on one connection leaves the others alone, because an interface has one
channel (`HeldOnce`, `OneChannelPerInterface`). `ToldInv` says when an interface was told
that it is down. TLC has checked `LinkInv` and `ToldInv` on the instance of `link_faults`.

`ClosingProofs` proves `ClosedOnlyUnmappedAlways` (`ClosedOnlyUnmapped`) for the two
values of constants that `link_liveness` gives: callbacks and system calls succeed, and
polling waits for `RequestConnection`. Without them the statement is false, as
`link_wedged` shows. `Ended` says what `close` and what comes after a handler may do to
an interface and its channel; the invariant adds to `ClosedInv` that slaves have no
unmapped region and that the channel of a `RequestConnection` under way is open. TLC has
checked it with `link_liveness`' constants and crashes and disconnections everywhere.

`RegionLayoutProofs` proves `LayoutTypeCorrect`, `HeadersSurvive` and `FirstPair`
(`TypeOK`, `HeadersIntact`, `FirstPairUsable`) for every number of pairs, ring size and
buffer size. `FirstPair` is about both rings of pair 0: buffers of different slot numbers
are disjoint; it does not say that the two rings have different buffers, as they have
not. The invariant says that rings initialised so far keep their header and, for
queue id 0, their descriptors: later rings lie behind earlier ones and write only
forward, wherever their descriptors go. That the tx loop comes first is used: the
mutant with the loops exchanged breaks it.

`SocketProofs` proves `SocketTypeCorrect`, `ListsAlwaysAgree`, `OnlyOneTakesDown` and
`HeldUntilDown` (`TypeOK`, `ListsAgree`, `OneTakesDown`, `HeldWhileDown`) for any sets
of interfaces and channels. `ListsAlwaysAgree` is about an intact list: it says that
adding, closing and looking up channels keep the lists together until two operations on
`ccList` overlap. The others hold on a torn list as well. The only assumptions are that
the names differ (`SocketAssumption`). None of the three is inductive. `IInv` says for
each label of a goroutine what it may rely on (`GoroutineInv`: a channel being removed
is in the list and not registered, one being taken down is what its interface holds),
that two goroutines never add or remove the same channel and are inside of the list
together only when it is torn (`AloneInv`: `delEvent` succeeds once), and that an
interface holds the channel made for it until that is closed (`BoundInv`), except while
`RequestConnection` has not stored it (`RequestInv`). Then two goroutines taking down
the same interface would hold the same channel, which `AloneInv` excludes. The proof has
one lemma per change of the shared state (`AddStep`, `BeginStep`, `PushStep`,
`EventStep`, `RemoveStep`, `ClearStep`, `BindInterfaceStep`, `BindChannelStep`,
`StoreStep`, and `LocalStep` for steps that change none), and one per action that maps
it to one of these; `ListedSettled` says that whatever a walk may meet is a channel that
was created and put into the list. TLC has checked `IInv` on the instance of `socket`.

`BridgeProofs` proves `PollingRefined`, `BridgeTypeCorrect`, `QueuesStayMapped` and
`OnlyKnownCrashes` (`PollingSpec`, `TypeOK`, `OwnQueuesMapped`, `CrashesKnown`) for both
programs and roles, from `i0 # i1` and `None` being neither. The invariant relates the
progress of a disconnection to the goroutine of its interface (`DownInv`, `DataInv`):
before the join the memory is mapped, after it the goroutine is gone. The refinement
needs no invariant: each action is a step of `Polling` or leaves its state alone.

Only model-checked: liveness, and the fairness part of `FifoSpec` with it; liveness under
fairness and ENABLED are beyond the provers. The queue pair has no theorem: its property is
the one `pair_buffers` finds violated, so what is proved of one ring's contents holds while
the other direction is not in use; indices and descriptors belong to one ring alone.

## Not modelled

A second `StopPolling` and polling started twice, errors of `epoll_ctl` and `accept`, a
failing write of the wake event (control_channel.go 84-89, after which `StopPolling` returns
without waiting), the memory's configuration that `GetMemoryConfig` returns to each side,
messages that are not well-formed or come from another implementation, interrupts,
message encoding, what the commands print, `memif-attach`. The layout's runs stay below
the 16-bit overflow, and no run has buffers of 64 KiB (memif_unsafe.go 49).

## Plan

Done: rings, queue pair, layout; `ControlChannel` with crashes, failures and liveness;
`Socket`, `PollLoop` and `Bridge`; proofs about all of them but the queue pair. Left:

1. Of the queue pair, that what the two directions do to each other's buffers leaves the
   index properties of both rings alone, as a theorem.
2. The 16-bit overflows of the layout and of `setDescLength`.
