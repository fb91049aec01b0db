# A verification project for cotton

cotton is a collection of Rust crates for networked embedded systems.  Its two
parts with a life of their own are a USB host stack (`cotton-usb-host`, with mass
storage in `cotton-usb-host-msc` and `cotton-scsi`) and an implementation of SSDP,
the UPnP discovery protocol (`cotton-ssdp`, fed by `cotton-netif`).  Both react
to events that come in any order (plugs being pulled, interfaces coming up,
searches arriving, timers) and both hold state across awaits or across calls.
This directory models them in TLA+, model-checks the models with TLC, and proves
theorems about them with TLAPS.

To check one run: `tlc -workers 2 -config MCTopology.cfg Topology`.  To check the
proofs of a module: `tlapm TopologyProofs.tla`.  `PROJECT.json` lists the runs
with their modules, the source lines behind each definition, the hazards the
properties are aimed at, and the findings.

## Inventory

| Component | Source | State | Operations | What is hard |
|---|---|---|---|---|
| Topology table | `cotton-usb-host/src/topology.rs` | `parent`, a packed byte per address | `device_connect`, `device_disconnect` | removal of subtrees in a table walked while it changes; two address ranges running out |
| USB bus | `cotton-usb-host/src/usb_bus.rs` | `HubState`: topology, 15 interrupt pipes; the handler's locals across awaits | `device_events`: root events, hub packets, enumeration | everything may be unplugged at every await; a transfer may fail; only one device may be at address 0 |
| Resource pool | `cotton-usb-host/src/async_pool.rs`, `bitset.rs` | bit set, one waker | `alloc` (future), `try_alloc`, drop | lost wake-ups, cancellation |
| RP2040 driver | `cotton-usb-host/src/host/rp2040.rs` | registers, pipe wakers, data toggles | interrupt handler, control/bulk/interrupt transfers | interrupt races with polls, double buffering |
| Wire formats | `cotton-usb-host/src/wire.rs`, `host_controller.rs` | none | descriptor parsing, visitors, choice of endpoints | lengths that the device states; 64 bytes of what may be more |
| Mass storage | `cotton-usb-host-msc/src/mass_storage.rs` | command tag, endpoints' toggles | `command`: command, data and status phases | stalls before, in or after the data; residues; an exchange cut short by the bus |
| SCSI | `cotton-scsi/src/scsi_device.rs`, `scsi_block_device.rs` | none across operations | commands, error upgrading, `read_blocks`, `write_blocks`, `device_info` | 10/16-byte limits; a failed command explained by another |
| SSDP engine | `cotton-ssdp/src/engine.rs` | interfaces, searches, advertisements with a pending answer each | network events, `advertise`, `deadvertise`, `subscribe`, `on_data`, `handle_timeout` | order of events; two searchers for one resource; timers |
| Refresh timer | `cotton-ssdp/src/refresh_timer.rs` | `next_salvo`, `phase` | `reset`, `update_refresh` | lateness, lost salvos against `max-age` |
| Async service | `cotton-ssdp/src/async_service.rs` | engine behind a mutex, a task with a sleep | `select!` loop, callers | deadline read before unlock, used after |
| Sync service | `cotton-ssdp/src/service.rs` | engine, two mio sockets | `multicast_ready`, `search_ready`, `next_wakeup`, `wakeup` | edge-triggered readiness: what is not read now is not reported again |
| Sockets | `cotton-ssdp/src/udp/` | group membership | send from, receive to, join, leave | system calls that fail |
| Messages | `cotton-ssdp/src/message.rs` | none | parse, build | messages written piece by piece into a buffer of limited size |
| Interface discovery | `cotton-netif/src/linux_netlink.rs`, `getifaddrs.rs` | three netlink sockets and whose turn it is; or a list | stream or list of `NetworkEvent` | dumps against changes, three sockets merged, buffers that overrun |
| Others | `cotton-unique`, `cotton-w5500`, `cross/`, `systemtests/` | - | - | pure hash; glue; examples |

How they interact: `UsbBus` calls the host controller driver (the RP2040 one
shares its pipes by `Pool`s) and keeps addresses in `Topology`; its stream of
`DeviceEvent`s is consumed by the application, which drives devices with
transfers (mass storage does, below SCSI).  `Engine` is called by `AsyncService`
or `Service` with packets, timeouts and the `NetworkEvent`s that `cotton-netif`
produces, asks its `RefreshTimer` when salvos are due, and sends through sockets.

## Modules

    Topology <--refines-- DisconnectLoop      RefreshTimer <--EXTENDS-- RefreshLease
       ^                                           ^
       | INSTANCE                                  | EXTENDS
     UsbBus                        Messages <-- SsdpEngine <------------- NetworkFeed
                                                ^        ^                    |
     Pool  Rp2040Transfer  InterruptPipes       |        |                    v
                                        AsyncService  SyncService         GetIfAddrs
    BlockStore <--refines-- BlockDevice         ^        ^                    |
                              |      |          |        |                    v
                              v      v          Services                   Netlink
                       ScsiDevice  Descriptors                                |
                              |                                               v
                              v                                            Kernel
                       MassStorage --> BulkOnlyDevice

(Arrows without a word are EXTENDS.)

**Topology.**  `parent[a]` is the byte of the code, hub in the low four bits.
`device_connect` and `device_disconnect` take `&mut self`, so each is one step;
the results are kept in `address` and `gone`.  `Attachments` is what the callers
can pass: a present hub or the root, and any port number up to one beyond the
table's limit.  The least closed set `Downstream` is the specification of what a
disconnection removes.

**DisconnectLoop** takes `device_disconnect` apart, one step per entry visited
(`Visit`) and per pass of the outer loop (`EndPass`), and is shown to implement
`Topology` under the mapping that shows a caller the table as it was when the
call began (`parent0`) until it returns.

**UsbBus** has two halves.  The plant: where devices are plugged in (`place`), the address each
answers to (`usb`), the status and change bits of the hubs' ports (`port`).  The code: the
topology, `pipes`, and the one event handler, suspended at `pc` with its locals in `ctx`; each
action is the code between two awaits.  A transfer fails when nobody or more than one device
answers, or, up to `MaxErrors` times, for no reason.  A `SET_ADDRESS` is obeyed by every device at
address 0, also when the host sees it fail.  `known` is what the application concludes from the
events.  An application may use `device_events_no_hubs` instead (`no_hubs`), which knows of the
root port only.  A hub may send an empty packet (`EmptyPacket`), which is an error and changes
nothing.  Left out: the hubs' other change bits; transfers are in `Rp2040Transfer`, the pipes'
packets in `InterruptPipes`, configuration in `Descriptors` and `BlockDevice`.

**Rp2040Transfer** is a transfer of the RP2040 driver, with three parties.  The task:
`control_transfer_inner` and its callers, one step per group of register accesses, with
the packetiser, the depacketiser and `in_flight`; the future's read of `sie_status`
(`Poll`) and of `intr` (`PollIntr`) are separate steps.  The handler, `on_irq`, as far as
the control pipe goes.  The hardware and a device, which are external and modelled from
how the code uses them: a packet with `last` set, or a short one, ends the transaction
(`TRANS_COMPLETE`), each buffer of a double-buffered transfer sets its bit in
`buff_status`, a device flips its toggle with each packet it accepts, and may stall or
vanish.  Two timing assumptions are constants: `MaxRace`, how many packets may pass
while the task is awake (a full packet takes some 50 us, the task's work between two
waits far less), and `RaceErrors`, whether errors may arrive then.  After a failure an
endpoint is used again only once `clear_halt` has succeeded; a buffer that is shorter than
its transfer is refused once the SETUP is out (`BufferTooSmall`); there is no `clear_halt` for OUT
endpoints ("TODO" in the code).  Left out: sizes beyond 16 bits, and errors that do not wake
the future (CRC, bit stuffing, overflow, sequence).

**InterruptPipes** is the rest of the RP2040 driver: interrupt pipes, device detection, and
`on_irq` in full.  The handler is five steps, one per group of register accesses (`IrqEnter` to
`IrqMask`), and preempts the tasks; the hardware goes on between any two steps of either.  A poll
of a stream is two steps, registering the waker and looking, and a task polls its streams in any
order, as `select` does.  Control transfers appear as what they do to the registers they share
with the pipes.  A stream that is dropped gives its pipe back while the hardware goes on polling
it.  Two history variables say what the properties have to except: `late`, the sources whose event
fell in the middle of `on_irq` (a closed pipe's packet may be one, and its bit then keeps the
interrupt of the others masked, so `NobodyForgotten` excepts that too), and `robbed`, the devices
a closed pipe has had a packet of.  A stream is dropped only after its device has gone; dropping
and opening a stream again while the device is there is not modelled (the two would start with
different toggles).

**Descriptors** is the configuration descriptors as a sequence of records with lengths,
the 64 bytes of them that `get_configuration` fetches, their parsing, and the visitors
that look for a mass-storage interface and for the endpoints of one configuration.

**BulkOnlyDevice, MassStorage, ScsiDevice, BlockDevice** are one path from the medium to the
application.  `BulkOnlyDevice` (external) is a device: a FIFO of IN packets, in which a stall
stays until cleared, an OUT endpoint that may be halted, data toggles, sense data and blocks.  It
may fail a command with a stall, with too little data, or both: a device that ends its data with a
short packet is free to halt the endpoint after it, before the status (Bulk-Only Transport,
6.7.2).  `MassStorage::command` is a step per await: command block, data phase, `clear_halt`,
status wrapper; a transfer may fail part-way (`MaxFaults`), and the host's toggle is then not
updated, as in the driver; a command block may also go out short (`CutShort`).  `ScsiDevice`
builds the commands with their integer widths and, when one fails, sends REQUEST SENSE and looks
the answer up in the code's three tables.  `BlockDevice` is `ScsiBlockDevice` with the application
of `rp2040-usb-msc.rs` on top, which identifies, configures, asks and then reads and writes, and
finds the device pulled out and put back.

**BlockStore** is what `AsyncBlockDevice` promises: whole blocks are read and written, or
an error is returned, and no block is promised that is not there.  After the link has
failed (`broken`) it promises nothing until the device is attached anew, because the code
does not: see the findings.  `BlockDevice` implements it with `pending <- op`.

**Pool.**  A client is one user of the pool, in a task; waking a task polls all
its waiting clients.  `Poll` registers the waker before it tries, as the code does.
`Cancel` drops a future, whose waker stays behind.  Clients ask again and again, without a bound.

**RefreshTimer, RefreshLease.**  Instants are kept relative to the present, so the
state space is finite.  `RefreshTimer` is the code; `RefreshLease` adds one listener,
which forgets a resource `MAX_AGE` after it last heard of it, salvos that may be
lost, and an owner who looks at the timer early or late, and who resets it at any moment, a salvo
being overdue or not.  No time passes between a reset and the salvo it makes due: the callers
in `cross/` go on to `handle_timeout` in the same pass.

**Messages.**  A text is a value and its size in bytes, a message its first line and a
function from header names to values.  The four `build_` operators write the pieces of the
code's `write!` at the offsets its literals give them (82, 50, 86 and 80 are the sizes of the
first ones) until one does not fit (`Written`); `parse` picks the headers of each kind of
message.

**SsdpEngine.**  One action per public operation; each is atomic in the code
(`&mut self`).  Data is abstract: a type is a base name and a version, a location
has a flag for "has a scheme", a host and the size of the rest, and a packet is what
`parse` makes of what was built for it (`Parsed`).  `Send` is
the network: it updates what peers have `heard` through each address, what was
`asked` there, and which searches are `owed` an answer, and it may lose packets (up
to `MaxLosses`).  `Ips` are IPv4 addresses (the code ignores the others), and each
belongs to one interface; `Via` says on which a searcher is heard, and packets come in on
addresses in use.  Peers keep what they have heard when an address of ours goes out of use; a
resource that is withdrawn meanwhile is `Outdated` there until it is announced again (that they
forget it after `max-age` is left to `RefreshLease`).  Links come with and without `MULTICAST`, and
a flag may change on a link that is known.  Events that change nothing (a new link without
`MULTICAST`, a join that fails) are stuttering steps.  The two swapped arguments of `byebye_on`
cancel each other out.  `send_from`, `receive_to` and the two group operations are those of
`udp/std.rs`.  Not modelled: `call_subscribers`.

**AsyncService** puts `SsdpEngine` behind the task of `new_inner`: `Select` computes
the sleep with the lock held, then the application (`Caller`) may use the engine,
packets are received one at a time (`Receive`), and `Elapsed` takes the timer branch.
`reset_refresh_timer` is not exposed by the service; if it were, the task would
sleep through the salvo it makes due.

**SyncService** is `Service` with the loop that its documentation prescribes: poll with
`next_wakeup` as timeout, `wakeup`, then the ready socket's handler for each token.  mio's
edge-triggered readiness is `edges`: a socket is reported for an arrival and not again until
another.  An `Odd` packet is one on which `receive_to` fails, having taken it (no `pktinfo` with
it, or no IPv4 sender): the handler's loop then ends like on an empty socket (`ReadyFails`), and
`cut` are the sockets left with packets by it.  **Services** lets either service own the engine,
for the properties that both must have.

**Kernel, Netlink, GetIfAddrs, NetworkFeed.**  `Kernel` (external) is the table of links
and addresses and three netlink sockets with finite buffers: a change that finds a buffer
full is dropped and the next `recv` fails once.  `Netlink` creates the sockets, joining
the group before asking for a dump, and merges them with two nested `select`s, each of
which remembers whose turn it is.  `GetIfAddrs` is the list of `get_interfaces`, whose
names are looked up one by one while the table changes.  `NetworkFeed` delivers the events
of either to an `SsdpEngine`; `told` is what a consumer has been told, with `wavers`, the
interfaces announced to it again with `MULTICAST` gained or lost.

The `MC` modules declare model values and the values of function-valued constants.

## Runs

Bounds are named constants of the modules.  All runs are exhaustive.

| Run | Checks | Bounds, and why they are enough |
|---|---|---|
| `topology` | the table is a tree, one device per port, addresses stay put | 4 addresses of 5 usable, 3 for hubs, ports 0 to 3: both ranges run out, hubs nest three deep |
| `disconnect_loop` | the loop refines the one-step operation, and ends | 3 usable addresses, all for hubs: chains in which each pass finds one more |
| `pool_one_task` | ownership, no lost wake-up, everybody served unless overtaken for ever | 4 clients, so that two wait while two hold, 2 resources, any number of requests |
| `usb_bus` | one device at address 0, topology true, devices announced in the end, quiet bus known | 2 hubs, 1 device, any initial wiring, 3 plug moves at any moment: a hub with something below it can be pulled while it is enumerated, and put in elsewhere |
| `usb_bus_faults` | handler returns, changes served | one failing transfer, slow resets, bouncing plugs, one pipe |
| `rp2040_transfer` | data intact, toggles agree, transfers end | packets of 2 units; 0 to 7 units, so up to 4 packets, ending in a full, a short or an empty one in either buffer; any number of transfers, stalls and timeouts; one packet may pass while the task is awake |
| `interrupt_pipes` | no sleeping task is forgotten, packets once and in order | a hub that sends one packet and a keyboard that sends two, in one task; 3 pipes, so that the last, which is never woken, is not needed; any number of control transfers, of 3 packets, which use `buff_status`; 2 moves: the keyboard out and in again, or the root port twice |
| `refresh_lease` | the lease is kept | the code's own constants, 7 losses, owner at -4 s, 0 or +17 s each time, resets at any moment |
| `ssdp_engine` | everything announced and searched for on every usable address, at once or, after a loss, in the end; listed interfaces are joined | 2 interfaces, flags with and without `MULTICAST` and `RUNNING`, groups that cannot be left, 1 resource, 2 locations, 1 searcher, searches incl. `ssdp:all`, any 1 packet lost; names of 313 and types of 60 bytes, with which a notification fills its 512 bytes as far as its name goes |
| `ssdp_services` | neither service oversleeps, strands a packet or forgets a search; answers in time (a pending answer is not brought forward); refreshes go on | 1 interface, 2 searchers, MX 1 and 3 with a longest delay of 2, so that one is cut, callers at every moment; packets that `receive_to` fails on come to the multicast socket; sockets hold 2 and 1 packets, and what arrives while a socket is being emptied arrives at an empty buffer |
| `block_device` | host and device in step, failures explained, only storage spoken to, refinement of `BlockStore`, operations end | integers of 0 to 3, 6 and 12 for u16, u32 and u64, so that requests fall on both sides of each limit; a block is one packet; devices of 3 and of 9 blocks, with and without 16-byte commands, with several configurations, with descriptors past 64 bytes, a CD-ROM and a keyboard; one bus fault anywhere, any number of stalls, failures and halts after a short packet, 2 requests, tags modulo 4 |
| `network_feed` | what was told is what the kernel has, lists in order, peers follow the kernel, the stream catches up | 2 links, one with an IPv4 and an IPv6 address and one bare, three sets of flags, so that `MULTICAST` and `UP` come and go on a link that stays; any initial table, 2 changes at any moment, from the creation of the sockets on; buffers of 4 messages (a dump always fits), so that they overrun |

The other configurations reproduce findings, and TLC ends each with a counterexample:
`MCUsbBusAddressZero.cfg`, `MCUsbBusHubSwap.cfg` and `MCUsbBusPipeLeak.cfg` (with
`MCUsbBus`).  The rest take a line or two of a configuration above:

* `MCPoolOneTask.cfg` with `TaskOf <- TwoTasks` and `Total = 1`: `SleepersAreCovered` fails; with
  `PROPERTY ServedAtLast`: a waiter is overtaken for ever.
* `MCUsbBus.cfg` with `Bounce = {"hub"}`: `QuietBusIsKnown` fails, a replug is missed; with
  `MAX_DEVICES = 2`, `MAX_HUBS = 2` and `INVARIANT PipesPollHubs`: the pipe of a hub that is gone
  polls a plain device that was given its address.
* `MCRp2040Transfer.cfg` with `RaceErrors = TRUE`: the deadlock of a transfer whose stall has
  been erased; with `Ops <- FullPackets`: the one after the panic (`NoPanic`).
* `MCInterruptPipes.cfg` with `INVARIANT NobodyForgottenEver`: an event in mid-handler; with
  `INVARIANT PacketsInOrderEver`: a closed pipe's theft; with `NPipes = 2`: the last pipe
  is not woken; with `Tasks = {main, other}` and `TaskOf <- TwoTasks`: the control transfer's
  bit keeps the other task's interrupt masked.
* `MCRefreshLease.cfg` with `PROPERTY NoBurst`: a late owner's salvos come back to back.
* `MCSsdpEngine.cfg` with `UsnSize = 314`: names that no longer fit are announced as blank; with
  `Via <- TwoWays`, `MaxLosses = 0` and `INVARIANT NoSearchForgotten`: a searcher on two links
  is forgotten when one goes down; with `MaxWaits = {0, 1}` and `INVARIANT NeverPanics`: the
  remainder by 0; with `Types <- TwoTypes` and `INVARIANT AnswersMatch`: a second search of
  one searcher is not answered; with `INVARIANT WithdrawnEverywhere`: a resource withdrawn while
  a link is down is never taken back there.
* `MCServices.cfg` with `MAX_DELAY = 5` and `random_seed = 2`, and `by |-> MIN_DELAY +
  MaxDelay(mx)` in `on_search`: `AnsweredInTime` fails, a pending answer is too late for a second
  searcher.  As it is, with `INVARIANT NoneLeftBehind`: packets stranded behind one that
  `receive_to` fails on.
* `MCNetworkFeed.cfg` with `INVARIANT LinksComeFirst`: an address before its link; with
  `INVARIANT FollowsEveryFlag`: an interface that gains or loses `MULTICAST` is not heeded.
* `MCBlockDevice.cfg` with `PROPERTY StatusIsOwn` for its properties: the last command's status
  taken for this one's, with `MaxFaults = 0` too (a halt after a short packet); with `Units <-
  CompositeUnits`: `TalksToStorage` fails, on a composite device.

Deadlock checking is off where the system really may stop: `UsbBus` when nobody plugs anything any
more, `InterruptPipes` when every task sleeps and every device has sent its packets.

### Fairness

* `DisconnectLoop`: WF on the loop; it is straight-line code.
* `Pool`: WF on polling a woken client (the executor) and on dropping a held resource
  ("advised" by the documentation of `alloc`).  Not on asking or cancelling.
* `UsbBus`: WF on the handler (the executor polls it) and on the hardware; SF on
  `RootEvent` and on `TakePacket`, because `futures::stream::select` alternates between
  its two streams, so neither can be passed over for ever.  None on plugging.
* `Rp2040Transfer`: WF on the task (the executor), on the handler, and on the device's
  packets, so that it does not refuse (NAK) for ever.  None on errors.
* `SsdpEngine`: WF on `handle_timeout` and on time, as the documentation of `Engine`
  asks of its owner.
* `Services`: WF on the steps of the task and of the loop; SF on `Elapsed` and on time,
  since tokio's `select!` picks at random among the branches that are ready, and on a
  socket running dry, since a program that is never faster than its network serves nothing.
* `BlockDevice`: WF on the steps of an operation (the executor; a device that is there
  answers).  None on requests, plugging or faults.
* `NetworkFeed`: WF on creating and polling the stream and on reading the list: the
  application awaits the next event for ever.  None on the kernel's changes.
* `InterruptPipes` has no fairness and no liveness property: that a waiting task's
  interrupt is still to come is stated as an invariant.

## Proofs

All proofs hold for every value of the constants that satisfies the assumptions in
the modules; 16 or fewer hubs and ports because they are packed in four bits.

* **TopologyProofs.**  The inductive invariant is `TypeOK`, `ZeroNeverAllotted`,
  `OneAddressPerPort`, `NoOrphans` and `RootedAtRoot` together.  `NoOrphans` alone is not inductive:
  a new device must not take the address of a hub whose children are still there,
  and the removed set must be closed, for which the entry of a hub must be unambiguous.
  `OrphanFreedom`, `TreeShape`, `PortUniqueness` and `AddressStability` follow.
* **TopologyProofs, the loop.**  `LoopInv` adds to the types `CondemnedExactly`, the loop
  invariant: what has been condemned is in every closed set, and what was visited in
  this pass and depends on the last pass's set has been condemned.  At the exit, where
  a pass has added nothing, the two make `bitset` the least closed set, which is
  `LoopImplementsTopology`.
* **PoolProofs.**  `PoolOwnership` for any clients and tasks; `OneTaskLosesNoWakeup` under
  the hypothesis that all clients share a task, without which TLC refutes it.
* **RefreshLease**, at its end.  `LeaseInv` bounds the time since the listener last heard plus
  the time to the next salvo by the periods of the salvos lost, of which one in four
  is long.  `update_refresh` counts a period from when the salvo was due, but a reset counts from
  now and forgets by how much a salvo was overdue: so the owner's lateness may add up, once for each
  period (`lost * MaxLate`).  With the code's constants, any 32-bit seed, seven losses and an owner
  up to 17 s late each time this is below 1800 s (`NoLeaseExpires`); one who is 100 s late and
  resets while overdue can lose the lease.  Eight losses may cross two long gaps more, and TLC then
  finds an expired lease.
* **NetworkProofs, the engine.**  `Typing`; `Announced` and `Searched` under `PacketsFit`, that each
  message is as long as its buffer at most (with a longer one `AnnouncedEverywhere` is false, see
  the findings).  The inductive invariant `Acquainted` says what the peers know of every address
  in use, and that whatever is known through the others is advertised still or `Outdated`: without
  that, what is left over of an earlier use could be wrong when `send_all` has brought an address up
  to date.  `Membership` (an interface is listed only while its group is joined) needs no condition.
  The lemmas on messages (`NotifyRead` and its like) say that a message that fits is read as
  it was meant.
  `Answered` needs `OneWay`, that a searcher is on one of our links only.  Its invariant `Kept`
  ties each debt to the answer that pays it: the answer's instant is not after the debt's,
  leaves from an address at which the debt would be paid, and no deadline is overdue
  by more than `MaxLate`.
* **NetworkProofs, the services.**  `NoneStranded`: the invariant `Polled` follows each socket
  through its edge, the list of events that `poll` returned, and the handler's loop, up to a
  `receive_to` that failed (`cut`).  `NeverLate`: `Awake` says that the deadline the owner sleeps
  on is at most the engine's earliest.  Callers can only take deadlines away (`CallerDeadlines`);
  new ones come with searches and timeouts, which the owner itself handles, and it then computes
  its sleep again.  `ServicesAnswer` carries `Kept` over to both owners, by showing that each of
  their steps is one of the engine's with a clock that waits for the owner.
* **InterruptPipesProofs.**  `InOrderAlways`, for any tasks and pipes: `Streaming` says for each
  stream which toggle its buffer has when full and when empty, that streams of devices that are
  present have pipes of their own, and that a task's list of streams to poll has none twice.
  `NobodyForgottenAlways` under `OneReader` and `PipeToSpare`, without either of which TLC
  finds the counterexamples above: `Attentive` says, at each of the handler's steps and
  each of the task's, where the promise of a wake-up is: in the waker, in a register, in what
  the handler has read, or excused by `late`.
* **Rp2040TransferProofs.**  `TransfersIntact` and `TogglesAgreeAlways`, with no condition on
  the constants: any packet size, any transfers, any `MaxRace` and errors at any moment (a stall
  that is lost makes a transfer hang, not succeed).  In `Faithful`, `Pointers` places the task,
  the hardware and the packets in flight in the ring of two buffers, so that the packets done,
  armed and not yet prepared are one run of units (`DataIn`, `DataOut`); `StatusOK` says what the
  hardware's flags mean for it; `Agreed` carries the toggles from one transfer to the next.
  The argument turns on `Ring` (which buffer is whose), `RipeWhenDone` (a transaction that is
  complete has no buffer left that the task would wait for) and `UnitsJoin` (two runs that
  meet are a run).

* **NetworkProofs, the feed.**  `StreamTellsTheTruth`, `ListTellsTheTruth` and
  `EngineFollowsKernel`, for any finite tables of links and addresses, buffers of any size and any
  changes at any moment.  In `FeedInv`, `TruthUnderWay` says of every link and address that the
  last message under way about it is the truth, or that there is none and the consumer knows;
  `Lists` says of the list that each entry of the table is still to be read, still to be told, or
  known; `Follows` ties the engine's interfaces to what it was told, and says that nothing follows
  a link's `DelLink`, without which an address could come back to an interface that the engine has
  forgotten.  `LinkFollows` and `AddrFollows` say so of each interface that is not in
  `told.wavers`: one whose `MULTICAST` flag has changed is excepted, for the engine ignores
  whatever it is told of a link without the flag, that it has lost it and the addresses that came
  before it included.  Flags are otherwise any sets. `EngineFollowsKernel` is under `PacketsFit`.
  `FeedAssumption` says that the engine's links and addresses are the kernel's.
* **BlockDeviceProofs.**  `HostAndDeviceStayInStep`, `FailuresAreExplained` and the refinement
  `LayersImplementStore`, for any devices, any contents and any widths of the integers. The
  invariant speaks of a link that works (`Live`): a command that ends in a transport error, by a
  fault of the bus or because the device halts the endpoint between a short packet and the status,
  which `command` does not clear, ends the promises until the device is plugged in again.
  `PhaseOK` says for each await of `command` what the device has queued, what it awaits and how
  the toggles compare; `ServingOK` that a command which is about to succeed has brought what its
  operation is owed (`Yields`); `ExplainingOK` that the `REQUEST SENSE` sent after a failure
  brings the sense of the command that failed; `ReturnedOK` what the outcome must be.  A write
  commits in `BlockStore` when the device takes its last packet.  `RequestAssumption` excludes
  empty buffers. `StorageIsFound` is under `SingleFunction`: the descriptors are whole and no
  other function is in the storage's configuration (on a composite device `TalksToStorage` is
  false, see the findings); there may be other configurations, and descriptors past the 64 bytes
  that are read.
* **UsbBusProofs.**  `AddressZeroIsSingle`, `TopologyTruth` and `QuietBusKnown`, for
  any devices, hubs, ports and table sizes, plugs moved at any moment and any number of times.
  The invariant has to say, for each await of the handler, what may have been unplugged since.
  `PlugsOK`, `PortsOK` and `RootOK` are about what is plugged in where and what the ports say of it;
  `AtAddressZero` that a device at address 0 is the one the handler is busy with; `WhereOK`,
  `ConnectingOK` and `AddressingOK` what the handler's locals mean; `ServedOK` that a device in a
  powered port has an address, or is being given one, or its port's change bit is set;
  `KnownOK` that whoever has an address has been announced; `TreeOK` that each entry of the table
  is a device in its place, or one whose removal the host has yet to hear of; `AloneOK` the
  case of a single device (`device_events_no_hubs`).
  The hypotheses exclude what makes the properties false (see the findings): `Calm`, no plug that
  bounces, no slow reset, no noise; `NoneRefused`, no device is turned away for want of room, for it
  would stay at address 0 while the next port is reset.  The run `usb_bus` satisfies both: TLC finds
  `NoneRefused` true in all its states.

The inductive invariants of the engine, the services, `InterruptPipes`, `Rp2040Transfer`,
`BlockDevice`, `UsbBus` and the feed hold in TLC too, on the configurations of their runs (let the
`MC` module extend the proof module); `Faithful` also with packets of 1 to 3 units, `MaxRace` up
to 4 and errors at any moment.

Every invariant that a run checks, every action property and both refinements are theorems,
under the hypotheses above.  Only model-checked are the liveness properties (`~>`, `<>`)
and the fairness they need, which are out of the prover's reach.

## Findings

Listed with their sources in `PROJECT.json`.  In short: the pool's single waker forgets a waiter
in another task, and a waiter that was woken can be overtaken for ever; a failed transfer leaves a
device at address 0 and the next port is reset anyway; a plug pulled between the read of a port's
status and the clearing of its change bit is lost; a hub can inherit a device's address that does
not fit its four bits; interrupt pipes are never freed, and the old pipe of a hub polls whoever is
given its address; a late owner sends salvos in a burst; a second search by the same searcher is
dropped even if its target differs, or comes in on another link while the first one is down; a
search with a small MX waits for an answer that was put off for a larger one; an MX of 0 panics;
the zero-length packet of a variable-size bulk OUT panics if it falls in the second buffer; a
stall that arrives while the driver's task is awake is erased, and the transfer never ends;
toggles are not updated by transfers that fail; `on_irq` can mask an event that it has not acted
on; the last interrupt pipe is never woken; a closed interrupt pipe goes on taking packets; only
the IN endpoint's halt is cleared after a stall, and a halt between a short packet and the status
not at all; the status wrapper's tag is not compared, so that after a bus error one command's
status is taken for another's; a device's size is reported as its last block; a read into a larger
buffer fails after it has been made; a composite device's lowest endpoints are taken for the
storage's; 64 bytes of descriptors are taken for all of them; a message too long for its packet is
cut and sent; a resource withdrawn while a link is down is never taken back there; a link that
gains or loses `MULTICAST` is not heeded; a packet that `receive_to` fails on strands those behind
it; a netlink address may come before its link, after which the engine ignores it for good, and
events lost in an overrun are not asked for again.

## Plan

1. (done) `Topology`, `DisconnectLoop`, `Pool`, `UsbBus`; `RefreshTimer`, `RefreshLease`,
   `SsdpEngine`, `AsyncService`, `Rp2040Transfer`; proofs of the first three and of the lease.
2. (done) `InterruptPipes`; the mass-storage path from `BulkOnlyDevice` to `BlockDevice` with
   its abstract `BlockStore`; `SyncService` and `Services`; `Kernel` to `NetworkFeed`;
   `Messages`.
3. (done) Proofs of `SsdpEngine`, both services, `InterruptPipes` and `Rp2040Transfer`; then of
   `BlockDevice`, `NetworkFeed` and `UsbBus`.
4. Left to model: delivery to subscribers over bounded channels, and two engines on one
   lossy network.

## Not modelled

* Characters: what `parse` makes of text that no `build_` function wrote (odd cases, blanks,
  headers out of order).  `max-age` is a constant of `RefreshLease`.
* `cotton-ssdp/src/udp/smoltcp.rs` and `cotton-w5500`: glue to sockets and a chip whose
  behaviour is in other crates.
* `cotton-unique`: a keyed hash.
* The examples, but for the main loops that `BlockDevice` and `NetworkFeed` use, and the
  system tests.
* Delivery to subscribers (`call_subscribers`, the channels of `AsyncService`).
