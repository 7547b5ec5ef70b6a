# Models of the programs in Documentation/

The repository is the Linux documentation tree. Most of it is text; the
programs are the C, shell, Perl and Python sources kept under `Documentation/`:
a complete daemon (`mic/mpssd`), a driver template
(`video4linux/v4l2-pci-skeleton.c`), example modules and small user programs.
This directory holds TLA+ models of them, TLC configurations, and TLAPS proofs.
Paths below are relative to `src/Documentation/`.

## Inventory

| part | sources | state |
| --- | --- | --- |
| mpssd life cycle: card states, child processes, reset, suspend | `mic/mpssd/mpssd.c`, `sysfs.c`, `micctrl` | `MicDaemon`, proved |
| mpssd virtio block backend | `mic/mpssd/mpssd.c` | `VirtBlk`, `BlockDevice`, proved |
| mpssd virtio net and console threads | `mic/mpssd/mpssd.c` | `VirtLink`, `Pipe`, proved |
| V4L2 skeleton: formats, buffers, streaming, interrupt | `video4linux/v4l2-pci-skeleton.c` | `V4l2Skel`, `CaptureDriver`, proved |
| V4L2 skeleton: probe's error ladder, remove | same | `SkelProbe`, proved |
| configfs example | `filesystems/configfs/configfs_example_explicit.c` | `ConfigfsExample`, proved |
| connector test module and client | `connector/cn_test.c`, `ucon.c` | `Connector`, proved |
| AMT version client over MEI | `misc-devices/mei/mei-amt-version.c` | `AmtClient`, proved |
| taskstats client | `accounting/getdelays.c` | `GetDelays`, proved |
| disk protection daemon | `laptops/freefall.c` | `Freefall`, proved |
| disk sleep monitor | `laptops/dslm.c` | `Dslm`, proved |
| TSC stress tests | `prctl/disable-tsc-ctxt-sw-stress-test.c`, `disable-tsc-on-off-stress-test.c` | `TscTests`, proved |
| timestamping example | `networking/timestamping/timestamping.c` | `Timestamping` |
| transmit timestamps test | `networking/timestamping/txtimestamp.c` | `TxTimestamp`, proved |
| PTP clock test | `ptp/testptp.c` | `TestPtp`, proved |
| everything else | see `PROJECT.json` | not modelled, see the end |

`PROJECT.json` lists every part with the reason it is left out, the hazards of
the code with their lines, and the lines every definition translates.

## How the parts of mpssd interact

For every card the daemon runs a configuration thread and forks a child. The
child runs four threads: block, net, console, and one waiting for signals. The
thread polls the sysfs attribute `state`; when the card goes down it kills the
child, waits for it, resets the card and forks a new child. The child's threads
share no state but the process, so each is a module of its own; what ties them
to the life cycle is that the child starts before a session and is dead before
the reset, which `MicDaemon` shows (`FreshBackend`, `NoBackendDuringReset`).

## Modules

**MicDaemon.** `pc[m]` is where the thread of card `m` is: `init_mic` (`fork`,
`fork_failed`, `init_mic_parent`), `mic_config` (`open_state`, `read_state`,
`switch_state`, `write_suspend`, `write_boot`, `poll_state`),
`mic_handle_shutdown` (`read_shutdown_status`, `kill_child`, `wait_child`) and
`reset` (`write_reset`, `reset_poll`). Every system call is a step of its own, so
users (`micctrl`), the card and a suspend can act between any two. Process
identifiers are reused once reaped. External: the host driver
(`WriteBoot`, `WriteShutdown`, `WriteSuspend`, `WriteReset`, `ResetDone`), the
card, OSPM and process exit, after `ABI/testing/sysfs-class-mic.txt`. Which kinds of
failure can happen (`faults`) and what users do (`ops`) is chosen in the initial
state and never changes, so that a property can name the failures it excludes and
one run explores behaviours with and without them.

**VirtBlk, BlockDevice.** The thread `virtio_block`: each round reads the configuration file,
opens and maps the backend, adds the device, serves requests, and gives
everything back. Actions carry the names of the functions; the error labels
are their second disjuncts. Data and sector numbers are left out; the size of a
file is kept because of the rounding in `set_backend_size`. A request has a type
the code carries out, or another one, and a last descriptor that fits a status byte or not.
`done` says that the data of the current request was transferred, and `reply` is the
request answered last with its status. `virtio_block_fd` is the file for which the
device behind the descriptor was added, or `None` if the descriptor is closed; `kept`
is history and says that a round ended without closing it, which happens when
`init_vr` fails. If the next `add_virtio_device` fails, which `start_virtblk` does not
notice, the round works on that device. With a closed descriptor every call on it is
taken to fail: its number is not reused in between, and before the first device
descriptor 0 is not a virtio device. `BlockDevice` says what the card is promised: a file
is attached and detached, requests are answered one for one in their order while it
is attached, and one that was carried out is never answered with an error. The
attached file is the one mapped, from the time the rings are mapped until they are
unmapped (`BlockContract`). That the data moved belongs to the request is not part
of it.

**VirtLink, Pipe.** `virtio_net` and `virtio_console` run the same loop; header
length, buffer size, ring size and index range are constants; failures are chosen as
in `MicDaemon`. `Pipe` says what
one direction promises: packets come out unchanged, in order, at most once,
and none is lost unless an operation fails. `VirtLink` implements two pipes
(`TxPipe`, `RxPipe`): the pipe's queue is what the tap or ring holds, with the
packet in the thread's buffer in front.

**V4l2Skel, CaptureDriver.** The ioctls are serialised by `skel->lock` and are single steps,
except two: `queue_setup`, whose two writes of `skel->field` are visible to a
handler, and STREAMOFF, in which `stop_streaming` precedes the cancelling done by
vb2. The interrupt handler takes four steps. Its body is template code
(`#ifdef TODO`), and so are starting and stopping the engine: the model assumes
that stopping waits for a running handler, which `AllReturned` needs. `irq_done`
may or may not read `skel->field` again, as the compiler pleases. vb2 is external:
`reqbufs`, `create_bufs`, `read_init`, `allocate`, `streamon`, `queue_cancel`,
`dqbuf`. `buf_list` is a set: the template does not say which buffer is filled
next. `last` and `disturbed` are history variables used by properties only.
`CaptureDriver` says what vb2 expects of any capture driver: it takes buffers, starts
with at least two, gives each back once and numbers the buffers from zero, and keeps
none when it stops or fails to start. With alternating fields a buffer is a field, so
the number is not the one `io.xml` describes (`SameSequence`). The driver's buffers are those on the list and in the
handler (`DriverContract`).

**SkelProbe.** `Calls` is the list of `skeleton_probe`'s calls that can fail, with
what each acquires and the error label it jumps to; a label is the sequence of
releases from there on. The driver core's managed releases follow, and users
open and close the node meanwhile.

**ConfigfsExample.** `cfs_pc` and `subsys` are the module's phase and the index of
the loops in init, roll back and exit; `kind`, `dir` and `opened` say what an
object is, where it is in the tree and how many files of it are open. configfs
is external: the references it takes are modelled, and that mkdir can be called
as soon as the subsystem is registered, before init has returned.
`configfs_unregister_subsystem` takes a subsystem away also when it is not empty.

**Connector.** `val` is `cn_test_id.val` as an offset, so that a failing second
registration deletes the id the code deletes. The timer handler is two steps, the
send and the re-arming, between which `del_timer_sync` waits. A message carries,
beside its number, how many were lost before it; this is history for `GapIsLoss`.

**AmtClient.** One action for each function. Sizes are kept as numbers, with `rc` made
unsigned as the code makes it; the contents of an answer are the fields the checks
look at, and fields beyond the bytes read are zero as in the cleared buffer.

**GetDelays.** A message is a sequence of units of four bytes, so that a pointer that
leaves the attribute grid meets `Data`. The walk keeps the code's `len`, `len2`,
`aggr_len` and `na`, with the advance by the sum of the lengths. The messages have the
form `getdelays.c:473` names, an aggregate with the task and its statistics.

**Freefall, Dslm.** Each call or statement of the loop is a step, and the signal
handler runs between any two. `Freefall` has the disk's own timeout. In `Dslm`, `poll`,
`seen` and `tested` are history: the last mode
read, how often it was another than before, and when it was last tested.

**TscTests.** Both tests. The kernel moves the TSD bit with the task; `Loads` is the
set of values the compiler may let the loop see after `rdtsc`. (gcc -O2 makes
use of it: after the first store it runs into the fatal message untested.)

**TxTimestamp, Timestamping, TestPtp.** Programs against a stack or clocks that run on
their own. In `TxTimestamp`, `late` says whether timestamps may take longer than the
50 ms the program waits. The clock of `Timestamping` counts half seconds and never
goes back. A `sendto` that fails is reported and leaves no timestamp; the slot moves all
the same. In `TestPtp` one step is one ioctl or one reading of a clock; the two clocks
start at any of the given values and advance at the same rate.

`MC*` modules give constants their values. `MCPrograms` explores the eleven
smaller components in one run: they do not interact, so a behaviour picks one in
its initial state and the others stand still. Operators whose comment begins with
"Mutant" are wrong versions of a definition; each shows that a property can fail.

## Runs

| run | what it shows |
| --- | --- |
| `mic` | whatever fails, only the card's own unreaped child is signalled and the thread never sleeps in poll on a state it has to act on; if `state` can be read, one backend for a card and none during its reset; if resets also settle in time and no user resets, none from before the session; without failures shutdowns are handled, and without user resets a restart asked for in time and the last of two suspends end in a boot |
| `mic_io_error` (violation) | an I/O error on `state` leads to a second child beside the first |
| `mic_resume` (violation) | a second suspend between the read of "offline" and the write of "boot" leaves the card down for good |
| `blk_live` | requests are served from the open and mapped file, through a device offered with its capacity, and every round releases what it took, both but for a device left open after a failing `init_vr`; capacity covers the file and lies in the mapping; the thread implements `BlockDevice`; a signal takes the thread back to the configuration file once the card is idle |
| `blk_signal_lost` (violation) | a signal between reading the file and clearing `signaled` is lost |
| `blk_status` (violation) | an unsupported request is answered with success |
| `link` | both directions are pipes and the assertion of `verify_out_len` holds, with failures and wrapping indices; without them everything is delivered; the thread never sleeps in poll on a packet whose event it has used up |
| `skel_stream` | `V4l2Skel`'s invariants and that it implements `CaptureDriver`, with failures, with buffers created at any time |
| `skel_late_create` (violation) | CREATE_BUFS while streaming disturbs the fields of the running stream |
| `skel_sequence` (violation) | top and bottom field of a frame have different sequence numbers |
| `programs` | the eleven smaller components, below |
| `tsc_on_off` (violation) | an optimised on-off test reports an error that is none |

What `programs` checks:

| property | module | meaning |
| --- | --- | --- |
| `ProbeBalanced` | SkelProbe | a bind that ends leaves nothing behind, but for the PCI device after a failing `devm_kzalloc` |
| `ReleasesHeld` | SkelProbe | error labels and remove release only what is held |
| `ItemsExact` | ConfigfsExample | an item lives exactly as long as it is in the tree or behind an open file |
| `NoSubsystemLeft` | ConfigfsExample | roll back and exit leave no subsystem |
| `TimerInModule` | Connector | the timer that re-arms itself never outlives the module |
| `NoStaleCallback` | Connector | no callback of a module that is gone, but for the first after a failing second registration |
| `GapIsLoss` | Connector | gaps in the numbers printed are the messages lost |
| `ReportTrue` | AmtClient | ENABLED and DISABLED only for answers that say so |
| `WalkAligned` | GetDelays | the walk meets headers only; data is printed for its own task |
| `ChildAwaited` | GetDelays | the wait for SIGCHLD ends |
| `StaysParked`, `QuietUnparked` | Freefall | the heads stay parked for the full time of the alarm after the last fall; at rest they are unparked |
| `ReportClosed` | Dslm | the report misses at most one change, and if none its times add up to its total |
| `NoFalseAlarm` | TscTests | no fatal error on a correct kernel |
| `PrintedPerPacket` | TxTimestamp | timestamps are printed under their packet, complete and in order |
| `StampsRead` | Timestamping | the transmit timestamps queued are all read, however many packets come in |
| `OffsetWithinDelay` | TestPtp | the offset is right within half of the delay |

Bounds. Timeouts of 1 or 2 polls tell "answered in time" from "too late", which
is all the code tells apart. The daemon runs with one card: its threads share
nothing but process identifiers, and `MicDaemonProofs` covers any number of
cards. Two suspends let the second meet the daemon on its way from the first. One
edit and two signals let a signal precede and follow the edit, and two requests in the
ring let one wait while another is answered. Ring indices modulo 3 with 2 entries wrap
within three packets; the header and sizes are those of a small net device, and the
console, which has no header, is covered by the proofs. Four buffers are one more than the driver's minimum, so buffers
can be added late; three frames give a top, a bottom and a top field. Three binds
let a failure precede and follow a success; two objects give a group and its
child; a socket of two messages overflows within four timer expiries; two exiting
tasks and the command fill the taskstats socket; answers are just below, at and
above each size the AMT checks compare with, and `Uint32` is 2^24, far above every
size and within TLC's integers; `ULONG_MAX` is 15 so that a parsed number wraps; two processors and four tasks
let every pair of modes follow each other; forty half seconds hold four slots; the two clocks of `TestPtp` start up to four ticks apart in either direction.
`Max...` constants bound histories, not behaviour.

Fairness. `MicDaemon`: the threads run, a signalled child exits, a reset ends,
a suspended system resumes. `VirtBlk`: both threads of the child run; nothing
is assumed of the user or of the card. `VirtLink`: the thread runs, the card's driver
comes up and gives buffers back; nothing is assumed of senders. `GetDelays`: the
program runs and the command it forked ends. `Timestamping`: the loop runs; with the
bounded clock this means that it catches up with its slots in the end. Deadlock is
checked for `MicDaemon` and `V4l2Skel`; the others may come to rest, because the
program ends or the bounded environment has nothing more to send.

### Limits of what holds

These are properties of the code as it is, found while modelling. Some are
premises that the properties and theorems carry:

- `ResumeBoots` holds for the last of several suspends. That every suspended card
  comes back (`ResumeReboots`) is false, see `mic_resume`: the write of "boot" fails
  during the second suspend, and `boot_on_resume` is cleared all the same (`mpssd.c:1443`).
- `FreshBackend` excludes resets by users (`micctrl -r`): a reset and a boot between two
  reads of `state` go unseen, and the old child serves the new session. With a reset
  that takes longer than `RESET_TIMEOUT` the next child is started too early.
- `RestartBoots` allows for a suspend before the boot, after which nobody boots the
  card, and needs the report to come before `SHUTDOWN_TIMEOUT`.
- `OneBlockDevice` needs `init_vr` to succeed (`mpssd.c:1159`): otherwise the device
  that was added stays, and the next round adds another. If that round cannot add
  one, it serves its file through the old device, which may have been offered with
  the capacity of another file (`mpssd.c:1035`); `ServesOpenBackend` and `Released`
  except this case.
- `SignalHonoured` needs a card that falls idle: the inner loop does not look at
  `signaled` (`mpssd.c:1192`).
- `AllDelivered` excludes a thread that had to wait for the card's driver:
  `wait_for_card_driver` may take the event of the first packet (`mpssd.c:578`).
- In `V4l2Skel` a stream that is stopped after a top field restarts with a bottom field,
  and the two fields of a frame have different sequence numbers
  (`v4l2-pci-skeleton.c:144`); `DocBook/media/v4l/io.xml:765` says they have the same.
- `skeleton_probe` returns without disabling the PCI device when `devm_kzalloc` fails
  (`v4l2-pci-skeleton.c:783`); `ProbeBalanced` counts these.
- `cn_test_init` leaves the first callback registered when the second registration
  fails, and deletes the id that was not registered (`cn_test.c:167`).
- `getdelays` advances the nested pointer by the sum of the lengths (`getdelays.c:514`).
  With the two nested attributes the kernel sends the sum is wrong only after the last
  one, and the walk stays aligned. An error of recv that it calls nonfatal ends
  the program unless `-l` is given. An error after registering, in the container
  branch, leaves the kernel's listener registered until the socket is closed.
- `dslm` takes one change off for SIGINT (`dslm.c:107`) also when the signal came with
  a change, or between the test in the body and the one of the loop (`dslm.c:91`, `:87`),
  where none was added; the seconds since the last change are then in no mode. Before
  the first poll the report is of -1 changes and a total taken from a time of 0.
- `timestamping.c:4` says "sends a PTP packet ... once every second"; the code sends one
  every five seconds (`timestamping.c:473`).
- `testptp -a` waits for ever when the timer expires before `pause()` (`testptp.c:410`).
- `resolve_hostname` of `txtimestamp.c` stops at the first address of either family, so
  a host with both is tested over one; the test that is to skip datagrams over
  IPv6 compares the family with `IPPROTO_IPV6` and skips nothing (`txtimestamp.c:220`).
  With `late` timestamps a packet's ACK is printed under the next one.
- A read of `showme` in the configfs example can lose another reader's increment.

## Proofs

All are for arbitrary constants, under the named assumption of the module
(`ConstantsAssumption`, `BlkAssumption`, `LinkAssumption`, `SkelAssumption`): types
of the constants, null values outside their sets, finitely many buffers,
`0 < ENTRIES < IDX`, and packets of at least one and at most `MAX` bytes after the
header; for the smaller modules, types of the constants, an alarm shorter than
the park, `Uint32` of at least 65536 and disjoint sets of tasks. What a theorem assumes beyond that is in its ASSUME and named here.

- `MicDaemonProofs`. `KillsOwnChild` is not inductive: before "kill" it has to hold
  wherever the thread is responsible for a child (`CurrentChild`). `BackendReplaced` and
  `NoBackendDuringReset` need in addition that the card has no other child
  (`NoOrphan`), which holds in behaviours without "io" failures. `FreshSessions` needs a bound
  on resets (`ResetBounded`) and that a watched child is out of date only while
  its card goes down (`FreshChild`); it assumes a positive `RESET_TIMEOUT`, and the
  property itself names the behaviours without user resets and slow resets. `NoMissedState` is kept
  from the second read of `state` on (`Seen`): between that read and the poll, a change
  is there only together with its notification. It is the safety half of
  `ShutdownHandled` and `ResumeBoots`.
- `VirtBlkProofs`. One invariant gives, for each program point, which resources are
  held, and that a device open between rounds is a kept one; the theorems follow from
  it and from arithmetic on `Capacity`. `OneBlockDeviceAlways`
  adds `DevicesHeld` and assumes that no "init_vr" failure happens. `BlockRefines` maps
  `start_virtblk` to attaching a file, `write_status` to the answer and `stop_virtblk`
  to detaching; all else stutters. It needs `RequestInv`: when the status is written,
  a request that was carried out has kept the status OK, and one that is
  supported was carried out unless a copy failed.
- `VirtLinkProofs`. `TxInv` and `RxInv` say what is in the buffers and iovecs at each
  point, and that `Pending`, the distance of two wrapped indices, is the number of
  entries. The refinement theorems show that `copy_to_card` and `writev_tap` are the
  pipe's delivery, a failing one its loss, and all else stutters; `NoAbort` and
  `TxRefines` assume card buffers that take the largest packet. `NoSleepOnPacket` rests on
  `Announced`: a ring that is not empty has its event pending, or the loop is past the
  poll that took the event. The property speaks of behaviours in which no copy fails
  and that never wait for the card's driver.
- `V4l2SkelProofs`. `EngineInv` (the handler and the list live only while the engine
  runs), `SetupInv` (what a pending allocation has seen), `FieldInv`, `CountInv`
  and `ParityInv` (the field the handler reports next, while nobody else writes it) are
  kept together with `ListOwned`, `BuffersFit` and `ReadNotAlternate`.
  `DriverRefines` maps `qbuf` to taking a buffer, the end of the handler to giving one back
  and counting it, and start and stop to themselves. `EnoughBuffers` (three buffers
  whenever there are any) is proved from the cardinality of what `queue_setup` adds.
- `ModuleProofs`. `ConnectorInv` gives the registered ids for each step of init and fini;
  `GapInv` says that a message's number less its losses is the same for all messages of
  a load, with the newest message tied to the counter. `SubsystemInv` gives
  the registered subsystems for each value of the loops' index. `ProbeInv` gives what
  is held before each call, and after each prefix of the releases; `ProbeBalanced`,
  `LadderOrder` and `ReleasesHeld` follow from it.
- `ClientProofs`. `AmtInv` carries what the checks have established to the point where the
  result is printed; `VerifiedWhole` is the arithmetic, with the cases where the unsigned
  numbers wrap. For `WalkAligned`, `WellFormed` says where the headers of a message are; each form of
  message is shown well formed, and `InOuter` and `InNested` place the pointer on one of
  them. `ListenerInv` and `AmtHeld` give what is held at each point.
  `ForkInv`: from the fork to sigwait SIGCHLD is blocked, and the command runs or its
  signal is pending. `ForkedAwaited`, the safety half of `ChildAwaited`, follows.
- `SignalProofs`. `FfInv`: an alarm that runs or has fired belongs to the last fall, and the
  handler undoes both halves. `ParkInv` relates the two clocks: while the heads are
  parked, the time since the park and what is left of the alarm make up the alarm's
  full time, and once the alarm fired that time has passed. `StaysParked` is the action
  property that follows. `DsInv`: the times add up to the last time accounted for
  (`TimesInv`), and the count is one ahead of the changes read only if the last pass saw
  `endit` and accounted for all of the time (`CountInv`). `TscInv`: the
  processor's bit is the flag of the task on it (`Loaded`), and at each point of each
  task function the flag and `should_segv` are what the task expects (`Expects`).
  `NoFalseAlarmAlways` assumes `StoreForwarding = FALSE`, which `tsc_on_off` shows is needed.
- `ClockProofs`. `PtpInv`: while a sample is taken
  the offset of the clocks is fixed and the readings are ordered; `Midpoint` is the
  arithmetic of the rounding. `TxInv`: until the next packet is sent, what was printed, what
  is queued and what is pending are together what was asked for, in rank order across
  the three (`Split`), and nothing is pending after the wait. `PrintedPerPacket` is the
  case in which all was printed.

Proved and not checked by a run: the type invariants of the four large modules,
`RingTest`, `OneBlockDevice`, `ReadNotAlternate`, `CountsFrames` (part of `DriverContract`),
`EnoughBuffers`, `LadderOrder`, `AmtReleased`, `ListenerRemoved`, `ForkedAwaited`,
`NoStaleAlarm` (the reason for `StaysParked`) and `ExttsOff`. Every safety property of a
passing run is also proved. Only model-checked: liveness (`ShutdownHandled`, `ResumeBoots`,
`RestartBoots`, `SignalHonoured`, `AllDelivered`, `ChildAwaited`, `StampsRead`), which is out of the
prover's reach, and the properties of the violation runs (`OneBackend` and `NoFalseAlarm`
are also proved under their premises).

## Not modelled

Text, logging and wording everywhere; in mpssd the command line and log buffer
set-up (written once before boot), the contents of packets and sectors, and the
service script, which loads modules and starts the daemon in a fixed order; in
the skeleton driver the read-only ioctls and controls; in freefall the check of
the disk's name; in the timestamping programs the printing of control messages.

Not modelled at all, because beyond a signal or interrupt handler that stores or
counts a value nothing in them keeps state from one operation to the next: the HPET, watchdog, dnotify, SPI,
cfag12864b, aliasing and Blackfin examples, `hwtstamp_config.c`,
`disable-tsc-test.c`. The vDSO lookup, `crc32hash.c` and `vrl4.c` are pure functions of
bytes. `configfs_example_macros.c` is the explicit example with its attribute tables
built by macros. The generators, firmware extraction, trace post-processing and
installation scripts read and write text.
