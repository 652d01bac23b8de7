# A TLA+ model of dsnap

dsnap takes snapshots of the state of a Linux device driver. A kernel module
(`src/src/dsnap.c`) copies structures that the driver names into one buffer,
which user space reads as a debugfs file and a Python tool
(`src/src/dsnap.py`) takes apart. The repository also holds the one driver that
has been instrumented with it, Intel's e1000 (`src/test-drivers/e1000`).

This directory models the snapshot from the driver's call to the reader's
result, and of e1000 what has state and a protocol: when the calls to dsnap are
made and on which memory, the rings, the interrupts, the link, the EEPROM and
the PHY. It contains TLA+ modules, configurations for TLC and proofs for TLAPS.
`PROJECT.json` lists every run, finding, hazard and theorem, and the source lines
of each definition.

## 1. Inventory

| Component | State | Operations | What makes it correct |
|---|---|---|---|
| record list and master buffer, `dsnap.c` | `dsnap_file`: list of `dsnap_record`, `master`, `records`, `tot_size` | `dsnap_init`, `dsnap_add_to_blob` (find, create, update, rebuild), `dsnap_cleanup` | offsets and sizes agree with what is in the buffer, no access outside it, nothing leaked |
| debugfs blob, `dsnap.c` | `blob->data`, `blob->size`, read by other processes at any time | published by `dsnap_construct_blob` | readers see a snapshot, never freed memory |
| debugfs directory, `dsnap.c` | static `debugfs_root`, shared by all users of the module | set by `dsnap_init`, removed by `dsnap_cleanup` | every adapter has its file, nothing stale is used, nothing is left |
| reader, `dsnap.py` | the file position, the list of items | `readFile`; then `mapStructs`, `printAll`, `nameSearch` | accepts what dsnap.c writes and finds what was added |
| snapshot points, `e1000_main.c` | `adapter->dsnap_dir` | `dsnap_init` in probe, three adds in the watchdog, `dsnap_cleanup` in remove | adds come after init and before cleanup, and name memory that is there |
| adapter lifecycle, `e1000_main.c`, `e1000_ethtool.c` | flags DOWN, RESETTING, `adapter->mutex`, four work items, IRQ | probe, open, close, change_mtu, ethtool, suspend, resume, remove, watchdog and the other work items | a device that is down is quiet, one thread resets it at a time, the watchdog survives, nobody waits for ever |
| resources of an adapter, `e1000_main.c`, `e1000_ethtool.c` | PCI device, mappings, interrupt, ring structures and memory | the same, `set_ringparam`, bus-error recovery, self-test, with each step failing | everything is freed once, nothing is lost |
| transmit ring, `e1000_main.c` | `next_to_use`, `next_to_clean`, `buffer_info`, queue stopped or not, the 82547's FIFO state | xmit, clean-up, hang detection, FIFO task, `e1000_down` | frames go out once and in order, no slot used twice, the queue wakes up again |
| receive ring and NAPI, `e1000_main.c` | the same indices, `rx_skb_top`, `discarding`, ICR and IMS, `NAPI_STATE_SCHED` | clean-up in two modes, refill in two modes, interrupt, poll, `e1000_down`, `e1000_up` | whole frames or none, no buffer lost, no frame forgotten |
| link and flow control, `e1000_hw.c`, `e1000_main.c`, `e1000_ethtool.c` | `get_link_status`, `fc`, `autoneg`, CTRL, PHY, carrier | check for link, resolution, forcing, smartspeed, ethtool's settings | both ends agree, the carrier follows the cable |
| EEPROM, `e1000_hw.c`, `e1000_ethtool.c` | the words, write cycle, grant, lock | read, write, checksum, `set_eeprom` | a write changes what it was asked to and nothing else |
| PHY registers, `e1000_hw.c`, `e1000_ethtool.c` | selected page, MDIC, `phy_id`, `phy_type`, DSP state | paged read and write, detection, init script, DSP adjustment, dump | the register accessed is the one asked for |
| interrupt moderation, VLAN, multicast, statistics, `e1000_main.c` | filter tables, counters, ITR class | | |
| LED, wake-on-LAN, host interface, bus information | | | |
| parameters, `e1000_param.c` | option values | validation | |
| build, `Makefile`s, `configure.sh` | none | | |

How they interact. A driver calls dsnap synchronously; e1000 does so from a work
item that holds `adapter->mutex`. The reader shares no lock with it: debugfs
copies from the buffer that the driver may be rebuilding, growing or freeing.
All drivers share `debugfs_root`. In e1000 the PCI core (probe, remove, suspend,
error recovery), the network core under the RTNL (open, close, configuration),
the transmit path, the interrupt and its poll, and the workqueue all act on one
adapter, and coordinate through DOWN, RESETTING, the mutex, NAPI's bit and
`cancel_work_sync`.

What is hard here: a reader between any two steps of a rebuild; a buffer that
moves while it is read; an allocation that fails halfway, where most functions
return void and the driver goes on; a directory pointer that outlives the
directory; a work item queued again while it is being cancelled; a function that
waits for the work item it runs in; rings that three parties move without a lock; an
interrupt that comes while another is being dealt with; registers reached by two
accesses with nothing to keep them together. `PROJECT.json` lists each under
"hazards".

## 2. The modules

| Module | Models | Instance |
|---|---|---|
| `SnapFormat` | the bytes of a snapshot: header, record heads, memcpy, krealloc | |
| `ReadFile` | `readFile` of `dsnap.py` | |
| `Dsnap` | all of `dsnap.c` for one `dsnap_dir` | `MCDsnap` |
| `SnapStore` | what dsnap promises: items in order of registration, each captured whole | |
| `DsnapSnapshot` | `Dsnap` with `ReadFile`; the refinement of `SnapStore` | `MCDsnap` |
| `DsnapReader` | `Dsnap` with a process that reads the debugfs file meanwhile | `MCDsnapReader` |
| `DsnapProof` | theorems about `Dsnap`, `DsnapSnapshot`, `DsnapReader` and `DsnapDirs` | |
| `DsnapDirs` | `debugfs_root` and the debugfs tree, several adapters and drivers | `MCDsnapDirs` |
| `E1000Lifecycle` | one adapter of the e1000 driver and its threads | `MCE1000Lifecycle` |
| `E1000LifecycleProof` | theorems about `E1000Lifecycle` | |
| `E1000Resources` | what an adapter takes and gives back, and what it names to dsnap | `MCE1000Resources` |
| `E1000ResourcesProof` | theorems about `E1000Resources` | |
| `TxFifo` | what the transmit ring promises: a queue | |
| `E1000TxRing` | the transmit ring; the refinement of `TxFifo` | `MCE1000TxRing` |
| `E1000TxProof` | theorems about `E1000TxRing` | |
| `E1000Napi` | interrupt mask, poll, and their part of `e1000_down` and `e1000_up` | |
| `E1000RxRing` | the receive ring, on top of `E1000Napi` | `MCE1000RxRing` |
| `E1000RxProof` | theorems about `E1000RxRing` | |
| `E1000Link` | link state, flow control, speed and duplex, carrier | `MCE1000Link` |
| `E1000LinkProof` | theorems about `E1000Link` | |
| `E1000Eeprom` | the EEPROM and `set_eeprom` | `MCE1000Eeprom` |
| `E1000EepromProof` | theorems about `E1000Eeprom` | |
| `E1000Phy` | PHY registers and the jobs that use them | `MCE1000Phy` |
| `E1000PhyProof` | theorems about `E1000Phy` | |

**Conventions.** The e1000 modules have a constant `Cases`: sets of what may
happen (a kind of chip, a failure, an event), one of which Init chooses and `may`
keeps. So one run covers several chips and several faults, and no state space
is the product of all of them. `pc`, `at` or the `pc` field of a record is a
thread's place in its function; a function that has no step others can tell apart is
one action. History variables (`excused`, `excuse`, `given`, `late`, `lost`, `overlap`,
`rewoken`, `fault`, `wrong`) never guard what the code does, except that a
thread stops at an oops and that `E1000Phy` starts no further job after an
`overlap`.

**SnapFormat.** A buffer is a sequence of cells, one per byte, so that offsets and
sizes are those of the C code. A cell names the string or the content it is a
byte of, and the byte's number. Integers are u32 in little-endian order.

**Dsnap.** The variables are the fields of `dsnap_file`, the locals that live
across steps (`new_size`, `c_ptr`, `curr`), the heap (`bst`, `bytes`, `objs`) and
the driver's memory (`mem`). One thread makes the calls and `pc` is its place in
them. A step is what another process can tell apart: an allocation, one write to
the master buffer, one store to the blob. The header is written in one step, and
so is a record; a structure is copied at one moment (its writers race with
the memcpy within the driver, which dsnap can do nothing about). `AllocMayFail`
makes every allocation able to fail and every failure path is followed, also
where the code does not test the result. A NULL, uninitialised or overrunning
access stops the thread and is recorded in `fault`. `failed` remembers which
allocations failed, so that properties can name what the code does survive. A
freed block is not handed out again, which keeps a use after free visible. Sizes
are natural numbers: the `int` overflow of `new_size` needs a snapshot of 2 GB
and is not modelled.

**SnapStore and DsnapSnapshot.** SnapStore has no bytes: a sequence of registered
names and a sequence of items. The refinement mapping reads the items out of the
master buffer at the offsets of the record list, as far as
`dsnap_construct_blob`'s cursor has come. `SnapshotReadable` checks the same
buffer the other way, through the parser, which knows no offsets.

**DsnapReader.** A read(2) is two steps: it loads `blob->data` and `blob->size`,
then copies at most `Chunk` bytes. The driver may do anything between. `disturbed`
and `updated` record what it did since the file was opened.

**DsnapDirs.** `dsnap_init` and `dsnap_cleanup` of each adapter are two steps, one
for the directory and one for the file. debugfs is external: it returns NULL for a
name that exists, does nothing when asked to remove a directory that is not empty
and, in a kernel without debugfs, always returns `ERR_PTR(-ENODEV)`. `MaxDentry`
bounds how many dentries are ever made.

**E1000Lifecycle.** Every thread runs its function step by step. `IrqDisable` to
`ResetHw` are `e1000_down`, with `Stop`, `Cancel` and `WaitWork` for
`e1000_down_and_stop`; `Configure` and `Enable` are `e1000_up`. They are
parameterised by the thread, and `op` says which function called them and so what
follows. `cancel_work_sync` is two steps because a work item may be queued again
between its removal from the queue and the end of the wait; and a work item tests
DOWN and queues another in two steps, as the flag may be set in between. User processes
do not run during suspend.

**E1000Resources.** `held` is what the kernel has handed out; the pointers (`tx`,
`rx`, `info`, `desc`, `newTx`, `newRx`) are kept apart from it, so that freeing through a stale
pointer and losing the last pointer both show. Every step that takes something may fail,
and the labels of the code (`ProbeUndoes`, `ErrSetupRx`, `ErrSetupTx`) unwind it.
The descriptor memory has the second allocation of the 64 kB erratum. Operations are
serialised by the RTNL or the PCI core; others may come between the callbacks of a
bus-error recovery. `names` is which ring structure each dsnap record points to:
the watchdog's three calls are steps, any of which may get no memory, and each
reads all the structures named before.

**E1000TxRing.** `e1000_xmit_frame` in steps (stop test with its recheck after the barrier,
FIFO workaround, context, one mapping per step, queue, tail), the clean-up in steps
(test DD, free a slot, store `next_to_clean`, wake, hang), the controller, the FIFO task
of the 82547 and `e1000_down`/`e1000_up`. The cutting of a frame into descriptors is
a number per shape of frame. The clean-up's test of a frame is followed to its last
descriptor, as `next_to_watch` does. The refinement mapping to `TxFifo` reads the
queue off `buffer_info`, from the slot the clean-up stands at to the tail.

**E1000Napi and E1000RxRing.** `E1000Napi` has ICR, which a read clears, and IMS, the
handler in its four steps, a poll whose end tests DOWN and unmasks in two, and the
steps of `e1000_down` and `e1000_up`. `E1000RxRing` extends it and says what a poll does to
the ring: a frame comes as one piece or several, with or without errors; standard
mode throws away chains (`discarding`), jumbo mode links pages into `rx_skb_top`. A refill of a slot
takes buffer, page and mapping, and may fail after any of them. `owned` counts what was
taken from the kernel.

**E1000Link.** The cable, the PHY and the partner are external: the partner negotiates or
not, offers one of the pause abilities, one of two modes, and, with "igp", may
clash over who is master. `e1000_check_for_link` is two steps, the reading of the PHY and what follows
from it, since an interrupt can set `get_link_status` between. Pause resolution is
the table of `e1000_config_fc_after_link_up`; what the partner does is written from
IEEE 802.3 Annex 28B, so the property compares the two.

**E1000Eeprom.** Commands go to an array of words: an SPI write command wraps at the end
of a page and starts a write cycle; addresses are cut to the address bits of
the device. A call takes `e1000_eeprom_lock`, asks for the grant, waits until the device is
ready, writes page by page or word by word, polls, and releases. `set_eeprom` reads the first
and the last word if it has only half of them to write, writes, and updates the
checksum. Port B's probe validates the checksum meanwhile. A word has two one-bit bytes
and the checksum is a sum modulo 4.

**E1000Phy.** What the driver does with the PHY is a sequence of accesses, taken from the
functions: detection, reset and init script, DSP adjustment, link check, PHY
information, the register dump, the ioctl. An access with a page is two; each goes through
the MDIC register as command and answer, and can time out, in which case it may be
carried out late. Those that hold `stats_lock` are marked.

## 3. The runs

| Run | Question | Instance, distinct states |
|---|---|---|
| `dsnap` | do the calls stay within their memory and leak nothing, with any allocation failing; is the file a readable snapshot after each call; does the code implement `SnapStore`? | 3 names, 4 blocks, 2 contents; 139 000 |
| `reader` | is a reader safe, and what it reads intact, while records are only updated? | 2 names, chunks of 20 bytes; 228 000 |
| `dirs` | the calls of one driver's adapters, one at a time and overlapping | 3 adapters, 9 dentries; 151 000 |
| `lifecycle` | open, close, reconfiguration, suspend and removal at any moment, with failing allocations, on an 82547 or with hung transmits | 2 cases; 2 272 000 |
| `lifecycle_ends` | does every network operation end? (liveness) | 147 000 |
| `lifecycle_reset` | does a reset that has begun end? (liveness) | finding |
| `resources` | is everything freed once and nothing lost, whichever step fails; are the structures that dsnap reads there? | 3 cases, two ring structures of a kind; 334 000 |
| `txring` | are frames sent in order and once; is a stopped queue woken; is a hang real; does the ring implement `TxFifo`? | 7 slots, 2 skbs, 5 cases; 1 037 000 |
| `rx` | whole frames or none, no buffer lost, no frame or empty ring forgotten, masked when down? (with liveness) | 4 slots, refill by 2, 3 cases; 552 000 |
| `link` | do both ends agree on flow control, MAC and PHY on the mode, carrier and cable? (with liveness) | 2 moves of the cable, 1 request, 6 cases; 432 000 |
| `eeprom` | does `set_eeprom` do what it was asked and nothing else; do ports and firmware leave each other alone; do calls end? (with liveness) | 4 words, pages of 2, 2 calls, 5 cases; 474 000 |
| `phy` | is the register accessed the one asked for; is the transmitter on again; is the PHY known? | 1 error, 3 cases; 2 210 000 |

*Why the bounds are enough.* Three names make a record list with a first, a middle
and a last element, where appending and walking differ. One name has another
length than the rest, one record is empty, and one name is also passed with
another location and with another size, so each branch of `dsnap_add_to_blob` is
taken. Four blocks are one per call that allocates a master buffer. Two contents
tell an old copy from a new one. Two names and three blocks are enough for a reader, who
meets a growing snapshot twice. A chunk of 20 bytes is less than the file with one
record, so reads happen with the driver between them. Three adapters of one driver
let the last-but-one leave and come back while another stays; 9 dentries let every
adapter be probed and removed more than once. E1000Lifecycle has no
unbounded data.

Seven slots hold two of the smaller frames or one of the larger with the room that xmit reserves, so the
ring fills, wraps and is half cleaned; a wake threshold of five lies between the need of a frame and the ring.
Two skbs are one in the ring and one in xmit, or two in the ring. Four receive slots
with a refill of two: the ring is refilled in the middle of a poll and at its end, wraps,
empties completely, and holds a frame of three pieces. Two ring structures of a kind are
the old and the new one of `set_ringparam`; a third would have been lost before.
Four EEPROM words are two pages and two halves, the checksum in the first
page: a write begins or ends in any word, crosses a page, the checksum and the half. One set_eeprom and
one probe of the other port, or two of either, are all that two calls allow, and each
begins from any content. One PHY error, at any access; the smartspeed counter's two
thresholds are 1 and 2. Two moves of the cable are pulled and plugged again, possibly to
another partner, during one check.

*Symmetry.* The blocks in `dsnap` and `reader` and the skbs in `txring` are only compared with each
other; these three runs check safety only.

*Deadlock* is checked in `reader`, `txring`, `rx` and `link`. The others may stop: after an oops
(`dsnap`, `lifecycle`, `resources`) or a thread that waits for itself, for which `NoWaitCycle`
and `FreedOnce` say more; when blocks (`dsnap`), dentries (`dirs`) or calls (`eeprom`) run out;
and in `phy`, which starts no job after an overlap.

*Fairness* is assumed where a run checks liveness.
`lifecycle_ends`, `lifecycle_reset`: weak fairness of each thread and of the interrupt says that
the scheduler runs what can run; strong fairness of `Lock` that a kernel mutex is
handed to its waiters in order. `rx`: weak fairness of the handler, of the poll, of
`e1000_down` and `e1000_up` once begun, and of the watchdog, which comes every two seconds; strong
fairness of `FillSlot`: an allocation that is tried again and again succeeds again and
again. `eeprom`: weak fairness of a port's steps and of the end of a write cycle, strong fairness of
`Lock`; the firmware need not give the grant back. `link`: weak fairness of the watchdog, of a `get_link` that has begun, of the interrupt and of
two ends that can negotiate. Nothing says that a user
opens or closes an interface, that a cable is plugged, or that a frame comes.
`lifecycle_ends` leaves hung transmits out: with them the property
fails for the reason `lifecycle_reset` shows.

### What the passing runs show

* `MemorySafe`, `LayoutOK`, `NoLeak` of `dsnap`: the offset kept per record is where the rebuild
  puts its data, whatever the order of additions, and the buffer always has room. This
  holds although the record is in the list before the buffer has grown. A failed
  allocation of a record, or of the first buffer, is survived; any other leads
  to an oops or, for the krealloc, to a lost block. (`NoLeak` does not ask for the blob
  wrapper, see below.)
* `SnapshotReadable`, `ImplementsStore`: writer and parser agree, no call loses, repeats,
  reorders or tears an item, an update touches its own item only.
* `ReadSafe`, `ReadIntact`: reads in chunks, during updates in place, take no fault, and
  the file keeps its structure.
* `NoStaleDir`, `OwnFile`, `NothingLeft`: with one driver and serial calls, the leftover
  value of `debugfs_root` does no harm: the next `dsnap_init` finds no directory
  and overwrites it. When calls overlap it can be used while it is stale (`NoStaleDir`
  does not speak of them), but nothing else goes wrong.
* `DownStopsTasks`, `ExclusiveReset`, `WatchdogAlive`, `NoWaitCycle`,
  `NotResettingOnClose`, `OperationEnds`: without hung transmits the protocol of DOWN,
  `cancel_work_sync` and the RTNL works, even when a removal races with an open
  or a close. `ExclusiveReset` and `WatchdogAlive` hold with them, too.
* `FreedOnce`, `NoLeak`, `SnapshotReadsLive` of `resources`: every error label frees
  what was taken and no more, but for the defects below. dsnap's habit of reading all
  structures again at each new record is harmless in e1000 by the order of three
  calls: the rings are named before the adapter, so when something has no
  record yet the ring pointers are fresh. Only a ring whose own record could not be
  allocated, followed by a change of the rings, breaks this.
* `RingConsistent`, `NoLostWake`, `HangIsReal`, `ImplementsFifo`: without locks between
  xmit, controller and clean-up, stop and recheck on one side and store and wake on
  the other lose no wake, no slot is reused before it is freed, and the ring is a queue.
* `FramesDelivered`, `NoRxLeak`, `NoLostReceive`, `MaskedWhenDown`, `RxRecovers`: chains
  survive polls and refills that end in the middle; interrupt and poll hand over to each other without a
  gap; a ring without any buffer, which no frame can wake, is refilled by the
  watchdog's software interrupt.
* `Kept`, `NoBusyAccess`, `PortsDoNotCollide`, `Released`, `CallsEnd`: writes of any
  alignment keep their neighbours, and a call gives lock and grant back however it ends.
* `RightRegister`, `TransmitterOn`, `TypeKnown`: one thread at a time, also after errors,
  reaches the registers it names; what two threads share is protected only for the statistics
  and the ioctl.
* `FlowControlAgrees`, `MacFollowsPhy`, `CarrierFollows`: the resolution table agrees with
  the standard for each pair of settings, and the retries of the watchdog bring
  carrier and MAC to what the PHY says.

Each property states the exceptions that the code makes necessary, and the comment
above it names them.

### Findings

`lifecycle_reset` is a run whose property TLC refutes (the quoted promise is in `PROJECT.json`):
the reset task waits for itself. `e1000_reset_task` calls
`e1000_reinit_safe`, that `e1000_down`, and that `cancel_work_sync` on the reset
task. It holds `adapter->mutex` and RESETTING from then on.

The same models show more of what the code does against its word or its purpose, each after a change of one
line of a configuration, or of the exception in a property. (File abbreviations: M is `e1000_main.c`,
E `e1000_ethtool.c`, H `e1000_hw.c`.)

*dsnap*
* `dsnap_cleanup` never frees the blob wrapper (README:73 promises it).
* A reader that has loaded `blob->data` copies from freed memory when the
  next new record makes krealloc move the buffer (dsnap.c:318); the blob still points to the old block
  until the whole buffer has been rebuilt (dsnap.c:160). During a rebuild it gets a file that dsnap.py rejects or misreads.
* With two drivers (`DriverOf <- TwoDrivers`) `debugfs_root` is the directory of whoever came last, and a
  call of one uses a directory that a cleanup of the other has removed (RELEASE:16), or leaves one behind.
* `e1000_remove` frees the snapshot before it cancels the watchdog that adds to it (M:1291); and the
  interface is registered, and so can be opened and start the watchdog, before `dsnap_init` (M:1219).

*Lifecycle and resources*
* The watchdog queues the reset task without testing DOWN (M:2550), after `e1000_down` has cancelled
  it; with a removal it can outlive the adapter.
* `WARN_ON(RESETTING)` in `e1000_close` can fire: the reset task takes RESETTING without the RTNL (M:1467).
* `e1000_set_ringparam` on an interface that is down calls `e1000_up` when an allocation
  fails, and so fills rings that do not exist (E:632); when it succeeds it overwrites the pointers to the old
  structures without freeing them (E:596).
* A probe that cannot map the MDIO window of a CE4100 loses the ring structures (M:1065, M:1261).
* A resume whose `request_irq` fails leaves the interface up; a later close frees the interrupt again (M:4866).
* Between the callbacks of a bus-error recovery a close runs `e1000_down` a second time,
  and waits for ever in `napi_disable`.

*Rings*
* A clean-up that is still running, or the FIFO task, wakes the queue after `netif_tx_disable`
  and before DOWN (M:516), so xmit can work on a ring that is being emptied.
* A mapping that fails leaves the first mapping of the frame and a time stamp behind (M:2982):
  later a false hang.
* On an 82547 xmit can stop the queue just after the FIFO task has woken it (M:3225); and a
  clean-up does not wake the queue while there is no carrier (M:3664). It stays
  stopped until something else restarts it.
* The end of a poll, or of a handler, unmasks the interrupts after `e1000_irq_disable` (M:3612).
* `e1000_down` does not reset `discarding`: the first frame after the next `e1000_up` can be thrown away.

*EEPROM, PHY, link*
* On a small SPI EEPROM a write that goes past word 128 wraps to the wrong half: the address bit in the
  opcode is taken from the first word of the call (H:4165).
* `set_eeprom` overwrites the result of a read that failed, and the one of the checksum update is ignored (E:487).
* A Microwire write that times out leaves the device write-enabled and busy (H:4254).
* Accesses of two threads to paged PHY registers can reach each other's pages, or take each other's answers from
  MDIC (H:2837). The first init script runs before the PHY's type is known, and so selects no page. `get_regs` dumps page 0 for what it calls other pages.
* When PHY_ID2 cannot be read, the half of `phy_id` that was read stands for a detected PHY at the next attempt, of type m88 (H:3184).
* A check clears a `get_link_status` that an interrupt has set after PHY_STATUS was read (H:2469):
  the carrier stays as it was until the next change.
* While there is no carrier each `get_link` sets `get_link_status` (E:232); one that does so between the
  watchdog's check and its test of the flag hides a link that is up from it. Calls without end could keep the
  carrier off, so `Requests` bounds them.
* A request for settings that is refused (M:4694) leaves autonegotiation off in the adapter.

By reading only: the message that debugfs is missing (dsnap.c:62) cannot be printed, as its
test comes second to one that is true for the same value.

## 4. The proofs

Eight modules hold theorems, each about the specification that the runs check, for every value
of its constants that the named assumptions (`...Assumption`) admit. The runs check the
properties on a small instance; the invariants of the rings and of the resources were checked
there as well before they were proved.

| Theorem | of | states |
|---|---|---|
| `TypeCorrect`, `MemorySafety`, `Layout`, `HeapKept` | `DsnapProof` | `TypeOK`, `MemorySafe`, `LayoutOK`, `NoLeak` |
| `ReadingSafe`, `Implements` | `DsnapProof` | `ReadSafe`, the refinement `ImplementsStore` |
| `SnapshotReads`, `ReadingIntact` | `DsnapProof` | `SnapshotReadable`, `ReadIntact`, while the file's size fits in 32 bits |
| `NeverStale`, `OwnFiles`, `AllRemoved` | `DsnapProof` | `NoStaleDir`, `OwnFile`, `NothingLeft`, each for one driver |
| `DownStops`, `OneResets`, `WatchdogGoesOn`, `NoAssertion`, `NoCycle` | `E1000LifecycleProof` | `DownStopsTasks`, `ExclusiveReset`, `WatchdogAlive`, `NotResettingOnClose`, `NoWaitCycle` |
| `HeldAsRecorded`, `NothingLeaks`, `ReadsLiveRings`, `FreesOnce` | `E1000ResourcesProof` | `Inv`, `NoLeak`, `SnapshotReadsLive`, the action property `FreedOnce` |
| `Consistent`, `QueueIsWoken`, `HangsAreReal`, `FifoImplemented` | `E1000TxProof` | `RingConsistent`, `NoLostWake`, `HangIsReal`, the refinement `ImplementsFifo` |
| `Delivered`, `NoneLost`, `StaysMasked`, `NothingLeaks` | `E1000RxProof` | `FramesDelivered`, `NoLostReceive`, `MaskedWhenDown`, `NoRxLeak` |
| `SetEepromKeeps`, `PortsRelease`, `NoAccessWhileBusy`, `NoCollision` | `E1000EepromProof` | `Kept`, `Released`, `NoBusyAccess`, `PortsDoNotCollide` |
| `FlowControl`, `MacFollows` | `E1000LinkProof` | `FlowControlAgrees`, `MacFollowsPhy` |
| `RegisterReached`, `TransmitterRestored`, `Identified` | `E1000PhyProof` | `RightRegister`, `TransmitterOn`, `TypeKnown` |

### dsnap

**`DsnapProof`** holds for every set of names, lengths, structures, contents, calls and blocks,
with or without failing allocations.

`TypeOK` is inductive by itself. `MemorySafe` and `LayoutOK` are not: that `WriteRecord` stays
inside the buffer depends on where the cursor is, on the order and the offsets of all the
records, and on what happened to `tot_size` between `CreateRecord` and `ExpandMaster`. The
inductive invariant `IInv` (end of `Dsnap`) says so, under the proviso `Contained` that no
allocation failed that the code does not survive:

* `Chained`: each record's data begins where the previous one ends, plus its head, and no record
  ends behind the last one;
* `FileOK`, `NoFileYet`, `Expanding`: how `records`, `tot_size` and the length of the buffer
  relate to the list when it is complete, before there is a buffer, and while the list is one
  record ahead of the buffer;
* `CursorOK`: in the rebuild, `c_ptr` is the end of the records written so far;
* `PhaseOK`: which of these holds at which `pc`.

`IInvNext` proves that each action preserves it, in one step per action. The arithmetic is kept
in a few lemmas about `End`, the length of the pieces written, and `Splice`. A failed allocation
that is not contained makes `Contained` false for good, and leaves nothing to show but the
types.

`HeapKept` needs `HeapOK` besides: as long as no `krealloc` failed, `master` is the only live
block (none before it is allocated and after `dsnap_cleanup`), and at each `pc` of the cleanup
it says what has been freed so far.

**`DsnapProof`, the readers.** `ReadingSafe` is proved of `ReaderSpec`, for every `Chunk`.
`BlobOK` says when the blob may be used: between calls, and in a call until krealloc has been
called, it is empty or its data is a live block, at least as long as its size. `ReaderOK` says
that what a reader has loaded is the blob's, as long as the driver has done nothing but updates
in place (`~disturbed`). A step of the reader leaves the driver's variables alone, so that
`BlobOK` and all of `Dsnap`'s invariant carry over.

**`DsnapProof`, the refinement.** `Implements` shows that each initial state of `Dsnap` maps to
one of `SnapStore`, and each step to a step of the store or a stutter. The mapping reads items
out of the master buffer at the list's offsets; `ItemsOK` says that the name and size found
there are those of the list, and carries the negative answer of `dsnap_find_record` to the step
that appends (`pc = "create"`), which is why names stay different. From there on it is a matter
of which bytes a write leaves alone: by `Layout`'s chain the items lie one after another
(`EndsInOrder`), so that writing or updating one changes no other, and `krealloc` and the
rewriting of the header change none. `Item...` lemmas say so once for each kind of write.

**`DsnapProof`, the format.** `SnapshotReads` says that `readFile`, run on the file between two
calls, finds the items of the list in its order, and `ReadingIntact` that a file read in pieces
while the driver updates is read without error, with the same names and sizes, and with the same
data in every item that was not updated meanwhile. Both have one proviso: the size of the file
is less than 2^32 (`U32Limit`), as the format has four bytes for each size. `U32Read` is where
it is needed. `FrameOK` says that the buffer holds the header and, at the places of the list,
whole records, as far as the cursor has come; `ShownOK` that between calls the blob shows all of
it. Each kind of write has a lemma that keeps the frame (`HeaderFrames`, `WriteFrames`,
`UpdateFrames`). The parser knows no offsets. Its loop is a recursive function of the number of
turns left; `LoopReads` takes a least number of turns for which it would go wrong, and
`TurnTaken` shows that turn number i reads the i-th record and goes on where the next one
begins. So no induction theorem with an operator as a parameter is needed. `CopyOK` compares the
pieces a reader has with the buffer: they differ in data that was updated since the file was
opened, and in nothing that the parser takes a size from.

**`DsnapProof`, the directories.** The theorems about `DirsSpec` have the hypothesis
`OneDriverOwnNames`: the adapters, as many as one likes, belong to one driver, and have
different file names, which the code makes from bus, slot and function. The run has the same
hypothesis; with two drivers the properties are false, as section 3 tells (*Findings*, `DriverOf
<- TwoDrivers`). The invariant: what there is in debugfs is the directory that `debugfs_root`
names and in it the files of the bound adapters (`DirContents`), the directory is there as long
as an adapter needs it or has been removed by an overlapping cleanup (`DirInUse`), and without
overlapping calls it is there whenever one does (`DirsSerial`). Dentries are handed out in order
(`Dentries`), so that one that is gone does not come back under its number.

### e1000

**`E1000LifecycleProof`** is for every set of `Cases`, where the run of the safety properties
looks at two combinations. All five theorems follow from one invariant, `Calm`. Its parts say
where each thread may stand and in which operation (`Places`); who holds the RTNL, the mutex and
`__E1000_RESETTING` there (`Held`, `InMutex`, `Owners`); that e1000_down cancels in the order of
the code, so that what has been cancelled is neither queued nor at work (`StopsInOrder`,
`Dormant`); that nothing touches an interface that is down or absent (`Interface`, `LeftAlone`);
that without a hang nobody asks for a reset (`NoReset`); and that a watchdog that is due has
something that brings it (`OnItsWay`).

**`E1000ResourcesProof`** is for any number `MaxRing` of ring structures and any `Cases`.
`HeldAsRecorded` is the inductive invariant: unless the operation hangs or has oopsed (`Stuck`),
what the kernel has handed out is exactly what the adapter's pointers and the place in the
operation say. `Resources` compares the arrays and descriptors held with the rings that are
ready and the one being set up; `Basics` and `Enabled` do so for what the probe takes, in its
order, the labels of the code being the same order backwards (`Steps`, `Labels`); `Structures`,
`Irq` and `Tests` do so for the ring structures, the interrupt and the self-test's rings.
`Apart` says that the names of two objects differ, and `Ends` and `SetUpStep` that a set-up,
wherever it fails, changes its own ring only. `NothingLeaks` and `ReadsLiveRings` are
consequences. `FreesOnce` is about steps: `ReadyUsable` and `DownProper` say that what
`e1000_down` and the free functions go through is there.

**`E1000TxProof`** is for rings of any `Count` and frames of any shape that `RingAssumption`
admits. The invariant `Good` measures places from the slot the clean-up stands at (`Oldest`):
`next_to_clean`, the clean-up, the head and the tail follow each other (`Order`); the frames
between them are whole and marked at their last descriptor (`Frames`, `Marks`), and the status
of those behind the head is reported (`Reported`); a call of xmit stays in the room it has seen,
which the clean-up can only enlarge (`InRoom`); each slot taken is mapped, unless a mapping
failed (`Mapped`); a stopped queue has a clean-up coming that wakes it (`Waking`). It holds
until the queue has been woken during `e1000_down` (`rewoken`, the race of hazard and finding),
which the four properties except as well. `Dist` and the successor on the ring are dealt with in
a few lemmas; the actions only use those.

For the refinement of `TxFifo` (`FifoImplemented`) the invariant also says where the buffers are
(`Skbs`): in slots of frames the ring holds, but for the one of the call of xmit, which is in no
slot and then in the last one of its frame, behind the tail. The abstract queue is what the
slots from `Oldest` to the tail hold, in order, `Picked` slot by slot by a recursive function.
What the steps need of it are six lemmas, each an induction by the least slot at which it would
fail (`LeastElement`): it depends on the slots counted only, empty slots add nothing, taking off
the first slot takes off at most the first buffer, more slots hold no fewer. Moving the tail
then takes one buffer, a step of the head sends one or none, freeing a slot gives the first one
back or none, and only if it was sent, and every other step stutters (`StoreStep`).

**`E1000RxProof`** is for a ring of any size `Count > 2`, refills of any size `Write` below it,
and any set of `Cases` (`RxAssumption`). What runs with four slots does not show is that nothing
depends on how often the indices have gone round, or on where a refill, a frame of several
pieces or a poll's budget ends. None of the theorems' properties is inductive. The invariant of
the first three has three parts:

* `HandOver`: NAPI's bit belongs to the poll or to `e1000_down` (`OneOwner`), and of handler,
  poll and end of a poll only the one that masked the interrupts is at work, as long as none has
  unmasked them late (`OneAtWork`). It is inductive alone, and `MaskedWhenDown` follows from it.
* `RingInv` looks at the ring from the slot the clean-up examines next (`Next2Clean`) and
  measures how far on the others are (`Pos`). The head comes before the tail, and `next_to_use`
  one after the tail, or all are at one place, as after a reset (`Ordered`). A refill stays
  below the slots cleaned (`Refill`). Slots up to the head are done, those from it to the refill
  are mapped (`Done`, `Mapped`). The pieces of a frame follow each other, through what the
  controller writes next and back to `rx_skb_top` and `discarding` (`Frames`), which is why what
  is passed up is whole.
* `LookedAfter`: a frame in the ring has a cause latched, a handler on its way, or a poll that
  will look again. `HandOver` and `Done` are what makes it inductive: the loop ends at a slot
  that is not done, so that nothing was left in the ring.

Each action has a lemma that keeps `RingInv`; those for the refills share `SameFrames` and
`PublishSteps`, and those for NAPI `NapiSteps`. The arithmetic is in `DistFacts`, `DistSucc` and
`UnusedDist`.

`NothingLeaks` has an invariant of its own, `Books`: the slots before the place where a refill
stopped have a buffer, a mapping and in jumbo mode a page, and those beyond have no mapping
(`Stocked`), and what the driver owns is the number of slots that have one (`Balanced`).
`OneSlot` says how such a number changes with one slot, from the library's facts about
cardinality.

**`E1000EepromProof`** is for an EEPROM, a page and requests of any size. `EepromAssumption` has
`Words <= 2 * Half`, since a small SPI EEPROM has one more address bit, in the opcode. The
invariant says which words a write has reached and that the others are as before (`Stage`),
which calls a port may be in, where, and when it has lock and grant (`Places`, `Requests`), that
the write cycle and the enable latch are as the driver takes them to be unless something was
excused (`Undisturbed`), and what port B has summed up so far (`Validating`). The checksum is a
recursive function over the words; that it depends on the words up to `SumReg` only is an
induction over their number by the least one at which it would fail (`LeastElement`), which
needs no operator as a parameter.

**`E1000LinkProof`** is for every set of `Cases`, any number of moves of the cable, of requests
and of calls of `get_link`. `FlowControlAgrees` and `MacFollowsPhy` speak of a moment when
nobody checks the link, and say nothing of how the last checks overlapped: `hw->fc` and CTRL
belong to no lock, and the watchdog and `get_link` may work on them at once. What makes it
inductive: nothing is advertised or set that the user has not asked for (`Asked`), and whenever
the PHY is up and its last change looked at, what the MAC has been told is right or a thread is
still on its way to a step that makes it so (`Programmed`). Each such step computes from the
partner that is there now, so whichever comes last leaves the right value. `ResolvedAgrees`
compares the table of `e1000_config_fc_after_link_up` with the standard for all abilities. An
interrupt lost in the race of hazard and finding does not matter here; it costs the carrier
only.

**`E1000PhyProof`** is for any number of errors and every set of `Cases`. Both threads write one
command register, MDIC, and one page register, and no lock covers the two accesses. The
invariant says where each thread stands (`Placed`), what is in MDIC and what its answer may be
(`Mdic`), and, for a thread that nobody has overlapped, that the command is its own and the page
the one it selected, before and after the command is carried out (`Right`). A command that has
timed out may be carried out late, until another takes its place in MDIC; but each access
selects its own page before it gives its command, so errors do not matter to `RegisterReached`.
The other two theorems are about whole jobs, which are sequences of accesses: each access takes
a job from one phase to another (`Move`: the transmitter on; on and saved; off; half of the
identification read), and what a job has still to do leads from its phase to the one where the
transmitter is on (`Runs`, `InPhase`). `Runs` says so with a function that gives the phase
before each access, so that taking off the first access and putting sequences one after another
need no induction. `JobsRun` shows it for every job that the driver starts. `Quiet` says what is
left when no job is under way. TLC has checked the invariant without the case of two threads to
the end, and with it on the first half million states.

### Model-checked only

* All liveness (`OperationEnds`, `RxRecovers`, `CallsEnd`, `CarrierFollows`): fairness and
  ENABLED are out of the provers' reach.

## 5. Not modelled

* `dsnap.py` beyond `readFile`: `mapStructs` depends on the output of pahole; printing and
  searching have no state. `nameSearch` prints the item after a match of a structure's
  name and may find none (dsnap.py:437).
* `configure.sh` and the makefiles: they build and check for tools. The README names the option `-le`, the
  tool has `-l` (README:104, dsnap.py:38).
* A shared interrupt line: a handler that has passed its tests of DOWN could queue the watchdog
  after `e1000_down` (M:3567). The lifecycle and the NAPI model take the line not to be shared.
* Shutdown (the function of suspend, after which the machine is off) and netpoll.
* Statistics, interrupt moderation, VLAN and multicast filters: register values and counters.
* Wake-on-LAN, LED, the host interface: register programming without a protocol; the outcome of a
  self-test, whose resources and effect on the lifecycle are modelled.
* Module parameters: validation of one value at a time.
* When the 82543's TBI workaround is switched on (what it makes of a frame with an error is in
  `E1000RxRing`), and the cable length and polarity workarounds: they depend on analogue measurements.
* The `int` overflow of `new_size`.

## 6. Plan

1. Lifecycle continued: shutdown, netpoll, a shared line.
2. Pure algorithms as operators against a reference: `e1000_reset`'s PBA split, ITR classes, the multicast hash,
   option validation.
