--------------------------- MODULE E1000Lifecycle ---------------------------
(***************************************************************************)
(* One adapter of the instrumented e1000 driver (src/test-drivers/e1000):   *)
(* its probe, open, close, reconfiguration, suspend and removal, the        *)
(* interrupt, and the four work items that run beside them; and with them   *)
(* the driver's use of dsnap, since e1000_watchdog takes the snapshots.     *)
(*                                                                         *)
(* Each thread runs its function step by step, pc says where it stands.     *)
(* The steps are those that others can tell apart: a flag tested or set, a  *)
(* lock, a work item queued, cancelled or waited for, the device touched.   *)
(*                                                                         *)
(* The kernel is external: a work item does not run twice at once, and      *)
(* cancel_work_sync takes it off the queue, keeps it off while it waits for *)
(* it to finish, and leaves it neither queued nor running.  User processes  *)
(* are frozen during suspend, work items are not.  The interrupt line is    *)
(* not shared.                                                              *)
(***************************************************************************)
EXTENDS Naturals, Sequences, FiniteSets

CONSTANT Cases   (* the sets of what may happen to the adapter: "remove" it, *)
                 (* "suspend" it, a "tx hang", a "fifo stall" (it is an      *)
                 (* 82547), an allocation fails for "no memory"              *)

ASSUME CasesAssumption ==
  Cases \subseteq SUBSET {"remove", "suspend", "tx hang", "fifo stall", "no memory"}

Task   == {"watchdog", "reset_task", "phy_info", "fifo_stall"}
Caller == {"pci", "rtnl", "reset_task"}     (* who runs e1000_down, e1000_up *)
Thread == Task \cup Caller
None   == "none"

VARIABLES
  may,        (* the case at hand                                            *)
  netdev,     (* is the net device registered?                              *)
  dsnap,      (* adapter->dsnap_dir: "none", "ready" or "freed"             *)
  running,    (* netif_running                                              *)
  present,    (* netif_device_present                                       *)
  carrier,    (* netif_carrier_ok                                           *)
  rings,      (* are the descriptor rings allocated?                        *)
  irqReq,     (* is the interrupt handler installed?                        *)
  irqOn,      (* are the device's interrupts, and its Tx queue, enabled?    *)
  lsc,        (* is a link status change latched in ICR?                    *)
  irqPc,      (* "idle", or "schedule" when e1000_intr has passed its tests *)
  down,       (* __E1000_DOWN                                               *)
  resetting,  (* who has set __E1000_RESETTING                              *)
  mutex,      (* who holds adapter->mutex                                   *)
  rtnl,       (* who holds the RTNL                                         *)
  queued,     (* the work items that are queued, or whose timer runs        *)
  cancelling, (* those that a cancel_work_sync keeps off the queue          *)
  pc,
  op,         (* the operation of each caller                               *)
  left,       (* the work items it has still to cancel                      *)
  warned,     (* has a WARN_ON(RESETTING) fired?                            *)
  fault       (* what a thread ran into                                     *)

netVars  == <<netdev, running, present, rings>>
irqVars  == <<irqReq, irqOn, lsc, irqPc>>
workVars == <<queued, cancelling>>
lockVars == <<resetting, mutex, rtnl>>
vars == <<may, netVars, dsnap, carrier, irqVars, down, lockVars, workVars, pc, op, left,
          warned, fault>>

Executing(w) == pc[w] # "idle"

Go(t, where) == pc' = [pc EXCEPT ![t] = where]

(* schedule_work, schedule_delayed_work. *)
Schedule(works) == queued' = queued \cup (works \ cancelling)

-----------------------------------------------------------------------------
(* e1000_down: Rx, Tx and the interrupts off; then it waits for a handler    *)
(* that is in progress (synchronize_irq) ...                                 *)
IrqDisable(t) ==
  /\ pc[t] = "down"
  /\ irqOn' = FALSE
  /\ Go(t, "sync")
  /\ UNCHANGED <<may, netVars, dsnap, carrier, irqReq, lsc, irqPc, down, lockVars, workVars,
                 op, left, warned, fault>>

SynchronizeIrq(t) ==
  /\ pc[t] = "sync" /\ irqPc = "idle"
  /\ Go(t, "stop")
  /\ UNCHANGED <<may, netVars, dsnap, carrier, irqVars, down, lockVars, workVars, op, left,
                 warned, fault>>

(* e1000_down_and_stop.                                                      *)
StopOrderPhyFirst == <<"reset_task", "phy_info", "watchdog", "fifo_stall">>
StopOrder         == <<"reset_task", "watchdog", "phy_info", "fifo_stall">>

Stop(t) ==
  /\ pc[t] = "stop"
  /\ down' = TRUE
  /\ left' = [left EXCEPT ![t] = StopOrder]
  /\ Go(t, "cancel")
  /\ UNCHANGED <<may, netVars, dsnap, carrier, irqVars, lockVars, workVars, op, warned, fault>>

Cancel(t) ==
  /\ pc[t] = "cancel" /\ Head(left[t]) \notin cancelling
  /\ queued' = queued \ {Head(left[t])}
  /\ cancelling' = cancelling \cup {Head(left[t])}
  /\ Go(t, "wait")
  /\ UNCHANGED <<may, netVars, dsnap, carrier, irqVars, down, lockVars, op, left, warned, fault>>

WaitWorkNot(t) ==
  /\ pc[t] = "wait"
  /\ cancelling' = cancelling \ {Head(left[t])}
  /\ left' = [left EXCEPT ![t] = Tail(@)]
  /\ Go(t, IF Len(left[t]) > 1 THEN "cancel"
           ELSE IF op[t] = "remove" THEN "unregister" ELSE "reset")
  /\ UNCHANGED <<may, netVars, dsnap, carrier, irqVars, down, lockVars, queued, op, warned, fault>>
WaitWork(t) ==
  /\ pc[t] = "wait" /\ ~Executing(Head(left[t]))
  /\ cancelling' = cancelling \ {Head(left[t])}
  /\ left' = [left EXCEPT ![t] = Tail(@)]
  /\ Go(t, IF Len(left[t]) > 1 THEN "cancel"
           ELSE IF op[t] = "remove" THEN "unregister" ELSE "reset")
  /\ UNCHANGED <<may, netVars, dsnap, carrier, irqVars, down, lockVars, queued, op, warned, fault>>

(* The end of e1000_down: e1000_reset, and the rings are cleaned.            *)
ResetHw(t) ==
  /\ pc[t] = "reset"
  /\ carrier' = FALSE
  /\ Go(t, IF op[t] \in {"close", "unregister", "suspend"} THEN "free_irq" ELSE "up")
  /\ UNCHANGED <<may, netVars, dsnap, irqVars, down, lockVars, workVars, op, left, warned, fault>>

(* e1000_up: e1000_configure fills the Rx ring, and DOWN is cleared ...      *)
Configure(t) ==
  /\ pc[t] = "up"
  /\ \/ rings /\ down' = FALSE /\ Go(t, "enable") /\ UNCHANGED fault
     \/ ~rings /\ fault' = "no rings" /\ Go(t, "oops") /\ UNCHANGED down
  /\ UNCHANGED <<may, netVars, dsnap, carrier, irqVars, lockVars, workVars, op, left, warned>>

(* ... interrupts and Tx on, and a link change interrupt fired "to start the *)
(* watchdog"; with what follows in the caller.                               *)
Enable(t) ==
  /\ pc[t] = "enable"
  /\ irqOn' = TRUE /\ lsc' = TRUE
  /\ \/ op[t] = "open" /\ Go(t, "idle") /\ rtnl' = None /\ UNCHANGED present
     \/ op[t] = "resume" /\ Go(t, "bound") /\ present' = TRUE /\ UNCHANGED rtnl
     \/ op[t] \in {"change", "set_ringparam", "reinit_safe"} /\ Go(t, "unclaim")
          /\ UNCHANGED <<rtnl, present>>
  /\ UNCHANGED <<may, netdev, running, rings, dsnap, carrier, irqReq, irqPc, down, resetting,
                 mutex, workVars, op, left, warned, fault>>

-----------------------------------------------------------------------------
(* Network operations, under the RTNL.                                       *)
Begin(t, what) ==
  /\ rtnl = None /\ netdev
  /\ rtnl' = t
  /\ op' = [op EXCEPT ![t] = what]

(* No user process runs while the system is suspended.                       *)
Frozen == op["pci"] \in {"suspend", "resume"} /\ pc["pci"] # "bound"

(* e1000_open, when its allocations and request_irq succeed (it undoes all   *)
(* of its steps when one fails).                                             *)
Open ==
  /\ pc["rtnl"] = "idle" /\ ~Frozen /\ ~running /\ present
  /\ Begin("rtnl", "open")
  /\ running' = TRUE /\ rings' = TRUE /\ irqReq' = TRUE /\ carrier' = FALSE
  /\ Go("rtnl", "up")
  /\ UNCHANGED <<may, netdev, dsnap, present, irqOn, lsc, irqPc, down, resetting, mutex, workVars,
                 left, warned, fault>>

(* e1000_close.                                                              *)
Close ==
  /\ pc["rtnl"] = "idle" /\ ~Frozen /\ running
  /\ Begin("rtnl", "close")
  /\ running' = FALSE
  /\ warned' = (warned \/ resetting # None)
  /\ Go("rtnl", "down")
  /\ UNCHANGED <<may, netdev, dsnap, present, carrier, rings, irqVars, down, resetting, mutex,
                 workVars, left, fault>>

(* The end of e1000_close, also as unregister_netdev calls it, and of the    *)
(* shutdown of a running interface.                                          *)
FreeIrq(t) ==
  /\ pc[t] = "free_irq" /\ irqPc = "idle"
  /\ irqReq' = FALSE
  /\ rings' = (op[t] = "suspend")
  /\ \/ op[t] = "close" /\ Go(t, "idle") /\ rtnl' = None
     \/ op[t] = "unregister" /\ Go(t, "free") /\ UNCHANGED rtnl
     \/ op[t] = "suspend" /\ Go(t, "suspended") /\ UNCHANGED rtnl
  /\ UNCHANGED <<may, netdev, running, present, dsnap, carrier, irqOn, lsc, irqPc, down, resetting,
                 mutex, workVars, op, left, warned, fault>>

(* e1000_change_mtu, e1000_reinit_locked and the ethtool operations that     *)
(* reset the device; e1000_set_ringparam, which may run out of memory.       *)
Change ==
  /\ pc["rtnl"] = "idle" /\ ~Frozen /\ present
  /\ \E what \in {"change", "set_ringparam"} : Begin("rtnl", what)
  /\ Go("rtnl", "claim")
  /\ UNCHANGED <<may, netVars, dsnap, carrier, irqVars, down, resetting, mutex, workVars, left,
                 warned, fault>>

(* while (test_and_set_bit(__E1000_RESETTING)) msleep(1).                    *)
ClaimWithMutex(t) ==
  /\ pc[t] = "claim" /\ resetting = None
  /\ resetting' = t
  /\ \/ t = "reset_task" /\ Go(t, "lock") /\ UNCHANGED mutex
     \/ t = "rtnl" /\ running /\ mutex = None /\ mutex' = t /\ Go(t, "down")
     \/ t = "rtnl" /\ ~running /\ Go(t, "unclaim") /\ UNCHANGED mutex
  /\ UNCHANGED <<may, netVars, dsnap, carrier, irqVars, down, rtnl, workVars, op, left, warned,
                 fault>>
Claim(t) ==
  /\ pc[t] = "claim" /\ resetting = None
  /\ resetting' = t
  /\ \/ t = "reset_task" /\ Go(t, "lock")
     \/ t = "rtnl" /\ running /\ Go(t, "down")
     \/ t = "rtnl" /\ ~running /\ Go(t, "unclaim")
     \/ t = "rtnl" /\ ~running /\ "no memory" \in may
          /\ op[t] = "set_ringparam" /\ Go(t, "up")
  /\ UNCHANGED <<may, netVars, dsnap, carrier, irqVars, down, mutex, rtnl, workVars, op, left,
                 warned, fault>>

(* The operation ends; e1000_reinit_safe also gives the mutex back.          *)
UnclaimForgetting(t) ==
  /\ pc[t] = "unclaim"
  /\ mutex' = IF mutex = t THEN None ELSE mutex
  /\ rtnl' = IF rtnl = t THEN None ELSE rtnl
  /\ Go(t, "idle")
  /\ UNCHANGED <<may, netVars, dsnap, carrier, irqVars, down, resetting, workVars, op, left, warned,
                 fault>>
Unclaim(t) ==
  /\ pc[t] = "unclaim"
  /\ resetting' = None
  /\ mutex' = IF mutex = t THEN None ELSE mutex
  /\ rtnl' = IF rtnl = t THEN None ELSE rtnl
  /\ Go(t, "idle")
  /\ UNCHANGED <<may, netVars, dsnap, carrier, irqVars, down, workVars, op, left, warned, fault>>

-----------------------------------------------------------------------------
(* The PCI core: e1000_probe up to register_netdev, after which the          *)
(* interface can be opened, and its end, dsnap_init.                         *)
Probe ==
  /\ pc["pci"] = "absent"
  /\ netdev' = TRUE /\ present' = TRUE /\ down' = TRUE
  /\ Go("pci", "registered")
  /\ UNCHANGED <<may, running, rings, dsnap, carrier, irqVars, lockVars, workVars, op, left,
                 warned, fault>>

DsnapInit ==
  /\ pc["pci"] = "registered"
  /\ dsnap' = "ready"
  /\ Go("pci", "bound")
  /\ UNCHANGED <<may, netVars, carrier, irqVars, down, lockVars, workVars, op, left, warned,
                 fault>>

(* e1000_remove: dsnap_cleanup, e1000_down_and_stop, ...                     *)
DsnapCleanup ==
  /\ pc["pci"] = "bound" /\ "remove" \in may
  /\ dsnap' = "freed"
  /\ op' = [op EXCEPT !["pci"] = "remove"]
  /\ Go("pci", "stop")
  /\ UNCHANGED <<may, netVars, carrier, irqVars, down, lockVars, workVars, left, warned,
                 fault>>

(* ... unregister_netdev, which closes the interface, ...                    *)
Unregister ==
  /\ pc["pci"] = "unregister"
  /\ Begin("pci", "unregister")
  /\ netdev' = FALSE /\ running' = FALSE
  /\ warned' = (warned \/ (running /\ resetting # None))
  /\ Go("pci", IF running THEN "down" ELSE "free")
  /\ UNCHANGED <<may, dsnap, present, carrier, rings, irqVars, down, resetting, mutex, workVars,
                 left, fault>>

(* ... and free_netdev.                                                      *)
FreeNetdev ==
  /\ pc["pci"] = "free"
  /\ dsnap' = "none" /\ rtnl' = None /\ lsc' = FALSE /\ carrier' = FALSE
  /\ op' = [op EXCEPT !["pci"] = None]
  /\ Go("pci", "absent")
  /\ UNCHANGED <<may, netVars, irqReq, irqOn, irqPc, down, resetting, mutex, workVars, left,
                 warned, fault>>

(* __e1000_shutdown.                                                         *)
Suspend ==
  /\ pc["pci"] = "bound" /\ pc["rtnl"] = "idle" /\ "suspend" \in may
  /\ present' = FALSE
  /\ op' = [op EXCEPT !["pci"] = "suspend"]
  /\ warned' = (warned \/ (running /\ resetting # None))
  /\ Go("pci", IF running THEN "down" ELSE "suspended")
  /\ UNCHANGED <<may, netdev, running, rings, dsnap, carrier, irqVars, down, lockVars, workVars,
                 left, fault>>

(* e1000_resume.  When request_irq fails, the device stays detached.         *)
Resume ==
  /\ pc["pci"] = "suspended"
  /\ op' = [op EXCEPT !["pci"] = "resume"]
  /\ \/ running /\ irqReq' = TRUE /\ Go("pci", "up") /\ UNCHANGED present
     \/ running /\ "no memory" \in may /\ Go("pci", "bound") /\ UNCHANGED <<irqReq, present>>
     \/ ~running /\ present' = TRUE /\ Go("pci", "bound") /\ UNCHANGED irqReq
  /\ UNCHANGED <<may, netdev, running, rings, dsnap, carrier, irqOn, lsc, irqPc, down, lockVars,
                 workVars, left, warned, fault>>

-----------------------------------------------------------------------------
(* The device and the network stack.                                         *)
LinkChange ==
  /\ netdev /\ ~lsc /\ lsc' = TRUE
  /\ UNCHANGED <<may, netVars, dsnap, carrier, irqReq, irqOn, irqPc, down, lockVars, workVars, pc,
                 op, left, warned, fault>>

(* e1000_intr, up to the second test of DOWN; and what it schedules.         *)
Interrupt ==
  /\ irqReq /\ irqOn /\ lsc /\ irqPc = "idle"
  /\ lsc' = FALSE
  /\ irqPc' = IF down THEN "idle" ELSE "schedule"
  /\ UNCHANGED <<may, netVars, dsnap, carrier, irqReq, irqOn, down, lockVars, workVars, pc, op, left,
                 warned, fault>>

IrqSchedule ==
  /\ irqPc = "schedule" /\ irqPc' = "idle"
  /\ Schedule({"watchdog"})
  /\ UNCHANGED <<may, netVars, dsnap, carrier, irqReq, irqOn, lsc, down, lockVars, cancelling, pc, op,
                 left, warned, fault>>

(* e1000_tx_timeout, called by the stack's own watchdog.                     *)
TxTimeout ==
  /\ "tx hang" \in may /\ running /\ present /\ carrier
  /\ Schedule({"reset_task"})
  /\ UNCHANGED <<may, netVars, dsnap, carrier, irqVars, down, lockVars, cancelling, pc, op, left,
                 warned, fault>>

(* e1000_xmit_frame on an 82547 whose Tx FIFO is about to stall.             *)
XmitStall ==
  /\ "fifo stall" \in may /\ running /\ irqOn /\ carrier /\ ~down
  /\ Schedule({"fifo_stall"})
  /\ UNCHANGED <<may, netVars, dsnap, carrier, irqVars, down, lockVars, cancelling, pc, op, left,
                 warned, fault>>

-----------------------------------------------------------------------------
(* The work items.  Each tests DOWN first.                                   *)
Start(w) ==
  /\ w \in queued /\ pc[w] = "idle"
  /\ queued' = queued \ {w}
  /\ Go(w, "test")
  /\ UNCHANGED <<may, netVars, dsnap, carrier, irqVars, down, lockVars, cancelling, op, left, warned,
                 fault>>

Test(w) ==
  /\ pc[w] = "test"
  /\ Go(w, IF down THEN "idle" ELSE IF w = "reset_task" THEN "claim" ELSE "lock")
  /\ UNCHANGED <<may, netVars, dsnap, carrier, irqVars, down, lockVars, workVars, op, left, warned,
                 fault>>

Lock(t) ==
  /\ pc[t] = "lock" /\ mutex = None
  /\ mutex' = t
  /\ Go(t, IF t \in Caller THEN "down" ELSE IF t = "watchdog" THEN "snap" ELSE "work")
  /\ UNCHANGED <<may, netVars, dsnap, carrier, irqVars, down, resetting, rtnl, workVars, op, left,
                 warned, fault>>

Unlock(w) ==
  /\ pc[w] = "unlock"
  /\ mutex' = None
  /\ Go(w, "idle")
  /\ UNCHANGED <<may, netVars, dsnap, carrier, irqVars, down, resetting, rtnl, workVars, op, left,
                 warned, fault>>

(* e1000_update_phy_info_task reads the PHY; e1000_82547_tx_fifo_stall_task  *)
(* resets the FIFO if it has drained, and else comes back, unless DOWN.      *)
PhyInfo ==
  /\ pc["phy_info"] = "work"
  /\ Go("phy_info", "unlock")
  /\ UNCHANGED <<may, netVars, dsnap, carrier, irqVars, down, lockVars, workVars, op, left, warned,
                 fault>>

FifoStall ==
  /\ pc["fifo_stall"] = "work"
  /\ \/ Go("fifo_stall", "unlock")
     \/ ~down /\ Go("fifo_stall", "resched")
  /\ UNCHANGED <<may, netVars, dsnap, carrier, irqVars, down, lockVars, workVars, op, left, warned,
                 fault>>

(* It, or the watchdog, has found the device up, and queues itself again.    *)
Resched(w) ==
  /\ pc[w] = "resched"
  /\ Schedule({w})
  /\ Go(w, "unlock")
  /\ UNCHANGED <<may, netVars, dsnap, carrier, irqVars, down, lockVars, cancelling, op, left, warned,
                 fault>>

(* e1000_watchdog.  First it adds the rings and the adapter to the snapshot; *)
Snap ==
  /\ pc["watchdog"] = "snap"
  /\ \/ dsnap = "ready" /\ Go("watchdog", "link") /\ UNCHANGED fault
     \/ /\ dsnap # "ready"
        /\ Go("watchdog", "oops")
        /\ fault' = IF dsnap = "none" THEN "dsnap before init" ELSE "dsnap after cleanup"
  /\ UNCHANGED <<may, netVars, dsnap, carrier, irqVars, down, lockVars, workVars, op, left, warned>>

(* then it follows the link, and when that changes wants the PHY read, ...   *)
Link ==
  /\ pc["watchdog"] = "link"
  /\ \E link \in BOOLEAN :
       /\ carrier' = link
       /\ Go("watchdog", IF link # carrier /\ ~down THEN "phy" ELSE "stats")
  /\ UNCHANGED <<may, netVars, dsnap, irqVars, down, lockVars, workVars, op, left, warned, fault>>

SchedulePhyInfo ==
  /\ pc["watchdog"] = "phy"
  /\ Schedule({"phy_info"})
  /\ Go("watchdog", "stats")
  /\ UNCHANGED <<may, netVars, dsnap, carrier, irqVars, down, lockVars, cancelling, op, left, warned,
                 fault>>

(* asks for a reset when the link is gone with Tx work queued, in which case *)
(* it does not come back, ...                                                *)
AskForReset ==
  /\ pc["watchdog"] = "stats" /\ ~carrier /\ "tx hang" \in may
  /\ Schedule({"reset_task"})
  /\ Go("watchdog", "unlock")
  /\ UNCHANGED <<may, netVars, dsnap, carrier, irqVars, down, lockVars, cancelling, op, left, warned,
                 fault>>

(* and otherwise does, unless DOWN.                                          *)
StatsOnCarrier ==
  /\ pc["watchdog"] = "stats"
  /\ Go("watchdog", IF down \/ ~carrier THEN "unlock" ELSE "resched")
  /\ UNCHANGED <<may, netVars, dsnap, carrier, irqVars, down, lockVars, workVars, op, left, warned,
                 fault>>
Stats ==
  /\ pc["watchdog"] = "stats"
  /\ Go("watchdog", IF down THEN "unlock" ELSE "resched")
  /\ UNCHANGED <<may, netVars, dsnap, carrier, irqVars, down, lockVars, workVars, op, left, warned,
                 fault>>

-----------------------------------------------------------------------------
Init ==
  /\ may \in Cases
  /\ netdev = FALSE /\ dsnap = "none" /\ running = FALSE /\ present = FALSE
  /\ carrier = FALSE /\ rings = FALSE
  /\ irqReq = FALSE /\ irqOn = FALSE /\ lsc = FALSE /\ irqPc = "idle"
  /\ down = TRUE /\ resetting = None /\ mutex = None /\ rtnl = None
  /\ queued = {} /\ cancelling = {}
  /\ pc = [t \in Thread |-> IF t = "pci" THEN "absent" ELSE "idle"]
  /\ op = [t \in Caller |-> IF t = "reset_task" THEN "reinit_safe" ELSE None]
  /\ left = [t \in Caller |-> <<>>]
  /\ warned = FALSE /\ fault = "none"

(* A step of e1000_down, e1000_up or what surrounds them. *)
CallerStep(t) ==
  \/ IrqDisable(t) \/ SynchronizeIrq(t) \/ Stop(t) \/ Cancel(t) \/ WaitWork(t) \/ ResetHw(t)
  \/ Configure(t) \/ Enable(t) \/ FreeIrq(t) \/ Claim(t) \/ Unclaim(t)

PciStep  == CallerStep("pci") \/ DsnapInit \/ Unregister \/ FreeNetdev \/ Resume
RtnlStep == CallerStep("rtnl")

TaskStep(w) ==
  \/ Start(w) \/ Test(w) \/ Lock(w) \/ Unlock(w)
  \/ w = "reset_task" /\ CallerStep(w)
  \/ w = "phy_info" /\ PhyInfo
  \/ w = "fifo_stall" /\ FifoStall
  \/ w = "watchdog" /\ (Snap \/ Link \/ SchedulePhyInfo \/ AskForReset \/ Stats)
  \/ Resched(w)

Request == Open \/ Close \/ Change \/ Probe \/ DsnapCleanup \/ Suspend

Event == LinkChange \/ TxTimeout \/ XmitStall

Next == PciStep \/ RtnlStep \/ (\E w \in Task : TaskStep(w)) \/ Interrupt \/ IrqSchedule
          \/ Request \/ Event

Spec == Init /\ [][Next]_vars

(* Every thread that can go on does, and the mutex, which is fair, is handed *)
(* to each that waits for it.  Nobody has to open or close the interface.    *)
FairSpec ==
  /\ Spec
  /\ WF_vars(PciStep) /\ WF_vars(RtnlStep) /\ WF_vars(Interrupt) /\ WF_vars(IrqSchedule)
  /\ \A w \in Task : WF_vars(TaskStep(w)) /\ SF_vars(Lock(w))

-----------------------------------------------------------------------------
(* The reset task is queued without a test of DOWN (e1000_main.c:2550).      *)
Stoppable == IF "tx hang" \in may THEN Task \ {"reset_task"} ELSE Task
Quiet ==
  queued \cap Stoppable = {} /\ irqPc = "idle" /\ \A w \in Stoppable : ~Executing(w)

(* "Setting DOWN also prevents tasks from rescheduling" (e1000_main.c:531):  *)
(* once e1000_down has cancelled the work items, with interrupts off, none   *)
(* is queued or runs until e1000_up; and none, nor an interrupt handler,     *)
(* uses an adapter that was freed.                                           *)
DownStopsTasks ==
  \/ /\ down /\ ~irqOn
     /\ \A t \in Caller : pc[t] \notin {"sync", "stop", "cancel", "wait"}
  \/ ~netdev /\ pc["pci"] = "absent"
  => Quiet

(* The device is reset or configured by one thread at a time, and by none    *)
(* while a work item is accessing it, although e1000_down and e1000_up are   *)
(* called without adapter->mutex from everywhere but the reset task.         *)
ExclusiveReset ==
  \A t \in Caller : \A u \in Thread \ {t} :
    pc[t] \in {"reset", "up"} => pc[u] \notin {"reset", "up", "work", "snap", "link", "stats"}

(* The watchdog is never lost: while the interface is up, it is queued, or   *)
(* runs, or an interrupt or a reset that starts it again is on its way.      *)
WatchdogAlive ==
  (irqOn /\ ~down /\ op["pci"] \notin {"remove", "unregister"}) =>
    \/ "watchdog" \in queued \/ Executing("watchdog")
    \/ (lsc /\ irqReq) \/ irqPc = "schedule"
    \/ "reset_task" \in queued \/ Executing("reset_task")

(* What a thread waits for another one to do.                                *)
WaitsFor(t) ==
  CASE pc[t] = "wait" -> {Head(left[t])} \cap {w \in Task : Executing(w)}
    [] pc[t] = "cancel" -> {u \in Caller : pc[u] = "wait" /\ Head(left[u]) = Head(left[t])}
    [] pc[t] = "lock" -> {mutex} \ {None}
    [] pc[t] = "claim" -> {resetting} \ {None}
    [] pc[t] = "unregister" -> {rtnl} \ {None}
    [] OTHER -> {}

(* No threads wait for each other in a circle, unless the reset task is one  *)
(* of them, which e1000_down waits for (e1000_main.c:497).                   *)
NoWaitCycle ==
  LET waiting == {t \in Thread \ {"reset_task"} : WaitsFor(t) # {}}
  IN  \A S \in (SUBSET waiting) \ {{}} : \E t \in S : WaitsFor(t) \cap S = {}

(* The assertions in e1000_close and __e1000_shutdown: neither begins while  *)
(* RESETTING is set.                                                         *)
NotResettingOnClose == "tx hang" \notin may => ~warned

(* A network operation ends: e1000_down gets every work item to stop.        *)
OperationEnds == pc["rtnl"] # "idle" ~> (pc["rtnl"] = "idle" \/ fault # "none")

(* "exit immediately since reset is imminent" (e1000_main.c:2551): a reset   *)
(* that has begun comes to its end.                                          *)
ResetImminent ==
  pc["reset_task"] = "down" ~> (pc["reset_task"] = "idle" \/ fault # "none")

=============================================================================
