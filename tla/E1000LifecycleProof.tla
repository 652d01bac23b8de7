------------------------- MODULE E1000LifecycleProof -------------------------
(***************************************************************************)
(* How e1000_down and e1000_up keep the interrupt and the work items away   *)
(* from the device, whatever may happen to the adapter: theorems about      *)
(* E1000Lifecycle.                                                          *)
(***************************************************************************)
EXTENDS E1000Lifecycle, TLAPS

-----------------------------------------------------------------------------
(* What e1000_down_and_stop has still to cancel: all of StopOrder, then less.*)
Left1 == StopOrder
Left2 == <<"watchdog", "phy_info", "fifo_stall">>
Left3 == <<"phy_info", "fifo_stall">>
Left4 == <<"fifo_stall">>
Lefts == {Left1, Left2, Left3, Left4}

Stopping == {"cancel", "wait"}
Draining == {"sync", "stop", "cancel", "wait"}
Closing  == {"down"} \cup Draining

Place ==
  {"idle", "test", "claim", "lock", "absent", "registered", "bound", "unregister", "reset",
   "free_irq", "free", "suspended", "up", "enable", "unclaim", "oops", "snap", "link", "phy",
   "stats", "work", "resched", "unlock"} \cup Closing
Operation ==
  {None, "open", "close", "change", "set_ringparam", "reinit_safe", "remove", "unregister",
   "suspend", "resume"}

Flags ==
  /\ netdev \in BOOLEAN /\ running \in BOOLEAN /\ present \in BOOLEAN /\ carrier \in BOOLEAN
  /\ rings \in BOOLEAN /\ irqReq \in BOOLEAN /\ irqOn \in BOOLEAN /\ lsc \in BOOLEAN
  /\ irqPc \in {"idle", "schedule"} /\ down \in BOOLEAN /\ warned \in BOOLEAN
  /\ queued \subseteq Task /\ cancelling \subseteq Task

Owners ==
  /\ resetting \in {None, "rtnl", "reset_task"} /\ mutex \in Task \cup {None}
  /\ rtnl \in {None, "rtnl", "pci"}

Threads ==
  /\ pc \in [Thread -> Place] /\ op \in [Caller -> Operation]
  /\ left \in [Caller -> Lefts \cup {<<>>}]

(* Where each thread may stand, and in which operation.                      *)
PciPlaces ==
  \/ pc["pci"] \in {"absent", "registered"} /\ op["pci"] = None
  \/ pc["pci"] = "bound" /\ op["pci"] \in {None, "resume"}
  \/ pc["pci"] \in {"stop", "cancel", "wait", "unregister"} /\ op["pci"] = "remove"
  \/ pc["pci"] \in Closing \cup {"reset", "free_irq"} /\ op["pci"] \in {"unregister", "suspend"}
  \/ pc["pci"] = "free" /\ op["pci"] = "unregister"
  \/ pc["pci"] = "suspended" /\ op["pci"] = "suspend"
  \/ pc["pci"] \in {"up", "enable", "oops"} /\ op["pci"] = "resume"

RtnlPlaces ==
  \/ pc["rtnl"] = "idle"
  \/ pc["rtnl"] \in Closing \cup {"reset", "free_irq"} /\ op["rtnl"] = "close"
  \/ pc["rtnl"] \in {"up", "enable", "oops"} /\ op["rtnl"] = "open"
  \/ /\ pc["rtnl"] \in Closing \cup {"claim", "reset", "up", "enable", "unclaim", "oops"}
     /\ op["rtnl"] \in {"change", "set_ringparam"}

TaskPlaces ==
  /\ op["reset_task"] = "reinit_safe"
  /\ pc["reset_task"] \in {"idle", "test", "claim", "lock"} \cup Closing
  /\ pc["watchdog"] \in {"idle", "test", "lock", "snap", "link", "phy", "stats", "resched",
                         "unlock", "oops"}
  /\ pc["phy_info"] \in {"idle", "test", "lock", "work", "unlock"}
  /\ pc["fifo_stall"] \in {"idle", "test", "lock", "work", "resched", "unlock"}

Places == PciPlaces /\ RtnlPlaces /\ TaskPlaces

(* Who holds what.  A reset or a suspend has the rtnl thread to itself.      *)
Claimed == op["rtnl"] \in {"change", "set_ringparam"} /\ pc["rtnl"] \notin {"idle", "claim"}

Held ==
  /\ rtnl = "rtnl" <=> pc["rtnl"] # "idle"
  /\ rtnl = "pci" <=> op["pci"] = "unregister"
  /\ resetting = "rtnl" <=> Claimed
  /\ resetting = "reset_task" <=> pc["reset_task"] \in {"lock"} \cup Closing
  /\ Frozen => pc["rtnl"] = "idle"

InMutex ==
  /\ mutex = "reset_task" <=> pc["reset_task"] \in Closing
  /\ mutex = "watchdog" <=> pc["watchdog"] \notin {"idle", "test", "lock"}
  /\ mutex = "phy_info" <=> pc["phy_info"] \notin {"idle", "test", "lock"}
  /\ mutex = "fifo_stall" <=> pc["fifo_stall"] \notin {"idle", "test", "lock"}

(* The interface is what the operation in progress has found it to be.       *)
Interface ==
  /\ ~netdev => pc["rtnl"] = "idle" /\ ~running
  /\ pc["rtnl"] \notin {"idle", "claim", "unclaim"} /\ op["rtnl"] # "close"
       => present /\ (running \/ (pc["rtnl"] \in {"up", "oops"} /\ ~rings))
  /\ pc["rtnl"] = "claim" => present
  /\ op["rtnl"] = "close" /\ pc["rtnl"] # "idle" => ~running
  /\ pc["pci"] \in {"up", "enable"} => running
  /\ pc["pci"] = "absent" \/ op["pci"] = "unregister" => ~netdev
  /\ op["pci"] = "suspend" => ~present /\ (pc["pci"] # "suspended" => running)
  /\ ~running => \/ ~rings
                 \/ op["rtnl"] = "close" /\ pc["rtnl"] # "idle"
                 \/ op["pci"] = "unregister" /\ pc["pci"] # "free"
  /\ running /\ (present \/ pc["pci"] \in {"up", "enable"}) => irqReq

(* A work item that is neither queued nor running; the three that only an    *)
(* interrupt, a frame or each other can queue.                               *)
Stopped(w) == w \notin queued /\ pc[w] = "idle"
Silent == irqPc = "idle" /\ Stopped("watchdog") /\ Stopped("phy_info") /\ Stopped("fifo_stall")

(* How far e1000_down of a caller is: what it has waited for stays stopped.  *)
Winding(t) == pc[t] \in Closing /\ op[t] # "remove"

WindingDown(t) ==
  Winding(t) =>
    /\ pc[t] \in Draining => ~irqOn
    /\ pc[t] \in Draining \ {"sync"} => irqPc = "idle"
    /\ pc[t] \in Stopping =>
         /\ down
         /\ left[t] # Left1 => pc["reset_task"] \in {"idle", "test"}
         /\ left[t] \in {Left3, Left4} => Stopped("watchdog")
         /\ left[t] = Left4 => Stopped("phy_info")

Waiting(t) ==
  /\ pc[t] \in Stopping => left[t] \in Lefts
  /\ pc[t] = "wait" => Head(left[t]) \in cancelling /\ Head(left[t]) \notin queued

OneWaits(t, u) == pc[t] = "wait" /\ pc[u] = "wait" => Head(left[t]) # Head(left[u])

StopsInOrder ==
  /\ Waiting("pci") /\ Waiting("rtnl") /\ Waiting("reset_task")
  /\ OneWaits("pci", "rtnl") /\ OneWaits("pci", "reset_task") /\ OneWaits("rtnl", "reset_task")
  /\ \A w \in cancelling : \E t \in Caller : pc[t] = "wait" /\ Head(left[t]) = w
  /\ pc["reset_task"] \in Stopping => left["reset_task"] = Left1
  /\ WindingDown("pci") /\ WindingDown("rtnl")

(* The device is used, or is about to be, or e1000_down is under way; when   *)
(* it is not, it is left alone.                                              *)
Between(t) == pc[t] \in {"reset", "free_irq", "up"}
Live ==
  \/ running /\ present /\ ~Between("pci") /\ ~Between("rtnl")
  \/ Winding("pci") \/ Winding("rtnl") \/ pc["pci"] = "enable" \/ pc["rtnl"] = "enable"

Inactive == ~irqOn /\ down /\ Silent /\ pc["reset_task"] \in {"idle", "test"}
LeftAlone == ~Live => Inactive

(* Without interrupts nobody is at work, unless e1000_down is about to see   *)
(* to that.                                                                  *)
Dormant ==
  /\ \/ irqOn \/ Silent \/ pc["reset_task"] \in Draining
     \/ Winding("pci") /\ pc["pci"] \in Draining
     \/ Winding("rtnl") /\ pc["rtnl"] \in Draining
  /\ pc["pci"] = "enable" \/ pc["rtnl"] = "enable" => ~irqOn /\ Silent

(* Only a hang makes the stack or the watchdog ask for a reset.              *)
NoReset == "tx hang" \notin may => Stopped("reset_task") /\ ~warned

(* The watchdog is on its way, and not only because it is about to end.      *)
OnItsWay ==
  (irqOn /\ ~down /\ op["pci"] \notin {"remove", "unregister"}) =>
    \/ "watchdog" \in queued \/ pc["watchdog"] \notin {"idle", "unlock"}
    \/ (lsc /\ irqReq) \/ irqPc = "schedule"
    \/ "reset_task" \in queued \/ Executing("reset_task")

Calm ==
  /\ Flags /\ Owners /\ Threads /\ Places /\ Held /\ InMutex /\ Interface /\ StopsInOrder
  /\ LeftAlone /\ Dormant /\ NoReset /\ OnItsWay

USE DEF Thread, Task, Caller, None, netVars, irqVars, workVars, lockVars, Closing, Draining,
        Stopping, Go

-----------------------------------------------------------------------------
(* e1000_down_and_stop cancels one work item after the other.                *)
LEMMA Suffixes ==
  /\ Head(Left1) = "reset_task" /\ Tail(Left1) = Left2 /\ Len(Left1) > 1
  /\ Head(Left2) = "watchdog" /\ Tail(Left2) = Left3 /\ Len(Left2) > 1
  /\ Head(Left3) = "phy_info" /\ Tail(Left3) = Left4 /\ Len(Left3) > 1
  /\ Head(Left4) = "fifo_stall" /\ Tail(Left4) = <<>> /\ ~(Len(Left4) > 1)
<1> USE DEF Left1, Left2, Left3, Left4, StopOrder
<1>1. /\ Head(Left1) = "reset_task" /\ Head(Left2) = "watchdog"
      /\ Head(Left3) = "phy_info" /\ Head(Left4) = "fifo_stall"
  OBVIOUS
<1>2. Len(Left1) > 1 /\ Len(Left2) > 1 /\ Len(Left3) > 1 /\ ~(Len(Left4) > 1)
  OBVIOUS
<1>3. Tail(Left1) = Left2
  OBVIOUS
<1>4. Tail(Left2) = Left3
  OBVIOUS
<1>5. Tail(Left3) = Left4
  OBVIOUS
<1>6. Tail(Left4) = <<>>
  OBVIOUS
<1> QED
  BY <1>1, <1>2, <1>3, <1>4, <1>5, <1>6

(* A caller that cancels a work item has one to cancel.                      *)
LEMMA HeadInTask ==
  ASSUME Calm, NEW t \in Caller, pc[t] \in Stopping
  PROVE  Head(left[t]) \in Task
  BY Suffixes DEF Calm, StopsInOrder, Waiting, Lefts

(* Unless the stack may find the device hung, RESETTING is only set during a *)
(* network operation.                                                        *)
LEMMA NotClaimed ==
  ASSUME Calm, "tx hang" \notin may, pc["rtnl"] = "idle"
  PROVE  resetting = None
  BY DEF Calm, NoReset, Stopped, Held, Claimed, Owners

-----------------------------------------------------------------------------
(* e1000_down begins: only now, in the drain, may interrupts be off with     *)
(* work about.                                                               *)
LEMMA IrqDisableCalm ==
  ASSUME Calm, NEW t \in Caller, IrqDisable(t)
  PROVE  Calm'
<1> USE DEF Calm, IrqDisable
<1>1. Threads' /\ Places'
  BY DEF Threads, Place, Operation, Places, PciPlaces, RtnlPlaces, TaskPlaces
<1>2. Owners' /\ Held' /\ InMutex'
  BY DEF Owners, Threads, Held, Claimed, Frozen, InMutex, Places, PciPlaces, RtnlPlaces,
      TaskPlaces
<1>3. Flags'
  BY DEF Flags
<1>4. NoReset'
  BY DEF Flags, Threads, NoReset, Stopped, Executing, Held, Claimed, Places, PciPlaces,
      RtnlPlaces, TaskPlaces
<1>5. Interface'
  BY DEF Flags, Threads, Interface, Held, Claimed, Frozen, Places, PciPlaces, RtnlPlaces,
      TaskPlaces
<1>6. StopsInOrder'
  BY DEF Flags, Threads, StopsInOrder, Waiting, OneWaits, WindingDown, Winding, Stopped, Lefts,
      Held, Frozen, Places, PciPlaces, RtnlPlaces, TaskPlaces
<1>7. LeftAlone' /\ Dormant'
  BY DEF Flags, Threads, LeftAlone, Live, Inactive, Between, Silent, Stopped, Dormant,
      StopsInOrder, Waiting, OneWaits, WindingDown, Winding, Lefts, Held, Frozen, Interface,
      Executing, Places, PciPlaces, RtnlPlaces, TaskPlaces
<1>8. OnItsWay'
  BY DEF Flags, Threads, OnItsWay, Executing, LeftAlone, Live, Inactive, Between, Silent, Stopped,
      Dormant, StopsInOrder, Waiting, OneWaits, WindingDown, Winding, Lefts, Held, Frozen,
      Interface, Places, PciPlaces, RtnlPlaces, TaskPlaces
<1> QED
  BY <1>1, <1>2, <1>3, <1>4, <1>5, <1>6, <1>7, <1>8

(* With interrupts off and no handler in progress none can start.            *)
LEMMA SynchronizeIrqCalm ==
  ASSUME Calm, NEW t \in Caller, SynchronizeIrq(t)
  PROVE  Calm'
<1> USE DEF Calm, SynchronizeIrq
<1>1. Threads' /\ Places'
  BY DEF Threads, Place, Operation, Places, PciPlaces, RtnlPlaces, TaskPlaces
<1>2. Owners' /\ Held' /\ InMutex'
  BY DEF Owners, Threads, Held, Claimed, Frozen, InMutex, Places, PciPlaces, RtnlPlaces,
      TaskPlaces
<1>3. Flags'
  BY DEF Flags
<1>4. NoReset'
  BY DEF Flags, Threads, NoReset, Stopped, Executing, Held, Claimed, Places, PciPlaces,
      RtnlPlaces, TaskPlaces
<1>5. Interface'
  BY DEF Flags, Threads, Interface, Held, Claimed, Frozen, Places, PciPlaces, RtnlPlaces,
      TaskPlaces
<1>6. StopsInOrder'
  BY DEF Flags, Threads, StopsInOrder, Waiting, OneWaits, WindingDown, Winding, Stopped, Lefts,
      Held, Frozen, Places, PciPlaces, RtnlPlaces, TaskPlaces
<1>7. LeftAlone' /\ Dormant'
  BY DEF Flags, Threads, LeftAlone, Live, Inactive, Between, Silent, Stopped, Dormant,
      StopsInOrder, Waiting, OneWaits, WindingDown, Winding, Lefts, Held, Frozen, Interface,
      Executing, Places, PciPlaces, RtnlPlaces, TaskPlaces
<1>8. OnItsWay'
  BY DEF Flags, Threads, OnItsWay, Executing, LeftAlone, Live, Inactive, Between, Silent, Stopped,
      Dormant, StopsInOrder, Waiting, OneWaits, WindingDown, Winding, Lefts, Held, Frozen,
      Interface, Places, PciPlaces, RtnlPlaces, TaskPlaces
<1> QED
  BY <1>1, <1>2, <1>3, <1>4, <1>5, <1>6, <1>7, <1>8

(* DOWN is set, and all four work items are still to be cancelled.           *)
LEMMA StopCalm ==
  ASSUME Calm, NEW t \in Caller, Stop(t)
  PROVE  Calm'
<1> USE DEF Calm, Stop
<1>1. Threads' /\ Places'
  BY Suffixes DEF Threads, Place, Operation, Places, PciPlaces, RtnlPlaces, TaskPlaces, Lefts,
      Left1
<1>2. Owners' /\ Held' /\ InMutex'
  BY DEF Owners, Threads, Held, Claimed, Frozen, InMutex, Places, PciPlaces, RtnlPlaces,
      TaskPlaces
<1>3. Flags'
  BY Suffixes DEF Flags, Lefts, Left1
<1>4. NoReset'
  BY DEF Flags, Threads, NoReset, Stopped, Executing, Held, Claimed, Places, PciPlaces,
      RtnlPlaces, TaskPlaces
<1>5. Interface'
  BY DEF Flags, Threads, Interface, Held, Claimed, Frozen, Places, PciPlaces, RtnlPlaces,
      TaskPlaces
<1>6. StopsInOrder'
  BY Suffixes DEF Flags, Threads, StopsInOrder, Waiting, OneWaits, WindingDown, Winding, Stopped,
      Lefts, Held, Frozen, Places, PciPlaces, RtnlPlaces, TaskPlaces, Left1
<1>7. LeftAlone' /\ Dormant'
  BY Suffixes DEF Flags, Threads, LeftAlone, Live, Inactive, Between, Silent, Stopped, Dormant,
      StopsInOrder, Waiting, OneWaits, WindingDown, Winding, Lefts, Held, Frozen, Interface,
      Executing, Places, PciPlaces, RtnlPlaces, TaskPlaces, Left1
<1>8. OnItsWay'
  BY Suffixes DEF Flags, Threads, OnItsWay, Executing, LeftAlone, Live, Inactive, Between, Silent,
      Stopped, Dormant, StopsInOrder, Waiting, OneWaits, WindingDown, Winding, Lefts, Held,
      Frozen, Interface, Places, PciPlaces, RtnlPlaces, TaskPlaces, Left1
<1> QED
  BY <1>1, <1>2, <1>3, <1>4, <1>5, <1>6, <1>7, <1>8

(* The work item at the head is taken off the queue and kept off.            *)
LEMMA CancelCalm ==
  ASSUME Calm, NEW t \in Caller, Cancel(t)
  PROVE  Calm'
<1>0. Flags'
  <2>1. Head(left[t]) \in Task
    BY HeadInTask DEF Cancel
  <2>2. queued' \subseteq queued /\ cancelling' = cancelling \cup {Head(left[t])}
    BY DEF Cancel
  <2>3. queued' \subseteq Task /\ cancelling' \subseteq Task
    BY <2>1, <2>2 DEF Calm, Flags
  <2> QED
    BY <2>3 DEF Calm, Cancel, Flags
<1> USE DEF Calm, Cancel
<1>1. Threads' /\ Places'
  BY Suffixes DEF Threads, Place, Operation, Places, PciPlaces, RtnlPlaces, TaskPlaces, Lefts
<1>2. Owners' /\ Held' /\ InMutex'
  BY DEF Owners, Threads, Held, Claimed, Frozen, InMutex, Places, PciPlaces, RtnlPlaces,
      TaskPlaces
<1>4. NoReset'
  BY DEF Flags, Threads, NoReset, Stopped, Executing, Held, Claimed, Places, PciPlaces,
      RtnlPlaces, TaskPlaces
<1>5. Interface'
  BY DEF Flags, Threads, Interface, Held, Claimed, Frozen, Places, PciPlaces, RtnlPlaces,
      TaskPlaces
<1>6. StopsInOrder'
  BY Suffixes DEF Flags, Threads, StopsInOrder, Waiting, OneWaits, WindingDown, Winding, Stopped,
      Lefts, Held, Frozen, Places, PciPlaces, RtnlPlaces, TaskPlaces
<1>7. LeftAlone' /\ Dormant'
  BY Suffixes DEF Flags, Threads, LeftAlone, Live, Inactive, Between, Silent, Stopped, Dormant,
      StopsInOrder, Waiting, OneWaits, WindingDown, Winding, Lefts, Held, Frozen, Interface,
      Executing, Places, PciPlaces, RtnlPlaces, TaskPlaces
<1>8. OnItsWay'
  BY Suffixes DEF Flags, Threads, OnItsWay, Executing, LeftAlone, Live, Inactive, Between, Silent,
      Stopped, Dormant, StopsInOrder, Waiting, OneWaits, WindingDown, Winding, Lefts, Held,
      Frozen, Interface, Places, PciPlaces, RtnlPlaces, TaskPlaces
<1> QED
  BY <1>0, <1>1, <1>2, <1>4, <1>5, <1>6, <1>7, <1>8

(* RESETTING is taken by the reset task or by a reconfiguration, which goes  *)
(* on to e1000_down only when the interface is running.                      *)
LEMMA ClaimCalm ==
  ASSUME Calm, NEW t \in Caller, Claim(t)
  PROVE  Calm'
<1> USE DEF Calm
<1>1. PICK where \in {"lock", "down", "unclaim", "up"} :
           /\ Go(t, where) /\ pc[t] = "claim" /\ resetting = None /\ resetting' = t
           /\ t = "reset_task" <=> where = "lock"
           /\ where = "down" => running
           /\ where \in {"unclaim", "up"} => ~running
           /\ UNCHANGED <<may, netdev, running, present, rings, dsnap, carrier, irqReq, irqOn,
              lsc, irqPc, down, mutex, rtnl, queued, cancelling, op, left,
              warned, fault>>
  BY DEF Claim, Places, PciPlaces
<1>2. Threads' /\ Places'
  BY <1>1 DEF Threads, Place, Operation, Places, PciPlaces, RtnlPlaces, TaskPlaces
<1>3. Owners' /\ Held' /\ InMutex'
  BY <1>1 DEF Owners, Threads, Held, Claimed, Frozen, InMutex, Places, PciPlaces, RtnlPlaces,
      TaskPlaces
<1>4. Flags'
  BY <1>1 DEF Flags
<1>5. NoReset'
  BY <1>1 DEF Flags, Threads, NoReset, Stopped, Executing, Held, Claimed, Places, PciPlaces,
      RtnlPlaces, TaskPlaces
<1>6. Interface'
  BY <1>1 DEF Flags, Threads, Interface, Held, Claimed, Frozen, Places, PciPlaces, RtnlPlaces,
      TaskPlaces
<1>7. StopsInOrder'
  BY <1>1 DEF Flags, Threads, StopsInOrder, Waiting, OneWaits, WindingDown, Winding, Stopped,
      Lefts, Held, Frozen, Places, PciPlaces, RtnlPlaces, TaskPlaces
<1>8. LeftAlone' /\ Dormant'
  BY <1>1 DEF Flags, Threads, LeftAlone, Live, Inactive, Between, Silent, Stopped, Dormant,
      StopsInOrder, Waiting, OneWaits, WindingDown, Winding, Lefts, Held, Frozen, Interface,
      Executing, Places, PciPlaces, RtnlPlaces, TaskPlaces
<1>9. OnItsWay'
  BY <1>1 DEF Flags, Threads, OnItsWay, Executing, LeftAlone, Live, Inactive, Between, Silent,
      Stopped, Dormant, StopsInOrder, Waiting, OneWaits, WindingDown, Winding, Lefts, Held,
      Frozen, Interface, Places, PciPlaces, RtnlPlaces, TaskPlaces
<1> QED
  BY <1>2, <1>3, <1>4, <1>5, <1>6, <1>7, <1>8, <1>9

(* The work item at the head has ended and nobody is left that could queue   *)
(* it; the last one ends the drain.                                          *)
LEMMA WaitWorkCalm ==
  ASSUME Calm, NEW t \in {"pci", "rtnl"}, WaitWork(t)
  PROVE  Calm'
<1> USE DEF Calm, WaitWork
<1>1. Threads' /\ Places'
  <2>1. left[t] \in Lefts /\ Tail(left[t]) \in Lefts \cup {<<>>}
    BY Suffixes DEF StopsInOrder, Waiting, Lefts
  <2>2. left' = [left EXCEPT ![t] = Tail(left[t])]
    OBVIOUS
  <2>3. \E where \in Place : Go(t, where)
    BY DEF Place
  <2>4. Threads'
    BY <2>1, <2>2, <2>3 DEF Threads
  <2>5. Places'
    BY DEF Threads, Places, PciPlaces, RtnlPlaces, TaskPlaces
  <2> QED
    BY <2>4, <2>5
<1>2. Owners' /\ Held' /\ InMutex'
  BY DEF Owners, Threads, Held, Claimed, Frozen, InMutex, Places, PciPlaces, RtnlPlaces,
      TaskPlaces
<1>3. Flags'
  BY Suffixes DEF Flags, Lefts
<1>4. NoReset'
  BY DEF Flags, Threads, NoReset, Stopped, Executing, Held, Claimed, Places, PciPlaces,
      RtnlPlaces, TaskPlaces
<1>5. Interface'
  BY DEF Flags, Threads, Interface, Held, Claimed, Frozen, Places, PciPlaces, RtnlPlaces,
      TaskPlaces
<1>6. StopsInOrder'
  <2>1. pc[t] = "wait" /\ left[t] \in Lefts
    BY DEF StopsInOrder, Waiting
  <2>2. /\ cancelling' = cancelling \ {Head(left[t])}
        /\ left' = [left EXCEPT ![t] = Tail(left[t])]
        /\ UNCHANGED <<op, queued, irqOn, irqPc, down>> /\ ~Executing(Head(left[t]))
    OBVIOUS
  <2> HIDE DEF WaitWork
  <2> USE DEF Threads, StopsInOrder, Waiting, OneWaits, WindingDown, Winding, Stopped, Lefts
  <2>3. CASE left[t] = Left4
    <3>1. /\ pc' = [pc EXCEPT ![t] = IF op[t] = "remove" THEN "unregister" ELSE "reset"]
          /\ Head(left[t]) = "fifo_stall"
      BY <2>3, Suffixes DEF WaitWork
    <3> QED
      BY <2>1, <2>2, <3>1, Suffixes DEF Held, Frozen, Places, PciPlaces, RtnlPlaces, TaskPlaces
  <2>4. CASE left[t] # Left4
    <3>1. pc' = [pc EXCEPT ![t] = "cancel"] /\ Tail(left[t]) \in Lefts
      BY <2>1, <2>4, Suffixes DEF WaitWork
    <3>2. Waiting("pci")' /\ Waiting("rtnl")' /\ Waiting("reset_task")'
      BY <2>1, <2>2, <3>1, Suffixes
    <3>3. /\ OneWaits("pci", "rtnl")' /\ OneWaits("pci", "reset_task")'
          /\ OneWaits("rtnl", "reset_task")'
      BY <2>1, <2>2, <3>1, Suffixes
    <3>4. \A w \in cancelling' : \E u \in Caller : pc'[u] = "wait" /\ Head(left'[u]) = w
      BY <2>1, <2>2, <3>1, Suffixes
    <3>5. pc'["reset_task"] \in Stopping => left'["reset_task"] = Left1
      BY <2>1, <2>2, <3>1, Suffixes
    <3>6. WindingDown("pci")' /\ WindingDown("rtnl")'
      BY <2>1, <2>2, <2>4, <3>1, Suffixes
         DEF Executing, Places, PciPlaces, RtnlPlaces, TaskPlaces
    <3> QED
      BY <3>2, <3>3, <3>4, <3>5, <3>6
  <2> QED
    BY <2>3, <2>4
<1>7. LeftAlone' /\ Dormant'
  BY Suffixes DEF Flags, Threads, LeftAlone, Live, Inactive, Between, Silent, Stopped, Dormant,
      StopsInOrder, Waiting, OneWaits, WindingDown, Winding, Lefts, Held, Frozen, Interface,
      Executing, Places, PciPlaces, RtnlPlaces, TaskPlaces
<1>8. OnItsWay'
  BY Suffixes DEF Flags, Threads, OnItsWay, Executing, LeftAlone, Live, Inactive, Between, Silent,
      Stopped, Dormant, StopsInOrder, Waiting, OneWaits, WindingDown, Winding, Lefts, Held,
      Frozen, Interface, Places, PciPlaces, RtnlPlaces, TaskPlaces
<1> QED
  BY <1>1, <1>2, <1>3, <1>4, <1>5, <1>6, <1>7, <1>8

(* The reset finds the device left alone.                                    *)
LEMMA ResetHwCalm ==
  ASSUME Calm, NEW t \in {"pci", "rtnl"}, ResetHw(t)
  PROVE  Calm'
<1> USE DEF Calm, ResetHw
<1>1. Threads' /\ Places'
  BY DEF Threads, Place, Operation, Places, PciPlaces, RtnlPlaces, TaskPlaces
<1>2. Owners' /\ Held' /\ InMutex'
  BY DEF Owners, Threads, Held, Claimed, Frozen, InMutex, Places, PciPlaces, RtnlPlaces,
      TaskPlaces
<1>3. Flags'
  BY DEF Flags
<1>4. NoReset'
  BY DEF Flags, Threads, NoReset, Stopped, Executing, Held, Claimed, Places, PciPlaces,
      RtnlPlaces, TaskPlaces
<1>5. Interface'
  BY DEF Flags, Threads, Interface, Held, Claimed, Frozen, Places, PciPlaces, RtnlPlaces,
      TaskPlaces
<1>6. StopsInOrder'
  BY DEF Flags, Threads, StopsInOrder, Waiting, OneWaits, WindingDown, Winding, Stopped, Lefts,
      Held, Frozen, Places, PciPlaces, RtnlPlaces, TaskPlaces
<1>7. LeftAlone' /\ Dormant'
  BY DEF Flags, Threads, LeftAlone, Live, Inactive, Between, Silent, Stopped, Dormant,
      StopsInOrder, Waiting, OneWaits, WindingDown, Winding, Lefts, Held, Frozen, Interface,
      Executing, Places, PciPlaces, RtnlPlaces, TaskPlaces
<1>8. OnItsWay'
  BY DEF Flags, Threads, OnItsWay, Executing, LeftAlone, Live, Inactive, Between, Silent, Stopped,
      Dormant, StopsInOrder, Waiting, OneWaits, WindingDown, Winding, Lefts, Held, Frozen,
      Interface, Places, PciPlaces, RtnlPlaces, TaskPlaces
<1> QED
  BY <1>1, <1>2, <1>3, <1>4, <1>5, <1>6, <1>7, <1>8

(* e1000_up clears DOWN, with interrupts still off and nobody at work.       *)
LEMMA ConfigureCalm ==
  ASSUME Calm, NEW t \in {"pci", "rtnl"}, Configure(t)
  PROVE  Calm'
<1> USE DEF Calm
<1>1. PICK where \in {"enable", "oops"} :
           /\ Go(t, where) /\ pc[t] = "up"
           /\ where = "enable" => rings /\ down' = FALSE
           /\ where = "oops" => ~rings /\ down' = down
           /\ UNCHANGED <<may, netdev, running, present, rings, dsnap, carrier, irqReq, irqOn,
              lsc, irqPc, resetting, mutex, rtnl, queued, cancelling, op, left,
              warned>>
  BY DEF Configure
<1>2. Threads' /\ Places'
  BY <1>1 DEF Threads, Place, Operation, Places, PciPlaces, RtnlPlaces, TaskPlaces
<1>3. Owners' /\ Held' /\ InMutex'
  BY <1>1 DEF Owners, Threads, Held, Claimed, Frozen, InMutex, Places, PciPlaces, RtnlPlaces,
      TaskPlaces
<1>4. Flags'
  BY <1>1 DEF Flags
<1>5. NoReset'
  BY <1>1 DEF Flags, Threads, NoReset, Stopped, Executing, Held, Claimed, Places, PciPlaces,
      RtnlPlaces, TaskPlaces
<1>6. Interface'
  BY <1>1 DEF Flags, Threads, Interface, Held, Claimed, Frozen, Places, PciPlaces, RtnlPlaces,
      TaskPlaces
<1>7. StopsInOrder'
  BY <1>1 DEF Flags, Threads, StopsInOrder, Waiting, OneWaits, WindingDown, Winding, Stopped,
      Lefts, Held, Frozen, Places, PciPlaces, RtnlPlaces, TaskPlaces
<1>8. LeftAlone' /\ Dormant'
  BY <1>1 DEF Flags, Threads, LeftAlone, Live, Inactive, Between, Silent, Stopped, Dormant,
      StopsInOrder, Waiting, OneWaits, WindingDown, Winding, Lefts, Held, Frozen, Interface,
      Executing, Places, PciPlaces, RtnlPlaces, TaskPlaces
<1>9. OnItsWay'
  BY <1>1 DEF Flags, Threads, OnItsWay, Executing, LeftAlone, Live, Inactive, Between, Silent,
      Stopped, Dormant, StopsInOrder, Waiting, OneWaits, WindingDown, Winding, Lefts, Held,
      Frozen, Interface, Places, PciPlaces, RtnlPlaces, TaskPlaces
<1> QED
  BY <1>2, <1>3, <1>4, <1>5, <1>6, <1>7, <1>8, <1>9

(* Interrupts come on with a link change pending, which starts the           *)
(* watchdog.                                                                 *)
LEMMA EnableCalm ==
  ASSUME Calm, NEW t \in {"pci", "rtnl"}, Enable(t)
  PROVE  Calm'
<1> USE DEF Calm, Enable
<1>1. Threads' /\ Places'
  BY DEF Threads, Place, Operation, Places, PciPlaces, RtnlPlaces, TaskPlaces
<1>2. Owners' /\ Held' /\ InMutex'
  BY DEF Owners, Threads, Held, Claimed, Frozen, InMutex, Places, PciPlaces, RtnlPlaces,
      TaskPlaces
<1>3. Flags'
  BY DEF Flags
<1>4. NoReset'
  BY DEF Flags, Threads, NoReset, Stopped, Executing, Held, Claimed, Places, PciPlaces,
      RtnlPlaces, TaskPlaces
<1>5. Interface'
  BY DEF Flags, Threads, Interface, Held, Claimed, Frozen, Places, PciPlaces, RtnlPlaces,
      TaskPlaces
<1>6. StopsInOrder'
  BY DEF Flags, Threads, StopsInOrder, Waiting, OneWaits, WindingDown, Winding, Stopped, Lefts,
      Held, Frozen, Places, PciPlaces, RtnlPlaces, TaskPlaces
<1>7. LeftAlone' /\ Dormant'
  BY DEF Flags, Threads, LeftAlone, Live, Inactive, Between, Silent, Stopped, Dormant,
      StopsInOrder, Waiting, OneWaits, WindingDown, Winding, Lefts, Held, Frozen, Interface,
      Executing, Places, PciPlaces, RtnlPlaces, TaskPlaces
<1>8. OnItsWay'
  BY DEF Flags, Threads, OnItsWay, Executing, LeftAlone, Live, Inactive, Between, Silent, Stopped,
      Dormant, StopsInOrder, Waiting, OneWaits, WindingDown, Winding, Lefts, Held, Frozen,
      Interface, Places, PciPlaces, RtnlPlaces, TaskPlaces
<1> QED
  BY <1>1, <1>2, <1>3, <1>4, <1>5, <1>6, <1>7, <1>8

(* The handler is removed from an interface that is closed, suspended or     *)
(* gone.                                                                     *)
LEMMA FreeIrqCalm ==
  ASSUME Calm, NEW t \in {"pci", "rtnl"}, FreeIrq(t)
  PROVE  Calm'
<1> USE DEF Calm, FreeIrq
<1>1. Threads' /\ Places'
  BY DEF Threads, Place, Operation, Places, PciPlaces, RtnlPlaces, TaskPlaces
<1>2. Owners' /\ Held' /\ InMutex'
  BY DEF Owners, Threads, Held, Claimed, Frozen, InMutex, Places, PciPlaces, RtnlPlaces,
      TaskPlaces
<1>3. Flags'
  BY DEF Flags
<1>4. NoReset'
  BY DEF Flags, Threads, NoReset, Stopped, Executing, Held, Claimed, Places, PciPlaces,
      RtnlPlaces, TaskPlaces
<1>5. Interface'
  <2> USE DEF Flags, Threads, Interface, Held, Frozen, Places, PciPlaces, RtnlPlaces, TaskPlaces
  <2>1. pc[t] = "free_irq" /\ UNCHANGED <<netdev, running, present, op>>
    BY DEF FreeIrq
  <2>2. CASE op[t] = "close"
    <3>1. Go(t, "idle") /\ rings' = FALSE
      BY <2>2 DEF FreeIrq
    <3>2. t = "rtnl" /\ ~Frozen /\ op["pci"] # "unregister"
      BY <2>1, <2>2
    <3>3. pc["pci"] \notin {"up", "enable"}
      BY <3>2
    <3>4. ~running
      BY <2>1, <2>2, <3>2
    <3> QED
      BY <2>1, <2>2, <3>1, <3>2, <3>3, <3>4
  <2>3. CASE op[t] = "unregister"
    <3>1. Go(t, "free") /\ rings' = FALSE
      BY <2>3 DEF FreeIrq
    <3> QED
      BY <2>1, <2>3, <3>1
  <2>4. CASE op[t] = "suspend"
    <3>1. Go(t, "suspended")
      BY <2>4 DEF FreeIrq
    <3> QED
      BY <2>1, <2>4, <3>1
  <2> QED
    BY <2>2, <2>3, <2>4 DEF FreeIrq
<1>6. StopsInOrder'
  BY DEF Flags, Threads, StopsInOrder, Waiting, OneWaits, WindingDown, Winding, Stopped, Lefts,
      Held, Frozen, Places, PciPlaces, RtnlPlaces, TaskPlaces
<1>7. LeftAlone' /\ Dormant'
  BY DEF Flags, Threads, LeftAlone, Live, Inactive, Between, Silent, Stopped, Dormant,
      StopsInOrder, Waiting, OneWaits, WindingDown, Winding, Lefts, Held, Frozen, Interface,
      Executing, Places, PciPlaces, RtnlPlaces, TaskPlaces
<1>8. OnItsWay'
  BY DEF Flags, Threads, OnItsWay, Executing, LeftAlone, Live, Inactive, Between, Silent, Stopped,
      Dormant, StopsInOrder, Waiting, OneWaits, WindingDown, Winding, Lefts, Held, Frozen,
      Interface, Places, PciPlaces, RtnlPlaces, TaskPlaces
<1> QED
  BY <1>1, <1>2, <1>3, <1>4, <1>5, <1>6, <1>7, <1>8

(* A reconfiguration ends.                                                   *)
LEMMA UnclaimCalm ==
  ASSUME Calm, NEW t \in {"pci", "rtnl"}, Unclaim(t)
  PROVE  Calm'
<1> USE DEF Calm, Unclaim
<1>1. Threads' /\ Places'
  BY DEF Threads, Place, Operation, Places, PciPlaces, RtnlPlaces, TaskPlaces
<1>2. Owners' /\ Held' /\ InMutex'
  BY DEF Owners, Threads, Held, Claimed, Frozen, InMutex, Places, PciPlaces, RtnlPlaces,
      TaskPlaces
<1>3. Flags'
  BY DEF Flags
<1>4. NoReset'
  BY DEF Flags, Threads, NoReset, Stopped, Executing, Held, Claimed, Places, PciPlaces,
      RtnlPlaces, TaskPlaces
<1>5. Interface'
  BY DEF Flags, Threads, Interface, Held, Claimed, Frozen, Places, PciPlaces, RtnlPlaces,
      TaskPlaces
<1>6. StopsInOrder'
  BY DEF Flags, Threads, StopsInOrder, Waiting, OneWaits, WindingDown, Winding, Stopped, Lefts,
      Held, Frozen, Places, PciPlaces, RtnlPlaces, TaskPlaces
<1>7. LeftAlone' /\ Dormant'
  BY DEF Flags, Threads, LeftAlone, Live, Inactive, Between, Silent, Stopped, Dormant,
      StopsInOrder, Waiting, OneWaits, WindingDown, Winding, Lefts, Held, Frozen, Interface,
      Executing, Places, PciPlaces, RtnlPlaces, TaskPlaces
<1>8. OnItsWay'
  BY DEF Flags, Threads, OnItsWay, Executing, LeftAlone, Live, Inactive, Between, Silent, Stopped,
      Dormant, StopsInOrder, Waiting, OneWaits, WindingDown, Winding, Lefts, Held, Frozen,
      Interface, Places, PciPlaces, RtnlPlaces, TaskPlaces
<1> QED
  BY <1>1, <1>2, <1>3, <1>4, <1>5, <1>6, <1>7, <1>8

(* The end of the probe.                                                     *)
LEMMA DsnapInitCalm ==
  ASSUME Calm, DsnapInit
  PROVE  Calm'
<1> USE DEF Calm, DsnapInit
<1>1. Threads' /\ Places'
  BY DEF Threads, Place, Operation, Places, PciPlaces, RtnlPlaces, TaskPlaces
<1>2. Owners' /\ Held' /\ InMutex'
  BY DEF Owners, Threads, Held, Claimed, Frozen, InMutex, Places, PciPlaces, RtnlPlaces,
      TaskPlaces
<1>3. Flags'
  BY DEF Flags
<1>4. NoReset'
  BY DEF Flags, Threads, NoReset, Stopped, Executing, Held, Claimed, Places, PciPlaces,
      RtnlPlaces, TaskPlaces
<1>5. Interface'
  BY DEF Flags, Threads, Interface, Held, Claimed, Frozen, Places, PciPlaces, RtnlPlaces,
      TaskPlaces
<1>6. StopsInOrder'
  BY DEF Flags, Threads, StopsInOrder, Waiting, OneWaits, WindingDown, Winding, Stopped, Lefts,
      Held, Frozen, Places, PciPlaces, RtnlPlaces, TaskPlaces
<1>7. LeftAlone' /\ Dormant'
  BY DEF Flags, Threads, LeftAlone, Live, Inactive, Between, Silent, Stopped, Dormant,
      StopsInOrder, Waiting, OneWaits, WindingDown, Winding, Lefts, Held, Frozen, Interface,
      Executing, Places, PciPlaces, RtnlPlaces, TaskPlaces
<1>8. OnItsWay'
  BY DEF Flags, Threads, OnItsWay, Executing, LeftAlone, Live, Inactive, Between, Silent, Stopped,
      Dormant, StopsInOrder, Waiting, OneWaits, WindingDown, Winding, Lefts, Held, Frozen,
      Interface, Places, PciPlaces, RtnlPlaces, TaskPlaces
<1> QED
  BY <1>1, <1>2, <1>3, <1>4, <1>5, <1>6, <1>7, <1>8

(* unregister_netdev has the RTNL, so no reconfiguration is in progress.     *)
LEMMA UnregisterCalm ==
  ASSUME Calm, Unregister
  PROVE  Calm'
<1> USE DEF Calm, Unregister, Begin
<1>1. Threads' /\ Places'
  BY DEF Threads, Place, Operation, Places, PciPlaces, RtnlPlaces, TaskPlaces
<1>2. Owners' /\ Held' /\ InMutex'
  BY DEF Owners, Threads, Held, Claimed, Frozen, InMutex, Places, PciPlaces, RtnlPlaces,
      TaskPlaces
<1>3. Flags'
  BY DEF Flags
<1>4. NoReset'
  <2>1. "tx hang" \notin may => resetting = None
    BY NotClaimed DEF Unregister, Begin, Held, Owners
  <2>2. warned' = (warned \/ (running /\ resetting # None)) /\ UNCHANGED <<may, queued>>
    BY DEF Unregister, Begin
  <2>3. pc'["reset_task"] = pc["reset_task"]
    BY DEF Unregister, Threads
  <2> QED
    BY <2>1, <2>2, <2>3 DEF NoReset, Stopped
<1>5. Interface'
  BY DEF Flags, Threads, Interface, Held, Claimed, Frozen, Places, PciPlaces, RtnlPlaces,
      TaskPlaces
<1>6. StopsInOrder'
  BY DEF Flags, Threads, StopsInOrder, Waiting, OneWaits, WindingDown, Winding, Stopped, Lefts,
      Held, Frozen, Places, PciPlaces, RtnlPlaces, TaskPlaces
<1>7. LeftAlone' /\ Dormant'
  BY DEF Flags, Threads, LeftAlone, Live, Inactive, Between, Silent, Stopped, Dormant,
      StopsInOrder, Waiting, OneWaits, WindingDown, Winding, Lefts, Held, Frozen, Interface,
      Executing, Places, PciPlaces, RtnlPlaces, TaskPlaces
<1>8. OnItsWay'
  BY DEF Flags, Threads, OnItsWay, Executing, LeftAlone, Live, Inactive, Between, Silent, Stopped,
      Dormant, StopsInOrder, Waiting, OneWaits, WindingDown, Winding, Lefts, Held, Frozen,
      Interface, Places, PciPlaces, RtnlPlaces, TaskPlaces
<1> QED
  BY <1>1, <1>2, <1>3, <1>4, <1>5, <1>6, <1>7, <1>8

(* An adapter that is freed has been left alone.                             *)
LEMMA FreeNetdevCalm ==
  ASSUME Calm, FreeNetdev
  PROVE  Calm'
<1> USE DEF Calm, FreeNetdev
<1>1. Threads' /\ Places'
  BY DEF Threads, Place, Operation, Places, PciPlaces, RtnlPlaces, TaskPlaces
<1>2. Owners' /\ Held' /\ InMutex'
  BY DEF Owners, Threads, Held, Claimed, Frozen, InMutex, Places, PciPlaces, RtnlPlaces,
      TaskPlaces
<1>3. Flags'
  BY DEF Flags
<1>4. NoReset'
  BY DEF Flags, Threads, NoReset, Stopped, Executing, Held, Claimed, Places, PciPlaces,
      RtnlPlaces, TaskPlaces
<1>5. Interface'
  BY DEF Flags, Threads, Interface, Held, Claimed, Frozen, Places, PciPlaces, RtnlPlaces,
      TaskPlaces
<1>6. StopsInOrder'
  BY DEF Flags, Threads, StopsInOrder, Waiting, OneWaits, WindingDown, Winding, Stopped, Lefts,
      Held, Frozen, Places, PciPlaces, RtnlPlaces, TaskPlaces
<1>7. LeftAlone' /\ Dormant'
  BY DEF Flags, Threads, LeftAlone, Live, Inactive, Between, Silent, Stopped, Dormant,
      StopsInOrder, Waiting, OneWaits, WindingDown, Winding, Lefts, Held, Frozen, Interface,
      Executing, Places, PciPlaces, RtnlPlaces, TaskPlaces
<1>8. OnItsWay'
  BY DEF Flags, Threads, OnItsWay, Executing, LeftAlone, Live, Inactive, Between, Silent, Stopped,
      Dormant, StopsInOrder, Waiting, OneWaits, WindingDown, Winding, Lefts, Held, Frozen,
      Interface, Places, PciPlaces, RtnlPlaces, TaskPlaces
<1> QED
  BY <1>1, <1>2, <1>3, <1>4, <1>5, <1>6, <1>7, <1>8

(* A resumed interface is brought up unless its interrupt cannot be had.     *)
LEMMA ResumeCalm ==
  ASSUME Calm, Resume
  PROVE  Calm'
<1> USE DEF Calm
<1>1. PICK where \in {"up", "bound"} :
           /\ Go("pci", where) /\ pc["pci"] = "suspended" /\ op' = [op EXCEPT !["pci"] =
              "resume"]
           /\ where = "up" => running /\ irqReq' /\ present' = present
           /\ where = "bound" => irqReq' = irqReq
           /\ where = "bound" => IF running THEN present' = present ELSE present'
           /\ UNCHANGED <<may, netdev, running, rings, dsnap, carrier, irqOn, lsc, irqPc,
              down, resetting, mutex, rtnl, queued, cancelling, left, warned,
              fault>>
  BY DEF Resume
<1>2. Threads' /\ Places'
  BY <1>1 DEF Threads, Place, Operation, Places, PciPlaces, RtnlPlaces, TaskPlaces
<1>3. Owners' /\ Held' /\ InMutex'
  BY <1>1 DEF Owners, Threads, Held, Claimed, Frozen, InMutex, Places, PciPlaces, RtnlPlaces,
      TaskPlaces
<1>4. Flags'
  BY <1>1 DEF Flags
<1>5. NoReset'
  BY <1>1 DEF Flags, Threads, NoReset, Stopped, Executing, Held, Claimed, Places, PciPlaces,
      RtnlPlaces, TaskPlaces
<1>6. Interface'
  BY <1>1 DEF Flags, Threads, Interface, Held, Claimed, Frozen, Places, PciPlaces, RtnlPlaces,
      TaskPlaces
<1>7. StopsInOrder'
  BY <1>1 DEF Flags, Threads, StopsInOrder, Waiting, OneWaits, WindingDown, Winding, Stopped,
      Lefts, Held, Frozen, Places, PciPlaces, RtnlPlaces, TaskPlaces
<1>8. LeftAlone' /\ Dormant'
  BY <1>1 DEF Flags, Threads, LeftAlone, Live, Inactive, Between, Silent, Stopped, Dormant,
      StopsInOrder, Waiting, OneWaits, WindingDown, Winding, Lefts, Held, Frozen, Interface,
      Executing, Places, PciPlaces, RtnlPlaces, TaskPlaces
<1>9. OnItsWay'
  BY <1>1 DEF Flags, Threads, OnItsWay, Executing, LeftAlone, Live, Inactive, Between, Silent,
      Stopped, Dormant, StopsInOrder, Waiting, OneWaits, WindingDown, Winding, Lefts, Held,
      Frozen, Interface, Places, PciPlaces, RtnlPlaces, TaskPlaces
<1> QED
  BY <1>2, <1>3, <1>4, <1>5, <1>6, <1>7, <1>8, <1>9

(* The interface is opened; its rings and its interrupt are there.           *)
LEMMA OpenCalm ==
  ASSUME Calm, Open
  PROVE  Calm'
<1> USE DEF Calm, Open, Begin
<1>1. Threads' /\ Places'
  BY DEF Threads, Place, Operation, Places, PciPlaces, RtnlPlaces, TaskPlaces
<1>2. Owners' /\ Held' /\ InMutex'
  BY DEF Owners, Threads, Held, Claimed, Frozen, InMutex, Places, PciPlaces, RtnlPlaces,
      TaskPlaces
<1>3. Flags'
  BY DEF Flags
<1>4. NoReset'
  BY DEF Flags, Threads, NoReset, Stopped, Executing, Held, Claimed, Places, PciPlaces,
      RtnlPlaces, TaskPlaces
<1>5. Interface'
  BY DEF Flags, Threads, Interface, Held, Claimed, Frozen, Places, PciPlaces, RtnlPlaces,
      TaskPlaces
<1>6. StopsInOrder'
  BY DEF Flags, Threads, StopsInOrder, Waiting, OneWaits, WindingDown, Winding, Stopped, Lefts,
      Held, Frozen, Places, PciPlaces, RtnlPlaces, TaskPlaces
<1>7. LeftAlone' /\ Dormant'
  BY DEF Flags, Threads, LeftAlone, Live, Inactive, Between, Silent, Stopped, Dormant,
      StopsInOrder, Waiting, OneWaits, WindingDown, Winding, Lefts, Held, Frozen, Interface,
      Executing, Places, PciPlaces, RtnlPlaces, TaskPlaces
<1>8. OnItsWay'
  BY DEF Flags, Threads, OnItsWay, Executing, LeftAlone, Live, Inactive, Between, Silent, Stopped,
      Dormant, StopsInOrder, Waiting, OneWaits, WindingDown, Winding, Lefts, Held, Frozen,
      Interface, Places, PciPlaces, RtnlPlaces, TaskPlaces
<1> QED
  BY <1>1, <1>2, <1>3, <1>4, <1>5, <1>6, <1>7, <1>8

(* e1000_close has the RTNL, so no reconfiguration is in progress.           *)
LEMMA CloseCalm ==
  ASSUME Calm, Close
  PROVE  Calm'
<1> USE DEF Calm, Close, Begin
<1>1. Threads' /\ Places'
  BY DEF Threads, Place, Operation, Places, PciPlaces, RtnlPlaces, TaskPlaces
<1>2. Owners' /\ Held' /\ InMutex'
  BY DEF Owners, Threads, Held, Claimed, Frozen, InMutex, Places, PciPlaces, RtnlPlaces,
      TaskPlaces
<1>3. Flags'
  BY DEF Flags
<1>4. NoReset'
  <2>1. "tx hang" \notin may => resetting = None
    BY NotClaimed DEF Close, Begin, Held, Owners
  <2>2. warned' = (warned \/ resetting # None) /\ UNCHANGED <<may, queued>>
    BY DEF Close, Begin
  <2>3. pc'["reset_task"] = pc["reset_task"]
    BY DEF Close, Threads
  <2> QED
    BY <2>1, <2>2, <2>3 DEF NoReset, Stopped
<1>5. Interface'
  BY DEF Flags, Threads, Interface, Held, Claimed, Frozen, Places, PciPlaces, RtnlPlaces,
      TaskPlaces
<1>6. StopsInOrder'
  BY DEF Flags, Threads, StopsInOrder, Waiting, OneWaits, WindingDown, Winding, Stopped, Lefts,
      Held, Frozen, Places, PciPlaces, RtnlPlaces, TaskPlaces
<1>7. LeftAlone' /\ Dormant'
  BY DEF Flags, Threads, LeftAlone, Live, Inactive, Between, Silent, Stopped, Dormant,
      StopsInOrder, Waiting, OneWaits, WindingDown, Winding, Lefts, Held, Frozen, Interface,
      Executing, Places, PciPlaces, RtnlPlaces, TaskPlaces
<1>8. OnItsWay'
  BY DEF Flags, Threads, OnItsWay, Executing, LeftAlone, Live, Inactive, Between, Silent, Stopped,
      Dormant, StopsInOrder, Waiting, OneWaits, WindingDown, Winding, Lefts, Held, Frozen,
      Interface, Places, PciPlaces, RtnlPlaces, TaskPlaces
<1> QED
  BY <1>1, <1>2, <1>3, <1>4, <1>5, <1>6, <1>7, <1>8

(* A reconfiguration begins.                                                 *)
LEMMA ChangeCalm ==
  ASSUME Calm, Change
  PROVE  Calm'
<1> USE DEF Calm, Change, Begin
<1>1. Threads' /\ Places'
  BY DEF Threads, Place, Operation, Places, PciPlaces, RtnlPlaces, TaskPlaces
<1>2. Owners' /\ Held' /\ InMutex'
  BY DEF Owners, Threads, Held, Claimed, Frozen, InMutex, Places, PciPlaces, RtnlPlaces,
      TaskPlaces
<1>3. Flags'
  BY DEF Flags
<1>4. NoReset'
  BY DEF Flags, Threads, NoReset, Stopped, Executing, Held, Claimed, Places, PciPlaces,
      RtnlPlaces, TaskPlaces
<1>5. Interface'
  BY DEF Flags, Threads, Interface, Held, Claimed, Frozen, Places, PciPlaces, RtnlPlaces,
      TaskPlaces
<1>6. StopsInOrder'
  BY DEF Flags, Threads, StopsInOrder, Waiting, OneWaits, WindingDown, Winding, Stopped, Lefts,
      Held, Frozen, Places, PciPlaces, RtnlPlaces, TaskPlaces
<1>7. LeftAlone' /\ Dormant'
  BY DEF Flags, Threads, LeftAlone, Live, Inactive, Between, Silent, Stopped, Dormant,
      StopsInOrder, Waiting, OneWaits, WindingDown, Winding, Lefts, Held, Frozen, Interface,
      Executing, Places, PciPlaces, RtnlPlaces, TaskPlaces
<1>8. OnItsWay'
  BY DEF Flags, Threads, OnItsWay, Executing, LeftAlone, Live, Inactive, Between, Silent, Stopped,
      Dormant, StopsInOrder, Waiting, OneWaits, WindingDown, Winding, Lefts, Held, Frozen,
      Interface, Places, PciPlaces, RtnlPlaces, TaskPlaces
<1> QED
  BY <1>1, <1>2, <1>3, <1>4, <1>5, <1>6, <1>7, <1>8

(* The interface is registered, and may be opened from now on.               *)
LEMMA ProbeCalm ==
  ASSUME Calm, Probe
  PROVE  Calm'
<1> USE DEF Calm, Probe
<1>1. Threads' /\ Places'
  BY DEF Threads, Place, Operation, Places, PciPlaces, RtnlPlaces, TaskPlaces
<1>2. Owners' /\ Held' /\ InMutex'
  BY DEF Owners, Threads, Held, Claimed, Frozen, InMutex, Places, PciPlaces, RtnlPlaces,
      TaskPlaces
<1>3. Flags'
  BY DEF Flags
<1>4. NoReset'
  BY DEF Flags, Threads, NoReset, Stopped, Executing, Held, Claimed, Places, PciPlaces,
      RtnlPlaces, TaskPlaces
<1>5. Interface'
  BY DEF Flags, Threads, Interface, Held, Claimed, Frozen, Places, PciPlaces, RtnlPlaces,
      TaskPlaces
<1>6. StopsInOrder'
  BY DEF Flags, Threads, StopsInOrder, Waiting, OneWaits, WindingDown, Winding, Stopped, Lefts,
      Held, Frozen, Places, PciPlaces, RtnlPlaces, TaskPlaces
<1>7. LeftAlone' /\ Dormant'
  BY DEF Flags, Threads, LeftAlone, Live, Inactive, Between, Silent, Stopped, Dormant,
      StopsInOrder, Waiting, OneWaits, WindingDown, Winding, Lefts, Held, Frozen, Interface,
      Executing, Places, PciPlaces, RtnlPlaces, TaskPlaces
<1>8. OnItsWay'
  BY DEF Flags, Threads, OnItsWay, Executing, LeftAlone, Live, Inactive, Between, Silent, Stopped,
      Dormant, StopsInOrder, Waiting, OneWaits, WindingDown, Winding, Lefts, Held, Frozen,
      Interface, Places, PciPlaces, RtnlPlaces, TaskPlaces
<1> QED
  BY <1>1, <1>2, <1>3, <1>4, <1>5, <1>6, <1>7, <1>8

(* Removal begins with dsnap_cleanup.                                        *)
LEMMA DsnapCleanupCalm ==
  ASSUME Calm, DsnapCleanup
  PROVE  Calm'
<1> USE DEF Calm, DsnapCleanup
<1>1. Threads' /\ Places'
  BY DEF Threads, Place, Operation, Places, PciPlaces, RtnlPlaces, TaskPlaces
<1>2. Owners' /\ Held' /\ InMutex'
  BY DEF Owners, Threads, Held, Claimed, Frozen, InMutex, Places, PciPlaces, RtnlPlaces,
      TaskPlaces
<1>3. Flags'
  BY DEF Flags
<1>4. NoReset'
  BY DEF Flags, Threads, NoReset, Stopped, Executing, Held, Claimed, Places, PciPlaces,
      RtnlPlaces, TaskPlaces
<1>5. Interface'
  BY DEF Flags, Threads, Interface, Held, Claimed, Frozen, Places, PciPlaces, RtnlPlaces,
      TaskPlaces
<1>6. StopsInOrder'
  BY DEF Flags, Threads, StopsInOrder, Waiting, OneWaits, WindingDown, Winding, Stopped, Lefts,
      Held, Frozen, Places, PciPlaces, RtnlPlaces, TaskPlaces
<1>7. LeftAlone' /\ Dormant'
  BY DEF Flags, Threads, LeftAlone, Live, Inactive, Between, Silent, Stopped, Dormant,
      StopsInOrder, Waiting, OneWaits, WindingDown, Winding, Lefts, Held, Frozen, Interface,
      Executing, Places, PciPlaces, RtnlPlaces, TaskPlaces
<1>8. OnItsWay'
  BY DEF Flags, Threads, OnItsWay, Executing, LeftAlone, Live, Inactive, Between, Silent, Stopped,
      Dormant, StopsInOrder, Waiting, OneWaits, WindingDown, Winding, Lefts, Held, Frozen,
      Interface, Places, PciPlaces, RtnlPlaces, TaskPlaces
<1> QED
  BY <1>1, <1>2, <1>3, <1>4, <1>5, <1>6, <1>7, <1>8

(* Suspend begins, with user processes frozen.                               *)
LEMMA SuspendCalm ==
  ASSUME Calm, Suspend
  PROVE  Calm'
<1> USE DEF Calm, Suspend
<1>1. Threads' /\ Places'
  BY DEF Threads, Place, Operation, Places, PciPlaces, RtnlPlaces, TaskPlaces
<1>2. Owners' /\ Held' /\ InMutex'
  BY DEF Owners, Threads, Held, Claimed, Frozen, InMutex, Places, PciPlaces, RtnlPlaces,
      TaskPlaces
<1>3. Flags'
  BY DEF Flags
<1>4. NoReset'
  <2>1. "tx hang" \notin may => resetting = None
    BY NotClaimed DEF Suspend
  <2>2. warned' = (warned \/ (running /\ resetting # None)) /\ UNCHANGED <<may, queued>>
    BY DEF Suspend
  <2>3. pc'["reset_task"] = pc["reset_task"]
    BY DEF Suspend, Threads
  <2> QED
    BY <2>1, <2>2, <2>3 DEF NoReset, Stopped
<1>5. Interface'
  BY DEF Flags, Threads, Interface, Held, Claimed, Frozen, Places, PciPlaces, RtnlPlaces,
      TaskPlaces
<1>6. StopsInOrder'
  BY DEF Flags, Threads, StopsInOrder, Waiting, OneWaits, WindingDown, Winding, Stopped, Lefts,
      Held, Frozen, Places, PciPlaces, RtnlPlaces, TaskPlaces
<1>7. LeftAlone' /\ Dormant'
  BY DEF Flags, Threads, LeftAlone, Live, Inactive, Between, Silent, Stopped, Dormant,
      StopsInOrder, Waiting, OneWaits, WindingDown, Winding, Lefts, Held, Frozen, Interface,
      Executing, Places, PciPlaces, RtnlPlaces, TaskPlaces
<1>8. OnItsWay'
  BY DEF Flags, Threads, OnItsWay, Executing, LeftAlone, Live, Inactive, Between, Silent, Stopped,
      Dormant, StopsInOrder, Waiting, OneWaits, WindingDown, Winding, Lefts, Held, Frozen,
      Interface, Places, PciPlaces, RtnlPlaces, TaskPlaces
<1> QED
  BY <1>1, <1>2, <1>3, <1>4, <1>5, <1>6, <1>7, <1>8

(* A link change is latched.                                                 *)
LEMMA LinkChangeCalm ==
  ASSUME Calm, LinkChange
  PROVE  Calm'
<1> USE DEF Calm, LinkChange
<1>1. Threads' /\ Places'
  BY DEF Threads, Place, Operation, Places, PciPlaces, RtnlPlaces, TaskPlaces
<1>2. Owners' /\ Held' /\ InMutex'
  BY DEF Owners, Threads, Held, Claimed, Frozen, InMutex, Places, PciPlaces, RtnlPlaces,
      TaskPlaces
<1>3. Flags'
  BY DEF Flags
<1>4. NoReset'
  BY DEF Flags, Threads, NoReset, Stopped, Executing, Held, Claimed, Places, PciPlaces,
      RtnlPlaces, TaskPlaces
<1>5. Interface'
  BY DEF Flags, Threads, Interface, Held, Claimed, Frozen, Places, PciPlaces, RtnlPlaces,
      TaskPlaces
<1>6. StopsInOrder'
  BY DEF Flags, Threads, StopsInOrder, Waiting, OneWaits, WindingDown, Winding, Stopped, Lefts,
      Held, Frozen, Places, PciPlaces, RtnlPlaces, TaskPlaces
<1>7. LeftAlone' /\ Dormant'
  BY DEF Flags, Threads, LeftAlone, Live, Inactive, Between, Silent, Stopped, Dormant,
      StopsInOrder, Waiting, OneWaits, WindingDown, Winding, Lefts, Held, Frozen, Interface,
      Executing, Places, PciPlaces, RtnlPlaces, TaskPlaces
<1>8. OnItsWay'
  BY DEF Flags, Threads, OnItsWay, Executing, LeftAlone, Live, Inactive, Between, Silent, Stopped,
      Dormant, StopsInOrder, Waiting, OneWaits, WindingDown, Winding, Lefts, Held, Frozen,
      Interface, Places, PciPlaces, RtnlPlaces, TaskPlaces
<1> QED
  BY <1>1, <1>2, <1>3, <1>4, <1>5, <1>6, <1>7, <1>8

(* The handler consumes the link change: it queues the watchdog, unless      *)
(* DOWN.                                                                     *)
LEMMA InterruptCalm ==
  ASSUME Calm, Interrupt
  PROVE  Calm'
<1> USE DEF Calm, Interrupt
<1>1. Threads' /\ Places'
  BY DEF Threads, Place, Operation, Places, PciPlaces, RtnlPlaces, TaskPlaces
<1>2. Owners' /\ Held' /\ InMutex'
  BY DEF Owners, Threads, Held, Claimed, Frozen, InMutex, Places, PciPlaces, RtnlPlaces,
      TaskPlaces
<1>3. Flags'
  BY DEF Flags
<1>4. NoReset'
  BY DEF Flags, Threads, NoReset, Stopped, Executing, Held, Claimed, Places, PciPlaces,
      RtnlPlaces, TaskPlaces
<1>5. Interface'
  BY DEF Flags, Threads, Interface, Held, Claimed, Frozen, Places, PciPlaces, RtnlPlaces,
      TaskPlaces
<1>6. StopsInOrder'
  BY DEF Flags, Threads, StopsInOrder, Waiting, OneWaits, WindingDown, Winding, Stopped, Lefts,
      Held, Frozen, Places, PciPlaces, RtnlPlaces, TaskPlaces
<1>7. LeftAlone' /\ Dormant'
  BY DEF Flags, Threads, LeftAlone, Live, Inactive, Between, Silent, Stopped, Dormant,
      StopsInOrder, Waiting, OneWaits, WindingDown, Winding, Lefts, Held, Frozen, Interface,
      Executing, Places, PciPlaces, RtnlPlaces, TaskPlaces
<1>8. OnItsWay'
  BY DEF Flags, Threads, OnItsWay, Executing, LeftAlone, Live, Inactive, Between, Silent, Stopped,
      Dormant, StopsInOrder, Waiting, OneWaits, WindingDown, Winding, Lefts, Held, Frozen,
      Interface, Places, PciPlaces, RtnlPlaces, TaskPlaces
<1> QED
  BY <1>1, <1>2, <1>3, <1>4, <1>5, <1>6, <1>7, <1>8

(* The handler queues the watchdog, unless that is being cancelled.          *)
LEMMA IrqScheduleCalm ==
  ASSUME Calm, IrqSchedule
  PROVE  Calm'
<1> USE DEF Calm, IrqSchedule
<1>1. Threads' /\ Places'
  BY DEF Threads, Place, Operation, Places, PciPlaces, RtnlPlaces, TaskPlaces
<1>2. Owners' /\ Held' /\ InMutex'
  BY DEF Owners, Threads, Held, Claimed, Frozen, InMutex, Places, PciPlaces, RtnlPlaces,
      TaskPlaces
<1>3. Flags'
  BY DEF Flags, Schedule
<1>4. NoReset'
  BY DEF Flags, Threads, NoReset, Stopped, Executing, Held, Claimed, Places, PciPlaces,
      RtnlPlaces, TaskPlaces, Schedule
<1>5. Interface'
  BY DEF Flags, Threads, Interface, Held, Claimed, Frozen, Places, PciPlaces, RtnlPlaces,
      TaskPlaces, Schedule
<1>6. StopsInOrder'
  BY DEF Flags, Threads, StopsInOrder, Waiting, OneWaits, WindingDown, Winding, Stopped, Lefts,
      Held, Frozen, Places, PciPlaces, RtnlPlaces, TaskPlaces, Schedule
<1>7. LeftAlone' /\ Dormant'
  BY DEF Flags, Threads, LeftAlone, Live, Inactive, Between, Silent, Stopped, Dormant,
      StopsInOrder, Waiting, OneWaits, WindingDown, Winding, Lefts, Held, Frozen, Interface,
      Executing, Places, PciPlaces, RtnlPlaces, TaskPlaces, Schedule
<1>8. OnItsWay'
  BY DEF Flags, Threads, OnItsWay, Executing, LeftAlone, Live, Inactive, Between, Silent, Stopped,
      Dormant, StopsInOrder, Waiting, OneWaits, WindingDown, Winding, Lefts, Held, Frozen,
      Interface, Places, PciPlaces, RtnlPlaces, TaskPlaces, Schedule
<1> QED
  BY <1>1, <1>2, <1>3, <1>4, <1>5, <1>6, <1>7, <1>8

(* The stack asks for a reset of an interface that runs.                     *)
LEMMA TxTimeoutCalm ==
  ASSUME Calm, TxTimeout
  PROVE  Calm'
<1>0. "tx hang" \in may
  BY DEF TxTimeout
<1> USE DEF Calm
<1>1. /\ running /\ present
      /\ queued' = queued \cup ({"reset_task"} \ cancelling)
      /\ UNCHANGED <<may, netdev, running, present, rings, dsnap, carrier, irqReq, irqOn,
         lsc, irqPc, down, resetting, mutex, rtnl, cancelling, op, left, warned,
         fault>>
      /\ UNCHANGED pc
  BY DEF TxTimeout, Schedule
<1>2. Threads' /\ Places'
  BY <1>1 DEF Threads, Place, Operation, Places, PciPlaces, RtnlPlaces, TaskPlaces
<1>3. Owners' /\ Held' /\ InMutex'
  BY <1>1 DEF Owners, Threads, Held, Claimed, Frozen, InMutex, Places, PciPlaces, RtnlPlaces,
      TaskPlaces
<1>4. Flags'
  BY <1>1 DEF Flags
<1>5. NoReset'
  BY <1>0, <1>1 DEF Flags, Threads, NoReset, Stopped, Executing, Held, Claimed, Places, PciPlaces,
      RtnlPlaces, TaskPlaces
<1>6. Interface'
  BY <1>1 DEF Flags, Threads, Interface, Held, Claimed, Frozen, Places, PciPlaces, RtnlPlaces,
      TaskPlaces
<1>7. StopsInOrder'
  BY <1>1 DEF Flags, Threads, StopsInOrder, Waiting, OneWaits, WindingDown, Winding, Stopped,
      Lefts, Held, Frozen, Places, PciPlaces, RtnlPlaces, TaskPlaces
<1>8. LeftAlone' /\ Dormant'
  BY <1>1 DEF Flags, Threads, LeftAlone, Live, Inactive, Between, Silent, Stopped, Dormant,
      StopsInOrder, Waiting, OneWaits, WindingDown, Winding, Lefts, Held, Frozen, Interface,
      Executing, Places, PciPlaces, RtnlPlaces, TaskPlaces
<1>9. OnItsWay'
  BY <1>1 DEF Flags, Threads, OnItsWay, Executing, LeftAlone, Live, Inactive, Between, Silent,
      Stopped, Dormant, StopsInOrder, Waiting, OneWaits, WindingDown, Winding, Lefts, Held,
      Frozen, Interface, Places, PciPlaces, RtnlPlaces, TaskPlaces
<1> QED
  BY <1>2, <1>3, <1>4, <1>5, <1>6, <1>7, <1>8, <1>9

(* A frame that is sent needs interrupts on.                                 *)
LEMMA XmitStallCalm ==
  ASSUME Calm, XmitStall
  PROVE  Calm'
<1> USE DEF Calm
<1>1. /\ irqOn
      /\ queued' = queued \cup ({"fifo_stall"} \ cancelling)
      /\ UNCHANGED <<may, netdev, running, present, rings, dsnap, carrier, irqReq, irqOn,
         lsc, irqPc, down, resetting, mutex, rtnl, cancelling, op, left, warned,
         fault>>
      /\ UNCHANGED pc
  BY DEF XmitStall, Schedule
<1>2. Threads' /\ Places'
  BY <1>1 DEF Threads, Place, Operation, Places, PciPlaces, RtnlPlaces, TaskPlaces
<1>3. Owners' /\ Held' /\ InMutex'
  BY <1>1 DEF Owners, Threads, Held, Claimed, Frozen, InMutex, Places, PciPlaces, RtnlPlaces,
      TaskPlaces
<1>4. Flags'
  BY <1>1 DEF Flags
<1>5. NoReset'
  BY <1>1 DEF Flags, Threads, NoReset, Stopped, Executing, Held, Claimed, Places, PciPlaces,
      RtnlPlaces, TaskPlaces
<1>6. Interface'
  BY <1>1 DEF Flags, Threads, Interface, Held, Claimed, Frozen, Places, PciPlaces, RtnlPlaces,
      TaskPlaces
<1>7. StopsInOrder'
  BY <1>1 DEF Flags, Threads, StopsInOrder, Waiting, OneWaits, WindingDown, Winding, Stopped,
      Lefts, Held, Frozen, Places, PciPlaces, RtnlPlaces, TaskPlaces
<1>8. LeftAlone' /\ Dormant'
  BY <1>1 DEF Flags, Threads, LeftAlone, Live, Inactive, Between, Silent, Stopped, Dormant,
      StopsInOrder, Waiting, OneWaits, WindingDown, Winding, Lefts, Held, Frozen, Interface,
      Executing, Places, PciPlaces, RtnlPlaces, TaskPlaces
<1>9. OnItsWay'
  BY <1>1 DEF Flags, Threads, OnItsWay, Executing, LeftAlone, Live, Inactive, Between, Silent,
      Stopped, Dormant, StopsInOrder, Waiting, OneWaits, WindingDown, Winding, Lefts, Held,
      Frozen, Interface, Places, PciPlaces, RtnlPlaces, TaskPlaces
<1> QED
  BY <1>2, <1>3, <1>4, <1>5, <1>6, <1>7, <1>8, <1>9

(* The PHY has been read.                                                    *)
LEMMA PhyInfoCalm ==
  ASSUME Calm, PhyInfo
  PROVE  Calm'
<1> USE DEF Calm, PhyInfo
<1>1. Threads' /\ Places'
  BY DEF Threads, Place, Operation, Places, PciPlaces, RtnlPlaces, TaskPlaces
<1>2. Owners' /\ Held' /\ InMutex'
  BY DEF Owners, Threads, Held, Claimed, Frozen, InMutex, Places, PciPlaces, RtnlPlaces,
      TaskPlaces
<1>3. Flags'
  BY DEF Flags
<1>4. NoReset'
  BY DEF Flags, Threads, NoReset, Stopped, Executing, Held, Claimed, Places, PciPlaces,
      RtnlPlaces, TaskPlaces
<1>5. Interface'
  BY DEF Flags, Threads, Interface, Held, Claimed, Frozen, Places, PciPlaces, RtnlPlaces,
      TaskPlaces
<1>6. StopsInOrder'
  BY DEF Flags, Threads, StopsInOrder, Waiting, OneWaits, WindingDown, Winding, Stopped, Lefts,
      Held, Frozen, Places, PciPlaces, RtnlPlaces, TaskPlaces
<1>7. LeftAlone' /\ Dormant'
  BY DEF Flags, Threads, LeftAlone, Live, Inactive, Between, Silent, Stopped, Dormant,
      StopsInOrder, Waiting, OneWaits, WindingDown, Winding, Lefts, Held, Frozen, Interface,
      Executing, Places, PciPlaces, RtnlPlaces, TaskPlaces
<1>8. OnItsWay'
  BY DEF Flags, Threads, OnItsWay, Executing, LeftAlone, Live, Inactive, Between, Silent, Stopped,
      Dormant, StopsInOrder, Waiting, OneWaits, WindingDown, Winding, Lefts, Held, Frozen,
      Interface, Places, PciPlaces, RtnlPlaces, TaskPlaces
<1> QED
  BY <1>1, <1>2, <1>3, <1>4, <1>5, <1>6, <1>7, <1>8

(* The FIFO task ends or comes back.                                         *)
LEMMA FifoStallCalm ==
  ASSUME Calm, FifoStall
  PROVE  Calm'
<1> USE DEF Calm, FifoStall
<1>1. Threads' /\ Places'
  BY DEF Threads, Place, Operation, Places, PciPlaces, RtnlPlaces, TaskPlaces
<1>2. Owners' /\ Held' /\ InMutex'
  BY DEF Owners, Threads, Held, Claimed, Frozen, InMutex, Places, PciPlaces, RtnlPlaces,
      TaskPlaces
<1>3. Flags'
  BY DEF Flags
<1>4. NoReset'
  BY DEF Flags, Threads, NoReset, Stopped, Executing, Held, Claimed, Places, PciPlaces,
      RtnlPlaces, TaskPlaces
<1>5. Interface'
  BY DEF Flags, Threads, Interface, Held, Claimed, Frozen, Places, PciPlaces, RtnlPlaces,
      TaskPlaces
<1>6. StopsInOrder'
  BY DEF Flags, Threads, StopsInOrder, Waiting, OneWaits, WindingDown, Winding, Stopped, Lefts,
      Held, Frozen, Places, PciPlaces, RtnlPlaces, TaskPlaces
<1>7. LeftAlone' /\ Dormant'
  BY DEF Flags, Threads, LeftAlone, Live, Inactive, Between, Silent, Stopped, Dormant,
      StopsInOrder, Waiting, OneWaits, WindingDown, Winding, Lefts, Held, Frozen, Interface,
      Executing, Places, PciPlaces, RtnlPlaces, TaskPlaces
<1>8. OnItsWay'
  BY DEF Flags, Threads, OnItsWay, Executing, LeftAlone, Live, Inactive, Between, Silent, Stopped,
      Dormant, StopsInOrder, Waiting, OneWaits, WindingDown, Winding, Lefts, Held, Frozen,
      Interface, Places, PciPlaces, RtnlPlaces, TaskPlaces
<1> QED
  BY <1>1, <1>2, <1>3, <1>4, <1>5, <1>6, <1>7, <1>8

(* The snapshot is taken, or not.                                            *)
LEMMA SnapCalm ==
  ASSUME Calm, Snap
  PROVE  Calm'
<1> USE DEF Calm
<1>1. PICK where \in {"link", "oops"} :
           /\ Go("watchdog", where) /\ pc["watchdog"] = "snap"
           /\ UNCHANGED <<may, netdev, running, present, rings, dsnap, carrier, irqReq, irqOn,
              lsc, irqPc, down, resetting, mutex, rtnl, queued, cancelling, op,
              left, warned>>
  BY DEF Snap
<1>2. Threads' /\ Places'
  BY <1>1 DEF Threads, Place, Operation, Places, PciPlaces, RtnlPlaces, TaskPlaces
<1>3. Owners' /\ Held' /\ InMutex'
  BY <1>1 DEF Owners, Threads, Held, Claimed, Frozen, InMutex, Places, PciPlaces, RtnlPlaces,
      TaskPlaces
<1>4. Flags'
  BY <1>1 DEF Flags
<1>5. NoReset'
  BY <1>1 DEF Flags, Threads, NoReset, Stopped, Executing, Held, Claimed, Places, PciPlaces,
      RtnlPlaces, TaskPlaces
<1>6. Interface'
  BY <1>1 DEF Flags, Threads, Interface, Held, Claimed, Frozen, Places, PciPlaces, RtnlPlaces,
      TaskPlaces
<1>7. StopsInOrder'
  BY <1>1 DEF Flags, Threads, StopsInOrder, Waiting, OneWaits, WindingDown, Winding, Stopped,
      Lefts, Held, Frozen, Places, PciPlaces, RtnlPlaces, TaskPlaces
<1>8. LeftAlone' /\ Dormant'
  BY <1>1 DEF Flags, Threads, LeftAlone, Live, Inactive, Between, Silent, Stopped, Dormant,
      StopsInOrder, Waiting, OneWaits, WindingDown, Winding, Lefts, Held, Frozen, Interface,
      Executing, Places, PciPlaces, RtnlPlaces, TaskPlaces
<1>9. OnItsWay'
  BY <1>1 DEF Flags, Threads, OnItsWay, Executing, LeftAlone, Live, Inactive, Between, Silent,
      Stopped, Dormant, StopsInOrder, Waiting, OneWaits, WindingDown, Winding, Lefts, Held,
      Frozen, Interface, Places, PciPlaces, RtnlPlaces, TaskPlaces
<1> QED
  BY <1>2, <1>3, <1>4, <1>5, <1>6, <1>7, <1>8, <1>9

(* The watchdog has looked at the link.                                      *)
LEMMA LinkCalm ==
  ASSUME Calm, Link
  PROVE  Calm'
<1> USE DEF Calm, Link
<1>1. Threads' /\ Places'
  BY DEF Threads, Place, Operation, Places, PciPlaces, RtnlPlaces, TaskPlaces
<1>2. Owners' /\ Held' /\ InMutex'
  BY DEF Owners, Threads, Held, Claimed, Frozen, InMutex, Places, PciPlaces, RtnlPlaces,
      TaskPlaces
<1>3. Flags'
  BY DEF Flags
<1>4. NoReset'
  BY DEF Flags, Threads, NoReset, Stopped, Executing, Held, Claimed, Places, PciPlaces,
      RtnlPlaces, TaskPlaces
<1>5. Interface'
  BY DEF Flags, Threads, Interface, Held, Claimed, Frozen, Places, PciPlaces, RtnlPlaces,
      TaskPlaces
<1>6. StopsInOrder'
  BY DEF Flags, Threads, StopsInOrder, Waiting, OneWaits, WindingDown, Winding, Stopped, Lefts,
      Held, Frozen, Places, PciPlaces, RtnlPlaces, TaskPlaces
<1>7. LeftAlone' /\ Dormant'
  BY DEF Flags, Threads, LeftAlone, Live, Inactive, Between, Silent, Stopped, Dormant,
      StopsInOrder, Waiting, OneWaits, WindingDown, Winding, Lefts, Held, Frozen, Interface,
      Executing, Places, PciPlaces, RtnlPlaces, TaskPlaces
<1>8. OnItsWay'
  BY DEF Flags, Threads, OnItsWay, Executing, LeftAlone, Live, Inactive, Between, Silent, Stopped,
      Dormant, StopsInOrder, Waiting, OneWaits, WindingDown, Winding, Lefts, Held, Frozen,
      Interface, Places, PciPlaces, RtnlPlaces, TaskPlaces
<1> QED
  BY <1>1, <1>2, <1>3, <1>4, <1>5, <1>6, <1>7, <1>8

(* The watchdog wants the PHY read; e1000_down waits for the watchdog        *)
(* first.                                                                    *)
LEMMA SchedulePhyInfoCalm ==
  ASSUME Calm, SchedulePhyInfo
  PROVE  Calm'
<1> USE DEF Calm, SchedulePhyInfo
<1>1. Threads' /\ Places'
  BY DEF Threads, Place, Operation, Places, PciPlaces, RtnlPlaces, TaskPlaces
<1>2. Owners' /\ Held' /\ InMutex'
  BY DEF Owners, Threads, Held, Claimed, Frozen, InMutex, Places, PciPlaces, RtnlPlaces,
      TaskPlaces
<1>3. Flags'
  BY DEF Flags, Schedule
<1>4. NoReset'
  BY DEF Flags, Threads, NoReset, Stopped, Executing, Held, Claimed, Places, PciPlaces,
      RtnlPlaces, TaskPlaces, Schedule
<1>5. Interface'
  BY DEF Flags, Threads, Interface, Held, Claimed, Frozen, Places, PciPlaces, RtnlPlaces,
      TaskPlaces, Schedule
<1>6. StopsInOrder'
  BY DEF Flags, Threads, StopsInOrder, Waiting, OneWaits, WindingDown, Winding, Stopped, Lefts,
      Held, Frozen, Places, PciPlaces, RtnlPlaces, TaskPlaces, Schedule
<1>7. LeftAlone' /\ Dormant'
  BY DEF Flags, Threads, LeftAlone, Live, Inactive, Between, Silent, Stopped, Dormant,
      StopsInOrder, Waiting, OneWaits, WindingDown, Winding, Lefts, Held, Frozen, Interface,
      Executing, Places, PciPlaces, RtnlPlaces, TaskPlaces, Schedule
<1>8. OnItsWay'
  BY DEF Flags, Threads, OnItsWay, Executing, LeftAlone, Live, Inactive, Between, Silent, Stopped,
      Dormant, StopsInOrder, Waiting, OneWaits, WindingDown, Winding, Lefts, Held, Frozen,
      Interface, Places, PciPlaces, RtnlPlaces, TaskPlaces, Schedule
<1> QED
  BY <1>1, <1>2, <1>3, <1>4, <1>5, <1>6, <1>7, <1>8

(* The watchdog leaves the interface to the reset task.                      *)
LEMMA AskForResetCalm ==
  ASSUME Calm, AskForReset
  PROVE  Calm'
<1>0. "tx hang" \in may
  BY DEF AskForReset
<1> USE DEF Calm
<1>1. /\ pc["watchdog"] = "stats" /\ Go("watchdog", "unlock")
      /\ queued' = queued \cup ({"reset_task"} \ cancelling)
      /\ UNCHANGED <<may, netdev, running, present, rings, dsnap, carrier, irqReq, irqOn,
         lsc, irqPc, down, resetting, mutex, rtnl, cancelling, op, left, warned,
         fault>>
  BY DEF AskForReset, Schedule
<1>2. Threads' /\ Places'
  BY <1>1 DEF Threads, Place, Operation, Places, PciPlaces, RtnlPlaces, TaskPlaces
<1>3. Owners' /\ Held' /\ InMutex'
  BY <1>1 DEF Owners, Threads, Held, Claimed, Frozen, InMutex, Places, PciPlaces, RtnlPlaces,
      TaskPlaces
<1>4. Flags'
  BY <1>1 DEF Flags
<1>5. NoReset'
  BY <1>0, <1>1 DEF Flags, Threads, NoReset, Stopped, Executing, Held, Claimed, Places, PciPlaces,
      RtnlPlaces, TaskPlaces
<1>6. Interface'
  BY <1>1 DEF Flags, Threads, Interface, Held, Claimed, Frozen, Places, PciPlaces, RtnlPlaces,
      TaskPlaces
<1>7. StopsInOrder'
  BY <1>1 DEF Flags, Threads, StopsInOrder, Waiting, OneWaits, WindingDown, Winding, Stopped,
      Lefts, Held, Frozen, Places, PciPlaces, RtnlPlaces, TaskPlaces
<1>8. LeftAlone' /\ Dormant'
  BY <1>1 DEF Flags, Threads, LeftAlone, Live, Inactive, Between, Silent, Stopped, Dormant,
      StopsInOrder, Waiting, OneWaits, WindingDown, Winding, Lefts, Held, Frozen, Interface,
      Executing, Places, PciPlaces, RtnlPlaces, TaskPlaces
<1>9. OnItsWay'
  BY <1>1 DEF Flags, Threads, OnItsWay, Executing, LeftAlone, Live, Inactive, Between, Silent,
      Stopped, Dormant, StopsInOrder, Waiting, OneWaits, WindingDown, Winding, Lefts, Held,
      Frozen, Interface, Places, PciPlaces, RtnlPlaces, TaskPlaces
<1> QED
  BY <1>2, <1>3, <1>4, <1>5, <1>6, <1>7, <1>8, <1>9

(* The watchdog goes on to come back, or has seen DOWN.                      *)
LEMMA StatsCalm ==
  ASSUME Calm, Stats
  PROVE  Calm'
<1> USE DEF Calm, Stats
<1>1. Threads' /\ Places'
  BY DEF Threads, Place, Operation, Places, PciPlaces, RtnlPlaces, TaskPlaces
<1>2. Owners' /\ Held' /\ InMutex'
  BY DEF Owners, Threads, Held, Claimed, Frozen, InMutex, Places, PciPlaces, RtnlPlaces,
      TaskPlaces
<1>3. Flags'
  BY DEF Flags
<1>4. NoReset'
  BY DEF Flags, Threads, NoReset, Stopped, Executing, Held, Claimed, Places, PciPlaces,
      RtnlPlaces, TaskPlaces
<1>5. Interface'
  BY DEF Flags, Threads, Interface, Held, Claimed, Frozen, Places, PciPlaces, RtnlPlaces,
      TaskPlaces
<1>6. StopsInOrder'
  BY DEF Flags, Threads, StopsInOrder, Waiting, OneWaits, WindingDown, Winding, Stopped, Lefts,
      Held, Frozen, Places, PciPlaces, RtnlPlaces, TaskPlaces
<1>7. LeftAlone' /\ Dormant'
  BY DEF Flags, Threads, LeftAlone, Live, Inactive, Between, Silent, Stopped, Dormant,
      StopsInOrder, Waiting, OneWaits, WindingDown, Winding, Lefts, Held, Frozen, Interface,
      Executing, Places, PciPlaces, RtnlPlaces, TaskPlaces
<1>8. OnItsWay'
  BY DEF Flags, Threads, OnItsWay, Executing, LeftAlone, Live, Inactive, Between, Silent, Stopped,
      Dormant, StopsInOrder, Waiting, OneWaits, WindingDown, Winding, Lefts, Held, Frozen,
      Interface, Places, PciPlaces, RtnlPlaces, TaskPlaces
<1> QED
  BY <1>1, <1>2, <1>3, <1>4, <1>5, <1>6, <1>7, <1>8

(* A work item begins.                                                       *)
LEMMA StartCalm ==
  ASSUME Calm, NEW w \in Task, Start(w)
  PROVE  Calm'
<1> USE DEF Calm, Start
<1>1. Threads' /\ Places'
  BY DEF Threads, Place, Operation, Places, PciPlaces, RtnlPlaces, TaskPlaces
<1>2. Owners' /\ Held' /\ InMutex'
  BY DEF Owners, Threads, Held, Claimed, Frozen, InMutex, Places, PciPlaces, RtnlPlaces,
      TaskPlaces
<1>3. Flags'
  BY DEF Flags
<1>4. NoReset'
  BY DEF Flags, Threads, NoReset, Stopped, Executing, Held, Claimed, Places, PciPlaces,
      RtnlPlaces, TaskPlaces
<1>5. Interface'
  BY DEF Flags, Threads, Interface, Held, Claimed, Frozen, Places, PciPlaces, RtnlPlaces,
      TaskPlaces
<1>6. StopsInOrder'
  BY DEF Flags, Threads, StopsInOrder, Waiting, OneWaits, WindingDown, Winding, Stopped, Lefts,
      Held, Frozen, Places, PciPlaces, RtnlPlaces, TaskPlaces
<1>7. LeftAlone' /\ Dormant'
  BY DEF Flags, Threads, LeftAlone, Live, Inactive, Between, Silent, Stopped, Dormant,
      StopsInOrder, Waiting, OneWaits, WindingDown, Winding, Lefts, Held, Frozen, Interface,
      Executing, Places, PciPlaces, RtnlPlaces, TaskPlaces
<1>8. OnItsWay'
  BY DEF Flags, Threads, OnItsWay, Executing, LeftAlone, Live, Inactive, Between, Silent, Stopped,
      Dormant, StopsInOrder, Waiting, OneWaits, WindingDown, Winding, Lefts, Held, Frozen,
      Interface, Places, PciPlaces, RtnlPlaces, TaskPlaces
<1> QED
  BY <1>1, <1>2, <1>3, <1>4, <1>5, <1>6, <1>7, <1>8

(* Only without DOWN does a work item go on.                                 *)
LEMMA TestCalm ==
  ASSUME Calm, NEW w \in Task, Test(w)
  PROVE  Calm'
<1> USE DEF Calm, Test
<1>1. Threads' /\ Places'
  BY DEF Threads, Place, Operation, Places, PciPlaces, RtnlPlaces, TaskPlaces
<1>2. Owners' /\ Held' /\ InMutex'
  BY DEF Owners, Threads, Held, Claimed, Frozen, InMutex, Places, PciPlaces, RtnlPlaces,
      TaskPlaces
<1>3. Flags'
  BY DEF Flags
<1>4. NoReset'
  BY DEF Flags, Threads, NoReset, Stopped, Executing, Held, Claimed, Places, PciPlaces,
      RtnlPlaces, TaskPlaces
<1>5. Interface'
  BY DEF Flags, Threads, Interface, Held, Claimed, Frozen, Places, PciPlaces, RtnlPlaces,
      TaskPlaces
<1>6. StopsInOrder'
  BY DEF Flags, Threads, StopsInOrder, Waiting, OneWaits, WindingDown, Winding, Stopped, Lefts,
      Held, Frozen, Places, PciPlaces, RtnlPlaces, TaskPlaces
<1>7. LeftAlone' /\ Dormant'
  BY DEF Flags, Threads, LeftAlone, Live, Inactive, Between, Silent, Stopped, Dormant,
      StopsInOrder, Waiting, OneWaits, WindingDown, Winding, Lefts, Held, Frozen, Interface,
      Executing, Places, PciPlaces, RtnlPlaces, TaskPlaces
<1>8. OnItsWay'
  BY DEF Flags, Threads, OnItsWay, Executing, LeftAlone, Live, Inactive, Between, Silent, Stopped,
      Dormant, StopsInOrder, Waiting, OneWaits, WindingDown, Winding, Lefts, Held, Frozen,
      Interface, Places, PciPlaces, RtnlPlaces, TaskPlaces
<1> QED
  BY <1>1, <1>2, <1>3, <1>4, <1>5, <1>6, <1>7, <1>8

(* A work item takes the mutex.                                              *)
LEMMA LockCalm ==
  ASSUME Calm, NEW w \in Task, Lock(w)
  PROVE  Calm'
<1> USE DEF Calm, Lock
<1>1. Threads' /\ Places'
  BY DEF Threads, Place, Operation, Places, PciPlaces, RtnlPlaces, TaskPlaces
<1>2. Owners' /\ Held' /\ InMutex'
  BY DEF Owners, Threads, Held, Claimed, Frozen, InMutex, Places, PciPlaces, RtnlPlaces,
      TaskPlaces
<1>3. Flags'
  BY DEF Flags
<1>4. NoReset'
  BY DEF Flags, Threads, NoReset, Stopped, Executing, Held, Claimed, Places, PciPlaces,
      RtnlPlaces, TaskPlaces
<1>5. Interface'
  BY DEF Flags, Threads, Interface, Held, Claimed, Frozen, Places, PciPlaces, RtnlPlaces,
      TaskPlaces
<1>6. StopsInOrder'
  BY DEF Flags, Threads, StopsInOrder, Waiting, OneWaits, WindingDown, Winding, Stopped, Lefts,
      Held, Frozen, Places, PciPlaces, RtnlPlaces, TaskPlaces
<1>7. LeftAlone' /\ Dormant'
  BY DEF Flags, Threads, LeftAlone, Live, Inactive, Between, Silent, Stopped, Dormant,
      StopsInOrder, Waiting, OneWaits, WindingDown, Winding, Lefts, Held, Frozen, Interface,
      Executing, Places, PciPlaces, RtnlPlaces, TaskPlaces
<1>8. OnItsWay'
  BY DEF Flags, Threads, OnItsWay, Executing, LeftAlone, Live, Inactive, Between, Silent, Stopped,
      Dormant, StopsInOrder, Waiting, OneWaits, WindingDown, Winding, Lefts, Held, Frozen,
      Interface, Places, PciPlaces, RtnlPlaces, TaskPlaces
<1> QED
  BY <1>1, <1>2, <1>3, <1>4, <1>5, <1>6, <1>7, <1>8

(* A work item ends.                                                         *)
LEMMA UnlockCalm ==
  ASSUME Calm, NEW w \in Task, Unlock(w)
  PROVE  Calm'
<1> USE DEF Calm, Unlock
<1>1. Threads' /\ Places'
  BY DEF Threads, Place, Operation, Places, PciPlaces, RtnlPlaces, TaskPlaces
<1>2. Owners' /\ Held' /\ InMutex'
  BY DEF Owners, Threads, Held, Claimed, Frozen, InMutex, Places, PciPlaces, RtnlPlaces,
      TaskPlaces
<1>3. Flags'
  BY DEF Flags
<1>4. NoReset'
  BY DEF Flags, Threads, NoReset, Stopped, Executing, Held, Claimed, Places, PciPlaces,
      RtnlPlaces, TaskPlaces
<1>5. Interface'
  BY DEF Flags, Threads, Interface, Held, Claimed, Frozen, Places, PciPlaces, RtnlPlaces,
      TaskPlaces
<1>6. StopsInOrder'
  BY DEF Flags, Threads, StopsInOrder, Waiting, OneWaits, WindingDown, Winding, Stopped, Lefts,
      Held, Frozen, Places, PciPlaces, RtnlPlaces, TaskPlaces
<1>7. LeftAlone' /\ Dormant'
  BY DEF Flags, Threads, LeftAlone, Live, Inactive, Between, Silent, Stopped, Dormant,
      StopsInOrder, Waiting, OneWaits, WindingDown, Winding, Lefts, Held, Frozen, Interface,
      Executing, Places, PciPlaces, RtnlPlaces, TaskPlaces
<1>8. OnItsWay'
  BY DEF Flags, Threads, OnItsWay, Executing, LeftAlone, Live, Inactive, Between, Silent, Stopped,
      Dormant, StopsInOrder, Waiting, OneWaits, WindingDown, Winding, Lefts, Held, Frozen,
      Interface, Places, PciPlaces, RtnlPlaces, TaskPlaces
<1> QED
  BY <1>1, <1>2, <1>3, <1>4, <1>5, <1>6, <1>7, <1>8

(* A work item queues itself again, unless it is being cancelled.            *)
LEMMA ReschedCalm ==
  ASSUME Calm, NEW w \in Task, Resched(w)
  PROVE  Calm'
<1> USE DEF Calm, Resched
<1>1. Threads' /\ Places'
  BY DEF Threads, Place, Operation, Places, PciPlaces, RtnlPlaces, TaskPlaces
<1>2. Owners' /\ Held' /\ InMutex'
  BY DEF Owners, Threads, Held, Claimed, Frozen, InMutex, Places, PciPlaces, RtnlPlaces,
      TaskPlaces
<1>3. Flags'
  BY DEF Flags, Schedule
<1>4. NoReset'
  BY DEF Flags, Threads, NoReset, Stopped, Executing, Held, Claimed, Places, PciPlaces,
      RtnlPlaces, TaskPlaces, Schedule
<1>5. Interface'
  BY DEF Flags, Threads, Interface, Held, Claimed, Frozen, Places, PciPlaces, RtnlPlaces,
      TaskPlaces, Schedule
<1>6. StopsInOrder'
  BY DEF Flags, Threads, StopsInOrder, Waiting, OneWaits, WindingDown, Winding, Stopped, Lefts,
      Held, Frozen, Places, PciPlaces, RtnlPlaces, TaskPlaces, Schedule
<1>7. LeftAlone' /\ Dormant'
  BY DEF Flags, Threads, LeftAlone, Live, Inactive, Between, Silent, Stopped, Dormant,
      StopsInOrder, Waiting, OneWaits, WindingDown, Winding, Lefts, Held, Frozen, Interface,
      Executing, Places, PciPlaces, RtnlPlaces, TaskPlaces, Schedule
<1>8. OnItsWay'
  BY DEF Flags, Threads, OnItsWay, Executing, LeftAlone, Live, Inactive, Between, Silent, Stopped,
      Dormant, StopsInOrder, Waiting, OneWaits, WindingDown, Winding, Lefts, Held, Frozen,
      Interface, Places, PciPlaces, RtnlPlaces, TaskPlaces, Schedule
<1> QED
  BY <1>1, <1>2, <1>3, <1>4, <1>5, <1>6, <1>7, <1>8

-----------------------------------------------------------------------------
(* A step of e1000_down, e1000_up or what surrounds them; the reset task     *)
(* never comes further than to wait for itself.                              *)
LEMMA CallerStepCalm ==
  ASSUME Calm, NEW t \in Caller, CallerStep(t)
  PROVE  Calm'
<1>1. CASE IrqDisable(t) \/ SynchronizeIrq(t) \/ Stop(t) \/ Cancel(t) \/ Claim(t)
  BY <1>1, IrqDisableCalm, SynchronizeIrqCalm, StopCalm, CancelCalm, ClaimCalm
<1>2. CASE WaitWork(t) \/ ResetHw(t) \/ Configure(t) \/ Enable(t) \/ FreeIrq(t) \/ Unclaim(t)
  <2>1. t # "reset_task"
    <3>1. CASE WaitWork(t)
      BY <3>1, Suffixes DEF Calm, StopsInOrder, Executing, WaitWork
    <3>2. CASE ResetHw(t)
      BY <3>2 DEF Calm, Places, TaskPlaces, ResetHw
    <3>3. CASE Configure(t)
      BY <3>3 DEF Calm, Places, TaskPlaces, Configure
    <3>4. CASE Enable(t)
      BY <3>4 DEF Calm, Places, TaskPlaces, Enable
    <3>5. CASE FreeIrq(t)
      BY <3>5 DEF Calm, Places, TaskPlaces, FreeIrq
    <3>6. CASE Unclaim(t)
      BY <3>6 DEF Calm, Places, TaskPlaces, Unclaim
    <3> QED
      BY <1>2, <3>1, <3>2, <3>3, <3>4, <3>5, <3>6
  <2>2. t \in {"pci", "rtnl"}
    BY <2>1
  <2> QED
    BY <1>2, <2>2, WaitWorkCalm, ResetHwCalm, ConfigureCalm, EnableCalm, FreeIrqCalm, UnclaimCalm
<1> QED
  BY <1>1, <1>2 DEF CallerStep

(* A step of a work item.                                                    *)
LEMMA TaskStepCalm ==
  ASSUME Calm, NEW w \in Task, TaskStep(w)
  PROVE  Calm'
<1>1. CASE Start(w) \/ Test(w) \/ Lock(w) \/ Unlock(w) \/ Resched(w)
  BY <1>1, StartCalm, TestCalm, LockCalm, UnlockCalm, ReschedCalm
<1>2. CASE w = "reset_task" /\ CallerStep(w)
  BY <1>2, CallerStepCalm
<1>3. CASE PhyInfo \/ FifoStall
  BY <1>3, PhyInfoCalm, FifoStallCalm
<1>4. CASE Snap \/ Link \/ SchedulePhyInfo \/ AskForReset \/ Stats
  BY <1>4, SnapCalm, LinkCalm, SchedulePhyInfoCalm, AskForResetCalm, StatsCalm
<1> QED
  BY <1>1, <1>2, <1>3, <1>4 DEF TaskStep

(* Calm holds at the start, and every step keeps it.                         *)
LEMMA CalmInit == Init => Calm
<1> SUFFICES ASSUME Init
             PROVE  Calm
  OBVIOUS
<1> USE DEF Init
<1>1. Flags /\ Owners /\ OnItsWay
  BY DEF Flags, Owners, OnItsWay
<1>2. Threads
  BY DEF Threads, Place, Operation
<1>3. Places /\ Held /\ InMutex /\ Interface
  BY DEF Places, PciPlaces, RtnlPlaces, TaskPlaces, Held, Claimed, Frozen, InMutex, Interface
<1>4. StopsInOrder
  BY DEF StopsInOrder, Waiting, OneWaits, WindingDown, Winding
<1>5. LeftAlone /\ Dormant /\ NoReset
  BY DEF LeftAlone, Live, Inactive, Between, Silent, Stopped, Dormant, NoReset
<1> QED
  BY <1>1, <1>2, <1>3, <1>4, <1>5 DEF Calm

(* Every step keeps Calm.                                                    *)
LEMMA CalmNext == Calm /\ [Next]_vars => Calm'
<1> SUFFICES ASSUME Calm, [Next]_vars
             PROVE  Calm'
  OBVIOUS
<1>1. CASE PciStep
  BY <1>1, CallerStepCalm, DsnapInitCalm, UnregisterCalm, FreeNetdevCalm, ResumeCalm DEF PciStep
<1>2. CASE RtnlStep
  BY <1>2, CallerStepCalm DEF RtnlStep
<1>3. CASE \E w \in Task : TaskStep(w)
  BY <1>3, TaskStepCalm
<1>4. CASE Interrupt \/ IrqSchedule
  BY <1>4, InterruptCalm, IrqScheduleCalm
<1>5. CASE Request
  BY <1>5, OpenCalm, CloseCalm, ChangeCalm, ProbeCalm, DsnapCleanupCalm, SuspendCalm DEF Request
<1>6. CASE Event
  BY <1>6, LinkChangeCalm, TxTimeoutCalm, XmitStallCalm DEF Event
<1>7. CASE UNCHANGED vars
  <2>1. UNCHANGED <<may, netdev, running, present, rings, dsnap, carrier, irqReq, irqOn, lsc, irqPc,
                    down, resetting, mutex, rtnl, queued, cancelling, pc, op, left, warned>>
    BY <1>7 DEF vars
  <2>2. Flags' /\ Owners' /\ Threads' /\ Places' /\ Held' /\ InMutex' /\ Interface'
    BY <2>1 DEF Calm, Flags, Owners, Threads, Places, PciPlaces, RtnlPlaces, TaskPlaces, Held,
                Claimed, Frozen, InMutex, Interface
  <2>3. StopsInOrder'
    <3>1. (Waiting("pci") /\ Waiting("rtnl") /\ Waiting("reset_task"))'
      BY <2>1 DEF Calm, StopsInOrder, Waiting
    <3>2. (/\ OneWaits("pci", "rtnl") /\ OneWaits("pci", "reset_task")
           /\ OneWaits("rtnl", "reset_task"))'
      BY <2>1 DEF Calm, StopsInOrder, OneWaits
    <3>3. (WindingDown("pci") /\ WindingDown("rtnl"))'
      BY <2>1 DEF Calm, StopsInOrder, WindingDown, Winding, Stopped
    <3>4. (/\ \A w \in cancelling : \E t \in Caller : pc[t] = "wait" /\ Head(left[t]) = w
           /\ pc["reset_task"] \in Stopping => left["reset_task"] = Left1)'
      BY <2>1 DEF Calm, StopsInOrder
    <3> QED
      BY <3>1, <3>2, <3>3, <3>4 DEF StopsInOrder
  <2>4. LeftAlone'
    <3>1. Live' <=> Live
      BY <2>1 DEF Live, Between, Winding
    <3>2. Inactive' <=> Inactive
      BY <2>1 DEF Inactive, Silent, Stopped
    <3> QED
      BY <3>1, <3>2 DEF Calm, LeftAlone
  <2>5. Dormant' /\ NoReset'
    <3>1. Silent' <=> Silent
      BY <2>1 DEF Silent, Stopped
    <3>2. Dormant'
      BY <2>1, <3>1 DEF Calm, Dormant, Winding
    <3>3. NoReset'
      BY <2>1 DEF Calm, NoReset, Stopped
    <3> QED
      BY <3>2, <3>3
  <2>6. OnItsWay'
    BY <2>1 DEF Calm, OnItsWay, Executing
  <2> QED
    BY <2>2, <2>3, <2>4, <2>5, <2>6 DEF Calm
<1> QED
  BY <1>1, <1>2, <1>3, <1>4, <1>5, <1>6, <1>7 DEF Next

(* Calm is an invariant.                                                     *)
LEMMA CalmInvariant == Spec => []Calm
  BY CalmInit, CalmNext, PTL DEF Spec

-----------------------------------------------------------------------------
(* Once e1000_down has cancelled the work items, none is queued or runs      *)
(* until e1000_up, and none outlives the adapter: DownStopsTasks is never    *)
(* violated.                                                                 *)
THEOREM DownStops == Spec => []DownStopsTasks
<1>1. Calm => DownStopsTasks
  <2> SUFFICES ASSUME Calm,
                      \/ down /\ ~irqOn /\ \A t \in Caller : pc[t] \notin Draining
                      \/ ~netdev /\ pc["pci"] = "absent"
               PROVE  Quiet
    BY DEF DownStopsTasks
  <2> USE DEF Calm
  <2>1. Silent
    <3>1. CASE \A t \in Caller : pc[t] \notin Draining /\ ~irqOn
      BY <3>1 DEF Dormant
    <3>2. CASE ~netdev /\ pc["pci"] = "absent"
      <4>1. ~running /\ pc["rtnl"] = "idle"
        BY <3>2 DEF Interface
      <4> QED
        BY <3>2, <4>1 DEF LeftAlone, Live, Winding, Inactive
    <3> QED
      BY <3>1, <3>2
  <2>2. irqPc = "idle" /\ Stopped("watchdog") /\ Stopped("phy_info") /\ Stopped("fifo_stall")
    BY <2>1 DEF Silent
  <2>3. "tx hang" \notin may => Stopped("reset_task")
    BY DEF NoReset
  <2> QED
    BY <2>2, <2>3 DEF Quiet, Stoppable, Stopped, Executing, Flags
<1> QED
  BY <1>1, CalmInvariant, PTL

(* The caller that resets or configures the device has it to itself.         *)
LEMMA Alone ==
  ASSUME Calm, NEW t \in {"pci", "rtnl"}, pc[t] \in {"reset", "up"}
  PROVE  /\ Silent
         /\ t = "pci" => pc["rtnl"] = "idle"
         /\ t = "rtnl" => pc["pci"] \notin {"reset", "up"}
<1>1. ~Live
  BY DEF Calm, Live, Winding, Between, Held, Frozen, Places, PciPlaces, RtnlPlaces, TaskPlaces
<1> QED
  BY <1>1 DEF Calm, LeftAlone, Inactive, Held, Frozen, Places, PciPlaces, RtnlPlaces, TaskPlaces

(* No two threads reset or configure the device at once, and none while a    *)
(* work item accesses it: ExclusiveReset, although e1000_down and e1000_up   *)
(* run without adapter->mutex.                                               *)
THEOREM OneResets == Spec => []ExclusiveReset
<1>1. Calm => ExclusiveReset
  <2> SUFFICES ASSUME Calm, NEW t \in Caller, NEW u \in Thread \ {t}, pc[t] \in {"reset", "up"}
               PROVE  pc[u] \notin {"reset", "up", "work", "snap", "link", "stats"}
    BY DEF ExclusiveReset
  <2>1. t \in {"pci", "rtnl"}
    BY DEF Calm, Places, PciPlaces, RtnlPlaces, TaskPlaces
  <2>2. /\ Silent
        /\ t = "pci" => pc["rtnl"] = "idle"
        /\ t = "rtnl" => pc["pci"] \notin {"reset", "up"}
    BY <2>1, Alone
  <2> QED BY <2>1, <2>2 DEF Calm, Silent, Stopped, Places, PciPlaces, RtnlPlaces, TaskPlaces
<1> QED
  BY <1>1, CalmInvariant, PTL

(* The watchdog, and with it the snapshots, goes on while the interface is   *)
(* up: WatchdogAlive.                                                        *)
THEOREM WatchdogGoesOn == Spec => []WatchdogAlive
<1>1. Calm => WatchdogAlive
  BY DEF Calm, OnItsWay, WatchdogAlive, Executing
<1> QED
  BY <1>1, CalmInvariant, PTL

(* The assertions of e1000_close and __e1000_shutdown never fire, unless the *)
(* device hangs: NotResettingOnClose.                                        *)
THEOREM NoAssertion == Spec => []NotResettingOnClose
<1>1. Calm => NotResettingOnClose
  BY DEF Calm, NoReset, NotResettingOnClose
<1> QED
  BY <1>1, CalmInvariant, PTL

(* What each place in the code waits for.                                    *)
LEMMA WaitsAt ==
  ASSUME NEW t \in Thread
  PROVE  /\ pc[t] = "wait" => WaitsFor(t) \subseteq Task
         /\ pc[t] = "cancel" =>
              WaitsFor(t) = {u \in Caller : pc[u] = "wait" /\ Head(left[u]) = Head(left[t])}
         /\ pc[t] = "lock" => WaitsFor(t) = {mutex} \ {None}
         /\ pc[t] = "claim" => WaitsFor(t) = {resetting} \ {None}
         /\ pc[t] = "unregister" => WaitsFor(t) = {rtnl} \ {None}
         /\ pc[t] \notin {"wait", "cancel", "lock", "claim", "unregister"} => WaitsFor(t) = {}
  BY DEF WaitsFor

(* No circle of threads waits for each other, but for the reset task, which  *)
(* waits for itself: NoWaitCycle.                                            *)
THEOREM NoCycle == Spec => []NoWaitCycle
<1>1. Calm => NoWaitCycle
  <2> SUFFICES ASSUME Calm,
                      NEW S \in (SUBSET {t \in Thread \ {"reset_task"} : WaitsFor(t) # {}}) \ {{}}
               PROVE  \E t \in S : WaitsFor(t) \cap S = {}
    BY Zenon DEF NoWaitCycle
  <2>0. S # {} /\ \A t \in S : t \in Thread \ {"reset_task"} /\ WaitsFor(t) # {}
    OBVIOUS
  <2> USE DEF Calm
  <2>1. ASSUME NEW t \in {"watchdog", "phy_info", "fifo_stall"}, t \in S
        PROVE  WaitsFor(t) \cap S = {}
    <3>1. pc[t] = "lock" /\ WaitsFor(t) = {mutex} \ {None}
      BY <2>0, <2>1, WaitsAt DEF Places, PciPlaces, RtnlPlaces, TaskPlaces
    <3>2. mutex \in S => pc[mutex] \notin {"lock", "wait", "cancel", "claim", "unregister"}
      BY DEF InMutex, Places, PciPlaces, RtnlPlaces, TaskPlaces, Owners
    <3>3. mutex \notin S
      BY <3>2, WaitsAt
    <3> QED
      BY <3>1, <3>3
  <2>2. CASE S \subseteq {"pci", "rtnl"}
    <3>1. ASSUME NEW t \in S, pc[t] = "wait"
          PROVE  WaitsFor(t) \cap S = {}
      BY <2>2, <3>1, WaitsAt
    <3>2. "rtnl" \in S => pc["rtnl"] \in {"wait", "cancel", "claim"}
      BY <2>0, <2>2, WaitsAt DEF Places, PciPlaces, RtnlPlaces, TaskPlaces
    <3>3. "pci" \in S => pc["pci"] \in {"wait", "cancel", "unregister"}
      BY <2>0, <2>2, WaitsAt DEF Places, PciPlaces, RtnlPlaces, TaskPlaces
    <3>4. ASSUME "rtnl" \in S, pc["rtnl"] = "claim"
          PROVE  WaitsFor("rtnl") \cap S = {}
      BY <3>4, WaitsAt DEF Held, Claimed, Owners
    <3>5. ASSUME "pci" \in S, pc["pci"] = "unregister", "rtnl" \notin S
          PROVE  WaitsFor("pci") \cap S = {}
      BY <2>2, <3>5, WaitsAt DEF Held, Owners, Places, PciPlaces, RtnlPlaces, TaskPlaces
    <3>6. ASSUME NEW t \in S, pc[t] = "cancel", \A u \in S : pc[u] # "wait"
          PROVE  WaitsFor(t) \cap S = {}
      BY <2>2, <3>6, WaitsAt
    <3> QED
      BY <2>0, <2>2, <3>1, <3>2, <3>3, <3>4, <3>5, <3>6
  <2> QED
    BY <2>0, <2>1, <2>2
<1> QED
  BY <1>1, CalmInvariant, PTL

=============================================================================
