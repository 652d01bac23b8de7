---------------------------- MODULE E1000TxRing ----------------------------
(***************************************************************************)
(* The transmit descriptor ring of the e1000 driver: e1000_xmit_frame fills *)
(* slots at next_to_use and moves the tail register, the controller reads   *)
(* them up to the tail and writes the DD bit back into the last descriptor  *)
(* of each frame, e1000_clean_tx_irq frees slots from next_to_clean on.     *)
(* The three run at the same time, without a lock between them; e1000_down  *)
(* empties the ring, and the 82547's FIFO task restarts a stalled queue.    *)
(*                                                                         *)
(* A frame is an skb and a shape: whether it needs a context descriptor     *)
(* (TSO or checksum offload) and how many data descriptors.  What may       *)
(* happen beside that, "map_fails", "82547", "link" (it goes and comes) and *)
(* "down", and whether time passes ("slow") is the case at hand.            *)
(***************************************************************************)
EXTENDS Integers, Sequences, FiniteSets

CONSTANTS
  Count,    (* tx_ring->count                                               *)
  Wake,     (* TX_WAKE_THRESHOLD                                            *)
  Room,     (* MAX_SKB_FRAGS + 2, what the next frame may need              *)
  Shapes,   (* the shapes of the frames                                     *)
  Skb,      (* the socket buffers                                           *)
  Cases

None == "none"
Slot == 0..(Count - 1)

(* What e1000_xmit_frame reserves: context, one to spare, the data, and the  *)
(* gap of two "to keep tail from touching head".                             *)
Need(shape) == shape.context + 1 + shape.data + 2

(* E1000_MIN_TXD is 48, the threshold 32, MAX_SKB_FRAGS + 2 is 19; that the  *)
(* ring holds the largest frame is an assumption on what the stack sends.    *)
ASSUME RingAssumption ==
  /\ Count \in Nat /\ Wake \in Nat /\ Room \in Nat
  /\ Room <= Wake /\ Wake < Count
  /\ Shapes \subseteq [context : 0..1, data : Nat \ {0}]
  /\ \A shape \in Shapes : Need(shape) < Count
  /\ None \notin Skb
  /\ Cases \subseteq SUBSET {"map_fails", "82547", "link", "down", "slow"}

VARIABLES
  may,       (* the case at hand                                            *)
  ntu, ntc,  (* next_to_use, next_to_clean                                  *)
  buf,       (* buffer_info: dma, skb, next_to_watch, time_stamp            *)
  desc,      (* the descriptors; "done" is a last one with DD               *)
  tdh, tdt,  (* the head and tail registers                                 *)
  txdw,      (* is a poll due, since a descriptor was written back?         *)
  stopped,   (* netif_queue_stopped                                         *)
  carrier,   (* netif_carrier_ok, and the link                              *)
  detect,    (* adapter->detect_tx_hung                                     *)
  xmit,      (* e1000_xmit_frame: pc, skb, shape, first, i, n (mapped), size*)
  clean,     (* e1000_clean_tx_irq: pc, i, eop, some (count > 0)            *)
  fifo,      (* the 82547: stall, used (tx_fifo_head # 0), queued, pc       *)
  reset,     (* e1000_down, then e1000_up                                   *)
  fault,     (* what went wrong at the device or with a mapping             *)
  hung,      (* was a hang reported with nothing left to send?              *)
  excused,   (* why nobody may wake the queue, see NoLostWake               *)
  rewoken    (* was the queue woken between netif_tx_disable and DOWN?      *)

ring   == <<ntu, ntc, buf, desc>>
regs   == <<tdh, tdt, txdw>>
net    == <<stopped, carrier, detect>>
ghost  == <<fault, hung, excused, rewoken>>
vars   == <<may, ring, regs, net, xmit, clean, fifo, reset, ghost>>

Succ(i) == IF i + 1 = Count THEN 0 ELSE i + 1
Dist(i, j) == IF i <= j THEN j - i ELSE Count + j - i
Ahead(i, n) == IF i + n < Count THEN i + n ELSE i + n - Count

(* E1000_DESC_UNUSED.                                                        *)
Unused(use, cl) == (IF cl > use THEN 0 ELSE Count) + cl - use - 1

NoXmit == [pc |-> "idle", skb |-> None, shape |-> [context |-> 0, data |-> 1], first |-> 0,
           i |-> 0, n |-> 0, size |-> 0]
NoBuf == [dma |-> FALSE, skb |-> None, watch |-> 0, stamp |-> "none"]

-----------------------------------------------------------------------------
(* e1000_xmit_frame.  The stack calls it with a buffer that is not in the    *)
(* ring, unless the queue is stopped, and one call at a time (HARD_TX_LOCK). *)
InRing(s) == \E i \in Slot : buf[i].skb = s

XmitFrame(s, shape) ==
  /\ xmit.pc = "idle" /\ ~stopped /\ ~InRing(s)
  /\ xmit' = [xmit EXCEPT !.skb = s, !.shape = shape, !.size = Need(shape),
               !.pc = IF Unused(ntu, ntc) >= Need(shape) THEN "workaround" ELSE "stop"]
  /\ UNCHANGED <<may, ring, regs, net, clean, fifo, reset, ghost>>

(* __e1000_maybe_stop_tx, before a frame and after it.                       *)
MaybeStop ==
  /\ xmit.pc \in {"stop", "stop_after"}
  /\ stopped' = TRUE
  /\ xmit' = [xmit EXCEPT !.pc = IF @ = "stop" THEN "recheck" ELSE "recheck_after"]
  /\ UNCHANGED <<may, ring, regs, carrier, detect, clean, fifo, reset, ghost>>

RecheckNot ==
  /\ xmit.pc \in {"recheck", "recheck_after"}
  /\ xmit' = NoXmit
  /\ UNCHANGED <<may, ring, regs, net, clean, fifo, reset, ghost>>
Recheck ==
  /\ xmit.pc \in {"recheck", "recheck_after"}
  /\ IF Unused(ntu, ntc) < xmit.size
       THEN xmit' = NoXmit /\ UNCHANGED <<stopped, excused>>
       ELSE /\ stopped' = FALSE /\ excused' = {}
            /\ xmit' = IF xmit.pc = "recheck" THEN [xmit EXCEPT !.pc = "workaround"] ELSE NoXmit
  /\ UNCHANGED <<may, ring, regs, carrier, detect, clean, fifo, reset, fault, hung, rewoken>>

(* e1000_82547_fifo_workaround, in half duplex.                              *)
Workaround ==
  /\ xmit.pc = "workaround"
  /\ IF "82547" \notin may
       THEN xmit' = [xmit EXCEPT !.pc = "context"] /\ UNCHANGED fifo
       ELSE \/ /\ fifo.stall \/ fifo.used
               /\ xmit' = [xmit EXCEPT !.pc = "stall"]
               /\ fifo' = [fifo EXCEPT !.stall = TRUE]
            \/ /\ ~fifo.stall
               /\ xmit' = [xmit EXCEPT !.pc = "context"]
               /\ fifo' = [fifo EXCEPT !.used = TRUE]
  /\ UNCHANGED <<may, ring, regs, net, clean, reset, ghost>>

(* ... and when it says stall: the queue stopped, the task queued.           *)
Stall ==
  /\ xmit.pc = "stall"
  /\ stopped' = TRUE
  /\ excused' = IF ~fifo.stall /\ fifo.pc = "idle" THEN excused \cup {"fifo"} ELSE excused
  /\ xmit' = [xmit EXCEPT !.pc = "schedule"]
  /\ UNCHANGED <<may, ring, regs, carrier, detect, clean, fifo, reset, fault, hung, rewoken>>

ScheduleFifoTask ==
  /\ xmit.pc = "schedule"
  /\ fifo' = [fifo EXCEPT !.queued = @ \/ reset # "down"]
  /\ xmit' = NoXmit
  /\ UNCHANGED <<may, ring, regs, net, clean, reset, ghost>>

(* e1000_tso or e1000_tx_csum: the context descriptor, when there is one.    *)
Context ==
  /\ xmit.pc = "context"
  /\ IF xmit.shape.context = 1
       THEN /\ desc' = [desc EXCEPT ![ntu] = "context"]
            /\ buf' = [buf EXCEPT ![ntu].stamp = "fresh", ![ntu].watch = ntu]
            /\ ntu' = Succ(ntu)
       ELSE UNCHANGED <<desc, buf, ntu>>
  /\ xmit' = [xmit EXCEPT !.first = ntu, !.i = ntu', !.n = 0, !.pc = "map"]
  /\ UNCHANGED <<may, ntc, regs, net, clean, fifo, reset, ghost>>

(* e1000_tx_map, one dma_map_single or skb_frag_dma_map at a time.           *)
Map ==
  /\ xmit.pc = "map"
  /\ fault' = IF buf[xmit.i].dma THEN "mapping_lost" ELSE fault
  /\ buf' = [buf EXCEPT ![xmit.i] = [@ EXCEPT !.dma = TRUE, !.stamp = "fresh", !.watch = xmit.i]]
  /\ xmit' = IF xmit.n + 1 = xmit.shape.data
               THEN [xmit EXCEPT !.n = @ + 1, !.pc = "queue"]
               ELSE [xmit EXCEPT !.n = @ + 1, !.i = Succ(@)]
  /\ UNCHANGED <<may, ntu, ntc, desc, regs, net, clean, fifo, reset, hung, excused, rewoken>>

(* dma_error: all but the first of the buffers mapped so far are unmapped,   *)
(* and e1000_xmit_frame drops the frame.                                     *)
MapFails ==
  /\ xmit.pc = "map" /\ "map_fails" \in may
  /\ LET undone == {Ahead(xmit.i, Count - k) : k \in 1..(xmit.n - 1)}
         failed == [buf EXCEPT ![xmit.i].stamp = "fresh", ![xmit.i].dma = FALSE]
         freed  == [i \in Slot |-> IF i \in undone
                                     THEN [failed[i] EXCEPT !.dma = FALSE, !.stamp = "none"]
                                     ELSE failed[i]]
     IN  /\ buf' = [freed EXCEPT ![xmit.first].stamp = "none"]
         /\ fault' = IF buf[xmit.i].dma THEN "mapping_lost" ELSE fault
  /\ ntu' = xmit.first
  /\ xmit' = NoXmit
  /\ UNCHANGED <<may, ntc, desc, regs, net, clean, fifo, reset, hung, excused, rewoken>>

(* The end of e1000_tx_map, and e1000_tx_queue.                              *)
Fill(last) == [i \in Slot |-> IF i = last THEN "last"
                              ELSE IF Dist(ntu, i) < xmit.n THEN "data" ELSE desc[i]]

Queue ==
  /\ xmit.pc = "queue"
  /\ buf' = [buf EXCEPT ![xmit.i].skb = xmit.skb, ![xmit.first].watch = xmit.i]
  /\ desc' = Fill(xmit.i)
  /\ xmit' = [xmit EXCEPT !.pc = "tail"]
  /\ UNCHANGED <<may, ntu, ntc, regs, net, clean, fifo, reset, ghost>>

WriteTail ==
  /\ xmit.pc = "tail"
  /\ ntu' = Succ(xmit.i) /\ tdt' = Succ(xmit.i)
  /\ xmit' = IF Unused(Succ(xmit.i), ntc) >= Room
               THEN NoXmit ELSE [NoXmit EXCEPT !.pc = "stop_after", !.size = Room]
  /\ UNCHANGED <<may, ntc, buf, desc, tdh, txdw, net, clean, fifo, reset, ghost>>

-----------------------------------------------------------------------------
(* The controller: it reads the descriptor at the head, and its data, and    *)
(* reports the last one of a frame.                                          *)
Transmit ==
  /\ tdh # tdt /\ carrier /\ reset \in {"up", "disabled"}
  /\ fault' = IF desc[tdh] \in {"data", "last"} /\ ~buf[tdh].dma THEN "unmapped" ELSE fault
  /\ tdh' = Succ(tdh)
  /\ IF desc[tdh] = "last" THEN desc' = [desc EXCEPT ![tdh] = "done"] /\ txdw' = TRUE
                           ELSE UNCHANGED <<desc, txdw>>
  /\ UNCHANGED <<may, ntu, ntc, buf, tdt, net, xmit, clean, fifo, reset, hung, excused, rewoken>>

(* More than tx_timeout_factor seconds pass; a call of xmit or a poll takes  *)
(* less.                                                                     *)
TimePasses ==
  /\ "slow" \in may /\ xmit.pc = "idle" /\ clean.pc = "idle" /\ \E i \in Slot : buf[i].stamp = "fresh"
  /\ buf' = [i \in Slot |-> IF buf[i].stamp = "fresh" THEN [buf[i] EXCEPT !.stamp = "old"]
                                                      ELSE buf[i]]
  /\ UNCHANGED <<may, ntu, ntc, desc, regs, net, xmit, clean, fifo, reset, ghost>>

(* The watchdog asks for a look at hung transmits, every two seconds.        *)
Watchdog ==
  /\ "slow" \in may /\ ~detect /\ reset # "down"
  /\ detect' = TRUE
  /\ UNCHANGED <<may, ring, regs, stopped, carrier, xmit, clean, fifo, reset, ghost>>

-----------------------------------------------------------------------------
(* e1000_clean_tx_irq, called by the poll that an interrupt schedules; a     *)
(* poll for other reasons may find nothing done.                             *)
CleanTx ==
  /\ clean.pc = "idle" /\ reset \in {"up", "disabled"}
  /\ txdw' = FALSE
  /\ clean' = [pc |-> "test", i |-> ntc, eop |-> buf[ntc].watch, some |-> FALSE]
  /\ UNCHANGED <<may, ring, tdh, tdt, net, xmit, fifo, reset, ghost>>

(* The loop test, and its bound "count < tx_ring->count": a poll that stops  *)
(* for it runs again.                                                        *)
TestNothing ==
  /\ clean.pc = "test"
  /\ clean' = [clean EXCEPT !.pc = IF clean.i # tdt THEN "free" ELSE "ntc"]
  /\ UNCHANGED <<may, ring, regs, net, xmit, fifo, reset, ghost>>
TestDone ==
  /\ clean.pc = "test"
  /\ \/ desc[clean.eop] = "done" /\ clean' = [clean EXCEPT !.pc = "free"] /\ UNCHANGED txdw
     \/ desc[clean.eop] # "done" /\ clean' = [clean EXCEPT !.pc = "ntc"] /\ UNCHANGED txdw
     \/ /\ desc[clean.eop] = "done" /\ clean.some
        /\ clean' = [clean EXCEPT !.pc = "ntc"] /\ txdw' = TRUE
  /\ UNCHANGED <<may, ring, tdh, tdt, net, xmit, fifo, reset, ghost>>

(* e1000_unmap_and_free_tx_resource, slot by slot up to the last one.        *)
FreeSlotNotStamp ==
  /\ clean.pc = "free"
  /\ buf' = [buf EXCEPT ![clean.i] = [@ EXCEPT !.dma = FALSE, !.skb = None]]
  /\ desc' = [desc EXCEPT ![clean.i] = "free"]
  /\ clean' = [clean EXCEPT !.i = Succ(@), !.some = TRUE,
                            !.pc = IF clean.i = clean.eop THEN "test" ELSE "free",
                            !.eop = IF clean.i = @ THEN buf[Succ(clean.i)].watch ELSE @]
  /\ UNCHANGED <<may, ntu, ntc, regs, net, xmit, fifo, reset, ghost>>
FreeSlot ==
  /\ clean.pc = "free"
  /\ buf' = [buf EXCEPT ![clean.i] = [@ EXCEPT !.dma = FALSE, !.skb = None, !.stamp = "none"]]
  /\ desc' = [desc EXCEPT ![clean.i] = "free"]
  /\ clean' = [clean EXCEPT !.i = Succ(@), !.some = TRUE,
                            !.pc = IF clean.i = clean.eop THEN "test" ELSE "free",
                            !.eop = IF clean.i = @ THEN buf[Succ(clean.i)].watch ELSE @]
  /\ UNCHANGED <<may, ntu, ntc, regs, net, xmit, fifo, reset, ghost>>

(* next_to_clean is stored; then, if there is room, the queue may be woken.  *)
StoreNtc ==
  /\ clean.pc = "ntc"
  /\ ntc' = clean.i
  /\ clean' = [clean EXCEPT !.pc = IF /\ clean.some /\ carrier
                                      /\ Unused(ntu, clean.i) >= Wake THEN "wake" ELSE "hang"]
  /\ excused' = IF clean.some /\ ~carrier THEN excused \cup {"no_carrier"} ELSE excused
  /\ UNCHANGED <<may, ntu, buf, desc, regs, net, xmit, fifo, reset, fault, hung, rewoken>>

WakeQueue ==
  /\ clean.pc = "wake"
  /\ stopped' = FALSE
  /\ excused' = {}
  /\ rewoken' = (rewoken \/ (stopped /\ reset = "disabled"))
  /\ clean' = [clean EXCEPT !.pc = "hang"]
  /\ UNCHANGED <<may, ring, regs, carrier, detect, xmit, fifo, reset, fault, hung>>

(* The check for a hang, and the end of the poll.                            *)
DetectHang ==
  /\ clean.pc = "hang"
  /\ detect' = FALSE
  /\ IF detect /\ buf[clean.eop].stamp = "old"
       THEN /\ stopped' = TRUE /\ excused' = excused \cup {"hang"}
            /\ hung' = (hung \/ ntc = tdt)
       ELSE UNCHANGED <<stopped, excused, hung>>
  /\ clean' = [clean EXCEPT !.pc = "idle", !.i = 0, !.eop = 0, !.some = FALSE]
  /\ UNCHANGED <<may, ring, regs, carrier, xmit, fifo, reset, fault, rewoken>>

-----------------------------------------------------------------------------
(* e1000_82547_tx_fifo_stall_task: once all is sent, the FIFO is reset ...   *)
FifoTask ==
  /\ fifo.queued /\ fifo.pc = "idle"
  /\ fifo' = IF ~fifo.stall THEN [fifo EXCEPT !.queued = FALSE]
             ELSE IF tdh = tdt
               THEN [stall |-> FALSE, used |-> FALSE, queued |-> FALSE, pc |-> "wake"]
               ELSE fifo
  /\ UNCHANGED <<may, ring, regs, net, xmit, clean, reset, ghost>>

(* ... and the queue woken, also when xmit has yet to stop it.               *)
FifoWake ==
  /\ fifo.pc = "wake"
  /\ stopped' = FALSE
  /\ excused' = {}
  /\ rewoken' = (rewoken \/ (stopped /\ reset \in {"disabled", "polled", "down"}))
  /\ fifo' = [fifo EXCEPT !.pc = "idle"]
  /\ UNCHANGED <<may, ring, regs, carrier, detect, xmit, clean, reset, fault, hung>>

(* The link goes and comes back, and the watchdog with it.                   *)
LinkDown ==
  /\ "link" \in may /\ carrier
  /\ carrier' = FALSE
  /\ UNCHANGED <<may, ring, regs, stopped, detect, xmit, clean, fifo, reset, ghost>>

LinkUp ==
  /\ ~carrier /\ reset = "up"
  /\ carrier' = TRUE
  /\ UNCHANGED <<may, ring, regs, stopped, detect, xmit, clean, fifo, reset, ghost>>

-----------------------------------------------------------------------------
(* e1000_down: netif_tx_disable, which waits for a call of xmit to return,   *)
(* napi_disable, which waits for the poll, DOWN, and the ring is emptied.    *)
NetifStopQueue ==
  /\ "down" \in may /\ reset = "up"
  /\ stopped' = TRUE
  /\ reset' = "disabled"
  /\ UNCHANGED <<may, ring, regs, carrier, detect, xmit, clean, fifo, ghost>>
NetifTxDisable ==
  /\ "down" \in may /\ reset = "up" /\ xmit.pc = "idle"
  /\ stopped' = TRUE
  /\ reset' = "disabled"
  /\ UNCHANGED <<may, ring, regs, carrier, detect, xmit, clean, fifo, ghost>>

NapiDisable ==
  /\ reset = "disabled" /\ clean.pc = "idle"
  /\ reset' = "polled"
  /\ UNCHANGED <<may, ring, regs, net, xmit, clean, fifo, ghost>>

DownAndStop ==
  /\ reset = "polled"
  /\ reset' = "down"
  /\ UNCHANGED <<may, ring, regs, net, xmit, clean, fifo, ghost>>

CleanTxRing ==
  /\ reset = "down" /\ fifo.pc = "idle"
  /\ reset' = "clean"
  /\ carrier' = FALSE
  /\ fault' = IF xmit.pc # "idle" THEN "cleaned_under_xmit" ELSE fault
  /\ buf' = [i \in Slot |-> NoBuf] /\ desc' = [i \in Slot |-> "free"]
  /\ ntu' = 0 /\ ntc' = 0 /\ tdh' = 0 /\ tdt' = 0 /\ txdw' = FALSE
  /\ fifo' = [stall |-> FALSE, used |-> FALSE, queued |-> FALSE, pc |-> "idle"]
  /\ UNCHANGED <<may, stopped, detect, xmit, clean, hung, excused, rewoken>>

Up ==
  /\ reset = "clean"
  /\ reset' = "up"
  /\ stopped' = FALSE /\ excused' = {}
  /\ UNCHANGED <<may, ring, regs, carrier, detect, xmit, clean, fifo, fault, hung, rewoken>>

-----------------------------------------------------------------------------
Init ==
  /\ may \in Cases
  /\ ntu = 0 /\ ntc = 0 /\ tdh = 0 /\ tdt = 0 /\ txdw = FALSE
  /\ buf = [i \in Slot |-> NoBuf]
  /\ desc = [i \in Slot |-> "free"]
  /\ stopped = FALSE /\ carrier = TRUE /\ detect = FALSE
  /\ xmit = NoXmit
  /\ clean = [pc |-> "idle", i |-> 0, eop |-> 0, some |-> FALSE]
  /\ fifo = [stall |-> FALSE, used |-> FALSE, queued |-> FALSE, pc |-> "idle"]
  /\ reset = "up"
  /\ fault = "none" /\ hung = FALSE /\ excused = {} /\ rewoken = FALSE

Xmit ==
  \/ MaybeStop \/ Recheck \/ Workaround \/ Stall \/ ScheduleFifoTask
  \/ Context \/ Map \/ Queue \/ WriteTail

CleanStep == TestDone \/ FreeSlot \/ StoreNtc \/ WakeQueue \/ DetectHang

Next ==
  \/ \E s \in Skb, shape \in Shapes : XmitFrame(s, shape)
  \/ Xmit \/ MapFails
  \/ Transmit \/ TimePasses \/ Watchdog
  \/ CleanTx \/ CleanStep
  \/ FifoTask \/ FifoWake \/ LinkDown \/ LinkUp
  \/ NetifTxDisable \/ NapiDisable \/ DownAndStop \/ CleanTxRing \/ Up

Spec == Init /\ [][Next]_vars

-----------------------------------------------------------------------------
TypeOK ==
  /\ may \in Cases
  /\ ntu \in Slot /\ ntc \in Slot /\ tdh \in Slot /\ tdt \in Slot
  /\ buf \in [Slot -> [dma : BOOLEAN, skb : Skb \cup {None}, watch : Slot,
                       stamp : {"none", "fresh", "old"}]]
  /\ desc \in [Slot -> {"free", "context", "data", "last", "done"}]
  /\ txdw \in BOOLEAN /\ stopped \in BOOLEAN /\ carrier \in BOOLEAN /\ detect \in BOOLEAN
  /\ xmit \in [pc : {"idle", "stop", "recheck", "workaround", "stall", "schedule", "context",
                     "map", "queue", "tail", "stop_after", "recheck_after"},
               skb : Skb \cup {None}, shape : [context : 0..1, data : Nat \ {0}],
               first : Slot, i : Slot, n : Nat, size : Nat]
  /\ clean \in [pc : {"idle", "test", "free", "ntc", "wake", "hang"}, i : Slot, eop : Slot,
                some : BOOLEAN]
  /\ fifo \in [stall : BOOLEAN, used : BOOLEAN, queued : BOOLEAN, pc : {"idle", "wake"}]
  /\ reset \in {"up", "disabled", "polled", "down", "clean"}
  /\ fault \in {"none", "mapping_lost", "unmapped", "cleaned_under_xmit"}
  /\ hung \in BOOLEAN /\ excused \subseteq {"no_carrier", "hang", "fifo"} /\ rewoken \in BOOLEAN

(* The controller reads no buffer that is not mapped, and no mapping is      *)
(* overwritten before it is undone, with xmit, the controller and the        *)
(* clean-up at any point of their work, and e1000_down does not empty the    *)
(* ring under xmit; unless a mapping failed (tx_map's error path leaves the  *)
(* first one), or the poll or the FIFO task woke the queue after             *)
(* netif_tx_disable.                                                         *)
RingConsistent ==
  /\ TypeOK
  /\ fault # "none" => "map_fails" \in may \/ rewoken

(* A stopped queue has somebody to wake it: frames that are being sent, a    *)
(* poll that is due, or the FIFO task; except where the code gives the wake  *)
(* up: no carrier when the poll ended, a hang, and xmit that has seen the    *)
(* stall flag and stops the queue after the FIFO task has woken it.          *)
NoLostWake ==
  stopped /\ xmit.pc = "idle" /\ clean.pc = "idle" /\ fifo.pc = "idle" /\ reset = "up"
    /\ ~rewoken /\ excused = {}
  => tdh # tdt \/ txdw \/ fifo.queued

(* A hang is reported only while a frame waits to be sent; unless a mapping  *)
(* failed, whose time stamp stays behind.                                    *)
HangIsReal == hung => "map_fails" \in may \/ rewoken

-----------------------------------------------------------------------------
(* The promise to the stack.  The buffers of the ring in order, from where   *)
(* the clean-up stands; those the head has passed are sent.                  *)
Oldest == IF clean.pc \in {"test", "free", "ntc"} THEN clean.i ELSE ntc
InOrder == [k \in 1..Count |-> buf[Ahead(Oldest, k - 1)].skb]
(* The buffers that the first k slots of a row hold.                         *)
Picked(v) ==
  LET upto[k \in 0..Count] ==
        IF k = 0 THEN <<>>
        ELSE IF v[k] = None THEN upto[k - 1] ELSE Append(upto[k - 1], v[k])
  IN  upto
Buffers(n) == Picked(InOrder)[n]

Fifo == INSTANCE TxFifo WITH queue <- Buffers(Dist(Oldest, tdt)),
                             sent  <- Len(Buffers(Dist(Oldest, tdh)))

(* Every step is a step of TxFifo: frames are sent in order, and given back  *)
(* once and only after they were sent; until xmit works on an emptied ring.  *)
ImplementsFifo == Fifo!FifoInit /\ [][~rewoken' => Fifo!FifoNext \/ UNCHANGED Fifo!fifoVars]_vars

=============================================================================
