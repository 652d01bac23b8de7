--------------------------- MODULE E1000TxProof ----------------------------
(***************************************************************************)
(* How e1000_xmit_frame, the controller, the clean-up, the FIFO task and    *)
(* e1000_down share the transmit ring, for every size of the ring and of    *)
(* the frames: theorems about E1000TxRing.                                  *)
(*                                                                         *)
(* Positions are told by their distance: Dist(a, s) < Dist(a, b) says that  *)
(* s is met before b on the way from a.                                     *)
(***************************************************************************)
EXTENDS E1000TxRing, WellFoundedInduction, TLAPS

Before(a, s, b) == Dist(a, s) < Dist(a, b)

(* Slots that hold frames; those of them that the head has passed; and those *)
(* that a call of xmit has written so far, from the tail on.                 *)
Held(s) == Before(Oldest, s, tdt)
Sent(s) == Before(Oldest, s, tdh)
Working == xmit.pc \in {"map", "queue", "tail"}
Taken(s) == Working /\ Dist(tdt, s) < xmit.shape.context + xmit.n

Ends(s) == desc[s] \in {"last", "done"}

(* The pointers follow each other: next_to_clean, the clean-up's place, the  *)
(* head, the tail.                                                           *)
Order ==
  /\ Dist(ntc, Oldest) <= Dist(ntc, tdt)
  /\ Dist(Oldest, tdh) <= Dist(Oldest, tdt)
  /\ clean.pc \in {"test", "free", "ntc"} /\ ~clean.some => clean.i = ntc
  /\ clean.pc = "free" => Sent(clean.eop) /\ desc[clean.eop] = "done"

(* A call of xmit goes on from the tail, within the room that it has seen,   *)
(* which the clean-up can only make larger.                                  *)
InRoom ==
  /\ xmit.size < Count
  /\ xmit.pc \in {"stop", "recheck"} => xmit.size = Need(xmit.shape)
  /\ xmit.pc \in {"workaround", "context"} \/ Working
       => Dist(ntc, tdt) + Need(xmit.shape) < Count
  /\ ~Working => ntu = tdt
  /\ Working => /\ xmit.first = tdt
                /\ Dist(tdt, ntu) = xmit.shape.context
                /\ xmit.shape.context = 1 => desc[tdt] = "context"
  /\ xmit.pc = "map" => /\ xmit.n < xmit.shape.data
                        /\ Dist(tdt, xmit.i) = xmit.shape.context + xmit.n
  /\ xmit.pc \in {"queue", "tail"} =>
       /\ xmit.n = xmit.shape.data
       /\ Dist(tdt, xmit.i) = xmit.shape.context + xmit.n - 1
  /\ xmit.pc = "tail" => buf[tdt].watch = xmit.i /\ desc[xmit.i] = "last"

(* The frame that starts at s: next_to_watch leads to its last descriptor,   *)
(* and no other ends in between.                                             *)
Starts(s) == IF s = Oldest THEN clean.pc # "free"
             ELSE \E p \in Slot : s = Succ(p) /\ Ends(p)
Frame(s) ==
  /\ Before(s, buf[s].watch, tdt) /\ Ends(buf[s].watch)
  /\ \A k \in Slot : Before(s, k, buf[s].watch) => ~Ends(k)

Frames ==
  /\ \A s \in Slot : Held(s) /\ Starts(s) => Frame(s)
  /\ \A s \in Slot : Held(s) /\ Succ(s) = tdt => Ends(s)

(* The head tells the frames that are sent from those that are not.          *)
Marks ==
  /\ \A s \in Slot : desc[s] = "done" => Sent(s)
  /\ \A s \in Slot : desc[s] = "last" => ~Sent(s)
  /\ \A s \in Slot : desc[s] = "last" /\ ~Held(s) => xmit.pc = "tail" /\ s = xmit.i

(* What is sent and not cleaned has a poll due, or the clean-up under way    *)
(* looks at the right descriptor.                                            *)
Reported ==
  ~txdw /\ (\E s \in Slot : desc[s] = "done") =>
    /\ clean.pc \in {"test", "free"}
    /\ clean.pc = "test" => clean.eop = buf[clean.i].watch

(* As long as no mapping fails, what the controller may read is mapped, what *)
(* is free is not, and an old time stamp is that of a frame in the ring.     *)
Mapped ==
  "map_fails" \notin may =>
    /\ fault = "none" /\ ~hung
    /\ \A s \in Slot :
         /\ desc[s] \in {"data", "last"} => buf[s].dma
         /\ xmit.pc \in {"map", "queue"} /\ Dist(ntu, s) < xmit.n => buf[s].dma
         /\ buf[s].dma => Held(s) \/ Taken(s)
         /\ buf[s].stamp = "fresh" => Held(s) \/ Taken(s)
         /\ buf[s].stamp = "old" => Held(s)

(* Who wakes a queue that stands while the interface is up.                  *)
Waker == ntc # tdt \/ clean.pc = "wake" \/ (fifo.queued /\ fifo.stall) \/ fifo.pc = "wake"
Waking ==
  /\ reset = "up" /\ stopped /\ excused = {} =>
       /\ xmit.pc = "idle" => Waker
       /\ xmit.pc = "schedule" => fifo.stall \/ fifo.pc = "wake"
       /\ xmit.pc \notin {"workaround", "context", "stall", "stop_after"} /\ ~Working
  /\ reset # "up" => stopped /\ xmit.pc = "idle"
  /\ reset \in {"polled", "down", "clean"} => clean.pc = "idle"
  /\ reset = "clean" => ~fifo.queued /\ fifo.pc = "idle"
  /\ fifo.pc = "wake" => reset # "clean"

(* The inductive invariant, as long as no late wake lets xmit into an emptied *)
(* ring.                                                                     *)
Good == Order /\ InRoom /\ Frames /\ Marks /\ Reported /\ Mapped /\ Waking

-----------------------------------------------------------------------------
(* Distances.                                                                *)
LEMMA CountFact == Count \in Nat /\ Count > 0 /\ Slot = 0 .. Count - 1
BY RingAssumption DEF Slot

LEMMA DistFacts ==
  ASSUME NEW i \in Slot, NEW j \in Slot
  PROVE  /\ Dist(i, j) \in 0 .. Count - 1
         /\ Dist(i, j) = 0 <=> i = j
         /\ \A k \in Slot : Dist(i, j) = Dist(i, k) => j = k
BY CountFact DEF Dist

LEMMA DistNat ==
  ASSUME NEW i \in Slot, NEW j \in Slot
  PROVE  Dist(i, j) \in Nat /\ Dist(i, j) < Count
BY CountFact DEF Dist

LEMMA SuccFacts ==
  ASSUME NEW i \in Slot
  PROVE  Succ(i) \in Slot /\ \A j \in Slot : Succ(i) = Succ(j) => i = j
BY CountFact DEF Succ

LEMMA DistSucc ==
  ASSUME NEW i \in Slot, NEW j \in Slot
  PROVE  /\ Dist(i, j) < Count - 1 => Dist(i, Succ(j)) = Dist(i, j) + 1
         /\ i # j => Dist(Succ(i), j) = Dist(i, j) - 1
         /\ Dist(Succ(i), i) = Count - 1
BY CountFact DEF Dist, Succ

(* From a by b to c, when b is not behind c, or the two ways are no turn.    *)
LEMMA Through ==
  ASSUME NEW a \in Slot, NEW b \in Slot, NEW c \in Slot,
         Dist(a, b) <= Dist(a, c) \/ Dist(a, b) + Dist(b, c) < Count
  PROVE  Dist(a, c) = Dist(a, b) + Dist(b, c)
BY CountFact DEF Dist

LEMMA Around ==
  ASSUME NEW a \in Slot, NEW b \in Slot, NEW c \in Slot, Dist(a, c) < Dist(a, b)
  PROVE  Dist(b, c) = Dist(b, a) + Dist(a, c)
BY CountFact DEF Dist

LEMMA UnusedDist ==
  ASSUME NEW i \in Slot, NEW j \in Slot
  PROVE  Unused(j, i) = Count - 1 - Dist(i, j)
BY CountFact DEF Unused, Dist

LEMMA NeedFact ==
  ASSUME NEW shape \in [context : 0..1, data : Nat \ {0}]
  PROVE  /\ shape.context \in 0..1 /\ shape.data \in Nat /\ shape.data > 0
         /\ Need(shape) = shape.context + shape.data + 3
BY DEF Need

LEMMA TypeFacts ==
  ASSUME TypeOK
  PROVE  /\ ntu \in Slot /\ ntc \in Slot /\ tdh \in Slot /\ tdt \in Slot /\ Oldest \in Slot
         /\ clean.i \in Slot /\ clean.eop \in Slot /\ xmit.i \in Slot /\ xmit.first \in Slot
         /\ xmit.n \in Nat /\ xmit.size \in Nat /\ xmit.shape.context \in 0..1
         /\ xmit.shape.data \in Nat /\ xmit.shape.data > 0
         /\ Need(xmit.shape) = xmit.shape.context + xmit.shape.data + 3
         /\ \A s \in Slot : buf[s].watch \in Slot
BY DEF TypeOK, Oldest, Need

-----------------------------------------------------------------------------
(* Type correctness.                                                         *)
LEMMA NoXmitType == NoXmit \in [pc : {"idle"}, skb : Skb \cup {None},
                                shape : [context : 0..1, data : Nat \ {0}],
                                first : Slot, i : Slot, n : Nat, size : Nat]
BY CountFact DEF NoXmit

LEMMA NoBufType == NoBuf \in [dma : BOOLEAN, skb : Skb \cup {None}, watch : Slot,
                              stamp : {"none", "fresh", "old"}]
BY CountFact DEF NoBuf

LEMMA TypeInit == Init => TypeOK
<1> SUFFICES ASSUME Init
             PROVE  TypeOK
  OBVIOUS
<1>1. 0 \in Slot
  BY CountFact
<1>2. xmit = NoXmit /\ NoXmit \in [pc : {"idle"}, skb : Skb \cup {None},
                                   shape : [context : 0..1, data : Nat \ {0}],
                                   first : Slot, i : Slot, n : Nat, size : Nat]
  BY NoXmitType DEF Init
<1>3. buf \in [Slot -> [dma : BOOLEAN, skb : Skb \cup {None}, watch : Slot,
                        stamp : {"none", "fresh", "old"}]]
  BY NoBufType DEF Init
<1>4. QED
  BY <1>1, <1>2, <1>3 DEF Init, TypeOK

(* The parts of TypeOK.                                                      *)
XmitType ==
  xmit \in [pc : {"idle", "stop", "recheck", "workaround", "stall", "schedule", "context",
                  "map", "queue", "tail", "stop_after", "recheck_after"},
            skb : Skb \cup {None}, shape : [context : 0..1, data : Nat \ {0}],
            first : Slot, i : Slot, n : Nat, size : Nat]
BufferSet == [Slot -> [dma : BOOLEAN, skb : Skb \cup {None}, watch : Slot,
                      stamp : {"none", "fresh", "old"}]]
DescType == desc \in [Slot -> {"free", "context", "data", "last", "done"}]
CleanType ==
  clean \in [pc : {"idle", "test", "free", "ntc", "wake", "hang"}, i : Slot, eop : Slot,
             some : BOOLEAN]
FifoType == fifo \in [stall : BOOLEAN, used : BOOLEAN, queued : BOOLEAN, pc : {"idle", "wake"}]
RestType ==
  /\ may \in Cases
  /\ ntu \in Slot /\ ntc \in Slot /\ tdh \in Slot /\ tdt \in Slot
  /\ txdw \in BOOLEAN /\ stopped \in BOOLEAN /\ carrier \in BOOLEAN /\ detect \in BOOLEAN
  /\ reset \in {"up", "disabled", "polled", "down", "clean"}
  /\ fault \in {"none", "mapping_lost", "unmapped", "cleaned_under_xmit"}
  /\ hung \in BOOLEAN /\ excused \subseteq {"no_carrier", "hang", "fifo"} /\ rewoken \in BOOLEAN
BufType == buf \in BufferSet

LEMMA TypeParts ==
  TypeOK <=> XmitType /\ BufType /\ DescType /\ CleanType /\ FifoType /\ RestType
BY DEF TypeOK, XmitType, BufType, BufferSet, DescType, CleanType, FifoType, RestType

(* Its local variables keep their types: e1000_xmit_frame.                   *)
LEMMA XmitTyped == TypeOK /\ [Next]_vars => XmitType'
<1> SUFFICES ASSUME TypeOK, [Next]_vars
             PROVE  XmitType'
  OBVIOUS
<1> USE DEF ring, regs, net, ghost
<1>a. TypeOK /\ XmitType /\ BufType /\ DescType /\ CleanType /\ FifoType /\ RestType
  BY TypeParts
<1>b. Room \in Nat /\ 0 \in Slot /\ Count \in Nat /\ \A s \in Slot : Succ(s) \in Slot
  BY CountFact, SuccFacts, RingAssumption
<1>1. ASSUME NEW s \in Skb, NEW shape \in Shapes, XmitFrame(s, shape)
      PROVE  XmitType'
  <2>1. shape \in [context : 0..1, data : Nat \ {0}]
    BY RingAssumption
  <2>2. Need(shape) \in Nat
    BY <2>1, NeedFact
  <2>3. QED
    BY <1>1, <1>a, <2>1, <2>2 DEF XmitFrame, XmitType
<1>2. CASE MaybeStop
  BY <1>2, <1>a DEF MaybeStop, XmitType
<1>3. CASE Recheck
  BY <1>3, <1>a, NoXmitType DEF Recheck, XmitType
<1>4. CASE Workaround
  BY <1>4, <1>a DEF Workaround, XmitType
<1>5. CASE Stall
  BY <1>5, <1>a DEF Stall, XmitType
<1>6. CASE ScheduleFifoTask
  BY <1>6, <1>a, NoXmitType DEF ScheduleFifoTask, XmitType
<1>7. CASE Context
  <2>1. ntu \in Slot /\ ntu' \in Slot
    BY <1>7, <1>a, <1>b DEF Context, RestType
  <2>2. QED
    BY <1>7, <1>a, <2>1 DEF Context, XmitType
<1>8. CASE Map
  <2>1. Succ(xmit.i) \in Slot /\ xmit.n + 1 \in Nat
    BY <1>a, <1>b DEF XmitType
  <2>2. QED
    BY <1>8, <1>a, <2>1 DEF Map, XmitType
<1>9. CASE MapFails
  BY <1>9, <1>a, NoXmitType DEF MapFails, XmitType
<1>10. CASE Queue
  BY <1>10, <1>a DEF Queue, XmitType
<1>11. CASE WriteTail
  BY <1>11, <1>a, <1>b, NoXmitType DEF WriteTail, XmitType
<1>12. CASE xmit' = xmit
  BY <1>a, <1>12 DEF XmitType
<1>13. QED
  BY <1>1, <1>2, <1>3, <1>4, <1>5, <1>6, <1>7, <1>8, <1>9, <1>10, <1>11, <1>12
     DEF Next, Xmit, CleanStep, vars, Transmit, TimePasses, Watchdog, CleanTx, TestDone,
         FreeSlot, StoreNtc, WakeQueue, DetectHang, FifoTask, FifoWake, LinkDown, LinkUp,
         NetifTxDisable, NapiDisable, DownAndStop, CleanTxRing, Up

(* So do the buffers ...                                                     *)
LEMMA BufTyped == TypeOK /\ [Next]_vars => BufType'
<1> SUFFICES ASSUME TypeOK, [Next]_vars
             PROVE  BufType'
  OBVIOUS
<1> USE DEF ring, regs, net, ghost
<1>a. TypeOK /\ XmitType /\ BufType /\ DescType /\ CleanType /\ FifoType /\ RestType
  BY TypeParts
<1>b. Room \in Nat /\ 0 \in Slot /\ Count \in Nat /\ \A s \in Slot : Succ(s) \in Slot
  BY CountFact, SuccFacts, RingAssumption
<1>1. CASE Context
  <2>1. ntu \in Slot
    BY <1>a DEF RestType
  <2>2. QED
    BY <1>1, <1>a, <2>1 DEF Context, BufType, BufferSet
<1>2. CASE Map
  <2>1. PICK i \in Slot : i = xmit.i
    BY <1>a DEF XmitType
  <2>2. PICK c, b : c = buf[i] /\ b = [buf[i] EXCEPT !.dma = TRUE, !.stamp = "fresh", !.watch = i]
    OBVIOUS
  <2>a. c \in [dma : BOOLEAN, skb : Skb \cup {None}, watch : Slot, stamp : {"none", "fresh", "old"}]
    BY <1>a, <2>1, <2>2 DEF BufType, BufferSet
  <2>3. b \in [dma : BOOLEAN, skb : Skb \cup {None}, watch : Slot, stamp : {"none", "fresh", "old"}]
    BY <2>a, <2>2
  <2>b. b = [buf[i] EXCEPT !.dma = TRUE, !.stamp = "fresh", !.watch = i]
    BY <2>a, <2>2
  <2>4. buf' = [buf EXCEPT ![i] = b]
    <3>1. buf' = [buf EXCEPT ![i] = [@ EXCEPT !.dma = TRUE, !.stamp = "fresh", !.watch = i]]
      BY Zenon, <1>2, <2>1 DEF Map
    <3>2. QED
      BY Zenon, <2>b, <3>1
  <2>5. QED
    BY <1>a, <2>3, <2>4 DEF BufType, BufferSet
<1>3. CASE MapFails
  <2>1. PICK i \in Slot, first \in Slot : i = xmit.i /\ first = xmit.first
    BY <1>a DEF XmitType
  <2> DEFINE undone  == {Ahead(xmit.i, Count - k) : k \in 1..(xmit.n - 1)}
             cleared == [buf EXCEPT ![xmit.i].stamp = "fresh", ![xmit.i].dma = FALSE]
             freed   == [j \in Slot |-> IF j \in undone
                                        THEN [cleared[j] EXCEPT !.dma = FALSE, !.stamp = "none"]
                                        ELSE cleared[j]]
  <2>2. buf' = [freed EXCEPT ![xmit.first].stamp = "none"]
    BY <1>3 DEF MapFails
  <2> HIDE DEF undone
  <2>3. cleared \in BufferSet
    BY <1>a, <2>1 DEF BufType, BufferSet
  <2> HIDE DEF cleared
  <2>4. freed \in BufferSet
    <3>1. ASSUME NEW j \in Slot
          PROVE  freed[j] \in [dma : BOOLEAN, skb : Skb \cup {None}, watch : Slot,
                               stamp : {"none", "fresh", "old"}]
      <4>1. PICK c : c = cleared[j]
        OBVIOUS
      <4>2. c \in [dma : BOOLEAN, skb : Skb \cup {None}, watch : Slot,
                   stamp : {"none", "fresh", "old"}]
        BY <2>3, <4>1 DEF BufferSet
      <4>3. [c EXCEPT !.dma = FALSE, !.stamp = "none"]
              \in [dma : BOOLEAN, skb : Skb \cup {None}, watch : Slot,
                   stamp : {"none", "fresh", "old"}]
        BY <4>2
      <4>4. QED
        BY <4>1, <4>2, <4>3
    <3>2. QED
      BY <3>1 DEF BufferSet
  <2> HIDE DEF freed
  <2>5. QED
    BY <2>1, <2>2, <2>4 DEF BufType, BufferSet
<1>4. CASE Queue
  BY <1>4, <1>a DEF Queue, BufType, BufferSet, XmitType
<1>5. CASE TimePasses
  BY <1>5, <1>a DEF TimePasses, BufType, BufferSet
<1>6. CASE FreeSlot
  <2>1. PICK i \in Slot : i = clean.i
    BY <1>a DEF CleanType
  <2>2. PICK c, b : c = buf[i] /\ b = [buf[i] EXCEPT !.dma = FALSE, !.skb = None, !.stamp = "none"]
    OBVIOUS
  <2>a. c \in [dma : BOOLEAN, skb : Skb \cup {None}, watch : Slot, stamp : {"none", "fresh", "old"}]
    BY <1>a, <2>1, <2>2 DEF BufType, BufferSet
  <2>3. b \in [dma : BOOLEAN, skb : Skb \cup {None}, watch : Slot, stamp : {"none", "fresh", "old"}]
    BY <2>a, <2>2
  <2>b. b = [buf[i] EXCEPT !.dma = FALSE, !.skb = None, !.stamp = "none"]
    BY <2>a, <2>2
  <2>4. buf' = [buf EXCEPT ![i] = b]
    <3>1. buf' = [buf EXCEPT ![i] = [@ EXCEPT !.dma = FALSE, !.skb = None, !.stamp = "none"]]
      BY Zenon, <1>6, <2>1 DEF FreeSlot
    <3>2. QED
      BY Zenon, <2>b, <3>1
  <2>5. QED
    BY <1>a, <2>3, <2>4 DEF BufType, BufferSet
<1>7. CASE CleanTxRing
  BY <1>7, NoBufType DEF CleanTxRing, BufType, BufferSet
<1>8. CASE buf' = buf
  BY <1>a, <1>8 DEF BufType
<1>9. QED
  BY <1>1, <1>2, <1>3, <1>4, <1>5, <1>6, <1>7, <1>8
     DEF Next, Xmit, CleanStep, vars, MaybeStop, Recheck, Workaround, Stall, ScheduleFifoTask,
         WriteTail, Transmit, Watchdog, CleanTx, TestDone, StoreNtc, WakeQueue, DetectHang,
         FifoTask, FifoWake, LinkDown, LinkUp, NetifTxDisable, NapiDisable, DownAndStop, Up,
         XmitFrame

(* ... the descriptors ...                                                   *)
LEMMA DescTyped == TypeOK /\ [Next]_vars => DescType'
<1> SUFFICES ASSUME TypeOK, [Next]_vars
             PROVE  DescType'
  OBVIOUS
<1> USE DEF ring, regs, net, ghost
<1>a. TypeOK /\ XmitType /\ BufType /\ DescType /\ CleanType /\ FifoType /\ RestType
  BY TypeParts
<1>b. Room \in Nat /\ 0 \in Slot /\ Count \in Nat /\ \A s \in Slot : Succ(s) \in Slot
  BY CountFact, SuccFacts, RingAssumption
<1>1. CASE Context
  BY <1>1, <1>a DEF Context, DescType
<1>2. CASE Queue
  BY <1>2, <1>a DEF Queue, Fill, DescType
<1>3. CASE Transmit
  BY <1>3, <1>a DEF Transmit, DescType
<1>4. CASE FreeSlot
  BY <1>4, <1>a DEF FreeSlot, DescType
<1>5. CASE CleanTxRing
  BY <1>5 DEF CleanTxRing, DescType
<1>6. CASE desc' = desc
  BY <1>a, <1>6 DEF DescType
<1>7. QED
  BY <1>1, <1>2, <1>3, <1>4, <1>5, <1>6
     DEF Next, Xmit, CleanStep, vars, MaybeStop, Recheck, Workaround, Stall, ScheduleFifoTask,
         Map, MapFails, WriteTail, TimePasses, Watchdog, CleanTx, TestDone, StoreNtc, WakeQueue,
         DetectHang, FifoTask, FifoWake, LinkDown, LinkUp, NetifTxDisable, NapiDisable,
         DownAndStop, Up, XmitFrame

(* ... the clean-up's local variables ...                                    *)
LEMMA CleanTyped == TypeOK /\ [Next]_vars => CleanType'
<1> SUFFICES ASSUME TypeOK, [Next]_vars
             PROVE  CleanType'
  OBVIOUS
<1> USE DEF ring, regs, net, ghost
<1>a. TypeOK /\ XmitType /\ BufType /\ DescType /\ CleanType /\ FifoType /\ RestType
  BY TypeParts
<1>b. Room \in Nat /\ 0 \in Slot /\ Count \in Nat /\ \A s \in Slot : Succ(s) \in Slot
  BY CountFact, SuccFacts, RingAssumption
<1>1. CASE CleanTx
  <2>1. ntc \in Slot /\ buf[ntc].watch \in Slot
    BY <1>a DEF RestType, BufType, BufferSet
  <2>2. QED
    BY <1>1, <2>1 DEF CleanTx, CleanType
<1>2. CASE TestDone
  BY <1>2, <1>a DEF TestDone, CleanType
<1>3. CASE FreeSlot
  <2>1. Succ(clean.i) \in Slot /\ buf[Succ(clean.i)].watch \in Slot
    BY <1>a, <1>b DEF BufType, BufferSet, CleanType
  <2>2. QED
    BY <1>3, <1>a, <2>1 DEF FreeSlot, CleanType
<1>4. CASE StoreNtc
  BY <1>4, <1>a DEF StoreNtc, CleanType
<1>5. CASE WakeQueue
  BY <1>5, <1>a DEF WakeQueue, CleanType
<1>6. CASE DetectHang
  BY <1>6, <1>a, <1>b DEF DetectHang, CleanType
<1>7. CASE clean' = clean
  BY <1>a, <1>7 DEF CleanType
<1>8. QED
  BY <1>1, <1>2, <1>3, <1>4, <1>5, <1>6, <1>7
     DEF Next, Xmit, CleanStep, vars, MaybeStop, Recheck, Workaround, Stall, ScheduleFifoTask,
         Context, Map, MapFails, Queue, WriteTail, Transmit, TimePasses, Watchdog, FifoTask,
         FifoWake, LinkDown, LinkUp, NetifTxDisable, NapiDisable, DownAndStop, CleanTxRing, Up,
         XmitFrame

(* ... and what belongs to the FIFO task.                                    *)
LEMMA FifoTyped == TypeOK /\ [Next]_vars => FifoType'
<1> SUFFICES ASSUME TypeOK, [Next]_vars
             PROVE  FifoType'
  OBVIOUS
<1> USE DEF ring, regs, net, ghost
<1>a. TypeOK /\ XmitType /\ BufType /\ DescType /\ CleanType /\ FifoType /\ RestType
  BY TypeParts
<1>b. Room \in Nat /\ 0 \in Slot /\ Count \in Nat /\ \A s \in Slot : Succ(s) \in Slot
  BY CountFact, SuccFacts, RingAssumption
<1>1. CASE Workaround
  BY <1>1, <1>a DEF Workaround, FifoType
<1>2. CASE ScheduleFifoTask
  BY <1>2, <1>a DEF ScheduleFifoTask, FifoType
<1>3. CASE FifoTask
  BY <1>3, <1>a DEF FifoTask, FifoType
<1>4. CASE FifoWake
  BY <1>4, <1>a DEF FifoWake, FifoType
<1>5. CASE CleanTxRing
  BY <1>5, <1>a DEF CleanTxRing, FifoType
<1>6. CASE fifo' = fifo
  BY <1>a, <1>6 DEF FifoType
<1>7. QED
  BY <1>1, <1>2, <1>3, <1>4, <1>5, <1>6
     DEF Next, Xmit, CleanStep, vars, MaybeStop, Recheck, Stall, Context, Map, MapFails, Queue,
         WriteTail, Transmit, TimePasses, Watchdog, CleanTx, TestDone, FreeSlot, StoreNtc,
         WakeQueue, DetectHang, LinkDown, LinkUp, NetifTxDisable, NapiDisable, DownAndStop, Up,
         XmitFrame

(* The pointers stay in the ring, and the flags keep their types.            *)
LEMMA RestTyped == TypeOK /\ [Next]_vars => RestType'
<1> SUFFICES ASSUME TypeOK, [Next]_vars
             PROVE  RestType'
  OBVIOUS
<1> USE DEF ring, regs, net, ghost, RestType
<1>a. RestType /\ CleanType /\ XmitType
  BY TypeParts
<1>b. 0 \in Slot /\ \A s \in Slot : Succ(s) \in Slot
  BY CountFact, SuccFacts
<1>1. ASSUME NEW s \in Skb, NEW shape \in Shapes, XmitFrame(s, shape)
      PROVE  RestType'
  BY <1>1, <1>a DEF XmitFrame
<1>2. CASE MaybeStop
  BY <1>a, <1>b, <1>2 DEF MaybeStop
<1>3. CASE Recheck
  BY <1>a, <1>b, <1>3 DEF Recheck
<1>4. CASE Workaround
  BY <1>a, <1>b, <1>4 DEF Workaround
<1>5. CASE Stall
  BY <1>a, <1>b, <1>5 DEF Stall
<1>6. CASE ScheduleFifoTask
  BY <1>a, <1>b, <1>6 DEF ScheduleFifoTask
<1>7. CASE Context
  BY <1>a, <1>b, <1>7 DEF Context
<1>8. CASE Map
  BY <1>a, <1>b, <1>8 DEF Map, XmitType
<1>9. CASE MapFails
  BY <1>a, <1>b, <1>9 DEF MapFails, XmitType
<1>10. CASE Queue
  BY <1>a, <1>b, <1>10 DEF Queue
<1>11. CASE WriteTail
  BY <1>a, <1>b, <1>11 DEF WriteTail, XmitType
<1>12. CASE Transmit
  BY <1>a, <1>b, <1>12 DEF Transmit
<1>13. CASE TimePasses
  BY <1>a, <1>b, <1>13 DEF TimePasses
<1>14. CASE Watchdog
  BY <1>a, <1>b, <1>14 DEF Watchdog
<1>15. CASE CleanTx
  BY <1>a, <1>b, <1>15 DEF CleanTx
<1>16. CASE TestDone
  BY <1>a, <1>b, <1>16 DEF TestDone
<1>17. CASE FreeSlot
  BY <1>a, <1>b, <1>17 DEF FreeSlot
<1>18. CASE StoreNtc
  BY <1>a, <1>b, <1>18 DEF StoreNtc, CleanType
<1>19. CASE WakeQueue
  BY <1>a, <1>b, <1>19 DEF WakeQueue
<1>20. CASE DetectHang
  BY <1>a, <1>b, <1>20 DEF DetectHang
<1>21. CASE FifoTask
  BY <1>a, <1>b, <1>21 DEF FifoTask
<1>22. CASE FifoWake
  BY <1>a, <1>b, <1>22 DEF FifoWake
<1>23. CASE LinkDown
  BY <1>a, <1>b, <1>23 DEF LinkDown
<1>24. CASE LinkUp
  BY <1>a, <1>b, <1>24 DEF LinkUp
<1>25. CASE NetifTxDisable
  BY <1>a, <1>b, <1>25 DEF NetifTxDisable
<1>26. CASE NapiDisable
  BY <1>a, <1>b, <1>26 DEF NapiDisable
<1>27. CASE DownAndStop
  BY <1>a, <1>b, <1>27 DEF DownAndStop
<1>28. CASE CleanTxRing
  BY <1>a, <1>b, <1>28 DEF CleanTxRing
<1>29. CASE Up
  BY <1>a, <1>b, <1>29 DEF Up
<1>30. CASE UNCHANGED vars
  BY <1>a, <1>30 DEF vars
<1>31. QED
  BY <1>1, <1>2, <1>3, <1>4, <1>5, <1>6, <1>7, <1>8, <1>9, <1>10, <1>11, <1>12, <1>13, <1>14,
     <1>15, <1>16, <1>17, <1>18, <1>19, <1>20, <1>21, <1>22, <1>23, <1>24, <1>25, <1>26, <1>27,
     <1>28, <1>29, <1>30
     DEF Next, Xmit, CleanStep

LEMMA TypeNext == TypeOK /\ [Next]_vars => TypeOK'
<1> SUFFICES ASSUME TypeOK, [Next]_vars
             PROVE  TypeOK'
  OBVIOUS
<1>1. (XmitType /\ BufType /\ DescType /\ CleanType /\ FifoType /\ RestType)'
  BY XmitTyped, BufTyped, DescTyped, CleanTyped, FifoTyped, RestTyped
<1>2. QED
  BY <1>1 DEF TypeOK, XmitType, BufType, BufferSet, DescType, CleanType, FifoType, RestType

-----------------------------------------------------------------------------
(* At the start the ring is empty and nobody works.                          *)
LEMMA GoodInit == Init => Good
<1> SUFFICES ASSUME Init
             PROVE  Good
  OBVIOUS
<1>1. /\ ntu = 0 /\ ntc = 0 /\ tdh = 0 /\ tdt = 0 /\ Oldest = 0 /\ ~txdw /\ ~stopped
      /\ xmit.pc = "idle" /\ xmit.size = 0 /\ clean.pc = "idle" /\ reset = "up"
      /\ fifo.pc = "idle" /\ fault = "none" /\ ~hung
  BY DEF Init, NoXmit, Oldest
<1>2. \A s \in Slot : desc[s] = "free" /\ buf[s].dma = FALSE /\ buf[s].stamp = "none"
  BY DEF Init, NoBuf
<1>3. \A s \in Slot : ~Held(s) /\ ~Sent(s) /\ ~Taken(s)
  BY <1>1, CountFact DEF Held, Sent, Taken, Before, Dist, Working
<1>4. Dist(0, 0) = 0 /\ 0 \in Slot
  BY CountFact DEF Dist
<1>5. Order /\ InRoom
  BY <1>1, <1>4, CountFact DEF Order, InRoom, Working
<1>6. Frames /\ Marks /\ Reported
  BY <1>1, <1>2, <1>3 DEF Frames, Marks, Reported
<1>7. Mapped /\ Waking
  BY <1>1, <1>2, <1>3 DEF Mapped, Waking
<1>8. QED
  BY <1>5, <1>6, <1>7 DEF Good

(* What a step that leaves the ring, its pointers and the clean-up alone     *)
(* does to it: nothing.                                                      *)
RingOK == Order /\ Frames /\ Marks /\ Reported /\ Mapped
RingVars == <<may, ntu, ntc, buf, desc, tdh, tdt, txdw, clean, fault, hung>>

LEMMA SameRing ==
  ASSUME RingOK, UNCHANGED RingVars, xmit' = xmit \/ (~Working /\ ~Working')
  PROVE  RingOK'
<1>1. UNCHANGED <<may, ntu, ntc, buf, desc, tdh, tdt, txdw, clean, fault, hung>>
  BY DEF RingVars
<1>2. Oldest' = Oldest
  BY <1>1 DEF Oldest
<1>3. \A s \in Slot : /\ Held(s)' = Held(s) /\ Sent(s)' = Sent(s) /\ Taken(s)' = Taken(s)
                      /\ Starts(s)' = Starts(s) /\ Frame(s)' = Frame(s) /\ Ends(s)' = Ends(s)
  BY <1>1, <1>2 DEF Held, Sent, Before, Taken, Working, Starts, Frame, Ends
<1>4. Sent(clean.eop)' = Sent(clean.eop)
  BY <1>1, <1>2 DEF Sent, Before
<1>5. Order'
  BY <1>1, <1>2, <1>4 DEF RingOK, Order
<1>6. Frames'
  BY <1>1, <1>3 DEF RingOK, Frames
<1>7. Marks'
  BY <1>1, <1>3 DEF RingOK, Marks, Working
<1>8. Reported'
  BY <1>1 DEF RingOK, Reported
<1>9. Mapped'
  BY <1>1, <1>3 DEF RingOK, Mapped, Working
<1>10. QED
  BY <1>5, <1>6, <1>7, <1>8, <1>9 DEF RingOK

LEMMA GoodParts == Good <=> RingOK /\ InRoom /\ Waking
BY DEF Good, RingOK

LEMMA SameRoom ==
  ASSUME InRoom, UNCHANGED <<ntc, ntu, tdt, buf, desc>>, xmit' = xmit
  PROVE  InRoom'
BY DEF InRoom, Working

LEMMA RoomFacts ==
  ASSUME TypeOK, InRoom
  PROVE  /\ Count \in Nat /\ Count > 0 /\ Dist(ntc, tdt) \in 0 .. Count - 1
         /\ Dist(ntc, tdt) = 0 <=> ntc = tdt
         /\ Unused(ntu, ntc) = Count - 1 - Dist(ntc, ntu) /\ Dist(ntc, ntu) \in 0 .. Count - 1
         /\ ~Working => ntu = tdt
         /\ xmit.size \in Nat /\ xmit.size < Count
<1>1. ntc \in Slot /\ ntu \in Slot /\ tdt \in Slot /\ xmit.size \in Nat
  BY TypeFacts
<1>2. Dist(ntc, tdt) \in 0 .. Count - 1 /\ (Dist(ntc, tdt) = 0 <=> ntc = tdt)
  BY <1>1, DistFacts
<1>3. Dist(ntc, ntu) \in 0 .. Count - 1 /\ Unused(ntu, ntc) = Count - 1 - Dist(ntc, ntu)
  BY <1>1, DistFacts, UnusedDist
<1>4. QED
  BY <1>1, <1>2, <1>3, CountFact DEF InRoom

(* The steps of xmit that write nothing to the ring.                         *)
LEMMA XmitStarts ==
  ASSUME TypeOK, Good, NEW s \in Skb, NEW shape \in Shapes, XmitFrame(s, shape)
  PROVE  Good'
<1>1. /\ UNCHANGED RingVars /\ UNCHANGED <<stopped, excused, reset, fifo>>
      /\ xmit.pc = "idle" /\ ~stopped
      /\ xmit'.pc = IF Unused(ntu, ntc) >= Need(shape) THEN "workaround" ELSE "stop"
      /\ xmit'.size = Need(shape) /\ xmit'.shape = shape
  <2>1. xmit' = [xmit EXCEPT !.skb = s, !.shape = shape, !.size = Need(shape),
                   !.pc = IF Unused(ntu, ntc) >= Need(shape) THEN "workaround" ELSE "stop"]
    BY DEF XmitFrame
  <2>2. XmitType
    BY TypeParts
  <2>3. QED
    BY <2>1, <2>2 DEF XmitFrame, ring, regs, net, ghost, RingVars, XmitType
<1>2. RingOK'
  <2>1. RingOK /\ ~Working /\ ~Working'
    BY <1>1 DEF Good, RingOK, Working
  <2>2. QED
    BY <1>1, <2>1, SameRing
<1>3. Need(shape) < Count /\ Need(shape) = shape.context + shape.data + 3 /\ Need(shape) \in Nat
  BY RingAssumption, NeedFact
<1>4. ntu = tdt /\ Unused(ntu, ntc) = Count - 1 - Dist(ntc, tdt) /\ Dist(ntc, tdt) \in Nat
  BY <1>1, TypeFacts, UnusedDist, DistFacts, CountFact DEF Good, InRoom, Working
<1>5. InRoom'
  <2>1. UNCHANGED <<ntc, ntu, tdt, buf, desc>>
    BY <1>1 DEF RingVars
  <2>2. Unused(ntu, ntc) >= Need(shape) => Dist(ntc, tdt) + Need(shape) < Count
    BY <1>3, <1>4, CountFact
  <2>3. QED
    BY <1>1, <1>3, <1>4, <2>1, <2>2 DEF InRoom, Working
<1>6. Waking'
  BY <1>1 DEF Good, Waking, RingVars
<1>7. QED
  BY <1>2, <1>5, <1>6 DEF Good, RingOK

LEMMA MaybeStopOK ==
  ASSUME TypeOK, Good, MaybeStop
  PROVE  Good'
<1>1. /\ UNCHANGED RingVars /\ UNCHANGED <<excused, reset, fifo>>
      /\ xmit.pc \in {"stop", "stop_after"} /\ stopped'
      /\ xmit'.pc = IF xmit.pc = "stop" THEN "recheck" ELSE "recheck_after"
      /\ xmit'.size = xmit.size /\ xmit'.shape = xmit.shape
  <2>1. XmitType
    BY TypeParts
  <2>2. QED
    BY <2>1 DEF MaybeStop, ring, regs, net, ghost, RingVars, XmitType
<1>2. RingOK'
  <2>1. RingOK /\ ~Working /\ ~Working'
    BY <1>1 DEF Good, RingOK, Working
  <2>2. QED
    BY <1>1, <2>1, SameRing
<1>3. InRoom'
  <2>1. UNCHANGED <<ntc, ntu, tdt, buf, desc>>
    BY <1>1 DEF RingVars
  <2>2. QED
    BY <1>1, <2>1 DEF Good, InRoom, Working
<1>4. Waking'
  BY <1>1 DEF Good, Waking, RingVars, Working
<1>5. QED
  BY <1>2, <1>3, <1>4 DEF Good, RingOK

(* After a look at next_to_clean xmit leaves the queue stopped only if there *)
(* is something to clean, whose end will wake it.                            *)
LEMMA RecheckOK ==
  ASSUME TypeOK, Good, Recheck
  PROVE  Good'
<1>1. /\ UNCHANGED RingVars /\ UNCHANGED <<reset, fifo>>
      /\ xmit.pc \in {"recheck", "recheck_after"}
  BY DEF Recheck, ring, regs, net, ghost, RingVars
<1>2. \/ Unused(ntu, ntc) < xmit.size /\ xmit' = NoXmit /\ UNCHANGED <<stopped, excused>>
      \/ /\ Unused(ntu, ntc) >= xmit.size /\ stopped' = FALSE
         /\ xmit' = IF xmit.pc = "recheck" THEN [xmit EXCEPT !.pc = "workaround"] ELSE NoXmit
  <2>1. Unused(ntu, ntc) \in Int /\ xmit.size \in Nat
    BY RoomFacts DEF Good
  <2>2. QED
    BY <2>1 DEF Recheck
<1>3. NoXmit.pc = "idle" /\ NoXmit.size = 0
  BY DEF NoXmit
<1>4. \/ xmit'.pc = "idle" /\ xmit'.size = 0
      \/ /\ xmit.pc = "recheck" /\ xmit'.pc = "workaround" /\ xmit'.shape = xmit.shape
         /\ xmit'.size = xmit.size /\ Unused(ntu, ntc) >= xmit.size
  <2>1. XmitType
    BY TypeParts
  <2>2. QED
    BY <1>1, <1>2, <1>3, <2>1 DEF XmitType
<1>5. RingOK'
  <2>1. RingOK /\ ~Working /\ ~Working'
    BY <1>1, <1>4 DEF Good, RingOK, Working
  <2>2. QED
    BY <1>1, <2>1, SameRing
<1>6. ntu = tdt /\ Unused(ntu, ntc) = Count - 1 - Dist(ntc, tdt) /\ Dist(ntc, tdt) \in Nat
      /\ (Dist(ntc, tdt) = 0 <=> ntc = tdt) /\ Count \in Nat /\ Count > 0
  BY <1>1, RoomFacts DEF Good, Working
<1>7. xmit.size < Count /\ xmit.size \in Nat
  BY TypeFacts DEF Good, InRoom
<1>8. InRoom'
  <2>1. UNCHANGED <<ntc, ntu, tdt, buf, desc>>
    BY <1>1 DEF RingVars
  <2>2. CASE xmit'.pc = "idle" /\ xmit'.size = 0
    BY <1>6, <2>1, <2>2 DEF InRoom, Working
  <2>3. CASE /\ xmit.pc = "recheck" /\ xmit'.pc = "workaround" /\ xmit'.shape = xmit.shape
             /\ xmit'.size = xmit.size /\ Unused(ntu, ntc) >= xmit.size
    <3>1. Dist(ntc, tdt) + Need(xmit.shape) < Count
      BY <1>6, <1>7, <2>3 DEF Good, InRoom
    <3>2. QED
      BY <1>6, <1>7, <2>1, <2>3, <3>1 DEF InRoom, Working
  <2>4. QED
    BY <1>4, <2>2, <2>3
<1>9. Waking'
  <2>1. CASE ~stopped'
    BY <1>1, <1>4, <2>1 DEF Good, Waking, RingVars
  <2>2. CASE Unused(ntu, ntc) < xmit.size /\ xmit' = NoXmit /\ UNCHANGED <<stopped, excused>>
    <3>1. ntc # tdt
      BY <1>6, <1>7, <2>2
    <3>2. Waker'
      BY <1>1, <3>1 DEF Waker, RingVars
    <3>3. QED
      BY <1>1, <1>3, <2>2, <3>2 DEF Good, Waking, RingVars, Working
  <2>3. QED
    BY <1>2, <2>1, <2>2
<1>10. QED
  BY <1>5, <1>8, <1>9 DEF Good, RingOK

(* The FIFO workaround: it may say stall, and the queue is stopped, even     *)
(* when the FIFO task has woken it in the meantime.                          *)
LEMMA WorkaroundOK ==
  ASSUME TypeOK, Good, Workaround
  PROVE  Good'
<1>1. /\ UNCHANGED RingVars /\ UNCHANGED <<stopped, excused, reset>> /\ xmit.pc = "workaround"
  BY DEF Workaround, ring, regs, net, ghost, RingVars
<1>2. /\ xmit'.pc \in {"context", "stall"} /\ xmit'.shape = xmit.shape /\ xmit'.size = xmit.size
      /\ fifo'.pc = fifo.pc /\ fifo'.queued = fifo.queued
  <2>1. XmitType /\ FifoType
    BY TypeParts
  <2>2. QED
    BY <2>1 DEF Workaround, XmitType, FifoType
<1>3. RingOK'
  <2>1. RingOK /\ ~Working /\ ~Working'
    BY <1>1, <1>2 DEF Good, RingOK, Working
  <2>2. QED
    BY <1>1, <2>1, SameRing
<1>4. InRoom'
  <2>1. UNCHANGED <<ntc, ntu, tdt, buf, desc>>
    BY <1>1 DEF RingVars
  <2>2. QED
    BY <1>1, <1>2, <2>1 DEF Good, InRoom, Working
<1>5. Waking'
  BY <1>1, <1>2 DEF Good, Waking, RingVars, Working
<1>6. QED
  BY <1>3, <1>4, <1>5 DEF Good, RingOK

LEMMA StallOK ==
  ASSUME TypeOK, Good, Stall
  PROVE  Good'
<1>1. /\ UNCHANGED RingVars /\ UNCHANGED <<fifo, reset>> /\ xmit.pc = "stall" /\ stopped'
      /\ excused' = IF ~fifo.stall /\ fifo.pc = "idle" THEN excused \cup {"fifo"} ELSE excused
  BY DEF Stall, ring, regs, net, ghost, RingVars
<1>2. xmit'.pc = "schedule" /\ xmit'.shape = xmit.shape /\ xmit'.size = xmit.size
  <2>1. XmitType
    BY TypeParts
  <2>2. QED
    BY <2>1 DEF Stall, XmitType
<1>3. RingOK'
  <2>1. RingOK /\ ~Working /\ ~Working'
    BY <1>1, <1>2 DEF Good, RingOK, Working
  <2>2. QED
    BY <1>1, <2>1, SameRing
<1>4. InRoom'
  <2>1. UNCHANGED <<ntc, ntu, tdt, buf, desc>>
    BY <1>1 DEF RingVars
  <2>2. QED
    BY <1>1, <1>2, <2>1 DEF Good, InRoom, Working
<1>5. Waking'
  <2>1. excused' = {} => fifo.stall \/ fifo.pc = "wake"
    <3>1. fifo.pc \in {"idle", "wake"}
      BY TypeParts DEF FifoType
    <3>2. QED
      BY <1>1, <3>1
  <2>2. QED
    BY <1>1, <1>2, <2>1 DEF Good, Waking, RingVars, Working
<1>6. QED
  BY <1>3, <1>4, <1>5 DEF Good, RingOK

LEMMA ScheduleOK ==
  ASSUME TypeOK, Good, ScheduleFifoTask
  PROVE  Good'
<1>1. /\ UNCHANGED RingVars /\ UNCHANGED <<stopped, excused, reset>> /\ xmit.pc = "schedule"
      /\ xmit' = NoXmit
  BY DEF ScheduleFifoTask, ring, regs, net, ghost, RingVars
<1>2. xmit'.pc = "idle" /\ xmit'.size = 0
  BY <1>1 DEF NoXmit
<1>3. fifo'.queued = (fifo.queued \/ reset # "down") /\ fifo'.stall = fifo.stall
      /\ fifo'.pc = fifo.pc
  BY TypeParts DEF ScheduleFifoTask, FifoType
<1>4. RingOK'
  <2>1. RingOK /\ ~Working /\ ~Working'
    BY <1>1, <1>2 DEF Good, RingOK, Working
  <2>2. QED
    BY <1>1, <2>1, SameRing
<1>5. InRoom'
  <2>1. UNCHANGED <<ntc, ntu, tdt, buf, desc>>
    BY <1>1 DEF RingVars
  <2>2. QED
    BY <1>1, <1>2, <2>1, CountFact DEF Good, InRoom, Working
<1>6. Waking'
  <2>1. reset = "up"
    BY <1>1 DEF Good, Waking
  <2>2. stopped /\ excused = {} => Waker'
    BY <1>1, <1>3, <2>1 DEF Good, Waking, Waker
  <2>3. QED
    BY <1>1, <1>2, <2>1, <2>2 DEF Waking, Working
<1>7. QED
  BY <1>4, <1>5, <1>6 DEF Good, RingOK

(* The FIFO task, the link, the watchdog and e1000_down's steps up to DOWN   *)
(* leave the ring alone.                                                     *)
LEMMA AsideOK ==
  ASSUME TypeOK, Good, ~rewoken',
         Watchdog \/ FifoTask \/ FifoWake \/ LinkDown \/ LinkUp \/ NetifTxDisable
           \/ NapiDisable \/ DownAndStop \/ Up \/ UNCHANGED vars
  PROVE  Good'
<1>1. UNCHANGED RingVars /\ xmit' = xmit
  BY DEF Watchdog, FifoTask, FifoWake, LinkDown, LinkUp, NetifTxDisable, NapiDisable, DownAndStop,
         Up, vars, ring, regs, net, ghost, RingVars
<1>2. RingOK' /\ InRoom'
  <2>1. RingOK /\ InRoom /\ UNCHANGED <<ntc, ntu, tdt, buf, desc>>
    BY <1>1 DEF Good, RingOK, RingVars
  <2>2. QED
    BY <1>1, <2>1, SameRing, SameRoom
<1>3. Waking'
  <2> USE <1>1 DEF Good, Waking, RingVars, Working, Waker, ring, regs, net, ghost
  <2>1. CASE Watchdog \/ LinkDown \/ LinkUp \/ UNCHANGED vars
    BY <2>1 DEF Watchdog, LinkDown, LinkUp, vars
  <2>2. CASE FifoTask
    <3>1. FifoType
      BY TypeParts
    <3>2. QED
      BY <2>2, <3>1 DEF FifoTask, FifoType
  <2>3. CASE FifoWake
    <3>1. FifoType
      BY TypeParts
    <3>2. fifo'.pc = "idle" /\ fifo'.queued = fifo.queued /\ ~stopped'
          /\ reset' = reset
      BY <2>3, <3>1 DEF FifoWake, FifoType
    <3>3. reset = "up"
      <4>1. reset # "clean"
        BY <2>3 DEF FifoWake
      <4>2. ~(stopped /\ reset \in {"disabled", "polled", "down"})
        BY <2>3 DEF FifoWake
      <4>3. reset \in {"up", "disabled", "polled", "down", "clean"}
        BY DEF TypeOK
      <4>4. QED
        BY <4>1, <4>2, <4>3
    <3>4. QED
      BY <3>2, <3>3
  <2>4. CASE NetifTxDisable
    BY <2>4 DEF NetifTxDisable
  <2>5. CASE NapiDisable
    BY <2>5 DEF NapiDisable
  <2>6. CASE DownAndStop
    BY <2>6 DEF DownAndStop
  <2>7. CASE Up
    BY <2>7 DEF Up
  <2>8. QED
    BY <2>1, <2>2, <2>3, <2>4, <2>5, <2>6, <2>7
<1>4. QED
  BY <1>2, <1>3 DEF Good, RingOK

-----------------------------------------------------------------------------
(* Slots between two others.                                                 *)
LEMMA BeforeOn ==
  ASSUME NEW o \in Slot, NEW s \in Slot, NEW e \in Slot, NEW t \in Slot,
         Before(o, s, t), Before(s, e, t)
  PROVE  Before(o, e, t) /\ Before(o, o, t)
BY CountFact DEF Before, Dist

LEMMA BeforeBoth ==
  ASSUME NEW s \in Slot, NEW k \in Slot, NEW e \in Slot, NEW t \in Slot,
         Before(s, k, e), Before(s, e, t)
  PROVE  Before(s, k, t)
BY CountFact DEF Before, Dist

LEMMA BeforeSucc ==
  ASSUME NEW o \in Slot, NEW p \in Slot, NEW t \in Slot, Before(o, Succ(p), t), o # Succ(p)
  PROVE  Before(o, p, t)
BY CountFact DEF Before, Dist, Succ

LEMMA SentHeld ==
  ASSUME TypeOK, Order, NEW s \in Slot, Sent(s)
  PROVE  Held(s) /\ Held(Oldest)
<1>1. /\ Oldest \in Slot /\ tdt \in Slot /\ tdh \in Slot
      /\ Dist(Oldest, tdh) <= Dist(Oldest, tdt)
  BY TypeFacts DEF Order
<1>2. /\ Dist(Oldest, s) \in Nat /\ Dist(Oldest, tdh) \in Nat /\ Dist(Oldest, tdt) \in Nat
      /\ Dist(Oldest, Oldest) = 0
  BY <1>1, DistFacts, CountFact
<1>3. QED
  BY <1>1, <1>2 DEF Sent, Held, Before

(* A step that writes to slots which hold no frame leaves the frames alone.  *)
Spared ==
  \A s \in Slot : Held(s) => desc'[s] = desc[s] /\ buf'[s].watch = buf[s].watch
Unmarked ==
  \A s \in Slot : ~Held(s) => /\ desc'[s] # "done"
                              /\ desc'[s] = "last" => xmit'.pc = "tail" /\ s = xmit'.i

LEMMA WriteFree ==
  ASSUME TypeOK, Order, Frames, Marks, Reported,
         UNCHANGED <<ntc, tdh, tdt, txdw, clean>>, Spared, Unmarked
  PROVE  (Order /\ Frames /\ Marks /\ Reported)'
<1>1. Oldest' = Oldest /\ UNCHANGED <<ntc, tdh, tdt, txdw, clean>>
  BY DEF Oldest
<1>2. \A s \in Slot : Held(s)' = Held(s) /\ Sent(s)' = Sent(s)
  BY <1>1 DEF Held, Sent, Before
<1>3. \A s \in Slot : /\ Held(s) => Ends(s)' = Ends(s) /\ desc'[s] = desc[s]
                      /\ Held(s) => buf'[s].watch = buf[s].watch
                      /\ Sent(s) => Held(s) /\ Held(Oldest)
  BY SentHeld DEF Spared, Ends
<1>4. /\ Oldest \in Slot /\ tdt \in Slot /\ clean.eop \in Slot
      /\ \A s \in Slot : buf[s].watch \in Slot
  BY TypeFacts
<1>5. Order'
  <2>1. clean.pc = "free" => Sent(clean.eop)' /\ desc'[clean.eop] = "done"
    BY <1>2, <1>3, <1>4 DEF Order
  <2>2. QED
    BY <1>1, <2>1 DEF Order
<1>6. \A s \in Slot : Held(s) /\ Starts(s)' => Starts(s)
  <2> SUFFICES ASSUME NEW s \in Slot, Held(s), Starts(s)', s # Oldest
               PROVE  Starts(s)
    BY <1>1 DEF Starts
  <2>1. PICK p \in Slot : s = Succ(p) /\ Ends(p)'
    BY <1>1 DEF Starts
  <2>2. Held(p)
    BY <1>4, <2>1, BeforeSucc DEF Held
  <2>3. Ends(p)
    BY <1>3, <2>1, <2>2
  <2>4. QED
    BY <2>1, <2>3 DEF Starts
<1>7. ASSUME NEW s \in Slot, Held(s), Frame(s)
      PROVE  Frame(s)'
  <2>1. PICK e \in Slot : e = buf[s].watch
    BY <1>4
  <2>2. Before(s, e, tdt) /\ Ends(e) /\ \A k \in Slot : Before(s, k, e) => ~Ends(k)
    BY <1>7, <2>1 DEF Frame
  <2>3. Held(e)
    BY <1>4, <1>7, <2>2, BeforeOn DEF Held
  <2>4. ASSUME NEW k \in Slot, Before(s, k, e)
        PROVE  ~Ends(k)'
    <3>1. Before(s, k, tdt)
      BY <1>4, <2>2, <2>4, BeforeBoth
    <3>2. Held(k)
      BY <1>4, <1>7, <3>1, BeforeOn DEF Held
    <3>3. QED
      BY <1>3, <2>2, <2>4, <3>2
  <2>5. buf'[s].watch = e /\ Ends(e)'
    BY <1>3, <1>7, <2>1, <2>2, <2>3
  <2>6. Before(s, e, tdt)' /\ \A k \in Slot : Before(s, k, e)' = Before(s, k, e)
    BY <1>1, <2>2 DEF Before
  <2>7. QED
    BY <1>1, <2>4, <2>5, <2>6 DEF Frame, Before
<1>8. Frames'
  <2>1. \A s \in Slot : Held(s)' /\ Starts(s)' => Frame(s)'
    BY <1>2, <1>6, <1>7 DEF Frames
  <2>2. \A s \in Slot : Held(s)' /\ Succ(s) = tdt' => Ends(s)'
    BY <1>1, <1>2, <1>3 DEF Frames
  <2>3. QED
    BY <2>1, <2>2 DEF Frames
<1>9. Marks'
  BY <1>2, <1>3 DEF Marks, Unmarked
<1>10. Reported'
  <2>1. ASSUME NEW d \in Slot, desc'[d] = "done"
        PROVE  desc[d] = "done" /\ Held(Oldest)
    BY <1>3, <2>1 DEF Unmarked, Marks
  <2>2. clean.pc = "test" => clean.i = Oldest
    BY DEF Oldest
  <2>3. QED
    BY <1>1, <1>3, <1>4, <2>1, <2>2 DEF Reported
<1>11. QED
  BY <1>5, <1>8, <1>9, <1>10

(* The room that xmit has seen lies behind what the ring holds.              *)
InHand == xmit.pc = "context" \/ Working

LEMMA Behind ==
  ASSUME TypeOK, Order, InRoom, InHand
  PROVE  /\ \A s \in Slot : Dist(tdt, s) <= xmit.shape.context + xmit.shape.data + 1
              => ~Held(s) /\ Dist(Oldest, s) = Dist(Oldest, tdt) + Dist(tdt, s)
         /\ Dist(Oldest, tdt) \in Nat /\ Count > 3
         /\ Dist(Oldest, tdt) + xmit.shape.context + xmit.shape.data + 3 < Count
<1>1. /\ ntc \in Slot /\ tdt \in Slot /\ Oldest \in Slot
      /\ xmit.shape.context \in Nat /\ xmit.shape.data \in Nat
      /\ Need(xmit.shape) = xmit.shape.context + xmit.shape.data + 3
  BY TypeFacts
<1>2. Dist(ntc, tdt) = Dist(ntc, Oldest) + Dist(Oldest, tdt)
  BY <1>1, Through DEF Order
<1>3. /\ Dist(ntc, Oldest) \in Nat /\ Dist(Oldest, tdt) \in Nat /\ Dist(ntc, tdt) \in Nat
      /\ Count \in Nat
  BY <1>1, DistNat, CountFact
<1>4. Dist(ntc, tdt) + xmit.shape.context + xmit.shape.data + 3 < Count
  BY <1>1, <1>3 DEF InRoom, InHand
<1>5. Dist(Oldest, tdt) + xmit.shape.context + xmit.shape.data + 3 < Count
  BY <1>1, <1>2, <1>3, <1>4
<1>6. ASSUME NEW s \in Slot, Dist(tdt, s) <= xmit.shape.context + xmit.shape.data + 1
      PROVE  ~Held(s) /\ Dist(Oldest, s) = Dist(Oldest, tdt) + Dist(tdt, s)
  <2>1. Dist(tdt, s) \in Nat /\ Dist(Oldest, tdt) + Dist(tdt, s) < Count
    <3>1. Dist(tdt, s) \in Nat
      BY <1>1, DistNat
    <3>2. QED
      BY <1>1, <1>3, <1>5, <1>6, <3>1
  <2>2. Dist(Oldest, s) = Dist(Oldest, tdt) + Dist(tdt, s)
    BY <1>1, <2>1, Through
  <2>3. QED
    BY <1>3, <2>1, <2>2 DEF Held, Before
<1>7. Count > 3
  BY <1>1, <1>3, <1>5
<1>8. QED
  BY <1>3, <1>5, <1>6, <1>7

LEMMA InHandWakes ==
  ASSUME Waking, InHand, UNCHANGED <<stopped, excused, reset, fifo, clean>>
  PROVE  Waking'
<1>1. reset = "up" /\ ~(stopped /\ excused = {})
  <2>1. reset = "up"
    BY DEF Waking, InHand, Working
  <2>2. QED
    BY <2>1 DEF Waking, InHand, Working
<1>2. QED
  BY <1>1 DEF Waking

-----------------------------------------------------------------------------
(* The steps of xmit that write to the ring: e1000_tso, e1000_tx_csum and    *)
(* e1000_tx_map write behind the tail.                                       *)
LEMMA ContextOK ==
  ASSUME TypeOK, TypeOK', Good, Context
  PROVE  Good'
<1>1. /\ xmit.pc = "context" /\ ntu = tdt /\ InHand
      /\ UNCHANGED <<may, ntc, tdh, tdt, txdw, clean, fault, hung, stopped, excused, reset, fifo>>
  BY DEF Context, Good, InRoom, InHand, Working, regs, net, ghost
<1>2. PICK t \in Slot, c \in 0..1, d \in Nat :
        t = tdt /\ c = xmit.shape.context /\ d = xmit.shape.data /\ d > 0
  BY TypeFacts
<1>3. /\ xmit'.pc = "map" /\ xmit'.first = t /\ xmit'.i = ntu' /\ xmit'.n = 0
      /\ xmit'.shape = xmit.shape /\ xmit'.size = xmit.size
  <2>1. XmitType
    BY TypeParts
  <2>2. xmit' = [xmit EXCEPT !.first = ntu, !.i = ntu', !.n = 0, !.pc = "map"]
    BY DEF Context
  <2>3. QED
    BY <1>1, <1>2, <2>1, <2>2 DEF XmitType
<1>4. Dist(t, t) = 0 /\ Dist(t, Succ(t)) = 1 /\ Succ(t) \in Slot
  <2>1. Count > 3
    BY <1>1, Behind DEF Good
  <2>2. Dist(t, t) = 0
    BY DistFacts
  <2>3. Dist(t, t) < Count - 1 => Dist(t, Succ(t)) = Dist(t, t) + 1
    BY DistSucc
  <2>4. QED
    BY <2>1, <2>2, <2>3, SuccFacts, CountFact
<1>5. \/ c = 0 /\ UNCHANGED <<desc, buf, ntu>>
      \/ /\ c = 1 /\ ntu' = Succ(t)
         /\ desc' = [desc EXCEPT ![t] = "context"]
         /\ buf' = [buf EXCEPT ![t].stamp = "fresh", ![t].watch = t]
  BY <1>1, <1>2 DEF Context
<1>6. /\ desc'[t] # "done" /\ (c = 1 => desc'[t] = "context")
      /\ \A s \in Slot : desc'[s] = desc[s] \/ (c = 1 /\ s = t /\ desc'[s] = "context")
  <2>1. desc \in [Slot -> {"free", "context", "data", "last", "done"}] /\ ~Held(t)
    BY <1>1, <1>2, <1>4, Behind DEF Good, TypeOK
  <2>2. desc[t] # "done"
    BY <2>1, SentHeld DEF Good, Marks
  <2>3. QED
    BY <1>5, <2>1, <2>2
<1>7. \A s \in Slot : \/ buf'[s] = buf[s]
                      \/ c = 1 /\ s = t /\ buf'[s].dma = buf[s].dma /\ buf'[s].stamp = "fresh"
  <2>1. BufType
    BY TypeParts
  <2>2. QED
    BY <1>5, <2>1 DEF BufType, BufferSet
<1>8. ~Held(t)
  BY <1>1, <1>2, <1>4, Behind DEF Good
<1>9. Spared
  BY <1>6, <1>7, <1>8 DEF Spared
<1>10. Unmarked
  BY <1>1, <1>6, SentHeld DEF Unmarked, Good, Marks
<1>11. (Order /\ Frames /\ Marks /\ Reported)'
  BY <1>1, <1>9, <1>10, WriteFree DEF Good
<1>12. InRoom'
  <2>1. Dist(t, ntu') = c
    BY <1>1, <1>2, <1>4, <1>5
  <2>2. /\ xmit'.size < Count
        /\ Dist(ntc, tdt) + Need(xmit.shape) < Count
    BY <1>1, <1>3 DEF Good, InRoom
  <2>3. QED
    BY <1>1, <1>2, <1>3, <1>6, <2>1, <2>2 DEF InRoom, Working
<1>13. Mapped'
  <2> SUFFICES ASSUME "map_fails" \notin may
               PROVE  Mapped'
    BY <1>1 DEF Mapped
  <2>1. \A s \in Slot : Held(s)' = Held(s)
    BY <1>1 DEF Held, Before, Oldest
  <2>2. \A s \in Slot : ~Taken(s)
    BY <1>1 DEF Taken, Working
  <2>3. c = 1 => Taken(t)'
    BY <1>1, <1>2, <1>3, <1>4 DEF Taken, Working
  <2>4. \A s \in Slot : Dist(ntu', s) \in Nat
    BY <1>1, <1>2, <1>4, <1>5, DistNat
  <2>5. QED
    BY <1>1, <1>3, <1>6, <1>7, <2>1, <2>2, <2>3, <2>4 DEF Good, Mapped
<1>14. Waking'
  BY <1>1, InHandWakes DEF Good
<1>15. QED
  BY <1>11, <1>12, <1>13, <1>14 DEF Good

LEMMA MapOK ==
  ASSUME TypeOK, TypeOK', Good, Map
  PROVE  Good'
<1>1. /\ xmit.pc = "map" /\ InHand
      /\ UNCHANGED <<may, ntu, ntc, desc, tdh, tdt, txdw, clean, hung, stopped, excused, reset, fifo>>
      /\ fault' = IF buf[xmit.i].dma THEN "mapping_lost" ELSE fault
  BY DEF Map, InHand, Working, regs, net, ghost
<1>2. PICK t \in Slot, i \in Slot, u \in Slot, c \in 0..1, d \in Nat, n \in Nat :
        /\ t = tdt /\ i = xmit.i /\ u = ntu /\ n = xmit.n
        /\ c = xmit.shape.context /\ d = xmit.shape.data
  BY TypeFacts
<1>3. n < d /\ Dist(t, i) = c + n /\ Dist(t, u) = c /\ xmit.first = t /\ (c = 1 => desc[t] = "context")
      /\ xmit.size < Count /\ Dist(ntc, t) + Need(xmit.shape) < Count
  BY <1>1, <1>2 DEF Good, InRoom, Working
<1>4. /\ xmit'.first = t /\ xmit'.n = n + 1 /\ xmit'.shape = xmit.shape /\ xmit'.size = xmit.size
      /\ \/ n + 1 = d /\ xmit'.pc = "queue" /\ xmit'.i = i
         \/ n + 1 < d /\ xmit'.pc = "map" /\ xmit'.i = Succ(i)
  <2>1. XmitType
    BY TypeParts
  <2>2. xmit' = IF xmit.n + 1 = xmit.shape.data
                  THEN [xmit EXCEPT !.n = @ + 1, !.pc = "queue"]
                  ELSE [xmit EXCEPT !.n = @ + 1, !.i = Succ(@)]
    BY DEF Map
  <2>3. n + 1 = d \/ n + 1 < d
    BY <1>3
  <2>4. QED
    BY <1>1, <1>2, <1>3, <2>1, <2>2, <2>3 DEF XmitType
<1>5. /\ Dist(Oldest, t) \in Nat /\ Dist(Oldest, t) + c + d + 3 < Count
      /\ ~Held(i) /\ \A s \in Slot : Dist(t, s) <= c + d + 1 => ~Held(s)
  <2>1. Dist(t, i) <= c + d + 1
    BY <1>3
  <2>2. QED
    BY <1>1, <1>2, <2>1, Behind DEF Good
<1>6. Dist(t, Succ(i)) = c + n + 1 /\ Dist(u, i) = n
  <2>1. Dist(t, i) < Count - 1
    BY <1>3, <1>5, CountFact
  <2>2. Dist(t, i) = Dist(t, u) + Dist(u, i)
    BY <1>3, Through
  <2>3. Dist(u, i) \in Nat
    BY DistNat
  <2>4. Dist(t, Succ(i)) = Dist(t, i) + 1
    BY <2>1, DistSucc
  <2>5. Dist(t, i) = c + n /\ Dist(t, u) = c
    BY <1>3
  <2>6. QED
    BY <2>2, <2>3, <2>4, <2>5
<1>7. \A s \in Slot : \/ buf'[s] = buf[s] /\ s # i
                      \/ s = i /\ buf'[s].dma = TRUE /\ buf'[s].stamp = "fresh"
  <2>1. buf \in BufferSet
    BY TypeParts DEF BufType
  <2>2. buf' = [buf EXCEPT ![i] = [@ EXCEPT !.dma = TRUE, !.stamp = "fresh", !.watch = i]]
    BY <1>2, Zenon DEF Map
  <2>3. QED
    BY <2>1, <2>2 DEF BufferSet
<1>8. Spared
  BY <1>1, <1>5, <1>7 DEF Spared
<1>9. Unmarked
  BY <1>1, SentHeld DEF Unmarked, Good, Marks
<1>10. (Order /\ Frames /\ Marks /\ Reported)'
  BY <1>1, <1>8, <1>9, WriteFree DEF Good
<1>11. InRoom'
  BY <1>1, <1>2, <1>3, <1>4, <1>6 DEF InRoom, Working
<1>12. Mapped'
  <2> SUFFICES ASSUME "map_fails" \notin may
               PROVE  Mapped'
    BY <1>1 DEF Mapped
  <2>1. \A s \in Slot : Held(s)' = Held(s)
    BY <1>1 DEF Held, Before, Oldest
  <2>2. \A s \in Slot : Taken(s)' <=> Dist(t, s) < c + n + 1
    BY <1>1, <1>2, <1>4 DEF Taken, Working
  <2>3. \A s \in Slot : Taken(s) <=> Dist(t, s) < c + n
    BY <1>1, <1>2 DEF Taken, Working
  <2>4. \A s \in Slot : Taken(s) => Taken(s)'
    BY <2>2, <2>3, DistNat
  <2>5. Taken(i)' /\ ~Taken(i)
    BY <1>3, <2>2, <2>3
  <2>6. ~buf[i].dma
    BY <1>5, <2>5 DEF Good, Mapped
  <2>7. \A s \in Slot : Dist(u, s) < n + 1 => Dist(u, s) < n \/ s = i
    <3> SUFFICES ASSUME NEW s \in Slot, Dist(u, s) < n + 1, ~(Dist(u, s) < n)
                 PROVE  s = i
      OBVIOUS
    <3>1. Dist(u, s) = Dist(u, i)
      BY <1>6, DistNat
    <3>2. QED
      BY <3>1, DistFacts
  <2>8. fault' = "none" /\ ~hung'
    BY <1>1, <1>2, <2>6 DEF Good, Mapped
  <2>9. ASSUME NEW s \in Slot
        PROVE  /\ desc'[s] \in {"data", "last"} => buf'[s].dma
               /\ Dist(u, s) < n + 1 => buf'[s].dma
               /\ buf'[s].dma => Held(s) \/ Taken(s)'
               /\ buf'[s].stamp = "fresh" => Held(s) \/ Taken(s)'
               /\ buf'[s].stamp = "old" => Held(s)
    <3>1. CASE s = i
      BY <1>7, <2>5, <3>1
    <3>2. CASE s # i
      BY <1>1, <1>2, <1>7, <2>4, <2>7, <3>2 DEF Good, Mapped
    <3>3. QED
      BY <3>1, <3>2
  <2>10. QED
    BY <1>1, <1>2, <1>4, <2>1, <2>8, <2>9 DEF Mapped
<1>13. Waking'
  BY <1>1, InHandWakes DEF Good
<1>14. QED
  BY <1>10, <1>11, <1>12, <1>13 DEF Good

(* When a mapping fails the frame is given up: next_to_use goes back.        *)
LEMMA MapFailsOK ==
  ASSUME TypeOK, TypeOK', Good, MapFails
  PROVE  Good'
<1>1. /\ xmit.pc = "map" /\ InHand /\ "map_fails" \in may
      /\ UNCHANGED <<may, ntc, desc, tdh, tdt, txdw, clean, stopped, excused, reset, fifo>>
      /\ ntu' = xmit.first /\ xmit.first = tdt /\ xmit' = NoXmit
  BY DEF MapFails, InHand, Working, regs, net, ghost, Good, InRoom
<1>2. xmit'.pc = "idle" /\ xmit'.size = 0
  BY <1>1 DEF NoXmit
<1>3. \A s \in Slot : buf'[s].watch = buf[s].watch
  <2>1. buf \in BufferSet /\ xmit.i \in Slot /\ xmit.first \in Slot
    BY TypeParts, TypeFacts DEF BufType
  <2> DEFINE undone  == {Ahead(xmit.i, Count - k) : k \in 1..(xmit.n - 1)}
             cleared == [buf EXCEPT ![xmit.i].stamp = "fresh", ![xmit.i].dma = FALSE]
             freed   == [j \in Slot |-> IF j \in undone
                                        THEN [cleared[j] EXCEPT !.dma = FALSE, !.stamp = "none"]
                                        ELSE cleared[j]]
  <2>2. buf' = [freed EXCEPT ![xmit.first].stamp = "none"]
    BY DEF MapFails
  <2> HIDE DEF undone
  <2>3. cleared \in BufferSet /\ \A s \in Slot : cleared[s].watch = buf[s].watch
    <3>1. PICK one : one = [buf EXCEPT ![xmit.i].stamp = "fresh"]
      OBVIOUS
    <3>2. one \in BufferSet /\ \A s \in Slot : one[s].watch = buf[s].watch
      BY <2>1, <3>1 DEF BufferSet
    <3>3. cleared = [one EXCEPT ![xmit.i].dma = FALSE]
      BY <3>1
    <3> HIDE DEF cleared
    <3>4. \A s \in Slot : cleared[s].watch = one[s].watch
      BY <2>1, <3>2, <3>3 DEF BufferSet
    <3>5. cleared \in BufferSet
      BY <2>1, <3>2, <3>3 DEF BufferSet
    <3>6. QED
      BY <3>2, <3>4, <3>5
  <2> HIDE DEF cleared
  <2>4. \A s \in Slot : freed[s].watch = buf[s].watch /\ DOMAIN freed[s] = DOMAIN cleared[s]
    BY <2>3 DEF BufferSet
  <2>5. DOMAIN freed = Slot
    OBVIOUS
  <2> HIDE DEF freed
  <2>6. QED
    BY <2>1, <2>2, <2>4, <2>5
<1>4. Spared
  BY <1>1, <1>3 DEF Spared
<1>5. Unmarked
  BY <1>1, SentHeld DEF Unmarked, Good, Marks
<1>6. (Order /\ Frames /\ Marks /\ Reported)'
  BY <1>1, <1>4, <1>5, WriteFree DEF Good
<1>7. InRoom'
  BY <1>1, <1>2, CountFact DEF InRoom, Working
<1>8. Mapped'
  BY <1>1 DEF Mapped
<1>9. Waking'
  BY <1>1, InHandWakes DEF Good
<1>10. QED
  BY <1>6, <1>7, <1>8, <1>9 DEF Good

(* The descriptors are filled in, and the first buffer is told the last one. *)
LEMMA QueueOK ==
  ASSUME TypeOK, TypeOK', Good, Queue
  PROVE  Good'
<1>1. /\ xmit.pc = "queue" /\ InHand
      /\ UNCHANGED <<may, ntu, ntc, tdh, tdt, txdw, clean, fault, hung, stopped, excused, reset,
                     fifo>>
  BY DEF Queue, InHand, Working, regs, net, ghost
<1>2. PICK t \in Slot, i \in Slot, u \in Slot, c \in 0..1, d \in Nat :
        /\ t = tdt /\ i = xmit.i /\ u = ntu
        /\ c = xmit.shape.context /\ d = xmit.shape.data /\ d > 0
  BY TypeFacts
<1>3. /\ xmit.n = d /\ Dist(t, i) = c + d - 1 /\ Dist(t, u) = c /\ xmit.first = t
      /\ (c = 1 => desc[t] = "context")
      /\ xmit.size < Count /\ Dist(ntc, t) + Need(xmit.shape) < Count
  BY <1>1, <1>2 DEF Good, InRoom, Working
<1>4. /\ xmit'.first = t /\ xmit'.n = d /\ xmit'.shape = xmit.shape /\ xmit'.size = xmit.size
      /\ xmit'.pc = "tail" /\ xmit'.i = i
  <2>1. XmitType
    BY TypeParts
  <2>2. QED
    BY <1>2, <1>3, <2>1 DEF Queue, XmitType
<1>5. /\ Dist(Oldest, t) \in Nat /\ Dist(Oldest, t) + c + d + 3 < Count
      /\ \A s \in Slot : Dist(t, s) <= c + d + 1 => ~Held(s)
  BY <1>1, <1>2, Behind DEF Good
<1>6. \A s \in Slot : Dist(u, s) < d => Dist(t, s) = c + Dist(u, s)
  <2> SUFFICES ASSUME NEW s \in Slot, Dist(u, s) < d
               PROVE  Dist(t, s) = c + Dist(u, s)
    OBVIOUS
  <2>1. Dist(t, u) = c /\ Dist(u, s) \in Nat /\ Count \in Nat
    BY <1>3, DistNat, CountFact
  <2>2. Dist(t, u) + Dist(u, s) < Count
    BY <1>5, <2>1
  <2>3. QED
    BY <2>1, <2>2, Through
<1>7. Dist(u, i) = d - 1 /\ ~Held(i) /\ ~Held(t) /\ (c = 1 => i # t)
  <2>1. Dist(t, i) = c + d - 1 /\ Dist(t, u) = c
    BY <1>3
  <2>2. Dist(t, i) = Dist(t, u) + Dist(u, i)
    BY <1>2, <2>1, Through
  <2>3. Dist(u, i) \in Nat /\ Dist(t, t) = 0
    BY DistNat, DistFacts
  <2>4. Dist(u, i) = d - 1
    BY <2>1, <2>2, <2>3
  <2>5. QED
    BY <1>2, <1>5, <2>1, <2>3, <2>4
<1>8. \A s \in Slot : desc'[s] = IF s = i THEN "last" ELSE IF Dist(u, s) < d THEN "data" ELSE desc[s]
  BY <1>2, <1>3 DEF Queue, Fill
<1>9. /\ \A s \in Slot : buf'[s].dma = buf[s].dma /\ buf'[s].stamp = buf[s].stamp
      /\ \A s \in Slot : s # t => buf'[s].watch = buf[s].watch
      /\ buf'[t].watch = i
  <2>1. buf \in BufferSet
    BY TypeParts DEF BufType
  <2>2. buf' = [buf EXCEPT ![i].skb = xmit.skb, ![t].watch = i]
    BY <1>2, <1>3 DEF Queue
  <2>3. QED
    BY <2>1, <2>2 DEF BufferSet
<1>10. \A s \in Slot : Dist(u, s) < d => ~Held(s)
  <2> SUFFICES ASSUME NEW s \in Slot, Dist(u, s) < d
               PROVE  ~Held(s)
    OBVIOUS
  <2>1. Dist(t, s) = c + Dist(u, s) /\ Dist(u, s) \in Nat
    BY <1>6, DistNat
  <2>2. Dist(t, s) <= c + d + 1
    BY <1>2, <2>1
  <2>3. QED
    BY <1>5, <2>2
<1>11. Spared
  BY <1>7, <1>8, <1>9, <1>10 DEF Spared
<1>12. Unmarked
  <2> SUFFICES ASSUME NEW s \in Slot, ~Held(s)
               PROVE  desc'[s] # "done" /\ (desc'[s] = "last" => s = i)
    BY <1>4 DEF Unmarked
  <2>1. desc[s] # "done" /\ desc[s] # "last"
    BY <1>1, SentHeld DEF Good, Marks
  <2>2. QED
    BY <1>8, <2>1
<1>13. (Order /\ Frames /\ Marks /\ Reported)'
  BY <1>1, <1>11, <1>12, WriteFree DEF Good
<1>14. InRoom'
  <2>1. c = 1 => desc'[t] = "context"
    <3>1. c = 1 => ~(Dist(u, t) < d)
      <4>1. Dist(u, t) < d => Dist(t, t) = c + Dist(u, t)
        BY <1>6
      <4>2. Dist(t, t) = 0 /\ Dist(u, t) \in Nat
        BY DistFacts, DistNat
      <4>3. QED
        BY <4>1, <4>2
    <3>2. QED
      BY <1>3, <1>7, <1>8, <3>1
  <2>2. desc'[i] = "last" /\ buf'[t].watch = i
    BY <1>8, <1>9
  <2>3. QED
    BY <1>1, <1>2, <1>3, <1>4, <2>1, <2>2 DEF InRoom, Working
<1>15. Mapped'
  <2> SUFFICES ASSUME "map_fails" \notin may
               PROVE  Mapped'
    BY <1>1 DEF Mapped
  <2>1. \A s \in Slot : Held(s)' = Held(s)
    BY <1>1 DEF Held, Before, Oldest
  <2>2. \A s \in Slot : Taken(s)' = Taken(s)
    BY <1>1, <1>3, <1>4 DEF Taken, Working
  <2>3. \A s \in Slot : desc'[s] \in {"data", "last"} => buf'[s].dma
    <3>1. \A s \in Slot : Dist(u, s) < d => buf[s].dma
      BY <1>1, <1>2, <1>3 DEF Good, Mapped
    <3>2. buf[i].dma
      BY <1>2, <1>7, <3>1
    <3>3. \A s \in Slot : desc[s] \in {"data", "last"} => buf[s].dma
      BY DEF Good, Mapped
    <3>4. QED
      BY <1>8, <1>9, <3>1, <3>2, <3>3
  <2>4. QED
    BY <1>1, <1>4, <1>9, <2>1, <2>2, <2>3 DEF Good, Mapped
<1>16. Waking'
  BY <1>1, InHandWakes DEF Good
<1>17. QED
  BY <1>13, <1>14, <1>15, <1>16 DEF Good

(* e1000_tx_queue's last store, the tail register: the frame is in the ring. *)
LEMMA WriteTailOK ==
  ASSUME TypeOK, TypeOK', Good, WriteTail
  PROVE  Good'
<1>1. /\ xmit.pc = "tail" /\ InHand
      /\ UNCHANGED <<may, ntc, buf, desc, tdh, txdw, clean, fault, hung, stopped, excused, reset,
                     fifo>>
  BY DEF WriteTail, InHand, Working, net, ghost
<1>2. PICK o \in Slot, t \in Slot, i \in Slot, w \in Slot, c \in 0..1, d \in Nat :
        /\ o = Oldest /\ t = tdt /\ i = xmit.i /\ w = Succ(i)
        /\ c = xmit.shape.context /\ d = xmit.shape.data /\ d > 0
  BY TypeFacts, SuccFacts
<1>3. ntu' = w /\ tdt' = w /\ Oldest' = o
  BY <1>1, <1>2 DEF WriteTail, Oldest
<1>4. /\ xmit'.pc \in {"idle", "stop_after"} /\ xmit'.size \in {0, Room}
  BY <1>1 DEF WriteTail, NoXmit
<1>5. /\ xmit.n = d /\ Dist(t, i) = c + d - 1 /\ buf[t].watch = i /\ desc[i] = "last"
  BY <1>1, <1>2 DEF Good, InRoom
<1>6. /\ Dist(o, t) \in Nat /\ Dist(o, t) + c + d + 3 < Count
      /\ \A s \in Slot : Dist(t, s) <= c + d + 1 => ~Held(s) /\ Dist(o, s) = Dist(o, t) + Dist(t, s)
  BY <1>1, <1>2, Behind DEF Good
<1>7. Dist(t, w) = c + d /\ Dist(o, w) = Dist(o, t) + c + d
  <2>1. Dist(t, i) < Count - 1 => Dist(t, w) = Dist(t, i) + 1
    BY <1>2, DistSucc
  <2>2. Dist(t, w) = c + d
    <3>1. Dist(t, i) = c + d - 1
      BY <1>5
    <3>2. Dist(o, t) + c + d + 3 < Count /\ Dist(o, t) \in Nat
      BY <1>6
    <3>3. Dist(t, i) < Count - 1
      BY <3>1, <3>2, CountFact
    <3>4. QED
      BY <2>1, <3>1, <3>3
  <2>3. QED
    BY <1>2, <1>6, <2>2
<1>8. \A s \in Slot : /\ Held(s) <=> Dist(o, s) < Dist(o, t)
                      /\ Held(s)' <=> Held(s) \/ Dist(t, s) < c + d
  <2> SUFFICES ASSUME NEW s \in Slot
               PROVE  /\ Held(s) <=> Dist(o, s) < Dist(o, t)
                      /\ Held(s)' <=> Held(s) \/ Dist(t, s) < c + d
    OBVIOUS
  <2>1. /\ Held(s) <=> Dist(o, s) < Dist(o, t)
        /\ Held(s)' <=> Dist(o, s) < Dist(o, w)
    BY <1>2, <1>3 DEF Held, Before
  <2>2. Dist(o, s) \in Nat /\ Dist(t, s) \in Nat /\ Dist(o, w) \in Nat
    BY DistNat
  <2>3. Dist(o, t) <= Dist(o, s) => Dist(o, s) = Dist(o, t) + Dist(t, s)
    BY Through
  <2>4. Dist(t, s) < c + d => Dist(o, s) = Dist(o, t) + Dist(t, s)
    BY <1>6, <2>2
  <2>5. QED
    BY <1>2, <1>6, <1>7, <2>1, <2>2, <2>3, <2>4
<1>9. \A s \in Slot : /\ Sent(s)' = Sent(s) /\ Ends(s)' = Ends(s) /\ Starts(s)' = Starts(s)
  BY <1>1, <1>2, <1>3 DEF Sent, Before, Ends, Starts
<1>10. \A k \in Slot : Dist(t, k) < c + d - 1 => ~Ends(k)
  <2> SUFFICES ASSUME NEW k \in Slot, Dist(t, k) < c + d - 1
               PROVE  ~Ends(k)
    OBVIOUS
  <2>1. k # i /\ ~Held(k)
    BY <1>2, <1>5, <1>6, DistNat
  <2>2. QED
    BY <1>2, <2>1, SentHeld DEF Ends, Good, Marks
<1>11. Order'
  <2>1. Dist(ntc, o) <= Dist(ntc, t) /\ Dist(o, tdh) <= Dist(o, t) /\ ntc \in Slot /\ tdh \in Slot
    BY <1>2, TypeFacts DEF Good, Order
  <2>2. Dist(ntc, t) \in Nat /\ Dist(ntc, o) \in Nat /\ Dist(o, tdh) \in Nat
    BY <2>1, DistNat
  <2>3. Dist(ntc, t) + c + d + 3 < Count
    BY <1>1, <1>2, TypeFacts, <2>2 DEF Good, InRoom, InHand
  <2>4. Dist(ntc, w) = Dist(ntc, t) + Dist(t, w)
    <3>1. Dist(ntc, t) + Dist(t, w) < Count
      <4>1. Dist(t, w) = c + d
        BY <1>7
      <4>2. QED
        BY <2>2, <2>3, <4>1, CountFact
    <3>2. QED
      BY <2>1, <3>1, Through
  <2>5. Dist(ntc, o) <= Dist(ntc, w) /\ Dist(o, tdh) <= Dist(o, w)
    BY <1>2, <1>6, <1>7, <2>1, <2>2, <2>4
  <2>6. clean.pc = "free" => Sent(clean.eop)' /\ desc[clean.eop] = "done"
    <3>1. PICK e \in Slot : e = clean.eop
      BY TypeFacts
    <3>2. Sent(e)' = Sent(e) /\ clean' = clean
      BY <1>1, <1>9
    <3>3. clean.pc = "free" => Sent(e) /\ desc[e] = "done"
      BY <3>1 DEF Good, Order
    <3>4. Sent(clean.eop)' = Sent(e)'
      BY <3>1, <3>2 DEF Sent
    <3>5. QED
      BY <3>1, <3>2, <3>3, <3>4
  <2>7. QED
    BY <1>1, <1>3, <2>5, <2>6 DEF Good, Order
<1>12. ASSUME NEW s \in Slot, Held(s), Frame(s)
       PROVE  Frame(s)'
  <2>1. PICK e \in Slot : e = buf[s].watch
    BY TypeFacts
  <2>2. Before(s, e, t) /\ Ends(e) /\ \A k \in Slot : Before(s, k, e) => ~Ends(k)
    BY <1>2, <1>12, <2>1 DEF Frame
  <2>3. Dist(o, s) < Dist(o, t) /\ Dist(o, s) \in Nat
    BY <1>8, <1>12, DistNat
  <2>4. Dist(s, t) = Dist(o, t) - Dist(o, s) /\ Dist(s, w) = Dist(o, w) - Dist(o, s)
    <3>1. Dist(o, t) = Dist(o, s) + Dist(s, t)
      BY <2>3, <1>6, Through
    <3>2. Dist(o, w) = Dist(o, s) + Dist(s, w)
      <4>1. Dist(o, s) <= Dist(o, w)
        BY <1>2, <1>6, <1>7, <2>3
      <4>2. QED
        BY <4>1, Through
    <3>3. Dist(s, t) \in Nat /\ Dist(s, w) \in Nat
      BY DistNat
    <3>4. QED
      BY <1>6, <2>3, <3>1, <3>2, <3>3
  <2>5. Before(s, e, w)
    <3>1. Dist(s, e) \in Nat /\ Dist(s, e) < Dist(s, t)
      BY <2>2, DistNat DEF Before
    <3>2. QED
      BY <1>2, <1>6, <1>7, <2>3, <2>4, <3>1 DEF Before
  <2>6. QED
    BY <1>1, <1>3, <1>9, <2>1, <2>2, <2>5 DEF Frame, Before
<1>13. ASSUME NEW s \in Slot, Held(s)', ~Held(s), Starts(s)
       PROVE  s = t
  <2>1. Dist(t, s) < c + d
    BY <1>8, <1>13
  <2>2. CASE s = o
    <3>1. ~(Dist(o, o) < Dist(o, t)) /\ Dist(o, o) = 0
      BY <1>8, <1>13, <2>2, DistFacts
    <3>2. Dist(o, t) = 0
      BY <1>6, <3>1
    <3>3. QED
      BY <2>2, <3>2, DistFacts
  <2>3. CASE s # o
    <3>1. PICK p \in Slot : s = Succ(p) /\ Ends(p)
      BY <1>2, <1>13, <2>3 DEF Starts
    <3>2. SUFFICES ASSUME s # t
                   PROVE  FALSE
      OBVIOUS
    <3>3. Dist(t, p) < Count - 1
      <4>1. CASE Dist(t, p) = Count - 1
        <5>1. Succ(p) = t
          BY <4>1, CountFact DEF Dist, Succ
        <5>2. QED
          BY <3>1, <3>2, <5>1
      <4>2. Dist(t, p) \in Nat /\ Dist(t, p) < Count /\ Count \in Nat
        BY DistNat, CountFact
      <4>3. QED
        BY <4>1, <4>2
    <3>4. Dist(t, s) = Dist(t, p) + 1
      BY <3>1, <3>3, DistSucc
    <3>5. Dist(t, p) < c + d - 1
      BY <1>2, <2>1, <3>4, DistNat
    <3>6. QED
      BY <1>10, <3>1, <3>5
  <2>4. QED
    BY <2>2, <2>3
<1>14. Frame(t)'
  <2>1. Before(t, i, w) /\ Ends(i)
    BY <1>2, <1>5, <1>7 DEF Before, Ends
  <2>2. \A k \in Slot : Before(t, k, i) => ~Ends(k)
    BY <1>5, <1>10 DEF Before
  <2>3. QED
    BY <1>1, <1>3, <1>5, <1>9, <2>1, <2>2 DEF Frame, Before
<1>15. Frames'
  <2>1. \A s \in Slot : Held(s)' /\ Starts(s)' => Frame(s)'
    BY <1>9, <1>12, <1>13, <1>14 DEF Good, Frames
  <2>2. \A s \in Slot : Succ(s) = w => Ends(s)
    <3>1. Ends(i) /\ \A s \in Slot : Succ(s) = w => s = i
      BY <1>2, <1>5, SuccFacts DEF Ends
    <3>2. QED
      BY <3>1
  <2>3. \A s \in Slot : Held(s)' /\ Succ(s) = tdt' => Ends(s)'
    BY <1>3, <1>9, <2>2
  <2>4. QED
    BY <2>1, <2>3 DEF Frames
<1>16. Marks'
  <2>1. Held(i)'
    BY <1>2, <1>5, <1>8
  <2>2. \A s \in Slot : desc[s] = "last" => Held(s)'
    BY <1>2, <1>8, <2>1 DEF Good, Marks
  <2>3. QED
    BY <1>1, <1>9, <2>2 DEF Good, Marks
<1>17. Reported'
  BY <1>1 DEF Good, Reported
<1>18. Mapped'
  <2>1. \A s \in Slot : Taken(s) => Held(s)'
    BY <1>2, <1>5, <1>8 DEF Taken
  <2>2. QED
    BY <1>1, <1>4, <1>8, <2>1 DEF Good, Mapped
<1>19. InRoom'
  <2>1. xmit'.size < Count
    BY <1>4, RingAssumption, CountFact
  <2>2. QED
    BY <1>3, <1>4, <2>1 DEF InRoom, Working
<1>20. Waking'
  BY <1>1, InHandWakes DEF Good
<1>21. QED
  BY <1>11, <1>15, <1>16, <1>17, <1>18, <1>19, <1>20 DEF Good

-----------------------------------------------------------------------------
(* The controller.                                                           *)

(* What becomes of slots that hold frames does not concern xmit.             *)
LEMMA RoomKept ==
  ASSUME TypeOK, Order, InRoom, UNCHANGED <<ntu, tdt>>, xmit' = xmit, ntc' \in {ntc, Oldest},
         \A s \in Slot : ~Held(s) => desc'[s] = desc[s] /\ buf'[s].watch = buf[s].watch
  PROVE  InRoom'
<1>1. PICK t \in Slot, i \in Slot, c \in 0..1, d \in Nat :
        /\ t = tdt /\ i = xmit.i /\ c = xmit.shape.context /\ d = xmit.shape.data /\ d > 0
        /\ Need(xmit.shape) = c + d + 3
  BY TypeFacts
<1>2. Working => ~Held(t) /\ ~Held(i)
  <2> SUFFICES ASSUME Working
               PROVE  ~Held(t) /\ ~Held(i)
    OBVIOUS
  <2>1. Dist(t, t) <= c + d + 1
    BY <1>1, DistFacts
  <2>2. Dist(t, i) <= c + d + 1
    BY <1>1, TypeFacts DEF InRoom, Working
  <2>3. QED
    BY <1>1, <2>1, <2>2, Behind DEF InHand
<1>3. Dist(ntc', t) + c + d + 3 <= Dist(ntc, t) + c + d + 3
  <2>1. Dist(ntc, Oldest) <= Dist(ntc, t) /\ ntc \in Slot /\ Oldest \in Slot
    BY <1>1, TypeFacts DEF Order
  <2>2. Dist(ntc, t) = Dist(ntc, Oldest) + Dist(Oldest, t)
    BY <2>1, Through
  <2>3. Dist(ntc, t) \in Nat /\ Dist(ntc, Oldest) \in Nat /\ Dist(Oldest, t) \in Nat
    BY <2>1, DistNat
  <2>4. Dist(Oldest, t) <= Dist(ntc, t)
    BY <2>2, <2>3
  <2>5. CASE ntc' = ntc
    BY <1>1, <2>3, <2>5
  <2>6. CASE ntc' = Oldest
    BY <1>1, <2>3, <2>4, <2>6
  <2>7. QED
    BY <2>5, <2>6
<1>4. xmit.pc \in {"workaround", "context"} \/ Working => Dist(ntc', t) + Need(xmit.shape) < Count
  <2>1. ntc \in Slot /\ ntc' \in Slot
    BY TypeFacts
  <2>2. Dist(ntc', t) \in Nat /\ Dist(ntc, t) \in Nat /\ Count \in Nat
    BY <2>1, DistNat, CountFact
  <2>3. QED
    BY <1>1, <1>3, <2>2 DEF InRoom
<1>5. Working' = Working
  BY DEF Working
<1>6. QED
  BY <1>1, <1>2, <1>4, <1>5 DEF InRoom, Working

LEMMA TransmitOK ==
  ASSUME TypeOK, TypeOK', Good, Transmit
  PROVE  Good'
<1>1. /\ UNCHANGED <<may, ntu, ntc, buf, tdt, clean, xmit, hung, stopped, excused, reset, fifo>>
      /\ tdh # tdt
  BY DEF Transmit, net
<1>2. PICK o \in Slot, h \in Slot, t \in Slot : o = Oldest /\ h = tdh /\ t = tdt
  BY TypeFacts
<1>3. tdh' = Succ(h) /\ Oldest' = o
  BY <1>1, <1>2 DEF Transmit, Oldest
<1>4. /\ Dist(o, h) < Dist(o, t) /\ Dist(o, Succ(h)) = Dist(o, h) + 1
      /\ Dist(o, h) \in Nat /\ Dist(o, t) \in Nat
  <2>1. Dist(o, h) <= Dist(o, t) /\ h # t
    BY <1>1, <1>2 DEF Good, Order
  <2>2. Dist(o, h) \in Nat /\ Dist(o, t) \in Nat /\ Dist(o, t) < Count /\ Dist(o, h) # Dist(o, t)
    BY <2>1, DistFacts, DistNat
  <2>3. Dist(o, h) < Count - 1
    BY <2>1, <2>2, CountFact
  <2>4. QED
    BY <2>1, <2>2, <2>3, DistSucc
<1>5. \A s \in Slot : Held(s)' = Held(s) /\ Taken(s)' = Taken(s)
  BY <1>1, <1>2, <1>3 DEF Held, Before, Taken, Working
<1>6. \A s \in Slot : Sent(s)' <=> Sent(s) \/ s = h
  <2> SUFFICES ASSUME NEW s \in Slot
               PROVE  Sent(s)' <=> Sent(s) \/ s = h
    OBVIOUS
  <2>1. Dist(o, s) \in Nat /\ (Dist(o, s) = Dist(o, h) => s = h)
    BY DistNat, DistFacts
  <2>2. (Sent(s)' <=> Dist(o, s) < Dist(o, Succ(h))) /\ (Sent(s) <=> Dist(o, s) < Dist(o, h))
    BY <1>2, <1>3 DEF Sent, Before
  <2>3. QED
    BY <1>4, <2>1, <2>2
<1>7. Held(h) /\ ~Sent(h)
  BY <1>2, <1>4 DEF Held, Sent, Before
<1>8. /\ \A s \in Slot : s # h => desc'[s] = desc[s]
      /\ IF desc[h] = "last" THEN desc'[h] = "done" /\ txdw' ELSE desc'[h] = desc[h] /\ txdw' = txdw
      /\ desc[h] # "last" => desc' = desc
  BY <1>2 DEF Transmit, TypeOK
<1>9. \A s \in Slot : Ends(s)' = Ends(s) /\ Starts(s)' = Starts(s) /\ Frame(s)' = Frame(s)
  <2>1. \A s \in Slot : Ends(s)' = Ends(s)
    BY <1>8 DEF Ends
  <2>2. \A s \in Slot : Starts(s)' = Starts(s)
    BY <1>1, <1>2, <1>3, <2>1 DEF Starts
  <2>3. \A s \in Slot : Frame(s)' = Frame(s)
    BY <1>1, <2>1, TypeFacts DEF Frame, Before
  <2>4. QED
    BY <2>1, <2>2, <2>3
<1>10. Order'
  <2>1. clean.pc = "free" => Sent(clean.eop)' /\ desc'[clean.eop] = "done"
    <3>1. PICK e \in Slot : e = clean.eop
      BY TypeFacts
    <3>2. clean.pc = "free" => Sent(e) /\ desc[e] = "done"
      BY <3>1 DEF Good, Order
    <3>3. Sent(e) => Sent(e)'
      BY <1>6
    <3>4. Sent(clean.eop)' = Sent(e)'
      BY <1>1, <3>1 DEF Sent
    <3>5. desc[e] = "done" => desc'[e] = "done"
      BY <1>8
    <3>6. QED
      BY <3>1, <3>2, <3>3, <3>4, <3>5
  <2>2. QED
    BY <1>1, <1>2, <1>3, <1>4, <2>1 DEF Good, Order
<1>11. Frames'
  BY <1>1, <1>5, <1>9 DEF Good, Frames
<1>12. Marks'
  BY <1>1, <1>5, <1>6, <1>8 DEF Good, Marks
<1>13. Reported'
  BY <1>1, <1>8 DEF Good, Reported
<1>14. Mapped'
  <2>1. "map_fails" \notin may => fault' = "none"
    BY <1>2 DEF Transmit, Good, Mapped
  <2>2. \A s \in Slot : desc'[s] \in {"data", "last"} => desc[s] \in {"data", "last"}
    BY <1>8
  <2>3. QED
    BY <1>1, <1>5, <2>1, <2>2 DEF Good, Mapped
<1>15. InRoom'
  BY <1>1, <1>7, <1>8, RoomKept DEF Good
<1>16. Waking'
  BY <1>1 DEF Good, Waking, Waker, Working
<1>17. QED
  BY <1>10, <1>11, <1>12, <1>13, <1>14, <1>15, <1>16 DEF Good

LEMMA TimePassesOK ==
  ASSUME TypeOK, TypeOK', Good, TimePasses
  PROVE  Good'
<1>1. /\ UNCHANGED <<may, ntu, ntc, desc, tdh, tdt, txdw, clean, xmit, fault, hung, stopped, excused,
                     reset, fifo>>
      /\ xmit.pc = "idle"
  BY DEF TimePasses, regs, net, ghost
<1>2. \A s \in Slot : /\ buf'[s].watch = buf[s].watch /\ buf'[s].dma = buf[s].dma
                      /\ buf'[s].stamp # "fresh"
                      /\ buf'[s].stamp = "old" => buf[s].stamp \in {"fresh", "old"}
  <2>1. buf \in BufferSet
    BY TypeParts DEF BufType
  <2>2. QED
    BY <2>1 DEF TimePasses, BufferSet
<1>3. Spared
  BY <1>1, <1>2 DEF Spared
<1>4. Unmarked
  BY <1>1, SentHeld DEF Unmarked, Good, Marks
<1>5. (Order /\ Frames /\ Marks /\ Reported)'
  BY <1>1, <1>3, <1>4, WriteFree DEF Good
<1>6. InRoom'
  BY <1>1, <1>2, RoomKept DEF Good
<1>7. Mapped'
  <2>1. \A s \in Slot : Held(s)' = Held(s) /\ ~Taken(s)
    BY <1>1 DEF Held, Before, Oldest, Taken, Working
  <2>2. QED
    BY <1>1, <1>2, <2>1 DEF Good, Mapped
<1>8. Waking'
  BY <1>1 DEF Good, Waking, Waker, Working
<1>9. QED
  BY <1>5, <1>6, <1>7, <1>8 DEF Good

-----------------------------------------------------------------------------
(* The clean-up.  All its steps but one leave the slots alone.               *)
LEMMA CleanSteps ==
  ASSUME TypeOK, TypeOK', Good, UNCHANGED <<may, ntu, buf, desc, tdh, tdt, xmit, fault>>,
         Oldest' = Oldest, ntc' \in {ntc, Oldest},
         Starts(Oldest)' => Starts(Oldest)
  PROVE  /\ \A s \in Slot : Held(s)' = Held(s) /\ Sent(s)' = Sent(s) /\ Taken(s)' = Taken(s)
         /\ Frames' /\ Marks' /\ InRoom'
         /\ "map_fails" \notin may /\ ~hung' => Mapped'
         /\ Dist(ntc, Oldest) <= Dist(ntc, tdt) /\ Dist(Oldest, Oldest) = 0
<1>1. \A s \in Slot : Held(s)' = Held(s) /\ Sent(s)' = Sent(s) /\ Taken(s)' = Taken(s)
  BY DEF Held, Sent, Before, Taken, Working
<1>2. \A s \in Slot : /\ Ends(s)' = Ends(s) /\ Frame(s)' = Frame(s)
                      /\ Starts(s)' => Starts(s)
  <2>1. \A s \in Slot : Ends(s)' = Ends(s)
    BY DEF Ends
  <2>2. \A s \in Slot : Frame(s)' = Frame(s)
    BY <2>1, TypeFacts DEF Frame, Before
  <2>3. \A s \in Slot : s # Oldest => (Starts(s)' => Starts(s))
    BY <2>1 DEF Starts
  <2>4. QED
    BY <2>1, <2>2, <2>3
<1>3. Frames'
  BY <1>1, <1>2 DEF Good, Frames
<1>4. Marks'
  BY <1>1 DEF Good, Marks
<1>5. InRoom'
  BY RoomKept DEF Good
<1>6. "map_fails" \notin may /\ ~hung' => Mapped'
  BY <1>1 DEF Good, Mapped
<1>7. Dist(ntc, Oldest) <= Dist(ntc, tdt) /\ Dist(Oldest, Oldest) = 0
  BY TypeFacts, DistFacts DEF Good, Order
<1>8. QED
  BY <1>1, <1>3, <1>4, <1>5, <1>6, <1>7

LEMMA CleanTxOK ==
  ASSUME TypeOK, TypeOK', Good, CleanTx
  PROVE  Good'
<1>1. /\ UNCHANGED <<may, ntu, ntc, buf, desc, tdh, tdt, xmit, fault, hung, stopped, excused, reset,
                     fifo>>
      /\ clean.pc = "idle" /\ reset \in {"up", "disabled"} /\ ~txdw'
      /\ clean'.pc = "test" /\ clean'.i = ntc /\ clean'.eop = buf[ntc].watch /\ ~clean'.some
  BY DEF CleanTx, ring, net, ghost
<1>2. Oldest' = Oldest /\ Oldest = ntc
  BY <1>1 DEF Oldest
<1>3. Starts(Oldest)' => Starts(Oldest)
  BY <1>1, <1>2 DEF Starts
<1>4. /\ Frames' /\ Marks' /\ InRoom'
      /\ "map_fails" \notin may /\ ~hung' => Mapped'
  BY <1>1, <1>2, <1>3, CleanSteps
<1>5. Order'
  BY <1>1, <1>2 DEF Good, Order
<1>6. Reported'
  BY <1>1 DEF Reported
<1>7. Mapped'
  BY <1>1, <1>4 DEF Good, Mapped
<1>8. Waking'
  BY <1>1 DEF Good, Waking, Waker, Working
<1>9. QED
  BY <1>4, <1>5, <1>6, <1>7, <1>8 DEF Good

(* A clean-up that goes on, or gives up with a poll still due, or else has   *)
(* looked at the last descriptor of the first frame: then nothing is done.   *)
LEMMA TestDoneOK ==
  ASSUME TypeOK, TypeOK', Good, TestDone
  PROVE  Good'
<1>1. /\ UNCHANGED <<may, ntu, ntc, buf, desc, tdh, tdt, xmit, fault, hung, stopped, excused, reset,
                     fifo>>
      /\ clean.pc = "test"
  BY DEF TestDone, ring, net, ghost
<1>2. /\ clean'.i = clean.i /\ clean'.eop = clean.eop /\ clean'.some = clean.some
      /\ \/ desc[clean.eop] = "done" /\ clean'.pc = "free" /\ txdw' = txdw
         \/ desc[clean.eop] # "done" /\ clean'.pc = "ntc" /\ txdw' = txdw
         \/ clean'.pc = "ntc" /\ txdw'
  <2>1. CleanType
    BY TypeParts
  <2>2. QED
    BY <2>1 DEF TestDone, CleanType
<1>3. Oldest' = Oldest /\ Oldest = clean.i
  BY <1>1, <1>2 DEF Oldest
<1>4. Starts(Oldest)
  BY <1>1 DEF Starts
<1>5. /\ Frames' /\ Marks' /\ InRoom'
      /\ \A s \in Slot : Sent(s)' = Sent(s)
      /\ "map_fails" \notin may /\ ~hung' => Mapped'
  BY <1>1, <1>3, <1>4, CleanSteps
<1>6. PICK e \in Slot : e = clean.eop
  BY TypeFacts
<1>7. Order'
  <2>1. desc[e] = "done" => Sent(e)'
    BY <1>5 DEF Good, Marks
  <2>2. Sent(clean.eop)' = Sent(e)'
    BY <1>2, <1>6 DEF Sent
  <2>3. QED
    BY <1>1, <1>2, <1>3, <1>6, <2>1, <2>2 DEF Good, Order
<1>8. Reported'
  <2> SUFFICES ASSUME ~txdw', NEW d \in Slot, desc[d] = "done"
               PROVE  clean'.pc = "free"
    BY <1>1 DEF Reported
  <2>1. ~txdw /\ e = buf[Oldest].watch
    BY <1>1, <1>2, <1>3, <1>6 DEF Good, Reported
  <2>2. Sent(d) /\ Held(Oldest) /\ Oldest \in Slot
    BY SentHeld, TypeFacts DEF Good, Marks
  <2>3. Frame(Oldest)
    BY <1>4, <2>2 DEF Good, Frames
  <2>4. Ends(e) /\ ~Before(Oldest, d, e)
    BY <2>1, <2>3 DEF Frame, Ends
  <2>5. Sent(e)
    <3>1. Dist(Oldest, d) < Dist(Oldest, tdh) /\ Dist(Oldest, e) <= Dist(Oldest, d)
      <4>1. Dist(Oldest, d) \in Nat /\ Dist(Oldest, e) \in Nat
        BY <2>2, DistNat
      <4>2. QED
        BY <2>2, <2>4, <4>1 DEF Sent, Before
    <3>2. Dist(Oldest, d) \in Nat /\ Dist(Oldest, e) \in Nat /\ Dist(Oldest, tdh) \in Nat
      BY <2>2, DistNat, TypeFacts
    <3>3. QED
      BY <3>1, <3>2 DEF Sent, Before
  <2>6. desc[e] = "done"
    BY <2>4, <2>5 DEF Ends, Good, Marks
  <2>7. QED
    BY <1>2, <1>6, <2>6
<1>9. Mapped'
  BY <1>1, <1>5 DEF Good, Mapped
<1>10. Waking'
  BY <1>1, <1>2 DEF Good, Waking, Waker, Working
<1>11. QED
  BY <1>5, <1>7, <1>8, <1>9, <1>10 DEF Good

(* next_to_clean is stored: when that empties the ring the queue is woken.   *)
LEMMA StoreNtcOK ==
  ASSUME TypeOK, TypeOK', Good, StoreNtc
  PROVE  Good'
<1>1. /\ UNCHANGED <<may, ntu, buf, desc, tdh, tdt, txdw, xmit, fault, hung, stopped, reset, fifo>>
      /\ clean.pc = "ntc" /\ ntc' = clean.i
      /\ excused' = IF clean.some /\ ~carrier THEN excused \cup {"no_carrier"} ELSE excused
  BY DEF StoreNtc, regs, net, ghost
<1>2. /\ clean'.i = clean.i /\ clean'.eop = clean.eop /\ clean'.some = clean.some
      /\ clean'.pc = IF clean.some /\ carrier /\ Unused(ntu, clean.i) >= Wake THEN "wake" ELSE "hang"
  <2>1. CleanType
    BY TypeParts
  <2>2. QED
    BY <2>1 DEF StoreNtc, CleanType
<1>3. Oldest' = Oldest /\ Oldest = clean.i
  BY <1>1, <1>2 DEF Oldest
<1>4. Starts(Oldest)' => Starts(Oldest)
  BY <1>1 DEF Starts
<1>5. /\ Frames' /\ Marks' /\ InRoom'
      /\ "map_fails" \notin may /\ ~hung' => Mapped'
      /\ Dist(Oldest, Oldest) = 0
  BY <1>1, <1>3, <1>4, CleanSteps
<1>6. Order'
  <2>1. Dist(Oldest, tdt) \in Nat
    BY TypeFacts, DistNat
  <2>2. QED
    BY <1>1, <1>2, <1>3, <1>5, <2>1 DEF Good, Order
<1>7. Reported'
  BY <1>1, <1>2 DEF Good, Reported
<1>8. Mapped'
  BY <1>1, <1>5 DEF Good, Mapped
<1>9. Waking'
  <2>1. ASSUME reset = "up", stopped, excused' = {}, xmit.pc = "idle", Waker
        PROVE  Waker'
    <3>1. CASE ntc # tdt /\ clean.i = tdt
      <4>1. clean.some
        BY <1>1, <3>1 DEF Good, Order
      <4>2. carrier
        <5>1. "no_carrier" \notin excused'
          BY <2>1
        <5>2. QED
          BY <1>1, <4>1, <5>1
      <4>3. Unused(ntu, clean.i) >= Wake
        <5>1. ntu = tdt /\ tdt \in Slot
          BY <2>1, TypeFacts DEF Good, InRoom, Working
        <5>2. Unused(tdt, tdt) = Count - 1 - Dist(tdt, tdt) /\ Dist(tdt, tdt) = 0
          BY <5>1, UnusedDist, DistFacts
        <5>3. Wake \in Nat /\ Wake < Count /\ Count \in Nat
          BY RingAssumption
        <5>4. QED
          BY <3>1, <5>1, <5>2, <5>3
      <4>4. QED
        BY <1>2, <4>1, <4>2, <4>3 DEF Waker
    <3>2. CASE ntc = tdt
      BY <1>1, <2>1, <3>2 DEF Waker
    <3>3. CASE clean.i # tdt
      BY <1>1, <3>3 DEF Waker
    <3>4. QED
      BY <3>1, <3>2, <3>3
  <2>2. reset = "up" /\ excused' = {} => excused = {}
    BY <1>1
  <2>3. QED
    BY <1>1, <2>1, <2>2 DEF Good, Waking, Working
<1>10. QED
  BY <1>5, <1>6, <1>7, <1>8, <1>9 DEF Good

LEMMA WakeQueueOK ==
  ASSUME TypeOK, TypeOK', Good, WakeQueue, ~rewoken'
  PROVE  Good'
<1>1. /\ UNCHANGED <<may, ntu, ntc, buf, desc, tdh, tdt, txdw, xmit, fault, hung, reset, fifo>>
      /\ clean.pc = "wake" /\ ~stopped' /\ ~(stopped /\ reset = "disabled")
  BY DEF WakeQueue, ring, regs, net, ghost
<1>2. clean'.i = clean.i /\ clean'.eop = clean.eop /\ clean'.some = clean.some /\ clean'.pc = "hang"
  BY TypeParts DEF WakeQueue, CleanType
<1>3. Oldest' = Oldest /\ Oldest = ntc
  BY <1>1, <1>2 DEF Oldest
<1>4. Starts(Oldest)' => Starts(Oldest)
  BY <1>1 DEF Starts
<1>5. /\ Frames' /\ Marks' /\ InRoom'
      /\ "map_fails" \notin may /\ ~hung' => Mapped'
  BY <1>1, <1>3, <1>4, CleanSteps
<1>6. Order'
  BY <1>1, <1>2, <1>3 DEF Good, Order
<1>7. Reported'
  BY <1>1, <1>2 DEF Good, Reported
<1>8. Mapped'
  BY <1>1, <1>5 DEF Good, Mapped
<1>9. Waking'
  <2>1. reset = "up"
    <3>1. reset \in {"up", "disabled", "polled", "down", "clean"}
      BY DEF TypeOK
    <3>2. QED
      BY <1>1, <3>1 DEF Good, Waking
  <2>2. QED
    BY <1>1, <2>1 DEF Waking
<1>10. QED
  BY <1>5, <1>6, <1>7, <1>8, <1>9 DEF Good

(* An old time stamp is that of a frame which is still in the ring.          *)
LEMMA DetectHangOK ==
  ASSUME TypeOK, TypeOK', Good, DetectHang
  PROVE  Good'
<1>1. /\ UNCHANGED <<may, ntu, ntc, buf, desc, tdh, tdt, txdw, xmit, fault, reset, fifo>>
      /\ clean.pc = "hang"
      /\ IF detect /\ buf[clean.eop].stamp = "old"
           THEN stopped' /\ excused' # {} /\ hung' = (hung \/ ntc = tdt)
           ELSE UNCHANGED <<stopped, excused, hung>>
  BY DEF DetectHang, ring, regs, net, ghost
<1>2. clean'.pc = "idle"
  BY TypeParts DEF DetectHang, CleanType
<1>3. Oldest' = Oldest /\ Oldest = ntc
  BY <1>1, <1>2 DEF Oldest
<1>4. Starts(Oldest)' => Starts(Oldest)
  BY <1>1 DEF Starts
<1>5. /\ Frames' /\ Marks' /\ InRoom'
      /\ "map_fails" \notin may /\ ~hung' => Mapped'
  BY <1>1, <1>3, <1>4, CleanSteps
<1>6. Order'
  BY <1>1, <1>2, <1>3 DEF Good, Order
<1>7. Reported'
  BY <1>1, <1>2 DEF Good, Reported
<1>8. Mapped'
  <2> SUFFICES ASSUME "map_fails" \notin may
               PROVE  ~hung'
    BY <1>1, <1>5 DEF Mapped
  <2>1. PICK e \in Slot : e = clean.eop
    BY TypeFacts
  <2>2. ~hung /\ (buf[e].stamp = "old" => Held(e))
    BY DEF Good, Mapped
  <2>3. Held(e) => ntc # tdt
    <3>1. ntc \in Slot /\ Dist(ntc, e) \in Nat /\ Dist(ntc, ntc) = 0
      BY TypeFacts, DistNat, DistFacts
    <3>2. QED
      BY <1>3, <3>1 DEF Held, Before
  <2>4. QED
    BY <1>1, <2>1, <2>2, <2>3
<1>9. Waking'
  BY <1>1, <1>2 DEF Good, Waking, Waker, Working
<1>10. QED
  BY <1>5, <1>6, <1>7, <1>8, <1>9 DEF Good

(* The slots that xmit has mapped hold no frame yet.                         *)
LEMMA OwnSlots ==
  ASSUME TypeOK, Order, InRoom, xmit.pc \in {"map", "queue"},
         NEW s \in Slot, Dist(ntu, s) < xmit.n
  PROVE  ~Held(s)
<1>1. PICK t \in Slot, u \in Slot, c \in 0..1, d \in Nat, n \in Nat :
        /\ t = tdt /\ u = ntu /\ n = xmit.n
        /\ c = xmit.shape.context /\ d = xmit.shape.data /\ d > 0
  BY TypeFacts
<1>2. n <= d /\ Dist(t, u) = c
  BY <1>1 DEF InRoom, Working
<1>3. /\ Dist(Oldest, t) \in Nat /\ Dist(Oldest, t) + c + d + 3 < Count
      /\ Dist(t, s) <= c + d + 1 => ~Held(s)
  BY <1>1, Behind DEF InHand, Working
<1>4. Dist(u, s) \in Nat /\ Dist(u, s) < n /\ Count \in Nat
  BY <1>1, DistNat, CountFact
<1>5. Dist(t, u) + Dist(u, s) < Count
  BY <1>2, <1>3, <1>4
<1>6. Dist(t, s) = Dist(t, u) + Dist(u, s)
  BY <1>5, Through
<1>7. QED
  BY <1>2, <1>3, <1>4, <1>6

(* The slot that the clean-up frees is the oldest, it is sent, and all       *)
(* others keep their distance.                                               *)
LEMMA FreeSlotOK ==
  ASSUME TypeOK, TypeOK', Good, FreeSlot
  PROVE  Good'
<1>1. /\ UNCHANGED <<may, ntu, ntc, tdh, tdt, txdw, xmit, fault, hung, stopped, excused, reset, fifo>>
      /\ clean.pc = "free"
  BY DEF FreeSlot, regs, net, ghost
<1>2. PICK o \in Slot, n \in Slot, e \in Slot, h \in Slot, t \in Slot :
        o = clean.i /\ n = Succ(o) /\ e = clean.eop /\ h = tdh /\ t = tdt
  BY TypeFacts, SuccFacts
<1>3. /\ clean'.i = n /\ clean'.some
      /\ clean'.pc = IF o = e THEN "test" ELSE "free"
      /\ clean'.eop = IF o = e THEN buf[n].watch ELSE e
  BY <1>1, <1>2, TypeParts DEF FreeSlot, CleanType
<1>4. Oldest = o /\ Oldest' = n
  BY <1>1, <1>2, <1>3 DEF Oldest
<1>5. /\ desc' = [desc EXCEPT ![o] = "free"] /\ desc'[o] = "free"
      /\ \A s \in Slot : s # o => desc'[s] = desc[s]
  BY <1>2 DEF FreeSlot, TypeOK
<1>6. /\ \A s \in Slot : buf'[s].watch = buf[s].watch /\ (s # o => buf'[s] = buf[s])
      /\ ~buf'[o].dma /\ buf'[o].stamp = "none"
  <2>1. buf \in BufferSet
    BY TypeParts DEF BufType
  <2>2. buf' = [buf EXCEPT ![o] = [@ EXCEPT !.dma = FALSE, !.skb = None, !.stamp = "none"]]
    BY <1>2, Zenon DEF FreeSlot
  <2>3. QED
    BY <2>1, <2>2 DEF BufferSet
<1>7. /\ Dist(o, e) < Dist(o, h) /\ Dist(o, h) <= Dist(o, t) /\ desc[e] = "done"
      /\ Dist(ntc, o) <= Dist(ntc, t)
  BY <1>1, <1>2, <1>4 DEF Good, Order, Sent, Before
<1>8. /\ Dist(o, e) \in Nat /\ Dist(o, h) \in Nat /\ Dist(o, t) \in Nat /\ Dist(o, t) < Count
      /\ Dist(o, o) = 0 /\ o # h /\ o # t
  <2>1. /\ Dist(o, e) \in Nat /\ Dist(o, h) \in Nat /\ Dist(o, t) \in Nat /\ Dist(o, t) < Count
        /\ Dist(o, o) = 0
    BY DistNat, DistFacts
  <2>2. QED
    BY <1>7, <2>1
<1>9. /\ Dist(n, h) = Dist(o, h) - 1 /\ Dist(n, t) = Dist(o, t) - 1
      /\ \A s \in Slot : s # o => Dist(n, s) = Dist(o, s) - 1
      /\ Dist(n, o) = Count - 1
  BY <1>2, <1>8, DistSucc
<1>10. \A s \in Slot : /\ Held(s)' <=> Held(s) /\ s # o
                       /\ Sent(s)' <=> Sent(s) /\ s # o
                       /\ Taken(s)' = Taken(s)
  <2> SUFFICES ASSUME NEW s \in Slot
               PROVE  /\ Held(s)' <=> Held(s) /\ s # o
                      /\ Sent(s)' <=> Sent(s) /\ s # o
    BY <1>1 DEF Taken, Working
  <2>1. /\ Held(s)' <=> Dist(n, s) < Dist(n, t)
        /\ Sent(s)' <=> Dist(n, s) < Dist(n, h)
        /\ Held(s) <=> Dist(o, s) < Dist(o, t)
        /\ Sent(s) <=> Dist(o, s) < Dist(o, h)
    BY <1>1, <1>2, <1>4 DEF Held, Sent, Before
  <2>2. Dist(o, s) \in Nat /\ Count \in Nat
    BY DistNat, CountFact
  <2>3. CASE s = o
    BY <1>7, <1>8, <1>9, <2>1, <2>2, <2>3
  <2>4. CASE s # o
    BY <1>8, <1>9, <2>1, <2>2, <2>4
  <2>5. QED
    BY <2>3, <2>4
<1>11. Held(o) /\ Sent(o)
  BY <1>1, <1>2, <1>4, <1>7, <1>8 DEF Held, Sent, Before
<1>12. Order'
  <2>1. ntc \in Slot /\ Dist(ntc, o) \in Nat /\ Dist(ntc, t) \in Nat /\ Dist(ntc, t) < Count
        /\ Count \in Nat /\ Dist(o, t) > 0
    <3>1. ntc \in Slot
      BY TypeFacts
    <3>2. Dist(o, t) > 0
      BY <1>7, <1>8
    <3>3. QED
      BY <3>1, <3>2, DistNat, CountFact
  <2>2. Dist(ntc, t) = Dist(ntc, o) + Dist(o, t)
    BY <1>7, <2>1, Through
  <2>3. Dist(ntc, n) = Dist(ntc, o) + 1
    <3>1. Dist(ntc, o) < Count - 1
      BY <1>8, <2>1, <2>2
    <3>2. QED
      BY <1>2, <2>1, <3>1, DistSucc
  <2>4. Dist(ntc, n) <= Dist(ntc, t) /\ Dist(n, h) <= Dist(n, t)
    BY <1>7, <1>8, <1>9, <2>1, <2>2, <2>3
  <2>5. o # e => Sent(e)' /\ desc'[e] = "done"
    <3>1. Sent(e)
      BY <1>2, <1>4, <1>7 DEF Sent, Before
    <3>2. QED
      BY <1>5, <1>7, <1>10, <3>1
  <2>6. clean'.pc = "free" => Sent(clean.eop)' /\ desc'[clean'.eop] = "done"
    <3>1. clean'.pc = "free" => o # e /\ clean'.eop = e
      BY <1>3
    <3>2. clean'.eop = e => Sent(clean.eop)' = Sent(e)'
      BY DEF Sent
    <3>3. QED
      BY <2>5, <3>1, <3>2
  <2>7. QED
    BY <1>1, <1>2, <1>3, <1>4, <2>4, <2>6 DEF Order
<1>13. ASSUME NEW s \in Slot, s # o, Starts(s)'
       PROVE  Starts(s)
  <2>1. CASE s = n
    <3>1. o = e
      BY <1>3, <1>4, <1>13, <2>1 DEF Starts
    <3>2. Ends(o)
      BY <1>7, <3>1 DEF Ends
    <3>3. QED
      BY <1>2, <1>4, <1>13, <2>1, <3>2 DEF Starts
  <2>2. CASE s # n
    <3>1. PICK p \in Slot : s = Succ(p) /\ Ends(p)'
      BY <1>4, <1>13, <2>2 DEF Starts
    <3>2. Ends(p)
      BY <1>5, <3>1 DEF Ends
    <3>3. QED
      BY <1>4, <1>13, <3>1, <3>2 DEF Starts
  <2>3. QED
    BY <2>1, <2>2
<1>14. ASSUME NEW s \in Slot, s # o, Held(s), Frame(s)
       PROVE  Frame(s)'
  <2>1. PICK w \in Slot : w = buf[s].watch
    BY TypeFacts
  <2>2. Before(s, w, t) /\ Ends(w) /\ \A k \in Slot : Before(s, k, w) => ~Ends(k)
    BY <1>2, <1>14, <2>1 DEF Frame
  <2>3. w # o
    <3>1. Dist(o, s) < Dist(o, t) /\ Dist(o, s) \in Nat
      BY <1>2, <1>4, <1>14, DistNat DEF Held, Before
    <3>2. Dist(o, t) = Dist(o, s) + Dist(s, t)
      BY <1>8, <3>1, Through
    <3>3. Dist(s, o) = Count - Dist(o, s)
      BY <1>14, CountFact DEF Dist
    <3>4. Dist(s, t) \in Nat /\ Count \in Nat
      BY DistNat, CountFact
    <3>5. ~(Dist(s, o) < Dist(s, t))
      BY <1>8, <3>1, <3>2, <3>3, <3>4
    <3>6. QED
      BY <2>2, <3>5 DEF Before
  <2>4. Ends(w)' /\ \A k \in Slot : Ends(k)' => Ends(k)
    BY <1>5, <2>2, <2>3 DEF Ends
  <2>5. buf'[s].watch = w
    BY <1>6, <2>1
  <2>6. QED
    BY <1>1, <1>2, <2>2, <2>4, <2>5 DEF Frame, Before
<1>15. Frames'
  <2>1. \A s \in Slot : Held(s)' /\ Starts(s)' => Frame(s)'
    BY <1>10, <1>13, <1>14 DEF Good, Frames
  <2>2. \A s \in Slot : Held(s)' /\ Succ(s) = tdt' => Ends(s)'
    BY <1>1, <1>5, <1>10 DEF Good, Frames, Ends
  <2>3. QED
    BY <2>1, <2>2 DEF Frames
<1>16. Marks'
  BY <1>1, <1>5, <1>10 DEF Good, Marks
<1>17. Reported'
  BY <1>1, <1>3, <1>6 DEF Reported
<1>18. Mapped'
  <2> SUFFICES ASSUME "map_fails" \notin may
               PROVE  Mapped'
    BY <1>1 DEF Mapped
  <2>1. xmit.pc \in {"map", "queue"} => ~(Dist(ntu, o) < xmit.n)
    BY <1>11, OwnSlots DEF Good
  <2>2. ASSUME NEW s \in Slot
        PROVE  /\ desc'[s] \in {"data", "last"} => buf'[s].dma
               /\ xmit.pc \in {"map", "queue"} /\ Dist(ntu, s) < xmit.n => buf'[s].dma
               /\ buf'[s].dma => Held(s)' \/ Taken(s)'
               /\ buf'[s].stamp = "fresh" => Held(s)' \/ Taken(s)'
               /\ buf'[s].stamp = "old" => Held(s)'
    <3>1. CASE s = o
      BY <1>5, <1>6, <2>1, <3>1
    <3>2. CASE s # o
      BY <1>5, <1>6, <1>10, <3>2 DEF Good, Mapped
    <3>3. QED
      BY <3>1, <3>2
  <2>3. fault = "none" /\ ~hung
    BY DEF Good, Mapped
  <2>4. QED
    BY <1>1, <2>2, <2>3 DEF Mapped
<1>19. InRoom'
  BY <1>1, <1>2, <1>5, <1>6, <1>11, RoomKept DEF Good
<1>20. Waking'
  BY <1>1, <1>3 DEF Good, Waking, Waker, Working
<1>21. QED
  BY <1>12, <1>15, <1>16, <1>17, <1>18, <1>19, <1>20 DEF Good

(* e1000_down empties the ring, under nobody's hands.                        *)
LEMMA CleanTxRingOK ==
  ASSUME TypeOK, TypeOK', Good, CleanTxRing
  PROVE  Good'
<1>1. /\ reset = "down" /\ reset' = "clean" /\ fifo.pc = "idle"
      /\ ntu' = 0 /\ ntc' = 0 /\ tdh' = 0 /\ tdt' = 0 /\ ~txdw'
      /\ ~fifo'.queued /\ fifo'.pc = "idle"
      /\ UNCHANGED <<may, stopped, xmit, clean, hung, excused>>
      /\ fault' = IF xmit.pc # "idle" THEN "cleaned_under_xmit" ELSE fault
  BY DEF CleanTxRing
<1>2. xmit.pc = "idle" /\ clean.pc = "idle" /\ stopped
  BY <1>1 DEF Good, Waking
<1>3. \A s \in Slot : desc'[s] = "free" /\ buf'[s].dma = FALSE /\ buf'[s].stamp = "none"
  BY DEF CleanTxRing, NoBuf
<1>4. Oldest' = 0 /\ 0 \in Slot /\ Dist(0, 0) = 0
  BY <1>1, <1>2, CountFact DEF Oldest, Dist
<1>5. \A s \in Slot : ~Held(s)' /\ ~Sent(s)' /\ ~Taken(s)'
  <2>1. \A s \in Slot : Dist(0, s) \in Nat
    BY <1>4, DistNat
  <2>2. QED
    BY <1>1, <1>2, <1>4, <2>1 DEF Held, Sent, Taken, Before, Working
<1>6. Order' /\ InRoom'
  BY <1>1, <1>2, <1>4 DEF Order, InRoom, Working, Good
<1>7. Frames' /\ Marks' /\ Reported'
  BY <1>1, <1>2, <1>3, <1>5 DEF Frames, Marks, Reported
<1>8. Mapped' /\ Waking'
  BY <1>1, <1>2, <1>3, <1>5 DEF Good, Mapped, Waking
<1>9. QED
  BY <1>6, <1>7, <1>8 DEF Good

LEMMA GoodNext ==
  ASSUME TypeOK, TypeOK', Good, ~rewoken', [Next]_vars
  PROVE  Good'
<1>1. CASE \E s \in Skb, shape \in Shapes : XmitFrame(s, shape)
  BY <1>1, XmitStarts
<1>2. CASE Xmit \/ MapFails
  BY <1>2, MaybeStopOK, RecheckOK, WorkaroundOK, StallOK, ScheduleOK, ContextOK, MapOK, QueueOK,
     WriteTailOK, MapFailsOK DEF Xmit
<1>3. CASE Transmit \/ TimePasses \/ CleanTx \/ CleanStep \/ CleanTxRing
  BY <1>3, TransmitOK, TimePassesOK, CleanTxOK, TestDoneOK, FreeSlotOK, StoreNtcOK, WakeQueueOK,
     DetectHangOK, CleanTxRingOK DEF CleanStep
<1>4. CASE Watchdog \/ FifoTask \/ FifoWake \/ LinkDown \/ LinkUp \/ NetifTxDisable
             \/ NapiDisable \/ DownAndStop \/ Up \/ UNCHANGED vars
  BY <1>4, AsideOK
<1>5. QED
  BY <1>1, <1>2, <1>3, <1>4 DEF Next

(* rewoken and the case at hand stay, so does what they excuse.              *)
LEMMA RewokenStays ==
  ASSUME [Next]_vars
  PROVE  (rewoken => rewoken') /\ may' = may
<1> USE DEF ring, regs, net, ghost
<1>1. CASE \E s \in Skb, shape \in Shapes : XmitFrame(s, shape)
  BY <1>1 DEF XmitFrame
<1>2. CASE MaybeStop \/ Recheck \/ Workaround \/ Stall \/ ScheduleFifoTask
  BY <1>2 DEF MaybeStop, Recheck, Workaround, Stall, ScheduleFifoTask
<1>3. CASE Context \/ Map \/ Queue \/ WriteTail
  BY <1>3 DEF Context, Map, Queue, WriteTail
<1>4. CASE MapFails
  BY <1>4 DEF MapFails
<1>5. CASE Transmit \/ TimePasses \/ Watchdog \/ CleanTx \/ TestDone
  BY <1>5 DEF Transmit, TimePasses, Watchdog, CleanTx, TestDone
<1>6. CASE FreeSlot \/ StoreNtc \/ DetectHang \/ FifoTask \/ LinkDown \/ LinkUp
  BY <1>6 DEF FreeSlot, StoreNtc, DetectHang, FifoTask, LinkDown, LinkUp
<1>7. CASE WakeQueue \/ FifoWake
  BY <1>7 DEF WakeQueue, FifoWake
<1>8. CASE NetifTxDisable \/ NapiDisable \/ DownAndStop \/ CleanTxRing \/ Up
  BY <1>8 DEF NetifTxDisable, NapiDisable, DownAndStop, CleanTxRing, Up
<1>9. CASE UNCHANGED vars
  BY <1>9 DEF vars
<1>10. QED
  BY <1>1, <1>2, <1>3, <1>4, <1>5, <1>6, <1>7, <1>8, <1>9 DEF Next, Xmit, CleanStep

-----------------------------------------------------------------------------
LEMMA Inductive == Spec => [](TypeOK /\ (~rewoken => Good))
<1>1. Init => TypeOK /\ (~rewoken => Good)
  BY TypeInit, GoodInit
<1>2. TypeOK /\ (~rewoken => Good) /\ [Next]_vars => (TypeOK /\ (~rewoken => Good))'
  BY TypeNext, GoodNext, RewokenStays
<1>3. QED
  BY <1>1, <1>2, PTL DEF Spec

(* With a ring and frames of any size the controller reads mapped buffers    *)
(* only, no mapping is overwritten, and e1000_down does not empty the ring   *)
(* under xmit; unless a mapping failed, or a late wake of the queue let xmit *)
(* in: e1000_xmit_frame, e1000_tx_map, e1000_clean_tx_irq, e1000_down.       *)
THEOREM Consistent == Spec => []RingConsistent
<1>1. TypeOK /\ (~rewoken => Good) => RingConsistent
  BY DEF Good, Mapped, RingConsistent
<1>2. QED
  BY <1>1, Inductive, PTL

(* Whenever the queue stands and nobody is at work, a frame is being sent, a *)
(* poll is due or the FIFO task is queued, but where the code gives the wake *)
(* up: __e1000_maybe_stop_tx's second look at the ring is enough.            *)
THEOREM QueueIsWoken == Spec => []NoLostWake
<1>1. ASSUME TypeOK, Good, stopped, xmit.pc = "idle", clean.pc = "idle", fifo.pc = "idle",
             reset = "up", excused = {}, tdh = tdt, ~txdw, ~fifo.queued
      PROVE  FALSE
  <2>1. ntc # tdt /\ ntc \in Slot /\ tdt \in Slot /\ Oldest = ntc
    BY <1>1, TypeFacts DEF Good, Waking, Waker, Oldest
  <2>2. PICK p \in Slot : Succ(p) = tdt /\ Before(ntc, p, tdt)
    <3>1. PICK t \in Slot, o \in Slot : t = tdt /\ o = ntc /\ o # t
      BY <2>1
    <3>2. PICK p \in Slot : p = IF t = 0 THEN Count - 1 ELSE t - 1
      BY CountFact
    <3>3. Succ(p) = t
      BY <3>2, CountFact DEF Succ
    <3>4. Before(o, p, t)
      BY <3>1, <3>2, CountFact DEF Before, Dist
    <3>5. QED
      BY <3>1, <3>3, <3>4
  <2>3. Held(p) /\ Sent(p)
    BY <1>1, <2>1, <2>2 DEF Held, Sent
  <2>4. desc[p] = "done"
    <3>1. Ends(p)
      BY <1>1, <2>2, <2>3 DEF Good, Frames
    <3>2. desc[p] # "last"
      BY <1>1, <2>3 DEF Good, Marks
    <3>3. QED
      BY <3>1, <3>2 DEF Ends
  <2>5. QED
    BY <1>1, <2>4 DEF Good, Reported
<1>2. TypeOK /\ (~rewoken => Good) => NoLostWake
  BY <1>1 DEF NoLostWake
<1>3. QED
  BY <1>2, Inductive, PTL

(* e1000_clean_tx_irq reports a hang only while a frame waits to be sent.    *)
THEOREM HangsAreReal == Spec => []HangIsReal
<1>1. TypeOK /\ (~rewoken => Good) => HangIsReal
  BY DEF Good, Mapped, HangIsReal
<1>2. QED
  BY <1>1, Inductive, PTL

-----------------------------------------------------------------------------
(* What the ring promises to the stack: every step of it is one of TxFifo.   *)
(* A set of numbers has a least one.                                         *)
LEMMA LeastElement ==
  ASSUME NEW T, T \subseteq Nat, T # {}
  PROVE  \E i \in T : \A j \in T : i <= j
<1>1. PICK i \in T : \A j \in T : <<j, i>> \notin OpToRel(<, Nat)
  BY NatLessThanWellFounded, WFMin
<1>2. ASSUME NEW j \in T
      PROVE  i <= j
  <2>1. <<j, i>> \notin {ss \in Nat \X Nat : ss[1] < ss[2]}
    BY <1>1 DEF OpToRel
  <2>2. QED
    BY <2>1
<1>3. QED
  BY <1>2

(* What some slots hold, in order.                                           *)
Row == [1 .. Count -> Skb \cup {None}]
Add(q, s) == IF s = None THEN q ELSE Append(q, s)

LEMMA AddType ==
  ASSUME NEW q \in Seq(Skb), NEW s \in Skb \cup {None}
  PROVE  /\ Add(q, s) \in Seq(Skb)
         /\ Len(Add(q, s)) \in Nat /\ Len(q) \in Nat
         /\ s = None => Add(q, s) = q
         /\ s # None => Add(q, s) = Append(q, s) /\ Len(Add(q, s)) = Len(q) + 1
BY DEF Add

(* The function that picks the buffers out of a row exists: one that does    *)
(* for the first k slots makes one for the next.                             *)
LEMMA PickedExists ==
  ASSUME NEW v \in Row
  PROVE  \E f : f = [k \in 0 .. Count |-> IF k = 0 THEN <<>> ELSE Add(f[k - 1], v[k])]
<1> DEFINE Picks(n, f) == /\ f \in [0 .. n -> Seq(Skb)]
                          /\ \A k \in 0 .. n : f[k] = IF k = 0 THEN <<>> ELSE Add(f[k - 1], v[k])
           Bad == {n \in 0 .. Count : ~ \E f : Picks(n, f)}
<1>0. Count \in Nat /\ \A k \in 1 .. Count : v[k] \in Skb \cup {None}
  BY CountFact DEF Row
<1>1. Bad = {}
  <2> SUFFICES ASSUME Bad # {}
               PROVE  FALSE
    OBVIOUS
  <2>1. PICK n \in Bad : \A m \in Bad : n <= m
    <3>1. Bad \subseteq Nat
      BY <1>0
    <3>2. QED
      BY <3>1, LeastElement
  <2>2. CASE n = 0
    <3> DEFINE e == [k \in 0 .. 0 |-> <<>>]
    <3>1. Picks(0, e)
      <4>1. <<>> \in Seq(Skb)
        OBVIOUS
      <4>2. e \in [0 .. 0 -> Seq(Skb)]
        BY <4>1
      <4>3. \A k \in 0 .. 0 : k = 0 /\ e[k] = <<>>
        OBVIOUS
      <4>4. QED
        BY <4>2, <4>3
    <3>2. QED
      BY <2>1, <2>2, <3>1
  <2>3. CASE n # 0
    <3>1. n \in 1 .. Count /\ n - 1 \in 0 .. Count /\ n - 1 \notin Bad
      <4>1. n \in 0 .. Count
        BY <2>1
      <4>2. n \in 1 .. Count /\ n - 1 \in 0 .. Count /\ ~(n <= n - 1)
        BY <1>0, <2>3, <4>1
      <4> HIDE DEF Bad
      <4>3. QED
        BY <2>1, <4>2
    <3>2. PICK f : Picks(n - 1, f)
      BY <3>1
    <3> DEFINE g == [k \in 0 .. n |-> IF k = n THEN Add(f[n - 1], v[n]) ELSE f[k]]
    <3>3. n - 1 \in 0 .. n - 1 /\ v[n] \in Skb \cup {None} /\ n \in Nat
      BY <1>0, <3>1
    <3>4. f[n - 1] \in Seq(Skb)
      BY <3>2, <3>3
    <3>5. Add(f[n - 1], v[n]) \in Seq(Skb)
      BY <3>3, <3>4, AddType
    <3>6. \A k \in 0 .. n : k # n => k \in 0 .. n - 1 /\ f[k] \in Seq(Skb)
      BY <3>2, <3>3
    <3>7. g \in [0 .. n -> Seq(Skb)]
      BY <3>5, <3>6
    <3>8. ASSUME NEW k \in 0 .. n
          PROVE  g[k] = IF k = 0 THEN <<>> ELSE Add(g[k - 1], v[k])
      <4>1. CASE k = n
        <5>1. n - 1 \in 0 .. n /\ n - 1 # n /\ g[n - 1] = f[n - 1]
          BY <3>3, <2>3
        <5>2. g[n] = Add(f[n - 1], v[n])
          BY <3>3
        <5> HIDE DEF g
        <5>3. QED
          BY <2>3, <4>1, <5>1, <5>2
      <4>2. CASE k # n
        <5>1. /\ k \in 0 .. n - 1 /\ g[k] = f[k]
              /\ k # 0 => k - 1 \in 0 .. n /\ k - 1 # n /\ g[k - 1] = f[k - 1]
          BY <3>3, <4>2
        <5> HIDE DEF g
        <5>2. f[k] = IF k = 0 THEN <<>> ELSE Add(f[k - 1], v[k])
          BY <3>2, <5>1
        <5>3. QED
          BY <5>1, <5>2
      <4>3. QED
        BY <4>1, <4>2
    <3> HIDE DEF g
    <3>9. Picks(n, g)
      BY <3>7, <3>8
    <3>10. QED
      BY <2>1, <3>9
  <2>4. QED
    BY <2>2, <2>3
<1>2. PICK f : Picks(Count, f)
  <2>1. Count \in 0 .. Count
    BY <1>0
  <2>2. QED
    BY <1>1, <2>1
<1>3. f = [k \in 0 .. Count |-> f[k]]
  BY <1>2
<1>4. f = [k \in 0 .. Count |-> IF k = 0 THEN <<>> ELSE Add(f[k - 1], v[k])]
  BY <1>2, <1>3
<1>5. QED
  BY <1>4

(* The buffers of the first k slots of a row, slot by slot.                  *)
LEMMA PickedDef ==
  ASSUME NEW v \in Row
  PROVE  Picked(v) = [k \in 0 .. Count |-> IF k = 0 THEN <<>> ELSE Add(Picked(v)[k - 1], v[k])]
<1>1. \E f : f = [k \in 0 .. Count |-> IF k = 0 THEN <<>> ELSE Add(f[k - 1], v[k])]
  BY PickedExists
<1>2. QED
  BY <1>1 DEF Picked, Add

LEMMA PickedStep ==
  ASSUME NEW v \in Row
  PROVE  /\ Picked(v)[0] = <<>>
         /\ \A k \in 1 .. Count : Picked(v)[k] = Add(Picked(v)[k - 1], v[k])
<1>1. Count \in Nat
  BY CountFact
<1>2. \A k \in 0 .. Count : Picked(v)[k] = IF k = 0 THEN <<>> ELSE Add(Picked(v)[k - 1], v[k])
  BY PickedDef
<1>3. QED
  BY <1>1, <1>2

LEMMA PickedType ==
  ASSUME NEW v \in Row, NEW k \in 0 .. Count
  PROVE  Picked(v)[k] \in Seq(Skb)
<1> DEFINE Bad == {n \in 0 .. Count : Picked(v)[n] \notin Seq(Skb)}
<1>0. Count \in Nat /\ \A n \in 1 .. Count : v[n] \in Skb \cup {None}
  BY CountFact DEF Row
<1>1. Bad = {}
  <2> SUFFICES ASSUME Bad # {}
               PROVE  FALSE
    OBVIOUS
  <2>1. PICK n \in Bad : \A m \in Bad : n <= m
    <3>1. Bad \subseteq Nat
      BY <1>0
    <3>2. QED
      BY <3>1, LeastElement
  <2>2. n # 0
    <3>1. <<>> \in Seq(Skb)
      OBVIOUS
    <3>2. QED
      BY <2>1, <3>1, PickedStep
  <2>3. n \in 1 .. Count /\ n - 1 \in 0 .. Count /\ ~(n <= n - 1)
    BY <1>0, <2>1, <2>2
  <2>4. Picked(v)[n - 1] \in Seq(Skb)
    BY <2>1, <2>3
  <2>5. Add(Picked(v)[n - 1], v[n]) \in Seq(Skb)
    BY <1>0, <2>3, <2>4, AddType
  <2>6. QED
    BY <2>1, <2>3, <2>5, PickedStep
<1>2. QED
  BY <1>1

(* They depend on these slots only.                                          *)
LEMMA PickedSame ==
  ASSUME NEW v \in Row, NEW w \in Row, NEW k \in 0 .. Count,
         \A i \in 1 .. k : v[i] = w[i]
  PROVE  Picked(v)[k] = Picked(w)[k]
<1> DEFINE Bad == {n \in 0 .. k : Picked(v)[n] # Picked(w)[n]}
<1>0. Count \in Nat /\ k \in Nat /\ k <= Count
  BY CountFact
<1>1. Bad = {}
  <2> SUFFICES ASSUME Bad # {}
               PROVE  FALSE
    OBVIOUS
  <2>1. PICK n \in Bad : \A m \in Bad : n <= m
    <3>1. Bad \subseteq Nat
      BY <1>0
    <3>2. QED
      BY <3>1, LeastElement
  <2>2. n # 0
    BY <2>1, PickedStep
  <2>3. n \in 1 .. k /\ n \in 1 .. Count /\ n - 1 \in 0 .. k /\ ~(n <= n - 1)
    BY <1>0, <2>1, <2>2
  <2>4. Picked(v)[n - 1] = Picked(w)[n - 1] /\ v[n] = w[n]
    BY <2>1, <2>3
  <2>5. QED
    BY <2>1, <2>3, <2>4, PickedStep
<1>2. QED
  BY <1>0, <1>1

(* A row without its first slot.                                             *)
LEMMA PickedTail ==
  ASSUME NEW v \in Row, NEW w \in Row, NEW k \in 1 .. Count,
         \A i \in 1 .. k - 1 : w[i] = v[i + 1]
  PROVE  /\ v[1] = None => Picked(w)[k - 1] = Picked(v)[k]
         /\ v[1] # None => /\ Len(Picked(v)[k]) > 0
                           /\ Picked(w)[k - 1] = Tail(Picked(v)[k])
<1> DEFINE Fits(q, r) == /\ v[1] = None => r = q
                         /\ v[1] # None => Len(q) > 0 /\ r = Tail(q)
           Bad == {n \in 1 .. k : ~Fits(Picked(v)[n], Picked(w)[n - 1])}
<1>0. /\ Count \in Nat /\ k \in Nat /\ k <= Count
      /\ \A n \in 1 .. Count : v[n] \in Skb \cup {None}
  BY CountFact DEF Row
<1>1. Bad = {}
  <2> SUFFICES ASSUME Bad # {}
               PROVE  FALSE
    OBVIOUS
  <2>1. PICK n \in Bad : \A m \in Bad : n <= m
    <3>1. Bad \subseteq Nat
      BY <1>0
    <3>2. QED
      BY <3>1, LeastElement
  <2>2. CASE n = 1
    <3>1. Picked(v)[1] = Add(<<>>, v[1]) /\ Picked(w)[0] = <<>>
      <4>1. 1 \in 1 .. Count
        BY <1>0, <2>1
      <4>2. Picked(v)[1] = Add(Picked(v)[1 - 1], v[1]) /\ 1 - 1 = 0
        BY <4>1, PickedStep
      <4>3. Picked(v)[0] = <<>> /\ Picked(w)[0] = <<>>
        BY PickedStep
      <4>4. QED
        BY <4>2, <4>3
    <3>2. Fits(Add(<<>>, v[1]), <<>>)
      <4>1. v[1] \in Skb \cup {None}
        BY <1>0, <2>1
      <4>2. CASE v[1] = None
        BY <4>2 DEF Add
      <4>3. CASE v[1] # None
        <5>1. Add(<<>>, v[1]) = <<v[1]>>
          BY <4>3 DEF Add
        <5>2. Len(<<v[1]>>) > 0 /\ Tail(<<v[1]>>) = <<>>
          OBVIOUS
        <5>3. QED
          BY <4>3, <5>1, <5>2
      <4>4. QED
        BY <4>2, <4>3
    <3>3. n - 1 = 0
      BY <2>2
    <3>4. QED
      BY <2>1, <2>2, <3>1, <3>2, <3>3
  <2>3. CASE n # 1
    <3>1. /\ n \in 2 .. k /\ n \in 1 .. Count /\ n - 1 \in 1 .. k /\ n - 1 \in 1 .. Count
          /\ n - 1 \in 0 .. Count /\ (n - 1) - 1 \in 0 .. Count /\ ~(n <= n - 1)
          /\ n - 1 \in 1 .. k - 1 /\ (n - 1) + 1 = n
      BY <1>0, <2>1, <2>3
    <3>2. PICK q, r : q = Picked(v)[n - 1] /\ r = Picked(w)[(n - 1) - 1]
      OBVIOUS
    <3>3. Fits(q, r)
      <4>1. n - 1 \notin Bad
        <5> HIDE DEF Bad
        <5>1. QED
          BY <2>1, <3>1
      <4>2. QED
        BY <3>1, <3>2, <4>1
    <3>4. q \in Seq(Skb) /\ r \in Seq(Skb)
      BY <3>1, <3>2, PickedType
    <3>5. PICK s \in Skb \cup {None} : s = v[n] /\ s = w[n - 1]
      BY <1>0, <3>1
    <3>6. Picked(v)[n] = Add(q, s) /\ Picked(w)[n - 1] = Add(r, s)
      BY <3>1, <3>2, <3>5, PickedStep
    <3>7. Fits(Add(q, s), Add(r, s))
      <4>1. CASE s = None
        BY <3>3, <4>1 DEF Add
      <4>2. CASE s # None
        <5>1. Add(q, s) = Append(q, s) /\ Add(r, s) = Append(r, s)
          BY <4>2 DEF Add
        <5>2. Len(Append(q, s)) = Len(q) + 1 /\ Len(q) \in Nat
          BY <3>4, <3>5, <4>2
        <5>3. Len(q) > 0 => Tail(Append(q, s)) = Append(Tail(q), s)
          BY <3>4, <3>5, <4>2
        <5>4. QED
          BY <3>3, <5>1, <5>2, <5>3
      <4>3. QED
        BY <4>1, <4>2
    <3> HIDE DEF Fits
    <3>8. QED
      BY <2>1, <3>6, <3>7
  <2>4. QED
    BY <2>2, <2>3
<1>2. k \in 1 .. k
  BY <1>0
<1>3. Fits(Picked(v)[k], Picked(w)[k - 1])
  BY <1>1, <1>2
<1>4. QED
  BY <1>3

(* More slots do not hold fewer buffers.                                     *)
LEMMA PickedMore ==
  ASSUME NEW v \in Row, NEW j \in 0 .. Count, NEW k \in 0 .. Count, j <= k
  PROVE  Len(Picked(v)[j]) <= Len(Picked(v)[k])
<1> DEFINE Bad == {n \in j .. k : ~(Len(Picked(v)[j]) <= Len(Picked(v)[n]))}
<1>0. /\ Count \in Nat /\ k \in Nat /\ j \in Nat /\ k <= Count
      /\ \A n \in 1 .. Count : v[n] \in Skb \cup {None}
  BY CountFact DEF Row
<1>1. Bad = {}
  <2> SUFFICES ASSUME Bad # {}
               PROVE  FALSE
    OBVIOUS
  <2>1. PICK n \in Bad : \A m \in Bad : n <= m
    <3>1. Bad \subseteq Nat
      BY <1>0
    <3>2. QED
      BY <3>1, LeastElement
  <2>a. Picked(v)[j] \in Seq(Skb) /\ Len(Picked(v)[j]) \in Nat
    BY PickedType
  <2>2. n # j
    BY <2>1, <2>a
  <2>3. /\ n \in 1 .. Count /\ n - 1 \in j .. k /\ n - 1 \in 0 .. Count /\ ~(n <= n - 1)
    BY <1>0, <2>1, <2>2
  <2>4. Len(Picked(v)[j]) <= Len(Picked(v)[n - 1])
    <3>1. n - 1 \notin Bad
      <4> HIDE DEF Bad
      <4>1. QED
        BY <2>1, <2>3
    <3>2. QED
      BY <2>3, <3>1
  <2>5. PICK q \in Seq(Skb), s \in Skb \cup {None} : q = Picked(v)[n - 1] /\ s = v[n]
    BY <1>0, <2>3, PickedType
  <2>6. Picked(v)[n] = Add(q, s)
    BY <2>3, <2>5, PickedStep
  <2>7. Len(q) <= Len(Add(q, s)) /\ Len(q) \in Nat /\ Len(Add(q, s)) \in Nat
    BY AddType
  <2>8. QED
    BY <2>1, <2>4, <2>5, <2>6, <2>7, <2>a
<1>2. k \in j .. k
  BY <1>0
<1>3. QED
  BY <1>1, <1>2

(* A buffer that no slot holds is not among them.                            *)
LEMMA PickedFrom ==
  ASSUME NEW v \in Row, NEW s, NEW k \in 0 .. Count, \A i \in 1 .. k : v[i] # s
  PROVE  \A n \in 1 .. Len(Picked(v)[k]) : Picked(v)[k][n] # s
<1> DEFINE Without(q) == \A n \in 1 .. Len(q) : q[n] # s
           Bad == {n \in 0 .. k : ~Without(Picked(v)[n])}
<1>0. /\ Count \in Nat /\ k \in Nat /\ k <= Count
      /\ \A n \in 1 .. Count : v[n] \in Skb \cup {None}
  BY CountFact DEF Row
<1>1. Bad = {}
  <2> SUFFICES ASSUME Bad # {}
               PROVE  FALSE
    OBVIOUS
  <2>1. PICK n \in Bad : \A m \in Bad : n <= m
    <3>1. Bad \subseteq Nat
      BY <1>0
    <3>2. QED
      BY <3>1, LeastElement
  <2>2. n # 0
    BY <2>1, PickedStep
  <2>3. n \in 1 .. k /\ n \in 1 .. Count /\ n - 1 \in 0 .. k /\ n - 1 \in 0 .. Count /\ ~(n <= n - 1)
    BY <1>0, <2>1, <2>2
  <2>4. PICK q \in Seq(Skb), b \in Skb \cup {None} : q = Picked(v)[n - 1] /\ b = v[n] /\ b # s
    BY <1>0, <2>3, PickedType
  <2>5. Without(q)
    <3>1. n - 1 \notin Bad
      <4> HIDE DEF Bad
      <4>1. QED
        BY <2>1, <2>3
    <3>2. QED
      BY <2>3, <2>4, <3>1
  <2>6. Without(Add(q, b))
    <3>1. CASE b = None
      BY <2>5, <3>1 DEF Add
    <3>2. CASE b # None
      <4>1. Add(q, b) = Append(q, b) /\ b \in Skb
        BY <3>2 DEF Add
      <4>2. ASSUME NEW m \in 1 .. Len(Append(q, b))
            PROVE  Append(q, b)[m] # s
        <5>1. Len(Append(q, b)) = Len(q) + 1 /\ Len(q) \in Nat
          BY <4>1
        <5>2. CASE m = Len(q) + 1
          BY <2>4, <4>1, <5>1, <5>2
        <5>3. CASE m # Len(q) + 1
          BY <2>5, <4>1, <5>1, <5>3
        <5>4. QED
          BY <5>2, <5>3
      <4>3. QED
        BY <4>1, <4>2
    <3>3. QED
      BY <3>1, <3>2
  <2>7. Picked(v)[n] = Add(q, b)
    BY <2>3, <2>4, PickedStep
  <2> HIDE DEF Without
  <2>8. QED
    BY <2>1, <2>6, <2>7
<1>2. k \in 0 .. k
  BY <1>0
<1>3. QED
  BY <1>1, <1>2

-----------------------------------------------------------------------------
(* The buffers lie in the slots of the frames; that of a frame which is      *)
(* being made is not in the ring, or in its last slot.                       *)
Early == {"stop", "recheck", "workaround", "context", "map", "queue"}
Skbs ==
  /\ xmit.pc \in Early => xmit.skb \in Skb /\ ~InRing(xmit.skb)
  /\ xmit.pc = "tail" =>
       /\ xmit.skb \in Skb /\ buf[xmit.i].skb = xmit.skb
       /\ \A s \in Slot : s # xmit.i => buf[s].skb # xmit.skb
  /\ \A s \in Slot : buf[s].skb # None => Held(s) \/ (xmit.pc = "tail" /\ s = xmit.i)

(* What the store's queue and counter are.                                   *)
QueueNow == Buffers(Dist(Oldest, tdt))
SentNow  == Len(Buffers(Dist(Oldest, tdh)))

StoreStep ==
  \/ \E s \in Skb : /\ \A n \in 1 .. Len(QueueNow) : QueueNow[n] # s
                    /\ QueueNow' = Append(QueueNow, s) /\ SentNow' = SentNow
  \/ SentNow < Len(QueueNow) /\ SentNow' = SentNow + 1 /\ QueueNow' = QueueNow
  \/ SentNow > 0 /\ QueueNow' = Tail(QueueNow) /\ SentNow' = SentNow - 1
  \/ QueueNow' = <<>> /\ SentNow' = 0
  \/ QueueNow' = QueueNow /\ SentNow' = SentNow

LEMMA StoreSteps == StoreStep => Fifo!FifoNext \/ UNCHANGED Fifo!fifoVars
<1>1. ASSUME NEW s \in Skb, \A n \in 1 .. Len(QueueNow) : QueueNow[n] # s,
             QueueNow' = Append(QueueNow, s), SentNow' = SentNow
      PROVE  Fifo!FifoNext
  BY <1>1 DEF Fifo!FifoNext, Fifo!Take, QueueNow, SentNow
<1>2. CASE SentNow < Len(QueueNow) /\ SentNow' = SentNow + 1 /\ QueueNow' = QueueNow
  BY <1>2 DEF Fifo!FifoNext, Fifo!Send, QueueNow, SentNow
<1>3. CASE SentNow > 0 /\ QueueNow' = Tail(QueueNow) /\ SentNow' = SentNow - 1
  BY <1>3 DEF Fifo!FifoNext, Fifo!GiveBack, QueueNow, SentNow
<1>4. CASE QueueNow' = <<>> /\ SentNow' = 0
  BY <1>4 DEF Fifo!FifoNext, Fifo!Flush, QueueNow, SentNow
<1>5. CASE QueueNow' = QueueNow /\ SentNow' = SentNow
  BY <1>5 DEF Fifo!fifoVars, QueueNow, SentNow
<1>6. QED
  BY <1>1, <1>2, <1>3, <1>4, <1>5 DEF StoreStep

(* The k-th slot from o on.                                                  *)
LEMMA AheadFacts ==
  ASSUME NEW o \in Slot, NEW k \in 0 .. Count - 1
  PROVE  /\ Ahead(o, k) \in Slot /\ Dist(o, Ahead(o, k)) = k
         /\ Ahead(o, 0) = o
         /\ k > 0 => Ahead(Succ(o), k - 1) = Ahead(o, k)
         /\ \A s \in Slot : Dist(o, s) = k => Ahead(o, k) = s
BY CountFact DEF Ahead, Dist, Succ

LEMMA InOrderRow == TypeOK => InOrder \in Row
<1> SUFFICES ASSUME TypeOK
             PROVE  InOrder \in Row
  OBVIOUS
<1>1. /\ Oldest \in Slot /\ Count \in Nat
      /\ \A s \in Slot : buf[s].skb \in Skb \cup {None}
  <2>1. BufType
    BY TypeParts
  <2>2. QED
    BY <2>1, TypeFacts, CountFact DEF BufType, BufferSet
<1>2. ASSUME NEW k \in 1 .. Count
      PROVE  buf[Ahead(Oldest, k - 1)].skb \in Skb \cup {None}
  <2>1. k - 1 \in 0 .. Count - 1
    BY <1>1
  <2>2. Ahead(Oldest, k - 1) \in Slot
    BY <1>1, <2>1, AheadFacts
  <2>3. QED
    BY <1>1, <2>2
<1>3. QED
  BY <1>2 DEF InOrder, Row

LEMMA InOrderRowNext == TypeOK' => InOrder' \in Row
<1>1. (TypeOK => InOrder \in Row)'
  BY InOrderRow, PTL
<1>2. QED
  BY <1>1 DEF Row

(* Where a slot stands in the row.                                           *)
LEMMA InOrderAt ==
  ASSUME NEW o \in Slot, o = Oldest, NEW s \in Slot
  PROVE  /\ Dist(o, s) + 1 \in 1 .. Count
         /\ InOrder[Dist(o, s) + 1] = buf[s].skb
<1>1. Dist(o, s) \in 0 .. Count - 1 /\ Count \in Nat
  BY DistFacts, CountFact
<1>2. PICK k : k = Dist(o, s)
  OBVIOUS
<1>3. k + 1 \in 1 .. Count /\ (k + 1) - 1 = k /\ Ahead(o, k) = s
  BY <1>1, <1>2, AheadFacts
<1>4. InOrder[k + 1] = buf[Ahead(o, (k + 1) - 1)].skb
  BY <1>3 DEF InOrder
<1>5. QED
  BY <1>2, <1>3, <1>4

(* Slots without a buffer add none.                                          *)
LEMMA PickedNone ==
  ASSUME NEW v \in Row, NEW j \in 0 .. Count, NEW k \in 0 .. Count, j <= k,
         \A i \in j + 1 .. k : v[i] = None
  PROVE  Picked(v)[k] = Picked(v)[j]
<1> DEFINE Bad == {n \in j .. k : Picked(v)[n] # Picked(v)[j]}
<1>0. Count \in Nat /\ k \in Nat /\ j \in Nat /\ k <= Count
  BY CountFact
<1>1. Bad = {}
  <2> SUFFICES ASSUME Bad # {}
               PROVE  FALSE
    OBVIOUS
  <2>1. PICK n \in Bad : \A m \in Bad : n <= m
    <3>1. Bad \subseteq Nat
      BY <1>0
    <3>2. QED
      BY <3>1, LeastElement
  <2>2. n # j
    BY <2>1
  <2>3. n \in j + 1 .. k /\ n \in 1 .. Count /\ n - 1 \in j .. k /\ ~(n <= n - 1)
    BY <1>0, <2>1, <2>2
  <2>4. Picked(v)[n - 1] = Picked(v)[j] /\ v[n] = None
    BY <2>1, <2>3
  <2>5. QED
    BY <2>1, <2>3, <2>4, PickedStep DEF Add
<1>2. k \in j .. k
  BY <1>0
<1>3. QED
  BY <1>1, <1>2

-----------------------------------------------------------------------------
(* Steps that move no buffer.                                                *)
Stays ==
  /\ \A s \in Slot : buf'[s].skb = buf[s].skb
  /\ Oldest' = Oldest /\ tdt' = tdt
GoesOn ==
  /\ xmit'.pc \in Early => \/ xmit.pc \in Early /\ xmit'.skb = xmit.skb
                           \/ xmit'.skb \in Skb /\ ~InRing(xmit'.skb)
  /\ xmit'.pc = "tail" => xmit'.skb = xmit.skb
  /\ xmit'.pc = "tail" <=> xmit.pc = "tail"
  /\ xmit.pc = "tail" => xmit'.i = xmit.i

LEMMA StaysSkbs ==
  ASSUME TypeOK, Skbs, Stays, GoesOn
  PROVE  Skbs' /\ InOrder' = InOrder /\ QueueNow' = QueueNow
<1>1. \A s \in Slot : /\ buf'[s].skb = buf[s].skb /\ Held(s)' = Held(s)
  BY DEF Stays, Held, Before
<1>2. \A s : InRing(s)' = InRing(s)
  BY <1>1 DEF InRing
<1>3. xmit.i \in Slot
  BY TypeFacts
<1>4. ASSUME xmit'.pc \in Early
      PROVE  xmit'.skb \in Skb /\ \A s \in Slot : buf'[s].skb # xmit'.skb
  <2>1. xmit'.skb \in Skb /\ ~InRing(xmit'.skb)
    BY <1>4 DEF Skbs, GoesOn
  <2>2. QED
    BY <1>1, <2>1 DEF InRing
<1>5. ASSUME xmit'.pc = "tail"
      PROVE  /\ xmit'.skb \in Skb /\ buf'[xmit'.i].skb = xmit'.skb
             /\ \A s \in Slot : s # xmit'.i => buf'[s].skb # xmit'.skb
  BY <1>1, <1>3, <1>5 DEF Skbs, GoesOn
<1>6. \A s \in Slot : buf'[s].skb # None => Held(s)' \/ (xmit'.pc = "tail" /\ s = xmit'.i)
  BY <1>1 DEF Skbs, GoesOn
<1>7. Skbs'
  BY <1>4, <1>5, <1>6 DEF Skbs, InRing
<1>8. InOrder' = InOrder
  <2>1. Oldest \in Slot /\ Oldest' = Oldest /\ Count \in Nat
    BY TypeFacts, CountFact DEF Stays
  <2>2. ASSUME NEW k \in 1 .. Count
        PROVE  buf'[Ahead(Oldest, k - 1)].skb = buf[Ahead(Oldest, k - 1)].skb
    <3>1. k - 1 \in 0 .. Count - 1
      BY <2>1
    <3>2. QED
      BY <1>1, <2>1, <3>1, AheadFacts
  <2>3. InOrder' = [k \in 1 .. Count |-> buf'[Ahead(Oldest, k - 1)].skb]
    BY <2>1 DEF InOrder
  <2>4. QED
    BY <2>2, <2>3 DEF InOrder
<1>9. QueueNow' = QueueNow
  BY <1>8 DEF QueueNow, Buffers, Stays
<1>10. QED
  BY <1>7, <1>8, <1>9

(* ... and neither the head.                                                 *)
LEMMA StaysStep ==
  ASSUME TypeOK, Skbs, Stays, GoesOn, tdh' = tdh
  PROVE  Skbs' /\ StoreStep
<1>1. Skbs' /\ InOrder' = InOrder /\ QueueNow' = QueueNow /\ Oldest' = Oldest
  BY StaysSkbs DEF Stays
<1>2. SentNow' = SentNow
  BY <1>1 DEF SentNow, Buffers
<1>3. QED
  BY <1>1, <1>2 DEF StoreStep

LEMMA XmitFrameSkbs ==
  ASSUME TypeOK, Good, Skbs, NEW s \in Skb, NEW shape \in Shapes, XmitFrame(s, shape)
  PROVE  Skbs' /\ StoreStep
<1>1. /\ xmit.pc = "idle" /\ ~InRing(s) /\ UNCHANGED <<buf, ntc, clean, tdt, tdh>>
      /\ xmit'.pc \in {"workaround", "stop"} /\ xmit'.skb = s
  <2>1. XmitType
    BY TypeParts
  <2>2. QED
    BY <2>1 DEF XmitFrame, XmitType, ring, regs
<1>2. Stays /\ GoesOn
  BY <1>1 DEF Stays, GoesOn, Oldest, Early
<1>3. QED
  BY <1>1, <1>2, StaysStep

LEMMA BeginSkbs ==
  ASSUME TypeOK, Good, Skbs, MaybeStop \/ Recheck \/ Workaround \/ Stall \/ ScheduleFifoTask
  PROVE  Skbs' /\ StoreStep
<1>1. UNCHANGED <<buf, ntc, clean, tdt, tdh>>
  BY DEF MaybeStop, Recheck, Workaround, Stall, ScheduleFifoTask, ring, regs
<1>2. /\ xmit.pc # "tail" /\ xmit'.pc # "tail"
      /\ xmit'.pc \in Early => xmit.pc \in Early /\ xmit'.skb = xmit.skb
  <2>1. XmitType
    BY TypeParts
  <2>2. NoXmit.pc = "idle"
    BY DEF NoXmit
  <2>3. CASE MaybeStop
    BY <2>1, <2>3 DEF MaybeStop, XmitType, Early
  <2>4. CASE Recheck
    BY <2>1, <2>2, <2>4 DEF Recheck, XmitType, Early
  <2>5. CASE Workaround
    BY <2>1, <2>5 DEF Workaround, XmitType, Early
  <2>6. CASE Stall
    BY <2>1, <2>6 DEF Stall, XmitType, Early
  <2>7. CASE ScheduleFifoTask
    BY <2>1, <2>2, <2>7 DEF ScheduleFifoTask, XmitType, Early
  <2>8. QED
    BY <2>3, <2>4, <2>5, <2>6, <2>7
<1>3. Stays /\ GoesOn
  BY <1>1, <1>2 DEF Stays, GoesOn, Oldest
<1>4. QED
  BY <1>1, <1>3, StaysStep

LEMMA ContextSkbs ==
  ASSUME TypeOK, Good, Skbs, Context
  PROVE  Skbs' /\ StoreStep
<1>1. /\ xmit.pc = "context" /\ UNCHANGED <<ntc, clean, tdt, tdh>>
      /\ xmit'.pc = "map" /\ xmit'.skb = xmit.skb
  <2>1. XmitType
    BY TypeParts
  <2>2. xmit' = [xmit EXCEPT !.first = ntu, !.i = ntu', !.n = 0, !.pc = "map"]
    BY DEF Context
  <2>3. QED
    BY <2>1, <2>2 DEF XmitType, Context, regs
<1>2. \A s \in Slot : buf'[s].skb = buf[s].skb
  <2>1. BufType /\ ntu \in Slot
    BY TypeParts, TypeFacts
  <2>2. buf' = buf \/ buf' = [buf EXCEPT ![ntu].stamp = "fresh", ![ntu].watch = ntu]
    BY DEF Context
  <2>3. QED
    BY <2>1, <2>2 DEF BufType, BufferSet
<1>3. Stays /\ GoesOn
  BY <1>1, <1>2 DEF Stays, GoesOn, Oldest, Early
<1>4. QED
  BY <1>1, <1>3, StaysStep

LEMMA MapSkbs ==
  ASSUME TypeOK, Good, Skbs, Map
  PROVE  Skbs' /\ StoreStep
<1>1. /\ xmit.pc = "map" /\ UNCHANGED <<ntc, clean, tdt, tdh>>
      /\ xmit'.pc \in {"map", "queue"} /\ xmit'.skb = xmit.skb
  <2>1. XmitType
    BY TypeParts
  <2>2. QED
    BY <2>1 DEF XmitType, Map, regs
<1>2. \A s \in Slot : buf'[s].skb = buf[s].skb
  <2>1. BufType /\ xmit.i \in Slot
    BY TypeParts, TypeFacts
  <2>2. PICK i \in Slot : i = xmit.i
    BY <2>1
  <2>3. buf' = [buf EXCEPT ![i] = [@ EXCEPT !.dma = TRUE, !.stamp = "fresh", !.watch = i]]
    BY <2>2, Zenon DEF Map
  <2>4. QED
    BY <2>1, <2>3 DEF BufType, BufferSet
<1>3. Stays /\ GoesOn
  BY <1>1, <1>2 DEF Stays, GoesOn, Oldest, Early
<1>4. QED
  BY <1>1, <1>3, StaysStep

LEMMA MapFailsSkbs ==
  ASSUME TypeOK, Good, Skbs, MapFails
  PROVE  Skbs' /\ StoreStep
<1>1. /\ xmit.pc = "map" /\ UNCHANGED <<ntc, clean, tdt, tdh>>
      /\ xmit'.pc = "idle"
  BY DEF MapFails, regs, NoXmit
<1>2. \A s \in Slot : buf'[s].skb = buf[s].skb
  <2>1. buf \in BufferSet /\ xmit.i \in Slot /\ xmit.first \in Slot
    BY TypeParts, TypeFacts DEF BufType
  <2> DEFINE undone  == {Ahead(xmit.i, Count - k) : k \in 1..(xmit.n - 1)}
             cleared == [buf EXCEPT ![xmit.i].stamp = "fresh", ![xmit.i].dma = FALSE]
             freed   == [j \in Slot |-> IF j \in undone
                                        THEN [cleared[j] EXCEPT !.dma = FALSE, !.stamp = "none"]
                                        ELSE cleared[j]]
  <2>2. buf' = [freed EXCEPT ![xmit.first].stamp = "none"]
    BY DEF MapFails
  <2> HIDE DEF undone
  <2>3. cleared \in BufferSet /\ \A s \in Slot : cleared[s].skb = buf[s].skb
    <3>1. PICK one : one = [buf EXCEPT ![xmit.i].stamp = "fresh"]
      OBVIOUS
    <3>2. one \in BufferSet /\ \A s \in Slot : one[s].skb = buf[s].skb
      BY <2>1, <3>1 DEF BufferSet
    <3>3. cleared = [one EXCEPT ![xmit.i].dma = FALSE]
      BY <3>1
    <3> HIDE DEF cleared
    <3>4. \A s \in Slot : cleared[s].skb = one[s].skb
      BY <2>1, <3>2, <3>3 DEF BufferSet
    <3>5. cleared \in BufferSet
      BY <2>1, <3>2, <3>3 DEF BufferSet
    <3>6. QED
      BY <3>2, <3>4, <3>5
  <2> HIDE DEF cleared
  <2>4. \A s \in Slot : freed[s].skb = buf[s].skb /\ DOMAIN freed[s] = DOMAIN cleared[s]
    BY <2>3 DEF BufferSet
  <2>5. DOMAIN freed = Slot
    OBVIOUS
  <2> HIDE DEF freed
  <2>6. QED
    BY <2>1, <2>2, <2>4, <2>5
<1>3. Stays /\ GoesOn
  BY <1>1, <1>2 DEF Stays, GoesOn, Oldest, Early
<1>4. QED
  BY <1>1, <1>3, StaysStep

(* The steps that the ring does not see, and those of the clean-up that free *)
(* nothing.                                                                  *)
LEMMA AsideSkbs ==
  ASSUME TypeOK, Good, Skbs,
         \/ TimePasses \/ Watchdog \/ CleanTx \/ TestDone \/ StoreNtc \/ WakeQueue \/ DetectHang
         \/ FifoTask \/ FifoWake \/ LinkDown \/ LinkUp \/ NetifTxDisable \/ NapiDisable
         \/ DownAndStop \/ Up \/ UNCHANGED vars
  PROVE  Skbs' /\ StoreStep
<1>1. UNCHANGED <<xmit, tdt, tdh>>
  BY DEF TimePasses, Watchdog, CleanTx, TestDone, StoreNtc, WakeQueue, DetectHang, FifoTask,
         FifoWake, LinkDown, LinkUp, NetifTxDisable, NapiDisable, DownAndStop, Up, vars, ring,
         regs, net, ghost
<1>2. \A s \in Slot : buf'[s].skb = buf[s].skb
  <2>1. CASE TimePasses
    <3>1. BufType
      BY TypeParts
    <3>2. QED
      BY <2>1, <3>1 DEF TimePasses, BufType, BufferSet
  <2>2. CASE ~TimePasses
    <3>1. buf' = buf
      BY <2>2 DEF Watchdog, CleanTx, TestDone, StoreNtc, WakeQueue, DetectHang, FifoTask,
             FifoWake, LinkDown, LinkUp, NetifTxDisable, NapiDisable, DownAndStop, Up, vars, ring
    <3>2. QED
      BY <3>1
  <2>3. QED
    BY <2>1, <2>2
<1>3. Oldest' = Oldest
  <2>0. CleanType
    BY TypeParts
  <2>1. CASE CleanTx
    BY <2>1 DEF CleanTx, ring, Oldest
  <2>2. CASE TestDone
    BY <2>0, <2>2 DEF TestDone, ring, Oldest, CleanType
  <2>3. CASE StoreNtc
    BY <2>0, <2>3 DEF StoreNtc, Oldest, CleanType
  <2>4. CASE WakeQueue
    BY <2>0, <2>4 DEF WakeQueue, ring, Oldest, CleanType
  <2>5. CASE DetectHang
    BY <2>0, <2>5 DEF DetectHang, ring, Oldest, CleanType
  <2>6. CASE ~CleanTx /\ ~TestDone /\ ~StoreNtc /\ ~WakeQueue /\ ~DetectHang
    <3>1. UNCHANGED <<ntc, clean>>
      BY <2>6 DEF TimePasses, Watchdog, FifoTask, FifoWake, LinkDown, LinkUp, NetifTxDisable,
             NapiDisable, DownAndStop, Up, vars, ring
    <3>2. QED
      BY <3>1 DEF Oldest
  <2>7. QED
    BY <2>1, <2>2, <2>3, <2>4, <2>5, <2>6
<1>4. Stays /\ GoesOn
  BY <1>1, <1>2, <1>3 DEF Stays, GoesOn
<1>5. QED
  BY <1>1, <1>4, StaysStep

-----------------------------------------------------------------------------
(* The controller sends: one buffer more is before the head, or none.        *)
LEMMA TransmitSkbs ==
  ASSUME TypeOK, TypeOK', Good, Skbs, Transmit
  PROVE  Skbs' /\ StoreStep
<1>1. /\ tdh # tdt /\ tdh' = Succ(tdh) /\ UNCHANGED <<buf, ntc, clean, xmit, tdt>>
  BY DEF Transmit
<1>2. Stays /\ GoesOn
  BY <1>1 DEF Stays, GoesOn, Oldest
<1>3. Skbs' /\ InOrder' = InOrder /\ QueueNow' = QueueNow /\ Oldest' = Oldest
  BY <1>2, StaysSkbs DEF Stays
<1>4. PICK o \in Slot, h \in Slot, t \in Slot : o = Oldest /\ h = tdh /\ t = tdt /\ h # t
  BY <1>1, TypeFacts
<1>5. /\ Dist(o, h) \in 0 .. Count - 1 /\ Dist(o, t) \in 0 .. Count - 1
      /\ Dist(o, h) < Dist(o, t) /\ Count \in Nat
  <2>1. Dist(o, h) <= Dist(o, t)
    BY <1>4 DEF Good, Order
  <2>2. Dist(o, h) # Dist(o, t)
    BY <1>4, DistFacts
  <2>3. Dist(o, h) \in 0 .. Count - 1 /\ Dist(o, t) \in 0 .. Count - 1
    BY DistFacts
  <2>4. QED
    BY <2>1, <2>2, <2>3, CountFact
<1>6. PICK j, k : j = Dist(o, h) /\ k = Dist(o, t)
  OBVIOUS
<1>7. /\ j \in 0 .. Count /\ k \in 0 .. Count /\ j + 1 \in 0 .. Count /\ j + 1 \in 1 .. Count
      /\ j + 1 <= k /\ (j + 1) - 1 = j
  BY <1>5, <1>6
<1>8. Dist(o, Succ(h)) = j + 1
  <2>1. Dist(o, h) < Count - 1
    BY <1>5
  <2>2. QED
    BY <1>6, <2>1, DistSucc
<1>9. PICK v \in Row : v = InOrder
  BY InOrderRow
<1>10. PICK q \in Seq(Skb), s \in Skb \cup {None} : q = Picked(v)[j] /\ s = v[j + 1]
  <2>1. Picked(v)[j] \in Seq(Skb) /\ v[j + 1] \in Skb \cup {None}
    BY <1>7, PickedType DEF Row
  <2>2. QED
    BY <2>1
<1>11. Picked(v)[j + 1] = Add(q, s)
  BY <1>7, <1>10, PickedStep
<1>12. /\ SentNow = Len(q) /\ SentNow' = Len(Add(q, s)) /\ QueueNow = Picked(v)[k]
  BY <1>1, <1>3, <1>4, <1>6, <1>8, <1>9, <1>10, <1>11 DEF SentNow, QueueNow, Buffers
<1>13. Len(Add(q, s)) <= Len(Picked(v)[k]) /\ Len(Picked(v)[k]) \in Nat
  <2>1. Len(Picked(v)[j + 1]) <= Len(Picked(v)[k])
    BY <1>7, PickedMore
  <2>2. Picked(v)[k] \in Seq(Skb)
    BY <1>7, PickedType
  <2>3. QED
    BY <1>11, <2>1, <2>2
<1>14. /\ Len(q) \in Nat
       /\ s = None => Len(Add(q, s)) = Len(q)
       /\ s # None => Len(Add(q, s)) = Len(q) + 1
  BY AddType
<1>15. SentNow' = SentNow \/ (SentNow < Len(QueueNow) /\ SentNow' = SentNow + 1)
  BY <1>12, <1>13, <1>14
<1>16. QED
  BY <1>3, <1>15 DEF StoreStep

(* The buffer is written behind the tail.                                    *)
LEMMA QueueSkbs ==
  ASSUME TypeOK, TypeOK', Good, Skbs, Queue
  PROVE  Skbs' /\ StoreStep
<1>1. xmit.pc = "queue" /\ InHand /\ UNCHANGED <<ntc, clean, tdt, tdh>>
  BY DEF Queue, InHand, Working, regs
<1>2. PICK o \in Slot, t \in Slot, h \in Slot, i \in Slot, f \in Slot :
        o = Oldest /\ t = tdt /\ h = tdh /\ i = xmit.i /\ f = xmit.first
  BY TypeFacts
<1>3. PICK b \in Skb : b = xmit.skb /\ \A s \in Slot : buf[s].skb # b
  <2>1. xmit.skb \in Skb /\ ~InRing(xmit.skb)
    BY <1>1 DEF Skbs, Early
  <2>2. QED
    BY <2>1 DEF InRing
<1>4. xmit'.pc = "tail" /\ xmit'.skb = b /\ xmit'.i = i
  <2>1. XmitType
    BY TypeParts
  <2>2. QED
    BY <1>2, <1>3, <2>1 DEF Queue, XmitType
<1>5. buf'[i].skb = b /\ \A s \in Slot : s # i => buf'[s].skb = buf[s].skb
  <2>1. buf \in BufferSet
    BY TypeParts DEF BufType
  <2>2. buf' = [buf EXCEPT ![i].skb = b, ![f].watch = i]
    BY <1>2, <1>3 DEF Queue
  <2>3. PICK one : one = [buf EXCEPT ![i].skb = b]
    OBVIOUS
  <2>4. /\ one \in BufferSet /\ one[i].skb = b
        /\ \A s \in Slot : s # i => one[s].skb = buf[s].skb
    BY <2>1, <2>3 DEF BufferSet
  <2>5. buf' = [one EXCEPT ![f].watch = i]
    BY <2>2, <2>3
  <2>6. \A s \in Slot : buf'[s].skb = one[s].skb
    BY <2>4, <2>5 DEF BufferSet
  <2>7. QED
    BY <2>4, <2>6
<1>6. Oldest' = o /\ tdt' = t /\ tdh' = h
  BY <1>1, <1>2 DEF Oldest
<1>7. \A s \in Slot : Held(s)' = Held(s)
  BY <1>2, <1>6 DEF Held
<1>8. Skbs'
  <2>1. \A s \in Slot : s # xmit'.i => buf'[s].skb # xmit'.skb
    BY <1>3, <1>4, <1>5
  <2>2. \A s \in Slot : buf'[s].skb # None => Held(s)' \/ s = i
    BY <1>1, <1>5, <1>7 DEF Skbs
  <2>3. buf'[xmit'.i].skb = xmit'.skb /\ xmit'.skb \in Skb
    BY <1>4, <1>5
  <2>4. QED
    BY <1>4, <2>1, <2>2, <2>3 DEF Skbs, Early
<1>9. /\ Dist(o, t) \in 0 .. Count - 1 /\ Dist(o, h) \in 0 .. Count - 1 /\ Dist(o, h) <= Dist(o, t)
      /\ Dist(o, i) \in 0 .. Count - 1 /\ ~(Dist(o, i) < Dist(o, t)) /\ Count \in Nat
  <2>1. ~Held(i)
    <3>1. Dist(tdt, i) = xmit.shape.context + xmit.shape.data - 1
      BY <1>1, <1>2 DEF Good, InRoom
    <3>2. xmit.shape.context \in Nat /\ xmit.shape.data \in Nat
      BY TypeFacts
    <3>3. Dist(tdt, i) <= xmit.shape.context + xmit.shape.data + 1
      BY <3>1, <3>2
    <3>4. QED
      BY <1>1, <3>3, Behind DEF Good
  <2>2. Dist(o, h) <= Dist(o, t)
    BY <1>2 DEF Good, Order
  <2>3. QED
    BY <1>2, <2>1, <2>2, DistFacts, CountFact DEF Held, Before
<1>10. PICK j, k : j = Dist(o, h) /\ k = Dist(o, t)
  OBVIOUS
<1>11. /\ InOrder \in Row /\ InOrder' \in Row
       /\ \A n \in 1 .. k : InOrder[n] = InOrder'[n]
  <2>1. InOrder \in Row /\ InOrder' \in Row
    <3>1. InOrder' \in Row
      BY InOrderRowNext
    <3>2. QED
      BY <3>1, InOrderRow
  <2>2. ASSUME NEW n \in 1 .. k
        PROVE  InOrder[n] = InOrder'[n]
    <3>1. n \in 1 .. Count /\ n - 1 \in 0 .. Count - 1 /\ n - 1 < Dist(o, t)
      BY <1>9, <1>10
    <3>2. PICK s \in Slot : s = Ahead(o, n - 1) /\ Dist(o, s) = n - 1
      BY <3>1, AheadFacts
    <3>3. s # i
      BY <1>9, <3>1, <3>2
    <3>4. InOrder[n] = buf[s].skb /\ InOrder'[n] = buf'[s].skb
      BY <1>2, <1>6, <3>1, <3>2 DEF InOrder
    <3>5. QED
      BY <1>5, <3>3, <3>4
  <2>3. QED
    BY <2>1, <2>2
<1>12. Picked(InOrder)[k] = Picked(InOrder')[k] /\ Picked(InOrder)[j] = Picked(InOrder')[j]
  <2>1. j \in 0 .. Count /\ k \in 0 .. Count /\ 1 .. j \subseteq 1 .. k
    BY <1>9, <1>10
  <2>2. PICK v \in Row, w \in Row : v = InOrder /\ w = InOrder'
    BY <1>11
  <2>3. \A n \in 1 .. k : v[n] = w[n]
    BY <1>11, <2>2
  <2>4. Picked(v)[k] = Picked(w)[k] /\ Picked(v)[j] = Picked(w)[j]
    BY <2>1, <2>3, PickedSame
  <2>5. QED
    BY <2>2, <2>4
<1>13. QueueNow = Picked(InOrder)[k] /\ QueueNow' = Picked(InOrder')[k]
  BY <1>2, <1>6, <1>10 DEF QueueNow, Buffers
<1>14. SentNow = Len(Picked(InOrder)[j]) /\ SentNow' = Len(Picked(InOrder')[j])
  BY <1>2, <1>6, <1>10 DEF SentNow, Buffers
<1>15. QED
  BY <1>8, <1>12, <1>13, <1>14 DEF StoreStep

-----------------------------------------------------------------------------
(* The tail passes the frame: its buffer is taken.                           *)
LEMMA WriteTailSkbs ==
  ASSUME TypeOK, TypeOK', Good, Skbs, WriteTail
  PROVE  Skbs' /\ StoreStep
<1>1. xmit.pc = "tail" /\ InHand /\ UNCHANGED <<buf, ntc, clean, tdh>>
  BY DEF WriteTail, InHand, Working
<1>2. PICK o \in Slot, t \in Slot, h \in Slot, i \in Slot, w \in Slot :
        o = Oldest /\ t = tdt /\ h = tdh /\ i = xmit.i /\ w = Succ(i)
  BY TypeFacts, SuccFacts
<1>3. tdt' = w /\ Oldest' = o /\ tdh' = h
  BY <1>1, <1>2 DEF WriteTail, Oldest
<1>4. xmit'.pc \in {"idle", "stop_after"}
  BY DEF WriteTail, NoXmit
<1>5. PICK b \in Skb : b = xmit.skb /\ buf[i].skb = b /\ \A s \in Slot : s # i => buf[s].skb # b
  BY <1>1, <1>2 DEF Skbs
<1>6. /\ ~Held(i) /\ Dist(o, t) \in Nat /\ Dist(o, i) \in Nat
      /\ Dist(o, t) <= Dist(o, i) /\ Dist(o, i) < Count - 1
  <2>1. PICK c \in 0 .. 1, d \in Nat : c = xmit.shape.context /\ d = xmit.shape.data /\ d > 0
    BY TypeFacts
  <2>2. xmit.n = d /\ Dist(t, i) = c + xmit.n - 1
    BY <1>1, <1>2, <2>1 DEF Good, InRoom
  <2>3. Dist(t, i) = c + d - 1
    BY <2>2
  <2>4. /\ Dist(o, t) \in Nat /\ Dist(o, t) + c + d + 3 < Count
        /\ Dist(t, i) <= c + d + 1 => ~Held(i) /\ Dist(o, i) = Dist(o, t) + Dist(t, i)
    BY <1>1, <1>2, <2>1, Behind DEF Good
  <2>5. Dist(t, i) <= c + d + 1
    BY <2>1, <2>3
  <2>6. ~Held(i) /\ Dist(o, i) = Dist(o, t) + (c + d - 1)
    BY <2>3, <2>4, <2>5
  <2>7. Count \in Nat
    BY CountFact
  <2>8. QED
    BY <2>1, <2>4, <2>6, <2>7
<1>7. Dist(o, w) = Dist(o, i) + 1
  BY <1>2, <1>6, DistSucc
<1>8. \A s \in Slot : Held(s) \/ s = i => Held(s)'
  <2>1. ASSUME NEW s \in Slot, Held(s) \/ s = i
        PROVE  Dist(o, s) < Dist(o, w)
    <3>1. Dist(o, s) \in Nat
      BY DistNat
    <3>2. Held(s) => Dist(o, s) < Dist(o, t)
      BY <1>2 DEF Held, Before
    <3>3. QED
      BY <1>6, <1>7, <2>1, <3>1, <3>2
  <2>2. QED
    BY <1>3, <2>1 DEF Held, Before
<1>9. Skbs'
  <2>1. \A s \in Slot : buf'[s].skb # None => Held(s)'
    BY <1>1, <1>2, <1>8 DEF Skbs
  <2>2. QED
    BY <1>4, <2>1 DEF Skbs, Early
<1>10. PICK j, k, m : j = Dist(o, h) /\ k = Dist(o, t) /\ m = Dist(o, i)
  OBVIOUS
<1>11. /\ j \in 0 .. Count /\ k \in 0 .. Count /\ m \in 0 .. Count
       /\ m + 1 \in 1 .. Count /\ m + 1 \in 0 .. Count /\ (m + 1) - 1 = m /\ k <= m
  <2>1. Dist(o, h) \in 0 .. Count - 1 /\ Dist(o, t) \in 0 .. Count - 1 /\ Count \in Nat
    BY DistFacts, CountFact
  <2>2. QED
    BY <1>6, <1>10, <2>1
<1>12. InOrder' = InOrder
  BY <1>1, <1>2, <1>3 DEF InOrder
<1>13. PICK v \in Row : v = InOrder
  BY InOrderRow
<1>14. v[m + 1] = b
  BY <1>2, <1>5, <1>10, <1>13, InOrderAt
<1>15. ASSUME NEW n \in 1 .. m
       PROVE  v[n] # b /\ (n > k => v[n] = None)
  <2>1. n \in 1 .. Count /\ n - 1 \in 0 .. Count - 1 /\ n - 1 # m
    BY <1>11, CountFact
  <2>2. PICK s \in Slot : s = Ahead(o, n - 1) /\ Dist(o, s) = n - 1
    BY <2>1, AheadFacts
  <2>3. v[n] = buf[s].skb
    BY <1>2, <1>13, <2>1, <2>2 DEF InOrder
  <2>4. s # i
    BY <1>10, <2>1, <2>2
  <2>5. n > k => ~Held(s)
    <3>1. n > k => ~(n - 1 < k)
      BY <1>11
    <3>2. QED
      BY <1>2, <1>10, <2>2, <3>1 DEF Held, Before
  <2>6. QED
    BY <1>2, <1>5, <2>3, <2>4, <2>5 DEF Skbs
<1>16. Picked(v)[m] = Picked(v)[k]
  <2>1. \A n \in k + 1 .. m : v[n] = None
    <3>1. \A n \in k + 1 .. m : n \in 1 .. m /\ n > k
      BY <1>11
    <3>2. QED
      BY <1>15, <3>1
  <2>2. QED
    BY <1>11, <2>1, PickedNone
<1>17. Picked(v)[m + 1] = Append(Picked(v)[k], b)
  <2>1. b # None
    BY RingAssumption
  <2>2. Picked(v)[m + 1] = Add(Picked(v)[m], v[m + 1])
    BY <1>11, PickedStep
  <2>3. QED
    BY <1>14, <1>16, <2>1, <2>2 DEF Add
<1>18. \A n \in 1 .. Len(Picked(v)[k]) : Picked(v)[k][n] # b
  <2>1. \A n \in 1 .. m : v[n] # b
    BY <1>15
  <2>2. \A n \in 1 .. Len(Picked(v)[m]) : Picked(v)[m][n] # b
    BY <1>11, <2>1, PickedFrom
  <2>3. QED
    BY <1>16, <2>2
<1>19. QueueNow = Picked(v)[k] /\ QueueNow' = Picked(v)[m + 1]
  <2>1. QueueNow = Picked(v)[k]
    BY <1>2, <1>10, <1>13 DEF QueueNow, Buffers
  <2>2. QueueNow' = Picked(v)[Dist(o, w)]
    BY <1>3, <1>12, <1>13 DEF QueueNow, Buffers
  <2>3. QED
    BY <1>7, <1>10, <2>1, <2>2
<1>20. SentNow' = SentNow
  BY <1>2, <1>3, <1>12 DEF SentNow, Buffers
<1>21. QED
  BY <1>9, <1>17, <1>18, <1>19, <1>20 DEF StoreStep

(* The clean-up frees the oldest slot: its buffer was sent, and is given     *)
(* back.                                                                     *)
LEMMA FreeSlotSkbs ==
  ASSUME TypeOK, TypeOK', Good, Skbs, FreeSlot
  PROVE  Skbs' /\ StoreStep
<1>1. clean.pc = "free" /\ UNCHANGED <<tdh, tdt, xmit>>
  BY DEF FreeSlot, regs
<1>2. PICK o \in Slot, n \in Slot, h \in Slot, t \in Slot, e \in Slot :
        o = clean.i /\ n = Succ(o) /\ h = tdh /\ t = tdt /\ e = clean.eop
  BY TypeFacts, SuccFacts
<1>3. Oldest = o /\ Oldest' = n
  <2>1. clean'.i = n /\ clean'.pc \in {"test", "free"}
    BY <1>2, TypeParts DEF FreeSlot, CleanType
  <2>2. QED
    BY <1>1, <1>2, <2>1 DEF Oldest
<1>4. buf'[o].skb = None /\ \A s \in Slot : s # o => buf'[s] = buf[s]
  <2>1. buf \in BufferSet
    BY TypeParts DEF BufType
  <2>2. buf' = [buf EXCEPT ![o] = [@ EXCEPT !.dma = FALSE, !.skb = None, !.stamp = "none"]]
    BY <1>2, Zenon DEF FreeSlot
  <2>3. QED
    BY <2>1, <2>2 DEF BufferSet
<1>5. /\ Dist(o, h) \in 1 .. Count - 1 /\ Dist(o, t) \in 1 .. Count - 1 /\ Count \in Nat
      /\ o # h /\ o # t
  <2>1. Dist(o, e) < Dist(o, h) /\ Dist(o, h) <= Dist(o, t)
    BY <1>1, <1>2, <1>3 DEF Good, Order, Sent, Before
  <2>2. /\ Dist(o, e) \in Nat /\ Dist(o, h) \in 0 .. Count - 1 /\ Dist(o, t) \in 0 .. Count - 1
        /\ Dist(o, o) = 0 /\ Count \in Nat
    BY DistNat, DistFacts, CountFact
  <2>3. QED
    BY <2>1, <2>2
<1>6. Dist(n, h) = Dist(o, h) - 1 /\ Dist(n, t) = Dist(o, t) - 1
  BY <1>2, <1>5, DistSucc
<1>7. \A s \in Slot : Held(s) /\ s # o => Held(s)'
  <2>1. ASSUME NEW s \in Slot, Held(s), s # o
        PROVE  Dist(n, s) < Dist(n, t)
    <3>1. Dist(o, s) < Dist(o, t)
      BY <1>2, <1>3, <2>1 DEF Held, Before
    <3>2. Dist(n, s) = Dist(o, s) - 1 /\ Dist(o, s) \in Nat
      BY <1>2, <2>1, DistSucc, DistNat
    <3>3. QED
      BY <1>5, <1>6, <3>1, <3>2
  <2>2. QED
    BY <1>1, <1>2, <1>3, <2>1 DEF Held, Before
<1>8. Skbs'
  <2>1. Held(o)
    <3>1. Dist(o, o) = 0
      BY DistFacts
    <3>2. QED
      BY <1>2, <1>3, <1>5, <3>1 DEF Held, Before
  <2>2. xmit.pc = "tail" => o # xmit.i
    <3>1. ASSUME xmit.pc = "tail"
          PROVE  ~Held(xmit.i)
      <4>1. InHand
        BY <3>1 DEF InHand, Working
      <4>2. xmit.i \in Slot /\ xmit.shape.context \in 0 .. 1 /\ xmit.shape.data \in Nat
        BY TypeFacts
      <4>3. xmit.n = xmit.shape.data /\ Dist(tdt, xmit.i) = xmit.shape.context + xmit.n - 1
        BY <3>1 DEF Good, InRoom
      <4>4. Dist(tdt, xmit.i) <= xmit.shape.context + xmit.shape.data + 1
        BY <4>2, <4>3
      <4>5. QED
        BY <4>1, <4>2, <4>4, Behind DEF Good
    <3>2. QED
      BY <2>1, <3>1
  <2>3. xmit.i \in Slot
    BY TypeFacts
  <2>4. ASSUME xmit.pc \in Early
        PROVE  xmit.skb \in Skb /\ \A s \in Slot : buf'[s].skb # xmit.skb
    <3>1. xmit.skb \in Skb /\ \A s \in Slot : buf[s].skb # xmit.skb
      BY <2>4 DEF Skbs, InRing
    <3>2. xmit.skb # None
      BY <3>1, RingAssumption
    <3>3. QED
      BY <1>4, <3>1, <3>2
  <2>5. ASSUME xmit.pc = "tail"
        PROVE  /\ xmit.skb \in Skb /\ buf'[xmit.i].skb = xmit.skb
               /\ \A s \in Slot : s # xmit.i => buf'[s].skb # xmit.skb
    <3>1. /\ xmit.skb \in Skb /\ buf[xmit.i].skb = xmit.skb
          /\ \A s \in Slot : s # xmit.i => buf[s].skb # xmit.skb
      BY <2>5 DEF Skbs
    <3>2. xmit.skb # None
      BY <3>1, RingAssumption
    <3>3. QED
      BY <1>4, <2>2, <2>3, <2>5, <3>1, <3>2
  <2>6. \A s \in Slot : buf'[s].skb # None => Held(s)' \/ (xmit.pc = "tail" /\ s = xmit.i)
    BY <1>4, <1>7 DEF Skbs
  <2>7. QED
    BY <1>1, <2>4, <2>5, <2>6 DEF Skbs, InRing
<1>9. PICK j, k : j = Dist(o, h) /\ k = Dist(o, t)
  OBVIOUS
<1>10. PICK v \in Row, w \in Row : v = InOrder /\ w = InOrder'
  BY InOrderRow, InOrderRowNext
<1>11. \A m \in 1 .. Count - 1 : w[m] = v[m + 1]
  <2> SUFFICES ASSUME NEW m \in 1 .. Count - 1
               PROVE  w[m] = v[m + 1]
    OBVIOUS
  <2>1. /\ m \in 1 .. Count /\ m + 1 \in 1 .. Count /\ (m + 1) - 1 = m
        /\ m \in 0 .. Count - 1 /\ m > 0
    BY <1>5
  <2>2. PICK s \in Slot : s = Ahead(o, m) /\ Dist(o, s) = m /\ Ahead(n, m - 1) = s
    BY <1>2, <2>1, AheadFacts
  <2>3. s # o
    <3>1. Dist(o, o) = 0
      BY DistFacts
    <3>2. QED
      BY <2>1, <2>2, <3>1
  <2>4. v[m + 1] = buf[s].skb
    BY <1>3, <1>10, <2>1, <2>2 DEF InOrder
  <2>5. w[m] = buf'[s].skb
    BY <1>3, <1>10, <2>1, <2>2 DEF InOrder
  <2>6. QED
    BY <1>4, <2>3, <2>4, <2>5
<1>12. /\ j \in 1 .. Count /\ k \in 1 .. Count /\ j \in 0 .. Count /\ k \in 0 .. Count
       /\ j - 1 \in 0 .. Count /\ k - 1 \in 0 .. Count
       /\ 1 .. j - 1 \subseteq 1 .. Count - 1 /\ 1 .. k - 1 \subseteq 1 .. Count - 1
  BY <1>5, <1>9
<1>13. /\ QueueNow = Picked(v)[k] /\ QueueNow' = Picked(w)[k - 1]
       /\ SentNow = Len(Picked(v)[j]) /\ SentNow' = Len(Picked(w)[j - 1])
  <2>1. QueueNow = Picked(v)[k] /\ SentNow = Len(Picked(v)[j])
    BY <1>2, <1>3, <1>9, <1>10 DEF QueueNow, SentNow, Buffers
  <2>2. QueueNow' = Picked(w)[Dist(n, t)] /\ SentNow' = Len(Picked(w)[Dist(n, h)])
    BY <1>1, <1>2, <1>3, <1>10 DEF QueueNow, SentNow, Buffers
  <2>3. QED
    BY <1>6, <1>9, <2>1, <2>2
<1>14. CASE v[1] = None
  <2>1. Picked(w)[k - 1] = Picked(v)[k] /\ Picked(w)[j - 1] = Picked(v)[j]
    BY <1>11, <1>12, <1>14, PickedTail
  <2>2. QED
    BY <1>8, <1>13, <2>1 DEF StoreStep
<1>15. CASE v[1] # None
  <2>1. /\ Picked(w)[k - 1] = Tail(Picked(v)[k])
        /\ Len(Picked(v)[j]) > 0 /\ Picked(w)[j - 1] = Tail(Picked(v)[j])
    BY <1>11, <1>12, <1>15, PickedTail
  <2>2. PICK q \in Seq(Skb) : q = Picked(v)[j]
    BY <1>12, PickedType
  <2>3. Len(Tail(q)) = Len(q) - 1
    <3>1. q # <<>>
      BY <2>1, <2>2
    <3>2. QED
      BY <3>1
  <2>4. QED
    BY <1>8, <1>13, <2>1, <2>2, <2>3 DEF StoreStep
<1>16. QED
  BY <1>14, <1>15

(* e1000_clean_tx_ring: all of them are given back.                          *)
LEMMA CleanTxRingSkbs ==
  ASSUME TypeOK, TypeOK', Good, Skbs, CleanTxRing
  PROVE  Skbs' /\ StoreStep
<1>1. reset = "down" /\ ntc' = 0 /\ tdh' = 0 /\ tdt' = 0 /\ UNCHANGED <<xmit, clean>>
  BY DEF CleanTxRing
<1>2. xmit'.pc = "idle" /\ clean'.pc = "idle"
  BY <1>1 DEF Good, Waking
<1>3. \A s \in Slot : buf'[s].skb = None
  BY DEF CleanTxRing, NoBuf
<1>4. Skbs'
  BY <1>2, <1>3 DEF Skbs, Early
<1>5. Oldest' = 0 /\ Dist(0, 0) = 0
  BY <1>1, <1>2, CountFact DEF Oldest, Dist
<1>6. InOrder' \in Row
  BY InOrderRowNext
<1>7. Picked(InOrder')[0] = <<>>
  BY <1>6, PickedStep
<1>8. QueueNow' = <<>> /\ SentNow' = 0
  <2>1. QueueNow' = Picked(InOrder')[0]
    BY <1>1, <1>5 DEF QueueNow, Buffers
  <2>2. SentNow' = Len(Picked(InOrder')[0])
    BY <1>1, <1>5 DEF SentNow, Buffers
  <2>3. QED
    BY <1>7, <2>1, <2>2
<1>9. QED
  BY <1>4, <1>8 DEF StoreStep

LEMMA SkbsNext ==
  ASSUME TypeOK, TypeOK', Good, Skbs, [Next]_vars
  PROVE  Skbs' /\ StoreStep
<1>1. CASE \E s \in Skb, shape \in Shapes : XmitFrame(s, shape)
  BY <1>1, XmitFrameSkbs
<1>2. CASE Xmit \/ MapFails
  BY <1>2, BeginSkbs, ContextSkbs, MapSkbs, QueueSkbs, WriteTailSkbs, MapFailsSkbs DEF Xmit
<1>3. CASE Transmit \/ FreeSlot \/ CleanTxRing
  BY <1>3, TransmitSkbs, FreeSlotSkbs, CleanTxRingSkbs
<1>4. CASE \/ TimePasses \/ Watchdog \/ CleanTx \/ TestDone \/ StoreNtc \/ WakeQueue
           \/ DetectHang \/ FifoTask \/ FifoWake \/ LinkDown \/ LinkUp \/ NetifTxDisable
           \/ NapiDisable \/ DownAndStop \/ Up \/ UNCHANGED vars
  BY <1>4, AsideSkbs
<1>5. QED
  BY <1>1, <1>2, <1>3, <1>4 DEF Next, CleanStep

LEMMA SkbsInit == Init => TypeOK /\ Good /\ Skbs /\ Fifo!FifoInit
<1> SUFFICES ASSUME Init
             PROVE  TypeOK /\ Good /\ Skbs /\ Fifo!FifoInit
  OBVIOUS
<1>1. TypeOK /\ Good
  BY TypeInit, GoodInit
<1>2. /\ xmit.pc = "idle" /\ Oldest = 0 /\ tdt = 0 /\ tdh = 0
      /\ \A s \in Slot : buf[s].skb = None
  BY DEF Init, NoXmit, NoBuf, Oldest
<1>3. Skbs
  BY <1>2 DEF Skbs, Early
<1>4. Picked(InOrder)[0] = <<>> /\ Dist(0, 0) = 0
  BY <1>1, InOrderRow, PickedStep, CountFact DEF Dist
<1>5. Buffers(Dist(Oldest, tdt)) = <<>> /\ Len(Buffers(Dist(Oldest, tdh))) = 0
  BY <1>2, <1>4 DEF Buffers
<1>6. QED
  BY <1>1, <1>3, <1>5 DEF Fifo!FifoInit

(* Until xmit works on an emptied ring, every step of the ring is one of the *)
(* promise to the stack, or none: buffers go to the controller in the order  *)
(* in which e1000_xmit_frame took them, and e1000_clean_tx_irq gives each    *)
(* back once, after it was sent, in this order too.                          *)
THEOREM FifoImplemented == Spec => ImplementsFifo
<1> DEFINE IInv == TypeOK /\ (~rewoken => Good /\ Skbs)
           Step == ~rewoken' => Fifo!FifoNext \/ UNCHANGED Fifo!fifoVars
<1>1. Init => IInv /\ Fifo!FifoInit
  BY SkbsInit
<1>2. IInv /\ [Next]_vars => IInv' /\ Step
  <2> SUFFICES ASSUME IInv, [Next]_vars
               PROVE  IInv' /\ Step
    OBVIOUS
  <2>1. TypeOK /\ TypeOK' /\ (~rewoken' => ~rewoken)
    BY TypeNext, RewokenStays
  <2>2. ASSUME ~rewoken'
        PROVE  Good' /\ Skbs' /\ StoreStep
    BY <2>1, <2>2, GoodNext, SkbsNext
  <2>3. ~rewoken' => Fifo!FifoNext \/ UNCHANGED Fifo!fifoVars
    BY <2>2, StoreSteps
  <2>4. QED
    BY <2>1, <2>2, <2>3
<1>3. Spec => []IInv
  <2>1. Init => IInv
    BY <1>1
  <2>2. IInv /\ [Next]_vars => IInv'
    BY <1>2
  <2> HIDE DEF IInv
  <2>3. QED
    BY <2>1, <2>2, PTL DEF Spec
<1>4. Init => Fifo!FifoInit
  BY <1>1
<1>5. IInv /\ [Next]_vars => [Step]_vars
  BY <1>2
<1> HIDE DEF IInv
<1>6. QED
  BY <1>3, <1>4, <1>5, PTL DEF Spec, ImplementsFifo

=============================================================================
