--------------------------- MODULE E1000RxProof ----------------------------
(***************************************************************************)
(* How interrupt, poll and e1000_down take turns at the receive ring, and   *)
(* that no buffer is lost, for every size of the ring and of a refill:      *)
(* theorems about E1000RxRing.                                              *)
(***************************************************************************)
EXTENDS E1000RxRing, FiniteSetTheorems, TLAPS

(* The steps from napi_disable on, in which e1000_down has NAPI's bit; and   *)
(* those in which the interrupts are masked.                                 *)
Holding == {"irq_disable", "synchronize", "stop", "reset", "configure", "fill", "napi_enable"}
Masked  == (Holding \ {"irq_disable"}) \cup {"irq_enable"}
NoHandler == Masked \ {"synchronize"}

HandOverType ==
  /\ ims \in BOOLEAN /\ down \in BOOLEAN /\ late \in BOOLEAN
  /\ sched \in {"none", "poll", "disable"}
  /\ intr \in {"idle", "mask", "schedule", "unmask"}
  /\ poll \in {"idle", "due", "running"} /\ ending \in {"none", "test", "unmask"}
  /\ updown \in Holding \cup {"up", "napi_disable", "irq_enable", "fire"}

(* NAPI's bit belongs to the poll or to e1000_down; a clean-up runs in a     *)
(* poll only.                                                                *)
OneOwner ==
  /\ poll = "idle" <=> sched # "poll"
  /\ sched = "disable" <=> updown \in Holding
  /\ clean.pc # "idle" => poll = "running"
  /\ "emptied_under_poll" \notin wrong

(* Whoever has masked the interrupts is the only one at work and will unmask *)
(* them, as long as nobody has unmasked them late.                           *)
OneAtWork ==
  ~late =>
    /\ intr # "idle" => poll = "idle" /\ ending = "none"
    /\ poll # "idle" => ending = "none"
    /\ intr \in {"schedule", "unmask"} \/ poll # "idle" \/ ending # "none" => ~ims
    /\ updown \in Masked => ~ims
    /\ updown \in NoHandler => intr = "idle"
    /\ updown = "irq_enable" => ending = "none" /\ poll = "idle"
    /\ updown \in {"up", "napi_disable", "irq_disable", "napi_enable", "irq_enable", "fire"} => ~down
    /\ updown \in {"up", "napi_disable", "irq_disable", "fire"}
       /\ intr = "idle" /\ poll = "idle" /\ ending = "none" => ims

HandOver == HandOverType /\ OneOwner /\ OneAtWork

-----------------------------------------------------------------------------
(* At the start nobody is at work and the interrupts are unmasked.           *)
LEMMA HandOverInit == Init => HandOver
<1> SUFFICES ASSUME Init
             PROVE  HandOver
  OBVIOUS
<1>1. /\ ims /\ ~down /\ ~late /\ sched = "none" /\ intr = "idle" /\ poll = "idle"
      /\ ending = "none" /\ updown = "up"
  BY DEF Init, NapiInit
<1>2. HandOverType
  BY DEF Init, NapiInit, HandOverType
<1>3. clean.pc = "idle" /\ wrong = {}
  BY DEF Init, NoClean
<1>4. QED
  BY <1>1, <1>2, <1>3 DEF HandOver, OneOwner, OneAtWork, Holding, Masked, NoHandler

(* A step at the ring, which leaves interrupts and NAPI alone: the clean-up  *)
(* goes on within its poll.                                                  *)
LEMMA RingSteps ==
  ASSUME HandOver, UNCHANGED <<ims, sched, intr, poll, ending, down, updown, late>>,
         clean.pc = "idle" => clean'.pc = "idle",
         "emptied_under_poll" \in wrong' => "emptied_under_poll" \in wrong
  PROVE  HandOver'
  BY DEF HandOver, HandOverType, OneOwner, OneAtWork

(* What a turn of the clean-up adds to wrong is something else.              *)
LEMMA CleanWrong ==
  ASSUME Clean, "emptied_under_poll" \in wrong'
  PROVE  "emptied_under_poll" \in wrong
<1>1. CASE Jumbo
  <2> DEFINE i == clean.i
             p == desc[clean.i]
  <2>1. CleanJumbo(i, p)
    BY <1>1 DEF Clean
  <2>2. CASE DropChain(i, p)
    BY <2>2 DEF DropChain
  <2>3. CASE Chain(i, p)
    BY <2>3 DEF Chain
  <2>4. CASE PassUpChain(i, p)
    <3>1. \A x \in wrong' : x \in wrong \/ x = "fragment_passed_up"
      BY <2>4 DEF PassUpChain
    <3>2. QED
      BY <3>1
  <2>5. QED
    BY <2>1, <2>2, <2>3, <2>4 DEF CleanJumbo
<1>2. CASE ~Jumbo
  <2> DEFINE i == clean.i
             p == desc[clean.i]
  <2>1. CleanLegacy(i, p)
    BY <1>2 DEF Clean
  <2>2. CASE Toss(i, p)
    <3>1. \A x \in wrong' : x \in wrong \/ x = "good_frame_tossed"
      BY <2>2 DEF Toss
    <3>2. QED
      BY <3>1
  <2>3. CASE RecycleError(i, p)
    BY <2>3 DEF RecycleError
  <2>4. CASE PassUp(i, p)
    <3>1. \A x \in wrong' : x \in wrong \/ x = "fragment_passed_up"
      BY <2>4 DEF PassUp
    <3>2. QED
      BY <3>1
  <2>5. QED
    BY <2>1, <2>2, <2>3, <2>4 DEF CleanLegacy
<1>3. QED
  BY <1>1, <1>2

(* Every step passes the ring on as the code intends.                        *)
LEMMA HandOverNext == HandOver /\ [Next]_vars => HandOver'
<1> SUFFICES ASSUME HandOver, [Next]_vars
             PROVE  HandOver'
  OBVIOUS
<1> USE DEF HandOver, HandOverType, OneOwner, OneAtWork, Holding, Masked, NoHandler
<1>1. CASE Receive
  <2>1. "emptied_under_poll" \in wrong' => "emptied_under_poll" \in wrong
    BY <1>1 DEF Receive
  <2>2. UNCHANGED <<ims, sched, intr, poll, ending, down, updown, late, clean>>
    BY <1>1 DEF Receive
  <2>3. QED
    BY <2>1, <2>2
<1>2. CASE Watchdog
  BY <1>2 DEF Watchdog, ringVars
<1>3. CASE Clean
  <2>1. UNCHANGED <<ims, sched, intr, poll, ending, down, updown, late>> /\ clean.pc # "idle"
    BY <1>3 DEF Clean, napiVars
  <2>2. QED
    BY <1>3, <2>1, CleanWrong, RingSteps
<1>4. CASE StoreNtc(FALSE) \/ StoreNtc(TRUE)
  <2>1. UNCHANGED <<ims, sched, intr, poll, ending, down, updown, late, wrong>> /\ clean.pc # "idle"
    BY <1>4 DEF StoreNtc, napiVars
  <2>2. QED
    BY <2>1, RingSteps
<1>5. CASE FillSlot \/ FillFails \/ Refilled
  <2>1. UNCHANGED <<ims, sched, intr, poll, ending, down, updown, late, wrong>>
    BY <1>5 DEF FillSlot, FillFails, Refilled, napiVars
  <2>2. clean.pc = "idle" => clean'.pc = "idle"
    BY <1>5 DEF FillSlot, FillFails, Refilled
  <2>3. QED
    BY <2>1, <2>2, RingSteps
<1>6. CASE StartClean
  BY <1>6 DEF StartClean, PollStart
<1>7. CASE EndAgain
  BY <1>7 DEF EndAgain, PollAgain, NoClean
<1>8. CASE EndDone
  BY <1>8 DEF EndDone, PollComplete, NoClean
<1>9. CASE TestDown /\ UNCHANGED <<may, ringVars>>
  BY <1>9 DEF TestDown, ringVars
<1>10. CASE PollUnmask /\ UNCHANGED <<may, ringVars>>
  BY <1>10 DEF PollUnmask, ringVars, Disabled
<1>11. CASE Interrupt /\ UNCHANGED <<may, ringVars>>
  <2> UNCHANGED <<clean, wrong>>
    BY <1>11 DEF ringVars
  <2>1. CASE ReadIcr
    BY <2>1 DEF ReadIcr
  <2>2. CASE Mask
    BY <2>2 DEF Mask
  <2>3. CASE SchedulePoll
    BY <2>3 DEF SchedulePoll
  <2>4. CASE IntrUnmask
    BY <2>4 DEF IntrUnmask, Disabled
  <2>5. QED
    BY <1>11, <2>1, <2>2, <2>3, <2>4 DEF Interrupt
<1>12. CASE Down /\ UNCHANGED <<may, ringVars>>
  BY <1>12 DEF Down, UpDownStep, ringVars
<1>13. CASE CleanRing
  BY <1>13 DEF CleanRing, Reset, UpDownStep
<1>14. CASE FillRing
  BY <1>14 DEF FillRing
<1>15. CASE Filled
  BY <1>15 DEF Filled
<1>16. CASE /\ NapiDisable \/ IrqDisable \/ Synchronize \/ SetDown \/ NapiEnable \/ IrqEnable \/ FireLsc
            /\ UNCHANGED <<may, ringVars>>
  <2> UNCHANGED <<clean, wrong>>
    BY <1>16 DEF ringVars
  <2> USE DEF UpDownStep
  <2>1. CASE NapiDisable
    BY <2>1 DEF NapiDisable
  <2>2. CASE IrqDisable
    BY <2>2 DEF IrqDisable
  <2>3. CASE Synchronize
    BY <2>3 DEF Synchronize
  <2>4. CASE SetDown
    BY <2>4 DEF SetDown
  <2>5. CASE NapiEnable
    BY <2>5 DEF NapiEnable
  <2>6. CASE IrqEnable
    BY <2>6 DEF IrqEnable
  <2>7. CASE FireLsc
    BY <2>7 DEF FireLsc
  <2>8. QED
    BY <1>16, <2>1, <2>2, <2>3, <2>4, <2>5, <2>6, <2>7
<1>17. CASE UNCHANGED vars
  BY <1>17 DEF vars, napiVars, ringVars
<1>18. QED
  BY <1>1, <1>2, <1>3, <1>4, <1>5, <1>6, <1>7, <1>8, <1>9, <1>10, <1>11, <1>12, <1>13, <1>14,
     <1>15, <1>16, <1>17 DEF Next, Poll, UpDown

(* So that this part is an invariant of its own.                             *)
LEMMA HandOverHolds == Spec => []HandOver
  BY HandOverInit, HandOverNext, PTL DEF Spec

-----------------------------------------------------------------------------
(* The ring, seen from the slot that the clean-up looks at next: how far on  *)
(* another slot is.                                                          *)
Next2Clean == IF clean.pc \in {"test", "refill"} THEN clean.i ELSE ntc
Dist(i, j) == IF i <= j THEN j - i ELSE j - i + Count
Pos(i)     == Dist(Next2Clean, i)

RingType ==
  /\ may \in SUBSET {"jumbo", "no_memory", "down", "tbi"}
  /\ ntu \in Slot /\ ntc \in Slot /\ rdh \in Slot /\ rdt \in Slot
  /\ buf \in [Slot -> [skb : BOOLEAN, page : BOOLEAN, dma : BOOLEAN]]
  /\ desc \in [Slot -> [done : BOOLEAN, first : BOOLEAN, eop : BOOLEAN, err : BOOLEAN]]
  /\ icr \in BOOLEAN /\ inFrame \in BOOLEAN /\ discarding \in BOOLEAN /\ top \in {"none", "chain"}
  /\ clean \in [pc : {"idle", "test", "refill", "refill_again", "refill_done"}, i : Slot,
                count : Nat]
  /\ alloc \in [i : Slot, left : Nat]

(* Head, tail and next_to_use follow each other; the slot at the tail is     *)
(* never filled, so that a ring with buffers is never full.  After a reset   *)
(* all are at one place.                                                     *)
Ordered ==
  /\ Pos(rdh) <= Pos(rdt)
  /\ \/ Pos(ntu) = Pos(rdt) + 1
     \/ ntu = Next2Clean /\ rdh = Next2Clean /\ rdt = Next2Clean
  /\ updown \in {"configure", "fill"} => rdh = Next2Clean

(* A refill does not go beyond the slots that were cleaned.                  *)
Refill ==
  /\ clean.pc = "test" => clean.count + Pos(ntu) <= Count - 1
  /\ clean.pc = "refill" => clean.count = 0
  /\ Allocating => Pos(ntu) <= Pos(alloc.i) /\ Pos(alloc.i) + alloc.left <= Count - 1

Limit == IF Allocating THEN alloc.i ELSE ntu

(* The slots up to the head are done; those from there on are mapped.        *)
Done == \A i \in Slot : desc[i].done <=> Pos(i) < Pos(rdh)
Mapped == \A i \in Slot : Pos(rdh) <= Pos(i) /\ Pos(i) < Pos(Limit) => buf[i].dma

(* Is the driver in the middle of a frame?  In legacy mode it may take the   *)
(* first piece for one after the interface was down.  And the pieces in the  *)
(* ring follow each other, up to what the controller writes next.            *)
Mid == IF Jumbo THEN top # "none" ELSE discarding
Agrees(first) == IF Jumbo \/ "down" \notin may THEN (first <=> ~Mid) ELSE Mid \/ first
First(i) == IF i = rdh THEN ~inFrame ELSE desc[i].first
Frames ==
  /\ Agrees(First(Next2Clean))
  /\ \A i \in Slot : Pos(i) < Pos(rdh) =>
       /\ First(Succ(i)) <=> desc[i].eop
       /\ desc[i].err => desc[i].eop
  /\ "down" \notin may => updown = "up"

RingInv == RingType /\ Ordered /\ Refill /\ Done /\ Mapped /\ Frames /\ FramesDelivered

(* A frame in the ring has an interrupt or a poll to come.                   *)
LookedAfter ==
  ~late /\ updown \in {"napi_enable", "irq_enable", "fire", "up"} /\ rdh # Next2Clean =>
    \/ icr
    \/ intr \in {"mask", "schedule"}
    \/ poll # "idle" /\ clean.pc # "refill_done"

IInv == HandOver /\ RingInv /\ LookedAfter

-----------------------------------------------------------------------------
(* Going round the ring.                                                     *)
LEMMA CountFact == Count \in Nat /\ Count > 2
  BY RxAssumption

(* Nothing added to a place in the ring.                                     *)
LEMMA CountBound == \A d \in 0 .. Count - 1 : 0 + d <= Count - 1
  BY CountFact

(* The neighbours of a slot.                                                 *)
LEMMA SlotFacts ==
  ASSUME NEW i \in Slot
  PROVE  Succ(i) \in Slot /\ Pred(i) \in Slot /\ Pred(Succ(i)) = i /\ Succ(Pred(i)) = i
                  /\ Succ(i) # i
  BY CountFact DEF Slot, Succ, Pred

(* A distance is less than Count and tells slots apart.                      *)
LEMMA DistFacts ==
  ASSUME NEW i \in Slot, NEW j \in Slot
  PROVE  /\ Dist(i, j) \in 0 .. Count - 1
         /\ Dist(i, j) = 0 <=> i = j
         /\ \A k \in Slot : Dist(i, j) = Dist(i, k) => j = k
  BY CountFact DEF Slot, Dist

(* How a distance changes with either end.                                   *)
LEMMA DistSucc ==
  ASSUME NEW i \in Slot, NEW j \in Slot
  PROVE  /\ Dist(i, j) < Count - 1 => Dist(i, Succ(j)) = Dist(i, j) + 1
         /\ i # j => Dist(i, Pred(j)) = Dist(i, j) - 1
         /\ i # j => Dist(Succ(i), j) = Dist(i, j) - 1
         /\ Dist(Succ(i), i) = Count - 1
  BY CountFact DEF Slot, Dist, Succ, Pred

(* What there is to refill, up to the slot before the clean-up.              *)
LEMMA UnusedDist ==
  ASSUME NEW i \in Slot, NEW j \in Slot
  PROVE  Unused(j, i) = Count - 1 - Dist(i, j)
  BY CountFact DEF Slot, Dist, Unused

(* The places of the indices are in the ring.                                *)
LEMMA PosFacts ==
  ASSUME RingType
  PROVE  /\ Next2Clean \in Slot /\ Limit \in Slot
         /\ Dist(Next2Clean, rdh) \in Nat /\ Dist(Next2Clean, rdt) \in 0 .. Count - 1
         /\ Dist(Next2Clean, ntu) \in Nat /\ Dist(Next2Clean, alloc.i) \in Nat
<1>1. Next2Clean \in Slot /\ Limit \in Slot
  BY DEF RingType, Next2Clean, Limit
<1>2. rdh \in Slot /\ rdt \in Slot /\ ntu \in Slot /\ alloc.i \in Slot
  BY DEF RingType
<1>3. Count - 1 \in Nat
  BY CountFact
<1>4. QED
  BY <1>1, <1>2, <1>3, DistFacts

(* A step that leaves the ring alone, outside of the reset and the refill of *)
(* e1000_up.                                                                 *)
LEMMA NapiSteps ==
  ASSUME RingInv, UNCHANGED <<may, ringVars>>, icr' \in BOOLEAN,
         updown' # updown => {updown, updown'} \cap {"configure", "fill"} = {},
         "down" \notin may => updown' = "up"
  PROVE  RingInv'
<1> USE DEF ringVars
<1>1. Next2Clean' = Next2Clean /\ (updown' = "fill" <=> updown = "fill")
      /\ (updown' \in {"configure", "fill"} <=> updown \in {"configure", "fill"})
  BY DEF Next2Clean
<1>2. Allocating' = Allocating /\ Limit' = Limit
  BY <1>1 DEF Allocating, Limit
<1>3. RingType' /\ FramesDelivered'
  BY DEF RingInv, RingType, FramesDelivered
<1>4. Ordered'
  BY <1>1 DEF RingInv, Ordered, Pos, Dist
<1>5. Refill'
  BY <1>1, <1>2 DEF RingInv, Refill, Pos, Dist
<1>6. Done'
  BY <1>1 DEF RingInv, Done, Pos, Dist
<1>7. Mapped'
  BY <1>1, <1>2 DEF RingInv, Mapped, Pos, Dist
<1>8. Frames'
  BY <1>1 DEF RingInv, Frames, Pos, Dist, Agrees, First, Mid, Jumbo
<1>9. QED
  BY <1>3, <1>4, <1>5, <1>6, <1>7, <1>8 DEF RingInv

(* The full ring of an interface that is up.                                 *)
LEMMA RingInit == Init => RingInv
<1> SUFFICES ASSUME Init
             PROVE  RingInv
  OBVIOUS
<1>1. may \in SUBSET {"jumbo", "no_memory", "down", "tbi"}
  BY RxAssumption DEF Init
<1>2. RingType
  <2>1. 0 \in Slot /\ Count - 1 \in Slot /\ Count - 2 \in Slot
    BY CountFact DEF Slot
  <2>2. buf \in [Slot -> [skb : BOOLEAN, page : BOOLEAN, dma : BOOLEAN]]
    BY DEF Init, Empty, Jumbo
  <2>3. desc \in [Slot -> [done : BOOLEAN, first : BOOLEAN, eop : BOOLEAN, err : BOOLEAN]]
    BY DEF Init, Free
  <2>4. clean \in [pc : {"idle", "test", "refill", "refill_again", "refill_done"}, i : Slot,
                   count : Nat]
    BY <2>1 DEF Init, NoClean
  <2>5. alloc \in [i : Slot, left : Nat]
    BY <2>1 DEF Init, NoAlloc
  <2>6. icr \in BOOLEAN /\ inFrame \in BOOLEAN /\ discarding \in BOOLEAN /\ top \in {"none", "chain"}
    BY DEF Init, NapiInit
  <2>7. ntu \in Slot /\ ntc \in Slot /\ rdh \in Slot /\ rdt \in Slot
    BY <2>1 DEF Init
  <2>8. QED
    BY <1>1, <2>2, <2>3, <2>4, <2>5, <2>6, <2>7 DEF RingType
<1>3. Next2Clean = 0 /\ clean.pc = "idle" /\ ~Allocating /\ updown = "up"
  BY DEF Init, NapiInit, NoClean, Next2Clean, Allocating
<1>4. Ordered /\ Refill
  BY <1>3, CountFact DEF Init, Ordered, Refill, Pos, Dist
<1>5. Done
  BY <1>3, CountFact DEF Init, Done, Pos, Dist, Slot, Free
<1>6. Mapped
  BY <1>3, CountFact DEF Init, Mapped, Pos, Dist, Slot, Limit
<1>7. Frames
  BY <1>3, CountFact DEF Init, Frames, Pos, Dist, Slot, First, Agrees, Mid
<1>8. QED
  BY <1>2, <1>4, <1>5, <1>6, <1>7 DEF RingInv, FramesDelivered, Init

-----------------------------------------------------------------------------
(* The controller fills the slot at the head.                                *)
LEMMA ReceiveRing ==
  ASSUME RingInv, Receive
  PROVE  RingInv'
<1> DEFINE s == Next2Clean
<1> USE DEF RingInv
<1>1. /\ Next2Clean' = s /\ Allocating' = Allocating /\ Limit' = Limit
      /\ s \in Slot /\ rdh \in Slot /\ rdt \in Slot /\ ntu \in Slot /\ alloc.i \in Slot
  BY PosFacts DEF Receive, Next2Clean, Allocating, Limit, RingType
<1>2. PICK p \in Piece : /\ p.first = ~inFrame /\ (p.err => p.eop)
                         /\ desc' = [desc EXCEPT ![rdh] = p]
                         /\ inFrame' = ~p.eop
  BY DEF Receive
<1>3. Dist(s, rdh) < Dist(s, rdt) /\ Dist(s, rdh) \in Nat /\ Dist(s, rdt) \in 0 .. Count - 1
  BY <1>1, DistFacts DEF Ordered, Pos, Receive
<1>4. Dist(s, rdh') = Dist(s, rdh) + 1
  BY <1>1, <1>3, DistSucc, CountFact DEF Receive
<1>5. Dist(s, ntu) = Dist(s, rdt) + 1 /\ Dist(s, ntu) <= Dist(s, Limit) /\ Dist(s, Limit) \in Nat
  <2>1. Dist(s, ntu) = Dist(s, rdt) + 1
    BY <1>3 DEF Ordered, Pos
  <2>2. Dist(s, ntu) <= Dist(s, Limit)
    BY <2>1, <1>3 DEF Refill, Pos, Limit
  <2>3. QED
    BY <2>1, <2>2, <1>1, PosFacts, DistFacts DEF Limit
<1>6. rdh' \in Slot /\ Pred(rdh') = rdh
  BY <1>1, SlotFacts DEF Receive
<1>7. wrong' = wrong
  <2>1. buf[rdh].dma
    BY <1>1, <1>3, <1>5 DEF Mapped, Pos
  <2>2. QED
    BY <2>1 DEF Receive
<1>8. RingType'
  BY <1>1, <1>2, <1>6 DEF RingType, Receive, Piece
<1>9. Ordered'
  BY <1>1, <1>3, <1>4, <1>5 DEF Ordered, Pos, Receive
<1>10. Refill'
  BY <1>1 DEF Refill, Pos, Receive
<1>11. Done'
  <2> SUFFICES ASSUME NEW i \in Slot
               PROVE  desc'[i].done <=> Dist(s, i) < Dist(s, rdh')
    BY <1>1 DEF Done, Pos
  <2>1. Dist(s, i) \in Nat /\ (Dist(s, i) = Dist(s, rdh) => i = rdh)
    BY <1>1, DistFacts
  <2>2. desc'[i] = IF i = rdh THEN p ELSE desc[i]
    BY <1>2 DEF RingType
  <2>3. p.done
    BY DEF Piece
  <2>4. CASE i = rdh
    BY <2>2, <2>3, <2>4, <1>3, <1>4
  <2>5. CASE i # rdh
    <3>1. desc'[i].done <=> Dist(s, i) < Dist(s, rdh)
      BY <2>2, <2>5 DEF Done, Pos
    <3>2. QED
      BY <3>1, <2>1, <2>5, <1>3, <1>4
  <2>6. QED
    BY <2>4, <2>5
<1>12. Mapped'
  <2> SUFFICES ASSUME NEW i \in Slot, Dist(s, rdh') <= Dist(s, i), Dist(s, i) < Dist(s, Limit)
               PROVE  buf'[i].dma
    BY <1>1 DEF Mapped, Pos
  <2>1. Dist(s, i) \in Nat
    BY <1>1, DistFacts
  <2>2. QED
    BY <2>1, <1>3, <1>4 DEF Mapped, Pos, Receive
<1>13. Frames'
  <2>1. UNCHANGED <<Jumbo, Mid, may, updown>>
    BY DEF Receive, Jumbo, Mid
  <2>2. \A i \in Slot : i # rdh' /\ Dist(s, i) <= Dist(s, rdh) => (First(i)' <=> First(i))
    <3> SUFFICES ASSUME NEW i \in Slot, i # rdh', Dist(s, i) <= Dist(s, rdh)
                 PROVE  First(i)' <=> First(i)
      OBVIOUS
    <3>1. First(i)' = desc'[i].first
      BY DEF First
    <3>2. CASE i = rdh
      BY <1>1, <1>2, <3>1, <3>2 DEF First, RingType, Piece
    <3>3. CASE i # rdh
      BY <1>2, <3>1, <3>3 DEF First, RingType
    <3>4. QED
      BY <3>2, <3>3
  <2>3. Agrees(First(s))'
    <3>1. s # rdh'
      BY <1>1, <1>3, <1>4, <1>6, DistFacts
    <3>2. First(s)' <=> First(s)
      BY <2>2, <3>1, <1>1, <1>3, DistFacts
    <3>3. QED
      BY <2>1, <3>2, <1>1 DEF Frames, Agrees, First
  <2>4. ASSUME NEW i \in Slot, Dist(s, i) < Dist(s, rdh')
        PROVE  (First(Succ(i))' <=> desc'[i].eop) /\ (desc'[i].err => desc'[i].eop)
    <3>1. CASE i = rdh
      <4>1. Succ(i) = rdh'
        BY <3>1 DEF Receive
      <4>2. First(Succ(i))' <=> ~inFrame'
        BY <4>1 DEF First
      <4>3. desc'[i] = p
        BY <3>1, <1>1, <1>2 DEF RingType
      <4>4. QED
        BY <4>2, <4>3, <1>2 DEF Piece
    <3>2. CASE i # rdh
      <4>1. Dist(s, i) \in Nat /\ Dist(s, i) < Dist(s, rdh)
        BY <3>2, <2>4, <1>1, <1>3, <1>4, DistFacts
      <4>2. Succ(i) \in Slot /\ Succ(i) # rdh'
        BY <3>2, <1>6, SlotFacts
      <4>3. Dist(s, Succ(i)) <= Dist(s, rdh)
        BY <4>1, <1>1, <1>3, DistSucc, CountFact
      <4>4. desc'[i] = desc[i]
        BY <3>2, <1>2 DEF RingType
      <4>5. QED
        BY <4>1, <4>2, <4>3, <4>4, <2>2 DEF Frames, Pos
    <3>3. QED
      BY <3>1, <3>2
  <2>5. QED
    BY <1>1, <2>1, <2>3, <2>4 DEF Frames, Pos
<1>14. FramesDelivered'
  BY <1>7 DEF FramesDelivered, Receive
<1>15. QED
  BY <1>8, <1>9, <1>10, <1>11, <1>12, <1>13, <1>14

(* A step that neither the controller nor the clean-up makes.                *)
LEMMA SameFrames ==
  ASSUME RingInv, UNCHANGED <<may, desc, rdh, inFrame, top, discarding, wrong>>,
         Next2Clean' = Next2Clean, "down" \notin may => updown' = "up"
  PROVE  Done' /\ Frames' /\ FramesDelivered'
<1>1. Done'
  BY DEF RingInv, Done, Pos, Dist
<1>2. Frames'
  BY DEF RingInv, Frames, Pos, Dist, Agrees, First, Mid, Jumbo
<1>3. FramesDelivered'
  BY DEF RingInv, FramesDelivered
<1>4. QED
  BY <1>1, <1>2, <1>3

(* The end of a refill moves next_to_use and the tail.                       *)
LEMMA PublishRing ==
  ASSUME RingInv, Publish, Allocating, ~Allocating', UNCHANGED <<rdh, buf>>,
         Next2Clean' = Next2Clean, updown' \in {"configure", "fill"} => updown' = updown
  PROVE  /\ Ordered' /\ Mapped' /\ Pos(ntu)' <= Count - 1
         /\ ntu' \in Slot /\ rdt' \in Slot /\ alloc' \in [i : Slot, left : Nat]
<1> DEFINE s == Next2Clean
<1> USE DEF RingInv
<1>1. /\ s \in Slot /\ rdh \in Slot /\ rdt \in Slot /\ ntu \in Slot /\ alloc.i \in Slot
      /\ alloc.left \in Nat
  BY PosFacts DEF RingType
<1>2. ntu' \in Slot /\ rdt' \in Slot /\ alloc' \in [i : Slot, left : Nat]
  BY <1>1, SlotFacts, CountFact DEF Publish, NoAlloc, Slot
<1>3. Dist(s, ntu) <= Dist(s, alloc.i) /\ Dist(s, alloc.i) <= Count - 1
  BY <1>1, DistFacts, CountFact DEF Refill, Pos
<1>4. Dist(s, rdh) \in Nat /\ Dist(s, ntu) \in Nat /\ Dist(s, rdt) \in Nat /\ Dist(s, alloc.i) \in Nat
  BY <1>1, PosFacts
<1>5. Ordered'
  <2>1. CASE ntu = alloc.i
    BY <2>1 DEF Publish, Ordered, Pos
  <2>2. CASE ntu # alloc.i
    <3>1. Dist(s, ntu) < Dist(s, alloc.i)
      BY <2>2, <1>1, <1>3, <1>4, DistFacts
    <3>2. alloc.i # s
      BY <3>1, <1>1, <1>4, DistFacts
    <3>3. Dist(s, rdt') = Dist(s, alloc.i) - 1
      BY <2>2, <3>2, <1>1, DistSucc DEF Publish
    <3>4. Dist(s, rdh) <= Dist(s, ntu)
      <4>1. CASE Dist(s, ntu) = Dist(s, rdt) + 1
        BY <4>1, <1>4 DEF Ordered, Pos
      <4>2. CASE ntu = s /\ rdh = s
        BY <4>2, <1>4
      <4>3. QED
        BY <4>1, <4>2 DEF Ordered, Pos
    <3>5. QED
      BY <3>1, <3>3, <3>4, <1>4 DEF Ordered, Publish, Pos
  <2>3. QED
    BY <2>1, <2>2
<1>6. Mapped'
  BY DEF Mapped, Limit, Publish, Pos
<1>7. QED
  BY <1>2, <1>3, <1>5, <1>6 DEF Publish, Pos

-----------------------------------------------------------------------------
(* Whatever the clean-up takes from a slot, the others stay.                 *)
LEMMA Edited ==
  ASSUME NEW b \in [Slot -> [skb : BOOLEAN, page : BOOLEAN, dma : BOOLEAN]], NEW n \in Slot,
         NEW x \in BOOLEAN,
         NEW c, \/ c = [b EXCEPT ![n].dma = FALSE]
                \/ c = [[b EXCEPT ![n].dma = FALSE] EXCEPT ![n].skb = FALSE]
                \/ c = [[b EXCEPT ![n].dma = FALSE] EXCEPT ![n].page = FALSE]
                \/ c = [[b EXCEPT ![n].dma = FALSE] EXCEPT ![n].page = FALSE, ![n].skb = x]
  PROVE  /\ c \in [Slot -> [skb : BOOLEAN, page : BOOLEAN, dma : BOOLEAN]]
         /\ \A j \in Slot \ {n} : c[j] = b[j]
<1> DEFINE R == [skb : BOOLEAN, page : BOOLEAN, dma : BOOLEAN]
<1>1. b[n] \in R
  OBVIOUS
<1>2. CASE c = [b EXCEPT ![n].dma = FALSE]
  BY <1>1, <1>2
<1>3. CASE c = [[b EXCEPT ![n].dma = FALSE] EXCEPT ![n].skb = FALSE]
  BY <1>1, <1>3
<1>4. CASE c = [[b EXCEPT ![n].dma = FALSE] EXCEPT ![n].page = FALSE]
  BY <1>1, <1>4
<1>5. CASE c = [[b EXCEPT ![n].dma = FALSE] EXCEPT ![n].page = FALSE, ![n].skb = x]
  BY <1>1, <1>5
<1>6. QED
  BY <1>2, <1>3, <1>4, <1>5

(* A turn of the clean-up: what it does to the slot and to the frame that    *)
(* the driver is in the middle of, and what it may pass up.                  *)
LEMMA CleanPiece ==
  ASSUME RingInv, Clean, NEW n, n = clean.i, NEW eop \in BOOLEAN, eop <=> desc[n].eop
  PROVE  /\ buf' \in [Slot -> [skb : BOOLEAN, page : BOOLEAN, dma : BOOLEAN]]
         /\ \A j \in Slot \ {n} : buf'[j] = buf[j]
         /\ discarding' \in BOOLEAN /\ top' \in {"none", "chain"}
         /\ Agrees(eop)'
         /\ FramesDelivered'
<1> DEFINE Same == /\ buf' \in [Slot -> [skb : BOOLEAN, page : BOOLEAN, dma : BOOLEAN]]
                   /\ \A j \in Slot \ {n} : buf'[j] = buf[j]
<1> USE DEF RingInv
<1>1. n = Next2Clean /\ n \in Slot /\ desc[n].done
  BY DEF Clean, Next2Clean, RingType
<1>2. Pos(n) < Pos(rdh) /\ n # rdh
  <2>1. Pos(n) < Pos(rdh)
    BY <1>1 DEF Done
  <2>2. QED
    BY <2>1, <1>1, PosFacts DEF Pos
<1>3. Agrees(desc[n].first) /\ (desc[n].err => desc[n].eop)
  BY <1>1, <1>2 DEF Frames, First, Agrees
<1>4. UNCHANGED <<may, Jumbo>>
  BY DEF Clean, Jumbo
<1>5. buf[n] \in [skb : BOOLEAN, page : BOOLEAN, dma : BOOLEAN]
      /\ buf \in [Slot -> [skb : BOOLEAN, page : BOOLEAN, dma : BOOLEAN]]
  BY <1>1 DEF RingType
<1>6. wrong \subseteq IF "down" \in may THEN {"good_frame_tossed"} ELSE {}
  BY DEF FramesDelivered
<1>7. discarding \in BOOLEAN /\ top \in {"none", "chain"}
      /\ desc[n] \in [done : BOOLEAN, first : BOOLEAN, eop : BOOLEAN, err : BOOLEAN]
  BY <1>1 DEF RingType
<1>8. CASE ~Jumbo
  <2>1. Toss(n, desc[n]) \/ RecycleError(n, desc[n]) \/ PassUp(n, desc[n])
    BY <1>8 DEF Clean, CleanLegacy
  <2>2. CASE Toss(n, desc[n])
    <3>1. buf' = [buf EXCEPT ![n].dma = FALSE] /\ UNCHANGED top /\ (discarding' <=> ~desc[n].eop)
          /\ discarding' \in BOOLEAN
      BY <2>2, <1>7 DEF Toss, Unmapped
    <3>2. "down" \notin may => ~(desc[n].first /\ desc[n].eop)
      BY <2>2, <1>3, <1>8 DEF Toss, Agrees, Mid
    <3>3. wrong' \subseteq IF "down" \in may THEN {"good_frame_tossed"} ELSE {}
      BY <2>2, <3>2, <1>6 DEF Toss
    <3>4. Agrees(eop)'
      BY <3>1, <1>4, <1>8 DEF Agrees, Mid, Clean
    <3>5. Same
      BY <3>1, <1>1, <1>5, Edited
    <3>6. FramesDelivered'
      BY <3>3, <1>4 DEF FramesDelivered
    <3>7. QED
      BY <3>1, <3>4, <3>5, <3>6, <1>7
  <2>3. CASE RecycleError(n, desc[n])
    <3>1. buf' = [buf EXCEPT ![n].dma = FALSE] /\ UNCHANGED <<top, discarding, wrong>>
          /\ ~discarding /\ desc[n].eop
      BY <2>3 DEF RecycleError, Unmapped
    <3>2. Same
      BY <3>1, <1>1, <1>5, Edited
    <3>3. FramesDelivered'
      BY <3>1, <1>4, <1>6 DEF FramesDelivered
    <3>4. Agrees(eop)'
      BY <3>1, <1>4, <1>8 DEF Agrees, Mid
    <3>5. QED
      BY <3>1, <3>2, <3>3, <3>4, <1>7
  <2>4. CASE PassUp(n, desc[n])
    <3>1. UNCHANGED <<top, discarding>> /\ ~discarding /\ desc[n].eop
      BY <2>4 DEF PassUp
    <3>2. wrong' = wrong
      BY <2>4, <3>1, <1>3, <1>8 DEF PassUp, Agrees, Mid
    <3>3. \/ buf' = [[buf EXCEPT ![n].dma = FALSE] EXCEPT ![n].skb = FALSE]
          \/ buf' = [buf EXCEPT ![n].dma = FALSE]
      BY <2>4 DEF PassUp, Unmapped
    <3>4. Same
      <4>1. CASE buf' = [[buf EXCEPT ![n].dma = FALSE] EXCEPT ![n].skb = FALSE]
        BY <4>1, <1>1, <1>5, Edited
      <4>2. CASE buf' = [buf EXCEPT ![n].dma = FALSE]
        BY <4>2, <1>1, <1>5, Edited
      <4>3. QED
        BY <3>3, <4>1, <4>2
    <3>5. FramesDelivered'
      BY <3>1, <3>2, <1>4, <1>6 DEF FramesDelivered
    <3>6. Agrees(eop)'
      BY <3>1, <3>2, <1>4, <1>8 DEF Agrees, Mid
    <3>7. QED
      BY <3>1, <3>2, <3>4, <3>5, <3>6, <1>7
  <2>5. QED
    BY <2>1, <2>2, <2>3, <2>4
<1>9. CASE Jumbo
  <2>1. DropChain(n, desc[n]) \/ Chain(n, desc[n]) \/ PassUpChain(n, desc[n])
    BY <1>9 DEF Clean, CleanJumbo
  <2>2. CASE DropChain(n, desc[n])
    <3>1. buf' = [buf EXCEPT ![n].dma = FALSE] /\ UNCHANGED <<discarding, wrong>>
          /\ top' = "none" /\ desc[n].eop
      BY <2>2 DEF DropChain, Unmapped
    <3>2. Same
      BY <3>1, <1>1, <1>5, Edited
    <3>3. FramesDelivered'
      BY <3>1, <1>4, <1>6 DEF FramesDelivered
    <3>4. Agrees(eop)'
      BY <3>1, <1>4, <1>9 DEF Agrees, Mid
    <3>5. QED
      BY <3>1, <3>2, <3>3, <3>4, <1>7
  <2>3. CASE Chain(n, desc[n])
    <3>1. buf' = [[buf EXCEPT ![n].dma = FALSE] EXCEPT ![n].page = FALSE, ![n].skb = top # "none"]
          /\ UNCHANGED <<discarding, wrong>> /\ ~desc[n].eop
      BY <2>3 DEF Chain, Unmapped
    <3>2. top' = "chain"
      <4>1. desc[n].first <=> top = "none"
        BY <1>3, <1>9 DEF Agrees, Mid
      <4>2. CASE desc[n].first
        BY <2>3, <4>1, <4>2, <1>7 DEF Chain
      <4>3. CASE ~desc[n].first
        BY <2>3, <4>1, <4>3, <1>7 DEF Chain
      <4>4. QED
        BY <4>2, <4>3
    <3>3. Same
      BY <3>1, <3>2, <1>1, <1>5, Edited
    <3>4. FramesDelivered'
      BY <3>1, <3>2, <1>4, <1>6 DEF FramesDelivered
    <3>5. Agrees(eop)'
      BY <3>1, <3>2, <1>4, <1>9 DEF Agrees, Mid
    <3>6. QED
      BY <3>1, <3>2, <3>3, <3>4, <3>5, <1>7
  <2>4. CASE PassUpChain(n, desc[n])
    <3>1. top' = "none" /\ UNCHANGED discarding /\ desc[n].eop
      BY <2>4 DEF PassUpChain
    <3>2. wrong' = wrong
      <4>1. desc[n].first <=> top = "none"
        BY <1>3, <1>9 DEF Agrees, Mid
      <4>2. CASE desc[n].first
        BY <2>4, <4>1, <4>2 DEF PassUpChain
      <4>3. CASE ~desc[n].first
        BY <2>4, <4>1, <4>3, <1>7 DEF PassUpChain
      <4>4. QED
        BY <4>2, <4>3
    <3>3. \/ buf' = [[buf EXCEPT ![n].dma = FALSE] EXCEPT ![n].page = FALSE]
          \/ buf' = [[buf EXCEPT ![n].dma = FALSE] EXCEPT ![n].page = FALSE, ![n].skb = FALSE]
          \/ buf' = [[buf EXCEPT ![n].dma = FALSE] EXCEPT ![n].skb = FALSE]
      BY <2>4 DEF PassUpChain, Unmapped
    <3>4. Same
      BY <3>1, <3>3, <1>1, <1>5, Edited
    <3>5. FramesDelivered'
      BY <3>1, <3>2, <1>4, <1>6 DEF FramesDelivered
    <3>6. Agrees(eop)'
      BY <3>1, <3>2, <1>4, <1>9 DEF Agrees, Mid
    <3>7. QED
      BY <3>1, <3>2, <3>4, <3>5, <3>6, <1>7
  <2>5. QED
    BY <2>1, <2>2, <2>3, <2>4
<1>10. QED
  BY <1>8, <1>9

(* A turn of the clean-up: the distances to all other slots get smaller.     *)
LEMMA CleanRingInv ==
  ASSUME HandOver, RingInv, Clean
  PROVE  RingInv'
<1> USE DEF RingInv
<1>0. PICK n \in Slot, m \in Slot : n = clean.i /\ m = Succ(n)
  BY SlotFacts DEF RingType
<1> USE <1>0
<1>1. /\ n = Next2Clean /\ n \in Slot /\ m \in Slot /\ m # n /\ desc[n].done
      /\ rdh \in Slot /\ rdt \in Slot /\ ntu \in Slot /\ clean.count \in Nat
      /\ desc[n].eop \in BOOLEAN
  BY SlotFacts DEF Clean, Next2Clean, RingType
<1>2. /\ UNCHANGED <<may, ntu, ntc, rdh, rdt, inFrame, updown, icr>>
      /\ desc' = [desc EXCEPT ![n] = Free]
  BY DEF Clean, napiVars
<1>3. Dist(n, rdh) > 0 /\ Dist(n, rdh) \in 0 .. Count - 1 /\ n # rdh
  <2>1. Dist(n, n) < Dist(n, rdh)
    BY <1>1 DEF Done, Pos
  <2>2. QED
    BY <2>1, <1>1, DistFacts
<1>4. Dist(n, rdt) \in 0 .. Count - 1 /\ Dist(n, rdh) <= Dist(n, rdt) /\ n # rdt
  BY <1>1, <1>3, DistFacts DEF Ordered, Pos
<1>5. Dist(n, ntu) = Dist(n, rdt) + 1 /\ n # ntu /\ Dist(n, ntu) \in 0 .. Count - 1
  <2>1. Dist(n, ntu) = Dist(n, rdt) + 1
    BY <1>1, <1>3 DEF Ordered, Pos
  <2>2. QED
    BY <2>1, <1>1, <1>4, DistFacts
<1>6. \A j \in Slot : j # n => Dist(m, j) = Dist(n, j) - 1
  BY <1>1, DistSucc
<1>7. Dist(m, n) = Count - 1
  BY <1>1, DistSucc
<1>8. updown \notin {"configure", "fill"}
  BY DEF HandOver, HandOverType, OneOwner, Holding, Clean
<1>9. ~Allocating /\ Limit = ntu
  BY <1>8 DEF Allocating, Limit, Clean
<1>10. /\ Next2Clean' = m
       /\ \/ clean' = [pc |-> "refill", i |-> m, count |-> 0]
             /\ alloc' = [i |-> ntu, left |-> clean.count + 1]
          \/ clean'.pc = "test" /\ clean'.i = m /\ clean'.count = clean.count + 1 /\ alloc' = alloc
             /\ ~Allocating'
             /\ clean' \in [pc : {"idle", "test", "refill", "refill_again", "refill_done"},
                            i : Slot, count : Nat]
  <2>1. CASE clean.count + 1 >= Write
    <3>1. clean' = [pc |-> "refill", i |-> m, count |-> 0]
          /\ alloc' = [i |-> ntu, left |-> clean.count + 1]
      BY <2>1 DEF Clean
    <3>2. Next2Clean' = m
      BY <3>1 DEF Next2Clean
    <3>3. QED
      BY <3>1, <3>2
  <2>2. CASE ~(clean.count + 1 >= Write)
    <3>1. clean' = [clean EXCEPT !.i = Succ(@), !.count = @ + 1] /\ alloc' = alloc /\ clean.pc = "test"
      BY <2>2 DEF Clean
    <3>2. clean \in [pc : {"idle", "test", "refill", "refill_again", "refill_done"}, i : Slot,
                     count : Nat]
      BY DEF RingType
    <3>3. clean'.pc = "test" /\ clean'.i = m /\ clean'.count = clean.count + 1
          /\ clean' \in [pc : {"idle", "test", "refill", "refill_again", "refill_done"},
                         i : Slot, count : Nat]
      <4>1. clean' = [clean EXCEPT !.i = m, !.count = clean.count + 1]
        BY <3>1
      <4>2. clean.count + 1 \in Nat
        BY <1>1
      <4>3. QED
        BY <4>1, <4>2, <3>1, <3>2
    <3>4. Next2Clean' = m /\ ~Allocating'
      BY <3>3, <1>2, <1>8 DEF Next2Clean, Allocating
    <3>5. QED
      BY <3>1, <3>3, <3>4
  <2>3. QED
    BY <2>1, <2>2
<1>11. Limit' = ntu
  <2>1. CASE alloc' = [i |-> ntu, left |-> clean.count + 1]
    BY <2>1, <1>2 DEF Limit
  <2>2. CASE ~Allocating'
    BY <2>2, <1>2 DEF Limit
  <2>3. QED
    BY <2>1, <2>2, <1>10
<1>12. /\ buf' \in [Slot -> [skb : BOOLEAN, page : BOOLEAN, dma : BOOLEAN]]
       /\ \A j \in Slot \ {n} : buf'[j] = buf[j]
       /\ discarding' \in BOOLEAN /\ top' \in {"none", "chain"}
       /\ \A e \in BOOLEAN : (e <=> desc[n].eop) => Agrees(e)'
       /\ FramesDelivered'
  BY <1>1, CleanPiece
<1>13. RingType'
  <2>1. desc' \in [Slot -> [done : BOOLEAN, first : BOOLEAN, eop : BOOLEAN, err : BOOLEAN]]
    BY <1>2 DEF RingType, Free
  <2>2. alloc \in [i : Slot, left : Nat]
    BY DEF RingType
  <2>3. clean' \in [pc : {"idle", "test", "refill", "refill_again", "refill_done"}, i : Slot,
                    count : Nat]
        /\ alloc' \in [i : Slot, left : Nat]
    <3>1. CASE clean' = [pc |-> "refill", i |-> m, count |-> 0]
               /\ alloc' = [i |-> ntu, left |-> clean.count + 1]
      BY <3>1, <1>1
    <3>2. CASE alloc' = alloc
               /\ clean' \in [pc : {"idle", "test", "refill", "refill_again", "refill_done"},
                              i : Slot, count : Nat]
      BY <3>2, <2>2
    <3>3. QED
      BY <3>1, <3>2, <1>10
  <2>4. QED
    BY <2>1, <2>3, <1>2, <1>12 DEF RingType
<1>14. Ordered'
  <2>1. Dist(m, rdh) <= Dist(m, rdt) /\ Dist(m, ntu) = Dist(m, rdt) + 1
    BY <1>1, <1>3, <1>4, <1>5, <1>6
  <2>2. QED
    BY <2>1, <1>2, <1>8, <1>10 DEF Ordered, Pos
<1>15. Refill'
  <2>1. clean.count + Dist(n, ntu) <= Count - 1 /\ Dist(m, ntu) = Dist(n, ntu) - 1
    BY <1>1, <1>5, <1>6 DEF Refill, Pos, Clean
  <2>2. CASE clean' = [pc |-> "refill", i |-> m, count |-> 0]
             /\ alloc' = [i |-> ntu, left |-> clean.count + 1]
    <3>1. Dist(m, ntu) + (clean.count + 1) <= Count - 1 /\ Dist(m, ntu) <= Dist(m, ntu)
      BY <2>1, <1>1, <1>5, CountFact
    <3>2. QED
      BY <3>1, <2>2, <1>2, <1>10 DEF Refill, Pos
  <2>3. CASE clean'.pc = "test" /\ clean'.count = clean.count + 1 /\ ~Allocating'
    <3>1. clean.count + 1 + Dist(m, ntu) <= Count - 1
      BY <2>1, <1>1, <1>5, CountFact
    <3>2. QED
      BY <3>1, <2>3, <1>2, <1>10 DEF Refill, Pos
  <2>4. QED
    BY <2>2, <2>3, <1>10
<1>16. Done'
  <2> SUFFICES ASSUME NEW j \in Slot
               PROVE  desc'[j].done <=> Dist(m, j) < Dist(m, rdh)
    BY <1>2, <1>10 DEF Done, Pos
  <2>1. Dist(m, rdh) = Dist(n, rdh) - 1 /\ Dist(n, j) \in Nat
    BY <1>1, <1>3, <1>6, DistFacts
  <2>2. desc'[j] = IF j = n THEN Free ELSE desc[j]
    BY <1>2 DEF RingType
  <2>3. CASE j = n
    BY <2>1, <2>2, <2>3, <1>3, <1>7, CountFact DEF Free
  <2>4. CASE j # n
    <3>1. Dist(m, j) = Dist(n, j) - 1
      BY <2>4, <1>6
    <3>2. desc'[j].done <=> Dist(n, j) < Dist(n, rdh)
      BY <2>2, <2>4, <1>1 DEF Done, Pos
    <3>3. QED
      BY <3>1, <3>2, <2>1, <1>3
  <2>5. QED
    BY <2>3, <2>4
<1>17. Mapped'
  <2> SUFFICES ASSUME NEW j \in Slot, Dist(m, rdh) <= Dist(m, j), Dist(m, j) < Dist(m, ntu)
               PROVE  buf'[j].dma
    BY <1>2, <1>10, <1>11 DEF Mapped, Pos
  <2>1. Dist(m, rdh) = Dist(n, rdh) - 1 /\ Dist(m, ntu) = Dist(n, ntu) - 1 /\ Dist(n, j) \in Nat
    BY <1>1, <1>3, <1>5, <1>6, DistFacts
  <2>2. j # n
    BY <2>1, <1>5, <1>7, CountFact
  <2>3. Dist(m, j) = Dist(n, j) - 1
    BY <2>2, <1>6
  <2>4. Dist(n, rdh) <= Dist(n, j) /\ Dist(n, j) < Dist(n, ntu)
    BY <2>1, <2>3, <1>3, <1>5
  <2>5. buf[j].dma
    BY <2>4, <1>1, <1>9 DEF Mapped, Pos
  <2>6. QED
    BY <2>2, <2>5, <1>12
<1>18. Frames'
  <2>1. \A j \in Slot : j # n => (First(j)' <=> First(j))
    BY <1>2 DEF First, RingType
  <2>2. First(m) <=> desc[n].eop
    BY <1>1, <1>3, DistFacts DEF Frames, Pos
  <2>3. Agrees(First(m))'
    <3>1. First(m)' <=> desc[n].eop
      BY <2>1, <2>2, <1>1
    <3>2. QED
      BY <3>1, <1>1, <1>12 DEF Agrees
  <2>4. ASSUME NEW j \in Slot, Dist(m, j) < Dist(m, rdh)
        PROVE  (First(Succ(j))' <=> desc'[j].eop) /\ (desc'[j].err => desc'[j].eop)
    <3>1. Dist(m, rdh) = Dist(n, rdh) - 1 /\ Dist(n, j) \in Nat
      BY <1>1, <1>3, <1>6, DistFacts
    <3>2. j # n
      BY <3>1, <2>4, <1>3, <1>7, CountFact
    <3>3. Dist(n, j) < Dist(n, rdh)
      BY <3>1, <3>2, <2>4, <1>3, <1>6
    <3>4. Dist(n, Succ(j)) = Dist(n, j) + 1
      BY <3>1, <3>3, <1>1, <1>3, DistSucc, CountFact
    <3>5. Succ(j) \in Slot /\ Succ(j) # n
      BY <3>1, <3>4, <1>1, SlotFacts, DistFacts
    <3>6. desc'[j] = desc[j]
      BY <3>2, <1>2 DEF RingType
    <3>7. QED
      BY <3>3, <3>5, <3>6, <2>1, <1>1 DEF Frames, Pos
  <2>5. "down" \notin may' => updown' = "up"
    BY <1>2 DEF Frames
  <2>6. QED
    BY <2>3, <2>4, <2>5, <1>2, <1>10 DEF Frames, Pos
<1>19. QED
  BY <1>12, <1>13, <1>14, <1>15, <1>16, <1>17, <1>18

-----------------------------------------------------------------------------
(* The steps of a poll around its turns, and of a refill.                    *)
LEMMA StartCleanRing ==
  ASSUME HandOver, RingInv, StartClean
  PROVE  RingInv'
<1> USE DEF RingInv
<1>1. /\ UNCHANGED <<may, ntu, ntc, buf, desc, rdh, rdt, inFrame, top, discarding, alloc, wrong,
                     updown, icr>>
      /\ clean' = [pc |-> "test", i |-> ntc, count |-> 0]
      /\ clean.pc = "idle" /\ updown # "fill"
  BY DEF StartClean, PollStart, HandOver, HandOverType, OneOwner, Holding
<1>2. Next2Clean' = Next2Clean /\ ~Allocating /\ ~Allocating'
  BY <1>1 DEF Next2Clean, Allocating
<1>3. RingType'
  BY <1>1 DEF RingType
<1>4. Ordered' /\ Mapped'
  BY <1>1, <1>2 DEF Ordered, Mapped, Limit, Pos
<1>5. Refill'
  <2>1. Next2Clean \in Slot /\ ntu \in Slot
    BY PosFacts DEF RingType
  <2>2. Pos(ntu) \in 0 .. Count - 1
    BY <2>1, DistFacts DEF Pos
  <2>3. Pos(ntu)' = Pos(ntu) /\ clean'.count = 0
    BY <1>1, <1>2 DEF Pos
  <2>4. QED
    BY <1>2, <2>2, <2>3, CountFact DEF Refill
<1>6. "down" \notin may => updown' = "up"
  BY <1>1 DEF Frames
<1>7. QED
  BY <1>1, <1>2, <1>3, <1>4, <1>5, <1>6, SameFrames

(* As many slots as there are, up to the one before the clean-up.            *)
LEMMA RefillAll ==
  ASSUME RingType, alloc' = [i |-> ntu, left |-> Unused(ntu, Next2Clean)], UNCHANGED ntu,
         Next2Clean' = Next2Clean, clean'.pc \notin {"test", "refill"}
  PROVE  Refill' /\ alloc' \in [i : Slot, left : Nat]
<1>1. Next2Clean \in Slot /\ ntu \in Slot
  BY PosFacts DEF RingType
<1>2. Dist(Next2Clean, ntu) \in 0 .. Count - 1
      /\ Unused(ntu, Next2Clean) = Count - 1 - Dist(Next2Clean, ntu)
  BY <1>1, DistFacts, UnusedDist
<1>3. alloc'.i = ntu /\ alloc'.left = Count - 1 - Dist(Next2Clean, ntu) /\ alloc'.left \in Nat
  BY <1>2, CountFact
<1>4. QED
  BY <1>1, <1>2, <1>3, CountFact DEF Refill, Pos

(* The end of the loop.                                                      *)
LEMMA StoreNtcRing ==
  ASSUME HandOver, RingInv, NEW again \in BOOLEAN, StoreNtc(again)
  PROVE  RingInv'
<1> USE DEF RingInv
<1>1. /\ UNCHANGED <<may, ntu, buf, desc, rdh, rdt, inFrame, top, discarding, wrong, updown, icr>>
      /\ clean.pc = "test" /\ ntc' = clean.i /\ updown \notin {"configure", "fill"}
      /\ clean'.pc \in {"refill_again", "refill_done"}
      /\ clean' = [pc |-> clean'.pc, i |-> 0, count |-> 0]
      /\ alloc' = [i |-> ntu, left |-> Unused(ntu, clean.i)]
  BY DEF StoreNtc, napiVars, HandOver, HandOverType, OneOwner, Holding
<1>2. Next2Clean' = Next2Clean /\ Next2Clean = clean.i /\ ~Allocating
  BY <1>1 DEF Next2Clean, Allocating
<1>3. Refill' /\ alloc' \in [i : Slot, left : Nat]
  BY <1>1, <1>2, RefillAll
<1>4. RingType'
  <2>1. clean' \in [pc : {"idle", "test", "refill", "refill_again", "refill_done"}, i : Slot,
                    count : Nat]
    <3>1. 0 \in Slot /\ 0 \in Nat
      BY CountFact DEF Slot
    <3>2. PICK pc \in {"refill_again", "refill_done"} : clean' = [pc |-> pc, i |-> 0, count |-> 0]
      BY <1>1
    <3>3. QED
      BY <3>1, <3>2
  <2>2. clean.i \in Slot
    BY DEF RingType
  <2>3. QED
    BY <2>1, <2>2, <1>1, <1>3 DEF RingType
<1>5. Ordered'
  BY <1>1, <1>2 DEF Ordered, Pos
<1>6. Mapped'
  BY <1>1, <1>2 DEF Mapped, Limit, Pos
<1>7. "down" \notin may => updown' = "up"
  BY <1>1 DEF Frames
<1>8. QED
  BY <1>1, <1>2, <1>3, <1>4, <1>5, <1>6, <1>7, SameFrames

(* e1000_up begins to fill the ring.                                         *)
LEMMA FillRingInv ==
  ASSUME HandOver, RingInv, FillRing
  PROVE  RingInv'
<1> USE DEF RingInv
<1>1. /\ UNCHANGED <<may, ntu, ntc, buf, desc, rdh, rdt, inFrame, top, discarding, clean, wrong, icr>>
      /\ clean.pc = "idle" /\ updown = "configure" /\ updown' = "fill"
      /\ alloc' = [i |-> ntu, left |-> Unused(ntu, ntc)]
  BY DEF FillRing, HandOver, HandOverType, OneOwner, Holding
<1>2. Next2Clean' = Next2Clean /\ Next2Clean = ntc /\ ~Allocating
  BY <1>1 DEF Next2Clean, Allocating
<1>3. Refill' /\ alloc' \in [i : Slot, left : Nat]
  BY <1>1, <1>2, RefillAll
<1>4. RingType'
  BY <1>1, <1>3 DEF RingType
<1>5. Ordered'
  BY <1>1, <1>2 DEF Ordered, Pos
<1>6. Mapped'
  BY <1>1, <1>2 DEF Mapped, Limit, Pos
<1>7. "down" \notin may => updown' = "up"
  BY <1>1 DEF Frames
<1>8. QED
  BY <1>1, <1>2, <1>3, <1>4, <1>5, <1>6, <1>7, SameFrames

(* One more slot is filled.                                                  *)
LEMMA FillSlotRing ==
  ASSUME RingInv, FillSlot
  PROVE  RingInv'
<1> USE DEF RingInv
<1> DEFINE s == Next2Clean
<1>1. /\ UNCHANGED <<may, ntu, ntc, desc, rdh, rdt, inFrame, top, discarding, clean, wrong, updown, icr>>
      /\ Allocating /\ alloc.left > 0
      /\ buf' = [buf EXCEPT ![alloc.i] = [skb |-> TRUE, page |-> Jumbo, dma |-> TRUE]]
      /\ alloc' = [i |-> Succ(alloc.i), left |-> alloc.left - 1]
  BY DEF FillSlot, napiVars
<1>2. Next2Clean' = s /\ Allocating' /\ Limit = alloc.i /\ Limit' = alloc'.i
      /\ s \in Slot /\ alloc.i \in Slot /\ alloc.left \in Nat /\ ntu \in Slot
  BY <1>1, PosFacts DEF Next2Clean, Allocating, Limit, RingType
<1>3. Dist(s, alloc.i) \in Nat /\ Dist(s, alloc.i) < Count - 1
  BY <1>1, <1>2, DistFacts, CountFact DEF Refill, Pos
<1>4. Dist(s, alloc'.i) = Dist(s, alloc.i) + 1 /\ alloc'.left = alloc.left - 1
  BY <1>1, <1>2, <1>3, DistSucc
<1>5. alloc' \in [i : Slot, left : Nat]
  BY <1>1, <1>2, SlotFacts
<1>6. RingType'
  <2>1. buf' \in [Slot -> [skb : BOOLEAN, page : BOOLEAN, dma : BOOLEAN]]
    <3>1. buf \in [Slot -> [skb : BOOLEAN, page : BOOLEAN, dma : BOOLEAN]]
      BY DEF RingType
    <3>2. [skb |-> TRUE, page |-> Jumbo, dma |-> TRUE] \in [skb : BOOLEAN, page : BOOLEAN, dma : BOOLEAN]
      BY DEF Jumbo
    <3>3. QED
      BY <1>1, <3>1, <3>2
  <2>2. QED
    BY <2>1, <1>1, <1>5 DEF RingType
<1>7. Ordered'
  BY <1>1, <1>2 DEF Ordered, Pos
<1>8. Refill'
  <2>1. Dist(s, ntu) <= Dist(s, alloc.i) /\ Dist(s, alloc.i) + alloc.left <= Count - 1
        /\ Dist(s, ntu) \in Nat
    BY <1>1, <1>2, DistFacts DEF Refill, Pos
  <2>2. Dist(s, ntu) <= Dist(s, alloc'.i) /\ Dist(s, alloc'.i) + alloc'.left <= Count - 1
    BY <2>1, <1>2, <1>3, <1>4, CountFact
  <2>3. QED
    BY <2>2, <1>1, <1>2 DEF Refill, Pos
<1>9. Mapped'
  <2> SUFFICES ASSUME NEW j \in Slot, Dist(s, rdh) <= Dist(s, j), Dist(s, j) < Dist(s, alloc'.i)
               PROVE  buf'[j].dma
    BY <1>1, <1>2 DEF Mapped, Pos
  <2>1. CASE j = alloc.i
    BY <2>1, <1>1 DEF RingType
  <2>2. CASE j # alloc.i
    <3>1. Dist(s, j) < Dist(s, alloc.i)
      BY <2>2, <1>2, <1>3, <1>4, DistFacts
    <3>2. buf[j].dma
      BY <3>1, <1>2 DEF Mapped, Pos
    <3>3. QED
      BY <3>2, <2>2, <1>1 DEF RingType
  <2>3. QED
    BY <2>1, <2>2
<1>10. "down" \notin may => updown' = "up"
  BY <1>1 DEF Frames
<1>11. QED
  BY <1>1, <1>2, <1>6, <1>7, <1>8, <1>9, <1>10, SameFrames

(* An allocation or a mapping fails: the slot stays beyond the limit.        *)
LEMMA FillFailsRing ==
  ASSUME RingInv, FillFails
  PROVE  RingInv'
<1> USE DEF RingInv
<1> DEFINE s == Next2Clean
<1>1. /\ UNCHANGED <<may, ntu, ntc, desc, rdh, rdt, inFrame, top, discarding, clean, wrong, updown, icr>>
      /\ Allocating
      /\ \/ buf' = buf
         \/ buf' = [buf EXCEPT ![alloc.i].skb = TRUE]
         \/ buf' = [buf EXCEPT ![alloc.i] = Empty]
      /\ alloc' = [alloc EXCEPT !.left = 0]
  BY DEF FillFails, napiVars
<1>2. alloc \in [i : Slot, left : Nat] /\ alloc.i \in Slot
      /\ buf \in [Slot -> [skb : BOOLEAN, page : BOOLEAN, dma : BOOLEAN]]
  BY DEF RingType
<1>3. alloc'.i = alloc.i /\ alloc'.left = 0 /\ alloc' \in [i : Slot, left : Nat]
  BY <1>1, <1>2
<1>4. Next2Clean' = s /\ Allocating' /\ Limit = alloc.i /\ Limit' = alloc.i /\ s \in Slot
  BY <1>1, <1>3, PosFacts DEF Next2Clean, Allocating, Limit
<1>5. buf' \in [Slot -> [skb : BOOLEAN, page : BOOLEAN, dma : BOOLEAN]]
      /\ \A j \in Slot \ {alloc.i} : buf'[j] = buf[j]
  <2>1. CASE buf' = buf
    BY <2>1, <1>2
  <2>2. CASE buf' = [buf EXCEPT ![alloc.i].skb = TRUE]
    BY <2>2, <1>2
  <2>3. CASE buf' = [buf EXCEPT ![alloc.i] = Empty]
    BY <2>3, <1>2 DEF Empty
  <2>4. QED
    BY <1>1, <2>1, <2>2, <2>3
<1>6. RingType'
  BY <1>1, <1>3, <1>5 DEF RingType
<1>7. Ordered'
  BY <1>1, <1>4 DEF Ordered, Pos
<1>8. Refill'
  <2>1. Dist(s, alloc.i) <= Count - 1 /\ Dist(s, alloc.i) \in Nat
    BY <1>2, <1>4, DistFacts, CountFact
  <2>2. QED
    BY <2>1, <1>1, <1>3, <1>4 DEF Refill, Pos
<1>9. Mapped'
  <2> SUFFICES ASSUME NEW j \in Slot, Dist(s, rdh) <= Dist(s, j), Dist(s, j) < Dist(s, alloc.i)
               PROVE  buf'[j].dma
    BY <1>1, <1>4 DEF Mapped, Pos
  <2>1. buf[j].dma
    BY <1>4 DEF Mapped, Pos
  <2>2. j # alloc.i
    BY <1>2, <1>4, DistFacts
  <2>3. QED
    BY <2>1, <2>2, <1>5
<1>10. "down" \notin may => updown' = "up"
  BY <1>1 DEF Frames
<1>11. QED
  BY <1>1, <1>4, <1>6, <1>7, <1>8, <1>9, <1>10, SameFrames

(* The end of a refill, within a poll or in e1000_up.                        *)
LEMMA PublishSteps ==
  ASSUME RingInv, Publish, Allocating, ~Allocating', Next2Clean' = Next2Clean,
         UNCHANGED <<may, icr, ntc, buf, desc, rdh, inFrame, top, discarding, wrong>>,
         clean' \in [pc : {"idle", "test", "refill", "refill_again", "refill_done"}, i : Slot,
                     count : Nat],
         clean'.pc = "test" => clean'.count = 0, clean'.pc # "refill",
         updown' \in {"configure", "fill"} => updown' = updown,
         "down" \notin may => updown' = "up"
  PROVE  RingInv'
<1>1. /\ Ordered' /\ Mapped' /\ Pos(ntu)' <= Count - 1
      /\ ntu' \in Slot /\ rdt' \in Slot /\ alloc' \in [i : Slot, left : Nat]
  BY PublishRing
<1>2. RingType'
  BY <1>1 DEF RingInv, RingType
<1>3. Refill'
  <2>1. Next2Clean \in Slot /\ ntu' \in Slot
    BY <1>1, PosFacts DEF RingInv
  <2>2. Pos(ntu)' = Dist(Next2Clean, ntu')
    BY DEF Pos
  <2>3. Dist(Next2Clean, ntu') \in 0 .. Count - 1
    BY <2>1, DistFacts
  <2>4. \A d \in 0 .. Count - 1 : 0 + d <= Count - 1
    BY CountBound
  <2>5. 0 + Pos(ntu)' <= Count - 1
    BY <2>2, <2>3, <2>4
  <2>6. QED
    BY <2>5 DEF Refill
<1>4. Done' /\ Frames' /\ FramesDelivered'
  BY SameFrames
<1>5. QED
  BY <1>1, <1>2, <1>3, <1>4 DEF RingInv

(* The three ends of a refill in a poll.                                     *)
LEMMA RefilledRing ==
  ASSUME HandOver, RingInv, Refilled \/ EndAgain \/ EndDone
  PROVE  RingInv'
<1>1. /\ UNCHANGED <<may, icr, updown, ntc, buf, desc, rdh, inFrame, top, discarding, wrong>>
      /\ Publish /\ Allocating
  BY DEF Refilled, EndAgain, EndDone, PollAgain, PollComplete, napiVars, Allocating
<1>2. updown \notin {"configure", "fill"}
  BY DEF Refilled, EndAgain, EndDone, HandOver, HandOverType, OneOwner, Holding
<1>3. clean \in [pc : {"idle", "test", "refill", "refill_again", "refill_done"}, i : Slot,
                 count : Nat] /\ (clean.pc = "refill" => clean.count = 0)
  BY DEF RingInv, RingType, Refill
<1>4. CASE Refilled
  <2>1. clean.pc = "refill" /\ clean' = [clean EXCEPT !.pc = "test"]
    BY <1>4 DEF Refilled
  <2>2. /\ clean'.pc = "test" /\ clean'.count = 0 /\ clean'.i = clean.i
        /\ clean' \in [pc : {"idle", "test", "refill", "refill_again", "refill_done"}, i : Slot,
                       count : Nat]
    BY <2>1, <1>3
  <2>3. Next2Clean' = Next2Clean /\ ~Allocating'
    BY <2>1, <2>2, <1>1, <1>2 DEF Next2Clean, Allocating
  <2>4. "down" \notin may => updown' = "up"
    BY <1>1 DEF RingInv, Frames
  <2>5. QED
    BY <2>2, <2>3, <2>4, <1>1, PublishSteps
<1>5. CASE EndAgain \/ EndDone
  <2>1. clean.pc \in {"refill_again", "refill_done"} /\ clean' = [pc |-> "idle", i |-> 0, count |-> 0]
    BY <1>5 DEF EndAgain, EndDone, NoClean
  <2>2. 0 \in Slot
    BY CountFact DEF Slot
  <2>3. /\ clean'.pc = "idle"
        /\ clean' \in [pc : {"idle", "test", "refill", "refill_again", "refill_done"}, i : Slot,
                       count : Nat]
    BY <2>1, <2>2
  <2>4. Next2Clean' = Next2Clean /\ ~Allocating'
    BY <2>1, <2>3, <1>1, <1>2 DEF Next2Clean, Allocating
  <2>5. "down" \notin may => updown' = "up"
    BY <1>1 DEF RingInv, Frames
  <2>6. QED
    BY <2>3, <2>4, <2>5, <1>1, PublishSteps
<1>6. QED
  BY <1>4, <1>5

(* The end of the refill in e1000_up.                                        *)
LEMMA FilledRing ==
  ASSUME HandOver, RingInv, Filled
  PROVE  RingInv'
<1>1. /\ UNCHANGED <<may, icr, ntc, buf, desc, rdh, inFrame, top, discarding, clean, wrong>>
      /\ Publish /\ updown = "fill" /\ updown' = "napi_enable"
  BY DEF Filled
<1>2. clean.pc = "idle"
  BY <1>1 DEF HandOver, HandOverType, OneOwner, Holding
<1>3. clean \in [pc : {"idle", "test", "refill", "refill_again", "refill_done"}, i : Slot,
                 count : Nat] /\ "down" \in may
  BY <1>1 DEF RingInv, RingType, Frames
<1>4. Allocating /\ ~Allocating' /\ Next2Clean' = Next2Clean
  BY <1>1, <1>2 DEF Allocating, Next2Clean
<1>5. QED
  BY <1>1, <1>2, <1>3, <1>4, PublishSteps

(* The reset: everything is empty, and back at the first slot.               *)
LEMMA CleanRingRing ==
  ASSUME HandOver, RingInv, CleanRing
  PROVE  RingInv'
<1>1. /\ UNCHANGED <<may, discarding, clean, alloc>>
      /\ updown = "reset" /\ updown' = "configure" /\ icr' = FALSE
      /\ buf' = [i \in Slot |-> Empty] /\ desc' = [i \in Slot |-> Free]
      /\ ntu' = 0 /\ ntc' = 0 /\ rdh' = 0 /\ rdt' = 0
      /\ inFrame' = FALSE /\ top' = "none"
  BY DEF CleanRing, Reset, UpDownStep
<1>2. clean.pc = "idle"
  BY <1>1 DEF HandOver, HandOverType, OneOwner, Holding
<1>3. wrong' = wrong
  BY <1>2 DEF CleanRing
<1>4. "down" \in may /\ 0 \in Slot
  BY <1>1, CountFact DEF RingInv, Frames, Slot
<1>5. Next2Clean' = 0 /\ ~Allocating' /\ Limit' = 0
  BY <1>1, <1>2 DEF Next2Clean, Allocating, Limit
<1>6. Dist(0, 0) = 0 /\ \A j \in Slot : ~(Dist(0, j) < 0)
  <2>1. \A j \in Slot : Dist(0, j) \in 0 .. Count - 1
    BY <1>4, DistFacts
  <2>2. QED
    BY <2>1, <1>4, CountFact, DistFacts
<1>7. RingType'
  <2>1. buf' \in [Slot -> [skb : BOOLEAN, page : BOOLEAN, dma : BOOLEAN]]
    BY <1>1 DEF Empty
  <2>2. desc' \in [Slot -> [done : BOOLEAN, first : BOOLEAN, eop : BOOLEAN, err : BOOLEAN]]
    BY <1>1 DEF Free
  <2>3. QED
    BY <2>1, <2>2, <1>1, <1>4 DEF RingInv, RingType
<1>8. Ordered'
  BY <1>1, <1>5, <1>6 DEF Ordered, Pos
<1>9. Refill'
  BY <1>1, <1>2, <1>5 DEF Refill
<1>10. Done'
  BY <1>1, <1>5, <1>6 DEF Done, Pos, Free
<1>11. Mapped'
  BY <1>1, <1>5, <1>6 DEF Mapped, Pos
<1>12. Frames'
  <2>1. \A j \in Slot : ~(Pos(j)' < Pos(rdh)')
    BY <1>1, <1>5, <1>6 DEF Pos
  <2>2. Agrees(First(Next2Clean))'
    BY <1>1, <1>4, <1>5 DEF Agrees, First, Mid, Jumbo
  <2>3. QED
    BY <2>1, <2>2, <1>1, <1>4 DEF Frames
<1>13. FramesDelivered'
  BY <1>1, <1>3 DEF RingInv, FramesDelivered
<1>14. QED
  BY <1>7, <1>8, <1>9, <1>10, <1>11, <1>12, <1>13 DEF RingInv

-----------------------------------------------------------------------------
(* Every step keeps the ring.                                                *)
LEMMA RingInvNext == HandOver /\ RingInv /\ [Next]_vars => RingInv'
<1> SUFFICES ASSUME HandOver, RingInv, [Next]_vars
             PROVE  RingInv'
  OBVIOUS
<1> DEFINE Quiet == UNCHANGED <<may, ringVars>>
<1>0. icr \in BOOLEAN /\ ("down" \notin may => updown = "up")
  BY DEF RingInv, RingType, Frames
<1>1. CASE Receive \/ Clean
  BY <1>1, ReceiveRing, CleanRingInv
<1>2. CASE StartClean
  BY <1>2, StartCleanRing
<1>3. CASE StoreNtc(FALSE) \/ StoreNtc(TRUE)
  BY <1>3, StoreNtcRing
<1>4. CASE FillSlot \/ FillFails
  BY <1>4, FillSlotRing, FillFailsRing
<1>5. CASE Refilled \/ EndAgain \/ EndDone
  BY <1>5, RefilledRing
<1>6. CASE CleanRing \/ FillRing \/ Filled
  BY <1>6, CleanRingRing, FillRingInv, FilledRing
<1>7. CASE Watchdog
  <2>1. Quiet /\ updown' = updown /\ icr' = TRUE
    BY <1>7 DEF Watchdog
  <2>2. QED
    BY <2>1, <1>0, NapiSteps
<1>8. CASE Interrupt /\ Quiet
  <2>1. updown' = updown /\ icr' \in BOOLEAN
    BY <1>8, <1>0 DEF Interrupt, ReadIcr, Mask, SchedulePoll, IntrUnmask
  <2>2. QED
    BY <2>1, <1>0, <1>8, NapiSteps
<1>9. CASE (TestDown \/ PollUnmask) /\ Quiet
  <2>1. updown' = updown /\ icr' = icr
    BY <1>9 DEF TestDown, PollUnmask
  <2>2. QED
    BY <2>1, <1>0, <1>9, NapiSteps
<1>10. CASE "down" \in may /\ Down /\ Quiet
  <2>1. updown = "up" /\ updown' = "napi_disable" /\ icr' = icr
    BY <1>10 DEF Down, UpDownStep
  <2>2. QED
    BY <2>1, <1>0, <1>10, NapiSteps
<1>11. CASE /\ NapiDisable \/ IrqDisable \/ Synchronize \/ SetDown \/ NapiEnable \/ IrqEnable \/ FireLsc
            /\ Quiet
  <2>1. /\ icr' \in BOOLEAN /\ updown # "up"
        /\ updown' # updown => {updown, updown'} \cap {"configure", "fill"} = {}
    BY <1>11, <1>0 DEF NapiDisable, IrqDisable, Synchronize, SetDown, NapiEnable, IrqEnable, FireLsc,
                       UpDownStep
  <2>2. QED
    BY <2>1, <1>0, <1>11, NapiSteps
<1>12. CASE UNCHANGED vars
  <2>1. Quiet /\ updown' = updown /\ icr' = icr
    BY <1>12 DEF vars, napiVars
  <2>2. QED
    BY <2>1, <1>0, NapiSteps
<1>13. QED
  BY <1>1, <1>2, <1>3, <1>4, <1>5, <1>6, <1>7, <1>8, <1>9, <1>10, <1>11, <1>12
     DEF Next, Poll, UpDown

(* A frame in the ring keeps the interrupt or the poll that is to come: the  *)
(* handler passes it from the cause to the poll, and only a poll that finds  *)
(* the ring empty ends.                                                      *)
LEMMA LookedAfterNext == HandOver /\ RingInv /\ LookedAfter /\ [Next]_vars => LookedAfter'
<1> SUFFICES ASSUME HandOver, RingInv, LookedAfter, [Next]_vars, ~late',
                    updown' \in {"napi_enable", "irq_enable", "fire", "up"}, rdh' # Next2Clean'
             PROVE  \/ icr'
                    \/ intr' \in {"mask", "schedule"}
                    \/ poll' # "idle" /\ clean'.pc # "refill_done"
  BY DEF LookedAfter
<1> DEFINE Quiet == UNCHANGED <<may, ringVars>>
<1>0. late \in BOOLEAN /\ ~late'
  BY DEF HandOver, HandOverType
<1>1. CASE Receive \/ Watchdog
  BY <1>1 DEF Receive, Watchdog
<1>2. CASE StartClean
  BY <1>2 DEF StartClean, PollStart
<1>3. CASE Clean
  <2>1. poll' = "running"
    BY <1>3 DEF Clean, napiVars, HandOver, OneOwner
  <2>2. clean.pc = "test" /\ clean \in [pc : {"idle", "test", "refill", "refill_again", "refill_done"},
                                      i : Slot, count : Nat]
    BY <1>3 DEF Clean, RingInv, RingType
  <2>3. CASE clean.count + 1 >= Write
    <3>1. clean' = [pc |-> "refill", i |-> Succ(clean.i), count |-> 0]
      BY <1>3, <2>3 DEF Clean
    <3>2. clean'.pc = "refill"
      BY <3>1
    <3>3. QED
      BY <2>1, <3>2
  <2>4. CASE ~(clean.count + 1 >= Write)
    <3>1. clean' = [clean EXCEPT !.i = Succ(@), !.count = @ + 1]
      BY <1>3, <2>4 DEF Clean
    <3>2. clean'.pc = "test"
      BY <2>2, <3>1
    <3>3. QED
      BY <2>1, <3>2
  <2>5. QED
    BY <2>3, <2>4
<1>4. CASE StoreNtc(TRUE)
  BY <1>4 DEF StoreNtc, napiVars, HandOver, OneOwner
<1>5. CASE StoreNtc(FALSE)
  <2>1. Next2Clean = clean.i /\ ~desc[clean.i].done /\ rdh' = rdh /\ Next2Clean' = clean.i
    BY <1>5 DEF StoreNtc, Next2Clean
  <2>2. Next2Clean \in Slot /\ rdh \in Slot
    BY PosFacts DEF RingInv, RingType
  <2>3. Dist(Next2Clean, Next2Clean) = 0 /\ Dist(Next2Clean, rdh) \in Nat
    BY <2>2, DistFacts
  <2>4. ~(Dist(Next2Clean, Next2Clean) < Dist(Next2Clean, rdh))
    BY <2>1, <2>2 DEF RingInv, Done, Pos
  <2>5. rdh = Next2Clean
    BY <2>2, <2>3, <2>4, DistFacts
  <2>6. QED
    BY <2>1, <2>5
<1>6. CASE FillSlot \/ FillFails
  <2>1. UNCHANGED <<icr, intr, poll, late, updown, clean, rdh>> /\ Next2Clean' = Next2Clean
    BY <1>6 DEF FillSlot, FillFails, napiVars, Next2Clean
  <2>2. QED
    BY <2>1 DEF LookedAfter
<1>7. CASE Refilled
  <2>1. poll' = "running" /\ clean'.pc = "test"
    BY <1>7 DEF Refilled, napiVars, HandOver, OneOwner, RingInv, RingType
  <2>2. QED
    BY <2>1
<1>8. CASE EndAgain
  BY <1>8 DEF EndAgain, PollAgain, NoClean
<1>9. CASE EndDone
  <2>1. UNCHANGED <<icr, intr, late, updown, rdh>> /\ Next2Clean' = Next2Clean
        /\ clean.pc = "refill_done"
    BY <1>9 DEF EndDone, PollComplete, NoClean, Next2Clean
  <2>2. QED
    BY <2>1 DEF LookedAfter
<1>10. CASE Filled
  <2>1. rdh' = rdh /\ Next2Clean' = Next2Clean /\ updown = "fill"
    BY <1>10 DEF Filled, Next2Clean
  <2>2. QED
    BY <2>1 DEF RingInv, Ordered
<1>11. CASE CleanRing \/ FillRing
  BY <1>11 DEF CleanRing, Reset, UpDownStep, FillRing
<1>12. CASE Interrupt /\ Quiet
  <2>0. ~late /\ updown' = updown
    BY <1>0, <1>12 DEF Interrupt, ReadIcr, Mask, SchedulePoll, IntrUnmask
  <2>1. UNCHANGED <<rdh, clean>> /\ Next2Clean' = Next2Clean /\ updown' = updown /\ ~late
    BY <2>0, <1>12 DEF ringVars, Next2Clean
  <2>2. icr \/ intr \in {"mask", "schedule"} \/ (poll # "idle" /\ clean.pc # "refill_done")
    BY <2>1 DEF LookedAfter
  <2>3. CASE ReadIcr
    BY <2>1, <2>3 DEF ReadIcr, HandOver, OneAtWork
  <2>4. CASE Mask
    BY <2>4 DEF Mask
  <2>5. CASE SchedulePoll
    BY <2>1, <2>5 DEF SchedulePoll, HandOver, HandOverType, OneOwner, OneAtWork, Holding, Masked,
                      NoHandler
  <2>6. CASE IntrUnmask
    BY <2>1, <2>2, <2>6 DEF IntrUnmask
  <2>7. QED
    BY <1>12, <2>3, <2>4, <2>5, <2>6 DEF Interrupt
<1>13. CASE (TestDown \/ PollUnmask) /\ Quiet
  <2>0. ~late /\ UNCHANGED <<icr, intr, poll, updown>>
    BY <1>0, <1>13 DEF TestDown, PollUnmask
  <2>1. UNCHANGED <<icr, intr, poll, updown, clean, rdh>> /\ Next2Clean' = Next2Clean /\ ~late
    BY <2>0, <1>13 DEF ringVars, Next2Clean
  <2>2. QED
    BY <2>1 DEF LookedAfter
<1>14. CASE Down
  BY <1>14 DEF Down, UpDownStep
<1>15. CASE NapiDisable \/ IrqDisable \/ Synchronize \/ SetDown
  BY <1>15 DEF NapiDisable, IrqDisable, Synchronize, SetDown, UpDownStep
<1>16. CASE (NapiEnable \/ IrqEnable) /\ Quiet
  <2>0. ~late /\ UNCHANGED <<icr, intr, poll>> /\ updown \in {"napi_enable", "irq_enable"}
    BY <1>0, <1>16 DEF NapiEnable, IrqEnable, UpDownStep
  <2>1. UNCHANGED <<icr, intr, poll, clean, rdh>> /\ Next2Clean' = Next2Clean /\ ~late
        /\ updown \in {"napi_enable", "irq_enable"}
    BY <2>0, <1>16 DEF ringVars, Next2Clean
  <2>2. QED
    BY <2>1 DEF LookedAfter
<1>17. CASE FireLsc
  BY <1>17 DEF FireLsc
<1>18. CASE UNCHANGED vars
  <2>1. UNCHANGED <<icr, intr, poll, late, updown, clean, rdh>> /\ Next2Clean' = Next2Clean
    BY <1>18 DEF vars, napiVars, ringVars, Next2Clean
  <2>2. QED
    BY <2>1 DEF LookedAfter
<1>19. QED
  BY <1>1, <1>2, <1>3, <1>4, <1>5, <1>6, <1>7, <1>8, <1>9, <1>10, <1>11, <1>12, <1>13, <1>14,
     <1>15, <1>16, <1>17, <1>18 DEF Next, Poll, UpDown

(* The three parts together are inductive.                                   *)
LEMMA Inductive == Spec => []IInv
<1>1. Init => IInv
  <2>1. Init => LookedAfter
    BY DEF Init, NoClean, LookedAfter, Next2Clean
  <2>2. QED
    BY <2>1, HandOverInit, RingInit DEF IInv
<1>2. IInv /\ [Next]_vars => IInv'
  BY HandOverNext, RingInvNext, LookedAfterNext DEF IInv
<1>3. QED
  BY <1>1, <1>2, PTL DEF Spec

-----------------------------------------------------------------------------
(* Only whole frames are passed up; the controller writes to mapped buffers  *)
(* only; the ring is not emptied under a poll; no good frame is tossed       *)
(* unless the interface goes down: e1000_clean_rx_irq, its jumbo form, the   *)
(* refills and e1000_down, with a ring and refills of any size.              *)
THEOREM Delivered == Spec => []FramesDelivered
<1>1. IInv => FramesDelivered
  BY DEF IInv, RingInv
<1>2. QED
  BY <1>1, Inductive, PTL

(* With nobody at work the interrupts are unmasked, and if there is a frame  *)
(* in the ring then a cause is latched: e1000_intr, e1000_clean, e1000_down  *)
(* and e1000_up hand the ring over without losing it.                        *)
THEOREM NoneLost == Spec => []NoLostReceive
<1>1. ASSUME IInv, ~late, updown = "up", intr = "idle", poll = "idle", ending = "none"
      PROVE  ims /\ ((\E i \in Slot : desc[i].done) => icr)
  <2>1. ims
    BY <1>1 DEF IInv, HandOver, OneAtWork
  <2>2. ASSUME NEW i \in Slot, desc[i].done
        PROVE  icr
    <3>1. Dist(Next2Clean, i) < Dist(Next2Clean, rdh)
      BY <1>1, <2>2 DEF IInv, RingInv, Done, Pos
    <3>2. Next2Clean \in Slot /\ rdh \in Slot
      BY <1>1, PosFacts DEF IInv, RingInv, RingType
    <3>3. Dist(Next2Clean, i) \in Nat
      BY <3>2, DistFacts, CountFact
    <3>4. rdh # Next2Clean
      <4>1. Dist(Next2Clean, rdh) # 0
        BY <3>1, <3>3
      <4>2. QED
        BY <4>1, <3>2, DistFacts
    <3>5. QED
      BY <1>1, <3>4 DEF IInv, LookedAfter
  <2>3. QED
    BY <2>1, <2>2
<1>2. IInv => NoLostReceive
  BY <1>1 DEF NoLostReceive
<1>3. QED
  BY <1>2, Inductive, PTL

(* While the interface is down its interrupts stay masked, unless the end of *)
(* a poll or of a handler had tested DOWN before e1000_down set it.          *)
THEOREM StaysMasked == Spec => []MaskedWhenDown
<1>1. HandOver => MaskedWhenDown
  BY DEF HandOver, HandOverType, OneAtWork, MaskedWhenDown, Disabled, Holding, Masked
<1>2. QED
  BY <1>1, HandOverHolds, PTL

-----------------------------------------------------------------------------
(* What the driver has taken from the kernel, and where it is: which slots   *)
(* have an skb, a page, a mapping.                                           *)
BufType == [Slot -> [skb : BOOLEAN, page : BOOLEAN, dma : BOOLEAN]]

Skbs(b)  == {i \in Slot : b[i].skb}
Pages(b) == {i \in Slot : b[i].page}
Maps(b)  == {i \in Slot : b[i].dma}

BookType ==
  /\ may \in Cases
  /\ desc \in [Slot -> {Free} \cup Piece]
  /\ owned \in [skb : Int, page : Int, map : Int]
  /\ clean.pc \notin {"test", "refill"} => clean = [pc |-> clean.pc, i |-> 0, count |-> 0]
  /\ ~Allocating => alloc = NoAlloc

(* A slot that the controller has, or that waits for the clean-up, has all   *)
(* it needs; the others may have kept an skb and a page, but no mapping.     *)
Stocked ==
  \A i \in Slot :
    /\ Pos(i) < Pos(Limit) => buf[i].skb /\ buf[i].dma /\ (Jumbo => buf[i].page)
    /\ Pos(Limit) <= Pos(i) => ~buf[i].dma
    /\ buf[i].page => Jumbo

Balanced ==
  /\ owned.skb = Cardinality(Skbs(buf)) + Has(top # "none")
  /\ owned.page = Cardinality(Pages(buf))
  /\ owned.map = Cardinality(Maps(buf))

Books == BookType /\ Stocked /\ Balanced

(* Two sets of slots that differ at one slot at most.                        *)
LEMMA OneSlot ==
  ASSUME NEW S \in SUBSET Slot, NEW T \in SUBSET Slot, NEW n \in Slot, S \ {n} = T \ {n}
  PROVE  /\ Cardinality(S) \in Nat /\ Cardinality(T) \in Nat
         /\ Cardinality(T) = Cardinality(S) - Has(n \in S) + Has(n \in T)
<1>1. IsFiniteSet(Slot)
  BY CountFact, FS_Interval DEF Slot
<1>2. IsFiniteSet(S) /\ IsFiniteSet(T)
  BY <1>1, FS_Subset
<1>3. Cardinality(S) \in Nat /\ Cardinality(T) \in Nat
  BY <1>2, FS_CardinalityType
<1>4. Cardinality(S \ {n}) = IF n \in S THEN Cardinality(S) - 1 ELSE Cardinality(S)
  BY <1>2, FS_RemoveElement, Zenon
<1>5. Cardinality(T \ {n}) = IF n \in T THEN Cardinality(T) - 1 ELSE Cardinality(T)
  BY <1>2, FS_RemoveElement, Zenon
<1>6. Cardinality(S \ {n}) = Cardinality(T \ {n})
  OBVIOUS
<1>7. PICK s \in Nat, t \in Nat : s = Cardinality(S) /\ t = Cardinality(T)
  BY <1>3
<1>8. t = s - Has(n \in S) + Has(n \in T)
  <2>1. (IF n \in S THEN s - 1 ELSE s) = (IF n \in T THEN t - 1 ELSE t)
    BY <1>4, <1>5, <1>6, <1>7
  <2>2. QED
    BY <2>1, <1>7 DEF Has
<1>9. QED
  BY <1>7, <1>8

(* A step that takes or gives back what a slot and the chain gain or lose    *)
(* keeps the balance.                                                        *)
LEMMA BalanceKept ==
  ASSUME Balanced, buf \in BufType, buf' \in BufType, NEW n \in Slot,
         \A j \in Slot \ {n} : buf'[j] = buf[j],
         owned'.skb = owned.skb - Has(buf[n].skb) + Has(buf'[n].skb)
                      - Has(top # "none") + Has(top' # "none"),
         owned'.page = owned.page - Has(buf[n].page) + Has(buf'[n].page),
         owned'.map = owned.map - Has(buf[n].dma) + Has(buf'[n].dma)
  PROVE  Balanced'
<1>1. /\ \A j \in Slot : j \in Skbs(buf) <=> buf[j].skb
      /\ \A j \in Slot : j \in Skbs(buf') <=> buf'[j].skb
      /\ \A j \in Slot : j \in Pages(buf) <=> buf[j].page
      /\ \A j \in Slot : j \in Pages(buf') <=> buf'[j].page
      /\ \A j \in Slot : j \in Maps(buf) <=> buf[j].dma
      /\ \A j \in Slot : j \in Maps(buf') <=> buf'[j].dma
  BY DEF Skbs, Pages, Maps
<1>2. /\ Skbs(buf) \in SUBSET Slot /\ Skbs(buf') \in SUBSET Slot
      /\ Pages(buf) \in SUBSET Slot /\ Pages(buf') \in SUBSET Slot
      /\ Maps(buf) \in SUBSET Slot /\ Maps(buf') \in SUBSET Slot
  BY DEF Skbs, Pages, Maps
<1>3. /\ Skbs(buf) \ {n} = Skbs(buf') \ {n}
      /\ Pages(buf) \ {n} = Pages(buf') \ {n}
      /\ Maps(buf) \ {n} = Maps(buf') \ {n}
  BY <1>1, <1>2
<1>4. Cardinality(Skbs(buf)) \in Nat /\ Cardinality(Pages(buf)) \in Nat
      /\ Cardinality(Maps(buf)) \in Nat
  BY <1>2, <1>3, OneSlot
<1>5. Cardinality(Skbs(buf')) = Cardinality(Skbs(buf)) - Has(buf[n].skb) + Has(buf'[n].skb)
  <2>1. Cardinality(Skbs(buf')) =
        Cardinality(Skbs(buf)) - Has(n \in Skbs(buf)) + Has(n \in Skbs(buf'))
    BY <1>2, <1>3, OneSlot
  <2>2. QED
    BY <2>1, <1>1 DEF Has
<1>6. Cardinality(Pages(buf')) = Cardinality(Pages(buf)) - Has(buf[n].page) + Has(buf'[n].page)
  <2>1. Cardinality(Pages(buf')) =
        Cardinality(Pages(buf)) - Has(n \in Pages(buf)) + Has(n \in Pages(buf'))
    BY <1>2, <1>3, OneSlot
  <2>2. QED
    BY <2>1, <1>1 DEF Has
<1>7. Cardinality(Maps(buf')) = Cardinality(Maps(buf)) - Has(buf[n].dma) + Has(buf'[n].dma)
  <2>1. Cardinality(Maps(buf')) =
        Cardinality(Maps(buf)) - Has(n \in Maps(buf)) + Has(n \in Maps(buf'))
    BY <1>2, <1>3, OneSlot
  <2>2. QED
    BY <2>1, <1>1 DEF Has
<1>8. QED
  BY <1>4, <1>5, <1>6, <1>7 DEF Balanced, Has

(* What is stocked stays so when a step leaves the slots alone.              *)
LEMMA BooksKept ==
  ASSUME Books, UNCHANGED <<may, buf, owned, top>>, Next2Clean' = Next2Clean, Limit' = Limit,
         desc' \in [Slot -> {Free} \cup Piece],
         clean'.pc \notin {"test", "refill"} => clean' = [pc |-> clean'.pc, i |-> 0, count |-> 0],
         ~Allocating' => alloc' = NoAlloc
  PROVE  Books'
<1>1. BookType'
  BY DEF Books, BookType
<1>2. Stocked'
  BY DEF Books, Stocked, Pos, Dist, Jumbo
<1>3. Balanced'
  BY DEF Books, Balanced
<1>4. QED
  BY <1>1, <1>2, <1>3 DEF Books

(* The ring of an interface that is up: all slots but the last are stocked.  *)
LEMMA BooksInit == Init => Books
<1> SUFFICES ASSUME Init
             PROVE  Books
  OBVIOUS
<1>1. Next2Clean = 0 /\ ~Allocating /\ Limit = Count - 1
  BY DEF Init, NapiInit, NoClean, Next2Clean, Allocating, Limit
<1>2. \A i \in Slot : buf[i] = IF i = Count - 1 THEN Empty
                               ELSE [skb |-> TRUE, page |-> Jumbo, dma |-> TRUE]
  BY DEF Init
<1>3. BookType
  <2>1. owned \in [skb : Int, page : Int, map : Int]
    BY CountFact DEF Init
  <2>2. desc \in [Slot -> {Free} \cup Piece]
    BY DEF Init
  <2>3. clean = [pc |-> "idle", i |-> 0, count |-> 0] /\ alloc = NoAlloc /\ may \in Cases
    BY DEF Init, NoClean
  <2>4. QED
    BY <2>1, <2>2, <2>3 DEF BookType
<1>4. Stocked
  <2> SUFFICES ASSUME NEW i \in Slot
               PROVE  /\ Dist(0, i) < Dist(0, Count - 1) =>
                           buf[i].skb /\ buf[i].dma /\ (Jumbo => buf[i].page)
                      /\ Dist(0, Count - 1) <= Dist(0, i) => ~buf[i].dma
                      /\ buf[i].page => Jumbo
    BY <1>1 DEF Stocked, Pos
  <2>1. Dist(0, Count - 1) = Count - 1 /\ Dist(0, i) = i /\ i \in 0 .. Count - 1
    BY CountFact DEF Dist, Slot
  <2>2. CASE i = Count - 1
    BY <2>1, <2>2, <1>2 DEF Empty
  <2>3. CASE i # Count - 1
    BY <2>1, <2>3, <1>2, CountFact
  <2>4. QED
    BY <2>2, <2>3
<1>5. Balanced
  <2>1. 0 .. Count - 2 = {i \in Slot : i # Count - 1}
    BY CountFact DEF Slot
  <2>2. Cardinality(0 .. Count - 2) = Count - 1
    BY CountFact, FS_Interval
  <2>3. Skbs(buf) = 0 .. Count - 2 /\ Maps(buf) = 0 .. Count - 2
    BY <2>1, <1>2 DEF Skbs, Maps, Empty
  <2>4. Pages(buf) = IF Jumbo THEN 0 .. Count - 2 ELSE {}
    BY <2>1, <1>2 DEF Pages, Empty
  <2>5. owned = [skb |-> Count - 1, page |-> IF Jumbo THEN Count - 1 ELSE 0, map |-> Count - 1]
        /\ top = "none"
    BY DEF Init
  <2>6. Cardinality({}) = 0
    BY FS_EmptySet
  <2>7. Cardinality(Pages(buf)) = IF Jumbo THEN Count - 1 ELSE 0
    BY <2>2, <2>4, <2>6
  <2>8. QED
    BY <2>2, <2>3, <2>5, <2>7, CountFact DEF Balanced, Has
<1>6. QED
  BY <1>3, <1>4, <1>5 DEF Books

(* A slot gets what it lacks.                                                *)
LEMMA FillSlotBooks ==
  ASSUME RingInv, RingType', Books, FillSlot
  PROVE  Books'
<1> DEFINE s == Next2Clean
<1>0. PICK n \in Slot : n = alloc.i
  BY DEF RingInv, RingType
<1>1. /\ UNCHANGED <<may, desc, top, clean, updown>> /\ Allocating /\ Allocating'
      /\ buf' = [buf EXCEPT ![n] = [skb |-> TRUE, page |-> Jumbo, dma |-> TRUE]]
      /\ alloc.left > 0 /\ alloc'.i = Succ(n)
      /\ owned' = [skb  |-> owned.skb + Has(~buf[n].skb),
                   page |-> owned.page + Has(Jumbo /\ ~buf[n].page),
                   map  |-> owned.map + Has(~Jumbo \/ ~buf[n].dma)]
  BY <1>0 DEF FillSlot, Allocating, napiVars
<1>2. /\ buf \in BufType /\ buf' \in BufType /\ owned \in [skb : Int, page : Int, map : Int]
      /\ alloc.left \in Nat
  BY DEF RingInv, RingType, BufType, Books, BookType
<1>3. /\ \A j \in Slot \ {n} : buf'[j] = buf[j]
      /\ buf'[n] = [skb |-> TRUE, page |-> Jumbo, dma |-> TRUE]
      /\ buf[n] \in [skb : BOOLEAN, page : BOOLEAN, dma : BOOLEAN]
  BY <1>1, <1>2 DEF BufType
<1>4. Next2Clean' = s /\ Limit = n /\ Limit' = Succ(n) /\ s \in Slot /\ Jumbo' = Jumbo
  <2>1. Next2Clean' = s
    BY <1>1 DEF Next2Clean, FillSlot
  <2>2. QED
    BY <2>1, <1>0, <1>1, PosFacts DEF RingInv, Limit, Jumbo
<1>5. Dist(s, n) \in Nat /\ Dist(s, Succ(n)) = Dist(s, n) + 1
  <2>1. Dist(s, n) \in 0 .. Count - 1
    BY <1>4, DistFacts
  <2>2. Dist(s, n) + alloc.left <= Count - 1
    BY <1>0, <1>1 DEF RingInv, Refill, Pos
  <2>3. Dist(s, n) < Count - 1
    BY <2>1, <2>2, <1>1, <1>2, CountFact
  <2>4. QED
    BY <2>1, <2>3, <1>4, DistSucc
<1>6. ~buf[n].dma /\ (buf[n].page => Jumbo)
  BY <1>4, <1>5 DEF Books, Stocked, Pos
<1>7. BookType'
  BY <1>1, <1>2 DEF Books, BookType, Has
<1>8. Stocked'
  <2> SUFFICES ASSUME NEW j \in Slot
               PROVE  /\ Dist(s, j) < Dist(s, n) + 1 =>
                           buf'[j].skb /\ buf'[j].dma /\ (Jumbo => buf'[j].page)
                      /\ Dist(s, n) + 1 <= Dist(s, j) => ~buf'[j].dma
                      /\ buf'[j].page => Jumbo
    BY <1>4, <1>5 DEF Stocked, Pos
  <2>1. Dist(s, j) \in Nat /\ (Dist(s, j) = Dist(s, n) => j = n)
    BY <1>4, DistFacts, CountFact
  <2>2. CASE j = n
    BY <2>1, <2>2, <1>3, <1>5
  <2>3. CASE j # n
    <3>1. buf'[j] = buf[j]
      BY <2>3, <1>3
    <3>2. /\ Dist(s, j) < Dist(s, n) => buf[j].skb /\ buf[j].dma /\ (Jumbo => buf[j].page)
          /\ Dist(s, n) <= Dist(s, j) => ~buf[j].dma
          /\ buf[j].page => Jumbo
      BY <1>4 DEF Books, Stocked, Pos
    <3>3. QED
      BY <3>1, <3>2, <2>1, <2>3, <1>5
  <2>4. QED
    BY <2>2, <2>3
<1>9. Balanced'
  <2>1. owned.skb \in Int /\ owned.page \in Int /\ owned.map \in Int
    BY <1>2
  <2>2. /\ owned'.skb = owned.skb + Has(~buf[n].skb)
        /\ owned'.page = owned.page + Has(Jumbo /\ ~buf[n].page)
        /\ owned'.map = owned.map + Has(~Jumbo \/ ~buf[n].dma)
    BY <1>1
  <2>3. /\ buf[n].skb \in BOOLEAN /\ buf[n].page \in BOOLEAN /\ Jumbo \in BOOLEAN
        /\ buf'[n].skb = TRUE /\ buf'[n].page = Jumbo /\ buf'[n].dma = TRUE /\ top' = top
    BY <1>1, <1>3 DEF Jumbo
  <2>4. owned'.skb = owned.skb - Has(buf[n].skb) + Has(buf'[n].skb)
                     - Has(top # "none") + Has(top' # "none")
    BY <2>1, <2>2, <2>3 DEF Has
  <2>5. owned'.page = owned.page - Has(buf[n].page) + Has(buf'[n].page)
    BY <2>1, <2>2, <2>3, <1>6 DEF Has
  <2>6. owned'.map = owned.map - Has(buf[n].dma) + Has(buf'[n].dma)
    BY <2>1, <2>2, <2>3, <1>6 DEF Has
  <2>7. QED
    BY <2>4, <2>5, <2>6, <1>2, <1>3, BalanceKept DEF Books
<1>10. QED
  BY <1>7, <1>8, <1>9 DEF Books

(* An allocation or a mapping fails: what the slot had it keeps or gives     *)
(* back.                                                                     *)
LEMMA FillFailsBooks ==
  ASSUME RingInv, RingType', Books, FillFails
  PROVE  Books'
<1> DEFINE s == Next2Clean
<1>0. PICK n \in Slot : n = alloc.i
  BY DEF RingInv, RingType
<1>1. /\ UNCHANGED <<may, desc, top, clean, updown, ntc>> /\ Allocating /\ Allocating'
      /\ alloc' = [alloc EXCEPT !.left = 0]
  BY DEF FillFails, Allocating, napiVars
<1>2. /\ buf \in BufType /\ buf' \in BufType /\ owned \in [skb : Int, page : Int, map : Int]
      /\ alloc \in [i : Slot, left : Nat]
      /\ buf[n] \in [skb : BOOLEAN, page : BOOLEAN, dma : BOOLEAN]
  BY DEF RingInv, RingType, BufType, Books, BookType
<1>3. Next2Clean' = s /\ Limit = n /\ Limit' = n /\ s \in Slot /\ Jumbo' = Jumbo
  <2>1. alloc'.i = n
    BY <1>0, <1>1, <1>2
  <2>2. Next2Clean' = s
    BY <1>1 DEF Next2Clean
  <2>3. QED
    BY <2>1, <2>2, <1>0, <1>1, PosFacts DEF RingInv, Limit, Jumbo
<1>4. ~buf[n].dma /\ (buf[n].page => Jumbo)
  <2>1. Dist(s, n) \in 0 .. Count - 1
    BY <1>3, DistFacts
  <2>2. Dist(s, n) <= Dist(s, n)
    BY <2>1, CountFact
  <2>3. QED
    BY <2>2, <1>3 DEF Books, Stocked, Pos
<1>5. /\ owned.skb \in Int /\ owned.page \in Int /\ owned.map \in Int
      /\ buf[n].skb \in BOOLEAN /\ buf[n].page \in BOOLEAN /\ buf[n].dma \in BOOLEAN
  BY <1>2
<1>6. /\ owned' \in [skb : Int, page : Int, map : Int]
      /\ \A j \in Slot \ {n} : buf'[j] = buf[j]
      /\ ~buf'[n].dma /\ (buf'[n].page => Jumbo)
      /\ owned'.skb = owned.skb - Has(buf[n].skb) + Has(buf'[n].skb)
      /\ owned'.page = owned.page - Has(buf[n].page) + Has(buf'[n].page)
      /\ owned'.map = owned.map - Has(buf[n].dma) + Has(buf'[n].dma)
  <2>1. CASE UNCHANGED <<buf, owned>>
    BY <2>1, <1>2, <1>4, <1>5 DEF Has
  <2>2. CASE /\ buf' = [buf EXCEPT ![n].skb = TRUE]
             /\ owned' = [owned EXCEPT !.skb = @ + Has(~buf[n].skb)]
    <3>1. /\ \A j \in Slot \ {n} : buf'[j] = buf[j]
          /\ buf'[n] = [buf[n] EXCEPT !.skb = TRUE]
      BY <2>2, <1>2 DEF BufType
    <3>2. buf'[n].skb = TRUE /\ buf'[n].page = buf[n].page /\ buf'[n].dma = buf[n].dma
      BY <3>1, <1>2
    <3>3. /\ owned'.skb = owned.skb + Has(~buf[n].skb)
          /\ owned'.page = owned.page /\ owned'.map = owned.map
      BY <2>2, <1>2
    <3>4. owned' \in [skb : Int, page : Int, map : Int]
      BY <2>2, <1>2, <1>5 DEF Has
    <3>5. QED
      BY <3>1, <3>2, <3>3, <3>4, <1>4, <1>5 DEF Has
  <2>3. CASE /\ buf' = [buf EXCEPT ![n] = Empty]
             /\ owned' = [owned EXCEPT !.skb = @ - Has(buf[n].skb), !.page = @ - Has(buf[n].page)]
    <3>1. /\ \A j \in Slot \ {n} : buf'[j] = buf[j]
          /\ buf'[n] = [skb |-> FALSE, page |-> FALSE, dma |-> FALSE]
      BY <2>3, <1>2 DEF BufType, Empty
    <3>2. buf'[n].skb = FALSE /\ buf'[n].page = FALSE /\ buf'[n].dma = FALSE
      BY <3>1
    <3>3. /\ owned'.skb = owned.skb - Has(buf[n].skb)
          /\ owned'.page = owned.page - Has(buf[n].page) /\ owned'.map = owned.map
      BY <2>3, <1>2
    <3>4. owned' \in [skb : Int, page : Int, map : Int]
      <4>1. PICK a \in Int, p \in Int : /\ a = owned.skb - Has(buf[n].skb)
                                        /\ p = owned.page - Has(buf[n].page)
        BY <1>5 DEF Has
      <4>2. owned' = [[owned EXCEPT !.skb = a] EXCEPT !.page = p]
        BY <4>1, <2>3
      <4>3. QED
        BY <4>1, <4>2, <1>2
    <3>5. QED
      BY <3>1, <3>2, <3>3, <3>4, <1>4, <1>5 DEF Has
  <2>4. QED
    BY <1>0, <2>1, <2>2, <2>3 DEF FillFails
<1>7. BookType'
  BY <1>1, <1>6 DEF Books, BookType
<1>8. Stocked'
  <2> SUFFICES ASSUME NEW j \in Slot
               PROVE  /\ Dist(s, j) < Dist(s, n) =>
                           buf'[j].skb /\ buf'[j].dma /\ (Jumbo => buf'[j].page)
                      /\ Dist(s, n) <= Dist(s, j) => ~buf'[j].dma
                      /\ buf'[j].page => Jumbo
    BY <1>3 DEF Stocked, Pos
  <2>1. CASE j = n
    <3>1. Dist(s, n) \in 0 .. Count - 1
      BY <1>3, DistFacts
    <3>2. ~(Dist(s, n) < Dist(s, n))
      BY <3>1, CountFact
    <3>3. QED
      BY <3>2, <2>1, <1>6
  <2>2. CASE j # n
    BY <2>2, <1>3, <1>6 DEF Books, Stocked, Pos
  <2>3. QED
    BY <2>1, <2>2
<1>9. Balanced'
  <2>1. owned'.skb = owned.skb - Has(buf[n].skb) + Has(buf'[n].skb)
                     - Has(top # "none") + Has(top' # "none")
    <3>1. Has(buf[n].skb) \in Int /\ Has(buf'[n].skb) \in Int /\ Has(top # "none") \in Int
          /\ top' = top
      BY <1>1 DEF Has
    <3>2. QED
      BY <3>1, <1>5, <1>6
  <2>2. QED
    BY <2>1, <1>2, <1>6, BalanceKept DEF Books
<1>10. QED
  BY <1>7, <1>8, <1>9 DEF Books

(* What a turn of the clean-up does to the slot and to the books.            *)
LEMMA CleanTakes ==
  ASSUME RingInv, Books, Clean, NEW n \in Slot, n = clean.i,
         buf[n].skb, buf[n].dma, Jumbo => buf[n].page
  PROVE  /\ owned' \in [skb : Int, page : Int, map : Int]
         /\ ~buf'[n].dma /\ (buf'[n].page => Jumbo)
         /\ owned'.skb = owned.skb - Has(buf[n].skb) + Has(buf'[n].skb)
                         - Has(top # "none") + Has(top' # "none")
         /\ owned'.page = owned.page - Has(buf[n].page) + Has(buf'[n].page)
         /\ owned'.map = owned.map - Has(buf[n].dma) + Has(buf'[n].dma)
<1> DEFINE Same(c) == \A j \in Slot \ {n} : c[j] = buf[j]
           R == [skb : BOOLEAN, page : BOOLEAN, dma : BOOLEAN]
<1>1. /\ owned \in [skb : Int, page : Int, map : Int]
      /\ buf \in [Slot -> R] /\ buf[n] \in R /\ top \in {"none", "chain"}
      /\ (buf[n].page => Jumbo)
  BY DEF RingInv, RingType, Books, BookType, Stocked
<1>2. /\ owned.skb \in Int /\ owned.page \in Int /\ owned.map \in Int
      /\ buf[n].skb = TRUE /\ buf[n].dma = TRUE /\ buf[n].page = Jumbo
  BY <1>1 DEF Jumbo
<1>3. PICK b \in [Slot -> R] : b = [buf EXCEPT ![n].dma = FALSE]
  BY <1>1
<1>4. b[n] = [buf[n] EXCEPT !.dma = FALSE]
  BY <1>1, <1>3
<1>5. b[n].skb = TRUE /\ b[n].dma = FALSE /\ b[n].page = Jumbo /\ b[n] \in R
  BY <1>1, <1>2, <1>4
<1>6. Unmapped(n) = b
  BY <1>3 DEF Unmapped
<1>7. ASSUME NEW x \in {0, 1}, NEW y \in {0, 1}
      PROVE  Returned(x, y)
                = [skb |-> owned.skb - x, page |-> owned.page - y, map |-> owned.map - 1]
  <2>1. PICK a \in Int, p \in Int, m \in Int : a = owned.skb /\ p = owned.page /\ m = owned.map
    BY <1>2
  <2>2. owned = [skb |-> a, page |-> p, map |-> m]
    BY <2>1, <1>1
  <2>3. Returned(x, y) = [[[owned EXCEPT !.map = m - 1] EXCEPT !.skb = a - x] EXCEPT !.page = p - y]
    BY <2>1, <2>2 DEF Returned
  <2>4. QED
    BY <2>1, <2>2, <2>3
<1>8. \A x \in BOOLEAN : Has(x) \in {0, 1}
  BY DEF Has
<1>9. CASE buf' = b /\ owned' = Returned(0, 0) /\ Has(top' # "none") = Has(top # "none")
  <2>1. owned' = [skb |-> owned.skb, page |-> owned.page, map |-> owned.map - 1]
    BY <1>2, <1>7, <1>9
  <2>2. QED
    BY <2>1, <1>2, <1>5, <1>8, <1>9 DEF Has
<1>10. CASE /\ buf' = [b EXCEPT ![n].skb = FALSE] /\ owned' = Returned(1, 0)
            /\ Has(top' # "none") = Has(top # "none")
  <2>1. owned' = [skb |-> owned.skb - 1, page |-> owned.page, map |-> owned.map - 1]
    BY <1>2, <1>7, <1>10
  <2>2. buf'[n] = [b[n] EXCEPT !.skb = FALSE]
    BY <1>5, <1>10
  <2>3. buf'[n].skb = FALSE /\ buf'[n].page = Jumbo /\ buf'[n].dma = FALSE
    BY <2>2, <1>5
  <2>4. QED
    BY <2>1, <2>3, <1>2, <1>8, <1>10 DEF Has
<1>11. CASE Jumbo /\ DropChain(n, desc[n])
  <2>1. buf' = b /\ owned' = Returned(Has(top # "none"), 0) /\ top' = "none"
    BY <1>6, <1>11 DEF DropChain
  <2>2. owned' = [skb |-> owned.skb - Has(top # "none"), page |-> owned.page, map |-> owned.map - 1]
    <3>1. PICK h \in {0, 1} : h = Has(top # "none")
      BY <1>8
    <3>2. Returned(h, 0)
             = [skb |-> owned.skb - h, page |-> owned.page - 0, map |-> owned.map - 1]
      BY <1>7
    <3>3. QED
      BY <3>1, <3>2, <2>1, <1>2
  <2>3. QED
    BY <2>1, <2>2, <1>2, <1>5, <1>8 DEF Has
<1>12. CASE Jumbo /\ Chain(n, desc[n])
  <2>1. buf' = [b EXCEPT ![n].page = FALSE, ![n].skb = top # "none"] /\ owned' = Returned(0, 1)
    BY <1>6, <1>12 DEF Chain
  <2>2. owned' = [skb |-> owned.skb, page |-> owned.page - 1, map |-> owned.map - 1]
    BY <2>1, <1>2, <1>7
  <2>3. buf'[n] = [[b[n] EXCEPT !.page = FALSE] EXCEPT !.skb = top # "none"]
    BY <2>1, <1>5
  <2>4. buf'[n].skb = (top # "none") /\ buf'[n].page = FALSE /\ buf'[n].dma = FALSE
    BY <2>3, <1>5
  <2>5. top' # "none"
    BY <1>1, <1>12 DEF Chain
  <2>6. owned'.skb = owned.skb /\ owned'.page = owned.page - 1 /\ owned'.map = owned.map - 1
    BY <2>2
  <2>7. owned' \in [skb : Int, page : Int, map : Int]
    BY <2>2, <1>2
  <2>8. CASE top = "none"
    <3>1. buf'[n].skb = FALSE
      BY <2>4, <2>8
    <3>2. QED
      BY <3>1, <2>4, <2>5, <2>6, <2>7, <2>8, <1>2, <1>12 DEF Has
  <2>9. CASE top # "none"
    <3>1. buf'[n].skb = TRUE
      BY <2>4, <2>9
    <3>2. QED
      BY <3>1, <2>4, <2>5, <2>6, <2>7, <2>9, <1>2, <1>12 DEF Has
  <2>10. QED
    BY <2>8, <2>9
<1>13. CASE Jumbo /\ PassUpChain(n, desc[n])
  <2>1. top' = "none"
    BY <1>13 DEF PassUpChain
  <2>2. CASE /\ top # "none"
             /\ buf' = [b EXCEPT ![n].page = FALSE] /\ owned' = Returned(1, 1)
    <3>1. owned' = [skb |-> owned.skb - 1, page |-> owned.page - 1, map |-> owned.map - 1]
      BY <2>2, <1>2, <1>7
    <3>2. buf'[n] = [b[n] EXCEPT !.page = FALSE]
      BY <2>2, <1>5
    <3>3. buf'[n].skb = TRUE /\ buf'[n].page = FALSE /\ buf'[n].dma = FALSE
      BY <3>2, <1>5
    <3>4. QED
      BY <3>1, <3>3, <2>1, <2>2, <1>2, <1>13 DEF Has
  <2>3. CASE /\ top = "none"
             /\ buf' = [b EXCEPT ![n].page = FALSE, ![n].skb = FALSE] /\ owned' = Returned(1, 1)
    <3>1. owned' = [skb |-> owned.skb - 1, page |-> owned.page - 1, map |-> owned.map - 1]
      BY <2>3, <1>2, <1>7
    <3>2. buf'[n] = [[b[n] EXCEPT !.page = FALSE] EXCEPT !.skb = FALSE]
      BY <2>3, <1>5
    <3>3. buf'[n].skb = FALSE /\ buf'[n].page = FALSE /\ buf'[n].dma = FALSE
      BY <3>2, <1>5
    <3>4. QED
      BY <3>1, <3>3, <2>1, <2>3, <1>2, <1>13 DEF Has
  <2>4. CASE /\ top = "none"
             /\ buf' = [b EXCEPT ![n].skb = FALSE] /\ owned' = Returned(1, 0)
    BY <2>1, <2>4, <1>10
  <2>5. QED
    BY <2>2, <2>3, <2>4, <1>6, <1>13 DEF PassUpChain
<1>14. CASE ~Jumbo
  <2>1. Toss(n, desc[n]) \/ RecycleError(n, desc[n]) \/ PassUp(n, desc[n])
    BY <1>14 DEF Clean, CleanLegacy
  <2>2. top' = top
    BY <2>1 DEF Toss, RecycleError, PassUp
  <2>3. \/ buf' = b /\ owned' = Returned(0, 0)
        \/ buf' = [b EXCEPT ![n].skb = FALSE] /\ owned' = Returned(1, 0)
    BY <2>1, <1>6 DEF Toss, RecycleError, PassUp
  <2>4. QED
    BY <2>2, <2>3, <1>9, <1>10
<1>15. QED
  BY <1>11, <1>12, <1>13, <1>14 DEF Clean, CleanJumbo

(* A turn of the clean-up: the slot becomes the last of those to refill.     *)
LEMMA CleanBooks ==
  ASSUME HandOver, RingInv, RingType', Books, Clean
  PROVE  Books'
<1> USE DEF RingInv
<1>0. PICK n \in Slot, m \in Slot : n = clean.i /\ m = Succ(n)
  BY SlotFacts DEF RingType
<1>1. /\ n = Next2Clean /\ desc[n].done /\ rdh \in Slot /\ rdt \in Slot /\ ntu \in Slot
      /\ m # n /\ UNCHANGED <<may, ntu, ntc, updown>> /\ clean.pc = "test"
      /\ desc' = [desc EXCEPT ![n] = Free]
  BY <1>0, SlotFacts DEF Clean, Next2Clean, RingType, napiVars
<1>2. updown \notin {"configure", "fill"}
  BY DEF HandOver, HandOverType, OneOwner, Holding, Clean
<1>3. ~Allocating /\ Limit = ntu
  BY <1>1, <1>2 DEF Allocating, Limit
<1>4. Next2Clean' = m /\ Limit' = ntu /\ (~Allocating' => alloc' = alloc)
      /\ clean'.pc \in {"test", "refill"}
  <2>1. CASE clean.count + 1 >= Write
    <3>1. clean' = [pc |-> "refill", i |-> m, count |-> 0]
          /\ alloc' = [i |-> ntu, left |-> clean.count + 1]
      BY <2>1, <1>0 DEF Clean
    <3>2. QED
      BY <3>1, <1>1 DEF Next2Clean, Limit, Allocating
  <2>2. CASE ~(clean.count + 1 >= Write)
    <3>1. clean' = [clean EXCEPT !.i = m, !.count = clean.count + 1] /\ alloc' = alloc
      BY <2>2, <1>0 DEF Clean
    <3>2. clean'.pc = "test" /\ clean'.i = m
      BY <3>1, <1>1 DEF RingType
    <3>3. QED
      BY <3>1, <3>2, <1>1, <1>2 DEF Next2Clean, Limit, Allocating
  <2>3. QED
    BY <2>1, <2>2
<1>5. n # rdh
  <2>1. Dist(n, n) < Dist(n, rdh)
    BY <1>1 DEF Done, Pos
  <2>2. QED
    BY <2>1, <1>1, DistFacts, CountFact
<1>6. Dist(n, rdh) \in 0 .. Count - 1 /\ Dist(n, rdh) # 0 /\ Dist(n, rdt) \in 0 .. Count - 1
      /\ Dist(n, ntu) \in 0 .. Count - 1
  BY <1>1, <1>5, DistFacts
<1>7. Dist(n, ntu) = Dist(n, rdt) + 1 /\ Dist(n, n) = 0 /\ n # ntu
  <2>1. Dist(n, ntu) = Dist(n, rdt) + 1
    BY <1>1, <1>5 DEF Ordered, Pos
  <2>2. Dist(n, n) = 0
    BY DistFacts
  <2>3. QED
    BY <2>1, <2>2, <1>6, CountFact
<1>8. /\ \A j \in Slot : j # n => Dist(m, j) = Dist(n, j) - 1
      /\ Dist(m, n) = Count - 1 /\ Dist(m, ntu) = Dist(n, ntu) - 1
  BY <1>0, <1>1, <1>7, DistSucc
<1>9. buf[n].skb /\ buf[n].dma /\ (Jumbo => buf[n].page)
  BY <1>1, <1>3, <1>6, <1>7 DEF Books, Stocked, Pos
<1>10. /\ owned' \in [skb : Int, page : Int, map : Int]
       /\ ~buf'[n].dma /\ (buf'[n].page => Jumbo)
       /\ owned'.skb = owned.skb - Has(buf[n].skb) + Has(buf'[n].skb)
                       - Has(top # "none") + Has(top' # "none")
       /\ owned'.page = owned.page - Has(buf[n].page) + Has(buf'[n].page)
       /\ owned'.map = owned.map - Has(buf[n].dma) + Has(buf'[n].dma)
  BY <1>0, <1>9, CleanTakes
<1>11. /\ buf \in BufType /\ buf' \in BufType
       /\ \A j \in Slot \ {n} : buf'[j] = buf[j]
  <2>1. PICK eop \in BOOLEAN : eop <=> desc[n].eop
    OBVIOUS
  <2>2. \A j \in Slot \ {n} : buf'[j] = buf[j]
    BY <2>1, <1>0, CleanPiece
  <2>3. QED
    BY <2>2 DEF RingType, BufType
<1>12. BookType'
  <2>1. desc' \in [Slot -> {Free} \cup Piece]
    BY <1>1 DEF Books, BookType
  <2>2. ~Allocating' => alloc' = NoAlloc
    BY <1>3, <1>4 DEF Books, BookType
  <2>3. QED
    BY <2>1, <2>2, <1>1, <1>4, <1>10 DEF Books, BookType
<1>13. Stocked'
  <2> SUFFICES ASSUME NEW j \in Slot
               PROVE  /\ Dist(m, j) < Dist(m, ntu) =>
                           buf'[j].skb /\ buf'[j].dma /\ (Jumbo => buf'[j].page)
                      /\ Dist(m, ntu) <= Dist(m, j) => ~buf'[j].dma
                      /\ buf'[j].page => Jumbo
    BY <1>1, <1>4 DEF Stocked, Pos, Jumbo
  <2>1. CASE j = n
    <3>1. ~(Dist(m, j) < Dist(m, ntu))
      BY <2>1, <1>6, <1>8, CountFact
    <3>2. QED
      BY <3>1, <2>1, <1>10
  <2>2. CASE j # n
    <3>1. buf'[j] = buf[j] /\ Dist(m, j) = Dist(n, j) - 1 /\ Dist(n, j) \in 0 .. Count - 1
      BY <2>2, <1>8, <1>11, DistFacts
    <3>2. /\ Dist(n, j) < Dist(n, ntu) => buf[j].skb /\ buf[j].dma /\ (Jumbo => buf[j].page)
          /\ Dist(n, ntu) <= Dist(n, j) => ~buf[j].dma
          /\ buf[j].page => Jumbo
      BY <1>1, <1>3 DEF Books, Stocked, Pos
    <3>3. /\ Dist(m, j) < Dist(m, ntu) <=> Dist(n, j) < Dist(n, ntu)
          /\ Dist(m, ntu) <= Dist(m, j) <=> Dist(n, ntu) <= Dist(n, j)
      BY <3>1, <1>6, <1>8, CountFact
    <3>4. QED
      BY <3>1, <3>2, <3>3
  <2>3. QED
    BY <2>1, <2>2
<1>14. Balanced'
  BY <1>10, <1>11, BalanceKept DEF Books
<1>15. QED
  BY <1>12, <1>13, <1>14 DEF Books

(* The reset gives everything back.                                          *)
LEMMA CleanRingBooks ==
  ASSUME HandOver, RingInv, Books, CleanRing
  PROVE  Books'
<1>1. /\ UNCHANGED <<may, clean, alloc>> /\ updown = "reset" /\ updown' = "configure"
      /\ buf' = [i \in Slot |-> Empty] /\ desc' = [i \in Slot |-> Free]
      /\ ntu' = 0 /\ ntc' = 0 /\ top' = "none"
  BY DEF CleanRing, Reset, UpDownStep
<1>2. clean.pc = "idle" /\ 0 \in Slot
  BY <1>1, CountFact DEF HandOver, HandOverType, OneOwner, Holding, Slot
<1>3. Next2Clean' = 0 /\ ~Allocating /\ ~Allocating' /\ Limit' = 0
  BY <1>1, <1>2 DEF Next2Clean, Allocating, Limit
<1>4. /\ Skbs(buf) = {i \in Slot : buf[i].skb} /\ Pages(buf) = {i \in Slot : buf[i].page}
      /\ Maps(buf) = {i \in Slot : buf[i].dma}
  BY DEF Skbs, Pages, Maps
<1>5. /\ Cardinality(Skbs(buf)) \in Nat /\ Cardinality(Pages(buf)) \in Nat
      /\ Cardinality(Maps(buf)) \in Nat
  <2>1. /\ Skbs(buf) \in SUBSET Slot /\ Pages(buf) \in SUBSET Slot /\ Maps(buf) \in SUBSET Slot
    BY DEF Skbs, Pages, Maps
  <2>2. \A S \in SUBSET Slot : Cardinality(S) \in Nat
    BY <1>2, OneSlot
  <2>3. QED
    BY <2>1, <2>2
<1>6. owned' = [skb |-> 0, page |-> 0, map |-> 0]
  <2>1. owned' = [skb  |-> owned.skb - Cardinality(Skbs(buf)) - Has(top # "none"),
                  page |-> owned.page - Cardinality(Pages(buf)),
                  map  |-> owned.map - Cardinality(Maps(buf))]
    BY <1>4 DEF CleanRing
  <2>2. Has(top # "none") \in Int
    BY DEF Has
  <2>3. /\ owned.skb = Cardinality(Skbs(buf)) + Has(top # "none")
        /\ owned.page = Cardinality(Pages(buf)) /\ owned.map = Cardinality(Maps(buf))
    BY DEF Books, Balanced
  <2>4. /\ owned.skb - Cardinality(Skbs(buf)) - Has(top # "none") = 0
        /\ owned.page - Cardinality(Pages(buf)) = 0
        /\ owned.map - Cardinality(Maps(buf)) = 0
    BY <2>2, <2>3, <1>5
  <2>5. QED
    BY <2>1, <2>4
<1>7. BookType'
  <2>1. desc' \in [Slot -> {Free} \cup Piece]
    BY <1>1
  <2>2. QED
    BY <2>1, <1>1, <1>2, <1>3, <1>6 DEF Books, BookType
<1>8. Stocked'
  <2>1. \A j \in Slot : ~(Dist(0, j) < Dist(0, 0))
    <3>1. \A j \in Slot : Dist(0, j) \in 0 .. Count - 1
      BY <1>2, DistFacts
    <3>2. Dist(0, 0) = 0
      BY <1>2, DistFacts
    <3>3. QED
      BY <3>1, <3>2, CountFact
  <2>2. QED
    BY <2>1, <1>1, <1>3 DEF Stocked, Pos, Empty
<1>9. Balanced'
  <2>1. Skbs(buf') = {} /\ Pages(buf') = {} /\ Maps(buf') = {}
    BY <1>1 DEF Skbs, Pages, Maps, Empty
  <2>2. Cardinality({}) = 0
    BY FS_EmptySet
  <2>3. QED
    BY <2>1, <2>2, <1>1, <1>6 DEF Balanced, Has
<1>10. QED
  BY <1>7, <1>8, <1>9 DEF Books

(* Every step keeps the books.                                               *)
LEMMA BooksNext == HandOver /\ RingInv /\ RingInv' /\ Books /\ [Next]_vars => Books'
<1> SUFFICES ASSUME HandOver, RingInv, RingInv', Books, [Next]_vars
             PROVE  Books'
  OBVIOUS
<1> DEFINE Quiet == UNCHANGED <<may, ringVars>>
           Resting == clean.pc \notin {"test", "refill"} => clean = [pc |-> clean.pc, i |-> 0, count |-> 0]
<1>1. /\ RingType /\ RingType' /\ Resting /\ (~Allocating => alloc = NoAlloc)
      /\ desc \in [Slot -> {Free} \cup Piece]
  BY DEF RingInv, Books, BookType
<1>2. CASE Receive
  <2>1. UNCHANGED <<may, buf, owned, top, clean, alloc, ntc, ntu, updown>>
    BY <1>2 DEF Receive
  <2>2. desc' \in [Slot -> {Free} \cup Piece]
    BY <1>1, <1>2 DEF Receive
  <2>3. Next2Clean' = Next2Clean /\ Limit' = Limit /\ Allocating' = Allocating
    <3>1. Allocating' = Allocating
      BY <1>2 DEF Receive, Allocating
    <3>2. QED
      BY <2>1, <3>1 DEF Next2Clean, Limit
  <2>4. QED
    BY <2>1, <2>2, <2>3, <1>1, BooksKept
<1>3. CASE Clean
  BY <1>1, <1>3, CleanBooks
<1>4. CASE StartClean
  <2>1. /\ UNCHANGED <<may, buf, owned, top, desc, alloc, ntc, ntu, updown>>
        /\ clean' = [pc |-> "test", i |-> ntc, count |-> 0]
        /\ clean.pc = "idle" /\ updown # "fill"
    BY <1>4 DEF StartClean, PollStart, HandOver, HandOverType, OneOwner, Holding
  <2>2. Next2Clean' = Next2Clean /\ ~Allocating /\ ~Allocating' /\ Limit' = Limit
    BY <2>1 DEF Next2Clean, Allocating, Limit
  <2>3. QED
    BY <2>1, <2>2, <1>1, BooksKept
<1>5. ASSUME NEW again \in BOOLEAN, StoreNtc(again)
      PROVE  Books'
  <2>1. /\ UNCHANGED <<may, buf, owned, top, desc, ntu, updown>>
        /\ clean.pc = "test" /\ ntc' = clean.i /\ updown # "fill"
        /\ clean'.pc \in {"refill_again", "refill_done"}
        /\ clean' = [pc |-> clean'.pc, i |-> 0, count |-> 0]
        /\ alloc' = [i |-> ntu, left |-> Unused(ntu, clean.i)]
    BY <1>5 DEF StoreNtc, napiVars, HandOver, HandOverType, OneOwner, Holding
  <2>2. Next2Clean' = Next2Clean /\ ~Allocating /\ Allocating' /\ Limit' = Limit
    BY <2>1 DEF Next2Clean, Allocating, Limit
  <2>3. QED
    BY <2>1, <2>2, <1>1, BooksKept
<1>6. CASE FillSlot \/ FillFails
  BY <1>1, <1>6, FillSlotBooks, FillFailsBooks
<1>7. CASE Refilled \/ EndAgain \/ EndDone \/ Filled
  <2>1. /\ UNCHANGED <<may, buf, owned, top, desc, ntc>> /\ ntu' = alloc.i /\ alloc' = NoAlloc
        /\ Allocating
    BY <1>7 DEF Refilled, EndAgain, EndDone, Filled, Publish, Allocating
  <2>2. ~Allocating' /\ Next2Clean' = Next2Clean
        /\ (clean'.pc \notin {"test", "refill"} => clean' = [pc |-> clean'.pc, i |-> 0, count |-> 0])
    <3>1. CASE Refilled
      <4>1. clean.pc = "refill" /\ clean' = [clean EXCEPT !.pc = "test"] /\ updown' = updown
            /\ updown # "fill"
        BY <3>1 DEF Refilled, napiVars, HandOver, HandOverType, OneOwner, Holding
      <4>2. clean'.pc = "test" /\ clean'.i = clean.i
        BY <4>1, <1>1 DEF RingType
      <4>3. QED
        BY <4>1, <4>2 DEF Allocating, Next2Clean
    <3>2. CASE EndAgain \/ EndDone
      <4>1. /\ clean.pc \in {"refill_again", "refill_done"} /\ updown' = updown
            /\ clean' = [pc |-> "idle", i |-> 0, count |-> 0] /\ updown # "fill"
        BY <3>2 DEF EndAgain, EndDone, PollAgain, PollComplete, NoClean, HandOver, HandOverType,
                    OneOwner, Holding
      <4>2. QED
        BY <4>1, <2>1 DEF Allocating, Next2Clean
    <3>3. CASE Filled
      <4>1. clean' = clean /\ clean.pc = "idle" /\ updown' = "napi_enable"
        BY <3>3 DEF Filled, HandOver, HandOverType, OneOwner, Holding
      <4>2. QED
        BY <4>1, <2>1, <1>1 DEF Allocating, Next2Clean
    <3>4. QED
      BY <3>1, <3>2, <3>3, <1>7
  <2>3. Limit' = Limit
    BY <2>1, <2>2 DEF Limit
  <2>4. QED
    BY <2>1, <2>2, <2>3, <1>1, BooksKept
<1>8. CASE CleanRing
  BY <1>8, CleanRingBooks
<1>9. CASE FillRing
  <2>1. /\ UNCHANGED <<may, buf, owned, top, desc, clean, ntu, ntc>>
        /\ clean.pc = "idle" /\ updown = "configure" /\ updown' = "fill"
        /\ alloc' = [i |-> ntu, left |-> Unused(ntu, ntc)]
    BY <1>9 DEF FillRing, HandOver, HandOverType, OneOwner, Holding
  <2>2. Next2Clean' = Next2Clean /\ ~Allocating /\ Allocating' /\ Limit' = Limit
    BY <2>1 DEF Next2Clean, Allocating, Limit
  <2>3. QED
    BY <2>1, <2>2, <1>1, BooksKept
<1>10. ASSUME Quiet, updown' # updown => {updown, updown'} \cap {"configure", "fill"} = {}
       PROVE  Books'
  <2>1. UNCHANGED <<may, buf, owned, top, desc, clean, alloc, ntu, ntc>>
    BY <1>10 DEF ringVars
  <2>2. updown' = "fill" <=> updown = "fill"
    BY <1>10
  <2>3. Allocating' = Allocating
    BY <2>1, <2>2 DEF Allocating
  <2>4. Next2Clean' = Next2Clean /\ Limit' = Limit
    BY <2>1, <2>3 DEF Next2Clean, Limit
  <2>5. QED
    BY <2>1, <2>3, <2>4, <1>1, BooksKept
<1>11. CASE Watchdog \/ (Interrupt /\ Quiet) \/ ((TestDown \/ PollUnmask) /\ Quiet) \/ UNCHANGED vars
  <2>1. Quiet /\ updown' = updown
    BY <1>11 DEF Watchdog, Interrupt, ReadIcr, Mask, SchedulePoll, IntrUnmask, TestDown, PollUnmask,
                 vars, napiVars
  <2>2. QED
    BY <2>1, <1>10
<1>12. CASE (\/ Down \/ NapiDisable \/ IrqDisable \/ Synchronize \/ SetDown \/ NapiEnable \/ IrqEnable
             \/ FireLsc) /\ Quiet
  <2>1. {updown, updown'} \cap {"configure", "fill"} = {}
    BY <1>12 DEF Down, NapiDisable, IrqDisable, Synchronize, SetDown, NapiEnable, IrqEnable, FireLsc,
                 UpDownStep
  <2>2. QED
    BY <2>1, <1>10, <1>12
<1>13. QED
  BY <1>2, <1>3, <1>4, <1>5, <1>6, <1>7, <1>8, <1>9, <1>11, <1>12 DEF Next, Poll, UpDown

(* The counters of the clean-up and of a refill stay within the ring, which  *)
(* completes the types.                                                      *)
LEMMA BooksTypes == HandOver /\ RingInv /\ Books => TypeOK
<1> SUFFICES ASSUME HandOver, RingInv, Books
             PROVE  TypeOK
  OBVIOUS
<1> USE DEF RingInv
<1>1. /\ Next2Clean \in Slot /\ ntu \in Slot /\ alloc.i \in Slot /\ 0 \in Slot
      /\ clean.count \in Nat /\ alloc.left \in Nat
  BY PosFacts, CountFact DEF RingType, Slot
<1>2. Dist(Next2Clean, ntu) \in 0 .. Count - 1 /\ Dist(Next2Clean, alloc.i) \in 0 .. Count - 1
  BY <1>1, DistFacts
<1>3. clean.count \in 0 .. Count
  <2>1. CASE clean.pc = "test"
    <3>1. clean.count + Dist(Next2Clean, ntu) <= Count - 1
      BY <2>1 DEF Refill, Pos
    <3>2. QED
      BY <3>1, <1>1, <1>2, CountFact
  <2>2. CASE clean.pc = "refill"
    BY <2>2, CountFact DEF Refill
  <2>3. CASE clean.pc \notin {"test", "refill"}
    <3>1. clean = [pc |-> clean.pc, i |-> 0, count |-> 0]
      BY <2>3 DEF Books, BookType
    <3>2. clean.count = 0
      BY <3>1
    <3>3. QED
      BY <3>2, CountFact
  <2>4. QED
    BY <2>1, <2>2, <2>3
<1>4. alloc.left \in 0 .. Count
  <2>1. CASE Allocating
    <3>1. Dist(Next2Clean, alloc.i) + alloc.left <= Count - 1
      BY <2>1 DEF Refill, Pos
    <3>2. QED
      BY <3>1, <1>1, <1>2, CountFact
  <2>2. CASE ~Allocating
    BY <2>2, CountFact DEF Books, BookType, NoAlloc
  <2>3. QED
    BY <2>1, <2>2
<1>5. clean \in [pc : {"idle", "test", "refill", "refill_again", "refill_done"}, i : Slot,
                 count : 0..Count]
  BY <1>3 DEF RingType
<1>6. alloc \in [i : Slot, left : 0..Count]
  BY <1>4 DEF RingType
<1>7. /\ icr \in BOOLEAN /\ ims \in BOOLEAN /\ down \in BOOLEAN /\ late \in BOOLEAN
      /\ sched \in {"none", "poll", "disable"}
      /\ intr \in {"idle", "mask", "schedule", "unmask"}
      /\ poll \in {"idle", "due", "running"} /\ ending \in {"none", "test", "unmask"}
      /\ updown \in {"up", "napi_disable", "irq_disable", "synchronize", "stop", "reset",
                     "configure", "fill", "napi_enable", "irq_enable", "fire"}
  BY DEF HandOver, HandOverType, Holding, RingType
<1>8. /\ ntu \in Slot /\ ntc \in Slot /\ rdh \in Slot /\ rdt \in Slot
      /\ buf \in [Slot -> [skb : BOOLEAN, page : BOOLEAN, dma : BOOLEAN]]
      /\ inFrame \in BOOLEAN /\ discarding \in BOOLEAN /\ top \in {"none", "chain"}
  BY DEF RingType
<1>9. /\ may \in Cases /\ desc \in [Slot -> {Free} \cup Piece]
      /\ owned \in [skb : Int, page : Int, map : Int]
  BY DEF Books, BookType
<1>10. wrong \subseteq {"unmapped", "good_frame_tossed", "fragment_passed_up", "emptied_under_poll"}
  BY DEF FramesDelivered
<1>11. QED
  BY <1>5, <1>6, <1>7, <1>8, <1>9, <1>10 DEF TypeOK

(* What alloc_rx_buf takes, the clean-ups pass up or unmap and e1000_down    *)
(* frees is balanced: every skb, page and mapping that is out is in a slot   *)
(* or in the chain, after any failure of an allocation or a mapping, with a  *)
(* ring and refills of any size.                                             *)
THEOREM NothingLeaks == Spec => []NoRxLeak
<1>1. Init => IInv /\ Books
  <2>1. Init => LookedAfter
    BY DEF Init, NoClean, LookedAfter, Next2Clean
  <2>2. QED
    BY <2>1, HandOverInit, RingInit, BooksInit DEF IInv
<1>2. IInv /\ Books /\ [Next]_vars => (IInv /\ Books)'
  BY HandOverNext, RingInvNext, LookedAfterNext, BooksNext DEF IInv
<1>3. IInv /\ Books => NoRxLeak
  <2> SUFFICES ASSUME IInv, Books
               PROVE  NoRxLeak
    OBVIOUS
  <2>1. TypeOK
    BY BooksTypes DEF IInv
  <2>2. QED
    BY <2>1 DEF NoRxLeak, Books, Balanced, Skbs, Pages, Maps
<1>4. QED
  BY <1>1, <1>2, <1>3, PTL DEF Spec

=============================================================================
