---------------------------- MODULE E1000RxRing ----------------------------
(***************************************************************************)
(* The receive ring of the e1000 driver, with its interrupts and polls      *)
(* (E1000Napi).  The driver gives the controller empty buffers up to the    *)
(* tail register; the controller fills them, a frame in one buffer or in    *)
(* several, and sets DD; the poll passes frames up, keeps what it can of    *)
(* the buffers and fills the slots again.  Two modes: with the standard     *)
(* MTU a frame must fit one buffer (e1000_clean_rx_irq), with a larger one  *)
(* it may be a chain of pages (e1000_clean_jumbo_rx_irq).                   *)
(*                                                                         *)
(* The case at hand says which mode, whether memory may be short            *)
(* ("no_memory"), whether the interface goes "down" and up, and whether it  *)
(* is an 82543 with its TBI workaround on ("tbi").                          *)
(***************************************************************************)
EXTENDS E1000Napi

CONSTANTS
  Count,     (* rx_ring->count                                              *)
  Write,     (* E1000_RX_BUFFER_WRITE: how many to refill at once           *)
  Cases

Slot == 0..(Count - 1)

ASSUME RxAssumption ==
  /\ Count \in Nat /\ Count > 2 /\ Write \in 1..(Count - 1)
  /\ Cases \subseteq SUBSET {"jumbo", "no_memory", "down", "tbi"}

VARIABLES
  may,         (* the case at hand                                          *)
  ntu, ntc,    (* next_to_use, next_to_clean                                *)
  buf,         (* buffer_info: has it an skb, a page, a mapping?            *)
  desc,        (* what the controller wrote back (done is DD), or Free      *)
  rdh, rdt,    (* head and tail; the slot at the tail is not used           *)
  inFrame,     (* is the controller in the middle of a frame?               *)
  top,         (* rx_skb_top: "none", "chain", or "broken" if it is not the *)
               (* beginning of one frame                                    *)
  discarding,  (* adapter->discarding                                       *)
  clean,       (* the poll: pc, i, count (cleaned_count)                    *)
  alloc,       (* alloc_rx_buf: i, left                                     *)
  owned,       (* skbs, pages and mappings that are taken and not returned  *)
  wrong        (* what was passed up, or dropped, that should not be        *)

ringVars == <<ntu, ntc, buf, desc, rdh, rdt, inFrame, top, discarding, clean, alloc, owned, wrong>>
vars == <<may, napiVars, ringVars>>

Jumbo == "jumbo" \in may

Piece == [done : {TRUE}, first : BOOLEAN, eop : BOOLEAN, err : BOOLEAN]
Free  == [done |-> FALSE, first |-> FALSE, eop |-> FALSE, err |-> FALSE]
Empty == [skb |-> FALSE, page |-> FALSE, dma |-> FALSE]
NoClean == [pc |-> "idle", i |-> 0, count |-> 0]
NoAlloc == [i |-> 0, left |-> 0]

Succ(i) == IF i + 1 = Count THEN 0 ELSE i + 1
Pred(i) == IF i = 0 THEN Count - 1 ELSE i - 1

(* E1000_DESC_UNUSED.                                                        *)
UnusedAll(use, cl) == (IF cl > use THEN 0 ELSE Count) + cl - use
Unused(use, cl)    == (IF cl > use THEN 0 ELSE Count) + cl - use - 1

Has(b) == IF b THEN 1 ELSE 0

-----------------------------------------------------------------------------
(* The controller fills a buffer, and latches the cause of an interrupt.  A  *)
(* frame with an error has it in its last piece.                             *)
Receive ==
  /\ rdh # rdt /\ updown \in {"up", "napi_disable", "napi_enable", "irq_enable", "fire"}
  /\ \E p \in Piece :
       /\ p.first = ~inFrame /\ (p.err => p.eop)
       /\ desc' = [desc EXCEPT ![rdh] = p]
       /\ inFrame' = ~p.eop
  /\ wrong' = IF buf[rdh].dma THEN wrong ELSE wrong \cup {"unmapped"}
  /\ rdh' = Succ(rdh)
  /\ icr' = TRUE
  /\ UNCHANGED <<may, ims, sched, intr, poll, ending, down, updown, late,
                 ntu, ntc, buf, rdt, top, discarding, clean, alloc, owned>>

(* The watchdog: "cause software interrupt to ensure rx ring is cleaned".    *)
WatchdogNot ==
  /\ updown = "up" /\ ~icr
  /\ UNCHANGED <<may, napiVars, ringVars>>
Watchdog ==
  /\ updown = "up" /\ ~icr
  /\ icr' = TRUE
  /\ UNCHANGED <<may, ims, sched, intr, poll, ending, down, updown, late, ringVars>>

-----------------------------------------------------------------------------
(* A poll begins at next_to_clean.                                           *)
StartClean ==
  /\ PollStart
  /\ clean' = [pc |-> "test", i |-> ntc, count |-> 0]
  /\ UNCHANGED <<may, ntu, ntc, buf, desc, rdh, rdt, inFrame, top, discarding, alloc, owned, wrong>>

(* Each buffer that was filled is unmapped first.                            *)
Unmapped(i) == [buf EXCEPT ![i].dma = FALSE]
Returned(skb, page) == [owned EXCEPT !.map = @ - 1, !.skb = @ - skb, !.page = @ - page]

(* What e1000_clean_rx_irq does with a piece: toss it, recycle it because of *)
(* an error, pass it up in its own buffer, or (copybreak) in a copy.         *)
TossShort(i, p) ==
  /\ ~p.eop
  /\ discarding' = FALSE
  /\ buf' = Unmapped(i) /\ owned' = Returned(0, 0)
  /\ UNCHANGED <<top, wrong>>
Toss(i, p) ==
  /\ discarding \/ ~p.eop
  /\ discarding' = ~p.eop
  /\ buf' = Unmapped(i) /\ owned' = Returned(0, 0)
  /\ wrong' = IF p.first /\ p.eop /\ ~p.err THEN wrong \cup {"good_frame_tossed"} ELSE wrong
  /\ UNCHANGED top

RecycleError(i, p) ==
  /\ ~discarding /\ p.eop /\ p.err
  /\ buf' = Unmapped(i) /\ owned' = Returned(0, 0)
  /\ UNCHANGED <<wrong, discarding, top>>

PassUp(i, p) ==
  /\ ~discarding /\ p.eop /\ (p.err => "tbi" \in may)
  /\ \/ buf' = [Unmapped(i) EXCEPT ![i].skb = FALSE] /\ owned' = Returned(1, 0)
     \/ buf' = Unmapped(i) /\ owned' = Returned(0, 0)
  /\ wrong' = IF p.first THEN wrong ELSE wrong \cup {"fragment_passed_up"}
  /\ UNCHANGED <<discarding, top>>

CleanLegacy(i, p) == Toss(i, p) \/ RecycleError(i, p) \/ PassUp(i, p)

(* And e1000_clean_jumbo_rx_irq: drop the chain because of an error ...      *)
DropChain(i, p) ==
  /\ p.eop /\ p.err
  /\ buf' = Unmapped(i) /\ owned' = Returned(Has(top # "none"), 0)
  /\ top' = "none"
  /\ UNCHANGED <<wrong, discarding>>

(* ... begin or continue one, with the skb or only the page of the slot ...  *)
Chain(i, p) ==
  /\ ~p.eop
  /\ buf' = [Unmapped(i) EXCEPT ![i].page = FALSE, ![i].skb = top # "none"]
  /\ owned' = Returned(0, 1)
  /\ top' = IF p.first = (top = "none") THEN (IF p.first THEN "chain" ELSE top) ELSE "broken"
  /\ UNCHANGED <<wrong, discarding>>

(* ... or pass a chain or a single buffer up, the latter perhaps copied.     *)
PassUpChain(i, p) ==
  /\ p.eop /\ (p.err => "tbi" \in may)
  /\ \/ /\ top # "none"
        /\ buf' = [Unmapped(i) EXCEPT ![i].page = FALSE] /\ owned' = Returned(1, 1)
     \/ /\ top = "none"
        /\ buf' = [Unmapped(i) EXCEPT ![i].page = FALSE, ![i].skb = FALSE]
        /\ owned' = Returned(1, 1)
     \/ /\ top = "none"
        /\ buf' = [Unmapped(i) EXCEPT ![i].skb = FALSE] /\ owned' = Returned(1, 0)
  /\ wrong' = IF top = (IF p.first THEN "none" ELSE "chain") THEN wrong
              ELSE wrong \cup {"fragment_passed_up"}
  /\ top' = "none"
  /\ UNCHANGED discarding

CleanJumbo(i, p) == DropChain(i, p) \/ Chain(i, p) \/ PassUpChain(i, p)

(* One turn of the loop; after it the slots are refilled, if enough of them. *)
Clean ==
  /\ clean.pc = "test" /\ desc[clean.i].done
  /\ IF Jumbo THEN CleanJumbo(clean.i, desc[clean.i]) ELSE CleanLegacy(clean.i, desc[clean.i])
  /\ desc' = [desc EXCEPT ![clean.i] = Free]
  /\ IF clean.count + 1 >= Write
       THEN /\ clean' = [pc |-> "refill", i |-> Succ(clean.i), count |-> 0]
            /\ alloc' = [i |-> ntu, left |-> clean.count + 1]
       ELSE /\ clean' = [clean EXCEPT !.i = Succ(@), !.count = @ + 1]
            /\ UNCHANGED alloc
  /\ UNCHANGED <<may, napiVars, ntu, ntc, rdh, rdt, inFrame>>

(* The end of the loop, nothing left or the budget used: next_to_clean is    *)
(* stored, and every slot that can be is refilled.                           *)
StoreNtc(again) ==
  /\ clean.pc = "test"
  /\ IF again THEN clean.i # ntc ELSE ~desc[clean.i].done
  /\ ntc' = clean.i
  /\ clean' = [pc |-> IF again THEN "refill_again" ELSE "refill_done", i |-> 0, count |-> 0]
  /\ alloc' = [i |-> ntu, left |-> Unused(ntu, clean.i)]
  /\ UNCHANGED <<may, napiVars, ntu, buf, desc, rdh, rdt, inFrame, top, discarding, owned, wrong>>

-----------------------------------------------------------------------------
(* alloc_rx_buf: a slot gets what it lacks, an skb, in jumbo mode a page,    *)
(* and a mapping ...                                                         *)
Allocating == clean.pc \in {"refill", "refill_again", "refill_done"} \/ updown = "fill"

FillSlot ==
  /\ Allocating /\ alloc.left > 0
  /\ LET b == buf[alloc.i] IN
       owned' = [skb  |-> owned.skb + Has(~b.skb),
                 page |-> owned.page + Has(Jumbo /\ ~b.page),
                 map  |-> owned.map + Has(~Jumbo \/ ~b.dma)]
  /\ buf' = [buf EXCEPT ![alloc.i] = [skb |-> TRUE, page |-> Jumbo, dma |-> TRUE]]
  /\ alloc' = [i |-> Succ(alloc.i), left |-> alloc.left - 1]
  /\ UNCHANGED <<may, napiVars, ntu, ntc, desc, rdh, rdt, inFrame, top, discarding, clean, wrong>>

(* ... unless there is no memory: no skb; no page, and the skb stays; no     *)
(* mapping, and skb and page are freed.  Then the loop ends.                 *)
FillFails ==
  /\ "no_memory" \in may /\ Allocating /\ alloc.left > 0
  /\ LET b == buf[alloc.i] IN
       \/ ~b.skb /\ UNCHANGED <<buf, owned>>
       \/ /\ Jumbo /\ ~b.page
          /\ buf' = [buf EXCEPT ![alloc.i].skb = TRUE]
          /\ owned' = [owned EXCEPT !.skb = @ + Has(~b.skb)]
       \/ /\ ~Jumbo \/ ~b.dma
          /\ buf' = [buf EXCEPT ![alloc.i] = Empty]
          /\ owned' = [owned EXCEPT !.skb = @ - Has(b.skb), !.page = @ - Has(b.page)]
  /\ alloc' = [alloc EXCEPT !.left = 0]
  /\ UNCHANGED <<may, napiVars, ntu, ntc, desc, rdh, rdt, inFrame, top, discarding, clean, wrong>>

(* next_to_use, and the tail on the last slot filled.                        *)
Publish ==
  /\ ntu' = alloc.i
  /\ rdt' = IF ntu = alloc.i THEN rdt ELSE Pred(alloc.i)
  /\ alloc' = NoAlloc

Refilled ==
  /\ clean.pc = "refill" /\ alloc.left = 0
  /\ Publish
  /\ clean' = [clean EXCEPT !.pc = "test"]
  /\ UNCHANGED <<may, napiVars, ntc, buf, desc, rdh, inFrame, top, discarding, owned, wrong>>

EndAgain ==
  /\ clean.pc = "refill_again" /\ alloc.left = 0
  /\ Publish /\ PollAgain
  /\ clean' = NoClean
  /\ UNCHANGED <<may, ntc, buf, desc, rdh, inFrame, top, discarding, owned, wrong>>

EndDone ==
  /\ clean.pc = "refill_done" /\ alloc.left = 0
  /\ Publish /\ PollComplete
  /\ clean' = NoClean
  /\ UNCHANGED <<may, ntc, buf, desc, rdh, inFrame, top, discarding, owned, wrong>>

-----------------------------------------------------------------------------
(* e1000_down resets the controller and empties the ring; e1000_up fills it. *)
CleanRing ==
  /\ Reset
  /\ owned' = [skb  |-> owned.skb - Cardinality({i \in Slot : buf[i].skb}) - Has(top # "none"),
               page |-> owned.page - Cardinality({i \in Slot : buf[i].page}),
               map  |-> owned.map - Cardinality({i \in Slot : buf[i].dma})]
  /\ wrong' = IF clean.pc = "idle" THEN wrong ELSE wrong \cup {"emptied_under_poll"}
  /\ buf' = [i \in Slot |-> Empty] /\ desc' = [i \in Slot |-> Free]
  /\ ntu' = 0 /\ ntc' = 0 /\ rdh' = 0 /\ rdt' = 0
  /\ inFrame' = FALSE /\ top' = "none"
  /\ UNCHANGED <<may, discarding, clean, alloc>>

FillRing ==
  /\ updown = "configure" /\ updown' = "fill"
  /\ alloc' = [i |-> ntu, left |-> Unused(ntu, ntc)]
  /\ UNCHANGED <<may, icr, ims, sched, intr, poll, ending, down, late, ntu, ntc, buf, desc, rdh,
                 rdt, inFrame, top, discarding, clean, owned, wrong>>

Filled ==
  /\ updown = "fill" /\ alloc.left = 0
  /\ updown' = "napi_enable" /\ down' = FALSE
  /\ Publish
  /\ UNCHANGED <<may, icr, ims, sched, intr, poll, ending, late, ntc, buf, desc, rdh, inFrame, top,
                 discarding, clean, owned, wrong>>

-----------------------------------------------------------------------------
(* The interface is up, with a full ring.                                    *)
Init ==
  /\ may \in Cases
  /\ NapiInit
  /\ ntc = 0 /\ ntu = Count - 1 /\ rdh = 0 /\ rdt = Count - 2
  /\ buf = [i \in Slot |-> IF i = Count - 1 THEN Empty
                           ELSE [skb |-> TRUE, page |-> Jumbo, dma |-> TRUE]]
  /\ desc = [i \in Slot |-> Free]
  /\ inFrame = FALSE /\ top = "none" /\ discarding = FALSE
  /\ clean = NoClean /\ alloc = NoAlloc
  /\ owned = [skb |-> Count - 1, page |-> IF Jumbo THEN Count - 1 ELSE 0, map |-> Count - 1]
  /\ wrong = {}

Interrupt == ReadIcr \/ Mask \/ SchedulePoll \/ IntrUnmask

Poll ==
  \/ StartClean \/ Clean \/ StoreNtc(FALSE) \/ Refilled \/ EndAgain \/ EndDone
  \/ (TestDown \/ PollUnmask) /\ UNCHANGED <<may, ringVars>>

UpDown ==
  \/ /\ NapiDisable \/ IrqDisable \/ Synchronize \/ SetDown \/ NapiEnable \/ IrqEnable \/ FireLsc
     /\ UNCHANGED <<may, ringVars>>
  \/ CleanRing \/ FillRing \/ Filled

Next ==
  \/ Receive \/ Watchdog
  \/ Interrupt /\ UNCHANGED <<may, ringVars>>
  \/ Poll \/ StoreNtc(TRUE) \/ FillSlot \/ FillFails
  \/ "down" \in may /\ Down /\ UNCHANGED <<may, ringVars>>
  \/ UpDown

Spec == Init /\ [][Next]_vars

(* Handlers, polls and e1000_up are scheduled; the watchdog comes round; and *)
(* an allocation that is tried again and again succeeds again and again.     *)
Fairness ==
  /\ WF_vars(Interrupt /\ UNCHANGED <<may, ringVars>>) /\ WF_vars(Poll) /\ WF_vars(UpDown)
  /\ WF_vars(Watchdog) /\ SF_vars(FillSlot)

FairSpec == Spec /\ Fairness

-----------------------------------------------------------------------------
TypeOK ==
  /\ may \in Cases
  /\ icr \in BOOLEAN /\ ims \in BOOLEAN /\ down \in BOOLEAN /\ late \in BOOLEAN
  /\ sched \in {"none", "poll", "disable"}
  /\ intr \in {"idle", "mask", "schedule", "unmask"}
  /\ poll \in {"idle", "due", "running"} /\ ending \in {"none", "test", "unmask"}
  /\ updown \in {"up", "napi_disable", "irq_disable", "synchronize", "stop", "reset", "configure",
                 "fill", "napi_enable", "irq_enable", "fire"}
  /\ ntu \in Slot /\ ntc \in Slot /\ rdh \in Slot /\ rdt \in Slot
  /\ buf \in [Slot -> [skb : BOOLEAN, page : BOOLEAN, dma : BOOLEAN]]
  /\ desc \in [Slot -> {Free} \cup Piece]
  /\ inFrame \in BOOLEAN /\ discarding \in BOOLEAN /\ top \in {"none", "chain", "broken"}
  /\ clean \in [pc : {"idle", "test", "refill", "refill_again", "refill_done"}, i : Slot,
                count : 0..Count]
  /\ alloc \in [i : Slot, left : 0..Count]
  /\ owned \in [skb : Int, page : Int, map : Int]
  /\ wrong \subseteq {"unmapped", "good_frame_tossed", "fragment_passed_up", "emptied_under_poll"}

(* Only whole frames are passed up, whatever pieces come, also across polls, *)
(* refills and errors; the controller writes only to mapped buffers; and the *)
(* ring is not emptied while a poll works on it.  A frame that fits its      *)
(* buffer is passed up or has an error, unless the interface went down in    *)
(* the middle of another: discarding is not reset.                           *)
FramesDelivered ==
  wrong \subseteq IF "down" \in may THEN {"good_frame_tossed"} ELSE {}

(* What the driver has taken and not returned is in the ring or in the chain *)
(* that it builds, after any failed allocation or mapping: nothing leaks and *)
(* nothing is freed twice.                                                   *)
NoRxLeak ==
  /\ TypeOK
  /\ owned.skb = Cardinality({i \in Slot : buf[i].skb}) + Has(top # "none")
  /\ owned.page = Cardinality({i \in Slot : buf[i].page})
  /\ owned.map = Cardinality({i \in Slot : buf[i].dma})

(* A frame in the ring is not forgotten: with nobody at work, the interrupts *)
(* are unmasked, and the cause that came with the frame is latched.  (With   *)
(* interrupts unmasked late a handler can outlive e1000_down, schedule the   *)
(* poll in the middle of e1000_up, and the next one reads ICR for nothing.)  *)
NoLostReceive ==
  ~late /\ updown = "up" /\ intr = "idle" /\ poll = "idle" /\ ending = "none"
  => ims /\ ((\E i \in Slot : desc[i].done) => icr)

(* While the interface is down its interrupts are masked, unless the end of  *)
(* a poll or of a handler had tested DOWN before it was set.                 *)
MaskedWhenDown == Disabled /\ updown # "fire" /\ ims => late

(* A ring in which the controller has no buffer left is filled again.        *)
RxRecovers == rdh = rdt ~> rdh # rdt

=============================================================================
