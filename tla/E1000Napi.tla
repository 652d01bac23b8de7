----------------------------- MODULE E1000Napi -----------------------------
(***************************************************************************)
(* Interrupts and NAPI polls of the e1000 driver, and how e1000_down and    *)
(* e1000_up stop and start them.  The cause register ICR latches what the   *)
(* controller reports and clears when it is read; the mask IMS lets causes  *)
(* through.  e1000_intr masks the interrupts and schedules the poll;        *)
(* e1000_clean, once it finds nothing more to do, ends the poll and lets    *)
(* interrupts through again.  napi_disable takes the same bit SCHED that    *)
(* a scheduled poll holds.                                                  *)
(*                                                                         *)
(* What a poll does to the ring is E1000RxRing, which extends this module   *)
(* and says what the steps here do to it.  The interrupt line is not        *)
(* shared, and its handler does not run twice at once.                      *)
(***************************************************************************)
EXTENDS Integers, Sequences, FiniteSets

VARIABLES
  icr,      (* is a cause latched?                                          *)
  ims,      (* are the interrupts unmasked?                                 *)
  sched,    (* who holds NAPI_STATE_SCHED: "none", "poll" or "disable"      *)
  intr,     (* where e1000_intr stands                                      *)
  poll,     (* e1000_clean up to napi_complete: "idle", "due" or "running"  *)
  ending,   (* and from there on: "none", "test" or "unmask"                *)
  down,     (* __E1000_DOWN                                                 *)
  updown,   (* the next step of e1000_down or e1000_up, or "up"             *)
  late      (* has a handler or the end of a poll outlived e1000_down, and  *)
            (* unmasked the interrupts after e1000_irq_disable?             *)

napiVars == <<icr, ims, sched, intr, poll, ending, down, updown, late>>

NapiInit ==
  /\ icr = FALSE /\ ims = TRUE /\ sched = "none" /\ intr = "idle"
  /\ poll = "idle" /\ ending = "none"
  /\ down = FALSE /\ updown = "up" /\ late = FALSE

Disabled == updown \notin {"up", "napi_disable", "irq_disable"}

-----------------------------------------------------------------------------
(* e1000_intr: ICR is read, which clears it, and DOWN is tested.             *)
ReadIcr ==
  /\ intr = "idle" /\ icr /\ ims
  /\ icr' = FALSE
  /\ intr' = IF down THEN "idle" ELSE "mask"
  /\ UNCHANGED <<ims, sched, poll, ending, down, updown, late>>

Mask ==
  /\ intr = "mask"
  /\ ims' = FALSE
  /\ intr' = "schedule"
  /\ UNCHANGED <<icr, sched, poll, ending, down, updown, late>>

(* napi_schedule_prep, and its failure that "really should not happen".      *)
SchedulePoll ==
  /\ intr = "schedule"
  /\ IF sched = "none"
       THEN sched' = "poll" /\ poll' = "due" /\ intr' = "idle"
       ELSE intr' = (IF down THEN "idle" ELSE "unmask") /\ UNCHANGED <<sched, poll>>
  /\ UNCHANGED <<icr, ims, ending, down, updown, late>>

IntrUnmask ==
  /\ intr = "unmask"
  /\ ims' = TRUE /\ intr' = "idle"
  /\ late' = (late \/ Disabled)
  /\ UNCHANGED <<icr, sched, poll, ending, down, updown>>

-----------------------------------------------------------------------------
(* e1000_clean.  A poll that has used its budget is called again; one that   *)
(* has not calls napi_complete, and only then tests DOWN and unmasks.  The   *)
(* end of a poll is over before the next poll ends.                          *)
PollStart ==
  /\ poll = "due"
  /\ poll' = "running"
  /\ UNCHANGED <<icr, ims, sched, intr, ending, down, updown, late>>

PollAgain ==
  /\ poll = "running"
  /\ poll' = "due"
  /\ UNCHANGED <<icr, ims, sched, intr, ending, down, updown, late>>

PollComplete ==
  /\ poll = "running" /\ ending = "none"
  /\ poll' = "idle" /\ sched' = "none" /\ ending' = "test"
  /\ UNCHANGED <<icr, ims, intr, down, updown, late>>

TestDown ==
  /\ ending = "test"
  /\ ending' = IF down THEN "none" ELSE "unmask"
  /\ UNCHANGED <<icr, ims, sched, intr, poll, down, updown, late>>

PollUnmaskNot ==
  /\ ending = "unmask"
  /\ ending' = "none"
  /\ UNCHANGED <<icr, ims, sched, intr, poll, down, updown, late>>
PollUnmask ==
  /\ ending = "unmask"
  /\ ims' = TRUE /\ ending' = "none"
  /\ late' = (late \/ Disabled)
  /\ UNCHANGED <<icr, sched, intr, poll, down, updown>>

-----------------------------------------------------------------------------
(* e1000_down: napi_disable waits for SCHED and takes it; the interrupts are *)
(* masked and a handler waited for; DOWN is set; the device is reset, which  *)
(* masks and clears its interrupts, and the rings are emptied.               *)
UpDownStep(from, to) == updown = from /\ updown' = to

Down ==
  /\ UpDownStep("up", "napi_disable")
  /\ UNCHANGED <<icr, ims, sched, intr, poll, ending, down, late>>

NapiDisable ==
  /\ UpDownStep("napi_disable", "irq_disable")
  /\ sched = "none" /\ sched' = "disable"
  /\ UNCHANGED <<icr, ims, intr, poll, ending, down, late>>

IrqDisableNot ==
  /\ UpDownStep("irq_disable", "synchronize")
  /\ UNCHANGED <<icr, ims, sched, intr, poll, ending, down, late>>
IrqDisable ==
  /\ UpDownStep("irq_disable", "synchronize")
  /\ ims' = FALSE
  /\ UNCHANGED <<icr, sched, intr, poll, ending, down, late>>

Synchronize ==
  /\ UpDownStep("synchronize", "stop")
  /\ intr = "idle"
  /\ UNCHANGED <<icr, ims, sched, intr, poll, ending, down, late>>

SetDown ==
  /\ UpDownStep("stop", "reset")
  /\ down' = TRUE
  /\ UNCHANGED <<icr, ims, sched, intr, poll, ending, late>>

Reset ==
  /\ UpDownStep("reset", "configure")
  /\ ims' = FALSE /\ icr' = FALSE
  /\ UNCHANGED <<sched, intr, poll, ending, down, late>>

(* e1000_up, once the Rx ring is filled and DOWN cleared: napi_enable, the   *)
(* interrupts unmasked, and a link change interrupt fired.                   *)
NapiEnable ==
  /\ UpDownStep("napi_enable", "irq_enable")
  /\ sched' = "none"
  /\ late' = (late \/ ending # "none")
  /\ UNCHANGED <<icr, ims, intr, poll, ending, down>>

IrqEnable ==
  /\ UpDownStep("irq_enable", "fire")
  /\ ims' = TRUE
  /\ UNCHANGED <<icr, sched, intr, poll, ending, down, late>>

FireLsc ==
  /\ UpDownStep("fire", "up")
  /\ icr' = TRUE
  /\ UNCHANGED <<ims, sched, intr, poll, ending, down, late>>

=============================================================================
