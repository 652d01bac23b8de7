------------------------------ MODULE E1000Phy ------------------------------
(***************************************************************************)
(* The PHY registers of an e1000 controller as the driver reads and writes  *)
(* them: through the MDIC register of the controller, which takes a command *)
(* and then is polled (82541, 82547), or bit by bit through two pins        *)
(* (82543).  The IGP PHY of the former has pages of registers:              *)
(* e1000_read_phy_reg and e1000_write_phy_reg select the page first, if the *)
(* register is not the same on all pages and the PHY is known to be an IGP. *)
(* No lock covers the two steps: the watchdog holds the mutex of the        *)
(* adapter, ethtool holds RTNL, and only some accesses hold stats_lock.     *)
(*                                                                         *)
(* What the driver does with the PHY is here a sequence of such accesses,   *)
(* by the watchdog or by ethtool; it begins with the reset of the probe.    *)
(***************************************************************************)
EXTENDS Integers, Sequences, FiniteSets

CONSTANTS
  Errors,   (* bound on the accesses that time out or report an error       *)
  Cases     (* sets of: "bits", the PHY is reached bit by bit; "errors";    *)
            (* "two_threads", the watchdog and ethtool at once              *)

ASSUME PhyAssumption ==
  Errors \in Nat /\ Cases \subseteq SUBSET {"bits", "errors", "two_threads"}

Thread == {"watchdog", "ethtool"}
None == "none"

VARIABLES
  may,      (* the case at hand                                             *)
  page,     (* the PHY: the page selected, ...                              *)
  tx,       (* ... and register 0x2F5B: is the transmitter "on" or "off"?   *)
  mdic,     (* the MDI control register: the command, is it ready, the data *)
  job,      (* what each thread is doing                                    *)
  todo,     (* the accesses that it has still to make                       *)
  at,       (* where the first of them stands                               *)
  saved,    (* phy_saved_data of each thread                                *)
  lock,     (* who holds adapter->stats_lock                                *)
  id,       (* hw->phy_id: None, "high" (only PHY_ID1 read) or "whole"      *)
  type,     (* hw->phy_type: zero is m88                                    *)
  found,    (* did e1000_detect_gig_phy succeed?                            *)
  dsp,      (* hw->dsp_config_state, for a cable of more than 50 m          *)
  errors,   (* errors so far                                                *)
  overlap,  (* has an access begun in the middle of another thread's, and   *)
            (* one of the two without stats_lock?                           *)
  wrong     (* has an access reached another register than was asked for,   *)
            (* the type of the PHY being known?                             *)

hwVars == <<id, type, found>>
history == <<overlap, wrong>>
vars == <<may, page, tx, mdic, job, todo, at, saved, lock, hwVars, dsp, errors, history>>

-----------------------------------------------------------------------------
(* A register has a number of five bits, and a page unless it is "low", the  *)
(* same on all pages.                                                        *)
Low(n)      == [page |-> None, n |-> n]
High(p, n)  == [page |-> p, n |-> n]
Transmitter == High("2F40", "1B")
Agc         == High("1160", "12")
PortStatus  == High("0", "11")
Select      == High("0", "1F")

Chip        == IF "bits" \in may THEN "m88" ELSE "igp"
Act(o, r, v) == [op |-> o, reg |-> r, val |-> v]
Read(r)     == Act("read", r, None)
Write(r, v) == Act("write", r, v)
Reset       == Act("reset", None, None)
SetDsp(v)   == Act("set_dsp", None, v)

(* The registers that the driver reads and writes, in order, and what it     *)
(* writes; SetDsp and Reset are steps between accesses, the second one a     *)
(* reset of the whole PHY.  Of registers that are accessed one after the     *)
(* other in the same page, the first.                                        *)
Silenced(accesses) ==
  <<Read(Transmitter), Write(Transmitter, "off"), Write(Low("control"), "force")>>
    \o accesses \o <<Write(Low("control"), "restart"), Write(Transmitter, "saved")>>

InitScript == Silenced(<<Write(Agc, "script")>>)

Detection == <<Read(Low("id1")), Read(Low("id2"))>>

PhyReset == IF Chip = "igp" THEN <<Reset>> \o InitScript
            ELSE <<Read(Low("control")), Write(Low("control"), "reset")>>

Driver == IF Chip = "igp" THEN InitScript \o Detection \o PhyReset
          ELSE <<Reset>> \o Detection \o PhyReset

LostLinkDsp == Silenced(<<Read(Agc), Write(Agc, "agc")>>) \o <<SetDsp("enabled")>>

LinkUpDsp == <<Read(PortStatus), Read(Agc), Write(Agc, "agc"), SetDsp("activated")>>

Link ==
  LET status == <<Read(Low("status")), Read(Low("status"))>>
      lost   == IF type = "igp" /\ dsp = "activated" THEN LostLinkDsp ELSE <<>>
      up     == IF type = "igp" /\ dsp = "enabled" THEN LinkUpDsp ELSE <<>>
  IN {status, status \o lost, status \o <<Read(PortStatus)>> \o up}

Info == <<Read(Low("status")), Read(Low("status")), Read(PortStatus)>>

Dump == IF type = "igp" THEN <<Write(Select, Agc.page), Read(High("0", Agc.n)), Write(Select, "0")>>
        ELSE <<Read(PortStatus)>>

Stats == <<Read(Low("1000T_status"))>>
MiiIoctl == {<<Read(Low("control"))>>, <<Write(Low("control"), "value")>>}

Accesses(j) ==
  CASE j = "link"  -> Link
    [] j = "ioctl" -> MiiIoctl
    [] j = "info"  -> {Info}
    [] j = "dump"  -> {Dump}
    [] j = "stats" -> {Stats}
    [] j = "reset" -> {Driver}

(* Which of them each thread does, under stats_lock, and without regard to   *)
(* errors: the dump of the registers and the script.                         *)
JobsOf(t) == IF t = "watchdog" THEN {"link", "info", "stats"}
             ELSE {"link", "ioctl", "dump", "reset"}
Locked == {"stats", "ioctl"}
Ignores(t) ==
  \/ job[t] = "dump"
  \/ job[t] = "reset" /\ Chip = "igp" /\ Head(todo[t]) \notin {Detection[1], Detection[2]}

-----------------------------------------------------------------------------
(* The controller and the PHY, external.  A command that is written before   *)
(* the last is ready takes its place.                                        *)
Idle == [op |-> None, n |-> None, val |-> None, ready |-> TRUE, got |-> None]

RegisterAt(c) == IF c.n = "1F" THEN Select
                 ELSE IF c.n \in {"1B", "12", "11"} THEN High(page, c.n) ELSE Low(c.n)

Complete ==
  /\ ~mdic.ready
  /\ LET r == RegisterAt(mdic)
         v == IF r = Transmitter THEN tx ELSE "other"
     IN /\ mdic' = [mdic EXCEPT !.ready = TRUE, !.got = [reg |-> r, op |-> mdic.op, val |-> v]]
        /\ page' = IF mdic.op = "write" /\ r = Select THEN mdic.val ELSE page
        /\ tx' = IF mdic.op = "write" /\ r = Transmitter THEN mdic.val ELSE tx
  /\ UNCHANGED <<may, job, todo, at, saved, lock, hwVars, dsp, errors, history>>

-----------------------------------------------------------------------------
(* A thread begins.  (While the driver resets the PHY, the watchdog does     *)
(* nothing.  Bound: nothing begins after an overlap, which leaves nothing to *)
(* say of what follows.)                                                     *)
Starts(t, j) ==
  /\ job[t] = None /\ ~overlap
  /\ "two_threads" \in may \/ \A u \in Thread : job[u] = None
  /\ \A u \in Thread \ {t} : job[u] # "reset" /\ (j = "reset" => job[u] = None)
  /\ job' = [job EXCEPT ![t] = j]
  /\ \E as \in Accesses(j) : todo' = [todo EXCEPT ![t] = as]
  /\ at' = [at EXCEPT ![t] = "begin"]
  /\ UNCHANGED <<may, page, tx, mdic, saved, hwVars, dsp, errors, history>>

Start(t) ==
  \E j \in JobsOf(t) :
    /\ Starts(t, j)
    /\ j \in Locked => lock = None
    /\ lock' = IF j \in Locked THEN t ELSE lock

(* What is not an access: the reset of an IGP PHY that is known for one or   *)
(* of the 82543's, and the state of the DSP.                                 *)
Between(t) ==
  /\ at[t] = "begin" /\ todo[t] # <<>> /\ Head(todo[t]).op \in {"reset", "set_dsp"}
  /\ IF Head(todo[t]) = Reset /\ type = Chip
       THEN page' = "0" /\ tx' = "on" /\ mdic' = Idle
       ELSE UNCHANGED <<page, tx, mdic>>
  /\ dsp' = IF Head(todo[t]) = Reset THEN dsp ELSE Head(todo[t]).val
  /\ todo' = [todo EXCEPT ![t] = Tail(@)]
  /\ UNCHANGED <<may, job, at, saved, lock, hwVars, errors, history>>

(* e1000_read_phy_reg and e1000_write_phy_reg: is a page to be selected?     *)
(* (e1000_detect_gig_phy reads nothing when there is a phy_id.)              *)
BeginNoPage(t) ==
  /\ at[t] = "begin" /\ todo[t] # <<>> /\ Head(todo[t]).op \in {"read", "write"}
  /\ Head(todo[t]) = Detection[1] => id = None
  /\ at' = [at EXCEPT ![t] = "command"]
  /\ UNCHANGED <<may, page, tx, mdic, job, todo, saved, lock, hwVars, dsp, errors, history>>
Begin(t) ==
  /\ at[t] = "begin" /\ todo[t] # <<>> /\ Head(todo[t]).op \in {"read", "write"}
  /\ Head(todo[t]) = Detection[1] => id = None
  /\ at' = [at EXCEPT ![t] = IF type = "igp" /\ Head(todo[t]).reg.page # None
                             THEN "select" ELSE "command"]
  /\ UNCHANGED <<may, page, tx, mdic, job, todo, saved, lock, hwVars, dsp, errors, history>>

(* e1000_read_phy_reg_ex and e1000_write_phy_reg_ex: the command, ...        *)
Issue(t, o, n, v, next) ==
  /\ mdic' = [op |-> o, n |-> n, val |-> v, ready |-> FALSE, got |-> None]
  /\ at' = [at EXCEPT ![t] = next]
  /\ overlap' = (overlap \/ \E u \in Thread \ {t} : at[u] \notin {None, "begin"}
                                                   /\ {job[t], job[u]} \ Locked # {})
  /\ UNCHANGED <<may, page, tx, job, todo, saved, lock, hwVars, dsp, errors, wrong>>

SelectPage(t) ==
  at[t] = "select" /\ Issue(t, "write", Select.n, Head(todo[t]).reg.page, "selecting")

Access(t) ==
  /\ at[t] = "command"
  /\ LET a == Head(todo[t]) IN
       Issue(t, a.op, a.reg.n, IF a.val = "saved" THEN saved[t] ELSE a.val, "accessing")

(* ... and polls until it is ready.                                          *)
Selected(t) ==
  /\ at[t] = "selecting" /\ mdic.ready
  /\ at' = [at EXCEPT ![t] = "command"]
  /\ UNCHANGED <<may, page, tx, mdic, job, todo, saved, lock, hwVars, dsp, errors, history>>

(* Has the access reached the register?                                      *)
Reached(a) ==
  wrong' = (wrong \/ (type = Chip /\ (mdic.got.reg # a.reg \/ mdic.got.op # a.op)))

(* e1000_detect_gig_phy, which keeps what it reads in phy_id.                *)
DetectedEarly(a) ==
  IF a = Detection[1] THEN id' = "high" /\ found' = TRUE /\ UNCHANGED type
  ELSE IF a = Detection[2] /\ id = "high" THEN id' = "whole" /\ type' = Chip /\ found' = TRUE
  ELSE UNCHANGED hwVars
Detected(a) ==
  IF a = Detection[1] THEN id' = "high" /\ UNCHANGED <<type, found>>
  ELSE IF a = Detection[2] /\ id = "high" THEN id' = "whole" /\ type' = Chip /\ found' = TRUE
  ELSE UNCHANGED hwVars

DoneSavesAll(t) ==
  /\ at[t] = "accessing" /\ mdic.ready
  /\ Reached(Head(todo[t])) /\ Detected(Head(todo[t]))
  /\ saved' = [saved EXCEPT ![t] = mdic.got.val]
  /\ todo' = [todo EXCEPT ![t] = Tail(@)]
  /\ at' = [at EXCEPT ![t] = "begin"]
  /\ UNCHANGED <<may, page, tx, mdic, job, lock, dsp, errors, overlap>>
Done(t) ==
  /\ at[t] = "accessing" /\ mdic.ready
  /\ Reached(Head(todo[t])) /\ Detected(Head(todo[t]))
  /\ saved' = IF Head(todo[t]) = Read(Transmitter) THEN [saved EXCEPT ![t] = mdic.got.val]
              ELSE saved
  /\ todo' = [todo EXCEPT ![t] = Tail(@)]
  /\ at' = [at EXCEPT ![t] = "begin"]
  /\ UNCHANGED <<may, page, tx, mdic, job, lock, dsp, errors, overlap>>

(* A time-out, or the error bit; a job that ends because of it leaves undone *)
(* what comes after, and the script restores what it has not read.           *)
Fails(t) ==
  /\ "errors" \in may /\ Chip = "igp" /\ errors < Errors
  /\ at[t] \in {"selecting", "accessing"}
  /\ errors' = errors + 1
  /\ todo' = [todo EXCEPT ![t] = IF Ignores(t) THEN Tail(@) ELSE <<>>]
  /\ at' = [at EXCEPT ![t] = "begin"]
  /\ saved' = IF Head(todo[t]) = Read(Transmitter) THEN [saved EXCEPT ![t] = "junk"] ELSE saved
  /\ UNCHANGED <<may, page, tx, mdic, job, lock, hwVars, dsp, history>>

SkipDetect(t) ==
  /\ at[t] = "begin" /\ todo[t] # <<>> /\ Head(todo[t]) = Detection[1] /\ id # None
  /\ todo' = [todo EXCEPT ![t] = Tail(Tail(@))]
  /\ found' = TRUE
  /\ UNCHANGED <<may, page, tx, mdic, job, at, saved, lock, id, type, dsp, errors, history>>

End(t) ==
  /\ at[t] = "begin" /\ todo[t] = <<>>
  /\ job' = [job EXCEPT ![t] = None] /\ at' = [at EXCEPT ![t] = None]
  /\ lock' = IF lock = t THEN None ELSE lock
  /\ saved' = [saved EXCEPT ![t] = None]
  /\ UNCHANGED <<may, page, tx, mdic, todo, hwVars, dsp, errors, history>>

-----------------------------------------------------------------------------
Init ==
  /\ may \in Cases
  /\ page = "0" /\ tx = "on" /\ mdic = Idle
  /\ job = [t \in Thread |-> IF t = "ethtool" THEN "reset" ELSE None]
  /\ todo = [t \in Thread |-> IF t = "ethtool" THEN Driver ELSE <<>>]
  /\ at = [t \in Thread |-> IF t = "ethtool" THEN "begin" ELSE None]
  /\ saved = [t \in Thread |-> None]
  /\ lock = None /\ id = None /\ type = "m88" /\ found = FALSE /\ dsp = "enabled"
  /\ errors = 0 /\ overlap = FALSE /\ wrong = FALSE

Step(t) ==
  \/ Between(t) \/ Begin(t) \/ SelectPage(t) \/ Access(t) \/ Selected(t)
  \/ Done(t) \/ SkipDetect(t) \/ End(t)

Next ==
  \/ Complete
  \/ \E t \in Thread : Start(t) \/ Step(t) \/ Fails(t)

Spec == Init /\ [][Next]_vars

-----------------------------------------------------------------------------
TypeOK ==
  /\ may \in Cases
  /\ page \in {"0", "1160", "2F40"} /\ tx \in {"on", "off", "junk", "other"}
  /\ mdic.ready \in BOOLEAN /\ mdic.op \in {None, "read", "write"}
  /\ job \in [Thread -> {None, "link", "info", "stats", "ioctl", "dump", "reset"}]
  /\ \A t \in Thread : Len(todo[t]) <= Len(Driver) /\ (job[t] = None => todo[t] = <<>>)
  /\ at \in [Thread -> {None, "begin", "select", "selecting", "command", "accessing"}]
  /\ saved \in [Thread -> {None, "on", "off", "junk", "other"}]
  /\ lock \in Thread \cup {None}
  /\ id \in {None, "high", "whole"} /\ type \in {"m88", "igp"} /\ found \in BOOLEAN
  /\ dsp \in {"enabled", "activated"}
  /\ errors \in 0..Errors /\ overlap \in BOOLEAN /\ wrong \in BOOLEAN

(* Once the type of the PHY is known, every access reaches the register that *)
(* was asked for, whatever page the accesses before it have left selected,   *)
(* and also after one that timed out and may be carried out late; unless the *)
(* accesses of two threads overlap, which a lock prevents only between the   *)
(* statistics and the ioctl.                                                 *)
RightRegister == ~overlap => ~wrong

(* phy_saved_data: the transmitter that a job switches off is on again at    *)
(* its end, when no access fails; unless two threads do this, and the second *)
(* saves what the first has written.                                         *)
TransmitterOn ==
  "two_threads" \notin may /\ errors = 0 /\ (\A t \in Thread : job[t] = None) => tx = "on"

(* The type of the PHY is known once it was detected, if no access fails;    *)
(* after a failed read of PHY_ID2 the next attempt does not read it again.   *)
TypeKnown ==
  /\ TypeOK
  /\ found /\ errors = 0 => id = "whole" /\ type = Chip

=============================================================================
