----------------------------- MODULE E1000Link ------------------------------
(***************************************************************************)
(* The link of an e1000 adapter: how the driver learns that a cable was     *)
(* plugged in or pulled, what it tells the network stack (the carrier), and *)
(* what it programs into the MAC once the PHY has negotiated: speed and     *)
(* duplex where the MAC does not follow the PHY by itself, and flow control.*)
(* On fiber and serdes media there is no PHY; the MAC negotiates, and the   *)
(* driver forces the link up when the partner does not negotiate.           *)
(*                                                                         *)
(* Two threads check the link: the watchdog, under adapter->mutex, and      *)
(* ethtool's get_link, under RTNL.  The interrupt handler sets              *)
(* get_link_status, and a check clears it when it finds the link up, after  *)
(* reads of PHY registers that take hundreds of microseconds.               *)
(***************************************************************************)
EXTENDS Integers, FiniteSets

CONSTANTS
  Flaps,       (* bound on the times that the cable is plugged or pulled    *)
  Requests,    (* bound on the calls of ethtool, get_link's included        *)
  SmartMax,    (* E1000_SMARTSPEED_MAX                                      *)
  Downshift,   (* E1000_SMARTSPEED_DOWNSHIFT                                *)
  Cases        (* sets of: the media "copper", "serdes" or "fiber"; "old",  *)
               (* a MAC that does not follow the PHY (82543); "igp", a PHY  *)
               (* with SmartSpeed; "get_link", ethtool checks the link too; *)
               (* "requests", ethtool changes the settings; "few", fewer    *)
               (* partners and one initial flow control setting             *)

ASSUME LinkAssumption ==
  /\ Flaps \in Nat /\ Requests \in Nat /\ SmartMax \in Nat
  /\ Downshift \in Nat \ {0} /\ SmartMax > Downshift
  /\ \A c \in Cases : Cardinality(c \cap {"copper", "serdes", "fiber"}) = 1

Thread == {"watchdog", "get_link"}
None   == "none"

(* What the media can do at best, a flow control setting, and a partner:     *)
(* does it negotiate, the best mode that both know, what it says of pause    *)
(* frames, and does it want to be what this end is (master or slave)?        *)
Mode == {"100h", "1000f"}
Half(m) == m = "100h"
Flow == SUBSET {"rx", "tx"}
Ability == [pause : BOOLEAN, asm : BOOLEAN]
Silent  == [pause |-> FALSE, asm |-> FALSE]
Full    == [pause |-> TRUE, asm |-> TRUE]

Fast(abilities) == [auto : {TRUE}, mode : {"1000f"}, can : abilities, clash : {FALSE}]
Slow     == [auto |-> TRUE, mode |-> "100h", can |-> Full, clash |-> FALSE]
Forced   == [auto |-> FALSE, mode |-> "100h", can |-> Silent, clash |-> FALSE]
Clashing == [auto |-> TRUE, mode |-> "1000f", can |-> Silent, clash |-> TRUE]

Partner(c) ==
  IF "copper" \notin c THEN [auto : BOOLEAN, mode : {"1000f"}, can : {Silent}, clash : {FALSE}]
  ELSE {Forced} \cup (IF "few" \in c THEN Fast({Full}) ELSE Fast(Ability) \cup {Slow})
                \cup (IF "igp" \in c THEN {Clashing} ELSE {})

NoPartner == [auto |-> FALSE, mode |-> None, can |-> Silent, clash |-> FALSE]

VARIABLES
  may,       (* the case at hand                                            *)
  wire,      (* the partner at the other end of the cable, or NoPartner     *)
  phy,       (* the PHY: is the link up, did it drop since the last read of *)
             (* PHY_STATUS, in which mode, what does it advertise, is it to *)
             (* be master or slave by force?                                *)
  lsc,       (* ICR: has the link changed?                                  *)
  autoneg, original_fc, fc,       (* struct e1000_hw                        *)
  get_link_status,                (* struct e1000_hw                        *)
  ctrl,      (* CTRL: the mode (old MAC), flow control, SLU                 *)
  serdes,    (* TXCW.ANE, done: has the MAC negotiated?, autoneg_failed,    *)
             (* serdes_has_link                                             *)
  carrier,   (* netif_carrier_ok                                            *)
  link_mode, (* adapter->link_speed, link_duplex                            *)
  smartspeed,
  at, link,  (* of each thread: the step, and what e1000_has_link returned  *)
  flaps, requests,
  stale,     (* threads with a check under way that the wire has overtaken  *)
  lost,      (* has a check cleared the LSC that came while it ran?         *)
  refused    (* has a refused request left autoneg off, or has the user     *)
             (* forced flow control?                                        *)

hwVars   == <<autoneg, original_fc, fc, get_link_status>>
netVars  == <<carrier, link_mode, smartspeed>>
history  == <<stale, lost, refused>>
bounds   == <<flaps, requests>>
vars     == <<may, wire, phy, lsc, hwVars, ctrl, serdes, netVars, at, link, bounds, history>>

copper == "copper" \in may

-----------------------------------------------------------------------------
(* External: the cable, the PHY and the MAC.  The PHY latches a loss of the  *)
(* link, and a change raises LSC.  Forced, it needs no negotiation.          *)
ModeOf(p) == IF autoneg /\ phy.autoneg THEN p.mode ELSE "100h"

Clash == wire # NoPartner /\ wire.clash /\ phy.ms /\ phy.autoneg

Plug ==
  /\ flaps < Flaps /\ flaps' = flaps + 1
  /\ wire' \in (Partner(may) \cup {NoPartner}) \ {wire}
  /\ phy' = [phy EXCEPT !.up = FALSE, !.latched = @ \/ phy.up]
  /\ serdes' = [serdes EXCEPT !.done = FALSE]
  /\ lsc' = (lsc \/ phy.up \/ serdes.done)
  /\ stale' = {t \in Thread : at[t] # "idle"}
  /\ UNCHANGED <<may, hwVars, ctrl, netVars, at, link, requests, lost, refused>>

Negotiate ==
  /\ copper /\ ~phy.up /\ wire # NoPartner /\ ~Clash
  /\ phy' = [phy EXCEPT !.up = TRUE, !.mode = ModeOf(wire)]
  /\ lsc' = TRUE
  /\ UNCHANGED <<may, wire, hwVars, ctrl, serdes, netVars, at, link, bounds, history>>

Sync  == wire # NoPartner
RxC   == wire # NoPartner /\ wire.auto /\ ~serdes.done
LU    == serdes.done \/ (~serdes.ane /\ ctrl.slu)

NegotiateSerdes ==
  /\ ~copper /\ RxC /\ serdes.ane
  /\ serdes' = [serdes EXCEPT !.done = TRUE]
  /\ lsc' = TRUE
  /\ UNCHANGED <<may, wire, phy, hwVars, ctrl, netVars, at, link, bounds, history>>

(* e1000_intr *)
Interrupt ==
  /\ lsc /\ lsc' = FALSE
  /\ get_link_status' = TRUE
  /\ UNCHANGED <<may, wire, phy, autoneg, original_fc, fc, ctrl, serdes, netVars, at, link, bounds, history>>

-----------------------------------------------------------------------------
(* e1000_has_link, with e1000_check_for_link.  A thread begins; get_link     *)
(* sets get_link_status when there is no carrier.                            *)
Goto(t, step) == at' = [at EXCEPT ![t] = step]

Returns(t, active) ==
  /\ Goto(t, "result") /\ link' = [link EXCEPT ![t] = active]

Begin(t) ==
  /\ at[t] = "idle"
  /\ t = "get_link" => "get_link" \in may /\ requests < Requests
  /\ requests' = IF t = "get_link" THEN requests + 1 ELSE requests
  /\ get_link_status' = (get_link_status \/ (t = "get_link" /\ ~carrier))
  /\ IF copper /\ ~get_link_status'
       THEN Returns(t, TRUE)
       ELSE Goto(t, IF copper THEN "read" ELSE "serdes") /\ UNCHANGED link
  /\ stale' = stale \ {t}
  /\ UNCHANGED <<may, wire, phy, lsc, autoneg, original_fc, fc, ctrl, serdes, netVars, flaps, lost, refused>>

(* "Read the register twice since the link bit is sticky."  Without a link   *)
(* the check ends.                                                           *)
ReadStatus(t) ==
  /\ at[t] = "read"
  /\ phy' = [phy EXCEPT !.latched = FALSE]
  /\ Goto(t, "read_again")
  /\ UNCHANGED <<may, wire, lsc, hwVars, ctrl, serdes, netVars, link, bounds, history>>

ReadAgain(t) ==
  /\ at[t] = "read_again"
  /\ phy' = [phy EXCEPT !.latched = FALSE]
  /\ IF phy.up /\ ~phy.latched THEN Goto(t, "up") /\ UNCHANGED link ELSE Returns(t, ~get_link_status)
  /\ UNCHANGED <<may, wire, lsc, hwVars, ctrl, serdes, netVars, bounds, history>>

(* An interrupt between the read and this is forgotten.                      *)
FoundUp(t) ==
  /\ at[t] = "up"
  /\ get_link_status' = FALSE
  /\ lost' = (t \in stale /\ (lost \/ (get_link_status /\ ~lsc)))
  /\ IF autoneg THEN Goto(t, IF "old" \in may THEN "mac" ELSE "flow") /\ UNCHANGED link
     ELSE Returns(t, TRUE)
  /\ UNCHANGED <<may, wire, phy, lsc, autoneg, original_fc, fc, ctrl, serdes, netVars, bounds, stale, refused>>

(* e1000_config_mac_to_phy *)
ConfigMacToPhyAsTold(t) ==
  /\ at[t] = "mac" /\ Goto(t, "flow")
  /\ ctrl' = [ctrl EXCEPT !.mode = IF carrier THEN @ ELSE phy.mode]
  /\ UNCHANGED <<may, wire, phy, lsc, hwVars, serdes, netVars, link, bounds, history>>
ConfigMacToPhy(t) ==
  /\ at[t] = "mac" /\ Goto(t, "flow")
  /\ ctrl' = [ctrl EXCEPT !.mode = phy.mode]
  /\ UNCHANGED <<may, wire, phy, lsc, hwVars, serdes, netVars, link, bounds, history>>

(* e1000_config_fc_after_link_up: what both ends advertise decides.  "If the *)
(* user selected RX ONLY", FULL was advertised; a partner that says nothing  *)
(* of pause frames may have been forced to send them.                        *)
ResolvedFull(local, partner, original) ==
  IF local.pause /\ partner.pause THEN {"rx", "tx"}
  ELSE IF "rx" \in original THEN {"rx"} ELSE {}
Resolved(local, partner, original) ==
  IF local.pause /\ partner.pause
    THEN IF original = {"rx", "tx"} THEN original ELSE {"rx"}
  ELSE IF ~local.pause /\ local.asm /\ partner.pause /\ partner.asm THEN {"tx"}
  ELSE IF local.pause /\ local.asm /\ ~partner.pause /\ partner.asm THEN {"rx"}
  ELSE IF "rx" \in original THEN {"rx"} ELSE {}

ConfigFc(t) ==
  /\ at[t] = "flow"
  /\ IF phy.up
       THEN /\ fc' = Resolved(phy.adv, wire.can, original_fc)
            /\ Goto(t, "duplex") /\ UNCHANGED link
       ELSE Returns(t, ~get_link_status) /\ UNCHANGED fc
  /\ UNCHANGED <<may, wire, phy, lsc, autoneg, original_fc, get_link_status, ctrl, serdes, netVars, bounds, history>>

(* "If we auto-negotiated to HALF DUPLEX, flow control should not be         *)
(* enabled": the duplex is that of the MAC.                                  *)
MacMode == IF "old" \in may THEN ctrl.mode ELSE phy.mode

ConfigDuplex(t) ==
  /\ at[t] = "duplex" /\ Goto(t, "force")
  /\ fc' = IF Half(MacMode) THEN {} ELSE fc
  /\ UNCHANGED <<may, wire, phy, lsc, autoneg, original_fc, get_link_status, ctrl, serdes, netVars, link, bounds, history>>

(* e1000_force_mac_fc *)
ForceMacFc(t) ==
  /\ at[t] = "force"
  /\ ctrl' = [ctrl EXCEPT !.fc = fc]
  /\ Returns(t, ~get_link_status)
  /\ UNCHANGED <<may, wire, phy, lsc, hwVars, serdes, netVars, bounds, history>>

(* e1000_check_for_serdes_link_generic                                       *)
ForceLink ==
  IF ~serdes.failed THEN serdes' = [serdes EXCEPT !.failed = TRUE] /\ UNCHANGED ctrl
  ELSE /\ serdes' = [serdes EXCEPT !.ane = FALSE]
       /\ ctrl' = [ctrl EXCEPT !.slu = TRUE, !.fc = fc]

NegotiateAgainForced ==
  /\ serdes' = [serdes EXCEPT !.has = TRUE]
  /\ UNCHANGED ctrl
NegotiateAgain ==
  /\ serdes' = [serdes EXCEPT !.ane = TRUE, !.has = FALSE]
  /\ ctrl' = [ctrl EXCEPT !.slu = FALSE]

CheckSerdes(t) ==
  /\ at[t] = "serdes"
  /\ CASE ~LU /\ ~RxC       -> ForceLink
       [] ctrl.slu /\ RxC   -> NegotiateAgain
       [] OTHER             -> /\ serdes' = [serdes EXCEPT !.has = Sync /\ (serdes.ane => LU)]
                               /\ UNCHANGED ctrl
  /\ Returns(t, IF "fiber" \in may THEN LU' ELSE serdes'.has)
  /\ UNCHANGED <<may, wire, phy, lsc, hwVars, netVars, bounds, history>>

-----------------------------------------------------------------------------
(* The end of the check: get_link returns the answer; the watchdog tells the *)
(* stack of a change.                                                        *)
GetLinkEnds ==
  /\ at["get_link"] = "result" /\ Goto("get_link", "idle")
  /\ UNCHANGED <<may, wire, phy, lsc, hwVars, ctrl, serdes, netVars, link, bounds, history>>

LinkUp ==
  /\ at["watchdog"] = "result" /\ link["watchdog"] /\ Goto("watchdog", "idle")
  /\ carrier' = TRUE
  /\ link_mode' = IF carrier THEN link_mode ELSE MacMode
  /\ smartspeed' = IF carrier THEN smartspeed ELSE 0
  /\ UNCHANGED <<may, wire, phy, lsc, hwVars, ctrl, serdes, link, bounds, history>>

LinkDown ==
  /\ at["watchdog"] = "result" /\ ~link["watchdog"]
  /\ Goto("watchdog", IF "igp" \in may /\ autoneg THEN "smartspeed" ELSE "idle")
  /\ carrier' = FALSE /\ link_mode' = None
  /\ UNCHANGED <<may, wire, phy, lsc, hwVars, ctrl, serdes, smartspeed, link, bounds, history>>

(* e1000_smartspeed, with e1000_phy_setup_autoneg: the PHY advertises hw->fc.*)
Advertised(f) == [pause |-> "rx" \in f, asm |-> f # {}]

Restart(ms) ==
  phy' = [phy EXCEPT !.up = FALSE, !.latched = @ \/ phy.up, !.ms = ms, !.adv = Advertised(fc),
                     !.autoneg = TRUE]

SmartSpeed ==
  /\ at["watchdog"] = "smartspeed" /\ Goto("watchdog", "idle")
  /\ CASE smartspeed = 0 /\ Clash       -> smartspeed' = 1 /\ Restart(FALSE)
       [] smartspeed = 0 /\ ~Clash      -> UNCHANGED <<smartspeed, phy>>
       [] smartspeed = Downshift        -> smartspeed' = smartspeed + 1 /\ Restart(TRUE)
       [] OTHER                         -> /\ smartspeed' = IF smartspeed = SmartMax THEN 0 ELSE smartspeed + 1
                                           /\ UNCHANGED phy
  /\ lsc' = (lsc \/ (phy.up /\ ~phy'.up))
  /\ UNCHANGED <<may, wire, hwVars, ctrl, serdes, carrier, link_mode, link, bounds, history>>

-----------------------------------------------------------------------------
(* ethtool changes the settings.  Unless the request is refused the device   *)
(* is reset, with the watchdog stopped, and set up again: e1000_down,        *)
(* e1000_reset, e1000_setup_link and, at the end of e1000_up, an LSC.        *)
Request ==
  /\ "requests" \in may /\ requests < Requests /\ requests' = requests + 1
  /\ \A t \in Thread : at[t] = "idle"
  /\ UNCHANGED <<may, wire, flaps, stale, at, link>>

(* Without an answer of the partner to 500 ms of negotiation the setup       *)
(* checks a serdes link, or a fiber link with a signal, and forces it.       *)
Forces == ~wire.auto /\ ("serdes" \in may \/ wire # NoPartner)

SetUpMac(f) ==
  /\ ctrl' = IF ~copper /\ Forces THEN [mode |-> "100h", fc |-> f, slu |-> TRUE]
             ELSE [mode |-> "100h", fc |-> {}, slu |-> FALSE]
  /\ serdes' = [serdes EXCEPT !.ane = copper \/ ~Forces, !.done = FALSE, !.failed = FALSE]

Advertise(f, an) ==
  /\ autoneg' = an /\ original_fc' = f
  /\ phy' = [phy EXCEPT !.up = FALSE, !.latched = @ \/ phy.up, !.autoneg = an,
                     !.adv = IF an THEN Advertised(f) ELSE @]

SetUpLink(f, an) ==
  /\ Advertise(f, an) /\ SetUpMac(f)
  /\ fc' = IF copper /\ ~an THEN {} ELSE f
  /\ get_link_status' = (get_link_status \/ an) /\ lsc' = TRUE
  /\ carrier' = FALSE /\ link_mode' = None
  /\ lost' = FALSE /\ refused' = FALSE
  /\ UNCHANGED smartspeed

(* e1000_set_settings, with e1000_set_spd_dplx.                              *)
SetSettings == Request /\ copper /\ \E an \in BOOLEAN : SetUpLink(original_fc, an)

SettingsRefused ==
  /\ Request /\ copper
  /\ autoneg' = FALSE /\ refused' = TRUE
  /\ UNCHANGED <<phy, lsc, original_fc, fc, get_link_status, ctrl, serdes, netVars, lost>>

(* e1000_set_pauseparam, with fc_autoneg on or off.                          *)
SetPauseparam == Request /\ \E f \in Flow : SetUpLink(f, autoneg)

ForcePause ==
  /\ Request /\ copper
  /\ \E f \in Flow : original_fc' = f /\ fc' = f /\ ctrl' = [ctrl EXCEPT !.fc = f]
  /\ refused' = TRUE
  /\ UNCHANGED <<phy, lsc, autoneg, get_link_status, serdes, netVars, lost>>

-----------------------------------------------------------------------------
Init ==
  /\ may \in Cases
  /\ wire \in Partner(may) \cup {NoPartner}
  /\ original_fc \in (IF "few" \in may THEN {{"rx", "tx"}} ELSE Flow)
  /\ autoneg = TRUE /\ fc = original_fc /\ get_link_status = TRUE
  /\ phy = [up |-> FALSE, latched |-> FALSE, mode |-> "100h", adv |-> Advertised(fc),
            ms |-> "igp" \in may, autoneg |-> TRUE]
  /\ ctrl = [mode |-> "100h", fc |-> {}, slu |-> FALSE]
  /\ serdes = [ane |-> TRUE, done |-> FALSE, failed |-> FALSE, has |-> FALSE]
  /\ lsc = TRUE /\ carrier = FALSE /\ link_mode = None /\ smartspeed = 0
  /\ at = [t \in Thread |-> "idle"] /\ link = [t \in Thread |-> FALSE]
  /\ flaps = 0 /\ requests = 0
  /\ stale = {} /\ lost = FALSE /\ refused = FALSE

CheckStep(t) ==
  \/ ReadStatus(t) \/ ReadAgain(t) \/ FoundUp(t) \/ ConfigMacToPhy(t)
  \/ ConfigFc(t) \/ ConfigDuplex(t) \/ ForceMacFc(t) \/ CheckSerdes(t)

WatchdogStep == Begin("watchdog") \/ CheckStep("watchdog") \/ LinkUp \/ LinkDown \/ SmartSpeed
GetLinkStep  == CheckStep("get_link") \/ GetLinkEnds

Next ==
  \/ Plug \/ Negotiate \/ NegotiateSerdes \/ Interrupt
  \/ WatchdogStep \/ Begin("get_link") \/ GetLinkStep
  \/ SetSettings \/ SettingsRefused \/ SetPauseparam \/ ForcePause

Spec == Init /\ [][Next]_vars

(* The watchdog is queued every two seconds, a call that has begun goes on,  *)
(* interrupts are served, and two ends that can negotiate do.                *)
FairSpec ==
  /\ Spec
  /\ WF_vars(WatchdogStep) /\ WF_vars(GetLinkStep) /\ WF_vars(Interrupt)
  /\ WF_vars(Negotiate) /\ WF_vars(NegotiateSerdes)

-----------------------------------------------------------------------------
TypeOK ==
  /\ may \in Cases
  /\ wire \in Partner(may) \cup {NoPartner}
  /\ phy \in [up : BOOLEAN, latched : BOOLEAN, mode : Mode, adv : Ability, ms : BOOLEAN, autoneg : BOOLEAN]
  /\ lsc \in BOOLEAN /\ autoneg \in BOOLEAN /\ get_link_status \in BOOLEAN
  /\ original_fc \in Flow /\ fc \in Flow
  /\ ctrl \in [mode : Mode, fc : Flow, slu : BOOLEAN]
  /\ serdes \in [ane : BOOLEAN, done : BOOLEAN, failed : BOOLEAN, has : BOOLEAN]
  /\ carrier \in BOOLEAN /\ link_mode \in Mode \cup {None} /\ smartspeed \in 0..SmartMax
  /\ link \in [Thread -> BOOLEAN] /\ flaps \in 0..Flaps /\ requests \in 0..Requests
  /\ stale \subseteq Thread /\ {lost, refused} \subseteq BOOLEAN

(* A copper link that is up, with no change still to be looked at and no     *)
(* check under way.                                                          *)
Settled ==
  /\ copper /\ phy.up /\ ~lsc /\ ~get_link_status /\ ~refused
  /\ \A t \in Thread : at[t] = "idle"

(* What the partner does, by IEEE 802.3 Annex 28B, with what both advertise. *)
PartnerReceives == wire.can.pause /\ (phy.adv.pause \/ (wire.can.asm /\ phy.adv.asm))
PartnerSends    == phy.adv.pause /\ (wire.can.pause \/ (wire.can.asm /\ phy.adv.asm))

(* Once the link has settled, however often the cable was moved and whoever  *)
(* checked the link, the MAC sends pause frames only to a partner that heeds *)
(* them, heeds them from a partner that sends them, uses no direction that   *)
(* the user has not asked for, and none at half duplex.                      *)
FlowControlAgrees ==
  Settled =>
    /\ ctrl.fc \subseteq original_fc
    /\ Half(phy.mode) => ctrl.fc = {}
    /\ "tx" \in ctrl.fc => PartnerReceives
    /\ autoneg /\ ~Half(phy.mode) /\ PartnerSends => "rx" \in ctrl.fc

(* A MAC that does not follow the PHY by itself has the mode of the PHY.     *)
MacFollowsPhy ==
  /\ TypeOK
  /\ Settled /\ "old" \in may /\ autoneg => ctrl.mode = phy.mode

(* The carrier follows the cable.  On a copper link that stays up it is on   *)
(* for good, on one that stays down it is off, unless an interrupt came      *)
(* between the read of PHY_STATUS and the store to get_link_status.  On      *)
(* serdes it is on with a partner, whether it negotiates or not, and with    *)
(* one that does the link is negotiated and not forced; it is off without.   *)
CarrierFollows ==
  /\ (copper /\ <>[](phy.up)) => <>[]carrier
  /\ (copper /\ <>[](wire = NoPartner /\ ~lost)) => <>[](~carrier)
  /\ (~copper /\ <>[](wire # NoPartner)) => <>[](carrier /\ (wire.auto => serdes.done /\ ~ctrl.slu))
  /\ ("serdes" \in may /\ <>[](wire = NoPartner)) => <>[](~carrier)

=============================================================================
