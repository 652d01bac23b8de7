--------------------------- MODULE E1000LinkProof ---------------------------
(***************************************************************************)
(* Theorems about E1000Link, for every set of cases, every number of moves  *)
(* of the cable, of requests and of calls of get_link: what the MAC has     *)
(* been told agrees with what the PHY has negotiated.                       *)
(*                                                                         *)
(* The argument: whenever the PHY is up and no change is still to be looked *)
(* at, a thread has found the link up since it last changed.  hw->fc and    *)
(* CTRL are shared by the two threads that check the link, so neither is    *)
(* right while a thread is on its way; but a thread that has yet to resolve *)
(* flow control will do so, for the partner that is there now, and a later  *)
(* step of another thread can only repeat what this one did (Programmed).   *)
(***************************************************************************)
EXTENDS E1000Link, TLAPS

Step == {"idle", "read", "read_again", "up", "mac", "flow", "duplex", "force",
         "serdes", "result", "smartspeed"}

Types ==
  /\ TypeOK
  /\ at \in [Thread -> Step]
  /\ copper => \A t \in Thread : at[t] # "serdes"

(* Is one of the threads at this step?                                       *)
At(step) == \E t \in Thread : at[t] = step

(* A setting that is right but for half duplex, and one that is right.       *)
Agrees(f) ==
  /\ f \subseteq original_fc
  /\ "tx" \in f => PartnerReceives
  /\ ~Half(phy.mode) /\ PartnerSends => "rx" \in f
Right(f) == Agrees(f) /\ (Half(phy.mode) => f = {})

(* Nothing is used or advertised that the user has not asked for, and        *)
(* without negotiation no pause frames are used at all.                      *)
Asked ==
  (copper /\ ~refused) =>
    /\ fc \subseteq original_fc
    /\ autoneg => \E f \in Flow : f \subseteq original_fc /\ phy.adv = Advertised(f)
    /\ ~autoneg =>
         /\ fc = {} /\ ctrl.fc = {}
         /\ ~At("mac") /\ ~At("flow") /\ ~At("duplex") /\ ~At("force")

(* With the PHY up and its last change looked at, what the MAC has been told *)
(* is right, or a thread is on its way to telling it.                        *)
UpToDate == copper /\ phy.up /\ ~lsc /\ ~get_link_status /\ ~refused /\ autoneg
Programmed ==
  UpToDate =>
    /\ "old" \in may => ctrl.mode = phy.mode \/ At("mac")
    /\ \/ At("mac") \/ At("flow")
       \/ /\ At("duplex") => Agrees(fc)
          /\ ~At("duplex") /\ At("force") => Right(fc)
          /\ ~At("duplex") /\ ~At("force") => Right(ctrl.fc)

Inv == Types /\ Asked /\ Programmed

-----------------------------------------------------------------------------
(* A partner knows one of the modes, and says what it says.                  *)
LEMMA PartnerType ==
  ASSUME NEW c, NEW p \in Partner(c)
  PROVE  p \in [auto : BOOLEAN, mode : Mode, can : Ability, clash : BOOLEAN]
<1>1. Silent \in Ability /\ Full \in Ability
  BY DEF Silent, Full, Ability
<1>2. "100h" \in Mode /\ "1000f" \in Mode
  BY DEF Mode
<1>3. CASE "copper" \notin c
  <2>1. p \in [auto : BOOLEAN, mode : {"1000f"}, can : {Silent}, clash : {FALSE}]
    BY <1>3 DEF Partner
  <2>2. QED
    BY <1>1, <1>2, <2>1
<1>4. CASE "copper" \in c
  <2>1. \/ p = Forced \/ p = Slow \/ p = Clashing
        \/ p \in Fast({Full}) \/ p \in Fast(Ability)
    BY <1>4 DEF Partner
  <2>2. QED
    <3>1. CASE p \in Fast({Full}) \/ p \in Fast(Ability)
      BY <1>1, <1>2, <3>1 DEF Fast
    <3>2. CASE p = Forced
      BY <1>1, <1>2, <3>2 DEF Forced
    <3>3. CASE p = Slow
      BY <1>1, <1>2, <3>3 DEF Slow
    <3>4. CASE p = Clashing
      BY <1>1, <1>2, <3>4 DEF Clashing
    <3>5. QED
      BY <2>1, <3>1, <3>2, <3>3, <3>4
<1>5. QED
  BY <1>3, <1>4

LEMMA AdvertisedType ==
  ASSUME NEW f
  PROVE  Advertised(f) \in Ability
  BY DEF Advertised, Ability

(* Flow control as it is resolved is one of the settings, and right but for  *)
(* half duplex, if this end advertises no more than the user asked for.      *)
LEMMA ResolvedAgrees ==
  ASSUME NEW f \in Flow, f \subseteq original_fc, original_fc \in Flow,
         phy.adv = Advertised(f)
  PROVE  Agrees(Resolved(phy.adv, wire.can, original_fc))
<1> DEFINE g == Resolved(phy.adv, wire.can, original_fc)
<1>1. phy.adv.pause = ("rx" \in f) /\ phy.adv.asm = (f # {})
  BY DEF Advertised
<1>2. /\ "rx" \in f => "rx" \in original_fc
      /\ "tx" \in f => "tx" \in original_fc
      /\ f # {} /\ "rx" \notin f => "tx" \in f
      /\ original_fc \subseteq {"rx", "tx"}
  BY DEF Flow
<1>3. CASE phy.adv.pause /\ wire.can.pause
  <2>1. g = {"rx"} \/ (g = original_fc /\ original_fc = {"rx", "tx"})
    BY <1>3 DEF Resolved
  <2>2. QED
    BY <1>1, <1>2, <1>3, <2>1 DEF Agrees, PartnerReceives
<1>4. CASE ~(phy.adv.pause /\ wire.can.pause)
  <2>1. CASE ~phy.adv.pause /\ phy.adv.asm /\ wire.can.pause /\ wire.can.asm
    <3>1. g = {"tx"}
      BY <1>4, <2>1 DEF Resolved
    <3>2. QED
      BY <1>1, <1>2, <2>1, <3>1 DEF Agrees, PartnerReceives, PartnerSends
  <2>2. CASE phy.adv.pause /\ phy.adv.asm /\ ~wire.can.pause /\ wire.can.asm
    <3>1. g = {"rx"}
      BY <1>4, <2>2 DEF Resolved
    <3>2. QED
      BY <1>1, <1>2, <2>2, <3>1 DEF Agrees, PartnerReceives, PartnerSends
  <2>3. CASE /\ ~(~phy.adv.pause /\ phy.adv.asm /\ wire.can.pause /\ wire.can.asm)
             /\ ~(phy.adv.pause /\ phy.adv.asm /\ ~wire.can.pause /\ wire.can.asm)
    <3>1. g = IF "rx" \in original_fc THEN {"rx"} ELSE {}
      BY <1>4, <2>3 DEF Resolved
    <3>2. ~PartnerSends
      BY <1>4, <2>3 DEF PartnerSends
    <3>3. QED
      BY <3>1, <3>2 DEF Agrees
  <2>4. QED
    BY <2>1, <2>2, <2>3
<1>5. QED
  BY <1>3, <1>4

LEMMA ResolvedType ==
  ASSUME NEW local, NEW partner, NEW original \in Flow
  PROVE  Resolved(local, partner, original) \in Flow
  BY DEF Resolved, Flow

(* A thread goes on.                                                         *)
LEMMA Goes ==
  ASSUME at \in [Thread -> Step], NEW t \in Thread, NEW s \in Step, Goto(t, s)
  PROVE  /\ at' \in [Thread -> Step] /\ at'[t] = s
         /\ \A u \in Thread \ {t} : at'[u] = at[u]
  BY DEF Goto

(* What the watchdog does for SmartSpeed.                                    *)
LEMMA SmartSpeedSteps ==
  ASSUME SmartSpeed
  PROVE  /\ at["watchdog"] = "smartspeed" /\ Goto("watchdog", "idle")
         /\ UNCHANGED phy \/ Restart(FALSE) \/ Restart(TRUE)
         /\ \/ smartspeed' \in {smartspeed, 1, 0}
            \/ smartspeed # SmartMax /\ smartspeed' = smartspeed + 1
<1>1. CASE smartspeed = 0 /\ Clash
  BY <1>1, LinkAssumption DEF SmartSpeed
<1>2. CASE smartspeed = 0 /\ ~Clash
  BY <1>2, LinkAssumption DEF SmartSpeed
<1>3. CASE smartspeed # 0 /\ smartspeed = Downshift
  <2>1. smartspeed' = smartspeed + 1 /\ Restart(TRUE)
    BY <1>3, Zenon DEF SmartSpeed
  <2>2. smartspeed # SmartMax
    BY <1>3, LinkAssumption
  <2>3. QED
    BY <2>1, <2>2, Zenon DEF SmartSpeed
<1>4. CASE smartspeed # 0 /\ smartspeed # Downshift
  <2>1. /\ smartspeed' = IF smartspeed = SmartMax THEN 0 ELSE smartspeed + 1
        /\ UNCHANGED phy
    BY <1>4, Zenon DEF SmartSpeed
  <2>2. QED
    BY <2>1, Zenon DEF SmartSpeed
<1>5. QED
  BY <1>1, <1>2, <1>3, <1>4

-----------------------------------------------------------------------------
LEMMA TypesInit == Init => Types
<1> SUFFICES ASSUME Init
             PROVE  Types
  OBVIOUS
<1>1. fc \in Flow /\ original_fc \in Flow
  BY DEF Init, Flow
<1>2. phy \in [up : BOOLEAN, latched : BOOLEAN, mode : Mode, adv : Ability, ms : BOOLEAN,
               autoneg : BOOLEAN]
  BY AdvertisedType DEF Init, Mode
<1>3. smartspeed \in 0 .. SmartMax /\ flaps \in 0 .. Flaps /\ requests \in 0 .. Requests
  <2>1. SmartMax \in Nat /\ Flaps \in Nat /\ Requests \in Nat
    BY LinkAssumption
  <2>2. smartspeed = 0 /\ flaps = 0 /\ requests = 0
    BY DEF Init
  <2>3. QED
    BY <2>1, <2>2
<1>4. /\ ctrl \in [mode : Mode, fc : Flow, slu : BOOLEAN]
      /\ serdes \in [ane : BOOLEAN, done : BOOLEAN, failed : BOOLEAN, has : BOOLEAN]
  BY DEF Init, Mode, Flow
<1>5. at \in [Thread -> Step] /\ link \in [Thread -> BOOLEAN] /\ \A t \in Thread : at[t] # "serdes"
  BY DEF Init, Step
<1>6. QED
  BY <1>1, <1>2, <1>3, <1>4, <1>5 DEF Types, TypeOK, Init

(* Which fields and steps each action may give which values.                 *)
LEMMA TypesNext == Types /\ [Next]_vars => Types'
<1> SUFFICES ASSUME Types, [Next]_vars
             PROVE  Types'
  OBVIOUS
<1> USE DEF Types
<1>1. CASE Plug
  <2>1. TypeOK'
    <3>1. /\ phy' \in [up : BOOLEAN, latched : BOOLEAN, mode : Mode, adv : Ability, ms : BOOLEAN,
                      autoneg : BOOLEAN]
          /\ serdes' \in [ane : BOOLEAN, done : BOOLEAN, failed : BOOLEAN, has : BOOLEAN]
      BY <1>1 DEF Plug, TypeOK
    <3>2. flaps' \in 0 .. Flaps /\ stale' \subseteq Thread /\ lsc' \in BOOLEAN
      BY <1>1, LinkAssumption DEF Plug, TypeOK
    <3>3. QED
      BY <1>1, <3>1, <3>2 DEF Plug, TypeOK, hwVars, netVars
  <2>2. QED
    BY <1>1, <2>1 DEF Plug, copper
<1>2. CASE Negotiate
  <2>1. wire \in Partner(may)
    BY <1>2 DEF Negotiate, TypeOK
  <2>2. ModeOf(wire) \in Mode
    BY <2>1, PartnerType DEF ModeOf, Mode
  <2>3. TypeOK'
    BY <1>2, <2>2 DEF Negotiate, TypeOK, hwVars, netVars, bounds, history
  <2>4. QED
    BY <1>2, <2>3 DEF Negotiate, copper
<1>3. CASE NegotiateSerdes
  BY <1>3 DEF NegotiateSerdes, TypeOK, hwVars, netVars, bounds, history, copper
<1>4. CASE Interrupt
  <2>1. TypeOK'
    <3>1. get_link_status' \in BOOLEAN /\ lsc' \in BOOLEAN
      BY <1>4, Zenon DEF Interrupt
    <3>2. UNCHANGED <<may, wire, phy, autoneg, original_fc, fc, ctrl, serdes, carrier, link_mode,
                      smartspeed, at, link, flaps, requests, stale, lost, refused>>
      BY <1>4 DEF Interrupt, netVars, bounds, history
    <3>3. QED
      BY <3>1, <3>2 DEF TypeOK
  <2>2. QED
    BY <1>4, <2>1 DEF Interrupt, copper
<1>5. ASSUME NEW t \in Thread, Begin(t)
      PROVE  Types'
  <2>1. /\ at' \in [Thread -> Step] /\ link' \in [Thread -> BOOLEAN]
        /\ copper => \A u \in Thread : at'[u] # "serdes"
    BY <1>5 DEF Begin, Returns, Goto, Step, TypeOK
  <2>2. requests' \in 0 .. Requests
    BY <1>5, LinkAssumption DEF Begin, TypeOK
  <2>3. QED
    BY <1>5, <2>1, <2>2 DEF Begin, TypeOK, netVars, copper
<1>6. ASSUME NEW t \in Thread, ReadStatus(t) \/ ReadAgain(t)
      PROVE  Types'
  <2>1. /\ at' \in [Thread -> Step] /\ link' \in [Thread -> BOOLEAN]
        /\ copper => \A u \in Thread : at'[u] # "serdes"
    <3>1. get_link_status \in BOOLEAN /\ (~get_link_status) \in BOOLEAN
      BY Zenon DEF TypeOK
    <3>2. /\ at' \in [Thread -> Step]
          /\ copper => \A u \in Thread : at'[u] # "serdes"
      BY <1>6 DEF ReadStatus, ReadAgain, Returns, Goto, Step
    <3>3. link' = link \/ link' = [link EXCEPT ![t] = ~get_link_status]
      BY <1>6, Zenon DEF ReadStatus, ReadAgain, Returns
    <3>4. link' \in [Thread -> BOOLEAN]
      <4>1. PICK b \in BOOLEAN : link' = link \/ link' = [link EXCEPT ![t] = b]
        BY <3>1, <3>3
      <4>2. QED
        BY <4>1 DEF TypeOK
    <3>5. QED
      BY <3>2, <3>4
  <2>2. phy' \in [up : BOOLEAN, latched : BOOLEAN, mode : Mode, adv : Ability, ms : BOOLEAN,
                 autoneg : BOOLEAN]
    BY <1>6 DEF ReadStatus, ReadAgain, TypeOK
  <2>3. TypeOK'
    BY <1>6, <2>1, <2>2, SMTT(20) DEF ReadStatus, ReadAgain, TypeOK, hwVars, netVars, bounds, history
  <2>4. QED
    BY <1>6, <2>1, <2>3 DEF ReadStatus, ReadAgain, copper
<1>7. ASSUME NEW t \in Thread, FoundUp(t)
      PROVE  Types'
  <2>1. /\ at' \in [Thread -> Step] /\ link' \in [Thread -> BOOLEAN]
        /\ copper => \A u \in Thread : at'[u] # "serdes"
    BY <1>7 DEF FoundUp, Returns, Goto, Step, TypeOK
  <2>2. lost' \in BOOLEAN /\ get_link_status' \in BOOLEAN
    BY <1>7, Zenon DEF FoundUp
  <2>3. TypeOK'
    <3>1. {lost', refused'} \subseteq BOOLEAN
      BY <1>7, <2>2, Zenon DEF FoundUp, TypeOK
    <3>2. UNCHANGED <<may, wire, phy, lsc, autoneg, original_fc, fc, ctrl, serdes, carrier,
                      link_mode, smartspeed, flaps, requests, stale>>
      BY <1>7 DEF FoundUp, netVars, bounds
    <3>3. QED
      BY <2>1, <2>2, <3>1, <3>2 DEF TypeOK
  <2>4. QED
    BY <1>7, <2>1, <2>3 DEF FoundUp, copper
<1>8. ASSUME NEW t \in Thread, ConfigMacToPhy(t) \/ ForceMacFc(t)
      PROVE  Types'
  BY <1>8 DEF ConfigMacToPhy, ForceMacFc, Returns, Goto, Step, TypeOK, hwVars, netVars, bounds,
              history, copper
<1>9. ASSUME NEW t \in Thread, ConfigFc(t) \/ ConfigDuplex(t)
      PROVE  Types'
  <2>1. fc' \in Flow
    <3>1. original_fc \in Flow /\ fc \in Flow /\ {} \in Flow
      BY DEF TypeOK, Flow
    <3>2. Resolved(phy.adv, wire.can, original_fc) \in Flow
      BY <3>1, ResolvedType
    <3>3. QED
      BY <1>9, <3>1, <3>2 DEF ConfigFc, ConfigDuplex
  <2>2. /\ at' \in [Thread -> Step] /\ link' \in [Thread -> BOOLEAN]
        /\ copper => \A u \in Thread : at'[u] # "serdes"
    BY <1>9 DEF ConfigFc, ConfigDuplex, Returns, Goto, Step, TypeOK
  <2>3. TypeOK'
    BY <1>9, <2>1, <2>2, SMTT(20) DEF ConfigFc, ConfigDuplex, TypeOK, netVars, bounds, history
  <2>4. QED
    BY <1>9, <2>2, <2>3 DEF ConfigFc, ConfigDuplex, copper
<1>10. ASSUME NEW t \in Thread, CheckSerdes(t)
       PROVE  Types'
  <2>1. /\ serdes' \in [ane : BOOLEAN, done : BOOLEAN, failed : BOOLEAN, has : BOOLEAN]
        /\ ctrl' \in [mode : Mode, fc : Flow, slu : BOOLEAN]
    BY <1>10 DEF CheckSerdes, ForceLink, NegotiateAgain, Sync, LU, TypeOK
  <2>2. link' \in [Thread -> BOOLEAN] /\ at' \in [Thread -> Step] /\ ~copper
    BY <1>10, <2>1 DEF CheckSerdes, Returns, Goto, LU, Step, TypeOK
  <2>3. QED
    BY <1>10, <2>1, <2>2 DEF CheckSerdes, TypeOK, hwVars, netVars, bounds, history, copper
<1>11. CASE LinkUp \/ LinkDown \/ GetLinkEnds
  <2>1. /\ at' \in [Thread -> Step]
        /\ copper => \A u \in Thread : at'[u] # "serdes"
    BY <1>11 DEF LinkUp, LinkDown, GetLinkEnds, Goto, Step, Thread
  <2>2. /\ carrier' \in BOOLEAN /\ link_mode' \in Mode \cup {None} /\ smartspeed' \in 0 .. SmartMax
    <3>1. MacMode \in Mode
      BY DEF MacMode, TypeOK
    <3>2. 0 \in 0 .. SmartMax
      BY LinkAssumption
    <3>3. QED
      BY <1>11, <3>1, <3>2 DEF LinkUp, LinkDown, GetLinkEnds, TypeOK, netVars
  <2>3. TypeOK'
    BY <1>11, <2>2, SMTT(20) DEF LinkUp, LinkDown, GetLinkEnds, TypeOK, hwVars, bounds, history
  <2>4. QED
    BY <1>11, <2>1, <2>3 DEF LinkUp, LinkDown, GetLinkEnds, copper
<1>12. CASE SmartSpeed
  <2>1. smartspeed' \in 0 .. SmartMax
    <3>1. smartspeed \in 0 .. SmartMax
      BY DEF TypeOK
    <3>2. smartspeed' \in {smartspeed, 1} \/ (smartspeed # SmartMax /\ smartspeed' = smartspeed + 1)
            \/ smartspeed' = 0
      BY <1>12, SmartSpeedSteps
    <3>3. QED
      BY <3>1, <3>2, LinkAssumption
  <2>2. phy' \in [up : BOOLEAN, latched : BOOLEAN, mode : Mode, adv : Ability, ms : BOOLEAN,
                 autoneg : BOOLEAN]
    <3>1. CASE phy' = phy
      BY <3>1 DEF TypeOK
    <3>2. ASSUME NEW ms \in BOOLEAN, Restart(ms)
          PROVE  phy' \in [up : BOOLEAN, latched : BOOLEAN, mode : Mode, adv : Ability,
                            ms : BOOLEAN, autoneg : BOOLEAN]
      BY <3>2, AdvertisedType DEF Restart, TypeOK
    <3>3. QED
      BY <1>12, <3>1, <3>2, SmartSpeedSteps
  <2>3. QED
    BY <1>12, <2>1, <2>2 DEF SmartSpeed, Goto, Step, Thread, TypeOK, hwVars, bounds, history, copper
<1>13. ASSUME Request, NEW f \in Flow, NEW an \in BOOLEAN, SetUpLink(f, an)
       PROVE  Types'
  <2>1. phy' \in [up : BOOLEAN, latched : BOOLEAN, mode : Mode, adv : Ability, ms : BOOLEAN,
                 autoneg : BOOLEAN]
    BY <1>13, AdvertisedType DEF SetUpLink, Advertise, TypeOK
  <2>2. /\ ctrl' \in [mode : Mode, fc : Flow, slu : BOOLEAN] /\ fc' \in Flow
        /\ serdes' \in [ane : BOOLEAN, done : BOOLEAN, failed : BOOLEAN, has : BOOLEAN]
    BY <1>13 DEF SetUpLink, SetUpMac, Forces, TypeOK, Mode, Flow
  <2>3. requests' \in 0 .. Requests
    BY <1>13, LinkAssumption DEF Request, TypeOK
  <2>4. QED
    BY <1>13, <2>1, <2>2, <2>3 DEF Request, SetUpLink, Advertise, TypeOK, copper
<1>14. CASE SetSettings
  BY <1>13, <1>14 DEF SetSettings, TypeOK
<1>15. CASE SetPauseparam
  BY <1>13, <1>15 DEF SetPauseparam, TypeOK
<1>16. CASE SettingsRefused \/ ForcePause
  <2>1. requests' \in 0 .. Requests
    BY <1>16, LinkAssumption DEF SettingsRefused, ForcePause, Request, TypeOK
  <2>2. /\ autoneg' \in BOOLEAN /\ original_fc' \in Flow /\ fc' \in Flow
        /\ ctrl' \in [mode : Mode, fc : Flow, slu : BOOLEAN]
    BY <1>16 DEF SettingsRefused, ForcePause, TypeOK
  <2>3. TypeOK'
    <3>1. {lost', refused'} \subseteq BOOLEAN
      BY <1>16, Zenon DEF SettingsRefused, ForcePause, TypeOK
    <3>2. UNCHANGED <<may, wire, flaps, stale, link, phy, lsc, get_link_status, serdes, carrier,
                      link_mode, smartspeed>>
      BY <1>16 DEF SettingsRefused, ForcePause, Request, netVars
    <3>3. QED
      BY <2>1, <2>2, <3>1, <3>2 DEF TypeOK
  <2>4. QED
    BY <1>16, <2>3 DEF SettingsRefused, ForcePause, Request, copper
<1>17. CASE UNCHANGED vars
  BY <1>17 DEF vars, TypeOK, hwVars, netVars, bounds, history, copper
<1>18. QED
  BY <1>1, <1>2, <1>3, <1>4, <1>5, <1>6, <1>7, <1>8, <1>9, <1>10, <1>11, <1>12, <1>14, <1>15,
     <1>16, <1>17 DEF Next, WatchdogStep, GetLinkStep, CheckStep, Thread

-----------------------------------------------------------------------------
LEMMA AskedInit == Init => Asked
<1> SUFFICES ASSUME Init
             PROVE  Asked
  OBVIOUS
<1>1. fc = original_fc /\ fc \in Flow /\ autoneg /\ phy.adv = Advertised(fc)
  BY DEF Init, Flow
<1>2. QED
  BY <1>1 DEF Asked

LEMMA ProgrammedInit == Init => Programmed
  BY DEF Init, Programmed, UpToDate

(* The steps of a check that finds the link up.                              *)
Busy == {"mac", "flow", "duplex", "force"}

(* A step that is none of these, and changes none of the settings, keeps     *)
(* both invariants if it takes the PHY down, raises an LSC or sets           *)
(* get_link_status, or else leaves what was negotiated as it is.             *)
LEMMA Bystander ==
  ASSUME Types, Asked, Programmed,
         UNCHANGED <<may, original_fc, fc, ctrl, autoneg, refused>>,
         phy'.adv = phy.adv \/ phy'.adv = Advertised(fc),
         UpToDate' => UpToDate /\ wire' = wire /\ phy'.mode = phy.mode /\ phy'.adv = phy.adv,
         \A s \in Busy : At(s)' <=> At(s)
  PROVE  Asked' /\ Programmed'
<1>1. fc \in Flow /\ copper' = copper
  BY DEF Types, TypeOK, copper
<1>2. /\ At("mac")' <=> At("mac")
      /\ At("flow")' <=> At("flow")
      /\ At("duplex")' <=> At("duplex")
      /\ At("force")' <=> At("force")
  BY DEF Busy
<1>3. Asked'
  <2> SUFFICES ASSUME copper, ~refused
               PROVE  Asked'
    BY <1>1 DEF Asked
  <2>1. /\ fc \subseteq original_fc
        /\ autoneg => \E f \in Flow : f \subseteq original_fc /\ phy.adv = Advertised(f)
        /\ ~autoneg =>
             /\ fc = {} /\ ctrl.fc = {}
             /\ ~At("mac") /\ ~At("flow") /\ ~At("duplex") /\ ~At("force")
    BY DEF Asked
  <2>2. autoneg => \E f \in Flow : f \subseteq original_fc /\ phy'.adv = Advertised(f)
    BY <1>1, <2>1
  <2>3. \A f : Advertised(f)' = Advertised(f)
    BY DEF Advertised
  <2>4. QED
    BY <1>2, <2>1, <2>2, <2>3 DEF Asked
<1>4. Programmed'
  <2> SUFFICES ASSUME UpToDate'
               PROVE  Programmed'
    BY DEF Programmed
  <2>1. UpToDate /\ wire' = wire /\ phy'.mode = phy.mode /\ phy'.adv = phy.adv
    OBVIOUS
  <2>2. PartnerReceives' = PartnerReceives /\ PartnerSends' = PartnerSends
    BY <2>1 DEF PartnerReceives, PartnerSends
  <2>3. /\ Agrees(fc)' <=> Agrees(fc)
        /\ Right(fc)' <=> Right(fc)
        /\ Right(ctrl.fc)' <=> Right(ctrl.fc)
    BY <2>1, <2>2 DEF Agrees, Right, Half
  <2>4. QED
    BY <1>2, <2>1, <2>3 DEF Programmed
<1>5. QED
  BY <1>3, <1>4

(* A thread that is not busy, and does not become so.                        *)
LEMMA NotBusy ==
  ASSUME Types, NEW t \in Thread, NEW s \in Step \ Busy, at[t] \notin Busy, Goto(t, s)
  PROVE  \A b \in Busy : At(b)' <=> At(b)
<1>1. at'[t] = s /\ \A u \in Thread \ {t} : at'[u] = at[u]
  BY Goes DEF Types
<1>2. ASSUME NEW b \in Busy
      PROVE  At(b)' <=> At(b)
  <2>1. at[t] # b /\ at'[t] # b
    BY <1>1
  <2>2. QED
    BY <1>1, <2>1 DEF At
<1>3. QED
  BY <1>2

(* The cable, the PHY, the interrupt handler, and the steps of a check that  *)
(* are not the ones of a link found up.                                      *)
LEMMA BystanderSteps ==
  ASSUME Types, Asked, Programmed,
         \/ Plug \/ Negotiate \/ NegotiateSerdes \/ Interrupt
         \/ \E t \in Thread : Begin(t) \/ ReadStatus(t) \/ ReadAgain(t) \/ CheckSerdes(t)
         \/ LinkUp \/ LinkDown \/ GetLinkEnds \/ SmartSpeed \/ UNCHANGED vars
  PROVE  Asked' /\ Programmed'
<1> DEFINE Same == UNCHANGED <<may, original_fc, fc, ctrl, autoneg, refused>>
           Kept == UpToDate' => /\ UpToDate /\ wire' = wire
                                /\ phy'.mode = phy.mode /\ phy'.adv = phy.adv
           Stay == \A s \in Busy : At(s)' <=> At(s)
<1>a. ASSUME Same, phy'.adv = phy.adv \/ phy'.adv = Advertised(fc), Kept, Stay
      PROVE  Asked' /\ Programmed'
  BY <1>a, Bystander
<1>b. at' = at => Stay
  BY DEF At
<1>c. phy \in [up : BOOLEAN, latched : BOOLEAN, mode : Mode, adv : Ability, ms : BOOLEAN,
               autoneg : BOOLEAN]
  BY DEF Types, TypeOK
<1> USE DEF hwVars, netVars, bounds, history
<1>1. CASE Plug
  <2>1. Same /\ at' = at /\ phy'.adv = phy.adv /\ ~phy'.up
    BY <1>1, <1>c DEF Plug
  <2>2. QED
    BY <1>a, <1>b, <2>1 DEF UpToDate
<1>2. CASE Negotiate
  <2>1. Same /\ at' = at /\ phy'.adv = phy.adv /\ lsc'
    BY <1>2, <1>c DEF Negotiate
  <2>2. QED
    BY <1>a, <1>b, <2>1 DEF UpToDate
<1>3. CASE NegotiateSerdes
  <2>1. Same /\ at' = at /\ phy' = phy /\ lsc'
    BY <1>3 DEF NegotiateSerdes
  <2>2. QED
    BY <1>a, <1>b, <2>1 DEF UpToDate
<1>4. CASE Interrupt
  <2>1. Same /\ at' = at /\ phy' = phy /\ get_link_status'
    BY <1>4 DEF Interrupt
  <2>2. QED
    BY <1>a, <1>b, <2>1 DEF UpToDate
<1>5. ASSUME NEW t \in Thread, Begin(t)
      PROVE  Asked' /\ Programmed'
  <2>1. /\ at[t] = "idle" /\ Same /\ phy' = phy /\ wire' = wire /\ lsc' = lsc
        /\ get_link_status' = (get_link_status \/ (t = "get_link" /\ ~carrier))
        /\ Goto(t, "result") \/ Goto(t, "read") \/ Goto(t, "serdes")
    BY <1>5 DEF Begin, Returns
  <2>2. Stay
    BY <2>1, NotBusy DEF Step, Busy
  <2>3. Kept
    BY <2>1 DEF UpToDate, copper
  <2>4. QED
    BY <1>a, <2>1, <2>2, <2>3
<1>6. ASSUME NEW t \in Thread, ReadStatus(t) \/ ReadAgain(t)
      PROVE  Asked' /\ Programmed'
  <2>1. /\ at[t] \in {"read", "read_again"} /\ Same /\ wire' = wire /\ lsc' = lsc
        /\ get_link_status' = get_link_status
        /\ phy' = [phy EXCEPT !.latched = FALSE]
        /\ Goto(t, "read_again") \/ Goto(t, "up") \/ Goto(t, "result")
    BY <1>6 DEF ReadStatus, ReadAgain, Returns
  <2>2. Stay
    BY <2>1, NotBusy DEF Step, Busy
  <2>3. phy'.up = phy.up /\ phy'.mode = phy.mode /\ phy'.adv = phy.adv
    BY <2>1, <1>c
  <2>4. Kept
    BY <2>1, <2>3 DEF UpToDate, copper
  <2>5. QED
    BY <1>a, <2>1, <2>2, <2>3, <2>4
<1>7. ASSUME NEW t \in Thread, CheckSerdes(t)
      PROVE  Asked' /\ Programmed'
  <2>1. ~copper /\ may' = may
    BY <1>7 DEF CheckSerdes, Types
  <2>2. QED
    BY <2>1 DEF Asked, Programmed, UpToDate, copper
<1>8. CASE LinkUp \/ LinkDown \/ GetLinkEnds
  <2>1. /\ Same /\ UNCHANGED <<wire, phy, lsc, get_link_status>>
        /\ \E t \in Thread : /\ at[t] = "result"
                             /\ Goto(t, "idle") \/ Goto(t, "smartspeed")
    BY <1>8 DEF LinkUp, LinkDown, GetLinkEnds, Thread
  <2>2. Stay
    BY <2>1, NotBusy DEF Step, Busy
  <2>3. Kept
    BY <2>1 DEF UpToDate, copper
  <2>4. QED
    BY <1>a, <2>1, <2>2, <2>3
<1>9. CASE SmartSpeed
  <2>1. /\ Same /\ wire' = wire /\ get_link_status' = get_link_status
        /\ at["watchdog"] = "smartspeed" /\ Goto("watchdog", "idle")
        /\ lsc' = (lsc \/ (phy.up /\ ~phy'.up))
        /\ UNCHANGED phy \/ Restart(FALSE) \/ Restart(TRUE)
    BY <1>9, SmartSpeedSteps DEF SmartSpeed
  <2>2. Stay
    BY <2>1, NotBusy DEF Step, Busy, Thread
  <2>3. phy' = phy \/ (phy'.adv = Advertised(fc) /\ ~phy'.up)
    BY <2>1, <1>c DEF Restart
  <2>4. Kept
    BY <2>1, <2>3 DEF UpToDate, copper
  <2>5. QED
    BY <1>a, <2>1, <2>2, <2>3, <2>4
<1>10. CASE UNCHANGED vars
  <2>1. Same /\ at' = at /\ UNCHANGED <<wire, phy, lsc, get_link_status>>
    BY <1>10 DEF vars
  <2>2. Kept
    BY <2>1 DEF UpToDate, copper
  <2>3. QED
    BY <1>a, <1>b, <2>1, <2>2
<1>11. QED
  BY <1>1, <1>2, <1>3, <1>4, <1>5, <1>6, <1>7, <1>8, <1>9, <1>10

(* A request finds no check under way, and takes the PHY down or is one that *)
(* leaves flow control to the user.                                          *)
LEMMA RequestSteps ==
  ASSUME Types, SetSettings \/ SettingsRefused \/ SetPauseparam \/ ForcePause
  PROVE  Asked' /\ Programmed'
<1>1. CASE SettingsRefused \/ ForcePause
  <2>1. refused'
    BY <1>1 DEF SettingsRefused, ForcePause
  <2>2. QED
    BY <2>1 DEF Asked, Programmed, UpToDate
<1>2. ASSUME Request, NEW f \in Flow, NEW an \in BOOLEAN, SetUpLink(f, an)
      PROVE  Asked' /\ Programmed'
  <2>1. /\ lsc' /\ autoneg' = an /\ original_fc' = f /\ may' = may
        /\ fc' = IF copper /\ ~an THEN {} ELSE f
        /\ an => phy'.adv = Advertised(f)
        /\ copper => ctrl'.fc = {}
    BY <1>2 DEF SetUpLink, SetUpMac, Advertise, Request, Types, TypeOK
  <2>2. \A s \in Busy : ~At(s)'
    BY <1>2 DEF Request, At, Busy
  <2>3. Programmed'
    BY <2>1 DEF Programmed, UpToDate
  <2>4. Asked'
    <3>1. \A g : Advertised(g)' = Advertised(g)
      BY DEF Advertised
    <3>2. ~At("mac")' /\ ~At("flow")' /\ ~At("duplex")' /\ ~At("force")'
      BY <2>2 DEF Busy
    <3>3. QED
      BY <2>1, <3>1, <3>2 DEF Asked, copper
  <2>5. QED
    BY <2>3, <2>4
<1>3. CASE SetSettings
  BY <1>2, <1>3 DEF SetSettings, Types, TypeOK
<1>4. CASE SetPauseparam
  BY <1>2, <1>4 DEF SetPauseparam, Types, TypeOK
<1>5. QED
  BY <1>1, <1>3, <1>4

(* A thread that leaves a step was at it, and the others stay where they     *)
(* are.                                                                      *)
LEMMA Moves ==
  ASSUME Types, NEW t \in Thread, NEW s \in Step, Goto(t, s), NEW r
  PROVE  /\ At(s)'
         /\ r # s /\ At(r)' => At(r)
         /\ r # at[t] /\ At(r) => At(r)'
<1>1. at'[t] = s /\ \A u \in Thread \ {t} : at'[u] = at[u]
  BY Goes DEF Types
<1>2. QED
  BY <1>1 DEF At

(* Who is asked for nothing, with negotiation off, does nothing.             *)
LEMMA BusyAsked ==
  ASSUME Asked, copper, ~refused, NEW s \in Busy, At(s)
  PROVE  autoneg
  BY DEF Asked, Busy

(* A check that finds the link up has flow control to resolve.               *)
LEMMA FoundUpKeeps ==
  ASSUME Types, Asked, Programmed, NEW t \in Thread, FoundUp(t)
  PROVE  Asked' /\ Programmed'
<1>1. /\ at[t] = "up"
      /\ UNCHANGED <<may, wire, phy, lsc, autoneg, original_fc, fc, ctrl, refused>>
  BY DEF FoundUp
<1>2. CASE ~autoneg
  <2>1. Goto(t, "result")
    BY <1>2 DEF FoundUp, Returns
  <2>2. \A s \in Busy : At(s)' <=> At(s)
    BY <1>1, <2>1, NotBusy DEF Step, Busy
  <2>3. QED
    BY <1>1, <1>2, <2>2, Bystander DEF UpToDate
<1>3. CASE autoneg
  <2>1. Goto(t, IF "old" \in may THEN "mac" ELSE "flow")
    BY <1>3 DEF FoundUp
  <2>2. IF "old" \in may THEN At("mac")' ELSE At("flow")'
    BY <2>1, Moves DEF Step
  <2>3. Programmed'
    BY <1>1, <2>2 DEF Programmed
  <2>4. \A f : Advertised(f)' = Advertised(f)
    BY DEF Advertised
  <2>5. Asked'
    BY <1>1, <1>3, <2>4 DEF Asked, copper
  <2>6. QED
    BY <2>3, <2>5
<1>4. QED
  BY <1>2, <1>3

(* What the invariants say is the same after a step that changes only        *)
(* hw->fc and CTRL.                                                          *)
LEMMA SameTerms ==
  ASSUME UNCHANGED <<may, wire, phy, lsc, autoneg, original_fc, get_link_status, refused>>
  PROVE  /\ \A f : Advertised(f)' = Advertised(f)
         /\ UpToDate' = UpToDate /\ copper' = copper
         /\ Agrees(fc)' <=> /\ fc' \subseteq original_fc
                            /\ "tx" \in fc' => PartnerReceives
                            /\ ~Half(phy.mode) /\ PartnerSends => "rx" \in fc'
         /\ Right(fc)' <=> Agrees(fc)' /\ (Half(phy.mode) => fc' = {})
         /\ Right(ctrl.fc)' <=> /\ ctrl'.fc \subseteq original_fc
                                /\ "tx" \in ctrl'.fc => PartnerReceives
                                /\ ~Half(phy.mode) /\ PartnerSends => "rx" \in ctrl'.fc
                                /\ Half(phy.mode) => ctrl'.fc = {}
  BY DEF Advertised, UpToDate, copper, Agrees, Right, Half, PartnerReceives, PartnerSends

LEMMA ConfigMacToPhyKeeps ==
  ASSUME Types, Asked, Programmed, NEW t \in Thread, ConfigMacToPhy(t)
  PROVE  Asked' /\ Programmed'
<1>1. /\ at[t] = "mac" /\ Goto(t, "flow")
      /\ UNCHANGED <<may, wire, phy, lsc, autoneg, original_fc, get_link_status, refused>>
      /\ fc' = fc /\ ctrl' = [ctrl EXCEPT !.mode = phy.mode]
  BY DEF ConfigMacToPhy, hwVars, history
<1>2. ctrl'.fc = ctrl.fc /\ ctrl'.mode = phy.mode /\ phy' = phy
  BY <1>1 DEF Types, TypeOK
<1>3. At("flow")' /\ At("mac")
  BY <1>1, Moves DEF Step, At
<1>4. Programmed'
  BY <1>2, <1>3 DEF Programmed
<1>5. Asked'
  BY <1>1, <1>2, <1>3, BusyAsked, SameTerms DEF Asked, Busy
<1>6. QED
  BY <1>4, <1>5

LEMMA ConfigFcKeeps ==
  ASSUME Types, Asked, Programmed, NEW t \in Thread, ConfigFc(t)
  PROVE  Asked' /\ Programmed'
<1>1. /\ at[t] = "flow"
      /\ UNCHANGED <<may, wire, phy, lsc, autoneg, original_fc, get_link_status, ctrl, refused>>
  BY DEF ConfigFc, history
<1>2. CASE ~phy.up
  <2>1. Goto(t, "result") /\ fc' = fc
    BY <1>2 DEF ConfigFc, Returns
  <2>2. ~UpToDate
    BY <1>2 DEF UpToDate
  <2>3. Programmed'
    BY <1>1, <2>2, SameTerms DEF Programmed
  <2>4. At("flow")
    BY <1>1 DEF At
  <2>5. Asked'
    BY <1>1, <2>1, <2>4, BusyAsked, SameTerms DEF Asked, Busy
  <2>6. QED
    BY <2>3, <2>5
<1>3. CASE phy.up
  <2>1. Goto(t, "duplex") /\ fc' = Resolved(phy.adv, wire.can, original_fc)
    BY <1>3 DEF ConfigFc
  <2>2. At("duplex")' /\ At("flow") /\ (At("mac") => At("mac")')
    BY <1>1, <2>1, Moves DEF Step, At
  <2>3. CASE copper /\ ~refused
    <3>1. autoneg
      BY <2>2, <2>3, BusyAsked DEF Busy
    <3>2. PICK f \in Flow : f \subseteq original_fc /\ phy.adv = Advertised(f)
      BY <2>3, <3>1 DEF Asked
    <3>3. Agrees(fc')
      BY <2>1, <3>2, ResolvedAgrees DEF Types, TypeOK
    <3>4. Agrees(fc)'
      BY <1>1, <3>3, SameTerms DEF Agrees
    <3>5. Programmed'
      BY <1>1, <2>2, <3>4, SameTerms DEF Programmed
    <3>6. Asked'
      BY <1>1, <2>3, <3>1, <3>2, <3>3, SameTerms DEF Asked, Agrees
    <3>7. QED
      BY <3>5, <3>6
  <2>4. CASE ~(copper /\ ~refused)
    BY <1>1, <2>4, SameTerms DEF Asked, Programmed, UpToDate
  <2>5. QED
    BY <2>3, <2>4
<1>4. QED
  BY <1>2, <1>3

LEMMA ConfigDuplexKeeps ==
  ASSUME Types, Asked, Programmed, NEW t \in Thread, ConfigDuplex(t)
  PROVE  Asked' /\ Programmed'
<1>1. /\ at[t] = "duplex" /\ Goto(t, "force")
      /\ UNCHANGED <<may, wire, phy, lsc, autoneg, original_fc, get_link_status, ctrl, refused>>
      /\ fc' = IF Half(MacMode) THEN {} ELSE fc
  BY DEF ConfigDuplex, history
<1>2. /\ At("force")' /\ At("duplex")
      /\ At("mac")' <=> At("mac")
      /\ At("flow")' <=> At("flow")
  <2>1. At("force")' /\ At("duplex")
    BY <1>1, Moves DEF Step, At
  <2>2. At("mac")' <=> At("mac")
    BY <1>1, Moves DEF Step
  <2>3. At("flow")' <=> At("flow")
    BY <1>1, Moves DEF Step
  <2>4. QED
    BY <2>1, <2>2, <2>3
<1>3. Asked'
  BY <1>1, <1>2, BusyAsked, SameTerms DEF Asked, Busy
<1>4. Programmed'
  <2> SUFFICES ASSUME UpToDate
               PROVE  Programmed'
    BY <1>1, SameTerms DEF Programmed
  <2>1. "old" \in may => ctrl.mode = phy.mode \/ At("mac")
    BY DEF Programmed
  <2>2. CASE At("mac") \/ At("flow")
    BY <1>1, <1>2, <2>1, <2>2 DEF Programmed
  <2>3. CASE ~At("mac") /\ ~At("flow")
    <3>1. Agrees(fc) /\ MacMode = phy.mode
      BY <1>2, <2>1, <2>3 DEF Programmed, MacMode
    <3>2. Right(fc)'
      BY <1>1, <3>1, SameTerms DEF Agrees
    <3>3. Agrees(fc)'
      BY <3>2 DEF Right
    <3>4. QED
      BY <1>1, <1>2, <2>1, <3>2, <3>3 DEF Programmed
  <2>4. QED
    BY <2>2, <2>3
<1>5. QED
  BY <1>3, <1>4

LEMMA ForceMacFcKeeps ==
  ASSUME Types, Asked, Programmed, NEW t \in Thread, ForceMacFc(t)
  PROVE  Asked' /\ Programmed'
<1>1. /\ at[t] = "force" /\ Goto(t, "result")
      /\ UNCHANGED <<may, wire, phy, lsc, autoneg, original_fc, get_link_status, fc, refused>>
      /\ ctrl' = [ctrl EXCEPT !.fc = fc]
  BY DEF ForceMacFc, Returns, hwVars, history
<1>2. ctrl'.fc = fc /\ ctrl'.mode = ctrl.mode
  BY <1>1 DEF Types, TypeOK
<1>3. /\ At("force")
      /\ At("mac")' <=> At("mac")
      /\ At("flow")' <=> At("flow")
      /\ At("duplex")' <=> At("duplex")
  <2>1. At("force")
    BY <1>1 DEF At
  <2>2. At("mac")' <=> At("mac")
    BY <1>1, Moves DEF Step
  <2>3. At("flow")' <=> At("flow")
    BY <1>1, Moves DEF Step
  <2>4. At("duplex")' <=> At("duplex")
    BY <1>1, Moves DEF Step
  <2>5. QED
    BY <2>1, <2>2, <2>3, <2>4
<1>4. Asked'
  BY <1>1, <1>3, BusyAsked, SameTerms DEF Asked, Busy
<1>5. Programmed'
  <2> SUFFICES ASSUME UpToDate
               PROVE  Programmed'
    BY <1>1, SameTerms DEF Programmed
  <2>1. "old" \in may => ctrl'.mode = phy'.mode \/ At("mac")'
    BY <1>1, <1>2, <1>3 DEF Programmed
  <2>2. CASE At("mac") \/ At("flow")
    BY <1>1, <1>3, <2>1, <2>2 DEF Programmed
  <2>3. CASE ~At("mac") /\ ~At("flow") /\ At("duplex")
    <3>1. Agrees(fc)
      BY <2>3 DEF Programmed
    <3>2. Agrees(fc)'
      BY <1>1, <3>1, SameTerms DEF Agrees
    <3>3. QED
      BY <1>1, <1>3, <2>1, <2>3, <3>2 DEF Programmed
  <2>4. CASE ~At("mac") /\ ~At("flow") /\ ~At("duplex")
    <3>1. Right(fc)
      BY <1>3, <2>4 DEF Programmed
    <3>2. Right(fc)' /\ Right(ctrl.fc)'
      BY <1>1, <1>2, <3>1, SameTerms DEF Agrees, Right
    <3>3. QED
      BY <1>1, <1>3, <2>1, <2>4, <3>2 DEF Programmed
  <2>5. QED
    BY <2>2, <2>3, <2>4
<1>6. QED
  BY <1>4, <1>5

-----------------------------------------------------------------------------
LEMMA InvInit == Init => Inv
  BY TypesInit, AskedInit, ProgrammedInit DEF Inv

LEMMA InvNext == Inv /\ [Next]_vars => Inv'
<1> SUFFICES ASSUME Inv, [Next]_vars
             PROVE  Inv'
  OBVIOUS
<1>1. Types /\ Asked /\ Programmed /\ Types'
  BY TypesNext DEF Inv
<1>2. CASE \/ Plug \/ Negotiate \/ NegotiateSerdes \/ Interrupt
           \/ \E t \in Thread : Begin(t) \/ ReadStatus(t) \/ ReadAgain(t) \/ CheckSerdes(t)
           \/ LinkUp \/ LinkDown \/ GetLinkEnds \/ SmartSpeed \/ UNCHANGED vars
  BY <1>1, <1>2, BystanderSteps DEF Inv
<1>3. CASE SetSettings \/ SettingsRefused \/ SetPauseparam \/ ForcePause
  BY <1>1, <1>3, RequestSteps DEF Inv
<1>4. ASSUME NEW t \in Thread,
             FoundUp(t) \/ ConfigMacToPhy(t) \/ ConfigFc(t) \/ ConfigDuplex(t) \/ ForceMacFc(t)
      PROVE  Inv'
  BY <1>1, <1>4, FoundUpKeeps, ConfigMacToPhyKeeps, ConfigFcKeeps, ConfigDuplexKeeps,
     ForceMacFcKeeps DEF Inv
<1>5. QED
  BY <1>2, <1>3, <1>4 DEF Next, WatchdogStep, GetLinkStep, CheckStep, Thread

(* Once the link has settled, however often the cable was moved and whoever  *)
(* checked the link, the MAC sends pause frames only to a partner that heeds *)
(* them, heeds them from one that sends them, uses no direction that the     *)
(* user has not asked for, and none at half duplex                           *)
(* (e1000_config_fc_after_link_up, e1000_force_mac_fc).                      *)
THEOREM FlowControl == Spec => []FlowControlAgrees
<1>1. Inv => FlowControlAgrees
  <2> SUFFICES ASSUME Inv, Settled
               PROVE  /\ ctrl.fc \subseteq original_fc
                      /\ Half(phy.mode) => ctrl.fc = {}
                      /\ "tx" \in ctrl.fc => PartnerReceives
                      /\ autoneg /\ ~Half(phy.mode) /\ PartnerSends => "rx" \in ctrl.fc
    BY DEF FlowControlAgrees
  <2>1. CASE autoneg
    <3>1. UpToDate /\ ~At("mac") /\ ~At("flow") /\ ~At("duplex") /\ ~At("force")
      BY <2>1 DEF Settled, UpToDate, At
    <3>2. Right(ctrl.fc)
      BY <3>1 DEF Inv, Programmed
    <3>3. QED
      BY <3>2 DEF Right, Agrees
  <2>2. CASE ~autoneg
    BY <2>2 DEF Inv, Asked, Settled
  <2>3. QED
    BY <2>1, <2>2
<1>2. QED
  BY <1>1, InvInit, InvNext, PTL DEF Spec

(* A MAC that does not follow the PHY by itself has the mode of the PHY once *)
(* the link has settled (e1000_config_mac_to_phy); and type correctness.     *)
THEOREM MacFollows == Spec => []MacFollowsPhy
<1>1. Inv => MacFollowsPhy
  BY DEF Inv, Types, Programmed, UpToDate, Settled, At, MacFollowsPhy
<1>2. QED
  BY <1>1, InvInit, InvNext, PTL DEF Spec

=============================================================================
