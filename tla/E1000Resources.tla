--------------------------- MODULE E1000Resources ---------------------------
(***************************************************************************)
(* What an e1000 adapter takes from the kernel and gives back: PCI device,  *)
(* regions, mappings, interrupt, ring structures, buffer arrays and         *)
(* descriptor memory, from e1000_probe to e1000_remove, through open,       *)
(* close, a change of the ring sizes, suspend and resume, and the recovery  *)
(* from a bus error.  Each of the steps that takes something can fail, and  *)
(* the code unwinds what it has taken.                                      *)
(*                                                                         *)
(* The callers are serialised, by the RTNL or by the PCI core: one          *)
(* operation runs at a time, and another can come between the three         *)
(* callbacks of a recovery.  Work items are in E1000Lifecycle; here the     *)
(* watchdog is the part of it that hands the rings to dsnap.                *)
(***************************************************************************)
EXTENDS Integers, Sequences, FiniteSets

CONSTANTS
  MaxRing,   (* how many structures of a kind there may be at a time        *)
  Cases      (* what may happen, one set for each case                      *)

Event == {"ce4100",       (* the controller has an MDIO window of its own   *)
          "errata_23",    (* descriptor memory may not cross 64 kB          *)
          "set_ringparam", "suspend", "bus_error", "self_test"}

ASSUME ResourcesAssumption == MaxRing \in Nat /\ MaxRing > 1 /\ Cases \subseteq SUBSET Event

Ring == {"tx", "rx"} \X (1..MaxRing)
None == <<"none", 0>>

VARIABLES
  may,           (* the case at hand                                        *)
  held,          (* what is taken and not given back                        *)
  tx, rx,        (* adapter->tx_ring and rx_ring                            *)
  info, desc,    (* the pointers in each ring structure: buffer_info, and   *)
                 (* which of two allocations the descriptors are in         *)
  newTx, newRx,  (* e1000_set_ringparam's txdr and rxdr                     *)
  running,       (* IFF_UP                                                  *)
  up,            (* is NAPI enabled: has e1000_down not been called?        *)
  present,       (* is the interface attached?                              *)
  power,         (* what the PCI core calls next: "on", "off", "reset" or   *)
                 (* "restart" (the rest of a recovery)                      *)
  names,         (* which ring structure dsnap has for "rx" and for "tx",   *)
                 (* and if it has the "adapter"                             *)
  testing,       (* __E1000_TESTING, and if_running of e1000_diag_test:     *)
                 (* "no", "closed" or "running"                             *)
  test,          (* what test_tx_ring and test_rx_ring point to             *)
  pc,            (* the next step of an operation                           *)
  given,         (* what went wrong before, and was not put right: a call   *)
                 (* of the PCI core that failed, rings that were lost       *)
  wrong          (* what was done that must not be                          *)

ringVars == <<tx, rx, info, desc, newTx, newRx>>
testVars == <<testing, test>>
vars == <<may, testVars, held, ringVars, running, up, present, power, names, pc, given, wrong>>

H(what) == <<what>>
Losses == {"rings", "queues", "rx_record"}
InfoOf(r) == <<"info", r>>
DescOf(r, n) == <<"desc", r, n>>

Go(where) == pc' = where
Say(what, if) == wrong' = IF if THEN wrong \cup {what} ELSE wrong

(* A structure that is neither in use nor remembered by dsnap.               *)
Free(kind) == {r \in Ring : r[1] = kind /\ r \notin held /\ r # names[kind]
                             /\ r \notin {tx, rx, newTx, newRx}}
Fresh(kind) == {r \in Free(kind) : \A q \in Free(kind) : r[2] <= q[2]}

-----------------------------------------------------------------------------
(* e1000_probe takes these in turn ("nothing" where it tests something that  *)
(* can fail), and the label to go to when one cannot be had; and then        *)
(* registers the interface.                                                  *)
ProbeStep ==
  << <<"enabled", "out">>, <<"regions", "err_pci_reg">>, <<"nothing", "err_alloc_etherdev">>,
     <<"netdev", "err_alloc_etherdev">>, <<"regs", "err_ioremap">>, <<"nothing", "err_sw_init">>,
     <<"nothing", "err_dma">>, <<"queues", "err_sw_init">>, <<"mdio", "err_mdio_ioremap">>,
     <<"nothing", "err_eeprom">>, <<"registered", "err_register">> >>

(* The labels at the end, from the last to the first, and what each frees.   *)
Undo == << {tx, rx}, {H("mdio"), H("regs")}, {H("netdev")}, {H("regions")}, {H("enabled")} >>
Label == [err_register |-> 1, err_eeprom |-> 1, err_dma |-> 2, err_sw_init |-> 2,
          err_mdio_ioremap |-> 2, err_ioremap |-> 3, err_alloc_etherdev |-> 4,
          err_pci_reg |-> 5, out |-> 6]
LabelOf(name) == Label[name]

Probe ==
  /\ pc = <<"absent">>
  /\ Go(<<"probe", 1>>)
  /\ wrong' = {}
  /\ UNCHANGED <<may, testVars, held, ringVars, running, up, present, power, names, given>>

Skipped(what) == what = "mdio" /\ "ce4100" \notin may

ProbeTakes ==
  /\ pc[1] = "probe" /\ pc[2] \in DOMAIN ProbeStep
  /\ LET what == ProbeStep[pc[2]][1] IN
       /\ what # "queues"
       /\ held' = IF what = "nothing" \/ Skipped(what) THEN held ELSE held \cup {H(what)}
  /\ Go(<<"probe", pc[2] + 1>>)
  /\ UNCHANGED <<may, testVars, ringVars, running, up, present, power, names, given, wrong>>

(* e1000_alloc_queues, which undoes what it did itself.                      *)
AllocQueues ==
  /\ pc[1] = "probe" /\ pc[2] \in DOMAIN ProbeStep /\ ProbeStep[pc[2]][1] = "queues"
  /\ \E t \in Fresh("tx"), r \in Fresh("rx") :
       tx' = t /\ rx' = r /\ held' = held \cup {t, r}
  /\ Go(<<"probe", pc[2] + 1>>)
  /\ UNCHANGED <<may, testVars, info, desc, newTx, newRx, running, up, present, power, names, given,
                 wrong>>

ProbeFails ==
  /\ pc[1] = "probe" /\ pc[2] \in DOMAIN ProbeStep
  /\ ~Skipped(ProbeStep[pc[2]][1])
  /\ Go(<<"undo", LabelOf(ProbeStep[pc[2]][2])>>)
  /\ given' = IF ProbeStep[pc[2]][1] = "mdio" THEN given \cup {"queues"} ELSE given
  /\ UNCHANGED <<may, testVars, held, ringVars, running, up, present, power, names, wrong>>

ProbeUndoes ==
  /\ pc[1] = "undo"
  /\ IF pc[2] > Len(Undo)
       THEN Go(<<"absent">>) /\ tx' = None /\ rx' = None /\ UNCHANGED <<held, wrong>>
       ELSE /\ held' = held \ Undo[pc[2]]
            /\ Say("freed_twice", ~(Undo[pc[2]] \subseteq held \cup {H("mdio")}))
            /\ Go(<<"undo", pc[2] + 1>>)
            /\ UNCHANGED <<tx, rx>>
  /\ UNCHANGED <<may, testVars, info, desc, newTx, newRx, running, up, present, power, names, given>>

(* The end of e1000_probe: dsnap_init.                                       *)
ProbeEnds ==
  /\ pc = <<"probe", Len(ProbeStep) + 1>>
  /\ held' = held \cup {H("dsnap")}
  /\ present' = TRUE
  /\ Go(<<"idle">>)
  /\ UNCHANGED <<may, testVars, ringVars, running, up, power, names, given, wrong>>

-----------------------------------------------------------------------------
(* e1000_setup_tx_resources and e1000_setup_rx_resources for a structure: an *)
(* array, and descriptors, allocated a second time when the first cross a    *)
(* 64 kB boundary, and freed when the second do too.                         *)
SetUp(r) == Go(<<"info", r>>)

Done(r) == CASE r = tx -> <<"open_rx">> [] r = rx -> <<"open_irq">>
             [] r = newRx -> <<"new_tx_resources">> [] r = newTx -> <<"swap">>
Failed(r) == CASE r = tx -> <<"idle">> [] r = rx -> <<"err_setup_rx">>
               [] r = newRx -> <<"new_err_setup_rx">> [] r = newTx -> <<"new_err_setup_tx">>

AllocInfo ==
  /\ pc[1] = "info"
  /\ \/ held' = held \cup {InfoOf(pc[2])} /\ info' = [info EXCEPT ![pc[2]] = TRUE] /\ Go(<<"desc", pc[2]>>)
     \/ info' = [info EXCEPT ![pc[2]] = FALSE] /\ Go(Failed(pc[2])) /\ UNCHANGED held
  /\ UNCHANGED <<may, testVars, tx, rx, desc, newTx, newRx, running, up, present, power, names,
                 given, wrong>>

AllocDesc ==
  /\ pc[1] = "desc"
  /\ \/ held' = held \cup {DescOf(pc[2], 1)} /\ desc' = [desc EXCEPT ![pc[2]] = 1] /\ Go(<<"check", pc[2]>>)
     \/ held' = held \ {InfoOf(pc[2])} /\ desc' = [desc EXCEPT ![pc[2]] = 0] /\ Go(Failed(pc[2]))
  /\ UNCHANGED <<may, testVars, tx, rx, info, newTx, newRx, running, up, present, power, names,
                 given, wrong>>

Check ==
  /\ pc[1] = "check"
  /\ \/ Go(Done(pc[2]))
     \/ "errata_23" \in may /\ Go(<<"desc_again", pc[2]>>)
  /\ UNCHANGED <<may, testVars, held, ringVars, running, up, present, power, names, given, wrong>>

AllocAgain ==
  /\ pc[1] = "desc_again"
  /\ \/ /\ held' = held \cup {DescOf(pc[2], 2)}
        /\ desc' = [desc EXCEPT ![pc[2]] = 2]
        /\ Go(<<"check_again", pc[2]>>)
     \/ /\ held' = held \ {InfoOf(pc[2]), DescOf(pc[2], 1)}
        /\ desc' = [desc EXCEPT ![pc[2]] = 0]
        /\ Go(Failed(pc[2]))
  /\ UNCHANGED <<may, testVars, tx, rx, info, newTx, newRx, running, up, present, power, names,
                 given, wrong>>

CheckAgainForgetting ==
  /\ pc[1] = "check_again"
  /\ \/ held' = held \ {DescOf(pc[2], 1)} /\ Go(Done(pc[2]))
     \/ held' = held \ {InfoOf(pc[2]), DescOf(pc[2], 2)} /\ Go(Failed(pc[2]))
  /\ UNCHANGED <<may, testVars, ringVars, running, up, present, power, names, given, wrong>>
CheckAgain ==
  /\ pc[1] = "check_again"
  /\ \/ held' = held \ {DescOf(pc[2], 1)} /\ Go(Done(pc[2]))
     \/ held' = held \ {InfoOf(pc[2]), DescOf(pc[2], 1), DescOf(pc[2], 2)} /\ Go(Failed(pc[2]))
  /\ UNCHANGED <<may, testVars, ringVars, running, up, present, power, names, given, wrong>>

(* e1000_free_tx_resources and e1000_free_rx_resources, which first go over  *)
(* the array and the descriptors.                                            *)
Parts(rs) == {InfoOf(r) : r \in rs} \cup {DescOf(r, desc[r]) : r \in rs}

Clear(rs) ==
  /\ info' = [r \in Ring |-> IF r \in rs THEN FALSE ELSE info[r]]
  /\ desc' = [r \in Ring |-> IF r \in rs THEN 0 ELSE desc[r]]

Usable(r) == r \in held /\ info[r] /\ Parts({r}) \subseteq held

-----------------------------------------------------------------------------
(* e1000_open: Tx resources, Rx resources, the interrupt; then the rest of   *)
(* e1000_up.                                                                 *)
Idle == pc = <<"idle">>

Open ==
  /\ Idle /\ ~running /\ present /\ power = "on"
  /\ SetUp(tx)
  /\ UNCHANGED <<may, testVars, held, ringVars, running, up, present, power, names, given, wrong>>

OpenRx ==
  /\ pc = <<"open_rx">>
  /\ SetUp(rx)
  /\ UNCHANGED <<may, testVars, held, ringVars, running, up, present, power, names, given, wrong>>

ErrSetupRx ==
  /\ pc = <<"err_setup_rx">>
  /\ held' = held \ Parts({tx}) /\ Say("freed_twice", ~Usable(tx)) /\ Clear({tx})
  /\ Go(<<"idle">>)
  /\ UNCHANGED <<may, testVars, tx, rx, newTx, newRx, running, up, present, power, names, given>>

RequestIrq ==
  /\ pc = <<"open_irq">>
  /\ \/ held' = held \cup {H("irq")} /\ running' = TRUE /\ Go(<<"up">>) /\ UNCHANGED <<info, desc, wrong>>
     \/ /\ held' = held \ Parts({tx, rx}) /\ Clear({tx, rx})
        /\ Say("freed_twice", ~Usable(tx) \/ ~Usable(rx))
        /\ Go(<<"idle">>)
        /\ UNCHANGED running
  /\ UNCHANGED <<may, testVars, tx, rx, newTx, newRx, up, present, power, names, given>>

(* e1000_up, which uses the rings, and enables NAPI.                         *)
Up ==
  /\ pc = <<"up">>
  /\ wrong' = wrong \cup (IF ~up THEN {} ELSE {"up_twice"})
                    \cup (IF Usable(tx) /\ Usable(rx) THEN {} ELSE {"rings_not_set_up"})
  /\ up' = TRUE
  /\ present' = TRUE
  /\ Go(IF Usable(tx) /\ Usable(rx) THEN <<"idle">> ELSE <<"oops">>)
  /\ UNCHANGED <<may, testVars, held, ringVars, running, power, names, given>>

(* e1000_down, which waits in napi_disable if NAPI is disabled, and empties  *)
(* the rings.                                                                *)
Down(then) ==
  /\ up' = FALSE
  /\ wrong' = wrong \cup (IF up THEN {} ELSE {"down_twice"})
                    \cup (IF Usable(tx) /\ Usable(rx) THEN {} ELSE {"rings_not_set_up"})
  /\ Go(IF up THEN then ELSE <<"hang">>)

(* e1000_close, for dev_close and for unregister_netdev.                     *)
CloseBegins ==
  /\ Idle /\ running /\ power # "off"
  /\ running' = FALSE
  /\ Down(<<"close">>)
  /\ UNCHANGED <<may, testVars, held, ringVars, present, power, names, given>>

Close ==
  /\ pc = <<"close">>
  /\ held' = held \ ({H("irq")} \cup Parts({tx, rx})) /\ Clear({tx, rx})
  /\ Say("freed_twice", H("irq") \notin held \/ ~Usable(tx) \/ ~Usable(rx))
  /\ Go(CASE H("registered") \notin held -> <<"free_all">>
           [] testing # "no"               -> <<"intr_test">>
           [] OTHER                        -> <<"idle">>)
  /\ UNCHANGED <<may, testVars, tx, rx, newTx, newRx, running, up, present, power, names, given>>

-----------------------------------------------------------------------------
(* e1000_set_ringparam: new structures, and when the interface is up new     *)
(* resources for them, before those of the old ones are freed.               *)
SetRingparam ==
  /\ Idle /\ present /\ power = "on" /\ "set_ringparam" \in may
  /\ Fresh("tx") # {} /\ Fresh("rx") # {}
  /\ IF running THEN Down(<<"new_tx">>) ELSE Go(<<"new_tx">>) /\ UNCHANGED <<up, wrong>>
  /\ UNCHANGED <<may, testVars, held, ringVars, running, present, power, names, given>>

NoRings == given' = IF running THEN given ELSE given \cup {"set_ringparam_while_closed"}

NewTx ==
  /\ pc = <<"new_tx">>
  /\ \/ /\ \E r \in Fresh("tx") : newTx' = r /\ held' = held \cup {r}
        /\ Go(<<"new_rx">>)
        /\ UNCHANGED given
     \/ Go(<<"up">>) /\ NoRings /\ UNCHANGED <<held, newTx>>
  /\ UNCHANGED <<may, testVars, tx, rx, info, desc, newRx, running, up, present, power, names, wrong>>

NewRx ==
  /\ pc = <<"new_rx">>
  /\ \/ /\ \E r \in Fresh("rx") : newRx' = r /\ held' = held \cup {r}
        /\ Go(IF running THEN <<"new_rx_resources">> ELSE <<"swap">>)
        /\ UNCHANGED <<newTx, given>>
     \/ /\ held' = held \ {newTx} /\ newTx' = None
        /\ Go(<<"up">>) /\ NoRings
        /\ UNCHANGED newRx
  /\ UNCHANGED <<may, testVars, tx, rx, info, desc, running, up, present, power, names, wrong>>

NewRxResources ==
  /\ pc = <<"new_rx_resources">>
  /\ SetUp(newRx)
  /\ UNCHANGED <<may, testVars, held, ringVars, running, up, present, power, names, given, wrong>>

NewTxResources ==
  /\ pc = <<"new_tx_resources">>
  /\ SetUp(newTx)
  /\ UNCHANGED <<may, testVars, held, ringVars, running, up, present, power, names, given, wrong>>

ErrSetupTx ==
  /\ pc = <<"new_err_setup_tx">>
  /\ held' = held \ Parts({newRx}) /\ Say("freed_twice", ~Usable(newRx)) /\ Clear({newRx})
  /\ Go(<<"new_err_setup_rx">>)
  /\ UNCHANGED <<may, testVars, tx, rx, newTx, newRx, running, up, present, power, names, given>>

NewErrSetupRx ==
  /\ pc = <<"new_err_setup_rx">>
  /\ held' = held \ {newRx, newTx} /\ Clear({newRx, newTx}) /\ newTx' = None /\ newRx' = None
  /\ Go(<<"up">>)
  /\ UNCHANGED <<may, testVars, tx, rx, running, up, present, power, names, given, wrong>>

(* The new structures take the place of the old, which are freed if the      *)
(* interface is up, and are lost otherwise.                                  *)
Swap ==
  /\ pc = <<"swap">>
  /\ tx' = newTx /\ rx' = newRx /\ newTx' = None /\ newRx' = None
  /\ IF running
       THEN /\ held' = held \ (Parts({tx, rx}) \cup {tx, rx}) /\ Clear({tx, rx})
            /\ Say("freed_twice", ~Usable(tx) \/ ~Usable(rx))
            /\ Go(<<"up">>) /\ UNCHANGED given
       ELSE /\ given' = given \cup {"rings"}
            /\ Go(<<"idle">>) /\ UNCHANGED <<held, info, desc, wrong>>
  /\ UNCHANGED <<may, testVars, running, up, present, power, names>>

-----------------------------------------------------------------------------
(* e1000_diag_test, offline: the interface is closed, the tests of registers *)
(* and EEPROM leave everything as it is, e1000_intr_test has the interrupt   *)
(* for a while, and e1000_loopback_test two rings of its own; at the end the *)
(* interface is opened again.                                                *)
DiagTest ==
  /\ Idle /\ present /\ power = "on" /\ "self_test" \in may
  /\ testing' = IF running THEN "running" ELSE "closed"
  /\ running' = FALSE
  /\ IF running THEN Down(<<"close">>) ELSE Go(<<"intr_test">>) /\ UNCHANGED <<up, wrong>>
  /\ UNCHANGED <<may, test, held, ringVars, present, power, names, given>>

IntrTest ==
  \/ /\ pc = <<"intr_test">>
     /\ \/ held' = held \cup {H("irq")} /\ Go(<<"intr_test_ends">>)
        \/ UNCHANGED held /\ Go(<<"loopback_test", 1>>)
     /\ UNCHANGED wrong
  \/ /\ pc = <<"intr_test_ends">>
     /\ held' = held \ {H("irq")} /\ Say("freed_twice", H("irq") \notin held)
     /\ Go(<<"loopback_test", 1>>)
IntrTestStep ==
  /\ IntrTest
  /\ UNCHANGED <<may, testVars, ringVars, running, up, present, power, names, given>>

(* e1000_setup_desc_rings: array, descriptors and buffers of each ring, as   *)
(* far as there is memory; the pointers tell e1000_free_desc_rings, after    *)
(* the test or a failure, what there is.                                     *)
TestRing == << <<"test_tx", "info">>, <<"test_tx", "desc">>, <<"test_tx", "skbs">>,
               <<"test_rx", "info">>, <<"test_rx", "desc">>, <<"test_rx", "skbs">> >>

SetupDescRings ==
  /\ pc[1] = "loopback_test"
  /\ LET what == TestRing[pc[2]]
         takes == held' = held \cup {what} /\ test' = test \cup {what}
     IN \/ takes /\ Go(IF pc[2] = Len(TestRing) THEN <<"free_desc_rings">>
                       ELSE <<"loopback_test", pc[2] + 1>>)
        \/ UNCHANGED <<held, test>> /\ Go(<<"free_desc_rings">>)
        \/ what[2] = "skbs" /\ takes /\ Go(<<"free_desc_rings">>)
  /\ UNCHANGED <<may, testing, ringVars, running, up, present, power, names, given, wrong>>

Reachable == {what \in test : what[2] = "skbs" =>
                                {<<what[1], "info">>, <<what[1], "desc">>} \subseteq test}

FreeDescRings ==
  /\ pc = <<"free_desc_rings">>
  /\ held' = held \ Reachable /\ Say("freed_twice", ~(Reachable \subseteq held))
  /\ test' = {}
  /\ testing' = "no"
  /\ IF testing = "running" THEN SetUp(tx) ELSE Go(<<"idle">>)
  /\ UNCHANGED <<may, ringVars, running, up, present, power, names, given>>

-----------------------------------------------------------------------------
(* __e1000_shutdown, for suspend.  When pci_save_state fails the interface   *)
(* has been detached and taken down, and the PM core does not resume it.     *)
Suspend ==
  /\ Idle /\ power = "on" /\ "suspend" \in may
  /\ present' = FALSE
  /\ IF running THEN Down(<<"save">>) ELSE Go(<<"save">>) /\ UNCHANGED <<up, wrong>>
  /\ UNCHANGED <<may, testVars, held, ringVars, running, power, names, given>>

Save ==
  /\ pc = <<"save">>
  /\ \/ given' = given \cup {"suspend"} /\ UNCHANGED <<held, power, wrong>>
     \/ /\ held' = held \ ({H("enabled")} \cup (IF running THEN {H("irq")} ELSE {}))
        /\ Say("freed_twice", H("enabled") \notin held \/ (running /\ H("irq") \notin held))
        /\ power' = "off"
        /\ UNCHANGED given
  /\ Go(<<"idle">>)
  /\ UNCHANGED <<may, testVars, ringVars, running, up, present, names>>

(* e1000_resume, which returns when the device or the interrupt cannot be    *)
(* had, and leaves the interface detached.                                   *)
Resume ==
  /\ Idle /\ power = "off"
  /\ power' = "on"
  /\ \/ given' = given \cup {"resume"} /\ UNCHANGED <<held, pc, present>>
     \/ running /\ held' = held \cup {H("enabled")} /\ given' = given \cup {"resume"}
        /\ UNCHANGED <<pc, present>>
     \/ running /\ held' = held \cup {H("enabled"), H("irq")} /\ Go(<<"up">>) /\ UNCHANGED <<given, present>>
     \/ ~running /\ held' = held \cup {H("enabled")} /\ present' = TRUE /\ UNCHANGED <<pc, given>>
  /\ UNCHANGED <<may, testVars, ringVars, running, up, names, wrong>>

(* e1000_io_error_detected: a permanent failure, or one to recover from.     *)
IoErrorDetected ==
  /\ Idle /\ power = "on" /\ "bus_error" \in may
  /\ present' = FALSE
  /\ \/ UNCHANGED <<pc, up, wrong, given>>
     \/ /\ IF running THEN Down(<<"disable">>) ELSE Go(<<"disable">>) /\ UNCHANGED <<up, wrong>>
        /\ given' = given \cup {"bus_error"}
  /\ UNCHANGED <<may, testVars, held, ringVars, running, power, names>>

Disable ==
  /\ pc = <<"disable">>
  /\ held' = held \ {H("enabled")} /\ Say("freed_twice", H("enabled") \notin held)
  /\ power' = "reset"
  /\ Go(<<"idle">>)
  /\ UNCHANGED <<may, testVars, ringVars, running, up, present, names, given>>

(* e1000_io_slot_reset, and e1000_io_resume.                                 *)
IoSlotReset ==
  /\ Idle /\ power = "reset"
  /\ \/ held' = held \cup {H("enabled")} /\ power' = "restart"
     \/ power' = "on" /\ UNCHANGED held
  /\ UNCHANGED <<may, testVars, ringVars, running, up, present, names, pc, given, wrong>>

IoResumeDetached ==
  /\ Idle /\ power = "restart"
  /\ power' = "on" /\ present' = TRUE
  /\ given' = given \ {"bus_error"}
  /\ UNCHANGED <<may, testVars, held, ringVars, running, up, names, pc, wrong>>
IoResume ==
  /\ Idle /\ power = "restart"
  /\ power' = "on"
  /\ given' = given \ {"bus_error"}
  /\ IF running THEN Go(<<"up">>) /\ UNCHANGED present ELSE present' = TRUE /\ UNCHANGED pc
  /\ UNCHANGED <<may, testVars, held, ringVars, running, up, names, wrong>>

-----------------------------------------------------------------------------
(* e1000_remove: dsnap_cleanup, unregister_netdev, which closes, and the     *)
(* rest.                                                                     *)
Remove ==
  /\ Idle /\ power # "off"
  /\ held' = held \ {H("dsnap"), H("registered")}
  /\ names' = [k \in DOMAIN names |-> None]
  /\ running' = FALSE /\ present' = FALSE
  /\ IF running THEN Down(<<"close">>) ELSE Go(<<"free_all">>) /\ UNCHANGED <<up, wrong>>
  /\ UNCHANGED <<may, testVars, ringVars, power, given>>

FreeAll ==
  /\ pc = <<"free_all">>
  /\ held' = held \ {tx, rx, H("mdio"), H("regs"), H("regions"), H("netdev"), H("enabled")}
  /\ Say("freed_twice", ~({tx, rx, H("regs"), H("regions"), H("netdev"), H("enabled")} \subseteq held))
  /\ tx' = None /\ rx' = None
  /\ info' = [r \in Ring |-> FALSE] /\ desc' = [r \in Ring |-> 0]
  /\ power' = "on"
  /\ given' = given \cap Losses
  /\ Go(<<"absent">>)
  /\ UNCHANGED <<may, testVars, newTx, newRx, running, up, present, names>>

-----------------------------------------------------------------------------
(* The watchdog hands rings and adapter to dsnap.  A name that dsnap knows   *)
(* is only updated; a new one, if there is memory for its record, makes      *)
(* dsnap read again everything it knows.                                     *)
SnapNamesAdapterFirst == <<"adapter", "tx", "rx">>
SnapNames == <<"rx", "tx", "adapter">>

Watchdog ==
  /\ Idle /\ up /\ running /\ H("dsnap") \in held /\ power # "off"
  /\ Go(<<"snap", 1>>)
  /\ UNCHANGED <<may, testVars, held, ringVars, running, up, present, power, names, given, wrong>>

AddToBlob ==
  /\ pc[1] = "snap"
  /\ LET name == SnapNames[pc[2]]
         loc  == [rx |-> rx, tx |-> tx, adapter |-> <<"netdev", 0>>][name]
     IN \/ /\ names[name] = None
           /\ given' = IF name = "rx" THEN given \cup {"rx_record"} ELSE given
           /\ UNCHANGED <<names, wrong>>
        \/ /\ UNCHANGED given
           /\ names' = [names EXCEPT ![name] = loc]
           /\ Say("freed_ring_read",
                  names[name] = None /\ \E k \in {"rx", "tx"} : names'[k] \notin held \cup {None})
  /\ Go(IF pc[2] = Len(SnapNames) THEN <<"idle">> ELSE <<"snap", pc[2] + 1>>)
  /\ UNCHANGED <<may, testVars, held, ringVars, running, up, present, power>>

-----------------------------------------------------------------------------
Init ==
  /\ may \in Cases
  /\ held = {} /\ tx = None /\ rx = None /\ newTx = None /\ newRx = None
  /\ info = [r \in Ring |-> FALSE] /\ desc = [r \in Ring |-> 0]
  /\ running = FALSE /\ up = FALSE /\ present = FALSE /\ power = "on"
  /\ names = [k \in {"rx", "tx", "adapter"} |-> None]
  /\ testing = "no" /\ test = {}
  /\ pc = <<"absent">> /\ given = {} /\ wrong = {}

Next ==
  \/ Probe \/ ProbeTakes \/ AllocQueues \/ ProbeFails \/ ProbeUndoes \/ ProbeEnds
  \/ AllocInfo \/ AllocDesc \/ Check \/ AllocAgain \/ CheckAgain
  \/ Open \/ OpenRx \/ ErrSetupRx \/ RequestIrq \/ Up \/ CloseBegins \/ Close
  \/ SetRingparam \/ NewTx \/ NewRx \/ NewRxResources \/ NewTxResources \/ ErrSetupTx
  \/ NewErrSetupRx \/ Swap \/ DiagTest \/ IntrTestStep \/ SetupDescRings \/ FreeDescRings
  \/ Suspend \/ Save \/ Resume \/ IoErrorDetected \/ Disable \/ IoSlotReset \/ IoResume
  \/ Remove \/ FreeAll \/ Watchdog \/ AddToBlob

Spec == Init /\ [][Next]_vars

-----------------------------------------------------------------------------
Object == {H("enabled"), H("regions"), H("netdev"), H("regs"), H("mdio"), H("registered"), H("dsnap"), H("irq")}
          \cup {TestRing[k] : k \in DOMAIN TestRing} \cup Ring \cup {InfoOf(r) : r \in Ring} \cup {DescOf(r, n) : r \in Ring, n \in {1, 2}}

TypeOK ==
  /\ may \in Cases /\ held \subseteq Object
  /\ pc[1] = "probe" => pc[2] \in 1..(Len(ProbeStep) + 1)
  /\ pc[1] = "undo" => pc[2] \in 1..(Len(Undo) + 1)
  /\ pc[1] = "snap" => pc[2] \in 1..3
  /\ {tx, rx, newTx, newRx} \subseteq Ring \cup {None}
  /\ info \in [Ring -> BOOLEAN] /\ desc \in [Ring -> 0..2]
  /\ testing \in {"no", "closed", "running"} /\ test \subseteq Object
  /\ running \in BOOLEAN /\ up \in BOOLEAN /\ present \in BOOLEAN
  /\ power \in {"on", "off", "reset", "restart"}
  /\ {names.rx, names.tx} \subseteq Ring \cup {None}
  /\ given \subseteq Losses \cup {"set_ringparam_while_closed", "suspend", "resume",
                      "bus_error"}
  /\ wrong \subseteq {"freed_twice", "down_twice", "up_twice", "rings_not_set_up", "freed_ring_read"}

(* Nothing is freed, disabled or taken down twice, the rings that e1000_up,  *)
(* e1000_down and a poll use are there, and no operation hangs or oopses,    *)
(* unless a call of the PCI core failed half way, another operation came     *)
(* into a recovery, or e1000_set_ringparam of a closed interface failed.     *)
Halfway == given \ Losses # {}

FreedOnce == [][Halfway \/ (wrong' \ {"freed_ring_read"} \subseteq wrong /\ pc'[1] \notin {"oops", "hang"})]_vars

(* Between operations the driver holds what its state calls for, no more and *)
(* no less, whichever steps failed before; but for the ring structures that  *)
(* e1000_set_ringparam of a closed interface, and a probe that cannot map    *)
(* the MDIO window, lose.                                                    *)
Wanted ==
  IF pc = <<"absent">> THEN {}
  ELSE {H("enabled"), H("regions"), H("netdev"), H("regs"), H("registered"), H("dsnap"), tx, rx}
       \cup (IF "ce4100" \in may THEN {H("mdio")} ELSE {})
       \cup (IF running THEN {H("irq")} \cup Parts({tx, rx}) ELSE {})

NoLeak ==
  /\ TypeOK
  /\ pc[1] \in {"idle", "absent"} /\ ~Halfway =>
       \/ power = "off"
       \/ held = Wanted
       \/ given \cap {"rings", "queues"} # {} /\ Wanted \subseteq held /\ held \ Wanted \subseteq Ring

(* When dsnap reads all structures again, those of before are still there:   *)
(* the watchdog hands over the rings of now before anything else that may    *)
(* have no record yet.  Only if the first of them got no record, for want of *)
(* memory, and rings were replaced since, dsnap reads a ring that was freed. *)
SnapshotReadsLive == "freed_ring_read" \in wrong => "rx_record" \in given

=============================================================================
