------------------------ MODULE E1000ResourcesProof ------------------------
(***************************************************************************)
(* That an e1000 adapter gives back what it has taken, whichever of its     *)
(* operations fail and wherever, for any number of ring structures:         *)
(* theorems about E1000Resources.                                           *)
(***************************************************************************)
EXTENDS E1000Resources, TLAPS

(* Where an operation is: the driver has the adapter between the end of the  *)
(* probe and free_all; it sets up a ring; it tests itself.                   *)
Stuck   == pc[1] \in {"hang", "oops"}
Live    == pc[1] \notin {"absent", "probe", "undo"}
Setting == pc[1] \in {"info", "desc", "check", "desc_again", "check_again"}
Testing == pc[1] \in {"intr_test", "intr_test_ends", "loopback_test", "free_desc_rings"}
NewRings == {"new_rx_resources", "new_tx_resources", "new_err_setup_tx", "new_err_setup_rx"}

RingOf(kind) == {r \in Ring : r[1] = kind}

(* The rings are what their names say, and the new ones are others.          *)
Kinds ==
  /\ tx \in RingOf("tx") \cup {None} /\ rx \in RingOf("rx") \cup {None}
  /\ newTx \in RingOf("tx") \cup {None} /\ newRx \in RingOf("rx") \cup {None}
  /\ names \in [{"rx", "tx", "adapter"} -> Ring \cup {None, <<"netdev", 0>>}]
  /\ names.rx # <<"netdev", 0>> /\ names.tx # <<"netdev", 0>>
  /\ pc[1] = "absent" => pc = <<"absent">>
  /\ Setting => pc[2] \in {tx, rx, newTx, newRx} \ {None}

(* Which flags go with which step: NAPI is enabled for an interface that is  *)
(* up and has power, and only between operations; unless something went      *)
(* wrong half way, an interface that is up has it.                           *)
Flags ==
  /\ up => running /\ power = "on" /\ pc[1] \in {"idle", "snap"}
  /\ pc[1] = "snap" => up
  /\ running =>
       \/ pc[1] \in {"idle", "snap", "up", "new_tx", "new_rx", "swap", "save", "disable"} \cup NewRings
       \/ Setting /\ pc[2] \in {newTx, newRx}
  /\ pc[1] \in NewRings \/ (Setting /\ pc[2] \in {newTx, newRx}) => running
  /\ pc[1] = "up" => running \/ "set_ringparam_while_closed" \in given
  /\ power # "on" => pc[1] \in {"idle", "free_all"}
  /\ power = "off" => pc[1] = "idle"
  /\ power \in {"reset", "restart"} \/ pc[1] = "disable" => "bus_error" \in given
  /\ pc[1] = "idle" /\ running /\ power = "on" /\ ~Halfway => up
  /\ testing # "no" => Testing \/ pc[1] = "close"
  /\ Testing => testing # "no"
  /\ pc[1] = "close" => testing # "closed"

(* e1000_set_ringparam has both new structures.                              *)
Replacing == pc[1] \in {"swap"} \cup NewRings \/ (Setting /\ pc[2] \in {newTx, newRx})

(* The structures that are in use, and those that nobody knows any more.     *)
Structures ==
  /\ Live => tx # None /\ rx # None
  /\ pc[1] = "probe" => (pc[2] > 8 <=> tx # None) /\ (pc[2] > 8 <=> rx # None)
  /\ pc[1] = "undo" /\ pc[2] = 1 => tx # None /\ rx # None
  /\ pc[1] = "absent" => tx = None /\ rx = None
  /\ newTx # None <=> pc[1] = "new_rx" \/ Replacing
  /\ newRx # None <=> Replacing
  /\ newTx # None => newTx # tx
  /\ newRx # None => newRx # rx
  /\ Live \/ pc[1] = "probe" \/ (pc[1] = "undo" /\ pc[2] = 1) =>
       {tx, rx, newTx, newRx} \ {None} \subseteq held
  /\ (\E r \in Ring \ {tx, rx, newTx, newRx} : r \in held) =>
       given \cap {"rings", "queues"} # {}
  /\ pc[1] = "undo" /\ pc[2] > 1 /\ (tx \in held \/ rx \in held) => "queues" \in given

(* The rings that are set up, and the one that is being set up.              *)
Ready ==
  IF Setting THEN IF pc[2] = tx THEN {} ELSE IF pc[2] = rx THEN {tx}
                  ELSE IF pc[2] = newRx THEN {tx, rx} ELSE {tx, rx, newRx}
  ELSE IF pc[1] \in {"open_rx", "err_setup_rx"} THEN {tx}
  ELSE IF pc[1] \in {"open_irq", "close"} THEN {tx, rx}
  ELSE IF pc[1] \in {"new_tx_resources", "new_err_setup_tx"} THEN {tx, rx, newRx}
  ELSE IF running THEN {tx, rx} \cup (IF pc[1] = "swap" THEN {newTx, newRx} ELSE {})
  ELSE {}

Resources ==
  /\ \A r \in Ready : info[r] /\ desc[r] # 0
  /\ \A r \in Ring : InfoOf(r) \in held <=> r \in Ready \/ (Setting /\ pc[1] # "info" /\ r = pc[2])
  /\ \A r \in Ring, n \in {1, 2} :
       DescOf(r, n) \in held <=>
         \/ r \in Ready /\ desc[r] = n
         \/ /\ Setting /\ r = pc[2]
            /\ \/ pc[1] \in {"check", "desc_again"} /\ n = 1
               \/ pc[1] = "check_again"
  /\ pc[1] \in {"desc", "check", "desc_again", "check_again"} => info[pc[2]]
  /\ pc[1] \in {"check", "desc_again"} => desc[pc[2]] = 1
  /\ pc[1] = "check_again" => desc[pc[2]] = 2

(* What e1000_probe takes is there as far as it has come, and then until     *)
(* free_all; the labels free the rest.                                       *)
Basic == [enabled |-> 2, regions |-> 3, netdev |-> 5, regs |-> 6, mdio |-> 10, registered |-> 12]
Undone == [enabled |-> 5, regions |-> 4, netdev |-> 3, regs |-> 2]

Basics ==
  /\ pc[1] = "absent" => \A w \in DOMAIN Basic : H(w) \notin held
  /\ pc[1] = "probe" =>
       \A w \in DOMAIN Basic : H(w) \in held <=> pc[2] >= Basic[w] /\ (w = "mdio" => "ce4100" \in may)
  /\ pc[1] = "undo" =>
       /\ \A w \in DOMAIN Undone : H(w) \in held <=> pc[2] <= Undone[w]
       /\ H("mdio") \in held => "ce4100" \in may /\ pc[2] <= 2
       /\ H("registered") \notin held
  /\ Live =>
       /\ \A w \in {"regions", "netdev", "regs"} : H(w) \in held
       /\ H("mdio") \in held <=> "ce4100" \in may
       /\ H("registered") \in held <=> H("dsnap") \in held
       /\ H("registered") \notin held => pc[1] = "free_all" \/ (pc[1] = "close" /\ testing = "no")
       /\ pc[1] = "free_all" => H("registered") \notin held
  /\ ~Live => H("dsnap") \notin held

(* The device is enabled unless it sleeps or a call of the PCI core failed.  *)
Enabled ==
  Live => /\ power \notin {"off", "reset"} /\ given \cap {"resume", "bus_error"} = {} =>
               H("enabled") \in held
          /\ power = "restart" => H("enabled") \in held

Irq ==
  /\ H("irq") \in held => running \/ pc[1] \in {"close", "intr_test_ends"}
  /\ (running \/ pc[1] = "close") /\ power # "off" /\ "resume" \notin given => H("irq") \in held
  /\ pc[1] = "intr_test_ends" => H("irq") \in held

(* The self-test.                                                            *)
Tests ==
  /\ \A k \in DOMAIN TestRing : TestRing[k] \in held <=> TestRing[k] \in test
  /\ ~(pc[1] \in {"loopback_test", "free_desc_rings"}) => test = {}
  /\ pc[1] = "loopback_test" => pc[2] \in 1..6 /\ test = {TestRing[k] : k \in 1..(pc[2] - 1)}
  /\ pc[1] = "free_desc_rings" => \E m \in 0..6 : test = {TestRing[k] : k \in 1..m}

(* dsnap has the rings of now, unless the first got no record.               *)
Named ==
  "rx_record" \notin given =>
    /\ "freed_ring_read" \notin wrong
    /\ names.rx = None => names.tx = None
    /\ pc[1] = "snap" /\ pc[2] > 1 => names.rx = rx
    /\ pc[1] = "snap" /\ pc[2] = 3 => names.tx \in {None, tx}

(* An operation that hangs or oopses goes no further.                        *)
Inv ==
  /\ TypeOK /\ Kinds /\ Named
  /\ ~Stuck => Flags /\ Structures /\ Resources /\ Basics /\ Enabled /\ Irq /\ Tests

-----------------------------------------------------------------------------
(* The names of what is held are all different.                              *)
LEMMA Apart ==
  /\ \A v, w : H(v) = H(w) <=> v = w
  /\ \A v : \A r \in Ring : H(v) # r
  /\ \A v, r : H(v) # InfoOf(r)
  /\ \A v, r, n : H(v) # DescOf(r, n)
  /\ \A v : \A k \in DOMAIN TestRing : H(v) # TestRing[k]
  /\ \A q, r : InfoOf(q) = InfoOf(r) <=> q = r
  /\ \A q, r, m, n : DescOf(q, m) = DescOf(r, n) <=> q = r /\ m = n
  /\ \A q, r, n : InfoOf(q) # DescOf(r, n)
  /\ \A q : \A r \in Ring : InfoOf(q) # r
  /\ \A q, n : \A r \in Ring : DescOf(q, n) # r
  /\ \A q : \A k \in DOMAIN TestRing : InfoOf(q) # TestRing[k]
  /\ \A q, n : \A k \in DOMAIN TestRing : DescOf(q, n) # TestRing[k]
  /\ \A r \in Ring : \A k \in DOMAIN TestRing : r # TestRing[k]
<1>1. DOMAIN TestRing = 1..6
  BY DEF TestRing
<1>2. \A k \in DOMAIN TestRing : TestRing[k][1] \in {"test_tx", "test_rx"} /\ TestRing[k][2] \in {"info", "desc", "skbs"}
  BY <1>1 DEF TestRing
<1>3. \A r \in Ring : r[1] \in {"tx", "rx"} /\ r[2] \in 1..MaxRing /\ r = <<r[1], r[2]>>
  BY DEF Ring
<1>4. \A v, w : H(v) = H(w) <=> v = w
  BY DEF H
<1>5. \A v : \A r \in Ring : H(v) # r
  BY <1>3 DEF H
<1>6. \A v, r : H(v) # InfoOf(r)
  BY DEF H, InfoOf
<1>7. \A v, r, n : H(v) # DescOf(r, n)
  BY DEF H, DescOf
<1>8. \A v : \A k \in DOMAIN TestRing : H(v) # TestRing[k]
  BY <1>1 DEF H, TestRing
<1>9. \A q, r : InfoOf(q) = InfoOf(r) <=> q = r
  BY DEF InfoOf
<1>10. \A q, r, m, n : DescOf(q, m) = DescOf(r, n) <=> q = r /\ m = n
  BY DEF DescOf
<1>11. \A q, r, n : InfoOf(q) # DescOf(r, n)
  BY DEF InfoOf, DescOf
<1>12. \A q : \A r \in Ring : InfoOf(q) # r
  BY <1>3 DEF InfoOf
<1>13. \A q, n : \A r \in Ring : DescOf(q, n) # r
  BY <1>3 DEF DescOf
<1>14. \A q : \A k \in DOMAIN TestRing : InfoOf(q) # TestRing[k]
  BY <1>2 DEF InfoOf
<1>15. \A q, n : \A k \in DOMAIN TestRing : DescOf(q, n) # TestRing[k]
  BY <1>2 DEF DescOf
<1>16. \A r \in Ring : \A k \in DOMAIN TestRing : r # TestRing[k]
  BY <1>2, <1>3
<1>17. QED
  BY <1>4, <1>5, <1>6, <1>7, <1>8, <1>9, <1>10, <1>11, <1>12, <1>13, <1>14, <1>15, <1>16

LEMMA Tables ==
  /\ Len(ProbeStep) = 11 /\ DOMAIN ProbeStep = 1..11
  /\ Len(Undo) = 5
  /\ DOMAIN TestRing = 1..6 /\ Len(TestRing) = 6
  /\ DOMAIN Basic = {"enabled", "regions", "netdev", "regs", "mdio", "registered"}
  /\ DOMAIN Undone = {"enabled", "regions", "netdev", "regs"}
<1>1. Len(ProbeStep) = 11 /\ DOMAIN ProbeStep = 1..11
  BY DEF ProbeStep
<1>2. Len(Undo) = 5
  BY DEF Undo
<1>3. DOMAIN TestRing = 1..6 /\ Len(TestRing) = 6
  BY DEF TestRing
<1>4. DOMAIN Basic = {"enabled", "regions", "netdev", "regs", "mdio", "registered"}
  BY DEF Basic
<1>5. DOMAIN Undone = {"enabled", "regions", "netdev", "regs"}
  BY DEF Undone
<1>6. QED
  BY <1>1, <1>2, <1>3, <1>4, <1>5
(* Ring structures of the two kinds are different.                           *)
LEMMA TwoKinds ==
  ASSUME Kinds
  PROVE  /\ {tx, rx, newTx, newRx} \subseteq Ring \cup {None} /\ None \notin Ring
         /\ \A a \in {tx, newTx}, b \in {rx, newRx} : a = b => a = None
         /\ None # <<"netdev", 0>> /\ \A r \in Ring : r # <<"netdev", 0>>
<1>1. None \notin Ring /\ None # <<"netdev", 0>> /\ \A r \in Ring : r # <<"netdev", 0>>
  BY DEF Ring, None
<1>2. RingOf("tx") \cap RingOf("rx") = {} /\ RingOf("tx") \subseteq Ring /\ RingOf("rx") \subseteq Ring
  BY DEF RingOf
<1>3. QED
  BY <1>1, <1>2 DEF Kinds

(* What an operation that starts finds.                                      *)
LEMMA AtIdle ==
  ASSUME Inv, pc = <<"idle">>
  PROVE  /\ newTx = None /\ newRx = None /\ tx \in Ring /\ rx \in Ring /\ tx # rx
         /\ testing = "no" /\ test = {} /\ {tx, rx} \subseteq held
         /\ Ready = IF running THEN {tx, rx} ELSE {}
         /\ running /\ power = "on" /\ ~Halfway => up
         /\ up => running /\ power = "on"
         /\ \A w \in {"regions", "netdev", "regs", "registered", "dsnap"} : H(w) \in held
<1>1. pc[1] = "idle"
  OBVIOUS
<1>2. Kinds /\ Flags /\ Structures /\ Tests /\ TypeOK /\ Basics
  BY <1>1 DEF Inv, Stuck
<1>3. newTx = None /\ newRx = None /\ tx # None /\ rx # None
  BY <1>1, <1>2 DEF Structures, Replacing, Live, Setting, NewRings
<1>4. tx \in Ring /\ rx \in Ring /\ tx # rx
  BY <1>2, <1>3, TwoKinds
<1>5. test = {} /\ testing = "no"
  BY <1>1, <1>2 DEF Tests, Flags, Testing
<1>6. {tx, rx} \subseteq held
  BY <1>1, <1>2, <1>3 DEF Structures, Live
<1>7. Ready = IF running THEN {tx, rx} ELSE {}
  BY <1>1 DEF Ready, Setting
<1>8. /\ running /\ power = "on" /\ ~Halfway => up
      /\ up => running /\ power = "on"
  BY <1>1, <1>2 DEF Flags
<1>9. \A w \in {"regions", "netdev", "regs", "registered", "dsnap"} : H(w) \in held
  BY <1>1, <1>2 DEF Basics, Live
<1>10. QED
  BY <1>3, <1>4, <1>5, <1>6, <1>7, <1>8, <1>9

LEMMA Objects ==
  /\ \A v \in {"enabled", "regions", "netdev", "regs", "mdio", "registered", "dsnap", "irq"} : H(v) \in Object
  /\ \A k \in DOMAIN TestRing : TestRing[k] \in Object
  /\ Ring \subseteq Object
  /\ \A r \in Ring : InfoOf(r) \in Object
  /\ \A r \in Ring, n \in {1, 2} : DescOf(r, n) \in Object
  /\ None \notin Object
<1>1. \A v : H(v) # None
  BY DEF H, None
<1>2. \A k \in DOMAIN TestRing : TestRing[k] # None
  BY DEF TestRing, None
<1>3. None \notin Ring
  BY DEF Ring, None
<1>4. \A r : InfoOf(r) # None
  BY DEF InfoOf, None
<1>5. \A r, n : DescOf(r, n) # None
  BY DEF DescOf, None
<1>6. QED
  BY <1>1, <1>2, <1>3, <1>4, <1>5 DEF Object

LEMMA Cleared ==
  ASSUME TypeOK, NEW rs, Clear(rs)
  PROVE  /\ info' \in [Ring -> BOOLEAN] /\ desc' \in [Ring -> 0..2]
         /\ \A r \in Ring : info'[r] <=> r \notin rs /\ info[r]
         /\ \A r \in Ring : desc'[r] = (IF r \in rs THEN 0 ELSE desc[r])
<1>1. info \in [Ring -> BOOLEAN] /\ desc \in [Ring -> 0..2]
  BY DEF TypeOK
<1>2. \A r \in Ring : (IF r \in rs THEN FALSE ELSE info[r]) \in BOOLEAN
  BY <1>1
<1>3. \A r \in Ring : (IF r \in rs THEN 0 ELSE desc[r]) \in 0..2
  BY <1>1
<1>4. info' \in [Ring -> BOOLEAN] /\ desc' \in [Ring -> 0..2]
  BY <1>2, <1>3 DEF Clear
<1>5. \A r \in Ring : info'[r] <=> r \notin rs /\ info[r]
  BY <1>1 DEF Clear
<1>6. \A r \in Ring : desc'[r] = (IF r \in rs THEN 0 ELSE desc[r])
  BY DEF Clear
<1>7. QED
  BY <1>4, <1>5, <1>6

(* The tables of the probe agree: what is taken at a step is there from the  *)
(* next step on, and a failure goes to the label that frees what is there.   *)
LEMMA Steps ==
  /\ \A i \in 1..11 : /\ ProbeStep[i][1] \in DOMAIN Basic \cup {"nothing", "queues"}
                      /\ ProbeStep[i][1] = "queues" <=> i = 8
                      /\ ProbeStep[i][1] = "mdio" <=> i = 9
  /\ \A i \in 1..11 : \A w \in DOMAIN Basic : ProbeStep[i][1] = w <=> Basic[w] = i + 1
  /\ LabelOf(ProbeStep[1][2]) = 6 /\ LabelOf(ProbeStep[2][2]) = 5 /\ LabelOf(ProbeStep[3][2]) = 4
  /\ LabelOf(ProbeStep[4][2]) = 4 /\ LabelOf(ProbeStep[5][2]) = 3
  /\ \A i \in 6..9 : LabelOf(ProbeStep[i][2]) = 2
  /\ \A i \in 10..11 : LabelOf(ProbeStep[i][2]) = 1
<1>1. /\ ProbeStep[1] = <<"enabled", "out">> /\ ProbeStep[2] = <<"regions", "err_pci_reg">>
      /\ ProbeStep[3] = <<"nothing", "err_alloc_etherdev">> /\ ProbeStep[4] = <<"netdev", "err_alloc_etherdev">>
      /\ ProbeStep[5] = <<"regs", "err_ioremap">> /\ ProbeStep[6] = <<"nothing", "err_sw_init">>
      /\ ProbeStep[7] = <<"nothing", "err_dma">> /\ ProbeStep[8] = <<"queues", "err_sw_init">>
      /\ ProbeStep[9] = <<"mdio", "err_mdio_ioremap">> /\ ProbeStep[10] = <<"nothing", "err_eeprom">>
      /\ ProbeStep[11] = <<"registered", "err_register">>
  BY DEF ProbeStep
<1>2. \A i \in 1..11 : \/ i = 1 \/ i = 2 \/ i = 3 \/ i = 4 \/ i = 5 \/ i = 6 \/ i = 7 \/ i = 8
                       \/ i = 9 \/ i = 10 \/ i = 11
  OBVIOUS
<1>3. /\ ProbeStep[1][1] = "enabled" /\ ProbeStep[2][1] = "regions" /\ ProbeStep[3][1] = "nothing"
      /\ ProbeStep[4][1] = "netdev" /\ ProbeStep[5][1] = "regs" /\ ProbeStep[6][1] = "nothing"
      /\ ProbeStep[7][1] = "nothing" /\ ProbeStep[8][1] = "queues" /\ ProbeStep[9][1] = "mdio"
      /\ ProbeStep[10][1] = "nothing" /\ ProbeStep[11][1] = "registered"
  BY <1>1
<1>4. /\ Basic["enabled"] = 2 /\ Basic["regions"] = 3 /\ Basic["netdev"] = 5 /\ Basic["regs"] = 6
      /\ Basic["mdio"] = 10 /\ Basic["registered"] = 12
  BY DEF Basic
<1>5. \A i \in 1..11 : /\ ProbeStep[i][1] \in DOMAIN Basic \cup {"nothing", "queues"}
                       /\ ProbeStep[i][1] = "queues" <=> i = 8
                       /\ ProbeStep[i][1] = "mdio" <=> i = 9
  BY <1>2, <1>3, Tables
<1>6. \A i \in 1..11 : \A w \in DOMAIN Basic : ProbeStep[i][1] = w <=> Basic[w] = i + 1
  BY <1>2, <1>3, <1>4, Tables
<1>7. /\ LabelOf(ProbeStep[1][2]) = 6 /\ LabelOf(ProbeStep[2][2]) = 5 /\ LabelOf(ProbeStep[3][2]) = 4
      /\ LabelOf(ProbeStep[4][2]) = 4 /\ LabelOf(ProbeStep[5][2]) = 3
      /\ LabelOf(ProbeStep[6][2]) = 2 /\ LabelOf(ProbeStep[7][2]) = 2 /\ LabelOf(ProbeStep[8][2]) = 2
      /\ LabelOf(ProbeStep[9][2]) = 2 /\ LabelOf(ProbeStep[10][2]) = 1 /\ LabelOf(ProbeStep[11][2]) = 1
  BY <1>1 DEF LabelOf, Label
<1>8. QED
  BY <1>5, <1>6, <1>7

LEMMA Labels ==
  /\ Undo[1] = {tx, rx} /\ Undo[2] = {H("mdio"), H("regs")} /\ Undo[3] = {H("netdev")}
  /\ Undo[4] = {H("regions")} /\ Undo[5] = {H("enabled")}
  /\ Undone["enabled"] = 5 /\ Undone["regions"] = 4 /\ Undone["netdev"] = 3 /\ Undone["regs"] = 2
BY DEF Undo, Undone

LEMMA Distinct == \A j, k \in DOMAIN TestRing : TestRing[j] = TestRing[k] <=> j = k
<1>1. /\ TestRing[1] = <<"test_tx", "info">> /\ TestRing[2] = <<"test_tx", "desc">>
      /\ TestRing[3] = <<"test_tx", "skbs">> /\ TestRing[4] = <<"test_rx", "info">>
      /\ TestRing[5] = <<"test_rx", "desc">> /\ TestRing[6] = <<"test_rx", "skbs">>
  BY DEF TestRing
<1>2. \A k \in DOMAIN TestRing : k = 1 \/ k = 2 \/ k = 3 \/ k = 4 \/ k = 5 \/ k = 6
  BY Tables
<1>3. QED
  BY <1>1, <1>2

(* The pointers lead to all that test_tx_ring and test_rx_ring have: the     *)
(* array and the descriptors of a ring come before its buffers.              *)
LEMMA AllReachable ==
  ASSUME \E m \in 0..6 : test = {TestRing[k] : k \in 1..m}
  PROVE  Reachable = test
<1>1. /\ TestRing[1] = <<"test_tx", "info">> /\ TestRing[2] = <<"test_tx", "desc">>
      /\ TestRing[3] = <<"test_tx", "skbs">> /\ TestRing[4] = <<"test_rx", "info">>
      /\ TestRing[5] = <<"test_rx", "desc">> /\ TestRing[6] = <<"test_rx", "skbs">>
  BY DEF TestRing
<1>2. PICK m \in 0..6 : test = {TestRing[k] : k \in 1..m}
  OBVIOUS
<1>3. ASSUME NEW k \in 1..m, TestRing[k][2] = "skbs"
      PROVE  {<<TestRing[k][1], "info">>, <<TestRing[k][1], "desc">>} \subseteq test
  <2>1. k = 1 \/ k = 2 \/ k = 3 \/ k = 4 \/ k = 5 \/ k = 6
    BY <1>2
  <2>2. TestRing[1][2] # "skbs" /\ TestRing[2][2] # "skbs" /\ TestRing[4][2] # "skbs" /\ TestRing[5][2] # "skbs"
    BY <1>1
  <2>3. CASE k = 3
    <3>1. 1 \in 1..m /\ 2 \in 1..m
      BY <1>2, <2>3
    <3>2. TestRing[1] \in test /\ TestRing[2] \in test /\ TestRing[k][1] = "test_tx"
      BY <3>1, <1>2, <2>3, <1>1
    <3>3. QED
      BY <3>2, <1>1
  <2>4. CASE k = 6
    <3>1. 4 \in 1..m /\ 5 \in 1..m
      BY <1>2, <2>4
    <3>2. TestRing[4] \in test /\ TestRing[5] \in test /\ TestRing[k][1] = "test_rx"
      BY <3>1, <1>2, <2>4, <1>1
    <3>3. QED
      BY <3>2, <1>1
  <2>5. QED
    BY <2>1, <2>2, <2>3, <2>4, <1>3
<1>4. QED
  BY <1>2, <1>3 DEF Reachable

-----------------------------------------------------------------------------
(* Whichever step of a set-up is next, and wherever it ends, only the        *)
(* resources of the one ring change.                                         *)
SetUpFrame ==
  UNCHANGED <<may, testVars, tx, rx, newTx, newRx, running, up,
              present, power, names, given, wrong>>

(* All that is held but buffer arrays and descriptors stays.                 *)
OthersKept ==
  /\ \A v : H(v) \in held' <=> H(v) \in held
  /\ \A r \in Ring : r \in held' <=> r \in held
  /\ \A k \in DOMAIN TestRing : TestRing[k] \in held' <=> TestRing[k] \in held

(* Where a set-up ends, by the ring.                                         *)
LEMMA Ends ==
  ASSUME Inv, Setting
  PROVE  /\ pc[2] \in Ring /\ pc[2] \notin Ready
         /\ \/ /\ pc[2] = tx /\ ~running /\ newTx = None /\ newRx = None
               /\ Done(pc[2]) = <<"open_rx">> /\ Failed(pc[2]) = <<"idle">>
            \/ /\ pc[2] = rx /\ ~running /\ newTx = None /\ newRx = None
               /\ Done(pc[2]) = <<"open_irq">> /\ Failed(pc[2]) = <<"err_setup_rx">>
            \/ /\ pc[2] = newRx /\ newRx \notin {None, tx, rx} /\ newTx \notin {None, tx, rx, newRx} /\ running
               /\ Done(pc[2]) = <<"new_tx_resources">> /\ Failed(pc[2]) = <<"new_err_setup_rx">>
            \/ /\ pc[2] = newTx /\ newRx \notin {None, tx, rx} /\ newTx \notin {None, tx, rx, newRx} /\ running
               /\ Done(pc[2]) = <<"swap">> /\ Failed(pc[2]) = <<"new_err_setup_tx">>
         /\ tx \in Ring /\ rx \in Ring /\ tx # rx
<1>1. Kinds /\ Flags /\ Structures /\ ~Stuck
  BY DEF Inv, Stuck, Setting
<1>2. None \notin Ring /\ None # <<"netdev", 0>> /\ \A r \in Ring : r # <<"netdev", 0>>
  BY DEF Ring, None
<1>3. RingOf("tx") \cap RingOf("rx") = {} /\ RingOf("tx") \subseteq Ring /\ RingOf("rx") \subseteq Ring
  BY DEF RingOf
<1>4. tx \in RingOf("tx") /\ rx \in RingOf("rx")
  BY <1>1 DEF Structures, Kinds, Live, Setting
<1>5. pc[2] \in {tx, rx, newTx, newRx} \ {None}
  BY <1>1 DEF Kinds
<1>6. CASE pc[2] \in {newTx, newRx}
  <2>1. newTx # None /\ newRx # None /\ newTx # tx /\ newRx # rx /\ running
    BY <1>1, <1>6, <1>5 DEF Structures, Replacing, Flags
  <2>2. newTx \in RingOf("tx") /\ newRx \in RingOf("rx")
    BY <1>1, <2>1 DEF Kinds
  <2>3. newTx \notin {tx, rx, newRx} /\ newRx \notin {tx, rx} /\ tx # rx
    BY <2>1, <2>2, <1>3, <1>4
  <2>4. pc[2] \in Ring /\ pc[2] \notin Ready
    BY <2>2, <2>3, <1>3, <1>6 DEF Ready, Setting
  <2>5. QED
    BY <2>1, <2>2, <2>3, <2>4, <1>2, <1>3, <1>4, <1>6 DEF Done, Failed
<1>7. CASE pc[2] \notin {newTx, newRx}
  <2>1. newTx = None /\ newRx = None /\ ~running
    BY <1>1, <1>7 DEF Structures, Replacing, Flags, NewRings, Setting
  <2>2. tx # rx /\ tx \in Ring /\ rx \in Ring
    BY <1>3, <1>4
  <2>3. pc[2] \in {tx, rx}
    BY <1>5, <1>7
  <2>4. pc[2] \notin Ready
    BY <2>2, <2>3 DEF Ready, Setting
  <2>5. QED
    BY <2>1, <2>2, <2>3, <2>4, <1>2 DEF Done, Failed
<1>8. QED
  BY <1>6, <1>7

LEMMA SetUpStep ==
  ASSUME Inv, Setting, SetUpFrame, OthersKept,
         \/ pc' = Done(pc[2]) \/ pc' = Failed(pc[2])
         \/ \E w \in {"desc", "check", "desc_again", "check_again"} : pc' = <<w, pc[2]>>
  PROVE  /\ Kinds' /\ Flags' /\ Structures' /\ Basics' /\ Enabled' /\ Irq' /\ Tests' /\ Named'
         /\ pc' = Done(pc[2]) => Ready' = Ready \cup {pc[2]} /\ ~Setting'
         /\ pc' = Failed(pc[2]) => Ready' = Ready /\ ~Setting'
         /\ Setting' => Ready' = Ready /\ pc'[2] = pc[2]
<1>1. Kinds /\ Flags /\ Structures /\ Basics /\ Enabled /\ Irq /\ Tests /\ Named
  BY DEF Inv, Stuck, Setting
<1>2. /\ UNCHANGED <<may, testing, test, tx, rx, newTx, newRx>>
      /\ UNCHANGED <<running, up, present, power, names, given, wrong>>
  BY DEF SetUpFrame, testVars
<1>3. \/ /\ pc[2] = tx /\ ~running /\ newTx = None /\ newRx = None
         /\ pc' = <<"open_rx">> \/ pc' = <<"idle">>
      \/ /\ pc[2] = rx /\ ~running /\ newTx = None /\ newRx = None
         /\ pc' = <<"open_irq">> \/ pc' = <<"err_setup_rx">>
      \/ /\ pc[2] = newRx /\ newRx \notin {None, tx, rx} /\ newTx \notin {None, tx, rx, newRx} /\ running
         /\ pc' = <<"new_tx_resources">> \/ pc' = <<"new_err_setup_rx">>
      \/ /\ pc[2] = newTx /\ newRx \notin {None, tx, rx} /\ newTx \notin {None, tx, rx, newRx} /\ running
         /\ pc' = <<"swap">> \/ pc' = <<"new_err_setup_tx">>
      \/ /\ pc' = <<pc'[1], pc[2]>> /\ pc'[2] = pc[2]
         /\ pc'[1] \in {"desc", "check", "desc_again", "check_again"}
  BY Ends
<1>4. tx \in Ring /\ rx \in Ring /\ tx # rx /\ pc[2] \in Ring /\ pc[2] \notin Ready
  BY Ends
<1>5. Kinds'
  BY <1>1, <1>2, <1>3, <1>4 DEF Kinds, Setting
<1>6. Flags'
  BY <1>1, <1>2, <1>3, <1>4 DEF Flags, Setting, NewRings, Testing, Halfway
<1>7. Structures'
  <2>1. {tx, rx, newTx, newRx} \ {None} \subseteq Ring
    BY <1>1 DEF Kinds, RingOf
  <2>2. {tx, rx, newTx, newRx} \ {None} \subseteq held'
    BY <1>1, <2>1 DEF Structures, Setting, Live, OthersKept
  <2>3. (\E r \in Ring \ {tx, rx, newTx, newRx} : r \in held') => given \cap {"rings", "queues"} # {}
    BY <1>1 DEF Structures, OthersKept
  <2>4. /\ tx # None /\ rx # None
        /\ (newTx # None <=> Replacing') /\ (newRx # None <=> Replacing') /\ pc'[1] # "new_rx"
        /\ pc'[1] \notin {"probe", "undo", "absent"}
    <3>1. (newTx # None <=> Replacing) /\ (newRx # None <=> Replacing) /\ tx # None /\ rx # None
      BY <1>1 DEF Structures, Setting, Live, Replacing
    <3>2. Replacing' <=> Replacing
      BY <1>2, <1>3, <1>4, <3>1 DEF Replacing, Setting, NewRings
    <3>3. QED
      BY <3>1, <3>2, <1>3
  <2>5. QED
    BY <1>1, <1>2, <2>2, <2>3, <2>4 DEF Structures
<1>8. Basics'
  BY <1>1, <1>2, <1>3, <1>4 DEF Basics, Setting, Live, OthersKept
<1>9. Enabled' /\ Irq'
  BY <1>1, <1>2, <1>3, <1>4 DEF Enabled, Irq, Setting, Live, OthersKept
<1>10. Tests'
  BY <1>1, <1>2, <1>3, <1>4 DEF Tests, Setting, OthersKept
<1>11. Named'
  BY <1>1, <1>2, <1>3, <1>4 DEF Named, Setting
<1>12. /\ pc' = Done(pc[2]) => Ready' = Ready \cup {pc[2]} /\ ~Setting'
       /\ pc' = Failed(pc[2]) => Ready' = Ready /\ ~Setting'
       /\ Setting' => Ready' = Ready /\ pc'[2] = pc[2]
  <2>1. Setting => Ready = IF pc[2] = tx THEN {} ELSE IF pc[2] = rx THEN {tx}
                           ELSE IF pc[2] = newRx THEN {tx, rx} ELSE {tx, rx, newRx}
    BY DEF Ready
  <2>2. Setting' => Ready' = (IF pc[2] = tx THEN {} ELSE IF pc[2] = rx THEN {tx}
                             ELSE IF pc[2] = newRx THEN {tx, rx} ELSE {tx, rx, newRx}) /\ pc'[2] = pc[2]
    BY <1>2, <1>3 DEF Ready, Setting
  <2>3. CASE pc' = Done(pc[2])
    BY <2>1, <2>3, <1>2, <1>3, <1>4, Ends DEF Ready, Setting, NewRings
  <2>4. CASE pc' = Failed(pc[2])
    BY <2>1, <2>4, <1>2, <1>3, <1>4, Ends DEF Ready, Setting, NewRings
  <2>5. QED
    BY <2>1, <2>2, <2>3, <2>4 DEF Setting
<1>13. QED
  BY <1>5, <1>6, <1>7, <1>8, <1>9, <1>10, <1>11, <1>12

-----------------------------------------------------------------------------
(* e1000_probe keeps the invariant.                                          *)
LEMMA ProbeInv ==
  ASSUME Inv, Probe
  PROVE  Inv'
<1>1. /\ pc = <<"absent">> /\ pc[1] = "absent"
      /\ pc' = <<"probe", 1>> /\ pc'[1] = "probe" /\ pc'[2] = 1
      /\ wrong' = {}
      /\ UNCHANGED <<may, testing, test, held, tx, rx, info, desc, newTx, newRx,
                     running, up, present, power, names, given>>
  BY DEF Probe, Go, testVars, ringVars
<1>2. /\ TypeOK /\ Kinds /\ Flags /\ Structures /\ Resources
      /\ Basics /\ Enabled /\ Irq /\ Tests /\ Named
  BY <1>1 DEF Inv, Stuck
<1>3. TypeOK'
  BY <1>1, <1>2 DEF TypeOK
<1>4. Kinds'
  BY <1>1, <1>2 DEF Kinds, Setting, Structures, Live
<1>5. Flags'
  BY <1>1, <1>2 DEF Flags, Setting, Testing, NewRings, Structures, Replacing, Live, Kinds,
     Halfway
<1>6. Structures'
  BY <1>1, <1>2 DEF Structures, Setting, Live, NewRings, Replacing
<1>7. Resources'
  BY <1>1, <1>2 DEF Resources, Ready, Setting, NewRings, Live, Flags, Structures, Replacing
<1>8. Basics'
  BY <1>1, <1>2, Tables DEF Basics, Live, Basic
<1>9. Enabled'
  BY <1>1, <1>2 DEF Enabled, Live
<1>10. Irq'
  BY <1>1, <1>2 DEF Irq, Live, Flags
<1>11. Tests'
  BY <1>1, <1>2 DEF Tests
<1>12. Named'
  BY <1>1, <1>2 DEF Named
<1>13. QED
  BY <1>3, <1>4, <1>5, <1>6, <1>7, <1>8, <1>9, <1>10, <1>11, <1>12 DEF Inv

LEMMA ProbeTakesInv ==
  ASSUME Inv, ProbeTakes
  PROVE  Inv'
<1>1. /\ pc[1] = "probe" /\ pc[2] \in 1..11
      /\ pc' = <<"probe", pc[2] + 1>>
      /\ ProbeStep[pc[2]][1] # "queues"
      /\ held' = IF ProbeStep[pc[2]][1] = "nothing" \/ Skipped(ProbeStep[pc[2]][1]) THEN held ELSE held \cup {H(ProbeStep[pc[2]][1])}
      /\ UNCHANGED <<may, testing, test, tx, rx, info, desc, newTx, newRx, running,
                     up, present, power, names, given, wrong>>
  BY Tables DEF ProbeTakes, Go, testVars, ringVars
<1>2. /\ TypeOK /\ Kinds /\ Flags /\ Structures /\ Resources
      /\ Basics /\ Enabled /\ Irq /\ Tests /\ Named
  BY <1>1 DEF Inv, Stuck
<1>3. pc'[1] = "probe" /\ pc'[2] = pc[2] + 1 /\ pc'[2] \in 1..12 /\ pc[2] # 8
  BY <1>1, Steps
<1>4. ProbeStep[pc[2]][1] \in DOMAIN Basic \cup {"nothing"}
  BY <1>1, Steps
<1>5. /\ \A v : H(v) \in held' <=> H(v) \in held \/ (v = ProbeStep[pc[2]][1] /\ v # "nothing" /\ ~Skipped(v))
      /\ \A r \in Ring : r \in held' <=> r \in held
      /\ \A r \in Ring : InfoOf(r) \in held' <=> InfoOf(r) \in held
      /\ \A r \in Ring, n \in {1, 2} : DescOf(r, n) \in held' <=> DescOf(r, n) \in held
      /\ \A k \in DOMAIN TestRing : TestRing[k] \in held' <=> TestRing[k] \in held
  BY <1>1, Apart, Tables
<1>6. held' \subseteq Object
  BY <1>1, <1>2, <1>4, Tables, Objects DEF TypeOK
<1>7. \A v \in DOMAIN Basic : H(v) \in held' <=> H(v) \in held \/ (Basic[v] = pc[2] + 1 /\ (v = "mdio" => "ce4100" \in may))
  BY <1>1, <1>4, <1>5, Steps, Tables DEF Skipped
<1>8. \A v \in DOMAIN Basic : Basic[v] \in 0..12
  BY Tables DEF Basic
<1>9. H("dsnap") \notin held' /\ (H("irq") \in held' <=> H("irq") \in held)
  BY <1>1, <1>2, <1>4, <1>5, Tables DEF Basics, Live
<1>10. tx # None <=> pc[2] > 8
  BY <1>1, <1>2 DEF Structures
<1>11. rx # None <=> pc[2] > 8
  BY <1>1, <1>2 DEF Structures
<1>12. TypeOK'
  BY <1>1, <1>2, <1>3, <1>6, Tables DEF TypeOK
<1>13. Kinds'
  BY <1>1, <1>2, <1>3, <1>4, <1>5, <1>6, <1>7, <1>8, <1>9, <1>10, <1>11 DEF Kinds, Setting,
     Structures, Live
<1>14. Flags'
  BY <1>1, <1>2, <1>3, <1>4, <1>5, <1>6, <1>7, <1>8, <1>9, <1>10, <1>11 DEF Flags, Setting,
     Testing, NewRings, Structures, Replacing, Live, Kinds, Halfway
<1>15. Structures'
  BY <1>1, <1>2, <1>3, <1>4, <1>5, <1>6, <1>7, <1>8, <1>9, <1>10, <1>11 DEF Structures, Setting,
     Live, NewRings, Replacing
<1>16. Resources'
  BY <1>1, <1>2, <1>3, <1>4, <1>5, <1>6, <1>7, <1>8, <1>9, <1>10, <1>11 DEF Resources, Ready,
     Setting, NewRings, Live, Flags, Structures, Replacing
<1>17. Basics'
  <2>1. \A v \in DOMAIN Basic : H(v) \in held' <=> pc'[2] >= Basic[v] /\ (v = "mdio" => "ce4100" \in may)
    <3>1. \A v \in DOMAIN Basic : H(v) \in held <=> pc[2] >= Basic[v] /\ (v = "mdio" => "ce4100" \in may)
      BY <1>1, <1>2 DEF Basics
    <3>2. QED
      BY <3>1, <1>1, <1>3, <1>7, <1>8
  <2>2. QED
    BY <2>1, <1>1, <1>3, <1>9 DEF Basics, Live
<1>18. Enabled'
  BY <1>1, <1>2, <1>3, <1>4, <1>5, <1>6, <1>7, <1>8, <1>9, <1>10, <1>11 DEF Enabled, Live
<1>19. Irq'
  BY <1>1, <1>2, <1>3, <1>4, <1>5, <1>6, <1>7, <1>8, <1>9, <1>10, <1>11 DEF Irq, Live, Flags
<1>20. Tests'
  BY <1>1, <1>2, <1>3, <1>4, <1>5, <1>6, <1>7, <1>8, <1>9, <1>10, <1>11 DEF Tests
<1>21. Named'
  BY <1>1, <1>2, <1>3, <1>4, <1>5, <1>6, <1>7, <1>8, <1>9, <1>10, <1>11 DEF Named
<1>22. QED
  BY <1>12, <1>13, <1>14, <1>15, <1>16, <1>17, <1>18, <1>19, <1>20, <1>21 DEF Inv

LEMMA AllocQueuesInv ==
  ASSUME Inv, AllocQueues
  PROVE  Inv'
<1>1. /\ pc[1] = "probe" /\ pc[2] \in 1..11
      /\ pc' = <<"probe", pc[2] + 1>>
      /\ ProbeStep[pc[2]][1] = "queues"
      /\ tx' \in Free("tx") /\ rx' \in Free("rx") /\ held' = held \cup {tx', rx'}
      /\ UNCHANGED <<may, testing, test, info, desc, newTx, newRx, running, up,
                     present, power, names, given, wrong>>
  BY Tables DEF AllocQueues, Go, Fresh, testVars, ringVars
<1>2. /\ TypeOK /\ Kinds /\ Flags /\ Structures /\ Resources
      /\ Basics /\ Enabled /\ Irq /\ Tests /\ Named
  BY <1>1 DEF Inv, Stuck
<1>3. /\ {tx, rx, newTx, newRx} \subseteq Ring \cup {None} /\ None \notin Ring
      /\ \A a \in {tx, newTx}, b \in {rx, newRx} : a = b => a = None
      /\ None # <<"netdev", 0>>
  BY <1>2, TwoKinds
<1>4. pc'[1] = "probe" /\ pc'[2] = 9 /\ pc[2] = 8
  BY <1>1, Steps
<1>5. tx' \in Ring /\ tx' \in RingOf("tx") /\ tx' \notin held /\ rx' \in Ring /\ rx' \in RingOf("rx") /\ rx' \notin held
  BY <1>1 DEF Free, RingOf
<1>6. tx = None /\ rx = None /\ newTx = None /\ newRx = None /\ ~running
  BY <1>1, <1>2, <1>4 DEF Structures, Flags, Setting, NewRings, Replacing
<1>7. /\ \A v : H(v) \in held' <=> H(v) \in held
      /\ \A r \in Ring : r \in held' <=> r \in held \/ r \in {tx', rx'}
      /\ \A r \in Ring : InfoOf(r) \in held' <=> InfoOf(r) \in held
      /\ \A r \in Ring, n \in {1, 2} : DescOf(r, n) \in held' <=> DescOf(r, n) \in held
      /\ \A k \in DOMAIN TestRing : TestRing[k] \in held' <=> TestRing[k] \in held
  BY <1>1, <1>5, Apart, Tables
<1>8. \A v \in DOMAIN Basic : Basic[v] \in {2, 3, 5, 6, 10, 12}
  BY Tables DEF Basic
<1>9. TypeOK'
  BY <1>1, <1>2, <1>3, <1>4, <1>5, <1>6, <1>7, <1>8, Objects, Tables DEF TypeOK
<1>10. Kinds'
  BY <1>1, <1>2, <1>3, <1>4, <1>5, <1>6, <1>7, <1>8 DEF Kinds, Setting, Structures, Live
<1>11. Flags'
  BY <1>1, <1>2, <1>3, <1>4, <1>5, <1>6, <1>7, <1>8 DEF Flags, Setting, Testing, NewRings,
     Structures, Replacing, Live, Kinds, Halfway
<1>12. Structures'
  BY <1>1, <1>2, <1>3, <1>4, <1>5, <1>6, <1>7, <1>8 DEF Structures, Setting, Live, NewRings,
     Replacing
<1>13. Resources'
  BY <1>1, <1>2, <1>3, <1>4, <1>5, <1>6, <1>7, <1>8 DEF Resources, Ready, Setting, NewRings,
     Live, Flags, Structures, Replacing
<1>14. Basics'
  BY <1>1, <1>2, <1>4, <1>7, <1>8 DEF Basics, Live
<1>15. Enabled'
  BY <1>1, <1>2, <1>3, <1>4, <1>5, <1>6, <1>7, <1>8 DEF Enabled, Live
<1>16. Irq'
  BY <1>1, <1>2, <1>3, <1>4, <1>5, <1>6, <1>7, <1>8 DEF Irq, Live, Flags
<1>17. Tests'
  BY <1>1, <1>2, <1>3, <1>4, <1>5, <1>6, <1>7, <1>8 DEF Tests
<1>18. Named'
  BY <1>1, <1>2, <1>3, <1>4, <1>5, <1>6, <1>7, <1>8 DEF Named
<1>19. QED
  BY <1>9, <1>10, <1>11, <1>12, <1>13, <1>14, <1>15, <1>16, <1>17, <1>18 DEF Inv

LEMMA ProbeFailsInv ==
  ASSUME Inv, ProbeFails
  PROVE  Inv'
<1>1. /\ pc[1] = "probe" /\ pc[2] \in 1..11
      /\ pc' = <<"undo", LabelOf(ProbeStep[pc[2]][2])>>
      /\ given' = (IF ProbeStep[pc[2]][1] = "mdio" THEN given \cup {"queues"} ELSE given)
      /\ ~Skipped(ProbeStep[pc[2]][1])
      /\ UNCHANGED <<may, testing, test, held, tx, rx, info, desc, newTx, newRx,
                     running, up, present, power, names, wrong>>
  BY Tables DEF ProbeFails, Go, testVars, ringVars
<1>2. /\ TypeOK /\ Kinds /\ Flags /\ Structures /\ Resources
      /\ Basics /\ Enabled /\ Irq /\ Tests /\ Named
  BY <1>1 DEF Inv, Stuck
<1>3. /\ {tx, rx, newTx, newRx} \subseteq Ring \cup {None} /\ None \notin Ring
      /\ \A a \in {tx, newTx}, b \in {rx, newRx} : a = b => a = None
      /\ None # <<"netdev", 0>>
  BY <1>2, TwoKinds
<1>4. pc'[1] = "undo" /\ pc'[2] = (IF pc[2] = 1 THEN 6 ELSE IF pc[2] = 2 THEN 5 ELSE IF pc[2] \in 3..4 THEN 4
        ELSE IF pc[2] = 5 THEN 3 ELSE IF pc[2] \in 6..9 THEN 2 ELSE 1)
  BY <1>1, Steps
<1>5. given' = (IF pc[2] = 9 THEN given \cup {"queues"} ELSE given) /\ (pc[2] = 9 => "ce4100" \in may)
  BY <1>1, Steps DEF Skipped
<1>6. Basic["enabled"] = 2 /\ Basic["regions"] = 3 /\ Basic["netdev"] = 5 /\ Basic["regs"] = 6 /\ Basic["mdio"] = 10 /\ Basic["registered"] = 12
  BY DEF Basic
<1>7. ~running /\ pc'[2] \in 1..6
  BY <1>1, <1>2, <1>4 DEF Flags, Setting, NewRings
<1>8. (tx # None <=> pc[2] > 8) /\ (rx # None <=> pc[2] > 8)
  BY <1>1, <1>2 DEF Structures
<1>9. newTx = None /\ newRx = None /\ given \subseteq given' /\ given' \subseteq given \cup {"queues"}
  BY <1>1, <1>2, <1>5 DEF Structures, Replacing, Setting, NewRings
<1>10. TypeOK'
  <2>1. given' \subseteq Losses \cup {"set_ringparam_while_closed", "suspend", "resume", "bus_error"}
    BY <1>2, <1>9 DEF TypeOK, Losses
  <2>2. pc'[1] = "undo" /\ pc'[2] \in 1..(Len(Undo') + 1)
    BY <1>4, <1>7 DEF Undo
  <2>3. UNCHANGED <<may, held, tx, rx, newTx, newRx, info, desc, testing, test,
                    running, up, present, power, names, wrong>>
    BY <1>1
  <2>4. QED
    BY <1>2, <2>1, <2>2, <2>3 DEF TypeOK
<1>11. Kinds'
  BY <1>1, <1>2, <1>3, <1>4, <1>5, <1>6, <1>7, <1>8, <1>9 DEF Kinds, Setting, Structures, Live
<1>12. Flags'
  BY <1>1, <1>2, <1>3, <1>4, <1>5, <1>6, <1>7, <1>8, <1>9 DEF Flags, Setting, Testing, NewRings,
     Structures, Replacing, Live, Kinds, Halfway, Losses
<1>13. Structures'
  <2>1. None \notin held
    BY <1>2, Objects DEF TypeOK
  <2>2. pc'[2] > 1 /\ (tx \in held \/ rx \in held) => "queues" \in given'
    BY <2>1, <1>1, <1>4, <1>5, <1>8
  <2>3. pc'[2] = 1 => tx # None /\ rx # None
    BY <1>1, <1>4, <1>8
  <2>4. {tx, rx, newTx, newRx} \ {None} \subseteq held
    BY <1>1, <1>2 DEF Structures
  <2>5. (\E r \in Ring \ {tx, rx, newTx, newRx} : r \in held) => given' \cap {"rings", "queues"} # {}
    BY <1>1, <1>2, <1>9 DEF Structures
  <2>6. QED
    BY <1>1, <1>4, <1>9, <2>2, <2>3, <2>4, <2>5 DEF Structures, Live, Replacing, Setting, NewRings
<1>14. Resources'
  BY <1>1, <1>2, <1>3, <1>4, <1>5, <1>6, <1>7, <1>8, <1>9 DEF Resources, Ready, Setting,
     NewRings, Live, Flags, Structures, Replacing
<1>15. Basics'
  BY <1>1, <1>2, <1>3, <1>4, <1>5, <1>6, <1>7, <1>8, <1>9, Tables, Labels DEF Basics, Live
<1>16. Enabled'
  BY <1>1, <1>2, <1>3, <1>4, <1>5, <1>6, <1>7, <1>8, <1>9 DEF Enabled, Live
<1>17. Irq'
  BY <1>1, <1>2, <1>3, <1>4, <1>5, <1>6, <1>7, <1>8, <1>9 DEF Irq, Live, Flags
<1>18. Tests'
  BY <1>1, <1>2, <1>3, <1>4, <1>5, <1>6, <1>7, <1>8, <1>9 DEF Tests
<1>19. Named'
  BY <1>1, <1>2, <1>3, <1>4, <1>5, <1>6, <1>7, <1>8, <1>9 DEF Named
<1>20. QED
  BY <1>10, <1>11, <1>12, <1>13, <1>14, <1>15, <1>16, <1>17, <1>18, <1>19 DEF Inv

LEMMA ProbeUndoesInv ==
  ASSUME Inv, ProbeUndoes
  PROVE  Inv'
<1>1. /\ pc[1] = "undo"
      /\ wrong' \subseteq wrong \cup {"freed_twice", "down_twice", "up_twice", "rings_not_set_up"}
      /\ \/ /\ pc[2] > 5 /\ held' = held /\ tx' = None /\ rx' = None /\ pc' = <<"absent">> /\ pc'[1] = "absent"
         \/ /\ ~(pc[2] > 5) /\ held' = held \ Undo[pc[2]] /\ tx' = tx /\ rx' = rx
            /\ pc' = <<"undo", pc[2] + 1>> /\ pc'[1] = "undo"
      /\ UNCHANGED <<may, testing, test, info, desc, newTx, newRx, running,
                     up, present, power, names, given>>
  BY Tables DEF ProbeUndoes, Go, Say, testVars, ringVars
<1>2. /\ TypeOK /\ Kinds /\ Flags /\ Structures /\ Resources
      /\ Basics /\ Enabled /\ Irq /\ Tests /\ Named
  BY <1>1 DEF Inv, Stuck
<1>3. /\ {tx, rx, newTx, newRx} \subseteq Ring \cup {None} /\ None \notin Ring
      /\ \A a \in {tx, newTx}, b \in {rx, newRx} : a = b => a = None
      /\ None # <<"netdev", 0>>
  BY <1>2, TwoKinds
<1>4. pc[2] \in 1..6 /\ (pc'[1] = "absent" \/ pc'[2] = pc[2] + 1) /\ (pc'[1] = "absent" <=> pc[2] = 6)
  BY <1>1, <1>2, Tables DEF TypeOK
<1>5. newTx = None /\ newRx = None /\ ~running /\ None \notin held
  BY <1>1, <1>2, Objects DEF Structures, Replacing, Setting, NewRings, Flags, TypeOK
<1>6. /\ \A v : H(v) \in held' <=> /\ H(v) \in held /\ ~(pc[2] = 2 /\ v \in {"mdio", "regs"})
                                   /\ ~(pc[2] = 3 /\ v = "netdev") /\ ~(pc[2] = 4 /\ v = "regions")
                                   /\ ~(pc[2] = 5 /\ v = "enabled")
      /\ \A r \in Ring : r \in held' <=> r \in held /\ ~(pc[2] = 1 /\ r \in {tx, rx})
      /\ \A r \in Ring : InfoOf(r) \in held' <=> InfoOf(r) \in held
      /\ \A r \in Ring, n \in {1, 2} : DescOf(r, n) \in held' <=> DescOf(r, n) \in held
      /\ \A k \in DOMAIN TestRing : TestRing[k] \in held' <=> TestRing[k] \in held
  <2>1. \/ pc[2] = 1 /\ held' = held \ {tx, rx}
        \/ pc[2] = 2 /\ held' = held \ {H("mdio"), H("regs")}
        \/ pc[2] = 3 /\ held' = held \ {H("netdev")}
        \/ pc[2] = 4 /\ held' = held \ {H("regions")}
        \/ pc[2] = 5 /\ held' = held \ {H("enabled")}
        \/ pc[2] = 6 /\ held' = held
    BY <1>1, <1>4, Labels
  <2>2. {tx, rx} \subseteq Ring \cup {None} /\ None \notin Ring
    BY <1>3
  <2>3. pc[2] = 1 => {tx, rx} \subseteq Ring
    BY <1>1, <1>2, <1>3 DEF Structures
  <2>4. QED
    BY <2>1, <2>2, <2>3, Apart
<1>7. tx' \in Ring \cup {None} /\ rx' \in Ring \cup {None}
      /\ (pc'[1] = "absent" \/ (tx' = tx /\ rx' = rx)) /\ held' \subseteq held
  BY <1>1, <1>3
<1>8. Undone["enabled"] = 5 /\ Undone["regions"] = 4 /\ Undone["netdev"] = 3 /\ Undone["regs"] = 2
  BY DEF Undone
<1>9. Basic["enabled"] = 2 /\ Basic["regions"] = 3 /\ Basic["netdev"] = 5 /\ Basic["regs"] = 6 /\ Basic["mdio"] = 10 /\ Basic["registered"] = 12
  BY DEF Basic
<1>10. TypeOK'
  <2>1. pc'[1] = "undo" => pc'[2] \in 1..(Len(Undo') + 1)
    BY <1>4 DEF Undo
  <2>2. pc'[1] \in {"undo", "absent"}
    BY <1>1
  <2>3. UNCHANGED <<may, newTx, newRx, info, desc, testing, test, running,
                    up, present, power, names, given>>
    BY <1>1
  <2>4. wrong' \subseteq {"freed_twice", "down_twice", "up_twice", "rings_not_set_up", "freed_ring_read"}
    BY <1>1, <1>2 DEF TypeOK
  <2>5. QED
    BY <1>2, <1>7, <2>1, <2>2, <2>3, <2>4 DEF TypeOK
<1>11. Kinds'
  BY <1>1, <1>2, <1>3, <1>4, <1>5, <1>6, <1>7, <1>8, <1>9 DEF Kinds, Setting, Structures, Live
<1>12. Flags'
  BY <1>1, <1>2, <1>3, <1>4, <1>5, <1>6, <1>7, <1>8, <1>9 DEF Flags, Setting, Testing, NewRings,
     Structures, Replacing, Live, Kinds, Halfway
<1>13. Structures'
  BY <1>1, <1>2, <1>3, <1>4, <1>5, <1>6, <1>7, <1>8, <1>9 DEF Structures, Setting, Live,
     NewRings, Replacing
<1>14. Resources'
  BY <1>1, <1>2, <1>3, <1>4, <1>5, <1>6, <1>7, <1>8, <1>9 DEF Resources, Ready, Setting,
     NewRings, Live, Flags, Structures, Replacing
<1>15. Basics'
  BY <1>1, <1>2, <1>3, <1>4, <1>5, <1>6, <1>7, <1>8, <1>9, Tables DEF Basics, Live
<1>16. Enabled'
  BY <1>1, <1>2, <1>3, <1>4, <1>5, <1>6, <1>7, <1>8, <1>9 DEF Enabled, Live
<1>17. Irq'
  BY <1>1, <1>2, <1>3, <1>4, <1>5, <1>6, <1>7, <1>8, <1>9 DEF Irq, Live, Flags
<1>18. Tests'
  BY <1>1, <1>2, <1>3, <1>4, <1>5, <1>6, <1>7, <1>8, <1>9 DEF Tests
<1>19. Named'
  BY <1>1, <1>2, <1>3, <1>4, <1>5, <1>6, <1>7, <1>8, <1>9 DEF Named
<1>20. QED
  BY <1>10, <1>11, <1>12, <1>13, <1>14, <1>15, <1>16, <1>17, <1>18, <1>19 DEF Inv

LEMMA ProbeEndsInv ==
  ASSUME Inv, ProbeEnds
  PROVE  Inv'
<1>1. /\ pc = <<"probe", 12>> /\ pc[1] = "probe" /\ pc[2] = 12 /\ pc' = <<"idle">> /\ pc'[1] = "idle"
      /\ held' = held \cup {H("dsnap")} /\ present' = TRUE
      /\ UNCHANGED <<may, testing, test, tx, rx, info, desc, newTx, newRx,
                     running, up, power, names, given, wrong>>
  BY DEF ProbeEnds, Go, ProbeStep, testVars, ringVars
<1>2. /\ TypeOK /\ Kinds /\ Flags /\ Structures /\ Resources
      /\ Basics /\ Enabled /\ Irq /\ Tests /\ Named
  BY <1>1 DEF Inv, Stuck
<1>3. /\ {tx, rx, newTx, newRx} \subseteq Ring \cup {None} /\ None \notin Ring
      /\ \A a \in {tx, newTx}, b \in {rx, newRx} : a = b => a = None
      /\ None # <<"netdev", 0>>
  BY <1>2, TwoKinds
<1>4. tx \in Ring /\ rx \in Ring /\ ~running /\ newTx = None /\ newRx = None
  BY <1>1, <1>2, <1>3 DEF Structures, Live, Flags, Setting, NewRings, Replacing
<1>5. /\ \A v : H(v) \in held' <=> H(v) \in held \/ v = "dsnap"
      /\ \A r \in Ring : r \in held' <=> r \in held
      /\ \A r \in Ring : InfoOf(r) \in held' <=> InfoOf(r) \in held
      /\ \A r \in Ring, n \in {1, 2} : DescOf(r, n) \in held' <=> DescOf(r, n) \in held
      /\ \A k \in DOMAIN TestRing : TestRing[k] \in held' <=> TestRing[k] \in held
  BY <1>1, Apart, Tables
<1>6. TypeOK'
  BY <1>1, <1>2, <1>3, <1>4, <1>5, Objects DEF TypeOK
<1>7. Kinds'
  BY <1>1, <1>2, <1>3, <1>4, <1>5 DEF Kinds, Setting, Structures, Live
<1>8. Flags'
  BY <1>1, <1>2, <1>3, <1>4, <1>5 DEF Flags, Setting, Testing, NewRings, Structures, Replacing,
     Live, Kinds, Halfway
<1>9. Structures'
  BY <1>1, <1>2, <1>3, <1>4, <1>5 DEF Structures, Setting, Live, NewRings, Replacing
<1>10. Resources'
  BY <1>1, <1>2, <1>3, <1>4, <1>5 DEF Resources, Ready, Setting, NewRings, Live, Flags,
     Structures, Replacing
<1>11. Basics'
  BY <1>1, <1>2, <1>3, <1>4, <1>5, Tables DEF Basics, Live, Basic
<1>12. Enabled'
  BY <1>1, <1>2, <1>3, <1>4, <1>5, Tables DEF Enabled, Live, Basics, Basic
<1>13. Irq'
  BY <1>1, <1>2, <1>3, <1>4, <1>5 DEF Irq, Live, Flags
<1>14. Tests'
  BY <1>1, <1>2, <1>3, <1>4, <1>5 DEF Tests
<1>15. Named'
  BY <1>1, <1>2, <1>3, <1>4, <1>5 DEF Named
<1>16. QED
  BY <1>6, <1>7, <1>8, <1>9, <1>10, <1>11, <1>12, <1>13, <1>14, <1>15 DEF Inv

-----------------------------------------------------------------------------
(* A set-up keeps it.                                                        *)
LEMMA AllocInfoInv ==
  ASSUME Inv, AllocInfo
  PROVE  Inv'
<1>1. /\ pc[1] = "info"
      /\ UNCHANGED <<may, testing, test, tx, rx, newTx, newRx>>
      /\ UNCHANGED <<running, up, present, power, names, given, wrong>>
  BY DEF AllocInfo, testVars, ringVars
<1>2. Setting /\ SetUpFrame
  BY <1>1 DEF Setting, SetUpFrame, testVars
<1>3. /\ TypeOK /\ Resources /\ pc[2] \in Ring /\ pc[2] \notin Ready /\ Setting
      /\ \A n \in {1, 2} : InfoOf(pc[2]) \in Object /\ DescOf(pc[2], n) \in Object
  BY <1>2, Ends DEF Inv, Stuck, Setting, Object
<1>4. CASE /\ held' = held \cup {InfoOf(pc[2])}
            /\ info' = [info EXCEPT ![pc[2]] = TRUE] /\ desc' = desc
            /\ pc' = <<"desc", pc[2]>>
  <2>1. OthersKept /\ held' \subseteq Object
    BY <1>4, <1>3, Apart DEF OthersKept, TypeOK
  <2>2. /\ Kinds' /\ Flags' /\ Structures' /\ Basics' /\ Enabled' /\ Irq' /\ Tests' /\ Named'
        /\ Ready' = Ready /\ pc'[2] = pc[2] /\ pc'[1] = "desc" /\ Setting'
    BY <1>4, <2>1, <1>2, SetUpStep DEF Setting
  <2>3. /\ \A r \in Ring : InfoOf(r) \in held' <=> InfoOf(r) \in held \/ r = pc[2]
        /\ \A r \in Ring, n \in {1, 2} : DescOf(r, n) \in held' <=> DescOf(r, n) \in held
    BY <1>4, <1>3, Apart
  <2>4. TypeOK'
    BY <1>4, <1>1, <1>2, <1>3, <2>1, Ends DEF TypeOK
  <2>5. Resources'
    BY <1>4, <1>1, <1>3, <2>2, <2>3 DEF Resources, TypeOK
  <2>6. QED
    BY <2>2, <2>4, <2>5 DEF Inv
<1>5. CASE /\ held' = held
            /\ info' = [info EXCEPT ![pc[2]] = FALSE] /\ desc' = desc
            /\ pc' = Failed(pc[2])
  <2>1. OthersKept /\ held' \subseteq Object
    BY <1>5, <1>3, Apart DEF OthersKept, TypeOK
  <2>2. /\ Kinds' /\ Flags' /\ Structures' /\ Basics' /\ Enabled' /\ Irq' /\ Tests' /\ Named'
        /\ Ready' = Ready /\ ~Setting' /\ pc'[1] \notin {"info", "desc", "check", "desc_again", "check_again"}
    BY <1>5, <2>1, <1>2, SetUpStep DEF Setting
  <2>3. /\ \A r \in Ring : InfoOf(r) \in held' <=> InfoOf(r) \in held
        /\ \A r \in Ring, n \in {1, 2} : DescOf(r, n) \in held' <=> DescOf(r, n) \in held
    BY <1>5, <1>3, Apart
  <2>4. TypeOK'
    BY <1>5, <1>1, <1>2, <1>3, <2>1, Ends DEF TypeOK
  <2>5. Resources'
    BY <1>5, <1>1, <1>3, <2>2, <2>3 DEF Resources, TypeOK, Setting
  <2>6. QED
    BY <2>2, <2>4, <2>5 DEF Inv
<1>6. QED
  BY <1>4, <1>5 DEF AllocInfo, Go, testVars, ringVars

LEMMA AllocDescInv ==
  ASSUME Inv, AllocDesc
  PROVE  Inv'
<1>1. /\ pc[1] = "desc"
      /\ UNCHANGED <<may, testing, test, tx, rx, newTx, newRx>>
      /\ UNCHANGED <<running, up, present, power, names, given, wrong>>
  BY DEF AllocDesc, testVars, ringVars
<1>2. Setting /\ SetUpFrame
  BY <1>1 DEF Setting, SetUpFrame, testVars
<1>3. /\ TypeOK /\ Resources /\ pc[2] \in Ring /\ pc[2] \notin Ready /\ Setting
      /\ \A n \in {1, 2} : InfoOf(pc[2]) \in Object /\ DescOf(pc[2], n) \in Object
  BY <1>2, Ends DEF Inv, Stuck, Setting, Object
<1>4. CASE /\ held' = held \cup {DescOf(pc[2], 1)}
            /\ desc' = [desc EXCEPT ![pc[2]] = 1] /\ info' = info
            /\ pc' = <<"check", pc[2]>>
  <2>1. OthersKept /\ held' \subseteq Object
    BY <1>4, <1>3, Apart DEF OthersKept, TypeOK
  <2>2. /\ Kinds' /\ Flags' /\ Structures' /\ Basics' /\ Enabled' /\ Irq' /\ Tests' /\ Named'
        /\ Ready' = Ready /\ pc'[2] = pc[2] /\ pc'[1] = "check" /\ Setting'
    BY <1>4, <2>1, <1>2, SetUpStep DEF Setting
  <2>3. /\ \A r \in Ring : InfoOf(r) \in held' <=> InfoOf(r) \in held
        /\ \A r \in Ring, n \in {1, 2} : DescOf(r, n) \in held' <=> DescOf(r, n) \in held \/ (r = pc[2] /\ n = 1)
    BY <1>4, <1>3, Apart
  <2>4. TypeOK'
    BY <1>4, <1>1, <1>2, <1>3, <2>1, Ends DEF TypeOK
  <2>5. Resources'
    BY <1>4, <1>1, <1>3, <2>2, <2>3 DEF Resources, TypeOK
  <2>6. QED
    BY <2>2, <2>4, <2>5 DEF Inv
<1>5. CASE /\ held' = held \ {InfoOf(pc[2])}
            /\ desc' = [desc EXCEPT ![pc[2]] = 0] /\ info' = info
            /\ pc' = Failed(pc[2])
  <2>1. OthersKept /\ held' \subseteq Object
    BY <1>5, <1>3, Apart DEF OthersKept, TypeOK
  <2>2. /\ Kinds' /\ Flags' /\ Structures' /\ Basics' /\ Enabled' /\ Irq' /\ Tests' /\ Named'
        /\ Ready' = Ready /\ ~Setting' /\ pc'[1] \notin {"info", "desc", "check", "desc_again", "check_again"}
    BY <1>5, <2>1, <1>2, SetUpStep DEF Setting
  <2>3. /\ \A r \in Ring : InfoOf(r) \in held' <=> InfoOf(r) \in held /\ r # pc[2]
        /\ \A r \in Ring, n \in {1, 2} : DescOf(r, n) \in held' <=> DescOf(r, n) \in held
    BY <1>5, <1>3, Apart
  <2>4. TypeOK'
    BY <1>5, <1>1, <1>2, <1>3, <2>1, Ends DEF TypeOK
  <2>5. Resources'
    BY <1>5, <1>1, <1>3, <2>2, <2>3 DEF Resources, TypeOK, Setting
  <2>6. QED
    BY <2>2, <2>4, <2>5 DEF Inv
<1>6. QED
  BY <1>4, <1>5 DEF AllocDesc, Go, testVars, ringVars

LEMMA CheckInv ==
  ASSUME Inv, Check
  PROVE  Inv'
<1>1. /\ pc[1] = "check" /\ (pc' = Done(pc[2]) \/ pc' = <<"desc_again", pc[2]>>)
      /\ UNCHANGED <<may, testing, test, held, tx, rx, info, desc, newTx, newRx>>
      /\ UNCHANGED <<running, up, present, power, names, given, wrong>>
  BY DEF Check, Go, testVars, ringVars
<1>2. Setting /\ SetUpFrame /\ OthersKept
  BY <1>1 DEF Setting, SetUpFrame, OthersKept, testVars
<1>3. TypeOK /\ Resources /\ pc[2] \in Ring /\ pc[2] \notin Ready
  BY <1>2, Ends DEF Inv, Stuck, Setting
<1>4. /\ Kinds' /\ Flags' /\ Structures' /\ Basics' /\ Enabled' /\ Irq' /\ Tests' /\ Named'
      /\ pc' = Done(pc[2]) => Ready' = Ready \cup {pc[2]} /\ ~Setting'
      /\ Setting' => Ready' = Ready /\ pc'[2] = pc[2]
  BY <1>1, <1>2, SetUpStep
<1>5. TypeOK'
  BY <1>1, <1>2, <1>3, Ends DEF TypeOK
<1>6. CASE pc' = Done(pc[2])
  <2>1. ~Setting' /\ Ready' = Ready \cup {pc[2]} /\ pc'[1] \notin {"desc", "check", "desc_again", "check_again"}
    BY <1>4, <1>6 DEF Setting
  <2>2. Resources'
    BY <1>1, <1>3, <2>1 DEF Resources, Setting
  <2>3. QED
    BY <2>2, <1>4, <1>5 DEF Inv
<1>7. CASE pc' = <<"desc_again", pc[2]>>
  <2>1. Setting' /\ Ready' = Ready /\ pc'[2] = pc[2] /\ pc'[1] = "desc_again"
    BY <1>4, <1>7 DEF Setting
  <2>2. Resources'
    BY <1>1, <1>3, <2>1, <1>2 DEF Resources
  <2>3. QED
    BY <2>2, <1>4, <1>5 DEF Inv
<1>8. QED
  BY <1>1, <1>6, <1>7

LEMMA AllocAgainInv ==
  ASSUME Inv, AllocAgain
  PROVE  Inv'
<1>1. /\ pc[1] = "desc_again"
      /\ UNCHANGED <<may, testing, test, tx, rx, newTx, newRx>>
      /\ UNCHANGED <<running, up, present, power, names, given, wrong>>
  BY DEF AllocAgain, testVars, ringVars
<1>2. Setting /\ SetUpFrame
  BY <1>1 DEF Setting, SetUpFrame, testVars
<1>3. /\ TypeOK /\ Resources /\ pc[2] \in Ring /\ pc[2] \notin Ready /\ Setting
      /\ \A n \in {1, 2} : InfoOf(pc[2]) \in Object /\ DescOf(pc[2], n) \in Object
  BY <1>2, Ends DEF Inv, Stuck, Setting, Object
<1>4. CASE /\ held' = held \cup {DescOf(pc[2], 2)}
            /\ desc' = [desc EXCEPT ![pc[2]] = 2] /\ info' = info
            /\ pc' = <<"check_again", pc[2]>>
  <2>1. OthersKept /\ held' \subseteq Object
    BY <1>4, <1>3, Apart DEF OthersKept, TypeOK
  <2>2. /\ Kinds' /\ Flags' /\ Structures' /\ Basics' /\ Enabled' /\ Irq' /\ Tests' /\ Named'
        /\ Ready' = Ready /\ pc'[2] = pc[2] /\ pc'[1] = "check_again" /\ Setting'
    BY <1>4, <2>1, <1>2, SetUpStep DEF Setting
  <2>3. /\ \A r \in Ring : InfoOf(r) \in held' <=> InfoOf(r) \in held
        /\ \A r \in Ring, n \in {1, 2} : DescOf(r, n) \in held' <=> DescOf(r, n) \in held \/ (r = pc[2] /\ n = 2)
    BY <1>4, <1>3, Apart
  <2>4. TypeOK'
    BY <1>4, <1>1, <1>2, <1>3, <2>1, Ends DEF TypeOK
  <2>5. Resources'
    BY <1>4, <1>1, <1>3, <2>2, <2>3 DEF Resources, TypeOK
  <2>6. QED
    BY <2>2, <2>4, <2>5 DEF Inv
<1>5. CASE /\ held' = held \ {InfoOf(pc[2]), DescOf(pc[2], 1)}
            /\ desc' = [desc EXCEPT ![pc[2]] = 0] /\ info' = info
            /\ pc' = Failed(pc[2])
  <2>1. OthersKept /\ held' \subseteq Object
    BY <1>5, <1>3, Apart DEF OthersKept, TypeOK
  <2>2. /\ Kinds' /\ Flags' /\ Structures' /\ Basics' /\ Enabled' /\ Irq' /\ Tests' /\ Named'
        /\ Ready' = Ready /\ ~Setting' /\ pc'[1] \notin {"info", "desc", "check", "desc_again", "check_again"}
    BY <1>5, <2>1, <1>2, SetUpStep DEF Setting
  <2>3. /\ \A r \in Ring : InfoOf(r) \in held' <=> InfoOf(r) \in held /\ r # pc[2]
        /\ \A r \in Ring, n \in {1, 2} : DescOf(r, n) \in held' <=> DescOf(r, n) \in held /\ (r # pc[2] \/ n = 2)
    BY <1>5, <1>3, Apart
  <2>4. TypeOK'
    BY <1>5, <1>1, <1>2, <1>3, <2>1, Ends DEF TypeOK
  <2>5. Resources'
    BY <1>5, <1>1, <1>3, <2>2, <2>3 DEF Resources, TypeOK, Setting
  <2>6. QED
    BY <2>2, <2>4, <2>5 DEF Inv
<1>6. QED
  BY <1>4, <1>5 DEF AllocAgain, Go, testVars, ringVars

LEMMA CheckAgainInv ==
  ASSUME Inv, CheckAgain
  PROVE  Inv'
<1>1. /\ pc[1] = "check_again"
      /\ UNCHANGED <<may, testing, test, tx, rx, newTx, newRx>>
      /\ UNCHANGED <<running, up, present, power, names, given, wrong>>
  BY DEF CheckAgain, testVars, ringVars
<1>2. Setting /\ SetUpFrame
  BY <1>1 DEF Setting, SetUpFrame, testVars
<1>3. /\ TypeOK /\ Resources /\ pc[2] \in Ring /\ pc[2] \notin Ready /\ Setting
      /\ \A n \in {1, 2} : InfoOf(pc[2]) \in Object /\ DescOf(pc[2], n) \in Object
  BY <1>2, Ends DEF Inv, Stuck, Setting, Object
<1>4. CASE /\ held' = held \ {DescOf(pc[2], 1)}
            /\ desc' = desc /\ info' = info
            /\ pc' = Done(pc[2])
  <2>1. OthersKept /\ held' \subseteq Object
    BY <1>4, <1>3, Apart DEF OthersKept, TypeOK
  <2>2. /\ Kinds' /\ Flags' /\ Structures' /\ Basics' /\ Enabled' /\ Irq' /\ Tests' /\ Named'
        /\ Ready' = Ready \cup {pc[2]} /\ ~Setting' /\ pc'[1] \notin {"info", "desc", "check", "desc_again", "check_again"}
    BY <1>4, <2>1, <1>2, SetUpStep DEF Setting
  <2>3. /\ \A r \in Ring : InfoOf(r) \in held' <=> InfoOf(r) \in held
        /\ \A r \in Ring, n \in {1, 2} : DescOf(r, n) \in held' <=> DescOf(r, n) \in held /\ (r # pc[2] \/ n = 2)
    BY <1>4, <1>3, Apart
  <2>4. TypeOK'
    BY <1>4, <1>1, <1>2, <1>3, <2>1, Ends DEF TypeOK
  <2>5. Resources'
    BY <1>4, <1>1, <1>3, <2>2, <2>3 DEF Resources, TypeOK, Setting
  <2>6. QED
    BY <2>2, <2>4, <2>5 DEF Inv
<1>5. CASE /\ held' = held \ {InfoOf(pc[2]), DescOf(pc[2], 1), DescOf(pc[2], 2)}
            /\ desc' = desc /\ info' = info
            /\ pc' = Failed(pc[2])
  <2>1. OthersKept /\ held' \subseteq Object
    BY <1>5, <1>3, Apart DEF OthersKept, TypeOK
  <2>2. /\ Kinds' /\ Flags' /\ Structures' /\ Basics' /\ Enabled' /\ Irq' /\ Tests' /\ Named'
        /\ Ready' = Ready /\ ~Setting' /\ pc'[1] \notin {"info", "desc", "check", "desc_again", "check_again"}
    BY <1>5, <2>1, <1>2, SetUpStep DEF Setting
  <2>3. /\ \A r \in Ring : InfoOf(r) \in held' <=> InfoOf(r) \in held /\ r # pc[2]
        /\ \A r \in Ring, n \in {1, 2} : DescOf(r, n) \in held' <=> DescOf(r, n) \in held /\ r # pc[2]
    BY <1>5, <1>3, Apart
  <2>4. TypeOK'
    BY <1>5, <1>1, <1>2, <1>3, <2>1, Ends DEF TypeOK
  <2>5. Resources'
    BY <1>5, <1>1, <1>3, <2>2, <2>3 DEF Resources, TypeOK, Setting
  <2>6. QED
    BY <2>2, <2>4, <2>5 DEF Inv
<1>6. QED
  BY <1>4, <1>5 DEF CheckAgain, Go, testVars, ringVars

-----------------------------------------------------------------------------
(* e1000_open, e1000_up and e1000_close keep it.                             *)
LEMMA OpenInv ==
  ASSUME Inv, Open
  PROVE  Inv'
<1>1. /\ pc = <<"idle">> /\ pc[1] = "idle"
      /\ pc' = <<"info", tx>> /\ pc'[1] = "info" /\ pc'[2] = tx
      /\ ~running /\ power = "on"
      /\ UNCHANGED <<may, testing, test, held, tx, rx, info, desc, newTx, newRx,
                     running, up, present, power, names, given, wrong>>
  BY DEF Open, Idle, SetUp, Go, testVars, ringVars
<1>2. /\ TypeOK /\ Kinds /\ Flags /\ Structures /\ Resources
      /\ Basics /\ Enabled /\ Irq /\ Tests /\ Named
  BY <1>1 DEF Inv, Stuck
<1>3. TypeOK'
  BY <1>1, <1>2 DEF TypeOK
<1>4. Kinds'
  BY <1>1, <1>2 DEF Kinds, Setting, Structures, Live
<1>5. Flags'
  BY <1>1, <1>2 DEF Flags, Setting, Testing, NewRings, Structures, Replacing, Live, Kinds,
     Halfway
<1>6. Structures'
  BY <1>1, <1>2 DEF Structures, Setting, Live, NewRings, Replacing
<1>7. Resources'
  BY <1>1, <1>2 DEF Resources, Ready, Setting, NewRings, Live, Flags, Structures, Replacing
<1>8. Basics'
  BY <1>1, <1>2 DEF Basics, Live
<1>9. Enabled'
  BY <1>1, <1>2 DEF Enabled, Live
<1>10. Irq'
  BY <1>1, <1>2 DEF Irq, Live, Flags
<1>11. Tests'
  BY <1>1, <1>2 DEF Tests
<1>12. Named'
  BY <1>1, <1>2 DEF Named
<1>13. QED
  BY <1>3, <1>4, <1>5, <1>6, <1>7, <1>8, <1>9, <1>10, <1>11, <1>12 DEF Inv

LEMMA OpenRxInv ==
  ASSUME Inv, OpenRx
  PROVE  Inv'
<1>1. /\ pc = <<"open_rx">> /\ pc[1] = "open_rx"
      /\ pc' = <<"info", rx>> /\ pc'[1] = "info" /\ pc'[2] = rx
      /\ UNCHANGED <<may, testing, test, held, tx, rx, info, desc, newTx, newRx,
                     running, up, present, power, names, given, wrong>>
  BY DEF OpenRx, SetUp, Go, testVars, ringVars
<1>2. /\ TypeOK /\ Kinds /\ Flags /\ Structures /\ Resources
      /\ Basics /\ Enabled /\ Irq /\ Tests /\ Named
  BY <1>1 DEF Inv, Stuck
<1>3. /\ {tx, rx, newTx, newRx} \subseteq Ring \cup {None} /\ None \notin Ring
      /\ \A a \in {tx, newTx}, b \in {rx, newRx} : a = b => a = None
      /\ None # <<"netdev", 0>>
  BY <1>2, TwoKinds
<1>4. TypeOK'
  BY <1>1, <1>2, <1>3 DEF TypeOK
<1>5. Kinds'
  BY <1>1, <1>2, <1>3 DEF Kinds, Setting, Structures, Live
<1>6. Flags'
  BY <1>1, <1>2, <1>3 DEF Flags, Setting, Testing, NewRings, Structures, Replacing, Live, Kinds,
     Halfway
<1>7. Structures'
  BY <1>1, <1>2, <1>3 DEF Structures, Setting, Live, NewRings, Replacing
<1>8. Resources'
  BY <1>1, <1>2, <1>3 DEF Resources, Ready, Setting, NewRings, Live, Flags, Structures,
     Replacing
<1>9. Basics'
  BY <1>1, <1>2, <1>3 DEF Basics, Live
<1>10. Enabled'
  BY <1>1, <1>2, <1>3 DEF Enabled, Live
<1>11. Irq'
  BY <1>1, <1>2, <1>3 DEF Irq, Live, Flags
<1>12. Tests'
  BY <1>1, <1>2, <1>3 DEF Tests
<1>13. Named'
  BY <1>1, <1>2, <1>3 DEF Named
<1>14. QED
  BY <1>4, <1>5, <1>6, <1>7, <1>8, <1>9, <1>10, <1>11, <1>12, <1>13 DEF Inv

LEMMA ErrSetupRxInv ==
  ASSUME Inv, ErrSetupRx
  PROVE  Inv'
<1>1. /\ pc = <<"err_setup_rx">> /\ pc[1] = "err_setup_rx" /\ pc' = <<"idle">> /\ pc'[1] = "idle"
      /\ held' = held \ Parts({tx}) /\ Clear({tx})
      /\ wrong' \subseteq wrong \cup {"freed_twice", "down_twice", "up_twice", "rings_not_set_up"}
      /\ UNCHANGED <<may, testing, test, tx, rx, newTx, newRx, running,
                     up, present, power, names, given>>
  BY DEF ErrSetupRx, Go, Say, testVars, ringVars
<1>2. /\ TypeOK /\ Kinds /\ Flags /\ Structures /\ Resources
      /\ Basics /\ Enabled /\ Irq /\ Tests /\ Named
  BY <1>1 DEF Inv, Stuck
<1>3. /\ {tx, rx, newTx, newRx} \subseteq Ring \cup {None} /\ None \notin Ring
      /\ \A a \in {tx, newTx}, b \in {rx, newRx} : a = b => a = None
      /\ None # <<"netdev", 0>>
  BY <1>2, TwoKinds
<1>4. tx \in Ring /\ rx \in Ring /\ ~running
  BY <1>1, <1>2, <1>3 DEF Structures, Live, Flags, Setting, NewRings
<1>5. /\ \A v : H(v) \in held' <=> H(v) \in held
      /\ \A r \in Ring : r \in held' <=> r \in held
      /\ \A r \in Ring : InfoOf(r) \in held' <=> InfoOf(r) \in held /\ r # tx
      /\ \A r \in Ring, n \in {1, 2} : DescOf(r, n) \in held' <=> DescOf(r, n) \in held /\ ~(r = tx /\ n = desc[tx])
      /\ \A k \in DOMAIN TestRing : TestRing[k] \in held' <=> TestRing[k] \in held
  BY <1>1, <1>4, Apart, Tables DEF Parts
<1>6. /\ info' \in [Ring -> BOOLEAN] /\ desc' \in [Ring -> 0..2]
      /\ \A r \in Ring : info'[r] <=> r \notin {tx} /\ info[r]
      /\ \A r \in Ring : desc'[r] = (IF r \in {tx} THEN 0 ELSE desc[r])
  BY <1>1, <1>2, Cleared, Zenon
<1>7. TypeOK'
  BY <1>1, <1>2, <1>3, <1>4, <1>5, <1>6 DEF TypeOK
<1>8. Kinds'
  BY <1>1, <1>2, <1>3, <1>4, <1>5, <1>6 DEF Kinds, Setting, Structures, Live
<1>9. Flags'
  BY <1>1, <1>2, <1>3, <1>4, <1>5, <1>6 DEF Flags, Setting, Testing, NewRings, Structures,
     Replacing, Live, Kinds, Halfway
<1>10. Structures'
  BY <1>1, <1>2, <1>3, <1>4, <1>5, <1>6 DEF Structures, Setting, Live, NewRings, Replacing
<1>11. Resources'
  BY <1>1, <1>2, <1>3, <1>4, <1>5, <1>6 DEF Resources, Ready, Setting, NewRings, Live, Flags,
     Structures, Replacing
<1>12. Basics'
  BY <1>1, <1>2, <1>3, <1>4, <1>5, <1>6 DEF Basics, Live
<1>13. Enabled'
  BY <1>1, <1>2, <1>3, <1>4, <1>5, <1>6 DEF Enabled, Live
<1>14. Irq'
  BY <1>1, <1>2, <1>3, <1>4, <1>5, <1>6 DEF Irq, Live, Flags
<1>15. Tests'
  BY <1>1, <1>2, <1>3, <1>4, <1>5, <1>6 DEF Tests
<1>16. Named'
  BY <1>1, <1>2, <1>3, <1>4, <1>5, <1>6 DEF Named
<1>17. QED
  BY <1>7, <1>8, <1>9, <1>10, <1>11, <1>12, <1>13, <1>14, <1>15, <1>16 DEF Inv

LEMMA RequestIrqInv ==
  ASSUME Inv, RequestIrq
  PROVE  Inv'
<1>1. /\ pc = <<"open_irq">> /\ pc[1] = "open_irq"
      /\ \/ /\ held' = held \cup {H("irq")} /\ running' = TRUE /\ pc' = <<"up">> /\ pc'[1] = "up"
            /\ info' = info /\ desc' = desc
         \/ /\ held' = held \ Parts({tx, rx}) /\ Clear({tx, rx}) /\ running' = running
            /\ pc' = <<"idle">> /\ pc'[1] = "idle"
      /\ wrong' \subseteq wrong \cup {"freed_twice", "down_twice", "up_twice", "rings_not_set_up"}
      /\ UNCHANGED <<may, testing, test, tx, rx, newTx, newRx, up, present, power, names, given>>
  BY DEF RequestIrq, Go, Say, testVars, ringVars
<1>2. /\ TypeOK /\ Kinds /\ Flags /\ Structures /\ Resources
      /\ Basics /\ Enabled /\ Irq /\ Tests /\ Named
  BY <1>1 DEF Inv, Stuck
<1>3. /\ {tx, rx, newTx, newRx} \subseteq Ring \cup {None} /\ None \notin Ring
      /\ \A a \in {tx, newTx}, b \in {rx, newRx} : a = b => a = None
      /\ None # <<"netdev", 0>>
  BY <1>2, TwoKinds
<1>4. tx \in Ring /\ rx \in Ring /\ ~running /\ (running' <=> pc'[1] = "up")
  BY <1>1, <1>2, <1>3 DEF Structures, Live, Flags, Setting, NewRings
<1>5. /\ \A v : H(v) \in held' <=> H(v) \in held \/ (v = "irq" /\ pc'[1] = "up")
      /\ \A r \in Ring : r \in held' <=> r \in held
      /\ \A r \in Ring : InfoOf(r) \in held' <=> InfoOf(r) \in held /\ (pc'[1] = "up" \/ r \notin {tx, rx})
      /\ \A r \in Ring, n \in {1, 2} : DescOf(r, n) \in held' <=> DescOf(r, n) \in held /\ (pc'[1] = "up" \/ ~(r \in {tx, rx} /\ n = desc[r]))
      /\ \A k \in DOMAIN TestRing : TestRing[k] \in held' <=> TestRing[k] \in held
  BY <1>1, <1>4, Apart, Tables DEF Parts
<1>6. /\ info' \in [Ring -> BOOLEAN] /\ desc' \in [Ring -> 0..2]
      /\ \A r \in Ring : info'[r] <=> ~(pc'[1] # "up" /\ r \in {tx, rx}) /\ info[r]
      /\ \A r \in Ring : desc'[r] = (IF pc'[1] # "up" /\ r \in {tx, rx} THEN 0 ELSE desc[r])
  <2>1. CASE pc'[1] = "up"
    BY <1>1, <1>2, <2>1 DEF TypeOK
  <2>2. CASE pc'[1] # "up"
    <3>1. Clear({tx, rx})
      BY <1>1, <2>2
    <3>2. /\ info' \in [Ring -> BOOLEAN] /\ desc' \in [Ring -> 0..2]
          /\ \A r \in Ring : info'[r] <=> r \notin {tx, rx} /\ info[r]
          /\ \A r \in Ring : desc'[r] = (IF r \in {tx, rx} THEN 0 ELSE desc[r])
      BY <3>1, <1>2, Cleared, Zenon
    <3>3. QED
      BY <3>2, <2>2
  <2>3. QED
    BY <2>1, <2>2
<1>7. TypeOK'
  BY <1>1, <1>2, <1>3, <1>4, <1>5, <1>6, Objects DEF TypeOK
<1>8. Kinds'
  BY <1>1, <1>2, <1>3, <1>4, <1>5, <1>6 DEF Kinds, Setting, Structures, Live
<1>9. Flags'
  BY <1>1, <1>2, <1>3, <1>4, <1>5, <1>6 DEF Flags, Setting, Testing, NewRings, Structures,
     Replacing, Live, Kinds, Halfway
<1>10. Structures'
  BY <1>1, <1>2, <1>3, <1>4, <1>5, <1>6 DEF Structures, Setting, Live, NewRings, Replacing
<1>11. Resources'
  BY <1>1, <1>2, <1>3, <1>4, <1>5, <1>6 DEF Resources, Ready, Setting, NewRings, Live, Flags,
     Structures, Replacing
<1>12. Basics'
  BY <1>1, <1>2, <1>3, <1>4, <1>5, <1>6 DEF Basics, Live
<1>13. Enabled'
  BY <1>1, <1>2, <1>3, <1>4, <1>5, <1>6 DEF Enabled, Live
<1>14. Irq'
  BY <1>1, <1>2, <1>3, <1>4, <1>5, <1>6 DEF Irq, Live, Flags
<1>15. Tests'
  BY <1>1, <1>2, <1>3, <1>4, <1>5, <1>6 DEF Tests
<1>16. Named'
  BY <1>1, <1>2, <1>3, <1>4, <1>5, <1>6 DEF Named
<1>17. QED
  BY <1>7, <1>8, <1>9, <1>10, <1>11, <1>12, <1>13, <1>14, <1>15, <1>16 DEF Inv

LEMMA UpInv ==
  ASSUME Inv, Up
  PROVE  Inv'
<1>1. /\ pc'[1] = "idle" => Usable(tx)
      /\ pc = <<"up">> /\ pc[1] = "up"
      /\ up' = TRUE /\ present' = TRUE
      /\ (pc' = <<"idle">> /\ pc'[1] = "idle") \/ (pc' = <<"oops">> /\ pc'[1] = "oops")
      /\ wrong' \subseteq wrong \cup {"freed_twice", "down_twice", "up_twice", "rings_not_set_up"}
      /\ UNCHANGED <<may, testing, test, held, tx, rx, info, desc, newTx,
                     newRx, running, power, names, given>>
  BY DEF Up, Go, testVars, ringVars
<1>2. /\ TypeOK /\ Kinds /\ Flags /\ Structures /\ Resources
      /\ Basics /\ Enabled /\ Irq /\ Tests /\ Named
  BY <1>1 DEF Inv, Stuck
<1>3. /\ {tx, rx, newTx, newRx} \subseteq Ring \cup {None} /\ None \notin Ring
      /\ \A a \in {tx, newTx}, b \in {rx, newRx} : a = b => a = None
      /\ None # <<"netdev", 0>>
  BY <1>2, TwoKinds
<1>4. pc'[1] = "idle" => running
  BY <1>1, <1>2, <1>3 DEF Usable, Parts, Resources, Ready, Setting, Structures, Live
<1>5. TypeOK'
  BY <1>1, <1>2, <1>3, <1>4 DEF TypeOK
<1>6. Kinds'
  BY <1>1, <1>2, <1>3, <1>4 DEF Kinds, Setting, Structures, Live
<1>7. ~Stuck' => Flags'
  BY <1>1, <1>2, <1>3, <1>4 DEF Flags, Setting, Testing, NewRings, Structures, Replacing, Live,
     Kinds, Halfway, Stuck
<1>8. ~Stuck' => Structures'
  BY <1>1, <1>2, <1>3, <1>4 DEF Structures, Setting, Live, NewRings, Replacing, Stuck
<1>9. ~Stuck' => Resources'
  BY <1>1, <1>2, <1>3, <1>4 DEF Resources, Ready, Setting, NewRings, Live, Flags, Structures,
     Replacing, Stuck
<1>10. ~Stuck' => Basics'
  BY <1>1, <1>2, <1>3, <1>4 DEF Basics, Live, Stuck
<1>11. ~Stuck' => Enabled'
  BY <1>1, <1>2, <1>3, <1>4 DEF Enabled, Live, Stuck
<1>12. ~Stuck' => Irq'
  BY <1>1, <1>2, <1>3, <1>4 DEF Irq, Live, Flags, Stuck
<1>13. ~Stuck' => Tests'
  BY <1>1, <1>2, <1>3, <1>4 DEF Tests, Stuck
<1>14. Named'
  BY <1>1, <1>2, <1>3, <1>4 DEF Named
<1>15. QED
  BY <1>5, <1>6, <1>7, <1>8, <1>9, <1>10, <1>11, <1>12, <1>13, <1>14 DEF Inv

LEMMA CloseBeginsInv ==
  ASSUME Inv, CloseBegins
  PROVE  Inv'
<1>1. /\ pc = <<"idle">> /\ pc[1] = "idle"
      /\ running /\ power # "off" /\ running' = FALSE /\ up' = FALSE
      /\ (up /\ pc' = <<"close">> /\ pc'[1] = "close") \/ (~up /\ pc' = <<"hang">> /\ pc'[1] = "hang")
      /\ wrong' \subseteq wrong \cup {"freed_twice", "down_twice", "up_twice", "rings_not_set_up"}
      /\ UNCHANGED <<may, testing, test, held, tx, rx, info, desc, newTx,
                     newRx, present, power, names, given>>
  BY DEF CloseBegins, Go, Idle, Down, testVars, ringVars
<1>2. /\ TypeOK /\ Kinds /\ Flags /\ Structures /\ Resources
      /\ Basics /\ Enabled /\ Irq /\ Tests /\ Named
  BY <1>1 DEF Inv, Stuck
<1>3. /\ newTx = None /\ newRx = None /\ tx \in Ring /\ rx \in Ring /\ tx # rx /\ testing = "no" /\ test = {}
      /\ {tx, rx} \subseteq held /\ Ready = IF running THEN {tx, rx} ELSE {}
      /\ running /\ power = "on" /\ ~Halfway => up
  BY <1>1, AtIdle
<1>4. TypeOK'
  BY <1>1, <1>2, <1>3 DEF TypeOK
<1>5. Kinds'
  BY <1>1, <1>2, <1>3 DEF Kinds, Setting, Structures, Live
<1>6. ~Stuck' => Flags'
  BY <1>1, <1>2, <1>3 DEF Flags, Setting, Testing, NewRings, Structures, Replacing, Live, Kinds,
     Halfway, Stuck
<1>7. ~Stuck' => Structures'
  BY <1>1, <1>2, <1>3 DEF Structures, Setting, Live, NewRings, Replacing, Stuck
<1>8. ~Stuck' => Resources'
  BY <1>1, <1>2, <1>3 DEF Resources, Ready, Setting, NewRings, Live, Flags, Structures,
     Replacing, Stuck
<1>9. ~Stuck' => Basics'
  BY <1>1, <1>2, <1>3 DEF Basics, Live, Stuck
<1>10. ~Stuck' => Enabled'
  BY <1>1, <1>2, <1>3 DEF Enabled, Live, Stuck
<1>11. ~Stuck' => Irq'
  BY <1>1, <1>2, <1>3 DEF Irq, Live, Flags, Stuck
<1>12. ~Stuck' => Tests'
  BY <1>1, <1>2, <1>3 DEF Tests, Stuck
<1>13. Named'
  BY <1>1, <1>2, <1>3 DEF Named
<1>14. QED
  BY <1>4, <1>5, <1>6, <1>7, <1>8, <1>9, <1>10, <1>11, <1>12, <1>13 DEF Inv

LEMMA CloseInv ==
  ASSUME Inv, Close
  PROVE  Inv'
<1>1. /\ pc = <<"close">> /\ pc[1] = "close"
      /\ held' = held \ ({H("irq")} \cup Parts({tx, rx})) /\ Clear({tx, rx})
      /\ wrong' \subseteq wrong \cup {"freed_twice", "down_twice", "up_twice", "rings_not_set_up"}
      /\ UNCHANGED <<may, testing, test, tx, rx, newTx, newRx, running,
                     up, present, power, names, given>>
  BY DEF Close, Go, Say, testVars, ringVars
<1>2. /\ TypeOK /\ Kinds /\ Flags /\ Structures /\ Resources
      /\ Basics /\ Enabled /\ Irq /\ Tests /\ Named
  BY <1>1 DEF Inv, Stuck
<1>3. /\ {tx, rx, newTx, newRx} \subseteq Ring \cup {None} /\ None \notin Ring
      /\ \A a \in {tx, newTx}, b \in {rx, newRx} : a = b => a = None
      /\ None # <<"netdev", 0>>
  BY <1>2, TwoKinds
<1>4. \/ H("registered") \notin held /\ pc' = <<"free_all">> /\ pc'[1] = "free_all"
      \/ H("registered") \in held /\ testing # "no" /\ pc' = <<"intr_test">> /\ pc'[1] = "intr_test"
      \/ H("registered") \in held /\ testing = "no" /\ pc' = <<"idle">> /\ pc'[1] = "idle"
  <2>1. H("registered") \notin held => testing = "no"
    BY <1>1, <1>2 DEF Basics, Live
  <2>2. CASE H("registered") \notin held
    <3>1. pc' = <<"free_all">>
      BY <2>1, <2>2 DEF Close, Go
    <3>2. QED
      BY <2>2, <3>1
  <2>3. CASE H("registered") \in held /\ testing # "no"
    <3>1. pc' = <<"intr_test">>
      BY <2>3 DEF Close, Go
    <3>2. QED
      BY <2>3, <3>1
  <2>4. CASE H("registered") \in held /\ testing = "no"
    <3>1. pc' = <<"idle">>
      BY <2>4 DEF Close, Go
    <3>2. QED
      BY <2>4, <3>1
  <2>5. QED
    BY <2>2, <2>3, <2>4
<1>5. tx \in Ring /\ rx \in Ring /\ ~running
  BY <1>1, <1>2, <1>3 DEF Structures, Live, Flags, Setting, NewRings
<1>6. /\ \A v : H(v) \in held' <=> H(v) \in held /\ v # "irq"
      /\ \A r \in Ring : r \in held' <=> r \in held
      /\ \A r \in Ring : InfoOf(r) \in held' <=> InfoOf(r) \in held /\ r \notin {tx, rx}
      /\ \A r \in Ring, n \in {1, 2} : DescOf(r, n) \in held' <=> DescOf(r, n) \in held /\ ~(r \in {tx, rx} /\ n = desc[r])
      /\ \A k \in DOMAIN TestRing : TestRing[k] \in held' <=> TestRing[k] \in held
  BY <1>1, <1>5, Apart, Tables DEF Parts
<1>7. /\ info' \in [Ring -> BOOLEAN] /\ desc' \in [Ring -> 0..2]
      /\ \A r \in Ring : info'[r] <=> r \notin {tx, rx} /\ info[r]
      /\ \A r \in Ring : desc'[r] = (IF r \in {tx, rx} THEN 0 ELSE desc[r])
  BY <1>1, <1>2, Cleared, Zenon
<1>8. TypeOK'
  BY <1>1, <1>2, <1>3, <1>4, <1>5, <1>6, <1>7 DEF TypeOK
<1>9. Kinds'
  BY <1>1, <1>2, <1>3, <1>4, <1>5, <1>6, <1>7 DEF Kinds, Setting, Structures, Live
<1>10. Flags'
  BY <1>1, <1>2, <1>3, <1>4, <1>5, <1>6, <1>7 DEF Flags, Setting, Testing, NewRings, Structures,
     Replacing, Live, Kinds, Halfway, Basics
<1>11. Structures'
  BY <1>1, <1>2, <1>3, <1>4, <1>5, <1>6, <1>7 DEF Structures, Setting, Live, NewRings, Replacing
<1>12. Resources'
  BY <1>1, <1>2, <1>3, <1>4, <1>5, <1>6, <1>7 DEF Resources, Ready, Setting, NewRings, Live,
     Flags, Structures, Replacing
<1>13. Basics'
  BY <1>1, <1>2, <1>3, <1>4, <1>5, <1>6, <1>7 DEF Basics, Live
<1>14. Enabled'
  BY <1>1, <1>2, <1>3, <1>4, <1>5, <1>6, <1>7 DEF Enabled, Live
<1>15. Irq'
  BY <1>1, <1>2, <1>3, <1>4, <1>5, <1>6, <1>7 DEF Irq, Live, Flags
<1>16. Tests'
  BY <1>1, <1>2, <1>3, <1>4, <1>5, <1>6, <1>7 DEF Tests
<1>17. Named'
  BY <1>1, <1>2, <1>3, <1>4, <1>5, <1>6, <1>7 DEF Named
<1>18. QED
  BY <1>8, <1>9, <1>10, <1>11, <1>12, <1>13, <1>14, <1>15, <1>16, <1>17 DEF Inv

-----------------------------------------------------------------------------
(* e1000_set_ringparam keeps it.                                             *)
LEMMA SetRingparamInv ==
  ASSUME Inv, SetRingparam
  PROVE  Inv'
<1>1. /\ pc = <<"idle">> /\ pc[1] = "idle"
      /\ power = "on"
      /\ up' = FALSE \/ (~running /\ up' = up)
      /\ IF running THEN (up /\ pc' = <<"new_tx">> /\ pc'[1] = "new_tx") \/ (~up /\ pc' = <<"hang">> /\ pc'[1] = "hang")
         ELSE pc' = <<"new_tx">> /\ pc'[1] = "new_tx"
      /\ wrong' \subseteq wrong \cup {"freed_twice", "down_twice", "up_twice", "rings_not_set_up"}
      /\ UNCHANGED <<may, testing, test, held, tx, rx, info, desc, newTx,
                     newRx, running, present, power, names, given>>
  BY DEF SetRingparam, Go, Idle, Down, testVars, ringVars
<1>2. /\ TypeOK /\ Kinds /\ Flags /\ Structures /\ Resources
      /\ Basics /\ Enabled /\ Irq /\ Tests /\ Named
  BY <1>1 DEF Inv, Stuck
<1>3. /\ newTx = None /\ newRx = None /\ tx \in Ring /\ rx \in Ring /\ tx # rx /\ testing = "no" /\ test = {}
      /\ {tx, rx} \subseteq held /\ Ready = IF running THEN {tx, rx} ELSE {}
      /\ running /\ power = "on" /\ ~Halfway => up
  BY <1>1, AtIdle
<1>4. TypeOK'
  BY <1>1, <1>2, <1>3 DEF TypeOK
<1>5. Kinds'
  BY <1>1, <1>2, <1>3 DEF Kinds, Setting, Structures, Live
<1>6. ~Stuck' => Flags'
  BY <1>1, <1>2, <1>3 DEF Flags, Setting, Testing, NewRings, Structures, Replacing, Live, Kinds,
     Halfway, Stuck
<1>7. ~Stuck' => Structures'
  BY <1>1, <1>2, <1>3 DEF Structures, Setting, Live, NewRings, Replacing, Stuck
<1>8. ~Stuck' => Resources'
  BY <1>1, <1>2, <1>3 DEF Resources, Ready, Setting, NewRings, Live, Flags, Structures,
     Replacing, Stuck
<1>9. ~Stuck' => Basics'
  BY <1>1, <1>2, <1>3 DEF Basics, Live, Stuck
<1>10. ~Stuck' => Enabled'
  BY <1>1, <1>2, <1>3 DEF Enabled, Live, Stuck
<1>11. ~Stuck' => Irq'
  BY <1>1, <1>2, <1>3 DEF Irq, Live, Flags, Stuck
<1>12. ~Stuck' => Tests'
  BY <1>1, <1>2, <1>3 DEF Tests, Stuck
<1>13. Named'
  BY <1>1, <1>2, <1>3 DEF Named
<1>14. QED
  BY <1>4, <1>5, <1>6, <1>7, <1>8, <1>9, <1>10, <1>11, <1>12, <1>13 DEF Inv

LEMMA NewTxInv ==
  ASSUME Inv, NewTx
  PROVE  Inv'
<1>1. /\ pc = <<"new_tx">> /\ pc[1] = "new_tx"
      /\ \/ /\ newTx' \in Free("tx") /\ held' = held \cup {newTx'} /\ pc' = <<"new_rx">> /\ pc'[1] = "new_rx"
            /\ given' = given
         \/ /\ newTx' = newTx /\ held' = held /\ pc' = <<"up">> /\ pc'[1] = "up"
            /\ given' = IF running THEN given ELSE given \cup {"set_ringparam_while_closed"}
      /\ UNCHANGED <<may, testing, test, tx, rx, info, desc, newRx, running,
                     up, present, power, names, wrong>>
  BY DEF NewTx, Go, Fresh, NoRings, testVars, ringVars
<1>2. /\ TypeOK /\ Kinds /\ Flags /\ Structures /\ Resources
      /\ Basics /\ Enabled /\ Irq /\ Tests /\ Named
  BY <1>1 DEF Inv, Stuck
<1>3. /\ {tx, rx, newTx, newRx} \subseteq Ring \cup {None} /\ None \notin Ring
      /\ \A a \in {tx, newTx}, b \in {rx, newRx} : a = b => a = None
      /\ None # <<"netdev", 0>>
  BY <1>2, TwoKinds
<1>4. pc'[1] = "new_rx" => newTx' \in RingOf("tx") /\ newTx' \in Ring /\ newTx' \notin held \cup {tx, rx, newTx, newRx}
  BY <1>1 DEF Free, RingOf
<1>5. tx \in Ring /\ rx \in Ring /\ newTx = None /\ newRx = None
  BY <1>1, <1>2, <1>3 DEF Structures, Live, Replacing, Setting, NewRings
<1>6. /\ \A v : H(v) \in held' <=> H(v) \in held
      /\ \A r \in Ring : r \in held' <=> r \in held \/ (pc'[1] = "new_rx" /\ r = newTx')
      /\ \A r \in Ring : InfoOf(r) \in held' <=> InfoOf(r) \in held
      /\ \A r \in Ring, n \in {1, 2} : DescOf(r, n) \in held' <=> DescOf(r, n) \in held
      /\ \A k \in DOMAIN TestRing : TestRing[k] \in held' <=> TestRing[k] \in held
  BY <1>1, <1>4, Apart, Tables
<1>7. TypeOK'
  BY <1>1, <1>2, <1>3, <1>4, <1>5, <1>6, Objects DEF TypeOK
<1>8. Kinds'
  BY <1>1, <1>2, <1>3, <1>4, <1>5, <1>6 DEF Kinds, Setting, Structures, Live
<1>9. Flags'
  BY <1>1, <1>2, <1>3, <1>4, <1>5, <1>6 DEF Flags, Setting, Testing, NewRings, Structures,
     Replacing, Live, Kinds, Halfway, Losses
<1>10. Structures'
  BY <1>1, <1>2, <1>3, <1>4, <1>5, <1>6 DEF Structures, Setting, Live, NewRings, Replacing
<1>11. Resources'
  BY <1>1, <1>2, <1>3, <1>4, <1>5, <1>6 DEF Resources, Ready, Setting, NewRings, Live, Flags,
     Structures, Replacing
<1>12. Basics'
  BY <1>1, <1>2, <1>3, <1>4, <1>5, <1>6 DEF Basics, Live
<1>13. Enabled'
  BY <1>1, <1>2, <1>3, <1>4, <1>5, <1>6 DEF Enabled, Live
<1>14. Irq'
  BY <1>1, <1>2, <1>3, <1>4, <1>5, <1>6 DEF Irq, Live, Flags
<1>15. Tests'
  BY <1>1, <1>2, <1>3, <1>4, <1>5, <1>6 DEF Tests
<1>16. Named'
  BY <1>1, <1>2, <1>3, <1>4, <1>5, <1>6 DEF Named
<1>17. QED
  BY <1>7, <1>8, <1>9, <1>10, <1>11, <1>12, <1>13, <1>14, <1>15, <1>16 DEF Inv

LEMMA NewRxInv ==
  ASSUME Inv, NewRx
  PROVE  Inv'
<1>1. /\ pc = <<"new_rx">> /\ pc[1] = "new_rx"
      /\ \/ /\ newRx' \in Free("rx") /\ held' = held \cup {newRx'} /\ newTx' = newTx /\ given' = given
            /\ IF running THEN pc' = <<"new_rx_resources">> /\ pc'[1] = "new_rx_resources"
               ELSE pc' = <<"swap">> /\ pc'[1] = "swap"
         \/ /\ newRx' = newRx /\ held' = held \ {newTx} /\ newTx' = None /\ pc' = <<"up">> /\ pc'[1] = "up"
            /\ given' = IF running THEN given ELSE given \cup {"set_ringparam_while_closed"}
      /\ UNCHANGED <<may, testing, test, tx, rx, info, desc, running,
                     up, present, power, names, wrong>>
  BY DEF NewRx, Go, Fresh, NoRings, testVars, ringVars
<1>2. /\ TypeOK /\ Kinds /\ Flags /\ Structures /\ Resources
      /\ Basics /\ Enabled /\ Irq /\ Tests /\ Named
  BY <1>1 DEF Inv, Stuck
<1>3. /\ {tx, rx, newTx, newRx} \subseteq Ring \cup {None} /\ None \notin Ring
      /\ \A a \in {tx, newTx}, b \in {rx, newRx} : a = b => a = None
      /\ None # <<"netdev", 0>>
  BY <1>2, TwoKinds
<1>4. pc'[1] # "up" => newRx' \in RingOf("rx") /\ newRx' \in Ring /\ newRx' \notin held \cup {tx, rx, newTx, newRx}
  BY <1>1 DEF Free, RingOf
<1>5. tx \in Ring /\ rx \in Ring /\ newTx \in Ring /\ newTx \notin {tx, rx} /\ newRx = None
  BY <1>1, <1>2, <1>3 DEF Structures, Live, Replacing, Setting, NewRings
<1>6. /\ \A v : H(v) \in held' <=> H(v) \in held
      /\ \A r \in Ring : r \in held' <=> (r \in held /\ ~(pc'[1] = "up" /\ r = newTx)) \/ (pc'[1] # "up" /\ r = newRx')
      /\ \A r \in Ring : InfoOf(r) \in held' <=> InfoOf(r) \in held
      /\ \A r \in Ring, n \in {1, 2} : DescOf(r, n) \in held' <=> DescOf(r, n) \in held
      /\ \A k \in DOMAIN TestRing : TestRing[k] \in held' <=> TestRing[k] \in held
  BY <1>1, <1>4, <1>5, Apart, Tables
<1>7. TypeOK'
  BY <1>1, <1>2, <1>3, <1>4, <1>5, <1>6, Objects DEF TypeOK
<1>8. Kinds'
  BY <1>1, <1>2, <1>3, <1>4, <1>5, <1>6 DEF Kinds, Setting, Structures, Live
<1>9. Flags'
  BY <1>1, <1>2, <1>3, <1>4, <1>5, <1>6 DEF Flags, Setting, Testing, NewRings, Structures,
     Replacing, Live, Kinds, Halfway, Losses
<1>10. Structures'
  BY <1>1, <1>2, <1>3, <1>4, <1>5, <1>6 DEF Structures, Setting, Live, NewRings, Replacing
<1>11. Resources'
  BY <1>1, <1>2, <1>3, <1>4, <1>5, <1>6 DEF Resources, Ready, Setting, NewRings, Live, Flags,
     Structures, Replacing
<1>12. Basics'
  BY <1>1, <1>2, <1>3, <1>4, <1>5, <1>6 DEF Basics, Live
<1>13. Enabled'
  BY <1>1, <1>2, <1>3, <1>4, <1>5, <1>6 DEF Enabled, Live
<1>14. Irq'
  BY <1>1, <1>2, <1>3, <1>4, <1>5, <1>6 DEF Irq, Live, Flags
<1>15. Tests'
  BY <1>1, <1>2, <1>3, <1>4, <1>5, <1>6 DEF Tests
<1>16. Named'
  BY <1>1, <1>2, <1>3, <1>4, <1>5, <1>6 DEF Named
<1>17. QED
  BY <1>7, <1>8, <1>9, <1>10, <1>11, <1>12, <1>13, <1>14, <1>15, <1>16 DEF Inv

LEMMA NewRxResourcesInv ==
  ASSUME Inv, NewRxResources
  PROVE  Inv'
<1>1. /\ pc = <<"new_rx_resources">> /\ pc[1] = "new_rx_resources"
      /\ pc' = <<"info", newRx>> /\ pc'[1] = "info" /\ pc'[2] = newRx
      /\ UNCHANGED <<may, testing, test, held, tx, rx, info, desc, newTx, newRx,
                     running, up, present, power, names, given, wrong>>
  BY DEF NewRxResources, SetUp, Go, testVars, ringVars
<1>2. /\ TypeOK /\ Kinds /\ Flags /\ Structures /\ Resources
      /\ Basics /\ Enabled /\ Irq /\ Tests /\ Named
  BY <1>1 DEF Inv, Stuck
<1>3. /\ {tx, rx, newTx, newRx} \subseteq Ring \cup {None} /\ None \notin Ring
      /\ \A a \in {tx, newTx}, b \in {rx, newRx} : a = b => a = None
      /\ None # <<"netdev", 0>>
  BY <1>2, TwoKinds
<1>4. TypeOK'
  BY <1>1, <1>2, <1>3 DEF TypeOK
<1>5. Kinds'
  BY <1>1, <1>2, <1>3 DEF Kinds, Setting, Structures, Live, NewRings, Replacing
<1>6. Flags'
  BY <1>1, <1>2, <1>3 DEF Flags, Setting, Testing, NewRings, Structures, Replacing, Live, Kinds,
     Halfway
<1>7. Structures'
  BY <1>1, <1>2, <1>3 DEF Structures, Setting, Live, NewRings, Replacing
<1>8. Resources'
  BY <1>1, <1>2, <1>3 DEF Resources, Ready, Setting, NewRings, Live, Flags, Structures,
     Replacing
<1>9. Basics'
  BY <1>1, <1>2, <1>3 DEF Basics, Live
<1>10. Enabled'
  BY <1>1, <1>2, <1>3 DEF Enabled, Live
<1>11. Irq'
  BY <1>1, <1>2, <1>3 DEF Irq, Live, Flags
<1>12. Tests'
  BY <1>1, <1>2, <1>3 DEF Tests
<1>13. Named'
  BY <1>1, <1>2, <1>3 DEF Named
<1>14. QED
  BY <1>4, <1>5, <1>6, <1>7, <1>8, <1>9, <1>10, <1>11, <1>12, <1>13 DEF Inv

LEMMA NewTxResourcesInv ==
  ASSUME Inv, NewTxResources
  PROVE  Inv'
<1>1. /\ pc = <<"new_tx_resources">> /\ pc[1] = "new_tx_resources"
      /\ pc' = <<"info", newTx>> /\ pc'[1] = "info" /\ pc'[2] = newTx
      /\ UNCHANGED <<may, testing, test, held, tx, rx, info, desc, newTx, newRx,
                     running, up, present, power, names, given, wrong>>
  BY DEF NewTxResources, SetUp, Go, testVars, ringVars
<1>2. /\ TypeOK /\ Kinds /\ Flags /\ Structures /\ Resources
      /\ Basics /\ Enabled /\ Irq /\ Tests /\ Named
  BY <1>1 DEF Inv, Stuck
<1>3. /\ {tx, rx, newTx, newRx} \subseteq Ring \cup {None} /\ None \notin Ring
      /\ \A a \in {tx, newTx}, b \in {rx, newRx} : a = b => a = None
      /\ None # <<"netdev", 0>>
  BY <1>2, TwoKinds
<1>4. TypeOK'
  BY <1>1, <1>2, <1>3 DEF TypeOK
<1>5. Kinds'
  BY <1>1, <1>2, <1>3 DEF Kinds, Setting, Structures, Live, NewRings, Replacing
<1>6. Flags'
  BY <1>1, <1>2, <1>3 DEF Flags, Setting, Testing, NewRings, Structures, Replacing, Live, Kinds,
     Halfway
<1>7. Structures'
  BY <1>1, <1>2, <1>3 DEF Structures, Setting, Live, NewRings, Replacing
<1>8. Resources'
  BY <1>1, <1>2, <1>3 DEF Resources, Ready, Setting, NewRings, Live, Flags, Structures,
     Replacing
<1>9. Basics'
  BY <1>1, <1>2, <1>3 DEF Basics, Live
<1>10. Enabled'
  BY <1>1, <1>2, <1>3 DEF Enabled, Live
<1>11. Irq'
  BY <1>1, <1>2, <1>3 DEF Irq, Live, Flags
<1>12. Tests'
  BY <1>1, <1>2, <1>3 DEF Tests
<1>13. Named'
  BY <1>1, <1>2, <1>3 DEF Named
<1>14. QED
  BY <1>4, <1>5, <1>6, <1>7, <1>8, <1>9, <1>10, <1>11, <1>12, <1>13 DEF Inv

LEMMA ErrSetupTxInv ==
  ASSUME Inv, ErrSetupTx
  PROVE  Inv'
<1>1. /\ pc = <<"new_err_setup_tx">> /\ pc[1] = "new_err_setup_tx" /\ pc' = <<"new_err_setup_rx">> /\ pc'[1] = "new_err_setup_rx"
      /\ held' = held \ Parts({newRx}) /\ Clear({newRx})
      /\ wrong' \subseteq wrong \cup {"freed_twice", "down_twice", "up_twice", "rings_not_set_up"}
      /\ UNCHANGED <<may, testing, test, tx, rx, newTx, newRx, running,
                     up, present, power, names, given>>
  BY DEF ErrSetupTx, Go, Say, testVars, ringVars
<1>2. /\ TypeOK /\ Kinds /\ Flags /\ Structures /\ Resources
      /\ Basics /\ Enabled /\ Irq /\ Tests /\ Named
  BY <1>1 DEF Inv, Stuck
<1>3. /\ {tx, rx, newTx, newRx} \subseteq Ring \cup {None} /\ None \notin Ring
      /\ \A a \in {tx, newTx}, b \in {rx, newRx} : a = b => a = None
      /\ None # <<"netdev", 0>>
  BY <1>2, TwoKinds
<1>4. running /\ {tx, rx, newTx, newRx} \subseteq Ring /\ newTx \notin {tx, rx, newRx} /\ newRx \notin {tx, rx, newTx} /\ tx # rx
  BY <1>1, <1>2, <1>3 DEF Structures, Live, Flags, Setting, NewRings, Replacing
<1>5. /\ \A v : H(v) \in held' <=> H(v) \in held
      /\ \A r \in Ring : r \in held' <=> r \in held
      /\ \A r \in Ring : InfoOf(r) \in held' <=> InfoOf(r) \in held /\ r # newRx
      /\ \A r \in Ring, n \in {1, 2} : DescOf(r, n) \in held' <=> DescOf(r, n) \in held /\ ~(r = newRx /\ n = desc[newRx])
      /\ \A k \in DOMAIN TestRing : TestRing[k] \in held' <=> TestRing[k] \in held
  BY <1>1, <1>4, Apart, Tables DEF Parts
<1>6. /\ info' \in [Ring -> BOOLEAN] /\ desc' \in [Ring -> 0..2]
      /\ \A r \in Ring : info'[r] <=> r \notin {newRx} /\ info[r]
      /\ \A r \in Ring : desc'[r] = (IF r \in {newRx} THEN 0 ELSE desc[r])
  BY <1>1, <1>2, Cleared, Zenon
<1>7. Ready = {tx, rx, newRx} /\ Ready' = {tx, rx} /\ ~Setting /\ ~Setting'
  BY <1>1, <1>4 DEF Ready, Setting
<1>8. TypeOK'
  BY <1>1, <1>2, <1>3, <1>4, <1>5, <1>6, <1>7 DEF TypeOK
<1>9. Kinds'
  BY <1>1, <1>2, <1>3, <1>4, <1>5, <1>6, <1>7 DEF Kinds, Setting, Structures, Live
<1>10. Flags'
  BY <1>1, <1>2, <1>3, <1>4, <1>5, <1>6, <1>7 DEF Flags, Setting, Testing, NewRings, Structures,
     Replacing, Live, Kinds, Halfway
<1>11. Structures'
  BY <1>1, <1>2, <1>3, <1>4, <1>5, <1>6, <1>7 DEF Structures, Setting, Live, NewRings, Replacing
<1>12. Resources'
  <2>1. \A r \in Ready' : info'[r] /\ desc'[r] # 0
    BY <1>1, <1>2, <1>4, <1>5, <1>6, <1>7 DEF Resources
  <2>2. \A r \in Ring : InfoOf(r) \in held' <=> r \in Ready'
    BY <1>1, <1>2, <1>4, <1>5, <1>6, <1>7 DEF Resources
  <2>3. \A r \in Ring, n \in {1, 2} : DescOf(r, n) \in held' <=> r \in Ready' /\ desc'[r] = n
    <3>1. \A r \in Ring, n \in {1, 2} : DescOf(r, n) \in held <=> r \in Ready /\ desc[r] = n
      BY <1>2, <1>7 DEF Resources
    <3>2. QED
      BY <1>1, <1>2, <1>4, <1>5, <1>6, <1>7, <3>1
  <2>4. QED
    BY <1>1, <1>7, <2>1, <2>2, <2>3 DEF Resources
<1>13. Basics'
  BY <1>1, <1>2, <1>3, <1>4, <1>5, <1>6, <1>7 DEF Basics, Live
<1>14. Enabled'
  BY <1>1, <1>2, <1>3, <1>4, <1>5, <1>6, <1>7 DEF Enabled, Live
<1>15. Irq'
  BY <1>1, <1>2, <1>3, <1>4, <1>5, <1>6, <1>7 DEF Irq, Live, Flags
<1>16. Tests'
  BY <1>1, <1>2, <1>3, <1>4, <1>5, <1>6, <1>7 DEF Tests
<1>17. Named'
  BY <1>1, <1>2, <1>3, <1>4, <1>5, <1>6, <1>7 DEF Named
<1>18. QED
  BY <1>8, <1>9, <1>10, <1>11, <1>12, <1>13, <1>14, <1>15, <1>16, <1>17 DEF Inv

LEMMA NewErrSetupRxInv ==
  ASSUME Inv, NewErrSetupRx
  PROVE  Inv'
<1>1. /\ pc = <<"new_err_setup_rx">> /\ pc[1] = "new_err_setup_rx" /\ pc' = <<"up">> /\ pc'[1] = "up"
      /\ held' = held \ {newRx, newTx} /\ Clear({newRx, newTx}) /\ newTx' = None /\ newRx' = None
      /\ UNCHANGED <<may, testing, test, tx, rx, running, up, present, power, names, given, wrong>>
  BY DEF NewErrSetupRx, Go, testVars, ringVars
<1>2. /\ TypeOK /\ Kinds /\ Flags /\ Structures /\ Resources
      /\ Basics /\ Enabled /\ Irq /\ Tests /\ Named
  BY <1>1 DEF Inv, Stuck
<1>3. /\ {tx, rx, newTx, newRx} \subseteq Ring \cup {None} /\ None \notin Ring
      /\ \A a \in {tx, newTx}, b \in {rx, newRx} : a = b => a = None
      /\ None # <<"netdev", 0>>
  BY <1>2, TwoKinds
<1>4. running /\ {tx, rx, newTx, newRx} \subseteq Ring /\ newTx \notin {tx, rx, newRx} /\ newRx \notin {tx, rx, newTx} /\ tx # rx
  BY <1>1, <1>2, <1>3 DEF Structures, Live, Flags, Setting, NewRings, Replacing
<1>5. /\ \A v : H(v) \in held' <=> H(v) \in held
      /\ \A r \in Ring : r \in held' <=> r \in held /\ r \notin {newRx, newTx}
      /\ \A r \in Ring : InfoOf(r) \in held' <=> InfoOf(r) \in held
      /\ \A r \in Ring, n \in {1, 2} : DescOf(r, n) \in held' <=> DescOf(r, n) \in held
      /\ \A k \in DOMAIN TestRing : TestRing[k] \in held' <=> TestRing[k] \in held
  BY <1>1, <1>4, Apart, Tables
<1>6. /\ info' \in [Ring -> BOOLEAN] /\ desc' \in [Ring -> 0..2]
      /\ \A r \in Ring : info'[r] <=> r \notin {newRx, newTx} /\ info[r]
      /\ \A r \in Ring : desc'[r] = (IF r \in {newRx, newTx} THEN 0 ELSE desc[r])
  BY <1>1, <1>2, Cleared, Zenon
<1>7. Ready = {tx, rx} /\ Ready' = {tx, rx} /\ ~Setting /\ ~Setting'
  BY <1>1, <1>4 DEF Ready, Setting, NewRings
<1>8. TypeOK'
  BY <1>1, <1>2, <1>3, <1>4, <1>5, <1>6, <1>7 DEF TypeOK
<1>9. Kinds'
  BY <1>1, <1>2, <1>3, <1>4, <1>5, <1>6, <1>7 DEF Kinds, Setting, Structures, Live
<1>10. Flags'
  BY <1>1, <1>2, <1>3, <1>4, <1>5, <1>6, <1>7 DEF Flags, Setting, Testing, NewRings, Structures,
     Replacing, Live, Kinds, Halfway
<1>11. Structures'
  BY <1>1, <1>2, <1>3, <1>4, <1>5, <1>6, <1>7 DEF Structures, Setting, Live, NewRings, Replacing
<1>12. Resources'
  <2>1. \A r \in Ready' : info'[r] /\ desc'[r] # 0
    BY <1>1, <1>2, <1>4, <1>5, <1>6, <1>7 DEF Resources
  <2>2. \A r \in Ring : InfoOf(r) \in held' <=> r \in Ready'
    BY <1>1, <1>2, <1>4, <1>5, <1>6, <1>7 DEF Resources
  <2>3. \A r \in Ring, n \in {1, 2} : DescOf(r, n) \in held' <=> r \in Ready' /\ desc'[r] = n
    <3>1. \A r \in Ring, n \in {1, 2} : DescOf(r, n) \in held <=> r \in Ready /\ desc[r] = n
      BY <1>2, <1>7 DEF Resources
    <3>2. QED
      BY <1>1, <1>2, <1>4, <1>5, <1>6, <1>7, <3>1
  <2>4. QED
    BY <1>1, <1>7, <2>1, <2>2, <2>3 DEF Resources
<1>13. Basics'
  BY <1>1, <1>2, <1>3, <1>4, <1>5, <1>6, <1>7 DEF Basics, Live
<1>14. Enabled'
  BY <1>1, <1>2, <1>3, <1>4, <1>5, <1>6, <1>7 DEF Enabled, Live
<1>15. Irq'
  BY <1>1, <1>2, <1>3, <1>4, <1>5, <1>6, <1>7 DEF Irq, Live, Flags
<1>16. Tests'
  BY <1>1, <1>2, <1>3, <1>4, <1>5, <1>6, <1>7 DEF Tests
<1>17. Named'
  BY <1>1, <1>2, <1>3, <1>4, <1>5, <1>6, <1>7 DEF Named
<1>18. QED
  BY <1>8, <1>9, <1>10, <1>11, <1>12, <1>13, <1>14, <1>15, <1>16, <1>17 DEF Inv

LEMMA SwapInv ==
  ASSUME Inv, Swap
  PROVE  Inv'
<1>1. /\ pc = <<"swap">> /\ pc[1] = "swap"
      /\ tx' = newTx /\ rx' = newRx /\ newTx' = None /\ newRx' = None
      /\ wrong' \subseteq wrong \cup {"freed_twice", "down_twice", "up_twice", "rings_not_set_up"}
      /\ \/ /\ running /\ held' = held \ (Parts({tx, rx}) \cup {tx, rx}) /\ Clear({tx, rx}) /\ given' = given
            /\ pc' = <<"up">> /\ pc'[1] = "up"
         \/ /\ ~running /\ held' = held /\ info' = info /\ desc' = desc /\ given' = given \cup {"rings"}
            /\ pc' = <<"idle">> /\ pc'[1] = "idle"
      /\ UNCHANGED <<may, testing, test, running, up, present, power, names>>
  BY DEF Swap, Go, Say, testVars, ringVars
<1>2. /\ TypeOK /\ Kinds /\ Flags /\ Structures /\ Resources
      /\ Basics /\ Enabled /\ Irq /\ Tests /\ Named
  BY <1>1 DEF Inv, Stuck
<1>3. /\ {tx, rx, newTx, newRx} \subseteq Ring \cup {None} /\ None \notin Ring
      /\ \A a \in {tx, newTx}, b \in {rx, newRx} : a = b => a = None
      /\ None # <<"netdev", 0>>
  BY <1>2, TwoKinds
<1>4. {tx, rx, newTx, newRx} \subseteq Ring /\ newTx \notin {tx, rx, newRx} /\ newRx \notin {tx, rx, newTx} /\ tx # rx
  BY <1>1, <1>2, <1>3 DEF Structures, Live, Flags, Setting, NewRings, Replacing
<1>5. /\ \A v : H(v) \in held' <=> H(v) \in held
      /\ \A r \in Ring : r \in held' <=> r \in held /\ ~(running /\ r \in {tx, rx})
      /\ \A r \in Ring : InfoOf(r) \in held' <=> InfoOf(r) \in held /\ ~(running /\ r \in {tx, rx})
      /\ \A r \in Ring, n \in {1, 2} : DescOf(r, n) \in held' <=> DescOf(r, n) \in held /\ ~(running /\ r \in {tx, rx} /\ n = desc[r])
      /\ \A k \in DOMAIN TestRing : TestRing[k] \in held' <=> TestRing[k] \in held
  BY <1>1, <1>4, Apart, Tables DEF Parts
<1>6. /\ info' \in [Ring -> BOOLEAN] /\ desc' \in [Ring -> 0..2]
      /\ \A r \in Ring : info'[r] <=> ~(running /\ r \in {tx, rx}) /\ info[r]
      /\ \A r \in Ring : desc'[r] = (IF running /\ r \in {tx, rx} THEN 0 ELSE desc[r])
  <2>1. CASE ~running
    BY <1>1, <1>2, <2>1 DEF TypeOK
  <2>2. CASE running
    <3>1. Clear({tx, rx})
      BY <1>1, <2>2
    <3>2. /\ info' \in [Ring -> BOOLEAN] /\ desc' \in [Ring -> 0..2]
          /\ \A r \in Ring : info'[r] <=> r \notin {tx, rx} /\ info[r]
          /\ \A r \in Ring : desc'[r] = (IF r \in {tx, rx} THEN 0 ELSE desc[r])
      BY <3>1, <1>2, Cleared, Zenon
    <3>3. QED
      BY <3>2, <2>2
  <2>3. QED
    BY <2>1, <2>2
<1>7. Ready = (IF running THEN {tx, rx, newTx, newRx} ELSE {}) /\ Ready' = (IF running THEN {newTx, newRx} ELSE {}) /\ ~Setting /\ ~Setting'
  BY <1>1, <1>4 DEF Ready, Setting, NewRings
<1>8. TypeOK'
  <2>1. held' \subseteq Object
    BY <1>1, <1>2 DEF TypeOK
  <2>2. given' \subseteq Losses \cup {"set_ringparam_while_closed", "suspend", "resume", "bus_error"}
    BY <1>1, <1>2 DEF TypeOK, Losses
  <2>3. wrong' \subseteq {"freed_twice", "down_twice", "up_twice", "rings_not_set_up", "freed_ring_read"}
    BY <1>1, <1>2 DEF TypeOK
  <2>4. pc'[1] \notin {"probe", "undo", "snap"}
    BY <1>1
  <2>5. QED
    BY <1>1, <1>2, <1>4, <1>6, <2>1, <2>2, <2>3, <2>4 DEF TypeOK
<1>9. Kinds'
  BY <1>1, <1>2, <1>3, <1>4, <1>5, <1>6, <1>7 DEF Kinds, Setting, Structures, Live
<1>10. Flags'
  BY <1>1, <1>2, <1>3, <1>4, <1>5, <1>6, <1>7 DEF Flags, Setting, Testing, NewRings, Structures,
     Replacing, Live, Kinds, Halfway, Losses
<1>11. Structures'
  BY <1>1, <1>2, <1>3, <1>4, <1>5, <1>6, <1>7 DEF Structures, Setting, Live, NewRings, Replacing
<1>12. Resources'
  <2>1. \A r \in Ready' : info'[r] /\ desc'[r] # 0
    BY <1>1, <1>2, <1>4, <1>5, <1>6, <1>7 DEF Resources
  <2>2. \A r \in Ring : InfoOf(r) \in held' <=> r \in Ready'
    BY <1>1, <1>2, <1>4, <1>5, <1>6, <1>7 DEF Resources
  <2>3. \A r \in Ring, n \in {1, 2} : DescOf(r, n) \in held' <=> r \in Ready' /\ desc'[r] = n
    <3>1. \A r \in Ring, n \in {1, 2} : DescOf(r, n) \in held <=> r \in Ready /\ desc[r] = n
      BY <1>2, <1>7 DEF Resources
    <3>2. QED
      BY <1>1, <1>2, <1>4, <1>5, <1>6, <1>7, <3>1
  <2>4. QED
    BY <1>1, <1>7, <2>1, <2>2, <2>3 DEF Resources
<1>13. Basics'
  BY <1>1, <1>2, <1>3, <1>4, <1>5, <1>6, <1>7 DEF Basics, Live
<1>14. Enabled'
  BY <1>1, <1>2, <1>3, <1>4, <1>5, <1>6, <1>7 DEF Enabled, Live
<1>15. Irq'
  BY <1>1, <1>2, <1>3, <1>4, <1>5, <1>6, <1>7 DEF Irq, Live, Flags
<1>16. Tests'
  BY <1>1, <1>2, <1>3, <1>4, <1>5, <1>6, <1>7 DEF Tests
<1>17. Named'
  BY <1>1, <1>2, <1>3, <1>4, <1>5, <1>6, <1>7 DEF Named
<1>18. QED
  BY <1>8, <1>9, <1>10, <1>11, <1>12, <1>13, <1>14, <1>15, <1>16, <1>17 DEF Inv

-----------------------------------------------------------------------------
(* e1000_diag_test keeps it.                                                 *)
LEMMA DiagTestInv ==
  ASSUME Inv, DiagTest
  PROVE  Inv'
<1>1. /\ pc = <<"idle">> /\ pc[1] = "idle"
      /\ power = "on" /\ running' = FALSE /\ testing' = (IF running THEN "running" ELSE "closed")
      /\ up' = FALSE \/ (~running /\ up' = up)
      /\ IF running THEN (up /\ pc' = <<"close">> /\ pc'[1] = "close") \/ (~up /\ pc' = <<"hang">> /\ pc'[1] = "hang")
         ELSE pc' = <<"intr_test">> /\ pc'[1] = "intr_test"
      /\ wrong' \subseteq wrong \cup {"freed_twice", "down_twice", "up_twice", "rings_not_set_up"}
      /\ UNCHANGED <<may, test, held, tx, rx, info, desc, newTx,
                     newRx, present, power, names, given>>
  BY DEF DiagTest, Go, Idle, Down, testVars, ringVars
<1>2. /\ TypeOK /\ Kinds /\ Flags /\ Structures /\ Resources
      /\ Basics /\ Enabled /\ Irq /\ Tests /\ Named
  BY <1>1 DEF Inv, Stuck
<1>3. /\ newTx = None /\ newRx = None /\ tx \in Ring /\ rx \in Ring /\ tx # rx /\ testing = "no" /\ test = {}
      /\ {tx, rx} \subseteq held /\ Ready = IF running THEN {tx, rx} ELSE {}
      /\ running /\ power = "on" /\ ~Halfway => up
  BY <1>1, AtIdle
<1>4. TypeOK'
  BY <1>1, <1>2, <1>3 DEF TypeOK
<1>5. Kinds'
  BY <1>1, <1>2, <1>3 DEF Kinds, Setting, Structures, Live
<1>6. ~Stuck' => Flags'
  BY <1>1, <1>2, <1>3 DEF Flags, Setting, Testing, NewRings, Structures, Replacing, Live, Kinds,
     Halfway, Stuck
<1>7. ~Stuck' => Structures'
  BY <1>1, <1>2, <1>3 DEF Structures, Setting, Live, NewRings, Replacing, Stuck
<1>8. ~Stuck' => Resources'
  BY <1>1, <1>2, <1>3 DEF Resources, Ready, Setting, NewRings, Live, Flags, Structures,
     Replacing, Stuck
<1>9. ~Stuck' => Basics'
  BY <1>1, <1>2, <1>3 DEF Basics, Live, Stuck
<1>10. ~Stuck' => Enabled'
  BY <1>1, <1>2, <1>3 DEF Enabled, Live, Stuck
<1>11. ~Stuck' => Irq'
  BY <1>1, <1>2, <1>3 DEF Irq, Live, Flags, Stuck
<1>12. ~Stuck' => Tests'
  BY <1>1, <1>2, <1>3 DEF Tests, Stuck
<1>13. Named'
  BY <1>1, <1>2, <1>3 DEF Named
<1>14. QED
  BY <1>4, <1>5, <1>6, <1>7, <1>8, <1>9, <1>10, <1>11, <1>12, <1>13 DEF Inv

LEMMA IntrTestStepInv ==
  ASSUME Inv, IntrTestStep
  PROVE  Inv'
<1>1. /\ \/ /\ pc = <<"intr_test">> /\ pc[1] = "intr_test" /\ held' = held \cup {H("irq")}
            /\ pc' = <<"intr_test_ends">> /\ pc'[1] = "intr_test_ends"
         \/ /\ pc = <<"intr_test">> /\ pc[1] = "intr_test" /\ held' = held
            /\ pc' = <<"loopback_test", 1>> /\ pc'[1] = "loopback_test" /\ pc'[2] = 1
         \/ /\ pc = <<"intr_test_ends">> /\ pc[1] = "intr_test_ends" /\ held' = held \ {H("irq")}
            /\ pc' = <<"loopback_test", 1>> /\ pc'[1] = "loopback_test" /\ pc'[2] = 1
      /\ wrong' \subseteq wrong \cup {"freed_twice", "down_twice", "up_twice", "rings_not_set_up"}
      /\ UNCHANGED <<may, testing, test, tx, rx, info, desc, newTx, newRx,
                     running, up, present, power, names, given>>
  BY DEF IntrTestStep, IntrTest, Go, Say, testVars, ringVars
<1>2. /\ TypeOK /\ Kinds /\ Flags /\ Structures /\ Resources
      /\ Basics /\ Enabled /\ Irq /\ Tests /\ Named
  BY <1>1 DEF Inv, Stuck
<1>3. /\ {tx, rx, newTx, newRx} \subseteq Ring \cup {None} /\ None \notin Ring
      /\ \A a \in {tx, newTx}, b \in {rx, newRx} : a = b => a = None
      /\ None # <<"netdev", 0>>
  BY <1>2, TwoKinds
<1>4. tx \in Ring /\ rx \in Ring /\ ~running /\ newTx = None /\ newRx = None
  BY <1>1, <1>2, <1>3 DEF Structures, Live, Flags, Setting, NewRings, Replacing
<1>5. /\ \A v : H(v) \in held' <=> (H(v) \in held /\ ~(pc[1] = "intr_test_ends" /\ v = "irq")) \/ (pc'[1] = "intr_test_ends" /\ v = "irq")
      /\ \A r \in Ring : r \in held' <=> r \in held
      /\ \A r \in Ring : InfoOf(r) \in held' <=> InfoOf(r) \in held
      /\ \A r \in Ring, n \in {1, 2} : DescOf(r, n) \in held' <=> DescOf(r, n) \in held
      /\ \A k \in DOMAIN TestRing : TestRing[k] \in held' <=> TestRing[k] \in held
  BY <1>1, Apart, Tables
<1>6. TypeOK'
  BY <1>1, <1>2, <1>3, <1>4, <1>5, Objects DEF TypeOK
<1>7. Kinds'
  BY <1>1, <1>2, <1>3, <1>4, <1>5 DEF Kinds, Setting, Structures, Live
<1>8. Flags'
  BY <1>1, <1>2, <1>3, <1>4, <1>5 DEF Flags, Setting, Testing, NewRings, Structures, Replacing,
     Live, Kinds, Halfway
<1>9. Structures'
  BY <1>1, <1>2, <1>3, <1>4, <1>5 DEF Structures, Setting, Live, NewRings, Replacing
<1>10. Resources'
  BY <1>1, <1>2, <1>3, <1>4, <1>5 DEF Resources, Ready, Setting, NewRings, Live, Flags,
     Structures, Replacing
<1>11. Basics'
  BY <1>1, <1>2, <1>3, <1>4, <1>5 DEF Basics, Live
<1>12. Enabled'
  BY <1>1, <1>2, <1>3, <1>4, <1>5 DEF Enabled, Live
<1>13. Irq'
  BY <1>1, <1>2, <1>3, <1>4, <1>5 DEF Irq, Live, Flags
<1>14. Tests'
  BY <1>1, <1>2, <1>3, <1>4, <1>5, Tables DEF Tests
<1>15. Named'
  BY <1>1, <1>2, <1>3, <1>4, <1>5 DEF Named
<1>16. QED
  BY <1>6, <1>7, <1>8, <1>9, <1>10, <1>11, <1>12, <1>13, <1>14, <1>15 DEF Inv

LEMMA SetupDescRingsInv ==
  ASSUME Inv, SetupDescRings
  PROVE  Inv'
<1>1. /\ pc[1] = "loopback_test"
      /\ \/ /\ held' = held \cup {TestRing[pc[2]]} /\ test' = test \cup {TestRing[pc[2]]} /\ pc[2] # 6
            /\ pc' = <<"loopback_test", pc[2] + 1>>
         \/ /\ held' = held \cup {TestRing[pc[2]]} /\ test' = test \cup {TestRing[pc[2]]}
            /\ pc' = <<"free_desc_rings">>
         \/ held' = held /\ test' = test /\ pc' = <<"free_desc_rings">>
      /\ UNCHANGED <<may, testing, tx, rx, info, desc, newTx, newRx, running,
                     up, present, power, names, given, wrong>>
  BY Tables DEF SetupDescRings, Go, testVars, ringVars
<1>2. /\ TypeOK /\ Kinds /\ Flags /\ Structures /\ Resources
      /\ Basics /\ Enabled /\ Irq /\ Tests /\ Named
  BY <1>1 DEF Inv, Stuck
<1>3. /\ {tx, rx, newTx, newRx} \subseteq Ring \cup {None} /\ None \notin Ring
      /\ \A a \in {tx, newTx}, b \in {rx, newRx} : a = b => a = None
      /\ None # <<"netdev", 0>>
  BY <1>2, TwoKinds
<1>4. tx \in Ring /\ rx \in Ring /\ ~running /\ newTx = None /\ newRx = None
  BY <1>1, <1>2, <1>3 DEF Structures, Live, Flags, Setting, NewRings, Replacing
<1>5. /\ pc[2] \in 1..6 /\ pc[2] \in DOMAIN TestRing /\ test = {TestRing[k] : k \in 1..(pc[2] - 1)}
      /\ TestRing[pc[2]] \in Object
  BY <1>1, <1>2, Tables, Objects DEF Tests
<1>6. \/ pc'[1] = "loopback_test" /\ pc'[2] = pc[2] + 1 /\ pc[2] \in 1..5
      \/ pc'[1] = "free_desc_rings"
  BY <1>1, <1>5
<1>7. /\ \A v : H(v) \in held' <=> H(v) \in held
      /\ \A r \in Ring : r \in held' <=> r \in held
      /\ \A r \in Ring : InfoOf(r) \in held' <=> InfoOf(r) \in held
      /\ \A r \in Ring, n \in {1, 2} : DescOf(r, n) \in held' <=> DescOf(r, n) \in held
      /\ \A k \in DOMAIN TestRing : TestRing[k] \in held' <=> TestRing[k] \in held \/ (test' # test /\ k = pc[2])
  <2>1. \A k \in DOMAIN TestRing : TestRing[k] = TestRing[pc[2]] <=> k = pc[2]
    BY <1>5, Distinct
  <2>2. test' # test => held' = held \cup {TestRing[pc[2]]}
    BY <1>1
  <2>3. test' = test => held' = held
    BY <1>1, <1>2, <1>5 DEF Tests
  <2>4. QED
    BY <1>5, <2>1, <2>2, <2>3, Apart
<1>8. held' \subseteq Object /\ test' \subseteq Object
  BY <1>1, <1>2, <1>5 DEF TypeOK
<1>9. TypeOK'
  BY <1>1, <1>2, <1>6, <1>8 DEF TypeOK
<1>10. Kinds'
  BY <1>1, <1>2, <1>3, <1>4, <1>5, <1>6, <1>7, <1>8 DEF Kinds, Setting, Structures, Live
<1>11. Flags'
  BY <1>1, <1>2, <1>3, <1>4, <1>5, <1>6, <1>7, <1>8 DEF Flags, Setting, Testing, NewRings,
     Structures, Replacing, Live, Kinds, Halfway
<1>12. Structures'
  BY <1>1, <1>2, <1>3, <1>4, <1>5, <1>6, <1>7, <1>8 DEF Structures, Setting, Live, NewRings,
     Replacing
<1>13. Resources'
  BY <1>1, <1>2, <1>3, <1>4, <1>5, <1>6, <1>7, <1>8 DEF Resources, Ready, Setting, NewRings,
     Live, Flags, Structures, Replacing
<1>14. Basics'
  BY <1>1, <1>2, <1>3, <1>4, <1>5, <1>6, <1>7, <1>8 DEF Basics, Live
<1>15. Enabled'
  BY <1>1, <1>2, <1>3, <1>4, <1>5, <1>6, <1>7, <1>8 DEF Enabled, Live
<1>16. Irq'
  BY <1>1, <1>2, <1>3, <1>4, <1>5, <1>6, <1>7, <1>8 DEF Irq, Live, Flags
<1>17. Tests'
  <2>1. \A k \in DOMAIN TestRing : TestRing[k] \in held' <=> TestRing[k] \in test'
    BY <1>1, <1>2 DEF Tests
  <2>2. pc'[1] = "loopback_test" => pc'[2] \in 1..6 /\ test' = {TestRing[k] : k \in 1..(pc'[2] - 1)}
    <3>1. ASSUME pc'[1] = "loopback_test"
          PROVE  pc'[2] = pc[2] + 1 /\ pc[2] \in 1..5 /\ test' = test \cup {TestRing[pc[2]]}
      BY <3>1, <1>1, <1>6
    <3>2. QED
      BY <3>1, <1>5
  <2>3. \E m \in 0..6 : test' = {TestRing[k] : k \in 1..m}
    <3>1. CASE test' = test
      BY <3>1, <1>5
    <3>2. CASE test' = test \cup {TestRing[pc[2]]}
      <4>1. test' = {TestRing[k] : k \in 1..pc[2]}
        BY <3>2, <1>5
      <4>2. QED
        BY <4>1, <1>5
    <3>3. QED
      BY <3>1, <3>2, <1>1
  <2>4. QED
    BY <1>1, <1>6, <2>1, <2>2, <2>3 DEF Tests
<1>18. Named'
  BY <1>1, <1>2, <1>3, <1>4, <1>5, <1>6, <1>7, <1>8 DEF Named
<1>19. QED
  BY <1>9, <1>10, <1>11, <1>12, <1>13, <1>14, <1>15, <1>16, <1>17, <1>18 DEF Inv

LEMMA FreeDescRingsInv ==
  ASSUME Inv, FreeDescRings
  PROVE  Inv'
<1>1. /\ pc = <<"free_desc_rings">> /\ pc[1] = "free_desc_rings"
      /\ wrong' \subseteq wrong \cup {"freed_twice", "down_twice", "up_twice", "rings_not_set_up"}
      /\ held' = held \ Reachable /\ test' = {} /\ testing' = "no"
      /\ \/ testing = "running" /\ pc' = <<"info", tx>> /\ pc'[1] = "info" /\ pc'[2] = tx
         \/ testing # "running" /\ pc' = <<"idle">> /\ pc'[1] = "idle"
      /\ UNCHANGED <<may, tx, rx, info, desc, newTx, newRx, running,
                     up, present, power, names, given>>
  BY DEF FreeDescRings, Go, SetUp, Say, testVars, ringVars
<1>2. /\ TypeOK /\ Kinds /\ Flags /\ Structures /\ Resources
      /\ Basics /\ Enabled /\ Irq /\ Tests /\ Named
  BY <1>1 DEF Inv, Stuck
<1>3. /\ {tx, rx, newTx, newRx} \subseteq Ring \cup {None} /\ None \notin Ring
      /\ \A a \in {tx, newTx}, b \in {rx, newRx} : a = b => a = None
      /\ None # <<"netdev", 0>>
  BY <1>2, TwoKinds
<1>4. tx \in Ring /\ rx \in Ring /\ tx # rx /\ ~running /\ newTx = None /\ newRx = None
  BY <1>1, <1>2, <1>3 DEF Structures, Live, Flags, Setting, NewRings, Replacing
<1>5. Reachable = test
  BY <1>1, <1>2, AllReachable DEF Tests
<1>6. test \subseteq {TestRing[k] : k \in DOMAIN TestRing}
  BY <1>1, <1>2, Tables DEF Tests
<1>7. /\ \A v : H(v) \in held' <=> H(v) \in held
      /\ \A r \in Ring : r \in held' <=> r \in held
      /\ \A r \in Ring : InfoOf(r) \in held' <=> InfoOf(r) \in held
      /\ \A r \in Ring, n \in {1, 2} : DescOf(r, n) \in held' <=> DescOf(r, n) \in held
      /\ \A k \in DOMAIN TestRing : TestRing[k] \in held' <=> FALSE
  BY <1>1, <1>2, <1>5, <1>6, Apart DEF Tests
<1>8. held' \subseteq Object
  BY <1>1, <1>2 DEF TypeOK
<1>9. TypeOK'
  BY <1>1, <1>2, <1>8 DEF TypeOK
<1>10. Kinds'
  BY <1>1, <1>2, <1>3, <1>4, <1>5, <1>6, <1>7, <1>8 DEF Kinds, Setting, Structures, Live
<1>11. Flags'
  BY <1>1, <1>2, <1>3, <1>4, <1>5, <1>6, <1>7, <1>8 DEF Flags, Setting, Testing, NewRings,
     Structures, Replacing, Live, Kinds, Halfway
<1>12. Structures'
  BY <1>1, <1>2, <1>3, <1>4, <1>5, <1>6, <1>7, <1>8 DEF Structures, Setting, Live, NewRings,
     Replacing
<1>13. Resources'
  BY <1>1, <1>2, <1>3, <1>4, <1>5, <1>6, <1>7, <1>8 DEF Resources, Ready, Setting, NewRings,
     Live, Flags, Structures, Replacing
<1>14. Basics'
  BY <1>1, <1>2, <1>3, <1>4, <1>5, <1>6, <1>7, <1>8 DEF Basics, Live
<1>15. Enabled'
  BY <1>1, <1>2, <1>3, <1>4, <1>5, <1>6, <1>7, <1>8 DEF Enabled, Live
<1>16. Irq'
  BY <1>1, <1>2, <1>3, <1>4, <1>5, <1>6, <1>7, <1>8 DEF Irq, Live, Flags
<1>17. Tests'
  BY <1>1, <1>7 DEF Tests
<1>18. Named'
  BY <1>1, <1>2, <1>3, <1>4, <1>5, <1>6, <1>7, <1>8 DEF Named
<1>19. QED
  BY <1>9, <1>10, <1>11, <1>12, <1>13, <1>14, <1>15, <1>16, <1>17, <1>18 DEF Inv

-----------------------------------------------------------------------------
(* The calls of the PCI core keep it.                                        *)
LEMMA SuspendInv ==
  ASSUME Inv, Suspend
  PROVE  Inv'
<1>1. /\ pc = <<"idle">> /\ pc[1] = "idle"
      /\ power = "on" /\ present' = FALSE
      /\ up' = FALSE \/ (~running /\ up' = up)
      /\ IF running THEN (up /\ pc' = <<"save">> /\ pc'[1] = "save") \/ (~up /\ pc' = <<"hang">> /\ pc'[1] = "hang")
         ELSE pc' = <<"save">> /\ pc'[1] = "save"
      /\ wrong' \subseteq wrong \cup {"freed_twice", "down_twice", "up_twice", "rings_not_set_up"}
      /\ UNCHANGED <<may, testing, test, held, tx, rx, info, desc, newTx,
                     newRx, running, power, names, given>>
  BY DEF Suspend, Go, Idle, Down, testVars, ringVars
<1>2. /\ TypeOK /\ Kinds /\ Flags /\ Structures /\ Resources
      /\ Basics /\ Enabled /\ Irq /\ Tests /\ Named
  BY <1>1 DEF Inv, Stuck
<1>3. /\ newTx = None /\ newRx = None /\ tx \in Ring /\ rx \in Ring /\ tx # rx /\ testing = "no" /\ test = {}
      /\ {tx, rx} \subseteq held /\ Ready = IF running THEN {tx, rx} ELSE {}
      /\ running /\ power = "on" /\ ~Halfway => up
  BY <1>1, AtIdle
<1>4. TypeOK'
  BY <1>1, <1>2, <1>3 DEF TypeOK
<1>5. Kinds'
  BY <1>1, <1>2, <1>3 DEF Kinds, Setting, Structures, Live
<1>6. ~Stuck' => Flags'
  BY <1>1, <1>2, <1>3 DEF Flags, Setting, Testing, NewRings, Structures, Replacing, Live, Kinds,
     Halfway, Stuck
<1>7. ~Stuck' => Structures'
  BY <1>1, <1>2, <1>3 DEF Structures, Setting, Live, NewRings, Replacing, Stuck
<1>8. ~Stuck' => Resources'
  BY <1>1, <1>2, <1>3 DEF Resources, Ready, Setting, NewRings, Live, Flags, Structures,
     Replacing, Stuck
<1>9. ~Stuck' => Basics'
  BY <1>1, <1>2, <1>3 DEF Basics, Live, Stuck
<1>10. ~Stuck' => Enabled'
  BY <1>1, <1>2, <1>3 DEF Enabled, Live, Stuck
<1>11. ~Stuck' => Irq'
  BY <1>1, <1>2, <1>3 DEF Irq, Live, Flags, Stuck
<1>12. ~Stuck' => Tests'
  BY <1>1, <1>2, <1>3 DEF Tests, Stuck
<1>13. Named'
  BY <1>1, <1>2, <1>3 DEF Named
<1>14. QED
  BY <1>4, <1>5, <1>6, <1>7, <1>8, <1>9, <1>10, <1>11, <1>12, <1>13 DEF Inv

LEMMA SaveInv ==
  ASSUME Inv, Save
  PROVE  Inv'
<1>1. /\ pc = <<"save">> /\ pc[1] = "save" /\ pc' = <<"idle">> /\ pc'[1] = "idle"
      /\ \/ given' = given \cup {"suspend"} /\ held' = held /\ power' = power
         \/ /\ held' = held \ ({H("enabled")} \cup (IF running THEN {H("irq")} ELSE {}))
            /\ power' = "off" /\ given' = given
      /\ wrong' \subseteq wrong \cup {"freed_twice", "down_twice", "up_twice", "rings_not_set_up"}
      /\ UNCHANGED <<may, testing, test, tx, rx, info, desc, newTx,
                     newRx, running, up, present, names>>
  BY DEF Save, Go, Say, testVars, ringVars
<1>2. /\ TypeOK /\ Kinds /\ Flags /\ Structures /\ Resources
      /\ Basics /\ Enabled /\ Irq /\ Tests /\ Named
  BY <1>1 DEF Inv, Stuck
<1>3. /\ {tx, rx, newTx, newRx} \subseteq Ring \cup {None} /\ None \notin Ring
      /\ \A a \in {tx, newTx}, b \in {rx, newRx} : a = b => a = None
      /\ None # <<"netdev", 0>>
  BY <1>2, TwoKinds
<1>4. power = "on"
  BY <1>1, <1>2 DEF Flags
<1>5. /\ \A v : H(v) \in held' <=> H(v) \in held /\ ~(power' = "off" /\ (v = "enabled" \/ (v = "irq" /\ running)))
      /\ \A r \in Ring : r \in held' <=> r \in held
      /\ \A r \in Ring : InfoOf(r) \in held' <=> InfoOf(r) \in held
      /\ \A r \in Ring, n \in {1, 2} : DescOf(r, n) \in held' <=> DescOf(r, n) \in held
      /\ \A k \in DOMAIN TestRing : TestRing[k] \in held' <=> TestRing[k] \in held
  BY <1>1, <1>4, Apart, Tables
<1>6. TypeOK'
  BY <1>1, <1>2, <1>3, <1>4, <1>5 DEF TypeOK
<1>7. Kinds'
  BY <1>1, <1>2, <1>3, <1>4, <1>5 DEF Kinds, Setting, Structures, Live
<1>8. Flags'
  BY <1>1, <1>2, <1>3, <1>4, <1>5 DEF Flags, Setting, Testing, NewRings, Structures, Replacing,
     Live, Kinds, Halfway, Losses
<1>9. Structures'
  BY <1>1, <1>2, <1>3, <1>4, <1>5 DEF Structures, Setting, Live, NewRings, Replacing
<1>10. Resources'
  BY <1>1, <1>2, <1>3, <1>4, <1>5 DEF Resources, Ready, Setting, NewRings, Live, Flags,
     Structures, Replacing
<1>11. Basics'
  BY <1>1, <1>2, <1>3, <1>4, <1>5 DEF Basics, Live
<1>12. Enabled'
  BY <1>1, <1>2, <1>3, <1>4, <1>5 DEF Enabled, Live
<1>13. Irq'
  BY <1>1, <1>2, <1>3, <1>4, <1>5 DEF Irq, Live, Flags
<1>14. Tests'
  BY <1>1, <1>2, <1>3, <1>4, <1>5 DEF Tests
<1>15. Named'
  BY <1>1, <1>2, <1>3, <1>4, <1>5 DEF Named
<1>16. QED
  BY <1>6, <1>7, <1>8, <1>9, <1>10, <1>11, <1>12, <1>13, <1>14, <1>15 DEF Inv

LEMMA ResumeInv ==
  ASSUME Inv, Resume
  PROVE  Inv'
<1>1. /\ pc = <<"idle">> /\ pc[1] = "idle"
      /\ power = "off" /\ power' = "on"
      /\ \/ given' = given \cup {"resume"} /\ held' = held /\ pc' = pc /\ present' = present
         \/ /\ running /\ held' = held \cup {H("enabled")} /\ given' = given \cup {"resume"}
            /\ pc' = pc /\ present' = present
         \/ /\ running /\ held' = held \cup {H("enabled"), H("irq")} /\ pc' = <<"up">> /\ pc'[1] = "up"
            /\ given' = given /\ present' = present
         \/ /\ ~running /\ held' = held \cup {H("enabled")} /\ present' = TRUE /\ pc' = pc /\ given' = given
      /\ UNCHANGED <<may, testing, test, tx, rx, info, desc, newTx,
                     newRx, running, up, names, wrong>>
  BY DEF Resume, Go, Idle, testVars, ringVars
<1>2. /\ TypeOK /\ Kinds /\ Flags /\ Structures /\ Resources
      /\ Basics /\ Enabled /\ Irq /\ Tests /\ Named
  BY <1>1 DEF Inv, Stuck
<1>3. /\ newTx = None /\ newRx = None /\ tx \in Ring /\ rx \in Ring /\ tx # rx /\ testing = "no" /\ test = {}
      /\ {tx, rx} \subseteq held /\ Ready = IF running THEN {tx, rx} ELSE {}
      /\ running /\ power = "on" /\ ~Halfway => up
  BY <1>1, AtIdle
<1>4. /\ \A v : v \notin {"enabled", "irq"} => (H(v) \in held' <=> H(v) \in held)
      /\ "resume" \notin given' => H("enabled") \in held'
      /\ "resume" \notin given' /\ running => H("irq") \in held'
      /\ H("irq") \in held' => running \/ H("irq") \in held
      /\ \A r \in Ring : r \in held' <=> r \in held
      /\ \A r \in Ring : InfoOf(r) \in held' <=> InfoOf(r) \in held
      /\ \A r \in Ring, n \in {1, 2} : DescOf(r, n) \in held' <=> DescOf(r, n) \in held
      /\ \A k \in DOMAIN TestRing : TestRing[k] \in held' <=> TestRing[k] \in held
  BY <1>1, Apart
<1>5. TypeOK'
  BY <1>1, <1>2, <1>3, <1>4, Objects DEF TypeOK, Losses
<1>6. Kinds'
  BY <1>1, <1>2, <1>3, <1>4 DEF Kinds, Setting, Structures, Live
<1>7. Flags'
  BY <1>1, <1>2, <1>3, <1>4 DEF Flags, Setting, Testing, NewRings, Structures, Replacing, Live,
     Kinds, Halfway, Losses
<1>8. Structures'
  BY <1>1, <1>2, <1>3, <1>4 DEF Structures, Setting, Live, NewRings, Replacing
<1>9. Resources'
  BY <1>1, <1>2, <1>3, <1>4 DEF Resources, Ready, Setting, NewRings, Live, Flags, Structures,
     Replacing
<1>10. Basics'
  BY <1>1, <1>2, <1>3, <1>4 DEF Basics, Live
<1>11. Enabled'
  BY <1>1, <1>2, <1>3, <1>4 DEF Enabled, Live
<1>12. Irq'
  BY <1>1, <1>2, <1>3, <1>4 DEF Irq, Live, Flags
<1>13. Tests'
  BY <1>1, <1>2, <1>3, <1>4 DEF Tests
<1>14. Named'
  BY <1>1, <1>2, <1>3, <1>4 DEF Named
<1>15. QED
  BY <1>5, <1>6, <1>7, <1>8, <1>9, <1>10, <1>11, <1>12, <1>13, <1>14 DEF Inv

LEMMA IoErrorDetectedInv ==
  ASSUME Inv, IoErrorDetected
  PROVE  Inv'
<1>1. /\ pc = <<"idle">> /\ pc[1] = "idle"
      /\ power = "on" /\ present' = FALSE
      /\ \/ pc' = pc /\ up' = up /\ given' = given
         \/ /\ given' = given \cup {"bus_error"}
            /\ up' = FALSE \/ (~running /\ up' = up)
            /\ IF running THEN (up /\ pc' = <<"disable">> /\ pc'[1] = "disable") \/ (~up /\ pc' = <<"hang">> /\ pc'[1] = "hang")
               ELSE pc' = <<"disable">> /\ pc'[1] = "disable"
      /\ wrong' \subseteq wrong \cup {"freed_twice", "down_twice", "up_twice", "rings_not_set_up"}
      /\ UNCHANGED <<may, testing, test, held, tx, rx, info, desc,
                     newTx, newRx, running, power, names>>
  BY DEF IoErrorDetected, Go, Idle, Down, testVars, ringVars
<1>2. /\ TypeOK /\ Kinds /\ Flags /\ Structures /\ Resources
      /\ Basics /\ Enabled /\ Irq /\ Tests /\ Named
  BY <1>1 DEF Inv, Stuck
<1>3. /\ newTx = None /\ newRx = None /\ tx \in Ring /\ rx \in Ring /\ tx # rx /\ testing = "no" /\ test = {}
      /\ {tx, rx} \subseteq held /\ Ready = IF running THEN {tx, rx} ELSE {}
      /\ running /\ power = "on" /\ ~Halfway => up
  BY <1>1, AtIdle
<1>4. TypeOK'
  BY <1>1, <1>2, <1>3 DEF TypeOK
<1>5. Kinds'
  BY <1>1, <1>2, <1>3 DEF Kinds, Setting, Structures, Live
<1>6. ~Stuck' => Flags'
  BY <1>1, <1>2, <1>3 DEF Flags, Setting, Testing, NewRings, Structures, Replacing, Live, Kinds,
     Halfway, Stuck
<1>7. ~Stuck' => Structures'
  BY <1>1, <1>2, <1>3 DEF Structures, Setting, Live, NewRings, Replacing, Stuck
<1>8. ~Stuck' => Resources'
  BY <1>1, <1>2, <1>3 DEF Resources, Ready, Setting, NewRings, Live, Flags, Structures,
     Replacing, Stuck
<1>9. ~Stuck' => Basics'
  BY <1>1, <1>2, <1>3 DEF Basics, Live, Stuck
<1>10. ~Stuck' => Enabled'
  BY <1>1, <1>2, <1>3 DEF Enabled, Live, Stuck
<1>11. ~Stuck' => Irq'
  BY <1>1, <1>2, <1>3 DEF Irq, Live, Flags, Stuck
<1>12. ~Stuck' => Tests'
  BY <1>1, <1>2, <1>3 DEF Tests, Stuck
<1>13. Named'
  BY <1>1, <1>2, <1>3 DEF Named
<1>14. QED
  BY <1>4, <1>5, <1>6, <1>7, <1>8, <1>9, <1>10, <1>11, <1>12, <1>13 DEF Inv

LEMMA DisableInv ==
  ASSUME Inv, Disable
  PROVE  Inv'
<1>1. /\ pc = <<"disable">> /\ pc[1] = "disable" /\ pc' = <<"idle">> /\ pc'[1] = "idle"
      /\ held' = held \ {H("enabled")} /\ power' = "reset"
      /\ wrong' \subseteq wrong \cup {"freed_twice", "down_twice", "up_twice", "rings_not_set_up"}
      /\ UNCHANGED <<may, testing, test, tx, rx, info, desc, newTx, newRx,
                     running, up, present, names, given>>
  BY DEF Disable, Go, Say, testVars, ringVars
<1>2. /\ TypeOK /\ Kinds /\ Flags /\ Structures /\ Resources
      /\ Basics /\ Enabled /\ Irq /\ Tests /\ Named
  BY <1>1 DEF Inv, Stuck
<1>3. /\ {tx, rx, newTx, newRx} \subseteq Ring \cup {None} /\ None \notin Ring
      /\ \A a \in {tx, newTx}, b \in {rx, newRx} : a = b => a = None
      /\ None # <<"netdev", 0>>
  BY <1>2, TwoKinds
<1>4. /\ \A v : H(v) \in held' <=> H(v) \in held /\ v # "enabled"
      /\ \A r \in Ring : r \in held' <=> r \in held
      /\ \A r \in Ring : InfoOf(r) \in held' <=> InfoOf(r) \in held
      /\ \A r \in Ring, n \in {1, 2} : DescOf(r, n) \in held' <=> DescOf(r, n) \in held
      /\ \A k \in DOMAIN TestRing : TestRing[k] \in held' <=> TestRing[k] \in held
  BY <1>1, Apart, Tables
<1>5. TypeOK'
  BY <1>1, <1>2, <1>3, <1>4 DEF TypeOK
<1>6. Kinds'
  BY <1>1, <1>2, <1>3, <1>4 DEF Kinds, Setting, Structures, Live
<1>7. Flags'
  BY <1>1, <1>2, <1>3, <1>4 DEF Flags, Setting, Testing, NewRings, Structures, Replacing, Live,
     Kinds, Halfway
<1>8. Structures'
  BY <1>1, <1>2, <1>3, <1>4 DEF Structures, Setting, Live, NewRings, Replacing
<1>9. Resources'
  BY <1>1, <1>2, <1>3, <1>4 DEF Resources, Ready, Setting, NewRings, Live, Flags, Structures,
     Replacing
<1>10. Basics'
  BY <1>1, <1>2, <1>3, <1>4 DEF Basics, Live
<1>11. Enabled'
  BY <1>1, <1>2, <1>3, <1>4 DEF Enabled, Live
<1>12. Irq'
  BY <1>1, <1>2, <1>3, <1>4 DEF Irq, Live, Flags
<1>13. Tests'
  BY <1>1, <1>2, <1>3, <1>4 DEF Tests
<1>14. Named'
  BY <1>1, <1>2, <1>3, <1>4 DEF Named
<1>15. QED
  BY <1>5, <1>6, <1>7, <1>8, <1>9, <1>10, <1>11, <1>12, <1>13, <1>14 DEF Inv

LEMMA IoSlotResetInv ==
  ASSUME Inv, IoSlotReset
  PROVE  Inv'
<1>1. /\ pc = <<"idle">> /\ pc[1] = "idle"
      /\ power = "reset" /\ ((power' = "restart" /\ held' = held \cup {H("enabled")}) \/ (power' = "on" /\ held' = held))
      /\ UNCHANGED <<may, testing, test, tx, rx, info, desc, newTx, newRx, running,
                     up, present, names, pc, given, wrong>>
  BY DEF IoSlotReset, Idle, testVars, ringVars
<1>2. /\ TypeOK /\ Kinds /\ Flags /\ Structures /\ Resources
      /\ Basics /\ Enabled /\ Irq /\ Tests /\ Named
  BY <1>1 DEF Inv, Stuck
<1>3. /\ newTx = None /\ newRx = None /\ tx \in Ring /\ rx \in Ring /\ tx # rx /\ testing = "no" /\ test = {}
      /\ {tx, rx} \subseteq held /\ Ready = IF running THEN {tx, rx} ELSE {}
      /\ running /\ power = "on" /\ ~Halfway => up
  BY <1>1, AtIdle
<1>4. /\ \A v : v # "enabled" => (H(v) \in held' <=> H(v) \in held)
      /\ power' = "restart" => H("enabled") \in held'
      /\ \A r \in Ring : r \in held' <=> r \in held
      /\ \A r \in Ring : InfoOf(r) \in held' <=> InfoOf(r) \in held
      /\ \A r \in Ring, n \in {1, 2} : DescOf(r, n) \in held' <=> DescOf(r, n) \in held
      /\ \A k \in DOMAIN TestRing : TestRing[k] \in held' <=> TestRing[k] \in held
  BY <1>1, Apart
<1>5. TypeOK'
  BY <1>1, <1>2, <1>3, <1>4, Objects DEF TypeOK
<1>6. Kinds'
  BY <1>1, <1>2, <1>3, <1>4 DEF Kinds, Setting, Structures, Live
<1>7. Flags'
  BY <1>1, <1>2, <1>3, <1>4 DEF Flags, Setting, Testing, NewRings, Structures, Replacing, Live,
     Kinds, Halfway, Losses
<1>8. Structures'
  BY <1>1, <1>2, <1>3, <1>4 DEF Structures, Setting, Live, NewRings, Replacing
<1>9. Resources'
  BY <1>1, <1>2, <1>3, <1>4 DEF Resources, Ready, Setting, NewRings, Live, Flags, Structures,
     Replacing
<1>10. Basics'
  BY <1>1, <1>2, <1>3, <1>4 DEF Basics, Live
<1>11. Enabled'
  BY <1>1, <1>2, <1>3, <1>4 DEF Enabled, Live, Flags
<1>12. Irq'
  BY <1>1, <1>2, <1>3, <1>4 DEF Irq, Live, Flags
<1>13. Tests'
  BY <1>1, <1>2, <1>3, <1>4 DEF Tests
<1>14. Named'
  BY <1>1, <1>2, <1>3, <1>4 DEF Named
<1>15. QED
  BY <1>5, <1>6, <1>7, <1>8, <1>9, <1>10, <1>11, <1>12, <1>13, <1>14 DEF Inv

LEMMA IoResumeInv ==
  ASSUME Inv, IoResume
  PROVE  Inv'
<1>1. /\ pc = <<"idle">> /\ pc[1] = "idle"
      /\ power = "restart" /\ power' = "on" /\ given' = given \ {"bus_error"}
      /\ IF running THEN pc' = <<"up">> /\ pc'[1] = "up" /\ present' = present ELSE present' = TRUE /\ pc' = pc
      /\ UNCHANGED <<may, testing, test, held, tx, rx, info, desc, newTx,
                     newRx, running, up, names, wrong>>
  BY DEF IoResume, Idle, Go, testVars, ringVars
<1>2. /\ TypeOK /\ Kinds /\ Flags /\ Structures /\ Resources
      /\ Basics /\ Enabled /\ Irq /\ Tests /\ Named
  BY <1>1 DEF Inv, Stuck
<1>3. TypeOK'
  BY <1>1, <1>2 DEF TypeOK
<1>4. Kinds'
  BY <1>1, <1>2 DEF Kinds, Setting, Structures, Live
<1>5. Flags'
  BY <1>1, <1>2 DEF Flags, Setting, Testing, NewRings, Structures, Replacing, Live, Kinds,
     Halfway
<1>6. Structures'
  BY <1>1, <1>2 DEF Structures, Setting, Live, NewRings, Replacing
<1>7. Resources'
  BY <1>1, <1>2 DEF Resources, Ready, Setting, NewRings, Live, Flags, Structures, Replacing
<1>8. Basics'
  BY <1>1, <1>2 DEF Basics, Live
<1>9. Enabled'
  BY <1>1, <1>2 DEF Enabled, Live
<1>10. Irq'
  BY <1>1, <1>2 DEF Irq, Live, Flags
<1>11. Tests'
  BY <1>1, <1>2 DEF Tests
<1>12. Named'
  BY <1>1, <1>2 DEF Named
<1>13. QED
  BY <1>3, <1>4, <1>5, <1>6, <1>7, <1>8, <1>9, <1>10, <1>11, <1>12 DEF Inv

-----------------------------------------------------------------------------
(* e1000_remove and the watchdog keep it.                                    *)
LEMMA RemoveInv ==
  ASSUME Inv, Remove
  PROVE  Inv'
<1>1. /\ pc = <<"idle">> /\ pc[1] = "idle"
      /\ power # "off" /\ held' = held \ {H("dsnap"), H("registered")}
      /\ names' = [k \in DOMAIN names |-> None] /\ running' = FALSE /\ present' = FALSE
      /\ up' = FALSE \/ (~running /\ up' = up)
      /\ IF running THEN (up /\ pc' = <<"close">> /\ pc'[1] = "close") \/ (~up /\ pc' = <<"hang">> /\ pc'[1] = "hang")
         ELSE pc' = <<"free_all">> /\ pc'[1] = "free_all"
      /\ wrong' \subseteq wrong \cup {"freed_twice", "down_twice", "up_twice", "rings_not_set_up"}
      /\ UNCHANGED <<may, testing, test, tx, rx, info, desc, newTx, newRx, power, given>>
  BY DEF Remove, Go, Idle, Down, testVars, ringVars
<1>2. /\ TypeOK /\ Kinds /\ Flags /\ Structures /\ Resources
      /\ Basics /\ Enabled /\ Irq /\ Tests /\ Named
  BY <1>1 DEF Inv, Stuck
<1>3. /\ newTx = None /\ newRx = None /\ tx \in Ring /\ rx \in Ring /\ tx # rx /\ testing = "no" /\ test = {}
      /\ {tx, rx} \subseteq held /\ Ready = IF running THEN {tx, rx} ELSE {}
      /\ running /\ power = "on" /\ ~Halfway => up
  BY <1>1, AtIdle
<1>4. /\ \A v : H(v) \in held' <=> H(v) \in held /\ v \notin {"dsnap", "registered"}
      /\ \A r \in Ring : r \in held' <=> r \in held
      /\ \A r \in Ring : InfoOf(r) \in held' <=> InfoOf(r) \in held
      /\ \A r \in Ring, n \in {1, 2} : DescOf(r, n) \in held' <=> DescOf(r, n) \in held
      /\ \A k \in DOMAIN TestRing : TestRing[k] \in held' <=> TestRing[k] \in held
  BY <1>1, Apart, Tables
<1>5. /\ names' \in [{"rx", "tx", "adapter"} -> {None}]
      /\ None # <<"netdev", 0>>
  BY <1>1, <1>2, TwoKinds DEF Kinds
<1>6. TypeOK'
  BY <1>1, <1>2, <1>3, <1>4, <1>5 DEF TypeOK
<1>7. Kinds'
  BY <1>1, <1>2, <1>3, <1>4, <1>5 DEF Kinds, Setting, Structures, Live
<1>8. ~Stuck' => Flags'
  BY <1>1, <1>2, <1>3, <1>4, <1>5 DEF Flags, Setting, Testing, NewRings, Structures, Replacing,
     Live, Kinds, Halfway, Stuck
<1>9. ~Stuck' => Structures'
  BY <1>1, <1>2, <1>3, <1>4, <1>5 DEF Structures, Setting, Live, NewRings, Replacing, Stuck
<1>10. ~Stuck' => Resources'
  BY <1>1, <1>2, <1>3, <1>4, <1>5 DEF Resources, Ready, Setting, NewRings, Live, Flags,
     Structures, Replacing, Stuck
<1>11. ~Stuck' => Basics'
  BY <1>1, <1>2, <1>3, <1>4, <1>5 DEF Basics, Live, Stuck
<1>12. ~Stuck' => Enabled'
  BY <1>1, <1>2, <1>3, <1>4, <1>5 DEF Enabled, Live, Stuck
<1>13. ~Stuck' => Irq'
  BY <1>1, <1>2, <1>3, <1>4, <1>5 DEF Irq, Live, Flags, Stuck
<1>14. ~Stuck' => Tests'
  BY <1>1, <1>2, <1>3, <1>4, <1>5 DEF Tests, Stuck
<1>15. Named'
  BY <1>1, <1>2, <1>3, <1>4, <1>5 DEF Named
<1>16. QED
  BY <1>6, <1>7, <1>8, <1>9, <1>10, <1>11, <1>12, <1>13, <1>14, <1>15 DEF Inv

LEMMA FreeAllInv ==
  ASSUME Inv, FreeAll
  PROVE  Inv'
<1>1. /\ pc = <<"free_all">> /\ pc[1] = "free_all" /\ pc' = <<"absent">> /\ pc'[1] = "absent"
      /\ held' = held \ {tx, rx, H("mdio"), H("regs"), H("regions"), H("netdev"), H("enabled")}
      /\ wrong' \subseteq wrong \cup {"freed_twice", "down_twice", "up_twice", "rings_not_set_up"}
      /\ tx' = None /\ rx' = None /\ given' = given \cap Losses /\ power' = "on"
      /\ info' = [r \in Ring |-> FALSE] /\ desc' = [r \in Ring |-> 0]
      /\ UNCHANGED <<may, testing, test, newTx, newRx, running, up, present, names>>
  BY DEF FreeAll, Go, Say, testVars, ringVars
<1>2. /\ TypeOK /\ Kinds /\ Flags /\ Structures /\ Resources
      /\ Basics /\ Enabled /\ Irq /\ Tests /\ Named
  BY <1>1 DEF Inv, Stuck
<1>3. /\ {tx, rx, newTx, newRx} \subseteq Ring \cup {None} /\ None \notin Ring
      /\ \A a \in {tx, newTx}, b \in {rx, newRx} : a = b => a = None
      /\ None # <<"netdev", 0>>
  BY <1>2, TwoKinds
<1>4. tx \in Ring /\ rx \in Ring /\ ~running /\ newTx = None /\ newRx = None
  BY <1>1, <1>2, <1>3 DEF Structures, Live, Flags, Setting, NewRings, Replacing
<1>5. /\ \A v : H(v) \in held' <=> H(v) \in held /\ v \notin {"mdio", "regs", "regions", "netdev", "enabled"}
      /\ \A r \in Ring : r \in held' <=> r \in held /\ r \notin {tx, rx}
      /\ \A r \in Ring : InfoOf(r) \in held' <=> InfoOf(r) \in held
      /\ \A r \in Ring, n \in {1, 2} : DescOf(r, n) \in held' <=> DescOf(r, n) \in held
      /\ \A k \in DOMAIN TestRing : TestRing[k] \in held' <=> TestRing[k] \in held
  BY <1>1, <1>4, Apart, Tables
<1>6. TypeOK'
  BY <1>1, <1>2, <1>3, <1>4, <1>5 DEF TypeOK, Losses
<1>7. Kinds'
  BY <1>1, <1>2, <1>3, <1>4, <1>5 DEF Kinds, Setting, Structures, Live
<1>8. Flags'
  BY <1>1, <1>2, <1>3, <1>4, <1>5 DEF Flags, Setting, Testing, NewRings, Structures, Replacing,
     Live, Kinds, Halfway
<1>9. Structures'
  BY <1>1, <1>2, <1>3, <1>4, <1>5 DEF Structures, Setting, Live, NewRings, Replacing, Losses
<1>10. Resources'
  BY <1>1, <1>2, <1>3, <1>4, <1>5 DEF Resources, Ready, Setting, NewRings, Live, Flags,
     Structures, Replacing
<1>11. Basics'
  BY <1>1, <1>2, <1>3, <1>4, <1>5, Tables DEF Basics, Live
<1>12. Enabled'
  BY <1>1, <1>2, <1>3, <1>4, <1>5 DEF Enabled, Live
<1>13. Irq'
  BY <1>1, <1>2, <1>3, <1>4, <1>5 DEF Irq, Live, Flags
<1>14. Tests'
  BY <1>1, <1>2, <1>3, <1>4, <1>5 DEF Tests
<1>15. Named'
  BY <1>1, <1>2, <1>3, <1>4, <1>5 DEF Named, Losses
<1>16. QED
  BY <1>6, <1>7, <1>8, <1>9, <1>10, <1>11, <1>12, <1>13, <1>14, <1>15 DEF Inv

LEMMA WatchdogInv ==
  ASSUME Inv, Watchdog
  PROVE  Inv'
<1>1. /\ pc = <<"idle">> /\ pc[1] = "idle"
      /\ pc' = <<"snap", 1>> /\ pc'[1] = "snap" /\ pc'[2] = 1
      /\ up /\ running /\ power # "off"
      /\ UNCHANGED <<may, testing, test, held, tx, rx, info, desc, newTx, newRx,
                     running, up, present, power, names, given, wrong>>
  BY DEF Watchdog, Idle, Go, testVars, ringVars
<1>2. /\ TypeOK /\ Kinds /\ Flags /\ Structures /\ Resources
      /\ Basics /\ Enabled /\ Irq /\ Tests /\ Named
  BY <1>1 DEF Inv, Stuck
<1>3. TypeOK'
  BY <1>1, <1>2 DEF TypeOK
<1>4. Kinds'
  BY <1>1, <1>2 DEF Kinds, Setting, Structures, Live
<1>5. Flags'
  BY <1>1, <1>2 DEF Flags, Setting, Testing, NewRings, Structures, Replacing, Live, Kinds,
     Halfway
<1>6. Structures'
  BY <1>1, <1>2 DEF Structures, Setting, Live, NewRings, Replacing
<1>7. Resources'
  BY <1>1, <1>2 DEF Resources, Ready, Setting, NewRings, Live, Flags, Structures, Replacing
<1>8. Basics'
  BY <1>1, <1>2 DEF Basics, Live
<1>9. Enabled'
  BY <1>1, <1>2 DEF Enabled, Live
<1>10. Irq'
  BY <1>1, <1>2 DEF Irq, Live, Flags
<1>11. Tests'
  BY <1>1, <1>2 DEF Tests
<1>12. Named'
  BY <1>1, <1>2 DEF Named
<1>13. QED
  BY <1>3, <1>4, <1>5, <1>6, <1>7, <1>8, <1>9, <1>10, <1>11, <1>12 DEF Inv

LEMMA AddToBlobInv ==
  ASSUME Inv, AddToBlob
  PROVE  Inv'
<1>1. /\ pc[1] = "snap"
      /\ pc' = (IF pc[2] = 3 THEN <<"idle">> ELSE <<"snap", pc[2] + 1>>)
      /\ UNCHANGED <<may, testing, test, held, tx, rx, info, desc, newTx, newRx>>
      /\ UNCHANGED <<running, up, present, power>>
  BY DEF AddToBlob, Go, SnapNames, testVars, ringVars
<1>2. /\ TypeOK /\ Kinds /\ Flags /\ Structures /\ Resources
      /\ Basics /\ Enabled /\ Irq /\ Tests /\ Named
  BY <1>1 DEF Inv, Stuck
<1>3. pc[2] \in 1..3 /\ up /\ running /\ power = "on"
  BY <1>1, <1>2 DEF TypeOK, Flags
<1>4. \/ pc[2] \in 1..2 /\ pc' = <<"snap", pc[2] + 1>> /\ pc'[1] = "snap" /\ pc'[2] = pc[2] + 1
      \/ pc[2] = 3 /\ pc' = <<"idle">> /\ pc'[1] = "idle"
  BY <1>1, <1>3
<1>5. tx \in Ring /\ rx \in Ring /\ {tx, rx} \subseteq held /\ None \notin Ring
  BY <1>1, <1>2, TwoKinds DEF Structures, Live
<1>6. \/ /\ names' = names /\ wrong' = wrong
         /\ \/ pc[2] = 1 /\ names.rx = None /\ given' = given \cup {"rx_record"}
            \/ pc[2] = 2 /\ names.tx = None /\ given' = given
            \/ pc[2] = 3 /\ given' = given
      \/ /\ given' = given
         /\ \/ /\ pc[2] = 1 /\ names' = [names EXCEPT !["rx"] = rx]
               /\ wrong' = wrong \/ (names.rx = None /\ \E k \in {"rx", "tx"} : names'[k] \notin held \cup {None})
            \/ /\ pc[2] = 2 /\ names' = [names EXCEPT !["tx"] = tx]
               /\ wrong' = wrong \/ \E k \in {"rx", "tx"} : names'[k] \notin held \cup {None}
            \/ /\ pc[2] = 3 /\ names' = [names EXCEPT !["adapter"] = <<"netdev", 0>>]
               /\ wrong' = wrong \/ \E k \in {"rx", "tx"} : names'[k] \notin held \cup {None}
         /\ wrong' = wrong \/ wrong' = wrong \cup {"freed_ring_read"}
  <2>1. CASE pc[2] = 1
    <3>1. SnapNames[pc[2]] = "rx"
      BY <2>1 DEF SnapNames
    <3>2. QED
      BY <2>1, <3>1 DEF AddToBlob, Say
  <2>2. CASE pc[2] = 2
    <3>1. SnapNames[pc[2]] = "tx"
      BY <2>2 DEF SnapNames
    <3>2. QED
      BY <2>2, <3>1 DEF AddToBlob, Say
  <2>3. CASE pc[2] = 3
    <3>1. SnapNames[pc[2]] = "adapter"
      BY <2>3 DEF SnapNames
    <3>2. QED
      BY <2>3, <3>1 DEF AddToBlob, Say
  <2>4. QED
    BY <1>3, <2>1, <2>2, <2>3
<1>7. given' \ {"rx_record"} = given \ {"rx_record"} /\ given \subseteq given'
  BY <1>6
<1>8. TypeOK'
  BY <1>1, <1>2, <1>3, <1>4, <1>5, <1>6 DEF TypeOK, Kinds, Losses
<1>9. Kinds'
  BY <1>1, <1>2, <1>4, <1>5, <1>6 DEF Kinds, RingOf, Setting
<1>10. Flags'
  BY <1>1, <1>2, <1>4, <1>7 DEF Flags, Setting, NewRings, Testing, Halfway, Losses
<1>11. Structures'
  BY <1>1, <1>2, <1>4, <1>7 DEF Structures, Setting, NewRings, Replacing, Live
<1>12. Resources'
  BY <1>1, <1>2, <1>4 DEF Resources, Ready, Setting, NewRings
<1>13. Basics'
  BY <1>1, <1>2, <1>4 DEF Basics, Live
<1>14. Enabled' /\ Irq'
  BY <1>1, <1>2, <1>4, <1>7 DEF Enabled, Irq, Live
<1>15. Tests'
  BY <1>1, <1>2, <1>4 DEF Tests
<1>16. Named'
  BY <1>1, <1>2, <1>3, <1>4, <1>5, <1>6 DEF Named, Kinds
<1>17. QED
  BY <1>8, <1>9, <1>10, <1>11, <1>12, <1>13, <1>14, <1>15, <1>16 DEF Inv

-----------------------------------------------------------------------------
LEMMA InitInv == Init => Inv
<1>1. SUFFICES ASSUME Init PROVE Inv
  OBVIOUS
<1>2. /\ held = {} /\ tx = None /\ rx = None /\ newTx = None /\ newRx = None
      /\ running = FALSE /\ up = FALSE /\ present = FALSE /\ power = "on"
      /\ testing = "no" /\ test = {} /\ given = {} /\ wrong = {}
      /\ pc = <<"absent">> /\ pc[1] = "absent" /\ may \in Cases
      /\ info = [r \in Ring |-> FALSE] /\ desc = [r \in Ring |-> 0]
      /\ names = [k \in {"rx", "tx", "adapter"} |-> None]
  BY <1>1 DEF Init
<1>3. None \notin Ring /\ None # <<"netdev", 0>>
  BY DEF Ring, None
<1>4. TypeOK
  <2>1. info \in [Ring -> BOOLEAN] /\ desc \in [Ring -> 0..2]
    BY <1>2
  <2>2. names.rx = None /\ names.tx = None
    BY <1>2
  <2>3. /\ pc[1] \notin {"probe", "undo", "snap"} /\ {tx, rx, newTx, newRx} \subseteq {None}
        /\ running \in BOOLEAN /\ up \in BOOLEAN /\ present \in BOOLEAN
    BY <1>2
  <2>4. QED
    BY <1>2, <2>1, <2>2, <2>3 DEF TypeOK
<1>5. Kinds
  BY <1>2, <1>3 DEF Kinds, Setting
<1>6. Named /\ Flags
  BY <1>2 DEF Named, Flags, Setting, Testing, NewRings
<1>7. Structures
  BY <1>2 DEF Structures, Live, Setting, NewRings, Replacing
<1>8. Resources
  BY <1>2 DEF Resources, Ready, Setting
<1>9. Basics /\ Enabled
  BY <1>2 DEF Basics, Enabled, Live
<1>10. Irq /\ Tests
  BY <1>2 DEF Irq, Tests
<1>11. QED
  BY <1>4, <1>5, <1>6, <1>7, <1>8, <1>9, <1>10 DEF Inv

LEMMA NextInv ==
  ASSUME Inv, Next
  PROVE  Inv'
BY ProbeInv, ProbeTakesInv, AllocQueuesInv, ProbeFailsInv, ProbeUndoesInv, ProbeEndsInv,
   AllocInfoInv, AllocDescInv, CheckInv, AllocAgainInv, CheckAgainInv,
   OpenInv, OpenRxInv, ErrSetupRxInv, RequestIrqInv, UpInv, CloseBeginsInv, CloseInv,
   SetRingparamInv, NewTxInv, NewRxInv, NewRxResourcesInv, NewTxResourcesInv, ErrSetupTxInv,
   NewErrSetupRxInv, SwapInv, DiagTestInv, IntrTestStepInv, SetupDescRingsInv, FreeDescRingsInv,
   SuspendInv, SaveInv, ResumeInv, IoErrorDetectedInv, DisableInv, IoSlotResetInv, IoResumeInv,
   RemoveInv, FreeAllInv, WatchdogInv, AddToBlobInv DEF Next

LEMMA StutterInv ==
  ASSUME Inv, UNCHANGED vars
  PROVE  Inv'
<1>1. /\ UNCHANGED <<may, testing, test, held, tx, rx, info, desc, newTx, newRx>>
      /\ UNCHANGED <<running, up, present, power, names, pc, given, wrong>>
  BY DEF vars, testVars, ringVars
<1>2. TypeOK => TypeOK'
  BY <1>1 DEF TypeOK, Undo
<1>3. (Kinds => Kinds') /\ (Named => Named') /\ (Stuck' <=> Stuck)
  BY <1>1 DEF Kinds, Named, Stuck, Setting
<1>4. (Flags => Flags') /\ (Structures => Structures')
  BY <1>1 DEF Flags, Structures, Setting, Testing, NewRings, Halfway, Live, Replacing
<1>5. Resources => Resources'
  BY <1>1 DEF Resources, Ready, Setting
<1>6. (Basics => Basics') /\ (Enabled => Enabled') /\ (Irq => Irq') /\ (Tests => Tests')
  BY <1>1 DEF Basics, Enabled, Irq, Tests, Live
<1>7. QED
  BY <1>2, <1>3, <1>4, <1>5, <1>6 DEF Inv

(* The invariant holds: what is held is what flags, structures, pointers and *)
(* the step at hand say, whichever steps failed before.                      *)
THEOREM HeldAsRecorded == Spec => []Inv
<1>1. Inv /\ [Next]_vars => Inv'
  BY NextInv, StutterInv
<1>2. QED
  BY InitInv, <1>1, PTL DEF Spec

-----------------------------------------------------------------------------
(* Between operations nothing is held but what the state calls for: NoLeak   *)
(* follows from the invariant, kind by kind of what can be held.             *)
LEMMA InvNoLeak == Inv => NoLeak
<1>1. SUFFICES ASSUME Inv, pc[1] \in {"idle", "absent"}, ~Halfway, power # "off"
               PROVE  \/ held = Wanted
                      \/ /\ given \cap {"rings", "queues"} # {}
                         /\ Wanted \subseteq held /\ held \ Wanted \subseteq Ring
  BY DEF NoLeak, Inv
<1>2. /\ TypeOK /\ Kinds /\ Flags /\ Structures /\ Resources
      /\ Basics /\ Enabled /\ Irq /\ Tests /\ Named
  BY <1>1 DEF Inv, Stuck
<1>3. /\ newTx = None /\ newRx = None /\ test = {} /\ ~Setting
      /\ Ready = IF running THEN {tx, rx} ELSE {}
  BY <1>1, <1>2 DEF Structures, Replacing, Setting, NewRings, Tests, Ready
<1>4. \A k \in DOMAIN TestRing : TestRing[k] \notin held
  BY <1>2, <1>3 DEF Tests
<1>5. \A w \in held : \/ \E v \in DOMAIN Basic \cup {"dsnap", "irq"} : w = H(v)
                      \/ w \in Ring
                      \/ \E r \in Ring : w = InfoOf(r)
                      \/ \E r \in Ring, n \in {1, 2} : w = DescOf(r, n)
  BY <1>2, <1>4, Tables DEF TypeOK, Object
<1>6. CASE pc[1] = "absent"
  <2>1. Wanted = {} /\ ~running /\ tx = None /\ rx = None
    BY <1>2, <1>6 DEF Wanted, Kinds, Flags, Setting, NewRings, Structures
  <2>2. \A v \in DOMAIN Basic \cup {"dsnap", "irq"} : H(v) \notin held
    BY <1>2, <1>6, <2>1 DEF Basics, Irq, Live
  <2>3. \A r \in Ring : InfoOf(r) \notin held /\ \A n \in {1, 2} : DescOf(r, n) \notin held
    BY <1>2, <1>3, <2>1 DEF Resources
  <2>4. held \subseteq Ring
    BY <1>5, <2>2, <2>3
  <2>5. held # {} => given \cap {"rings", "queues"} # {}
    BY <1>2, <1>3, <2>1, <2>4, TwoKinds DEF Structures
  <2>6. QED
    BY <2>1, <2>4, <2>5
<1>7. CASE pc[1] = "idle"
  <2>1. pc # <<"absent">> /\ tx \in Ring /\ rx \in Ring /\ {tx, rx} \subseteq held
    BY <1>2, <1>7, TwoKinds DEF Structures, Live
  <2>2. power = "on" /\ given \cap {"resume", "bus_error"} = {}
    BY <1>1, <1>2 DEF TypeOK, Flags, Halfway, Losses
  <2>3. /\ H("enabled") \in held /\ H("regions") \in held /\ H("netdev") \in held /\ H("regs") \in held
        /\ H("registered") \in held /\ H("dsnap") \in held /\ (H("mdio") \in held <=> "ce4100" \in may)
        /\ H("irq") \in held <=> running
    BY <1>2, <1>7, <2>2 DEF Basics, Enabled, Irq, Live
  <2>4. \A r \in Ring : InfoOf(r) \in held <=> running /\ r \in {tx, rx}
    BY <1>2, <1>3 DEF Resources
  <2>5. \A r \in Ring, n \in {1, 2} : DescOf(r, n) \in held <=> running /\ r \in {tx, rx} /\ desc[r] = n
    BY <1>2, <1>3 DEF Resources
  <2>6. running => desc[tx] \in {1, 2} /\ desc[rx] \in {1, 2}
    BY <1>2, <1>3, <2>1 DEF Resources, TypeOK
  <2>7. Wanted = {H("enabled"), H("regions"), H("netdev"), H("regs"), H("registered"), H("dsnap"), tx, rx}
                   \cup (IF "ce4100" \in may THEN {H("mdio")} ELSE {})
                   \cup (IF running THEN {H("irq"), InfoOf(tx), InfoOf(rx), DescOf(tx, desc[tx]),
                                         DescOf(rx, desc[rx])} ELSE {})
    BY <2>1 DEF Wanted, Parts
  <2>8. Wanted \subseteq held
    BY <2>1, <2>3, <2>4, <2>5, <2>6, <2>7
  <2>9. \A w \in held : w \in Wanted \/ w \in Ring
    <3>1. SUFFICES ASSUME NEW w \in held, w \notin Ring PROVE w \in Wanted
      OBVIOUS
    <3>2. CASE \E v \in DOMAIN Basic \cup {"dsnap", "irq"} : w = H(v)
      <4>1. PICK v \in DOMAIN Basic \cup {"dsnap", "irq"} : w = H(v)
        BY <3>2
      <4>2. QED
        BY <4>1, <2>3, <2>7, Tables
    <3>3. CASE \E r \in Ring : w = InfoOf(r)
      BY <3>3, <2>4, <2>7
    <3>4. CASE \E r \in Ring, n \in {1, 2} : w = DescOf(r, n)
      BY <3>4, <2>5, <2>7
    <3>5. QED
      BY <3>1, <3>2, <3>3, <3>4, <1>5
  <2>10. (\E r \in Ring : r \in held \ Wanted) => given \cap {"rings", "queues"} # {}
    <3>1. tx \in Wanted /\ rx \in Wanted
      BY <2>7
    <3>2. \A r \in Ring : r \in held \ Wanted => r \in Ring \ {tx, rx, newTx, newRx}
      BY <3>1, <1>3, TwoKinds, <1>2
    <3>3. QED
      BY <3>2, <1>2 DEF Structures
  <2>11. QED
    BY <2>8, <2>9, <2>10
<1>8. QED
  BY <1>1, <1>6, <1>7

(* Between operations the driver holds what its state calls for, no more and *)
(* no less, whichever steps failed before.                                   *)
THEOREM NothingLeaks == Spec => []NoLeak
BY HeldAsRecorded, InvNoLeak, PTL

(* When dsnap reads all structures again, those of before are still there:   *)
(* once there is a record for the receive ring, the names are those of the   *)
(* rings in use by the time anything new is read.                            *)
THEOREM ReadsLiveRings == Spec => []SnapshotReadsLive
<1>1. Inv => SnapshotReadsLive
  BY DEF Inv, Named, SnapshotReadsLive
<1>2. QED
  BY HeldAsRecorded, <1>1, PTL

-----------------------------------------------------------------------------
(* What must not be done is not done: the rings that are set up can be used, *)
(* and what a step frees is there.                                           *)
Proper == wrong' \ {"freed_ring_read"} \subseteq wrong /\ pc'[1] \notin {"oops", "hang"}

LEMMA ReadyUsable ==
  ASSUME Inv, ~Stuck, NEW r \in Ready
  PROVE  Usable(r)
<1>1. TypeOK /\ Kinds /\ Flags /\ Structures /\ Resources
  BY DEF Inv
<1>2. Live /\ Ready \subseteq {tx, rx, newTx, newRx}
  BY <1>1 DEF Ready, Setting, Flags, NewRings, Live
<1>3. /\ Setting => newTx # r \/ newTx # None
      /\ r # None
  <2>1. CASE r \in {tx, rx}
    BY <2>1, <1>1, <1>2 DEF Structures
  <2>2. CASE r \notin {tx, rx}
    <3>1. Replacing
      BY <2>2, <1>1, <1>2 DEF Ready, Replacing, Setting, NewRings, Kinds
    <3>2. QED
      BY <3>1, <1>1, <1>2, <2>2 DEF Structures
  <2>3. QED
    BY <2>1, <2>2
<1>4. r \in Ring /\ r \in held
  BY <1>1, <1>2, <1>3, TwoKinds DEF Structures
<1>5. info[r] /\ InfoOf(r) \in held /\ desc[r] \in {1, 2}
  BY <1>1, <1>4 DEF Resources, TypeOK
<1>6. DescOf(r, desc[r]) \in held
  BY <1>1, <1>4, <1>5 DEF Resources
<1>7. QED
  BY <1>4, <1>5, <1>6 DEF Usable, Parts

(* An interface that is taken down is up, unless something went wrong half   *)
(* way.                                                                      *)
LEMMA DownProper ==
  ASSUME Inv, ~Halfway, pc = <<"idle">>, running, power # "off"
  PROVE  up /\ Usable(tx) /\ Usable(rx)
<1>1. pc[1] = "idle" /\ ~Stuck
  BY DEF Stuck
<1>2. power = "on"
  BY <1>1 DEF Inv, Flags, TypeOK, Halfway, Losses
<1>3. up /\ Ready = {tx, rx}
  BY <1>2, AtIdle
<1>4. QED
  BY <1>1, <1>3, ReadyUsable

LEMMA ProbeProper ==
  ASSUME Inv, Probe \/ ProbeTakes \/ AllocQueues \/ ProbeFails \/ ProbeUndoes \/ ProbeEnds
  PROVE  Proper
<1>1. CASE Probe
  BY <1>1 DEF Probe, Go, Proper
<1>2. CASE ProbeTakes \/ AllocQueues \/ ProbeFails \/ ProbeEnds
  <2>1. wrong' = wrong /\ pc'[1] \in {"probe", "undo", "idle"}
    BY <1>2 DEF ProbeTakes, AllocQueues, ProbeFails, ProbeEnds, Go
  <2>2. QED
    BY <2>1 DEF Proper
<1>3. CASE ProbeUndoes
  <2>1. pc[1] = "undo" /\ TypeOK /\ Basics /\ Structures
    BY <1>3 DEF ProbeUndoes, Inv, Stuck
  <2>2. pc[2] \in 1..6
    BY <2>1, Tables DEF TypeOK
  <2>3. pc[2] \in 1..5 => Undo[pc[2]] \subseteq held \cup {H("mdio")}
    <3>1. \A w \in DOMAIN Undone : H(w) \in held <=> pc[2] <= Undone[w]
      BY <2>1 DEF Basics
    <3>2. pc[2] = 1 => {tx, rx} \subseteq held
      BY <2>1, Objects DEF Structures, TypeOK
    <3>3. QED
      BY <2>2, <3>1, <3>2, Labels, Tables
  <2>4. wrong' = wrong /\ pc'[1] \in {"undo", "absent"}
    BY <1>3, <2>2, <2>3, Tables DEF ProbeUndoes, Go, Say
  <2>5. QED
    BY <2>4 DEF Proper
<1>4. QED
  BY <1>1, <1>2, <1>3

LEMMA SetUpProper ==
  ASSUME Inv, AllocInfo \/ AllocDesc \/ Check \/ AllocAgain \/ CheckAgain
  PROVE  Proper
<1>1. Setting /\ wrong' = wrong
  BY DEF AllocInfo, AllocDesc, Check, AllocAgain, CheckAgain, Setting
<1>2. \/ pc' = Done(pc[2]) \/ pc' = Failed(pc[2])
      \/ pc'[1] \in {"desc", "check", "desc_again", "check_again"}
  BY DEF AllocInfo, AllocDesc, Check, AllocAgain, CheckAgain, Go
<1>3. pc'[1] \notin {"oops", "hang"}
  BY <1>1, <1>2, Ends
<1>4. QED
  BY <1>1, <1>3 DEF Proper

LEMMA OpenProper ==
  ASSUME Inv, ~Halfway, Open \/ OpenRx \/ ErrSetupRx \/ RequestIrq \/ Up \/ CloseBegins \/ Close
  PROVE  Proper
<1>1. CASE Open \/ OpenRx
  <2>1. wrong' = wrong /\ pc'[1] = "info"
    BY <1>1 DEF Open, OpenRx, SetUp, Go
  <2>2. QED
    BY <2>1 DEF Proper
<1>2. CASE ErrSetupRx
  <2>1. pc[1] = "err_setup_rx" /\ tx \in Ready
    BY <1>2 DEF ErrSetupRx, Ready, Setting
  <2>2. Usable(tx)
    BY <2>1, ReadyUsable DEF Stuck
  <2>3. QED
    BY <1>2, <2>2 DEF ErrSetupRx, Say, Go, Proper
<1>3. CASE RequestIrq
  <2>1. pc[1] = "open_irq" /\ tx \in Ready /\ rx \in Ready
    BY <1>3 DEF RequestIrq, Ready, Setting
  <2>2. Usable(tx) /\ Usable(rx)
    BY <2>1, ReadyUsable DEF Stuck
  <2>3. QED
    BY <1>3, <2>2 DEF RequestIrq, Say, Go, Proper
<1>4. CASE Up
  <2>1. pc[1] = "up" /\ running /\ ~up
    BY <1>4 DEF Up, Inv, Stuck, Flags, Halfway, Losses, TypeOK
  <2>2. tx \in Ready /\ rx \in Ready
    BY <2>1 DEF Ready, Setting
  <2>3. Usable(tx) /\ Usable(rx)
    BY <2>1, <2>2, ReadyUsable DEF Stuck
  <2>4. QED
    BY <1>4, <2>1, <2>3 DEF Up, Go, Proper
<1>5. CASE CloseBegins
  <2>1. up /\ Usable(tx) /\ Usable(rx)
    BY <1>5, DownProper DEF CloseBegins, Idle
  <2>2. QED
    BY <1>5, <2>1 DEF CloseBegins, Down, Go, Proper
<1>6. CASE Close
  <2>1. pc[1] = "close" /\ tx \in Ready /\ rx \in Ready
    BY <1>6 DEF Close, Ready, Setting
  <2>2. Usable(tx) /\ Usable(rx)
    BY <2>1, ReadyUsable DEF Stuck
  <2>3. H("irq") \in held
    BY <2>1 DEF Inv, Stuck, Irq, Flags, Halfway, Losses
  <2>4. wrong' = wrong
    BY <1>6, <2>2, <2>3 DEF Close, Say
  <2>5. H("registered") \notin held => testing = "no"
    BY <2>1 DEF Inv, Stuck, Basics, Live
  <2>6. pc'[1] \in {"free_all", "intr_test", "idle"}
    <3>1. CASE H("registered") \notin held
      BY <1>6, <2>5, <3>1 DEF Close, Go
    <3>2. CASE H("registered") \in held /\ testing # "no"
      BY <1>6, <3>2 DEF Close, Go
    <3>3. CASE H("registered") \in held /\ testing = "no"
      BY <1>6, <3>3 DEF Close, Go
    <3>4. QED
      BY <3>1, <3>2, <3>3
  <2>7. QED
    BY <2>4, <2>6 DEF Proper
<1>7. QED
  BY <1>1, <1>2, <1>3, <1>4, <1>5, <1>6

LEMMA RingparamProper ==
  ASSUME Inv, ~Halfway,
         \/ SetRingparam \/ NewTx \/ NewRx \/ NewRxResources \/ NewTxResources
         \/ ErrSetupTx \/ NewErrSetupRx \/ Swap
  PROVE  Proper
<1>1. CASE SetRingparam
  <2>1. running => up /\ Usable(tx) /\ Usable(rx)
    BY <1>1, DownProper DEF SetRingparam, Idle
  <2>2. QED
    BY <1>1, <2>1 DEF SetRingparam, Down, Go, Proper
<1>2. CASE NewTx \/ NewRx
  <2>1. wrong' = wrong /\ pc'[1] \in {"new_rx", "up", "new_rx_resources", "swap"}
    BY <1>2 DEF NewTx, NewRx, Go
  <2>2. QED
    BY <2>1 DEF Proper
<1>3. CASE NewRxResources \/ NewTxResources \/ NewErrSetupRx
  <2>1. wrong' = wrong /\ pc'[1] \in {"info", "up"}
    BY <1>3 DEF NewRxResources, NewTxResources, NewErrSetupRx, SetUp, Go
  <2>2. QED
    BY <2>1 DEF Proper
<1>4. CASE ErrSetupTx
  <2>1. pc[1] = "new_err_setup_tx" /\ newRx \in Ready
    BY <1>4 DEF ErrSetupTx, Ready, Setting
  <2>2. Usable(newRx)
    BY <2>1, ReadyUsable DEF Stuck
  <2>3. QED
    BY <1>4, <2>2 DEF ErrSetupTx, Say, Go, Proper
<1>5. CASE Swap
  <2>1. pc[1] = "swap" /\ (running => tx \in Ready /\ rx \in Ready)
    BY <1>5 DEF Swap, Ready, Setting
  <2>2. running => Usable(tx) /\ Usable(rx)
    BY <2>1, ReadyUsable DEF Stuck
  <2>3. QED
    BY <1>5, <2>2 DEF Swap, Say, Go, Proper
<1>6. QED
  BY <1>1, <1>2, <1>3, <1>4, <1>5

LEMMA TestProper ==
  ASSUME Inv, ~Halfway, DiagTest \/ IntrTestStep \/ SetupDescRings \/ FreeDescRings
  PROVE  Proper
<1>1. CASE DiagTest
  <2>1. running => up /\ Usable(tx) /\ Usable(rx)
    BY <1>1, DownProper DEF DiagTest, Idle
  <2>2. QED
    BY <1>1, <2>1 DEF DiagTest, Down, Go, Proper
<1>2. CASE IntrTestStep
  <2>1. pc = <<"intr_test_ends">> => H("irq") \in held
    BY DEF Inv, Stuck, Irq
  <2>2. wrong' = wrong /\ pc'[1] \in {"intr_test_ends", "loopback_test"}
    BY <1>2, <2>1 DEF IntrTestStep, IntrTest, Say, Go
  <2>3. QED
    BY <2>2 DEF Proper
<1>3. CASE SetupDescRings
  <2>1. wrong' = wrong /\ pc'[1] \in {"free_desc_rings", "loopback_test"}
    BY <1>3 DEF SetupDescRings, Go
  <2>2. QED
    BY <2>1 DEF Proper
<1>4. CASE FreeDescRings
  <2>1. pc[1] = "free_desc_rings" /\ Tests
    BY <1>4 DEF FreeDescRings, Inv, Stuck
  <2>2. Reachable = test
    BY <2>1, AllReachable DEF Tests
  <2>3. test \subseteq held
    BY <2>1, Tables DEF Tests
  <2>4. wrong' = wrong /\ pc'[1] \in {"info", "idle"}
    BY <1>4, <2>2, <2>3 DEF FreeDescRings, Say, SetUp, Go
  <2>5. QED
    BY <2>4 DEF Proper
<1>5. QED
  BY <1>1, <1>2, <1>3, <1>4

LEMMA PowerProper ==
  ASSUME Inv, ~Halfway,
         \/ Suspend \/ Save \/ Resume \/ IoErrorDetected \/ Disable \/ IoSlotReset \/ IoResume
  PROVE  Proper
<1>1. CASE Suspend
  <2>1. running => up /\ Usable(tx) /\ Usable(rx)
    BY <1>1, DownProper DEF Suspend, Idle
  <2>2. QED
    BY <1>1, <2>1 DEF Suspend, Down, Go, Proper
<1>2. CASE Save
  <2>1. pc[1] = "save" /\ power = "on" /\ given \cap {"resume", "bus_error"} = {}
    BY <1>2 DEF Save, Inv, Stuck, Flags, Halfway, Losses
  <2>2. H("enabled") \in held /\ (running => H("irq") \in held)
    BY <2>1 DEF Inv, Stuck, Enabled, Irq, Live
  <2>3. wrong' = wrong /\ pc'[1] = "idle"
    BY <1>2, <2>2 DEF Save, Say, Go
  <2>4. QED
    BY <2>3 DEF Proper
<1>3. CASE Resume \/ IoSlotReset \/ IoResume
  <2>1. wrong' = wrong /\ pc'[1] \in {"idle", "up"}
    BY <1>3 DEF Resume, IoSlotReset, IoResume, Idle, Go
  <2>2. QED
    BY <2>1 DEF Proper
<1>4. CASE IoErrorDetected
  <2>1. running => up /\ Usable(tx) /\ Usable(rx)
    BY <1>4, DownProper DEF IoErrorDetected, Idle
  <2>2. \/ UNCHANGED <<pc, wrong>> /\ pc = <<"idle">>
        \/ wrong' = wrong /\ pc' = <<"disable">>
    BY <1>4, <2>1 DEF IoErrorDetected, Idle, Down, Go
  <2>3. QED
    BY <2>2 DEF Proper
<1>5. CASE Disable
  <2>1. "bus_error" \in given
    BY <1>5 DEF Disable, Inv, Stuck, Flags
  <2>2. QED
    BY <2>1 DEF Inv, TypeOK, Halfway, Losses
<1>6. QED
  BY <1>1, <1>2, <1>3, <1>4, <1>5

LEMMA RemoveProper ==
  ASSUME Inv, ~Halfway, Remove \/ FreeAll \/ Watchdog \/ AddToBlob
  PROVE  Proper
<1>1. CASE Remove
  <2>1. running => up /\ Usable(tx) /\ Usable(rx)
    BY <1>1, DownProper DEF Remove, Idle
  <2>2. QED
    BY <1>1, <2>1 DEF Remove, Down, Go, Proper
<1>2. CASE FreeAll
  <2>1. pc[1] = "free_all" /\ Basics /\ Enabled /\ Structures /\ Flags /\ TypeOK
    BY <1>2 DEF FreeAll, Inv, Stuck
  <2>2. power = "on" /\ given \cap {"resume", "bus_error"} = {}
    BY <2>1 DEF Flags, Halfway, Losses, TypeOK
  <2>3. {tx, rx, H("regs"), H("regions"), H("netdev"), H("enabled")} \subseteq held
    BY <2>1, <2>2 DEF Basics, Enabled, Structures, Live
  <2>4. wrong' = wrong /\ pc'[1] = "absent"
    BY <1>2, <2>3 DEF FreeAll, Say, Go
  <2>5. QED
    BY <2>4 DEF Proper
<1>3. CASE Watchdog \/ AddToBlob
  <2>1. wrong' \subseteq wrong \cup {"freed_ring_read"} /\ pc'[1] \in {"snap", "idle"}
    BY <1>3 DEF Watchdog, AddToBlob, Say, Go
  <2>2. QED
    BY <2>1 DEF Proper
<1>4. QED
  BY <1>1, <1>2, <1>3

(* Nothing is freed or disabled twice, the interface is not taken down or up *)
(* twice, the rings are there for those that use them, and no operation      *)
(* hangs or oopses, unless something went wrong half way before.             *)
THEOREM FreesOnce == Spec => FreedOnce
<1>1. ASSUME Inv, [Next]_vars
      PROVE  [Halfway \/ Proper]_vars
  <2>1. CASE Halfway
    BY <2>1
  <2>2. CASE UNCHANGED vars
    BY <2>2
  <2>3. CASE ~Halfway /\ Next
    <3>1. \/ Probe \/ ProbeTakes \/ AllocQueues \/ ProbeFails \/ ProbeUndoes \/ ProbeEnds
          \/ AllocInfo \/ AllocDesc \/ Check \/ AllocAgain \/ CheckAgain
          \/ Open \/ OpenRx \/ ErrSetupRx \/ RequestIrq \/ Up \/ CloseBegins \/ Close
          \/ SetRingparam \/ NewTx \/ NewRx \/ NewRxResources \/ NewTxResources
          \/ ErrSetupTx \/ NewErrSetupRx \/ Swap
          \/ DiagTest \/ IntrTestStep \/ SetupDescRings \/ FreeDescRings
          \/ Suspend \/ Save \/ Resume \/ IoErrorDetected \/ Disable \/ IoSlotReset \/ IoResume
          \/ Remove \/ FreeAll \/ Watchdog \/ AddToBlob
      BY <2>3 DEF Next
    <3>2. Proper
      BY <1>1, <2>3, <3>1, ProbeProper, SetUpProper, OpenProper, RingparamProper, TestProper,
         PowerProper, RemoveProper
    <3>3. QED
      BY <3>2
  <2>4. QED
    BY <1>1, <2>1, <2>2, <2>3
<1>2. Inv /\ [Next]_vars => [Halfway \/ (wrong' \ {"freed_ring_read"} \subseteq wrong /\ pc'[1] \notin {"oops", "hang"})]_vars
  BY <1>1 DEF Proper
<1>3. QED
  BY HeldAsRecorded, <1>2, PTL DEF Spec, FreedOnce
=============================================================================
