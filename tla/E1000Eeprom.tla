---------------------------- MODULE E1000Eeprom -----------------------------
(***************************************************************************)
(* The EEPROM of an e1000 controller, as the driver reads and writes it     *)
(* with commands it clocks out bit by bit (e1000_hw.c), and ethtool's       *)
(* set_eeprom on top of it.  The two ports of a dual controller (82546,     *)
(* Microwire) share one EEPROM: while one port writes, the probe of the     *)
(* other may check the checksum.  The driver takes e1000_eeprom_lock for    *)
(* each call, and the controller's grant against its firmware.              *)
(*                                                                         *)
(* The device is external: an array of words of two bytes; a write command  *)
(* of an SPI EEPROM wraps at the end of a page, and starts a write cycle    *)
(* during which the device takes no other command; a Microwire EEPROM is    *)
(* written word by word.  Bits are shifted out to their number, so that an  *)
(* address is cut to the address bits of the device.                        *)
(***************************************************************************)
EXTENDS Integers, FiniteSets

CONSTANTS
  Words,    (* size of the EEPROM                                           *)
  SumReg,   (* EEPROM_CHECKSUM_REG: the words up to it add up to Sum        *)
  Half,     (* words that the address bits of a small SPI EEPROM reach; for *)
            (* the other half there is a bit in the opcode                  *)
  Page,     (* words in a page                                              *)
  Calls,    (* bound on the calls of set_eeprom and of B's probe            *)
  Cases     (* sets of: "microwire"; "narrow", a small SPI EEPROM;          *)
            (* "slow", write cycles that outlast the driver's polls;        *)
            (* "firmware", which may have the grant; "two_ports"            *)

ASSUME EepromAssumption ==
  /\ Words \in Nat /\ SumReg \in 0..(Words - 1) /\ Page \in 1..Words
  /\ Half \in 1..Words /\ Words <= 2 * Half
  /\ Calls \in Nat
  /\ Cases \subseteq SUBSET {"microwire", "narrow", "slow", "firmware", "two_ports"}

Word == 0..(Words - 1)
Byte == {0, 1}
Port == {"A", "B"}
None == "none"

VARIABLES
  may,      (* the case at hand                                             *)
  store,    (* the words of the EEPROM                                      *)
  cycle,    (* is the EEPROM in a write cycle?                              *)
  enabled,  (* its write enable latch                                       *)
  grant,    (* who has the grant                                            *)
  lock,     (* e1000_eeprom_lock                                            *)
  made,     (* how many of the calls that Calls bounds have been made       *)
  phase,    (* what each port is doing: A set_eeprom, B its probe           *)
  at,       (* where its call of e1000_read_eeprom or write_eeprom stands   *)
  call,     (* the call: kind, first word, number of words, words done      *)
  ret,      (* its result: did it succeed?                                  *)
  ask,      (* the bytes that set_eeprom is asked to write                  *)
  buf,      (* eeprom_buff, by the word it is for                           *)
  sum,      (* the running sum of a port                                    *)
  before,   (* the EEPROM when set_eeprom began                             *)
  excuse,   (* what has failed in set_eeprom, and whether B was disturbed   *)
  seen      (* the verdict of B's e1000_validate_eeprom_checksum            *)

deviceVars == <<store, cycle, enabled>>
portVars == <<ask, buf, sum, before, excuse, seen>>
vars == <<may, deviceVars, grant, lock, made, phase, at, call, ret, portVars>>

Spi == "microwire" \notin may

(* A u16 sum, and EEPROM_SUM, of words that have two bits.                   *)
Value(w) == w[1] + 2 * w[2]
AsWord(v) == <<v % 2, (v \div 2) % 2>>
Sum == 3
NoCall == [kind |-> "read", addr |-> 0, n |-> 0, i |-> 0]

-----------------------------------------------------------------------------
(* The device.  A write command of the words i..j-1 of a call, SPI: the      *)
(* address is cut to the address bits; the bit in the opcode comes from the  *)
(* first word of the whole call.                                             *)
StartOf(c) == IF "narrow" \in may THEN ((c.addr + c.i) % Half) + (IF c.addr >= Half THEN Half ELSE 0)
              ELSE c.addr + c.i

Wrapped(start, k) == start - (start % Page) + ((start + k) % Page)

Written(c, j, data) ==
  [w \in Word |->
     LET hits == {k \in 0..(j - c.i - 1) : Wrapped(StartOf(c), k) = w}
     IN IF hits = {} THEN store[w]
        ELSE data[c.addr + c.i + (CHOOSE k \in hits : \A m \in hits : m <= k)]]

CycleEnds ==
  /\ cycle /\ cycle' = FALSE
  /\ UNCHANGED <<may, made, store, enabled, grant, lock, phase, at, call, ret, portVars>>

Firmware ==
  /\ "firmware" \in may
  /\ \/ grant = None /\ grant' = "firmware"
     \/ grant = "firmware" /\ grant' = None
  /\ UNCHANGED <<may, made, deviceVars, lock, phase, at, call, ret, portVars>>

-----------------------------------------------------------------------------
(* e1000_read_eeprom and e1000_write_eeprom: the lock, then                  *)
(* e1000_acquire_eeprom, ...                                                 *)
Goto(p, where) == at' = [at EXCEPT ![p] = where]

LockNot(p) ==
  /\ at[p] = "lock"
  /\ lock' = p
  /\ Goto(p, "acquire")
  /\ UNCHANGED <<may, made, deviceVars, grant, phase, call, ret, portVars>>
Lock(p) ==
  /\ at[p] = "lock" /\ lock = None
  /\ lock' = p
  /\ Goto(p, "acquire")
  /\ UNCHANGED <<may, made, deviceVars, grant, phase, call, ret, portVars>>

Acquire(p) ==
  /\ at[p] = "acquire" /\ grant = None
  /\ grant' = p
  /\ Goto(p, IF Spi THEN "ready" ELSE "command")
  /\ UNCHANGED <<may, made, deviceVars, lock, phase, call, ret, portVars>>

AcquireFails(p) ==
  /\ at[p] = "acquire" /\ grant # None
  /\ ret' = [ret EXCEPT ![p] = FALSE]
  /\ Goto(p, "unlock")
  /\ UNCHANGED <<may, made, deviceVars, grant, lock, phase, call, portVars>>

(* ... e1000_spi_eeprom_ready, which gives up after a while, ...             *)
ReadyAlways(p) ==
  /\ at[p] = "ready"
  /\ Goto(p, "command")
  /\ UNCHANGED <<may, made, deviceVars, grant, lock, phase, call, ret, portVars>>
Ready(p) ==
  /\ at[p] = "ready" /\ ~cycle
  /\ Goto(p, "command")
  /\ UNCHANGED <<may, made, deviceVars, grant, lock, phase, call, ret, portVars>>

NotReady(p) ==
  /\ at[p] = "ready" /\ cycle /\ "slow" \in may
  /\ ret' = [ret EXCEPT ![p] = FALSE]
  /\ Goto(p, "release")
  /\ UNCHANGED <<may, made, deviceVars, grant, lock, phase, call, portVars>>

(* ... a read, of any number of words, ...                                   *)
Read(p) ==
  /\ at[p] = "command" /\ call[p].kind = "read"
  /\ LET w == call[p].addr IN
       IF phase[p] \in {"first", "last"}
         THEN buf' = [buf EXCEPT ![w] = store[w]] /\ UNCHANGED sum
         ELSE sum' = [sum EXCEPT ![p] = (@ + Value(store[w])) % 4] /\ UNCHANGED buf
  /\ excuse' = IF cycle THEN excuse \cup {"read_while_busy"} ELSE excuse
  /\ Goto(p, "release")
  /\ UNCHANGED <<may, made, deviceVars, grant, lock, phase, call, ret, ask, before, seen>>

(* ... or a write: what set_eeprom was asked, in the words that it has read, *)
(* or the checksum; ...                                                      *)
Asked(w, hi) == 2 * w + (IF hi THEN 1 ELSE 0) \in ask.off..(ask.off + ask.len - 1)
DataOf(p) ==
  IF phase[p] = "sum_write" THEN [w \in Word |-> AsWord(4 + Sum - sum[p])]
  ELSE [w \in Word |-> << IF Asked(w, FALSE) THEN ask.b ELSE buf[w][1],
                          IF Asked(w, TRUE) THEN ask.b ELSE buf[w][2] >>]

(* (e1000_write_eeprom_spi, up to the end of a page)                         *)
ToTheEnd(c) == c.n
EndOfPage(c) == LET ends == {j \in (c.i + 1)..c.n : j = c.n \/ (c.addr + j) % Page = 0}
                IN CHOOSE j \in ends : \A m \in ends : j <= m

WriteSpi(p) ==
  /\ Spi /\ at[p] = "command" /\ call[p].kind = "write"
  /\ LET j == EndOfPage(call[p]) IN
       /\ store' = Written(call[p], j, DataOf(p))
       /\ call' = [call EXCEPT ![p].i = j]
       /\ Goto(p, IF j < call[p].n THEN "ready" ELSE "release")
  /\ cycle' = TRUE
  /\ excuse' = IF cycle THEN excuse \cup {"write_while_busy"} ELSE excuse
  /\ UNCHANGED <<may, made, enabled, grant, lock, phase, ret, ask, buf, sum, before, seen>>

(* (e1000_write_eeprom_microwire: write enable, the words, write disable)    *)
WriteMicrowire(p) ==
  /\ ~Spi /\ at[p] = "command" /\ call[p].kind = "write"
  /\ enabled' = TRUE
  /\ store' = [store EXCEPT ![call[p].addr + call[p].i] = DataOf(p)[call[p].addr + call[p].i]]
  /\ cycle' = TRUE
  /\ excuse' = IF cycle THEN excuse \cup {"write_while_busy"} ELSE excuse
  /\ Goto(p, "poll")
  /\ UNCHANGED <<may, made, grant, lock, phase, call, ret, ask, buf, sum, before, seen>>

PollMicrowireAgain(p) ==
  /\ at[p] = "poll"
  /\ \/ /\ ~cycle
        /\ IF call[p].i + 1 = call[p].n THEN enabled' = FALSE /\ Goto(p, "release")
           ELSE Goto(p, "command") /\ UNCHANGED enabled
        /\ UNCHANGED <<call, ret, excuse>>
     \/ /\ cycle /\ "slow" \in may
        /\ ret' = [ret EXCEPT ![p] = FALSE]
        /\ excuse' = excuse \cup {"left_enabled"}
        /\ Goto(p, "release")
        /\ UNCHANGED <<call, enabled>>
  /\ UNCHANGED <<may, made, store, cycle, grant, lock, phase, ask, buf, sum, before, seen>>
PollMicrowire(p) ==
  /\ at[p] = "poll"
  /\ \/ /\ ~cycle
        /\ call' = [call EXCEPT ![p].i = @ + 1]
        /\ IF call[p].i + 1 = call[p].n THEN enabled' = FALSE /\ Goto(p, "release")
           ELSE Goto(p, "command") /\ UNCHANGED enabled
        /\ UNCHANGED <<ret, excuse>>
     \/ /\ cycle /\ "slow" \in may
        /\ ret' = [ret EXCEPT ![p] = FALSE]
        /\ excuse' = excuse \cup {"left_enabled"}
        /\ Goto(p, "release")
        /\ UNCHANGED <<call, enabled>>
  /\ UNCHANGED <<may, made, store, cycle, grant, lock, phase, ask, buf, sum, before, seen>>

(* ... and e1000_release_eeprom.                                             *)
ReleaseOnSuccess(p) ==
  /\ at[p] = "release"
  /\ grant' = IF ret[p] THEN None ELSE grant
  /\ Goto(p, "unlock")
  /\ UNCHANGED <<may, made, deviceVars, lock, phase, call, ret, portVars>>
Release(p) ==
  /\ at[p] = "release"
  /\ grant' = None
  /\ Goto(p, "unlock")
  /\ UNCHANGED <<may, made, deviceVars, lock, phase, call, ret, portVars>>

-----------------------------------------------------------------------------
(* The next call of a port, or its end.                                      *)
Call(p, what, kind, addr, n) ==
  /\ phase' = [phase EXCEPT ![p] = what]
  /\ call' = [call EXCEPT ![p] = [kind |-> kind, addr |-> addr, n |-> n, i |-> 0]]
  /\ ret' = [ret EXCEPT ![p] = TRUE]
  /\ Goto(p, "lock")

End(p) ==
  /\ phase' = [phase EXCEPT ![p] = "idle"]
  /\ call' = [call EXCEPT ![p] = NoCall]
  /\ Goto(p, "idle")

First == ask.off \div 2
Last  == (ask.off + ask.len - 1) \div 2
OddFirst == ask.off % 2 = 1
OddLast  == (ask.off + ask.len) % 2 = 1

CallWrite(p) == Call(p, "write", "write", First, Last - First + 1)
CallSum(p, w, n) ==
  IF w < n THEN Call(p, "sum", "read", w, 1) ELSE Call(p, "sum_write", "write", SumReg, 1)

(* e1000_set_eeprom: the bytes asked for may begin and end within a word,    *)
(* which then is read first; buf is not initialised, and has the bytes that  *)
(* would show.  (A call writes the byte 0, the next one 1.)                  *)
SetEeprom ==
  /\ phase["A"] = "idle" /\ made < Calls /\ made' = made + 1
  /\ \E off \in 0..(2 * Words - 1) :
       \E len \in 1..(2 * Words - off) :
         ask' = [off |-> off, len |-> len, b |-> made % 2]
  /\ buf' = [w \in Word |-> <<(made + 1) % 2, (made + 1) % 2>>]
  /\ before' = store
  /\ excuse' = (IF phase["B"] = "idle" THEN {} ELSE {"B_disturbed"})
               \cup (excuse \cap {"left_enabled", "B_disturbed"})
  /\ sum' = [sum EXCEPT !["A"] = 0]
  /\ phase' = [phase EXCEPT !["A"] = "begin"]
  /\ UNCHANGED <<may, deviceVars, grant, lock, at, call, ret, seen>>

Begin ==
  /\ phase["A"] = "begin"
  /\ IF OddFirst THEN Call("A", "first", "read", First, 1)
     ELSE IF OddLast THEN Call("A", "last", "read", Last, 1) ELSE CallWrite("A")
  /\ UNCHANGED <<may, made, deviceVars, grant, lock, portVars>>

(* A call of A returns.  When a read has failed the second is not tried, but *)
(* the write is.  After a write that succeeds e1000_update_eeprom_checksum   *)
(* adds up the words, and writes the checksum; what it returns is ignored.   *)
ReturnA ==
  /\ at["A"] = "unlock" /\ lock' = None
  /\ \/ /\ phase["A"] = "first"
        /\ IF OddLast /\ ret["A"] THEN Call("A", "last", "read", Last, 1) ELSE CallWrite("A")
        /\ UNCHANGED sum
     \/ phase["A"] = "last" /\ CallWrite("A") /\ UNCHANGED sum
     \/ /\ phase["A"] = "write"
        /\ IF ret["A"] /\ First <= SumReg THEN CallSum("A", 0, SumReg)
           ELSE End("A") /\ UNCHANGED ret
        /\ sum' = [sum EXCEPT !["A"] = 0]
     \/ /\ phase["A"] = "sum"
        /\ IF ret["A"] THEN CallSum("A", call["A"].addr + 1, SumReg)
           ELSE End("A") /\ UNCHANGED ret
        /\ UNCHANGED sum
     \/ phase["A"] = "sum_write" /\ End("A") /\ UNCHANGED <<sum, ret>>
  /\ excuse' = IF ret["A"] THEN excuse ELSE excuse \cup {phase["A"]}
  /\ UNCHANGED <<may, made, deviceVars, grant, ask, buf, before, seen>>

(* B's e1000_validate_eeprom_checksum.                                       *)
SumTo(st) == LET add[w \in Word] == Value(st[w]) + (IF w = 0 THEN 0 ELSE add[w - 1]) IN add
Total(st) == SumTo(st)[SumReg] % 4

Validate ==
  /\ "two_ports" \in may /\ phase["B"] = "idle" /\ made < Calls /\ made' = made + 1
  /\ Call("B", "sum", "read", 0, 1)
  /\ sum' = [sum EXCEPT !["B"] = 0]
  /\ seen' = None
  /\ excuse' = IF phase["A"] = "idle" /\ Total(store) = Sum
                 THEN excuse \ {"B_disturbed"} ELSE excuse \cup {"B_disturbed"}
  /\ UNCHANGED <<may, deviceVars, grant, lock, ask, buf, before>>

ReturnB ==
  /\ at["B"] = "unlock" /\ lock' = None
  /\ IF ret["B"] /\ call["B"].addr < SumReg
       THEN Call("B", "sum", "read", call["B"].addr + 1, 1) /\ UNCHANGED seen
       ELSE /\ End("B") /\ UNCHANGED ret
            /\ seen' = IF ~ret["B"] THEN "error" ELSE IF sum["B"] = Sum THEN "valid" ELSE "invalid"
  /\ UNCHANGED <<may, made, deviceVars, grant, ask, buf, sum, before, excuse>>

-----------------------------------------------------------------------------
Init ==
  /\ may \in Cases
  /\ store = [w \in Word |-> IF w = SumReg THEN AsWord(Sum + SumReg) ELSE <<1, 1>>]
  /\ made = 0
  /\ cycle = FALSE /\ enabled = FALSE /\ grant = None /\ lock = None
  /\ phase = [p \in Port |-> "idle"] /\ at = [p \in Port |-> "idle"]
  /\ call = [p \in Port |-> NoCall] /\ ret = [p \in Port |-> TRUE]
  /\ ask = [off |-> 0, len |-> 1, b |-> 1] /\ buf = [w \in Word |-> <<0, 0>>]
  /\ sum = [p \in Port |-> 0] /\ before = store /\ excuse = {} /\ seen = None

Step(p) == Lock(p) \/ Acquire(p) \/ AcquireFails(p) \/ Ready(p) \/ NotReady(p) \/ Read(p)
           \/ WriteSpi(p) \/ WriteMicrowire(p) \/ PollMicrowire(p) \/ Release(p)
Next ==
  \/ CycleEnds \/ Firmware
  \/ \E p \in Port : Step(p)
  \/ SetEeprom \/ Begin \/ ReturnA \/ Validate \/ ReturnB

Spec == Init /\ [][Next]_vars

(* A port that is in a call goes on, in turn with the other one; a write     *)
(* cycle ends.                                                               *)
Fairness ==
  /\ WF_vars(CycleEnds) /\ WF_vars(Begin \/ ReturnA) /\ WF_vars(ReturnB)
  /\ \A p \in Port : WF_vars(Step(p)) /\ SF_vars(Lock(p))

FairSpec == Spec /\ Fairness

-----------------------------------------------------------------------------
TypeOK ==
  /\ may \in Cases
  /\ store \in [Word -> Byte \X Byte] /\ before \in [Word -> Byte \X Byte]
  /\ buf \in [Word -> Byte \X Byte]
  /\ cycle \in BOOLEAN /\ enabled \in BOOLEAN
  /\ grant \in Port \cup {None, "firmware"} /\ lock \in Port \cup {None}
  /\ phase \in [Port -> {"idle", "begin", "first", "last", "write", "sum", "sum_write"}]
  /\ at \in [Port -> {"idle", "lock", "acquire", "ready", "command", "poll", "release", "unlock"}]
  /\ \A p \in Port : /\ call[p].addr \in Word /\ call[p].i \in 0..call[p].n
                     /\ call[p].addr + call[p].n <= Words
  /\ ret \in [Port -> BOOLEAN] /\ sum \in [Port -> 0..3]
  /\ ask.off + ask.len <= 2 * Words
  /\ made \in 0..Calls
  /\ seen \in {None, "error", "valid", "invalid"}

Failures == {"first", "last", "write", "sum", "sum_write"}
Busy == {"read_while_busy", "write_while_busy"}

(* e1000_set_eeprom does what it was asked: when none of its calls failed,   *)
(* the bytes asked for are written, every other byte is as before but for    *)
(* the checksum, and the checksum is right again.  This is so for any first  *)
(* byte, length and page.  (A small SPI EEPROM is the exception: the address *)
(* bit in the opcode is that of the first word of the call, and a write that *)
(* goes past it lands in the wrong half.)                                    *)
Kept ==
  phase["A"] = "idle" /\ excuse \cap (Failures \cup Busy) = {}
  /\ ~("narrow" \in may /\ First < Half /\ Half <= Last)
  => /\ \A w \in Word : (w = SumReg /\ First <= SumReg)
          \/ store[w] = << IF Asked(w, FALSE) THEN ask.b ELSE before[w][1],
                           IF Asked(w, TRUE) THEN ask.b ELSE before[w][2] >>
     /\ First <= SumReg => Total(store) = Sum

(* While the EEPROM is in a write cycle no command is given to it, by either *)
(* port; unless Microwire polls have timed out before.                       *)
NoBusyAccess == excuse \cap Busy # {} => {"slow", "microwire"} \subseteq may

(* The calls of the two ports do not fail on each other, and the probe of    *)
(* one finds the checksum valid unless it overlaps a write of the other.     *)
PortsDoNotCollide ==
  /\ may \cap {"slow", "firmware"} = {} => excuse \cap Failures = {} /\ seen # "error"
  /\ seen = "invalid" => "B_disturbed" \in excuse

(* A port that has left the EEPROM code holds neither the grant nor the      *)
(* lock, however its last call ended.                                        *)
Released ==
  /\ TypeOK
  /\ \A p \in Port : at[p] = "idle" => grant # p /\ lock # p

(* Every call ends, with the other port or the firmware at the EEPROM.       *)
CallsEnd == \A p \in Port : at[p] # "idle" ~> at[p] = "idle"

=============================================================================
