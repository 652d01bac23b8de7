------------------------- MODULE E1000EepromProof --------------------------
(***************************************************************************)
(* How set_eeprom gets what it was asked for into the EEPROM and leaves the *)
(* rest alone, for EEPROMs, pages and requests of any size and while the    *)
(* other port reads: theorems about E1000Eeprom.                            *)
(***************************************************************************)
EXTENDS E1000Eeprom, NaturalsInduction, WellFoundedInduction, TLAPS

-----------------------------------------------------------------------------
(* A call is within the EEPROM, and has words left until it is done.         *)
CallRecord == [kind : {"read", "write"}, addr : Word, n : Nat, i : Nat]
Request    == [off : 0..(2 * Words - 1), len : 1..(2 * Words), b : Byte]
Content    == [Word -> Byte \X Byte]

Entering == {"lock", "acquire", "ready", "command", "poll"}
Leaving  == {"release", "unlock"}
Locked   == {"acquire", "ready", "command", "poll", "release", "unlock"}
Granted  == {"ready", "command", "poll", "release"}

Flags ==
  /\ may \in Cases /\ cycle \in BOOLEAN /\ enabled \in BOOLEAN
  /\ grant \in Port \cup {None, "firmware"} /\ lock \in Port \cup {None}
  /\ made \in 0..Calls /\ seen \in {None, "error", "valid", "invalid"}

Contents == store \in Content /\ before \in Content /\ buf \in Content

Progress ==
  /\ phase \in [Port -> {"idle", "begin", "first", "last", "write", "sum", "sum_write"}]
  /\ at \in [Port -> {"idle", "lock", "acquire", "ready", "command", "poll", "release", "unlock"}]
  /\ ret \in [Port -> BOOLEAN] /\ sum \in [Port -> 0..3]

Requests ==
  /\ call \in [Port -> CallRecord]
  /\ \A p \in Port : call[p].i <= call[p].n /\ call[p].addr + call[p].n <= Words
  /\ ask \in Request /\ ask.off + ask.len <= 2 * Words
  /\ excuse \subseteq Failures \cup Busy \cup {"B_disturbed", "left_enabled"}

(* Where a port may be in a call, and what the call is.                      *)
Place(p) ==
  /\ at[p] = "idle" <=> phase[p] \in {"idle", "begin"}
  /\ phase[p] \in {"first", "last", "sum"} => call[p].kind = "read" /\ call[p].n = 1
  /\ phase[p] \in {"write", "sum_write"} => call[p].kind = "write"
  /\ at[p] \in Entering => call[p].i < call[p].n
  /\ at[p] \in Leaving /\ ret[p] /\ call[p].kind = "write" => call[p].i = call[p].n
  /\ at[p] = "ready" => Spi
  /\ at[p] = "poll" => ~Spi /\ call[p].kind = "write"
  /\ at[p] \in Entering => ret[p]

(* The lock and the grant are had in between.                                *)
Holds(p) ==
  /\ lock = p <=> at[p] \in Locked
  /\ grant = p <=> at[p] \in Granted

Places ==
  /\ \A p \in Port : Place(p) /\ Holds(p)
  /\ phase["B"] \in {"idle", "sum"}

(* Only what the case at hand has can go wrong.                              *)
Undisturbed ==
  /\ "firmware" \notin may => grant # "firmware"
  /\ may \cap {"slow", "firmware"} = {} =>
       (\A p \in Port : ret[p]) /\ excuse \cap Failures = {} /\ seen # "error"
  /\ \A p \in Port : at[p] = "command" /\ ~({"slow", "microwire"} \subseteq may) => ~cycle
  /\ ~Spi /\ "slow" \notin may /\ cycle => \E p \in Port : at[p] = "poll"
  /\ NoBusyAccess

(* The words read for a checksum.                                            *)
ReadTo(p) == call[p].addr + (IF at[p] \in Leaving /\ ret[p] THEN 1 ELSE 0)
SumBefore(st, k) == IF k = 0 THEN 0 ELSE SumTo(st)[k - 1] % 4

(* The other port reads the words of a valid EEPROM as they are.             *)
Validating ==
  /\ phase["B"] = "sum" => call["B"].addr <= SumReg
  /\ phase["B"] = "sum" /\ "B_disturbed" \notin excuse =>
       /\ phase["A"] = "idle" /\ Total(store) = Sum
       /\ sum["B"] = SumBefore(store, ReadTo("B"))
  /\ seen = "invalid" => "B_disturbed" \in excuse

(* What set_eeprom was asked for, and when that is not excused.              *)
Target(w) == << IF Asked(w, FALSE) THEN ask.b ELSE before[w][1],
                IF Asked(w, TRUE) THEN ask.b ELSE before[w][2] >>
Good == /\ excuse \cap (Failures \cup Busy) = {}
        /\ ~("narrow" \in may /\ First < Half /\ Half <= Last)

(* The words written so far, up to the one that is being polled for.         *)
WrittenTo == call["A"].addr + call["A"].i + (IF at["A"] = "poll" THEN 1 ELSE 0)

(* How far set_eeprom is.                                                    *)
Stage ==
  /\ phase["A"] \in {"begin", "first", "last"} => store = before
  /\ phase["A"] = "first" =>
       /\ OddFirst /\ call["A"].addr = First
       /\ at["A"] \in Leaving /\ ret["A"] => buf[First] = before[First]
  /\ phase["A"] = "last" =>
       /\ OddLast /\ call["A"].addr = Last
       /\ OddFirst /\ "first" \notin excuse => buf[First] = before[First]
       /\ at["A"] \in Leaving /\ ret["A"] => buf[Last] = before[Last]
  /\ phase["A"] = "write" =>
       /\ call["A"].addr = First /\ call["A"].n = Last - First + 1
       /\ Good /\ ret["A"] =>
            /\ OddFirst => buf[First] = before[First]
            /\ OddLast => buf[Last] = before[Last]
            /\ \A w \in Word :
                 store[w] = IF w \in First..(WrittenTo - 1) THEN Target(w) ELSE before[w]
  /\ phase["A"] \in {"sum", "sum_write"} => First <= SumReg
  /\ phase["A"] = "sum" =>
       /\ call["A"].addr < SumReg
       /\ Good => /\ \A w \in Word : store[w] = Target(w)
                  /\ sum["A"] = SumBefore(store, ReadTo("A"))
  /\ phase["A"] = "sum_write" =>
       /\ call["A"].addr = SumReg /\ call["A"].n = 1
       /\ Good => /\ \A w \in Word \ {SumReg} : store[w] = Target(w)
                  /\ sum["A"] = SumBefore(store, SumReg)
                  /\ WrittenTo > SumReg /\ ret["A"] => store[SumReg] = AsWord(4 + Sum - sum["A"])
  /\ Kept

Inv == Flags /\ Contents /\ Progress /\ Requests /\ Places /\ Undisturbed /\ Validating /\ Stage

USE DEF Port, None, Byte, Word, Content, deviceVars, portVars, Goto

(* What is assumed of the sizes.                                             *)
LEMMA Sizes ==
  /\ Words \in Nat /\ SumReg \in Nat /\ SumReg < Words
  /\ Half \in Nat \ {0} /\ Words <= 2 * Half /\ Page \in Nat \ {0}
<1>1. /\ Words \in Nat /\ SumReg \in 0..(Words - 1) /\ Page \in 1..Words
      /\ Half \in 1..Words /\ Words <= 2 * Half
  BY EepromAssumption, Zenon
<1> QED
  BY <1>1

-----------------------------------------------------------------------------
(* Numbers.                                                                  *)
LEMMA LeastElement ==
  ASSUME NEW T, T \subseteq Nat, T # {}
  PROVE  \E i \in T : \A j \in T : i <= j
<1>1. PICK i \in T : \A j \in T : <<j, i>> \notin OpToRel(<, Nat)
  BY NatLessThanWellFounded, WFMin
<1>2. ASSUME NEW j \in T
      PROVE  i <= j
  <2>1. <<j, i>> \notin {ss \in Nat \X Nat : ss[1] < ss[2]}
    BY <1>1 DEF OpToRel
  <2> QED
    BY <2>1
<1> QED
  BY <1>2

(* A set of numbers with a bound has a greatest one.                         *)
LEMMA GreatestElement ==
  ASSUME NEW n \in Nat, NEW T, T \subseteq 0..n, T # {}
  PROVE  \E i \in T : \A j \in T : j <= i
<1> DEFINE U == {n - i : i \in T}
<1>1. U \subseteq Nat
  OBVIOUS
<1>2. PICK u \in U : \A v \in U : u <= v
  <2>1. PICK i \in T : TRUE
    OBVIOUS
  <2>2. n - i \in U
    OBVIOUS
  <2> HIDE DEF U
  <2> QED
    BY <1>1, <2>2, LeastElement
<1>3. PICK i \in T : u = n - i
  BY <1>2
<1>4. ASSUME NEW j \in T
      PROVE  j <= i
  <2>1. n - j \in U
    OBVIOUS
  <2>2. u <= n - j
    BY <1>2, <2>1
  <2> QED
    BY <1>3, <2>2
<1> QED
  BY <1>3, <1>4

(* Division with remainder.                                                  *)
LEMMA DivMod ==
  ASSUME NEW a \in Nat, NEW b \in Nat \ {0}
  PROVE  a = b * (a \div b) + (a % b) /\ a % b \in 0..(b - 1) /\ a \div b \in Nat
  OBVIOUS

(* Quotient and remainder are unique.                                        *)
LEMMA DivUnique ==
  ASSUME NEW b \in Nat \ {0}, NEW q \in Nat, NEW r \in 0..(b - 1)
  PROVE  (b * q + r) % b = r
  OBVIOUS

-----------------------------------------------------------------------------
(* Words, and sums of them.                                                  *)
LEMMA ValueType ==
  ASSUME NEW w \in Byte \X Byte
  PROVE  Value(w) \in 0..3
  BY DEF Value

(* A word of two bits from any number.                                       *)
LEMMA AsWordType ==
  ASSUME NEW v \in Nat
  PROVE  AsWord(v) \in Byte \X Byte /\ Value(AsWord(v)) = v % 4
  BY DEF AsWord, Value

(* There is a function that adds up the words: of those that do for the      *)
(* first words, one more does for one word more.                             *)
LEMMA SumToExists ==
  ASSUME NEW st \in Content
  PROVE  \E f : f = [w \in Word |-> Value(st[w]) + (IF w = 0 THEN 0 ELSE f[w - 1])]
<1> DEFINE Adds(n, f) == /\ f \in [0..n -> Nat]
                         /\ \A w \in 0..n : f[w] = Value(st[w]) + (IF w = 0 THEN 0 ELSE f[w - 1])
           Bad == {n \in Word : ~ \E f : Adds(n, f)}
<1>0. \A w \in Word : Value(st[w]) \in Nat
  BY ValueType
<1>1. Bad = {}
  <2> SUFFICES ASSUME Bad # {}
               PROVE  FALSE
    OBVIOUS
  <2>1. PICK n \in Bad : \A m \in Bad : n <= m
    <3>1. Bad \subseteq Nat
      BY Sizes
    <3> QED
      BY <3>1, LeastElement
  <2>2. CASE n = 0
    <3> DEFINE f0 == [w \in 0..0 |-> Value(st[0])]
    <3>1. 0 \in Word
      BY Sizes
    <3>2. Adds(0, f0)
      BY <1>0, <3>1
    <3> QED
      BY <2>1, <2>2, <3>2
  <2>3. CASE n # 0
    <3>1. n - 1 \in Word /\ n - 1 \notin Bad /\ n \in Word
      <4>1. n \in Word
        BY <2>1
      <4>2. n - 1 \in Word /\ ~(n <= n - 1)
        BY <4>1, <2>3, Sizes
      <4> HIDE DEF Bad
      <4> QED
        BY <2>1, <4>1, <4>2
    <3>2. PICK f : Adds(n - 1, f)
      BY <3>1
    <3> DEFINE g == [w \in 0..n |-> IF w = n THEN Value(st[n]) + f[n - 1] ELSE f[w]]
    <3>3. g \in [0..n -> Nat]
      BY <1>0, <3>1, <3>2
    <3>4. ASSUME NEW w \in 0..n
          PROVE  g[w] = Value(st[w]) + (IF w = 0 THEN 0 ELSE g[w - 1])
      <4>1. CASE w = n
        BY <3>1, <4>1, <2>3
      <4>2. CASE w # n
        <5>1. w \in 0..(n - 1) /\ g[w] = f[w] /\ (w # 0 => g[w - 1] = f[w - 1])
          BY <3>1, <4>2
        <5> QED
          BY <3>2, <5>1
      <4> QED
        BY <4>1, <4>2
    <3>5. Adds(n, g)
      BY <3>3, <3>4
    <3> QED
      BY <2>1, <3>5
  <2> QED
    BY <2>2, <2>3
<1>2. PICK f : Adds(Words - 1, f)
  <2>1. Words - 1 \in Word
    BY Sizes
  <2> QED
    BY <1>1, <2>1
<1>3. f = [w \in Word |-> Value(st[w]) + (IF w = 0 THEN 0 ELSE f[w - 1])]
  BY <1>2
<1> QED
  BY <1>3

(* What SumTo is, word by word.                                              *)
LEMMA SumToDef ==
  ASSUME NEW st \in Content
  PROVE  SumTo(st) = [w \in Word |-> Value(st[w]) + (IF w = 0 THEN 0 ELSE SumTo(st)[w - 1])]
<1>1. \E f : f = [w \in Word |-> Value(st[w]) + (IF w = 0 THEN 0 ELSE f[w - 1])]
  BY SumToExists
<1> QED
  BY <1>1 DEF SumTo

(* The sums are numbers.                                                     *)
LEMMA SumToType ==
  ASSUME NEW st \in Content, NEW k \in Word
  PROVE  SumTo(st)[k] \in Nat
<1> DEFINE Bad == {n \in Word : SumTo(st)[n] \notin Nat}
<1>1. Bad = {}
  <2> SUFFICES ASSUME Bad # {}
               PROVE  FALSE
    OBVIOUS
  <2>1. PICK n \in Bad : \A m \in Bad : n <= m
    <3>1. Bad \subseteq Nat
      BY Sizes
    <3> QED
      BY <3>1, LeastElement
  <2>2. SumTo(st)[n] = Value(st[n]) + (IF n = 0 THEN 0 ELSE SumTo(st)[n - 1])
    BY <2>1, SumToDef
  <2>3. n # 0 => SumTo(st)[n - 1] \in Nat
    BY <2>1, Sizes
  <2>4. Value(st[n]) \in Nat
    BY <2>1, ValueType
  <2> QED
    BY <2>1, <2>2, <2>3, <2>4
<1> QED
  BY <1>1

(* They depend on the words that are added up only.                          *)
LEMMA SumToSame ==
  ASSUME NEW st \in Content, NEW st2 \in Content, NEW k \in Word,
         \A w \in 0..k : st[w] = st2[w]
  PROVE  SumTo(st)[k] = SumTo(st2)[k]
<1> DEFINE Bad == {n \in 0..k : SumTo(st)[n] # SumTo(st2)[n]}
<1>1. Bad = {}
  <2> SUFFICES ASSUME Bad # {}
               PROVE  FALSE
    OBVIOUS
  <2>1. PICK n \in Bad : \A m \in Bad : n <= m
    <3>1. Bad \subseteq Nat
      BY Sizes
    <3> QED
      BY <3>1, LeastElement
  <2>2. n \in Word /\ st[n] = st2[n]
    BY <2>1, Sizes
  <2>3. SumTo(st)[n] = Value(st[n]) + (IF n = 0 THEN 0 ELSE SumTo(st)[n - 1])
    BY <2>2, SumToDef
  <2>4. SumTo(st2)[n] = Value(st2[n]) + (IF n = 0 THEN 0 ELSE SumTo(st2)[n - 1])
    BY <2>2, SumToDef
  <2>5. n # 0 => SumTo(st)[n - 1] = SumTo(st2)[n - 1]
    BY <2>1
  <2> QED
    BY <2>1, <2>2, <2>3, <2>4, <2>5
<1> QED
  BY <1>1

(* A sum can be cut to two bits at each step.                                *)
LEMMA AddMod ==
  ASSUME NEW s \in Nat, NEW v \in 0..3
  PROVE  /\ s % 4 \in 0..3
         /\ (v + s) % 4 = ((s % 4) + v) % 4
  OBVIOUS

(* The sum with one word more.                                               *)
LEMMA SumBeforeNext ==
  ASSUME NEW st \in Content, NEW k \in Word
  PROVE  /\ SumBefore(st, k) \in 0..3
         /\ SumBefore(st, k + 1) = (SumBefore(st, k) + Value(st[k])) % 4
<1>1. SumTo(st)[k] = Value(st[k]) + (IF k = 0 THEN 0 ELSE SumTo(st)[k - 1])
  BY SumToDef
<1>2. Value(st[k]) \in 0..3
  BY ValueType
<1>3. SumTo(st)[k] \in Nat /\ (k # 0 => SumTo(st)[k - 1] \in Nat)
  BY SumToType, Sizes
<1>4. SumBefore(st, k + 1) = SumTo(st)[k] % 4
  BY DEF SumBefore
<1>5. CASE k = 0
  BY <1>1, <1>2, <1>4, <1>5 DEF SumBefore
<1>6. CASE k # 0
  <2>1. SumBefore(st, k) = SumTo(st)[k - 1] % 4
    BY <1>6 DEF SumBefore
  <2> QED
    BY <1>1, <1>2, <1>3, <1>4, <1>6, <2>1, AddMod
<1> QED
  BY <1>5, <1>6

(* A checksum that makes up for the sum of the other words.                  *)
LEMMA ChecksumRight ==
  ASSUME NEW st \in Content, st[SumReg] = AsWord(4 + Sum - SumBefore(st, SumReg))
  PROVE  Total(st) = Sum
<1>1. /\ SumBefore(st, SumReg) \in 0..3
      /\ SumBefore(st, SumReg + 1) = (SumBefore(st, SumReg) + Value(st[SumReg])) % 4
  BY SumBeforeNext, Sizes
<1>2. Total(st) = SumBefore(st, SumReg + 1)
  BY Sizes DEF Total, SumBefore
<1>3. Value(st[SumReg]) = (7 - SumBefore(st, SumReg)) % 4
  BY <1>1, AsWordType DEF Sum
<1> QED
  BY <1>1, <1>2, <1>3 DEF Sum

-----------------------------------------------------------------------------
(* A write command up to the end of a page.                                  *)
LEMMA EndOfPageFacts ==
  ASSUME NEW c \in CallRecord, c.i < c.n
  PROVE  /\ EndOfPage(c) \in (c.i + 1)..c.n
         /\ \A k \in 1..(EndOfPage(c) - c.i - 1) : (c.addr + c.i + k) % Page # 0
<1> DEFINE ends == {j \in (c.i + 1)..c.n : j = c.n \/ (c.addr + j) % Page = 0}
<1>1. c.i \in Nat /\ c.n \in Nat /\ c.addr \in Nat
  BY DEF CallRecord
<1>2. ends # {} /\ ends \subseteq Nat
  BY <1>1
<1>3. \E j \in ends : \A m \in ends : j <= m
  BY <1>2, LeastElement
<1>4. EndOfPage(c) \in ends /\ \A m \in ends : EndOfPage(c) <= m
  BY <1>3 DEF EndOfPage
<1>5. ASSUME NEW k \in 1..(EndOfPage(c) - c.i - 1)
      PROVE  (c.addr + c.i + k) % Page # 0
  <2>1. c.i + k \in (c.i + 1)..c.n /\ c.i + k < EndOfPage(c)
    BY <1>1, <1>4
  <2>2. c.i + k \notin ends
    BY <1>1, <1>4, <2>1
  <2>3. c.addr + (c.i + k) = c.addr + c.i + k
    BY <1>1
  <2> QED
    BY <2>1, <2>2, <2>3
<1> QED
  BY <1>4, <1>5

(* Up to there the device does not wrap.                                     *)
LEMMA WrappedFacts ==
  ASSUME NEW s \in Nat, NEW n \in Nat, \A k \in 1..n : (s + k) % Page # 0, NEW k \in 0..n
  PROVE  Wrapped(s, k) = s + k
<1>0. Page \in Nat \ {0}
  BY Sizes
<1>1. PICK q \in Nat, r \in 0..(Page - 1) : s = Page * q + r /\ s % Page = r
  BY <1>0, DivMod
<1>2. CASE r + k < Page
  <2>1. (Page * q + (r + k)) % Page = r + k
    BY <1>0, <1>2, DivUnique
  <2>2. s + k = Page * q + (r + k)
    BY <1>0, <1>1
  <2> QED
    BY <1>1, <2>1, <2>2 DEF Wrapped
<1>3. CASE r + k >= Page
  <2>1. Page - r \in 1..n
    BY <1>0, <1>3
  <2>2. s + (Page - r) = Page * (q + 1) + 0
    BY <1>0, <1>1
  <2>3. (Page * (q + 1) + 0) % Page = 0
    BY <1>0, DivUnique
  <2> QED
    BY <2>1, <2>2, <2>3
<1> QED
  BY <1>0, <1>2, <1>3

(* An address is what it should be within a half of the device.              *)
InHalf(c) == "narrow" \in may => c.addr >= Half \/ c.addr + c.n <= Half

LEMMA StartOfFacts ==
  ASSUME NEW c \in CallRecord, c.i < c.n, c.addr + c.n <= Words
  PROVE  StartOf(c) \in Nat /\ (InHalf(c) => StartOf(c) = c.addr + c.i)
<1>0. Half \in Nat \ {0} /\ c.addr \in Nat /\ c.i \in Nat /\ c.n \in Nat
  BY Sizes DEF CallRecord
<1> DEFINE x == c.addr + c.i
<1>1. x \in Nat /\ x < Words /\ Words <= 2 * Half /\ Words \in Nat
  BY <1>0, Sizes
<1>2. x % Half \in Nat
  BY <1>0, <1>1, DivMod
<1>3. x < Half => x % Half = x
  <2>1. x < Half => x \in 0..(Half - 1)
    BY <1>0, <1>1
  <2>2. x < Half => (Half * 0 + x) % Half = x
    BY <1>0, <2>1, DivUnique
  <2> QED
    BY <1>0, <1>1, <2>2
<1>4. x >= Half => x % Half = x - Half
  <2>1. x >= Half => x - Half \in 0..(Half - 1)
    BY <1>0, <1>1
  <2>2. x >= Half => (Half * 1 + (x - Half)) % Half = x - Half
    BY <1>0, <2>1, DivUnique
  <2>3. Half * 1 + (x - Half) = x
    BY <1>0, <1>1
  <2> QED
    BY <2>2, <2>3
<1> HIDE DEF x
<1>5. StartOf(c) = IF "narrow" \in may THEN (x % Half) + (IF c.addr >= Half THEN Half ELSE 0) ELSE x
  BY DEF StartOf, x
<1>6. x = c.addr + c.i
  BY DEF x
<1> QED
  BY <1>0, <1>1, <1>2, <1>3, <1>4, <1>5, <1>6 DEF InHalf

(* So a command writes the words that it should.                             *)
LEMMA WrittenFacts ==
  ASSUME NEW c \in CallRecord, c.i < c.n, c.addr + c.n <= Words, NEW data, InHalf(c)
  PROVE  Written(c, EndOfPage(c), data) =
           [w \in Word |-> IF w \in (c.addr + c.i)..(c.addr + EndOfPage(c) - 1)
                           THEN data[w] ELSE store[w]]
<1>0. PICK a \in Nat, i \in Nat, n \in Nat, j \in Nat :
        /\ a = c.addr /\ i = c.i /\ n = c.n /\ j = EndOfPage(c) /\ j \in (i + 1)..n
  <2>1. c.addr \in Nat /\ c.i \in Nat /\ c.n \in Nat
    BY Sizes DEF CallRecord
  <2>2. EndOfPage(c) \in (c.i + 1)..c.n
    BY EndOfPageFacts
  <2> QED
    BY <2>1, <2>2
<1>1. /\ a = c.addr /\ i = c.i /\ n = c.n /\ j = EndOfPage(c) /\ j \in (i + 1)..n
      /\ \A k \in 1..(j - i - 1) : (a + i + k) % Page # 0
  BY <1>0, EndOfPageFacts
<1>2. \A k \in 0..(j - i - 1) : Wrapped(a + i, k) = a + i + k
  <2>1. a + i \in Nat /\ j - i - 1 \in Nat
    BY <1>1
  <2> QED
    BY <1>1, <2>1, WrappedFacts
<1>3. StartOf(c) = a + i
  BY <1>1, StartOfFacts
<1>4. ASSUME NEW w \in Word
      PROVE  Written(c, j, data)[w] = IF w \in (a + i)..(a + j - 1) THEN data[w] ELSE store[w]
  <2> DEFINE hits == {k \in 0..(j - i - 1) : Wrapped(a + i, k) = w}
  <2>1. Written(c, j, data)[w] = IF hits = {} THEN store[w]
                                 ELSE data[a + i + (CHOOSE k \in hits : \A m \in hits : m <= k)]
    BY <1>1, <1>3 DEF Written
  <2>2. CASE w \in (a + i)..(a + j - 1)
    <3>1. hits = {w - (a + i)}
      BY <1>1, <1>2, <2>2
    <3> HIDE DEF hits
    <3>2. (CHOOSE k \in hits : \A m \in hits : m <= k) = w - (a + i)
      BY <3>1
    <3>3. a + i + (w - (a + i)) = w
      BY <1>1
    <3> QED
      BY <2>1, <2>2, <3>1, <3>2, <3>3
  <2>3. CASE w \notin (a + i)..(a + j - 1)
    <3>1. hits = {}
      BY <1>1, <1>2, <2>3
    <3> QED
      BY <2>1, <2>3, <3>1
  <2> QED
    BY <2>2, <2>3
<1> QED
  BY <1>1, <1>4 DEF Written

(* Wherever it wraps, it leaves words.                                       *)
LEMMA WrittenType ==
  ASSUME NEW c \in CallRecord, c.addr + c.n <= Words, NEW j \in (c.i + 1)..c.n,
         NEW data \in Content, store \in Content
  PROVE  Written(c, j, data) \in Content
<1>1. PICK a \in Nat, i \in Nat, n \in Nat : a = c.addr /\ i = c.i /\ n = c.n
  BY DEF CallRecord
<1>2. ASSUME NEW w \in Word
      PROVE  Written(c, j, data)[w] \in Byte \X Byte
  <2> DEFINE hits == {k \in 0..(j - i - 1) : Wrapped(StartOf(c), k) = w}
  <2>1. Written(c, j, data)[w] = IF hits = {} THEN store[w]
                                 ELSE data[a + i + (CHOOSE k \in hits : \A m \in hits : m <= k)]
    BY <1>1 DEF Written
  <2>2. ASSUME hits # {}
        PROVE  data[a + i + (CHOOSE k \in hits : \A m \in hits : m <= k)] \in Byte \X Byte
    <3>1. j - i - 1 \in Nat /\ hits \subseteq 0..(j - i - 1)
      BY <1>1
    <3>2. \E k \in hits : \A m \in hits : m <= k
      BY <2>2, <3>1, GreatestElement
    <3>3. PICK k \in hits : k = (CHOOSE h \in hits : \A m \in hits : m <= h)
      BY <3>2
    <3>4. a + i + k \in Word
      <4>1. k \in 0..(j - i - 1) /\ j \in (i + 1)..n /\ a + n <= Words
        BY <1>1, <3>3
      <4> QED
        BY <4>1, Sizes
    <3> QED
      BY <3>3, <3>4
  <2> QED
    BY <2>1, <2>2
<1> QED
  BY <1>2 DEF Written

-----------------------------------------------------------------------------
(* Sums of a store that stays, and what set_eeprom was asked for.            *)
LEMMA SameSums ==
  ASSUME store' = store
  PROVE  Total(store)' = Total(store) /\ \A k : SumBefore(store, k)' = SumBefore(store, k)
<1>1. SumTo(store)' = SumTo(store)
  BY Zenon DEF SumTo
<1> QED
  BY <1>1 DEF Total, SumBefore

(* The same for what set_eeprom was asked for.                               *)
LEMMA SameAsk ==
  ASSUME UNCHANGED <<may, before, ask>>, excuse \cap (Failures \cup Busy) \subseteq excuse'
  PROVE  /\ First' = First /\ Last' = Last /\ OddFirst' = OddFirst /\ OddLast' = OddLast
         /\ \A w : Asked(w, TRUE)' = Asked(w, TRUE) /\ Asked(w, FALSE)' = Asked(w, FALSE)
         /\ \A w : Target(w)' = Target(w)
         /\ Good' => Good
<1>1. /\ First' = First /\ Last' = Last /\ OddFirst' = OddFirst /\ OddLast' = OddLast
      /\ \A w : Asked(w, TRUE)' = Asked(w, TRUE) /\ Asked(w, FALSE)' = Asked(w, FALSE)
  BY DEF First, Last, OddFirst, OddLast, Asked
<1>2. \A w : Target(w)' = Target(w)
  BY <1>1, Zenon DEF Target
<1>3. Good' => Good
  BY <1>1 DEF Good
<1> QED
  BY <1>1, <1>2, <1>3

(* A step that set_eeprom does not notice.                                   *)
LEMMA StageKept ==
  ASSUME Progress, Stage, UNCHANGED <<may, store, before, buf, ask>>,
         phase'["A"] = phase["A"], sum'["A"] = sum["A"],
         call'["A"].addr = call["A"].addr, call'["A"].n = call["A"].n,
         ret'["A"] => ret["A"] /\ WrittenTo' = WrittenTo,
         \/ phase["A"] \in {"write", "sum_write"}
         \/ at'["A"] \in Leaving /\ ret'["A"] <=> at["A"] \in Leaving /\ ret["A"],
         excuse \cap (Failures \cup Busy) \subseteq excuse'
  PROVE  Stage'
<1>1. /\ First' = First /\ Last' = Last /\ OddFirst' = OddFirst /\ OddLast' = OddLast
      /\ \A w : Asked(w, TRUE)' = Asked(w, TRUE) /\ Asked(w, FALSE)' = Asked(w, FALSE)
  BY DEF First, Last, OddFirst, OddLast, Asked
<1>2. \A w : Target(w)' = Target(w)
  BY <1>1, Zenon DEF Target
<1>3. Good' => Good
  BY <1>1 DEF Good
<1>4. phase["A"] \in {"write", "sum_write"} \/ ReadTo("A")' = ReadTo("A")
  BY DEF ReadTo
<1>5. Total(store)' = Total(store) /\ \A k : SumBefore(store, k)' = SumBefore(store, k)
  <2>1. SumTo(store)' = SumTo(store)
    BY Zenon DEF SumTo
  <2> QED
    BY <2>1 DEF Total, SumBefore
<1>6. Kept'
  BY <1>1, <1>2, <1>3, <1>5 DEF Stage, Kept, Good, Target
<1>7. (phase["A"] \in {"begin", "first", "last"} => store = before)'
  BY DEF Stage
<1>8. (phase["A"] = "first" =>
         /\ OddFirst /\ call["A"].addr = First
         /\ at["A"] \in Leaving /\ ret["A"] => buf[First] = before[First])'
  BY <1>1 DEF Stage
<1>9. (phase["A"] = "last" =>
         /\ OddLast /\ call["A"].addr = Last
         /\ OddFirst /\ "first" \notin excuse => buf[First] = before[First]
         /\ at["A"] \in Leaving /\ ret["A"] => buf[Last] = before[Last])'
  BY <1>1 DEF Stage, Failures
<1>10. (phase["A"] = "write" =>
          /\ call["A"].addr = First /\ call["A"].n = Last - First + 1
          /\ Good /\ ret["A"] =>
               /\ OddFirst => buf[First] = before[First]
               /\ OddLast => buf[Last] = before[Last]
               /\ \A w \in Word :
                    store[w] = IF w \in First..(WrittenTo - 1) THEN Target(w) ELSE before[w])'
  BY <1>1, <1>2, <1>3, <1>4 DEF Stage
<1>11. (phase["A"] \in {"sum", "sum_write"} => First <= SumReg)'
  BY <1>1 DEF Stage
<1>12. (phase["A"] = "sum" =>
          /\ call["A"].addr < SumReg
          /\ Good => /\ \A w \in Word : store[w] = Target(w)
                     /\ sum["A"] = SumBefore(store, ReadTo("A")))'
  BY <1>1, <1>2, <1>3, <1>4, <1>5 DEF Stage
<1>13. (phase["A"] = "sum_write" =>
          /\ call["A"].addr = SumReg /\ call["A"].n = 1
          /\ Good => /\ \A w \in Word \ {SumReg} : store[w] = Target(w)
                     /\ sum["A"] = SumBefore(store, SumReg)
                     /\ WrittenTo > SumReg /\ ret["A"] =>
                          store[SumReg] = AsWord(4 + Sum - sum["A"]))'
  BY <1>1, <1>2, <1>3, <1>4, <1>5 DEF Stage
<1> QED
  BY <1>6, <1>7, <1>8, <1>9, <1>10, <1>11, <1>12, <1>13 DEF Stage

(* A step that the other port's probe does not notice.                       *)
LEMMA ValidatingKept ==
  ASSUME Validating, store' = store, phase' = phase, call'["B"] = call["B"], sum'["B"] = sum["B"],
         at'["B"] \in Leaving /\ ret'["B"] <=> at["B"] \in Leaving /\ ret["B"],
         "B_disturbed" \in excuse <=> "B_disturbed" \in excuse', seen' = seen
  PROVE  Validating'
<1>1. ReadTo("B")' = ReadTo("B")
  BY DEF ReadTo
<1>2. Total(store)' = Total(store) /\ \A k : SumBefore(store, k)' = SumBefore(store, k)
  <2>1. SumTo(store)' = SumTo(store)
    BY Zenon DEF SumTo
  <2> QED
    BY <2>1 DEF Total, SumBefore
<1> QED
  BY <1>1, <1>2 DEF Validating

-----------------------------------------------------------------------------
(* The device and the firmware.                                              *)
(* A write cycle ends.                                                       *)
LEMMA CycleEndsInv ==
  ASSUME Inv, CycleEnds
  PROVE  Inv'
<1> USE DEF Inv
<1>1. Flags'
  BY DEF Flags, CycleEnds
<1>2. Contents'
  BY DEF Contents, CycleEnds
<1>3. Progress'
  BY DEF Progress, CycleEnds
<1>4. Requests'
  BY DEF Requests, Failures, Busy, CycleEnds
<1>5. Places'
  <2>1. ASSUME NEW q \in Port
        PROVE  Place(q)'
    BY DEF Flags, Progress, Requests, Places, Place, Holds, Spi, Entering, Leaving, Locked, Granted,
           CycleEnds
  <2>2. ASSUME NEW q \in Port
        PROVE  Holds(q)'
    BY DEF Flags, Progress, Places, Place, Holds, Entering, Leaving, Locked, Granted, CycleEnds
  <2>3. (phase["B"] \in {"idle", "sum"})'
    BY DEF Places, Progress, CycleEnds
  <2> QED
    BY <2>1, <2>2, <2>3 DEF Places
<1>6. Undisturbed'
  BY DEF Flags, Progress, Requests, Places, Place, Holds, Spi, Entering, Leaving, Locked, Granted,
        Undisturbed, NoBusyAccess, Failures, Busy, CycleEnds
<1>7. Validating'
  BY ValidatingKept DEF Progress, Requests, Places, Place, Entering, Leaving, Locked, Granted,
        CycleEnds
<1>8. Stage'
  BY StageKept DEF WrittenTo, Progress, Requests, Places, Place, Entering, Leaving, Locked,
        Granted, CycleEnds
<1> QED
  BY <1>1, <1>2, <1>3, <1>4, <1>5, <1>6, <1>7, <1>8

(* The firmware takes the grant, or gives it back.                           *)
LEMMA FirmwareInv ==
  ASSUME Inv, Firmware
  PROVE  Inv'
<1> USE DEF Inv
<1>1. Flags'
  BY DEF Flags, Firmware
<1>2. Contents'
  BY DEF Contents, Firmware
<1>3. Progress'
  BY DEF Progress, Firmware
<1>4. Requests'
  BY DEF Requests, Failures, Busy, Firmware
<1>5. Places'
  <2>1. ASSUME NEW q \in Port
        PROVE  Place(q)'
    BY DEF Flags, Progress, Requests, Places, Place, Holds, Spi, Entering, Leaving, Locked, Granted,
           Firmware
  <2>2. ASSUME NEW q \in Port
        PROVE  Holds(q)'
    BY DEF Flags, Progress, Places, Place, Holds, Entering, Leaving, Locked, Granted, Firmware
  <2>3. (phase["B"] \in {"idle", "sum"})'
    BY DEF Places, Progress, Firmware
  <2> QED
    BY <2>1, <2>2, <2>3 DEF Places
<1>6. Undisturbed'
  BY DEF Flags, Progress, Requests, Places, Place, Holds, Spi, Entering, Leaving, Locked, Granted,
        Undisturbed, NoBusyAccess, Failures, Busy, Firmware
<1>7. Validating'
  BY ValidatingKept DEF Progress, Requests, Places, Place, Entering, Leaving, Locked, Granted,
        Firmware
<1>8. Stage'
  BY StageKept DEF WrittenTo, Progress, Requests, Places, Place, Entering, Leaving, Locked,
        Granted, Firmware
<1> QED
  BY <1>1, <1>2, <1>3, <1>4, <1>5, <1>6, <1>7, <1>8

-----------------------------------------------------------------------------
(* A call begins.                                                            *)
LEMMA LockInv ==
  ASSUME Inv, NEW p \in Port, Lock(p)
  PROVE  Inv'
<1> USE DEF Inv
<1>1. Flags'
  BY DEF Flags, Lock
<1>2. Contents'
  BY DEF Contents, Lock
<1>3. Progress'
  BY DEF Progress, Lock
<1>4. Requests'
  BY DEF Requests, Failures, Busy, Lock
<1>5. Places'
  <2>1. ASSUME NEW q \in Port
        PROVE  Place(q)'
    BY DEF Flags, Progress, Requests, Places, Place, Holds, Spi, Entering, Leaving, Locked, Granted,
           Lock
  <2>2. ASSUME NEW q \in Port
        PROVE  Holds(q)'
    BY DEF Flags, Progress, Places, Place, Holds, Entering, Leaving, Locked, Granted, Lock
  <2>3. (phase["B"] \in {"idle", "sum"})'
    BY DEF Places, Progress, Lock
  <2> QED
    BY <2>1, <2>2, <2>3 DEF Places
<1>6. Undisturbed'
  BY DEF Flags, Progress, Requests, Places, Place, Holds, Spi, Entering, Leaving, Locked, Granted,
        Undisturbed, NoBusyAccess, Failures, Busy, Lock
<1>7. Validating'
  BY ValidatingKept DEF Progress, Requests, Places, Place, Entering, Leaving, Locked, Granted,
        Lock
<1>8. Stage'
  BY StageKept DEF WrittenTo, Progress, Requests, Places, Place, Entering, Leaving, Locked,
        Granted, Lock
<1> QED
  BY <1>1, <1>2, <1>3, <1>4, <1>5, <1>6, <1>7, <1>8

(* It gets the grant.                                                        *)
LEMMA AcquireInv ==
  ASSUME Inv, NEW p \in Port, Acquire(p)
  PROVE  Inv'
<1> USE DEF Inv
<1>1. Flags'
  BY DEF Flags, Acquire
<1>2. Contents'
  BY DEF Contents, Acquire
<1>3. Progress'
  BY DEF Progress, Acquire
<1>4. Requests'
  BY DEF Requests, Failures, Busy, Acquire
<1>5. Places'
  <2>1. ASSUME NEW q \in Port
        PROVE  Place(q)'
    BY DEF Flags, Progress, Requests, Places, Place, Holds, Spi, Entering, Leaving, Locked, Granted,
           Acquire
  <2>2. ASSUME NEW q \in Port
        PROVE  Holds(q)'
    BY DEF Flags, Progress, Places, Place, Holds, Entering, Leaving, Locked, Granted, Acquire
  <2>3. (phase["B"] \in {"idle", "sum"})'
    BY DEF Places, Progress, Acquire
  <2> QED
    BY <2>1, <2>2, <2>3 DEF Places
<1>6. Undisturbed'
  BY DEF Flags, Progress, Requests, Places, Place, Holds, Spi, Entering, Leaving, Locked, Granted,
        Undisturbed, NoBusyAccess, Failures, Busy, Acquire
<1>7. Validating'
  BY ValidatingKept DEF Progress, Requests, Places, Place, Entering, Leaving, Locked, Granted,
        Acquire
<1>8. Stage'
  BY StageKept DEF WrittenTo, Progress, Requests, Places, Place, Entering, Leaving, Locked,
        Granted, Acquire
<1> QED
  BY <1>1, <1>2, <1>3, <1>4, <1>5, <1>6, <1>7, <1>8

(* Only the firmware can have the grant instead.                             *)
LEMMA AcquireFailsInv ==
  ASSUME Inv, NEW p \in Port, AcquireFails(p)
  PROVE  Inv'
<1> USE DEF Inv
<1>1. Flags'
  BY DEF Flags, AcquireFails
<1>2. Contents'
  BY DEF Contents, AcquireFails
<1>3. Progress'
  BY DEF Progress, AcquireFails
<1>4. Requests'
  BY DEF Requests, Failures, Busy, AcquireFails
<1>5. Places'
  <2>1. ASSUME NEW q \in Port
        PROVE  Place(q)'
    BY DEF Flags, Progress, Requests, Places, Place, Holds, Spi, Entering, Leaving, Locked, Granted,
           AcquireFails
  <2>2. ASSUME NEW q \in Port
        PROVE  Holds(q)'
    BY DEF Flags, Progress, Places, Place, Holds, Entering, Leaving, Locked, Granted, AcquireFails
  <2>3. (phase["B"] \in {"idle", "sum"})'
    BY DEF Places, Progress, AcquireFails
  <2> QED
    BY <2>1, <2>2, <2>3 DEF Places
<1>6. Undisturbed'
  BY DEF Flags, Progress, Requests, Places, Place, Holds, Spi, Entering, Leaving, Locked, Granted,
        Undisturbed, NoBusyAccess, Failures, Busy, AcquireFails
<1>7. Validating'
  BY ValidatingKept DEF Progress, Requests, Places, Place, Entering, Leaving, Locked, Granted,
        AcquireFails
<1>8. Stage'
  BY StageKept DEF WrittenTo, Progress, Requests, Places, Place, Entering, Leaving, Locked,
        Granted, AcquireFails
<1> QED
  BY <1>1, <1>2, <1>3, <1>4, <1>5, <1>6, <1>7, <1>8

(* The EEPROM is ready, and will be until it is written.                     *)
LEMMA ReadyInv ==
  ASSUME Inv, NEW p \in Port, Ready(p)
  PROVE  Inv'
<1> USE DEF Inv
<1>1. Flags'
  BY DEF Flags, Ready
<1>2. Contents'
  BY DEF Contents, Ready
<1>3. Progress'
  BY DEF Progress, Ready
<1>4. Requests'
  BY DEF Requests, Failures, Busy, Ready
<1>5. Places'
  <2>1. ASSUME NEW q \in Port
        PROVE  Place(q)'
    BY DEF Flags, Progress, Requests, Places, Place, Holds, Spi, Entering, Leaving, Locked, Granted,
           Ready
  <2>2. ASSUME NEW q \in Port
        PROVE  Holds(q)'
    BY DEF Flags, Progress, Places, Place, Holds, Entering, Leaving, Locked, Granted, Ready
  <2>3. (phase["B"] \in {"idle", "sum"})'
    BY DEF Places, Progress, Ready
  <2> QED
    BY <2>1, <2>2, <2>3 DEF Places
<1>6. Undisturbed'
  BY DEF Flags, Progress, Requests, Places, Place, Holds, Spi, Entering, Leaving, Locked, Granted,
        Undisturbed, NoBusyAccess, Failures, Busy, Ready
<1>7. Validating'
  BY ValidatingKept DEF Progress, Requests, Places, Place, Entering, Leaving, Locked, Granted,
        Ready
<1>8. Stage'
  BY StageKept DEF WrittenTo, Progress, Requests, Places, Place, Entering, Leaving, Locked,
        Granted, Ready
<1> QED
  BY <1>1, <1>2, <1>3, <1>4, <1>5, <1>6, <1>7, <1>8

(* The driver gives up only on a slow EEPROM.                                *)
LEMMA NotReadyInv ==
  ASSUME Inv, NEW p \in Port, NotReady(p)
  PROVE  Inv'
<1> USE DEF Inv
<1>1. Flags'
  BY DEF Flags, NotReady
<1>2. Contents'
  BY DEF Contents, NotReady
<1>3. Progress'
  BY DEF Progress, NotReady
<1>4. Requests'
  BY DEF Requests, Failures, Busy, NotReady
<1>5. Places'
  <2>1. ASSUME NEW q \in Port
        PROVE  Place(q)'
    BY DEF Flags, Progress, Requests, Places, Place, Holds, Spi, Entering, Leaving, Locked, Granted,
           NotReady
  <2>2. ASSUME NEW q \in Port
        PROVE  Holds(q)'
    BY DEF Flags, Progress, Places, Place, Holds, Entering, Leaving, Locked, Granted, NotReady
  <2>3. (phase["B"] \in {"idle", "sum"})'
    BY DEF Places, Progress, NotReady
  <2> QED
    BY <2>1, <2>2, <2>3 DEF Places
<1>6. Undisturbed'
  BY DEF Flags, Progress, Requests, Places, Place, Holds, Spi, Entering, Leaving, Locked, Granted,
        Undisturbed, NoBusyAccess, Failures, Busy, NotReady
<1>7. Validating'
  BY ValidatingKept DEF Progress, Requests, Places, Place, Entering, Leaving, Locked, Granted,
        NotReady
<1>8. Stage'
  BY StageKept DEF WrittenTo, Progress, Requests, Places, Place, Entering, Leaving, Locked,
        Granted, NotReady
<1> QED
  BY <1>1, <1>2, <1>3, <1>4, <1>5, <1>6, <1>7, <1>8

(* The grant is given back.                                                  *)
LEMMA ReleaseInv ==
  ASSUME Inv, NEW p \in Port, Release(p)
  PROVE  Inv'
<1> USE DEF Inv
<1>1. Flags'
  BY DEF Flags, Release
<1>2. Contents'
  BY DEF Contents, Release
<1>3. Progress'
  BY DEF Progress, Release
<1>4. Requests'
  BY DEF Requests, Failures, Busy, Release
<1>5. Places'
  <2>1. ASSUME NEW q \in Port
        PROVE  Place(q)'
    BY DEF Flags, Progress, Requests, Places, Place, Holds, Spi, Entering, Leaving, Locked, Granted,
           Release
  <2>2. ASSUME NEW q \in Port
        PROVE  Holds(q)'
    BY DEF Flags, Progress, Places, Place, Holds, Entering, Leaving, Locked, Granted, Release
  <2>3. (phase["B"] \in {"idle", "sum"})'
    BY DEF Places, Progress, Release
  <2> QED
    BY <2>1, <2>2, <2>3 DEF Places
<1>6. Undisturbed'
  BY DEF Flags, Progress, Requests, Places, Place, Holds, Spi, Entering, Leaving, Locked, Granted,
        Undisturbed, NoBusyAccess, Failures, Busy, Release
<1>7. Validating'
  BY ValidatingKept DEF Progress, Requests, Places, Place, Entering, Leaving, Locked, Granted,
        Release
<1>8. Stage'
  BY StageKept DEF WrittenTo, Progress, Requests, Places, Place, Entering, Leaving, Locked,
        Granted, Release
<1> QED
  BY <1>1, <1>2, <1>3, <1>4, <1>5, <1>6, <1>7, <1>8

-----------------------------------------------------------------------------
(* Bytes and the words that they are in.                                     *)
LEMMA ByteInWord ==
  ASSUME NEW off \in Nat, NEW len \in Nat \ {0}, NEW w \in Nat
  PROVE  /\ 2 * w \in off..(off + len - 1) => w \in (off \div 2)..((off + len - 1) \div 2)
         /\ 2 * w + 1 \in off..(off + len - 1) => w \in (off \div 2)..((off + len - 1) \div 2)
         /\ w \in (off \div 2)..((off + len - 1) \div 2) /\ 2 * w \notin off..(off + len - 1)
              => w = off \div 2 /\ off % 2 = 1
         /\ w \in (off \div 2)..((off + len - 1) \div 2) /\ 2 * w + 1 \notin off..(off + len - 1)
              => w = (off + len - 1) \div 2 /\ (off + len) % 2 = 1
  OBVIOUS

(* What set_eeprom is asked for is within the EEPROM; ...                    *)
LEMMA AskWithin ==
  ASSUME Requests
  PROVE  /\ ask.off \in Nat /\ ask.len \in Nat \ {0} /\ ask.off + ask.len <= 2 * Words
         /\ First \in Nat /\ Last \in Nat /\ First <= Last /\ Last < Words
<1>1. ask.off \in 0..(2 * Words - 1) /\ ask.len \in 1..(2 * Words)
  BY DEF Requests, Request
<1>2. ask.off + ask.len <= 2 * Words
  BY DEF Requests
<1> QED
  BY <1>1, <1>2, Sizes DEF First, Last

(* ... only its first and its last word may be asked for in part.            *)
LEMMA AskFacts ==
  ASSUME Requests, NEW w \in Nat
  PROVE  /\ w \notin First..Last => ~Asked(w, FALSE) /\ ~Asked(w, TRUE)
         /\ w \in First..Last /\ ~Asked(w, FALSE) => w = First /\ OddFirst
         /\ w \in First..Last /\ ~Asked(w, TRUE) => w = Last /\ OddLast
<1>1. ask.off \in Nat /\ ask.len \in Nat \ {0}
  BY AskWithin
<1>2. Asked(w, FALSE) <=> 2 * w \in ask.off..(ask.off + ask.len - 1)
  BY <1>1 DEF Asked
<1>3. Asked(w, TRUE) <=> 2 * w + 1 \in ask.off..(ask.off + ask.len - 1)
  BY <1>1 DEF Asked
<1> QED
  BY <1>1, <1>2, <1>3, ByteInWord DEF First, Last, OddFirst, OddLast

(* What is written is what was asked for, if the words asked for in part     *)
(* have been read.                                                           *)
LEMMA DataFacts ==
  ASSUME Requests, Contents, phase["A"] = "write",
         OddFirst => buf[First] = before[First], OddLast => buf[Last] = before[Last]
  PROVE  \A w \in First..Last : DataOf("A")[w] = Target(w)
<1> SUFFICES ASSUME NEW w \in First..Last
             PROVE  DataOf("A")[w] = Target(w)
  OBVIOUS
<1>1. w \in Word /\ w \in Nat
  BY AskWithin, Sizes
<1>2. DataOf("A")[w] = << IF Asked(w, FALSE) THEN ask.b ELSE buf[w][1],
                          IF Asked(w, TRUE) THEN ask.b ELSE buf[w][2] >>
  BY <1>1 DEF DataOf
<1>3. ~Asked(w, FALSE) => buf[w] = before[w]
  BY <1>1, AskFacts
<1>4. ~Asked(w, TRUE) => buf[w] = before[w]
  BY <1>1, AskFacts
<1> QED
  BY <1>2, <1>3, <1>4 DEF Target

(* What is written are words.                                                *)
LEMMA DataType ==
  ASSUME Requests, Contents, Progress
  PROVE  DataOf("A") \in Content
<1>1. CASE phase["A"] = "sum_write"
  <2>1. sum["A"] \in 0..3
    BY DEF Progress
  <2>2. AsWord(4 + Sum - sum["A"]) \in Byte \X Byte
    BY <2>1, AsWordType DEF Sum
  <2> QED
    BY <1>1, <2>2 DEF DataOf
<1>2. CASE phase["A"] # "sum_write"
  <2>1. ask.b \in Byte /\ \A w \in Word : buf[w][1] \in Byte /\ buf[w][2] \in Byte
    BY DEF Requests, Request, Contents
  <2> QED
    BY <1>2, <2>1 DEF DataOf
<1> QED
  BY <1>1, <1>2

(* The words to write are in one half, unless that is excused.               *)
LEMMA GoodInHalf ==
  ASSUME Requests, Stage, phase["A"] \in {"write", "sum_write"}, Good
  PROVE  InHalf(call["A"])
<1>1. First \in Nat /\ Last \in Nat /\ SumReg \in Nat /\ Half \in Nat
  BY AskWithin, Sizes
<1>2. CASE phase["A"] = "write"
  <2>1. call["A"].addr = First /\ call["A"].n = Last - First + 1
    BY <1>2 DEF Stage
  <2> QED
    BY <1>1, <2>1 DEF Good, InHalf
<1>3. CASE phase["A"] = "sum_write"
  <2>1. call["A"].addr = SumReg /\ call["A"].n = 1
    BY <1>3 DEF Stage
  <2> QED
    BY <1>1, <2>1 DEF InHalf
<1> QED
  BY <1>2, <1>3

(* The next words have been written.                                         *)
LEMMA StageWritten ==
  ASSUME Inv, phase["A"] \in {"write", "sum_write"}, ret["A"], NEW m \in Nat \ {0},
         WrittenTo \in Nat, WrittenTo >= call["A"].addr,
         WrittenTo + m <= call["A"].addr + call["A"].n,
         store' \in Content,
         Good => \A w \in Word : store'[w] = IF w \in WrittenTo..(WrittenTo + m - 1)
                                             THEN DataOf("A")[w] ELSE store[w],
         WrittenTo' = WrittenTo + m, UNCHANGED <<may, before, buf, ask, phase, sum>>,
         call'["A"].addr = call["A"].addr, call'["A"].n = call["A"].n,
         excuse \cap (Failures \cup Busy) \subseteq excuse'
  PROVE  Stage'
<1> USE DEF Inv
<1>1. /\ First' = First /\ Last' = Last /\ OddFirst' = OddFirst /\ OddLast' = OddLast
      /\ \A w : Asked(w, TRUE)' = Asked(w, TRUE) /\ Asked(w, FALSE)' = Asked(w, FALSE)
  BY DEF First, Last, OddFirst, OddLast, Asked
<1>2. \A w : Target(w)' = Target(w)
  BY <1>1, Zenon DEF Target
<1>3. Good' => Good
  BY <1>1 DEF Good
<1>4. CASE phase["A"] = "write"
  <2>1. call["A"].addr = First /\ call["A"].n = Last - First + 1
    BY <1>4 DEF Stage
  <2>2. First \in Nat /\ Last \in Nat
    BY AskWithin
  <2>3. ASSUME Good
        PROVE  /\ OddFirst => buf[First] = before[First]
               /\ OddLast => buf[Last] = before[Last]
               /\ \A w \in Word : store'[w] = IF w \in First..(WrittenTo + m - 1)
                                              THEN Target(w) ELSE before[w]
    <3>1. /\ OddFirst => buf[First] = before[First]
          /\ OddLast => buf[Last] = before[Last]
          /\ \A w \in Word : store[w] = IF w \in First..(WrittenTo - 1)
                                        THEN Target(w) ELSE before[w]
      BY <1>4, <2>3 DEF Stage
    <3>2. \A w \in First..Last : DataOf("A")[w] = Target(w)
      BY <1>4, <3>1, DataFacts
    <3>3. ASSUME NEW w \in Word
          PROVE  store'[w] = IF w \in First..(WrittenTo + m - 1) THEN Target(w) ELSE before[w]
      <4>1. w \in Nat
        BY Sizes
      <4>2. CASE w \in WrittenTo..(WrittenTo + m - 1)
        <5>1. w \in First..Last /\ w \in First..(WrittenTo + m - 1)
          BY <2>1, <2>2, <4>1, <4>2
        <5>2. store'[w] = DataOf("A")[w]
          BY <2>3, <4>2
        <5> QED
          BY <3>2, <5>1, <5>2
      <4>3. CASE w \notin WrittenTo..(WrittenTo + m - 1)
        <5>1. w \in First..(WrittenTo + m - 1) <=> w \in First..(WrittenTo - 1)
          BY <2>1, <2>2, <4>1, <4>3
        <5>2. store'[w] = store[w]
          BY <2>3, <4>3
        <5> QED
          BY <3>1, <5>1, <5>2
      <4> QED
        BY <4>2, <4>3
    <3> QED
      BY <3>1, <3>3
  <2>4. (phase["A"] = "write" =>
          /\ call["A"].addr = First /\ call["A"].n = Last - First + 1
          /\ Good /\ ret["A"] =>
               /\ OddFirst => buf[First] = before[First]
               /\ OddLast => buf[Last] = before[Last]
               /\ \A w \in Word :
                    store[w] = IF w \in First..(WrittenTo - 1) THEN Target(w) ELSE before[w])'
    BY <1>1, <1>2, <1>3, <2>1, <2>3
  <2>5. phase'["A"] = "write"
    BY <1>4
  <2>6. Kept'
    BY <2>5 DEF Kept
  <2> QED
    BY <2>4, <2>5, <2>6 DEF Stage
<1>5. CASE phase["A"] = "sum_write"
  <2>1. call["A"].addr = SumReg /\ call["A"].n = 1 /\ First <= SumReg
    BY <1>5 DEF Stage
  <2>2. WrittenTo = SumReg /\ m = 1 /\ SumReg \in Word /\ SumReg \in Nat
    BY <2>1, Sizes
  <2>3. ASSUME Good
        PROVE  /\ \A w \in Word \ {SumReg} : store'[w] = Target(w)
               /\ sum["A"] = SumBefore(store', SumReg)
               /\ store'[SumReg] = AsWord(4 + Sum - sum["A"])
    <3>1. /\ \A w \in Word \ {SumReg} : store[w] = Target(w)
          /\ sum["A"] = SumBefore(store, SumReg)
      BY <1>5, <2>3 DEF Stage
    <3>2. \A w \in Word : w \in WrittenTo..(WrittenTo + m - 1) <=> w = SumReg
      BY <2>2, Sizes
    <3>3. /\ store'[SumReg] = DataOf("A")[SumReg]
          /\ \A w \in Word \ {SumReg} : store'[w] = store[w]
      BY <2>2, <2>3, <3>2
    <3>4. DataOf("A")[SumReg] = AsWord(4 + Sum - sum["A"])
      BY <1>5, <2>2 DEF DataOf
    <3>5. SumBefore(store', SumReg) = SumBefore(store, SumReg)
      <4>1. CASE SumReg = 0
        BY <4>1 DEF SumBefore
      <4>2. CASE SumReg # 0
        <5>1. SumReg - 1 \in Word /\ \A w \in 0..(SumReg - 1) : w \in Word \ {SumReg}
          BY <2>2, <4>2, Sizes
        <5>2. \A w \in 0..(SumReg - 1) : store'[w] = store[w]
          BY <3>3, <5>1
        <5>3. SumTo(store')[SumReg - 1] = SumTo(store)[SumReg - 1]
          <6>1. store \in Content /\ store' \in Content
            BY DEF Contents
          <6> HIDE DEF Content
          <6> QED
            BY <5>1, <5>2, <6>1, SumToSame
        <5> QED
          BY <4>2, <5>3 DEF SumBefore
      <4> QED
        BY <4>1, <4>2
    <3> QED
      BY <3>1, <3>3, <3>4, <3>5
  <2>4. (phase["A"] = "sum_write" =>
          /\ call["A"].addr = SumReg /\ call["A"].n = 1
          /\ Good => /\ \A w \in Word \ {SumReg} : store[w] = Target(w)
                     /\ sum["A"] = SumBefore(store, SumReg)
                     /\ WrittenTo > SumReg /\ ret["A"] =>
                          store[SumReg] = AsWord(4 + Sum - sum["A"]))'
    <3>1. Good' => /\ \A w \in Word \ {SumReg} : store'[w] = Target(w)'
                   /\ sum'["A"] = SumBefore(store', SumReg)
                   /\ store'[SumReg] = AsWord(4 + Sum - sum'["A"])
      BY <1>2, <1>3, <2>3
    <3>2. SumBefore(store, SumReg)' = SumBefore(store', SumReg)
      BY DEF SumBefore, SumTo
    <3> QED
      BY <2>1, <3>1, <3>2
  <2>5. phase'["A"] = "sum_write" /\ First' <= SumReg
    BY <1>1, <1>5, <2>1
  <2>6. Kept'
    BY <2>5 DEF Kept
  <2> QED
    BY <2>4, <2>5, <2>6 DEF Stage
<1> QED
  BY <1>4, <1>5

-----------------------------------------------------------------------------
(* A word is read: into the buffer, or to be added up.                       *)
LEMMA ReadInv ==
  ASSUME Inv, NEW p \in Port, Read(p)
  PROVE  Inv'
<1> USE DEF Inv
<1>0. /\ at[p] = "command" /\ call[p].kind = "read" /\ ret[p] /\ call[p].addr \in Word
      /\ call[p].i < call[p].n
  <2>1. at[p] = "command" /\ call[p].kind = "read"
    BY DEF Read
  <2> QED
    BY <2>1 DEF Places, Place, Entering, Requests, CallRecord
<1>1. Flags'
  BY DEF Flags, Read
<1>2. Contents'
  BY <1>0 DEF Contents, Read
<1>3. Progress'
  <2>1. Value(store[call[p].addr]) \in 0..3
    BY <1>0, ValueType DEF Contents
  <2>2. (sum[p] + Value(store[call[p].addr])) % 4 \in 0..3
    BY <2>1 DEF Progress
  <2> QED
    BY <2>2 DEF Progress, Read
<1>4. Requests'
  BY DEF Requests, Failures, Busy, Read
<1>5. Places'
  <2>1. ASSUME NEW q \in Port
        PROVE  Place(q)'
    BY <1>0 DEF Flags, Progress, Requests, Places, Place, Holds, Spi, Entering, Leaving, Locked,
                Granted, Read
  <2>2. ASSUME NEW q \in Port
        PROVE  Holds(q)'
    BY <1>0 DEF Flags, Progress, Places, Place, Holds, Entering, Leaving, Locked, Granted, Read
  <2>3. (phase["B"] \in {"idle", "sum"})'
    BY DEF Places, Progress, Read
  <2> QED
    BY <2>1, <2>2, <2>3 DEF Places
<1>6. Undisturbed'
  BY <1>0 DEF Flags, Progress, Requests, Places, Place, Holds, Spi, Entering, Leaving, Locked,
              Granted, Undisturbed, NoBusyAccess, Failures, Busy, Read
<1>7. Validating'
  <2>1. CASE p = "A"
    BY <1>0, <2>1, ValidatingKept DEF Progress, Places, Place, Entering, Leaving, Read
  <2>2. CASE p = "B"
    <3>1. phase["B"] = "sum"
      BY <1>0, <2>2 DEF Places, Place, Progress
    <3>2. /\ sum'["B"] = (sum["B"] + Value(store[call["B"].addr])) % 4
          /\ store' = store /\ phase' = phase /\ call' = call /\ seen' = seen /\ ret' = ret
          /\ at'["B"] = "release"
          /\ "B_disturbed" \in excuse' <=> "B_disturbed" \in excuse
      BY <2>2, <3>1 DEF Read, Progress
    <3>3. ReadTo("B") = call["B"].addr /\ ReadTo("B")' = call["B"].addr + 1
      <4>1. call["B"].addr \in Nat /\ at["B"] \notin Leaving
        BY <1>0, <2>2, Sizes DEF Leaving
      <4>2. at'["B"] \in Leaving /\ ret'["B"]
        BY <1>0, <2>2, <3>2 DEF Leaving
      <4> QED
        BY <3>2, <4>1, <4>2 DEF ReadTo
    <3>4. SumBefore(store, call["B"].addr + 1)
            = (SumBefore(store, call["B"].addr) + Value(store[call["B"].addr])) % 4
      BY <1>0, <2>2, SumBeforeNext DEF Contents
    <3>5. Total(store)' = Total(store) /\ \A k : SumBefore(store, k)' = SumBefore(store, k)
      BY <3>2, SameSums
    <3>6. (phase["B"] = "sum" /\ "B_disturbed" \notin excuse =>
             /\ phase["A"] = "idle" /\ Total(store) = Sum
             /\ sum["B"] = SumBefore(store, ReadTo("B")))'
      BY <3>2, <3>3, <3>4, <3>5 DEF Validating
    <3> QED
      BY <3>2, <3>6 DEF Validating
  <2> QED
    BY <2>1, <2>2
<1>8. Stage'
  <2>1. CASE p = "B"
    BY <1>0, <2>1, StageKept DEF WrittenTo, Progress, Places, Place, Entering, Leaving, Read
  <2>2. CASE p = "A"
    <3>1. /\ UNCHANGED <<may, store, before, ask, phase, call, ret>>
          /\ at'["A"] = "release" /\ excuse \subseteq excuse'
          /\ phase["A"] \in {"first", "last", "sum"}
      BY <1>0, <2>2 DEF Read, Progress, Places, Place
    <3>2. /\ First' = First /\ Last' = Last /\ OddFirst' = OddFirst /\ OddLast' = OddLast
          /\ \A w : Target(w)' = Target(w)
          /\ Good' => Good
      <4>1. UNCHANGED <<may, before, ask>>
        BY <3>1
      <4> QED
        BY <3>1, <4>1, SameAsk
    <3>3. CASE phase["A"] \in {"first", "last"}
      <4>1. buf' = [buf EXCEPT ![call["A"].addr] = store[call["A"].addr]] /\ store = before
        BY <2>2, <3>3 DEF Read, Stage
      <4>2. buf'[call["A"].addr] = before[call["A"].addr]
            /\ \A w \in Word : buf[w] = before[w] => buf'[w] = before[w]
        BY <1>0, <2>2, <4>1 DEF Contents
      <4>3. First \in Word
        BY AskWithin, Sizes
      <4>4. Kept'
        BY <3>1, <3>3 DEF Kept
      <4> QED
        BY <1>0, <2>2, <3>1, <3>2, <3>3, <4>1, <4>2, <4>3, <4>4 DEF Stage, Failures
    <3>4. CASE phase["A"] = "sum"
      <4>1. sum'["A"] = (sum["A"] + Value(store[call["A"].addr])) % 4
        BY <2>2, <3>4 DEF Read, Progress
      <4>2. ReadTo("A") = call["A"].addr /\ ReadTo("A")' = call["A"].addr + 1
        BY <1>0, <2>2, <3>1 DEF ReadTo, Leaving, CallRecord
      <4>3. SumBefore(store, call["A"].addr + 1)
              = (SumBefore(store, call["A"].addr) + Value(store[call["A"].addr])) % 4
        BY <1>0, <2>2, SumBeforeNext DEF Contents
      <4>4. \A k : SumBefore(store, k)' = SumBefore(store, k)
        BY <3>1, SameSums
      <4>5. Kept'
        BY <3>1, <3>4 DEF Kept
      <4> QED
        BY <3>1, <3>2, <3>4, <4>1, <4>2, <4>3, <4>4, <4>5 DEF Stage
    <3> QED
      BY <3>1, <3>3, <3>4
  <2> QED
    BY <2>1, <2>2
<1> QED
  BY <1>1, <1>2, <1>3, <1>4, <1>5, <1>6, <1>7, <1>8

-----------------------------------------------------------------------------
(* Only set_eeprom writes.                                                   *)
LEMMA WriterIsA ==
  ASSUME Inv, NEW p \in Port, at[p] \in Entering, call[p].kind = "write"
  PROVE  /\ p = "A" /\ phase["A"] \in {"write", "sum_write"} /\ ret["A"]
         /\ call["A"] \in CallRecord /\ call["A"].i < call["A"].n
         /\ call["A"].addr + call["A"].n <= Words
         /\ call["A"].addr \in Nat /\ call["A"].i \in Nat /\ call["A"].n \in Nat
<1>1. p = "A" /\ phase["A"] \in {"write", "sum_write"} /\ ret["A"]
  BY DEF Inv, Places, Place, Progress, Entering
<1>2. /\ call["A"] \in CallRecord /\ call["A"].i < call["A"].n
      /\ call["A"].addr + call["A"].n <= Words
  BY <1>1 DEF Inv, Places, Place, Requests
<1>3. call["A"].addr \in Nat /\ call["A"].i \in Nat /\ call["A"].n \in Nat
  BY <1>2 DEF CallRecord
<1> QED
  BY <1>1, <1>2, <1>3

(* An SPI command writes up to the end of a page.                            *)
LEMMA WriteSpiInv ==
  ASSUME Inv, NEW p \in Port, WriteSpi(p)
  PROVE  Inv'
<1> DEFINE c == call["A"]
<1>0. /\ p = "A" /\ phase["A"] \in {"write", "sum_write"} /\ ret["A"] /\ at["A"] = "command"
      /\ c \in CallRecord /\ c.i < c.n /\ c.addr + c.n <= Words /\ c.kind = "write"
      /\ c.addr \in Nat /\ c.i \in Nat /\ c.n \in Nat /\ Spi
  BY WriterIsA DEF WriteSpi, Entering
<1>a. PICK j \in (c.i + 1)..c.n :
        /\ j = EndOfPage(c) /\ store' = Written(c, j, DataOf("A"))
        /\ call' = [call EXCEPT !["A"].i = j]
        /\ at' = [at EXCEPT !["A"] = IF j < c.n THEN "ready" ELSE "release"]
        /\ cycle' = TRUE
        /\ excuse' = IF cycle THEN excuse \cup {"write_while_busy"} ELSE excuse
        /\ UNCHANGED <<may, made, enabled, grant, lock, phase, ret, ask, buf, sum, before, seen>>
  <2>1. EndOfPage(c) \in (c.i + 1)..c.n
    BY <1>0, EndOfPageFacts
  <2> QED
    BY <1>0, <2>1 DEF WriteSpi
<1>b. /\ call'["A"].addr = c.addr /\ call'["A"].n = c.n /\ call'["A"].i = j
      /\ call'["A"].kind = "write" /\ call'["B"] = call["B"] /\ call' \in [Port -> CallRecord]
  BY <1>0, <1>a DEF Inv, Requests, CallRecord
<1> USE DEF Inv
<1> HIDE DEF c
<1>1. Flags'
  BY <1>a DEF Flags
<1>2. Contents'
  <2>1. DataOf("A") \in Content /\ store \in Content
    BY DataType DEF Contents
  <2> HIDE DEF Content
  <2>2. store' \in Content
    BY <1>0, <1>a, <2>1, WrittenType
  <2> QED
    BY <1>a, <2>2 DEF Contents
<1>3. Progress'
  BY <1>a DEF Progress
<1>4. Requests'
  BY <1>0, <1>a, <1>b DEF Requests, Failures, Busy, c
<1>5. Places'
  <2>1. Place("A")'
    BY <1>0, <1>a, <1>b DEF Progress, Places, Place, Spi, Entering, Leaving
  <2>2. Place("B")'
    BY <1>a, <1>b DEF Progress, Places, Place, Spi, Entering, Leaving
  <2>3. Holds("A")' /\ Holds("B")'
    BY <1>0, <1>a DEF Flags, Progress, Places, Place, Holds, Locked, Granted
  <2>4. (phase["B"] \in {"idle", "sum"})'
    BY <1>a DEF Places
  <2> QED
    BY <2>1, <2>2, <2>3, <2>4 DEF Places
<1>6. Undisturbed'
  BY <1>0, <1>a DEF Flags, Progress, Places, Place, Holds, Spi, Entering, Locked, Granted,
                    Undisturbed, NoBusyAccess, Failures, Busy
<1>7. Validating'
  BY <1>0, <1>a, <1>b DEF Validating
<1>8. Stage'
  <2>1. WrittenTo = c.addr + c.i
    BY <1>0 DEF WrittenTo, c
  <2>2. WrittenTo' = c.addr + j
    BY <1>0, <1>a, <1>b DEF WrittenTo, Progress
  <2>3. /\ j - c.i \in Nat \ {0} /\ WrittenTo \in Nat /\ WrittenTo >= c.addr
        /\ WrittenTo + (j - c.i) <= c.addr + c.n /\ WrittenTo' = WrittenTo + (j - c.i)
        /\ c.addr + EndOfPage(c) - 1 = WrittenTo + (j - c.i) - 1
    BY <1>0, <1>a, <2>1, <2>2
  <2>4. ASSUME Good
        PROVE  \A w \in Word : store'[w] = IF w \in WrittenTo..(WrittenTo + (j - c.i) - 1)
                                           THEN DataOf("A")[w] ELSE store[w]
    <3>1. InHalf(c)
      BY <1>0, <2>4, GoodInHalf DEF c
    <3>2. Written(c, EndOfPage(c), DataOf("A")) =
            [w \in Word |-> IF w \in (c.addr + c.i)..(c.addr + EndOfPage(c) - 1)
                            THEN DataOf("A")[w] ELSE store[w]]
      BY <1>0, <3>1, WrittenFacts
    <3> QED
      BY <1>a, <2>1, <2>3, <3>2
  <2>5. store' \in Content
    BY <1>2 DEF Contents
  <2>6. excuse \cap (Failures \cup Busy) \subseteq excuse'
    BY <1>a
  <2> QED
    BY <1>0, <1>a, <1>b, <2>3, <2>4, <2>5, <2>6, StageWritten DEF c
<1> QED
  BY <1>1, <1>2, <1>3, <1>4, <1>5, <1>6, <1>7, <1>8

(* A Microwire command writes a word.                                        *)
LEMMA WriteMicrowireInv ==
  ASSUME Inv, NEW p \in Port, WriteMicrowire(p)
  PROVE  Inv'
<1> DEFINE c == call["A"]
<1>0. /\ p = "A" /\ phase["A"] \in {"write", "sum_write"} /\ ret["A"] /\ at["A"] = "command"
      /\ c \in CallRecord /\ c.i < c.n /\ c.addr + c.n <= Words /\ c.kind = "write"
      /\ c.addr \in Nat /\ c.i \in Nat /\ c.n \in Nat /\ ~Spi
  BY WriterIsA DEF WriteMicrowire, Entering
<1>a. /\ store' = [store EXCEPT ![c.addr + c.i] = DataOf("A")[c.addr + c.i]]
      /\ at' = [at EXCEPT !["A"] = "poll"] /\ cycle' = TRUE /\ enabled' = TRUE
      /\ excuse' = IF cycle THEN excuse \cup {"write_while_busy"} ELSE excuse
      /\ UNCHANGED <<may, made, grant, lock, phase, call, ret, ask, buf, sum, before, seen>>
  BY <1>0 DEF WriteMicrowire
<1> USE DEF Inv
<1> HIDE DEF c
<1>1. Flags'
  BY <1>a DEF Flags
<1>2. Contents'
  <2>1. c.addr + c.i \in Word
    BY <1>0, Sizes
  <2>2. DataOf("A") \in Content
    BY DataType
  <2>3. DataOf("A")[c.addr + c.i] \in Byte \X Byte
    BY <2>1, <2>2
  <2> QED
    BY <1>a, <2>3 DEF Contents
<1>3. Progress'
  BY <1>a DEF Progress
<1>4. Requests'
  BY <1>a DEF Requests, Failures, Busy
<1>5. Places'
  <2>1. Place("A")' /\ Place("B")'
    BY <1>0, <1>a DEF Progress, Places, Place, Spi, Entering, Leaving, c
  <2>2. Holds("A")' /\ Holds("B")'
    BY <1>0, <1>a DEF Flags, Progress, Places, Place, Holds, Locked, Granted
  <2>3. (phase["B"] \in {"idle", "sum"})'
    BY <1>a DEF Places
  <2> QED
    BY <2>1, <2>2, <2>3 DEF Places
<1>6. Undisturbed'
  BY <1>0, <1>a DEF Flags, Progress, Places, Place, Holds, Spi, Entering, Locked, Granted,
                    Undisturbed, NoBusyAccess, Failures, Busy
<1>7. Validating'
  BY <1>0, <1>a DEF Validating
<1>8. Stage'
  <2>1. WrittenTo = c.addr + c.i
    BY <1>0 DEF WrittenTo, c
  <2>2. WrittenTo' = c.addr + c.i + 1
    BY <1>0, <1>a DEF WrittenTo, Progress, c
  <2>3. /\ 1 \in Nat \ {0} /\ WrittenTo \in Nat /\ WrittenTo >= c.addr
        /\ WrittenTo + 1 <= c.addr + c.n /\ WrittenTo' = WrittenTo + 1
    BY <1>0, <2>1, <2>2
  <2>4. \A w \in Word : store'[w] = IF w \in WrittenTo..(WrittenTo + 1 - 1)
                                    THEN DataOf("A")[w] ELSE store[w]
    <3>1. \A w \in Word : w \in WrittenTo..(WrittenTo + 1 - 1) <=> w = c.addr + c.i
      BY <2>1, <2>3, Sizes
    <3> QED
      BY <1>a, <3>1 DEF Contents
  <2>5. store' \in Content
    BY <1>2 DEF Contents
  <2>6. excuse \cap (Failures \cup Busy) \subseteq excuse'
    BY <1>a
  <2> QED
    BY <1>0, <1>a, <2>3, <2>4, <2>5, <2>6, StageWritten DEF c
<1> QED
  BY <1>1, <1>2, <1>3, <1>4, <1>5, <1>6, <1>7, <1>8

(* The driver has polled for the end of a Microwire write.                   *)
LEMMA PollMicrowireInv ==
  ASSUME Inv, NEW p \in Port, PollMicrowire(p)
  PROVE  Inv'
<1> DEFINE c == call["A"]
<1>0. /\ p = "A" /\ phase["A"] \in {"write", "sum_write"} /\ ret["A"] /\ at["A"] = "poll"
      /\ c \in CallRecord /\ c.i < c.n /\ c.addr + c.n <= Words /\ c.kind = "write"
      /\ c.addr \in Nat /\ c.i \in Nat /\ c.n \in Nat /\ ~Spi
  <2>1. at[p] = "poll" /\ call[p].kind = "write" /\ ~Spi
    BY DEF PollMicrowire, Inv, Places, Place
  <2> QED
    BY <2>1, WriterIsA DEF Entering
<1>a. /\ UNCHANGED <<may, made, store, cycle, grant, lock, phase, ask, buf, sum, before, seen>>
      /\ enabled' \in BOOLEAN
      /\ \/ /\ ~cycle /\ call' = [call EXCEPT !["A"].i = c.i + 1] /\ UNCHANGED <<ret, excuse>>
            /\ at' = [at EXCEPT !["A"] = IF c.i + 1 = c.n THEN "release" ELSE "command"]
         \/ /\ cycle /\ "slow" \in may /\ ret' = [ret EXCEPT !["A"] = FALSE]
            /\ excuse' = excuse \cup {"left_enabled"} /\ call' = call
            /\ at' = [at EXCEPT !["A"] = "release"]
  BY <1>0 DEF PollMicrowire, Inv, Flags
<1>b. /\ call'["A"].addr = c.addr /\ call'["A"].n = c.n /\ call'["A"].i \in {c.i, c.i + 1}
      /\ call'["A"].kind = "write" /\ call'["B"] = call["B"] /\ call' \in [Port -> CallRecord]
  BY <1>0, <1>a DEF Inv, Requests, CallRecord
<1>c. \/ /\ ret' = ret /\ at'["A"] # "poll" /\ call'["A"].i = c.i + 1 /\ ~cycle
         /\ at'["A"] = "release" => c.i + 1 = c.n
         /\ at'["A"] = "command" => c.i + 1 < c.n
      \/ ret' = [ret EXCEPT !["A"] = FALSE] /\ at'["A"] = "release"
  <2>1. CASE cycle
    BY <1>0, <1>a, <2>1 DEF Inv, Progress
  <2>2. CASE ~cycle
    <3>1. /\ call' = [call EXCEPT !["A"].i = c.i + 1] /\ ret' = ret
          /\ at' = [at EXCEPT !["A"] = IF c.i + 1 = c.n THEN "release" ELSE "command"]
      BY <1>a, <2>2
    <3>2. call'["A"].i = c.i + 1
      BY <3>1 DEF Inv, Requests, CallRecord
    <3>3. at'["A"] = IF c.i + 1 = c.n THEN "release" ELSE "command"
      BY <3>1 DEF Inv, Progress
    <3>4. c.i + 1 = c.n \/ c.i + 1 < c.n
      BY <1>0
    <3> QED
      BY <2>2, <3>1, <3>2, <3>3, <3>4
  <2> QED
    BY <2>1, <2>2
<1> USE DEF Inv
<1> HIDE DEF c
<1>1. Flags'
  BY <1>a DEF Flags
<1>2. Contents'
  BY <1>a DEF Contents
<1>3. Progress'
  BY <1>a DEF Progress
<1>4. Requests'
  <2>1. call'["A"].i <= c.n
    BY <1>0, <1>b
  <2> QED
    BY <1>0, <1>a, <1>b, <2>1 DEF Requests, Failures, Busy, c
<1>5. Places'
  <2>1. Place("A")'
    BY <1>0, <1>a, <1>b, <1>c DEF Progress, Places, Place, Spi, Entering, Leaving
  <2>2. Place("B")'
    BY <1>a, <1>b DEF Progress, Places, Place, Spi, Entering, Leaving
  <2>3. Holds("A")' /\ Holds("B")'
    BY <1>0, <1>a DEF Flags, Progress, Places, Place, Holds, Locked, Granted
  <2>4. (phase["B"] \in {"idle", "sum"})'
    BY <1>a DEF Places
  <2> QED
    BY <2>1, <2>2, <2>3, <2>4 DEF Places
<1>6. Undisturbed'
  BY <1>0, <1>a DEF Flags, Progress, Places, Place, Holds, Spi, Entering, Locked, Granted,
                    Undisturbed, NoBusyAccess, Failures, Busy
<1>7. Validating'
  BY <1>0, <1>a, <1>b, ValidatingKept DEF Progress
<1>8. Stage'
  <2>1. ret'["A"] => WrittenTo' = WrittenTo
    BY <1>0, <1>b, <1>c DEF WrittenTo, Progress, c
  <2>2. excuse \cap (Failures \cup Busy) \subseteq excuse'
    BY <1>a
  <2> QED
    BY <1>0, <1>a, <1>b, <2>1, <2>2, StageKept DEF c
<1> QED
  BY <1>1, <1>2, <1>3, <1>4, <1>5, <1>6, <1>7, <1>8

-----------------------------------------------------------------------------
(* A port has begun a call.                                                  *)
Called(p, what, kind, addr, n) ==
  /\ phase' \in [Port -> {"idle", "begin", "first", "last", "write", "sum", "sum_write"}]
  /\ at' \in [Port -> {"idle", "lock", "acquire", "ready", "command", "poll", "release", "unlock"}]
  /\ ret' \in [Port -> BOOLEAN] /\ call' \in [Port -> CallRecord]
  /\ \A q \in Port : call'[q].i <= call'[q].n /\ call'[q].addr + call'[q].n <= Words
  /\ phase'[p] = what /\ at'[p] = "lock" /\ ret'[p] = TRUE
  /\ call'[p].kind = kind /\ call'[p].addr = addr /\ call'[p].n = n /\ call'[p].i = 0
  /\ \A q \in Port \ {p} : /\ phase'[q] = phase[q] /\ at'[q] = at[q] /\ ret'[q] = ret[q]
                           /\ call'[q] = call[q]

(* The next call of a port.                                                  *)
LEMMA CallFacts ==
  ASSUME Progress, Requests, NEW p \in Port, NEW what, NEW kind \in {"read", "write"},
         NEW addr \in Nat, NEW n \in Nat \ {0}, addr + n <= Words, Call(p, what, kind, addr, n),
         what \in {"first", "last", "write", "sum", "sum_write"}
  PROVE  Called(p, what, kind, addr, n)
<1>1. addr \in Word
  BY Sizes
<1>2. [kind |-> kind, addr |-> addr, n |-> n, i |-> 0] \in CallRecord
  BY <1>1 DEF CallRecord
<1>3. call' \in [Port -> CallRecord] /\ call'[p] = [kind |-> kind, addr |-> addr, n |-> n, i |-> 0]
  BY <1>2 DEF Call, Requests
<1>4. \A q \in Port \ {p} : /\ phase'[q] = phase[q] /\ at'[q] = at[q] /\ ret'[q] = ret[q]
                            /\ call'[q] = call[q]
  BY DEF Call, Progress, Requests
<1>5. /\ phase' \in [Port -> {"idle", "begin", "first", "last", "write", "sum", "sum_write"}]
      /\ at' \in [Port -> {"idle", "lock", "acquire", "ready", "command", "poll", "release",
                           "unlock"}]
      /\ ret' \in [Port -> BOOLEAN]
      /\ phase'[p] = what /\ at'[p] = "lock" /\ ret'[p] = TRUE
  BY DEF Call, Progress
<1>6. \A q \in Port : call'[q].i <= call'[q].n /\ call'[q].addr + call'[q].n <= Words
  BY <1>3, <1>4 DEF Requests
<1> QED
  BY <1>3, <1>4, <1>5, <1>6 DEF Called

(* A call that begins, of a port that is not in the EEPROM code or leaves it.*)
LEMMA CallPlaces ==
  ASSUME Inv, NEW p \in Port, NEW what, NEW kind \in {"read", "write"},
         NEW addr \in Nat, NEW n \in Nat \ {0}, addr + n <= Words, Call(p, what, kind, addr, n),
         \/ what \in {"first", "last", "sum"} /\ kind = "read" /\ n = 1
         \/ what \in {"write", "sum_write"} /\ kind = "write",
         p = "B" => what = "sum",
         \/ at[p] = "idle" /\ lock' = lock
         \/ at[p] = "unlock" /\ lock' = None,
         UNCHANGED <<may, cycle, grant>>,
         excuse' \subseteq excuse \cup {"B_disturbed"} \cup (IF ret[p] THEN {} ELSE {phase[p]}),
         excuse' \subseteq Failures \cup Busy \cup {"B_disturbed", "left_enabled"},
         seen' \in {seen, None}, ask' = ask
  PROVE  Requests' /\ Places' /\ Undisturbed'
<1> USE DEF Inv
<1>0. Called(p, what, kind, addr, n)
  <2>1. what \in {"first", "last", "write", "sum", "sum_write"}
    OBVIOUS
  <2>2. Progress /\ Requests
    OBVIOUS
  <2> HIDE DEF Inv
  <2> QED
    BY <2>1, <2>2, CallFacts
<1>1. Requests'
  BY <1>0 DEF Called, Requests
<1>2. ASSUME NEW q \in Port
      PROVE  Place(q)'
  <2>1. CASE q = p
    BY <1>0, <2>1 DEF Called, Place, Entering, Leaving
  <2>2. CASE q # p
    BY <1>0, <2>2 DEF Called, Places, Place, Spi
  <2> QED
    BY <2>1, <2>2
<1>3. ASSUME NEW q \in Port
      PROVE  Holds(q)'
  BY <1>0 DEF Called, Flags, Progress, Places, Place, Holds, Locked, Granted
<1>4. (phase["B"] \in {"idle", "sum"})'
  BY <1>0 DEF Called, Places
<1>5. Undisturbed'
  BY <1>0 DEF Called, Flags, Progress, Places, Place, Holds, Spi, Entering, Locked, Granted,
              Undisturbed, NoBusyAccess, Failures, Busy
<1> QED
  BY <1>1, <1>2, <1>3, <1>4, <1>5 DEF Places

(* A port has come to the end of its calls.                                  *)
Ended(p) ==
  /\ phase' \in [Port -> {"idle", "begin", "first", "last", "write", "sum", "sum_write"}]
  /\ at' \in [Port -> {"idle", "lock", "acquire", "ready", "command", "poll", "release", "unlock"}]
  /\ call' \in [Port -> CallRecord]
  /\ \A q \in Port : call'[q].i <= call'[q].n /\ call'[q].addr + call'[q].n <= Words
  /\ phase'[p] = "idle" /\ at'[p] = "idle"
  /\ \A q \in Port \ {p} : phase'[q] = phase[q] /\ at'[q] = at[q] /\ call'[q] = call[q]

(* The end of a port's calls.                                                *)
LEMMA EndFacts ==
  ASSUME Progress, Requests, NEW p \in Port, End(p)
  PROVE  Ended(p)
<1>1. NoCall \in CallRecord /\ NoCall.i <= NoCall.n /\ NoCall.addr + NoCall.n <= Words
  BY Sizes DEF NoCall, CallRecord
<1>2. call' \in [Port -> CallRecord] /\ call'[p] = NoCall
  BY <1>1 DEF End, Requests
<1>3. \A q \in Port \ {p} : phase'[q] = phase[q] /\ at'[q] = at[q] /\ call'[q] = call[q]
  BY DEF End, Goto, Progress, Requests
<1>4. /\ phase' \in [Port -> {"idle", "begin", "first", "last", "write", "sum", "sum_write"}]
      /\ at' \in [Port -> {"idle", "lock", "acquire", "ready", "command", "poll", "release",
                           "unlock"}]
      /\ phase'[p] = "idle" /\ at'[p] = "idle"
  BY DEF End, Goto, Progress
<1>5. \A q \in Port : call'[q].i <= call'[q].n /\ call'[q].addr + call'[q].n <= Words
  BY <1>1, <1>2, <1>3 DEF Requests
<1> QED
  BY <1>2, <1>3, <1>4, <1>5 DEF Ended

(* A port that leaves has neither the grant nor the lock.                    *)
LEMMA EndPlaces ==
  ASSUME Inv, NEW p \in Port, End(p), ret' = ret, at[p] = "unlock", lock' = None,
         UNCHANGED <<may, cycle, grant>>,
         excuse' \subseteq excuse \cup (IF ret[p] THEN {} ELSE {phase[p]}),
         excuse' \subseteq Failures \cup Busy \cup {"B_disturbed", "left_enabled"},
         seen' \in {seen, "valid", "invalid"} \cup (IF ret[p] THEN {} ELSE {"error"}), ask' = ask
  PROVE  Ended(p) /\ Requests' /\ Places' /\ Undisturbed'
<1> USE DEF Inv
<1>0. Ended(p)
  <2>1. Progress /\ Requests
    OBVIOUS
  <2> HIDE DEF Inv
  <2> QED
    BY <2>1, EndFacts
<1>1. Requests'
  BY <1>0 DEF Ended, Requests
<1>2. ASSUME NEW q \in Port
      PROVE  Place(q)'
  <2>1. CASE q = p
    BY <1>0, <2>1 DEF Ended, Place, Entering, Leaving
  <2>2. CASE q # p
    BY <1>0, <2>2 DEF Ended, Places, Place, Spi
  <2> QED
    BY <2>1, <2>2
<1>3. ASSUME NEW q \in Port
      PROVE  Holds(q)'
  BY <1>0 DEF Ended, Flags, Progress, Places, Place, Holds, Locked, Granted
<1>4. (phase["B"] \in {"idle", "sum"})'
  BY <1>0 DEF Ended, Places
<1>5. Undisturbed'
  BY <1>0 DEF Ended, Flags, Progress, Places, Place, Holds, Spi, Entering, Locked, Granted,
              Undisturbed, NoBusyAccess, Failures, Busy
<1> QED
  BY <1>0, <1>1, <1>2, <1>3, <1>4, <1>5 DEF Places

(* While set_eeprom is under way the other port's probe is disturbed.        *)
LEMMA ValidatingDisturbed ==
  ASSUME Validating, phase["A"] # "idle", phase'["B"] = phase["B"], call'["B"] = call["B"],
         "B_disturbed" \in excuse => "B_disturbed" \in excuse', seen' = seen
  PROVE  Validating'
BY DEF Validating

-----------------------------------------------------------------------------
(* set_eeprom begins to write: the words asked for in part have been read.   *)
LEMMA StageWriteBegun ==
  ASSUME Inv, Called("A", "write", "write", First, Last - First + 1),
         UNCHANGED <<may, store, before, buf, ask>>, store = before,
         Good' => /\ OddFirst => buf[First] = before[First]
                  /\ OddLast => buf[Last] = before[Last],
         excuse \cap (Failures \cup Busy) \subseteq excuse'
  PROVE  Stage'
<1>1. /\ First' = First /\ Last' = Last /\ OddFirst' = OddFirst /\ OddLast' = OddLast
      /\ \A w : Target(w)' = Target(w)
  BY SameAsk
<1>2. /\ phase'["A"] = "write" /\ at'["A"] = "lock" /\ call'["A"].addr = First
      /\ call'["A"].n = Last - First + 1 /\ call'["A"].i = 0
  BY DEF Called
<1>3. First \in Nat
  BY AskWithin DEF Inv
<1>4. WrittenTo' = First
  BY <1>2, <1>3 DEF WrittenTo
<1>5. \A w : w \notin First..(First - 1)
  BY <1>3
<1>6. (phase["A"] = "write" =>
        /\ call["A"].addr = First /\ call["A"].n = Last - First + 1
        /\ Good /\ ret["A"] =>
             /\ OddFirst => buf[First] = before[First]
             /\ OddLast => buf[Last] = before[Last]
             /\ \A w \in Word :
                  store[w] = IF w \in First..(WrittenTo - 1) THEN Target(w) ELSE before[w])'
  BY <1>1, <1>2, <1>4, <1>5
<1>7. Kept'
  BY <1>2 DEF Kept
<1> QED
  BY <1>2, <1>6, <1>7 DEF Stage

(* set_eeprom reads its last word.                                           *)
LEMMA StageLastBegun ==
  ASSUME Inv, Called("A", "last", "read", Last, 1),
         UNCHANGED <<may, store, before, buf, ask>>, store = before, OddLast,
         OddFirst /\ "first" \notin excuse' => buf[First] = before[First],
         excuse \cap (Failures \cup Busy) \subseteq excuse'
  PROVE  Stage'
<1>1. First' = First /\ Last' = Last /\ OddFirst' = OddFirst /\ OddLast' = OddLast
  BY SameAsk
<1>2. phase'["A"] = "last" /\ at'["A"] = "lock" /\ call'["A"].addr = Last
  BY DEF Called
<1>3. at'["A"] \notin Leaving
  BY <1>2 DEF Leaving
<1>4. (phase["A"] = "last" =>
        /\ OddLast /\ call["A"].addr = Last
        /\ OddFirst /\ "first" \notin excuse => buf[First] = before[First]
        /\ at["A"] \in Leaving /\ ret["A"] => buf[Last] = before[Last])'
  BY <1>1, <1>2, <1>3
<1>5. Kept'
  BY <1>2 DEF Kept
<1> QED
  BY <1>2, <1>4, <1>5 DEF Stage

(* set_eeprom adds up the words, or has done so and writes the checksum.     *)
LEMMA StageSumBegun ==
  ASSUME Inv, NEW k \in Nat, k <= SumReg, First <= SumReg,
         IF k < SumReg THEN Called("A", "sum", "read", k, 1)
         ELSE Called("A", "sum_write", "write", SumReg, 1),
         UNCHANGED <<may, store, before, buf, ask>>,
         Good' => /\ \A w \in Word : store[w] = Target(w)
                  /\ sum'["A"] = SumBefore(store, k),
         excuse \cap (Failures \cup Busy) \subseteq excuse'
  PROVE  Stage'
<1>1. /\ First' = First /\ \A w : Target(w)' = Target(w)
      /\ \A n : SumBefore(store, n)' = SumBefore(store, n)
  BY SameAsk, SameSums
<1>2. SumReg \in Nat
  BY Sizes
<1>3. CASE k < SumReg
  <2>1. phase'["A"] = "sum" /\ at'["A"] = "lock" /\ call'["A"].addr = k
    BY <1>3 DEF Called
  <2>2. ReadTo("A")' = k
    BY <2>1 DEF ReadTo, Leaving
  <2>3. (phase["A"] = "sum" =>
          /\ call["A"].addr < SumReg
          /\ Good => /\ \A w \in Word : store[w] = Target(w)
                     /\ sum["A"] = SumBefore(store, ReadTo("A")))'
    BY <1>1, <1>3, <2>1, <2>2
  <2>4. Kept'
    BY <2>1 DEF Kept
  <2> QED
    BY <1>1, <2>1, <2>3, <2>4 DEF Stage
<1>4. CASE ~(k < SumReg)
  <2>1. /\ phase'["A"] = "sum_write" /\ at'["A"] = "lock" /\ call'["A"].addr = SumReg
        /\ call'["A"].n = 1 /\ call'["A"].i = 0
    BY <1>4 DEF Called
  <2>2. WrittenTo' = SumReg /\ k = SumReg
    BY <1>2, <1>4, <2>1 DEF WrittenTo
  <2>3. (phase["A"] = "sum_write" =>
          /\ call["A"].addr = SumReg /\ call["A"].n = 1
          /\ Good => /\ \A w \in Word \ {SumReg} : store[w] = Target(w)
                     /\ sum["A"] = SumBefore(store, SumReg)
                     /\ WrittenTo > SumReg /\ ret["A"] =>
                          store[SumReg] = AsWord(4 + Sum - sum["A"]))'
    BY <1>1, <1>2, <2>1, <2>2
  <2>4. Kept'
    BY <2>1 DEF Kept
  <2> QED
    BY <1>1, <2>1, <2>3, <2>4 DEF Stage
<1> QED
  BY <1>3, <1>4

(* set_eeprom is done.                                                       *)
LEMMA StageEnded ==
  ASSUME Inv, phase'["A"] = "idle", UNCHANGED <<may, store, before, ask>>,
         Good' => /\ \A w \in Word : (w = SumReg /\ First <= SumReg) \/ store[w] = Target(w)
                  /\ First <= SumReg => Total(store) = Sum,
         excuse \cap (Failures \cup Busy) \subseteq excuse'
  PROVE  Stage'
<1>1. /\ First' = First /\ \A w : Target(w)' = Target(w)
      /\ Total(store)' = Total(store)
  BY SameAsk, SameSums
<1>2. Kept'
  <2>1. Good' => /\ \A w \in Word : (w = SumReg /\ First' <= SumReg) \/ store'[w] = Target(w)'
                 /\ First' <= SumReg => Total(store)' = Sum
    BY <1>1
  <2> QED
    BY <2>1 DEF Kept, Good, Target
<1> QED
  BY <1>2 DEF Stage

-----------------------------------------------------------------------------
(* ethtool calls set_eeprom.                                                 *)
LEMMA SetEepromInv ==
  ASSUME Inv, SetEeprom
  PROVE  Inv'
<1> USE DEF Inv
<1>0. /\ phase["A"] = "idle" /\ made < Calls /\ made' = made + 1
      /\ phase' = [phase EXCEPT !["A"] = "begin"] /\ sum' = [sum EXCEPT !["A"] = 0]
      /\ buf' = [w \in Word |-> <<(made + 1) % 2, (made + 1) % 2>>] /\ before' = store
      /\ excuse' = (IF phase["B"] = "idle" THEN {} ELSE {"B_disturbed"})
                   \cup (excuse \cap {"left_enabled", "B_disturbed"})
      /\ UNCHANGED <<may, store, cycle, enabled, grant, lock, at, call, ret, seen>>
  BY DEF SetEeprom
<1>1. Flags'
  <2>1. Calls \in Nat
    BY EepromAssumption
  <2>2. made' \in 0..Calls
    BY <1>0, <2>1 DEF Flags
  <2> QED
    BY <1>0, <2>2 DEF Flags
<1>2. Contents'
  <2>1. (made + 1) % 2 \in Byte
    BY DEF Flags
  <2> QED
    BY <1>0, <2>1 DEF Contents
<1>3. Progress'
  BY <1>0 DEF Progress
<1>4. Requests'
  <2>1. PICK off \in 0..(2 * Words - 1) : \E len \in 1..(2 * Words - off) :
              ask' = [off |-> off, len |-> len, b |-> made % 2]
    BY DEF SetEeprom
  <2>2. PICK len \in 1..(2 * Words - off) : ask' = [off |-> off, len |-> len, b |-> made % 2]
    BY <2>1
  <2>3. len \in 1..(2 * Words) /\ off + len <= 2 * Words
    BY Sizes
  <2>4. made % 2 \in Byte
    BY DEF Flags
  <2>5. ask' \in Request /\ ask'.off + ask'.len <= 2 * Words
    BY <2>2, <2>3, <2>4 DEF Request
  <2>6. excuse' \subseteq Failures \cup Busy \cup {"B_disturbed", "left_enabled"}
    BY <1>0
  <2> QED
    BY <1>0, <2>5, <2>6 DEF Requests
<1>5. Places'
  <2>1. ASSUME NEW q \in Port
        PROVE  Place(q)'
    BY <1>0 DEF Progress, Places, Place, Spi
  <2>2. ASSUME NEW q \in Port
        PROVE  Holds(q)'
    BY <1>0 DEF Places, Holds
  <2>3. (phase["B"] \in {"idle", "sum"})'
    BY <1>0 DEF Places, Progress
  <2> QED
    BY <2>1, <2>2, <2>3 DEF Places
<1>6. Undisturbed'
  BY <1>0 DEF Undisturbed, NoBusyAccess, Failures, Busy, Spi
<1>7. Validating'
  <2>1. phase'["B"] = "sum" => "B_disturbed" \in excuse'
    BY <1>0 DEF Progress
  <2>2. "B_disturbed" \in excuse => "B_disturbed" \in excuse'
    BY <1>0
  <2> QED
    BY <1>0, <2>1, <2>2 DEF Validating, Progress
<1>8. Stage'
  <2>1. phase'["A"] = "begin" /\ store' = before'
    BY <1>0 DEF Progress
  <2>2. Kept'
    BY <2>1 DEF Kept
  <2> QED
    BY <2>1, <2>2 DEF Stage
<1> QED
  BY <1>1, <1>2, <1>3, <1>4, <1>5, <1>6, <1>7, <1>8

(* It reads the first or the last word, or writes at once.                   *)
LEMMA BeginInv ==
  ASSUME Inv, Begin
  PROVE  Inv'
<1>0. /\ phase["A"] = "begin" /\ at["A"] = "idle" /\ store = before
      /\ UNCHANGED <<may, made, store, cycle, enabled, grant, lock>>
      /\ UNCHANGED <<ask, buf, sum, before, excuse, seen>>
  BY DEF Inv, Begin, Places, Place, Stage
<1>a. /\ First \in Nat /\ Last \in Nat /\ First <= Last /\ Last < Words /\ Words \in Nat
      /\ Last - First + 1 \in Nat \ {0} /\ First + (Last - First + 1) <= Words
      /\ First + 1 <= Words /\ Last + 1 <= Words
  BY AskWithin, Sizes DEF Inv
<1>b. /\ excuse' \subseteq excuse \cup {"B_disturbed"} \cup (IF ret["A"] THEN {} ELSE {phase["A"]})
      /\ excuse' \subseteq Failures \cup Busy \cup {"B_disturbed", "left_enabled"}
      /\ seen' \in {seen, None} /\ excuse \cap (Failures \cup Busy) \subseteq excuse'
      /\ "B_disturbed" \in excuse => "B_disturbed" \in excuse'
  BY <1>0 DEF Inv, Requests
<1>c. /\ Progress /\ Requests /\ "A" \in Port
      /\ 1 \in Nat \ {0} /\ "read" \in {"read", "write"} /\ "write" \in {"read", "write"}
  BY DEF Inv
<1>1. (\E what, kind, addr, n : Called("A", what, kind, addr, n))
      /\ Requests' /\ Places' /\ Undisturbed' /\ Stage'
  <2>1. CASE OddFirst
    <3>1. Call("A", "first", "read", First, 1)
      BY <2>1 DEF Begin
    <3>2. Called("A", "first", "read", First, 1)
      <4>1. "first" \in {"first", "last", "write", "sum", "sum_write"}
        OBVIOUS
      <4> QED
        BY <1>a, <1>c, <3>1, <4>1, CallFacts
    <3>3. Requests' /\ Places' /\ Undisturbed'
      BY <1>0, <1>a, <1>b, <1>c, <3>1, CallPlaces
    <3>4. First' = First /\ OddFirst' = OddFirst
      BY <1>0 DEF First, OddFirst
    <3>5. /\ phase'["A"] = "first" /\ call'["A"].addr = First /\ at'["A"] \notin Leaving
      BY <3>2 DEF Called, Leaving
    <3>6. Kept'
      BY <3>5 DEF Kept
    <3>7. Stage'
      BY <1>0, <2>1, <3>4, <3>5, <3>6 DEF Stage
    <3> QED
      BY <3>2, <3>3, <3>7
  <2>2. CASE ~OddFirst /\ OddLast
    <3>1. Call("A", "last", "read", Last, 1)
      BY <2>2 DEF Begin
    <3>2. Called("A", "last", "read", Last, 1)
      <4>1. "last" \in {"first", "last", "write", "sum", "sum_write"}
        OBVIOUS
      <4> QED
        BY <1>a, <1>c, <3>1, <4>1, CallFacts
    <3>3. Requests' /\ Places' /\ Undisturbed'
      BY <1>0, <1>a, <1>b, <1>c, <3>1, CallPlaces
    <3>4. Stage'
      BY <1>0, <1>b, <2>2, <3>2, StageLastBegun
    <3> QED
      BY <3>2, <3>3, <3>4
  <2>3. CASE ~OddFirst /\ ~OddLast
    <3>1. Call("A", "write", "write", First, Last - First + 1)
      BY <2>3 DEF Begin, CallWrite
    <3>2. Called("A", "write", "write", First, Last - First + 1)
      BY <1>a, <1>c, <3>1, CallFacts
    <3>3. Requests' /\ Places' /\ Undisturbed'
      BY <1>0, <1>a, <1>b, <1>c, <3>1, CallPlaces
    <3>4. Stage'
      BY <1>0, <1>b, <2>3, <3>2, StageWriteBegun
    <3> QED
      BY <3>2, <3>3, <3>4
  <2> QED
    BY <2>1, <2>2, <2>3
<1>2. /\ phase' \in [Port -> {"idle", "begin", "first", "last", "write", "sum", "sum_write"}]
      /\ at' \in [Port -> {"idle", "lock", "acquire", "ready", "command", "poll", "release",
                           "unlock"}]
      /\ ret' \in [Port -> BOOLEAN]
      /\ phase'["B"] = phase["B"] /\ call'["B"] = call["B"]
  BY <1>1 DEF Called
<1>3. Flags' /\ Contents'
  BY <1>0 DEF Inv, Flags, Contents
<1>4. Progress'
  BY <1>0, <1>2 DEF Inv, Progress
<1>5. Validating'
  <2>1. phase["A"] # "idle"
    BY <1>0
  <2> QED
    BY <1>0, <1>b, <1>2, <2>1, ValidatingDisturbed DEF Inv
<1> QED
  BY <1>1, <1>3, <1>4, <1>5 DEF Inv

(* A call of set_eeprom returns, ...                                         *)
LEMMA ReturnAFacts ==
  ASSUME Inv, ReturnA
  PROVE  /\ at["A"] = "unlock" /\ lock' = None
         /\ excuse' = IF ret["A"] THEN excuse ELSE excuse \cup {phase["A"]}
         /\ UNCHANGED <<may, made, store, cycle, enabled, grant, ask, buf, before, seen>>
         /\ phase["A"] \in {"first", "last", "write", "sum", "sum_write"}
         /\ excuse' \subseteq excuse \cup (IF ret["A"] THEN {} ELSE {phase["A"]})
         /\ excuse' \subseteq Failures \cup Busy \cup {"B_disturbed", "left_enabled"}
         /\ excuse \cap (Failures \cup Busy) \subseteq excuse'
         /\ "B_disturbed" \in excuse => "B_disturbed" \in excuse'
         /\ First' = First /\ Last' = Last /\ OddFirst' = OddFirst /\ OddLast' = OddLast
         /\ Good' => Good /\ ret["A"]
         /\ Good' => "first" \notin excuse /\ "last" \notin excuse
<1>1. /\ at["A"] = "unlock" /\ lock' = None
      /\ excuse' = IF ret["A"] THEN excuse ELSE excuse \cup {phase["A"]}
      /\ UNCHANGED <<may, made, store, cycle, enabled, grant, ask, buf, before, seen>>
      /\ phase["A"] \in {"first", "last", "write", "sum", "sum_write"}
  BY DEF ReturnA
<1>2. /\ excuse' \subseteq excuse \cup (IF ret["A"] THEN {} ELSE {phase["A"]})
      /\ excuse \cap (Failures \cup Busy) \subseteq excuse'
      /\ "B_disturbed" \in excuse => "B_disturbed" \in excuse'
  BY <1>1
<1>3. excuse' \subseteq Failures \cup Busy \cup {"B_disturbed", "left_enabled"}
  BY <1>1 DEF Inv, Requests, Failures
<1>4. First' = First /\ Last' = Last /\ OddFirst' = OddFirst /\ OddLast' = OddLast
  BY <1>1 DEF First, Last, OddFirst, OddLast
<1>5. /\ Good' => Good /\ ret["A"]
      /\ Good' => "first" \notin excuse /\ "last" \notin excuse
  BY <1>1, <1>4 DEF Good, Failures
<1> QED
  BY <1>1, <1>2, <1>3, <1>4, <1>5

(* ... and the last word is read, ...                                        *)
LEMMA ReturnToLast ==
  ASSUME Inv, ReturnA, phase["A"] = "first", OddLast, ret["A"]
  PROVE  Called("A", "last", "read", Last, 1) /\ Requests' /\ Places' /\ Undisturbed' /\ Stage'
<1>1. Call("A", "last", "read", Last, 1)
  BY DEF ReturnA
<1>2. /\ Last \in Nat /\ Last + 1 <= Words /\ 1 \in Nat \ {0} /\ "A" \in Port
      /\ "read" \in {"read", "write"}
      /\ Progress /\ Requests
  BY AskWithin, Sizes DEF Inv
<1>3. "last" \in {"first", "last", "write", "sum", "sum_write"}
  OBVIOUS
<1>4. Called("A", "last", "read", Last, 1)
  BY <1>1, <1>2, <1>3, CallFacts
<1>5. Requests' /\ Places' /\ Undisturbed'
  BY <1>1, <1>2, ReturnAFacts, CallPlaces
<1>6. store = before /\ buf[First] = before[First]
  <2>1. at["A"] \in Leaving
    BY ReturnAFacts DEF Leaving
  <2> QED
    BY <2>1 DEF Inv, Stage
<1>7. Stage'
  BY <1>4, <1>6, ReturnAFacts, StageLastBegun
<1> QED
  BY <1>4, <1>5, <1>7

(* ... or the words are written, ...                                         *)
LEMMA ReturnToWrite ==
  ASSUME Inv, ReturnA, \/ phase["A"] = "first" /\ ~(OddLast /\ ret["A"])
                       \/ phase["A"] = "last"
  PROVE  /\ Called("A", "write", "write", First, Last - First + 1)
         /\ Requests' /\ Places' /\ Undisturbed' /\ Stage'
<1>1. Call("A", "write", "write", First, Last - First + 1)
  BY DEF ReturnA, CallWrite
<1>2. /\ First \in Nat /\ Last - First + 1 \in Nat \ {0} /\ First + (Last - First + 1) <= Words
      /\ "A" \in Port /\ "write" \in {"read", "write"} /\ Progress /\ Requests
  BY AskWithin, Sizes DEF Inv
<1>3. "write" \in {"first", "last", "write", "sum", "sum_write"}
  OBVIOUS
<1>4. Called("A", "write", "write", First, Last - First + 1)
  BY <1>1, <1>2, <1>3, CallFacts
<1>5. Requests' /\ Places' /\ Undisturbed'
  BY <1>1, <1>2, ReturnAFacts, CallPlaces
<1>6. store = before /\ (Good' => /\ OddFirst => buf[First] = before[First]
                                  /\ OddLast => buf[Last] = before[Last])
  <2>1. at["A"] \in Leaving
    BY ReturnAFacts DEF Leaving
  <2> QED
    BY <2>1, ReturnAFacts DEF Inv, Stage
<1>7. Stage'
  BY <1>4, <1>6, ReturnAFacts, StageWriteBegun
<1> QED
  BY <1>4, <1>5, <1>7

(* ... or the next word is added up, or the checksum is written, ...         *)
LEMMA ReturnToSum ==
  ASSUME Inv, ReturnA, NEW k \in Nat, k <= SumReg, First <= SumReg, CallSum("A", k, SumReg),
         phase["A"] \in {"write", "sum"},
         Good' => /\ \A w \in Word : store[w] = Target(w)
                  /\ sum'["A"] = SumBefore(store, k)
  PROVE  /\ \E what, kind, addr : Called("A", what, kind, addr, 1)
         /\ Requests' /\ Places' /\ Undisturbed' /\ Stage'
<1>1. /\ k + 1 <= Words /\ SumReg \in Nat /\ SumReg + 1 <= Words /\ 1 \in Nat \ {0}
      /\ "A" \in Port /\ "read" \in {"read", "write"} /\ "write" \in {"read", "write"}
      /\ Progress /\ Requests
  BY Sizes DEF Inv
<1>2. CASE k < SumReg
  <2>1. Call("A", "sum", "read", k, 1)
    BY <1>2 DEF CallSum
  <2>2. "sum" \in {"first", "last", "write", "sum", "sum_write"}
    OBVIOUS
  <2>3. Called("A", "sum", "read", k, 1)
    BY <1>1, <2>1, <2>2, CallFacts
  <2>4. Requests' /\ Places' /\ Undisturbed'
    BY <1>1, <2>1, ReturnAFacts, CallPlaces
  <2>5. Stage'
    BY <1>2, <2>3, ReturnAFacts, StageSumBegun
  <2> QED
    BY <2>3, <2>4, <2>5
<1>3. CASE ~(k < SumReg)
  <2>1. Call("A", "sum_write", "write", SumReg, 1)
    BY <1>3 DEF CallSum
  <2>2. "sum_write" \in {"first", "last", "write", "sum", "sum_write"}
    OBVIOUS
  <2>3. Called("A", "sum_write", "write", SumReg, 1)
    BY <1>1, <2>1, <2>2, CallFacts
  <2>4. Requests' /\ Places' /\ Undisturbed'
    BY <1>1, <2>1, ReturnAFacts, CallPlaces
  <2>5. Stage'
    BY <1>3, <2>3, ReturnAFacts, StageSumBegun
  <2> QED
    BY <2>3, <2>4, <2>5
<1> QED
  BY <1>2, <1>3

(* ... or set_eeprom is done.                                                *)
LEMMA ReturnToEnd ==
  ASSUME Inv, ReturnA, End("A"), ret' = ret,
         Good' => /\ \A w \in Word : (w = SumReg /\ First <= SumReg) \/ store[w] = Target(w)
                  /\ First <= SumReg => Total(store) = Sum
  PROVE  Ended("A") /\ Requests' /\ Places' /\ Undisturbed' /\ Stage'
<1>1. "A" \in Port
  OBVIOUS
<1>2. Ended("A") /\ Requests' /\ Places' /\ Undisturbed'
  BY <1>1, ReturnAFacts, EndPlaces
<1>3. Stage'
  <2>1. phase'["A"] = "idle"
    BY <1>2 DEF Ended
  <2> QED
    BY <2>1, ReturnAFacts, StageEnded
<1> QED
  BY <1>2, <1>3

(* When the write has come to its end the words are as asked for.            *)
LEMMA AllWritten ==
  ASSUME Inv, at["A"] = "unlock", phase["A"] = "write", ret["A"], Good
  PROVE  \A w \in Word : store[w] = Target(w)
<1>1. at["A"] \in Leaving
  BY DEF Leaving
<1>2. /\ call["A"].kind = "write" /\ call["A"].i = call["A"].n /\ call["A"].addr = First
      /\ call["A"].n = Last - First + 1
  BY <1>1 DEF Inv, Places, Place, Stage
<1>3. First \in Nat /\ Last \in Nat /\ First <= Last
  BY AskWithin DEF Inv
<1>4. WrittenTo - 1 = Last
  BY <1>2, <1>3 DEF WrittenTo
<1>5. ASSUME NEW w \in Word
      PROVE  store[w] = Target(w)
  <2>1. store[w] = IF w \in First..Last THEN Target(w) ELSE before[w]
    BY <1>4 DEF Inv, Stage
  <2>2. CASE w \notin First..Last
    <3>1. ~Asked(w, FALSE) /\ ~Asked(w, TRUE)
      <4>1. w \in Nat
        BY Sizes
      <4> QED
        BY <2>2, <4>1, AskFacts DEF Inv
    <3>2. before[w] = <<before[w][1], before[w][2]>>
      BY DEF Inv, Contents
    <3> QED
      BY <2>1, <2>2, <3>1, <3>2 DEF Target
  <2> QED
    BY <2>1, <2>2
<1> QED
  BY <1>5

(* Whatever comes next, the invariant holds.                                 *)
LEMMA ReturnAInv ==
  ASSUME Inv, ReturnA
  PROVE  Inv'
<1>0. /\ at["A"] = "unlock" /\ at["A"] \in Leaving /\ lock' = None
      /\ UNCHANGED <<may, made, store, cycle, enabled, grant, ask, buf, before, seen>>
      /\ phase["A"] \in {"first", "last", "write", "sum", "sum_write"}
      /\ "B_disturbed" \in excuse => "B_disturbed" \in excuse'
      /\ Good' => Good /\ ret["A"]
  BY ReturnAFacts DEF Leaving
<1>1. /\ (\E what, kind, addr, n : Called("A", what, kind, addr, n)) \/ (Ended("A") /\ ret' = ret)
      /\ Requests' /\ Places' /\ Undisturbed' /\ Stage' /\ sum' \in [Port -> 0..3]
      /\ sum'["B"] = sum["B"]
  <2>1. CASE phase["A"] = "first" /\ OddLast /\ ret["A"]
    BY <2>1, ReturnToLast DEF ReturnA, Inv, Progress
  <2>2. CASE (phase["A"] = "first" /\ ~(OddLast /\ ret["A"])) \/ phase["A"] = "last"
    BY <2>2, ReturnToWrite DEF ReturnA, Inv, Progress
  <2>3. CASE phase["A"] = "write"
    <3>1. sum' = [sum EXCEPT !["A"] = 0]
      BY <2>3 DEF ReturnA
    <3>2. sum' \in [Port -> 0..3] /\ sum'["B"] = sum["B"] /\ sum'["A"] = 0
      BY <3>1 DEF Inv, Progress
    <3>3. Good' => \A w \in Word : store[w] = Target(w)
      BY <1>0, <2>3, AllWritten
    <3>4. CASE ret["A"] /\ First <= SumReg
      <4>1. CallSum("A", 0, SumReg)
        BY <2>3, <3>4 DEF ReturnA
      <4>2. 0 \in Nat /\ 0 <= SumReg
        BY Sizes
      <4>3. SumBefore(store, 0) = 0
        BY DEF SumBefore
      <4> QED
        BY <2>3, <3>2, <3>3, <3>4, <4>1, <4>2, <4>3, ReturnToSum
    <3>5. CASE ~(ret["A"] /\ First <= SumReg)
      <4>1. End("A") /\ ret' = ret
        BY <2>3, <3>5 DEF ReturnA
      <4> QED
        BY <1>0, <3>2, <3>3, <3>5, <4>1, ReturnToEnd
    <3> QED
      BY <3>4, <3>5
  <2>4. CASE phase["A"] = "sum"
    <3>1. sum' = sum
      BY <2>4 DEF ReturnA
    <3>2. sum' \in [Port -> 0..3] /\ sum'["B"] = sum["B"] /\ sum'["A"] = sum["A"]
      BY <3>1 DEF Inv, Progress
    <3>3. CASE ret["A"]
      <4>1. CallSum("A", call["A"].addr + 1, SumReg)
        BY <2>4, <3>3 DEF ReturnA
      <4>2. call["A"].addr < SumReg /\ call["A"].addr \in Nat /\ First <= SumReg
        BY <2>4, Sizes DEF Inv, Stage, Requests, CallRecord
      <4>3. call["A"].addr + 1 \in Nat /\ call["A"].addr + 1 <= SumReg
        BY <4>2, Sizes
      <4>4. ReadTo("A") = call["A"].addr + 1
        BY <1>0, <3>3 DEF ReadTo
      <4>5. Good' => /\ \A w \in Word : store[w] = Target(w)
                     /\ sum'["A"] = SumBefore(store, call["A"].addr + 1)
        BY <1>0, <2>4, <3>2, <4>4 DEF Inv, Stage
      <4> QED
        BY <2>4, <3>2, <4>1, <4>2, <4>3, <4>5, ReturnToSum
    <3>4. CASE ~ret["A"]
      <4>1. End("A") /\ ret' = ret
        BY <2>4, <3>4 DEF ReturnA
      <4> QED
        BY <1>0, <3>2, <3>4, <4>1, ReturnToEnd
    <3> QED
      BY <3>3, <3>4
  <2>5. CASE phase["A"] = "sum_write"
    <3>1. End("A") /\ ret' = ret /\ sum' = sum
      BY <2>5 DEF ReturnA
    <3>2. sum' \in [Port -> 0..3] /\ sum'["B"] = sum["B"]
      BY <3>1 DEF Inv, Progress
    <3>3. ASSUME Good, ret["A"]
          PROVE  /\ \A w \in Word : (w = SumReg /\ First <= SumReg) \/ store[w] = Target(w)
                 /\ First <= SumReg => Total(store) = Sum
      <4>1. /\ call["A"].kind = "write" /\ call["A"].i = call["A"].n /\ call["A"].n = 1
            /\ call["A"].addr = SumReg /\ First <= SumReg
            /\ \A w \in Word \ {SumReg} : store[w] = Target(w)
            /\ sum["A"] = SumBefore(store, SumReg)
        BY <1>0, <2>5, <3>3 DEF Inv, Places, Place, Stage
      <4>2. WrittenTo > SumReg
        BY <1>0, <4>1, Sizes DEF WrittenTo
      <4>3. store[SumReg] = AsWord(4 + Sum - SumBefore(store, SumReg))
        BY <2>5, <3>3, <4>1, <4>2 DEF Inv, Stage
      <4>4. store \in Content
        BY DEF Inv, Contents
      <4>5. Total(store) = Sum
        BY <4>3, <4>4, ChecksumRight
      <4> QED
        BY <4>1, <4>5
    <3> QED
      BY <1>0, <3>1, <3>2, <3>3, ReturnToEnd
  <2> QED
    BY <1>0, <2>1, <2>2, <2>3, <2>4, <2>5
<1>2. /\ phase' \in [Port -> {"idle", "begin", "first", "last", "write", "sum", "sum_write"}]
      /\ at' \in [Port -> {"idle", "lock", "acquire", "ready", "command", "poll", "release",
                           "unlock"}]
      /\ ret' \in [Port -> BOOLEAN]
      /\ phase'["B"] = phase["B"] /\ call'["B"] = call["B"]
  BY <1>1 DEF Called, Ended, Inv, Progress
<1>3. Flags' /\ Contents'
  BY <1>0 DEF Inv, Flags, Contents
<1>4. Progress'
  BY <1>1, <1>2 DEF Progress
<1>5. Validating'
  <2>1. phase["A"] # "idle"
    BY <1>0
  <2> QED
    BY <1>0, <1>2, <2>1, ValidatingDisturbed DEF Inv
<1> QED
  BY <1>1, <1>3, <1>4, <1>5 DEF Inv

(* The other port's probe begins to check the checksum, ...                  *)
LEMMA ValidateInv ==
  ASSUME Inv, Validate
  PROVE  Inv'
<1>0. /\ phase["B"] = "idle" /\ made < Calls /\ made' = made + 1
      /\ Call("B", "sum", "read", 0, 1) /\ sum' = [sum EXCEPT !["B"] = 0] /\ seen' = None
      /\ excuse' = IF phase["A"] = "idle" /\ Total(store) = Sum
                   THEN excuse \ {"B_disturbed"} ELSE excuse \cup {"B_disturbed"}
      /\ UNCHANGED <<may, store, cycle, enabled, grant, lock, ask, buf, before>>
  BY DEF Validate
<1>1. /\ at["B"] = "idle" /\ 0 \in Nat /\ 1 \in Nat \ {0} /\ 0 + 1 <= Words /\ "B" \in Port
      /\ "read" \in {"read", "write"} /\ Progress /\ Requests
  BY <1>0, Sizes DEF Inv, Places, Place
<1>2. /\ excuse' \subseteq excuse \cup {"B_disturbed"} \cup (IF ret["B"] THEN {} ELSE {phase["B"]})
      /\ excuse' \subseteq Failures \cup Busy \cup {"B_disturbed", "left_enabled"}
      /\ excuse \cap (Failures \cup Busy) \subseteq excuse'
  BY <1>0 DEF Inv, Requests, Failures, Busy
<1>3. Called("B", "sum", "read", 0, 1)
  <2>1. "sum" \in {"first", "last", "write", "sum", "sum_write"}
    OBVIOUS
  <2> QED
    BY <1>0, <1>1, <2>1, CallFacts
<1>4. Requests' /\ Places' /\ Undisturbed'
  BY <1>0, <1>1, <1>2, CallPlaces
<1>5. Flags'
  <2>1. Calls \in Nat
    BY EepromAssumption
  <2>2. made' \in 0..Calls
    BY <1>0, <2>1 DEF Inv, Flags
  <2> QED
    BY <1>0, <2>2 DEF Inv, Flags
<1>6. Contents'
  BY <1>0 DEF Inv, Contents
<1>7. Progress'
  BY <1>0, <1>3 DEF Inv, Progress, Called
<1>8. Validating'
  <2>1. phase'["B"] = "sum" /\ call'["B"].addr = 0 /\ at'["B"] = "lock" /\ phase'["A"] = phase["A"]
    BY <1>3 DEF Called
  <2>2. ReadTo("B")' = 0 /\ sum'["B"] = 0
    BY <1>0, <2>1 DEF ReadTo, Leaving, Inv, Progress
  <2>3. Total(store)' = Total(store) /\ \A n : SumBefore(store, n)' = SumBefore(store, n)
    BY <1>0, SameSums
  <2>4. SumBefore(store, 0) = 0
    BY DEF SumBefore
  <2>5. "B_disturbed" \notin excuse' => phase["A"] = "idle" /\ Total(store) = Sum
    BY <1>0
  <2>6. seen' # "invalid" /\ 0 <= SumReg
    BY <1>0, Sizes
  <2> QED
    BY <2>1, <2>2, <2>3, <2>4, <2>5, <2>6 DEF Validating
<1>9. Stage'
  <2>1. /\ phase'["A"] = phase["A"] /\ at'["A"] = at["A"] /\ ret'["A"] = ret["A"]
        /\ call'["A"] = call["A"] /\ sum'["A"] = sum["A"]
    BY <1>0, <1>3 DEF Called, Inv, Progress
  <2>2. WrittenTo' = WrittenTo
    BY <2>1 DEF WrittenTo
  <2> QED
    BY <1>0, <1>2, <2>1, <2>2, StageKept DEF Inv
<1> QED
  BY <1>4, <1>5, <1>6, <1>7, <1>8, <1>9 DEF Inv

(* ... and goes on, or comes to a verdict.                                   *)
LEMMA ReturnBInv ==
  ASSUME Inv, ReturnB
  PROVE  Inv'
<1>0. /\ at["B"] = "unlock" /\ lock' = None
      /\ UNCHANGED <<may, made, store, cycle, enabled, grant, ask, buf, sum, before, excuse>>
  BY DEF ReturnB
<1>1. /\ phase["B"] = "sum" /\ "B" \in Port /\ at["B"] \in Leaving /\ Progress /\ Requests
      /\ call["B"].addr \in Nat /\ call["B"].addr \in Word /\ call["B"].addr <= SumReg
      /\ SumReg \in Nat
  <2>1. phase["B"] = "sum"
    BY <1>0 DEF Inv, Places, Place
  <2>2. call["B"].addr \in Word /\ Progress /\ Requests
    BY DEF Inv, Requests, CallRecord
  <2> QED
    BY <1>0, <2>1, <2>2, Sizes DEF Inv, Validating, Leaving
<1>2. /\ excuse' \subseteq excuse \cup {"B_disturbed"} \cup (IF ret["B"] THEN {} ELSE {phase["B"]})
      /\ excuse' \subseteq excuse \cup (IF ret["B"] THEN {} ELSE {phase["B"]})
      /\ excuse' \subseteq Failures \cup Busy \cup {"B_disturbed", "left_enabled"}
  BY <1>0 DEF Inv, Requests
<1>3. Total(store)' = Total(store) /\ \A n : SumBefore(store, n)' = SumBefore(store, n)
  BY <1>0, SameSums
<1>4. ret["B"] /\ "B_disturbed" \notin excuse =>
        /\ phase["A"] = "idle" /\ Total(store) = Sum
        /\ sum["B"] = SumBefore(store, call["B"].addr + 1)
  <2>1. ret["B"] => ReadTo("B") = call["B"].addr + 1
    BY <1>1 DEF ReadTo
  <2> QED
    BY <1>1, <2>1 DEF Inv, Validating
<1>5. /\ (\E what, kind, addr, n : Called("B", what, kind, addr, n)) \/ (Ended("B") /\ ret' = ret)
      /\ seen' \in {None, "error", "valid", "invalid"}
      /\ Requests' /\ Places' /\ Undisturbed' /\ Validating'
  <2>1. CASE ret["B"] /\ call["B"].addr < SumReg
    <3>1. Call("B", "sum", "read", call["B"].addr + 1, 1) /\ seen' = seen
      BY <2>1 DEF ReturnB
    <3>2. /\ call["B"].addr + 1 \in Nat /\ 1 \in Nat \ {0} /\ call["B"].addr + 1 + 1 <= Words
          /\ "read" \in {"read", "write"}
          /\ "sum" \in {"first", "last", "write", "sum", "sum_write"}
      BY <1>1, <2>1, Sizes
    <3>3. Called("B", "sum", "read", call["B"].addr + 1, 1)
      BY <1>1, <3>1, <3>2, CallFacts
    <3>4. Requests' /\ Places' /\ Undisturbed'
      BY <1>0, <1>1, <1>2, <3>1, <3>2, CallPlaces
    <3>5. /\ phase'["B"] = "sum" /\ call'["B"].addr = call["B"].addr + 1 /\ at'["B"] = "lock"
          /\ phase'["A"] = phase["A"]
      BY <3>3 DEF Called
    <3>6. ReadTo("B")' = call["B"].addr + 1
      BY <1>1, <3>5 DEF ReadTo, Leaving
    <3>7. call["B"].addr + 1 <= SumReg
      BY <1>1, <2>1
    <3>8. Validating'
      BY <1>0, <1>3, <1>4, <2>1, <3>1, <3>5, <3>6, <3>7 DEF Inv, Validating
    <3> QED
      BY <3>1, <3>3, <3>4, <3>8 DEF Inv, Flags
  <2>2. CASE ~(ret["B"] /\ call["B"].addr < SumReg)
    <3>1. /\ End("B") /\ ret' = ret
          /\ seen' = IF ~ret["B"] THEN "error" ELSE IF sum["B"] = Sum THEN "valid" ELSE "invalid"
      BY <2>2 DEF ReturnB
    <3>2. seen' \in {seen, "valid", "invalid"} \cup (IF ret["B"] THEN {} ELSE {"error"})
      BY <3>1
    <3>3. Ended("B") /\ Requests' /\ Places' /\ Undisturbed'
      BY <1>0, <1>1, <1>2, <3>1, <3>2, EndPlaces
    <3>4. ret["B"] /\ "B_disturbed" \notin excuse => sum["B"] = Sum
      <4>1. ret["B"] => call["B"].addr = SumReg
        BY <1>1, <2>2
      <4>2. Total(store) = SumBefore(store, SumReg + 1)
        BY <1>1 DEF Total, SumBefore
      <4> QED
        BY <1>4, <4>1, <4>2
    <3>5. Validating'
      BY <1>0, <3>1, <3>3, <3>4 DEF Ended, Validating
    <3> QED
      BY <3>1, <3>3, <3>5
  <2> QED
    BY <2>1, <2>2
<1>6. /\ phase' \in [Port -> {"idle", "begin", "first", "last", "write", "sum", "sum_write"}]
      /\ at' \in [Port -> {"idle", "lock", "acquire", "ready", "command", "poll", "release",
                           "unlock"}]
      /\ ret' \in [Port -> BOOLEAN]
      /\ phase'["A"] = phase["A"] /\ call'["A"] = call["A"] /\ at'["A"] = at["A"]
      /\ ret'["A"] = ret["A"]
  BY <1>5 DEF Called, Ended, Inv, Progress
<1>7. Flags' /\ Contents'
  BY <1>0, <1>5 DEF Inv, Flags, Contents
<1>8. Progress'
  BY <1>0, <1>6 DEF Inv, Progress
<1>9. Stage'
  <2>1. WrittenTo' = WrittenTo
    BY <1>6 DEF WrittenTo
  <2> QED
    BY <1>0, <1>6, <2>1, StageKept DEF Inv
<1> QED
  BY <1>5, <1>7, <1>8, <1>9 DEF Inv

-----------------------------------------------------------------------------
(* The sums of an EEPROM of words of the value 3.                            *)
LEMMA SumsOfThrees ==
  ASSUME NEW st \in Content, NEW k \in Nat, k <= Words, \A w \in 0..(k - 1) : Value(st[w]) = 3
  PROVE  SumBefore(st, k) = (3 * k) % 4
<1> DEFINE Bad == {n \in 0..k : SumBefore(st, n) # (3 * n) % 4}
<1>1. Bad = {}
  <2> SUFFICES ASSUME Bad # {}
               PROVE  FALSE
    OBVIOUS
  <2>1. PICK n \in Bad : \A m \in Bad : n <= m
    <3>1. Bad \subseteq Nat
      OBVIOUS
    <3> QED
      BY <3>1, LeastElement
  <2>2. n # 0
    BY <2>1 DEF SumBefore
  <2>3. n - 1 \in Nat /\ n - 1 \in 0..k /\ n - 1 \in 0..(k - 1) /\ n - 1 \in Word /\ ~(n <= n - 1)
    BY <2>1, <2>2, Sizes
  <2>4. SumBefore(st, n - 1) = (3 * (n - 1)) % 4
    BY <2>1, <2>3
  <2>5. SumBefore(st, n - 1 + 1) = (SumBefore(st, n - 1) + Value(st[n - 1])) % 4
    BY <2>3, SumBeforeNext
  <2>6. Value(st[n - 1]) = 3
    BY <2>3
  <2>7. n \in Nat /\ n - 1 + 1 = n
    BY <2>1
  <2>8. (((3 * (n - 1)) % 4) + 3) % 4 = (3 * n) % 4
    BY <2>3, <2>7
  <2> HIDE DEF Bad
  <2>9. SumBefore(st, n) = (3 * n) % 4
    BY <2>4, <2>5, <2>6, <2>7, <2>8
  <2> QED
    BY <2>1, <2>9 DEF Bad
<1> QED
  BY <1>1

(* The EEPROM that the run begins with has a right checksum.                 *)
LEMMA InitTotal ==
  ASSUME Init
  PROVE  store \in Content /\ Total(store) = Sum
<1>1. SumReg \in Nat /\ SumReg \in Word /\ SumReg <= Words /\ Sum + SumReg \in Nat
  BY Sizes DEF Sum
<1>2. AsWord(Sum + SumReg) \in Byte \X Byte /\ Value(AsWord(Sum + SumReg)) = (Sum + SumReg) % 4
  BY <1>1, AsWordType
<1>3. store = [w \in Word |-> IF w = SumReg THEN AsWord(Sum + SumReg) ELSE <<1, 1>>]
  BY DEF Init
<1>4. store \in Content
  BY <1>2, <1>3
<1>5. \A w \in 0..(SumReg - 1) : Value(store[w]) = 3
  BY <1>1, <1>3, Sizes DEF Value
<1>6. SumBefore(store, SumReg) = (3 * SumReg) % 4
  <2> HIDE DEF Content
  <2> QED
    BY <1>1, <1>4, <1>5, SumsOfThrees
<1>7. SumBefore(store, SumReg + 1) = (SumBefore(store, SumReg) + Value(store[SumReg])) % 4
  <2> HIDE DEF Content
  <2> QED
    BY <1>1, <1>4, SumBeforeNext
<1>8. Value(store[SumReg]) = (3 + SumReg) % 4
  BY <1>1, <1>2, <1>3 DEF Sum
<1>9. Total(store) = SumBefore(store, SumReg + 1)
  BY <1>1 DEF Total, SumBefore
<1>10. (((3 * SumReg) % 4) + ((3 + SumReg) % 4)) % 4 = 3
  BY <1>1
<1> QED
  BY <1>4, <1>6, <1>7, <1>8, <1>9, <1>10 DEF Sum

(* The invariant holds at the start.                                         *)
LEMMA InvInit ==
  ASSUME Init
  PROVE  Inv
<1>0. store \in Content /\ Total(store) = Sum
  BY InitTotal
<1>1. /\ may \in Cases /\ made = 0 /\ cycle = FALSE /\ enabled = FALSE
      /\ grant = None /\ lock = None
      /\ phase = [q \in Port |-> "idle"] /\ at = [q \in Port |-> "idle"]
      /\ call = [q \in Port |-> NoCall] /\ ret = [q \in Port |-> TRUE]
      /\ ask = [off |-> 0, len |-> 1, b |-> 1] /\ buf = [w \in Word |-> <<0, 0>>]
      /\ sum = [q \in Port |-> 0] /\ before = store /\ excuse = {} /\ seen = None
  BY DEF Init
<1>2. made \in 0..Calls
  <2>1. Calls \in Nat
    BY EepromAssumption
  <2> QED
    BY <1>1, <2>1
<1>3. Flags
  BY <1>1, <1>2 DEF Flags
<1>4. Contents
  BY <1>0, <1>1 DEF Contents
<1>5. Progress
  BY <1>1 DEF Progress
<1>6. Requests
  <2>1. NoCall \in CallRecord /\ NoCall.i <= NoCall.n /\ NoCall.addr + NoCall.n <= Words
    BY Sizes DEF NoCall, CallRecord
  <2>2. ask \in Request /\ ask.off + ask.len <= 2 * Words
    BY <1>1, Sizes DEF Request
  <2> QED
    BY <1>1, <2>1, <2>2 DEF Requests
<1>7. Places
  <2>1. \A q \in Port : Place(q)
    BY <1>1 DEF Place, Entering, Leaving
  <2>2. \A q \in Port : Holds(q)
    BY <1>1 DEF Holds, Locked, Granted
  <2> QED
    BY <1>1, <2>1, <2>2 DEF Places
<1>8. Undisturbed
  BY <1>1 DEF Undisturbed, NoBusyAccess
<1>9. Validating
  BY <1>1 DEF Validating
<1>10. Stage
  <2>1. First = 0 /\ First <= SumReg
    BY <1>1, Sizes DEF First
  <2>2. ASSUME NEW w \in Word
        PROVE  store[w] = Target(w) \/ w = SumReg
    <3>1. w \in Nat
      BY Sizes
    <3>2. CASE w = 0 /\ w # SumReg
      <4>1. Asked(w, FALSE) /\ ~Asked(w, TRUE)
        BY <1>1, <3>2 DEF Asked
      <4>2. store[w] = <<1, 1>>
        BY <3>2 DEF Init
      <4> QED
        BY <1>1, <4>1, <4>2 DEF Target
    <3>3. CASE w # 0
      <4>1. ~Asked(w, FALSE) /\ ~Asked(w, TRUE)
        BY <1>1, <3>1, <3>3 DEF Asked
      <4>2. store[w] = <<store[w][1], store[w][2]>>
        BY <1>0
      <4> QED
        BY <1>1, <4>1, <4>2 DEF Target
    <3> QED
      BY <3>2, <3>3
  <2>3. Kept
    BY <1>0, <2>1, <2>2 DEF Kept, Target
  <2> QED
    BY <1>1, <2>3 DEF Stage
<1> QED
  BY <1>3, <1>4, <1>5, <1>6, <1>7, <1>8, <1>9, <1>10 DEF Inv

(* A step that changes nothing keeps it.                                     *)
LEMMA StutterInv ==
  ASSUME Inv, UNCHANGED vars
  PROVE  Inv'
<1> USE DEF Inv
<1>0. /\ UNCHANGED <<may, store, cycle, enabled, grant, lock, made, phase, at, call, ret>>
      /\ UNCHANGED <<ask, buf, sum, before, excuse, seen>>
  BY DEF vars
<1>1. Flags' /\ Contents' /\ Progress' /\ Requests'
  BY <1>0 DEF Flags, Contents, Progress, Requests, Failures, Busy
<1>2. Places'
  BY <1>0 DEF Places, Place, Holds, Spi
<1>3. Undisturbed'
  BY <1>0 DEF Undisturbed, NoBusyAccess, Failures, Busy, Spi
<1>4. Validating'
  BY <1>0, ValidatingKept
<1>5. Stage'
  <2>1. WrittenTo' = WrittenTo
    BY <1>0 DEF WrittenTo
  <2> QED
    BY <1>0, <2>1, StageKept
<1> QED
  BY <1>1, <1>2, <1>3, <1>4, <1>5

(* The invariant holds always.                                               *)
THEOREM InvInvariant == Spec => []Inv
<1>1. Init => Inv
  BY InvInit
<1>2. ASSUME Inv, [Next]_vars
      PROVE  Inv'
  <2> HIDE DEF Port
  <2>1. CASE CycleEnds
    BY <1>2, <2>1, CycleEndsInv
  <2>2. CASE Firmware
    BY <1>2, <2>2, FirmwareInv
  <2>3. ASSUME NEW p \in Port, Step(p)
        PROVE  Inv'
    BY <1>2, <2>3, LockInv, AcquireInv, AcquireFailsInv, ReadyInv, NotReadyInv, ReadInv,
       WriteSpiInv, WriteMicrowireInv, PollMicrowireInv, ReleaseInv DEF Step
  <2>4. CASE SetEeprom
    BY <1>2, <2>4, SetEepromInv
  <2>5. CASE Begin
    BY <1>2, <2>5, BeginInv
  <2>6. CASE ReturnA
    BY <1>2, <2>6, ReturnAInv
  <2>7. CASE Validate
    BY <1>2, <2>7, ValidateInv
  <2>8. CASE ReturnB
    BY <1>2, <2>8, ReturnBInv
  <2>9. CASE UNCHANGED vars
    BY <1>2, <2>9, StutterInv
  <2> QED
    BY <1>2, <2>1, <2>2, <2>3, <2>4, <2>5, <2>6, <2>7, <2>8, <2>9 DEF Next
<1> QED
  BY <1>1, <1>2, PTL DEF Spec

-----------------------------------------------------------------------------
(* e1000_set_eeprom writes the bytes that it is asked to, none of the        *)
(* others, and gets the checksum right, unless one of its calls fails or a   *)
(* small SPI EEPROM is written across its halves; wherever the bytes begin   *)
(* and end, and however the words lie in the pages.                          *)
THEOREM SetEepromKeeps == Spec => []Kept
<1>1. Inv => Kept
  BY DEF Inv, Stage
<1> QED
  BY <1>1, InvInvariant, PTL

(* A port that has left the EEPROM code has neither the grant nor the lock,  *)
(* and no call reaches past the EEPROM.                                      *)
THEOREM PortsRelease == Spec => []Released
<1>1. ASSUME Inv
      PROVE  Released
  <2>1. \A p \in Port : /\ call[p].addr \in Word /\ call[p].i \in 0..call[p].n
                        /\ call[p].addr + call[p].n <= Words
    BY <1>1 DEF Inv, Requests, CallRecord
  <2>2. TypeOK
    BY <1>1, <2>1 DEF Inv, Flags, Contents, Progress, Requests, TypeOK
  <2>3. \A p \in Port : at[p] = "idle" => grant # p /\ lock # p
    BY <1>1 DEF Inv, Places, Holds, Locked, Granted
  <2> QED
    BY <2>2, <2>3 DEF Released
<1> QED
  BY <1>1, InvInvariant, PTL

(* No command is given to an EEPROM in a write cycle, by either port, unless *)
(* a Microwire write has outlasted the polls for its end.                    *)
THEOREM NoAccessWhileBusy == Spec => []NoBusyAccess
<1>1. Inv => NoBusyAccess
  BY DEF Inv, Undisturbed
<1> QED
  BY <1>1, InvInvariant, PTL

(* The calls of the ports do not fail on each other, and a probe that no     *)
(* write overlaps finds the checksum valid.                                  *)
THEOREM NoCollision == Spec => []PortsDoNotCollide
<1>1. Inv => PortsDoNotCollide
  BY DEF Inv, Undisturbed, Validating, PortsDoNotCollide
<1> QED
  BY <1>1, InvInvariant, PTL
====
