---------------------------- MODULE E1000PhyProof ----------------------------
(***************************************************************************)
(* Theorems about E1000Phy, for every number of errors and every set of     *)
(* cases: accesses reach the register that was asked for, the transmitter   *)
(* is on again after each job, and the PHY is identified.                   *)
(*                                                                         *)
(* The argument.  A thread selects the page of its register, and only then  *)
(* gives the command: in between, while it is not overlapped, the command   *)
(* in MDIC is its own and the page is the one it selected, also when an     *)
(* earlier command times out and is carried out late (Mdic, Right).  What a *)
(* job has still to do is a sequence of accesses; each takes the job from   *)
(* one phase to another, as it saves, switches off and restores the         *)
(* transmitter or reads half of the PHY's identification (Move), and what   *)
(* is left always ends with the transmitter on (Runs, InPhase).  So it is   *)
(* enough to know that each job's sequence does so when it starts           *)
(* (JobsRun).                                                               *)
(***************************************************************************)
EXTENDS E1000Phy, TLAPS

Page  == {"0", "1160", "2F40"}
Value == {"on", "off", "junk", "other"}
Chips == {"m88", "igp"}
Jobs  == {"link", "info", "stats", "ioctl", "dump", "reset"}

(* The accesses that the driver makes, and where a job may make them.        *)
Plain ==
  {Read(Low("control")), Read(Low("status")), Read(Low("1000T_status")), Read(PortStatus)}
    \cup {Write(Low("control"), "force"), Write(Low("control"), "restart"),
          Write(Low("control"), "reset"), Write(Low("control"), "value")}
Paged == {Read(Agc), Read(High("0", "12")), Write(Agc, "script"), Write(Agc, "agc")}
Dsps  == {SetDsp("enabled"), SetDsp("activated")}
Turns == {Read(Transmitter), Write(Transmitter, "off"), Write(Transmitter, "saved")}
Ids   == {Read(Low("id1")), Read(Low("id2"))}
Pages == {Write(Select, "1160"), Write(Select, "0")}

Allowed(j, chip, known) ==
  {a \in Plain \cup Paged \cup Dsps \cup Turns \cup Ids \cup Pages \cup {Reset} :
     /\ a \in Paged \cup Dsps \cup Turns => chip = "igp"
     /\ a \in Ids \cup {Reset} => j = "reset"
     /\ a \in Pages => known = "igp"}

(* A job is in one of four phases: the transmitter is on, it is on and its   *)
(* state saved, it is off and the saved state to be restored, and half of    *)
(* the PHY's identification was read.                                        *)
Phase == {"on", "read", "off", "id"}

Move(p, a, q) ==
  \/ a = Read(Transmitter) /\ p = "on" /\ q = "read"
  \/ a = Write(Transmitter, "off") /\ p = "read" /\ q = "off"
  \/ a = Write(Transmitter, "saved") /\ p = "off" /\ q = "on"
  \/ a = Read(Low("id1")) /\ p = "on" /\ q = "id"
  \/ a = Read(Low("id2")) /\ p = "id" /\ q = "on"
  \/ a \notin Turns \cup Ids /\ q = p /\ p \in {"on", "off"}

(* The accesses of s are allowed, and lead from one phase to another.        *)
Leads(f, s, p, q) ==
  /\ f[1] = p /\ f[Len(s) + 1] = q
  /\ \A i \in 1 .. Len(s) : Move(f[i], s[i], f[i + 1])
Runs(A, s, p, q) ==
  /\ s \in Seq(A)
  /\ \E f \in [1 .. Len(s) + 1 -> Phase] : Leads(f, s, p, q)

Goes(t, p) == Runs(Allowed(job[t], Chip, type), todo[t], p, "on")

-----------------------------------------------------------------------------
Busy(t) == at[t] \in {"select", "selecting", "command", "accessing"}
Waits(t) == at[t] \in {"selecting", "accessing"}
First(t) == Head(todo[t])
Alone == "two_threads" \notin may

(* Where a thread may stand, and which jobs exclude each other.              *)
Placed(t) ==
  /\ at[t] = None <=> job[t] = None
  /\ Busy(t) => todo[t] # <<>> /\ First(t).op \in {"read", "write"}
  /\ at[t] \in {"select", "selecting"} => type = "igp" /\ First(t).reg.page \in Page
  /\ (Busy(t) /\ First(t) = Detection[1]) => id = None
  /\ job[t] \in Locked => lock = t
  /\ \A u \in Thread \ {t} : job[t] # None /\ job[u] # None => job[t] # "reset" /\ ~Alone

Known ==
  /\ todo = [t \in Thread |-> todo[t]]
  /\ type \in {"m88", Chip}
  /\ id = "whole" => type = Chip
  /\ found /\ errors = 0 => id = "whole"
  /\ Alone => ~overlap

(* The command that is in MDIC, and what its answer may be.                  *)
Mdic ==
  /\ mdic = [op |-> mdic.op, n |-> mdic.n, val |-> mdic.val, ready |-> mdic.ready, got |-> mdic.got]
  /\ mdic.op = "write" /\ mdic.n = "1F" => mdic.val \in Page /\ type = "igp"
  /\ mdic.op = "write" /\ mdic.n = "1B" => mdic.val \in Value
  /\ mdic.ready /\ mdic.op # None => mdic.got.val \in Value
  /\ (\E t \in Thread : Waits(t)) => mdic.op # None
  /\ type # "igp" => page = "0" /\ tx = "on"
  /\ (Alone /\ errors = 0 /\ ~mdic.ready) => \E t \in Thread : Waits(t)

(* A thread that nobody has interrupted finds its page selected, and its     *)
(* command in MDIC.                                                          *)
OnPage(t) == type = "igp" /\ First(t).reg.page # None => page = First(t).reg.page
Right(t) ==
  (type = Chip /\ ~overlap) =>
    /\ at[t] = "selecting" =>
         /\ mdic.op = "write" /\ mdic.n = "1F" /\ mdic.val = First(t).reg.page
         /\ mdic.ready => page = First(t).reg.page
    /\ at[t] = "command" => OnPage(t)
    /\ (at[t] = "command" /\ type = "igp" /\ First(t).reg.page # None) => mdic.ready
    /\ at[t] = "accessing" =>
         /\ mdic.op = First(t).op /\ mdic.n = First(t).reg.n
         /\ ~mdic.ready => OnPage(t)
         /\ mdic.ready => mdic.got.reg = First(t).reg /\ mdic.got.op = First(t).op

(* The transmitter and what was saved of it, in each phase.                  *)
Calm == Alone /\ errors = 0 /\ type = "igp"
Phased(t, p) ==
  /\ p # "on" => job[t] # None
  /\ p \in {"read", "off"} => saved[t] # None
  /\ p = "id" => job[t] = "reset"
  /\ (Calm /\ job[t] # None) =>
       /\ p \in {"on", "id"} => tx = "on"
       /\ p \in {"read", "off"} => saved[t] = "on"
       /\ (at[t] = "accessing" /\ mdic.ready /\ First(t) = Read(Transmitter)) => mdic.got.val = "on"
       /\ (at[t] = "accessing" /\ First(t) = Write(Transmitter, "saved")) =>
            mdic.val = "on" /\ (mdic.ready => tx = "on")
  /\ (errors = 0 /\ id = "high" /\ job[t] = "reset") => p = "id"

InPhase(t) == \E p \in Phase : Goes(t, p) /\ Phased(t, p)
Quiet ==
  /\ (Calm /\ \A t \in Thread : job[t] = None) => tx = "on"
  /\ errors = 0 /\ id = "high" => \E t \in Thread : job[t] = "reset"

Inv ==
  /\ TypeOK /\ Known /\ Mdic /\ Quiet
  /\ \A t \in Thread : Placed(t) /\ Right(t) /\ InPhase(t)
  /\ ~overlap => ~wrong

-----------------------------------------------------------------------------
(* Sequences of accesses.                                                    *)

LEMMA BothLong ==
  ASSUME NEW A, NEW s \in Seq(A), NEW r \in Seq(A)
  PROVE  s \o r \in Seq(A) /\ Len(s \o r) = Len(s) + Len(r) /\ Len(s) \in Nat /\ Len(r) \in Nat
  OBVIOUS

LEMMA RunsEmpty ==
  ASSUME NEW A, NEW p \in Phase
  PROVE  Runs(A, <<>>, p, p)
<1> DEFINE f == [i \in 1 .. 1 |-> p]
<1>1. f \in [1 .. Len(<<>>) + 1 -> Phase] /\ Leads(f, <<>>, p, p)
  BY DEF Leads
<1>2. QED
  BY <1>1 DEF Runs

LEMMA RunsOne ==
  ASSUME NEW A, NEW a \in A, NEW p \in Phase, NEW q \in Phase, Move(p, a, q)
  PROVE  Runs(A, <<a>>, p, q)
<1> DEFINE f == [i \in 1 .. 2 |-> IF i = 1 THEN p ELSE q]
<1>1. <<a>> \in Seq(A) /\ Len(<<a>>) = 1 /\ <<a>>[1] = a
  OBVIOUS
<1>2. f \in [1 .. 2 -> Phase] /\ f[1] = p /\ f[2] = q
  OBVIOUS
<1>3. Leads(f, <<a>>, p, q)
  <2>1. ASSUME NEW i \in 1 .. 1
        PROVE  Move(f[i], <<a>>[i], f[i + 1])
    BY <1>1, <1>2
  <2>2. QED
    BY <1>1, <1>2, <2>1 DEF Leads
<1>4. QED
  BY <1>1, <1>2, <1>3 DEF Runs

LEMMA RunsBoth ==
  ASSUME NEW A, NEW s, NEW r, NEW p, NEW q, NEW o, Runs(A, s, p, q), Runs(A, r, q, o)
  PROVE  Runs(A, s \o r, p, o) /\ Len(s \o r) = Len(s) + Len(r)
<1>1. s \in Seq(A) /\ r \in Seq(A)
  BY DEF Runs
<1>2. PICK f \in [1 .. Len(s) + 1 -> Phase] : Leads(f, s, p, q)
  BY DEF Runs
<1>3. PICK g \in [1 .. Len(r) + 1 -> Phase] : Leads(g, r, q, o)
  BY DEF Runs
<1> DEFINE m == Len(s)
           n == Len(r)
           c == s \o r
           h == [i \in 1 .. m + n + 1 |-> IF i <= m THEN f[i] ELSE g[i - m]]
<1>4. m \in Nat /\ n \in Nat /\ c \in Seq(A) /\ Len(c) = m + n
  BY <1>1
<1>5. h \in [1 .. Len(c) + 1 -> Phase]
  BY <1>4
<1>6. \A i \in 1 .. m + n : c[i] = IF i <= m THEN s[i] ELSE r[i - m]
  BY <1>1, <1>4
<1> HIDE DEF m, n, c
<1>7. h[1] = p /\ h[Len(c) + 1] = o
  BY <1>2, <1>3, <1>4 DEF Leads, m, n
<1>8. ASSUME NEW i \in 1 .. m + n
      PROVE  Move(h[i], c[i], h[i + 1])
  <2>1. CASE i < m
    BY <1>2, <1>4, <1>6, <2>1 DEF Leads, m
  <2>2. CASE i = m
    BY <1>2, <1>3, <1>4, <1>6, <2>2 DEF Leads, m, n
  <2>3. CASE i > m
    <3>1. i - m \in 1 .. n /\ h[i] = g[i - m] /\ h[i + 1] = g[(i - m) + 1] /\ c[i] = r[i - m]
      BY <1>4, <1>6, <2>3
    <3>2. QED
      BY <1>3, <3>1 DEF Leads, n
  <2>4. QED
    BY <1>4, <2>1, <2>2, <2>3
<1>9. QED
  BY <1>4, <1>5, <1>7, <1>8 DEF Runs, Leads, c, m, n

(* What is left of a job after its first access.                             *)
LEMMA RunsTail ==
  ASSUME NEW A, NEW s, NEW p, NEW q, Runs(A, s, p, q), s # <<>>
  PROVE  /\ Head(s) \in A
         /\ \E r \in Phase : Move(p, Head(s), r) /\ Runs(A, Tail(s), r, q)
<1>1. s \in Seq(A) /\ Len(s) \in Nat \ {0} /\ Head(s) = s[1] /\ Head(s) \in A
  BY DEF Runs
<1>2. PICK f \in [1 .. Len(s) + 1 -> Phase] : Leads(f, s, p, q)
  BY DEF Runs
<1> DEFINE r == Tail(s)
           g == [i \in 1 .. Len(s) |-> f[i + 1]]
<1>3. r \in Seq(A) /\ Len(r) = Len(s) - 1 /\ \A i \in 1 .. Len(s) - 1 : r[i] = s[i + 1]
  BY <1>1
<1>4. g \in [1 .. Len(r) + 1 -> Phase] /\ f[2] \in Phase
  BY <1>1, <1>3
<1>5. Leads(g, r, f[2], q)
  <2>1. ASSUME NEW i \in 1 .. Len(r)
        PROVE  Move(g[i], r[i], g[i + 1])
    <3>1. i + 1 \in 1 .. Len(s) /\ g[i] = f[i + 1] /\ g[i + 1] = f[(i + 1) + 1]
          /\ r[i] = s[i + 1]
      BY <1>1, <1>3
    <3>2. QED
      BY <1>2, <3>1 DEF Leads
  <2>2. g[1] = f[2] /\ g[Len(r) + 1] = q
    BY <1>1, <1>2, <1>3 DEF Leads
  <2>3. QED
    BY <2>1, <2>2 DEF Leads
<1>6. Move(p, Head(s), f[2])
  BY <1>1, <1>2 DEF Leads
<1>7. QED
  BY <1>1, <1>3, <1>4, <1>5, <1>6 DEF Runs

LEMMA RunsAllowed ==
  ASSUME NEW A, NEW B, A \subseteq B, NEW s, NEW p, NEW q, Runs(A, s, p, q)
  PROVE  Runs(B, s, p, q)
  BY DEF Runs

LEMMA RunsNothing ==
  ASSUME NEW A, NEW p, NEW q, Runs(A, <<>>, p, q)
  PROVE  p = q
  BY DEF Runs, Leads

-----------------------------------------------------------------------------
(* The accesses.                                                             *)
Fits(a, j, chip, known) ==
  /\ a.op \in {"read", "write", "reset", "set_dsp"}
  /\ a.op = "reset" => a = Reset /\ j = "reset"
  /\ a.op = "set_dsp" => a # Reset /\ a.val \in {"enabled", "activated"}
  /\ a.op \in {"read", "write"} =>
       /\ a.reg = [page |-> a.reg.page, n |-> a.reg.n]
       /\ a.reg.page = None <=> a.reg.n \notin {"1F", "1B", "12", "11"}
       /\ a.reg.page \in Page \cup {None}
       /\ a.reg.n = "1F" => a.reg = Select /\ known = "igp" /\ a.val \in Page
       /\ chip # "igp" /\ known # "igp" => a.reg.page \in {None, "0"}
       /\ a.reg.n = "1B" => a.reg = Transmitter
       /\ a.op = "write" /\ a.reg.n = "1B" => a.val \in {"off", "saved"}
  /\ a \in Ids => j = "reset"

LEMMA Accessed ==
  ASSUME NEW j, NEW chip, NEW known, NEW a \in Allowed(j, chip, known)
  PROVE  Fits(a, j, chip, known)
  BY DEF Fits, Allowed, Plain, Paged, Dsps, Turns, Ids, Pages, Reset, SetDsp, Read, Write, Act,
     Low, High, Agc, Transmitter, PortStatus, Select, Page, None

LEMMA Writes ==
  ASSUME NEW j, NEW chip, NEW known, NEW a \in Allowed(j, chip, known)
  PROVE  /\ a.op \in {"read", "write"} /\ a.val = "saved" => a = Write(Transmitter, "saved")
         /\ a.op = "write" /\ a.reg.n = "1B" => a \in Turns /\ a # Read(Transmitter)
  BY DEF Allowed, Plain, Paged, Dsps, Turns, Ids, Pages, Reset, SetDsp, Read, Write, Act, Low, High,
     Agc, Transmitter, PortStatus, Select, Page, None

-----------------------------------------------------------------------------
(* The jobs leave the transmitter as they found it.                          *)

LEMMA RunsTwo ==
  ASSUME NEW A, NEW a \in A, NEW b \in A,
         NEW p \in Phase, NEW q \in Phase, NEW r \in Phase,
         Move(p, a, q), Move(q, b, r)
  PROVE  Runs(A, <<a, b>>, p, r)
<1> DEFINE s == <<a, b>>
           f == [i \in 1 .. 3 |-> IF i = 1 THEN p ELSE IF i = 2 THEN q ELSE r]
<1>1. s \in Seq(A) /\ Len(s) = 2 /\ s[1] = a /\ s[2] = b
  OBVIOUS
<1>2. f \in [1 .. 3 -> Phase] /\ f[1] = p /\ f[2] = q /\ f[3] = r
  OBVIOUS
<1> HIDE DEF s, f
<1>3. \A i \in 1 .. 2 : Move(f[i], s[i], f[i + 1])
  <2>1. Move(f[1], s[1], f[1 + 1])
    BY <1>1, <1>2
  <2>2. Move(f[2], s[2], f[2 + 1])
    BY <1>1, <1>2
  <2>3. QED
    BY <2>1, <2>2
<1>4. Leads(f, s, p, r)
  BY <1>1, <1>2, <1>3 DEF Leads
<1>5. QED
  BY <1>1, <1>2, <1>4 DEF Runs, s

LEMMA RunsThree ==
  ASSUME NEW A, NEW a \in A, NEW b \in A, NEW c \in A,
         NEW p \in Phase, NEW q \in Phase, NEW r \in Phase, NEW o \in Phase,
         Move(p, a, q), Move(q, b, r), Move(r, c, o)
  PROVE  Runs(A, <<a, b, c>>, p, o)
<1> DEFINE s == <<a, b, c>>
           f == [i \in 1 .. 4 |-> IF i = 1 THEN p ELSE IF i = 2 THEN q ELSE IF i = 3 THEN r ELSE o]
<1>1. s \in Seq(A) /\ Len(s) = 3 /\ s[1] = a /\ s[2] = b /\ s[3] = c
  OBVIOUS
<1>2. f \in [1 .. 4 -> Phase] /\ f[1] = p /\ f[2] = q /\ f[3] = r /\ f[4] = o
  OBVIOUS
<1> HIDE DEF s, f
<1>3. \A i \in 1 .. 3 : Move(f[i], s[i], f[i + 1])
  <2>1. Move(f[1], s[1], f[1 + 1])
    BY <1>1, <1>2
  <2>2. Move(f[2], s[2], f[2 + 1])
    BY <1>1, <1>2
  <2>3. Move(f[3], s[3], f[3 + 1])
    BY <1>1, <1>2
  <2>4. QED
    BY <2>1, <2>2, <2>3
<1>4. Leads(f, s, p, o)
  BY <1>1, <1>2, <1>3 DEF Leads
<1>5. QED
  BY <1>1, <1>2, <1>4 DEF Runs, s

LEMMA RunsFour ==
  ASSUME NEW A, NEW a \in A, NEW b \in A, NEW c \in A, NEW d \in A,
         NEW p \in Phase, NEW q \in Phase, NEW r \in Phase, NEW o \in Phase, NEW m \in Phase,
         Move(p, a, q), Move(q, b, r), Move(r, c, o), Move(o, d, m)
  PROVE  Runs(A, <<a, b, c, d>>, p, m)
<1> DEFINE s == <<a, b, c, d>>
           f == [i \in 1 .. 5 |-> IF i = 1 THEN p ELSE IF i = 2 THEN q ELSE IF i = 3 THEN r ELSE IF i = 4 THEN o ELSE m]
<1>1. s \in Seq(A) /\ Len(s) = 4 /\ s[1] = a /\ s[2] = b /\ s[3] = c /\ s[4] = d
  OBVIOUS
<1>2. f \in [1 .. 5 -> Phase] /\ f[1] = p /\ f[2] = q /\ f[3] = r /\ f[4] = o /\ f[5] = m
  OBVIOUS
<1> HIDE DEF s, f
<1>3. \A i \in 1 .. 4 : Move(f[i], s[i], f[i + 1])
  <2>1. Move(f[1], s[1], f[1 + 1])
    BY <1>1, <1>2
  <2>2. Move(f[2], s[2], f[2 + 1])
    BY <1>1, <1>2
  <2>3. Move(f[3], s[3], f[3 + 1])
    BY <1>1, <1>2
  <2>4. Move(f[4], s[4], f[4 + 1])
    BY <1>1, <1>2
  <2>5. QED
    BY <2>1, <2>2, <2>3, <2>4
<1>4. Leads(f, s, p, m)
  BY <1>1, <1>2, <1>3 DEF Leads
<1>5. QED
  BY <1>1, <1>2, <1>4 DEF Runs, s

(* Accesses that are not to the transmitter leave the phase.                 *)
LEMMA Stays ==
  ASSUME NEW a \in Plain \cup Paged \cup Dsps \cup Pages \cup {Reset}, NEW p \in {"on", "off"}
  PROVE  Move(p, a, p)
<1>1. a \notin Turns \cup Ids
  BY DEF Plain, Paged, Dsps, Turns, Ids, Pages, Reset, SetDsp, Read, Write, Act, Low, High,
     Agc, Transmitter, PortStatus, Select, None
<1>2. QED
  BY <1>1 DEF Move

LEMMA SilencedRuns ==
  ASSUME NEW j, NEW known, NEW s, Runs(Allowed(j, "igp", known), s, "off", "off")
  PROVE  Runs(Allowed(j, "igp", known), Silenced(s), "on", "on") /\ Len(Silenced(s)) = Len(s) + 5
<1> DEFINE A == Allowed(j, "igp", known)
           force == Write(Low("control"), "force")
           restart == Write(Low("control"), "restart")
           begin == <<Read(Transmitter), Write(Transmitter, "off"), force>>
           end == <<restart, Write(Transmitter, "saved")>>
<1>1. /\ force \in Plain /\ restart \in Plain
      /\ Read(Transmitter) \in Turns /\ Write(Transmitter, "off") \in Turns
      /\ Write(Transmitter, "saved") \in Turns
  BY DEF Plain, Turns
<1>2. \A a \in Plain : a \notin Paged \cup Dsps \cup Turns \cup Ids \cup Pages \cup {Reset}
  BY DEF Plain, Paged, Dsps, Turns, Ids, Pages, Reset, SetDsp, Read, Write, Act, Low, High,
     Agc, Transmitter, PortStatus, Select, None
<1>3. \A a \in Turns : a \notin Plain \cup Paged \cup Dsps \cup Ids \cup Pages \cup {Reset}
  BY DEF Plain, Paged, Dsps, Turns, Ids, Pages, Reset, SetDsp, Read, Write, Act, Low, High,
     Agc, Transmitter, PortStatus, Select, None
<1>4. Plain \subseteq A /\ Turns \subseteq A
  BY <1>2, <1>3 DEF Allowed
<1>5. "on" \in Phase /\ "read" \in Phase /\ "off" \in Phase
  BY DEF Phase
<1>6. /\ Move("on", Read(Transmitter), "read") /\ Move("read", Write(Transmitter, "off"), "off")
      /\ Move("off", Write(Transmitter, "saved"), "on")
  BY DEF Move
<1>7. Move("off", force, "off") /\ Move("off", restart, "off")
  BY <1>1, Stays
<1> HIDE DEF A, force, restart
<1>8. Runs(A, begin, "on", "off")
  BY <1>1, <1>4, <1>5, <1>6, <1>7, RunsThree
<1>9. Runs(A, end, "off", "on")
  BY <1>1, <1>4, <1>5, <1>6, <1>7, RunsTwo
<1>10. Runs(A, (begin \o s) \o end, "on", "on")
  BY <1>8, <1>9, RunsBoth DEF A
<1>11. Silenced(s) = (begin \o s) \o end
  BY DEF Silenced, force, restart
<1>12. s \in Seq(A) /\ begin \in Seq(A) /\ end \in Seq(A)
  BY <1>8, <1>9 DEF Runs, A
<1>13. Len(begin) = 3 /\ Len(end) = 2
  OBVIOUS
<1> HIDE DEF begin, end
<1>14. Len((begin \o s) \o end) = Len(s) + 5
  <2> DEFINE b == begin \o s
  <2>1. b \in Seq(A) /\ Len(b) = 3 + Len(s) /\ Len(s) \in Nat
    BY <1>12, <1>13, BothLong
  <2> HIDE DEF b
  <2>2. Len(b \o end) = Len(b) + Len(end)
    BY <1>12, <2>1, BothLong, Zenon
  <2>3. QED
    BY <1>13, <2>1, <2>2 DEF b
<1>15. QED
  BY <1>10, <1>11, <1>14 DEF A


LEMMA DriverLen ==
  Len(Driver) = IF Chip = "igp" THEN 15 ELSE 5
<1>1. Len(InitScript) = 6
  BY DEF InitScript, Silenced
<1>2. QED
  BY <1>1 DEF Driver, PhyReset, InitScript, Silenced, Detection

(* Each job begins and ends with the transmitter on.                         *)
LEMMA JobsRun ==
  ASSUME NEW j \in Jobs, type \in {"m88", Chip}, NEW s \in Accesses(j)
  PROVE  Runs(Allowed(j, Chip, type), s, "on", "on") /\ Len(s) <= Len(Driver)
<1> DEFINE A == Allowed(j, Chip, type)
<1> USE DEF Jobs
<1>0. Chip \in Chips
  BY DEF Chip, Chips
<1>1. /\ Plain \subseteq A
      /\ Chip = "igp" => Paged \subseteq A /\ Dsps \subseteq A
      /\ j = "reset" => Ids \subseteq A /\ Reset \in A
      /\ type = "igp" => Pages \subseteq A
  <2>1. \A a \in Plain : a \notin Paged \cup Dsps \cup Turns \cup Ids \cup Pages \cup {Reset}
    BY DEF Plain, Paged, Dsps, Turns, Ids, Pages, Reset, SetDsp, Read, Write, Act, Low, High,
       Agc, Transmitter, PortStatus, Select, None
  <2>2. \A a \in Paged \cup Dsps : a \notin Ids \cup Pages \cup {Reset}
    BY DEF Paged, Dsps, Ids, Pages, Reset, SetDsp, Read, Write, Act, Low, High,
       Agc, Select, None
  <2>3. \A a \in Ids \cup {Reset} : a \notin Paged \cup Dsps \cup Turns \cup Pages
    BY DEF Paged, Dsps, Turns, Ids, Pages, Reset, SetDsp, Read, Write, Act, Low, High,
       Agc, Transmitter, Select, None
  <2>4. \A a \in Pages : a \notin Paged \cup Dsps \cup Turns \cup Ids \cup {Reset}
    BY DEF Paged, Dsps, Turns, Ids, Pages, Reset, SetDsp, Read, Write, Act, Low, High,
       Agc, Transmitter, Select, None
  <2>5. QED
    BY <2>1, <2>2, <2>3, <2>4 DEF Allowed
<1>2. \A p \in {"on", "off"} : \A a \in Plain \cup Paged \cup Dsps \cup Pages \cup {Reset} : Move(p, a, p)
  BY Stays
<1>3. "on" \in Phase /\ "id" \in Phase /\ "off" \in Phase
  BY DEF Phase
<1> HIDE DEF A
<1> DEFINE status == <<Read(Low("status")), Read(Low("status"))>>
           n == Len(Driver)
<1>4. n = IF Chip = "igp" THEN 15 ELSE 5
  BY DriverLen
<1>5. Runs(A, status, "on", "on") /\ Len(status) = 2
  <2>1. Read(Low("status")) \in Plain
    BY DEF Plain
  <2>2. QED
    BY <1>1, <1>2, <1>3, <2>1, RunsTwo
<1>6. CASE j = "link"
  <2>1. Runs(A, <<Read(PortStatus)>>, "on", "on")
    <3>1. Read(PortStatus) \in Plain
      BY DEF Plain
    <3>2. QED
      BY <1>1, <1>2, <1>3, <3>1, RunsOne
  <2>2. ASSUME Chip = "igp"
        PROVE  Runs(A, LostLinkDsp, "on", "on") /\ Len(LostLinkDsp) = 8
    <3> DEFINE r == <<Read(Agc), Write(Agc, "agc")>>
    <3>1. Runs(A, r, "off", "off") /\ Len(r) = 2
      <4>1. Read(Agc) \in Paged /\ Write(Agc, "agc") \in Paged
        BY DEF Paged
      <4>2. QED
        BY <1>1, <1>2, <1>3, <2>2, <4>1, RunsTwo
    <3> HIDE DEF r
    <3>2. Runs(A, Silenced(r), "on", "on") /\ Len(Silenced(r)) = 7
      <4>1. A = Allowed(j, "igp", type)
        BY <2>2 DEF A
      <4>2. Runs(A, Silenced(r), "on", "on") /\ Len(Silenced(r)) = Len(r) + 5
        BY <3>1, <4>1, SilencedRuns
      <4>3. QED
        BY <3>1, <4>2
    <3>3. Runs(A, <<SetDsp("enabled")>>, "on", "on") /\ Len(<<SetDsp("enabled")>>) = 1
      <4>1. SetDsp("enabled") \in Dsps
        BY DEF Dsps
      <4>2. QED
        BY <1>1, <1>2, <1>3, <2>2, <4>1, RunsOne
    <3>4. /\ Runs(A, Silenced(r) \o <<SetDsp("enabled")>>, "on", "on")
          /\ Len(Silenced(r) \o <<SetDsp("enabled")>>) = Len(Silenced(r)) + Len(<<SetDsp("enabled")>>)
      BY <3>2, <3>3, RunsBoth
    <3>5. LostLinkDsp = Silenced(r) \o <<SetDsp("enabled")>>
      BY DEF LostLinkDsp, r
    <3>6. QED
      BY <3>2, <3>3, <3>4, <3>5
  <2>3. ASSUME Chip = "igp"
        PROVE  Runs(A, LinkUpDsp, "on", "on") /\ Len(LinkUpDsp) = 4
    <3>1. /\ Read(PortStatus) \in Plain /\ Read(Agc) \in Paged /\ Write(Agc, "agc") \in Paged
          /\ SetDsp("activated") \in Dsps
      BY DEF Plain, Paged, Dsps
    <3>2. QED
      BY <1>1, <1>2, <1>3, <2>3, <3>1, RunsFour DEF LinkUpDsp
  <2>4. Runs(A, <<>>, "on", "on")
    BY <1>3, RunsEmpty
  <2> DEFINE lost == IF type = "igp" /\ dsp = "activated" THEN LostLinkDsp ELSE <<>>
             up == IF type = "igp" /\ dsp = "enabled" THEN LinkUpDsp ELSE <<>>
  <2>5. /\ Runs(A, lost, "on", "on") /\ Len(lost) \in 0 .. 8
        /\ Runs(A, up, "on", "on") /\ Len(up) \in 0 .. 4
        /\ Chip # "igp" => Len(lost) = 0 /\ Len(up) = 0
    <3>1. CASE type = "igp"
      <4>1. Chip = "igp"
        BY <1>0, <3>1
      <4>2. QED
        BY <2>2, <2>3, <2>4, <4>1
    <3>2. CASE type # "igp"
      BY <2>4, <3>2
    <3>3. QED
      BY <3>1, <3>2
  <2>6. s \in {status, status \o lost, (status \o <<Read(PortStatus)>>) \o up}
    BY <1>6 DEF Accesses, Link
  <2> HIDE DEF lost, up, status
  <2>7. Runs(A, status \o lost, "on", "on") /\ Len(status \o lost) = Len(status) + Len(lost)
    BY <1>5, <2>5, RunsBoth
  <2> DEFINE three == status \o <<Read(PortStatus)>>
  <2>8. Runs(A, three, "on", "on") /\ Len(three) = 3
    <3>1. Len(<<Read(PortStatus)>>) = 1
      OBVIOUS
    <3>2. Runs(A, three, "on", "on") /\ Len(three) = Len(status) + Len(<<Read(PortStatus)>>)
      BY <1>5, <2>1, RunsBoth
    <3>3. QED
      BY <1>5, <3>1, <3>2
  <2> HIDE DEF three
  <2>9. Runs(A, three \o up, "on", "on") /\ Len(three \o up) = Len(three) + Len(up)
    BY <2>5, <2>8, RunsBoth
  <2>10. s \in {status, status \o lost, three \o up}
    BY <2>6 DEF three
  <2> HIDE DEF n
  <2>11. Runs(A, s, "on", "on")
    BY <1>5, <2>7, <2>9, <2>10
  <2>12. /\ Len(status) <= n /\ Len(status) + Len(lost) <= n
         /\ Len(three) + Len(up) <= n
    <3> HIDE DEF n
    <3>1. Len(status) = 2 /\ Len(three) = 3 /\ Len(lost) \in 0 .. 8 /\ Len(up) \in 0 .. 4
      BY <1>5, <2>5, <2>8
    <3>2. CASE Chip = "igp"
      <4>1. n = 15
        BY <1>4, <3>2
      <4>2. \A x \in 0 .. 8 : 2 <= 15 /\ 2 + x <= 15 /\ 3 + x <= 15
        OBVIOUS
      <4>3. Len(up) \in 0 .. 8
        BY <3>1
      <4>4. QED
        BY <3>1, <4>1, <4>2, <4>3, Zenon
    <3>3. CASE Chip # "igp"
      BY <1>4, <2>5, <3>1, <3>3
    <3>4. QED
      BY <3>2, <3>3
  <2>13. Len(s) <= n
    BY <2>7, <2>9, <2>10, <2>12
  <2>14. QED
    BY <2>11, <2>13 DEF A, n
<1>7. CASE j = "ioctl"
  <2>1. /\ Read(Low("control")) \in Plain /\ Write(Low("control"), "value") \in Plain
    BY DEF Plain
  <2>2. s = <<Read(Low("control"))>> \/ s = <<Write(Low("control"), "value")>>
    BY <1>7 DEF Accesses, MiiIoctl
  <2>3. Runs(A, s, "on", "on")
    BY <1>1, <1>2, <1>3, <2>1, <2>2, RunsOne
  <2>4. Len(s) = 1
    BY <2>2
  <2>5. QED
    BY <1>4, <2>3, <2>4 DEF A
<1>8. CASE j = "info"
  <2>1. Read(Low("status")) \in Plain /\ Read(PortStatus) \in Plain
    BY DEF Plain
  <2>2. s = <<Read(Low("status")), Read(Low("status")), Read(PortStatus)>>
    BY <1>8 DEF Accesses, Info
  <2>3. Runs(A, s, "on", "on")
    BY <1>1, <1>2, <1>3, <2>1, <2>2, RunsThree
  <2>4. Len(s) = 3
    BY <2>2
  <2>5. QED
    BY <1>4, <2>3, <2>4 DEF A
<1>9. CASE j = "dump" /\ type = "igp"
  <2>1. Chip = "igp"
    BY <1>0, <1>9
  <2>2. /\ Write(Select, Agc.page) \in Pages /\ Write(Select, "0") \in Pages
        /\ Read(High("0", Agc.n)) \in Paged
    BY DEF Pages, Paged, Agc, High
  <2>3. s = <<Write(Select, Agc.page), Read(High("0", Agc.n)), Write(Select, "0")>>
    BY <1>9 DEF Accesses, Dump
  <2>4. Runs(A, s, "on", "on")
    BY <1>1, <1>2, <1>3, <1>9, <2>1, <2>2, <2>3, RunsThree
  <2>5. Len(s) = 3
    BY <2>3
  <2>6. QED
    BY <1>4, <2>4, <2>5 DEF A
<1>10. CASE j = "dump" /\ type # "igp"
  <2>1. Read(PortStatus) \in Plain
    BY DEF Plain
  <2>2. s = <<Read(PortStatus)>>
    BY <1>10 DEF Accesses, Dump
  <2>3. Runs(A, s, "on", "on")
    BY <1>1, <1>2, <1>3, <2>1, <2>2, RunsOne
  <2>4. Len(s) = 1
    BY <2>2
  <2>5. QED
    BY <1>4, <2>3, <2>4 DEF A
<1>11. CASE j = "stats"
  <2>1. Read(Low("1000T_status")) \in Plain
    BY DEF Plain
  <2>2. s = <<Read(Low("1000T_status"))>>
    BY <1>11 DEF Accesses, Stats
  <2>3. Runs(A, s, "on", "on")
    BY <1>1, <1>2, <1>3, <2>1, <2>2, RunsOne
  <2>4. Len(s) = 1
    BY <2>2
  <2>5. QED
    BY <1>4, <2>3, <2>4 DEF A
<1>12. CASE j = "reset"
  <2>1. s = Driver
    BY <1>12 DEF Accesses
  <2>2. Runs(A, Detection, "on", "on")
    <3>1. Read(Low("id1")) \in Ids /\ Read(Low("id2")) \in Ids
      BY DEF Ids
    <3>2. Move("on", Read(Low("id1")), "id") /\ Move("id", Read(Low("id2")), "on")
      BY DEF Move
    <3>3. QED
      BY <1>1, <1>3, <1>12, <3>1, <3>2, RunsTwo DEF Detection
  <2>3. Runs(A, <<Reset>>, "on", "on")
    BY <1>1, <1>2, <1>3, <1>12, RunsOne
  <2>4. CASE Chip = "igp"
    <3>1. Runs(A, InitScript, "on", "on")
      <4>1. Write(Agc, "script") \in Paged
        BY DEF Paged
      <4>2. Runs(A, <<Write(Agc, "script")>>, "off", "off")
        BY <1>1, <1>2, <1>3, <2>4, <4>1, RunsOne
      <4>3. QED
        BY <2>4, <4>2, SilencedRuns DEF A, InitScript
    <3>2. Runs(A, <<Reset>> \o InitScript, "on", "on")
      BY <2>3, <3>1, RunsBoth
    <3>3. Runs(A, InitScript \o Detection, "on", "on")
      BY <2>2, <3>1, RunsBoth
    <3>4. Runs(A, (InitScript \o Detection) \o (<<Reset>> \o InitScript), "on", "on")
      BY <3>2, <3>3, RunsBoth
    <3>5. Driver = (InitScript \o Detection) \o (<<Reset>> \o InitScript)
      BY <2>4 DEF Driver, PhyReset
    <3>6. QED
      BY <1>4, <2>1, <2>4, <3>4, <3>5 DEF A
  <2>5. CASE Chip # "igp"
    <3> DEFINE r == <<Read(Low("control")), Write(Low("control"), "reset")>>
    <3>1. Runs(A, r, "on", "on")
      <4>1. Read(Low("control")) \in Plain /\ Write(Low("control"), "reset") \in Plain
        BY DEF Plain
      <4>2. QED
        BY <1>1, <1>2, <1>3, <4>1, RunsTwo
    <3>2. Runs(A, <<Reset>> \o Detection, "on", "on")
      BY <2>2, <2>3, RunsBoth
    <3>3. Runs(A, (<<Reset>> \o Detection) \o r, "on", "on")
      BY <3>1, <3>2, RunsBoth
    <3>4. Driver = (<<Reset>> \o Detection) \o r
      BY <2>5 DEF Driver, PhyReset
    <3>5. QED
      BY <1>4, <2>1, <2>5, <3>3, <3>4 DEF A
  <2>6. QED
    BY <2>4, <2>5
<1>13. QED
  BY <1>6, <1>7, <1>8, <1>9, <1>10, <1>11, <1>12


-----------------------------------------------------------------------------
(* What the steps change and what they leave.                                *)

(* A step of one thread leaves the others where they are.                    *)
Apart(t) ==
  \A u \in Thread \ {t} :
    job'[u] = job[u] /\ at'[u] = at[u] /\ todo'[u] = todo[u] /\ saved'[u] = saved[u]

Works(t) == Start(t) \/ Step(t) \/ Fails(t)

LEMMA NextIs == Next => Complete \/ \E t \in Thread : Works(t)
  BY DEF Next, Works

LEMMA Leaves ==
  ASSUME NEW t \in Thread, Works(t)
  PROVE  /\ may' = may
         /\ ~Between(t) => page' = page /\ tx' = tx /\ dsp' = dsp
         /\ ~Between(t) /\ ~SelectPage(t) /\ ~Access(t) => mdic' = mdic
         /\ ~Done(t) => type' = type /\ wrong' = wrong
         /\ ~Done(t) /\ ~SkipDetect(t) => id' = id /\ found' = found
         /\ ~Fails(t) => errors' = errors
         /\ ~SelectPage(t) /\ ~Access(t) => overlap' = overlap
         /\ ~Start(t) /\ ~End(t) => job' = job /\ lock' = lock
         /\ ~End(t) /\ ~Fails(t) /\ ~Done(t) => saved' = saved
         /\ ~Start(t) /\ ~Between(t) /\ ~Done(t) /\ ~Fails(t) /\ ~SkipDetect(t) => todo' = todo
         /\ SkipDetect(t) \/ Between(t) => at' = at
<1>1. CASE Start(t)
  BY <1>1 DEF Start, Starts, hwVars, history, Between, SkipDetect
<1>2. CASE Between(t)
  BY <1>2 DEF Between, hwVars, history
<1>3. CASE Begin(t)
  BY <1>3 DEF Begin, hwVars, history, Between, SkipDetect
<1>4. CASE SelectPage(t)
  BY <1>4 DEF SelectPage, Issue, hwVars, history, Between, SkipDetect
<1>5. CASE Access(t)
  BY <1>5 DEF Access, Issue, hwVars, history, Between, SkipDetect
<1>6. CASE Selected(t)
  BY <1>6 DEF Selected, hwVars, history, Between, SkipDetect
<1>7. CASE Done(t)
  BY <1>7 DEF Done, Between, SkipDetect
<1>8. CASE SkipDetect(t)
  BY <1>8 DEF SkipDetect, hwVars, history
<1>9. CASE End(t)
  BY <1>9 DEF End, hwVars, history, Between, SkipDetect
<1>10. CASE Fails(t)
  BY <1>10 DEF Fails, hwVars, history, Between, SkipDetect
<1>11. QED
  BY <1>1, <1>2, <1>3, <1>4, <1>5, <1>6, <1>7, <1>8, <1>9, <1>10 DEF Works, Step

(* Each step, for the thread that takes it.                                  *)
LEMMA StartDoes ==
  ASSUME TypeOK, Known, NEW t \in Thread, Start(t)
  PROVE  /\ Apart(t) /\ todo' = [u \in Thread |-> todo'[u]]
         /\ job[t] = None /\ ~overlap /\ at'[t] = "begin" /\ todo'[t] \in Accesses(job'[t])
         /\ job'[t] \in Jobs
         /\ job'[t] \in Locked => lock = None /\ lock' = t
         /\ job'[t] \notin Locked => lock' = lock
         /\ \A u \in Thread \ {t} :
              job[u] # None => ~Alone /\ job[u] # "reset" /\ job'[t] # "reset"
         /\ job' \in [Thread -> Jobs \cup {None}] /\ at' = [at EXCEPT ![t] = "begin"]
<1>1. PICK j \in JobsOf(t) : Starts(t, j) /\ (j \in Locked => lock = None)
                             /\ lock' = IF j \in Locked THEN t ELSE lock
  BY DEF Start
<1>2. job' = [job EXCEPT ![t] = j] /\ at' = [at EXCEPT ![t] = "begin"] /\ saved' = saved
  BY <1>1 DEF Starts
<1>3. PICK as \in Accesses(j) : todo' = [todo EXCEPT ![t] = as]
  BY <1>1 DEF Starts
<1>4. job'[t] = j /\ at'[t] = "begin" /\ todo'[t] = as /\ todo' = [u \in Thread |-> todo'[u]]
  BY <1>2, <1>3 DEF TypeOK, Known
<1>5. Apart(t)
  BY <1>2, <1>3 DEF TypeOK, Known, Apart
<1>6. j \in Jobs
  BY DEF JobsOf, Jobs
<1>7. job' \in [Thread -> Jobs \cup {None}]
  BY <1>2, <1>6 DEF TypeOK, Jobs
<1>8. job[t] = None /\ ~overlap /\ \A u \in Thread \ {t} :
              job[u] # None => ~Alone /\ job[u] # "reset" /\ j # "reset"
  BY <1>1 DEF Starts, Alone
<1>9. QED
  BY <1>1, <1>2, <1>3, <1>4, <1>5, <1>6, <1>7, <1>8

LEMMA BetweenDoes ==
  ASSUME TypeOK, Known, NEW t \in Thread, Between(t)
  PROVE  /\ Apart(t) /\ todo' = [u \in Thread |-> todo'[u]]
         /\ at[t] = "begin" /\ todo[t] # <<>> /\ First(t).op \in {"reset", "set_dsp"}
         /\ at' = at /\ job' = job /\ saved' = saved /\ todo'[t] = Tail(todo[t])
  BY DEF Between, TypeOK, Known, Apart, First

LEMMA BeginDoes ==
  ASSUME TypeOK, Known, NEW t \in Thread, Begin(t)
  PROVE  /\ Apart(t) /\ at[t] = "begin" /\ todo[t] # <<>> /\ First(t).op \in {"read", "write"}
         /\ First(t) = Detection[1] => id = None
         /\ at'[t] = IF type = "igp" /\ First(t).reg.page # None THEN "select" ELSE "command"
         /\ at' = [at EXCEPT ![t] = at'[t]]
         /\ job' = job /\ saved' = saved /\ todo' = todo
  BY DEF Begin, TypeOK, Known, Apart, First

LEMMA IssueDoes ==
  ASSUME TypeOK, Known, NEW t \in Thread, NEW o, NEW n, NEW v, NEW next, Issue(t, o, n, v, next)
  PROVE  /\ Apart(t) /\ at'[t] = next /\ at' = [at EXCEPT ![t] = next]
         /\ mdic' = [op |-> o, n |-> n, val |-> v, ready |-> FALSE, got |-> None]
         /\ mdic'.op = o /\ mdic'.n = n /\ mdic'.val = v /\ mdic'.ready = FALSE
         /\ ~overlap' => ~overlap /\ \A u \in Thread \ {t} :
                           at[u] \in {None, "begin"} \/ {job[t], job[u]} \subseteq Locked
         /\ job' = job /\ saved' = saved /\ todo' = todo
<1>1. at' = [at EXCEPT ![t] = next] /\ job' = job /\ saved' = saved /\ todo' = todo
  BY DEF Issue
<1>2. Apart(t) /\ at'[t] = next
  BY <1>1 DEF TypeOK, Apart
<1>3. mdic' = [op |-> o, n |-> n, val |-> v, ready |-> FALSE, got |-> None]
  BY DEF Issue
<1>4. mdic'.op = o /\ mdic'.n = n /\ mdic'.val = v /\ mdic'.ready = FALSE
  BY <1>3
<1>5. overlap' = (overlap \/ \E u \in Thread \ {t} : at[u] \notin {None, "begin"}
                                                   /\ {job[t], job[u]} \ Locked # {})
  BY DEF Issue
<1>6. ~overlap' => ~overlap /\ \A u \in Thread \ {t} :
                           at[u] \in {None, "begin"} \/ {job[t], job[u]} \subseteq Locked
  BY <1>5
<1>7. QED
  BY <1>1, <1>2, <1>3, <1>4, <1>6

LEMMA SelectPageDoes ==
  ASSUME TypeOK, Known, NEW t \in Thread, SelectPage(t)
  PROVE  at[t] = "select" /\ Issue(t, "write", "1F", First(t).reg.page, "selecting")
  BY DEF SelectPage, First, Select, High

LEMMA AccessDoes ==
  ASSUME TypeOK, Known, NEW t \in Thread, Access(t)
  PROVE  /\ at[t] = "command"
         /\ Issue(t, First(t).op, First(t).reg.n,
                  IF First(t).val = "saved" THEN saved[t] ELSE First(t).val, "accessing")
  BY DEF Access, First

LEMMA SelectedDoes ==
  ASSUME TypeOK, Known, NEW t \in Thread, Selected(t)
  PROVE  /\ Apart(t) /\ at[t] = "selecting" /\ mdic.ready
         /\ at'[t] = "command" /\ at' = [at EXCEPT ![t] = "command"]
         /\ job' = job /\ saved' = saved /\ todo' = todo
  BY DEF Selected, TypeOK, Known, Apart

LEMMA DoneDoes ==
  ASSUME TypeOK, Known, NEW t \in Thread, Done(t)
  PROVE  /\ Apart(t) /\ todo' = [u \in Thread |-> todo'[u]]
         /\ at[t] = "accessing" /\ mdic.ready
         /\ Reached(First(t)) /\ Detected(First(t))
         /\ saved'[t] = IF First(t) = Read(Transmitter) THEN mdic.got.val ELSE saved[t]
         /\ saved' = [saved EXCEPT ![t] = saved'[t]]
         /\ todo'[t] = Tail(todo[t]) /\ at'[t] = "begin" /\ at' = [at EXCEPT ![t] = "begin"]
         /\ job' = job
<1>1. /\ at[t] = "accessing" /\ mdic.ready /\ Reached(First(t)) /\ Detected(First(t))
      /\ saved' = IF First(t) = Read(Transmitter) THEN [saved EXCEPT ![t] = mdic.got.val]
                  ELSE saved
      /\ todo' = [todo EXCEPT ![t] = Tail(todo[t])] /\ at' = [at EXCEPT ![t] = "begin"]
      /\ job' = job
  BY DEF Done, First
<1>2. /\ saved'[t] = IF First(t) = Read(Transmitter) THEN mdic.got.val ELSE saved[t]
      /\ saved' = [saved EXCEPT ![t] = saved'[t]]
      /\ \A u \in Thread \ {t} : saved'[u] = saved[u]
  BY <1>1 DEF TypeOK
<1>3. /\ todo'[t] = Tail(todo[t]) /\ todo' = [u \in Thread |-> todo'[u]]
      /\ \A u \in Thread \ {t} : todo'[u] = todo[u]
  BY <1>1 DEF Known
<1>4. at'[t] = "begin" /\ \A u \in Thread \ {t} : at'[u] = at[u]
  BY <1>1 DEF TypeOK
<1>5. QED
  BY <1>1, <1>2, <1>3, <1>4 DEF Apart

LEMMA SkipDetectDoes ==
  ASSUME TypeOK, Known, NEW t \in Thread, SkipDetect(t)
  PROVE  /\ Apart(t) /\ todo' = [u \in Thread |-> todo'[u]]
         /\ at[t] = "begin" /\ todo[t] # <<>> /\ First(t) = Detection[1] /\ id # None
         /\ at' = at /\ job' = job /\ saved' = saved /\ todo'[t] = Tail(Tail(todo[t]))
         /\ found' = TRUE /\ id' = id
  BY DEF SkipDetect, TypeOK, Known, Apart, First

LEMMA EndDoes ==
  ASSUME TypeOK, Known, NEW t \in Thread, End(t)
  PROVE  /\ Apart(t) /\ at[t] = "begin" /\ todo[t] = <<>> /\ todo' = todo
         /\ job'[t] = None /\ at'[t] = None /\ saved'[t] = None
         /\ at' = [at EXCEPT ![t] = None] /\ job' = [job EXCEPT ![t] = None]
         /\ saved' = [saved EXCEPT ![t] = None]
         /\ lock' = IF lock = t THEN None ELSE lock
  BY DEF End, TypeOK, Known, Apart

LEMMA FailsDoes ==
  ASSUME TypeOK, Known, NEW t \in Thread, Fails(t)
  PROVE  /\ Apart(t) /\ todo' = [u \in Thread |-> todo'[u]]
         /\ at[t] \in {"selecting", "accessing"} /\ errors < Errors /\ errors' = errors + 1
         /\ todo'[t] = IF Ignores(t) THEN Tail(todo[t]) ELSE <<>>
         /\ at'[t] = "begin" /\ at' = [at EXCEPT ![t] = "begin"]
         /\ saved'[t] = IF First(t) = Read(Transmitter) THEN "junk" ELSE saved[t]
         /\ saved' = [saved EXCEPT ![t] = saved'[t]]
         /\ job' = job
<1>1. /\ at[t] \in {"selecting", "accessing"} /\ errors < Errors /\ errors' = errors + 1
      /\ todo' = [todo EXCEPT ![t] = IF Ignores(t) THEN Tail(todo[t]) ELSE <<>>]
      /\ at' = [at EXCEPT ![t] = "begin"]
      /\ saved' = IF First(t) = Read(Transmitter) THEN [saved EXCEPT ![t] = "junk"] ELSE saved
      /\ job' = job
  BY DEF Fails, First
<1>2. /\ saved'[t] = IF First(t) = Read(Transmitter) THEN "junk" ELSE saved[t]
      /\ saved' = [saved EXCEPT ![t] = saved'[t]]
      /\ \A u \in Thread \ {t} : saved'[u] = saved[u]
  BY <1>1 DEF TypeOK
<1>3. /\ todo'[t] = IF Ignores(t) THEN Tail(todo[t]) ELSE <<>>
      /\ todo' = [u \in Thread |-> todo'[u]]
      /\ \A u \in Thread \ {t} : todo'[u] = todo[u]
  BY <1>1 DEF Known
<1>4. at'[t] = "begin" /\ \A u \in Thread \ {t} : at'[u] = at[u]
  BY <1>1 DEF TypeOK
<1>5. QED
  BY <1>1, <1>2, <1>3, <1>4 DEF Apart

LEMMA StaysApart ==
  ASSUME TypeOK, Known, NEW t \in Thread, Works(t)
  PROVE  Apart(t) /\ todo' = [u \in Thread |-> todo'[u]]
<1>1. CASE SelectPage(t) \/ Access(t)
  <2>1. PICK o, n, v, next : Issue(t, o, n, v, next)
    BY <1>1, SelectPageDoes, AccessDoes
  <2>2. Apart(t) /\ todo' = todo
    BY <2>1, IssueDoes
  <2>3. QED
    BY <2>2 DEF Known
<1>2. CASE Begin(t)
  BY <1>2, BeginDoes DEF Known
<1>3. CASE Selected(t)
  BY <1>3, SelectedDoes DEF Known
<1>4. CASE End(t)
  BY <1>4, EndDoes DEF Known
<1>5. QED
  BY <1>1, <1>2, <1>3, <1>4, StartDoes, BetweenDoes, DoneDoes, SkipDetectDoes, FailsDoes
     DEF Works, Step

LEMMA CompleteDoes ==
  ASSUME Mdic, Complete
  PROVE  /\ job' = job /\ at' = at /\ todo' = todo /\ saved' = saved /\ lock' = lock
         /\ may' = may /\ id' = id /\ type' = type /\ found' = found /\ dsp' = dsp
         /\ errors' = errors /\ overlap' = overlap /\ wrong' = wrong
         /\ ~mdic.ready /\ mdic'.ready = TRUE
         /\ mdic'.op = mdic.op /\ mdic'.n = mdic.n /\ mdic'.val = mdic.val
         /\ mdic'.got = [reg |-> RegisterAt(mdic), op |-> mdic.op,
                         val |-> IF RegisterAt(mdic) = Transmitter THEN tx ELSE "other"]
         /\ mdic' = [op |-> mdic'.op, n |-> mdic'.n, val |-> mdic'.val, ready |-> mdic'.ready,
                     got |-> mdic'.got]
         /\ page' = IF mdic.op = "write" /\ RegisterAt(mdic) = Select THEN mdic.val ELSE page
         /\ tx' = IF mdic.op = "write" /\ RegisterAt(mdic) = Transmitter THEN mdic.val ELSE tx
<1> DEFINE g == [reg |-> RegisterAt(mdic), op |-> mdic.op,
                 val |-> IF RegisterAt(mdic) = Transmitter THEN tx ELSE "other"]
<1>1. /\ ~mdic.ready
      /\ mdic' = [mdic EXCEPT !.ready = TRUE, !.got = g]
      /\ page' = IF mdic.op = "write" /\ RegisterAt(mdic) = Select THEN mdic.val ELSE page
      /\ tx' = IF mdic.op = "write" /\ RegisterAt(mdic) = Transmitter THEN mdic.val ELSE tx
  BY DEF Complete
<1>2. /\ job' = job /\ at' = at /\ todo' = todo /\ saved' = saved /\ lock' = lock
      /\ may' = may /\ id' = id /\ type' = type /\ found' = found /\ dsp' = dsp
      /\ errors' = errors /\ overlap' = overlap /\ wrong' = wrong
  BY DEF Complete, hwVars, history
<1> HIDE DEF g
<1>3. mdic' = [op |-> mdic.op, n |-> mdic.n, val |-> mdic.val, ready |-> TRUE, got |-> g]
  <2>1. mdic = [op |-> mdic.op, n |-> mdic.n, val |-> mdic.val, ready |-> mdic.ready,
                got |-> mdic.got]
    BY DEF Mdic
  <2>2. QED
    BY <1>1, <2>1
<1>4. /\ mdic'.ready = TRUE /\ mdic'.got = g
      /\ mdic'.op = mdic.op /\ mdic'.n = mdic.n /\ mdic'.val = mdic.val
  BY <1>3
<1>5. QED
  BY <1>1, <1>2, <1>3, <1>4 DEF g


-----------------------------------------------------------------------------
(* Types, and where the threads stand.                                       *)

LEMMA SameChip ==
  ASSUME may' = may
  PROVE  Chip' = Chip /\ Driver' = Driver /\ Alone' = Alone
<1>1. Chip' = Chip /\ Alone' = Alone
  BY DEF Chip, Alone
<1>2. Driver' = Driver
  BY <1>1 DEF Driver, PhyReset, InitScript
<1>3. QED
  BY <1>1, <1>2

LEMMA FirstAct ==
  ASSUME Inv, NEW t \in Thread, todo[t] # <<>>
  PROVE  /\ First(t) \in Allowed(job[t], Chip, type) /\ job[t] \in Jobs
         /\ Fits(First(t), job[t], Chip, type)
         /\ Len(Tail(todo[t])) <= Len(Driver) /\ 0 <= Len(Driver)
<1>1. PICK p \in Phase : Goes(t, p)
  BY DEF Inv, InPhase
<1>2. First(t) \in Allowed(job[t], Chip, type)
  BY <1>1, RunsTail DEF Goes, First
<1>3. job[t] \in Jobs
  BY DEF Inv, TypeOK, Jobs
<1>4. Len(todo[t]) \in Nat \ {0} /\ Len(Tail(todo[t])) = Len(todo[t]) - 1
  BY <1>1 DEF Goes, Runs
<1>5. Len(todo[t]) <= Len(Driver) /\ Len(Driver) \in Nat
  BY DriverLen DEF Inv, TypeOK
<1>6. Fits(First(t), job[t], Chip, type)
  BY <1>2, Accessed
<1>7. QED
  BY <1>2, <1>3, <1>4, <1>5, <1>6

LEMMA Jobbed ==
  ASSUME TypeOK, NEW t \in Thread, job[t] = None
  PROVE  todo[t] = <<>>
  BY DEF TypeOK

(* An access decides which phase it is made in and which comes next.         *)
LEMMA MovesOn ==
  ASSUME NEW a, NEW p, NEW q, Move(p, a, q)
  PROVE  /\ a = Read(Transmitter) => p = "on" /\ q = "read"
         /\ a = Write(Transmitter, "off") => p = "read" /\ q = "off"
         /\ a = Write(Transmitter, "saved") => p = "off" /\ q = "on"
         /\ a = Read(Low("id1")) => p = "on" /\ q = "id"
         /\ a = Read(Low("id2")) => p = "id" /\ q = "on"
         /\ a \notin Turns \cup Ids => q = p /\ p \in {"on", "off"}
<1>1. /\ Read(Transmitter) # Write(Transmitter, "off")
      /\ Read(Transmitter) # Write(Transmitter, "saved")
      /\ Write(Transmitter, "off") # Write(Transmitter, "saved")
      /\ \A x \in Turns : x # Read(Low("id1")) /\ x # Read(Low("id2"))
      /\ Read(Low("id1")) # Read(Low("id2"))
  BY DEF Turns, Read, Write, Act, Low, Transmitter, High, None
<1>2. QED
  BY <1>1 DEF Move, Turns, Ids

(* The values that an access writes.                                         *)
LEMMA Written ==
  ASSUME Inv, NEW t \in Thread, at[t] = "command", First(t).op = "write", First(t).reg.n = "1B"
  PROVE  (IF First(t).val = "saved" THEN saved[t] ELSE First(t).val) \in Value
<1>1. todo[t] # <<>>
  BY DEF Inv, Placed, Busy
<1>2. First(t).val \in {"off", "saved"}
  BY <1>1, FirstAct DEF Fits
<1>3. CASE First(t).val = "saved"
  <2>1. First(t) = Write(Transmitter, "saved")
    BY <1>1, <1>3, FirstAct, Writes
  <2>2. PICK p \in Phase : Goes(t, p) /\ Phased(t, p)
    BY DEF Inv, InPhase
  <2>3. \E r \in Phase : Move(p, First(t), r)
    BY <1>1, <2>2, RunsTail DEF Goes, First
  <2>4. p = "off"
    BY <2>1, <2>3, MovesOn
  <2>5. saved[t] # None
    BY <2>2, <2>4 DEF Phased
  <2>6. saved[t] \in Value
    BY <2>5 DEF Inv, TypeOK, Value
  <2>7. QED
    BY <1>3, <2>6
<1>4. CASE First(t).val = "off"
  BY <1>4 DEF Value
<1>5. QED
  BY <1>2, <1>3, <1>4

LEMMA TypesNext ==
  ASSUME PhyAssumption, Inv, Next
  PROVE  TypeOK'
<1> USE DEF Inv
<1>1. CASE Complete
  <2>1. /\ job' = job /\ at' = at /\ todo' = todo /\ saved' = saved /\ lock' = lock
        /\ may' = may /\ id' = id /\ type' = type /\ found' = found /\ dsp' = dsp
        /\ errors' = errors /\ overlap' = overlap /\ wrong' = wrong
        /\ mdic'.ready = TRUE /\ mdic'.op = mdic.op
    BY <1>1, CompleteDoes
  <2>2. Driver' = Driver
    BY <2>1, SameChip
  <2>3. page' \in Page
    <3>1. RegisterAt(mdic) = Select => mdic.n = "1F"
      BY DEF RegisterAt, Select, High, Low, None
    <3>2. mdic.op = "write" /\ RegisterAt(mdic) = Select => mdic.val \in Page
      BY <3>1 DEF Mdic
    <3>3. page \in Page
      BY DEF TypeOK, Page
    <3>4. QED
      BY <1>1, <3>2, <3>3, CompleteDoes
  <2>4. tx' \in Value
    <3>1. RegisterAt(mdic) = Transmitter => mdic.n = "1B"
      BY DEF RegisterAt, Transmitter, Select, High, Low, None
    <3>2. mdic.op = "write" /\ RegisterAt(mdic) = Transmitter => mdic.val \in Value
      BY <3>1 DEF Mdic
    <3>3. tx \in Value
      BY DEF TypeOK, Value
    <3>4. QED
      BY <1>1, <3>2, <3>3, CompleteDoes
  <2>5. page' \in {"0", "1160", "2F40"} /\ tx' \in {"on", "off", "junk", "other"}
    BY <2>3, <2>4 DEF Page, Value
  <2>6. QED
    BY <2>1, <2>2, <2>5 DEF TypeOK
<1>2. ASSUME NEW t \in Thread, Works(t)
      PROVE  TypeOK'
  <2>1. may' = may /\ Driver' = Driver
    BY <1>2, Leaves, SameChip
  <2>2. page' \in {"0", "1160", "2F40"} /\ tx' \in {"on", "off", "junk", "other"}
        /\ dsp' \in {"enabled", "activated"}
    <3>1. CASE Between(t)
      <4>1. First(t) \in Allowed(job[t], Chip, type) /\ First(t).op \in {"reset", "set_dsp"}
        BY <3>1, BetweenDoes, FirstAct
      <4>2. First(t) # Reset => First(t).val \in {"enabled", "activated"}
        BY <3>1, BetweenDoes, FirstAct, <4>1 DEF Fits
      <4>3. page' \in {page, "0"} /\ tx' \in {tx, "on"}
            /\ dsp' = IF First(t) = Reset THEN dsp ELSE First(t).val
        BY <3>1 DEF Between, First
      <4>4. QED
        BY <4>2, <4>3 DEF TypeOK
    <3>2. CASE ~Between(t)
      <4>1. page' = page /\ tx' = tx /\ dsp' = dsp
        BY <1>2, <3>2, Leaves
      <4>2. QED
        BY <4>1 DEF TypeOK
    <3>3. QED
      BY <3>1, <3>2
  <2>3. mdic'.ready \in BOOLEAN /\ mdic'.op \in {None, "read", "write"}
    <3>1. CASE Between(t)
      <4>1. mdic' \in {mdic, Idle}
        BY <3>1 DEF Between
      <4>2. Idle.ready = TRUE /\ Idle.op = None
        BY DEF Idle
      <4>3. QED
        BY <4>1, <4>2 DEF TypeOK
    <3>2. CASE SelectPage(t)
      <4>1. Issue(t, "write", "1F", First(t).reg.page, "selecting")
        BY <3>2, SelectPageDoes
      <4>2. mdic'.op = "write" /\ mdic'.ready = FALSE
        BY <4>1, IssueDoes
      <4>3. QED
        BY <4>2
    <3>3. CASE Access(t)
      <4>1. todo[t] # <<>> /\ First(t).op \in {"read", "write"}
        BY <3>3, AccessDoes DEF Placed, Busy
      <4>2. PICK o, n, v : Issue(t, o, n, v, "accessing") /\ o = First(t).op
        BY <3>3, AccessDoes
      <4>3. mdic'.op = o /\ mdic'.ready = FALSE
        BY <4>2, IssueDoes
      <4>4. QED
        BY <4>1, <4>2, <4>3
    <3>4. CASE ~Between(t) /\ ~SelectPage(t) /\ ~Access(t)
      <4>1. mdic' = mdic
        BY <1>2, <3>4, Leaves
      <4>2. QED
        BY <4>1 DEF TypeOK
    <3>5. QED
      BY <3>1, <3>2, <3>3, <3>4
  <2>4. job' \in [Thread -> {None, "link", "info", "stats", "ioctl", "dump", "reset"}]
    <3>1. CASE Start(t)
      BY <3>1, StartDoes DEF Jobs
    <3>2. CASE End(t)
      <4>1. job' = [job EXCEPT ![t] = None]
        BY <3>2, EndDoes
      <4>2. QED
        BY <4>1 DEF TypeOK
    <3>3. CASE ~Start(t) /\ ~End(t)
      <4>1. job' = job
        BY <1>2, <3>3, Leaves
      <4>2. QED
        BY <4>1 DEF TypeOK
    <3>4. QED
      BY <3>1, <3>2, <3>3
  <2>5. /\ Apart(t) /\ at' = [at EXCEPT ![t] = at'[t]] /\ saved' = [saved EXCEPT ![t] = saved'[t]]
        /\ at'[t] \in {None, "begin", "select", "selecting", "command", "accessing"}
        /\ Len(todo'[t]) <= Len(Driver) /\ (job'[t] = None => todo'[t] = <<>>)
        /\ saved'[t] \in {None, "on", "off", "junk", "other"}
    <3>0. /\ Len(todo[t]) <= Len(Driver) /\ (job[t] = None => todo[t] = <<>>)
          /\ saved[t] \in {None, "on", "off", "junk", "other"}
          /\ saved = [saved EXCEPT ![t] = saved[t]] /\ at = [at EXCEPT ![t] = at[t]]
          /\ at[t] \in {None, "begin", "select", "selecting", "command", "accessing"}
      BY DEF TypeOK
    <3>1. CASE Start(t)
      <4>1. Apart(t) /\ at'[t] = "begin" /\ at' = [at EXCEPT ![t] = "begin"] /\ saved' = saved
            /\ todo'[t] \in Accesses(job'[t]) /\ job'[t] \in Jobs /\ job'[t] # None
        BY <1>2, <3>1, StartDoes, Leaves DEF Jobs, None, End, Fails, Done
      <4>2. type \in {"m88", Chip}
        BY DEF Known
      <4>3. Len(todo'[t]) <= Len(Driver)
        BY <4>1, <4>2, JobsRun
      <4>4. QED
        BY <3>0, <4>1, <4>3
    <3>2. CASE Between(t)
      <4>1. todo[t] # <<>>
        BY <3>2, BetweenDoes
      <4>2. Len(Tail(todo[t])) <= Len(Driver) /\ job[t] # None
        BY <4>1, FirstAct, Jobbed
      <4>3. QED
        BY <3>0, <3>2, <4>2, BetweenDoes
    <3>3. CASE Begin(t)
      BY <3>0, <3>3, BeginDoes
    <3>4. CASE SelectPage(t) \/ Access(t)
      <4>1. \E o, n, v : \E next \in {"selecting", "accessing"} : Issue(t, o, n, v, next)
        BY <3>4, SelectPageDoes, AccessDoes
      <4>2. PICK o, n, v, next : Issue(t, o, n, v, next) /\ next \in {"selecting", "accessing"}
        BY <4>1
      <4>3. /\ Apart(t) /\ at'[t] = next /\ at' = [at EXCEPT ![t] = next]
            /\ job' = job /\ saved' = saved /\ todo' = todo
        BY <4>2, IssueDoes
      <4>4. QED
        BY <3>0, <4>2, <4>3
    <3>6. CASE Selected(t)
      BY <3>0, <3>6, SelectedDoes
    <3>7. CASE Done(t)
      <4>1. todo[t] # <<>>
        BY <3>7, DoneDoes DEF Placed, Busy
      <4>2. Len(Tail(todo[t])) <= Len(Driver) /\ job[t] # None
        BY <4>1, FirstAct, Jobbed
      <4>3. mdic.got.val \in Value
        <5>1. mdic.op # None /\ mdic.ready
          BY <3>7, DoneDoes DEF Mdic, Waits
        <5>2. QED
          BY <5>1 DEF Mdic
      <4>4. QED
        BY <3>0, <3>7, <4>2, <4>3, DoneDoes DEF Value
    <3>8. CASE SkipDetect(t)
      <4>1. todo[t] # <<>>
        BY <3>8, SkipDetectDoes
      <4>2. PICK p \in Phase : Goes(t, p)
        BY DEF InPhase
      <4>3. PICK r \in Phase : /\ Move(p, First(t), r)
                               /\ Runs(Allowed(job[t], Chip, type), Tail(todo[t]), r, "on")
        BY <4>1, <4>2, RunsTail DEF Goes, First
      <4>4. r = "id"
        <5>1. First(t) = Read(Low("id1"))
          BY <3>8, SkipDetectDoes DEF Detection
        <5>2. QED
          BY <4>3, <5>1, MovesOn
      <4>5. Tail(todo[t]) # <<>>
        <5>1. SUFFICES ASSUME Tail(todo[t]) = <<>> PROVE FALSE
          OBVIOUS
        <5>2. Runs(Allowed(job[t], Chip, type), <<>>, "id", "on")
          BY <4>3, <4>4, <5>1
        <5>3. "id" = "on"
          BY <5>2, RunsNothing
        <5>4. QED
          BY <5>3
      <4>6. Len(Tail(Tail(todo[t]))) <= Len(Driver)
        <5>1. Tail(todo[t]) \in Seq(Allowed(job[t], Chip, type))
          BY <4>3 DEF Runs
        <5>2. Len(Tail(Tail(todo[t]))) = Len(Tail(todo[t])) - 1 /\ Len(Tail(todo[t])) \in Nat
          BY <4>5, <5>1
        <5>3. Len(Tail(todo[t])) <= Len(Driver) /\ Len(Driver) \in Nat
          BY <4>1, FirstAct, DriverLen
        <5>4. QED
          BY <5>2, <5>3
      <4>7. job[t] # None
        BY <4>1, Jobbed
      <4>8. QED
        BY <3>0, <3>8, <4>6, <4>7, SkipDetectDoes
    <3>9. CASE End(t)
      BY <3>0, <3>9, EndDoes
    <3>10. CASE Fails(t)
      <4>1. todo[t] # <<>>
        BY <3>10, FailsDoes DEF Placed, Busy
      <4>2. Len(Tail(todo[t])) <= Len(Driver) /\ job[t] # None /\ 0 <= Len(Driver)
        BY <4>1, FirstAct, Jobbed
      <4>3. QED
        BY <3>0, <3>10, <4>2, FailsDoes
    <3>11. QED
      BY <1>2, <3>1, <3>2, <3>3, <3>4, <3>6, <3>7, <3>8, <3>9, <3>10 DEF Works, Step
  <2>6. /\ at' \in [Thread -> {None, "begin", "select", "selecting", "command", "accessing"}]
        /\ saved' \in [Thread -> {None, "on", "off", "junk", "other"}]
    BY <2>5 DEF TypeOK
  <2>7. \A u \in Thread : Len(todo'[u]) <= Len(Driver) /\ (job'[u] = None => todo'[u] = <<>>)
    BY <2>5 DEF TypeOK, Apart
  <2>8. lock' \in Thread \cup {None}
    <3>1. CASE Start(t)
      BY <3>1 DEF Start, TypeOK
    <3>2. CASE End(t)
      BY <3>2 DEF End, TypeOK
    <3>3. CASE ~Start(t) /\ ~End(t)
      BY <1>2, <3>3, Leaves DEF TypeOK
    <3>4. QED
      BY <3>1, <3>2, <3>3
  <2>9. id' \in {None, "high", "whole"} /\ type' \in {"m88", "igp"} /\ found' \in BOOLEAN
    <3>1. CASE Done(t)
      <4>1. Detected(First(t)) /\ Chip \in {"m88", "igp"}
        BY <3>1, DoneDoes DEF Chip
      <4>2. QED
        BY <4>1 DEF Detected, TypeOK, hwVars
    <3>2. CASE SkipDetect(t)
      <4>1. type' = type /\ id' = id /\ found' = TRUE
        BY <3>2, SkipDetectDoes DEF SkipDetect
      <4>2. QED
        BY <4>1 DEF TypeOK
    <3>3. CASE ~Done(t) /\ ~SkipDetect(t)
      BY <1>2, <3>3, Leaves DEF TypeOK
    <3>4. QED
      BY <3>1, <3>2, <3>3
  <2>10. errors' \in 0 .. Errors
    <3>1. CASE Fails(t)
      BY <3>1, FailsDoes, PhyAssumption DEF TypeOK
    <3>2. CASE ~Fails(t)
      BY <1>2, <3>2, Leaves DEF TypeOK
    <3>3. QED
      BY <3>1, <3>2
  <2>11. overlap' \in BOOLEAN
    <3>1. CASE SelectPage(t) \/ Access(t)
      <4>1. overlap' = (overlap \/ \E u \in Thread \ {t} : at[u] \notin {None, "begin"}
                                                   /\ {job[t], job[u]} \ Locked # {})
        BY <3>1 DEF SelectPage, Access, Issue
      <4>2. QED
        BY <4>1
    <3>2. CASE ~SelectPage(t) /\ ~Access(t)
      BY <1>2, <3>2, Leaves DEF TypeOK
    <3>3. QED
      BY <3>1, <3>2
  <2>12. wrong' \in BOOLEAN
    <3>1. CASE Done(t)
      BY <3>1 DEF Done, Reached
    <3>2. CASE ~Done(t)
      BY <1>2, <3>2, Leaves DEF TypeOK
    <3>3. QED
      BY <3>1, <3>2
  <2>13. may' \in Cases
    BY <2>1 DEF TypeOK
  <2>14. QED
    BY <2>1, <2>2, <2>3, <2>4, <2>6, <2>7, <2>8, <2>9, <2>10, <2>11, <2>12, <2>13 DEF TypeOK
<1>3. QED
  BY <1>1, <1>2, NextIs


(* The type of the PHY stays known; only the reset detects it, alone.        *)
LEMMA Undetected ==
  ASSUME Inv, NEW t \in Thread, Works(t)
  PROVE  /\ type = "igp" => type' = "igp"
         /\ \/ id' = id /\ type' = type
            \/ /\ Done(t) /\ First(t) \in Ids /\ job[t] = "reset"
               /\ \A u \in Thread \ {t} : job[u] = None
<1> USE DEF Inv
<1>1. CASE ~Done(t)
  <2>1. type' = type
    BY <1>1, Leaves
  <2>2. id' = id
    BY <1>1, Leaves, SkipDetectDoes
  <2>3. QED
    BY <2>1, <2>2
<1>2. CASE Done(t)
  <2>1. at[t] = "accessing" /\ Detected(First(t))
    BY <1>2, DoneDoes
  <2>2. todo[t] # <<>>
    BY <2>1 DEF Placed, Busy
  <2>3. type \in {"m88", Chip} /\ Chip \in {"m88", "igp"}
    BY DEF Known, Chip
  <2>4. CASE First(t) \in Ids
    <3>1. job[t] = "reset"
      <4>1. First(t) \in Allowed(job[t], Chip, type)
        BY <2>2, FirstAct
      <4>2. QED
        BY <2>4, <4>1 DEF Allowed
    <3>2. "reset" # None
      BY DEF None
    <3>3. \A u \in Thread \ {t} : job[u] = None
      BY <3>1, <3>2 DEF Placed
    <3>4. type' \in {type, Chip}
      BY <2>1 DEF Detected, hwVars
    <3>5. QED
      BY <1>2, <2>3, <2>4, <3>1, <3>3, <3>4
  <2>5. CASE First(t) \notin Ids
    <3>1. Detection[1] \in Ids /\ Detection[2] \in Ids
      BY DEF Detection, Ids
    <3>2. id' = id /\ type' = type
      BY <2>1, <2>5, <3>1 DEF Detected, hwVars
    <3>3. QED
      BY <3>2
  <2>6. QED
    BY <2>4, <2>5
<1>3. QED
  BY <1>1, <1>2

(* A thread that has something to do keeps its job and what excludes others. *)
LEMMA Excludes ==
  ASSUME Inv, NEW t \in Thread, Works(t), NEW u \in Thread, NEW v \in Thread \ {u},
         job'[u] # None, job'[v] # None
  PROVE  job'[u] # "reset" /\ ~Alone
<1> USE DEF Inv
<1>1. Thread = {"watchdog", "ethtool"}
  BY DEF Thread
<1>2. CASE Start(t)
  <2>1. Apart(t) /\ \A w \in Thread \ {t} : job[w] # None =>
                          ~Alone /\ job[w] # "reset" /\ job'[t] # "reset"
    BY <1>2, StartDoes
  <2>2. QED
    BY <1>1, <2>1 DEF Apart
<1>3. CASE End(t)
  <2>1. Apart(t) /\ job'[t] = None
    BY <1>3, EndDoes
  <2>2. QED
    BY <1>1, <2>1 DEF Apart, Placed
<1>4. CASE ~Start(t) /\ ~End(t)
  <2>1. job' = job
    BY <1>4, Leaves
  <2>2. QED
    BY <2>1 DEF Placed
<1>5. QED
  BY <1>2, <1>3, <1>4

LEMMA PlacedNext ==
  ASSUME Inv, Next, NEW u \in Thread
  PROVE  Placed(u)'
<1> USE DEF Inv
<1>1. CASE Complete
  <2>1. /\ job' = job /\ at' = at /\ todo' = todo /\ lock' = lock
        /\ may' = may /\ id' = id /\ type' = type
    BY <1>1, CompleteDoes
  <2>2. Placed(u)
    OBVIOUS
  <2>3. QED
    BY <2>1, <2>2 DEF Placed, Busy, First, Alone
<1>2. ASSUME NEW t \in Thread, Works(t)
      PROVE  Placed(u)'
  <2>0. Alone' = Alone
    BY <1>2, Leaves, SameChip
  <2>1. \A v \in Thread \ {u} : job'[u] # None /\ job'[v] # None => job'[u] # "reset" /\ ~Alone
    BY <1>2, Excludes
  <2>2. Placed(u) /\ Placed(t)
    OBVIOUS
  <2>3. None \notin Thread /\ None \notin Locked /\ None \notin Jobs
    BY DEF None, Thread, Locked, Jobs
  <2>4. ASSUME u # t
        PROVE  Placed(u)'
    <3>1. job'[u] = job[u] /\ at'[u] = at[u] /\ todo'[u] = todo[u]
      <4>1. Apart(t)
        BY <1>2, StaysApart
      <4>2. QED
        BY <2>4, <4>1 DEF Apart
    <3>2. job[u] # None => id' = id /\ type' = type
      BY <1>2, <2>4, Undetected
    <3>3. job[u] \in Locked => lock' = lock
      <4>1. CASE Start(t)
        BY <2>2, <2>3, <4>1, StartDoes DEF Placed
      <4>2. CASE End(t)
        BY <2>2, <2>4, <4>2, EndDoes DEF Placed
      <4>3. CASE ~Start(t) /\ ~End(t)
        BY <1>2, <4>3, Leaves
      <4>4. QED
        BY <4>1, <4>2, <4>3
    <3>4. (at[u] = None <=> job[u] = None) /\ (Busy(u) => at[u] # None)
      BY <2>2 DEF Placed, Busy, None
    <3>5. Busy(u)' = Busy(u) /\ First(u)' = First(u)
      BY <3>1 DEF Busy, First
    <3>6. Busy(u) => id' = id /\ type' = type
      BY <3>2, <3>4
    <3>7. (at[u] \in {"select", "selecting"}) => Busy(u)
      BY DEF Busy
    <3>8. QED
      BY <2>0, <2>1, <2>2, <3>1, <3>3, <3>4, <3>5, <3>6, <3>7 DEF Placed
  <2>5. Placed(t)'
    <3>0. \A v \in Thread \ {t} : job'[t] # None /\ job'[v] # None => job'[t] # "reset" /\ ~Alone
      BY <1>2, Excludes
    <3>1. CASE Start(t)
      <4>1. at'[t] = "begin" /\ job'[t] \in Jobs /\ (job'[t] \in Locked => lock' = t)
        BY <3>1, StartDoes
      <4>2. ~Busy(t)' /\ at'[t] \notin {"select", "selecting", None} /\ job'[t] # None
        BY <2>3, <4>1 DEF Busy, None
      <4>3. QED
        BY <2>0, <3>0, <4>1, <4>2 DEF Placed
    <3>2. CASE End(t)
      <4>1. at'[t] = None /\ job'[t] = None
        BY <3>2, EndDoes
      <4>2. ~Busy(t)' /\ at'[t] \notin {"select", "selecting"}
        BY <4>1 DEF Busy, None
      <4>3. QED
        BY <2>0, <2>3, <3>0, <4>1, <4>2 DEF Placed
    <3>3. CASE Between(t) \/ Done(t) \/ SkipDetect(t) \/ Fails(t)
      <4>1. at'[t] = "begin" /\ at[t] # None
        BY <3>3, BetweenDoes, DoneDoes, SkipDetectDoes, FailsDoes DEF None
      <4>2. ~Start(t) /\ ~End(t)
        BY <3>3 DEF Between, Done, SkipDetect, Fails, Start, Starts, End, Placed, None
      <4>3. job' = job /\ lock' = lock
        BY <1>2, <4>2, Leaves
      <4>4. ~Busy(t)' /\ at'[t] \notin {"select", "selecting", None} /\ job'[t] # None
        BY <2>2, <4>1, <4>3 DEF Busy, None, Placed
      <4>5. QED
        BY <2>0, <2>2, <3>0, <4>3, <4>4 DEF Placed
    <3>4. CASE Begin(t)
      <4>1. /\ at[t] = "begin" /\ todo[t] # <<>> /\ First(t).op \in {"read", "write"}
            /\ First(t) = Detection[1] => id = None
            /\ at'[t] = IF type = "igp" /\ First(t).reg.page # None THEN "select" ELSE "command"
            /\ job' = job /\ todo' = todo /\ id' = id /\ type' = type /\ lock' = lock
        BY <3>4, BeginDoes DEF Begin, hwVars
      <4>2. First(t)' = First(t)
        BY <4>1 DEF First
      <4>3. First(t).reg.page \in Page \cup {None}
        BY <4>1, FirstAct DEF Fits
      <4>4. at[t] # None /\ at'[t] # None /\ job[t] # None
        BY <2>2, <4>1 DEF Placed, None
      <4>5. at'[t] \in {"select", "selecting"} => type = "igp" /\ First(t).reg.page \in Page
        BY <4>1, <4>3
      <4>6. QED
        BY <2>0, <2>2, <3>0, <4>1, <4>2, <4>4, <4>5 DEF Placed
    <3>5. CASE SelectPage(t) \/ Access(t) \/ Selected(t)
      <4>1. /\ Busy(t) /\ at'[t] \in {"selecting", "accessing", "command"}
            /\ at'[t] = "selecting" => at[t] = "select"
        <5>1. CASE SelectPage(t)
          <6>1. at[t] = "select" /\ Issue(t, "write", "1F", First(t).reg.page, "selecting")
            BY <5>1, SelectPageDoes
          <6>2. at'[t] = "selecting"
            BY <6>1, IssueDoes
          <6>3. QED
            BY <6>1, <6>2 DEF Busy
        <5>2. CASE Access(t)
          <6>1. PICK o, n, v : at[t] = "command" /\ Issue(t, o, n, v, "accessing")
            BY <5>2, AccessDoes
          <6>2. at'[t] = "accessing"
            BY <6>1, IssueDoes
          <6>3. QED
            BY <6>1, <6>2 DEF Busy
        <5>3. CASE Selected(t)
          BY <5>3, SelectedDoes DEF Busy
        <5>4. QED
          BY <3>5, <5>1, <5>2, <5>3
      <4>2. job' = job /\ todo' = todo /\ id' = id /\ type' = type /\ lock' = lock
        BY <3>5 DEF SelectPage, Access, Selected, Issue, hwVars
      <4>3. First(t)' = First(t)
        BY <4>2 DEF First
      <4>4. at[t] # None /\ at'[t] # None /\ at'[t] # "select"
        BY <4>1 DEF None, Busy
      <4>5. QED
        BY <2>0, <2>2, <3>0, <4>1, <4>2, <4>3, <4>4 DEF Placed
    <3>6. QED
      BY <1>2, <3>1, <3>2, <3>3, <3>4, <3>5 DEF Works, Step
  <2>6. QED
    BY <2>4, <2>5
<1>3. QED
  BY <1>1, <1>2, NextIs


-----------------------------------------------------------------------------
(* What is known of the PHY, and the command in MDIC.                        *)

LEMMA DetectionIs == Detection[1] = Read(Low("id1")) /\ Detection[2] = Read(Low("id2"))
  BY DEF Detection

(* A thread that is to read PHY_ID1 has not read it yet.                     *)
LEMMA NotTwice ==
  ASSUME Inv, NEW t \in Thread, todo[t] # <<>>, First(t) = Detection[1], errors = 0
  PROVE  id # "high"
<1> USE DEF Inv
<1>1. SUFFICES ASSUME id = "high" PROVE FALSE
  OBVIOUS
<1>2. First(t) \in Ids
  BY DetectionIs DEF Ids
<1>3. job[t] = "reset"
  <2>1. First(t) \in Allowed(job[t], Chip, type)
    BY FirstAct
  <2>2. QED
    BY <1>2, <2>1 DEF Allowed
<1>4. PICK p \in Phase : Goes(t, p) /\ Phased(t, p)
  BY DEF InPhase
<1>5. p = "id"
  BY <1>1, <1>3, <1>4 DEF Phased
<1>6. \E r \in Phase : Move(p, First(t), r)
  BY <1>4, RunsTail DEF Goes, First
<1>7. p = "on"
  BY <1>6, MovesOn, DetectionIs
<1>8. QED
  BY <1>5, <1>7

LEMMA KnownNext ==
  ASSUME Inv, Next
  PROVE  Known'
<1> USE DEF Inv
<1>1. CASE Complete
  <2>1. /\ todo' = todo /\ may' = may /\ id' = id /\ type' = type /\ found' = found
        /\ errors' = errors /\ overlap' = overlap
    BY <1>1, CompleteDoes
  <2>2. Known
    OBVIOUS
  <2>3. QED
    BY <2>1, <2>2, SameChip DEF Known
<1>2. ASSUME NEW t \in Thread, Works(t)
      PROVE  Known'
  <2>1. Chip' = Chip /\ Alone' = Alone
    BY <1>2, Leaves, SameChip
  <2>2. /\ type \in {"m88", Chip} /\ (id = "whole" => type = Chip)
        /\ (found /\ errors = 0 => id = "whole") /\ (Alone => ~overlap)
    BY DEF Known
  <2>3. todo' = [u \in Thread |-> todo'[u]]
    BY <1>2, StaysApart
  <2>4. errors' = 0 => errors = 0
    <3>1. CASE Fails(t)
      <4>1. errors' = errors + 1 /\ errors \in 0 .. Errors
        BY <3>1, FailsDoes DEF TypeOK
      <4>2. QED
        BY <4>1
    <3>2. CASE ~Fails(t)
      BY <1>2, <3>2, Leaves
    <3>3. QED
      BY <3>1, <3>2
  <2>5. /\ type' \in {"m88", Chip}
        /\ id' = "whole" => type' = Chip
        /\ found' /\ errors' = 0 => id' = "whole"
    <3>1. CASE Done(t)
      <4>1. at[t] = "accessing" /\ Detected(First(t))
        BY <3>1, DoneDoes
      <4>2. CASE First(t) = Detection[1]
        <5>1. Busy(t) /\ Placed(t)
          BY <4>1 DEF Busy
        <5>2. id = None
          BY <4>2, <5>1 DEF Placed
        <5>3. id' = "high" /\ type' = type /\ found' = found
          BY <4>1, <4>2 DEF Detected
        <5>4. QED
          BY <2>2, <2>4, <5>2, <5>3 DEF None
      <4>3. CASE First(t) # Detection[1] /\ First(t) = Detection[2] /\ id = "high"
        BY <4>1, <4>3 DEF Detected
      <4>4. CASE First(t) # Detection[1] /\ ~(First(t) = Detection[2] /\ id = "high")
        <5>1. id' = id /\ type' = type /\ found' = found
          BY <4>1, <4>4 DEF Detected, hwVars
        <5>2. QED
          BY <2>2, <2>4, <5>1
      <4>5. QED
        BY <4>2, <4>3, <4>4
    <3>2. CASE SkipDetect(t)
      <4>1. /\ todo[t] # <<>> /\ First(t) = Detection[1] /\ id # None /\ id' = id
            /\ type' = type
        BY <1>2, <3>2, SkipDetectDoes DEF SkipDetect
      <4>2. errors = 0 => id # "high"
        BY <4>1, NotTwice
      <4>3. id \in {None, "high", "whole"}
        BY DEF TypeOK
      <4>4. QED
        BY <2>2, <2>4, <4>1, <4>2, <4>3
    <3>3. CASE ~Done(t) /\ ~SkipDetect(t)
      <4>1. id' = id /\ type' = type /\ found' = found
        BY <1>2, <3>3, Leaves
      <4>2. QED
        BY <2>2, <2>4, <4>1
    <3>4. QED
      BY <3>1, <3>2, <3>3
  <2>6. Alone => ~overlap'
    <3>1. CASE SelectPage(t) \/ Access(t)
      <4>1. overlap' = (overlap \/ \E u \in Thread \ {t} : at[u] \notin {None, "begin"}
                                                   /\ {job[t], job[u]} \ Locked # {})
        BY <3>1 DEF SelectPage, Access, Issue
      <4>2. at[t] \in {"select", "command"}
        BY <3>1 DEF SelectPage, Access
      <4>3. job[t] # None
        BY <4>2 DEF Placed, None
      <4>4. Alone => \A u \in Thread \ {t} : at[u] = None
        BY <4>3 DEF Placed
      <4>5. QED
        BY <2>2, <4>1, <4>4
    <3>2. CASE ~SelectPage(t) /\ ~Access(t)
      BY <1>2, <2>2, <3>2, Leaves
    <3>3. QED
      BY <3>1, <3>2
  <2>7. QED
    BY <2>1, <2>3, <2>5, <2>6 DEF Known
<1>3. QED
  BY <1>1, <1>2, NextIs

(* Which register a command reaches.                                         *)
LEMMA RegisterIs ==
  ASSUME NEW c
  PROVE  /\ RegisterAt(c) = Select <=> c.n = "1F"
         /\ RegisterAt(c) = Transmitter <=> c.n = "1B" /\ page = "2F40"
         /\ c.n \in {"1B", "12", "11"} => RegisterAt(c) = [page |-> page, n |-> c.n]
         /\ c.n \notin {"1F", "1B", "12", "11"} => RegisterAt(c) = [page |-> None, n |-> c.n]
  BY DEF RegisterAt, Select, Transmitter, High, Low, None

(* Threads that wait for MDIC after a step are those before it, but for the  *)
(* one that has written the command.                                         *)
LEMMA WaitsNext ==
  ASSUME Inv, NEW t \in Thread, Works(t), ~SelectPage(t), ~Access(t), NEW u \in Thread
  PROVE  /\ Waits(u)' => Waits(u) /\ u # t
         /\ (Waits(u) /\ ~Selected(t) /\ ~Done(t) /\ ~Fails(t)) => Waits(u)'
<1> USE DEF Inv
<1>1. CASE u # t
  <2>1. Apart(t)
    BY StaysApart
  <2>2. at'[u] = at[u]
    BY <1>1, <2>1 DEF Apart
  <2>3. QED
    BY <1>1, <2>2 DEF Waits
<1>2. CASE u = t
  <2>1. at'[t] \in {"begin", "select", "command", None}
    <3>1. CASE Start(t)
      BY <3>1, StartDoes
    <3>2. CASE Between(t)
      BY <3>2, BetweenDoes
    <3>3. CASE Begin(t)
      BY <3>3, BeginDoes
    <3>4. CASE Selected(t)
      BY <3>4, SelectedDoes
    <3>5. CASE Done(t)
      BY <3>5, DoneDoes
    <3>6. CASE SkipDetect(t)
      BY <3>6, SkipDetectDoes
    <3>7. CASE End(t)
      BY <3>7, EndDoes
    <3>8. CASE Fails(t)
      BY <3>8, FailsDoes
    <3>9. QED
      BY <3>1, <3>2, <3>3, <3>4, <3>5, <3>6, <3>7, <3>8 DEF Works, Step
  <2>2. (~Selected(t) /\ ~Done(t) /\ ~Fails(t)) => at[t] \in {"begin", None}
    <3>1. CASE Start(t)
      BY <3>1, StartDoes DEF Placed
    <3>2. QED
      BY <3>1, BetweenDoes, BeginDoes, SkipDetectDoes, EndDoes DEF Works, Step
  <2>3. QED
    BY <1>2, <2>1, <2>2 DEF Waits, None
<1>3. QED
  BY <1>1, <1>2


LEMMA MdicNext ==
  ASSUME Inv, Next
  PROVE  Mdic'
<1> USE DEF Inv
<1>0. /\ mdic = [op |-> mdic.op, n |-> mdic.n, val |-> mdic.val, ready |-> mdic.ready,
                 got |-> mdic.got]
      /\ mdic.op = "write" /\ mdic.n = "1F" => mdic.val \in Page /\ type = "igp"
      /\ mdic.op = "write" /\ mdic.n = "1B" => mdic.val \in Value
      /\ mdic.ready /\ mdic.op # None => mdic.got.val \in Value
      /\ (\E t \in Thread : Waits(t)) => mdic.op # None
      /\ type # "igp" => page = "0" /\ tx = "on"
      /\ (Alone /\ errors = 0 /\ ~mdic.ready) => \E t \in Thread : Waits(t)
  BY DEF Mdic
<1>1. CASE Complete
  <2>1. /\ at' = at /\ may' = may /\ type' = type /\ errors' = errors
        /\ mdic'.ready = TRUE
        /\ mdic'.op = mdic.op /\ mdic'.n = mdic.n /\ mdic'.val = mdic.val
        /\ mdic' = [op |-> mdic'.op, n |-> mdic'.n, val |-> mdic'.val, ready |-> mdic'.ready,
                     got |-> mdic'.got]
    BY <1>1, CompleteDoes
  <2>2. mdic'.got.val \in Value
    <3>1. mdic'.got.val = IF RegisterAt(mdic) = Transmitter THEN tx ELSE "other"
      BY <1>1, CompleteDoes
    <3>2. tx \in Value /\ "other" \in Value
      BY DEF TypeOK, Value
    <3>3. QED
      BY <3>1, <3>2
  <2>3. type # "igp" => page' = "0" /\ tx' = "on"
    <3>1. RegisterAt(mdic) = Select => mdic.n = "1F"
      BY RegisterIs
    <3>2. RegisterAt(mdic) = Transmitter => page = "2F40"
      BY RegisterIs
    <3>3. page' = IF mdic.op = "write" /\ RegisterAt(mdic) = Select THEN mdic.val ELSE page
      BY <1>1, CompleteDoes
    <3>4. tx' = IF mdic.op = "write" /\ RegisterAt(mdic) = Transmitter THEN mdic.val ELSE tx
      BY <1>1, CompleteDoes
    <3>5. QED
      BY <1>0, <3>1, <3>2, <3>3, <3>4
  <2>4. \A t \in Thread : Waits(t)' = Waits(t)
    BY <2>1 DEF Waits
  <2>5. QED
    BY <1>0, <2>1, <2>2, <2>3, <2>4 DEF Mdic
<1>2. ASSUME NEW t \in Thread, Works(t)
      PROVE  Mdic'
  <2>1. Alone' = Alone /\ (type = "igp" => type' = "igp")
    BY <1>2, Leaves, SameChip, Undetected
  <2>2. errors' = 0 => errors = 0 /\ ~Fails(t)
    <3>1. CASE Fails(t)
      <4>1. errors' = errors + 1 /\ errors \in 0 .. Errors
        BY <3>1, FailsDoes DEF TypeOK
      <4>2. QED
        BY <4>1
    <3>2. CASE ~Fails(t)
      BY <1>2, <3>2, Leaves
    <3>3. QED
      BY <3>1, <3>2
  <2>3. type' # "igp" => page' = "0" /\ tx' = "on"
    <3>1. page' \in {page, "0"} /\ tx' \in {tx, "on"}
      <4>1. CASE Between(t)
        BY <4>1 DEF Between
      <4>2. CASE ~Between(t)
        BY <1>2, <4>2, Leaves
      <4>3. QED
        BY <4>1, <4>2
    <3>2. QED
      BY <1>0, <2>1, <3>1
  <2>4. CASE SelectPage(t) \/ Access(t)
    <3>1. /\ mdic' = [op |-> mdic'.op, n |-> mdic'.n, val |-> mdic'.val, ready |-> mdic'.ready,
                      got |-> mdic'.got]
          /\ mdic'.ready = FALSE /\ mdic'.op \in {"read", "write"}
          /\ mdic'.op = "write" /\ mdic'.n = "1F" => mdic'.val \in Page /\ type = "igp"
          /\ mdic'.op = "write" /\ mdic'.n = "1B" => mdic'.val \in Value
          /\ at'[t] \in {"selecting", "accessing"}
      <4>1. CASE SelectPage(t)
        <5>1. at[t] = "select" /\ Issue(t, "write", "1F", First(t).reg.page, "selecting")
          BY <4>1, SelectPageDoes
        <5>2. /\ mdic' = [op |-> "write", n |-> "1F", val |-> First(t).reg.page, ready |-> FALSE,
                          got |-> None]
              /\ at'[t] = "selecting"
          BY <5>1, IssueDoes
        <5>3. type = "igp" /\ First(t).reg.page \in Page
          BY <5>1 DEF Placed
        <5>4. QED
          BY <5>2, <5>3
      <4>2. CASE Access(t)
        <5> DEFINE w == IF First(t).val = "saved" THEN saved[t] ELSE First(t).val
        <5>1. PICK o, n, v : /\ at[t] = "command" /\ Issue(t, o, n, v, "accessing")
                             /\ o = First(t).op /\ n = First(t).reg.n /\ v = w
          BY <4>2, AccessDoes
        <5>0. Issue(t, o, n, v, "accessing")
          BY <5>1
        <5>2. /\ mdic' = [op |-> o, n |-> n, val |-> v, ready |-> FALSE, got |-> None]
              /\ at'[t] = "accessing"
          BY <5>0, IssueDoes
        <5>3. Busy(t) /\ Placed(t)
          BY <5>1 DEF Busy
        <5>4. todo[t] # <<>> /\ First(t).op \in {"read", "write"}
          BY <5>3 DEF Placed
        <5>5. First(t) \in Allowed(job[t], Chip, type)
          BY <5>4, FirstAct
        <5>6. First(t).reg.n = "1F" => type = "igp" /\ First(t).val \in Page
          BY <5>4, FirstAct DEF Fits
        <5>7. "saved" \notin Page
          BY DEF Page
        <5>8. n = "1F" => type = "igp" /\ v \in Page
          BY <5>1, <5>6, <5>7
        <5>9. o = "write" /\ n = "1B" => w \in Value
          BY <5>1, Written
        <5> HIDE DEF w
        <5>10. /\ mdic'.op = o /\ mdic'.n = n /\ mdic'.val = v /\ mdic'.ready = FALSE
               /\ mdic'.got = None
          BY <5>2
        <5>11. mdic' = [op |-> mdic'.op, n |-> mdic'.n, val |-> mdic'.val, ready |-> mdic'.ready,
                        got |-> mdic'.got]
          BY <5>2, <5>10
        <5>12. QED
          BY <5>1, <5>2, <5>4, <5>8, <5>9, <5>10, <5>11
      <4>3. QED
        BY <2>4, <4>1, <4>2
    <3>2. Waits(t)' /\ mdic'.op # None
      BY <3>1 DEF Waits, None
    <3>3. QED
      BY <2>1, <2>3, <3>1, <3>2 DEF Mdic
  <2>5. CASE Between(t) /\ mdic' # mdic
    <3>1. mdic' = Idle /\ First(t) = Reset
      BY <2>5 DEF Between, First
    <3>2. at[t] = "begin" /\ todo[t] # <<>>
      BY <2>5, BetweenDoes
    <3>3. First(t) \in Allowed(job[t], Chip, type)
      BY <3>2, FirstAct
    <3>4. job[t] = "reset"
      BY <3>1, <3>3 DEF Allowed
    <3>5. "reset" # None /\ "begin" # None
      BY DEF None
    <3>6. \A u \in Thread \ {t} : at[u] = None
      BY <3>4, <3>5 DEF Placed
    <3>7. \A u \in Thread : ~Waits(u)
      BY <3>2, <3>6 DEF Waits, None
    <3>8. \A u \in Thread : ~Waits(u)'
      BY <2>5, <3>7 DEF Between, Waits
    <3>9. /\ mdic'.op = None /\ mdic'.ready = TRUE
          /\ mdic' = [op |-> mdic'.op, n |-> mdic'.n, val |-> mdic'.val, ready |-> mdic'.ready,
                      got |-> mdic'.got]
      BY <3>1 DEF Idle
    <3>10. None # "write"
      BY DEF None
    <3>11. QED
      BY <2>3, <3>8, <3>9, <3>10 DEF Mdic
  <2>6. CASE ~SelectPage(t) /\ ~Access(t) /\ mdic' = mdic
    <3>1. \A u \in Thread : Waits(u)' => Waits(u)
      BY <1>2, <2>6, WaitsNext
    <3>2. (Alone' /\ errors' = 0 /\ ~mdic'.ready) => \E u \in Thread : Waits(u)'
      <4>1. SUFFICES ASSUME Alone', errors' = 0, ~mdic'.ready
                     PROVE  \E u \in Thread : Waits(u)'
        OBVIOUS
      <4>2. PICK u \in Thread : Waits(u)
        BY <1>0, <2>1, <2>2, <2>6, <4>1
      <4>3. ~Selected(t) /\ ~Done(t)
        BY <2>6, <4>1, SelectedDoes, DoneDoes
      <4>4. Waits(u)'
        BY <1>2, <2>2, <2>6, <4>1, <4>2, <4>3, WaitsNext
      <4>5. QED
        BY <4>4
    <3>3. QED
      BY <1>0, <2>1, <2>3, <2>6, <3>1, <3>2 DEF Mdic
  <2>7. QED
    BY <1>2, <2>4, <2>5, <2>6, Leaves
<1>3. QED
  BY <1>1, <1>2, NextIs

(* The register that a thread has asked for is the one its command reaches.  *)
LEMMA ReachesFirst ==
  ASSUME Inv, NEW t \in Thread, Busy(t), mdic.n = First(t).reg.n, type = Chip, OnPage(t)
  PROVE  RegisterAt(mdic) = First(t).reg
<1> USE DEF Inv
<1>1. todo[t] # <<>> /\ First(t).op \in {"read", "write"}
  BY DEF Placed
<1>2. First(t) \in Allowed(job[t], Chip, type)
  BY <1>1, FirstAct
<1> DEFINE r == First(t).reg
<1>3. /\ r = [page |-> r.page, n |-> r.n]
      /\ r.page = None <=> r.n \notin {"1F", "1B", "12", "11"}
      /\ r.page \in Page \cup {None}
      /\ r.n = "1F" => r = Select
      /\ type # "igp" => r.page \in {None, "0"}
  BY <1>1, FirstAct DEF Fits
<1>4. OnPage(t) = (type = "igp" /\ r.page # None => page = r.page)
  BY DEF OnPage
<1>5. type # "igp" => page = "0"
  BY DEF Mdic
<1>6. mdic.n = r.n
  OBVIOUS
<1> HIDE DEF r
<1>7. CASE r.n = "1F"
  BY <1>3, <1>6, <1>7, RegisterIs DEF r
<1>8. CASE r.n \in {"1B", "12", "11"}
  <2>1. r.page # None
    BY <1>3, <1>8
  <2>2. page = r.page
    BY <1>3, <1>4, <1>5, <2>1
  <2>3. RegisterAt(mdic) = [page |-> page, n |-> mdic.n]
    BY <1>6, <1>8, RegisterIs
  <2>4. QED
    BY <1>3, <1>6, <2>2, <2>3 DEF r
<1>9. CASE r.n \notin {"1F", "1B", "12", "11"}
  <2>1. r.page = None
    BY <1>3, <1>9
  <2>2. RegisterAt(mdic) = [page |-> None, n |-> mdic.n]
    BY <1>6, <1>9, RegisterIs
  <2>3. QED
    BY <1>3, <1>6, <2>1, <2>2 DEF r
<1>10. QED
  BY <1>7, <1>8, <1>9 DEF r


LEMMA RightNext ==
  ASSUME Inv, Next, NEW u \in Thread
  PROVE  Right(u)'
<1> USE DEF Inv
<1>0. Right(u) /\ Placed(u)
  OBVIOUS
<1>1. CASE Complete
  <2>1. /\ at' = at /\ todo' = todo /\ may' = may /\ type' = type /\ overlap' = overlap
        /\ ~mdic.ready /\ mdic'.ready = TRUE
        /\ mdic'.op = mdic.op /\ mdic'.n = mdic.n /\ mdic'.val = mdic.val
        /\ mdic'.got.reg = RegisterAt(mdic) /\ mdic'.got.op = mdic.op
        /\ page' = IF mdic.op = "write" /\ RegisterAt(mdic) = Select THEN mdic.val ELSE page
    <3>1. /\ at' = at /\ todo' = todo /\ may' = may /\ type' = type /\ overlap' = overlap
          /\ ~mdic.ready /\ mdic'.ready = TRUE
          /\ mdic'.op = mdic.op /\ mdic'.n = mdic.n /\ mdic'.val = mdic.val
      BY <1>1, CompleteDoes
    <3>2. mdic'.got.reg = RegisterAt(mdic) /\ mdic'.got.op = mdic.op
      BY <1>1, CompleteDoes
    <3>3. page' = IF mdic.op = "write" /\ RegisterAt(mdic) = Select THEN mdic.val ELSE page
      BY <1>1, CompleteDoes
    <3>4. QED
      BY <3>1, <3>2, <3>3
  <2>2. Chip' = Chip /\ First(u)' = First(u)
    BY <2>1, SameChip DEF First
  <2>3. SUFFICES ASSUME type = Chip, ~overlap
                 PROVE  Right(u)'
    BY <2>1, <2>2 DEF Right
  <2>4. CASE at[u] = "selecting"
    <3>1. mdic.op = "write" /\ mdic.n = "1F" /\ mdic.val = First(u).reg.page
      BY <1>0, <2>3, <2>4 DEF Right
    <3>2. page' = First(u).reg.page
      BY <2>1, <3>1, RegisterIs
    <3>3. QED
      BY <2>1, <2>2, <2>4, <3>1, <3>2 DEF Right
  <2>5. CASE at[u] = "command"
    <3>1. ~(type = "igp" /\ First(u).reg.page # None)
      BY <1>0, <2>1, <2>3, <2>5 DEF Right
    <3>2. QED
      BY <2>1, <2>2, <2>5, <3>1 DEF Right, OnPage
  <2>6. CASE at[u] = "accessing"
    <3>1. mdic.op = First(u).op /\ mdic.n = First(u).reg.n /\ OnPage(u)
      BY <1>0, <2>1, <2>3, <2>6 DEF Right
    <3>2. RegisterAt(mdic) = First(u).reg
      BY <2>3, <2>6, <3>1, ReachesFirst DEF Busy
    <3>3. QED
      BY <2>1, <2>2, <2>6, <3>1, <3>2 DEF Right
  <2>7. CASE at[u] \notin {"selecting", "command", "accessing"}
    BY <2>1, <2>7 DEF Right
  <2>8. QED
    BY <2>4, <2>5, <2>6, <2>7
<1>2. ASSUME NEW t \in Thread, Works(t)
      PROVE  Right(u)'
  <2>1. Chip' = Chip /\ Apart(t)
    BY <1>2, Leaves, SameChip, StaysApart
  <2>2. CASE u # t
    <3>1. at'[u] = at[u] /\ First(u)' = First(u)
      BY <2>1, <2>2 DEF Apart, First
    <3>2. CASE at[u] \notin {"selecting", "command", "accessing"}
      BY <3>1, <3>2 DEF Right
    <3>3. CASE at[u] \in {"selecting", "command", "accessing"}
      <4>1. job[u] # None /\ at[u] \notin {None, "begin"}
        BY <1>0, <3>3 DEF Placed, None
      <4>2. type' = type
        BY <1>2, <2>2, <4>1, Undetected
      <4>3. CASE SelectPage(t) \/ Access(t)
        <5>1. PICK o, n, v, next : Issue(t, o, n, v, next) /\ at[t] \in {"select", "command"}
          BY <4>3, SelectPageDoes, AccessDoes
        <5>2. Issue(t, o, n, v, next)
          BY <5>1
        <5>3. {job[t], job[u]} \subseteq Locked => lock = t /\ lock = u
          BY DEF Placed
        <5>4. ~overlap' => \A x \in Thread \ {t} :
                            at[x] \in {None, "begin"} \/ {job[t], job[x]} \subseteq Locked
          BY <5>2, IssueDoes
        <5>5. ~overlap' => {job[t], job[u]} \subseteq Locked
          BY <2>2, <4>1, <5>4
        <5>6. overlap'
          BY <2>2, <5>3, <5>5
        <5>7. QED
          BY <5>6 DEF Right
      <4>4. CASE ~SelectPage(t) /\ ~Access(t) /\ ~Between(t)
        <5>1. mdic' = mdic /\ page' = page /\ overlap' = overlap
          BY <1>2, <4>4, Leaves
        <5>2. QED
          BY <1>0, <2>1, <3>1, <4>2, <5>1 DEF Right, OnPage
      <4>5. CASE Between(t)
        <5>1. at[t] = "begin" /\ todo[t] # <<>>
          BY <4>5, BetweenDoes
        <5>2. job[t] # "reset"
          <6>1. "begin" # None
            BY DEF None
          <6>2. job[t] # None
            BY <5>1, <6>1 DEF Placed
          <6>3. QED
            BY <2>2, <4>1, <6>2 DEF Placed
        <5>3. First(t) # Reset
          <6>1. First(t) \in Allowed(job[t], Chip, type)
            BY <5>1, FirstAct
          <6>2. QED
            BY <5>2, <6>1 DEF Allowed
        <5>4. mdic' = mdic /\ page' = page
          BY <4>5, <5>3 DEF Between, First
        <5>5. overlap' = overlap
          BY <1>2, <4>5, Leaves DEF Between, SelectPage, Access
        <5>6. QED
          BY <1>0, <2>1, <3>1, <4>2, <5>4, <5>5 DEF Right, OnPage
      <4>6. QED
        BY <4>3, <4>4, <4>5
    <3>4. QED
      BY <3>2, <3>3
  <2>3. CASE u = t
    <3>1. CASE Begin(t)
      <4>1. /\ at'[t] = IF type = "igp" /\ First(t).reg.page # None THEN "select" ELSE "command"
            /\ todo' = todo /\ type' = type
        BY <3>1, BeginDoes DEF Begin, hwVars
      <4>2. First(t)' = First(t)
        BY <4>1 DEF First
      <4>3. at'[t] \notin {"selecting", "accessing"}
        BY <4>1
      <4>4. at'[t] = "command" => ~(type = "igp" /\ First(t).reg.page # None)
        BY <4>1
      <4>5. QED
        BY <2>3, <4>1, <4>2, <4>3, <4>4 DEF Right, OnPage
    <3>2. CASE SelectPage(t)
      <4>1. PICK v : Issue(t, "write", "1F", v, "selecting") /\ v = First(t).reg.page
        BY <3>2, SelectPageDoes
      <4>2. Issue(t, "write", "1F", v, "selecting")
        BY <4>1
      <4>3. /\ at'[t] = "selecting" /\ mdic'.op = "write" /\ mdic'.n = "1F"
            /\ mdic'.val = v /\ mdic'.ready = FALSE /\ todo' = todo
        BY <4>2, IssueDoes
      <4>4. First(t)' = First(t)
        BY <4>3 DEF First
      <4>5. QED
        BY <2>3, <4>1, <4>3, <4>4 DEF Right
    <3>3. CASE Access(t)
      <4>1. PICK o, n, v : /\ at[t] = "command" /\ Issue(t, o, n, v, "accessing")
                           /\ o = First(t).op /\ n = First(t).reg.n
        BY <3>3, AccessDoes
      <4>2. Issue(t, o, n, v, "accessing")
        BY <4>1
      <4>3. /\ at'[t] = "accessing" /\ mdic'.op = o /\ mdic'.n = n
            /\ mdic'.ready = FALSE /\ todo' = todo /\ (~overlap' => ~overlap)
        BY <4>2, IssueDoes
      <4>4. First(t)' = First(t)
        BY <4>3 DEF First
      <4>5. page' = page /\ type' = type
        BY <3>3 DEF Access, Issue, hwVars
      <4>6. (type = Chip /\ ~overlap) => OnPage(t)
        BY <1>0, <2>3, <4>1 DEF Right
      <4>7. (type = Chip /\ ~overlap) => OnPage(t)'
        BY <4>4, <4>5, <4>6 DEF OnPage
      <4>8. QED
        BY <2>1, <2>3, <4>1, <4>3, <4>4, <4>5, <4>7 DEF Right
    <3>4. CASE Selected(t)
      <4>1. at[t] = "selecting" /\ mdic.ready /\ at'[t] = "command" /\ todo' = todo
        BY <3>4, SelectedDoes
      <4>2. mdic' = mdic /\ page' = page /\ type' = type /\ overlap' = overlap
        BY <3>4 DEF Selected, hwVars, history
      <4>3. First(t)' = First(t)
        BY <4>1 DEF First
      <4>4. (type = Chip /\ ~overlap) => page = First(t).reg.page
        BY <1>0, <2>3, <4>1 DEF Right
      <4>5. QED
        BY <2>1, <2>3, <4>1, <4>2, <4>3, <4>4 DEF Right, OnPage
    <3>5. CASE Start(t) \/ Between(t) \/ Done(t) \/ SkipDetect(t) \/ End(t) \/ Fails(t)
      <4>1. at'[t] \in {None, "begin"}
        BY <3>5, StartDoes, BetweenDoes, DoneDoes, SkipDetectDoes, EndDoes, FailsDoes
      <4>2. at'[t] \notin {"selecting", "command", "accessing"}
        BY <4>1 DEF None
      <4>3. QED
        BY <2>3, <4>2 DEF Right
    <3>6. QED
      BY <1>2, <3>1, <3>2, <3>3, <3>4, <3>5 DEF Works, Step
  <2>4. QED
    BY <2>2, <2>3
<1>3. QED
  BY <1>1, <1>2, NextIs

(* A thread that nobody has interrupted gets the answer of its register.     *)
LEMMA AnswerNext ==
  ASSUME Inv, Next, ~overlap'
  PROVE  ~wrong'
<1> USE DEF Inv
<1>1. CASE Complete
  <2>1. overlap' = overlap /\ wrong' = wrong
    BY <1>1, CompleteDoes
  <2>2. QED
    BY <2>1
<1>2. ASSUME NEW t \in Thread, Works(t)
      PROVE  ~wrong'
  <2>1. ~overlap
    <3>1. CASE SelectPage(t) \/ Access(t)
      <4>1. PICK o, n, v, next : Issue(t, o, n, v, next)
        BY <3>1, SelectPageDoes, AccessDoes
      <4>2. QED
        BY <4>1, IssueDoes
    <3>2. CASE ~SelectPage(t) /\ ~Access(t)
      BY <1>2, <3>2, Leaves
    <3>3. QED
      BY <3>1, <3>2
  <2>2. ~wrong
    BY <2>1
  <2>3. CASE Done(t)
    <3>1. at[t] = "accessing" /\ mdic.ready /\ Reached(First(t))
      BY <2>3, DoneDoes
    <3>2. type = Chip => mdic.got.reg = First(t).reg /\ mdic.got.op = First(t).op
      BY <2>1, <3>1 DEF Right
    <3>3. QED
      BY <2>2, <3>1, <3>2 DEF Reached
  <2>4. CASE ~Done(t)
    BY <1>2, <2>2, <2>4, Leaves
  <2>5. QED
    BY <2>3, <2>4
<1>3. QED
  BY <1>1, <1>2, NextIs


-----------------------------------------------------------------------------
(* The phases.                                                               *)

LEMMA AllowedGrows ==
  ASSUME Inv, NEW t \in Thread, Works(t), NEW j
  PROVE  Allowed(j, Chip, type) \subseteq Allowed(j, Chip', type')
<1>1. Chip' = Chip
  BY Leaves, SameChip
<1>2. type = "igp" => type' = "igp"
  BY Undetected
<1>3. QED
  BY <1>1, <1>2 DEF Allowed

LEMMA StillCalm ==
  ASSUME Inv, NEW t \in Thread, Works(t)
  PROVE  /\ errors' = 0 => errors = 0 /\ ~Fails(t)
         /\ Alone' = Alone
         /\ Calm' => Alone /\ errors = 0 /\ type' = "igp"
         /\ Calm' /\ type' = type => Calm
         /\ Calm => type = Chip /\ ~overlap
<1>1. Alone' = Alone
  BY Leaves, SameChip
<1>2. errors' = 0 => errors = 0 /\ ~Fails(t)
  <2>1. CASE Fails(t)
    <3>1. errors' = errors + 1 /\ errors \in 0 .. Errors
      BY <2>1, FailsDoes DEF TypeOK, Inv
    <3>2. QED
      BY <3>1
  <2>2. CASE ~Fails(t)
    BY <2>2, Leaves
  <2>3. QED
    BY <2>1, <2>2
<1>3. type \in {"m88", Chip} /\ (Alone => ~overlap)
  BY DEF Inv, Known
<1>4. QED
  BY <1>1, <1>2, <1>3 DEF Calm

(* The other threads keep their phase; if there are any at work, nothing is  *)
(* said of the transmitter.                                                  *)
LEMMA OtherPhase ==
  ASSUME Inv, NEW t \in Thread, Works(t), NEW u \in Thread \ {t}
  PROVE  InPhase(u)'
<1> USE DEF Inv
<1>1. PICK p \in Phase : Goes(u, p) /\ Phased(u, p)
  BY DEF InPhase
<1>2. job'[u] = job[u] /\ at'[u] = at[u] /\ todo'[u] = todo[u] /\ saved'[u] = saved[u]
  BY StaysApart DEF Apart
<1>3. Goes(u, p)'
  <2>1. Runs(Allowed(job[u], Chip', type'), todo[u], p, "on")
    BY <1>1, AllowedGrows, RunsAllowed DEF Goes
  <2>2. QED
    BY <1>2, <2>1 DEF Goes
<1>4. CASE job[u] = None
  <2>1. p = "on" /\ None # "reset"
    BY <1>1, <1>4 DEF Phased, None
  <2>2. Phased(u, p)'
    BY <1>2, <1>4, <2>1 DEF Phased
  <2>3. QED
    BY <1>1, <1>3, <2>2 DEF InPhase
<1>5. CASE job[u] # None
  <2>1. job[u] # "reset" /\ ~Alone
    <3>1. CASE Start(t)
      BY <1>5, <3>1, StartDoes
    <3>2. CASE ~Start(t)
      <4>1. at[t] # None
        BY <3>2, BetweenDoes, BeginDoes, SelectPageDoes, AccessDoes, SelectedDoes, DoneDoes,
           SkipDetectDoes, EndDoes, FailsDoes DEF Works, Step, None
      <4>2. job[t] # None
        BY <4>1 DEF Placed
      <4>3. QED
        BY <1>5, <4>2 DEF Placed
    <3>3. QED
      BY <3>1, <3>2
  <2>2. ~Calm'
    BY <2>1, StillCalm
  <2>3. /\ p # "on" => job[u] # None
        /\ p \in {"read", "off"} => saved[u] # None
        /\ p = "id" => job[u] = "reset"
    BY <1>1 DEF Phased
  <2>4. Phased(u, p)'
    BY <1>2, <2>1, <2>2, <2>3 DEF Phased
  <2>5. QED
    BY <1>1, <1>3, <2>4 DEF InPhase
<1>6. QED
  BY <1>4, <1>5

(* A thread alone with the PHY is the one that the command is from.          *)
LEMMA OnlyOne ==
  ASSUME Inv, NEW t \in Thread, job[t] # None, Alone, errors = 0, ~mdic.ready
  PROVE  Waits(t)
<1> USE DEF Inv
<1>1. PICK u \in Thread : Waits(u)
  BY DEF Mdic
<1>2. job[u] # None
  BY <1>1 DEF Placed, Waits, None
<1>3. QED
  BY <1>1, <1>2 DEF Placed

LEMMA CompletePhase ==
  ASSUME Inv, Complete, NEW t \in Thread
  PROVE  InPhase(t)'
<1> USE DEF Inv
<1>1. PICK p \in Phase : Goes(t, p) /\ Phased(t, p)
  BY DEF InPhase
<1>2. /\ job' = job /\ at' = at /\ todo' = todo /\ saved' = saved
      /\ may' = may /\ id' = id /\ type' = type /\ errors' = errors
      /\ ~mdic.ready /\ mdic'.val = mdic.val
  BY CompleteDoes
<1>3. Chip' = Chip /\ Alone' = Alone /\ First(t)' = First(t)
  BY <1>2, SameChip DEF First
<1>4. Goes(t, p)'
  BY <1>1, <1>2, <1>3 DEF Goes
<1>5. tx' = IF mdic.op = "write" /\ RegisterAt(mdic) = Transmitter THEN mdic.val ELSE tx
  BY CompleteDoes
<1>6. mdic'.got.val = IF RegisterAt(mdic) = Transmitter THEN tx ELSE "other"
  BY CompleteDoes
<1>7. Calm' = Calm
  BY <1>2, <1>3 DEF Calm
<1>8. ASSUME Calm, job[t] # None
      PROVE  /\ p \in {"on", "id"} => tx' = "on"
             /\ (at[t] = "accessing" /\ First(t) = Read(Transmitter)) => mdic'.got.val = "on"
             /\ (at[t] = "accessing" /\ First(t) = Write(Transmitter, "saved")) =>
                  mdic.val = "on" /\ tx' = "on"
  <2>1. Waits(t)
    BY <1>2, <1>8, OnlyOne DEF Calm
  <2>2. type = Chip /\ ~overlap /\ type = "igp"
    BY <1>8 DEF Calm, Known
  <2>3. todo[t] # <<>> /\ First(t).op \in {"read", "write"}
    BY <2>1 DEF Placed, Busy, Waits
  <2>4. PICK r \in Phase : Move(p, First(t), r)
    BY <1>1, <2>3, RunsTail DEF Goes, First
  <2>5. CASE at[t] = "selecting"
    <3>1. mdic.n = "1F"
      BY <2>2, <2>5 DEF Right
    <3>2. RegisterAt(mdic) # Transmitter
      BY <3>1, RegisterIs
    <3>3. tx' = tx
      BY <1>5, <3>2
    <3>4. QED
      BY <1>1, <1>8, <2>5, <3>3 DEF Phased
  <2>6. CASE at[t] = "accessing"
    <3>1. mdic.op = First(t).op /\ mdic.n = First(t).reg.n /\ OnPage(t)
      BY <1>2, <2>2, <2>6 DEF Right
    <3>2. RegisterAt(mdic) = First(t).reg
      BY <2>2, <2>6, <3>1, ReachesFirst DEF Busy
    <3>3. p \in {"on", "id"} => tx' = "on"
      <4>1. SUFFICES ASSUME p \in {"on", "id"}
                     PROVE  tx' = tx
        BY <1>1, <1>8 DEF Phased
      <4>2. SUFFICES ASSUME mdic.op = "write", RegisterAt(mdic) = Transmitter
                     PROVE  FALSE
        BY <1>5
      <4>3. First(t).op = "write" /\ First(t).reg.n = "1B"
        BY <3>1, <4>2, RegisterIs
      <4>4. First(t) \in Turns /\ First(t) # Read(Transmitter)
        BY <2>3, <4>3, FirstAct, Writes
      <4>5. p \in {"read", "off"}
        BY <2>4, <4>4, MovesOn DEF Turns
      <4>6. QED
        BY <4>1, <4>5
    <3>4. First(t) = Read(Transmitter) => mdic'.got.val = "on"
      <4>1. SUFFICES ASSUME First(t) = Read(Transmitter)
                     PROVE  mdic'.got.val = "on"
        OBVIOUS
      <4>2. p = "on"
        BY <2>4, <4>1, MovesOn
      <4>3. tx = "on"
        BY <1>1, <1>8, <4>2 DEF Phased
      <4>4. RegisterAt(mdic) = Transmitter
        BY <3>2, <4>1 DEF Read, Act
      <4>5. QED
        BY <1>6, <4>3, <4>4
    <3>5. First(t) = Write(Transmitter, "saved") => mdic.val = "on" /\ tx' = "on"
      <4>1. SUFFICES ASSUME First(t) = Write(Transmitter, "saved")
                     PROVE  mdic.val = "on" /\ tx' = "on"
        OBVIOUS
      <4>2. mdic.val = "on"
        BY <1>1, <1>8, <2>6, <4>1 DEF Phased
      <4>3. RegisterAt(mdic) = Transmitter /\ mdic.op = "write"
        BY <3>1, <3>2, <4>1 DEF Write, Act
      <4>4. QED
        BY <1>5, <4>2, <4>3
    <3>6. QED
      BY <3>3, <3>4, <3>5
  <2>7. QED
    BY <2>1, <2>5, <2>6 DEF Waits
<1>9. /\ p # "on" => job[t] # None
      /\ p \in {"read", "off"} => saved[t] # None
      /\ p = "id" => job[t] = "reset"
      /\ (Calm /\ job[t] # None) => (p \in {"read", "off"} => saved[t] = "on")
      /\ (errors = 0 /\ id = "high" /\ job[t] = "reset") => p = "id"
  BY <1>1 DEF Phased
<1>10. Phased(t, p)'
  BY <1>2, <1>3, <1>7, <1>8, <1>9 DEF Phased
<1>11. QED
  BY <1>1, <1>4, <1>10 DEF InPhase


(* An access that is done takes the job to its next phase.                   *)
LEMMA TailPhase ==
  ASSUME Inv, NEW t \in Thread, Works(t), job' = job, todo[t] # <<>>, todo'[t] = Tail(todo[t])
  PROVE  \E p, r \in Phase :
           Goes(t, p) /\ Phased(t, p) /\ Move(p, First(t), r) /\ Goes(t, r)'
<1>1. PICK p \in Phase : Goes(t, p) /\ Phased(t, p)
  BY DEF Inv, InPhase
<1>2. PICK r \in Phase : /\ Move(p, First(t), r)
                         /\ Runs(Allowed(job[t], Chip, type), Tail(todo[t]), r, "on")
  BY <1>1, RunsTail DEF Goes, First
<1>3. Runs(Allowed(job[t], Chip', type'), Tail(todo[t]), r, "on")
  BY <1>2, AllowedGrows, RunsAllowed
<1>4. Goes(t, r)'
  BY <1>3 DEF Goes
<1>5. QED
  BY <1>1, <1>2, <1>4

LEMMA StartPhase ==
  ASSUME Inv, NEW t \in Thread, Works(t), Start(t)
  PROVE  InPhase(t)'
<1> USE DEF Inv
<1>1. /\ job[t] = None /\ at'[t] = "begin" /\ todo'[t] \in Accesses(job'[t]) /\ job'[t] \in Jobs
      /\ \A u \in Thread \ {t} :
              job[u] # None => ~Alone /\ job[u] # "reset" /\ job'[t] # "reset"
  BY StartDoes
<1>2. /\ Chip' = Chip /\ Alone' = Alone /\ tx' = tx /\ type' = type /\ id' = id /\ errors' = errors
  BY Leaves, SameChip DEF Start, Starts, hwVars
<1>3. Runs(Allowed(job'[t], Chip, type), todo'[t], "on", "on")
  BY <1>1, JobsRun DEF Known
<1>4. Goes(t, "on")'
  BY <1>2, <1>3 DEF Goes
<1>5. Calm' => tx' = "on"
  <2>1. SUFFICES ASSUME Calm' PROVE tx = "on"
    BY <1>2
  <2>2. Calm /\ Alone
    BY <1>2, <2>1 DEF Calm
  <2>3. \A u \in Thread : job[u] = None
    BY <1>1, <2>2
  <2>4. QED
    BY <2>2, <2>3 DEF Quiet
<1>6. ~(errors' = 0 /\ id' = "high" /\ job'[t] = "reset")
  <2>1. SUFFICES ASSUME errors = 0, id = "high", job'[t] = "reset"
                 PROVE  FALSE
    BY <1>2
  <2>2. PICK u \in Thread : job[u] = "reset"
    BY <2>1 DEF Quiet
  <2>3. "reset" # None
    BY DEF None
  <2>4. QED
    BY <1>1, <2>1, <2>2, <2>3
<1>7. at'[t] # "accessing"
  BY <1>1
<1>8. Phased(t, "on")'
  BY <1>5, <1>6, <1>7 DEF Phased
<1>9. "on" \in Phase
  BY DEF Phase
<1>10. QED
  BY <1>4, <1>8, <1>9 DEF InPhase

LEMMA EndPhase ==
  ASSUME Inv, NEW t \in Thread, Works(t), End(t)
  PROVE  InPhase(t)'
<1>1. job'[t] = None /\ todo'[t] = <<>>
  BY EndDoes DEF Inv
<1>2. "on" \in Phase /\ None # "reset"
  BY DEF Phase, None
<1>3. Goes(t, "on")'
  BY <1>1, <1>2, RunsEmpty DEF Goes
<1>4. Phased(t, "on")'
  BY <1>1, <1>2 DEF Phased
<1>5. QED
  BY <1>2, <1>3, <1>4 DEF InPhase

LEMMA BetweenPhase ==
  ASSUME Inv, NEW t \in Thread, Works(t), Between(t)
  PROVE  InPhase(t)'
<1> USE DEF Inv
<1>1. /\ at[t] = "begin" /\ at' = at /\ todo[t] # <<>> /\ First(t).op \in {"reset", "set_dsp"}
      /\ job' = job /\ saved' = saved /\ todo'[t] = Tail(todo[t])
  BY BetweenDoes
<1>2. PICK p, r \in Phase :
        Goes(t, p) /\ Phased(t, p) /\ Move(p, First(t), r) /\ Goes(t, r)'
  BY <1>1, TailPhase
<1>3. First(t) \notin Turns \cup Ids
  <2>1. \A a \in Turns \cup Ids : a.op \in {"read", "write"}
    BY DEF Turns, Ids, Read, Write, Act
  <2>2. QED
    BY <1>1, <2>1
<1>4. r = p
  BY <1>2, <1>3, MovesOn
<1>5. /\ type' = type /\ id' = id /\ errors' = errors /\ Alone' = Alone
  BY Leaves, SameChip DEF Between, hwVars
<1>6. tx' \in {tx, "on"}
  BY DEF Between
<1>7. at'[t] # "accessing"
  BY <1>1
<1>8. Calm' = Calm
  BY <1>5 DEF Calm
<1>9. Phased(t, p)'
  BY <1>1, <1>2, <1>5, <1>6, <1>7, <1>8 DEF Phased
<1>10. QED
  BY <1>2, <1>4, <1>9 DEF InPhase

(* A step that only prepares an access leaves the phase.                     *)
LEMMA PreparePhase ==
  ASSUME Inv, NEW t \in Thread, Works(t),
         Begin(t) \/ SelectPage(t) \/ Access(t) \/ Selected(t)
  PROVE  InPhase(t)'
<1> USE DEF Inv
<1>1. PICK p \in Phase : Goes(t, p) /\ Phased(t, p)
  BY DEF InPhase
<1>2. /\ job' = job /\ todo' = todo /\ saved' = saved /\ tx' = tx /\ type' = type /\ id' = id
      /\ errors' = errors
  BY DEF Begin, SelectPage, Access, Selected, Issue, hwVars
<1>3. Chip' = Chip /\ Alone' = Alone /\ First(t)' = First(t)
  BY <1>2, Leaves, SameChip DEF First
<1>4. Goes(t, p)'
  BY <1>1, <1>2, <1>3 DEF Goes
<1>5. Calm' = Calm
  BY <1>2, <1>3 DEF Calm
<1>6. CASE Access(t)
  <2> DEFINE w == IF First(t).val = "saved" THEN saved[t] ELSE First(t).val
  <2>1. PICK o, n, v : Issue(t, o, n, v, "accessing") /\ v = w /\ at[t] = "command"
    BY <1>6, AccessDoes
  <2>2. Issue(t, o, n, v, "accessing")
    BY <2>1
  <2>3. mdic'.val = v /\ mdic'.ready = FALSE
    BY <2>2, IssueDoes
  <2>4. (Calm /\ job[t] # None /\ First(t) = Write(Transmitter, "saved")) => mdic'.val = "on"
    <3>1. SUFFICES ASSUME Calm, job[t] # None, First(t) = Write(Transmitter, "saved")
                   PROVE  w = "on"
      BY <2>1, <2>3
    <3>2. todo[t] # <<>>
      BY <2>1 DEF Placed, Busy
    <3>3. \E r \in Phase : Move(p, First(t), r)
      BY <1>1, <3>2, RunsTail DEF Goes, First
    <3>4. p = "off"
      BY <3>1, <3>3, MovesOn
    <3>5. saved[t] = "on"
      BY <1>1, <3>1, <3>4 DEF Phased
    <3>6. First(t).val = "saved"
      BY <3>1 DEF Write, Act
    <3>7. QED
      BY <3>5, <3>6
  <2>5. Phased(t, p)'
    BY <1>1, <1>2, <1>3, <1>5, <2>3, <2>4 DEF Phased
  <2>6. QED
    BY <1>1, <1>4, <2>5 DEF InPhase
<1>7. CASE ~Access(t)
  <2>1. at'[t] \in {"select", "command", "selecting"}
    <3>1. CASE SelectPage(t)
      <4>1. PICK v : Issue(t, "write", "1F", v, "selecting")
        BY <3>1, SelectPageDoes
      <4>2. QED
        BY <4>1, IssueDoes
    <3>2. CASE Begin(t)
      BY <3>2, BeginDoes
    <3>3. CASE Selected(t)
      BY <3>3, SelectedDoes
    <3>4. QED
      BY <1>7, <3>1, <3>2, <3>3
  <2>2. at'[t] # "accessing"
    BY <2>1
  <2>3. Phased(t, p)'
    BY <1>1, <1>2, <1>5, <2>2 DEF Phased
  <2>4. QED
    BY <1>1, <1>4, <2>3 DEF InPhase
<1>8. QED
  BY <1>6, <1>7

LEMMA SkipDetectPhase ==
  ASSUME Inv, NEW t \in Thread, Works(t), SkipDetect(t)
  PROVE  InPhase(t)'
<1> USE DEF Inv
<1>1. /\ at[t] = "begin" /\ at' = at /\ todo[t] # <<>> /\ First(t) = Detection[1]
      /\ job' = job /\ saved' = saved /\ todo'[t] = Tail(Tail(todo[t]))
  BY SkipDetectDoes
<1>2. PICK p \in Phase : Goes(t, p) /\ Phased(t, p)
  BY DEF InPhase
<1> DEFINE A == Allowed(job[t], Chip, type)
<1>3. PICK r \in Phase : Move(p, First(t), r) /\ Runs(A, Tail(todo[t]), r, "on")
  BY <1>1, <1>2, RunsTail DEF Goes, First
<1>4. p = "on" /\ r = "id"
  BY <1>1, <1>3, MovesOn, DetectionIs
<1>5. Tail(todo[t]) # <<>>
  <2>1. SUFFICES ASSUME Tail(todo[t]) = <<>> PROVE FALSE
    OBVIOUS
  <2>2. Runs(A, <<>>, "id", "on")
    BY <1>3, <1>4, <2>1
  <2>3. "id" = "on"
    BY <2>2, RunsNothing
  <2>4. QED
    BY <2>3
<1>6. PICK q \in Phase : Move(r, Head(Tail(todo[t])), q) /\ Runs(A, Tail(Tail(todo[t])), q, "on")
  BY <1>3, <1>5, RunsTail
<1>7. q = "on"
  BY <1>4, <1>6 DEF Move
<1>8. Runs(Allowed(job[t], Chip', type'), Tail(Tail(todo[t])), "on", "on")
  BY <1>6, <1>7, AllowedGrows, RunsAllowed
<1>9. Goes(t, "on")'
  BY <1>1, <1>8 DEF Goes
<1>10. tx' = tx /\ type' = type /\ id' = id /\ errors' = errors /\ Alone' = Alone
  BY Leaves, SameChip DEF SkipDetect
<1>11. Calm' = Calm /\ at'[t] # "accessing"
  BY <1>1, <1>10 DEF Calm
<1>12. Phased(t, "on")'
  BY <1>1, <1>2, <1>4, <1>10, <1>11 DEF Phased
<1>13. QED
  BY <1>4, <1>9, <1>12 DEF InPhase

LEMMA FailsPhase ==
  ASSUME Inv, NEW t \in Thread, Works(t), Fails(t)
  PROVE  InPhase(t)'
<1> USE DEF Inv
<1>1. /\ at[t] \in {"selecting", "accessing"} /\ job' = job
      /\ todo'[t] = IF Ignores(t) THEN Tail(todo[t]) ELSE <<>>
      /\ saved'[t] = IF First(t) = Read(Transmitter) THEN "junk" ELSE saved[t]
  BY FailsDoes
<1>2. errors' # 0
  <2>1. errors' = errors + 1 /\ errors \in 0 .. Errors
    BY FailsDoes DEF TypeOK
  <2>2. QED
    BY <2>1
<1>3. ~Calm'
  BY <1>2 DEF Calm
<1>4. todo[t] # <<>> /\ job[t] # None
  BY <1>1 DEF Placed, Busy, None
<1>5. CASE Ignores(t)
  <2>1. PICK p, r \in Phase :
          Goes(t, p) /\ Phased(t, p) /\ Move(p, First(t), r) /\ Goes(t, r)'
    BY <1>1, <1>4, <1>5, TailPhase
  <2>2. r \in {"read", "off"} => saved'[t] # None
    <3>1. CASE First(t) = Read(Transmitter)
      BY <1>1, <3>1 DEF None
    <3>2. CASE First(t) # Read(Transmitter)
      <4>1. r \in {"read", "off"} => p \in {"read", "off"}
        BY <2>1, <3>2 DEF Move
      <4>2. QED
        BY <1>1, <2>1, <3>2, <4>1 DEF Phased
    <3>3. QED
      BY <3>1, <3>2
  <2>3. r = "id" => job[t] = "reset"
    <3>1. SUFFICES ASSUME r = "id" PROVE job[t] = "reset"
      OBVIOUS
    <3>2. First(t) \in Ids
      BY <2>1, <3>1 DEF Move, Ids
    <3>3. First(t) \in Allowed(job[t], Chip, type)
      BY <1>4, FirstAct
    <3>4. QED
      BY <3>2, <3>3 DEF Allowed
  <2>4. Phased(t, r)'
    BY <1>1, <1>2, <1>3, <1>4, <2>2, <2>3 DEF Phased
  <2>5. QED
    BY <2>1, <2>4 DEF InPhase
<1>6. CASE ~Ignores(t)
  <2>1. "on" \in Phase
    BY DEF Phase
  <2>2. Goes(t, "on")'
    BY <1>1, <1>6, <2>1, RunsEmpty DEF Goes
  <2>3. Phased(t, "on")'
    BY <1>2, <1>3 DEF Phased
  <2>4. QED
    BY <2>1, <2>2, <2>3 DEF InPhase
<1>7. QED
  BY <1>5, <1>6


LEMMA DonePhase ==
  ASSUME Inv, NEW t \in Thread, Works(t), Done(t)
  PROVE  InPhase(t)'
<1> USE DEF Inv
<1>1. /\ at[t] = "accessing" /\ mdic.ready /\ Detected(First(t)) /\ job' = job
      /\ saved'[t] = IF First(t) = Read(Transmitter) THEN mdic.got.val ELSE saved[t]
      /\ todo'[t] = Tail(todo[t]) /\ at'[t] = "begin"
  BY DoneDoes
<1>2. todo[t] # <<>> /\ job[t] # None
  BY <1>1 DEF Placed, Busy, None
<1>3. PICK p, r \in Phase :
        Goes(t, p) /\ Phased(t, p) /\ Move(p, First(t), r) /\ Goes(t, r)'
  BY <1>1, <1>2, TailPhase
<1>4. mdic' = mdic /\ tx' = tx /\ errors' = errors /\ Alone' = Alone
  BY Leaves, SameChip DEF Done
<1>5. at'[t] # "accessing"
  BY <1>1
<1>6. /\ p # "on" => job[t] # None
      /\ p \in {"read", "off"} => saved[t] # None
      /\ p = "id" => job[t] = "reset"
      /\ (Calm /\ p \in {"on", "id"}) => tx = "on"
      /\ (Calm /\ p \in {"read", "off"}) => saved[t] = "on"
      /\ (Calm /\ First(t) = Read(Transmitter)) => mdic.got.val = "on"
      /\ (Calm /\ First(t) = Write(Transmitter, "saved")) => tx = "on"
      /\ (errors = 0 /\ id = "high" /\ job[t] = "reset") => p = "id"
  BY <1>1, <1>2, <1>3 DEF Phased
<1>7. CASE First(t) \in Ids
  <2>1. job[t] = "reset"
    <3>1. First(t) \in Allowed(job[t], Chip, type)
      BY <1>2, FirstAct
    <3>2. QED
      BY <1>7, <3>1 DEF Allowed
  <2>2. p \in {"on", "id"} /\ r \in {"on", "id"}
    BY <1>3, <1>7, MovesOn DEF Ids
  <2>3. Calm' => tx' = "on"
    <3>1. CASE type = "igp"
      <4>1. Calm' => Calm
        BY <1>4, <3>1 DEF Calm
      <4>2. QED
        BY <1>4, <1>6, <2>2, <4>1
    <3>2. CASE type # "igp"
      <4>1. tx = "on"
        BY <3>2 DEF Mdic
      <4>2. QED
        BY <1>4, <4>1
    <3>3. QED
      BY <3>1, <3>2
  <2>4. (errors = 0 /\ id' = "high") => r = "id"
    <3>1. CASE First(t) = Detection[1]
      BY <1>3, <3>1, MovesOn, DetectionIs
    <3>2. CASE First(t) = Detection[2]
      <4>1. Detection[2] # Detection[1]
        BY DEF Detection, Read, Act, Low
      <4>2. id' # "high"
        <5>1. CASE id = "high"
          BY <1>1, <3>2, <4>1, <5>1 DEF Detected
        <5>2. CASE id # "high"
          BY <1>1, <3>2, <4>1, <5>2 DEF Detected, hwVars
        <5>3. QED
          BY <5>1, <5>2
      <4>3. QED
        BY <4>2
    <3>3. QED
      BY <1>7, <3>1, <3>2, DetectionIs DEF Ids
  <2>5. Phased(t, r)'
    BY <1>1, <1>2, <1>4, <1>5, <2>1, <2>2, <2>3, <2>4 DEF Phased
  <2>6. QED
    BY <1>3, <2>5 DEF InPhase
<1>8. CASE First(t) \notin Ids
  <2>1. id' = id /\ type' = type
    <3>1. Detection[1] \in Ids /\ Detection[2] \in Ids
      BY DetectionIs DEF Ids
    <3>2. QED
      BY <1>1, <1>8, <3>1 DEF Detected, hwVars
  <2>2. Calm' = Calm
    BY <1>4, <2>1 DEF Calm
  <2>3. p # "id" /\ r # "id"
    BY <1>3, <1>8 DEF Move, Ids
  <2>4. ~(errors = 0 /\ id = "high" /\ job[t] = "reset")
    BY <1>6, <2>3
  <2>5. r \in {"read", "off"} => saved'[t] # None
    <3>1. CASE First(t) = Read(Transmitter)
      <4>1. mdic.op # None
        BY <1>1 DEF Mdic, Waits
      <4>2. mdic.got.val \in Value
        BY <1>1, <4>1 DEF Mdic
      <4>3. None \notin Value
        BY DEF Value, None
      <4>4. QED
        BY <1>1, <3>1, <4>2, <4>3
    <3>2. CASE First(t) # Read(Transmitter)
      <4>1. r \in {"read", "off"} => p \in {"read", "off"}
        BY <1>3, <3>2 DEF Move
      <4>2. QED
        BY <1>1, <1>6, <3>2, <4>1
    <3>3. QED
      BY <3>1, <3>2
  <2>6. Calm => /\ r = "on" => tx = "on"
                /\ r \in {"read", "off"} => saved'[t] = "on"
    <3>1. CASE First(t) = Read(Transmitter)
      BY <1>1, <1>3, <1>6, <3>1, MovesOn
    <3>2. CASE First(t) = Write(Transmitter, "off")
      <4>1. p = "read" /\ r = "off"
        BY <1>3, <3>2, MovesOn
      <4>2. First(t) # Read(Transmitter)
        BY <3>2 DEF Read, Write, Act
      <4>3. QED
        BY <1>1, <1>6, <4>1, <4>2
    <3>3. CASE First(t) = Write(Transmitter, "saved")
      BY <1>3, <1>6, <3>3, MovesOn
    <3>4. CASE First(t) \notin Turns
      <4>1. r = p /\ p \in {"on", "off"}
        BY <1>3, <1>8, <3>4, MovesOn
      <4>2. First(t) # Read(Transmitter)
        BY <3>4 DEF Turns
      <4>3. QED
        BY <1>1, <1>6, <4>1, <4>2
    <3>5. QED
      BY <3>1, <3>2, <3>3, <3>4 DEF Turns
  <2>7. Phased(t, r)'
    BY <1>1, <1>2, <1>4, <1>5, <2>1, <2>2, <2>3, <2>4, <2>5, <2>6 DEF Phased
  <2>8. QED
    BY <1>3, <2>7 DEF InPhase
<1>9. QED
  BY <1>7, <1>8

LEMMA PhaseNext ==
  ASSUME Inv, Next, NEW u \in Thread
  PROVE  InPhase(u)'
<1>1. CASE Complete
  BY <1>1, CompletePhase
<1>2. ASSUME NEW t \in Thread, Works(t)
      PROVE  InPhase(u)'
  <2>1. CASE u # t
    BY <1>2, <2>1, OtherPhase
  <2>2. CASE u = t
    <3>1. InPhase(t)'
      BY <1>2, StartPhase, EndPhase, BetweenPhase, PreparePhase, SkipDetectPhase, FailsPhase,
         DonePhase DEF Works, Step
    <3>2. QED
      BY <2>2, <3>1
  <2>3. QED
    BY <2>1, <2>2
<1>3. QED
  BY <1>1, <1>2, NextIs

LEMMA QuietNext ==
  ASSUME Inv, Next
  PROVE  Quiet'
<1> USE DEF Inv
<1>1. CASE Complete
  <2>1. /\ job' = job /\ may' = may /\ id' = id /\ type' = type /\ errors' = errors
        /\ ~mdic.ready
    BY <1>1, CompleteDoes
  <2>2. Calm' = Calm
    BY <2>1, SameChip DEF Calm
  <2>3. ~(Calm /\ \A t \in Thread : job[t] = None)
    <3>1. SUFFICES ASSUME Calm, \A t \in Thread : job[t] = None
                   PROVE  FALSE
      OBVIOUS
    <3>2. PICK u \in Thread : Waits(u)
      BY <2>1, <3>1 DEF Calm, Mdic
    <3>3. job[u] # None
      BY <3>2 DEF Placed, Waits, None
    <3>4. QED
      BY <3>1, <3>3
  <2>4. QED
    BY <2>1, <2>2, <2>3 DEF Quiet
<1>2. ASSUME NEW t \in Thread, Works(t)
      PROVE  Quiet'
  <2>1. errors' = 0 => errors = 0 /\ ~Fails(t)
    BY <1>2, StillCalm
  <2>2. Apart(t)
    BY <1>2, StaysApart
  <2>3. CASE End(t)
    <3>1. at[t] = "begin" /\ todo[t] = <<>> /\ job'[t] = None
      BY <2>3, EndDoes
    <3>2. PICK p \in Phase : Goes(t, p) /\ Phased(t, p)
      BY DEF InPhase
    <3>3. p = "on"
      <4>1. Runs(Allowed(job[t], Chip, type), <<>>, p, "on")
        BY <3>1, <3>2 DEF Goes
      <4>2. QED
        BY <4>1, RunsNothing
    <3>4. tx' = tx /\ type' = type /\ id' = id /\ errors' = errors /\ Alone' = Alone
      BY <1>2, <2>3, Leaves, SameChip DEF End, hwVars
    <3>5. Calm' = Calm
      BY <3>4 DEF Calm
    <3>6. job[t] # None
      BY <3>1 DEF Placed, None
    <3>7. Calm => tx = "on"
      BY <3>2, <3>3, <3>6 DEF Phased
    <3>8. errors = 0 /\ id = "high" => \E u \in Thread : job'[u] = "reset"
      <4>1. SUFFICES ASSUME errors = 0, id = "high"
                     PROVE  \E u \in Thread : job'[u] = "reset"
        OBVIOUS
      <4>2. PICK u \in Thread : job[u] = "reset"
        BY <4>1 DEF Quiet
      <4>3. u # t
        BY <3>2, <3>3, <4>1, <4>2 DEF Phased
      <4>4. QED
        BY <2>2, <4>2, <4>3 DEF Apart
    <3>9. QED
      BY <3>4, <3>5, <3>7, <3>8 DEF Quiet
  <2>4. CASE ~End(t)
    <3>1. job'[t] # None
      <4>1. CASE Start(t)
        BY <4>1, StartDoes DEF Jobs, None
      <4>2. CASE ~Start(t)
        <5>1. job' = job
          BY <1>2, <2>4, <4>2, Leaves
        <5>2. at[t] # None
          BY <1>2, <4>2, BetweenDoes, BeginDoes, SelectPageDoes, AccessDoes, SelectedDoes,
             DoneDoes, SkipDetectDoes, EndDoes, FailsDoes DEF Works, Step, None
        <5>3. QED
          BY <5>1, <5>2 DEF Placed
      <4>3. QED
        BY <4>1, <4>2
    <3>2. errors' = 0 /\ id' = "high" => \E u \in Thread : job'[u] = "reset"
      <4>1. SUFFICES ASSUME errors' = 0, id' = "high"
                     PROVE  \E u \in Thread : job'[u] = "reset"
        OBVIOUS
      <4>2. CASE id' = id
        <5>1. PICK u \in Thread : job[u] = "reset"
          BY <2>1, <4>1, <4>2 DEF Quiet
        <5>2. job'[u] = "reset"
          <6>1. CASE Start(t)
            <7>1. job[t] = None
              BY <6>1, StartDoes
            <7>2. u # t
              BY <5>1, <7>1 DEF None
            <7>3. QED
              BY <2>2, <5>1, <7>2 DEF Apart
          <6>2. CASE ~Start(t)
            BY <1>2, <2>4, <5>1, <6>2, Leaves
          <6>3. QED
            BY <6>1, <6>2
        <5>3. QED
          BY <5>2
      <4>3. CASE id' # id
        <5>1. Done(t) /\ job[t] = "reset"
          BY <1>2, <4>3, Undetected
        <5>2. job' = job
          BY <5>1, DoneDoes
        <5>3. QED
          BY <5>1, <5>2
      <4>4. QED
        BY <4>2, <4>3
    <3>3. QED
      BY <3>1, <3>2 DEF Quiet
  <2>5. QED
    BY <2>3, <2>4
<1>3. QED
  BY <1>1, <1>2, NextIs

-----------------------------------------------------------------------------
LEMMA InvInit == PhyAssumption /\ Init => Inv
<1> SUFFICES ASSUME PhyAssumption, Init PROVE Inv
  OBVIOUS
<1>1. /\ may \in Cases /\ page = "0" /\ tx = "on" /\ mdic = Idle
      /\ job = [t \in Thread |-> IF t = "ethtool" THEN "reset" ELSE None]
      /\ todo = [t \in Thread |-> IF t = "ethtool" THEN Driver ELSE <<>>]
      /\ at = [t \in Thread |-> IF t = "ethtool" THEN "begin" ELSE None]
      /\ saved = [t \in Thread |-> None]
      /\ lock = None /\ id = None /\ type = "m88" /\ found = FALSE /\ dsp = "enabled"
      /\ errors = 0 /\ overlap = FALSE /\ wrong = FALSE
  BY DEF Init
<1>2. Thread = {"watchdog", "ethtool"}
  BY DEF Thread
<1>3. /\ job["watchdog"] = None /\ job["ethtool"] = "reset"
      /\ todo["watchdog"] = <<>> /\ todo["ethtool"] = Driver
      /\ at["watchdog"] = None /\ at["ethtool"] = "begin"
  BY <1>1, <1>2
<1>4. mdic.op = None /\ mdic.ready = TRUE
      /\ mdic = [op |-> mdic.op, n |-> mdic.n, val |-> mdic.val, ready |-> mdic.ready,
                 got |-> mdic.got]
  BY <1>1 DEF Idle
<1>5. "on" \in Phase
  BY DEF Phase
<1>6. Runs(Allowed("reset", Chip, type), Driver, "on", "on")
  <2>1. Driver \in Accesses("reset") /\ "reset" \in Jobs
    BY DEF Accesses, Jobs
  <2>2. QED
    BY <1>1, <2>1, JobsRun
<1>7. TypeOK
  <2>1. Len(Driver) \in Nat /\ Len(<<>>) = 0
    BY DriverLen
  <2>2. \A t \in Thread : Len(todo[t]) <= Len(Driver) /\ (job[t] = None => todo[t] = <<>>)
    BY <1>2, <1>3, <2>1 DEF None
  <2>3. errors \in 0 .. Errors
    BY <1>1 DEF PhyAssumption
  <2>4. /\ job \in [Thread -> {None, "link", "info", "stats", "ioctl", "dump", "reset"}]
        /\ at \in [Thread -> {None, "begin", "select", "selecting", "command", "accessing"}]
        /\ saved \in [Thread -> {None, "on", "off", "junk", "other"}]
    BY <1>1
  <2>5. mdic.ready \in BOOLEAN /\ mdic.op \in {None, "read", "write"}
    BY <1>4
  <2>6. /\ page \in {"0", "1160", "2F40"} /\ tx \in {"on", "off", "junk", "other"}
        /\ lock \in Thread \cup {None} /\ id \in {None, "high", "whole"}
        /\ type \in {"m88", "igp"} /\ dsp \in {"enabled", "activated"}
    BY <1>1
  <2>7. found \in BOOLEAN /\ overlap \in BOOLEAN /\ wrong \in BOOLEAN
    BY <1>1
  <2>8. QED
    BY <1>1, <2>2, <2>3, <2>4, <2>5, <2>6, <2>7 DEF TypeOK
<1>8. Known
  <2>1. todo = [t \in Thread |-> todo[t]]
    BY <1>1
  <2>2. None # "whole"
    BY DEF None
  <2>3. QED
    BY <1>1, <2>1, <2>2 DEF Known
<1>9. \A t \in Thread : at[t] \in {None, "begin"} /\ ~Busy(t) /\ ~Waits(t)
  BY <1>2, <1>3 DEF Busy, Waits, None
<1>10. Mdic
  <2>1. None # "write"
    BY DEF None
  <2>2. QED
    BY <1>1, <1>4, <1>9, <2>1 DEF Mdic
<1>11. Quiet
  <2>1. None # "high" /\ type # "igp"
    BY <1>1 DEF None
  <2>2. QED
    BY <1>1, <2>1 DEF Quiet, Calm
<1>12. ASSUME NEW t \in Thread
       PROVE  Placed(t) /\ Right(t) /\ InPhase(t)
  <2>1. at[t] \notin {"select", "selecting", "command", "accessing"}
    BY <1>9 DEF None
  <2>2. Right(t)
    BY <2>1 DEF Right
  <2>3. Placed(t)
    <3>1. at[t] = None <=> job[t] = None
      BY <1>2, <1>3 DEF None
    <3>2. job[t] \notin Locked
      BY <1>2, <1>3 DEF Locked, None
    <3>3. \A u \in Thread \ {t} : job[u] = None \/ job[t] = None
      BY <1>2, <1>3
    <3>4. QED
      BY <1>9, <2>1, <3>1, <3>2, <3>3 DEF Placed
  <2>4. Goes(t, "on")
    <3>1. CASE t = "ethtool"
      BY <1>3, <1>6, <3>1 DEF Goes
    <3>2. CASE t = "watchdog"
      BY <1>3, <1>5, <3>2, RunsEmpty DEF Goes
    <3>3. QED
      BY <1>2, <3>1, <3>2
  <2>5. Phased(t, "on")
    <3>1. None # "high" /\ type # "igp"
      BY <1>1 DEF None
    <3>2. QED
      BY <1>1, <3>1 DEF Phased, Calm
  <2>6. QED
    BY <1>5, <2>2, <2>3, <2>4, <2>5 DEF InPhase
<1>13. QED
  BY <1>1, <1>7, <1>8, <1>10, <1>11, <1>12 DEF Inv

LEMMA InvNext == PhyAssumption /\ Inv /\ [Next]_vars => Inv'
<1> SUFFICES ASSUME PhyAssumption, Inv, [Next]_vars PROVE Inv'
  OBVIOUS
<1>1. CASE Next
  BY <1>1, TypesNext, KnownNext, MdicNext, QuietNext, PlacedNext, RightNext, PhaseNext, AnswerNext
     DEF Inv
<1>2. CASE UNCHANGED vars
  <2>1. /\ may' = may /\ page' = page /\ tx' = tx /\ mdic' = mdic /\ job' = job /\ todo' = todo
        /\ at' = at /\ saved' = saved /\ lock' = lock /\ id' = id /\ type' = type
        /\ found' = found /\ dsp' = dsp /\ errors' = errors /\ overlap' = overlap
        /\ wrong' = wrong
    BY <1>2 DEF vars, hwVars, history
  <2>2. Chip' = Chip /\ Driver' = Driver /\ Alone' = Alone
    BY <2>1, SameChip
  <2>3. TypeOK' = TypeOK
    BY <2>1, <2>2 DEF TypeOK
  <2>4. Calm' = Calm /\ \A t \in Thread : First(t)' = First(t) /\ Waits(t)' = Waits(t)
                                          /\ Busy(t)' = Busy(t) /\ OnPage(t)' = OnPage(t)
    BY <2>1, <2>2 DEF Calm, First, Waits, Busy, OnPage
  <2>5. Known' = Known
    BY <2>1, <2>2 DEF Known
  <2>6. Mdic' = Mdic
    BY <2>1, <2>2, <2>4 DEF Mdic
  <2>7. Quiet' = Quiet
    BY <2>1, <2>4 DEF Quiet
  <2>8. ASSUME NEW t \in Thread
        PROVE  Placed(t)' /\ Right(t)' /\ InPhase(t)'
    <3>1. Placed(t)'
      BY <2>1, <2>2, <2>4 DEF Placed, Inv
    <3>2. Right(t)'
      BY <2>1, <2>2, <2>4 DEF Right, Inv
    <3>3. PICK p \in Phase : Goes(t, p) /\ Phased(t, p)
      BY DEF Inv, InPhase
    <3>4. Goes(t, p)'
      BY <2>1, <2>2, <3>3 DEF Goes
    <3>5. Phased(t, p)'
      BY <2>1, <2>4, <3>3 DEF Phased
    <3>6. QED
      BY <3>1, <3>2, <3>3, <3>4, <3>5 DEF InPhase
  <2>9. QED
    BY <2>1, <2>3, <2>5, <2>6, <2>7, <2>8 DEF Inv
<1>3. QED
  BY <1>1, <1>2

LEMMA InvAlways == PhyAssumption /\ Spec => []Inv
<1> SUFFICES ASSUME PhyAssumption PROVE Spec => []Inv
  OBVIOUS
<1>1. Init => Inv
  BY InvInit
<1>2. Inv /\ [Next]_vars => Inv'
  BY InvNext
<1>3. QED
  BY <1>1, <1>2, PTL DEF Spec

(* As long as no two threads' accesses overlap, every access after the type  *)
(* of the PHY is known reaches the register that was asked for.              *)
THEOREM RegisterReached == Spec => []RightRegister
<1>1. Inv => RightRegister
  BY DEF Inv, RightRegister
<1>2. Spec => []Inv
  BY InvAlways, PhyAssumption
<1>3. QED
  BY <1>1, <1>2, PTL

(* A job that switches the transmitter off leaves it on, if it was alone and *)
(* no access has failed.                                                     *)
THEOREM TransmitterRestored == Spec => []TransmitterOn
<1>1. Inv => TransmitterOn
  <2>1. SUFFICES ASSUME Inv, Alone, errors = 0, \A t \in Thread : job[t] = None
                 PROVE  tx = "on"
    BY DEF TransmitterOn, Alone
  <2>2. CASE type = "igp"
    BY <2>1, <2>2 DEF Inv, Quiet, Calm
  <2>3. CASE type # "igp"
    BY <2>1, <2>3 DEF Inv, Mdic
  <2>4. QED
    BY <2>2, <2>3
<1>2. Spec => []Inv
  BY InvAlways, PhyAssumption
<1>3. QED
  BY <1>1, <1>2, PTL

(* A PHY that was detected without an error is known, and its type is right. *)
THEOREM Identified == Spec => []TypeKnown
<1>1. Inv => TypeKnown
  BY DEF Inv, Known, TypeKnown
<1>2. Spec => []Inv
  BY InvAlways, PhyAssumption
<1>3. QED
  BY <1>1, <1>2, PTL


=============================================================================
