----------------------------- MODULE DsnapProof -----------------------------
(***************************************************************************)
(* Proofs about Dsnap, DsnapReader and DsnapSnapshot, for every set of      *)
(* structures, names, calls and heap blocks, and about DsnapDirs, for any   *)
(* number of adapters of one driver.                                        *)
(*                                                                         *)
(* Memory and layout.  The offset that dsnap_create_record gives a record   *)
(* is the end of the record before it plus the new record's head, so the    *)
(* list is a chain of adjacent places (Chained) whose last end is the size  *)
(* the master buffer has been given (FileOK).  dsnap_construct_blob's       *)
(* cursor, which never looks at the offsets, walks the same chain           *)
(* (CursorOK), so none of its writes, and no update at an offset, leaves    *)
(* the buffer.                                                              *)
(*                                                                         *)
(* Reading.  What the blob says is a live block of at least blob->size      *)
(* bytes whenever a reader may use it (BlobOK, ReaderOK).                    *)
(*                                                                         *)
(* Refinement.  Every step of the driver is a step of SnapStore, or none.   *)
(*                                                                         *)
(* Format.  The master buffer holds the header and, behind it, whole        *)
(* records (FrameOK), and between calls the blob shows all of it (ShownOK). *)
(* readFile's loop is a recursive function of the number of records: by a   *)
(* least number at which it would go wrong, it reads record i where the     *)
(* i-th place of the chain is (Turns), so it finds what the list says       *)
(* (SnapReadable).  A file that was read while records were updated in      *)
(* place differs from the buffer in the data of those records only          *)
(* (CopyOK), so it is read with the same heads (CopyReads).                 *)
(*                                                                         *)
(* Directories.  What there is in debugfs is the directory that             *)
(* debugfs_root points to and, in it, the files of the adapters that are    *)
(* bound (DirContents).                                                     *)
(***************************************************************************)
EXTENDS DsnapSnapshot, DsnapReader, DsnapDirs, Integers, FiniteSetTheorems,
        WellFoundedInduction, TLAPS

-----------------------------------------------------------------------------
(* The lengths of what the code copies.                                      *)

(* A function on 1 .. n is a sequence of length n.                           *)
LEMMA FunctionLen ==
  ASSUME NEW n \in Nat, NEW S, NEW f \in [1 .. n -> S]
  PROVE  f \in Seq(S) /\ Len(f) = n
  OBVIOUS

(* memcpy does not change the size of the block it writes to.                *)
LEMMA SpliceLen ==
  ASSUME NEW buf, Len(buf) \in Nat, NEW off, NEW piece
  PROVE  Len(Splice(buf, off, piece)) = Len(buf)
  BY DEF Splice

(* krealloc gives the block the size it was asked for.                       *)
LEMMA GrowLen ==
  ASSUME NEW buf, NEW n \in Nat
  PROVE  Len(Grow(buf, n)) = n
  BY DEF Grow

LEMMA StrLenNat ==
  ASSUME NEW n \in Name \cup {DirName}
  PROVE  StrLen[n] \in Nat
  BY StrLenAssumption

LEMMA HeaderSizeNat == HeaderSize \in Nat
  BY StrLenNat DEF HeaderSize

(* What the code copies are sequences; their elements do not matter here.    *)
IsSeq(s) == \E S : s \in Seq(S)

(* Concatenation adds lengths.                                               *)
LEMMA ConcatLen ==
  ASSUME NEW s, NEW t, IsSeq(s), IsSeq(t)
  PROVE  IsSeq(s \o t) /\ Len(s \o t) = Len(s) + Len(t)
<1>1. PICK S : s \in Seq(S)
  BY DEF IsSeq
<1>2. PICK T : t \in Seq(T)
  BY DEF IsSeq
<1>3. s \in Seq(S \cup T) /\ t \in Seq(S \cup T)
  BY <1>1, <1>2
<1>4. QED
  BY <1>3 DEF IsSeq

LEMMA U32Len ==
  ASSUME NEW v \in Nat
  PROVE  IsSeq(U32(v)) /\ Len(U32(v)) = 4
<1>1. U32(v) \in Seq({Num(v % 256), Num((v \div 256) % 256),
                     Num((v \div 65536) % 256), Num((v \div 16777216) % 256)})
  BY DEF U32
<1>2. Len(U32(v)) = 4
  BY DEF U32
<1>3. QED
  BY <1>1, <1>2 DEF IsSeq

LEMMA CharsLen ==
  ASSUME NEW n \in Name \cup {DirName}
  PROVE  IsSeq(Chars(n)) /\ Len(Chars(n)) = StrLen[n]
<1>1. Chars(n) \in [1 .. StrLen[n] -> {Chr(n, k) : k \in 1 .. StrLen[n]}]
  BY DEF Chars
<1>2. QED
  BY <1>1, StrLenNat, FunctionLen DEF IsSeq

LEMMA DataLen ==
  ASSUME NEW v, NEW s \in Nat
  PROVE  IsSeq(Data(v, s)) /\ Len(Data(v, s)) = s
<1>1. Data(v, s) \in [1 .. s -> {Dat(v, k) : k \in 1 .. s}]
  BY DEF Data
<1>2. QED
  BY <1>1, FunctionLen DEF IsSeq

(* dsnap_create_record's allowance for a record is what one turn of          *)
(* dsnap_construct_blob's loop writes for it.                                *)
LEMMA RecordLen ==
  ASSUME NEW n \in Name, NEW s \in Nat, NEW v
  PROVE  Len(RecordHead(n, s) \o Data(v, s)) = RecordHeadSize(n) + s
<1>1. StrLen[n] \in Nat
  BY StrLenNat
<1>2. IsSeq(U32(StrLen[n])) /\ Len(U32(StrLen[n])) = 4
  BY <1>1, U32Len
<1>3. IsSeq(Chars(n)) /\ Len(Chars(n)) = StrLen[n]
  BY CharsLen
<1>4. IsSeq(U32(s)) /\ Len(U32(s)) = 4
  BY U32Len
<1>5. /\ IsSeq(U32(StrLen[n]) \o Chars(n))
      /\ Len(U32(StrLen[n]) \o Chars(n)) = 4 + StrLen[n]
  BY <1>2, <1>3, ConcatLen
<1>6. IsSeq(RecordHead(n, s)) /\ Len(RecordHead(n, s)) = (4 + StrLen[n]) + 4
  BY <1>4, <1>5, ConcatLen DEF RecordHead
<1>7. IsSeq(Data(v, s)) /\ Len(Data(v, s)) = s
  BY DataLen
<1>8. Len(RecordHead(n, s) \o Data(v, s)) = ((4 + StrLen[n]) + 4) + s
  BY <1>6, <1>7, ConcatLen
<1>9. QED
  BY <1>1, <1>8 DEF RecordHeadSize

(* dsnap_init's size of the header is what is written for it.                *)
LEMMA HeaderLen ==
  ASSUME NEW count \in Nat
  PROVE  Len(Header(count)) = HeaderSize
<1>1. StrLen[DirName] \in Nat
  BY StrLenNat
<1>2. IsSeq(Magic) /\ Len(Magic) = 5
  <2>1. Magic \in [1 .. 5 -> {<<"magic", 0, k>> : k \in 1 .. 5}]
    BY DEF Magic
  <2>2. QED
    BY <2>1, FunctionLen DEF IsSeq
<1>3. IsSeq(Version) /\ Len(Version) = 1
  <2>1. Version \in Seq({Num(1)}) /\ Len(Version) = 1
    BY DEF Version
  <2>2. QED
    BY <2>1 DEF IsSeq
<1>4. IsSeq(U32(StrLen[DirName])) /\ Len(U32(StrLen[DirName])) = 4
  BY <1>1, U32Len
<1>5. IsSeq(Chars(DirName)) /\ Len(Chars(DirName)) = StrLen[DirName]
  BY CharsLen
<1>6. IsSeq(U32(count)) /\ Len(U32(count)) = 4
  BY U32Len
<1>7. IsSeq(Magic \o Version) /\ Len(Magic \o Version) = 5 + 1
  BY <1>2, <1>3, ConcatLen, Zenon
<1>8. /\ IsSeq(Magic \o Version \o U32(StrLen[DirName]))
      /\ Len(Magic \o Version \o U32(StrLen[DirName])) = (5 + 1) + 4
  BY <1>4, <1>7, ConcatLen, Zenon
<1>9. /\ IsSeq(Magic \o Version \o U32(StrLen[DirName]) \o Chars(DirName))
      /\ Len(Magic \o Version \o U32(StrLen[DirName]) \o Chars(DirName))
           = 10 + StrLen[DirName]
  BY <1>5, <1>8, ConcatLen
<1>10. Len(Header(count)) = 10 + StrLen[DirName] + 4
  BY <1>6, <1>9, ConcatLen DEF Header
<1>11. QED
  BY <1>1, <1>10 DEF HeaderSize

-----------------------------------------------------------------------------
(* Type correctness.                                                         *)

LEMMA CallType ==
  ASSUME NEW c \in Call
  PROVE  c.name \in Name /\ c.loc \in Loc /\ c.size \in Nat
  BY CallAssumption

LEMMA HeadSizeNat ==
  ASSUME NEW n \in Name
  PROVE  RecordHeadSize(n) \in Nat
  BY StrLenNat DEF RecordHeadSize

(* A write to the master buffer keeps the types of what it changes.          *)
LEMMA WriteMasterType ==
  ASSUME TypeOK, NEW off, NEW piece, NEW next,
         next \in {"header", "record", "idle"},
         WriteMaster(off, piece, next)
  PROVE  /\ pc' \in {"header", "record", "idle", "oops"}
         /\ fault' \in {"none", "null", "wild", "overrun"}
         /\ DOMAIN bytes' = Buf
  BY DEF TypeOK, WriteMaster, WriteFault

LEMMA TypeInit == Init => TypeOK
<1> SUFFICES ASSUME Init
             PROVE  TypeOK
  OBVIOUS
<1>1. arg \in Call
  BY CallAssumption, Zenon DEF Init
<1>2. /\ drecord \in Seq(Record) /\ DOMAIN bytes = Buf
      /\ bst \in [Buf -> {"unused", "live", "freed"}]
  BY DEF Init
<1>3. /\ pc = "start" /\ fault = "none" /\ failed \subseteq Sites
      /\ mem \in [Loc -> Value]
  BY DEF Init
<1>4. /\ new_size = 0 /\ c_ptr = 0 /\ curr = 1 /\ records = 0 /\ tot_size = 0
      /\ master = Wild /\ blobSet \in BOOLEAN /\ blobData = NULL /\ blobSize = 0
  BY DEF Init
<1>5. QED
  BY <1>1, <1>2, <1>3, <1>4 DEF TypeOK

(* Moving a record to another structure changes its location only.           *)
LEMMA MoveRecord ==
  ASSUME drecord \in Seq(Record), NEW i \in Nat, NEW l \in Loc,
         NEW moved, moved = [drecord EXCEPT ![i].loc = l]
  PROVE  /\ moved \in Seq(Record) /\ Len(moved) = Len(drecord)
         /\ \A j \in 1 .. Len(drecord) : /\ moved[j].name = drecord[j].name
                                        /\ moved[j].size = drecord[j].size
                                        /\ moved[j].offset = drecord[j].offset
<1> DEFINE n == Len(drecord)
<1>1. n \in Nat /\ drecord \in [1 .. n -> Record]
  OBVIOUS
<1>2. \A r \in Record : [r EXCEPT !.loc = l] \in Record
  BY DEF Record
<1>3. moved \in [1 .. n -> Record]
  BY <1>1, <1>2
<1>4. moved \in Seq(Record) /\ Len(moved) = n
  BY <1>1, <1>3, FunctionLen
<1>5. ASSUME NEW j \in 1 .. n
      PROVE  /\ moved[j].name = drecord[j].name
             /\ moved[j].size = drecord[j].size
             /\ moved[j].offset = drecord[j].offset
  BY <1>1 DEF Record
<1>6. QED
  BY <1>4, <1>5

LEMMA LeastElement ==
  ASSUME NEW T, T \subseteq Nat, T # {}
  PROVE  \E i \in T : \A j \in T : i <= j
<1>1. PICK i \in T : \A j \in T : <<j, i>> \notin OpToRel(<, Nat)
  BY NatLessThanWellFounded, WFMin
<1>2. ASSUME NEW j \in T
      PROVE  i <= j
  <2>1. <<j, i>> \notin {ss \in Nat \X Nat : ss[1] < ss[2]}
    BY <1>1 DEF OpToRel
  <2>2. QED
    BY <2>1
<1>3. QED
  BY <1>2

LEMMA FindRecordType ==
  ASSUME drecord \in Seq(Record), NEW n
  PROVE  FindRecord(n) \in 0 .. Len(drecord)
<1> DEFINE hits == {i \in 1 .. Len(drecord) : drecord[i].name \in {n, NULL}}
<1>1. CASE hits = {}
  BY <1>1 DEF FindRecord
<1>2. CASE hits # {}
  <2>1. hits \subseteq Nat
    OBVIOUS
  <2>2. PICK i \in hits : \A j \in hits : i <= j
    BY <1>2, <2>1, LeastElement
  <2>3. FindRecord(n) \in hits
    BY <1>2, <2>2, Zenon DEF FindRecord
  <2>4. QED
    BY <2>3
<1>3. QED
  BY <1>1, <1>2

LEMMA TypeNext == TypeOK /\ [Next]_vars => TypeOK'
<1> SUFFICES ASSUME TypeOK, [Next]_vars
             PROVE  TypeOK'
  OBVIOUS
<1> USE DEF callVars, listVars, fileVars, blobVars, heapVars
<1>1. CASE DsnapInit
  BY <1>1 DEF TypeOK, DsnapInit, Outcome, If, Sites
<1>2. CASE CreateBlob
  BY <1>2 DEF TypeOK, CreateBlob, Outcome, If, Sites, Fault
<1>3. CASE InitBlob
  BY <1>3 DEF TypeOK, InitBlob
<1>4. CASE AllocMaster
  BY <1>4, HeaderSizeNat DEF TypeOK, AllocMaster, Unused, Fault, Sites
<1>5. CASE ZeroMaster
  BY <1>5, WriteMasterType DEF TypeOK, ZeroMaster
<1>6. CASE WriteHeader
  <2>1. c_ptr' \in Nat /\ curr' \in Nat \ {0}
    BY <1>6, HeaderLen, HeaderSizeNat DEF WriteHeader, TypeOK
  <2>2. QED
    BY <1>6, <2>1, WriteMasterType DEF TypeOK, WriteHeader
<1>7. CASE WriteRecord
  <2> DEFINE r == drecord[curr]
  <2>1. r \in Record
    BY <1>7 DEF WriteRecord, TypeOK
  <2>2. CASE r.name = NULL
    BY <1>7, <2>2 DEF TypeOK, WriteRecord, Fault
  <2>3. CASE r.name # NULL
    <3>1. Len(RecordHead(r.name, r.size) \o Data(mem[r.loc], r.size)) \in Nat
      BY <2>1, <2>3, RecordLen, HeadSizeNat DEF Record
    <3>2. QED
      BY <1>7, <2>3, <3>1, WriteMasterType DEF TypeOK, WriteRecord
  <2>4. QED
    BY <2>2, <2>3
<1>8. CASE PublishData
  BY <1>8 DEF TypeOK, PublishData
<1>9. CASE PublishSize
  BY <1>9 DEF TypeOK, PublishSize
<1>10. ASSUME NEW c \in Call, UpdateRecord(c)
       PROVE  TypeOK'
  <2> DEFINE i == FindRecord(c.name)
  <2>1. i \in Nat
    BY FindRecordType DEF TypeOK
  <2>2. /\ arg' = arg /\ new_size' = new_size /\ c_ptr' = c_ptr /\ curr' = curr
        /\ UNCHANGED <<records, tot_size, master, blobSet, blobData, blobSize,
                       bst, mem, failed>>
    BY <1>10 DEF UpdateRecord
  <2>3. CASE UNCHANGED <<drecord, bytes>> /\ (Fault("null") \/ UNCHANGED <<pc, fault>>)
    BY <2>2, <2>3 DEF TypeOK, Fault
  <2>4. CASE /\ drecord' = [drecord EXCEPT ![i].loc = c.loc]
             /\ WriteMaster(drecord[i].offset, Data(mem[c.loc], c.size), "idle")
    <3>1. drecord' \in Seq(Record)
      BY <2>1, <2>4, CallType, MoveRecord DEF TypeOK
    <3>2. /\ pc' \in {"header", "record", "idle", "oops"}
          /\ fault' \in {"none", "null", "wild", "overrun"}
          /\ DOMAIN bytes' = Buf
      BY <2>4, WriteMasterType
    <3>3. QED
      BY <2>2, <3>1, <3>2 DEF TypeOK
  <2>5. QED
    BY <1>10, <2>3, <2>4, Zenon DEF UpdateRecord
<1>11. ASSUME NEW c \in Call, AddRecord(c)
       PROVE  TypeOK'
  BY <1>11 DEF TypeOK, AddRecord
<1>12. CASE UseOfNullFile
  BY <1>12 DEF TypeOK, UseOfNullFile, Fault
<1>13. CASE CreateRecord
  <2> DEFINE total == arg.size + tot_size + RecordHeadSize(arg.name)
  <2>1. arg.size \in Nat /\ arg.name \in Name /\ arg.loc \in Loc
    BY CallType DEF TypeOK
  <2>2. total \in Nat /\ RecordOffset(total, arg.size) \in Nat
    BY <2>1, HeadSizeNat DEF TypeOK, RecordOffset
  <2> DEFINE new(name) == [name   |-> IF name THEN arg.name ELSE NULL,
                           loc    |-> arg.loc,
                           size   |-> arg.size,
                           offset |-> RecordOffset(total, arg.size)]
  <2>3. PICK record, name \in Outcome :
          /\ failed' = failed \cup If(~record, {"record"})
                              \cup If(record /\ ~name, {"record->name"})
          /\ IF record THEN drecord' = Append(drecord, new(name)) /\ pc' = "expand"
                       ELSE UNCHANGED drecord /\ pc' = "idle"
    BY <1>13, Zenon DEF CreateRecord
  <2>4. new(name) \in Record
    BY <2>1, <2>2 DEF Record
  <2>5. drecord' \in Seq(Record) /\ pc' \in {"idle", "expand"}
    <3> HIDE DEF new
    <3>1. QED
      BY <2>3, <2>4 DEF TypeOK
  <2>6. failed' \subseteq Sites
    BY <2>3 DEF TypeOK, If, Sites
  <2>7. new_size' \in Nat
    BY <1>13, <2>2 DEF CreateRecord
  <2>8. QED
    BY <1>13, <2>5, <2>6, <2>7 DEF TypeOK, CreateRecord
<1>14. CASE ExpandMaster
  <2>1. bst' \in [Buf -> {"unused", "live", "freed"}]
    BY <1>14 DEF TypeOK, ExpandMaster, GrowInPlace, GrowByMoving, Fault, Unused
  <2>2. DOMAIN bytes' = Buf
    BY <1>14 DEF TypeOK, ExpandMaster, GrowInPlace, GrowByMoving, Fault, Unused
  <2>3. master' \in Buf \cup {NULL, Wild}
    <3>1. \/ UNCHANGED master
          \/ master' = NULL
          \/ \E b \in Unused : master' = b
      BY <1>14, Zenon DEF ExpandMaster, GrowInPlace, GrowByMoving
    <3>2. QED
      BY <3>1 DEF TypeOK, Unused
  <2>4. /\ pc' \in {"idle", "zero", "oops"} /\ fault' \in {fault, "wild"}
        /\ failed' \subseteq Sites /\ records' \in Nat /\ tot_size' \in Nat
    <3>1. \/ UNCHANGED <<records, tot_size, failed>> /\ Fault("wild")
          \/ /\ failed' = failed \cup {"krealloc"} /\ pc' = "idle"
             /\ UNCHANGED <<records, tot_size, fault>>
          \/ /\ tot_size' = new_size /\ records' = records + 1
             /\ pc' = "zero" /\ UNCHANGED <<failed, fault>>
      BY <1>14, Zenon DEF ExpandMaster
    <3>2. failed' \subseteq Sites
      BY <3>1 DEF TypeOK, Sites
    <3>3. QED
      BY <3>1, <3>2 DEF TypeOK, Fault
  <2>5. QED
    BY <1>14, <2>1, <2>2, <2>3, <2>4 DEF TypeOK, ExpandMaster
<1>15. CASE RemoveEntry
  BY <1>15 DEF TypeOK, RemoveEntry
<1>16. CASE FreeAll
  BY <1>16 DEF TypeOK, FreeAll, Fault
<1>17. CASE MemWrite
  BY <1>17 DEF TypeOK, MemWrite
<1>18. CASE UNCHANGED vars
  BY <1>18 DEF TypeOK, vars
<1>19. QED
  BY <1>1, <1>2, <1>3, <1>4, <1>5, <1>6, <1>7, <1>8, <1>9, <1>10, <1>11,
     <1>12, <1>13, <1>14, <1>15, <1>16, <1>17, <1>18 DEF Next, DriverStep

(* Every variable keeps its type, whatever the driver calls.                 *)
THEOREM TypeCorrect == Spec => []TypeOK
<1>1. QED
  BY TypeInit, TypeNext, PTL DEF Spec

-----------------------------------------------------------------------------
(* The inductive invariant.                                                  *)

LEMMA EndNat ==
  ASSUME drecord \in Seq(Record), NEW i \in 0 .. Len(drecord)
  PROVE  End(i) \in Nat
<1>1. CASE i = 0
  BY <1>1, HeaderSizeNat DEF End
<1>2. CASE i # 0
  <2>1. drecord[i] \in Record
    BY <1>2
  <2>2. QED
    BY <1>2, <2>1 DEF End, Record
<1>3. QED
  BY <1>1, <1>2

(* The header fits as well: it ends before the first record does.            *)
LEMMA HeaderFits ==
  ASSUME drecord \in Seq(Record), Chained
  PROVE  HeaderSize <= End(Len(drecord))
<1>1. CASE Len(drecord) = 0
  BY <1>1, HeaderSizeNat DEF End
<1>2. CASE Len(drecord) # 0
  <2>1. 1 \in 1 .. Len(drecord) /\ drecord[1] \in Record
    BY <1>2
  <2>2. RecordHeadSize(drecord[1].name) \in Nat
    BY <2>1, HeadSizeNat DEF Chained
  <2>3. drecord[1].offset = HeaderSize + RecordHeadSize(drecord[1].name)
    BY <2>1 DEF Chained, End
  <2>4. End(1) = drecord[1].offset + drecord[1].size /\ End(1) <= End(Len(drecord))
    BY <2>1 DEF Chained, End
  <2>5. End(Len(drecord)) \in Nat
    BY EndNat
  <2>6. QED
    BY <2>1, <2>2, <2>3, <2>4, <2>5, HeaderSizeNat DEF Record
<1>3. QED
  BY <1>1, <1>2

(* A write that fits the buffer goes through, and the buffer keeps its size. *)
LEMMA WriteFits ==
  ASSUME TypeOK, master \in Buf, Len(bytes[master]) \in Nat,
         NEW off \in Nat, NEW piece, Len(piece) \in Nat,
         off + Len(piece) <= Len(bytes[master]),
         NEW next, WriteMaster(off, piece, next)
  PROVE  /\ fault' = "none" /\ pc' = next
         /\ Len(bytes'[master]) = Len(bytes[master])
<1>1. WriteFault(off, Len(piece)) = "none"
  BY BufAssumption DEF WriteFault
<1>2. bytes' = [bytes EXCEPT ![master] = Splice(@, off, piece)]
  BY <1>1 DEF WriteMaster
<1>3. bytes'[master] = Splice(bytes[master], off, piece)
  BY <1>2 DEF TypeOK
<1>4. QED
  BY <1>1, <1>3, SpliceLen DEF WriteMaster

(* No step takes back that an allocation failed.                             *)
LEMMA FailedGrows == [Next]_vars => failed \subseteq failed'
<1> SUFFICES ASSUME [Next]_vars
             PROVE  failed \subseteq failed'
  OBVIOUS
<1>1. \/ UNCHANGED failed
      \/ DsnapInit \/ CreateBlob \/ AllocMaster \/ CreateRecord \/ ExpandMaster
  BY DEF Next, DriverStep, vars, InitBlob, ZeroMaster, WriteHeader, WriteRecord,
         PublishData, PublishSize, UpdateRecord, AddRecord, UseOfNullFile,
         RemoveEntry, FreeAll, MemWrite
<1>2. DsnapInit => failed \subseteq failed'
  BY DEF DsnapInit
<1>3. CreateBlob => failed \subseteq failed'
  BY DEF CreateBlob
<1>4. AllocMaster => failed \subseteq failed'
  BY DEF AllocMaster
<1>5. CreateRecord => failed \subseteq failed'
  BY DEF CreateRecord
<1>6. ExpandMaster => failed \subseteq failed'
  BY DEF ExpandMaster
<1>7. QED
  BY <1>1, <1>2, <1>3, <1>4, <1>5, <1>6

LEMMA ChainedSame ==
  ASSUME Chained, UNCHANGED drecord
  PROVE  Chained'
  BY DEF Chained, End

LEMMA IInvInit == Init => IInv
<1> SUFFICES ASSUME Init
             PROVE  IInv
  OBVIOUS
<1>1. TypeOK
  BY TypeInit
<1>2. Chained
  BY DEF Init, Chained
<1>3. PhaseOK /\ fault = "none"
  BY DEF Init, PhaseOK
<1>4. QED
  BY <1>1, <1>2, <1>3 DEF IInv

LEMMA IInvNext == IInv /\ [Next]_vars => IInv'
<1> SUFFICES ASSUME IInv, [Next]_vars, Contained'
             PROVE  Chained' /\ PhaseOK' /\ fault' = "none"
  BY TypeNext DEF IInv
<1> USE DEF callVars, listVars, fileVars, blobVars, heapVars
<1>a. TypeOK /\ TypeOK'
  BY TypeNext DEF IInv
<1>b. Contained
  BY FailedGrows DEF Contained
<1>c. Chained /\ PhaseOK /\ fault = "none"
  BY <1>b DEF IInv
<1>d. UNCHANGED drecord => Chained'
  BY <1>c, ChainedSame
<1>1. CASE DsnapInit
  <2>1. Chained'
    BY <1>1 DEF DsnapInit, Chained
  <2>2. PICK dirName, dfile, fileName \in Outcome :
          /\ objs' = objs \cup If(dirName, {DirNameStr}) \cup If(dfile, {Dfile})
                          \cup If(dfile /\ fileName, {FileNameStr})
          /\ failed' = failed \cup If(~dirName, {"ddir->name"})
                              \cup If(~dfile, {"dfile"})
                              \cup If(dfile /\ ~fileName, {"dfile->name"})
          /\ pc' = IF dfile THEN "create_blob" ELSE "idle"
    BY <1>1, Zenon DEF DsnapInit
  <2>3. dirName /\ dfile /\ fileName
    BY <2>2 DEF Contained, If
  <2>4. pc' = "create_blob" /\ {DirNameStr, FileNameStr, Dfile} \subseteq objs'
    BY <2>2, <2>3 DEF If
  <2>5. QED
    BY <1>1, <1>c, <2>1, <2>4 DEF DsnapInit, PhaseOK
<1>2. CASE CreateBlob
  <2>1. /\ FileNameStr \in objs
        /\ pc' = "init_blob" /\ objs \subseteq objs'
    <3>1. FileNameStr \in objs
      BY <1>2, <1>c DEF CreateBlob, PhaseOK
    <3>2. ~("blob" \in failed')
      BY DEF Contained
    <3>3. PICK made \in Outcome :
            /\ objs' = objs \cup {Blob} \cup If(made, {Entry})
            /\ failed' = failed \cup If(~made, {"entry"})
            /\ pc' = IF made THEN "init_blob" ELSE "idle"
      BY <1>2, <3>1, <3>2, Zenon DEF CreateBlob
    <3>4. made
      BY <3>3 DEF Contained, If
    <3>5. QED
      BY <3>1, <3>3, <3>4
  <2>2. UNCHANGED <<drecord, records, fault>>
    BY <1>2, <2>1 DEF CreateBlob
  <2>3. QED
    BY <1>2, <1>c, <1>d, <2>1, <2>2 DEF CreateBlob, PhaseOK
<1>3. CASE InitBlob
  BY <1>3, <1>c, <1>d DEF InitBlob, PhaseOK
<1>4. CASE AllocMaster
  <2>1. DirNameStr \in objs /\ Dfile \in objs /\ drecord = <<>> /\ records = 0
    BY <1>4, <1>c DEF AllocMaster, PhaseOK
  <2>2. UNCHANGED <<drecord, records, objs>>
    BY <1>4 DEF AllocMaster
  <2>3. End(0)' = HeaderSize
    BY DEF End
  <2>4. CASE master' = NULL /\ tot_size' = HeaderSize /\ pc' = "idle" /\ fault' = fault
    BY <1>c, <1>d, <2>1, <2>2, <2>4 DEF PhaseOK, NoFileYet
  <2>5. ASSUME NEW b \in Unused,
               tot_size' = HeaderSize, master' = b, pc' = "zero", fault' = fault,
               bytes' = [bytes EXCEPT ![b] = Grow(<<>>, HeaderSize)]
        PROVE  PhaseOK' /\ fault' = "none"
    <3>1. bytes'[b] = Grow(<<>>, HeaderSize) /\ b \in Buf
      BY <1>a, <2>5 DEF TypeOK, Unused
    <3>2. Len(bytes'[b]) = HeaderSize
      BY <3>1, GrowLen, HeaderSizeNat
    <3>3. FileOK'
      BY <2>1, <2>2, <2>3, <2>5, <3>1, <3>2 DEF FileOK
    <3>4. QED
      BY <1>c, <2>1, <2>2, <2>5, <3>3 DEF PhaseOK
  <2>6. QED
    BY <1>4, <1>d, <2>1, <2>2, <2>4, <2>5, Zenon DEF AllocMaster
<1>5. CASE ZeroMaster
  <2> DEFINE zeros == [k \in 1 .. tot_size |-> Zero]
  <2>1. FileOK /\ tot_size \in Nat
    BY <1>5, <1>a, <1>c DEF ZeroMaster, PhaseOK, TypeOK
  <2>2. Len(zeros) = tot_size
    BY <2>1
  <2>3. fault' = "none" /\ pc' = "header" /\ Len(bytes'[master]) = Len(bytes[master])
    <3> HIDE DEF zeros
    <3>1. WriteMaster(0, zeros, "header")
      BY <1>5 DEF ZeroMaster, zeros
    <3>2. QED
      BY <1>a, <2>1, <2>2, <3>1, WriteFits DEF FileOK
  <2>4. FileOK'
    BY <1>5, <2>1, <2>3 DEF ZeroMaster, FileOK, End
  <2>5. QED
    BY <1>5, <1>c, <1>d, <2>3, <2>4 DEF ZeroMaster, PhaseOK
<1>6. CASE WriteHeader
  <2>1. FileOK /\ records \in Nat /\ tot_size \in Nat
    BY <1>6, <1>a, <1>c DEF WriteHeader, PhaseOK, TypeOK
  <2>2. Len(Header(records)) = HeaderSize
    BY <2>1, HeaderLen
  <2>3. HeaderSize <= tot_size
    BY <1>a, <1>c, <2>1, HeaderFits DEF FileOK, TypeOK
  <2>4. fault' = "none" /\ pc' = "record" /\ Len(bytes'[master]) = Len(bytes[master])
    <3>1. WriteMaster(0, Header(records), "record")
      BY <1>6 DEF WriteHeader
    <3>2. QED
      BY <1>a, <2>1, <2>2, <2>3, <3>1, HeaderSizeNat, WriteFits DEF FileOK
  <2>5. FileOK'
    BY <1>6, <2>1, <2>4 DEF WriteHeader, FileOK, End
  <2>6. CursorOK'
    <3>1. curr' = 1 /\ c_ptr' = HeaderSize /\ Len(drecord') \in Nat
      BY <1>6, <1>a, <2>2 DEF WriteHeader, TypeOK
    <3>2. QED
      BY <3>1 DEF CursorOK, End
  <2>7. QED
    BY <1>6, <1>c, <1>d, <2>4, <2>5, <2>6 DEF WriteHeader, PhaseOK
<1>7. CASE WriteRecord
  <2> DEFINE r     == drecord[curr]
             piece == RecordHead(r.name, r.size) \o Data(mem[r.loc], r.size)
  <2>1. /\ FileOK /\ CursorOK /\ tot_size \in Nat
        /\ curr \in 1 .. Len(drecord) /\ r \in Record
    BY <1>7, <1>a, <1>c DEF WriteRecord, PhaseOK, TypeOK
  <2>2. r.name \in Name /\ r.name # NULL /\ r.size \in Nat
    BY <1>c, <2>1, NameAssumption DEF Chained, Record
  <2>3. Len(piece) = RecordHeadSize(r.name) + r.size /\ RecordHeadSize(r.name) \in Nat
    BY <2>2, RecordLen, HeadSizeNat
  <2>4. c_ptr + Len(piece) = End(curr)
    <3>1. r.offset = End(curr - 1) + RecordHeadSize(r.name)
      BY <1>c, <2>1 DEF Chained
    <3>2. End(curr) = r.offset + r.size
      BY <2>1 DEF End
    <3>3. End(curr - 1) \in Nat
      BY <1>a, <2>1, EndNat DEF TypeOK
    <3> HIDE DEF piece, r
    <3>4. QED
      BY <2>1, <2>2, <2>3, <3>1, <3>2, <3>3 DEF CursorOK
  <2>5. End(curr) <= tot_size
    BY <1>c, <2>1 DEF Chained, FileOK
  <2>6. /\ WriteMaster(c_ptr, piece, "record")
        /\ c_ptr' = c_ptr + Len(piece) /\ curr' = curr + 1
    BY <1>7, <2>2 DEF WriteRecord
  <2>7. fault' = "none" /\ pc' = "record" /\ Len(bytes'[master]) = Len(bytes[master])
    <3>1. c_ptr \in Nat /\ Len(piece) \in Nat
      BY <1>a, <2>2, <2>3 DEF TypeOK
    <3> HIDE DEF piece, r
    <3>2. QED
      BY <1>a, <2>1, <2>4, <2>5, <2>6, <3>1, WriteFits DEF FileOK
  <2>8. FileOK'
    BY <1>7, <2>1, <2>7 DEF WriteRecord, FileOK, End
  <2>9. CursorOK'
    <3>1. c_ptr' = End(curr) /\ curr' = curr + 1 /\ UNCHANGED drecord
      BY <1>7, <2>4, <2>6 DEF WriteRecord
    <3>2. QED
      BY <2>1, <3>1 DEF CursorOK, End
  <2>10. QED
    BY <1>7, <1>c, <1>d, <2>7, <2>8, <2>9 DEF WriteRecord, PhaseOK
<1>8. CASE PublishData
  <2>1. FileOK'
    BY <1>8, <1>c DEF PublishData, PhaseOK, FileOK, End
  <2>2. QED
    BY <1>8, <1>c, <1>d, <2>1 DEF PublishData, PhaseOK
<1>9. CASE PublishSize
  <2>1. FileOK'
    BY <1>9, <1>c DEF PublishSize, PhaseOK, FileOK, End
  <2>2. QED
    BY <1>9, <1>c, <1>d, <2>1 DEF PublishSize, PhaseOK
<1>10. ASSUME NEW c \in Call, UpdateRecord(c)
       PROVE  Chained' /\ PhaseOK' /\ fault' = "none"
  <2> DEFINE i == FindRecord(c.name)
  <2>1. /\ i \in 1 .. Len(drecord) /\ drecord[i] \in Record
        /\ pc = "idle" /\ Dfile \in objs
    BY <1>10, <1>a, FindRecordType DEF UpdateRecord, TypeOK
  <2>2. FileOK
    BY <1>c, <2>1 DEF PhaseOK, NoFileYet
  <2>3. drecord[i].name # NULL
    BY <1>c, <2>1, NameAssumption DEF Chained
  <2>4. UNCHANGED <<records, tot_size, master, objs>>
    BY <1>10 DEF UpdateRecord
  <2>5. CASE UNCHANGED <<pc, fault, drecord, bytes>>
    <3>1. FileOK'
      BY <2>2, <2>4, <2>5 DEF FileOK, End
    <3>2. QED
      BY <1>c, <1>d, <2>1, <2>4, <2>5, <3>1 DEF PhaseOK
  <2>6. CASE /\ c.size = drecord[i].size
             /\ drecord' = [drecord EXCEPT ![i].loc = c.loc]
             /\ WriteMaster(drecord[i].offset, Data(mem[c.loc], c.size), "idle")
    <3>1. /\ Len(drecord') = Len(drecord)
          /\ \A j \in 1 .. Len(drecord) : /\ drecord'[j].name = drecord[j].name
                                         /\ drecord'[j].size = drecord[j].size
                                         /\ drecord'[j].offset = drecord[j].offset
      BY <1>a, <2>1, <2>6, CallType, MoveRecord DEF TypeOK
    <3>2. \A j \in 0 .. Len(drecord) : End(j)' = End(j)
      BY <3>1 DEF End
    <3>3. Chained'
      <4>1. Len(drecord) \in Nat
        BY <1>a DEF TypeOK
      <4>2. QED
        BY <1>c, <3>1, <3>2, <4>1 DEF Chained
    <3>4. /\ drecord[i].offset \in Nat /\ c.size \in Nat
          /\ drecord[i].offset + c.size <= tot_size
      <4>1. End(i) = drecord[i].offset + drecord[i].size
        BY <2>1 DEF End
      <4>2. End(i) <= tot_size
        BY <1>c, <2>1, <2>2 DEF Chained, FileOK
      <4>3. QED
        BY <2>1, <2>6, <4>1, <4>2, CallType DEF Record
    <3>5. fault' = "none" /\ pc' = "idle" /\ Len(bytes'[master]) = Len(bytes[master])
      <4>1. Len(Data(mem[c.loc], c.size)) = c.size
        BY <3>4, DataLen
      <4>2. tot_size \in Nat
        BY <1>a DEF TypeOK
      <4>3. QED
        BY <1>a, <2>2, <2>6, <3>4, <4>1, <4>2, WriteFits DEF FileOK
    <3>6. FileOK'
      <4>1. Len(drecord) \in Nat
        BY <1>a DEF TypeOK
      <4>2. QED
        BY <2>2, <2>4, <3>1, <3>2, <3>5, <4>1 DEF FileOK
    <3>7. QED
      BY <2>1, <2>4, <3>3, <3>5, <3>6 DEF PhaseOK
  <2>7. QED
    BY <1>10, <2>3, <2>5, <2>6, Zenon DEF UpdateRecord
<1>11. ASSUME NEW c \in Call, AddRecord(c)
       PROVE  Chained' /\ PhaseOK' /\ fault' = "none"
  <2>1. UNCHANGED <<drecord, records, tot_size, master, bytes, objs, fault>>
        /\ pc = "idle" /\ pc' = "create"
    BY <1>11 DEF AddRecord
  <2>2. FileOK \/ NoFileYet => FileOK' \/ NoFileYet'
    BY <2>1 DEF FileOK, NoFileYet, End
  <2>3. QED
    BY <1>c, <1>d, <2>1, <2>2 DEF PhaseOK
<1>12. CASE UseOfNullFile
  BY <1>12, <1>c DEF UseOfNullFile, PhaseOK
<1>13. CASE CreateRecord
  <2>0. PICK n \in Nat : n = Len(drecord)
    BY <1>a DEF TypeOK
  <2> DEFINE total     == arg.size + tot_size + RecordHeadSize(arg.name)
             new(name) == [name   |-> IF name THEN arg.name ELSE NULL,
                           loc    |-> arg.loc,
                           size   |-> arg.size,
                           offset |-> RecordOffset(total, arg.size)]
             r         == new(TRUE)
  <2>1. /\ pc = "create" /\ (FileOK \/ NoFileYet) /\ Dfile \in objs
        /\ n \in Nat /\ tot_size \in Nat
        /\ arg.size \in Nat /\ arg.name \in Name /\ RecordHeadSize(arg.name) \in Nat
    BY <1>13, <1>a, <1>c, CallType, HeadSizeNat DEF CreateRecord, PhaseOK, TypeOK
  <2>2. records = n /\ tot_size = End(n)
    BY <2>0, <2>1 DEF FileOK, NoFileYet, End
  <2>3. /\ new_size' = total /\ objs \subseteq objs'
        /\ UNCHANGED <<records, tot_size, master, bytes, fault>>
    BY <1>13 DEF CreateRecord
  <2>4. PICK record, name \in Outcome :
          /\ failed' = failed \cup If(~record, {"record"})
                              \cup If(record /\ ~name, {"record->name"})
          /\ IF record THEN drecord' = Append(drecord, new(name)) /\ pc' = "expand"
                       ELSE UNCHANGED drecord /\ pc' = "idle"
    BY <1>13, Zenon DEF CreateRecord
  <2>5. CASE ~record
    <3>1. FileOK' \/ NoFileYet'
      BY <2>1, <2>3, <2>4, <2>5 DEF FileOK, NoFileYet, End
    <3>2. QED
      BY <1>c, <1>d, <2>1, <2>3, <2>4, <2>5, <3>1 DEF PhaseOK
  <2>6. CASE record
    <3>1. name
      BY <2>4, <2>6 DEF Contained, If
    <3>2. /\ r.name = arg.name /\ r.size = arg.size
          /\ r.offset = tot_size + RecordHeadSize(arg.name)
      BY <2>1 DEF RecordOffset
    <3>3. drecord' = Append(drecord, r) /\ pc' = "expand"
      BY <2>4, <2>6, <3>1
    <3> HIDE DEF r
    <3>4. /\ Len(drecord') = n + 1 /\ drecord'[n + 1] = r
          /\ \A j \in 1 .. n : drecord'[j] = drecord[j]
      BY <1>a, <2>0, <3>3 DEF TypeOK
    <3>5. \A j \in 0 .. n : End(j)' = End(j)
      BY <2>1, <3>4 DEF End
    <3>6. End(n + 1)' = tot_size + RecordHeadSize(arg.name) + arg.size
      BY <2>1, <3>2, <3>4 DEF End
    <3>7. \A j \in 0 .. n : End(j) \in Nat /\ End(j) <= End(n)
      <4>1. \A j \in 0 .. n : End(j) \in Nat
        BY <1>a, <2>0, EndNat DEF TypeOK
      <4>2. End(0) <= End(n)
        BY <1>a, <1>c, <2>0, HeaderFits DEF TypeOK, End
      <4>3. QED
        BY <1>c, <2>0, <2>1, <4>1, <4>2 DEF Chained
    <3>8. Chained'
      <4> SUFFICES ASSUME NEW j \in 1 .. n + 1
                   PROVE  /\ drecord'[j].name \in Name
                          /\ drecord'[j].offset = End(j - 1)' + RecordHeadSize(drecord'[j].name)
                          /\ End(j)' <= End(n + 1)'
        BY <3>4 DEF Chained
      <4>1. CASE j = n + 1
        <5>1. End(j - 1)' = tot_size
          BY <2>1, <2>2, <3>5, <4>1
        <5>2. End(j)' = End(n + 1)' /\ End(n + 1)' \in Nat
          BY <2>1, <3>6, <4>1
        <5>3. QED
          BY <2>1, <3>2, <3>4, <4>1, <5>1, <5>2
      <4>2. CASE j \in 1 .. n
        <5>1. End(j - 1)' = End(j - 1) /\ End(j)' = End(j) /\ drecord'[j] = drecord[j]
          BY <2>1, <3>4, <3>5, <4>2
        <5>2. End(j) <= tot_size /\ End(j) \in Nat
          BY <2>1, <2>2, <3>7, <4>2
        <5>3. QED
          BY <1>c, <2>0, <2>1, <3>6, <4>2, <5>1, <5>2 DEF Chained
      <4>3. QED
        BY <2>1, <4>1, <4>2
    <3>9. Expanding'
      <4>1. Len(drecord') > 0 /\ records' = Len(drecord') - 1
        BY <2>1, <2>2, <2>3, <3>4
      <4>2. (tot_size = End(Len(drecord) - 1) /\ new_size = End(Len(drecord)))'
        <5>1. Len(drecord') - 1 = n /\ Len(drecord') = n + 1
          BY <3>4
        <5>2. tot_size' = End(n)' /\ new_size' = End(n + 1)'
          BY <2>1, <2>2, <2>3, <3>5, <3>6
        <5>3. QED
          BY <5>1, <5>2 DEF End
      <4>3. \/ master' = NULL
            \/ master' \in Buf /\ Len(bytes'[master']) = tot_size'
        BY <2>1, <2>3 DEF FileOK, NoFileYet
      <4>4. QED
        BY <4>1, <4>2, <4>3 DEF Expanding
    <3>10. QED
      BY <1>c, <2>1, <2>3, <3>3, <3>8, <3>9 DEF PhaseOK
  <2>7. QED
    BY <2>5, <2>6
<1>14. CASE ExpandMaster
  <2>1. Expanding /\ master # Wild /\ Dfile \in objs /\ new_size \in Nat
    BY <1>14, <1>a, <1>c, BufAssumption DEF ExpandMaster, PhaseOK, Expanding, TypeOK
  <2>2. failed' # failed \cup {"krealloc"}
    BY DEF Contained
  <2>3. /\ (GrowInPlace \/ GrowByMoving)
        /\ tot_size' = new_size /\ records' = records + 1 /\ pc' = "zero"
        /\ UNCHANGED <<drecord, objs, fault>>
    BY <1>14, <2>1, <2>2 DEF ExpandMaster
  <2>4. master' \in Buf /\ Len(bytes'[master']) = new_size
    <3>1. CASE GrowInPlace
      <4>1. bytes'[master] = Grow(bytes[master], new_size)
        BY <1>a, <3>1 DEF GrowInPlace, TypeOK
      <4>2. QED
        BY <2>1, <3>1, <4>1, GrowLen DEF GrowInPlace
    <3>2. CASE GrowByMoving
      <4>1. PICK b \in Unused : \E old :
              master' = b /\ bytes'[b] = Grow(old, new_size)
        BY <3>2 DEF GrowByMoving, Unused
      <4>2. QED
        BY <2>1, <4>1, GrowLen DEF Unused
    <3>3. QED
      BY <2>3, <3>1, <3>2
  <2>5. FileOK'
    <3>1. Len(drecord) \in Nat
      BY <1>a DEF TypeOK
    <3>2. records' = Len(drecord) /\ tot_size' = End(Len(drecord))
      BY <2>1, <2>3, <3>1 DEF Expanding
    <3>3. End(Len(drecord))' = End(Len(drecord))
      BY <2>3 DEF End
    <3>4. QED
      BY <2>3, <2>4, <3>2, <3>3 DEF FileOK
  <2>6. QED
    BY <1>c, <1>d, <2>1, <2>3, <2>5 DEF PhaseOK
<1>15. CASE RemoveEntry
  <2>1. master # Wild
    BY <1>15, <1>c, BufAssumption DEF RemoveEntry, PhaseOK, FileOK, NoFileYet
  <2>2. QED
    BY <1>15, <1>c, <1>d, <2>1 DEF RemoveEntry, PhaseOK
<1>16. CASE FreeAll
  <2>1. master # Wild
    BY <1>16, <1>c DEF FreeAll, PhaseOK
  <2>2. QED
    BY <1>16, <1>c, <1>d, <2>1 DEF FreeAll, PhaseOK
<1>17. CASE MemWrite \/ UNCHANGED vars
  <2>1. UNCHANGED <<pc, new_size, c_ptr, curr, drecord, records, tot_size, master,
                    objs, bytes, fault>>
    BY <1>17 DEF MemWrite, vars
  <2>2. PhaseOK'
    BY <1>c, <2>1 DEF PhaseOK, FileOK, NoFileYet, Expanding, CursorOK, End
  <2>3. QED
    BY <1>c, <1>d, <2>1, <2>2
<1>18. QED
  BY <1>1, <1>2, <1>3, <1>4, <1>5, <1>6, <1>7, <1>8, <1>9, <1>10, <1>11,
     <1>12, <1>13, <1>14, <1>15, <1>16, <1>17 DEF Next, DriverStep

-----------------------------------------------------------------------------
(* The theorems.                                                             *)

LEMMA IInvHolds == Spec => []IInv
<1>1. QED
  BY IInvInit, IInvNext, PTL DEF Spec

(* For every driver: whatever it adds, updates and removes, in whatever      *)
(* order and with names and structures of whatever sizes, dsnap follows no   *)
(* NULL or uninitialised pointer and writes nothing outside the master       *)
(* buffer, unless an allocation failed that the code does not contain.       *)
THEOREM MemorySafety == Spec => []MemorySafe
<1>1. IInv => MemorySafe
  BY DEF IInv, MemorySafe
<1>2. QED
  BY <1>1, IInvHolds, PTL

(* The offsets of the record list, tot_size, the record count and the length *)
(* of the master buffer agree between calls.                                 *)
THEOREM Layout == Spec => []LayoutOK
<1>1. IInv => LayoutOK
  <2> SUFFICES ASSUME IInv, pc = "idle", Contained
               PROVE  /\ records = Len(drecord) /\ tot_size = End(records)
                      /\ \A i \in 1 .. Len(drecord) :
                           drecord[i].offset = End(i - 1) + RecordHeadSize(drecord[i].name)
                      /\ IF master = NULL THEN drecord = <<>> ELSE Len(bytes[master]) = tot_size
    BY DEF LayoutOK
  <2>1. Chained /\ (FileOK \/ NoFileYet)
    BY DEF IInv, PhaseOK
  <2>2. QED
    BY <2>1, BufAssumption DEF Chained, FileOK, NoFileYet, End
<1>2. QED
  BY <1>1, IInvHolds, PTL


-----------------------------------------------------------------------------
(* The heap.  Until there is a first buffer master is what kmalloc left in   *)
(* it, and from then on the current buffer is live, and the only one that    *)
(* is, unless a krealloc failed; every other object has an owner that        *)
(* dsnap_cleanup frees it through, but for the blob.                         *)
FileObjs == {Ddir, DirNameStr, Dfile, FileNameStr, Blob, Entry}

HeapOK ==
  /\ pc \in {"start", "create_blob", "init_blob", "alloc_master"} => master = Wild
  /\ pc = "start" => drecord = <<>>
  /\ "krealloc" \notin failed =>
       {b \in Buf : bst[b] = "live"} = IF pc = "dead" THEN {} ELSE {master} \ {NULL, Wild}
  /\ objs \subseteq FileObjs \cup RecordObjs
  /\ pc = "free_master" => DirNameStr \notin objs /\ Entry \notin objs
  /\ pc = "dead" => objs \subseteq {Blob}

LEMMA HeapInit == Init => HeapOK
<1> SUFFICES ASSUME Init
             PROVE  HeapOK
  OBVIOUS
<1>1. /\ pc = "start" /\ master = Wild /\ drecord = <<>> /\ objs = {Ddir}
      /\ bst = [b \in Buf |-> "unused"]
  BY DEF Init
<1>2. {b \in Buf : bst[b] = "live"} = {}
  BY <1>1
<1>3. QED
  BY <1>1, <1>2 DEF HeapOK, FileObjs

(* A step that neither allocates nor frees.                                  *)
LEMMA HeapSame ==
  ASSUME HeapOK, UNCHANGED <<master, bst, objs, failed>>, Len(drecord') = Len(drecord),
         pc' = "alloc_master" => pc = "init_blob", pc # "dead",
         pc' \notin {"start", "create_blob", "init_blob", "free_master", "dead"}
  PROVE  HeapOK'
<1>1. RecordObjs' = RecordObjs
  BY DEF RecordObjs
<1>2. (objs \subseteq FileObjs \cup RecordObjs)'
  BY <1>1 DEF HeapOK, FileObjs, Ddir, DirNameStr, Dfile, FileNameStr, Blob, Entry
<1>3. QED
  BY <1>2 DEF HeapOK

LEMMA HeapNext == TypeOK /\ HeapOK /\ [Next]_vars => HeapOK'
<1> SUFFICES ASSUME TypeOK, HeapOK, [Next]_vars
             PROVE  HeapOK'
  OBVIOUS
<1> USE DEF callVars, listVars, fileVars, blobVars, heapVars
<1>a. FileObjs' = FileObjs
  BY DEF FileObjs, Ddir, DirNameStr, Dfile, FileNameStr, Blob, Entry
<1>b. Len(drecord) \in Nat
  BY DEF TypeOK
<1>1. CASE DsnapInit
  <2>1. PICK dirName, dfile, fileName \in Outcome :
          /\ objs' = objs \cup If(dirName, {DirNameStr}) \cup If(dfile, {Dfile})
                          \cup If(dfile /\ fileName, {FileNameStr})
          /\ failed' = failed \cup If(~dirName, {"ddir->name"})
                              \cup If(~dfile, {"dfile"})
                              \cup If(dfile /\ ~fileName, {"dfile->name"})
          /\ pc' = IF dfile THEN "create_blob" ELSE "idle"
    BY <1>1, Zenon DEF DsnapInit
  <2>2. objs' \subseteq objs \cup FileObjs /\ failed \subseteq failed'
    BY <2>1 DEF If, FileObjs
  <2>3. pc = "start" /\ pc' \in {"create_blob", "idle"} /\ UNCHANGED <<master, bst>>
        /\ drecord = <<>> /\ drecord' = <<>>
    BY <1>1, <2>1 DEF DsnapInit, HeapOK
  <2>4. RecordObjs' = RecordObjs
    BY <2>3 DEF RecordObjs
  <2>5. QED
    BY <1>a, <2>2, <2>3, <2>4 DEF HeapOK
<1>2. CASE CreateBlob
  <2>1. objs' \subseteq objs \cup FileObjs /\ failed \subseteq failed'
    BY <1>2 DEF CreateBlob, If, FileObjs
  <2>2. /\ pc = "create_blob" /\ pc' \in {"init_blob", "idle", "oops"}
        /\ UNCHANGED <<master, bst, drecord>>
    BY <1>2 DEF CreateBlob, Fault
  <2>3. RecordObjs' = RecordObjs
    BY <2>2 DEF RecordObjs
  <2>4. QED
    BY <1>a, <2>1, <2>2, <2>3 DEF HeapOK
<1>3. CASE InitBlob
  <2>1. pc = "init_blob" /\ pc' = "alloc_master" /\ UNCHANGED <<master, bst, objs, failed, drecord>>
    BY <1>3 DEF InitBlob
  <2>2. QED
    BY <2>1, HeapSame
<1>4. CASE AllocMaster
  <2>1. /\ pc = "alloc_master" /\ pc' \in {"oops", "idle", "zero"} /\ failed \subseteq failed'
        /\ UNCHANGED <<objs, drecord>>
    BY <1>4 DEF AllocMaster, Fault
  <2>2. /\ master = Wild
        /\ "krealloc" \notin failed => {b \in Buf : bst[b] = "live"} = {}
    BY <2>1 DEF HeapOK
  <2>3. "krealloc" \notin failed' =>
          {b \in Buf : bst'[b] = "live"} = {master'} \ {NULL, Wild}
    <3>1. CASE UNCHANGED <<master, bst>>
      BY <2>1, <2>2, <3>1
    <3>2. CASE master' = NULL /\ UNCHANGED bst
      BY <2>1, <2>2, <3>2
    <3>3. ASSUME NEW b \in Unused, master' = b, bst' = [bst EXCEPT ![b] = "live"]
          PROVE  "krealloc" \notin failed' =>
                   {x \in Buf : bst'[x] = "live"} = {master'} \ {NULL, Wild}
      <4>1. b \in Buf /\ b # NULL /\ b # Wild
        BY BufAssumption DEF Unused
      <4>2. \A x \in Buf : bst'[x] = "live" <=> x = b \/ bst[x] = "live"
        BY <3>3, <4>1 DEF TypeOK
      <4>3. QED
        BY <2>1, <2>2, <3>3, <4>1, <4>2
    <3>4. QED
      BY <1>4, <3>1, <3>2, <3>3, Zenon DEF AllocMaster
  <2>4. RecordObjs' = RecordObjs
    BY <2>1 DEF RecordObjs
  <2>5. QED
    BY <1>a, <2>1, <2>3, <2>4 DEF HeapOK
<1>5. CASE ZeroMaster \/ WriteHeader \/ PublishData \/ PublishSize
  <2>1. /\ pc \in {"zero", "header", "record", "publish_size"}
        /\ pc' \in {"header", "record", "publish_size", "idle", "oops"}
        /\ UNCHANGED <<master, bst, objs, failed, drecord>>
    BY <1>5 DEF ZeroMaster, WriteHeader, PublishData, PublishSize, WriteMaster
  <2>2. QED
    BY <2>1, HeapSame
<1>6. CASE WriteRecord
  <2>1. pc = "record" /\ UNCHANGED <<master, bst, objs, failed, drecord>>
    BY <1>6 DEF WriteRecord
  <2>2. pc' \in {"record", "oops"}
    BY <1>6, Zenon DEF WriteRecord, WriteMaster, Fault
  <2>3. QED
    BY <2>1, <2>2, HeapSame
<1>7. ASSUME NEW c \in Call, UpdateRecord(c)
      PROVE  HeapOK'
  <2> DEFINE i == FindRecord(c.name)
  <2>1. pc = "idle" /\ UNCHANGED <<master, bst, objs, failed>>
    BY <1>7 DEF UpdateRecord
  <2>2. pc' \in {"idle", "oops"}
    BY <1>7, <2>1, Zenon DEF UpdateRecord, WriteMaster, Fault
  <2>3. drecord' = drecord \/ drecord' = [drecord EXCEPT ![i].loc = c.loc]
    BY <1>7, Zenon DEF UpdateRecord
  <2>4. Len(drecord') = Len(drecord)
    <3>1. i \in Nat
      BY FindRecordType DEF TypeOK
    <3>2. QED
      BY <2>3, <3>1, CallType, MoveRecord DEF TypeOK
  <2>5. QED
    BY <2>1, <2>2, <2>4, HeapSame
<1>8. ASSUME NEW c \in Call, AddRecord(c)
      PROVE  HeapOK'
  <2>1. pc = "idle" /\ pc' = "create" /\ UNCHANGED <<master, bst, objs, failed, drecord>>
    BY <1>8 DEF AddRecord
  <2>2. QED
    BY <2>1, HeapSame
<1>9. CASE UseOfNullFile
  <2>1. pc = "idle" /\ pc' = "oops" /\ UNCHANGED <<master, bst, objs, failed, drecord>>
    BY <1>9 DEF UseOfNullFile, Fault
  <2>2. QED
    BY <2>1, HeapSame
<1>10. CASE CreateRecord
  <2>1. PICK n \in Nat : n = Len(drecord)
    BY <1>b
  <2>2. /\ pc = "create" /\ pc' \in {"idle", "expand"} /\ failed \subseteq failed'
        /\ UNCHANGED <<master, bst>>
    BY <1>10 DEF CreateRecord
  <2>3. objs' \subseteq objs \cup RecordObjs'
    <3>1. PICK record, name \in Outcome :
            IF record
            THEN /\ \E r : drecord' = Append(drecord, r)
                 /\ objs' = objs \cup {RecordObj(n + 1)} \cup If(name, {RecordName(n + 1)})
            ELSE UNCHANGED objs
      BY <1>10, <2>1, Zenon DEF CreateRecord
    <3>2. CASE record
      <4>1. Len(drecord') = n + 1
        BY <2>1, <3>1, <3>2 DEF TypeOK
      <4>2. RecordObj(n + 1) \in RecordObjs' /\ RecordName(n + 1) \in RecordObjs'
        BY <4>1 DEF RecordObjs
      <4>3. QED
        BY <3>1, <3>2, <4>2 DEF If
    <3>3. QED
      BY <3>1, <3>2
  <2>4. RecordObjs \subseteq RecordObjs'
    <3>1. Len(drecord') \in {n, n + 1}
      <4>1. \/ UNCHANGED drecord
            \/ \E r : drecord' = Append(drecord, r)
        BY <1>10, Zenon DEF CreateRecord
      <4>2. QED
        BY <2>1, <4>1 DEF TypeOK
    <3>2. \A j \in 1 .. n : j \in 1 .. Len(drecord')
      BY <3>1
    <3>3. QED
      BY <2>1, <3>2 DEF RecordObjs
  <2>5. QED
    BY <1>a, <2>2, <2>3, <2>4 DEF HeapOK
<1>11. CASE ExpandMaster
  <2>1. /\ pc = "expand" /\ pc' \in {"oops", "idle", "zero"} /\ failed \subseteq failed'
        /\ UNCHANGED <<objs, drecord>>
    BY <1>11 DEF ExpandMaster, Fault
  <2>2. "krealloc" \notin failed => {b \in Buf : bst[b] = "live"} = {master} \ {NULL, Wild}
    BY <2>1 DEF HeapOK
  <2>3. "krealloc" \notin failed' =>
          {b \in Buf : bst'[b] = "live"} = {master'} \ {NULL, Wild}
    <3>1. CASE UNCHANGED <<master, bst>>
      BY <2>1, <2>2, <3>1
    <3>2. CASE failed' = failed \cup {"krealloc"}
      BY <3>2
    <3>3. CASE GrowByMoving
      <4>1. PICK b \in Unused :
              /\ bst' = [x \in Buf |-> IF x = b THEN "live"
                                       ELSE IF x = master THEN "freed" ELSE bst[x]]
              /\ master' = b
        BY <3>3, Zenon DEF GrowByMoving
      <4>2. b \in Buf /\ b # NULL /\ b # Wild
        BY BufAssumption DEF Unused
      <4>3. \A x \in Buf : bst'[x] = "live" <=> x = b \/ (x # master /\ bst[x] = "live")
        BY <4>1
      <4>4. QED
        BY <2>1, <2>2, <4>1, <4>2, <4>3
    <3>4. CASE GrowInPlace
      BY <3>1, <3>4 DEF GrowInPlace
    <3>5. QED
      BY <1>11, <3>1, <3>2, <3>3, <3>4, Zenon DEF ExpandMaster
  <2>4. RecordObjs' = RecordObjs
    BY <2>1 DEF RecordObjs
  <2>5. QED
    BY <1>a, <2>1, <2>3, <2>4 DEF HeapOK
<1>12. CASE RemoveEntry
  <2>1. /\ pc = "idle" /\ pc' = "free_master" /\ objs' = objs \ {DirNameStr, Entry}
        /\ UNCHANGED <<master, bst, failed, drecord>>
    BY <1>12 DEF RemoveEntry
  <2>2. RecordObjs' = RecordObjs
    BY <2>1 DEF RecordObjs
  <2>3. DirNameStr' = DirNameStr /\ Entry' = Entry
    BY DEF DirNameStr, Entry
  <2>4. QED
    BY <1>a, <2>1, <2>2, <2>3 DEF HeapOK
<1>13. CASE FreeAll
  <2>1. pc = "free_master" /\ UNCHANGED <<master, failed, drecord>>
    BY <1>13 DEF FreeAll
  <2>2. CASE master = Wild /\ pc' = "oops" /\ UNCHANGED <<objs, bst>>
    <3>1. QED
      BY <2>1, <2>2, HeapSame
  <2>3. CASE /\ master # Wild
             /\ bst' = [b \in Buf |-> IF b = master THEN "freed" ELSE bst[b]]
             /\ objs' = objs \ (RecordObjs \cup {FileNameStr, Dfile, Ddir})
             /\ pc' = "dead"
    <3>1. "krealloc" \notin failed' => {b \in Buf : bst'[b] = "live"} = {}
      <4>1. "krealloc" \notin failed' => {b \in Buf : bst[b] = "live"} = {master} \ {NULL, Wild}
        BY <2>1 DEF HeapOK
      <4>2. \A b \in Buf : bst'[b] = "live" <=> b # master /\ bst[b] = "live"
        BY <2>3
      <4>3. QED
        BY <4>1, <4>2
    <3>2. objs' \subseteq {Blob} /\ Blob' = Blob
      BY <2>1, <2>3 DEF HeapOK, FileObjs, Blob
    <3>3. RecordObjs' = RecordObjs
      BY <2>1 DEF RecordObjs
    <3>4. objs' \subseteq FileObjs
      BY <3>2 DEF FileObjs
    <3>5. QED
      BY <1>a, <2>3, <3>1, <3>2, <3>3, <3>4 DEF HeapOK
  <2>4. QED
    BY <1>13, <2>2, <2>3 DEF FreeAll, Fault
<1>14. CASE MemWrite \/ UNCHANGED vars
  <2>1. UNCHANGED <<pc, master, bst, objs, failed, drecord>>
    BY <1>14 DEF MemWrite, vars
  <2>2. RecordObjs' = RecordObjs /\ Blob' = Blob /\ DirNameStr' = DirNameStr /\ Entry' = Entry
    BY <2>1 DEF RecordObjs, Blob, DirNameStr, Entry
  <2>3. QED
    BY <1>a, <2>1, <2>2 DEF HeapOK
<1>15. QED
  BY <1>1, <1>2, <1>3, <1>4, <1>5, <1>6, <1>7, <1>8, <1>9, <1>10, <1>11,
     <1>12, <1>13, <1>14 DEF Next, DriverStep

(* What is allocated is the current master buffer and nothing else, unless a *)
(* krealloc has failed, and dsnap_cleanup leaves nothing but the blob,       *)
(* whatever else has failed before.                                          *)
THEOREM HeapKept == Spec => []NoLeak
<1>1. HeapOK => NoLeak
  BY DEF HeapOK, NoLeak
<1>2. QED
  BY <1>1, HeapInit, HeapNext, TypeCorrect, PTL DEF Spec

-----------------------------------------------------------------------------
(* What blob->data and blob->size may say while a reader can use them.       *)
BlobGood ==
  blobSize = 0 \/ /\ blobData \in Buf /\ bst[blobData] = "live"
                  /\ blobSize <= Len(bytes[blobData])

(* The blocks, and how far the blob can be trusted while the call runs.      *)
BlobOK ==
  /\ \A b \in Buf : IsSeq(bytes[b])
  /\ master \in Buf /\ pc # "dead" => bst[master] = "live"
  /\ pc \in {"zero", "header", "record", "publish_size"} =>
       master \in Buf /\ Len(bytes[master]) = tot_size
  /\ pc = "publish_size" => blobData = master
  /\ pc \in {"start", "create_blob"} => Entry \notin objs
  /\ pc = "alloc_master" => BlobGood
  /\ pc \in {"idle", "create", "expand"} /\ Entry \in objs => BlobGood

(* What the reader holds is the blob's, as long as nothing but updates in    *)
(* place has happened.                                                       *)
ReaderOK ==
  /\ rpc \in {"closed", "open", "fetched", "done", "oops"}
  /\ IsSeq(out)
  /\ rpc = "oops" => disturbed
  /\ rpc \in {"open", "fetched"} /\ ~disturbed => BlobGood
  /\ rpc = "fetched" /\ ~disturbed => rdata = blobData /\ rsize = blobSize
  /\ rsize \in Nat

-----------------------------------------------------------------------------
(* Buffers are sequences, whatever is done to them.                          *)

LEMMA FunctionSeq ==
  ASSUME NEW n \in Nat, NEW f, DOMAIN f = 1 .. n, f = [k \in 1 .. n |-> f[k]]
  PROVE  IsSeq(f) /\ Len(f) = n
<1>1. f \in [1 .. n -> {f[k] : k \in 1 .. n}]
  OBVIOUS
<1>2. QED
  BY <1>1, FunctionLen DEF IsSeq

LEMMA SeqLen ==
  ASSUME NEW s, IsSeq(s)
  PROVE  Len(s) \in Nat /\ DOMAIN s = 1 .. Len(s)
  BY DEF IsSeq

LEMMA SpliceSeq ==
  ASSUME NEW buf, IsSeq(buf), NEW off, NEW piece
  PROVE  IsSeq(Splice(buf, off, piece)) /\ Len(Splice(buf, off, piece)) = Len(buf)
<1> DEFINE s == Splice(buf, off, piece)
<1>1. Len(buf) \in Nat
  BY SeqLen
<1>2. DOMAIN s = 1 .. Len(buf) /\ s = [k \in 1 .. Len(buf) |-> s[k]]
  BY DEF Splice
<1> HIDE DEF s
<1>3. QED
  BY <1>1, <1>2, FunctionSeq DEF s

LEMMA GrowSeq ==
  ASSUME NEW buf, NEW n \in Nat
  PROVE  IsSeq(Grow(buf, n)) /\ Len(Grow(buf, n)) = n
<1> DEFINE s == Grow(buf, n)
<1>1. DOMAIN s = 1 .. n /\ s = [k \in 1 .. n |-> s[k]]
  BY DEF Grow
<1> HIDE DEF s
<1>2. QED
  BY <1>1, FunctionSeq DEF s

LEMMA EmptySeq == IsSeq(<<>>) /\ Len(<<>>) = 0
<1>1. <<>> \in Seq({})
  OBVIOUS
<1>2. QED
  BY <1>1 DEF IsSeq

LEMMA PartSeq ==
  ASSUME NEW s, IsSeq(s), NEW m \in Nat, NEW n \in Nat, m + n <= Len(s)
  PROVE  /\ IsSeq(SubSeq(s, m + 1, m + n))
         /\ Len(SubSeq(s, m + 1, m + n)) = n
<1>1. PICK S : s \in Seq(S)
  BY DEF IsSeq
<1>2. /\ SubSeq(s, m + 1, m + n) \in Seq(S)
      /\ Len(SubSeq(s, m + 1, m + n)) = n
  BY <1>1
<1>3. QED
  BY <1>2 DEF IsSeq

(* A write leaves every block a sequence of the length it had.               *)
LEMMA WriteKeeps ==
  ASSUME TypeOK, \A b \in Buf : IsSeq(bytes[b]),
         NEW off, NEW piece, NEW next, WriteMaster(off, piece, next)
  PROVE  \A b \in Buf : IsSeq(bytes'[b]) /\ Len(bytes'[b]) = Len(bytes[b])
<1>1. CASE bytes' = bytes
  BY <1>1
<1>2. CASE bytes' = [bytes EXCEPT ![master] = Splice(@, off, piece)] /\ master \in Buf
  <2>1. TAKE b \in Buf
  <2>2. bytes'[b] = bytes[b] \/ bytes'[b] = Splice(bytes[b], off, piece)
    BY <1>2 DEF TypeOK
  <2>3. QED
    BY <2>2, SpliceSeq
<1>3. QED
  BY <1>1, <1>2 DEF WriteMaster

-----------------------------------------------------------------------------
LEMMA BlobInit == Init => BlobOK
<1> SUFFICES ASSUME Init
             PROVE  BlobOK
  OBVIOUS
<1>1. /\ pc = "start" /\ master = Wild /\ objs = {Ddir}
      /\ bytes = [b \in Buf |-> <<>>]
  BY DEF Init
<1>2. Entry \notin objs
  BY <1>1 DEF Entry, Ddir
<1>3. QED
  BY <1>1, <1>2, EmptySeq, BufAssumption DEF BlobOK

(* The blob and the blocks stay usable if no block is freed or cut.          *)
LEMMA BlobGoodKept ==
  ASSUME BlobGood, blobData' = blobData, blobSize' = blobSize,
         \A b \in Buf : bst[b] = "live" => bst'[b] = "live" /\ Len(bytes'[b]) = Len(bytes[b])
  PROVE  BlobGood'
  BY DEF BlobGood

(* An update in place.                                                       *)
LEMMA UpdateKeeps ==
  ASSUME TypeOK, BlobOK, NEW c \in Call, UpdateRecord(c)
  PROVE  /\ UNCHANGED <<master, tot_size, blobData, blobSize, objs, bst>>
         /\ pc = "idle" /\ pc' \in {"idle", "oops"}
         /\ \A b \in Buf : IsSeq(bytes'[b]) /\ Len(bytes'[b]) = Len(bytes[b])
<1> DEFINE i == FindRecord(c.name)
<1>1. pc = "idle" /\ UNCHANGED <<master, tot_size, blobData, blobSize, objs, bst>>
  BY DEF UpdateRecord, blobVars
<1>2. pc' \in {"idle", "oops"}
  BY <1>1, Zenon DEF UpdateRecord, WriteMaster, Fault
<1>3. \A b \in Buf : IsSeq(bytes'[b]) /\ Len(bytes'[b]) = Len(bytes[b])
  <2>1. bytes' = bytes \/ WriteMaster(drecord[i].offset, Data(mem[c.loc], c.size), "idle")
    BY DEF UpdateRecord
  <2>2. \A b \in Buf : IsSeq(bytes[b])
    BY DEF BlobOK
  <2>3. CASE bytes' = bytes
    BY <2>2, <2>3
  <2>4. CASE WriteMaster(drecord[i].offset, Data(mem[c.loc], c.size), "idle")
    BY <2>2, <2>4, WriteKeeps
  <2>5. QED
    BY <2>1, <2>3, <2>4
<1>4. QED
  BY <1>1, <1>2, <1>3

LEMMA BlobNext == TypeOK /\ BlobOK /\ [Next]_vars => BlobOK'
<1> SUFFICES ASSUME TypeOK, BlobOK, [Next]_vars
             PROVE  BlobOK'
  OBVIOUS
<1> USE DEF callVars, listVars, fileVars, blobVars, heapVars
<1>a. Entry' = Entry
  BY DEF Entry
<1>b. \A b \in Buf : IsSeq(bytes[b]) /\ Len(bytes[b]) \in Nat
  BY SeqLen DEF BlobOK
<1>1. CASE DsnapInit
  <2>1. PICK dirName, dfile, fileName \in Outcome :
          /\ objs' = objs \cup If(dirName, {DirNameStr}) \cup If(dfile, {Dfile})
                          \cup If(dfile /\ fileName, {FileNameStr})
          /\ failed' = failed \cup If(~dirName, {"ddir->name"})
                              \cup If(~dfile, {"dfile"})
                              \cup If(dfile /\ ~fileName, {"dfile->name"})
          /\ pc' = IF dfile THEN "create_blob" ELSE "idle"
    BY <1>1, Zenon DEF DsnapInit
  <2>2. Entry \notin objs /\ pc = "start" /\ UNCHANGED <<master, bst, bytes>>
    BY <1>1 DEF DsnapInit, BlobOK
  <2>3. Entry \notin objs' /\ pc' \in {"create_blob", "idle"}
    BY <2>1, <2>2 DEF If, Entry, DirNameStr, Dfile, FileNameStr
  <2>4. QED
    BY <1>a, <2>2, <2>3 DEF BlobOK
<1>2. CASE CreateBlob
  <2>1. pc = "create_blob" /\ Entry \notin objs /\ UNCHANGED <<master, bst, bytes>>
    BY <1>2 DEF CreateBlob, BlobOK
  <2>2. \/ pc' \in {"init_blob", "oops"}
        \/ pc' = "idle" /\ objs' \subseteq objs \cup {Blob}
    BY <1>2, Zenon DEF CreateBlob, Fault, If
  <2>3. Blob # Entry
    BY DEF Blob, Entry
  <2>4. QED
    BY <1>a, <2>1, <2>2, <2>3 DEF BlobOK
<1>3. CASE InitBlob
  BY <1>3 DEF InitBlob, BlobOK, BlobGood
<1>4. CASE AllocMaster
  <2>1. /\ pc = "alloc_master" /\ BlobGood
        /\ UNCHANGED <<objs, blobData, blobSize>>
    BY <1>4 DEF AllocMaster, BlobOK
  <2>2. CASE UNCHANGED <<master, bst, bytes>> /\ pc' = "oops"
    BY <2>1, <2>2 DEF BlobOK
  <2>3. CASE UNCHANGED <<bst, bytes>> /\ master' = NULL /\ pc' = "idle"
    BY <2>1, <2>3, BufAssumption DEF BlobOK, BlobGood
  <2>4. ASSUME NEW b \in Unused,
               tot_size' = HeaderSize, master' = b, pc' = "zero",
               bst' = [bst EXCEPT ![b] = "live"],
               bytes' = [bytes EXCEPT ![b] = Grow(<<>>, HeaderSize)]
        PROVE  BlobOK'
    <3>1. b \in Buf
      BY DEF Unused
    <3>2. /\ bytes'[b] = Grow(<<>>, HeaderSize) /\ bst'[b] = "live"
          /\ \A x \in Buf : x # b => bytes'[x] = bytes[x]
      BY <2>4, <3>1 DEF TypeOK
    <3>3. IsSeq(bytes'[b]) /\ Len(bytes'[b]) = HeaderSize
      BY <3>2, GrowSeq, HeaderSizeNat
    <3>4. \A x \in Buf : IsSeq(bytes'[x])
      BY <1>b, <3>2, <3>3
    <3>5. QED
      BY <2>4, <3>1, <3>2, <3>3, <3>4 DEF BlobOK
  <2>5. QED
    BY <1>4, <2>2, <2>3, <2>4, Zenon DEF AllocMaster, Fault
<1>5. CASE ZeroMaster \/ WriteHeader
  <2>1. \A b \in Buf : IsSeq(bytes'[b]) /\ Len(bytes'[b]) = Len(bytes[b])
    BY <1>5, <1>b, WriteKeeps DEF ZeroMaster, WriteHeader
  <2>2. /\ pc \in {"zero", "header"} /\ pc' \in {"header", "record", "oops"}
        /\ UNCHANGED <<master, tot_size, bst>>
    BY <1>5 DEF ZeroMaster, WriteHeader, WriteMaster
  <2>3. QED
    BY <2>1, <2>2 DEF BlobOK
<1>6. CASE WriteRecord
  <2> DEFINE r     == drecord[curr]
             piece == RecordHead(r.name, r.size) \o Data(mem[r.loc], r.size)
  <2>1. pc = "record" /\ UNCHANGED <<master, tot_size, bst>>
    BY <1>6 DEF WriteRecord
  <2>2. pc' \in {"record", "oops"}
    BY <1>6, Zenon DEF WriteRecord, WriteMaster, Fault
  <2>3. \A b \in Buf : IsSeq(bytes'[b]) /\ Len(bytes'[b]) = Len(bytes[b])
    <3>1. bytes' = bytes \/ WriteMaster(c_ptr, piece, "record")
      BY <1>6, Zenon DEF WriteRecord
    <3>2. QED
      BY <1>b, <3>1, WriteKeeps
  <2>4. QED
    BY <2>1, <2>2, <2>3 DEF BlobOK
<1>7. CASE PublishData
  BY <1>7 DEF PublishData, BlobOK
<1>8. CASE PublishSize
  <2>1. /\ pc = "publish_size" /\ pc' = "idle" /\ blobSize' = tot_size
        /\ UNCHANGED <<master, tot_size, blobData, bst, bytes>>
    BY <1>8 DEF PublishSize
  <2>2. /\ master \in Buf /\ Len(bytes[master]) = tot_size /\ bst[master] = "live"
        /\ blobData = master
    BY <2>1 DEF BlobOK
  <2>3. BlobGood'
    BY <1>b, <2>1, <2>2 DEF BlobGood
  <2>4. QED
    BY <2>1, <2>3 DEF BlobOK
<1>9. ASSUME NEW c \in Call, UpdateRecord(c)
      PROVE  BlobOK'
  <2>1. /\ UNCHANGED <<master, tot_size, blobData, blobSize, objs, bst>>
        /\ pc = "idle" /\ pc' \in {"idle", "oops"}
        /\ \A b \in Buf : IsSeq(bytes'[b]) /\ Len(bytes'[b]) = Len(bytes[b])
    BY <1>9, UpdateKeeps
  <2>2. Entry \in objs => BlobGood'
    BY <2>1, BlobGoodKept DEF BlobOK
  <2>3. QED
    BY <1>a, <2>1, <2>2 DEF BlobOK
<1>10. ASSUME NEW c \in Call, AddRecord(c)
       PROVE  BlobOK'
  <2>1. /\ pc = "idle" /\ pc' = "create"
        /\ UNCHANGED <<master, blobData, blobSize, objs, bst, bytes>>
    BY <1>10 DEF AddRecord
  <2>2. QED
    BY <1>a, <2>1 DEF BlobOK, BlobGood
<1>11. CASE UseOfNullFile
  BY <1>11 DEF UseOfNullFile, Fault, BlobOK
<1>12. CASE CreateRecord
  <2>1. /\ pc = "create" /\ pc' \in {"idle", "expand"}
        /\ UNCHANGED <<master, blobData, blobSize, bst, bytes>>
    BY <1>12 DEF CreateRecord
  <2>2. Entry \in objs' => Entry \in objs
    <3>1. PICK i : objs' \subseteq objs \cup {RecordObj(i), RecordName(i)}
      BY <1>12, Zenon DEF CreateRecord, If
    <3>2. RecordObj(i) # Entry /\ RecordName(i) # Entry
      BY DEF RecordObj, RecordName, Entry
    <3>3. QED
      BY <3>1, <3>2
  <2>3. QED
    BY <1>a, <2>1, <2>2 DEF BlobOK, BlobGood
<1>13. CASE ExpandMaster
  <2>1. pc = "expand" /\ UNCHANGED <<blobData, blobSize, objs>>
    BY <1>13 DEF ExpandMaster
  <2>2. CASE pc' = "oops" /\ UNCHANGED <<master, bst, bytes>>
    BY <2>1, <2>2 DEF BlobOK
  <2>3. CASE pc' = "idle" /\ master' = NULL /\ UNCHANGED <<bst, bytes>>
    BY <1>a, <2>1, <2>3, BufAssumption DEF BlobOK, BlobGood
  <2>4. CASE pc' = "zero" /\ tot_size' = new_size /\ GrowInPlace
    <3>1. /\ master \in Buf /\ UNCHANGED <<bst, master>>
          /\ bytes' = [bytes EXCEPT ![master] = Grow(@, new_size)]
      BY <2>4 DEF GrowInPlace
    <3>2. /\ bytes'[master] = Grow(bytes[master], new_size)
          /\ \A x \in Buf : x # master => bytes'[x] = bytes[x]
      BY <3>1 DEF TypeOK
    <3>3. IsSeq(bytes'[master]) /\ Len(bytes'[master]) = new_size
      BY <3>2, GrowSeq DEF TypeOK
    <3>4. \A x \in Buf : IsSeq(bytes'[x])
      BY <1>b, <3>2, <3>3
    <3>5. QED
      BY <2>1, <2>4, <3>1, <3>3, <3>4 DEF BlobOK
  <2>5. CASE pc' = "zero" /\ tot_size' = new_size /\ GrowByMoving
    <3> DEFINE old == IF master \in Buf THEN bytes[master] ELSE <<>>
    <3>1. PICK b \in Unused :
            /\ bytes' = [x \in Buf |-> IF x = b THEN Grow(old, new_size)
                                       ELSE IF x = master THEN <<>> ELSE bytes[x]]
            /\ bst' = [x \in Buf |-> IF x = b THEN "live"
                                     ELSE IF x = master THEN "freed" ELSE bst[x]]
            /\ master' = b
      BY <2>5, Zenon DEF GrowByMoving
    <3> HIDE DEF old
    <3>2. b \in Buf
      BY DEF Unused
    <3>3. /\ bytes'[b] = Grow(old, new_size) /\ bst'[b] = "live"
          /\ \A x \in Buf : x # b => bytes'[x] = <<>> \/ bytes'[x] = bytes[x]
      BY <3>1, <3>2
    <3>4. IsSeq(bytes'[b]) /\ Len(bytes'[b]) = new_size
      BY <3>3, GrowSeq DEF TypeOK
    <3>5. \A x \in Buf : IsSeq(bytes'[x])
      BY <1>b, <3>3, <3>4, EmptySeq
    <3>6. QED
      BY <2>1, <2>5, <3>1, <3>2, <3>3, <3>4, <3>5 DEF BlobOK
  <2>6. QED
    BY <1>13, <2>2, <2>3, <2>4, <2>5, Zenon DEF ExpandMaster, Fault
<1>14. CASE RemoveEntry
  BY <1>14 DEF RemoveEntry, BlobOK
<1>15. CASE FreeAll
  <2>1. pc = "free_master" /\ UNCHANGED master
    BY <1>15 DEF FreeAll
  <2>2. CASE pc' = "oops" /\ UNCHANGED <<bst, bytes>>
    BY <2>1, <2>2 DEF BlobOK
  <2>3. CASE pc' = "dead" /\ bytes' = [b \in Buf |-> IF b = master THEN <<>> ELSE bytes[b]]
    <3>1. \A b \in Buf : IsSeq(bytes'[b])
      BY <1>b, <2>3, EmptySeq
    <3>2. QED
      BY <2>3, <3>1 DEF BlobOK
  <2>4. QED
    BY <1>15, <2>2, <2>3 DEF FreeAll, Fault
<1>16. CASE MemWrite \/ UNCHANGED vars
  <2>1. UNCHANGED <<pc, tot_size, master, blobData, blobSize, objs, bst, bytes>>
    BY <1>16 DEF MemWrite, vars
  <2>2. QED
    BY <1>a, <2>1 DEF BlobOK, BlobGood
<1>17. QED
  BY <1>1, <1>2, <1>3, <1>4, <1>5, <1>6, <1>7, <1>8, <1>9, <1>10, <1>11,
     <1>12, <1>13, <1>14, <1>15, <1>16 DEF Next, DriverStep

-----------------------------------------------------------------------------
(* The reader.                                                               *)

(* Reading changes nothing that the driver sees.                             *)
LEMMA ReaderStepsAreSteps == [ReaderNext]_allVars => [Next]_vars
  BY DEF ReaderNext, ReaderStep, Open, Fetch, Copy, Close, OtherCall, Next, DriverStep,
         allVars

LEMMA ReaderInitOK == ReaderInit => ReaderOK
  BY EmptySeq DEF ReaderInit, ReaderOK

LEMMA ReaderNextOK ==
  TypeOK /\ BlobOK /\ ReaderOK /\ [ReaderNext]_allVars => ReaderOK'
<1> SUFFICES ASSUME TypeOK, BlobOK, ReaderOK, [ReaderNext]_allVars
             PROVE  ReaderOK'
  OBVIOUS
<1> USE DEF allVars, readerVars
<1>b. \A b \in Buf : IsSeq(bytes[b]) /\ Len(bytes[b]) \in Nat
  BY SeqLen DEF BlobOK
<1>1. CASE Open
  <2>1. /\ Entry \in objs /\ rpc' = "open" /\ out' = <<>> /\ disturbed' = (pc # "idle")
        /\ UNCHANGED <<pc, blobData, blobSize, bst, bytes, rsize>>
    BY <1>1 DEF Open, vars
  <2>2. ~disturbed' => BlobGood'
    BY <2>1 DEF BlobOK, BlobGood
  <2>3. QED
    BY <2>1, <2>2, EmptySeq DEF ReaderOK
<1>2. CASE Fetch
  <2>1. /\ rpc = "open" /\ rpc' = "fetched" /\ rdata' = blobData /\ rsize' = blobSize
        /\ UNCHANGED <<blobData, blobSize, bst, bytes, out, disturbed>>
    BY <1>2 DEF Fetch, vars
  <2>2. BlobGood => BlobGood'
    BY <2>1 DEF BlobGood
  <2>3. QED
    BY <2>1, <2>2 DEF ReaderOK, TypeOK
<1>3. CASE Copy
  <2>1. /\ rpc = "fetched"
        /\ UNCHANGED <<blobData, blobSize, bst, bytes, rdata, rsize, disturbed>>
    BY <1>3 DEF Copy, vars
  <2>2. Len(out) \in Nat /\ Wanted \in Nat /\ (Wanted # 0 => Len(out) + Wanted <= rsize)
    <3>1. Len(out) \in Nat /\ rsize \in Nat /\ Chunk \in Nat
      BY SeqLen, ChunkAssumption DEF ReaderOK
    <3>2. QED
      BY <3>1 DEF Wanted
  <2>3. ~disturbed => ReadFault = "none"
    <3> SUFFICES ASSUME ~disturbed, Wanted # 0
                 PROVE  ReadFault = "none"
      BY DEF ReadFault
    <3>1. rdata = blobData /\ rsize = blobSize /\ BlobGood /\ rsize \in Nat
      BY <2>1 DEF ReaderOK
    <3>2. /\ blobData \in Buf /\ bst[blobData] = "live"
          /\ blobSize <= Len(bytes[blobData])
      BY <2>2, <3>1 DEF BlobGood
    <3>3. QED
      BY <1>b, <2>2, <3>1, <3>2 DEF ReadFault
  <2>4. BlobGood => BlobGood'
    BY <2>1 DEF BlobGood
  <2>5. CASE ReadFault # "none"
    <3>1. rpc' = "oops" /\ UNCHANGED out
      BY <1>3, <2>5 DEF Copy
    <3>2. QED
      BY <2>1, <2>3, <2>5, <3>1 DEF ReaderOK
  <2>6. CASE ReadFault = "none" /\ Wanted = 0
    <3>1. rpc' = "done" /\ out' = out
      BY <1>3, <2>6 DEF Copy
    <3>2. QED
      BY <2>1, <3>1 DEF ReaderOK
  <2>7. CASE ReadFault = "none" /\ Wanted # 0
    <3> DEFINE part == SubSeq(bytes[rdata], Len(out) + 1, Len(out) + Wanted)
    <3>1. rpc' = "open" /\ out' = out \o part
      BY <1>3, <2>7 DEF Copy
    <3>2. rdata \in Buf /\ ~(Len(out) + Wanted > Len(bytes[rdata]))
      BY <2>7, Zenon DEF ReadFault
    <3>3. IsSeq(part)
      <4>1. IsSeq(bytes[rdata]) /\ Len(bytes[rdata]) \in Nat
        BY <1>b, <3>2
      <4>2. Len(out) + Wanted <= Len(bytes[rdata])
        BY <2>2, <3>2, <4>1
      <4>3. QED
        BY <2>2, <4>1, <4>2, PartSeq
    <3>4. IsSeq(out')
      <4> HIDE DEF part
      <4>1. QED
        BY <3>1, <3>3, ConcatLen DEF ReaderOK
    <3>5. QED
      BY <2>1, <2>4, <3>1, <3>4 DEF ReaderOK
  <2>8. QED
    BY <2>5, <2>6, <2>7
<1>4. CASE Close
  BY <1>4, EmptySeq DEF Close, ReaderOK
<1>5. ASSUME NEW c \in Call, UpdateRecord(c), Watched({c.name}, FALSE)
      PROVE  ReaderOK'
  <2>1. /\ UNCHANGED <<blobData, blobSize, bst, rpc, rdata, rsize, out>>
        /\ disturbed' = (rpc # "closed" /\ disturbed)
        /\ \A b \in Buf : Len(bytes'[b]) = Len(bytes[b])
    BY <1>5, UpdateKeeps DEF Watched
  <2>2. BlobGood => BlobGood'
    BY <2>1, BlobGoodKept
  <2>3. QED
    BY <2>1, <2>2 DEF ReaderOK
<1>6. CASE OtherCall /\ Watched({}, TRUE)
  <2>1. /\ UNCHANGED <<rpc, rdata, rsize, out>>
        /\ disturbed' = (rpc # "closed")
    BY <1>6 DEF Watched
  <2>2. QED
    BY <2>1 DEF ReaderOK
<1>7. CASE (MemWrite /\ UNCHANGED readerVars) \/ UNCHANGED allVars
  <2>1. UNCHANGED <<blobData, blobSize, bst, bytes, rpc, rdata, rsize, out, disturbed>>
    BY <1>7 DEF MemWrite, vars, blobVars, heapVars
  <2>2. QED
    BY <2>1 DEF ReaderOK, BlobGood
<1>8. QED
  BY <1>1, <1>2, <1>3, <1>4, <1>5, <1>6, <1>7 DEF ReaderNext, ReaderStep

(* Whatever the driver adds, updates and removes, and whichever allocations  *)
(* fail, a reader with reads of any size meets a fault only if a call other  *)
(* than an update in place has taken a step since it opened the file.        *)
THEOREM ReadingSafe == ReaderSpec => []ReadSafe
<1>1. ReaderInit => TypeOK /\ BlobOK /\ ReaderOK
  BY TypeInit, BlobInit, ReaderInitOK DEF ReaderInit
<1>2. TypeOK /\ BlobOK /\ ReaderOK /\ [ReaderNext]_allVars => (TypeOK /\ BlobOK /\ ReaderOK)'
  BY ReaderStepsAreSteps, TypeNext, BlobNext, ReaderNextOK
<1>3. ReaderOK => ReadSafe
  BY DEF ReaderOK, ReadSafe
<1>4. QED
  BY <1>1, <1>2, <1>3, PTL DEF ReaderSpec

-----------------------------------------------------------------------------
(* Parts of what the code copies.                                            *)

(* Two buffers that agree on a range have the same part there.               *)
LEMMA SamePart ==
  ASSUME NEW s, IsSeq(s), NEW t, IsSeq(t), NEW m \in Nat \ {0}, NEW n \in Nat,
         n <= Len(s), n <= Len(t), \A k \in m .. n : s[k] = t[k]
  PROVE  SubSeq(s, m, n) = SubSeq(t, m, n)
<1>1. PICK S : s \in Seq(S)
  BY DEF IsSeq
<1>2. PICK T : t \in Seq(T)
  BY DEF IsSeq
<1>3. s \in Seq(S \cup T) /\ t \in Seq(S \cup T)
  BY <1>1, <1>2
<1>4. QED
  BY <1>3

LEMMA FrontPart ==
  ASSUME NEW s, IsSeq(s), NEW t, IsSeq(t), NEW m \in Nat \ {0}, NEW n \in Nat, n <= Len(s)
  PROVE  SubSeq(s \o t, m, n) = SubSeq(s, m, n)
<1>1. PICK S : s \in Seq(S)
  BY DEF IsSeq
<1>2. PICK T : t \in Seq(T)
  BY DEF IsSeq
<1>3. s \in Seq(S \cup T) /\ t \in Seq(S \cup T)
  BY <1>1, <1>2
<1>4. \A k \in m .. n : (s \o t)[k] = s[k]
  BY <1>3
<1>5. n <= Len(s \o t)
  BY <1>3
<1>6. QED
  BY <1>4, <1>5, ConcatLen, SamePart

LEMMA BackPart ==
  ASSUME NEW s, IsSeq(s), NEW t, IsSeq(t)
  PROVE  SubSeq(s \o t, Len(s) + 1, Len(s) + Len(t)) = t
<1>1. PICK S : s \in Seq(S)
  BY DEF IsSeq
<1>2. PICK T : t \in Seq(T)
  BY DEF IsSeq
<1>3. s \in Seq(S \cup T) /\ t \in Seq(S \cup T)
  BY <1>1, <1>2
<1>4. QED
  BY <1>3

(* What was copied to off is found there ...                                 *)
Copied(new, off, piece) ==
  \A m \in Nat \ {0}, n \in Nat :
    n <= Len(piece) => SubSeq(new, off + m, off + n) = SubSeq(piece, m, n)

LEMMA SplicedPart ==
  ASSUME NEW buf, IsSeq(buf), NEW off \in Nat, NEW piece, IsSeq(piece),
         off + Len(piece) <= Len(buf)
  PROVE  Copied(Splice(buf, off, piece), off, piece)
<1> SUFFICES ASSUME NEW m \in Nat \ {0}, NEW n \in Nat, n <= Len(piece)
             PROVE  SubSeq(Splice(buf, off, piece), off + m, off + n) = SubSeq(piece, m, n)
  BY Zenon DEF Copied
<1> DEFINE s == Splice(buf, off, piece)
           a == SubSeq(s, off + m, off + n)
           b == SubSeq(piece, m, n)
<1>1. Len(buf) \in Nat /\ Len(piece) \in Nat
  BY SeqLen
<1>2. IsSeq(s) /\ Len(s) = Len(buf)
  BY SpliceSeq
<1>3. \A k \in off + m .. off + n : s[k] = piece[k - off]
  BY <1>1 DEF Splice
<1> HIDE DEF s
<1>4. PICK S : s \in Seq(S)
  BY <1>2 DEF IsSeq
<1>5. PICK P : piece \in Seq(P)
  BY DEF IsSeq
<1>6. s \in Seq(S \cup P) /\ piece \in Seq(S \cup P)
  BY <1>4, <1>5
<1>7. CASE m <= n
  <2>1. a \in Seq(S \cup P) /\ b \in Seq(S \cup P)
    BY <1>1, <1>2, <1>6, <1>7
  <2>2. Len(a) = (off + n) - (off + m) + 1 /\ Len(b) = n - m + 1
    BY <1>1, <1>2, <1>6, <1>7
  <2>3. \A k \in 1 .. Len(b) : a[k] = b[k]
    BY <1>1, <1>2, <1>3, <1>6, <1>7, <2>2
  <2>4. Len(a) = Len(b) /\ Len(b) \in Nat
    BY <1>1, <1>7, <2>2
  <2> HIDE DEF a, b
  <2>5. a = b
    BY <2>1, <2>3, <2>4
  <2>6. QED
    BY <2>5 DEF s, a, b
<1>8. CASE ~(m <= n)
  <2>1. a = <<>> /\ b = <<>>
    BY <1>1, <1>2, <1>6, <1>8
  <2>2. QED
    BY <2>1 DEF s
<1>9. QED
  BY <1>7, <1>8

(* ... and the rest of the buffer is as before.                              *)
LEMMA SplicedRest ==
  ASSUME NEW buf, IsSeq(buf), NEW off \in Nat, NEW piece, Len(piece) \in Nat,
         NEW k \in 1 .. Len(buf), k <= off \/ off + Len(piece) < k
  PROVE  Splice(buf, off, piece)[k] = buf[k]
  BY SeqLen DEF Splice

-----------------------------------------------------------------------------
(* Items.                                                                    *)

(* The item whose name, offset and size are these, read in a buffer.         *)
ItemIn(buf, n, o, s) ==
  [name |-> SubSeq(buf, o - 3 - StrLen[n], o - 4),
   size |-> IF SubSeq(buf, o - 3, o) = U32(s) THEN s ELSE NULL,
   data |-> SubSeq(buf, o + 1, o + s)]

Whole(n, s, v) == [name |-> Chars(n), size |-> s, data |-> Data(v, s)]

Fits(buf, n, o, s) ==
  /\ n \in Name /\ s \in Nat /\ o \in Nat /\ StrLen[n] + 8 <= o
  /\ IsSeq(buf) /\ o + s <= Len(buf)

Agree(new, old, n, o, s) == \A k \in o - 3 - StrLen[n] .. o + s : new[k] = old[k]

(* It depends on its own bytes only.                                         *)
LEMMA ItemElsewhere ==
  ASSUME NEW n, NEW s, NEW o, NEW old, NEW new,
         Fits(old, n, o, s), Fits(new, n, o, s), Agree(new, old, n, o, s)
  PROVE  ItemIn(new, n, o, s) = ItemIn(old, n, o, s)
<1>0. /\ n \in Name /\ s \in Nat /\ o \in Nat /\ StrLen[n] + 8 <= o
      /\ IsSeq(old) /\ IsSeq(new) /\ o + s <= Len(old) /\ o + s <= Len(new)
  BY DEF Fits
<1>1. /\ StrLen[n] \in Nat /\ Len(old) \in Nat /\ Len(new) \in Nat
      /\ \A k \in o - 3 - StrLen[n] .. o + s : new[k] = old[k]
  BY <1>0, StrLenNat, SeqLen DEF Agree
<1>2. SubSeq(new, o - 3 - StrLen[n], o - 4) = SubSeq(old, o - 3 - StrLen[n], o - 4)
  <2>1. PICK a \in Nat \ {0}, b \in Nat : a = o - 3 - StrLen[n] /\ b = o - 4
    BY <1>0, <1>1
  <2>2. b <= Len(old) /\ b <= Len(new) /\ \A k \in a .. b : new[k] = old[k]
    BY <1>0, <1>1, <2>1
  <2>3. QED
    BY <1>0, <2>1, <2>2, SamePart
<1>3. SubSeq(new, o - 3, o) = SubSeq(old, o - 3, o)
  <2>1. PICK a \in Nat \ {0} : a = o - 3
    BY <1>0, <1>1
  <2>2. o <= Len(old) /\ o <= Len(new) /\ \A k \in a .. o : new[k] = old[k]
    BY <1>0, <1>1, <2>1
  <2>3. QED
    BY <1>0, <2>1, <2>2, SamePart
<1>4. SubSeq(new, o + 1, o + s) = SubSeq(old, o + 1, o + s)
  <2>1. \A k \in o + 1 .. o + s : new[k] = old[k]
    BY <1>0, <1>1
  <2>2. QED
    BY <1>0, <2>1, SamePart
<1>5. QED
  BY <1>2, <1>3, <1>4 DEF ItemIn

(* One turn of dsnap_construct_blob's loop leaves a whole item.              *)
LEMMA ItemWritten ==
  ASSUME NEW n \in Name, NEW s \in Nat, NEW v, NEW c \in Nat,
         NEW buf, IsSeq(buf), c + StrLen[n] + 8 + s <= Len(buf)
  PROVE  ItemIn(Splice(buf, c, RecordHead(n, s) \o Data(v, s)), n, c + StrLen[n] + 8, s)
           = Whole(n, s, v)
<1> DEFINE L == StrLen[n]
           hs == U32(L) \o Chars(n)
           head == hs \o U32(s)
           piece == head \o Data(v, s)
           new == Splice(buf, c, piece)
           o == c + L + 8
<1>1. L \in Nat
  BY StrLenNat
<1>2. IsSeq(U32(L)) /\ Len(U32(L)) = 4 /\ IsSeq(U32(s)) /\ Len(U32(s)) = 4
  BY <1>1, U32Len
<1>3. IsSeq(Chars(n)) /\ Len(Chars(n)) = L
  BY CharsLen
<1>4. IsSeq(Data(v, s)) /\ Len(Data(v, s)) = s
  BY DataLen
<1>5. IsSeq(hs) /\ Len(hs) = 4 + L
  BY <1>2, <1>3, ConcatLen
<1>6. IsSeq(head) /\ Len(head) = (4 + L) + 4
  <2> HIDE DEF hs
  <2>1. QED
    BY <1>2, <1>5, ConcatLen
<1>7. IsSeq(piece) /\ Len(piece) = L + 8 + s
  <2>1. IsSeq(piece) /\ Len(piece) = ((4 + L) + 4) + s
    <3> HIDE DEF head
    <3>1. QED
      BY <1>4, <1>6, ConcatLen
  <2>2. QED
    BY <1>1, <2>1
<1>8. SubSeq(hs, 5, 4 + L) = Chars(n)
  <2>1. SubSeq(hs, Len(U32(L)) + 1, Len(U32(L)) + Len(Chars(n))) = Chars(n)
    BY <1>2, <1>3, BackPart
  <2> HIDE DEF hs, L
  <2>2. QED
    BY <1>2, <1>3, <2>1
<1>9. SubSeq(head, 5, 4 + L) = Chars(n)
  <2> HIDE DEF hs, L
  <2>1. SubSeq(hs \o U32(s), 5, 4 + L) = SubSeq(hs, 5, 4 + L)
    BY <1>1, <1>2, <1>5, FrontPart
  <2>2. QED
    BY <1>8, <2>1
<1>10. SubSeq(head, 5 + L, 8 + L) = U32(s)
  <2> HIDE DEF hs, L
  <2>1. SubSeq(hs \o U32(s), Len(hs) + 1, Len(hs) + Len(U32(s))) = U32(s)
    BY <1>2, <1>5, BackPart
  <2>2. Len(hs) + 1 = 5 + L /\ Len(hs) + Len(U32(s)) = 8 + L
    BY <1>1, <1>2, <1>5
  <2>3. QED
    BY <2>1, <2>2
<1> HIDE DEF hs, head, L
<1>11. SubSeq(piece, 5, 4 + L) = Chars(n) /\ SubSeq(piece, 5 + L, 8 + L) = U32(s)
  <2>1. SubSeq(head \o Data(v, s), 5, 4 + L) = SubSeq(head, 5, 4 + L)
    BY <1>1, <1>4, <1>6, FrontPart
  <2>2. SubSeq(head \o Data(v, s), 5 + L, 8 + L) = SubSeq(head, 5 + L, 8 + L)
    BY <1>1, <1>4, <1>6, FrontPart
  <2>3. QED
    BY <1>9, <1>10, <2>1, <2>2
<1>12. SubSeq(piece, 9 + L, 8 + L + s) = Data(v, s)
  <2>1. SubSeq(head \o Data(v, s), Len(head) + 1, Len(head) + Len(Data(v, s))) = Data(v, s)
    BY <1>4, <1>6, BackPart
  <2>2. Len(head) + 1 = 9 + L /\ Len(head) + Len(Data(v, s)) = 8 + L + s
    BY <1>1, <1>4, <1>6
  <2>3. QED
    BY <2>1, <2>2
<1> HIDE DEF piece
<1>13. c + Len(piece) <= Len(buf) /\ Len(buf) \in Nat
  BY <1>1, <1>7, SeqLen DEF L
<1>a. Copied(new, c, piece)
  BY <1>7, <1>13, SplicedPart
<1> HIDE DEF new
<1>14. SubSeq(new, c + 5, c + (4 + L)) = Chars(n)
  <2>1. 5 \in Nat \ {0} /\ 4 + L \in Nat /\ 4 + L <= Len(piece)
    BY <1>1, <1>7
  <2>2. SubSeq(new, c + 5, c + (4 + L)) = SubSeq(piece, 5, 4 + L)
    BY <1>a, <2>1, Zenon DEF Copied
  <2>3. QED
    BY <1>11, <2>2
<1>15. SubSeq(new, c + (5 + L), c + (8 + L)) = U32(s)
  <2>1. 5 + L \in Nat \ {0} /\ 8 + L \in Nat /\ 8 + L <= Len(piece)
    BY <1>1, <1>7
  <2>2. SubSeq(new, c + (5 + L), c + (8 + L)) = SubSeq(piece, 5 + L, 8 + L)
    BY <1>a, <2>1, Zenon DEF Copied
  <2>3. QED
    BY <1>11, <2>2
<1>16. SubSeq(new, c + (9 + L), c + (8 + L + s)) = Data(v, s)
  <2>1. 9 + L \in Nat \ {0} /\ 8 + L + s \in Nat /\ 8 + L + s <= Len(piece)
    BY <1>1, <1>7
  <2>2. SubSeq(new, c + (9 + L), c + (8 + L + s)) = SubSeq(piece, 9 + L, 8 + L + s)
    BY <1>a, <2>1, Zenon DEF Copied
  <2>3. QED
    BY <1>12, <2>2
<1>17. /\ o - 3 - L = c + 5 /\ o - 4 = c + (4 + L) /\ o - 3 = c + (5 + L) /\ o = c + (8 + L)
       /\ o + 1 = c + (9 + L) /\ o + s = c + (8 + L + s)
  BY <1>1
<1> HIDE DEF o
<1>18. ItemIn(new, n, o, s) = Whole(n, s, v)
  BY <1>14, <1>15, <1>16, <1>17 DEF ItemIn, Whole, L
<1>19. QED
  BY <1>18 DEF new, o, L, piece, head, hs, RecordHead

(* An update in place leaves the name and the size of its item.              *)
LEMMA ItemUpdated ==
  ASSUME NEW n \in Name, NEW s \in Nat, NEW v, NEW o \in Nat, StrLen[n] + 8 <= o,
         NEW buf, IsSeq(buf), o + s <= Len(buf)
  PROVE  ItemIn(Splice(buf, o, Data(v, s)), n, o, s)
           = [name |-> ItemIn(buf, n, o, s).name, size |-> ItemIn(buf, n, o, s).size,
              data |-> Data(v, s)]
<1> DEFINE piece == Data(v, s)
           new   == Splice(buf, o, piece)
<1>1. IsSeq(piece) /\ Len(piece) = s /\ StrLen[n] \in Nat
  BY DataLen, StrLenNat
<1> HIDE DEF piece
<1>2. IsSeq(new) /\ Len(new) = Len(buf) /\ Len(buf) \in Nat
  BY SpliceSeq, SeqLen
<1>3. \A k \in 1 .. o : new[k] = buf[k]
  BY <1>1, <1>2, SplicedRest
<1>4. SubSeq(new, o + 1, o + s) = piece
  <2>1. SubSeq(new, o + 1, o + s) = SubSeq(piece, 1, s)
    <3>1. 1 \in Nat \ {0} /\ s <= Len(piece) /\ o + Len(piece) <= Len(buf)
      BY <1>1
    <3>2. Copied(new, o, piece)
      BY <1>1, <3>1, SplicedPart
    <3>3. QED
      BY <3>1, <3>2, Zenon DEF Copied
  <2>2. PICK S : piece \in Seq(S)
    BY <1>1 DEF IsSeq
  <2>3. SubSeq(piece, 1, s) = piece
    BY <1>1, <2>2
  <2>4. QED
    BY <2>1, <2>3
<1> HIDE DEF new
<1>5. SubSeq(new, o - 3 - StrLen[n], o - 4) = SubSeq(buf, o - 3 - StrLen[n], o - 4)
  <2>1. PICK a \in Nat \ {0}, b \in Nat : a = o - 3 - StrLen[n] /\ b = o - 4
    BY <1>1
  <2>2. b <= Len(buf) /\ b <= Len(new) /\ \A k \in a .. b : new[k] = buf[k]
    BY <1>1, <1>2, <1>3, <2>1
  <2>3. QED
    BY <1>2, <2>1, <2>2, SamePart
<1>6. SubSeq(new, o - 3, o) = SubSeq(buf, o - 3, o)
  <2>1. PICK a \in Nat \ {0} : a = o - 3
    BY <1>1
  <2>2. o <= Len(buf) /\ o <= Len(new) /\ \A k \in a .. o : new[k] = buf[k]
    BY <1>1, <1>2, <1>3, <2>1
  <2>3. QED
    BY <1>2, <2>1, <2>2, SamePart
<1>7. ItemIn(new, n, o, s)
        = [name |-> ItemIn(buf, n, o, s).name, size |-> ItemIn(buf, n, o, s).size,
           data |-> piece]
  BY <1>4, <1>5, <1>6 DEF ItemIn
<1>8. QED
  BY <1>7 DEF new, piece

-----------------------------------------------------------------------------
(* The records in the buffer.                                                *)

(* Records end in the order of the list.                                     *)
LEMMA EndsInOrder ==
  ASSUME drecord \in Seq(Record), Chained,
         NEW i \in 0 .. Len(drecord), NEW j \in i .. Len(drecord)
  PROVE  End(i) <= End(j)
<1> DEFINE T == {k \in i .. Len(drecord) : ~(End(i) <= End(k))}
<1>1. SUFFICES ASSUME T # {}
               PROVE  FALSE
  OBVIOUS
<1>2. Len(drecord) \in Nat /\ T \subseteq Nat
  OBVIOUS
<1>3. PICK k \in T : \A x \in T : k <= x
  <2> HIDE DEF T
  <2>1. QED
    BY <1>1, <1>2, LeastElement
<1>4. \A x \in 0 .. Len(drecord) : End(x) \in Nat
  BY EndNat
<1>5. k \in i + 1 .. Len(drecord)
  BY <1>4
<1>6. k - 1 \in i .. Len(drecord) /\ k - 1 \notin T
  BY <1>3, <1>5
<1>7. End(i) <= End(k - 1)
  BY <1>6
<1>8. End(k - 1) <= End(k)
  <2>1. drecord[k] \in Record /\ RecordHeadSize(drecord[k].name) \in Nat
    BY <1>5, HeadSizeNat DEF Chained
  <2>2. drecord[k].offset = End(k - 1) + RecordHeadSize(drecord[k].name)
    BY <1>5 DEF Chained
  <2>3. End(k) = drecord[k].offset + drecord[k].size
    BY <1>5 DEF End
  <2>4. End(k - 1) \in Nat /\ drecord[k].offset \in Nat /\ drecord[k].size \in Nat
    <3>1. k - 1 \in 0 .. Len(drecord)
      BY <1>2, <1>5
    <3>2. QED
      BY <1>4, <2>1, <3>1 DEF Record
  <2>5. QED
    BY <2>1, <2>2, <2>3, <2>4
<1>9. QED
  BY <1>4, <1>5, <1>7, <1>8

(* Where the i-th record's fields are.                                       *)
Placed(i) ==
  LET r == drecord[i]
  IN  /\ r \in Record /\ r.name \in Name /\ r.size \in Nat /\ r.offset \in Nat
      /\ StrLen[r.name] \in Nat /\ End(i - 1) \in Nat
      /\ r.offset = End(i - 1) + StrLen[r.name] + 8
      /\ End(i) = r.offset + r.size /\ End(i) <= End(Len(drecord))

LEMMA Places ==
  ASSUME drecord \in Seq(Record), Chained, NEW i \in 1 .. Len(drecord)
  PROVE  Placed(i)
<1>1. drecord[i] \in Record /\ drecord[i].name \in Name
  BY DEF Chained
<1>2. drecord[i].size \in Nat /\ drecord[i].offset \in Nat
  BY <1>1 DEF Record
<1>3. StrLen[drecord[i].name] \in Nat
  BY <1>1, StrLenNat
<1>4. End(i - 1) \in Nat
  BY EndNat
<1>5. drecord[i].offset = End(i - 1) + StrLen[drecord[i].name] + 8
  BY <1>1, <1>2, <1>3, <1>4 DEF Chained, RecordHeadSize
<1>6. End(i) = drecord[i].offset + drecord[i].size /\ End(i) <= End(Len(drecord))
  BY DEF End, Chained
<1>7. QED
  BY <1>1, <1>2, <1>3, <1>4, <1>5, <1>6 DEF Placed

LEMMA ItemAtIs ==
  ASSUME NEW i
  PROVE  /\ ItemAt(i) = ItemIn(bytes[master], drecord[i].name, drecord[i].offset,
                               drecord[i].size)
         /\ ItemAt(i)' = ItemIn(bytes'[master'], drecord'[i].name, drecord'[i].offset,
                                drecord'[i].size)
  BY DEF ItemAt, ItemIn

LEMMA ItemIs ==
  ASSUME NEW c
  PROVE  Store!Item(c) = Whole(c.name, c.size, mem[c.loc])
  BY DEF Store!Item, Store!Chars, Store!Data, Store!Chr, Store!Dat,
         Whole, Chars, Data, Chr, Dat

(* The sequences of items and of registered names.                           *)
LEMMA ItemsAre ==
  ASSUME Written \in Nat
  PROVE  Len(Items) = Written /\ \A j \in 1 .. Written : Items[j] = ItemAt(j)
<1>1. DOMAIN Items = 1 .. Written /\ Items = [j \in 1 .. Written |-> Items[j]]
  BY DEF Items
<1>2. Len(Items) = Written
  BY <1>1, FunctionSeq
<1>3. QED
  BY <1>2 DEF Items

RegisteredAs(r) == [name |-> r.name, loc |-> r.loc, size |-> r.size]

LEMMA RegisteredAre ==
  ASSUME Len(drecord) \in Nat
  PROVE  /\ Len(Registered) = Len(drecord)
         /\ \A j \in 1 .. Len(drecord) : Registered[j] = RegisteredAs(drecord[j])
<1>1. DOMAIN Registered = 1 .. Len(drecord)
      /\ Registered = [j \in 1 .. Len(drecord) |-> Registered[j]]
  BY DEF Registered
<1>2. Len(Registered) = Len(drecord)
  BY <1>1, FunctionSeq
<1>3. QED
  BY <1>2 DEF Registered, RegisteredAs

LEMMA AppendFunction ==
  ASSUME NEW n \in Nat, NEW S, NEW f \in [1 .. n -> S], NEW g \in [1 .. n + 1 -> S],
         \A j \in 1 .. n : g[j] = f[j]
  PROVE  g = Append(f, g[n + 1])
<1>1. f \in Seq(S) /\ Len(f) = n /\ g[n + 1] \in S
  BY FunctionLen
<1>2. g \in Seq(S) /\ Len(g) = n + 1
  BY FunctionLen
<1>3. QED
  BY <1>1, <1>2

-----------------------------------------------------------------------------
(* The steps.                                                                *)

(* What the items tell of their records, and what dsnap_find_record found.   *)
ItemsOK ==
  Contained =>
    /\ \A j \in 1 .. Written : /\ ItemAt(j).name = Chars(drecord[j].name)
                               /\ ItemAt(j).size = drecord[j].size
    /\ pc = "create" => \A j \in 1 .. Len(drecord) : drecord[j].name # arg.name

LEMMA WrittenNat ==
  ASSUME TypeOK
  PROVE  Written \in Nat
  BY DEF TypeOK, Written

(* A step that the store does not see.                                       *)
StoreStep == Store!StoreNext \/ UNCHANGED Store!storeVars

LEMMA Unseen ==
  ASSUME TypeOK, ItemsOK, Contained,
         mem' = mem, Status' = Status, drecord' = drecord, Written' = Written,
         \A j \in 1 .. Written : ItemAt(j)' = ItemAt(j),
         pc' = "create" => \A j \in 1 .. Len(drecord) : drecord[j].name # arg'.name
  PROVE  StoreStep /\ ItemsOK'
<1>1. Items' = Items
  BY DEF Items
<1>2. Registered' = Registered
  BY DEF Registered
<1>3. StoreStep
  BY <1>1, <1>2 DEF StoreStep, Store!storeVars
<1>4. ItemsOK'
  BY DEF ItemsOK
<1>5. QED
  BY <1>3, <1>4

(* Nothing is written yet.                                                   *)
LEMMA UnseenEmpty ==
  ASSUME TypeOK, ItemsOK, Contained,
         mem' = mem, Status' = Status, drecord' = drecord, Written = 0, Written' = 0,
         pc' # "create"
  PROVE  StoreStep /\ ItemsOK'
  BY Unseen

(* The rebuild ends.                                                         *)
LEMMA Published ==
  ASSUME TypeOK, ItemsOK, Contained,
         mem' = mem, Status = "rebuilding", Status' = "ready", drecord' = drecord,
         Written = Len(drecord), Written' = Written,
         \A j \in 1 .. Written : ItemAt(j)' = ItemAt(j), pc' # "create"
  PROVE  StoreStep /\ ItemsOK'
<1>1. Items' = Items
  BY DEF Items
<1>2. Registered' = Registered
  BY DEF Registered
<1>3. Len(Items) = Len(Registered)
  BY WrittenNat, ItemsAre, RegisteredAre DEF TypeOK
<1>4. StoreStep
  BY <1>1, <1>2, <1>3 DEF StoreStep, Store!StoreNext, Store!Publish
<1>5. ItemsOK'
  BY DEF ItemsOK
<1>6. QED
  BY <1>4, <1>5

(* What holds in every state from which the code goes on undisturbed.        *)
Sound ==
  TypeOK /\ Chained /\ PhaseOK /\ BlobOK /\ ItemsOK /\ Contained

LEMMA AnyPlaced ==
  ASSUME Sound
  PROVE  \A j \in 1 .. Len(drecord) : Placed(j)
  BY Places DEF Sound, TypeOK

(* An item whose bytes lie in front of a write, or behind it, stays.         *)
Spares(j, off, piece) == End(j) <= off \/ off + Len(piece) <= End(j - 1)

LEMMA ItemSpared ==
  ASSUME Sound, NEW j \in 1 .. Len(drecord), NEW old, IsSeq(old),
         Len(old) = End(Len(drecord)), NEW off \in Nat, NEW piece, Len(piece) \in Nat,
         Spares(j, off, piece)
  PROVE  ItemIn(Splice(old, off, piece), drecord[j].name, drecord[j].offset, drecord[j].size)
           = ItemIn(old, drecord[j].name, drecord[j].offset, drecord[j].size)
<1>1. PICK n, o, z : n = drecord[j].name /\ o = drecord[j].offset /\ z = drecord[j].size
  OBVIOUS
<1>2. PICK new, front, L, size, len :
        /\ new = Splice(old, off, piece) /\ front = End(j - 1) /\ L = StrLen[n]
        /\ size = Len(old) /\ len = Len(piece)
  OBVIOUS
<1>3. /\ n \in Name /\ z \in Nat /\ o \in Nat /\ L \in Nat /\ front \in Nat
      /\ size \in Nat /\ len \in Nat
  BY <1>1, <1>2, AnyPlaced, SeqLen DEF Placed
<1>4. o = front + L + 8 /\ o + z <= size /\ L + 8 <= o
  BY <1>1, <1>2, <1>3, AnyPlaced DEF Placed
<1>5. o + z <= off \/ off + len <= front
  BY <1>1, <1>2, AnyPlaced DEF Placed, Spares
<1>6. IsSeq(new) /\ Len(new) = size /\ Len(old) = size
  BY <1>2, SpliceSeq
<1>7. ASSUME NEW k \in o - 3 - L .. o + z
      PROVE  new[k] = old[k]
  <2>1. k \in Int /\ o - 3 - L <= k /\ k <= o + z
    BY <1>3
  <2>2. k \in 1 .. size
    BY <1>3, <1>4, <2>1
  <2>3. k <= off \/ off + len < k
    BY <1>3, <1>4, <1>5, <2>1
  <2>4. QED
    BY <1>2, <2>2, <2>3, SplicedRest
<1>8. ItemIn(new, n, o, z) = ItemIn(old, n, o, z)
  <2>1. Agree(new, old, n, o, z)
    BY <1>2, <1>7 DEF Agree
  <2>2. Fits(old, n, o, z) /\ Fits(new, n, o, z)
    BY <1>2, <1>3, <1>4, <1>6 DEF Fits
  <2>3. QED
    BY <2>1, <2>2, ItemElsewhere
<1>9. QED
  BY <1>1, <1>2, <1>8

(* One turn of the loop adds the next item, read from the structure now.     *)
LEMMA WriteCaptures ==
  ASSUME Sound, WriteRecord, PhaseOK'
  PROVE  StoreStep /\ ItemsOK'
<1>0. PICK i : i = curr
  OBVIOUS
<1> DEFINE r == drecord[i]
<1>1. /\ pc = "record" /\ FileOK /\ CursorOK /\ i \in 1 .. Len(drecord)
      /\ Len(drecord) \in Nat /\ drecord \in Seq(Record)
  BY <1>0 DEF Sound, WriteRecord, PhaseOK, TypeOK
<1>2. PICK n, o, z, v, L : /\ n = r.name /\ o = r.offset /\ z = r.size
                           /\ v = mem[r.loc] /\ L = StrLen[n]
  OBVIOUS
<1>3. /\ n \in Name /\ z \in Nat /\ o \in Nat /\ L \in Nat
      /\ o = End(i - 1) + L + 8 /\ End(i) = o + z
      /\ End(i) <= End(Len(drecord)) /\ End(i - 1) \in Nat
  BY <1>1, <1>2, AnyPlaced DEF Placed
<1>4. PICK old, new, piece : /\ old = bytes[master] /\ new = bytes'[master]
                             /\ piece = RecordHead(n, z) \o Data(v, z)
  OBVIOUS
<1>5. /\ c_ptr = End(i - 1) /\ c_ptr \in Nat /\ master \in Buf
      /\ Len(old) = End(Len(drecord))
  BY <1>0, <1>1, <1>3, <1>4 DEF CursorOK, FileOK
<1>6. /\ WriteMaster(c_ptr, piece, "record") /\ curr' = i + 1
      /\ UNCHANGED <<drecord, master, mem>>
  <2>1. n # NULL
    BY <1>3, NameAssumption
  <2>2. QED
    BY <1>0, <1>2, <1>4, <2>1, Zenon DEF WriteRecord, fileVars
<1>7. pc' = "record" /\ new = Splice(old, c_ptr, piece)
  <2>1. pc' # "oops"
    BY DEF PhaseOK
  <2>2. WriteFault(c_ptr, Len(piece)) = "none"
    BY <1>6, <2>1, Zenon DEF WriteMaster
  <2>3. /\ pc' = "record"
        /\ bytes' = [bytes EXCEPT ![master] = Splice(@, c_ptr, piece)]
    BY <1>5, <1>6, <2>2, Zenon DEF WriteMaster
  <2>4. QED
    BY <1>4, <1>5, <2>3 DEF TypeOK, Sound
<1>8. IsSeq(old) /\ IsSeq(new) /\ Len(new) = Len(old) /\ Len(old) \in Nat
  BY <1>4, <1>5, <1>7, SpliceSeq, SeqLen DEF Sound, BlobOK
<1>9. Len(piece) = z + L + 8 /\ Len(piece) \in Nat
  <2>1. Len(piece) = RecordHeadSize(n) + z
    BY <1>3, <1>4, RecordLen
  <2>2. RecordHeadSize(n) = L + 8
    BY <1>2, <1>3 DEF RecordHeadSize
  <2>3. QED
    BY <1>3, <2>1, <2>2
<1>10. ItemAt(i)' = Whole(n, z, v)
  <2>1. c_ptr + StrLen[n] + 8 + z <= Len(old)
    BY <1>2, <1>3, <1>5
  <2>2. ItemIn(new, n, c_ptr + StrLen[n] + 8, z) = Whole(n, z, v)
    BY <1>3, <1>4, <1>5, <1>7, <1>8, <2>1, ItemWritten
  <2>3. o = c_ptr + StrLen[n] + 8
    BY <1>2, <1>3, <1>5
  <2>4. ItemAt(i)' = ItemIn(new, n, o, z)
    BY <1>2, <1>4, <1>6, ItemAtIs
  <2>5. QED
    BY <2>2, <2>3, <2>4
<1>11. ASSUME NEW j \in 1 .. i - 1
       PROVE  ItemAt(j)' = ItemAt(j)
  <2>1. /\ j \in 1 .. Len(drecord) /\ j \in 0 .. Len(drecord)
        /\ i - 1 \in j .. Len(drecord)
    BY <1>1
  <2>2. End(j) <= c_ptr
    BY <1>1, <1>5, <2>1, EndsInOrder DEF Sound
  <2>3. ItemIn(new, drecord[j].name, drecord[j].offset, drecord[j].size)
          = ItemIn(old, drecord[j].name, drecord[j].offset, drecord[j].size)
    <3>1. Spares(j, c_ptr, piece)
      BY <2>2 DEF Spares
    <3>2. QED
      BY <1>4, <1>5, <1>7, <1>8, <1>9, <2>1, <3>1, ItemSpared
  <2>4. QED
    BY <1>4, <1>6, <2>3, ItemAtIs
<1>12. Written = i - 1 /\ Written' = i /\ i - 1 \in Nat /\ (i - 1) + 1 = i
  BY <1>0, <1>1, <1>6, <1>7 DEF Written
<1>13. Items' = Append(Items, Whole(n, z, v))
  <2>1. PICK S : S = {ItemAt(j)' : j \in 1 .. i}
    OBVIOUS
  <2>2. Items' = [j \in 1 .. i |-> ItemAt(j)'] /\ Items = [j \in 1 .. i - 1 |-> ItemAt(j)]
    BY <1>12 DEF Items
  <2>3. \A j \in 1 .. i - 1 : j \in 1 .. i /\ ItemAt(j) \in S
    BY <1>1, <1>11, <2>1
  <2>4. Items' \in [1 .. i -> S] /\ Items \in [1 .. i - 1 -> S]
    BY <2>1, <2>2, <2>3
  <2>5. \A j \in 1 .. i - 1 : Items'[j] = Items[j]
    BY <1>11, <2>2, <2>3
  <2>6. Items'[i] = Whole(n, z, v)
    BY <1>1, <1>10, <2>2
  <2>7. PICK m \in Nat : m = i - 1 /\ m + 1 = i
    BY <1>12
  <2>8. Items' = Append(Items, Items'[m + 1])
    BY <2>4, <2>5, <2>7, AppendFunction
  <2>9. QED
    BY <2>6, <2>7, <2>8
<1>14. StoreStep
  <2>1. /\ Len(Items) = i - 1 /\ Len(Registered) = Len(drecord)
        /\ Registered[i] = RegisteredAs(r)
    BY <1>1, <1>12, ItemsAre, RegisteredAre
  <2>2. Store!Item(Registered[i]) = Whole(n, z, v)
    BY <1>2, <2>1, ItemIs DEF RegisteredAs
  <2>3. Status = "rebuilding" /\ Status' = Status
    BY <1>1, <1>7 DEF Status
  <2>4. Registered' = Registered /\ mem' = mem
    BY <1>6 DEF Registered
  <2>5. Len(Items) < Len(Registered) /\ Len(Items) + 1 = i
    BY <1>1, <2>1
  <2>6. Store!Capture
    BY <1>13, <2>2, <2>3, <2>4, <2>5 DEF Store!Capture
  <2>7. QED
    BY <2>6 DEF StoreStep, Store!StoreNext
<1>15. ItemsOK'
  <2>1. ASSUME NEW j \in 1 .. i
        PROVE  /\ ItemAt(j)'.name = Chars(drecord[j].name)
               /\ ItemAt(j)'.size = drecord[j].size
    <3>1. j \in 1 .. i - 1 \/ j = i
      BY <1>1
    <3>2. CASE j \in 1 .. i - 1
      <4>1. ItemAt(j).name = Chars(drecord[j].name) /\ ItemAt(j).size = drecord[j].size
        BY <1>12, <3>2 DEF Sound, ItemsOK
      <4>2. QED
        BY <1>11, <3>2, <4>1
    <3>3. CASE j = i
      <4>1. Whole(n, z, v).name = Chars(n) /\ Whole(n, z, v).size = z
        BY DEF Whole
      <4>2. QED
        BY <1>2, <1>10, <3>3, <4>1
    <3>4. QED
      BY <3>1, <3>2, <3>3
  <2>2. QED
    BY <1>6, <1>7, <1>12, <2>1 DEF ItemsOK
<1>16. QED
  BY <1>14, <1>15

(* An update in place captures one structure and leaves the other items.     *)
LEMMA UpdateUpdates ==
  ASSUME Sound, NEW c \in Call, UpdateRecord(c), PhaseOK'
  PROVE  StoreStep /\ ItemsOK'
<1>0. PICK i : i = FindRecord(c.name)
  OBVIOUS
<1> DEFINE r == drecord[i]
<1>1. /\ pc = "idle" /\ i \in 1 .. Len(drecord) /\ Len(drecord) \in Nat
      /\ drecord \in Seq(Record)
  BY <1>0, FindRecordType DEF Sound, UpdateRecord, TypeOK
<1>2. FileOK /\ master \in Buf
  BY <1>1 DEF Sound, PhaseOK, NoFileYet, FileOK
<1>3. PICK n, o, z, v, L : /\ n = r.name /\ o = r.offset /\ z = r.size
                           /\ v = mem[c.loc] /\ L = StrLen[n]
  OBVIOUS
<1>4. /\ n \in Name /\ z \in Nat /\ o \in Nat /\ L \in Nat /\ r \in Record
      /\ o = End(i - 1) + L + 8 /\ End(i) = o + z
      /\ End(i) <= End(Len(drecord)) /\ End(i - 1) \in Nat
  BY <1>1, <1>3, AnyPlaced DEF Placed
<1>5. n # NULL /\ UNCHANGED <<mem, master, arg>>
  BY <1>4, NameAssumption DEF UpdateRecord, callVars
<1>6. CASE UNCHANGED <<pc, drecord, bytes>>
  <2>1. Status' = Status /\ Written' = Written
    BY <1>1, <1>6 DEF Status, Written
  <2>2. \A j \in 1 .. Written : ItemAt(j)' = ItemAt(j)
    BY <1>5, <1>6 DEF ItemAt
  <2>3. QED
    BY <1>1, <1>5, <1>6, <2>1, <2>2, Unseen DEF Sound
<1>7. CASE /\ n = c.name /\ c.size = z
           /\ drecord' = [drecord EXCEPT ![i].loc = c.loc]
           /\ WriteMaster(o, Data(v, z), "idle")
  <2>1. /\ drecord' \in Seq(Record) /\ Len(drecord') = Len(drecord)
        /\ \A j \in 1 .. Len(drecord) : /\ drecord'[j].name = drecord[j].name
                                       /\ drecord'[j].size = drecord[j].size
                                       /\ drecord'[j].offset = drecord[j].offset
    BY <1>1, <1>7, CallType, MoveRecord
  <2>2. PICK old, new, piece : /\ old = bytes[master] /\ new = bytes'[master]
                               /\ piece = Data(v, z)
    OBVIOUS
  <2>3. pc' = "idle" /\ new = Splice(old, o, piece)
    <3>1. pc' # "oops"
      BY DEF PhaseOK
    <3>2. WriteFault(o, Len(piece)) = "none"
      BY <1>7, <2>2, <3>1, Zenon DEF WriteMaster
    <3>3. /\ pc' = "idle"
          /\ bytes' = [bytes EXCEPT ![master] = Splice(@, o, piece)]
      BY <1>2, <1>7, <2>2, <3>2, Zenon DEF WriteMaster
    <3>4. QED
      BY <1>2, <2>2, <3>3 DEF TypeOK, Sound
  <2>4. /\ IsSeq(old) /\ IsSeq(new) /\ Len(new) = Len(old) /\ Len(old) \in Nat
        /\ Len(old) = End(Len(drecord))
    BY <1>2, <2>2, <2>3, SpliceSeq, SeqLen DEF Sound, BlobOK, FileOK
  <2>5. Len(piece) = z /\ Len(piece) \in Nat
    BY <1>4, <2>2, DataLen
  <2>6. ItemAt(i)' = [name |-> ItemAt(i).name, size |-> ItemAt(i).size, data |-> piece]
    <3>1. o + z <= Len(old) /\ StrLen[n] + 8 <= o
      BY <1>3, <1>4, <2>4
    <3>2. ItemIn(new, n, o, z)
            = [name |-> ItemIn(old, n, o, z).name, size |-> ItemIn(old, n, o, z).size,
               data |-> piece]
      BY <1>4, <2>2, <2>3, <2>4, <3>1, ItemUpdated
    <3>3. ItemAt(i)' = ItemIn(new, n, o, z) /\ ItemAt(i) = ItemIn(old, n, o, z)
      BY <1>1, <1>3, <1>5, <2>1, <2>2, ItemAtIs
    <3>4. QED
      BY <3>2, <3>3
  <2>7. ASSUME NEW j \in 1 .. Len(drecord), j # i
        PROVE  ItemAt(j)' = ItemAt(j)
    <3>1. Spares(j, o, piece)
      <4>1. CASE j < i
        <5>1. j \in 0 .. Len(drecord) /\ i - 1 \in j .. Len(drecord)
          BY <1>1, <4>1
        <5>2. End(j) <= End(i - 1)
          BY <1>1, <5>1, EndsInOrder DEF Sound
        <5>3. End(j) \in Nat
          BY <1>1, <5>1, EndNat
        <5>4. QED
          BY <1>4, <5>2, <5>3 DEF Spares
      <4>2. CASE i < j
        <5>1. i \in 0 .. Len(drecord) /\ j - 1 \in i .. Len(drecord)
          BY <1>1, <4>2
        <5>2. QED
          BY <1>1, <1>4, <2>5, <5>1, EndsInOrder DEF Sound, Spares
      <4>3. QED
        BY <1>1, <2>7, <4>1, <4>2
    <3>2. ItemIn(new, drecord[j].name, drecord[j].offset, drecord[j].size)
            = ItemIn(old, drecord[j].name, drecord[j].offset, drecord[j].size)
      <4>1. IsSeq(old) /\ Len(old) = End(Len(drecord))
        BY Zenon, <2>4
      <4>2. o \in Nat /\ Len(piece) \in Nat /\ new = Splice(old, o, piece)
        BY Zenon, <1>4, <2>3, <2>5
      <4>3. ItemIn(Splice(old, o, piece), drecord[j].name, drecord[j].offset, drecord[j].size)
              = ItemIn(old, drecord[j].name, drecord[j].offset, drecord[j].size)
        BY Zenon, <2>7, <3>1, <4>1, <4>2, ItemSpared
      <4>4. QED
        BY Zenon, <4>2, <4>3
    <3>3. QED
      BY <1>5, <2>1, <2>2, <3>2, ItemAtIs
  <2>8. Written = Len(drecord) /\ Written' = Len(drecord)
    BY <1>1, <2>1, <2>3 DEF Written
  <2>9. ItemAt(i).name = Chars(n) /\ ItemAt(i).size = z
    BY <1>1, <1>3, <2>8 DEF Sound, ItemsOK
  <2>10. ItemAt(i)' = Whole(n, z, v)
    BY <2>2, <2>6, <2>9 DEF Whole
  <2>11. Items' = [Items EXCEPT ![i] = Whole(n, z, v)]
    <3>1. PICK W : W = Whole(n, z, v)
      OBVIOUS
    <3>2. Items = [j \in 1 .. Len(drecord) |-> ItemAt(j)]
      BY <2>8 DEF Items
    <3>3. Items' = [j \in 1 .. Len(drecord) |-> ItemAt(j)']
      BY <2>8 DEF Items
    <3>4. \A j \in 1 .. Len(drecord) : ItemAt(j)' = IF j = i THEN W ELSE ItemAt(j)
      BY <2>7, <2>10, <3>1
    <3>5. QED
      BY <3>1, <3>2, <3>3, <3>4
  <2>12. Registered' = [Registered EXCEPT ![i] = c]
    <3>1. \A j \in 1 .. Len(drecord) : j # i => drecord'[j] = drecord[j]
      BY <1>1, <1>7
    <3>2. RegisteredAs(drecord'[i]) = c
      <4>1. drecord'[i].loc = c.loc
        <5>1. drecord'[i] = [r EXCEPT !.loc = c.loc]
          BY <1>1, <1>7
        <5>2. QED
          BY <1>4, <5>1 DEF Record
      <4>2. c = [name |-> c.name, loc |-> c.loc, size |-> c.size]
        BY CallAssumption
      <4>3. drecord'[i].name = c.name /\ drecord'[i].size = c.size
        BY <1>1, <1>3, <1>7, <2>1
      <4>4. QED
        BY <4>1, <4>2, <4>3 DEF RegisteredAs
    <3>3. Registered = [j \in 1 .. Len(drecord) |-> RegisteredAs(drecord[j])]
      BY DEF Registered, RegisteredAs
    <3>4. Registered' = [j \in 1 .. Len(drecord) |-> RegisteredAs(drecord'[j])]
      BY <2>1 DEF Registered, RegisteredAs
    <3>5. QED
      BY <3>1, <3>2, <3>3, <3>4
  <2>13. StoreStep
    <3>1. Status = "ready" /\ Status' = "ready"
      BY <1>1, <2>3 DEF Status
    <3>2. Len(Registered) = Len(drecord) /\ Registered[i] = RegisteredAs(r)
      BY <1>1, RegisteredAre
    <3>3. Registered[i].name = c.name /\ Registered[i].size = c.size
      <4>1. Registered[i].name = r.name /\ Registered[i].size = r.size
        BY <3>2 DEF RegisteredAs
      <4>2. QED
        BY <1>3, <1>7, <4>1
    <3>4. Store!Item(c) = Whole(n, z, v)
      BY <1>3, <1>7, ItemIs
    <3>5. Store!Update(c)
      BY <1>1, <1>5, <2>11, <2>12, <3>1, <3>2, <3>3, <3>4 DEF Store!Update
    <3>6. QED
      BY <3>5 DEF StoreStep, Store!StoreNext
  <2>14. ItemsOK'
    <3>1. ASSUME NEW j \in 1 .. Len(drecord)
          PROVE  /\ ItemAt(j)'.name = Chars(drecord'[j].name)
                 /\ ItemAt(j)'.size = drecord'[j].size
      <4>1. ItemAt(j).name = Chars(drecord[j].name) /\ ItemAt(j).size = drecord[j].size
        BY <2>8 DEF Sound, ItemsOK
      <4>2. ItemAt(j)'.name = ItemAt(j).name /\ ItemAt(j)'.size = ItemAt(j).size
        <5>1. CASE j = i
          BY <2>6, <5>1
        <5>2. CASE j # i
          BY <2>7, <5>2
        <5>3. QED
          BY <5>1, <5>2
      <4>3. QED
        BY <2>1, <4>1, <4>2
    <3>2. QED
      BY <2>3, <2>8, <3>1 DEF ItemsOK
  <2>15. QED
    BY <2>13, <2>14
<1>8. QED
  BY <1>0, <1>3, <1>5, <1>6, <1>7, Zenon DEF UpdateRecord

(* A name that has no record is registered, and the rebuild begins.          *)
LEMMA CreateRegisters ==
  ASSUME Sound, CreateRecord, Contained'
  PROVE  StoreStep /\ ItemsOK'
<1>1. /\ pc = "create" /\ Len(drecord) \in Nat /\ drecord \in Seq(Record)
      /\ arg \in Call /\ UNCHANGED <<mem, arg, master, bytes>>
  BY DEF Sound, TypeOK, CreateRecord, heapVars
<1>2. \A j \in 1 .. Len(drecord) : drecord[j].name # arg.name
  BY <1>1 DEF Sound, ItemsOK
<1>3. PICK r : r = [name |-> arg.name, loc |-> arg.loc, size |-> arg.size,
                    offset |-> RecordOffset(arg.size + tot_size + RecordHeadSize(arg.name),
                                            arg.size)]
  OBVIOUS
<1>4. \/ drecord' = drecord /\ pc' = "idle"
      \/ drecord' = Append(drecord, r) /\ pc' = "expand"
  <2> DEFINE total     == arg.size + tot_size + RecordHeadSize(arg.name)
             new(name) == [name   |-> IF name THEN arg.name ELSE NULL,
                           loc    |-> arg.loc,
                           size   |-> arg.size,
                           offset |-> RecordOffset(total, arg.size)]
  <2>1. PICK record, name \in Outcome :
          /\ failed' = failed \cup If(~record, {"record"})
                              \cup If(record /\ ~name, {"record->name"})
          /\ IF record THEN drecord' = Append(drecord, new(name)) /\ pc' = "expand"
                       ELSE UNCHANGED drecord /\ pc' = "idle"
    BY Zenon DEF CreateRecord
  <2>2. record => name
    BY <2>1 DEF Contained, If
  <2>3. name => new(name) = r
    BY <1>3
  <2> HIDE DEF new
  <2>4. QED
    BY <2>1, <2>2, <2>3
<1>5. CASE drecord' = drecord /\ pc' = "idle"
  <2>1. Status' = Status /\ Written' = Written
    BY <1>1, <1>5 DEF Status, Written
  <2>2. \A j \in 1 .. Written : ItemAt(j)' = ItemAt(j)
    BY <1>1, <1>5 DEF ItemAt
  <2>3. QED
    BY <1>1, <1>5, <2>1, <2>2, Unseen DEF Sound
<1>6. CASE drecord' = Append(drecord, r) /\ pc' = "expand"
  <2>1. PICK n \in Nat : n = Len(drecord)
    BY <1>1
  <2>2. RegisteredAs(r) = arg
    <3>1. arg = [name |-> arg.name, loc |-> arg.loc, size |-> arg.size]
      BY <1>1, CallAssumption
    <3>2. r.name = arg.name /\ r.loc = arg.loc /\ r.size = arg.size
      <4>1. PICK off : off = RecordOffset(arg.size + tot_size + RecordHeadSize(arg.name),
                                          arg.size)
        OBVIOUS
      <4>2. r = [name |-> arg.name, loc |-> arg.loc, size |-> arg.size, offset |-> off]
        BY Zenon, <1>3, <4>1
      <4>3. QED
        BY Zenon, <4>2
    <3>3. RegisteredAs(r) = [name |-> arg.name, loc |-> arg.loc, size |-> arg.size]
      BY Zenon, <3>2 DEF RegisteredAs
    <3>4. QED
      BY Zenon, <3>1, <3>3
  <2>3. /\ Len(drecord') = n + 1 /\ drecord'[n + 1] = r
        /\ \A j \in 1 .. n : drecord'[j] = drecord[j]
    BY <1>1, <1>6, <2>1
  <2>4. Registered' = Append(Registered, arg)
    <3>1. PICK S : S = {RegisteredAs(drecord'[j]) : j \in 1 .. n + 1}
      OBVIOUS
    <3>2. /\ Registered = [j \in 1 .. n |-> RegisteredAs(drecord[j])]
          /\ Registered' = [j \in 1 .. n + 1 |-> RegisteredAs(drecord'[j])]
      BY <2>1, <2>3 DEF Registered, RegisteredAs
    <3>3. \A j \in 1 .. n : j \in 1 .. n + 1 /\ RegisteredAs(drecord[j]) \in S
      BY <2>1, <2>3, <3>1
    <3>4. Registered \in [1 .. n -> S] /\ Registered' \in [1 .. n + 1 -> S]
      BY <3>1, <3>2, <3>3
    <3>5. \A j \in 1 .. n : Registered'[j] = Registered[j]
      BY <2>3, <3>2, <3>3
    <3>6. Registered'[n + 1] = arg
      BY <2>1, <2>2, <2>3, <3>2
    <3>7. Registered' = Append(Registered, Registered'[n + 1])
      BY <2>1, <3>4, <3>5, AppendFunction
    <3>8. QED
      BY <3>6, <3>7
  <2>5. Status = "ready" /\ Status' = "rebuilding" /\ Written' = 0
    BY <1>1, <1>6 DEF Status, Written
  <2>6. Items' = <<>>
    <3>1. Items' = [j \in 1 .. 0 |-> ItemAt(j)']
      BY <2>5 DEF Items
    <3>2. QED
      BY <3>1
  <2>7. \A j \in 1 .. Len(Registered) : Registered[j].name # arg.name
    <3>1. /\ Len(Registered) = Len(drecord)
          /\ \A j \in 1 .. Len(drecord) : Registered[j] = RegisteredAs(drecord[j])
      BY <1>1, RegisteredAre
    <3>2. \A j \in 1 .. Len(drecord) : RegisteredAs(drecord[j]).name = drecord[j].name
      BY Zenon DEF RegisteredAs
    <3>3. QED
      BY <1>2, <3>1, <3>2
  <2>8. Store!Register(arg)
    BY <1>1, <2>4, <2>5, <2>6, <2>7 DEF Store!Register
  <2>9. StoreStep
    BY <1>1, <2>8 DEF StoreStep, Store!StoreNext
  <2>10. ItemsOK'
    BY <1>6, <2>5 DEF ItemsOK
  <2>11. QED
    BY <2>9, <2>10
<1>7. QED
  BY <1>4, <1>5, <1>6

(* The calls of the initialisation go on to the next one, if none faulted.  *)
LEMMA InitGoesOn ==
  ASSUME DsnapInit \/ CreateBlob \/ InitBlob, Contained', PhaseOK'
  PROVE  pc' \in {"create_blob", "init_blob", "alloc_master"}
<1>b. pc' # "oops"
  BY DEF PhaseOK
<1>1. CASE DsnapInit
  <2>1. PICK dirName, dfile, fileName \in Outcome :
          /\ objs' = objs \cup If(dirName, {DirNameStr}) \cup If(dfile, {Dfile})
                          \cup If(dfile /\ fileName, {FileNameStr})
          /\ failed' = failed \cup If(~dirName, {"ddir->name"})
                              \cup If(~dfile, {"dfile"})
                              \cup If(dfile /\ ~fileName, {"dfile->name"})
          /\ pc' = IF dfile THEN "create_blob" ELSE "idle"
    BY <1>1, Zenon DEF DsnapInit
  <2>2. QED
    BY <2>1 DEF Contained, If
<1>2. CASE CreateBlob
  <2>1. PICK made : /\ "blob" \notin failed'
                    /\ failed' = failed \cup If(~made, {"entry"})
                    /\ pc' = IF made THEN "init_blob" ELSE "idle"
    <3>1. "blob" \notin failed'
      BY DEF Contained
    <3>2. QED
      BY <1>b, <1>2, <3>1 DEF CreateBlob, Fault
  <2>2. QED
    BY <2>1 DEF Contained, If
<1>3. QED
  BY <1>1, <1>2 DEF InitBlob

(* Every step of the code is a step of the store.                            *)
LEMMA StepsAreStoreSteps ==
  ASSUME Sound, [Next]_vars, Contained', PhaseOK'
  PROVE  StoreStep /\ ItemsOK'
<1> USE DEF callVars, listVars, fileVars, blobVars, heapVars
<1>a. TypeOK /\ ItemsOK /\ Contained /\ PhaseOK /\ Len(drecord) \in Nat
  BY DEF Sound, TypeOK
<1>b. pc' # "oops"
  BY DEF PhaseOK
<1>1. CASE DsnapInit \/ CreateBlob \/ InitBlob
  <2>1. /\ pc \in {"start", "create_blob", "init_blob"} /\ drecord = <<>>
        /\ UNCHANGED <<mem, drecord>>
    BY <1>1, <1>a DEF DsnapInit, CreateBlob, InitBlob, PhaseOK
  <2>2. pc' \in {"create_blob", "init_blob", "alloc_master"}
    BY <1>1, InitGoesOn
  <2>3. Status' = Status /\ Written = 0 /\ Written' = 0
    BY <2>1, <2>2 DEF Status, Written
  <2>4. QED
    BY <1>a, <2>1, <2>2, <2>3, UnseenEmpty
<1>2. CASE AllocMaster
  <2>1. /\ pc = "alloc_master" /\ pc' \in {"idle", "zero"} /\ drecord = <<>>
        /\ UNCHANGED <<mem, drecord>>
    BY <1>2, <1>a, <1>b DEF AllocMaster, Fault, PhaseOK
  <2>2. Written = 0 /\ Written' = 0 /\ Len(drecord) = 0
    BY <2>1 DEF Written
  <2>3. CASE pc' = "zero"
    <3>1. Status' = Status
      BY <2>1, <2>3 DEF Status
    <3>2. QED
      BY <1>a, <2>1, <2>2, <2>3, <3>1, UnseenEmpty
  <2>4. CASE pc' = "idle"
    <3>1. Status = "rebuilding" /\ Status' = "ready"
      BY <2>1, <2>4 DEF Status
    <3>2. \A j \in 1 .. Written : ItemAt(j)' = ItemAt(j)
      BY <2>2
    <3>3. QED
      BY <1>a, <2>1, <2>2, <2>4, <3>1, <3>2, Published
  <2>5. QED
    BY <2>1, <2>3, <2>4
<1>3. CASE ZeroMaster \/ WriteHeader
  <2>1. /\ pc \in {"zero", "header"} /\ UNCHANGED <<mem, drecord>>
        /\ \/ pc' = "header"
           \/ pc' = "record" /\ curr' = 1
    BY <1>3, <1>b DEF ZeroMaster, WriteHeader, WriteMaster
  <2>2. Status' = Status /\ Written = 0 /\ Written' = 0
    BY <2>1 DEF Status, Written
  <2>3. QED
    BY <1>a, <2>1, <2>2, UnseenEmpty
<1>4. CASE WriteRecord
  BY <1>4, WriteCaptures
<1>5. CASE PublishData
  <2>1. /\ pc = "record" /\ pc' = "publish_size" /\ curr > Len(drecord) /\ CursorOK
        /\ UNCHANGED <<mem, drecord, master, bytes>>
    BY <1>5, <1>a DEF PublishData, PhaseOK
  <2>2. Status' = Status /\ Written' = Written
    <3>1. curr - 1 = Len(drecord)
      BY <1>a, <2>1 DEF CursorOK, TypeOK
    <3>2. QED
      BY <2>1, <3>1 DEF Status, Written
  <2>3. \A j \in 1 .. Written : ItemAt(j)' = ItemAt(j)
    BY <2>1 DEF ItemAt
  <2>4. QED
    BY <1>a, <2>1, <2>2, <2>3, Unseen
<1>6. CASE PublishSize
  <2>1. /\ pc = "publish_size" /\ pc' = "idle"
        /\ UNCHANGED <<mem, drecord, master, bytes>>
    BY <1>6 DEF PublishSize
  <2>2. /\ Status = "rebuilding" /\ Status' = "ready"
        /\ Written = Len(drecord) /\ Written' = Written
    BY <2>1 DEF Status, Written
  <2>3. \A j \in 1 .. Written : ItemAt(j)' = ItemAt(j)
    BY <2>1 DEF ItemAt
  <2>4. QED
    BY <1>a, <2>1, <2>2, <2>3, Published
<1>7. ASSUME NEW c \in Call, UpdateRecord(c)
      PROVE  StoreStep /\ ItemsOK'
  BY <1>7, UpdateUpdates
<1>8. ASSUME NEW c \in Call, AddRecord(c)
      PROVE  StoreStep /\ ItemsOK'
  <2>1. /\ pc = "idle" /\ pc' = "create" /\ arg' = c /\ FindRecord(c.name) = 0
        /\ UNCHANGED <<mem, drecord, master, bytes>>
    BY <1>8 DEF AddRecord
  <2>2. \A j \in 1 .. Len(drecord) : drecord[j].name # c.name
    <3> DEFINE hits == {j \in 1 .. Len(drecord) : drecord[j].name \in {c.name, NULL}}
    <3>1. SUFFICES ASSUME hits # {}
                   PROVE  FALSE
      OBVIOUS
    <3>2. PICK i \in hits : \A j \in hits : i <= j
      <4>1. hits \subseteq Nat
        OBVIOUS
      <4> HIDE DEF hits
      <4>2. QED
        BY <3>1, <4>1, LeastElement
    <3>3. FindRecord(c.name) \in hits
      BY <3>1, <3>2, Zenon DEF FindRecord
    <3>4. QED
      BY <2>1, <3>3
  <2>3. Status' = Status /\ Written' = Written
    BY <2>1 DEF Status, Written
  <2>4. \A j \in 1 .. Written : ItemAt(j)' = ItemAt(j)
    BY <2>1 DEF ItemAt
  <2>5. QED
    BY <1>a, <2>1, <2>2, <2>3, <2>4, Unseen
<1>9. CASE UseOfNullFile
  BY <1>9, <1>b DEF UseOfNullFile, Fault
<1>10. CASE CreateRecord
  BY <1>10, CreateRegisters
<1>11. CASE ExpandMaster
  <2>1. /\ pc = "expand" /\ UNCHANGED <<mem, drecord>>
    BY <1>11 DEF ExpandMaster
  <2>2. pc' = "zero"
    <3>1. "krealloc" \notin failed'
      BY DEF Contained
    <3>2. QED
      BY <1>11, <1>b, <3>1, Zenon DEF ExpandMaster, Fault
  <2>3. Status' = Status /\ Written = 0 /\ Written' = 0
    BY <2>1, <2>2 DEF Status, Written
  <2>4. QED
    BY <1>a, <2>1, <2>2, <2>3, UnseenEmpty
<1>12. CASE RemoveEntry
  <2>1. pc = "idle" /\ pc' = "free_master" /\ UNCHANGED <<mem, drecord>>
    BY <1>12 DEF RemoveEntry
  <2>2. Status = "ready" /\ Status' = "removed" /\ Written' = 0
    BY <2>1 DEF Status, Written
  <2>3. Items' = <<>>
    <3>1. Items' = [j \in 1 .. 0 |-> ItemAt(j)']
      BY <2>2 DEF Items
    <3>2. QED
      BY <3>1
  <2>4. Registered' = Registered
    BY <2>1 DEF Registered
  <2>5. Store!Remove
    BY <2>1, <2>2, <2>3, <2>4 DEF Store!Remove
  <2>6. ItemsOK'
    BY <2>1, <2>2 DEF ItemsOK
  <2>7. QED
    BY <2>5, <2>6 DEF StoreStep, Store!StoreNext
<1>13. CASE FreeAll
  <2>1. pc = "free_master" /\ pc' = "dead" /\ UNCHANGED <<mem, drecord>>
    BY <1>13, <1>b DEF FreeAll, Fault
  <2>2. Status' = Status /\ Written = 0 /\ Written' = 0
    BY <2>1 DEF Status, Written
  <2>3. QED
    BY <1>a, <2>1, <2>2, UnseenEmpty
<1>14. CASE MemWrite
  <2>1. UNCHANGED <<pc, arg, curr, drecord, master, bytes>>
    BY <1>14 DEF MemWrite
  <2>2. Items' = Items
    BY <2>1 DEF Items, Written, ItemAt
  <2>3. Registered' = Registered /\ Status' = Status
    BY <2>1 DEF Registered, Status
  <2>4. Store!StoreMemWrite
    BY <1>14, <2>2, <2>3 DEF MemWrite, Store!StoreMemWrite
  <2>5. ItemsOK'
    <3>1. Written' = Written /\ \A j \in 1 .. Written : ItemAt(j)' = ItemAt(j)
      BY <2>1 DEF Written, ItemAt
    <3>2. QED
      BY <1>a, <2>1, <3>1 DEF ItemsOK
  <2>6. QED
    BY <2>4, <2>5 DEF StoreStep, Store!StoreNext
<1>15. CASE UNCHANGED vars
  <2>1. UNCHANGED <<pc, arg, curr, drecord, master, bytes, mem>>
    BY <1>15 DEF vars
  <2>2. Status' = Status /\ Written' = Written
    BY <2>1 DEF Status, Written
  <2>3. \A j \in 1 .. Written : ItemAt(j)' = ItemAt(j)
    BY <2>1 DEF ItemAt
  <2>4. pc' = "create" => \A j \in 1 .. Len(drecord) : drecord[j].name # arg'.name
    BY <1>a, <2>1 DEF ItemsOK
  <2>5. QED
    BY <1>a, <2>1, <2>2, <2>3, <2>4, Unseen
<1>16. QED
  BY <1>1, <1>2, <1>3, <1>4, <1>5, <1>6, <1>7, <1>8, <1>9, <1>10, <1>11,
     <1>12, <1>13, <1>14, <1>15 DEF Next, DriverStep

(* The store begins where the code does.                                     *)
LEMMA StoreBegins == Init => Store!StoreInit /\ ItemsOK
<1> SUFFICES ASSUME Init
             PROVE  Store!StoreInit /\ ItemsOK
  OBVIOUS
<1>1. pc = "start" /\ drecord = <<>> /\ mem \in [Loc -> Value]
  BY DEF Init
<1>2. Status = "rebuilding" /\ Written = 0
  BY <1>1 DEF Status, Written
<1>3. Items = <<>>
  <2>1. Items = [j \in 1 .. 0 |-> ItemAt(j)]
    BY <1>2 DEF Items
  <2>2. QED
    BY <2>1
<1>4. Registered = <<>>
  <2>1. Registered = [j \in 1 .. 0 |-> RegisteredAs(drecord[j])]
    BY <1>1 DEF Registered, RegisteredAs
  <2>2. QED
    BY <2>1
<1>5. QED
  BY <1>1, <1>2, <1>3, <1>4 DEF Store!StoreInit, ItemsOK

(* dsnap keeps its promise: until an allocation fails that the code does not *)
(* survive, every step of it is one of SnapStore or unseen by it.  No call   *)
(* loses, duplicates, reorders or tears an item, an update captures its own  *)
(* structure and touches no other item, and a rebuild captures every         *)
(* structure again, for every set of names, sizes, calls and structures.     *)
THEOREM Implements == Spec => ImplementsStore
<1> DEFINE Inv  == IInv /\ BlobOK /\ ItemsOK
           Step == Contained' => Store!StoreNext \/ UNCHANGED Store!storeVars
<1>1. Init => Inv /\ Store!StoreInit
  BY IInvInit, BlobInit, StoreBegins
<1>2. Inv /\ [Next]_vars => Inv' /\ [Step]_vars
  <2> SUFFICES ASSUME Inv, [Next]_vars
               PROVE  Inv' /\ Step
    OBVIOUS
  <2>1. IInv' /\ BlobOK'
    BY IInvNext, BlobNext DEF IInv
  <2>2. CASE Contained'
    <3>1. Sound /\ PhaseOK'
      BY <2>1, <2>2, FailedGrows DEF Sound, IInv, Contained
    <3>2. StoreStep /\ ItemsOK'
      BY <2>2, <3>1, StepsAreStoreSteps
    <3>3. QED
      BY <2>1, <3>2 DEF StoreStep
  <2>3. CASE ~Contained'
    BY <2>1, <2>3 DEF ItemsOK
  <2>4. QED
    BY <2>2, <2>3
<1> HIDE DEF Inv
<1>3. QED
  BY <1>1, <1>2, PTL DEF Spec, ImplementsStore

-----------------------------------------------------------------------------
(* What readFile finds where the driver wrote it.                            *)

(* The bytes of piece, at offset off of a buffer.                            *)
Held(buf, off, piece) == \A k \in 1 .. Len(piece) : buf[off + k] = piece[k]

(* The lengths and counts that the format's u32 fields can hold.             *)
U32Limit == 4294967296

(* A u32 is four bytes of eight bits.                                        *)
LEMMA U32Digits ==
  ASSUME NEW v \in Nat, v < U32Limit
  PROVE  (v % 256) + 256 * ((v \div 256) % 256) + 65536 * ((v \div 65536) % 256)
           + 16777216 * ((v \div 16777216) % 256) = v
  BY SMT DEF U32Limit

(* A u32 that was written is read as it was.                                *)
LEMMA U32Read ==
  ASSUME NEW file, NEW p \in Nat, NEW v \in Nat, v < U32Limit,
         Len(file) \in Nat, p + 4 <= Len(file), Held(file, p, U32(v))
  PROVE  IsU32(file, p) /\ U32At(file, p) = v
<1>1. \A k \in 1 .. 4 : file[p + k] = U32(v)[k]
  BY U32Len DEF Held
<1>2. /\ file[p + 1] = Num(v % 256)
      /\ file[p + 2] = Num((v \div 256) % 256)
      /\ file[p + 3] = Num((v \div 65536) % 256)
      /\ file[p + 4] = Num((v \div 16777216) % 256)
  BY <1>1, SMT DEF U32
<1>3. IsU32(file, p)
  <2>1. \A k \in 1 .. 4 : file[p + k][1] = "num"
    <3>1. /\ file[p + 1][1] = "num" /\ file[p + 2][1] = "num"
          /\ file[p + 3][1] = "num" /\ file[p + 4][1] = "num"
      BY <1>2, SMT DEF Num
    <3>2. QED
      BY <3>1, SMT
  <2>2. QED
    BY <2>1 DEF IsU32
<1>4. /\ file[p + 1][2] = v % 256
      /\ file[p + 2][2] = (v \div 256) % 256
      /\ file[p + 3][2] = (v \div 65536) % 256
      /\ file[p + 4][2] = (v \div 16777216) % 256
  BY <1>2, SMT DEF Num
<1>5. U32At(file, p) = v
  <2>1. U32At(file, p) = (v % 256) + 256 * ((v \div 256) % 256)
          + 65536 * ((v \div 65536) % 256) + 16777216 * ((v \div 16777216) % 256)
    BY <1>4, SMT DEF U32At
  <2>2. QED
    BY <2>1, U32Digits, SMT
<1>6. QED
  BY <1>3, <1>5

(* A read that ends inside the file is not short.                            *)
LEMMA ReadIs ==
  ASSUME NEW file, NEW p \in Nat, NEW piece, IsSeq(file), IsSeq(piece),
         p + Len(piece) <= Len(file), Held(file, p, piece)
  PROVE  ReadAt(file, p, Len(piece)) = piece
<1> DEFINE part == SubSeq(file, p + 1, p + Len(piece))
<1>1. Len(file) \in Nat /\ Len(piece) \in Nat
  BY SeqLen
<1>2. ReadAt(file, p, Len(piece)) = part
  BY <1>1 DEF ReadAt
<1>3. PICK S : file \in Seq(S)
  BY DEF IsSeq
<1>4. PICK T : piece \in Seq(T)
  BY DEF IsSeq
<1>5. file \in Seq(S \cup T) /\ piece \in Seq(S \cup T)
  BY <1>3, <1>4
<1>6. part \in Seq(S \cup T) /\ Len(part) = Len(piece)
  BY <1>1, <1>5
<1>7. \A k \in 1 .. Len(piece) : part[k] = piece[k]
  BY <1>1, <1>5 DEF Held
<1> HIDE DEF part
<1>8. part = piece
  BY <1>1, <1>5, <1>6, <1>7
<1>9. QED
  BY <1>2, <1>8

(* A read inside the file has the length that was asked for.                *)
LEMMA ReadLen ==
  ASSUME NEW file, NEW p \in Nat, NEW n \in Nat, IsSeq(file), p + n <= Len(file)
  PROVE  /\ ReadAt(file, p, n) = SubSeq(file, p + 1, p + n)
         /\ Len(ReadAt(file, p, n)) = n
<1>1. ReadAt(file, p, n) = SubSeq(file, p + 1, p + n)
  BY SeqLen DEF ReadAt
<1>2. QED
  BY <1>1, PartSeq

(* The parts of what was concatenated lie behind one another.                *)
LEMMA HeldBoth ==
  ASSUME NEW buf, NEW off \in Nat, NEW s, NEW t, IsSeq(s), IsSeq(t)
  PROVE  Held(buf, off, s \o t) <=> Held(buf, off, s) /\ Held(buf, off + Len(s), t)
<1>1. PICK S : s \in Seq(S)
  BY DEF IsSeq
<1>2. PICK T : t \in Seq(T)
  BY DEF IsSeq
<1>3. s \in Seq(S \cup T) /\ t \in Seq(S \cup T) /\ Len(s) \in Nat /\ Len(t) \in Nat
  BY <1>1, <1>2
<1>4. /\ Len(s \o t) = Len(s) + Len(t)
      /\ \A k \in 1 .. Len(s) : (s \o t)[k] = s[k]
      /\ \A k \in 1 .. Len(t) : (s \o t)[Len(s) + k] = t[k]
  BY <1>3
<1>5. ASSUME Held(buf, off, s \o t)
      PROVE  Held(buf, off, s) /\ Held(buf, off + Len(s), t)
  <2>1. \A k \in 1 .. Len(s) + Len(t) : buf[off + k] = (s \o t)[k]
    BY <1>4, <1>5 DEF Held
  <2>2. ASSUME NEW k \in 1 .. Len(s)
        PROVE  buf[off + k] = s[k]
    <3>1. k \in 1 .. Len(s) + Len(t)
      BY <1>3
    <3>2. QED
      BY <1>4, <2>1, <3>1
  <2>3. ASSUME NEW k \in 1 .. Len(t)
        PROVE  buf[(off + Len(s)) + k] = t[k]
    <3>1. Len(s) + k \in 1 .. Len(s) + Len(t) /\ off + (Len(s) + k) = (off + Len(s)) + k
      BY <1>3
    <3>2. QED
      BY <1>4, <2>1, <3>1
  <2>4. QED
    BY <2>2, <2>3 DEF Held
<1>6. ASSUME Held(buf, off, s), Held(buf, off + Len(s), t)
      PROVE  Held(buf, off, s \o t)
  <2>1. ASSUME NEW k \in 1 .. Len(s) + Len(t)
        PROVE  buf[off + k] = (s \o t)[k]
    <3>1. CASE k <= Len(s)
      BY <1>3, <1>4, <1>6, <3>1 DEF Held
    <3>2. CASE Len(s) < k
      <4>1. PICK j \in 1 .. Len(t) : k = Len(s) + j
        <5>1. k - Len(s) \in 1 .. Len(t) /\ k = Len(s) + (k - Len(s))
          BY <1>3, <3>2
        <5>2. QED
          BY <5>1
      <4>2. off + k = (off + Len(s)) + j
        BY <1>3, <4>1
      <4>3. QED
        BY <1>4, <1>6, <4>1, <4>2 DEF Held
    <3>3. QED
      BY <1>3, <3>1, <3>2
  <2>2. QED
    BY <1>4, <2>1 DEF Held
<1>7. QED
  BY <1>5, <1>6

(* The magic and the version, as long as readFile takes them to be.         *)
LEMMA MagicLen ==
  IsSeq(Magic) /\ Len(Magic) = 5 /\ IsSeq(Version) /\ Len(Version) = 1
<1>1. IsSeq(Magic) /\ Len(Magic) = 5
  <2>1. Magic \in [1 .. 5 -> {<<"magic", 0, k>> : k \in 1 .. 5}]
    BY DEF Magic
  <2>2. QED
    BY <2>1, FunctionLen DEF IsSeq
<1>2. IsSeq(Version) /\ Len(Version) = 1
  <2>1. Version \in Seq({Num(1)}) /\ Len(Version) = 1
    BY DEF Version
  <2>2. QED
    BY <2>1 DEF IsSeq
<1>3. QED
  BY <1>1, <1>2

(* How a record's head, and the header, are made up.                         *)
LEMMA HeadHeld ==
  ASSUME NEW buf, NEW e \in Nat, NEW n \in Name, NEW s \in Nat,
         Held(buf, e, RecordHead(n, s))
  PROVE  /\ Held(buf, e, U32(StrLen[n]))
         /\ Held(buf, e + 4, Chars(n))
         /\ Held(buf, e + 4 + StrLen[n], U32(s))
<1> DEFINE front == U32(StrLen[n]) \o Chars(n)
<1>1. StrLen[n] \in Nat
  BY StrLenNat
<1>2. /\ IsSeq(U32(StrLen[n])) /\ Len(U32(StrLen[n])) = 4
      /\ IsSeq(Chars(n)) /\ Len(Chars(n)) = StrLen[n] /\ IsSeq(U32(s))
  BY <1>1, U32Len, CharsLen
<1>3. IsSeq(front) /\ Len(front) = 4 + StrLen[n]
  BY <1>2, ConcatLen
<1>4. Held(buf, e, front \o U32(s))
  BY DEF RecordHead
<1>5. Held(buf, e, front) /\ Held(buf, e + Len(front), U32(s))
  <2> HIDE DEF front
  <2>1. QED
    BY <1>2, <1>3, <1>4, HeldBoth
<1>6. Held(buf, e, U32(StrLen[n])) /\ Held(buf, e + Len(U32(StrLen[n])), Chars(n))
  BY <1>2, <1>5, HeldBoth, Zenon
<1>7. e + Len(front) = e + 4 + StrLen[n] /\ e + Len(U32(StrLen[n])) = e + 4
  BY <1>1, <1>2, <1>3
<1>8. QED
  BY <1>5, <1>6, <1>7, Zenon

(* The same for the header.                                                 *)
LEMMA HeaderHeld ==
  ASSUME NEW buf, NEW count \in Nat, Held(buf, 0, Header(count))
  PROVE  /\ Held(buf, 0, Magic) /\ Held(buf, 5, Version)
         /\ Held(buf, 6, U32(StrLen[DirName]))
         /\ Held(buf, 10, Chars(DirName))
         /\ Held(buf, 10 + StrLen[DirName], U32(count))
<1> DEFINE L    == StrLen[DirName]
           two   == Magic \o Version
           three == two \o U32(L)
           four  == three \o Chars(DirName)
<1>1. L \in Nat
  BY StrLenNat
<1>2. /\ IsSeq(U32(L)) /\ Len(U32(L)) = 4
      /\ IsSeq(Chars(DirName)) /\ Len(Chars(DirName)) = L /\ IsSeq(U32(count))
  BY <1>1, U32Len, CharsLen
<1>3. IsSeq(Magic) /\ Len(Magic) = 5 /\ IsSeq(Version) /\ Len(Version) = 1
  BY MagicLen
<1>4. IsSeq(two) /\ Len(two) = 5 + 1
  BY <1>3, ConcatLen, Zenon
<1> HIDE DEF two
<1>5. IsSeq(three) /\ Len(three) = (5 + 1) + 4
  BY <1>2, <1>4, ConcatLen, Zenon
<1> HIDE DEF three
<1>6. IsSeq(four) /\ Len(four) = ((5 + 1) + 4) + L
  BY <1>2, <1>5, ConcatLen, Zenon
<1> HIDE DEF four, L
<1>7. Held(buf, 0, four \o U32(count))
  BY DEF Header, four, three, two, L
<1>8. Held(buf, 0, four) /\ Held(buf, 0 + Len(four), U32(count))
  BY <1>2, <1>6, <1>7, HeldBoth
<1>9. Held(buf, 0, three) /\ Held(buf, 0 + Len(three), Chars(DirName))
  BY <1>2, <1>5, <1>8, HeldBoth DEF four
<1>10. Held(buf, 0, two) /\ Held(buf, 0 + Len(two), U32(L))
  BY <1>2, <1>4, <1>9, HeldBoth DEF three
<1>11. Held(buf, 0, Magic) /\ Held(buf, 0 + Len(Magic), Version)
  BY <1>3, <1>10, HeldBoth DEF two
<1>12. /\ 0 + Len(four) = 10 + L /\ 0 + Len(three) = 10
       /\ 0 + Len(two) = 6 /\ 0 + Len(Magic) = 5
  BY <1>1, <1>3, <1>4, <1>5, <1>6
<1>13. QED
  BY <1>8, <1>9, <1>10, <1>11, <1>12, Zenon DEF L

(* One turn of readFile's loop, at a record that the driver wrote.           *)
ReadsOn(file, e, n, s, o, items) ==
  ReadRecord(file, [ok |-> TRUE, pos |-> e, items |-> items])
    = [ok    |-> TRUE,
       pos   |-> o + s,
       items |-> Append(items, [name |-> Chars(n), size |-> s,
                                data |-> SubSeq(file, o + 1, o + s)])]

(* A turn at a whole record reads it and goes on behind it.                 *)
LEMMA TurnReads ==
  ASSUME NEW file, IsSeq(file), Len(file) < U32Limit, NEW e \in Nat,
         NEW n \in Name, NEW s \in Nat, Held(file, e, RecordHead(n, s)),
         NEW o, o = e + StrLen[n] + 8, o + s <= Len(file), NEW items
  PROVE  ReadsOn(file, e, n, s, o, items)
<1> DEFINE L  == StrLen[n]
           st == [ok |-> TRUE, pos |-> e, items |-> items]
<1>1. L \in Nat /\ Len(file) \in Nat
  BY StrLenNat, SeqLen
<1>2. o \in Nat /\ e + 4 + L \in Nat /\ e + 4 \in Nat
  BY <1>1
<1>3. /\ Held(file, e, U32(L)) /\ Held(file, e + 4, Chars(n))
      /\ Held(file, e + 4 + L, U32(s))
  BY HeadHeld, Zenon
<1>4. /\ L < U32Limit /\ s < U32Limit
      /\ e + 4 <= Len(file) /\ e + 4 + L + 4 <= Len(file) /\ e + 4 + L + 4 = o
  <2> PICK len : len = Len(file)
    OBVIOUS
  <2> HIDE DEF L
  <2>1. len \in Nat /\ len < U32Limit /\ o + s <= len /\ o = e + L + 8
    BY <1>1 DEF L
  <2>2. QED
    BY <1>1, <2>1, SMT DEF U32Limit
<1>5. IsU32(file, e) /\ U32At(file, e) = L
  BY <1>1, <1>3, <1>4, U32Read, SMT
<1>6. IsU32(file, e + 4 + L) /\ U32At(file, e + 4 + L) = s
  BY <1>1, <1>2, <1>3, <1>4, U32Read, SMT
<1>7. ReadAt(file, e + 4, L) = Chars(n)
  <2>1. IsSeq(Chars(n)) /\ Len(Chars(n)) = L
    BY CharsLen
  <2>2. (e + 4) + Len(Chars(n)) <= Len(file)
    BY <1>1, <1>4, <2>1, SMT
  <2>3. ReadAt(file, e + 4, Len(Chars(n))) = Chars(n)
    BY <1>2, <1>3, <2>1, <2>2, ReadIs, SMT
  <2>4. QED
    BY <2>1, <2>3, SMT
<1>8. ReadAt(file, o, s) = SubSeq(file, o + 1, o + s) /\ Len(ReadAt(file, o, s)) = s
  BY <1>2, ReadLen, Zenon
<1>9. st.ok /\ st.pos = e /\ st.items = items
  OBVIOUS
<1> HIDE DEF L, st
<1>10. /\ e + 4 + U32At(file, e) = e + 4 + L
       /\ (e + 4 + L) + 4 = o
  BY <1>4, <1>5
<1>11. ReadRecord(file, st)
         = [ok    |-> TRUE, pos |-> o + s,
            items |-> Append(items, [name |-> Chars(n), size |-> s,
                                     data |-> SubSeq(file, o + 1, o + s)])]
  BY <1>5, <1>6, <1>7, <1>8, <1>9, <1>10, Zenon DEF ReadRecord
<1>12. QED
  BY <1>11, Zenon DEF st, ReadsOn

(* A buffer in which everything but the data is as the record list says.     *)
HeadsHeld(buf) ==
  /\ IsSeq(buf) /\ Len(buf) = End(Len(drecord))
  /\ Held(buf, 0, Header(Len(drecord)))
  /\ \A i \in 1 .. Len(drecord) :
       Held(buf, End(i - 1), RecordHead(drecord[i].name, drecord[i].size))

(* What dsnap.py makes of the i-th record.                                   *)
ReadItem(buf, i) ==
  [name |-> Chars(drecord[i].name), size |-> drecord[i].size,
   data |-> SubSeq(buf, drecord[i].offset + 1, drecord[i].offset + drecord[i].size)]

ReadItems(buf, n) == [i \in 1 .. n |-> ReadItem(buf, i)]

(* Eight bytes at least for every record.                                    *)
LEMMA EndsGrow ==
  ASSUME drecord \in Seq(Record), Chained, NEW i \in 0 .. Len(drecord)
  PROVE  8 * i <= End(i)
<1> DEFINE T == {k \in 0 .. Len(drecord) : ~(8 * k <= End(k))}
<1>1. SUFFICES ASSUME T # {}
               PROVE  FALSE
  OBVIOUS
<1>2. Len(drecord) \in Nat /\ T \subseteq Nat
  OBVIOUS
<1>3. PICK k \in T : \A x \in T : k <= x
  <2> HIDE DEF T
  <2>1. QED
    BY <1>1, <1>2, LeastElement
<1>4. \A x \in 0 .. Len(drecord) : End(x) \in Nat
  BY EndNat
<1>5. CASE k = 0
  BY <1>4, <1>5
<1>6. CASE k # 0
  <2>1. k \in 1 .. Len(drecord) /\ k - 1 \in 0 .. Len(drecord) /\ k - 1 \notin T
    BY <1>2, <1>3, <1>6
  <2>2. 8 * (k - 1) <= End(k - 1)
    BY <2>1
  <2>3. Placed(k)
    BY <2>1, Places
  <2>4. /\ End(k) = drecord[k].offset + drecord[k].size /\ drecord[k].size \in Nat
        /\ drecord[k].offset = End(k - 1) + StrLen[drecord[k].name] + 8
        /\ StrLen[drecord[k].name] \in Nat /\ End(k - 1) \in Nat
    BY <2>3, Zenon DEF Placed
  <2>5. End(k) >= End(k - 1) + 8
    BY <2>4
  <2>6. 8 * k <= End(k)
    BY <1>2, <1>3, <1>4, <2>1, <2>2, <2>4, <2>5
  <2>7. QED
    BY <2>6
<1>7. QED
  BY <1>5, <1>6

(* readFile's loop, from start on, after i turns, if f says where it stands   *)
(* after fewer.                                                              *)
Turn(file, start, f, i) ==
  IF i = 0 THEN [ok |-> TRUE, pos |-> start, items |-> <<>>]
           ELSE ReadRecord(file, f[i - 1])

(* readFile runs the function that satisfies this, if there is one.          *)
LEMMA Turns ==
  ASSUME NEW file, NEW start, NEW count \in Nat,
         NEW g, g = [i \in 0 .. count |-> Turn(file, start, g, i)]
  PROVE  \E f : /\ f = [i \in 0 .. count |-> Turn(file, start, f, i)]
                /\ ReadRecords(file, start, count) = f[count]
  BY Zenon DEF ReadRecords, Turn

(* Each turn adds one item.                                                  *)
LEMMA ItemsGrow ==
  ASSUME NEW buf, NEW i \in Nat \ {0}
  PROVE  Append(ReadItems(buf, i - 1), ReadItem(buf, i)) = ReadItems(buf, i)
<1> DEFINE S == {ReadItem(buf, j) : j \in 1 .. i}
<1>1. PICK m \in Nat : m = i - 1 /\ i = m + 1
  <2>1. i - 1 \in Nat /\ i = (i - 1) + 1
    OBVIOUS
  <2>2. QED
    BY <2>1
<1>2. /\ ReadItems(buf, m) \in [1 .. m -> S]
      /\ ReadItems(buf, m + 1) \in [1 .. m + 1 -> S]
  BY <1>1 DEF ReadItems
<1>3. /\ \A j \in 1 .. m : ReadItems(buf, m + 1)[j] = ReadItems(buf, m)[j]
      /\ ReadItems(buf, m + 1)[m + 1] = ReadItem(buf, i)
  BY <1>1 DEF ReadItems
<1> HIDE DEF S
<1>4. ReadItems(buf, m + 1) = Append(ReadItems(buf, m), ReadItems(buf, m + 1)[m + 1])
  BY <1>2, <1>3, AppendFunction
<1>5. QED
  BY <1>1, <1>3, <1>4

(* Where readFile's loop stands after i turns.                               *)
After(buf, i) == [ok |-> TRUE, pos |-> End(i), items |-> ReadItems(buf, i)]

(* The i-th turn starts at the i-th record and ends behind it.               *)
LEMMA TurnTaken ==
  ASSUME drecord \in Seq(Record), Chained, NEW buf, HeadsHeld(buf),
         Len(buf) < U32Limit, NEW i \in 1 .. Len(drecord)
  PROVE  ReadRecord(buf, After(buf, i - 1)) = After(buf, i)
<1> DEFINE r == drecord[i]
<1>1. Placed(i)
  BY Places
<1>2. /\ r.name \in Name /\ r.size \in Nat /\ r.offset \in Nat
      /\ StrLen[r.name] \in Nat /\ End(i - 1) \in Nat
      /\ r.offset = End(i - 1) + StrLen[r.name] + 8
      /\ End(i) = r.offset + r.size /\ End(i) <= End(Len(drecord))
  BY <1>1, Zenon DEF Placed
<1>3. IsSeq(buf) /\ r.offset + r.size <= Len(buf)
  BY <1>2 DEF HeadsHeld
<1>4. Held(buf, End(i - 1), RecordHead(r.name, r.size))
  BY DEF HeadsHeld
<1> HIDE DEF r
<1>5. ReadRecord(buf, [ok |-> TRUE, pos |-> End(i - 1), items |-> ReadItems(buf, i - 1)])
        = [ok    |-> TRUE, pos |-> r.offset + r.size,
           items |-> Append(ReadItems(buf, i - 1),
                       [name |-> Chars(r.name), size |-> r.size,
                        data |-> SubSeq(buf, r.offset + 1, r.offset + r.size)])]
  <2> PICK e, n, z, o, items : /\ e = End(i - 1) /\ n = r.name /\ z = r.size
                               /\ o = r.offset /\ items = ReadItems(buf, i - 1)
    OBVIOUS
  <2>1. /\ e \in Nat /\ n \in Name /\ z \in Nat /\ Held(buf, e, RecordHead(n, z))
        /\ o = e + StrLen[n] + 8 /\ o + z <= Len(buf) /\ IsSeq(buf)
    BY <1>2, <1>3, <1>4
  <2>2. ReadsOn(buf, e, n, z, o, items)
    BY <2>1, TurnReads
  <2>3. QED
    BY <2>2, Zenon DEF ReadsOn
<1>6. [name |-> Chars(r.name), size |-> r.size,
       data |-> SubSeq(buf, r.offset + 1, r.offset + r.size)] = ReadItem(buf, i)
  BY Zenon DEF ReadItem, r
<1>7. Append(ReadItems(buf, i - 1), ReadItem(buf, i)) = ReadItems(buf, i)
  BY ItemsGrow
<1>8. QED
  BY <1>2, <1>5, <1>6, <1>7, Zenon DEF After

(* The whole loop.                                                           *)
LEMMA LoopReads ==
  ASSUME drecord \in Seq(Record), Chained, NEW buf, HeadsHeld(buf), Len(buf) < U32Limit
  PROVE  ReadRecords(buf, HeaderSize, Len(drecord)) = After(buf, Len(drecord))
<1> DEFINE n == Len(drecord)
           h == [i \in 0 .. n |-> After(buf, i)]
<1>1. n \in Nat
  OBVIOUS
<1>2. After(buf, 0) = [ok |-> TRUE, pos |-> HeaderSize, items |-> <<>>]
  <2>1. ReadItems(buf, 0) = <<>>
    BY DEF ReadItems
  <2>2. End(0) = HeaderSize
    BY DEF End
  <2>3. QED
    BY <2>1, <2>2, Zenon DEF After
<1>3. ASSUME NEW i \in 0 .. n
      PROVE  Turn(buf, HeaderSize, h, i) = After(buf, i)
  <2>1. CASE i = 0
    BY <1>2, <2>1, Zenon DEF Turn
  <2>2. CASE i # 0
    <3>1. i \in 1 .. n /\ i - 1 \in 0 .. n
      BY <1>1, <2>2
    <3>2. h[i - 1] = After(buf, i - 1)
      BY <3>1
    <3>3. ReadRecord(buf, After(buf, i - 1)) = After(buf, i)
      BY <3>1, TurnTaken
    <3> HIDE DEF h
    <3>4. QED
      BY <2>2, <3>2, <3>3, Zenon DEF Turn
  <2>3. QED
    BY <2>1, <2>2
<1>4. h = [i \in 0 .. n |-> Turn(buf, HeaderSize, h, i)]
  <2> DEFINE g == [i \in 0 .. n |-> Turn(buf, HeaderSize, h, i)]
  <2>1. DOMAIN g = DOMAIN h /\ \A i \in 0 .. n : g[i] = h[i]
    BY <1>3
  <2>2. g = h
    BY <2>1
  <2>3. QED
    BY <2>2
<1> HIDE DEF h
<1>5. PICK f : /\ f = [i \in 0 .. n |-> Turn(buf, HeaderSize, f, i)]
               /\ ReadRecords(buf, HeaderSize, n) = f[n]
  <2> HIDE DEF n
  <2>1. QED
    BY <1>1, <1>4, Turns
<1> DEFINE T == {i \in 0 .. n : f[i] # After(buf, i)}
<1>6. T = {}
  <2> SUFFICES ASSUME T # {}
               PROVE  FALSE
    OBVIOUS
  <2>1. PICK i \in T : \A x \in T : i <= x
    <3>1. T \subseteq Nat
      BY <1>1
    <3> HIDE DEF T
    <3>2. QED
      BY <3>1, LeastElement
  <2>2. i \in 0 .. n /\ f[i] # After(buf, i) /\ f[i] = Turn(buf, HeaderSize, f, i)
    BY <1>5
  <2>3. CASE i = 0
    BY <1>2, <2>2, <2>3, Zenon DEF Turn
  <2>4. CASE i # 0
    <3>1. i \in 1 .. n /\ i - 1 \in 0 .. n /\ i - 1 \notin T
      BY <1>1, <2>1, <2>2, <2>4
    <3>2. f[i - 1] = After(buf, i - 1)
      BY <3>1
    <3>3. ReadRecord(buf, After(buf, i - 1)) = After(buf, i)
      BY <3>1, TurnTaken
    <3>4. Turn(buf, HeaderSize, f, i) = After(buf, i)
      BY <2>4, <3>2, <3>3, Zenon DEF Turn
    <3>5. QED
      BY <2>2, <3>4
  <2>5. QED
    BY <2>3, <2>4
<1>7. f[n] = After(buf, n)
  BY <1>1, <1>6
<1>8. QED
  BY <1>5, <1>7

(* readFile reads back what the record list says.                            *)
LEMMA FileReads ==
  ASSUME drecord \in Seq(Record), Chained, NEW buf, HeadsHeld(buf), Len(buf) < U32Limit
  PROVE  readFile(buf) = [ok |-> TRUE, driver |-> Chars(DirName),
                          items |-> ReadItems(buf, Len(drecord))]
<1> DEFINE n == Len(drecord)
           L == StrLen[DirName]
<1>1. n \in Nat /\ L \in Nat /\ IsSeq(buf) /\ Len(buf) \in Nat /\ Len(buf) = End(n)
  BY StrLenNat, SeqLen DEF HeadsHeld
<1>2. HeaderSize = 14 + L /\ End(0) = HeaderSize /\ End(0) <= End(n) /\ 8 * n <= End(n)
  BY <1>1, EndsInOrder, EndsGrow DEF HeaderSize, End
<1>3. /\ Held(buf, 0, Magic) /\ Held(buf, 5, Version) /\ Held(buf, 6, U32(L))
      /\ Held(buf, 10, Chars(DirName)) /\ Held(buf, 10 + L, U32(n))
  BY <1>1, HeaderHeld DEF HeadsHeld
<1>4. /\ L < U32Limit /\ n < U32Limit /\ 8 * n <= Len(buf)
      /\ 14 + L <= Len(buf)
  <2> PICK len, size : len = Len(buf) /\ size = HeaderSize
    OBVIOUS
  <2> HIDE DEF L, n
  <2>1. /\ len \in Nat /\ len < U32Limit /\ size = 14 + L /\ size <= len
        /\ 8 * n <= len
    BY <1>1, <1>2
  <2>2. L < U32Limit /\ n < U32Limit
    BY <1>1, <2>1, SMT DEF U32Limit
  <2>3. QED
    BY <2>1, <2>2
<1>5. ReadAt(buf, 0, 5) = Magic /\ ReadAt(buf, 5, 1) = Version
  <2>1. 0 + 5 <= Len(buf) /\ 5 + 1 <= Len(buf)
    BY <1>1, <1>4
  <2>2. /\ ReadAt(buf, 0, Len(Magic)) = Magic
        /\ ReadAt(buf, 5, Len(Version)) = Version
    BY <1>1, <1>3, <2>1, MagicLen, ReadIs
  <2>3. QED
    BY <2>2, MagicLen, Zenon
<1>6. IsU32(buf, 6) /\ U32At(buf, 6) = L
  <2>1. 6 + 4 <= Len(buf)
    BY <1>1, <1>4
  <2>2. QED
    BY <1>1, <1>3, <1>4, <2>1, U32Read
<1>7. IsU32(buf, 10 + L) /\ U32At(buf, 10 + L) = n
  <2>1. (10 + L) + 4 <= Len(buf) /\ 10 + L \in Nat
    BY <1>1, <1>4
  <2> HIDE DEF L, n
  <2>2. QED
    BY <1>1, <1>3, <1>4, <2>1, U32Read
<1>8. ReadAt(buf, 10, L) = Chars(DirName)
  <2>1. IsSeq(Chars(DirName)) /\ Len(Chars(DirName)) = L /\ 10 + L <= Len(buf)
    BY <1>1, <1>4, CharsLen
  <2>2. ReadAt(buf, 10, Len(Chars(DirName))) = Chars(DirName)
    BY <1>1, <1>3, <2>1, ReadIs
  <2>3. QED
    BY <2>1, <2>2, Zenon
<1>9. ReadRecords(buf, (10 + L) + 4, n) = After(buf, n)
  <2>1. (10 + L) + 4 = HeaderSize
    BY <1>1, <1>2
  <2>2. QED
    BY <2>1, LoopReads
<1>10. After(buf, n).ok /\ After(buf, n).items = ReadItems(buf, n)
  BY DEF After
<1> HIDE DEF L, n
<1>11. readFile(buf) = [ok |-> TRUE, driver |-> Chars(DirName),
                        items |-> ReadItems(buf, n)]
  BY <1>4, <1>5, <1>6, <1>7, <1>8, <1>9, <1>10, Zenon DEF readFile
<1>12. QED
  BY <1>11, Zenon DEF n

(* The number of items.                                                      *)
LEMMA ItemsRead ==
  ASSUME NEW buf, NEW n \in Nat
  PROVE  /\ Len(ReadItems(buf, n)) = n
         /\ \A i \in 1 .. n : ReadItems(buf, n)[i] = ReadItem(buf, i)
<1>1. /\ DOMAIN ReadItems(buf, n) = 1 .. n
      /\ ReadItems(buf, n) = [i \in 1 .. n |-> ReadItems(buf, n)[i]]
  BY DEF ReadItems
<1>2. Len(ReadItems(buf, n)) = n
  BY <1>1, FunctionSeq
<1>3. QED
  BY <1>2 DEF ReadItems

-----------------------------------------------------------------------------
(* The master buffer holds what the record list says.                        *)

(* At e, the record of name n and size s, with the contents of one structure,*)
(* whole.                                                                    *)
WholeIn(buf, e, n, s) == \E v \in Value : Held(buf, e, RecordHead(n, s) \o Data(v, s))

(* The header, and the records that dsnap_construct_blob has written, stand  *)
(* in the master buffer.                                                     *)
FrameOK ==
  (Contained /\ master \in Buf /\ pc \in {"record", "publish_size", "idle", "create"}) =>
    /\ Held(bytes[master], 0, Header(Len(drecord)))
    /\ \A i \in 1 .. Written :
         WholeIn(bytes[master], End(i - 1), drecord[i].name, drecord[i].size)

(* The blob shows the whole master buffer.                                   *)
ShownOK ==
  failed = {} =>
    /\ pc \notin {"start", "create_blob", "init_blob", "oops"} => blobSet
    /\ pc \in {"idle", "create"} =>
         master \in Buf /\ blobData = master /\ blobSize = tot_size

(* What was copied stands where it was copied to, and everything else stays. *)
LEMMA HeldSpliced ==
  ASSUME NEW buf, IsSeq(buf), NEW off \in Nat, NEW piece, Len(piece) \in Nat,
         off + Len(piece) <= Len(buf)
  PROVE  Held(Splice(buf, off, piece), off, piece)
<1> SUFFICES ASSUME NEW k \in 1 .. Len(piece)
             PROVE  Splice(buf, off, piece)[off + k] = piece[k]
  BY DEF Held
<1>1. /\ Len(buf) \in Nat /\ off + k \in 1 .. Len(buf)
      /\ off < off + k /\ off + k <= off + Len(piece) /\ (off + k) - off = k
  BY SeqLen
<1>2. QED
  BY <1>1 DEF Splice

(* What does not overlap it stays.                                          *)
LEMMA HeldSpared ==
  ASSUME NEW buf, IsSeq(buf), NEW off \in Nat, NEW piece, Len(piece) \in Nat,
         NEW p \in Nat, NEW x, Len(x) \in Nat, p + Len(x) <= Len(buf),
         Held(buf, p, x), p + Len(x) <= off \/ off + Len(piece) <= p
  PROVE  Held(Splice(buf, off, piece), p, x)
<1> SUFFICES ASSUME NEW k \in 1 .. Len(x)
             PROVE  Splice(buf, off, piece)[p + k] = x[k]
  BY DEF Held
<1>1. /\ Len(buf) \in Nat /\ p + k \in 1 .. Len(buf)
      /\ p + k <= off \/ off + Len(piece) < p + k
  BY SeqLen
<1>2. Splice(buf, off, piece)[p + k] = buf[p + k]
  BY <1>1, SplicedRest
<1>3. QED
  BY <1>2 DEF Held

(* A write in front of a record, or behind it, leaves it whole.              *)
LEMMA WholeSpared ==
  ASSUME NEW buf, IsSeq(buf), NEW off \in Nat, NEW piece, Len(piece) \in Nat,
         NEW e \in Nat, NEW n \in Name, NEW s \in Nat, WholeIn(buf, e, n, s),
         e + StrLen[n] + 8 + s <= Len(buf),
         e + StrLen[n] + 8 + s <= off \/ off + Len(piece) <= e
  PROVE  WholeIn(Splice(buf, off, piece), e, n, s)
<1>1. PICK v \in Value : Held(buf, e, RecordHead(n, s) \o Data(v, s))
  BY DEF WholeIn
<1>2. PICK x : x = RecordHead(n, s) \o Data(v, s)
  OBVIOUS
<1>3. Len(x) = StrLen[n] + 8 + s /\ StrLen[n] \in Nat
  <2>1. Len(x) = RecordHeadSize(n) + s
    BY <1>2, RecordLen
  <2>2. StrLen[n] \in Nat
    BY StrLenNat
  <2>3. QED
    BY <2>1, <2>2 DEF RecordHeadSize
<1>4. Held(buf, e, x)
  BY <1>1, <1>2
<1>5. /\ Len(x) \in Nat /\ e + Len(x) <= Len(buf)
      /\ e + Len(x) <= off \/ off + Len(piece) <= e
  BY <1>3, SeqLen
<1>6. Held(Splice(buf, off, piece), e, x)
  BY <1>4, <1>5, HeldSpared
<1>7. QED
  BY <1>2, <1>6 DEF WholeIn

(* A head as long as dsnap_create_record takes it to be.                     *)
LEMMA HeadLen ==
  ASSUME NEW n \in Name, NEW s \in Nat
  PROVE  /\ StrLen[n] \in Nat /\ IsSeq(RecordHead(n, s))
         /\ Len(RecordHead(n, s)) = StrLen[n] + 8
<1> DEFINE front == U32(StrLen[n]) \o Chars(n)
<1>1. StrLen[n] \in Nat
  BY StrLenNat
<1>2. /\ IsSeq(U32(StrLen[n])) /\ Len(U32(StrLen[n])) = 4
      /\ IsSeq(Chars(n)) /\ Len(Chars(n)) = StrLen[n]
      /\ IsSeq(U32(s)) /\ Len(U32(s)) = 4
  BY <1>1, U32Len, CharsLen
<1>3. IsSeq(front) /\ Len(front) = 4 + StrLen[n]
  BY <1>2, ConcatLen
<1> HIDE DEF front
<1>4. IsSeq(front \o U32(s)) /\ Len(front \o U32(s)) = (4 + StrLen[n]) + 4
  BY <1>2, <1>3, ConcatLen
<1>5. RecordHead(n, s) = front \o U32(s)
  BY DEF RecordHead, front
<1>6. QED
  BY <1>1, <1>4, <1>5

(* The head of a whole record.                                               *)
LEMMA WholeHead ==
  ASSUME NEW buf, NEW e \in Nat, NEW n \in Name, NEW s \in Nat, NEW v
  PROVE  Held(buf, e, RecordHead(n, s) \o Data(v, s))
           <=> Held(buf, e, RecordHead(n, s)) /\ Held(buf, e + StrLen[n] + 8, Data(v, s))
<1>1. /\ StrLen[n] \in Nat /\ IsSeq(RecordHead(n, s))
      /\ Len(RecordHead(n, s)) = StrLen[n] + 8 /\ IsSeq(Data(v, s))
  BY HeadLen, DataLen
<1>2. e + Len(RecordHead(n, s)) = e + StrLen[n] + 8
  BY <1>1
<1>3. Held(buf, e, RecordHead(n, s) \o Data(v, s))
        <=> /\ Held(buf, e, RecordHead(n, s))
            /\ Held(buf, e + Len(RecordHead(n, s)), Data(v, s))
  BY <1>1, HeldBoth
<1>4. QED
  BY <1>2, <1>3, Zenon

(* An update in place of a whole record leaves it whole.                     *)
LEMMA WholeUpdated ==
  ASSUME NEW buf, IsSeq(buf), NEW e \in Nat, NEW n \in Name, NEW s \in Nat,
         NEW v \in Value, NEW o, o = e + StrLen[n] + 8, o + s <= Len(buf),
         WholeIn(buf, e, n, s)
  PROVE  WholeIn(Splice(buf, o, Data(v, s)), e, n, s)
<1>1. PICK w \in Value : Held(buf, e, RecordHead(n, s) \o Data(w, s))
  BY DEF WholeIn
<1>2. /\ StrLen[n] \in Nat /\ Len(RecordHead(n, s)) = StrLen[n] + 8
      /\ Len(Data(v, s)) = s /\ Len(buf) \in Nat
  BY HeadLen, DataLen, SeqLen
<1>3. o \in Nat /\ e + Len(RecordHead(n, s)) <= o /\ e + Len(RecordHead(n, s)) <= Len(buf)
  BY <1>2
<1>4. Held(buf, e, RecordHead(n, s))
  BY <1>1, WholeHead
<1>5. PICK new, piece, head : /\ new = Splice(buf, o, piece) /\ piece = Data(v, s)
                              /\ head = RecordHead(n, s)
  OBVIOUS
<1>6. Held(new, e, head)
  <2>1. /\ Len(head) \in Nat /\ Len(piece) \in Nat /\ Held(buf, e, head)
        /\ e + Len(head) <= o /\ e + Len(head) <= Len(buf)
    <3>1. Len(head) = StrLen[n] + 8 /\ Len(piece) = s /\ Held(buf, e, head)
      BY <1>2, <1>4, <1>5, Zenon
    <3>2. QED
      BY <1>2, <3>1
  <2>2. QED
    BY <1>3, <1>5, <2>1, HeldSpared
<1>7. Held(new, o, piece)
  BY <1>2, <1>3, <1>5, HeldSpliced
<1>8. Held(new, e, RecordHead(n, s) \o Data(v, s))
  BY <1>5, <1>6, <1>7, WholeHead
<1>9. QED
  BY <1>5, <1>8 DEF WholeIn

(* What a step that keeps the frame can rest on.                             *)
Firm == TypeOK /\ Chained /\ PhaseOK /\ BlobOK /\ Contained

(* A step that leaves the list, the buffer and the cursor alone.             *)
LEMMA FrameSame ==
  ASSUME FrameOK, Contained, UNCHANGED <<drecord, master, bytes>>,
         pc \in {"record", "publish_size", "idle", "create"}, Written' = Written
  PROVE  FrameOK'
<1>1. \A i : End(i)' = End(i)
  BY DEF End
<1>2. QED
  BY <1>1 DEF FrameOK

(* Once the header is written, and no record yet, the frame holds.          *)
LEMMA HeaderFrames ==
  ASSUME Firm, WriteHeader, PhaseOK'
  PROVE  FrameOK'
<1>1. /\ pc = "header" /\ FileOK /\ TypeOK /\ drecord \in Seq(Record)
      /\ WriteMaster(0, Header(records), "record") /\ curr' = 1
      /\ UNCHANGED <<drecord, master>>
  BY DEF Firm, WriteHeader, PhaseOK, TypeOK, fileVars
<1>2. records = Len(drecord) /\ Len(drecord) \in Nat /\ master \in Buf
  BY <1>1 DEF FileOK
<1>3. PICK old, piece : old = bytes[master] /\ piece = Header(Len(drecord))
  OBVIOUS
<1>4. pc' = "record" /\ bytes'[master] = Splice(old, 0, piece)
  <2>1. pc' # "oops"
    BY DEF PhaseOK
  <2>2. WriteFault(0, Len(piece)) = "none"
    BY <1>1, <1>2, <1>3, <2>1, Zenon DEF WriteMaster
  <2>3. pc' = "record" /\ bytes' = [bytes EXCEPT ![master] = Splice(@, 0, piece)]
    BY <1>1, <1>2, <1>3, <2>2, Zenon DEF WriteMaster
  <2>4. QED
    BY <1>1, <1>2, <1>3, <2>3 DEF TypeOK
<1>5. IsSeq(old) /\ Len(old) = End(Len(drecord))
  BY <1>1, <1>2, <1>3 DEF Firm, BlobOK, FileOK
<1>6. Len(piece) = HeaderSize /\ HeaderSize \in Nat /\ HeaderSize <= End(Len(drecord))
  <2>1. End(0) <= End(Len(drecord))
    BY <1>1, <1>2, EndsInOrder DEF Firm
  <2>2. QED
    BY <1>2, <1>3, <2>1, HeaderLen, HeaderSizeNat DEF End
<1>7. Held(bytes'[master], 0, piece)
  <2>1. 0 + Len(piece) <= Len(old) /\ Len(piece) \in Nat
    BY <1>5, <1>6
  <2>2. QED
    BY <1>4, <1>5, <2>1, HeldSpliced
<1>8. Written' = 0
  BY <1>1, <1>4 DEF Written
<1>9. Held(bytes'[master'], 0, Header(Len(drecord')))
  BY <1>1, <1>3, <1>7
<1>10. QED
  BY <1>8, <1>9 DEF FrameOK

(* Writing a record adds one to those that stand, and spares them.          *)
LEMMA WriteFrames ==
  ASSUME Firm, FrameOK, WriteRecord, PhaseOK'
  PROVE  FrameOK'
<1>0. PICK i : i = curr
  OBVIOUS
<1> DEFINE r == drecord[i]
<1>1. /\ pc = "record" /\ FileOK /\ CursorOK /\ i \in 1 .. Len(drecord)
      /\ Len(drecord) \in Nat /\ drecord \in Seq(Record) /\ Chained
  BY <1>0 DEF Firm, WriteRecord, PhaseOK, TypeOK
<1>p. \A j \in 1 .. Len(drecord) : Placed(j)
  BY <1>1, Places
<1>2. PICK n, o, z, v, L : /\ n = r.name /\ o = r.offset /\ z = r.size
                           /\ v = mem[r.loc] /\ L = StrLen[n]
  OBVIOUS
<1>3. /\ n \in Name /\ z \in Nat /\ o \in Nat /\ L \in Nat
      /\ o = End(i - 1) + L + 8 /\ End(i) = o + z
      /\ End(i) <= End(Len(drecord)) /\ End(i - 1) \in Nat
  BY <1>1, <1>2, <1>p DEF Placed
<1>v. v \in Value
  BY <1>1, <1>2, <1>p DEF Placed, Record, Firm, TypeOK
<1>4. PICK old, new, piece : /\ old = bytes[master] /\ new = bytes'[master]
                             /\ piece = RecordHead(n, z) \o Data(v, z)
  OBVIOUS
<1>5. /\ c_ptr = End(i - 1) /\ c_ptr \in Nat /\ master \in Buf
      /\ Len(old) = End(Len(drecord))
  BY <1>0, <1>1, <1>3, <1>4 DEF CursorOK, FileOK
<1>6. /\ WriteMaster(c_ptr, piece, "record") /\ curr' = i + 1
      /\ UNCHANGED <<drecord, master, mem>>
  <2>1. n # NULL
    BY <1>3, NameAssumption
  <2>2. QED
    BY <1>0, <1>2, <1>4, <2>1, Zenon DEF WriteRecord, fileVars
<1>7. pc' = "record" /\ new = Splice(old, c_ptr, piece)
  <2>1. pc' # "oops"
    BY DEF PhaseOK
  <2>2. WriteFault(c_ptr, Len(piece)) = "none"
    BY <1>6, <2>1, Zenon DEF WriteMaster
  <2>3. /\ pc' = "record"
        /\ bytes' = [bytes EXCEPT ![master] = Splice(@, c_ptr, piece)]
    BY <1>5, <1>6, <2>2, Zenon DEF WriteMaster
  <2>4. QED
    BY <1>4, <1>5, <2>3 DEF TypeOK, Firm
<1>8. IsSeq(old) /\ Len(old) \in Nat
  BY <1>4, <1>5, SeqLen DEF Firm, BlobOK
<1>9. Len(piece) = z + L + 8 /\ Len(piece) \in Nat
  <2>1. Len(piece) = RecordHeadSize(n) + z
    BY <1>3, <1>4, RecordLen
  <2>2. RecordHeadSize(n) = L + 8
    BY <1>2, <1>3 DEF RecordHeadSize
  <2>3. QED
    BY <1>3, <2>1, <2>2
<1>10. Written = i - 1 /\ Written' = i
  BY <1>0, <1>1, <1>6, <1>7 DEF Written
<1>11. /\ Held(old, 0, Header(Len(drecord)))
       /\ \A j \in 1 .. i - 1 : WholeIn(old, End(j - 1), drecord[j].name, drecord[j].size)
  BY <1>1, <1>4, <1>5, <1>10 DEF FrameOK, Firm
<1>12. Held(new, 0, Header(Len(drecord)))
  <2>1. PICK head : head = Header(Len(drecord))
    OBVIOUS
  <2>2. Len(head) = HeaderSize /\ HeaderSize \in Nat
    BY <1>1, <2>1, HeaderLen, HeaderSizeNat
  <2>3. End(0) <= End(i - 1) /\ End(0) = HeaderSize
    BY <1>1, EndsInOrder DEF End
  <2>4. 0 + Len(head) <= c_ptr /\ 0 + Len(head) <= Len(old)
    BY <1>3, <1>5, <2>2, <2>3
  <2>5. Held(new, 0, head)
    BY <1>5, <1>7, <1>8, <1>9, <1>11, <2>1, <2>2, <2>4, HeldSpared
  <2>6. QED
    BY <2>1, <2>5
<1>13. WholeIn(new, End(i - 1), n, z)
  <2>1. c_ptr + Len(piece) <= Len(old)
    BY <1>3, <1>5, <1>9
  <2>2. Held(new, c_ptr, piece)
    BY <1>5, <1>7, <1>8, <1>9, <2>1, HeldSpliced
  <2>3. QED
    BY <1>4, <1>5, <1>v, <2>2 DEF WholeIn
<1>14. ASSUME NEW j \in 1 .. i - 1
       PROVE  WholeIn(new, End(j - 1), drecord[j].name, drecord[j].size)
  <2>1. j \in 1 .. Len(drecord) /\ j \in 0 .. Len(drecord) /\ i - 1 \in j .. Len(drecord)
    BY <1>1
  <2>2. End(j) <= c_ptr
    BY <1>1, <1>5, <2>1, EndsInOrder
  <2>3. PICK e, m, s : e = End(j - 1) /\ m = drecord[j].name /\ s = drecord[j].size
    OBVIOUS
  <2>4. /\ e \in Nat /\ m \in Name /\ s \in Nat /\ StrLen[m] \in Nat
        /\ e + StrLen[m] + 8 + s = End(j) /\ End(j) <= End(Len(drecord))
    BY <1>p, <2>1, <2>3 DEF Placed
  <2>5. e + StrLen[m] + 8 + s <= Len(old) /\ e + StrLen[m] + 8 + s <= c_ptr
    BY <1>5, <2>2, <2>4
  <2>6. WholeIn(old, e, m, s)
    BY <1>11, <2>3
  <2>7. WholeIn(new, e, m, s)
    BY <1>5, <1>7, <1>8, <1>9, <2>4, <2>5, <2>6, WholeSpared
  <2>8. QED
    BY <2>3, <2>7
<1>15. ASSUME NEW j \in 1 .. i
       PROVE  WholeIn(new, End(j - 1), drecord[j].name, drecord[j].size)
  <2>1. j \in 1 .. i - 1 \/ j = i
    BY <1>1
  <2>2. QED
    BY <1>2, <1>13, <1>14, <2>1
<1>16. \A j : End(j)' = End(j)
  BY <1>6 DEF End
<1>17. QED
  BY <1>4, <1>6, <1>10, <1>12, <1>15, <1>16 DEF FrameOK

(* An update in place leaves every record whole.                            *)
LEMMA UpdateFrames ==
  ASSUME Firm, FrameOK, NEW c \in Call, UpdateRecord(c), PhaseOK'
  PROVE  FrameOK'
<1>0. PICK i : i = FindRecord(c.name)
  OBVIOUS
<1> DEFINE r == drecord[i]
<1>1. /\ pc = "idle" /\ i \in 1 .. Len(drecord) /\ Len(drecord) \in Nat
      /\ drecord \in Seq(Record) /\ Chained
  BY <1>0, FindRecordType DEF Firm, UpdateRecord, TypeOK
<1>2. FileOK /\ master \in Buf /\ UNCHANGED master
  BY <1>1 DEF Firm, PhaseOK, NoFileYet, FileOK, UpdateRecord
<1>p. \A j \in 1 .. Len(drecord) : Placed(j)
  BY <1>1, Places
<1>3. PICK n, o, z, v, L : /\ n = r.name /\ o = r.offset /\ z = r.size
                           /\ v = mem[c.loc] /\ L = StrLen[n]
  OBVIOUS
<1>4. /\ n \in Name /\ z \in Nat /\ o \in Nat /\ L \in Nat
      /\ o = End(i - 1) + L + 8 /\ End(i) = o + z
      /\ End(i) <= End(Len(drecord)) /\ End(i - 1) \in Nat
  BY <1>1, <1>3, <1>p DEF Placed
<1>v. v \in Value
  BY <1>3, CallType DEF Firm, TypeOK
<1>5. n # NULL
  BY <1>4, NameAssumption
<1>6. CASE UNCHANGED <<pc, drecord, bytes>>
  <2>1. Written' = Written
    BY <1>1, <1>6 DEF Written
  <2>2. QED
    BY <1>1, <1>2, <1>6, <2>1, FrameSame DEF Firm
<1>7. CASE /\ n = c.name /\ c.size = z
           /\ drecord' = [drecord EXCEPT ![i].loc = c.loc]
           /\ WriteMaster(o, Data(v, z), "idle")
  <2>1. /\ drecord' \in Seq(Record) /\ Len(drecord') = Len(drecord)
        /\ \A j \in 1 .. Len(drecord) : /\ drecord'[j].name = drecord[j].name
                                       /\ drecord'[j].size = drecord[j].size
                                       /\ drecord'[j].offset = drecord[j].offset
    BY <1>1, <1>7, CallType, MoveRecord
  <2>2. PICK old, new, piece : /\ old = bytes[master] /\ new = bytes'[master]
                               /\ piece = Data(v, z)
    OBVIOUS
  <2>3. pc' = "idle" /\ new = Splice(old, o, piece)
    <3>1. pc' # "oops"
      BY DEF PhaseOK
    <3>2. WriteFault(o, Len(piece)) = "none"
      BY <1>7, <2>2, <3>1, Zenon DEF WriteMaster
    <3>3. /\ pc' = "idle"
          /\ bytes' = [bytes EXCEPT ![master] = Splice(@, o, piece)]
      BY <1>2, <1>7, <2>2, <3>2, Zenon DEF WriteMaster
    <3>4. QED
      BY <1>2, <2>2, <3>3 DEF TypeOK, Firm
  <2>4. IsSeq(old) /\ Len(old) \in Nat /\ Len(old) = End(Len(drecord))
    BY <1>2, <2>2, SeqLen DEF Firm, BlobOK, FileOK
  <2>5. Len(piece) = z /\ Len(piece) \in Nat
    BY <1>4, <2>2, DataLen
  <2>6. Written = Len(drecord) /\ Written' = Len(drecord)
    BY <1>1, <2>1, <2>3 DEF Written
  <2>7. /\ Held(old, 0, Header(Len(drecord)))
        /\ \A j \in 1 .. Len(drecord) :
             WholeIn(old, End(j - 1), drecord[j].name, drecord[j].size)
    BY <1>1, <1>2, <2>2, <2>6 DEF FrameOK, Firm
  <2>8. Held(new, 0, Header(Len(drecord)))
    <3>1. PICK head : head = Header(Len(drecord))
      OBVIOUS
    <3>2. Len(head) = HeaderSize /\ HeaderSize \in Nat
      BY <1>1, <3>1, HeaderLen, HeaderSizeNat
    <3>3. End(0) <= End(i - 1) /\ End(0) = HeaderSize
      BY <1>1, EndsInOrder DEF End
    <3>4. 0 + Len(head) <= o /\ 0 + Len(head) <= Len(old)
      BY <1>4, <2>4, <3>2, <3>3
    <3>5. Held(new, 0, head)
      BY <1>4, <2>3, <2>4, <2>5, <2>7, <3>1, <3>2, <3>4, HeldSpared
    <3>6. QED
      BY <3>1, <3>5
  <2>9. ASSUME NEW j \in 1 .. Len(drecord)
        PROVE  WholeIn(new, End(j - 1), drecord[j].name, drecord[j].size)
    <3>1. PICK e, m, s : e = End(j - 1) /\ m = drecord[j].name /\ s = drecord[j].size
      OBVIOUS
    <3>2. /\ e \in Nat /\ m \in Name /\ s \in Nat /\ StrLen[m] \in Nat
          /\ e + StrLen[m] + 8 + s = End(j) /\ End(j) <= End(Len(drecord))
      BY <1>p, <3>1 DEF Placed
    <3>3. WholeIn(old, e, m, s)
      BY <2>7, <3>1
    <3>4. CASE j = i
      <4>1. e = End(i - 1) /\ m = n /\ s = z
        BY <1>3, <3>1, <3>4
      <4>2. o = e + StrLen[m] + 8 /\ o + s <= Len(old)
        BY <1>3, <1>4, <2>4, <4>1
      <4>3. WholeIn(Splice(old, o, Data(v, s)), e, m, s)
        BY <1>v, <2>4, <3>2, <3>3, <4>2, WholeUpdated
      <4>4. QED
        BY <2>2, <2>3, <3>1, <4>1, <4>3
    <3>5. CASE j < i
      <4>1. End(j) <= End(i - 1)
        <5>1. j \in 0 .. Len(drecord) /\ i - 1 \in j .. Len(drecord)
          BY <1>1, <3>5
        <5>2. QED
          BY <1>1, <5>1, EndsInOrder
      <4>2. e + StrLen[m] + 8 + s <= Len(old) /\ e + StrLen[m] + 8 + s <= o
        <5>1. e + StrLen[m] + 8 + s <= End(i - 1) /\ End(i - 1) <= o
          BY <1>4, <3>2, <4>1
        <5>2. e + StrLen[m] + 8 + s <= Len(old)
          BY <2>4, <3>2
        <5>3. e + StrLen[m] + 8 + s <= o
          <6>0. PICK x, y : x = e + StrLen[m] + 8 + s /\ y = End(i - 1)
            OBVIOUS
          <6>1. x \in Nat /\ y \in Nat /\ o \in Nat
            <7>1. x \in Nat
              BY <3>2, <6>0
            <7>2. y \in Nat /\ o \in Nat
              BY <1>4, <6>0
            <7>3. QED
              BY <7>1, <7>2
          <6>2. x <= y /\ y <= o
            BY <5>1, <6>0
          <6>3. QED
            BY <6>0, <6>1, <6>2
        <5>4. QED
          BY <5>2, <5>3
      <4>3. WholeIn(new, e, m, s)
        BY <1>4, <2>3, <2>4, <2>5, <3>2, <3>3, <4>2, WholeSpared
      <4>4. QED
        BY <3>1, <4>3
    <3>6. CASE i < j
      <4>1. End(i) <= End(j - 1)
        <5>1. i \in 0 .. Len(drecord) /\ j - 1 \in i .. Len(drecord)
          BY <1>1, <3>6
        <5>2. QED
          BY <1>1, <5>1, EndsInOrder
      <4>2. e + StrLen[m] + 8 + s <= Len(old) /\ o + Len(piece) <= e
        BY <1>4, <2>4, <2>5, <3>1, <3>2, <4>1
      <4>3. WholeIn(new, e, m, s)
        BY <1>4, <2>3, <2>4, <2>5, <3>2, <3>3, <4>2, WholeSpared
      <4>4. QED
        BY <3>1, <4>3
    <3>7. QED
      BY <1>1, <3>4, <3>5, <3>6
  <2>10. ASSUME NEW j \in 1 .. Len(drecord)
         PROVE  End(j - 1)' = End(j - 1)
    <3>1. j - 1 = 0 \/ j - 1 \in 1 .. Len(drecord)
      BY <1>1
    <3>2. QED
      BY <2>1, <3>1 DEF End
  <2>11. QED
    BY <1>2, <2>1, <2>2, <2>6, <2>8, <2>9, <2>10 DEF FrameOK
<1>8. QED
  BY <1>0, <1>3, <1>5, <1>6, <1>7, Zenon DEF UpdateRecord

(* At first there is no buffer.                                             *)
LEMMA FrameInit == Init => FrameOK
  BY BufAssumption DEF Init, FrameOK

(* The frame holds after every step.                                        *)
LEMMA FrameNext ==
  ASSUME Firm, FrameOK, [Next]_vars, Contained', PhaseOK'
  PROVE  FrameOK'
<1> USE DEF callVars, listVars, fileVars, blobVars, heapVars
<1>a. TypeOK /\ Contained /\ PhaseOK /\ Len(drecord) \in Nat
  BY DEF Firm, TypeOK
<1>b. pc' # "oops"
  BY DEF PhaseOK
<1>1. CASE DsnapInit \/ CreateBlob \/ InitBlob
  <2>1. pc' \in {"create_blob", "init_blob", "alloc_master"}
    BY <1>1, InitGoesOn
  <2>2. QED
    BY <2>1 DEF FrameOK
<1>2. CASE AllocMaster
  <2>1. pc' = "zero" \/ master' = NULL
    BY <1>2, <1>b DEF AllocMaster, Fault
  <2>2. QED
    BY <2>1, BufAssumption DEF FrameOK
<1>3. CASE ZeroMaster
  <2>1. pc' = "header"
    BY <1>3, <1>b DEF ZeroMaster, WriteMaster
  <2>2. QED
    BY <2>1 DEF FrameOK
<1>4. CASE WriteHeader
  BY <1>4, HeaderFrames
<1>5. CASE WriteRecord
  BY <1>5, WriteFrames
<1>6. CASE PublishData
  <2>1. /\ pc = "record" /\ pc' = "publish_size" /\ curr > Len(drecord) /\ CursorOK
        /\ UNCHANGED <<drecord, master, bytes>>
    BY <1>6, <1>a DEF PublishData, PhaseOK
  <2>2. Written' = Written
    <3>1. curr - 1 = Len(drecord)
      BY <1>a, <2>1 DEF CursorOK, TypeOK
    <3>2. QED
      BY <2>1, <3>1 DEF Written
  <2>3. QED
    BY <1>a, <2>1, <2>2, FrameSame
<1>7. CASE PublishSize
  <2>1. pc = "publish_size" /\ pc' = "idle" /\ UNCHANGED <<drecord, master, bytes>>
    BY <1>7 DEF PublishSize
  <2>2. Written' = Written
    BY <2>1 DEF Written
  <2>3. QED
    BY <1>a, <2>1, <2>2, FrameSame
<1>8. ASSUME NEW c \in Call, UpdateRecord(c)
      PROVE  FrameOK'
  BY <1>8, UpdateFrames
<1>9. ASSUME NEW c \in Call, AddRecord(c)
      PROVE  FrameOK'
  <2>1. pc = "idle" /\ pc' = "create" /\ UNCHANGED <<drecord, master, bytes>>
    BY <1>9 DEF AddRecord
  <2>2. Written' = Written
    BY <2>1 DEF Written
  <2>3. QED
    BY <1>a, <2>1, <2>2, FrameSame
<1>10. CASE UseOfNullFile
  BY <1>10, <1>b DEF UseOfNullFile, Fault
<1>11. CASE CreateRecord
  <2>1. pc = "create" /\ (pc' = "expand" \/ (pc' = "idle" /\ drecord' = drecord))
        /\ UNCHANGED <<master, bytes>>
    BY <1>11, Zenon DEF CreateRecord
  <2>2. CASE pc' = "expand"
    BY <2>2 DEF FrameOK
  <2>3. CASE pc' = "idle" /\ drecord' = drecord
    <3>1. Written' = Written
      BY <2>1, <2>3 DEF Written
    <3>2. QED
      BY <1>a, <2>1, <2>3, <3>1, FrameSame
  <2>4. QED
    BY <2>1, <2>2, <2>3
<1>12. CASE ExpandMaster
  <2>1. pc' = "zero"
    <3>1. "krealloc" \notin failed'
      BY DEF Contained
    <3>2. QED
      BY <1>12, <1>b, <3>1, Zenon DEF ExpandMaster, Fault
  <2>2. QED
    BY <2>1 DEF FrameOK
<1>13. CASE RemoveEntry \/ FreeAll
  <2>1. pc' \in {"free_master", "dead"}
    BY <1>13, <1>b DEF RemoveEntry, FreeAll, Fault
  <2>2. QED
    BY <2>1 DEF FrameOK
<1>14. CASE MemWrite \/ UNCHANGED vars
  <2>1. UNCHANGED <<pc, curr, drecord, master, bytes, failed>>
    BY <1>14 DEF MemWrite, vars
  <2>2. Written' = Written /\ \A i : End(i)' = End(i)
    BY <2>1 DEF Written, End
  <2>3. QED
    BY <2>1, <2>2 DEF FrameOK, Contained
<1>15. QED
  BY <1>1, <1>2, <1>3, <1>4, <1>5, <1>6, <1>7, <1>8, <1>9, <1>10, <1>11,
     <1>12, <1>13, <1>14 DEF Next, DriverStep

(* At first nothing has been set up.                                        *)
LEMMA ShownInit == Init => ShownOK
  BY DEF Init, ShownOK

(* The blob shows the buffer after every step.                              *)
LEMMA ShownNext ==
  ASSUME TypeOK, BlobOK, ShownOK, [Next]_vars,
         failed' = {} => PhaseOK' /\ failed = {}
  PROVE  ShownOK'
<1> USE DEF callVars, listVars, fileVars, blobVars, heapVars
<1> SUFFICES ASSUME failed' = {}
             PROVE  ShownOK'
  BY DEF ShownOK
<1>a. failed = {} /\ pc' # "oops" /\ Contained'
  BY DEF PhaseOK, Contained
<1>1. CASE DsnapInit \/ CreateBlob \/ InitBlob
  <2>1. pc' \in {"create_blob", "init_blob", "alloc_master"}
    BY <1>1, <1>a, InitGoesOn
  <2>2. pc' = "alloc_master" => blobSet'
    <3>1. CASE InitBlob
      BY <3>1 DEF InitBlob
    <3>2. CASE DsnapInit
      BY <2>1, <3>2, Zenon DEF DsnapInit
    <3>3. CASE CreateBlob
      BY <1>a, <3>3, Zenon DEF CreateBlob, Fault
    <3>4. QED
      BY <1>1, <3>1, <3>2, <3>3
  <2>3. QED
    BY <2>1, <2>2 DEF ShownOK
<1>2. CASE AllocMaster
  <2>1. pc = "alloc_master" /\ pc' = "zero" /\ blobSet' = blobSet
    BY <1>2, <1>a, Zenon DEF AllocMaster, Fault
  <2>2. QED
    BY <1>a, <2>1 DEF ShownOK
<1>3. CASE ZeroMaster \/ WriteHeader
  <2>1. /\ pc \in {"zero", "header"} /\ pc' \in {"header", "record"}
        /\ blobSet' = blobSet
    BY <1>3, <1>a DEF ZeroMaster, WriteHeader, WriteMaster
  <2>2. QED
    BY <1>a, <2>1 DEF ShownOK
<1>4. CASE WriteRecord
  <2>1. pc = "record" /\ pc' = "record" /\ blobSet' = blobSet
    BY <1>4, <1>a, Zenon DEF WriteRecord, WriteMaster, Fault
  <2>2. QED
    BY <1>a, <2>1 DEF ShownOK
<1>5. CASE PublishData
  <2>1. pc = "record" /\ pc' = "publish_size" /\ blobSet' = blobSet
    BY <1>5 DEF PublishData
  <2>2. QED
    BY <1>a, <2>1 DEF ShownOK
<1>6. CASE PublishSize
  <2>1. /\ pc = "publish_size" /\ pc' = "idle" /\ blobSize' = tot_size
        /\ UNCHANGED <<blobSet, master, blobData, tot_size>>
    BY <1>6 DEF PublishSize
  <2>2. master \in Buf /\ blobData = master
    BY <2>1 DEF BlobOK
  <2>3. QED
    BY <1>a, <2>1, <2>2 DEF ShownOK
<1>7. ASSUME NEW c \in Call, UpdateRecord(c)
      PROVE  ShownOK'
  <2>1. /\ pc = "idle" /\ pc' = "idle"
        /\ UNCHANGED <<master, tot_size, blobData, blobSize, blobSet>>
    BY <1>7, <1>a, UpdateKeeps DEF UpdateRecord
  <2>2. QED
    BY <1>a, <2>1 DEF ShownOK
<1>8. ASSUME NEW c \in Call, AddRecord(c)
      PROVE  ShownOK'
  <2>1. /\ pc = "idle" /\ pc' = "create"
        /\ UNCHANGED <<master, tot_size, blobData, blobSize, blobSet>>
    BY <1>8 DEF AddRecord
  <2>2. QED
    BY <1>a, <2>1 DEF ShownOK
<1>9. CASE UseOfNullFile
  BY <1>9, <1>a DEF UseOfNullFile, Fault
<1>10. CASE CreateRecord
  <2>1. /\ pc = "create" /\ pc' \in {"idle", "expand"}
        /\ UNCHANGED <<master, tot_size, blobData, blobSize, blobSet>>
    BY <1>10, Zenon DEF CreateRecord
  <2>2. QED
    BY <1>a, <2>1 DEF ShownOK
<1>11. CASE ExpandMaster
  <2>1. pc = "expand" /\ pc' = "zero" /\ blobSet' = blobSet
    BY <1>11, <1>a, Zenon DEF ExpandMaster, Fault
  <2>2. QED
    BY <1>a, <2>1 DEF ShownOK
<1>12. CASE RemoveEntry \/ FreeAll
  <2>1. /\ pc \in {"idle", "free_master"} /\ pc' \in {"free_master", "dead"}
        /\ blobSet' = blobSet
    BY <1>12, <1>a, Zenon DEF RemoveEntry, FreeAll, Fault
  <2>2. QED
    BY <1>a, <2>1 DEF ShownOK
<1>13. CASE MemWrite \/ UNCHANGED vars
  <2>1. UNCHANGED <<pc, master, tot_size, blobData, blobSize, blobSet>>
    BY <1>13 DEF MemWrite, vars
  <2>2. QED
    BY <1>a, <2>1 DEF ShownOK
<1>14. QED
  BY <1>1, <1>2, <1>3, <1>4, <1>5, <1>6, <1>7, <1>8, <1>9, <1>10, <1>11,
     <1>12, <1>13 DEF Next, DriverStep

(* The invariant that the theorems about readFile rest on.                   *)
SnapInv == IInv /\ BlobOK /\ FrameOK /\ ShownOK

(* It holds at first ...                                                    *)
LEMMA SnapInvInit == Init => SnapInv
  BY IInvInit, BlobInit, FrameInit, ShownInit DEF SnapInv

(* ... and every step preserves it.                                         *)
LEMMA SnapInvNext == SnapInv /\ [Next]_vars => SnapInv'
<1> SUFFICES ASSUME SnapInv, [Next]_vars
             PROVE  SnapInv'
  OBVIOUS
<1>1. IInv' /\ BlobOK' /\ TypeOK
  BY IInvNext, BlobNext DEF SnapInv, IInv
<1>2. FrameOK'
  <2>1. CASE Contained'
    <3>1. Contained
      BY <2>1, FailedGrows DEF Contained
    <3>2. Firm /\ PhaseOK'
      BY <1>1, <2>1, <3>1 DEF Firm, SnapInv, IInv
    <3>3. QED
      BY <2>1, <3>2, FrameNext DEF SnapInv
  <2>2. CASE ~Contained'
    BY <2>2 DEF FrameOK
  <2>3. QED
    BY <2>1, <2>2
<1>3. ShownOK'
  <2>1. failed' = {} => Contained' /\ failed = {}
    BY FailedGrows DEF Contained
  <2>2. failed' = {} => PhaseOK' /\ failed = {}
    BY <1>1, <2>1 DEF IInv
  <2>3. QED
    BY <1>1, <2>2, ShownNext DEF SnapInv
<1>4. QED
  BY <1>1, <1>2, <1>3 DEF SnapInv

(* Between two calls the blob shows the master buffer, and in that the heads *)
(* are as the record list says and the records are whole.                    *)
LEMMA IdleFile ==
  ASSUME SnapInv, failed = {}, pc = "idle"
  PROVE  /\ blobSet /\ master \in Buf /\ blobData = master /\ blobSize = tot_size
         /\ TypeOK /\ Chained /\ tot_size = Len(bytes[master])
         /\ HeadsHeld(bytes[master]) /\ tot_size \in Nat
         /\ \A i \in 1 .. Len(drecord) :
              WholeIn(bytes[master], End(i - 1), drecord[i].name, drecord[i].size)
<1>1. Contained /\ TypeOK /\ Chained /\ PhaseOK
  BY DEF SnapInv, IInv, Contained
<1>2. blobSet /\ master \in Buf /\ blobData = master /\ blobSize = tot_size
  BY DEF SnapInv, ShownOK
<1>3. /\ IsSeq(bytes[master]) /\ Len(bytes[master]) = tot_size
      /\ tot_size = End(Len(drecord)) /\ tot_size \in Nat /\ drecord \in Seq(Record)
  BY <1>1, <1>2, BufAssumption DEF PhaseOK, FileOK, NoFileYet, SnapInv, BlobOK, TypeOK
<1>4. Written = Len(drecord) /\ Len(drecord) \in Nat
  BY <1>1 DEF Written, TypeOK
<1>5. /\ Held(bytes[master], 0, Header(Len(drecord)))
      /\ \A i \in 1 .. Len(drecord) :
           WholeIn(bytes[master], End(i - 1), drecord[i].name, drecord[i].size)
  BY <1>1, <1>2, <1>4 DEF SnapInv, FrameOK
<1>6. ASSUME NEW i \in 1 .. Len(drecord)
      PROVE  Held(bytes[master], End(i - 1), RecordHead(drecord[i].name, drecord[i].size))
  <2>1. Placed(i)
    BY <1>1, <1>3, Places
  <2>2. PICK e, n, s : e = End(i - 1) /\ n = drecord[i].name /\ s = drecord[i].size
    OBVIOUS
  <2>3. e \in Nat /\ n \in Name /\ s \in Nat
    BY <2>1, <2>2 DEF Placed
  <2>4. PICK v \in Value : Held(bytes[master], e, RecordHead(n, s) \o Data(v, s))
    BY <1>5, <2>2 DEF WholeIn
  <2>5. QED
    BY <2>2, <2>3, <2>4, WholeHead
<1>7. HeadsHeld(bytes[master])
  BY <1>3, <1>5, <1>6 DEF HeadsHeld
<1>8. QED
  BY <1>1, <1>2, <1>3, <1>5, <1>7

(* A record that is whole is read as the contents of one structure.          *)
WholeData(buf, o, s) == \E v \in Value : SubSeq(buf, o + 1, o + s) = Data(v, s)

LEMMA DataRead ==
  ASSUME NEW buf, IsSeq(buf), NEW e \in Nat, NEW n \in Name, NEW s \in Nat,
         NEW o, o = e + StrLen[n] + 8, o + s <= Len(buf), WholeIn(buf, e, n, s)
  PROVE  WholeData(buf, o, s)
<1>1. PICK v \in Value : Held(buf, e, RecordHead(n, s) \o Data(v, s))
  BY DEF WholeIn
<1>2. StrLen[n] \in Nat
  BY StrLenNat
<1>3. o \in Nat /\ Held(buf, o, Data(v, s))
  BY <1>1, <1>2, WholeHead
<1>4. IsSeq(Data(v, s)) /\ Len(Data(v, s)) = s
  BY DataLen
<1>5. ReadAt(buf, o, s) = Data(v, s)
  <2>1. o + Len(Data(v, s)) <= Len(buf)
    BY <1>4
  <2>2. ReadAt(buf, o, Len(Data(v, s))) = Data(v, s)
    BY <1>3, <1>4, <2>1, ReadIs
  <2>3. QED
    BY <1>4, <2>2
<1>6. ReadAt(buf, o, s) = SubSeq(buf, o + 1, o + s)
  BY <1>3, ReadLen
<1>7. QED
  BY <1>5, <1>6 DEF WholeData

(* Between two calls readFile finds what the record list says.              *)
LEMMA SnapReadable ==
  ASSUME SnapInv, tot_size < U32Limit
  PROVE  SnapshotReadable
<1> SUFFICES ASSUME pc = "idle", failed = {}
             PROVE  LET read == readFile(File)
                    IN  /\ blobSet /\ blobData = master
                        /\ read.ok /\ read.driver = Chars(DirName)
                        /\ Len(read.items) = Len(drecord)
                        /\ \A i \in 1 .. Len(drecord) :
                             /\ read.items[i].name = Chars(drecord[i].name)
                             /\ read.items[i].size = drecord[i].size
                             /\ \E v \in Value : read.items[i].data = Data(v, drecord[i].size)
  BY Zenon DEF SnapshotReadable
<1> DEFINE buf == bytes[master]
           n   == Len(drecord)
<1>1. /\ blobSet /\ blobData = master /\ blobSize = tot_size
      /\ TypeOK /\ Chained /\ tot_size = Len(buf)
      /\ HeadsHeld(buf) /\ tot_size \in Nat
      /\ \A i \in 1 .. n : WholeIn(buf, End(i - 1), drecord[i].name, drecord[i].size)
  BY IdleFile
<1>2. IsSeq(buf) /\ Len(buf) = End(n) /\ n \in Nat /\ drecord \in Seq(Record)
  BY <1>1 DEF HeadsHeld, TypeOK
<1>3. File = buf
  <2>1. File = SubSeq(buf, 1, Len(buf))
    BY <1>1 DEF File
  <2> HIDE DEF buf
  <2>2. QED
    BY <1>2, <2>1 DEF IsSeq
<1> HIDE DEF buf
<1>4. readFile(File) = [ok |-> TRUE, driver |-> Chars(DirName), items |-> ReadItems(buf, n)]
  BY <1>1, <1>2, <1>3, FileReads
<1>5. /\ Len(ReadItems(buf, n)) = n
      /\ \A i \in 1 .. n : ReadItems(buf, n)[i] = ReadItem(buf, i)
  BY <1>2, ItemsRead
<1>6. ASSUME NEW i \in 1 .. n
      PROVE  /\ ReadItem(buf, i).name = Chars(drecord[i].name)
             /\ ReadItem(buf, i).size = drecord[i].size
             /\ \E v \in Value : ReadItem(buf, i).data = Data(v, drecord[i].size)
  <2>1. Placed(i)
    BY <1>1, <1>2, Places
  <2>2. PICK e, m, s, o : /\ e = End(i - 1) /\ m = drecord[i].name /\ s = drecord[i].size
                          /\ o = drecord[i].offset
    OBVIOUS
  <2>3. /\ e \in Nat /\ m \in Name /\ s \in Nat /\ o = e + StrLen[m] + 8
        /\ o + s <= Len(buf)
    BY <1>2, <2>1, <2>2 DEF Placed
  <2>4. WholeIn(buf, e, m, s)
    BY <1>1, <2>2
  <2>5. WholeData(buf, o, s)
    BY <1>2, <2>3, <2>4, DataRead
  <2>6. QED
    BY <2>2, <2>5 DEF ReadItem, WholeData
<1> HIDE DEF n
<1>7. QED
  BY <1>1, <1>4, <1>5, <1>6 DEF n

(* Between two calls of the driver, readFile takes the file for well-formed, *)
(* finds the driver's name and as many items as there are records, each with *)
(* its record's name and size and with the contents of one structure, not a  *)
(* mixture (dsnap_construct_blob and readFile agree on the format).  The     *)
(* proviso is the format's: its counts and lengths are u32.                  *)
THEOREM SnapshotReads == Spec => [](tot_size < U32Limit => SnapshotReadable)
<1>1. SnapInv => (tot_size < U32Limit => SnapshotReadable)
  BY SnapReadable
<1>2. QED
  BY SnapInvInit, SnapInvNext, <1>1, PTL DEF Spec

-----------------------------------------------------------------------------
(* A file that was read while the driver updated records in place.           *)

(* Does the k-th byte belong to the data of a record that was updated?       *)
InUpdated(k) ==
  \E j \in 1 .. Len(drecord) :
    /\ drecord[j].name \in updated
    /\ drecord[j].offset < k /\ k <= drecord[j].offset + drecord[j].size

(* What has been read so far is the master buffer's, but for such bytes.     *)
CopyOK ==
  (failed = {} /\ ~disturbed /\ rpc \in {"open", "fetched", "done"}) =>
    /\ pc = "idle" /\ Len(out) <= tot_size
    /\ \A k \in 1 .. Len(out) : out[k] = bytes[master][k] \/ InUpdated(k)
    /\ rpc = "fetched" => rdata = master /\ rsize = tot_size
    /\ rpc = "done" => Len(out) = tot_size

(* No file has been read at first.                                          *)
LEMMA CopyInit == ReaderInit => CopyOK
  BY DEF ReaderInit, CopyOK

(* One read(2).                                                              *)
LEMMA CopyCopies ==
  ASSUME SnapInv, ReaderOK, CopyOK, Copy
  PROVE  CopyOK'
<1> SUFFICES ASSUME failed' = {}, ~disturbed', rpc' \in {"open", "fetched", "done"}
             PROVE  CopyOK'
  BY Zenon DEF CopyOK
<1>1. /\ rpc = "fetched" /\ UNCHANGED <<vars, rdata, rsize, disturbed, updated>>
      /\ ReadFault = "none"
  BY DEF Copy
<1>2. UNCHANGED <<pc, drecord, tot_size, master, bytes, failed>>
  BY <1>1 DEF vars
<1>3. /\ failed = {} /\ ~disturbed /\ pc = "idle" /\ Len(out) <= tot_size
      /\ \A k \in 1 .. Len(out) : out[k] = bytes[master][k] \/ InUpdated(k)
      /\ rdata = master /\ rsize = tot_size
  BY <1>1, <1>2 DEF CopyOK
<1>4. /\ tot_size \in Nat /\ tot_size = Len(bytes[master]) /\ IsSeq(bytes[master])
  BY <1>3, IdleFile DEF HeadsHeld
<1>5. /\ Len(out) \in Nat /\ Wanted \in Nat /\ (Wanted # 0 => Len(out) + Wanted <= rsize)
      /\ (Wanted = 0 => rsize <= Len(out))
  <2>1. Len(out) \in Nat /\ rsize \in Nat /\ Chunk \in Nat \ {0}
    BY SeqLen, ChunkAssumption DEF ReaderOK
  <2>2. QED
    BY <2>1 DEF Wanted
<1>6. \A k : InUpdated(k)' = InUpdated(k)
  BY <1>1, <1>2 DEF InUpdated
<1>7. CASE Wanted = 0
  <2>1. rpc' = "done" /\ out' = out
    BY <1>1, <1>7 DEF Copy
  <2>2. Len(out) = tot_size
    BY <1>3, <1>4, <1>5, <1>7
  <2>3. QED
    BY <1>2, <1>3, <1>6, <2>1, <2>2 DEF CopyOK
<1>8. CASE Wanted # 0
  <2> DEFINE part == SubSeq(bytes[master], Len(out) + 1, Len(out) + Wanted)
  <2>1. rpc' = "open" /\ out' = out \o part
    BY <1>1, <1>3, <1>8 DEF Copy
  <2>2. Len(out) + Wanted <= Len(bytes[master])
    BY <1>3, <1>4, <1>5, <1>8
  <2>3. IsSeq(part) /\ Len(part) = Wanted
    BY <1>4, <1>5, <2>2, PartSeq
  <2>4. \A k \in 1 .. Wanted : part[k] = bytes[master][Len(out) + k]
    <3>1. PICK S : bytes[master] \in Seq(S)
      BY <1>4 DEF IsSeq
    <3>2. QED
      BY <1>5, <2>2, <3>1
  <2> HIDE DEF part
  <2>5. PICK S : out \in Seq(S)
    BY DEF ReaderOK, IsSeq
  <2>6. PICK P : part \in Seq(P)
    BY <2>3 DEF IsSeq
  <2>7. out \in Seq(S \cup P) /\ part \in Seq(S \cup P)
    BY <2>5, <2>6
  <2>8. /\ Len(out') = Len(out) + Wanted
        /\ \A k \in 1 .. Len(out) : out'[k] = out[k]
        /\ \A k \in 1 .. Wanted : out'[Len(out) + k] = part[k]
    <3>1. /\ Len(out \o part) = Len(out) + Len(part)
          /\ \A k \in 1 .. Len(out) : (out \o part)[k] = out[k]
          /\ \A k \in 1 .. Len(part) : (out \o part)[Len(out) + k] = part[k]
      BY <2>7
    <3>2. QED
      BY <2>1, <2>3, <3>1
  <2>9. ASSUME NEW k \in 1 .. Len(out')
        PROVE  out'[k] = bytes[master][k] \/ InUpdated(k)
    <3>1. CASE k <= Len(out)
      BY <1>3, <1>5, <2>8, <3>1
    <3>2. CASE Len(out) < k
      <4>1. PICK x \in 1 .. Wanted : k = Len(out) + x
        <5>1. k - Len(out) \in 1 .. Wanted /\ k = Len(out) + (k - Len(out))
          BY <1>5, <2>8, <3>2
        <5>2. QED
          BY <5>1
      <4>2. QED
        BY <2>4, <2>8, <4>1
    <3>3. QED
      BY <1>5, <2>8, <3>1, <3>2
  <2>10. Len(out') <= tot_size
    BY <1>3, <1>4, <1>5, <1>8, <2>8
  <2>11. QED
    BY <1>2, <1>3, <1>6, <2>1, <2>9, <2>10 DEF CopyOK
<1>9. QED
  BY <1>7, <1>8

(* Moving a record in memory changes nothing that the file shows of it.     *)
LEMMA RecordMoved ==
  ASSUME drecord \in Seq(Record), NEW i \in Nat, NEW l \in Loc,
         drecord' = [drecord EXCEPT ![i].loc = l]
  PROVE  /\ drecord' \in Seq(Record) /\ Len(drecord') = Len(drecord)
         /\ \A j \in 1 .. Len(drecord) : /\ drecord'[j].name = drecord[j].name
                                        /\ drecord'[j].size = drecord[j].size
                                        /\ drecord'[j].offset = drecord[j].offset
<1> DEFINE n == Len(drecord)
<1>1. n \in Nat /\ drecord \in [1 .. n -> Record]
  OBVIOUS
<1>2. \A r \in Record : [r EXCEPT !.loc = l] \in Record
  BY DEF Record
<1>3. drecord' \in [1 .. n -> Record]
  BY <1>1, <1>2
<1>4. drecord' \in Seq(Record) /\ Len(drecord') = n
  BY <1>1, <1>3, FunctionLen
<1>5. ASSUME NEW j \in 1 .. n
      PROVE  /\ drecord'[j].name = drecord[j].name
             /\ drecord'[j].size = drecord[j].size
             /\ drecord'[j].offset = drecord[j].offset
  BY <1>1 DEF Record
<1>6. QED
  BY <1>4, <1>5

(* An update in place changes its record's data and nothing else.            *)
LEMMA UpdateSpares ==
  ASSUME SnapInv, failed = {}, pc = "idle", NEW c \in Call, UpdateRecord(c), pc' # "oops"
  PROVE  /\ pc' = "idle" /\ Len(drecord') = Len(drecord)
         /\ UNCHANGED <<master, tot_size, blobData, blobSize, failed>>
         /\ \A j \in 1 .. Len(drecord) : /\ drecord'[j].name = drecord[j].name
                                         /\ drecord'[j].size = drecord[j].size
                                         /\ drecord'[j].offset = drecord[j].offset
         /\ \A k \in 1 .. tot_size :
              \/ bytes'[master][k] = bytes[master][k]
              \/ \E j \in 1 .. Len(drecord) :
                   /\ drecord[j].name = c.name
                   /\ drecord[j].offset < k /\ k <= drecord[j].offset + drecord[j].size
<1>1. /\ master \in Buf /\ TypeOK /\ Chained /\ tot_size = Len(bytes[master])
      /\ HeadsHeld(bytes[master]) /\ tot_size \in Nat /\ BlobOK
  BY IdleFile DEF SnapInv
<1>2. /\ pc' = "idle" /\ UNCHANGED <<master, tot_size, blobData, blobSize, failed>>
  BY <1>1, UpdateKeeps DEF UpdateRecord
<1>3. PICK i : i = FindRecord(c.name)
  OBVIOUS
<1>4. i \in 1 .. Len(drecord) /\ drecord \in Seq(Record) /\ Len(drecord) \in Nat
  BY <1>1, <1>3, FindRecordType DEF UpdateRecord, TypeOK
<1>5. PICK n, o, z, v : /\ n = drecord[i].name /\ o = drecord[i].offset
                        /\ z = drecord[i].size /\ v = mem[c.loc]
  OBVIOUS
<1>6. n \in Name /\ z \in Nat /\ o \in Nat /\ n # NULL
  BY <1>1, <1>4, <1>5, Places, NameAssumption DEF Placed
<1>7. CASE UNCHANGED <<drecord, bytes>>
  BY <1>2, <1>7
<1>8. CASE /\ n = c.name /\ c.size = z
           /\ drecord' = [drecord EXCEPT ![i].loc = c.loc]
           /\ WriteMaster(o, Data(v, z), "idle")
  <2>1. /\ drecord' \in Seq(Record) /\ Len(drecord') = Len(drecord)
        /\ \A j \in 1 .. Len(drecord) : /\ drecord'[j].name = drecord[j].name
                                       /\ drecord'[j].size = drecord[j].size
                                       /\ drecord'[j].offset = drecord[j].offset
    <3>1. i \in Nat /\ c.loc \in Loc /\ drecord \in Seq(Record)
      BY <1>4, CallType
    <3>2. drecord' = [drecord EXCEPT ![i].loc = c.loc]
      BY <1>8
    <3>3. QED
      BY <3>1, <3>2, RecordMoved
  <2>2. PICK old, piece : old = bytes[master] /\ piece = Data(v, z)
    OBVIOUS
  <2>3. Len(piece) = z /\ IsSeq(old) /\ Len(old) = tot_size
    BY <1>1, <1>6, <2>2, DataLen DEF HeadsHeld
  <2>4. bytes'[master] = Splice(old, o, piece)
    <3>1. WriteFault(o, Len(piece)) = "none"
      BY <1>8, <2>2, Zenon DEF WriteMaster
    <3>2. bytes' = [bytes EXCEPT ![master] = Splice(@, o, piece)]
      BY <1>1, <1>8, <2>2, <3>1, Zenon DEF WriteMaster
    <3>3. QED
      BY <1>1, <2>2, <3>2 DEF TypeOK
  <2>5. ASSUME NEW k \in 1 .. tot_size, ~(o < k /\ k <= o + z)
        PROVE  bytes'[master][k] = old[k]
    <3>1. k \in 1 .. Len(old) /\ (k <= o \/ o + Len(piece) < k) /\ Len(piece) \in Nat
      BY <1>1, <1>6, <2>3, <2>5
    <3>2. Splice(old, o, piece)[k] = old[k]
      BY <1>6, <2>3, <3>1, SplicedRest
    <3>3. QED
      BY <2>4, <3>2
  <2>6. \A k \in 1 .. tot_size :
          \/ bytes'[master][k] = bytes[master][k]
          \/ \E j \in 1 .. Len(drecord) :
               /\ drecord[j].name = c.name
               /\ drecord[j].offset < k /\ k <= drecord[j].offset + drecord[j].size
    BY <1>4, <1>5, <1>8, <2>2, <2>5
  <2>7. QED
    BY <1>2, <2>1, <2>6
<1>9. CASE UNCHANGED <<drecord, bytes>> \/ Fault("null")
  BY <1>7, <1>9 DEF Fault
<1>10. QED
  BY <1>3, <1>5, <1>6, <1>8, <1>9, Zenon DEF UpdateRecord

(* Every step preserves it.                                                 *)
LEMMA CopyNext ==
  ASSUME SnapInv, SnapInv', ReaderOK, CopyOK, [ReaderNext]_allVars
  PROVE  CopyOK'
<1> SUFFICES ASSUME failed' = {}, ~disturbed', rpc' \in {"open", "fetched", "done"}
             PROVE  CopyOK'
  BY Zenon DEF CopyOK
<1> USE DEF allVars, readerVars
<1>a. failed = {} /\ pc' # "oops"
  <2>1. [Next]_vars
    BY ReaderStepsAreSteps
  <2>2. failed = {}
    BY <2>1, FailedGrows
  <2>3. QED
    BY <2>2 DEF SnapInv, IInv, Contained, PhaseOK
<1>1. CASE Open
  <2>1. rpc' = "open" /\ out' = <<>> /\ pc = "idle" /\ UNCHANGED <<pc, tot_size>>
    BY <1>1 DEF Open, vars
  <2>2. Len(out') = 0 /\ tot_size \in Nat
    BY <1>a, <2>1, IdleFile, EmptySeq
  <2>3. QED
    BY <2>1, <2>2 DEF CopyOK
<1>2. CASE Fetch
  <2>1. /\ rpc = "open" /\ rpc' = "fetched" /\ rdata' = blobData /\ rsize' = blobSize
        /\ UNCHANGED <<pc, drecord, tot_size, master, bytes, out, disturbed, updated>>
    BY <1>2 DEF Fetch, vars
  <2>2. /\ pc = "idle" /\ Len(out) <= tot_size
        /\ \A k \in 1 .. Len(out) : out[k] = bytes[master][k] \/ InUpdated(k)
    BY <1>a, <2>1 DEF CopyOK
  <2>3. blobData = master /\ blobSize = tot_size
    BY <1>a, <2>2, IdleFile
  <2>4. \A k : InUpdated(k)' = InUpdated(k)
    BY <2>1 DEF InUpdated
  <2>5. QED
    BY <2>1, <2>2, <2>3, <2>4 DEF CopyOK
<1>3. CASE Copy
  BY <1>3, CopyCopies
<1>4. CASE Close
  BY <1>4 DEF Close, CopyOK
<1>5. ASSUME NEW c \in Call, UpdateRecord(c), Watched({c.name}, FALSE)
      PROVE  CopyOK'
  <2>1. /\ UNCHANGED <<rpc, rdata, rsize, out>> /\ updated' = updated \cup {c.name}
        /\ ~disturbed
    BY <1>5 DEF Watched
  <2>2. /\ pc = "idle" /\ Len(out) <= tot_size
        /\ \A k \in 1 .. Len(out) : out[k] = bytes[master][k] \/ InUpdated(k)
        /\ rpc = "fetched" => rdata = master /\ rsize = tot_size
        /\ rpc = "done" => Len(out) = tot_size
    BY <1>a, <2>1 DEF CopyOK
  <2>3. /\ pc' = "idle" /\ Len(drecord') = Len(drecord)
        /\ UNCHANGED <<master, tot_size>>
        /\ \A j \in 1 .. Len(drecord) : /\ drecord'[j].name = drecord[j].name
                                        /\ drecord'[j].size = drecord[j].size
                                        /\ drecord'[j].offset = drecord[j].offset
        /\ \A k \in 1 .. tot_size :
             \/ bytes'[master][k] = bytes[master][k]
             \/ \E j \in 1 .. Len(drecord) :
                  /\ drecord[j].name = c.name
                  /\ drecord[j].offset < k /\ k <= drecord[j].offset + drecord[j].size
    BY <1>a, <1>5, <2>2, UpdateSpares
  <2>4. ASSUME NEW k \in 1 .. Len(out)
        PROVE  out[k] = bytes'[master][k] \/ InUpdated(k)'
    <3>1. CASE InUpdated(k)
      BY <2>1, <2>3, <3>1 DEF InUpdated
    <3>2. CASE out[k] = bytes[master][k]
      <4>1. k \in 1 .. tot_size
        <5>1. Len(out) \in Nat /\ tot_size \in Nat
          BY <1>a, <2>2, SeqLen, IdleFile DEF ReaderOK
        <5>2. QED
          BY <2>2, <5>1
      <4>2. QED
        BY <2>1, <2>3, <3>2, <4>1 DEF InUpdated
    <3>3. QED
      BY <2>2, <3>1, <3>2
  <2>5. QED
    BY <2>1, <2>2, <2>3, <2>4 DEF CopyOK
<1>6. CASE OtherCall /\ Watched({}, TRUE)
  BY <1>6 DEF Watched
<1>7. CASE (MemWrite /\ UNCHANGED readerVars) \/ UNCHANGED allVars
  <2>1. UNCHANGED <<pc, drecord, tot_size, master, bytes, failed, rpc, rdata, rsize, out,
                    disturbed, updated>>
    BY <1>7 DEF MemWrite, vars, fileVars, listVars, heapVars
  <2>2. \A k : InUpdated(k)' = InUpdated(k)
    BY <2>1 DEF InUpdated
  <2>3. QED
    BY <2>1, <2>2 DEF CopyOK
<1>8. QED
  BY <1>1, <1>2, <1>3, <1>4, <1>5, <1>6, <1>7 DEF ReaderNext, ReaderStep

(* Data of one record only lies in that record.                              *)
LEMMA Apart ==
  ASSUME drecord \in Seq(Record), Chained, NEW i \in 1 .. Len(drecord),
         NEW j \in 1 .. Len(drecord), NEW k \in Nat, End(i - 1) < k, k <= End(i),
         drecord[j].offset < k, k <= drecord[j].offset + drecord[j].size
  PROVE  j = i
<1>1. Placed(i) /\ Placed(j)
  BY Places
<1>2. /\ End(i) = drecord[i].offset + drecord[i].size /\ End(i - 1) \in Nat
      /\ drecord[i].offset \in Nat /\ drecord[i].size \in Nat
      /\ End(j) = drecord[j].offset + drecord[j].size /\ End(j - 1) \in Nat
      /\ drecord[j].offset \in Nat /\ drecord[j].size \in Nat
      /\ End(j - 1) <= drecord[j].offset
  BY <1>1 DEF Placed
<1>3. Len(drecord) \in Nat
  OBVIOUS
<1>4. CASE j < i
  <2>1. j \in 0 .. Len(drecord) /\ i - 1 \in j .. Len(drecord)
    BY <1>3, <1>4
  <2>2. End(j) <= End(i - 1)
    BY <2>1, EndsInOrder
  <2>3. QED
    BY <1>2, <2>2
<1>5. CASE i < j
  <2>1. i \in 0 .. Len(drecord) /\ j - 1 \in i .. Len(drecord)
    BY <1>3, <1>5
  <2>2. End(i) <= End(j - 1)
    BY <2>1, EndsInOrder
  <2>3. PICK a, b, c : a = End(i) /\ b = End(j - 1) /\ c = drecord[j].offset
    OBVIOUS
  <2>4. a \in Nat /\ b \in Nat /\ c \in Nat /\ a <= b /\ b <= c /\ c < k /\ k <= a
    <3>1. a \in Nat
      BY <2>3, EndNat
    <3>2. b \in Nat /\ c \in Nat /\ b <= c
      BY <1>2, <2>3
    <3>3. a <= b
      BY <2>2, <2>3, Zenon
    <3>4. c < k /\ k <= a
      BY <2>3
    <3>5. QED
      BY <3>1, <3>2, <3>3, <3>4
  <2>5. QED
    BY <2>4
<1>6. QED
  BY <1>3, <1>4, <1>5

(* A file read to its end is read like the buffer, but for updated data.    *)
LEMMA CopyReads ==
  ASSUME SnapInv, ReaderOK, CopyOK, tot_size < U32Limit
  PROVE  ReadIntact
<1> SUFFICES ASSUME rpc = "done", ~disturbed, failed = {}
             PROVE  LET read == readFile(out)
                        now  == readFile(bytes[master])
                    IN  /\ read.ok /\ Len(read.items) = Len(drecord)
                        /\ \A i \in 1 .. Len(drecord) :
                             /\ read.items[i].name = Chars(drecord[i].name)
                             /\ read.items[i].size = drecord[i].size
                             /\ drecord[i].name \notin updated => read.items[i] = now.items[i]
  BY Zenon DEF ReadIntact
<1> DEFINE buf == bytes[master]
           n   == Len(drecord)
<1>1. /\ pc = "idle" /\ Len(out) = tot_size
      /\ \A k \in 1 .. Len(out) : out[k] = buf[k] \/ InUpdated(k)
  BY DEF CopyOK
<1>2. /\ Chained /\ tot_size = Len(buf) /\ HeadsHeld(buf) /\ tot_size \in Nat
      /\ drecord \in Seq(Record)
  BY <1>1, IdleFile DEF TypeOK
<1> HIDE DEF buf
<1>3. IsSeq(out) /\ IsSeq(buf) /\ Len(buf) = End(n) /\ Len(out) = End(n) /\ n \in Nat
  BY <1>1, <1>2 DEF ReaderOK, HeadsHeld
<1>4. \A j \in 1 .. n : Placed(j)
  BY <1>2, Places
<1>5. Held(out, 0, Header(n))
  <2> SUFFICES ASSUME NEW k \in 1 .. Len(Header(n))
               PROVE  out[0 + k] = Header(n)[k]
    BY DEF Held
  <2>1. Len(Header(n)) = HeaderSize /\ HeaderSize \in Nat /\ End(0) = HeaderSize
    BY <1>3, HeaderLen, HeaderSizeNat DEF End
  <2>2. End(0) <= End(n)
    BY <1>2, <1>3, EndsInOrder
  <2>3. k \in 1 .. Len(out) /\ 0 + k = k
    BY <1>1, <1>2, <1>3, <2>1, <2>2
  <2>4. ~InUpdated(k)
    <3> SUFFICES ASSUME NEW j \in 1 .. n, drecord[j].offset < k
                 PROVE  FALSE
      BY DEF InUpdated
    <3>1. End(0) <= End(j - 1)
      <4>1. 0 \in 0 .. n /\ j - 1 \in 0 .. n
        BY <1>3
      <4>2. QED
        BY <1>2, <4>1, EndsInOrder
    <3>2. End(j - 1) <= drecord[j].offset /\ End(j - 1) \in Nat /\ drecord[j].offset \in Nat
      <4>1. /\ drecord[j].offset = End(j - 1) + StrLen[drecord[j].name] + 8
            /\ StrLen[drecord[j].name] \in Nat /\ End(j - 1) \in Nat
        BY <1>4, Zenon DEF Placed
      <4>2. QED
        BY <4>1
    <3>3. QED
      BY <2>1, <3>1, <3>2
  <2>5. buf[0 + k] = Header(n)[k]
    BY <1>2 DEF HeadsHeld, Held
  <2>6. QED
    BY <1>1, <2>3, <2>4, <2>5
<1>6. ASSUME NEW i \in 1 .. n
      PROVE  Held(out, End(i - 1), RecordHead(drecord[i].name, drecord[i].size))
  <2>1. PICK e, m, s, o : /\ e = End(i - 1) /\ m = drecord[i].name /\ s = drecord[i].size
                          /\ o = drecord[i].offset
    OBVIOUS
  <2>2. /\ e \in Nat /\ m \in Name /\ s \in Nat /\ StrLen[m] \in Nat /\ o \in Nat
        /\ o = e + StrLen[m] + 8 /\ End(i) = o + s /\ End(i) <= End(n)
    BY <1>4, <2>1 DEF Placed
  <2>3. Len(RecordHead(m, s)) = StrLen[m] + 8
    BY <2>2, HeadLen
  <2>4. Held(buf, e, RecordHead(m, s))
    BY <1>2, <2>1 DEF HeadsHeld
  <2>5. ASSUME NEW k \in 1 .. StrLen[m] + 8
        PROVE  out[e + k] = buf[e + k]
    <3>1. e + k \in 1 .. Len(out) /\ e + k \in Nat /\ e < e + k /\ e + k <= o /\ o <= End(i)
      <4>1. e \in Nat /\ o \in Nat /\ s \in Nat /\ StrLen[m] \in Nat /\ k \in Nat \ {0}
            /\ k <= StrLen[m] + 8 /\ o = e + StrLen[m] + 8
        BY <2>2
      <4>2. End(i) = o + s /\ End(i) <= End(n)
        BY <2>2
      <4>3. e + k \in Nat \ {0} /\ e < e + k /\ e + k <= o /\ o <= o + s
        BY <4>1
      <4>4. Len(out) = End(n)
        BY <1>3
      <4>5. o + s \in Nat /\ o + s <= End(n) /\ o <= End(i)
        BY <4>1, <4>2, <4>3
      <4>6. e + k <= Len(out) /\ Len(out) \in Nat
        BY <1>3, <4>1, <4>2, <4>3, <4>4
      <4>7. QED
        BY <4>3, <4>5, <4>6
    <3>2. ~InUpdated(e + k)
      <4> SUFFICES ASSUME NEW j \in 1 .. n, drecord[j].offset < e + k,
                          e + k <= drecord[j].offset + drecord[j].size
                   PROVE  FALSE
        BY DEF InUpdated
      <4>1. End(i - 1) < e + k /\ e + k <= End(i)
        BY <2>1, <2>2, <3>1
      <4>2. j = i
        BY <1>2, <3>1, <4>1, Apart
      <4>3. o < e + k
        BY <2>1, <4>2
      <4>4. QED
        BY <2>2, <3>1, <4>3
    <3>3. QED
      BY <1>1, <3>1, <3>2
  <2>6. QED
    BY <2>1, <2>3, <2>4, <2>5 DEF Held
<1>7. HeadsHeld(out)
  BY <1>3, <1>5, <1>6 DEF HeadsHeld
<1>8. /\ readFile(out) = [ok |-> TRUE, driver |-> Chars(DirName), items |-> ReadItems(out, n)]
      /\ readFile(buf) = [ok |-> TRUE, driver |-> Chars(DirName), items |-> ReadItems(buf, n)]
  BY <1>1, <1>2, <1>7, FileReads
<1>9. /\ Len(ReadItems(out, n)) = n
      /\ \A i \in 1 .. n : ReadItems(out, n)[i] = ReadItem(out, i)
      /\ \A i \in 1 .. n : ReadItems(buf, n)[i] = ReadItem(buf, i)
  BY <1>3, ItemsRead
<1>10. \A i \in 1 .. n : /\ ReadItem(out, i).name = Chars(drecord[i].name)
                         /\ ReadItem(out, i).size = drecord[i].size
  BY DEF ReadItem
<1>11. ASSUME NEW i \in 1 .. n, drecord[i].name \notin updated
       PROVE  ReadItem(out, i) = ReadItem(buf, i)
  <2>1. PICK e, s, o : /\ e = End(i - 1) /\ s = drecord[i].size /\ o = drecord[i].offset
    OBVIOUS
  <2>2. /\ e \in Nat /\ s \in Nat /\ o \in Nat /\ e <= o
        /\ End(i) = o + s /\ End(i) <= End(n)
    <3>1. PICK l : l = StrLen[drecord[i].name]
      OBVIOUS
    <3>2. /\ e \in Nat /\ s \in Nat /\ o \in Nat /\ l \in Nat /\ o = e + l + 8
          /\ End(i) = o + s /\ End(i) <= End(n)
      BY <1>4, <2>1, <3>1 DEF Placed
    <3>3. QED
      BY <3>2
  <2>3. ASSUME NEW k \in o + 1 .. o + s
        PROVE  out[k] = buf[k]
    <3>1. k \in 1 .. Len(out) /\ k \in Nat /\ e < k /\ k <= End(i)
      BY <1>3, <2>2
    <3>2. ~InUpdated(k)
      <4> SUFFICES ASSUME NEW j \in 1 .. n, drecord[j].name \in updated,
                          drecord[j].offset < k,
                          k <= drecord[j].offset + drecord[j].size
                   PROVE  FALSE
        BY DEF InUpdated
      <4>1. j = i
        BY <1>2, <2>1, <3>1, Apart
      <4>2. QED
        BY <1>11, <4>1
    <3>3. QED
      BY <1>1, <3>1, <3>2
  <2>4. SubSeq(out, o + 1, o + s) = SubSeq(buf, o + 1, o + s)
    <3>1. o + 1 \in Nat \ {0} /\ o + s \in Nat /\ o + s <= Len(out) /\ o + s <= Len(buf)
      BY <1>3, <2>2
    <3>2. QED
      BY <1>3, <2>3, <3>1, SamePart
  <2>5. QED
    BY <2>1, <2>4 DEF ReadItem
<1> HIDE DEF n
<1>12. QED
  BY <1>8, <1>9, <1>10, <1>11 DEF n, buf

(* A file that was read in pieces while the driver updated records in place  *)
(* is well-formed, names every record at its size, and has whole contents of *)
(* every record that was not updated meanwhile (dsnap_update_record copies   *)
(* into the buffer under the reader).                                        *)
THEOREM ReadingIntact == ReaderSpec => [](tot_size < U32Limit => ReadIntact)
<1> DEFINE Inv == SnapInv /\ ReaderOK /\ CopyOK
<1>1. ReaderInit => Inv
  BY SnapInvInit, ReaderInitOK, CopyInit DEF ReaderInit
<1>2. Inv /\ [ReaderNext]_allVars => Inv'
  <2> SUFFICES ASSUME Inv, [ReaderNext]_allVars
               PROVE  Inv'
    OBVIOUS
  <2>1. SnapInv'
    BY ReaderStepsAreSteps, SnapInvNext
  <2>2. TypeOK /\ BlobOK
    BY DEF SnapInv, IInv
  <2>3. ReaderOK'
    BY <2>2, ReaderNextOK
  <2>4. CopyOK'
    BY <2>1, CopyNext
  <2>5. QED
    BY <2>1, <2>3, <2>4
<1>3. Inv => (tot_size < U32Limit => ReadIntact)
  BY CopyReads
<1> HIDE DEF Inv
<1>4. QED
  BY <1>1, <1>2, <1>3, PTL DEF ReaderSpec

-----------------------------------------------------------------------------
(* The directory of one driver and the files of its adapters.               *)

(* The adapters are all of one driver, and each has a file name of its own,  *)
(* as its bus, slot and function are its own.  (With a second driver         *)
(* debugfs_root is the directory of whoever came last.)                      *)
OneDriverOwnNames ==
  /\ \A a, b \in Adapter : DriverOf[a] = DriverOf[b]
  /\ \A a, b \in Adapter : FileName[a] = FileName[b] => a = b

-----------------------------------------------------------------------------
(* A debugfs call returns a dentry, NULL or an error.                        *)
DirPointer == Nat \cup {NoDentry, ERR}

DirsTypes ==
  /\ enabled \in BOOLEAN /\ overlap \in BOOLEAN /\ dirsFault \in {"none", "freed_dentry"}
  /\ debugfs_root \in DirPointer /\ entry \in [Adapter -> DirPointer]
  /\ call \in [Adapter -> {"absent", "init", "cleanup", "bound"}]

(* Dentries are handed out in order, and not again.                          *)
Dentries ==
  /\ \E n \in Nat : DOMAIN tree \cup gone = 1..n
  /\ DOMAIN tree \cap gone = {}
  /\ ~enabled => DOMAIN tree = {} /\ gone = {}

(* What there is: the directory that debugfs_root points to, and in it the   *)
(* file of each adapter that is bound.                                       *)
IsDirFile(d, a) ==
  /\ call[a] = "bound" /\ entry[a] = d
  /\ tree[d] = [name |-> FileName[a], dir |-> debugfs_root]

DirContents ==
  /\ \A d \in DOMAIN tree :
       /\ debugfs_root \in DOMAIN tree
       /\ \/ d = debugfs_root /\ \A a \in Adapter : tree[d] = [name |-> DriverOf[a], dir |-> NoDentry]
          \/ d # debugfs_root /\ \E a \in Adapter : IsDirFile(d, a)
  /\ \A a \in Adapter : call[a] = "bound" /\ enabled =>
                           entry[a] \in DOMAIN tree /\ IsDirFile(entry[a], a)

(* While an adapter is not absent the directory is there, or was removed by  *)
(* another one's dsnap_cleanup; when all are absent it is not there.         *)
DirInUse ==
  /\ \A a \in Adapter : call[a] # "absent" /\ enabled => debugfs_root \in DOMAIN tree \cup gone
  /\ DOMAIN tree # {} => \E a \in Adapter : call[a] # "absent"

(* Calls that do not overlap find it there.                                  *)
DirBusy(a) == call[a] \in {"init", "cleanup"}
DirsSerial ==
  ~overlap =>
    /\ dirsFault = "none"
    /\ \A a, b \in Adapter : DirBusy(a) /\ DirBusy(b) => a = b
    /\ \A a \in Adapter : DirBusy(a) /\ enabled => debugfs_root \in DOMAIN tree

DirsInv == DirsTypes /\ Dentries /\ DirContents /\ DirInUse /\ DirsSerial

-----------------------------------------------------------------------------
(* What NULL and an error are not.                                           *)
LEMMA DirPointers == NoDentry # ERR /\ NoDentry \notin Nat /\ ERR \notin Nat
<1>1. NoDentry # ERR /\ {NoDentry, ERR} \cap Nat = {}
  BY DentryAssumption
<1> QED
  BY <1>1

(* A fresh dentry is none that there is or was.                              *)
LEMMA FreshDentry ==
  ASSUME Dentries, NEW d \in Fresh
  PROVE  /\ d \in Nat /\ d \notin DOMAIN tree /\ d \notin gone
         /\ \E n \in Nat : (DOMAIN tree \cup {d}) \cup gone = 1..n
<1>1. PICK n \in Nat : DOMAIN tree \cup gone = 1..n
  BY DEF Dentries
<1>2. Cardinality(1..n) = n
  <2>1. Cardinality(1..n) = IF 1 > n THEN 0 ELSE n - 1 + 1
    BY FS_Interval
  <2> QED
    BY <2>1
<1>3. d = n + 1
  BY <1>1, <1>2 DEF Fresh
<1>4. (DOMAIN tree \cup {d}) \cup gone = 1..(n + 1)
  <2>1. 1..(n + 1) = (1..n) \cup {n + 1}
    OBVIOUS
  <2> QED
    BY <1>1, <1>3, <2>1
<1>5. d \notin 1..n /\ n + 1 \in Nat
  BY <1>3
<1> QED
  BY <1>1, <1>3, <1>4, <1>5

(* What a dentry that is created is, and that nothing else changes.          *)
LEMMA CreatedDentry ==
  ASSUME DirsInv, NEW d, NEW name, NEW dir, CreateDentry(d, name, dir)
  PROVE  /\ d \in DirPointer
         /\ \/ ~enabled /\ d = ERR /\ tree' = tree
            \/ enabled /\ Exists(name, dir) /\ d = NoDentry /\ tree' = tree
            \/ /\ enabled /\ ~Exists(name, dir) /\ d \in Nat
               /\ d \notin DOMAIN tree /\ d \notin gone
               /\ \E n \in Nat : DOMAIN tree' \cup gone = 1..n
               /\ DOMAIN tree' = DOMAIN tree \cup {d}
               /\ tree'[d] = [name |-> name, dir |-> dir]
               /\ \A x \in DOMAIN tree : tree'[x] = tree[x]
<1>1. CASE ~enabled /\ d = ERR /\ tree' = tree
  BY <1>1 DEF DirPointer
<1>2. CASE enabled /\ Exists(name, dir) /\ d = NoDentry /\ tree' = tree
  BY <1>2 DEF DirPointer
<1>3. CASE /\ enabled /\ ~Exists(name, dir) /\ d \in Fresh
           /\ tree' = [x \in DOMAIN tree \cup {d} |->
                         IF x = d THEN [name |-> name, dir |-> dir] ELSE tree[x]]
  <2>1. /\ d \in Nat /\ d \notin DOMAIN tree /\ d \notin gone
        /\ \E n \in Nat : (DOMAIN tree \cup {d}) \cup gone = 1..n
    BY <1>3, FreshDentry DEF DirsInv
  <2>2. /\ DOMAIN tree' = DOMAIN tree \cup {d}
        /\ tree'[d] = [name |-> name, dir |-> dir]
        /\ \A x \in DOMAIN tree : tree'[x] = tree[x]
    BY <1>3, <2>1
  <2> QED
    BY <1>3, <2>1, <2>2 DEF DirPointer
<1> QED
  BY <1>1, <1>2, <1>3 DEF CreateDentry

-----------------------------------------------------------------------------
(* dsnap_init makes the directory, or finds it there.                        *)
LEMMA MakeDirInv ==
  ASSUME OneDriverOwnNames, DirsInv, NEW a \in Adapter, MakeDir(a)
  PROVE  DirsInv'
<1> USE DEF DirsInv
<1>0. /\ call[a] = "absent" /\ MayBegin(a) /\ call' = [call EXCEPT ![a] = "init"]
      /\ UNCHANGED <<enabled, overlap, entry, gone, dirsFault>>
  BY DEF MakeDir
<1>1. PICK d : /\ CreateDentry(d, DriverOf[a], NoDentry)
               /\ debugfs_root' = IF d # NoDentry THEN d ELSE debugfs_root
  BY DEF MakeDir
<1>2. /\ d \in DirPointer
      /\ \/ ~enabled /\ d = ERR /\ tree' = tree
         \/ enabled /\ Exists(DriverOf[a], NoDentry) /\ d = NoDentry /\ tree' = tree
         \/ /\ enabled /\ ~Exists(DriverOf[a], NoDentry) /\ d \in Nat
            /\ d \notin DOMAIN tree /\ d \notin gone
            /\ \E n \in Nat : DOMAIN tree' \cup gone = 1..n
            /\ DOMAIN tree' = DOMAIN tree \cup {d}
            /\ tree'[d] = [name |-> DriverOf[a], dir |-> NoDentry]
            /\ \A x \in DOMAIN tree : tree'[x] = tree[x]
  BY <1>1, CreatedDentry
<1>3. /\ call' \in [Adapter -> {"absent", "init", "cleanup", "bound"}]
      /\ call'[a] = "init" /\ \A b \in Adapter : b # a => call'[b] = call[b]
      /\ \A b \in Adapter : call'[b] = "bound" <=> call[b] = "bound"
  BY <1>0 DEF DirsTypes
<1>4. DirsTypes'
  BY <1>0, <1>1, <1>2, <1>3 DEF DirsTypes
<1>5. Dentries'
  BY <1>0, <1>2 DEF Dentries
<1>6. (Exists(DriverOf[a], NoDentry) => debugfs_root \in DOMAIN tree)
      /\ (~Exists(DriverOf[a], NoDentry) => DOMAIN tree = {})
  <2>1. ASSUME NEW x \in DOMAIN tree
        PROVE  debugfs_root \in DOMAIN tree /\ Exists(DriverOf[a], NoDentry)
    <3>1. debugfs_root \in DOMAIN tree
      BY <2>1 DEF DirContents
    <3>2. tree[debugfs_root] = [name |-> DriverOf[a], dir |-> NoDentry]
      BY <3>1 DEF DirContents
    <3> QED
      BY <3>1, <3>2 DEF Exists
  <2> QED
    BY <2>1 DEF Exists
<1>7. DirContents'
  <2>1. CASE tree' = tree /\ (debugfs_root' = debugfs_root \/ DOMAIN tree = {})
    <3>1. CASE DOMAIN tree = {}
      <4>1. ~enabled \/ \A b \in Adapter : call[b] # "bound"
        BY <3>1 DEF DirContents
      <4> QED
        BY <1>0, <1>3, <2>1, <3>1, <4>1 DEF DirContents
    <3>2. CASE debugfs_root' = debugfs_root
      BY <1>0, <1>3, <2>1, <3>2 DEF DirContents, IsDirFile
    <3> QED
      BY <2>1, <3>1, <3>2
  <2>2. CASE /\ enabled /\ DOMAIN tree' = {d} /\ debugfs_root' = d /\ DOMAIN tree = {}
             /\ tree'[d] = [name |-> DriverOf[a], dir |-> NoDentry]
    <3>1. \A b \in Adapter : call[b] # "bound"
      BY <2>2 DEF DirContents
    <3>2. \A b \in Adapter : tree'[d] = [name |-> DriverOf[b], dir |-> NoDentry]
      BY <2>2 DEF OneDriverOwnNames
    <3> QED
      BY <1>3, <2>2, <3>1, <3>2 DEF DirContents
  <2> QED
    BY <1>1, <1>2, <1>6, <2>1, <2>2, DirPointers DEF Dentries
<1>8. DirInUse'
  BY <1>0, <1>1, <1>2, <1>3, <1>6, DirPointers DEF DirInUse
<1>9. DirsSerial'
  BY <1>0, <1>1, <1>2, <1>3, <1>6, DirPointers DEF DirsSerial, DirBusy, MayBegin
<1> QED
  BY <1>4, <1>5, <1>7, <1>8, <1>9

(* dsnap_create_blob makes the file, unless the directory was removed.       *)
LEMMA MakeFileInv ==
  ASSUME OneDriverOwnNames, DirsInv, NEW a \in Adapter, MakeFile(a)
  PROVE  DirsInv'
<1> USE DEF DirsInv
<1>0. /\ call[a] = "init" /\ dirsFault = "none"
      /\ UNCHANGED <<enabled, overlap, debugfs_root, gone>>
  BY DEF MakeFile
<1>1. CASE debugfs_root \in gone /\ dirsFault' = "freed_dentry" /\ UNCHANGED <<call, entry, tree>>
  <2>1. overlap
    BY <1>0, <1>1 DEF DirsSerial, DirBusy, Dentries
  <2>2. DirsTypes' /\ Dentries'
    BY <1>0, <1>1 DEF DirsTypes, Dentries
  <2>3. DirContents' /\ DirInUse'
    BY <1>0, <1>1 DEF DirContents, IsDirFile, DirInUse
  <2>4. DirsSerial'
    BY <1>0, <2>1 DEF DirsSerial
  <2> QED
    BY <2>2, <2>3, <2>4
<1>2. CASE /\ debugfs_root \notin gone /\ call' = [call EXCEPT ![a] = "bound"] /\ UNCHANGED dirsFault
           /\ \E d : CreateDentry(d, FileName[a], debugfs_root) /\ entry' = [entry EXCEPT ![a] = d]
  <2>1. PICK d : CreateDentry(d, FileName[a], debugfs_root) /\ entry' = [entry EXCEPT ![a] = d]
    BY <1>2
  <2>2. enabled => debugfs_root \in DOMAIN tree
    BY <1>0, <1>2 DEF DirInUse
  <2>3. ~(enabled /\ Exists(FileName[a], debugfs_root))
    <3> SUFFICES ASSUME enabled, NEW x \in DOMAIN tree,
                        tree[x] = [name |-> FileName[a], dir |-> debugfs_root]
                 PROVE  FALSE
      BY DEF Exists
    <3>1. debugfs_root # NoDentry
      <4>1. PICK n \in Nat : DOMAIN tree \cup gone = 1..n
        BY DEF Dentries
      <4> QED
        BY <2>2, <4>1, DirPointers
    <3>2. tree[x].dir = debugfs_root /\ tree[x].name = FileName[a]
      OBVIOUS
    <3>3. x # debugfs_root
      <4>1. x = debugfs_root => tree[x].dir = NoDentry
        BY DEF DirContents
      <4> QED
        BY <3>1, <3>2, <4>1
    <3>4. PICK b \in Adapter : IsDirFile(x, b)
      BY <3>3 DEF DirContents
    <3>5. tree[x].name = FileName[b] /\ call[b] = "bound"
      BY <3>4 DEF IsDirFile
    <3>6. b = a
      BY <3>2, <3>5 DEF OneDriverOwnNames
    <3> QED
      BY <1>0, <3>5, <3>6
  <2>4. /\ d \in DirPointer
        /\ \/ ~enabled /\ d = ERR /\ tree' = tree
           \/ /\ enabled /\ d \in Nat /\ d \notin DOMAIN tree /\ d \notin gone
              /\ \E n \in Nat : DOMAIN tree' \cup gone = 1..n
              /\ DOMAIN tree' = DOMAIN tree \cup {d}
              /\ tree'[d] = [name |-> FileName[a], dir |-> debugfs_root]
              /\ \A x \in DOMAIN tree : tree'[x] = tree[x]
    BY <2>1, <2>3, CreatedDentry
  <2>5. /\ call' \in [Adapter -> {"absent", "init", "cleanup", "bound"}]
        /\ call'[a] = "bound" /\ \A b \in Adapter : b # a => call'[b] = call[b]
        /\ entry' \in [Adapter -> DirPointer]
        /\ entry'[a] = d /\ \A b \in Adapter : b # a => entry'[b] = entry[b]
    BY <1>2, <2>1, <2>4 DEF DirsTypes
  <2>6. DirsTypes'
    BY <1>0, <1>2, <2>5 DEF DirsTypes
  <2>7. Dentries'
    BY <1>0, <2>4 DEF Dentries
  <2>8. DirContents'
    <3>1. CASE ~enabled /\ tree' = tree
      BY <1>0, <3>1 DEF DirContents, Dentries
    <3>2. CASE /\ enabled /\ d \notin DOMAIN tree /\ DOMAIN tree' = DOMAIN tree \cup {d}
               /\ tree'[d] = [name |-> FileName[a], dir |-> debugfs_root]
               /\ \A x \in DOMAIN tree : tree'[x] = tree[x]
      <4>1. ASSUME NEW b \in Adapter, call'[b] = "bound"
            PROVE  entry'[b] \in DOMAIN tree' /\ IsDirFile(entry[b], b)'
        <5>1. CASE b = a
          BY <1>0, <2>5, <3>2, <5>1 DEF IsDirFile
        <5>2. CASE b # a
          BY <1>0, <2>5, <3>2, <4>1, <5>2 DEF DirContents, IsDirFile
        <5> QED
          BY <5>1, <5>2
      <4>2. ASSUME NEW x \in DOMAIN tree'
            PROVE  /\ debugfs_root' \in DOMAIN tree'
                   /\ \/ /\ x = debugfs_root'
                         /\ \A b \in Adapter : tree'[x] = [name |-> DriverOf[b], dir |-> NoDentry]
                      \/ x # debugfs_root' /\ \E b \in Adapter : IsDirFile(x, b)'
        <5>1. CASE x = d
          BY <1>0, <2>2, <2>5, <3>2, <5>1 DEF IsDirFile
        <5>2. CASE x # d
          <6>1. x \in DOMAIN tree /\ tree'[x] = tree[x]
            BY <3>2, <5>2
          <6>2. CASE x = debugfs_root
            BY <1>0, <2>2, <3>2, <6>1, <6>2 DEF DirContents
          <6>3. CASE x # debugfs_root
            <7>1. PICK b \in Adapter : IsDirFile(x, b)
              BY <6>1, <6>3 DEF DirContents
            <7>2. b # a
              BY <1>0, <7>1 DEF IsDirFile
            <7>3. IsDirFile(x, b)'
              BY <1>0, <2>5, <6>1, <7>1, <7>2 DEF IsDirFile
            <7> QED
              BY <1>0, <2>2, <3>2, <6>3, <7>3
          <6> QED
            BY <6>2, <6>3
        <5> QED
          BY <5>1, <5>2
      <4> QED
        BY <4>1, <4>2 DEF DirContents
    <3> QED
      BY <2>4, <3>1, <3>2
  <2>9. DirInUse'
    BY <1>0, <2>2, <2>4, <2>5 DEF DirInUse
  <2>10. DirsSerial'
    BY <1>0, <1>2, <2>4, <2>5 DEF DirsSerial, DirBusy
  <2> QED
    BY <2>6, <2>7, <2>8, <2>9, <2>10
<1> QED
  BY <1>1, <1>2 DEF MakeFile

(* dsnap_cleanup removes the file.                                           *)
LEMMA RemoveFileInv ==
  ASSUME OneDriverOwnNames, DirsInv, NEW a \in Adapter, RemoveFile(a)
  PROVE  DirsInv'
<1> USE DEF DirsInv
<1>0. /\ call[a] = "bound" /\ MayBegin(a) /\ call' = [call EXCEPT ![a] = "cleanup"]
      /\ RemoveDentry(entry[a]) /\ UNCHANGED <<enabled, overlap, debugfs_root, entry, dirsFault>>
  BY DEF RemoveFile
<1>1. /\ call' \in [Adapter -> {"absent", "init", "cleanup", "bound"}]
      /\ call'[a] = "cleanup" /\ \A b \in Adapter : b # a => call'[b] = call[b]
  BY <1>0 DEF DirsTypes
<1>2. CASE enabled
  <2>1. /\ entry[a] \in DOMAIN tree /\ IsDirFile(entry[a], a) /\ debugfs_root \in DOMAIN tree
        /\ debugfs_root # NoDentry /\ entry[a] # NoDentry /\ entry[a] # debugfs_root
    <3>1. entry[a] \in DOMAIN tree /\ IsDirFile(entry[a], a) /\ debugfs_root \in DOMAIN tree
      BY <1>0, <1>2 DEF DirContents
    <3>2. PICK n \in Nat : DOMAIN tree \cup gone = 1..n
      BY DEF Dentries
    <3>3. debugfs_root # NoDentry /\ entry[a] # NoDentry
      BY <3>1, <3>2, DirPointers
    <3>4. tree[entry[a]].dir = debugfs_root
      BY <3>1 DEF IsDirFile
    <3>5. tree[debugfs_root].dir = NoDentry
      BY <1>0, <3>1 DEF DirContents
    <3> QED
      BY <3>1, <3>3, <3>4, <3>5
  <2>2. Children(entry[a]) = {}
    <3> SUFFICES ASSUME NEW x \in DOMAIN tree, tree[x].dir = entry[a]
                 PROVE  FALSE
      BY DEF Children
    <3>1. tree[x].dir \in {NoDentry, debugfs_root}
      BY <2>1 DEF DirContents, IsDirFile
    <3> QED
      BY <2>1, <3>1
  <2>3. /\ tree' = [x \in DOMAIN tree \ {entry[a]} |-> tree[x]]
        /\ gone' = gone \cup {entry[a]}
    BY <1>0, <2>1, <2>2 DEF RemoveDentry
  <2>4. /\ DOMAIN tree' = DOMAIN tree \ {entry[a]}
        /\ \A x \in DOMAIN tree' : tree'[x] = tree[x]
    BY <2>3
  <2>5. DirsTypes'
    BY <1>0, <1>1 DEF DirsTypes
  <2>6. Dentries'
    <3>1. DOMAIN tree' \cup gone' = DOMAIN tree \cup gone /\ DOMAIN tree' \cap gone' = {}
      BY <2>1, <2>3, <2>4 DEF Dentries
    <3> QED
      BY <1>0, <1>2, <3>1 DEF Dentries
  <2>7. DirContents'
    <3>1. ASSUME NEW b \in Adapter, call'[b] = "bound"
          PROVE  entry'[b] \in DOMAIN tree' /\ IsDirFile(entry[b], b)'
      <4>1. b # a /\ call[b] = "bound"
        BY <1>1, <3>1
      <4>2. entry[b] \in DOMAIN tree /\ IsDirFile(entry[b], b)
        BY <1>2, <4>1 DEF DirContents
      <4>3. entry[b] # entry[a]
        <5> SUFFICES ASSUME entry[b] = entry[a]
                     PROVE  FALSE
          OBVIOUS
        <5>1. tree[entry[a]].name = FileName[a] /\ tree[entry[a]].name = FileName[b]
          BY <2>1, <4>2 DEF IsDirFile
        <5> QED
          BY <4>1, <5>1 DEF OneDriverOwnNames
      <4> QED
        BY <1>0, <2>4, <3>1, <4>2, <4>3 DEF IsDirFile
    <3>2. ASSUME NEW x \in DOMAIN tree'
          PROVE  /\ debugfs_root' \in DOMAIN tree'
                 /\ \/ /\ x = debugfs_root'
                       /\ \A b \in Adapter : tree'[x] = [name |-> DriverOf[b], dir |-> NoDentry]
                    \/ x # debugfs_root' /\ \E b \in Adapter : IsDirFile(x, b)'
      <4>1. x \in DOMAIN tree /\ x # entry[a] /\ tree'[x] = tree[x]
        BY <2>4
      <4>2. CASE x = debugfs_root
        BY <1>0, <4>1, <4>2 DEF DirContents
      <4>3. CASE x # debugfs_root
        <5>1. PICK b \in Adapter : IsDirFile(x, b)
          BY <4>1, <4>3 DEF DirContents
        <5>2. b # a
          BY <4>1, <5>1 DEF IsDirFile
        <5>3. IsDirFile(x, b)'
          BY <1>0, <1>1, <4>1, <5>1, <5>2 DEF IsDirFile
        <5> QED
          BY <1>0, <2>1, <2>4, <4>3, <5>3
      <4> QED
        BY <4>2, <4>3
    <3> QED
      BY <3>1, <3>2 DEF DirContents
  <2>8. DirInUse'
    BY <1>0, <1>1, <2>1, <2>4 DEF DirInUse
  <2>9. DirsSerial'
    BY <1>0, <1>1, <2>1, <2>4 DEF DirsSerial, DirBusy, MayBegin
  <2> QED
    BY <2>5, <2>6, <2>7, <2>8, <2>9
<1>3. CASE ~enabled
  <2>1. DOMAIN tree = {} /\ gone = {} /\ tree' = tree /\ gone' = gone
    BY <1>0, <1>3 DEF Dentries, RemoveDentry
  <2>2. DirsTypes' /\ Dentries'
    BY <1>0, <1>1, <2>1 DEF DirsTypes, Dentries
  <2>3. DirContents' /\ DirInUse'
    BY <1>0, <1>3, <2>1 DEF DirContents, DirInUse
  <2>4. DirsSerial'
    BY <1>0, <1>1, <1>3, <2>1 DEF DirsSerial, DirBusy, MayBegin
  <2> QED
    BY <2>2, <2>3, <2>4
<1> QED
  BY <1>2, <1>3 DEF DirsTypes

(* It removes the directory if that is empty.                                *)
LEMMA RemoveDirInv ==
  ASSUME OneDriverOwnNames, DirsInv, NEW a \in Adapter, RemoveDir(a)
  PROVE  DirsInv'
<1> USE DEF DirsInv
<1>0. /\ call[a] = "cleanup" /\ dirsFault = "none"
      /\ UNCHANGED <<enabled, overlap, debugfs_root, entry>>
  BY DEF RemoveDir
<1>1. CASE debugfs_root \in gone /\ dirsFault' = "freed_dentry" /\ UNCHANGED <<call, tree, gone>>
  <2>1. overlap
    BY <1>0, <1>1 DEF DirsSerial, DirBusy, Dentries
  <2>2. DirsTypes' /\ Dentries'
    BY <1>0, <1>1 DEF DirsTypes, Dentries
  <2>3. DirContents' /\ DirInUse'
    BY <1>0, <1>1 DEF DirContents, IsDirFile, DirInUse
  <2>4. DirsSerial'
    BY <1>0, <2>1 DEF DirsSerial
  <2> QED
    BY <2>2, <2>3, <2>4
<1>2. CASE /\ debugfs_root \notin gone /\ call' = [call EXCEPT ![a] = "absent"]
           /\ RemoveDentry(debugfs_root) /\ UNCHANGED dirsFault
  <2>1. /\ call' \in [Adapter -> {"absent", "init", "cleanup", "bound"}]
        /\ call'[a] = "absent" /\ \A b \in Adapter : b # a => call'[b] = call[b]
        /\ \A b \in Adapter : call'[b] = "bound" <=> call[b] = "bound"
    BY <1>0, <1>2 DEF DirsTypes
  <2>2. DirsTypes'
    BY <1>0, <1>2, <2>1 DEF DirsTypes
  <2>3. CASE debugfs_root \in DOMAIN tree /\ Children(debugfs_root) = {}
    <3>1. /\ tree' = [x \in DOMAIN tree \ {debugfs_root} |-> tree[x]]
          /\ gone' = gone \cup {debugfs_root}
      BY <1>2, <2>3 DEF RemoveDentry
    <3>2. DOMAIN tree' = DOMAIN tree \ {debugfs_root}
      BY <3>1
    <3>3. DOMAIN tree = {debugfs_root}
      <4> SUFFICES ASSUME NEW x \in DOMAIN tree, x # debugfs_root
                   PROVE  FALSE
        BY <2>3
      <4>1. tree[x].dir = debugfs_root
        BY DEF DirContents, IsDirFile
      <4> QED
        BY <2>3, <4>1 DEF Children
    <3>4. enabled
      BY <2>3 DEF Dentries, DirsTypes
    <3>5. \A b \in Adapter : call[b] # "bound"
      <4> SUFFICES ASSUME NEW b \in Adapter, call[b] = "bound"
                   PROVE  FALSE
        OBVIOUS
      <4>1. entry[b] \in DOMAIN tree /\ IsDirFile(entry[b], b)
        BY <3>4 DEF DirContents
      <4>2. tree[entry[b]].dir = debugfs_root
        BY <4>1 DEF IsDirFile
      <4> QED
        BY <2>3, <4>1, <4>2 DEF Children
    <3>6. Dentries'
      <4>1. DOMAIN tree' \cup gone' = DOMAIN tree \cup gone /\ DOMAIN tree' \cap gone' = {}
        BY <2>3, <3>1, <3>2 DEF Dentries
      <4> QED
        BY <1>0, <3>4, <4>1 DEF Dentries
    <3>7. DOMAIN tree' = {}
      BY <3>2, <3>3
    <3>8. DirContents'
      BY <2>1, <3>5, <3>7 DEF DirContents
    <3>9. DirInUse'
      BY <1>0, <3>1, <3>7 DEF DirInUse
    <3>10. DirsSerial'
      BY <1>0, <1>2, <2>1 DEF DirsSerial, DirBusy
    <3> QED
      BY <2>2, <3>6, <3>8, <3>9, <3>10
  <2>4. CASE ~(debugfs_root \in DOMAIN tree /\ Children(debugfs_root) = {})
    <3>1. tree' = tree /\ gone' = gone
      BY <1>2, <2>4 DEF RemoveDentry
    <3>2. DOMAIN tree # {} => \E b \in Adapter : call[b] = "bound"
      <4> SUFFICES ASSUME DOMAIN tree # {}
                   PROVE  \E b \in Adapter : call[b] = "bound"
        OBVIOUS
      <4>1. debugfs_root \in DOMAIN tree
        BY DEF DirContents
      <4>2. PICK x \in DOMAIN tree : tree[x].dir = debugfs_root
        BY <2>4, <4>1 DEF Children
      <4>3. PICK n \in Nat : DOMAIN tree \cup gone = 1..n
        BY DEF Dentries
      <4>4. debugfs_root # NoDentry
        BY <4>1, <4>3, DirPointers
      <4>5. x # debugfs_root
        <5>1. tree[debugfs_root].dir = NoDentry
          BY <1>0, <4>1 DEF DirContents
        <5> QED
          BY <4>2, <4>4, <5>1
      <4> QED
        BY <4>2, <4>5 DEF DirContents, IsDirFile
    <3>3. Dentries'
      BY <1>0, <3>1 DEF Dentries
    <3>4. DirContents'
      BY <1>0, <2>1, <3>1 DEF DirContents, IsDirFile
    <3>5. DirInUse'
      BY <1>0, <2>1, <3>1, <3>2 DEF DirInUse
    <3>6. DirsSerial'
      BY <1>0, <1>2, <2>1, <3>1 DEF DirsSerial, DirBusy
    <3> QED
      BY <2>2, <3>3, <3>4, <3>5, <3>6
  <2> QED
    BY <2>3, <2>4
<1> QED
  BY <1>1, <1>2 DEF RemoveDir

(* The invariant holds always.                                               *)
THEOREM DirsInvariant ==
  ASSUME OneDriverOwnNames
  PROVE  DirsSpec => []DirsInv
<1>1. DirsInit => DirsInv
  <2> SUFFICES ASSUME DirsInit
               PROVE  DirsInv
    OBVIOUS
  <2>1. DOMAIN tree = {} /\ gone = {}
    BY DEF DirsInit
  <2>2. DirsTypes
    BY ChoiceAssumption DEF DirsInit, DirsTypes, DirPointer
  <2>3. Dentries
    <3>1. DOMAIN tree \cup gone = 1..0
      BY <2>1
    <3> QED
      BY <2>1, <3>1 DEF Dentries
  <2>4. DirContents /\ DirInUse /\ DirsSerial
    BY <2>1 DEF DirsInit, DirContents, DirInUse, DirsSerial, DirBusy
  <2> QED
    BY <2>2, <2>3, <2>4 DEF DirsInv
<1>2. DirsInv /\ [DirsNext]_dirsVars => DirsInv'
  <2> SUFFICES ASSUME DirsInv, [DirsNext]_dirsVars
               PROVE  DirsInv'
    OBVIOUS
  <2>1. ASSUME NEW a \in Adapter, MakeDir(a) \/ MakeFile(a) \/ RemoveFile(a) \/ RemoveDir(a)
        PROVE  DirsInv'
    BY <2>1, MakeDirInv, MakeFileInv, RemoveFileInv, RemoveDirInv
  <2>2. CASE UNCHANGED dirsVars
    BY <2>2 DEF dirsVars, DirsInv, DirsTypes, Dentries, DirContents, IsDirFile, DirInUse, DirsSerial, DirBusy
  <2> QED
    BY <2>1, <2>2 DEF DirsNext
<1> QED
  BY <1>1, <1>2, PTL DEF DirsSpec

-----------------------------------------------------------------------------
(* The adapters of one driver, whose calls do not overlap, are not led to a  *)
(* directory that was removed, although debugfs_root keeps its value.        *)
THEOREM NeverStale ==
  ASSUME OneDriverOwnNames
  PROVE  DirsSpec => []NoStaleDir
<1>1. DirsInv => NoStaleDir
  BY DEF DirsInv, DirsSerial, NoStaleDir
<1> QED
  BY <1>1, DirsInvariant, PTL

(* Whatever the schedule, each adapter of the driver that has been probed    *)
(* has its own file in the driver's directory, as long as no call has met a  *)
(* directory that was removed.                                               *)
THEOREM OwnFiles ==
  ASSUME OneDriverOwnNames
  PROVE  DirsSpec => []OwnFile
<1>1. DirsInv => OwnFile
  <2> SUFFICES ASSUME DirsInv, NEW a \in Adapter, call[a] = "bound", enabled
               PROVE  /\ entry[a] \in DOMAIN tree /\ tree[entry[a]].name = FileName[a]
                      /\ tree[entry[a]].dir \in DOMAIN tree
                      /\ tree[tree[entry[a]].dir] = [name |-> DriverOf[a], dir |-> NoDentry]
    BY DEF OwnFile
  <2>1. entry[a] \in DOMAIN tree /\ IsDirFile(entry[a], a) /\ debugfs_root \in DOMAIN tree
    BY DEF DirsInv, DirContents
  <2>2. tree[debugfs_root] = [name |-> DriverOf[a], dir |-> NoDentry]
    BY <2>1 DEF DirsInv, DirContents
  <2> QED
    BY <2>1, <2>2 DEF IsDirFile
<1> QED
  BY <1>1, DirsInvariant, PTL

(* When the last adapter of the driver is gone so are the directory and all  *)
(* the files, whatever the schedule.                                         *)
THEOREM AllRemoved ==
  ASSUME OneDriverOwnNames
  PROVE  DirsSpec => []NothingLeft
<1>1. DirsInv => NothingLeft
  BY DEF DirsInv, DirInUse, NothingLeft
<1> QED
  BY <1>1, DirsInvariant, PTL

=============================================================================
