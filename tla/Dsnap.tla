------------------------------- MODULE Dsnap --------------------------------
(***************************************************************************)
(* The driver-side half of dsnap (src/src/dsnap.c) for one dsnap_dir: the   *)
(* record list, the master buffer that holds the snapshot, and the debugfs  *)
(* blob through which user space reads it.                                  *)
(*                                                                         *)
(* The driver serialises its calls (e1000 makes them under adapter->mutex), *)
(* so there is one caller, whose progress is pc.  A call is cut into the    *)
(* steps a concurrent reader can tell apart: each write to the master       *)
(* buffer, each store to the blob, each allocation.  Allocations fail as    *)
(* AllocMayFail allows, and every failure path of the code is taken.        *)
(*                                                                         *)
(* A step that would follow a NULL or an uninitialised pointer, or write    *)
(* outside the master buffer, stops the caller in pc = "oops" and says why  *)
(* in fault.                                                                *)
(***************************************************************************)
EXTENDS SnapFormat, FiniteSets

CONSTANTS
  Loc,           (* addresses of the structures the driver snapshots        *)
  Value,         (* contents such a structure can have                      *)
  Call,          (* the calls dsnap_add_to_blob(name, loc, size, ddir)      *)
  Buf,           (* heap blocks for the master buffer; a block freed is not *)
                 (* handed out again, so a use after free stays visible     *)
  AllocMayFail,  (* may kmalloc, kstrdup, krealloc and debugfs fail?        *)
  NULL,
  Wild           (* an uninitialised pointer                                *)

ASSUME CallAssumption == /\ Call # {}
                         /\ Call \subseteq [name : Name, loc : Loc, size : Nat]
ASSUME BufAssumption == NULL \notin Buf /\ Wild \notin Buf /\ NULL # Wild
ASSUME NameAssumption == NULL \notin Name
ASSUME AllocAssumption == AllocMayFail \in BOOLEAN

VARIABLES
  pc,        (* where the driver's dsnap call stands                        *)
  arg,       (* the arguments of the dsnap_add_to_blob call in progress     *)
  new_size,  (* dsnap_create_record's local                                 *)
  c_ptr,     (* dsnap_construct_blob's cursor, as an offset into master     *)
  curr,      (* and its position in the record list                         *)
  drecord,   (* dfile->drecord, the record list                             *)
  records,   (* dfile->records                                              *)
  tot_size,  (* dfile->tot_size                                             *)
  master,    (* dfile->master                                               *)
  blobSet,   (* has dfile->blob been assigned?                              *)
  blobData,  (* blob->data                                                  *)
  blobSize,  (* blob->size                                                  *)
  objs,      (* live heap objects other than master buffers                 *)
  bst,       (* state of each block of Buf: "unused", "live" or "freed"     *)
  bytes,     (* the cells of each block                                     *)
  mem,       (* the driver's structures                                     *)
  failed,    (* the allocations that have failed                            *)
  fault      (* why the caller stopped, or "none"                           *)

callVars == <<arg, new_size, c_ptr, curr>>
listVars == <<drecord, records, tot_size>>
fileVars == <<drecord, records, tot_size, master, blobSet>>
blobVars == <<blobData, blobSize>>
heapVars == <<bst, bytes>>
vars == <<pc, arg, new_size, c_ptr, curr, drecord, records, tot_size, master,
          blobSet, blobData, blobSize, objs, bst, bytes, mem, failed, fault>>

-----------------------------------------------------------------------------
(* Small heap objects, named after the pointer that owns them. *)
Ddir          == <<"ddir", 0>>
DirNameStr    == <<"ddir->name", 0>>
Dfile         == <<"dfile", 0>>
FileNameStr   == <<"dfile->name", 0>>
Blob          == <<"blob", 0>>
Entry         == <<"entry", 0>>            (* the debugfs file *)
RecordObj(i)  == <<"record", i>>
RecordName(i) == <<"record->name", i>>

(* The outcomes of an allocation: TRUE for success. *)
Outcome == IF AllocMayFail THEN BOOLEAN ELSE {TRUE}

If(test, set) == IF test THEN set ELSE {}

Unused == {b \in Buf : bst[b] = "unused"}

Fault(why) == pc' = "oops" /\ fault' = why

(* What a write of n bytes at master + off runs into. *)
WriteFault(off, n) ==
  IF n = 0 THEN "none"
  ELSE IF master = NULL THEN "null"
  ELSE IF master = Wild THEN "wild"
  ELSE IF off + n > Len(bytes[master]) THEN "overrun"
  ELSE "none"

(* memcpy(master + off, piece), after which the caller goes on at next. *)
WriteMaster(off, piece, next) ==
  LET why == WriteFault(off, Len(piece))
  IN  /\ fault' = why
      /\ pc' = IF why = "none" THEN next ELSE "oops"
      /\ bytes' = IF why = "none" /\ master \in Buf
                  THEN [bytes EXCEPT ![master] = Splice(@, off, piece)]
                  ELSE bytes

-----------------------------------------------------------------------------
(* dsnap_init.  Every failure returns early and leaves the ddir as it is:    *)
(* the function is void and the driver goes on to use it.                    *)

(* kstrdup of the directory name, then dsnap_create_file.  It does not set   *)
(* dfile->master and dfile->blob, which keep what kmalloc left in them.      *)
DsnapInit ==
  /\ pc = "start"
  /\ \E dirName, dfile, fileName \in Outcome :
       /\ objs' = objs \cup If(dirName, {DirNameStr}) \cup If(dfile, {Dfile})
                       \cup If(dfile /\ fileName, {FileNameStr})
       /\ failed' = failed \cup If(~dirName, {"ddir->name"})
                           \cup If(~dfile, {"dfile"})
                           \cup If(dfile /\ ~fileName, {"dfile->name"})
       /\ pc' = IF dfile THEN "create_blob" ELSE "idle"
  /\ drecord' = <<>> /\ records' = 0 /\ tot_size' = 0
  /\ UNCHANGED <<callVars, master, blobSet, blobVars, heapVars, mem, fault>>

(* dsnap_create_blob up to debugfs_create_blob, from which on the file is    *)
(* visible although blob->data and blob->size are not initialised yet.       *)
(* debugfs takes the length of the file's name.  When it refuses, the blob   *)
(* is not freed.                                                             *)
CreateBlob ==
  /\ pc = "create_blob"
  /\ \/ AllocMayFail /\ failed' = failed \cup {"blob"} /\ pc' = "idle"
        /\ UNCHANGED <<objs, blobVars, fault>>
     \/ /\ FileNameStr \notin objs
        /\ objs' = objs \cup {Blob}
        /\ Fault("null")
        /\ UNCHANGED <<blobVars, failed>>
     \/ /\ FileNameStr \in objs
        /\ \E entry \in Outcome :
             /\ objs' = objs \cup {Blob} \cup If(entry, {Entry})
             /\ failed' = failed \cup If(~entry, {"entry"})
             /\ pc' = IF entry THEN "init_blob" ELSE "idle"
        /\ blobData' = Wild
        /\ UNCHANGED <<blobSize, fault>>
  /\ UNCHANGED <<callVars, fileVars, heapVars, mem>>

(* The rest of dsnap_create_blob. *)
InitBlob ==
  /\ pc = "init_blob"
  /\ blobData' = NULL /\ blobSize' = 0 /\ blobSet' = TRUE
  /\ pc' = "alloc_master"
  /\ UNCHANGED <<callVars, listVars, master, objs, heapVars, mem, failed, fault>>

(* The size of the empty snapshot, and a buffer of that size. *)
AllocMaster ==
  /\ pc = "alloc_master"
  /\ \/ /\ DirNameStr \notin objs                   \* strlen(ddir->name)
        /\ Fault("null")
        /\ UNCHANGED <<tot_size, master, heapVars, failed>>
     \/ /\ DirNameStr \in objs
        /\ AllocMayFail
        /\ tot_size' = HeaderSize /\ master' = NULL
        /\ failed' = failed \cup {"master"}
        /\ pc' = "idle"
        /\ UNCHANGED <<heapVars, fault>>
     \/ /\ DirNameStr \in objs
        /\ \E b \in Unused :
             /\ tot_size' = HeaderSize /\ master' = b
             /\ bst' = [bst EXCEPT ![b] = "live"]
             /\ bytes' = [bytes EXCEPT ![b] = Grow(<<>>, HeaderSize)]
        /\ pc' = "zero"
        /\ UNCHANGED <<failed, fault>>
  /\ UNCHANGED <<callVars, drecord, records, blobSet, blobVars, objs, mem>>

-----------------------------------------------------------------------------
(* dsnap_construct_blob: the master buffer is zeroed and written anew from   *)
(* the record list, reading every structure again at its last location.      *)

ZeroMaster ==
  /\ pc = "zero"
  /\ WriteMaster(0, [k \in 1 .. tot_size |-> Zero], "header")
  /\ UNCHANGED <<callVars, fileVars, blobVars, objs, bst, mem, failed>>

WriteHeader ==
  /\ pc = "header"
  /\ WriteMaster(0, Header(records), "record")
  /\ c_ptr' = Len(Header(records)) /\ curr' = 1
  /\ UNCHANGED <<arg, new_size, fileVars, blobVars, objs, bst, mem, failed>>

(* One turn of the loop over the list. *)
WriteRecord ==
  /\ pc = "record" /\ curr <= Len(drecord)
  /\ LET r == drecord[curr]
         piece == RecordHead(r.name, r.size) \o Data(mem[r.loc], r.size)
     IN  \/ /\ r.name = NULL                        \* strlen(curr->name)
            /\ Fault("null")
            /\ UNCHANGED <<c_ptr, curr, bytes>>
         \/ /\ r.name # NULL
            /\ WriteMaster(c_ptr, piece, "record")
            /\ c_ptr' = c_ptr + Len(piece)
            /\ curr' = curr + 1
  /\ UNCHANGED <<arg, new_size, fileVars, blobVars, objs, bst, mem, failed>>

(* root->blob->data = root->master, and then the size. *)
PublishNothing ==
  /\ pc = "record" /\ curr > Len(drecord)
  /\ pc' = "publish_size"
  /\ UNCHANGED <<callVars, fileVars, blobVars, objs, heapVars, mem, failed, fault>>
PublishData ==
  /\ pc = "record" /\ curr > Len(drecord)
  /\ blobData' = master
  /\ pc' = "publish_size"
  /\ UNCHANGED <<callVars, fileVars, blobSize, objs, heapVars, mem, failed, fault>>

PublishSize ==
  /\ pc = "publish_size"
  /\ blobSize' = tot_size
  /\ pc' = "idle"
  /\ UNCHANGED <<callVars, fileVars, blobData, objs, heapVars, mem, failed, fault>>

-----------------------------------------------------------------------------
(* dsnap_find_record: the first record of that name, 0 if there is none.     *)
(* The walk stops, with a fault, at a record whose name could not be copied. *)
FindNothing(n) == 0
FindRecord(n) ==
  LET hits == {i \in 1 .. Len(drecord) : drecord[i].name \in {n, NULL}}
  IN  IF hits = {} THEN 0
      ELSE CHOOSE i \in hits : \A j \in hits : i <= j

(* dsnap_add_to_blob on a name that has a record: the data is copied over    *)
(* the old data in place, unless the size differs.                           *)
UpdateRecord(c) ==
  LET i == FindRecord(c.name)
  IN  /\ pc = "idle" /\ Dfile \in objs /\ i > 0
      /\ \/ /\ drecord[i].name = NULL               \* strcmp(name, curr->name)
            /\ Fault("null")
            /\ UNCHANGED <<drecord, bytes>>
         \/ /\ drecord[i].name = c.name
            /\ c.size # drecord[i].size
            /\ UNCHANGED <<pc, fault, drecord, bytes>>
         \/ /\ drecord[i].name = c.name
            /\ c.size = drecord[i].size
            /\ drecord' = [drecord EXCEPT ![i].loc = c.loc]
            /\ WriteMaster(drecord[i].offset, Data(mem[c.loc], c.size), "idle")
      /\ UNCHANGED <<callVars, records, tot_size, master, blobSet, blobVars,
                     objs, bst, mem, failed>>

(* dsnap_add_to_blob on a new name, up to the call of dsnap_create_record. *)
AddRecord(c) ==
  /\ pc = "idle" /\ Dfile \in objs /\ FindRecord(c.name) = 0
  /\ pc' = "create" /\ arg' = c
  /\ UNCHANGED <<new_size, c_ptr, curr, fileVars, blobVars, objs, heapVars,
                 mem, failed, fault>>

(* dsnap_init left ddir->dfile NULL, and the call dereferences it. *)
UseOfNullFile ==
  /\ pc = "idle" /\ Dfile \notin objs
  /\ Fault("null")
  /\ UNCHANGED <<callVars, fileVars, blobVars, objs, heapVars, mem, failed>>

(* Record size - data size. *)
RecordOffsetShort(total, size)   == total - size - 4
RecordOffsetSwapped(total, size) == size - total
RecordOffset(total, size)        == total - size

(* dsnap_create_record up to the krealloc: the record enters the list, at    *)
(* its tail, before the buffer has room for it.                              *)
CreateRecord ==
  /\ pc = "create"
  /\ LET total == arg.size + tot_size + RecordHeadSize(arg.name)
         i     == Len(drecord) + 1
     IN  /\ new_size' = total
         /\ \E record, name \in Outcome :
              /\ failed' = failed \cup If(~record, {"record"})
                                  \cup If(record /\ ~name, {"record->name"})
              /\ IF record
                 THEN /\ drecord' =
                           Append(drecord,
                             [name   |-> IF name THEN arg.name ELSE NULL,
                              loc    |-> arg.loc,
                              size   |-> arg.size,
                              offset |-> RecordOffset(total, arg.size)])
                      /\ objs' = objs \cup {RecordObj(i)}
                                      \cup If(name, {RecordName(i)})
                      /\ pc' = "expand"
                 ELSE /\ pc' = "idle"
                      /\ UNCHANGED <<drecord, objs>>
  /\ UNCHANGED <<arg, c_ptr, curr, records, tot_size, master, blobSet, blobVars,
                 heapVars, mem, fault>>

(* krealloc has grown the block in place, or moved it and freed the old one. *)
GrowInPlace ==
  /\ master \in Buf
  /\ bytes' = [bytes EXCEPT ![master] = Grow(@, new_size)]
  /\ UNCHANGED <<bst, master>>

GrowByMoving ==
  \E b \in Unused :
    LET old == IF master \in Buf THEN bytes[master] ELSE <<>>
    IN  /\ bytes' = [x \in Buf |-> IF x = b THEN Grow(old, new_size)
                                   ELSE IF x = master THEN <<>> ELSE bytes[x]]
        /\ bst' = [x \in Buf |-> IF x = b THEN "live"
                                 ELSE IF x = master THEN "freed" ELSE bst[x]]
        /\ master' = b

(* The rest of dsnap_create_record.  A krealloc that fails leaves the old    *)
(* block allocated, but master no longer points to it.                       *)
ExpandMaster ==
  /\ pc = "expand"
  /\ \/ /\ master = Wild
        /\ Fault("wild")
        /\ UNCHANGED <<records, tot_size, master, heapVars, failed>>
     \/ /\ master # Wild /\ AllocMayFail
        /\ master' = NULL
        /\ failed' = failed \cup {"krealloc"}
        /\ pc' = "idle"
        /\ UNCHANGED <<records, tot_size, heapVars, fault>>
     \/ /\ master # Wild
        /\ GrowInPlace \/ GrowByMoving
        /\ tot_size' = new_size /\ records' = records + 1
        /\ pc' = "zero"
        /\ UNCHANGED <<failed, fault>>
  /\ UNCHANGED <<callVars, drecord, blobSet, blobVars, objs, mem>>

-----------------------------------------------------------------------------
(* dsnap_cleanup: the debugfs file first, then the master buffer, then the   *)
(* records and the rest.  The blob is freed nowhere.                         *)
RemoveEntry ==
  /\ pc = "idle" /\ Dfile \in objs
  /\ objs' = objs \ {DirNameStr, Entry}
  /\ pc' = "free_master"
  /\ UNCHANGED <<callVars, fileVars, blobVars, heapVars, mem, failed, fault>>

RecordObjsButTheLast == {RecordObj(i) : i \in 1 .. Len(drecord) - 1}
                          \cup {RecordName(i) : i \in 1 .. Len(drecord)}
RecordObjs == {RecordObj(i) : i \in 1 .. Len(drecord)}
                \cup {RecordName(i) : i \in 1 .. Len(drecord)}

FreeAll ==
  /\ pc = "free_master"
  /\ \/ /\ master = Wild                            \* kfree(dfile->master)
        /\ Fault("wild")
        /\ UNCHANGED <<objs, heapVars>>
     \/ /\ master # Wild
        /\ bst'   = [b \in Buf |-> IF b = master THEN "freed" ELSE bst[b]]
        /\ bytes' = [b \in Buf |-> IF b = master THEN <<>> ELSE bytes[b]]
        /\ objs'  = objs \ (RecordObjs \cup {FileNameStr, Dfile, Ddir})
        /\ pc' = "dead"
        /\ UNCHANGED fault
  /\ UNCHANGED <<callVars, fileVars, blobVars, mem, failed>>

-----------------------------------------------------------------------------
(* The driver goes about its work and changes its structures. *)
MemWrite ==
  /\ \E l \in Loc, v \in Value : v # mem[l] /\ mem' = [mem EXCEPT ![l] = v]
  /\ UNCHANGED <<pc, callVars, fileVars, blobVars, objs, heapVars, failed, fault>>

(* The driver has allocated ddir and calls dsnap_init. *)
Init ==
  /\ pc = "start" /\ fault = "none" /\ failed = {}
  /\ arg = CHOOSE c \in Call : TRUE       \* not read before AddRecord sets it
  /\ new_size = 0 /\ c_ptr = 0 /\ curr = 1
  /\ drecord = <<>> /\ records = 0 /\ tot_size = 0
  /\ master = Wild /\ blobSet = FALSE
  /\ blobData = NULL /\ blobSize = 0
  /\ objs = {Ddir}
  /\ bst = [b \in Buf |-> "unused"] /\ bytes = [b \in Buf |-> <<>>]
  /\ mem \in [Loc -> Value]

(* A step of the thread that makes the dsnap calls. *)
DriverStep ==
  \/ DsnapInit \/ CreateBlob \/ InitBlob \/ AllocMaster
  \/ ZeroMaster \/ WriteHeader \/ WriteRecord \/ PublishData \/ PublishSize
  \/ \E c \in Call : UpdateRecord(c) \/ AddRecord(c)
  \/ UseOfNullFile \/ CreateRecord \/ ExpandMaster
  \/ RemoveEntry \/ FreeAll

Next == DriverStep \/ MemWrite

Spec == Init /\ [][Next]_vars

-----------------------------------------------------------------------------
Record == [name : Name \cup {NULL}, loc : Loc, size : Nat, offset : Nat]

Sites == {"ddir->name", "dfile", "dfile->name", "blob", "entry", "master",
          "record", "record->name", "krealloc"}

(* Every variable of the model keeps its type. *)
TypeOK ==
  /\ pc \in {"start", "create_blob", "init_blob", "alloc_master", "zero",
            "header", "record", "publish_size", "idle", "create", "expand",
            "free_master", "dead", "oops"}
  /\ arg \in Call
  /\ new_size \in Nat /\ c_ptr \in Nat /\ curr \in Nat \ {0}
  /\ drecord \in Seq(Record)
  /\ records \in Nat /\ tot_size \in Nat
  /\ master \in Buf \cup {NULL, Wild} /\ blobSet \in BOOLEAN
  /\ blobData \in Buf \cup {NULL, Wild} /\ blobSize \in Nat
  /\ bst \in [Buf -> {"unused", "live", "freed"}]
  /\ DOMAIN bytes = Buf
  /\ mem \in [Loc -> Value]
  /\ failed \subseteq Sites
  /\ fault \in {"none", "null", "wild", "overrun"}

(* The failed allocations after which the code carries on correctly: without *)
(* a record nothing was changed, and without a first master buffer the       *)
(* krealloc of the first record allocates one.                               *)
Contained == failed \subseteq {"record", "master"}

(* The driver's calls follow no NULL or uninitialised pointer and write      *)
(* nothing outside the master buffer, whatever is added, updated and removed *)
(* in whatever order, unless an allocation failed that the code does not     *)
(* contain (dsnap.c:56, 68, 76, 182, 214, 298, 322).                         *)
MemorySafe == fault # "none" => ~Contained

(* The end of the i-th record of the snapshot; of the header for i = 0. *)
End(i) == IF i = 0 THEN HeaderSize ELSE drecord[i].offset + drecord[i].size

(* Between calls the offsets dsnap_create_record computed from running sizes *)
(* are the places dsnap_construct_blob's cursor put the data, each record    *)
(* behind the one before it, and records, tot_size and the master buffer     *)
(* agree with the list.                                                      *)
LayoutOK ==
  (pc = "idle" /\ Contained) =>
    /\ records = Len(drecord) /\ tot_size = End(records)
    /\ \A i \in 1 .. Len(drecord) :
         drecord[i].offset = End(i - 1) + RecordHeadSize(drecord[i].name)
    /\ IF master = NULL THEN drecord = <<>> ELSE Len(bytes[master]) = tot_size

(* No heap block is lost: what is allocated is the current master buffer,    *)
(* except after a krealloc failed (dsnap.c:318), and dsnap_cleanup leaves    *)
(* nothing behind but the blob.                                              *)
NoLeak ==
  /\ "krealloc" \notin failed =>
       {b \in Buf : bst[b] = "live"} = IF pc = "dead" THEN {} ELSE {master} \ {NULL, Wild}
  /\ pc = "dead" => objs \subseteq {Blob}

-----------------------------------------------------------------------------
(* The inductive invariant behind MemorySafe and LayoutOK.                   *)

(* The records of the list lie behind one another, and none ends behind the  *)
(* last.                                                                     *)
Chained ==
  \A i \in 1 .. Len(drecord) :
    /\ drecord[i].name \in Name
    /\ drecord[i].offset = End(i - 1) + RecordHeadSize(drecord[i].name)
    /\ End(i) <= End(Len(drecord))

(* dfile->master is a buffer of exactly the size the list needs.             *)
FileOK ==
  /\ records = Len(drecord) /\ tot_size = End(Len(drecord))
  /\ master \in Buf /\ Len(bytes[master]) = tot_size

(* The same when dsnap_init got no buffer and no record was added yet.       *)
NoFileYet == master = NULL /\ drecord = <<>> /\ records = 0 /\ tot_size = HeaderSize

(* After the list has grown and before the buffer has.                       *)
Expanding ==
  LET n == Len(drecord)
  IN  /\ n > 0 /\ records = n - 1
      /\ tot_size = End(n - 1) /\ new_size = End(n)
      /\ \/ master = NULL
         \/ master \in Buf /\ Len(bytes[master]) = tot_size

(* dsnap_construct_blob's cursor is where the records written so far end.    *)
CursorOK == curr <= Len(drecord) + 1 /\ c_ptr = End(curr - 1)

PhaseOK ==
  /\ pc \in {"start", "create_blob", "init_blob", "alloc_master"} => drecord = <<>> /\ records = 0
  /\ pc \in {"create_blob", "init_blob", "alloc_master"} => {DirNameStr, FileNameStr} \subseteq objs
  /\ pc \in {"zero", "header", "record", "publish_size"} => FileOK
  /\ pc = "record" => CursorOK
  /\ pc \in {"idle", "create"} => FileOK \/ NoFileYet
  /\ pc = "expand" => Expanding
  /\ pc = "free_master" => master # Wild
  /\ pc \notin {"start", "free_master", "dead"} => Dfile \in objs
  /\ pc # "oops"

IInv == TypeOK /\ (Contained => Chained /\ PhaseOK /\ fault = "none")

=============================================================================
