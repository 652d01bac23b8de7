--------------------------- MODULE DsnapSnapshot ----------------------------
(***************************************************************************)
(* The two halves of dsnap together: what the user-space tool (ReadFile)    *)
(* makes of the bytes that the driver side (Dsnap) leaves in the master     *)
(* buffer.  Everything here is about runs in which no allocation fails.     *)
(***************************************************************************)
EXTENDS Dsnap, ReadFile

(* The file that user space reads at this moment. *)
File == SubSeq(bytes[blobData], 1, blobSize)

(* Between two calls of the driver, the file in debugfs is a complete        *)
(* snapshot: dsnap.py's readFile, which walks it by the lengths it finds in  *)
(* it, accepts it, and finds the driver's name and exactly the records that  *)
(* were added, in order, each with its name and its registered size, and     *)
(* with the contents of one structure, whole.                                *)
SnapshotReadable ==
  (pc = "idle" /\ failed = {}) =>
    LET read == readFile(File)
    IN  /\ blobSet /\ blobData = master
        /\ read.ok /\ read.driver = Chars(DirName)
        /\ Len(read.items) = Len(drecord)
        /\ \A i \in 1 .. Len(drecord) :
             /\ read.items[i].name = Chars(drecord[i].name)
             /\ read.items[i].size = drecord[i].size
             /\ \E v \in Value : read.items[i].data = Data(v, drecord[i].size)

-----------------------------------------------------------------------------
(* Dsnap implements SnapStore.                                               *)
Registered ==
  [i \in 1 .. Len(drecord) |-> [name |-> drecord[i].name, loc |-> drecord[i].loc,
                                size |-> drecord[i].size]]

(* The items that the master buffer holds so far: those in front of          *)
(* dsnap_construct_blob's cursor while it runs.                              *)
Written ==
  CASE pc \in {"idle", "create", "publish_size"} -> Len(drecord)
    [] pc = "record" -> curr - 1
    [] OTHER -> 0

Status ==
  IF pc \in {"idle", "create"} THEN "ready"
  ELSE IF pc \in {"free_master", "dead"} THEN "removed"
  ELSE "rebuilding"

(* The i-th item, read at the place the record list keeps for it. *)
ItemAt(i) ==
  LET r   == drecord[i]
      buf == bytes[master]
  IN  [name |-> SubSeq(buf, r.offset - 3 - StrLen[r.name], r.offset - 4),
       size |-> IF SubSeq(buf, r.offset - 3, r.offset) = U32(r.size)
                THEN r.size ELSE NULL,
       data |-> SubSeq(buf, r.offset + 1, r.offset + r.size)]

Items == [i \in 1 .. Written |-> ItemAt(i)]

Store == INSTANCE SnapStore WITH
           status <- Status, order <- Registered, snap <- Items

(* Every step of the code is a step of SnapStore: no call loses, duplicates, *)
(* reorders or tears an item, an update touches the bytes of its own item    *)
(* only, and a rebuild captures every structure again, once; until an        *)
(* allocation fails that the code does not survive.                          *)
ImplementsStore ==
  Store!StoreInit /\ [][Contained' => Store!StoreNext \/ UNCHANGED Store!storeVars]_vars

=============================================================================
