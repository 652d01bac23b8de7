----------------------------- MODULE DsnapReader ----------------------------
(***************************************************************************)
(* A process that reads the snapshot file while the driver runs.            *)
(*                                                                         *)
(* debugfs serves the file straight from the driver's memory: each read(2)  *)
(* takes blob->data and blob->size as they are at that moment and copies    *)
(* from the master buffer.  Nothing is locked on either side: dsnap.c has   *)
(* no lock at all, and what the drivers hold (adapter->mutex) is unknown to *)
(* debugfs.  An open file survives debugfs_remove, so reads go on after it. *)
(*                                                                         *)
(* debugfs is not part of the repository; it is modelled from how dsnap.c   *)
(* uses debugfs_create_blob and what it stores in the blob wrapper.         *)
(***************************************************************************)
EXTENDS Dsnap, ReadFile

CONSTANT Chunk    (* the most bytes that one read(2) copies                *)

ASSUME ChunkAssumption == Chunk \in Nat \ {0}

VARIABLES
  rpc,       (* "closed", "open", "fetched", "done" or "oops"               *)
  rdata,     (* blob->data as the read in progress loaded it                *)
  rsize,     (* blob->size as the read in progress loaded it                *)
  out,       (* the bytes read so far; their number is the file position    *)
  disturbed, (* did a dsnap call other than an update in place take a step  *)
             (* since the file was opened?                                  *)
  updated    (* the names updated in place since the file was opened        *)

readerVars == <<rpc, rdata, rsize, out, disturbed, updated>>
allVars    == <<vars, readerVars>>

-----------------------------------------------------------------------------
(* The file can be opened as soon as, and as long as, debugfs shows it.      *)
Open ==
  /\ rpc = "closed" /\ Entry \in objs
  /\ rpc' = "open" /\ out' = <<>>
  /\ disturbed' = (pc # "idle") /\ updated' = {}
  /\ UNCHANGED <<vars, rdata, rsize>>

(* read(2) loads the two fields of the blob.                                 *)
Fetch ==
  /\ rpc = "open"
  /\ rdata' = blobData /\ rsize' = blobSize
  /\ rpc' = "fetched"
  /\ UNCHANGED <<vars, out, disturbed, updated>>

(* What there is to copy at the file position.                               *)
Wanted ==
  LET left == IF rsize > Len(out) THEN rsize - Len(out) ELSE 0
  IN  IF left < Chunk THEN left ELSE Chunk

ReadFault ==
  IF Wanted = 0 THEN "none"
  ELSE IF rdata \notin Buf THEN "wild"
  ELSE IF bst[rdata] = "freed" THEN "freed"
  ELSE IF Len(out) + Wanted > Len(bytes[rdata]) THEN "overrun"
  ELSE "none"

(* ... and copies.  Nothing left to copy is the end of the file.             *)
Copy ==
  /\ rpc = "fetched"
  /\ IF ReadFault = "none"
     THEN /\ rpc' = IF Wanted = 0 THEN "done" ELSE "open"
          /\ out' = IF Wanted = 0 THEN out
                    ELSE out \o SubSeq(bytes[rdata], Len(out) + 1, Len(out) + Wanted)
     ELSE rpc' = "oops" /\ UNCHANGED out
  /\ UNCHANGED <<vars, rdata, rsize, disturbed, updated>>

(* The reader may stop at any point, and may come back.                      *)
Close ==
  /\ rpc \in {"open", "done"}
  /\ rpc' = "closed" /\ rdata' = NULL /\ rsize' = 0 /\ out' = <<>>
  /\ disturbed' = FALSE /\ updated' = {}
  /\ UNCHANGED vars

ReaderStep == Open \/ Fetch \/ Copy \/ Close

(* The driver's steps, and what the open file's history remembers of them.   *)
Watched(names, other) ==
  /\ updated' = IF rpc = "closed" THEN {} ELSE updated \cup names
  /\ disturbed' = (rpc # "closed" /\ (disturbed \/ other))
  /\ UNCHANGED <<rpc, rdata, rsize, out>>

OtherCall ==
  \/ DsnapInit \/ CreateBlob \/ InitBlob \/ AllocMaster
  \/ ZeroMaster \/ WriteHeader \/ WriteRecord \/ PublishData \/ PublishSize
  \/ \E c \in Call : AddRecord(c)
  \/ UseOfNullFile \/ CreateRecord \/ ExpandMaster \/ RemoveEntry \/ FreeAll

ReaderInit ==
  /\ Init
  /\ rpc = "closed" /\ rdata = NULL /\ rsize = 0 /\ out = <<>>
  /\ disturbed = FALSE /\ updated = {}

ReaderNext ==
  \/ ReaderStep
  \/ \E c \in Call : UpdateRecord(c) /\ Watched({c.name}, FALSE)
  \/ OtherCall /\ Watched({}, TRUE)
  \/ MemWrite /\ UNCHANGED readerVars

ReaderSpec == ReaderInit /\ [][ReaderNext]_allVars

-----------------------------------------------------------------------------
(* As long as the driver does nothing but update records in place, a reader  *)
(* of any chunk size takes no fault.                                         *)
ReadSafe == rpc = "oops" => disturbed

(* A file that was read from its beginning to its end while the driver did   *)
(* nothing but update records in place is a snapshot dsnap.py accepts, with  *)
(* every record under its name and with its size; and the data of a record   *)
(* that was not updated meanwhile is what the master buffer holds.           *)
ReadIntact ==
  (rpc = "done" /\ ~disturbed /\ failed = {}) =>
    LET read == readFile(out)
        now  == readFile(bytes[master])
    IN  /\ read.ok /\ Len(read.items) = Len(drecord)
        /\ \A i \in 1 .. Len(drecord) :
             /\ read.items[i].name = Chars(drecord[i].name)
             /\ read.items[i].size = drecord[i].size
             /\ drecord[i].name \notin updated => read.items[i] = now.items[i]

=============================================================================
