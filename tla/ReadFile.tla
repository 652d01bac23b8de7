------------------------------ MODULE ReadFile ------------------------------
(***************************************************************************)
(* readFile of the user-space tool (src/src/dsnap.py): how a snapshot file  *)
(* is cut back into records.  The tool walks the file front to back and     *)
(* knows nothing of the offsets the driver side keeps per record.           *)
(*                                                                         *)
(* A file is a sequence of cells (SnapFormat).  A string or a data field is *)
(* returned as the cells it spans.  Four bytes that were never written as   *)
(* numbers read as Corrupt; struct.unpack or a later read then fails.       *)
(***************************************************************************)
EXTENDS SnapFormat

Corrupt == [ok |-> FALSE, driver |-> <<>>, items |-> <<>>]

(* recF.read(n) at position pos: short at the end of the file. *)
ReadAt(file, pos, n) ==
  SubSeq(file, pos + 1, IF pos + n <= Len(file) THEN pos + n ELSE Len(file))

IsU32(file, pos) ==
  /\ pos + 4 <= Len(file)
  /\ \A k \in 1 .. 4 : file[pos + k][1] = "num"

U32At(file, pos) ==
  file[pos + 1][2] + 256 * file[pos + 2][2]
    + 65536 * file[pos + 3][2] + 16777216 * file[pos + 4][2]

(* One turn of the loop over the records: unpack("I"), then the name with    *)
(* the item size, both of which fail on a short read, then the data, whose   *)
(* read is not checked and may come back short.                              *)
ReadRecord(file, st) ==
  LET pos     == st.pos
      nameLen == U32At(file, pos)
      sizePos == pos + 4 + nameLen
      dataPos == sizePos + 4
      size    == U32At(file, sizePos)
  IN  IF st.ok /\ IsU32(file, pos) /\ IsU32(file, sizePos)
      THEN [ok    |-> TRUE,
            pos   |-> dataPos + Len(ReadAt(file, dataPos, size)),
            items |-> Append(st.items,
                             [name |-> ReadAt(file, pos + 4, nameLen),
                              size |-> size,
                              data |-> ReadAt(file, dataPos, size)])]
      ELSE [st EXCEPT !.ok = FALSE]

(* The loop over recordCount records, as a function of the turns taken. *)
ReadRecords(file, start, count) ==
  LET after[i \in 0 .. count] ==
        IF i = 0 THEN [ok |-> TRUE, pos |-> start, items |-> <<>>]
                 ELSE ReadRecord(file, after[i - 1])
  IN  after[count]

(* readFile: magic number, version, driver name and record count, then the   *)
(* records.  Each record takes at least eight bytes, so a count that needs   *)
(* more bytes than the file has ends in the same error as trying it.         *)
readFile(file) ==
  LET nameLen  == U32At(file, 6)
      countPos == 10 + nameLen
      count    == U32At(file, countPos)
      result   == ReadRecords(file, countPos + 4, count)
  IN  IF /\ ReadAt(file, 0, 5) = Magic
         /\ ReadAt(file, 5, 1) = Version
         /\ IsU32(file, 6)
         /\ IsU32(file, countPos)
         /\ 8 * count <= Len(file)
         /\ result.ok
      THEN [ok |-> TRUE, driver |-> ReadAt(file, 10, nameLen),
            items |-> result.items]
      ELSE Corrupt

=============================================================================
