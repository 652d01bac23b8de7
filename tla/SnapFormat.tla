----------------------------- MODULE SnapFormat -----------------------------
(***************************************************************************)
(* The binary layout of a dsnap snapshot, the bytes that                    *)
(* dsnap_construct_blob (src/src/dsnap.c) writes into the master buffer:    *)
(*                                                                         *)
(*   "dsnap" | version | u32 strlen(dir) | dir | u32 record count           *)
(*   then, per record:  u32 strlen(name) | name | u32 size | data           *)
(*                                                                         *)
(* A buffer is a sequence of cells, one per byte, so every offset and size  *)
(* of the C code keeps its value.  A cell is <<tag, x, k>>: the k-th byte   *)
(* of the string or of the memory content x, or a number.  What a string    *)
(* spells and what a structure holds is left abstract.                      *)
(***************************************************************************)
EXTENDS Naturals, Sequences

CONSTANTS
  Name,     (* the record names drivers pass to dsnap_add_to_blob          *)
  DirName,  (* ddir->name, the driver's name                               *)
  StrLen    (* strlen of each of them                                      *)

ASSUME StrLenAssumption == StrLen \in [Name \cup {DirName} -> Nat]

-----------------------------------------------------------------------------
(* Cells. *)
Num(v)    == <<"num", v, 0>>
Chr(n, k) == <<"chr", n, k>>
Dat(v, k) == <<"dat", v, k>>
Zero      == Num(0)
Garbage   == <<"heap", 0, 0>>   (* what kmalloc and krealloc leave in new bytes *)

(* The byte strings the code copies. *)
Magic     == [k \in 1 .. 5 |-> <<"magic", 0, k>>]
Version   == <<Num(1)>>
U32(v)    == <<Num(v % 256), Num((v \div 256) % 256),
               Num((v \div 65536) % 256), Num((v \div 16777216) % 256)>>
Chars(n)  == [k \in 1 .. StrLen[n] |-> Chr(n, k)]
Data(v, s) == [k \in 1 .. s |-> Dat(v, k)]

-----------------------------------------------------------------------------
(* The header that precedes the records, and its size as dsnap_init computes *)
(* it: two u32, the driver name, the magic number and the version.           *)
Header(count) ==
  Magic \o Version \o U32(StrLen[DirName]) \o Chars(DirName) \o U32(count)

HeaderSize == 4 * 2 + StrLen[DirName] + 5 + 1

(* What precedes a record's data, and the size dsnap_create_record allows    *)
(* for it: the name and two u32.                                             *)
RecordHeadSizeFirst(n, s) == U32(StrLen[n]) \o U32(s) \o Chars(n)
RecordHead(n, s)          == U32(StrLen[n]) \o Chars(n) \o U32(s)

RecordHeadSizeOneU32(n) == StrLen[n] + 4
RecordHeadSize(n)       == StrLen[n] + 4 * 2

(* memcpy of piece to offset off of the buffer buf. *)
Splice(buf, off, piece) ==
  [i \in 1 .. Len(buf) |->
     IF off < i /\ i <= off + Len(piece) THEN piece[i - off] ELSE buf[i]]

(* krealloc keeps the old bytes; the added ones hold whatever the heap held. *)
Grow(buf, n) ==
  [i \in 1 .. n |-> IF i <= Len(buf) THEN buf[i] ELSE Garbage]

=============================================================================
