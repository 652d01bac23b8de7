----------------------------- MODULE SnapStore ------------------------------
(***************************************************************************)
(* What dsnap promises the driver that uses it, without lists, offsets,     *)
(* buffers or blobs: a snapshot is a sequence of items, one per registered  *)
(* name, in the order of registration.  Registering a name rebuilds the     *)
(* snapshot and captures every registered structure again, each at its own  *)
(* moment; passing a registered name again captures that one alone.  A      *)
(* passed size that differs from the registered one changes nothing.        *)
(***************************************************************************)
EXTENDS SnapFormat

CONSTANTS Loc, Value, Call

VARIABLES
  mem,      (* the driver's structures                                      *)
  status,   (* "rebuilding", "ready" or "removed"                           *)
  order,    (* what is registered: [name, loc, size], oldest first          *)
  snap      (* the items of the snapshot, as a reader parses them           *)

storeVars == <<mem, status, order, snap>>

Item(c) ==
  [name |-> Chars(c.name), size |-> c.size, data |-> Data(mem[c.loc], c.size)]

StoreInit ==
  /\ mem \in [Loc -> Value]
  /\ status = "rebuilding" /\ order = <<>> /\ snap = <<>>

Register(c) ==
  /\ status = "ready"
  /\ \A i \in 1 .. Len(order) : order[i].name # c.name
  /\ order' = Append(order, c) /\ snap' = <<>> /\ status' = "rebuilding"
  /\ UNCHANGED mem

Capture ==
  /\ status = "rebuilding" /\ Len(snap) < Len(order)
  /\ snap' = Append(snap, Item(order[Len(snap) + 1]))
  /\ UNCHANGED <<mem, status, order>>

Publish ==
  /\ status = "rebuilding" /\ Len(snap) = Len(order)
  /\ status' = "ready"
  /\ UNCHANGED <<mem, order, snap>>

Update(c) ==
  /\ status = "ready"
  /\ \E i \in 1 .. Len(order) :
       /\ order[i].name = c.name /\ order[i].size = c.size
       /\ order' = [order EXCEPT ![i] = c]
       /\ snap'  = [snap EXCEPT ![i] = Item(c)]
  /\ UNCHANGED <<mem, status>>

Remove ==
  /\ status = "ready" /\ status' = "removed" /\ snap' = <<>>
  /\ UNCHANGED <<mem, order>>

StoreMemWrite ==
  /\ \E l \in Loc, v \in Value : mem' = [mem EXCEPT ![l] = v]
  /\ UNCHANGED <<status, order, snap>>

StoreNext ==
  \/ \E c \in Call : Register(c) \/ Update(c)
  \/ Capture \/ Publish \/ Remove \/ StoreMemWrite

StoreSpec == StoreInit /\ [][StoreNext]_storeVars

=============================================================================
