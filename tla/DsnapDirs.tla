----------------------------- MODULE DsnapDirs ------------------------------
(***************************************************************************)
(* The debugfs files and directories of dsnap, for all the adapters of all  *)
(* the drivers that use it at once.                                         *)
(*                                                                         *)
(* dsnap.ko has one static variable, debugfs_root, for the directory.  Each *)
(* dsnap_init may overwrite it and each dsnap_cleanup removes what it       *)
(* points to, without a lock.  The calls of different adapters interleave   *)
(* as probe and remove do: one at a time, or overlapping.                   *)
(*                                                                         *)
(* debugfs is external: debugfs_create_dir and debugfs_create_blob return   *)
(* NULL when the name exists in the parent; debugfs_remove of NULL or of a  *)
(* directory that is not empty does nothing.  A dentry that was removed is  *)
(* not used again for another file, so a stale pointer stays visible.       *)
(***************************************************************************)
EXTENDS Naturals, FiniteSets

CONSTANTS
  Adapter,     (* the PCI functions that a driver binds to                  *)
  Driver,
  DriverOf,    (* the driver of each adapter: dsnap_init's dir_name         *)
  FileName,    (* each adapter's file_name: bus_slot_function               *)
  MaxDentry,   (* how many dentries debugfs hands out: bounds the model     *)
  Overlap,     (* the schedules considered: may the dsnap calls of the      *)
               (* adapters overlap?                                         *)
  Enabled,     (* the kernels considered: built with debugfs, or without    *)
  NoDentry,    (* NULL, as a dentry                                         *)
  ERR          (* ERR_PTR(-ENODEV), what every debugfs call returns if not  *)

ASSUME DriverAssumption == DriverOf \in [Adapter -> Driver]
ASSUME ChoiceAssumption == Overlap \subseteq BOOLEAN /\ Enabled \subseteq BOOLEAN
ASSUME DentryAssumption == MaxDentry \in Nat /\ NoDentry # ERR /\ {NoDentry, ERR} \cap Nat = {}

VARIABLES
  enabled,       (* is this kernel built with debugfs?                      *)
  overlap,       (* may calls overlap?                                      *)
  debugfs_root,  (* the static variable                                     *)
  entry,         (* dfile->entry of each adapter                            *)
  call,          (* what each adapter's driver is doing: "absent" (not      *)
                 (* probed, or removed), "init", "cleanup" (the calls in    *)
                 (* progress) or "bound" (between them)                     *)
  tree,          (* the dentries in debugfs: [name, dir], dir NULL for the  *)
                 (* debugfs root                                            *)
  gone,          (* dentries that have been removed                         *)
  dirsFault      (* "none" or what a dsnap call ran into                    *)

dirsVars == <<enabled, overlap, debugfs_root, entry, call, tree, gone, dirsFault>>

-----------------------------------------------------------------------------
Exists(name, dir) == \E d \in DOMAIN tree : tree[d] = [name |-> name, dir |-> dir]
Children(dir)     == {d \in DOMAIN tree : tree[d].dir = dir}
Dentry            == 1 .. MaxDentry
Fresh             == Dentry \cap {Cardinality(DOMAIN tree \cup gone) + 1}

(* debugfs_create_dir and debugfs_create_blob, returning d.                  *)
CreateDentry(d, name, dir) ==
  \/ ~enabled /\ d = ERR /\ UNCHANGED tree
  \/ enabled /\ Exists(name, dir) /\ d = NoDentry /\ UNCHANGED tree
  \/ /\ enabled /\ ~Exists(name, dir) /\ d \in Fresh
     /\ tree' = [x \in DOMAIN tree \cup {d} |->
                   IF x = d THEN [name |-> name, dir |-> dir] ELSE tree[x]]

(* debugfs_remove.                                                           *)
RemoveDentry(d) ==
  IF d \in DOMAIN tree /\ Children(d) = {}
  THEN /\ tree' = [x \in DOMAIN tree \ {d} |-> tree[x]]
       /\ gone' = gone \cup {d}
  ELSE UNCHANGED <<tree, gone>>

(* May a call of adapter a begin?                                            *)
MayBegin(a) ==
  /\ dirsFault = "none"
  /\ overlap \/ \A b \in Adapter : call[b] \in {"absent", "bound"}

-----------------------------------------------------------------------------
(* dsnap_init up to dsnap_create_blob.                                       *)
MakeDirOnce(a) ==
  /\ call[a] = "absent" /\ MayBegin(a)
  /\ call' = [call EXCEPT ![a] = "init"]
  /\ \E d \in Dentry \cup {NoDentry, ERR} :
       /\ CreateDentry(d, DriverOf[a], NoDentry)
       /\ debugfs_root' = IF debugfs_root = NoDentry THEN d ELSE debugfs_root
  /\ UNCHANGED <<enabled, overlap, entry, gone, dirsFault>>
MakeDir(a) ==
  /\ call[a] = "absent" /\ MayBegin(a)
  /\ call' = [call EXCEPT ![a] = "init"]
  /\ \E d \in Dentry \cup {NoDentry, ERR} :
       /\ CreateDentry(d, DriverOf[a], NoDentry)
       /\ debugfs_root' = IF d # NoDentry THEN d ELSE debugfs_root
  /\ UNCHANGED <<enabled, overlap, entry, gone, dirsFault>>

(* dsnap_create_blob, in the directory that debugfs_root names by now.       *)
MakeFile(a) ==
  /\ call[a] = "init" /\ dirsFault = "none"
  /\ \/ /\ debugfs_root \in gone
        /\ dirsFault' = "freed_dentry"
        /\ UNCHANGED <<call, entry, tree>>
     \/ /\ debugfs_root \notin gone
        /\ \E d \in Dentry \cup {NoDentry, ERR} :
             /\ CreateDentry(d, FileName[a], debugfs_root)
             /\ entry' = [entry EXCEPT ![a] = d]
        /\ call' = [call EXCEPT ![a] = "bound"]
        /\ UNCHANGED dirsFault
  /\ UNCHANGED <<enabled, overlap, debugfs_root, gone>>

(* dsnap_cleanup: first the file ...                                         *)
RemoveFile(a) ==
  /\ call[a] = "bound" /\ MayBegin(a)
  /\ call' = [call EXCEPT ![a] = "cleanup"]
  /\ RemoveDentry(entry[a])
  /\ UNCHANGED <<enabled, overlap, debugfs_root, entry, dirsFault>>

(* ... then the directory.  debugfs_root keeps its value.                    *)
RemoveDirClearing(a) ==
  /\ call[a] = "cleanup" /\ dirsFault = "none"
  /\ call' = [call EXCEPT ![a] = "absent"]
  /\ RemoveDentry(debugfs_root)
  /\ debugfs_root' = NoDentry
  /\ UNCHANGED <<enabled, overlap, entry, dirsFault>>
RemoveDir(a) ==
  /\ call[a] = "cleanup" /\ dirsFault = "none"
  /\ \/ /\ debugfs_root \in gone
        /\ dirsFault' = "freed_dentry"
        /\ UNCHANGED <<call, tree, gone>>
     \/ /\ debugfs_root \notin gone
        /\ call' = [call EXCEPT ![a] = "absent"]
        /\ RemoveDentry(debugfs_root)
        /\ UNCHANGED dirsFault
  /\ UNCHANGED <<enabled, overlap, debugfs_root, entry>>

DirsInit ==
  /\ enabled \in Enabled /\ overlap \in Overlap /\ debugfs_root = NoDentry
  /\ entry = [a \in Adapter |-> NoDentry]
  /\ call = [a \in Adapter |-> "absent"]
  /\ tree = [d \in {} |-> NoDentry] /\ gone = {}
  /\ dirsFault = "none"

DirsNext == \E a \in Adapter : MakeDir(a) \/ MakeFile(a) \/ RemoveFile(a) \/ RemoveDir(a)

DirsSpec == DirsInit /\ [][DirsNext]_dirsVars

-----------------------------------------------------------------------------
(* As long as calls do not overlap, debugfs_root never leads one to a        *)
(* directory that was removed, although it keeps its value (dsnap.c:385).    *)
NoStaleDir == ~overlap => dirsFault = "none"

(* Whatever the schedule, unless it has led to such a directory, every       *)
(* adapter that has been probed, and not removed, has its own file in its    *)
(* driver's directory.                                                       *)
OwnFile ==
  \A a \in Adapter :
    (call[a] = "bound" /\ enabled /\ dirsFault = "none") =>
      /\ entry[a] \in DOMAIN tree /\ tree[entry[a]].name = FileName[a]
      /\ LET dir == tree[entry[a]].dir
         IN  dir \in DOMAIN tree /\ tree[dir] = [name |-> DriverOf[a], dir |-> NoDentry]

(* README 3.3: dsnap_cleanup removes "any files and directories created for  *)
(* dsnap by debugfs": when the last adapter has gone, nothing is left.       *)
NothingLeft == (\A a \in Adapter : call[a] = "absent") => DOMAIN tree = {}

=============================================================================
