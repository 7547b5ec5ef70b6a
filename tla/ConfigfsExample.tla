--------------------------- MODULE ConfigfsExample ---------------------------
(***************************************************************************)
(* The configfs example module: three subsystems registered with roll      *)
(* back, items and groups made by mkdir and released with their last       *)
(* reference, and the attribute handlers of open files.  configfs itself   *)
(* (the tree, the references it takes, the module references that keep a   *)
(* used module loaded) is external.                                        *)
(***************************************************************************)
EXTENDS Integers, Sequences

CONSTANTS
  Objects,            \* memory for simple_child and simple_children
  Names,              \* directory names
  Readers,            \* processes that read showme
  Numbers,            \* numbers written to storeme
  ULONG_MAX, INT_MAX,
  MkdirPhases,        \* module phases in which users make directories
  MaxReads,           \* bound: reads of showme
  MaxOpen             \* bound: open files of one item

ASSUME ConfigfsNumbers ==
  /\ Numbers \subseteq Nat
  /\ INT_MAX \in Nat /\ ULONG_MAX \in Nat /\ INT_MAX < ULONG_MAX
  /\ MaxReads \in Nat /\ MaxOpen \in Nat
  /\ MkdirPhases \subseteq {"init", "live"}

VARIABLES
  cfs_pc, subsys,     \* phase of the module; index of init's or exit's loop
  registered,         \* subsystems in the tree
  kind, dir, opened,  \* of every object: what it is, where it is, open files
  storeme,            \* of every object
  childless,          \* storeme of 01-childless
  showme, reading     \* of 01-childless; step of every reader of showme

cfs_vars ==
  <<cfs_pc, subsys, registered, kind, dir, opened, storeme,
    childless, showme, reading>>

(* 01-childless, 02-simple-children and 03-group-children.                 *)
example_subsys == 1..3

(* Directories: groups of 03, and children of 02 or of a group.            *)
GroupDirs == {<<3, g>> : g \in Names}
ChildDirs == {<<2, n>> : n \in Names} \cup {<<3, g, n>> : g, n \in Names}
Nowhere == <<>>
Under(d) == {o \in Objects : Len(dir[o]) = 3 /\ SubSeq(dir[o], 1, 2) = d}

ConfigfsInit ==
  /\ cfs_pc = "out"
  /\ subsys = 1
  /\ registered = {}
  /\ kind = [o \in Objects |-> "free"]
  /\ dir = [o \in Objects |-> Nowhere]
  /\ opened = [o \in Objects |-> 0]
  /\ storeme = [o \in Objects |-> 0]
  /\ childless = 0
  /\ showme = 0
  /\ reading = [r \in Readers |-> -2]

items == <<kind, dir, opened, storeme>>

(* A directory or an open file keeps the module loaded; the static data is *)
(* fresh whenever it is loaded again.                                      *)
module_in_use ==
  \/ \E o \in Objects : kind[o] # "free"
  \/ \E r \in Readers : reading[r] # -2

ModuleLoad ==
  /\ cfs_pc = "out" /\ ~module_in_use
  /\ cfs_pc' = "init" /\ subsys' = 1
  /\ childless' = 0 /\ showme' = 0
  /\ UNCHANGED <<registered, items, reading>>

configfs_example_init ==
  /\ cfs_pc = "init"
  /\ \/ /\ registered' = registered \cup {subsys}
        /\ IF subsys + 1 \in example_subsys
           THEN subsys' = subsys + 1 /\ UNCHANGED cfs_pc
           ELSE subsys' = 1 /\ cfs_pc' = "live"
     \/ /\ cfs_pc' = "out_unregister" /\ subsys' = subsys - 1
        /\ UNCHANGED registered
  /\ UNCHANGED <<items, childless, showme, reading>>

(* Mutant: the roll back starts at the subsystem that failed and stops     *)
(* before the first one.                                                   *)
out_unregister_short ==
  /\ cfs_pc = "out_unregister"
  /\ IF subsys > 1
     THEN registered' = registered \ {subsys} /\ subsys' = subsys - 1 /\ UNCHANGED cfs_pc
     ELSE cfs_pc' = "out" /\ UNCHANGED <<registered, subsys>>
  /\ UNCHANGED <<items, childless, showme, reading>>

out_unregister ==
  /\ cfs_pc = "out_unregister"
  /\ IF subsys >= 1
     THEN registered' = registered \ {subsys} /\ subsys' = subsys - 1 /\ UNCHANGED cfs_pc
     ELSE cfs_pc' = "out" /\ UNCHANGED <<registered, subsys>>
  /\ UNCHANGED <<items, childless, showme, reading>>

(* rmmod is refused while the module is in use.                            *)
ModuleUnload ==
  /\ cfs_pc = "live" /\ ~module_in_use
  /\ cfs_pc' = "exit" /\ subsys' = 1
  /\ UNCHANGED <<registered, items, childless, showme, reading>>

configfs_example_exit ==
  /\ cfs_pc = "exit"
  /\ registered' = registered \ {subsys}
  /\ IF subsys + 1 \in example_subsys
     THEN subsys' = subsys + 1 /\ UNCHANGED cfs_pc
     ELSE subsys' = 1 /\ cfs_pc' = "out"
  /\ UNCHANGED <<items, childless, showme, reading>>

(* mkdir: the memory is allocated, or -ENOMEM leaves everything alone; the *)
(* object enters the tree with one reference.                              *)
Mkdir(o, k, d) ==
  /\ cfs_pc \in MkdirPhases /\ d[1] \in registered
  /\ kind[o] = "free" /\ \A p \in Objects : dir[p] # d
  /\ Len(d) = 3 => \E p \in Objects : dir[p] = SubSeq(d, 1, 2)
  /\ kind' = [kind EXCEPT ![o] = k]
  /\ dir' = [dir EXCEPT ![o] = d]
  /\ storeme' = [storeme EXCEPT ![o] = 0]
  /\ UNCHANGED <<cfs_pc, subsys, registered, opened, childless, showme, reading>>

simple_children_make_item(o) == \E d \in ChildDirs : Mkdir(o, "child", d)
group_children_make_group(o) == \E d \in GroupDirs : Mkdir(o, "group", d)

(* The last reference of an object is gone: simple_child_release and       *)
(* simple_children_release free it.                                        *)
release(o) == kind' = [kind EXCEPT ![o] = "free"]
(* Mutant: rmdir frees the memory whoever still uses it.                   *)
put_frees(o, refs) == release(o)
put(o, refs) == IF refs = 0 THEN release(o) ELSE UNCHANGED kind

(* rmdir of an empty directory drops the reference of the tree.            *)
Rmdir(o) ==
  /\ dir[o] # Nowhere /\ Under(dir[o]) = {} /\ dir[o][1] \in registered
  /\ dir' = [dir EXCEPT ![o] = Nowhere]
  /\ put(o, opened[o])
  /\ UNCHANGED <<cfs_pc, subsys, registered, opened, storeme, childless, showme, reading>>

(* An open attribute file holds a reference of its item.                   *)
OpenAttr(o) ==
  /\ dir[o] # Nowhere /\ dir[o][1] \in registered /\ opened[o] < MaxOpen
  /\ opened' = [opened EXCEPT ![o] = @ + 1]
  /\ UNCHANGED <<cfs_pc, subsys, registered, kind, dir, storeme, childless, showme, reading>>

CloseAttr(o) ==
  /\ opened[o] > 0
  /\ opened' = [opened EXCEPT ![o] = @ - 1]
  /\ put(o, opened[o] - 1 + (IF dir[o] = Nowhere THEN 0 ELSE 1))
  /\ UNCHANGED <<cfs_pc, subsys, registered, dir, storeme, childless, showme, reading>>

(* simple_strtoul wraps; values above INT_MAX are refused with -ERANGE.    *)
strtoul(n) == n % (ULONG_MAX + 1)
accepted(n) == strtoul(n) <= INT_MAX

simple_child_attr_store(o, n) ==
  /\ opened[o] > 0 /\ kind[o] = "child" /\ accepted(n)
  /\ storeme' = [storeme EXCEPT ![o] = strtoul(n)]
  /\ UNCHANGED <<cfs_pc, subsys, registered, kind, dir, opened, childless, showme, reading>>

childless_storeme_write(n) ==
  /\ 1 \in registered /\ accepted(n)
  /\ childless' = strtoul(n)
  /\ UNCHANGED <<cfs_pc, subsys, registered, items, showme, reading>>

(* showme is printed, loaded and stored back incremented; no lock is held, *)
(* so readers with files of their own interleave.  reading: -2 idle, -1    *)
(* printed, otherwise the value loaded by the increment.                   *)
childless_showme_read(r) ==
  /\ \/ /\ reading[r] = -2 /\ 1 \in registered /\ showme < MaxReads
        /\ reading' = [reading EXCEPT ![r] = -1] /\ UNCHANGED showme
     \/ /\ reading[r] = -1
        /\ reading' = [reading EXCEPT ![r] = showme] /\ UNCHANGED showme
     \/ /\ reading[r] >= 0
        /\ showme' = reading[r] + 1
        /\ reading' = [reading EXCEPT ![r] = -2]
  /\ UNCHANGED <<cfs_pc, subsys, registered, items, childless>>

ConfigfsNext ==
  \/ ModuleLoad \/ configfs_example_init \/ out_unregister
  \/ ModuleUnload \/ configfs_example_exit
  \/ \E o \in Objects :
       \/ simple_children_make_item(o) \/ group_children_make_group(o)
       \/ Rmdir(o) \/ OpenAttr(o) \/ CloseAttr(o)
       \/ \E n \in Numbers : simple_child_attr_store(o, n)
  \/ \E n \in Numbers : childless_storeme_write(n)
  \/ \E r \in Readers : childless_showme_read(r)

ConfigfsSpec == ConfigfsInit /\ [][ConfigfsNext]_cfs_vars
-----------------------------------------------------------------------------
(* The memory made by make_item and make_group is exactly what is in use:  *)
(* an object in the tree or behind an open file is never freed, and one    *)
(* that is in neither place is freed, in whatever order rmdir and close    *)
(* drop their references.                                                  *)
ItemsExact ==
  \A o \in Objects : kind[o] # "free" <=> dir[o] # Nowhere \/ opened[o] > 0

(* An unloaded module has no subsystem left in the tree: a registration    *)
(* that fails takes back those before it, and exit takes back all three.   *)
NoSubsystemLeft == cfs_pc = "out" => registered = {}
=============================================================================
