------------------------------ MODULE SkelProbe ------------------------------
(***************************************************************************)
(* Binding and unbinding of the video4linux PCI skeleton driver:           *)
(* skeleton_probe acquires a ladder of resources, its error labels and     *)
(* skeleton_remove give them back, and the driver core frees what was      *)
(* acquired with devm_*.  Users open and close the video node meanwhile.   *)
(***************************************************************************)
EXTENDS Naturals, Sequences

CONSTANTS
  Users,      \* processes that may open the video node
  MaxProbes   \* bound: how often the device is bound

ASSUME ProbeBound == MaxProbes \in Nat

VARIABLES
  probe_pc,    \* "unbound", "probing", "bound", "releasing", "devres"
  call,        \* index in Calls of the next call of skeleton_probe
  todo,        \* releases still to be made
  held,        \* resources in use, beside the PCI device
  enable_cnt,  \* the count kept by pci_enable_device
  nomem,       \* how often devm_kzalloc failed
  probes,
  fhs          \* users with an open file handle

probe_vars == <<probe_pc, call, todo, held, enable_cnt, nomem, probes, fhs>>

Resources == {"skel", "irq", "v4l2_dev", "hdl", "ctx", "video"}

(* The error labels, as the releases from there to the return.             *)
disable_pci == <<"pci">>
(* Mutant: free_hdl returns instead of falling through to disable_pci.     *)
free_hdl_return == <<"hdl", "v4l2_dev">>
(* Mutant: the label free_hdl stands before the cleanup of the context.    *)
free_hdl_early == <<"ctx", "hdl", "v4l2_dev">> \o disable_pci
free_hdl == <<"hdl", "v4l2_dev">> \o disable_pci
free_ctx == <<"ctx">> \o free_hdl

(* The calls of skeleton_probe that can fail: what each acquires, and the  *)
(* label it jumps to.  The control handler exists even when adding a       *)
(* control to it failed.                                                   *)
Calls == <<
  [name |-> "pci_enable_device",       gets |-> {},           fail |-> <<>>],
  [name |-> "pci_set_dma_mask",        gets |-> {},           fail |-> disable_pci],
  [name |-> "devm_kzalloc",            gets |-> {"skel"},     fail |-> <<>>],
  [name |-> "devm_request_irq",        gets |-> {"irq"},      fail |-> disable_pci],
  [name |-> "v4l2_device_register",    gets |-> {"v4l2_dev"}, fail |-> disable_pci],
  [name |-> "v4l2_ctrl_handler_init",  gets |-> {"hdl"},      fail |-> free_hdl],
  [name |-> "vb2_queue_init",          gets |-> {},           fail |-> free_hdl],
  [name |-> "vb2_dma_contig_init_ctx", gets |-> {"ctx"},      fail |-> free_hdl],
  [name |-> "video_register_device",   gets |-> {"video"},    fail |-> free_ctx] >>

(* The releases of skeleton_remove, in its order.                          *)
RemoveOrder == <<"video", "hdl", "ctx", "v4l2_dev", "pci">>

ProbeInit ==
  /\ probe_pc = "unbound"
  /\ call = 1
  /\ todo = <<>>
  /\ held = {}
  /\ enable_cnt = 0
  /\ nomem = 0
  /\ probes = 0
  /\ fhs = {}

(* The PCI core matches the device and calls probe.                        *)
ProbeStart ==
  /\ probe_pc = "unbound"
  /\ probes < MaxProbes
  /\ probe_pc' = "probing"
  /\ call' = 1
  /\ probes' = probes + 1
  /\ UNCHANGED <<todo, held, enable_cnt, nomem, fhs>>

ProbeCall ==
  /\ probe_pc = "probing"
  /\ held' = held \cup Calls[call].gets
  /\ enable_cnt' = IF call = 1 THEN enable_cnt + 1 ELSE enable_cnt
  /\ IF call = Len(Calls)
     THEN probe_pc' = "bound" /\ call' = 1
     ELSE call' = call + 1 /\ UNCHANGED probe_pc
  /\ UNCHANGED <<todo, nomem, probes, fhs>>

ProbeFails ==
  /\ probe_pc = "probing"
  /\ probe_pc' = "releasing"
  /\ todo' = Calls[call].fail
  /\ held' = IF Calls[call].name = "v4l2_ctrl_handler_init"
             THEN held \cup Calls[call].gets ELSE held
  /\ nomem' = IF Calls[call].name = "devm_kzalloc" THEN nomem + 1 ELSE nomem
  /\ UNCHANGED <<call, enable_cnt, probes, fhs>>

(* The device is unplugged, or unbound through sysfs.                      *)
RemoveStart ==
  /\ probe_pc = "bound"
  /\ probe_pc' = "releasing"
  /\ todo' = RemoveOrder
  /\ UNCHANGED <<call, held, enable_cnt, nomem, probes, fhs>>

Release ==
  /\ probe_pc = "releasing"
  /\ todo # <<>>
  /\ todo' = Tail(todo)
  /\ held' = held \ {Head(todo)}
  /\ enable_cnt' = IF Head(todo) = "pci" THEN enable_cnt - 1 ELSE enable_cnt
  /\ UNCHANGED <<probe_pc, call, nomem, probes, fhs>>

(* The driver core releases managed resources, the interrupt first, after  *)
(* a failing probe and after remove.                                       *)
DevresRelease ==
  /\ \/ probe_pc = "releasing" /\ todo = <<>>
     \/ probe_pc = "devres"
  /\ IF "irq" \in held
     THEN held' = held \ {"irq"} /\ probe_pc' = "devres"
     ELSE held' = held \ {"skel"} /\ probe_pc' = "unbound"
  /\ UNCHANGED <<call, todo, enable_cnt, nomem, probes, fhs>>

(* v4l2_fh_open and vb2_fop_release of the node.                           *)
NodeOpen(u) ==
  /\ "video" \in held
  /\ u \notin fhs
  /\ fhs' = fhs \cup {u}
  /\ UNCHANGED <<probe_pc, call, todo, held, enable_cnt, nomem, probes>>

NodeClose(u) ==
  /\ u \in fhs
  /\ fhs' = fhs \ {u}
  /\ UNCHANGED <<probe_pc, call, todo, held, enable_cnt, nomem, probes>>

ProbeNext ==
  \/ ProbeStart \/ ProbeCall \/ ProbeFails \/ RemoveStart
  \/ Release \/ DevresRelease
  \/ \E u \in Users : NodeOpen(u) \/ NodeClose(u)

ProbeSpec == ProbeInit /\ [][ProbeNext]_probe_vars
-----------------------------------------------------------------------------
(* What a resource is built on: the objects it points into or is           *)
(* registered with.                                                        *)
Needs == [skel |-> {}, irq |-> {"skel"}, v4l2_dev |-> {"skel"},
          hdl |-> {"skel", "v4l2_dev"}, ctx |-> {"skel"},
          video |-> {"skel", "v4l2_dev", "hdl", "ctx"}]

(* No resource outlives what it is built on, through every error label of  *)
(* skeleton_probe, skeleton_remove and the managed releases that follow.   *)
LadderOrder == \A r \in held : Needs[r] \subseteq held

(* Every bind that ends, by a failing call or by skeleton_remove, leaves   *)
(* nothing behind: the PCI device stays enabled once for every failure of  *)
(* devm_kzalloc, whose return skips the label disable_pci, and only for    *)
(* those.                                                                  *)
ProbeBalanced ==
  probe_pc = "unbound" => held = {} /\ enable_cnt = nomem

(* Nothing is released that is not held: whichever label skeleton_probe    *)
(* jumps to, and in skeleton_remove, each release finds its resource, and  *)
(* the device is disabled only when this bind enabled it.                  *)
ReleasesHeld ==
  probe_pc = "releasing" /\ todo # <<>> =>
    IF Head(todo) = "pci" THEN enable_cnt > nomem ELSE Head(todo) \in held
=============================================================================
