----------------------------- MODULE ModuleProofs -----------------------------
(***************************************************************************)
(* Proofs about the kernel modules' resources: what the probe and remove   *)
(* functions of the video skeleton, the configfs example and the connector *)
(* test module acquire and give back.                                      *)
(***************************************************************************)
EXTENDS SkelProbe, ConfigfsExample, Connector, TLAPS

-----------------------------------------------------------------------------
(* cn_test.c.  The ids registered and the id in cn_test_id, at every step. *)
ConnectorInv ==
  /\ callbacks \subseteq {0, 1} /\ stale \in BOOLEAN
  /\ cn_timer # "off" => cn_pc \in {"loaded", "del_timer"}
  /\ \/ cn_pc = "out" /\ callbacks = (IF stale THEN {0} ELSE {})
     \/ cn_pc = "add_first" /\ val = 0 /\ callbacks = (IF stale THEN {0} ELSE {})
     \/ cn_pc = "add_second" /\ val = 1 /\ callbacks = {0} /\ stale = FALSE
     \/ cn_pc \in {"loaded", "del_timer", "del_second"} /\ val = 1 /\ callbacks = {0, 1}
        /\ stale = FALSE
     \/ cn_pc = "del_first" /\ val = 0 /\ callbacks = {0} /\ stale = FALSE

LEMMA ConnectorInit_Inv == ConnectorInit => ConnectorInv
  BY DEF ConnectorInit, ConnectorInv

LEMMA ConnectorNext_Inv == ConnectorInv /\ [ConnectorNext]_cn_vars => ConnectorInv'
  <1> SUFFICES ASSUME ConnectorInv, [ConnectorNext]_cn_vars PROVE ConnectorInv'
    OBVIOUS
  <1> USE DEF ConnectorInv
  <1>1. CASE InitModule
    BY <1>1 DEF InitModule
  <1>2. CASE AddFirst
    <2>1. CASE stale = TRUE
      <3>1. callbacks = {0} /\ cn_pc' = "out" /\ UNCHANGED <<callbacks, stale, cn_timer>>
        BY <1>2, <2>1 DEF AddFirst
      <3> QED BY <1>2, <2>1, <3>1 DEF AddFirst
    <2>2. CASE stale = FALSE
      <3>1. callbacks = {} /\ val = 0 /\ cn_timer' = "off" /\ stale' = FALSE
        BY <1>2, <2>2 DEF AddFirst
      <3>2. CASE cn_pc' = "add_second"
        <4>1. callbacks' = {0} /\ val' = 1
          BY <1>2, <3>1, <3>2 DEF AddFirst
        <4> QED BY <3>1, <3>2, <4>1
      <3>3. CASE cn_pc' = "out" /\ callbacks' = callbacks
        BY <3>1, <3>3
      <3> QED BY <1>2, <3>2, <3>3 DEF AddFirst
    <2> QED BY <2>1, <2>2
  <1>3. CASE AddSecond
    <2>1. cn_timer = "off" /\ val = 1 /\ callbacks = {0} /\ stale = FALSE
      BY <1>3 DEF AddSecond
    <2>2. CASE cn_pc' = "loaded"
      BY <1>3, <2>1, <2>2 DEF AddSecond
    <2>3. CASE cn_pc' = "out" /\ callbacks' = callbacks \ {val} /\ stale' = TRUE
      <3>1. callbacks' = {0} /\ cn_timer' = "off"
        BY <1>3, <2>1, <2>3 DEF AddSecond
      <3> QED BY <2>3, <3>1
    <2> QED BY <1>3, <2>2, <2>3 DEF AddSecond
  <1>4. CASE FiniModule
    BY <1>4 DEF FiniModule
  <1>5. CASE DelTimer
    BY <1>5 DEF DelTimer
  <1>6. CASE DelSecond
    BY <1>6 DEF DelSecond
  <1>7. CASE DelFirst
    BY <1>7 DEF DelFirst
  <1>8. CASE TimerSend
    BY <1>8 DEF TimerSend
  <1>9. CASE TimerRearm
    BY <1>9 DEF TimerRearm
  <1>10. CASE UconStart \/ UconPoll \/ UconRecv \/ UconSend
    <2>1. UNCHANGED module_vars
      BY <1>10 DEF UconStart, UconPoll, UconRecv, UconSend
    <2> QED BY <2>1 DEF module_vars
  <1>11. CASE UNCHANGED cn_vars
    BY <1>11 DEF cn_vars
  <1> QED
    BY <1>1, <1>2, <1>3, <1>4, <1>5, <1>6, <1>7, <1>8, <1>9, <1>10, <1>11
    DEF ConnectorNext

(* However often the module is loaded and unloaded, its timer runs only    *)
(* between the end of cn_test_init and del_timer_sync.                     *)
THEOREM TimerInModuleAlways == ConnectorSpec => []TimerInModule
  <1>1. ConnectorInv => TimerInModule
    BY DEF ConnectorInv, TimerInModule
  <1> QED
    BY <1>1, ConnectorInit_Inv, ConnectorNext_Inv, PTL DEF ConnectorSpec

(* A load of the connector test that ends leaves no callback registered,   *)
(* except for the first one when the second registration failed.           *)
THEOREM NoStaleCallbackAlways == ConnectorSpec => []NoStaleCallback
  <1>1. ConnectorInv => NoStaleCallback
    BY DEF ConnectorInv, NoStaleCallback
  <1> QED
    BY <1>1, ConnectorInit_Inv, ConnectorNext_Inv, PTL DEF ConnectorSpec

(* Two messages in a row show the losses between them; so do the newest    *)
(* message and the one the timer sends next, while ucon can still get it.  *)
Gap(x, y) == x.load = y.load /\ x.load # 0 => y.seq - x.seq = 1 + y.lost - x.lost
NextSeq == IF cn_timer = "running" THEN counter + 1 ELSE counter
Newest == IF rcvq = <<>> THEN last ELSE rcvq[Len(rcvq)]

GapInv ==
  /\ counter \in Nat /\ loads \in Nat /\ lost \in Nat
  /\ rcvq \in Seq(Message) /\ last \in Message
  /\ last.load <= loads /\ \A i \in 1..Len(rcvq) : rcvq[i].load <= loads
  /\ ucon = "off" => rcvq = <<>> /\ last.load = 0
  /\ ucon = "recv" => rcvq # <<>> \/ overrun
  /\ rcvq # <<>> => Gap(last, rcvq[1])
  /\ \A i \in 1..(Len(rcvq) - 1) : Gap(rcvq[i], rcvq[i + 1])
  /\ ucon \in {"poll", "recv", "send"} =>
       Gap(Newest, [load |-> loads, seq |-> NextSeq, lost |-> lost])

LEMMA GapInit_Inv == ConnectorInit => GapInv
  BY DEF ConnectorInit, GapInv, Message, None

LEMMA GapNext_Inv == GapInv /\ ConnectorInv /\ [ConnectorNext]_cn_vars => GapInv'
  <1> SUFFICES ASSUME GapInv, ConnectorInv, [ConnectorNext]_cn_vars PROVE GapInv'
    OBVIOUS
  <1>n. Newest \in Message /\ Newest.load <= loads
    BY DEF GapInv, Newest
  <1>1. CASE InitModule
    <2>1. /\ loads' = loads + 1 /\ lost' = 0 /\ counter' = 0 /\ NextSeq' \in Nat
          /\ UNCHANGED <<ucon, rcvq, overrun, last, sends>>
      BY <1>1 DEF InitModule, ucon_vars, NextSeq
    <2>2. Newest' = Newest
      BY <2>1 DEF Newest
    <2>3. Gap(Newest, [load |-> loads, seq |-> NextSeq, lost |-> lost])'
      BY <1>n, <2>1, <2>2 DEF Gap, Message, GapInv
    <2>4. last.load <= loads + 1 /\ \A i \in 1..Len(rcvq) : rcvq[i].load <= loads + 1
      <3>1. last.load \in Nat /\ last.load <= loads /\ loads \in Nat
        BY DEF GapInv, Message
      <3>2. ASSUME NEW i \in 1..Len(rcvq) PROVE rcvq[i].load <= loads + 1
        <4>1. rcvq[i] \in Message
          BY DEF GapInv
        <4>2. rcvq[i].load \in Nat /\ rcvq[i].load <= loads
          BY <4>1 DEF GapInv, Message
        <4> QED BY <3>1, <4>2
      <3> QED BY <3>1, <3>2
    <2>5. /\ rcvq # <<>> => Gap(last, rcvq[1])
          /\ \A i \in 1..(Len(rcvq) - 1) : Gap(rcvq[i], rcvq[i + 1])
      BY DEF GapInv
    <2>6. ucon = "off" => rcvq = <<>> /\ last.load = 0
      BY DEF GapInv
    <2>7. ucon = "recv" => rcvq # <<>> \/ overrun
      BY DEF GapInv
    <2>8. loads + 1 \in Nat /\ rcvq \in Seq(Message) /\ last \in Message
      BY DEF GapInv
    <2> QED BY <2>1, <2>3, <2>4, <2>5, <2>6, <2>7, <2>8 DEF GapInv
  <1>2. CASE AddFirst \/ AddSecond \/ FiniModule \/ DelTimer \/ DelSecond \/ DelFirst
    <2>1. /\ UNCHANGED <<counter, loads, lost, ucon, rcvq, overrun, last, sends>>
          /\ (cn_timer # "running" /\ cn_timer' # "running") \/ cn_timer' = cn_timer
      BY <1>2 DEF AddFirst, AddSecond, FiniModule, DelTimer, DelSecond, DelFirst,
                  ucon_vars, ConnectorInv
    <2>2. NextSeq' = NextSeq /\ Newest' = Newest
      BY <2>1 DEF NextSeq, Newest
    <2> QED BY <2>1, <2>2 DEF GapInv, Gap
  <1>3. CASE TimerSend
    <2> DEFINE m == [load |-> loads, seq |-> counter, lost |-> lost]
    <2>1. /\ NextSeq = counter /\ NextSeq' = counter + 1 /\ counter' = counter
          /\ loads' = loads /\ last' = last /\ ucon' = ucon
          /\ counter \in Nat /\ loads \in Nat /\ lost \in Nat
      BY <1>3 DEF TimerSend, NextSeq, GapInv
    <2>2. CASE rcvq' = Append(rcvq, m) /\ lost' = lost /\ overrun' = overrun
                 /\ ucon \in {"poll", "recv", "send"}
      <3>1. m \in Message /\ m.load = loads /\ rcvq \in Seq(Message)
        BY <2>1 DEF Message, GapInv
      <3>2. /\ rcvq' \in Seq(Message) /\ Len(rcvq') = Len(rcvq) + 1 /\ rcvq' # <<>>
            /\ rcvq'[Len(rcvq) + 1] = m /\ \A i \in 1..Len(rcvq) : rcvq'[i] = rcvq[i]
        BY <2>2, <3>1
      <3>3. Newest' = m
        BY <3>1, <3>2 DEF Newest
      <3>4. Gap(Newest, m)
        BY <2>1, <2>2 DEF GapInv
      <3>5. Gap(last', rcvq'[1])
        <4>1. CASE rcvq = <<>>
          BY <2>1, <3>2, <3>4, <4>1 DEF Newest
        <4>2. CASE rcvq # <<>>
          BY <2>1, <3>1, <3>2, <4>2 DEF GapInv
        <4> QED BY <4>1, <4>2
      <3>6. ASSUME NEW i \in 1..(Len(rcvq') - 1) PROVE Gap(rcvq'[i], rcvq'[i + 1])
        <4>1. CASE i = Len(rcvq)
          <5>1. rcvq # <<>> /\ rcvq'[i] = Newest
            BY <3>1, <3>2, <4>1 DEF Newest
          <5> QED BY <3>2, <3>4, <4>1, <5>1
        <4>2. CASE i # Len(rcvq)
          <5>1. i \in 1..(Len(rcvq) - 1) /\ i + 1 \in 1..Len(rcvq) /\ i \in 1..Len(rcvq)
            BY <3>1, <3>2, <4>2
          <5> QED BY <3>2, <5>1 DEF GapInv
        <4> QED BY <4>1, <4>2
      <3>7. Gap(m, [load |-> loads, seq |-> counter + 1, lost |-> lost])
        BY <2>1 DEF Gap
      <3>8. ASSUME NEW i \in 1..Len(rcvq') PROVE rcvq'[i].load <= loads
        <4>1. CASE i = Len(rcvq) + 1
          <5>1. rcvq'[i] = m
            BY <3>2, <4>1
          <5> QED BY <2>1, <3>1, <5>1
        <4>2. CASE i # Len(rcvq) + 1
          <5>1. i \in 1..Len(rcvq)
            BY <3>1, <3>2, <4>2
          <5>2. rcvq'[i] = rcvq[i]
            BY <3>2, <5>1
          <5>3. rcvq[i].load <= loads
            BY <5>1 DEF GapInv
          <5> QED BY <5>2, <5>3
        <4> QED BY <4>1, <4>2
      <3> QED
        BY <2>1, <2>2, <3>2, <3>3, <3>5, <3>6, <3>7, <3>8 DEF GapInv
    <2>3. CASE rcvq' = rcvq /\ lost' = lost + 1 /\ (overrun' = TRUE \/ overrun' = overrun)
      <3>1. Newest' = Newest
        BY <2>1, <2>3 DEF Newest
      <3>2. ASSUME Gap(Newest, [load |-> loads, seq |-> counter, lost |-> lost])
            PROVE  Gap(Newest, [load |-> loads, seq |-> counter + 1, lost |-> lost + 1])
        BY <1>n, <2>1, <3>2 DEF Gap, Message
      <3> QED BY <2>1, <2>3, <3>1, <3>2 DEF GapInv
    <2> QED BY <1>3, <2>2, <2>3 DEF TimerSend
  <1>4. CASE TimerRearm
    <2>1. /\ NextSeq' = NextSeq /\ counter' = counter + 1
          /\ UNCHANGED <<loads, lost, ucon, rcvq, overrun, last, sends>>
      BY <1>4 DEF TimerRearm, NextSeq, ucon_vars
    <2>2. Newest' = Newest
      BY <2>1 DEF Newest
    <2> QED BY <2>1, <2>2 DEF GapInv, Gap
  <1>5. CASE UconStart
    <2>1. /\ UNCHANGED module_vars /\ rcvq' = rcvq /\ last' = last /\ rcvq = <<>>
          /\ last.load = 0 /\ ucon' \in {"poll", "send"}
      BY <1>5 DEF UconStart, GapInv
    <2>2. Newest' = last
      BY <2>1 DEF Newest
    <2> QED BY <2>1, <2>2 DEF GapInv, Gap, module_vars
  <1>6. CASE UconPoll
    <2>1. /\ UNCHANGED module_vars /\ rcvq' = rcvq /\ last' = last /\ overrun' = overrun
          /\ ucon = "poll" /\ ucon' = "recv" /\ (rcvq # <<>> \/ overrun)
      BY <1>6 DEF UconPoll
    <2>2. Newest' = Newest /\ NextSeq' = NextSeq
      BY <2>1 DEF Newest, NextSeq, module_vars
    <2> QED BY <2>1, <2>2 DEF GapInv, module_vars
  <1>7. CASE UconRecv \/ UconSend
    <2>1. UNCHANGED module_vars
      BY <1>7 DEF UconRecv, UconSend
    <2>2. CASE ucon' = "closed" /\ rcvq' = <<>> /\ last' = last
      BY <2>1, <2>2 DEF GapInv, module_vars
    <2>3. CASE ucon = "send" /\ ucon' = ucon /\ rcvq' = rcvq /\ last' = last
      <3>1. Newest' = Newest /\ NextSeq' = NextSeq
        BY <2>1, <2>3 DEF Newest, NextSeq, module_vars
      <3> QED BY <2>1, <2>3, <3>1 DEF GapInv, module_vars
    <2>4. CASE /\ ~overrun /\ last' = Head(rcvq) /\ rcvq' = Tail(rcvq) /\ ucon' = "poll"
               /\ ucon = "recv" /\ overrun' = overrun
      <3>1. rcvq # <<>> /\ rcvq \in Seq(Message)
        BY <2>4 DEF GapInv
      <3>2. /\ last' = rcvq[1] /\ rcvq' \in Seq(Message) /\ Len(rcvq') = Len(rcvq) - 1
            /\ \A i \in 1..Len(rcvq') : rcvq'[i] = rcvq[i + 1] /\ i + 1 \in 1..Len(rcvq)
            /\ rcvq' # <<>> => Len(rcvq') >= 1
        BY <2>4, <3>1
      <3>3. Newest' = Newest /\ NextSeq' = NextSeq
        <4>1. CASE rcvq' = <<>>
          <5>1. Len(rcvq) = 1
            BY <3>1, <3>2, <4>1
          <5>2. Newest' = last' /\ Newest = rcvq[1]
            BY <3>1, <4>1, <5>1 DEF Newest
          <5> QED BY <2>1, <3>2, <5>2 DEF NextSeq, module_vars
        <4>2. CASE rcvq' # <<>>
          BY <2>1, <3>1, <3>2, <4>2 DEF Newest, NextSeq, module_vars
        <4> QED BY <4>1, <4>2
      <3>4. rcvq' # <<>> => Gap(last', rcvq'[1])
        <4> SUFFICES ASSUME rcvq' # <<>> PROVE Gap(last', rcvq'[1])
          OBVIOUS
        <4>1. 1 \in 1..(Len(rcvq) - 1) /\ rcvq'[1] = rcvq[1 + 1]
          BY <3>1, <3>2
        <4>2. Gap(rcvq[1], rcvq[1 + 1])
          BY <4>1 DEF GapInv
        <4> QED BY <3>2, <4>1, <4>2
      <3>5. ASSUME NEW i \in 1..(Len(rcvq') - 1) PROVE Gap(rcvq'[i], rcvq'[i + 1])
        <4>1. /\ i + 1 \in 1..(Len(rcvq) - 1)
              /\ rcvq'[i] = rcvq[i + 1] /\ rcvq'[i + 1] = rcvq[(i + 1) + 1]
          BY <3>1, <3>2
        <4>2. Gap(rcvq[i + 1], rcvq[(i + 1) + 1])
          BY <4>1 DEF GapInv
        <4> QED BY <4>1, <4>2
      <3>6. last' \in Message /\ last'.load <= loads
            /\ \A i \in 1..Len(rcvq') : rcvq'[i].load <= loads
        BY <3>1, <3>2 DEF GapInv
      <3> QED BY <2>1, <2>4, <3>2, <3>3, <3>4, <3>5, <3>6 DEF GapInv, module_vars
    <2> QED BY <1>7, <2>2, <2>3, <2>4 DEF UconRecv, UconSend
  <1>8. CASE UNCHANGED cn_vars
    <2>1. Newest' = Newest /\ NextSeq' = NextSeq
      BY <1>8 DEF cn_vars, Newest, NextSeq
    <2> QED BY <1>8, <2>1 DEF cn_vars, GapInv
  <1> QED
    BY <1>1, <1>2, <1>3, <1>4, <1>5, <1>6, <1>7, <1>8 DEF ConnectorNext

(* The sequence numbers show every loss, for any size of the socket and    *)
(* any number of loads and messages.                                       *)
THEOREM GapIsLossAlways == ConnectorSpec => []GapIsLoss
  <1>1. GapInv => GapIsLoss
    <2> SUFFICES ASSUME GapInv, NEW i \in 1..(Len(<<last>> \o rcvq) - 1)
                 PROVE  Gap((<<last>> \o rcvq)[i], (<<last>> \o rcvq)[i + 1])
      BY DEF GapIsLoss, Gap
    <2>1. /\ Len(<<last>> \o rcvq) = Len(rcvq) + 1 /\ Len(rcvq) \in Nat
          /\ (<<last>> \o rcvq)[1] = last
          /\ \A j \in 1..Len(rcvq) : (<<last>> \o rcvq)[j + 1] = rcvq[j]
      BY DEF GapInv
    <2>2. i \in 1..Len(rcvq) /\ (<<last>> \o rcvq)[i + 1] = rcvq[i]
      BY <2>1
    <2>3. CASE i = 1
      BY <2>1, <2>2, <2>3 DEF GapInv
    <2>4. CASE i # 1
      <3>1. i - 1 \in 1..(Len(rcvq) - 1) /\ (i - 1) + 1 = i /\ i - 1 \in 1..Len(rcvq)
        BY <2>1, <2>2, <2>4
      <3>2. (<<last>> \o rcvq)[i] = rcvq[i - 1]
        BY <2>1, <3>1
      <3>3. Gap(rcvq[i - 1], rcvq[i])
        BY <3>1 DEF GapInv
      <3> QED BY <2>2, <3>2, <3>3
    <2> QED BY <2>3, <2>4
  <1> QED
    BY <1>1, GapInit_Inv, GapNext_Inv, ConnectorInit_Inv, ConnectorNext_Inv, PTL
    DEF ConnectorSpec
-----------------------------------------------------------------------------
(* configfs_example.  The subsystems registered in every phase.            *)
SubsystemInv ==
  /\ subsys \in 0..3
  /\ \/ cfs_pc = "out" /\ registered = {}
     \/ cfs_pc = "init" /\ subsys >= 1 /\ registered = {s \in 1..3 : s < subsys}
     \/ cfs_pc = "out_unregister" /\ registered = {s \in 1..3 : s <= subsys}
     \/ cfs_pc = "live"
     \/ cfs_pc = "exit" /\ subsys >= 1 /\ registered \subseteq {s \in 1..3 : s >= subsys}
  /\ registered \subseteq 1..3

(* The memory in use, with the types it depends on.                        *)
ItemsInv ==
  /\ kind \in [Objects -> {"free", "child", "group"}]
  /\ DOMAIN dir = Objects /\ dir = [o \in Objects |-> dir[o]]
  /\ opened \in [Objects -> Nat]
  /\ ItemsExact

LEMMA Somewhere == \A d \in GroupDirs \cup ChildDirs : d # Nowhere
  BY DEF GroupDirs, ChildDirs, Nowhere

LEMMA ItemsInit_Inv == ConfigfsInit => ItemsInv
  BY DEF ConfigfsInit, ItemsInv, ItemsExact

LEMMA SubsystemInit_Inv == ConfigfsInit => SubsystemInv
  BY DEF ConfigfsInit, SubsystemInv

LEMMA SubsystemNext_Inv ==
  SubsystemInv /\ [ConfigfsNext]_cfs_vars => SubsystemInv'
  <1> SUFFICES ASSUME SubsystemInv, [ConfigfsNext]_cfs_vars PROVE SubsystemInv'
    OBVIOUS
  <1> USE DEF SubsystemInv, example_subsys
  <1>1. CASE ModuleLoad
    <2>1. registered = {} /\ registered' = registered /\ cfs_pc' = "init" /\ subsys' = 1
      BY <1>1 DEF ModuleLoad
    <2>2. {s \in 1..3 : s < 1} = {}
      OBVIOUS
    <2> QED BY <2>1, <2>2
  <1>2. CASE configfs_example_init
    BY <1>2 DEF configfs_example_init
  <1>3. CASE out_unregister
    BY <1>3 DEF out_unregister
  <1>4. CASE ModuleUnload
    BY <1>4 DEF ModuleUnload
  <1>5. CASE configfs_example_exit
    BY <1>5 DEF configfs_example_exit
  <1>6. CASE UNCHANGED <<cfs_pc, subsys, registered>>
    BY <1>6
  <1>7. ASSUME NEW o \in Objects,
               \/ simple_children_make_item(o) \/ group_children_make_group(o)
               \/ Rmdir(o) \/ OpenAttr(o) \/ CloseAttr(o)
               \/ \E n \in Numbers : simple_child_attr_store(o, n)
        PROVE  UNCHANGED <<cfs_pc, subsys, registered>>
    BY <1>7 DEF simple_children_make_item, group_children_make_group, Mkdir, Rmdir,
                OpenAttr, CloseAttr, simple_child_attr_store
  <1>8. ASSUME (\E n \in Numbers : childless_storeme_write(n))
               \/ (\E r \in Readers : childless_showme_read(r))
        PROVE  UNCHANGED <<cfs_pc, subsys, registered>>
    BY <1>8 DEF childless_storeme_write, childless_showme_read
  <1>9. CASE UNCHANGED cfs_vars
    BY <1>9, <1>6 DEF cfs_vars
  <1> QED
    BY <1>1, <1>2, <1>3, <1>4, <1>5, <1>6, <1>7, <1>8, <1>9 DEF ConfigfsNext

(* A registration that fails anywhere in configfs_example_init, and        *)
(* configfs_example_exit, leave no subsystem in the tree.                  *)
THEOREM NoSubsystemLeftAlways == ConfigfsSpec => []NoSubsystemLeft
  <1>1. SubsystemInv => NoSubsystemLeft
    BY DEF SubsystemInv, NoSubsystemLeft
  <1> QED
    BY <1>1, SubsystemInit_Inv, SubsystemNext_Inv, PTL DEF ConfigfsSpec

LEMMA ItemsNext_Inv == ItemsInv /\ [ConfigfsNext]_cfs_vars => ItemsInv'
  <1> SUFFICES ASSUME ItemsInv, [ConfigfsNext]_cfs_vars PROVE ItemsInv'
    OBVIOUS
  <1> USE DEF ItemsInv, ItemsExact
  <1>1. ASSUME NEW o \in Objects, NEW k \in {"child", "group"},
               NEW d \in GroupDirs \cup ChildDirs, Mkdir(o, k, d)
        PROVE  ItemsInv'
    <2>1. d # Nowhere /\ k # "free"
      BY Somewhere
    <2> QED BY <1>1, <2>1 DEF Mkdir
  <1>2. ASSUME NEW o \in Objects, Rmdir(o) PROVE ItemsInv'
    BY <1>2 DEF Rmdir, put, release
  <1>3. ASSUME NEW o \in Objects, OpenAttr(o) PROVE ItemsInv'
    BY <1>3 DEF OpenAttr
  <1>4. ASSUME NEW o \in Objects, CloseAttr(o) PROVE ItemsInv'
    <2>1. CASE dir[o] = Nowhere
      BY <1>4, <2>1 DEF CloseAttr, put, release
    <2>2. CASE dir[o] # Nowhere
      <3>1. opened[o] - 1 + 1 # 0
        BY <1>4 DEF CloseAttr
      <3> QED BY <1>4, <2>2, <3>1 DEF CloseAttr, put
    <2> QED BY <2>1, <2>2
  <1>5. CASE UNCHANGED <<kind, dir, opened>>
    BY <1>5
  <1>6. ASSUME \/ ModuleLoad \/ configfs_example_init \/ out_unregister
               \/ ModuleUnload \/ configfs_example_exit
        PROVE  UNCHANGED <<kind, dir, opened>>
    BY <1>6 DEF ModuleLoad, configfs_example_init, out_unregister, ModuleUnload,
                configfs_example_exit, items
  <1>7. ASSUME NEW n \in Numbers,
               childless_storeme_write(n) \/ \E o \in Objects : simple_child_attr_store(o, n)
        PROVE  UNCHANGED <<kind, dir, opened>>
    BY <1>7 DEF childless_storeme_write, simple_child_attr_store, items
  <1>8. ASSUME NEW r \in Readers, childless_showme_read(r)
        PROVE  UNCHANGED <<kind, dir, opened>>
    BY <1>8 DEF childless_showme_read, items
  <1>9. CASE UNCHANGED cfs_vars
    BY <1>9, <1>5 DEF cfs_vars
  <1>10. ASSUME NEW o \in Objects, simple_children_make_item(o) \/ group_children_make_group(o)
         PROVE  ItemsInv'
    BY <1>10, <1>1 DEF simple_children_make_item, group_children_make_group
  <1> QED
    BY <1>2, <1>3, <1>4, <1>5, <1>6, <1>7, <1>8, <1>9, <1>10 DEF ConfigfsNext

(* The objects that are allocated are those in the tree or behind an open  *)
(* file, for any number of objects, names and files.                       *)
THEOREM ItemsExactAlways == ConfigfsSpec => []ItemsExact
  <1>1. ItemsInv => ItemsExact
    BY DEF ItemsInv
  <1> QED
    BY <1>1, ItemsInit_Inv, ItemsNext_Inv, PTL DEF ConfigfsSpec
-----------------------------------------------------------------------------
(* v4l2-pci-skeleton.c.  What is held before each call of skeleton_probe,  *)
(* and before each release of the error labels and skeleton_remove.        *)
Got == << {}, {}, {}, {"skel"}, {"skel", "irq"}, {"skel", "irq", "v4l2_dev"},
          {"skel", "irq", "v4l2_dev", "hdl"}, {"skel", "irq", "v4l2_dev", "hdl"},
          {"skel", "irq", "v4l2_dev", "hdl", "ctx"} >>

Managed == {{}, {"skel"}, {"skel", "irq"}}

Releasing(t, h) ==
  \/ t = <<>> /\ h \in Managed
  \/ t = <<"pci">> /\ h \in Managed
  \/ t = <<"v4l2_dev", "pci">> /\ h = {"skel", "irq", "v4l2_dev"}
  \/ t = <<"ctx", "v4l2_dev", "pci">> /\ h = {"skel", "irq", "v4l2_dev", "ctx"}
  \/ t = <<"hdl", "v4l2_dev", "pci">> /\ h = {"skel", "irq", "v4l2_dev", "hdl"}
  \/ t = <<"hdl", "ctx", "v4l2_dev", "pci">>
       /\ h = {"skel", "irq", "v4l2_dev", "hdl", "ctx"}
  \/ t = <<"ctx", "hdl", "v4l2_dev", "pci">>
       /\ h = {"skel", "irq", "v4l2_dev", "hdl", "ctx"}
  \/ t = <<"video", "hdl", "ctx", "v4l2_dev", "pci">> /\ h = Resources

ProbeInv ==
  /\ call \in 1..9 /\ enable_cnt \in Nat /\ nomem \in Nat
  /\ \/ /\ probe_pc = "unbound" /\ held = {} /\ enable_cnt = nomem
     \/ /\ probe_pc = "probing" /\ held = Got[call]
        /\ enable_cnt = IF call = 1 THEN nomem ELSE nomem + 1
     \/ /\ probe_pc = "bound" /\ held = Resources /\ enable_cnt = nomem + 1
     \/ /\ probe_pc = "releasing" /\ Releasing(todo, held)
        /\ enable_cnt = IF todo = <<>> THEN nomem ELSE nomem + 1
     \/ /\ probe_pc = "devres" /\ held \in Managed /\ enable_cnt = nomem

LEMMA ProbeInit_Inv == ProbeInit => ProbeInv
  BY DEF ProbeInit, ProbeInv

LEMMA CallsAre ==
  /\ Len(Calls) = 9
  /\ Calls[1].gets = {} /\ Calls[1].fail = <<>>
  /\ Calls[2].gets = {} /\ Calls[2].fail = <<"pci">>
  /\ Calls[3].gets = {"skel"} /\ Calls[3].fail = <<>>
  /\ Calls[4].gets = {"irq"} /\ Calls[4].fail = <<"pci">>
  /\ Calls[5].gets = {"v4l2_dev"} /\ Calls[5].fail = <<"pci">>
  /\ Calls[6].gets = {"hdl"} /\ Calls[6].fail = <<"hdl", "v4l2_dev", "pci">>
  /\ Calls[7].gets = {} /\ Calls[7].fail = <<"hdl", "v4l2_dev", "pci">>
  /\ Calls[8].gets = {"ctx"} /\ Calls[8].fail = <<"hdl", "v4l2_dev", "pci">>
  /\ Calls[9].gets = {"video"} /\ Calls[9].fail = <<"ctx", "hdl", "v4l2_dev", "pci">>
  <1>1. /\ Len(Calls) = 9
        /\ Calls[1].gets = {} /\ Calls[2].gets = {} /\ Calls[3].gets = {"skel"}
        /\ Calls[4].gets = {"irq"} /\ Calls[5].gets = {"v4l2_dev"}
        /\ Calls[6].gets = {"hdl"} /\ Calls[7].gets = {}
        /\ Calls[8].gets = {"ctx"} /\ Calls[9].gets = {"video"}
    BY DEF Calls
  <1>2. /\ Calls[1].fail = <<>> /\ Calls[2].fail = <<"pci">> /\ Calls[3].fail = <<>>
        /\ Calls[4].fail = <<"pci">> /\ Calls[5].fail = <<"pci">>
    BY DEF Calls, disable_pci
  <1>3. Calls[6].fail = <<"hdl", "v4l2_dev", "pci">>
    BY DEF Calls, disable_pci, free_hdl
  <1>4. Calls[7].fail = <<"hdl", "v4l2_dev", "pci">>
    BY DEF Calls, disable_pci, free_hdl
  <1>5. Calls[8].fail = <<"hdl", "v4l2_dev", "pci">>
    BY DEF Calls, disable_pci, free_hdl
  <1>6. Calls[9].fail = <<"ctx", "hdl", "v4l2_dev", "pci">>
    BY DEF Calls, disable_pci, free_hdl, free_ctx
  <1> QED BY <1>1, <1>2, <1>3, <1>4, <1>5, <1>6

LEMMA NamesAre ==
  /\ Calls[3].name = "devm_kzalloc" /\ Calls[6].name = "v4l2_ctrl_handler_init"
  /\ \A c \in 1..9 \ {3} : Calls[c].name # "devm_kzalloc"
  /\ \A c \in 1..9 \ {6} : Calls[c].name # "v4l2_ctrl_handler_init"
  BY DEF Calls

LEMMA ProbeNext_Inv == ProbeInv /\ [ProbeNext]_probe_vars => ProbeInv'
  <1> SUFFICES ASSUME ProbeInv, [ProbeNext]_probe_vars PROVE ProbeInv'
    OBVIOUS
  <1>t. call \in 1..9 /\ enable_cnt \in Nat /\ nomem \in Nat
    BY DEF ProbeInv
  <1>1. CASE ProbeStart
    BY <1>1 DEF ProbeStart, ProbeInv, Got
  <1>2. CASE ProbeCall
    <2>1. /\ held = Got[call] /\ held' = held \cup Calls[call].gets
          /\ enable_cnt' = nomem + 1 /\ nomem' = nomem
      BY <1>2 DEF ProbeCall, ProbeInv
    <2>2. CASE call = 9
      <3>1. probe_pc' = "bound" /\ call' = 1
        BY <1>2, <2>2, CallsAre DEF ProbeCall
      <3>2. held' = Resources
        BY <2>1, <2>2, CallsAre DEF Got, Resources
      <3> QED BY <2>1, <3>1, <3>2, <1>t DEF ProbeInv
    <2>3. CASE call \in 1..8
      <3>1. probe_pc' = "probing" /\ call' = call + 1
        BY <1>2, <2>3, CallsAre DEF ProbeCall
      <3>2. held' = Got[call + 1]
        <4>1. CASE call = 1
          BY <2>1, <4>1, CallsAre DEF Got
        <4>2. CASE call = 2
          BY <2>1, <4>2, CallsAre DEF Got
        <4>3. CASE call = 3
          BY <2>1, <4>3, CallsAre DEF Got
        <4>4. CASE call = 4
          BY <2>1, <4>4, CallsAre DEF Got
        <4>5. CASE call = 5
          BY <2>1, <4>5, CallsAre DEF Got
        <4>6. CASE call = 6
          BY <2>1, <4>6, CallsAre DEF Got
        <4>7. CASE call = 7
          BY <2>1, <4>7, CallsAre DEF Got
        <4>8. CASE call = 8
          BY <2>1, <4>8, CallsAre DEF Got
        <4> QED BY <2>3, <4>1, <4>2, <4>3, <4>4, <4>5, <4>6, <4>7, <4>8
      <3>3. call' \in 1..9 /\ call' # 1 /\ enable_cnt' \in Nat /\ nomem' \in Nat
        BY <1>t, <2>1, <2>3, <3>1
      <3> QED BY <2>1, <3>1, <3>2, <3>3 DEF ProbeInv
    <2> QED BY <1>t, <2>2, <2>3
  <1>3. CASE ProbeFails
    <2>1. /\ probe_pc' = "releasing" /\ todo' = Calls[call].fail /\ held = Got[call]
          /\ enable_cnt' = enable_cnt /\ call' = call
          /\ enable_cnt = IF call = 1 THEN nomem ELSE nomem + 1
      BY <1>3 DEF ProbeFails, ProbeInv
    <2>2. nomem' = IF call = 3 THEN nomem + 1 ELSE nomem
      BY <1>3, <1>t, NamesAre DEF ProbeFails
    <2>3. held' = IF call = 6 THEN held \cup Calls[6].gets ELSE held
      BY <1>3, <1>t, NamesAre DEF ProbeFails
    <2> SUFFICES /\ Releasing(todo', held')
                 /\ enable_cnt' = IF todo' = <<>> THEN nomem' ELSE nomem' + 1
      <3>1. nomem' \in Nat
        BY <1>t, <2>2
      <3> QED BY <1>t, <2>1, <3>1 DEF ProbeInv
    <2>11. CASE call = 1
      <3>1. todo' = <<>>
        BY <2>1, <2>11, CallsAre
      <3>2. held' = {}
        BY <2>1, <2>3, <2>11 DEF Got
      <3>3. Releasing(todo', held')
        BY <3>1, <3>2 DEF Releasing, Managed
      <3> QED BY <2>1, <2>2, <2>11, <3>1, <3>3
    <2>12. CASE call = 2
      <3>1. todo' = <<"pci">>
        BY <2>1, <2>12, CallsAre
      <3>2. held' = {}
        BY <2>1, <2>3, <2>12 DEF Got
      <3>3. Releasing(todo', held')
        BY <3>1, <3>2 DEF Releasing, Managed
      <3>4. enable_cnt' = nomem' + 1
        BY <2>1, <2>2, <2>12
      <3>5. todo' # <<>>
        BY <3>1
      <3> QED BY <3>3, <3>4, <3>5
    <2>13. CASE call = 3
      <3>1. todo' = <<>>
        BY <2>1, <2>13, CallsAre
      <3>2. held' = {}
        BY <2>1, <2>3, <2>13 DEF Got
      <3>3. Releasing(todo', held')
        BY <3>1, <3>2 DEF Releasing, Managed
      <3> QED BY <2>1, <2>2, <2>13, <3>1, <3>3
    <2>14. CASE call = 4
      <3>1. todo' = <<"pci">>
        BY <2>1, <2>14, CallsAre
      <3>2. held' = {"skel"}
        BY <2>1, <2>3, <2>14 DEF Got
      <3>3. Releasing(todo', held')
        BY <3>1, <3>2 DEF Releasing, Managed
      <3>4. enable_cnt' = nomem' + 1
        BY <2>1, <2>2, <2>14
      <3>5. todo' # <<>>
        BY <3>1
      <3> QED BY <3>3, <3>4, <3>5
    <2>15. CASE call = 5
      <3>1. todo' = <<"pci">>
        BY <2>1, <2>15, CallsAre
      <3>2. held' = {"skel", "irq"}
        BY <2>1, <2>3, <2>15 DEF Got
      <3>3. Releasing(todo', held')
        BY <3>1, <3>2 DEF Releasing, Managed
      <3>4. enable_cnt' = nomem' + 1
        BY <2>1, <2>2, <2>15
      <3>5. todo' # <<>>
        BY <3>1
      <3> QED BY <3>3, <3>4, <3>5
    <2>16. CASE call = 6
      <3>1. todo' = <<"hdl", "v4l2_dev", "pci">>
        BY <2>1, <2>16, CallsAre
      <3>2. held' = {"skel", "irq", "v4l2_dev", "hdl"}
        BY <2>1, <2>3, <2>16, CallsAre DEF Got
      <3>3. Releasing(todo', held')
        BY <3>1, <3>2 DEF Releasing
      <3>4. enable_cnt' = nomem' + 1
        BY <2>1, <2>2, <2>16
      <3>5. todo' # <<>>
        BY <3>1
      <3> QED BY <3>3, <3>4, <3>5
    <2>17. CASE call = 7
      <3>1. todo' = <<"hdl", "v4l2_dev", "pci">>
        BY <2>1, <2>17, CallsAre
      <3>2. held' = {"skel", "irq", "v4l2_dev", "hdl"}
        BY <2>1, <2>3, <2>17 DEF Got
      <3>3. Releasing(todo', held')
        BY <3>1, <3>2 DEF Releasing
      <3>4. enable_cnt' = nomem' + 1
        BY <2>1, <2>2, <2>17
      <3>5. todo' # <<>>
        BY <3>1
      <3> QED BY <3>3, <3>4, <3>5
    <2>18. CASE call = 8
      <3>1. todo' = <<"hdl", "v4l2_dev", "pci">>
        BY <2>1, <2>18, CallsAre
      <3>2. held' = {"skel", "irq", "v4l2_dev", "hdl"}
        BY <2>1, <2>3, <2>18 DEF Got
      <3>3. Releasing(todo', held')
        BY <3>1, <3>2 DEF Releasing
      <3>4. enable_cnt' = nomem' + 1
        BY <2>1, <2>2, <2>18
      <3>5. todo' # <<>>
        BY <3>1
      <3> QED BY <3>3, <3>4, <3>5
    <2>19. CASE call = 9
      <3>1. todo' = <<"ctx", "hdl", "v4l2_dev", "pci">>
        BY <2>1, <2>19, CallsAre
      <3>2. held' = {"skel", "irq", "v4l2_dev", "hdl", "ctx"}
        BY <2>1, <2>3, <2>19 DEF Got
      <3>3. Releasing(todo', held')
        BY <3>1, <3>2 DEF Releasing
      <3>4. enable_cnt' = nomem' + 1
        BY <2>1, <2>2, <2>19
      <3>5. todo' # <<>>
        BY <3>1
      <3> QED BY <3>3, <3>4, <3>5
    <2> QED
      BY <1>t, <2>11, <2>12, <2>13, <2>14, <2>15, <2>16, <2>17, <2>18, <2>19
  <1>4. CASE RemoveStart
    BY <1>4 DEF RemoveStart, ProbeInv, Releasing, RemoveOrder
  <1>5. CASE Release
    <2>1. /\ probe_pc' = "releasing" /\ todo' = Tail(todo) /\ held' = held \ {Head(todo)}
          /\ todo # <<>> /\ enable_cnt = nomem + 1 /\ nomem' = nomem /\ call' = call
          /\ enable_cnt' = IF Head(todo) = "pci" THEN enable_cnt - 1 ELSE enable_cnt
          /\ Releasing(todo, held)
      BY <1>5 DEF Release, ProbeInv
    <2> SUFFICES /\ Releasing(todo', held')
                 /\ enable_cnt' = IF todo' = <<>> THEN nomem ELSE nomem + 1
      BY <2>1, <1>t DEF ProbeInv
    <2>11. CASE todo = <<"pci">>
      <3>1. todo' = <<>> /\ Head(todo) = "pci"
        BY <2>1, <2>11
      <3> QED BY <1>t, <2>1, <2>11, <3>1 DEF Releasing, Managed, Resources
    <2>12. CASE todo = <<"v4l2_dev", "pci">>
      <3>1. todo' = <<"pci">> /\ Head(todo) = "v4l2_dev"
        BY <2>1, <2>12
      <3> QED BY <1>t, <2>1, <2>12, <3>1 DEF Releasing, Managed, Resources
    <2>13. CASE todo = <<"ctx", "v4l2_dev", "pci">>
      <3>1. todo' = <<"v4l2_dev", "pci">> /\ Head(todo) = "ctx"
        BY <2>1, <2>13
      <3> QED BY <1>t, <2>1, <2>13, <3>1 DEF Releasing, Managed, Resources
    <2>14. CASE todo = <<"hdl", "v4l2_dev", "pci">>
      <3>1. todo' = <<"v4l2_dev", "pci">> /\ Head(todo) = "hdl"
        BY <2>1, <2>14
      <3> QED BY <1>t, <2>1, <2>14, <3>1 DEF Releasing, Managed, Resources
    <2>15. CASE todo = <<"hdl", "ctx", "v4l2_dev", "pci">>
      <3>1. todo' = <<"ctx", "v4l2_dev", "pci">> /\ Head(todo) = "hdl"
        BY <2>1, <2>15
      <3> QED BY <1>t, <2>1, <2>15, <3>1 DEF Releasing, Managed, Resources
    <2>16. CASE todo = <<"ctx", "hdl", "v4l2_dev", "pci">>
      <3>1. todo' = <<"hdl", "v4l2_dev", "pci">> /\ Head(todo) = "ctx"
        BY <2>1, <2>16
      <3> QED BY <1>t, <2>1, <2>16, <3>1 DEF Releasing, Managed, Resources
    <2>17. CASE todo = <<"video", "hdl", "ctx", "v4l2_dev", "pci">>
      <3>1. todo' = <<"hdl", "ctx", "v4l2_dev", "pci">> /\ Head(todo) = "video"
        BY <2>1, <2>17
      <3> QED BY <1>t, <2>1, <2>17, <3>1 DEF Releasing, Managed, Resources
    <2> QED
      BY <2>1, <2>11, <2>12, <2>13, <2>14, <2>15, <2>16, <2>17 DEF Releasing
  <1>6. CASE DevresRelease
    <2>1. held \in Managed /\ enable_cnt = nomem
      BY <1>6 DEF DevresRelease, ProbeInv, Releasing
    <2>2. CASE "irq" \in held
      <3>1. held' = {"skel"} /\ probe_pc' = "devres"
        BY <1>6, <2>1, <2>2 DEF DevresRelease, Managed
      <3> QED BY <1>6, <2>1, <3>1, <1>t DEF DevresRelease, ProbeInv, Managed
    <2>3. CASE "irq" \notin held
      <3>1. held' = {} /\ probe_pc' = "unbound"
        BY <1>6, <2>1, <2>3 DEF DevresRelease, Managed
      <3> QED BY <1>6, <2>1, <3>1, <1>t DEF DevresRelease, ProbeInv
    <2> QED BY <2>2, <2>3
  <1>7. CASE UNCHANGED <<probe_pc, call, todo, held, enable_cnt, nomem>>
    BY <1>7 DEF ProbeInv
  <1>8. CASE \E u \in Users : NodeOpen(u) \/ NodeClose(u)
    BY <1>7, <1>8 DEF NodeOpen, NodeClose
  <1>9. CASE UNCHANGED probe_vars
    BY <1>7, <1>9 DEF probe_vars
  <1> QED
    BY <1>1, <1>2, <1>3, <1>4, <1>5, <1>6, <1>8, <1>9 DEF ProbeNext

(* Every bind that ends gives back what it acquired, at whatever call of   *)
(* skeleton_probe it fails, but for the device that stays enabled when     *)
(* devm_kzalloc fails.                                                     *)
THEOREM ProbeBalancedAlways == ProbeSpec => []ProbeBalanced
  <1>1. ProbeInv => ProbeBalanced
    BY DEF ProbeInv, ProbeBalanced
  <1> QED
    BY <1>1, ProbeInit_Inv, ProbeNext_Inv, PTL DEF ProbeSpec

(* No resource of the skeleton driver outlives one it is built on.         *)
THEOREM LadderOrderAlways == ProbeSpec => []LadderOrder
  <1>1. ProbeInv => LadderOrder
    <2> SUFFICES ASSUME ProbeInv PROVE LadderOrder
      OBVIOUS
    <2>1. \/ held \in Managed
          \/ held = {"skel", "irq", "v4l2_dev"}
          \/ held = {"skel", "irq", "v4l2_dev", "ctx"}
          \/ held = {"skel", "irq", "v4l2_dev", "hdl"}
          \/ held = {"skel", "irq", "v4l2_dev", "hdl", "ctx"}
          \/ held = Resources
      <3>1. CASE probe_pc = "probing"
        BY <3>1 DEF ProbeInv, Got, Managed
      <3>2. CASE probe_pc # "probing"
        BY <3>2 DEF ProbeInv, Releasing, Managed
      <3> QED BY <3>1, <3>2
    <2> QED BY <2>1 DEF LadderOrder, Needs, Managed, Resources
  <1> QED
    BY <1>1, ProbeInit_Inv, ProbeNext_Inv, PTL DEF ProbeSpec

(* No error label of skeleton_probe and no call of skeleton_remove gives   *)
(* back what the bind does not hold.                                       *)
THEOREM ReleasesHeldAlways == ProbeSpec => []ReleasesHeld
  <1>1. ProbeInv => ReleasesHeld
    <2> SUFFICES ASSUME ProbeInv, probe_pc = "releasing", todo # <<>>
                 PROVE  IF Head(todo) = "pci" THEN enable_cnt > nomem ELSE Head(todo) \in held
      BY DEF ReleasesHeld
    <2>1. nomem \in Nat /\ enable_cnt = nomem + 1 /\ Releasing(todo, held)
      BY DEF ProbeInv
    <2>2. \/ Head(todo) = "pci"
          \/ Head(todo) \in held
      BY <2>1 DEF Releasing, Resources
    <2> QED BY <2>1, <2>2
  <1> QED
    BY <1>1, ProbeInit_Inv, ProbeNext_Inv, PTL DEF ProbeSpec
=============================================================================
