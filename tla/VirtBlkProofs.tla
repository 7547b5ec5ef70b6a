---------------------------- MODULE VirtBlkProofs ----------------------------
(* Invariants of VirtBlk for any set of files of any size, any failures    *)
(* and any number of edits, signals and requests.                          *)
EXTENDS VirtBlk, SequenceTheorems, TLAPS

HaveFile == {"start", "alloc", "stop", "close"} \cup Serving
HaveDevice == {"alloc", "stop"} \cup Serving

(* What the thread holds at each program point.                            *)
FilesHeld ==
  /\ pc \in Waiting => backend_file = None
  /\ pc \in Waiting \cup {"open"} => backend = None /\ backend_addr = None
  /\ pc \in HaveFile \cup {"open"} => backend_file \in Files
  /\ pc \in HaveFile => /\ Size[backend_file] > 0
                        /\ backend = backend_file
                        /\ backend_addr = backend_file
                        /\ capacity = Capacity(Size[backend_file])
DeviceHeld ==
  /\ pc \in HaveDevice => /\ virtio_block_fd # None /\ block_dp
                          /\ virtio_block_fd = backend_file \/ kept
  /\ pc \notin HaveDevice => /\ ~block_dp /\ devices <= MaxDevices
                             /\ virtio_block_fd # None => kept
  /\ pc \in Serving => iovec
  /\ pc \notin Serving => ~iovec
  /\ virtio_block_fd = None => ring = <<>>
  /\ virtio_block_fd # None => devices >= 1
  /\ pc \in {"transfer", "status"} => ring # <<>>

Held == FilesHeld /\ DeviceHeld

USE BlkAssumption

(* The capacity offered for a file of any size stays within its pages.     *)
LEMMA CapacityFits ==
  ASSUME NEW n \in Nat
  PROVE  /\ Capacity(n) \in Nat
         /\ n > 0 => Capacity(n) > 0
         /\ n <= Capacity(n) * SECTOR_SIZE
         /\ Capacity(n) * SECTOR_SIZE <= PageAlign(n)
BY DEF Capacity, SECTOR_SIZE, PageAlign, PAGE_SIZE

USE DEF user, files, device, card, goto

(* A step of the block thread keeps the types of its control state.        *)
LEMMA BlockControlTypes ==
  ASSUME ControlTypeOK, Block
  PROVE  ControlTypeOK'
<1> USE DEF ControlTypeOK, PCs
<1>1. CASE set_backend_file
  BY <1>1 DEF set_backend_file
<1>2. CASE open_backend
  BY <1>2 DEF open_backend
<1>3. CASE no_virtblk
  BY <1>3 DEF no_virtblk
<1>4. CASE wait_signaled
  BY <1>4 DEF wait_signaled
<1>5. CASE clear_signaled
  BY <1>5 DEF clear_signaled
<1>6. CASE close_backend
  BY <1>6 DEF close_backend
<1>7. CASE start_virtblk
  BY <1>7 DEF start_virtblk, add_virtio_device
<1>8. CASE alloc_iovec
  BY <1>8 DEF alloc_iovec
<1>9. CASE stop_virtblk
  BY <1>9 DEF stop_virtblk
<1>10. CASE poll_block
  BY <1>10 DEF poll_block
<1>11. CASE read_header
  BY <1>11 DEF read_header
<1>12. CASE transfer_blocks
  BY <1>12 DEF transfer_blocks
<1>13. CASE write_status
  BY <1>13 DEF write_status
<1> QED
  BY <1>1, <1>2, <1>3, <1>4, <1>5, <1>6, <1>7, <1>8, <1>9,
     <1>10, <1>11, <1>12, <1>13
  DEF Block

(* ... and of what it knows about the backend file.                        *)
LEMMA BlockFilesTypes ==
  ASSUME ControlTypeOK, FilesTypeOK, FilesHeld, Block
  PROVE  FilesTypeOK'
<1> USE DEF FilesTypeOK
<1>1. CASE set_backend_file
  BY <1>1 DEF set_backend_file, ControlTypeOK
<1>2. CASE open_backend
  <2>1. backend_file \in Files
    BY <1>2 DEF open_backend, FilesHeld
  <2>2. Capacity(Size[backend_file]) \in Nat
    BY <2>1, CapacityFits
  <2> QED BY <1>2, <2>1, <2>2 DEF open_backend
<1>3. CASE no_virtblk
  BY <1>3 DEF no_virtblk
<1>4. CASE wait_signaled
  BY <1>4 DEF wait_signaled
<1>5. CASE clear_signaled
  BY <1>5 DEF clear_signaled
<1>6. CASE close_backend
  BY <1>6 DEF close_backend
<1>7. CASE start_virtblk
  BY <1>7 DEF start_virtblk, add_virtio_device
<1>8. CASE alloc_iovec
  BY <1>8 DEF alloc_iovec
<1>9. CASE stop_virtblk
  BY <1>9 DEF stop_virtblk
<1>10. CASE poll_block
  BY <1>10 DEF poll_block
<1>11. CASE read_header
  BY <1>11 DEF read_header
<1>12. CASE transfer_blocks
  BY <1>12 DEF transfer_blocks
<1>13. CASE write_status
  BY <1>13 DEF write_status
<1> QED
  BY <1>1, <1>2, <1>3, <1>4, <1>5, <1>6, <1>7, <1>8, <1>9,
     <1>10, <1>11, <1>12, <1>13
  DEF Block

(* ... and of what it knows about the device.                              *)
LEMMA BlockDeviceTypes ==
  ASSUME DeviceTypeOK, FilesHeld, DeviceHeld, Block
  PROVE  DeviceTypeOK'
<1> USE DEF DeviceTypeOK
<1>1. CASE set_backend_file
  BY <1>1 DEF set_backend_file
<1>2. CASE open_backend
  BY <1>2 DEF open_backend
<1>3. CASE no_virtblk
  BY <1>3 DEF no_virtblk
<1>4. CASE wait_signaled
  BY <1>4 DEF wait_signaled
<1>5. CASE clear_signaled
  BY <1>5 DEF clear_signaled
<1>6. CASE close_backend
  BY <1>6 DEF close_backend
<1>7. CASE start_virtblk
  <2>1. pc = "start" /\ backend_file \in Files
    BY <1>7 DEF start_virtblk, FilesHeld, HaveFile
  <2>2. devices \in 0..MaxDevices
    BY <2>1 DEF DeviceHeld, HaveDevice, Serving
  <2>3. devices' \in 0..MaxDevices + 1
    BY <1>7, <2>2 DEF start_virtblk, add_virtio_device
  <2>4. virtio_block_fd' \in Files \cup {None}
    BY <1>7, <2>1 DEF start_virtblk, add_virtio_device
  <2>5. kept' \in BOOLEAN /\ block_dp' \in BOOLEAN
    <3>1. CASE block_dp' = TRUE /\ kept' = (kept /\ devices' = devices)
      BY <3>1, Zenon
    <3>2. CASE block_dp' = block_dp /\ kept' = (virtio_block_fd' # None)
      BY <3>2, Zenon
    <3> QED BY <1>7, <3>1, <3>2 DEF start_virtblk
  <2>6. iovec' \in BOOLEAN
    BY <1>7 DEF start_virtblk
  <2> QED BY <2>3, <2>4, <2>5, <2>6
<1>8. CASE alloc_iovec
  BY <1>8 DEF alloc_iovec
<1>9. CASE stop_virtblk
  <2>1. devices \in 1..MaxDevices + 1
    BY <1>9 DEF stop_virtblk, DeviceHeld, HaveDevice
  <2>2. devices' \in 0..MaxDevices + 1
    BY <1>9, <2>1 DEF stop_virtblk
  <2>3. virtio_block_fd' \in Files \cup {None} /\ iovec' \in BOOLEAN
    BY <1>9 DEF stop_virtblk
  <2>4. kept' \in BOOLEAN /\ block_dp' \in BOOLEAN
    BY <1>9, Zenon DEF stop_virtblk
  <2> QED BY <2>2, <2>3, <2>4
<1>10. CASE poll_block
  BY <1>10 DEF poll_block
<1>11. CASE read_header
  BY <1>11 DEF read_header
<1>12. CASE transfer_blocks
  BY <1>12 DEF transfer_blocks
<1>13. CASE write_status
  BY <1>13 DEF write_status
<1> QED
  BY <1>1, <1>2, <1>3, <1>4, <1>5, <1>6, <1>7, <1>8, <1>9,
     <1>10, <1>11, <1>12, <1>13
  DEF Block

(* ... and of the ring and the answer.                                     *)
LEMMA BlockCardTypes ==
  ASSUME CardTypeOK, DeviceHeld, Block
  PROVE  CardTypeOK'
<1> USE DEF CardTypeOK
<1>1. CASE set_backend_file
  BY <1>1 DEF set_backend_file
<1>2. CASE open_backend
  BY <1>2 DEF open_backend
<1>3. CASE no_virtblk
  BY <1>3 DEF no_virtblk
<1>4. CASE wait_signaled
  BY <1>4 DEF wait_signaled
<1>5. CASE clear_signaled
  BY <1>5 DEF clear_signaled
<1>6. CASE close_backend
  BY <1>6 DEF close_backend
<1>7. CASE start_virtblk
  <2>1. ring' \in Seq(Requests)
    <3>1. ring' = <<>> \/ ring' = ring
      BY <1>7 DEF start_virtblk, add_virtio_device
    <3>2. ring \in Seq(Requests)
      BY DEF CardTypeOK
    <3>3. << >> \in Seq(Requests)
      OBVIOUS
    <3> HIDE DEF CardTypeOK
    <3> QED BY <3>1, <3>2, <3>3
  <2> QED BY <1>7, <2>1 DEF start_virtblk
<1>8. CASE alloc_iovec
  BY <1>8 DEF alloc_iovec
<1>9. CASE stop_virtblk
  <2>1. ring' \in Seq(Requests)
    BY <1>9 DEF stop_virtblk
  <2> QED BY <1>9, <2>1 DEF stop_virtblk
<1>10. CASE poll_block
  BY <1>10 DEF poll_block
<1>11. CASE read_header
  BY <1>11 DEF read_header
<1>12. CASE transfer_blocks
  <2>1. done' \in BOOLEAN /\ status' \in {OK, EIO, ENOTSUP}
    BY <1>12 DEF transfer_blocks
  <2> QED BY <1>12, <2>1 DEF transfer_blocks
<1>13. CASE write_status
  <2>1. ring # <<>>
    BY <1>13 DEF write_status, DeviceHeld
  <2>2. status' \in {OK, EIO, ENOTSUP}
    BY <1>13 DEF write_status, status_error_check
  <2>3. ring' \in Seq(Requests)
    <3> HIDE DEF Requests
    <3>1. Tail(ring) \in Seq(Requests)
      BY <2>1, HeadTailProperties
    <3> QED BY <1>13, <3>1 DEF write_status
  <2>4. Head(ring) \in Requests
    BY <2>1
  <2>5. reply' \in [req : Requests \cup {NoRequest}, done : BOOLEAN,
                    status : {OK, EIO, ENOTSUP}]
    BY <1>13, <2>2, <2>4 DEF write_status
  <2> QED BY <1>13, <2>2, <2>3, <2>5 DEF write_status
<1> QED
  BY <1>1, <1>2, <1>3, <1>4, <1>5, <1>6, <1>7, <1>8, <1>9,
     <1>10, <1>11, <1>12, <1>13
  DEF Block

(* A step of the block thread hands the file over to the next point.       *)
LEMMA BlockFilesHeld ==
  ASSUME ControlTypeOK, FilesHeld, Block
  PROVE  FilesHeld'
<1> USE DEF FilesHeld, HaveFile, Serving, Waiting
<1>1. CASE set_backend_file
  BY <1>1 DEF set_backend_file, ControlTypeOK
<1>2. CASE open_backend
  BY <1>2 DEF open_backend
<1>3. CASE no_virtblk
  BY <1>3 DEF no_virtblk
<1>4. CASE wait_signaled
  BY <1>4 DEF wait_signaled
<1>5. CASE clear_signaled
  BY <1>5 DEF clear_signaled
<1>6. CASE close_backend
  BY <1>6 DEF close_backend
<1>7. CASE start_virtblk
  BY <1>7 DEF start_virtblk, add_virtio_device
<1>8. CASE alloc_iovec
  BY <1>8 DEF alloc_iovec
<1>9. CASE stop_virtblk
  BY <1>9 DEF stop_virtblk
<1>10. CASE poll_block
  BY <1>10 DEF poll_block
<1>11. CASE read_header
  BY <1>11 DEF read_header
<1>12. CASE transfer_blocks
  BY <1>12 DEF transfer_blocks
<1>13. CASE write_status
  BY <1>13 DEF write_status
<1> QED
  BY <1>1, <1>2, <1>3, <1>4, <1>5, <1>6, <1>7, <1>8, <1>9,
     <1>10, <1>11, <1>12, <1>13
  DEF Block

(* A step of the block thread hands the device over to the next point.     *)
LEMMA BlockDeviceHeld ==
  ASSUME DeviceTypeOK, FilesHeld, DeviceHeld, ring \in Seq(Requests), Block
  PROVE  DeviceHeld'
<1> USE DEF DeviceTypeOK, DeviceHeld, HaveDevice, Serving
<1>1. CASE set_backend_file
  BY <1>1 DEF set_backend_file
<1>2. CASE open_backend
  BY <1>2 DEF open_backend
<1>3. CASE no_virtblk
  BY <1>3 DEF no_virtblk
<1>4. CASE wait_signaled
  BY <1>4 DEF wait_signaled
<1>5. CASE clear_signaled
  BY <1>5 DEF clear_signaled
<1>6. CASE close_backend
  BY <1>6 DEF close_backend
<1>7. CASE start_virtblk
  <2>1. /\ pc = "start" /\ ~block_dp /\ ~iovec /\ iovec' = iovec
        /\ backend_file \in Files /\ backend_file' = backend_file
        /\ virtio_block_fd # None => kept
    BY <1>7 DEF start_virtblk, FilesHeld, HaveFile
  <2>2. /\ virtio_block_fd' = None => ring' = <<>>
        /\ virtio_block_fd' # None => devices' >= 1
        /\ virtio_block_fd' = backend_file \/ (kept /\ devices' = devices) \/ virtio_block_fd' = None
    BY <1>7, <2>1 DEF start_virtblk, add_virtio_device
  <2>3. CASE pc' = "alloc"
    <3>1. virtio_block_fd' # None /\ block_dp' /\ (kept' <=> kept /\ devices' = devices)
      BY <1>7, <2>3 DEF start_virtblk
    <3> QED BY <2>1, <2>2, <2>3, <3>1
  <2>4. CASE pc' = "close"
    <3>1. devices' <= MaxDevices /\ block_dp' = block_dp
      BY <1>7, <2>4 DEF start_virtblk
    <3>2. kept' = (virtio_block_fd' # None)
      BY <1>7, <2>4 DEF start_virtblk
    <3>3. virtio_block_fd' # None => kept'
      BY <3>2, Zenon
    <3> QED BY <2>1, <2>2, <2>4, <3>1, <3>3
  <2> QED BY <1>7, <2>3, <2>4 DEF start_virtblk
<1>8. CASE alloc_iovec
  BY <1>8 DEF alloc_iovec
<1>9. CASE stop_virtblk
  BY <1>9 DEF stop_virtblk
<1>10. CASE poll_block
  BY <1>10 DEF poll_block
<1>11. CASE read_header
  BY <1>11 DEF read_header
<1>12. CASE transfer_blocks
  BY <1>12 DEF transfer_blocks
<1>13. CASE write_status
  BY <1>13 DEF write_status
<1> QED
  BY <1>1, <1>2, <1>3, <1>4, <1>5, <1>6, <1>7, <1>8, <1>9,
     <1>10, <1>11, <1>12, <1>13
  DEF Block

LEMMA TypeAndHeld == Spec => [](TypeOK /\ Held)
<1>1. Init => TypeOK /\ Held
  <2> SUFFICES ASSUME Init PROVE TypeOK /\ Held
    OBVIOUS
  <2>1. FilesTypeOK
    BY DEF Init, FilesTypeOK
  <2>4. ControlTypeOK
    <3>1. told \in BOOLEAN /\ handler \in BOOLEAN /\ signaled \in BOOLEAN
      BY Zenon DEF Init
    <3>2. changes \in 0..MaxChanges /\ signals \in 0..MaxSignals
      BY DEF Init
    <3>3. conf \in Files \cup {None} /\ pc \in PCs
      BY DEF Init, PCs
    <3> QED BY <3>1, <3>2, <3>3 DEF ControlTypeOK
  <2>5. DeviceTypeOK
    <3>1. kept \in BOOLEAN /\ block_dp \in BOOLEAN /\ iovec \in BOOLEAN
      BY Zenon DEF Init
    <3>2. virtio_block_fd \in Files \cup {None} /\ devices \in 0..MaxDevices + 1
      BY DEF Init
    <3> QED BY <3>1, <3>2 DEF DeviceTypeOK
  <2>2. CardTypeOK
    <3>1. done \in BOOLEAN
      BY Zenon DEF Init
    <3> QED BY <3>1 DEF Init, CardTypeOK, NoReply, OK
  <2>3. Held
    BY DEF Init, Held, FilesHeld, DeviceHeld, HaveFile, HaveDevice, Serving,
           Waiting
  <2> QED BY <2>1, <2>2, <2>3, <2>4, <2>5 DEF TypeOK
<1>2. TypeOK /\ Held /\ [Next]_vars => TypeOK' /\ Held'
  <2> SUFFICES ASSUME TypeOK, Held, [Next]_vars PROVE TypeOK' /\ Held'
    OBVIOUS
  <2> USE DEF TypeOK, Held
  <2>1. CASE edit_config \/ sigusr1 \/ install_handler
    <3>1. UNCHANGED <<pc, files, device, card>>
      BY <2>1 DEF edit_config, sigusr1, install_handler
    <3>2. FilesTypeOK' /\ DeviceTypeOK' /\ CardTypeOK' /\ Held'
      BY <3>1 DEF FilesTypeOK, DeviceTypeOK, CardTypeOK, FilesHeld, DeviceHeld
    <3>3. ControlTypeOK'
      <4>1. CASE edit_config
        <5>1. told' \in BOOLEAN
          BY <4>1, Zenon DEF edit_config
        <5>2. changes' \in 0..MaxChanges /\ conf' \in Files \cup {None}
          BY <4>1 DEF edit_config, ControlTypeOK
        <5> QED BY <4>1, <5>1, <5>2 DEF edit_config, ControlTypeOK
      <4>2. CASE sigusr1
        <5>1. signaled' \in BOOLEAN
          BY <4>2 DEF sigusr1, ControlTypeOK
        <5>2. signals' \in 0..MaxSignals
          BY <4>2 DEF sigusr1, ControlTypeOK
        <5> QED BY <4>2, <5>1, <5>2 DEF sigusr1, ControlTypeOK
      <4>3. CASE install_handler
        BY <4>3 DEF install_handler, ControlTypeOK
      <4> QED BY <2>1, <4>1, <4>2, <4>3
    <3> QED BY <3>2, <3>3
  <2>2. CASE submit
    <3>1. PICK r \in Requests : ring' = Append(ring, r)
      BY <2>2 DEF submit
    <3>2. ring' \in Seq(Requests) /\ ring' # <<>>
      BY <3>1, AppendProperties DEF CardTypeOK
    <3>3. CardTypeOK'
      BY <2>2, <3>2 DEF submit, CardTypeOK
    <3>4. ControlTypeOK' /\ FilesTypeOK' /\ DeviceTypeOK'
      BY <2>2 DEF submit, ControlTypeOK, FilesTypeOK, DeviceTypeOK
    <3>5. Held'
      BY <2>2, <3>2 DEF submit, FilesHeld, DeviceHeld
    <3> QED BY <3>3, <3>4, <3>5
  <2>3. CASE UNCHANGED vars
    <3>1. ControlTypeOK' /\ FilesTypeOK'
      BY <2>3 DEF vars, ControlTypeOK, FilesTypeOK
    <3>2. DeviceTypeOK' /\ CardTypeOK'
      BY <2>3 DEF vars, DeviceTypeOK, CardTypeOK
    <3>3. FilesHeld' /\ DeviceHeld'
      BY <2>3 DEF vars, FilesHeld, DeviceHeld
    <3> QED BY <3>1, <3>2, <3>3
  <2>4. CASE Block
    BY <2>4, BlockControlTypes, BlockFilesTypes, BlockDeviceTypes,
       BlockCardTypes, BlockFilesHeld, BlockDeviceHeld DEF CardTypeOK
  <2> QED BY <2>1, <2>2, <2>3, <2>4 DEF Next
<1> QED BY <1>1, <1>2, PTL DEF Spec

(* The block backend's variables keep their types.                         *)
THEOREM BlkTypeCorrect == Spec => []TypeOK
BY TypeAndHeld, PTL

(* For any failures, edits and signals, requests are served from the file  *)
(* that is open and mapped, through a device offered with its capacity or  *)
(* one that a round whose init_vr failed has left open.                    *)
THEOREM ServesOpenBackendAlways == Spec => []ServesOpenBackend
<1>1. Held => ServesOpenBackend
  BY DEF Held, FilesHeld, DeviceHeld, HaveFile, HaveDevice, ServesOpenBackend
<1> QED BY <1>1, TypeAndHeld, PTL

(* Before virtio_block reads the configuration again it has given back     *)
(* what the previous round held, but for a device whose rings it could not *)
(* map.                                                                    *)
THEOREM ReleasedAlways == Spec => []Released
<1>1. Held => Released
  BY DEF Held, FilesHeld, DeviceHeld, HaveFile, HaveDevice, Serving, Waiting,
         Released
<1> QED BY <1>1, TypeAndHeld, PTL

(* For a file of any size, set_backend_size offers all of the file and     *)
(* only sectors that the mapping of the file covers.                       *)
THEOREM CapacityMappedAlways == Spec => []CapacityMapped
<1>1. TypeOK /\ Held => CapacityMapped
  BY CapacityFits DEF Held, FilesHeld, HaveFile, CapacityMapped
<1> QED BY <1>1, TypeAndHeld, PTL

(* The devices of the card are the one the thread holds, and no round      *)
(* leaves one behind.                                                      *)
DevicesHeld ==
  /\ virtio_block_fd # None => devices = 1
  /\ virtio_block_fd = None => devices = 0
  /\ ~kept

(* As long as the rings of an added device can be mapped, start_virtblk    *)
(* and stop_virtblk leave the card at most one block device.               *)
THEOREM OneBlockDeviceAlways ==
  ASSUME "init_vr" \notin Faults
  PROVE  Spec => []OneBlockDevice
<1>1. Init => DevicesHeld
  BY DEF Init, DevicesHeld
<1>2. Held /\ DevicesHeld /\ [Next]_vars => DevicesHeld'
  <2> SUFFICES ASSUME Held, DevicesHeld, [Next]_vars PROVE DevicesHeld'
    OBVIOUS
  <2> USE DEF DevicesHeld
  <2>1. CASE start_virtblk
    <3>1. virtio_block_fd = None /\ backend_file # None
      BY <2>1 DEF start_virtblk, Held, FilesHeld, DeviceHeld, HaveFile,
                  HaveDevice, Serving
    <3>2. ~kept'
      BY <2>1 DEF start_virtblk
    <3> QED BY <2>1, <3>1, <3>2 DEF start_virtblk, add_virtio_device
  <2>2. CASE stop_virtblk
    <3>1. virtio_block_fd # None
      BY <2>2 DEF stop_virtblk, Held, DeviceHeld, HaveDevice
    <3>2. ~kept'
      BY <2>2 DEF stop_virtblk
    <3> QED BY <2>2, <3>1, <3>2 DEF stop_virtblk
  <2>3. CASE ~start_virtblk /\ ~stop_virtblk
    <3>1. UNCHANGED <<virtio_block_fd, devices, kept>>
      <4>1. CASE edit_config
        BY <4>1 DEF edit_config
      <4>2. CASE sigusr1
        BY <4>2 DEF sigusr1
      <4>3. CASE install_handler
        BY <4>3 DEF install_handler
      <4>4. CASE submit
        BY <4>4 DEF submit
      <4>5. CASE set_backend_file
        BY <4>5 DEF set_backend_file
      <4>6. CASE open_backend
        BY <4>6 DEF open_backend
      <4>7. CASE no_virtblk
        BY <4>7 DEF no_virtblk
      <4>8. CASE wait_signaled
        BY <4>8 DEF wait_signaled
      <4>9. CASE clear_signaled
        BY <4>9 DEF clear_signaled
      <4>10. CASE close_backend
        BY <4>10 DEF close_backend
      <4>11. CASE alloc_iovec
        BY <4>11 DEF alloc_iovec
      <4>12. CASE poll_block
        BY <4>12 DEF poll_block
      <4>13. CASE read_header
        BY <4>13 DEF read_header
      <4>14. CASE transfer_blocks
        BY <4>14 DEF transfer_blocks
      <4>15. CASE write_status
        BY <4>15 DEF write_status
      <4>16. CASE UNCHANGED vars
        BY <4>16 DEF vars
      <4> QED BY <2>3, <4>1, <4>2, <4>3, <4>4, <4>5, <4>6, <4>7, <4>8,
              <4>9, <4>10, <4>11, <4>12, <4>13, <4>14, <4>15, <4>16
           DEF Next, Block
    <3> QED BY <3>1
  <2> QED BY <2>1, <2>2, <2>3
<1>3. DevicesHeld => OneBlockDevice
  BY DEF DevicesHeld, OneBlockDevice
<1> QED BY <1>1, <1>2, <1>3, TypeAndHeld, PTL DEF Spec

(* What is known of the request at the head of the ring: its status is     *)
(* clear before the transfer, and agrees with the transfer after it.       *)
RequestInv ==
  /\ pc = "transfer" => status = OK
  /\ pc = "status" =>
       /\ done => Head(ring).type \in Supported /\ status = OK
       /\ Head(ring).type \in Supported => done \/ "copy" \in Faults

LEMMA RequestStep ==
  ASSUME TypeOK, Held, RequestInv, [Next]_vars
  PROVE  RequestInv'
<1> USE DEF RequestInv
<1>1. CASE submit
  <2>1. PICK r \in Requests : ring' = Append(ring, r)
    BY <1>1 DEF submit
  <2>2. pc = "status" => Head(ring') = Head(ring)
    BY <2>1, AppendProperties, HeadTailProperties DEF TypeOK, CardTypeOK, Held, DeviceHeld
  <2>3. UNCHANGED <<pc, status, done>>
    BY <1>1 DEF submit
  <2> QED BY <2>2, <2>3
<1>2. CASE read_header
  BY <1>2 DEF read_header
<1>3. CASE transfer_blocks
  <2>1. pc' = "status" /\ ring' = ring /\ status = OK
    BY <1>3 DEF transfer_blocks
  <2>2. CASE Head(ring).type \in Supported
    <3>1. status' = OK /\ (done' \/ "copy" \in Faults)
      BY <1>3, <2>1, <2>2 DEF transfer_blocks
    <3> QED BY <2>1, <2>2, <3>1
  <2>3. CASE Head(ring).type \notin Supported
    <3>1. ~done'
      BY <1>3, <2>3 DEF transfer_blocks
    <3> QED BY <2>1, <2>3, <3>1
  <2> QED BY <2>2, <2>3
<1>4. CASE pc' \notin {"transfer", "status"}
  BY <1>4
<1>5. CASE UNCHANGED <<pc, ring, status, done>>
  BY <1>5
<1>6. CASE edit_config \/ sigusr1 \/ install_handler
  BY <1>5, <1>6 DEF edit_config, sigusr1, install_handler
<1>7. CASE set_backend_file \/ open_backend \/ no_virtblk \/ wait_signaled \/ close_backend
  BY <1>4, <1>7 DEF set_backend_file, open_backend, no_virtblk, wait_signaled, close_backend
<1>8. CASE start_virtblk \/ alloc_iovec \/ clear_signaled \/ stop_virtblk \/ poll_block
  BY <1>4, <1>8 DEF start_virtblk, alloc_iovec, clear_signaled, stop_virtblk, poll_block
<1>9. CASE write_status
  BY <1>4, <1>9 DEF write_status
<1>10. CASE UNCHANGED vars
  BY <1>5, <1>10 DEF vars
<1> QED
  BY <1>1, <1>2, <1>3, <1>6, <1>7, <1>8, <1>9, <1>10 DEF Next, Block

(* The file behind the card's device.                                      *)
DeviceFile == IF block_dp THEN backend_addr ELSE None

(* As long as its rings are mapped, the device has a file.                 *)
LEMMA DeviceHasFile ==
  ASSUME TypeOK, Held, block_dp
  PROVE  DeviceFile \in Files /\ DeviceFile = backend_addr /\ DeviceFile # None
<1>1. pc \in HaveDevice
  BY DEF Held, DeviceHeld
<1>2. pc \in HaveFile
  BY <1>1 DEF HaveDevice, HaveFile
<1>3. backend_addr \in Files
  BY <1>2 DEF Held, FilesHeld
<1> QED BY <1>3 DEF DeviceFile

(* A step that leaves the device, its file, the ring and the last answer   *)
(* alone is no step of the block device.                                   *)
LEMMA DeviceStutter ==
  ASSUME [Next]_vars, TypeOK, Held,
         ~submit, ~start_virtblk, ~write_status, ~stop_virtblk
  PROVE  UNCHANGED <<DeviceFile, ring, reply>>
<1> USE DEF DeviceFile
<1>1. CASE open_backend
  <2>1. ~block_dp
    BY <1>1 DEF open_backend, Held, DeviceHeld, HaveDevice, Serving
  <2> QED BY <1>1, <2>1 DEF open_backend
<1>2. CASE close_backend
  <2>1. ~block_dp
    BY <1>2 DEF close_backend, Held, DeviceHeld, HaveDevice, Serving
  <2> QED BY <1>2, <2>1 DEF close_backend
<1>3. CASE edit_config \/ sigusr1 \/ install_handler
  BY <1>3 DEF edit_config, sigusr1, install_handler
<1>4. CASE set_backend_file \/ no_virtblk \/ wait_signaled
  BY <1>4 DEF set_backend_file, no_virtblk, wait_signaled
<1>5. CASE alloc_iovec \/ clear_signaled \/ poll_block
  BY <1>5 DEF alloc_iovec, clear_signaled, poll_block
<1>6. CASE read_header
  BY <1>6 DEF read_header
<1>7. CASE transfer_blocks
  BY <1>7 DEF transfer_blocks
<1>8. CASE UNCHANGED vars
  BY <1>8 DEF vars
<1> QED
  BY <1>1, <1>2, <1>3, <1>4, <1>5, <1>6, <1>7, <1>8 DEF Next, Block

(* The backend implements a block device, whatever fails: start_virtblk    *)
(* attaches a file to it, write_status answers the oldest request, a       *)
(* transfer that was made never with an error, and stop_virtblk detaches   *)
(* the file before close_backend closes it.                                *)
THEOREM BlockRefines == Spec => BlockContract
<1>1. Init => Device!Init
  BY DEF Init, Device!Init
<1>2. Init => RequestInv
  BY DEF Init, RequestInv
<1>3. TypeOK /\ Held /\ RequestInv /\ [Next]_vars => RequestInv'
  BY RequestStep
<1>4. TypeOK /\ Held /\ RequestInv /\ [Next]_vars
        => [Device!Next]_<<DeviceFile, ring, reply>>
  <2> SUFFICES ASSUME TypeOK, Held, RequestInv, [Next]_vars
               PROVE  Device!Next \/ UNCHANGED <<DeviceFile, ring, reply>>
    OBVIOUS
  <2>1. CASE submit
    <3>1. UNCHANGED <<DeviceFile, reply>>
      BY <2>1 DEF submit, DeviceFile
    <3>2. \E r \in Requests : ring' = Append(ring, r)
      BY <2>1 DEF submit
    <3>3. Device!Submit
      BY <3>1, <3>2 DEF Device!Submit, DeviceFile
    <3> QED BY <3>3 DEF Device!Next
  <2>2. CASE start_virtblk
    <3>1. ~block_dp /\ pc \in HaveFile
      BY <2>2 DEF start_virtblk, Held, DeviceHeld, HaveDevice, Serving, HaveFile
    <3>2. DeviceFile = None /\ backend_addr \in Files
      BY <3>1 DEF Held, FilesHeld, DeviceFile
    <3>3. UNCHANGED <<backend_addr, reply>> /\ ring' \in {ring, <<>>}
      BY <2>2 DEF start_virtblk, add_virtio_device
    <3>4. CASE block_dp'
      <4>1. DeviceFile' = backend_addr
        BY <3>3, <3>4 DEF DeviceFile
      <4>2. Device!Attach
        BY <3>2, <3>3, <4>1 DEF Device!Attach, DeviceFile
      <4> QED BY <4>2 DEF Device!Next
    <3>5. CASE ~block_dp'
      <4>1. DeviceFile' = None
        BY <3>5 DEF DeviceFile
      <4>2. CASE ring' = <<>>
        <5>1. Device!Replace
          BY <3>2, <3>3, <4>1, <4>2 DEF Device!Replace, DeviceFile
        <5> QED BY <5>1 DEF Device!Next
      <4>3. CASE ring' = ring
        BY <3>2, <3>3, <4>1, <4>3
      <4> QED BY <3>3, <4>2, <4>3
    <3> QED BY <3>4, <3>5
  <2>3. CASE write_status
    <3>1. /\ block_dp /\ ring # <<>> /\ pc = "status"
          /\ UNCHANGED <<DeviceFile>>
      BY <2>3 DEF write_status, Held, DeviceHeld, HaveDevice, Serving, DeviceFile
    <3>2. DeviceFile # None
      BY <3>1, DeviceHasFile
    <3>3. /\ done \in BOOLEAN /\ status' \in {OK, EIO, ENOTSUP}
          /\ status = OK => status' = OK
      BY <2>3 DEF write_status, status_error_check, TypeOK, CardTypeOK
    <3>4. /\ Head(ring).type \in Supported => done \/ "copy" \in Faults
          /\ done => Head(ring).type \in Supported /\ status' = OK
      BY <3>1, <3>3 DEF RequestInv
    <3>5. CASE /\ ring' = Tail(ring)
               /\ reply' = [req |-> Head(ring), done |-> done, status |-> status']
      <4>1. Device!Answer
        BY <3>1, <3>2, <3>3, <3>4, <3>5 DEF Device!Answer, DeviceFile
      <4> QED BY <4>1 DEF Device!Next
    <3>6. CASE UNCHANGED <<ring, reply>>
      BY <3>1, <3>6
    <3> QED BY <2>3, <3>5, <3>6 DEF write_status
  <2>4. CASE stop_virtblk
    <3>1. block_dp /\ ~block_dp' /\ ring' = <<>> /\ reply' = reply
      BY <2>4 DEF stop_virtblk, Held, DeviceHeld, HaveDevice
    <3>2. DeviceFile # None /\ DeviceFile' = None
      BY <3>1, DeviceHasFile DEF DeviceFile
    <3>3. Device!Detach
      BY <3>1, <3>2 DEF Device!Detach, DeviceFile
    <3> QED BY <3>3 DEF Device!Next
  <2>5. CASE ~submit /\ ~start_virtblk /\ ~write_status /\ ~stop_virtblk
    BY <2>5, DeviceStutter
  <2> QED BY <2>1, <2>2, <2>3, <2>4, <2>5
<1> QED
  BY <1>1, <1>2, <1>3, <1>4, TypeAndHeld, PTL
  DEF Spec, BlockContract, Device!Spec, DeviceFile
=============================================================================
