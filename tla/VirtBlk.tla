------------------------------- MODULE VirtBlk -------------------------------
(***************************************************************************)
(* The virtio block backend of mpssd (Documentation/mic/mpssd/mpssd.c):    *)
(* the thread virtio_block of a card's child process.  It opens the file   *)
(* that the configuration file names, offers it to the card as a block     *)
(* device, serves the card's requests, and starts over when SIGUSR1 says   *)
(* that the configuration file has changed.                                *)
(*                                                                         *)
(* The host driver's ioctls and the card are outside the repository: a     *)
(* request leaves the ring when its status is copied with update_used.  A  *)
(* closed descriptor is taken to stay invalid: no other file of the        *)
(* process gets its number while start_virtblk may still use it.           *)
(***************************************************************************)
EXTENDS Integers, Sequences

CONSTANTS
  Files,        \* backend files a configuration file may name
  None,         \* no file, no mapping
  Size,         \* size in bytes of every file
  Supported,    \* request types that transfer data: T_IN, T_OUT, T_GET_ID
  Unsupported,  \* the others: T_SCSI_CMD, T_FLUSH, T_BARRIER
  Faults,       \* the failures that may happen, see FaultKinds
  RingSize,     \* bound: requests the card has outstanding
  MaxChanges,   \* bound: edits of the configuration file
  MaxSignals,   \* bound: signals sent
  MaxDevices,   \* bound: block devices left behind
  NoRequest     \* before the first answer

(* "open": the backend file cannot be opened, sized or mapped; "add": the  *)
(* device cannot be added; "init_vr": its rings cannot be mapped;          *)
(* "malloc": no memory for the iovec; "copy": MIC_VIRTIO_COPY_DESC fails.  *)
FaultKinds == {"open", "add", "init_vr", "malloc", "copy"}

Types == Supported \cup Unsupported

(* A request is its header's type and whether the last descriptor has the  *)
(* length of a status byte.                                                *)
Requests == [type : Types, len_ok : BOOLEAN]

ASSUME BlkAssumption ==
  /\ None \notin Files
  /\ Size \in [Files -> Nat]
  /\ Faults \subseteq FaultKinds
  /\ Supported \cap Unsupported = {} /\ NoRequest \notin Requests
  /\ RingSize \in Nat /\ MaxChanges \in Nat
  /\ MaxSignals \in Nat /\ MaxDevices \in Nat

SECTOR_SIZE == 512
PAGE_SIZE == 4096

VARIABLES
  conf, changes,       \* the configuration file, and edits of it so far
  told,                \* a signal was sent since the last edit
  handler, signals,    \* SIGUSR1 handler installed, signals sent so far
  signaled,            \* mic_virtblk.signaled
  pc,
  backend_file,        \* the name read from the configuration file
  backend,             \* the open file
  backend_addr,        \* the mapped file
  capacity,            \* virtblk_dev_page.blk_config.capacity
  virtio_block_fd,     \* the open device: the file it was added for; None
  kept,                \* history: it was left open by a round that failed
  devices,             \* block devices added to the card
  block_dp, iovec,     \* the rings are mapped, the iovec is allocated
  ring,                \* requests outstanding on the open device
  status, done,        \* of the request: its status so far, data transferred
  reply                \* last answer to the card

user == <<conf, changes, told, signals>>
files == <<backend_file, backend, backend_addr, capacity>>
device == <<virtio_block_fd, kept, devices, block_dp, iovec>>
card == <<ring, status, done, reply>>
vars == <<user, handler, signaled, pc, files, device, card>>

OK == 0
EIO == 256 - 5
ENOTSUP == 256 - 95
NoReply == [req |-> NoRequest, done |-> FALSE, status |-> OK]

PCs == {"top", "open", "nofile", "idle", "start", "alloc", "clear", "poll",
        "header", "transfer", "status", "stop", "close"}

ControlTypeOK ==
  /\ conf \in Files \cup {None}
  /\ changes \in 0..MaxChanges
  /\ signals \in 0..MaxSignals
  /\ told \in BOOLEAN /\ handler \in BOOLEAN /\ signaled \in BOOLEAN
  /\ pc \in PCs

FilesTypeOK ==
  /\ backend_file \in Files \cup {None}
  /\ backend \in Files \cup {None}
  /\ backend_addr \in Files \cup {None}
  /\ capacity \in Nat

DeviceTypeOK ==
  /\ virtio_block_fd \in Files \cup {None}
  /\ kept \in BOOLEAN /\ block_dp \in BOOLEAN /\ iovec \in BOOLEAN
  /\ devices \in 0..MaxDevices + 1

CardTypeOK ==
  /\ ring \in Seq(Requests)
  /\ status \in {OK, EIO, ENOTSUP} /\ done \in BOOLEAN
  /\ reply \in [req : Requests \cup {NoRequest}, done : BOOLEAN,
                status : {OK, EIO, ENOTSUP}]

(* The types of the thread's variables, its device and the card's ring; in *)
(* particular a status written to the card is one the code computes.       *)
TypeOK == ControlTypeOK /\ FilesTypeOK /\ DeviceTypeOK /\ CardTypeOK

(* pthread_create(virtio_block) comes before sigaction in init_mic, so the *)
(* thread starts while SIGUSR1 is still ignored.                           *)
Init ==
  /\ conf \in Files \cup {None} /\ changes = 0 /\ told = TRUE /\ signals = 0
  /\ handler = FALSE /\ signaled = FALSE
  /\ pc = "top"
  /\ backend_file = None /\ backend = None /\ backend_addr = None
  /\ capacity = 0
  /\ virtio_block_fd = None /\ kept = FALSE /\ devices = 0
  /\ block_dp = FALSE /\ iovec = FALSE
  /\ ring = <<>> /\ status = OK /\ done = FALSE /\ reply = NoReply
-----------------------------------------------------------------------------
(* Users: edit the configuration file, send SIGUSR1 to the daemon.         *)

edit_config ==
  /\ changes < MaxChanges
  /\ changes' = changes + 1
  /\ conf' \in (Files \cup {None}) \ {conf}
  /\ told' = FALSE
  /\ UNCHANGED <<signals, handler, signaled, pc, files, device, card>>

(* change_virtblk_backend, if the handler is installed; before that init_mic*)
(* ignores the signal.                                                     *)
sigusr1 ==
  /\ signals < MaxSignals
  /\ signals' = signals + 1
  /\ told' = TRUE
  /\ signaled' = (signaled \/ handler)
  /\ UNCHANGED <<conf, changes, handler, pc, files, device, card>>

(* The main thread of the child.                                           *)
install_handler ==
  /\ ~handler
  /\ handler' = TRUE
  /\ UNCHANGED <<user, signaled, pc, files, device, card>>

(* The card's virtio driver makes a request available.                     *)
submit ==
  /\ virtio_block_fd # None
  /\ Len(ring) < RingSize
  /\ \E r \in Requests : ring' = Append(ring, r)
  /\ UNCHANGED <<user, handler, signaled, pc, files, device, status, done,
                 reply>>
-----------------------------------------------------------------------------
(* open_backend, close_backend.                                            *)

goto(l) == pc' = l

set_backend_file ==
  /\ pc = "top"
  /\ IF conf = None THEN goto("nofile") /\ UNCHANGED backend_file
                    ELSE goto("open") /\ backend_file' = conf
  /\ UNCHANGED <<user, handler, signaled, backend, backend_addr, capacity,
                 device, card>>

(* Mutant: a sector too many when the size is a multiple of the sector.    *)
Capacity_always_up(size) == size \div SECTOR_SIZE + 1

(* set_backend_size: the last sector may be incomplete.                    *)
Capacity(size) ==
  size \div SECTOR_SIZE + (IF size % SECTOR_SIZE # 0 THEN 1 ELSE 0)

(* Mutant: the file that could not be opened is not freed.                 *)
open_backend_leak ==
  /\ pc = "open"
  /\ \/ /\ backend' = backend_file /\ backend_addr' = backend_file
        /\ capacity' = Capacity(Size[backend_file])
        /\ goto("start")
     \/ "open" \in Faults /\ goto("nofile")
                          /\ UNCHANGED <<backend, backend_addr, capacity>>
  /\ UNCHANGED <<user, handler, signaled, backend_file, device, card>>

(* An empty file cannot be mapped.                                         *)
open_backend ==
  /\ pc = "open"
  /\ \/ /\ Size[backend_file] > 0
        /\ backend' = backend_file /\ backend_addr' = backend_file
        /\ capacity' = Capacity(Size[backend_file])
        /\ goto("start") /\ UNCHANGED backend_file
     \/ /\ "open" \in Faults \/ Size[backend_file] = 0
        /\ backend_file' = None /\ backend' = None
        /\ capacity' \in {capacity, Capacity(Size[backend_file])}
        /\ goto("nofile") /\ UNCHANGED backend_addr
  /\ UNCHANGED <<user, handler, signaled, device, card>>

(* No virtblk: wait for a signal, about one that comes after this point.   *)
no_virtblk ==
  /\ pc = "nofile"
  /\ signaled' = FALSE
  /\ goto("idle")
  /\ UNCHANGED <<user, handler, files, device, card>>

wait_signaled ==
  /\ pc = "idle" /\ signaled
  /\ goto("top")
  /\ UNCHANGED <<user, handler, signaled, files, device, card>>

close_backend ==
  /\ pc = "close"
  /\ backend_addr' = None /\ backend' = None /\ backend_file' = None
  /\ goto("top")
  /\ UNCHANGED <<user, handler, signaled, capacity, device, card>>
-----------------------------------------------------------------------------
(* start_virtblk, stop_virtblk.                                            *)

(* add_virtio_device: the new device is offered with the capacity of the   *)
(* file just opened and takes the place of one that is still open, which   *)
(* nothing closes then.  If it fails, virtio_block_fd keeps its value.     *)
add_virtio_device ==
  \/ /\ virtio_block_fd' = backend_file /\ devices' = devices + 1
     /\ ring' = <<>>
  \/ "add" \in Faults /\ UNCHANGED <<virtio_block_fd, devices, ring>>

(* Mutant: the result of init_vr is not looked at.                         *)
start_virtblk_unchecked ==
  /\ pc = "start"
  /\ add_virtio_device /\ devices' <= MaxDevices + 1
  /\ block_dp' = (virtio_block_fd' # None) /\ kept' = FALSE
  /\ goto("alloc")
  /\ UNCHANGED <<user, handler, signaled, files, iovec, status, done, reply>>

(* add_virtio_device may fail without a word, init_vr then maps the device *)
(* of an earlier round, if one is still open.  When init_vr fails, nothing *)
(* closes the device.                                                      *)
start_virtblk ==
  /\ pc = "start"
  /\ add_virtio_device
  /\ \/ /\ virtio_block_fd' # None
        /\ block_dp' = TRUE /\ kept' = (kept /\ devices' = devices)
        /\ goto("alloc")
     \/ /\ virtio_block_fd' = None \/ "init_vr" \in Faults
        /\ devices' <= MaxDevices
        /\ kept' = (virtio_block_fd' # None)
        /\ goto("close") /\ UNCHANGED block_dp
  /\ UNCHANGED <<user, handler, signaled, files, iovec, status, done, reply>>

alloc_iovec ==
  /\ pc = "alloc"
  /\ \/ iovec' = TRUE /\ goto("clear")
     \/ "malloc" \in Faults /\ goto("stop") /\ UNCHANGED iovec
  /\ UNCHANGED <<user, handler, signaled, files, virtio_block_fd, kept,
                 devices, block_dp, card>>

clear_signaled ==
  /\ pc = "clear"
  /\ signaled' = FALSE
  /\ goto("poll")
  /\ UNCHANGED <<user, handler, files, device, card>>

(* Closing the descriptor removes the device, with what is in its ring.    *)
stop_virtblk ==
  /\ pc = "stop"
  /\ block_dp' = FALSE /\ virtio_block_fd' = None /\ kept' = FALSE
  /\ devices' = devices - 1
  /\ ring' = <<>>
  /\ goto("close")
  /\ UNCHANGED <<user, handler, signaled, files, iovec, status, done, reply>>
-----------------------------------------------------------------------------
(* The request loop.  The signal is looked at only when the ring is empty. *)

(* Mutant: poll is entered without a timeout, and the signal is looked at  *)
(* only when a request arrives.                                            *)
poll_block_forever ==
  /\ pc = "poll" /\ ring # <<>>
  /\ IF signaled THEN goto("stop") /\ iovec' = FALSE
                 ELSE goto("header") /\ UNCHANGED iovec
  /\ UNCHANGED <<user, handler, signaled, files, virtio_block_fd, kept,
                 devices, block_dp, card>>

poll_block ==
  /\ pc = "poll"
  /\ IF signaled THEN goto("stop") /\ iovec' = FALSE
                 ELSE ring # <<>> /\ goto("header") /\ UNCHANGED iovec
  /\ UNCHANGED <<user, handler, signaled, files, virtio_block_fd, kept,
                 devices, block_dp, card>>

(* Mutant: the status of the previous request is left in place.            *)
read_header_keep ==
  /\ pc = "header"
  /\ IF ring = <<>> THEN goto("poll") ELSE goto("transfer")
  /\ UNCHANGED <<user, handler, signaled, files, device, ring, status, done, reply>>

(* read_header: the result of header_error_check is overwritten.           *)
read_header ==
  /\ pc = "header"
  /\ IF ring = <<>>
     THEN goto("poll") /\ UNCHANGED status
     ELSE \/ goto("transfer") /\ status' = OK
          \/ "copy" \in Faults /\ goto("poll") /\ UNCHANGED status
  /\ UNCHANGED <<user, handler, signaled, files, device, ring, done, reply>>

(* A failed transfer is stored in status only if status is already set,    *)
(* which it is not.                                                        *)
transfer_blocks ==
  /\ pc = "transfer"
  /\ \/ /\ Head(ring).type \in Supported
        /\ done' \in {TRUE} \cup {b \in {FALSE} : "copy" \in Faults}
        /\ UNCHANGED status
     \/ /\ Head(ring).type \notin Supported
        /\ done' = FALSE /\ status' = ENOTSUP
  /\ goto("status")
  /\ UNCHANGED <<user, handler, signaled, files, device, ring, reply>>

status_error_check(r) == IF r.len_ok THEN OK ELSE EIO

write_status ==
  /\ pc = "status"
  /\ status' = IF status # OK THEN status_error_check(Head(ring)) ELSE status
  /\ \/ /\ ring' = Tail(ring)
        /\ reply' = [req |-> Head(ring), done |-> done, status |-> status']
     \/ "copy" \in Faults /\ UNCHANGED <<ring, reply>>
  /\ goto("header")
  /\ UNCHANGED <<user, handler, signaled, files, device, done>>

Block ==
  \/ set_backend_file \/ open_backend \/ no_virtblk \/ wait_signaled
  \/ close_backend \/ start_virtblk \/ alloc_iovec \/ clear_signaled
  \/ stop_virtblk \/ poll_block \/ read_header \/ transfer_blocks
  \/ write_status

Next == edit_config \/ sigusr1 \/ install_handler \/ submit \/ Block

Spec == Init /\ [][Next]_vars

(* Both threads of the child are scheduled.                                *)
FairSpec == Spec /\ WF_vars(Block) /\ WF_vars(install_handler)
-----------------------------------------------------------------------------
Serving == {"clear", "poll", "header", "transfer", "status"}
Waiting == {"top", "nofile", "idle"}

(* Whatever the order of edits, signals, failures and requests, a request  *)
(* is served from the file that is open and mapped, through a device that  *)
(* was offered with that file's capacity: open_backend, start_virtblk and  *)
(* the error paths of virtio_block keep them in step.  The exception is a  *)
(* device that an earlier round left open because init_vr failed: if the   *)
(* next add_virtio_device fails, the new file is served through it.        *)
ServesOpenBackend ==
  pc \in Serving =>
    /\ backend_file # None
    /\ backend = backend_file /\ backend_addr = backend_file
    /\ capacity = Capacity(Size[backend_file])
    /\ block_dp /\ iovec
    /\ virtio_block_fd # None
    /\ virtio_block_fd = backend_file \/ kept

(* Before the configuration is read again everything of the previous round *)
(* has been given back, whatever failed in it, but for the descriptor of a *)
(* device whose rings could not be mapped: no file, mapping or iovec is    *)
(* left, and no other device is open.                                      *)
Released ==
  pc \in Waiting =>
    /\ backend_file = None /\ backend = None /\ backend_addr = None
    /\ ~block_dp /\ ~iovec
    /\ virtio_block_fd # None => kept

Device == INSTANCE BlockDevice WITH
  file <- IF block_dp THEN backend_addr ELSE None,
  queue <- ring, answer <- reply, NoAnswer <- NoReply,
  Statuses <- {OK, EIO, ENOTSUP}, Lossy <- "copy" \in Faults

(* The backend is a block device to the card: through edits, signals and   *)
(* failures one file is behind it from the time its rings are mapped until *)
(* they are unmapped, requests are answered once and in order, and one     *)
(* that was carried out never with an error.                               *)
BlockContract == Device!Spec

(* "Currently, one virtio block device is supported for each MIC card at a *)
(* time" (mpssd.c:1570).                                                   *)
OneBlockDevice == devices <= 1

PageAlign(n) == ((n + PAGE_SIZE - 1) \div PAGE_SIZE) * PAGE_SIZE

(* The card is told of all of the file, and every sector it is told of     *)
(* lies in the pages mapped, although set_backend_size rounds the size up; *)
(* an empty file is not offered.                                           *)
CapacityMapped ==
  pc \in Serving =>
    /\ capacity > 0
    /\ Size[backend_file] <= capacity * SECTOR_SIZE
    /\ capacity * SECTOR_SIZE <= PageAlign(Size[backend_file])

(* "timeout in 1 sec to see signaled" (mpssd.c:1173): a signal that        *)
(* arrives while the backend waits or serves takes virtio_block back to    *)
(* reading the configuration file.                                         *)
SignalSeen ==
  (signaled /\ pc \in {"idle", "poll", "header", "transfer", "status"})
     ~> pc = "top"

(* The same once the card falls idle, whatever else fails.                 *)
SignalHonoured == <>[](ring = <<>>) => SignalSeen

(* "The signal informs the virtio block backend about a change in the      *)
(* configuration file [...] Virtio block backend then re-reads the         *)
(* configuration file and switches to the new block device"                *)
(* (mpssd.c:1571-1575).                                                    *)
ConfigFollowed ==
  told ~> \/ ~told
          \/ backend_addr = conf
          \/ conf \in Files /\ Size[conf] = 0 /\ backend_addr = None

(* A request whose data was not transferred, because its type "is not      *)
(* supported" (mpssd.c:1251), is not answered with success.                *)
AnswerTruthful ==
  pc = "header" /\ reply # NoReply => reply.done \/ reply.status # OK
=============================================================================
