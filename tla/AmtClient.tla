------------------------------ MODULE AmtClient ------------------------------
(***************************************************************************)
(* mei-amt-version.c: the program connects to the AMT host interface       *)
(* client through /dev/mei, sends one request, waits for the answer with a *)
(* time-out, checks the answer and prints what it found.  The MEI driver   *)
(* and the firmware are external: any call may fail, and the firmware may  *)
(* send any of Answers, or nothing.                                        *)
(***************************************************************************)
EXTENDS Integers

CONSTANTS
  Uint32,   \* the number of values of uint32_t
  Answers   \* messages of the firmware, see Answer

VARIABLES
  amt_pc,                \* the function that runs next
  amt_fd, initialized,   \* mei.fd is open; mei.initialized
  read_buf,              \* the response buffer is allocated
  answer,                \* what read() put in the zeroed buffer
  rc,                    \* the result of read()
  status, verdict

amt_vars == <<amt_pc, amt_fd, initialized, read_buf, answer, rc, status, verdict>>

MSG_HDR == 12    \* sizeof(struct amt_host_if_msg_header)
RESP_HDR == 16   \* sizeof(struct amt_host_if_resp_header)
BIOS == 65       \* sizeof(code_ver->bios)
COUNT == 4       \* sizeof(code_ver->count)
VERSION == 44    \* sizeof(struct amt_version_type)

SUCCESS == 0
INTERNAL_ERROR == 1
EMPTY_RESPONSE == 16384
SDK_RESOURCES == 4100

(* An answer: the bytes sent, and the fields it carries.  ours: command,   *)
(* reserved and version fields are the expected ones; strings: the version *)
(* strings are well formed.                                                *)
Answer == [size : 0..(Uint32 \div 2), status : 0..(Uint32 - 1),
           length : 0..(Uint32 - 1), count : 0..(Uint32 - 1),
           ours : BOOLEAN, strings : BOOLEAN]

ASSUME AmtConstants ==
  Uint32 \in Nat /\ Uint32 >= 65536 /\ Answers \subseteq Answer

(* Fields that were not received read as the zero of memset.               *)
Zeroed == [size |-> 0, status |-> 0, length |-> 0, count |-> 0,
           ours |-> FALSE, strings |-> TRUE]
Received(a) ==
  [a EXCEPT !.status = IF a.size >= RESP_HDR THEN @ ELSE 0,
            !.length = IF a.size >= MSG_HDR THEN @ ELSE 0,
            !.count = IF a.size >= RESP_HDR + BIOS + COUNT THEN @ ELSE 0]

AmtInit ==
  /\ amt_pc = "mei_init" /\ amt_fd = FALSE /\ initialized = FALSE
  /\ read_buf = FALSE /\ answer = Zeroed /\ rc = 0
  /\ status = SUCCESS /\ verdict = "nothing"

(* mei_deinit closes the device once, however often it is called.          *)
mei_deinit == amt_fd' = FALSE /\ initialized' = FALSE

(* open, connect and the check of the protocol version.                    *)
mei_init ==
  /\ amt_pc = "mei_init"
  /\ \/ amt_pc' = "connect" /\ amt_fd' = TRUE /\ initialized' = TRUE
     \/ amt_pc' = "out" /\ mei_deinit
  /\ UNCHANGED <<read_buf, answer, rc, status, verdict>>

mei_connect ==
  /\ amt_pc = "connect"
  /\ \/ amt_pc' = "call" /\ UNCHANGED <<amt_fd, initialized>>
     \/ amt_pc' = "out" /\ mei_deinit
  /\ UNCHANGED <<read_buf, answer, rc, status, verdict>>

(* amt_host_if_call allocates the buffer.                                  *)
amt_host_if_call ==
  /\ amt_pc = "call"
  /\ \/ read_buf' = TRUE /\ amt_pc' = "write" /\ UNCHANGED status
     \/ status' = SDK_RESOURCES /\ amt_pc' = "free" /\ UNCHANGED read_buf
  /\ UNCHANGED <<amt_fd, initialized, answer, rc, verdict>>

(* mei_send_msg: a failing write or select closes the device; a select     *)
(* that times out, and a short write, do not.  Only a complete write with  *)
(* an answer to read goes on.                                              *)
mei_send_msg ==
  /\ amt_pc = "write"
  /\ \/ amt_pc' = "read" /\ UNCHANGED <<amt_fd, initialized, status>>
     \/ /\ status' = INTERNAL_ERROR /\ amt_pc' = "free"
        /\ mei_deinit \/ UNCHANGED <<amt_fd, initialized>>
  /\ UNCHANGED <<read_buf, answer, rc, verdict>>

(* mei_recv_msg: the bytes of an answer, or -1 with the device closed.     *)
mei_recv_msg ==
  /\ amt_pc = "read"
  /\ amt_pc' = "verify"
  /\ \/ \E a \in Answers : answer' = Received(a) /\ rc' = a.size
        /\ UNCHANGED <<amt_fd, initialized>>
     \/ rc' = -1 /\ mei_deinit /\ UNCHANGED answer
  /\ UNCHANGED <<read_buf, status, verdict>>

(* out_buf_sz is unsigned: -1 becomes the largest size.                    *)
out_buf_sz == rc % Uint32

amt_verify_response_header(a, size) ==
  IF size < RESP_HDR \/ size # a.length + MSG_HDR \/ ~a.ours
  THEN INTERNAL_ERROR ELSE SUCCESS

(* Mutant: the length of the answer is not compared with the count.        *)
amt_verify_code_versions_any(a) ==
  IF a.strings THEN SUCCESS ELSE INTERNAL_ERROR
amt_verify_code_versions(a) ==
  LET ver_type_cnt == (a.length - 4 - BIOS - COUNT) % Uint32
  IN IF a.count = ver_type_cnt \div VERSION /\ a.strings
     THEN SUCCESS ELSE INTERNAL_ERROR

(* The rest of amt_host_if_call and amt_get_code_versions.                 *)
amt_verify ==
  /\ amt_pc = "verify"
  /\ status' = IF out_buf_sz <= 0 THEN EMPTY_RESPONSE
               ELSE IF answer.status # SUCCESS THEN answer.status
               ELSE IF amt_verify_response_header(answer, out_buf_sz) # SUCCESS
               THEN INTERNAL_ERROR
               ELSE amt_verify_code_versions(answer)
  /\ amt_pc' = "free"
  /\ UNCHANGED <<amt_fd, initialized, read_buf, answer, rc, verdict>>

(* amt_get_code_versions frees the buffer, main closes the device.         *)
amt_finish ==
  /\ amt_pc = "free"
  /\ read_buf' = FALSE /\ mei_deinit
  /\ verdict' = CASE status = EMPTY_RESPONSE -> "DISABLED"
                  [] status = SUCCESS -> "ENABLED"
                  [] OTHER -> "error"
  /\ amt_pc' = "out"
  /\ UNCHANGED <<answer, rc, status>>

AmtNext ==
  \/ mei_init \/ mei_connect \/ amt_host_if_call \/ mei_send_msg
  \/ mei_recv_msg \/ amt_verify \/ amt_finish

AmtSpec == AmtInit /\ [][AmtNext]_amt_vars
-----------------------------------------------------------------------------
(* ENABLED is only printed for a whole answer to this request: read did    *)
(* not fail, every field that is used was received, and all the versions   *)
(* the answer counts lie inside the bytes that were read.  DISABLED is     *)
(* only printed when nothing was read, or when the firmware says so: the   *)
(* unsigned comparison never takes a failing read for an empty answer.     *)
ReportTrue ==
  /\ verdict = "ENABLED" =>
       /\ rc >= RESP_HDR + BIOS + COUNT + VERSION * answer.count
       /\ answer.ours /\ answer.strings /\ answer.status = SUCCESS
  /\ verdict = "DISABLED" => rc = 0 \/ answer.status = EMPTY_RESPONSE

(* The program ends with the device closed and the buffer freed, whatever  *)
(* failed before.                                                          *)
AmtReleased ==
  amt_pc = "out" => ~amt_fd /\ ~initialized /\ ~read_buf
=============================================================================
