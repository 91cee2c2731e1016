-------------------------- MODULE NetBackupProofs --------------------------
(***************************************************************************)
(* The hash patched into a PSV image over the network is not overwritten   *)
(* by the image's own header, for every size of image and of the buffers   *)
(* between the two programs, as long as the image does not fit in them.    *)
(***************************************************************************)
EXTENDS NetBackup, TLAPS

USE SizesAssumption, OtherAssumption
USE DEF Conns, Threads, sndVars, rcvVars

(* Nothing has happened when the console connects. *)
LEMMA InitInv == Init => NetInv
<1> SUFFICES ASSUME Init PROVE NetInv
  OBVIOUS
<1> USE DEF Init
<1>2. TypeOK
  BY DEF TypeOK
<1>3. ThreadInv /\ OrderInv /\ StreamInv
  BY LargeAssumption DEF ThreadInv, OrderInv, StreamInv
<1> QED BY <1>2, <1>3 DEF NetInv

(* Stuttering. *)
LEMMA StutterInv == ASSUME NetInv, UNCHANGED vars PROVE NetInv'
<1> USE DEF NetInv, vars
<1>1. TypeOK'
  BY DEF TypeOK
<1>2. ThreadInv'
  BY DEF ThreadInv
<1>3. OrderInv' /\ StreamInv'
  BY DEF OrderInv, StreamInv
<1>4. (1 \in patched => PatchDone)'
  BY DEF PatchDone
<1> QED BY <1>1, <1>2, <1>3, <1>4

(* begin_connection: a connection goes to the end of the backlog, and the
   image's is the first to. *)
LEMMA begin_connection_inv ==
  ASSUME NetInv, begin_connection PROVE NetInv'
<1> USE DEF NetInv, begin_connection, Closed, Fault
<1>0. faults' \in 0..MaxFaults /\ conn' \in Conns
  BY DEF TypeOK
<1>1. backlog' \subseteq Conns
  BY DEF TypeOK
<1>2. TypeOK'
  BY <1>0, <1>1 DEF TypeOK
<1>3. ThreadInv'
  BY DEF TypeOK, ThreadInv
<1>4. OrderInv'
  BY DEF TypeOK, ThreadInv, OrderInv
<1>5. StreamInv'
  BY DEF TypeOK, ThreadInv, OrderInv, StreamInv
<1>6. (1 \in patched => PatchDone)'
  BY DEF TypeOK, PatchDone
<1> QED BY <1>2, <1>3, <1>4, <1>5, <1>6

(* begin_file_send and send_file_patch: the patch goes out after the image. *)
LEMMA send_packet_inv ==
  ASSUME NetInv, send_packet PROVE NetInv'
<1> USE DEF NetInv, send_packet, Fault
<1>2. TypeOK'
  BY DEF TypeOK
<1>3. ThreadInv'
  BY DEF TypeOK, ThreadInv
<1>4. OrderInv'
  <2>1. CASE conn = 2
    BY <2>1 DEF TypeOK, OrderInv
  <2>2. CASE conn # 2
    <3>1. pkt'[2] = pkt[2] /\ sent' = sent /\ conn' = conn
      BY <2>2 DEF TypeOK
    <3> QED BY <2>2, <3>1, LargeAssumption DEF TypeOK, OrderInv
  <2> QED BY <2>1, <2>2
<1>5. StreamInv'
  BY DEF TypeOK, ThreadInv, OrderInv, StreamInv
<1>6. (1 \in patched => PatchDone)'
  BY DEF TypeOK, PatchDone
<1> QED BY <1>2, <1>3, <1>4, <1>5, <1>6

(* file_send_data: never more than Window blocks ahead of the receiver. *)
LEMMA file_send_data_inv ==
  ASSUME NetInv, file_send_data PROVE NetInv'
<1> USE DEF NetInv, file_send_data, Fault, Len1
<1>2. TypeOK'
  BY DEF TypeOK
<1>3. ThreadInv'
  BY DEF TypeOK, ThreadInv
<1>4. OrderInv'
  BY DEF TypeOK, ThreadInv, OrderInv
<1>5. StreamInv'
  BY DEF TypeOK, ThreadInv, OrderInv, StreamInv
<1>6. (1 \in patched => PatchDone)'
  BY DEF TypeOK, PatchDone
<1> QED BY <1>2, <1>3, <1>4, <1>5, <1>6

(* end_connection: the next call is never the image's again. *)
LEMMA end_connection_inv ==
  ASSUME NetInv, end_connection PROVE NetInv'
<1> USE DEF NetInv, end_connection, Closed
<1>2. TypeOK'
  BY DEF TypeOK
<1>3. ThreadInv'
  BY DEF TypeOK, ThreadInv
<1>4. OrderInv'
  BY DEF TypeOK, ThreadInv, OrderInv
<1>5. StreamInv'
  BY DEF TypeOK, ThreadInv, OrderInv, StreamInv
<1>6. (1 \in patched => PatchDone)'
  BY DEF TypeOK, PatchDone
<1> QED BY <1>2, <1>3, <1>4, <1>5, <1>6

(* A thread copies connection_fd before main accepts again. *)
LEMMA thread_start_inv ==
  ASSUME NetInv, NEW t \in Threads, thread_start(t) PROVE NetInv'
<1> USE DEF NetInv, thread_start
<1>2. TypeOK'
  BY DEF TypeOK
<1>3. ThreadInv'
  BY DEF TypeOK, ThreadInv
<1>4. OrderInv'
  BY DEF TypeOK, ThreadInv, OrderInv
<1>5. StreamInv'
  BY DEF TypeOK, ThreadInv, OrderInv, StreamInv
<1>6. (1 \in patched => PatchDone)'
  BY DEF TypeOK, PatchDone
<1> QED BY <1>2, <1>3, <1>4, <1>5, <1>6

(* The first packet; no block of the image is read before it. *)
LEMMA read_packet_inv ==
  ASSUME NetInv, NEW t \in Threads, read_packet(t) PROVE NetInv'
<1> USE DEF NetInv, read_packet, Fault
<1>0. pkt' \in [Conns -> {"no", "sent", "read"}]
  BY DEF TypeOK
<1>1. opened' \subseteq Conns /\ faults' \in 0..MaxFaults
  <2>1. opened' \subseteq opened \cup {fd[t]} /\ fd[t] \in Conns
    BY DEF TypeOK
  <2>2. faults' \in 0..MaxFaults
    BY DEF TypeOK
  <2> QED BY <2>1, <2>2 DEF TypeOK
<1>2. TypeOK'
  BY <1>0, <1>1 DEF TypeOK
<1>3. ThreadInv'
  BY DEF TypeOK, ThreadInv
<1>4. OrderInv'
  BY DEF TypeOK, ThreadInv, OrderInv
<1>5. StreamInv'
  BY DEF TypeOK, ThreadInv, OrderInv, StreamInv
<1>6. (1 \in patched => PatchDone)'
  BY DEF TypeOK, PatchDone
<1> QED BY <1>2, <1>3, <1>4, <1>5, <1>6

(* READ_SOCKET: at most a work_buffer is read and not written. *)
LEMMA read_data_inv ==
  ASSUME NetInv, NEW t \in Threads, read_data(t) PROVE NetInv'
<1> USE DEF NetInv, read_data
<1>2. TypeOK'
  BY DEF TypeOK
<1>3. ThreadInv'
  BY DEF TypeOK, ThreadInv
<1>4. OrderInv'
  BY DEF TypeOK, ThreadInv, OrderInv
<1>5. StreamInv'
  BY DEF TypeOK, ThreadInv, OrderInv, StreamInv
<1>6. (1 \in patched => PatchDone)'
  BY DEF TypeOK, PatchDone
<1> QED BY <1>2, <1>3, <1>4, <1>5, <1>6

(* fwrite: only the first one writes the header. *)
LEMMA write_data_inv ==
  ASSUME NetInv, NEW t \in Threads, write_data(t) PROVE NetInv'
<1> USE DEF NetInv, write_data
<1>0. disk' \in [Conns -> Nat] /\ rd' \in [Threads -> Nat]
  BY DEF TypeOK
<1>1. mixed' \subseteq Conns
  <2>1. mixed' \subseteq mixed \cup {fd[t]} /\ fd[t] \in Conns
    BY DEF TypeOK
  <2> QED BY <2>1 DEF TypeOK
<1>2. TypeOK'
  BY <1>0, <1>1 DEF TypeOK
<1>3. ThreadInv'
  BY DEF TypeOK, ThreadInv
<1>4. OrderInv'
  BY DEF TypeOK, ThreadInv, OrderInv
<1>5. StreamInv'
  BY DEF TypeOK, ThreadInv, OrderInv, StreamInv
<1>6. (1 \in patched => PatchDone)'
  BY DEF TypeOK, PatchDone
<1> QED BY <1>2, <1>3, <1>4, <1>5, <1>6

(* main's loop: if the image's connection is accepted, it is by thread 1. *)
LEMMA accept_inv == ASSUME NetInv, accept PROVE NetInv'
<1> USE DEF NetInv, accept
<1>0. backlog' \subseteq Conns /\ connection_fd' \in Conns
  BY DEF TypeOK
<1>1. thr' \in [Threads -> {"none", "created", "packet", "read", "write", "spin",
                         "patch", "closed"}]
  BY DEF TypeOK
<1>2. TypeOK'
  BY <1>0, <1>1 DEF TypeOK
<1>5. ThreadInv'
  BY DEF TypeOK, ThreadInv
<1>6. OrderInv' /\ StreamInv'
  BY DEF TypeOK, ThreadInv, OrderInv, StreamInv
<1>7. (1 \in patched => PatchDone)'
  BY DEF PatchDone
<1> QED BY <1>2, <1>5, <1>6, <1>7

(* The patch: the image is all sent, so its header has reached the disk. *)
LEMMA patch_file_inv ==
  ASSUME NetInv, NEW t \in Threads, patch_file(t) PROVE NetInv'
<1> USE DEF NetInv, patch_file
<1>2. TypeOK'
  BY DEF TypeOK
<1>3. ThreadInv' /\ OrderInv' /\ StreamInv'
  BY DEF TypeOK, ThreadInv, OrderInv, StreamInv
<1>4. sent[1] = Blocks
  BY DEF ThreadInv, OrderInv
<1>5. disk[1] > 0
  BY <1>4, LargeAssumption DEF TypeOK, StreamInv
<1>6. (1 \in patched => PatchDone)'
  BY <1>5 DEF PatchDone
<1> QED BY <1>2, <1>3, <1>6

(* The inductive invariant holds of every backup over the network: who serves
   the image's connection (pc/main.c), when the patch is sent (device.c) and how
   far behind the disk may be. *)
THEOREM NetInvariant == Spec => []NetInv
<1>1. NetInv /\ [Next]_vars => NetInv'
  BY StutterInv, begin_connection_inv, send_packet_inv, file_send_data_inv,
     end_connection_inv, accept_inv, thread_start_inv, read_packet_inv, read_data_inv,
     write_data_inv, patch_file_inv
  DEF Next, Console, Thread
<1> QED BY InitInv, <1>1, PTL DEF Spec

(* finalize_psv_header's patch is never undone by the thread that is still
   writing the image (receive_packets). *)
THEOREM PatchIsKept == Spec => []PatchSurvives
<1>1. NetInv => PatchSurvives
  BY DEF NetInv, PatchDone, PatchSurvives
<1> QED BY NetInvariant, <1>1, PTL
=============================================================================
