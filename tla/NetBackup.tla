----------------------------- MODULE NetBackup -----------------------------
(***************************************************************************)
(* A PSV backup over the network: the console's side of the protocol       *)
(* (app/net.c, dump_device_network, finalize_psv_header, key_dump_network) *)
(* and the receiver on the computer (pc/main.c), which gives each          *)
(* connection a thread.  Connection 1 carries the image, 2 the patch that  *)
(* adds the hash to the image's header, 3 the keys.  Nothing is ever       *)
(* acknowledged: the console is done when its sends are.                   *)
(*                                                                         *)
(* Streams are counted in blocks; block 1 of the image is its header.      *)
(***************************************************************************)
EXTENDS Naturals

CONSTANTS
    Blocks,     \* effective_size
    Window,     \* blocks the sockets of one connection can hold
    WorkBuf,    \* blocks that fit in the receiver's work_buffer
    Stdio,      \* blocks the receiver's FILE may keep back
    NameLen,    \* the length of the file name, in bytes
    MaxFaults   \* bound: failed sends, refused connections, short first reads

PATCH_NAME_MAX == 79  \* sizeof(patch_file_packet.filename) - 1

ASSUME SizesAssumption ==
    Blocks \in Nat /\ Window \in Nat \ {0} /\ WorkBuf \in Nat \ {0} /\ Stdio \in Nat
(* A card has two or four gigabytes, no buffer on the way more than a few
   megabytes. *)
ASSUME LargeAssumption == Blocks > Window + WorkBuf + Stdio
ASSUME OtherAssumption == NameLen \in Nat /\ MaxFaults \in Nat

Conns == 1..3
Threads == 1..3
Len1 == [c \in Conns |-> IF c = 1 THEN Blocks ELSE IF c = 3 THEN 1 ELSE 0]

VARIABLES
    snd,       \* the console's next call
    conn,      \* the connection it is for
    res,       \* what it has to report
    backlog,   \* connections made and not yet accepted; they are made in order
    pkt,       \* the first packet of each connection
    sent,      \* blocks sent on each connection
    shut,      \* connections end_connection was called for
    connection_fd,  \* the variable of main's loop
    made,      \* threads created
    thr,       \* each thread's next step
    fd,        \* the connection each thread serves
    rd,        \* what a thread's last READ_SOCKET returned
    work,      \* whose bytes are in work_buffer
    got,       \* blocks read from each connection
    disk,      \* blocks of each file on disk
    opened,    \* connections whose file was opened with "wb"
    hash,      \* the hash in the image's header on disk
    patched,   \* history: connections whose file was patched
    mixed,     \* history: connections whose file got another's bytes
    faults

sndVars == <<snd, conn, res, backlog, pkt, sent, shut>>
rcvVars == <<connection_fd, made, thr, fd, rd, work, got, disk, opened, hash,
             patched, mixed>>
vars == <<sndVars, rcvVars, faults>>

Fault == faults < MaxFaults /\ faults' = faults + 1

-----------------------------------------------------------------------------
(* The console *)

(* What follows a connection: handle_dump_device goes on to the keys whatever
   became of the image. *)
Closed ==
    \/ conn = 1 /\ snd' = "connect" /\ conn' = 3
    \/ conn = 2 /\ snd' = "end" /\ conn' = 1
    \/ conn = 3 /\ snd' = "done" /\ conn' = conn

(* begin_connection: connect returns once the connection is in the backlog.
   finalize_psv_header ignores a refusal, the other two callers report it. *)
begin_connection ==
    /\ snd = "connect"
    /\ \/ /\ backlog' = backlog \cup {conn}
          /\ snd' = "packet" /\ UNCHANGED <<conn, res, faults>>
       \/ /\ Fault /\ Closed /\ UNCHANGED backlog
          /\ res' = IF conn = 2 THEN res ELSE "fail"
    /\ UNCHANGED <<pkt, sent, shut, rcvVars>>

(* begin_file_send and send_file_patch; a patch that fails is not reported. *)
send_packet ==
    /\ snd = "packet"
    /\ \/ /\ pkt' = [pkt EXCEPT ![conn] = "sent"]
          /\ snd' = IF conn = 2 THEN "end" ELSE "data"
          /\ UNCHANGED <<res, faults>>
       \/ /\ Fault /\ UNCHANGED pkt
          /\ res' = IF conn = 2 THEN res ELSE "fail"
          /\ snd' = "end"
    /\ UNCHANGED <<conn, backlog, sent, shut, rcvVars>>

(* The receiver has closed its end: sends fail sooner or later. *)
Dropped(c) == \E t \in Threads : thr[t] = "closed" /\ fd[t] = c

(* Mutant of file_send_data: the patch goes out once the header is sent. *)
SendPatchEarly ==
    /\ snd = "data"
    /\ \/ /\ sent[conn] < got[conn] + Window
          /\ sent' = [sent EXCEPT ![conn] = @ + 1]
          /\ res' = "ok"
          /\ \/ conn = 1 /\ snd' = "connect" /\ conn' = 2
             \/ conn = 3 /\ snd' = "end" /\ conn' = conn
          /\ UNCHANGED faults
       \/ /\ Fault \/ (Dropped(conn) /\ UNCHANGED faults)
          /\ res' = "fail" /\ snd' = "end" /\ UNCHANGED <<conn, sent>>
    /\ UNCHANGED <<backlog, pkt, shut, rcvVars>>

(* file_send_data, for the header and for every block: blocks while the
   sockets are full. *)
file_send_data ==
    /\ snd = "data"
    /\ \/ /\ sent[conn] < got[conn] + Window
          /\ sent' = [sent EXCEPT ![conn] = @ + 1]
          /\ \/ /\ sent[conn] + 1 < Len1[conn] /\ UNCHANGED <<snd, conn, res>>
             \/ /\ sent[conn] + 1 = Len1[conn] /\ res' = "ok"
                /\ \/ conn = 1 /\ snd' = "connect" /\ conn' = 2
                   \/ conn = 3 /\ snd' = "end" /\ conn' = conn
          /\ UNCHANGED faults
       \/ /\ Fault \/ (Dropped(conn) /\ UNCHANGED faults)
          /\ res' = "fail" /\ snd' = "end" /\ UNCHANGED <<conn, sent>>
    /\ UNCHANGED <<backlog, pkt, shut, rcvVars>>

(* end_connection, which lets the receiver read what was sent before it. *)
end_connection ==
    /\ snd = "end"
    /\ shut' = shut \cup {conn}
    /\ Closed
    /\ UNCHANGED <<res, backlog, pkt, sent, rcvVars, faults>>

-----------------------------------------------------------------------------
(* The receiver *)

(* Mutant of accept: no sleep(1), the next accept does not wait for the thread. *)
AcceptAtOnce ==
    /\ \E c \in backlog :
          /\ \A d \in backlog : c <= d
          /\ connection_fd' = c
          /\ backlog' = backlog \ {c}
    /\ made' = made + 1
    /\ thr' = [thr EXCEPT ![made + 1] = "created"]
    /\ UNCHANGED <<snd, conn, res, pkt, sent, shut, fd, rd, work, got, disk, opened, hash,
                   patched, mixed, faults>>

(* main: the thread is handed the address of connection_fd; sleep(1) before the
   next accept is what gives it time to read it. *)
accept ==
    /\ \A t \in Threads : thr[t] # "created"
    /\ \E c \in backlog :
          /\ \A d \in backlog : c <= d
          /\ connection_fd' = c
          /\ backlog' = backlog \ {c}
    /\ made' = made + 1
    /\ thr' = [thr EXCEPT ![made + 1] = "created"]
    /\ UNCHANGED <<snd, conn, res, pkt, sent, shut, fd, rd, work, got, disk, opened, hash,
                   patched, mixed, faults>>

(* receive_packets, one action per system call. *)
thread_start(t) ==
    /\ thr[t] = "created"
    /\ thr' = [thr EXCEPT ![t] = "packet"]
    /\ fd' = [fd EXCEPT ![t] = connection_fd]
    /\ UNCHANGED <<sndVars, connection_fd, made, rd, work, got, disk, opened, hash,
                   patched, mixed, faults>>

(* The first packet in one read, or the connection is dropped: at its end, or
   when the read returns less than a packet or the file cannot be opened. *)
read_packet(t) ==
    LET c == fd[t] IN
    /\ thr[t] = "packet"
    /\ \/ /\ pkt[c] = "sent"
          /\ pkt' = [pkt EXCEPT ![c] = "read"]
          /\ \/ /\ c # 2
                /\ thr' = [thr EXCEPT ![t] = "read"]
                /\ opened' = opened \cup {c}
                /\ UNCHANGED faults
             \/ /\ c = 2
                /\ thr' = [thr EXCEPT ![t] = "patch"]
                /\ UNCHANGED <<opened, faults>>
             \/ /\ Fault
                /\ thr' = [thr EXCEPT ![t] = "closed"]
                /\ UNCHANGED opened
       \/ /\ pkt[c] # "sent" /\ c \in shut
          /\ thr' = [thr EXCEPT ![t] = "closed"]
          /\ UNCHANGED <<pkt, opened, faults>>
    /\ UNCHANGED <<snd, conn, res, backlog, sent, shut, connection_fd, made, fd, rd, work, got,
                   disk, hash, patched, mixed>>

(* READ_SOCKET into the one work_buffer all threads share; at the end of the
   connection it returns 0 again and again. *)
read_data(t) ==
    LET c == fd[t] IN
    /\ thr[t] = "read"
    /\ \/ \E n \in 1..WorkBuf :
            /\ got[c] + n <= sent[c]
            /\ got' = [got EXCEPT ![c] = @ + n]
            /\ rd' = [rd EXCEPT ![t] = n]
            /\ work' = c
            /\ thr' = [thr EXCEPT ![t] = "write"]
       \/ /\ sent[c] = got[c] /\ c \in shut
          /\ thr' = [thr EXCEPT ![t] = "spin"]
          /\ UNCHANGED <<got, rd, work>>
    /\ UNCHANGED <<sndVars, connection_fd, made, fd, disk, opened, hash, patched, mixed,
                   faults>>

(* fwrite of rd bytes of whatever work_buffer holds now; stdio keeps some back
   until fclose.  Writing the header block to disk writes its 0xFF hash. *)
write_data(t) ==
    LET c == fd[t] IN
    /\ thr[t] = "write"
    /\ \E d \in disk[c]..got[c] :
          /\ got[c] <= d + Stdio
          /\ got[c] >= Len1[c] => d = got[c]
          /\ disk' = [disk EXCEPT ![c] = d]
          /\ hash' = IF c = 1 /\ disk[c] = 0 /\ d > 0 THEN "ff" ELSE hash
    /\ thr' = [thr EXCEPT ![t] = IF got[c] < Len1[c] THEN "read" ELSE "closed"]
    /\ mixed' = mixed \cup {d \in {c} : work # d}
    /\ rd' = [rd EXCEPT ![t] = 0]
    /\ UNCHANGED <<sndVars, connection_fd, made, fd, work, got, opened, patched, faults>>

(* fopen(..., "r+b") of the name in the patch packet, cut to the size of its
   field; a file that is not there is not patched. *)
patch_file(t) ==
    /\ thr[t] = "patch"
    /\ thr' = [thr EXCEPT ![t] = "closed"]
    /\ IF 1 \in opened /\ NameLen <= PATCH_NAME_MAX
       THEN hash' = "hash" /\ patched' = patched \cup {1}
       ELSE UNCHANGED <<hash, patched>>
    /\ UNCHANGED <<sndVars, connection_fd, made, fd, rd, work, got, disk, opened, mixed,
                   faults>>

Init ==
    /\ snd = "connect" /\ conn = 1 /\ res = "none" /\ backlog = {}
    /\ pkt = [c \in Conns |-> "no"] /\ sent = [c \in Conns |-> 0]
    /\ shut = {}
    /\ connection_fd = 1 /\ made = 0
    /\ thr = [t \in Threads |-> "none"] /\ fd = [t \in Threads |-> 1]
    /\ rd = [t \in Threads |-> 0] /\ work = 1
    /\ got = [c \in Conns |-> 0] /\ disk = [c \in Conns |-> 0]
    /\ opened = {}
    /\ hash = "none" /\ patched = {} /\ mixed = {} /\ faults = 0

Console == begin_connection \/ send_packet \/ file_send_data \/ end_connection
Thread(t) ==
    thread_start(t) \/ read_packet(t) \/ read_data(t) \/ write_data(t) \/ patch_file(t)

Next == Console \/ accept \/ \E t \in Threads : Thread(t)

Spec == Init /\ [][Next]_vars

(* The console's thread, the receiver's main loop and each of its threads are
   scheduled. *)
FairSpec ==
    /\ Spec
    /\ WF_vars(Console) /\ WF_vars(accept)
    /\ \A t \in Threads : WF_vars(Thread(t))

-----------------------------------------------------------------------------
(* Properties *)

(* Both ends keep their types: lengths are never negative, and there is one
   thread per connection. *)
TypeOK ==
    /\ snd \in {"connect", "packet", "data", "end", "done"} /\ conn \in Conns
    /\ res \in {"none", "ok", "fail"}
    /\ backlog \subseteq Conns
    /\ pkt \in [Conns -> {"no", "sent", "read"}]
    /\ sent \in [Conns -> Nat] /\ got \in [Conns -> Nat] /\ disk \in [Conns -> Nat]
    /\ connection_fd \in Conns /\ made \in Nat
    /\ thr \in [Threads -> {"none", "created", "packet", "read", "write", "spin",
                            "patch", "closed"}]
    /\ fd \in [Threads -> Conns] /\ rd \in [Threads -> Nat] /\ work \in Conns
    /\ hash \in {"none", "ff", "hash"}
    /\ faults \in 0..MaxFaults
    /\ shut \subseteq Conns /\ opened \subseteq Conns
    /\ patched \subseteq Conns /\ mixed \subseteq Conns

(* The patch goes out on its own connection while the image's is still being
   read, and nothing orders the two threads that write to the image.  It still
   is not lost: when the last block is sent the header is on disk. *)
PatchSurvives == 1 \in patched => hash = "hash"

(* The image's connection is the first one made, and only thread 1 serves it. *)
ThreadInv ==
    /\ snd = "connect" /\ conn = 1 => backlog = {} /\ made = 0
    /\ 1 \in backlog => made = 0
    /\ made = 0 => thr[1] = "none"
    /\ \A t \in Threads :
          /\ thr[t] = "created" /\ connection_fd = 1 => t = 1
          /\ thr[t] \notin {"none", "created"} /\ fd[t] = 1 => t = 1
          /\ thr[t] = "patch" => pkt[2] # "no"

(* The patch is sent when all of the image is. *)
OrderInv ==
    /\ snd \in {"connect", "packet"} /\ conn = 1 => sent[1] = 0
    /\ snd = "data" => conn # 2
    /\ snd = "data" /\ conn = 1 => sent[1] < Blocks
    /\ snd \in {"connect", "packet", "data"} /\ conn = 1 => pkt[2] = "no"
    /\ snd \in {"connect", "packet"} /\ conn = 2 => sent[1] = Blocks
    /\ pkt[2] # "no" => sent[1] = Blocks

(* The image's blocks are on disk but for what the buffers on the way hold. *)
StreamInv ==
    /\ disk[1] <= got[1] /\ got[1] <= sent[1] /\ sent[1] <= got[1] + Window
    /\ got[1] <= disk[1] + Stdio + WorkBuf
    /\ thr[1] \in {"none", "created", "packet"} => got[1] = 0
    /\ thr[1] = "read" /\ fd[1] = 1 => got[1] <= disk[1] + Stdio

(* What the patch leaves: it is there, over a header that is on disk. *)
PatchDone == hash = "hash" /\ disk[1] > 0

(* PatchSurvives made inductive. *)
NetInv ==
    /\ TypeOK /\ ThreadInv /\ OrderInv /\ StreamInv
    /\ 1 \in patched => PatchDone

(* With nothing going wrong, the whole image arrives, hash included, and the
   receiver's threads end, however far it lags behind the console (if the name
   fits the patch packet). *)
BackupArrives ==
    (snd = "done" /\ faults = 0 /\ NameLen <= PATCH_NAME_MAX)
        ~> \/ faults > 0
           \/ (disk[1] = Blocks /\ disk[3] = 1 /\ hash = "hash"
                 /\ \A t \in Threads : thr[t] = "closed")

(* README: "1:1 backups", over the network too: no file gets bytes that were
   sent for another. *)
FilesNotMixed == mixed = {}
=============================================================================
