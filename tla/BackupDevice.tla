---------------------------- MODULE BackupDevice ----------------------------
(***************************************************************************)
(* app/device.c: dumping a block device to a file or to the network,       *)
(* restoring it from an image and wiping it.                               *)
(*                                                                         *)
(* Sizes are counted in blocks.  Block i of the device is the number i,    *)
(* block i of an image file -i, and a block of zeros 0, so the sequence of *)
(* blocks written so far says where each came from.                        *)
(***************************************************************************)
EXTENDS Integers, Sequences

CONSTANTS
    DeviceSizes,  \* the sizes a card may have
    Buffer        \* sizeof(DEVICE_DUMP_BUFFER), in blocks

ASSUME SizesAssumption == DeviceSizes \subseteq Nat
ASSUME BufferAssumption == Buffer \in Nat \ {0}

VARIABLES
    pc,      \* the next step of the operation
    op,      \* dump_device to a file, to the network; restore, wipe
    format,  \* BackupFormat
    size,    \* the size of the block device
    mbrEnd,  \* the end of the last partition, 0 without a valid SceMbr
    image,   \* the size of the image file to restore
    rd_fd, wr_fd,  \* "zero" as setup_state leaves them, "bad", "open", "closed"
    total,   \* state->total
    rdpos,   \* blocks rd_func returned, all of them hashed when have_sha
    ipos,    \* where the next read of the image file starts
    out,     \* the blocks written, in order
    short,   \* history: a write took less than the device had room for
    gap,     \* history: sceIoRead returned less than the image still held
    hash,    \* blocks the PSV header's hash covers, -1 while it is 0xFF..
    file,    \* the output file: absent, from an older backup, being written
    res      \* the operation's result; "none" while it runs

vars == <<pc, op, format, size, mbrEnd, image, rd_fd, wr_fd, total, rdpos, ipos,
          out, short, gap, hash, file, res>>

Ops == {"phys", "net", "restore", "wipe"}
Formats == {"VCI", "VCI_TRIM", "PSV", "PSV_TRIM", "RAW"}
Fds == {"zero", "bad", "open", "closed"}
FMT_IS_PSV == format \in {"PSV", "PSV_TRIM"}
FMT_IS_TRIM == format \in {"VCI_TRIM", "PSV_TRIM"}
Dumping == op \in {"phys", "net"}
Least(a, b) == IF a < b THEN a ELSE b

-----------------------------------------------------------------------------
(* Sizes *)

(* Mutant of get_trimmed_size: the last partition loses its last block. *)
TrimmedShort == IF mbrEnd <= 0 THEN mbrEnd ELSE mbrEnd - 1

(* get_trimmed_size: the test of its last lines sends every device with a valid
   partition table to get_device_size. *)
get_trimmed_size == IF mbrEnd <= 0 THEN mbrEnd ELSE size

(* Mutant of to_read: the loop stops one block early. *)
ToReadShort == IF FMT_IS_TRIM THEN get_trimmed_size ELSE size - 1

(* get_effective_size less the header: device_access_loop's to_read. *)
to_read == IF FMT_IS_TRIM THEN get_trimmed_size ELSE size

-----------------------------------------------------------------------------
(* Opening and closing *)

(* A call of dump_device, restore_device or wipe_device, with its arguments:
   what is on the card and in the image file is the caller's choice. *)
Start ==
    /\ pc = "idle"
    /\ op' \in Ops
    /\ format' \in (IF op' \in {"phys", "net"} THEN Formats ELSE {"RAW"})
    /\ size' \in DeviceSizes
    /\ mbrEnd' \in 0..size'
    /\ image' \in (IF op' = "restore" THEN 0..(size' + 1) ELSE {0})
    /\ file' \in (IF op' = "phys" THEN {"absent", "old"} ELSE {"absent"})
    /\ pc' = "setup"
    /\ rd_fd' = "zero" /\ wr_fd' = "zero"
    /\ total' = 0 /\ rdpos' = 0 /\ ipos' = 0 /\ out' = <<>>
    /\ short' = FALSE /\ gap' = FALSE /\ hash' = -1 /\ res' = "none"

(* Where the calls go next when all is well. *)
AfterSetup ==
    CASE Dumping -> "open_rd" [] op = "restore" -> "check" [] OTHER -> "open_wr"

argVars == <<op, format, size, mbrEnd, image>>
loopVars == <<total, rdpos, ipos, out, short, gap, hash>>

(* setup_state: dump_device returns its error at once, the other two leave by
   their error label, and so does a call refused by is_module_started or
   DEVICE_WHITELIST_CHECK without touching anything. *)
setup_state ==
    /\ pc = "setup"
    /\ \/ pc' = AfterSetup /\ UNCHANGED res
       \/ pc' = "idle" /\ res' = "fail"
       \/ ~Dumping /\ pc' = "close" /\ res' = "fail"
    /\ UNCHANGED <<argVars, loopVars, rd_fd, wr_fd, file>>

(* restore_device: the image must fit; stat failing reads as size 0. *)
check_image_size ==
    /\ pc = "check"
    /\ IF size < image
       THEN pc' = "close" /\ res' = "fail"
       ELSE pc' = "open_rd" /\ UNCHANGED res
    /\ UNCHANGED <<argVars, loopVars, rd_fd, wr_fd, file>>

(* The source: kOpenDevice for a dump, sceIoOpen for a restore.
   dump_device_phys tests wr_fd, which is still 0, so there a failed open of
   the device goes on to open the output. *)
open_source ==
    /\ pc = "open_rd"
    /\ \/ rd_fd' = "open" /\ pc' = "open_wr" /\ UNCHANGED res
       \/ /\ rd_fd' = "bad"
          /\ IF op = "phys"
             THEN pc' = "open_wr" /\ UNCHANGED res
             ELSE pc' = "close" /\ res' = "fail"
    /\ UNCHANGED <<argVars, loopVars, wr_fd, file>>

(* The sink: sceIoOpen with SCE_O_CREAT and SCE_O_TRUNC, begin_connection and
   begin_file_send, or kOpenDevice.  restore_device reports a failed open of
   the device with rd_fd, which is a valid descriptor. *)
open_sink ==
    /\ pc = "open_wr"
    /\ \/ /\ wr_fd' = "open"
          /\ pc' = IF Dumping THEN "header" ELSE "loop"
          /\ file' = IF op = "phys" THEN "new" ELSE file
          /\ UNCHANGED res
       \/ /\ wr_fd' = "bad"
          /\ pc' = "close"
          /\ res' = IF op = "restore" THEN "ok" ELSE "fail"
          /\ UNCHANGED file
       \/ /\ op = "net"
          /\ wr_fd' = "open" /\ pc' = "close" /\ res' = "fail"
          /\ UNCHANGED file
    /\ UNCHANGED <<argVars, loopVars, rd_fd>>

(* create_header: any write that is not the whole header is an error; the PSV
   header goes out with a hash of 0xFF bytes. *)
create_header ==
    /\ pc = "header"
    /\ \/ pc' = "loop" /\ UNCHANGED res
       \/ format # "RAW" /\ pc' = "close" /\ res' = "fail"
    /\ UNCHANGED <<argVars, loopVars, rd_fd, wr_fd, file>>

-----------------------------------------------------------------------------
(* The loop *)

(* What rd_func may return: a dump gets up to what is left of the device, and
   nothing past its end; read_data_from_image and read_null fill the buffer. *)
ReadSizes ==
    IF Dumping THEN 1..Least(Buffer, size - rdpos) ELSE {Buffer}

(* What a read of the image file could return at most: the file may end, or be
   absent as it is for a dump and a wipe. *)
ImageLeft == Least(Buffer, image - ipos)

(* Mutant of Source: nothing clears what a short read of the image left over. *)
SourceUnpadded(got, j) ==
    IF Dumping THEN rdpos + j ELSE IF op = "restore" THEN -(ipos + j) ELSE 0

(* Block j of DEVICE_DUMP_BUFFER when rd_func returns.  sceIoRead put got blocks
   of the image there; whatever the reason it stopped, read_data_from_image fills
   the rest with zeros and reports a full buffer. *)
Source(got, j) ==
    IF Dumping THEN rdpos + j
    ELSE IF op = "restore" /\ j <= got THEN -(ipos + j) ELSE 0

(* rd_func returns n, of which sceIoRead delivered got blocks of the image: the
   next read of the file goes on behind those. *)
Read(n, got) ==
    /\ rdpos' = rdpos + n
    /\ ipos' = ipos + got
    /\ gap' = (gap \/ got < ImageLeft)

(* The room wr_func has: a device ends, a file or a socket does not. *)
Room(n) == IF Dumping THEN n ELSE Least(n, size - total)

Written(got, w) ==
    [i \in 1..(total + w) |-> IF i <= total THEN out[i] ELSE Source(got, i - total)]

(* wr_func takes w of the n blocks. *)
Write(n, got, w) ==
    /\ total' = total + w
    /\ out' = Written(got, w)
    /\ short' = (short \/ w < Room(n))
    /\ UNCHANGED hash

LoopDone == IF Dumping /\ FMT_IS_PSV THEN "finalize" ELSE "close"

(* Mutants of device_access_loop: ending by what was read, not by what was
   written; and trying again when a read returns 0. *)
LoopEndsByReads ==
    /\ pc = "loop"
    /\ \/ pc' = "close" /\ res' = "fail" /\ UNCHANGED loopVars
       \/ /\ rd_fd = "open" \/ op = "wipe"
          /\ \E n \in ReadSizes, got \in 0..ImageLeft : \E w \in 1..Room(n) :
                /\ Read(n, got) /\ Write(n, got, w)
                /\ pc' = IF rdpos + n < to_read THEN "loop" ELSE LoopDone
                /\ res' = IF pc' = "close" THEN "ok" ELSE res
    /\ UNCHANGED <<argVars, rd_fd, wr_fd, file>>
LoopRetries ==
    /\ pc = "loop"
    /\ \/ UNCHANGED <<pc, res, loopVars>>
       \/ /\ rd_fd = "open" \/ op = "wipe"
          /\ \E n \in ReadSizes, got \in 0..ImageLeft : \E w \in 1..Room(n) :
               /\ Read(n, got) /\ Write(n, got, w)
               /\ pc' = IF total + w < to_read THEN "loop" ELSE LoopDone
               /\ res' = IF pc' = "close" THEN "ok" ELSE res
    /\ UNCHANGED <<argVars, rd_fd, wr_fd, file>>

(* rd_func returns 0, an error, or n blocks; then wr_func returns 0, an error,
   or w of them, and the loop goes on while total < to_read. *)
device_access_loop ==
    /\ pc = "loop"
    /\ \/ pc' = "close" /\ res' = "fail" /\ UNCHANGED loopVars
       \/ /\ rd_fd = "open" \/ op = "wipe"
          /\ \E n \in ReadSizes, got \in 0..ImageLeft :
                /\ Read(n, got)
                /\ \/ /\ pc' = "close" /\ res' = "fail"
                      /\ UNCHANGED <<total, out, short, hash>>
                   \/ \E w \in 1..Room(n) :
                        /\ Write(n, got, w)
                        /\ pc' = IF total + w < to_read THEN "loop" ELSE LoopDone
                        /\ res' = IF pc' = "close" THEN "ok" ELSE res
    /\ UNCHANGED <<argVars, rd_fd, wr_fd, file>>

(* Mutant of finalize_psv_header: the result of the write is not looked at. *)
FinalizeUnchecked ==
    /\ pc = "finalize"
    /\ pc' = "close" /\ res' = "ok"
    /\ hash' \in {hash, rdpos}
    /\ UNCHANGED <<argVars, rd_fd, wr_fd, total, rdpos, ipos, out, short, gap, file>>

(* finalize_psv_header: in the file, the hash is written at its place or the
   dump fails; over the network neither a refused connection nor a failed send
   is reported. *)
finalize_psv_header ==
    /\ pc = "finalize"
    /\ pc' = "close"
    /\ \/ hash' = rdpos /\ res' = "ok"
       \/ UNCHANGED hash /\ res' = IF op = "phys" THEN "fail" ELSE "ok"
    /\ UNCHANGED <<argVars, rd_fd, wr_fd, total, rdpos, ipos, out, short, gap, file>>

(* Mutant of close_all: a failed dump leaves its file. *)
CloseKeepsFile ==
    /\ pc = "close"
    /\ pc' = "idle"
    /\ rd_fd' = IF rd_fd # "bad" /\ op # "wipe" THEN "closed" ELSE rd_fd
    /\ wr_fd' = IF wr_fd # "bad" THEN "closed" ELSE wr_fd
    /\ UNCHANGED <<argVars, loopVars, res, file>>

(* The error label: a descriptor that is not negative is closed, the 0 of one
   never opened included, and dump_device_phys removes the file of a dump that
   failed.  wipe_device has no source. *)
close_all ==
    /\ pc = "close"
    /\ pc' = "idle"
    /\ rd_fd' = IF rd_fd # "bad" /\ op # "wipe" THEN "closed" ELSE rd_fd
    /\ wr_fd' = IF wr_fd # "bad" THEN "closed" ELSE wr_fd
    /\ file' = IF op = "phys" /\ res = "fail" THEN "absent" ELSE file
    /\ UNCHANGED <<argVars, loopVars, res>>

Init ==
    /\ pc = "idle" /\ op = "phys" /\ format = "RAW"
    /\ size = 0 /\ mbrEnd = 0 /\ image = 0
    /\ rd_fd = "closed" /\ wr_fd = "closed"
    /\ total = 0 /\ rdpos = 0 /\ ipos = 0 /\ out = <<>>
    /\ short = FALSE /\ gap = FALSE
    /\ hash = -1 /\ file = "absent" /\ res = "none"

Step ==
    \/ setup_state \/ check_image_size \/ open_source \/ open_sink
    \/ create_header \/ device_access_loop \/ finalize_psv_header \/ close_all
Next == Start \/ Step

Spec == Init /\ [][Next]_vars

(* The operation runs in the application's only thread; the calls it makes
   return. *)
FairSpec == Spec /\ WF_vars(Step)

-----------------------------------------------------------------------------
(* Properties *)

(* BackupState keeps its types: what the loop has written is total blocks. *)
TypeOK ==
    /\ pc \in {"idle", "setup", "check", "open_rd", "open_wr", "header", "loop",
               "finalize", "close"}
    /\ op \in Ops /\ format \in Formats
    /\ size \in Nat /\ mbrEnd \in 0..size /\ image \in Nat
    /\ rd_fd \in Fds /\ wr_fd \in Fds
    /\ total \in Nat /\ rdpos \in Nat /\ out \in [1..total -> Int]
    /\ ipos \in 0..image
    /\ short \in BOOLEAN /\ gap \in BOOLEAN
    /\ hash \in Int
    /\ file \in {"absent", "old", "new"}
    /\ res \in {"none", "ok", "fail"}

Returned(result) == pc = "idle" /\ res = result

(* The argument behind the exactness properties: nothing is lost while as much
   has been written as was read; once something was lost a dump can no longer
   reach its size, and a restore has recorded a short write.  While the image
   was read without a gap, the file's position keeps up with what was returned. *)
Early == {"setup", "check", "open_rd", "open_wr", "header"}
ControlInv ==
    /\ pc \in Early \cup {"loop", "finalize"} => res = "none"
    /\ pc \in Early => total = 0 /\ rdpos = 0 /\ ipos = 0
    /\ pc \in {"setup", "check"} => rd_fd = "zero"
    /\ pc \in {"setup", "check", "open_rd", "open_wr"} => wr_fd = "zero" /\ file # "new"
    /\ pc = "loop" => total < to_read \/ (total = 0 /\ rdpos = 0)
    /\ pc = "finalize" => Dumping /\ FMT_IS_PSV /\ total >= to_read
    /\ pc \in {"header", "finalize"} => Dumping
    /\ pc \in {"header", "loop", "finalize"} => wr_fd = "open"
    /\ op = "wipe" => rd_fd # "open" /\ pc \notin {"check", "open_rd"}
    /\ pc = "idle" => rd_fd # "open" /\ wr_fd # "open"
    /\ res = "ok" => \/ total >= to_read
                     \/ op = "restore" /\ wr_fd = "bad"
    /\ (pc = "close" /\ res = "none") => FALSE
    /\ (op = "phys" /\ FMT_IS_PSV /\ res = "ok") => hash = rdpos
    /\ (pc = "idle" /\ res = "fail") => file # "new"
    /\ file = "new" => op = "phys"
    /\ wr_fd = "bad" => total = 0
DataInv ==
    /\ Dumping => /\ total <= rdpos /\ rdpos <= size
                  /\ total = rdpos => \A i \in 1..total : out[i] = i
    /\ op \in {"restore", "wipe"} => total <= size /\ ~FMT_IS_TRIM
    /\ op # "restore" => image = 0
    /\ (op = "restore" /\ ~short /\ ~gap /\ res # "fail") =>
            /\ ipos = Least(rdpos, image)
            /\ total = rdpos \/ (total = size /\ pc # "loop")
            /\ \A i \in 1..total : out[i] = IF i <= image THEN -i ELSE 0
    /\ op = "wipe" => \A i \in 1..total : out[i] = 0
(* The inductive invariant the exactness properties follow from. *)
DeviceInv == TypeOK /\ ControlInv /\ DataInv

(* A dump that reports success holds every block of the device, once and in
   order, whatever short reads and short writes happened on the way: the loop
   drops what a short write left over, but then the device runs out before
   total reaches to_read, and SIZE_IS_ZERO is returned. *)
DumpIsExact ==
    (Returned("ok") /\ Dumping /\ ~FMT_IS_TRIM)
        => out = [i \in 1..size |-> i]

(* A trimmed dump that reports success holds every block of every partition,
   short writes or not: get_trimmed_size never comes out below the partitions'
   end. *)
TrimCoversPartitions ==
    (Returned("ok") /\ Dumping /\ FMT_IS_TRIM)
        => \A i \in 1..mbrEnd : i <= total /\ out[i] = i

(* The hash a PSV file ends up with covers exactly the blocks in the file. *)
PsvHashMatchesFile ==
    (Returned("ok") /\ op = "phys" /\ format = "PSV")
        => hash = total /\ out = [i \in 1..hash |-> i]

(* dump_device_phys fails without a trace: at its return no descriptor is open
   and no partial file is left, however far it got. *)
FailedDumpLeavesNothing ==
    pc = "idle" => /\ rd_fd # "open" /\ wr_fd # "open"
                   /\ res = "fail" => file # "new"

(* A restore that wrote to the device leaves the image on it, and zeros from the
   image's end to the device's, provided that no write was short and that no read
   of the image was short before its end: the code notices neither. *)
RestoreIsExact ==
    (Returned("ok") /\ op = "restore" /\ wr_fd = "closed" /\ ~short /\ ~gap)
        => out = [i \in 1..size |-> IF i <= image THEN -i ELSE 0]

(* A wipe that reports success wrote zeros from the first block to the last. *)
WipeIsComplete ==
    (Returned("ok") /\ op = "wipe") => out = [i \in 1..size |-> 0]

(* Every operation returns: each turn of the loop gains at least one block. *)
OperationEnds == (pc = "setup") ~> (pc = "idle")
=============================================================================
