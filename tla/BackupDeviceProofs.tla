------------------------ MODULE BackupDeviceProofs ------------------------
(***************************************************************************)
(* Proofs about BackupDevice, for every device size and every buffer size. *)
(***************************************************************************)
EXTENDS BackupDevice, TLAPS

USE SizesAssumption, BufferAssumption

(* A call starts from a state that satisfies the invariant. *)
LEMMA StartInv == Start => DeviceInv'
<1> SUFFICES ASSUME Start PROVE DeviceInv'
    OBVIOUS
<1>1. TypeOK'
  <2>1. size' \in Nat /\ mbrEnd' \in 0..size' /\ image' \in Nat
    <3>1. \A s \in Nat : s + 1 \in Nat /\ 0..s \subseteq Nat
      OBVIOUS
    <3>2. PICK s \in Nat : size' = s
      BY DEF Start
    <3>3. mbrEnd' \in 0..s /\ (image' \in 0..(s + 1) \/ image' = 0)
      BY <3>2 DEF Start
    <3> QED BY <3>1, <3>2, <3>3
  <2>2. op' \in Ops /\ format' \in Formats /\ file' \in {"absent", "old", "new"}
    BY DEF Start, Ops, Formats
  <2>3. total' = 0 /\ out' \in [1..0 -> Int]
    BY DEF Start
  <2>4. short' \in BOOLEAN /\ gap' \in BOOLEAN /\ ipos' = 0
    BY DEF Start
  <2> QED BY <2>1, <2>2, <2>3, <2>4 DEF Start, TypeOK, Fds
<1>2. ControlInv'
    BY DEF Start, ControlInv, Early
<1>3. DataInv'
  <2>1. total' = 0 /\ rdpos' = 0 /\ ipos' = 0 /\ size' \in Nat /\ image' \in Nat
    BY <1>1 DEF Start, TypeOK
  <2>2. ipos' = Least(rdpos', image')
    BY <2>1 DEF Least
  <2>3. op' # "restore" => image' = 0
    BY DEF Start
  <2>4. op' \in {"restore", "wipe"} => ~FMT_IS_TRIM'
    BY DEF Start, FMT_IS_TRIM
  <2> QED BY <2>1, <2>2, <2>3, <2>4 DEF DataInv
<1> QED BY <1>1, <1>2, <1>3 DEF DeviceInv

(* The steps that open, check and close leave the data alone. *)
LEMMA OtherInv ==
    ASSUME DeviceInv,
           \/ setup_state \/ check_image_size \/ open_source \/ open_sink
           \/ create_header \/ finalize_psv_header \/ close_all
    PROVE  DeviceInv'
<1> USE DEF DeviceInv
<1>1. /\ UNCHANGED <<argVars, total, rdpos, ipos, out, short, gap>>
      /\ size \in Nat /\ total \in Nat /\ rdpos \in Nat
    BY DEF setup_state, check_image_size, open_source, open_sink, create_header,
           finalize_psv_header, close_all, loopVars, TypeOK
<1>2. DataInv'
  <2>1. res # "fail" \/ res' = "fail"
    BY DEF setup_state, check_image_size, open_source, open_sink, create_header,
           finalize_psv_header, close_all, ControlInv, Early
  <2>2. pc' = "loop" => rdpos = 0 /\ total = 0
    BY DEF setup_state, check_image_size, open_source, open_sink, create_header,
           finalize_psv_header, close_all, ControlInv, Early, AfterSetup
  <2>3. Dumping' = Dumping /\ FMT_IS_TRIM' = FMT_IS_TRIM
    BY <1>1 DEF argVars, Dumping, FMT_IS_TRIM
  <2> QED BY <1>1, <2>1, <2>2, <2>3 DEF DataInv, argVars, Least
<1>3. Dumping' = Dumping /\ FMT_IS_PSV' = FMT_IS_PSV /\ to_read' = to_read
    BY <1>1 DEF argVars, Dumping, FMT_IS_PSV, FMT_IS_TRIM, to_read, get_trimmed_size
<1>4. to_read \in Nat
    BY DEF to_read, get_trimmed_size, TypeOK
<1>5. CASE setup_state
    BY <1>1, <1>2, <1>3, <1>4, <1>5
       DEF setup_state, TypeOK, ControlInv, Early, AfterSetup, loopVars, argVars, Dumping
<1>6. CASE check_image_size
    BY <1>1, <1>2, <1>3, <1>4, <1>6
       DEF check_image_size, TypeOK, ControlInv, Early, loopVars, argVars
<1>7. CASE open_source
    BY <1>1, <1>2, <1>3, <1>4, <1>7
       DEF open_source, TypeOK, ControlInv, Early, loopVars, argVars, Fds
<1>8. CASE open_sink
    BY <1>1, <1>2, <1>3, <1>4, <1>8
       DEF open_sink, TypeOK, ControlInv, Early, loopVars, argVars, Fds, Dumping
<1>9. CASE create_header
    BY <1>1, <1>2, <1>3, <1>4, <1>9
       DEF create_header, TypeOK, ControlInv, Early, loopVars, argVars
<1>10. CASE finalize_psv_header
    BY <1>1, <1>2, <1>3, <1>4, <1>10
       DEF finalize_psv_header, TypeOK, ControlInv, Early, argVars
<1>11. CASE close_all
    BY <1>1, <1>2, <1>3, <1>4, <1>11
       DEF close_all, TypeOK, ControlInv, Early, loopVars, argVars, Fds
<1> QED BY <1>5, <1>6, <1>7, <1>8, <1>9, <1>10, <1>11

(* One turn of device_access_loop. *)
LEMMA LoopInv == DeviceInv /\ device_access_loop => DeviceInv'
<1> SUFFICES ASSUME DeviceInv, device_access_loop PROVE DeviceInv'
    OBVIOUS
<1> USE DEF DeviceInv
<1>1. /\ UNCHANGED <<argVars, rd_fd, wr_fd, file>> /\ pc = "loop" /\ res = "none"
      /\ size \in Nat /\ total \in Nat /\ rdpos \in Nat /\ image \in Nat
      /\ ipos \in 0..image
    BY DEF device_access_loop, TypeOK, ControlInv
<1>2. /\ Dumping' = Dumping /\ FMT_IS_PSV' = FMT_IS_PSV /\ to_read' = to_read
      /\ FMT_IS_TRIM' = FMT_IS_TRIM
    BY <1>1 DEF argVars, Dumping, FMT_IS_PSV, FMT_IS_TRIM, to_read, get_trimmed_size
<1>3. to_read \in Nat
    BY DEF to_read, get_trimmed_size, TypeOK
<1>4. CASE pc' = "close" /\ res' = "fail" /\ UNCHANGED loopVars
    BY <1>1, <1>2, <1>3, <1>4 DEF loopVars, argVars, TypeOK, ControlInv, DataInv, Early
<1>n. ASSUME NEW n \in ReadSizes
      PROVE  /\ n \in Nat \ {0}
             /\ Dumping => rdpos + n <= size
             /\ ~Dumping => n = Buffer
    BY <1>1 DEF ReadSizes, Least
<1>g. ASSUME NEW got \in 0..ImageLeft
      PROVE  got \in Nat /\ got <= Buffer /\ ipos + got \in 0..image
    BY <1>1 DEF ImageLeft, Least
<1>5. ASSUME NEW n \in ReadSizes, NEW got \in 0..ImageLeft, Read(n, got),
             pc' = "close", res' = "fail", UNCHANGED <<total, out, short, hash>>
      PROVE  DeviceInv'
  <2>1. TypeOK'
    <3>1. gap' \in BOOLEAN
      BY <1>5 DEF Read, TypeOK
    <3> QED BY <1>1, <1>5, <1>n, <1>g, <3>1 DEF argVars, TypeOK, Read
  <2>2. ControlInv'
    BY <1>1, <1>2, <1>3, <1>5 DEF argVars, ControlInv, Early
  <2>3. DataInv'
    BY <1>1, <1>2, <1>5, <1>n DEF argVars, DataInv, Read
  <2> QED BY <2>1, <2>2, <2>3
<1>6. ASSUME NEW n \in ReadSizes, NEW got \in 0..ImageLeft, NEW w \in 1..Room(n),
             rd_fd = "open" \/ op = "wipe", Read(n, got), Write(n, got, w),
             pc' = IF total + w < to_read THEN "loop" ELSE LoopDone,
             res' = IF pc' = "close" THEN "ok" ELSE res
      PROVE  DeviceInv'
  <2>0. /\ rdpos' = rdpos + n /\ ipos' = ipos + got /\ total' = total + w
        /\ hash' = hash
    BY <1>6 DEF Read, Write
  <2>1. /\ w \in Nat \ {0} /\ w <= n
        /\ ~Dumping => /\ total + w <= size
                       /\ w = Room(n) => w = n \/ total + w = size
    BY <1>1, <1>n, <1>6 DEF Room, Least
  <2>2. \A j \in Int : Source(got, j) \in Int
    BY <1>1, <1>g DEF Source
  <2>3. /\ out' \in [1..total' -> Int]
        /\ \A i \in 1..total' :
               out'[i] = IF i <= total THEN out[i] ELSE Source(got, i - total)
    <3>1. out' = [i \in 1..(total + w) |->
                     IF i <= total THEN out[i] ELSE Source(got, i - total)]
      BY <1>6 DEF Write, Written
    <3>2. \A i \in 1..(total + w) :
              (IF i <= total THEN out[i] ELSE Source(got, i - total)) \in Int
      BY <1>1, <2>1, <2>2 DEF TypeOK
    <3> HIDE DEF DeviceInv
    <3> QED BY <3>1, <3>2, <2>0
  <2>4. TypeOK'
    <3>1. short' \in BOOLEAN /\ gap' \in BOOLEAN
      BY <1>6 DEF TypeOK, Read, Write
    <3>2. pc' \in {"loop", "finalize", "close"} /\ res' \in {"none", "ok"}
      BY <1>1, <1>6 DEF LoopDone
    <3> QED BY <1>1, <1>n, <1>g, <2>0, <2>1, <2>3, <3>1, <3>2 DEF argVars, TypeOK
  <2>5. ControlInv'
    <3>1. CASE total + w < to_read
      <4>1. pc' = "loop" /\ res' = "none" /\ total' < to_read'
        BY <3>1, <1>1, <1>2, <1>6, <2>0
      <4> QED BY <4>1, <1>1, <1>2, <1>6, <2>0, <2>1 DEF argVars, ControlInv, Early
    <3>2. CASE total + w >= to_read /\ Dumping /\ FMT_IS_PSV
      <4>1. pc' = "finalize" /\ res' = "none" /\ total' >= to_read'
        BY <3>2, <1>1, <1>2, <1>3, <1>6, <2>0, <2>1 DEF LoopDone
      <4> QED BY <4>1, <3>2, <1>1, <1>2, <1>6, <2>0, <2>1 DEF argVars, ControlInv, Early
    <3>3. CASE total + w >= to_read /\ ~(Dumping /\ FMT_IS_PSV)
      <4>1. pc' = "close" /\ res' = "ok" /\ total' >= to_read'
        BY <3>3, <1>1, <1>2, <1>3, <1>6, <2>0, <2>1 DEF LoopDone
      <4>2. ~(op' = "phys" /\ FMT_IS_PSV')
        BY <3>3, <1>1, <1>2 DEF argVars, Dumping
      <4> QED BY <4>1, <4>2, <1>1, <1>2, <1>6, <2>0, <2>1 DEF argVars, ControlInv, Early
    <3> QED BY <3>1, <3>2, <3>3, <1>1, <1>3, <2>1
  <2>6. DataInv'
    <3>1. CASE Dumping
      <4>1. \A j : Source(got, j) = rdpos + j
        BY <3>1 DEF Source
      <4>2. total' <= rdpos' /\ rdpos' <= size
        BY <1>1, <1>6, <1>n, <2>0, <2>1, <3>1 DEF DataInv
      <4>3. ASSUME total' = rdpos', NEW i \in 1..total'
            PROVE  out'[i] = i
        <5>1. total = rdpos
          BY <4>3, <1>1, <1>n, <2>0, <2>1, <3>1 DEF DataInv
        <5>2. i \in 1..(total + w) /\ rdpos + (i - total) = i
          BY <5>1, <4>3, <1>1, <2>0, <2>1
        <5>3. CASE i <= total
          <6>1. out'[i] = out[i] /\ i \in 1..total
            BY <5>2, <5>3, <2>3, <4>3, <1>1, <2>1
          <6> QED BY <6>1, <5>1, <3>1 DEF DataInv
        <5>4. CASE ~(i <= total)
          BY <5>2, <5>4, <2>3, <4>3, <4>1
        <5> QED BY <5>3, <5>4
      <4> QED BY <1>1, <1>2, <3>1, <4>2, <4>3 DEF DataInv, Dumping, argVars
    <3>2. CASE op = "wipe"
      <4>1. \A j : Source(got, j) = 0
        BY <3>2 DEF Source, Dumping
      <4>2. \A i \in 1..total' : out'[i] = 0
        BY <1>1, <2>0, <2>1, <2>3, <3>2, <4>1 DEF DataInv
      <4> QED BY <1>1, <1>2, <2>0, <2>1, <3>2, <4>2 DEF DataInv, Dumping, argVars
    <3>3. CASE op = "restore"
      <4>1. \A j : Source(got, j) = IF j <= got THEN -(ipos + j) ELSE 0
        BY <3>3 DEF Source, Dumping
      <4>2. ASSUME ~short', ~gap'
            PROVE  /\ ipos' = Least(rdpos', image)
                   /\ total' = rdpos' \/ (total' = size /\ pc' # "loop")
                   /\ \A i \in 1..total' : out'[i] = IF i <= image THEN -i ELSE 0
        <5>1. ~short /\ ~(w < Room(n)) /\ ~gap /\ ~(got < ImageLeft)
          BY <1>6, <4>2 DEF Read, Write
        <5>2. w = Room(n) /\ got = Least(Buffer, image - ipos) /\ n = Buffer
          BY <5>1, <1>1, <1>n, <1>g, <2>1, <3>3 DEF Room, Least, ImageLeft, Dumping
        <5>3. total = rdpos /\ ipos = Least(rdpos, image)
          BY <5>1, <1>1, <3>3 DEF DataInv
        <5>4. total' = rdpos' \/ total' = size
          BY <5>2, <5>3, <2>0, <2>1, <1>1, <1>n, <3>3 DEF Dumping
        <5>5. to_read = size
          BY <3>3 DEF DataInv, to_read
        <5>6. ASSUME NEW i \in 1..total'
              PROVE  out'[i] = IF i <= image THEN -i ELSE 0
          <6>1. i \in 1..(total + w)
            BY <5>6, <2>0
          <6>2. CASE i <= total
            <7>1. out'[i] = out[i] /\ i \in 1..total
              BY <6>1, <6>2, <2>3, <5>6, <1>1, <2>1
            <7> QED BY <7>1, <5>1, <3>3, <1>1 DEF DataInv
          <6>3. CASE ~(i <= total)
            <7>1. out'[i] = IF i - total <= got THEN -(ipos + (i - total)) ELSE 0
              BY <6>1, <6>3, <2>3, <5>6, <4>1
            <7>2. i - total <= got <=> i <= image
              BY <6>1, <6>3, <5>2, <5>3, <1>1, <1>g, <2>1 DEF Least
            <7>3. i <= image => ipos = total
              BY <6>1, <6>3, <5>3, <1>1 DEF Least
            <7> QED BY <7>1, <7>2, <7>3, <6>1, <1>1, <2>1
          <6> QED BY <6>2, <6>3
        <5>7. ipos' = Least(rdpos', image)
          BY <5>2, <5>3, <1>1, <1>n, <2>0 DEF Least
        <5>8. total' = size => pc' # "loop"
          BY <5>5, <1>6, <1>1, <2>0, <2>1 DEF LoopDone
        <5> QED BY <5>4, <5>6, <5>7, <5>8
      <4> QED BY <1>1, <1>2, <2>0, <2>1, <3>3, <4>2 DEF DataInv, Dumping, argVars
    <3> QED BY <3>1, <3>2, <3>3 DEF TypeOK, Ops, Dumping
  <2> QED BY <2>4, <2>5, <2>6
<1> QED BY <1>4, <1>5, <1>6 DEF device_access_loop

(* The invariant holds in every reachable state. *)
THEOREM DeviceInvariant == Spec => []DeviceInv
<1>1. Init => DeviceInv
  <2> SUFFICES ASSUME Init PROVE DeviceInv
    OBVIOUS
  <2>1. total = 0 /\ out \in [1..0 -> Int]
    BY DEF Init
  <2>a. short \in BOOLEAN /\ gap \in BOOLEAN /\ ipos = 0
    BY DEF Init
  <2>2. TypeOK
    BY <2>1, <2>a DEF Init, TypeOK, Ops, Formats, Fds
  <2>3. ControlInv /\ DataInv
    BY <2>1 DEF Init, ControlInv, DataInv, Least, Early, Dumping, to_read, FMT_IS_TRIM, FMT_IS_PSV
  <2> QED BY <2>2, <2>3 DEF DeviceInv
<1>2. DeviceInv /\ [Next]_vars => DeviceInv'
  <2> SUFFICES ASSUME DeviceInv, [Next]_vars PROVE DeviceInv'
    OBVIOUS
  <2>1. CASE UNCHANGED vars
    BY <2>1 DEF vars, DeviceInv, TypeOK, ControlInv, DataInv, Dumping, FMT_IS_PSV,
                FMT_IS_TRIM, to_read, get_trimmed_size, Least
  <2> QED BY <2>1, StartInv, LoopInv, OtherInv DEF Next, Step
<1> QED BY <1>1, <1>2, PTL DEF Spec

(* A dump that reports success is a 1:1 copy of the device: for every size of
   device and buffer and every pattern of short reads and writes. *)
THEOREM DumpExact == Spec => []DumpIsExact
<1>1. DeviceInv => DumpIsExact
  <2> SUFFICES ASSUME DeviceInv, Returned("ok"), Dumping, ~FMT_IS_TRIM
               PROVE  out = [i \in 1..size |-> i]
    BY DEF DumpIsExact
  <2>1. total = size /\ rdpos = size
    BY DEF DeviceInv, TypeOK, ControlInv, DataInv, Returned, to_read, Dumping
  <2>2. out \in [1..size -> Int] /\ \A i \in 1..size : out[i] = i
    BY <2>1 DEF DeviceInv, TypeOK, DataInv
  <2> QED BY <2>2
<1> QED BY <1>1, DeviceInvariant, PTL

(* A trimmed dump that reports success holds every partition: its size comes out
   as the device's, or as nothing when there is no partition to hold. *)
THEOREM TrimExact == Spec => []TrimCoversPartitions
<1>1. DeviceInv => TrimCoversPartitions
  <2> SUFFICES ASSUME DeviceInv, Returned("ok"), Dumping, FMT_IS_TRIM,
                      NEW i \in 1..mbrEnd
               PROVE  i <= total /\ out[i] = i
    BY DEF TrimCoversPartitions
  <2>1. mbrEnd \in 0..size /\ size \in Nat
    BY SizesAssumption DEF DeviceInv, TypeOK, ControlInv, DataInv
  <2>2. to_read = size
    BY <2>1 DEF to_read, get_trimmed_size
  <2>3. total = size /\ rdpos = size
    BY <2>1, <2>2 DEF DeviceInv, TypeOK, ControlInv, DataInv, Returned, Dumping
  <2>4. \A j \in 1..size : out[j] = j
    BY <2>3 DEF DeviceInv, TypeOK, DataInv
  <2> QED BY <2>1, <2>3, <2>4
<1> QED BY <1>1, DeviceInvariant, PTL

(* The hash in the header of a PSV file is that of the blocks in the file. *)
THEOREM PsvHashExact == Spec => []PsvHashMatchesFile
<1>1. DeviceInv => PsvHashMatchesFile
  <2> SUFFICES ASSUME DeviceInv, Returned("ok"), op = "phys", format = "PSV"
               PROVE  hash = total /\ out = [i \in 1..hash |-> i]
    BY DEF PsvHashMatchesFile
  <2>1. Dumping /\ ~FMT_IS_TRIM /\ FMT_IS_PSV
    BY DEF Dumping, FMT_IS_TRIM, FMT_IS_PSV
  <2>2. total = size /\ rdpos = size /\ hash = rdpos
    BY <2>1 DEF DeviceInv, TypeOK, ControlInv, DataInv, Returned, to_read, Dumping
  <2>3. out \in [1..hash -> Int] /\ \A i \in 1..hash : out[i] = i
    BY <2>1, <2>2 DEF DeviceInv, TypeOK, DataInv
  <2> QED BY <2>2, <2>3
<1> QED BY <1>1, DeviceInvariant, PTL

(* A restore leaves the image, padded with zeros, on a device that took all it
   was given, if the image's reads stopped early nowhere but at its end.  Without
   that condition read_data_from_image makes it false. *)
THEOREM RestoreExact == Spec => []RestoreIsExact
<1>1. DeviceInv => RestoreIsExact
  <2> SUFFICES ASSUME DeviceInv, Returned("ok"), op = "restore", wr_fd = "closed",
                      ~short, ~gap
               PROVE  out = [i \in 1..size |-> IF i <= image THEN -i ELSE 0]
    BY DEF RestoreIsExact
  <2>1. total = size
    BY DEF DeviceInv, TypeOK, ControlInv, DataInv, Returned, to_read
  <2>2. out \in [1..size -> Int]
        /\ \A i \in 1..size : out[i] = IF i <= image THEN -i ELSE 0
    BY <2>1 DEF DeviceInv, TypeOK, DataInv, Returned
  <2> QED BY <2>2
<1> QED BY <1>1, DeviceInvariant, PTL

(* A wipe that succeeds has zeroed the whole device, short writes or not. *)
THEOREM WipeExact == Spec => []WipeIsComplete
<1>1. DeviceInv => WipeIsComplete
  <2> SUFFICES ASSUME DeviceInv, Returned("ok"), op = "wipe"
               PROVE  out = [i \in 1..size |-> 0]
    BY DEF WipeIsComplete
  <2>1. total = size
    BY DEF DeviceInv, TypeOK, ControlInv, DataInv, Returned, to_read
  <2>2. out \in [1..size -> Int] /\ \A i \in 1..size : out[i] = 0
    BY <2>1 DEF DeviceInv, TypeOK, DataInv
  <2> QED BY <2>2
<1> QED BY <1>1, DeviceInvariant, PTL

(* No descriptor stays open and no partial file stays behind. *)
THEOREM FailsClean == Spec => []FailedDumpLeavesNothing
<1>1. DeviceInv => FailedDumpLeavesNothing
    BY DEF DeviceInv, ControlInv, FailedDumpLeavesNothing
<1> QED BY <1>1, DeviceInvariant, PTL
=============================================================================
