-------------------------- MODULE FrameLayout_proofs --------------------------
(***************************************************************************)
(* Theorems about the layout, for every number of commands and, unless     *)
(* they say otherwise, of scatter list entries.                            *)
(***************************************************************************)
EXTENDS FrameLayout, BlockCommands, TLAPS

Kinds == {"io", "pass", "dcmd"}

\* The region holds the command's own frame and all of the list, rounded up.
LEMMA RegionRoom ==
    ASSUME NEW sz \in SglSizes, NEW m \in Nat
    PROVE  /\ FramesSize(sz, m) \in Nat
           /\ FramesSize(sz, m) >= sz * m + MRAID_FRAME_SIZE
           /\ FramesSize(sz, m) % MRAID_FRAME_SIZE = 0
  <1>1. CASE sz = 8
    BY <1>1 DEF FramesSize, MRAID_FRAME_SIZE
  <1>2. CASE sz = 12
    BY <1>2 DEF FramesSize, MRAID_FRAME_SIZE
  <1> QED BY <1>1, <1>2 DEF SglSizes

(***************************************************************************)
(* OutputSegment and CreateSGL: with as many entries as the firmware takes *)
(* each entry written behind mif_sgl, mpf_sgl or mdf_sgl lies inside the   *)
(* ccb's region, and so does what ccb_frame_size says is used of it.       *)
(***************************************************************************)
THEOREM SglInsideRegion ==
    ASSUME NEW sz \in SglSizes, NEW m \in Nat \ {0}, NEW i \in 0 .. m - 1, NEW kind \in Kinds
    PROVE  /\ EntryOffset(kind, sz, i) + sz <= FramesSize(sz, m)
           /\ FrameBytes(kind, sz, i + 1) <= FramesSize(sz, m)
  <1>1. sz * (i + 1) <= sz * m /\ sz * (i + 1) = sz * i + sz
    BY DEF SglSizes
  <1>2. SglOffset[kind] \in {40, 48}
    BY DEF SglOffset, Kinds
  <1>3. sz * (i + 1) \in Nat /\ sz * m \in Nat /\ sz * i \in Nat /\ sz \in Nat
    BY DEF SglSizes
  <1>4. FrameBytes(kind, sz, i + 1) \in {40 + sz * (i + 1), 48 + sz * (i + 1)}
    BY DEF FrameBytes, MRAID_DCMD_FRAME_SIZE, MRAID_PASS_FRAME_SIZE
  <1>5. EntryOffset(kind, sz, i) + sz \in {40 + sz * (i + 1), 48 + sz * (i + 1)}
    BY <1>1, <1>2, <1>3 DEF EntryOffset
  <1>6. FramesSize(sz, m) \in Nat /\ FramesSize(sz, m) >= sz * m + 64
    BY RegionRoom DEF MRAID_FRAME_SIZE
  <1>7. 48 + sz * (i + 1) <= FramesSize(sz, m)
    BY <1>1, <1>3, <1>6
  <1> QED BY <1>3, <1>4, <1>5, <1>6, <1>7

(***************************************************************************)
(* PointToData: a management command with its one entry fits its frame, so *)
(* that no extra frames have to be announced for it.                       *)
(***************************************************************************)
THEOREM PointedInOneFrame ==
    ASSUME NEW sz \in SglSizes
    PROVE  PointedBytes(sz) <= MRAID_FRAME_SIZE
  BY DEF SglSizes, PointedBytes, FrameBytes, MRAID_DCMD_FRAME_SIZE, MRAID_FRAME_SIZE

(***************************************************************************)
(* Initccb: the regions of two ccbs have no byte in common, and all of     *)
(* them begin where the low six bits are clear, if the first one does,     *)
(* which Attach checks.                                                    *)
(***************************************************************************)
THEOREM RegionsDisjoint ==
    ASSUME NEW sz \in SglSizes, NEW m \in Nat, NEW dva \in Nat,
           dva % MRAID_FRAME_SIZE = 0, NEW i \in Nat, NEW j \in Nat, i < j
    PROVE  /\ Frame(dva, FramesSize(sz, m), i) + FramesSize(sz, m)
                <= Frame(dva, FramesSize(sz, m), j)
           /\ Frame(dva, FramesSize(sz, m), j) % MRAID_FRAME_SIZE = 0
  <1> DEFINE S == FramesSize(sz, m)
  <1>1. S \in Nat /\ S % MRAID_FRAME_SIZE = 0
    BY RegionRoom
  <1>2. PICK q \in Nat : S = 64 * q
    <2>1. S = 64 * (S \div 64) /\ S \div 64 \in Nat
      BY <1>1 DEF MRAID_FRAME_SIZE
    <2> QED BY <2>1
  <1>3. S * j = S * i + S * (j - i) /\ S * (j - i) >= S
    <2>1. PICK d \in Nat : j = i + 1 + d
      <3>1. j - i - 1 \in Nat /\ j = i + 1 + (j - i - 1)
        OBVIOUS
      <3> QED BY <3>1
    <2>2. S * (i + 1 + d) = S * i + S + S * d /\ S * d \in Nat
      BY <1>1
    <2>3. S * (j - i) = S + S * d
      BY <1>1, <2>1
    <2> QED BY <1>1, <2>1, <2>2, <2>3
  <1>4. Frame(dva, S, i) + S <= Frame(dva, S, j)
    BY <1>1, <1>3 DEF Frame
  <1>5. Frame(dva, S, j) % 64 = 0
    <2>1. PICK p \in Nat : dva = 64 * p
      <3>1. dva = 64 * (dva \div 64) /\ dva \div 64 \in Nat
        BY DEF MRAID_FRAME_SIZE
      <3> QED BY <3>1
    <2>2. S * j = 64 * (q * j) /\ q * j \in Nat
      BY <1>2
    <2>3. Frame(dva, S, j) = 64 * (p + q * j)
      BY <2>1, <2>2 DEF Frame
    <2>4. p + q * j \in Nat
      BY <2>2
    <2> QED BY <2>3, <2>4
  <1> QED BY <1>4, <1>5 DEF MRAID_FRAME_SIZE

(***************************************************************************)
(* mraid_xscale_post ORs the number of extra frames into three bits, the   *)
(* other posts into five: it fits, with every kind of controller, as long  *)
(* as the option MaxSGL is not set above the 33 entries of the default.    *)
(***************************************************************************)
THEOREM ExtraFramesFit ==
    ASSUME NEW sz \in SglSizes, NEW fw \in Nat, NEW option \in 0 .. DefaultSgl,
           NEW n \in 0 .. MaxSgl(fw, option)
    PROVE  ExtraFrames(sz, n) \in 0 .. 7
  <1>1. DefaultSgl = 33
    BY DEF DefaultSgl, MFI_MAXFER, PAGE_SIZE
  <1>2. MaxSgl(fw, option) \in 0 .. 33
    BY <1>1 DEF MaxSgl, Smaller
  <1>3. n \in 0 .. 33
    BY <1>2
  <1>4. CASE sz = 8
    BY <1>3, <1>4 DEF ExtraFrames, FrameBytes, MRAID_PASS_FRAME_SIZE, MRAID_FRAME_SIZE
  <1>5. CASE sz = 12
    BY <1>3, <1>5 DEF ExtraFrames, FrameBytes, MRAID_PASS_FRAME_SIZE, MRAID_FRAME_SIZE
  <1> QED BY <1>4, <1>5 DEF SglSizes

(***************************************************************************)
(* Initialize_Firmware: the queue information behind the INIT frame ends   *)
(* inside the ccb's region if the firmware takes any scatter list at all,  *)
(* and every slot the firmware is told of lies in the queue's memory.      *)
(***************************************************************************)
THEOREM InitInside ==
    ASSUME NEW sz \in SglSizes, NEW m \in Nat \ {0},
           NEW max_cmds \in Nat, NEW slot \in 0 .. max_cmds
    PROVE  /\ QinfoOffset + QinfoSize <= FramesSize(sz, m)
           /\ ReplyOffset(slot) + 4 <= QueueBytes(max_cmds)
  <1>1. sz * m >= 8
    BY DEF SglSizes
  <1>2. FramesSize(sz, m) > 64 /\ FramesSize(sz, m) % 64 = 0 /\ FramesSize(sz, m) \in Nat
    BY <1>1, RegionRoom DEF MRAID_FRAME_SIZE, SglSizes
  <1>3. FramesSize(sz, m) >= 128
    BY <1>2
  <1> QED BY <1>2, <1>3 DEF QinfoOffset, QinfoSize, ReplyOffset, QueueBytes, MRAID_FRAME_SIZE

(***************************************************************************)
(* Attach: a limit on transfers keeps all of them, wherever in their first *)
(* page they begin, within a list of m entries if it is at most one byte   *)
(* more than m - 1 pages, and not if it is larger.                         *)
(***************************************************************************)
THEOREM ListTakes ==
    ASSUME NEW m \in Nat \ {0}, NEW limit \in Nat
    PROVE  limit <= (m - 1) * PAGE_SIZE + 1
           <=> \A offset \in 0 .. PAGE_SIZE - 1, len \in 0 .. limit : Segments(offset, len) <= m
  <1>1. ASSUME limit <= (m - 1) * PAGE_SIZE + 1,
               NEW offset \in 0 .. PAGE_SIZE - 1, NEW len \in 0 .. limit
        PROVE  Segments(offset, len) <= m
    <2>1. CASE len = 0
      BY <2>1 DEF Segments
    <2>2. CASE len > 0
      <3>1. offset + len - 1 \in Nat /\ offset + len - 1 < m * 4096
        BY <1>1, <2>2 DEF PAGE_SIZE
      <3>2. (offset + len - 1) \div 4096 < m
        BY <3>1
      <3> QED BY <2>2, <3>2 DEF Segments, LastPage, PAGE_SIZE
    <2> QED BY <1>1, <2>1, <2>2
  <1>2. ASSUME limit > (m - 1) * PAGE_SIZE + 1
        PROVE  PAGE_SIZE - 1 \in 0 .. PAGE_SIZE - 1 /\ limit \in 0 .. limit
               /\ ~(Segments(PAGE_SIZE - 1, limit) <= m)
    <2>1. limit > 1 /\ 4095 + limit - 1 >= m * 4096
      BY <1>2 DEF PAGE_SIZE
    <2>2. (4095 + limit - 1) \div 4096 >= m
      BY <2>1
    <2> QED BY <2>1, <2>2 DEF Segments, LastPage, PAGE_SIZE
  <1>3. CASE limit <= (m - 1) * PAGE_SIZE + 1
    BY <1>1, <1>3
  <1>4. CASE ~(limit <= (m - 1) * PAGE_SIZE + 1)
    <2>1. limit > (m - 1) * PAGE_SIZE + 1
      BY <1>4 DEF PAGE_SIZE
    <2> QED BY <1>2, <1>4, <2>1, Zenon
  <1> QED BY <1>3, <1>4

(***************************************************************************)
(* CreateSGL: without the option MaxTransferSize, or with one of no more   *)
(* than a page for each entry but one, a transfer the family may ask for   *)
(* never needs more entries than sc_max_sgl, whatever the controller says  *)
(* of its stripes.  GenerateSegments drops what a list does not take.      *)
(***************************************************************************)
THEOREM TransferFitsList ==
    ASSUME NEW m \in Nat \ {0}, NEW option \in 0 .. (m - 1) * PAGE_SIZE, NEW info \in Infos,
           NEW offset \in 0 .. PAGE_SIZE - 1, NEW len \in 0 .. MaxXferSize(m, option, info)
    PROVE  Segments(offset, len) <= m
  <1> DEFINE limit == (m - 1) * PAGE_SIZE
  <1>1. limit \in Nat
    BY DEF PAGE_SIZE
  <1>2. \A a \in Int : Smaller(a, option) \in Int /\ Smaller(a, option) <= limit
    BY <1>1 DEF Smaller, PAGE_SIZE
  <1>3. MaxXferSize(m, option, info) \in Int /\ MaxXferSize(m, option, info) <= limit
    <2> DEFINE sectors == Smaller(2 ^ info.stripe * info.strips, info.request)
    <2>1. CASE option = 0
      BY <1>1, <2>1 DEF MaxXferSize
    <2>2. CASE option # 0
      <3>1. 2 ^ info.stripe \in Int /\ info.strips \in Int /\ info.request \in Int
        BY DEF Infos
      <3>2. sectors \in Int
        BY <3>1 DEF Smaller
      <3> HIDE DEF sectors
      <3>3. (sectors * SECTOR_LEN) % (65536 * 65536) \in Int
        BY <3>2 DEF SECTOR_LEN
      <3>4. MaxXferSize(m, option, info) = Smaller((sectors * SECTOR_LEN) % (65536 * 65536), option)
        BY <2>2 DEF MaxXferSize, sectors
      <3> QED BY <1>2, <3>3, <3>4
    <2> QED BY <2>1, <2>2
  <1>4. len \in 0 .. limit /\ limit <= (m - 1) * PAGE_SIZE + 1
    BY <1>1, <1>3 DEF PAGE_SIZE
  <1> QED BY <1>1, <1>4, ListTakes

(***************************************************************************)
(* Attach and Initccb: the frames and the sense data of every ccb lie in   *)
(* the memory that was allocated for them, and no two ccbs' sense data     *)
(* overlap.                                                                *)
(***************************************************************************)
THEOREM MemoryHolds ==
    ASSUME NEW sz \in SglSizes, NEW m \in Nat, NEW dva \in Nat,
           NEW max_cmds \in Nat, NEW i \in 0 .. max_cmds - 1, NEW j \in Nat
    PROVE  /\ Frame(dva, FramesSize(sz, m), i) + FramesSize(sz, m)
                <= dva + FramesSize(sz, m) * max_cmds
           /\ Sense(dva, i) + MRAID_SENSE_SIZE <= dva + max_cmds * MRAID_SENSE_SIZE
           /\ i < j => Sense(dva, i) + MRAID_SENSE_SIZE <= Sense(dva, j)
  <1> DEFINE S == FramesSize(sz, m)
  <1>1. S \in Nat
    BY RegionRoom
  <1> HIDE DEF S
  <1>2. PICK d \in Nat : max_cmds = i + 1 + d
    <2>1. max_cmds - i - 1 \in Nat /\ max_cmds = i + 1 + (max_cmds - i - 1)
      OBVIOUS
    <2> QED BY <2>1
  <1>3. S * (i + 1 + d) = S * i + S + S * d /\ S * d \in Nat /\ S * i \in Nat
    BY <1>1
  <1>4. Frame(dva, S, i) + S <= dva + S * max_cmds
    BY <1>1, <1>2, <1>3 DEF Frame
  <1>5. /\ Sense(dva, i) + MRAID_SENSE_SIZE <= dva + max_cmds * MRAID_SENSE_SIZE
        /\ i < j => Sense(dva, i) + MRAID_SENSE_SIZE <= Sense(dva, j)
    BY DEF Sense, MRAID_SENSE_SIZE
  <1> QED BY <1>4, <1>5 DEF S

-----------------------------------------------------------------------------
\* What a field holds is what is read from it.
LEMMA FieldsRead ==
    ASSUME NEW cdb, NEW at \in Nat, NEW v \in Nat
    PROVE  /\ Holds16(cdb, at, v) => Big16(cdb, at) = v
           /\ Holds32(cdb, at, v) => Big32(cdb, at) = v
           /\ Holds64(cdb, at, v) => Big64(cdb, at) = v
  <1>1. ASSUME NEW a \in Nat, NEW w \in Nat, Holds16(cdb, a, w) PROVE Big16(cdb, a) = w
    BY <1>1 DEF Holds16, Big16
  <1>2. ASSUME NEW a \in Nat, NEW w \in Nat, Holds32(cdb, a, w) PROVE Big32(cdb, a) = w
    <2>1. w \div 65536 \in Nat /\ w % 65536 \in Nat /\ w = (w \div 65536) * 65536 + (w % 65536)
      BY <1>2
    <2>2. Big16(cdb, a) = w \div 65536 /\ Big16(cdb, a + 2) = w % 65536
      BY <1>1, <1>2, <2>1 DEF Holds32
    <2> QED BY <2>1, <2>2 DEF Big32
  <1>3. ASSUME Holds64(cdb, at, v) PROVE Big64(cdb, at) = v
    <2> DEFINE W == 65536 * 65536
    <2>1. v \div W \in Nat /\ v % W \in Nat /\ v = (v \div W) * W + (v % W)
      OBVIOUS
    <2>2. Big32(cdb, at) = v \div W /\ Big32(cdb, at + 4) = v % W
      BY <1>2, <1>3, <2>1 DEF Holds64
    <2> QED BY <2>1, <2>2 DEF Big64
  <1> QED BY <1>1, <1>2, <1>3

\* The mask kSCSICmdFieldMask21Bit leaves a number of 21 bits as it is.
LEMMA LowBits ==
    ASSUME NEW k \in Nat, NEW n \in Nat, n < 2097152
    PROVE  (k * 2097152 + n) % 2097152 = n
  OBVIOUS

LEMMA WordSplit ==
    ASSUME NEW a \in Nat, NEW u \in Nat, NEW h \in Nat, NEW w \in Nat
    PROVE  (a * 256 + (u * 32 + h)) * 65536 + w = (a * 8 + u) * 2097152 + (h * 65536 + w)
  OBVIOUS

(***************************************************************************)
(* ProcessParallelTask: of each of the four forms of READ and WRITE, IOCmd *)
(* gets the first block and the number of blocks that the command names,   *)
(* over the whole width of its fields; a READ(6) is read neither with its  *)
(* operation code nor with the unit's number, and its 0 stands for 256.    *)
(***************************************************************************)
THEOREM BlocksAsNamed ==
    ASSUME NEW cdb \in Cdbs, NEW lba \in Nat, NEW len \in Nat
    PROVE  /\ Names6(cdb, lba, len)  => Taken6(cdb)  = [lba |-> lba, len |-> len]
           /\ Names10(cdb, lba, len) => Taken10(cdb) = [lba |-> lba, len |-> len]
           /\ Names12(cdb, lba, len) => Taken12(cdb) = [lba |-> lba, len |-> len]
           /\ Names16(cdb, lba, len) => Taken16(cdb) = [lba |-> lba, len |-> len]
  <1>1. ASSUME Names6(cdb, lba, len) PROVE Taken6(cdb) = [lba |-> lba, len |-> len]
    <2>1. cdb[0] \in Nat /\ cdb[1] \in Nat /\ cdb[4] \in Nat /\ cdb[4] < 256
      <3>1. cdb[0] \in Bytes /\ cdb[1] \in Bytes /\ cdb[4] \in Bytes
        BY DEF Cdbs
      <3>2. \A b \in Bytes : b \in Nat /\ b < 256
        BY DEF Bytes
      <3> QED BY <3>1, <3>2
    <2>2. lba % 65536 \in Nat /\ lba = (lba \div 65536) * 65536 + (lba % 65536)
      OBVIOUS
    <2>3. Big16(cdb, 2) = lba % 65536
      <3>1. Holds16(cdb, 2, lba % 65536)
        BY <1>1 DEF Names6
      <3> QED BY <2>2, <3>1, FieldsRead
    <2>4. lba < 2097152 /\ cdb[1] % 32 = lba \div 65536
      BY <1>1 DEF Names6
    <2>5. PICK u \in Nat : cdb[1] = u * 32 + (cdb[1] % 32)
      <3>1. cdb[1] \div 32 \in Nat /\ cdb[1] = (cdb[1] \div 32) * 32 + (cdb[1] % 32)
        BY <2>1
      <3> QED BY <3>1
    <2> DEFINE k == cdb[0] * 8 + u
               h == lba \div 65536
               w == lba % 65536
    <2>6. k \in Nat /\ Big32(cdb, 0) = k * 2097152 + lba
      <3>1. k \in Nat /\ h \in Nat /\ w \in Nat /\ lba = h * 65536 + w /\ cdb[1] = u * 32 + h
        <4>1. k \in Nat
          BY <2>1
        <4>2. h \in Nat
          OBVIOUS
        <4>3. cdb[1] = u * 32 + h
          BY <2>4, <2>5
        <4> HIDE DEF k
        <4> QED BY <2>2, <4>1, <4>2, <4>3
      <3>2. Big32(cdb, 0) = (cdb[0] * 256 + (u * 32 + h)) * 65536 + w
        BY <2>3, <3>1 DEF Big32, Big16
      <3>3. (cdb[0] * 256 + (u * 32 + h)) * 65536 + w = k * 2097152 + (h * 65536 + w)
        BY <2>1, <3>1, WordSplit
      <3> QED BY <3>1, <3>2, <3>3
    <2> HIDE DEF k
    <2>7. Big32(cdb, 0) % 2097152 = lba
      <3>1. (k * 2097152 + lba) % 2097152 = lba
        BY <2>4, <2>6, LowBits
      <3> QED BY <2>6, <3>1
    <2>8. (IF cdb[4] # 0 THEN cdb[4] ELSE 256) = len
      BY <1>1, <2>1 DEF Names6
    <2> QED BY <2>7, <2>8 DEF Taken6
  <1>2. Names10(cdb, lba, len) => Taken10(cdb) = [lba |-> lba, len |-> len]
    BY FieldsRead DEF Names10, Taken10
  <1>3. Names12(cdb, lba, len) => Taken12(cdb) = [lba |-> lba, len |-> len]
    BY FieldsRead DEF Names12, Taken12
  <1>4. Names16(cdb, lba, len) => Taken16(cdb) = [lba |-> lba, len |-> len]
    BY FieldsRead DEF Names16, Taken16
  <1> QED BY <1>1, <1>2, <1>3, <1>4
=============================================================================
