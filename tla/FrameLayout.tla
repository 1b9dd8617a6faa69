----------------------------- MODULE FrameLayout -----------------------------
(***************************************************************************)
(* The memory SASMegaRAID shares with the firmware, as Attach lays it out: *)
(* one region of frames per ccb, the reply queue, and the scatter list     *)
(* that grows out of a command's frame into the region's extra frames.     *)
(* All of it is arithmetic, in bytes; a firmware that reads or writes past *)
(* a region reads or writes another command.                               *)
(***************************************************************************)
EXTENDS Integers

MRAID_FRAME_SIZE      == 64
MRAID_PASS_FRAME_SIZE == 48
MRAID_DCMD_FRAME_SIZE == 40
MRAID_SENSE_SIZE      == 128
PAGE_SIZE             == 4096
MFI_MAXFER            == 128 * 1024
SECTOR_LEN            == 512

\* sizeof(mraid_sg32) and sizeof(mraid_sg64), both packed.
SglSize(IOPhysSize) == IF IOPhysSize = 64 THEN 12 ELSE 8
SglSizes == {8, 12}

\* sc_max_sgl: what the firmware takes, limited by the option MaxSGL, or
\* without that option by the largest transfer.
Smaller(a, b) == IF a < b THEN a ELSE b
DefaultSgl == MFI_MAXFER \div PAGE_SIZE + 1
MaxSgl(fw, option) == Smaller(fw, IF option # 0 THEN option ELSE DefaultSgl)

\* sc_frames_size: the scatter list in whole frames, and one for the command.
FramesSize(sgl_size, max_sgl) ==
    ((sgl_size * max_sgl + MRAID_FRAME_SIZE - 1) \div MRAID_FRAME_SIZE + 1) * MRAID_FRAME_SIZE

\* ccb_pframe of the i'th ccb.
Frame(dva, frames_size, i) == dva + frames_size * i

\* ccb_psense of the i'th ccb.
Sense(dva, i) == dva + MRAID_SENSE_SIZE * i

\* Where mif_sgl, mpf_sgl and mdf_sgl are in their frames.
SglOffset == [io |-> 40, pass |-> 48, dcmd |-> 40]

\* ccb_frame_size: IOCmd counts its frame as a pass-through frame, too.
FrameBytes(kind, sgl_size, n) ==
    (IF kind = "dcmd" THEN MRAID_DCMD_FRAME_SIZE ELSE MRAID_PASS_FRAME_SIZE) + sgl_size * n

\* Where OutputSegment writes the i'th entry of a list.
EntryOffset(kind, sgl_size, i) == SglOffset[kind] + sgl_size * i

\* ccb_frame_size of PointToData, which leaves ccb_extra_frames at 0.
PointedBytes(sgl_size) == FrameBytes("dcmd", sgl_size, 1)

\* ccb_extra_frames of CreateSGL.
ExtraFrames(sgl_size, n) == (FrameBytes("io", sgl_size, n) - 1) \div MRAID_FRAME_SIZE

\* The INIT frame's second frame and the mraid_init_qinfo in it.
QinfoOffset == MRAID_FRAME_SIZE
QinfoSize   == 32

\* Reply queue memory: two indices, a reply, and sc_max_cmds more.
QueueBytes(max_cmds) == 4 * max_cmds + 12
ReplyOffset(slot)    == 8 + 4 * slot

\* MaxXferSize as Attach leaves it.  The option MaxTransferSize is limited by
\* what the controller says of stripes and requests, in 32 bits, and by no list.
MaxXferSize(max_sgl, option, info) ==
    IF option = 0 THEN (max_sgl - 1) * PAGE_SIZE
    ELSE LET sectors == Smaller(2 ^ info.stripe * info.strips, info.request)
         IN  Smaller((sectors * SECTOR_LEN) % (65536 * 65536), option)
Infos == [stripe : 0 .. 30, strips : Nat, request : Nat]

\* External: IODMACommand gives each page of a buffer at most one segment.
LastPage(offset, len) == (offset + len - 1) \div PAGE_SIZE
Segments(offset, len) == IF len = 0 THEN 0 ELSE LastPage(offset, len) + 1
=============================================================================
