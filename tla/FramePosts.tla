------------------------------ MODULE FramePosts ------------------------------
(***************************************************************************)
(* The word mraid_post writes into the inbound queue, bit by bit: it has   *)
(* to name the frame and the number of frames that follow it.              *)
(***************************************************************************)
EXTENDS FrameLayout, Bitwise

xscale_post(ccb_pframe, ccb_extra_frames) == shiftR(ccb_pframe, 3) | ccb_extra_frames

\* On 1078, GEN2 and Skinny controllers.
common_post(ccb_pframe, ccb_extra_frames) == (1 | ccb_pframe) | (2 * ccb_extra_frames)

\* External: how the two kinds of firmware take the word apart.
xscale_frame(word) == (word \div 8) * MRAID_FRAME_SIZE
xscale_extra(word) == word % 8
common_frame(word) == (word \div MRAID_FRAME_SIZE) * MRAID_FRAME_SIZE
common_extra(word) == (word % MRAID_FRAME_SIZE) \div 2

(***************************************************************************)
(* Every frame of a controller's memory and every length of a scatter list *)
(* come out of both encodings as they went in (mraid_xscale_post,          *)
(* mraid_common_post, mraid_skinny_post).                                  *)
(***************************************************************************)
PostsDecode(dvas, cmds, sgls) ==
    \A dva \in dvas, i \in cmds, n \in sgls, sz \in SglSizes :
        LET pframe == Frame(dva, FramesSize(sz, DefaultSgl), i)
            extra  == ExtraFrames(sz, n)
            x == xscale_post(pframe, extra)
            c == common_post(pframe, extra)
        IN  /\ xscale_frame(x) = pframe /\ xscale_extra(x) = extra
            /\ common_frame(c) = pframe /\ common_extra(c) = extra
=============================================================================
