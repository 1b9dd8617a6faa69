--------------------------- MODULE MCMegaRAIDPower ---------------------------
(* TLC instance of MegaRAIDPower, and of the layout of the memory Attach sets up. *)
EXTENDS MegaRAIDPower, FramePosts

\* Page aligned regions, low and at the end of what TLC's integers hold.
ASSUME PostsDecodeAssumption ==
    PostsDecode({0, 4096, 1999998976}, {0, 1, 2, 255, 1023}, 0 .. DefaultSgl)
=============================================================================
