---------------------------- MODULE MCUploadPool ----------------------------
(* Three threads instead of twenty, four pending uploads, two of a size.   *)
EXTENDS UploadPool, TLC

CONSTANTS t1, t2, t3, u1, u2, u3, u4

MCThreads == {t1, t2, t3}
MCUploads == {u1, u2, u3, u4}
MCSizeOf  == u1 :> 1 @@ u2 :> 2 @@ u3 :> 2 @@ u4 :> 0

TwoUploads == {u1, u2}
TwoSizes   == u1 :> 1 @@ u2 :> 2

(* Limits in range, and one on either side of it. *)
MCLimits == {-1, 0, 1, 2, 3, 4}
=============================================================================
