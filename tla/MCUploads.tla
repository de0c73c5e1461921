------------------------------ MODULE MCUploads -----------------------------
(* A qlog uploaded twice, a boot log once, three chunks each.              *)
(* The qlog is a .zst file with a frame that ends with its second chunk.   *)
EXTENDS Uploads
CONSTANTS u1, u2, u3, qlog, boot
MCCleanEnds == [p \in {qlog} |-> {0, 2}]
MCPathOf == [u \in Uploads |-> IF u = u3 THEN boot ELSE qlog]
=============================================================================
