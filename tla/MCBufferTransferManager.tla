---------------------- MODULE MCBufferTransferManager -----------------------
(* Two transfers in each direction, which can overtake each other.            *)
EXTENDS BufferTransferManager

MCTransfer == {[cid |-> 1, source |-> 0, target |-> 1],
               [cid |-> 2, source |-> 0, target |-> 1],
               [cid |-> 3, source |-> 1, target |-> 0],
               [cid |-> 4, source |-> 1, target |-> 0]}
=============================================================================
