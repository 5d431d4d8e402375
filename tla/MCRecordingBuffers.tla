------------------------ MODULE MCRecordingBuffers ------------------------
(* A small instance of RecordingBuffers for TLC: the depth of the video queue, *)
(* as many recording buffers, so that FIMC1 may have them all, two preview     *)
(* threads, so that a thread can outlive the stop that gave up on it, and a    *)
(* timeout that is tolerated before the one that ends the preview.            *)
EXTENDS RecordingBuffers
=============================================================================
