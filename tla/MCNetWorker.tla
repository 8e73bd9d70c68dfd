---------------------------- MODULE MCNetWorker ----------------------------
(***************************************************************************)
(* A small instance of NetWorker: three frames, so that some are written,  *)
(* deferred and still in the channel at once, and two breaks, so that a    *)
(* replay can fail too.                                                    *)
(***************************************************************************)
EXTENDS NetWorker
=============================================================================
