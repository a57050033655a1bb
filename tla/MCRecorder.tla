----------------------------- MODULE MCRecorder ------------------------------
(* A ring of three records, a window of one, a seal after every two records. *)
EXTENDS Recorder
=============================================================================
