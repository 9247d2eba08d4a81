----------------------------- MODULE MCEmitter -----------------------------
(* A small instance of the event pipeline: two cameras. *)
EXTENDS Emitter

CONSTANTS cam1, cam2

MCCamera == {cam1, cam2}

=============================================================================
