------------------------------ MODULE MCProbe ------------------------------
(* Small instances of the probe step. *)
EXTENDS Probe

CONSTANTS front, porch, alice, bob

MCCamera == {front, porch}
MCCredential == {alice, bob}

=============================================================================
