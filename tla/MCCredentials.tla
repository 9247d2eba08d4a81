--------------------------- MODULE MCCredentials ---------------------------
(* Three cameras, two of them behind one address. *)
EXTENDS Credentials

CONSTANTS front, porch, yard

MCCamera == {front, porch, yard}
MCIpOf == [c \in MCCamera |-> IF c = yard THEN "ip2" ELSE "ip1"]

=============================================================================
