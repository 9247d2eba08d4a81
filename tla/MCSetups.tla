------------------------------ MODULE MCSetups ------------------------------
(* A login that is escaped and one without a user, and cameras that may share an *)
(* address.                                                                      *)
EXTENDS Setups

MCWord == {"", "plain", "a@b"}

MCEscape == [w \in MCWord |-> IF w = "a@b" THEN "a%40b" ELSE w]

\* As writeEnv orders them, with the user's own name before.
Order == <<"MQTT_HOST", "MQTT_PORT", "MQTT_TOPIC_PREFIX", "HLS_BASE_URL", "GHCR_REPO", "TAG",
           "SERVICE_FILE">>

MCLine == [k \in Editable |-> IF k \in Extra THEN 0 ELSE CHOOSE i \in DOMAIN Order : Order[i] = k]

MCLogin ==
    {[user |-> "plain", password |-> "a@b"],
     [user |-> "", password |-> ""]}

=============================================================================
