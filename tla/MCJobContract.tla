----------------------------- MODULE MCJobContract -----------------------------
(* JobContract with four callers: three with the bridge's secrets, of      *)
(* which one needs none, and one with others.                              *)
EXTENDS JobContract

MCCallers ==
    LET with(secret) == [secret |-> secret, insecure |-> secret = None]
        by(v, s, t) == [via |-> v, bridge |-> with(s), client |-> with(t)]
    IN  {by("http", "s1", "s1"), by("http", "s1", "s2"),
         by("dispatch", None, None), by("plugin", "s1", "s1")}
=============================================================================
