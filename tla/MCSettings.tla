----------------------------- MODULE MCSettings -----------------------------
(***************************************************************************)
(* Instances of Settings: a list of users and a limit with a remote hook.  *)
(***************************************************************************)
EXTENDS Settings

MCKeys == {"auth", "speed"}
MCValues == {"", "a", "b"}
MCDefault == [auth |-> "", speed |-> "a"]

\* The container sets a limit that cannot be parsed; the list of users is in .env.
FromContainer == [auth |-> "unset", speed |-> "b"]
MCDotenv == [auth |-> "a", speed |-> "unset"]

\* "1" and "2,1": the second makes 2 the owner at the next start, who is not in the first.
MCIdList == [v \in MCValues |->
  CASE v = "" -> <<>> [] v = "a" -> <<1>> [] v = "b" -> <<2, 1>>]

MCInvalid == {<<"speed", "b">>}
MCFiles == {[auth |-> "b"]}
=============================================================================
