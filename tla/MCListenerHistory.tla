-------------------------- MODULE MCListenerHistory --------------------------
EXTENDS ListenerHistory

CONSTANTS u1

(* One user is enough: these runs are about polls, not about batches.      *)
MCUserOf == [n \in 1..MaxItems |-> u1]

MCDefaults ==
    [s \in Settings |-> CASE s = "BackoffInitial" -> 2 [] s = "BackoffMax" -> 6
                          [] OTHER -> 1]
=============================================================================
