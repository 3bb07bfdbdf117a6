------------------------------- MODULE MCBatch -------------------------------
(***************************************************************************)
(* Small batches for Batch: every sequence of up to MaxMessages messages   *)
(* from two users, a message with up to MaxItems items, one kind of        *)
(* message that is not a finished user message; and batches of three users *)
(* with four messages, for more groups than workers.                       *)
(***************************************************************************)
EXTENDS Batch, Sequences

CONSTANTS MaxMessages, MaxItems, u1, u2, u3

Msg(u, e, n) == [user |-> u, eligible |-> e, items |-> n]

MCMessages ==
    {Msg(u, TRUE, n) : u \in {u1, u2}, n \in 1..MaxItems}
        \cup {Msg(u, FALSE, 1) : u \in {u1, u2}}

(* The two users differ in being two only, so the first message is from u1.*)
(* One message with several items at most.                                 *)
MCFewUsers ==
    {msgs \in UNION {[1..n -> MCMessages] : n \in 0..MaxMessages} :
        /\ msgs # <<>> => msgs[1].user = u1
        /\ \A i, j \in DOMAIN msgs : msgs[i].items > 1 /\ msgs[j].items > 1 => i = j}

MCManyGroups ==
    {<<Msg(u1, TRUE, 1), Msg(u2, TRUE, 2), Msg(u3, TRUE, 1), Msg(u1, TRUE, 1)>>,
     <<Msg(u2, TRUE, 1), Msg(u1, FALSE, 1), Msg(u3, TRUE, 1), Msg(u1, TRUE, 2)>>}

MCBatches == MCFewUsers \cup MCManyGroups
=============================================================================
