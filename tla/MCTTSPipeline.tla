--------------------------- MODULE MCTTSPipeline ---------------------------
(* Small instances of TTSPipeline for TLC. *)
EXTENDS TTSPipeline, TLC

CONSTANTS c1, c2, chA, chB, sA, sB, deskA, deskB, slack, t1, t2

ChatOfAB == (sA :> chA) @@ (sB :> chB)

ChatOfA == (sA :> chA)

UrlPlain == [c \in Conns |-> "unset"]

\* Two DesktopMate chats, or one beside a text channel.
TwoDesks == (deskA :> chA) @@ (deskB :> chB)

DeskAndSlack == (deskA :> chA) @@ (slack :> None)

SwapConns == Permutations({c1, c2})

SwapTasks == Permutations({t1, t2})
=============================================================================
