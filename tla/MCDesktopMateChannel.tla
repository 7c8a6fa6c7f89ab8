------------------------ MODULE MCDesktopMateChannel ------------------------
(* Small instances of DesktopMateChannel for TLC. *)
EXTENDS DesktopMateChannel, TLC

CONSTANTS c1, c2, chA, chB, sA, sB, v1

\* One stream in each of two chats.
ChatOfAB == (sA :> chA) @@ (sB :> chB)

ChatOfA == (sA :> chA)

\* One socket muted by ?tts=0, one without the parameter.
UrlMuted == (c1 :> "off") @@ (c2 :> "unset")

UrlPlain == [c \in Conns |-> "unset"]

\* Connections are interchangeable when they are opened alike, and so are the
\* two chats if each takes its stream along.
SwapConns == Permutations({c1, c2})

SwapChats == {(chA :> chA) @@ (chB :> chB) @@ (sA :> sA) @@ (sB :> sB),
              (chA :> chB) @@ (chB :> chA) @@ (sA :> sB) @@ (sB :> sA)}

SwapBoth == {p @@ q : p \in SwapConns, q \in SwapChats}
=============================================================================
