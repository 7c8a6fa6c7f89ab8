---------------------------- MODULE ChatOwnership ----------------------------
(***************************************************************************)
(* What the DesktopMate channel promises about routing, with none of its   *)
(* bookkeeping: a chat belongs to at most one served connection, a stream  *)
(* is open only while its chat belongs to somebody, and one open stream at *)
(* most is the voice of the process.  Losing a connection closes exactly   *)
(* the streams of the chats that connection owned, and nobody else's.      *)
(***************************************************************************)

CONSTANTS Conns, Chats, Streams,   \* connections, chat ids, stream ids
          ChatOf,                  \* the chat a stream belongs to
          None

VARIABLES serving,   \* [Conns -> "new" | "serving" | "gone"]
          owner,     \* [Chats -> Conns \cup {None}]
          open,      \* the open streams
          speaking   \* the stream whose sentences are spoken, or None

vars == <<serving, owner, open, speaking>>

TypeOK ==
  /\ serving \in [Conns -> {"new", "serving", "gone"}]
  /\ owner \in [Chats -> Conns \cup {None}]
  /\ open \in SUBSET Streams
  /\ speaking \in Streams \cup {None}

Init ==
  /\ serving = [c \in Conns |-> "new"]
  /\ owner = [ch \in Chats |-> None]
  /\ open = {}
  /\ speaking = None

Accept(c) ==
  /\ serving[c] = "new"
  /\ serving' = [serving EXCEPT ![c] = "serving"]
  /\ UNCHANGED <<owner, open, speaking>>

Refuse(c) ==
  /\ serving[c] = "new"
  /\ serving' = [serving EXCEPT ![c] = "gone"]
  /\ UNCHANGED <<owner, open, speaking>>

\* A served connection speaks for chat ch: it takes the chat, from another
\* connection if need be, and the chat's streams follow.
Claim(c, ch) ==
  /\ serving[c] = "serving"
  /\ owner' = [owner EXCEPT ![ch] = c]
  /\ UNCHANGED <<serving, open, speaking>>

\* Connection c loses every chat it owns and, with them, their streams.
Forget(c) ==
  /\ owner' = [ch \in Chats |-> IF owner[ch] = c THEN None ELSE owner[ch]]
  /\ open' = {s \in open : owner[ChatOf[s]] # c}
  /\ speaking' = IF speaking \in open' THEN speaking ELSE None

Drop(c) == Forget(c) /\ UNCHANGED serving

Leave(c) ==
  /\ serving[c] = "serving"
  /\ Forget(c)
  /\ serving' = [serving EXCEPT ![c] = "gone"]

Open(s) ==
  /\ owner[ChatOf[s]] # None
  /\ open' = open \cup {s}
  /\ speaking' = s
  /\ UNCHANGED <<serving, owner>>

Shutdown ==
  /\ owner' = [ch \in Chats |-> None]
  /\ open' = {}
  /\ speaking' = None
  /\ UNCHANGED serving

Next ==
  \/ \E c \in Conns : Accept(c) \/ Refuse(c) \/ Drop(c) \/ Leave(c)
  \/ \E c \in Conns, ch \in Chats : Claim(c, ch)
  \/ \E s \in Streams : Open(s)
  \/ Shutdown

Spec == Init /\ [][Next]_vars
=============================================================================
