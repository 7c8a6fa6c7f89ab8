---------------------------- MODULE SpeechBarrier ----------------------------
(***************************************************************************)
(* What the TTS hook (services/hooks/tts/hook.py) promises of the speech   *)
(* of each session, without buckets, tasks or an event loop: sentences are *)
(* numbered 0, 1, 2, ... while a turn talks, each is heard (handed to the  *)
(* sink, as far as the hook sees) or silenced once, in any order, and the  *)
(* end of a turn is a barrier behind which nothing said before it is heard *)
(* any more, and where numbering starts again.  A frame that is on the     *)
(* socket when the barrier gives up may still arrive.                      *)
(* A turn that is aborted is no barrier: what it said is still to be heard *)
(* and the session's next turn goes on counting.                           *)
(***************************************************************************)
EXTENDS Naturals

CONSTANT Sessions

VARIABLES
  talking,   \* the sessions with a running turn
  said,      \* how many sentences of the session are numbered
  unheard    \* the numbers that may still be heard

vars == <<talking, said, unheard>>

Init ==
  /\ talking = {}
  /\ said = [s \in Sessions |-> 0]
  /\ unheard = [s \in Sessions |-> {}]

Begin(s) ==
  /\ s \notin talking
  /\ talking' = talking \cup {s}
  /\ UNCHANGED <<said, unheard>>

Say(s) ==
  /\ s \in talking
  /\ said' = [said EXCEPT ![s] = @ + 1]
  /\ unheard' = [unheard EXCEPT ![s] = @ \cup {said[s]}]
  /\ UNCHANGED talking

\* A sentence is spoken, or given up.
Hear(s, n) ==
  /\ n \in unheard[s]
  /\ unheard' = [unheard EXCEPT ![s] = @ \ {n}]
  /\ UNCHANGED <<talking, said>>

\* The barrier: what is still unheard is silenced.
End(s) ==
  /\ s \in talking
  /\ talking' = talking \ {s}
  /\ said' = [said EXCEPT ![s] = 0]
  /\ unheard' = [unheard EXCEPT ![s] = {}]

Abort(s) ==
  /\ s \in talking
  /\ talking' = talking \ {s}
  /\ UNCHANGED <<said, unheard>>

Next ==
  \E s \in Sessions :
    \/ Begin(s) \/ Say(s) \/ End(s) \/ Abort(s)
    \/ \E n \in unheard[s] : Hear(s, n)

Spec == Init /\ [][Next]_vars
=============================================================================
