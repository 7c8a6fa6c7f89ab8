--------------------------- MODULE SentenceChunker ---------------------------
(***************************************************************************)
(* SentenceChunker (services/tts/chunker.py) under the turns of one        *)
(* session (services/hooks/tts/hook.py), and what Preprocessor             *)
(* (services/tts/preprocessor.py) leaves of each chunk.                    *)
(*                                                                         *)
(* A model's text is a sequence of pieces; the network cuts it into deltas *)
(* wherever it likes, inside a reasoning tag too.  Blanks, and with them   *)
(* every strip(), are left out; a length counts pieces.  The patterns for  *)
(* *action* and [meta] have one shape, and the asterisk stands for both.   *)
(***************************************************************************)
EXTENDS Naturals, Sequences, FiniteSets, SequencesExt

CONSTANTS MinChunk,   \* min_chunk_length
          MaxText,    \* bound: pieces of a turn and of what it finds in the buffer
          MaxDelta    \* bound: pieces a delta adds

ASSUME ChunkerAssumption == MinChunk \in Nat /\ MaxText \in Nat /\ MaxDelta \in Nat

\* A word, a sentence ender, a whole <think> and </think>, the head of a tool
\* call and its closing braces, an asterisk.
Pieces == {"w", ".", "<", ">", "call", "end", "*"}

\* The two parts of a tag that is cut over two deltas: neither matches.
FirstPart == [t \in {"<", ">"} |-> IF t = "<" THEN "<th" ELSE "</th"]
SecondPart == "ink>"

Plain == (Pieces \ {"<", ">"}) \cup {"<th", "</th", "ink>"}

VARIABLES
  phase,     \* "fresh": no bucket, "streaming", "aborted": bucket left behind
  buffer,    \* _buffer
  inside,    \* _inside_reasoning
  chunks,    \* the sentences of this turn handed to _dispatch_sentence
  said,      \* what the model said in this turn
  half,      \* the tag of which only the first part has arrived, if any
  tagCut,    \* a tag of this turn was cut
  carried    \* buffer and inside as an aborted turn left them to this one

vars == <<phase, buffer, inside, chunks, said, half, tagCut, carried>>

Nothing == [buffer |-> <<>>, inside |-> FALSE]

Init ==
  /\ phase = "fresh"
  /\ buffer = <<>> /\ inside = FALSE
  /\ chunks = <<>> /\ said = <<>> /\ half = "none" /\ tagCut = FALSE
  /\ carried = Nothing

-----------------------------------------------------------------------------
(* The text functions *)

\* The elements of s at the positions of P, in order.
Pick(s, P) ==
  FoldLeftDomain(LAMBDA kept, i : IF i \in P THEN Append(kept, s[i]) ELSE kept, <<>>, s)

IsTag(p) == p \in {"<", ">"}

\* _inside_reasoning before piece i of a delta that starts with it at in.
InsideAt(in, s, i) ==
  LET tags == {k \in 1 .. (i - 1) : IsTag(s[k])}
  IN  IF tags = {} THEN in ELSE s[Max(tags)] = "<"

\* _filter_reasoning_stream.
FilterReasoning(in, s) ==
  Pick(s, {i \in DOMAIN s : ~IsTag(s[i]) /\ ~InsideAt(in, s, i)})

\* _tool_call_pattern.sub: from a head to the first closing braces after it.
DropToolCalls(s) ==
  Pick(s, {i \in DOMAIN s :
             ~ \E h \in 1 .. i :
                 /\ s[h] = "call"
                 /\ \A k \in h .. (i - 1) : s[k] # "end"
                 /\ \E t \in i .. Len(s) : s[t] = "end"})

\* find_eos: after a run of enders, and always at the end of the text.
FindEos(s) ==
  {i \in DOMAIN s : i = Len(s) \/ (s[i] = "." /\ s[i + 1] # ".")}

\* real_positions where the segment is long enough.
\* Faulty variant: the end of the text counts although no sentence ends there.
CutPositionsUnfiltered(s) == {i \in FindEos(s) : i >= MinChunk}

CutPositions(s) == {i \in FindEos(s) : s[i] = "." /\ i >= MinChunk}

CutFirst(st) ==
  LET at == CutPositions(st.buffer)
  IN  IF at = {} THEN st
      ELSE [out    |-> Append(st.out, SubSeq(st.buffer, 1, Min(at))),
            buffer |-> SubSeq(st.buffer, Min(at) + 1, Len(st.buffer))]

\* Faulty variant: at most one sentence per delta.
CutOnce(s) == CutFirst([out |-> <<>>, buffer |-> s])

\* The while loop of feed: the shortest segment that will do, again and again.
CutAll(s) ==
  FoldLeft(LAMBDA st, i : CutFirst(st), [out |-> <<>>, buffer |-> s], s)

\* Faulty variant: the longest match, from the first asterisk to the last.
CleanGreedy(s) ==
  LET stars == {k \in DOMAIN s : s[k] = "*"}
  IN  Pick(s, {i \in DOMAIN s : Cardinality(stars) < 2 \/ i < Min(stars) \/ i > Max(stars)})

\* Preprocessor.process: each pair of asterisks goes, with what is in between.
Clean(s) ==
  LET before(i) == Cardinality({k \in 1 .. (i - 1) : s[k] = "*"})
      pairs == (Cardinality({k \in DOMAIN s : s[k] = "*"}) \div 2) * 2
  IN  Pick(s, {i \in DOMAIN s :
                 before(i) >= pairs \/ (before(i) % 2 = 0 /\ s[i] # "*")})

-----------------------------------------------------------------------------
(* Turns *)

TurnBegins ==
  /\ phase \in {"fresh", "aborted"}
  /\ phase' = "streaming"
  /\ chunks' = <<>> /\ said' = <<>> /\ half' = "none" /\ tagCut' = FALSE
  /\ carried' = IF phase = "aborted" THEN [buffer |-> buffer, inside |-> inside] ELSE Nothing
  /\ UNCHANGED <<buffer, inside>>

\* feed(delta), where delta is what the chunker sees.
Fed(delta) ==
  LET filtered == FilterReasoning(inside, delta)
      cut == CutAll(DropToolCalls(buffer \o filtered))
  IN  /\ inside' = InsideAt(inside, delta, Len(delta) + 1)
      /\ IF filtered = <<>>
         THEN UNCHANGED <<buffer, chunks>>
         ELSE buffer' = cut.buffer /\ chunks' = chunks \o cut.out

Deltas == UNION {[1 .. n -> Pieces] : n \in 0 .. MaxDelta}

\* on_stream: the delta may begin with the second part of a tag and end with
\* the first part of one.
OnStream(text, last) ==
  /\ phase = "streaming"
  /\ LET tag == IF half = "none" THEN <<>> ELSE <<half>>
         new == (IF half = "none" THEN <<>> ELSE <<SecondPart>>) \o text
     IN  /\ Len(new) + Len(last) > 0
         /\ Len(carried.buffer) + Len(said) + Len(tag \o text) + Len(last) <= MaxText
         /\ said' = said \o tag \o text
         /\ Fed(new \o [k \in DOMAIN last |-> FirstPart[last[k]]])
  /\ half' = IF last = <<>> THEN "none" ELSE last[1]
  /\ tagCut' = (tagCut \/ last # <<>>)
  /\ UNCHANGED <<phase, carried>>

\* Faulty variant: flush() leaves _inside_reasoning as it is.
FlushKeepsReasoning ==
  LET remaining == DropToolCalls(buffer)
  IN  /\ buffer' = <<>> /\ UNCHANGED inside
      /\ chunks' = IF remaining = <<>> THEN chunks ELSE Append(chunks, remaining)

Flush ==
  LET remaining == DropToolCalls(buffer)
  IN  /\ buffer' = <<>> /\ inside' = FALSE
      /\ chunks' = IF remaining = <<>> THEN chunks ELSE Append(chunks, remaining)

\* on_stream_end(resuming=False): the remainder is dispatched.
OnStreamEnd ==
  /\ phase = "streaming"
  /\ half = "none"
  /\ phase' = "fresh"
  /\ Flush
  /\ UNCHANGED <<said, half, tagCut, carried>>

\* The turn is cancelled or fails: the bucket stays, with its chunker.
TurnAborted ==
  /\ phase = "streaming"
  /\ phase' = "aborted"
  /\ UNCHANGED <<buffer, inside, chunks, said, half, tagCut, carried>>

Next ==
  \/ TurnBegins \/ OnStreamEnd \/ TurnAborted
  \/ \E text \in Deltas, last \in {<<>>, <<"<">>, <<">">>} : OnStream(text, last)

Spec == Init /\ [][Next]_vars

-----------------------------------------------------------------------------
(* Properties *)

\* What has left the chunker in this turn, and what it still holds.
Spoken == FlattenSeq(chunks) \o buffer

\* A tool call with a sentence end inside may be cut before its braces arrive.
SentenceInToolCall(s) ==
  \E h, k, t \in DOMAIN s :
    h < k /\ k < t /\ s[h] = "call" /\ s[k] = "." /\ s[t] = "end"

Heard == carried.buffer \o FilterReasoning(carried.inside, said)

\* However the network cuts a turn into deltas and whatever the chunker emitted
\* on the way, the turn is spoken word for word as the whole text would be: what
\* an aborted turn left over, then the text without reasoning and tool calls.  A
\* tag cut in two and a sentence end in a tool call are the exceptions.
SpokenAsWritten ==
  ~tagCut /\ ~SentenceInToolCall(Heard) => Spoken = DropToolCalls(Heard)

\* feed never sits on a sentence that is long enough to be spoken.
NothingHeldBack == phase = "streaming" => CutPositions(buffer) = {}

\* Sentences are not spoken in bits: a chunk is plain text and not empty, and one that
\* is not the last of its turn is long enough and ends where a sentence does.
ChunksWholeSentences ==
  \A i \in DOMAIN chunks :
    /\ chunks[i] \in Seq(Plain) \ {<<>>}
    /\ i < Len(chunks) => Len(chunks[i]) >= MinChunk /\ Last(chunks[i]) = "."

\* Of a chunk the preprocessor drops stage directions only: a word is dropped
\* exactly if the asterisks before it are odd in number and one comes after it.
DirectionsUnspoken ==
  \A c \in Range(chunks) :
    LET words == {i \in DOMAIN c : c[i] = "w"}
        stars(P) == Cardinality({k \in P : c[k] = "*"})
    IN  Cardinality({i \in DOMAIN Clean(c) : Clean(c)[i] = "w"})
          = Cardinality({i \in words : stars(1 .. i) % 2 = 0 \/ stars(i .. Len(c)) = 0})

\* chunker.py says it "filters <think>...</think> reasoning blocks out of the
\* stream": whatever the cuts, a turn on a fresh chunker is spoken without them.
ReasoningFiltered ==
  carried = Nothing /\ half = "none" /\ ~(\E i \in DOMAIN said : said[i] \in {"call", "end"})
    => Spoken = FilterReasoning(FALSE, said)
=============================================================================
