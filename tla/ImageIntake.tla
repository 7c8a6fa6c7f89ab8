----------------------------- MODULE ImageIntake -----------------------------
(***************************************************************************)
(* The files behind a message's images: _decode_images                     *)
(* (services/channels/desktop_mate_image.py) writes them, and              *)
(* _connection_loop (desktop_mate_server.py) hands their paths to nanobot  *)
(* or unlinks them.  Decoding does not await, so the whole of it is one    *)
(* step of the reading handler; handing over awaits, and other handlers    *)
(* run meanwhile.  An entry is named for what is wrong with it; whether    *)
(* the disk takes a file, what a failing write leaves of it, and whether   *)
(* an unlink fails is the environment's choice.  Every file has a fresh    *)
(* name.                                                                   *)
(***************************************************************************)
EXTENDS Integers, SequencesExt

CONSTANTS Handlers,   \* connection handlers
          Frames,     \* the images of the frames a front end may send
          MaxImages,  \* _MAX_IMAGES_PER_MESSAGE
          MaxTurns,   \* bound: frames read
          None

Entries == {"ok", "malformed", "unsupported_mime", "too_large"}
Reasons == (Entries \ {"ok"}) \cup {"io_error", "too_many"}

ASSUME IntakeAssumption ==
  /\ Frames \subseteq Seq(Entries)
  /\ MaxImages \in Nat /\ MaxTurns \in Nat
  /\ None \notin Reasons

VARIABLES
  turns,   \* frames read so far; a file is named for its turn and its position
  at,      \* where each handler is
  held,    \* the message a handler is handing over: its images and media_paths
  disk,    \* files in the media directory
  bus,     \* messages nanobot has taken
  stuck,   \* files whose unlink failed (logged as leaked)
  torn,    \* what failing writes have left: no path of it was ever returned
  failed,  \* history: turns rejected, or whose _handle_message raised
  last     \* the last decode: its input and its verdict

vars == <<turns, at, held, disk, bus, stuck, torn, failed, last>>

Init ==
  /\ turns = 0 /\ at = [h \in Handlers |-> "reading"]
  /\ held = [h \in Handlers |-> None]
  /\ disk = {} /\ bus = {} /\ stuck = {} /\ torn = {}
  /\ failed = {} /\ last = None

-----------------------------------------------------------------------------
(* _decode_images *)

\* What becomes of one entry; diskFails: the write raises OSError.
Verdict(entry, diskFails) ==
  CASE entry # "ok" -> entry
    [] diskFails    -> "io_error"
    [] OTHER        -> "saved"

\* The loop with its early return: failing are the positions the disk refuses.
Stored(turn, images, failing) ==
  LET entry(sofar, i) ==
        LET v == Verdict(images[i], i \in failing)
        IN  CASE sofar.reason # None -> sofar
              [] sofar.reason = None /\ v = "saved" ->
                   [sofar EXCEPT !.saved = Append(@, <<turn, i>>)]
              [] OTHER -> [sofar EXCEPT !.reason = v]
  IN  FoldLeftDomain(entry, [saved |-> <<>>, reason |-> None], images)

\* Faulty variant: the cap excludes its boundary.
DecodeCapTooSmall(turn, images, failing) ==
  IF Len(images) >= MaxImages THEN [saved |-> <<>>, reason |-> "too_many"]
  ELSE Stored(turn, images, failing)

Decode(turn, images, failing) ==
  IF Len(images) > MaxImages THEN [saved |-> <<>>, reason |-> "too_many"]
  ELSE Stored(turn, images, failing)

\* The file of the entry whose write has failed: it may be there, but saved_paths
\* does not have it.
FailedWrite(turn, decoded) ==
  IF decoded.reason = "io_error" THEN {<<turn, Len(decoded.saved) + 1>>} ELSE {}

\* Files written, then unlinked one by one, each unlink guarded on its own.
\* Faulty variant: the first unlink that fails ends the loop.
UnlinkGivesUp(written, onDisk) ==
  \E bad \in SUBSET ToSet(written) :
    /\ stuck' = stuck \cup bad
    /\ disk' = onDisk \ (IF bad = {} THEN ToSet(written) ELSE {})

Unlink(written, onDisk) ==
  \E bad \in SUBSET ToSet(written) :
    /\ stuck' = stuck \cup bad
    /\ disk' = onDisk \ (ToSet(written) \ bad)

-----------------------------------------------------------------------------
(* _connection_loop *)

\* What reading a frame with images does whatever the verdict.
Reads(h, images, failing, reason) ==
  /\ at[h] = "reading" /\ turns < MaxTurns
  /\ turns' = turns + 1
  /\ last' = [images |-> images, failing |-> failing, reason |-> reason]

\* _abort, then the image_rejected frame: the handler reads on.
Rejected(h) ==
  \E images \in Frames : \E failing \in SUBSET DOMAIN images :
    LET d == Decode(turns + 1, images, failing)
    IN  /\ d.reason # None
        /\ Reads(h, images, failing, d.reason)
        /\ \E left \in SUBSET FailedWrite(turns + 1, d) :
             /\ Unlink(d.saved, disk \cup ToSet(d.saved) \cup left)
             /\ torn' = torn \cup left
        /\ failed' = failed \cup {turns + 1}
        /\ UNCHANGED <<at, held, bus>>

Accepted(h) ==
  \E images \in Frames : \E failing \in SUBSET DOMAIN images :
    LET d == Decode(turns + 1, images, failing)
    IN  /\ d.reason = None
        /\ Reads(h, images, failing, None)
        /\ at' = [at EXCEPT ![h] = "handing"]
        /\ held' = [held EXCEPT ![h] = [turn |-> turns + 1, images |-> images,
                                        media |-> d.saved]]
        /\ disk' = disk \cup ToSet(d.saved)
        /\ UNCHANGED <<bus, stuck, torn, failed>>

\* What every way out of _handle_message has in common.
Leaves(h, next) ==
  /\ at[h] = "handing"
  /\ at' = [at EXCEPT ![h] = next]
  /\ held' = [held EXCEPT ![h] = None]
  /\ UNCHANGED <<turns, torn, last>>

\* Faulty variant: the unlink sits in a finally.
HandedOverFinallyUnlinks(h) ==
  /\ Leaves(h, "reading")
  /\ bus' = bus \cup {held[h]}
  /\ Unlink(held[h].media, disk)
  /\ UNCHANGED failed

HandedOver(h) ==
  /\ Leaves(h, "reading")
  /\ bus' = bus \cup {held[h]}
  /\ UNCHANGED <<disk, stuck, failed>>

HandleRaises(h) ==
  /\ Leaves(h, "reading")
  /\ Unlink(held[h].media, disk)
  /\ failed' = failed \cup {held[h].turn}
  /\ UNCHANGED bus

\* The sender is no longer allowed: _handle_message returns without publishing.
HandleDrops(h) ==
  /\ Leaves(h, "reading")
  /\ UNCHANGED <<disk, bus, stuck, failed>>

\* Shutdown cancels the handler; CancelledError is not an Exception.
HandlerCancelled(h) ==
  /\ Leaves(h, "closed")
  /\ UNCHANGED <<disk, bus, stuck, failed>>

Handler(h) ==
  \/ Rejected(h) \/ Accepted(h) \/ HandedOver(h)
  \/ HandleRaises(h) \/ HandleDrops(h) \/ HandlerCancelled(h)

Next == \E h \in Handlers : Handler(h)

Spec == Init /\ [][Next]_vars

-----------------------------------------------------------------------------
(* Properties *)

\* _decode_images against its docstring: a frame is accepted exactly if it is within
\* the cap and every entry is stored; otherwise the reason is that of the first entry
\* at fault, whatever comes after it, and one of the tokens the front end knows.
VerdictOfFirstFault ==
  last # None => last.reason \in Reasons \cup {None} /\
    LET verdict(i) == Verdict(last.images[i], i \in last.failing)
        faults == {i \in DOMAIN last.images : verdict(i) # "saved"}
        first == CHOOSE i \in faults : \A j \in faults : i <= j
    IN  last.reason = CASE Len(last.images) > MaxImages -> "too_many"
                        [] Len(last.images) <= MaxImages /\ faults = {} -> None
                        [] OTHER -> verdict(first)

\* What nanobot has taken stays readable, whole and in the order of the frame, though
\* it is read after the handler has moved on to other messages.
TakenMediaReadable ==
  \A m \in bus : m.media = [i \in DOMAIN m.images |-> <<m.turn, i>>]
                 /\ ToSet(m.media) \subseteq disk

\* A turn that has failed leaves no file behind, whichever of its entries was at fault
\* and however many of its unlinks fail, but for those whose own unlink has failed and
\* what a failing write has left.  (Nothing unlinks the files of a turn whose message
\* was dropped or whose handler was cancelled, against what the tests ask for.)
FailedTurnsCleaned == \A f \in disk : f[1] \in failed => f \in stuck \/ f \in torn

=============================================================================
