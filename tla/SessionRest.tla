----------------------------- MODULE SessionRest -----------------------------
(***************************************************************************)
(* The REST surface of the DesktopMate channel                             *)
(* (clients/desktop_mate_rest.py): how one request is answered.  A handler *)
(* runs between two awaits, so a request is one step.  Keys are what       *)
(* decode_api_key makes of the path; several spellings give one key.       *)
(***************************************************************************)
EXTENDS Naturals, FiniteSets

CONSTANTS OwnKeys,      \* session keys with the prefix desktop_mate:
          ForeignKeys,  \* session keys of other channels
          OddKeys       \* keys of either kind that _API_KEY_RE does not match

Keys == OwnKeys \cup ForeignKeys

Absent == "absent"

Credentials ==
  {[bearer |-> b, query |-> q] : b \in {Absent, "wrong"}, q \in {Absent, "right"}}
    \cup {[bearer |-> "right", query |-> Absent]}

\* dispatch_http's routes, and a path that is none of them.
Req(route, key, creds, upgrade) ==
  [route |-> route, key |-> key, creds |-> creds, upgrade |-> upgrade]

Requests ==
  {Req(r, k, c, FALSE) : r \in {"messages", "delete"}, k \in Keys, c \in Credentials}
    \cup {Req("list", Absent, c, FALSE) : c \in Credentials}
    \cup {Req(r, Absent, [bearer |-> Absent, query |-> "right"], u) :
             r \in {"ws", "unknown"}, u \in BOOLEAN}

\* _token_valid: the header, if there is one, hides the query parameter.
TokenValid(needed, req) ==
  \/ ~needed
  \/ req.creds.bearer = "right"
  \/ req.creds.bearer = Absent /\ req.creds.query = "right"

Status(code) == [status |-> code, body |-> {}]

\* handle_session_messages and handle_session_delete up to the session manager's call:
\* the answer that ends the request before it, or "call".
\* Faulty variant: the prefix is not checked.
RefusedUnprefixed(sm, req) ==
  IF sm = Absent THEN 503
  ELSE IF req.key \in OddKeys THEN 400
  ELSE 0

Refused(sm, req) ==
  IF sm = Absent THEN 503
  ELSE IF req.key \in OddKeys THEN 400
  ELSE IF req.key \notin OwnKeys THEN 404
  ELSE 0

\* The filter of handle_sessions_list.
\* Faulty variant: none.
ListedAll(store) == store

Listed(store) == store \cap OwnKeys

\* The answer over the sessions in store.  raises is the set of keys whose file, if there
\* is one, the session manager cannot read or remove; list_sessions reads all of them, the
\* prefix is looked at afterwards.  Upgrade is None, the handshake goes on.
Upgrade == [status |-> 101, body |-> {}]

Reply(needed, sm, store, raises, req) ==
  CASE req.route \in {"list", "messages", "delete"} /\ ~TokenValid(needed, req) -> Status(401)
    [] req.route = "list" ->
         IF sm = Absent THEN Status(503)
         ELSE IF raises \cap store # {} THEN Status(500)
         ELSE [status |-> 200, body |-> Listed(store)]
    [] req.route \in {"messages", "delete"} ->
         IF Refused(sm, req) # 0 THEN Status(Refused(sm, req))
         ELSE IF req.key \in raises \cap store THEN Status(500)
         ELSE IF req.route = "delete" THEN [status |-> 200, body |-> {req.key} \cap store]
         ELSE IF req.key \notin store THEN Status(404)
         ELSE [status |-> 200, body |-> {req.key}]
    [] req.route = "ws" /\ req.upgrade -> Upgrade
    [] OTHER -> Status(404)

\* The sessions after the request.
Deleted(needed, sm, store, raises, req) ==
  IF req.route = "delete" /\ TokenValid(needed, req) /\ Refused(sm, req) = 0
  THEN store \ ({req.key} \ raises)
  ELSE store
=============================================================================
