------------------------------ MODULE Handshake ------------------------------
(***************************************************************************)
(* SessionHandshake of src/session.rs: the reaction of the client to one   *)
(* message of the Remote v2 session, as pure operators from a handshake    *)
(* state and a message to a new state and a reply.  Feature bit masks are  *)
(* sets of bits, so the bitwise & of the code is set intersection and the  *)
(* mask 0 is the empty set.                                                *)
(***************************************************************************)
EXTENDS Naturals, FiniteSets, FiniteSetsExt

Power == {"on", "off"}
PowerView == Power \cup {"unknown"}      \* Option<bool>; "unknown" is None

Feature == {"PING", "KEY", "IME", "VOICE", "POWER", "VOLUME", "APP_LINK"}

\* The feature bits this client supports.
FEATURES == {"PING", "KEY", "POWER", "APP_LINK"}

\* The fields of a RemoteMessage that handle() looks at, in the order it looks.
HandleOrder == <<"remote_configure", "remote_set_active",
                 "remote_ping_request", "remote_start", "remote_error">>

Field == {HandleOrder[i] : i \in DOMAIN HandleOrder}

\* A frame as read_message meets it: any subset of the fields can be present
\* (proto3, no oneof).  A frame whose body does not decode carries the mark
\* "undecodable" instead.
RemoteMessage == [fields : SUBSET (Field \cup {"undecodable"}),
                  code1 : SUBSET Feature, val1 : Nat, started : Power]

Undecodable(m) == "undecodable" \in m.fields

HandshakeState == [power : PowerView, active_features : SUBSET Feature]

NewHandshake == [power |-> "unknown", active_features |-> FEATURES]

Reply(kind, active, val1) == [kind |-> kind, active |-> active, val1 |-> val1]
NoReply == Reply("none", {}, 0)

\* The branch of handle() that m takes: its first present field, or none.
Branch(m) ==
    LET present == {i \in DOMAIN HandleOrder : HandleOrder[i] \in m.fields}
    IN  IF present = {} THEN "ignored" ELSE HandleOrder[Min(present)]

Negotiate_Replace(active, code1) ==        \* mutant: forgets what is active
    IF code1 # {} THEN FEATURES \cap code1 ELSE active

\* The features that stay active when the TV offers code1 (0 = no statement).
Negotiate(active, code1) == IF code1 # {} THEN active \cap code1 ELSE active

\* SessionHandshake::handle: the new state, the reply to write (if any) and
\* whether the call returned an error.
Handle(hs, m) ==
    LET active == IF Branch(m) = "remote_configure"
                  THEN Negotiate(hs.active_features, m.code1)
                  ELSE hs.active_features
    IN  [hs |-> [power |-> IF Branch(m) = "remote_start" THEN m.started ELSE hs.power,
                 active_features |-> active],
         reply |-> IF Branch(m) \in {"remote_configure", "remote_set_active"}
                   THEN Reply(Branch(m), active, 0)
                   ELSE IF Branch(m) = "remote_ping_request"
                   THEN Reply("remote_ping_response", {}, m.val1)
                   ELSE NoReply,
         err |-> Branch(m) = "remote_error"]

\* map_session_read_error: the kind reported for a failed read of the
\* handshake loop, whatever the I/O error was.
map_session_read_error(got_any_message) ==
    IF got_any_message THEN "protocol_error" ELSE "auth_rejected"

needs_power_key_Always(current, want) == TRUE        \* mutant

\* Whether a power key press is needed to move from current to want.
needs_power_key(current, want) == current # want

\* Mutants: off retries too; on only retries a TV seen off.
should_retry_power_on_Any(want, observed) == observed # want
should_retry_power_on_SeenOff(want, observed) == want = "on" /\ observed = "off"

\* Whether another attempt follows one that ended with this observation.
should_retry_power_on(want, observed) == want = "on" /\ observed # "on"

ErrorKind == {"unreachable", "not_paired", "auth_rejected", "pairing_failed",
              "protocol_error", "config_io"}
==============================================================================
