---------------------------- MODULE MCNegotiation ----------------------------
(***************************************************************************)
(* Messages for Negotiation: masks with and without the client's features, *)
(* every single field, and messages that carry several fields at once.     *)
(***************************************************************************)
EXTENDS Negotiation

Masks == {{}, {"PING", "KEY", "IME", "POWER"}, {"KEY", "POWER", "VOLUME", "APP_LINK"},
          {"PING", "VOICE"}, {"POWER", "IME"}, {"PING", "KEY", "APP_LINK"}}

AnyMessage ==
    [fields : {{f} : f \in Field}
              \cup {{}, {"remote_configure", "remote_start"},
                    {"remote_set_active", "remote_error"}},
     code1 : Masks, val1 : {7}, started : Power]
==============================================================================
