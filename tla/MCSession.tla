------------------------------ MODULE MCSession ------------------------------
(***************************************************************************)
(* Values of Session's constants for TLC.  Durations keep their order in   *)
(* the code (backoff and grace are short, a read timeout is shorter than   *)
(* the confirmation deadline) on a coarse clock.                           *)
(***************************************************************************)
EXTENDS SessionRefinement

Cmd(name, mac, store, injects) ==
    [name |-> name, mac |-> mac, store |-> store, injects |-> injects]

PowerCommands ==
    {Cmd("status", FALSE, "paired", <<>>), Cmd("off", FALSE, "paired", <<>>),
     Cmd("on", FALSE, "paired", <<>>), Cmd("on", TRUE, "paired", <<>>),
     Cmd("on", FALSE, "missing", <<>>), Cmd("status", FALSE, "unusable", <<>>)}

OnCommands == {Cmd("on", mac, "paired", <<>>) : mac \in BOOLEAN}

OnOff == {Cmd(name, FALSE, "paired", <<>>) : name \in {"on", "off"}}

KeyCommands ==
    {Cmd("key", FALSE, "paired", <<"VOLUME_UP", "POWER">>),
     Cmd("key", FALSE, "paired", <<"POWER">>),
     Cmd("launch", FALSE, "paired", <<"LINK">>)}

\* One command of each kind: what ends them does not depend on --mac being absent.
EachCommand ==
    KeyCommands \cup {Cmd("status", FALSE, "paired", <<>>), Cmd("off", FALSE, "paired", <<>>),
                     Cmd("on", TRUE, "paired", <<>>)}

Msg(fields) == [fields |-> fields, code1 |-> {}, val1 |-> 0, started |-> "off"]

Ping == Msg({"remote_ping_request"})
Configure == [Msg({"remote_configure"}) EXCEPT !.code1 = {"PING", "KEY", "POWER"}]

AnyChat == {Ping, Msg({"remote_error"}), Msg({"undecodable"})}
PoliteChat == {Ping, Configure}
PingOnly == {Ping}
==============================================================================
