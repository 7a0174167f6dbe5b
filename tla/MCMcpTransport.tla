--------------------------- MODULE MCMcpTransport ---------------------------
(* McpTransport for TLC: two servers, each with a tool, of which B changes its *)
(* own and starts to list A's; two sessions that number requests alike.        *)
EXTENDS McpTransport

CONSTANTS srvA, srvB

T(name, def) == [name |-> <<name>>, def |-> def]
MCServers == <<srvA, srvB>>
MCListed == [s \in {srvA, srvB} |-> IF s = srvA THEN <<T("x", 1)>> ELSE <<T("y", 1)>>]
MCChanged == [s \in {srvA, srvB} |-> IF s = srvA THEN <<T("x", 1)>> ELSE <<T("y", 2), T("x", 3)>>]
MCDefault == {srvA}
M(method, tool, headers, session) ==
    [method |-> method, tool |-> <<tool>>, ref |-> IF method = "cancelled" THEN OriginalId ELSE NoId, headers |-> headers, session |-> session]
MCMessages ==
    [p \in 1..2 |->
        IF p = 1 THEN {M("call", "y", "ok", 101), M("other", "", "ok", 101)}
        ELSE {M("list", "", "ok", 102), M("notification", "", "ok", 102), M("initialize", "", "ok", 102), M("call", "x", "no_token", 102),
              M("cancelled", "", "ok", 101), M("cancelled", "", "ok", 102), M("delete", "", "ok", 101)}]
MCSurprises == {<<srvB, "list_changed">>, <<srvB, "request">>, <<srvB, "notification">>}
MCMortal == {srvA}
MCPages == [s \in {srvA, srvB} |-> IF s = srvA THEN {"error", "last"} ELSE {"last", "more"}]
===============================================================================
