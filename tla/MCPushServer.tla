----------------------------- MODULE MCPushServer -----------------------------
(***************************************************************************)
(* Two websocket clients, so that one can leave or be slow while the other *)
(* is served.  The first makes two requests, one to end or replace what    *)
(* the other subscribes to, and does not wait for the answer, or only      *)
(* reads.  socket.io clients share no state with them and are explored     *)
(* apart.                                                                  *)
(***************************************************************************)
EXTENDS PushServer, TLC

CONSTANTS c1, c2, a1, a2
Subscribe(as) == <<"subscribeAddresses", as>>
MCAsks ==
    c1 :> {<<<<"subscribeNewBlock", {}>>, <<"unsubscribeNewBlock", {}>>>>,
           <<Subscribe({a1, a2}), Subscribe({a1})>>,
           <<Subscribe({a1}), <<"unsubscribeAddresses", {}>>>>,
           <<<<"query", {}>>>>}
    @@ c2 :> {<<<<"subscribeNewBlock", {}>>>>}
Apart == (\E c \in Clients : conn[c] # "none") => \A t \in Topics : rooms[t] = {}
=============================================================================
