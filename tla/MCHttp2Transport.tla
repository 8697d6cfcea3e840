-------------------------- MODULE MCHttp2Transport --------------------------
(* Three requests of HTTP/2 clients: two wait for a negotiation that       *)
(* fails, while the third opens a connection of its own.                   *)
EXTENDS Http2Transport
CONSTANTS r1, r2, r3
MCRequests == {r1, r2, r3}
MCHttp1Clients == {}
=============================================================================
