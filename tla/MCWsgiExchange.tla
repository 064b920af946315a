--------------------------- MODULE MCWsgiExchange ---------------------------
(* WsgiExchange with short bodies and responses, for TLC. *)
EXTENDS WsgiExchange

\* -1 is read() and readlines() without an argument.
MCSizes == {-1, 0, 1}
MCHints == {-1, 0, 1}

\* CONTENT_LENGTH: -1, none, right, or more than the client sends.
MCDeclared == -1..3
=============================================================================
