---------------------------- MODULE MCMcpProxy ----------------------------
(***************************************************************************)
(* Small instances of McpProxy for TLC.                                    *)
(***************************************************************************)
EXTENDS McpProxy, TLC

CONSTANTS c1, c2, n1, q1, s1

\* The server numbers its requests apart from the client's.
OwnIds == s1 :> s1

\* The server makes no requests.
NoIds == <<>>

=============================================================================
