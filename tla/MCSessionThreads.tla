--------------------------- MODULE MCSessionThreads ---------------------------
(* SessionThreads on the instances of MCPesSession.                        *)
EXTENDS SessionThreads, MCPesSession

=============================================================================
