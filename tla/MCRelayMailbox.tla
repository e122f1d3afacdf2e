--------------------------- MODULE MCRelayMailbox ---------------------------
(* An instance of RelayMailbox for TLC: a plain call and a stream.            *)
EXTENDS RelayMailbox
CONSTANTS plain, stream
=============================================================================
