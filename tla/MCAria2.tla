------------------------------- MODULE MCAria2 -------------------------------
\* A magnet and the URL of a torrent share the daemon.
EXTENDS Aria2, TLC

CONSTANTS magnet, url

MCParts == (magnet :> 1) @@ (url :> 1)
=============================================================================
