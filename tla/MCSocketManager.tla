-------------------------- MODULE MCSocketManager --------------------------
(* A small instance of SocketManager.  A message without parts would be    *)
(* one whose sending throws before the first part.                         *)
EXTENDS SocketManager

MCParts == [m \in Replies |-> 2]
============================================================================
