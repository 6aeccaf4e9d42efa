-------------------------- MODULE MCResponderReply --------------------------
(* A small instance of ResponderReply for TLC.                             *)
EXTENDS ResponderReply
=============================================================================
