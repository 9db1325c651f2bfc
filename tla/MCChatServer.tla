---------------------------- MODULE MCChatServer ----------------------------
(* A finite instance of ChatServer: three connections as model values.         *)
EXTENDS ChatServer

CONSTANTS s1, s2, s3
=============================================================================
