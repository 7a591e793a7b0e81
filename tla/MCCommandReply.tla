--------------------------- MODULE MCCommandReply ---------------------------
(* CommandReply with the values of its constants in the .cfg files.          *)
EXTENDS CommandReply

=============================================================================
