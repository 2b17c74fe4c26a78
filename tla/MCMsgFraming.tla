---------------------------- MODULE MCMsgFraming ----------------------------
(* MsgFraming for TLC: bytes are places in a stream of three messages.     *)
EXTENDS MsgFraming

StreamBytes == 0..15
=============================================================================
