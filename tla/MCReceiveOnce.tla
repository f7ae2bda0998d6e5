--------------------------- MODULE MCReceiveOnce ----------------------------
(* A small instance of ReceiveOnce for TLC's liveness checking.             *)
EXTENDS ReceiveOnce

MCNames == {<<"a">>}
=============================================================================
