-------------------------- MODULE MCRemotePrepare --------------------------
(***************************************************************************)
(* What an earlier run may have left in the pool, for the runs of          *)
(* RemotePrepare.                                                          *)
(***************************************************************************)
EXTENDS RemotePrepare

\* On the protocol nonce: nothing, the next transaction, one behind a gap, both.
AnyOnProtocolNonce == {{}, {<<0, 0>>}, {<<0, 1>>}, {<<0, 0>>, <<0, 2>>}}
=============================================================================
