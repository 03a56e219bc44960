---------------------------- MODULE MCMpscAsync -----------------------------
(* Instances of MpscAsync for TLC: the receive calls each run explores.    *)
EXTENDS MpscAsync

RecvAsync == {<<"one", 1>>}
BulkCalls == {<<"many", 1>>, <<"drain", 0>>}
=============================================================================
