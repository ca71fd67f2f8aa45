--------------------------- MODULE MCChannelManager ---------------------------
(***************************************************************************)
(* ChannelManager with the sets and symmetries of its TLC instances.       *)
(***************************************************************************)
EXTENDS ChannelManager, TLC

CONSTANTS t1, t2, c1

TwoThreads  == {t1, t2}
OneChannel  == {c1}

\* Client threads are interchangeable.
ThreadSymmetry == Permutations(TwoThreads)
=============================================================================
