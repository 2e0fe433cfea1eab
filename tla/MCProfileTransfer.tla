-------------------------- MODULE MCProfileTransfer --------------------------
(* A small instance of ProfileTransfer for TLC.                             *)
EXTENDS ProfileTransfer

\* Two chunks can agree with both records; three show where they were joined.
Long == [r \in Records |-> 3]
=============================================================================
