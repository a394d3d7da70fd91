---------------------------- MODULE MCReadStack ----------------------------
EXTENDS ReadStack

\* A positive and a negative offset, and one of more than a frame.
MCOffsets == {-1, 0, 3}

MCMaxReads == [single |-> 3, repeat |-> 2]
MCSeekTo == [single |-> 1..5, repeat |-> {2}]
=============================================================================
