---------------------------- MODULE MCMicControl ----------------------------
\* The elements of index.html that have to do with the microphone.
EXTENDS MicControl

CONSTANTS chat, row, above, below

PageButtons        == {chat, row}
PageMicDisplays    == {below}
PageRemoteDisplays == {above, below}
=============================================================================
