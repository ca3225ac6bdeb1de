--------------------------- MODULE MCBrowserClient ---------------------------
\* The elements of index.html: two microphone buttons, which are alike, one
\* level display of the microphone and two of the remote track.
EXTENDS BrowserClient, TLC

CONSTANTS chat, row, above, below

PageButtons        == {chat, row}
PageMicDisplays    == {below}
PageRemoteDisplays == {above, below}

Symmetry == Permutations(Buttons)
=============================================================================
