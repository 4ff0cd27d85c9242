-------------------------------- MODULE MCSync --------------------------------
EXTENDS Sync

\* One channel with a buffer of one, and one without.
Buffers == [x |-> 1, y |-> 0]

\* select over two receives, over a send and a receive, and over sends only.
CaseLists == {<<[chan |-> "x", send |-> FALSE], [chan |-> "y", send |-> FALSE]>>,
              <<[chan |-> "x", send |-> TRUE], [chan |-> "y", send |-> FALSE]>>,
              <<[chan |-> "x", send |-> TRUE], [chan |-> "y", send |-> TRUE]>>}
===============================================================================
