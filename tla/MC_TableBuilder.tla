--------------------------- MODULE MC_TableBuilder ---------------------------
EXTENDS TableBuilder

\* Keys of one or two bytes from {1, 2, 255}: a separator can be shortened
\* (1 and 255 leave room), or not (1 and 2 are adjacent), and 255
\* exercises the 0xff cases of both comparator methods.
MCKeys == {<<b>> : b \in {1, 2, 255}} \cup {<<b, c>> : b, c \in {1, 2, 255}}
MCValues == {<<7>>}
=============================================================================
