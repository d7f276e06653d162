--------------------------- MODULE MCPageLibraries ---------------------------
EXTENDS PageLibraries

\* The ends of the ranges and a value whose bytes all differ.
MCInts == {-2147483647 - 1, 16909060, 2147483647}
MCShorts == {-32768, 258, 32767}
MCOctets == {-128, 127}

\* "", "%", "aaa" and characters of two and three bytes, in lengths that leave
\* every remainder by three.
MCStrings == {<<>>, <<37>>, <<97, 233>>, <<8364, 97, 98, 99>>, <<233, 65, 37>>}
=============================================================================
