----------------------------- MODULE MCLzExtent -----------------------------
EXTENDS LzExtent

\* A terminator, a control byte of no tokens, a reference, a literal, a literal
\* and then a reference (as tokens: 4, 4, 1, 1 and 2 bytes), in every arrangement.
MCRamImages == [Address -> {0, 1, 2, 3, 5}]

\* The output before, at, inside and behind the stream, under a bound that
\* everything fits or two bytes do; one call is not the wrapper's.
MCCalls ==
  [entry : {2}, output : {0, 1, 2, 4, 5}, limit : {2, 6}, listed : {TRUE}]
  \cup [entry : {0}, output : {1, 3}, limit : {3}, listed : {TRUE}]
  \cup {[entry |-> 2, output |-> 0, limit |-> 6, listed |-> FALSE]}
=============================================================================
