---- MODULE MCFeed ----
EXTENDS Feed

\* A message that does not parse, one of two trades, one with an unusable trade.
MCMessages == {[ok |-> FALSE, trades |-> <<TRUE>>], [ok |-> TRUE, trades |-> <<TRUE, TRUE>>],
               [ok |-> TRUE, trades |-> <<FALSE, TRUE>>]}
====
