----------------------------- MODULE MCDiscovery -----------------------------
EXTENDS Discovery

MCServers == {[insecure |-> 1, secure |-> 1]}
MCRequested == <<"t", 1>>

\* One that mentions no port, one of this process, one of another topic, and one
\* whose id has too many digits.
MCStrays ==
  {[topic |-> "t", insecure |-> NoPort, secure |-> NoPort, id |-> 0],
   [topic |-> "t", insecure |-> 1, secure |-> 1, id |-> ownId],
   [topic |-> "u", insecure |-> 1, secure |-> 1, id |-> 1],
   [topic |-> "t", insecure |-> 1, secure |-> 1, id |-> TooLong]}
=============================================================================
