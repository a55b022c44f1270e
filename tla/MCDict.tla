------------------------------- MODULE MCDict -------------------------------
EXTENDS Dict

CONSTANTS c1, a1, f1, f2, r1, r2, text

SessionKey(f) == [table |-> "sessions", type |-> "uint32", id |-> c1, field |-> f]
HostKey(f) == [table |-> "host", type |-> "ip6", id |-> a1, field |-> f]

MCKeys == {SessionKey(f1), SessionKey(f2), HostKey(f1), HostKey(f2)}

\* The largest number of the unsigned type and the smallest of the signed one,
\* for an int32 of three bits, and a text in which key_ occurs.
MCValues == [k \in MCKeys |->
    CASE k = SessionKey(f1) -> {[type |-> "uint32", val |-> 7]}
      [] k = HostKey(f1) -> {[type |-> "int32", val |-> -4]}
      [] OTHER -> {[type |-> "string", val |-> text]}]

MCMentions == [t \in {text} |-> {"key_"}]

\* GetSessions, and GetHostEntry.
MCWants == [r \in Readers |-> IF r = r1 THEN SessionKeys ELSE Dictionary(HostKey(f1))]

=============================================================================
