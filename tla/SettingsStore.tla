---------------------------- MODULE SettingsStore ---------------------------
(***************************************************************************)
(* What the settings service promises about settings.json: it shows a      *)
(* document that sync-settings accepted, or, while it is rewritten or      *)
(* after a save that was cut short, none.  A request reads what it shows.  *)
(***************************************************************************)
CONSTANTS
    Requests,   \* requests to the REST server
    Docs,       \* settings documents
    InitialDoc, \* the one on file at first
    Torn,       \* the file is cut short, or mixes documents
    Unread      \* the request has not read the file

VARIABLES
    shown,      \* what the file shows
    accepted,   \* documents sync-settings has accepted
    seen        \* [Requests -> what the request read]

svars == <<shown, accepted, seen>>

Init ==
    /\ shown = InitialDoc
    /\ accepted = {InitialDoc}
    /\ seen = [r \in Requests |-> Unread]

\* sync-settings accepts document d.
Accept(d) ==
    /\ accepted' = accepted \cup {d}
    /\ UNCHANGED <<shown, seen>>

Tear ==
    /\ shown' = Torn
    /\ UNCHANGED <<accepted, seen>>

\* A save is complete.
Publish ==
    /\ shown' \in accepted
    /\ UNCHANGED <<accepted, seen>>

\* A torn file is read as an error, or as a document nobody wrote when the
\* pieces of two happen to fit.
Read(r) ==
    /\ seen[r] = Unread
    /\ \E d \in Docs \cup {Torn} :
          /\ shown = Torn \/ d = shown
          /\ seen' = [seen EXCEPT ![r] = d]
    /\ UNCHANGED <<shown, accepted>>

Next ==
    \/ \E d \in Docs : Accept(d)
    \/ Tear
    \/ Publish
    \/ \E r \in Requests : Read(r)

Spec == Init /\ [][Next]_svars

=============================================================================
