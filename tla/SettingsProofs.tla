--------------------------- MODULE SettingsProofs ---------------------------
(***************************************************************************)
(* Proofs about Settings: that it implements SettingsStore, that a save    *)
(* that answers OK is in the file, that only an interrupted save leaves    *)
(* the file incomplete, and that a save changes nothing but its path, for  *)
(* any requests and documents, any number of temporary files and any       *)
(* number of writes of a copy.                                             *)
(***************************************************************************)
EXTENDS Settings, JsonProofs

\* A request has a temporary file of its own, with its document in it.
OwnTemp(r) ==
    /\ pc[r] = "write" => doc[r] \in Docs
    /\ pc[r] \in {"sync", "create", "copy"} =>
          doc[r] \in Docs /\ name[r] \in Names /\ tmp[name[r]] = doc[r]

\* What is on its way into the file, and what is there, has been accepted.
Accepted ==
    /\ \A r \in Requests : Saving(r) => doc[r] \in accepted
    /\ \A i \in 1..Chunks : file[i] # Hole => file[i] \in accepted

\* Where a request is in reading and copying.
Progress(r) ==
    /\ pc[r] \in {"idle", "read"} => seen[r] = Unread
    /\ pc[r] = "copy" => pos[r] < Chunks

\* A save alone since its sync-settings is the only one, and is in force.
Alone ==
    \A r \in Requests : (r \in alone /\ Saving(r)) =>
        current = doc[r] /\ \A q \in Requests : Saving(q) => q = r

OneCopy == cutShort = {} => \A r, q \in Requests : (pc[r] = "copy" /\ pc[q] = "copy") => r = q

\* What an undisturbed copy has written is in the file.
Prefix ==
    \A r \in Requests : (pc[r] = "copy" /\ (r \in alone \/ cutShort = {})) =>
        \A i \in 1..pos[r] : file[i] = doc[r]

IInv ==
    /\ TypeOK
    /\ answer = [r \in Requests |-> answer[r]]
    /\ \A r \in Requests : OwnTemp(r) /\ Progress(r)
    /\ Accepted
    /\ Alone
    /\ OneCopy
    /\ Prefix
    /\ TornOnlyByInterruptedSave

-----------------------------------------------------------------------------
LEMMA ChunksFacts == Chunks \in Nat /\ Chunks >= 1 /\ 1 \in 1..Chunks
  BY ChunksAssumption

\* Init and what of it the invariant needs.
LEMMA InitIInv == Init => IInv
<1> SUFFICES ASSUME Init PROVE IInv
  BY Zenon
<1> USE DocsAssumption, ChunksFacts
<1>1. TypeOK
  <2>1. file \in [1..Chunks -> Docs \cup {Hole}] /\ tmp \in [Names -> Docs \cup {None}]
    BY DEF Init
  <2>2. pc \in [Requests -> Steps] /\ pos \in [Requests -> 0..Chunks] /\ cutShort \subseteq Requests
    BY DEF Init, Steps
  <2>3. doc \in [Requests -> Docs \cup {None}] /\ name \in [Requests -> Names \cup {None}]
    BY DEF Init
  <2>4. seen \in [Requests -> Docs \cup {Torn, Unread}] /\ alone \subseteq Requests /\ accepted \subseteq Docs
    BY DEF Init
  <2>5. current \in Docs \cup {None} /\ op \in [Requests -> Ops]
    BY DEF Init
  <2> QED
    BY Zenon, <2>1, <2>2, <2>3, <2>4, <2>5 DEF TypeOK
<1>2. answer = [r \in Requests |-> answer[r]]
  BY DEF Init
<1>3. \A r \in Requests : OwnTemp(r) /\ Progress(r)
  BY Zenon DEF Init, OwnTemp, Progress
<1>4. Accepted /\ Alone /\ OneCopy /\ Prefix
  BY DEF Init, Accepted, Alone, OneCopy, Prefix, Saving
<1>5. TornOnlyByInterruptedSave
  BY Zenon DEF Init, TornOnlyByInterruptedSave, Whole
<1> QED
  BY Zenon, <1>1, <1>2, <1>3, <1>4, <1>5 DEF IInv

-----------------------------------------------------------------------------
\* One lemma for the types of the variables of each action.
LEMMA NextTypeOK == IInv /\ [Next]_vars => TypeOK'
<1> SUFFICES ASSUME IInv, [Next]_vars PROVE TypeOK'
  BY Zenon
<1> USE DocsAssumption, ChunksFacts
<1>0. TypeOK
  BY Zenon DEF IInv
<1>1. CASE UNCHANGED vars
  BY Zenon, <1>0, <1>1 DEF vars, TypeOK
<1>2. CASE Crash
  BY Zenon, <1>0, <1>2 DEF TypeOK, Crash, Steps
<1>3. ASSUME NEW r \in Requests, Begin(r) \/ ReadOther(r) \/ Refuses(r) PROVE TypeOK'
  <2>1. pc' \in [Requests -> Steps]
    BY ZenonT(60), <1>0, <1>3 DEF TypeOK, Begin, ReadOther, Refuses, Goto, Answer, Steps
  <2>2. UNCHANGED <<file, current, tmp, op, doc, name, pos, accepted, seen, alone, cutShort>>
    BY <1>3 DEF Begin, ReadOther, Refuses, store
  <2> QED
    BY Zenon, <1>0, <2>1, <2>2 DEF TypeOK
<1>4. ASSUME NEW r \in Requests, Read(r) PROVE TypeOK'
  <2>0. pc' = [pc EXCEPT ![r] = "done"] \/ pc' = [pc EXCEPT ![r] = "write"]
    BY <1>4, Zenon DEF Read, Goto, Answer
  <2>1. pc' \in [Requests -> Steps]
    BY Zenon, <1>0, <2>0 DEF TypeOK, Steps
  <2>2. PICK d \in Docs \cup {Torn} :
           /\ seen' = [seen EXCEPT ![r] = d]
           /\ doc' = doc \/ (op[r].kind = "change" /\ ~Refused(d, op[r])
                               /\ doc' = [doc EXCEPT ![r] = Edit(d, op[r]).val])
    BY Zenon, <1>4 DEF Read
  <2>3. seen' \in [Requests -> Docs \cup {Torn, Unread}]
    BY Zenon, <1>0, <2>2 DEF TypeOK
  <2>4. ~Refused(d, op[r]) => d \in Docs /\ ~Edit(d, op[r]).err
    BY Zenon DEF Refused
  <2>5. (op[r].kind = "change" /\ ~Refused(d, op[r])) => Edit(d, op[r]).val \in Docs
    BY <1>0, <2>4 DEF TypeOK
  <2>6. doc' \in [Requests -> Docs \cup {None}]
    BY Zenon, <1>0, <2>2, <2>5 DEF TypeOK
  <2>7. UNCHANGED <<file, current, tmp, op, name, pos, accepted, alone, cutShort>>
    BY Zenon, <1>4 DEF Read, store
  <2> QED
    BY <1>0, <2>1, <2>3, <2>6, <2>7 DEF TypeOK
<1>5. ASSUME NEW r \in Requests, WriteTemp(r) PROVE TypeOK'
  BY <1>0, <1>5 DEF TypeOK, WriteTemp, WriteTo, Goto, Steps
<1>6. ASSUME NEW r \in Requests, WriteTempFails(r) PROVE TypeOK'
  <2>1. pc' \in [Requests -> Steps]
    BY Zenon, <1>0, <1>6 DEF TypeOK, WriteTempFails, Goto, Answer, Steps
  <2>2. tmp' \in [Names -> Docs \cup {None}]
    BY Zenon, <1>0, <1>6 DEF TypeOK, WriteTempFails
  <2>3. UNCHANGED <<file, current, op, doc, name, pos, accepted, seen, alone, cutShort>>
    BY Zenon, <1>6 DEF WriteTempFails
  <2> QED
    BY Zenon, <1>0, <2>1, <2>2, <2>3 DEF TypeOK
<1>7. ASSUME NEW r \in Requests, Accepts(r, "create") PROVE TypeOK'
  <2>1. tmp[name[r]] \in Docs
    BY Zenon, <1>7 DEF IInv, OwnTemp, Accepts
  <2>2. pc' \in [Requests -> Steps]
    BY Zenon, <1>0, <1>7 DEF TypeOK, Accepts, Goto, Steps
  <2>3. current' \in Docs /\ accepted' \subseteq Docs /\ alone' \subseteq Requests
    BY Zenon, <1>0, <1>7, <2>1 DEF TypeOK, Accepts
  <2>4. UNCHANGED <<file, tmp, op, doc, name, pos, seen, cutShort>>
    BY Zenon, <1>7 DEF Accepts
  <2> QED
    BY Zenon, <1>0, <2>2, <2>3, <2>4 DEF TypeOK
<1>8. ASSUME NEW r \in Requests, Create(r) PROVE TypeOK'
  <2>1. pc' \in [Requests -> Steps]
    BY ZenonT(60), <1>0, <1>8 DEF TypeOK, Create, CreateOr, Goto, Answer, Steps
  <2>2. file' \in [1..Chunks -> Docs \cup {Hole}] /\ pos' \in [Requests -> 0..Chunks]
    BY <1>0, <1>8 DEF TypeOK, Create, CreateOr
  <2>3. cutShort' \subseteq Requests
    BY <1>0, <1>8 DEF TypeOK, Create, CreateOr
  <2>4. UNCHANGED <<current, tmp, accepted, op, doc, name, seen, alone>>
    BY <1>8 DEF Create, CreateOr
  <2> QED
    BY Zenon, <1>0, <2>1, <2>2, <2>3, <2>4 DEF TypeOK
<1>9. ASSUME NEW r \in Requests, Copy(r) PROVE TypeOK'
  <2>1. tmp[name[r]] \in Docs /\ pos[r] \in Nat /\ pos[r] < Chunks
    BY <1>0, <1>9 DEF IInv, OwnTemp, Progress, Copy, TypeOK
  <2>2. pc' \in [Requests -> Steps]
    BY ZenonT(120), <1>0, <1>9 DEF TypeOK, Copy, Goto, Answer, Steps
  <2>3. file' \in [1..Chunks -> Docs \cup {Hole}]
    BY <1>0, <1>9, <2>1 DEF TypeOK, Copy
  <2>4. pos' \in [Requests -> 0..Chunks]
    BY <1>0, <1>9, <2>1 DEF TypeOK, Copy
  <2>5. UNCHANGED <<current, tmp, accepted, cutShort, op, doc, name, seen, alone>>
    BY <1>9 DEF Copy
  <2> QED
    BY <1>0, <2>2, <2>3, <2>4, <2>5 DEF TypeOK
<1>10. ASSUME NEW r \in Requests, CopyFails(r) PROVE TypeOK'
  BY <1>0, <1>10 DEF TypeOK, CopyFails, Goto, Answer, Steps
<1> QED
  BY Zenon, <1>1, <1>2, <1>3, <1>4, <1>5, <1>6, <1>7, <1>8, <1>9, <1>10 DEF Next, Step, Sync

-----------------------------------------------------------------------------
\* What each action does to the step of its request, and that it keeps the
\* other requests where they are.  Crash is apart.
LEMMA PcSteps ==
    ASSUME TypeOK, NEW r \in Requests, Step(r)
    PROVE  /\ \A q \in Requests \ {r} : pc'[q] = pc[q]
           /\ \/ pc[r] = "idle" /\ pc'[r] \in {"read", "done"}
              \/ pc[r] = "read" /\ pc'[r] \in {"write", "done"}
              \/ pc[r] = "write" /\ pc'[r] \in {"sync", "done"}
              \/ pc[r] = "sync" /\ pc'[r] \in {"create", "done"}
              \/ pc[r] = "create" /\ pc'[r] \in {"copy", "done"}
              \/ pc[r] = "copy" /\ pc'[r] \in {"copy", "done"}
<1>1. PICK s \in {"read", "write", "sync", "create", "copy", "done"} :
         /\ pc' = [pc EXCEPT ![r] = s]
         /\ \/ pc[r] = "idle" /\ s \in {"read", "done"}
            \/ pc[r] = "read" /\ s \in {"write", "done"}
            \/ pc[r] = "write" /\ s \in {"sync", "done"}
            \/ pc[r] = "sync" /\ s \in {"create", "done"}
            \/ pc[r] = "create" /\ s \in {"copy", "done"}
            \/ pc[r] = "copy" /\ s \in {"copy", "done"}
  <2>1. CASE Begin(r)
    BY <2>1, Zenon DEF Begin, Goto, Answer
  <2>2. CASE Read(r) \/ ReadOther(r)
    BY <2>2, Zenon DEF Read, ReadOther, Goto, Answer
  <2>3. CASE WriteTemp(r) \/ WriteTempFails(r)
    BY <2>3, Zenon DEF WriteTemp, WriteTo, WriteTempFails, Goto, Answer
  <2>4. CASE Sync(r)
    BY <2>4, Zenon DEF Sync, Accepts, Refuses, Goto, Answer
  <2>5. CASE Create(r)
    BY <2>5, Zenon DEF Create, CreateOr, Goto, Answer
  <2>6. CASE CopyFails(r)
    BY <2>6, Zenon DEF CopyFails, Goto, Answer
  <2>7. CASE Copy(r)
    <3>1. pc[r] = "copy"
      BY <2>7 DEF Copy
    <3>2. pc' = [pc EXCEPT ![r] = "done"] \/ pc' = pc
      BY <2>7, Zenon DEF Copy, Goto, Answer
    <3>3. pc' = pc => pc' = [pc EXCEPT ![r] = "copy"]
      BY Zenon, <3>1 DEF TypeOK
    <3> QED
      BY <3>1, <3>2, <3>3
  <2> QED
    BY <2>1, <2>2, <2>3, <2>4, <2>5, <2>6, <2>7 DEF Step
<1> QED
  BY <1>1 DEF TypeOK

\* A step of r leaves the other requests' data and the temporary files alone.
LEMMA OthersKept ==
    ASSUME TypeOK, NEW r \in Requests, Step(r)
    PROVE  /\ \A q \in Requests \ {r} : doc'[q] = doc[q] /\ name'[q] = name[q] /\ seen'[q] = seen[q] /\ pos'[q] = pos[q]
           /\ \A n \in Names : tmp[n] # None => tmp'[n] = tmp[n]
           /\ op' = op
<1>1. CASE Begin(r) \/ ReadOther(r) \/ Sync(r) \/ CopyFails(r)
  <2>1. UNCHANGED <<doc, name, seen, pos, tmp, op>>
    BY <1>1 DEF Begin, ReadOther, Sync, Accepts, Refuses, CopyFails, store
  <2> QED
    BY Zenon, <2>1
<1>2. CASE Read(r)
  <2>1. PICK d, e : seen' = [seen EXCEPT ![r] = d] /\ (doc' = doc \/ doc' = [doc EXCEPT ![r] = e])
    BY <1>2, Zenon DEF Read
  <2>2. UNCHANGED <<name, pos, tmp, op>>
    BY <1>2 DEF Read, store
  <2> QED
    BY <2>1, <2>2 DEF TypeOK
<1>3. CASE WriteTemp(r)
  <2>1. PICK n \in Names : tmp[n] = None /\ tmp' = [tmp EXCEPT ![n] = doc[r]] /\ name' = [name EXCEPT ![r] = n]
    BY Zenon, <1>3 DEF WriteTemp, WriteTo
  <2>2. UNCHANGED <<doc, seen, pos, op>>
    BY <1>3 DEF WriteTemp, WriteTo
  <2> QED
    BY <2>1, <2>2 DEF TypeOK
<1>4. CASE WriteTempFails(r)
  <2>1. tmp' = tmp \/ \E n \in Names : tmp[n] = None /\ tmp' = [tmp EXCEPT ![n] = doc[r]]
    BY <1>4 DEF WriteTempFails
  <2>2. UNCHANGED <<doc, name, seen, pos, op>>
    BY <1>4 DEF WriteTempFails
  <2> QED
    BY <2>1, <2>2 DEF TypeOK
<1>5. CASE Create(r)
  <2>1. (pos' = pos \/ pos' = [pos EXCEPT ![r] = 0]) /\ UNCHANGED <<doc, name, seen, tmp, op>>
    BY <1>5 DEF Create, CreateOr
  <2> QED
    BY <2>1 DEF TypeOK
<1>6. CASE Copy(r)
  <2>1. pos' = [pos EXCEPT ![r] = pos[r] + 1] /\ UNCHANGED <<doc, name, seen, tmp, op>>
    BY <1>6 DEF Copy
  <2> QED
    BY <2>1 DEF TypeOK
<1> QED
  BY <1>1, <1>2, <1>3, <1>4, <1>5, <1>6 DEF Step

\* The document a request goes on with is one.
LEMMA ReadDoc ==
    ASSUME TypeOK, NEW r \in Requests, Read(r), pc'[r] = "write"
    PROVE  doc'[r] \in Docs
<1>1. PICK d \in Docs \cup {Torn} :
         \/ Answer(r, Show(d, op[r]))
         \/ Answer(r, "error")
         \/ op[r].kind = "change" /\ ~Refused(d, op[r]) /\ doc' = [doc EXCEPT ![r] = Edit(d, op[r]).val]
  BY Zenon DEF Read
<1>2. ~ \E a : Answer(r, a)
  BY Zenon DEF Answer, Goto, TypeOK
<1>3. op[r].kind = "change" /\ ~Refused(d, op[r]) /\ doc' = [doc EXCEPT ![r] = Edit(d, op[r]).val]
  BY Zenon, <1>1, <1>2
<1>4. d \in Docs /\ ~Edit(d, op[r]).err
  BY Zenon, <1>3 DEF Refused
<1>5. Edit(d, op[r]).val \in Docs
  BY Zenon, <1>3, <1>4, DocsAssumption DEF TypeOK
<1> QED
  BY <1>3, <1>5 DEF TypeOK

LEMMA NextRequests == IInv /\ [Next]_vars => \A q \in Requests : (OwnTemp(q) /\ Progress(q))'
<1> SUFFICES ASSUME IInv, [Next]_vars, NEW q \in Requests PROVE (OwnTemp(q) /\ Progress(q))'
  BY Zenon
<1>0. TypeOK /\ OwnTemp(q) /\ Progress(q)
  BY Zenon DEF IInv
<1>1. CASE UNCHANGED vars
  BY Zenon, <1>0, <1>1 DEF vars, OwnTemp, Progress
<1>2. CASE Crash
  BY Zenon, <1>0, <1>2 DEF Crash, OwnTemp, Progress, TypeOK
<1>3. ASSUME NEW r \in Requests, Step(r), q # r PROVE (OwnTemp(q) /\ Progress(q))'
  <2>1. /\ pc'[q] = pc[q] /\ doc'[q] = doc[q] /\ name'[q] = name[q] /\ seen'[q] = seen[q] /\ pos'[q] = pos[q]
        /\ \A n \in Names : tmp[n] # None => tmp'[n] = tmp[n]
    BY <1>0, <1>3, PcSteps, OthersKept
  <2> QED
    BY Zenon, <1>0, <2>1, DocsAssumption DEF OwnTemp, Progress
<1>4. CASE Step(q)
  <2>1. Begin(q) => doc' = doc /\ seen' = seen /\ pc'[q] \in {"read", "done"} /\ pc[q] = "idle"
    BY Zenon, <1>0, <1>4, PcSteps DEF Begin
  <2>2. Begin(q) => (OwnTemp(q) /\ Progress(q))'
    BY Zenon, <1>0, <2>1 DEF OwnTemp, Progress
  <2>3. CASE Read(q) \/ ReadOther(q)
    <3>1. pc'[q] \in {"write", "done"}
      BY Zenon, <1>0, <1>4, <2>3, PcSteps DEF Read, ReadOther
    <3>2. pc'[q] = "write" => Read(q)
      BY Zenon, <1>0, <2>3 DEF ReadOther, Answer, Goto, TypeOK
    <3> QED
      BY Zenon, <1>0, <3>1, <3>2, ReadDoc DEF OwnTemp, Progress
  <2>4. CASE WriteTemp(q)
    <3>1. PICK n \in Names : tmp' = [tmp EXCEPT ![n] = doc[q]] /\ name' = [name EXCEPT ![q] = n] /\ doc' = doc
      BY Zenon, <2>4 DEF WriteTemp, WriteTo
    <3>2. pc[q] = "write" /\ pc' = [pc EXCEPT ![q] = "sync"]
      BY Zenon, <2>4 DEF WriteTemp, WriteTo, Goto
    <3> QED
      BY Zenon, <1>0, <3>1, <3>2 DEF OwnTemp, Progress, TypeOK
  <2>5. CASE WriteTempFails(q) \/ CopyFails(q)
    <3>1. pc'[q] = "done"
      BY Zenon, <1>0, <2>5 DEF WriteTempFails, CopyFails, Answer, Goto, TypeOK
    <3> QED
      BY Zenon, <3>1 DEF OwnTemp, Progress
  <2>6. CASE Sync(q)
    <3>1. pc[q] = "sync" /\ pc'[q] \in {"create", "done"}
      BY Zenon, <1>0, <1>4, <2>6, PcSteps DEF Sync, Accepts, Refuses
    <3>2. UNCHANGED <<doc, name, tmp>>
      BY Zenon, <2>6 DEF Sync, Accepts, Refuses, store
    <3> QED
      BY Zenon, <1>0, <3>1, <3>2 DEF OwnTemp, Progress
  <2>7. CASE Create(q)
    <3>1. pc[q] = "create" /\ pc'[q] \in {"copy", "done"} /\ UNCHANGED <<doc, name, tmp>>
      BY Zenon, <1>0, <1>4, <2>7, PcSteps DEF Create, CreateOr
    <3>2. pc'[q] = "copy" => pos'[q] = 0
      BY Zenon, <1>0, <2>7 DEF Create, CreateOr, Answer, Goto, TypeOK
    <3> QED
      BY SMTT(30), <1>0, <3>1, <3>2, ChunksFacts DEF OwnTemp, Progress
  <2>8. CASE Copy(q)
    <3>1. pc[q] = "copy" /\ pc'[q] \in {"copy", "done"} /\ UNCHANGED <<doc, name, tmp>>
      BY Zenon, <1>0, <1>4, <2>8, PcSteps DEF Copy
    <3>2. pos'[q] = pos[q] + 1 /\ pos[q] \in Nat /\ pos[q] < Chunks
      BY <1>0, <2>8, ChunksFacts DEF Copy, TypeOK, Progress
    <3>3. pc'[q] = "copy" => pos[q] + 1 # Chunks
      BY Zenon, <1>0, <2>8 DEF Copy, Answer, Goto, TypeOK
    <3> QED
      BY <1>0, <3>1, <3>2, <3>3, ChunksFacts DEF OwnTemp, Progress
  <2> QED
    BY Zenon, <1>4, <2>2, <2>3, <2>4, <2>5, <2>6, <2>7, <2>8 DEF Step
<1> QED
  BY Zenon, <1>1, <1>2, <1>3, <1>4 DEF Next

-----------------------------------------------------------------------------
\* The three things a step of r can do to the settings file.
Untouched(r) ==
    /\ file' = file
    /\ pc'[r] # "copy"
    /\ cutShort \subseteq cutShort'
    /\ pc[r] = "copy" => r \in cutShort'

Truncated(r) ==
    /\ pc[r] = "create" /\ pc'[r] = "copy"
    /\ file' = [i \in 1..Chunks |-> Hole]
    /\ pos'[r] = 0
    /\ cutShort' = cutShort \cup {q \in Requests : pc[q] = "copy"}

Copied(r) ==
    /\ pc[r] = "copy"
    /\ pc'[r] = "copy" \/ pos[r] + 1 = Chunks
    /\ file' = [file EXCEPT ![pos[r] + 1] = doc[r]]
    /\ pos'[r] = pos[r] + 1
    /\ cutShort' = cutShort

LEMMA FileSteps ==
    ASSUME IInv, NEW r \in Requests, Step(r)
    PROVE  Untouched(r) \/ Truncated(r) \/ Copied(r)
<1>0. TypeOK
  BY DEF IInv
<1>1. CASE Begin(r) \/ Read(r) \/ ReadOther(r) \/ WriteTemp(r) \/ WriteTempFails(r) \/ Sync(r)
  <2>1. file' = file /\ cutShort' = cutShort
    BY ZenonT(60), <1>1 DEF Begin, Read, ReadOther, WriteTemp, WriteTo, WriteTempFails, Sync, Accepts, Refuses, store
  <2>2. pc[r] \in {"idle", "read", "write", "sync"}
    BY Zenon, <1>1 DEF Begin, Read, ReadOther, WriteTemp, WriteTo, WriteTempFails, Sync, Accepts, Refuses
  <2> QED
    BY Zenon, <1>0, <2>1, <2>2, PcSteps DEF Untouched
<1>2. CASE Create(r)
  <2>1. CASE /\ file' = [i \in 1..Chunks |-> Hole]
             /\ pos' = [pos EXCEPT ![r] = 0]
             /\ cutShort' = cutShort \cup {q \in Requests : pc[q] = "copy"}
             /\ Goto(r, "copy")
    BY Zenon, <1>0, <1>2, <2>1 DEF Truncated, Goto, Create, CreateOr, TypeOK
  <2>2. CASE Answer(r, "error") /\ UNCHANGED <<file, pos, cutShort>>
    BY Zenon, <1>0, <1>2, <2>2 DEF Untouched, Goto, Answer, Create, CreateOr, TypeOK
  <2> QED
    BY Zenon, <1>2, <2>1, <2>2 DEF Create, CreateOr
<1>3. CASE Copy(r)
  <2>1. tmp[name[r]] = doc[r]
    BY Zenon, <1>3 DEF IInv, OwnTemp, Copy
  <2>2. pc'[r] = "copy" \/ pos[r] + 1 = Chunks
    BY Zenon, <1>3 DEF Copy
  <2> QED
    BY Zenon, <1>0, <1>3, <2>1, <2>2 DEF Copied, Copy, TypeOK
<1>4. CASE CopyFails(r)
  <2>1. file' = file /\ cutShort' = cutShort \cup {r} /\ pc' = [pc EXCEPT ![r] = "done"]
    BY Zenon, <1>4 DEF CopyFails, Goto, Answer
  <2> QED
    BY Zenon, <1>0, <2>1 DEF Untouched, TypeOK
<1> QED
  BY Zenon, <1>1, <1>2, <1>3, <1>4 DEF Step

\* Only sync-settings changes what is accepted and in force.
LEMMA SyncSteps ==
    ASSUME TypeOK, NEW r \in Requests, Step(r)
    PROVE  Accepts(r, "create") \/ (UNCHANGED <<accepted, current, alone>> /\ pc'[r] # "create")
<1>1. CASE Accepts(r, "create")
  BY Zenon, <1>1
<1>2. CASE Refuses(r)
  BY Zenon, <1>2 DEF Refuses, Answer, Goto, store, TypeOK
<1>3. CASE Begin(r) \/ Read(r) \/ ReadOther(r) \/ WriteTemp(r) \/ WriteTempFails(r) \/ Create(r) \/ Copy(r) \/ CopyFails(r)
  <2>1. UNCHANGED <<accepted, current, alone>>
    BY Zenon, <1>3 DEF Begin, Read, ReadOther, WriteTemp, WriteTo, WriteTempFails, Create, CreateOr, Copy,
                       CopyFails, store
  <2>2. pc[r] # "sync"
    BY Zenon, <1>3 DEF Begin, Read, ReadOther, WriteTemp, WriteTo, WriteTempFails, Create, CreateOr, Copy,
                          CopyFails
  <2> QED
    BY Zenon, <2>1, <2>2, PcSteps
<1> QED
  BY Zenon, <1>1, <1>2, <1>3 DEF Step, Sync

\* A request keeps its document once it is to be saved.
LEMMA DocKept ==
    ASSUME TypeOK, NEW r \in Requests, Step(r), NEW q \in Requests, Saving(q)'
    PROVE  doc'[q] = doc[q] /\ (Saving(q) \/ (q = r /\ pc[r] = "sync" /\ Accepts(r, "create")))
<1>1. CASE q # r
  BY <1>1, PcSteps, OthersKept DEF Saving
<1>2. CASE q = r
  <2>1. pc[r] \in {"sync", "create", "copy"}
    BY Zenon, <1>2, PcSteps DEF Saving
  <2>2. doc' = doc
    BY Zenon, <2>1 DEF Step, Begin, Read, ReadOther, WriteTemp, WriteTo, WriteTempFails, Sync, Accepts, Refuses,
                       Create, CreateOr, Copy, CopyFails, store
  <2>3. pc[r] = "sync" => Accepts(r, "create")
    BY Zenon, <1>2, PcSteps, SyncSteps DEF Saving
  <2> QED
    BY Zenon, <1>2, <2>1, <2>2, <2>3 DEF Saving
<1> QED
  BY Zenon, <1>1, <1>2

LEMMA CrashSaving == ASSUME Crash, TypeOK PROVE \A q \in Requests : ~Saving(q)'
  BY Zenon DEF Crash, Saving, TypeOK

-----------------------------------------------------------------------------
LEMMA NextAccepted == IInv /\ [Next]_vars => Accepted'
<1> SUFFICES ASSUME IInv, [Next]_vars PROVE Accepted'
  OBVIOUS
<1>0. TypeOK /\ Accepted
  BY Zenon DEF IInv
<1>1. CASE UNCHANGED vars
  BY Zenon, <1>0, <1>1 DEF vars, Accepted, Saving
<1>2. CASE Crash
  <2>1. UNCHANGED <<file, accepted>>
    BY Zenon, <1>2 DEF Crash
  <2> QED
    BY Zenon, <1>0, <1>2, <2>1, CrashSaving DEF Accepted
<1>3. ASSUME NEW r \in Requests, Step(r) PROVE Accepted'
  <2>1. accepted \subseteq accepted' /\ (Accepts(r, "create") => doc[r] \in accepted')
    BY Zenon, <1>0, <1>3, SyncSteps DEF Accepts, IInv, OwnTemp
  <2>2. \A q \in Requests : Saving(q)' => doc'[q] \in accepted'
    BY Zenon, <1>0, <1>3, <2>1, DocKept DEF Accepted
  <2>3. Untouched(r) \/ Truncated(r) => \A i \in 1..Chunks : file'[i] # Hole => file'[i] \in accepted'
    BY Zenon, <1>0, <2>1 DEF Untouched, Truncated, Accepted
  <2>4. ASSUME Copied(r) PROVE \A i \in 1..Chunks : file'[i] # Hole => file'[i] \in accepted'
    <3>1. doc[r] \in accepted'
      BY Zenon, <1>0, <2>1, <2>4 DEF Copied, Accepted, Saving
    <3> QED
      BY Zenon, <1>0, <2>1, <2>4, <3>1 DEF Copied, Accepted, TypeOK
  <2> QED
    BY Zenon, <1>3, <2>2, <2>3, <2>4, FileSteps DEF Accepted
<1> QED
  BY Zenon, <1>1, <1>2, <1>3 DEF Next

LEMMA NextAlone == IInv /\ [Next]_vars => Alone'
<1> SUFFICES ASSUME IInv, [Next]_vars PROVE Alone'
  OBVIOUS
<1>0. TypeOK /\ Alone
  BY Zenon DEF IInv
<1>1. CASE UNCHANGED vars
  BY Zenon, <1>0, <1>1 DEF vars, Alone, Saving
<1>2. CASE Crash
  BY Zenon, <1>0, <1>2, CrashSaving DEF Alone
<1>3. ASSUME NEW r \in Requests, Accepts(r, "create"), Step(r) PROVE Alone'
  <2>1. current' = doc[r] /\ doc' = doc
    BY Zenon, <1>3 DEF Accepts, IInv, OwnTemp
  <2>2. \A q \in Requests \ {r} : pc'[q] = pc[q]
    BY Zenon, <1>0, <1>3, PcSteps
  <2>3. \A q \in Requests : (q \in alone' /\ Saving(q)') => q = r /\ \A p \in Requests : ~Saving(p)
    BY Zenon, <1>3, <2>2 DEF Accepts, Saving
  <2> QED
    BY Zenon, <2>1, <2>2, <2>3 DEF Alone, Saving
<1>4. ASSUME NEW r \in Requests, Step(r), UNCHANGED <<accepted, current, alone>>, pc'[r] # "create" PROVE Alone'
  <2>1. \A q \in Requests : Saving(q)' => Saving(q) /\ doc'[q] = doc[q]
    BY <1>0, <1>4, DocKept, PcSteps DEF Accepts, Goto, TypeOK
  <2> QED
    BY ZenonT(60), <1>0, <1>4, <2>1 DEF Alone
<1> QED
  BY Zenon, <1>0, <1>1, <1>2, <1>3, <1>4, SyncSteps DEF Next

LEMMA NextOneCopy == IInv /\ [Next]_vars => OneCopy'
<1> SUFFICES ASSUME IInv, [Next]_vars PROVE OneCopy'
  OBVIOUS
<1>0. TypeOK /\ OneCopy
  BY Zenon DEF IInv
<1>1. CASE UNCHANGED vars
  BY Zenon, <1>0, <1>1 DEF vars, OneCopy
<1>2. CASE Crash
  BY Zenon, <1>0, <1>2, CrashSaving DEF OneCopy, Saving
<1>3. ASSUME NEW r \in Requests, Step(r) PROVE OneCopy'
  <2>1. \A q \in Requests \ {r} : pc'[q] = pc[q]
    BY Zenon, <1>0, <1>3, PcSteps
  <2>2. CASE Untouched(r)
    BY Zenon, <1>0, <2>1, <2>2 DEF Untouched, OneCopy
  <2>3. CASE Truncated(r)
    BY Zenon, <1>0, <2>1, <2>3 DEF Truncated, OneCopy
  <2>4. CASE Copied(r)
    BY Zenon, <1>0, <2>1, <2>4 DEF Copied, OneCopy
  <2> QED
    BY Zenon, <1>3, <2>2, <2>3, <2>4, FileSteps
<1> QED
  BY <1>1, <1>2, <1>3 DEF Next

LEMMA NextPrefix == IInv /\ [Next]_vars => Prefix'
<1> SUFFICES ASSUME IInv, [Next]_vars PROVE Prefix'
  OBVIOUS
<1>0. TypeOK /\ Prefix /\ Alone /\ OneCopy
  BY Zenon DEF IInv
<1>1. CASE UNCHANGED vars
  BY Zenon, <1>0, <1>1 DEF vars, Prefix
<1>2. CASE Crash
  BY Zenon, <1>0, <1>2, CrashSaving DEF Prefix, Saving
<1>3. ASSUME NEW r \in Requests, Step(r) PROVE Prefix'
  <2> SUFFICES ASSUME NEW q \in Requests, pc'[q] = "copy", q \in alone' \/ cutShort' = {}
               PROVE  \A i \in 1..pos'[q] : file'[i] = doc'[q]
    BY Zenon DEF Prefix
  <2>1. doc'[q] = doc[q] /\ (q # r => pc[q] = "copy" /\ pos'[q] = pos[q])
    BY SMTT(30), <1>0, <1>3, DocKept, PcSteps, OthersKept DEF Saving
  <2>2. q # r \/ pc[r] # "sync" => alone' \subseteq alone \cup {r} /\ (q \in alone' => q \in alone)
    BY Zenon, <1>0, <1>3, SyncSteps DEF Accepts
  <2>3. CASE Untouched(r)
    <3>1. q # r /\ pc[q] = "copy" /\ (q \in alone \/ cutShort = {})
      BY Zenon, <2>1, <2>2, <2>3 DEF Untouched
    <3> QED
      BY Zenon, <1>0, <2>1, <2>3, <3>1 DEF Untouched, Prefix
  <2>4. CASE Truncated(r)
    <3>1. q = r
      BY Zenon, <1>0, <2>1, <2>2, <2>4 DEF Truncated, Alone, Saving
    <3> QED
      BY <2>4, <3>1 DEF Truncated
  <2>5. CASE Copied(r)
    <3>1. q \in alone \/ cutShort = {}
      BY Zenon, <2>2, <2>5 DEF Copied
    <3>2. q = r
      BY Zenon, <1>0, <2>1, <2>5, <3>1 DEF Copied, Alone, OneCopy, Saving
    <3>3. pos[r] \in Nat /\ pos[r] < Chunks
      BY <1>0, <2>5, ChunksFacts DEF Copied, TypeOK, IInv, Progress
    <3>4. \A i \in 1..pos[r] : file[i] = doc[r]
      BY Zenon, <1>0, <2>5, <3>1, <3>2 DEF Copied, Prefix
    <3> QED
      BY <1>0, <2>1, <2>5, <3>2, <3>3, <3>4, ChunksFacts DEF Copied, TypeOK
  <2> QED
    BY Zenon, <1>3, <2>3, <2>4, <2>5, FileSteps
<1> QED
  BY <1>1, <1>2, <1>3 DEF Next

LEMMA NextTorn == IInv /\ [Next]_vars => TornOnlyByInterruptedSave'
<1> SUFFICES ASSUME IInv, [Next]_vars PROVE TornOnlyByInterruptedSave'
  OBVIOUS
<1>0. TypeOK /\ TornOnlyByInterruptedSave
  BY Zenon DEF IInv
<1>1. CASE UNCHANGED vars
  BY Zenon, <1>0, <1>1 DEF vars, TornOnlyByInterruptedSave, Whole
<1>2. CASE Crash
  <2>1. file' = file /\ cutShort' = cutShort \cup {r \in Requests : pc[r] = "copy"}
    BY Zenon, <1>2 DEF Crash
  <2> QED
    BY Zenon, <1>0, <2>1 DEF TornOnlyByInterruptedSave, Whole
<1>3. ASSUME NEW r \in Requests, Step(r) PROVE TornOnlyByInterruptedSave'
  <2>1. \A q \in Requests \ {r} : pc'[q] = pc[q]
    BY <1>0, <1>3, PcSteps
  <2>2. CASE Untouched(r)
    BY Zenon, <1>0, <2>1, <2>2 DEF Untouched, TornOnlyByInterruptedSave, Whole
  <2>3. CASE Truncated(r)
    BY Zenon, <2>3 DEF Truncated, TornOnlyByInterruptedSave
  <2>4. CASE Copied(r)
    <3> SUFFICES ASSUME cutShort' = {}, pc'[r] # "copy" PROVE Whole(file)'
      BY Zenon DEF TornOnlyByInterruptedSave
    <3>1. pos[r] \in Nat /\ pos[r] + 1 = Chunks /\ cutShort = {}
      BY <1>0, <2>4, ChunksFacts DEF Copied, TypeOK
    <3>2. \A i \in 1..pos[r] : file[i] = doc[r]
      BY Zenon, <2>4, <3>1 DEF Copied, Prefix, IInv
    <3>3. doc[r] \in Docs
      BY Zenon, <2>4 DEF Copied, IInv, OwnTemp
    <3>4. \A i \in 1..Chunks : file'[i] = doc[r]
      BY <1>0, <2>4, <3>1, <3>2, ChunksFacts DEF Copied, TypeOK
    <3> QED
      BY Zenon, <3>3, <3>4 DEF Whole
  <2> QED
    BY <1>3, <2>2, <2>3, <2>4, FileSteps
<1> QED
  BY <1>1, <1>2, <1>3 DEF Next

LEMMA NextAnswer == IInv /\ [Next]_vars => (answer = [r \in Requests |-> answer[r]])'
<1> SUFFICES ASSUME IInv, [Next]_vars PROVE (answer = [r \in Requests |-> answer[r]])'
  BY Zenon
<1>0. answer = [r \in Requests |-> answer[r]]
  BY Zenon DEF IInv
<1>1. answer' = answer \/ \E r \in Requests : \E a : answer' = [answer EXCEPT ![r] = a]
  <2>1. CASE UNCHANGED vars \/ Crash
    BY Zenon, <2>1 DEF vars, Crash
  <2>2. ASSUME NEW r \in Requests, Step(r) PROVE answer' = answer \/ \E a : answer' = [answer EXCEPT ![r] = a]
    BY <2>2, Zenon DEF Step, Begin, Read, ReadOther, WriteTemp, WriteTo, WriteTempFails, Sync, Accepts, Refuses,
             Create, CreateOr, Copy, CopyFails, Answer
  <2> QED
    BY Zenon, <2>1, <2>2 DEF Next
<1> QED
  BY Zenon, <1>0, <1>1

LEMMA NextIInv == IInv /\ [Next]_vars => IInv'
  BY Zenon, NextTypeOK, NextAnswer, NextRequests, NextAccepted, NextAlone, NextOneCopy, NextPrefix, NextTorn DEF IInv

LEMMA Invariance == Spec => []IInv
  BY InitIInv, NextIInv, PTL DEF Spec

-----------------------------------------------------------------------------
\* Type correctness of the settings service.
THEOREM SettingsTypeCorrect == Spec => []TypeOK
<1>1. IInv => TypeOK
  BY DEF IInv
<1> QED
  BY <1>1, Invariance, PTL

\* Errors before the copy never damage settings.json: it is incomplete only
\* during a copy, or after one that failed, was cut off or overlapped another.
THEOREM TornNeedsCause == Spec => []TornOnlyByInterruptedSave
<1>1. IInv => TornOnlyByInterruptedSave
  BY DEF IInv
<1> QED
  BY <1>1, Invariance, PTL

\* A save that answers OK and was not overlapped since its sync-settings is in
\* the file, complete, and in force.
THEOREM SavedWhenOk == Spec => OkMeansSaved
<1> DEFINE Saved(r) ==
      ("ok" \in answer'[r] /\ "ok" \notin answer[r] /\ op[r].kind = "change" /\ r \in alone)
         => current' = doc[r] /\ \A i \in 1..Chunks : file'[i] = doc[r]
<1>1. IInv /\ [Next]_vars => [\A r \in Requests : Saved(r)]_vars
  <2> SUFFICES ASSUME IInv, Next, NEW q \in Requests, "ok" \in answer'[q], "ok" \notin answer[q],
                      op[q].kind = "change", q \in alone
               PROVE  current' = doc[q] /\ \A i \in 1..Chunks : file'[i] = doc[q]
    BY DEF vars
  <2>0. TypeOK /\ answer = [r \in Requests |-> answer[r]]
    BY ZenonT(60) DEF IInv
  <2>1. ~Crash
    BY Zenon DEF Crash
  <2>2. PICK r \in Requests : Step(r)
    BY Zenon, <2>1 DEF Next
  <2>3. ~(Begin(r) \/ WriteTemp(r) \/ WriteTempFails(r) \/ Sync(r) \/ Create(r) \/ CopyFails(r))
    BY <2>0 DEF Begin, WriteTemp, WriteTo, WriteTempFails, Sync, Accepts, Refuses, Create, CreateOr, CopyFails, Answer
  <2>4. ~(Read(r) \/ ReadOther(r))
    <3>1. (\E a : Answer(r, a)) => q = r
      BY Zenon, <2>0 DEF Answer
    <3>2. ReadOther(r) => (\E a : Answer(r, a)) /\ op[r].from # "settings"
      BY Zenon DEF ReadOther
    <3>3. op[q].from = "settings"
      BY Zenon, <2>0, DocsAssumption DEF TypeOK
    <3>4. Read(r) => answer' = answer \/ Answer(r, "error") \/ (op[r].kind = "read" /\ \E a : Answer(r, a))
      BY Zenon DEF Read
    <3>5. ~Answer(r, "error")
      BY <2>0 DEF Answer
    <3> QED
      BY Zenon, <3>1, <3>2, <3>3, <3>4, <3>5
  <2>5. Copy(r) /\ q = r /\ pos[r] + 1 = Chunks
    BY Zenon, <2>0, <2>2, <2>3, <2>4 DEF Step, Copy, Answer
  <2>6. pos[r] \in Nat /\ \A i \in 1..pos[r] : file[i] = doc[r]
    BY <2>0, <2>5 DEF IInv, Prefix, Copy, TypeOK
  <2>7. file' = [file EXCEPT ![pos[r] + 1] = doc[r]] /\ current' = doc[r]
    BY Zenon, <2>5 DEF IInv, OwnTemp, Alone, Saving, Copy
  <2> QED
    BY SMTT(30), <2>0, <2>5, <2>6, <2>7, ChunksFacts DEF TypeOK
<1> QED
  BY <1>1, Invariance, PTL DEF Spec, OkMeansSaved

-----------------------------------------------------------------------------
\* The file shows an accepted document or none.
LEMMA ShownAccepted == IInv => Shown = Torn \/ Shown \in accepted
<1> SUFFICES ASSUME IInv, Whole(file) PROVE file[1] \in accepted
  BY Zenon DEF Shown
<1>1. file[1] \in Docs
  BY Zenon, ChunksFacts DEF Whole
<1> QED
  BY Zenon, <1>1, ChunksFacts, DocsAssumption DEF IInv, Accepted

LEMMA ShownAcceptedNext == IInv' => (Shown = Torn \/ Shown \in accepted)'
  BY ShownAccepted, PTL

\* A step that leaves the file alone leaves what it shows alone.
LEMMA ShownKept == ASSUME file' = file PROVE Shown' = Shown
  BY Zenon DEF Shown, Whole

LEMMA RefinesNext == IInv /\ IInv' /\ [Next]_vars => [Store!Next]_(Store!svars)
<1> SUFFICES ASSUME IInv, IInv', [Next]_vars PROVE Store!Next \/ UNCHANGED <<Shown, accepted, seen>>
  BY Zenon DEF Store!svars
<1>0. TypeOK
  BY Zenon DEF IInv
<1>1. CASE UNCHANGED vars \/ Crash
  <2>1. UNCHANGED <<file, accepted, seen>>
    BY Zenon, <1>1 DEF vars, Crash
  <2> QED
    BY Zenon, <2>1, ShownKept
<1>2. ASSUME NEW r \in Requests,
             Begin(r) \/ ReadOther(r) \/ WriteTemp(r) \/ WriteTempFails(r) \/ Refuses(r) \/ CopyFails(r)
      PROVE  UNCHANGED <<Shown, accepted, seen>>
  <2>1. UNCHANGED <<file, accepted, seen>>
    BY Zenon, <1>2 DEF Begin, ReadOther, WriteTemp, WriteTo, WriteTempFails, Refuses, CopyFails, store
  <2> QED
    BY ZenonT(60), <2>1, ShownKept
<1>3. ASSUME NEW r \in Requests, Accepts(r, "create") PROVE Store!Next
  <2>1. tmp[name[r]] \in Docs
    BY Zenon, <1>3 DEF IInv, OwnTemp, Accepts
  <2>2. accepted' = accepted \cup {tmp[name[r]]} /\ UNCHANGED <<file, seen>>
    BY Zenon, <1>3 DEF Accepts
  <2>3. Store!Accept(tmp[name[r]])
    BY Zenon, <2>2, ShownKept DEF Store!Accept
  <2> QED
    BY Zenon, <2>1, <2>3 DEF Store!Next
<1>4. ASSUME NEW r \in Requests, Create(r) \/ Copy(r) PROVE Store!Next
  <2>1. UNCHANGED <<accepted, seen>>
    BY Zenon, <1>4 DEF Create, CreateOr, Copy
  <2>2. Shown' = Torn \/ Shown' \in accepted'
    BY Zenon, ShownAcceptedNext
  <2>3. Store!Tear \/ Store!Publish
    BY Zenon, <2>1, <2>2 DEF Store!Tear, Store!Publish
  <2> QED
    BY Zenon, <2>3 DEF Store!Next
<1>5. ASSUME NEW r \in Requests, Read(r) PROVE Store!Next
  <2>1. seen[r] = Unread
    BY Zenon, <1>5 DEF IInv, Progress, Read
  <2>2. PICK d \in Docs \cup {Torn} : Readable(d) /\ seen' = [seen EXCEPT ![r] = d]
    BY Zenon, <1>5 DEF Read
  <2>3. Shown = Torn \/ d = Shown
    BY ZenonT(60), <2>2 DEF Readable
  <2>4. UNCHANGED <<file, accepted>>
    BY ZenonT(60), <1>5 DEF Read, store
  <2>5. Store!Read(r)
    BY Zenon, <2>1, <2>2, <2>3, <2>4, ShownKept DEF Store!Read
  <2> QED
    BY Zenon, <2>5 DEF Store!Next
<1> QED
  BY Zenon, <1>1, <1>2, <1>3, <1>4, <1>5 DEF Next, Step, Sync

\* The settings service implements SettingsStore: under any interleaving of
\* requests and crashes, settings.json shows a document sync-settings accepted,
\* or none, and requests read what it shows.
THEOREM ImplementsStore == Spec => StoreSpec
<1>1. Init => Store!Init
  <2> SUFFICES ASSUME Init PROVE Store!Init
    BY Zenon
  <2>1. Shown = InitialDoc
    BY Zenon, ChunksFacts, DocsAssumption DEF Init, Shown, Whole
  <2> QED
    BY <2>1 DEF Init, Store!Init
<1> QED
  BY <1>1, Invariance, RefinesNext, PTL DEF Spec, StoreSpec, Store!Spec

-----------------------------------------------------------------------------
\* A request that saves does so with the result of its edit of what it read.
Edited(r) ==
    /\ pc[r] = "read" => op[r].bad # "path"
    /\ pc[r] \in {"write", "sync", "create", "copy"} =>
          /\ op[r].bad # "path" /\ op[r].kind = "change"
          /\ seen[r] \in Docs /\ ~Edit(seen[r], op[r]).err /\ doc[r] = Edit(seen[r], op[r]).val

LEMMA ReadEdits ==
    ASSUME TypeOK, NEW r \in Requests, Edited(r), Read(r), pc'[r] # "done"
    PROVE  Edited(r)'
<1>1. PICK d \in Docs \cup {Torn} :
         /\ seen' = [seen EXCEPT ![r] = d]
         /\ \/ Answer(r, Show(d, op[r]))
            \/ Answer(r, "error")
            \/ op[r].kind = "change" /\ ~Refused(d, op[r]) /\ doc' = [doc EXCEPT ![r] = Edit(d, op[r]).val]
                  /\ pc' = [pc EXCEPT ![r] = "write"]
  BY Zenon DEF Read, Goto
<1>2. ~ \E a : Answer(r, a)
  BY DEF Answer, Goto, TypeOK
<1>3. /\ op[r].kind = "change" /\ ~Refused(d, op[r])
      /\ doc' = [doc EXCEPT ![r] = Edit(d, op[r]).val] /\ pc' = [pc EXCEPT ![r] = "write"]
  BY Zenon, <1>1, <1>2
<1>4. d \in Docs /\ ~Edit(d, op[r]).err
  BY Zenon, <1>3 DEF Refused
<1>5. doc'[r] = Edit(d, op[r]).val /\ seen'[r] = d /\ pc'[r] = "write"
  BY Zenon, <1>1, <1>3 DEF TypeOK
<1>6. op' = op /\ op[r].bad # "path"
  BY Zenon DEF Read, Edited
<1> QED
  BY Zenon, <1>3, <1>4, <1>5, <1>6 DEF Edited

LEMMA NextEdited == TypeOK /\ (\A r \in Requests : Edited(r)) /\ [Next]_vars => \A r \in Requests : Edited(r)'
<1> SUFFICES ASSUME TypeOK, \A r \in Requests : Edited(r), [Next]_vars, NEW q \in Requests PROVE Edited(q)'
  OBVIOUS
<1>1. CASE UNCHANGED vars
  BY Zenon, <1>1 DEF vars, Edited
<1>2. CASE Crash
  <2>1. pc'[q] \in {"idle", "done", "gone"}
    BY <1>2 DEF Crash
  <2> QED
    BY Zenon, <2>1 DEF Edited
<1>3. ASSUME NEW r \in Requests, Step(r), q # r PROVE Edited(q)'
  <2>1. pc'[q] = pc[q] /\ doc'[q] = doc[q] /\ seen'[q] = seen[q] /\ op' = op
    BY <1>3, PcSteps, OthersKept
  <2> QED
    BY Zenon, <2>1 DEF Edited
<1>4. CASE Step(q)
  <2>1. CASE pc'[q] = "done"
    BY Zenon, <2>1 DEF Edited
  <2>2. CASE Begin(q) /\ pc'[q] # "done"
    <3>1. op' = op /\ pc'[q] = "read"
      BY Zenon, <1>4, <2>2, PcSteps DEF Begin
    <3>2. op[q].bad # "path"
      BY Zenon, <2>2 DEF Begin, Answer, Goto, TypeOK
    <3> QED
      BY Zenon, <3>1, <3>2 DEF Edited
  <2>3. CASE Read(q) /\ pc'[q] # "done"
    BY Zenon, <2>3, ReadEdits
  <2>4. ReadOther(q) => pc'[q] = "done"
    BY DEF ReadOther, Answer, Goto, TypeOK
  <2>5. CASE ~Begin(q) /\ ~Read(q) /\ ~ReadOther(q) /\ pc'[q] # "done"
    <3>1. UNCHANGED <<op, doc, seen>> /\ pc[q] \in {"write", "sync", "create", "copy"}
      BY Zenon, <1>4, <2>5 DEF Step, WriteTemp, WriteTo, WriteTempFails, Sync, Accepts, Refuses, Create, CreateOr,
                               Copy, CopyFails, store
    <3>2. pc'[q] \in {"sync", "create", "copy"}
      BY Zenon, <1>4, <2>5, <3>1, PcSteps
    <3> QED
      BY Zenon, <3>1, <3>2 DEF Edited
  <2> QED
    BY Zenon, <2>1, <2>2, <2>3, <2>4, <2>5
<1> QED
  BY Zenon, <1>1, <1>2, <1>3, <1>4 DEF Next

\* What the edit of any document at any path does to any other.
LEMMA EditFound ==
    ASSUME NEW d \in Docs, NEW o \in Ops, o.kind = "change", o.bad # "path", ~Edit(d, o).err
    PROVE  LET found == getSettingsFromJSON(Edit(d, o).val, o.path)
           IN /\ o.verb = "set" => found = Ok(o.value)
              /\ o.verb = "trim" => IF o.path = <<>> THEN Edit(d, o).val = d ELSE found.err \/ found.val = Null
              /\ \A q \in Paths : Apart(d, o.path, q) =>
                    getSettingsFromJSON(Edit(d, o).val, q) = getSettingsFromJSON(d, q)
<1>1. o.path \in Seq(STRING) /\ o.verb \in {"set", "trim"} /\ IsMap(d)
  BY Zenon, PathsAssumption, DocsAssumption
<1> DEFINE p == o.path
<1>2. Len(p) \in Nat /\ (p = <<>> <=> Len(p) = 0) /\ \A q \in Paths : Len(q) \in Nat
  BY <1>1, PathsAssumption
<1>3. CASE o.verb = "set"
  <2> DEFINE v == o.value
  <2>1. ~setSettingsInJSON(d, p, v).err /\ Edit(d, o).val = setSettingsInJSON(d, p, v).val
    BY Zenon, <1>3 DEF Edit, Fail
  <2> HIDE DEF p, v
  <2>2. getSettingsFromJSON(Edit(d, o).val, p) = Ok(v)
    BY Zenon, <1>2, <2>1, SetFound
  <2>3. \A q \in Paths : Apart(d, p, q) => getSettingsFromJSON(Edit(d, o).val, q) = getSettingsFromJSON(d, q)
    BY <1>2, <2>1, SetElsewhere
  <2> QED
    BY Zenon, <1>3, <2>2, <2>3 DEF p, v
<1>4. CASE o.verb = "trim" /\ p = <<>>
  <2>1. Edit(d, o).val = d
    BY Zenon, <1>4 DEF Edit, TrimInJSON, Ok
  <2> QED
    BY Zenon, <1>4, <2>1
<1>5. CASE o.verb = "trim" /\ p # <<>>
  <2>1. ~TrimInJSON(d, p).err /\ Edit(d, o).val = TrimInJSON(d, p).val
    BY Zenon, <1>5 DEF Edit
  <2>2. p # <<>> /\ Len(p) \in Nat \ {0}
    BY Zenon, <1>1, <1>2, <1>5
  <2> HIDE DEF p
  <2>3. LET found == getSettingsFromJSON(Edit(d, o).val, p) IN found.err \/ found.val = Null
    BY Zenon, <2>1, <2>2, TrimFound
  <2>4. \A q \in Paths : Apart(d, p, q) => getSettingsFromJSON(Edit(d, o).val, q) = getSettingsFromJSON(d, q)
    BY <1>1, <1>2, <2>1, <2>2, TrimElsewhere
  <2> QED
    BY Zenon, <1>5, <2>2, <2>3, <2>4 DEF p
<1> QED
  BY Zenon, <1>1, <1>3, <1>4, <1>5

\* What a request saves is what it read with the setting at its path set to the
\* value asked for, or trimmed, and the settings on other branches as they were,
\* and is just what it read after a trim with an empty path: SetSettingsFile and
\* TrimSettingsFile for every document and path.
THEOREM SavesItsEdit == Spec => []OnlyThePathChanges
<1>1. Init => \A r \in Requests : Edited(r)
  BY Zenon DEF Init, Edited
<1>2. IInv /\ (\A r \in Requests : Edited(r)) /\ [Next]_vars => (\A r \in Requests : Edited(r))'
  BY NextEdited DEF IInv
<1>3. IInv /\ (\A r \in Requests : Edited(r)) => OnlyThePathChanges
  <2> SUFFICES ASSUME TypeOK, NEW r \in Requests, Edited(r), pc[r] \in {"write", "sync", "create", "copy"}
               PROVE  LET path == op[r].path
                          found == getSettingsFromJSON(doc[r], path)
                      IN /\ op[r].verb = "set" => found = Ok(op[r].value)
                         /\ op[r].verb = "trim" =>
                               IF path = <<>> THEN doc[r] = seen[r] ELSE found.err \/ found.val = Null
                         /\ \A q \in Paths : Apart(seen[r], path, q) =>
                               getSettingsFromJSON(doc[r], q) = getSettingsFromJSON(seen[r], q)
    BY Zenon DEF IInv, OnlyThePathChanges
  <2> DEFINE o == op[r]
             d == seen[r]
  <2>1. /\ o \in Ops /\ o.kind = "change" /\ o.bad # "path"
        /\ d \in Docs /\ ~Edit(d, o).err /\ doc[r] = Edit(d, o).val
    BY DEF Edited, TypeOK
  <2> HIDE DEF o, d
  <2>2. LET found == getSettingsFromJSON(Edit(d, o).val, o.path)
        IN /\ o.verb = "set" => found = Ok(o.value)
           /\ o.verb = "trim" => IF o.path = <<>> THEN Edit(d, o).val = d ELSE found.err \/ found.val = Null
           /\ \A q \in Paths : Apart(d, o.path, q) =>
                 getSettingsFromJSON(Edit(d, o).val, q) = getSettingsFromJSON(d, q)
    BY Zenon, <2>1, EditFound
  <2> QED
    BY Zenon, <2>1, <2>2 DEF o, d
<1> QED
  BY <1>1, <1>2, <1>3, Invariance, PTL DEF Spec

=============================================================================
