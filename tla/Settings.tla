------------------------------ MODULE Settings ------------------------------
(***************************************************************************)
(* The settings service behind the REST server: requests that read         *)
(* settings.json, and requests that change it with syncAndSave (write a    *)
(* temporary file, let sync-settings check and apply it, copy it over the  *)
(* settings file).  Requests run at the same time and take no lock; the    *)
(* daemon may die between any two steps and start again.                   *)
(***************************************************************************)
EXTENDS Json

CONSTANTS
    Requests,       \* requests to the REST server
    Ops,            \* what they ask for: [kind, bad, from, verb, path, value]
    Paths,          \* paths into a document
    Docs,           \* settings documents
    InitialDoc,     \* the one on file at first
    Names,          \* names tempFile may find free
    Chunks,         \* number of writes io.Copy makes for a document
    Hole,           \* bytes of the file that are missing
    None,           \* no document, no file
    DefaultDoc,     \* defaults.json
    Torn, Unread    \* see SettingsStore

ASSUME ChunksAssumption == Chunks \in Nat \ {0}

\* SetSettingsFile, which refuses a result that is no map, and TrimSettingsFile
\* between reading the document d and saving what becomes of it.
Edit(d, o) ==
    IF o.verb = "trim" THEN TrimInJSON(d, o.path)
    ELSE LET new == setSettingsInJSON(d, o.path, o.value) IN
         IF ~new.err /\ IsMap(new.val) THEN new ELSE Fail

\* What a request that only reads answers.
Show(d, o) == IF d = Torn \/ getSettingsFromJSON(d, o.path).err THEN "error" ELSE "value"

ASSUME DocsAssumption ==
    /\ InitialDoc \in Docs /\ DefaultDoc \in Docs
    /\ Hole \notin Docs /\ None \notin Docs /\ Torn \notin Docs /\ Unread \notin Docs
    /\ Torn # Unread
    /\ \A o \in Ops : o.kind \in {"change", "read"} /\ (o.kind = "change" => o.from = "settings")
    /\ \A d \in Docs : IsMap(d)
    /\ \A d \in Docs, o \in Ops :
          (o.kind = "change" /\ ~Edit(d, o).err) => Edit(d, o).val \in Docs

ASSUME PathsAssumption ==
    /\ \A p \in Paths : p \in Seq(STRING)
    /\ \A o \in Ops : o.path \in Paths
    /\ \A o \in Ops : o.kind = "change" => o.verb \in {"set", "trim"}

VARIABLES
    file,       \* settings.json: [1..Chunks -> document the chunk is from, or Hole]
    current,    \* current.json, the settings in force, written by sync-settings
    tmp,        \* the temporary files: [Names -> document or None]
    pc,         \* [Requests -> where the request is]
    op,         \* [Requests -> what it asks for]
    doc,        \* [Requests -> its jsonSettings]
    name,       \* [Requests -> its temporary file]
    pos,        \* [Requests -> chunks it has copied]
    answer,     \* [Requests -> the answers written to its connection]
    accepted,   \* history: documents sync-settings accepted
    seen,       \* history: what the request read
    alone,      \* history: the requests since whose sync-settings no other was saved
    cutShort    \* history: the saves that were interrupted, or overlapped by another

vars == <<file, current, tmp, pc, op, doc, name, pos, answer, accepted, seen, alone, cutShort>>

-----------------------------------------------------------------------------
Whole(f) == \E d \in Docs : \A i \in 1..Chunks : f[i] = d

Shown == IF Whole(file) THEN file[1] ELSE Torn

Store == INSTANCE SettingsStore WITH shown <- Shown

Steps == {"idle", "read", "write", "sync", "create", "copy", "done", "gone"}

Saving(r) == pc[r] \in {"create", "copy"}

TypeOK ==
    /\ file \in [1..Chunks -> Docs \cup {Hole}]
    /\ current \in Docs \cup {None}
    /\ tmp \in [Names -> Docs \cup {None}]
    /\ pc \in [Requests -> Steps]
    /\ op \in [Requests -> Ops]
    /\ doc \in [Requests -> Docs \cup {None}]
    /\ name \in [Requests -> Names \cup {None}]
    /\ pos \in [Requests -> 0..Chunks]
    /\ accepted \subseteq Docs
    /\ seen \in [Requests -> Docs \cup {Torn, Unread}]
    /\ alone \subseteq Requests
    /\ cutShort \subseteq Requests

\* The file is one that sync-settings has accepted and applied before.  Old
\* installations have no current.json.
Init ==
    /\ file = [i \in 1..Chunks |-> InitialDoc]
    /\ current \in {InitialDoc, None}
    /\ tmp = [n \in Names |-> None]
    /\ pc = [r \in Requests |-> "idle"]
    /\ op \in [Requests -> Ops]
    /\ doc = [r \in Requests |-> None]
    /\ name = [r \in Requests |-> None]
    /\ pos = [r \in Requests |-> 0]
    /\ answer = [r \in Requests |-> {}]
    /\ accepted = {InitialDoc}
    /\ seen = [r \in Requests |-> Unread]
    /\ alone = {}
    /\ cutShort = {}

-----------------------------------------------------------------------------
Goto(r, step) == pc' = [pc EXCEPT ![r] = step]

\* The handler writes its answer a and returns.
Answer(r, a) ==
    /\ Goto(r, "done")
    /\ answer' = [answer EXCEPT ![r] = answer[r] \cup {a}]

store == <<file, current, tmp, accepted, cutShort>>

\* The URL has no path at all (DELETE /settings): the segments are nil and
\* TrimSettingsFile refuses.  A path without a name in it (DELETE /settings/)
\* has the empty segments, which it takes.  The body is no JSON: setSettings
\* answers with the error, and goes on with the value nil.
Begin(r) ==
    /\ pc[r] = "idle"
    /\ \/ /\ op[r].bad = "path"
          /\ Answer(r, "error")
       \/ /\ op[r].bad # "path"
          /\ Goto(r, "read")
          /\ answer' = [answer EXCEPT ![r] = IF op[r].bad = "body" THEN {"error"} ELSE {}]
    /\ UNCHANGED <<store, op, doc, name, pos, seen, alone>>

\* ReadFile and Unmarshal.  A file with a hole is no JSON.  One made of pieces
\* of two documents may be, and is then any document.
Readable(d) ==
    \/ d = Shown
    \/ Shown = Torn /\ d \in Docs /\ \A i \in 1..Chunks : file[i] # Hole

Refused(d, o) == IF d = Torn THEN TRUE ELSE Edit(d, o).err

\* SetSettingsFile and TrimSettingsFile up to syncAndSave; GetSettingsFile.
Read(r) ==
    /\ pc[r] = "read" /\ op[r].from = "settings"
    /\ \E d \in Docs \cup {Torn} :
          /\ Readable(d)
          /\ seen' = [seen EXCEPT ![r] = d]
          /\ \/ /\ op[r].kind = "read"
                /\ Answer(r, Show(d, op[r]))
                /\ UNCHANGED doc
             \/ /\ op[r].kind = "change" /\ Refused(d, op[r])
                /\ Answer(r, "error")
                /\ UNCHANGED doc
             \/ /\ op[r].kind = "change" /\ ~Refused(d, op[r])
                /\ doc' = [doc EXCEPT ![r] = Edit(d, op[r]).val]
                /\ Goto(r, "write")
                /\ UNCHANGED answer
    /\ UNCHANGED <<store, op, name, pos, alone>>

\* GetCurrentSettings falls back on settings.json; GetDefaultSettings.
ReadOther(r) ==
    /\ pc[r] = "read" /\ op[r].from # "settings"
    /\ \/ /\ op[r].from = "defaults"
          /\ Answer(r, Show(DefaultDoc, op[r]))
       \/ /\ op[r].from = "current" /\ current # None
          /\ Answer(r, Show(current, op[r]))
       \/ /\ op[r].from = "current" /\ current = None
          /\ \E d \in Docs \cup {Torn} : Readable(d) /\ Answer(r, Show(d, op[r]))
    /\ UNCHANGED <<store, op, doc, name, pos, seen, alone>>

WriteTo(r, n) ==
    /\ pc[r] = "write"
    /\ tmp' = [tmp EXCEPT ![n] = doc[r]]
    /\ name' = [name EXCEPT ![r] = n]
    /\ Goto(r, "sync")
    /\ UNCHANGED <<file, current, accepted, cutShort, op, doc, pos, answer, seen, alone>>

\* Mutant of WriteTemp: an existing file of that name is opened and overwritten.
WriteTempShared(r) == \E n \in Names : WriteTo(r, n)

\* tempFile takes a name no file has (O_EXCL); writeSettingsFileJSON.
WriteTemp(r) == \E n \in Names : tmp[n] = None /\ WriteTo(r, n)

\* An error of one of them.  Whether it is returned or, in the writing case,
\* panics on the nil err, the request fails; the temporary file may be left.
WriteTempFails(r) ==
    /\ pc[r] = "write"
    /\ \/ UNCHANGED tmp
       \/ \E n \in Names : tmp[n] = None /\ tmp' = [tmp EXCEPT ![n] = doc[r]]
    /\ Answer(r, "error")
    /\ UNCHANGED <<file, current, accepted, cutShort, op, doc, name, pos, seen, alone>>

Accepts(r, step) ==
    /\ pc[r] = "sync"
    /\ current' = tmp[name[r]]
    /\ accepted' = accepted \cup {tmp[name[r]]}
    /\ alone' = {q \in alone \ {r} : ~Saving(q)} \cup {q \in {r} : \A p \in Requests : ~Saving(p)}
    /\ Goto(r, step)
    /\ UNCHANGED <<file, tmp, cutShort, op, doc, name, pos, answer, seen>>

Refuses(r) ==
    /\ pc[r] = "sync"
    /\ Answer(r, "error")
    /\ UNCHANGED <<store, op, doc, name, pos, seen, alone>>

\* Mutant of Sync: the exit status is ignored.
SyncUnchecked(r) ==
    \/ Accepts(r, "create")
    \/ /\ pc[r] = "sync"
       /\ Goto(r, "create")
       /\ UNCHANGED <<store, op, doc, name, pos, answer, seen, alone>>

\* runSyncSettings: the tool applies the document and says so, or fails.
Sync(r) == Accepts(r, "create") \/ Refuses(r)

CreateOr(r, failed) ==
    /\ pc[r] = "create"
    /\ \/ /\ file' = [i \in 1..Chunks |-> Hole]
          /\ pos' = [pos EXCEPT ![r] = 0]
          /\ cutShort' = cutShort \cup {q \in Requests : pc[q] = "copy"}
          /\ Goto(r, "copy")
          /\ UNCHANGED answer
       \/ /\ Answer(r, failed)
          /\ UNCHANGED <<file, pos, cutShort>>
    /\ UNCHANGED <<current, tmp, accepted, op, doc, name, seen, alone>>

\* Mutant of Create: its error is not returned.
CreateErrorIgnored(r) == CreateOr(r, "ok")

\* os.Create truncates the settings file, or fails.
Create(r) == CreateOr(r, "error")

\* One write of io.Copy; the last one is followed by the answer.
Copy(r) ==
    /\ pc[r] = "copy"
    /\ file' = [file EXCEPT ![pos[r] + 1] = tmp[name[r]]]
    /\ pos' = [pos EXCEPT ![r] = pos[r] + 1]
    /\ IF pos[r] + 1 = Chunks THEN Answer(r, "ok") ELSE UNCHANGED <<pc, answer>>
    /\ UNCHANGED <<current, tmp, accepted, cutShort, op, doc, name, seen, alone>>

CopyFails(r) ==
    /\ pc[r] = "copy"
    /\ Answer(r, "error")
    /\ cutShort' = cutShort \cup {r}
    /\ UNCHANGED <<file, current, tmp, accepted, op, doc, name, pos, seen, alone>>

\* The daemon dies and is started again: the requests under way are gone, the
\* files stay as they are.
Crash ==
    /\ \E r \in Requests : pc[r] \notin {"idle", "done", "gone"}
    /\ pc' = [r \in Requests |-> IF pc[r] \in {"idle", "done"} THEN pc[r] ELSE "gone"]
    /\ cutShort' = cutShort \cup {r \in Requests : pc[r] = "copy"}
    /\ UNCHANGED <<file, current, tmp, accepted, op, doc, name, pos, answer, seen, alone>>

Step(r) ==
    \/ Begin(r) \/ Read(r) \/ ReadOther(r)
    \/ WriteTemp(r) \/ WriteTempFails(r)
    \/ Sync(r) \/ Create(r) \/ Copy(r) \/ CopyFails(r)

Next == Crash \/ \E r \in Requests : Step(r)

Spec == Init /\ [][Next]_vars

-----------------------------------------------------------------------------
\* The service implements its abstract specification: settings.json only ever
\* shows documents sync-settings has accepted, whatever requests overlap and
\* wherever the daemon dies; a request reads what the file shows.
StoreSpec == Store!Spec

\* A save that answers OK, and since whose sync-settings no other save came in
\* between, has its document in settings.json, complete, and in force.
OkMeansSaved ==
    [][\A r \in Requests :
          ("ok" \in answer'[r] /\ "ok" \notin answer[r] /\ op[r].kind = "change" /\ r \in alone)
             => current' = doc[r] /\ \A i \in 1..Chunks : file'[i] = doc[r]]_vars

\* Errors before the copy (no temporary file, sync-settings refuses, Create
\* fails) never damage settings.json.  It is incomplete only while it is copied
\* or after a copy failed, the daemon died during it, or two saves overlapped.
TornOnlyByInterruptedSave ==
    ~Whole(file) => cutShort # {} \/ \E r \in Requests : pc[r] = "copy"

\* The document that a request saves is the one in which the value at its path
\* is the one asked for (or is missing, after a trim), and every setting on
\* another branch is what it was in the document the request read.  A branch
\* below an array is lost if the path leads through the array.  A trim with an
\* empty path saves the document it read.
OnlyThePathChanges ==
    \A r \in Requests : pc[r] \in {"write", "sync", "create", "copy"} =>
        LET path == op[r].path
            found == getSettingsFromJSON(doc[r], path)
        IN /\ op[r].verb = "set" => found = Ok(op[r].value)
           /\ op[r].verb = "trim" =>
                 IF path = <<>> THEN doc[r] = seen[r] ELSE found.err \/ found.val = Null
           /\ \A q \in Paths : Apart(seen[r], path, q) =>
                 getSettingsFromJSON(doc[r], q) = getSettingsFromJSON(seen[r], q)

=============================================================================
