----------------------------- MODULE MCSettings -----------------------------
(***************************************************************************)
(* The settings service on a small document.  The requests are those of    *)
(* the REST handlers that read or change settings.                         *)
(***************************************************************************)
EXTENDS Settings, TLC

MCAtoi == ("0" :> 0) @@ ("1" :> 1)

Wizard == <<"system", "setupWizard", "completed">>

SystemOriginal == Obj([setupWizard |-> Obj([completed |-> Val(TRUE)])])

Document(system, net) == Obj([system |-> system, net |-> net])

Systems == {SystemOriginal, EmptyMap, Null}

Pair(last) == Arr(0 :> Val(0) @@ 1 :> last)

Nets ==
    {Pair(Obj([x |-> Val(1), y |-> Val(1)])), Pair(Val(2)),
     Obj("1" :> Obj([x |-> Val(0)])), Obj("1" :> Val(2)), EmptyMap}

MCDocs == {Document(s, n) : s \in Systems, n \in Nets}

MCInitialDoc == Document(SystemOriginal, Pair(Obj([x |-> Val(1), y |-> Val(1)])))

\* setSettings, trimSettings.  without: what is wrong with the request.
Change(verb, path, value, without) ==
    [kind |-> "change", from |-> "settings", bad |-> without, verb |-> verb, path |-> path, value |-> value]

Query(verb, from, path) ==
    [kind |-> "read", from |-> from, bad |-> "no", verb |-> verb, path |-> path, value |-> Null]

ChangeOps ==
    {Change("set", <<"net", "1">>, Val(2), "no"),           \* an element of an array, or a member
     Change("set", <<"net", "1", "x">>, Val(0), "no"),      \* the array becomes a map
     Change("set", <<>>, Val(0), "no"),                     \* error: no map is left
     Change("set", <<"system">>, Null, "body"),
     Change("trim", <<"system", "setupWizard">>, Null, "no"),
     Change("trim", <<"net", "1">>, Null, "no"),            \* error while net is an array
     Change("trim", <<>>, Null, "no"),                      \* DELETE /settings/ saves it as it is
     Change("trim", <<>>, Null, "path")}                    \* DELETE /settings is refused

ReadOps ==
    {Query("get", "settings", <<"net", "1">>),
     Query("get", "current", <<"net", "1">>),
     Query("get", "defaults", <<"net", "1">>)}

MCOps == ChangeOps \cup ReadOps

MCPaths ==
    {o.path : o \in MCOps} \cup
    {Wizard, <<"net">>, <<"net", "0">>, <<"net", "1", "y">>, <<"other">>}

Symmetry == Permutations(Requests) \cup Permutations(Names)
=============================================================================
