-------------------------------- MODULE Json --------------------------------
(***************************************************************************)
(* The edits of a settings document: settings.go's functions on the value  *)
(* encoding/json makes of the file, for one path of keys.  A node is a     *)
(* map, an array, a value or null.  The recursive calls for a path are     *)
(* numbered from 0: call i has the segments after the first i left.        *)
(***************************************************************************)
EXTENDS Integers, Sequences

CONSTANT Atoi   \* strconv.Atoi: [the keys that are numbers -> Int]

Null == [t |-> "null"]

Val(x) == [t |-> "val", v |-> x]

\* Members by key, and elements by index, which begin at 0.
Obj(members) == [t |-> "obj", m |-> members]

Arr(elements) == [t |-> "arr", e |-> elements]

EmptyMap == Obj(<<>>)

\* A result of a function that returns (object, error).
Fail == [err |-> TRUE, val |-> Null]

Ok(node) == [err |-> FALSE, val |-> node]

IsMap(o) == o.t = "obj"

\* jsonObject[idx] of a map: nil when there is no such member.
Member(o, idx) == IF idx \in DOMAIN o.m THEN o.m[idx] ELSE Null

\* jsonObject[idx] = value, and delete(jsonObject, idx).
With(o, idx, value) == Obj([k \in DOMAIN o.m \cup {idx} |-> IF k = idx THEN value ELSE o.m[k]])

Without(o, idx) == Obj([k \in DOMAIN o.m \ {idx} |-> o.m[k]])

-----------------------------------------------------------------------------
\* An index at or above the capacity is an error.  Between length and capacity,
\* or below 0, the access panics, and gin's recovery makes that a failed request.
InRange(o, idx) == idx \in DOMAIN Atoi /\ Atoi[idx] \in DOMAIN o.e

getArrayIndex(o, idx) == IF InRange(o, idx) THEN Ok(o.e[Atoi[idx]]) ELSE Fail

setArrayIndex(o, idx, value) ==
    IF InRange(o, idx) THEN Ok(Arr([o.e EXCEPT ![Atoi[idx]] = value])) ELSE Fail

getObjectIndex(o, idx) ==
    CASE o.t = "obj" -> Ok(Member(o, idx))
      [] o.t = "arr" -> getArrayIndex(o, idx)
      [] OTHER -> Fail

setObjectIndex(o, idx, value) ==
    CASE o.t = "obj" -> Ok(With(o, idx, value))
      [] o.t = "arr" -> setArrayIndex(o, idx, value)
      [] OTHER -> Fail

-----------------------------------------------------------------------------
\* The objects of the calls of getSettingsFromJSON, and the result as the last.
\* Null on the way is an error, as any value that is neither map nor array.
Objects(o, segments) ==
    LET at[i \in 0..Len(segments)] ==
            IF i = 0 THEN Ok(o)
            ELSE IF at[i - 1].err THEN Fail
            ELSE getObjectIndex(at[i - 1].val, segments[i])
    IN  at

getSettingsFromJSON(o, segments) == Objects(o, segments)[Len(segments)]

\* The maps of the calls of setSettingsInJSON but the last, which has an object
\* of any kind.  A node on the way that is no map is replaced by a map, a missing
\* one made.
AsMap(o) == IF IsMap(o) THEN o ELSE EmptyMap

SetObjects(o, segments) ==
    LET at[i \in 0..(Len(segments) - 1)] ==
            IF i = 0 THEN o
            ELSE LET child == Member(AsMap(at[i - 1]), segments[i])
                 IN  IF child = Null THEN EmptyMap ELSE child
    IN  at

\* What the calls return, with the last one's result given: each puts that of
\* the next into its map.
Results(maps, segments, last) ==
    LET result[i \in 0..(Len(segments) - 1)] ==
            IF i = Len(segments) - 1 THEN last
            ELSE With(maps[i], segments[i + 1], result[i + 1])
    IN  result

setSettingsInJSON(o, segments, value) ==
    LET at == SetObjects(o, segments)
        last == setObjectIndex(at[Len(segments) - 1], segments[Len(segments)], value)
    IN  IF segments = <<>> THEN Ok(value)
        ELSE IF last.err THEN Fail
        ELSE Ok(Results([i \in DOMAIN at |-> AsMap(at[i])], segments, last.val)[0])

\* Mutant of TrimInJSON: the last key is not recognised as such (i = len).
TrimInJSONOff(o, segments) ==
    IF segments # <<>> /\ Member(o, Head(segments)).t \in {"val", "arr"} THEN Fail ELSE Ok(o)

\* The loop of TrimSettingsFile.  It ends early at a node that is missing, and
\* with an error at one that is no map.
TrimInJSON(o, segments) ==
    LET at == Objects(o, segments)
        keys == 1..(Len(segments) - 1)
        maps == [i \in 0..(Len(segments) - 1) |-> at[i].val]
        MapsBelow(n) == \A i \in 1..(n - 1) : IsMap(at[i].val)
    IN  IF segments = <<>> \/ \E n \in keys : MapsBelow(n) /\ at[n].val = Null THEN Ok(o)
        ELSE IF ~MapsBelow(Len(segments)) THEN Fail
        ELSE Ok(Results(maps, segments, Without(maps[Len(segments) - 1], segments[Len(segments)]))[0])

-----------------------------------------------------------------------------
\* Path q leaves path p at a map in document d, and every node above is a map as
\* well; or at the array of which p has another element.
Apart(d, p, q) ==
    \E n \in 1..Len(p) :
        /\ n <= Len(q) /\ \A i \in 1..(n - 1) : p[i] = q[i] /\ IsMap(Objects(d, p)[i - 1].val)
        /\ LET o == Objects(d, p)[n - 1].val
           IN  \/ IsMap(o) /\ p[n] # q[n]
               \/ /\ o.t = "arr" /\ n = Len(p)
                  /\ q[n] \in DOMAIN Atoi => p[n] \in DOMAIN Atoi /\ Atoi[q[n]] # Atoi[p[n]]

=============================================================================
