-------------------------- MODULE RegistryProjects --------------------------
(***************************************************************************)
(* handleGetImageRepositoryProjectList (backend/handler/                   *)
(* apihandler_image.go): to the repositories of a namespace it adds the    *)
(* projects of its registries that have none.  One goroutine per binding   *)
(* of a registry adds to the one result.  The maps they share are locked;  *)
(* the slice of the result and its count are not.                          *)
(*                                                                         *)
(* Appending to a slice that is full moves it to a new array.  The words   *)
(* of a slice are stored one after the other, in an order that other       *)
(* goroutines need not agree on.  Only what is added is modelled, with the *)
(* room there was behind the repositories.                                 *)
(***************************************************************************)
EXTENDS Naturals, Sequences

CONSTANTS
  Binding,   \* the bindings of the namespace, each with its goroutine
  Registry,
  Project,
  Suffix,    \* what may follow a project in a path
  Offer,     \* the lists of paths that a binding may name
  Listing,   \* the paths that a registry answers
  Repos,     \* the sets of projects that may have repositories
  Nowhere,   \* an element of an array that no goroutine has written
  Spare      \* how much more than needed a new array may have

Path == Project \X Suffix

ASSUME ProjectsAssumption ==
  /\ Offer \subseteq SUBSET Path /\ Listing \subseteq Path
  /\ Repos \subseteq SUBSET Project
  /\ Nowhere \notin Registry \X Project
  /\ Spare \subseteq Nat /\ Spare # {}

VARIABLES
  bound,     \* the registry of each binding, and what it is for
  had,       \* per registry the projects that have repositories
  vMap,      \* per registry the projects that are, or will be, in the result
  listings,  \* projectMap: the registries whose projects were listed
  arrays,    \* the arrays that the result was ever kept in
  slice,     \* result.Items: its array and its length
  total,     \* result.ListMeta.TotalItems
  worker,    \* the goroutines, with their locals
  alone,     \* no two goroutines have been appending at the same time
  answer     \* "waiting", "written", or "crashed"

projectsVars == <<bound, had, vMap, listings, arrays, slice, total, worker, alone, answer>>
result == <<arrays, slice, total>>

\* A binding for "/" is for all the projects of its registry.
Bound ==
  [registry : Registry, all : {TRUE}, paths : {{}}]
    \cup [registry : Registry, all : {FALSE}, paths : Offer]

Appending == {"write", "store", "count", "increment"}
PC == {"start", "map", "list", "registry", "loop", "append", "done"} \cup Appending

\* projectListFromBinding and what is left of it; the project to add; the slice
\* that append returned and the words of it to store; the count that was read.
Started == [pc |-> "start", paths |-> {}, todo |-> {}, project |-> Nowhere,
            slice |-> [array |-> 1, len |-> 0], words |-> {}, total |-> 0]

working(b, pc) == worker[b].pc = pc
becomes(b, w) == worker' = [worker EXCEPT ![b] = w]
goes(b, pc) == becomes(b, [worker[b] EXCEPT !.pc = pc])
given(b, pc, paths) == [worker[b] EXCEPT !.pc = pc, !.paths = paths, !.todo = paths]

-----------------------------------------------------------------------------
(* Which projects a binding is for.                                        *)

\* vMap.SetNXAndGetMainMap, which changes nothing that is modelled, and what the
\* binding says.
Claim(b) ==
  /\ working(b, "start")
  /\ becomes(b, CASE bound[b].all -> given(b, "map", {})
                  [] bound[b].paths = {} -> given(b, "done", {})
                  [] OTHER -> given(b, "registry", bound[b].paths))
  /\ UNCHANGED <<bound, had, vMap, listings, result, alone, answer>>

\* What was listed for another binding of the registry is taken over.
GetMainMap(b) ==
  /\ working(b, "map")
  /\ becomes(b, IF bound[b].registry \in listings THEN given(b, "registry", Listing)
                                                ELSE given(b, "list", {}))
  /\ UNCHANGED <<bound, had, vMap, listings, result, alone, answer>>

\* The registry is asked; what it answers is kept for the other bindings.
GetProjectList(b) ==
  /\ working(b, "list")
  /\ becomes(b, given(b, "registry", Listing))
  /\ listings' = listings \cup {bound[b].registry}
  /\ UNCHANGED <<bound, had, vMap, result, alone, answer>>

GetImageRegistry(b) ==
  /\ working(b, "registry")
  /\ goes(b, "loop")
  /\ UNCHANGED <<bound, had, vMap, listings, result, alone, answer>>

\* A request fails: the goroutine returns.
RequestFails(b) ==
  /\ working(b, "list") \/ working(b, "registry")
  /\ becomes(b, given(b, "done", {}))
  /\ UNCHANGED <<bound, had, vMap, listings, result, alone, answer>>

-----------------------------------------------------------------------------
(* Adding them.                                                            *)

\* GetSubMap, which tells nobody that the project is taken.
SetNX_get(b, path) ==
  LET g == bound[b].registry
      p == path[1] IN
  /\ working(b, "loop") /\ path \in worker[b].todo
  /\ becomes(b, [worker[b] EXCEPT !.todo = @ \ {path}, !.project = p,
                                  !.pc = IF p \in vMap[g] THEN "loop" ELSE "append"])
  /\ UNCHANGED <<bound, had, vMap, listings, result, alone, answer>>

\* The project of another registry is taken for this one's.
SetNX_anyRegistry(b, path) ==
  LET g == bound[b].registry
      p == path[1] IN
  /\ working(b, "loop") /\ path \in worker[b].todo
  /\ becomes(b, [worker[b] EXCEPT !.todo = @ \ {path}, !.project = p,
                     !.pc = IF \E h \in Registry : p \in vMap[h] THEN "loop" ELSE "append"])
  /\ vMap' = [vMap EXCEPT ![g] = @ \cup {p}]
  /\ UNCHANGED <<bound, had, listings, result, alone, answer>>

\* SetNXAndGetSubMap
SetNX(b, path) ==
  LET g == bound[b].registry
      p == path[1] IN
  /\ working(b, "loop") /\ path \in worker[b].todo
  /\ becomes(b, [worker[b] EXCEPT !.todo = @ \ {path}, !.project = p,
                                  !.pc = IF p \in vMap[g] THEN "loop" ELSE "append"])
  /\ vMap' = [vMap EXCEPT ![g] = @ \cup {p}]
  /\ UNCHANGED <<bound, had, listings, result, alone, answer>>

ReadSlice(b) ==
  /\ working(b, "append")
  /\ becomes(b, [worker[b] EXCEPT !.pc = "write", !.slice = slice])
  /\ alone' = (alone /\ \A c \in Binding \ {b} : worker[c].pc \notin Appending)
  /\ UNCHANGED <<bound, had, vMap, listings, result, answer>>

\* Beyond an array there is no telling what will be read.
element(array, i) == IF i <= Len(arrays[array]) THEN arrays[array][i] ELSE Nowhere

\* append: in the array when it has room, else in a new one.
Write(b) ==
  LET old == worker[b].slice
      entry == <<bound[b].registry, worker[b].project>>
      length == old.len + 1 IN
  /\ working(b, "write")
  /\ \/ /\ length <= Len(arrays[old.array])
        /\ arrays' = [arrays EXCEPT ![old.array][length] = entry]
        /\ becomes(b, [worker[b] EXCEPT !.pc = "store", !.words = {"len"},
                                        !.slice = [array |-> old.array, len |-> length]])
     \/ /\ length > Len(arrays[old.array])
        /\ \E spare \in Spare :
             arrays' = Append(arrays,
               [i \in 1 .. length + spare |->
                  IF i < length THEN element(old.array, i)
                  ELSE IF i = length THEN entry ELSE Nowhere])
        /\ becomes(b, [worker[b] EXCEPT !.pc = "store", !.words = {"array", "len"},
                                        !.slice = [array |-> Len(arrays) + 1, len |-> length]])
  /\ UNCHANGED <<bound, had, vMap, listings, slice, total, alone, answer>>

Store(b, word) ==
  LET rest == worker[b].words \ {word} IN
  /\ working(b, "store") /\ word \in worker[b].words
  /\ slice' = [slice EXCEPT ![word] = worker[b].slice[word]]
  /\ becomes(b, [worker[b] EXCEPT !.words = rest, !.pc = IF rest = {} THEN "count" ELSE @])
  /\ UNCHANGED <<bound, had, vMap, listings, arrays, total, alone, answer>>

ReadTotal(b) ==
  /\ working(b, "count")
  /\ becomes(b, [worker[b] EXCEPT !.pc = "increment", !.total = total])
  /\ UNCHANGED <<bound, had, vMap, listings, result, alone, answer>>

Increment(b) ==
  /\ working(b, "increment")
  /\ total' = worker[b].total + 1
  /\ goes(b, "loop")
  /\ UNCHANGED <<bound, had, vMap, listings, arrays, slice, alone, answer>>

\* The loop ends, and so does the goroutine.
Return(b) ==
  /\ working(b, "loop") /\ worker[b].todo = {}
  /\ goes(b, "done")
  /\ UNCHANGED <<bound, had, vMap, listings, result, alone, answer>>

-----------------------------------------------------------------------------
\* The log prints vMap without its lock: when a goroutine has claimed its registry,
\* and before each project.
prints(b) == working(b, "start") \/ (working(b, "loop") /\ worker[b].todo # {})

\* To be printed by b while c adds to it: a registry that no goroutine has claimed
\* and that has no repositories, or a project.
writes(c, b) ==
  LET g == bound[c].registry IN
  \/ /\ working(c, "start") /\ had[g] = {}
     /\ \A d \in Binding \ {c} : bound[d].registry = g => d # b /\ working(d, "start")
  \/ /\ working(c, "loop")
     /\ \E path \in worker[c].todo : path[1] \notin vMap[g]

\* Then the runtime may end the program.
MapRace ==
  /\ \E b \in Binding : prints(b) /\ \E c \in Binding \ {b} : writes(c, b)
  /\ answer' = "crashed"
  /\ UNCHANGED <<bound, had, vMap, listings, result, worker, alone>>

\* wg.Wait ends when every goroutine has returned.
Answer ==
  /\ \A b \in Binding : working(b, "done")
  /\ answer' = "written"
  /\ UNCHANGED <<bound, had, vMap, listings, result, worker, alone>>

ProjectsInit ==
  /\ bound \in [Binding -> Bound]
  /\ had \in [Registry -> Repos]
  /\ vMap = had /\ listings = {}
  /\ \E spare \in Spare : arrays = << [i \in 1 .. spare |-> Nowhere] >>
  /\ slice = [array |-> 1, len |-> 0]
  /\ total = 0
  /\ worker = [b \in Binding |-> Started]
  /\ alone = TRUE
  /\ answer = "waiting"

Work(b) ==
  \/ Claim(b) \/ GetMainMap(b) \/ GetProjectList(b) \/ GetImageRegistry(b) \/ RequestFails(b)
  \/ (\E path \in Path : SetNX(b, path))
  \/ ReadSlice(b) \/ Write(b) \/ (\E word \in {"array", "len"} : Store(b, word))
  \/ ReadTotal(b) \/ Increment(b) \/ Return(b)

ProjectsNext ==
  /\ answer = "waiting"
  /\ (\E b \in Binding : Work(b)) \/ MapRace \/ Answer

ProjectsSpec == ProjectsInit /\ [][ProjectsNext]_projectsVars

-----------------------------------------------------------------------------
(* Properties.                                                             *)

\* The i-th element that was added.
listed(i) == element(slice.array, i)

\* However the goroutines overwrite each other's slices: no project is in the
\* answer twice, and none beside a repository of it.
ProjectsOnce ==
  \A i \in 1 .. slice.len :
    listed(i) # Nowhere =>
      /\ \A j \in 1 .. slice.len : listed(j) = listed(i) => j = i
      /\ \E g \in Registry : \E p \in Project \ had[g] : listed(i) = <<g, p>>

\* What is added and counted is complete, several bindings of a registry or not,
\* unless two goroutines were appending at the same time.
CompleteInTurn ==
  LET served == {<<bound[b].registry, path[1]>> : b \in Binding, path \in Path}
      wanted == {e \in served : \E b \in Binding :
                   /\ e[1] = bound[b].registry /\ e[2] \notin had[e[1]]
                   /\ \E path \in worker[b].paths : path[1] = e[2]}
  IN answer = "written" /\ alone =>
       /\ {listed(i) : i \in 1 .. slice.len} = wanted
       /\ total = slice.len
=============================================================================
