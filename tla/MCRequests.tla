----------------------------- MODULE MCRequests ------------------------------
(***************************************************************************)
(* The parts with requests that promise safety only, for one run: those to *)
(* the settings and the goroutines of one for the projects of registries,  *)
(* which share memory without a lock, and those for the log of a           *)
(* container.  `part` names the one that steps, the others stay in an      *)
(* initial state.                                                          *)
(***************************************************************************)
EXTENDS SettingsManager, RegistryProjects, ContainerLog, TLC

CONSTANTS p1, p2, x, y, k1, k2

\* Bindings for nothing, for one project under two paths, and for two projects.
Offers == {{}, {<<p1, x>>, <<p1, y>>}, {<<p1, x>>, <<p2, x>>}}
Answered == {<<p1, x>>, <<p2, x>>}

\* One container writes lines, the other has none.
Lines == k1 :> 6 @@ k2 :> 0

VARIABLE part

SettingsOff == stored = Nothing
ProjectsOff ==
  /\ \A b \in Binding : bound[b] = CHOOSE d \in Bound : ~ d.all /\ d.paths = {}
  /\ \A g \in Registry : had[g] = {}

LogsOff == params.container = k1

RequestsInit ==
  /\ part \in {"settings", "projects", "logs"}
  /\ Init /\ (part = "settings" \/ SettingsOff)
  /\ ProjectsInit /\ (part = "projects" \/ ProjectsOff)
  /\ PagesInit /\ (part = "logs" \/ LogsOff)

\* The request is answered, or the program has ended: nothing more happens.
Ended == answer # "waiting"

RequestsNext ==
  /\ UNCHANGED part
  /\ \/ part = "settings" /\ Next /\ UNCHANGED <<projectsVars, pageVars>>
     \/ part = "projects" /\ ProjectsNext /\ UNCHANGED <<vars, pageVars>>
     \/ part = "projects" /\ Ended /\ UNCHANGED <<vars, projectsVars, pageVars>>
     \/ part = "logs" /\ PagesNext /\ UNCHANGED <<vars, projectsVars>>

RequestsSpec == RequestsInit /\ [][RequestsNext]_<<part, vars, projectsVars, pageVars>>

\* Neither clients nor bindings are told apart by anything, and no property is one
\* of liveness.
Alike == Permutations(Client) \cup Permutations(Binding)
=============================================================================
