---------------------------- MODULE ModelRegistry ----------------------------
(***************************************************************************)
(* The model registry (src/models.rs) in llama-chat mode: the sync task    *)
(* registry_sync_loop (src/main.rs) fetches the list of models the core    *)
(* serves and replaces the snapshot, while handlers validate names against *)
(* it and list it.  The core (external) changes what it serves, fails or   *)
(* stays silent.  In infer mode no task runs and the snapshot is constant. *)
(* The core and clients write names in small and capital letters as they   *)
(* like; a name is listed as the core writes it and looked up in lower     *)
(* case.                                                                   *)
(*                                                                         *)
(*  "fetching" --> "answered" --> "replacing" --> "sleeping" --> ...       *)
(*       |--> "stuck" (no answer) --10 s--> "sleeping"                     *)
(*       |--> failed --------------------->                                *)
(***************************************************************************)
EXTENDS Integers

CONSTANTS
  Names,         \* model names and aliases, in any spelling
  Lower,         \* the name in lower case, to_ascii_lowercase()
  StaticModels,  \* the names of ModelRegistry::default()
  Catalogs,      \* the lists the core may serve: [models, aliases]
  MAX_CHANGES    \* bound on how often the core changes

ASSUME RegistryAssumption ==
  /\ Lower \in [Names -> Names]
  /\ \A name \in Names : Lower[Lower[name]] = Lower[name]
  /\ StaticModels \subseteq Names
  /\ Catalogs \subseteq [models : SUBSET Names, aliases : SUBSET Names]
  /\ MAX_CHANGES \in Nat

VARIABLES
  core,         \* [state, catalog]: what the core would answer now
  changes,      \* how often it has changed
  sync,         \* where registry_sync_loop stands
  fetched,      \* the list of the last answer to it
  models,       \* RegistryInner.models
  known_names,  \* RegistryInner.known_names
  writing,      \* the write lock of the registry is held
  verdict,      \* the last answer of contains() for each name
  listed        \* the last answer of list() to GET /models or ListModels

coreVars == <<core, changes>>

registryVars == <<models, known_names, writing>>

answers == <<verdict, listed>>

vars == <<coreVars, sync, fetched, registryVars, answers>>

LowerAll(names) == {Lower[name] : name \in names}

(* What requests may name: the models of a list and their aliases.         *)
AllNames(catalog) == LowerAll(catalog.models \cup catalog.aliases)

Init ==
  /\ core \in [state : {"up", "down", "hung"}, catalog : Catalogs]
  /\ changes = 0
  /\ sync = "fetching"
  /\ fetched = core.catalog
  /\ models = StaticModels
  /\ known_names = LowerAll(StaticModels)
  /\ writing = FALSE
  /\ verdict = [name \in Names |-> "none"]
  /\ listed = StaticModels

-----------------------------------------------------------------------------
(* The core.                                                               *)

CoreChanges ==
  /\ changes < MAX_CHANGES
  /\ changes' = changes + 1
  /\ core' \in [state : {"up", "down", "hung"}, catalog : Catalogs]
  /\ UNCHANGED <<sync, fetched, registryVars, answers>>

(* The list is the one of the moment the core answers, not of the moment   *)
(* the answer is used.                                                     *)
CoreAnswersList ==
  /\ sync = "fetching"
  /\ core.state = "up"
  /\ fetched' = core.catalog
  /\ sync' = "answered"
  /\ UNCHANGED <<coreVars, registryVars, answers>>

(* This request is not answered, even if the core recovers.                *)
CoreHangs ==
  /\ sync = "fetching"
  /\ core.state = "hung"
  /\ sync' = "stuck"
  /\ UNCHANGED <<coreVars, fetched, registryVars, answers>>

-----------------------------------------------------------------------------
(* The sync task.                                                          *)

(* Mutants of FetchFails: what was fetched in error replaces the snapshot; *)
(* the static list does.                                                   *)
FetchFailsEmptying ==
  /\ sync = "fetching"
  /\ core.state = "down"
  /\ sync' = "sleeping"
  /\ models' = {}
  /\ known_names' = {}
  /\ UNCHANGED <<coreVars, fetched, writing, answers>>

FetchFailsToStatic ==
  /\ sync = "fetching"
  /\ core.state = "down"
  /\ sync' = "sleeping"
  /\ models' = StaticModels
  /\ known_names' = LowerAll(StaticModels)
  /\ UNCHANGED <<coreVars, fetched, writing, answers>>

(* No connection, an error status, or a body that does not decode.         *)
FetchFails ==
  /\ sync = "fetching"
  /\ core.state = "down"
  /\ sync' = "sleeping"
  /\ UNCHANGED <<coreVars, fetched, registryVars, answers>>

(* Mutant of FetchTimesOut: the fetch has no cap.                          *)
FetchWaitsOn == sync = "stuck" /\ UNCHANGED vars

FetchTimesOut ==
  /\ sync = "stuck"
  /\ sync' = "sleeping"
  /\ UNCHANGED <<coreVars, fetched, registryVars, answers>>

(* Mutant of ReplaceModels: the two fields are not replaced under a lock.  *)
ReplaceModelsUnlocked ==
  /\ sync = "answered"
  /\ models' = fetched.models
  /\ sync' = "replacing"
  /\ UNCHANGED <<coreVars, fetched, known_names, writing, answers>>

(* replace_all() takes the write lock and assigns the two fields.          *)
ReplaceModels ==
  /\ sync = "answered"
  /\ writing' = TRUE
  /\ models' = fetched.models
  /\ sync' = "replacing"
  /\ UNCHANGED <<coreVars, fetched, known_names, answers>>

(* Mutant of ReplaceNames: the aliases are added as the core writes them.  *)
ReplaceNamesKeepingCase ==
  /\ sync = "replacing"
  /\ known_names' = LowerAll(fetched.models) \cup fetched.aliases
  /\ writing' = FALSE
  /\ sync' = "sleeping"
  /\ UNCHANGED <<coreVars, fetched, models, answers>>

ReplaceNames ==
  /\ sync = "replacing"
  /\ known_names' = AllNames(fetched)
  /\ writing' = FALSE
  /\ sync' = "sleeping"
  /\ UNCHANGED <<coreVars, fetched, models, answers>>

WakeUp ==
  /\ sync = "sleeping"
  /\ sync' = "fetching"
  /\ UNCHANGED <<coreVars, fetched, registryVars, answers>>

-----------------------------------------------------------------------------
(* A handler validates a name; it waits while the registry is written.     *)
Contains(name) ==
  /\ ~writing
  /\ verdict' = [verdict EXCEPT
                   ![name] = IF Lower[name] \in known_names THEN "accepted"
                                                             ELSE "unknown"]
  /\ UNCHANGED <<coreVars, sync, fetched, registryVars, listed>>

List ==
  /\ ~writing
  /\ listed' = models
  /\ UNCHANGED <<coreVars, sync, fetched, registryVars, verdict>>

SyncStep ==
  \/ FetchFails
  \/ FetchTimesOut
  \/ ReplaceModels
  \/ ReplaceNames
  \/ WakeUp

Next ==
  \/ CoreChanges
  \/ CoreAnswersList
  \/ CoreHangs
  \/ SyncStep
  \/ \E name \in Names : Contains(name)
  \/ List

Spec == Init /\ [][Next]_vars

(* The task runs when it can, its timers included; a core that is up       *)
(* answers.                                                                *)
FairSpec == Spec /\ WF_vars(SyncStep) /\ WF_vars(CoreAnswersList \/ CoreHangs)

-----------------------------------------------------------------------------
(* Properties.                                                             *)

(* The names requests are compared with are in lower case, however the     *)
(* core writes its models and aliases: one in capital letters would match  *)
(* no request, since what a client writes is lowered.  Only list() has the *)
(* core's own spelling.                                                    *)
TypeOK ==
  /\ core \in [state : {"up", "down", "hung"}, catalog : Catalogs]
  /\ changes \in 0 .. MAX_CHANGES
  /\ sync \in {"fetching", "stuck", "answered", "replacing", "sleeping"}
  /\ fetched \in Catalogs
  /\ models \subseteq Names
  /\ known_names \subseteq {name \in Names : Lower[name] = name}
  /\ writing \in BOOLEAN
  /\ verdict \in [Names -> {"none", "accepted", "unknown"}]
  /\ listed \subseteq Names

StaticSnapshot == models = StaticModels /\ known_names = LowerAll(StaticModels)

(* What a handler can read is the static list or one list the core has     *)
(* served, with the names that belong to it: never a mixture of two.  So   *)
(* is what clients have been shown of it.                                  *)
WholeSnapshots ==
  /\ ~writing =>
       \/ StaticSnapshot
       \/ \E catalog \in Catalogs : /\ models = catalog.models
                                    /\ known_names = AllNames(catalog)
  /\ listed \in {StaticModels} \cup {catalog.models : catalog \in Catalogs}

(* A model that every list of the core names, each in its own spelling,    *)
(* stays accepted once it has been: failing, silent and recovering fetches *)
(* never take it away.                                                     *)
Steady ==
  {name \in Names : \A catalog \in Catalogs : Lower[name] \in AllNames(catalog)}

SteadyModelsStayAccepted ==
  [][\A name \in Steady :
       verdict[name] = "accepted" => verdict'[name] = "accepted"]_vars

(* Names of the static list that the core never serves are trusted only    *)
(* until the first list has been installed: whatever fetches fail later,   *)
(* no fallback brings them back, and none is accepted any more.            *)
Served == UNION {AllNames(catalog) : catalog \in Catalogs}

StaticNamesGoForGood ==
  [][known_names \subseteq Served =>
       /\ known_names' \subseteq Served
       /\ \A name \in Names : Lower[name] \notin Served =>
            (verdict'[name] = "accepted" => verdict[name] = "accepted")]_vars

Mirrors ==
  /\ models = core.catalog.models
  /\ known_names = AllNames(core.catalog)

(* Once the core stays up (and changes no more, MAX_CHANGES) the registry  *)
(* shows what it serves, for good: a fetch that hung or an answer that was *)
(* overtaken by a change does not stop the loop or stick.                  *)
EventuallyMirrors == <>[](core.state = "up") => <>[]Mirrors
=============================================================================
