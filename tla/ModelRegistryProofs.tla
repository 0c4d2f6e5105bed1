------------------------- MODULE ModelRegistryProofs -------------------------
(***************************************************************************)
(* Safety of the model registry for every set of names in any spelling,    *)
(* every static list and every collection of lists the core may serve.     *)
(***************************************************************************)
EXTENDS ModelRegistry, TLAPS

(* The write lock is held exactly while the two fields disagree, and the   *)
(* one already replaced is that of the list being installed.  A name that  *)
(* every list has, once accepted, is still in the set of names.            *)
ReplaceInStep ==
  /\ writing <=> sync = "replacing"
  /\ sync = "replacing" => models = fetched.models

AcceptedSteadyIsKnown ==
  \A name \in Steady : verdict[name] = "accepted" => Lower[name] \in known_names

RegistryInvariant ==
  /\ TypeOK
  /\ ReplaceInStep
  /\ WholeSnapshots
  /\ AcceptedSteadyIsKnown

(* Lowering gives names in lower case.                                     *)
LEMMA LoweredNames ==
  ASSUME NEW names, names \subseteq Names
  PROVE  LowerAll(names) \subseteq {name \in Names : Lower[name] = name}
BY RegistryAssumption DEF LowerAll

LEMMA InitRegistryInvariant == Init => RegistryInvariant
<1> SUFFICES ASSUME Init PROVE RegistryInvariant
  OBVIOUS
<1>1. core.catalog \in Catalogs
  BY DEF Init
<1>2. verdict \in [Names -> {"none", "accepted", "unknown"}]
  BY DEF Init
<1>3. changes \in 0 .. MAX_CHANGES
  BY RegistryAssumption DEF Init
<1>4. TypeOK
  BY <1>1, <1>2, <1>3, LoweredNames, RegistryAssumption DEF Init, TypeOK
<1>5. ReplaceInStep
  BY DEF Init, ReplaceInStep
<1>6. WholeSnapshots
  BY DEF Init, WholeSnapshots, StaticSnapshot
<1>7. AcceptedSteadyIsKnown
  BY DEF Init, AcceptedSteadyIsKnown, Steady
<1> QED
  BY <1>4, <1>5, <1>6, <1>7 DEF RegistryInvariant

LEMMA StepRegistryInvariant ==
  RegistryInvariant /\ [Next]_vars => RegistryInvariant'
<1> SUFFICES ASSUME RegistryInvariant, [Next]_vars PROVE RegistryInvariant'
  OBVIOUS
<1> USE DEF RegistryInvariant
<1>1. CASE \/ CoreChanges \/ CoreAnswersList \/ CoreHangs
           \/ FetchFails \/ FetchTimesOut \/ WakeUp
  <2>1. UNCHANGED <<registryVars, answers>>
    BY <1>1 DEF CoreChanges, CoreAnswersList, CoreHangs, FetchFails,
                FetchTimesOut, WakeUp
  <2>2. TypeOK'
    <3>1. CASE CoreChanges
      <4>1. changes' \in 0 .. MAX_CHANGES
        BY <3>1, RegistryAssumption DEF CoreChanges, TypeOK
      <4> QED
        BY <3>1, <4>1 DEF CoreChanges, TypeOK, registryVars, answers
    <3>2. CASE CoreAnswersList
      <4>1. fetched' \in Catalogs
        BY <3>2 DEF CoreAnswersList, TypeOK
      <4> QED
        BY <3>2, <4>1 DEF CoreAnswersList, TypeOK, coreVars, registryVars, answers
    <3>3. CASE CoreHangs \/ FetchFails \/ FetchTimesOut \/ WakeUp
      BY <3>3 DEF CoreHangs, FetchFails, FetchTimesOut, WakeUp, TypeOK,
                  coreVars, registryVars, answers
    <3> QED
      BY <1>1, <3>1, <3>2, <3>3
  <2>3. ReplaceInStep'
    BY <1>1 DEF CoreChanges, CoreAnswersList, CoreHangs, FetchFails,
                FetchTimesOut, WakeUp, ReplaceInStep, registryVars
  <2>4. WholeSnapshots' /\ AcceptedSteadyIsKnown'
    BY <2>1 DEF WholeSnapshots, StaticSnapshot, AcceptedSteadyIsKnown,
                registryVars, answers
  <2> QED
    BY <2>2, <2>3, <2>4
<1>2. CASE ReplaceModels
  <2>1. TypeOK'
    BY <1>2, RegistryAssumption DEF ReplaceModels, TypeOK, coreVars, answers
  <2>2. ReplaceInStep' /\ WholeSnapshots' /\ AcceptedSteadyIsKnown'
    BY <1>2 DEF ReplaceModels, ReplaceInStep, WholeSnapshots,
                AcceptedSteadyIsKnown, answers
  <2> QED
    BY <2>1, <2>2
<1>3. CASE ReplaceNames
  <2>1. /\ fetched \in Catalogs
        /\ models = fetched.models
    BY <1>3 DEF ReplaceNames, TypeOK, ReplaceInStep
  <2>2. AllNames(fetched) \subseteq {name \in Names : Lower[name] = name}
    <3>1. fetched.models \cup fetched.aliases \subseteq Names
      BY <2>1, RegistryAssumption
    <3> QED
      BY <3>1, LoweredNames DEF AllNames
  <2>3. TypeOK'
    BY <1>3, <2>2 DEF ReplaceNames, TypeOK, coreVars, answers
  <2>4. ReplaceInStep'
    BY <1>3 DEF ReplaceNames, ReplaceInStep
  <2>5. WholeSnapshots'
    BY <1>3, <2>1 DEF ReplaceNames, WholeSnapshots, answers
  <2>6. AcceptedSteadyIsKnown'
    BY <1>3, <2>1 DEF ReplaceNames, AcceptedSteadyIsKnown, Steady, answers
  <2> QED
    BY <2>3, <2>4, <2>5, <2>6
<1>4. ASSUME NEW name \in Names, Contains(name)
      PROVE  RegistryInvariant'
  <2>1. TypeOK'
    BY <1>4 DEF Contains, TypeOK, coreVars, registryVars
  <2>2. ReplaceInStep' /\ WholeSnapshots'
    BY <1>4 DEF Contains, ReplaceInStep, WholeSnapshots, StaticSnapshot,
                registryVars
  <2>3. AcceptedSteadyIsKnown'
    BY <1>4 DEF Contains, AcceptedSteadyIsKnown, Steady, TypeOK, registryVars
  <2> QED
    BY <2>1, <2>2, <2>3
<1>5. CASE List
  BY <1>5 DEF List, TypeOK, ReplaceInStep, WholeSnapshots, StaticSnapshot,
              AcceptedSteadyIsKnown, coreVars, registryVars
<1>6. CASE UNCHANGED vars
  BY <1>6 DEF vars, coreVars, registryVars, answers, TypeOK, ReplaceInStep,
              WholeSnapshots, StaticSnapshot, AcceptedSteadyIsKnown
<1> QED
  BY <1>1, <1>2, <1>3, <1>4, <1>5, <1>6 DEF Next, SyncStep

(* Whatever the spelling of the core's models and aliases and wherever the *)
(* sync task stands, requests are compared with names in lower case only.  *)
THEOREM RegistryTypeCorrect == Spec => []TypeOK
<1>1. RegistryInvariant => TypeOK
  BY DEF RegistryInvariant
<1> QED
  BY <1>1, InitRegistryInvariant, StepRegistryInvariant, PTL DEF Spec

(* Handlers only ever read the static list or one whole list of the core.  *)
THEOREM SnapshotsAreWhole == Spec => []WholeSnapshots
<1>1. RegistryInvariant => WholeSnapshots
  BY DEF RegistryInvariant
<1> QED
  BY <1>1, InitRegistryInvariant, StepRegistryInvariant, PTL DEF Spec

(* A model in every list of the core is never refused after it has been    *)
(* accepted, whatever fetches fail or hang.                                *)
THEOREM SteadyModelsAreKept == Spec => SteadyModelsStayAccepted
<1>1. RegistryInvariant /\ [Next]_vars =>
        [\A name \in Steady :
           verdict[name] = "accepted" => verdict'[name] = "accepted"]_vars
  <2> SUFFICES ASSUME RegistryInvariant, Next, NEW name \in Steady,
                      verdict[name] = "accepted"
               PROVE  verdict'[name] = "accepted"
    OBVIOUS
  <2>1. name \in Names /\ Lower[name] \in known_names
    BY DEF Steady, RegistryInvariant, AcceptedSteadyIsKnown
  <2>2. ASSUME NEW other \in Names, Contains(other)
        PROVE  verdict'[name] = "accepted"
    BY <2>1, <2>2 DEF Contains, RegistryInvariant, TypeOK
  <2>3. CASE CoreChanges \/ CoreAnswersList \/ CoreHangs \/ SyncStep \/ List
    BY <2>3 DEF CoreChanges, CoreAnswersList, CoreHangs, SyncStep, FetchFails,
                FetchTimesOut, ReplaceModels, ReplaceNames, WakeUp, List, answers
  <2> QED
    BY <2>2, <2>3 DEF Next
<1> QED
  BY <1>1, InitRegistryInvariant, StepRegistryInvariant, PTL
     DEF Spec, SteadyModelsStayAccepted

(* Once a list of the core has been installed, no failed or hung fetch     *)
(* brings back names that only the static list has.                        *)
THEOREM StaticNamesAreGone == Spec => StaticNamesGoForGood
<1>1. RegistryInvariant /\ [Next]_vars =>
        [known_names \subseteq Served =>
           /\ known_names' \subseteq Served
           /\ \A name \in Names : Lower[name] \notin Served =>
                (verdict'[name] = "accepted" => verdict[name] = "accepted")]_vars
  <2> SUFFICES ASSUME RegistryInvariant, Next, known_names \subseteq Served
               PROVE  /\ known_names' \subseteq Served
                      /\ \A name \in Names : Lower[name] \notin Served =>
                           (verdict'[name] = "accepted" => verdict[name] = "accepted")
    OBVIOUS
  <2>1. CASE ReplaceNames
    <3>1. fetched \in Catalogs
      BY DEF RegistryInvariant, TypeOK
    <3>2. AllNames(fetched) \subseteq Served
      BY <3>1 DEF Served
    <3> QED
      BY <2>1, <3>2 DEF ReplaceNames, answers
  <2>2. ASSUME NEW other \in Names, Contains(other)
        PROVE  /\ known_names' \subseteq Served
               /\ \A name \in Names : Lower[name] \notin Served =>
                    (verdict'[name] = "accepted" => verdict[name] = "accepted")
    <3>1. known_names' = known_names
      BY <2>2 DEF Contains, registryVars
    <3>2. ASSUME NEW name \in Names, Lower[name] \notin Served,
                 verdict'[name] = "accepted"
          PROVE  verdict[name] = "accepted"
      <4>1. Lower[name] \notin known_names
        BY <3>2
      <4> QED
        BY <2>2, <3>2, <4>1 DEF Contains, RegistryInvariant, TypeOK
    <3> QED
      BY <3>1, <3>2
  <2>3. CASE \/ CoreChanges \/ CoreAnswersList \/ CoreHangs \/ List
             \/ FetchFails \/ FetchTimesOut \/ ReplaceModels \/ WakeUp
    <3>1. UNCHANGED <<known_names, verdict>>
      BY <2>3 DEF CoreChanges, CoreAnswersList, CoreHangs, FetchFails,
                  FetchTimesOut, ReplaceModels, WakeUp, List, answers,
                  registryVars
    <3> QED
      BY <3>1
  <2> QED
    BY <2>1, <2>2, <2>3 DEF Next, SyncStep
<1> QED
  BY <1>1, InitRegistryInvariant, StepRegistryInvariant, PTL
     DEF Spec, StaticNamesGoForGood
=============================================================================
