--------------------------------- MODULE Runs ----------------------------------
(***************************************************************************)
(* Admission and the life of a run in the control plane: RunService.admit  *)
(* (ai_jobs/runs.py), the registry it resolves tools in (registry.py) and  *)
(* InMemoryRunStore (storage.py).  Admissions are concurrent calls; each   *)
(* store operation holds the store's lock and is one step, the call to the *)
(* executor is another.  The executor and whatever drives a run onwards    *)
(* are outside the repository: the first may fail before or after it has   *)
(* started a worker, the others read a run and transition it later, from   *)
(* what they read.                                                         *)
(***************************************************************************)
EXTENDS Naturals, Sequences, FiniteSets

CONSTANTS
    Admissions,   \* calls of admit
    Call,         \* the arguments of each: [identity, payload]
    Identities,   \* (caller, tool key, tool version, idempotency key)
    CanonicalKey, \* identities whose idempotency key is a UUID in canonical form
    Registered,   \* identities whose tool is in the registry
    Profiled,     \* those whose worker profile is configured
    Viewed,       \* those whose definition has a storage_view
    Payloads,
    Requests,     \* validated requests; two with one digest are equal
    Validated,    \* validate_request, then the canonical form; None: refused
    Ids,          \* what id_factory returns
    Drivers,      \* calls that transition a run
    None

ASSUME RunsAssumption ==
    /\ Call \in [Admissions -> [identity : Identities, payload : Payloads]]
    /\ Validated \in [Payloads -> Requests \cup {None}]
    /\ None \notin Requests \cup Ids

VARIABLES
    runs,     \* InMemoryRunStore._runs
    keys,     \* InMemoryRunStore._keys
    call,     \* the state of each admission
    driver,   \* the state of each driver
    starts,   \* how often the executor started a worker for a run
    trail     \* observation: the states each run has been in, in order

vars == <<runs, keys, call, driver, starts, trail>>

--------------------------------------------------------------------------------
RunState ==
    {"accepted", "starting", "running", "succeeded", "failed", "timed_out", "cancelled"}

Terminal == {"succeeded", "failed", "timed_out", "cancelled"}

\* The table of legal transitions; nothing leaves a terminal state.
Legal(state) ==
    IF state = "accepted" THEN {"starting", "cancelled", "timed_out", "failed"}
    ELSE IF state = "starting" THEN {"running", "cancelled", "timed_out", "failed"}
    ELSE IF state = "running" THEN {"succeeded", "cancelled", "timed_out", "failed"}
    ELSE {}

Run == [identity : Identities, request : Requests, state : RunState]

\* What admit can raise.
Errors ==
    {"invalid_idempotency_key", "unknown_tool", "profile_not_configured", "invalid_request",
     "no_storage_view", "idempotency_conflict", "duplicate_run_id", "executor_failed"}

ASSUME RunAssumption == None \notin Run /\ None \notin Errors

Identity(a) == Call[a].identity
Request(a) == Validated[Call[a].payload]

Init ==
    /\ runs = [i \in Ids |-> None]
    /\ keys = [k \in Identities |-> None]
    /\ call = [a \in Admissions |->
                [pc |-> "called", id |-> None, created |-> FALSE, error |-> None]]
    /\ driver = [d \in Drivers |-> [pc |-> "idle", id |-> None, seen |-> None]]
    /\ starts = [i \in Ids |-> 0]
    /\ trail = [i \in Ids |-> <<>>]

\* The admission raises.
Raise(a, error) ==
    call' = [call EXCEPT ![a].pc = "raised", ![a].error = error]

\* Mutant: the payload reaches the store unvalidated.
RefusalWithoutPayload(a) ==
    IF Identity(a) \notin CanonicalKey THEN "invalid_idempotency_key"
    ELSE IF Identity(a) \notin Registered THEN "unknown_tool"
    ELSE None

\* What admit raises before it reaches the store, or None: the idempotency
\* key, the tool, the profile, the payload and the stored view, in this order.
Refusal(a) ==
    IF Identity(a) \notin CanonicalKey THEN "invalid_idempotency_key"
    ELSE IF Identity(a) \notin Registered THEN "unknown_tool"
    ELSE IF Identity(a) \notin Profiled THEN "profile_not_configured"
    ELSE IF Request(a) = None THEN "invalid_request"
    ELSE IF Identity(a) \notin Viewed THEN "no_storage_view"
    ELSE None

\* admit up to the store: checks, then a fresh run from id_factory.
Prepare(a, id) ==
    /\ call[a].pc = "called"
    /\ IF Refusal(a) # None
       THEN Raise(a, Refusal(a))
       ELSE call' = [call EXCEPT ![a].pc = "prepared", ![a].id = id]
    /\ UNCHANGED <<runs, keys, driver, starts, trail>>

\* Mutant: the digests are not compared.
ExistingWhateverTheDigest(a) ==
    /\ keys[Identity(a)] # None
    /\ call' = [call EXCEPT ![a].pc = "returned", ![a].id = keys[Identity(a)]]
    /\ UNCHANGED <<runs, keys, trail>>

\* create_or_get finds the identity taken.
Existing(a) ==
    /\ keys[Identity(a)] # None
    /\ IF runs[keys[Identity(a)]].request # Request(a)
       THEN Raise(a, "idempotency_conflict")
       ELSE call' = [call EXCEPT ![a].pc = "returned", ![a].id = keys[Identity(a)]]
    /\ UNCHANGED <<runs, keys, trail>>

\* Mutant: a taken identifier is waited for.
CreateWaits(a) ==
    /\ keys[Identity(a)] = None
    /\ runs[call[a].id] = None
    /\ runs' = [runs EXCEPT ![call[a].id] =
            [identity |-> Identity(a), request |-> Request(a), state |-> "accepted"]]
    /\ keys' = [keys EXCEPT ![Identity(a)] = call[a].id]
    /\ call' = [call EXCEPT ![a].pc = "created", ![a].created = TRUE]
    /\ trail' = [trail EXCEPT ![call[a].id] = <<"accepted">>]

\* create_or_get stores the run, unless its identifier is taken.
Create(a) ==
    /\ keys[Identity(a)] = None
    /\ IF runs[call[a].id] # None
       THEN Raise(a, "duplicate_run_id") /\ UNCHANGED <<runs, keys, trail>>
       ELSE /\ runs' = [runs EXCEPT ![call[a].id] =
                    [identity |-> Identity(a), request |-> Request(a), state |-> "accepted"]]
            /\ keys' = [keys EXCEPT ![Identity(a)] = call[a].id]
            /\ call' = [call EXCEPT ![a].pc = "created", ![a].created = TRUE]
            /\ trail' = [trail EXCEPT ![call[a].id] = <<"accepted">>]

\* Mutant: the lookup and the insertion are not one critical section, so the
\* run is stored whatever the identity is bound to by now.
CreateOrGetUnlocked(a) ==
    /\ call[a].pc = "prepared"
    /\ runs[call[a].id] = None
    /\ runs' = [runs EXCEPT ![call[a].id] =
            [identity |-> Identity(a), request |-> Request(a), state |-> "accepted"]]
    /\ keys' = [keys EXCEPT ![Identity(a)] = call[a].id]
    /\ call' = [call EXCEPT ![a].pc = "created", ![a].created = TRUE]
    /\ trail' = [trail EXCEPT ![call[a].id] = <<"accepted">>]
    /\ UNCHANGED <<driver, starts>>

CreateOrGet(a) ==
    /\ call[a].pc = "prepared"
    /\ Existing(a) \/ Create(a)
    /\ UNCHANGED <<driver, starts>>

\* Mutant: the run is returned and no worker is started for it.
StartSkipped(a) ==
    /\ call[a].pc = "created"
    /\ call' = [call EXCEPT ![a].pc = "returned"]
    /\ UNCHANGED <<runs, keys, driver, starts, trail>>

\* executor.start succeeds and admit returns the run it created.
Start(a) ==
    /\ call[a].pc = "created"
    /\ starts' = [starts EXCEPT ![call[a].id] = @ + 1]
    /\ call' = [call EXCEPT ![a].pc = "returned"]
    /\ UNCHANGED <<runs, keys, driver, trail>>

\* executor.start raises, having started a worker or not, or the thread dies
\* there.  The run stays in the store.
StartRaises(a) ==
    /\ call[a].pc = "created"
    /\ \E began \in {0, 1} : starts' = [starts EXCEPT ![call[a].id] = @ + began]
    /\ Raise(a, "executor_failed")
    /\ UNCHANGED <<runs, keys, driver, trail>>

\* store.get by the side that drives runs (external).
Get(d, id) ==
    /\ driver[d].pc = "idle"
    /\ runs[id] # None
    /\ driver' = [driver EXCEPT ![d] = [pc |-> "got", id |-> id, seen |-> runs[id].state]]
    /\ UNCHANGED <<runs, keys, call, starts, trail>>

\* Mutant: only the table is consulted, for the state the caller expects.
TransitionFromExpected(d, target) ==
    /\ driver[d].pc = "got"
    /\ driver' = [driver EXCEPT ![d].pc = "idle", ![d].id = None, ![d].seen = None]
    /\ IF target \in Legal(driver[d].seen)
       THEN /\ runs' = [runs EXCEPT ![driver[d].id].state = target]
            /\ trail' = [trail EXCEPT ![driver[d].id] = Append(@, target)]
       ELSE UNCHANGED <<runs, trail>>
    /\ UNCHANGED <<keys, call, starts>>

\* store.transition from the state that was read to any target: compare, look
\* the pair up, replace; TransitionConflict otherwise.
Transition(d, target) ==
    /\ driver[d].pc = "got"
    /\ driver' = [driver EXCEPT ![d].pc = "idle", ![d].id = None, ![d].seen = None]
    /\ LET id == driver[d].id IN
       IF runs[id].state = driver[d].seen /\ target \in Legal(runs[id].state)
       THEN /\ runs' = [runs EXCEPT ![id].state = target]
            /\ trail' = [trail EXCEPT ![id] = Append(@, target)]
       ELSE UNCHANGED <<runs, trail>>
    /\ UNCHANGED <<keys, call, starts>>

Next ==
    \/ \E a \in Admissions :
         \/ \E id \in Ids : Prepare(a, id)
         \/ CreateOrGet(a) \/ Start(a) \/ StartRaises(a)
    \/ \E d \in Drivers :
         \/ \E id \in Ids : Get(d, id)
         \/ \E target \in RunState : Transition(d, target)

\* Every admission runs on a thread of its own and takes its next step; the
\* store's lock is held for one step only.
Spec ==
    /\ Init /\ [][Next]_vars
    /\ \A a \in Admissions :
         WF_vars((\E id \in Ids : Prepare(a, id)) \/ CreateOrGet(a) \/ Start(a) \/ StartRaises(a))

--------------------------------------------------------------------------------
(***************************************************************************)
(* Properties.                                                             *)
(***************************************************************************)
\* Every variable has its type; in particular no refused payload is stored.
TypeOK ==
    /\ runs \in [Ids -> Run \cup {None}]
    /\ keys \in [Identities -> Ids \cup {None}]
    /\ call \in [Admissions ->
            [pc : {"called", "prepared", "created", "returned", "raised"},
             id : Ids \cup {None}, created : BOOLEAN, error : Errors \cup {None}]]
    /\ driver \in [Drivers -> [pc : {"idle", "got"}, id : Ids \cup {None},
                               seen : RunState \cup {None}]]
    /\ starts \in [Ids -> Nat]
    /\ trail \in [Ids -> Seq(RunState)]

\* However admissions of one identity interleave, retry and fail, the
\* executor is asked to start at most one worker for it.
OneWorkerPerIdentity ==
    /\ \A i \in Ids : starts[i] <= 1
    /\ \A i, j \in Ids :
         /\ i # j /\ starts[i] > 0 /\ starts[j] > 0
         => runs[i].identity # runs[j].identity

\* An admission that returns, returns the one run stored for its identity and
\* for the very request it was called with.
ReturnsTheOneRun ==
    \A a \in Admissions :
        call[a].pc = "returned" =>
            /\ keys[Identity(a)] = call[a].id
            /\ runs[call[a].id] # None
            /\ runs[call[a].id].identity = Identity(a)
            /\ runs[call[a].id].request = Request(a)

\* A stored run without a worker is one whose own admission is still about to
\* start it, or was told that the start failed: no other interleaving strands
\* a run.
UnstartedRunsAreAccountedFor ==
    \A i \in Ids :
        runs[i] # None /\ starts[i] = 0 =>
            \E a \in Admissions :
                /\ call[a].id = i /\ call[a].created
                /\ call[a].pc = "created" \/ call[a].error = "executor_failed"

\* "Legal transitions use compare-and-set semantics so duplicate callbacks
\* and reconciler races cannot overwrite a terminal result": the states a run
\* has been in follow the table one by one from accepted, and a terminal one
\* is the last.
TrailIsLegal ==
    \A i \in Ids :
        runs[i] # None =>
            /\ trail[i] # <<>> /\ trail[i][1] = "accepted"
            /\ trail[i][Len(trail[i])] = runs[i].state
            /\ \A n \in 1..(Len(trail[i]) - 1) : trail[i][n + 1] \in Legal(trail[i][n])

\* Every admission returns or raises.
AdmissionsEnd == \A a \in Admissions : <>(call[a].pc \in {"returned", "raised"})
================================================================================
