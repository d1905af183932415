------------------------------ MODULE RunsProofs -------------------------------
(***************************************************************************)
(* What admission guarantees, for every set of concurrent calls, every     *)
(* behaviour of id_factory and the executor, and every use of the store.   *)
(*                                                                         *)
(* OneWorkerPerIdentity is not inductive: that the start of a created run  *)
(* is its first follows from the two indexes of the store being inverse to *)
(* each other (Bound) and from each created run having one creator, whose  *)
(* start is still to come (Owned).                                         *)
(* UnstartedRunsAreAccountedFor needs the marks of the creator             *)
(* (CreatorsMarked); TrailIsLegal is inductive beside them.                *)
(***************************************************************************)
EXTENDS Runs, TLAPS

\* What a call of admit holds between its steps.
CallHolds ==
    \A a \in Admissions :
        call[a].pc \in {"prepared", "created", "returned"} =>
            call[a].id \in Ids /\ Request(a) \in Requests

DriverHolds ==
    \A d \in Drivers :
        driver[d].pc = "got" => driver[d].id \in Ids /\ runs[driver[d].id] # None

\* The store's two indexes are inverse to each other.
Bound ==
    /\ \A k \in Identities :
         keys[k] # None => runs[keys[k]] # None /\ runs[keys[k]].identity = k
    /\ \A i \in Ids : runs[i] # None => keys[runs[i].identity] = i

TypeInv == TypeOK /\ CallHolds /\ DriverHolds /\ Bound

\* A created run has one creator, which has not started it yet.
Owned ==
    /\ \A a \in Admissions :
         call[a].pc = "created" =>
            /\ runs[call[a].id] # None
            /\ runs[call[a].id].identity = Identity(a)
            /\ runs[call[a].id].request = Request(a)
            /\ starts[call[a].id] = 0
    /\ \A a, b \in Admissions :
         call[a].pc = "created" /\ call[b].pc = "created" /\ call[a].id = call[b].id => a = b

Once == \A i \in Ids : starts[i] <= 1 /\ (runs[i] = None => starts[i] = 0)

StartInv == Owned /\ Once /\ ReturnsTheOneRun

CallState ==
    [pc : {"called", "prepared", "created", "returned", "raised"},
     id : Ids \cup {None}, created : BOOLEAN, error : Errors \cup {None}]

DriverState == [pc : {"idle", "got"}, id : Ids \cup {None}, seen : RunState \cup {None}]

--------------------------------------------------------------------------------
\* An admission's identity is one of the declared ones; what it asks for is a
\* request or refused.
LEMMA CallTyped ==
    ASSUME NEW a \in Admissions
    PROVE  Identity(a) \in Identities /\ Request(a) \in Requests \cup {None}
BY RunsAssumption DEF Identity, Request

\* The initial state satisfies both invariants.
LEMMA InitInv == Init => TypeInv /\ StartInv
<1> SUFFICES ASSUME Init PROVE TypeInv /\ StartInv
    OBVIOUS
<1>1. TypeOK
    BY DEF Init, TypeOK
<1>2. CallHolds /\ DriverHolds /\ Owned /\ ReturnsTheOneRun
    BY DEF Init, CallHolds, DriverHolds, Owned, ReturnsTheOneRun
<1>3. Bound /\ Once
    BY DEF Init, Bound, Once
<1> QED BY <1>1, <1>2, <1>3 DEF TypeInv, StartInv

\* An admission that raises keeps its identifier; the others are untouched.
LEMMA Raised ==
    ASSUME call \in [Admissions -> CallState], NEW a \in Admissions,
           NEW error \in Errors, Raise(a, error)
    PROVE  /\ call' \in [Admissions -> CallState]
           /\ \A b \in Admissions : b # a => call'[b] = call[b]
           /\ call'[a].pc = "raised" /\ call'[a].id = call[a].id
           /\ call'[a].created = call[a].created /\ call'[a].error = error
<1> DEFINE r == [call[a] EXCEPT !.pc = "raised", !.error = error]
<1>1. call[a] \in CallState
    OBVIOUS
<1>2. r \in CallState
    BY <1>1 DEF CallState
<1>3. /\ r.pc = "raised" /\ r.id = call[a].id
      /\ r.created = call[a].created /\ r.error = error
    BY <1>1 DEF CallState
<1>4. call' = [call EXCEPT ![a] = r]
    BY DEF Raise
<1> HIDE DEF r
<1> QED BY <1>2, <1>3, <1>4

\* The checks before the store leave both invariants alone.
LEMMA PrepareInv ==
    ASSUME TypeInv, StartInv, NEW a \in Admissions, NEW id \in Ids, Prepare(a, id)
    PROVE  TypeInv' /\ StartInv'
<1> USE DEF TypeInv, StartInv
<1>1. UNCHANGED <<runs, keys, driver, starts, trail>>
    BY DEF Prepare
<1>2. /\ call' \in [Admissions -> CallState]
      /\ \A b \in Admissions : b # a => call'[b] = call[b]
      /\ call'[a].pc \in {"prepared", "raised"}
      /\ call'[a].pc = "prepared" => call'[a].id \in Ids /\ Request(a) \in Requests
    <2>0. call \in [Admissions -> CallState] /\ Request(a) \in Requests \cup {None}
        BY CallTyped DEF TypeOK, CallState
    <2>1. CASE Refusal(a) # None
        <3>1. Refusal(a) \in Errors
            BY <2>1 DEF Refusal, Errors
        <3>2. Raise(a, Refusal(a))
            BY <2>1 DEF Prepare
        <3> QED BY <2>0, <3>1, <3>2, Raised
    <2>2. CASE Refusal(a) = None
        <3>1. Request(a) # None
            BY <2>2, RunAssumption DEF Refusal, Errors
        <3>2. call' = [call EXCEPT ![a].pc = "prepared", ![a].id = id]
            BY <2>2 DEF Prepare
        <3> QED BY <2>0, <3>1, <3>2 DEF CallState
    <2> QED BY <2>1, <2>2
<1>3. TypeOK'
    BY <1>1, <1>2 DEF TypeOK, CallState
<1>4. CallHolds' /\ DriverHolds' /\ Bound'
    BY <1>1, <1>2 DEF CallHolds, DriverHolds, Bound, Request
<1>5. Owned' /\ Once' /\ ReturnsTheOneRun'
    BY <1>1, <1>2 DEF Owned, Once, ReturnsTheOneRun, Identity, Request
<1> QED BY <1>3, <1>4, <1>5

\* An admission that finds its identity taken gets the run that has it, if
\* that run was created for the same request.
LEMMA ExistingInv ==
    ASSUME TypeInv, StartInv, NEW a \in Admissions, CreateOrGet(a), Existing(a)
    PROVE  TypeInv' /\ StartInv'
<1> USE DEF TypeInv, StartInv
<1>1. UNCHANGED <<runs, keys, driver, starts, trail>>
    BY DEF CreateOrGet, Existing
<1>2. /\ keys[Identity(a)] \in Ids
      /\ runs[keys[Identity(a)]] # None
      /\ runs[keys[Identity(a)]].identity = Identity(a)
    BY CallTyped DEF Existing, Bound, TypeOK
<1>3. /\ call' \in [Admissions -> CallState]
      /\ \A b \in Admissions : b # a => call'[b] = call[b]
      /\ call'[a].pc \in {"returned", "raised"}
      /\ call'[a].pc = "returned" => /\ call'[a].id = keys[Identity(a)]
                                     /\ runs[keys[Identity(a)]].request = Request(a)
    <2>0. call \in [Admissions -> CallState]
        BY DEF TypeOK, CallState
    <2>1. CASE runs[keys[Identity(a)]].request # Request(a)
        <3>1. Raise(a, "idempotency_conflict") /\ "idempotency_conflict" \in Errors
            BY <2>1 DEF Existing, Errors
        <3> QED BY <2>0, <3>1, Raised
    <2>2. CASE runs[keys[Identity(a)]].request = Request(a)
        <3>1. call' = [call EXCEPT ![a].pc = "returned", ![a].id = keys[Identity(a)]]
            BY <2>2 DEF Existing
        <3> QED BY <1>2, <2>0, <2>2, <3>1 DEF CallState
    <2> QED BY <2>1, <2>2
<1>4. TypeOK'
    BY <1>1, <1>3 DEF TypeOK, CallState
<1>5. CallHolds' /\ DriverHolds' /\ Bound'
    <2>1. call[a].pc = "prepared" /\ Request(a) \in Requests
        BY DEF CreateOrGet, CallHolds
    <2> QED BY <1>1, <1>2, <1>3, <2>1 DEF CallHolds, DriverHolds, Bound, Request
<1>6. Owned' /\ Once'
    BY <1>1, <1>3 DEF Owned, Once, Identity, Request
<1>7. ReturnsTheOneRun'
    BY <1>1, <1>2, <1>3 DEF ReturnsTheOneRun, Identity, Request
<1> QED BY <1>4, <1>5, <1>6, <1>7

\* An admission that creates its run binds a free identity to a free
\* identifier, and is the run's only creator.
LEMMA CreateInv ==
    ASSUME TypeInv, StartInv, NEW a \in Admissions, CreateOrGet(a), Create(a)
    PROVE  TypeInv' /\ StartInv'
<1> USE DEF TypeInv, StartInv
<1>0. /\ call \in [Admissions -> CallState]
      /\ call[a].pc = "prepared" /\ call[a].id \in Ids
      /\ Request(a) \in Requests /\ Identity(a) \in Identities
      /\ keys[Identity(a)] = None
      /\ UNCHANGED <<driver, starts>>
    BY CallTyped DEF CreateOrGet, Create, CallHolds, TypeOK, CallState
<1>1. CASE runs[call[a].id] # None
    <2>1. /\ UNCHANGED <<runs, keys, driver, starts, trail>>
          /\ call' = [call EXCEPT ![a].pc = "raised", ![a].error = "duplicate_run_id"]
        BY <1>0, <1>1 DEF Create, Raise
    <2>2. /\ call' \in [Admissions -> CallState]
          /\ \A b \in Admissions : b # a => call'[b] = call[b]
          /\ call'[a].pc = "raised"
        <3>1. Raise(a, "duplicate_run_id")
            BY <2>1 DEF Raise
        <3>2. "duplicate_run_id" \in Errors
            BY DEF Errors
        <3> QED BY <1>0, <3>1, <3>2, Raised
    <2>3. TypeOK'
        BY <2>1, <2>2 DEF TypeOK, CallState
    <2>4. CallHolds' /\ DriverHolds' /\ Bound'
        BY <2>1, <2>2 DEF CallHolds, DriverHolds, Bound, Request
    <2>5. Owned' /\ Once' /\ ReturnsTheOneRun'
        BY <2>1, <2>2 DEF Owned, Once, ReturnsTheOneRun, Identity, Request
    <2> QED BY <2>3, <2>4, <2>5
<1>2. CASE runs[call[a].id] = None
    <2> DEFINE i == call[a].id
               run == [identity |-> Identity(a), request |-> Request(a), state |-> "accepted"]
    <2>1. /\ runs' = [runs EXCEPT ![i] = run]
          /\ keys' = [keys EXCEPT ![Identity(a)] = i]
          /\ call' = [call EXCEPT ![a].pc = "created", ![a].created = TRUE]
          /\ trail' = [trail EXCEPT ![i] = <<"accepted">>]
        BY <1>2 DEF Create
    <2>2. run \in Run /\ run # None /\ i \in Ids /\ i # None
        BY <1>0, RunAssumption, RunsAssumption DEF Run, RunState
    <2>3. /\ call' \in [Admissions -> CallState]
          /\ \A b \in Admissions : b # a => call'[b] = call[b]
          /\ call'[a].pc = "created" /\ call'[a].id = i
        <3> DEFINE r == [call[a] EXCEPT !.pc = "created", !.created = TRUE]
        <3>1. call[a] \in CallState
            BY <1>0
        <3>2. r \in CallState /\ r.pc = "created" /\ r.id = i
            BY <3>1 DEF CallState
        <3>3. call' = [call EXCEPT ![a] = r]
            BY <2>1
        <3> HIDE DEF r
        <3> QED BY <1>0, <3>2, <3>3
    <2>4. /\ runs' \in [Ids -> Run \cup {None}] /\ runs'[i] = run
          /\ \A j \in Ids : j # i => runs'[j] = runs[j]
        BY <2>1, <2>2 DEF TypeOK
    <2>5. /\ keys' \in [Identities -> Ids \cup {None}] /\ keys'[Identity(a)] = i
          /\ \A k \in Identities : k # Identity(a) => keys'[k] = keys[k]
        BY <1>0, <2>1, <2>2 DEF TypeOK
    <2>6. trail' \in [Ids -> Seq(RunState)]
        <3>1. <<"accepted">> \in Seq(RunState)
            BY DEF RunState
        <3> QED BY <2>1, <3>1 DEF TypeOK
    <2>7. TypeOK'
        BY <1>0, <2>3, <2>4, <2>5, <2>6 DEF TypeOK, CallState
    <2>8. CallHolds' /\ DriverHolds'
        BY <1>0, <2>2, <2>3, <2>4 DEF CallHolds, DriverHolds, Request
    <2>9. Bound'
        <3>1. \A j \in Ids : j # i /\ runs[j] # None =>
                  runs[j].identity \in Identities /\ runs[j].identity # Identity(a)
            BY <1>0, RunsAssumption DEF Bound, TypeOK, Run
        <3>2. \A k \in Identities : k # Identity(a) /\ keys[k] # None => keys[k] \in Ids /\ keys[k] # i
            BY <1>0, <1>2 DEF Bound, TypeOK
        <3>3. \A k \in Identities :
                  keys'[k] # None => runs'[keys'[k]] # None /\ runs'[keys'[k]].identity = k
            <4> SUFFICES ASSUME NEW k \in Identities, keys'[k] # None
                         PROVE  runs'[keys'[k]] # None /\ runs'[keys'[k]].identity = k
                OBVIOUS
            <4>1. CASE k = Identity(a)
                BY <2>2, <2>4, <2>5, <4>1
            <4>2. CASE k # Identity(a)
                BY <2>4, <2>5, <3>2, <4>2 DEF Bound
            <4> QED BY <4>1, <4>2
        <3>4. \A j \in Ids : runs'[j] # None => keys'[runs'[j].identity] = j
            <4> SUFFICES ASSUME NEW j \in Ids, runs'[j] # None
                         PROVE  keys'[runs'[j].identity] = j
                OBVIOUS
            <4>1. CASE j = i
                BY <2>4, <2>5, <4>1
            <4>2. CASE j # i
                BY <2>4, <2>5, <3>1, <4>2 DEF Bound
            <4> QED BY <4>1, <4>2
        <3> QED BY <3>3, <3>4 DEF Bound
    <2>10. starts[i] = 0 /\ UNCHANGED starts
        BY <1>0, <1>2 DEF Once
    <2>11. \A b \in Admissions : call[b].pc = "created" => call[b].id \in Ids /\ call[b].id # i
        BY <1>2 DEF Owned, CallHolds
    <2>12. Owned'
        <3>1. \A b \in Admissions :
                 call'[b].pc = "created" =>
                    /\ runs'[call'[b].id] # None
                    /\ runs'[call'[b].id].identity = Identity(b)
                    /\ runs'[call'[b].id].request = Request(b)
                    /\ starts'[call'[b].id] = 0
            <4> SUFFICES ASSUME NEW b \in Admissions, call'[b].pc = "created"
                         PROVE  /\ runs'[call'[b].id] # None
                                /\ runs'[call'[b].id].identity = Identity(b)
                                /\ runs'[call'[b].id].request = Request(b)
                                /\ starts'[call'[b].id] = 0
                OBVIOUS
            <4>1. CASE b = a
                BY <2>2, <2>3, <2>4, <2>10, <4>1
            <4>2. CASE b # a
                BY <2>3, <2>4, <2>10, <2>11, <4>2 DEF Owned
            <4> QED BY <4>1, <4>2
        <3>2. \A b, c \in Admissions :
                 call'[b].pc = "created" /\ call'[c].pc = "created"
                    /\ call'[b].id = call'[c].id => b = c
            BY <2>3, <2>11 DEF Owned
        <3> QED BY <3>1, <3>2 DEF Owned, Identity, Request
    <2>13. Once'
        BY <2>2, <2>4, <2>10 DEF Once
    <2>14. ReturnsTheOneRun'
        <3> SUFFICES ASSUME NEW b \in Admissions, call'[b].pc = "returned"
                     PROVE  /\ keys'[Identity(b)] = call'[b].id
                            /\ runs'[call'[b].id] # None
                            /\ runs'[call'[b].id].identity = Identity(b)
                            /\ runs'[call'[b].id].request = Request(b)
            BY DEF ReturnsTheOneRun, Identity, Request
        <3>1. b # a /\ call'[b] = call[b] /\ Identity(b) \in Identities
            BY <2>3, CallTyped
        <3>2. /\ keys[Identity(b)] = call[b].id /\ runs[call[b].id] # None
              /\ runs[call[b].id].identity = Identity(b)
              /\ runs[call[b].id].request = Request(b)
            BY <3>1 DEF ReturnsTheOneRun
        <3>3. call[b].id \in Ids
            BY <3>1 DEF CallHolds
        <3>4. Identity(b) # Identity(a)
            BY <1>0, <3>2, <3>3, RunsAssumption
        <3>5. call[b].id # i
            BY <1>2, <3>2
        <3> QED BY <2>4, <2>5, <3>1, <3>2, <3>3, <3>4, <3>5
    <2> QED BY <2>7, <2>8, <2>9, <2>12, <2>13, <2>14
<1> QED BY <1>1, <1>2

\* The start of a created run is its first, and its creator is done with it.
LEMMA StartsInv ==
    ASSUME TypeInv, StartInv, NEW a \in Admissions, Start(a) \/ StartRaises(a)
    PROVE  TypeInv' /\ StartInv'
<1> USE DEF TypeInv, StartInv
<1>0. /\ call \in [Admissions -> CallState]
      /\ call[a].pc = "created" /\ call[a].id \in Ids
      /\ Request(a) \in Requests /\ Identity(a) \in Identities
      /\ starts[call[a].id] = 0 /\ starts \in [Ids -> Nat]
      /\ UNCHANGED <<runs, keys, driver, trail>>
    BY CallTyped DEF Start, StartRaises, Owned, CallHolds, TypeOK, CallState
<1>1. \E n \in {0, 1} : starts' = [starts EXCEPT ![call[a].id] = n]
    BY <1>0 DEF Start, StartRaises
<1>2. /\ starts' \in [Ids -> Nat] /\ starts'[call[a].id] \in {0, 1}
      /\ \A j \in Ids : j # call[a].id => starts'[j] = starts[j]
    BY <1>0, <1>1
<1>3. /\ call' \in [Admissions -> CallState]
      /\ \A b \in Admissions : b # a => call'[b] = call[b]
      /\ call'[a].pc \in {"returned", "raised"} /\ call'[a].id = call[a].id
    <2>1. CASE Start(a)
        BY <1>0, <2>1 DEF Start, CallState
    <2>2. CASE StartRaises(a)
        <3>1. call' = [call EXCEPT ![a].pc = "raised", ![a].error = "executor_failed"]
            BY <2>2 DEF StartRaises, Raise
        <3> QED BY <1>0, <3>1 DEF CallState, Errors
    <2> QED BY <2>1, <2>2
<1>4. TypeOK'
    BY <1>0, <1>2, <1>3 DEF TypeOK, CallState
<1>5. CallHolds' /\ DriverHolds' /\ Bound'
    BY <1>0, <1>3 DEF CallHolds, DriverHolds, Bound, Request
<1>6. Owned'
    <2>1. \A b \in Admissions : call'[b].pc = "created" =>
              /\ b # a /\ call'[b] = call[b]
              /\ call[b].id \in Ids /\ call[b].id # call[a].id
        BY <1>0, <1>3 DEF Owned, CallHolds
    <2> QED BY <1>0, <1>2, <2>1 DEF Owned, Identity, Request
<1>7. Once'
    BY <1>0, <1>2 DEF Once, Owned
<1>8. ReturnsTheOneRun'
    <2>1. /\ keys[Identity(a)] = call[a].id /\ runs[call[a].id] # None
          /\ runs[call[a].id].identity = Identity(a)
          /\ runs[call[a].id].request = Request(a)
        BY <1>0 DEF Owned, Bound
    <2> QED BY <1>0, <1>3, <2>1 DEF ReturnsTheOneRun, Identity, Request
<1> QED BY <1>4, <1>5, <1>6, <1>7, <1>8

\* Reading a run changes nothing; a transition changes a run's state only.
LEMMA DriverInv ==
    ASSUME TypeInv, StartInv, NEW d \in Drivers,
           \/ \E id \in Ids : Get(d, id)
           \/ \E target \in RunState : Transition(d, target)
    PROVE  TypeInv' /\ StartInv'
<1> USE DEF TypeInv, StartInv
<1>0. driver \in [Drivers -> DriverState]
    BY DEF TypeOK, DriverState
<1>1. CASE \E id \in Ids : Get(d, id)
    <2>1. PICK id \in Ids : Get(d, id)
        BY <1>1
    <2>2. /\ UNCHANGED <<runs, keys, call, starts, trail>> /\ runs[id] # None
          /\ driver' = [driver EXCEPT ![d] = [pc |-> "got", id |-> id, seen |-> runs[id].state]]
        BY <2>1 DEF Get
    <2>3. runs[id].state \in RunState
        BY <2>2 DEF TypeOK, Run
    <2>4. /\ driver' \in [Drivers -> DriverState]
          /\ \A e \in Drivers : e # d => driver'[e] = driver[e]
          /\ driver'[d].id = id
        BY <1>0, <2>2, <2>3 DEF DriverState
    <2>5. TypeOK'
        BY <2>2, <2>4 DEF TypeOK, DriverState
    <2>6. CallHolds' /\ DriverHolds' /\ Bound'
        BY <2>2, <2>4 DEF CallHolds, DriverHolds, Bound, Request
    <2>7. Owned' /\ Once' /\ ReturnsTheOneRun'
        BY <2>2 DEF Owned, Once, ReturnsTheOneRun, Identity, Request
    <2> QED BY <2>5, <2>6, <2>7
<1>2. CASE \E target \in RunState : Transition(d, target)
    <2>1. PICK target \in RunState : Transition(d, target)
        BY <1>2
    <2> DEFINE i == driver[d].id
    <2>2. i \in Ids /\ runs[i] # None /\ runs[i] \in Run
        BY <2>1 DEF Transition, DriverHolds, TypeOK
    <2>3. /\ UNCHANGED <<keys, call, starts>>
          /\ driver' = [driver EXCEPT ![d].pc = "idle", ![d].id = None, ![d].seen = None]
        BY <2>1 DEF Transition
    <2>4. /\ driver' \in [Drivers -> DriverState]
          /\ \A e \in Drivers : e # d => driver'[e] = driver[e]
          /\ driver'[d].pc = "idle"
        BY <1>0, <2>3 DEF DriverState
    <2>5. \/ UNCHANGED <<runs, trail>>
          \/ /\ runs' = [runs EXCEPT ![i].state = target]
             /\ trail' = [trail EXCEPT ![i] = Append(@, target)]
        BY <2>1 DEF Transition
    <2>6. runs' \in [Ids -> Run \cup {None}] /\ trail' \in [Ids -> Seq(RunState)]
        <3>1. CASE UNCHANGED <<runs, trail>>
            BY <3>1 DEF TypeOK
        <3>2. CASE /\ runs' = [runs EXCEPT ![i].state = target]
                   /\ trail' = [trail EXCEPT ![i] = Append(@, target)]
            <4>1. [runs[i] EXCEPT !.state = target] \in Run
                BY <2>2 DEF Run
            <4>2. Append(trail[i], target) \in Seq(RunState)
                BY <2>2 DEF TypeOK
            <4> QED BY <3>2, <4>1, <4>2 DEF TypeOK
        <3> QED BY <2>5, <3>1, <3>2
    <2>7. \A j \in Ids :
              /\ runs'[j] = None <=> runs[j] = None
              /\ runs[j] # None => /\ runs'[j].identity = runs[j].identity
                                   /\ runs'[j].request = runs[j].request
        <3>1. CASE UNCHANGED <<runs, trail>>
            BY <3>1
        <3>2. CASE runs' = [runs EXCEPT ![i].state = target]
            <4>1. [runs[i] EXCEPT !.state = target] \in Run
                BY <2>2 DEF Run
            <4>2. runs'[i] = [runs[i] EXCEPT !.state = target]
                BY <2>2, <3>2 DEF TypeOK
            <4>3. \A j \in Ids : j # i => runs'[j] = runs[j]
                BY <3>2 DEF TypeOK
            <4>4. runs'[i] # None
                BY <4>1, <4>2, RunAssumption
            <4> QED BY <2>2, <4>2, <4>3, <4>4 DEF Run
        <3> QED BY <2>5, <3>1, <3>2
    <2>8. TypeOK'
        BY <2>3, <2>4, <2>6 DEF TypeOK, DriverState
    <2>9. CallHolds' /\ DriverHolds'
        BY <2>3, <2>4, <2>7 DEF CallHolds, DriverHolds, Request
    <2>10. Bound'
        <3>1. \A k \in Identities : keys[k] # None => keys[k] \in Ids
            BY DEF TypeOK
        <3>2. \A k \in Identities :
                  keys'[k] # None => runs'[keys'[k]] # None /\ runs'[keys'[k]].identity = k
            BY <2>3, <2>7, <3>1 DEF Bound
        <3>3. \A j \in Ids : runs'[j] # None => keys'[runs'[j].identity] = j
            BY <2>3, <2>7 DEF Bound
        <3> QED BY <3>2, <3>3 DEF Bound
    <2>11. Owned' /\ Once'
        BY <2>3, <2>7 DEF Owned, Once, CallHolds, Identity, Request
    <2>12. ReturnsTheOneRun'
        BY <2>3, <2>7 DEF ReturnsTheOneRun, CallHolds, Identity, Request
    <2> QED BY <2>8, <2>9, <2>10, <2>11, <2>12
<1> QED BY <1>1, <1>2

\* Both invariants are inductive.
LEMMA NextInv == TypeInv /\ StartInv /\ [Next]_vars => TypeInv' /\ StartInv'
<1> SUFFICES ASSUME TypeInv, StartInv, [Next]_vars PROVE TypeInv' /\ StartInv'
    OBVIOUS
<1>1. CASE UNCHANGED vars
    BY <1>1 DEF vars, TypeInv, StartInv, TypeOK, CallHolds, DriverHolds, Bound, Owned, Once,
                ReturnsTheOneRun, Identity, Request
<1>2. ASSUME NEW a \in Admissions, NEW id \in Ids, Prepare(a, id)
      PROVE  TypeInv' /\ StartInv'
    BY <1>2, PrepareInv
<1>3. ASSUME NEW a \in Admissions, CreateOrGet(a)
      PROVE  TypeInv' /\ StartInv'
    BY <1>3, ExistingInv, CreateInv DEF CreateOrGet
<1>4. ASSUME NEW a \in Admissions, Start(a) \/ StartRaises(a)
      PROVE  TypeInv' /\ StartInv'
    BY <1>4, StartsInv
<1>5. ASSUME NEW d \in Drivers,
             \/ \E id \in Ids : Get(d, id)
             \/ \E target \in RunState : Transition(d, target)
      PROVE  TypeInv' /\ StartInv'
    BY <1>5, DriverInv
<1> QED BY <1>1, <1>2, <1>3, <1>4, <1>5 DEF Next

\* Both invariants hold of every behaviour.
LEMMA AlwaysInv == Spec => [](TypeInv /\ StartInv)
BY InitInv, NextInv, PTL DEF Spec

\* Every variable of the control plane keeps its type; in particular the
\* store holds only validated requests.
THEOREM TypeCorrect == Spec => []TypeOK
<1>1. TypeInv /\ StartInv => TypeOK
    BY DEF TypeInv
<1> QED BY <1>1, AlwaysInv, PTL

\* The executor is asked to start at most one worker per (caller, tool,
\* version, idempotency key), for any number of concurrent admissions.
THEOREM AtMostOneWorker == Spec => []OneWorkerPerIdentity
<1>1. TypeInv /\ StartInv => OneWorkerPerIdentity
    BY DEF TypeInv, StartInv, TypeOK, Once, Bound, OneWorkerPerIdentity
<1> QED BY <1>1, AlwaysInv, PTL

\* What admit returns is the one run of its identity, created for the same
\* request.
THEOREM AdmissionIsIdempotent == Spec => []ReturnsTheOneRun
<1>1. TypeInv /\ StartInv => ReturnsTheOneRun
    BY DEF StartInv
<1> QED BY <1>1, AlwaysInv, PTL

--------------------------------------------------------------------------------
(***************************************************************************)
(* Runs nobody started.  The admission that accounts for one is past its   *)
(* store call, so that no later step of it takes its identifier away.      *)
(***************************************************************************)
CreatorsMarked ==
    \A a \in Admissions :
        /\ call[a].pc = "created" => call[a].created
        /\ call[a].error = "executor_failed" => call[a].pc = "raised"

UnstartedInv == CreatorsMarked /\ UnstartedRunsAreAccountedFor

\* A step before a call has created anything takes no run's account away.
LEMMA AccountsKept ==
    ASSUME UnstartedInv, NEW a \in Admissions, call[a].pc \in {"called", "prepared"},
           \A b \in Admissions : b # a => call'[b] = call[b],
           call'[a].pc # "created", call'[a].error # "executor_failed",
           UNCHANGED <<runs, starts>>
    PROVE  UnstartedInv'
<1>1. CreatorsMarked'
    BY DEF UnstartedInv, CreatorsMarked
<1>2. UnstartedRunsAreAccountedFor'
    <2> SUFFICES ASSUME NEW i \in Ids, runs[i] # None, starts[i] = 0
                 PROVE  \E b \in Admissions :
                            /\ call'[b].id = i /\ call'[b].created
                            /\ call'[b].pc = "created" \/ call'[b].error = "executor_failed"
        BY DEF UnstartedRunsAreAccountedFor
    <2>1. PICK b \in Admissions :
              /\ call[b].id = i /\ call[b].created
              /\ call[b].pc = "created" \/ call[b].error = "executor_failed"
        BY DEF UnstartedInv, UnstartedRunsAreAccountedFor
    <2>2. b # a
        BY <2>1 DEF UnstartedInv, CreatorsMarked
    <2> QED BY <2>1, <2>2
<1> QED BY <1>1, <1>2 DEF UnstartedInv

\* The run a call creates is its own to start.
LEMMA CreateAccounted ==
    ASSUME TypeInv, UnstartedInv, NEW a \in Admissions, CreateOrGet(a), keys[Identity(a)] = None,
           runs[call[a].id] = None, Create(a)
    PROVE  UnstartedInv'
<1> DEFINE run == [identity |-> Identity(a), request |-> Request(a), state |-> "accepted"]
           i == call[a].id
<1>1. /\ call \in [Admissions -> CallState] /\ call[a].pc = "prepared" /\ i \in Ids
      /\ runs \in [Ids -> Run \cup {None}]
    BY DEF TypeInv, TypeOK, CallState, CallHolds, CreateOrGet
<1>2. /\ runs' = [runs EXCEPT ![i] = run]
      /\ call' = [call EXCEPT ![a].pc = "created", ![a].created = TRUE]
      /\ UNCHANGED starts
    BY DEF Create, CreateOrGet
<1>3. \A j \in Ids : j # i => runs'[j] = runs[j]
    BY <1>1, <1>2
<1>4. /\ call'[a].pc = "created" /\ call'[a].created /\ call'[a].id = i
      /\ call'[a].error = call[a].error
      /\ \A b \in Admissions : b # a => call'[b] = call[b]
    BY <1>1, <1>2 DEF CallState
<1>5. CreatorsMarked'
    BY <1>1, <1>4 DEF UnstartedInv, CreatorsMarked
<1>6. UnstartedRunsAreAccountedFor'
    <2> SUFFICES ASSUME NEW j \in Ids, runs'[j] # None, starts[j] = 0
                 PROVE  \E b \in Admissions :
                            /\ call'[b].id = j /\ call'[b].created
                            /\ call'[b].pc = "created" \/ call'[b].error = "executor_failed"
        BY <1>2 DEF UnstartedRunsAreAccountedFor
    <2>1. CASE j = i
        BY <1>4, <2>1
    <2>2. CASE j # i
        <3>1. PICK b \in Admissions :
                  /\ call[b].id = j /\ call[b].created
                  /\ call[b].pc = "created" \/ call[b].error = "executor_failed"
            BY <1>3, <2>2 DEF UnstartedInv, UnstartedRunsAreAccountedFor
        <3>2. b # a
            BY <2>2, <3>1
        <3> QED BY <1>4, <3>1, <3>2
    <2> QED BY <2>1, <2>2
<1> QED BY <1>5, <1>6 DEF UnstartedInv

\* A start leaves a started run or a call that was told.
LEMMA StartAccounted ==
    ASSUME TypeInv, UnstartedInv, NEW a \in Admissions, Start(a) \/ StartRaises(a)
    PROVE  UnstartedInv'
<1>1. /\ call \in [Admissions -> CallState] /\ call[a].pc = "created" /\ call[a].created
      /\ call[a].id \in Ids /\ starts \in [Ids -> Nat] /\ UNCHANGED runs
    BY DEF Start, StartRaises, TypeInv, TypeOK, CallState, CallHolds, UnstartedInv, CreatorsMarked
<1>2. /\ \A b \in Admissions : b # a => call'[b] = call[b]
      /\ call'[a].id = call[a].id /\ call'[a].created
      /\ \/ /\ call'[a].pc = "returned" /\ call'[a].error = call[a].error
            /\ starts' = [starts EXCEPT ![call[a].id] = @ + 1]
         \/ /\ call'[a].pc = "raised" /\ call'[a].error = "executor_failed"
            /\ \E began \in {0, 1} : starts' = [starts EXCEPT ![call[a].id] = @ + began]
    <2>1. CASE Start(a)
        BY <1>1, <2>1 DEF Start, CallState
    <2>2. CASE StartRaises(a)
        BY <1>1, <2>2 DEF StartRaises, Raise, CallState
    <2> QED BY <2>1, <2>2
<1>3. \A i \in Ids : i # call[a].id => starts'[i] = starts[i]
    BY <1>1, <1>2
<1>4. CreatorsMarked'
    BY <1>1, <1>2 DEF UnstartedInv, CreatorsMarked
<1>5. UnstartedRunsAreAccountedFor'
    <2> SUFFICES ASSUME NEW i \in Ids, runs[i] # None, starts'[i] = 0
                 PROVE  \E b \in Admissions :
                            /\ call'[b].id = i /\ call'[b].created
                            /\ call'[b].pc = "created" \/ call'[b].error = "executor_failed"
        BY <1>1 DEF UnstartedRunsAreAccountedFor
    <2>1. CASE i = call[a].id
        <3>1. call'[a].error = "executor_failed"
            BY <1>1, <1>2, <2>1
        <3> QED BY <1>2, <2>1, <3>1
    <2>2. CASE i # call[a].id
        <3>1. PICK b \in Admissions :
                  /\ call[b].id = i /\ call[b].created
                  /\ call[b].pc = "created" \/ call[b].error = "executor_failed"
            BY <1>3, <2>2 DEF UnstartedInv, UnstartedRunsAreAccountedFor
        <3>2. b # a
            BY <2>2, <3>1
        <3> QED BY <1>2, <3>1, <3>2
    <2> QED BY <2>1, <2>2
<1> QED BY <1>4, <1>5 DEF UnstartedInv

\* A transition replaces a stored run by the same run in another state.
LEMMA TransitionKeepsRuns ==
    ASSUME TypeInv, NEW d \in Drivers, NEW target \in RunState, Transition(d, target)
    PROVE  /\ driver[d].id \in Ids /\ runs[driver[d].id] # None
           /\ \A i \in Ids : runs'[i] # None => runs[i] # None
<1>1. driver[d].id \in Ids /\ runs[driver[d].id] # None
    BY DEF Transition, TypeInv, DriverHolds
<1>2. \/ UNCHANGED runs
      \/ runs' = [runs EXCEPT ![driver[d].id].state = target]
    BY DEF Transition
<1>3. \A i \in Ids : i # driver[d].id => runs'[i] = runs[i]
    BY <1>2 DEF TypeInv, TypeOK
<1> QED BY <1>1, <1>3

\* Nothing takes a stored run's account away.
LEMMA NextUnstarted ==
    ASSUME TypeInv, StartInv, UnstartedInv, [Next]_vars
    PROVE  UnstartedInv'
<1>1. CASE UNCHANGED vars
    BY <1>1 DEF vars, UnstartedInv, CreatorsMarked, UnstartedRunsAreAccountedFor
<1>2. ASSUME NEW a \in Admissions, NEW id \in Ids, Prepare(a, id)
      PROVE  UnstartedInv'
    <2>1. /\ call \in [Admissions -> CallState] /\ call[a].pc = "called"
          /\ call[a].error # "executor_failed" /\ UNCHANGED <<runs, starts>>
        BY <1>2 DEF Prepare, TypeInv, TypeOK, CallState, UnstartedInv, CreatorsMarked
    <2>2. CASE Refusal(a) # None
        <3>1. /\ call' = [call EXCEPT ![a].pc = "raised", ![a].error = Refusal(a)]
              /\ Refusal(a) # "executor_failed"
            BY <1>2, <2>2 DEF Prepare, Raise, Refusal
        <3>2. /\ \A b \in Admissions : b # a => call'[b] = call[b]
              /\ call'[a].pc = "raised" /\ call'[a].error = Refusal(a)
            BY <2>1, <3>1 DEF CallState
        <3> QED BY <2>1, <3>1, <3>2, AccountsKept
    <2>3. CASE Refusal(a) = None
        <3>1. call' = [call EXCEPT ![a].pc = "prepared", ![a].id = id]
            BY <1>2, <2>3 DEF Prepare
        <3>2. /\ \A b \in Admissions : b # a => call'[b] = call[b]
              /\ call'[a].pc = "prepared" /\ call'[a].error = call[a].error
            BY <2>1, <3>1 DEF CallState
        <3> QED BY <2>1, <3>2, AccountsKept
    <2> QED BY <2>2, <2>3
<1>3. ASSUME NEW a \in Admissions, CreateOrGet(a)
      PROVE  UnstartedInv'
    <2>1. /\ call \in [Admissions -> CallState] /\ call[a].pc = "prepared"
          /\ call[a].error # "executor_failed" /\ UNCHANGED starts
        BY <1>3 DEF CreateOrGet, TypeInv, TypeOK, CallState, UnstartedInv, CreatorsMarked
    <2>2. CASE Existing(a)
        <3>1. /\ UNCHANGED runs
              /\ \/ call' = [call EXCEPT ![a].pc = "raised", ![a].error = "idempotency_conflict"]
                 \/ call' = [call EXCEPT ![a].pc = "returned", ![a].id = keys[Identity(a)]]
            BY <2>2 DEF Existing, Raise
        <3>2. /\ \A b \in Admissions : b # a => call'[b] = call[b]
              /\ call'[a].pc # "created" /\ call'[a].error # "executor_failed"
            BY <2>1, <3>1 DEF CallState
        <3> QED BY <2>1, <3>1, <3>2, AccountsKept
    <2>3. CASE Create(a) /\ runs[call[a].id] # None
        <3>1. /\ UNCHANGED runs
              /\ call' = [call EXCEPT ![a].pc = "raised", ![a].error = "duplicate_run_id"]
            BY <2>3 DEF Create, Raise
        <3>2. /\ \A b \in Admissions : b # a => call'[b] = call[b]
              /\ call'[a].pc # "created" /\ call'[a].error # "executor_failed"
            BY <2>1, <3>1 DEF CallState
        <3> QED BY <2>1, <3>1, <3>2, AccountsKept
    <2>4. CASE Create(a) /\ runs[call[a].id] = None
        <3>1. keys[Identity(a)] = None
            BY <2>4 DEF Create
        <3> QED BY <1>3, <2>4, <3>1, CreateAccounted
    <2> QED BY <1>3, <2>2, <2>3, <2>4 DEF CreateOrGet
<1>4. ASSUME NEW a \in Admissions, Start(a) \/ StartRaises(a)
      PROVE  UnstartedInv'
    BY <1>4, StartAccounted
<1>5. ASSUME NEW d \in Drivers, NEW id \in Ids, Get(d, id)
      PROVE  UnstartedInv'
    BY <1>5 DEF Get, UnstartedInv, CreatorsMarked, UnstartedRunsAreAccountedFor
<1>6. ASSUME NEW d \in Drivers, NEW target \in RunState, Transition(d, target)
      PROVE  UnstartedInv'
    <2>1. UNCHANGED <<call, starts>> /\ \A i \in Ids : runs'[i] # None => runs[i] # None
        BY <1>6, TransitionKeepsRuns DEF Transition
    <2> QED BY <2>1 DEF UnstartedInv, CreatorsMarked, UnstartedRunsAreAccountedFor
<1> QED BY <1>1, <1>2, <1>3, <1>4, <1>5, <1>6 DEF Next

\* A run is stored without a worker only between its creation and its start,
\* or when the caller was told that the start failed.
THEOREM UnstartedAccounted == Spec => []UnstartedRunsAreAccountedFor
<1>1. Init => UnstartedInv
    <2>1. None # "executor_failed"
        BY RunAssumption DEF Errors
    <2> QED BY <2>1 DEF Init, UnstartedInv, CreatorsMarked, UnstartedRunsAreAccountedFor
<1>2. TypeInv /\ StartInv /\ UnstartedInv /\ [Next]_vars => UnstartedInv'
    BY NextUnstarted
<1>3. UnstartedInv => UnstartedRunsAreAccountedFor
    BY DEF UnstartedInv
<1> QED BY <1>1, <1>2, <1>3, AlwaysInv, PTL DEF Spec

--------------------------------------------------------------------------------
(***************************************************************************)
(* The states a run has been in.                                           *)
(***************************************************************************)
\* A legal transition continues a legal trail.
LEMMA TrailContinued ==
    ASSUME NEW old \in Seq(RunState), NEW target \in RunState,
           old # <<>>, old[1] = "accepted", target \in Legal(old[Len(old)]),
           \A n \in 1..(Len(old) - 1) : old[n + 1] \in Legal(old[n])
    PROVE  LET new == Append(old, target) IN
           /\ new # <<>> /\ new[1] = "accepted" /\ new[Len(new)] = target
           /\ \A n \in 1..(Len(new) - 1) : new[n + 1] \in Legal(new[n])
<1> DEFINE new == Append(old, target)
<1>1. /\ Len(old) \in Nat /\ Len(old) >= 1 /\ Len(new) = Len(old) + 1
      /\ new[Len(old) + 1] = target /\ \A n \in 1..Len(old) : new[n] = old[n]
    OBVIOUS
<1>2. new # <<>> /\ new[1] = "accepted" /\ new[Len(new)] = target
    BY <1>1
<1>3. ASSUME NEW n \in 1..(Len(new) - 1)
      PROVE  new[n + 1] \in Legal(new[n])
    <2>1. n \in 1..Len(old) /\ new[n] = old[n]
        BY <1>1
    <2>2. CASE n = Len(old)
        BY <1>1, <2>1, <2>2
    <2>3. CASE n # Len(old)
        <3>1. n \in 1..(Len(old) - 1) /\ n + 1 \in 1..Len(old)
            BY <1>1, <2>1, <2>3
        <3> QED BY <1>1, <2>1, <3>1
    <2> QED BY <2>2, <2>3
<1> QED BY <1>2, <1>3

\* A new run begins a trail.
LEMMA CreateTrail ==
    ASSUME TypeInv, TrailIsLegal, NEW a \in Admissions, CreateOrGet(a), Create(a),
           runs[call[a].id] = None
    PROVE  TrailIsLegal'
<1> DEFINE i == call[a].id
           run == [identity |-> Identity(a), request |-> Request(a), state |-> "accepted"]
<1>1. i \in Ids
    BY DEF TypeInv, CallHolds, CreateOrGet
<1>2. runs' = [runs EXCEPT ![i] = run] /\ trail' = [trail EXCEPT ![i] = <<"accepted">>]
    BY DEF Create
<1>3. /\ runs'[i] = run /\ trail'[i] = <<"accepted">>
      /\ \A j \in Ids : j # i => runs'[j] = runs[j] /\ trail'[j] = trail[j]
    BY <1>1, <1>2 DEF TypeInv, TypeOK
<1>4. run.state = "accepted"
    OBVIOUS
<1> HIDE DEF run, i
<1>5. /\ trail'[i] # <<>> /\ trail'[i][1] = "accepted"
      /\ trail'[i][Len(trail'[i])] = runs'[i].state
      /\ \A n \in 1..(Len(trail'[i]) - 1) : trail'[i][n + 1] \in Legal(trail'[i][n])
    BY <1>3, <1>4
<1>6. \A j \in Ids : j # i /\ runs'[j] # None =>
          /\ trail'[j] # <<>> /\ trail'[j][1] = "accepted"
          /\ trail'[j][Len(trail'[j])] = runs'[j].state
          /\ \A n \in 1..(Len(trail'[j]) - 1) : trail'[j][n + 1] \in Legal(trail'[j][n])
    BY <1>3 DEF TrailIsLegal
<1> QED BY <1>5, <1>6 DEF TrailIsLegal

\* A transition appends what the table allows after the present state.
LEMMA TransitionTrail ==
    ASSUME TypeInv, TrailIsLegal, NEW d \in Drivers, NEW target \in RunState,
           Transition(d, target)
    PROVE  TrailIsLegal'
<1> DEFINE i == driver[d].id
<1>1. i \in Ids /\ runs[i] # None /\ runs[i] \in Run /\ trail[i] \in Seq(RunState)
    BY TransitionKeepsRuns DEF TypeInv, TypeOK
<1>2. CASE UNCHANGED <<runs, trail>>
    BY <1>2 DEF TrailIsLegal
<1>3. CASE /\ runs' = [runs EXCEPT ![i].state = target]
           /\ trail' = [trail EXCEPT ![i] = Append(@, target)]
           /\ target \in Legal(runs[i].state)
    <2>1. /\ runs'[i] = [runs[i] EXCEPT !.state = target] /\ trail'[i] = Append(trail[i], target)
          /\ \A j \in Ids : j # i => runs'[j] = runs[j] /\ trail'[j] = trail[j]
        BY <1>1, <1>3 DEF TypeInv, TypeOK
    <2>2. runs'[i].state = target
        BY <1>1, <2>1 DEF Run
    <2>3. /\ trail[i] # <<>> /\ trail[i][1] = "accepted"
          /\ trail[i][Len(trail[i])] = runs[i].state
          /\ \A n \in 1..(Len(trail[i]) - 1) : trail[i][n + 1] \in Legal(trail[i][n])
        BY <1>1 DEF TrailIsLegal
    <2>4. /\ trail'[i] # <<>> /\ trail'[i][1] = "accepted"
          /\ trail'[i][Len(trail'[i])] = target
          /\ \A n \in 1..(Len(trail'[i]) - 1) : trail'[i][n + 1] \in Legal(trail'[i][n])
        <3> HIDE DEF i
        <3>1. LET new == Append(trail[i], target) IN
              /\ new # <<>> /\ new[1] = "accepted" /\ new[Len(new)] = target
              /\ \A n \in 1..(Len(new) - 1) : new[n + 1] \in Legal(new[n])
            BY <1>1, <1>3, <2>3, TrailContinued
        <3> QED BY <2>1, <3>1
    <2>5. \A j \in Ids : j # i /\ runs'[j] # None =>
              /\ trail'[j] # <<>> /\ trail'[j][1] = "accepted"
              /\ trail'[j][Len(trail'[j])] = runs'[j].state
              /\ \A n \in 1..(Len(trail'[j]) - 1) : trail'[j][n + 1] \in Legal(trail'[j][n])
        <3> HIDE DEF i
        <3> QED BY <2>1 DEF TrailIsLegal
    <2> HIDE DEF i
    <2> QED BY <2>2, <2>4, <2>5 DEF TrailIsLegal
<1> QED BY <1>2, <1>3 DEF Transition

\* No step leaves the table.
LEMMA NextTrail ==
    ASSUME TypeInv, TrailIsLegal, [Next]_vars
    PROVE  TrailIsLegal'
<1>1. CASE UNCHANGED <<runs, trail>>
    BY <1>1 DEF TrailIsLegal
<1>2. ASSUME NEW a \in Admissions, CreateOrGet(a)
      PROVE  TrailIsLegal'
    <2>1. CASE UNCHANGED <<runs, trail>>
        BY <1>1, <2>1
    <2>2. CASE Create(a) /\ runs[call[a].id] = None
        BY <1>2, <2>2, CreateTrail
    <2> QED BY <1>2, <2>1, <2>2 DEF CreateOrGet, Existing, Create
<1>3. ASSUME NEW d \in Drivers, NEW target \in RunState, Transition(d, target)
      PROVE  TrailIsLegal'
    BY <1>3, TransitionTrail
<1>4. \/ UNCHANGED <<runs, trail>>
      \/ \E a \in Admissions : CreateOrGet(a)
      \/ \E d \in Drivers : \E target \in RunState : Transition(d, target)
    BY DEF Next, vars, Prepare, Start, StartRaises, Get
<1> QED BY <1>1, <1>2, <1>3, <1>4

\* The states of a run follow the table from accepted, whatever drivers read
\* and when; a terminal state is the last.
THEOREM TrailLegal == Spec => []TrailIsLegal
<1>1. Init => TrailIsLegal
    BY DEF Init, TrailIsLegal
<1>2. TypeInv /\ StartInv /\ TrailIsLegal /\ [Next]_vars => TrailIsLegal'
    BY NextTrail
<1> QED BY <1>1, <1>2, AlwaysInv, PTL DEF Spec
================================================================================
