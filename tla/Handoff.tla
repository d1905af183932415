-------------------------------- MODULE Handoff --------------------------------
(***************************************************************************)
(* The directory through which the fetch stage hands one response to the   *)
(* inspection stage (contracts/src/handoff.rs), with the two processes     *)
(* that use it: webfetch-fetch writes it (fetch-worker/src/main.rs) and    *)
(* webfetch-inspect reads it and drops the body (inspector/src/main.rs).   *)
(*                                                                         *)
(* Every file-system call is a step of its own.  fs::write is two: the     *)
(* file is truncated and partly written, then complete.  A call may fail   *)
(* and a process may be killed between any two steps; fetch stages may be  *)
(* retried or overlap, inspections may run while a fetch stage writes, and *)
(* files may be replaced by an actor that holds no run's key.  The HMAC    *)
(* and the digest are perfect: a seal is the record of what it was         *)
(* computed over, and a body stands for its own length and digest.         *)
(***************************************************************************)
EXTENDS Naturals, FiniteSets

CONSTANTS
    Runs,           \* run identifiers
    Keys,           \* key material
    KeyOf,          \* the key the controller gives both stages of a run
    ForeignKeys,    \* keys an actor outside the two stages may hold
    Fetchers,       \* executions of webfetch-fetch
    FetcherRun,     \* the run each was started for
    FetcherVersion, \* the artifact/stage version its build writes
    Readers,        \* executions of webfetch-inspect
    ReaderRun,      \* the run each was started for
    Version,        \* the version the inspector's build understands
    Versions,
    Bodies,         \* response bodies; the zero-length one is Empty
    Codes,          \* the failure codes a fetch can end with
    InternalError,  \* the code of a fetch whose handoff could not be written
    None,           \* no code, no digest
    Absent,         \* a file that is not there
    Empty,          \* a zero-length file
    Torn,           \* a proper prefix of what was being written
    Pending,        \* a read that has not returned
    Refused,        \* a read that returned an error
    Overlapping,    \* may the controller start a stage while another one runs?
    MaxFaults       \* bound on failed calls, kills and foreign writes

ASSUME HandoffAssumption ==
    /\ KeyOf \in [Runs -> Keys]
    /\ ForeignKeys \cap {KeyOf[r] : r \in Runs} = {}
    /\ FetcherRun \in [Fetchers -> Runs]
    /\ FetcherVersion \in [Fetchers -> Versions]
    /\ ReaderRun \in [Readers -> Runs]
    /\ InternalError \in Codes
    /\ None \notin Codes
    /\ Absent \notin Bodies
    /\ Overlapping \in BOOLEAN
    /\ MaxFaults \in Nat

VARIABLES
    dir,        \* the content of each file
    fetcher,    \* the state of each webfetch-fetch
    reader,     \* the state of each webfetch-inspect
    faults,     \* failed calls, kills and foreign writes so far
    (***********************************************************************)
    (* Observations: no action's guard reads these.                        *)
    (***********************************************************************)
    sealed,     \* every seal a fetch stage completed
    alone,      \* fetch stages nothing has interfered with since they began
    settled,    \* the seal of a directory written in full and not touched since
    expected    \* what settled was when a read began, until the directory moves

vars == <<dir, fetcher, reader, faults, sealed, alone, settled, expected>>

--------------------------------------------------------------------------------
(***************************************************************************)
(* File contents.                                                          *)
(***************************************************************************)
Files == {"body", "artifact", "stage", "seal"}

StageOutcome == [run : Runs, version : Versions, code : Codes \cup {None}]

FetchArtifact == [run : Runs, version : Versions, body : Bodies]

\* What may be found, or kept, where there is no complete file.
Leftovers == {None, Absent, Empty, Torn}

SealRecord ==
    [key : Keys \cup ForeignKeys, run : Runs,
     stage : StageOutcome \cup Leftovers,
     artifact : FetchArtifact \cup Leftovers,
     digest : Bodies \cup Leftovers]

\* What the HMAC is computed over, with the key.  An absent artifact
\* contributes the empty string, as a zero-length one does.
Seal(key, run, stage, artifact, digest) ==
    [key |-> key, run |-> run, stage |-> stage, artifact |-> artifact,
     digest |-> digest]

\* What the inspection stage finds in a handoff it could authenticate.
HandedFailed(code) == [code |-> code, artifact |-> Empty, body |-> None]
HandedFetched(artifact, body) == [code |-> None, artifact |-> artifact, body |-> body]

Outcomes ==
    [code : Codes, artifact : {Empty}, body : {None}]
        \cup [code : {None}, artifact : FetchArtifact, body : Bodies]

ASSUME AnswerAssumption ==
    /\ Pending # Refused /\ {Pending, Refused} \cap Outcomes = {}
    /\ Leftovers \cap (StageOutcome \cup FetchArtifact \cup SealRecord) = {}

\* The outcome a completed seal stands for.
OutcomeOf(s) ==
    IF s.stage.code # None THEN HandedFailed(s.stage.code)
                           ELSE HandedFetched(s.artifact, s.digest)

--------------------------------------------------------------------------------
(***************************************************************************)
(* The fetch stage.  pc is the file being written, an "unlink" step of     *)
(* write_failure, or how the process stands; open is set between the two   *)
(* steps of fs::write; code is None while write_fetched runs.              *)
(***************************************************************************)
Writing == Files \cup {"unlink_artifact", "unlink_body"}
Exited == {"exit_ok", "exit_failed", "exit_unavailable", "killed"}

Active(f) == fetcher[f].pc \in Writing

StageOf(f) ==
    [run |-> FetcherRun[f], version |-> FetcherVersion[f], code |-> fetcher[f].code]

ArtifactOf(f) ==
    [run |-> FetcherRun[f], version |-> FetcherVersion[f], body |-> fetcher[f].body]

SealOf(f) ==
    LET run == FetcherRun[f] IN
    IF fetcher[f].code = None
    THEN Seal(KeyOf[run], run, StageOf(f), ArtifactOf(f), fetcher[f].body)
    ELSE Seal(KeyOf[run], run, StageOf(f), Empty, None)

\* What the put step fetcher f is at writes.
Content(f) ==
    CASE fetcher[f].pc = "body"     -> fetcher[f].body
      [] fetcher[f].pc = "artifact" -> ArtifactOf(f)
      [] fetcher[f].pc = "stage"    -> StageOf(f)
      [] fetcher[f].pc = "seal"     -> SealOf(f)

\* What a put leaves on disk before it is complete.
Partial(content) == IF content = Empty THEN {Empty} ELSE {Empty, Torn}

\* write_fetched puts the body, its description, the stage outcome and then
\* the seal; write_failure removes the first two before it puts the others.
AfterPut(f) ==
    CASE fetcher[f].pc = "body"     -> "artifact"
      [] fetcher[f].pc = "artifact" -> "stage"
      [] fetcher[f].pc = "stage"    -> "seal"
      [] fetcher[f].pc = "seal"     ->
            IF fetcher[f].code = None THEN "exit_ok" ELSE "exit_failed"

\* The directory moved, so no read in progress can rely on what it was.
Moved == settled' = None /\ expected' = [r \in Readers |-> None]

Init ==
    /\ dir = [file \in Files |-> Absent]
    /\ fetcher = [f \in Fetchers |->
                    [pc |-> "idle", open |-> FALSE, code |-> None, body |-> None]]
    /\ reader = [r \in Readers |->
                    [pc |-> "idle", stage |-> None, artifact |-> None,
                     seal |-> None, body |-> None, answer |-> Pending]]
    /\ faults = 0
    /\ sealed = {}
    /\ alone = {}
    /\ settled = None
    /\ expected = [r \in Readers |-> None]

\* Stages are started by the controller, one after the other's exit unless it
\* lets them overlap (external: no executor is part of the repository yet).
Startable ==
    Overlapping \/ /\ \A f \in Fetchers : ~Active(f)
                   /\ \A r \in Readers : reader[r].pc \in {"idle", "finished", "killed"}

\* A fetch stage begins to write: it is alone if no other is writing.
Begins(f) ==
    alone' = IF \E g \in Fetchers : Active(g) THEN {} ELSE {f}

\* Fetcher::fetch returned a response: write_fetched.
WriteFetched(f, body) ==
    /\ fetcher[f].pc = "idle"
    /\ Startable
    /\ fetcher' = [fetcher EXCEPT ![f].pc = "body", ![f].body = body]
    /\ Begins(f)
    /\ UNCHANGED <<dir, reader, faults, sealed, settled, expected>>

\* Fetcher::fetch returned a code: write_failure.
WriteFailure(f, code) ==
    /\ fetcher[f].pc = "idle"
    /\ Startable
    /\ fetcher' = [fetcher EXCEPT ![f].pc = "unlink_artifact", ![f].code = code]
    /\ Begins(f)
    /\ UNCHANGED <<dir, reader, faults, sealed, settled, expected>>

\* The policy, the key or the request is unusable: nothing is written.
FetcherUnavailable(f) ==
    /\ fetcher[f].pc = "idle"
    /\ fetcher' = [fetcher EXCEPT ![f].pc = "exit_unavailable"]
    /\ UNCHANGED <<dir, reader, faults, sealed, alone, settled, expected>>

\* fs::write has opened the file, truncated it and written some of it.
PutBegins(f) ==
    /\ fetcher[f].pc \in Files
    /\ ~fetcher[f].open
    /\ fetcher' = [fetcher EXCEPT ![f].open = TRUE]
    /\ \E left \in Partial(Content(f)) :
         dir' = [dir EXCEPT ![fetcher[f].pc] = left]
    /\ Moved
    /\ UNCHANGED <<reader, faults, sealed, alone>>

\* fs::write has written the rest.
PutEnds(f) ==
    /\ fetcher[f].pc \in Files
    /\ fetcher[f].open
    /\ dir' = [dir EXCEPT ![fetcher[f].pc] = Content(f)]
    /\ fetcher' = [fetcher EXCEPT ![f].pc = AfterPut(f), ![f].open = FALSE]
    /\ IF fetcher[f].pc = "seal"
       THEN /\ sealed' = sealed \cup {SealOf(f)}
            /\ settled' = IF f \in alone THEN SealOf(f) ELSE None
            /\ expected' = [r \in Readers |-> None]
       ELSE Moved /\ UNCHANGED sealed
    /\ UNCHANGED <<reader, faults, alone>>

\* Mutant: write_failure leaves the previous response in place.
UnlinkNothing(f) ==
    /\ fetcher[f].pc \in {"unlink_artifact", "unlink_body"}
    /\ fetcher' = [fetcher EXCEPT ![f].pc =
            IF fetcher[f].pc = "unlink_artifact" THEN "unlink_body" ELSE "stage"]
    /\ Moved
    /\ UNCHANGED <<dir, reader, faults, sealed, alone>>

\* write_failure removes a file.  A removal that fails is not noticed.
Unlink(f) ==
    /\ fetcher[f].pc \in {"unlink_artifact", "unlink_body"}
    /\ LET file == IF fetcher[f].pc = "unlink_artifact" THEN "artifact" ELSE "body"
           next == IF fetcher[f].pc = "unlink_artifact" THEN "unlink_body" ELSE "stage"
       IN /\ fetcher' = [fetcher EXCEPT ![f].pc = next]
          /\ \/ /\ dir' = [dir EXCEPT ![file] = Absent]
                /\ UNCHANGED faults
             \/ /\ faults < MaxFaults
                /\ faults' = faults + 1
                /\ UNCHANGED dir
    /\ Moved
    /\ UNCHANGED <<reader, sealed, alone>>

\* create_dir_all or a put fails.  main turns a failed write_fetched into
\* write_failure(InternalError), and a failed write_failure into exit code 2.
WriteFails(f) ==
    /\ fetcher[f].pc \in Files \cup {"unlink_artifact"}
    /\ faults < MaxFaults
    /\ faults' = faults + 1
    /\ IF fetcher[f].code = None
       THEN fetcher' = [fetcher EXCEPT ![f].pc = "unlink_artifact", ![f].open = FALSE,
                                       ![f].code = InternalError]
       ELSE fetcher' = [fetcher EXCEPT ![f].pc = "exit_unavailable", ![f].open = FALSE]
    /\ UNCHANGED <<dir, reader, sealed, alone, settled, expected>>

\* The process is killed, at its deadline or with its pod.
FetcherKilled(f) ==
    /\ Active(f)
    /\ faults < MaxFaults
    /\ faults' = faults + 1
    /\ fetcher' = [fetcher EXCEPT ![f].pc = "killed", ![f].open = FALSE]
    /\ UNCHANGED <<dir, reader, sealed, alone, settled, expected>>

--------------------------------------------------------------------------------
(***************************************************************************)
(* The inspection stage.                                                   *)
(***************************************************************************)
\* The read returns an error.
Refuse(r) ==
    /\ reader' = [reader EXCEPT ![r].pc = "answered", ![r].answer = Refused]
    /\ UNCHANGED <<dir, fetcher, sealed, alone, settled, expected>>

\* The key or the rule bundle is unusable: an envelope without content is
\* emitted and the process ends without opening the handoff.
InspectorUnusable(r) ==
    /\ reader[r].pc = "idle"
    /\ Startable
    /\ reader' = [reader EXCEPT ![r].pc = "finished", ![r].answer = Refused]
    /\ UNCHANGED <<dir, fetcher, faults, sealed, alone, settled, expected>>

\* Handoff::read begins with the stage outcome, which must be there.
ReadStage(r) ==
    /\ reader[r].pc = "idle"
    /\ Startable
    /\ IF dir["stage"] = Absent
       THEN Refuse(r)
       ELSE /\ reader' = [reader EXCEPT ![r].pc = "artifact", ![r].stage = dir["stage"]]
            /\ expected' = [expected EXCEPT ![r] =
                    IF /\ settled # None
                       /\ settled.run = ReaderRun[r]
                       /\ settled.stage.version = Version
                    THEN settled ELSE None]
            /\ UNCHANGED <<dir, fetcher, sealed, alone, settled>>
    /\ UNCHANGED faults

\* A missing artifact is a recorded failure with nothing to inspect.
ReadArtifact(r) ==
    /\ reader[r].pc = "artifact"
    /\ reader' = [reader EXCEPT ![r].pc = "seal", ![r].artifact =
            IF dir["artifact"] = Absent THEN Empty ELSE dir["artifact"]]
    /\ UNCHANGED <<dir, fetcher, faults, sealed, alone, settled, expected>>

ReadSeal(r) ==
    /\ reader[r].pc = "seal"
    /\ IF dir["seal"] = Absent
       THEN Refuse(r)
       ELSE /\ reader' = [reader EXCEPT ![r].pc = "body", ![r].seal = dir["seal"]]
            /\ UNCHANGED <<dir, fetcher, sealed, alone, settled, expected>>
    /\ UNCHANGED faults

\* The body is read only when an artifact describes one.
ReadBody(r) ==
    /\ reader[r].pc = "body"
    /\ IF reader[r].artifact # Empty /\ dir["body"] = Absent
       THEN Refuse(r)
       ELSE /\ reader' = [reader EXCEPT ![r].pc = "check", ![r].body =
                    IF reader[r].artifact = Empty THEN None ELSE dir["body"]]
            /\ UNCHANGED <<dir, fetcher, sealed, alone, settled, expected>>
    /\ UNCHANGED faults

\* The seal this stage computes over what it read.
ExpectedSeal(r) ==
    Seal(KeyOf[ReaderRun[r]], ReaderRun[r], reader[r].stage, reader[r].artifact,
         reader[r].body)

\* StageOutcome::check, after the bytes parse as one.
StageAccepted(r) ==
    /\ reader[r].stage \in StageOutcome
    /\ reader[r].stage.version = Version
    /\ reader[r].stage.run = ReaderRun[r]

\* The description parses, is this build's, is this run's and fits the body.
ArtifactAccepted(r) ==
    /\ reader[r].artifact \in FetchArtifact
    /\ reader[r].artifact.version = Version
    /\ reader[r].artifact.run = ReaderRun[r]
    /\ reader[r].artifact.body = reader[r].body

\* Mutant: the recorded seal is read but never compared.
VerdictIgnoringSeal(r) ==
    IF ~StageAccepted(r) THEN Refused
    ELSE IF reader[r].stage.code # None THEN HandedFailed(reader[r].stage.code)
    ELSE IF ~ArtifactAccepted(r) THEN Refused
    ELSE HandedFetched(reader[r].artifact, reader[r].body)

\* Mutant: the seal covers the run and the stage outcome only.
VerdictSealingStage(r) ==
    IF \/ reader[r].seal \in Leftovers
       \/ reader[r].seal.key # KeyOf[ReaderRun[r]] \/ reader[r].seal.run # ReaderRun[r]
       \/ reader[r].seal.stage # reader[r].stage \/ ~StageAccepted(r)
    THEN Refused
    ELSE IF reader[r].stage.code # None THEN HandedFailed(reader[r].stage.code)
    ELSE IF ~ArtifactAccepted(r) THEN Refused
    ELSE HandedFetched(reader[r].artifact, reader[r].body)

\* Mutant: a successful stage outcome is trusted for everything else.
VerdictTrustingStage(r) ==
    IF ~StageAccepted(r) THEN Refused
    ELSE IF reader[r].stage.code # None THEN HandedFailed(reader[r].stage.code)
    ELSE HandedFetched(reader[r].artifact, reader[r].body)

\* What read returns once the files are in memory.
Verdict(r) ==
    IF reader[r].seal # ExpectedSeal(r) \/ ~StageAccepted(r) THEN Refused
    ELSE IF reader[r].stage.code # None THEN HandedFailed(reader[r].stage.code)
    ELSE IF ~ArtifactAccepted(r) THEN Refused
    ELSE HandedFetched(reader[r].artifact, reader[r].body)

Check(r) ==
    /\ reader[r].pc = "check"
    /\ reader' = [reader EXCEPT ![r].pc = "answered", ![r].answer = Verdict(r)]
    /\ UNCHANGED <<dir, fetcher, faults, sealed, alone, settled, expected>>

\* A file that is there cannot be read.
ReadFails(r) ==
    /\ reader[r].pc \in {"idle", "artifact", "seal", "body"}
    /\ reader[r].pc = "body" => reader[r].artifact # Empty
    /\ reader[r].pc = "idle" => Startable
    /\ faults < MaxFaults
    /\ faults' = faults + 1
    /\ Refuse(r)

\* The inspection is over: main drops the body, whatever read returned,
\* unless it was told to keep it.
RemoveBody(r) ==
    /\ reader[r].pc = "answered"
    /\ reader' = [reader EXCEPT ![r].pc = "finished"]
    /\ \/ /\ dir' = [dir EXCEPT !["body"] = Absent]
          /\ alone' = {}
          /\ Moved
          /\ UNCHANGED faults
       \/ /\ faults < MaxFaults
          /\ faults' = faults + 1
          /\ UNCHANGED <<dir, alone, settled, expected>>
    /\ UNCHANGED <<fetcher, sealed>>

KeepArtifact(r) ==
    /\ reader[r].pc = "answered"
    /\ reader' = [reader EXCEPT ![r].pc = "finished"]
    /\ UNCHANGED <<dir, fetcher, faults, sealed, alone, settled, expected>>

ReaderKilled(r) ==
    /\ reader[r].pc \notin {"finished", "killed"}
    /\ faults < MaxFaults
    /\ faults' = faults + 1
    /\ reader' = [reader EXCEPT ![r].pc = "killed"]
    /\ UNCHANGED <<dir, fetcher, sealed, alone, settled, expected>>

--------------------------------------------------------------------------------
(***************************************************************************)
(* An actor that reaches the volume and holds no run's key: it may put     *)
(* back anything it has seen, write any stage outcome, artifact and body,  *)
(* and seal what is there under a key of its own.                          *)
(***************************************************************************)
ForeignSeals ==
    {Seal(key, run, dir["stage"], dir["artifact"], dir["body"]) :
        key \in ForeignKeys, run \in Runs}

ForeignWrite(file, content) ==
    /\ faults < MaxFaults
    /\ faults' = faults + 1
    /\ dir' = [dir EXCEPT ![file] = content]
    /\ alone' = {}
    /\ Moved
    /\ UNCHANGED <<fetcher, reader, sealed>>

ForeignStep ==
    \/ \E file \in Files, left \in {Absent, Empty, Torn} : ForeignWrite(file, left)
    \/ \E body \in Bodies : ForeignWrite("body", body)
    \/ \E artifact \in FetchArtifact : ForeignWrite("artifact", artifact)
    \/ \E stage \in StageOutcome : ForeignWrite("stage", stage)
    \/ \E seal \in sealed \cup ForeignSeals : ForeignWrite("seal", seal)

FetcherStep(f) ==
    \/ \E body \in Bodies : WriteFetched(f, body)
    \/ \E code \in Codes : WriteFailure(f, code)
    \/ FetcherUnavailable(f)
    \/ PutBegins(f) \/ PutEnds(f) \/ Unlink(f)
    \/ WriteFails(f) \/ FetcherKilled(f)

ReaderStep(r) ==
    \/ InspectorUnusable(r)
    \/ ReadStage(r) \/ ReadArtifact(r) \/ ReadSeal(r) \/ ReadBody(r)
    \/ Check(r) \/ ReadFails(r)
    \/ RemoveBody(r) \/ KeepArtifact(r) \/ ReaderKilled(r)

Next ==
    \/ \E f \in Fetchers : FetcherStep(f)
    \/ \E r \in Readers : ReaderStep(r)
    \/ ForeignStep

Spec == Init /\ [][Next]_vars

--------------------------------------------------------------------------------
(***************************************************************************)
(* Properties.                                                             *)
(***************************************************************************)
FetcherState ==
    [pc : {"idle"} \cup Writing \cup Exited, open : BOOLEAN,
     code : Codes \cup {None}, body : Bodies \cup {None}]

ReaderState ==
    [pc : {"idle", "artifact", "seal", "body", "check", "answered", "finished", "killed"},
     stage : StageOutcome \cup Leftovers,
     artifact : FetchArtifact \cup Leftovers,
     seal : SealRecord \cup Leftovers,
     body : Bodies \cup Leftovers,
     answer : Outcomes \cup {Pending, Refused}]

\* Every variable has its type: each file holds what its name says, or what an
\* unfinished or missing write leaves.
TypeOK ==
    /\ dir \in [Files -> Bodies \cup FetchArtifact \cup StageOutcome \cup SealRecord
                          \cup Leftovers]
    /\ dir["body"] \in Bodies \cup Leftovers
    /\ dir["artifact"] \in FetchArtifact \cup Leftovers
    /\ dir["stage"] \in StageOutcome \cup Leftovers
    /\ dir["seal"] \in SealRecord \cup Leftovers
    /\ fetcher \in [Fetchers -> FetcherState]
    /\ reader \in [Readers -> ReaderState]
    /\ faults \in 0..MaxFaults
    /\ sealed \subseteq SealRecord
    /\ alone \subseteq Fetchers
    /\ settled \in SealRecord \cup {None}
    /\ expected \in [Readers -> SealRecord \cup {None}]

\* A read of run r's handoff never answers with anything but an outcome a
\* fetch stage of run r sealed in full: no mixture of two writes, no other
\* run's files, no torn file, nothing an actor without the key put there.
AnswersWereRecorded ==
    \A r \in Readers :
        reader[r].answer \notin {Pending, Refused} =>
            \E s \in sealed : /\ s.run = ReaderRun[r]
                              /\ OutcomeOf(s) = reader[r].answer

\* A read of a directory that one fetch stage wrote without interference, and
\* that nothing touched until the read returned, answers with exactly that
\* stage's outcome, whatever earlier attempts left behind.  Only a failed
\* call or removal may turn the answer into a refusal, never into another
\* outcome.
SettledReadsAgree ==
    \A r \in Readers :
        reader[r].pc = "answered" /\ expected[r] # None =>
            \/ reader[r].answer = OutcomeOf(expected[r])
            \/ reader[r].answer = Refused /\ faults > 0

\* The handoff with its files, seals and faults implements the contract of
\* HandoffContract: outcomes are recorded whole and a read answers once, with
\* one of its own run's or not at all.
Contract == INSTANCE HandoffContract WITH
    recorded <- {<<s.run, OutcomeOf(s)>> : s \in sealed},
    answer <- [r \in Readers |-> reader[r].answer]

ImplementsContract == Contract!Spec

\* "Temporary response data does not outlive the stage that needed it": an
\* inspection that ends, and was not told to keep the artifact, leaves no
\* body behind.
BodyDoesNotOutliveInspection ==
    [][\A r \in Readers :
          /\ reader[r].pc # "finished"
          /\ reader'[r].pc = "finished"
          /\ ~KeepArtifact(r)
          => dir'["body"] = Absent]_vars
================================================================================
