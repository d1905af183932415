----------------------------- MODULE HandoffProofs -----------------------------
(***************************************************************************)
(* What the handoff guarantees for every set of runs, keys, stages and     *)
(* bodies, and any number of faults.                                       *)
(***************************************************************************)
EXTENDS Handoff, TLAPS

--------------------------------------------------------------------------------
(***************************************************************************)
(* Type correctness.                                                       *)
(***************************************************************************)

\* What the type invariant needs of the fetch stage's control: write_fetched
\* runs with a body and without a code, write_failure with a code, and only
\* the latter unlinks.
FetcherControl ==
    \A f \in Fetchers :
        /\ Active(f) /\ fetcher[f].code = None => fetcher[f].body \in Bodies
        /\ fetcher[f].pc \in {"idle", "body", "artifact"} => fetcher[f].code = None
        /\ fetcher[f].pc \in {"unlink_artifact", "unlink_body"} => fetcher[f].code # None

TypeInv == TypeOK /\ FetcherControl

\* What a fetch stage seals is a seal.
LEMMA SealType ==
    ASSUME TypeInv, NEW f \in Fetchers, Active(f)
    PROVE  /\ StageOf(f) \in StageOutcome
           /\ fetcher[f].code = None => ArtifactOf(f) \in FetchArtifact
           /\ SealOf(f) \in SealRecord
<1>1. StageOf(f) \in StageOutcome
  BY HandoffAssumption DEF TypeInv, TypeOK, FetcherState, StageOf, StageOutcome
<1>2. fetcher[f].code = None => ArtifactOf(f) \in FetchArtifact
  BY HandoffAssumption DEF TypeInv, TypeOK, FetcherControl, ArtifactOf, FetchArtifact
<1>3. KeyOf[FetcherRun[f]] \in Keys /\ FetcherRun[f] \in Runs
  BY HandoffAssumption
<1>4. CASE fetcher[f].code = None
  <2>1. fetcher[f].body \in Bodies
    BY <1>4 DEF TypeInv, FetcherControl
  <2>2. QED
    BY <1>1, <1>2, <1>3, <1>4, <2>1 DEF SealOf, Seal, SealRecord
<1>5. CASE fetcher[f].code # None
  BY <1>1, <1>3, <1>5 DEF SealOf, Seal, SealRecord, Leftovers
<1> QED
  BY <1>1, <1>2, <1>4, <1>5

LEMMA InitType == Init => TypeInv
  BY HandoffAssumption DEF Init, TypeInv, TypeOK, FetcherControl, Active, Files, Writing,
     Exited, Leftovers, SealRecord, StageOutcome, FetchArtifact, Outcomes,
     FetcherState, ReaderState

\* A put of fetcher f leaves every file with its type.
LEMMA PutType ==
    ASSUME TypeInv, NEW f \in Fetchers, fetcher[f].pc \in Files
    PROVE  /\ fetcher[f].pc = "body" => Content(f) \in Bodies
           /\ fetcher[f].pc = "artifact" => Content(f) \in FetchArtifact
           /\ fetcher[f].pc = "stage" => Content(f) \in StageOutcome
           /\ fetcher[f].pc = "seal" => Content(f) = SealOf(f) /\ SealOf(f) \in SealRecord
<1>1. Active(f)
  BY DEF Active, Writing
<1>2. fetcher[f].pc = "body" => Content(f) \in Bodies
  BY <1>1 DEF TypeInv, FetcherControl, Content
<1>3. fetcher[f].pc = "artifact" => Content(f) \in FetchArtifact
  BY <1>1, SealType DEF TypeInv, FetcherControl, Content
<1>4. fetcher[f].pc = "stage" => Content(f) \in StageOutcome
  BY <1>1, SealType DEF Content
<1>5. fetcher[f].pc = "seal" => Content(f) = SealOf(f) /\ SealOf(f) \in SealRecord
  BY <1>1, SealType DEF Content
<1> QED
  BY <1>2, <1>3, <1>4, <1>5

\* Replacing one file's content by one of its own type keeps the directory typed.
DirTyped(d) ==
    /\ d \in [Files -> Bodies \cup FetchArtifact \cup StageOutcome \cup SealRecord
                        \cup Leftovers]
    /\ d["body"] \in Bodies \cup Leftovers
    /\ d["artifact"] \in FetchArtifact \cup Leftovers
    /\ d["stage"] \in StageOutcome \cup Leftovers
    /\ d["seal"] \in SealRecord \cup Leftovers

LEMMA DirUpdate ==
    ASSUME NEW d, DirTyped(d), NEW file \in Files, NEW c,
           \/ c \in Leftovers
           \/ file = "body" /\ c \in Bodies
           \/ file = "artifact" /\ c \in FetchArtifact
           \/ file = "stage" /\ c \in StageOutcome
           \/ file = "seal" /\ c \in SealRecord
    PROVE  DirTyped([d EXCEPT ![file] = c])
  BY DEF DirTyped, Files

\* A step of fetcher f that changes only its record: what is left to show.
LEMMA FetcherUpdate ==
    ASSUME TypeInv, NEW f \in Fetchers, NEW s \in FetcherState,
           fetcher' = [fetcher EXCEPT ![f] = s],
           s.pc \in Writing /\ s.code = None => s.body \in Bodies,
           s.pc \in {"idle", "body", "artifact"} => s.code = None,
           s.pc \in {"unlink_artifact", "unlink_body"} => s.code # None
    PROVE  fetcher' \in [Fetchers -> FetcherState] /\ FetcherControl'
  BY DEF TypeInv, TypeOK, FetcherControl, Active

LEMMA FetcherType == TypeInv /\ (\E f \in Fetchers : FetcherStep(f)) => TypeInv'
<1> SUFFICES ASSUME TypeInv, NEW f \in Fetchers, FetcherStep(f)
             PROVE  TypeInv'
  OBVIOUS
<1> USE HandoffAssumption
<1>0. /\ fetcher[f] \in FetcherState
      /\ fetcher[f] = [pc |-> fetcher[f].pc, open |-> fetcher[f].open,
                       code |-> fetcher[f].code, body |-> fetcher[f].body]
      /\ fetcher[f].pc \in Writing /\ fetcher[f].code = None => fetcher[f].body \in Bodies
      /\ fetcher[f].pc \in {"idle", "body", "artifact"} => fetcher[f].code = None
      /\ fetcher[f].pc \in {"unlink_artifact", "unlink_body"} => fetcher[f].code # None
  BY DEF TypeInv, TypeOK, FetcherState, FetcherControl, Active
<1> DEFINE Rest == /\ DirTyped(dir') /\ UNCHANGED reader /\ faults' \in 0..MaxFaults
                   /\ sealed' \subseteq SealRecord /\ alone' \subseteq Fetchers
                   /\ settled' \in SealRecord \cup {None}
                   /\ expected' \in [Readers -> SealRecord \cup {None}]
<1>a. ASSUME Rest, fetcher' \in [Fetchers -> FetcherState], FetcherControl'
      PROVE  TypeInv'
  BY <1>a DEF TypeInv, TypeOK, DirTyped
<1>b. DirTyped(dir)
  BY DEF TypeInv, TypeOK, DirTyped
<1>1. ASSUME NEW body \in Bodies, WriteFetched(f, body) PROVE TypeInv'
  <2> DEFINE s == [fetcher[f] EXCEPT !.pc = "body", !.body = body]
  <2>1. fetcher' = [fetcher EXCEPT ![f] = s] /\ fetcher[f].pc = "idle"
    BY <1>1 DEF WriteFetched
  <2>2. s \in FetcherState /\ s.pc = "body" /\ s.body = body /\ s.code = fetcher[f].code
    BY <1>0 DEF FetcherState, Writing, Files
  <2>3. fetcher' \in [Fetchers -> FetcherState] /\ FetcherControl'
    BY <1>0, <2>1, <2>2, FetcherUpdate
  <2>4. Rest
    BY <1>1, <1>b DEF WriteFetched, Begins, TypeInv, TypeOK
  <2>5. QED
    BY <1>a, <2>3, <2>4
<1>2. ASSUME NEW code \in Codes, WriteFailure(f, code) PROVE TypeInv'
  <2> DEFINE s == [fetcher[f] EXCEPT !.pc = "unlink_artifact", !.code = code]
  <2>1. fetcher' = [fetcher EXCEPT ![f] = s]
    BY <1>2 DEF WriteFailure
  <2>2. s \in FetcherState /\ s.pc = "unlink_artifact" /\ s.code = code /\ code # None
    BY <1>0 DEF FetcherState, Writing, Files
  <2>3. fetcher' \in [Fetchers -> FetcherState] /\ FetcherControl'
    BY <1>0, <2>1, <2>2, FetcherUpdate
  <2>4. Rest
    BY <1>2, <1>b DEF WriteFailure, Begins, TypeInv, TypeOK
  <2>5. QED
    BY <1>a, <2>3, <2>4
<1>3. CASE FetcherUnavailable(f)
  <2> DEFINE s == [fetcher[f] EXCEPT !.pc = "exit_unavailable"]
  <2>1. fetcher' = [fetcher EXCEPT ![f] = s]
    BY <1>3 DEF FetcherUnavailable
  <2>2. s \in FetcherState /\ s.pc = "exit_unavailable"
    BY <1>0 DEF FetcherState, Exited
  <2>3. fetcher' \in [Fetchers -> FetcherState] /\ FetcherControl'
    BY <2>1, <2>2, FetcherUpdate DEF Writing, Files
  <2>4. Rest
    BY <1>3, <1>b DEF FetcherUnavailable, TypeInv, TypeOK
  <2>5. QED
    BY <1>a, <2>3, <2>4
<1>4. CASE PutBegins(f)
  <2> DEFINE s == [fetcher[f] EXCEPT !.open = TRUE]
  <2>1. fetcher' = [fetcher EXCEPT ![f] = s] /\ fetcher[f].pc \in Files
    BY <1>4 DEF PutBegins
  <2>2. s \in FetcherState /\ s.pc = fetcher[f].pc /\ s.code = fetcher[f].code
        /\ s.body = fetcher[f].body
    BY <1>0 DEF FetcherState
  <2>3. fetcher' \in [Fetchers -> FetcherState] /\ FetcherControl'
    BY <1>0, <2>1, <2>2, FetcherUpdate
  <2>4. PICK left \in Leftovers : dir' = [dir EXCEPT ![fetcher[f].pc] = left]
    BY <1>4 DEF PutBegins, Partial, Leftovers
  <2>5. DirTyped(dir')
    BY <1>b, <2>1, <2>4, DirUpdate
  <2>6. Rest
    BY <1>4, <2>5 DEF PutBegins, Moved, TypeInv, TypeOK
  <2>7. QED
    BY <1>a, <2>3, <2>6
<1>5. CASE PutEnds(f)
  <2> DEFINE s == [fetcher[f] EXCEPT !.pc = AfterPut(f), !.open = FALSE]
  <2>1. /\ fetcher' = [fetcher EXCEPT ![f] = s] /\ fetcher[f].pc \in Files
        /\ dir' = [dir EXCEPT ![fetcher[f].pc] = Content(f)]
    BY <1>5 DEF PutEnds
  <2>2. /\ AfterPut(f) \in {"artifact", "stage", "seal", "exit_ok", "exit_failed"}
        /\ AfterPut(f) = "artifact" => fetcher[f].pc = "body"
    BY <2>1 DEF AfterPut, Files
  <2>3. s \in FetcherState /\ s.pc = AfterPut(f) /\ s.code = fetcher[f].code
        /\ s.body = fetcher[f].body
    BY <1>0, <2>2 DEF FetcherState, Writing, Files, Exited
  <2>4. fetcher' \in [Fetchers -> FetcherState] /\ FetcherControl'
    BY <1>0, <2>1, <2>2, <2>3, FetcherUpdate DEF Writing
  <2>5. DirTyped(dir')
    BY <1>b, <2>1, PutType, DirUpdate DEF Files
  <2>6. Rest
    BY <1>5, <2>5, PutType DEF PutEnds, Moved, TypeInv, TypeOK
  <2>7. QED
    BY <1>a, <2>4, <2>6
<1>6. CASE Unlink(f)
  <2>1. PICK next \in {"unlink_body", "stage"}, file \in Files :
            /\ fetcher' = [fetcher EXCEPT ![f] = [@ EXCEPT !.pc = next]]
            /\ dir' = dir \/ dir' = [dir EXCEPT ![file] = Absent]
    BY <1>6 DEF Unlink, Files
  <2> DEFINE s == [fetcher[f] EXCEPT !.pc = next]
  <2>2. s \in FetcherState /\ s.pc = next /\ s.code = fetcher[f].code /\ s.code # None
    BY <1>0, <1>6 DEF FetcherState, Writing, Files, Unlink
  <2>3. fetcher' \in [Fetchers -> FetcherState] /\ FetcherControl'
    BY <2>1, <2>2, FetcherUpdate
  <2>4. DirTyped(dir')
    <3>1. CASE dir' = dir
      BY <1>b, <3>1 DEF DirTyped
    <3>2. CASE dir' = [dir EXCEPT ![file] = Absent]
      <4>1. DirTyped([dir EXCEPT ![file] = Absent])
        BY <1>b, DirUpdate DEF Leftovers
      <4>2. QED
        BY <3>2, <4>1
    <3>3. QED
      BY <2>1, <3>1, <3>2
  <2>5. Rest
    BY <1>6, <2>4 DEF Unlink, Moved, TypeInv, TypeOK
  <2>6. QED
    BY <1>a, <2>3, <2>5
<1>7. CASE WriteFails(f)
  <2>1. PICK s \in FetcherState :
            /\ fetcher' = [fetcher EXCEPT ![f] = s]
            /\ \/ s.pc = "unlink_artifact" /\ s.code = InternalError
               \/ s.pc = "exit_unavailable"
    <3>1. CASE fetcher[f].code = None
      <4> DEFINE s == [fetcher[f] EXCEPT !.pc = "unlink_artifact", !.open = FALSE,
                                         !.code = InternalError]
      <4>1. fetcher' = [fetcher EXCEPT ![f] = s]
        BY <1>7, <3>1 DEF WriteFails
      <4>2. s \in FetcherState /\ s.pc = "unlink_artifact" /\ s.code = InternalError
        BY <1>0 DEF FetcherState, Writing, Files
      <4>3. QED
        BY <4>1, <4>2
    <3>2. CASE fetcher[f].code # None
      <4> DEFINE s == [fetcher[f] EXCEPT !.pc = "exit_unavailable", !.open = FALSE]
      <4>1. fetcher' = [fetcher EXCEPT ![f] = s]
        BY <1>7, <3>2 DEF WriteFails
      <4>2. s \in FetcherState /\ s.pc = "exit_unavailable"
        BY <1>0 DEF FetcherState, Exited
      <4>3. QED
        BY <4>1, <4>2
    <3>3. QED
      BY <3>1, <3>2
  <2>2. fetcher' \in [Fetchers -> FetcherState] /\ FetcherControl'
    BY <2>1, FetcherUpdate DEF Writing, Files
  <2>3. Rest
    BY <1>7, <1>b DEF WriteFails, TypeInv, TypeOK
  <2>4. QED
    BY <1>a, <2>2, <2>3
<1>8. CASE FetcherKilled(f)
  <2> DEFINE s == [fetcher[f] EXCEPT !.pc = "killed", !.open = FALSE]
  <2>1. fetcher' = [fetcher EXCEPT ![f] = s]
    BY <1>8 DEF FetcherKilled
  <2>2. s \in FetcherState /\ s.pc = "killed"
    BY <1>0 DEF FetcherState, Exited
  <2>3. fetcher' \in [Fetchers -> FetcherState] /\ FetcherControl'
    BY <2>1, <2>2, FetcherUpdate DEF Writing, Files
  <2>4. Rest
    BY <1>8, <1>b DEF FetcherKilled, TypeInv, TypeOK
  <2>5. QED
    BY <1>a, <2>3, <2>4
<1> QED
  BY <1>1, <1>2, <1>3, <1>4, <1>5, <1>6, <1>7, <1>8 DEF FetcherStep

LEMMA ReaderUpdate ==
    ASSUME TypeInv, NEW r \in Readers, NEW s \in ReaderState,
           reader' = [reader EXCEPT ![r] = s]
    PROVE  reader' \in [Readers -> ReaderState]
  BY DEF TypeInv, TypeOK

\* What a read answers is an outcome or a refusal.
LEMMA VerdictType ==
    ASSUME TypeInv, NEW r \in Readers
    PROVE  Verdict(r) \in Outcomes \cup {Refused}
<1>1. CASE reader[r].seal # ExpectedSeal(r) \/ ~StageAccepted(r)
  BY <1>1 DEF Verdict
<1>2. CASE /\ reader[r].seal = ExpectedSeal(r) /\ StageAccepted(r)
           /\ reader[r].stage.code # None
  <2>1. reader[r].stage.code \in Codes
    BY <1>2 DEF StageAccepted, StageOutcome
  <2>2. QED
    BY <1>2, <2>1 DEF Verdict, HandedFailed, Outcomes
<1>3. CASE /\ reader[r].seal = ExpectedSeal(r) /\ StageAccepted(r)
           /\ reader[r].stage.code = None /\ ~ArtifactAccepted(r)
  BY <1>3 DEF Verdict
<1>4. CASE /\ reader[r].seal = ExpectedSeal(r) /\ StageAccepted(r)
           /\ reader[r].stage.code = None /\ ArtifactAccepted(r)
  <2>1. reader[r].artifact \in FetchArtifact /\ reader[r].body \in Bodies
    BY <1>4 DEF ArtifactAccepted, FetchArtifact
  <2>2. QED
    BY <1>4, <2>1 DEF Verdict, HandedFetched, Outcomes
<1> QED
  BY <1>1, <1>2, <1>3, <1>4

LEMMA ReaderType == TypeInv /\ (\E r \in Readers : ReaderStep(r)) => TypeInv'
<1> SUFFICES ASSUME TypeInv, NEW r \in Readers, ReaderStep(r)
             PROVE  TypeInv'
  OBVIOUS
<1> USE HandoffAssumption
<1>0. /\ reader[r] \in ReaderState /\ DirTyped(dir)
      /\ UNCHANGED <<fetcher, sealed>>
  BY DEF TypeInv, TypeOK, DirTyped, ReaderStep, InspectorUnusable, ReadStage, ReadArtifact,
     ReadSeal, ReadBody, Check, ReadFails, RemoveBody, KeepArtifact, ReaderKilled, Refuse
<1>1. FetcherControl'
  BY <1>0 DEF TypeInv, FetcherControl, Active
<1>2. /\ faults' \in 0..MaxFaults /\ alone' \subseteq Fetchers
      /\ settled' \in SealRecord \cup {None}
      /\ expected' \in [Readers -> SealRecord \cup {None}]
  BY DEF TypeInv, TypeOK, ReaderStep, InspectorUnusable, ReadStage, ReadArtifact,
     ReadSeal, ReadBody, Check, ReadFails, RemoveBody, KeepArtifact, ReaderKilled, Refuse,
     Moved
<1>3. DirTyped(dir')
  <2>1. CASE UNCHANGED dir
    BY <1>0, <2>1 DEF DirTyped
  <2>2. CASE dir' = [dir EXCEPT !["body"] = Absent]
    BY <1>0, <2>2 DEF DirTyped, Files, Leftovers
  <2>3. QED
    BY <2>1, <2>2 DEF ReaderStep, InspectorUnusable, ReadStage, ReadArtifact,
       ReadSeal, ReadBody, Check, ReadFails, RemoveBody, KeepArtifact, ReaderKilled, Refuse
<1>4. \E s \in ReaderState : reader' = [reader EXCEPT ![r] = s]
  <2>1. CASE InspectorUnusable(r)
    <3> DEFINE s == [reader[r] EXCEPT !.pc = "finished", !.answer = Refused]
    <3>1. s \in ReaderState
      BY <1>0 DEF ReaderState
    <3>2. reader' = [reader EXCEPT ![r] = s]
      BY <2>1 DEF InspectorUnusable
    <3>3. QED
      BY <3>1, <3>2
  <2>2. CASE ReadFails(r)
    <3> DEFINE s == [reader[r] EXCEPT !.pc = "answered", !.answer = Refused]
    <3>1. s \in ReaderState
      BY <1>0 DEF ReaderState
    <3>2. reader' = [reader EXCEPT ![r] = s]
      BY <2>2 DEF ReadFails, Refuse
    <3>3. QED
      BY <3>1, <3>2
  <2>3. CASE Check(r)
    <3> DEFINE s == [reader[r] EXCEPT !.pc = "answered", !.answer = Verdict(r)]
    <3>1. s \in ReaderState
      BY <1>0, VerdictType DEF ReaderState
    <3>2. reader' = [reader EXCEPT ![r] = s]
      BY <2>3 DEF Check
    <3>3. QED
      BY <3>1, <3>2
  <2>4. CASE ReadArtifact(r)
    <3> DEFINE found == IF dir["artifact"] = Absent THEN Empty ELSE dir["artifact"]
               s == [reader[r] EXCEPT !.pc = "seal", !.artifact = found]
    <3>1. found \in FetchArtifact \cup Leftovers
      BY <1>0 DEF DirTyped, Leftovers
    <3>2. reader' = [reader EXCEPT ![r] = s]
      BY <2>4 DEF ReadArtifact
    <3>3. s \in ReaderState
      <4> HIDE DEF found
      <4> QED  BY <1>0, <3>1 DEF ReaderState
    <3>4. QED
      BY <3>2, <3>3
  <2>5. CASE RemoveBody(r) \/ KeepArtifact(r)
    <3> DEFINE s == [reader[r] EXCEPT !.pc = "finished"]
    <3>1. s \in ReaderState
      BY <1>0 DEF ReaderState
    <3>2. reader' = [reader EXCEPT ![r] = s]
      BY <2>5 DEF RemoveBody, KeepArtifact
    <3>3. QED
      BY <3>1, <3>2
  <2>6. CASE ReaderKilled(r)
    <3> DEFINE s == [reader[r] EXCEPT !.pc = "killed"]
    <3>1. s \in ReaderState
      BY <1>0 DEF ReaderState
    <3>2. reader' = [reader EXCEPT ![r] = s]
      BY <2>6 DEF ReaderKilled
    <3>3. QED
      BY <3>1, <3>2
  <2>7. CASE ReadStage(r)
    <3>1. CASE dir["stage"] = Absent
      <4> DEFINE s == [reader[r] EXCEPT !.pc = "answered", !.answer = Refused]
      <4>1. s \in ReaderState
        BY <1>0 DEF ReaderState
      <4>2. reader' = [reader EXCEPT ![r] = s]
        BY <2>7, <3>1 DEF ReadStage, Refuse
      <4>3. QED
        BY <4>1, <4>2
    <3>2. CASE ~(dir["stage"] = Absent)
      <4> DEFINE s == [reader[r] EXCEPT !.pc = "artifact", !.stage = dir["stage"]]
      <4>1. s \in ReaderState
        BY <1>0 DEF ReaderState, DirTyped, Leftovers
      <4>2. reader' = [reader EXCEPT ![r] = s]
        BY <2>7, <3>2 DEF ReadStage
      <4>3. QED
        BY <4>1, <4>2
    <3>3. QED
      BY <3>1, <3>2
  <2>8. CASE ReadSeal(r)
    <3>1. CASE dir["seal"] = Absent
      <4> DEFINE s == [reader[r] EXCEPT !.pc = "answered", !.answer = Refused]
      <4>1. s \in ReaderState
        BY <1>0 DEF ReaderState
      <4>2. reader' = [reader EXCEPT ![r] = s]
        BY <2>8, <3>1 DEF ReadSeal, Refuse
      <4>3. QED
        BY <4>1, <4>2
    <3>2. CASE ~(dir["seal"] = Absent)
      <4> DEFINE s == [reader[r] EXCEPT !.pc = "body", !.seal = dir["seal"]]
      <4>1. s \in ReaderState
        BY <1>0 DEF ReaderState, DirTyped, Leftovers
      <4>2. reader' = [reader EXCEPT ![r] = s]
        BY <2>8, <3>2 DEF ReadSeal
      <4>3. QED
        BY <4>1, <4>2
    <3>3. QED
      BY <3>1, <3>2
  <2>9. CASE ReadBody(r)
    <3>1. CASE reader[r].artifact # Empty /\ dir["body"] = Absent
      <4> DEFINE s == [reader[r] EXCEPT !.pc = "answered", !.answer = Refused]
      <4>1. s \in ReaderState
        BY <1>0 DEF ReaderState
      <4>2. reader' = [reader EXCEPT ![r] = s]
        BY <2>9, <3>1 DEF ReadBody, Refuse
      <4>3. QED
        BY <4>1, <4>2
    <3>2. CASE ~(reader[r].artifact # Empty /\ dir["body"] = Absent)
      <4> DEFINE found == IF reader[r].artifact = Empty THEN None ELSE dir["body"]
                 s == [reader[r] EXCEPT !.pc = "check", !.body = found]
      <4>1. found \in Bodies \cup Leftovers
        BY <1>0 DEF DirTyped, Leftovers
      <4>2. reader' = [reader EXCEPT ![r] = s]
        BY <2>9, <3>2 DEF ReadBody
      <4>3. s \in ReaderState
        <5> HIDE DEF found
        <5> QED  BY <1>0, <4>1 DEF ReaderState
      <4>4. QED
        BY <4>2, <4>3
    <3>3. QED
      BY <3>1, <3>2
  <2> QED
    BY <2>1, <2>2, <2>3, <2>4, <2>5, <2>6, <2>7, <2>8, <2>9 DEF ReaderStep
<1>5. reader' \in [Readers -> ReaderState]
  BY <1>4, ReaderUpdate
<1> QED
  BY <1>0, <1>1, <1>2, <1>3, <1>5 DEF TypeInv, TypeOK, DirTyped

LEMMA ForeignType == TypeInv /\ ForeignStep => TypeInv'
<1> SUFFICES ASSUME TypeInv, ForeignStep
             PROVE  TypeInv'
  OBVIOUS
<1>0. DirTyped(dir)
  BY DEF TypeInv, TypeOK, DirTyped
<1>1. /\ UNCHANGED <<fetcher, reader, sealed>> /\ faults' \in 0..MaxFaults /\ alone' = {}
      /\ settled' = None /\ expected' = [r \in Readers |-> None]
  BY HandoffAssumption DEF ForeignStep, ForeignWrite, Moved, TypeInv, TypeOK
<1>2. FetcherControl'
  BY <1>1 DEF TypeInv, FetcherControl, Active
<1>3. \A seal \in sealed \cup ForeignSeals : seal \in SealRecord
  BY <1>0 DEF TypeInv, TypeOK, ForeignSeals, Seal, SealRecord, DirTyped
<1>4. PICK file \in Files,
           c \in Bodies \cup FetchArtifact \cup StageOutcome \cup SealRecord \cup Leftovers :
          /\ dir' = [dir EXCEPT ![file] = c]
          /\ \/ c \in Leftovers
             \/ file = "body" /\ c \in Bodies
             \/ file = "artifact" /\ c \in FetchArtifact
             \/ file = "stage" /\ c \in StageOutcome
             \/ file = "seal" /\ c \in SealRecord
  BY <1>3 DEF ForeignStep, ForeignWrite, Files, Leftovers
<1>5. DirTyped([dir EXCEPT ![file] = c])
  BY <1>0, <1>4, DirUpdate
<1>6. DirTyped(dir')
  BY <1>4, <1>5
<1> QED
  BY <1>1, <1>2, <1>6 DEF TypeInv, TypeOK, DirTyped

LEMMA StepType == TypeInv /\ [Next]_vars => TypeInv'
<1>1. TypeInv /\ UNCHANGED vars => TypeInv'
  BY DEF vars, TypeInv, TypeOK, FetcherControl, Active
<1> QED
  BY <1>1, FetcherType, ReaderType, ForeignType DEF Next

\* Type correctness of the handoff: every file only ever holds what its name
\* says or what an unfinished write leaves, whatever fails or interferes.
THEOREM TypeCorrect == Spec => []TypeOK
<1>1. Spec => []TypeInv
  BY InitType, StepType, PTL DEF Spec
<1>2. TypeInv => TypeOK
  BY DEF TypeInv
<1> QED
  BY <1>1, <1>2, PTL

--------------------------------------------------------------------------------
(***************************************************************************)
(* A read answers only what its run recorded.  The invariant follows the   *)
(* seal: wherever a seal under a run's own key is found, in the directory  *)
(* or in a reader's memory, a fetch stage of that run completed it.        *)
(***************************************************************************)
Genuine(s) == s \in SealRecord /\ s.key = KeyOf[s.run] => s \in sealed

SealsGenuine == Genuine(dir["seal"]) /\ \A r \in Readers : Genuine(reader[r].seal)

Undecided == {"idle", "artifact", "seal", "body", "check"}

PendingUntilAnswered ==
    \A r \in Readers : reader[r].pc \in Undecided => reader[r].answer = Pending

RecordInv == TypeInv /\ SealsGenuine /\ PendingUntilAnswered /\ AnswersWereRecorded

LEMMA InitRecord == Init => RecordInv
<1> SUFFICES ASSUME Init PROVE RecordInv
  OBVIOUS
<1>1. TypeInv
  BY InitType
<1>2. Absent \notin SealRecord /\ None \notin SealRecord
  BY AnswerAssumption DEF Leftovers
<1> QED
  BY <1>1, <1>2 DEF Init, RecordInv, SealsGenuine, Genuine, PendingUntilAnswered,
     AnswersWereRecorded, Files

\* A reader whose record a step leaves alone keeps what was known of it.
LEMMA RecordKept ==
    ASSUME RecordInv, TypeInv', UNCHANGED reader, sealed \subseteq sealed', Genuine(dir["seal"])'
    PROVE  RecordInv'
  BY DEF RecordInv, SealsGenuine, Genuine, PendingUntilAnswered, AnswersWereRecorded

LEMMA FetcherRecord == RecordInv /\ (\E f \in Fetchers : FetcherStep(f)) => RecordInv'
<1> SUFFICES ASSUME RecordInv, NEW f \in Fetchers, FetcherStep(f)
             PROVE  RecordInv'
  OBVIOUS
<1>1. TypeInv /\ TypeInv' /\ Genuine(dir["seal"])
  BY FetcherType DEF RecordInv, SealsGenuine
<1>2. UNCHANGED reader /\ sealed \subseteq sealed'
  BY DEF FetcherStep, WriteFetched, WriteFailure, FetcherUnavailable, PutBegins, PutEnds,
     Unlink, WriteFails, FetcherKilled
<1>3. \/ dir'["seal"] = dir["seal"]
      \/ dir'["seal"] \in Leftovers
      \/ dir'["seal"] = SealOf(f) /\ SealOf(f) \in sealed'
  <2>1. CASE PutEnds(f)
    <3>1. fetcher[f].pc = "seal" => dir'["seal"] = SealOf(f) /\ SealOf(f) \in sealed'
      BY <1>1, <2>1, PutType DEF PutEnds, TypeInv, TypeOK, Files
    <3>2. fetcher[f].pc # "seal" => dir'["seal"] = dir["seal"]
      BY <1>1, <2>1 DEF PutEnds, TypeInv, TypeOK, Files
    <3>3. QED
      BY <3>1, <3>2
  <2>2. CASE PutBegins(f)
    BY <1>1, <2>2 DEF PutBegins, Partial, Leftovers, TypeInv, TypeOK, Files
  <2>3. CASE Unlink(f)
    BY <1>1, <2>3 DEF Unlink, TypeInv, TypeOK, Files
  <2>4. CASE UNCHANGED dir
    BY <2>4
  <2> QED
    BY <2>1, <2>2, <2>3, <2>4 DEF FetcherStep, WriteFetched, WriteFailure,
       FetcherUnavailable, WriteFails, FetcherKilled
<1>4. Genuine(dir["seal"])'
  BY <1>1, <1>2, <1>3, AnswerAssumption DEF Genuine
<1> QED
  BY <1>1, <1>2, <1>4, RecordKept

LEMMA ForeignRecord == RecordInv /\ ForeignStep => RecordInv'
<1> SUFFICES ASSUME RecordInv, ForeignStep
             PROVE  RecordInv'
  OBVIOUS
<1>1. TypeInv /\ TypeInv' /\ Genuine(dir["seal"])
  BY ForeignType DEF RecordInv, SealsGenuine
<1>2. UNCHANGED <<reader, sealed>>
  BY DEF ForeignStep, ForeignWrite
<1>3. \A s \in ForeignSeals : s.key # KeyOf[s.run]
  BY HandoffAssumption DEF ForeignSeals, Seal
<1>4. \/ dir'["seal"] = dir["seal"]
      \/ dir'["seal"] \in Leftovers
      \/ dir'["seal"] \in sealed \cup ForeignSeals
  BY <1>1 DEF ForeignStep, ForeignWrite, TypeInv, TypeOK, Files, Leftovers
<1>5. Genuine(dir["seal"])'
  BY <1>1, <1>2, <1>3, <1>4, AnswerAssumption DEF Genuine
<1> QED
  BY <1>1, <1>2, <1>5, RecordKept

\* The check compares the seal in memory with one computed under the run's own
\* key, so a match is a genuine seal, and the answer is the outcome it covers.
LEMMA VerdictRecorded ==
    ASSUME RecordInv, NEW r \in Readers, Verdict(r) # Refused
    PROVE  \E s \in sealed : s.run = ReaderRun[r] /\ OutcomeOf(s) = Verdict(r)
<1> DEFINE s == reader[r].seal
<1>1. s = ExpectedSeal(r) /\ StageAccepted(r)
  BY DEF Verdict
<1>2. reader[r] \in ReaderState /\ ReaderRun[r] \in Runs /\ KeyOf[ReaderRun[r]] \in Keys
  BY HandoffAssumption DEF RecordInv, TypeInv, TypeOK
<1>3. s \in SealRecord /\ s.run = ReaderRun[r] /\ s.key = KeyOf[s.run]
  BY <1>1, <1>2 DEF ExpectedSeal, Seal, SealRecord, ReaderState
<1>4. s \in sealed
  BY <1>3 DEF RecordInv, SealsGenuine, Genuine
<1>5. s.stage = reader[r].stage /\ s.artifact = reader[r].artifact /\ s.digest = reader[r].body
  BY <1>1 DEF ExpectedSeal, Seal
<1>6. OutcomeOf(s) = Verdict(r)
  <2>1. CASE reader[r].stage.code # None
    BY <1>1, <1>5, <2>1 DEF OutcomeOf, Verdict
  <2>2. CASE reader[r].stage.code = None
    BY <1>1, <1>5, <2>2 DEF OutcomeOf, Verdict
  <2>3. QED
    BY <2>1, <2>2
<1> QED
  BY <1>3, <1>4, <1>6

\* What a step of reader r can change that the invariant speaks of.
LEMMA ReaderChange ==
    ASSUME TypeInv, NEW r \in Readers, ReaderStep(r)
    PROVE  /\ UNCHANGED sealed /\ dir'["seal"] = dir["seal"]
           /\ \A q \in Readers : q # r => reader'[q] = reader[q]
           /\ reader'[r].seal \in {reader[r].seal, dir["seal"]}
           /\ \/ reader'[r].answer = reader[r].answer
              \/ reader[r].pc \in Undecided /\ reader'[r].answer \in {Refused, Verdict(r)}
           /\ reader'[r].pc \in Undecided =>
                reader[r].pc \in Undecided /\ reader'[r].answer = reader[r].answer
<1> USE DEF TypeInv, TypeOK, ReaderState, Undecided
<1>1. CASE InspectorUnusable(r)
  BY <1>1 DEF InspectorUnusable
<1>2. CASE ReadStage(r)
  BY <1>2 DEF ReadStage, Refuse
<1>3. CASE ReadArtifact(r)
  BY <1>3 DEF ReadArtifact
<1>4. CASE ReadSeal(r)
  BY <1>4 DEF ReadSeal, Refuse
<1>5. CASE ReadBody(r)
  BY <1>5 DEF ReadBody, Refuse
<1>6. CASE Check(r)
  BY <1>6 DEF Check
<1>7. CASE ReadFails(r)
  BY <1>7 DEF ReadFails, Refuse
<1>8. CASE RemoveBody(r)
  BY <1>8 DEF RemoveBody, Files
<1>9. CASE KeepArtifact(r) \/ ReaderKilled(r)
  BY <1>9 DEF KeepArtifact, ReaderKilled
<1> QED
  BY <1>1, <1>2, <1>3, <1>4, <1>5, <1>6, <1>7, <1>8, <1>9 DEF ReaderStep

LEMMA ReaderRecord == RecordInv /\ (\E r \in Readers : ReaderStep(r)) => RecordInv'
<1> SUFFICES ASSUME RecordInv, NEW r \in Readers, ReaderStep(r)
             PROVE  RecordInv'
  OBVIOUS
<1>1. TypeInv /\ TypeInv'
  BY ReaderType DEF RecordInv
<1>2. /\ UNCHANGED sealed /\ dir'["seal"] = dir["seal"]
      /\ \A q \in Readers : q # r => reader'[q] = reader[q]
      /\ reader'[r].seal \in {reader[r].seal, dir["seal"]}
      /\ \/ reader'[r].answer = reader[r].answer
         \/ reader[r].pc \in Undecided /\ reader'[r].answer \in {Refused, Verdict(r)}
      /\ reader'[r].pc \in Undecided =>
           reader[r].pc \in Undecided /\ reader'[r].answer = reader[r].answer
  BY <1>1, ReaderChange
<1>3. SealsGenuine'
  BY <1>2 DEF RecordInv, SealsGenuine, Genuine
<1>4. PendingUntilAnswered'
  BY <1>2 DEF RecordInv, PendingUntilAnswered
<1>5. AnswersWereRecorded'
  BY <1>2, VerdictRecorded DEF RecordInv, AnswersWereRecorded
<1> QED
  BY <1>1, <1>3, <1>4, <1>5 DEF RecordInv

LEMMA StepRecord == RecordInv /\ [Next]_vars => RecordInv'
<1>1. RecordInv /\ UNCHANGED vars => RecordInv'
  <2> SUFFICES ASSUME RecordInv, UNCHANGED vars PROVE RecordInv'
    OBVIOUS
  <2>1. TypeInv'
    BY StepType DEF RecordInv
  <2>2. QED
    BY <2>1, RecordKept DEF vars, RecordInv, SealsGenuine, Genuine
<1> QED
  BY <1>1, FetcherRecord, ReaderRecord, ForeignRecord DEF Next

LEMMA RecordAlways == Spec => []RecordInv
  BY InitRecord, StepRecord, PTL DEF Spec

\* Handoff::read never returns anything but an outcome some fetch stage of its
\* own run sealed in full, however writes, reads, failures, kills and foreign
\* writes interleave, and even if several runs were given the same key.
THEOREM ReadsAreRecorded == Spec => []AnswersWereRecorded
<1>1. RecordInv => AnswersWereRecorded
  BY DEF RecordInv
<1> QED
  BY <1>1, RecordAlways, PTL

--------------------------------------------------------------------------------
(***************************************************************************)
(* The refinement: the seal's completion is the abstract Record, the end   *)
(* of the check (or an earlier error) is the abstract Answer, and every    *)
(* other step is invisible.                                                *)
(***************************************************************************)
RecordedOutcomes == {<<s.run, OutcomeOf(s)>> : s \in sealed}

LEMMA InitContract == Init => Contract!Init
  BY DEF Init, Contract!Init

LEMMA FetcherContract ==
    RecordInv /\ (\E f \in Fetchers : FetcherStep(f)) =>
        [Contract!Next]_<<RecordedOutcomes, [r \in Readers |-> reader[r].answer]>>
<1> SUFFICES ASSUME RecordInv, NEW f \in Fetchers, FetcherStep(f)
             PROVE  [Contract!Next]_<<RecordedOutcomes, [r \in Readers |-> reader[r].answer]>>
  OBVIOUS
<1>1. UNCHANGED reader
  BY DEF FetcherStep, WriteFetched, WriteFailure, FetcherUnavailable, PutBegins, PutEnds,
     Unlink, WriteFails, FetcherKilled
<1>2. CASE UNCHANGED sealed
  BY <1>1, <1>2 DEF RecordedOutcomes, OutcomeOf
<1>3. CASE PutEnds(f) /\ fetcher[f].pc = "seal"
  <2> DEFINE s == SealOf(f)
  <2>1. sealed' = sealed \cup {s} /\ Active(f) /\ TypeInv
    BY <1>3 DEF PutEnds, Active, Writing, Files, RecordInv
  <2>2. s.run = FetcherRun[f] /\ FetcherRun[f] \in Runs
    BY HandoffAssumption DEF SealOf, Seal
  <2>3. OutcomeOf(s) \in Outcomes
    <3>1. CASE fetcher[f].code = None
      <4>1. OutcomeOf(s) = HandedFetched(ArtifactOf(f), fetcher[f].body)
        BY <3>1 DEF SealOf, Seal, OutcomeOf, StageOf
      <4>2. ArtifactOf(f) \in FetchArtifact /\ fetcher[f].body \in Bodies
        BY <2>1, <3>1, SealType DEF TypeInv, FetcherControl
      <4>3. QED
        BY <4>1, <4>2 DEF HandedFetched, Outcomes
    <3>2. CASE fetcher[f].code # None
      <4>1. OutcomeOf(s) = HandedFailed(fetcher[f].code)
        BY <3>2 DEF SealOf, Seal, OutcomeOf, StageOf
      <4>2. fetcher[f].code \in Codes
        BY <2>1, <3>2 DEF TypeInv, TypeOK, FetcherState
      <4>3. QED
        BY <4>1, <4>2 DEF HandedFailed, Outcomes
    <3>3. QED
      BY <3>1, <3>2
  <2>4. RecordedOutcomes' = RecordedOutcomes \cup {<<FetcherRun[f], OutcomeOf(s)>>}
    <3> HIDE DEF s
    <3>1. RecordedOutcomes' = {<<t.run, OutcomeOf(t)>> : t \in sealed \cup {s}}
      BY <2>1 DEF RecordedOutcomes, OutcomeOf
    <3>2. QED
      BY <2>2, <3>1 DEF RecordedOutcomes
  <2>5. Contract!Record(FetcherRun[f], OutcomeOf(s))
    BY <1>1, <2>4 DEF Contract!Record, RecordedOutcomes
  <2>6. \E run \in Runs, outcome \in Outcomes : Contract!Record(run, outcome)
    BY <2>2, <2>3, <2>5, Zenon DEF Contract!Record
  <2>7. QED
    BY <2>6 DEF Contract!Next
<1> QED
  BY <1>2, <1>3 DEF FetcherStep, WriteFetched, WriteFailure, FetcherUnavailable, PutBegins,
     PutEnds, Unlink, WriteFails, FetcherKilled

LEMMA ReaderContract ==
    RecordInv /\ (\E r \in Readers : ReaderStep(r)) =>
        [Contract!Next]_<<RecordedOutcomes, [r \in Readers |-> reader[r].answer]>>
<1> SUFFICES ASSUME RecordInv, NEW r \in Readers, ReaderStep(r)
             PROVE  [Contract!Next]_<<RecordedOutcomes, [q \in Readers |-> reader[q].answer]>>
  OBVIOUS
<1> DEFINE a == reader'[r].answer
<1>1. /\ UNCHANGED sealed
      /\ \A q \in Readers : q # r => reader'[q] = reader[q]
      /\ \/ a = reader[r].answer
         \/ reader[r].pc \in Undecided /\ a \in {Refused, Verdict(r)}
  BY ReaderChange DEF RecordInv
<1>2. UNCHANGED RecordedOutcomes
  BY <1>1 DEF RecordedOutcomes, OutcomeOf
<1>3. CASE a = reader[r].answer
  <2>1. UNCHANGED [q \in Readers |-> reader[q].answer]
    BY <1>1, <1>3
  <2>2. QED
    BY <1>2, <2>1
<1>4. CASE reader[r].pc \in Undecided /\ a \in {Refused, Verdict(r)}
  <2>1. reader[r].answer = Pending
    BY <1>4 DEF RecordInv, PendingUntilAnswered
  <2>2. a \in Outcomes \cup {Refused}
    BY <1>4, VerdictType DEF RecordInv
  <2>3. a = Refused \/ <<ReaderRun[r], a>> \in RecordedOutcomes
    BY <1>4, VerdictRecorded DEF RecordedOutcomes
  <2>4. [q \in Readers |-> reader[q].answer]'
            = [[q \in Readers |-> reader[q].answer] EXCEPT ![r] = a]
    BY <1>1
  <2>5. Contract!Answer(r, a)
    BY <1>2, <2>1, <2>3, <2>4 DEF Contract!Answer, RecordedOutcomes
  <2>6. \E q \in Readers, b \in Outcomes \cup {Refused} : Contract!Answer(q, b)
    BY <2>2, <2>5, Zenon DEF Contract!Answer
  <2>7. QED
    BY <2>6 DEF Contract!Next
<1> QED
  BY <1>1, <1>3, <1>4

LEMMA StepContract ==
    RecordInv /\ [Next]_vars =>
        [Contract!Next]_<<RecordedOutcomes, [r \in Readers |-> reader[r].answer]>>
<1>1. ForeignStep \/ UNCHANGED vars =>
        UNCHANGED <<RecordedOutcomes, [r \in Readers |-> reader[r].answer]>>
  BY DEF ForeignStep, ForeignWrite, vars, RecordedOutcomes, OutcomeOf
<1> QED
  BY <1>1, FetcherContract, ReaderContract DEF Next

\* The directory of files, written and read step by step under failures and
\* interference, implements the contract the inspection stage relies on:
\* outcomes recorded whole, each read answered once and only from its own run.
THEOREM HandoffImplementsContract == Spec => ImplementsContract
<1>1. Init => Contract!Init
  BY InitContract
<1>2. RecordInv /\ [Next]_vars =>
        [Contract!Next]_<<RecordedOutcomes, [r \in Readers |-> reader[r].answer]>>
  BY StepContract
<1> QED
  BY <1>1, <1>2, RecordAlways, PTL DEF Spec, ImplementsContract, Contract!Spec, RecordedOutcomes

--------------------------------------------------------------------------------
(***************************************************************************)
(* A directory one fetch stage wrote alone is answered as it was sealed.   *)
(* The invariant follows the files: what the stage that is alone has put   *)
(* so far, what a settled directory holds, and what a read that began on   *)
(* a settled directory has in memory.                                      *)
(***************************************************************************)
\* A seal as a fetch stage makes it.
Made(s) ==
    /\ s = Seal(KeyOf[s.run], s.run, s.stage, s.artifact, s.digest)
    /\ s.stage \in StageOutcome /\ s.stage.run = s.run
    /\ s.stage.code = None =>
         /\ s.artifact \in FetchArtifact /\ s.artifact.run = s.run
         /\ s.artifact.version = s.stage.version /\ s.artifact.body = s.digest
    /\ s.stage.code # None => s.artifact = Empty /\ s.digest = None

\* The directory holds a seal and what it was made of.  Only a removal that
\* failed leaves an artifact beside a failure.
Held(s) ==
    /\ dir["seal"] = s /\ dir["stage"] = s.stage
    /\ s.stage.code = None => dir["artifact"] = s.artifact /\ dir["body"] = s.digest
    /\ s.stage.code # None => dir["artifact"] = Absent \/ faults > 0

SettledHeld == settled # None => Made(settled) /\ Held(settled)

\* What a fetch stage that is alone has put, or removed, so far.
Put(f) ==
    /\ fetcher[f].code = None /\ fetcher[f].pc \in {"artifact", "stage", "seal"}
         => dir["body"] = fetcher[f].body
    /\ fetcher[f].code = None /\ fetcher[f].pc \in {"stage", "seal"}
         => dir["artifact"] = ArtifactOf(f)
    /\ fetcher[f].code # None /\ fetcher[f].pc \in {"unlink_body", "stage", "seal"}
         => dir["artifact"] = Absent \/ faults > 0
    /\ fetcher[f].pc = "seal" => dir["stage"] = StageOf(f)

AloneHas ==
    \A f \in alone : Active(f) => Put(f) /\ \A g \in Fetchers : Active(g) => g = f

\* What a read that began on a settled directory has in memory, and answers.
Tracks(r) ==
    expected[r] # None =>
        /\ settled = expected[r] /\ reader[r].pc # "idle"
        /\ settled.run = ReaderRun[r] /\ settled.stage.version = Version
        /\ reader[r].pc \in {"artifact", "seal", "body", "check"} => reader[r].stage = dir["stage"]
        /\ reader[r].pc \in {"seal", "body", "check"} =>
             reader[r].artifact = IF dir["artifact"] = Absent THEN Empty ELSE dir["artifact"]
        /\ reader[r].pc \in {"body", "check"} => reader[r].seal = dir["seal"]
        /\ reader[r].pc = "check" =>
             reader[r].body = IF reader[r].artifact = Empty THEN None ELSE dir["body"]
        /\ reader[r].pc = "answered" =>
             \/ reader[r].answer = OutcomeOf(settled)
             \/ reader[r].answer = Refused /\ faults > 0

SettledInv == TypeInv /\ SettledHeld /\ AloneHas /\ \A r \in Readers : Tracks(r)

LEMMA InitSettled == Init => SettledInv
  BY InitType DEF Init, SettledInv, SettledHeld, AloneHas, Tracks

\* What fetcher f seals is a seal as a fetch stage makes it.
LEMMA SealMade ==
    ASSUME TypeInv, NEW f \in Fetchers, Active(f)
    PROVE  Made(SealOf(f)) /\ SealOf(f).stage = StageOf(f) /\ SealOf(f) # None
<1>1. /\ StageOf(f) \in StageOutcome /\ StageOf(f).run = FetcherRun[f]
      /\ StageOf(f).code = fetcher[f].code /\ StageOf(f).version = FetcherVersion[f]
      /\ SealOf(f) # None
  BY SealType, AnswerAssumption DEF StageOf, Leftovers
<1>2. CASE fetcher[f].code = None
  <2>1. /\ ArtifactOf(f) \in FetchArtifact /\ ArtifactOf(f).run = FetcherRun[f]
        /\ ArtifactOf(f).version = FetcherVersion[f] /\ ArtifactOf(f).body = fetcher[f].body
    BY <1>2, SealType DEF ArtifactOf
  <2>2. /\ SealOf(f).run = FetcherRun[f] /\ SealOf(f).stage = StageOf(f)
        /\ SealOf(f).artifact = ArtifactOf(f) /\ SealOf(f).digest = fetcher[f].body
        /\ SealOf(f) = Seal(KeyOf[FetcherRun[f]], FetcherRun[f], StageOf(f), ArtifactOf(f),
                            fetcher[f].body)
    BY <1>2 DEF SealOf, Seal
  <2> QED
    BY <1>1, <1>2, <2>1, <2>2 DEF Made
<1>3. CASE fetcher[f].code # None
  <2>1. /\ SealOf(f).run = FetcherRun[f] /\ SealOf(f).stage = StageOf(f)
        /\ SealOf(f).artifact = Empty /\ SealOf(f).digest = None
        /\ SealOf(f) = Seal(KeyOf[FetcherRun[f]], FetcherRun[f], StageOf(f), Empty, None)
    BY <1>3 DEF SealOf, Seal
  <2> QED
    BY <1>1, <1>3, <2>1 DEF Made
<1> QED
  BY <1>2, <1>3

\* Where the directory moved there is nothing left to agree with.
LEMMA MovedSettled ==
    ASSUME TypeInv', Moved, AloneHas'
    PROVE  SettledInv'
  BY DEF Moved, SettledInv, SettledHeld, Tracks

\* Where neither the directory nor a reader changes, reads stay on track.
LEMMA TracksKept ==
    ASSUME SettledInv, UNCHANGED <<dir, reader, settled, expected>>,
           faults \in Nat, faults' \in Nat, faults' >= faults
    PROVE  SettledHeld' /\ \A r \in Readers : Tracks(r)'
<1>1. SettledHeld'
  BY DEF SettledInv, SettledHeld, Made, Held
<1>2. \A r \in Readers : Tracks(r)'
  BY DEF SettledInv, Tracks
<1> QED
  BY <1>1, <1>2

\* Nothing is left to show of a stage that is not writing, or has just begun.
LEMMA AloneQuiet ==
    ASSUME SettledInv, NEW f \in Fetchers, UNCHANGED dir,
           faults \in Nat, faults' \in Nat, faults' >= faults,
           \A g \in Fetchers : g # f => fetcher'[g] = fetcher[g],
           \/ alone' = alone
           \/ alone' = {}
           \/ alone' = {f} /\ \A g \in Fetchers : ~Active(g),
           Active(f)' => /\ fetcher'[f].pc \in {"body", "unlink_artifact"}
                         /\ Active(f) \/ alone' = {} \/ \A g \in Fetchers : ~Active(g)
    PROVE  AloneHas'
<1> SUFFICES ASSUME NEW h \in alone', Active(h)'
             PROVE  Put(h)' /\ \A g \in Fetchers : Active(g)' => g = h
  BY DEF AloneHas
<1>1. h \in Fetchers
  BY DEF SettledInv, TypeInv, TypeOK
<1>2. CASE h = f
  <2>1. Put(h)'
    BY <1>2 DEF Put
  <2>2. \A g \in Fetchers : g # f => ~Active(g)'
    BY <1>2 DEF SettledInv, AloneHas, Active
  <2> QED
    BY <1>2, <2>1, <2>2
<1>3. CASE h # f
  <2>1. h \in alone /\ Active(h) /\ ~Active(f)
    BY <1>1, <1>3 DEF SettledInv, AloneHas, Active
  <2>2. Put(h)'
    BY <1>1, <1>3, <2>1 DEF SettledInv, AloneHas, Put, ArtifactOf, StageOf
  <2>3. alone' = alone
    BY <1>3, <2>1
  <2> QED
    BY <1>1, <1>3, <2>1, <2>2, <2>3 DEF SettledInv, AloneHas, Active
<1> QED
  BY <1>2, <1>3

LEMMA FetcherSettled == SettledInv /\ (\E f \in Fetchers : FetcherStep(f)) => SettledInv'
<1> SUFFICES ASSUME SettledInv, NEW f \in Fetchers, FetcherStep(f)
             PROVE  SettledInv'
  OBVIOUS
<1>0. /\ TypeInv /\ TypeInv' /\ fetcher \in [Fetchers -> FetcherState]
      /\ faults \in Nat /\ faults' \in Nat
  <2>1. TypeInv /\ TypeInv'
    BY FetcherType DEF SettledInv
  <2> QED
    BY <2>1, HandoffAssumption DEF TypeInv, TypeOK
<1>1. CASE \/ \E body \in Bodies : WriteFetched(f, body)
           \/ \E code \in Codes : WriteFailure(f, code)
           \/ FetcherUnavailable(f) \/ WriteFails(f) \/ FetcherKilled(f)
  <2>1. /\ UNCHANGED <<dir, reader, settled, expected>> /\ faults' >= faults
        /\ \A g \in Fetchers : g # f => fetcher'[g] = fetcher[g]
    BY <1>0, <1>1 DEF WriteFetched, WriteFailure, FetcherUnavailable, WriteFails, FetcherKilled
  <2>2. \/ alone' = alone
        \/ alone' = {}
        \/ alone' = {f} /\ \A g \in Fetchers : ~Active(g)
    BY <1>1 DEF WriteFetched, WriteFailure, FetcherUnavailable, WriteFails, FetcherKilled, Begins
  <2>3. Active(f)' => /\ fetcher'[f].pc \in {"body", "unlink_artifact"}
                      /\ Active(f) \/ alone' = {} \/ \A g \in Fetchers : ~Active(g)
    <3>1. CASE \/ \E body \in Bodies : WriteFetched(f, body)
               \/ \E code \in Codes : WriteFailure(f, code)
      <4>1. fetcher'[f].pc \in {"body", "unlink_artifact"}
        BY <1>0, <3>1 DEF WriteFetched, WriteFailure, FetcherState
      <4>2. alone' = {} \/ \A g \in Fetchers : ~Active(g)
        BY <3>1 DEF WriteFetched, WriteFailure, Begins
      <4> QED
        BY <4>1, <4>2
    <3>2. CASE WriteFails(f)
      <4>1. Active(f)
        BY <3>2 DEF WriteFails, Active, Writing
      <4>2. fetcher'[f].pc \in {"unlink_artifact", "exit_unavailable"}
        BY <1>0, <3>2 DEF WriteFails, FetcherState
      <4> QED
        BY <4>1, <4>2 DEF Active, Writing, Files
    <3>3. CASE FetcherUnavailable(f) \/ FetcherKilled(f)
      <4>1. fetcher'[f].pc \in {"exit_unavailable", "killed"}
        BY <1>0, <3>3 DEF FetcherUnavailable, FetcherKilled, FetcherState
      <4> QED
        BY <4>1 DEF Active, Writing, Files
    <3> QED
      BY <1>1, <3>1, <3>2, <3>3
  <2>4. AloneHas'
    BY <1>0, <2>1, <2>2, <2>3, AloneQuiet
  <2> QED
    BY <1>0, <2>1, <2>4, TracksKept DEF SettledInv
<1> DEFINE pc == fetcher[f].pc
<1>2. CASE PutBegins(f)
  <2>1. /\ pc \in Files /\ UNCHANGED <<faults, alone>>
        /\ fetcher' = [fetcher EXCEPT ![f].open = TRUE]
        /\ \A file \in Files : file # pc => dir'[file] = dir[file]
    BY <1>0, <1>2 DEF PutBegins, TypeInv, TypeOK
  <2>2. \A g \in Fetchers : /\ fetcher'[g].pc = fetcher[g].pc /\ fetcher'[g].code = fetcher[g].code
                            /\ fetcher'[g].body = fetcher[g].body
    BY <1>0, <2>1 DEF FetcherState
  <2>3. AloneHas'
    <3> SUFFICES ASSUME NEW h \in alone, Active(h)
                 PROVE  Put(h)' /\ \A g \in Fetchers : Active(g)' => g = h
      BY <1>0, <2>1, <2>2 DEF AloneHas, Active, TypeInv, TypeOK
    <3>1. h = f /\ Put(f)
      BY <2>1 DEF SettledInv, AloneHas, Active, Writing
    <3>2. Put(f)'
      BY <2>1, <2>2, <3>1 DEF Put, ArtifactOf, StageOf, Files
    <3> QED
      BY <2>2, <3>1, <3>2 DEF SettledInv, AloneHas, Active
  <2> QED
    BY <1>0, <1>2, <2>3, MovedSettled DEF PutBegins
<1>3. CASE PutEnds(f)
  <2>1. /\ pc \in Files /\ UNCHANGED <<faults, alone>> /\ Active(f)
        /\ fetcher' = [fetcher EXCEPT ![f].pc = AfterPut(f), ![f].open = FALSE]
    BY <1>3 DEF PutEnds, Active, Writing
  <2>2. dir'[pc] = Content(f) /\ \A file \in Files : file # pc => dir'[file] = dir[file]
    BY <1>0, <1>3 DEF PutEnds, TypeInv, TypeOK
  <2>3. /\ \A g \in Fetchers : g # f => fetcher'[g] = fetcher[g]
        /\ fetcher'[f].pc = AfterPut(f) /\ fetcher'[f].code = fetcher[f].code
        /\ fetcher'[f].body = fetcher[f].body
    BY <1>0, <2>1 DEF FetcherState
  <2>4. f \in alone => Put(f)
    BY <2>1 DEF SettledInv, AloneHas
  <2>5. AloneHas'
    <3> SUFFICES ASSUME NEW h \in alone, Active(h)'
                 PROVE  Put(h)' /\ \A g \in Fetchers : Active(g)' => g = h
      BY <2>1 DEF AloneHas
    <3>1. h = f /\ \A g \in Fetchers : Active(g) => g = f
      <4>1. h \in Fetchers /\ Active(h)
        BY <1>0, <2>1, <2>3 DEF Active, TypeInv, TypeOK
      <4> QED
        BY <2>1, <4>1 DEF SettledInv, AloneHas
    <3>2. Put(f)'
      <4>1. StageOf(f)' = StageOf(f) /\ ArtifactOf(f)' = ArtifactOf(f)
        BY <2>3 DEF StageOf, ArtifactOf
      <4>2. pc \in {"body", "artifact", "stage"}
        <5>1. pc # "seal"
          BY <2>3, <3>1 DEF AfterPut, Active, Writing, Files
        <5> QED
          BY <2>1, <5>1 DEF Files
      <4>3. CASE pc = "body"
        BY <1>0, <2>2, <2>3, <4>1, <4>3 DEF Put, AfterPut, Content, Files, TypeInv, FetcherControl
      <4>4. CASE pc = "artifact"
        BY <1>0, <2>2, <2>3, <2>4, <3>1, <4>1, <4>4
           DEF Put, AfterPut, Content, Files, TypeInv, FetcherControl
      <4>5. CASE pc = "stage"
        BY <2>1, <2>2, <2>3, <2>4, <3>1, <4>1, <4>5 DEF Put, AfterPut, Content, Files
      <4> QED
        BY <4>2, <4>3, <4>4, <4>5
    <3> QED
      BY <2>3, <3>1, <3>2 DEF Active
  <2>6. CASE pc # "seal"
    BY <1>0, <1>3, <2>5, <2>6, MovedSettled DEF PutEnds
  <2>7. CASE pc = "seal"
    <3>1. \A r \in Readers : Tracks(r)'
      BY <1>3, <2>7 DEF PutEnds, Tracks
    <3>2. CASE f \in alone
      <4>1. settled' = SealOf(f) /\ dir'["seal"] = SealOf(f)
        BY <1>3, <2>2, <2>7, <3>2 DEF PutEnds, Content
      <4>2. Made(SealOf(f)) /\ SealOf(f).stage = StageOf(f)
        BY <1>0, <2>1, SealMade
      <4>3. /\ StageOf(f).code = fetcher[f].code
            /\ fetcher[f].code = None => /\ SealOf(f).artifact = ArtifactOf(f)
                                         /\ SealOf(f).digest = fetcher[f].body
        BY DEF StageOf, SealOf, Seal
      <4>4. /\ dir'["stage"] = dir["stage"] /\ dir'["artifact"] = dir["artifact"]
            /\ dir'["body"] = dir["body"]
        BY <2>2, <2>7 DEF Files
      <4>5. Held(settled)'
        BY <2>1, <2>4, <2>7, <3>2, <4>1, <4>2, <4>3, <4>4 DEF Held, Put
      <4>6. Made(settled)'
        BY <4>1, <4>2 DEF Made
      <4> QED
        BY <1>0, <2>5, <3>1, <4>5, <4>6 DEF SettledInv, SettledHeld
    <3>3. CASE f \notin alone
      BY <1>0, <1>3, <2>5, <2>7, <3>1, <3>3 DEF PutEnds, SettledInv, SettledHeld
    <3> QED
      BY <3>2, <3>3
  <2> QED
    BY <2>6, <2>7
<1>4. CASE Unlink(f)
  <2>1. /\ pc \in {"unlink_artifact", "unlink_body"} /\ Active(f) /\ fetcher[f].code # None
        /\ UNCHANGED alone
        /\ fetcher' = [fetcher EXCEPT ![f].pc = IF pc = "unlink_artifact" THEN "unlink_body"
                                                                          ELSE "stage"]
    BY <1>0, <1>4 DEF Unlink, Active, Writing, TypeInv, FetcherControl
  <2>2. /\ \A g \in Fetchers : g # f => fetcher'[g] = fetcher[g]
        /\ fetcher'[f].pc = (IF pc = "unlink_artifact" THEN "unlink_body" ELSE "stage")
        /\ fetcher'[f].code = fetcher[f].code
    BY <1>0, <2>1 DEF FetcherState
  <2>3. /\ pc = "unlink_artifact" => dir'["artifact"] = Absent \/ faults' > 0
        /\ pc = "unlink_body" => dir'["artifact"] = dir["artifact"]
        /\ faults' >= faults
    BY <1>0, <1>4 DEF Unlink, Files, TypeInv, TypeOK
  <2>4. AloneHas'
    <3> SUFFICES ASSUME NEW h \in alone, Active(h)'
                 PROVE  Put(h)' /\ \A g \in Fetchers : Active(g)' => g = h
      BY <2>1 DEF AloneHas
    <3>1. h = f /\ Put(f) /\ \A g \in Fetchers : Active(g) => g = f
      <4>1. h \in Fetchers /\ Active(h)
        BY <1>0, <2>1, <2>2 DEF Active, TypeInv, TypeOK
      <4> QED
        BY <2>1, <4>1 DEF SettledInv, AloneHas
    <3>2. Put(f)'
      BY <1>0, <2>1, <2>2, <2>3, <3>1 DEF Put
    <3> QED
      BY <2>2, <3>1, <3>2 DEF Active
  <2> QED
    BY <1>0, <1>4, <2>4, MovedSettled DEF Unlink
<1> QED
  BY <1>1, <1>2, <1>3, <1>4 DEF FetcherStep

\* What a settled directory holds is there to be read.
LEMMA SettledThere ==
    ASSUME SettledInv, settled # None
    PROVE  /\ Made(settled) /\ Held(settled) /\ settled \in SealRecord
           /\ dir["seal"] # Absent
           /\ settled.stage.code = None =>
                /\ dir["artifact"] \in FetchArtifact
                /\ dir["artifact"] # Absent /\ dir["artifact"] # Empty
                /\ dir["body"] # Absent
<1>1. Made(settled) /\ Held(settled) /\ settled \in SealRecord
  BY DEF SettledInv, SettledHeld, TypeInv, TypeOK
<1>2. dir["seal"] # Absent
  BY <1>1, AnswerAssumption DEF Held, Leftovers
<1>3. ASSUME settled.stage.code = None
      PROVE  /\ dir["artifact"] \in FetchArtifact
             /\ dir["artifact"] # Absent /\ dir["artifact"] # Empty
             /\ dir["body"] # Absent
  <2>1. dir["artifact"] \in FetchArtifact /\ dir["body"] = dir["artifact"].body
    BY <1>1, <1>3 DEF Made, Held
  <2>2. dir["artifact"].body \in Bodies
    BY <2>1 DEF FetchArtifact
  <2> QED
    BY <2>1, <2>2, AnswerAssumption, HandoffAssumption DEF Leftovers
<1> QED
  BY <1>1, <1>2, <1>3

\* A read that ran on a settled directory is answered as it was sealed.
LEMMA VerdictSettled ==
    ASSUME SettledInv, NEW r \in Readers, expected[r] # None, reader[r].pc = "check"
    PROVE  \/ Verdict(r) = OutcomeOf(settled)
           \/ Verdict(r) = Refused /\ faults > 0
<1> DEFINE s == settled
<1>1. /\ s # None /\ s.run = ReaderRun[r] /\ s.stage.version = Version
      /\ reader[r].stage = dir["stage"] /\ reader[r].seal = dir["seal"]
      /\ reader[r].artifact = IF dir["artifact"] = Absent THEN Empty ELSE dir["artifact"]
      /\ reader[r].body = IF reader[r].artifact = Empty THEN None ELSE dir["body"]
  BY DEF SettledInv, Tracks
<1>2. Made(s) /\ Held(s)
  BY <1>1, SettledThere
<1>3. reader[r].stage = s.stage /\ reader[r].seal = s /\ StageAccepted(r)
  BY <1>1, <1>2 DEF Made, Held, StageAccepted
<1>4. CASE s.stage.code = None
  <2>1. /\ reader[r].artifact = s.artifact /\ reader[r].body = s.digest
        /\ s.artifact \in FetchArtifact /\ s.artifact.run = s.run
        /\ s.artifact.version = s.stage.version /\ s.artifact.body = s.digest
    BY <1>1, <1>2, <1>4, SettledThere DEF Made, Held
  <2>2. reader[r].seal = ExpectedSeal(r)
    BY <1>1, <1>2, <1>3, <2>1 DEF ExpectedSeal, Made
  <2>3. ArtifactAccepted(r)
    BY <1>1, <2>1 DEF ArtifactAccepted
  <2> QED
    BY <1>3, <1>4, <2>1, <2>2, <2>3 DEF Verdict, OutcomeOf
<1>5. CASE s.stage.code # None
  <2>1. Verdict(r) \in {Refused, HandedFailed(s.stage.code)}
    BY <1>3, <1>5 DEF Verdict
  <2>2. OutcomeOf(s) = HandedFailed(s.stage.code)
    BY <1>5 DEF OutcomeOf
  <2>3. CASE dir["artifact"] = Absent
    <3>1. reader[r].artifact = s.artifact /\ reader[r].body = s.digest
      BY <1>1, <1>2, <1>5, <2>3 DEF Made
    <3>2. reader[r].seal = ExpectedSeal(r)
      BY <1>1, <1>2, <1>3, <3>1 DEF ExpectedSeal, Made
    <3> QED
      BY <1>3, <1>5, <2>2, <3>2 DEF Verdict
  <2> QED
    BY <1>2, <1>5, <2>1, <2>2, <2>3 DEF Held
<1> QED
  BY <1>4, <1>5

\* A read that returns an error before it has a verdict: if it began on a
\* settled directory, a call failed.
LEMMA RefusedSettled ==
    ASSUME SettledInv, NEW r \in Readers, expected[r] # None,
           ReadSeal(r) \/ ReadBody(r), reader'[r].pc = "answered"
    PROVE  faults > 0
<1>1. /\ settled # None
      /\ reader[r].pc = "body" =>
           reader[r].artifact = IF dir["artifact"] = Absent THEN Empty ELSE dir["artifact"]
  BY DEF SettledInv, Tracks
<1>2. reader \in [Readers -> ReaderState]
  BY DEF SettledInv, TypeInv, TypeOK
<1>3. CASE ReadSeal(r)
  <2>1. dir["seal"] = Absent
    BY <1>2, <1>3 DEF ReadSeal, ReaderState
  <2> QED
    BY <1>1, <2>1, SettledThere
<1>4. CASE ReadBody(r)
  <2>1. reader[r].pc = "body" /\ reader[r].artifact # Empty /\ dir["body"] = Absent
    BY <1>2, <1>4 DEF ReadBody, ReaderState
  <2> QED
    BY <1>1, <2>1, SettledThere DEF Held
<1> QED
  BY <1>3, <1>4

LEMMA ReaderSettled == SettledInv /\ (\E r \in Readers : ReaderStep(r)) => SettledInv'
<1> SUFFICES ASSUME SettledInv, NEW r \in Readers, ReaderStep(r)
             PROVE  SettledInv'
  OBVIOUS
<1>0. /\ TypeInv /\ TypeInv' /\ reader \in [Readers -> ReaderState]
      /\ expected \in [Readers -> SealRecord \cup {None}]
      /\ faults \in Nat /\ faults' \in Nat
  <2>1. TypeInv /\ TypeInv'
    BY ReaderType DEF SettledInv
  <2> QED
    BY <2>1, HandoffAssumption DEF TypeInv, TypeOK
<1>1. CASE RemoveBody(r) /\ alone' = {} /\ Moved
  BY <1>0, <1>1, MovedSettled DEF AloneHas
<1>2. CASE ~(RemoveBody(r) /\ alone' = {} /\ Moved)
  <2>1. UNCHANGED <<dir, fetcher, alone, settled>> /\ faults' >= faults
    BY <1>0, <1>2 DEF ReaderStep, InspectorUnusable, ReadStage, ReadArtifact, ReadSeal, ReadBody,
       Check, ReadFails, RemoveBody, KeepArtifact, ReaderKilled, Refuse
  <2>2. SettledHeld'
    BY <1>0, <2>1 DEF SettledInv, SettledHeld, Made, Held
  <2>3. AloneHas'
    <3> SUFFICES ASSUME NEW f \in alone, Active(f)
                 PROVE  Put(f)' /\ \A g \in Fetchers : Active(g) => g = f
      BY <2>1 DEF AloneHas, Active
    <3>1. Put(f) /\ \A g \in Fetchers : Active(g) => g = f
      BY DEF SettledInv, AloneHas
    <3>2. Put(f)'
      BY <1>0, <2>1, <3>1 DEF Put, ArtifactOf, StageOf
    <3> QED
      BY <3>1, <3>2
  <2>4. ASSUME NEW q \in Readers, q # r PROVE Tracks(q)'
    <3>1. reader'[q] = reader[q] /\ expected'[q] = expected[q]
      BY <1>0, <1>2, <2>4 DEF ReaderStep, InspectorUnusable, ReadStage, ReadArtifact, ReadSeal,
         ReadBody, Check, ReadFails, RemoveBody, KeepArtifact, ReaderKilled, Refuse
    <3> QED
      BY <1>0, <2>1, <3>1 DEF SettledInv, Tracks
  <2>5. Tracks(r)'
    <3>1. CASE ReadStage(r)
      <4>1. reader[r].pc = "idle" /\ expected[r] = None
        BY <3>1 DEF ReadStage, SettledInv, Tracks
      <4>2. CASE dir["stage"] = Absent
        BY <3>1, <4>1, <4>2 DEF ReadStage, Refuse, Tracks
      <4>3. CASE dir["stage"] # Absent
        <5>1. reader'[r].pc = "artifact" /\ reader'[r].stage = dir["stage"]
          BY <1>0, <3>1, <4>3 DEF ReadStage, ReaderState
        <5>2. expected'[r] # None =>
                /\ settled = expected'[r] /\ settled.run = ReaderRun[r]
                /\ settled.stage.version = Version
          BY <1>0, <3>1, <4>3 DEF ReadStage
        <5> QED
          BY <2>1, <5>1, <5>2 DEF Tracks
      <4> QED
        BY <4>2, <4>3
    <3>2. CASE ~ReadStage(r) /\ expected[r] = None
      <4>1. UNCHANGED expected
        BY <1>2, <3>2 DEF ReaderStep, InspectorUnusable, ReadStage, ReadArtifact, ReadSeal,
           ReadBody, Check, ReadFails, RemoveBody, KeepArtifact, ReaderKilled, Refuse
      <4> QED
        BY <3>2, <4>1 DEF Tracks
    <3>3. CASE ~ReadStage(r) /\ expected[r] # None
      <4>1. /\ UNCHANGED expected /\ settled = expected[r] /\ reader[r].pc # "idle"
            /\ settled.run = ReaderRun[r] /\ settled.stage.version = Version
        BY <1>2, <3>3 DEF ReaderStep, InspectorUnusable, ReadStage, ReadArtifact, ReadSeal,
           ReadBody, Check, ReadFails, RemoveBody, KeepArtifact, ReaderKilled, Refuse,
           SettledInv, Tracks
      <4>2. CASE ReadArtifact(r)
        BY <1>0, <2>1, <3>3, <4>1, <4>2 DEF ReadArtifact, ReaderState, SettledInv, Tracks
      <4>3. CASE ReadSeal(r) /\ dir["seal"] # Absent
        BY <1>0, <2>1, <3>3, <4>1, <4>3 DEF ReadSeal, ReaderState, SettledInv, Tracks
      <4>4. CASE ReadBody(r) /\ ~(reader[r].artifact # Empty /\ dir["body"] = Absent)
        BY <1>0, <2>1, <3>3, <4>1, <4>4 DEF ReadBody, ReaderState, SettledInv, Tracks
      <4>5. CASE \/ ReadSeal(r) /\ dir["seal"] = Absent
                 \/ ReadBody(r) /\ reader[r].artifact # Empty /\ dir["body"] = Absent
        <5>1. reader'[r].pc = "answered" /\ reader'[r].answer = Refused
          BY <1>0, <4>5 DEF ReadSeal, ReadBody, Refuse, ReaderState
        <5>2. faults > 0
          BY <3>3, <4>5, <5>1, RefusedSettled
        <5> QED
          BY <1>0, <2>1, <4>1, <5>1, <5>2 DEF Tracks
      <4>6. CASE Check(r)
        <5>1. /\ reader[r].pc = "check" /\ UNCHANGED faults
              /\ reader'[r].pc = "answered" /\ reader'[r].answer = Verdict(r)
          BY <1>0, <4>6 DEF Check, ReaderState
        <5>2. \/ Verdict(r) = OutcomeOf(settled)
              \/ Verdict(r) = Refused /\ faults > 0
          BY <3>3, <5>1, VerdictSettled
        <5> QED
          BY <2>1, <4>1, <5>1, <5>2 DEF Tracks, OutcomeOf
      <4>7. CASE ReadFails(r)
        <5>1. reader'[r].pc = "answered" /\ reader'[r].answer = Refused /\ faults' > 0
          BY <1>0, <4>7 DEF ReadFails, Refuse, ReaderState
        <5> QED
          BY <2>1, <4>1, <5>1 DEF Tracks
      <4>8. CASE RemoveBody(r) \/ KeepArtifact(r) \/ ReaderKilled(r)
        <5>1. reader'[r].pc \in {"finished", "killed"}
          BY <1>0, <4>8 DEF RemoveBody, KeepArtifact, ReaderKilled, ReaderState
        <5> QED
          BY <2>1, <4>1, <5>1 DEF Tracks
      <4>9. ~InspectorUnusable(r)
        BY <4>1 DEF InspectorUnusable
      <4> QED
        BY <3>3, <4>2, <4>3, <4>4, <4>5, <4>6, <4>7, <4>8, <4>9 DEF ReaderStep
    <3> QED
      BY <3>1, <3>2, <3>3
  <2> QED
    BY <1>0, <2>2, <2>3, <2>4, <2>5 DEF SettledInv
<1> QED
  BY <1>1, <1>2

LEMMA ForeignSettled == SettledInv /\ ForeignStep => SettledInv'
<1> SUFFICES ASSUME SettledInv, ForeignStep
             PROVE  SettledInv'
  OBVIOUS
<1>1. TypeInv'
  BY ForeignType DEF SettledInv
<1>2. alone' = {} /\ Moved
  BY DEF ForeignStep, ForeignWrite
<1> QED
  BY <1>1, <1>2, MovedSettled DEF AloneHas

LEMMA StepSettled == SettledInv /\ [Next]_vars => SettledInv'
<1>1. SettledInv /\ UNCHANGED vars => SettledInv'
  <2> SUFFICES ASSUME SettledInv, UNCHANGED vars
               PROVE  SettledInv'
    OBVIOUS
  <2>1. TypeInv'
    BY StepType DEF SettledInv
  <2>2. SettledHeld' /\ AloneHas' /\ \A r \in Readers : Tracks(r)'
    BY DEF vars, SettledInv, SettledHeld, Made, Held, AloneHas, Put, Active, ArtifactOf, StageOf,
       Tracks
  <2> QED
    BY <2>1, <2>2 DEF SettledInv
<1> QED
  BY <1>1, FetcherSettled, ReaderSettled, ForeignSettled DEF Next

\* Handoff::read of a directory that one fetch stage wrote without interference
\* and that nothing touched since returns that stage's own outcome: earlier
\* attempts, their leftovers and the order of the other stages' steps never
\* turn it into another one, and only a failed call makes it an error.
THEOREM SettledAgree == Spec => []SettledReadsAgree
<1>1. Spec => []SettledInv
  BY InitSettled, StepSettled, PTL DEF Spec
<1>2. SettledInv => SettledReadsAgree
  BY DEF SettledInv, Tracks, SettledReadsAgree
<1> QED
  BY <1>1, <1>2, PTL

================================================================================
