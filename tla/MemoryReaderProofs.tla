-------------------------- MODULE MemoryReaderProofs ---------------------------
(***************************************************************************)
(* What the memory service guarantees to those who read without its lock,  *)
(* while no two contents have one name.                                    *)
(***************************************************************************)
EXTENDS MemoryStoreProofs, FiniteSetTheorems

\* A file that is read in full, now and later, unless a stopped process left it.
Secure(s, n) ==
    /\ s \in Stores /\ n \in Names
    /\ files[s][n] # None /\ files[s][n].part # "cut"
    /\ files[s][n].part = "whole" \/ <<s, n>> \in wrecked

Secured(s, c) == \E n \in Names : Secure(s, n) /\ files[s][n].content = c

\* Whoever is told of an entry is told of one that is there to be read.
Tells(r) ==
    r.op = "add" /\ r.pc = "replying" /\ r.answer \in {"created", "duplicate"} =>
        Secured(r.store, r.content)

\* An entry a reader is due is there, and either still ahead of the reader, or
\* was read in full, or is in a file that was wrecked.
Finds(r) ==
    /\ r.pc = "listing" => \A c \in r.due : Secured(r.store, c)
    /\ r.pc = "reading" \/ r.answer = "listed" =>
          \A c \in r.due : \E n \in Names :
              /\ Secure(r.store, n) /\ files[r.store][n].content = c
              /\ n \in r.todo \/ <<c, "whole">> \in r.got \/ <<r.store, n>> \in wrecked
    /\ r.answer = "listed" => r.todo = {}
    /\ r.answer = "described" => Cardinality(r.due) <= Cardinality(r.todo)
    /\ r.answer # None => r.pc = "replying"

Announced == \A a \in acked : Secured(a.store, a.content)

Informed == Announced /\ \A t \in Threads : Tells(req[t]) /\ Finds(req[t])

ReadInv == HistoryInv /\ WholeInv /\ Informed

--------------------------------------------------------------------------------
\* What can be read stays as it is.
Lasts ==
    /\ \A s \in Stores, n \in Names : Secure(s, n) =>
          Secure(s, n)' /\ files'[s][n].content = files[s][n].content
    /\ wrecked \subseteq wrecked'

LEMMA FilesLast ==
    ASSUME UNCHANGED files, wrecked \subseteq wrecked'
    PROVE  Lasts
  BY DEF Lasts, Secure

\* Threads wreck nothing.
LEMMA ServeWrecks ==
    ASSUME NEW t \in Threads, Serve(t)
    PROVE  UNCHANGED wrecked
<1>1. CASE Arrival(t)
  BY <1>1 DEF Arrival, ArriveCreate, ArriveAdd, ArriveRead, Arrive, RefuseAdd, known
<1>2. CASE \/ Acquire(t) \/ ScanNew(t) \/ ScanUnknown(t) \/ ScanUnreadable(t) \/ ScanDuplicate(t)
           \/ Open(t) \/ WriteShort(t) \/ WriteWhole(t) \/ MakeStore(t) \/ DescribeStore(t)
  BY <1>2 DEF Acquire, ScanNew, ScanUnknown, ScanUnreadable, ScanDuplicate, TurnDown, Open,
     WriteShort, WriteWhole, MakeStore, DescribeStore, known
<1>3. CASE \/ Commit(t) \/ CommitFails(t) \/ ReadUnknown(t) \/ List(t) \/ Read(t) \/ ReadLast(t)
           \/ Reply(t) \/ LoseReply(t)
  BY <1>3 DEF Commit, CommitFails, ReadUnknown, List, Read, ReadLast, Reply, LoseReply, known
<1> QED
  BY <1>1, <1>2, <1>3, ServeCases

LEMMA NextLasts ==
    ASSUME OneTitleEach, ReadInv, [Next]_vars
    PROVE  Lasts
<1>0. HistoryInv /\ TypeInv /\ TypeOK
  BY DEF ReadInv, HistoryInv, TypeInv
<1>1. ASSUME NEW t \in Threads, Serve(t), UNCHANGED files
      PROVE  Lasts
  BY <1>1, ServeWrecks, FilesLast
<1>2. ASSUME NEW t \in Threads, Serve(t), Open(t)
      PROVE  Lasts
  <2>1. PICK s \in Stores, n \in Names, f \in File :
            files' = [files EXCEPT ![s][n] = f] /\ f.part = "cut"
    <3> DEFINE s == req[t].store
               n == NameOf(req[t].content)
               f == [content |-> req[t].content, author |-> req[t].author, part |-> "cut"]
    <3>1. s \in Stores /\ n \in Names /\ f \in File /\ files' = [files EXCEPT ![s][n] = f]
      BY <1>0, <1>2, OpenType
    <3>2. f.part = "cut"
      OBVIOUS
    <3> HIDE DEF s, n, f
    <3> QED
      BY <3>1, <3>2
  <2>2. Grown
    BY <1>0, <1>2, HistoryOpen
  <2>3. /\ files'[s][n] = f
        /\ \A z \in Stores, m \in Names : z # s \/ m # n => files'[z][m] = files[z][m]
    BY <1>0, <2>1 DEF TypeOK, Placed
  <2>4. UNCHANGED wrecked
    BY <1>2, ServeWrecks
  <2>5. ~Secure(s, n)
    BY <2>1, <2>2, <2>3 DEF Grown, Secure
  <2> QED
    BY <2>3, <2>4, <2>5 DEF Lasts, Secure
<1>3. ASSUME NEW t \in Threads, Serve(t), WriteShort(t) \/ WriteWhole(t)
      PROVE  Lasts
  <2>0. PICK s \in Stores, n \in Names : s = req[t].store /\ n = req[t].name
    BY <1>0, <1>3, WriteType
  <2>1. PICK f \in File :
            /\ files' = [files EXCEPT ![s][n] = f] /\ f.content = files[s][n].content
            /\ WriteShort(t) \/ f.part = "whole"
    BY <1>0, <1>3, <2>0, WriteType
  <2>2. /\ files'[s][n] = f /\ f # None
        /\ \A z \in Stores, m \in Names : z # s \/ m # n => files'[z][m] = files[z][m]
    BY <1>0, <2>1, FileAssumption DEF TypeOK, Placed
  <2>3. UNCHANGED wrecked
    BY <1>3, ServeWrecks
  <2>4. ~Secure(s, n) \/ f.part = "whole"
    BY <2>0, <2>1 DEF WriteShort, Secure
  <2> QED
    BY <2>1, <2>2, <2>3, <2>4 DEF Lasts, Secure
<1>4. ASSUME NEW t \in Threads, Serve(t)
      PROVE  Lasts
  <2>1. CASE Reply(t) \/ LoseReply(t)
    BY <1>0, <1>1, <1>4, <2>1, ReplyType DEF disk
  <2> QED
    BY <1>0, <1>1, <1>2, <1>3, <1>4, <2>1, ServeCases, StepStutters
<1>5. CASE Process
  <2>1. UNCHANGED files /\ wrecked \subseteq wrecked'
    BY <1>0, <1>5, StopType, ProcessType DEF Process, disk
  <2> QED
    BY <2>1, FilesLast
<1>6. CASE UNCHANGED vars
  BY <1>6, FilesLast DEF vars
<1> QED
  BY <1>4, <1>5, <1>6 DEF Next

--------------------------------------------------------------------------------
\* What holds of a request goes on holding of it.
LEMMA FindingLasts ==
    ASSUME Lasts, NEW r
    PROVE  /\ Tells(r) => Tells(r)'
           /\ Finds(r) => Finds(r)'
<1>1. ASSUME NEW s, NEW c, Secured(s, c)
      PROVE  Secured(s, c)'
  <2>1. PICK n \in Names : Secure(s, n) /\ files[s][n].content = c
    BY <1>1 DEF Secured
  <2>2. s \in Stores
    BY <2>1 DEF Secure
  <2>3. Secure(s, n)' /\ files'[s][n].content = c
    BY <2>1, <2>2 DEF Lasts
  <2> QED
    BY <2>3 DEF Secured
<1>2. Tells(r) => Tells(r)'
  BY <1>1 DEF Tells
<1>3. ASSUME Finds(r)
      PROVE  Finds(r)'
  <2>1. ASSUME r.pc = "reading" \/ r.answer = "listed", NEW c \in r.due
        PROVE  \E n \in Names :
                 /\ Secure(r.store, n)' /\ files'[r.store][n].content = c
                 /\ n \in r.todo \/ <<c, "whole">> \in r.got \/ <<r.store, n>> \in wrecked'
    <3>1. PICK n \in Names :
            /\ Secure(r.store, n) /\ files[r.store][n].content = c
            /\ n \in r.todo \/ <<c, "whole">> \in r.got \/ <<r.store, n>> \in wrecked
      BY <1>3, <2>1 DEF Finds
    <3>2. r.store \in Stores
      BY <3>1 DEF Secure
    <3>3. Secure(r.store, n)' /\ files'[r.store][n].content = c
      BY <3>1, <3>2 DEF Lasts
    <3> QED
      BY <3>1, <3>3 DEF Lasts
  <2> QED
    BY <1>1, <1>3, <2>1 DEF Finds
<1> QED
  BY <1>2, <1>3

\* A request that does not move finds what it would have found.
LEMMA OthersFind ==
    ASSUME Lasts, NEW u \in Threads, req'[u] = req[u], Tells(req[u]), Finds(req[u])
    PROVE  Tells(req[u])' /\ Finds(req[u])'
<1>1. ASSUME NEW r, r = req[u]
      PROVE  Tells(req[u])' /\ Finds(req[u])'
  <2>1. Tells(r)' /\ Finds(r)'
    BY <1>1, FindingLasts
  <2>2. r = req'[u]
    BY <1>1
  <2>3. Tells(req[u])'
    BY <2>1, <2>2 DEF Tells
  <2>4. Finds(req[u])'
    BY <2>1, <2>2 DEF Finds
  <2> QED
    BY <2>3, <2>4
<1> QED
  BY <1>1

\* A step of t that tells agents of nothing but what is there.
LEMMA StepInformed ==
    ASSUME Informed, Lasts, NEW t \in Threads, OnlyOf(t),
           \A a \in acked' : a \in acked \/ Secured(a.store, a.content),
           Tells(req[t])', Finds(req[t])'
    PROVE  Informed'
<1>1. Announced'
  BY DEF Informed, Announced, Secured, Lasts, Secure
<1>2. ASSUME NEW u \in Threads
      PROVE  Tells(req[u])' /\ Finds(req[u])'
  BY OthersFind DEF Informed, OnlyOf
<1> QED
  BY <1>1, <1>2 DEF Informed

\* A request that does not read has nothing to find.
LEMMA NothingToFind ==
    ASSUME NEW t \in Threads, req'[t].pc \notin {"listing", "reading"},
           req'[t].answer \notin {"listed", "described"},
           req'[t].answer # None => req'[t].pc = "replying"
    PROVE  Finds(req[t])'
  BY DEF Finds

\* The names of a store's files are as many as the entries they hold at least.
LEMMA DueCounted ==
    ASSUME TypeOK, NEW s \in Stores, NEW due, \A c \in due : Secured(s, c)
    PROVE  Cardinality(due) <= Cardinality(Listed(s))
<1> DEFINE f == [c \in due |-> CHOOSE n \in Listed(s) : files[s][n].content = c]
<1>1. IsFiniteSet(Listed(s))
  <2>1. IsFiniteSet(Days)
    BY StoreAssumption, FS_Interval DEF Days
  <2>2. IsFiniteSet(Names)
    BY <2>1, StoreAssumption, FS_Product DEF Names
  <2>3. Listed(s) \in SUBSET Names
    BY DEF Listed
  <2> QED
    BY <2>2, <2>3, FS_Subset
<1>2. \A c \in due : f[c] \in Listed(s) /\ files[s][f[c]].content = c
  <2> SUFFICES ASSUME NEW c \in due
               PROVE  f[c] \in Listed(s) /\ files[s][f[c]].content = c
    OBVIOUS
  <2>1. \E n \in Listed(s) : files[s][n].content = c
    BY DEF Secured, Secure, Listed
  <2> QED
    BY <2>1
<1>3. f \in [due -> Listed(s)]
  BY <1>2
<1>4. \A c, d \in due : f[c] = f[d] => c = d
  BY <1>2
<1> HIDE DEF f
<1>5. f \in Injection(due, Listed(s))
  BY <1>3, <1>4 DEF Injection, IsInjective
<1> QED
  BY <1>1, <1>5, FS_Injection

LEMMA ReadInformed ==
    ASSUME ReadInv, Lasts, NEW t \in Threads,
           ReadUnknown(t) \/ List(t) \/ Read(t) \/ ReadLast(t)
    PROVE  Informed'
<1>0. /\ TypeInv /\ TypeOK /\ Informed /\ Finds(req[t]) /\ Shape(req[t])
      /\ req \in [Threads -> Request] /\ req[t] \in Request
  BY DEF ReadInv, HistoryInv, TypeInv, TypeOK, Shaped, Informed
<1>1. /\ OnlyOf(t) /\ req[t].op \in {"list", "describe"} /\ req'[t].op = req[t].op
      /\ req'[t].store = req[t].store /\ UNCHANGED <<files, wrecked, acked>>
  BY <1>0, ReadType DEF Kept, disk, known
<1>2. Tells(req[t])'
  BY <1>1 DEF Tells
<1> DEFINE s == req[t].store
<1>3. Finds(req[t])'
  <2>1. CASE ReadUnknown(t)
    <3>1. Answered(t, "unknown")
      BY <2>1 DEF ReadUnknown
    <3>2. req'[t].pc = "replying" /\ req'[t].answer = "unknown"
      BY <1>0, <3>1, AnsweredTyped DEF Answers
    <3> QED
      BY <3>2, NothingToFind
  <2>2. CASE List(t)
    <3>1. /\ req[t].pc = "listing" /\ s \in Stores
          /\ \A c \in req[t].due : Secured(s, c)
      BY <1>0, <2>2 DEF List, Finds, Shape
    <3>2. /\ req'[t].todo = Listed(s) /\ req'[t].due = req[t].due
          /\ req'[t].got = req[t].got
          /\ \/ req'[t].pc = "reading" /\ req'[t].answer = None
             \/ req'[t].pc = "replying" /\ req'[t].answer = "described"
      BY <1>0, <1>1, <2>2 DEF List, Request
    <3>3. None \notin {"listed", "described"}
      BY FileAssumption
    <3>4. CASE req'[t].pc = "reading" /\ req'[t].answer = None
      <4>1. \A c \in req[t].due : \E n \in Names :
                Secure(s, n) /\ files[s][n].content = c /\ n \in Listed(s)
        BY <3>1 DEF Secured, Secure, Listed
      <4> QED
        BY <1>1, <3>2, <3>3, <3>4, <4>1 DEF Finds, Secure
    <3>5. CASE req'[t].pc = "replying" /\ req'[t].answer = "described"
      <4>1. Cardinality(req[t].due) <= Cardinality(Listed(s))
        BY <1>0, <3>1, DueCounted
      <4> QED
        BY <3>2, <3>5, <4>1 DEF Finds
    <3> QED
      BY <3>2, <3>4, <3>5
  <2>3. CASE Read(t)
    <3>1. PICK n \in req[t].todo :
            IF files[s][n].part = "cut"
            THEN Answered(t, "unreadable")
            ELSE req' = [req EXCEPT ![t].todo = @ \ {n},
                             ![t].got = @ \cup {<<files[s][n].content, files[s][n].part>>}]
      BY <2>3 DEF Read
    <3>2. req[t].pc = "reading"
      BY <2>3 DEF Read
    <3>3. CASE files[s][n].part = "cut"
      <4>1. req'[t].pc = "replying" /\ req'[t].answer = "unreadable"
        BY <1>0, <3>1, <3>3, AnsweredTyped DEF Answers
      <4> QED
        BY <4>1, NothingToFind
    <3>4. CASE files[s][n].part # "cut"
      <4>1. /\ req'[t].todo = req[t].todo \ {n} /\ req'[t].due = req[t].due
            /\ req'[t].got = req[t].got \cup {<<files[s][n].content, files[s][n].part>>}
            /\ req'[t].pc = "reading" /\ req'[t].answer = req[t].answer
        BY <1>0, <3>1, <3>2, <3>4 DEF Request
      <4>2. req'[t].answer = None
        BY <1>0, <3>2, <4>1 DEF Finds
      <4>3. ASSUME NEW c \in req[t].due
            PROVE  \E m \in Names :
                     /\ Secure(s, m) /\ files[s][m].content = c
                     /\ m \in req'[t].todo \/ <<c, "whole">> \in req'[t].got \/ <<s, m>> \in wrecked
        <5>1. PICK m \in Names :
                /\ Secure(s, m) /\ files[s][m].content = c
                /\ m \in req[t].todo \/ <<c, "whole">> \in req[t].got \/ <<s, m>> \in wrecked
          BY <1>0, <3>2 DEF Finds
        <5>2. CASE m = n
          BY <4>1, <5>1, <5>2 DEF Secure
        <5>3. CASE m # n
          BY <4>1, <5>1, <5>3
        <5> QED
          BY <5>2, <5>3
      <4>4. None \notin {"listed", "described"}
        BY FileAssumption
      <4> QED
        <5>1. \A c \in req'[t].due : \E m \in Names :
                /\ Secure(req[t].store, m)' /\ (files[req[t].store][m].content = c)'
                /\ \/ m \in req'[t].todo \/ <<c, "whole">> \in req'[t].got
                   \/ (<<req[t].store, m>> \in wrecked)'
          BY <1>1, <4>1, <4>3 DEF Secure
        <5>2. /\ req'[t].pc # "listing" /\ req'[t].answer = None
              /\ req'[t].answer # "listed" /\ req'[t].answer # "described"
          BY <4>1, <4>2, <4>4
        <5> QED
          BY <5>1, <5>2 DEF Finds
    <3> QED
      BY <3>3, <3>4
  <2>4. CASE ReadLast(t)
    <3>1. req[t].pc = "reading" /\ req[t].todo = {} /\ Answered(t, "listed")
      BY <2>4 DEF ReadLast
    <3>2. /\ req'[t].pc = "replying" /\ req'[t].answer = "listed"
          /\ req'[t].todo = {} /\ req'[t].due = req[t].due /\ req'[t].got = req[t].got
      BY <1>0, <3>1 DEF Answered, Request
    <3>3. \A c \in req[t].due : \E n \in Names :
              /\ Secure(s, n) /\ files[s][n].content = c
              /\ <<c, "whole">> \in req[t].got \/ <<s, n>> \in wrecked
      BY <1>0, <3>1 DEF Finds
    <3> QED
      BY <1>1, <3>2, <3>3 DEF Finds, Secure
  <2> QED
    BY <2>1, <2>2, <2>3, <2>4
<1> QED
  BY <1>0, <1>1, <1>2, <1>3, StepInformed

--------------------------------------------------------------------------------
\* A reader that arrives is due what agents were told of so far.
LEMMA ArrivalInformed ==
    ASSUME ReadInv, Lasts, NEW t \in Threads, Arrival(t)
    PROVE  Informed'
<1>0. /\ TypeInv /\ TypeOK /\ Announced /\ Informed
      /\ req \in [Threads -> Request]
  BY DEF ReadInv, HistoryInv, TypeInv, TypeOK, Informed
<1>1. OnlyOf(t) /\ UNCHANGED <<files, acked, wrecked>>
  BY <1>0, ArrivalType DEF disk, known
<1>2. Tells(req[t])'
  BY <1>0, ArrivalType DEF Tells
<1>3. Finds(req[t])'
  <2>1. CASE \E token \in told \cup {Stray} : RefuseAdd(t, token)
    <3>1. req'[t].pc = "replying" /\ req'[t].answer = "refused"
      BY <1>0, <2>1 DEF RefuseAdd, Idle
    <3> QED
      BY <3>1, NothingToFind
  <2>2. ASSUME NEW op, NEW token, NEW content, NEW author, NEW pc \in {"locking", "listing"},
               Arrive(t, op, token, content, author, pc)
        PROVE  Finds(req[t])'
    <3>1. /\ req'[t].pc = pc /\ req'[t].answer = None /\ req'[t].store = token
          /\ req'[t].due = IF op \in {"list", "describe"} THEN Known(token) ELSE {}
      BY <1>0, <2>2 DEF Arrive, Idle
    <3>2. None \notin {"listed", "described"}
      BY FileAssumption
    <3>3. \A c \in req'[t].due : Secured(token, c)
      BY <1>0, <3>1 DEF Known, Announced
    <3>4. \A c \in req'[t].due : Secured(req[t].store, c)'
      BY <1>1, <3>1, <3>3 DEF Secured, Secure
    <3> QED
      BY <3>1, <3>2, <3>4 DEF Finds
  <2> QED
    BY <2>1, <2>2 DEF Arrival, ArriveCreate, ArriveAdd, ArriveRead
<1> QED
  BY <1>0, <1>1, <1>2, <1>3, StepInformed DEF Announced

\* A writer on its way has no answer yet.
LEMMA WriterInformed ==
    ASSUME ReadInv, Lasts, NEW t \in Threads,
           \/ Acquire(t) \/ ScanNew(t) \/ Open(t) \/ WriteShort(t) \/ WriteWhole(t)
           \/ MakeStore(t) \/ DescribeStore(t)
    PROVE  Informed'
<1>0. /\ TypeInv /\ TypeOK /\ Informed /\ Finds(req[t])
      /\ req \in [Threads -> Request]
  BY DEF ReadInv, HistoryInv, TypeInv, TypeOK, Informed
<1>1. OnlyOf(t) /\ UNCHANGED acked
  BY <1>0, GotoType, OpenType, WriteType, DirType DEF Acquire, ScanNew, Open, WriteShort,
     WriteWhole, MakeStore, DescribeStore, known
<1>2. /\ req[t].pc \in Holders \cup {"locking"} /\ req'[t].pc \in Holders
      /\ req'[t].answer = req[t].answer
  BY <1>0 DEF Acquire, ScanNew, Open, WriteShort, WriteWhole, MakeStore, DescribeStore, Goto,
     Holders, Request
<1>3. req'[t].answer = None
  BY <1>0, <1>2 DEF Finds, Holders
<1>4. Tells(req[t])'
  BY <1>2 DEF Tells, Holders
<1>5. Finds(req[t])'
  BY <1>2, <1>3, NothingToFind, FileAssumption DEF Holders
<1> QED
  BY <1>0, <1>1, <1>4, <1>5, StepInformed

\* An answer that leaves the lock tells of an entry that is there.
LEMMA AnswerInformed ==
    ASSUME ReadInv, Lasts, NEW t \in Threads,
           \/ ScanUnknown(t) \/ ScanUnreadable(t) \/ ScanDuplicate(t)
           \/ Commit(t) \/ CommitFails(t)
    PROVE  Informed'
<1>0. /\ HistoryInv /\ WholeInv /\ TypeInv /\ TypeOK /\ Informed
      /\ Shape(req[t]) /\ Reached(req[t])
  BY DEF ReadInv, HistoryInv, TypeInv, Shaped, AllReached
<1>1. /\ OnlyOf(t) /\ req'[t].op = req[t].op /\ req'[t].store = req[t].store
      /\ req'[t].content = req[t].content /\ req'[t].pc = "replying"
      /\ req'[t].answer \in {"unknown", "unreadable", "duplicate", "created", "git"}
  BY <1>0, TurnedDownType, DuplicateType, CommitType DEF Kept
<1>2. UNCHANGED <<files, wrecked, acked>>
  BY DEF ScanUnknown, ScanUnreadable, TurnDown, ScanDuplicate, Commit, CommitFails, disk, known
<1> DEFINE s == req[t].store
           c == req[t].content
<1>3. ASSUME req[t].op = "add", req'[t].answer \in {"created", "duplicate"}
      PROVE  Secured(s, c)
  <2>1. CASE ScanDuplicate(t)
    <3>1. /\ req[t].pc = "scanning" /\ s \in Stores
          /\ \E n \in Holding(s, c) : n \in Names
      BY <1>0, <1>1, <1>3, <2>1, DuplicateType DEF Shape, ScanDuplicate, Holding, Readable, Listed
    <3>2. PICK n \in Names : files[s][n] # None /\ files[s][n].part # "cut"
                             /\ files[s][n].content = c
      BY <3>1 DEF Holding, Readable, Unreadable, Listed
    <3>3. \A u \in Threads : ~WritesTo(u, s, n)
      <4> SUFFICES ASSUME NEW u \in Threads, WritesTo(u, s, n)
                   PROVE  FALSE
        OBVIOUS
      <4>1. req[u].pc = "writing" /\ u = t
        BY <1>0, <3>1, OneWriter DEF WritesTo, Holders
      <4> QED
        BY <3>1, <4>1
    <3>4. files[s][n].part = "whole" \/ <<s, n>> \in wrecked
      BY <1>0, <3>1, <3>2, <3>3 DEF WholeInv, FilesWhole
    <3> QED
      BY <3>1, <3>2, <3>4 DEF Secured, Secure
  <2>2. CASE Commit(t)
    <3>1. req[t].pc = "committing"
      BY <2>2 DEF Commit
    <3>2. s \in Stores /\ req[t].name \in Names
      BY <1>0, <1>3, <3>1 DEF Shape
    <3>3. LET file == files[s][req[t].name] IN
          file # None /\ file.content = c /\ file.part = "whole"
      BY <1>0, <1>3, <3>1 DEF Reached, ReachedAdd
    <3> QED
      BY <3>2, <3>3 DEF Secured, Secure
  <2>3. CASE ScanUnknown(t) \/ ScanUnreadable(t) \/ CommitFails(t)
    <3>1. req'[t].answer \in {"unknown", "unreadable", "git"}
      <4>1. CASE ScanUnknown(t) \/ ScanUnreadable(t)
        BY <1>0, <4>1, TurnedDownType
      <4>2. CASE CommitFails(t)
        <5>1. Answered(t, "git")
          BY <4>2 DEF CommitFails
        <5> QED
          BY <1>0, <5>1, AnsweredTyped DEF Answers
      <4> QED
        BY <2>3, <4>1, <4>2
    <3> QED
      BY <1>3, <3>1
  <2> QED
    BY <2>1, <2>2, <2>3
<1>4. Tells(req[t])'
  BY <1>1, <1>2, <1>3 DEF Tells, Secured, Secure
<1>5. Finds(req[t])'
  BY <1>1, NothingToFind
<1> QED
  BY <1>0, <1>1, <1>2, <1>4, <1>5, StepInformed

\* Agents are told, and the thread is free again.
LEMMA ReplyInformed ==
    ASSUME ReadInv, Lasts, NEW t \in Threads, Reply(t) \/ LoseReply(t)
    PROVE  Informed'
<1>0. TypeInv /\ Informed /\ Tells(req[t])
  BY DEF ReadInv, HistoryInv, Informed
<1>1. OnlyOf(t) /\ req'[t] = Idle /\ req[t].pc = "replying"
  BY <1>0, ReplyType
<1>2. \A a \in acked' : a \in acked \/ Secured(a.store, a.content)
  <2>1. CASE Reply(t)
    BY <1>0, <1>1, <2>1 DEF Reply, Tells
  <2>2. CASE LoseReply(t)
    BY <2>2 DEF LoseReply, known
  <2> QED
    BY <2>1, <2>2
<1>3. req'[t].pc = "idle" /\ req'[t].answer = None
  BY <1>1 DEF Idle
<1>4. Tells(req[t])' /\ Finds(req[t])'
  BY <1>3, NothingToFind, FileAssumption DEF Tells
<1> QED
  BY <1>0, <1>1, <1>2, <1>4, StepInformed

LEMMA ProcessInformed ==
    ASSUME ReadInv, Lasts, Process \/ UNCHANGED vars
    PROVE  Informed'
<1>0. TypeInv /\ Informed
  BY DEF ReadInv, HistoryInv
<1>1. UNCHANGED acked /\ (req' = req \/ req' = [t \in Threads |-> Idle])
  BY <1>0, StopType, ProcessType DEF Process, vars
<1>2. Announced'
  <2> SUFFICES ASSUME NEW a \in acked
               PROVE  Secured(a.store, a.content)'
    BY <1>1 DEF Announced
  <2>1. PICK n \in Names : Secure(a.store, n) /\ files[a.store][n].content = a.content
    BY <1>0 DEF Informed, Announced, Secured
  <2>2. a.store \in Stores
    BY <1>0 DEF TypeInv, TypeOK
  <2>3. Secure(a.store, n)' /\ files'[a.store][n].content = a.content
    BY <2>1, <2>2 DEF Lasts
  <2> QED
    BY <2>3 DEF Secured
<1>3. ASSUME NEW t \in Threads
      PROVE  Tells(req[t])' /\ Finds(req[t])'
  <2>1. CASE req' = req
    BY <1>0, <2>1, OthersFind DEF Informed
  <2>2. CASE req' = [u \in Threads |-> Idle]
    <3>1. req'[t].pc = "idle" /\ req'[t].answer = None
      BY <2>2 DEF Idle
    <3> QED
      BY <3>1, NothingToFind, FileAssumption DEF Tells
  <2> QED
    BY <1>1, <2>1, <2>2
<1> QED
  BY <1>2, <1>3 DEF Informed

LEMMA NextRead ==
    ASSUME OneTitleEach, ReadInv, [Next]_vars
    PROVE  ReadInv'
<1>1. HistoryInv' /\ WholeInv'
  BY NextHistory, NextWhole DEF ReadInv
<1>2. Lasts
  BY NextLasts
<1>3. ASSUME NEW t \in Threads, Serve(t)
      PROVE  Informed'
  BY <1>2, <1>3, ServeCases, ArrivalInformed, WriterInformed, AnswerInformed, ReadInformed,
     ReplyInformed
<1>4. ASSUME Process \/ UNCHANGED vars
      PROVE  Informed'
  BY <1>2, <1>4, ProcessInformed
<1>5. Informed'
  BY <1>3, <1>4 DEF Next
<1> QED
  BY <1>1, <1>5 DEF ReadInv

LEMMA InitRead == Init => ReadInv
<1> SUFFICES ASSUME Init
             PROVE  ReadInv
  OBVIOUS
<1>1. HistoryInv
  BY InitHistory
<1>2. WholeInv
  BY InitType DEF WholeInv, Init, FilesWhole, CommitsAreWhole
<1>3. Informed
  BY FileAssumption DEF Init, Informed, Announced, Tells, Finds, Idle
<1> QED
  BY <1>1, <1>2, <1>3 DEF ReadInv

\* A list or a count that succeeds misses no entry an agent had been told of
\* when it asked, and shows it in full, although entries and describe take no
\* lock: for any number of readers and writers, wherever the process ended and
\* whatever git did, if no two contents have one name.
THEOREM NothingMissed ==
    ASSUME OneTitleEach
    PROVE  Spec => []ReadersMissNothing
<1>1. Init => ReadInv
  BY InitRead
<1>2. ReadInv /\ [Next]_vars => ReadInv'
  BY NextRead
<1>3. ReadInv => ReadersMissNothing
  <2> SUFFICES ASSUME ReadInv, NEW t \in Threads
               PROVE  /\ req[t].answer = "listed" =>
                            \A c \in req[t].due :
                                Sound(req[t].store, c) => <<c, "whole">> \in req[t].got
                      /\ req[t].answer = "described" =>
                            Cardinality(req[t].due) <= Cardinality(req[t].todo)
    BY DEF ReadersMissNothing
  <2>1. Finds(req[t])
    BY DEF ReadInv, Informed
  <2>2. ASSUME req[t].answer = "listed", NEW c \in req[t].due, Sound(req[t].store, c)
        PROVE  <<c, "whole">> \in req[t].got
    <3>1. PICK n \in Names :
            /\ Secure(req[t].store, n) /\ files[req[t].store][n].content = c
            /\ <<c, "whole">> \in req[t].got \/ <<req[t].store, n>> \in wrecked
      BY <2>1, <2>2 DEF Finds
    <3>2. n \in Holding(req[t].store, c)
      BY <3>1 DEF Secure, Holding, Readable, Unreadable, Listed
    <3> QED
      BY <2>2, <3>1, <3>2 DEF Sound
  <2> QED
    BY <2>1, <2>2 DEF Finds
<1> QED
  BY <1>1, <1>2, <1>3, PTL DEF Spec
================================================================================
