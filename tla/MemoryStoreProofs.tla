--------------------------- MODULE MemoryStoreProofs ---------------------------
(***************************************************************************)
(* What the memory service guarantees for every number of stores, agents,  *)
(* request threads, days and faults.                                       *)
(***************************************************************************)
EXTENDS MemoryStore, TLAPS

--------------------------------------------------------------------------------
(***************************************************************************)
(* Type correctness.                                                       *)
(***************************************************************************)
\* Whoever is between the lines of "with self._lock" has the lock, and nobody
\* else.
LockInv == \A t \in Threads : (lock = t) <=> (req[t].pc \in Holders)

\* What a request carries at each point of its handler.
Shape(r) ==
    /\ r.pc \in {"locking", "writing", "committing"} => r.op \in {"add", "create"}
    /\ r.pc \in {"scanning", "opening"} => r.op = "add"
    /\ r.pc = "making" => r.op = "create"
    /\ r.pc \in {"listing", "reading"} =>
          r.op \in {"list", "describe"} /\ r.store \in Stores \cup {Stray}
    /\ r.pc \in {"reading", "opening"} => r.store \in Stores
    /\ r.op = "create" => r.store \in Stores
    /\ r.op = "add" /\ r.pc # "replying" =>
          r.content \in Contents /\ r.author \in Authors /\ r.store \in Stores \cup {Stray}
    /\ r.op = "add" /\ r.pc \in {"writing", "committing"} =>
          r.store \in Stores /\ r.name \in Names
    /\ r.pc = "replying" /\ r.answer \in {"created", "duplicate"} =>
          /\ r.op \in {"add", "create"} /\ r.store \in Stores
          /\ r.op = "add" => r.content \in Contents /\ r.author \in Authors

Shaped == \A t \in Threads : Shape(req[t])

\* The files a reader has before it, and the one a writer has opened, are there.
Grounded(r) ==
    /\ r.pc = "reading" => r.todo \subseteq Listed(r.store)
    /\ r.pc = "writing" /\ r.op = "add" => r.name \in Listed(r.store)

AllGrounded == \A t \in Threads : Grounded(req[t])

TypeInv == TypeOK /\ LockInv /\ Shaped /\ AllGrounded

\* The fields of a request that a step between two lines leaves alone.
Kept(t) ==
    /\ req'[t].op = req[t].op /\ req'[t].store = req[t].store
    /\ req'[t].content = req[t].content /\ req'[t].author = req[t].author
    /\ req'[t].name = req[t].name

\* Only the request of t changes.
OnlyOf(t) ==
    /\ req' \in [Threads -> Request]
    /\ \A u \in Threads : u # t => req'[u] = req[u]

LEMMA RequestReplaced ==
    ASSUME TypeOK, NEW t \in Threads, NEW r \in Request, req' = [req EXCEPT ![t] = r]
    PROVE  OnlyOf(t) /\ req'[t] = r
<1>1. req \in [Threads -> Request]
  BY DEF TypeOK
<1> QED
  BY <1>1 DEF OnlyOf

LEMMA GotoTyped ==
    ASSUME TypeOK, NEW t \in Threads,
           NEW pc \in {"listing", "reading", "locking"} \cup Holders, Goto(t, pc)
    PROVE  OnlyOf(t) /\ Kept(t) /\ req'[t].pc = pc
<1> DEFINE r == [req[t] EXCEPT !.pc = pc]
<1>1. req \in [Threads -> Request] /\ req[t] \in Request
  BY DEF TypeOK
<1>2. r \in Request
  BY <1>1 DEF Request
<1>3. req' = [req EXCEPT ![t] = r]
  BY DEF Goto
<1>4. /\ r.pc = pc /\ r.op = req[t].op /\ r.store = req[t].store /\ r.name = req[t].name
      /\ r.content = req[t].content /\ r.author = req[t].author
  BY <1>1 DEF Request
<1> QED
  BY <1>2, <1>3, <1>4, RequestReplaced DEF Kept

LEMMA AnsweredTyped ==
    ASSUME TypeOK, NEW t \in Threads, NEW answer \in Answers, Answered(t, answer)
    PROVE  OnlyOf(t) /\ Kept(t) /\ req'[t].pc = "replying" /\ req'[t].answer = answer
<1> DEFINE r == [req[t] EXCEPT !.pc = "replying", !.answer = answer]
<1>1. req \in [Threads -> Request] /\ req[t] \in Request
  BY DEF TypeOK
<1>2. r \in Request
  BY <1>1 DEF Request
<1>3. req' = [req EXCEPT ![t] = r]
  BY DEF Answered
<1>4. /\ r.pc = "replying" /\ r.answer = answer
      /\ r.op = req[t].op /\ r.store = req[t].store /\ r.name = req[t].name
      /\ r.content = req[t].content /\ r.author = req[t].author
  BY <1>1 DEF Request
<1> QED
  BY <1>2, <1>3, <1>4, RequestReplaced DEF Kept

\* The request of t moves within the lock, outside it, into it or out of it.
LEMMA LockKept ==
    ASSUME TypeInv, NEW t \in Threads, OnlyOf(t),
           \/ lock' = lock /\ (req'[t].pc \in Holders <=> req[t].pc \in Holders)
           \/ lock = None /\ lock' = t /\ req'[t].pc \in Holders
           \/ lock = t /\ lock' = None /\ req'[t].pc \notin Holders
    PROVE  LockInv' /\ lock' \in Threads \cup {None}
<1>1. None \notin Threads
  BY StoreAssumption
<1>2. lock \in Threads \cup {None}
  BY DEF TypeInv, TypeOK
<1>3. QED
  BY <1>1, <1>2 DEF TypeInv, LockInv, OnlyOf

LEMMA ShapeKept ==
    ASSUME TypeInv, NEW t \in Threads, OnlyOf(t), Shape(req'[t])
    PROVE  Shaped'
  BY DEF TypeInv, Shaped, OnlyOf

\* A step of a request, which takes no file away.
LEMMA StepTyped ==
    ASSUME TypeInv, NEW t \in Threads, OnlyOf(t), Shape(req'[t]),
           Grounded(req[t])',
           \/ lock' = lock /\ (req'[t].pc \in Holders <=> req[t].pc \in Holders)
           \/ lock = None /\ lock' = t /\ req'[t].pc \in Holders
           \/ lock = t /\ lock' = None /\ req'[t].pc \notin Holders,
           files' \in Placed,
           \A s \in Stores, n \in Names : files[s][n] # None => files'[s][n] # None,
           dirs' \in [Stores -> {"absent", "made", "described"}],
           repo' \in [state : {"none", "bare", "ready"}, locked : BOOLEAN,
                      stores : SUBSET Stores, entries : Placed],
           UNCHANGED <<proc, day, wrecked>>, faults' \in 0 .. MaxFaults,
           told' \in SUBSET Stores,
           acked' \in SUBSET [store : Stores, content : Contents, author : Authors,
                              new : BOOLEAN]
    PROVE  TypeInv'
<1>1. LockInv' /\ Shaped' /\ lock' \in Threads \cup {None}
  BY LockKept, ShapeKept
<1>2. TypeOK'
  BY <1>1 DEF TypeInv, TypeOK, OnlyOf, Placed
<1>3. AllGrounded'
  <2> SUFFICES ASSUME NEW u \in Threads
               PROVE  Grounded(req[u])'
    BY DEF AllGrounded
  <2>1. CASE u = t
    BY <2>1
  <2>2. CASE u # t
    <3>1. req'[u] = req[u] /\ Grounded(req[u]) /\ Shape(req[u])
      BY <2>2 DEF OnlyOf, TypeInv, AllGrounded, Shaped
    <3> QED
      BY <3>1 DEF Grounded, Shape, Listed
  <2> QED
    BY <2>1, <2>2
<1> QED
  BY <1>1, <1>2, <1>3 DEF TypeInv

\* A step that leaves the volume alone.
LEMMA RequestStep ==
    ASSUME TypeInv, NEW t \in Threads, OnlyOf(t), Shape(req'[t]),
           req'[t].pc \notin {"reading", "writing"},
           \/ lock' = lock /\ (req'[t].pc \in Holders <=> req[t].pc \in Holders)
           \/ lock = None /\ lock' = t /\ req'[t].pc \in Holders
           \/ lock = t /\ lock' = None /\ req'[t].pc \notin Holders,
           UNCHANGED <<disk, repo, proc, day, told, acked, wrecked>>, faults' \in 0 .. MaxFaults
    PROVE  TypeInv'
<1>1. /\ files' \in Placed
      /\ \A s \in Stores, n \in Names : files[s][n] # None => files'[s][n] # None
  BY DEF TypeInv, TypeOK, Placed, disk
<1>2. /\ UNCHANGED <<proc, day, wrecked>>
      /\ dirs' \in [Stores -> {"absent", "made", "described"}]
      /\ repo' \in [state : {"none", "bare", "ready"}, locked : BOOLEAN,
                     stores : SUBSET Stores, entries : Placed]
      /\ told' \in SUBSET Stores
      /\ acked' \in SUBSET [store : Stores, content : Contents, author : Authors,
                             new : BOOLEAN]
  BY DEF TypeInv, TypeOK, Placed, disk
<1>3. Grounded(req[t])'
  BY DEF Grounded
<1> QED
  BY <1>1, <1>2, <1>3, StepTyped

LEMMA IdleTyped == Idle \in Request /\ Shape(Idle) /\ Idle.pc = "idle" /\ Idle.op = None
<1>1. Idle \in Request /\ Idle.pc = "idle" /\ Idle.op = None
  BY DEF Idle, Request
<1>2. None \notin {"add", "create", "list", "describe"}
  BY FileAssumption
<1> QED
  BY <1>1, <1>2 DEF Shape

\* A request arrives: its record is a request of the right shape.
LEMMA ArriveType ==
    ASSUME TypeInv, NEW t \in Threads, NEW op, NEW token \in Stores \cup {Stray},
           NEW content \in Contents \cup {None}, NEW author \in Authors \cup {None}, NEW pc,
           Arrive(t, op, token, content, author, pc),
           \/ op = "add" /\ content \in Contents /\ author \in Authors /\ pc = "locking"
           \/ op = "create" /\ token \in Stores /\ pc = "locking"
           \/ op \in {"list", "describe"} /\ pc = "listing"
    PROVE  /\ TypeInv' /\ OnlyOf(t) /\ req[t].pc = "idle"
           /\ req'[t].pc = pc /\ req'[t].op = op /\ req'[t].store = token
           /\ req'[t].content = content /\ req'[t].author = author
<1> DEFINE due == IF op \in {"list", "describe"} THEN Known(token) ELSE {}
           r == [Idle EXCEPT !.pc = pc, !.op = op, !.store = token,
                             !.content = content, !.author = author, !.due = due]
<1>1. due \in SUBSET Contents
  BY DEF Known, TypeInv, TypeOK
<1> HIDE DEF due
<1>2. Idle \in Request
  BY IdleTyped
<1>3. r \in Request
  <2>1. /\ op \in {"add", "create", "list", "describe"} /\ token \in Stores \cup {Stray}
        /\ pc \in {"locking", "listing"}
    OBVIOUS
  <2>2. content \in Contents \cup {None} /\ author \in Authors \cup {None}
    OBVIOUS
  <2> DEFINE q == [Idle EXCEPT !.pc = pc, !.op = op, !.store = token]
  <2>3. q \in Request
    BY <1>2, <2>1 DEF Request
  <2>4. r = [q EXCEPT !.content = content, !.author = author, !.due = due]
    OBVIOUS
  <2> HIDE DEF q, r
  <2> QED
    BY <1>1, <2>2, <2>3, <2>4 DEF Request
<1>4. /\ r.pc = pc /\ r.op = op /\ r.store = token
      /\ r.content = content /\ r.author = author
  BY <1>2 DEF Request
<1> HIDE DEF r
<1>5. req' = [req EXCEPT ![t] = r] /\ req[t].pc = "idle"
  BY DEF Arrive, r, due
<1>6. OnlyOf(t) /\ req'[t] = r
  BY <1>3, <1>5, RequestReplaced DEF TypeInv
<1>7. Shape(req'[t])
  BY <1>4, <1>6 DEF Shape
<1>8. req[t].pc \notin Holders /\ req'[t].pc \notin Holders \cup {"reading", "writing"}
  BY <1>4, <1>5, <1>6 DEF Holders
<1>9. /\ UNCHANGED <<disk, repo, lock, proc, day, told, acked, wrecked>>
      /\ faults' \in 0 .. MaxFaults
  BY DEF Arrive, service, known, TypeInv, TypeOK
<1>10. TypeInv'
  BY <1>6, <1>7, <1>8, <1>9, RequestStep
<1> QED
  BY <1>4, <1>5, <1>6, <1>10

\* The steps of a request before, beside and after its writing.
LEMMA GotoType ==
    ASSUME TypeInv, NEW t \in Threads, Acquire(t) \/ ScanNew(t)
    PROVE  TypeInv' /\ OnlyOf(t) /\ Kept(t) /\ req'[t].pc \in {"making", "scanning", "opening"}
<1>0. TypeOK /\ Shape(req[t]) /\ faults \in 0 .. MaxFaults
  BY DEF TypeInv, TypeOK, Shaped
<1>1. CASE Acquire(t)
  <2>1. PICK pc \in {"making", "scanning"} :
            Goto(t, pc) /\ (pc = "making" <=> req[t].op = "create")
    BY <1>1 DEF Acquire
  <2>2. OnlyOf(t) /\ Kept(t) /\ req'[t].pc = pc
    BY <1>0, <2>1, GotoTyped DEF Holders
  <2>3. req[t].pc = "locking" /\ lock = None /\ lock' = t
        /\ UNCHANGED <<disk, repo, proc, day, faults, told, acked, wrecked>>
    BY <1>1 DEF Acquire, service, known
  <2>4. Shape(req'[t])
    BY <1>0, <2>1, <2>2, <2>3 DEF Shape, Kept
  <2>5. TypeInv'
    BY <1>0, <2>1, <2>2, <2>3, <2>4, RequestStep DEF Holders
  <2> QED
    BY <2>1, <2>2, <2>5
<1>2. CASE ScanNew(t)
  <2>1. OnlyOf(t) /\ Kept(t) /\ req'[t].pc = "opening"
    BY <1>0, <1>2, GotoTyped DEF Holders, ScanNew
  <2>2. req[t].pc = "scanning" /\ req[t].store # Stray
        /\ UNCHANGED <<disk, repo, lock, proc, day, faults, told, acked, wrecked>>
    BY <1>2 DEF ScanNew, service, known
  <2>3. Shape(req'[t])
    BY <1>0, <2>1, <2>2 DEF Shape, Kept
  <2>4. TypeInv'
    BY <1>0, <2>1, <2>2, <2>3, RequestStep DEF Holders
  <2> QED
    BY <2>1, <2>4
<1> QED
  BY <1>1, <1>2

\* A request that holds the lock is turned down.
LEMMA TurnedDownType ==
    ASSUME TypeInv, NEW t \in Threads, ScanUnknown(t) \/ ScanUnreadable(t)
    PROVE  /\ TypeInv' /\ OnlyOf(t) /\ Kept(t)
           /\ req'[t].pc = "replying" /\ req'[t].answer \in {"unknown", "unreadable"}
<1>0. TypeOK /\ Shape(req[t]) /\ faults \in 0 .. MaxFaults
  BY DEF TypeInv, TypeOK, Shaped
<1>1. PICK answer \in {"unknown", "unreadable"} : req[t].pc = "scanning" /\ TurnDown(t, answer)
  BY DEF ScanUnknown, ScanUnreadable
<1>2. OnlyOf(t) /\ Kept(t) /\ req'[t].pc = "replying" /\ req'[t].answer = answer
  BY <1>0, <1>1, AnsweredTyped DEF TurnDown, Answers
<1>3. lock = t /\ lock' = None
      /\ UNCHANGED <<disk, repo, proc, day, faults, told, acked, wrecked>>
  BY <1>1 DEF TurnDown, service, known, TypeInv, LockInv, Holders
<1>4. Shape(req'[t])
  BY <1>0, <1>1, <1>2 DEF Shape, Kept
<1>5. TypeInv'
  BY <1>0, <1>2, <1>3, <1>4, RequestStep DEF Holders
<1> QED
  BY <1>2, <1>5

\* A writer finds that the store has its content.
LEMMA DuplicateType ==
    ASSUME TypeInv, NEW t \in Threads, ScanDuplicate(t)
    PROVE  /\ TypeInv' /\ OnlyOf(t) /\ req[t].pc = "scanning"
           /\ req'[t].pc = "replying" /\ req'[t].answer = "duplicate"
           /\ req'[t].op = req[t].op /\ req'[t].store = req[t].store
           /\ req'[t].content = req[t].content
           /\ \E n \in Holding(req[t].store, req[t].content) :
                 req'[t].author = files[req[t].store][n].author
<1>0. TypeOK /\ Shape(req[t]) /\ faults \in 0 .. MaxFaults /\ req[t] \in Request
  BY DEF TypeInv, TypeOK, Shaped
<1>1. PICK n \in Holding(req[t].store, req[t].content) :
          req' = [req EXCEPT ![t].pc = "replying", ![t].answer = "duplicate",
                             ![t].author = files[req[t].store][n].author]
  BY DEF ScanDuplicate
<1>2. /\ req[t].pc = "scanning" /\ req[t].store # Stray /\ lock' = None
      /\ UNCHANGED <<disk, repo, proc, day, told, acked, wrecked>>
      /\ faults' \in 0 .. MaxFaults
  BY <1>0 DEF ScanDuplicate, service, known
<1>3. req[t].store \in Stores
  BY <1>0, <1>2 DEF Shape
<1> DEFINE author == files[req[t].store][n].author
           r == [req[t] EXCEPT !.pc = "replying", !.answer = "duplicate", !.author = author]
<1>4. author \in Authors
  BY <1>0, <1>3 DEF Holding, Readable, Listed, TypeOK, Placed, File
<1> HIDE DEF author
<1>5. r \in Request
  BY <1>0, <1>4 DEF Request, Answers
<1>6. /\ r.pc = "replying" /\ r.answer = "duplicate" /\ r.op = req[t].op
      /\ r.store = req[t].store /\ r.content = req[t].content /\ r.author = author
  BY <1>0 DEF Request
<1>7. req' = [req EXCEPT ![t] = r]
  BY <1>1 DEF author
<1> HIDE DEF r
<1>8. OnlyOf(t) /\ req'[t] = r
  BY <1>0, <1>5, <1>7, RequestReplaced
<1>9. Shape(req'[t])
  BY <1>0, <1>2, <1>3, <1>4, <1>6, <1>8 DEF Shape
<1>10. lock = t
  BY <1>2 DEF TypeInv, LockInv, Holders
<1>11. TypeInv'
  BY <1>2, <1>6, <1>8, <1>9, <1>10, RequestStep DEF Holders
<1> QED
  BY <1>2, <1>6, <1>8, <1>11 DEF author

--------------------------------------------------------------------------------
(***************************************************************************)
(* Steps that write to the volume.                                         *)
(***************************************************************************)
\* A step of a writer that puts the file f.
LEMMA PutTyped ==
    ASSUME TypeInv, NEW t \in Threads, OnlyOf(t), Shape(req'[t]),
           req[t].pc \in Holders, req'[t].pc \in Holders,
           NEW s \in Stores, NEW n \in Names, NEW f \in File,
           req'[t].pc = "writing" => req'[t].store = s /\ req'[t].name = n,
           files' = [files EXCEPT ![s][n] = f],
           UNCHANGED <<dirs, repo, lock, service, known>>
    PROVE  TypeInv'
<1>0. TypeOK
  BY DEF TypeInv
<1>1. /\ files' \in Placed /\ files'[s][n] = f /\ f # None
      /\ \A z \in Stores, m \in Names : z # s \/ m # n => files'[z][m] = files[z][m]
  <2> DEFINE row == [files[s] EXCEPT ![n] = f]
  <2>1. files \in [Stores -> [Names -> File \cup {None}]] /\ f # None
    BY <1>0, FileAssumption DEF TypeOK, Placed
  <2>2. /\ row \in [Names -> File \cup {None}] /\ row[n] = f
        /\ \A m \in Names : m # n => row[m] = files[s][m]
    BY <2>1
  <2>3. files' = [files EXCEPT ![s] = row]
    OBVIOUS
  <2> HIDE DEF row
  <2>4. /\ files' \in Placed /\ files'[s] = row
        /\ \A z \in Stores : z # s => files'[z] = files[z]
    BY <2>1, <2>2, <2>3 DEF Placed
  <2> QED
    BY <2>1, <2>2, <2>4
<1>2. \A z \in Stores, m \in Names : files[z][m] # None => files'[z][m] # None
  <2> SUFFICES ASSUME NEW z \in Stores, NEW m \in Names, files[z][m] # None
               PROVE  files'[z][m] # None
    OBVIOUS
  <2>1. CASE z = s /\ m = n
    BY <1>1, <2>1
  <2>2. CASE z # s \/ m # n
    BY <1>1, <2>2
  <2> QED
    BY <2>1, <2>2
<1>3. /\ UNCHANGED <<proc, day, wrecked, lock>> /\ faults' \in 0 .. MaxFaults
      /\ dirs' \in [Stores -> {"absent", "made", "described"}]
      /\ repo' \in [state : {"none", "bare", "ready"}, locked : BOOLEAN,
                     stores : SUBSET Stores, entries : Placed]
      /\ told' \in SUBSET Stores
      /\ acked' \in SUBSET [store : Stores, content : Contents, author : Authors,
                             new : BOOLEAN]
  <2>1. UNCHANGED <<dirs, repo, lock, faults, proc, day, wrecked, told, acked>>
    BY DEF service, known
  <2> QED
    BY <1>0, <2>1 DEF TypeOK
<1>4. Grounded(req[t])'
  BY <1>1 DEF Grounded, Listed, Holders
<1> QED
  BY <1>1, <1>2, <1>3, <1>4, StepTyped DEF Holders

\* write_text opens the file.
LEMMA OpenType ==
    ASSUME TypeInv, NEW t \in Threads, Open(t)
    PROVE  LET s == req[t].store  n == NameOf(req[t].content)
               f == [content |-> req[t].content, author |-> req[t].author, part |-> "cut"]
           IN /\ TypeInv' /\ OnlyOf(t) /\ s \in Stores /\ n \in Names /\ f \in File
              /\ req[t].pc = "opening" /\ req'[t].pc = "writing" /\ req'[t].name = n
              /\ req[t].op = "add" /\ req'[t].op = "add" /\ req'[t].store = s
              /\ req[t].content \in Contents /\ req'[t].content = req[t].content
              /\ req'[t].author = req[t].author
              /\ files' = [files EXCEPT ![s][n] = f]
<1> DEFINE s == req[t].store
           n == NameOf(req[t].content)
           f == [content |-> req[t].content, author |-> req[t].author, part |-> "cut"]
           r == [req[t] EXCEPT !.pc = "writing", !.name = n]
<1>0. TypeOK /\ Shape(req[t]) /\ req[t] \in Request /\ req[t].pc = "opening" /\ day \in Days
  BY DEF TypeInv, TypeOK, Shaped, Open
<1>1. /\ req[t].op = "add" /\ s \in Stores
      /\ req[t].content \in Contents /\ req[t].author \in Authors
  BY <1>0 DEF Shape
<1>2. n \in Names /\ f \in File
  BY <1>0, <1>1, StoreAssumption DEF NameOf, Names, File
<1>3. files' = [files EXCEPT ![s][n] = f] /\ req' = [req EXCEPT ![t] = r]
      /\ UNCHANGED <<dirs, repo, lock, service, known>>
  BY DEF Open
<1> HIDE DEF n
<1>4. r \in Request
  BY <1>0, <1>2 DEF Request, Holders
<1>5. /\ r.pc = "writing" /\ r.name = n /\ r.op = req[t].op /\ r.store = req[t].store
      /\ r.content = req[t].content /\ r.author = req[t].author
  BY <1>0 DEF Request
<1> HIDE DEF r
<1>6. OnlyOf(t) /\ req'[t] = r
  BY <1>0, <1>3, <1>4, RequestReplaced
<1>7. Shape(req'[t])
  BY <1>1, <1>2, <1>5, <1>6 DEF Shape
<1> HIDE DEF f
<1>8. TypeInv'
  BY <1>0, <1>1, <1>2, <1>3, <1>5, <1>6, <1>7, PutTyped DEF Holders
<1> QED
  BY <1>0, <1>1, <1>2, <1>3, <1>5, <1>6, <1>8 DEF n, f

\* The file takes in more of its body.
LEMMA WriteType ==
    ASSUME TypeInv, NEW t \in Threads, WriteShort(t) \/ WriteWhole(t)
    PROVE  LET s == req[t].store  n == req[t].name IN
           /\ TypeInv' /\ OnlyOf(t) /\ Kept(t) /\ s \in Stores /\ n \in Names
           /\ req[t].pc = "writing" /\ req[t].op = "add" /\ files[s][n] \in File
           /\ \E f \in File :
                 /\ files' = [files EXCEPT ![s][n] = f]
                 /\ f.content = files[s][n].content /\ f.author = files[s][n].author
                 /\ \/ WriteShort(t) /\ f.part = "short" /\ req'[t].pc = "writing"
                    \/ WriteWhole(t) /\ f.part = "whole" /\ req'[t].pc = "committing"
<1> DEFINE s == req[t].store
           n == req[t].name
<1>0. TypeOK /\ Shape(req[t]) /\ Grounded(req[t]) /\ req[t] \in Request
  BY DEF TypeInv, TypeOK, Shaped, AllGrounded
<1>1. req[t].pc = "writing" /\ req[t].op = "add"
      /\ UNCHANGED <<dirs, repo, lock, service, known>>
  BY DEF WriteShort, WriteWhole
<1>2. s \in Stores /\ n \in Names /\ files[s][n] \in File
  BY <1>0, <1>1 DEF Shape, Grounded, Listed, TypeOK, Placed
<1>3. PICK part \in {"short", "whole"} :
         /\ files' = [files EXCEPT ![s][n].part = part]
         /\ \/ part = "short" /\ WriteShort(t) /\ req' = req
            \/ part = "whole" /\ WriteWhole(t) /\ Goto(t, "committing")
  BY DEF WriteShort, WriteWhole
<1> DEFINE f == [files[s][n] EXCEPT !.part = part]
<1>4. f \in File /\ f.part = part
      /\ f.content = files[s][n].content /\ f.author = files[s][n].author
  BY <1>2 DEF File
<1>5. files' = [files EXCEPT ![s][n] = f]
  BY <1>3
<1>6. /\ OnlyOf(t) /\ Kept(t)
      /\ req'[t].pc = IF part = "short" THEN "writing" ELSE "committing"
  <2>1. CASE part = "short"
    BY <1>0, <1>1, <1>3, <2>1 DEF OnlyOf, Kept, TypeOK
  <2>2. CASE part = "whole"
    BY <1>0, <1>3, <2>2, GotoTyped DEF Holders
  <2> QED
    BY <2>1, <2>2
<1>7. Shape(req'[t])
  BY <1>0, <1>1, <1>6 DEF Shape, Kept
<1> HIDE DEF f
<1>8. TypeInv'
  BY <1>1, <1>2, <1>4, <1>5, <1>6, <1>7, PutTyped DEF Holders, Kept
<1> QED
  BY <1>1, <1>2, <1>3, <1>4, <1>5, <1>6, <1>8

\* A store's own directory is made, and described.
LEMMA DirType ==
    ASSUME TypeInv, NEW t \in Threads, MakeStore(t) \/ DescribeStore(t)
    PROVE  /\ TypeInv' /\ OnlyOf(t) /\ Kept(t)
           /\ req[t].op = "create" /\ req[t].store \in Stores
           /\ \/ /\ req[t].pc = "making" /\ req'[t].pc = "writing"
                 /\ dirs' = [dirs EXCEPT ![req[t].store] = "made"]
              \/ /\ req[t].pc = "writing" /\ req'[t].pc = "committing"
                 /\ dirs' = [dirs EXCEPT ![req[t].store] = "described"]
<1>0. TypeOK /\ Shape(req[t]) /\ req[t] \in Request
  BY DEF TypeInv, TypeOK, Shaped
<1>1. PICK pc \in {"writing", "committing"} :
         /\ Goto(t, pc)
         /\ \/ /\ req[t].pc = "making" /\ pc = "writing"
               /\ dirs' = [dirs EXCEPT ![req[t].store] = "made"]
            \/ /\ req[t].pc = "writing" /\ req[t].op = "create" /\ pc = "committing"
               /\ dirs' = [dirs EXCEPT ![req[t].store] = "described"]
  BY DEF MakeStore, DescribeStore
<1>2. OnlyOf(t) /\ Kept(t) /\ req'[t].pc = pc
  BY <1>0, <1>1, GotoTyped DEF Holders
<1>3. req[t].op = "create" /\ req[t].store \in Stores
  BY <1>0, <1>1 DEF Shape
<1>4. UNCHANGED <<files, repo, lock, service, known>>
  BY DEF MakeStore, DescribeStore
<1>5. Shape(req'[t]) /\ Grounded(req[t])'
  BY <1>1, <1>2, <1>3 DEF Shape, Kept, Grounded
<1>6. /\ dirs' \in [Stores -> {"absent", "made", "described"}]
      /\ files' \in Placed
      /\ \A z \in Stores, m \in Names : files[z][m] # None => files'[z][m] # None
      /\ repo' \in [state : {"none", "bare", "ready"}, locked : BOOLEAN,
                     stores : SUBSET Stores, entries : Placed]
      /\ UNCHANGED <<proc, day, wrecked, lock>> /\ faults' \in 0 .. MaxFaults
      /\ told' \in SUBSET Stores
      /\ acked' \in SUBSET [store : Stores, content : Contents, author : Authors,
                             new : BOOLEAN]
  BY <1>0, <1>1, <1>3, <1>4 DEF TypeOK, Placed, service, known
<1>7. TypeInv'
  BY <1>1, <1>2, <1>5, <1>6, StepTyped DEF Holders
<1> QED
  BY <1>1, <1>2, <1>3, <1>7

\* The commit, and what is answered when git fails.
LEMMA CommitType ==
    ASSUME TypeInv, NEW t \in Threads, Commit(t) \/ CommitFails(t)
    PROVE  /\ TypeInv' /\ OnlyOf(t) /\ Kept(t) /\ lock = t /\ req[t].pc = "committing"
           /\ req[t].op \in {"add", "create"} /\ req[t].store \in Stores
           /\ req'[t].pc = "replying"
           /\ \/ Commit(t) /\ req'[t].answer = "created"
              \/ CommitFails(t) /\ req'[t].answer = "git"
<1>0. TypeOK /\ Shape(req[t]) /\ req[t] \in Request
  BY DEF TypeInv, TypeOK, Shaped
<1>1. req[t].pc = "committing" /\ lock' = None
  BY DEF Commit, CommitFails
<1>2. PICK answer \in {"created", "git"} :
         /\ Answered(t, answer)
         /\ answer = "created" => Commit(t)
         /\ answer = "git" => CommitFails(t)
  BY DEF Commit, CommitFails
<1>3. OnlyOf(t) /\ Kept(t) /\ req'[t].pc = "replying" /\ req'[t].answer = answer
  BY <1>0, <1>2, AnsweredTyped DEF Answers
<1>4. lock = t
  BY <1>1 DEF TypeInv, LockInv, Holders
<1>5. req[t].op \in {"add", "create"} /\ req[t].store \in Stores
  BY <1>0, <1>1 DEF Shape
<1>6. Shape(req'[t]) /\ Grounded(req[t])'
  BY <1>0, <1>1, <1>3, <1>5 DEF Shape, Kept, Grounded
<1>7. repo' \in [state : {"none", "bare", "ready"}, locked : BOOLEAN,
                 stores : SUBSET Stores, entries : Placed]
  <2>1. repo \in [state : {"none", "bare", "ready"}, locked : BOOLEAN,
                  stores : SUBSET Stores, entries : Placed] /\ files \in Placed
    BY <1>0 DEF TypeOK
  <2>2. CASE Commit(t)
    <3> DEFINE described == {s \in Stores : dirs[s] = "described"}
    <3>1. repo' = [repo EXCEPT !.entries = files, !.stores = described]
      BY <2>2 DEF Commit
    <3>2. described \in SUBSET Stores
      OBVIOUS
    <3> HIDE DEF described
    <3> QED
      BY <2>1, <3>1, <3>2
  <2>3. CASE CommitFails(t)
    BY <2>1, <2>3 DEF CommitFails
  <2> QED
    BY <2>2, <2>3
<1>8. /\ files' \in Placed
      /\ \A z \in Stores, m \in Names : files[z][m] # None => files'[z][m] # None
      /\ dirs' \in [Stores -> {"absent", "made", "described"}]
      /\ UNCHANGED <<proc, day, wrecked>>
      /\ told' \in SUBSET Stores
      /\ acked' \in SUBSET [store : Stores, content : Contents, author : Authors,
                             new : BOOLEAN]
  BY <1>0 DEF TypeOK, Placed, service, known, disk, Commit, CommitFails
<1>9. faults' \in 0 .. MaxFaults
  BY <1>0, StoreAssumption DEF TypeOK, service, Commit, CommitFails
<1>10. TypeInv'
  BY <1>1, <1>3, <1>4, <1>6, <1>7, <1>8, <1>9, StepTyped DEF Holders
<1> QED
  BY <1>1, <1>2, <1>3, <1>4, <1>5, <1>10

--------------------------------------------------------------------------------
(***************************************************************************)
(* Readers, answers and the process.                                       *)
(***************************************************************************)
\* A step of a reader.
LEMMA ReadType ==
    ASSUME TypeInv, NEW t \in Threads,
           ReadUnknown(t) \/ List(t) \/ Read(t) \/ ReadLast(t)
    PROVE  /\ TypeInv' /\ OnlyOf(t) /\ Kept(t) /\ req[t].op \in {"list", "describe"}
           /\ UNCHANGED <<disk, repo, lock, service, known>>
<1>0. TypeOK /\ Shape(req[t]) /\ Grounded(req[t]) /\ req[t] \in Request
  BY DEF TypeInv, TypeOK, Shaped, AllGrounded
<1>1. /\ UNCHANGED <<disk, repo, lock, service, known>>
      /\ req[t].pc \in {"listing", "reading"}
  BY DEF ReadUnknown, List, Read, ReadLast
<1>2. req[t].op \in {"list", "describe"} /\ (req[t].store = Stray \/ req[t].store \in Stores)
  BY <1>0, <1>1 DEF Shape
<1>3. ASSUME NEW answer \in Answers \ {"created", "duplicate"}, Answered(t, answer)
      PROVE  /\ OnlyOf(t) /\ Kept(t) /\ req'[t].pc \notin Holders
             /\ Shape(req'[t]) /\ Grounded(req[t])'
  <2>1. OnlyOf(t) /\ Kept(t) /\ req'[t].pc = "replying" /\ req'[t].answer = answer
    BY <1>0, <1>3, AnsweredTyped
  <2> QED
    BY <1>2, <2>1 DEF Shape, Grounded, Kept, Holders
<1>4. /\ OnlyOf(t) /\ Kept(t) /\ req'[t].pc \notin Holders
      /\ Shape(req'[t]) /\ Grounded(req[t])'
  <2>1. CASE ReadUnknown(t)
    BY <1>3, <2>1 DEF ReadUnknown, Answers
  <2>2. CASE ReadLast(t)
    BY <1>3, <2>2 DEF ReadLast, Answers
  <2>3. CASE List(t)
    <3> DEFINE todo == Listed(req[t].store)
               pc == IF req[t].op = "list" THEN "reading" ELSE "replying"
               answer == IF req[t].op = "list" THEN None ELSE "described"
               r == [req[t] EXCEPT !.todo = todo, !.pc = pc, !.answer = answer]
    <3>1. /\ todo \in SUBSET Names /\ pc \in {"reading", "replying"}
          /\ answer \in {None, "described"} /\ (pc = "replying" => answer = "described")
      BY DEF Listed
    <3>2. req[t].store \in Stores
      BY <1>2, <2>3 DEF List
    <3>3. req' = [req EXCEPT ![t] = r]
      BY <2>3 DEF List
    <3>11. todo = {n \in Names : files'[req[t].store][n] # None}
      BY <1>1 DEF Listed, disk
    <3> HIDE DEF todo, pc, answer
    <3>4. r \in Request
      BY <1>0, <3>1 DEF Request, Answers, Holders
    <3>5. /\ r.pc = pc /\ r.op = req[t].op /\ r.store = req[t].store /\ r.todo = todo
          /\ r.name = req[t].name /\ r.answer = answer
          /\ r.content = req[t].content /\ r.author = req[t].author
      BY <1>0 DEF Request
    <3> HIDE DEF r
    <3>6. OnlyOf(t) /\ req'[t] = r
      BY <1>0, <3>3, <3>4, RequestReplaced
    <3>7. Kept(t) /\ req'[t].pc = pc /\ req'[t].todo = todo /\ req'[t].answer = answer
      BY <3>5, <3>6 DEF Kept
    <3>8. req'[t].pc \notin Holders
      BY <3>1, <3>7 DEF Holders
    <3>9. Shape(req'[t])
      BY <1>2, <3>1, <3>2, <3>7 DEF Shape, Kept
    <3>10. Grounded(req[t])'
      BY <3>1, <3>11, <3>7 DEF Grounded, Kept, Listed
    <3> QED
      BY <3>6, <3>7, <3>8, <3>9, <3>10
  <2>4. CASE Read(t)
    <3>1. PICK n \in req[t].todo :
              LET file == files[req[t].store][n] IN
              IF file.part = "cut"
              THEN Answered(t, "unreadable")
              ELSE req' = [req EXCEPT ![t].todo = @ \ {n},
                                      ![t].got = @ \cup {<<file.content, file.part>>}]
      BY <2>4 DEF Read
    <3> DEFINE file == files[req[t].store][n]
    <3>2. CASE file.part = "cut"
      BY <1>3, <3>1, <3>2 DEF Answers
    <3>3. CASE file.part # "cut"
      <4> DEFINE pair == <<file.content, file.part>>
                 r == [req[t] EXCEPT !.todo = @ \ {n}, !.got = @ \cup {pair}]
      <4>1. req[t].pc = "reading" /\ req[t].store \in Stores
        BY <1>0, <2>4 DEF Read, Shape
      <4>2. n \in Listed(req[t].store) /\ req[t].todo \in SUBSET Names
            /\ req[t].todo \subseteq Listed(req[t].store)
        BY <1>0, <4>1 DEF Grounded, Request
      <4>3. file \in File
        BY <1>0, <4>1, <4>2 DEF Listed, TypeOK, Placed
      <4>4. pair \in Contents \X {"short", "whole"}
        BY <3>3, <4>3 DEF File
      <4>5. req' = [req EXCEPT ![t] = r]
        BY <3>1, <3>3
      <4> HIDE DEF pair
      <4>6. r \in Request
        BY <1>0, <4>4 DEF Request
      <4>7. /\ r.pc = req[t].pc /\ r.op = req[t].op /\ r.store = req[t].store
            /\ r.todo = req[t].todo \ {n} /\ r.name = req[t].name
            /\ r.content = req[t].content /\ r.author = req[t].author
        BY <1>0 DEF Request
      <4> HIDE DEF r
      <4>8. OnlyOf(t) /\ req'[t] = r
        BY <1>0, <4>5, <4>6, RequestReplaced
      <4>9. Kept(t) /\ req'[t].pc = "reading" /\ req'[t].todo \subseteq Listed(req[t].store)
        BY <4>1, <4>2, <4>7, <4>8 DEF Kept
      <4>10. Shape(req'[t]) /\ Grounded(req[t])' /\ req'[t].pc \notin Holders
        BY <1>1, <1>2, <4>1, <4>9 DEF Shape, Grounded, Kept, Listed, disk, Holders
      <4> QED
        BY <4>8, <4>9, <4>10
    <3> QED
      BY <3>2, <3>3
  <2> QED
    BY <2>1, <2>2, <2>3, <2>4
<1>5. /\ files' \in Placed
      /\ \A z \in Stores, m \in Names : files[z][m] # None => files'[z][m] # None
      /\ dirs' \in [Stores -> {"absent", "made", "described"}]
      /\ repo' \in [state : {"none", "bare", "ready"}, locked : BOOLEAN,
                     stores : SUBSET Stores, entries : Placed]
      /\ UNCHANGED <<proc, day, wrecked, lock>> /\ faults' \in 0 .. MaxFaults
      /\ told' \in SUBSET Stores
      /\ acked' \in SUBSET [store : Stores, content : Contents, author : Authors,
                             new : BOOLEAN]
  BY <1>0, <1>1 DEF TypeOK, Placed, service, known, disk
<1>6. req[t].pc \notin Holders
  BY <1>1 DEF Holders
<1>7. TypeInv'
  BY <1>4, <1>5, <1>6, StepTyped
<1> QED
  BY <1>1, <1>2, <1>4, <1>7

\* An answer is sent, or lost.
LEMMA ReplyType ==
    ASSUME TypeInv, NEW t \in Threads, Reply(t) \/ LoseReply(t)
    PROVE  /\ TypeInv' /\ OnlyOf(t) /\ req'[t] = Idle /\ req[t].pc = "replying"
           /\ UNCHANGED <<disk, repo, lock>>
<1>0. TypeOK /\ Shape(req[t])
  BY DEF TypeInv, TypeOK, Shaped
<1>1. /\ req' = [req EXCEPT ![t] = Idle] /\ req[t].pc = "replying"
      /\ UNCHANGED <<disk, repo, lock, proc, day, wrecked>>
  BY DEF Reply, LoseReply, service, known
<1>2. OnlyOf(t) /\ req'[t] = Idle
  BY <1>0, <1>1, IdleTyped, RequestReplaced
<1>3. Shape(req'[t]) /\ Grounded(req[t])' /\ req'[t].pc \notin Holders /\ req[t].pc \notin Holders
  BY <1>1, <1>2, IdleTyped DEF Grounded, Holders
<1>4. told' \in SUBSET Stores
  BY <1>0, <1>1 DEF Reply, LoseReply, known, TypeOK, Shape
<1>5. acked' \in SUBSET [store : Stores, content : Contents, author : Authors,
                         new : BOOLEAN]
  <2>1. CASE UNCHANGED acked
    BY <1>0, <2>1 DEF TypeOK
  <2>2. CASE /\ req[t].op = "add" /\ req[t].answer \in {"created", "duplicate"}
             /\ acked' = acked \cup {[store |-> req[t].store, content |-> req[t].content,
                                      author |-> req[t].author,
                                      new |-> req[t].answer = "created"]}
    <3> DEFINE new == req[t].answer = "created"
               ack == [store |-> req[t].store, content |-> req[t].content,
                       author |-> req[t].author, new |-> new]
    <3>1. /\ req[t].store \in Stores /\ req[t].content \in Contents
          /\ req[t].author \in Authors /\ new \in BOOLEAN
      BY <1>0, <1>1, <2>2 DEF Shape
    <3>2. acked' = acked \cup {ack}
      BY <2>2
    <3> HIDE DEF new
    <3>3. ack \in [store : Stores, content : Contents, author : Authors, new : BOOLEAN]
      BY <3>1
    <3> HIDE DEF ack
    <3> QED
      BY <1>0, <3>2, <3>3 DEF TypeOK
  <2> QED
    BY <2>1, <2>2 DEF Reply, LoseReply, known
<1>6. /\ files' \in Placed
      /\ \A z \in Stores, m \in Names : files[z][m] # None => files'[z][m] # None
      /\ dirs' \in [Stores -> {"absent", "made", "described"}]
      /\ repo' \in [state : {"none", "bare", "ready"}, locked : BOOLEAN,
                     stores : SUBSET Stores, entries : Placed]
  BY <1>0, <1>1 DEF TypeOK, Placed, disk
<1>7. faults' \in 0 .. MaxFaults
  BY <1>0, StoreAssumption DEF TypeOK, service, Reply, LoseReply
<1>8. TypeInv'
  BY <1>1, <1>2, <1>3, <1>4, <1>5, <1>6, <1>7, StepTyped
<1> QED
  BY <1>1, <1>2, <1>8

\* The process ends where it is: no request is left.
LEMMA StopType ==
    ASSUME TypeInv, Kill \/ Exit
    PROVE  /\ TypeInv' /\ req' = [t \in Threads |-> Idle]
           /\ wrecked' = wrecked \cup Unfinished
           /\ repo'.entries = repo.entries /\ repo'.stores = repo.stores
           /\ UNCHANGED <<disk, day, told, acked>>
<1>0. TypeOK
  BY DEF TypeInv
<1>1. PICK how \in {"killed", "exited"} : Stopped(how)
  BY DEF Kill, Exit
<1>2. /\ proc' = how /\ req' = [t \in Threads |-> Idle] /\ lock' = None
      /\ wrecked' = wrecked \cup Unfinished /\ UNCHANGED <<disk, day, told, acked>>
  BY <1>1 DEF Stopped
<1>3. PICK left \in BOOLEAN : repo' = [repo EXCEPT !.locked = @ \/ left]
  BY <1>1 DEF Stopped
<1>4. /\ repo' \in [state : {"none", "bare", "ready"}, locked : BOOLEAN,
                     stores : SUBSET Stores, entries : Placed]
      /\ repo'.entries = repo.entries /\ repo'.stores = repo.stores
  <2>1. repo \in [state : {"none", "bare", "ready"}, locked : BOOLEAN,
                  stores : SUBSET Stores, entries : Placed]
    BY <1>0 DEF TypeOK
  <2> DEFINE locked == repo.locked \/ left
  <2>2. repo' = [repo EXCEPT !.locked = locked] /\ locked \in BOOLEAN
    BY <1>3
  <2> HIDE DEF locked
  <2> QED
    BY <2>1, <2>2
<1>5. faults' \in 0 .. MaxFaults
  BY <1>0, StoreAssumption DEF TypeOK, Kill, Exit
<1>6. files' \in Placed
  BY <1>0, <1>2 DEF TypeOK, Placed, disk
<1>7. TypeOK'
  BY <1>0, <1>2, <1>4, <1>5, <1>6, IdleTyped DEF TypeOK, Placed, disk, Unfinished
<1>8. LockInv'
  BY <1>2, IdleTyped, StoreAssumption DEF LockInv, Holders
<1>9. Shaped' /\ AllGrounded'
  BY <1>2, IdleTyped DEF Shaped, AllGrounded, Grounded
<1> QED
  BY <1>2, <1>4, <1>7, <1>8, <1>9 DEF TypeInv

\* The rest of the process's life leaves requests and files alone.
LEMMA ProcessType ==
    ASSUME TypeInv, Signal \/ Start \/ Configure \/ Midnight
    PROVE  /\ TypeInv' /\ UNCHANGED <<req, files, dirs, lock, told, acked, wrecked>>
           /\ repo'.entries = repo.entries /\ repo'.stores = repo.stores
<1>0. TypeOK
  BY DEF TypeInv
<1>1. UNCHANGED <<req, files, dirs, lock, told, acked, wrecked>>
  BY DEF Signal, Start, Configure, Midnight, disk, known
<1>2. /\ repo' \in [state : {"none", "bare", "ready"}, locked : BOOLEAN,
                     stores : SUBSET Stores, entries : Placed]
      /\ repo'.entries = repo.entries /\ repo'.stores = repo.stores
  <2>1. repo \in [state : {"none", "bare", "ready"}, locked : BOOLEAN,
                  stores : SUBSET Stores, entries : Placed]
    BY <1>0 DEF TypeOK
  <2>2. \/ UNCHANGED repo
        \/ repo' = [repo EXCEPT !.state = "bare"]
        \/ repo' = [repo EXCEPT !.state = "ready"]
    BY DEF Signal, Start, Configure, Midnight
  <2> QED
    BY <2>1, <2>2
<1>3. faults' \in 0 .. MaxFaults /\ day' \in Days
      /\ proc' \in {"configuring", "up", "draining", "exited", "killed"}
  BY <1>0, StoreAssumption DEF TypeOK, Signal, Start, Configure, Midnight, service, Days
<1>4. TypeOK'
  BY <1>0, <1>1, <1>2, <1>3 DEF TypeOK, Placed
<1>5. LockInv' /\ Shaped' /\ AllGrounded'
  BY <1>1 DEF TypeInv, LockInv, Shaped, AllGrounded, Grounded, Listed
<1> QED
  BY <1>1, <1>2, <1>4, <1>5 DEF TypeInv

\* The requests that Serve lets arrive.
Arrival(t) ==
    \/ \E s \in Stores : ArriveCreate(t, s)
    \/ \E token \in told \cup {Stray} :
          \/ \E cs \in Sharings : ArriveAdd(t, token, cs[1], cs[2])
          \/ RefuseAdd(t, token)
          \/ \E op \in {"list", "describe"} : ArriveRead(t, op, token)

LEMMA ArrivalType ==
    ASSUME TypeInv, NEW t \in Threads, Arrival(t)
    PROVE  /\ TypeInv' /\ OnlyOf(t) /\ UNCHANGED <<disk, repo, lock, service, known>>
           /\ \/ req'[t].pc \in {"locking", "listing"}
              \/ req'[t].pc = "replying" /\ req'[t].answer = "refused" /\ req'[t].op = "add"
           /\ req'[t].op = "create" =>
                 /\ req'[t].pc = "locking" /\ dirs[req'[t].store] = "absent"
                 /\ \A u \in Threads : ~(req[u].op = "create" /\ req[u].store = req'[t].store)
<1>0. TypeOK /\ told \subseteq Stores
  BY DEF TypeInv, TypeOK
<1>1. UNCHANGED <<disk, repo, lock, service, known>>
  BY DEF Arrival, ArriveCreate, ArriveAdd, ArriveRead, Arrive, RefuseAdd
<1>2. CASE \E s \in Stores : ArriveCreate(t, s)
  <2>1. PICK s \in Stores : ArriveCreate(t, s)
    BY <1>2
  <2>2. /\ dirs[s] = "absent" /\ Arrive(t, "create", s, None, None, "locking")
        /\ \A u \in Threads : ~(req[u].op = "create" /\ req[u].store = s)
    BY <2>1 DEF ArriveCreate
  <2>3. TypeInv' /\ OnlyOf(t) /\ req'[t].pc = "locking" /\ req'[t].store = s
    BY <2>2, ArriveType
  <2> QED
    BY <1>1, <2>2, <2>3
<1>3. CASE \E token \in told \cup {Stray} : RefuseAdd(t, token)
  <2>1. PICK token \in told \cup {Stray} : RefuseAdd(t, token)
    BY <1>3
  <2> DEFINE r == [Idle EXCEPT !.pc = "replying", !.op = "add", !.store = token,
                               !.content = Blank, !.answer = "refused"]
  <2>2. Idle \in Request
    BY IdleTyped
  <2>3. r \in Request
    BY <1>0, <2>2 DEF Request, Answers
  <2>4. r.pc = "replying" /\ r.op = "add" /\ r.answer = "refused"
    BY <2>2 DEF Request
  <2>5. req' = [req EXCEPT ![t] = r] /\ req[t].pc = "idle"
    BY <2>1 DEF RefuseAdd
  <2> HIDE DEF r
  <2>6. OnlyOf(t) /\ req'[t] = r
    BY <1>0, <2>3, <2>5, RequestReplaced
  <2>7. Shape(req'[t])
    BY <2>4, <2>6 DEF Shape
  <2>8. /\ UNCHANGED <<disk, repo, lock, proc, day, told, acked, wrecked>>
        /\ faults' \in 0 .. MaxFaults
    BY <1>0, <1>1 DEF service, known, TypeOK
  <2>9. TypeInv'
    BY <2>4, <2>5, <2>6, <2>7, <2>8, RequestStep DEF Holders
  <2> QED
    BY <1>1, <2>4, <2>6, <2>9
<1>4. CASE \E token \in told \cup {Stray} :
              \/ \E cs \in Sharings : ArriveAdd(t, token, cs[1], cs[2])
              \/ \E op \in {"list", "describe"} : ArriveRead(t, op, token)
  <2>1. PICK token \in told \cup {Stray} :
              \/ \E cs \in Sharings : ArriveAdd(t, token, cs[1], cs[2])
              \/ \E op \in {"list", "describe"} : ArriveRead(t, op, token)
    BY <1>4
  <2>2. token \in Stores \cup {Stray}
    BY <1>0
  <2>3. CASE \E cs \in Sharings : ArriveAdd(t, token, cs[1], cs[2])
    <3>1. PICK cs \in Sharings : ArriveAdd(t, token, cs[1], cs[2])
      BY <2>3
    <3>2. cs[1] \in Contents /\ cs[2] \in Authors
      BY StoreAssumption
    <3>3. Arrive(t, "add", token, cs[1], cs[2], "locking")
      BY <3>1 DEF ArriveAdd
    <3>4. TypeInv' /\ OnlyOf(t) /\ req'[t].pc = "locking" /\ req'[t].op = "add"
      BY <2>2, <3>2, <3>3, ArriveType
    <3> QED
      BY <1>1, <3>4
  <2>4. CASE \E op \in {"list", "describe"} : ArriveRead(t, op, token)
    <3>1. PICK op \in {"list", "describe"} : ArriveRead(t, op, token)
      BY <2>4
    <3>2. Arrive(t, op, token, None, None, "listing")
      BY <3>1 DEF ArriveRead
    <3>3. TypeInv' /\ OnlyOf(t) /\ req'[t].pc = "listing" /\ req'[t].op = op
      BY <2>2, <3>2, ArriveType
    <3> QED
      BY <1>1, <3>3
  <2> QED
    BY <2>1, <2>3, <2>4
<1> QED
  BY <1>2, <1>3, <1>4 DEF Arrival

\* The steps of a request, by what they do to the volume.
LEMMA ServeCases ==
    ASSUME NEW t \in Threads, Serve(t)
    PROVE  \/ Arrival(t) \/ Acquire(t) \/ ScanNew(t) \/ ScanUnknown(t) \/ ScanUnreadable(t)
           \/ ScanDuplicate(t) \/ Open(t) \/ WriteShort(t) \/ WriteWhole(t)
           \/ MakeStore(t) \/ DescribeStore(t) \/ Commit(t) \/ CommitFails(t)
           \/ ReadUnknown(t) \/ List(t) \/ Read(t) \/ ReadLast(t)
           \/ Reply(t) \/ LoseReply(t)
  BY DEF Serve, Work, Arrival

LEMMA InitType == Init => TypeInv
<1> SUFFICES ASSUME Init
             PROVE  TypeInv
  OBVIOUS
<1>1. TypeOK
  BY IdleTyped, StoreAssumption DEF Init, TypeOK, Placed, Days
<1>2. LockInv
  BY IdleTyped, StoreAssumption DEF Init, LockInv, Holders
<1>3. Shaped /\ AllGrounded
  BY IdleTyped DEF Init, Shaped, AllGrounded, Grounded
<1> QED
  BY <1>1, <1>2, <1>3 DEF TypeInv

LEMMA NextType == TypeInv /\ [Next]_vars => TypeInv'
<1> SUFFICES ASSUME TypeInv, [Next]_vars
             PROVE  TypeInv'
  OBVIOUS
<1>1. CASE \E t \in Threads : Serve(t)
  <2>1. PICK t \in Threads : Serve(t)
    BY <1>1
  <2> QED
    BY <2>1, ServeCases, ArrivalType, GotoType, TurnedDownType, DuplicateType, OpenType,
       WriteType, DirType, CommitType, ReadType, ReplyType
<1>2. CASE Process
  BY <1>2, StopType, ProcessType DEF Process
<1>3. CASE UNCHANGED vars
  BY <1>3 DEF vars, TypeInv, TypeOK, LockInv, Shaped, Shape, AllGrounded, Grounded, Listed, Placed
<1> QED
  BY <1>1, <1>2, <1>3 DEF Next

\* Every variable keeps its type: no interleaving of requests, failures of git
\* and ends of the process leaves store.py or server.py with a value it does
\* not expect, and the lock is held exactly inside "with self._lock".
THEOREM TypeCorrect == Spec => []TypeOK
<1>1. Init => TypeInv
  BY InitType
<1>2. TypeInv /\ [Next]_vars => TypeInv'
  BY NextType
<1>3. TypeInv => TypeOK
  BY DEF TypeInv
<1> QED
  BY <1>1, <1>2, <1>3, PTL DEF Spec

--------------------------------------------------------------------------------
(***************************************************************************)
(* What a commit takes in.                                                 *)
(***************************************************************************)
\* t is writing the file n of store s.
WritesTo(t, s, n) ==
    /\ req[t].pc = "writing" /\ req[t].op = "add"
    /\ req[t].store = s /\ req[t].name = n

\* A file that is not whole is being written, or was left by a stopped process.
FilesWhole ==
    \A s \in Stores, n \in Names :
        \/ files[s][n] = None
        \/ files[s][n].part = "whole"
        \/ <<s, n>> \in wrecked
        \/ \E t \in Threads : WritesTo(t, s, n)

WholeInv == TypeInv /\ FilesWhole /\ CommitsAreWhole

\* Files and commits stay, and so do the writers.
LEMMA WholeKept ==
    ASSUME WholeInv, UNCHANGED files, repo'.entries = repo.entries,
           wrecked \subseteq wrecked',
           \A t \in Threads, s \in Stores, n \in Names :
               WritesTo(t, s, n) => WritesTo(t, s, n)'
    PROVE  FilesWhole' /\ CommitsAreWhole'
<1>1. FilesWhole'
  <2> SUFFICES ASSUME NEW s \in Stores, NEW n \in Names,
                      files[s][n] # None, files[s][n].part # "whole", <<s, n>> \notin wrecked'
               PROVE  \E t \in Threads : WritesTo(t, s, n)'
    BY DEF FilesWhole
  <2> QED
    BY DEF WholeInv, FilesWhole
<1>2. CommitsAreWhole'
  BY DEF WholeInv, CommitsAreWhole
<1> QED
  BY <1>1, <1>2

\* Nobody else writes while t has the lock.
LEMMA OneWriter ==
    ASSUME TypeInv, NEW t \in Threads, req[t].pc \in Holders, NEW u \in Threads,
           req[u].pc \in Holders
    PROVE  u = t
  BY DEF TypeInv, LockInv

\* A step of t that writes no entry.
LEMMA WholeAside ==
    ASSUME WholeInv, NEW t \in Threads, OnlyOf(t), ~(req[t].pc = "writing" /\ req[t].op = "add"),
           UNCHANGED <<files, wrecked>>, repo'.entries = repo.entries
    PROVE  FilesWhole' /\ CommitsAreWhole'
<1>1. ASSUME NEW u \in Threads, NEW s \in Stores, NEW n \in Names, WritesTo(u, s, n)
      PROVE  WritesTo(u, s, n)'
  <2>1. u # t
    BY <1>1 DEF WritesTo
  <2> QED
    BY <1>1, <2>1 DEF OnlyOf, WritesTo
<1> QED
  BY <1>1, WholeKept

LEMMA WholePut ==
    ASSUME WholeInv, NEW t \in Threads, OnlyOf(t), NEW s \in Stores, NEW n \in Names,
           NEW f \in File, files' = [files EXCEPT ![s][n] = f],
           \/ f.part = "whole"
           \/ /\ req'[t].pc = "writing" /\ req'[t].op = "add"
              /\ req'[t].store = s /\ req'[t].name = n,
           req[t].pc = "opening" \/ WritesTo(t, s, n),
           UNCHANGED <<wrecked, repo>>
    PROVE  FilesWhole' /\ CommitsAreWhole'
<1>0. TypeInv /\ TypeOK /\ FilesWhole /\ CommitsAreWhole
  BY DEF WholeInv, TypeInv
<1>1. /\ files'[s][n] = f
      /\ \A z \in Stores, m \in Names : z # s \/ m # n => files'[z][m] = files[z][m]
  BY <1>0 DEF TypeOK, Placed
<1>2. FilesWhole'
  <2> SUFFICES ASSUME NEW z \in Stores, NEW m \in Names,
                      files'[z][m] # None, files'[z][m].part # "whole", <<z, m>> \notin wrecked'
               PROVE  \E u \in Threads : WritesTo(u, z, m)'
    BY DEF FilesWhole
  <2>1. CASE z = s /\ m = n
    BY <1>1, <2>1 DEF WritesTo
  <2>2. CASE z # s \/ m # n
    <3>1. PICK u \in Threads : WritesTo(u, z, m)
      BY <1>0, <1>1, <2>2 DEF FilesWhole
    <3>2. u # t
      BY <2>2, <3>1 DEF WritesTo
    <3> QED
      BY <3>1, <3>2 DEF OnlyOf, WritesTo
  <2> QED
    BY <2>1, <2>2
<1>3. CommitsAreWhole'
  BY <1>0 DEF CommitsAreWhole
<1> QED
  BY <1>2, <1>3

LEMMA NextWhole == WholeInv /\ [Next]_vars => WholeInv'
<1> SUFFICES ASSUME WholeInv, [Next]_vars
             PROVE  FilesWhole' /\ CommitsAreWhole'
  BY NextType DEF WholeInv
<1>0. TypeInv
  BY DEF WholeInv
<1>1. CASE \E t \in Threads : Serve(t)
  <2>1. PICK t \in Threads : Serve(t)
    BY <1>1
  <2>2. CASE Arrival(t)
    <3>1. OnlyOf(t) /\ UNCHANGED <<files, repo, wrecked>> /\ req[t].pc = "idle"
      BY <1>0, <2>2, ArrivalType DEF disk, known, Arrival, ArriveCreate, ArriveAdd, ArriveRead,
         Arrive, RefuseAdd
    <3> QED
      BY <3>1, WholeAside
  <2>3. CASE Acquire(t) \/ ScanNew(t)
    <3>1. OnlyOf(t) /\ UNCHANGED <<files, repo, wrecked>> /\ req[t].pc # "writing"
      BY <1>0, <2>3, GotoType DEF disk, known, Acquire, ScanNew
    <3> QED
      BY <3>1, WholeAside
  <2>4. CASE ScanUnknown(t) \/ ScanUnreadable(t)
    <3>1. OnlyOf(t) /\ UNCHANGED <<files, repo, wrecked>> /\ req[t].pc # "writing"
      BY <1>0, <2>4, TurnedDownType DEF disk, known, ScanUnknown, ScanUnreadable, TurnDown
    <3> QED
      BY <3>1, WholeAside
  <2>5. CASE ScanDuplicate(t)
    <3>1. OnlyOf(t) /\ UNCHANGED <<files, repo, wrecked>> /\ req[t].pc # "writing"
      BY <1>0, <2>5, DuplicateType DEF disk, known, ScanDuplicate
    <3> QED
      BY <3>1, WholeAside
  <2>6. CASE Open(t)
    <3> DEFINE s == req[t].store
               n == NameOf(req[t].content)
               f == [content |-> req[t].content, author |-> req[t].author, part |-> "cut"]
    <3>1. /\ OnlyOf(t) /\ s \in Stores /\ n \in Names /\ f \in File
          /\ req[t].pc = "opening" /\ files' = [files EXCEPT ![s][n] = f]
          /\ req'[t].pc = "writing" /\ req'[t].name = n /\ req'[t].op = "add"
          /\ req'[t].store = s
      BY <1>0, <2>6, OpenType
    <3>2. UNCHANGED <<wrecked, repo>>
      BY <2>6 DEF Open, known
    <3> HIDE DEF s, n, f
    <3> QED
      BY <3>1, <3>2, WholePut
  <2>7. CASE WriteShort(t) \/ WriteWhole(t)
    <3> DEFINE s == req[t].store
               n == req[t].name
    <3>1. /\ OnlyOf(t) /\ Kept(t) /\ s \in Stores /\ n \in Names
          /\ req[t].pc = "writing" /\ req[t].op = "add"
      BY <1>0, <2>7, WriteType
    <3>2. PICK f \in File :
              /\ files' = [files EXCEPT ![s][n] = f]
              /\ f.part = "whole" \/ req'[t].pc = "writing"
      BY <1>0, <2>7, WriteType
    <3>3. /\ WritesTo(t, s, n) /\ req'[t].op = "add"
          /\ req'[t].store = s /\ req'[t].name = n
      BY <3>1 DEF WritesTo, Kept
    <3>4. UNCHANGED <<wrecked, repo>>
      BY <2>7 DEF WriteShort, WriteWhole, known
    <3> HIDE DEF s, n
    <3> QED
      BY <3>1, <3>2, <3>3, <3>4, WholePut
  <2>8. CASE MakeStore(t) \/ DescribeStore(t)
    <3>1. OnlyOf(t) /\ UNCHANGED <<files, repo, wrecked>> /\ req[t].op = "create"
      BY <1>0, <2>8, DirType DEF known, MakeStore, DescribeStore
    <3> QED
      BY <3>1, WholeAside
  <2>9. CASE Commit(t)
    <3>1. OnlyOf(t) /\ req[t].pc = "committing" /\ UNCHANGED <<files, wrecked>>
          /\ repo' = [repo EXCEPT !.entries = files,
                                  !.stores = {s \in Stores : dirs[s] = "described"}]
      BY <1>0, <2>9, CommitType DEF Commit, disk, known
    <3>2. repo'.entries = files
      <4>1. repo \in [state : {"none", "bare", "ready"}, locked : BOOLEAN,
                      stores : SUBSET Stores, entries : Placed]
        BY <1>0 DEF TypeInv, TypeOK
      <4> QED
        BY <3>1, <4>1
    <3>3. \A u \in Threads, s \in Stores, n \in Names : ~WritesTo(u, s, n)
      BY <1>0, <3>1, OneWriter DEF WritesTo, Holders
    <3>4. \A s \in Stores, n \in Names :
              files[s][n] = None \/ files[s][n].part = "whole" \/ <<s, n>> \in wrecked
      BY <3>3 DEF WholeInv, FilesWhole
    <3> QED
      BY <3>1, <3>2, <3>4 DEF FilesWhole, CommitsAreWhole
  <2>10. CASE CommitFails(t)
    <3>1. OnlyOf(t) /\ req[t].pc = "committing" /\ UNCHANGED <<files, repo, wrecked>>
      BY <1>0, <2>10, CommitType DEF CommitFails, disk, known
    <3> QED
      BY <3>1, WholeAside
  <2>11. CASE ReadUnknown(t) \/ List(t) \/ Read(t) \/ ReadLast(t)
    <3>1. OnlyOf(t) /\ UNCHANGED <<files, repo, wrecked>> /\ req[t].op # "add"
      BY <1>0, <2>11, ReadType DEF disk, known
    <3> QED
      BY <3>1, WholeAside
  <2>12. CASE Reply(t) \/ LoseReply(t)
    <3>1. OnlyOf(t) /\ UNCHANGED <<files, repo, wrecked>> /\ req[t].pc = "replying"
      BY <1>0, <2>12, ReplyType DEF disk, known, Reply, LoseReply
    <3> QED
      BY <3>1, WholeAside
  <2> QED
    BY <2>1, <2>2, <2>3, <2>4, <2>5, <2>6, <2>7, <2>8, <2>9, <2>10, <2>11, <2>12, ServeCases
<1>2. CASE Kill \/ Exit
  <2>1. /\ UNCHANGED files /\ repo'.entries = repo.entries /\ wrecked' = wrecked \cup Unfinished
    BY <1>0, <1>2, StopType DEF disk
  <2>2. FilesWhole'
    BY <2>1 DEF FilesWhole, Unfinished
  <2>3. CommitsAreWhole'
    BY <2>1 DEF WholeInv, CommitsAreWhole
  <2> QED
    BY <2>2, <2>3
<1>3. CASE Signal \/ Start \/ Configure \/ Midnight
  BY <1>0, <1>3, ProcessType, WholeKept DEF WritesTo
<1>4. CASE UNCHANGED vars
  BY <1>4, WholeKept DEF vars, WritesTo
<1> QED
  BY <1>1, <1>2, <1>3, <1>4 DEF Next, Process

\* "Writes are serialised" (README.md:97): a commit never takes in a file that
\* another request is still writing.
THEOREM CommitsWhole == Spec => []CommitsAreWhole
<1>1. Init => WholeInv
  <2>1. Init => TypeInv
    BY InitType
  <2>2. Init => FilesWhole /\ CommitsAreWhole
    BY DEF Init, FilesWhole, CommitsAreWhole
  <2> QED
    BY <2>1, <2>2 DEF WholeInv
<1>2. WholeInv /\ [Next]_vars => WholeInv'
  BY NextWhole
<1>3. WholeInv => CommitsAreWhole
  BY DEF WholeInv
<1> QED
  BY <1>1, <1>2, <1>3, PTL DEF Spec

--------------------------------------------------------------------------------
(***************************************************************************)
(* The history.  What follows holds while no two contents have one name    *)
(* (see NothingIsEdited for what happens when they do).                    *)
(***************************************************************************)
OneTitleEach == \A c, d \in Contents : TitleOf[c] = TitleOf[d] => c = d

\* Every file has the title of its content, and one file a content.
Titled == \A s \in Stores, n \in Names :
    files[s][n] # None => n[2] = TitleOf[files[s][n].content]

Unique == \A s \in Stores, n, m \in Names :
    /\ files[s][n] # None /\ files[s][m] # None
    /\ files[s][n].content = files[s][m].content
    => n = m

\* HEAD has nothing that the volume does not have.
Backed == \A s \in Stores, n \in Names :
    repo.entries[s][n] # None =>
        files[s][n] # None /\ files[s][n].content = repo.entries[s][n].content

Described == told \subseteq repo.stores /\ \A s \in repo.stores : dirs[s] = "described"

Committed(s, c) == \E n \in Names : repo.entries[s][n] # None /\ repo.entries[s][n].content = c
Absent(s, c) == \A n \in Names : files[s][n] # None => files[s][n].content # c
Shown(s, c, a) == \E n \in Readable(s) : files[s][n].content = c /\ files[s][n].author = a

Created(r) == r.op = "add" /\ r.pc = "replying" /\ r.answer = "created"

\* What the volume holds at each point of a request.
ReachedAdd(r) ==
    /\ r.pc = "opening" => Absent(r.store, r.content)
    /\ r.pc \in {"writing", "committing"} =>
          LET file == files[r.store][r.name] IN
          /\ file # None /\ file.content = r.content /\ file.author = r.author
          /\ r.pc = "committing" => file.part = "whole"
    /\ r.pc = "replying" /\ r.answer = "created" => Committed(r.store, r.content)
    /\ r.pc = "replying" /\ r.answer \in {"created", "duplicate"} =>
          Shown(r.store, r.content, r.author)

ReachedCreate(r) ==
    /\ r.pc \in {"locking", "making"} => dirs[r.store] = "absent"
    /\ r.pc = "committing" => dirs[r.store] = "described"
    /\ r.pc = "replying" /\ r.answer = "created" => r.store \in repo.stores

Reached(r) ==
    /\ r.op = "add" => ReachedAdd(r)
    /\ r.op = "create" => ReachedCreate(r)

AllReached == \A t \in Threads : Reached(req[t])

\* A store has one creator.
OneCreator == \A t, u \in Threads :
    t # u /\ req[t].op = "create" /\ req[u].op = "create" => req[t].store # req[u].store

\* An entry that is being made has not been announced to anybody, nor is about
\* to be.
Making(r) ==
    r.op = "add" /\ (r.pc \in {"opening", "writing", "committing"} \/ Created(r))

Alike(r, q) == r.store = q.store /\ r.content = q.content

Unannounced(t, r) ==
    /\ \A a \in acked : ~(a.new /\ Alike(a, r))
    /\ \A u \in Threads : u # t => ~(Created(req[u]) /\ Alike(req[u], r))

OneSharer == \A t \in Threads : Making(req[t]) => Unannounced(t, req[t])

HistoryInv ==
    /\ TypeInv
    /\ Titled /\ Unique /\ Backed /\ Described
    /\ AllReached /\ OneCreator /\ OneSharer
    /\ CreatedIsCommitted

\* What is on the volume and in HEAD stays there, as far as a reader can tell.
Grown ==
    /\ \A s \in Stores, n \in Names : files[s][n] # None =>
          /\ files'[s][n] # None
          /\ files'[s][n].content = files[s][n].content
          /\ files'[s][n].author = files[s][n].author
          /\ files[s][n].part # "cut" => files'[s][n].part # "cut"
    /\ \A s \in Stores, n \in Names : repo.entries[s][n] # None =>
          /\ repo'.entries[s][n] # None
          /\ repo'.entries[s][n].content = repo.entries[s][n].content
    /\ repo.stores \subseteq repo'.stores

LEMMA GrownKeeps ==
    ASSUME Grown, NEW s \in Stores, NEW c, NEW a
    PROVE  /\ Committed(s, c) => Committed(s, c)'
           /\ Shown(s, c, a) => Shown(s, c, a)'
<1>1. Committed(s, c) => Committed(s, c)'
  BY DEF Grown, Committed
<1>2. Shown(s, c, a) => Shown(s, c, a)'
  BY DEF Grown, Shown, Readable, Unreadable, Listed
<1> QED
  BY <1>1, <1>2

\* A request that does not move stays where it has come.
LEMMA OthersReached ==
    ASSUME HistoryInv, Grown, NEW u \in Threads, req'[u] = req[u],
           UNCHANGED files \/ req[u].pc \notin Holders,
           \/ UNCHANGED dirs
           \/ /\ req[u].pc \notin Holders
              /\ req[u].op = "create" => dirs'[req[u].store] = dirs[req[u].store]
    PROVE  Reached(req[u])'
<1>0. Reached(req[u]) /\ Shape(req[u])
  BY DEF HistoryInv, AllReached, TypeInv, Shaped
<1>1. CASE req[u].op = "add"
  <2>0. ReachedAdd(req[u])
    BY <1>0, <1>1 DEF Reached
  <2>1. CASE req[u].pc = "opening"
    <3>1. UNCHANGED files
      BY <2>1 DEF Holders
    <3> QED
      BY <1>1, <2>0, <2>1, <3>1 DEF Reached, ReachedAdd, Absent
  <2>2. CASE req[u].pc \in {"writing", "committing"}
    <3>1. UNCHANGED files
      BY <2>2 DEF Holders
    <3> QED
      BY <1>1, <2>0, <2>2, <3>1 DEF Reached, ReachedAdd
  <2>3. CASE req[u].pc = "replying" /\ req[u].answer \in {"created", "duplicate"}
    <3>1. req[u].store \in Stores
      BY <1>0, <2>3 DEF Shape
    <3>2. req[u].answer = "created" => Committed(req[u].store, req[u].content)'
      <4> DEFINE s == req[u].store
                 c == req[u].content
      <4>1. s' = s /\ c' = c
        OBVIOUS
      <4>2. ASSUME NEW z \in Stores, NEW d, z = s, d = c, Committed(z, d)
            PROVE  Committed(s, c)'
        <5>1. Committed(z, d)'
          BY <4>2, GrownKeeps
        <5> QED
          BY <4>1, <4>2, <5>1 DEF Committed
      <4> QED
        BY <2>0, <2>3, <3>1, <4>2 DEF ReachedAdd
    <3>3. Shown(req[u].store, req[u].content, req[u].author)'
      <4> DEFINE s == req[u].store
                 c == req[u].content
                 a == req[u].author
      <4>1. s' = s /\ c' = c /\ a' = a
        OBVIOUS
      <4>2. ASSUME NEW z \in Stores, NEW d, NEW b, z = s, d = c, b = a, Shown(z, d, b)
            PROVE  Shown(s, c, a)'
        <5>1. Shown(z, d, b)'
          BY <4>2, GrownKeeps
        <5> QED
          BY <4>1, <4>2, <5>1 DEF Shown, Readable, Unreadable, Listed
      <4> QED
        BY <2>0, <2>3, <3>1, <4>2 DEF ReachedAdd
    <3> QED
      BY <1>1, <2>3, <3>2, <3>3 DEF Reached, ReachedAdd
  <2> QED
    BY <1>1, <2>1, <2>2, <2>3 DEF Reached, ReachedAdd
<1>2. CASE req[u].op = "create"
  <2>1. ReachedCreate(req[u])
    BY <1>0, <1>2 DEF Reached
  <2>2. dirs'[req[u].store] = dirs[req[u].store]
    BY <1>2
  <2> QED
    BY <1>2, <2>1, <2>2 DEF Reached, ReachedCreate, Grown
<1>3. CASE req[u].op \notin {"add", "create"}
  BY <1>3 DEF Reached
<1> QED
  BY <1>1, <1>2, <1>3

\* Nobody's announcement is repeated by a step of t.
LEMMA SharerKept ==
    ASSUME HistoryInv, NEW t \in Threads, OnlyOf(t),
           \A a \in acked' : a \in acked \/ ~a.new \/ (Created(req[t]) /\ Alike(a, req[t])),
           Created(req'[t]) =>
               \A u \in Threads : u # t /\ Making(req[u]) => ~Alike(req[u], req'[t]),
           Making(req'[t]) => acked' = acked /\ Unannounced(t, req'[t])
    PROVE  OneSharer'
<1>1. TypeInv /\ OneSharer
  BY DEF HistoryInv
<1> SUFFICES ASSUME NEW u \in Threads, Making(req'[u])
             PROVE  /\ \A a \in acked' : ~(a.new /\ Alike(a, req'[u]))
                    /\ \A v \in Threads : v # u => ~(Created(req'[v]) /\ Alike(req'[v], req'[u]))
  BY DEF OneSharer, Unannounced
<1>2. CASE u = t
  BY <1>2 DEF Unannounced, OnlyOf
<1>3. CASE u # t
  <2>1. req'[u] = req[u] /\ Making(req[u]) /\ Unannounced(u, req[u])
    BY <1>1, <1>3 DEF OnlyOf, OneSharer
  <2>2. ASSUME NEW a \in acked'
        PROVE  ~(a.new /\ Alike(a, req'[u]))
    BY <1>3, <2>1 DEF Unannounced, Alike
  <2>3. ASSUME NEW v \in Threads, v # u
        PROVE  ~(Created(req'[v]) /\ Alike(req'[v], req'[u]))
    <3>1. CASE v = t
      BY <1>3, <2>1, <3>1 DEF Alike
    <3>2. CASE v # t
      BY <2>1, <2>3, <3>2 DEF OnlyOf, Unannounced
    <3> QED
      BY <3>1, <3>2
  <2> QED
    BY <2>2, <2>3
<1> QED
  BY <1>2, <1>3

LEMMA CreatorKept ==
    ASSUME HistoryInv, NEW t \in Threads, OnlyOf(t),
           req'[t].op = "create" =>
              \A u \in Threads :
                  u # t => ~(req[u].op = "create" /\ req[u].store = req'[t].store)
    PROVE  OneCreator'
  BY DEF HistoryInv, OneCreator, OnlyOf

\* A step of t that leaves the volume and what agents know alone.
LEMMA HistoryQuiet ==
    ASSUME HistoryInv, TypeInv', NEW t \in Threads, OnlyOf(t),
           UNCHANGED <<disk, told, acked>>,
           repo'.entries = repo.entries, repo'.stores = repo.stores,
           Reached(req[t])', ~Created(req'[t]),
           req'[t].op = "create" =>
              \A u \in Threads :
                  u # t => ~(req[u].op = "create" /\ req[u].store = req'[t].store),
           Making(req'[t]) => Unannounced(t, req'[t])
    PROVE  HistoryInv'
<1>1. Grown /\ UNCHANGED <<files, dirs>>
  BY DEF Grown, disk
<1>2. Titled' /\ Unique' /\ Backed' /\ Described' /\ CreatedIsCommitted'
  BY <1>1 DEF HistoryInv, Titled, Unique, Backed, Described, CreatedIsCommitted
<1>3. AllReached'
  <2> SUFFICES ASSUME NEW u \in Threads
               PROVE  Reached(req[u])'
    BY DEF AllReached
  <2>1. CASE u = t
    BY <2>1
  <2>2. CASE u # t
    BY <1>1, <2>2, OthersReached DEF OnlyOf
  <2> QED
    BY <2>1, <2>2
<1>4. OneCreator'
  BY CreatorKept
<1>5. OneSharer'
  BY SharerKept
<1> QED
  BY <1>2, <1>3, <1>4, <1>5 DEF HistoryInv

LEMMA CreatorStays ==
    ASSUME HistoryInv, NEW t \in Threads, Kept(t)
    PROVE  req'[t].op = "create" =>
              \A u \in Threads :
                  u # t => ~(req[u].op = "create" /\ req[u].store = req'[t].store)
  BY DEF HistoryInv, OneCreator, Kept

\* Steps that lead to no entry.
LEMMA HistoryAside ==
    ASSUME HistoryInv, NEW t \in Threads,
           \/ Arrival(t) \/ Acquire(t) \/ ScanUnknown(t) \/ ScanUnreadable(t)
           \/ CommitFails(t) \/ LoseReply(t)
           \/ ReadUnknown(t) \/ List(t) \/ Read(t) \/ ReadLast(t)
    PROVE  HistoryInv'
<1>0. TypeInv /\ Reached(req[t])
  BY DEF HistoryInv, AllReached
<1>1. CASE Arrival(t)
  <2>1. /\ TypeInv' /\ OnlyOf(t) /\ UNCHANGED <<disk, repo, told, acked>>
        /\ \/ req'[t].pc \in {"locking", "listing"}
           \/ req'[t].pc = "replying" /\ req'[t].answer = "refused" /\ req'[t].op = "add"
        /\ req'[t].op = "create" =>
              /\ req'[t].pc = "locking" /\ dirs[req'[t].store] = "absent"
              /\ \A u \in Threads : ~(req[u].op = "create" /\ req[u].store = req'[t].store)
    BY <1>0, <1>1, ArrivalType DEF known
  <2>2. Reached(req[t])'
    BY <2>1 DEF Reached, ReachedAdd, ReachedCreate, disk
  <2>3. ~Created(req'[t]) /\ ~Making(req'[t])
    BY <2>1 DEF Created, Making
  <2> QED
    BY <2>1, <2>2, <2>3, HistoryQuiet
<1>2. CASE Acquire(t)
  <2>1. /\ TypeInv' /\ OnlyOf(t) /\ Kept(t) /\ req[t].pc = "locking"
        /\ UNCHANGED <<disk, repo, told, acked>>
        /\ req'[t].pc \in {"making", "scanning", "opening"}
    BY <1>0, <1>2, GotoType DEF Acquire, known
  <2>2. req'[t].pc # "opening"
    <3>1. PICK pc \in {"making", "scanning"} : Goto(t, pc)
      BY <1>2 DEF Acquire
    <3>2. req'[t].pc = pc
      BY <1>0, <3>1, GotoTyped DEF Holders, TypeInv
    <3> QED
      BY <3>2
  <2>3. Reached(req[t])'
    BY <1>0, <2>1, <2>2 DEF Reached, ReachedAdd, ReachedCreate, Kept, disk
  <2>4. ~Created(req'[t]) /\ ~Making(req'[t])
    BY <2>1, <2>2 DEF Created, Making
  <2> QED
    BY <2>1, <2>3, <2>4, CreatorStays, HistoryQuiet
<1>3. CASE ScanUnknown(t) \/ ScanUnreadable(t) \/ CommitFails(t)
  <2>1. /\ TypeInv' /\ OnlyOf(t) /\ Kept(t)
        /\ req'[t].pc = "replying" /\ req'[t].answer \in {"unknown", "unreadable", "git"}
    <3>1. CASE ScanUnknown(t) \/ ScanUnreadable(t)
      BY <1>0, <3>1, TurnedDownType
    <3>2. CASE CommitFails(t)
      <4>1. TypeInv'
        BY <1>0, <3>2, CommitType
      <4>2. Answered(t, "git")
        BY <3>2 DEF CommitFails
      <4> QED
        BY <1>0, <4>1, <4>2, AnsweredTyped DEF Answers, TypeInv
    <3> QED
      BY <1>3, <3>1, <3>2
  <2>2. UNCHANGED <<disk, repo, told, acked>>
    BY <1>3 DEF ScanUnknown, ScanUnreadable, TurnDown, CommitFails, known
  <2>3. Reached(req[t])'
    BY <2>1 DEF Reached, ReachedAdd, ReachedCreate
  <2>4. ~Created(req'[t]) /\ ~Making(req'[t])
    BY <2>1 DEF Created, Making
  <2> QED
    BY <2>1, <2>2, <2>3, <2>4, CreatorStays, HistoryQuiet
<1>4. CASE LoseReply(t)
  <2>1. /\ TypeInv' /\ OnlyOf(t) /\ req'[t] = Idle /\ UNCHANGED <<disk, repo, told, acked>>
    BY <1>0, <1>4, ReplyType DEF LoseReply, known
  <2>2. req'[t].op = None /\ None \notin {"add", "create"}
    BY <2>1, IdleTyped, FileAssumption
  <2>3. Reached(req[t])' /\ ~Created(req'[t]) /\ ~Making(req'[t])
    BY <2>2 DEF Reached, Created, Making
  <2> QED
    BY <2>1, <2>2, <2>3, HistoryQuiet
<1>5. CASE ReadUnknown(t) \/ List(t) \/ Read(t) \/ ReadLast(t)
  <2>1. /\ TypeInv' /\ OnlyOf(t) /\ Kept(t) /\ req[t].op \in {"list", "describe"}
        /\ UNCHANGED <<disk, repo, told, acked>>
    BY <1>0, <1>5, ReadType DEF known
  <2>2. req'[t].op \in {"list", "describe"}
    BY <2>1 DEF Kept
  <2>3. Reached(req[t])' /\ ~Created(req'[t]) /\ ~Making(req'[t])
    BY <2>2 DEF Reached, Created, Making
  <2> QED
    BY <2>1, <2>2, <2>3, HistoryQuiet
<1> QED
  BY <1>1, <1>2, <1>3, <1>4, <1>5

\* The scan.
LEMMA HistoryScan ==
    ASSUME HistoryInv, NEW t \in Threads, ScanNew(t) \/ ScanDuplicate(t)
    PROVE  HistoryInv'
<1>0. TypeInv /\ Reached(req[t]) /\ Backed /\ CreatedIsCommitted /\ Shape(req[t])
  BY DEF HistoryInv, AllReached, TypeInv, Shaped
<1>1. CASE ScanDuplicate(t)
  <2>1. /\ TypeInv' /\ OnlyOf(t) /\ req[t].pc = "scanning"
        /\ req'[t].pc = "replying" /\ req'[t].answer = "duplicate"
        /\ req'[t].op = req[t].op /\ req'[t].store = req[t].store
        /\ req'[t].content = req[t].content
        /\ UNCHANGED <<disk, repo, told, acked>>
    BY <1>0, <1>1, DuplicateType DEF ScanDuplicate, known
  <2>2. PICK n \in Holding(req[t].store, req[t].content) :
            req'[t].author = files[req[t].store][n].author
    BY <1>0, <1>1, DuplicateType
  <2>3. req'[t].op = "add"
    BY <1>0, <2>1 DEF Shape
  <2>4. Shown(req[t].store, req[t].content, req[t].author)'
    BY <2>1, <2>2 DEF Shown, Holding, Readable, Unreadable, Listed, disk
  <2>5. Reached(req[t])'
    BY <2>1, <2>3, <2>4 DEF Reached, ReachedAdd
  <2>6. ~Created(req'[t]) /\ ~Making(req'[t])
    BY <2>1 DEF Created, Making
  <2> QED
    BY <2>1, <2>3, <2>5, <2>6, HistoryQuiet
<1>2. CASE ScanNew(t)
  <2> DEFINE s == req[t].store
             c == req[t].content
  <2>1. /\ TypeInv' /\ OnlyOf(t) /\ Kept(t) /\ req[t].pc = "scanning" /\ s # Stray
        /\ Unreadable(s) = {} /\ Holding(s, c) = {} /\ Goto(t, "opening")
        /\ UNCHANGED <<disk, repo, told, acked>>
    BY <1>0, <1>2, GotoType DEF ScanNew, known
  <2>2. req'[t].pc = "opening"
    BY <1>0, <2>1, GotoTyped DEF Holders, TypeInv
  <2>3. req[t].op = "add" /\ s \in Stores
    BY <1>0, <2>1 DEF Shape
  <2>4. Absent(s, c)
    BY <2>1 DEF Absent, Holding, Readable, Listed
  <2>5. Reached(req[t])'
    BY <2>1, <2>2, <2>3, <2>4 DEF Reached, ReachedAdd, Absent, Kept, disk
  <2>6. ~Committed(s, c)
    BY <1>0, <2>3, <2>4 DEF Committed, Absent, Backed
  <2>7. \A a \in acked : ~(a.new /\ Alike(a, req'[t]))
    BY <1>0, <2>1, <2>6 DEF Alike, CreatedIsCommitted, Committed, Kept
  <2>8. ASSUME NEW u \in Threads, Created(req[u]), Alike(req[u], req'[t])
        PROVE  FALSE
    <3>1. Reached(req[u])
      BY DEF HistoryInv, AllReached
    <3>2. Committed(req[u].store, req[u].content)
      BY <2>8, <3>1 DEF Reached, ReachedAdd, Created
    <3> QED
      BY <2>1, <2>6, <2>8, <3>2 DEF Alike, Kept
  <2>9. Unannounced(t, req'[t])
    BY <2>7, <2>8 DEF Unannounced
  <2> QED
    BY <2>1, <2>2, <2>5, <2>9, CreatorStays, HistoryQuiet DEF Created
<1> QED
  BY <1>1, <1>2

\* The file is opened: it was not there.
LEMMA HistoryOpen ==
    ASSUME OneTitleEach, HistoryInv, NEW t \in Threads, Open(t)
    PROVE  HistoryInv' /\ Grown /\ \A s \in Stores : Readable(s)' = Readable(s)
<1>0. TypeInv /\ TypeOK /\ Reached(req[t])
  BY DEF HistoryInv, AllReached, TypeInv
<1> DEFINE content == req[t].content
<1>1. PICK s \in Stores, n \in Names, f \in File :
        /\ s = req[t].store /\ n = NameOf(content)
        /\ f.content = content /\ f.author = req[t].author /\ f.part = "cut"
        /\ files' = [files EXCEPT ![s][n] = f]
        /\ req'[t].name = n
  <2> DEFINE s == req[t].store
             n == NameOf(content)
             f == [content |-> content, author |-> req[t].author, part |-> "cut"]
  <2>1. /\ s \in Stores /\ n \in Names /\ f \in File
        /\ files' = [files EXCEPT ![s][n] = f] /\ req'[t].name = n
    BY <1>0, OpenType
  <2>2. f.content = content /\ f.author = req[t].author /\ f.part = "cut"
    OBVIOUS
  <2> HIDE DEF f
  <2> QED
    BY <2>1, <2>2
<1>2. /\ TypeInv' /\ OnlyOf(t) /\ req[t].pc = "opening" /\ req[t].op = "add"
      /\ req'[t].pc = "writing" /\ req'[t].op = "add" /\ req'[t].store = s
      /\ content \in Contents /\ req'[t].content = content /\ req'[t].author = req[t].author
      /\ UNCHANGED <<dirs, repo, told, acked>>
  BY <1>0, <1>1, OpenType DEF Open, known
<1>3. /\ files'[s][n] = f /\ f # None
      /\ \A z \in Stores, m \in Names : z # s \/ m # n => files'[z][m] = files[z][m]
  BY <1>0, <1>1, FileAssumption DEF TypeOK, Placed
<1>4. f.content = content /\ f.author = req[t].author /\ f.part = "cut"
      /\ n[2] = TitleOf[content]
  BY <1>1 DEF NameOf
<1>5. Absent(s, content)
  BY <1>0, <1>1, <1>2 DEF Reached, ReachedAdd
<1>6. files[s][n] = None
  <2> SUFFICES ASSUME files[s][n] # None
               PROVE  FALSE
    OBVIOUS
  <2>1. files[s][n].content \in Contents
    BY <1>0 DEF TypeOK, Placed, File
  <2>2. n[2] = TitleOf[files[s][n].content]
    BY DEF HistoryInv, Titled
  <2>3. files[s][n].content = content
    BY <1>2, <1>4, <2>1, <2>2 DEF OneTitleEach
  <2> QED
    BY <1>5, <2>3 DEF Absent
<1>7. Grown
  <2>1. \A z \in Stores, m \in Names : files[z][m] # None => files'[z][m] = files[z][m]
    BY <1>3, <1>6
  <2> QED
    BY <1>2, <2>1 DEF Grown
<1>8. \A z \in Stores : Readable(z)' = Readable(z)
  <2> SUFFICES ASSUME NEW z \in Stores, NEW m \in Names
               PROVE  (files'[z][m] # None /\ files'[z][m].part # "cut")
                        <=> (files[z][m] # None /\ files[z][m].part # "cut")
    BY DEF Readable, Unreadable, Listed
  <2>1. CASE z = s /\ m = n
    BY <1>3, <1>4, <1>6, <2>1
  <2>2. CASE z # s \/ m # n
    BY <1>3, <2>2
  <2> QED
    BY <2>1, <2>2
<1>9. Titled'
  <2> SUFFICES ASSUME NEW z \in Stores, NEW m \in Names, files'[z][m] # None
               PROVE  m[2] = TitleOf[files'[z][m].content]
    BY DEF Titled
  <2>1. CASE z = s /\ m = n
    BY <1>3, <1>4, <2>1
  <2>2. CASE z # s \/ m # n
    BY <1>3, <2>2 DEF HistoryInv, Titled
  <2> QED
    BY <2>1, <2>2
<1>10. Unique'
  <2> SUFFICES ASSUME NEW z \in Stores, NEW m \in Names, NEW k \in Names,
                      files'[z][m] # None, files'[z][k] # None,
                      files'[z][m].content = files'[z][k].content
               PROVE  m = k
    BY DEF Unique
  <2>1. ASSUME NEW i \in Names, files'[z][i] # None, z # s \/ i # n
        PROVE  /\ files[z][i] # None /\ files[z][i].content = files'[z][i].content
               /\ z = s => files'[z][i].content # content
    BY <1>3, <1>5, <2>1 DEF Absent
  <2>2. CASE z = s /\ m = n
    BY <1>3, <1>4, <2>1, <2>2
  <2>3. CASE z = s /\ k = n
    BY <1>3, <1>4, <2>1, <2>3
  <2>4. CASE z # s \/ (m # n /\ k # n)
    BY <2>1, <2>4 DEF HistoryInv, Unique
  <2> QED
    BY <2>2, <2>3, <2>4
<1>11. Backed' /\ Described' /\ CreatedIsCommitted'
  BY <1>2, <1>7 DEF HistoryInv, Backed, Described, CreatedIsCommitted, Grown
<1>12. AllReached'
  <2> SUFFICES ASSUME NEW u \in Threads
               PROVE  Reached(req[u])'
    BY DEF AllReached
  <2>1. CASE u = t
    BY <1>1, <1>2, <1>3, <1>4, <2>1 DEF Reached, ReachedAdd
  <2>2. CASE u # t
    <3>1. req[u].pc \notin Holders
      BY <1>0, <1>2, <2>2, OneWriter DEF Holders
    <3> QED
      BY <1>2, <1>7, <2>2, <3>1, OthersReached DEF OnlyOf
  <2> QED
    BY <2>1, <2>2
<1>13. OneCreator'
  BY <1>2, CreatorKept
<1>14. OneSharer'
  <2>1. Unannounced(t, req[t])
    BY <1>2 DEF HistoryInv, OneSharer, Making
  <2>2. Unannounced(t, req'[t]) /\ ~Created(req'[t])
    BY <1>1, <1>2, <2>1 DEF Unannounced, Alike, Created
  <2> QED
    BY <1>2, <2>2, SharerKept
<1> QED
  BY <1>2, <1>7, <1>8, <1>9, <1>10, <1>11, <1>12, <1>13, <1>14 DEF HistoryInv

\* The file takes in its body.
LEMMA HistoryWrite ==
    ASSUME HistoryInv, NEW t \in Threads, WriteShort(t) \/ WriteWhole(t)
    PROVE  HistoryInv' /\ Grown
<1>0. TypeInv /\ TypeOK /\ Reached(req[t])
  BY DEF HistoryInv, AllReached, TypeInv
<1>1. PICK s \in Stores, n \in Names :
        /\ s = req[t].store /\ n = req[t].name
        /\ req[t].pc = "writing" /\ req[t].op = "add" /\ files[s][n] \in File
  BY <1>0, WriteType
<1>2. PICK f \in File :
        /\ files' = [files EXCEPT ![s][n] = f]
        /\ f.content = files[s][n].content /\ f.author = files[s][n].author
        /\ \/ f.part = "short" /\ req'[t].pc = "writing"
           \/ f.part = "whole" /\ req'[t].pc = "committing"
  BY <1>0, <1>1, WriteType
<1>3. TypeInv' /\ OnlyOf(t) /\ Kept(t) /\ UNCHANGED <<dirs, repo, told, acked>>
  BY <1>0, WriteType DEF WriteShort, WriteWhole, known
<1>4. /\ files'[s][n] = f /\ f # None /\ files[s][n] # None
      /\ \A z \in Stores, m \in Names : z # s \/ m # n => files'[z][m] = files[z][m]
  BY <1>0, <1>1, <1>2, FileAssumption DEF TypeOK, Placed
<1>5. \A z \in Stores, m \in Names :
          /\ files'[z][m] # None <=> files[z][m] # None
          /\ files'[z][m].content = files[z][m].content
          /\ files'[z][m].author = files[z][m].author
          /\ files'[z][m].part = files[z][m].part \/ files'[z][m].part # "cut"
  <2> SUFFICES ASSUME NEW z \in Stores, NEW m \in Names
               PROVE  /\ files'[z][m] # None <=> files[z][m] # None
                      /\ files'[z][m].content = files[z][m].content
                      /\ files'[z][m].author = files[z][m].author
                      /\ files'[z][m].part = files[z][m].part \/ files'[z][m].part # "cut"
    OBVIOUS
  <2>1. CASE z = s /\ m = n
    BY <1>2, <1>4, <2>1
  <2>2. CASE z # s \/ m # n
    BY <1>4, <2>2
  <2> QED
    BY <2>1, <2>2
<1>6. Grown
  BY <1>3, <1>5 DEF Grown
<1>7. Titled' /\ Unique' /\ Backed' /\ Described' /\ CreatedIsCommitted'
  BY <1>3, <1>5 DEF HistoryInv, Titled, Unique, Backed, Described, CreatedIsCommitted
<1>8. AllReached'
  <2> SUFFICES ASSUME NEW u \in Threads
               PROVE  Reached(req[u])'
    BY DEF AllReached
  <2>1. CASE u = t
    <3>1. /\ files[s][n].content = req[t].content /\ files[s][n].author = req[t].author
      BY <1>0, <1>1 DEF Reached, ReachedAdd
    <3>2. files'[s][n].content = req[t].content /\ files'[s][n].author = req[t].author
      BY <1>1, <1>5, <3>1
    <3> QED
      BY <1>1, <1>2, <1>3, <1>4, <2>1, <3>2 DEF Reached, ReachedAdd, Kept
  <2>2. CASE u # t
    <3>1. req[u].pc \notin Holders
      BY <1>0, <1>1, <2>2, OneWriter DEF Holders
    <3> QED
      BY <1>3, <1>6, <2>2, <3>1, OthersReached DEF OnlyOf
  <2> QED
    BY <2>1, <2>2
<1>9. OneCreator'
  BY <1>1, <1>3, CreatorKept DEF Kept
<1>10. OneSharer'
  <2>1. Unannounced(t, req[t])
    BY <1>1 DEF HistoryInv, OneSharer, Making
  <2>2. Unannounced(t, req'[t]) /\ ~Created(req'[t])
    BY <1>2, <1>3, <2>1 DEF Unannounced, Alike, Created, Kept
  <2> QED
    BY <1>3, <2>2, SharerKept
<1> QED
  BY <1>3, <1>6, <1>7, <1>8, <1>9, <1>10 DEF HistoryInv

\* A store's directory: nobody else makes it, nor has it been committed.
LEMMA HistoryDir ==
    ASSUME HistoryInv, NEW t \in Threads, MakeStore(t) \/ DescribeStore(t)
    PROVE  HistoryInv'
<1>0. TypeInv /\ TypeOK /\ Reached(req[t])
  BY DEF HistoryInv, AllReached, TypeInv
<1>1. PICK s \in Stores, state \in {"made", "described"} :
        /\ s = req[t].store /\ dirs' = [dirs EXCEPT ![s] = state]
        /\ \/ req[t].pc = "making" /\ state = "made" /\ req'[t].pc = "writing"
           \/ req[t].pc = "writing" /\ state = "described" /\ req'[t].pc = "committing"
  BY <1>0, DirType
<1>2. /\ TypeInv' /\ OnlyOf(t) /\ Kept(t) /\ req[t].op = "create"
      /\ UNCHANGED <<files, repo, told, acked>>
  BY <1>0, DirType DEF MakeStore, DescribeStore, known
<1>3. dirs'[s] = state /\ \A z \in Stores : z # s => dirs'[z] = dirs[z]
  BY <1>0, <1>1 DEF TypeOK
<1>4. Grown
  BY <1>2 DEF Grown
<1>5. Titled' /\ Unique' /\ Backed' /\ CreatedIsCommitted'
  BY <1>2 DEF HistoryInv, Titled, Unique, Backed, CreatedIsCommitted
<1>6. Described'
  <2>1. state = "made" => s \notin repo.stores
    BY <1>0, <1>1, <1>2 DEF Reached, ReachedCreate, HistoryInv, Described
  <2>2. repo.stores \subseteq Stores
    BY <1>0 DEF TypeOK
  <2> QED
    BY <1>2, <1>3, <2>1, <2>2 DEF HistoryInv, Described
<1>7. AllReached'
  <2> SUFFICES ASSUME NEW u \in Threads
               PROVE  Reached(req[u])'
    BY DEF AllReached
  <2>1. CASE u = t
    BY <1>1, <1>2, <1>3, <2>1 DEF Reached, ReachedCreate, Kept
  <2>2. CASE u # t
    <3>1. req[u].pc \notin Holders
      BY <1>0, <1>1, <2>2, OneWriter DEF Holders
    <3>2. req[u].op = "create" => req[u].store # s /\ req[u].store \in Stores
      BY <1>0, <1>1, <1>2, <2>2 DEF HistoryInv, OneCreator, TypeInv, Shaped, Shape
    <3> QED
      BY <1>2, <1>3, <1>4, <2>2, <3>1, <3>2, OthersReached DEF OnlyOf
  <2> QED
    BY <2>1, <2>2
<1>8. OneCreator'
  BY <1>2, CreatorStays, CreatorKept
<1>9. OneSharer'
  <2>1. ~Created(req'[t]) /\ ~Making(req'[t])
    BY <1>2 DEF Created, Making, Kept
  <2> QED
    BY <1>2, <2>1, SharerKept
<1> QED
  BY <1>2, <1>5, <1>6, <1>7, <1>8, <1>9 DEF HistoryInv

\* The commit takes in what agents will be told of.
LEMMA HistoryCommit ==
    ASSUME HistoryInv, NEW t \in Threads, Commit(t)
    PROVE  HistoryInv'
<1>0. TypeInv /\ TypeOK /\ Reached(req[t]) /\ Shape(req[t])
  BY DEF HistoryInv, AllReached, TypeInv, Shaped
<1>1. /\ TypeInv' /\ OnlyOf(t) /\ Kept(t) /\ req[t].pc = "committing"
      /\ req[t].op \in {"add", "create"} /\ req[t].store \in Stores
      /\ UNCHANGED <<files, dirs, told, acked>>
  BY <1>0, CommitType DEF Commit, disk, known
<1>2. req'[t].pc = "replying" /\ req'[t].answer = "created"
  BY <1>0, AnsweredTyped DEF Commit, Answers
<1>3. repo'.entries = files /\ repo'.stores = {s \in Stores : dirs[s] = "described"}
  <2> DEFINE described == {s \in Stores : dirs[s] = "described"}
  <2>1. repo' = [repo EXCEPT !.entries = files, !.stores = described]
    BY DEF Commit
  <2>2. repo \in [state : {"none", "bare", "ready"}, locked : BOOLEAN,
                  stores : SUBSET Stores, entries : Placed]
    BY <1>0 DEF TypeOK
  <2> HIDE DEF described
  <2>3. repo'.entries = files /\ repo'.stores = described
    BY <2>1, <2>2
  <2> QED
    BY <2>3 DEF described
<1>4. Grown
  <2>1. repo.stores \subseteq repo'.stores
    BY <1>0, <1>3 DEF HistoryInv, Described, TypeOK
  <2> QED
    BY <1>1, <1>3, <2>1 DEF HistoryInv, Backed, Grown
<1>5. Titled' /\ Unique' /\ Backed'
  BY <1>1, <1>3 DEF HistoryInv, Titled, Unique, Backed
<1>6. Described'
  BY <1>1, <1>3, <1>4 DEF HistoryInv, Described, Grown
<1>7. CreatedIsCommitted'
  <2>1. told' \subseteq repo'.stores
    BY <1>1, <1>4 DEF HistoryInv, CreatedIsCommitted, Grown
  <2>2. ASSUME NEW a \in acked', a.new
        PROVE  \E n \in Names : /\ repo'.entries[a.store][n] # None
                                /\ repo'.entries[a.store][n].content = a.content
    <3>1. a \in acked /\ a.store \in Stores
      BY <1>0, <1>1, <2>2 DEF TypeOK
    <3>2. PICK n \in Names : /\ repo.entries[a.store][n] # None
                             /\ repo.entries[a.store][n].content = a.content
      BY <2>2, <3>1 DEF HistoryInv, CreatedIsCommitted
    <3> QED
      BY <1>4, <3>1, <3>2 DEF Grown
  <2> QED
    BY <2>1, <2>2 DEF CreatedIsCommitted
<1>8. AllReached'
  <2> SUFFICES ASSUME NEW u \in Threads
               PROVE  Reached(req[u])'
    BY DEF AllReached
  <2>1. CASE u = t
    <3>1. CASE req[t].op = "add"
      <4>1. /\ req[t].name \in Names /\ files[req[t].store][req[t].name] # None
            /\ files[req[t].store][req[t].name].content = req[t].content
            /\ files[req[t].store][req[t].name].author = req[t].author
            /\ files[req[t].store][req[t].name].part = "whole"
        BY <1>0, <1>1, <3>1 DEF Reached, ReachedAdd, Shape
      <4>2. Committed(req[t].store, req[t].content)'
        BY <1>1, <1>3, <4>1 DEF Committed, Kept
      <4>3. Shown(req[t].store, req[t].content, req[t].author)'
        BY <1>1, <4>1 DEF Shown, Readable, Unreadable, Listed, Kept
      <4> QED
        BY <1>1, <1>2, <2>1, <3>1, <4>2, <4>3 DEF Reached, ReachedAdd, Kept
    <3>2. CASE req[t].op = "create"
      BY <1>0, <1>1, <1>2, <1>3, <2>1, <3>2 DEF Reached, ReachedCreate, Kept
    <3> QED
      BY <1>1, <3>1, <3>2
  <2>2. CASE u # t
    BY <1>1, <1>4, <2>2, OthersReached DEF OnlyOf
  <2> QED
    BY <2>1, <2>2
<1>9. OneCreator'
  BY <1>1, CreatorStays, CreatorKept
<1>10. OneSharer'
  <2>1. ASSUME Created(req'[t])
        PROVE  /\ Unannounced(t, req'[t])
               /\ \A u \in Threads : u # t /\ Making(req[u]) => ~Alike(req[u], req'[t])
    <3>1. req[t].op = "add" /\ Unannounced(t, req[t])
      BY <1>1, <2>1 DEF HistoryInv, OneSharer, Making, Created, Kept
    <3>2. Unannounced(t, req'[t])
      BY <1>1, <3>1 DEF Unannounced, Alike, Kept
    <3>3. ASSUME NEW u \in Threads, u # t, Making(req[u])
          PROVE  ~Alike(req[u], req'[t])
      <4>1. req[u].pc \notin Holders
        BY <1>0, <1>1, <3>3, OneWriter DEF Holders
      <4>2. Created(req[u])
        BY <3>3, <4>1 DEF Making, Holders
      <4> QED
        BY <3>2, <3>3, <4>2 DEF Unannounced
    <3> QED
      BY <3>2, <3>3
  <2>2. Making(req'[t]) => Created(req'[t])
    BY <1>2 DEF Making
  <2> QED
    BY <1>1, <2>1, <2>2, SharerKept
<1> QED
  BY <1>1, <1>5, <1>6, <1>7, <1>8, <1>9, <1>10 DEF HistoryInv

\* The agent is told.
LEMMA HistoryReply ==
    ASSUME HistoryInv, NEW t \in Threads, Reply(t)
    PROVE  HistoryInv'
<1>0. TypeInv /\ Reached(req[t]) /\ CreatedIsCommitted
  BY DEF HistoryInv, AllReached
<1>1. /\ TypeInv' /\ OnlyOf(t) /\ req'[t] = Idle /\ req[t].pc = "replying"
      /\ UNCHANGED <<files, dirs, repo>>
  BY <1>0, ReplyType DEF disk
<1>2. /\ told' = told \cup (IF req[t].op = "create" /\ req[t].answer = "created"
                            THEN {req[t].store} ELSE {})
      /\ \A a \in acked' : \/ a \in acked
                            \/ /\ req[t].op = "add" /\ a.new = (req[t].answer = "created")
                               /\ Alike(a, req[t])
  BY DEF Reply, Alike
<1>3. Grown
  BY <1>1 DEF Grown
<1>4. Titled' /\ Unique' /\ Backed'
  BY <1>1 DEF HistoryInv, Titled, Unique, Backed
<1>5. told' \subseteq repo'.stores
  BY <1>0, <1>1, <1>2 DEF CreatedIsCommitted, Reached, ReachedCreate
<1>6. Described'
  BY <1>1, <1>5 DEF HistoryInv, Described
<1>7. CreatedIsCommitted'
  <2>1. ASSUME NEW a \in acked', a.new
        PROVE  Committed(a.store, a.content)
    <3>1. CASE a \in acked
      BY <1>0, <2>1, <3>1 DEF CreatedIsCommitted, Committed
    <3>2. CASE req[t].op = "add" /\ req[t].answer = "created" /\ Alike(a, req[t])
      BY <1>0, <1>1, <3>2 DEF Reached, ReachedAdd, Alike
    <3> QED
      BY <1>2, <2>1, <3>1, <3>2
  <2> QED
    BY <1>1, <1>5, <2>1 DEF CreatedIsCommitted, Committed
<1>8. req'[t].op \notin {"add", "create"}
  BY <1>1, IdleTyped, FileAssumption
<1>9. AllReached'
  <2> SUFFICES ASSUME NEW u \in Threads
               PROVE  Reached(req[u])'
    BY DEF AllReached
  <2>1. CASE u = t
    BY <1>8, <2>1 DEF Reached
  <2>2. CASE u # t
    BY <1>1, <1>3, <2>2, OthersReached DEF OnlyOf
  <2> QED
    BY <2>1, <2>2
<1>10. OneCreator'
  BY <1>1, <1>8, CreatorKept
<1>11. OneSharer'
  <2>1. \A a \in acked' : a \in acked \/ ~a.new \/ (Created(req[t]) /\ Alike(a, req[t]))
    BY <1>1, <1>2 DEF Created
  <2>2. ~Created(req'[t]) /\ ~Making(req'[t])
    BY <1>8 DEF Created, Making
  <2> QED
    BY <1>1, <2>1, <2>2, SharerKept
<1> QED
  BY <1>1, <1>4, <1>6, <1>7, <1>9, <1>10, <1>11 DEF HistoryInv

LEMMA HistoryProcess ==
    ASSUME HistoryInv, Process
    PROVE  HistoryInv'
<1>0. TypeInv
  BY DEF HistoryInv
<1>1. /\ TypeInv' /\ UNCHANGED <<files, dirs, told, acked>>
      /\ repo'.entries = repo.entries /\ repo'.stores = repo.stores
      /\ req' = req \/ req' = [t \in Threads |-> Idle]
  BY <1>0, StopType, ProcessType DEF Process, disk
<1>2. Titled' /\ Unique' /\ Backed' /\ Described' /\ CreatedIsCommitted'
  BY <1>1 DEF HistoryInv, Titled, Unique, Backed, Described, CreatedIsCommitted
<1>3. CASE req' = req
  <2>1. AllReached'
    <3> SUFFICES ASSUME NEW t \in Threads
                 PROVE  Reached(req[t])'
      BY DEF AllReached
    <3>1. Reached(req[t])
      BY DEF HistoryInv, AllReached
    <3> QED
      BY <1>1, <1>3, <3>1 DEF Reached, ReachedAdd, ReachedCreate, Absent, Committed, Shown,
         Readable, Unreadable, Listed
  <2>2. OneCreator' /\ OneSharer'
    BY <1>1, <1>3 DEF HistoryInv, OneCreator, OneSharer, Unannounced
  <2> QED
    BY <1>1, <1>2, <2>1, <2>2 DEF HistoryInv
<1>4. CASE req' = [t \in Threads |-> Idle]
  <2>1. \A t \in Threads : req'[t] = Idle /\ req'[t].op \notin {"add", "create"}
    BY <1>4, IdleTyped, FileAssumption
  <2>2. AllReached'
    BY <2>1 DEF AllReached, Reached
  <2>3. OneCreator' /\ OneSharer'
    BY <2>1 DEF OneCreator, OneSharer, Making
  <2> QED
    BY <1>1, <1>2, <2>2, <2>3 DEF HistoryInv
<1> QED
  BY <1>1, <1>3, <1>4

LEMMA InitHistory == Init => HistoryInv
<1> SUFFICES ASSUME Init
             PROVE  HistoryInv
  OBVIOUS
<1>1. TypeInv
  BY InitType
<1>2. Titled /\ Unique /\ Backed /\ Described /\ CreatedIsCommitted
  BY DEF Init, Titled, Unique, Backed, Described, CreatedIsCommitted
<1>3. \A t \in Threads : req[t].op \notin {"add", "create"}
  BY IdleTyped, FileAssumption DEF Init
<1>4. AllReached /\ OneCreator /\ OneSharer
  BY <1>3 DEF AllReached, Reached, OneCreator, OneSharer, Making
<1> QED
  BY <1>1, <1>2, <1>4 DEF HistoryInv

LEMMA NextHistory ==
    ASSUME OneTitleEach, HistoryInv, [Next]_vars
    PROVE  HistoryInv'
<1>1. CASE \E t \in Threads : Serve(t)
  <2>1. PICK t \in Threads : Serve(t)
    BY <1>1
  <2> QED
    BY <2>1, ServeCases, HistoryAside, HistoryScan, HistoryOpen, HistoryWrite, HistoryDir,
       HistoryCommit, HistoryReply
<1>2. CASE Process
  BY <1>2, HistoryProcess
<1>3. CASE UNCHANGED vars
  <2>1. TypeInv'
    BY NextType DEF HistoryInv
  <2>2. Titled' /\ Unique' /\ Backed' /\ Described' /\ CreatedIsCommitted'
    BY <1>3 DEF vars, HistoryInv, Titled, Unique, Backed, Described, CreatedIsCommitted
  <2>3. AllReached'
    <3> SUFFICES ASSUME NEW t \in Threads
                 PROVE  Reached(req[t])'
      BY DEF AllReached
    <3>1. Reached(req[t])
      BY DEF HistoryInv, AllReached
    <3> QED
      BY <1>3, <3>1 DEF vars, Reached, ReachedAdd, ReachedCreate, Absent, Committed, Shown,
         Readable, Unreadable, Listed
  <2>4. OneCreator' /\ OneSharer'
    BY <1>3 DEF vars, HistoryInv, OneCreator, OneSharer, Unannounced
  <2> QED
    BY <2>1, <2>2, <2>3, <2>4 DEF HistoryInv
<1> QED
  BY <1>1, <1>2, <1>3 DEF Next

\* An agent that was answered 201 finds its entry, or its store, in the history
\* from then on, if no two contents have one name.
THEOREM CreatedStaysCommitted ==
    ASSUME OneTitleEach
    PROVE  Spec => []CreatedIsCommitted
<1>1. Init => HistoryInv
  BY InitHistory
<1>2. HistoryInv /\ [Next]_vars => HistoryInv'
  BY NextHistory
<1>3. HistoryInv => CreatedIsCommitted
  BY DEF HistoryInv
<1> QED
  BY <1>1, <1>2, <1>3, PTL DEF Spec

--------------------------------------------------------------------------------
(***************************************************************************)
(* The contract.                                                           *)
(***************************************************************************)
EntryOf(s, n) == [content |-> files[s][n].content, author |-> files[s][n].author]
Shared == [s \in Stores |-> {EntryOf(s, n) : n \in Readable(s)}]

LEMMA EntryTyped ==
    ASSUME TypeOK, NEW s \in Stores, NEW n \in Listed(s)
    PROVE  /\ EntryOf(s, n) \in [content : Contents, author : Authors]
           /\ EntryOf(s, n).content = files[s][n].content
           /\ EntryOf(s, n).author = files[s][n].author
<1>1. files[s][n] \in File
  BY DEF TypeOK, Placed, Listed
<1> QED
  BY <1>1 DEF File, EntryOf

\* A file comes to be readable: its entry is shared.
LEMMA WriteShares ==
    ASSUME HistoryInv, NEW t \in Threads, WriteShort(t) \/ WriteWhole(t)
    PROVE  \/ UNCHANGED <<Shared, acked>>
           \/ \E s \in Stores, e \in [content : Contents, author : Authors] :
                 /\ \A other \in Shared[s] : other.content # e.content
                 /\ Shared' = [Shared EXCEPT ![s] = @ \cup {e}]
                 /\ UNCHANGED acked
<1>0. TypeInv /\ TypeOK
  BY DEF HistoryInv, TypeInv
<1>1. PICK s \in Stores, n \in Names :
        s = req[t].store /\ n = req[t].name /\ files[s][n] \in File
  BY <1>0, WriteType
<1>2. PICK f \in File :
        /\ files' = [files EXCEPT ![s][n] = f]
        /\ f.content = files[s][n].content /\ f.author = files[s][n].author
        /\ f.part \in {"short", "whole"}
  BY <1>0, <1>1, WriteType
<1>3. UNCHANGED acked
  BY DEF WriteShort, WriteWhole, known
<1>4. /\ files'[s][n] = f /\ f # None /\ files[s][n] # None
      /\ \A z \in Stores, m \in Names : z # s \/ m # n => files'[z][m] = files[z][m]
  BY <1>0, <1>1, <1>2, FileAssumption DEF TypeOK, Placed
<1>5. \A z \in Stores, m \in Names : EntryOf(z, m)' = EntryOf(z, m)
  BY <1>2, <1>4 DEF EntryOf
<1>6. /\ Readable(s)' = Readable(s) \cup {n}
      /\ \A z \in Stores : z # s => Readable(z)' = Readable(z)
  BY <1>2, <1>4 DEF Readable, Unreadable, Listed
<1>7. /\ Shared' = [Shared EXCEPT ![s] = @ \cup {EntryOf(s, n)}]
  <2>1. \A z \in Stores : Shared'[z] = {EntryOf(z, m) : m \in Readable(z)'}
    BY <1>5 DEF Shared, Readable, Listed
  <2>2. Shared'[s] = Shared[s] \cup {EntryOf(s, n)}
    BY <1>6, <2>1 DEF Shared
  <2>3. \A z \in Stores : z # s => Shared'[z] = Shared[z]
    BY <1>6, <2>1 DEF Shared
  <2> QED
    BY <2>2, <2>3 DEF Shared
<1>8. CASE n \in Readable(s)
  <2>1. Shared[s] \cup {EntryOf(s, n)} = Shared[s]
    BY <1>8 DEF Shared
  <2>2. Shared' = Shared
    BY <1>7, <2>1 DEF Shared
  <2> QED
    BY <1>3, <2>2
<1>9. CASE n \notin Readable(s)
  <2>1. EntryOf(s, n) \in [content : Contents, author : Authors]
        /\ EntryOf(s, n).content = files[s][n].content
    BY <1>0, <1>4, EntryTyped DEF Listed
  <2>2. ASSUME NEW other \in Shared[s]
        PROVE  other.content # EntryOf(s, n).content
    <3>1. PICK m \in Readable(s) : other = EntryOf(s, m)
      BY DEF Shared
    <3>2. other.content = files[s][m].content /\ m # n /\ m \in Names /\ files[s][m] # None
      BY <1>0, <1>9, <3>1, EntryTyped DEF Readable, Listed
    <3> QED
      BY <1>4, <2>1, <3>2 DEF HistoryInv, Unique
  <2> QED
    BY <1>3, <1>7, <2>1, <2>2
<1> QED
  BY <1>8, <1>9

\* An answer is an acknowledgement of an entry, or of none.
LEMMA ReplyAcknowledges ==
    ASSUME HistoryInv, NEW t \in Threads, Reply(t)
    PROVE  /\ UNCHANGED Shared
           /\ \/ UNCHANGED acked
              \/ \E s \in Stores, e \in [content : Contents, author : Authors], new \in BOOLEAN :
                    /\ e \in Shared[s]
                    /\ new => \A a \in acked :
                                ~(a.store = s /\ a.content = e.content /\ a.new)
                    /\ acked' = acked \cup {[store |-> s, content |-> e.content,
                                             author |-> e.author, new |-> new]}
<1>0. TypeOK /\ Shape(req[t]) /\ Reached(req[t])
  BY DEF HistoryInv, TypeInv, Shaped, AllReached
<1>1. UNCHANGED Shared /\ req[t].pc = "replying"
  BY DEF Reply, disk, Shared, EntryOf, Readable, Unreadable, Listed
<1>2. CASE ~(req[t].op = "add" /\ req[t].answer \in {"created", "duplicate"})
  BY <1>1, <1>2 DEF Reply
<1>3. CASE req[t].op = "add" /\ req[t].answer \in {"created", "duplicate"}
  <2> DEFINE s == req[t].store
             new == req[t].answer = "created"
  <2>1. s \in Stores /\ new \in BOOLEAN
    BY <1>0, <1>1, <1>3 DEF Shape
  <2>2. PICK n \in Readable(s) : files[s][n].content = req[t].content
                                 /\ files[s][n].author = req[t].author
    BY <1>0, <1>1, <1>3 DEF Reached, ReachedAdd, Shown
  <2> DEFINE e == EntryOf(s, n)
  <2>3. /\ e \in [content : Contents, author : Authors] /\ e \in Shared[s]
        /\ e.content = req[t].content /\ e.author = req[t].author
    <3>1. n \in Listed(s)
      BY DEF Readable
    <3>2. e \in Shared[s]
      BY <2>1 DEF Shared
    <3> QED
      BY <1>0, <2>1, <2>2, <3>1, <3>2, EntryTyped
  <2>4. acked' = acked \cup {[store |-> s, content |-> e.content, author |-> e.author,
                              new |-> new]}
    BY <1>3, <2>3 DEF Reply
  <2>5. new => \A a \in acked : ~(a.store = s /\ a.content = e.content /\ a.new)
    <3>1. new => Unannounced(t, req[t])
      BY <1>1, <1>3 DEF HistoryInv, OneSharer, Making, Created
    <3> QED
      BY <2>3, <3>1 DEF Unannounced, Alike
  <2> HIDE DEF e, s, new
  <2> QED
    BY <1>1, <2>1, <2>3, <2>4, <2>5
<1> QED
  BY <1>2, <1>3

\* Steps that share nothing and tell nobody.
LEMMA StepStutters ==
    ASSUME HistoryInv, NEW t \in Threads,
           \/ Arrival(t) \/ Acquire(t) \/ ScanUnknown(t) \/ ScanUnreadable(t)
           \/ ScanNew(t) \/ ScanDuplicate(t) \/ MakeStore(t) \/ DescribeStore(t)
           \/ Commit(t) \/ CommitFails(t) \/ LoseReply(t)
           \/ ReadUnknown(t) \/ List(t) \/ Read(t) \/ ReadLast(t)
    PROVE  UNCHANGED <<files, acked>>
<1>0. TypeInv
  BY DEF HistoryInv
<1>1. CASE Arrival(t)
  BY <1>0, <1>1, ArrivalType DEF disk, known
<1>2. CASE ReadUnknown(t) \/ List(t) \/ Read(t) \/ ReadLast(t)
  BY <1>0, <1>2, ReadType DEF disk, known
<1>3. CASE \/ Acquire(t) \/ ScanUnknown(t) \/ ScanUnreadable(t) \/ ScanNew(t)
           \/ ScanDuplicate(t) \/ MakeStore(t) \/ DescribeStore(t) \/ Commit(t)
           \/ CommitFails(t) \/ LoseReply(t)
  BY <1>3 DEF Acquire, ScanUnknown, ScanUnreadable, TurnDown, ScanNew, ScanDuplicate,
     MakeStore, DescribeStore, Commit, CommitFails, LoseReply, disk, known
<1> QED
  BY <1>1, <1>2, <1>3

LEMMA SharedStays ==
    ASSUME UNCHANGED files
    PROVE  UNCHANGED Shared
  BY DEF Shared, EntryOf, Readable, Unreadable, Listed

\* An opened file cannot be read yet.
LEMMA OpenStutters ==
    ASSUME OneTitleEach, HistoryInv, NEW t \in Threads, Open(t)
    PROVE  UNCHANGED <<Shared, acked>>
<1>1. Grown /\ \A s \in Stores : Readable(s)' = Readable(s)
  BY HistoryOpen
<1>2. ASSUME NEW s \in Stores, NEW n \in Readable(s)
      PROVE  EntryOf(s, n)' = EntryOf(s, n)
  BY <1>1, <1>2 DEF Grown, EntryOf, Readable, Listed
<1>3. Shared' = Shared
  BY <1>1, <1>2 DEF Shared
<1> QED
  BY <1>3 DEF Open, known

\* Every step of the service is a step of the contract or none.
LEMMA NextContract ==
    ASSUME OneTitleEach, HistoryInv, [Next]_vars
    PROVE  [Contract!Next]_<<Shared, acked>>
<1>1. ASSUME NEW t \in Threads, WriteShort(t) \/ WriteWhole(t)
      PROVE  [Contract!Next]_<<Shared, acked>>
  <2>1. CASE UNCHANGED <<Shared, acked>>
    BY <2>1
  <2>2. ASSUME NEW s \in Stores, NEW e \in [content : Contents, author : Authors],
               \A other \in Shared[s] : other.content # e.content,
               Shared' = [Shared EXCEPT ![s] = @ \cup {e}], UNCHANGED acked
        PROVE  Contract!Next
    <3>1. Contract!Share(s, e)
      BY <2>2, Zenon DEF Contract!Share, Shared, EntryOf
    <3> QED
      BY <3>1, Zenon DEF Contract!Next, Contract!Entry
  <2> QED
    BY <1>1, <2>1, <2>2, WriteShares, Zenon
<1>2. ASSUME NEW t \in Threads, Reply(t)
      PROVE  [Contract!Next]_<<Shared, acked>>
  <2>1. CASE UNCHANGED <<Shared, acked>>
    BY <2>1
  <2>2. ASSUME NEW s \in Stores, NEW e \in [content : Contents, author : Authors],
               NEW new \in BOOLEAN, e \in Shared[s],
               new => \A a \in acked : ~(a.store = s /\ a.content = e.content /\ a.new),
               acked' = acked \cup {[store |-> s, content |-> e.content,
                                    author |-> e.author, new |-> new]},
               UNCHANGED Shared
        PROVE  Contract!Next
    <3>1. Contract!Acknowledge(s, e, new)
      BY <2>2, Zenon DEF Contract!Acknowledge, Shared, EntryOf
    <3> QED
      BY <3>1, Zenon DEF Contract!Next, Contract!Entry
  <2> QED
    BY <1>2, <2>1, <2>2, ReplyAcknowledges, Zenon
<1>3. CASE \E t \in Threads : Serve(t)
  <2>1. PICK t \in Threads : Serve(t)
    BY <1>3
  <2> QED
    BY <1>1, <1>2, <2>1, ServeCases, StepStutters, SharedStays, OpenStutters
<1>4. CASE Process
  <2>1. UNCHANGED <<files, acked>>
    BY <1>4, StopType, ProcessType DEF HistoryInv, Process, disk
  <2> QED
    BY <2>1, SharedStays
<1>5. CASE UNCHANGED vars
  BY <1>5, SharedStays DEF vars
<1> QED
  BY <1>3, <1>4, <1>5 DEF Next

LEMMA InitContract == Init => Contract!Init
<1> SUFFICES ASSUME Init
             PROVE  Contract!Init
  OBVIOUS
<1>1. \A s \in Stores : Readable(s) = {}
  BY DEF Init, Readable, Unreadable, Listed
<1>2. Shared = [s \in Stores |-> {}]
  BY <1>1 DEF Shared
<1>3. acked = {}
  BY DEF Init
<1> QED
  BY <1>2, <1>3, Zenon DEF Contract!Init, Shared, EntryOf

\* Stores only grow, hold one entry a content, and keep who shared it first;
\* one agent at most is told that its entry is new.  It is so for every
\* interleaving and every end of the process, if no two contents have one name.
THEOREM ServiceImplementsContract ==
    ASSUME OneTitleEach
    PROVE  Spec => ImplementsContract
<1>1. Init => HistoryInv
  BY InitHistory
<1>2. HistoryInv /\ [Next]_vars => HistoryInv'
  BY NextHistory
<1>3. Init => Contract!Init
  BY InitContract
<1>4. HistoryInv /\ [Next]_vars => [Contract!Next]_<<Shared, acked>>
  BY NextContract
<1> QED
  BY <1>1, <1>2, <1>3, <1>4, PTL DEF Spec, ImplementsContract, Contract!Spec, Shared, EntryOf
================================================================================
