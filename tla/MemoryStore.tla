------------------------------ MODULE MemoryStore ------------------------------
(***************************************************************************)
(* The shared memory service: the request threads of hearthmem/server.py   *)
(* over the git-backed store of hearthmem/store.py.                        *)
(*                                                                         *)
(* Writers hold the one lock from the scan for a duplicate to the commit;  *)
(* readers hold nothing and read one file per step.  write_text is the     *)
(* truncation of the file, then its content, in one piece or two.  A git   *)
(* command may fail, the process may be killed or told to stop between any *)
(* two steps, and it is started again over what it left on the volume.     *)
(*                                                                         *)
(* A store stands for the digest of its token and a content for its        *)
(* SHA-256; the digests are perfect.  An entry's name is its day and the   *)
(* slug of the first 48 characters of its content, here a title.           *)
(***************************************************************************)
EXTENDS Naturals, FiniteSets

CONSTANTS
    Stores,     \* stores, as their tokens' digests
    Stray,      \* a token no store has
    Contents,   \* contents of entries
    Blank,      \* a content that is empty once stripped
    Authors,    \* who an entry says it is from
    Titles,     \* slugs, ordered as their file names are
    TitleOf,    \* the slug of each content
    LastDay,    \* bound on the calendar
    Threads,    \* bound on the requests served at once
    Varied,     \* bound: the threads that may serve more than sound writes
    Sharings,   \* bound: who sends what, as <<content, author>> pairs
    MaxFaults,  \* bound on failed git commands, lost answers, kills and signals
    None        \* no value

ASSUME StoreAssumption ==
    /\ Stray \notin Stores
    /\ Blank \notin Contents
    /\ Titles \subseteq Nat /\ IsFiniteSet(Titles)
    /\ TitleOf \in [Contents -> Titles]
    /\ LastDay \in Nat /\ MaxFaults \in Nat
    /\ Varied \subseteq Threads /\ Sharings \subseteq Contents \X Authors
    /\ None \notin Stores \cup {Stray} \cup Contents \cup Authors \cup Threads

VARIABLES
    files,      \* the entries directory of each store
    dirs,       \* how far each store's own directory has come
    repo,       \* the git repository: what HEAD holds, and its state
    lock,       \* the thread inside "with self._lock"
    req,        \* the request each thread serves
    proc,       \* the service's process
    day,        \* the date
    faults,     \* faults so far
    told,       \* the stores whose token has been handed out
    (***********************************************************************)
    (* Observations: no action's guard reads these.                        *)
    (***********************************************************************)
    acked,      \* the entries agents were told of
    wrecked     \* files a stopped process left unfinished

vars == <<files, dirs, repo, lock, req, proc, day, faults, told, acked, wrecked>>

--------------------------------------------------------------------------------
(***************************************************************************)
(* Files.  A "cut" file does not hold its whole front matter, a "short"    *)
(* one does but not its whole body: the first cannot be parsed, the second *)
(* can, and says the digest of the content it was meant to hold.           *)
(***************************************************************************)
Days == 0 .. LastDay
Names == Days \X Titles

File == [content : Contents, author : Authors, part : {"cut", "short", "whole"}]

ASSUME FileAssumption ==
    None \notin File \cup {"add", "create", "list", "describe", "listed", "described"}

\* The order of sorted(glob("*.md")).
Before(m, n) == m[1] < n[1] \/ (m[1] = n[1] /\ m[2] < n[2])

Listed(s) == {n \in Names : files[s][n] # None}
Unreadable(s) == {n \in Listed(s) : files[s][n].part = "cut"}
Readable(s) == Listed(s) \ Unreadable(s)

\* The files that say they hold content c.
Holding(s, c) == {n \in Readable(s) : files[s][n].content = c}

\* Mutant: the name is the day and a fixed word.
NameOfDay(c) == <<day, CHOOSE title \in Titles : TRUE>>

NameOf(c) == <<day, TitleOf[c]>>

Unfinished == {sn \in Stores \X Names :
                  /\ files[sn[1]][sn[2]] # None
                  /\ files[sn[1]][sn[2]].part # "whole"}

--------------------------------------------------------------------------------
(***************************************************************************)
(* Requests.  A thread stands where its pc says; the last value of pc      *)
(* before it is idle again is "replying", with the answer to be sent.      *)
(***************************************************************************)
Answers == {"created", "duplicate", "listed", "described",  \* 201, 200, 200, 200
            "refused", "unknown", "unreadable", "git"}      \* 400, 404, 500, 500

Holders == {"scanning", "making", "opening", "writing", "committing"}

Request ==
    [pc : {"idle", "locking", "listing", "reading", "replying"} \cup Holders,
     op : {"add", "create", "list", "describe", None},
     store : Stores \cup {Stray, None},
     content : Contents \cup {Blank, None},
     author : Authors \cup {None},
     name : Names \cup {None},      \* the file being written
     todo : SUBSET Names,           \* files listed and not read yet
     got : SUBSET (Contents \X {"short", "whole"}),
     due : SUBSET Contents,         \* entries agents knew of when it arrived
     answer : Answers \cup {None}]

Idle == [pc |-> "idle", op |-> None, store |-> None, content |-> None,
         author |-> None, name |-> None, todo |-> {}, got |-> {}, due |-> {},
         answer |-> None]

\* The thread comes to stand at pc, or has its answer.
Goto(t, pc) == req' = [req EXCEPT ![t].pc = pc]
Answered(t, answer) ==
    req' = [req EXCEPT ![t].pc = "replying", ![t].answer = answer]

disk == <<files, dirs>>
service == <<proc, day, faults>>
known == <<told, acked, wrecked>>

--------------------------------------------------------------------------------
(***************************************************************************)
(* A request arrives on a thread of its own.  Agents use the tokens they   *)
(* were given, or one that belongs to no store.                            *)
(***************************************************************************)
\* The entries agents were told of so far.
Known(token) == {a.content : a \in {b \in acked : b.store = token}}

Arrive(t, op, token, content, author, pc) ==
    /\ proc = "up" /\ req[t].pc = "idle"
    /\ req' = [req EXCEPT ![t] =
                  [Idle EXCEPT !.pc = pc, !.op = op, !.store = token,
                               !.content = content, !.author = author,
                               !.due = IF op \in {"list", "describe"}
                                       THEN Known(token) ELSE {}]]
    /\ UNCHANGED <<disk, repo, lock, service, known>>

\* POST /stores/{token}/entries.  An empty content is refused before the lock.
ArriveAdd(t, token, content, author) ==
    Arrive(t, "add", token, content, author, "locking")

RefuseAdd(t, token) ==
    /\ proc = "up" /\ req[t].pc = "idle"
    /\ req' = [req EXCEPT ![t] = [Idle EXCEPT !.pc = "replying", !.op = "add",
                                      !.store = token, !.content = Blank,
                                      !.answer = "refused"]]
    /\ UNCHANGED <<disk, repo, lock, service, known>>

\* POST /stores.  The token is drawn at random: no other request has it.
ArriveCreate(t, s) ==
    /\ dirs[s] = "absent"
    /\ \A u \in Threads : ~(req[u].op = "create" /\ req[u].store = s)
    /\ Arrive(t, "create", s, None, None, "locking")

\* GET /stores/{token}/entries and GET /stores/{token}.
ArriveRead(t, op, token) == Arrive(t, op, token, None, None, "listing")

--------------------------------------------------------------------------------
(***************************************************************************)
(* Writers.                                                                *)
(***************************************************************************)
\* Mutant: the lock is not waited for.
AcquireAnyway(t) ==
    /\ req[t].pc = "locking"
    /\ lock' = t
    /\ Goto(t, IF req[t].op = "create" THEN "making" ELSE "scanning")
    /\ UNCHANGED <<disk, repo, service, known>>

Acquire(t) ==
    /\ req[t].pc = "locking" /\ lock = None
    /\ lock' = t
    /\ Goto(t, IF req[t].op = "create" THEN "making" ELSE "scanning")
    /\ UNCHANGED <<disk, repo, service, known>>

\* Mutant: an exception leaves the lock taken.
TurnDownHolding(t, answer) ==
    /\ Answered(t, answer)
    /\ UNCHANGED <<disk, repo, lock, service, known>>

\* The request holds the lock, is turned down, and lets go of it.
TurnDown(t, answer) ==
    /\ Answered(t, answer)
    /\ lock' = None
    /\ UNCHANGED <<disk, repo, service, known>>

ScanUnknown(t) ==
    /\ req[t].pc = "scanning" /\ req[t].store = Stray
    /\ TurnDown(t, "unknown")

\* The scan stops at the first file that has the content or cannot be parsed.
ScanUnreadable(t) ==
    LET s == req[t].store  c == req[t].content IN
    /\ req[t].pc = "scanning" /\ s # Stray
    /\ \E n \in Unreadable(s) : \A m \in Holding(s, c) : Before(n, m)
    /\ TurnDown(t, "unreadable")

\* The entry as it was first shared is the answer.
ScanDuplicate(t) ==
    LET s == req[t].store  c == req[t].content IN
    /\ req[t].pc = "scanning" /\ s # Stray
    /\ \E n \in Holding(s, c) :
          /\ \A m \in Unreadable(s) \cup Holding(s, c) : ~Before(m, n)
          /\ req' = [req EXCEPT ![t].pc = "replying", ![t].answer = "duplicate",
                                ![t].author = files[s][n].author]
    /\ lock' = None
    /\ UNCHANGED <<disk, repo, service, known>>

\* Mutant: only the entries of the day are looked at.
ScanNewToday(t) ==
    LET s == req[t].store  c == req[t].content IN
    /\ req[t].pc = "scanning" /\ s # Stray
    /\ Unreadable(s) = {} /\ \A n \in Holding(s, c) : n[1] # day
    /\ Goto(t, "opening")
    /\ UNCHANGED <<disk, repo, lock, service, known>>

ScanNew(t) ==
    LET s == req[t].store  c == req[t].content IN
    /\ req[t].pc = "scanning" /\ s # Stray
    /\ Unreadable(s) = {} /\ Holding(s, c) = {}
    /\ Goto(t, "opening")
    /\ UNCHANGED <<disk, repo, lock, service, known>>

\* write_text opens the file, whatever was in it.
Open(t) ==
    LET s == req[t].store  c == req[t].content IN
    /\ req[t].pc = "opening"
    /\ files' = [files EXCEPT ![s][NameOf(c)] =
                    [content |-> c, author |-> req[t].author, part |-> "cut"]]
    /\ req' = [req EXCEPT ![t].pc = "writing", ![t].name = NameOf(c)]
    /\ UNCHANGED <<dirs, repo, lock, service, known>>

\* A long body may reach the disk in pieces.
WriteShort(t) ==
    LET s == req[t].store  n == req[t].name IN
    /\ req[t].pc = "writing" /\ req[t].op = "add" /\ files[s][n].part = "cut"
    /\ files' = [files EXCEPT ![s][n].part = "short"]
    /\ UNCHANGED <<dirs, repo, lock, req, service, known>>

WriteWhole(t) ==
    LET s == req[t].store  n == req[t].name IN
    /\ req[t].pc = "writing" /\ req[t].op = "add"
    /\ files' = [files EXCEPT ![s][n].part = "whole"]
    /\ Goto(t, "committing")
    /\ UNCHANGED <<dirs, repo, lock, service, known>>

\* create_store: both directories, then store.md.  Until the answer is sent
\* nobody can address them.
MakeStore(t) ==
    /\ req[t].pc = "making"
    /\ dirs' = [dirs EXCEPT ![req[t].store] = "made"]
    /\ Goto(t, "writing")
    /\ UNCHANGED <<files, repo, lock, service, known>>

DescribeStore(t) ==
    /\ req[t].pc = "writing" /\ req[t].op = "create"
    /\ dirs' = [dirs EXCEPT ![req[t].store] = "described"]
    /\ Goto(t, "committing")
    /\ UNCHANGED <<files, repo, lock, service, known>>

\* git add -A, git status and git commit: HEAD becomes the whole volume, what
\* an earlier request left uncommitted with it.
Commit(t) ==
    /\ req[t].pc = "committing"
    /\ repo.state = "ready" /\ ~repo.locked
    /\ repo' = [repo EXCEPT !.entries = files,
                            !.stores = {s \in Stores : dirs[s] = "described"}]
    /\ Answered(t, "created")
    /\ lock' = None
    /\ UNCHANGED <<disk, service, known>>

\* Mutant: git's exit status is not checked.
CommitFailsUnseen(t) ==
    /\ req[t].pc = "committing"
    /\ IF repo.state = "ready" /\ ~repo.locked
       THEN faults < MaxFaults /\ faults' = faults + 1
       ELSE UNCHANGED faults
    /\ Answered(t, "created")
    /\ lock' = None
    /\ UNCHANGED <<disk, repo, proc, day, known>>

\* A git command fails: by itself, because a killed one left index.lock behind,
\* or because the repository has no identity to commit as.  The file stays.
CommitFails(t) ==
    /\ req[t].pc = "committing"
    /\ IF repo.state = "ready" /\ ~repo.locked
       THEN faults < MaxFaults /\ faults' = faults + 1
       ELSE UNCHANGED faults
    /\ Answered(t, "git")
    /\ lock' = None
    /\ UNCHANGED <<disk, repo, proc, day, known>>

--------------------------------------------------------------------------------
(***************************************************************************)
(* Readers, without the lock.                                              *)
(***************************************************************************)
ReadUnknown(t) ==
    /\ req[t].pc = "listing" /\ req[t].store = Stray
    /\ Answered(t, "unknown")
    /\ UNCHANGED <<disk, repo, lock, service, known>>

\* entries lists the directory; describe counts what it lists.
List(t) ==
    /\ req[t].pc = "listing" /\ req[t].store # Stray
    /\ req' = [req EXCEPT ![t].todo = Listed(req[t].store),
                          ![t].pc = IF req[t].op = "list" THEN "reading" ELSE "replying",
                          ![t].answer = IF req[t].op = "list" THEN None ELSE "described"]
    /\ UNCHANGED <<disk, repo, lock, service, known>>

\* The next file in order is read as it is now.
Read(t) ==
    /\ req[t].pc = "reading"
    /\ \E n \in req[t].todo :
        LET file == files[req[t].store][n] IN
        /\ \A m \in req[t].todo : ~Before(m, n)
        /\ IF file.part = "cut"
           THEN Answered(t, "unreadable")
           ELSE req' = [req EXCEPT ![t].todo = @ \ {n},
                                   ![t].got = @ \cup {<<file.content, file.part>>}]
    /\ UNCHANGED <<disk, repo, lock, service, known>>

ReadLast(t) ==
    /\ req[t].pc = "reading" /\ req[t].todo = {}
    /\ Answered(t, "listed")
    /\ UNCHANGED <<disk, repo, lock, service, known>>

--------------------------------------------------------------------------------
(***************************************************************************)
(* The answer reaches the agent, or the connection is gone.                *)
(***************************************************************************)
\* Mutant: whatever did not fail counts as shared.
ReplyUnfailed(t) ==
    LET r == req[t] IN
    /\ r.pc = "replying"
    /\ req' = [req EXCEPT ![t] = Idle]
    /\ told' = told \cup (IF r.op = "create" /\ r.answer = "created"
                          THEN {r.store} ELSE {})
    /\ acked' = acked \cup
          (IF r.op = "add" /\ r.answer \notin {"unknown", "unreadable", "git"}
           THEN {[store |-> r.store, content |-> r.content, author |-> r.author,
                  new |-> r.answer # "duplicate"]}
           ELSE {})
    /\ UNCHANGED <<disk, repo, lock, service, wrecked>>

Reply(t) ==
    LET r == req[t] IN
    /\ r.pc = "replying"
    /\ req' = [req EXCEPT ![t] = Idle]
    /\ told' = told \cup (IF r.op = "create" /\ r.answer = "created"
                          THEN {r.store} ELSE {})
    /\ acked' = acked \cup
          (IF r.op = "add" /\ r.answer \in {"created", "duplicate"}
           THEN {[store |-> r.store, content |-> r.content, author |-> r.author,
                  new |-> r.answer = "created"]}
           ELSE {})
    /\ UNCHANGED <<disk, repo, lock, service, wrecked>>

LoseReply(t) ==
    /\ req[t].pc = "replying" /\ faults < MaxFaults
    /\ req' = [req EXCEPT ![t] = Idle]
    /\ faults' = faults + 1
    /\ UNCHANGED <<disk, repo, lock, proc, day, known>>

--------------------------------------------------------------------------------
(***************************************************************************)
(* The process.  Its request threads are daemons, and git runs in its      *)
(* container: both end where they are when it ends.                        *)
(***************************************************************************)
\* A git command that is cut short may leave its index.lock.
Stopped(how) ==
    /\ proc' = how
    /\ req' = [t \in Threads |-> Idle]
    /\ lock' = None
    /\ wrecked' = wrecked \cup Unfinished
    /\ \E left \in BOOLEAN :
          /\ left => \E t \in Threads : req[t].pc = "committing"
          /\ repo' = [repo EXCEPT !.locked = @ \/ left]
    /\ UNCHANGED <<disk, day, told, acked>>

Kill ==
    /\ proc \in {"configuring", "up", "draining"} /\ faults < MaxFaults
    /\ faults' = faults + 1
    /\ Stopped("killed")

\* SIGTERM: a thread of its own calls server.shutdown().
Signal ==
    /\ proc = "up" /\ faults < MaxFaults
    /\ proc' = "draining"
    /\ faults' = faults + 1
    /\ UNCHANGED <<disk, repo, lock, req, day, known>>

\* serve_forever has returned and so does server_close: no thread is waited for.
Exit ==
    /\ proc = "draining"
    /\ Stopped("exited")
    /\ UNCHANGED faults

\* The next process finds the repository, or begins to make one.
Start ==
    /\ proc \in {"exited", "killed"}
    /\ IF repo.state = "none"
       THEN proc' = "configuring" /\ repo' = [repo EXCEPT !.state = "bare"]
       ELSE proc' = "up" /\ UNCHANGED repo
    /\ UNCHANGED <<disk, lock, req, day, faults, known>>

Configure ==
    /\ proc = "configuring"
    /\ proc' = "up"
    /\ repo' = [repo EXCEPT !.state = "ready"]
    /\ UNCHANGED <<disk, lock, req, day, faults, known>>

Midnight ==
    /\ day < LastDay
    /\ day' = day + 1
    /\ UNCHANGED <<disk, repo, lock, req, proc, faults, known>>

--------------------------------------------------------------------------------
Init ==
    /\ files = [s \in Stores |-> [n \in Names |-> None]]
    /\ dirs = [s \in Stores |-> "absent"]
    /\ repo = [state |-> "none", locked |-> FALSE, stores |-> {},
               entries |-> [s \in Stores |-> [n \in Names |-> None]]]
    /\ lock = None
    /\ req = [t \in Threads |-> Idle]
    /\ proc = "exited"
    /\ day = 0 /\ faults = 0
    /\ told = {} /\ acked = {} /\ wrecked = {}

\* The steps a thread takes by itself once nothing can keep it waiting.
Work(t) ==
    \/ ScanUnknown(t) \/ ScanUnreadable(t) \/ ScanDuplicate(t) \/ ScanNew(t)
    \/ Open(t) \/ WriteWhole(t)
    \/ MakeStore(t) \/ DescribeStore(t) \/ Commit(t) \/ CommitFails(t)
    \/ ReadUnknown(t) \/ List(t) \/ Read(t) \/ ReadLast(t)
    \/ Reply(t)

Serve(t) ==
    \/ \E s \in Stores : ArriveCreate(t, s)
    \/ \E token \in told, cs \in Sharings : ArriveAdd(t, token, cs[1], cs[2])
    \/ /\ t \in Varied
       /\ \E token \in told \cup {Stray} :
             \/ \E cs \in Sharings : ArriveAdd(t, token, cs[1], cs[2])
             \/ RefuseAdd(t, token)
             \/ \E op \in {"list", "describe"} : ArriveRead(t, op, token)
    \/ Acquire(t)
    \/ Work(t)
    \/ WriteShort(t)
    \/ LoseReply(t)

Process == Kill \/ Signal \/ Exit \/ Start \/ Configure \/ Midnight

Next == (\E t \in Threads : Serve(t)) \/ Process

\* A thread that has what it needs runs.  Nothing says that the lock is fair.
Spec == Init /\ [][Next]_vars /\ \A t \in Threads : WF_vars(Work(t))

--------------------------------------------------------------------------------
(***************************************************************************)
(* Properties.                                                             *)
(***************************************************************************)
Placed == [Stores -> [Names -> File \cup {None}]]

\* Every variable keeps its type (store.py, server.py).
TypeOK ==
    /\ files \in Placed
    /\ dirs \in [Stores -> {"absent", "made", "described"}]
    /\ repo \in [state : {"none", "bare", "ready"}, locked : BOOLEAN,
                 stores : SUBSET Stores, entries : Placed]
    /\ lock \in Threads \cup {None}
    /\ req \in [Threads -> Request]
    /\ proc \in {"configuring", "up", "draining", "exited", "killed"}
    /\ day \in Days /\ faults \in 0 .. MaxFaults
    /\ told \in SUBSET Stores
    /\ acked \in SUBSET [store : Stores, content : Contents, author : Authors,
                         new : BOOLEAN]
    /\ wrecked \in SUBSET (Stores \X Names)

\* "Writes are serialised" (README.md:97): a commit never takes in a file that
\* another request is still writing.  What it takes in unfinished, a process
\* that was stopped had left behind.
CommitsAreWhole ==
    \A s \in Stores, n \in Names :
        \/ repo.entries[s][n] = None
        \/ repo.entries[s][n].part = "whole"
        \/ <<s, n>> \in wrecked

\* An agent that was answered 201 finds its entry, or its store, in the history
\* whatever happens to the volume after that (README.md:7, committed to git on
\* every write).  A retry answered 200 does not promise as much.
CreatedIsCommitted ==
    /\ told \subseteq repo.stores
    /\ \A a \in acked : a.new =>
          \E n \in Names : /\ repo.entries[a.store][n] # None
                           /\ repo.entries[a.store][n].content = a.content

\* The entries of a file that was not wrecked.
Sound(s, c) == \A n \in Holding(s, c) : <<s, n>> \notin wrecked

\* A list (before search cuts it to its limit) or a count that succeeds, though
\* it holds no lock while entries are written, misses no entry an agent knew of
\* when it asked and shows it in full.
ReadersMissNothing ==
    \A t \in Threads :
        /\ req[t].answer = "listed" =>
              \A c \in req[t].due :
                  Sound(req[t].store, c) => <<c, "whole">> \in req[t].got
        /\ req[t].answer = "described" =>
              Cardinality(req[t].due) <= Cardinality(req[t].todo)

\* Whatever way a write ends - new, duplicate, unreadable store, failed commit -
\* its request is answered and the lock is free again, and so does every read
\* end (with self._lock; _guard answers every exception).
RequestsEnd ==
    \A t \in Threads :
        (lock = t \/ req[t].pc \notin {"idle", "locking"})
            ~> (lock # t /\ req[t].pc = "idle")

\* Stores only grow, hold one entry per content, and keep who shared it first
\* (README.md:95, "Identical content is not duplicated").
Contract == INSTANCE StoreContract WITH
    shared <- [s \in Stores |-> {[content |-> files[s][n].content,
                                  author |-> files[s][n].author] : n \in Readable(s)}]

ImplementsContract == Contract!Spec

\* README.md:99, "Nothing is ever deleted or edited."
NothingIsEdited ==
    [][\A s \in Stores, n \in Names :
          n \in Readable(s) =>
              /\ files'[s][n] # None
              /\ files'[s][n].content = files[s][n].content]_files

\* The comment at server.py:140: in-flight writes finish before the process
\* ends on a signal, and the repository is never left in the middle of a commit.
DrainFinishesWrites ==
    proc = "exited" => files = repo.entries /\ ~repo.locked
================================================================================
