----------------------------- MODULE JarManager ------------------------------
(***************************************************************************)
(* The cookie jar manager (internal/cookiejar/manager.go): the map from jar*)
(* keys to jars, the write-behind channel and its worker, the periodic     *)
(* cleanup, the Badger table, shutdown, crash and restart.  Concurrent     *)
(* requests fetch their session's jar, change it and hand a snapshot to    *)
(* persistence, each in the steps between which other goroutines can run.  *)
(*                                                                         *)
(* A jar is abstracted to which request wrote each of its cookies          *)
(* (CookieJar.tla models what happens inside one); a request writes or     *)
(* deletes at most one cookie.                                             *)
(***************************************************************************)
EXTENDS Naturals, Sequences, FiniteSets

CONSTANTS
  Requests,        \* request goroutines
  Keys,            \* jar keys, tenantID:sessionID
  SessionOf,       \* the jar key each request asks for
  Cookies,         \* cookies origins set
  SessionCookies,  \* those of them without a lifetime
  QueueCap,        \* capacity of persistCh (4096 in the code)
  MaxRestarts,     \* bound on restarts, for model checking
  None             \* nil, or no value

ASSUME SessionOfAssumption == SessionOf \in [Requests -> Keys]
ASSUME SessionCookiesAssumption == SessionCookies \subseteq Cookies
ASSUME QueueCapAssumption == QueueCap \in Nat
ASSUME DistinctAssumption ==
  /\ None \notin Requests \cup Keys
  /\ Requests \cap Keys = {}

\* A jar object: the one request r allocates is r, the one loaded at start is k.
Jars == Requests \cup Keys
Content == [Cookies -> Requests \cup {None}]
Task == [key : Keys, entries : Content]

VARIABLES
  jars,      \* m.jars: key -> jar or None
  heap,      \* the cookies of every jar object
  db,        \* the Badger table: key -> persisted entries or None
  persistCh, \* the channel of persistence tasks
  worker,    \* persistWorker: [pc, task]
  cleaner,   \* cleanupLoop: where it is, and the local variables of cleanup
  phase,     \* "run", "closing" once done is closed, "closed" once the db is
  pc,        \* where each request is
  ref,       \* the jar each request holds
  snapshot,  \* the entries each request is about to send
  expired,   \* requests whose cookie has outlived its lifetime
  restarts,  \* number of restarts so far
  owed       \* tasks accepted before Close began and not yet written

vars == <<jars, heap, db, persistCh, worker, cleaner, phase, pc, ref, snapshot,
          expired, restarts, owed>>
requestVars == <<pc, ref, snapshot>>

-----------------------------------------------------------------------------
(* The jar methods the manager calls, on the abstract content.             *)

Empty == [c \in Cookies |-> None]
NoTask == [key |-> None, entries |-> Empty]

HasExpired(jar, c) == jar[c] \in expired /\ c \notin SessionCookies

\* RemoveExpired, and RestoreCookies into a new jar.
Unexpired(jar) == [c \in Cookies |-> IF HasExpired(jar, c) THEN None ELSE jar[c]]

\* Mutant: session cookies are persisted too.
AllUnexpired(jar) == Unexpired(jar)

\* AllCookies: unexpired and not session cookies.
AllCookies(jar) ==
  [c \in Cookies |-> IF HasExpired(jar, c) \/ c \in SessionCookies THEN None ELSE jar[c]]

\* Mutant: a jar with nothing to persist counts as expired.
NothingPersistent(jar) == AllCookies(jar) = Empty

\* IsExpired, after RemoveExpired: an empty jar counts as expired.
IsExpired(jar) == Unexpired(jar) = Empty

\* writeJarToDB: no entries means no row.
Write(task) ==
  db' = [db EXCEPT ![task.key] = IF task.entries = Empty THEN None ELSE task.entries]

-----------------------------------------------------------------------------
(* Requests: GetOrCreateJar, a change of the jar, PersistJar.              *)

\* The manager's lock is the cleanup's while it sweeps; no other step keeps it.
Unlocked == cleaner.pc # "sweep"

\* The read-locked lookup.
Lookup(r) ==
  /\ pc[r] = "start" /\ Unlocked
  /\ IF jars[SessionOf[r]] # None
       THEN /\ ref' = [ref EXCEPT ![r] = jars[SessionOf[r]]]
            /\ pc' = [pc EXCEPT ![r] = "jar"]
       ELSE /\ pc' = [pc EXCEPT ![r] = "load"]
            /\ UNCHANGED ref
  /\ UNCHANGED <<jars, heap, db, persistCh, worker, cleaner, phase, snapshot, expired, restarts, owed>>

\* Mutant: the row found may be another key's.
LoadAnyRow(r) ==
  /\ pc[r] = "load"
  /\ \E k \in Keys :
       heap' = [heap EXCEPT ![r] = IF phase # "closed" /\ db[k] # None
                                     THEN Unexpired(db[k]) ELSE Empty]
  /\ pc' = [pc EXCEPT ![r] = "install"]
  /\ UNCHANGED <<jars, db, persistCh, worker, cleaner, phase, ref, snapshot, expired, restarts, owed>>

\* loadJar, or a new jar when there is no row or the database is closed.
Load(r) ==
  /\ pc[r] = "load"
  /\ heap' = [heap EXCEPT ![r] = IF phase # "closed" /\ db[SessionOf[r]] # None
                                   THEN Unexpired(db[SessionOf[r]])
                                   ELSE Empty]
  /\ pc' = [pc EXCEPT ![r] = "install"]
  /\ UNCHANGED <<jars, db, persistCh, worker, cleaner, phase, ref, snapshot, expired, restarts, owed>>

\* The write-locked assignment; nobody looks again whether the key is taken.
Install(r) ==
  /\ pc[r] = "install" /\ Unlocked
  /\ jars' = [jars EXCEPT ![SessionOf[r]] = r]
  /\ ref' = [ref EXCEPT ![r] = r]
  /\ pc' = [pc EXCEPT ![r] = "jar"]
  /\ UNCHANGED <<heap, db, persistCh, worker, cleaner, phase, snapshot, expired, restarts, owed>>

\* A Set-Cookie, a sync entry or an API call sets a cookie or deletes it, under the
\* jar's lock only.
AddCookie(r) ==
  /\ pc[r] = "jar"
  /\ \E c \in Cookies, value \in {r, None} :
       heap' = [heap EXCEPT ![ref[r]][c] = value]
  /\ pc' = [pc EXCEPT ![r] = "changed"]
  /\ cleaner' = [cleaner EXCEPT !.late =
                   IF \E k \in cleaner.expired : jars[k] = ref[r] THEN @ \cup {r} ELSE @]
  /\ UNCHANGED <<jars, db, persistCh, worker, phase, ref, snapshot, expired, restarts, owed>>

\* PersistJar, first half: the entries are copied under the jar's lock.
Snapshot(r) ==
  /\ pc[r] = "changed"
  /\ snapshot' = [snapshot EXCEPT ![r] = AllCookies(heap[ref[r]])]
  /\ pc' = [pc EXCEPT ![r] = "send"]
  /\ UNCHANGED <<jars, heap, db, persistCh, worker, cleaner, phase, ref, expired, restarts, owed>>

\* PersistJar, second half: a send that gives up when the channel is full.
Send(r) ==
  /\ pc[r] = "send"
  /\ persistCh' = IF Len(persistCh) < QueueCap
                    THEN Append(persistCh, [key |-> SessionOf[r], entries |-> snapshot[r]])
                    ELSE persistCh
  /\ pc' = [pc EXCEPT ![r] = "done"]
  /\ ref' = [ref EXCEPT ![r] = None]
  /\ snapshot' = [snapshot EXCEPT ![r] = Empty]
  /\ UNCHANGED <<jars, heap, db, worker, cleaner, phase, expired, restarts, owed>>

Request(r) == Lookup(r) \/ Load(r) \/ Install(r) \/ AddCookie(r) \/ Snapshot(r) \/ Send(r)

-----------------------------------------------------------------------------
(* persistWorker.  The select and the drain loop take tasks alike; the     *)
(* worker returns when done is closed and it sees the channel empty.       *)

WorkerTake ==
  /\ worker.pc = "wait"
  /\ persistCh # <<>>
  /\ worker' = [pc |-> "write", task |-> Head(persistCh)]
  /\ persistCh' = Tail(persistCh)
  /\ UNCHANGED <<jars, heap, db, cleaner, phase, requestVars, expired, restarts, owed>>

WorkerWrite ==
  /\ worker.pc = "write"
  /\ Write(worker.task)
  /\ worker' = [pc |-> "wait", task |-> NoTask]
  /\ owed' = IF owed > 0 THEN owed - 1 ELSE 0
  /\ UNCHANGED <<jars, heap, persistCh, cleaner, phase, requestVars, expired, restarts>>

\* Mutant: the worker returns without draining the channel.
WorkerStopUndrained ==
  /\ worker.pc = "wait"
  /\ phase = "closing"
  /\ worker' = [pc |-> "stopped", task |-> NoTask]
  /\ UNCHANGED <<jars, heap, db, persistCh, cleaner, phase, requestVars, expired, restarts, owed>>

\* Mutant: the drain loop ranges over a channel nobody closes.
WorkerNeverStops == FALSE

WorkerStop ==
  /\ worker.pc = "wait"
  /\ phase = "closing"
  /\ persistCh = <<>>
  /\ worker' = [pc |-> "stopped", task |-> NoTask]
  /\ UNCHANGED <<jars, heap, db, persistCh, cleaner, phase, requestVars, expired, restarts, owed>>

-----------------------------------------------------------------------------
(* cleanupLoop: cleanup sweeps memory under the manager's lock, taking the *)
(* lock of one jar after the other, and then works on the database without *)
(* either.  Its local variables: the keys left to visit and the one it is  *)
(* at, the keys whose jars it found expired, the survivors (a key and its  *)
(* jar), the row it writes.  A history: the requests that were late, whose *)
(* change came after the jar was found expired.                            *)

CleanerIdle == [pc |-> "wait", left |-> {}, at |-> None, expired |-> {}, survivors |-> {},
                late |-> {}, task |-> NoTask]

\* A tick: select may still pick it after done is closed.
Sweep ==
  /\ cleaner.pc = "wait"
  /\ cleaner' = [cleaner EXCEPT !.pc = "sweep", !.left = {k \in Keys : jars[k] # None}]
  /\ UNCHANGED <<jars, heap, db, persistCh, worker, phase, requestVars, expired, restarts, owed>>

\* RemoveExpired of one jar.
SweepJar ==
  /\ cleaner.pc = "sweep" /\ cleaner.at = None
  /\ \E k \in cleaner.left :
       /\ heap' = [heap EXCEPT ![jars[k]] = Unexpired(@)]
       /\ cleaner' = [cleaner EXCEPT !.at = k, !.left = @ \ {k}]
  /\ UNCHANGED <<jars, db, persistCh, worker, phase, requestVars, expired, restarts, owed>>

\* IsExpired of the same jar.
SweepCheck ==
  /\ cleaner.pc = "sweep" /\ cleaner.at # None
  /\ LET k == cleaner.at
     IN cleaner' = IF IsExpired(heap[jars[k]])
                     THEN [cleaner EXCEPT !.at = None, !.expired = @ \cup {k}]
                     ELSE [cleaner EXCEPT !.at = None, !.survivors = @ \cup {<<k, jars[k]>>}]
  /\ UNCHANGED <<jars, heap, db, persistCh, worker, phase, requestVars, expired, restarts, owed>>

\* The deletions from the map; the manager's lock is free again.
SweepEnd ==
  /\ cleaner.pc = "sweep" /\ cleaner.at = None /\ cleaner.left = {}
  /\ jars' = [k \in Keys |-> IF k \in cleaner.expired THEN None ELSE jars[k]]
  /\ cleaner' = [cleaner EXCEPT !.pc = "flush", !.late = {}]
  /\ UNCHANGED <<heap, db, persistCh, worker, phase, requestVars, expired, restarts, owed>>

CleanDelete ==
  /\ cleaner.pc = "flush"
  /\ \E k \in cleaner.expired :
       /\ db' = [db EXCEPT ![k] = None]
       /\ cleaner' = [cleaner EXCEPT !.expired = @ \ {k}]
  /\ UNCHANGED <<jars, heap, persistCh, worker, phase, requestVars, expired, restarts, owed>>

CleanSnapshot ==
  /\ cleaner.pc = "flush"
  /\ cleaner.expired = {}
  /\ \E s \in cleaner.survivors :
       cleaner' = [cleaner EXCEPT !.pc = "write", !.survivors = @ \ {s},
                                  !.task = [key |-> s[1], entries |-> AllCookies(heap[s[2]])]]
  /\ UNCHANGED <<jars, heap, db, persistCh, worker, phase, requestVars, expired, restarts, owed>>

\* Mutant: cleanup does not write the survivors again.
CleanSkipsWrite ==
  /\ cleaner.pc = "write"
  /\ cleaner' = [cleaner EXCEPT !.pc = "flush", !.task = NoTask]
  /\ UNCHANGED <<jars, heap, db, persistCh, worker, phase, requestVars, expired, restarts, owed>>

CleanWrite ==
  /\ cleaner.pc = "write"
  /\ Write(cleaner.task)
  /\ cleaner' = [cleaner EXCEPT !.pc = "flush", !.task = NoTask]
  /\ UNCHANGED <<jars, heap, persistCh, worker, phase, requestVars, expired, restarts, owed>>

CleanEnd ==
  /\ cleaner.pc = "flush"
  /\ cleaner.expired = {}
  /\ cleaner.survivors = {}
  /\ cleaner' = CleanerIdle
  /\ UNCHANGED <<jars, heap, db, persistCh, worker, phase, requestVars, expired, restarts, owed>>

CleanerStop ==
  /\ cleaner.pc = "wait"
  /\ phase = "closing"
  /\ cleaner' = [cleaner EXCEPT !.pc = "stopped"]
  /\ UNCHANGED <<jars, heap, db, persistCh, worker, phase, requestVars, expired, restarts, owed>>

-----------------------------------------------------------------------------
(* Close, crash and restart.                                               *)

\* Close: close(done).  A shutdown that timed out leaves requests running.
Close ==
  /\ phase = "run"
  /\ phase' = "closing"
  /\ owed' = Len(persistCh) + (IF worker.pc = "write" THEN 1 ELSE 0)
  /\ UNCHANGED <<jars, heap, db, persistCh, worker, cleaner, requestVars, expired, restarts>>

\* Mutant: Close waits for the worker only.
CloseDBEarly ==
  /\ phase = "closing"
  /\ worker.pc = "stopped"
  /\ phase' = "closed"
  /\ UNCHANGED <<jars, heap, db, persistCh, worker, cleaner, requestVars, expired, restarts, owed>>

\* Close: wg.Wait() and db.Close().
CloseDB ==
  /\ phase = "closing"
  /\ worker.pc = "stopped"
  /\ cleaner.pc = "stopped"
  /\ phase' = "closed"
  /\ UNCHANGED <<jars, heap, db, persistCh, worker, cleaner, requestVars, expired, restarts, owed>>

\* The process ends, by a crash or after Close, and starts again: NewManager loads
\* every row (loadAllJars).  Requests that were running are gone.
Restart ==
  /\ restarts < MaxRestarts
  /\ restarts' = restarts + 1
  /\ jars' = [k \in Keys |-> IF db[k] # None THEN k ELSE None]
  /\ heap' = [j \in Jars |-> IF j \in Keys /\ db[j] # None THEN Unexpired(db[j]) ELSE Empty]
  /\ persistCh' = <<>>
  /\ worker' = [pc |-> "wait", task |-> NoTask]
  /\ cleaner' = CleanerIdle
  /\ phase' = "run"
  /\ pc' = [r \in Requests |-> IF pc[r] = "start" THEN "start" ELSE "done"]
  /\ ref' = [r \in Requests |-> None]
  /\ snapshot' = [r \in Requests |-> Empty]
  /\ owed' = 0
  /\ UNCHANGED <<db, expired>>

\* The lifetime of what request r wrote ends.
Expire(r) ==
  /\ pc[r] \in {"changed", "send", "done"}
  /\ expired' = expired \cup {r}
  /\ UNCHANGED <<jars, heap, db, persistCh, worker, cleaner, phase, requestVars, restarts, owed>>

-----------------------------------------------------------------------------
Init ==
  /\ jars = [k \in Keys |-> None]
  /\ heap = [j \in Jars |-> Empty]
  /\ db = [k \in Keys |-> None]
  /\ persistCh = <<>>
  /\ worker = [pc |-> "wait", task |-> NoTask]
  /\ cleaner = CleanerIdle
  /\ phase = "run"
  /\ pc = [r \in Requests |-> "start"]
  /\ ref = [r \in Requests |-> None]
  /\ snapshot = [r \in Requests |-> Empty]
  /\ expired = {}
  /\ restarts = 0
  /\ owed = 0

Worker == WorkerTake \/ WorkerWrite \/ WorkerStop
Cleaner ==
  Sweep \/ SweepJar \/ SweepCheck \/ SweepEnd
    \/ CleanDelete \/ CleanSnapshot \/ CleanWrite \/ CleanEnd \/ CleanerStop

Next ==
  \/ \E r \in Requests : Request(r) \/ Expire(r)
  \/ Worker
  \/ Cleaner
  \/ Close
  \/ CloseDB
  \/ Restart

Fairness ==
  /\ \A r \in Requests : WF_vars(Request(r))
  /\ WF_vars(Worker)
  /\ WF_vars(Cleaner)
  /\ SF_vars(CleanerStop)
  /\ WF_vars(CloseDB)

Spec == Init /\ [][Next]_vars

FairSpec == Spec /\ Fairness

-----------------------------------------------------------------------------
\* Every variable has its type.
TypeOK ==
  /\ jars \in [Keys -> Jars \cup {None}]
  /\ heap \in [Jars -> Content]
  /\ db \in [Keys -> Content \cup {None}]
  /\ persistCh \in Seq(Task) /\ Len(persistCh) <= QueueCap
  /\ worker \in [pc : {"wait", "write", "stopped"}, task : Task \cup {NoTask}]
  /\ worker.pc = "write" <=> worker.task # NoTask
  /\ cleaner \in [pc : {"wait", "sweep", "flush", "write", "stopped"},
                  left : SUBSET Keys, at : Keys \cup {None}, expired : SUBSET Keys,
                  survivors : SUBSET (Keys \X Jars), late : SUBSET Requests,
                  task : Task \cup {NoTask}]
  /\ cleaner.pc = "write" <=> cleaner.task # NoTask
  /\ phase \in {"run", "closing", "closed"}
  /\ pc \in [Requests -> {"start", "load", "install", "jar", "changed", "send", "done"}]
  /\ ref \in [Requests -> Jars \cup {None}]
  /\ snapshot \in [Requests -> Content]
  /\ expired \subseteq Requests
  /\ restarts \in Nat
  /\ owed \in Nat

\* Session cookies stay in memory: neither a row of the database nor a task on its
\* way there holds one (docs/cookie.md; AllCookies skips them).
HoldsSession(entries) == \E c \in SessionCookies : entries[c] # None

SessionStaysInMemory ==
  /\ \A k \in Keys : db[k] # None => ~HoldsSession(db[k])
  /\ \A i \in 1 .. Len(persistCh) : ~HoldsSession(persistCh[i].entries)
  /\ ~HoldsSession(worker.task.entries)
  /\ ~HoldsSession(cleaner.task.entries)

\* Sessions are isolated through memory, channel, database, shutdown and reload: the
\* jar mapped to a key and the row stored under it hold only what requests of that
\* key wrote.
OwnedBy(k, entries) ==
  \A c \in Cookies : entries[c] # None => SessionOf[entries[c]] = k

SessionsIsolated ==
  \A k \in Keys :
    /\ jars[k] # None => OwnedBy(k, heap[jars[k]])
    /\ db[k] # None => OwnedBy(k, db[k])

\* Close waits for the background goroutines: once the database is closed nothing
\* writes to it any more, not even a cleanup that was under way.
ClosedIsQuiet == [][phase = "closed" /\ phase' = "closed" => db' = db]_vars

\* Close drains the channel: every task accepted before Close began is in the
\* database when the database closes.
DrainedAtClose == phase = "closed" => owed = 0

DeadOrLate(jar, c) == jar[c] = None \/ HasExpired(jar, c) \/ jar[c] \in cleaner.late

\* Cleanup unmaps a jar only if nothing in it is alive, whatever requests do to the
\* jars between its steps, with one exception: it does not look again before it
\* deletes, so what a request brings after IsExpired has been asked is lost with the
\* jar (manager.go:265 and 272).  Nothing else unmaps a jar while the process runs.
UnmappedOnlyDead ==
  [][\A k \in Keys :
       /\ jars[k] # None
       /\ jars'[k] = None
       /\ restarts' = restarts
       => \A c \in Cookies : DeadOrLate(heap[jars[k]], c)]_vars

Row(k) == IF db[k] = None THEN Empty ELSE Unexpired(db[k])

Durable == \A k \in Keys : jars[k] # None => Row(k) = AllCookies(heap[jars[k]])

\* Cleanup makes up for lost and reordered snapshots: while the manager stays open
\* the rows of the mapped jars become, and stay, what the jars hold.
EventuallyDurable == <>[](phase = "run") => <>[]Durable

\* Close returns, also when requests outlive the shutdown timeout.
CloseReturns == phase = "closing" ~> phase # "closing"

\* manager_test.go:78: the same jar key gives the same jar, to all who hold one.
OneJarPerKey ==
  \A r1, r2 \in Requests :
    /\ SessionOf[r1] = SessionOf[r2]
    /\ ref[r1] # None /\ ref[r2] # None
    => ref[r1] = ref[r2]

\* docs/cookie.md: Close drains the channel "so that data is complete".  When every
\* request finished and every task was written, the rows are what the jars held.
ShutdownKeepsData ==
  /\ phase = "closed"
  /\ persistCh = <<>>
  /\ \A r \in Requests : pc[r] \in {"start", "done"}
  => Durable
=============================================================================
