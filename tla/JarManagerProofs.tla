-------------------------- MODULE JarManagerProofs ---------------------------
(***************************************************************************)
(* Theorems about JarManager for every set of requests, keys and cookies,  *)
(* every channel capacity and every number of restarts.                    *)
(***************************************************************************)
EXTENDS JarManager, TLAPS

\* The constants of every lemma below.
USE SessionOfAssumption, SessionCookiesAssumption, QueueCapAssumption, DistinctAssumption

-----------------------------------------------------------------------------
(* Jar contents.                                                           *)

\* The empty jar is a content, and no task of the channel is the absent task.
LEMMA EmptyIsContent ==
  /\ Empty \in Content
  /\ NoTask \notin Task
  BY DEF Empty, Content, NoTask, Task

\* Dropping expired cookies, or selecting the persistent ones, gives a content again.
LEMMA Filtered ==
  ASSUME NEW jar \in Content
  PROVE  Unexpired(jar) \in Content /\ AllCookies(jar) \in Content
  BY DEF Unexpired, AllCookies, Content

-----------------------------------------------------------------------------
(* Type correctness.                                                       *)

\* A request that is past GetOrCreateJar holds a jar.
HoldsJar == \A r \in Requests : pc[r] \in {"jar", "changed"} => ref[r] \in Jars

CleanerStates ==
  [pc : {"wait", "sweep", "flush", "write", "stopped"},
   left : SUBSET Keys, at : Keys \cup {None}, expired : SUBSET Keys,
   survivors : SUBSET (Keys \X Jars), late : SUBSET Requests, task : Task \cup {NoTask}]

\* While the cleanup sweeps, the keys it works on are mapped.
SweepsMapped ==
  /\ cleaner.pc = "wait" => cleaner.at = None /\ cleaner.expired = {}
  /\ cleaner.pc = "sweep" =>
       \A k \in Keys : k \in cleaner.left \cup cleaner.expired \/ k = cleaner.at => jars[k] # None

TypeInv == TypeOK /\ HoldsJar /\ SweepsMapped

\* The initial state has the types.
LEMMA InitTypeInv == Init => TypeInv
  BY EmptyIsContent
     DEF Init, TypeInv, TypeOK, HoldsJar, SweepsMapped, Jars, CleanerIdle

\* What writeJarToDB leaves is a table.
LEMMA WriteTyped ==
  ASSUME TypeOK, NEW task \in Task, Write(task)
  PROVE  db' \in [Keys -> Content \cup {None}]
  BY DEF Write, Task, TypeOK

\* A change of a jar leaves the cleanup alone, up to the history.
LEMMA AddCookieSpares ==
  ASSUME TypeOK, NEW r \in Requests, AddCookie(r)
  PROVE  /\ cleaner' \in CleanerStates
         /\ cleaner'.pc = cleaner.pc /\ cleaner'.left = cleaner.left /\ cleaner'.at = cleaner.at
         /\ cleaner'.expired = cleaner.expired /\ cleaner'.survivors = cleaner.survivors
         /\ cleaner'.task = cleaner.task
         /\ cleaner'.late = IF \E k \in cleaner.expired : jars[k] = ref[r]
                              THEN cleaner.late \cup {r} ELSE cleaner.late
BY DEF AddCookie, TypeOK, CleanerStates

\* Every step of a request keeps the types.
LEMMA RequestTyped ==
  ASSUME TypeInv, NEW r \in Requests, Request(r)
  PROVE  TypeInv'
<1> USE DEF TypeInv, TypeOK, HoldsJar, SweepsMapped, Unlocked
<1>1. CASE Lookup(r)
  <2>1. CASE jars[SessionOf[r]] # None
    <3>1. jars[SessionOf[r]] \in Jars
      BY <2>1
    <3>2. /\ ref' = [ref EXCEPT ![r] = jars[SessionOf[r]]]
          /\ pc' = [pc EXCEPT ![r] = "jar"]
          /\ UNCHANGED <<jars, heap, db, persistCh, worker, cleaner, phase, snapshot,
                        expired, restarts, owed>>
      BY <1>1, <2>1 DEF Lookup
    <3>3. ref' \in [Requests -> Jars \cup {None}] /\ HoldsJar'
      BY <3>1, <3>2
    <3> QED
      BY <3>2, <3>3
  <2>2. CASE jars[SessionOf[r]] = None
    BY <1>1, <2>2 DEF Lookup
  <2> QED
    BY <2>1, <2>2
<1>2. CASE Load(r)
  <2> DEFINE loaded == IF phase # "closed" /\ db[SessionOf[r]] # None
                         THEN Unexpired(db[SessionOf[r]]) ELSE Empty
  <2>1. loaded \in Content
    BY EmptyIsContent, Filtered
  <2>2. heap' \in [Jars -> Content]
    BY <1>2, <2>1 DEF Load, Jars
  <2> QED
    BY <1>2, <2>2 DEF Load
<1>3. CASE Install(r)
  BY <1>3 DEF Install, Jars
<1>4. CASE AddCookie(r)
  <2>1. PICK c \in Cookies, value \in {r, None} : heap' = [heap EXCEPT ![ref[r]][c] = value]
    BY <1>4 DEF AddCookie
  <2>2. ref[r] \in Jars
    BY <1>4 DEF AddCookie
  <2>3. [heap[ref[r]] EXCEPT ![c] = value] \in Content
    BY <2>2 DEF Content
  <2>4. heap' \in [Jars -> Content]
    BY <2>1, <2>2, <2>3
  <2> QED
    BY <1>4, <2>4 DEF AddCookie
<1>5. CASE Snapshot(r)
  <2>1. AllCookies(heap[ref[r]]) \in Content
    BY <1>5, Filtered DEF Snapshot
  <2> QED
    BY <1>5, <2>1 DEF Snapshot
<1>6. CASE Send(r)
  <2>1. [key |-> SessionOf[r], entries |-> snapshot[r]] \in Task
    BY DEF Task
  <2>2. persistCh' \in Seq(Task) /\ Len(persistCh') <= QueueCap
    BY <1>6, <2>1 DEF Send
  <2> QED
    BY <1>6, <2>2, EmptyIsContent DEF Send
<1> QED
  BY <1>1, <1>2, <1>3, <1>4, <1>5, <1>6 DEF Request

\* Every step of the worker keeps the types.
LEMMA WorkerTyped ==
  ASSUME TypeInv, Worker
  PROVE  TypeInv'
<1> USE DEF TypeInv, TypeOK, HoldsJar, SweepsMapped, Unlocked
<1>1. CASE WorkerTake
  <2>1. Head(persistCh) \in Task /\ Tail(persistCh) \in Seq(Task)
        /\ Len(Tail(persistCh)) <= QueueCap
    BY <1>1 DEF WorkerTake
  <2> QED
    BY <1>1, <2>1, EmptyIsContent DEF WorkerTake, requestVars
<1>2. CASE WorkerWrite
  <2>1. db' \in [Keys -> Content \cup {None}]
    BY <1>2, WriteTyped DEF WorkerWrite
  <2> QED
    BY <1>2, <2>1 DEF WorkerWrite, requestVars
<1>3. CASE WorkerStop
  BY <1>3 DEF WorkerStop, requestVars
<1> QED
  BY <1>1, <1>2, <1>3 DEF Worker

\* Asking one jar whether it is expired moves its key to one of the two lists.
LEMMA CheckTyped ==
  ASSUME cleaner \in CleanerStates, SweepCheck, jars[cleaner.at] \in Jars
  PROVE  /\ cleaner' \in CleanerStates /\ cleaner'.at = None
         /\ cleaner'.pc = "sweep" /\ cleaner'.task = cleaner.task /\ cleaner'.left = cleaner.left
         /\ cleaner'.expired \subseteq cleaner.expired \cup {cleaner.at}
<1>1. cleaner.pc = "sweep" /\ cleaner.at \in Keys
  BY DEF SweepCheck, CleanerStates
<1>2. PICK k \in Keys, s \in Keys \X Jars : k = cleaner.at /\ s = <<k, jars[k]>>
  BY <1>1
<1>3. CASE cleaner' = [cleaner EXCEPT !.at = None, !.expired = @ \cup {k}]
  BY <1>1, <1>2, <1>3 DEF CleanerStates
<1>4. CASE cleaner' = [cleaner EXCEPT !.at = None, !.survivors = @ \cup {s}]
  BY <1>1, <1>2, <1>4 DEF CleanerStates
<1> QED BY <1>2, <1>3, <1>4 DEF SweepCheck

\* Every step of the cleanup keeps the types.
LEMMA CleanerTyped ==
  ASSUME TypeInv, Cleaner
  PROVE  TypeInv'
<1> USE DEF TypeInv, TypeOK, HoldsJar, SweepsMapped, Unlocked
<1>0. CASE Sweep
  BY <1>0 DEF Sweep, requestVars
<1>1. CASE SweepJar
  <2>1. PICK k \in cleaner.left :
          /\ heap' = [heap EXCEPT ![jars[k]] = Unexpired(@)]
          /\ cleaner' = [cleaner EXCEPT !.at = k, !.left = @ \ {k}]
    BY <1>1 DEF SweepJar
  <2>2. k \in Keys /\ cleaner.pc = "sweep" /\ jars[k] \in Jars
        /\ UNCHANGED <<jars, db, persistCh, worker, phase, requestVars, expired, restarts, owed>>
    BY <1>1 DEF SweepJar
  <2>3. Unexpired(heap[jars[k]]) \in Content
    BY <2>2, Filtered
  <2>4. heap' \in [Jars -> Content]
    BY <2>1, <2>2, <2>3
  <2>5. cleaner' \in CleanerStates /\ cleaner'.pc = "sweep" /\ cleaner'.task = cleaner.task
        /\ cleaner'.left \cup cleaner'.expired \subseteq cleaner.left \cup cleaner.expired
        /\ cleaner'.at \in cleaner.left
    BY <2>1, <2>2 DEF CleanerStates
  <2> QED BY <2>2, <2>4, <2>5 DEF requestVars, CleanerStates
<1>7. CASE SweepCheck
  <2>1. /\ cleaner \in CleanerStates /\ cleaner.at \in Keys /\ jars[cleaner.at] \in Jars
        /\ UNCHANGED <<jars, heap, db, persistCh, worker, phase, requestVars, expired, restarts, owed>>
    BY <1>7 DEF SweepCheck, CleanerStates
  <2>2. /\ cleaner' \in CleanerStates /\ cleaner'.at = None
        /\ cleaner'.pc = "sweep" /\ cleaner'.task = cleaner.task /\ cleaner'.left = cleaner.left
        /\ cleaner'.expired \subseteq cleaner.expired \cup {cleaner.at}
    <3> HIDE DEF TypeInv, TypeOK, HoldsJar, SweepsMapped, Unlocked
    <3> QED BY <1>7, <2>1, CheckTyped
  <2>3. cleaner.pc = "sweep"
    BY <1>7 DEF SweepCheck
  <2> QED BY <2>1, <2>2, <2>3 DEF requestVars, CleanerStates
<1>8. CASE SweepEnd
  <2>1. jars' \in [Keys -> Jars \cup {None}]
    BY <1>8 DEF SweepEnd
  <2>2. cleaner' \in CleanerStates /\ cleaner'.pc = "flush" /\ cleaner'.task = cleaner.task
    BY <1>8 DEF SweepEnd, CleanerStates
  <2> QED BY <1>8, <2>1, <2>2 DEF SweepEnd, requestVars, CleanerStates
<1>2. CASE CleanDelete
  <2>1. PICK k \in cleaner.expired :
          /\ db' = [db EXCEPT ![k] = None]
          /\ cleaner' = [cleaner EXCEPT !.expired = @ \ {k}]
    BY <1>2 DEF CleanDelete
  <2>2. cleaner' \in CleanerStates /\ cleaner'.pc = "flush" /\ cleaner'.task = cleaner.task
    BY <1>2, <2>1 DEF CleanDelete, CleanerStates
  <2>3. db' \in [Keys -> Content \cup {None}]
    BY <2>1
  <2> QED BY <1>2, <2>2, <2>3 DEF CleanDelete, requestVars, CleanerStates
<1>3. CASE CleanSnapshot
  <2>1. PICK s \in cleaner.survivors :
          cleaner' = [cleaner EXCEPT !.pc = "write", !.survivors = @ \ {s},
                                     !.task = [key |-> s[1], entries |-> AllCookies(heap[s[2]])]]
    BY <1>3 DEF CleanSnapshot
  <2>2. s[1] \in Keys /\ s[2] \in Jars
    OBVIOUS
  <2>3. [key |-> s[1], entries |-> AllCookies(heap[s[2]])] \in Task
    BY <2>2, Filtered DEF Task
  <2> QED
    BY <1>3, <2>1, <2>3, EmptyIsContent DEF CleanSnapshot, requestVars
<1>4. CASE CleanWrite
  <2>1. db' \in [Keys -> Content \cup {None}]
    BY <1>4, WriteTyped DEF CleanWrite
  <2> QED
    BY <1>4, <2>1 DEF CleanWrite, requestVars
<1>5. CASE CleanEnd
  BY <1>5 DEF CleanEnd, CleanerIdle, requestVars
<1>6. CASE CleanerStop
  BY <1>6 DEF CleanerStop, requestVars
<1> QED
  BY <1>0, <1>1, <1>2, <1>3, <1>4, <1>5, <1>6, <1>7, <1>8 DEF Cleaner

\* Every step keeps the types.
LEMMA NextTypeInv == TypeInv /\ [Next]_vars => TypeInv'
<1> SUFFICES ASSUME TypeInv, [Next]_vars PROVE TypeInv'
  OBVIOUS
<1>1. ASSUME NEW r \in Requests, Request(r) PROVE TypeInv'
  BY <1>1, RequestTyped
<1>2. ASSUME NEW r \in Requests, Expire(r) PROVE TypeInv'
  BY <1>2 DEF Expire, TypeInv, TypeOK, HoldsJar, SweepsMapped, requestVars
<1>3. CASE Worker
  BY <1>3, WorkerTyped
<1>4. CASE Cleaner
  BY <1>4, CleanerTyped
<1>5. CASE Close
  BY <1>5 DEF Close, TypeInv, TypeOK, HoldsJar, SweepsMapped, requestVars
<1>6. CASE CloseDB
  BY <1>6 DEF CloseDB, TypeInv, TypeOK, HoldsJar, SweepsMapped, requestVars
<1>7. CASE Restart
  <2> USE DEF TypeInv, TypeOK, HoldsJar, SweepsMapped, Unlocked
  <2>1. \A j \in Jars : (IF j \in Keys /\ db[j] # None THEN Unexpired(db[j]) ELSE Empty) \in Content
    BY EmptyIsContent, Filtered
  <2>2. heap' \in [Jars -> Content]
    BY <1>7, <2>1 DEF Restart
  <2>3. jars' \in [Keys -> Jars \cup {None}]
    BY <1>7 DEF Restart, Jars
  <2>4. persistCh' \in Seq(Task) /\ Len(persistCh') <= QueueCap
    BY <1>7 DEF Restart
  <2> QED
    BY <1>7, <2>2, <2>3, <2>4, EmptyIsContent DEF Restart, CleanerIdle
<1>8. CASE UNCHANGED vars
  BY <1>8 DEF vars, requestVars, TypeInv, TypeOK, HoldsJar, SweepsMapped
<1> QED
  BY <1>1, <1>2, <1>3, <1>4, <1>5, <1>6, <1>7, <1>8 DEF Next

\* Every variable keeps its type, for all constants: JarManager!TypeOK.
THEOREM TypeCorrect == Spec => []TypeOK
<1>1. Spec => []TypeInv
  BY InitTypeInv, NextTypeInv, PTL DEF Spec
<1>2. TypeInv => TypeOK
  BY DEF TypeInv
<1> QED
  BY <1>1, <1>2, PTL

-----------------------------------------------------------------------------
(* Shutdown.                                                               *)

\* The worker and the cleanup stop only for a shutdown, the database closes after
\* both, and what is owed is still in the channel or in the worker's hands.
CloseInv ==
  /\ phase = "run" => worker.pc # "stopped"
  /\ phase # "run" => owed <= Len(persistCh) + (IF worker.pc = "write" THEN 1 ELSE 0)
  /\ worker.pc = "stopped" => owed = 0
  /\ phase = "closed" => worker.pc = "stopped" /\ cleaner.pc = "stopped"

\* The shutdown invariant holds at the start.
LEMMA InitCloseInv == Init => CloseInv
  BY DEF Init, CloseInv

\* Every step keeps the shutdown invariant.
LEMMA NextCloseInv == TypeInv /\ CloseInv /\ [Next]_vars => CloseInv'
<1> SUFFICES ASSUME TypeInv, CloseInv, [Next]_vars PROVE CloseInv'
  OBVIOUS
<1> USE DEF CloseInv
<1>0. owed \in Nat /\ Len(persistCh) \in Nat /\ persistCh \in Seq(Task)
      /\ DOMAIN worker = {"pc", "task"}
      /\ DOMAIN cleaner = {"pc", "left", "at", "expired", "survivors", "late", "task"}
  BY DEF TypeInv, TypeOK
<1>1. ASSUME NEW r \in Requests, Request(r) PROVE CloseInv'
  <2>1. CASE Send(r)
    <3>1. Len(persistCh') \in Nat /\ Len(persistCh') >= Len(persistCh)
      BY <2>1, <1>0 DEF Send
    <3>2. UNCHANGED <<phase, owed, worker, cleaner>>
      BY <2>1 DEF Send
    <3> QED
      BY <3>1, <3>2, <1>0
  <2>3. CASE AddCookie(r)
    BY <2>3, AddCookieSpares DEF AddCookie, TypeInv
  <2>2. CASE ~Send(r) /\ ~AddCookie(r)
    BY <1>1, <2>2 DEF Request, Lookup, Load, Install, Snapshot
  <2> QED
    BY <2>1, <2>2, <2>3
<1>2. ASSUME NEW r \in Requests, Expire(r) PROVE CloseInv'
  BY <1>2 DEF Expire
<1>3. CASE WorkerTake
  <2>1. Len(persistCh') = Len(persistCh) - 1
    BY <1>3, <1>0 DEF WorkerTake
  <2> QED
    BY <1>3, <2>1, <1>0 DEF WorkerTake
<1>4. CASE WorkerWrite
  BY <1>4, <1>0 DEF WorkerWrite
<1>5. CASE WorkerStop
  BY <1>5, <1>0 DEF WorkerStop
<1>6. CASE Cleaner
  BY <1>6, <1>0 DEF Cleaner, Sweep, SweepJar, SweepCheck, SweepEnd, CleanDelete, CleanSnapshot, CleanWrite, CleanEnd,
                    CleanerStop, CleanerIdle
<1>7. CASE Close
  BY <1>7, <1>0 DEF Close
<1>8. CASE CloseDB
  BY <1>8, <1>0 DEF CloseDB
<1>9. CASE Restart
  BY <1>9 DEF Restart
<1>10. CASE UNCHANGED vars
  BY <1>10 DEF vars, requestVars
<1> QED
  BY <1>1, <1>2, <1>3, <1>4, <1>5, <1>6, <1>7, <1>8, <1>9, <1>10 DEF Next, Worker

\* While the database stays closed nothing writes to it.
LEMMA ClosedStep ==
  ASSUME TypeInv, CloseInv, [Next]_vars, phase = "closed", phase' = "closed"
  PROVE  db' = db
<1>1. worker.pc = "stopped" /\ cleaner.pc = "stopped"
  BY DEF CloseInv
<1>2. ASSUME NEW r \in Requests, Request(r) \/ Expire(r) PROVE db' = db
  BY <1>2 DEF Request, Lookup, Load, Install, AddCookie, Snapshot, Send, Expire
<1>3. ~Worker
  BY <1>1 DEF Worker, WorkerTake, WorkerWrite, WorkerStop
<1>4. ~Cleaner
  BY <1>1 DEF Cleaner, Sweep, SweepJar, SweepCheck, SweepEnd, CleanDelete, CleanSnapshot, CleanWrite, CleanEnd, CleanerStop
<1>5. Close \/ CloseDB \/ Restart \/ UNCHANGED vars => db' = db
  BY DEF Close, CloseDB, Restart, vars
<1> QED
  BY <1>2, <1>3, <1>4, <1>5 DEF Next

\* Close drains the channel: every task accepted before Close began has been written
\* when the database closes, for every capacity and number of requests.
THEOREM DrainCorrect == Spec => []DrainedAtClose
<1>1. Spec => [](TypeInv /\ CloseInv)
  BY InitTypeInv, NextTypeInv, InitCloseInv, NextCloseInv, PTL DEF Spec
<1>2. CloseInv => DrainedAtClose
  BY DEF CloseInv, DrainedAtClose
<1> QED
  BY <1>1, <1>2, PTL

\* Close waits for both background goroutines, so no write follows db.Close, for
\* every interleaving of requests, worker and cleanup.
THEOREM QuietCorrect == Spec => ClosedIsQuiet
<1>1. Spec => [](TypeInv /\ CloseInv)
  BY InitTypeInv, NextTypeInv, InitCloseInv, NextCloseInv, PTL DEF Spec
<1>2. TypeInv /\ CloseInv /\ [Next]_vars
        => [phase = "closed" /\ phase' = "closed" => db' = db]_vars
  BY ClosedStep
<1> QED
  BY <1>1, <1>2, PTL DEF Spec, ClosedIsQuiet

-----------------------------------------------------------------------------
(* Session cookies.                                                        *)

\* No snapshot on its way to the channel holds a session cookie either.
SessionInv ==
  /\ SessionStaysInMemory
  /\ \A r \in Requests : ~HoldsSession(snapshot[r])

\* Neither the empty jar nor a selection of AllCookies holds a session cookie.
LEMMA NoSession ==
  /\ ~HoldsSession(Empty)
  /\ \A jar : ~HoldsSession(AllCookies(jar))
  BY DEF HoldsSession, Empty, AllCookies

\* Writing a task without session cookies leaves a table without them.
LEMMA WriteNoSession ==
  ASSUME TypeOK, NEW task \in Task, Write(task), ~HoldsSession(task.entries),
         \A k \in Keys : db[k] # None => ~HoldsSession(db[k])
  PROVE  \A k \in Keys : db'[k] # None => ~HoldsSession(db'[k])
  BY DEF Write, Task, TypeOK

\* Every step keeps session cookies out of the database and the way to it.
LEMMA NextSessionInv == TypeInv /\ SessionInv /\ [Next]_vars => SessionInv'
<1> SUFFICES ASSUME TypeInv, SessionInv, [Next]_vars PROVE SessionInv'
  OBVIOUS
<1> USE DEF SessionInv, SessionStaysInMemory
<1>0. TypeOK /\ persistCh \in Seq(Task) /\ ~HoldsSession(NoTask.entries)
  BY NoSession DEF TypeInv, TypeOK, NoTask
<1>1. ASSUME NEW r \in Requests, Snapshot(r) PROVE SessionInv'
  BY <1>1, <1>0, NoSession DEF Snapshot, TypeOK
<1>2. ASSUME NEW r \in Requests, Send(r) PROVE SessionInv'
  <2> DEFINE task == [key |-> SessionOf[r], entries |-> snapshot[r]]
  <2>1. task \in Task /\ ~HoldsSession(task.entries)
    BY <1>0 DEF Task, TypeOK
  <2>2. \A i \in 1 .. Len(persistCh') : ~HoldsSession(persistCh'[i].entries)
    BY <1>2, <1>0, <2>1 DEF Send
  <2> QED
    BY <1>2, <1>0, <2>2, NoSession DEF Send, TypeOK
<1>3. ASSUME NEW r \in Requests, Lookup(r) \/ Load(r) \/ Install(r) \/ Expire(r)
      PROVE SessionInv'
  BY <1>3 DEF Lookup, Load, Install, Expire, requestVars
<1>13. ASSUME NEW r \in Requests, AddCookie(r) PROVE SessionInv'
  BY <1>13, <1>0, AddCookieSpares DEF AddCookie
<1>4. CASE WorkerTake
  <2>1. Len(persistCh) > 0 /\ worker'.task = persistCh[1]
    BY <1>4, <1>0 DEF WorkerTake
  <2>2. \A i \in 1 .. Len(persistCh') : i + 1 \in 1 .. Len(persistCh) /\ persistCh'[i] = persistCh[i + 1]
    BY <1>4, <1>0 DEF WorkerTake
  <2> QED
    BY <1>4, <2>1, <2>2 DEF WorkerTake, requestVars
<1>5. CASE WorkerWrite
  <2>1. worker.task \in Task
    BY <1>5, <1>0 DEF WorkerWrite, TypeOK
  <2>2. \A k \in Keys : db'[k] # None => ~HoldsSession(db'[k])
    BY <1>5, <1>0, <2>1, WriteNoSession DEF WorkerWrite
  <2> QED
    BY <1>5, <1>0, <2>2 DEF WorkerWrite, requestVars
<1>6. CASE WorkerStop \/ Close \/ CloseDB
  BY <1>6, <1>0 DEF WorkerStop, Close, CloseDB, requestVars
<1>7. CASE Sweep \/ SweepJar \/ SweepEnd
  <2>1. cleaner'.task = cleaner.task
    BY <1>7, <1>0 DEF Sweep, SweepJar, SweepEnd, TypeOK
  <2> QED BY <1>7, <2>1 DEF Sweep, SweepJar, SweepEnd, requestVars
<1>15. CASE CleanEnd \/ CleanerStop
  BY <1>15, <1>0 DEF CleanEnd, CleanerStop, CleanerIdle, requestVars, TypeOK
<1>14. CASE SweepCheck
  <2>1. cleaner'.task = cleaner.task
    BY <1>14, <1>0 DEF SweepCheck, TypeOK
  <2> QED BY <1>14, <2>1 DEF SweepCheck, requestVars
<1>8. CASE CleanDelete
  BY <1>8, <1>0 DEF CleanDelete, requestVars, TypeOK
<1>9. CASE CleanSnapshot
  BY <1>9, <1>0, NoSession DEF CleanSnapshot, requestVars, TypeOK
<1>10. CASE CleanWrite
  <2>1. cleaner.task \in Task
    BY <1>10, <1>0 DEF CleanWrite, TypeOK
  <2>2. \A k \in Keys : db'[k] # None => ~HoldsSession(db'[k])
    BY <1>10, <1>0, <2>1, WriteNoSession DEF CleanWrite
  <2> QED
    BY <1>10, <1>0, <2>2 DEF CleanWrite, requestVars, TypeOK
<1>11. CASE Restart
  BY <1>11, <1>0, NoSession DEF Restart, CleanerIdle
<1>12. CASE UNCHANGED vars
  BY <1>12 DEF vars, requestVars
<1> QED
  BY <1>1, <1>2, <1>3, <1>4, <1>5, <1>6, <1>7, <1>8, <1>9, <1>10, <1>11, <1>12,
     <1>13, <1>14, <1>15 DEF Next, Request, Worker, Cleaner

\* Cookies without a lifetime never reach the database nor a task on its way there.
THEOREM SessionCookiesCorrect == Spec => []SessionStaysInMemory
<1>1. Init => SessionInv
  BY NoSession DEF Init, SessionInv, SessionStaysInMemory, NoTask, CleanerIdle
<1>2. Spec => [](TypeInv /\ SessionInv)
  BY <1>1, InitTypeInv, NextTypeInv, NextSessionInv, PTL DEF Spec
<1>3. SessionInv => SessionStaysInMemory
  BY DEF SessionInv
<1> QED
  BY <1>2, <1>3, PTL

-----------------------------------------------------------------------------
(* Isolation of sessions.                                                  *)

\* The session a jar was made for.
KeyOf(j) == IF j \in Requests THEN SessionOf[j] ELSE j

\* Jars, rows, tasks and snapshots belong to one session each, and whoever refers
\* to one of them is of that session.
OwnInv ==
  /\ \A j \in Jars : OwnedBy(KeyOf(j), heap[j])
  /\ \A k \in Keys : jars[k] # None => KeyOf(jars[k]) = k
  /\ \A k \in Keys : db[k] # None => OwnedBy(k, db[k])
  /\ \A i \in 1 .. Len(persistCh) : OwnedBy(persistCh[i].key, persistCh[i].entries)
  /\ OwnedBy(worker.task.key, worker.task.entries)
  /\ OwnedBy(cleaner.task.key, cleaner.task.entries)
  /\ \A s \in cleaner.survivors : KeyOf(s[2]) = s[1]
  /\ \A r \in Requests : ref[r] # None => KeyOf(ref[r]) = SessionOf[r]
  /\ \A r \in Requests : OwnedBy(SessionOf[r], snapshot[r])

\* An empty jar belongs to every session, and a part of a jar to the jar's session.
LEMMA OwnedParts ==
  /\ \A k : OwnedBy(k, Empty)
  /\ \A k, jar : OwnedBy(k, jar) => OwnedBy(k, Unexpired(jar)) /\ OwnedBy(k, AllCookies(jar))
  BY DEF OwnedBy, Empty, Unexpired, AllCookies

\* Writing a task of its own session keeps the rows of the table apart.
LEMMA WriteOwned ==
  ASSUME TypeOK, NEW task \in Task, Write(task), OwnedBy(task.key, task.entries),
         \A k \in Keys : db[k] # None => OwnedBy(k, db[k])
  PROVE  \A k \in Keys : db'[k] # None => OwnedBy(k, db'[k])
  BY DEF Write, Task, TypeOK

\* Every step of a request keeps the sessions apart.
LEMMA RequestOwned ==
  ASSUME TypeInv, OwnInv, NEW r \in Requests, Request(r)
  PROVE  OwnInv'
<1> USE DEF OwnInv
<1>0. TypeOK /\ HoldsJar /\ persistCh \in Seq(Task) /\ SessionOf[r] \in Keys /\ KeyOf(r) = SessionOf[r]
  BY DEF TypeInv, TypeOK, KeyOf
<1>1. CASE Lookup(r)
  BY <1>1, <1>0 DEF Lookup, TypeOK
<1>2. CASE Load(r)
  <2>1. OwnedBy(SessionOf[r], IF phase # "closed" /\ db[SessionOf[r]] # None
                                THEN Unexpired(db[SessionOf[r]]) ELSE Empty)
    BY <1>0, OwnedParts
  <2>2. \A j \in Jars : OwnedBy(KeyOf(j), heap'[j])
    BY <1>2, <2>1, <1>0 DEF Load, TypeOK
  <2> QED
    BY <1>2, <2>2 DEF Load
<1>3. CASE Install(r)
  BY <1>3, <1>0 DEF Install, TypeOK
<1>4. CASE AddCookie(r)
  <2>1. PICK c \in Cookies, value \in {r, None} : heap' = [heap EXCEPT ![ref[r]][c] = value]
    BY <1>4 DEF AddCookie
  <2>2. ref[r] \in Jars /\ ref[r] # None
    BY <1>4, <1>0 DEF AddCookie, HoldsJar, Jars
  <2>3. KeyOf(ref[r]) = SessionOf[r]
    BY <2>2
  <2>4. OwnedBy(SessionOf[r], [heap[ref[r]] EXCEPT ![c] = value])
    BY <2>2, <2>3, <1>0 DEF OwnedBy, TypeOK, Content
  <2>5. \A j \in Jars : OwnedBy(KeyOf(j), heap'[j])
    BY <2>1, <2>2, <2>3, <2>4, <1>0 DEF TypeOK
  <2>6. QED
    <3>1. /\ cleaner'.task = cleaner.task /\ cleaner'.survivors = cleaner.survivors
          /\ UNCHANGED <<jars, db, persistCh, worker, ref, snapshot>>
      BY <1>4, <1>0, AddCookieSpares DEF AddCookie
    <3> QED BY <2>5, <3>1
<1>5. CASE Snapshot(r)
  <2>1. ref[r] \in Jars /\ ref[r] # None
    BY <1>5, <1>0 DEF Snapshot, HoldsJar, Jars
  <2>2. OwnedBy(SessionOf[r], AllCookies(heap[ref[r]]))
    BY <2>1, OwnedParts
  <2> QED
    BY <1>5, <2>2, <1>0 DEF Snapshot, TypeOK
<1>6. CASE Send(r)
  <2> DEFINE task == [key |-> SessionOf[r], entries |-> snapshot[r]]
  <2>1. task \in Task /\ OwnedBy(task.key, task.entries)
    BY <1>0 DEF Task, TypeOK
  <2>2. \A i \in 1 .. Len(persistCh') : persistCh'[i] = task \/ (i \in 1 .. Len(persistCh) /\ persistCh'[i] = persistCh[i])
    BY <1>6, <1>0, <2>1 DEF Send
  <2>3. \A i \in 1 .. Len(persistCh') : OwnedBy(persistCh'[i].key, persistCh'[i].entries)
    BY <2>1, <2>2
  <2>4. \A q \in Requests : /\ OwnedBy(SessionOf[q], snapshot'[q])
                            /\ ref'[q] # None => KeyOf(ref'[q]) = SessionOf[q]
    BY <1>6, <1>0, OwnedParts DEF Send, TypeOK
  <2> QED
    BY <1>6, <2>3, <2>4 DEF Send
<1> QED
  BY <1>1, <1>2, <1>3, <1>4, <1>5, <1>6 DEF Request

\* Every step of the worker keeps the sessions apart.
LEMMA WorkerOwned ==
  ASSUME TypeInv, OwnInv, Worker
  PROVE  OwnInv'
<1> USE DEF OwnInv
<1>0. TypeOK /\ persistCh \in Seq(Task) /\ OwnedBy(NoTask.key, NoTask.entries)
  BY OwnedParts DEF TypeInv, TypeOK, NoTask
<1>1. CASE WorkerTake
  <2>1. Len(persistCh) > 0 /\ worker'.task = persistCh[1]
    BY <1>1, <1>0 DEF WorkerTake
  <2>2. \A i \in 1 .. Len(persistCh') : i + 1 \in 1 .. Len(persistCh) /\ persistCh'[i] = persistCh[i + 1]
    BY <1>1, <1>0 DEF WorkerTake
  <2> QED
    BY <1>1, <2>1, <2>2 DEF WorkerTake, requestVars
<1>2. CASE WorkerWrite
  <2>1. worker.task \in Task
    BY <1>2, <1>0 DEF WorkerWrite, TypeOK
  <2>2. \A k \in Keys : db'[k] # None => OwnedBy(k, db'[k])
    BY <1>2, <1>0, <2>1, WriteOwned DEF WorkerWrite
  <2> QED
    BY <1>2, <1>0, <2>2 DEF WorkerWrite, requestVars
<1>3. CASE WorkerStop
  BY <1>3, <1>0 DEF WorkerStop, requestVars
<1> QED
  BY <1>1, <1>2, <1>3 DEF Worker

\* Every step of the cleanup keeps the sessions apart.
LEMMA CleanerOwned ==
  ASSUME TypeInv, OwnInv, Cleaner
  PROVE  OwnInv'
<1> USE DEF OwnInv
<1>0. TypeOK /\ OwnedBy(NoTask.key, NoTask.entries)
  BY OwnedParts DEF TypeInv, TypeOK, NoTask
<1>1. CASE Sweep
  <2>1. cleaner'.task = cleaner.task /\ cleaner'.survivors = cleaner.survivors
    BY <1>1, <1>0 DEF Sweep, TypeOK
  <2> QED BY <1>1, <2>1 DEF Sweep, requestVars
<1>8. CASE SweepEnd
  <2>1. cleaner'.task = cleaner.task /\ cleaner'.survivors = cleaner.survivors
    BY <1>8, <1>0 DEF SweepEnd, TypeOK
  <2>2. \A k \in Keys : jars'[k] # None => KeyOf(jars'[k]) = k
    BY <1>8, <1>0 DEF SweepEnd, TypeOK
  <2> QED BY <1>8, <2>1, <2>2 DEF SweepEnd, requestVars
<1>6. CASE SweepJar
  <2>1. \A j \in Jars : OwnedBy(KeyOf(j), heap'[j])
    BY <1>6, <1>0, OwnedParts DEF SweepJar, TypeOK
  <2> QED
    BY <1>6, <2>1, <1>0 DEF SweepJar, requestVars, TypeOK
<1>7. CASE SweepCheck
  <2>1. \A s \in cleaner'.survivors : KeyOf(s[2]) = s[1]
    BY <1>7, <1>0 DEF SweepCheck, TypeInv, SweepsMapped, TypeOK
  <2>2. cleaner'.task = cleaner.task
    BY <1>7, <1>0 DEF SweepCheck, TypeOK
  <2> QED
    BY <1>7, <2>1, <2>2, <1>0 DEF SweepCheck, requestVars
<1>2. CASE CleanDelete
  BY <1>2, <1>0 DEF CleanDelete, requestVars, TypeOK
<1>3. CASE CleanSnapshot
  <2>1. PICK s \in cleaner.survivors :
          cleaner' = [cleaner EXCEPT !.pc = "write", !.survivors = @ \ {s},
                                     !.task = [key |-> s[1], entries |-> AllCookies(heap[s[2]])]]
    BY <1>3 DEF CleanSnapshot
  <2>2. s[2] \in Jars /\ KeyOf(s[2]) = s[1]
    BY <1>0 DEF TypeOK
  <2>3. OwnedBy(s[1], AllCookies(heap[s[2]]))
    BY <2>2, OwnedParts
  <2>4. cleaner'.task = [key |-> s[1], entries |-> AllCookies(heap[s[2]])]
        /\ cleaner'.survivors \subseteq cleaner.survivors
    BY <2>1, <1>0 DEF TypeOK
  <2> QED
    BY <1>3, <2>3, <2>4 DEF CleanSnapshot, requestVars
<1>4. CASE CleanWrite
  <2>1. cleaner.task \in Task
    BY <1>4, <1>0 DEF CleanWrite, TypeOK
  <2>2. \A k \in Keys : db'[k] # None => OwnedBy(k, db'[k])
    BY <1>4, <1>0, <2>1, WriteOwned DEF CleanWrite
  <2> QED
    BY <1>4, <1>0, <2>2 DEF CleanWrite, requestVars, TypeOK
<1>5. CASE CleanEnd \/ CleanerStop
  BY <1>5, <1>0 DEF CleanEnd, CleanerStop, CleanerIdle, requestVars, TypeOK
<1> QED
  BY <1>1, <1>2, <1>3, <1>4, <1>5, <1>6, <1>7, <1>8 DEF Cleaner

\* Every step keeps the sessions apart.
LEMMA NextOwnInv == TypeInv /\ OwnInv /\ [Next]_vars => OwnInv'
<1> SUFFICES ASSUME TypeInv, OwnInv, [Next]_vars PROVE OwnInv'
  OBVIOUS
<1>1. CASE \E r \in Requests : Request(r)
  BY <1>1, RequestOwned
<1>2. CASE \E r \in Requests : Expire(r)
  BY <1>2 DEF Expire, OwnInv, requestVars
<1>3. CASE Worker
  BY <1>3, WorkerOwned
<1>4. CASE Cleaner
  BY <1>4, CleanerOwned
<1>5. CASE Close \/ CloseDB
  BY <1>5 DEF Close, CloseDB, OwnInv, requestVars
<1>6. CASE Restart
  <2> USE DEF OwnInv
  <2>1. \A j \in Jars : OwnedBy(KeyOf(j), heap'[j])
    BY <1>6, OwnedParts DEF Restart, KeyOf
  <2>2. \A k \in Keys : jars'[k] # None => KeyOf(jars'[k]) = k
    BY <1>6 DEF Restart, KeyOf
  <2>3. /\ persistCh' = <<>>
        /\ worker'.task = NoTask
        /\ cleaner' = CleanerIdle
        /\ ref' = [r \in Requests |-> None]
        /\ snapshot' = [r \in Requests |-> Empty]
        /\ UNCHANGED db
    BY <1>6 DEF Restart
  <2>4. OwnedBy(NoTask.key, NoTask.entries)
    BY OwnedParts DEF NoTask
  <2> QED
    BY <2>1, <2>2, <2>3, <2>4, OwnedParts DEF CleanerIdle
<1>7. CASE UNCHANGED vars
  BY <1>7 DEF vars, requestVars, OwnInv
<1> QED
  BY <1>1, <1>2, <1>3, <1>4, <1>5, <1>6, <1>7 DEF Next

\* The cookies of one session never show up in another's jar or row, through memory,
\* channel, database, crash and reload, for any number of sessions and requests.
THEOREM IsolationCorrect == Spec => []SessionsIsolated
<1>1. Init => OwnInv
  BY OwnedParts DEF Init, OwnInv, NoTask, CleanerIdle
<1>2. Spec => [](TypeInv /\ OwnInv)
  BY <1>1, InitTypeInv, NextTypeInv, NextOwnInv, PTL DEF Spec
<1>3. TypeInv /\ OwnInv => SessionsIsolated
  BY DEF TypeInv, TypeOK, OwnInv, SessionsIsolated
<1> QED
  BY <1>2, <1>3, PTL

-----------------------------------------------------------------------------
(* Unmapping.                                                              *)

\* A request has its own jar mapped only after it installed it; and in a jar that the
\* sweep found expired nothing is alive but what came since.
OwnJarInstalled ==
  \A k \in Keys, r \in Requests : jars[k] = r => pc[r] \notin {"start", "load", "install"}

FoundDead ==
  cleaner.pc = "sweep" => \A k \in cleaner.expired, c \in Cookies : DeadOrLate(heap[jars[k]], c)

UnmapInv == OwnJarInstalled /\ FoundDead

\* Every step of a request keeps it: what it brings to a jar found expired is late.
LEMMA RequestFoundDead ==
  ASSUME TypeInv, UnmapInv, NEW r \in Requests, Request(r)
  PROVE  UnmapInv'
<1> USE DEF UnmapInv
<1>0. TypeOK /\ HoldsJar /\ SweepsMapped /\ SessionOf[r] \in Keys
  BY DEF TypeInv
<1>1. CASE Lookup(r)
  BY <1>0, <1>1 DEF Lookup, Unlocked, OwnJarInstalled, FoundDead, TypeOK
<1>2. CASE Load(r)
  <2>1. \A k \in Keys : jars[k] # r
    BY <1>2 DEF Load, OwnJarInstalled
  <2>2. \A k \in Keys : heap'[jars[k]] = heap[jars[k]] \/ jars[k] = None
    BY <1>0, <1>2, <2>1 DEF Load, TypeOK
  <2>3. FoundDead'
    BY <1>0, <1>2, <2>2 DEF Load, FoundDead, SweepsMapped, TypeOK, DeadOrLate, HasExpired
  <2>4. OwnJarInstalled'
    BY <1>0, <1>2, <2>1 DEF Load, OwnJarInstalled, TypeOK
  <2> QED BY <2>3, <2>4
<1>3. CASE Install(r)
  <2>1. FoundDead'
    BY <1>0, <1>3 DEF Install, Unlocked, FoundDead
  <2>2. OwnJarInstalled'
    BY <1>0, <1>3 DEF Install, OwnJarInstalled, TypeOK
  <2> QED BY <2>1, <2>2
<1>4. CASE AddCookie(r)
  <2>1. PICK d \in Cookies, value \in {r, None} : heap' = [heap EXCEPT ![ref[r]][d] = value]
    BY <1>4 DEF AddCookie
  <2>2. /\ ref[r] \in Jars /\ UNCHANGED <<jars, expired>>
        /\ pc[r] = "jar" /\ pc' = [pc EXCEPT ![r] = "changed"]
    BY <1>0, <1>4 DEF AddCookie, HoldsJar
  <2>3. /\ cleaner'.pc = cleaner.pc /\ cleaner'.expired = cleaner.expired
        /\ cleaner'.late = IF \E k \in cleaner.expired : jars[k] = ref[r]
                             THEN cleaner.late \cup {r} ELSE cleaner.late
    BY <1>0, <1>4, AddCookieSpares
  <2>4. ASSUME cleaner.pc = "sweep", NEW k \in cleaner.expired, NEW c \in Cookies
        PROVE  DeadOrLate(heap[jars[k]], c)'
    <3>1. k \in Keys /\ jars[k] \in Jars
      BY <1>0, <2>4 DEF TypeOK, SweepsMapped
    <3>2. DeadOrLate(heap[jars[k]], c)
      BY <2>4 DEF FoundDead
    <3>3. heap[jars[k]] \in Content
      BY <1>0, <3>1 DEF TypeOK
    <3>4. CASE jars[k] # ref[r]
      <4>1. heap'[jars'[k]] = heap[jars[k]]
        BY <1>0, <2>1, <2>2, <3>1, <3>4 DEF TypeOK
      <4> QED BY <2>2, <2>3, <3>2, <4>1 DEF DeadOrLate, HasExpired
    <3>5. CASE jars[k] = ref[r]
      <4>1. heap'[jars'[k]] = [heap[jars[k]] EXCEPT ![d] = value]
        BY <1>0, <2>1, <2>2, <3>1, <3>5 DEF TypeOK
      <4>2. heap'[jars'[k]][c] = IF c = d THEN value ELSE heap[jars[k]][c]
        BY <3>3, <4>1 DEF Content
      <4>3. cleaner'.late = cleaner.late \cup {r}
        BY <2>3, <3>5
      <4> QED BY <2>2, <3>2, <4>2, <4>3 DEF DeadOrLate, HasExpired
    <3> QED BY <3>4, <3>5
  <2>5. OwnJarInstalled'
    BY <1>0, <2>2 DEF OwnJarInstalled, TypeOK
  <2> QED BY <2>3, <2>4, <2>5 DEF FoundDead
<1>5. CASE Snapshot(r) \/ Send(r)
  <2>1. UNCHANGED <<jars, heap, cleaner, expired>>
        /\ \E to \in {"send", "done"} : pc' = [pc EXCEPT ![r] = to]
    BY <1>5 DEF Snapshot, Send
  <2> QED BY <1>0, <2>1 DEF OwnJarInstalled, FoundDead, DeadOrLate, HasExpired, TypeOK
<1> QED BY <1>1, <1>2, <1>3, <1>4, <1>5 DEF Request

\* So does every step of the cleanup.
LEMMA CleanerFoundDead ==
  ASSUME TypeInv, UnmapInv, Cleaner
  PROVE  UnmapInv'
<1> USE DEF UnmapInv
<1>0. TypeOK /\ SweepsMapped
  BY DEF TypeInv
<1>1. CASE Sweep
  <2>1. cleaner'.expired = {}
    BY <1>0, <1>1 DEF Sweep, SweepsMapped, TypeOK
  <2> QED BY <1>1, <2>1 DEF Sweep, requestVars, OwnJarInstalled, FoundDead
<1>2. CASE SweepJar
  <2>1. PICK k \in cleaner.left :
          /\ heap' = [heap EXCEPT ![jars[k]] = Unexpired(@)]
          /\ cleaner' = [cleaner EXCEPT !.at = k, !.left = @ \ {k}]
    BY <1>2 DEF SweepJar
  <2>2. /\ cleaner'.expired = cleaner.expired /\ cleaner'.late = cleaner.late
        /\ cleaner.pc = "sweep" /\ cleaner'.pc = "sweep" /\ UNCHANGED <<jars, expired, pc>>
    BY <1>0, <1>2, <2>1 DEF SweepJar, TypeOK, requestVars
  <2>3. ASSUME NEW l \in cleaner.expired, NEW c \in Cookies
        PROVE  DeadOrLate(heap[jars[l]], c)'
    <3>1. DeadOrLate(heap[jars[l]], c)
      BY <2>2 DEF FoundDead
    <3>2. l \in Keys /\ jars[l] \in Jars
      BY <1>0, <2>2 DEF TypeOK, SweepsMapped
    <3>3. heap'[jars'[l]] \in {heap[jars[l]], Unexpired(heap[jars[l]])}
      BY <1>0, <2>1, <2>2, <3>2 DEF TypeOK
    <3>4. heap'[jars'[l]][c] \in {heap[jars[l]][c], None}
      BY <3>3 DEF Unexpired
    <3> QED BY <2>2, <3>1, <3>4 DEF DeadOrLate, HasExpired
  <2> QED BY <2>2, <2>3 DEF OwnJarInstalled, FoundDead
<1>3. CASE SweepCheck
  <2>1. /\ cleaner.pc = "sweep" /\ cleaner'.pc = "sweep" /\ cleaner'.late = cleaner.late
        /\ UNCHANGED <<jars, heap, expired, pc>>
    BY <1>0, <1>3 DEF SweepCheck, TypeOK, requestVars
  <2>2. \/ cleaner'.expired = cleaner.expired
        \/ /\ cleaner'.expired = cleaner.expired \cup {cleaner.at}
           /\ IsExpired(heap[jars[cleaner.at]])
    BY <1>0, <1>3 DEF SweepCheck, TypeOK
  <2>3. \A j : \A c \in Cookies : IsExpired(heap[j]) => DeadOrLate(heap[j], c)
    <3> SUFFICES ASSUME NEW j, NEW c \in Cookies, IsExpired(heap[j])
                 PROVE  DeadOrLate(heap[j], c)
      OBVIOUS
    <3>1. Unexpired(heap[j])[c] = None
      BY DEF IsExpired, Empty
    <3> QED BY <3>1 DEF Unexpired, DeadOrLate
  <2>4. \A k \in cleaner'.expired, c \in Cookies : DeadOrLate(heap[jars[k]], c)
    <3> SUFFICES ASSUME NEW k \in cleaner'.expired, NEW c \in Cookies
                 PROVE  DeadOrLate(heap[jars[k]], c)
      OBVIOUS
    <3>1. CASE k \in cleaner.expired
      BY <2>1, <3>1 DEF FoundDead
    <3>2. CASE k \notin cleaner.expired
      <4>1. IsExpired(heap[jars[k]])
        BY <2>2, <3>2
      <4> QED BY <2>3, <4>1
    <3> QED BY <3>1, <3>2
  <2> QED BY <2>1, <2>4 DEF OwnJarInstalled, FoundDead, DeadOrLate, HasExpired
<1>4. CASE SweepEnd
  <2>1. cleaner'.pc = "flush" /\ UNCHANGED pc
        /\ \A k \in Keys : jars'[k] \in {jars[k], None}
    BY <1>0, <1>4 DEF SweepEnd, TypeOK, requestVars
  <2> QED BY <2>1 DEF OwnJarInstalled, FoundDead
<1>5. CASE CleanDelete \/ CleanSnapshot \/ CleanWrite \/ CleanEnd \/ CleanerStop
  <2>1. /\ CleanDelete \/ CleanSnapshot \/ CleanWrite \/ CleanEnd \/ CleanerStop
        /\ "pc" \in DOMAIN cleaner
    BY <1>0, <1>5 DEF TypeOK
  <2>2. cleaner'.pc # "sweep"
    <3>1. CASE CleanDelete
      BY <2>1, <3>1 DEF CleanDelete
    <3>2. CASE CleanSnapshot
      BY <2>1, <3>2 DEF CleanSnapshot
    <3>3. CASE CleanWrite \/ CleanerStop
      BY <2>1, <3>3 DEF CleanWrite, CleanerStop
    <3>4. CASE CleanEnd
      BY <3>4 DEF CleanEnd, CleanerIdle
    <3> QED BY <2>1, <3>1, <3>2, <3>3, <3>4
  <2>3. UNCHANGED <<jars, pc>>
    BY <2>1 DEF CleanDelete, CleanSnapshot, CleanWrite, CleanEnd, CleanerStop, requestVars
  <2> QED BY <2>2, <2>3 DEF OwnJarInstalled, FoundDead
<1> QED BY <1>1, <1>2, <1>3, <1>4, <1>5 DEF Cleaner

\* Every step keeps it.
LEMMA NextFoundDead == TypeInv /\ UnmapInv /\ [Next]_vars => UnmapInv'
<1> SUFFICES ASSUME TypeInv, UnmapInv, [Next]_vars PROVE UnmapInv'
  OBVIOUS
<1>1. ASSUME NEW r \in Requests, Request(r) PROVE UnmapInv'
  BY <1>1, RequestFoundDead
<1>2. CASE Cleaner
  BY <1>2, CleanerFoundDead
<1>3. ASSUME NEW r \in Requests, Expire(r) PROVE UnmapInv'
  BY <1>3 DEF Expire, UnmapInv, OwnJarInstalled, FoundDead, DeadOrLate, HasExpired, requestVars
<1>4. CASE Worker \/ Close \/ CloseDB \/ UNCHANGED vars
  <2>1. UNCHANGED <<jars, heap, cleaner, expired, pc>>
    BY <1>4 DEF Worker, WorkerTake, WorkerWrite, WorkerStop, Close, CloseDB, vars, requestVars
  <2> QED BY <2>1 DEF UnmapInv, OwnJarInstalled, FoundDead, DeadOrLate, HasExpired
<1>5. CASE Restart
  <2>1. cleaner'.pc = "wait" /\ \A k \in Keys : jars'[k] \in {k, None}
    BY <1>5 DEF Restart, CleanerIdle
  <2> QED BY <2>1 DEF UnmapInv, OwnJarInstalled, FoundDead
<1> QED BY <1>1, <1>2, <1>3, <1>4, <1>5 DEF Next

\* A step that unmaps a jar while the process runs is the end of a sweep, and the sweep
\* found nothing alive in it.
LEMMA UnmapStep ==
  ASSUME TypeInv, UnmapInv, Next, NEW k \in Keys, NEW c \in Cookies,
         jars[k] # None, jars'[k] = None, restarts' = restarts
  PROVE  DeadOrLate(heap[jars[k]], c)
<1>0. jars \in [Keys -> Jars \cup {None}] /\ restarts \in Nat /\ None \notin Requests
  BY DEF TypeInv, TypeOK
<1>1. ASSUME NEW r \in Requests, Request(r) PROVE FALSE
  <2>1. Install(r)
    BY <1>0, <1>1 DEF Request, Lookup, Load, AddCookie, Snapshot, Send
  <2>2. r # None /\ (jars'[k] = r \/ jars'[k] = jars[k])
    BY <1>0, <2>1 DEF Install
  <2> QED
    BY <2>2
<1>2. SweepEnd
  <2>1. jars' # jars
    OBVIOUS
  <2>2. ~Restart
    BY <1>0 DEF Restart
  <2>3. ~(Close \/ CloseDB \/ Worker \/ \E r \in Requests : Expire(r))
    BY <2>1 DEF Close, CloseDB, Worker, WorkerTake, WorkerWrite, WorkerStop, Expire
  <2>4. ~(Sweep \/ SweepJar \/ SweepCheck \/ CleanDelete \/ CleanSnapshot \/ CleanWrite
            \/ CleanEnd \/ CleanerStop)
    BY <2>1 DEF Sweep, SweepJar, SweepCheck, CleanDelete, CleanSnapshot, CleanWrite, CleanEnd,
                CleanerStop
  <2> QED
    BY <1>1, <2>2, <2>3, <2>4 DEF Next, Cleaner
<1>3. cleaner.pc = "sweep" /\ k \in cleaner.expired
  BY <1>0, <1>2 DEF SweepEnd
<1> QED
  BY <1>3 DEF UnmapInv, FoundDead

\* Cleanup takes a jar out of the map only when nothing in it is alive but what a request
\* brought after the sweep had asked (manager.go:265 and 272), and nothing else takes one
\* out: for any number of sessions and requests, whatever they do between its steps.
THEOREM UnmapCorrect == Spec => UnmappedOnlyDead
<1>1. TypeInv /\ UnmapInv /\ [Next]_vars =>
        [\A k \in Keys :
           /\ jars[k] # None
           /\ jars'[k] = None
           /\ restarts' = restarts
           => \A c \in Cookies : DeadOrLate(heap[jars[k]], c)]_vars
  BY UnmapStep
<1>2. Init => UnmapInv
  BY DEF Init, UnmapInv, OwnJarInstalled, FoundDead, CleanerIdle
<1>3. Spec => [](TypeInv /\ UnmapInv)
  BY <1>2, InitTypeInv, NextTypeInv, NextFoundDead, PTL DEF Spec
<1> QED
  BY <1>1, <1>3, PTL DEF Spec, UnmappedOnlyDead
=============================================================================
