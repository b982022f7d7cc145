----------------------------- MODULE AddonProofs -----------------------------
(***************************************************************************)
(* What AddonReload promises of its watches and of its reloads, for any    *)
(* addons and directories, and any number of edits and of reloads that     *)
(* overlap; and what TenantAddons promises of the pages made meanwhile,    *)
(* for any lists, tenants and requests.                                    *)
(***************************************************************************)
EXTENDS AddonReload, TenantAddons, SequenceTheorems, WellFoundedInduction, TLAPS

\* What a directory holds, at any depth, is held by what holds the directory.
LEMMA Tree ==
  /\ \A d \in Dirs : Parent[d] \in Dirs \/ (Parent[d] = None /\ Above[d] = {})
  /\ \A d, x \in Dirs : Parent[d] \in Dirs => (d \in Below(x) <=> d = x \/ Parent[d] \in Below(x))
  /\ \A a \in Addons : a \in Dirs /\ Above[a] = {}
  /\ \A d, x \in Dirs : d \in Below(x) <=> d = x \/ x \in Above[d]
  /\ \A x \in Dirs : Below(x) \subseteq Dirs
<1>1. \A d, x \in Dirs : d \in Below(x) <=> d = x \/ x \in Above[d]
  BY DEF Below
<1>2. \A d \in Dirs : Parent[d] \in Dirs \/ (Parent[d] = None /\ Above[d] = {})
  BY ParentAssumption, AboveAssumption DEF Dirs
<1>3. \A d \in Dirs : Parent[d] \in Dirs => Above[d] = {Parent[d]} \cup Above[Parent[d]]
  BY NoneAssumption, AboveAssumption
<1>4. \A a \in Addons : a \in Dirs /\ Above[a] = {}
  BY OrderAssumption, AboveAssumption
<1>5. \A x \in Dirs : Below(x) \subseteq Dirs
  BY DEF Below
<1> HIDE DEF Dirs, Addons
<1> QED BY <1>1, <1>2, <1>3, <1>4, <1>5

LEMMA ContentsExist ==
  ASSUME edits \in Nat, edits < MaxEdits, NEW kind \in Kinds
  PROVE  [version |-> edits + 1, kind |-> kind] # None
<1>1. edits + 1 \in 0 .. MaxEdits
  BY BoundsAssumption
<1>2. [version |-> edits + 1, kind |-> kind] \in Contents
  BY <1>1 DEF Contents
<1> QED BY <1>2, NoneAssumption

-----------------------------------------------------------------------------
(* Watches.                                                                *)

\* No directory outlives the one that holds it.
Rooted == \A d \in Dirs : Exists(d) => HolderThere(d)

\* A directory whose watch is owed to nobody else.
Owed(d) == Parent[d] \in Dirs \ kernel \/ d \in events \/ Forgotten(d)

\* The kernel's watches are among those made, and none is made before the watcher runs.
WatchesMade ==
  /\ DOMAIN tree = Dirs /\ edits \in Nat
  /\ events \subseteq Dirs \cup {None}
  /\ kernel \subseteq watched
  /\ phase \in {"load", "watch"} => watched = {}

WatchInv == WatchesMade /\ Rooted /\ EveryDirWatched

LEMMA InitWatch == Init => WatchInv
<1> SUFFICES ASSUME Init
             PROVE  WatchInv
  OBVIOUS
<1>1. PICK there \in Starts :
        tree = [d \in Dirs |-> IF d \in there THEN [version |-> 0, kind |-> "good"] ELSE None]
  BY DEF Init
<1>2. \A d \in Dirs : Exists(d) => d \in there
  BY <1>1 DEF Exists
<1>3. [version |-> 0, kind |-> "good"] # None
  BY BoundsAssumption, NoneAssumption DEF Contents, Kinds
<1>4. \A d \in there \cap Dirs : Exists(d)
  BY <1>1, <1>3 DEF Exists
<1>5. Rooted
  <2> SUFFICES ASSUME NEW d \in Dirs, Exists(d), Parent[d] \in Dirs
               PROVE  Exists(Parent[d])
    BY Tree DEF Rooted, HolderThere
  <2>1. Parent[d] \in Above[d] /\ Above[d] \subseteq there
    BY <1>2, StartsAssumption, AboveAssumption, NoneAssumption
  <2> QED BY <2>1, <1>4
<1> QED BY <1>1, <1>5 DEF Init, WatchInv, WatchesMade, EveryDirWatched

LEMMA MakeDirWatch ==
  ASSUME WatchInv, NEW new \in Dirs, MakeDir(new)
  PROVE  WatchInv'
<1>1. /\ \A d \in Dirs : Exists(d)' <=> Exists(d) \/ d = new
      /\ ~Exists(new) /\ HolderThere(new)
  BY ContentsExist DEF MakeDir, Change, WatchInv, WatchesMade, Exists, Kinds
<1>2. kernel' = kernel /\ watched' = watched /\ phase' = phase /\ events \subseteq events'
  BY DEF MakeDir, Change
<1>3. WatchesMade'
  BY <1>2 DEF WatchInv, WatchesMade, MakeDir, Change
<1>4. Rooted'
  BY <1>1 DEF WatchInv, Rooted, HolderThere
<1>5. \A x \in Dirs : Owed(x) => Owed(x)'
  BY <1>1, <1>2 DEF Owed, Forgotten
<1>6. EveryDirWatched'
  <2> SUFFICES ASSUME phase = "run", NEW d \in Dirs, Exists(d)', d \notin kernel
               PROVE  Owed(d)'
    BY <1>2 DEF EveryDirWatched, Owed
  <2>1. CASE d # new
    BY <2>1, <1>1, <1>5 DEF WatchInv, EveryDirWatched, Owed
  <2>2. CASE d = new /\ EntryReported(new)
    BY <2>2 DEF MakeDir, Change, Owed
  <2>3. CASE d = new /\ ~EntryReported(new)
    BY <2>3, <1>2, Tree DEF EntryReported, Owed
  <2> QED BY <2>1, <2>2, <2>3
<1> QED BY <1>3, <1>4, <1>6 DEF WatchInv

LEMMA WriteFileWatch ==
  ASSUME WatchInv, NEW dir \in Dirs, WriteFile(dir)
  PROVE  WatchInv'
<1>1. \A d \in Dirs : Exists(d)' <=> Exists(d)
  BY ContentsExist DEF WriteFile, Change, WatchInv, WatchesMade, Exists, Kinds
<1>2. kernel' = kernel /\ watched' = watched /\ phase' = phase /\ events \subseteq events'
  BY DEF WriteFile, Change
<1> QED
  BY <1>1, <1>2
  DEF WatchInv, WatchesMade, Rooted, HolderThere, EveryDirWatched, Forgotten, WriteFile, Change

LEMMA RemoveDirWatch ==
  ASSUME WatchInv, NEW old \in Dirs, RemoveDir(old)
  PROVE  WatchInv'
<1>1. /\ \A d \in Dirs : Exists(d)' <=> Exists(d) /\ d \notin Below(old)
      /\ kernel' = kernel \ Below(old)
  BY DEF RemoveDir, Exists
<1>2. watched' = watched /\ phase' = phase /\ events \subseteq events'
  BY DEF RemoveDir, Change
<1>3. WatchesMade'
  BY <1>1, <1>2 DEF WatchInv, WatchesMade, RemoveDir, Change
<1>4. \A d \in Dirs : Parent[d] \in Dirs /\ d \notin Below(old) => Parent[d] \notin Below(old)
  BY Tree
<1>5. Rooted'
  <2> SUFFICES ASSUME NEW d \in Dirs, Exists(d)', Parent[d] \in Dirs
               PROVE  Exists(Parent[d])'
    BY Tree DEF Rooted, HolderThere
  <2>1. Exists(d) /\ Exists(Parent[d])
    BY <1>1, NoneAssumption DEF WatchInv, Rooted, HolderThere
  <2> QED BY <2>1, <1>1, <1>4
<1>6. \A d \in Dirs : d \notin Below(old) /\ Owed(d) => Owed(d)'
  BY <1>1, <1>2 DEF Owed, Forgotten
<1>7. EveryDirWatched'
  BY <1>1, <1>2, <1>6 DEF WatchInv, EveryDirWatched, Owed
<1> QED BY <1>3, <1>5, <1>7 DEF WatchInv

LEMMA ReceiveWatch ==
  ASSUME WatchInv, Receive
  PROVE  WatchInv'
<1>1. /\ \A d \in Dirs : (Exists(d)' <=> Exists(d)) /\ (HolderThere(d)' <=> HolderThere(d))
      /\ phase = "run" /\ phase' = "run" /\ tree' = tree /\ edits' = edits
  BY DEF Receive, Exists, HolderThere
<1>2. PICK path \in events :
        /\ events' = events \ {path}
        /\ IF path # None /\ Exists(path)
             THEN AddTree(Below(path))
             ELSE UNCHANGED <<kernel, watched>>
  BY DEF Receive
<1>3. kernel \subseteq kernel' /\ watched \subseteq watched' /\ kernel' \subseteq watched'
      /\ kernel' \cap watched \subseteq kernel
  BY <1>2 DEF AddTree, WatchInv, WatchesMade
<1>4. \A x \in Dirs : Forgotten(x) => Forgotten(x)'
  BY <1>1, <1>3 DEF Forgotten
<1>5. EveryDirWatched'
  <2> SUFFICES ASSUME NEW d \in Dirs, Exists(d), d \notin kernel', Parent[d] \notin Dirs \ kernel'
               PROVE  d \in events' \/ Forgotten(d)'
    BY <1>1 DEF EveryDirWatched
  <2>1. CASE d \in Below(path) /\ path # None /\ Exists(path)
    <3>1. d \in watched'
      BY <2>1, <1>2 DEF AddTree
    <3> QED BY <3>1, <1>1 DEF Forgotten
  <2>2. CASE ~(d \in Below(path) /\ path # None /\ Exists(path))
    <3>1. d # path
      BY <2>2, NoneAssumption DEF Below
    <3>2. Parent[d] \in kernel' => Parent[d] \in kernel
      <4> SUFFICES ASSUME Parent[d] \in kernel', Parent[d] \notin kernel
                   PROVE  FALSE
        OBVIOUS
      <4>1. path # None /\ Exists(path) /\ Parent[d] \in Below(path)
        BY <1>2 DEF AddTree
      <4>2. Parent[d] \in Dirs /\ path \in Dirs
        BY <4>1, <1>2, Tree, NoneAssumption DEF WatchInv, WatchesMade
      <4> QED BY <4>1, <4>2, <2>2, Tree
    <3>3. d \in events \/ Forgotten(d)
      BY <3>2, <1>1, <1>3 DEF WatchInv, EveryDirWatched
    <3> QED BY <3>1, <3>3, <1>2, <1>4
  <2> QED BY <2>1, <2>2
<1>6. events' \subseteq events
  BY <1>2
<1>7. WatchesMade'
  BY <1>1, <1>3, <1>6 DEF WatchInv, WatchesMade
<1>8. Rooted'
  BY <1>1 DEF WatchInv, Rooted
<1> QED BY <1>5, <1>7, <1>8 DEF WatchInv

LEMMA StartWatch ==
  ASSUME WatchInv, Watch
  PROVE  WatchInv'
<1>1. \A d \in Dirs : (Exists(d)' <=> Exists(d)) /\ (HolderThere(d)' <=> HolderThere(d))
  BY DEF Watch, Exists, HolderThere
<1>2. kernel' \subseteq watched' /\ \A d \in Dirs : Exists(d) => d \in kernel'
  BY DEF Watch, AddTree, WatchInv, WatchesMade
<1> QED
  BY <1>1, <1>2 DEF Watch, WatchInv, WatchesMade, Rooted, EveryDirWatched

LEMMA StopWatch ==
  ASSUME WatchInv, Stop
  PROVE  WatchInv'
<1>1. \A d \in Dirs : (Exists(d)' <=> Exists(d)) /\ (HolderThere(d)' <=> HolderThere(d))
  BY DEF Stop, Exists, HolderThere
<1> QED BY <1>1 DEF Stop, WatchInv, WatchesMade, Rooted, EveryDirWatched

\* Steps that touch neither the tree nor a watch nor an event.
LEMMA RestWatch ==
  ASSUME WatchInv, UNCHANGED <<treeVars, watched, events>>,
         phase' = "run" => phase = "run", phase' \in {"load", "watch"} => watched = {}
  PROVE  WatchInv'
<1>1. \A d \in Dirs : /\ Exists(d)' <=> Exists(d)
                      /\ HolderThere(d)' <=> HolderThere(d)
                      /\ Forgotten(d)' <=> Forgotten(d)
  BY DEF Exists, HolderThere, Forgotten, treeVars
<1> QED
  BY <1>1 DEF WatchInv, WatchesMade, Rooted, EveryDirWatched, treeVars

LEMMA NextWatch == WatchInv /\ [Next]_vars => WatchInv'
<1> SUFFICES ASSUME WatchInv, [Next]_vars
             PROVE  WatchInv'
  OBVIOUS
<1>1. CASE Edit
  BY <1>1, MakeDirWatch, WriteFileWatch, RemoveDirWatch DEF Edit
<1>2. CASE Watch \/ Receive \/ Stop
  BY <1>2, StartWatch, ReceiveWatch, StopWatch
<1>3. CASE LoadFirst \/ Fire
  BY <1>3, RestWatch DEF LoadFirst, Fire, WatchInv, WatchesMade, treeVars
<1>4. CASE \E i \in DOMAIN loads : Reload(i)
  BY <1>4, RestWatch DEF Reload, ReadDir, LoadNext, Finish, WatchInv, WatchesMade
<1>5. CASE UNCHANGED vars
  BY <1>5, RestWatch DEF vars, treeVars, WatchInv, WatchesMade
<1> QED BY <1>1, <1>2, <1>3, <1>4, <1>5 DEF Next

\* However directories are made, removed and made again, at any depth, while events are
\* handled: one that is there without a watch, in a watched one, has its event still to
\* come or was removed and made again (main.go:482).
THEOREM WatchesCorrect == Spec => []EveryDirWatched
<1>1. WatchInv => EveryDirWatched
  BY DEF WatchInv
<1> QED BY InitWatch, NextWatch, <1>1, PTL DEF Spec

-----------------------------------------------------------------------------
(* Reloads.                                                                *)

\* What a list is made of.
Listed == Addons \X UNION {[Below(a) -> Nat] : a \in Addons}

Load ==
  [todo : {None} \cup SUBSET DOMAIN Order, got : SUBSET Listed,
   failed : BOOLEAN, late : BOOLEAN, steady : SUBSET Addons]

\* An addon that has been in order since the reload began is not read yet, or is among
\* those read and will not be missed.
Accounted(load) ==
  \A a \in load.steady :
    /\ Loads(a)
    /\ \/ load.todo = None
       \/ \E k \in load.todo : Order[k] = a
       \/ \E l \in load.got : l[1] = a

TreeType == tree \in [Dirs -> {None} \cup Contents] /\ edits \in Nat

LoadInv ==
  /\ TreeType
  /\ loads \in Seq(Load)
  /\ \A i \in DOMAIN loads : Accounted(loads[i])

\* Reloads that overlap end in any order; the others stay as they are.
LEMMA RemoveAtKeeps ==
  ASSUME NEW S, NEW s \in Seq(S), NEW i \in DOMAIN s
  PROVE  /\ RemoveAt(s, i) \in Seq(S)
         /\ \A j \in DOMAIN RemoveAt(s, i) : \E k \in DOMAIN s : RemoveAt(s, i)[j] = s[k]
<1> DEFINE front == SubSeq(s, 1, i - 1)
           back == SubSeq(s, i + 1, Len(s))
<1>1. i \in 1 .. Len(s) /\ Len(s) \in Nat /\ DOMAIN s = 1 .. Len(s)
  OBVIOUS
<1>2. /\ front \in Seq(S) /\ Len(front) = i - 1
      /\ \A j \in 1 .. i - 1 : front[j] = s[j]
  BY <1>1
<1>3. /\ back \in Seq(S) /\ Len(back) = Len(s) - i
      /\ \A j \in 1 .. Len(s) - i : back[j] = s[i + j]
  BY <1>1
<1>4. RemoveAt(s, i) = front \o back
  BY DEF RemoveAt
<1> HIDE DEF front, back
<1>5. /\ front \o back \in Seq(S) /\ Len(front \o back) = Len(s) - 1
      /\ \A j \in 1 .. Len(s) - 1 :
           (front \o back)[j] = IF j <= i - 1 THEN front[j] ELSE back[j - (i - 1)]
  <2>1. /\ front \o back \in Seq(S) /\ Len(front \o back) = Len(front) + Len(back)
        /\ \A j \in 1 .. Len(front) + Len(back) :
             (front \o back)[j] = IF j <= Len(front) THEN front[j] ELSE back[j - Len(front)]
    BY <1>2, <1>3, ConcatProperties
  <2>2. Len(front) + Len(back) = Len(s) - 1
    BY <1>1, <1>2, <1>3
  <2> QED BY <2>1, <2>2, <1>2
<1>6. \A j \in 1 .. Len(s) - 1 : \E k \in DOMAIN s : (front \o back)[j] = s[k]
  <2> TAKE j \in 1 .. Len(s) - 1
  <2>1. CASE j <= i - 1
    <3>1. j \in 1 .. i - 1 /\ j \in 1 .. Len(s)
      BY <2>1, <1>1
    <3>2. (front \o back)[j] = s[j]
      BY <3>1, <2>1, <1>2, <1>5
    <3> QED BY <3>1, <3>2, <1>1
  <2>2. CASE ~(j <= i - 1)
    <3>1. j - (i - 1) \in 1 .. Len(s) - i /\ i + (j - (i - 1)) = j + 1 /\ j + 1 \in 1 .. Len(s)
      BY <2>2, <1>1
    <3>2. (front \o back)[j] = s[j + 1]
      BY <3>1, <2>2, <1>3, <1>5
    <3> QED BY <3>1, <3>2, <1>1
  <2> QED BY <2>1, <2>2
<1>7. DOMAIN (front \o back) = 1 .. Len(s) - 1
  BY <1>5
<1> QED BY <1>4, <1>5, <1>6, <1>7

LEMMA LoadedListed ==
  ASSUME TreeType, NEW a \in Addons
  PROVE  /\ Loaded(a) \subseteq Listed
         /\ Loads(a) => \E l \in Loaded(a) : l[1] = a
<1>1. CASE Loads(a)
  <2> DEFINE versions == [d \in Below(a) |-> tree[d].version]
  <2>1. \A d \in Below(a) : d \in Dirs /\ tree[d] \in Contents
    BY <1>1, Tree DEF Loads, InOrder, Exists, TreeType
  <2>2. versions \in [Below(a) -> Nat]
    BY <2>1, BoundsAssumption DEF Contents
  <2>3. Loaded(a) = {<<a, versions>>}
    BY <1>1 DEF Loaded
  <2>4. versions \in UNION {[Below(x) -> Nat] : x \in Addons}
    BY <2>2
  <2> HIDE DEF versions
  <2> QED BY <2>3, <2>4 DEF Listed
<1>2. CASE ~Loads(a)
  BY <1>2 DEF Loaded
<1> QED BY <1>1, <1>2

LEMMA InitLoads == Init => LoadInv
<1> SUFFICES ASSUME Init
             PROVE  LoadInv
  OBVIOUS
<1>1. [version |-> 0, kind |-> "good"] \in Contents
  BY BoundsAssumption DEF Contents, Kinds
<1>2. TreeType
  BY <1>1 DEF Init, TreeType
<1>3. loads = <<>>
  BY DEF Init
<1> QED BY <1>2, <1>3 DEF LoadInv

\* An edit spoils only what it touches.
LEMMA LoadsElsewhere ==
  ASSUME NEW d \in Dirs, \A x \in Dirs : x \notin Below(d) => tree'[x] = tree[x],
         NEW a \in Addons, a \notin {d} \cup Above[d], Loads(a)
  PROVE  Loads(a)'
<1>1. \A x \in Below(a) : x \in Dirs /\ x \notin Below(d)
  BY Tree, AboveAssumption
<1>2. \A x \in Below(a) : tree'[x] = tree[x]
  BY <1>1
<1>3. a \in Below(a)
  BY DEF Below
<1> QED BY <1>2, <1>3 DEF Loads, HasManifest, InOrder, Exists

LEMMA EditLoads ==
  ASSUME LoadInv, Edit
  PROVE  LoadInv'
<1>1. PICK d \in Dirs : MakeDir(d) \/ WriteFile(d) \/ RemoveDir(d)
  BY DEF Edit
<1>2. TreeType /\ edits < MaxEdits /\ edits' = edits + 1 /\ edits + 1 \in 0 .. MaxEdits
  BY <1>1, BoundsAssumption DEF LoadInv, TreeType, MakeDir, WriteFile, RemoveDir, Change
<1>3. loads' = [i \in DOMAIN loads |-> [loads[i] EXCEPT !.steady = @ \ ({d} \cup Above[d])]]
  BY <1>1 DEF MakeDir, WriteFile, RemoveDir, Change
<1>4. TreeType' /\ \A x \in Dirs : x \notin Below(d) => tree'[x] = tree[x]
  <2>1. CASE MakeDir(d) \/ WriteFile(d)
    <3>1. PICK kind \in Kinds : tree' = [tree EXCEPT ![d] = [version |-> edits + 1, kind |-> kind]]
      BY <2>1 DEF MakeDir, WriteFile, Kinds
    <3>2. [version |-> edits + 1, kind |-> kind] \in Contents
      BY <1>2 DEF Contents
    <3>3. d \in Below(d)
      BY DEF Below
    <3> QED BY <1>2, <3>1, <3>2, <3>3 DEF TreeType
  <2>2. CASE RemoveDir(d)
    <3>1. tree' = [x \in Dirs |-> IF x \in Below(d) THEN None ELSE tree[x]]
      BY <2>2 DEF RemoveDir
    <3> QED BY <1>2, <3>1 DEF TreeType
  <2> QED BY <1>1, <2>1, <2>2
<1>5. DOMAIN loads = 1 .. Len(loads) /\ Len(loads) \in Nat
      /\ \A i \in DOMAIN loads : loads[i] \in Load
  BY DEF LoadInv
<1>6. DOMAIN loads' = DOMAIN loads
      /\ \A i \in DOMAIN loads : loads'[i] = [loads[i] EXCEPT !.steady = @ \ ({d} \cup Above[d])]
  BY <1>3
<1>7. \A i \in DOMAIN loads : loads'[i] \in Load
  BY <1>5, <1>6 DEF Load
<1>8. loads' \in Seq(Load)
  <2>1. loads' = [i \in 1 .. Len(loads) |-> loads'[i]]
    BY <1>3, <1>5, <1>6
  <2> QED BY <2>1, <1>5, <1>7
<1>9. ASSUME NEW i \in DOMAIN loads
      PROVE  Accounted(loads[i])'
  <2>1. /\ loads[i] \in Load /\ Accounted(loads[i])
        /\ loads'[i] = [loads[i] EXCEPT !.steady = @ \ ({d} \cup Above[d])]
    BY <1>5, <1>6 DEF LoadInv
  <2>2. /\ loads'[i].steady = loads[i].steady \ ({d} \cup Above[d])
        /\ loads'[i].todo = loads[i].todo /\ loads'[i].got = loads[i].got
    BY <2>1 DEF Load
  <2>3. \A a \in loads'[i].steady : Loads(a)'
    BY <1>4, <2>1, <2>2, LoadsElsewhere DEF Accounted, Load
  <2> QED BY <2>1, <2>2, <2>3 DEF Accounted
<1> QED BY <1>4, <1>6, <1>8, <1>9 DEF LoadInv

\* A step that changes neither the tree nor any reload.
LEMMA RestLoads ==
  ASSUME LoadInv, UNCHANGED <<tree, edits, loads>>
  PROVE  LoadInv'
<1>1. \A a : Loads(a)' <=> Loads(a)
  BY DEF Loads, HasManifest, InOrder, Exists
<1> QED BY <1>1 DEF LoadInv, TreeType, Accounted

\* A step of one reload.
LEMMA OneLoad ==
  ASSUME LoadInv, UNCHANGED <<tree, edits>>, NEW i \in DOMAIN loads, NEW q \in Load,
         loads' = [loads EXCEPT ![i] = q], Accounted(q)
  PROVE  LoadInv'
<1>1. \A a : Loads(a)' <=> Loads(a)
  BY DEF Loads, HasManifest, InOrder, Exists
<1>2. loads' \in Seq(Load) /\ DOMAIN loads' = DOMAIN loads
  BY DEF LoadInv
<1>3. \A j \in DOMAIN loads : loads'[j] = IF j = i THEN q ELSE loads[j]
  BY DEF LoadInv
<1>4. \A j \in DOMAIN loads : Accounted(loads[j])'
  BY <1>1, <1>3 DEF LoadInv, Accounted
<1> QED BY <1>2, <1>4 DEF LoadInv, TreeType

LEMMA ReadDirLoads ==
  ASSUME LoadInv, NEW i \in DOMAIN loads, ReadDir(i)
  PROVE  LoadInv'
<1> DEFINE todo == {k \in DOMAIN Order : Exists(Order[k])}
           q == [loads[i] EXCEPT !.todo = todo]
<1>1. loads[i] \in Load /\ Accounted(loads[i])
  BY DEF LoadInv
<1>2. /\ q \in Load /\ q.todo = todo /\ q.steady = loads[i].steady /\ q.steady \subseteq Addons
  BY <1>1 DEF Load
<1>3. \A a \in Addons : Loads(a) => \E k \in todo : Order[k] = a
  BY DEF Addons, Loads, HasManifest
<1>4. Accounted(q)
  BY <1>1, <1>2, <1>3 DEF Accounted
<1>5. loads' = [loads EXCEPT ![i] = q] /\ UNCHANGED <<tree, edits>>
  BY DEF ReadDir, treeVars
<1> HIDE DEF q
<1> QED BY <1>2, <1>4, <1>5, OneLoad

\* What a reload has read it keeps, and an addon in order is among it.
LEMMA LoadNextLoads ==
  ASSUME LoadInv, NEW i \in DOMAIN loads, LoadNext(i)
  PROVE  LoadInv'
<1>1. loads[i] \in Load /\ Accounted(loads[i]) /\ TreeType
      /\ loads[i].todo \in SUBSET DOMAIN Order
  <2>1. loads[i] \in Load /\ Accounted(loads[i]) /\ TreeType
    BY DEF LoadInv
  <2>2. loads[i].todo # None
    BY DEF LoadNext
  <2> QED BY <2>1, <2>2 DEF Load
<1>2. PICK next \in loads[i].todo :
        loads' = [loads EXCEPT ![i].todo = @ \ {next}, ![i].got = @ \cup Loaded(Order[next]),
                               ![i].failed = @ \/ Fails(Order[next])]
  BY DEF LoadNext
<1> DEFINE a == Order[next]
           q == [loads[i] EXCEPT !.todo = @ \ {next}, !.got = @ \cup Loaded(a),
                                 !.failed = @ \/ Fails(a)]
<1>3. a \in Addons /\ Fails(a) \in BOOLEAN
  BY <1>1 DEF Addons, Fails
<1>4. Loaded(a) \subseteq Listed /\ (Loads(a) => \E l \in Loaded(a) : l[1] = a)
  BY <1>1, <1>3, LoadedListed
<1>5. q \in Load
  BY <1>1, <1>3, <1>4 DEF Load
<1>6. /\ q.todo = loads[i].todo \ {next} /\ q.got = loads[i].got \cup Loaded(a)
      /\ q.steady = loads[i].steady
  BY <1>1 DEF Load
<1>7. loads[i].todo # None
  BY DEF LoadNext
<1>8. Accounted(q)
  <2> SUFFICES ASSUME NEW b \in loads[i].steady
               PROVE  /\ Loads(b)
                      /\ \/ \E k \in q.todo : Order[k] = b
                         \/ \E l \in q.got : l[1] = b
    BY <1>6 DEF Accounted
  <2>1. Loads(b) /\ ((\E k \in loads[i].todo : Order[k] = b) \/ \E l \in loads[i].got : l[1] = b)
    BY <1>1, <1>7 DEF Accounted
  <2> HIDE DEF q
  <2> QED BY <2>1, <1>4, <1>6
<1>9. loads' = [loads EXCEPT ![i] = q] /\ UNCHANGED <<tree, edits>>
  BY <1>2 DEF LoadNext, treeVars
<1> HIDE DEF q
<1> QED BY <1>1, <1>5, <1>8, <1>9, OneLoad

LEMMA FireLoads ==
  ASSUME LoadInv, Fire
  PROVE  LoadInv'
<1>1. NewLoad \in Load /\ Accounted(NewLoad)
  BY DEF NewLoad, Load, Accounted
<1>2. /\ loads' = Append(loads, NewLoad) /\ UNCHANGED <<tree, edits>>
      /\ loads \in Seq(Load)
  BY DEF Fire, treeVars, LoadInv
<1> HIDE DEF Load
<1>3. /\ loads' \in Seq(Load) /\ DOMAIN loads' = 1 .. Len(loads) + 1
      /\ \A j \in DOMAIN loads' : loads'[j] = NewLoad \/ (j \in DOMAIN loads /\ loads'[j] = loads[j])
  BY <1>1, <1>2
<1>4. \A a : Loads(a)' <=> Loads(a)
  BY <1>2 DEF Loads, HasManifest, InOrder, Exists
<1>5. \A j \in DOMAIN loads' : Accounted(loads'[j])
  BY <1>1, <1>3 DEF LoadInv
<1>6. \A j \in DOMAIN loads' : Accounted(loads[j])'
  BY <1>4, <1>5 DEF Accounted
<1> QED BY <1>2, <1>3, <1>6 DEF LoadInv, TreeType

LEMMA FinishLoads ==
  ASSUME LoadInv, NEW i \in DOMAIN loads, Finish(i)
  PROVE  LoadInv'
<1> DEFINE marked == [j \in DOMAIN loads |-> [loads[j] EXCEPT !.late = @ \/ j < i]]
<1>1. UNCHANGED <<tree, edits>> /\ \E s \in {loads, marked} : loads' = RemoveAt(s, i)
  BY DEF Finish, treeVars
<1>2. loads \in Seq(Load) /\ DOMAIN loads = 1 .. Len(loads) /\ Len(loads) \in Nat
  BY DEF LoadInv
<1>3. \A j \in DOMAIN loads : loads[j] \in Load /\ Accounted(loads[j])
  BY <1>2 DEF LoadInv
<1>4. \A j \in DOMAIN loads : marked[j] \in Load
  BY <1>3 DEF Load
<1>5. \A j \in DOMAIN loads : Accounted(marked[j])
  <2> TAKE j \in DOMAIN loads
  <2>1. /\ marked[j].todo = loads[j].todo /\ marked[j].got = loads[j].got
        /\ marked[j].steady = loads[j].steady
    BY <1>3 DEF Load
  <2> QED BY <2>1, <1>3 DEF Accounted
<1>6. marked \in Seq(Load)
  <2> HIDE DEF Load
  <2> QED BY <1>2, <1>4
<1>7. DOMAIN marked = DOMAIN loads
  OBVIOUS
<1> HIDE DEF marked, Load
<1>8. PICK s \in Seq(Load) : /\ loads' = RemoveAt(s, i) /\ i \in DOMAIN s
                             /\ \A j \in DOMAIN s : Accounted(s[j])
  BY <1>1, <1>2, <1>3, <1>5, <1>6, <1>7
<1>9. /\ loads' \in Seq(Load)
      /\ \A j \in DOMAIN loads' : \E k \in DOMAIN s : loads'[j] = s[k]
  BY <1>8, RemoveAtKeeps
<1>10. \A a : Loads(a)' <=> Loads(a)
  BY <1>1 DEF Loads, HasManifest, InOrder, Exists
<1>11. \A j \in DOMAIN loads' : Accounted(loads'[j])
  BY <1>8, <1>9
<1>12. \A j \in DOMAIN loads' : Accounted(loads[j])'
  BY <1>10, <1>11 DEF Accounted
<1> QED BY <1>1, <1>9, <1>12 DEF LoadInv, TreeType

LEMMA NextLoads == LoadInv /\ [Next]_vars => LoadInv'
<1> SUFFICES ASSUME LoadInv, [Next]_vars
             PROVE  LoadInv'
  OBVIOUS
<1>1. CASE Edit
  BY <1>1, EditLoads
<1>2. CASE Fire
  BY <1>2, FireLoads
<1>3. CASE LoadFirst \/ Watch \/ Receive \/ Stop \/ UNCHANGED vars
  BY <1>3, RestLoads DEF LoadFirst, Watch, Receive, Stop, vars, treeVars, loadVars
<1>4. CASE \E i \in DOMAIN loads : Reload(i)
  BY <1>4, ReadDirLoads, LoadNextLoads, FinishLoads DEF Reload
<1> QED BY <1>1, <1>2, <1>3, <1>4 DEF Next

\* An addon that is in order while a reload runs is never lost by it, whatever the other
\* addons are like, whoever edits them, and however many reloads overlap
\* (loader.go:95).
THEOREM SteadyCorrect == Spec => SteadyStays
<1> DEFINE Kept(i) == Finish(i) => loads[i].steady \subseteq {l[1] : l \in list'}
<1>1. ASSUME LoadInv, NEW i \in DOMAIN loads, Finish(i)
      PROVE  loads[i].steady \subseteq {l[1] : l \in list'}
  <2>1. loads[i] \in Load /\ Accounted(loads[i]) /\ loads[i].todo = {} /\ {} # None
    BY <1>1, NoneAssumption DEF LoadInv, Finish
  <2>2. \A a \in loads[i].steady : \E l \in loads[i].got : l[1] = a
    BY <2>1 DEF Accounted
  <2>3. CASE Keeps(loads[i])
    BY <2>2, <2>3 DEF Keeps
  <2>4. CASE ~Keeps(loads[i])
    BY <1>1, <2>2, <2>4 DEF Finish
  <2> QED BY <2>3, <2>4
<1>2. LoadInv => \A i \in DOMAIN loads : Kept(i)
  BY <1>1
<1>3. LoadInv /\ [Next]_vars => [\A i \in DOMAIN loads : Kept(i)]_vars
  BY <1>2
<1> QED BY InitLoads, NextLoads, <1>3, PTL DEF Spec, SteadyStays

-----------------------------------------------------------------------------
(* Recursion over sequences.                                               *)

LEMMA Smallest ==
  ASSUME NEW S \in SUBSET Nat, S # {}
  PROVE  \E n \in S : \A m \in S : n <= m
<1>1. PICK n \in S : \A m \in S : ~(<<m, n>> \in OpToRel(<, Nat))
  BY NatLessThanWellFounded, WFMin
<1>2. \A x, y \in Nat : x < y => <<x, y>> \in OpToRel(<, Nat)
  BY DEF OpToRel
<1>3. ASSUME NEW m \in S PROVE n <= m
  <2>1. ~(m < n)
    BY <1>1, <1>2
  <2> QED BY <2>1
<1> QED BY <1>3

\* Induction up to N; T is the set of those numbers a claim holds for.
LEMMA UpTo ==
  ASSUME NEW N \in Nat, NEW T, 0 \in T,
         \A n \in 1 .. N : n - 1 \in T => n \in T
  PROVE  \A n \in 0 .. N : n \in T
<1> DEFINE Bad == {n \in 0 .. N : n \notin T}
<1> SUFFICES ASSUME Bad # {} PROVE FALSE
  OBVIOUS
<1>1. Bad \in SUBSET Nat
  OBVIOUS
<1> HIDE DEF Bad
<1>2. PICK n \in Bad : \A m \in Bad : n <= m
  BY <1>1, Smallest
<1> USE DEF Bad
<1>3. n \in 1 .. N /\ n - 1 \in 0 .. N /\ n - 1 \notin Bad
  BY <1>2
<1> QED BY <1>3

\* Steps can be taken one after the other.
Steps(N, S) == [1 .. N -> [S -> S]]

Takes(f, N, S, first, step) ==
  /\ f \in [0 .. N -> S]
  /\ f[0] = first
  /\ \A n \in 1 .. N : f[n] = step[n][f[n - 1]]

LEMMA Iteration ==
  ASSUME NEW N \in Nat, NEW S, NEW first \in S, NEW step \in Steps(N, S)
  PROVE  \E f : Takes(f, N, S, first, step)
<1> USE DEF Steps
<1> DEFINE Along(n, f) == f[0] = first /\ \A m \in 1 .. n : f[m] = step[m][f[m - 1]]
           T == {n \in 0 .. N : \E f \in [0 .. n -> S] : Along(n, f)}
<1>1. 0 \in T
  <2>1. [i \in 0 .. 0 |-> first] \in [0 .. 0 -> S] /\ Along(0, [i \in 0 .. 0 |-> first])
    OBVIOUS
  <2> HIDE DEF Along
  <2> QED BY <2>1
<1>2. ASSUME NEW n \in 1 .. N, n - 1 \in T PROVE n \in T
  <2>1. PICK f \in [0 .. n - 1 -> S] : Along(n - 1, f)
    BY <1>2
  <2> DEFINE g == [i \in 0 .. n |-> IF i = n THEN step[n][f[n - 1]] ELSE f[i]]
  <2>2. g \in [0 .. n -> S]
    <3>1. step[n] \in [S -> S] /\ f[n - 1] \in S
      OBVIOUS
    <3> QED BY <3>1
  <2>3. Along(n, g)
    <3>1. g[0] = first /\ \A m \in 0 .. n - 1 : g[m] = f[m]
      BY <2>1
    <3>2. g[n] = step[n][f[n - 1]]
      OBVIOUS
    <3> HIDE DEF g
    <3>3. ASSUME NEW m \in 1 .. n PROVE g[m] = step[m][g[m - 1]]
      <4>1. CASE m = n
        BY <4>1, <3>1, <3>2
      <4>2. CASE m # n
        <5>1. m \in 1 .. n - 1 /\ m \in 0 .. n - 1 /\ m - 1 \in 0 .. n - 1
          BY <4>2
        <5> QED BY <5>1, <3>1, <2>1
      <4> QED BY <4>1, <4>2
    <3> QED BY <3>1, <3>3
  <2> HIDE DEF g, Along
  <2> QED BY <2>2, <2>3
<1> HIDE DEF T
<1>3. \A n \in 0 .. N : n \in T
  BY <1>1, <1>2, UpTo
<1>4. N \in T
  BY <1>3
<1> QED BY <1>4 DEF T, Takes

\* What Only has picked after the first n elements.
Picked(s, S) ==
  CHOOSE f : f = [n \in 0 .. Len(s) |->
                    IF n = 0 THEN <<>>
                    ELSE IF s[n] \in S THEN Append(f[n - 1], s[n]) ELSE f[n - 1]]

PickedFrom(f, s, S) ==
  /\ f[0] = <<>>
  /\ \A n \in 1 .. Len(s) : f[n] = IF s[n] \in S THEN Append(f[n - 1], s[n]) ELSE f[n - 1]

LEMMA PickedStep ==
  ASSUME NEW X, NEW s \in Seq(X), NEW S
  PROVE  /\ Picked(s, S) \in [0 .. Len(s) -> Seq(X)]
         /\ PickedFrom(Picked(s, S), s, S)
         /\ Only(s, S) = Picked(s, S)[Len(s)]
<1> DEFINE N == Len(s)
           step == [n \in 1 .. N |->
                      [p \in Seq(X) |-> IF s[n] \in S THEN Append(p, s[n]) ELSE p]]
           Is(f) == f = [n \in 0 .. Len(s) |->
                           IF n = 0 THEN <<>>
                           ELSE IF s[n] \in S THEN Append(f[n - 1], s[n]) ELSE f[n - 1]]
           g == Picked(s, S)
<1>1. N \in Nat /\ \A n \in 1 .. N : s[n] \in X
  OBVIOUS
<1>2. step \in [1 .. N -> [Seq(X) -> Seq(X)]] /\ <<>> \in Seq(X)
  <2> SUFFICES ASSUME NEW n \in 1 .. N, NEW p \in Seq(X)
               PROVE  (IF s[n] \in S THEN Append(p, s[n]) ELSE p) \in Seq(X)
    OBVIOUS
  <2> QED BY <1>1
<1>3. \E f : Takes(f, N, Seq(X), <<>>, step)
  <2>1. step \in Steps(N, Seq(X))
    BY <1>2 DEF Steps
  <2> HIDE DEF step, N
  <2> QED BY <1>1, <1>2, <2>1, Iteration
<1>4. PICK f \in [0 .. N -> Seq(X)] : f[0] = <<>> /\ \A n \in 1 .. N : f[n] = step[n][f[n - 1]]
  <2> HIDE DEF step
  <2> QED BY <1>3 DEF Takes
<1>5. ASSUME NEW n \in 1 .. N
      PROVE  f[n] = IF s[n] \in S THEN Append(f[n - 1], s[n]) ELSE f[n - 1]
  <2>1. f[n - 1] \in Seq(X)
    BY <1>1
  <2>2. f[n] = step[n][f[n - 1]]
    BY <1>4
  <2> QED BY <2>1, <2>2
<1>6. Is(f)
  <2>1. \A n \in 0 .. N : n = 0 \/ n \in 1 .. N
    BY <1>1
  <2>2. \A n \in 0 .. N : f[n] = IF n = 0 THEN <<>>
                                 ELSE IF s[n] \in S THEN Append(f[n - 1], s[n]) ELSE f[n - 1]
    BY <1>4, <1>5, <2>1
  <2> QED BY <2>2
<1>7. Is(g)
  BY <1>6 DEF Picked
<1>8. Only(s, S) = g[N]
  BY DEF Only, Picked
<1>9. PickedFrom(g, s, S)
  <2> HIDE DEF g
  <2>1. 0 \in 0 .. N /\ \A n \in 1 .. N : n \in 0 .. N /\ n # 0
    BY <1>1
  <2> QED BY <1>7, <2>1 DEF PickedFrom
<1> DEFINE T == {n \in 0 .. N : g[n] \in Seq(X)}
<1>10. \A n \in 0 .. N : n \in T
  <2> HIDE DEF g
  <2>1. 0 \in T
    <3>1. g[0] = <<>> /\ <<>> \in Seq(X) /\ 0 \in 0 .. N
      BY <1>1, <1>9 DEF PickedFrom
    <3> QED BY <3>1
  <2>2. ASSUME NEW n \in 1 .. N, n - 1 \in T PROVE n \in T
    <3>1. g[n - 1] \in Seq(X) /\ s[n] \in X /\ n \in 0 .. N
      BY <1>1, <2>2
    <3>2. g[n] \in {Append(g[n - 1], s[n]), g[n - 1]}
      BY <1>9 DEF PickedFrom
    <3>3. Append(g[n - 1], s[n]) \in Seq(X)
      BY <3>1
    <3> QED BY <3>1, <3>2, <3>3
  <2> HIDE DEF T, N
  <2> QED BY <1>1, <2>1, <2>2, UpTo
<1>11. g \in [0 .. N -> Seq(X)]
  <2> HIDE DEF g
  <2> QED BY <1>7, <1>10
<1> QED BY <1>8, <1>9, <1>11

\* What FlattenSeq has joined after the first n sequences.
Joined(ss) ==
  CHOOSE f : f = [i \in 1 .. Len(ss) |-> IF i = 1 THEN ss[i] ELSE f[i - 1] \o ss[i]]

JoinedFrom(f, ss) ==
  /\ f[1] = ss[1]
  /\ \A n \in 2 .. Len(ss) : f[n] = f[n - 1] \o ss[n]

LEMMA JoinedStep ==
  ASSUME NEW X, NEW ss \in Seq(Seq(X)), ss # <<>>
  PROVE  /\ Len(ss) \in Nat \ {0}
         /\ Joined(ss) \in [1 .. Len(ss) -> Seq(X)]
         /\ JoinedFrom(Joined(ss), ss)
         /\ FlattenSeq(ss) = Joined(ss)[Len(ss)]
<1> DEFINE N == Len(ss)
           step == [n \in 1 .. N |-> [p \in Seq(X) |-> IF n = 1 THEN ss[n] ELSE p \o ss[n]]]
           Is(f) == f = [i \in 1 .. Len(ss) |-> IF i = 1 THEN ss[i] ELSE f[i - 1] \o ss[i]]
           g == Joined(ss)
<1>0. N \in Nat \ {0}
  OBVIOUS
<1>1. N \in Nat /\ N >= 1 /\ \A n \in 1 .. N : ss[n] \in Seq(X)
  OBVIOUS
<1>2. step \in [1 .. N -> [Seq(X) -> Seq(X)]] /\ <<>> \in Seq(X)
  <2> SUFFICES ASSUME NEW n \in 1 .. N, NEW p \in Seq(X)
               PROVE  (IF n = 1 THEN ss[n] ELSE p \o ss[n]) \in Seq(X)
    OBVIOUS
  <2> QED BY <1>1
<1>3. \E f : Takes(f, N, Seq(X), <<>>, step)
  <2>1. step \in Steps(N, Seq(X))
    BY <1>2 DEF Steps
  <2> HIDE DEF step, N
  <2> QED BY <1>1, <1>2, <2>1, Iteration
<1>4. PICK f \in [0 .. N -> Seq(X)] : f[0] = <<>> /\ \A n \in 1 .. N : f[n] = step[n][f[n - 1]]
  <2> HIDE DEF step
  <2> QED BY <1>3 DEF Takes
<1>5. ASSUME NEW n \in 1 .. N
      PROVE  f[n] = IF n = 1 THEN ss[n] ELSE f[n - 1] \o ss[n]
  <2>1. f[n - 1] \in Seq(X)
    <3>1. n - 1 \in 0 .. N
      BY <1>0
    <3> QED BY <3>1
  <2>2. f[n] = step[n][f[n - 1]]
    BY <1>4
  <2> QED BY <2>1, <2>2
<1> DEFINE h == [n \in 1 .. N |-> f[n]]
<1>6. Is(h)
  <2>1. \A n \in 1 .. N : n # 1 => n - 1 \in 1 .. N
    BY <1>1
  <2>2. \A n \in 1 .. N : h[n] = IF n = 1 THEN ss[n] ELSE h[n - 1] \o ss[n]
    BY <1>5, <2>1
  <2> QED BY <2>2
<1>7. Is(g)
  <2> HIDE DEF h
  <2> QED BY <1>6 DEF Joined
<1>8. FlattenSeq(ss) = g[N]
  BY <1>0 DEF FlattenSeq, Joined
<1>9. JoinedFrom(g, ss)
  <2> HIDE DEF g
  <2>1. 1 \in 1 .. N /\ \A n \in 2 .. N : n \in 1 .. N /\ n # 1
    BY <1>1
  <2> QED BY <1>7, <2>1 DEF JoinedFrom
<1> DEFINE T == {n \in 0 .. N : n # 0 => g[n] \in Seq(X)}
<1>10. \A n \in 0 .. N : n \in T
  <2> HIDE DEF g
  <2>1. 0 \in T
    BY <1>1
  <2>2. ASSUME NEW n \in 1 .. N, n - 1 \in T PROVE n \in T
    <3>1. ss[n] \in Seq(X) /\ n \in 0 .. N
      BY <1>1
    <3>2. n = 1 => g[n] \in Seq(X)
      BY <3>1, <1>9 DEF JoinedFrom
    <3>3. ASSUME n # 1 PROVE g[n] \in Seq(X)
      <4>1. n \in 2 .. N /\ n - 1 # 0
        BY <3>3, <1>1
      <4>2. g[n - 1] \in Seq(X) /\ g[n] = g[n - 1] \o ss[n]
        BY <4>1, <2>2, <1>9 DEF JoinedFrom
      <4> QED BY <3>1, <4>2
    <3>4. g[n] \in Seq(X)
      BY <3>2, <3>3
    <3> QED BY <3>1, <3>4
  <2> HIDE DEF T, N
  <2> QED BY <1>1, <2>1, <2>2, UpTo
<1>11. g \in [1 .. N -> Seq(X)]
  <2>1. \A n \in 1 .. N : n \in 0 .. N /\ n # 0
    BY <1>1
  <2> HIDE DEF g
  <2> QED BY <1>7, <1>10, <2>1
<1> QED BY <1>0, <1>8, <1>9, <1>11

LEMMA FlattenType ==
  ASSUME NEW X, NEW ss \in Seq(Seq(X))
  PROVE  /\ FlattenSeq(ss) \in Seq(X)
         /\ ss = <<>> => FlattenSeq(ss) = <<>>
<1>1. CASE ss = <<>>
  BY <1>1 DEF FlattenSeq
<1>2. CASE ss # <<>>
  <2>1. Len(ss) \in 1 .. Len(ss) /\ Joined(ss) \in [1 .. Len(ss) -> Seq(X)]
    BY <1>2, JoinedStep
  <2>2. FlattenSeq(ss) = Joined(ss)[Len(ss)]
    BY <1>2, JoinedStep
  <2> QED BY <1>2, <2>1, <2>2
<1> QED BY <1>1, <1>2

\* The places in two sequences joined.
LEMMA Concatenated ==
  ASSUME NEW X, NEW s \in Seq(X), NEW u \in Seq(X)
  PROVE  /\ s \o u \in Seq(X) /\ Len(s \o u) = Len(s) + Len(u)
         /\ Len(s) \in Nat /\ Len(u) \in Nat
         /\ \A k \in 1 .. Len(s) : (s \o u)[k] = s[k]
         /\ \A k \in 1 .. Len(u) : (s \o u)[Len(s) + k] = u[k]
         /\ \A k \in Len(s) + 1 .. Len(s) + Len(u) : (s \o u)[k] = u[k - Len(s)]
OBVIOUS

LEMMA TextsJoined ==
  ASSUME NEW X, NEW s \in Seq(X), NEW u \in Seq(X)
  PROVE  Texts(s \o u) = Texts(s) \o Texts(u)
<1> DEFINE Y == {x.text : x \in X}
           w == s \o u
           p == Texts(s)
           q == Texts(u)
<1>1. \A v \in Seq(X) : /\ Texts(v) \in Seq(Y) /\ Len(Texts(v)) = Len(v)
                        /\ \A k \in 1 .. Len(v) : Texts(v)[k] = v[k].text
  BY DEF Texts
<1>2. w \in Seq(X) /\ Len(w) = Len(s) + Len(u) /\ Len(s) \in Nat /\ Len(u) \in Nat
  BY Concatenated
<1> HIDE DEF Y, w
<1>3. p \in Seq(Y) /\ q \in Seq(Y) /\ Len(p) = Len(s) /\ Len(q) = Len(u)
  BY <1>1
<1>4. Texts(w) \in Seq(Y) /\ Len(Texts(w)) = Len(s) + Len(u)
  BY <1>1, <1>2
<1>5. /\ \A k \in 1 .. Len(s) : p[k] = s[k].text
      /\ \A k \in 1 .. Len(u) : q[k] = u[k].text
      /\ \A k \in 1 .. Len(w) : Texts(w)[k] = w[k].text
  BY <1>1, <1>2
<1> HIDE DEF p, q
<1>6. p \o q \in Seq(Y) /\ Len(p \o q) = Len(s) + Len(u)
  BY <1>3
<1>7. ASSUME NEW k \in 1 .. Len(s) + Len(u) PROVE Texts(w)[k] = (p \o q)[k]
  <2>1. ASSUME k <= Len(s) PROVE w[k] = s[k] /\ (p \o q)[k] = p[k] /\ k \in 1 .. Len(s)
    <3>1. k \in 1 .. Len(s) /\ k \in 1 .. Len(p)
      BY <2>1, <1>2, <1>3
    <3>2. (p \o q)[k] = p[k]
      BY <3>1, <1>3, Concatenated
    <3> QED BY <3>1, <3>2, Concatenated DEF w
  <2>2. ASSUME k > Len(s)
        PROVE  /\ w[k] = u[k - Len(s)] /\ (p \o q)[k] = q[k - Len(s)]
               /\ k - Len(s) \in 1 .. Len(u)
    <3>1. /\ k \in Len(s) + 1 .. Len(s) + Len(u) /\ k \in Len(p) + 1 .. Len(p) + Len(q)
          /\ k - Len(s) \in 1 .. Len(u)
      BY <2>2, <1>2, <1>3
    <3>2. (p \o q)[k] = q[k - Len(p)]
      BY <3>1, <1>3, Concatenated
    <3> QED BY <3>1, <3>2, <1>3, Concatenated DEF w
  <2>3. Texts(w)[k] = w[k].text
    BY <1>2, <1>5
  <2>4. k <= Len(s) \/ k > Len(s)
    BY <1>2
  <2> QED BY <1>5, <2>1, <2>2, <2>3, <2>4
<1>8. Texts(w) = p \o q
  BY <1>4, <1>6, <1>7, SeqEqual
<1> QED BY <1>8 DEF p, q, w

\* x is an element of one of the first n sequences.
IsFrom(x, ss, n) == \E i \in 1 .. n : \E j \in 1 .. Len(ss[i]) : x = ss[i][j]

\* What is joined comes from the sequences, and keeps its place when more is joined.
LEMMA JoinedRange ==
  ASSUME NEW X, NEW ss \in Seq(Seq(X)), ss # <<>>, NEW n \in 1 .. Len(ss),
         NEW k \in 1 .. Len(Joined(ss)[n])
  PROVE  IsFrom(Joined(ss)[n][k], ss, n)
<1> DEFINE N == Len(ss)
           g == Joined(ss)
           From(m, x) == \E i \in 1 .. m : \E j \in 1 .. Len(ss[i]) : x = ss[i][j]
           T == {m \in 0 .. N : m # 0 => \A x \in 1 .. Len(g[m]) : From(m, g[m][x])}
<1>1. N \in Nat /\ N >= 1 /\ g \in [1 .. N -> Seq(X)] /\ JoinedFrom(g, ss)
  BY JoinedStep
<1>2. \A i \in 1 .. N : ss[i] \in Seq(X)
  OBVIOUS
<1> HIDE DEF g
<1>3. 0 \in T
  BY <1>1
<1>4. ASSUME NEW m \in 1 .. N, m - 1 \in T PROVE m \in T
  <2> SUFFICES ASSUME NEW x \in 1 .. Len(g[m]) PROVE From(m, g[m][x])
    BY <1>1
  <2>1. CASE m = 1
    <3>1. g[m] = ss[1] /\ 1 \in 1 .. m
      BY <1>1, <2>1 DEF JoinedFrom
    <3> QED BY <3>1
  <2>2. CASE m # 1
    <3>1. m \in 2 .. N /\ m - 1 \in 1 .. N /\ m - 1 # 0
      BY <1>1, <2>2
    <3>2. g[m] = g[m - 1] \o ss[m] /\ g[m - 1] \in Seq(X) /\ ss[m] \in Seq(X)
      BY <1>1, <1>2, <3>1 DEF JoinedFrom
    <3> DEFINE p == g[m - 1]
               q == ss[m]
    <3>3. p \in Seq(X) /\ q \in Seq(X) /\ g[m] = p \o q /\ x \in 1 .. Len(p \o q)
      BY <3>2
    <3> HIDE DEF p, q
    <3>4. Len(p \o q) = Len(p) + Len(q) /\ Len(p) \in Nat /\ Len(q) \in Nat
      BY <3>3, Concatenated
    <3>5. CASE x <= Len(p)
      <4>1. x \in 1 .. Len(p)
        BY <3>3, <3>4, <3>5
      <4>2. g[m][x] = p[x]
        BY <3>3, <4>1, Concatenated
      <4>3. From(m - 1, p[x])
        BY <1>4, <3>1, <4>1 DEF p
      <4>4. \A i \in 1 .. m - 1 : i \in 1 .. m
        BY <1>1
      <4> QED BY <4>2, <4>3, <4>4
    <3>6. CASE x > Len(p)
      <4>1. x \in Len(p) + 1 .. Len(p) + Len(q) /\ x - Len(p) \in 1 .. Len(q)
        BY <3>3, <3>4, <3>6
      <4>2. g[m][x] = q[x - Len(p)]
        BY <3>3, <4>1, Concatenated
      <4>3. m \in 1 .. m
        BY <1>1
      <4> QED BY <4>1, <4>2, <4>3 DEF q
    <3> QED BY <3>3, <3>4, <3>5, <3>6
  <2> QED BY <2>1, <2>2
<1> HIDE DEF T, N
<1>5. \A m \in 0 .. N : m \in T
  BY <1>1, <1>3, <1>4, UpTo
<1>6. n \in 0 .. N /\ n # 0
  BY <1>1 DEF N
<1>7. From(n, g[n][k])
  BY <1>5, <1>6 DEF T, g
<1> QED BY <1>7 DEF g, IsFrom

LEMMA JoinedPlace ==
  ASSUME NEW X, NEW ss \in Seq(Seq(X)), ss # <<>>, NEW i \in 1 .. Len(ss),
         NEW n \in i .. Len(ss), NEW k \in 1 .. Len(Joined(ss)[i])
  PROVE  k \in 1 .. Len(Joined(ss)[n]) /\ Joined(ss)[n][k] = Joined(ss)[i][k]
<1> DEFINE N == Len(ss)
           g == Joined(ss)
           T == {m \in 0 .. N : m >= i => k \in 1 .. Len(g[m]) /\ g[m][k] = g[i][k]}
<1>1. N \in Nat /\ N >= 1 /\ g \in [1 .. N -> Seq(X)] /\ JoinedFrom(g, ss)
  BY JoinedStep
<1>2. \A j \in 1 .. N : ss[j] \in Seq(X)
  OBVIOUS
<1>3. k \in 1 .. Len(g[i]) /\ i \in 1 .. N /\ n \in 0 .. N /\ n >= i
  BY <1>1
<1> HIDE DEF g, N
<1>4. 0 \in T
  BY <1>1, <1>3
<1>5. ASSUME NEW m \in 1 .. N, m - 1 \in T PROVE m \in T
  <2> SUFFICES ASSUME m >= i PROVE k \in 1 .. Len(g[m]) /\ g[m][k] = g[i][k]
    BY <1>1
  <2>1. CASE m = i
    BY <2>1, <1>3
  <2>2. CASE m # i
    <3>1. m \in 2 .. N /\ m - 1 \in 1 .. N /\ m - 1 >= i
      BY <1>1, <1>3, <2>2
    <3>2. g[m] = g[m - 1] \o ss[m] /\ g[m - 1] \in Seq(X) /\ ss[m] \in Seq(X)
      BY <1>1, <1>2, <3>1 DEF JoinedFrom, N
    <3>3. k \in 1 .. Len(g[m - 1]) /\ g[m - 1][k] = g[i][k]
      BY <1>5, <3>1
    <3> DEFINE p == g[m - 1]
               q == ss[m]
    <3>4. p \in Seq(X) /\ q \in Seq(X) /\ g[m] = p \o q /\ k \in 1 .. Len(p)
      BY <3>2, <3>3
    <3> HIDE DEF p, q
    <3>5. Len(p \o q) = Len(p) + Len(q) /\ Len(p) \in Nat /\ Len(q) \in Nat
      BY <3>4, Concatenated
    <3>6. g[m][k] = p[k]
      BY <3>4, Concatenated
    <3>7. k \in 1 .. Len(g[m])
      BY <3>4, <3>5
    <3> QED BY <3>3, <3>6, <3>7 DEF p
  <2> QED BY <2>1, <2>2
<1> HIDE DEF T
<1>6. n \in T
  <2>1. \A m \in 0 .. N : m \in T
    BY <1>1, <1>4, <1>5, UpTo
  <2> QED BY <2>1, <1>3
<1> QED BY <1>3, <1>6 DEF T, g

\* The texts of what is joined are the texts, joined.
LEMMA FlattenTexts ==
  ASSUME NEW X, NEW ss \in Seq(Seq(X))
  PROVE  Texts(FlattenSeq(ss)) = FlattenSeq([i \in DOMAIN ss |-> Texts(ss[i])])
<1> DEFINE Y == {x.text : x \in X}
           N == Len(ss)
           g == Joined(ss)
           tt == [i \in DOMAIN ss |-> Texts(ss[i])]
           h == Joined(tt)
<1>1. \A s \in Seq(X) : Texts(s) \in Seq(Y) /\ Len(Texts(s)) = Len(s)
  BY DEF Texts
<1>2. N \in Nat /\ \A i \in 1 .. N : ss[i] \in Seq(X)
  OBVIOUS
<1>3. tt \in Seq(Seq(Y)) /\ Len(tt) = N /\ \A i \in 1 .. N : tt[i] = Texts(ss[i])
  <2>1. DOMAIN ss = 1 .. N
    OBVIOUS
  <2>2. \A i \in 1 .. N : Texts(ss[i]) \in Seq(Y)
    BY <1>1, <1>2
  <2> HIDE DEF Y, N
  <2> QED BY <1>2, <2>1, <2>2
<1>4. CASE ss = <<>>
  <2>1. tt = <<>>
    BY <1>4
  <2>2. FlattenSeq(ss) = <<>> /\ FlattenSeq(tt) = <<>>
    BY <1>3, <1>4, <2>1, FlattenType
  <2> QED BY <2>2 DEF Texts
<1>5. CASE ss # <<>>
  <2>1. N >= 1 /\ g \in [1 .. N -> Seq(X)] /\ JoinedFrom(g, ss) /\ FlattenSeq(ss) = g[N]
    BY <1>5, JoinedStep
  <2>2. tt # <<>>
    BY <1>2, <1>3, <2>1
  <2>3. h \in [1 .. N -> Seq(Y)] /\ JoinedFrom(h, tt) /\ FlattenSeq(tt) = h[N]
    <3> HIDE DEF tt, Y, N
    <3> QED BY <1>3, <2>2, JoinedStep
  <2> DEFINE T == {n \in 0 .. N : n # 0 => h[n] = Texts(g[n])}
  <2> HIDE DEF g, h, tt, N, Y
  <2>4. 0 \in T
    BY <1>2
  <2>5. ASSUME NEW n \in 1 .. N, n - 1 \in T PROVE n \in T
    <3>1. n = 1 => h[n] = Texts(g[n])
      BY <1>3, <2>1, <2>3 DEF JoinedFrom
    <3>2. ASSUME n # 1 PROVE h[n] = Texts(g[n])
      <4>1. n \in 2 .. N /\ n - 1 \in 1 .. N /\ n - 1 # 0
        BY <3>2, <1>2
      <4>2. g[n] = g[n - 1] \o ss[n] /\ h[n] = h[n - 1] \o tt[n]
        BY <4>1, <1>3, <2>1, <2>3 DEF JoinedFrom, N
      <4>3. h[n - 1] = Texts(g[n - 1]) /\ tt[n] = Texts(ss[n])
        BY <4>1, <2>5, <1>3
      <4>4. g[n - 1] \in Seq(X) /\ ss[n] \in Seq(X)
        BY <4>1, <1>2, <2>1
      <4>5. Texts(g[n - 1] \o ss[n]) = Texts(g[n - 1]) \o Texts(ss[n])
        BY <4>4, TextsJoined
      <4> QED BY <4>2, <4>3, <4>5
    <3> QED BY <1>2, <3>1, <3>2
  <2> HIDE DEF T
  <2>6. \A n \in 0 .. N : n \in T
    BY <1>2, <2>4, <2>5, UpTo
  <2>7. N \in 0 .. N /\ N # 0
    BY <1>2, <2>1
  <2>8. h[N] = Texts(g[N])
    BY <2>6, <2>7 DEF T
  <2>9. FlattenSeq(tt) = Texts(FlattenSeq(ss))
    BY <2>1, <2>3, <2>8
  <2> QED BY <2>9 DEF tt
<1> QED BY <1>4, <1>5

\* What Only picks is of the sequence and of the set, and what comes first stays first.
LEMMA OnlyRange ==
  ASSUME NEW X, NEW s \in Seq(X), NEW S
  PROVE  Only(s, S) \in Seq(X \cap S)
<1> DEFINE N == Len(s)
           g == Picked(s, S)
           Y == X \cap S
           T == {n \in 0 .. N : g[n] \in Seq(Y)}
<1>1. N \in Nat /\ \A n \in 1 .. N : s[n] \in X
  OBVIOUS
<1>2. g[0] = <<>> /\ Only(s, S) = g[N]
      /\ \A n \in 1 .. N : g[n] = IF s[n] \in S THEN Append(g[n - 1], s[n]) ELSE g[n - 1]
  BY PickedStep DEF PickedFrom
<1> HIDE DEF g
<1>3. 0 \in T
  <2>1. <<>> \in Seq(Y) /\ 0 \in 0 .. N
    BY <1>1
  <2> QED BY <1>2, <2>1
<1>4. ASSUME NEW n \in 1 .. N, n - 1 \in T PROVE n \in T
  <2>1. g[n - 1] \in Seq(Y) /\ n \in 0 .. N
    BY <1>1, <1>4
  <2>2. s[n] \in S => s[n] \in Y
    BY <1>1
  <2> HIDE DEF Y
  <2>3. \A q \in Seq(Y), x \in Y : Append(q, x) \in Seq(Y)
    OBVIOUS
  <2>4. g[n] \in Seq(Y)
    BY <1>2, <2>1, <2>2, <2>3
  <2> QED BY <2>1, <2>4
<1> HIDE DEF T, N
<1>5. \A n \in 0 .. N : n \in T
  BY <1>1, <1>3, <1>4, UpTo
<1>6. N \in T
  BY <1>1, <1>5
<1> QED BY <1>2, <1>6 DEF T

LEMMA OnlyFirst ==
  ASSUME NEW X, NEW s \in Seq(X), NEW S
  PROVE  /\ (\A k \in 1 .. Len(s) : s[k] \notin S) => Only(s, S) = <<>>
         /\ \A k \in 1 .. Len(s) :
              s[k] \in S /\ (\A m \in 1 .. k - 1 : s[m] \notin S)
                => Only(s, S) # <<>> /\ Only(s, S)[1] = s[k]
<1> DEFINE N == Len(s)
           g == Picked(s, S)
<1>1. N \in Nat /\ \A n \in 1 .. N : s[n] \in X
  OBVIOUS
<1>2. g[0] = <<>> /\ Only(s, S) = g[N] /\ g \in [0 .. N -> Seq(X)]
      /\ \A n \in 1 .. N : g[n] = IF s[n] \in S THEN Append(g[n - 1], s[n]) ELSE g[n - 1]
  BY PickedStep DEF PickedFrom
<1> HIDE DEF g, N
<1>3. ASSUME \A k \in 1 .. N : s[k] \notin S PROVE Only(s, S) = <<>>
  <2> DEFINE T == {n \in 0 .. N : g[n] = <<>>}
  <2>1. 0 \in T
    BY <1>1, <1>2
  <2>2. ASSUME NEW n \in 1 .. N, n - 1 \in T PROVE n \in T
    <3>1. g[n - 1] = <<>> /\ n \in 0 .. N
      BY <1>1, <2>2
    <3>2. g[n] = g[n - 1]
      BY <1>2, <1>3
    <3> QED BY <3>1, <3>2
  <2> HIDE DEF T
  <2>3. \A n \in 0 .. N : n \in T
    BY <1>1, <2>1, <2>2, UpTo
  <2>4. N \in T
    BY <1>1, <2>3
  <2> QED BY <1>2, <2>4 DEF T
<1>4. ASSUME NEW k \in 1 .. N, s[k] \in S, \A m \in 1 .. k - 1 : s[m] \notin S
      PROVE  Only(s, S) # <<>> /\ Only(s, S)[1] = s[k]
  <2> DEFINE T == {n \in 0 .. N : IF n < k THEN g[n] = <<>> ELSE Len(g[n]) >= 1 /\ g[n][1] = s[k]}
  <2>1. 0 \in T
    BY <1>1, <1>2
  <2>2. ASSUME NEW n \in 1 .. N, n - 1 \in T PROVE n \in T
    <3>0. n \in 0 .. N /\ n - 1 \in 0 .. N /\ g[n - 1] \in Seq(X) /\ s[n] \in X
      BY <1>1, <1>2
    <3>1. CASE n < k
      <4>1. n - 1 < k /\ n \in 1 .. k - 1
        BY <1>1, <3>1
      <4> QED BY <1>2, <1>4, <2>2, <3>0, <3>1, <4>1
    <3>2. CASE n = k
      <4>1. g[n - 1] = <<>>
        BY <1>1, <2>2, <3>2
      <4>2. g[n] = Append(<<>>, s[n])
        BY <1>2, <1>4, <3>2, <4>1
      <4>3. Len(g[n]) = 1 /\ g[n][1] = s[n]
        BY <4>2
      <4> QED BY <3>0, <3>2, <4>3
    <3>3. CASE n > k
      <4>1. Len(g[n - 1]) >= 1 /\ g[n - 1][1] = s[k]
        BY <1>1, <2>2, <3>3
      <4>2. \A x \in X : Len(Append(g[n - 1], x)) >= 1 /\ Append(g[n - 1], x)[1] = s[k]
        BY <3>0, <4>1
      <4>3. Len(g[n]) >= 1 /\ g[n][1] = s[k]
        BY <1>2, <3>0, <4>1, <4>2
      <4> QED BY <1>1, <3>0, <3>3, <4>3
    <3> QED BY <1>1, <3>1, <3>2, <3>3
  <2> HIDE DEF T
  <2>3. \A n \in 0 .. N : n \in T
    BY <1>1, <2>1, <2>2, UpTo
  <2>4. N \in T /\ N >= k
    BY <1>1, <2>3
  <2>5. Len(g[N]) >= 1 /\ g[N][1] = s[k]
    BY <1>1, <2>4 DEF T
  <2> QED BY <1>2, <2>5
<1> QED BY <1>3, <1>4 DEF N

LEMMA PickedSkips ==
  ASSUME NEW X, NEW s \in Seq(X), NEW S, NEW n \in 0 .. Len(s), NEW k \in n .. Len(s),
         \A j \in n + 1 .. k : s[j] \notin S
  PROVE  Picked(s, S)[k] = Picked(s, S)[n]
<1> DEFINE N == Len(s)
           g == Picked(s, S)
           T == {m \in 0 .. N : n <= m /\ m <= k => g[m] = g[n]}
<1>1. N \in Nat /\ n \in 0 .. N /\ k \in n .. N
  OBVIOUS
<1>2. \A m \in 1 .. N : g[m] = IF s[m] \in S THEN Append(g[m - 1], s[m]) ELSE g[m - 1]
  BY PickedStep DEF PickedFrom
<1> HIDE DEF g, N
<1>3. 0 \in T
  BY <1>1
<1>4. ASSUME NEW m \in 1 .. N, m - 1 \in T PROVE m \in T
  <2>1. CASE n < m /\ m <= k
    <3>1. m \in n + 1 .. k /\ n <= m - 1 /\ m - 1 <= k
      BY <1>1, <2>1
    <3>2. g[m] = g[m - 1] /\ g[m - 1] = g[n]
      BY <1>2, <1>4, <3>1
    <3> QED BY <1>1, <3>2
  <2>2. CASE m = n
    BY <1>1, <2>2
  <2>3. CASE ~(n <= m /\ m <= k)
    BY <1>1, <2>3
  <2> QED BY <1>1, <2>1, <2>2, <2>3
<1> HIDE DEF T
<1>5. \A m \in 0 .. N : m \in T
  BY <1>1, <1>3, <1>4, UpTo
<1>6. k \in T /\ n <= k
  BY <1>1, <1>5
<1> QED BY <1>1, <1>6 DEF T, g

\* The first of some rules exists and is unique.
LEMMA FirstExists ==
  ASSUME NEW R \in SUBSET (Nat \X Nat), R # {}
  PROVE  FirstOf(R) \in R /\ \A y \in R : Before(FirstOf(R), y)
<1> DEFINE I == {x[1] : x \in R}
<1>1. I \in SUBSET Nat /\ I # {}
  OBVIOUS
<1>2. PICK i \in I : \A m \in I : i <= m
  <2> HIDE DEF I
  <2> QED BY <1>1, Smallest
<1> DEFINE J == {x[2] : x \in {y \in R : y[1] = i}}
<1>3. J \in SUBSET Nat /\ J # {}
  BY <1>2
<1>4. PICK j \in J : \A m \in J : j <= m
  <2> HIDE DEF J
  <2> QED BY <1>3, Smallest
<1>5. PICK x \in R : x[1] = i /\ x[2] = j
  BY <1>4
<1>6. ASSUME NEW y \in R PROVE Before(x, y)
  <2>1. y[1] \in I /\ y[1] \in Nat /\ y[2] \in Nat /\ i \in Nat /\ j \in Nat
    BY <1>1, <1>2, <1>3, <1>4
  <2>2. i <= y[1] /\ (y[1] = i => j <= y[2])
    BY <1>2, <1>4, <2>1
  <2> QED BY <1>5, <2>1, <2>2 DEF Before
<1> HIDE DEF I, J
<1>7. \E z \in R : \A y \in R : Before(z, y)
  BY <1>6
<1> QED BY <1>7 DEF FirstOf

LEMMA Largest ==
  ASSUME NEW N \in Nat, NEW S \in SUBSET (1 .. N), S # {}
  PROVE  \E n \in S : \A m \in S : m <= n
<1> DEFINE D == {N - n : n \in S}
<1>1. D \in SUBSET Nat /\ D # {}
  <2>1. \A n \in S : N - n \in Nat
    OBVIOUS
  <2>2. \A d \in D : d \in Nat
    BY <2>1
  <2> QED BY <2>2
<1>2. PICK d \in D : \A m \in D : d <= m
  <2> HIDE DEF D
  <2> QED BY <1>1, Smallest
<1>3. PICK n \in S : d = N - n
  BY <1>2
<1>4. ASSUME NEW m \in S PROVE m <= n
  <2>1. N - n <= N - m /\ n \in Nat /\ m \in Nat
    BY <1>2, <1>3
  <2> QED BY <2>1
<1> QED BY <1>4

-----------------------------------------------------------------------------
(* Parameters.                                                             *)

LEMMA ResolveNames ==
  ASSUME NEW defs, NEW values, ResolveParams(defs, values) # Rejected
  PROVE  DOMAIN ResolveParams(defs, values) = {d.name : d \in Range(defs)}
BY DEF ResolveParams

LEMMA ResolveSame ==
  ASSUME NEW defs, NEW v, NEW w, DOMAIN v = DOMAIN w, \A n \in DOMAIN v : v[n] = w[n]
  PROVE  ResolveParams(defs, v) = ResolveParams(defs, w)
<1> DEFINE default(d) == IF d.default = Nothing THEN ZeroByType[d.type]
                         ELSE NormalizeValue(d.type, d.default)
           value(u, d) == IF d.name \in DOMAIN u THEN NormalizeValue(d.type, u[d.name])
                          ELSE default(d)
           Result(u) == IF \E d \in Range(defs) : Rejected \in {default(d), value(u, d)}
                          THEN Rejected
                          ELSE [n \in {d.name : d \in Range(defs)} |->
                                  value(u, CHOOSE d \in Range(defs) : d.name = n)]
<1>1. ResolveParams(defs, v) = Result(v) /\ ResolveParams(defs, w) = Result(w)
  BY DEF ResolveParams
<1> HIDE DEF default
<1>2. \A d : value(v, d) = value(w, d)
  OBVIOUS
<1> HIDE DEF value
<1>3. (\E d \in Range(defs) : Rejected \in {default(d), value(v, d)})
        <=> (\E d \in Range(defs) : Rejected \in {default(d), value(w, d)})
  BY <1>2
<1>4. [n \in {d.name : d \in Range(defs)} |-> value(v, CHOOSE d \in Range(defs) : d.name = n)]
        = [n \in {d.name : d \in Range(defs)} |-> value(w, CHOOSE d \in Range(defs) : d.name = n)]
  BY <1>2
<1>5. Result(v) = Result(w)
  BY <1>3, <1>4
<1> QED BY <1>1, <1>5

\* Without overrides of its own a tenant has everybody's parameters.
LEMMA NoOverrides ==
  ASSUME NEW a
  PROVE  ParamsFor(a, <<>>) = Params(a)
<1> DEFINE o == Overrides(Global, a.id)
           m == Merged(<<>>, o)
<1>1. DOMAIN <<>> = {}
  OBVIOUS
<1> HIDE DEF o
<1>2. DOMAIN m = DOMAIN o /\ \A n \in DOMAIN o : m[n] = o[n]
  BY <1>1 DEF Merged
<1> HIDE DEF m
<1>3. ResolveParams(a.defs, m) = ResolveParams(a.defs, o)
  BY <1>2, ResolveSame
<1> QED BY <1>3 DEF ParamsFor, Params, o, m

-----------------------------------------------------------------------------
(* What holds of the pages under way.                                      *)

\* Addons that may be in a list in use.
Installable == {a \in UNION {Range(l) : l \in Lists} : Params(a) # Rejected}

ListsInstalled == gen \in Seq(Seq(Installable)) /\ gen # <<>>

Place(g, i, j) == g \in DOMAIN gen /\ i \in DOMAIN gen[g] /\ j \in DOMAIN gen[g][i].rules

\* c is what a rule shows with parameters the tenant may have been shown ...
IsKnown(g, i, j, t, c) == \E p \in Known(t) : c = RenderResource(Rule(g, i, j), p)

\* ... and with those its list gives the tenant.
IsCurrent(g, i, j, t, c) == c = RenderResource(Rule(g, i, j), InForce(Addon(g, i), t))

\* No request of the tenant rendered rules of the list with an older context.
InStep(g, t) == <<g, t>> \notin straddled /\ DistinctIds(gen[g])

\* What a rule keeps for a tenant, or gives it.
ContentIsRight(g, i, j, t, c) ==
  IsKnown(g, i, j, t, c) /\ (InStep(g, t) => IsCurrent(g, i, j, t, c))

KeptRight ==
  \A c \in kept :
    Place(c.gen, c.addon, c.rule) /\ ContentIsRight(c.gen, c.addon, c.rule, c.tenant, c.content)

Renderings(g, t) ==
  UNION {{RenderResource(rule, p) : p \in Known(t)} :
           rule \in UNION {Range(a.rules) : a \in Range(gen[g])}}

CurrentRenderings(g, t) ==
  UNION {{RenderResource(rule, InForce(a, t)) : rule \in Range(a.rules)} : a \in Range(gen[g])}

Injecting(rules) == {x \in Range(rules) : x.action = "inject"}

\* Addon i has been gone through up to rule n.
Progress(q, i, n) ==
  LET a == gen[q.list][i]
  IN /\ \A j \in DOMAIN a.rules :
          <<i, j>> \in q.todo <=> j > n /\ a.rules[j].action = "inject" /\ Allowed(a, q.tenant)
     /\ Texts(q.found[i]) = IF Allowed(a, q.tenant)
                              THEN Texts(Picked(a.rules, Injecting(a.rules))[n]) ELSE <<>>

\* The tenant's page was not replaced by a list in use between the context and up.
Unreplaced(q, upto) == \E h \in q.context .. upto : ReplacedBy(gen[h], q.tenant) = <<>>

RightParams(q, contents) ==
  /\ contents \in Seq(Renderings(q.list, q.tenant))
  /\ q.context = q.list /\ InStep(q.list, q.tenant)
       => contents \in Seq(CurrentRenderings(q.list, q.tenant))

\* A request that is being served from a list.
Rendering(q) ==
  /\ Unreplaced(q, q.list)
  /\ q.todo \subseteq Matching(gen[q.list], {"inject"})
  /\ q.found = [i \in DOMAIN gen[q.list] |-> q.found[i]]
  /\ \A i \in DOMAIN gen[q.list] :
       RightParams(q, q.found[i]) /\ \E n \in 0 .. Len(gen[q.list][i].rules) : Progress(q, i, n)

\* The first conjunct of OwnPage, for one request.
OwnTexts(q) ==
  \/ Texts(q.page) = ReplacedBy(gen[q.list], q.tenant) /\ Texts(q.page) # <<>>
  \/ Texts(q.page) = InjectedBy(gen[q.list], q.tenant) /\ Unreplaced(q, q.list)

Fields == {"pc", "tenant", "context", "list", "todo", "found", "page"}

RequestRight(q) ==
  /\ DOMAIN q = Fields
  /\ q.pc \in {"idle", "context", "replace", "match", "render", "done"}
  /\ q.pc # "idle" => q.tenant \in Ids \cup {Visitor}
  /\ q.pc \notin {"idle", "context"} => q.context \in 1 .. Len(gen)
  /\ q.pc = "match" => Unreplaced(q, Len(gen))
  /\ q.pc \in {"render", "done"} => q.list \in q.context .. Len(gen)
  /\ q.pc = "render" => Rendering(q)
  /\ q.pc = "done" => OwnTexts(q) /\ RightParams(q, q.page)

PageInv ==
  /\ ListsInstalled /\ KeptRight
  /\ DOMAIN req = Requests
  /\ \A q \in Range(req) : RequestRight(q)

LEMMA InstallableFacts ==
  ASSUME NEW a \in Installable
  PROVE  /\ a.rules \in Seq(Range(a.rules)) /\ Len(a.rules) \in Nat
         /\ DOMAIN a.rules = 1 .. Len(a.rules)
         /\ Params(a) # Rejected
         /\ \A t \in Ids : OwnParams(a, t) # Nothing
<1>1. PICK l \in Lists : a \in Range(l)
  BY DEF Installable
<1>2. a.rules \in Seq(Range(a.rules))
  BY <1>1, ListsAssumption
<1> QED BY <1>1, <1>2, NothingAssumption DEF Installable

LEMMA LoadedList ==
  ASSUME NEW l \in Lists
  PROVE  LoadAddons(l) \in Seq(Installable)
<1> DEFINE X == Range(l)
           S == {a \in X : Params(a) # Rejected}
<1>1. l \in Seq(X)
  BY ListsAssumption
<1>2. X \cap S \subseteq Installable
  BY DEF Installable
<1>3. Only(l, S) \in Seq(X \cap S)
  <2> HIDE DEF X, S
  <2> QED BY <1>1, OnlyRange
<1> QED BY <1>2, <1>3 DEF LoadAddons

LEMMA ListFacts ==
  ASSUME ListsInstalled
  PROVE  /\ Len(gen) \in Nat /\ Len(gen) >= 1 /\ DOMAIN gen = 1 .. Len(gen)
         /\ \A g \in 1 .. Len(gen) :
              /\ gen[g] \in Seq(Installable) /\ Len(gen[g]) \in Nat
              /\ DOMAIN gen[g] = 1 .. Len(gen[g])
              /\ \A i \in DOMAIN gen[g] : gen[g][i] \in Installable
BY DEF ListsInstalled

-----------------------------------------------------------------------------
(* What a step of one request leaves of the others.                        *)

Grows ==
  /\ ListsInstalled /\ ListsInstalled'
  /\ Len(gen) <= Len(gen') /\ \A h \in 1 .. Len(gen) : gen'[h] = gen[h]
  /\ straddled \subseteq straddled'

LEMMA KnownGrows ==
  ASSUME Grows, NEW t
  PROVE  Known(t) \subseteq Known(t)'
<1>1. \A h \in DOMAIN gen : h \in DOMAIN gen' /\ gen'[h] = gen[h]
  <2>1. DOMAIN gen = 1 .. Len(gen) /\ Len(gen) \in Nat
    BY ListFacts DEF Grows
  <2>2. DOMAIN gen' = 1 .. Len(gen') /\ Len(gen') \in Nat
    BY ListFacts DEF Grows, ListsInstalled
  <2> QED BY <2>1, <2>2 DEF Grows
<1> DEFINE by(l) == {OwnParams(a, t) : a \in IF t = Visitor THEN {} ELSE Range(l)}
                      \cup {Params(a) : a \in Range(l)}
<1>2. Known(t) = (UNION {by(gen[h]) : h \in DOMAIN gen}) \ {Rejected}
  BY DEF Known
<1>3. Known(t)' = (UNION {by(gen'[h]) : h \in DOMAIN gen'}) \ {Rejected}
  BY DEF Known
<1> HIDE DEF by
<1> QED BY <1>1, <1>2, <1>3

LEMMA RenderingsGrow ==
  ASSUME Grows, NEW g \in 1 .. Len(gen), NEW t
  PROVE  /\ g \in 1 .. Len(gen') /\ gen'[g] = gen[g]
         /\ Renderings(g, t) \subseteq Renderings(g, t)'
         /\ CurrentRenderings(g, t)' = CurrentRenderings(g, t)
         /\ InStep(g, t)' => InStep(g, t)
<1>1. g \in 1 .. Len(gen') /\ gen'[g] = gen[g]
  <2>1. Len(gen) \in Nat
    BY ListFacts DEF Grows
  <2>2. Len(gen') \in Nat
    BY DEF Grows, ListsInstalled
  <2> QED BY <2>1, <2>2 DEF Grows
<1>2. Known(t) \subseteq Known(t)'
  BY KnownGrows
<1>3. Renderings(g, t) \subseteq Renderings(g, t)'
  BY <1>1, <1>2 DEF Renderings
<1>4. CurrentRenderings(g, t)' = CurrentRenderings(g, t)
  BY <1>1 DEF CurrentRenderings
<1>5. InStep(g, t)' => InStep(g, t)
  BY <1>1 DEF InStep, Grows
<1> QED BY <1>1, <1>3, <1>4, <1>5

LEMMA RightParamsKept ==
  ASSUME Grows, NEW q, q.list \in 1 .. Len(gen), NEW contents, RightParams(q, contents)
  PROVE  RightParams(q, contents)'
<1> DEFINE A == Renderings(q.list, q.tenant)
           B == Renderings(q.list, q.tenant)'
<1>1. A \subseteq B /\ contents \in Seq(A)
  BY RenderingsGrow DEF RightParams
<1> HIDE DEF A, B
<1>2. contents \in Seq(B)
  BY <1>1
<1>3. /\ CurrentRenderings(q.list, q.tenant)' = CurrentRenderings(q.list, q.tenant)
      /\ InStep(q.list, q.tenant)' => InStep(q.list, q.tenant)
  BY RenderingsGrow
<1> QED BY <1>2, <1>3 DEF RightParams, B

LEMMA RequestKept ==
  ASSUME Grows, NEW q, RequestRight(q)
  PROVE  RequestRight(q)'
<1>1. Len(gen) \in Nat /\ Len(gen') \in Nat /\ Len(gen) <= Len(gen')
  BY ListFacts DEF Grows, ListsInstalled
<1>2. q.pc = "match" => Unreplaced(q, Len(gen))'
  <2> SUFFICES ASSUME q.pc = "match" PROVE Unreplaced(q, Len(gen))'
    OBVIOUS
  <2>1. Unreplaced(q, Len(gen)) /\ q.context \in 1 .. Len(gen)
    BY DEF RequestRight
  <2>2. PICK h \in q.context .. Len(gen) : ReplacedBy(gen[h], q.tenant) = <<>>
    BY <2>1 DEF Unreplaced
  <2>3. h \in 1 .. Len(gen) /\ h \in q.context .. Len(gen')
    BY <1>1, <2>1
  <2>4. ReplacedBy(gen'[h], q.tenant) = <<>>
    BY <2>2, <2>3 DEF Grows
  <2> QED BY <2>3, <2>4 DEF Unreplaced
<1>3. q.pc \in {"render", "done"} =>
        /\ q.context \in 1 .. Len(gen) /\ q.list \in q.context .. Len(gen) /\ q.list \in 1 .. Len(gen)
        /\ \A h \in q.context .. q.list : gen'[h] = gen[h]
  <2> SUFFICES ASSUME q.pc \in {"render", "done"}
               PROVE  /\ q.context \in 1 .. Len(gen) /\ q.list \in q.context .. Len(gen)
                      /\ q.list \in 1 .. Len(gen)
                      /\ \A h \in q.context .. q.list : gen'[h] = gen[h]
    OBVIOUS
  <2>1. q.context \in 1 .. Len(gen) /\ q.list \in q.context .. Len(gen)
    BY DEF RequestRight
  <2>2. \A h \in q.context .. q.list : h \in 1 .. Len(gen)
    BY <1>1, <2>1
  <2> QED BY <1>1, <2>1, <2>2 DEF Grows
<1>4. ASSUME q.pc = "render" PROVE Rendering(q)'
  <2>1. Rendering(q) /\ q.list \in 1 .. Len(gen) /\ q.context \in 1 .. Len(gen)
        /\ gen'[q.list] = gen[q.list]
    BY <1>1, <1>3, <1>4 DEF RequestRight
  <2>2. Unreplaced(q, q.list)'
    <3>1. \E h \in q.context .. q.list : ReplacedBy(gen[h], q.tenant) = <<>>
      BY <2>1 DEF Rendering, Unreplaced
    <3>2. \E h \in q.context .. q.list : ReplacedBy(gen'[h], q.tenant) = <<>>
      BY <1>3, <1>4, <3>1
    <3> QED BY <3>2 DEF Unreplaced
  <2>3. /\ q.todo \subseteq Matching(gen'[q.list], {"inject"})
        /\ q.found = [i \in DOMAIN gen'[q.list] |-> q.found[i]]
    BY <2>1 DEF Rendering
  <2>4. \A i \in DOMAIN gen'[q.list] :
          /\ RightParams(q, q.found[i])'
          /\ \E n \in 0 .. Len(gen'[q.list][i].rules) : Progress(q, i, n)'
    <3> SUFFICES ASSUME NEW i \in DOMAIN gen[q.list]
                 PROVE  /\ RightParams(q, q.found[i])'
                        /\ \E n \in 0 .. Len(gen[q.list][i].rules) : Progress(q, i, n)'
      BY <2>1
    <3>1. RightParams(q, q.found[i])'
      BY <2>1, RightParamsKept DEF Rendering
    <3>2. PICK n \in 0 .. Len(gen[q.list][i].rules) : Progress(q, i, n)
      BY <2>1 DEF Rendering
    <3>3. Progress(q, i, n)'
      BY <2>1, <3>2 DEF Progress
    <3> QED BY <3>1, <3>3
  <2> QED BY <2>2, <2>3, <2>4 DEF Rendering
<1>5. ASSUME q.pc = "done" PROVE OwnTexts(q)' /\ RightParams(q, q.page)'
  <2>1. OwnTexts(q) /\ RightParams(q, q.page) /\ q.list \in 1 .. Len(gen)
    BY <1>3, <1>5 DEF RequestRight
  <2>2. OwnTexts(q)'
    <3>1. q.list \in q.context .. q.list
      BY <1>1, <1>3, <1>5
    <3>2. gen'[q.list] = gen[q.list] /\ \A h \in q.context .. q.list : gen'[h] = gen[h]
      BY <1>3, <1>5, <3>1
    <3> QED BY <2>1, <3>2 DEF OwnTexts, Unreplaced
  <2> QED BY <2>1, <2>2, RightParamsKept
<1>6. q.pc \notin {"idle", "context"} => q.context \in 1 .. Len(gen')
  BY <1>1 DEF RequestRight
<1>7. q.pc \in {"render", "done"} => q.list \in q.context .. Len(gen')
  BY <1>1, <1>3
<1> QED BY <1>2, <1>4, <1>5, <1>6, <1>7 DEF RequestRight

LEMMA EntryKept ==
  ASSUME Grows, NEW g, NEW i, NEW j, NEW t, NEW c, Place(g, i, j), ContentIsRight(g, i, j, t, c)
  PROVE  Place(g, i, j)' /\ ContentIsRight(g, i, j, t, c)'
<1>1. g \in 1 .. Len(gen)
  BY ListFacts DEF Place, Grows
<1>2. g \in 1 .. Len(gen') /\ gen'[g] = gen[g] /\ (InStep(g, t)' => InStep(g, t))
  BY <1>1, RenderingsGrow
<1>3. Place(g, i, j)'
  BY <1>2 DEF Place, Grows, ListsInstalled
<1>4. IsKnown(g, i, j, t, c)'
  BY <1>2, KnownGrows DEF ContentIsRight, IsKnown, Rule, Addon
<1>5. InStep(g, t)' => IsCurrent(g, i, j, t, c)'
  BY <1>2 DEF ContentIsRight, IsCurrent, Rule, Addon
<1> QED BY <1>3, <1>4, <1>5 DEF ContentIsRight

LEMMA KeptStays ==
  ASSUME Grows, KeptRight, kept' = kept
  PROVE  KeptRight'
BY EntryKept DEF KeptRight

LEMMA KnownMembers ==
  ASSUME NEW h \in DOMAIN gen, NEW a \in Range(gen[h]), NEW t
  PROVE  /\ Params(a) # Rejected => Params(a) \in Known(t)
         /\ t # Visitor /\ OwnParams(a, t) # Rejected => OwnParams(a, t) \in Known(t)
<1> DEFINE by(x) == {OwnParams(b, t) : b \in IF t = Visitor THEN {} ELSE Range(gen[x])}
                      \cup {Params(b) : b \in Range(gen[x])}
<1>1. Known(t) = (UNION {by(x) : x \in DOMAIN gen}) \ {Rejected}
  BY DEF Known
<1>2. Params(a) \in by(h) /\ (t # Visitor => OwnParams(a, t) \in by(h))
  OBVIOUS
<1> HIDE DEF by
<1>3. by(h) \subseteq UNION {by(x) : x \in DOMAIN gen}
  OBVIOUS
<1>4. \A v \in by(h) : v # Rejected => v \in Known(t)
  BY <1>1, <1>3
<1> QED BY <1>2, <1>4

\* A request that was given its context.
HasContext(r) == req[r].tenant \in Ids \cup {Visitor} /\ req[r].context \in 1 .. Len(gen)

LEMMA ContextCases ==
  ASSUME ListsInstalled, NEW r, HasContext(r), NEW id, ContextParams(r, id) # Nothing
  PROVE  /\ req[r].tenant # Visitor /\ ContextParams(r, id) # Rejected
         /\ \E a \in Range(gen[req[r].context]) : ContextParams(r, id) = OwnParams(a, req[r].tenant)
<1> DEFINE t == req[r].tenant
           l == gen[req[r].context]
           of == {i \in DOMAIN l : l[i].id = id}
           overrides == Overrides(Tenants[t].params, id)
           k == CHOOSE i \in of : \A m \in of : m <= i
           p == ParamsFor(l[k], overrides)
<1>1. /\ t # Visitor /\ of # {} /\ overrides # <<>> /\ Includes(r, id)
      /\ p # Rejected /\ ContextParams(r, id) = p
  BY DEF ContextParams
<1>2. Len(l) \in Nat /\ DOMAIN l = 1 .. Len(l)
  BY ListFacts DEF HasContext
<1> HIDE DEF l
<1>3. \E i \in of : \A m \in of : m <= i
  <2>1. of \in SUBSET (1 .. Len(l))
    BY <1>2
  <2> HIDE DEF of
  <2> QED BY <1>1, <1>2, <2>1, Largest
<1>4. k \in of
  <2> HIDE DEF of
  <2> QED BY <1>3
<1>5. l[k] \in Range(l) /\ l[k].id = id
  BY <1>4 DEF Range
<1>6. p = OwnParams(l[k], t)
  BY <1>5 DEF OwnParams
<1> QED BY <1>1, <1>5, <1>6 DEF l

\* With the context from the list that is rendered, the context gives what the list does.
LEMMA ContextHere ==
  ASSUME ListsInstalled, NEW r, HasContext(r), NEW i \in DOMAIN gen[req[r].context],
         DistinctIds(gen[req[r].context]), NEW a, a = gen[req[r].context][i], Includes(r, a.id)
  PROVE  /\ ContextParams(r, a.id) \in {Nothing, <<>>}
              => \A rule : RenderResource(rule, Params(a))
                      = RenderResource(rule, InForce(a, req[r].tenant))
         /\ ~(ContextParams(r, a.id) \in {Nothing, <<>>})
              => ContextParams(r, a.id) = InForce(a, req[r].tenant)
<1> DEFINE t == req[r].tenant
           l == gen[req[r].context]
           of == {k \in DOMAIN l : l[k].id = a.id}
           overrides == Overrides(Tenants[t].params, a.id)
           first == CHOOSE k \in of : \A m \in of : m <= k
           p == ParamsFor(a, overrides)
           P == ContextParams(r, a.id)
<1>1. a \in Installable /\ Len(l) \in Nat /\ DOMAIN l = 1 .. Len(l)
  BY ListFacts DEF HasContext
<1>2. of = {i}
  BY DEF DistinctIds
<1>3. first = i /\ of # {}
  <2>1. i <= i
    BY <1>1
  <2> HIDE DEF of
  <2> QED BY <1>2, <2>1
<1> DEFINE q == ParamsFor(l[first], overrides)
<1>4. /\ t = Visitor \/ overrides = <<>> => P = Nothing
      /\ t # Visitor /\ overrides # <<>> => P = IF p = Rejected THEN Nothing ELSE p
  <2>1. P = IF t = Visitor \/ of = {} \/ overrides = <<>> \/ ~Includes(r, a.id)
              THEN Nothing ELSE IF q = Rejected THEN Nothing ELSE q
    BY DEF ContextParams
  <2>2. q = p
    <3> HIDE DEF first
    <3> QED BY <1>3
  <2> HIDE DEF P, of, p, q, overrides
  <2> QED BY <2>1, <2>2, <1>3
<1>5. p = OwnParams(a, t)
  BY DEF OwnParams
<1>6. t # Visitor => t \in Ids
  BY DEF HasContext
<1> HIDE DEF l, of, first, P
<1>7. CASE t = Visitor
  BY <1>4, <1>7 DEF InForce, P
<1>8. CASE t # Visitor /\ overrides = <<>>
  <2>1. InForce(a, t) = Params(a)
    BY <1>5, <1>8, NoOverrides DEF InForce
  <2> QED BY <1>4, <1>8, <2>1 DEF P
<1>9. CASE t # Visitor /\ overrides # <<>> /\ p = Rejected
  BY <1>4, <1>5, <1>9 DEF InForce, P
<1>10. CASE t # Visitor /\ overrides # <<>> /\ p # Rejected
  <2>1. P = p /\ InForce(a, t) = p /\ p # Nothing
    BY <1>1, <1>4, <1>5, <1>6, <1>10, InstallableFacts DEF InForce
  <2>2. ASSUME p = <<>>, NEW rule PROVE RenderResource(rule, Params(a)) = RenderResource(rule, p)
    <3>1. DOMAIN <<>> = {}
      OBVIOUS
    <3>2. DOMAIN p = {d.name : d \in Range(a.defs)}
      BY <1>10, ResolveNames DEF ParamsFor
    <3>3. DOMAIN Params(a) = {d.name : d \in Range(a.defs)}
      BY <1>1, InstallableFacts, ResolveNames DEF Params
    <3>4. DOMAIN p = {} /\ DOMAIN Params(a) = {}
      BY <2>2, <3>1, <3>2, <3>3
    <3> HIDE DEF p
    <3> QED BY <3>4 DEF RenderResource
  <2> QED BY <2>1, <2>2 DEF P
<1> QED BY <1>7, <1>8, <1>9, <1>10

LEMMA ContentRight ==
  ASSUME ListsInstalled, KeptRight, NEW r, HasContext(r), NEW g, NEW i, NEW j, Place(g, i, j),
         Includes(r, Addon(g, i).id)
  PROVE  /\ IsKnown(g, i, j, req[r].tenant, Content(r, g, i, j))
         /\ req[r].context = g /\ InStep(g, req[r].tenant)
              => IsCurrent(g, i, j, req[r].tenant, Content(r, g, i, j))
<1> DEFINE t == req[r].tenant
           a == Addon(g, i)
           P == ContextParams(r, a.id)
           C == Content(r, g, i, j)
<1>1. g \in 1 .. Len(gen) /\ a = gen[g][i] /\ a \in Installable /\ a \in Range(gen[g])
      /\ DOMAIN gen = 1 .. Len(gen)
  BY ListFacts DEF Place, Addon, Range
<1>2. /\ P \in {Nothing, <<>>} => C = RenderResource(Rule(g, i, j), Params(a))
      /\ ~(P \in {Nothing, <<>>}) =>
           C = IF Entry(g, i, j, t) # {} THEN (CHOOSE c \in Entry(g, i, j, t) : TRUE).content
               ELSE RenderResource(Rule(g, i, j), P)
  BY DEF Content, ResourceContentFor
<1>3. ASSUME req[r].context = g, InStep(g, t)
      PROVE  /\ P \in {Nothing, <<>>}
                  => \A rule : RenderResource(rule, Params(a)) = RenderResource(rule, InForce(a, t))
             /\ ~(P \in {Nothing, <<>>}) => P = InForce(a, t)
  <2>1. DistinctIds(gen[req[r].context]) /\ i \in DOMAIN gen[req[r].context]
        /\ a = gen[req[r].context][i]
    BY <1>1, <1>3 DEF InStep, Place
  <2> HIDE DEF a
  <2> QED BY <2>1, ContextHere DEF a
<1> HIDE DEF a, P, C
<1>4. CASE P \in {Nothing, <<>>}
  <2>1. Params(a) \in Known(t)
    BY <1>1, InstallableFacts, KnownMembers
  <2>2. IsKnown(g, i, j, t, C)
    BY <1>2, <1>4, <2>1 DEF IsKnown
  <2>3. ASSUME req[r].context = g, InStep(g, t) PROVE IsCurrent(g, i, j, t, C)
    BY <1>2, <1>3, <1>4, <2>3 DEF IsCurrent, a
  <2> QED BY <2>2, <2>3 DEF C
<1>5. CASE ~(P \in {Nothing, <<>>}) /\ Entry(g, i, j, t) # {}
  <2>1. PICK c \in Entry(g, i, j, t) : C = c.content
    BY <1>2, <1>5
  <2>2. c \in kept /\ c.gen = g /\ c.addon = i /\ c.rule = j /\ c.tenant = t
    BY DEF Entry
  <2>3. ContentIsRight(g, i, j, t, C)
    BY <2>1, <2>2 DEF KeptRight
  <2> QED BY <2>3 DEF ContentIsRight, C
<1>6. CASE ~(P \in {Nothing, <<>>}) /\ Entry(g, i, j, t) = {}
  <2>1. C = RenderResource(Rule(g, i, j), P)
    BY <1>2, <1>6
  <2>2. t # Visitor /\ P # Rejected /\ \E b \in Range(gen[req[r].context]) : P = OwnParams(b, t)
    BY <1>6, ContextCases DEF P
  <2>3. P \in Known(t)
    <3>1. req[r].context \in DOMAIN gen
      BY <1>1 DEF HasContext
    <3> QED BY <2>2, <3>1, KnownMembers
  <2>4. IsKnown(g, i, j, t, C)
    BY <2>1, <2>3 DEF IsKnown
  <2>5. ASSUME req[r].context = g, InStep(g, t) PROVE IsCurrent(g, i, j, t, C)
    BY <1>3, <1>6, <2>1, <2>5 DEF IsCurrent, a
  <2> QED BY <2>4, <2>5 DEF C
<1> QED BY <1>4, <1>5, <1>6

\* Rendering keeps what the rules keep right.
LEMMA RendersRight ==
  ASSUME ListsInstalled, KeptRight, NEW r, HasContext(r), NEW g, NEW i, NEW j, Place(g, i, j),
         Includes(r, Addon(g, i).id), Renders(r, g, i, j), gen' = gen
  PROVE  Grows /\ KeptRight'
<1> DEFINE own == ~(ContextParams(r, Addon(g, i).id) \in {Nothing, <<>>})
<1>0. PICK t, C : t = req[r].tenant /\ C = Content(r, g, i, j)
  OBVIOUS
<1>1. Grows
  <2>1. straddled \subseteq straddled' /\ ListsInstalled' /\ Len(gen) \in Nat
    BY ListFacts DEF Renders, ListsInstalled
  <2> QED BY <2>1 DEF Grows
<1>2. \A c \in kept : Place(c.gen, c.addon, c.rule)'
                      /\ ContentIsRight(c.gen, c.addon, c.rule, c.tenant, c.content)'
  BY <1>1, EntryKept DEF KeptRight
<1>3. \A c \in kept' : c \in kept \/ (own /\ c = [gen |-> g, addon |-> i, rule |-> j, tenant |-> t,
                                               content |-> C])
  BY <1>0 DEF Renders
<1>4. ASSUME own
      PROVE  Place(g, i, j)' /\ ContentIsRight(g, i, j, t, C)'
  <2>1. IsKnown(g, i, j, t, C) /\ (req[r].context = g /\ InStep(g, t) => IsCurrent(g, i, j, t, C))
    BY <1>0, ContentRight
  <2>2. InStep(g, t)' => InStep(g, t) /\ req[r].context = g
    BY <1>0, <1>4 DEF InStep, Renders
  <2>3. InStep(g, t)' => IsCurrent(g, i, j, t, C)'
    BY <2>1, <2>2 DEF IsCurrent, Rule, Addon
  <2>4. IsKnown(g, i, j, t, C)'
    BY <1>1, <2>1, KnownGrows DEF IsKnown, Rule, Addon
  <2>5. Place(g, i, j)'
    BY DEF Place
  <2> QED BY <2>3, <2>4, <2>5 DEF ContentIsRight
<1>5. KeptRight'
  BY <1>2, <1>3, <1>4 DEF KeptRight
<1> QED BY <1>1, <1>5

LEMMA IncludesAllowed ==
  ASSUME NEW r, NEW a
  PROVE  Includes(r, a.id) <=> Allowed(a, req[r].tenant)
BY DEF Includes, Allowed

LEMMA NothingGrows ==
  ASSUME ListsInstalled, UNCHANGED <<gen, straddled>>
  PROVE  Grows
<1>1. Len(gen) \in Nat
  BY ListFacts
<1> QED BY <1>1 DEF Grows, ListsInstalled

\* A step of one request.
LEMMA OneRequest ==
  ASSUME PageInv, Grows, KeptRight', NEW r \in Requests, NEW q, req' = [req EXCEPT ![r] = q],
         RequestRight(q)'
  PROVE  PageInv'
<1>1. DOMAIN req' = Requests /\ \A x \in Range(req') : x = q \/ x \in Range(req)
  BY DEF PageInv, Range
<1>2. \A x \in Range(req) : RequestRight(x)'
  BY RequestKept DEF PageInv
<1> QED BY <1>1, <1>2 DEF PageInv, Grows

LEMMA ArriveRight ==
  ASSUME PageInv, NEW r \in Requests, Arrive(r)
  PROVE  PageInv'
<1>1. Grows /\ KeptRight'
  BY NothingGrows, KeptStays DEF PageInv, Arrive
<1>2. PICK p : p = req[r]
  OBVIOUS
<1>3. RequestRight(p)
  BY <1>2 DEF PageInv, Range
<1>4. PICK t \in Ids \cup {Visitor} : req' = [req EXCEPT ![r].pc = "context", ![r].tenant = t]
  BY DEF Arrive
<1> DEFINE q == [p EXCEPT !.pc = "context", !.tenant = t]
<1>5. req' = [req EXCEPT ![r] = q]
  BY <1>2, <1>4 DEF PageInv
<1>6. DOMAIN q = Fields /\ q.pc = "context" /\ q.tenant = t
  BY <1>3 DEF RequestRight, Fields
<1> HIDE DEF q
<1>7. RequestRight(q)'
  BY <1>6 DEF RequestRight
<1> QED BY <1>1, <1>5, <1>7, OneRequest

LEMMA ContextRight ==
  ASSUME PageInv, NEW r \in Requests, Context(r)
  PROVE  PageInv'
<1>1. Grows /\ KeptRight'
  BY NothingGrows, KeptStays DEF PageInv, Context
<1>2. PICK p, n : p = req[r] /\ n = Len(gen)
  OBVIOUS
<1>3. RequestRight(p)
  BY <1>2 DEF PageInv, Range
<1> DEFINE q == [p EXCEPT !.pc = "replace", !.context = n]
<1>4. req' = [req EXCEPT ![r] = q]
  BY <1>2 DEF PageInv, Context
<1>5. DOMAIN q = Fields /\ q.pc = "replace" /\ q.context = n /\ q.tenant = p.tenant
  BY <1>3 DEF RequestRight, Fields
<1>6. q.tenant \in Ids \cup {Visitor}
  BY <1>2, <1>3, <1>5 DEF RequestRight, Context
<1>7. n \in 1 .. Len(gen')
  BY <1>2, ListFacts DEF PageInv, Context
<1> HIDE DEF q
<1>8. RequestRight(q)'
  BY <1>5, <1>6, <1>7 DEF RequestRight
<1> QED BY <1>1, <1>4, <1>8, OneRequest

LEMMA ReloadRight ==
  ASSUME PageInv, ReplaceAddons
  PROVE  PageInv'
<1>1. PICK l \in Lists : gen' = Append(gen, LoadAddons(l))
  BY DEF ReplaceAddons
<1>2. LoadAddons(l) \in Seq(Installable) /\ gen \in Seq(Seq(Installable))
  BY LoadedList DEF PageInv, ListsInstalled
<1>3. Grows
  <2> DEFINE X == Seq(Installable)
             new == LoadAddons(l)
  <2>1. new \in X /\ gen \in Seq(X) /\ gen' = Append(gen, new)
    BY <1>1, <1>2
  <2> HIDE DEF X, new
  <2>2. gen' \in Seq(X) /\ gen' # <<>> /\ Len(gen') = Len(gen) + 1 /\ Len(gen) \in Nat
    BY <2>1
  <2>3. \A h \in 1 .. Len(gen) : gen'[h] = gen[h]
    BY <2>1
  <2> QED BY <2>2, <2>3 DEF Grows, ListsInstalled, PageInv, ReplaceAddons, X
<1>4. KeptRight'
  BY <1>3, KeptStays DEF PageInv, ReplaceAddons
<1>5. \A q \in Range(req) : RequestRight(q)'
  BY <1>3, RequestKept DEF PageInv
<1> QED BY <1>3, <1>4, <1>5 DEF PageInv, Grows, ReplaceAddons

LEMMA InitRight ==
  ASSUME PageInit
  PROVE  PageInv
<1>1. PICK l \in Lists : gen = <<LoadAddons(l)>>
  BY DEF PageInit
<1>2. ListsInstalled
  BY <1>1, LoadedList DEF ListsInstalled
<1>3. KeptRight
  BY DEF PageInit, KeptRight
<1>4. ASSUME NEW q \in Range(req) PROVE RequestRight(q)
  <2>1. q = [pc |-> "idle", tenant |-> Nothing, context |-> 0, list |-> 0,
             todo |-> {}, found |-> <<>>, page |-> <<>>]
    BY <1>4 DEF PageInit, Range
  <2>2. DOMAIN q = Fields /\ q.pc = "idle"
    BY <2>1 DEF Fields
  <2> QED BY <2>2 DEF RequestRight
<1> QED BY <1>2, <1>3, <1>4 DEF PageInv, PageInit

\* Sequence i is in its place in what is joined, after elements of the sequences before.
Split(ss, i, o) ==
  /\ \A k \in 1 .. o : IsFrom(Joined(ss)[i][k], ss, i - 1)
  /\ \A k \in 1 .. Len(ss[i]) : Joined(ss)[i][o + k] = ss[i][k]
  /\ Len(Joined(ss)[i]) = o + Len(ss[i])

LEMMA JoinedSplit ==
  ASSUME NEW X, NEW ss \in Seq(Seq(X)), NEW i \in 1 .. Len(ss)
  PROVE  \E o \in Nat : Split(ss, i, o)
<1>1. ss # <<>> /\ Len(ss) \in Nat
  OBVIOUS
<1> DEFINE g == Joined(ss)
           N == Len(ss)
<1>2. N \in Nat /\ N >= 1 /\ g \in [1 .. N -> Seq(X)] /\ JoinedFrom(g, ss) /\ i \in 1 .. N
  BY <1>1, JoinedStep
<1>3. \A m \in 1 .. N : ss[m] \in Seq(X)
  OBVIOUS
<1>4. \A n \in 1 .. N : \A k \in 1 .. Len(g[n]) : IsFrom(g[n][k], ss, n)
  BY <1>1, JoinedRange
<1> HIDE DEF g, N
<1>5. CASE i = 1
  <2>1. g[i] = ss[i] /\ Len(ss[i]) \in Nat
    BY <1>2, <1>3, <1>5 DEF JoinedFrom
  <2>2. Split(ss, i, 0)
    BY <2>1 DEF Split, g
  <2> QED BY <2>2
<1>6. CASE i # 1
  <2> DEFINE o == Len(g[i - 1])
             p == g[i - 1]
             u == ss[i]
  <2>1. i \in 2 .. N /\ i - 1 \in 1 .. N
    BY <1>2, <1>6
  <2>2. g[i] = p \o u /\ p \in Seq(X) /\ u \in Seq(X)
    BY <1>2, <1>3, <2>1 DEF JoinedFrom, N
  <2>3. \A k \in 1 .. o : IsFrom(p[k], ss, i - 1)
    BY <1>4, <2>1
  <2>4. o = Len(p)
    OBVIOUS
  <2> HIDE DEF p, u, o
  <2>5. /\ \A k \in 1 .. o : g[i][k] = p[k]
        /\ \A k \in 1 .. Len(u) : g[i][o + k] = u[k]
        /\ Len(g[i]) = o + Len(u) /\ o \in Nat
    BY <2>2, <2>4, Concatenated
  <2>6. Split(ss, i, o)
    BY <2>3, <2>5 DEF Split, g, u
  <2> QED BY <2>5, <2>6
<1> QED BY <1>5, <1>6

\* The rules of an addon, each with the addon.
Pairs(l) == [i \in DOMAIN l |-> [j \in DOMAIN l[i].rules |-> <<l[i], l[i].rules[j]>>]]

LEMMA PairFacts ==
  ASSUME NEW l \in Seq(Installable)
  PROVE  /\ DOMAIN l = 1 .. Len(l) /\ Len(l) \in Nat /\ Len(Pairs(l)) = Len(l)
         /\ \E X : Pairs(l) \in Seq(Seq(X))
         /\ \A i \in 1 .. Len(l) :
              /\ Len(Pairs(l)[i]) = Len(l[i].rules) /\ Len(l[i].rules) \in Nat
              /\ DOMAIN l[i].rules = 1 .. Len(l[i].rules)
              /\ \A j \in 1 .. Len(l[i].rules) : Pairs(l)[i][j] = <<l[i], l[i].rules[j]>>
<1> DEFINE ss == Pairs(l)
           X == UNION {Range(ss[i]) : i \in DOMAIN l}
           row(i) == [j \in DOMAIN l[i].rules |-> <<l[i], l[i].rules[j]>>]
<1>1. DOMAIN l = 1 .. Len(l) /\ Len(l) \in Nat
  OBVIOUS
<1>2. \A i \in 1 .. Len(l) : ss[i] = row(i)
  BY <1>1 DEF Pairs
<1>3. \A i \in 1 .. Len(l) : DOMAIN l[i].rules = 1 .. Len(l[i].rules) /\ Len(l[i].rules) \in Nat
  <2>1. \A i \in 1 .. Len(l) : l[i] \in Installable
    OBVIOUS
  <2> QED BY <2>1, InstallableFacts
<1>4. ASSUME NEW i \in 1 .. Len(l)
      PROVE  /\ ss[i] \in Seq(X) /\ Len(ss[i]) = Len(l[i].rules)
             /\ \A j \in 1 .. Len(l[i].rules) : ss[i][j] = <<l[i], l[i].rules[j]>>
  <2>1. DOMAIN row(i) = 1 .. Len(l[i].rules)
        /\ \A j \in 1 .. Len(l[i].rules) : row(i)[j] = <<l[i], l[i].rules[j]>>
    BY <1>3
  <2>2. \A j \in 1 .. Len(l[i].rules) : row(i)[j] \in X
    <3>1. Range(row(i)) \subseteq X
      <4> HIDE DEF row, ss
      <4> QED BY <1>1, <1>2
    <3>2. \A j \in 1 .. Len(l[i].rules) : row(i)[j] \in Range(row(i))
      BY <2>1 DEF Range
    <3> QED BY <3>1, <3>2
  <2>3. row(i) = [j \in 1 .. Len(l[i].rules) |-> row(i)[j]]
    BY <1>3
  <2>4. ss[i] = row(i)
    BY <1>2
  <2> HIDE DEF row, X, ss
  <2>5. row(i) \in Seq(X) /\ Len(row(i)) = Len(l[i].rules)
    BY <1>3, <2>2, <2>3
  <2> QED BY <2>1, <2>4, <2>5
<1>5. DOMAIN ss = 1 .. Len(l)
  BY <1>1 DEF Pairs
<1>6. ss = [i \in 1 .. Len(l) |-> ss[i]]
  BY <1>1 DEF Pairs
<1> HIDE DEF ss, X
<1>7. ss \in Seq(Seq(X)) /\ Len(ss) = Len(l)
  BY <1>1, <1>4, <1>6
<1> QED BY <1>1, <1>3, <1>4, <1>7 DEF ss

Replacing == {"replace", "replace_content"}

\* The first rule that replaces is the first of those that match.
LEMMA ReplacedFirst ==
  ASSUME NEW l \in Seq(Installable), NEW t
  PROVE  /\ Matching(l, Replacing) = {} => ReplacedBy(l, t) = <<>>
         /\ Matching(l, Replacing) # {} =>
              \E i \in DOMAIN l : \E j \in DOMAIN l[i].rules :
                /\ FirstOf(Matching(l, Replacing)) = <<i, j>>
                /\ ReplacedBy(l, t) = IF Allowed(l[i], t) THEN <<l[i].rules[j].text>> ELSE <<>>
<1> DEFINE R == Matching(l, Replacing)
           s == RulesOf(l)
           S == {x \in Range(s) : x[2].action \in Replacing}
           ss == Pairs(l)
<1>1. /\ DOMAIN l = 1 .. Len(l) /\ Len(l) \in Nat /\ Len(ss) = Len(l)
      /\ \A i \in 1 .. Len(l) :
           /\ Len(ss[i]) = Len(l[i].rules) /\ Len(l[i].rules) \in Nat
           /\ DOMAIN l[i].rules = 1 .. Len(l[i].rules)
           /\ \A j \in 1 .. Len(l[i].rules) : ss[i][j] = <<l[i], l[i].rules[j]>>
  BY PairFacts
<1>2. PICK X : ss \in Seq(Seq(X))
  BY PairFacts
<1>3. s = FlattenSeq(ss)
  BY DEF RulesOf, Pairs
<1>4. /\ \A y \in R : y[1] \in 1 .. Len(l) /\ y[2] \in 1 .. Len(l[y[1]].rules) /\ y = <<y[1], y[2]>>
      /\ \A i \in 1 .. Len(l) : \A j \in 1 .. Len(l[i].rules) :
           l[i].rules[j].action \in Replacing <=> <<i, j>> \in R
  BY <1>1 DEF Matching
<1>5. ReplacedBy(l, t) =
        IF Only(s, S) # <<>> /\ Allowed(Only(s, S)[1][1], t) THEN <<Only(s, S)[1][2].text>> ELSE <<>>
  BY DEF ReplacedBy, Replacing
<1> HIDE DEF R, ss
<1>6. s \in Seq(X)
  BY <1>2, <1>3, FlattenType
<1>7. \A k \in 1 .. Len(s) : s[k] \in S <=> s[k][2].action \in Replacing
  BY <1>6 DEF Range
<1> HIDE DEF s, S
<1>8. /\ (\A k \in 1 .. Len(s) : s[k] \notin S) => Only(s, S) = <<>>
      /\ \A k \in 1 .. Len(s) :
           s[k] \in S /\ (\A m \in 1 .. k - 1 : s[m] \notin S)
             => Only(s, S) # <<>> /\ Only(s, S)[1] = s[k]
  BY <1>6, OnlyFirst
<1>9. ASSUME NEW n \in 1 .. Len(l), NEW x, IsFrom(x, ss, n)
      PROVE  \E i \in 1 .. n : \E j \in 1 .. Len(l[i].rules) : x = <<l[i], l[i].rules[j]>>
  <2>1. PICK i \in 1 .. n : \E j \in 1 .. Len(ss[i]) : x = ss[i][j]
    BY <1>9 DEF IsFrom
  <2>2. i \in 1 .. Len(l)
    BY <1>1
  <2> QED BY <1>1, <2>1, <2>2
<1>10. ss # <<>> => /\ s = Joined(ss)[Len(l)] /\ Len(l) \in 1 .. Len(l)
  BY <1>1, <1>2, <1>3, JoinedStep
<1>11. ASSUME R = {} PROVE ReplacedBy(l, t) = <<>>
  <2>1. \A k \in 1 .. Len(s) : s[k] \notin S
    <3> SUFFICES ASSUME NEW k \in 1 .. Len(s) PROVE s[k][2].action \notin Replacing
      BY <1>7
    <3>1. ss # <<>>
      <4>1. s = <<>> => Len(s) = 0
        OBVIOUS
      <4> QED BY <1>2, <1>3, <4>1, FlattenType
    <3> DEFINE n == Len(l)
    <3>2. n \in 1 .. Len(ss) /\ k \in 1 .. Len(Joined(ss)[n]) /\ s[k] = Joined(ss)[n][k]
      BY <1>1, <1>10, <3>1
    <3> HIDE DEF n
    <3>3. IsFrom(s[k], ss, n)
      BY <1>2, <3>1, <3>2, JoinedRange
    <3>4. n \in 1 .. Len(l)
      BY <1>1, <3>2
    <3>5. PICK i \in 1 .. n : \E j \in 1 .. Len(l[i].rules) : s[k] = <<l[i], l[i].rules[j]>>
      BY <1>9, <3>3, <3>4
    <3>6. i \in 1 .. Len(l)
      BY <3>4
    <3> QED BY <1>4, <1>11, <3>5, <3>6
  <2> QED BY <1>5, <1>8, <2>1
<1>12. ASSUME R # {}
       PROVE  \E i \in DOMAIN l : \E j \in DOMAIN l[i].rules :
                /\ FirstOf(R) = <<i, j>>
                /\ ReplacedBy(l, t) = IF Allowed(l[i], t) THEN <<l[i].rules[j].text>> ELSE <<>>
  <2>1. R \in SUBSET (Nat \X Nat)
    <3>1. ASSUME NEW y \in R PROVE y \in Nat \X Nat
      <4>1. y[1] \in Nat /\ y[2] \in Nat /\ y = <<y[1], y[2]>>
        BY <1>4, <1>1
      <4> QED BY <4>1
    <3> QED BY <3>1
  <2>2. PICK i \in 1 .. Len(l), j \in Nat :
          j \in 1 .. Len(l[i].rules) /\ FirstOf(R) = <<i, j>> /\ <<i, j>> \in R
    <3>1. FirstOf(R) \in R
      BY <1>12, <2>1, FirstExists
    <3> QED BY <1>4, <2>1, <3>1
  <2>3. \A i2 \in 1 .. Len(l) : \A j2 \in 1 .. Len(l[i2].rules) :
          l[i2].rules[j2].action \in Replacing => i < i2 \/ (i = i2 /\ j <= j2)
    <3> SUFFICES ASSUME NEW i2 \in 1 .. Len(l), NEW j2 \in 1 .. Len(l[i2].rules),
                        l[i2].rules[j2].action \in Replacing
                 PROVE  i < i2 \/ (i = i2 /\ j <= j2)
      OBVIOUS
    <3>1. <<i2, j2>> \in R
      BY <1>4
    <3>2. \A y \in R : Before(FirstOf(R), y)
      BY <1>12, <2>1, FirstExists
    <3>3. Before(<<i, j>>, <<i2, j2>>)
      BY <2>2, <3>1, <3>2
    <3> QED BY <3>3 DEF Before
  <2>4. PICK o \in Nat : Split(ss, i, o)
    BY <1>1, <1>2, JoinedSplit
  <2> DEFINE k == o + j
             n == Len(l)
             x == <<l[i], l[i].rules[j]>>
  <2>5. ss # <<>> /\ i \in 1 .. Len(ss) /\ n \in i .. Len(ss)
    BY <1>1
  <2>6. \A m \in 1 .. Len(Joined(ss)[i]) : m \in 1 .. Len(s) /\ s[m] = Joined(ss)[i][m]
    <3> HIDE DEF n
    <3>1. \A m \in 1 .. Len(Joined(ss)[i]) : m \in 1 .. Len(Joined(ss)[n])
            /\ Joined(ss)[n][m] = Joined(ss)[i][m]
      BY <1>2, <2>5, JoinedPlace
    <3> QED BY <1>10, <2>5, <3>1 DEF n
  <2>7. Len(Joined(ss)[i]) = o + Len(l[i].rules) /\ Len(l[i].rules) \in Nat
    BY <1>1, <2>4 DEF Split
  <2>8. k \in 1 .. Len(Joined(ss)[i]) /\ Joined(ss)[i][k] = x
    BY <1>1, <2>2, <2>4, <2>7 DEF Split
  <2>9. k \in 1 .. Len(s) /\ s[k] = x
    BY <2>6, <2>8
  <2>10. s[k] \in S
    <3>1. l[i].rules[j].action \in Replacing
      BY <1>4, <2>2
    <3>2. s[k][2] = l[i].rules[j]
      BY <2>9
    <3> HIDE DEF k, x
    <3> QED BY <1>7, <2>9, <3>1, <3>2
  <2>11. ASSUME NEW m \in 1 .. k - 1 PROVE s[m] \notin S
    <3>1. m \in 1 .. Len(Joined(ss)[i]) /\ m \in 1 .. Len(s) /\ s[m] = Joined(ss)[i][m]
      BY <2>6, <2>7, <2>2
    <3> SUFFICES s[m][2].action \notin Replacing
      BY <1>7, <3>1
    <3>2. CASE m <= o
      <4>1. IsFrom(s[m], ss, i - 1)
        BY <2>4, <3>1, <3>2 DEF Split
      <4>2. PICK i2 \in 1 .. i - 1 : \E j2 \in 1 .. Len(ss[i2]) : s[m] = ss[i2][j2]
        BY <4>1 DEF IsFrom
      <4>3. i2 \in 1 .. Len(l) /\ i2 < i
        BY <1>1
      <4>4. PICK j2 \in 1 .. Len(l[i2].rules) : s[m] = <<l[i2], l[i2].rules[j2]>>
        BY <1>1, <4>2, <4>3
      <4> QED BY <2>3, <4>3, <4>4
    <3>3. CASE m > o
      <4>1. m - o \in 1 .. Len(l[i].rules) /\ m - o < j /\ m = o + (m - o)
        BY <2>2, <2>7, <3>3
      <4>2. s[m] = <<l[i], l[i].rules[m - o]>>
        BY <1>1, <2>4, <3>1, <4>1 DEF Split
      <4> QED BY <2>2, <2>3, <4>1, <4>2
    <3> QED BY <3>2, <3>3
  <2>12. Only(s, S) # <<>> /\ Only(s, S)[1] = x
    <3> HIDE DEF k, x
    <3> QED BY <1>8, <2>9, <2>10, <2>11
  <2>13. ReplacedBy(l, t) = IF Allowed(l[i], t) THEN <<l[i].rules[j].text>> ELSE <<>>
    BY <1>5, <2>12
  <2> QED BY <1>1, <2>2, <2>13
<1> QED BY <1>11, <1>12 DEF R

\* What one rule gives a request.
LEMMA ContentFits ==
  ASSUME ListsInstalled, KeptRight, NEW r, HasContext(r), NEW g, NEW i, NEW j, Place(g, i, j),
         Includes(r, Addon(g, i).id)
  PROVE  /\ Content(r, g, i, j).text = Rule(g, i, j).text
         /\ Content(r, g, i, j) \in Renderings(g, req[r].tenant)
         /\ req[r].context = g /\ InStep(g, req[r].tenant)
              => Content(r, g, i, j) \in CurrentRenderings(g, req[r].tenant)
<1> DEFINE t == req[r].tenant
           C == Content(r, g, i, j)
           a == Addon(g, i)
<1>1. /\ IsKnown(g, i, j, t, C)
      /\ req[r].context = g /\ InStep(g, t) => IsCurrent(g, i, j, t, C)
  BY ContentRight
<1>2. a \in Range(gen[g]) /\ Rule(g, i, j) \in Range(a.rules)
  BY DEF Place, Addon, Rule, Range
<1> HIDE DEF C, a, t
<1>3. PICK p \in Known(t) : C = RenderResource(Rule(g, i, j), p)
  BY <1>1 DEF IsKnown
<1>4. C.text = Rule(g, i, j).text
  BY <1>3 DEF RenderResource
<1>5. C \in Renderings(g, t)
  <2> DEFINE by(rule) == {RenderResource(rule, x) : x \in Known(t)}
             Rules == UNION {Range(b.rules) : b \in Range(gen[g])}
  <2>1. C \in by(Rule(g, i, j))
    BY <1>3
  <2>2. Rule(g, i, j) \in Rules
    BY <1>2
  <2>3. Renderings(g, t) = UNION {by(rule) : rule \in Rules}
    BY DEF Renderings
  <2> HIDE DEF by, Rules
  <2> QED BY <2>1, <2>2, <2>3
<1>6. ASSUME IsCurrent(g, i, j, t, C) PROVE C \in CurrentRenderings(g, t)
  <2> DEFINE by(b) == {RenderResource(rule, InForce(b, t)) : rule \in Range(b.rules)}
  <2>1. C \in by(a)
    BY <1>2, <1>6 DEF IsCurrent, a
  <2>2. CurrentRenderings(g, t) = UNION {by(b) : b \in Range(gen[g])}
    BY DEF CurrentRenderings
  <2> HIDE DEF by
  <2> QED BY <1>2, <2>1, <2>2
<1> QED BY <1>1, <1>4, <1>5, <1>6 DEF C, t

LEMMA ReplaceRight ==
  ASSUME PageInv, NEW r \in Requests, Replace(r)
  PROVE  PageInv'
<1>1. PICK p, g : p = req[r] /\ g = Len(gen)
  OBVIOUS
<1>2. RequestRight(p) /\ p.pc = "replace" /\ gen' = gen
  BY <1>1 DEF PageInv, Range, Replace
<1>3. ListsInstalled /\ g \in 1 .. Len(gen) /\ gen[g] \in Seq(Installable) /\ g \in Nat
  BY <1>1, ListFacts DEF PageInv
<1>4. HasContext(r) /\ p.tenant \in Ids \cup {Visitor} /\ p.context \in 1 .. Len(gen) /\ KeptRight
  BY <1>1, <1>2 DEF RequestRight, HasContext, PageInv
<1> DEFINE R == Matching(gen[g], Replacing)
           first == FirstOf(R)
<1>5. /\ R = {} => ReplacedBy(gen[g], p.tenant) = <<>>
      /\ R # {} =>
           \E i \in DOMAIN gen[g] : \E j \in DOMAIN gen[g][i].rules :
             /\ first = <<i, j>>
             /\ ReplacedBy(gen[g], p.tenant)
                  = IF Allowed(gen[g][i], p.tenant) THEN <<gen[g][i].rules[j].text>> ELSE <<>>
  BY <1>3, ReplacedFirst
<1>6. IF R # {} /\ Includes(r, Addon(g, first[1]).id)
        THEN /\ req' = [req EXCEPT ![r].pc = "done", ![r].list = g,
                                   ![r].page = <<Content(r, g, first[1], first[2])>>]
             /\ Renders(r, g, first[1], first[2])
        ELSE req' = [req EXCEPT ![r].pc = "match"] /\ UNCHANGED <<kept, straddled>>
  BY <1>1 DEF Replace, Replacing
<1> HIDE DEF R, first
<1>7. CASE R # {} /\ Includes(r, Addon(g, first[1]).id)
  <2>1. PICK i \in DOMAIN gen[g], j \in Nat :
          /\ j \in DOMAIN gen[g][i].rules /\ first = <<i, j>>
          /\ ReplacedBy(gen[g], p.tenant)
               = IF Allowed(gen[g][i], p.tenant) THEN <<gen[g][i].rules[j].text>> ELSE <<>>
    <3>1. PICK i \in DOMAIN gen[g] : \E j \in DOMAIN gen[g][i].rules :
             /\ first = <<i, j>>
             /\ ReplacedBy(gen[g], p.tenant)
                  = IF Allowed(gen[g][i], p.tenant) THEN <<gen[g][i].rules[j].text>> ELSE <<>>
      BY <1>5, <1>7
    <3>2. \A j \in DOMAIN gen[g][i].rules : j \in Nat
      BY <1>3, ListFacts, InstallableFacts
    <3> QED BY <3>1, <3>2
  <2>2. Place(g, i, j) /\ Addon(g, i) = gen[g][i] /\ Rule(g, i, j) = gen[g][i].rules[j]
    BY <1>3, <2>1, ListFacts DEF Place, Addon, Rule
  <2>3. Includes(r, Addon(g, i).id) /\ Renders(r, g, i, j)
    BY <1>6, <1>7, <2>1
  <2>4. Grows /\ KeptRight'
    BY <1>2, <1>3, <1>4, <2>2, <2>3, RendersRight
  <2>5. PICK C : C = Content(r, g, i, j)
    OBVIOUS
  <2>6. /\ C.text = gen[g][i].rules[j].text /\ C \in Renderings(g, p.tenant)
        /\ p.context = g /\ InStep(g, p.tenant) => C \in CurrentRenderings(g, p.tenant)
    BY <1>1, <1>3, <1>4, <2>2, <2>3, <2>5, ContentFits
  <2> DEFINE q == [p EXCEPT !.pc = "done", !.list = g, !.page = <<C>>]
  <2>7. req' = [req EXCEPT ![r] = q]
    BY <1>1, <1>6, <1>7, <2>1, <2>5 DEF PageInv
  <2>8. /\ DOMAIN q = Fields /\ q.pc = "done" /\ q.list = g /\ q.page = <<C>>
        /\ q.tenant = p.tenant /\ q.context = p.context
    BY <1>2 DEF RequestRight, Fields
  <2> HIDE DEF q
  <2>9. OwnTexts(q)'
    <3>1. Allowed(gen[g][i], p.tenant)
      BY <1>1, <2>2, <2>3, IncludesAllowed
    <3>2. Texts(<<C>>) = <<C.text>>
      BY DEF Texts
    <3>3. Texts(q.page) = ReplacedBy(gen'[q.list], q.tenant)
      BY <1>2, <2>1, <2>6, <2>8, <3>1, <3>2
    <3>4. Texts(q.page) # <<>>
      <4>1. Texts(q.page) = <<C.text>>
        BY <2>8, <3>2
      <4>2. <<C.text>> # <<>>
        OBVIOUS
      <4> QED BY <4>1, <4>2
    <3> QED BY <3>3, <3>4 DEF OwnTexts
  <2>10. RightParams(q, <<C>>)
    <3> DEFINE X == Renderings(g, p.tenant)
               Y == CurrentRenderings(g, p.tenant)
    <3>1. C \in X /\ (p.context = g /\ InStep(g, p.tenant) => C \in Y)
      BY <2>6
    <3> HIDE DEF X, Y
    <3>2. <<C>> \in Seq(X) /\ (C \in Y => <<C>> \in Seq(Y))
      BY <3>1
    <3> QED BY <2>8, <3>1, <3>2 DEF RightParams, X, Y
  <2>11. RightParams(q, <<C>>)'
    BY <1>3, <2>4, <2>8, <2>10, RightParamsKept
  <2>12. p.context \in 1 .. Len(gen') /\ q.list \in p.context .. Len(gen')
    BY <1>1, <1>2, <1>3, <1>4, <2>8
  <2>13. RequestRight(q)'
    BY <1>4, <2>8, <2>9, <2>11, <2>12 DEF RequestRight
  <2> QED BY <2>4, <2>7, <2>13, OneRequest
<1>8. CASE ~(R # {} /\ Includes(r, Addon(g, first[1]).id))
  <2>1. Grows /\ KeptRight'
    BY <1>2, <1>3, <1>4, <1>6, <1>8, NothingGrows, KeptStays
  <2> DEFINE q == [p EXCEPT !.pc = "match"]
  <2>2. req' = [req EXCEPT ![r] = q]
    BY <1>1, <1>6, <1>8 DEF PageInv
  <2>3. DOMAIN q = Fields /\ q.pc = "match" /\ q.tenant = p.tenant /\ q.context = p.context
    BY <1>2 DEF RequestRight, Fields
  <2> HIDE DEF q
  <2>4. ReplacedBy(gen[g], p.tenant) = <<>>
    <3>1. ASSUME R # {} PROVE ReplacedBy(gen[g], p.tenant) = <<>>
      <4>1. PICK i \in DOMAIN gen[g] : \E j \in DOMAIN gen[g][i].rules :
               /\ first = <<i, j>>
               /\ ReplacedBy(gen[g], p.tenant)
                    = IF Allowed(gen[g][i], p.tenant) THEN <<gen[g][i].rules[j].text>> ELSE <<>>
        BY <1>5, <3>1
      <4>2. ~Includes(r, Addon(g, i).id) /\ Addon(g, i) = gen[g][i]
        BY <1>8, <3>1, <4>1 DEF Addon
      <4>3. ~Allowed(gen[g][i], p.tenant)
        BY <1>1, <4>2, IncludesAllowed
      <4> QED BY <4>1, <4>3
    <3> QED BY <1>5, <3>1
  <2>5. Unreplaced(q, Len(gen))'
    <3>1. g \in q.context .. Len(gen')
      BY <1>1, <1>2, <1>3, <1>4, <2>3
    <3> QED BY <1>2, <2>3, <2>4, <3>1 DEF Unreplaced
  <2>6. q.context \in 1 .. Len(gen') /\ q.tenant \in Ids \cup {Visitor}
    BY <1>2, <1>4, <2>3
  <2>7. RequestRight(q)'
    BY <2>3, <2>5, <2>6 DEF RequestRight
  <2> QED BY <2>1, <2>2, <2>7, OneRequest
<1> QED BY <1>7, <1>8

LEMMA MatchRight ==
  ASSUME PageInv, NEW r \in Requests, Match(r)
  PROVE  PageInv'
<1>1. Grows /\ KeptRight'
  BY NothingGrows, KeptStays DEF PageInv, Match
<1>2. PICK p, g, todo, found :
        /\ p = req[r] /\ g = Len(gen)
        /\ todo = {x \in Matching(gen[g], {"inject"}) : Includes(r, Addon(g, x[1]).id)}
        /\ found = [i \in DOMAIN gen[g] |-> <<>>]
  OBVIOUS
<1>3. RequestRight(p) /\ p.pc = "match" /\ gen' = gen
  BY <1>2 DEF PageInv, Range, Match
<1>4. ListsInstalled /\ g \in 1 .. Len(gen) /\ gen[g] \in Seq(Installable) /\ g \in Nat
  BY <1>2, ListFacts DEF PageInv
<1> DEFINE q == [p EXCEPT !.pc = "render", !.list = g, !.todo = todo, !.found = found]
<1>5. req' = [req EXCEPT ![r] = q]
  BY <1>2 DEF PageInv, Match
<1>6. /\ DOMAIN q = Fields /\ q.pc = "render" /\ q.list = g /\ q.todo = todo /\ q.found = found
      /\ q.tenant = p.tenant /\ q.context = p.context
  BY <1>3 DEF RequestRight, Fields
<1> HIDE DEF q
<1>7. /\ q.tenant \in Ids \cup {Visitor} /\ q.context \in 1 .. Len(gen) /\ Unreplaced(p, g)
  BY <1>2, <1>3, <1>6 DEF RequestRight
<1>8. Unreplaced(q, q.list)'
  BY <1>3, <1>6, <1>7 DEF Unreplaced
<1>9. /\ q.todo \subseteq Matching(gen'[q.list], {"inject"})
      /\ q.found = [i \in DOMAIN gen'[q.list] |-> q.found[i]]
  BY <1>2, <1>3, <1>6
<1>10. ASSUME NEW i \in DOMAIN gen[g]
       PROVE  /\ RightParams(q, q.found[i])'
              /\ \E n \in 0 .. Len(gen[g][i].rules) : Progress(q, i, n)'
  <2> DEFINE a == gen[g][i]
  <2>1. q.found[i] = <<>>
    BY <1>2, <1>6
  <2>2. RightParams(q, q.found[i])'
    <3>1. \A X : <<>> \in Seq(X)
      OBVIOUS
    <3> QED BY <2>1, <3>1 DEF RightParams
  <2>3. Texts(<<>>) = <<>>
    BY DEF Texts
  <2>4. a \in Installable /\ a.rules \in Seq(Range(a.rules)) /\ Len(a.rules) \in Nat
        /\ DOMAIN a.rules = 1 .. Len(a.rules)
    BY <1>4, ListFacts, InstallableFacts
  <2>5. Picked(a.rules, Injecting(a.rules))[0] = <<>>
    BY <2>4, PickedStep DEF PickedFrom
  <2>6. \A j \in DOMAIN a.rules :
          <<i, j>> \in todo <=> j > 0 /\ a.rules[j].action = "inject" /\ Allowed(a, p.tenant)
    <3> SUFFICES ASSUME NEW j \in DOMAIN a.rules
                 PROVE  <<i, j>> \in todo <=> j > 0
                                          /\ a.rules[j].action = "inject" /\ Allowed(a, p.tenant)
      OBVIOUS
    <3>1. <<i, j>> \in Matching(gen[g], {"inject"}) <=> a.rules[j].action = "inject"
      BY DEF Matching
    <3>2. Includes(r, Addon(g, i).id) <=> Allowed(a, p.tenant)
      BY <1>2, IncludesAllowed DEF Addon
    <3>3. j > 0
      BY <2>4
    <3> QED BY <1>2, <3>1, <3>2, <3>3
  <2>7. Progress(q, i, 0)'
    <3> HIDE DEF a
    <3> QED BY <1>3, <1>6, <2>1, <2>3, <2>5, <2>6 DEF Progress, a
  <2>8. 0 \in 0 .. Len(a.rules)
    BY <2>4
  <2> QED BY <2>2, <2>7, <2>8
<1>11. Rendering(q)'
  BY <1>3, <1>6, <1>8, <1>9, <1>10 DEF Rendering
<1>12. q.context \in 1 .. Len(gen') /\ q.list \in q.context .. Len(gen')
  BY <1>2, <1>3, <1>4, <1>6, <1>7
<1>13. RequestRight(q)'
  BY <1>6, <1>7, <1>11, <1>12 DEF RequestRight
<1> QED BY <1>1, <1>5, <1>13, OneRequest

\* Whose turn it is is the first rule left of its addon.
LEMMA TurnsFirst ==
  ASSUME ListsInstalled, NEW r, req[r].list \in 1 .. Len(gen),
         req[r].todo \subseteq Matching(gen[req[r].list], {"inject"}), req[r].todo # {},
         NEW x \in Turns(r)
  PROVE  \E i \in DOMAIN gen[req[r].list] : \E j \in DOMAIN gen[req[r].list][i].rules :
           /\ x = <<i, j>> /\ x \in req[r].todo
           /\ \A k \in Nat : <<i, k>> \in req[r].todo => j <= k
<1> DEFINE l == gen[req[r].list]
           todo == req[r].todo
<1>1. \A i \in DOMAIN l : l[i] \in Installable /\ DOMAIN l = 1 .. Len(l)
  BY ListFacts
<1>2. ASSUME NEW y \in todo
      PROVE  /\ y = <<y[1], y[2]>> /\ y \in Nat \X Nat
             /\ y[1] \in DOMAIN l /\ y[2] \in DOMAIN l[y[1]].rules
  <2>1. y \in Matching(l, {"inject"})
    BY <1>2
  <2>2. y = <<y[1], y[2]>> /\ y[1] \in DOMAIN l /\ y[2] \in DOMAIN l[y[1]].rules
    BY <2>1 DEF Matching
  <2>3. y[1] \in Nat /\ l[y[1]] \in Installable
    BY <1>1, <2>2
  <2>4. DOMAIN l[y[1]].rules = 1 .. Len(l[y[1]].rules)
    BY <2>3, InstallableFacts
  <2>5. y[2] \in Nat
    BY <2>2, <2>4
  <2> QED BY <2>2, <2>3, <2>5
<1> HIDE DEF l, todo
<1>3. x \in todo /\ \A y \in todo : y[1] = x[1] => x[2] <= y[2]
  <2>1. todo \in SUBSET (Nat \X Nat) /\ todo # {}
    BY <1>2 DEF todo
  <2>2. FirstOf(todo) \in todo /\ \A y \in todo : Before(FirstOf(todo), y)
    BY <2>1, FirstExists
  <2>3. ASSUME x = FirstOf(todo), NEW y \in todo, y[1] = x[1] PROVE x[2] <= y[2]
    <3>1. Before(x, y)
      BY <2>2, <2>3
    <3>2. x[1] \in Nat /\ y[1] \in Nat
      BY <2>1, <2>2, <2>3
    <3> QED BY <2>3, <3>1, <3>2 DEF Before
  <2>4. x = FirstOf(todo) \/ (x \in todo /\ \A y \in todo : y[1] = x[1] => x[2] <= y[2])
    BY DEF Turns, todo
  <2> QED BY <2>2, <2>3, <2>4
<1>4. PICK i \in DOMAIN l : \E j \in DOMAIN l[i].rules : x = <<i, j>>
  BY <1>2, <1>3
<1>5. PICK j \in DOMAIN l[i].rules : x = <<i, j>>
  BY <1>4
<1>6. \A k \in Nat : <<i, k>> \in todo => j <= k
  BY <1>3, <1>5
<1> QED BY <1>3, <1>5, <1>6 DEF l, todo

LEMMA RightParamsAppended ==
  ASSUME NEW q, NEW contents, RightParams(q, contents), NEW c, c \in Renderings(q.list, q.tenant),
         q.context = q.list /\ InStep(q.list, q.tenant) => c \in CurrentRenderings(q.list, q.tenant)
  PROVE  RightParams(q, Append(contents, c))
<1> DEFINE X == Renderings(q.list, q.tenant)
           Y == CurrentRenderings(q.list, q.tenant)
<1>1. /\ contents \in Seq(X) /\ c \in X
      /\ q.context = q.list /\ InStep(q.list, q.tenant) => contents \in Seq(Y) /\ c \in Y
  BY DEF RightParams
<1> HIDE DEF X, Y
<1>2. Append(contents, c) \in Seq(X)
  BY <1>1
<1>3. contents \in Seq(Y) /\ c \in Y => Append(contents, c) \in Seq(Y)
  OBVIOUS
<1> QED BY <1>1, <1>2, <1>3 DEF RightParams, X, Y

LEMMA TextsAppended ==
  ASSUME NEW X, NEW s \in Seq(X), NEW c
  PROVE  Texts(Append(s, c)) = Append(Texts(s), c.text)
<1> DEFINE w == Append(s, c)
           T == {x.text : x \in X \cup {c}}
           u == Texts(s)
<1>1. Len(w) = Len(s) + 1 /\ Len(s) \in Nat /\ w[Len(s) + 1] = c /\ DOMAIN w = 1 .. Len(s) + 1
      /\ \A k \in 1 .. Len(s) : w[k] = s[k]
  OBVIOUS
<1>2. u \in Seq(T) /\ Len(u) = Len(s) /\ \A k \in 1 .. Len(s) : u[k] = s[k].text
  BY DEF Texts
<1>3. /\ Texts(w) = [k \in 1 .. Len(s) + 1 |-> w[k].text]
  BY <1>1 DEF Texts
<1>4. c.text \in T
  OBVIOUS
<1> HIDE DEF w, T, u
<1>5. Append(u, c.text) = [k \in 1 .. Len(s) + 1 |-> IF k = Len(s) + 1 THEN c.text ELSE u[k]]
  BY <1>1, <1>2, <1>4
<1>6. \A k \in 1 .. Len(s) + 1 : w[k].text = IF k = Len(s) + 1 THEN c.text ELSE u[k]
  BY <1>1, <1>2
<1>7. Texts(w) = Append(u, c.text)
  BY <1>3, <1>5, <1>6
<1> QED BY <1>7 DEF w, u

\* One more rule of an addon.
LEMMA ProgressMade ==
  ASSUME NEW p, NEW q, NEW i, NEW n, NEW j, NEW a, NEW C, NEW X,
         a \in Installable, a = gen[p.list][i], q.list = p.list, q.tenant = p.tenant,
         p.found[i] \in Seq(X), q.found[i] = Append(p.found[i], C), q.todo = p.todo \ {<<i, j>>},
         C.text = a.rules[j].text, n \in 0 .. Len(a.rules), Progress(p, i, n),
         j \in DOMAIN a.rules, <<i, j>> \in p.todo, \A k \in Nat : <<i, k>> \in p.todo => j <= k
  PROVE  Progress(q, i, j)
<1> DEFINE I == Injecting(a.rules)
           s == a.rules
           f == Picked(s, I)
<1>1. /\ s \in Seq(Range(s)) /\ Len(s) \in Nat /\ DOMAIN s = 1 .. Len(s)
      /\ j \in Nat /\ n \in Nat /\ n \in 0 .. Len(s)
  BY InstallableFacts
<1>2. /\ \A k \in DOMAIN s : <<i, k>> \in p.todo <=> k > n
                                            /\ s[k].action = "inject" /\ Allowed(a, p.tenant)
      /\ Texts(p.found[i]) = IF Allowed(a, p.tenant) THEN Texts(f[n]) ELSE <<>>
  BY DEF Progress
<1>3. j > n /\ Allowed(a, p.tenant) /\ s[j] \in I /\ j - 1 \in n .. Len(s) /\ j \in 1 .. Len(s)
  <2>1. j > n /\ s[j].action = "inject" /\ Allowed(a, p.tenant) /\ j \in 1 .. Len(s)
    BY <1>1, <1>2
  <2>2. s[j] \in I
    BY <2>1 DEF Injecting, Range
  <2> HIDE DEF s, I
  <2> QED BY <1>1, <2>1, <2>2
<1>4. \A k \in n + 1 .. j - 1 : s[k] \notin I
  <2> SUFFICES ASSUME NEW k \in n + 1 .. j - 1, s[k] \in I PROVE FALSE
    OBVIOUS
  <2>1. k \in DOMAIN s /\ k > n /\ ~(j <= k) /\ k \in Nat
    BY <1>1, <1>3
  <2>2. <<i, k>> \in p.todo
    BY <1>2, <1>3, <2>1 DEF Injecting
  <2> QED BY <2>1, <2>2
<1> HIDE DEF I, s, f
<1>5. f[j] = Append(f[n], s[j]) /\ f[n] \in Seq(Range(s))
  <2>1. f \in [0 .. Len(s) -> Seq(Range(s))] /\ PickedFrom(f, s, I)
    BY <1>1, PickedStep DEF f
  <2> DEFINE m == j - 1
  <2>2. m \in n .. Len(s) /\ \A k \in n + 1 .. m : s[k] \notin I
    BY <1>3, <1>4
  <2> HIDE DEF m
  <2>3. f[m] = f[n]
    <3> DEFINE Y == Range(s)
    <3>1. s \in Seq(Y) /\ n \in 0 .. Len(s)
      BY <1>1
    <3> HIDE DEF Y
    <3> QED BY <2>2, <3>1, PickedSkips DEF f
  <2>4. f[j] = Append(f[m], s[j])
    BY <1>3, <2>1 DEF PickedFrom, m
  <2> QED BY <2>1, <2>3, <2>4 DEF s
<1>6. Texts(f[j]) = Append(Texts(f[n]), s[j].text)
  <2> DEFINE u == f[n]
             Y == Range(s)
  <2>1. u \in Seq(Y)
    BY <1>5
  <2> HIDE DEF u, Y
  <2>2. Texts(Append(u, s[j])) = Append(Texts(u), s[j].text)
    BY <2>1, TextsAppended
  <2> QED BY <1>5, <2>2 DEF u
<1>7. Texts(q.found[i]) = Append(Texts(p.found[i]), C.text)
  BY TextsAppended
<1>8. Texts(q.found[i]) = Texts(f[j])
  BY <1>2, <1>3, <1>6, <1>7 DEF s
<1>9. \A k \in DOMAIN s :
        <<i, k>> \in q.todo <=> k > j /\ s[k].action = "inject" /\ Allowed(a, q.tenant)
  <2> SUFFICES ASSUME NEW k \in DOMAIN s
               PROVE  <<i, k>> \in q.todo <=> k > j /\ s[k].action = "inject" /\ Allowed(a, q.tenant)
    OBVIOUS
  <2>1. k \in Nat /\ (<<i, k>> \in q.todo <=> <<i, k>> \in p.todo /\ k # j)
    BY <1>1
  <2>2. <<i, k>> \in p.todo => j <= k
    BY <2>1
  <2> QED BY <1>1, <1>2, <1>3, <2>1, <2>2
<1>10. Texts(q.found[i]) = IF Allowed(a, q.tenant) THEN Texts(Picked(a.rules, Injecting(a.rules))[j])
                              ELSE <<>>
  BY <1>3, <1>8 DEF f, s, I
<1>11. \A k \in DOMAIN a.rules :
         <<i, k>> \in q.todo <=> k > j /\ a.rules[k].action = "inject" /\ Allowed(a, q.tenant)
  BY <1>9 DEF s
<1>12. gen[q.list][i] = a
  OBVIOUS
<1>13. /\ \A k \in DOMAIN gen[q.list][i].rules :
            <<i, k>> \in q.todo
              <=> k > j /\ gen[q.list][i].rules[k].action = "inject"
                      /\ Allowed(gen[q.list][i], q.tenant)
       /\ Texts(q.found[i]) =
            IF Allowed(gen[q.list][i], q.tenant)
              THEN Texts(Picked(gen[q.list][i].rules, Injecting(gen[q.list][i].rules))[j]) ELSE <<>>
  BY ONLY <1>10, <1>11, <1>12
<1> QED BY ONLY <1>13 DEF Progress

LEMMA InjectRight ==
  ASSUME PageInv, NEW r \in Requests, Inject(r)
  PROVE  PageInv'
<1>1. PICK p, g : p = req[r] /\ g = p.list
  OBVIOUS
<1>2. RequestRight(p) /\ p.pc = "render" /\ p.todo # {} /\ gen' = gen
  BY <1>1 DEF PageInv, Range, Inject
<1>3. /\ Rendering(p) /\ p.tenant \in Ids \cup {Visitor}
      /\ p.context \in 1 .. Len(gen) /\ g \in p.context .. Len(gen)
  BY <1>1, <1>2 DEF RequestRight
<1>4. ListsInstalled /\ KeptRight /\ g \in 1 .. Len(gen) /\ HasContext(r)
  BY <1>1, <1>3, ListFacts DEF PageInv, HasContext
<1>5. PICK x \in Turns(r) :
        /\ req' = [req EXCEPT ![r].todo = @ \ {x},
                              ![r].found[x[1]] = Append(@, Content(r, req[r].list, x[1], x[2]))]
        /\ Renders(r, req[r].list, x[1], x[2])
  BY DEF Inject
<1>6. PICK i \in DOMAIN gen[g], j \in Nat :
        /\ j \in DOMAIN gen[g][i].rules /\ x = <<i, j>> /\ x \in p.todo
        /\ \A k \in Nat : <<i, k>> \in p.todo => j <= k
  <2>1. p.todo \subseteq Matching(gen[g], {"inject"})
    BY <1>1, <1>3 DEF Rendering
  <2>2. PICK i \in DOMAIN gen[g] : \E j \in DOMAIN gen[g][i].rules :
          /\ x = <<i, j>> /\ x \in p.todo
          /\ \A k \in Nat : <<i, k>> \in p.todo => j <= k
    BY <1>1, <1>2, <1>4, <2>1, TurnsFirst
  <2>3. \A j \in DOMAIN gen[g][i].rules : j \in Nat
    BY <1>4, ListFacts, InstallableFacts
  <2> QED BY <2>2, <2>3
<1>7. Place(g, i, j) /\ Addon(g, i) = gen[g][i] /\ Rule(g, i, j) = gen[g][i].rules[j]
      /\ gen[g][i] \in Installable /\ i \in DOMAIN p.found
  BY <1>1, <1>3, <1>4, <1>6, ListFacts DEF Place, Addon, Rule, Rendering
<1>8. PICK n \in 0 .. Len(gen[g][i].rules) : Progress(p, i, n)
  BY <1>1, <1>3, <1>6 DEF Rendering
<1>9. Includes(r, Addon(g, i).id) /\ Renders(r, g, i, j)
  <2>1. Allowed(gen[g][i], p.tenant)
    BY <1>1, <1>6, <1>8 DEF Progress
  <2> QED BY <1>1, <1>5, <1>6, <1>7, <2>1, IncludesAllowed
<1>10. Grows /\ KeptRight'
  BY <1>2, <1>4, <1>7, <1>9, RendersRight
<1>11. PICK C : C = Content(r, g, i, j)
  OBVIOUS
<1>12. /\ C.text = gen[g][i].rules[j].text /\ C \in Renderings(g, p.tenant)
       /\ p.context = g /\ InStep(g, p.tenant) => C \in CurrentRenderings(g, p.tenant)
  BY <1>1, <1>4, <1>7, <1>9, <1>11, ContentFits
<1> DEFINE q == [p EXCEPT !.todo = @ \ {x}, !.found[i] = Append(@, C)]
<1>13. req' = [req EXCEPT ![r] = q]
  BY <1>1, <1>5, <1>6, <1>11 DEF PageInv
<1>14. /\ DOMAIN q = Fields /\ q.pc = "render" /\ q.list = g /\ q.todo = p.todo \ {x}
       /\ q.tenant = p.tenant /\ q.context = p.context
       /\ q.found = [p.found EXCEPT ![i] = Append(@, C)]
  BY <1>1, <1>2 DEF RequestRight, Fields
<1> HIDE DEF q
<1>15. /\ q.found[i] = Append(p.found[i], C) /\ DOMAIN q.found = DOMAIN p.found
       /\ \A k \in DOMAIN p.found : k # i => q.found[k] = p.found[k]
  BY <1>7, <1>14
<1>16. ASSUME NEW k \in DOMAIN gen[g]
       PROVE  RightParams(q, q.found[k]) /\ \E m \in 0 .. Len(gen[g][k].rules) : Progress(q, k, m)
  <2>1. k \in DOMAIN p.found /\ RightParams(p, p.found[k])
    BY <1>1, <1>3 DEF Rendering
  <2>2. RightParams(q, p.found[k])
    BY <1>1, <1>14, <2>1 DEF RightParams
  <2>3. CASE k # i
    <3>1. PICK m \in 0 .. Len(gen[g][k].rules) : Progress(p, k, m)
      BY <1>1, <1>3 DEF Rendering
    <3>2. \A y : <<k, y>> \in q.todo <=> <<k, y>> \in p.todo
      BY <1>6, <1>14, <2>3
    <3>3. Progress(q, k, m)
      BY <1>1, <1>14, <1>15, <2>1, <2>3, <3>1, <3>2 DEF Progress
    <3> QED BY <1>15, <2>1, <2>2, <2>3, <3>3
  <2>4. CASE k = i
    <3>1. RightParams(q, Append(p.found[i], C))
      BY <1>12, <1>14, <2>2, <2>4, RightParamsAppended
    <3>2. Progress(q, i, j)
      <4> DEFINE X == Renderings(p.list, p.tenant)
      <4>1. p.found[i] \in Seq(X)
        BY <2>1, <2>4 DEF RightParams
      <4> HIDE DEF X
      <4>2. PICK a : a = gen[g][i]
        OBVIOUS
      <4>3. /\ a \in Installable /\ a = gen[p.list][i] /\ q.list = p.list /\ q.tenant = p.tenant
            /\ q.found[i] = Append(p.found[i], C) /\ q.todo = p.todo \ {<<i, j>>}
            /\ C.text = a.rules[j].text /\ n \in 0 .. Len(a.rules) /\ Progress(p, i, n)
            /\ j \in DOMAIN a.rules /\ <<i, j>> \in p.todo
            /\ \A y \in Nat : <<i, y>> \in p.todo => j <= y
        BY <1>1, <1>6, <1>7, <1>8, <1>12, <1>14, <1>15, <4>2
      <4> QED BY <4>1, <4>3, ProgressMade
    <3>3. j \in 0 .. Len(gen[g][i].rules)
      BY <1>6, <1>7, InstallableFacts
    <3> QED BY <1>15, <2>4, <3>1, <3>2, <3>3
  <2> QED BY <2>3, <2>4
<1>17. Rendering(q)
  <2>1. Unreplaced(q, q.list)
    BY <1>1, <1>3, <1>14 DEF Rendering, Unreplaced
  <2>2. /\ q.todo \subseteq Matching(gen[q.list], {"inject"})
        /\ q.found = [k \in DOMAIN gen[q.list] |-> q.found[k]]
    BY <1>1, <1>3, <1>14, <1>15 DEF Rendering
  <2> QED BY <1>14, <1>16, <2>1, <2>2 DEF Rendering
<1>18. RequestRight(q)
  BY <1>1, <1>3, <1>14, <1>17 DEF RequestRight
<1>19. RequestRight(q)'
  BY <1>10, <1>18, RequestKept
<1> QED BY <1>10, <1>13, <1>19, OneRequest

LEMMA AnswerRight ==
  ASSUME PageInv, NEW r \in Requests, Answer(r)
  PROVE  PageInv'
<1>1. PICK p, g : p = req[r] /\ g = p.list
  OBVIOUS
<1>2. RequestRight(p) /\ p.pc = "render" /\ p.todo = {} /\ gen' = gen
  BY <1>1 DEF PageInv, Range, Answer
<1>3. /\ Rendering(p) /\ p.tenant \in Ids \cup {Visitor}
      /\ p.context \in 1 .. Len(gen) /\ g \in p.context .. Len(gen)
  BY <1>1, <1>2 DEF RequestRight
<1>4. ListsInstalled /\ g \in 1 .. Len(gen) /\ DOMAIN gen[g] = 1 .. Len(gen[g]) /\ Len(gen[g]) \in Nat
      /\ \A i \in DOMAIN gen[g] : gen[g][i] \in Installable
  BY <1>1, <1>3, ListFacts DEF PageInv
<1>5. Grows /\ KeptRight'
  BY NothingGrows, KeptStays DEF PageInv, Answer
<1>6. PICK s : s = p.found
  OBVIOUS
<1>7. DOMAIN s = DOMAIN gen[g] /\ \A i \in DOMAIN gen[g] : RightParams(p, s[i])
  BY <1>1, <1>3, <1>6 DEF Rendering
<1> DEFINE q == [p EXCEPT !.pc = "done", !.page = FlattenSeq(s)]
<1>8. req' = [req EXCEPT ![r] = q]
  BY <1>1, <1>6 DEF PageInv, Answer
<1>9. /\ DOMAIN q = Fields /\ q.pc = "done" /\ q.list = g /\ q.page = FlattenSeq(s)
      /\ q.tenant = p.tenant /\ q.context = p.context
  BY <1>1, <1>2 DEF RequestRight, Fields
<1> HIDE DEF q
<1> DEFINE Merges(X) == (\A i \in DOMAIN s : s[i] \in Seq(X)) => s \in Seq(Seq(X))
<1>10. s = [i \in 1 .. Len(gen[g]) |-> s[i]]
  BY <1>1, <1>3, <1>4, <1>6 DEF Rendering
<1>11. \A X : Merges(X)
  <2> SUFFICES ASSUME NEW X, \A i \in DOMAIN s : s[i] \in Seq(X) PROVE s \in Seq(Seq(X))
    OBVIOUS
  <2> DEFINE N == Len(gen[g])
             Y == Seq(X)
  <2>1. N \in Nat /\ s = [i \in 1 .. N |-> s[i]] /\ \A i \in 1 .. N : s[i] \in Y
    BY <1>4, <1>7, <1>10
  <2> HIDE DEF N, Y
  <2>2. s \in Seq(Y)
    BY <2>1
  <2> QED BY <2>2 DEF Y
<1> HIDE DEF Merges
<1>12. RightParams(q, FlattenSeq(s))
  <2> DEFINE X == Renderings(g, p.tenant)
             Y == CurrentRenderings(g, p.tenant)
             current == p.context = g /\ InStep(g, p.tenant)
  <2>1. \A i \in DOMAIN s : s[i] \in Seq(X) /\ (current => s[i] \in Seq(Y))
    BY <1>1, <1>7 DEF RightParams
  <2> HIDE DEF X, Y, current
  <2>2. s \in Seq(Seq(X)) /\ (current => s \in Seq(Seq(Y)))
    BY <1>11, <2>1 DEF Merges
  <2>3. FlattenSeq(s) \in Seq(X)
    BY <2>2, FlattenType
  <2>4. current => FlattenSeq(s) \in Seq(Y)
    BY <2>2, FlattenType
  <2> QED BY <1>9, <2>3, <2>4 DEF RightParams, X, Y, current
<1>13. Texts(FlattenSeq(s)) = InjectedBy(gen[g], p.tenant)
  <2>1. ASSUME NEW i \in DOMAIN s
        PROVE  Texts(s[i]) = IF Allowed(gen[g][i], p.tenant)
                               THEN Texts(Only(gen[g][i].rules, Injecting(gen[g][i].rules))) ELSE <<>>
    <3>1. PICK a : a = gen[g][i]
      OBVIOUS
    <3>2. PICK n \in 0 .. Len(a.rules) : Progress(p, i, n)
      BY <1>1, <1>3, <1>7, <3>1 DEF Rendering
    <3>3. /\ \A k \in DOMAIN a.rules : ~(k > n /\ a.rules[k].action = "inject"
                              /\ Allowed(a, p.tenant))
          /\ Texts(s[i]) = IF Allowed(a, p.tenant)
                             THEN Texts(Picked(a.rules, Injecting(a.rules))[n]) ELSE <<>>
      BY <1>1, <1>2, <1>6, <3>1, <3>2 DEF Progress
    <3>4. ASSUME Allowed(a, p.tenant)
          PROVE  Picked(a.rules, Injecting(a.rules))[n] = Only(a.rules, Injecting(a.rules))
      <4> DEFINE I == Injecting(a.rules)
                 u == a.rules
                 N == Len(u)
      <4>1. u \in Seq(Range(u)) /\ N \in Nat /\ DOMAIN u = 1 .. N /\ a \in Installable
        BY <1>4, <1>7, <3>1, InstallableFacts
      <4>2. \A k \in n + 1 .. N : u[k] \notin I
        BY <3>3, <3>4, <4>1 DEF Injecting
      <4>3. Only(u, I) = Picked(u, I)[N]
        <5> HIDE DEF I, u
        <5> QED BY <4>1, PickedStep
      <4>4. N \in n .. Len(u)
        BY <4>1
      <4> HIDE DEF I, u, N
      <4>5. Picked(u, I)[N] = Picked(u, I)[n]
        BY <4>1, <4>2, <4>4, PickedSkips DEF u
      <4> QED BY <4>3, <4>5 DEF u, I
    <3> QED BY <3>1, <3>3, <3>4
  <2>2. InjectedBy(gen[g], p.tenant) = FlattenSeq([i \in DOMAIN s |-> Texts(s[i])])
    BY <1>7, <2>1 DEF InjectedBy, Injecting
  <2>3. \E X : s \in Seq(Seq(X))
    <3> DEFINE X == Renderings(g, p.tenant)
    <3>1. \A i \in DOMAIN s : s[i] \in Seq(X)
      BY <1>1, <1>7 DEF RightParams
    <3> HIDE DEF X
    <3> QED BY <1>11, <3>1 DEF Merges
  <2>4. Texts(FlattenSeq(s)) = FlattenSeq([i \in DOMAIN s |-> Texts(s[i])])
    BY <2>3, FlattenTexts
  <2> QED BY <2>2, <2>4
<1>14. OwnTexts(q)'
  <2>1. \E h \in q.context .. q.list : ReplacedBy(gen'[h], q.tenant) = <<>>
    BY <1>1, <1>2, <1>3, <1>9 DEF Rendering, Unreplaced
  <2>2. Texts(q.page) = InjectedBy(gen'[q.list], q.tenant)
    BY <1>2, <1>9, <1>13
  <2> QED BY <2>1, <2>2 DEF OwnTexts, Unreplaced
<1>15. RightParams(q, q.page)'
  BY <1>4, <1>5, <1>9, <1>12, RightParamsKept
<1>16. q.context \in 1 .. Len(gen') /\ q.list \in q.context .. Len(gen')
  BY <1>1, <1>2, <1>3, <1>9
<1>17. RequestRight(q)'
  BY <1>3, <1>9, <1>14, <1>15, <1>16 DEF RequestRight
<1> QED BY <1>5, <1>8, <1>17, OneRequest

\* The strengthened invariant: the pages under way, and what the rules keep, are right
\* at every moment between the two readings of the list (server.go:305, matcher.go:57).
THEOREM PagesStayRight == PageSpec => []PageInv
<1>1. PageInit => PageInv
  BY InitRight
<1>2. PageInv /\ [PageNext]_pageVars => PageInv'
  <2> SUFFICES ASSUME PageInv, [PageNext]_pageVars PROVE PageInv'
    OBVIOUS
  <2>1. CASE UNCHANGED pageVars
    <3>1. Grows /\ KeptRight' /\ req' = req
      BY <2>1, NothingGrows, KeptStays DEF pageVars, PageInv
    <3>2. \A q \in Range(req) : RequestRight(q)'
      BY <3>1, RequestKept DEF PageInv
    <3> QED BY <3>1, <3>2 DEF PageInv, Grows
  <2>2. ASSUME NEW r \in Requests,
               Arrive(r) \/ Context(r) \/ Replace(r) \/ Match(r) \/ Inject(r) \/ Answer(r)
        PROVE  PageInv'
    BY <2>2, ArriveRight, ContextRight, ReplaceRight, MatchRight, InjectRight, AnswerRight
  <2>3. CASE ReplaceAddons
    BY <2>3, ReloadRight
  <2> QED BY <2>1, <2>2, <2>3 DEF PageNext
<1> QED BY <1>1, <1>2, PTL DEF PageSpec

\* What the invariant says of a page that was answered.
LEMMA PageOf ==
  ASSUME PageInv, NEW r \in Requests, req[r].pc = "done"
  PROVE  OwnTexts(req[r]) /\ RightParams(req[r], req[r].page)
BY DEF PageInv, RequestRight, Range

\* A page is what the tenant's addons make of it, rendered with nobody else's parameters
\* (matcher.go:95, addon.go:183): whatever the lists, the tenants, the number of requests
\* and of reloads.
THEOREM OwnPageCorrect == PageSpec => []OwnPage
<1>1. PageInv => OwnPage
  <2> SUFFICES ASSUME PageInv, NEW r \in Requests, req[r].pc = "done"
               PROVE  LET t == req[r].tenant
                          l == gen[req[r].list]
                          texts == Texts(req[r].page)
                      IN /\ \/ texts = ReplacedBy(l, t) /\ texts # <<>>
                            \/ /\ texts = InjectedBy(l, t)
                               /\ \E h \in req[r].context .. req[r].list : ReplacedBy(gen[h], t) = <<>>
                         /\ \A c \in Range(req[r].page) :
                              \E a \in Range(l), p \in Known(t) :
                                \E rule \in Range(a.rules) : c = RenderResource(rule, p)
    BY DEF OwnPage
  <2>1. OwnTexts(req[r]) /\ RightParams(req[r], req[r].page)
    BY PageOf
  <2>2. ASSUME NEW c \in Range(req[r].page)
        PROVE  \E a \in Range(gen[req[r].list]), p \in Known(req[r].tenant) :
                 \E rule \in Range(a.rules) : c = RenderResource(rule, p)
    <3> DEFINE X == Renderings(req[r].list, req[r].tenant)
    <3>1. req[r].page \in Seq(X)
      BY <2>1 DEF RightParams
    <3> HIDE DEF X
    <3>2. c \in X
      BY <3>1 DEF Range
    <3> QED BY <3>2 DEF X, Renderings
  <2> QED BY <2>1, <2>2 DEF OwnTexts, Unreplaced
<1> QED BY <1>1, PagesStayRight, PTL

\* A page whose context and rules are of one list shows that list's parameters, unless the
\* tenant was rendered with an older context there (server.go:305, addon.go:199).
THEOREM PageIsCurrentCorrect == PageSpec => []PageIsCurrent
<1>1. PageInv => PageIsCurrent
  <2> SUFFICES ASSUME PageInv, NEW r \in Requests, req[r].pc = "done",
                      req[r].context = req[r].list,
                      <<req[r].list, req[r].tenant>> \notin straddled,
                      DistinctIds(gen[req[r].list]), NEW c \in Range(req[r].page)
               PROVE  \E a \in Range(gen[req[r].list]) : \E rule \in Range(a.rules) :
                        c = RenderResource(rule, InForce(a, req[r].tenant))
    BY DEF PageIsCurrent
  <2> DEFINE X == CurrentRenderings(req[r].list, req[r].tenant)
  <2>1. req[r].page \in Seq(X)
    BY PageOf DEF RightParams, InStep
  <2> HIDE DEF X
  <2>2. c \in X
    BY <2>1 DEF Range
  <2> QED BY <2>2 DEF X, CurrentRenderings
<1> QED BY <1>1, PagesStayRight, PTL
=============================================================================
