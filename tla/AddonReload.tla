----------------------------- MODULE AddonReload -----------------------------
(***************************************************************************)
(* Addon loading and hot reload (internal/addon/loader.go, the watcher in  *)
(* main.go): the list loaded at start, the watches set up after it, events,*)
(* the debounce timer, and reloads that read the directory while somebody  *)
(* edits it and while other reloads run.                                   *)
(*                                                                         *)
(* A file tree is abstracted to its directories: each holds one version of *)
(* its files, and is in order or not.  The addon directory itself is not   *)
(* removed, and the kernel's event queue does not overflow.                *)
(***************************************************************************)
EXTENDS Naturals, Sequences, FiniteSets, SequencesExt

CONSTANTS
  Order,     \* the addon directories, in the order of os.ReadDir
  Parent,    \* each directory to the one that holds it; None for the addons' own
  Above,     \* each directory to all that hold it, at any depth, up to the addon's own
  Enabled,   \* addons.enabled; none means all
  Starts,    \* the sets of directories there may be when the program starts
  MaxEdits,  \* bound on changes of the tree, for model checking
  MaxLoads,  \* bound on reloads that run at the same time
  None

Dirs == DOMAIN Parent
Addons == {Order[i] : i \in DOMAIN Order}

ASSUME ParentAssumption == Parent \in [Dirs -> Dirs \cup {None}]

\* The directories are a forest of any depth.
ASSUME AboveAssumption ==
  /\ Above \in [Dirs -> SUBSET Dirs]
  /\ \A d \in Dirs :
       /\ d \notin Above[d]
       /\ Above[d] = IF Parent[d] = None THEN {} ELSE {Parent[d]} \cup Above[Parent[d]]
       /\ \A x, y \in Above[d] : x = y \/ x \in Above[y] \/ y \in Above[x]

ASSUME StartsAssumption == \A there \in Starts : \A d \in there \cap Dirs : Above[d] \subseteq there

ASSUME OrderAssumption == Addons = {d \in Dirs : Parent[d] = None}
ASSUME BoundsAssumption == MaxEdits \in Nat /\ MaxLoads \in Nat \ {0}

\* What a directory holds: no addon.toml yet (or no resource), or files in order, or
\* files that do not load.
Kinds == {"bare", "good", "bad"}

Contents == [version : 0 .. MaxEdits, kind : Kinds]

\* None is no directory, no content and no set of places in Order.
ASSUME NoneAssumption ==
  /\ None \notin Dirs \cup Contents
  /\ \A places \in SUBSET DOMAIN Order : None # places

VARIABLES
  tree,       \* each directory: None, or the version and kind of its files
  edits,      \* number of changes so far; also the latest version
  kernel,     \* directories the kernel watches
  watched,    \* addonWatcher.watched
  events,     \* paths of events not yet received; None is a plain file's
  phase,      \* main: "load", "watch", "run", "stopped"
  timer,      \* the debounce timer is set
  loads,      \* reloads under way, in the order they started
  list,       \* the addons in use: pairs of an addon and the versions loaded
  overtaken,  \* the list in use was installed after that of a newer reload
  unseen      \* the tree changed without an event since a reload last started

vars == <<tree, edits, kernel, watched, events, phase, timer, loads, list, overtaken, unseen>>
treeVars == <<tree, edits, kernel>>
loadVars == <<loads, list, overtaken>>

-----------------------------------------------------------------------------
(* LoadAddons on one directory.                                            *)

Below(a) == {a} \cup {d \in Dirs : a \in Above[d]}

Exists(d) == tree[d] # None

HasManifest(a) == Exists(a) /\ tree[a].kind # "bare"

IsEnabled(a) == Enabled = {} \/ a \in Enabled

\* Resolving, compiling and validating succeed.
InOrder(a) == \A d \in Below(a) : Exists(d) /\ tree[d].kind = "good"

Loads(a) == HasManifest(a) /\ IsEnabled(a) /\ InOrder(a)

\* The manifest is parsed before the addon is found not to be enabled.
Fails(a) == HasManifest(a) /\ (tree[a].kind = "bad" \/ (IsEnabled(a) /\ ~InOrder(a)))

Loaded(a) == IF Loads(a) THEN {<<a, [d \in Below(a) |-> tree[d].version]>>} ELSE {}

\* What a load would bring if nothing changed meanwhile.
Fresh == UNION {Loaded(a) : a \in Addons}

-----------------------------------------------------------------------------
(* Whoever edits the addon directory.                                      *)

HolderThere(d) == Parent[d] \in {None} \cup {x \in Dirs : Exists(x)}

\* The kernel reports on what happens in and to watched directories; the root is
\* watched once main has set up the watcher.
EntryReported(d) == phase = "run" /\ Parent[d] \in kernel \cup {None}

\* After the watcher stopped nothing is promised, and no change is looked at.
Change(d, event, reported) ==
  /\ edits < MaxEdits /\ phase # "stopped"
  /\ edits' = edits + 1
  /\ events' = events \cup (IF reported THEN {event} ELSE {})
  /\ unseen' = (unseen \/ ~reported)
  /\ loads' = [i \in DOMAIN loads |-> [loads[i] EXCEPT !.steady = @ \ ({d} \cup Above[d])]]
  /\ UNCHANGED <<watched, phase, timer, list, overtaken>>

MakeDir(d) ==
  /\ ~Exists(d) /\ HolderThere(d)
  /\ tree' = [tree EXCEPT ![d] = [version |-> edits + 1, kind |-> "bare"]]
  /\ Change(d, d, EntryReported(d))
  /\ UNCHANGED kernel

WriteFile(d) ==
  /\ Exists(d)
  /\ \E kind \in {"good", "bad"} : tree' = [tree EXCEPT ![d] = [version |-> edits + 1, kind |-> kind]]
  /\ Change(d, None, d \in kernel)
  /\ UNCHANGED kernel

\* A directory goes with what is below it, and so do the kernel's watches.
RemoveDir(d) ==
  /\ Exists(d)
  /\ LET gone == Below(d)
     IN /\ tree' = [x \in Dirs |-> IF x \in gone THEN None ELSE tree[x]]
        /\ kernel' = kernel \ gone
  /\ Change(d, d, EntryReported(d) \/ d \in kernel)

Edit == \E d \in Dirs : MakeDir(d) \/ WriteFile(d) \/ RemoveDir(d)

-----------------------------------------------------------------------------
(* The watcher.                                                            *)

\* Mutant: only directories at the first level are added.
AddTopLevel(ds) ==
  LET new == {x \in ds \cap Addons : Exists(x)} \ watched
  IN /\ kernel' = kernel \cup new
     /\ watched' = watched \cup new

\* addTree: every directory at and below d that was never watched is watched now.
AddTree(ds) ==
  LET new == {x \in ds : Exists(x)} \ watched
  IN /\ kernel' = kernel \cup new
     /\ watched' = watched \cup new

\* main: the list in use when serving starts.
LoadFirst ==
  /\ phase = "load"
  /\ list' = Fresh
  /\ phase' = "watch"
  /\ unseen' = FALSE
  /\ UNCHANGED <<treeVars, watched, events, timer, loads, overtaken>>

\* newAddonWatcher; the event loop starts.
Watch ==
  /\ phase = "watch"
  /\ AddTree(Dirs)
  /\ phase' = "run"
  /\ UNCHANGED <<tree, edits, events, timer, loadVars, unseen>>

\* Mutant: the timer counts as set until the reload it started is over.
ReceiveOncePerReload ==
  /\ phase = "run"
  /\ \E path \in events :
       /\ events' = events \ {path}
       /\ IF path # None /\ Exists(path)
            THEN AddTree(Below(path))
            ELSE UNCHANGED <<kernel, watched>>
  /\ timer' = (timer \/ loads = <<>>)
  /\ UNCHANGED <<tree, edits, phase, loadVars, unseen>>

\* run: one event; a directory is added with all below it, then poke.
Receive ==
  /\ phase = "run"
  /\ \E path \in events :
       /\ events' = events \ {path}
       /\ IF path # None /\ Exists(path)
            THEN AddTree(Below(path))
            ELSE UNCHANGED <<kernel, watched>>
  /\ timer' = TRUE
  /\ UNCHANGED <<tree, edits, phase, loadVars, unseen>>

\* reload begins; steady is history: the addons in order ever since.
NewLoad ==
  [todo |-> None, got |-> {}, failed |-> FALSE, late |-> FALSE,
   steady |-> {a \in Addons : Loads(a)}]

\* The timer is cleared before the reload begins, so that a change during the reload
\* sets it again.
Fire ==
  /\ timer
  /\ timer' = FALSE
  /\ Len(loads) < MaxLoads
  /\ loads' = Append(loads, NewLoad)
  /\ unseen' = FALSE
  /\ UNCHANGED <<treeVars, watched, events, phase, list, overtaken>>

\* os.ReadDir: todo is the entries still to load, by their places in Order.
ReadDir(i) ==
  /\ loads[i].todo = None
  /\ loads' = [loads EXCEPT ![i].todo = {k \in DOMAIN Order : Exists(Order[k])}]
  /\ UNCHANGED <<treeVars, watched, events, phase, timer, list, overtaken, unseen>>

\* Mutant: the first addon that does not load ends the reload.
LoadNextOrGiveUp(i) ==
  /\ loads[i].todo # None
  /\ \E next \in loads[i].todo :
       /\ \A k \in loads[i].todo : next <= k
       /\ LET a == Order[next]
          IN loads' = [loads EXCEPT ![i].todo = IF Fails(a) THEN {} ELSE @ \ {next},
                                    ![i].got = @ \cup Loaded(a),
                                    ![i].failed = @ \/ Fails(a)]
  /\ UNCHANGED <<treeVars, watched, events, phase, timer, list, overtaken, unseen>>

\* One round of the loop: an addon that does not load is counted and skipped.
LoadNext(i) ==
  /\ loads[i].todo # None
  /\ \E next \in loads[i].todo :
       /\ \A k \in loads[i].todo : next <= k
       /\ LET a == Order[next]
          IN loads' = [loads EXCEPT ![i].todo = @ \ {next},
                                    ![i].got = @ \cup Loaded(a),
                                    ![i].failed = @ \/ Fails(a)]
  /\ UNCHANGED <<treeVars, watched, events, phase, timer, list, overtaken, unseen>>

\* A reload that found nothing but failures leaves the list alone.
Keeps(load) == load.got = {} /\ load.failed

Finish(i) ==
  /\ loads[i].todo = {}
  /\ IF Keeps(loads[i])
       THEN /\ loads' = RemoveAt(loads, i)
            /\ UNCHANGED <<list, overtaken>>
       ELSE /\ loads' = RemoveAt([j \in DOMAIN loads |-> [loads[j] EXCEPT !.late = @ \/ j < i]], i)
            /\ list' = loads[i].got
            /\ overtaken' = loads[i].late
  /\ UNCHANGED <<treeVars, watched, events, phase, timer, unseen>>

\* The process is told to stop: the kernel's watches and events go with the watcher; a
\* timer that is set still fires.
Stop ==
  /\ phase = "run"
  /\ phase' = "stopped"
  /\ kernel' = {} /\ events' = {}
  /\ UNCHANGED <<tree, edits, watched, timer, loadVars, unseen>>

-----------------------------------------------------------------------------
Init ==
  /\ \E there \in Starts :
       tree = [d \in Dirs |-> IF d \in there THEN [version |-> 0, kind |-> "good"] ELSE None]
  /\ edits = 0
  /\ kernel = {} /\ watched = {} /\ events = {}
  /\ phase = "load"
  /\ timer = FALSE
  /\ loads = <<>> /\ list = {}
  /\ overtaken = FALSE /\ unseen = FALSE

Reload(i) == ReadDir(i) \/ LoadNext(i) \/ Finish(i)

Next ==
  \/ Edit
  \/ LoadFirst \/ Watch \/ Receive \/ Fire \/ Stop
  \/ \E i \in DOMAIN loads : Reload(i)

Fairness ==
  /\ WF_vars(LoadFirst \/ Watch) /\ WF_vars(Receive) /\ WF_vars(Fire)
  /\ \A i \in 1 .. MaxLoads : WF_vars(i \in DOMAIN loads /\ Reload(i))

Spec == Init /\ [][Next]_vars /\ Fairness
-----------------------------------------------------------------------------
\* Every variable has its type.
TypeOK ==
  /\ tree \in [Dirs -> {None} \cup Contents]
  /\ edits \in 0 .. MaxEdits
  /\ kernel \subseteq watched /\ watched \subseteq Dirs
  /\ events \subseteq Dirs \cup {None}
  /\ phase \in {"load", "watch", "run", "stopped"}
  /\ timer \in BOOLEAN
  /\ Len(loads) <= MaxLoads
  /\ overtaken \in BOOLEAN /\ unseen \in BOOLEAN

\* A directory that was removed and made again: addTree takes it for watched.
Forgotten(d) == d \in watched \ kernel /\ Exists(d)

\* Directories created at any depth are taken under watch (main.go:482), whatever the
\* order of their creation and of the events: one that is not watched, in one that is or
\* in the root, has its own event still to come, which takes all below it under watch,
\* or was removed and made again.  So from any directory without a watch such a one is
\* found going up.
EveryDirWatched ==
  phase = "run" =>
    \A d \in Dirs :
      Exists(d) /\ d \notin kernel =>
        Parent[d] \in Dirs \ kernel \/ d \in events \/ Forgotten(d)

\* The list in use is what the directory holds, or the directory holds only what
\* does not load.
Current == list = Fresh \/ (Fresh = {} /\ \E a \in Addons : Fails(a))

\* While the watcher runs, the last state of the directory comes into use, however
\* changes, events and reloads interleave: unless the kernel did not report the last
\* change, or a reload finished after one that had started later.
EventuallyCurrent == ~Current ~> (Current \/ unseen \/ overtaken \/ phase = "stopped")

\* One addon that does not load takes no other with it: an addon that was in order all
\* the time a reload ran is in the list the reload leaves, also when reloads overlap.
SteadyStays ==
  [][\A i \in DOMAIN loads :
       Finish(i) => loads[i].steady \subseteq {l[1] : l \in list'}]_vars
=============================================================================
