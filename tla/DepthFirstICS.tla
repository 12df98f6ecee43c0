--------------------------- MODULE DepthFirstICS ---------------------------
(***************************************************************************)
(* The exploration of all regions (DepthFirstICS in                         *)
(* cloud9/lib/ICS/SearchStrategy.cpp).  One region is explored at a time:    *)
(* symbolic execution runs the root state of the region under the next path  *)
(* constraint of its PathManager until one path ends, the path is processed  *)
(* and the other states are discarded.  A path that ends in a region not met *)
(* before leaves its state as the root of that region.                       *)
(*                                                                         *)
(* Symbolic execution is outside this module: PathOf says which path every   *)
(* input follows, Target where the path ends, Fails which paths end in a     *)
(* memory error.  The limits on paths, regions and depth are off, as they    *)
(* are by default.                                                          *)
(***************************************************************************)
EXTENDS PathManager, FiniteSets

CONSTANTS
  Region,   \* ParallelRegionId
  Initial,  \* the region that starts at program entry
  PathOf,   \* region -> input -> path
  Target,   \* path -> {the region it ends in}, {} if it exits or deadlocks
  Fails     \* the paths that end in "ptr.err"

\* An input satisfies the conditions and the assertions of the path it follows; a
\* path ends in one place.
ASSUME ProgramAssumption ==
  /\ Initial \in Region
  /\ PathOf \in [Region -> [Input -> Path]]
  /\ \A r \in Region : \A i \in Input : \A k \in DOMAIN Slice[PathOf[r][i]] :
       i \in UNION Slice[PathOf[r][i]][k].cond /\ i \in Meaning(Asserted(PathOf[r][i], k))
  /\ Target \in [Path -> SUBSET Region] /\ \A p \in Path : \A r, t \in Target[p] : r = t
  /\ Fails \subseteq Path

VARIABLES
  phase,           \* "root" until klee_ics_begin, "run", or "done"
  current,         \* _currRegion
  base,            \* the path constraint the root was last forked under
  queue,           \* _currQueue: the paths that its states can still take
  regions,         \* _regions
  localRegions,    \* _localRegions
  numericId,       \* numericId of a region, 0 before it has one
  nextId,          \* _nextRegionNumericId
  regionsFrontier, \* _regionsFrontier
  localFrontier,   \* _localRegionsFrontier
  completed,       \* the regions that _completedRegions counts
  schedules        \* region -> the schedules of its PathManager when completed

ids    == <<localRegions, numericId, nextId>>
search == <<phase, current, base, queue>>
others == <<regions, regionsFrontier, completed, schedules>>
vars   == <<pathVars, search, ids, others, localFrontier>>

\* The paths of states forked from the root under constraint C.
PathsUnder(C) == {PathOf[current][i] : i \in Meaning(C)}
-----------------------------------------------------------------------------
\* The constructor adds the initial region.
Init ==
  /\ PathInit
  /\ phase = "root" /\ current = Initial /\ base = {} /\ queue = {}
  /\ regions = {} /\ localRegions = {Initial}
  /\ numericId = [r \in Region |-> IF r = Initial THEN 1 ELSE 0]
  /\ nextId = 2
  /\ regionsFrontier = {} /\ localFrontier = {}
  /\ completed = {}
  /\ schedules = [r \in Region |-> <<>>]

KnownRegionsLocal == localRegions

\* The regions that have a ParallelRegionInfo.
KnownRegions == localRegions \cup regions

addRegion(r) ==
  /\ localRegions' = localRegions \cup {r}
  /\ \/ r \in KnownRegions /\ UNCHANGED <<numericId, nextId>>
     \/ /\ r \notin KnownRegions
        /\ numericId' = [numericId EXCEPT ![r] = nextId]
        /\ nextId' = nextId + 1

\* The first fork of the root has no constraint.
onIcsBegin ==
  /\ phase = "root"
  /\ phase' = "run"
  /\ base' = {}
  /\ queue' = PathsUnder({})
  /\ UNCHANGED <<pathVars, ids, others, current, localFrontier>>

DiscardKeeps(p) == queue

\* onStateDeactivated: a memory error discards the state.
Discard(p) == queue \ {p}

onStateDiscarded ==
  /\ phase = "run" /\ stage = "idle"
  /\ \E p \in queue \cap Fails : queue' = Discard(p)
  /\ UNCHANGED <<pathVars, ids, others, phase, current, base, localFrontier>>

\* onStateDeactivated and onIcsMaybeEndRegion: a path ends, at the exit of the
\* program or where all threads have reached a region marker, and processPath
\* computes its slice.
EndPath ==
  /\ phase = "run"
  /\ \E p \in queue \ Fails : BeginSlice(p)
  /\ UNCHANGED <<search, ids, others, localFrontier>>

\* The rest of processPath and of its caller: the region edge is added, the
\* other states are discarded and, in a new region, this one becomes its root.
processPath ==
  /\ EndSubsume
  /\ queue' = {}
  /\ \/ Target[path] = {} /\ UNCHANGED <<ids, localFrontier>>
     \/ \E r \in Target[path] :
          /\ addRegion(r)
          /\ localFrontier' = IF r \in KnownRegions THEN localFrontier
                                                    ELSE localFrontier \cup {r}
  /\ UNCHANGED <<others, phase, current, base>>

\* onNextJobSelection, with nothing left to execute: the next path ...
NextPath ==
  /\ phase = "run" /\ stage = "idle" /\ queue = {}
  /\ instantiateNextInput
  /\ base' = Head(frontier).canon
  /\ queue' = PathsUnder(Head(frontier).canon \cup given')
  /\ UNCHANGED <<ids, others, phase, current, localFrontier>>

\* clearCaches
CachesCleared == frontierSet' = {} /\ exploredSet' = {}

\* ... or, with nothing on the frontier either, the end of the region: the
\* staging area is flushed and the next region becomes the current one.
NextRegion ==
  /\ phase = "run" /\ stage = "idle" /\ queue = {} /\ frontier = <<>>
  /\ regions' = regions \cup localRegions
  /\ localFrontier' = {}
  /\ completed' = completed \cup {current}
  /\ schedules' = [schedules EXCEPT ![current] = explored]
  /\ CachesCleared
  /\ LET waiting == regionsFrontier \cup localFrontier IN
     \/ /\ waiting = {}
        /\ phase' = "done" /\ localRegions' = {}
        /\ UNCHANGED <<explored, current, regionsFrontier>>
     \/ \E r \in waiting :
          /\ phase' = "root" /\ current' = r
          /\ localRegions' = {r}
          /\ explored' = schedules'[r]
          /\ regionsFrontier' = waiting \ {r}
  /\ base' = {} /\ given' = {}
  /\ UNCHANGED <<frontier, builder, queue, numericId, nextId>>

Next ==
  \/ onIcsBegin \/ onStateDiscarded \/ EndPath
  \/ processSlice /\ UNCHANGED <<search, ids, others, localFrontier>>
  \/ processPath \/ NextPath \/ NextRegion

Spec == Init /\ [][Next]_vars

\* The worker runs until there is no job left.
FairSpec == Spec /\ WF_vars(Next)
-----------------------------------------------------------------------------
(* Properties                                                               *)

Schedule == [path : Path, list : Seq([cond : Cond, node : Nat])]

\* The inputs of a region whose path does not fail.
Good(r) == {i \in Input : PathOf[r][i] \notin Fails}

\* The inputs that satisfy the assertions, and the conditions too, of a slice
\* before branch k.
Asserting(p, k) == Meaning(Asserted(p, k - 1))
Before(p, k) == {i \in Asserting(p, k) : \A m \in 1 .. k - 1 : i \in UNION Slice[p][m].cond}

\* The ones that are at branch k: those that have passed the assertions on the way
\* to it.
At(p, k) == Before(p, k) \cap Asserting(p, k + 1)

\* What the search needs of the slicer in a region: an input that agrees with a
\* path up to a branch meets the same assertions on the way to it, and is either
\* given the same branch by its own slice, or one of the targets that the flips
\* of this branch name.
AgreesWith(j, q, p) ==
  \A k \in DOMAIN Slice[p] : j \in Before(p, k) =>
    /\ k \in DOMAIN Slice[q]
    /\ Slice[q][k].kept = Slice[p][k].kept /\ Slice[q][k].dropped = Slice[p][k].dropped
    /\ \/ /\ j \in UNION Slice[p][k].cond
          /\ Slice[q][k].cond = Slice[p][k].cond /\ Slice[q][k].flips = Slice[p][k].flips
       \/ \E f \in Slice[p][k].flips : j \in f
    /\ \A f \in Slice[p][k].flips : j \in f => f \in Slice[q][k].cond

\* What it needs of the assertions that go with a path constraint: they decide no
\* branch that they come after.
KeptDecideNothing(p) ==
  \A k \in DOMAIN Slice[p] :
    At(p, k) \cap Meaning(Kept(p, Len(Slice[p]))) \subseteq UNION Slice[p][k].cond =>
      At(p, k) \subseteq UNION Slice[p][k].cond

AgreeingRegions ==
  {r \in Region : \A i \in Good(r) :
     /\ KeptDecideNothing(PathOf[r][i])
     /\ \A j \in Good(r) : AgreesWith(j, PathOf[r][j], PathOf[r][i])}

SlicesAgree(r) == r \in AgreeingRegions

Conditions(s) == {s.list[k].cond : k \in DOMAIN s.list}
Covers(s, i) == \A k \in DOMAIN s.list : i \in UNION s.list[k].cond
Covered(scheds, i) == \E n \in DOMAIN scheds : Covers(scheds[n], i)

\* No input is lost between the frontier, the caches and the schedules: between
\* two paths, an input that no schedule of the region covers satisfies a path
\* constraint on the frontier, or the one whose states are still running.
InputsPending ==
  phase = "run" /\ stage = "idle" /\ SlicesAgree(current) =>
    \A i \in Good(current) :
      \/ Covered(explored, i)
      \/ \E n \in DOMAIN frontier : i \in Meaning(frontier[n].canon)
      \/ i \in Meaning(base) /\ PathOf[current][i] \in queue

\* A completed region is covered: every input of it whose path does not fail
\* satisfies one of its schedules.
RegionCovered ==
  \A r \in completed : SlicesAgree(r) => \A i \in Good(r) : Covered(schedules[r], i)

\* Dropping redundant branches loses nothing: an input whose path does not fail,
\* or that satisfies the assertions of the path, satisfies the constraint recorded
\* for a schedule exactly when it satisfies all of the path's slice.  (One that
\* violates an assertion may satisfy the recorded constraint alone: a branch that
\* the assertion implies is dropped, and the assertion is not recorded.)
SchedulesExact ==
  SlicesAgree(current) =>
    \A n \in DOMAIN explored :
      LET p == explored[n].path
          end == Len(Slice[p]) + 1
      IN \A i \in Good(current) \cup Asserting(p, end) :
           Covers(explored[n], i) <=> i \in Before(p, end)

\* Every schedule is found once: the caches keep the search from running a
\* path constraint again.
NoPathTwice ==
  SlicesAgree(current) =>
    \A m, n \in DOMAIN explored :
      Conditions(explored[m]) = Conditions(explored[n]) => m = n

\* A region is explored once, and every region is explored that a schedule leads
\* to: the regions met are the completed ones, the current one and the two
\* frontiers, these never overlap, and the schedules end in regions met.
RegionsOnce ==
  LET met == regions \cup localRegions IN
  /\ met = completed \cup {current} \cup regionsFrontier \cup localFrontier
  /\ regionsFrontier \cap localFrontier = {}
  /\ completed \cap (regionsFrontier \cup localFrontier) = {}
  /\ current \notin regionsFrontier \cup localFrontier
  /\ phase # "done" => current \notin completed
  /\ \A r \in completed : \A n \in DOMAIN schedules[r] :
       Target[schedules[r][n].path] \subseteq met

\* The numeric ids of the regions met are 1 .. nextId - 1, each once, the initial
\* region's first: the runtime indexes its tables with them.
IdsDense ==
  LET met == regions \cup localRegions IN
  /\ {numericId[r] : r \in met} = 1 .. nextId - 1
  /\ \A r, s \in met : numericId[r] = numericId[s] => r = s
  /\ numericId[Initial] = 1

\* klee_ics_begin finds nothing explored or queued for a region (the assertions
\* of onIcsBegin), and nothing remembered from the region before it.
FreshRegion ==
  phase = "root" => /\ frontier = <<>> /\ explored = <<>>
                    /\ frontierSet = {} /\ exploredSet = {}

\* When the search is over, every input of a region whose path does not
\* fail is covered by a schedule of the region.
InputsCovered ==
  phase = "done" => \A r \in completed : \A i \in Good(r) : Covered(schedules[r], i)

\* The search ends.
Terminates == <>(phase = "done")
=============================================================================
