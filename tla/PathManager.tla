---------------------------- MODULE PathManager ----------------------------
(***************************************************************************)
(* The search for the inputs of one region (cloud9/lib/ICS/PathManager.cpp). *)
(* When a path ends, its precondition slice is the list of the branches that *)
(* matter for the schedule; processSlice records the path and queues, for    *)
(* every branch of it, the inputs that go the other way.                     *)
(*                                                                         *)
(* A condition is the set of its disjuncts, each disjunct the set of inputs  *)
(* for which it is true: a plain condition has one disjunct, the condition   *)
(* of a switch that several targets share has more.  A path constraint is    *)
(* the set of its conditions, which is what its canonical form keeps of it.   *)
(*                                                                         *)
(* Between the branches a slice has assertions, whose other side is an error:  *)
(* they are not flipped and not part of the canonical form, but the solver    *)
(* sees them.  The kept ones (assumptions, bounds checks, converted branches)  *)
(* go with the path constraint as extra invariants, and those that its        *)
(* conditions depend on are added again before the path that is started under  *)
(* it, where they come first in its slice; the others (pointer aliasing, and   *)
(* concretization where an option says so) are dropped.                      *)
(*                                                                         *)
(* processSlice runs alone; its loops are taken one iteration per step.       *)
(* The solver answers every query.                                          *)
(***************************************************************************)
EXTENDS Naturals, Sequences

CONSTANTS
  Input,   \* what the symbolic memory and inputs of the region can hold
  Path,    \* the paths of symbolic execution
  Slice    \* path -> its slice: for each symbolic branch, cond its condition,
           \* flips the disjuncts of the other targets, node the number of HB
           \* nodes when it is taken, kept and dropped the assertions since the
           \* branch before it

VARIABLES
  frontier,     \* _frontier: [canon, extra], extra the extra invariants
  frontierSet,  \* _frontierSet
  explored,     \* _explored: [path, list], list the conditions in order
  exploredSet,  \* _exploredSet
  stage,        \* where processSlice is; "idle" outside it
  path,         \* its argument: the path that has ended
  pos,          \* the index of its current loop
  canon, list,  \* pcBuilder: the canonical form and the list of its conditions
  todo,         \* the flips of the current branch that are left
  given         \* the extra invariants that the path was started under

seen    == <<frontierSet, exploredSet>>
builder == <<stage, path, pos, canon, list, todo>>
pathVars == <<frontier, explored, seen, builder, given>>

Atom == SUBSET Input
Cond == SUBSET Atom
Branch == [cond : Cond, flips : SUBSET Atom, node : Nat,
           kept : SUBSET Cond, dropped : SUBSET Cond]

\* The flips of a branch are its other targets.
ASSUME SliceAssumption ==
  /\ Slice \in [Path -> Seq(Branch)]
  /\ \A p \in Path : \A k \in DOMAIN Slice[p] :
       \A f \in Slice[p][k].flips : f \cap UNION Slice[p][k].cond = {}

\* The inputs that satisfy a path constraint.
Meaning(C) == {i \in Input : \A c \in C : i \in UNION c}

\* The assertions on the way to branch k of a path: all of them, and the kept ones.
Asserted(p, k) == UNION {Slice[p][m].kept \cup Slice[p][m].dropped : m \in 1 .. k}
Kept(p, k) == UNION {Slice[p][m].kept : m \in 1 .. k}
-----------------------------------------------------------------------------
PathInit ==
  /\ frontier = <<>> /\ frontierSet = {}
  /\ explored = <<>> /\ exploredSet = {}
  /\ stage = "idle" /\ path = CHOOSE p \in Path : TRUE
  /\ pos = 1 /\ canon = {} /\ list = <<>> /\ todo = {} /\ given = {}

\* processSlice starts with an empty PathConstraintBuilder.
BeginSlice(p) ==
  /\ stage = "idle"
  /\ stage' = "branch" /\ path' = p
  /\ pos' = 1 /\ canon' = {} /\ list' = <<>> /\ todo' = {}
  /\ UNCHANGED <<frontier, explored, seen, given>>

Entry == Slice[path][pos]

\* kstate->constraints()
kstateConstraints == given \cup canon \cup Asserted(path, pos)

RedundantMay == Meaning(kstateConstraints) \cap UNION Entry.cond # {}

\* mustBeTrue: what was added so far implies the condition of this branch.
Redundant == Meaning(kstateConstraints) \subseteq UNION Entry.cond

SkipBranch ==
  /\ stage = "branch" /\ pos \in DOMAIN Slice[path]
  /\ Redundant
  /\ pos' = pos + 1
  /\ UNCHANGED <<frontier, explored, seen, stage, path, canon, list, todo, given>>

TakeBranch ==
  /\ stage = "branch" /\ pos \in DOMAIN Slice[path]
  /\ ~Redundant
  /\ todo' = Entry.flips
  /\ stage' = "flips"
  /\ UNCHANGED <<frontier, explored, seen, path, pos, canon, list, given>>

alreadySeen(C) == C \in exploredSet \cup frontierSet

\* The extra invariants of pcBuilder.
extraInvariants == given \cup Kept(path, pos)

\* flippedConditions is a map ordered by expression: its order is arbitrary.
PushFlip ==
  /\ stage = "flips"
  /\ \E f \in todo :
       LET flipped == canon \cup {{f}} IN
       /\ todo' = todo \ {f}
       /\ \/ /\ ~alreadySeen(flipped)
             /\ frontier' = Append(frontier, [canon |-> flipped, extra |-> extraInvariants])
             /\ frontierSet' = frontierSet \cup {flipped}
          \/ alreadySeen(flipped) /\ UNCHANGED <<frontier, frontierSet>>
  /\ UNCHANGED <<explored, exploredSet, stage, path, pos, canon, list, given>>

ExtensionsAll(cond) == {canon \cup {cond}} \cup {canon \cup {{a}} : a \in cond \cup Entry.flips}

\* What addExplored adds for a condition: the longer path constraint, and the
\* ones with each disjunct alone.
Extensions(cond) == {canon \cup {cond}} \cup {canon \cup {{a}} : a \in cond}

addExplored ==
  /\ stage = "flips" /\ todo = {}
  /\ exploredSet' = exploredSet \cup Extensions(Entry.cond)
  /\ canon' = canon \cup {Entry.cond}
  /\ list' = Append(list, [cond |-> Entry.cond, node |-> Entry.node])
  /\ pos' = pos + 1
  /\ stage' = "branch"
  /\ UNCHANGED <<frontier, explored, frontierSet, path, todo, given>>

EndSlice ==
  /\ stage = "branch" /\ pos \notin DOMAIN Slice[path]
  /\ explored' = Append(explored, [path |-> path, list |-> list])
  /\ stage' = "subsume" /\ pos' = 1
  /\ UNCHANGED <<frontier, seen, path, canon, list, todo, given>>

\* _frontier.erase(_frontier.begin() + i)
Without(s, k) == [j \in 1 .. Len(s) - 1 |-> IF j < k THEN s[j] ELSE s[j + 1]]

\* The last loop: erase what the path has explored from the frontier.
Subsume ==
  /\ stage = "subsume" /\ pos \in DOMAIN frontier
  /\ \/ /\ frontier[pos].canon \in exploredSet
        /\ frontier' = Without(frontier, pos)
        /\ UNCHANGED pos
     \/ /\ frontier[pos].canon \notin exploredSet
        /\ pos' = pos + 1
        /\ UNCHANGED frontier
  /\ UNCHANGED <<explored, seen, stage, path, canon, list, todo, given>>

processSlice ==
  SkipBranch \/ TakeBranch \/ PushFlip \/ addExplored \/ EndSlice \/ Subsume

\* processSlice returns, and its locals are gone.
EndSubsume ==
  /\ stage = "subsume" /\ pos \notin DOMAIN frontier
  /\ stage' = "idle"
  /\ pos' = 1 /\ canon' = {} /\ list' = <<>>
  /\ UNCHANGED <<frontier, explored, seen, path, todo, given>>

\* pop_front; the caches keep the entry.  Which extra invariants the conditions
\* depend on (getDependentConstraintsSet) is left open.
instantiateNextInput ==
  /\ frontier # <<>>
  /\ given' \in SUBSET Head(frontier).extra
  /\ frontier' = Tail(frontier)
  /\ UNCHANGED <<explored, seen, builder>>
=============================================================================
